------------------------- MODULE RequestGateProofs -------------------------
(***************************************************************************)
(* Theorems about Directory and RequestGate, for any users, teams,         *)
(* projects and presets, any number of workers and of requests.            *)
(***************************************************************************)
EXTENDS RequestGate, TLAPS

---------------------------------------------------------------------------
\* The writes of the directory keep the tables typed.
LEMMA UserWritesTyped ==
  ASSUME NEW t \in Tables, NEW u \in Users, NEW row \in UserRow
  PROVE  /\ SaveUser(t, u, row) \in Tables
         /\ DeleteUser(t, u) \in Tables
  BY DEF Tables, SaveUser, DeleteUser, Naming

LEMMA TeamWritesTyped ==
  ASSUME NEW t \in Tables, NEW k \in Teams, NEW u \in Users
  PROVE  /\ CreateTeam(t, k) \in Tables
         /\ ClearMembers(t, k) \in Tables
         /\ ClearRoles(t, k) \in Tables
         /\ RemoveTeam(t, k) \in Tables
         /\ AddMember(t, k, u) \in Tables
         /\ RemoveMember(t, k, u) \in Tables
         /\ Invite(t, k, u) \in Tables
         /\ DeleteInvite(t, k, u) \in Tables
         /\ JoinInvited(t, u) \in Tables
         /\ ClearInvites(t, u) \in Tables
<1>1. CreateTeam(t, k) \in Tables
  BY DEF Tables, CreateTeam
<1>2. ClearMembers(t, k) \in Tables
  BY DEF Tables, ClearMembers, Naming
<1>3. ASSUME NEW s \in Tables PROVE ClearRoles(s, k) \in Tables
  BY DEF Tables, ClearRoles, Naming
<1>4. ASSUME NEW s \in Tables PROVE [s EXCEPT !.team = @ \ {k}, !.invite = @ \ Naming(@, 1, k)] \in Tables
  BY DEF Tables, Naming
<1>5. RemoveTeam(t, k) \in Tables
  BY <1>2, <1>3, <1>4 DEF RemoveTeam
<1>6. AddMember(t, k, u) \in Tables
  <2>1. t.member \cup {<<k, u>>} \in SUBSET (Teams \X Users)
    BY DEF Tables
  <2> QED
    BY <2>1 DEF Tables, AddMember
<1>7. RemoveMember(t, k, u) \in Tables
  BY DEF Tables, RemoveMember
<1>8. Invite(t, k, u) \in Tables
  <2>1. t.invite \cup {<<k, u>>} \in SUBSET (Teams \X Users)
    BY DEF Tables
  <2> QED
    BY <2>1 DEF Tables, Invite
<1>9. DeleteInvite(t, k, u) \in Tables
  BY DEF Tables, DeleteInvite
<1>10. JoinInvited(t, u) \in Tables
  BY DEF Tables, JoinInvited, Naming
<1>11. ClearInvites(t, u) \in Tables
  BY DEF Tables, ClearInvites, Naming
<1> QED
  BY <1>1, <1>2, <1>3, <1>5, <1>6, <1>7, <1>8, <1>9, <1>10, <1>11

LEMMA ProjectWritesTyped ==
  ASSUME NEW t \in Tables, NEW p \in Projects, NEW u \in Users, NEW names \in SUBSET Builtin
  PROVE  /\ AddAdmin(t, p, u) \in Tables
         /\ RemoveAdmin(t, p, u) \in Tables
         /\ InsertProject(t, p) \in Tables
         /\ SeedBuiltinPresets(t, p, names) \in Tables
         /\ DeleteProject(t, p) \in Tables
<1>1. AddAdmin(t, p, u) \in Tables
  <2>1. t.admin \cup {<<p, u>>} \in SUBSET (Projects \X Users)
    BY DEF Tables
  <2> QED
    BY <2>1 DEF Tables, AddAdmin
<1>2. RemoveAdmin(t, p, u) \in Tables
  BY DEF Tables, RemoveAdmin
<1>3. InsertProject(t, p) \in Tables
  BY DEF Tables, InsertProject
<1>4. SeedBuiltinPresets(t, p, names) \in Tables
  <2>1. [n \in PresetNames |-> IF n \in names THEN n ELSE t.preset[p][n]]
          \in [PresetNames -> Lists \cup {"none"}]
    BY DEF Tables, Lists
  <2> QED
    BY <2>1 DEF Tables, SeedBuiltinPresets
<1>5. DeleteProject(t, p) \in Tables
  <2>1. NoPresets \in [PresetNames -> Lists \cup {"none"}]
    BY DEF NoPresets
  <2> QED
    BY <2>1 DEF Tables, DeleteProject, Naming
<1> QED
  BY <1>1, <1>2, <1>3, <1>4, <1>5

LEMMA RightsWritesTyped ==
  ASSUME NEW t \in Tables, NEW p \in Projects, NEW k \in Teams, NEW names \in SUBSET PresetNames
  PROVE  /\ GrantPresets(t, p, k, names) \in Tables
         /\ UnassignTeam(t, p, k) \in Tables
<1>1. {<<p, k, n>> : n \in names} \in SUBSET (Projects \X Teams \X PresetNames)
  OBVIOUS
<1>2. Ungrant(t, p, k) \in SUBSET (Projects \X Teams \X PresetNames)
  BY DEF Ungrant, Tables
<1> HIDE DEF Ungrant
<1>3. Ungrant(t, p, k) \cup {<<p, k, n>> : n \in names} \in SUBSET (Projects \X Teams \X PresetNames)
  BY <1>1, <1>2
<1>4. /\ t.role \cup {<<p, k>>} \in SUBSET (Projects \X Teams)
      /\ t.role \ {<<p, k>>} \in SUBSET (Projects \X Teams)
  BY DEF Tables
<1>5. ASSUME NEW G \in SUBSET (Projects \X Teams \X PresetNames),
             NEW R \in SUBSET (Projects \X Teams)
      PROVE  [t EXCEPT !.role = R, !.grant = G] \in Tables
  BY DEF Tables
<1> QED
  BY <1>2, <1>3, <1>4, <1>5 DEF GrantPresets, UnassignTeam

LEMMA PresetWritesTyped ==
  ASSUME NEW t \in Tables, NEW p \in Projects, NEW n, NEW list \in Lists
  PROVE  /\ n \in PresetNames => SavePreset(t, p, n, list) \in Tables
         /\ DeletePreset(t, p, n) \in Tables
<1>1. ASSUME NEW v \in Lists \cup {"none"}
      PROVE  [t.preset EXCEPT ![p][n] = v] \in [Projects -> [PresetNames -> Lists \cup {"none"}]]
  BY DEF Tables
<1>2. SavePreset(t, p, n, list) \in Tables
  BY <1>1 DEF Tables, SavePreset
<1>3. DeletePreset(t, p, n) \in Tables
  BY <1>1 DEF Tables, DeletePreset
<1> QED
  BY <1>2, <1>3

LEMMA TokenWritesTyped ==
  ASSUME NEW t \in Tables, NEW u \in Users
  PROVE  /\ CreateToken(t, u) \in Tables
         /\ t.tokens[u] > 0 => RevokeToken(t, u) \in Tables
<1>1. t.tokens \in [Users -> Nat]
  BY DEF Tables
<1>2. [t.tokens EXCEPT ![u] = @ + 1] \in [Users -> Nat]
  BY <1>1
<1>3. t.tokens[u] > 0 => [t.tokens EXCEPT ![u] = @ - 1] \in [Users -> Nat]
  BY <1>1
<1>4. ASSUME NEW T \in [Users -> Nat] PROVE [t EXCEPT !.tokens = T] \in Tables
  BY DEF Tables
<1>5. /\ CreateToken(t, u) = [t EXCEPT !.tokens = [t.tokens EXCEPT ![u] = @ + 1]]
      /\ RevokeToken(t, u) = [t EXCEPT !.tokens = [t.tokens EXCEPT ![u] = @ - 1]]
  BY DEF CreateToken, RevokeToken
<1> QED
  BY <1>2, <1>3, <1>4, <1>5

---------------------------------------------------------------------------
\* The writes of the directory keep the tables consistent.
LEMMA UserWritesConsistent ==
  ASSUME NEW t \in Tables, Consistent(t), NEW u \in Users, NEW row \in UserRow
  PROVE  /\ Consistent(SaveUser(t, u, row))
         /\ Consistent(DeleteUser(t, u))
<1>1. row # NoUser
  BY DEF UserRow, NoUser
<1>2. Consistent(SaveUser(t, u, row))
  BY <1>1 DEF Consistent, SaveUser, Tables
<1>3. Consistent(DeleteUser(t, u))
  BY DEF Consistent, DeleteUser, Tables, Naming
<1> QED
  BY <1>2, <1>3

LEMMA TeamWritesConsistent ==
  ASSUME NEW t \in Tables, Consistent(t), NEW k \in Teams, NEW u \in Users
  PROVE  /\ Consistent(CreateTeam(t, k))
         /\ Consistent(ClearMembers(t, k))
         /\ Consistent(ClearRoles(t, k))
         /\ Consistent(RemoveTeam(t, k))
         /\ CanAddMember(t, k, u) => Consistent(AddMember(t, k, u))
         /\ Consistent(RemoveMember(t, k, u))
         /\ CanInvite(t, k, u) => Consistent(Invite(t, k, u))
         /\ Consistent(DeleteInvite(t, k, u))
         /\ t.user[u] # NoUser => Consistent(JoinInvited(t, u))
         /\ Consistent(ClearInvites(t, u))
<1>1. Consistent(CreateTeam(t, k))
  BY DEF Tables, Consistent, CreateTeam
<1>2. Consistent(ClearMembers(t, k))
  BY DEF Tables, Consistent, ClearMembers, Naming
<1>3. Consistent(ClearRoles(t, k))
  BY DEF Tables, Consistent, ClearRoles, Naming
<1>5. Consistent(RemoveTeam(t, k))
  BY DEF Tables, Consistent, RemoveTeam, ClearRoles, ClearMembers, Naming
<1>6. CanAddMember(t, k, u) => Consistent(AddMember(t, k, u))
  BY DEF Tables, Consistent, AddMember, CanAddMember
<1>7. Consistent(RemoveMember(t, k, u))
  BY DEF Tables, Consistent, RemoveMember
<1>8. CanInvite(t, k, u) => Consistent(Invite(t, k, u))
  BY DEF Tables, Consistent, Invite, CanInvite
<1>9. Consistent(DeleteInvite(t, k, u))
  BY DEF Tables, Consistent, DeleteInvite
<1>10. t.user[u] # NoUser => Consistent(JoinInvited(t, u))
  BY DEF Tables, Consistent, JoinInvited, Naming
<1>11. Consistent(ClearInvites(t, u))
  BY DEF Tables, Consistent, ClearInvites, Naming
<1> QED
  BY <1>1, <1>2, <1>3, <1>5, <1>6, <1>7, <1>8, <1>9, <1>10, <1>11

LEMMA ProjectWritesConsistent ==
  ASSUME NEW t \in Tables, Consistent(t), NEW p \in Projects, NEW u \in Users,
         NEW names \in SUBSET Builtin
  PROVE  /\ CanAddAdmin(t, p, u) => Consistent(AddAdmin(t, p, u))
         /\ Consistent(RemoveAdmin(t, p, u))
         /\ Consistent(InsertProject(t, p))
         /\ Consistent(SeedBuiltinPresets(t, p, names))
         /\ Consistent(DeleteProject(t, p))
<1>1. CanAddAdmin(t, p, u) => Consistent(AddAdmin(t, p, u))
  BY DEF Tables, Consistent, AddAdmin, CanAddAdmin
<1>2. Consistent(RemoveAdmin(t, p, u))
  BY DEF Tables, Consistent, RemoveAdmin
<1>3. Consistent(InsertProject(t, p))
  BY DEF Tables, Consistent, InsertProject
<1>4. Consistent(SeedBuiltinPresets(t, p, names))
  BY DEF Tables, Consistent, SeedBuiltinPresets, Builtin
<1>5. Consistent(DeleteProject(t, p))
  BY DEF Tables, Consistent, DeleteProject, Naming
<1> QED
  BY <1>1, <1>2, <1>3, <1>4, <1>5

LEMMA RightsWritesConsistent ==
  ASSUME NEW t \in Tables, Consistent(t), NEW p \in Projects, NEW k \in Teams,
         NEW names \in SUBSET PresetNames
  PROVE  /\ CanAssignTeam(t, p, k, names) => Consistent(GrantPresets(t, p, k, names))
         /\ CanUpdatePresets(t, p, k, names) => Consistent(GrantPresets(t, p, k, names))
         /\ Consistent(UnassignTeam(t, p, k))
<1>1. CanAssignTeam(t, p, k, names) => Consistent(GrantPresets(t, p, k, names))
  BY DEF Tables, Consistent, GrantPresets, Ungrant, CanAssignTeam, PresetsExist
<1>2. CanUpdatePresets(t, p, k, names) => Consistent(GrantPresets(t, p, k, names))
  BY DEF Tables, Consistent, GrantPresets, Ungrant, CanUpdatePresets, PresetsExist
<1>3. Consistent(UnassignTeam(t, p, k))
  BY DEF Tables, Consistent, UnassignTeam, Ungrant
<1> QED
  BY <1>1, <1>2, <1>3

LEMMA PresetWritesConsistent ==
  ASSUME NEW t \in Tables, Consistent(t), NEW p \in Projects, NEW n, NEW list \in Lists
  PROVE  /\ list # "none" => Consistent(SavePreset(t, p, n, list))
         /\ Consistent(DeletePreset(t, p, n))
<1>1. list # "none" => Consistent(SavePreset(t, p, n, list))
  BY DEF Tables, Consistent, SavePreset
<1>2. Consistent(DeletePreset(t, p, n))
  BY DEF Tables, Consistent, DeletePreset
<1> QED
  BY <1>1, <1>2

LEMMA TokenWritesConsistent ==
  ASSUME NEW t \in Tables, Consistent(t), NEW u \in Users
  PROVE  /\ t.user[u] # NoUser => Consistent(CreateToken(t, u))
         /\ t.tokens[u] > 0 => Consistent(RevokeToken(t, u))
  BY DEF Tables, Consistent, CreateToken, RevokeToken

---------------------------------------------------------------------------
\* The requests.  The invariant keeps, of an open request: who and what it is
\* about; its remaining steps are about the class it needs standing for; a row
\* to be saved is at hand or read by the step before; and until its caller has
\* been seen with that standing, a sufficient check comes before it acts.
RowsRead == {<<>>} \cup {<<x>> : x \in Users \cup Custom} \cup (Users \X (UserRow \cup {NoUser}))
Located == [user : Users \cup {"none"}, role : {"owner", "user", "none"},
            project : Projects \cup {"none"}, team : Teams \cup {"none"},
            todo : Seq(Step), row : RowsRead, had : BOOLEAN,
            needs : {Needs(Steps(e)) : e \in AllEndpoints} \cup {"none"}]
Matched(todo, class) == \A i \in 1..Len(todo) :
    /\ Acts(todo[i]) /\ Class(todo[i][2]) \in {"platform", "teams"} => Class(todo[i][2]) = class
    /\ todo[i][2] = "member.addInvitee" => class = "platform"
Ready(todo, row) == \A i \in 1..Len(todo) :
    /\ todo[i] = SaveOf("user") =>
          IF i = 1 THEN row \in Users \X UserRow ELSE todo[i - 1] = <<"read", "user">>
    /\ todo[i] = SaveOf("self") =>
          IF i = 1 THEN row \in Users \X UserRow ELSE todo[i - 1] = <<"read", "self">>
    /\ todo[i][2] \in {"invite.add", "member.addInvitee"} => i = 1 /\ row[1] \in Users
Running(l) == /\ l.user \in Users /\ l.project \in Projects /\ l.team \in Teams
              /\ Matched(l.todo, l.needs) /\ Ready(l.todo, l.row)
Safe(l) == \/ l = Idle
           \/ /\ Running(l) /\ l.todo # <<>>
              /\ l.had \/ ChecksFirst(l.todo, l.needs)
GateInv == /\ d \in Tables /\ Consistent(d)
           /\ begun \in 0..MaxChanging
           /\ loc \in [Workers -> Located]
           /\ \A w \in Workers : Safe(loc[w])

LEMMA IdleLocated == Idle \in Located
  BY DEF Idle, Located, RowsRead

LEMMA ObservedSafe ==
  ASSUME NEW l \in Located, NEW t,
         l.todo # <<>> => /\ Running(l)
                          /\ l.had \/ ChecksFirst(l.todo, l.needs) \/ Standing(t, l)
  PROVE  Observed(l, t) \in Located /\ Safe(Observed(l, t))
<1>1. CASE l.todo = <<>>
  BY <1>1, IdleLocated DEF Observed, Safe
<1>2. CASE l.todo # <<>>
  <2> DEFINE o == [l EXCEPT !.had = @ \/ Standing(t, l)]
  <2>1. Observed(l, t) = o
    BY <1>2 DEF Observed
  <2>2. /\ o.user = l.user /\ o.project = l.project /\ o.team = l.team /\ o.todo = l.todo
        /\ o.row = l.row /\ o.needs = l.needs
        /\ o.had <=> l.had \/ Standing(t, l)
        /\ o.had \in BOOLEAN
    BY DEF Located
  <2>3. o \in Located
    BY DEF Located
  <2> HIDE DEF o
  <2>4. Safe(o)
    BY <1>2, <2>2 DEF Safe, Running
  <2> QED
    BY <2>1, <2>3, <2>4
<1> QED
  BY <1>1, <1>2

\* One step of one request keeps every request safe.
LEMMA GoSafe ==
  ASSUME GateInv, NEW w \in Workers, NEW l \in Located, NEW t, Go(w, l, t),
         l.todo # <<>> => /\ Running(l)
                          /\ l.had \/ ChecksFirst(l.todo, l.needs) \/ Standing(t, l)
  PROVE  /\ loc' \in [Workers -> Located]
         /\ \A v \in Workers : Safe(loc'[v])
         /\ d' = t
<1>1. loc \in [Workers -> Located] /\ \A v \in Workers : Safe(loc[v])
  BY DEF GateInv
<1>2. ASSUME NEW v \in Workers, v # w
      PROVE  Observed(loc[v], t) \in Located /\ Safe(Observed(loc[v], t))
  <2>1. loc[v] \in Located
    BY <1>1
  <2>2. loc[v].todo # <<>> => Running(loc[v]) /\ (loc[v].had \/ ChecksFirst(loc[v].todo, loc[v].needs))
    BY <1>1 DEF Safe, Idle
  <2> QED
    BY <2>1, <2>2, ObservedSafe
<1>3. Observed(l, t) \in Located /\ Safe(Observed(l, t))
  BY ObservedSafe
<1>4. loc' = [v \in Workers |-> Observed(IF v = w THEN l ELSE loc[v], t)] /\ d' = t
  BY DEF Go
<1>5. \A v \in Workers : Observed(IF v = w THEN l ELSE loc[v], t) =
                         IF v = w THEN Observed(l, t) ELSE Observed(loc[v], t)
  OBVIOUS
<1> QED
  BY <1>2, <1>3, <1>4, <1>5

---------------------------------------------------------------------------
\* What remains of a program after its first step.
LEMMA TailIndex ==
  ASSUME NEW S, NEW todo \in Seq(S), todo # <<>>
  PROVE  /\ Tail(todo) \in Seq(S) /\ Len(Tail(todo)) = Len(todo) - 1 /\ Len(todo) \in Nat \ {0}
         /\ Head(todo) = todo[1] /\ todo[1] \in S
         /\ \A i \in 1..Len(Tail(todo)) : Tail(todo)[i] = todo[i + 1] /\ i + 1 \in 1..Len(todo)
  OBVIOUS

LEMMA TailMatched ==
  ASSUME NEW todo \in Seq(Step), todo # <<>>, NEW class, Matched(todo, class)
  PROVE  Matched(Tail(todo), class)
  BY TailIndex DEF Matched

LEMMA TailReady ==
  ASSUME NEW todo \in Seq(Step), todo # <<>>, NEW row, NEW r, Ready(todo, row),
         todo[1] \in {<<"read", "user">>, <<"read", "self">>} => r \in Users \X UserRow
  PROVE  Ready(Tail(todo), r)
<1> SUFFICES ASSUME NEW i \in 1..Len(Tail(todo))
             PROVE  /\ Tail(todo)[i] = SaveOf("user") =>
                         IF i = 1 THEN r \in Users \X UserRow ELSE Tail(todo)[i - 1] = <<"read", "user">>
                    /\ Tail(todo)[i] = SaveOf("self") =>
                         IF i = 1 THEN r \in Users \X UserRow ELSE Tail(todo)[i - 1] = <<"read", "self">>
                    /\ Tail(todo)[i][2] \in {"invite.add", "member.addInvitee"}
                         => i = 1 /\ r[1] \in Users
  BY DEF Ready
<1>1. i \in Nat /\ i >= 1 /\ i + 1 \in 1..Len(todo) /\ i + 1 # 1 /\ Tail(todo)[i] = todo[i + 1]
  BY TailIndex
<1>2. i # 1 => i - 1 \in 1..Len(Tail(todo)) /\ Tail(todo)[i - 1] = todo[i]
  <2>1. i # 1 => i - 1 \in 1..Len(Tail(todo)) /\ (i - 1) + 1 = i
    OBVIOUS
  <2> QED
    BY <2>1, TailIndex
<1>3. /\ todo[i + 1] = SaveOf("user") => todo[i] = <<"read", "user">>
      /\ todo[i + 1] = SaveOf("self") => todo[i] = <<"read", "self">>
      /\ todo[i + 1][2] \notin {"invite.add", "member.addInvitee"}
  <2>1. (i + 1) - 1 = i
    BY <1>1
  <2> QED
    BY <1>1, <2>1 DEF Ready
<1> QED
  BY <1>1, <1>2, <1>3

\* A step that does not act and whose check does not suffice leaves the
\* sufficient check ahead.
LEMMA TailChecksFirst ==
  ASSUME NEW todo \in Seq(Step), todo # <<>>, NEW class, ChecksFirst(todo, class),
         ~(todo[1][1] = "check" /\ class \in Establishes(todo[1][2]))
  PROVE  ChecksFirst(Tail(todo), class) /\ ~Acts(todo[1])
<1>1. PICK i \in 1..Len(todo) : /\ todo[i][1] = "check" /\ class \in Establishes(todo[i][2])
                                /\ \A j \in 1..(i - 1) : ~Acts(todo[j])
  BY DEF ChecksFirst
<1>2. i # 1 /\ 1 \in 1..(i - 1)
  BY <1>1
<1>3. i - 1 \in 1..Len(Tail(todo)) /\ Tail(todo)[i - 1] = todo[i]
  <2>1. i - 1 \in 1..Len(Tail(todo)) /\ (i - 1) + 1 = i
    BY <1>2, TailIndex
  <2> QED
    BY <2>1, TailIndex
<1>4. ASSUME NEW j \in 1..((i - 1) - 1) PROVE ~Acts(Tail(todo)[j])
  <2>1. j \in 1..Len(Tail(todo)) /\ j + 1 \in 1..(i - 1)
    BY <1>3
  <2> QED
    BY <1>1, <2>1, TailIndex
<1> QED
  BY <1>1, <1>2, <1>3, <1>4 DEF ChecksFirst

---------------------------------------------------------------------------
LEMMA OpenRequest ==
  ASSUME GateInv, NEW w \in Workers, loc[w].todo # <<>>
  PROVE  /\ loc[w] \in Located /\ loc[w].todo \in Seq(Step)
         /\ Running(loc[w]) /\ loc[w] # Idle
         /\ loc[w].had \/ ChecksFirst(loc[w].todo, loc[w].needs)
         /\ Head(loc[w].todo) = loc[w].todo[1] /\ loc[w].todo[1] \in Step
<1>1. loc[w] \in Located /\ loc[w] # Idle
  BY DEF GateInv, Idle
<1>2. loc[w].todo \in Seq(Step)
  BY <1>1 DEF Located
<1>3. Running(loc[w]) /\ (loc[w].had \/ ChecksFirst(loc[w].todo, loc[w].needs))
  BY <1>1 DEF GateInv, Safe
<1> QED
  BY <1>1, <1>2, <1>3, TailIndex

\* A request that comes to act has had the standing it needs.
LEMMA ActsHad ==
  ASSUME GateInv, NEW w \in Workers, loc[w].todo # <<>>, Acts(Head(loc[w].todo))
  PROVE  loc[w].had
<1>1. loc[w].todo[1][1] # "check"
  BY OpenRequest DEF Acts
<1>2. ~ChecksFirst(loc[w].todo, loc[w].needs)
  BY <1>1, OpenRequest, TailChecksFirst
<1> QED
  BY <1>2, OpenRequest

\* The request after its first step, with the row that a read left.
LEMMA RestWith ==
  ASSUME GateInv, NEW w \in Workers, loc[w].todo # <<>>, NEW r \in RowsRead,
         Head(loc[w].todo) \in {<<"read", "user">>, <<"read", "self">>} => r \in Users \X UserRow,
         NEW l, l = [Rest(w) EXCEPT !.row = r]
  PROVE  /\ l \in Located /\ Running(l)
         /\ l.todo = Tail(loc[w].todo) /\ l.had = loc[w].had /\ l.needs = loc[w].needs
<1> DEFINE m == loc[w]
<1>1. /\ m \in Located /\ m.todo \in Seq(Step) /\ Running(m)
      /\ Head(m.todo) = m.todo[1] /\ m.todo # <<>>
  BY OpenRequest
<1>2. l = [m EXCEPT !.todo = Tail(m.todo), !.row = r]
  BY <1>1 DEF Rest, Located
<1> HIDE DEF m
<1>3. Tail(m.todo) \in Seq(Step)
  BY <1>1, TailIndex
<1>4. /\ l \in Located
      /\ l.user = m.user /\ l.project = m.project /\ l.team = m.team /\ l.todo = Tail(m.todo)
      /\ l.row = r /\ l.had = m.had /\ l.needs = m.needs
  BY <1>1, <1>2, <1>3 DEF Located
<1>5. Matched(l.todo, l.needs)
  BY <1>1, <1>4, TailMatched DEF Running
<1>6. Ready(l.todo, l.row)
  BY <1>1, <1>4, TailReady DEF Running, m
<1>7. Running(l)
  BY <1>1, <1>4, <1>5, <1>6 DEF Running
<1> QED
  BY <1>4, <1>7 DEF m

LEMMA RestAlone ==
  ASSUME GateInv, NEW w \in Workers, loc[w].todo # <<>>,
         Head(loc[w].todo) \notin {<<"read", "user">>, <<"read", "self">>}
  PROVE  /\ Rest(w) \in Located /\ Running(Rest(w))
         /\ Rest(w).todo = Tail(loc[w].todo) /\ Rest(w).had = loc[w].had
         /\ Rest(w).needs = loc[w].needs
<1>1. loc[w] \in Located
  BY OpenRequest
<1>2. loc[w].row \in RowsRead
  BY <1>1 DEF Located
<1>3. Rest(w) = [Rest(w) EXCEPT !.row = loc[w].row]
  BY <1>1 DEF Rest, Located
<1> QED
  BY <1>2, <1>3, RestWith

\* A step that acts and leaves typed and consistent tables keeps the invariant.
LEMMA ActSafe ==
  ASSUME GateInv, NEW w \in Workers, loc[w].todo # <<>>, Acts(Head(loc[w].todo)),
         NEW l \in Located, l.had = loc[w].had, l.todo # <<>> => Running(l),
         NEW t \in Tables, Consistent(t), Go(w, l, t), UNCHANGED begun
  PROVE  GateInv'
<1>1. l.had
  BY ActsHad
<1>2. /\ loc' \in [Workers -> Located] /\ \A v \in Workers : Safe(loc'[v])
      /\ d' = t
  BY <1>1, GoSafe
<1> QED
  BY <1>2 DEF GateInv

LEMMA ChangeSafe ==
  ASSUME GateInv, NEW w \in Workers, At(w, "write"), NEW t \in Tables, Consistent(t), Change(w, t)
  PROVE  GateInv'
<1>1. loc[w].todo # <<>> /\ Head(loc[w].todo)[1] = "write"
  BY DEF At
<1>2. Acts(Head(loc[w].todo)) /\ Head(loc[w].todo) \notin {<<"read", "user">>, <<"read", "self">>}
  BY <1>1 DEF Acts
<1> QED
  BY <1>1, <1>2, RestAlone, ActSafe DEF Change

---------------------------------------------------------------------------
\* A check that passes establishes the standing of the classes it is listed for.
LEMMA OwnerStanding ==
  ASSUME NEW l, NEW t, l.role = "owner", l.needs \in Resources
  PROVE  Standing(t, l)
  BY DEF Standing, Resources, HasPermission, HasTeamPermission, HasProjectAccess, IsOwnerOrAdmin

LEMMA CheckEstablishes ==
  ASSUME NEW l, NEW c, Passes(l, c), l.needs \in Establishes(c)
  PROVE  Standing(d, l)
<1>1. CASE c = "IsOwner"
  BY <1>1, OwnerStanding DEF Passes, Establishes, ClientPerms
<1>2. CASE c = "HasProjectAccess"
  BY <1>2 DEF Passes, Establishes, Standing, ClientPerms, HasProjectAccess
<1>3. CASE c = "IsOwnerOrAdmin"
  BY <1>3 DEF Passes, Establishes, Standing, ClientPerms, IsOwnerOrAdmin
<1>4. CASE c = "CanManageDomainTemplates"
  BY <1>4 DEF Passes, Establishes, Standing, ClientPerms, CanManageDomainTemplates, IsOwnerOrAdmin
<1>5. CASE c = "CanReadTemplates"
  BY <1>5 DEF Passes, Establishes, Standing, ClientPerms, CanManageDomainTemplates, CanManageDomains, IsOwnerOrAdmin, HasPermission, HasTeamPermission
<1>6. CASE c = "CanManageTeams"
  BY <1>6 DEF Passes, Establishes, Standing, ClientPerms, CanManageTeams
<1>7. CASE c = "CanViewAudit"
  BY <1>7 DEF Passes, Establishes, Standing, ClientPerms, CanViewAudit
<1>8. CASE c = "CanManageDomains"
  BY <1>8 DEF Passes, Establishes, Standing, ClientPerms, CanManageDomains
<1>9. CASE c = "CanCreateRoutes"
  BY <1>9 DEF Passes, Establishes, Standing, ClientPerms, CanCreateRoutes
<1>10. CASE c = "IsRouteTeam"
  BY <1>10 DEF Passes, Establishes, Standing, ClientPerms
<1>11. CASE c = "CanAccessTeamResource"
  BY <1>11 DEF Passes, Establishes, Standing, ClientPerms, CanAccessTeamResource
<1>12. CASE c = "IsTeamMember"
  BY <1>12 DEF Passes, Establishes, Standing, ClientPerms
<1>13. CASE c = "CanListTeams"
  BY <1>13 DEF Passes, Establishes, Standing, ClientPerms
<1>14. CASE c = "client.attach"
  BY <1>14 DEF Passes, Establishes, Standing, ClientPerms
<1>15. CASE c = "client.detach"
  BY <1>15 DEF Passes, Establishes, Standing, ClientPerms
<1>16. CASE c = "certificate.view"
  BY <1>16 DEF Passes, Establishes, Standing, ClientPerms, CanViewCertificates
<1>17. CASE c = "certificate.create"
  BY <1>17 DEF Passes, Establishes, Standing, ClientPerms, CanCreateCertificates
<1>18. CASE c = "certificate.edit"
  BY <1>18 DEF Passes, Establishes, Standing, ClientPerms, CanEditCertificates
<1>19. CASE c = "certificate.delete"
  BY <1>19 DEF Passes, Establishes, Standing, ClientPerms, CanManageCertificates
<1> QED
  BY <1>1, <1>2, <1>3, <1>4, <1>5, <1>6, <1>7, <1>8, <1>9, <1>10, <1>11, <1>12, <1>13, <1>14,
     <1>15, <1>16, <1>17, <1>18, <1>19 DEF Establishes

\* The standing depends on the caller, the target and the class alone.
LEMMA StandingOf ==
  ASSUME NEW l, NEW m, NEW t,
         l.user = m.user, l.role = m.role, l.project = m.project, l.team = m.team, l.needs = m.needs
  PROVE  Standing(t, l) = Standing(t, m)
  BY DEF Standing

---------------------------------------------------------------------------
\* The steps of a request, one lemma per action.
LEMMA OpenedSafe ==
  ASSUME NEW u \in Users, NEW role \in {"owner", "user", "none"}, NEW p \in Projects, NEW k \in Teams,
         NEW e \in AllEndpoints, NEW l, l = Opened(u, role, p, k, e), NEW t
  PROVE  /\ l \in Located /\ Running(l)
         /\ l.had \/ ChecksFirst(l.todo, l.needs) \/ Standing(t, l)
<1> DEFINE todo == Steps(e)
           class == Needs(todo)
<1>1. /\ todo \in Seq(Step)
      /\ Guarded(todo, class) /\ Uniform(todo, class)
      /\ ReadsBeforeSaves(todo) /\ Planned(todo)
  BY EndpointsAssumption
<1>2. class \in {Needs(Steps(x)) : x \in AllEndpoints} \cup {"none"}
  OBVIOUS
<1>3. l = [Idle EXCEPT !.user = u, !.role = role, !.project = p, !.team = k, !.todo = todo,
                       !.needs = class]
  BY DEF Opened
<1> HIDE DEF todo, class
<1>4. /\ l \in Located
      /\ l.user = u /\ l.project = p /\ l.team = k /\ l.todo = todo /\ l.row = <<>>
      /\ l.needs = class
  BY <1>1, <1>2, <1>3, IdleLocated DEF Located, Idle
<1>5. Matched(todo, class)
  BY <1>1 DEF Matched, Uniform, Planned
<1>6. Ready(todo, <<>>)
  BY <1>1 DEF Ready, ReadsBeforeSaves, Planned, Saves
<1>7. Running(l)
  BY <1>4, <1>5, <1>6 DEF Running
<1>8. class \in {"public", "any"} => Standing(t, l)
  BY <1>4 DEF Standing
<1> QED
  BY <1>1, <1>4, <1>7, <1>8 DEF Guarded

LEMMA OpenSafe ==
  ASSUME GateInv, NEW w \in Workers, NEW u \in Users, NEW role \in {"owner", "user", "none"},
         NEW p \in Projects, NEW k \in Teams, NEW e \in Serves[w], Open(w, Opened(u, role, p, k, e))
  PROVE  GateInv'
<1> DEFINE l == Opened(u, role, p, k, e)
<1>1. e \in AllEndpoints
  BY GateAssumption
<1>2. /\ l \in Located /\ Running(l)
      /\ l.had \/ ChecksFirst(l.todo, l.needs) \/ Standing(d, l)
  BY <1>1, OpenedSafe
<1>3. /\ Go(w, l, d)
      /\ IF Changes(l.todo) THEN begun < MaxChanging /\ begun' = begun + 1 ELSE UNCHANGED begun
  BY DEF Open
<1> HIDE DEF l
<1>4. begun' \in 0..MaxChanging
  BY <1>3, GateAssumption DEF GateInv
<1>5. /\ loc' \in [Workers -> Located] /\ \A v \in Workers : Safe(loc'[v])
      /\ d' = d
  BY <1>2, <1>3, GoSafe
<1> QED
  BY <1>4, <1>5 DEF GateInv

LEMMA BeginSafe ==
  ASSUME GateInv, NEW w \in Workers, BeginPublic(w) \/ Authenticate(w)
  PROVE  GateInv'
<1>1. CASE BeginPublic(w)
  BY <1>1, OpenSafe DEF BeginPublic
<1>2. CASE Authenticate(w)
  <2>1. PICK u \in Users, p \in Projects, k \in Teams, e \in Serves[w] \ Public :
          Open(w, Opened(u, d.user[u].role, p, k, e))
    BY <1>2 DEF Authenticate
  <2>2. d.user[u].role \in {"owner", "user", "none"}
    BY DEF GateInv, Tables, UserRow, NoUser
  <2> QED
    BY <2>1, <2>2, OpenSafe
<1> QED
  BY <1>1, <1>2

LEMMA RefuseSafe ==
  ASSUME GateInv, NEW w \in Workers, Refuse(w)
  PROVE  GateInv'
<1>1. Idle \in Located /\ Idle.todo = <<>>
  BY IdleLocated DEF Idle
<1>2. /\ loc' \in [Workers -> Located] /\ \A v \in Workers : Safe(loc'[v])
      /\ d' = d
  BY <1>1, GoSafe DEF Refuse
<1> QED
  BY <1>2 DEF Refuse, GateInv

LEMMA CheckSafe ==
  ASSUME GateInv, NEW w \in Workers, PermissionCheck(w)
  PROVE  GateInv'
<1> DEFINE m == loc[w]
           l == Rest(w)
<1>1. m.todo # <<>> /\ Head(m.todo)[1] = "check" /\ Passes(m, Head(m.todo)[2])
  BY DEF PermissionCheck, At, Arg
<1>2. /\ l \in Located /\ Running(l) /\ l.todo = Tail(m.todo) /\ l.had = m.had /\ l.needs = m.needs
  BY <1>1, RestAlone
<1>3. /\ m \in Located /\ m.todo \in Seq(Step) /\ Head(m.todo) = m.todo[1]
      /\ m.had \/ ChecksFirst(m.todo, m.needs)
  BY <1>1, OpenRequest
<1>4. /\ l.user = m.user /\ l.role = m.role /\ l.project = m.project /\ l.team = m.team
  BY <1>3 DEF Rest, Located
<1> HIDE DEF m, l
<1>7. l.had \/ ChecksFirst(l.todo, l.needs) \/ Standing(d, l)
  <2>1. CASE m.needs \in Establishes(m.todo[1][2])
    <3>1. Standing(d, m)
      BY <1>1, <1>3, <2>1, CheckEstablishes
    <3> QED
      BY <3>1, <1>2, <1>4, StandingOf
  <2>2. CASE m.needs \notin Establishes(m.todo[1][2])
    BY <1>1, <1>2, <1>3, <2>2, TailChecksFirst
  <2> QED
    BY <2>1, <2>2
<1>8. Go(w, l, d) /\ UNCHANGED begun
  BY DEF PermissionCheck, l
<1>9. /\ loc' \in [Workers -> Located] /\ \A v \in Workers : Safe(loc'[v])
      /\ d' = d
  BY <1>2, <1>7, <1>8, GoSafe
<1> QED
  BY <1>8, <1>9 DEF GateInv

LEMMA UseSafe ==
  ASSUME GateInv, NEW w \in Workers, UseResource(w) \/ ReadTokens(w)
  PROVE  GateInv'
<1>1. /\ loc[w].todo # <<>> /\ Head(loc[w].todo)[1] \in {"act", "read"}
      /\ Head(loc[w].todo)[1] = "read" => Head(loc[w].todo)[2] = "tokens"
      /\ Go(w, Rest(w), d) /\ UNCHANGED begun
  BY DEF UseResource, ReadTokens, At, Arg
<1>2. Acts(Head(loc[w].todo)) /\ Head(loc[w].todo) \notin {<<"read", "user">>, <<"read", "self">>}
  BY <1>1 DEF Acts
<1>3. d \in Tables /\ Consistent(d)
  BY DEF GateInv
<1> QED
  BY <1>1, <1>2, <1>3, RestAlone, ActSafe

\* A read that leaves row r for the step after it.
LEMMA ReadSafe ==
  ASSUME GateInv, NEW w \in Workers, At(w, "read"), NEW r \in RowsRead,
         Head(loc[w].todo) \in {<<"read", "user">>, <<"read", "self">>} => r \in Users \X UserRow,
         Go(w, [Rest(w) EXCEPT !.row = r], d), UNCHANGED begun
  PROVE  GateInv'
<1> DEFINE l == [Rest(w) EXCEPT !.row = r]
<1>1. loc[w].todo # <<>> /\ Acts(Head(loc[w].todo))
  BY DEF At, Acts
<1>2. l \in Located /\ Running(l) /\ l.had = loc[w].had
  BY <1>1, RestWith
<1>3. d \in Tables /\ Consistent(d)
  BY DEF GateInv
<1> QED
  BY <1>1, <1>2, <1>3, ActSafe

LEMMA ReadRowSafe ==
  ASSUME GateInv, NEW w \in Workers, ReadUser(w) \/ ReadSelf(w) \/ ReadPreset(w)
  PROVE  GateInv'
<1>1. d.user \in [Users -> UserRow \cup {NoUser}]
  BY DEF GateInv, Tables
<1>2. CASE ReadUser(w)
  <2>1. PICK u \in Users, on \in BOOLEAN :
          /\ d.user[u] # NoUser
          /\ Go(w, [Rest(w) EXCEPT !.row = <<u, [d.user[u] EXCEPT !.active = on]>>], d)
    BY <1>2 DEF ReadUser
  <2>2. [d.user[u] EXCEPT !.active = on] \in UserRow
    BY <1>1, <2>1 DEF UserRow
  <2>3. <<u, [d.user[u] EXCEPT !.active = on]>> \in Users \X UserRow
    BY <2>2
  <2> QED
    BY <1>2, <2>1, <2>3, ReadSafe DEF ReadUser, RowsRead
<1>3. CASE ReadSelf(w)
  <2>1. loc[w].user \in Users
    BY <1>3, OpenRequest DEF ReadSelf, At, Running
  <2>2. <<loc[w].user, d.user[loc[w].user]>> \in Users \X UserRow
    BY <1>1, <1>3, <2>1 DEF ReadSelf
  <2> QED
    BY <1>3, <2>2, ReadSafe DEF ReadSelf, RowsRead
<1>4. CASE ReadPreset(w)
  <2>1. PICK n \in Custom : Go(w, [Rest(w) EXCEPT !.row = <<n>>], d)
    BY <1>4 DEF ReadPreset
  <2>2. <<n>> \in RowsRead
    BY DEF RowsRead
  <2>3. At(w, "read") /\ Arg(w) = "preset" /\ UNCHANGED begun
    BY <1>4 DEF ReadPreset
  <2>4. Head(loc[w].todo) \notin {<<"read", "user">>, <<"read", "self">>}
    BY <2>3 DEF Arg
  <2> QED
    BY <2>1, <2>2, <2>3, <2>4, ReadSafe
<1> QED
  BY <1>2, <1>3, <1>4

LEMMA OneStep ==
  ASSUME NEW S, NEW x \in S, NEW s, s = <<x>>
  PROVE  s \in Seq(S) /\ Len(s) = 1 /\ s[1] = x
  OBVIOUS

LEMMA ThreeSteps ==
  ASSUME NEW S, NEW x \in S, NEW y \in S, NEW z \in S, NEW s, s = <<x, y, z>>
  PROVE  s \in Seq(S) /\ Len(s) = 3 /\ s[1] = x /\ s[2] = y /\ s[3] = z
  OBVIOUS

LEMMA Prepended ==
  ASSUME NEW S, NEW x \in S, NEW todo \in Seq(S), NEW s, s = <<x>> \o todo
  PROVE  /\ s \in Seq(S) /\ Len(s) = Len(todo) + 1 /\ Len(todo) \in Nat /\ s[1] = x
         /\ \A i \in 2..Len(s) : s[i] = todo[i - 1] /\ i - 1 \in 1..Len(todo)
<1> DEFINE h == <<x>>
<1>1. h \in Seq(S) /\ Len(h) = 1 /\ h[1] = x
  BY OneStep
<1>2. s = h \o todo
  OBVIOUS
<1> HIDE DEF h
<1> QED
  BY <1>1, <1>2

\* What AddMemberByEmail decides becomes the next step.
LEMMA PrependReady ==
  ASSUME NEW todo \in Seq(Step), Ready(todo, <<>>), Matched(todo, "platform"),
         \A i \in 1..Len(todo) : todo[i][2] \notin {"invite.add", "member.addInvitee"},
         todo # <<>> => todo[1] \notin {SaveOf("user"), SaveOf("self")},
         NEW u \in Users, NEW x \in {"invite.add", "member.addInvitee"},
         NEW s, s = Write(x) \o todo
  PROVE  s \in Seq(Step) /\ Ready(s, <<u>>) /\ Matched(s, "platform")
<1>1. /\ s \in Seq(Step) /\ Len(s) = Len(todo) + 1 /\ Len(todo) \in Nat
      /\ s[1] = <<"write", x>>
      /\ \A i \in 2..Len(s) : s[i] = todo[i - 1] /\ i - 1 \in 1..Len(todo)
  <2>1. <<"write", x>> \in Step
    BY DEF Step, PlatformSteps
  <2>2. s = << <<"write", x>> >> \o todo
    BY DEF Write
  <2> QED
    BY <2>1, <2>2, Prepended
<1>2. Matched(s, "platform")
  <2> SUFFICES ASSUME NEW i \in 1..Len(s)
               PROVE  /\ Acts(s[i]) /\ Class(s[i][2]) \in {"platform", "teams"} => Class(s[i][2]) = "platform"
                      /\ s[i][2] = "member.addInvitee" => "platform" = "platform"
    BY DEF Matched
  <2>1. CASE i = 1
    <3>1. Class(x) # "teams"
      BY DEF Class, PlatformSteps, TeamSteps, OwnSteps, SignInSteps
    <3> QED
      BY <1>1, <2>1, <3>1
  <2>2. CASE i # 1
    BY <1>1, <2>2 DEF Matched
  <2> QED
    BY <2>1, <2>2
<1>3. Ready(s, <<u>>)
  <2> SUFFICES ASSUME NEW i \in 1..Len(s)
               PROVE  /\ s[i] = SaveOf("user") =>
                           IF i = 1 THEN <<u>> \in Users \X UserRow ELSE s[i - 1] = <<"read", "user">>
                      /\ s[i] = SaveOf("self") =>
                           IF i = 1 THEN <<u>> \in Users \X UserRow ELSE s[i - 1] = <<"read", "self">>
                      /\ s[i][2] \in {"invite.add", "member.addInvitee"} => i = 1 /\ <<u>>[1] \in Users
    BY DEF Ready
  <2>1. CASE i = 1
    BY <1>1, <2>1 DEF SaveOf
  <2>2. CASE i = 2
    BY <1>1, <2>2 DEF Ready
  <2>3. CASE i > 2
    <3>1. s[i] = todo[i - 1] /\ s[i - 1] = todo[(i - 1) - 1] /\ i - 1 \in 1..Len(todo) /\ i - 1 # 1
      BY <1>1, <2>3
    <3> QED
      BY <2>3, <3>1 DEF Ready
  <2>4. i = 1 \/ i = 2 \/ i > 2
    BY <1>1
  <2> QED
    BY <2>1, <2>2, <2>3, <2>4
<1> QED
  BY <1>1, <1>2, <1>3

LEMMA InviteeSafe ==
  ASSUME GateInv, NEW w \in Workers, ReadInvitee(w)
  PROVE  GateInv'
<1> DEFINE m == loc[w]
<1>1. m.todo # <<>> /\ Head(m.todo)[1] = "read" /\ Head(m.todo)[2] = "invitee"
  BY DEF ReadInvitee, At, Arg
<1>2. /\ m \in Located /\ m.todo \in Seq(Step) /\ Running(m) /\ Head(m.todo) = m.todo[1]
      /\ m.todo[1] \in Step
  BY <1>1, OpenRequest
<1>3. m.todo[1] = <<"read", "invitee">>
  BY <1>1, <1>2 DEF Step
<1>4. m.needs = "platform"
  <2>1. 1 \in 1..Len(m.todo) /\ Acts(m.todo[1]) /\ Class("invitee") = "platform"
    BY <1>1, <1>2, <1>3 DEF Acts, Class, PlatformSteps, TeamSteps, OwnSteps, SignInSteps
  <2> QED
    BY <1>2, <1>3, <2>1 DEF Running, Matched
<1>5. PICK u \in Users, x \in {"invite.add", "member.addInvitee"} :
        Go(w, [Rest(w) EXCEPT !.row = <<u>>, !.todo = Write(x) \o @], d)
  BY DEF ReadInvitee
<1>6. UNCHANGED begun
  BY DEF ReadInvitee
<1> DEFINE tail == Tail(m.todo)
           s == Write(x) \o tail
           l == [m EXCEPT !.row = <<u>>, !.todo = s]
<1>7. [Rest(w) EXCEPT !.row = <<u>>, !.todo = Write(x) \o @] = l
  BY <1>2 DEF Rest, Located
<1>8. tail \in Seq(Step) /\ Ready(tail, <<>>) /\ Matched(tail, "platform")
  <2>1. Ready(m.todo, m.row) /\ Matched(m.todo, "platform")
    BY <1>2, <1>4 DEF Running
  <2>2. m.todo[1] \notin {<<"read", "user">>, <<"read", "self">>}
    BY <1>3
  <2> HIDE DEF m
  <2>3. Ready(tail, <<>>)
    BY <1>1, <1>2, <2>1, <2>2, TailReady
  <2> QED
    BY <1>1, <1>2, <2>1, <2>3, TailIndex, TailMatched
<1>9. /\ \A i \in 1..Len(tail) : tail[i][2] \notin {"invite.add", "member.addInvitee"}
      /\ tail # <<>> => tail[1] \notin {SaveOf("user"), SaveOf("self")}
  <2>1. ASSUME NEW i \in 1..Len(tail)
        PROVE  /\ tail[i][2] \notin {"invite.add", "member.addInvitee"}
               /\ i = 1 => tail[i] \notin {SaveOf("user"), SaveOf("self")}
    <3>1. tail[i] = m.todo[i + 1] /\ i + 1 \in 1..Len(m.todo) /\ i + 1 # 1 /\ (i + 1) - 1 = i
      BY <1>1, <1>2, TailIndex
    <3> QED
      BY <1>2, <1>3, <3>1 DEF Running, Ready
  <2>2. tail # <<>> => 1 \in 1..Len(tail)
    BY <1>8
  <2> QED
    BY <2>1, <2>2
<1> HIDE DEF tail
<1>10. s \in Seq(Step) /\ Ready(s, <<u>>) /\ Matched(s, "platform")
  BY <1>8, <1>9, PrependReady
<1> HIDE DEF s, m
<1>11. <<u>> \in RowsRead
  BY DEF RowsRead
<1>12. /\ l \in Located /\ l.had = m.had /\ l.todo = s /\ l.row = <<u>> /\ l.needs = m.needs
       /\ l.user = m.user /\ l.project = m.project /\ l.team = m.team
  BY <1>2, <1>10, <1>11 DEF Located
<1>13. Running(l)
  BY <1>2, <1>4, <1>10, <1>12 DEF Running
<1>14. d \in Tables /\ Consistent(d)
  BY DEF GateInv
<1>15. Acts(Head(m.todo))
  BY <1>1 DEF Acts
<1> QED
  BY <1>1, <1>5, <1>6, <1>7, <1>12, <1>13, <1>14, <1>15, ActSafe DEF m

LEMMA IdentitySafe ==
  ASSUME GateInv, NEW w \in Workers, ReadIdentity(w)
  PROVE  GateInv'
<1> DEFINE m == loc[w]
           u == m.user
           row == d.user[m.user]
<1>1. m.todo # <<>> /\ Head(m.todo)[1] = "read" /\ Acts(Head(m.todo))
  BY DEF ReadIdentity, At, Acts
<1>2. m \in Located /\ Running(m) /\ u \in Users
  BY <1>1, OpenRequest DEF Running
<1>3. row \in UserRow \cup {NoUser} /\ d \in Tables /\ Consistent(d)
  BY <1>2 DEF GateInv, Tables
<1>4. PICK todo \in IF row = NoUser THEN {SSOService_Register} ELSE {<<>>, Write("self.save")} :
        Go(w, [m EXCEPT !.todo = todo, !.row = <<u, row>>], d)
  BY DEF ReadIdentity
<1> DEFINE l == [m EXCEPT !.todo = todo, !.row = <<u, row>>]
<1>5. <<u, row>> \in RowsRead
  BY <1>2, <1>3 DEF RowsRead
<1>6. CASE todo = <<>>
  <2>1. l \in Located /\ l.had = m.had /\ l.todo = <<>>
    <3>1. <<>> \in Seq(Step)
      OBVIOUS
    <3> HIDE DEF m, row, u
    <3> QED
      BY <1>2, <1>5, <1>6, <3>1 DEF Located
  <2> QED
    BY <1>1, <1>3, <1>4, <2>1, ActSafe DEF ReadIdentity
<1>7. CASE todo # <<>>
  <2>1. /\ todo \in Seq(Step)
        /\ \A i \in 1..Len(todo) :
             /\ todo[i] \in {<<"write", "self.create">>, <<"write", "self.join">>,
                             <<"write", "self.clearInvites">>, <<"write", "self.save">>}
             /\ todo[i] = <<"write", "self.save">> => i = 1 /\ row # NoUser
    <3> DEFINE step(x) == <<"write", x>>
               x1 == step("self.create")
               x2 == step("self.join")
               x3 == step("self.clearInvites")
               x4 == step("self.save")
    <3>1. /\ x1 \in Step /\ x2 \in Step /\ x3 \in Step
          /\ x4 \in Step /\ x4 # x1 /\ x4 # x2 /\ x4 # x3
      BY DEF Step, SignInSteps, OwnSteps
    <3>2. row = NoUser => todo = <<x1, x2, x3>>
      BY <1>4 DEF SSOService_Register, Write
    <3>3. row # NoUser => todo = <<x4>>
      BY <1>4, <1>7 DEF Write
    <3>4. /\ todo \in Seq(Step)
          /\ \A i \in 1..Len(todo) : /\ todo[i] \in {x1, x2, x3, x4}
                                     /\ todo[i] = x4 => i = 1 /\ row # NoUser
      <4> HIDE DEF x1, x2, x3, x4, row
      <4>1. CASE row = NoUser
        <5>1. /\ todo \in Seq(Step) /\ Len(todo) = 3
              /\ todo[1] = x1 /\ todo[2] = x2 /\ todo[3] = x3
          BY <3>1, <3>2, <4>1, ThreeSteps
        <5> QED
          BY <3>1, <5>1
      <4>2. CASE row # NoUser
        <5>1. todo \in Seq(Step) /\ Len(todo) = 1 /\ todo[1] = x4
          BY <3>1, <3>3, <4>2, OneStep
        <5> QED
          BY <4>2, <5>1
      <4> QED
        BY <4>1, <4>2
    <3> QED
      BY <3>4
  <2> HIDE DEF row, u
  <2>2. Ready(todo, <<u, row>>)
    BY <1>2, <1>3, <2>1 DEF Ready, SaveOf
  <2>3. \A x \in {"self.create", "self.join", "self.clearInvites", "self.save"} :
          Class(x) \notin {"platform", "teams"} /\ x # "member.addInvitee"
    BY DEF Class, PlatformSteps, TeamSteps, OwnSteps, SignInSteps
  <2>4. Matched(todo, m.needs)
    BY <2>1, <2>3 DEF Matched
  <2>5. /\ l \in Located /\ l.had = m.had /\ l.todo = todo /\ l.row = <<u, row>>
        /\ l.needs = m.needs /\ l.user = u /\ l.project = m.project /\ l.team = m.team
    BY <1>2, <1>5, <2>1 DEF Located, u
  <2>6. Running(l)
    BY <1>2, <2>2, <2>4, <2>5 DEF Running, u
  <2> QED
    BY <1>1, <1>3, <1>4, <2>5, <2>6, ActSafe DEF ReadIdentity
<1> QED
  BY <1>6, <1>7

---------------------------------------------------------------------------
\* The writes of the directory tables.
LEMMA WritingFacts ==
  ASSUME GateInv, NEW w \in Workers, NEW x, Writing(w, x)
  PROVE  /\ At(w, "write") /\ d \in Tables /\ Consistent(d)
         /\ loc[w].user \in Users /\ loc[w].project \in Projects /\ loc[w].team \in Teams
         /\ 1 \in 1..Len(loc[w].todo) /\ loc[w].todo[1] = <<"write", x>>
         /\ Running(loc[w])
<1>1. loc[w].todo # <<>> /\ Head(loc[w].todo)[1] = "write" /\ Head(loc[w].todo)[2] = x
  BY DEF Writing, At, Arg
<1>2. /\ Running(loc[w]) /\ loc[w].todo \in Seq(Step)
      /\ Head(loc[w].todo) = loc[w].todo[1] /\ loc[w].todo[1] \in Step
  BY <1>1, OpenRequest
<1>3. loc[w].todo[1] = <<"write", x>>
  BY <1>1, <1>2 DEF Step
<1>4. 1 \in 1..Len(loc[w].todo)
  BY <1>1, <1>2
<1> QED
  BY <1>2, <1>3, <1>4 DEF GateInv, Running, Writing

LEMMA UserChangeSafe ==
  ASSUME GateInv, NEW w \in Workers,
         UserCreate(w) \/ UserSave(w) \/ UserDelete(w) \/ SelfCreate(w) \/ TokenCreate(w) \/ TokenRevoke(w)
  PROVE  GateInv'
<1>1. CASE UserCreate(w)
  <2>1. PICK u \in Users, role \in {"owner", "user"} :
          Change(w, SaveUser(d, u, [role |-> role, active |-> TRUE]))
    BY <1>1 DEF UserCreate
  <2>2. [role |-> role, active |-> TRUE] \in UserRow
    BY DEF UserRow
  <2> QED
    BY <1>1, <2>1, <2>2, WritingFacts, UserWritesTyped, UserWritesConsistent, ChangeSafe DEF UserCreate
<1>2. CASE UserSave(w)
  <2>1. loc[w].row \in Users \X UserRow
    <3>1. CASE Writing(w, "user.save")
      BY <3>1, WritingFacts DEF Running, Ready, SaveOf
    <3>2. CASE Writing(w, "self.save")
      BY <3>2, WritingFacts DEF Running, Ready, SaveOf
    <3> QED
      BY <1>2, <3>1, <3>2 DEF UserSave
  <2>2. loc[w].row[1] \in Users /\ loc[w].row[2] \in UserRow
    BY <2>1
  <2>3. At(w, "write") /\ d \in Tables /\ Consistent(d)
    BY <1>2, WritingFacts DEF UserSave
  <2> QED
    BY <1>2, <2>2, <2>3, UserWritesTyped, UserWritesConsistent, ChangeSafe DEF UserSave
<1>3. CASE UserDelete(w)
  <2>1. PICK u \in Users : Change(w, DeleteUser(d, u))
    BY <1>3 DEF UserDelete
  <2>2. DeleteUser(d, u) \in Tables /\ Consistent(DeleteUser(d, u))
    <3>1. [role |-> "user", active |-> TRUE] \in UserRow
      BY DEF UserRow
    <3> QED
      BY <1>3, <3>1, WritingFacts, UserWritesTyped, UserWritesConsistent DEF UserDelete
  <2> QED
    BY <1>3, <2>1, <2>2, WritingFacts, ChangeSafe DEF UserDelete
<1>4. CASE SelfCreate(w)
  <2>1. [role |-> "user", active |-> TRUE] \in UserRow
    BY DEF UserRow
  <2> QED
    BY <1>4, <2>1, WritingFacts, UserWritesTyped, UserWritesConsistent, ChangeSafe DEF SelfCreate
<1>5. CASE TokenCreate(w)
  BY <1>5, WritingFacts, TokenWritesTyped, TokenWritesConsistent, ChangeSafe DEF TokenCreate
<1>6. CASE TokenRevoke(w)
  BY <1>6, WritingFacts, TokenWritesTyped, TokenWritesConsistent, ChangeSafe DEF TokenRevoke
<1> QED
  BY <1>1, <1>2, <1>3, <1>4, <1>5, <1>6

LEMMA TeamChangeSafe ==
  ASSUME GateInv, NEW w \in Workers,
         \/ TeamCreate(w) \/ TeamClearMembers(w) \/ TeamClearRoles(w) \/ TeamRemove(w)
         \/ MemberAdd(w) \/ MemberRemove(w) \/ InviteAdd(w) \/ InviteRemove(w)
         \/ SelfJoin(w) \/ SelfClearInvites(w)
  PROVE  GateInv'
<1>1. CASE TeamCreate(w)
  <2>1. PICK k \in Teams : Change(w, CreateTeam(d, k))
    BY <1>1 DEF TeamCreate
  <2>2. At(w, "write") /\ d \in Tables /\ Consistent(d) /\ loc[w].user \in Users
    BY <1>1, WritingFacts DEF TeamCreate
  <2> QED
    BY <2>1, <2>2, TeamWritesTyped, TeamWritesConsistent, ChangeSafe
<1>2. CASE TeamClearMembers(w)
  BY <1>2, WritingFacts, TeamWritesTyped, TeamWritesConsistent, ChangeSafe DEF TeamClearMembers
<1>3. CASE TeamClearRoles(w)
  BY <1>3, WritingFacts, TeamWritesTyped, TeamWritesConsistent, ChangeSafe DEF TeamClearRoles
<1>4. CASE TeamRemove(w)
  BY <1>4, WritingFacts, TeamWritesTyped, TeamWritesConsistent, ChangeSafe DEF TeamRemove
<1>5. CASE MemberAdd(w)
  <2>1. PICK u \in Users : /\ Writing(w, "member.add") \/ Writing(w, "member.addInvitee")
                           /\ CanAddMember(d, loc[w].team, u)
                           /\ Change(w, AddMember(d, loc[w].team, u))
    BY <1>5 DEF MemberAdd
  <2>2. At(w, "write") /\ d \in Tables /\ Consistent(d) /\ loc[w].team \in Teams
    BY <2>1, WritingFacts
  <2> QED
    BY <2>1, <2>2, TeamWritesTyped, TeamWritesConsistent, ChangeSafe
<1>6. CASE MemberRemove(w)
  BY <1>6, WritingFacts, TeamWritesTyped, TeamWritesConsistent, ChangeSafe DEF MemberRemove
<1>7. CASE InviteAdd(w)
  <2>1. loc[w].row[1] \in Users
    BY <1>7, WritingFacts DEF InviteAdd, Running, Ready
  <2> QED
    BY <1>7, <2>1, WritingFacts, TeamWritesTyped, TeamWritesConsistent, ChangeSafe DEF InviteAdd
<1>8. CASE InviteRemove(w)
  BY <1>8, WritingFacts, TeamWritesTyped, TeamWritesConsistent, ChangeSafe DEF InviteRemove
<1>9. CASE SelfJoin(w)
  <2>1. Writing(w, "self.join")
    BY <1>9 DEF SelfJoin
  <2>2. CASE d.user[loc[w].user] = NoUser
    <3>1. Change(w, d)
      BY <1>9, <2>2 DEF SelfJoin
    <3> QED
      BY <2>1, <3>1, WritingFacts, ChangeSafe
  <2>3. CASE d.user[loc[w].user] # NoUser
    <3>1. Change(w, JoinInvited(d, loc[w].user))
      BY <1>9, <2>3 DEF SelfJoin
    <3> QED
      BY <2>1, <2>3, <3>1, WritingFacts, TeamWritesTyped, TeamWritesConsistent, ChangeSafe
  <2> QED
    BY <2>2, <2>3
<1>10. CASE SelfClearInvites(w)
  BY <1>10, WritingFacts, TeamWritesTyped, TeamWritesConsistent, ChangeSafe DEF SelfClearInvites
<1> QED
  BY <1>1, <1>2, <1>3, <1>4, <1>5, <1>6, <1>7, <1>8, <1>9, <1>10

LEMMA ProjectChangeSafe ==
  ASSUME GateInv, NEW w \in Workers,
         \/ AdminAdd(w) \/ AdminRemove(w) \/ ProjectInsert(w) \/ ProjectAdmin(w)
         \/ ProjectSeed(w) \/ ProjectDelete(w)
  PROVE  GateInv'
<1> DEFINE p == loc[w].project
<1>1. {} \in SUBSET Builtin /\ \A names \in Seeded : names \in SUBSET Builtin
  BY DEF Seeded, Builtin
<1>2. CASE AdminAdd(w)
  <2>1. PICK u \in Users : CanAddAdmin(d, p, u) /\ Change(w, AddAdmin(d, p, u))
    BY <1>2 DEF AdminAdd
  <2> QED
    BY <1>1, <1>2, <2>1, WritingFacts, ProjectWritesTyped, ProjectWritesConsistent, ChangeSafe DEF AdminAdd
<1>3. CASE AdminRemove(w)
  <2>1. PICK u \in Users : Change(w, RemoveAdmin(d, p, u))
    BY <1>3 DEF AdminRemove
  <2> QED
    BY <1>1, <1>3, <2>1, WritingFacts, ProjectWritesTyped, ProjectWritesConsistent, ChangeSafe DEF AdminRemove
<1>4. CASE ProjectInsert(w)
  BY <1>1, <1>4, WritingFacts, ProjectWritesTyped, ProjectWritesConsistent, ChangeSafe DEF ProjectInsert
<1>5. CASE ProjectAdmin(w)
  BY <1>1, <1>5, WritingFacts, ProjectWritesTyped, ProjectWritesConsistent, ChangeSafe DEF ProjectAdmin
<1>6. CASE ProjectSeed(w)
  <2>1. PICK names \in Seeded : Change(w, SeedBuiltinPresets(d, p, names))
    BY <1>6 DEF ProjectSeed
  <2> QED
    BY <1>1, <1>6, <2>1, WritingFacts, ProjectWritesTyped, ProjectWritesConsistent, ChangeSafe DEF ProjectSeed
<1>7. CASE ProjectDelete(w)
  BY <1>1, <1>7, WritingFacts, ProjectWritesTyped, ProjectWritesConsistent, ChangeSafe DEF ProjectDelete
<1> QED
  BY <1>2, <1>3, <1>4, <1>5, <1>6, <1>7

LEMMA RightsChangeSafe ==
  ASSUME GateInv, NEW w \in Workers,
         \/ RoleAssign(w) \/ RoleUpdate(w) \/ RoleRemove(w)
         \/ PresetCreate(w) \/ PresetSave(w) \/ PresetDelete(w)
  PROVE  GateInv'
<1> DEFINE p == loc[w].project
           k == loc[w].team
<1>1. {} \in SUBSET PresetNames /\ \A names \in PresetChoices : names \in SUBSET PresetNames
  BY GateAssumption
<1>2. /\ Custom \subseteq PresetNames
      /\ \A list \in DOMAIN CustomPerms : list \in Lists /\ list # "none"
      /\ "Viewer" \in Lists
  BY DirectoryAssumption DEF Lists, PresetNames, Builtin
<1>3. CASE RoleAssign(w)
  <2>1. PICK names \in PresetChoices : CanAssignTeam(d, p, k, names) /\ Change(w, GrantPresets(d, p, k, names))
    BY <1>3 DEF RoleAssign
  <2> QED
    BY <1>1, <1>3, <2>1, WritingFacts, RightsWritesTyped, RightsWritesConsistent, ChangeSafe DEF RoleAssign
<1>4. CASE RoleUpdate(w)
  <2>1. PICK names \in PresetChoices : CanUpdatePresets(d, p, k, names) /\ Change(w, GrantPresets(d, p, k, names))
    BY <1>4 DEF RoleUpdate
  <2> QED
    BY <1>1, <1>4, <2>1, WritingFacts, RightsWritesTyped, RightsWritesConsistent, ChangeSafe DEF RoleUpdate
<1>5. CASE RoleRemove(w)
  BY <1>1, <1>5, WritingFacts, RightsWritesTyped, RightsWritesConsistent, ChangeSafe DEF RoleRemove
<1>6. CASE PresetCreate(w) \/ PresetSave(w)
  <2>1. PICK n \in Custom, list \in DOMAIN CustomPerms : Change(w, SavePreset(d, p, n, list))
    BY <1>6 DEF PresetCreate, PresetSave
  <2>2. At(w, "write") /\ d \in Tables /\ Consistent(d) /\ p \in Projects
    BY <1>6, WritingFacts DEF PresetCreate, PresetSave
  <2>3. n \in PresetNames /\ list \in Lists /\ list # "none"
    BY <1>2
  <2> QED
    BY <2>1, <2>2, <2>3, PresetWritesTyped, PresetWritesConsistent, ChangeSafe
<1>7. CASE PresetDelete(w)
  <2>1. Change(w, DeletePreset(d, p, loc[w].row[1]))
    BY <1>7 DEF PresetDelete
  <2>2. At(w, "write") /\ d \in Tables /\ Consistent(d) /\ p \in Projects
    BY <1>7, WritingFacts DEF PresetDelete
  <2> QED
    BY <1>2, <2>1, <2>2, PresetWritesTyped, PresetWritesConsistent, ChangeSafe
<1> QED
  BY <1>3, <1>4, <1>5, <1>6, <1>7

---------------------------------------------------------------------------
\* The initial tables are built with the writes themselves.
LEMMA FreshSound ==
  ASSUME NEW owner \in Users
  PROVE  /\ Fresh(owner) \in Tables /\ Consistent(Fresh(owner))
         /\ Fresh(owner).user[owner] # NoUser /\ Fresh(owner).admin = {} /\ Fresh(owner).role = {}
         /\ Fresh(owner).member = {}
<1> DEFINE empty == [user |-> [u \in Users |-> NoUser], team |-> {}, member |-> {}, project |-> {},
                     admin |-> {}, preset |-> [q \in Projects |-> NoPresets], role |-> {},
                     grant |-> {}, invite |-> {}, tokens |-> [u \in Users |-> 0]]
           row == [role |-> "owner", active |-> TRUE]
<1>1. NoPresets \in [PresetNames -> Lists \cup {"none"}]
  BY DEF NoPresets
<1>2. empty \in Tables
  BY <1>1 DEF Tables
<1>3. Consistent(empty)
  BY DEF Consistent
<1>4. row \in UserRow /\ row # NoUser
  BY DEF UserRow, NoUser
<1>5. Fresh(owner) = SaveUser(empty, owner, row)
  BY DEF Fresh
<1>6. empty.user \in [Users -> UserRow \cup {NoUser}] /\ empty.admin = {} /\ empty.role = {} /\ empty.member = {}
  BY <1>2 DEF Tables
<1> HIDE DEF empty, row
<1>7. Fresh(owner) \in Tables /\ Consistent(Fresh(owner))
  BY <1>2, <1>3, <1>4, <1>5, UserWritesTyped, UserWritesConsistent
<1>8. ASSUME NEW t \in Tables
      PROVE  /\ SaveUser(t, owner, row).user[owner] = row
             /\ SaveUser(t, owner, row).admin = t.admin
             /\ SaveUser(t, owner, row).role = t.role
             /\ SaveUser(t, owner, row).member = t.member
  BY DEF SaveUser, Tables
<1> QED
  BY <1>2, <1>4, <1>5, <1>6, <1>7, <1>8

LEMMA StartSound ==
  ASSUME NEW owner \in Users, NEW member \in Users, NEW p \in Projects, NEW k \in Teams,
         NEW names \in SUBSET PresetNames,
         NEW own \in (Custom \X DOMAIN CustomPerms) \cup {<<>>}
  PROVE  /\ Start(owner, member, p, k, names, own) \in Tables
         /\ Consistent(Start(owner, member, p, k, names, own))
<1> DEFINE s0 == Fresh(owner)
           s1 == InsertProject(s0, p)
           s2 == AddAdmin(s1, p, owner)
           s3 == SeedBuiltinPresets(s2, p, Builtin)
           s4 == IF own = <<>> THEN s3 ELSE SavePreset(s3, p, own[1], own[2])
           s5 == CreateTeam(s4, k)
           s6 == SaveUser(s5, member, [role |-> "user", active |-> TRUE])
           s7 == AddMember(s6, k, member)
           s8 == GrantPresets(s7, p, k, names)
           Fine(s) == s \in Tables /\ Consistent(s) /\ s.role = {}
<1>1. Fine(s0) /\ s0.user[owner] # NoUser /\ s0.admin = {} /\ s0.member = {}
  BY FreshSound
<1> HIDE DEF s0
<1>2. Fine(s1) /\ s1.user[owner] # NoUser /\ s1.admin = {} /\ s1.member = {} /\ p \in s1.project
  <2>1. s1 \in Tables /\ Consistent(s1)
    BY <1>1, ProjectWritesTyped, ProjectWritesConsistent
  <2>2. /\ s1.role = s0.role /\ s1.user = s0.user /\ s1.admin = s0.admin /\ s1.member = s0.member
        /\ p \in s1.project
    BY <1>1 DEF InsertProject, Tables
  <2> QED
    BY <1>1, <2>1, <2>2
<1> HIDE DEF s1
<1>3. Fine(s2) /\ s2.member = {} /\ p \in s2.project
  <2>1. CanAddAdmin(s1, p, owner)
    BY <1>2 DEF CanAddAdmin
  <2>2. s2 \in Tables /\ Consistent(s2)
    BY <1>2, <2>1, ProjectWritesTyped, ProjectWritesConsistent
  <2>3. s2.role = s1.role /\ s2.member = s1.member /\ s2.project = s1.project
    BY <1>2 DEF AddAdmin, Tables
  <2> QED
    BY <1>2, <2>2, <2>3
<1> HIDE DEF s2
<1>4. Fine(s3) /\ s3.member = {} /\ p \in s3.project
  <2>1. s3 \in Tables /\ Consistent(s3)
    BY <1>3, ProjectWritesTyped, ProjectWritesConsistent
  <2>2. s3.role = s2.role /\ s3.member = s2.member /\ s3.project = s2.project
    BY <1>3 DEF SeedBuiltinPresets, Tables
  <2> QED
    BY <1>3, <2>1, <2>2
<1> HIDE DEF s3
<1>5. Fine(s4) /\ s4.member = {} /\ p \in s4.project
  <2>1. CASE own = <<>>
    BY <1>4, <2>1
  <2>2. CASE own # <<>>
    <3>1. own[1] \in PresetNames /\ own[2] \in Lists /\ own[2] # "none"
      BY <2>2, DirectoryAssumption DEF PresetNames, Lists
    <3>2. s4 = SavePreset(s3, p, own[1], own[2])
      BY <2>2
    <3>3. s4 \in Tables /\ Consistent(s4)
      BY <1>4, <3>1, <3>2, PresetWritesTyped, PresetWritesConsistent
    <3>4. s4.role = s3.role /\ s4.member = s3.member /\ s4.project = s3.project
      BY <1>4, <3>2 DEF SavePreset, Tables
    <3> QED
      BY <1>4, <3>3, <3>4
  <2> QED
    BY <2>1, <2>2
<1> HIDE DEF s4
<1>6. Fine(s5) /\ s5.member = {} /\ p \in s5.project /\ k \in s5.team
  <2>1. s5 \in Tables /\ Consistent(s5)
    BY <1>5, TeamWritesTyped, TeamWritesConsistent
  <2>2. s5.role = s4.role /\ s5.member = s4.member /\ s5.project = s4.project /\ k \in s5.team
    BY <1>5 DEF CreateTeam, Tables
  <2> QED
    BY <1>5, <2>1, <2>2
<1> HIDE DEF s5
<1>7. Fine(s6) /\ s6.member = {} /\ p \in s6.project /\ k \in s6.team /\ s6.user[member] # NoUser
  <2>1. [role |-> "user", active |-> TRUE] \in UserRow /\ [role |-> "user", active |-> TRUE] # NoUser
    BY DEF UserRow, NoUser
  <2>2. s6 \in Tables /\ Consistent(s6)
    BY <1>6, <2>1, UserWritesTyped, UserWritesConsistent
  <2>3. /\ s6.role = s5.role /\ s6.member = s5.member /\ s6.project = s5.project /\ s6.team = s5.team
        /\ s6.user[member] # NoUser
    BY <1>6, <2>1 DEF SaveUser, Tables
  <2> QED
    BY <1>6, <2>2, <2>3
<1> HIDE DEF s6
<1>8. Fine(s7) /\ p \in s7.project /\ k \in s7.team
  <2>1. CanAddMember(s6, k, member)
    BY <1>7 DEF CanAddMember, IsMember
  <2>2. s7 \in Tables /\ Consistent(s7)
    BY <1>7, <2>1, TeamWritesTyped, TeamWritesConsistent
  <2>3. s7.role = s6.role /\ s7.project = s6.project /\ s7.team = s6.team
    BY <1>7 DEF AddMember, Tables
  <2> QED
    BY <1>7, <2>2, <2>3
<1> HIDE DEF s7
<1>9. PresetsExist(s7, p, names) => s8 \in Tables /\ Consistent(s8)
  BY <1>8, RightsWritesTyped, RightsWritesConsistent DEF CanAssignTeam
<1> HIDE DEF s8
<1>10. Start(owner, member, p, k, names, own) = IF PresetsExist(s7, p, names) THEN s8 ELSE s7
  BY DEF Start, s8, s7, s6, s5, s4, s3, s2, s1, s0
<1> QED
  BY <1>8, <1>9, <1>10

LEMMA InitSafe == Init => GateInv
<1> SUFFICES ASSUME Init PROVE GateInv
  OBVIOUS
<1>1. d \in Tables /\ Consistent(d)
  <2>1. PICK owner \in Users, member \in Users, p \in Projects, k \in Teams,
             names \in PresetChoices \cup {{}}, own \in (Custom \X DOMAIN CustomPerms) \cup {<<>>} :
               d \in {Fresh(owner), Start(owner, member, p, k, names, own)}
    BY DEF Init
  <2>2. names \in SUBSET PresetNames
    BY GateAssumption
  <2> QED
    BY <2>1, <2>2, FreshSound, StartSound
<1>2. loc \in [Workers -> Located] /\ \A w \in Workers : Safe(loc[w])
  BY IdleLocated DEF Init, Safe
<1>3. begun \in 0..MaxChanging
  BY GateAssumption DEF Init
<1> QED
  BY <1>1, <1>2, <1>3 DEF GateInv

LEMMA NextSafe == GateInv /\ [Next]_vars => GateInv'
<1> SUFFICES ASSUME GateInv, [Next]_vars PROVE GateInv'
  OBVIOUS
<1>1. CASE UNCHANGED vars
  BY <1>1 DEF vars, GateInv
<1>2. CASE Next
  <2>1. PICK w \in Workers : \/ BeginPublic(w) \/ Authenticate(w) \/ Refuse(w) \/ PermissionCheck(w)
                             \/ UseResource(w) \/ Reads(w) \/ Writes(w)
    BY <1>2 DEF Next
  <2>2. CASE Reads(w)
    BY <2>2, UseSafe, ReadRowSafe, InviteeSafe, IdentitySafe DEF Reads
  <2>3. CASE Writes(w)
    BY <2>3, UserChangeSafe, TeamChangeSafe, ProjectChangeSafe, RightsChangeSafe DEF Writes
  <2> QED
    BY <2>1, <2>2, <2>3, BeginSafe, RefuseSafe, CheckSafe, UseSafe
<1> QED
  BY <1>1, <1>2

LEMMA GateInvariant == Spec => []GateInv
<1> QED
  BY InitSafe, NextSafe, PTL DEF Spec

---------------------------------------------------------------------------
\* The tables, the budget and the open requests keep their types.
THEOREM GateTypeCorrect == Spec => []TypeOK
<1>1. GateInv => TypeOK
  BY DEF GateInv, Safe, Running, TypeOK
<1> QED
  BY <1>1, GateInvariant, PTL

\* No request acts before its caller has had the standing that the class of
\* resource asks for, however many requests change rights between its checks:
\* what the handlers and the router groups check is enough for every endpoint.
THEOREM ActsOnlyWithStanding == Spec => []ActsWithStanding
<1>1. GateInv => ActsWithStanding
  <2> SUFFICES ASSUME GateInv, NEW w \in Workers, loc[w].todo # <<>>, Acts(Head(loc[w].todo))
               PROVE  loc[w].had
    BY DEF ActsWithStanding
  <2> QED
    BY ActsHad
<1> QED
  BY <1>1, GateInvariant, PTL

\* The directory stays consistent while any number of requests interleave and
\* end half way.
THEOREM DirectoryStaysConsistent == Spec => []DirectoryConsistent
<1>1. GateInv => DirectoryConsistent
  BY DEF GateInv, DirectoryConsistent
<1> QED
  BY <1>1, GateInvariant, PTL

---------------------------------------------------------------------------
\* Who may gain access to a project.  A write that adds an admin, a member or
\* a role belongs to a request that needs the platform or the teams standing,
\* except the join of a new account, which takes the account's own invites.
LEMMA NeedsOf ==
  ASSUME GateInv, NEW w \in Workers, NEW x, Writing(w, x)
  PROVE  /\ loc[w].had
         /\ x \in PlatformSteps => loc[w].needs = "platform"
         /\ x \in TeamSteps => loc[w].needs = "teams"
         /\ x = "member.addInvitee" => loc[w].needs = "platform"
<1>1. /\ 1 \in 1..Len(loc[w].todo) /\ loc[w].todo[1] = <<"write", x>> /\ Running(loc[w])
  BY WritingFacts
<1>2. Acts(loc[w].todo[1])
  BY <1>1 DEF Acts
<1>3. loc[w].had
  BY <1>2, ActsHad, OpenRequest DEF Writing, At
<1>4. /\ x \in PlatformSteps => Class(x) = "platform"
      /\ x \in TeamSteps => Class(x) = "teams"
  BY DEF Class, PlatformSteps, TeamSteps, OwnSteps, SignInSteps
<1> QED
  BY <1>1, <1>2, <1>3, <1>4 DEF Running, Matched

\* Every other step adds no admin, no member and no role.
NoGain(t) == t.admin \subseteq d.admin /\ t.member \subseteq d.member /\ t.role \subseteq d.role

LEMMA NoGainNoAccess ==
  ASSUME NoGain(d'), NEW u \in Users, NEW p \in Projects, HasProjectAccess(d', p, u, "user")
  PROVE  HasProjectAccess(d, p, u, "user")
  BY DEF NoGain, HasProjectAccess, IsProjectAdmin, UserTeamsInProject, IsMember

Gaining(w) == \/ MemberAdd(w) \/ RoleAssign(w) \/ RoleUpdate(w) \/ AdminAdd(w)
              \/ ProjectAdmin(w) \/ SelfJoin(w)

LEMMA OthersNoGain ==
  ASSUME GateInv, NEW w \in Workers, ~Gaining(w),
         \/ BeginPublic(w) \/ Authenticate(w) \/ Refuse(w) \/ PermissionCheck(w)
         \/ UseResource(w) \/ Reads(w) \/ Writes(w)
  PROVE  NoGain(d')
<1> USE DEF NoGain
<1>1. d \in Tables
  BY DEF GateInv
<1>2. ASSUME NEW u, NEW row
      PROVE  NoGain(SaveUser(d, u, row)) /\ NoGain(DeleteUser(d, u))
  BY <1>1 DEF SaveUser, DeleteUser, Tables
<1>3. ASSUME NEW k, NEW u
      PROVE  /\ NoGain(CreateTeam(d, k)) /\ NoGain(ClearMembers(d, k)) /\ NoGain(ClearRoles(d, k))
             /\ NoGain(RemoveMember(d, k, u)) /\ NoGain(Invite(d, k, u))
             /\ NoGain(DeleteInvite(d, k, u)) /\ NoGain(ClearInvites(d, u))
  BY <1>1 DEF CreateTeam, ClearMembers, ClearRoles, RemoveMember, Invite, DeleteInvite,
              ClearInvites, Tables
<1>4. ASSUME NEW k PROVE NoGain(RemoveTeam(d, k))
  BY <1>1 DEF RemoveTeam, ClearMembers, ClearRoles, Tables
<1>5. ASSUME NEW p, NEW k, NEW u, NEW names
      PROVE  /\ NoGain(UnassignTeam(d, p, k)) /\ NoGain(RemoveAdmin(d, p, u))
             /\ NoGain(InsertProject(d, p)) /\ NoGain(SeedBuiltinPresets(d, p, names))
             /\ NoGain(DeleteProject(d, p))
  BY <1>1 DEF UnassignTeam, RemoveAdmin, InsertProject, SeedBuiltinPresets, DeleteProject, Tables
<1>6. ASSUME NEW p, NEW n, NEW list
      PROVE  NoGain(SavePreset(d, p, n, list)) /\ NoGain(DeletePreset(d, p, n))
  BY <1>1 DEF SavePreset, DeletePreset, Tables
<1>7. ASSUME NEW u PROVE NoGain(CreateToken(d, u)) /\ NoGain(RevokeToken(d, u))
  BY <1>1 DEF CreateToken, RevokeToken, Tables
<1>8. NoGain(d)
  OBVIOUS
<1> HIDE DEF NoGain
<1>9. ASSUME NEW t, Change(w, t) PROVE d' = t
  BY <1>9 DEF Change, Go
<1>10. CASE \/ BeginPublic(w) \/ Authenticate(w) \/ Refuse(w) \/ PermissionCheck(w)
            \/ UseResource(w) \/ Reads(w)
  <2>1. d' = d
    BY <1>10 DEF BeginPublic, Authenticate, Open, Refuse, PermissionCheck, UseResource, Reads, ReadUser,
                 ReadSelf, ReadPreset, ReadTokens, ReadInvitee, ReadIdentity, Go
  <2> QED
    BY <1>8, <2>1
<1>11. CASE UserCreate(w) \/ UserSave(w) \/ UserDelete(w) \/ SelfCreate(w) \/ TokenCreate(w) \/ TokenRevoke(w)
  BY <1>2, <1>7, <1>9, <1>11 DEF UserCreate, UserSave, UserDelete, SelfCreate, TokenCreate, TokenRevoke
<1>12. CASE \/ TeamCreate(w) \/ TeamClearMembers(w) \/ TeamClearRoles(w) \/ TeamRemove(w)
            \/ MemberRemove(w) \/ InviteAdd(w) \/ InviteRemove(w) \/ SelfClearInvites(w)
  BY <1>3, <1>4, <1>9, <1>12 DEF TeamCreate, TeamClearMembers, TeamClearRoles, TeamRemove, MemberRemove,
                 InviteAdd, InviteRemove, SelfClearInvites
<1>13. CASE AdminRemove(w) \/ ProjectInsert(w) \/ ProjectSeed(w) \/ ProjectDelete(w) \/ RoleRemove(w)
  BY <1>5, <1>9, <1>13 DEF AdminRemove, ProjectInsert, ProjectSeed, ProjectDelete, RoleRemove
<1>14. CASE PresetCreate(w) \/ PresetSave(w) \/ PresetDelete(w)
  BY <1>6, <1>9, <1>14 DEF PresetCreate, PresetSave, PresetDelete
<1> QED
  BY <1>10, <1>11, <1>12, <1>13, <1>14 DEF Gaining, Writes

LEMMA GainGranted ==
  ASSUME GateInv, NEW w \in Workers, Gaining(w), NEW u \in Users, NEW p \in Projects,
         HasProjectAccess(d', p, u, "user"), ~HasProjectAccess(d, p, u, "user")
  PROVE  \/ loc[w].had /\ loc[w].needs = "platform"
         \/ loc[w].had /\ loc[w].needs = "teams" /\ loc[w].project = p
         \/ loc[w].user = u /\ \E t \in Teams : <<t, u>> \in d.invite /\ <<p, t>> \in d.role
<1>1. CASE MemberAdd(w) \/ AdminAdd(w) \/ ProjectAdmin(w)
  BY <1>1, NeedsOf DEF MemberAdd, AdminAdd, ProjectAdmin, PlatformSteps
<1>2. CASE RoleAssign(w) \/ RoleUpdate(w)
  <2>1. d \in Tables
    BY DEF GateInv
  <2>2. PICK names : d' = GrantPresets(d, loc[w].project, loc[w].team, names)
    BY <1>2 DEF RoleAssign, RoleUpdate, Change, Go
  <2>3. /\ d'.admin = d.admin /\ d'.member = d.member
        /\ d'.role = d.role \cup {<<loc[w].project, loc[w].team>>}
    BY <2>1, <2>2 DEF GrantPresets, Tables
  <2>4. loc[w].project = p
    BY <2>3 DEF HasProjectAccess, IsProjectAdmin, UserTeamsInProject, IsMember
  <2> QED
    BY <1>2, <2>4, NeedsOf DEF RoleAssign, RoleUpdate, TeamSteps
<1>3. CASE SelfJoin(w)
  <2>1. d \in Tables
    BY DEF GateInv
  <2>2. d' = IF d.user[loc[w].user] = NoUser THEN d ELSE JoinInvited(d, loc[w].user)
    BY <1>3 DEF SelfJoin, Change, Go
  <2>3. d' = JoinInvited(d, loc[w].user)
    BY <2>2
  <2>4. d'.admin = d.admin /\ d'.role = d.role /\ d'.member = d.member \cup Naming(d.invite, 2, loc[w].user)
    BY <2>1, <2>3 DEF JoinInvited, Tables
  <2>5. PICK t \in Teams : <<t, u>> \in d'.member /\ <<t, u>> \notin d.member /\ <<p, t>> \in d.role
    BY <2>4 DEF HasProjectAccess, IsProjectAdmin, UserTeamsInProject, IsMember
  <2>6. <<t, u>> \in Naming(d.invite, 2, loc[w].user)
    BY <2>4, <2>5
  <2> QED
    BY <2>5, <2>6 DEF Naming
<1> QED
  BY <1>1, <1>2, <1>3 DEF Gaining

\* Whenever a caller without the owner role gains access to a project, a
\* request of an owner, of an administrator of that project or of a holder of
\* project.teams in it is open, or the caller itself takes up an invitation to
\* a team with a role in that project.
THEOREM AccessOnlyGranted == Spec => AccessIsGranted
<1>1. ASSUME GateInv, [Next]_vars, NEW u \in Users, NEW p \in Projects,
             HasProjectAccess(d', p, u, "user"), ~HasProjectAccess(d, p, u, "user")
      PROVE  \E w \in Workers : \/ loc[w].had /\ loc[w].needs = "platform"
                                \/ loc[w].had /\ loc[w].needs = "teams" /\ loc[w].project = p
                                \/ loc[w].user = u /\ \E t \in Teams : <<t, u>> \in d.invite /\ <<p, t>> \in d.role
  <2>1. CASE UNCHANGED vars
    BY <1>1, <2>1 DEF vars
  <2>2. CASE Next
    <3>1. PICK w \in Workers : \/ BeginPublic(w) \/ Authenticate(w) \/ Refuse(w) \/ PermissionCheck(w)
                               \/ UseResource(w) \/ Reads(w) \/ Writes(w)
      BY <2>2 DEF Next
    <3>2. Gaining(w)
      BY <1>1, <3>1, OthersNoGain, NoGainNoAccess
    <3> QED
      BY <1>1, <3>2, GainGranted
  <2> QED
    BY <1>1, <2>1, <2>2
<1>2. GateInv /\ [Next]_vars =>
        [\A u \in Users, p \in Projects :
          (HasProjectAccess(d', p, u, "user") /\ ~HasProjectAccess(d, p, u, "user"))
            => \E w \in Workers : \/ loc[w].had /\ loc[w].needs = "platform"
                                  \/ loc[w].had /\ loc[w].needs = "teams" /\ loc[w].project = p
                                  \/ loc[w].user = u /\ \E t \in Teams : <<t, u>> \in d.invite /\ <<p, t>> \in d.role]_vars
  BY <1>1
<1> QED
  BY <1>2, GateInvariant, PTL DEF Spec, AccessIsGranted
=============================================================================

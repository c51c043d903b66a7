-------------------------- MODULE DnsRecordsProofs --------------------------
(***************************************************************************)
(* Theorems about DnsRecords, for any domains, hostnames, zones, record    *)
(* types and addresses and any number of requests, moves and failures.     *)
(***************************************************************************)
EXTENDS DnsRecords, TLAPS

Labels == {"idle", "insert", "reconcile", "upsert", "save", "saveType",
           "providerDelete", "deleteRow", "deleteDomain"}
Locals == [op : {"idle", "enable", "get", "update", "retry", "delete", "domain"}, at : Labels,
           d : Domains \cup {None}, rec : Rows, type : Types \cup {None},
           addr : Addresses \cup {None}]
ZoneRows == [cred : Credentials \cup {None}, status : {None, "ready", "error"}]
Held == [by : Domains \cup {None, "foreign"}, target : Addresses \cup {None}]

\* TypeOK with the types of what it leaves out.
StateTyped ==
    /\ alive \subseteq Domains /\ credential \subseteq Credentials
    /\ address \in [Domains -> Addresses \cup {None}]
    /\ zone \in [Zones -> ZoneRows]
    /\ record \in [Domains -> Rows]
    /\ rowIds \in 0..MaxRows
    /\ provider \in [Hosts -> [Types -> Held]]
    /\ retry \subseteq Domains
    /\ loc \in [Workers -> Locals]

\* Rows have an id, a zone that is there and a domain that is there.
RowsInPlace ==
    /\ \A d \in Domains : record[d] # NoRow =>
          d \in alive /\ record[d].zone \in Zones /\ zone[record[d].zone] # NoZone /\ record[d].id # 0
    /\ \A z \in Zones : zone[z] # NoZone => zone[z].cred \in credential

\* What a worker holds at each of its steps.
InPlace(l) ==
    /\ l.at = "idle" => l = Idle
    /\ l.at # "idle" => l.d \in Domains
    /\ l.at \in {"insert", "reconcile", "upsert", "save", "saveType"} => l.rec.zone \in Zones
    /\ l.at = "insert" => l.rec.target = None /\ l.rec.status = "pending"
    /\ l.at \in {"reconcile", "upsert", "save", "saveType"} => l.rec.id # 0
    /\ l.at = "upsert" => l.addr \in Addresses /\ l.type = TypeOf[l.addr]
    /\ l.at = "providerDelete" => l.rec.target \in Addresses
                                    /\ RecordTypeForAddress(l.rec.target, l.rec.type) # None

\* A name with a foreign record: it is still there, no domain has a row for the
\* name, and all a worker may do there is delete the domain.
ForeignKept ==
    \A h \in foreign :
        /\ h \in Hosts
        /\ \E t \in Types : provider[h][t] = Foreign
        /\ \A t \in Types : provider[h][t] \in {Foreign, Free}
        /\ \A d \in Domains : HostOf[d] = h => record[d] = NoRow
        /\ \A w \in Workers : ~At(w, "idle") /\ Host(w) = h => At(w, "deleteDomain")

\* Neither a row nor a copy of one is ready without a write.
ReadyKept ==
    /\ ReadyWasWritten
    /\ \A w \in Workers : loc[w].rec.status = "ready" => <<loc[w].d, loc[w].rec.target>> \in written

\* Calls on a name did not overlap: one worker at most is busy there.
Alone ==
    \A v, w \in Workers : ~At(v, "idle") /\ ~At(w, "idle") /\ Host(v) = Host(w)
                            /\ Host(w) \notin blurred => v = w

NotWritten(d) == \A t \in Types : provider[HostOf[d]][t].by # d

\* ... and then what it holds is what the row says.
CopyIsCurrent(l) ==
    /\ l.at = "insert" =>
          /\ record[l.d] = NoRow /\ NotWritten(l.d)
          /\ \A e \in Domains \ {l.d} : HostOf[e] = HostOf[l.d] => record[e].zone # l.rec.zone
    /\ l.at \in {"reconcile", "upsert", "save", "saveType", "providerDelete", "deleteRow"} =>
          record[l.d] # NoRow /\ record[l.d].id = l.rec.id /\ record[l.d].zone = l.rec.zone
    /\ l.at \in {"reconcile", "upsert", "saveType", "providerDelete"} => record[l.d].target = l.rec.target
    /\ l.at \in {"deleteRow", "deleteDomain"} => NotWritten(l.d)
CopiesAreCurrent ==
    \A w \in Workers : ~At(w, "idle") /\ Host(w) \notin blurred => CopyIsCurrent(loc[w])

\* A record at the provider has the type that the target in the row, or in the
\* row about to be saved, asks for.
NamedBy(d, t) ==
    /\ \A w \in Workers : At(w, "save") /\ loc[w].d = d =>
          loc[w].rec.target # None /\ t = TypeOf[loc[w].rec.target]
    /\ \/ \E w \in Workers : At(w, "save") /\ loc[w].d = d
       \/ record[d].target # None /\ t = TypeOf[record[d].target]
RecordsAreNamed ==
    \A d \in Domains : HostOf[d] \notin blurred =>
        \A t \in Types : provider[HostOf[d]][t].by = d => NamedBy(d, t)

NamesInv == /\ \A w \in Workers : InPlace(loc[w])
            /\ ForeignKept /\ ReadyKept /\ Alone /\ CopiesAreCurrent /\ RecordsAreNamed
            /\ OneOwnerPerName
DnsInv == StateTyped /\ RowsInPlace /\ NamesInv

---------------------------------------------------------------------------
\* The fields of a row and of what a worker holds.
LEMMA NoRowTyped == NoRow \in Rows /\ Idle \in Locals
  BY BoundsAssumption DEF NoRow, Rows, Idle, Locals, Labels, RecordTypes, None

\* Assigning a field keeps a row a row and a local state a local state.
LEMMA RowUpdates ==
  ASSUME NEW r \in Rows
  PROVE  /\ \A x \in 0..MaxRows : [r EXCEPT !.id = x] \in Rows
         /\ \A x \in RecordTypes : [r EXCEPT !.type = x] \in Rows
         /\ \A z \in Zones, x \in RecordTypes :
               [r EXCEPT !.zone = z, !.type = x, !.status = "pending"] \in Rows
         /\ \A x \in {"pending", "ready", "error"} : [r EXCEPT !.status = x] \in Rows
  BY DEF Rows

LEMMA LocalUpdates ==
  ASSUME NEW l \in Locals
  PROVE  /\ \A x \in Labels : [l EXCEPT !.at = x] \in Locals
         /\ \A r \in Rows, x \in Labels : [l EXCEPT !.rec = r, !.at = x] \in Locals
         /\ \A s \in {"pending", "ready", "error"}, x \in Labels :
               [l EXCEPT !.rec.status = s, !.at = x] \in Locals
<1>1. /\ \A x \in Labels : [l EXCEPT !.at = x] \in Locals
      /\ \A r \in Rows, x \in Labels : [l EXCEPT !.rec = r, !.at = x] \in Locals
  BY DEF Locals
<1>2. ASSUME NEW s \in {"pending", "ready", "error"}, NEW x \in Labels
      PROVE  [l EXCEPT !.rec.status = s, !.at = x] \in Locals
  <2>1. [l.rec EXCEPT !.status = s] \in Rows
    BY RowUpdates DEF Locals
  <2>2. [l EXCEPT !.rec.status = s, !.at = x] = [l EXCEPT !.rec = [l.rec EXCEPT !.status = s], !.at = x]
    BY DEF Locals
  <2> QED
    BY <1>1, <2>1, <2>2
<1> QED
  BY <1>1, <1>2

LEMMA TypeForAddress ==
  ASSUME NEW a \in Addresses, NEW f
  PROVE  /\ RecordTypeForAddress(a, f) \in {None, TypeOf[a]}
         /\ TypeOf[a] \in Types /\ TypeOf[a] # None
  BY FunctionsAssumption, NamesAssumption DEF RecordTypeForAddress, None

LEMMA TypesGoto ==
  ASSUME StateTyped, NEW w \in Workers
  PROVE  /\ \A x \in Labels : Goto(w, x) => loc' \in [Workers -> Locals]
         /\ Return(w) => loc' \in [Workers -> Locals]
<1>1. ASSUME NEW x \in Labels, Goto(w, x) PROVE loc' \in [Workers -> Locals]
  BY <1>1, LocalUpdates DEF Goto, StateTyped
<1>2. ASSUME Return(w) PROVE loc' \in [Workers -> Locals]
  BY <1>2, NoRowTyped DEF Return, StateTyped
<1> QED
  BY <1>1, <1>2

LEMMA TypesBegin ==
  ASSUME StateTyped, NEW w \in Workers, NEW d \in Domains, NEW rec \in Rows,
         NEW op \in {"enable", "get", "update", "retry", "delete", "domain"}, NEW label \in Labels,
         loc' = [loc EXCEPT ![w] = [Idle EXCEPT !.op = op, !.at = label, !.d = d, !.rec = rec]]
  PROVE  loc' \in [Workers -> Locals]
  BY NoRowTyped DEF StateTyped, Locals, Idle, None

\* What the provider's records and the saved row become is of the right type.
LEMMA ResultsTyped ==
  ASSUME StateTyped, NEW w \in Workers, InPlace(loc[w])
  PROVE  /\ At(w, "upsert") => Upserted(loc[w]) \in [Hosts -> [Types -> Held]]
         /\ At(w, "upsert") => Done(loc[w]) \in Locals
         /\ loc[w].at \in {"save", "saveType"} => Saved(loc[w]) \in [Domains -> Rows]
<1> DEFINE l == loc[w]
<1>0. l \in Locals
  BY DEF StateTyped
<1>1. ASSUME At(w, "upsert") PROVE Upserted(l) \in [Hosts -> [Types -> Held]]
  <2>1. /\ l.d \in Domains /\ HostOf[l.d] \in Hosts
        /\ l.addr \in Addresses /\ l.type \in Types
    BY <1>1, FunctionsAssumption DEF InPlace, At, Hosts
  <2>2. [by |-> l.d, target |-> l.addr] \in Held
    BY <2>1 DEF Held
  <2> QED
    BY <2>1, <2>2 DEF Upserted, StateTyped
<1>2. ASSUME At(w, "upsert") PROVE Done(l) \in Locals
  <2>1. l.rec \in Rows /\ l.addr \in Addresses
    BY <1>0, <1>1, <1>2 DEF Locals, InPlace, At
  <2>2. [l.rec EXCEPT !.target = l.addr, !.status = "ready"] \in Rows
    BY <2>1 DEF Rows
  <2> QED
    BY <1>0, <2>1, <2>2 DEF Done, Locals, Labels, Rows
<1>3. Saved(l) \in [Domains -> Rows]
  BY <1>0 DEF Saved, StateTyped, Locals
<1> QED
  BY <1>1, <1>2, <1>3

LEMMA TypesStep ==
  ASSUME DnsInv, Next
  PROVE  StateTyped'
<1> USE DEF rows
<1>0. StateTyped /\ RowsInPlace /\ \A w \in Workers : InPlace(loc[w]) /\ loc[w] \in Locals /\ loc[w].rec \in Rows
  BY DEF DnsInv, NamesInv, StateTyped, Locals
<1>1. ASSUME NEW c \in Credentials, CreateCredential(c) \/ DeleteCredential(c) PROVE StateTyped'
  BY <1>0, <1>1 DEF CreateCredential, DeleteCredential, StateTyped
<1>2. ASSUME NEW z \in Zones, NEW c \in Credentials, CreateZone(z, c) PROVE StateTyped'
  BY <1>0, <1>2 DEF CreateZone, StateTyped, ZoneRows
<1>3. ASSUME NEW z \in Zones, DeleteZone(z) PROVE StateTyped'
  BY <1>0, <1>3 DEF DeleteZone, StateTyped, ZoneRows, NoZone
<1>4. ASSUME NEW d \in Domains, RetryExpires(d) PROVE StateTyped'
  BY <1>0, <1>4 DEF RetryExpires, StateTyped
<1>5. ASSUME NEW d \in Domains, NEW a \in Addresses, GatewayMoves(d, a) PROVE StateTyped'
  BY <1>0, <1>5 DEF GatewayMoves, StateTyped
<1>6. ASSUME NEW w \in Workers, NEW d \in Domains, NEW z \in Zones, NEW type \in Requested,
             Enable(w, d, z, type) PROVE StateTyped'
  <2>1. [NoRow EXCEPT !.zone = z, !.type = type, !.status = "pending"] \in Rows
    BY NoRowTyped, RowUpdates, FunctionsAssumption DEF RecordTypes
  <2>2. loc' \in [Workers -> Locals]
    BY <1>0, <1>6, <2>1, TypesBegin DEF Enable, Begin, Labels
  <2> QED
    BY <1>0, <1>6, <2>2 DEF Enable, StateTyped
<1>7. ASSUME NEW w \in Workers, NEW d \in Domains, NEW type \in Requested, Update(w, d, type)
      PROVE StateTyped'
  <2>1. [record[d] EXCEPT !.type = type] \in Rows
    BY <1>0, FunctionsAssumption, RowUpdates DEF StateTyped, RecordTypes
  <2>2. loc' \in [Workers -> Locals]
    BY <1>0, <1>7, <2>1, TypesBegin DEF Update, Begin, Labels
  <2> QED
    BY <1>0, <1>7, <2>2 DEF Update, StateTyped
<1>8. ASSUME NEW w \in Workers, NEW d \in Domains, Get(w, d) PROVE StateTyped'
  <2>1. record[d] \in Rows
    BY <1>0 DEF StateTyped
  <2>2. loc' \in [Workers -> Locals]
    BY <1>0, <1>8, <2>1, TypesBegin DEF Get, Begin, Labels
  <2> QED
    BY <1>0, <1>8, <2>2 DEF Get, StateTyped
<1>9. ASSUME NEW w \in Workers, NEW d \in Domains, Retry(w, d) PROVE StateTyped'
  <2>1. record[d] \in Rows
    BY <1>0 DEF StateTyped
  <2>2. CASE record[d].status = "pending"
    <3>0. Begin(w, "retry", d, "reconcile", record[d])
      BY <1>9, <2>2 DEF Retry
    <3>1. loc' \in [Workers -> Locals]
      BY <1>0, <2>1, <3>0, TypesBegin DEF Begin, Labels
    <3> QED
      BY <1>0, <1>9, <2>2, <3>1 DEF Retry, StateTyped
  <2> QED
    BY <1>0, <1>9, <2>2 DEF Retry, StateTyped
<1>10. ASSUME NEW w \in Workers, NEW d \in Domains, DeleteRecord(w, d) PROVE StateTyped'
  <2>1. record[d] \in Rows
    BY <1>0 DEF StateTyped
  <2>2. loc' \in [Workers -> Locals]
    BY <1>0, <1>10, <2>1, TypesBegin DEF DeleteRecord, Begin, Labels
  <2> QED
    BY <1>0, <1>10, <2>2 DEF DeleteRecord, StateTyped
<1>11. ASSUME NEW w \in Workers, NEW d \in Domains, DeleteDomain(w, d) PROVE StateTyped'
  <2> DEFINE step == DeleteStep(record[d])
             label == IF step \in {"skip", "refused"} THEN "deleteDomain" ELSE step
  <2>1. record[d] \in Rows /\ label \in Labels
    BY <1>0 DEF StateTyped, DeleteStep, Labels
  <2>2. loc' = [loc EXCEPT ![w] = [Idle EXCEPT !.op = "domain", !.at = label, !.d = d, !.rec = record[d]]]
    BY <1>11 DEF DeleteDomain, Idle
  <2>3. loc' \in [Workers -> Locals]
    BY <1>0, <2>1, <2>2, TypesBegin
  <2> QED
    BY <1>0, <1>11, <2>3 DEF DeleteDomain, StateTyped
<1>12. ASSUME NEW w \in Workers, InsertRecord(w) PROVE StateTyped'
  <2> DEFINE row == [loc[w].rec EXCEPT !.id = rowIds + 1]
  <2>1. rowIds + 1 \in 0..MaxRows /\ row \in Rows
    BY <1>0, <1>12, BoundsAssumption DEF InsertRecord, StateTyped, Rows
  <2>2. [loc[w] EXCEPT !.rec = row, !.at = "reconcile"] \in Locals
    BY <1>0, <2>1, LocalUpdates DEF Labels
  <2>3. loc' \in [Workers -> Locals]
    BY <1>0, <1>12, <2>2, NoRowTyped DEF InsertRecord, StateTyped, Return
  <2> QED
    BY <1>0, <1>12, <2>1, <2>3 DEF InsertRecord, StateTyped, Return
<1>13. ASSUME NEW w \in Workers, Reconcile(w) PROVE StateTyped'
  <2> DEFINE l == loc[w]
  <2>1. l.d \in Domains
    BY <1>0, <1>13 DEF Reconcile, At, InPlace
  <2>2. /\ [l EXCEPT !.rec.status = "pending", !.at = "save"] \in Locals
        /\ [l EXCEPT !.rec.status = "error", !.at = "save"] \in Locals
    BY <1>0, LocalUpdates DEF Labels
  <2>3. ASSUME ~MustWait(l), MayWrite(l)
        PROVE  [l EXCEPT !.type = RecordTypeForAddress(address[l.d], l.rec.type),
                         !.addr = address[l.d], !.at = "upsert"] \in Locals
    <3>1. address[l.d] \in Addresses
      BY <1>0, <2>1, <2>3 DEF MustWait, MayWrite, StateTyped
    <3>2. RecordTypeForAddress(address[l.d], l.rec.type) \in Types
      BY <2>3, <3>1, TypeForAddress DEF MayWrite
    <3> QED
      BY <1>0, <3>1, <3>2 DEF Locals, Labels
  <2>4. loc' \in [Workers -> Locals]
    BY <1>0, <1>13, <2>2, <2>3 DEF Reconcile, StateTyped
  <2> QED
    BY <1>0, <1>13, <2>4 DEF Reconcile, StateTyped
<1>14. ASSUME NEW w \in Workers, ReconcileFails(w) PROVE StateTyped'
  <2>1. \A s \in {"pending", "error"} : [loc[w] EXCEPT !.rec.status = s, !.at = "save"] \in Locals
    BY <1>0, LocalUpdates DEF Labels
  <2> QED
    BY <1>0, <1>14, <2>1 DEF ReconcileFails, StateTyped
<1>15. ASSUME NEW w \in Workers, Upsert(w) PROVE StateTyped'
  BY <1>0, <1>15, ResultsTyped DEF Upsert, StateTyped
<1>16. ASSUME NEW w \in Workers, UpsertFails(w) PROVE StateTyped'
  <2>1. [loc[w] EXCEPT !.rec.status = "error", !.at = "save"] \in Locals
    BY <1>0, LocalUpdates DEF Labels
  <2> QED
    BY <1>0, <1>16, <2>1, ResultsTyped DEF UpsertFails, StateTyped
<1>17. ASSUME NEW w \in Workers, SaveType(w) PROVE StateTyped'
  <2>1. loc' \in [Workers -> Locals]
    BY <1>0, <1>17, TypesGoto DEF SaveType, Labels
  <2> QED
    BY <1>0, <1>17, <2>1, ResultsTyped DEF SaveType, At, StateTyped
<1>18. ASSUME NEW w \in Workers, AfterSave(w), ~At(w, "idle")
       PROVE  loc' \in [Workers -> Locals] /\ retry' \subseteq Domains
  <2>1. loc' \in [Workers -> Locals]
    BY <1>0, <1>18, TypesGoto DEF AfterSave, Labels
  <2> QED
    BY <1>0, <1>18, <2>1 DEF AfterSave, InPlace, At, StateTyped
<1>19. ASSUME NEW w \in Workers, SaveRecord(w) PROVE StateTyped'
  BY <1>0, <1>18, <1>19, ResultsTyped DEF SaveRecord, At, StateTyped
<1>20. ASSUME NEW w \in Workers, SaveFails(w) PROVE StateTyped'
  BY <1>0, <1>18, <1>20 DEF SaveFails, At, StateTyped
<1>21. ASSUME NEW w \in Workers, AfterDelete(w) PROVE loc' \in [Workers -> Locals]
  BY <1>0, <1>21, TypesGoto DEF AfterDelete, Labels
<1>22. ASSUME NEW w \in Workers, ProviderDelete(w) PROVE StateTyped'
  <2> DEFINE l == loc[w]
             t == RecordTypeForAddress(l.rec.target, l.rec.type)
  <2>1. l.d \in Domains /\ Host(w) \in Hosts /\ t \in Types
    BY <1>0, <1>22, TypeForAddress, FunctionsAssumption DEF ProviderDelete, At, InPlace, Host, Hosts
  <2>2. Free \in Held
    BY DEF Free, Held
  <2>3. provider' \in [Hosts -> [Types -> Held]]
    BY <1>0, <1>22, <2>1, <2>2 DEF ProviderDelete, StateTyped
  <2>4. loc' \in [Workers -> Locals]
    BY <1>0, <1>22, LocalUpdates DEF ProviderDelete, Goto, StateTyped, Labels
  <2> QED
    BY <1>0, <1>22, <2>3, <2>4 DEF ProviderDelete, StateTyped
<1>23. ASSUME NEW w \in Workers, ProviderDeleteFails(w) PROVE StateTyped'
  BY <1>0, <1>21, <1>23 DEF ProviderDeleteFails, StateTyped
<1>24. ASSUME NEW w \in Workers, DeleteRow(w) PROVE StateTyped'
  BY <1>0, <1>21, <1>24, NoRowTyped DEF DeleteRow, StateTyped
<1>25. ASSUME NEW w \in Workers, RemoveDomain(w) PROVE StateTyped'
  BY <1>0, <1>25, NoRowTyped DEF RemoveDomain, Return, StateTyped
<1> QED
  BY <1>1, <1>2, <1>3, <1>4, <1>5, <1>6, <1>7, <1>8, <1>9, <1>10, <1>11, <1>12, <1>13, <1>14,
     <1>15, <1>16, <1>17, <1>19, <1>20, <1>22, <1>23, <1>24, <1>25 DEF Next

---------------------------------------------------------------------------
\* A step that touches neither rows nor records nor workers.
LEMMA QuietStep ==
  ASSUME NamesInv, UNCHANGED <<record, provider, loc, foreign, written, blurred>>
  PROVE  NamesInv'
<1> USE DEF At, Host
<1>1. (\A w \in Workers : InPlace(loc[w]))'
  BY DEF NamesInv, InPlace
<1>2. ForeignKept' /\ ReadyKept' /\ Alone'
  BY DEF NamesInv, ForeignKept, ReadyKept, ReadyWasWritten, Alone
<1>3. CopiesAreCurrent'
  BY DEF NamesInv, CopiesAreCurrent, CopyIsCurrent, NotWritten
<1>4. RecordsAreNamed' /\ OneOwnerPerName'
  BY DEF NamesInv, RecordsAreNamed, NamedBy, OneOwnerPerName
<1> QED
  BY <1>1, <1>2, <1>3, <1>4 DEF NamesInv

\* A worker takes up work with local state l: other workers keep theirs, and a
\* name where another is busy is blurred.
Takes(w, l) ==
    /\ At(w, "idle") /\ l.at \notin {"idle", "save"} /\ l.d \in Domains
    /\ loc' = [loc EXCEPT ![w] = l]
    /\ UNCHANGED <<record, provider, foreign, written>>
    /\ blurred \subseteq blurred'
    /\ (\E v \in Workers : ~At(v, "idle") /\ Host(v) = HostOf[l.d]) => HostOf[l.d] \in blurred'

LEMMA TakesStep ==
  ASSUME DnsInv, NEW w \in Workers, NEW l \in Locals, Takes(w, l), InPlace(l),
         HostOf[l.d] \in foreign => l.at = "deleteDomain",
         l.rec.status = "ready" => <<l.d, l.rec.target>> \in written,
         HostOf[l.d] \notin blurred' => CopyIsCurrent(l)
  PROVE  NamesInv'
<1>0. /\ loc \in [Workers -> Locals] /\ NamesInv
      /\ loc'[w] = l /\ \A v \in Workers \ {w} : loc'[v] = loc[v]
      /\ blurred \subseteq blurred' /\ At(w, "idle") /\ l.d \in Domains
      /\ l.at # "idle" /\ l.at # "save"
      /\ \A v \in Workers : ~At(v, "idle") /\ Host(v) = HostOf[l.d] => HostOf[l.d] \in blurred'
      /\ UNCHANGED <<record, provider, foreign, written>>
  BY DEF DnsInv, StateTyped, Takes
<1> USE DEF At, Host
<1>1. (\A v \in Workers : InPlace(loc[v]))'
  <2>1. ASSUME NEW v \in Workers PROVE InPlace(loc'[v])
    BY <1>0 DEF NamesInv
  <2> QED
    BY <2>1 DEF InPlace
<1>2. ForeignKept'
  BY <1>0 DEF NamesInv, ForeignKept
<1>3. ReadyKept'
  BY <1>0 DEF NamesInv, ReadyKept, ReadyWasWritten
<1>4. Alone'
  BY <1>0 DEF NamesInv, Alone
<1>5. CopiesAreCurrent'
  <2>1. ASSUME NEW v \in Workers, loc'[v].at # "idle", HostOf[loc'[v].d] \notin blurred'
        PROVE  CopyIsCurrent(loc'[v])
    BY <1>0, <2>1 DEF NamesInv, CopiesAreCurrent
  <2> QED
    BY <1>0, <2>1 DEF CopiesAreCurrent, CopyIsCurrent, NotWritten
<1>6. RecordsAreNamed' /\ OneOwnerPerName'
  BY <1>0 DEF NamesInv, RecordsAreNamed, NamedBy, OneOwnerPerName
<1> QED
  BY <1>1, <1>2, <1>3, <1>4, <1>5, <1>6 DEF NamesInv

\* A busy worker takes a step: it works on its own domain and its own name.
Steps(w) ==
    /\ ~At(w, "idle") /\ loc' \in [Workers -> Locals]
    /\ \A v \in Workers \ {w} : loc'[v] = loc[v]
    /\ loc'[w].at = "idle" \/ loc'[w].d = loc[w].d
    /\ \A e \in Domains \ {loc[w].d} : record'[e] = record[e]
    /\ \A h \in Hosts \ {Host(w)} : provider'[h] = provider[h]
    /\ \A t \in Types : \/ provider'[Host(w)][t] = provider[Host(w)][t]
                        \/ provider'[Host(w)][t].by \in {loc[w].d, None}
    /\ foreign' = foreign /\ blurred \subseteq blurred' /\ written \subseteq written'

LEMMA StepsStep ==
  ASSUME DnsInv, NEW w \in Workers, Steps(w), InPlace(loc'[w]),
         NEW d, d = loc[w].d,
         Host(w) \in foreign => /\ record'[d] = NoRow /\ provider'[Host(w)] = provider[Host(w)]
                                /\ loc'[w].at \in {"idle", "deleteDomain"},
         record'[d].status = "ready" => <<d, record'[d].target>> \in written',
         loc'[w].rec.status = "ready" => <<loc'[w].d, loc'[w].rec.target>> \in written',
         HostOf[d] \notin blurred' =>
            /\ loc'[w].at # "idle" => CopyIsCurrent(loc[w])'
            /\ \A t \in Types : provider'[HostOf[d]][t].by = d => NamedBy(d, t)'
            /\ record'[d] # NoRow =>
                  \A e \in Domains \ {d} : HostOf[e] = HostOf[d] => record[e].zone # record'[d].zone
  PROVE  NamesInv'
<1>0. /\ loc \in [Workers -> Locals] /\ NamesInv
      /\ d \in Domains /\ HostOf[d] \in Hosts /\ Host(w) = HostOf[d]
      /\ \A e \in Domains : HostOf[e] \in Hosts
  BY FunctionsAssumption DEF DnsInv, NamesInv, InPlace, StateTyped, Steps, Host, Hosts, At
<1> USE DEF At, Host
<1>1. (\A v \in Workers : InPlace(loc[v]))'
  <2>1. ASSUME NEW v \in Workers PROVE InPlace(loc'[v])
    BY <1>0 DEF NamesInv, Steps
  <2> QED
    BY <2>1 DEF InPlace
<1>2. ForeignKept'
  BY <1>0 DEF NamesInv, ForeignKept, Steps
<1>3. ReadyKept'
  <2>1. ReadyWasWritten'
    BY <1>0 DEF NamesInv, ReadyKept, ReadyWasWritten, Steps
  <2> QED
    BY <1>0, <2>1 DEF NamesInv, ReadyKept, Steps
<1>4. Alone'
  BY <1>0 DEF NamesInv, Alone, Steps
<1>5. CopiesAreCurrent'
  <2>1. ASSUME NEW v \in Workers \ {w}, loc'[v].at # "idle", HostOf[loc'[v].d] \notin blurred'
        PROVE  CopyIsCurrent(loc[v])'
    <3>1. /\ loc'[v] = loc[v] /\ HostOf[loc[v].d] \notin blurred
          /\ CopyIsCurrent(loc[v]) /\ loc[v].d \in Domains
      BY <1>0, <2>1 DEF NamesInv, CopiesAreCurrent, Steps, InPlace
    <3>2. HostOf[loc[v].d] # HostOf[d]
      BY <1>0, <2>1, <3>1 DEF NamesInv, Alone, Steps
    <3>3. /\ provider'[HostOf[loc[v].d]] = provider[HostOf[loc[v].d]]
          /\ \A e \in Domains : HostOf[e] = HostOf[loc[v].d] => record'[e] = record[e]
      BY <1>0, <3>1, <3>2 DEF Steps
    <3> QED
      BY <3>1, <3>3 DEF CopyIsCurrent, NotWritten
  <2> QED
    BY <1>0, <2>1 DEF CopiesAreCurrent, Steps
<1>6. RecordsAreNamed'
  <2>1. ASSUME NEW e \in Domains \ {d}, HostOf[e] \notin blurred', NEW t \in Types,
               provider'[HostOf[e]][t].by = e
        PROVE  NamedBy(e, t)'
    <3>1. provider[HostOf[e]][t].by = e /\ HostOf[e] \notin blurred
      BY <1>0, <2>1, NamesAssumption DEF Steps, None
    <3>2. NamedBy(e, t)
      BY <1>0, <2>1, <3>1 DEF NamesInv, RecordsAreNamed
    <3> QED
      BY <1>0, <2>1, <3>2 DEF NamedBy, Steps
  <2> QED
    BY <1>0, <2>1 DEF RecordsAreNamed
<1>7. OneOwnerPerName'
  <2>1. \A e \in Domains : record[e] # NoRow => record[e].zone # NoRow.zone
    BY NamesAssumption DEF DnsInv, RowsInPlace, NoRow, None
  <2>2. \A e \in Domains \ {d} : HostOf[e] = HostOf[d] /\ HostOf[d] \notin blurred' =>
          /\ record'[d] = NoRow \/ record'[e].zone # record'[d].zone
          /\ record'[e] = NoRow \/ record'[d].zone # record'[e].zone
    BY <1>0, <2>1 DEF Steps
  <2> QED
    BY <1>0, <2>2 DEF NamesInv, OneOwnerPerName, Steps
<1> QED
  BY <1>1, <1>2, <1>3, <1>4, <1>5, <1>6, <1>7 DEF NamesInv

---------------------------------------------------------------------------
LEMMA RowsStep ==
  ASSUME DnsInv, Next, StateTyped'
  PROVE  RowsInPlace'
<1> USE DEF rows
<1>0. /\ StateTyped /\ RowsInPlace /\ NoRow.zone = None /\ NoRow.id = 0
      /\ \A w \in Workers : InPlace(loc[w]) /\ loc[w] \in Locals /\ loc[w].rec \in Rows
  BY DEF DnsInv, NamesInv, StateTyped, Locals, NoRow
<1>1. CASE UNCHANGED <<alive, record, zone, credential>>
  BY <1>0, <1>1 DEF RowsInPlace
<1>2. ASSUME NEW c \in Credentials, CreateCredential(c) \/ DeleteCredential(c) PROVE RowsInPlace'
  BY <1>0, <1>2 DEF CreateCredential, DeleteCredential, RowsInPlace, StateTyped
<1>3. ASSUME NEW z \in Zones, NEW c \in Credentials, CreateZone(z, c) PROVE RowsInPlace'
  <2>1. zone'[z] # NoZone /\ zone'[z].cred = c /\ \A y \in Zones \ {z} : zone'[y] = zone[y]
    <3>1. PICK status \in {"ready", "error"} : zone' = [zone EXCEPT ![z] = [cred |-> c, status |-> status]]
      BY <1>3 DEF CreateZone
    <3>2. zone'[z] = [cred |-> c, status |-> status] /\ \A y \in Zones \ {z} : zone'[y] = zone[y]
      BY <1>0, <3>1 DEF StateTyped
    <3> QED
      BY <3>2 DEF NoZone, None
  <2> QED
    BY <1>0, <1>3, <2>1 DEF CreateZone, RowsInPlace
<1>4. ASSUME NEW z \in Zones, DeleteZone(z) PROVE RowsInPlace'
  BY <1>0, <1>4 DEF DeleteZone, RowsInPlace, StateTyped
<1>5. ASSUME NEW w \in Workers, InsertRecord(w) PROVE RowsInPlace'
  <2> DEFINE l == loc[w]
             row == [l.rec EXCEPT !.id = rowIds + 1]
  <2>1. l.d \in Domains /\ l.rec.zone \in Zones /\ rowIds \in Nat
    BY <1>0, <1>5, BoundsAssumption DEF InsertRecord, At, InPlace, StateTyped
  <2>2. row.id # 0 /\ row.zone = l.rec.zone
    BY <1>0, <2>1 DEF Rows
  <2>3. CASE l.d \in alive /\ zone[l.rec.zone] # NoZone /\ record[l.d] = NoRow
    <3>1. record'[l.d] = row /\ \A e \in Domains \ {l.d} : record'[e] = record[e]
      BY <1>0, <1>5, <2>1, <2>3 DEF InsertRecord, StateTyped
    <3>2. UNCHANGED <<alive, zone, credential>>
      BY <1>5 DEF InsertRecord
    <3> HIDE DEF row
    <3> QED
      BY <1>0, <2>1, <2>2, <2>3, <3>1, <3>2 DEF RowsInPlace
  <2> QED
    BY <1>0, <1>1, <1>5, <2>3 DEF InsertRecord
<1>6. ASSUME NEW w \in Workers, SaveType(w) \/ SaveRecord(w) PROVE RowsInPlace'
  <2> DEFINE l == loc[w]
  <2>1. l.d \in Domains /\ l.rec.zone \in Zones /\ l.rec.id # 0
    BY <1>0, <1>6 DEF SaveType, SaveRecord, At, InPlace
  <2>2. record' = Saved(l) /\ UNCHANGED <<alive, zone, credential>>
    BY <1>6 DEF SaveType, SaveRecord
  <2>3. \A e \in Domains : \/ record'[e] = record[e]
                           \/ e = l.d /\ e \in alive /\ zone[l.rec.zone] # NoZone /\ record'[e] = l.rec
    BY <1>0, <2>1, <2>2 DEF Saved, StateTyped
  <2> QED
    BY <1>0, <2>1, <2>2, <2>3 DEF RowsInPlace
<1>7. ASSUME NEW w \in Workers, DeleteRow(w) \/ RemoveDomain(w) PROVE RowsInPlace'
  <2>1. loc[w].d \in Domains /\ UNCHANGED <<zone, credential>>
    BY <1>0, <1>7 DEF DeleteRow, RemoveDomain, At, InPlace
  <2>2. /\ record' = [record EXCEPT ![loc[w].d] = NoRow]
        /\ alive \ {loc[w].d} \subseteq alive'
    BY <1>7 DEF DeleteRow, RemoveDomain
  <2>3. \A e \in Domains : record'[e] # NoRow => e # loc[w].d /\ record'[e] = record[e]
    BY <1>0, <2>1, <2>2 DEF StateTyped
  <2> QED
    BY <1>0, <2>1, <2>2, <2>3 DEF RowsInPlace
<1>8. ASSUME NEW d \in Domains, RetryExpires(d) \/ \E a \in Addresses : GatewayMoves(d, a)
      PROVE RowsInPlace'
  BY <1>1, <1>8 DEF RetryExpires, GatewayMoves
<1>9. ASSUME NEW w \in Workers, NEW d \in Domains,
             \/ \E z \in Zones, type \in Requested : Enable(w, d, z, type)
             \/ \E type \in Requested : Update(w, d, type)
             \/ Get(w, d) \/ Retry(w, d) \/ DeleteRecord(w, d) \/ DeleteDomain(w, d)
      PROVE RowsInPlace'
  BY <1>1, <1>9 DEF Enable, Update, Get, Retry, DeleteRecord, DeleteDomain
<1>10. ASSUME NEW w \in Workers,
              \/ Reconcile(w) \/ ReconcileFails(w) \/ Upsert(w) \/ UpsertFails(w) \/ SaveFails(w)
              \/ ProviderDelete(w) \/ ProviderDeleteFails(w)
       PROVE RowsInPlace'
  BY <1>1, <1>10 DEF Reconcile, ReconcileFails, Upsert, UpsertFails, SaveFails, ProviderDelete,
                     ProviderDeleteFails
<1> QED
  BY <1>2, <1>3, <1>4, <1>5, <1>6, <1>7, <1>8, <1>9, <1>10 DEF Next

---------------------------------------------------------------------------
\* Nothing at the provider belongs to a domain without a target, if the name is
\* not blurred and nobody is busy there.
LEMMA QuietName ==
  ASSUME DnsInv, NEW d \in Domains, HostOf[d] \notin blurred, record[d].target = None,
         ~\E v \in Workers : ~At(v, "idle") /\ Host(v) = HostOf[d]
  PROVE  NotWritten(d)
<1>1. ASSUME NEW t \in Types, provider[HostOf[d]][t].by = d PROVE FALSE
  <2>1. NamedBy(d, t)
    BY <1>1 DEF DnsInv, NamesInv, RecordsAreNamed
  <2> QED
    BY <2>1 DEF NamedBy, At, Host
<1> QED
  BY <1>1 DEF NotWritten

\* A request, or a round of the retry, that starts from the row of its domain.
LEMMA RequestStep ==
  ASSUME DnsInv, NEW w \in Workers, NEW d \in Domains, NEW rec \in Rows,
         NEW op \in {"enable", "get", "update", "retry", "delete", "domain"},
         NEW label \in {"reconcile", "saveType", "providerDelete", "deleteRow", "deleteDomain"},
         At(w, "idle"),
         loc' = [loc EXCEPT ![w] = [Idle EXCEPT !.op = op, !.at = label, !.d = d, !.rec = rec]],
         UNCHANGED <<record, provider, foreign, written>>, blurred \subseteq blurred',
         (\E v \in Workers : ~At(v, "idle") /\ Host(v) = HostOf[d]) => HostOf[d] \in blurred',
         /\ rec.id = record[d].id /\ rec.zone = record[d].zone
         /\ rec.target = record[d].target /\ rec.status = record[d].status,
         label # "deleteDomain" => record[d] # NoRow,
         label = "deleteDomain" => record[d] = NoRow \/ HostOf[d] \in blurred',
         label = "deleteRow" => record[d].target = None,
         label = "providerDelete" => record[d].target # None /\ RecordTypeForAddress(rec.target, rec.type) # None
  PROVE  NamesInv'
<1> DEFINE l == [Idle EXCEPT !.op = op, !.at = label, !.d = d, !.rec = rec]
<1>1. /\ l.at = label /\ l.d = d /\ l.rec = rec /\ l \in Locals
  BY NoRowTyped DEF Idle, Locals, Labels, None
<1>2. Takes(w, l)
  BY <1>1 DEF Takes
<1>3. record[d] # NoRow => record[d].zone \in Zones /\ record[d].id # 0
  BY DEF DnsInv, RowsInPlace
<1>4. record[d].target # None => record[d].target \in Addresses
  BY DEF DnsInv, StateTyped, Rows
<1> HIDE DEF l
<1>5. InPlace(l)
  BY <1>1, <1>3, <1>4 DEF InPlace
<1>6. HostOf[l.d] \in foreign => l.at = "deleteDomain"
  BY <1>1 DEF DnsInv, NamesInv, ForeignKept
<1>7. l.rec.status = "ready" => <<l.d, l.rec.target>> \in written
  BY <1>1 DEF DnsInv, NamesInv, ReadyKept, ReadyWasWritten
<1>8. ASSUME HostOf[d] \notin blurred' PROVE CopyIsCurrent(l)
  <2>1. label \in {"deleteRow", "deleteDomain"} => NotWritten(d)
    <3>1. label \in {"deleteRow", "deleteDomain"} => record[d].target = None
      BY <1>8 DEF NoRow
    <3> QED
      BY <1>8, <3>1, QuietName
  <2> QED
    BY <1>1, <2>1 DEF CopyIsCurrent
<1> QED
  BY <1>1, <1>2, <1>5, <1>6, <1>7, <1>8, TakesStep

LEMMA BeginNames ==
  ASSUME DnsInv, Next, StateTyped', NEW w \in Workers, NEW d \in Domains,
         \/ \E z \in Zones, type \in Requested : Enable(w, d, z, type)
         \/ \E type \in Requested : Update(w, d, type)
         \/ Get(w, d) \/ Retry(w, d) \/ DeleteRecord(w, d) \/ DeleteDomain(w, d)
  PROVE  NamesInv'
<1> USE DEF rows
<1>0. /\ StateTyped /\ NamesInv /\ record[d] \in Rows
      /\ \A v \in Workers : ~At(v, "idle") => loc[v] # Idle
  BY DEF DnsInv, StateTyped, Idle, At
<1>1. ASSUME NEW z \in Zones, NEW type \in Requested, Enable(w, d, z, type) PROVE NamesInv'
  <2> DEFINE rec == [NoRow EXCEPT !.zone = z, !.type = type, !.status = "pending"]
             l == [Idle EXCEPT !.op = "enable", !.at = "insert", !.d = d, !.rec = rec]
  <2>1. rec \in Rows /\ rec.zone = z /\ rec.status = "pending" /\ rec.target = None
    <3>1. rec \in Rows
      BY NoRowTyped, RowUpdates, FunctionsAssumption DEF RecordTypes
    <3>2. ASSUME NEW r \in Rows PROVE
            LET q == [r EXCEPT !.zone = z, !.type = type, !.status = "pending"] IN
            q.zone = z /\ q.status = "pending" /\ q.target = r.target
      BY DEF Rows
    <3>3. NoRow.target = None
      BY DEF NoRow
    <3> QED
      BY <3>1, <3>2, <3>3, NoRowTyped
  <2>2. l.at = "insert" /\ l.d = d /\ l.rec = rec /\ l \in Locals
    BY <2>1, NoRowTyped DEF Idle, Locals, Labels, None
  <2> HIDE DEF rec
  <2>3. /\ At(w, "idle") /\ loc' = [loc EXCEPT ![w] = l] /\ record[d] = NoRow
        /\ UNCHANGED <<record, provider, foreign, written>> /\ blurred \subseteq blurred'
        /\ (\E v \in Workers : ~At(v, "idle") /\ Host(v) = HostOf[d]) => HostOf[d] \in blurred'
        /\ ~HostnameClaimExists(d, z) /\ ~RecordExistsForName(HostOf[d])
    BY <1>0, <1>1 DEF Enable, Begin, CheckCollision, rec
  <2> HIDE DEF l
  <2>4. Takes(w, l) /\ InPlace(l)
    BY <2>1, <2>2, <2>3 DEF Takes, InPlace
  <2>5. HostOf[l.d] \notin foreign
    BY <1>0, <2>2, <2>3 DEF NamesInv, ForeignKept, RecordExistsForName, Foreign, Free, None
  <2>6. ASSUME HostOf[d] \notin blurred' PROVE CopyIsCurrent(l)
    <3>1. NotWritten(d)
      BY <2>3, <2>6, QuietName DEF NoRow
    <3> QED
      BY <2>1, <2>2, <2>3, <3>1 DEF CopyIsCurrent, HostnameClaimExists
  <2> QED
    BY <2>1, <2>2, <2>4, <2>5, <2>6, TakesStep
<1>2. ASSUME NEW type \in Requested, Update(w, d, type) PROVE NamesInv'
  <2> DEFINE rec == [record[d] EXCEPT !.type = type]
  <2>1. /\ rec \in Rows /\ rec.id = record[d].id /\ rec.zone = record[d].zone
        /\ rec.target = record[d].target /\ rec.status = record[d].status
    BY <1>0, FunctionsAssumption DEF Rows, RecordTypes
  <2>2. Begin(w, "update", d, "saveType", rec) /\ record[d] # NoRow
        /\ UNCHANGED <<record, provider, foreign, written>>
    BY <1>2 DEF Update
  <2> HIDE DEF rec
  <2> QED
    BY <1>0, <2>1, <2>2, RequestStep DEF Begin
<1>3. ASSUME Get(w, d) PROVE NamesInv'
  BY <1>0, <1>3, RequestStep DEF Get, Begin
<1>4. ASSUME Retry(w, d) PROVE NamesInv'
  <2>1. CASE record[d].status = "pending"
    <3>1. Begin(w, "retry", d, "reconcile", record[d]) /\ UNCHANGED <<record, provider, foreign, written>>
      BY <1>4, <2>1 DEF Retry
    <3>2. record[d] # NoRow
      BY <2>1 DEF NoRow, None
    <3> QED
      BY <1>0, <3>1, <3>2, RequestStep DEF Begin
  <2> QED
    BY <1>0, <1>4, <2>1, QuietStep DEF Retry
<1>5. ASSUME DeleteRecord(w, d) PROVE NamesInv'
  <2>1. Begin(w, "delete", d, DeleteStep(record[d]), record[d])
        /\ UNCHANGED <<record, provider, foreign, written>>
    BY <1>5 DEF DeleteRecord
  <2>2. \/ DeleteStep(record[d]) = "deleteRow" /\ record[d] # NoRow /\ record[d].target = None
        \/ /\ DeleteStep(record[d]) = "providerDelete" /\ record[d] # NoRow /\ record[d].target # None
           /\ RecordTypeForAddress(record[d].target, record[d].type) # None
    BY <1>5 DEF DeleteRecord, DeleteStep
  <2> QED
    BY <1>0, <2>1, <2>2, RequestStep DEF Begin
<1>6. ASSUME DeleteDomain(w, d) PROVE NamesInv'
  <2> DEFINE step == DeleteStep(record[d])
             label == IF step \in {"skip", "refused"} THEN "deleteDomain" ELSE step
  <2>1. loc' = [loc EXCEPT ![w] = [Idle EXCEPT !.op = "domain", !.at = label, !.d = d, !.rec = record[d]]]
    BY <1>6 DEF DeleteDomain, Idle
  <2>2. /\ At(w, "idle") /\ UNCHANGED <<record, provider, foreign, written>>
        /\ blurred \subseteq blurred'
        /\ step = "refused" => HostOf[d] \in blurred'
        /\ (\E v \in Workers : ~At(v, "idle") /\ Host(v) = HostOf[d]) => HostOf[d] \in blurred'
    BY <1>0, <1>6 DEF DeleteDomain
  <2>3. \/ label = "deleteRow" /\ record[d] # NoRow /\ record[d].target = None
        \/ /\ label = "providerDelete" /\ record[d] # NoRow /\ record[d].target # None
           /\ RecordTypeForAddress(record[d].target, record[d].type) # None
        \/ label = "deleteDomain" /\ (record[d] = NoRow \/ step = "refused")
    BY DEF DeleteStep
  <2> HIDE DEF label
  <2> QED
    BY <1>0, <2>1, <2>2, <2>3, RequestStep
<1> QED
  BY <1>1, <1>2, <1>3, <1>4, <1>5, <1>6

\* The facts about a busy worker that its steps start from.
LEMMA BusyWorker ==
  ASSUME DnsInv, NEW w \in Workers, ~At(w, "idle")
  PROVE  /\ loc[w] \in Locals /\ loc[w].d \in Domains /\ loc[w].rec \in Rows
         /\ InPlace(loc[w])
         /\ Host(w) = HostOf[loc[w].d] /\ Host(w) \in Hosts
         /\ Host(w) \in foreign => At(w, "deleteDomain")
         /\ Host(w) \notin blurred => CopyIsCurrent(loc[w])
         /\ Host(w) \notin blurred => \A v \in Workers \ {w} : loc[v].d = loc[w].d => At(v, "idle")
         /\ loc[w].rec.status = "ready" => <<loc[w].d, loc[w].rec.target>> \in written
         /\ record[loc[w].d].status = "ready" => <<loc[w].d, record[loc[w].d].target>> \in written
<1>1. /\ loc[w] \in Locals /\ loc[w].rec \in Rows /\ InPlace(loc[w]) /\ loc[w].d \in Domains
  BY DEF DnsInv, NamesInv, StateTyped, Locals, InPlace, At
<1>2. Host(w) = HostOf[loc[w].d] /\ Host(w) \in Hosts
  BY <1>1, FunctionsAssumption DEF Host, Hosts
<1>3. /\ Host(w) \in foreign => At(w, "deleteDomain")
      /\ Host(w) \notin blurred => CopyIsCurrent(loc[w])
  BY DEF DnsInv, NamesInv, ForeignKept, CopiesAreCurrent
<1>4. Host(w) \notin blurred => \A v \in Workers \ {w} : loc[v].d = loc[w].d => At(v, "idle")
  BY DEF DnsInv, NamesInv, Alone, Host
<1>5. /\ loc[w].rec.status = "ready" => <<loc[w].d, loc[w].rec.target>> \in written
      /\ record[loc[w].d].status = "ready" => <<loc[w].d, record[loc[w].d].target>> \in written
  BY <1>1 DEF DnsInv, NamesInv, ReadyKept, ReadyWasWritten
<1> QED
  BY <1>1, <1>2, <1>3, <1>4, <1>5

\* In an unblurred name a row can be saved that still is what was read.
LEMMA SavedWhole ==
  ASSUME DnsInv, NEW w \in Workers, loc[w].at \in {"save", "saveType"}, Host(w) \notin blurred
  PROVE  Saved(loc[w]) = [record EXCEPT ![loc[w].d] = loc[w].rec]
<1>1. loc[w].d \in Domains /\ CopyIsCurrent(loc[w])
  BY BusyWorker DEF At
<1>2. record[loc[w].d] # NoRow /\ record[loc[w].d].id = loc[w].rec.id /\ record[loc[w].d].zone = loc[w].rec.zone
  BY <1>1 DEF CopyIsCurrent
<1> QED
  BY <1>1, <1>2 DEF Saved, DnsInv, RowsInPlace

LEMMA SameOwner ==
  ASSUME DnsInv, NEW d \in Domains, HostOf[d] \notin blurred, record[d] # NoRow
  PROVE  \A e \in Domains \ {d} : HostOf[e] = HostOf[d] => record[e].zone # record[d].zone
  BY DEF DnsInv, NamesInv, OneOwnerPerName

\* A worker that returns and leaves rows and records as they are; at a save or
\* at the end of a delete that would lose something, unless the name is blurred.
LEMMA LeaveStep ==
  ASSUME DnsInv, NEW w \in Workers, ~At(w, "idle"), loc' \in [Workers -> Locals],
         loc' = [loc EXCEPT ![w] = Idle],
         UNCHANGED <<record, provider, foreign, written>>, blurred \subseteq blurred',
         At(w, "save") => Host(w) \in blurred'
  PROVE  NamesInv'
<1>d. PICK d \in Domains : d = loc[w].d
  BY BusyWorker
<1>0. /\ loc \in [Workers -> Locals] /\ NamesInv
      /\ loc'[w] = Idle /\ \A v \in Workers \ {w} : loc'[v] = loc[v]
  BY DEF StateTyped, DnsInv
<1>1. Steps(w)
  BY <1>0 DEF Steps, Idle
<1>2. InPlace(loc'[w]) /\ loc'[w].at = "idle" /\ loc'[w].rec.status # "ready"
  BY <1>0 DEF InPlace, Idle, NoRow, None
<1>3. Host(w) \in foreign => record'[d] = NoRow
  BY <1>0, <1>d DEF NamesInv, ForeignKept, Host
<1>4. ASSUME HostOf[d] \notin blurred'
      PROVE  /\ \A t \in Types : provider'[HostOf[d]][t].by = d => NamedBy(d, t)'
             /\ record'[d] # NoRow =>
                   \A e \in Domains \ {d} : HostOf[e] = HostOf[d] => record[e].zone # record'[d].zone
  <2>1. HostOf[d] \notin blurred /\ ~At(w, "save")
    BY <1>4, <1>d DEF Host
  <2>2. ASSUME NEW t \in Types, provider'[HostOf[d]][t].by = d PROVE NamedBy(d, t)'
    <3>1. NamedBy(d, t)
      BY <1>0, <2>1, <2>2 DEF NamesInv, RecordsAreNamed
    <3> QED
      BY <1>0, <1>2, <1>d, <2>1, <3>1 DEF NamedBy, At
  <2> QED
    BY <1>0, <2>1, <2>2, SameOwner
<1>5. record'[d].status = "ready" => <<d, record'[d].target>> \in written'
  BY <1>d, BusyWorker
<1> QED
  BY <1>d, <1>1, <1>2, <1>3, <1>4, <1>5, StepsStep

\* A worker that goes on from a read to a write, or to a save, with the same row.
LEMMA KeepStep ==
  ASSUME DnsInv, NEW w \in Workers, loc[w].at \in {"reconcile", "upsert"}, loc' \in [Workers -> Locals],
         \A v \in Workers \ {w} : loc'[v] = loc[v],
         UNCHANGED <<record, provider, foreign, written, blurred>>,
         NEW l, l = loc[w], NEW m, m = loc'[w],
         \/ /\ m.at = "upsert" /\ m.d = l.d /\ m.rec = l.rec
            /\ m.addr \in Addresses /\ m.type = TypeOf[m.addr]
         \/ /\ m.at = "save" /\ m.d = l.d /\ m.rec.id = l.rec.id /\ m.rec.zone = l.rec.zone
            /\ m.rec.target = l.rec.target /\ m.rec.status \in {"pending", "error"}
  PROVE  NamesInv'
<1>0. /\ loc \in [Workers -> Locals] /\ NamesInv /\ l.d \in Domains /\ ~At(w, "idle")
      /\ InPlace(l) /\ Host(w) = HostOf[l.d] /\ Host(w) \notin foreign
  BY BusyWorker DEF StateTyped, DnsInv, At
<1>1. Steps(w)
  BY <1>0 DEF Steps
<1>2. InPlace(m)
  BY <1>0 DEF InPlace
<1>3. /\ record'[l.d].status = "ready" => <<l.d, record'[l.d].target>> \in written'
      /\ m.rec.status = "ready" => <<m.d, m.rec.target>> \in written'
  BY <1>0, BusyWorker
<1>4. ASSUME HostOf[l.d] \notin blurred'
      PROVE  /\ CopyIsCurrent(loc[w])'
             /\ \A t \in Types : provider'[HostOf[l.d]][t].by = l.d => NamedBy(l.d, t)'
             /\ record'[l.d] # NoRow =>
                   \A e \in Domains \ {l.d} : HostOf[e] = HostOf[l.d] => record[e].zone # record'[l.d].zone
  <2>1. HostOf[l.d] \notin blurred /\ CopyIsCurrent(l)
    BY <1>0, <1>4, BusyWorker
  <2>2. CopyIsCurrent(loc[w])'
    BY <2>1 DEF CopyIsCurrent
  <2>3. ASSUME NEW t \in Types, provider'[HostOf[l.d]][t].by = l.d PROVE NamedBy(l.d, t)'
    <3>1. NamedBy(l.d, t)
      BY <1>0, <2>1, <2>3 DEF NamesInv, RecordsAreNamed
    <3>0. \A v \in Workers \ {w} : loc[v].d = l.d => loc[v].at = "idle"
      BY <1>0, <2>1, BusyWorker DEF At
    <3>2. /\ \A v \in Workers \ {w} : loc'[v].at = "save" => loc'[v].d # l.d
          /\ \A v \in Workers : loc[v].at = "save" => loc[v].d # l.d
      BY <3>0
    <3>3. record[l.d].target = l.rec.target /\ record[l.d].target # None /\ t = TypeOf[record[l.d].target]
      BY <2>1, <3>1, <3>2 DEF CopyIsCurrent, NamedBy, At
    <3> QED
      BY <3>2, <3>3 DEF NamedBy, At
  <2> QED
    BY <1>0, <2>1, <2>2, <2>3, SameOwner
<1> QED
  BY <1>0, <1>1, <1>2, <1>3, <1>4, StepsStep

\* The steps of a request up to its write at the provider.
LEMMA WriteNames ==
  ASSUME DnsInv, Next, StateTyped', NEW w \in Workers
  PROVE  InsertRecord(w) \/ Reconcile(w) \/ ReconcileFails(w) \/ Upsert(w) \/ UpsertFails(w) => NamesInv'
<1> USE DEF rows
<1> DEFINE l == loc[w]
           m == loc'[w]
<1>0. /\ loc \in [Workers -> Locals] /\ loc' \in [Workers -> Locals]
      /\ record \in [Domains -> Rows] /\ provider \in [Hosts -> [Types -> Held]]
      /\ NamesInv
  BY DEF StateTyped, DnsInv
<1>1. ASSUME InsertRecord(w) PROVE NamesInv'
  <2> DEFINE row == [l.rec EXCEPT !.id = rowIds + 1]
  <2>1. /\ At(w, "insert") /\ l.at = "insert" /\ ~At(w, "idle")
        /\ UNCHANGED <<provider, foreign, written, blurred>>
    BY <1>1 DEF InsertRecord, At
  <2>2. CASE l.d \in alive /\ zone[l.rec.zone] # NoZone /\ record[l.d] = NoRow
    <3>1. /\ record' = [record EXCEPT ![l.d] = row] /\ loc' = [loc EXCEPT ![w].rec = row, ![w].at = "reconcile"]
          /\ rowIds \in Nat
      BY <1>1, <2>2, BoundsAssumption DEF InsertRecord, DnsInv, StateTyped
    <3>2. /\ row.id # 0 /\ row.zone = l.rec.zone /\ row.target = None /\ row.status = "pending"
          /\ l.rec.zone \in Zones
      <4>1. InPlace(l) /\ l.rec \in Rows
        BY <2>1, BusyWorker
      <4>2. l.rec.zone \in Zones /\ l.rec.target = None /\ l.rec.status = "pending"
        BY <2>1, <4>1 DEF InPlace
      <4> QED
        BY <3>1, <4>1, <4>2 DEF Rows
    <3> HIDE DEF row
    <3>3. m.at = "reconcile" /\ m.rec = row /\ m.d = l.d /\ record'[l.d] = row
      BY <1>0, <2>1, <3>1, BusyWorker DEF Locals
    <3>4. Steps(w)
      BY <1>0, <2>1, <3>1, <3>3 DEF Steps
    <3>5. InPlace(m)
      BY <2>1, <3>2, <3>3, BusyWorker DEF InPlace
    <3>6. Host(w) \notin foreign
      BY <2>1, BusyWorker DEF At
    <3>7. ASSUME HostOf[l.d] \notin blurred'
          PROVE  /\ CopyIsCurrent(loc[w])'
                 /\ \A t \in Types : provider'[HostOf[l.d]][t].by # l.d
                 /\ \A e \in Domains \ {l.d} : HostOf[e] = HostOf[l.d] => record[e].zone # record'[l.d].zone
      <4>1. CopyIsCurrent(l)
        BY <2>1, <3>7, BusyWorker
      <4>2. row # NoRow
        BY <3>2 DEF NoRow
      <4> QED
        BY <2>1, <3>2, <3>3, <4>1, <4>2 DEF CopyIsCurrent, NotWritten
    <3>8. record'[l.d].status # "ready" /\ m.rec.status # "ready"
      BY <3>2, <3>3
    <3> QED
      BY <2>1, <3>3, <3>4, <3>5, <3>6, <3>7, <3>8, StepsStep
  <2>3. CASE ~(l.d \in alive /\ zone[l.rec.zone] # NoZone /\ record[l.d] = NoRow)
    <3>1. UNCHANGED record /\ loc' = [loc EXCEPT ![w] = Idle]
      BY <1>1, <2>3 DEF InsertRecord, Return
    <3>2. m = Idle
      BY <1>0, <3>1
    <3> QED
      BY <1>0, <2>1, <3>1, <3>2, LeaveStep DEF At
  <2> QED
    BY <2>2, <2>3
<1>2. ASSUME Reconcile(w) \/ ReconcileFails(w) PROVE NamesInv'
  <2>1. /\ l.at = "reconcile" /\ ~At(w, "idle")
        /\ UNCHANGED <<record, provider, foreign, written, blurred>>
        /\ \A v \in Workers \ {w} : loc'[v] = loc[v]
    BY <1>0, <1>2 DEF Reconcile, ReconcileFails, At
  <2>2. \/ /\ m.at = "upsert" /\ m.d = l.d /\ m.rec = l.rec
           /\ m.addr \in Addresses /\ m.type = TypeOf[m.addr]
        \/ /\ m.at = "save" /\ m.d = l.d /\ m.rec.id = l.rec.id /\ m.rec.zone = l.rec.zone
           /\ m.rec.target = l.rec.target /\ m.rec.status \in {"pending", "error"}
    <3>0. l \in Locals /\ l.rec \in Rows /\ l.d \in Domains
      BY <2>1, BusyWorker
    <3>1. \A s \in {"pending", "error"} :
            LET q == [l EXCEPT !.rec.status = s, !.at = "save"] IN
            /\ q.at = "save" /\ q.d = l.d /\ q.rec.id = l.rec.id /\ q.rec.zone = l.rec.zone
            /\ q.rec.target = l.rec.target /\ q.rec.status = s
      BY <3>0 DEF Locals, Rows
    <3>2. CASE ReconcileFails(w)
      <4>1. PICK s \in {"pending", "error"} : loc' = [loc EXCEPT ![w].rec.status = s, ![w].at = "save"]
        BY <3>2 DEF ReconcileFails
      <4>2. m = [l EXCEPT !.rec.status = s, !.at = "save"]
        BY <1>0, <4>1
      <4> QED
        BY <3>1, <4>2
    <3>3. CASE Reconcile(w) /\ MustWait(l)
      <4>1. m = [l EXCEPT !.rec.status = "pending", !.at = "save"]
        BY <1>0, <3>3 DEF Reconcile
      <4> QED
        BY <3>1, <4>1
    <3>4. CASE Reconcile(w) /\ ~MustWait(l) /\ MayWrite(l)
      <4>1. m = [l EXCEPT !.type = RecordTypeForAddress(address[l.d], l.rec.type),
                          !.addr = address[l.d], !.at = "upsert"]
        BY <1>0, <3>4 DEF Reconcile
      <4>2. address[l.d] \in Addresses
        BY <3>0, <3>4 DEF MustWait, MayWrite, DnsInv, StateTyped
      <4>3. RecordTypeForAddress(address[l.d], l.rec.type) = TypeOf[address[l.d]]
        BY <3>4, <4>2, TypeForAddress DEF MayWrite
      <4> QED
        BY <3>0, <4>1, <4>2, <4>3 DEF Locals
    <3>5. CASE Reconcile(w) /\ ~MustWait(l) /\ ~MayWrite(l)
      <4>1. m = [l EXCEPT !.rec.status = "error", !.at = "save"]
        BY <1>0, <3>5 DEF Reconcile
      <4> QED
        BY <3>1, <4>1
    <3> QED
      BY <1>2, <3>2, <3>3, <3>4, <3>5
  <2> QED
    BY <1>0, <2>1, <2>2, KeepStep
<1>3. ASSUME UpsertFails(w), UNCHANGED <<provider, written, blurred>> PROVE NamesInv'
  <2>1. /\ l.at = "upsert" /\ ~At(w, "idle") /\ loc' = [loc EXCEPT ![w].rec.status = "error", ![w].at = "save"]
        /\ UNCHANGED <<record, foreign>>
    BY <1>3 DEF UpsertFails, At
  <2>2. /\ m.at = "save" /\ m.d = l.d /\ m.rec.id = l.rec.id /\ m.rec.zone = l.rec.zone
        /\ m.rec.target = l.rec.target /\ m.rec.status = "error"
    BY <1>0, <2>1, BusyWorker DEF Locals, Rows
  <2>3. \A v \in Workers \ {w} : loc'[v] = loc[v]
    BY <1>0, <2>1
  <2>4. UNCHANGED <<record, provider, foreign, written, blurred>> /\ l.at \in {"reconcile", "upsert"}
    BY <1>3, <2>1
  <2>5. m.rec.status \in {"pending", "error"}
    BY <2>2
  <2> QED
    BY <1>0, <2>2, <2>3, <2>4, <2>5, KeepStep
<1>4. ASSUME l.at = "upsert", provider' = Upserted(l), written' = written \cup {<<l.d, l.addr>>},
             UNCHANGED <<record, foreign>>, blurred \subseteq blurred',
             \/ Host(w) \in blurred' /\ loc' = [loc EXCEPT ![w].rec.status = "error", ![w].at = "save"]
             \/ (ChangesType(l) => Host(w) \in blurred') /\ loc' = [loc EXCEPT ![w] = Done(l)]
      PROVE  NamesInv'
  <2>0. ~At(w, "idle")
    BY <1>4 DEF At
  <2>1. /\ l.d \in Domains /\ l \in Locals /\ l.rec \in Rows /\ Host(w) = HostOf[l.d] /\ Host(w) \in Hosts
        /\ l.addr \in Addresses /\ l.type = TypeOf[l.addr] /\ l.type \in Types /\ Host(w) \notin foreign
        /\ l.rec.id # 0 /\ l.rec.zone \in Zones
    BY <1>4, <2>0, BusyWorker, TypeForAddress DEF InPlace, At
  <2>2. /\ m.at = "save" /\ m.d = l.d /\ m.rec.id = l.rec.id /\ m.rec.zone = l.rec.zone
        /\ \A v \in Workers \ {w} : loc'[v] = loc[v]
        /\ Host(w) \notin blurred' => ~ChangesType(l) /\ m.rec.target = l.addr
        /\ m.rec.status = "ready" => m.rec.target = l.addr
    <3>1. CASE loc' = [loc EXCEPT ![w].rec.status = "error", ![w].at = "save"] /\ Host(w) \in blurred'
      <4>1. m = [l EXCEPT !.rec.status = "error", !.at = "save"]
        BY <1>0, <3>1
      <4> QED
        BY <1>0, <2>1, <3>1, <4>1 DEF Locals, Rows
    <3>2. CASE loc' = [loc EXCEPT ![w] = Done(l)] /\ (ChangesType(l) => Host(w) \in blurred')
      <4>1. m = [l EXCEPT !.rec.target = l.addr, !.rec.status = "ready", !.at = "save"]
        BY <1>0, <3>2 DEF Done
      <4> QED
        <5>1. m.at = "save" /\ m.d = l.d /\ m.rec = [l.rec EXCEPT !.target = l.addr, !.status = "ready"]
          BY <2>1, <4>1 DEF Locals
        <5>2. m.rec.id = l.rec.id /\ m.rec.zone = l.rec.zone /\ m.rec.target = l.addr
          BY <2>1, <5>1 DEF Rows
        <5> QED
          BY <1>0, <3>2, <5>1, <5>2
    <3> QED
      BY <1>4, <3>1, <3>2
  <2>3. /\ \A h \in Hosts \ {Host(w)} : provider'[h] = provider[h]
        /\ \A t \in Types \ {l.type} : provider'[Host(w)][t] = provider[Host(w)][t]
        /\ provider'[Host(w)][l.type].by = l.d
    BY <1>0, <1>4, <2>1 DEF Upserted
  <2>4. Steps(w)
    BY <1>0, <1>4, <2>0, <2>2, <2>3 DEF Steps
  <2>5. InPlace(m)
    BY <2>1, <2>2 DEF InPlace
  <2>6. /\ record'[l.d].status = "ready" => <<l.d, record'[l.d].target>> \in written'
        /\ m.rec.status = "ready" => <<m.d, m.rec.target>> \in written'
    BY <1>4, <2>0, <2>2, BusyWorker
  <2>7. ASSUME HostOf[l.d] \notin blurred'
        PROVE  /\ CopyIsCurrent(loc[w])'
               /\ \A t \in Types : provider'[HostOf[l.d]][t].by = l.d => NamedBy(l.d, t)'
               /\ record'[l.d] # NoRow =>
                     \A e \in Domains \ {l.d} : HostOf[e] = HostOf[l.d] => record[e].zone # record'[l.d].zone
    <3>1. HostOf[l.d] \notin blurred /\ CopyIsCurrent(l)
      BY <1>4, <2>0, <2>1, <2>7, BusyWorker
    <3>2. CopyIsCurrent(loc[w])'
      BY <1>4, <2>2, <3>1 DEF CopyIsCurrent
    <3>3. ASSUME NEW t \in Types, provider'[HostOf[l.d]][t].by = l.d PROVE NamedBy(l.d, t)'
      <4>1. t = l.type
        BY <2>1, <2>2, <2>3, <2>7, <3>3 DEF ChangesType
      <4>2. \A v \in Workers : loc'[v].at = "save" /\ loc'[v].d = l.d => v = w
        BY <2>0, <2>1, <2>2, <3>1, BusyWorker DEF At
      <4>3. m.rec.target = l.addr /\ m.rec.target # None
        BY <2>1, <2>2, <2>7, NamesAssumption DEF None
      <4> QED
        BY <2>1, <2>2, <4>1, <4>2, <4>3 DEF NamedBy, At
    <3> QED
      BY <1>4, <2>1, <3>1, <3>2, <3>3, SameOwner
  <2> QED
    BY <2>0, <2>1, <2>2, <2>4, <2>5, <2>6, <2>7, StepsStep
<1>5. ASSUME Upsert(w) PROVE NamesInv'
  BY <1>4, <1>5 DEF Upsert, At
<1>6. ASSUME UpsertFails(w) PROVE NamesInv'
  <2>1. CASE UNCHANGED <<provider, written, blurred>>
    BY <1>3, <1>6, <2>1
  <2>2. CASE provider' = Upserted(l) /\ written' = written \cup {<<l.d, l.addr>>} /\ Blur(Host(w))
    BY <1>4, <1>6, <2>2 DEF UpsertFails, At, Blur
  <2> QED
    BY <1>6, <2>1, <2>2 DEF UpsertFails
<1> QED
  BY <1>1, <1>2, <1>5, <1>6

\* The saves of a row.
LEMMA SaveNames ==
  ASSUME DnsInv, Next, StateTyped', NEW w \in Workers
  PROVE  SaveType(w) \/ SaveRecord(w) \/ SaveFails(w) => NamesInv'
<1> USE DEF rows
<1>l. PICK l \in Locals : l = loc[w]
  BY DEF DnsInv, StateTyped
<1> DEFINE m == loc'[w]
<1>0. /\ loc \in [Workers -> Locals] /\ loc' \in [Workers -> Locals]
      /\ record \in [Domains -> Rows] /\ NamesInv
  BY DEF StateTyped, DnsInv
\* Whether or not the row was stored: the name is blurred, or it was.
<1>1. ASSUME l.at \in {"save", "saveType"},
             \/ record' = Saved(l)
             \/ record' = record /\ Host(w) \in blurred',
             UNCHANGED <<provider, foreign, written>>, blurred \subseteq blurred',
             \A v \in Workers \ {w} : loc'[v] = loc[v],
             m = Idle \/ m = [l EXCEPT !.at = "reconcile"]
      PROVE  NamesInv'
  <2>0. ~At(w, "idle")
    BY <1>l, <1>1 DEF At
  <2>1. /\ l.d \in Domains /\ l.rec \in Rows /\ InPlace(l) /\ Host(w) = HostOf[l.d] /\ Host(w) \notin foreign
        /\ l.rec.status = "ready" => <<l.d, l.rec.target>> \in written
        /\ record[l.d].status = "ready" => <<l.d, record[l.d].target>> \in written
    BY <1>l, <1>1, <2>0, BusyWorker DEF At
  <2>2. /\ \A e \in Domains \ {l.d} : record'[e] = record[e]
        /\ record'[l.d] \in {record[l.d], l.rec}
    BY <1>0, <1>1, <2>1 DEF Saved
  <2>3. \/ m = Idle /\ m.at = "idle" /\ m.rec.status # "ready"
        \/ m.at = "reconcile" /\ m.d = l.d /\ m.rec = l.rec
    BY <1>1 DEF Locals, Idle, NoRow, None
  <2>4. Steps(w)
    BY <1>l, <1>0, <1>1, <2>0, <2>2, <2>3 DEF Steps
  <2>5. InPlace(m)
    BY <1>1, <2>1, <2>3 DEF InPlace
  <2>6. /\ record'[l.d].status = "ready" => <<l.d, record'[l.d].target>> \in written'
        /\ m.rec.status = "ready" => <<m.d, m.rec.target>> \in written'
    BY <1>1, <2>1, <2>2, <2>3
  <2>7. ASSUME HostOf[l.d] \notin blurred'
        PROVE  /\ m.at # "idle" => CopyIsCurrent(loc[w])'
               /\ \A t \in Types : provider'[HostOf[l.d]][t].by = l.d => NamedBy(l.d, t)'
               /\ record'[l.d] # NoRow =>
                     \A e \in Domains \ {l.d} : HostOf[e] = HostOf[l.d] => record[e].zone # record'[l.d].zone
    <3>1. HostOf[l.d] \notin blurred /\ CopyIsCurrent(l)
      BY <1>l, <1>1, <2>0, <2>1, <2>7, BusyWorker
    <3>2. record'[l.d] = l.rec /\ l.rec # NoRow /\ record[l.d] # NoRow /\ record[l.d].zone = l.rec.zone
      <4>1. record' = [record EXCEPT ![l.d] = l.rec]
        BY <1>l, <1>1, <2>1, <2>7, <3>1, SavedWhole
      <4>2. l.rec.id # 0 /\ record[l.d] # NoRow /\ record[l.d].zone = l.rec.zone
        BY <1>1, <2>1, <3>1 DEF InPlace, CopyIsCurrent
      <4> QED
        BY <1>0, <2>1, <4>1, <4>2 DEF NoRow
    <3>3. m.at # "idle" => CopyIsCurrent(loc[w])'
      BY <2>3, <3>2 DEF CopyIsCurrent, Idle
    <3>4. ASSUME NEW t \in Types, provider'[HostOf[l.d]][t].by = l.d PROVE NamedBy(l.d, t)'
      <4>1. NamedBy(l.d, t)
        BY <1>0, <1>1, <2>1, <3>1, <3>4 DEF NamesInv, RecordsAreNamed
      <4>2. \A v \in Workers \ {w} : loc[v].d = l.d => loc[v].at = "idle"
        BY <1>l, <2>0, <2>1, <3>1, BusyWorker DEF At
      <4>3. \A v \in Workers : loc'[v].at = "save" => loc'[v].d # l.d
        BY <1>1, <2>3, <4>2
      <4>4. l.rec.target # None /\ t = TypeOf[l.rec.target]
        <5>1. CASE l.at = "save"
          BY <1>l, <4>1, <5>1 DEF NamedBy, At
        <5>2. CASE l.at = "saveType"
          <6>1. record[l.d].target = l.rec.target
            BY <3>1, <5>2 DEF CopyIsCurrent
          <6> QED
            BY <1>l, <4>1, <4>2, <5>2, <6>1 DEF NamedBy, At
        <5> QED
          BY <1>1, <5>1, <5>2
      <4> QED
        BY <3>2, <4>3, <4>4 DEF NamedBy, At
    <3> QED
      BY <2>1, <3>1, <3>2, <3>3, <3>4, SameOwner
  <2> QED
    BY <1>l, <2>1, <2>4, <2>5, <2>6, <2>7, StepsStep
<1>2. Return(w) => m = Idle /\ \A v \in Workers \ {w} : loc'[v] = loc[v]
  BY <1>0 DEF Return
<1>3. Goto(w, "reconcile") => m = [l EXCEPT !.at = "reconcile"] /\ \A v \in Workers \ {w} : loc'[v] = loc[v]
  BY <1>0, <1>l DEF Goto
<1>4. ASSUME SaveType(w) PROVE NamesInv'
  BY <1>1, <1>2, <1>3, <1>4, <1>l DEF SaveType, At
<1>5. ASSUME SaveRecord(w) PROVE NamesInv'
  BY <1>1, <1>2, <1>3, <1>5, <1>l DEF SaveRecord, AfterSave, At
<1>6. ASSUME SaveFails(w) PROVE NamesInv'
  BY <1>1, <1>2, <1>3, <1>6, <1>l DEF SaveFails, AfterSave, At, Blur
<1> QED
  BY <1>4, <1>5, <1>6

\* The steps of a delete.
LEMMA DeleteNames ==
  ASSUME DnsInv, Next, StateTyped', NEW w \in Workers
  PROVE  ProviderDelete(w) \/ ProviderDeleteFails(w) \/ DeleteRow(w) \/ RemoveDomain(w) => NamesInv'
<1> USE DEF rows
<1>l. PICK l \in Locals : l = loc[w]
  BY DEF DnsInv, StateTyped
<1> DEFINE m == loc'[w]
<1>0. /\ loc \in [Workers -> Locals] /\ loc' \in [Workers -> Locals] /\ StateTyped
      /\ record \in [Domains -> Rows] /\ provider \in [Hosts -> [Types -> Held]] /\ NamesInv
  BY DEF StateTyped, DnsInv
<1>1. Return(w) => m = Idle /\ \A v \in Workers \ {w} : loc'[v] = loc[v]
  BY <1>0 DEF Return
<1>2. \A x \in {"deleteRow", "deleteDomain"} :
        Goto(w, x) => m = [l EXCEPT !.at = x] /\ \A v \in Workers \ {w} : loc'[v] = loc[v]
  BY <1>0, <1>l DEF Goto
<1>3. ASSUME ProviderDelete(w) PROVE NamesInv'
  <2> DEFINE t0 == RecordTypeForAddress(l.rec.target, l.rec.type)
  <2>0. l.at = "providerDelete" /\ ~At(w, "idle") /\ UNCHANGED <<record, foreign, written, blurred>>
        /\ m.at = "deleteRow" /\ m.d = l.d /\ m.rec = l.rec /\ \A v \in Workers \ {w} : loc'[v] = loc[v]
    BY <1>2, <1>3, <1>l DEF ProviderDelete, At, Locals
  <2>1. /\ l.d \in Domains /\ l.rec \in Rows /\ InPlace(l) /\ Host(w) = HostOf[l.d] /\ Host(w) \in Hosts
        /\ Host(w) \notin foreign
        /\ l.rec.status = "ready" => <<l.d, l.rec.target>> \in written
        /\ record[l.d].status = "ready" => <<l.d, record[l.d].target>> \in written
    BY <1>l, <2>0, BusyWorker DEF At
  <2>2. t0 = TypeOf[l.rec.target] /\ t0 \in Types /\ l.rec.target \in Addresses
    BY <2>0, <2>1, TypeForAddress DEF InPlace
  <2>3. provider' = [provider EXCEPT ![Host(w)][t0] = Free]
    BY <1>3, <1>l DEF ProviderDelete
  <2> HIDE DEF t0
  <2>4. /\ \A h \in Hosts \ {Host(w)} : provider'[h] = provider[h]
        /\ \A t \in Types \ {t0} : provider'[Host(w)][t] = provider[Host(w)][t]
        /\ provider'[Host(w)][t0].by = None
    BY <1>0, <2>1, <2>2, <2>3 DEF Free
  <2>5. Steps(w)
    BY <1>0, <1>l, <2>0, <2>4 DEF Steps
  <2>6. InPlace(m)
    BY <2>0, <2>1 DEF InPlace
  <2>7. ASSUME HostOf[l.d] \notin blurred'
        PROVE  /\ CopyIsCurrent(loc[w])'
               /\ \A t \in Types : provider'[HostOf[l.d]][t].by # l.d
               /\ record'[l.d] # NoRow =>
                     \A e \in Domains \ {l.d} : HostOf[e] = HostOf[l.d] => record[e].zone # record'[l.d].zone
    <3>1. HostOf[l.d] \notin blurred /\ CopyIsCurrent(l)
      BY <1>l, <2>0, <2>1, <2>7, BusyWorker
    <3>2. \A t \in Types : provider[HostOf[l.d]][t].by = l.d => t = t0
      <4> TAKE t \in Types
      <4> HAVE provider[HostOf[l.d]][t].by = l.d
      <4>1. NamedBy(l.d, t)
        BY <1>0, <2>1, <3>1 DEF NamesInv, RecordsAreNamed
      <4>2. \A v \in Workers : loc[v].at = "save" => loc[v].d # l.d
        <5>1. \A v \in Workers \ {w} : loc[v].d = l.d => loc[v].at = "idle"
          BY <1>l, <2>0, <2>1, <3>1, BusyWorker DEF At
        <5> QED
          BY <1>l, <2>0, <5>1
      <4> QED
        BY <2>0, <2>2, <3>1, <4>1, <4>2 DEF NamedBy, At, CopyIsCurrent
    <3>3. \A t \in Types : provider'[HostOf[l.d]][t].by # l.d
      BY <2>1, <2>4, <3>2, NamesAssumption DEF None
    <3>4. CopyIsCurrent(loc[w])'
      BY <2>0, <3>1, <3>3 DEF CopyIsCurrent, NotWritten
    <3> QED
      BY <2>0, <2>1, <3>1, <3>3, <3>4, SameOwner
  <2> QED
    BY <1>l, <2>0, <2>1, <2>5, <2>6, <2>7, StepsStep
<1>4. ASSUME ProviderDeleteFails(w) PROVE NamesInv'
  <2>0. l.at = "providerDelete" /\ ~At(w, "idle") /\ UNCHANGED <<record, provider, foreign, written>>
        /\ blurred \subseteq blurred'
    BY <1>4, <1>l DEF ProviderDeleteFails, At
  <2>1. CASE l.op # "domain"
    BY <1>0, <1>4, <1>l, <2>0, <2>1, LeaveStep DEF ProviderDeleteFails, AfterDelete, Return, At
  <2>2. CASE l.op = "domain"
    <3>0. m.at = "deleteDomain" /\ m.d = l.d /\ m.rec = l.rec /\ Host(w) \in blurred'
          /\ \A v \in Workers \ {w} : loc'[v] = loc[v]
      BY <1>2, <1>4, <1>l, <2>2 DEF ProviderDeleteFails, AfterDelete, Locals
    <3>1. /\ l.d \in Domains /\ InPlace(l) /\ Host(w) = HostOf[l.d] /\ Host(w) \notin foreign
          /\ l.rec.status = "ready" => <<l.d, l.rec.target>> \in written
          /\ record[l.d].status = "ready" => <<l.d, record[l.d].target>> \in written
      BY <1>l, <2>0, BusyWorker DEF At
    <3>2. Steps(w)
      BY <1>0, <1>l, <2>0, <3>0 DEF Steps
    <3>3. InPlace(m)
      BY <3>0, <3>1 DEF InPlace
    <3> QED
      BY <1>l, <2>0, <3>0, <3>1, <3>2, <3>3, StepsStep
  <2> QED
    BY <2>1, <2>2
<1>5. ASSUME l.at \in {"deleteRow", "deleteDomain"}, record' = [record EXCEPT ![l.d] = NoRow],
             UNCHANGED <<provider, foreign, written, blurred>>,
             \A v \in Workers \ {w} : loc'[v] = loc[v],
             m = Idle \/ m = [l EXCEPT !.at = "deleteDomain"]
      PROVE  NamesInv'
  <2>0. ~At(w, "idle")
    BY <1>l, <1>5 DEF At
  <2>1. /\ l.d \in Domains /\ InPlace(l) /\ Host(w) = HostOf[l.d]
        /\ l.rec.status = "ready" => <<l.d, l.rec.target>> \in written
    BY <1>l, <2>0, BusyWorker
  <2>2. /\ \A e \in Domains \ {l.d} : record'[e] = record[e]
        /\ record'[l.d] = NoRow /\ NoRow.status = None
    BY <1>0, <1>5, <2>1 DEF NoRow
  <2>3. \/ m = Idle /\ m.at = "idle" /\ m.rec.status # "ready"
        \/ m.at = "deleteDomain" /\ m.d = l.d /\ m.rec = l.rec
    BY <1>5 DEF Locals, Idle, NoRow, None
  <2>4. Steps(w)
    BY <1>l, <1>0, <1>5, <2>0, <2>2, <2>3 DEF Steps
  <2>5. InPlace(m)
    BY <1>5, <2>1, <2>3 DEF InPlace
  <2>6. ASSUME HostOf[l.d] \notin blurred'
        PROVE  /\ m.at # "idle" => CopyIsCurrent(loc[w])'
               /\ \A t \in Types : provider'[HostOf[l.d]][t].by # l.d
    <3>1. NotWritten(l.d)
      BY <1>l, <1>5, <2>0, <2>1, <2>6, BusyWorker DEF CopyIsCurrent
    <3> QED
      BY <1>5, <2>3, <3>1 DEF CopyIsCurrent, NotWritten
  <2>7. /\ record'[l.d].status # "ready"
        /\ m.rec.status = "ready" => <<m.d, m.rec.target>> \in written'
        /\ provider'[Host(w)] = provider[Host(w)] /\ m.at \in {"idle", "deleteDomain"}
    BY <1>5, <2>1, <2>2, <2>3 DEF None
  <2> QED
    BY <1>l, <2>1, <2>2, <2>4, <2>5, <2>6, <2>7, StepsStep
<1>6. ASSUME DeleteRow(w) PROVE NamesInv'
  BY <1>1, <1>2, <1>5, <1>6, <1>l DEF DeleteRow, AfterDelete, At
<1>7. ASSUME RemoveDomain(w) PROVE NamesInv'
  BY <1>1, <1>5, <1>7, <1>l DEF RemoveDomain, At
<1> QED
  BY <1>3, <1>4, <1>6, <1>7

---------------------------------------------------------------------------
LEMMA DnsInit == Init => DnsInv
<1> SUFFICES ASSUME Init PROVE DnsInv
  OBVIOUS
<1>1. StateTyped
  <2>1. provider \in [Hosts -> [Types -> Held]]
    BY DEF Init, Held, Free, Foreign
  <2>2. zone \in [Zones -> ZoneRows]
    BY DEF Init, ZoneRows, NoZone
  <2> QED
    BY <2>1, <2>2, NoRowTyped, BoundsAssumption DEF Init, StateTyped
<1>2. RowsInPlace
  BY DEF Init, RowsInPlace
<1>3. \A w \in Workers : loc[w] = Idle /\ loc[w].at = "idle" /\ loc[w].rec.status # "ready"
  BY DEF Init, Idle, NoRow, None
<1>4. \A w \in Workers : InPlace(loc[w])
  BY <1>3 DEF InPlace
<1>5. \A d \in Domains : record[d] = NoRow /\ record[d].status # "ready"
  BY DEF Init, NoRow, None
<1>6. ForeignKept
  <2>1. PICK there \in SUBSET (Hosts \X Types) :
          /\ provider = [h \in Hosts |-> [t \in Types |-> IF <<h, t>> \in there THEN Foreign ELSE Free]]
          /\ foreign = {n[1] : n \in there}
    BY DEF Init
  <2>2. ASSUME NEW h \in foreign
        PROVE  /\ h \in Hosts /\ \E t \in Types : provider[h][t] = Foreign
               /\ \A t \in Types : provider[h][t] \in {Foreign, Free}
    BY <2>1
  <2> QED
    BY <1>3, <1>5, <2>2 DEF ForeignKept, At
<1>7. ReadyKept
  BY <1>3, <1>5 DEF ReadyKept, ReadyWasWritten
<1>8. Alone /\ CopiesAreCurrent
  BY <1>3 DEF Alone, CopiesAreCurrent, At
<1>9. RecordsAreNamed
  <2>1. \A d \in Domains, t \in Types : provider[HostOf[d]][t] \in {Foreign, Free}
    BY FunctionsAssumption DEF Init, Hosts
  <2> QED
    BY <2>1, NamesAssumption DEF RecordsAreNamed, Foreign, Free, None
<1>10. OneOwnerPerName
  BY <1>5 DEF OneOwnerPerName
<1> QED
  BY <1>1, <1>2, <1>4, <1>6, <1>7, <1>8, <1>9, <1>10 DEF DnsInv, NamesInv

LEMMA DnsStep == DnsInv /\ [Next]_vars => DnsInv'
<1> SUFFICES ASSUME DnsInv, [Next]_vars PROVE DnsInv'
  OBVIOUS
<1>1. CASE UNCHANGED vars
  <2>1. StateTyped' /\ RowsInPlace'
    BY <1>1 DEF vars, rows, DnsInv, StateTyped, RowsInPlace
  <2> QED
    BY <1>1, <2>1, QuietStep DEF vars, rows, DnsInv
<1>2. CASE Next
  <2>1. StateTyped' /\ RowsInPlace'
    BY <1>2, TypesStep, RowsStep
  <2>2. ASSUME \/ \E c \in Credentials : CreateCredential(c) \/ DeleteCredential(c)
                                           \/ \E z \in Zones : CreateZone(z, c)
               \/ \E z \in Zones : DeleteZone(z)
               \/ \E d \in Domains : RetryExpires(d) \/ \E a \in Addresses : GatewayMoves(d, a)
        PROVE NamesInv'
    <3>1. UNCHANGED <<record, provider, loc, foreign, written, blurred>>
      BY <2>2 DEF CreateCredential, DeleteCredential, CreateZone, DeleteZone, RetryExpires,
                  GatewayMoves, rows
    <3> QED
      BY <3>1, QuietStep DEF DnsInv
  <2>3. ASSUME NEW w \in Workers, NEW d \in Domains,
               \/ \E z \in Zones, type \in Requested : Enable(w, d, z, type)
               \/ \E type \in Requested : Update(w, d, type)
               \/ Get(w, d) \/ Retry(w, d) \/ DeleteRecord(w, d) \/ DeleteDomain(w, d)
        PROVE NamesInv'
    BY <1>2, <2>1, <2>3, BeginNames
  <2>4. ASSUME NEW w \in Workers,
               InsertRecord(w) \/ Reconcile(w) \/ ReconcileFails(w) \/ Upsert(w) \/ UpsertFails(w)
        PROVE NamesInv'
    BY <1>2, <2>1, <2>4, WriteNames
  <2>5. ASSUME NEW w \in Workers, SaveType(w) \/ SaveRecord(w) \/ SaveFails(w) PROVE NamesInv'
    BY <1>2, <2>1, <2>5, SaveNames
  <2>6. ASSUME NEW w \in Workers,
               ProviderDelete(w) \/ ProviderDeleteFails(w) \/ DeleteRow(w) \/ RemoveDomain(w)
        PROVE NamesInv'
    BY <1>2, <2>1, <2>6, DeleteNames
  <2>7. NamesInv'
    BY <1>2, <2>2, <2>3, <2>4, <2>5, <2>6 DEF Next
  <2> QED
    BY <2>1, <2>7 DEF DnsInv
<1> QED
  BY <1>1, <1>2

\* The inductive invariant holds in every reachable state.
LEMMA DnsInvariant == Spec => []DnsInv
  BY DnsInit, DnsStep, PTL DEF Spec

\* Rows are well typed and refer to domains, zones and credentials that exist,
\* although requests save whole rows they read before the row was deleted.
THEOREM RowsTyped == Spec => []TypeOK
<1>1. DnsInv => TypeOK
  BY DEF DnsInv, StateTyped, RowsInPlace, TypeOK
<1> QED
  BY <1>1, DnsInvariant, PTL

\* reconcile and Delete never touch a name that had a record of any type when it
\* was enabled first: CheckCollision keeps rows away from it for good.
THEOREM ForeignUntouched == Spec => []ForeignNameUntouched
<1>1. DnsInv => ForeignNameUntouched
  BY DEF DnsInv, NamesInv, ForeignKept, ForeignNameUntouched
<1> QED
  BY <1>1, DnsInvariant, PTL

\* No failed call, stale save or retry marks a row ready that the provider was
\* not asked to hold, with any number of requests at the same time.
THEOREM ReadyWritten == Spec => []ReadyWasWritten
<1>1. DnsInv => ReadyWasWritten
  BY DEF DnsInv, NamesInv, ReadyKept
<1> QED
  BY <1>1, DnsInvariant, PTL

\* Delete finds every record that was written, unless calls on the name failed
\* half-way, overlapped or changed its type.
THEOREM WrittenHasRow == Spec => []WrittenRecordHasRow
<1>1. DnsInv => WrittenRecordHasRow
  <2> SUFFICES ASSUME DnsInv, NEW d \in Domains, HostOf[d] \notin blurred, NEW t \in Types,
                      provider[HostOf[d]][t].by = d
               PROVE  \/ record[d].target # None
                      \/ \E w \in Workers : loc[w].d = d /\ loc[w].at = "save"
    BY DEF WrittenRecordHasRow
  <2>1. NamedBy(d, t)
    BY DEF DnsInv, NamesInv, RecordsAreNamed
  <2> QED
    BY <2>1 DEF NamedBy, At
<1> QED
  BY <1>1, DnsInvariant, PTL

\* Two projects with the same hostname do not both get a row in a hosted zone.
THEOREM OneOwner == Spec => []OneOwnerPerName
<1>1. DnsInv => OneOwnerPerName
  BY DEF DnsInv, NamesInv
<1> QED
  BY <1>1, DnsInvariant, PTL
=============================================================================

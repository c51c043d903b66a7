---------------------- MODULE CertDistributionProofs ----------------------
(***************************************************************************)
(* Theorems about CertDistribution, for any replicas, workers, versions    *)
(* and number of failures.                                                 *)
(***************************************************************************)
EXTENDS CertDistribution, TLAPS

\* A row of certificates with another status or fingerprint is such a row.
LEMMA RowTypes ==
  /\ \A c \in Certs, s \in CertStatus : [c EXCEPT !.status = s] \in Certs
  /\ \A c \in Certs \ {NoCert}, v \in Versions :
        [c EXCEPT !.fp = v] \in Certs \ {NoCert}
  /\ \A c \in Certs : c.fp \in Versions
  /\ \A d \in Dists : d.fp \in Versions
  /\ \A s \in DistStatus, v \in Versions : [status |-> s, fp |-> v] \in Dists
  /\ NoCert \in Certs /\ NoDist \in Dists /\ 0 \in Versions
  /\ [status |-> "pending", fp |-> 0] \in Certs
<1> USE CertBoundsAssumption DEF Certs, Dists, NoCert, NoDist, CertStatus, DistStatus,
        Versions
<1>1. \A c \in Certs, s \in CertStatus : [c EXCEPT !.status = s] \in Certs
  OBVIOUS
<1>2. \A c \in Certs \ {NoCert}, v \in Versions :
        [c EXCEPT !.fp = v] \in Certs \ {NoCert}
  OBVIOUS
<1> QED
  BY <1>1, <1>2

\* So is what a pass and a request hold.
LEMMA HeldTypes ==
  /\ \A d \in Dists, v \in Versions, c \in Certs : Pass(d, v, c) \in Passes
  /\ \A p \in Passes : p.dist \in Dists /\ p.version \in Versions /\ p.cert \in Certs
  /\ \A c \in Certs, d \in Dists : Request(c, d) \in Requests
  /\ \A l \in Requests : l.cert \in Certs /\ l.dist \in Dists
  /\ NoPass \in Passes /\ NoRequest \in Requests
BY RowTypes DEF Passes, Requests, Pass, Request, NoPass, NoRequest

\* ... and it holds what was put there.
LEMMA HeldFields ==
  /\ \A d, v, c : /\ Pass(d, v, c).dist = d
                  /\ Pass(d, v, c).version = v
                  /\ Pass(d, v, c).cert = c
  /\ \A c, d : Request(c, d).cert = c /\ Request(c, d).dist = d
  /\ NoPass.dist = NoDist /\ NoPass.cert = NoCert
  /\ NoRequest.dist = NoDist /\ NoRequest.cert = NoCert
  /\ NoCert.fp = 0 /\ NoDist.fp = 0
BY DEF Pass, Request, NoPass, NoRequest, NoCert, NoDist

\* What reconcileOne records, and what a request will save.
LEMMA RecordType ==
  /\ \A s \in DistStatus, fp \in Versions, v \in Versions :
        /\ Record(s, fp, v) \in Passes
        /\ Record(s, fp, v).dist.fp = fp
        /\ Record(s, fp, v).cert = NoCert
        /\ Record(s, fp, v).version = v
  /\ \A c \in Certs, s \in CertStatus :
        /\ Holding(c, s) \in Requests
        /\ Holding(c, s).cert.fp = c.fp
        /\ Holding(c, s).dist = NoDist
<1>1. \A c \in Certs, s \in CertStatus : [c EXCEPT !.status = s].fp = c.fp
  BY DEF Certs, NoCert
<1>2. ASSUME NEW s \in DistStatus, NEW fp \in Versions, NEW v \in Versions
      PROVE  /\ Record(s, fp, v) \in Passes
             /\ Record(s, fp, v).dist.fp = fp
             /\ Record(s, fp, v).cert = NoCert
             /\ Record(s, fp, v).version = v
  <2>1. [status |-> s, fp |-> fp].fp = fp
    OBVIOUS
  <2> QED
    BY <2>1, RowTypes, HeldTypes, HeldFields DEF Record
<1>3. ASSUME NEW c \in Certs, NEW s \in CertStatus
      PROVE  /\ Holding(c, s) \in Requests
             /\ Holding(c, s).cert.fp = c.fp
             /\ Holding(c, s).dist = NoDist
  <2> DEFINE row == [c EXCEPT !.status = s]
  <2>1. row \in Certs /\ row.fp = c.fp
    BY <1>1, RowTypes
  <2>2. Holding(c, s) = Request(row, NoDist)
    BY DEF Holding
  <2> HIDE DEF row
  <2> QED
    BY <2>1, <2>2, RowTypes, HeldTypes, HeldFields
<1> QED
  BY <1>2, <1>3

\* TypeOK with what SetMeta needs: it writes back a row that was there.
HoldsRow == \A r \in Replicas : dpc[r] = "setMeta" => pass[r].cert # NoCert
TypeInv == TypeOK /\ HoldsRow

\* Types of what a step of a pass changes.
LEMMA ProceedType ==
  ASSUME TypeInv, NEW r \in Replicas, NEW label \in PassLabels, NEW p \in Passes,
         label = "setMeta" => p.cert # NoCert, Proceed(r, label, p)
  PROVE  /\ dpc' \in [Replicas -> PassLabels]
         /\ pass' \in [Replicas -> Passes] /\ HoldsRow'
BY DEF TypeInv, TypeOK, HoldsRow, Proceed

\* ... ends it,
LEMMA EndPassType ==
  ASSUME TypeInv, NEW r \in Replicas, EndPass(r)
  PROVE  /\ dpc' \in [Replicas -> PassLabels]
         /\ pass' \in [Replicas -> Passes] /\ HoldsRow'
BY ProceedType, HeldTypes DEF EndPass, PassLabels

\* ... and of a request.
LEMMA GotoType ==
  ASSUME TypeInv, NEW w \in Workers, NEW label \in RequestLabels, NEW l \in Requests,
         Goto(w, label, l)
  PROVE  pc' \in [Workers -> RequestLabels] /\ loc' \in [Workers -> Requests]
BY DEF TypeInv, TypeOK, Goto

\* ... or its end.
LEMMA ReturnType ==
  ASSUME TypeInv, NEW w \in Workers, Return(w)
  PROVE  pc' \in [Workers -> RequestLabels] /\ loc' \in [Workers -> Requests]
BY GotoType, HeldTypes DEF Return, RequestLabels

\* Every step keeps the types.
LEMMA TypeStep == ASSUME TypeInv, [Next]_vars PROVE TypeInv'

<1> USE CertBoundsAssumption DEF TypeInv, TypeOK, LockTypeOK
<1>1. CASE UNCHANGED vars
  BY <1>1 DEF vars, HoldsRow
<1>2. ASSUME NEW r \in Replicas, List(r) PROVE TypeInv'
  <2>1. /\ dpc' \in [Replicas -> PassLabels]
        /\ pass' \in [Replicas -> Passes] /\ HoldsRow'
    BY <1>2, ProceedType, HeldTypes DEF List, PassLabels
  <2> QED
    BY <1>2, <2>1, RowTypes, HeldTypes
       DEF List, lockVars, certVars, clusters, workVars, CanFail
<1>3. ASSUME NEW r \in Replicas, GetDist(r) PROVE TypeInv'
  <2>1. /\ dpc' \in [Replicas -> PassLabels]
        /\ pass' \in [Replicas -> Passes] /\ HoldsRow'
    BY <1>3, ProceedType, EndPassType, HeldTypes, RowTypes DEF GetDist, PassLabels
  <2> QED
    BY <1>3, <2>1, RowTypes, HeldTypes
       DEF GetDist, lockVars, certVars, clusters, workVars, CanFail
<1>4. ASSUME NEW r \in Replicas, ReadSource(r) PROVE TypeInv'
  <2>1. /\ dpc' \in [Replicas -> PassLabels]
        /\ pass' \in [Replicas -> Passes] /\ HoldsRow'
    BY <1>4, ProceedType, HeldTypes, RowTypes, RecordType
       DEF ReadSource, PassLabels, DistStatus
  <2> QED
    BY <1>4, <2>1, RowTypes, HeldTypes
       DEF ReadSource, lockVars, certVars, clusters, workVars, CanFail
<1>5. ASSUME NEW r \in Replicas, ReadTenant(r) PROVE TypeInv'
  <2>1. /\ dpc' \in [Replicas -> PassLabels]
        /\ pass' \in [Replicas -> Passes] /\ HoldsRow'
    BY <1>5, ProceedType, EndPassType DEF ReadTenant, PassLabels
  <2> QED
    BY <1>5, <2>1, RowTypes, HeldTypes
       DEF ReadTenant, lockVars, certVars, clusters, workVars, CanFail
<1>6. ASSUME NEW r \in Replicas, Push(r) PROVE TypeInv'
  <2>1. /\ dpc' \in [Replicas -> PassLabels]
        /\ pass' \in [Replicas -> Passes] /\ HoldsRow'
    BY <1>6, ProceedType, HeldTypes, RecordType DEF Push, PassLabels, DistStatus
  <2> QED
    BY <1>6, <2>1, RowTypes, HeldTypes
       DEF Push, lockVars, certVars, clusters, workVars, CanFail, Deliver
<1>7. ASSUME NEW r \in Replicas, Upsert(r) PROVE TypeInv'
  <2>1. /\ dpc' \in [Replicas -> PassLabels]
        /\ pass' \in [Replicas -> Passes] /\ HoldsRow'
    BY <1>7, ProceedType, EndPassType, HeldTypes, RowTypes DEF Upsert, PassLabels
  <2> QED
    BY <1>7, <2>1, RowTypes, HeldTypes
       DEF Upsert, lockVars, certVars, clusters, workVars, CanFail
<1>8. ASSUME NEW r \in Replicas, GetCert(r) PROVE TypeInv'
  <2>1. CASE cert = NoCert
    BY <1>8, <2>1, EndPassType DEF GetCert, lockVars, certVars, clusters, workVars
  <2>2. CASE cert # NoCert
    <3> DEFINE p == Pass(NoDist, pass[r].version, cert)
    <3>1. p \in Passes /\ p.cert = cert
      BY HeldTypes, HeldFields, RowTypes
    <3>2. Proceed(r, "setMeta", p)
      BY <1>8, <2>2 DEF GetCert
    <3> HIDE DEF p
    <3>3. dpc' \in [Replicas -> PassLabels]
        /\ pass' \in [Replicas -> Passes] /\ HoldsRow'
      BY <2>2, <3>1, <3>2, ProceedType DEF PassLabels
    <3> QED
      BY <1>8, <3>3 DEF GetCert, lockVars, certVars, clusters, workVars
  <2> QED
    BY <2>1, <2>2
<1>9. ASSUME NEW r \in Replicas, SetMeta(r) PROVE TypeInv'
  <2>1. /\ dpc' \in [Replicas -> PassLabels]
        /\ pass' \in [Replicas -> Passes] /\ HoldsRow'
    BY <1>9, EndPassType DEF SetMeta
  <2> QED
    BY <1>9, <2>1, RowTypes, HeldTypes
       DEF SetMeta, lockVars, certVars, clusters, workVars, CanFail, HoldsRow
<1>10. ASSUME NEW r \in Replicas, PassFails(r) PROVE TypeInv'
  <2>1. /\ dpc' \in [Replicas -> PassLabels]
        /\ pass' \in [Replicas -> Passes] /\ HoldsRow'
    BY <1>10, ProceedType, HeldTypes, RowTypes, RecordType
       DEF PassFails, PassLabels, DistStatus
  <2> QED
    BY <1>10, <2>1, RowTypes, HeldTypes
       DEF PassFails, lockVars, certVars, clusters, workVars, CanFail, Deliver
<1>11. ASSUME NEW r \in Replicas, PassAborts(r) PROVE TypeInv'
  <2>1. /\ dpc' \in [Replicas -> PassLabels]
        /\ pass' \in [Replicas -> Passes] /\ HoldsRow'
    BY <1>11, EndPassType DEF PassAborts
  <2> QED
    BY <1>11, <2>1, RowTypes, HeldTypes
       DEF PassAborts, lockVars, certVars, clusters, workVars, CanFail
<1>12. ASSUME NEW r \in Replicas, Disturb(r) PROVE TypeInv'
  <2>1. /\ dpc' \in [Replicas -> PassLabels]
        /\ pass' \in [Replicas -> Passes] /\ HoldsRow'
    BY <1>12, EndPassType DEF Disturb, passVars, HoldsRow
  <2>2. leader' \in [Replicas -> BOOLEAN]
    BY <1>12 DEF Disturb, LoseSession, Restart
  <2>3. /\ session' \in [Replicas -> {"none", "open", "lost"}]
        /\ lock' \in Replicas \cup {NoOne}
    BY <1>12 DEF Disturb, LoseSession, Restart, Released
  <2> QED
    BY <1>12, <2>1, <2>2, <2>3 DEF Disturb, CanFail, certVars, clusters, workVars
<1>13. ASSUME NEW r \in Replicas, Elect(r) PROVE TypeInv'
  BY <1>13 DEF Elect, Attempt, certVars, clusters, passVars, workVars, HoldsRow
<1>14. ASSUME NEW w \in Workers, Decide(w) PROVE TypeInv'
  <2>1. pc' \in [Workers -> RequestLabels] /\ loc' \in [Workers -> Requests]
    BY <1>14, GotoType, ReturnType, HeldTypes, RowTypes, RecordType
       DEF Decide, RequestLabels, CertStatus
  <2> QED
    BY <1>14, <2>1, RowTypes, HeldTypes
       DEF Decide, lockVars, certVars, clusters, passVars, CanFail, HoldsRow
<1>15. ASSUME NEW w \in Workers, Apply(w) PROVE TypeInv'
  <2>1. pc' \in [Workers -> RequestLabels] /\ loc' \in [Workers -> Requests]
    BY <1>15, GotoType, HeldTypes, RecordType DEF Apply, RequestLabels, CertStatus
  <2>2. crd' \in BOOLEAN
    BY <1>15, Zenon DEF Apply
  <2>3. failures' \in 0..MaxFailures
    BY <1>15 DEF Apply, CanFail
  <2> QED
    BY <1>15, <2>1, <2>2, <2>3
       DEF Apply, lockVars, certVars, clusters, passVars, HoldsRow
<1>16. ASSUME NEW w \in Workers, NEW op \in Ops, Begin(w, op) PROVE TypeInv'
  <2> DEFINE l == IF op = "status" THEN Request(cert, NoDist) ELSE NoRequest
  <2>1. l \in Requests /\ op \in RequestLabels
    BY CertOpsAssumption, HeldTypes, RowTypes DEF RequestLabels
  <2>2. Goto(w, op, l)
    BY <1>16 DEF Begin
  <2> HIDE DEF l
  <2>3. pc' \in [Workers -> RequestLabels] /\ loc' \in [Workers -> Requests]
    BY <2>1, <2>2, GotoType
  <2> QED
    BY <1>16, <2>3 DEF Begin, lockVars, certVars, clusters, passVars, HoldsRow
<1>17. ASSUME NEW w \in Workers, ReadCondition(w) PROVE TypeInv'
  <2>1. pc' \in [Workers -> RequestLabels] /\ loc' \in [Workers -> Requests]
    BY <1>17, GotoType, ReturnType, HeldTypes, RecordType
       DEF ReadCondition, RequestLabels, CertStatus
  <2> QED
    BY <1>17, <2>1, RowTypes, HeldTypes
       DEF ReadCondition, lockVars, certVars, clusters, passVars, CanFail, HoldsRow
<1>18. ASSUME NEW w \in Workers, SaveCert(w) PROVE TypeInv'
  <2>1. pc' \in [Workers -> RequestLabels] /\ loc' \in [Workers -> Requests]
    BY <1>18, ReturnType DEF SaveCert
  <2> QED
    BY <1>18, <2>1, RowTypes, HeldTypes
       DEF SaveCert, lockVars, certVars, clusters, passVars, CanFail, HoldsRow
<1>19. ASSUME NEW w \in Workers, ReadDist(w) PROVE TypeInv'
  <2>1. pc' \in [Workers -> RequestLabels] /\ loc' \in [Workers -> Requests]
    BY <1>19, GotoType, HeldTypes, RowTypes DEF ReadDist, RequestLabels
  <2> QED
    BY <1>19, <2>1, RowTypes, HeldTypes
       DEF ReadDist, lockVars, certVars, clusters, passVars, CanFail, HoldsRow
<1>20. ASSUME NEW w \in Workers, RequestPush(w) PROVE TypeInv'
  <2>1. pc' \in [Workers -> RequestLabels] /\ loc' \in [Workers -> Requests]
    BY <1>20, ReturnType DEF RequestPush
  <2> QED
    BY <1>20, <2>1, RowTypes, HeldTypes
       DEF RequestPush, lockVars, certVars, clusters, passVars, CanFail, HoldsRow, DistStatus
<1>21. ASSUME NEW w \in Workers, DeleteCert(w) PROVE TypeInv'
  <2>1. pc' \in [Workers -> RequestLabels] /\ loc' \in [Workers -> Requests]
    BY <1>21, GotoType DEF DeleteCert, RequestLabels
  <2> QED
    BY <1>21, <2>1, RowTypes, HeldTypes
       DEF DeleteCert, lockVars, certVars, clusters, passVars, CanFail, HoldsRow
<1>22. ASSUME NEW w \in Workers, DeleteObject(w) PROVE TypeInv'
  <2>1. pc' \in [Workers -> RequestLabels] /\ loc' \in [Workers -> Requests]
    BY <1>22, GotoType DEF DeleteObject, RequestLabels
  <2>2. crd' \in BOOLEAN
    BY <1>22, Zenon DEF DeleteObject
  <2>3. failures' \in 0..MaxFailures
    BY <1>22 DEF DeleteObject, CanFail
  <2> QED
    BY <1>22, <2>1, <2>2, <2>3
       DEF DeleteObject, lockVars, certVars, clusters, passVars, HoldsRow
<1>23. ASSUME NEW w \in Workers, DeleteSecret(w) PROVE TypeInv'
  <2>1. pc' \in [Workers -> RequestLabels] /\ loc' \in [Workers -> Requests]
    BY <1>23, ReturnType DEF DeleteSecret
  <2> QED
    BY <1>23, <2>1, RowTypes, HeldTypes
       DEF DeleteSecret, lockVars, certVars, clusters, passVars, CanFail, HoldsRow
<1>24. ASSUME NEW w \in Workers, RequestFails(w) PROVE TypeInv'
  <2>1. pc' \in [Workers -> RequestLabels] /\ loc' \in [Workers -> Requests]
    BY <1>24, ReturnType DEF RequestFails
  <2> QED
    BY <1>24, <2>1, RowTypes, HeldTypes
       DEF RequestFails, lockVars, certVars, clusters, passVars, CanFail, HoldsRow
<1>25. CASE Issue
  BY <1>25, RowTypes DEF Issue, Versions, lockVars, passVars, workVars, HoldsRow
<1>26. CASE Drift
  BY <1>26, RowTypes DEF Drift, CanFail, lockVars, passVars, workVars, HoldsRow
<1> QED
  BY <1>1, <1>2, <1>3, <1>4, <1>5, <1>6, <1>7, <1>8, <1>9, <1>10, <1>11,
     <1>12, <1>13, <1>14, <1>15, <1>16, <1>17, <1>18, <1>19, <1>20, <1>21,
     <1>22, <1>23, <1>24, <1>25, <1>26 DEF Next, Serve, Distribute

\* The row as Create leaves it is well typed, and nothing runs yet.
LEMMA TypeInit == Init => TypeInv
<1> SUFFICES ASSUME Init PROVE TypeInv
  OBVIOUS
<1>1. LockTypeOK
  BY DEF Init, LockInit, LockTypeOK
<1>2. /\ cert \in Certs /\ dist \in Dists /\ crd \in BOOLEAN
      /\ source \in Versions /\ tenant \in Versions /\ pushed \subseteq Versions
  BY RowTypes DEF Init
<1>3. /\ dpc \in [Replicas -> PassLabels] /\ pass \in [Replicas -> Passes] /\ HoldsRow
      /\ pc \in [Workers -> RequestLabels] /\ loc \in [Workers -> Requests]
  BY HeldTypes DEF Init, HoldsRow, PassLabels, RequestLabels
<1>4. failures \in 0..MaxFailures
  BY CertBoundsAssumption DEF Init
<1> QED
  BY <1>1, <1>2, <1>3, <1>4 DEF TypeInv, TypeOK, Init

\* Every variable keeps its type in all reachable states of the distribution.
THEOREM TypeCorrect == Spec => []TypeOK
<1>1. Init => TypeInv
  BY TypeInit
<1>2. TypeInv /\ [Next]_vars => TypeInv'
  BY TypeStep
<1>3. TypeInv => TypeOK
  BY DEF TypeInv
<1> QED
  BY <1>1, <1>2, <1>3, PTL DEF Spec

\* What was pushed stays pushed.
LEMMA PushedGrows == [Next]_vars => pushed \subseteq pushed'
<1> SUFFICES ASSUME [Next]_vars PROVE pushed \subseteq pushed'
  OBVIOUS
<1>1. ASSUME NEW r \in Replicas, Push(r) \/ PassFails(r) PROVE pushed \subseteq pushed'
  BY <1>1 DEF Push, PassFails, Deliver
<1>2. ASSUME NEW r \in Replicas,
             \/ List(r) \/ GetDist(r) \/ ReadSource(r) \/ ReadTenant(r) \/ Upsert(r)
             \/ GetCert(r) \/ SetMeta(r) \/ PassAborts(r) \/ Elect(r) \/ Disturb(r)
      PROVE  pushed' = pushed
  BY <1>2 DEF List, GetDist, ReadSource, ReadTenant, Upsert, GetCert, SetMeta,
     PassAborts, Elect, Disturb, certVars, clusters
<1>3. ASSUME NEW w \in Workers, Serve(w) PROVE pushed' = pushed
  BY <1>3 DEF Serve, Decide, Begin, Apply, ReadCondition, SaveCert, ReadDist,
     RequestPush, DeleteCert, DeleteObject, DeleteSecret, RequestFails, certVars, clusters
<1>4. ASSUME Issue \/ Drift \/ UNCHANGED vars PROVE pushed' = pushed
  BY <1>4 DEF Issue, Drift, vars
<1> QED
  BY <1>1, <1>2, <1>3, <1>4 DEF Next, Distribute

\* A step that holds only what was pushed keeps passes and requests backed.
LEMMA ProceedBacked ==
  ASSUME TypeInv, PushedInv, pushed \subseteq pushed',
         NEW r \in Replicas, NEW label \in PassLabels, NEW p \in Passes,
         Proceed(r, label, p),
         NEW B, B = pushed' \cup {0}, p.dist.fp \in B, p.cert.fp \in B,
         label \in {"upsert", "getCert", "setMeta"} => p.version \in B
  PROVE  \A q \in Replicas : PassBacked(q)'
BY DEF TypeInv, TypeOK, PushedInv, PassBacked, WasPushed, Proceed

\* ... also at the end of a pass,
LEMMA EndPassBacked ==
  ASSUME TypeInv, PushedInv, pushed \subseteq pushed', NEW r \in Replicas, EndPass(r)
  PROVE  \A q \in Replicas : PassBacked(q)'
BY DEF TypeInv, TypeOK, PushedInv, PassBacked, WasPushed, Proceed, EndPass, NoPass,
       Pass, NoCert, NoDist

\* ... and for requests.
LEMMA GotoBacked ==
  ASSUME TypeInv, PushedInv, pushed \subseteq pushed',
         NEW w \in Workers, NEW label, NEW l \in Requests, Goto(w, label, l),
         NEW B, B = pushed' \cup {0}, l.dist.fp \in B, l.cert.fp \in B
  PROVE  \A q \in Workers : RequestBacked(q)'
BY DEF TypeInv, TypeOK, PushedInv, RequestBacked, WasPushed, Goto

\* ... and at their end.
LEMMA ReturnBacked ==
  ASSUME TypeInv, PushedInv, pushed \subseteq pushed', NEW w \in Workers, Return(w)
  PROVE  \A q \in Workers : RequestBacked(q)'
BY DEF TypeInv, TypeOK, PushedInv, RequestBacked, WasPushed, Goto, Return, NoRequest,
       Request, NoCert, NoDist

\* Every step keeps all fingerprints backed by pushes.
LEMMA PushedStep == ASSUME TypeInv, PushedInv, [Next]_vars PROVE PushedInv'
<1>a. /\ cert \in Certs /\ dist \in Dists /\ source \in Versions
      /\ \A r \in Replicas : pass[r] \in Passes /\ dpc[r] \in PassLabels
      /\ \A w \in Workers : loc[w] \in Requests
  BY DEF TypeInv, TypeOK
<1>0. pushed \subseteq pushed'
  BY PushedGrows
<1> DEFINE B == pushed' \cup {0}
<1>b. /\ cert.fp \in B /\ dist.fp \in B /\ 0 \in B
      /\ \A r \in Replicas :
            /\ pass[r].dist.fp \in B /\ pass[r].cert.fp \in B
            /\ dpc[r] \in {"upsert", "getCert", "setMeta"} => pass[r].version \in B
      /\ \A w \in Workers : loc[w].dist.fp \in B /\ loc[w].cert.fp \in B
  BY <1>0 DEF PushedInv, RecordedWasPushed, PassBacked, RequestBacked, WasPushed
<1>c. B = pushed' \cup {0}
  OBVIOUS
<1> HIDE DEF B
<1>1. CASE UNCHANGED vars
  BY <1>1
     DEF vars, PushedInv, RecordedWasPushed, PassBacked, RequestBacked, WasPushed
<1>2. ASSUME NEW r \in Replicas, List(r) PROVE PushedInv'
  <2>1. \A q \in Replicas : PassBacked(q)'
    <3>1. NoPass \in Passes /\ NoPass.dist.fp \in B /\ NoPass.cert.fp \in B
      BY <1>b, HeldTypes, HeldFields
    <3>2. Proceed(r, "getDist", NoPass)
      BY <1>2 DEF List
    <3> QED
      BY <3>1, <3>2, <1>0, <1>c, ProceedBacked DEF PassLabels
  <2> QED
    BY <1>2, <2>1, HeldFields
       DEF List, lockVars, certVars, clusters, workVars, PushedInv,
           RecordedWasPushed, RequestBacked, WasPushed
<1>3. ASSUME NEW r \in Replicas, GetDist(r) PROVE PushedInv'
  <2>1. \A q \in Replicas : PassBacked(q)'
    <3>1. CASE EndPass(r)
      BY <3>1, <1>0, EndPassBacked
    <3>2. CASE Proceed(r, "readSource", Pass(dist, 0, NoCert))
      <4> DEFINE p == Pass(dist, 0, NoCert)
      <4>1. p \in Passes /\ p.dist.fp \in B /\ p.cert.fp \in B
        BY <1>a, <1>b, RowTypes, HeldTypes, HeldFields
      <4>2. Proceed(r, "readSource", p)
        BY <3>2
      <4> HIDE DEF p
      <4> QED
        BY <4>1, <4>2, <1>0, <1>c, ProceedBacked DEF PassLabels
    <3> QED
      BY <1>3, <3>1, <3>2 DEF GetDist
  <2> QED
    BY <1>3, <2>1, HeldFields
       DEF GetDist, lockVars, certVars, clusters, workVars, PushedInv,
           RecordedWasPushed, RequestBacked, WasPushed
<1>4. ASSUME NEW r \in Replicas, ReadSource(r) PROVE PushedInv'
  <2>1. \A q \in Replicas : PassBacked(q)'
    <3>1. CASE source = 0
      <4> DEFINE p == Record("pending", pass[r].dist.fp, 0)
      <4>1. /\ p \in Passes /\ p.dist.fp \in B
            /\ p.cert.fp \in B /\ p.version \in B
        BY <1>4, <1>a, <1>b, <3>1, RowTypes, RecordType, HeldTypes, HeldFields
           DEF DistStatus
      <4>2. Proceed(r, "upsert", p)
        BY <1>4, <3>1 DEF ReadSource
      <4> HIDE DEF p
      <4> QED
        BY <4>1, <4>2, <1>0, <1>c, ProceedBacked DEF PassLabels
    <3>2. CASE source # 0
      <4> DEFINE p == Pass(pass[r].dist, source, NoCert)
      <4>1. /\ p \in Passes /\ p.dist.fp \in B
            /\ p.cert.fp \in B
        BY <1>4, <1>a, <1>b, <3>2, RowTypes, RecordType, HeldTypes, HeldFields
           DEF DistStatus
       <4>2. Proceed(r, IF KnownStale(pass[r].dist, source) THEN "push" ELSE
           "readTenant", p)
        BY <1>4, <3>2 DEF ReadSource
      <4> HIDE DEF p
      <4> QED
        BY <4>1, <4>2, <1>0, <1>c, ProceedBacked DEF PassLabels
    <3> QED
      BY <3>1, <3>2
  <2> QED
    BY <1>4, <2>1, HeldFields
       DEF ReadSource, lockVars, certVars, clusters, workVars, PushedInv,
           RecordedWasPushed, RequestBacked, WasPushed
<1>5. ASSUME NEW r \in Replicas, ReadTenant(r) PROVE PushedInv'
  <2>1. \A q \in Replicas : PassBacked(q)'
    <3>1. EndPass(r) \/ Proceed(r, "push", pass[r])
      BY <1>5 DEF ReadTenant
    <3> QED
      BY <1>a, <1>b, <3>1, <1>0, <1>c, ProceedBacked, EndPassBacked DEF PassLabels
  <2> QED
    BY <1>5, <2>1, HeldFields
       DEF ReadTenant, lockVars, certVars, clusters, workVars, PushedInv,
           RecordedWasPushed, RequestBacked, WasPushed
<1>6. ASSUME NEW r \in Replicas, Push(r) PROVE PushedInv'
  <2>1. \A q \in Replicas : PassBacked(q)'
    <3> DEFINE p == Record("synced", pass[r].version, pass[r].version)
    <3>1. /\ p \in Passes /\ p.dist.fp \in B
          /\ p.cert.fp \in B /\ p.version \in B
      BY <1>6, <1>a, <1>b, <1>c, RowTypes, RecordType, HeldTypes, HeldFields
         DEF Push, Deliver, DistStatus
    <3>2. Proceed(r, "upsert", p)
      BY <1>6 DEF Push
    <3> HIDE DEF p
    <3> QED
      BY <3>1, <3>2, <1>0, <1>c, ProceedBacked DEF PassLabels
  <2> QED
    BY <1>6, <2>1, HeldFields
       DEF Push, lockVars, certVars, clusters, workVars, PushedInv,
           RecordedWasPushed, RequestBacked, WasPushed, Deliver
<1>7. ASSUME NEW r \in Replicas, Upsert(r) PROVE PushedInv'
  <2>1. \A q \in Replicas : PassBacked(q)'
    <3>1. CASE EndPass(r)
      BY <3>1, <1>0, EndPassBacked
    <3>2. CASE Proceed(r, "getCert", Pass(NoDist, pass[r].version, NoCert))
      <4> DEFINE p == Pass(NoDist, pass[r].version, NoCert)
      <4>1. /\ p \in Passes /\ p.dist.fp \in B
            /\ p.cert.fp \in B /\ p.version \in B
        BY <1>7, <1>a, <1>b, <3>2, RowTypes, RecordType, HeldTypes, HeldFields
           DEF Upsert, DistStatus
      <4>2. Proceed(r, "getCert", p)
        BY <1>7, <3>2 DEF Upsert
      <4> HIDE DEF p
      <4> QED
        BY <4>1, <4>2, <1>0, <1>c, ProceedBacked DEF PassLabels
    <3> QED
      BY <1>7, <3>1, <3>2 DEF Upsert
  <2> QED
    BY <1>7, <2>1, HeldFields
       DEF Upsert, lockVars, certVars, clusters, workVars, PushedInv,
           RecordedWasPushed, RequestBacked, WasPushed, PassBacked
<1>8. ASSUME NEW r \in Replicas, GetCert(r) PROVE PushedInv'
  <2>1. \A q \in Replicas : PassBacked(q)'
    <3>1. CASE EndPass(r)
      BY <3>1, <1>0, EndPassBacked
    <3>2. CASE Proceed(r, "setMeta", Pass(NoDist, pass[r].version, cert))
      <4> DEFINE p == Pass(NoDist, pass[r].version, cert)
      <4>1. /\ p \in Passes /\ p.dist.fp \in B
            /\ p.cert.fp \in B /\ p.version \in B
        BY <1>8, <1>a, <1>b, <3>2, RowTypes, RecordType, HeldTypes, HeldFields
           DEF GetCert, DistStatus
      <4>2. Proceed(r, "setMeta", p)
        BY <1>8, <3>2 DEF GetCert
      <4> HIDE DEF p
      <4> QED
        BY <4>1, <4>2, <1>0, <1>c, ProceedBacked DEF PassLabels
    <3> QED
      BY <1>8, <3>1, <3>2 DEF GetCert
  <2> QED
    BY <1>8, <2>1, HeldFields
       DEF GetCert, lockVars, certVars, clusters, workVars, PushedInv,
           RecordedWasPushed, RequestBacked, WasPushed
<1>9. ASSUME NEW r \in Replicas, SetMeta(r) PROVE PushedInv'
  <2>1. \A q \in Replicas : PassBacked(q)'
    BY <1>9, <1>0, EndPassBacked DEF SetMeta, clusters
  <2>2. cert'.fp = pass[r].version
    BY <1>9, <1>a, HeldTypes DEF SetMeta, Certs, NoCert
  <2> QED
    BY <1>9, <2>1, <2>2
       DEF SetMeta, clusters, workVars, PushedInv, RecordedWasPushed, PassBacked,
           RequestBacked, WasPushed
<1>10. ASSUME NEW r \in Replicas, PassFails(r) PROVE PushedInv'
  <2>1. \A q \in Replicas : PassBacked(q)'
    <3> DEFINE p == Record("error", pass[r].dist.fp, 0)
    <3>1. /\ p \in Passes /\ p.dist.fp \in B
          /\ p.cert.fp \in B /\ p.version \in B
      BY <1>10, <1>a, <1>b, RowTypes, RecordType, HeldTypes, HeldFields
         DEF DistStatus
    <3>2. Proceed(r, "upsert", p)
      BY <1>10 DEF PassFails
    <3> HIDE DEF p
    <3> QED
      BY <3>1, <3>2, <1>0, <1>c, ProceedBacked DEF PassLabels
  <2> QED
    BY <1>10, <2>1, HeldFields
       DEF PassFails, lockVars, certVars, clusters, workVars, PushedInv,
           RecordedWasPushed, RequestBacked, WasPushed, Deliver
<1>11. ASSUME NEW r \in Replicas, PassAborts(r) PROVE PushedInv'
  <2>1. \A q \in Replicas : PassBacked(q)'
    BY <1>11, <1>a, <1>b, <1>0, EndPassBacked DEF PassAborts, certVars, clusters
  <2> QED
    BY <1>11, <2>1, HeldFields
       DEF PassAborts, lockVars, certVars, clusters, workVars, PushedInv,
           RecordedWasPushed, RequestBacked, WasPushed
<1>12. ASSUME NEW r \in Replicas, Disturb(r) PROVE PushedInv'
  <2>1. \A q \in Replicas : PassBacked(q)'
    BY <1>12, <1>a, <1>b, <1>0, EndPassBacked
       DEF Disturb, passVars, PushedInv, PassBacked, WasPushed
  <2> QED
    BY <1>12, <2>1, HeldFields
       DEF Disturb, lockVars, certVars, clusters, workVars, PushedInv,
           RecordedWasPushed, RequestBacked, WasPushed
<1>13. ASSUME NEW r \in Replicas, Elect(r) PROVE PushedInv'
  BY <1>13
     DEF Elect, certVars, clusters, passVars, workVars, PushedInv,
         RecordedWasPushed,
     PassBacked, RequestBacked, WasPushed
<1>14. ASSUME NEW w \in Workers, Decide(w) PROVE PushedInv'
  <2>1. \A q \in Workers : RequestBacked(q)'
    <3>1. CASE Return(w)
      BY <3>1, <1>0, ReturnBacked
    <3>2. CASE Goto(w, "apply", Request(cert, NoDist))
      <4> DEFINE l == Request(cert, NoDist)
      <4>1. /\ l \in Requests /\ l.dist.fp \in B
            /\ l.cert.fp \in B
        BY <1>a, <1>b, <3>2, RowTypes, RecordType, HeldTypes, HeldFields
           DEF CertStatus
      <4>2. Goto(w, "apply", l)
        BY <3>2
      <4> HIDE DEF l
      <4> QED
        BY <4>1, <4>2, <1>0, <1>c, GotoBacked
    <3>3. CASE Goto(w, "save", Holding(cert, "error"))
      <4> DEFINE l == Holding(cert, "error")
      <4>1. /\ l \in Requests /\ l.dist.fp \in B
            /\ l.cert.fp \in B
        BY <1>a, <1>b, <3>3, RowTypes, RecordType, HeldTypes, HeldFields
           DEF CertStatus
      <4>2. Goto(w, "save", l)
        BY <3>3
      <4> HIDE DEF l
      <4> QED
        BY <4>1, <4>2, <1>0, <1>c, GotoBacked
    <3> QED
      BY <1>14, <3>1, <3>2, <3>3 DEF Decide
  <2> QED
    BY <1>14, <2>1, HeldFields
       DEF Decide, certVars, clusters, passVars, PushedInv, RecordedWasPushed,
           PassBacked,
           WasPushed
<1>15. ASSUME NEW w \in Workers, Apply(w) PROVE PushedInv'
  <2>1. \A q \in Workers : RequestBacked(q)'
    <3>1. PICK s \in CertStatus : Goto(w, "save", Holding(loc[w].cert, s))
      BY <1>15 DEF Apply, CertStatus
    <3> DEFINE l == Holding(loc[w].cert, s)
    <3>2. /\ l \in Requests /\ l.dist.fp \in B
          /\ l.cert.fp \in B
      BY <1>a, <1>b, <3>1, RowTypes, RecordType, HeldTypes, HeldFields
    <3>3. Goto(w, "save", l)
      BY <3>1
    <3> HIDE DEF l
    <3> QED
      BY <3>2, <3>3, <1>0, <1>c, GotoBacked
  <2> QED
    BY <1>15, <2>1, HeldFields
       DEF Apply, certVars, clusters, passVars, PushedInv, RecordedWasPushed,
           PassBacked,
           WasPushed
<1>16. ASSUME NEW w \in Workers, NEW op \in Ops, Begin(w, op) PROVE PushedInv'
  <2>1. \A q \in Workers : RequestBacked(q)'
    <3> DEFINE l == IF op = "status" THEN Request(cert, NoDist) ELSE NoRequest
    <3>1. l \in Requests /\ l.dist.fp \in B /\ l.cert.fp \in B
      BY <1>a, <1>b, RowTypes, HeldTypes, HeldFields
    <3>2. Goto(w, op, l)
      BY <1>16 DEF Begin
    <3> HIDE DEF l
    <3> QED
      BY <3>1, <3>2, <1>0, <1>c, GotoBacked
  <2> QED
    BY <1>16, <2>1, HeldFields
       DEF Begin, certVars, clusters, passVars, PushedInv, RecordedWasPushed,
           PassBacked,
           WasPushed
<1>17. ASSUME NEW w \in Workers, ReadCondition(w) PROVE PushedInv'
  <2>1. \A q \in Workers : RequestBacked(q)'
    <3>1. CASE Return(w)
      BY <3>1, <1>0, ReturnBacked
    <3>2. ASSUME NEW s \in CertStatus, Goto(w, "save", Holding(loc[w].cert, s))
          PROVE  \A q \in Workers : RequestBacked(q)'
      <4> DEFINE l == Holding(loc[w].cert, s)
      <4>1. /\ l \in Requests /\ l.dist.fp \in B
            /\ l.cert.fp \in B
        BY <1>a, <1>b, <3>2, RowTypes, RecordType, HeldTypes, HeldFields
      <4>2. Goto(w, "save", l)
        BY <3>2
      <4> HIDE DEF l
      <4> QED
        BY <4>1, <4>2, <1>0, <1>c, GotoBacked
    <3> QED
      BY <1>17, <3>1, <3>2 DEF ReadCondition, CertStatus
  <2> QED
    BY <1>17, <2>1, HeldFields
       DEF ReadCondition, certVars, clusters, passVars, PushedInv,
           RecordedWasPushed, PassBacked,
           WasPushed
<1>18. ASSUME NEW w \in Workers, SaveCert(w) PROVE PushedInv'
  <2>1. \A q \in Workers : RequestBacked(q)'
    BY <1>18, <1>a, <1>b, <1>0, ReturnBacked DEF SaveCert
  <2> QED
    BY <1>18, <2>1, HeldFields
       DEF SaveCert, certVars, clusters, passVars, PushedInv, RecordedWasPushed,
           PassBacked, WasPushed, RequestBacked
<1>19. ASSUME NEW w \in Workers, ReadDist(w) PROVE PushedInv'
  <2>1. \A q \in Workers : RequestBacked(q)'
    <3> DEFINE l == Request(NoCert, dist)
    <3>1. l \in Requests /\ l.dist.fp \in B /\ l.cert.fp \in B
      BY <1>a, <1>b, RowTypes, HeldTypes, HeldFields
    <3>2. Goto(w, "requestPush", l)
      BY <1>19 DEF ReadDist
    <3> HIDE DEF l
    <3> QED
      BY <3>1, <3>2, <1>0, <1>c, GotoBacked
  <2> QED
    BY <1>19, <2>1, HeldFields
       DEF ReadDist, certVars, clusters, passVars, PushedInv, RecordedWasPushed,
           PassBacked,
           WasPushed
<1>20. ASSUME NEW w \in Workers, RequestPush(w) PROVE PushedInv'
  <2>1. \A q \in Workers : RequestBacked(q)'
    BY <1>20, <1>a, <1>b, <1>0, ReturnBacked DEF RequestPush
  <2> QED
    BY <1>20, <2>1, HeldFields
       DEF RequestPush, certVars, clusters, passVars, PushedInv, RecordedWasPushed,
           PassBacked, WasPushed, RequestBacked
<1>21. ASSUME NEW w \in Workers, DeleteCert(w) PROVE PushedInv'
  <2>1. \A q \in Workers : RequestBacked(q)'
    BY <1>21, <1>a, <1>b, <1>0, <1>c, GotoBacked DEF DeleteCert
  <2> QED
    BY <1>21, <2>1, HeldFields
       DEF DeleteCert, certVars, clusters, passVars, PushedInv, RecordedWasPushed,
           PassBacked, WasPushed
<1>22. ASSUME NEW w \in Workers, DeleteObject(w) PROVE PushedInv'
  <2>1. \A q \in Workers : RequestBacked(q)'
    BY <1>22, <1>a, <1>b, <1>0, <1>c, GotoBacked DEF DeleteObject
  <2> QED
    BY <1>22, <2>1, HeldFields
       DEF DeleteObject, certVars, clusters, passVars, PushedInv, RecordedWasPushed,
           PassBacked, WasPushed
<1>23. ASSUME NEW w \in Workers, DeleteSecret(w) PROVE PushedInv'
  <2>1. \A q \in Workers : RequestBacked(q)'
    BY <1>23, <1>a, <1>b, <1>0, ReturnBacked DEF DeleteSecret
  <2> QED
    BY <1>23, <2>1, HeldFields
       DEF DeleteSecret, certVars, clusters, passVars, PushedInv, RecordedWasPushed,
           PassBacked, WasPushed
<1>24. ASSUME NEW w \in Workers, RequestFails(w) PROVE PushedInv'
  <2>1. \A q \in Workers : RequestBacked(q)'
    BY <1>24, <1>a, <1>b, <1>0, ReturnBacked DEF RequestFails
  <2> QED
    BY <1>24, <2>1, HeldFields
       DEF RequestFails, certVars, clusters, passVars, PushedInv, RecordedWasPushed,
           PassBacked, WasPushed
<1>25. CASE Issue
  BY <1>25 DEF Issue, passVars, workVars, PushedInv, RecordedWasPushed, PassBacked,
     RequestBacked, WasPushed
<1>26. CASE Drift
  BY <1>26 DEF Drift, passVars, workVars, PushedInv, RecordedWasPushed, PassBacked,
     RequestBacked, WasPushed
<1> QED
  BY <1>1, <1>2, <1>3, <1>4, <1>5, <1>6, <1>7, <1>8, <1>9, <1>10, <1>11,
     <1>12, <1>13, <1>14, <1>15, <1>16, <1>17, <1>18, <1>19, <1>20, <1>21,
     <1>22, <1>23, <1>24, <1>25, <1>26 DEF Next, Serve, Distribute

\* For any number of replicas that believe to lead, of concurrent requests and
\* of failing calls, a fingerprint in the books was pushed.
THEOREM PushedSafety == Spec => []RecordedWasPushed
<1>1. Init => TypeInv /\ PushedInv
  BY TypeInit DEF Init, NoPass, NoRequest, Pass, Request, PushedInv, RecordedWasPushed,
     PassBacked, RequestBacked, WasPushed, NoCert, NoDist
<1>2. TypeInv /\ PushedInv /\ [Next]_vars => (TypeInv /\ PushedInv)'
  BY TypeStep, PushedStep
<1>3. PushedInv => RecordedWasPushed
  BY DEF PushedInv
<1> QED
  BY <1>1, <1>2, <1>3, PTL DEF Spec

\* The inductive form of IssuedOnlyIfApproved: a request about to apply the
\* Certificate object and a pass that found a key pair presuppose the approval.
Approved == approval \in {"approved", "revoked"}
IssueInv ==
    /\ crd \/ source # 0 \/ pushed # {} => Approved
    /\ \A r \in Replicas : dpc[r] \in {"readTenant", "push"} => Approved
    /\ \A w \in Workers : pc[w] = "apply" => Approved

\* Every step keeps it.
LEMMA IssueStep == ASSUME TypeInv, IssueInv, [Next]_vars PROVE IssueInv'
<1> USE CertOpsAssumption
    DEF TypeInv, TypeOK, IssueInv, Approved, lockVars, certVars, clusters, passVars,
        workVars, Proceed, EndPass, Goto, Return
<1>1. CASE UNCHANGED vars
  BY <1>1 DEF vars
<1>2. ASSUME NEW r \in Replicas, List(r) PROVE IssueInv'
  BY <1>2 DEF List
<1>3. ASSUME NEW r \in Replicas, GetDist(r) PROVE IssueInv'
  BY <1>3 DEF GetDist
<1>4. ASSUME NEW r \in Replicas, ReadSource(r) PROVE IssueInv'
  BY <1>4 DEF ReadSource, Record
<1>5. ASSUME NEW r \in Replicas, ReadTenant(r) PROVE IssueInv'
  BY <1>5 DEF ReadTenant, CanFail
<1>6. ASSUME NEW r \in Replicas, Push(r) PROVE IssueInv'
  BY <1>6 DEF Push, Record, Deliver
<1>7. ASSUME NEW r \in Replicas, Upsert(r) PROVE IssueInv'
  BY <1>7 DEF Upsert
<1>8. ASSUME NEW r \in Replicas, GetCert(r) PROVE IssueInv'
  BY <1>8 DEF GetCert
<1>9. ASSUME NEW r \in Replicas, SetMeta(r) PROVE IssueInv'
  BY <1>9 DEF SetMeta
<1>10. ASSUME NEW r \in Replicas, PassFails(r) PROVE IssueInv'
  BY <1>10 DEF PassFails, Record, Deliver, CanFail
<1>11. ASSUME NEW r \in Replicas, PassAborts(r) PROVE IssueInv'
  BY <1>11 DEF PassAborts, CanFail
<1>12. ASSUME NEW r \in Replicas, Elect(r) PROVE IssueInv'
  BY <1>12 DEF Elect, Attempt
<1>13. ASSUME NEW r \in Replicas, Disturb(r) PROVE IssueInv'
  BY <1>13 DEF Disturb, LoseSession, Restart, Released, CanFail
<1>14. ASSUME NEW w \in Workers, Decide(w) PROVE IssueInv'
  BY <1>14 DEF Decide, Holding
<1>15. ASSUME NEW w \in Workers, Apply(w) PROVE IssueInv'
  BY <1>15 DEF Apply, CanFail
<1>16. ASSUME NEW w \in Workers, ReadCondition(w) PROVE IssueInv'
  BY <1>16 DEF ReadCondition
<1>17. ASSUME NEW w \in Workers, SaveCert(w) PROVE IssueInv'
  BY <1>17 DEF SaveCert
<1>18. ASSUME NEW w \in Workers, ReadDist(w) PROVE IssueInv'
  BY <1>18 DEF ReadDist
<1>19. ASSUME NEW w \in Workers, RequestPush(w) PROVE IssueInv'
  BY <1>19 DEF RequestPush
<1>20. ASSUME NEW w \in Workers, DeleteCert(w) PROVE IssueInv'
  BY <1>20 DEF DeleteCert
<1>21. ASSUME NEW w \in Workers, DeleteObject(w) PROVE IssueInv'
  BY <1>21 DEF DeleteObject, CanFail
<1>22. ASSUME NEW w \in Workers, DeleteSecret(w) PROVE IssueInv'
  BY <1>22 DEF DeleteSecret, CanFail
<1>23. ASSUME NEW w \in Workers, RequestFails(w) PROVE IssueInv'
  BY <1>23 DEF RequestFails, CanFail
<1>24. ASSUME NEW w \in Workers, NEW op \in Ops, Begin(w, op) PROVE IssueInv'
  BY <1>24 DEF Begin, Request
<1>25. CASE Issue
  BY <1>25 DEF Issue
<1>26. CASE Drift
  BY <1>26 DEF Drift, CanFail
<1> QED
  BY <1>1, <1>2, <1>3, <1>4, <1>5, <1>6, <1>7, <1>8, <1>9, <1>10, <1>11,
     <1>12, <1>13, <1>14, <1>15, <1>16, <1>17, <1>18, <1>19, <1>20, <1>21,
     <1>22, <1>23, <1>24, <1>25, <1>26 DEF Next, Serve, Distribute

\* No key pair is requested, issued or distributed without an approval.
THEOREM IssueSafety == Spec => []IssuedOnlyIfApproved
<1>1. Init => TypeInv /\ IssueInv
  BY TypeInit DEF Init, IssueInv
<1>2. TypeInv /\ IssueInv /\ [Next]_vars => (TypeInv /\ IssueInv)'
  BY TypeStep, IssueStep
<1>3. IssueInv => IssuedOnlyIfApproved
  BY DEF IssueInv, Approved, IssuedOnlyIfApproved
<1> QED
  BY <1>1, <1>2, <1>3, PTL DEF Spec
===========================================================================

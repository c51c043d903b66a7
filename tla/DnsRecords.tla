----------------------------- MODULE DnsRecords -----------------------------
(***************************************************************************)
(* Managed DNS: provider credentials, hosted zones and the one record of a *)
(* domain (services/dns_credential_service.go, dns_hosted_zone_service.go, *)
(* dns_record_service.go, the DNS part of domain_service.go and the        *)
(* clients of internal/dnsprovider).                                       *)
(*                                                                         *)
(* There is no reconciler: a record is written to the provider by the      *)
(* request that enables, reads or updates it, and by the one background    *)
(* retry that Enable may leave behind.  A request reads the row, talks to  *)
(* the provider and then saves the row it read as a whole; the result of   *)
(* that save is ignored.                                                   *)
(***************************************************************************)
EXTENDS Naturals, FiniteSets

CONSTANTS
    Workers,     \* requests and retries being served at the same time
    Domains,     \* domain ids, of any project
    HostOf,      \* the hostname of a domain; two projects may have the same
    Credentials, \* ids of provider credentials
    Zones,       \* ids of hosted zones; all name the same zone of the provider
    Outside,     \* hostnames that are not in the zone
    Apex,        \* hostnames that are the name of the zone
    Types,       \* record types at the provider
    Requested,   \* the record types requests ask for
    Addresses,   \* load-balancer addresses a Gateway may get
    TypeOf,      \* the record type that fits an address
    MaxRequests, \* bound: requests and rounds of the retry
    MaxRows,     \* bound: rows inserted into domain_dns_records
    MaxMoves,    \* bound: changes of the address of a Gateway
    MaxFailures  \* bound: calls that fail

ASSUME FunctionsAssumption == /\ DOMAIN HostOf = Domains
                              /\ DOMAIN TypeOf = Addresses
                              /\ \A a \in Addresses : TypeOf[a] \in Types
                              /\ Requested \subseteq Types \cup {"auto"}
\* Nothing is named like the NULL of a column, like an unset type or like the
\* owner of a record that FastGateway did not write.
ASSUME NamesAssumption == /\ "none" \notin Domains \cup Zones \cup Types \cup Addresses
                          /\ "foreign" \notin Domains
ASSUME BoundsAssumption == {MaxRequests, MaxRows, MaxMoves, MaxFailures} \subseteq Nat

Hosts == {HostOf[d] : d \in Domains}
None == "none"

VARIABLES
    alive,      \* domains: the ids that have a row
    address,    \* the address in the status of the domain's Gateway, or none
    credential, \* dns_provider_credentials: the ids that have a row
    zone,       \* dns_hosted_zones: credential and status, by id
    record,     \* domain_dns_records, by domain
    rowIds,     \* the last id given to a record
    provider,   \* the provider's records, by hostname and type
    retry,      \* domains with a background retry
    loc,        \* what each worker holds in memory
    requests, moves, failures,
    foreign,    \* history: names that had a record before FastGateway came
    written,    \* history: <<domain, target>> the provider was asked to hold
    blurred     \* history: names where calls failed, overlapped or changed type

rows == <<alive, credential, zone, record, rowIds>>
vars == <<rows, address, provider, retry, loc, requests, moves, failures,
          foreign, written, blurred>>

RecordTypes == Types \cup {"auto"}
NoRow == [id |-> 0, zone |-> None, type |-> "auto", target |-> None, status |-> None]
Rows == [id : 0..MaxRows, zone : Zones \cup {None}, type : RecordTypes,
         target : Addresses \cup {None}, status : {None, "pending", "ready", "error"}]
NoZone == [cred |-> None, status |-> None]
Idle == [op |-> "idle", at |-> "idle", d |-> None, rec |-> NoRow, type |-> None, addr |-> None]

Free == [by |-> None, target |-> None]
Foreign == [by |-> "foreign", target |-> None]

Init ==
    /\ alive = Domains
    /\ address = [d \in Domains |-> None]
    /\ credential = Credentials
    /\ zone = [z \in Zones |-> NoZone]
    /\ record = [d \in Domains |-> NoRow]
    /\ rowIds = 0
    /\ \E there \in SUBSET (Hosts \X Types) :
          /\ provider = [h \in Hosts |-> [t \in Types |->
                            IF <<h, t>> \in there THEN Foreign ELSE Free]]
          /\ foreign = {n[1] : n \in there}
    /\ retry = {}
    /\ loc = [w \in Workers |-> Idle]
    /\ requests = 0 /\ moves = 0 /\ failures = 0
    /\ written = {}
    /\ blurred = {}

---------------------------------------------------------------------------
At(w, label) == loc[w].at = label
Goto(w, label) == loc' = [loc EXCEPT ![w].at = label]
Return(w) == loc' = [loc EXCEPT ![w] = Idle]
Host(w) == HostOf[loc[w].d]
Fail == failures < MaxFailures /\ failures' = failures + 1
Request == requests < MaxRequests /\ requests' = requests + 1
Blur(h) == blurred' = blurred \cup {h}

\* A worker takes up work on domain d with the row it has read.
Begin(w, op, d, label, rec) ==
    /\ At(w, "idle") /\ Request
    /\ loc' = [loc EXCEPT ![w] = [Idle EXCEPT !.op = op, !.at = label, !.d = d, !.rec = rec]]
    /\ blurred' = IF \E v \in Workers : loc[v] # Idle /\ Host(v) = HostOf[d]
                  THEN blurred \cup {HostOf[d]} ELSE blurred

---------------------------------------------------------------------------
\* Credentials and zones; foreign keys refuse to delete what is referred to.

CreateCredential(c) ==
    /\ c \notin credential
    /\ credential' = credential \cup {c}
    /\ UNCHANGED <<alive, zone, record, rowIds, address, provider, retry, loc, requests,
                   moves, failures, foreign, written, blurred>>

DeleteCredential(c) ==
    /\ c \in credential
    /\ \A z \in Zones : zone[z].cred # c
    /\ credential' = credential \ {c}
    /\ UNCHANGED <<alive, zone, record, rowIds, address, provider, retry, loc, requests,
                   moves, failures, foreign, written, blurred>>

\* A zone the provider does not know, or cannot be asked about, is stored too.
CreateZone(z, c) ==
    /\ zone[z] = NoZone /\ c \in credential
    /\ \E status \in {"ready", "error"} :
          zone' = [zone EXCEPT ![z] = [cred |-> c, status |-> status]]
    /\ UNCHANGED <<alive, credential, record, rowIds, address, provider, retry, loc, requests,
                   moves, failures, foreign, written, blurred>>

\* The foreign key of the records keeps a zone that is used.
DeleteZone(z) ==
    /\ zone[z] # NoZone
    /\ \A d \in Domains : record[d].zone # z
    /\ zone' = [zone EXCEPT ![z] = NoZone]
    /\ UNCHANGED <<alive, credential, record, rowIds, address, provider, retry, loc, requests,
                   moves, failures, foreign, written, blurred>>

---------------------------------------------------------------------------
\* Mutant of HostnameClaimExists: other projects are forgotten.
HostnameClaimExists_Never(d, z) == FALSE
HostnameClaimExists(d, z) ==
    \E e \in Domains \ {d} : HostOf[e] = HostOf[d] /\ record[e].zone = z
RecordExistsForName(h) == \E t \in Types : provider[h][t] # Free

\* Mutant of CheckCollision: the provider is not asked.
CheckCollision_OwnRowsOnly(d, z) ==
    /\ zone[z].status = "ready" /\ HostOf[d] \notin Outside
    /\ ~HostnameClaimExists(d, z)

\* The hostname is in the zone and nobody, here or at the provider, has it.
CheckCollision(d, z) ==
    /\ zone[z].status = "ready" /\ HostOf[d] \notin Outside
    /\ ~HostnameClaimExists(d, z)
    /\ ~RecordExistsForName(HostOf[d])

\* Enable: the checks, then the row, then the first reconcile.
Enable(w, d, z, type) ==
    /\ d \in alive /\ record[d] = NoRow
    /\ CheckCollision(d, z)
    /\ Begin(w, "enable", d, "insert",
             [NoRow EXCEPT !.zone = z, !.type = type, !.status = "pending"])
    /\ UNCHANGED <<rows, address, provider, retry, moves, failures, foreign, written>>

InsertRecord(w) ==
    LET l == loc[w]
        row == [l.rec EXCEPT !.id = rowIds + 1] IN
    /\ At(w, "insert")
    /\ rowIds < MaxRows
    /\ IF l.d \in alive /\ zone[l.rec.zone] # NoZone /\ record[l.d] = NoRow
       THEN /\ record' = [record EXCEPT ![l.d] = row] /\ rowIds' = rowIds + 1
            /\ loc' = [loc EXCEPT ![w].rec = row, ![w].at = "reconcile"]
       ELSE Return(w) /\ UNCHANGED <<record, rowIds>>
    /\ UNCHANGED <<alive, credential, zone, address, provider, retry, requests, moves, failures,
                   foreign, written, blurred>>

\* Get and Refresh: a record that is pending, or whose Gateway has moved.
Drifted(d) == address[d] # None /\ address[d] # record[d].target
Get(w, d) ==
    /\ d \in alive /\ record[d] # NoRow
    /\ record[d].status = "pending" \/ Drifted(d)
    /\ Begin(w, "get", d, "reconcile", record[d])
    /\ UNCHANGED <<rows, address, provider, retry, moves, failures, foreign, written>>

\* Update: the new type is saved first, then the record is reconciled.
Update(w, d, type) ==
    /\ d \in alive /\ record[d] # NoRow /\ record[d].type # type
    /\ Begin(w, "update", d, "saveType", [record[d] EXCEPT !.type = type])
    /\ UNCHANGED <<rows, address, provider, retry, moves, failures, foreign, written>>

\* The background retry reads the row again on every round and ends with it.
Retry(w, d) ==
    /\ d \in retry
    /\ IF record[d].status = "pending"
       THEN Begin(w, "retry", d, "reconcile", record[d]) /\ UNCHANGED retry
       ELSE retry' = retry \ {d} /\ UNCHANGED <<loc, requests, blurred>>
    /\ UNCHANGED <<rows, address, provider, moves, failures, foreign, written>>

\* ... and gives up after three minutes.
RetryExpires(d) ==
    /\ d \in retry
    /\ retry' = retry \ {d}
    /\ UNCHANGED <<rows, address, provider, loc, requests, moves, failures, foreign, written, blurred>>

---------------------------------------------------------------------------
\* recordTypeForAddress: the type that fits the address, or none.
RecordTypeForAddress(addr, forced) ==
    IF forced \in {"auto", TypeOf[addr]} THEN TypeOf[addr] ELSE None

\* reconcile, up to its write: what it reads decides between three ways.
MustWait(l) == l.d \in alive /\ address[l.d] = None
MayWrite(l) ==
    LET h == HostOf[l.d]
        t == RecordTypeForAddress(address[l.d], l.rec.type) IN
    /\ l.d \in alive /\ zone[l.rec.zone].status = "ready" /\ h \notin Outside
    /\ t # None
    /\ t = "CNAME" => h \notin Apex
    /\ l.rec.target = None => provider[h][t] = Free

Reconcile(w) ==
    LET l == loc[w] IN
    /\ At(w, "reconcile")
    /\ loc' = [loc EXCEPT ![w] =
          CASE MustWait(l) -> [l EXCEPT !.rec.status = "pending", !.at = "save"]
            [] ~MustWait(l) /\ MayWrite(l) ->
                 [l EXCEPT !.type = RecordTypeForAddress(address[l.d], l.rec.type),
                           !.addr = address[l.d], !.at = "upsert"]
            [] OTHER -> [l EXCEPT !.rec.status = "error", !.at = "save"]]
    /\ UNCHANGED <<rows, address, provider, retry, requests, moves, failures, foreign, written, blurred>>

ReconcileFails(w) ==
    /\ At(w, "reconcile") /\ Fail
    /\ \E status \in {"pending", "error"} :
          loc' = [loc EXCEPT ![w].rec.status = status, ![w].at = "save"]
    /\ UNCHANGED <<rows, address, provider, retry, requests, moves, foreign, written, blurred>>

\* UpsertRecord of the provider's client, and the row it leads to.
Upserted(l) == [provider EXCEPT ![HostOf[l.d]][l.type] = [by |-> l.d, target |-> l.addr]]
Done(l) == [l EXCEPT !.rec.target = l.addr, !.rec.status = "ready", !.at = "save"]
ChangesType(l) == \E t \in Types \ {l.type} : provider[HostOf[l.d]][t].by = l.d

Upsert(w) ==
    LET l == loc[w] IN
    /\ At(w, "upsert")
    /\ provider' = Upserted(l)
    /\ written' = written \cup {<<l.d, l.addr>>}
    /\ loc' = [loc EXCEPT ![w] = Done(l)]
    /\ blurred' = IF ChangesType(l) THEN blurred \cup {Host(w)} ELSE blurred
    /\ UNCHANGED <<rows, address, retry, requests, moves, failures, foreign>>

\* Mutant of UpsertFails: the row is completed although the write failed.
UpsertFails_RecordsTarget(w) ==
    LET l == loc[w] IN
    /\ At(w, "upsert") /\ Fail
    /\ loc' = [loc EXCEPT ![w] = Done(l)]
    /\ Blur(Host(w))
    /\ UNCHANGED <<rows, address, provider, retry, requests, moves, foreign, written>>

\* The call fails; the provider may have done what it was asked.
UpsertFails(w) ==
    LET l == loc[w] IN
    /\ At(w, "upsert") /\ Fail
    /\ loc' = [loc EXCEPT ![w].rec.status = "error", ![w].at = "save"]
    /\ \/ UNCHANGED <<provider, written, blurred>>
       \/ provider' = Upserted(l) /\ written' = written \cup {<<l.d, l.addr>>} /\ Blur(Host(w))
    /\ UNCHANGED <<rows, address, retry, requests, moves, foreign>>

\* Save: the whole row; one that is gone is inserted again, unless the domain
\* is gone too or has another row.
Saved(l) ==
    IF l.d \in alive /\ zone[l.rec.zone] # NoZone /\ record[l.d].id \in {0, l.rec.id}
    THEN [record EXCEPT ![l.d] = l.rec] ELSE record

SaveType(w) ==
    /\ At(w, "saveType")
    /\ record' = Saved(loc[w])
    /\ IF Saved(loc[w])[loc[w].d] = loc[w].rec THEN Goto(w, "reconcile") ELSE Return(w)
    /\ UNCHANGED <<alive, credential, zone, rowIds, address, provider, retry, requests, moves,
                   failures, foreign, written, blurred>>

\* After the save Enable polls while the record is pending and then leaves it
\* to the background retry; the retry ends once the record is not pending.
AfterSave(w) ==
    LET l == loc[w]
        pending == l.rec.status = "pending" IN
    \/ l.op = "enable" /\ pending /\ Goto(w, "reconcile") /\ UNCHANGED retry
    \/ /\ Return(w)
       /\ retry' = CASE l.op = "enable" /\ pending -> retry \cup {l.d}
                     [] l.op = "retry" /\ ~pending -> retry \ {l.d}
                     [] OTHER -> retry
SaveRecord(w) ==
    /\ At(w, "save")
    /\ record' = Saved(loc[w])
    /\ AfterSave(w)
    /\ UNCHANGED <<alive, credential, zone, rowIds, address, provider, requests, moves, failures,
                   foreign, written, blurred>>

SaveFails(w) ==
    /\ At(w, "save") /\ Fail
    /\ Blur(Host(w))
    /\ AfterSave(w)
    /\ UNCHANGED <<rows, address, provider, requests, moves, foreign, written>>

---------------------------------------------------------------------------
\* Delete: at the provider first, if anything was written there.
DeleteStep(rec) ==
    CASE rec = NoRow -> "skip"
      [] rec # NoRow /\ rec.target = None -> "deleteRow"
      [] rec # NoRow /\ rec.target # None ->
           IF RecordTypeForAddress(rec.target, rec.type) = None THEN "refused"
           ELSE "providerDelete"
DeleteRecord(w, d) ==
    /\ d \in alive
    /\ DeleteStep(record[d]) \in {"deleteRow", "providerDelete"}
    /\ Begin(w, "delete", d, DeleteStep(record[d]), record[d])
    /\ UNCHANGED <<rows, address, provider, retry, moves, failures, foreign, written>>

\* DomainService.Delete tears the record down, as far as it can, and goes on.
DeleteDomain(w, d) ==
    /\ d \in alive
    /\ At(w, "idle") /\ Request
    /\ LET step == DeleteStep(record[d]) IN
       /\ loc' = [loc EXCEPT ![w] = [Idle EXCEPT !.op = "domain", !.d = d, !.rec = record[d],
                     !.at = IF step \in {"skip", "refused"} THEN "deleteDomain" ELSE step]]
       /\ blurred' = IF step = "refused" \/ (\E v \in Workers : loc[v] # Idle /\ Host(v) = HostOf[d])
                     THEN blurred \cup {HostOf[d]} ELSE blurred
    /\ UNCHANGED <<rows, address, provider, retry, moves, failures, foreign, written>>

AfterDelete(w) == IF loc[w].op = "domain" THEN Goto(w, "deleteDomain") ELSE Return(w)

ProviderDelete(w) ==
    LET l == loc[w] IN
    /\ At(w, "providerDelete")
    /\ provider' = [provider EXCEPT
                       ![Host(w)][RecordTypeForAddress(l.rec.target, l.rec.type)] = Free]
    /\ Goto(w, "deleteRow")
    /\ UNCHANGED <<rows, address, retry, requests, moves, failures, foreign, written, blurred>>

\* Mutant of ProviderDeleteFails: the row goes although the record stays.
ProviderDeleteFails_DropsRow(w) ==
    /\ At(w, "providerDelete") /\ Fail
    /\ Goto(w, "deleteRow")
    /\ UNCHANGED <<rows, address, provider, retry, requests, moves, foreign, written, blurred>>

\* The row is kept, so that the delete can be tried again.
ProviderDeleteFails(w) ==
    /\ At(w, "providerDelete") /\ Fail
    /\ AfterDelete(w)
    /\ blurred' = IF loc[w].op = "domain" THEN blurred \cup {Host(w)} ELSE blurred
    /\ UNCHANGED <<rows, address, provider, retry, requests, moves, foreign, written>>

DeleteRow(w) ==
    /\ At(w, "deleteRow")
    /\ record' = [record EXCEPT ![loc[w].d] = NoRow]
    /\ AfterDelete(w)
    /\ UNCHANGED <<alive, credential, zone, rowIds, address, provider, retry, requests, moves,
                   failures, foreign, written, blurred>>

RemoveDomain(w) ==
    LET d == loc[w].d IN
    /\ At(w, "deleteDomain")
    /\ alive' = alive \ {d}
    /\ record' = [record EXCEPT ![d] = NoRow]
    /\ address' = [address EXCEPT ![d] = None]
    /\ Return(w)
    /\ UNCHANGED <<credential, zone, rowIds, provider, retry, requests, moves, failures, foreign,
                   written, blurred>>

\* Envoy Gateway gives the Gateway of a domain an address, or another one.
GatewayMoves(d, a) ==
    /\ d \in alive /\ address[d] # a /\ moves < MaxMoves
    /\ address' = [address EXCEPT ![d] = a]
    /\ moves' = moves + 1
    /\ UNCHANGED <<rows, provider, retry, loc, requests, failures, foreign, written, blurred>>

Next ==
    \/ \E c \in Credentials : CreateCredential(c) \/ DeleteCredential(c)
                                \/ \E z \in Zones : CreateZone(z, c)
    \/ \E z \in Zones : DeleteZone(z)
    \/ \E d \in Domains : RetryExpires(d) \/ \E a \in Addresses : GatewayMoves(d, a)
    \/ \E w \in Workers :
          \/ \E d \in Domains :
                \/ \E z \in Zones, type \in Requested : Enable(w, d, z, type)
                \/ \E type \in Requested : Update(w, d, type)
                \/ Get(w, d) \/ Retry(w, d) \/ DeleteRecord(w, d) \/ DeleteDomain(w, d)
          \/ InsertRecord(w) \/ Reconcile(w) \/ ReconcileFails(w)
          \/ Upsert(w) \/ UpsertFails(w) \/ SaveType(w) \/ SaveRecord(w) \/ SaveFails(w)
          \/ ProviderDelete(w) \/ ProviderDeleteFails(w) \/ DeleteRow(w) \/ RemoveDomain(w)

Spec == Init /\ [][Next]_vars

---------------------------------------------------------------------------
\* Rows are well typed and refer to rows that exist.
TypeOK ==
    /\ alive \subseteq Domains /\ credential \subseteq Credentials
    /\ record \in [Domains -> Rows]
    /\ \A d \in Domains : record[d] # NoRow => d \in alive /\ zone[record[d].zone] # NoZone
    /\ \A z \in Zones : zone[z] # NoZone => zone[z].cred \in credential
    /\ retry \subseteq Domains

\* A name that already had a record when FastGateway came is never written or
\* deleted, of whatever type the record and however the address moves: the
\* clobber check of reconcile looks at one type and only before the first write.
ForeignNameUntouched ==
    \A h \in foreign, t \in Types : provider[h][t] \in {Foreign, Free}

\* A row that is ready names a target that the provider was asked to hold for
\* this domain: no failed call, stale save or retry completes a row.
ReadyWasWritten ==
    \A d \in Domains : record[d].status = "ready" => <<d, record[d].target>> \in written

\* A record FastGateway wrote is named by a row with a target, so that a delete
\* can find it: also after deletes that failed and writes that did.  (Requests
\* that overlap, an answer that is lost after the write and a change of type can
\* leave one behind.)
WrittenRecordHasRow ==
    \A d \in Domains : HostOf[d] \notin blurred =>
        \A t \in Types : provider[HostOf[d]][t].by = d =>
            \/ record[d].target # None
            \/ \E w \in Workers : loc[w].d = d /\ loc[w].at = "save"

\* Of two domains with the same hostname at most one has a row in a hosted zone,
\* also when both were enabled before either had an address.  (Two rows for one
\* zone of the provider, and two enables at the same time, are not excluded.)
OneOwnerPerName ==
    \A d, e \in Domains : d # e /\ HostOf[d] = HostOf[e] /\ HostOf[d] \notin blurred =>
        record[d] = NoRow \/ record[e].zone # record[d].zone
=============================================================================

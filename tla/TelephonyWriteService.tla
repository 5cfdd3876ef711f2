------------------------- MODULE TelephonyWriteService -------------------------
(* TelephonyWriteService::record_call and link_call over PostgreSQL.            *)
(*                                                                              *)
(* Each request is one run of the ingest handler; between two of its awaits     *)
(* any other request, the administrator's generic endpoints or a failure may    *)
(* take a step.  A request's database transaction is tx[r]: nothing of it is    *)
(* visible to others until Commit, except that its uncommitted row makes an     *)
(* insert of the same key wait.  Uuid::new_v4 is fresh, so the call a request   *)
(* records is named by the request itself.                                      *)
EXTENDS CallRecord, FiniteSets

CONSTANTS
    Request,        \* deliveries of CDRs
    Cdr,            \* the CDRs that may be delivered
    LegacyCompany,  \* the legacy company of each unit, None if it has none
    Fenced,         \* the composing service's row fence is installed
    PerUnitUnique,  \* its descriptor's unique (unit, external_id) is installed
    AdminCrud       \* all_crud_routes is mounted beside the validated routes

Scope == Unit \cup {NoScope}

(* The body of POST /calls and the org scope the request carries. *)
IngestCallRequest == [cdr : Cdr, scope : Scope]

(* Every event a request can stage. *)
Event == {RoutingEvent(r, company, c) : r \in Request, company \in Company, c \in Cdr}

ASSUME RequestAssumption == None \notin Request \cup IngestCallRequest \cup Row \cup Event

ASSUME CdrAssumption == Cdr \subseteq InboundCdr

ASSUME CompanyAssumption == LegacyCompany \in [Unit -> Company \cup {None}]

ASSUME PostureAssumption ==
    /\ Fenced \in BOOLEAN
    /\ AdminCrud \in BOOLEAN
    /\ PerUnitUnique \in BOOLEAN
    /\ PerUnitUnique => Fenced  \* the unique is on the column the fence adds

VARIABLES
    pc,         \* where the handler of each request is
    req,        \* the CDR and the org scope it was called with
    tx,         \* its open transaction
    calls,      \* committed rows of telephony.calls
    outbox,     \* committed rows of telephony.outbox_events, by aggregate_id
    published,  \* events handed to the in-process sink
    reply       \* what record_call returned

vars == <<pc, req, tx, calls, outbox, published, reply>>

NoTx == [bound |-> None, row |-> None, event |-> None]

NoReply == [result |-> "none", outcome |-> None]

Failure(error) == [result |-> error, outcome |-> None]

Success(id, duration, duplicate) ==
    [result  |-> "ok",
     outcome |-> [call_id |-> id, duration_seconds |-> duration,
                  duplicate |-> duplicate]]

owning_company(s) == IF s = NoScope THEN None ELSE LegacyCompany[s]

EventOf(r) == RoutingEvent(r, owning_company(req[r].scope), req[r].cdr)

(* The rows a statement run under scope s can see. *)
Visible(row, s) == Fenced => row.unit = s

(* Mutant: the lookup runs on a pooled connection with no fence variables set.  *)
find_outcome_Unscoped(r) ==
    {id \in Request : calls[id] # None
                       /\ calls[id].cdr.external_id = req[r].cdr.external_id}

(* Mutant: the lookup forgets its external_id predicate.                        *)
find_outcome_AnyCall(r) ==
    {id \in Request : calls[id] # None /\ Visible(calls[id], req[r].scope)}

(* The calls the external_id lookup may return: soft-deleted ones too. *)
find_outcome_by_external_id(r) ==
    {id \in Request : /\ calls[id] # None
                      /\ calls[id].cdr.external_id = req[r].cdr.external_id
                      /\ Visible(calls[id], req[r].scope)}

(* Mutant: the unique index covers only live rows.                              *)
CommittedConflict_LiveOnly(r) ==
    PerUnitUnique /\ \E id \in Request :
        calls[id] # None
        /\ ~calls[id].deleted
        /\ SameProviderCall(calls[id], NewCallRow(req[r].cdr, req[r].scope))

(* Rows the unique index will not let this request's row stand beside: those    *)
(* committed, and those of transactions still open.                             *)
CommittedConflict(r) ==
    PerUnitUnique /\ \E id \in Request :
        calls[id] # None
        /\ SameProviderCall(calls[id], NewCallRow(req[r].cdr, req[r].scope))

(* Mutant: dedup by looking before inserting, with no lock on the key.          *)
PendingConflict_NoWait(r) == FALSE

PendingConflict(r) ==
    PerUnitUnique /\ \E q \in Request \ {r} :
        tx[q].row # None
        /\ SameProviderCall(tx[q].row, NewCallRow(req[r].cdr, req[r].scope))

(* WITH CHECK of outbox_events_company_isolation. *)
OutboxFence(event, bound) == event.company_id = bound

--------------------------------------------------------------------------------
Init ==
    /\ pc = [r \in Request |-> "idle"]
    /\ req = [r \in Request |-> None]
    /\ tx = [r \in Request |-> NoTx]
    /\ calls = [r \in Request |-> None]
    /\ outbox = [r \in Request |-> None]
    /\ published = {}
    /\ reply = [r \in Request |-> NoReply]

(* Go to the next await of record_call, or return. *)
Goto(r, label) == pc' = [pc EXCEPT ![r] = label]

Return(r, answer) == Goto(r, "done") /\ reply' = [reply EXCEPT ![r] = answer]

Arrive(r, c, s) ==
    pc[r] = "idle" /\ req' = [req EXCEPT ![r] = [cdr |-> c, scope |-> s]]

RefuseNumbers(r, c, s) ==
    /\ Arrive(r, c, s)
    /\ NumbersMissing(c)
    /\ Return(r, Failure("Invalid"))
    /\ UNCHANGED <<tx, calls, outbox, published>>

RefuseScope(r, c, s) ==
    /\ Arrive(r, c, s)
    /\ ~NumbersMissing(c)
    /\ owning_company(s) = None
    /\ Return(r, Failure("OrgScopeRequired"))
    /\ UNCHANGED <<tx, calls, outbox, published>>

(* A manual log carries no provider id and skips the fast path. *)
Accept(r, c, s) ==
    /\ Arrive(r, c, s)
    /\ ~NumbersMissing(c)
    /\ owning_company(s) # None
    /\ Goto(r, IF c.external_id = None THEN "begin" ELSE "probe")
    /\ UNCHANGED <<tx, calls, outbox, published, reply>>

(* The fast path: the provider's id is already recorded. *)
ProbeHit(r, id) ==
    /\ pc[r] = "probe"
    /\ id \in find_outcome_by_external_id(r)
    /\ Return(r, Success(id, calls[id].duration_seconds, TRUE))
    /\ UNCHANGED <<req, tx, calls, outbox, published>>

ProbeMiss(r) ==
    /\ pc[r] = "probe"
    /\ find_outcome_by_external_id(r) = {}
    /\ Goto(r, "begin")
    /\ UNCHANGED <<req, tx, calls, outbox, published, reply>>

(* pool.begin() and bind_org_scope_on: app.company_id is set on the transaction. *)
Begin(r) ==
    /\ pc[r] = "begin"
    /\ tx' = [tx EXCEPT ![r].bound = owning_company(req[r].scope)]
    /\ Goto(r, "insert")
    /\ UNCHANGED <<req, calls, outbox, published, reply>>

InsertRejected(r) ==
    /\ pc[r] = "insert"
    /\ ~RowAccepted(req[r].cdr)
    /\ Return(r, Failure("Db"))
    /\ UNCHANGED <<req, tx, calls, outbox, published>>

InsertLoses(r) ==
    /\ pc[r] = "insert"
    /\ RowAccepted(req[r].cdr)
    /\ CommittedConflict(r)
    /\ Goto(r, "rollback")
    /\ UNCHANGED <<req, tx, calls, outbox, published, reply>>

(* Mutant: the insert runs on the pool and commits by itself.                   *)
Insert_Autocommit(r) ==
    /\ pc[r] = "insert"
    /\ RowAccepted(req[r].cdr)
    /\ ~CommittedConflict(r)
    /\ ~PendingConflict(r)
    /\ tx' = [tx EXCEPT ![r].row = NewCallRow(req[r].cdr, req[r].scope)]
    /\ calls' = [calls EXCEPT ![r] = NewCallRow(req[r].cdr, req[r].scope)]
    /\ Goto(r, "stage")
    /\ UNCHANGED <<req, outbox, published, reply>>

(* insert_cdr: it waits while another open transaction holds the key. *)
Insert(r) ==
    /\ pc[r] = "insert"
    /\ RowAccepted(req[r].cdr)
    /\ ~CommittedConflict(r)
    /\ ~PendingConflict(r)
    /\ tx' = [tx EXCEPT ![r].row = NewCallRow(req[r].cdr, req[r].scope)]
    /\ Goto(r, "stage")
    /\ UNCHANGED <<req, calls, outbox, published, reply>>

(* The losing insert answers with the winner. *)
Rollback(r) ==
    /\ pc[r] = "rollback"
    /\ tx' = [tx EXCEPT ![r] = NoTx]
    /\ Goto(r, "reprobe")
    /\ UNCHANGED <<req, calls, outbox, published, reply>>

(* Mutant: the loser answers with the talk time of its own CDR.                 *)
ReprobeHit_OwnDuration(r, id) ==
    /\ pc[r] = "reprobe"
    /\ id \in find_outcome_by_external_id(r)
    /\ Return(r, Success(id, Duration(req[r].cdr), TRUE))
    /\ UNCHANGED <<req, tx, calls, outbox, published>>

(* Mutant: the loser answers as if it had recorded the call.                    *)
ReprobeHit_AsOriginal(r, id) ==
    /\ pc[r] = "reprobe"
    /\ id \in find_outcome_by_external_id(r)
    /\ Return(r, Success(id, calls[id].duration_seconds, FALSE))
    /\ UNCHANGED <<req, tx, calls, outbox, published>>

ReprobeHit(r, id) ==
    /\ pc[r] = "reprobe"
    /\ id \in find_outcome_by_external_id(r)
    /\ Return(r, Success(id, calls[id].duration_seconds, TRUE))
    /\ UNCHANGED <<req, tx, calls, outbox, published>>

(* The winner was deleted for good meanwhile: the unique violation is returned. *)
ReprobeMiss(r) ==
    /\ pc[r] = "reprobe"
    /\ find_outcome_by_external_id(r) = {}
    /\ Return(r, Failure("Db"))
    /\ UNCHANGED <<req, tx, calls, outbox, published>>

(* Mutant: the event is published as soon as it is staged.                      *)
Stage_PublishesEarly(r) ==
    /\ pc[r] = "stage"
    /\ tx' = [tx EXCEPT ![r].event = EventOf(r)]
    /\ published' = published \cup {EventOf(r)}
    /\ Goto(r, "commit")
    /\ UNCHANGED <<req, calls, outbox, reply>>

Stage(r) ==
    /\ pc[r] = "stage"
    /\ OutboxFence(EventOf(r), tx[r].bound)
    /\ tx' = [tx EXCEPT ![r].event = EventOf(r)]
    /\ Goto(r, "commit")
    /\ UNCHANGED <<req, calls, outbox, published, reply>>

(* Mutant: a failed stage is reported but the transaction is committed.         *)
StageFails_Commits(r) ==
    /\ pc[r] = "stage"
    /\ calls' = [calls EXCEPT ![r] = tx[r].row]
    /\ tx' = [tx EXCEPT ![r] = NoTx]
    /\ Return(r, Failure("Invalid"))
    /\ UNCHANGED <<req, outbox, published>>

(* Any failure to stage is reported as invalid input. *)
StageFails(r) ==
    /\ pc[r] = "stage"
    /\ Return(r, Failure("Invalid"))
    /\ UNCHANGED <<req, tx, calls, outbox, published>>

(* What COMMIT does in the database. *)
Apply(r) ==
    /\ calls' = [calls EXCEPT ![r] = tx[r].row]
    /\ outbox' = [outbox EXCEPT ![r] = tx[r].event]
    /\ tx' = [tx EXCEPT ![r] = NoTx]

(* Mutant: the result of the commit is ignored.                                 *)
Commit_ResultIgnored(r) ==
    /\ pc[r] = "commit"
    /\ Apply(r) \/ UNCHANGED <<tx, calls, outbox>>
    /\ Goto(r, "publish")
    /\ UNCHANGED <<req, published, reply>>

Commit(r) ==
    /\ pc[r] = "commit"
    /\ Apply(r)
    /\ Goto(r, "publish")
    /\ UNCHANGED <<req, published, reply>>

(* From here to the return there is no await. *)
Publish(r) ==
    /\ pc[r] = "publish"
    /\ published' = published \cup {EventOf(r)}
    /\ Return(r, Success(r, Duration(req[r].cdr), FALSE))
    /\ UNCHANGED <<req, tx, calls, outbox>>

(* A statement or the connection fails and "?" returns the error; an open       *)
(* transaction is dropped, and ReleaseTx rolls it back.                         *)
DbFails(r) ==
    /\ pc[r] \in {"probe", "begin", "insert", "rollback", "reprobe", "commit"}
    /\ Return(r, Failure("Db"))
    /\ UNCHANGED <<req, tx, calls, outbox, published>>

(* The caller disconnects, or the process dies, and the handler's future is     *)
(* dropped where it stands.                                                     *)
Abandon(r) ==
    /\ pc[r] \notin {"idle", "done"}
    /\ Return(r, Failure("lost"))
    /\ UNCHANGED <<req, tx, calls, outbox, published>>

(* Mutant: a transaction left open by an early return is never rolled back.     *)
ReleaseTx_Never(r) == FALSE /\ UNCHANGED vars

(* A transaction whose handler returned without ending it is rolled back later. *)
ReleaseTx(r) ==
    /\ pc[r] = "done"
    /\ tx[r] # NoTx
    /\ tx' = [tx EXCEPT ![r] = NoTx]
    /\ UNCHANGED <<pc, req, calls, outbox, published, reply>>

(* A COMMIT already sent may still take effect after the handler gave up on it. *)
LateCommit(r) ==
    /\ pc[r] = "done"
    /\ tx[r].event # None
    /\ Apply(r)
    /\ UNCHANGED <<pc, req, published, reply>>

--------------------------------------------------------------------------------
(* link_call: one UPDATE of a live row the caller's scope can see; no such row  *)
(* is NotFound and changes nothing.                                             *)
link_call(s, id, subject) ==
    /\ calls[id] # None
    /\ ~calls[id].deleted
    /\ Visible(calls[id], s)
    /\ calls' = [calls EXCEPT ![id].subject = subject]
    /\ UNCHANGED <<pc, req, tx, outbox, published, reply>>

(* The generic endpoints of backbone-orm: DELETE, restore, empty trash. *)
SetDeleted(id, deleted) ==
    /\ AdminCrud
    /\ calls[id] # None
    /\ calls[id].deleted # deleted
    /\ calls' = [calls EXCEPT ![id].deleted = deleted]
    /\ UNCHANGED <<pc, req, tx, outbox, published, reply>>

EmptyTrash(id) ==
    /\ AdminCrud
    /\ calls[id] # None
    /\ calls[id].deleted
    /\ calls' = [calls EXCEPT ![id] = None]
    /\ UNCHANGED <<pc, req, tx, outbox, published, reply>>

--------------------------------------------------------------------------------
record_call(r) ==
    \/ \E id \in Request : ProbeHit(r, id) \/ ReprobeHit(r, id)
    \/ ProbeMiss(r) \/ ReprobeMiss(r)
    \/ Begin(r)
    \/ InsertRejected(r) \/ InsertLoses(r) \/ Insert(r) \/ Rollback(r)
    \/ Stage(r) \/ StageFails(r)
    \/ Commit(r)
    \/ Publish(r)

ingest_call(r) ==
    \E c \in Cdr, s \in Scope :
        RefuseNumbers(r, c, s) \/ RefuseScope(r, c, s) \/ Accept(r, c, s)

Accident(r) == DbFails(r) \/ Abandon(r)

Admin(id) == EmptyTrash(id) \/ \E deleted \in BOOLEAN : SetDeleted(id, deleted)

link_call_handler(id) == \E s \in Scope, subject \in Subject : link_call(s, id, subject)

Next ==
    \E r \in Request :
        \/ ingest_call(r)
        \/ record_call(r)
        \/ Accident(r)
        \/ ReleaseTx(r) \/ LateCommit(r)
        \/ link_call_handler(r)
        \/ Admin(r)

Spec == Init /\ [][Next]_vars

(* The runtime polls every handler whose await is ready, the database answers   *)
(* or fails every statement, and an abandoned transaction comes to an end.       *)
Fairness == \A r \in Request : WF_vars(record_call(r)) /\ WF_vars(ReleaseTx(r) \/ LateCommit(r))

FairSpec == Spec /\ Fairness

--------------------------------------------------------------------------------
Transaction == [bound : Company \cup {None}, row : Row \cup {None},
                event : Event \cup {None}]

CallOutcome == [call_id : Request, duration_seconds : 0 .. I32Max, duplicate : BOOLEAN]

Reply == [result : {"none", "Invalid", "OrgScopeRequired", "Db", "lost"}, outcome : {None}]
         \cup [result : {"ok"}, outcome : CallOutcome]

Label == {"idle", "probe", "begin", "insert", "stage", "commit", "publish",
          "rollback", "reprobe", "done"}

(* Type invariant of the service's and the database's state. *)
TypeOK ==
    /\ pc \in [Request -> Label]
    /\ req \in [Request -> IngestCallRequest \cup {None}]
    /\ tx \in [Request -> Transaction]
    /\ calls \in [Request -> Row \cup {None}]
    /\ outbox \in [Request -> Event \cup {None}]
    /\ published \subseteq Event
    /\ reply \in [Request -> Reply]

Acknowledged(r) == reply[r].result = "ok"

Answer(r) == reply[r].outcome

(* Deliveries of one provider CDR within one unit. *)
SameDelivery(r, q) ==
    /\ req[r].cdr.external_id # None
    /\ req[r].cdr.external_id = req[q].cdr.external_id
    /\ req[r].scope = req[q].scope

(* A CDR is recorded once however its redeliveries race: no two committed rows  *)
(* of a unit hold one provider id (record_call, insert_cdr).                    *)
OneCallPerProviderId ==
    \A r, q \in Request :
        calls[r] # None /\ calls[q] # None /\ SameProviderCall(calls[r], calls[q]) => r = q

(* Whoever was answered Ok can rely on the row: it is committed, holds the      *)
(* caller's provider id in the caller's unit, and has the talk time it was told *)
(* (record_call's three Ok returns).                                            *)
AcknowledgedIsRecorded ==
    \A r \in Request : Acknowledged(r) =>
        LET row == calls[Answer(r).call_id]
        IN  /\ row # None
            /\ row.cdr.external_id = req[r].cdr.external_id
            /\ Fenced => row.unit = req[r].scope
            /\ row.duration_seconds = Answer(r).duration_seconds

(* Whoever was answered Ok can rely on the event, even after the row is purged: *)
(* the outbox holds it for the call it was given, and it names the caller's own *)
(* company (record_call's dedup under the fence).                               *)
AcknowledgedIsRouted ==
    \A r \in Request : Acknowledged(r) =>
        LET event == outbox[Answer(r).call_id]
        IN  /\ event # None
            /\ Fenced => event.company_id = owning_company(req[r].scope)

(* The in-process sink never runs ahead of the durable path: what it was given  *)
(* is in the outbox, as it was given (events.publish after tx.commit).          *)
PublishedIsStaged == \A e \in published : outbox[e.call_id] = e

(* The row and its event commit together, and an event once owed is never       *)
(* withdrawn or rewritten (the outbox stage rides the insert's transaction).    *)
RecordedWithItsEvent ==
    [][\A r \in Request :
         /\ (calls[r] = None /\ calls'[r] # None) <=> (outbox[r] # outbox'[r])
         /\ outbox[r] # None => outbox'[r] = outbox[r]]_vars

(* A request answered 4xx, or refused for want of a scope, has recorded nothing *)
(* and routed nothing, then or later (every early return of record_call).       *)
RefusedLeavesNothing ==
    \A r \in Request : reply[r].result \in {"Invalid", "OrgScopeRequired"} =>
        calls[r] = None /\ outbox[r] = None

(* A committed row and the event owed for it tell one story, whichever version  *)
(* of the CDR won and whatever status and answer time say of each other: a      *)
(* callback is owed exactly for a row that is stored as missed and was never    *)
(* answered, and such a row has no talk time; anything else is logged with the  *)
(* talk time of the row, a row stored as missed whose CDR was answered too; and *)
(* the event is owned by the company of the row's unit (insert_cdr, record_call).*)
RowsMatchTheirEvents ==
    \A r \in Request : calls[r] # None =>
        LET row      == calls[r]
            event    == outbox[r]
            callback == event.event_type = "MissedCall"
        IN  /\ event # None
            /\ event.company_id = LegacyCompany[row.unit]
            /\ callback <=> row.cdr.status = "missed" /\ row.cdr.answered_at = None
            /\ callback => row.duration_seconds = 0
            /\ ~callback => event.duration_seconds = row.duration_seconds

(* All redeliveries of a CDR are answered with one call and one talk time,      *)
(* whichever of the three paths answers them (fast path, winner, loser).        *)
RedeliveriesAgree ==
    \A r, q \in Request :
        Acknowledged(r) /\ Acknowledged(q) /\ SameDelivery(r, q) =>
            /\ Answer(r).call_id = Answer(q).call_id
            /\ Answer(r).duration_seconds = Answer(q).duration_seconds

(* At most one delivery of a CDR is told it was the first.                      *)
OneOriginal ==
    \A r, q \in Request :
        /\ Acknowledged(r) /\ ~Answer(r).duplicate
        /\ Acknowledged(q) /\ ~Answer(q).duplicate
        /\ SameDelivery(r, q)
        => r = q

(* Every delivery the handler takes in is answered: no wait for another's       *)
(* uncommitted row lasts forever, whatever happens to that other handler.       *)
EveryRequestReturns == \A r \in Request : pc[r] # "idle" ~> pc[r] = "done"

(* The service implements the atomic log: every interleaving of probes, lock    *)
(* waits, commits, failures and retries looks like one Record per call.         *)
Log == INSTANCE CdrLog WITH
    asked <- req, log <- calls, routed <- outbox, answered <- reply

ImplementsCdrLog == Log!Spec

--------------------------------------------------------------------------------
(* Statements of the repository's documents that the code does not keep.        *)

(* MissedCall means an inbound call rang and was never answered.                *)
MissedCallIsInbound ==
    \A r \in Request :
        outbox[r] # None /\ outbox[r].event_type = "MissedCall"
        => req[r].cdr.direction = "inbound"

(* A missed inbound call the module acknowledged has raised MissedCall.         *)
MissedInboundSurfaces ==
    \A r \in Request :
        /\ Acknowledged(r)
        /\ req[r].cdr.direction = "inbound"
        /\ GenuinelyMissed(req[r].cdr)
        => outbox[Answer(r).call_id].event_type = "MissedCall"
================================================================================

-------------------------- MODULE TelephonyRefinement --------------------------
(* TelephonyWriteService implements CdrLog, each step of a handler one step of   *)
(* the atomic log or none; and in every unit CallSurface, whose record_call is   *)
(* one step.                                                                     *)
EXTENDS TelephonyProofs, TelephonySurface

(* The log and the service share the data operators of CallRecord.              *)
LEMMA SharedData ==
    /\ \A c : Log!NumbersMissing(c) <=> NumbersMissing(c)
    /\ \A c : Log!Duration(c) = Duration(c)
    /\ \A c, unit : Log!NewCallRow(c, unit) = NewCallRow(c, unit)
    /\ \A id, company, c : Log!RoutingEvent(id, company, c) = RoutingEvent(id, company, c)
    /\ \A row1, row2 : Log!SameProviderCall(row1, row2) <=> SameProviderCall(row1, row2)
<1>1. \A a, e : Log!talk_time(a, e) = talk_time(a, e)
  BY DEF Log!talk_time, talk_time
<1>2. \A c : Log!Duration(c) = Duration(c)
  BY <1>1 DEF Log!Duration, Duration
<1>3. \A c, unit : Log!NewCallRow(c, unit) = NewCallRow(c, unit)
  BY <1>2 DEF Log!NewCallRow, NewCallRow
<1>4. \A id, company, c : Log!RoutingEvent(id, company, c) = RoutingEvent(id, company, c)
  BY <1>2 DEF Log!RoutingEvent, RoutingEvent, Log!GenuinelyMissed, GenuinelyMissed
<1> QED
  BY <1>2, <1>3, <1>4 DEF Log!NumbersMissing, NumbersMissing, Log!SameProviderCall,
     SameProviderCall

(* The service starts as an empty log.                                          *)
LEMMA RefinementInit == Init => Log!Init
  BY DEF Init, Log!Init, NoReply, Log!NoAnswer

(* Taking a request in is asking the log.                                       *)
LEMMA AskRefinement ==
    ASSUME TypeOK, NEW r \in Request, NEW c \in Cdr, NEW s \in Scope,
           RefuseNumbers(r, c, s) \/ RefuseScope(r, c, s) \/ Accept(r, c, s),
           RequestOK(r)
    PROVE  Log!Ask(r, c, s)
<1>1. req[r] = None /\ req' = [req EXCEPT ![r] = [cdr |-> c, scope |-> s]]
  BY DEF RefuseNumbers, RefuseScope, Accept, Arrive, RequestOK
<1>2. req'[r].cdr = c /\ req'[r].scope = s
  BY <1>1 DEF TypeOK
<1>3. CASE RefuseNumbers(r, c, s)
  BY <1>1, <1>2, <1>3, SharedData DEF RefuseNumbers, Return, Log!Ask, Log!Recordable,
     Log!Refusals, Log!Failure, Failure
<1>4. CASE RefuseScope(r, c, s)
  BY <1>1, <1>2, <1>4, SharedData DEF RefuseScope, Return, owning_company, Log!Ask, Log!Recordable,
     Log!Refusals, Log!Failure, Failure
<1>5. CASE Accept(r, c, s)
  BY <1>1, <1>2, <1>5, SharedData DEF Accept, owning_company, Log!Ask, Log!Recordable
<1> QED
  BY <1>3, <1>4, <1>5

(* A handler that has not returned is a request the log has not answered.       *)
LEMMA RunningIsOpen ==
    ASSUME IInv, NEW r \in Request, pc[r] \notin {"idle", "done"}
    PROVE  Log!Open(r)
  BY DEF IInv, RequestOK, ReplyOK, NoReply, Log!Open, Log!NoAnswer

(* A lookup that finds the provider's id answers with a call the log holds.     *)
LEMMA HitRefinement ==
    ASSUME IInv, NEW r \in Request, NEW id \in Request,
           ProbeHit(r, id) \/ ReprobeHit(r, id)
    PROVE  Log!AcknowledgeDuplicate(r, id)
<1>1. pc[r] \in {"probe", "reprobe"} /\ id \in find_outcome_by_external_id(r)
  BY DEF ProbeHit, ReprobeHit
<1>2. Log!Open(r) /\ outbox[r] = None /\ req[r].cdr.external_id # None
  BY <1>1, RunningIsOpen DEF IInv, RequestOK, RecordOK
<1>3. /\ calls[id] # None
      /\ calls[id].cdr.external_id = req[r].cdr.external_id
      /\ Fenced => calls[id].unit = req[r].scope
  BY <1>1 DEF find_outcome_by_external_id, Visible
<1>4. /\ reply' = [reply EXCEPT ![r] = Success(id, calls[id].duration_seconds, TRUE)]
      /\ UNCHANGED <<req, calls, outbox>>
  BY DEF ProbeHit, ReprobeHit, Return
<1> QED
  BY <1>2, <1>3, <1>4 DEF Log!AcknowledgeDuplicate, Log!Success, Success

(* A commit, prompt or late, is one atomic recording: the key is free because   *)
(* the transaction has been holding it since the insert.                        *)
LEMMA CommitRefinement ==
    ASSUME IInv, NEW r \in Request, Commit(r) \/ LateCommit(r)
    PROVE  Log!Record(r)
<1> DEFINE row == NewCallRow(req[r].cdr, req[r].scope)
<1>1. /\ Apply(r) /\ UNCHANGED <<req, reply>>
      /\ tx[r].event # None
  BY DEF Commit, LateCommit, IInv, TransactionOK
<1>2. /\ tx[r].row = row /\ tx[r].row # None /\ tx[r].event = EventOf(r)
      /\ calls[r] = None /\ outbox[r] = None
      /\ reply[r].result \notin {"Invalid", "OrgScopeRequired", "ok"}
      /\ pc[r] \in {"commit", "done"} /\ reply[r] \in Reply
  BY <1>1 DEF IInv, TypeOK, TransactionOK
<1>3. Log!Open(r) \/ reply[r] \in Log!Accidents
  <2>1. CASE pc[r] = "commit"
    BY <2>1, RunningIsOpen
  <2>2. CASE pc[r] = "done"
    <3>1. reply[r] # NoReply
      BY <2>2 DEF IInv, ReplyOK
    <3>2. reply[r].result \in {"Db", "lost"} /\ reply[r] = Failure(reply[r].result)
      BY <1>2, <3>1 DEF Reply, NoReply, Failure
    <3> QED
      BY <3>2 DEF Log!Accidents, Log!Failure, Failure
  <2> QED
    BY <1>2, <2>1, <2>2
<1>4. ASSUME PerUnitUnique, NEW id \in Request, calls[id] # None
      PROVE  ~SameProviderCall(calls[id], row)
  <2>1. id # r /\ calls[id] \in Held(id) /\ row \in Held(r)
    BY <1>2, <1>4 DEF Held
  <2> QED
    BY <1>4, <2>1 DEF IInv, KeysDisjoint
<1>5. EventOf(r) = RoutingEvent(r, LegacyCompany[req[r].scope], req[r].cdr)
  <2>1. row.unit = req[r].scope /\ row \in Row
    BY <1>2 DEF IInv, TypeOK, Transaction, NewCallRow
  <2>2. req[r].scope # NoScope
    BY <2>1, NoneAssumption DEF Row
  <2> QED
    BY <2>2 DEF EventOf, owning_company
<1> HIDE DEF row
<1>6. /\ calls' = [calls EXCEPT ![r] = row]
      /\ outbox' = [outbox EXCEPT ![r] = RoutingEvent(r, LegacyCompany[req[r].scope], req[r].cdr)]
  BY <1>1, <1>2, <1>5 DEF Apply
<1> USE DEF row
<1> QED
  BY <1>1, <1>2, <1>3, <1>4, <1>6, SharedData DEF Log!Record

(* Returning the recorded call acknowledges it.                                 *)
LEMMA PublishRefinement ==
    ASSUME IInv, NEW r \in Request, Publish(r)
    PROVE  Log!Acknowledge(r)
<1>1. Log!Open(r) /\ outbox[r] # None
  BY RunningIsOpen DEF Publish, IInv, RecordOK
<1> QED
  BY <1>1, SharedData DEF Publish, Return, Log!Acknowledge, Log!Success, Success

(* A failed stage refuses a request of which nothing was recorded.              *)
LEMMA StageFailsRefinement ==
    ASSUME IInv, NEW r \in Request, StageFails(r)
    PROVE  Log!Refuse(r)
<1>1. Log!Open(r) /\ outbox[r] = None
  BY RunningIsOpen DEF StageFails, IInv, RecordOK
<1> QED
  BY <1>1 DEF StageFails, Return, Log!Refuse, Log!Refusals, Log!Failure, Failure

(* Every other early return is a failure of the request and nothing else.       *)
LEMMA FailureRefinement ==
    ASSUME IInv, NEW r \in Request,
           ReprobeMiss(r) \/ InsertRejected(r) \/ DbFails(r) \/ Abandon(r)
    PROVE  Log!Fail(r)
<1>1. Log!Open(r)
  BY RunningIsOpen DEF ReprobeMiss, InsertRejected, DbFails, Abandon
<1>2. /\ \E e \in {"Db", "lost"} : reply' = [reply EXCEPT ![r] = Failure(e)]
      /\ UNCHANGED <<req, calls, outbox>>
  BY DEF ReprobeMiss, InsertRejected, DbFails, Abandon, Return
<1> QED
  BY <1>1, <1>2 DEF Log!Fail, Log!Accidents, Log!Failure, Failure

(* The remaining steps of record_call are invisible to the log.                 *)
LEMMA SilentSteps ==
    ASSUME NEW r \in Request,
           \/ ProbeMiss(r) \/ Begin(r) \/ InsertLoses(r) \/ Insert(r)
           \/ Rollback(r) \/ Stage(r) \/ ReleaseTx(r)
    PROVE  UNCHANGED Log!vars
  BY DEF ProbeMiss, Begin, InsertLoses, Insert, Rollback, Stage, ReleaseTx, Log!vars

(* Every step of the service is a step of the log, or none.                     *)
LEMMA RefinementStep == IInv /\ [Next]_vars => [Log!Next]_(Log!vars)
<1> SUFFICES ASSUME IInv, [Next]_vars PROVE [Log!Next]_(Log!vars)
  OBVIOUS
<1>1. CASE UNCHANGED vars
  BY <1>1 DEF vars, Log!vars
<1>2. CASE Next
  <2> SUFFICES ASSUME NEW r \in Request,
                      \/ ingest_call(r) \/ record_call(r) \/ Accident(r)
                      \/ ReleaseTx(r) \/ LateCommit(r)
                      \/ link_call_handler(r) \/ Admin(r)
               PROVE  [Log!Next]_(Log!vars)
    BY <1>2 DEF Next
  <2>1. CASE ingest_call(r)
    <3>1. PICK c \in Cdr, s \in Scope :
              RefuseNumbers(r, c, s) \/ RefuseScope(r, c, s) \/ Accept(r, c, s)
      BY <2>1 DEF ingest_call
    <3>2. Log!Ask(r, c, s)
      BY <3>1, AskRefinement DEF IInv
    <3> QED
      BY <3>2 DEF Log!Next, Scope
  <2>2. CASE record_call(r)
    <3>1. CASE \E id \in Request : ProbeHit(r, id) \/ ReprobeHit(r, id)
      BY <3>1, HitRefinement DEF Log!Next
    <3>2. CASE Commit(r)
      BY <3>2, CommitRefinement DEF Log!Next
    <3>3. CASE Publish(r)
      BY <3>3, PublishRefinement DEF Log!Next
    <3>4. CASE StageFails(r)
      BY <3>4, StageFailsRefinement DEF Log!Next
    <3>5. CASE ReprobeMiss(r) \/ InsertRejected(r)
      BY <3>5, FailureRefinement DEF Log!Next
    <3>6. CASE ProbeMiss(r) \/ Begin(r) \/ InsertLoses(r) \/ Insert(r) \/ Rollback(r) \/ Stage(r)
      BY <3>6, SilentSteps
    <3> QED
      BY <2>2, <3>1, <3>2, <3>3, <3>4, <3>5, <3>6 DEF record_call
  <2>3. CASE Accident(r)
    BY <2>3, FailureRefinement DEF Accident, Log!Next
  <2>4. CASE ReleaseTx(r)
    BY <2>4, SilentSteps
  <2>5. CASE LateCommit(r)
    BY <2>5, CommitRefinement DEF Log!Next
  <2>6. CASE link_call_handler(r)
    <3>1. PICK s \in Scope, subject \in Subject : link_call(s, r, subject)
      BY <2>6 DEF link_call_handler
    <3>2. Log!Link(r, subject)
      BY <3>1 DEF link_call, Log!Link
    <3> QED
      BY <3>2 DEF Log!Next
  <2>7. CASE Admin(r)
    <3>1. CASE EmptyTrash(r)
      <4>1. Log!Purge(r)
        BY <3>1 DEF EmptyTrash, Log!Purge
      <4> QED
        BY <4>1 DEF Log!Next
    <3>2. CASE \E deleted \in BOOLEAN : SetDeleted(r, deleted)
      <4>1. PICK deleted \in BOOLEAN : SetDeleted(r, deleted)
        BY <3>2
      <4>2. Log!SetDeleted(r, deleted)
        BY <4>1 DEF SetDeleted, Log!SetDeleted
      <4> QED
        BY <4>2 DEF Log!Next
    <3> QED
      BY <2>7, <3>1, <3>2 DEF Admin
  <2> QED
    BY <2>1, <2>2, <2>3, <2>4, <2>5, <2>6, <2>7
<1> QED
  BY <1>1, <1>2

(* record_call and link_call, with their probes, lock waits, commits and        *)
(* failures, implement the atomic CDR log in every posture.                     *)
THEOREM ServiceImplementsLog == Spec => ImplementsCdrLog
<1>1. Init => Log!Init
  BY RefinementInit
<1>2. IInv /\ [Next]_vars => [Log!Next]_(Log!vars)
  BY RefinementStep
<1> QED
  BY <1>1, <1>2, Invariance, PTL DEF Spec, ImplementsCdrLog, Log!Spec

(* Only a commit adds a row or an event.                                        *)
LEMMA OnlyCommitsRecord ==
    ASSUME TypeOK, NEW r \in Request,
           \/ ingest_call(r) \/ record_call(r) \/ Accident(r) \/ ReleaseTx(r)
           \/ link_call_handler(r) \/ Admin(r),
           ~Commit(r)
    PROVE  outbox' = outbox /\ \A q \in Request : calls[q] = None => calls'[q] = None
<1>1. CASE ingest_call(r)
  BY <1>1 DEF ingest_call, RefuseNumbers, RefuseScope, Accept
<1>2. CASE record_call(r)
  BY <1>2 DEF record_call, ProbeHit, ReprobeHit, ProbeMiss, ReprobeMiss, Begin,
     InsertRejected, InsertLoses, Insert, Rollback, Stage, StageFails, Publish
<1>3. CASE Accident(r) \/ ReleaseTx(r)
  BY <1>3 DEF Accident, DbFails, Abandon, ReleaseTx
<1>4. CASE link_call_handler(r) \/ Admin(r)
  BY <1>4 DEF link_call_handler, link_call, Admin, SetDeleted, EmptyTrash, TypeOK
<1> QED
  BY <1>1, <1>2, <1>3, <1>4

RecordedTogether(r) ==
    /\ (calls[r] = None /\ calls'[r] # None) <=> (outbox[r] # outbox'[r])
    /\ outbox[r] # None => outbox'[r] = outbox[r]

(* A row appears only together with its event, and an event once owed is never  *)
(* withdrawn or rewritten (the outbox stage rides the insert's transaction).    *)
THEOREM RowAndEventTogether == Spec => RecordedWithItsEvent
<1>1. ASSUME IInv, [Next]_vars
      PROVE  [\A r \in Request : RecordedTogether(r)]_vars
  <2>1. CASE UNCHANGED vars
    BY <2>1
  <2>2. ASSUME NEW r \in Request, Commit(r) \/ LateCommit(r)
        PROVE  \A q \in Request : RecordedTogether(q)
    <3>1. tx[r].row # None /\ tx[r].event # None /\ calls[r] = None /\ outbox[r] = None
      BY <1>1, <2>2 DEF Commit, LateCommit, IInv, TransactionOK
    <3>2. Apply(r)
      BY <2>2 DEF Commit, LateCommit
    <3> QED
      BY <1>1, <3>1, <3>2 DEF Apply, IInv, TypeOK, RecordedTogether
  <2>3. ASSUME NEW r \in Request, ~Commit(r),
               \/ ingest_call(r) \/ record_call(r) \/ Accident(r) \/ ReleaseTx(r)
               \/ link_call_handler(r) \/ Admin(r)
        PROVE  \A q \in Request : RecordedTogether(q)
    BY <1>1, <2>3, OnlyCommitsRecord DEF IInv, RecordedTogether
  <2> QED
    BY <1>1, <2>1, <2>2, <2>3 DEF Next
<1>2. [\A r \in Request : RecordedTogether(r)]_vars <=>
      [\A r \in Request :
         /\ (calls[r] = None /\ calls'[r] # None) <=> (outbox[r] # outbox'[r])
         /\ outbox[r] # None => outbox'[r] = outbox[r]]_vars
  BY DEF RecordedTogether
<1> QED
  BY <1>1, <1>2, Invariance, PTL DEF Spec, RecordedWithItsEvent
--------------------------------------------------------------------------------
(* What the routers see changes only with the committed tables: a step that      *)
(* leaves a unit's rows and events as they are is invisible to them.             *)
LEMMA SurfaceStutters ==
    ASSUME IInv, outbox' = outbox, SurfaceCalls' = SurfaceCalls,
           \A r \in Request : outbox[r] # None => req'[r] = req[r] /\ (calls'[r] = None <=> calls[r] = None)
    PROVE  UNCHANGED Surface!vars
<1>1. Recorded' = Recorded /\ Purged' = Purged
  BY DEF Recorded, Purged
<1>2. ProviderIds(Recorded)' = ProviderIds(Recorded) /\ ProviderIds(Purged)' = ProviderIds(Purged)
  BY <1>1 DEF ProviderIds, Recorded, Purged
<1>3. {<<r, req[r].cdr.external_id>> : r \in Recorded}' = {<<r, req[r].cdr.external_id>> : r \in Recorded}
  BY <1>1 DEF Recorded
<1> QED
  BY <1>1, <1>2, <1>3 DEF Surface!vars, Mounted

(* A stored row is a row to the routers too, and never mistaken for none.        *)
LEMMA SurfaceRowIsARow ==
    ASSUME NEW row \in Row
    PROVE  SurfaceRow(row) \in Surface!Row /\ SurfaceRow(row) # None
<1>1. row.cdr.external_id \in ExternalId \cup {None} /\ row.deleted \in BOOLEAN
  BY CdrAssumption DEF Row, InboundCdr
<1> QED
  BY <1>1, SurfaceAssumption DEF SurfaceRow, Surface!Row, Surface!ProviderId

(* Nothing is recorded in a unit before the first delivery.                      *)
LEMMA SurfaceInit == Init => Surface!Init
<1> SUFFICES ASSUME Init PROVE Surface!Init
  OBVIOUS
<1>1. \A r \in Request : calls[r] = None /\ outbox[r] = None
  BY DEF Init
<1>2. Recorded = {} /\ Purged = {} /\ SurfaceCalls = [r \in Request |-> None]
  BY <1>1 DEF Recorded, Purged, SurfaceCalls, InHome
<1> QED
  BY <1>2 DEF Surface!Init, ProviderIds

(* Requests come and go without the tables' notice until they commit.            *)
LEMMA SurfaceSilent ==
    ASSUME IInv, NEW r \in Request,
           \/ ingest_call(r) \/ record_call(r) \/ Accident(r) \/ ReleaseTx(r),
           ~Commit(r)
    PROVE  UNCHANGED Surface!vars
<1>1. calls' = calls /\ outbox' = outbox
  <2>1. CASE ingest_call(r)
    BY <2>1 DEF ingest_call, RefuseNumbers, RefuseScope, Accept
  <2>2. CASE record_call(r)
    BY <2>2 DEF record_call, ProbeHit, ReprobeHit, ProbeMiss, ReprobeMiss, Begin,
       InsertRejected, InsertLoses, Insert, Rollback, Stage, StageFails, Publish
  <2>3. CASE Accident(r) \/ ReleaseTx(r)
    BY <2>3 DEF Accident, DbFails, Abandon, ReleaseTx
  <2> QED
    BY <2>1, <2>2, <2>3
<1>2. \A q \in Request : outbox[q] # None => req'[q] = req[q]
  <2>1. CASE ingest_call(r)
    <3>1. pc[r] = "idle" /\ \E c \in Cdr, s \in Scope : req' = [req EXCEPT ![r] = [cdr |-> c, scope |-> s]]
      BY <2>1 DEF ingest_call, RefuseNumbers, RefuseScope, Accept, Arrive
    <3>2. outbox[r] = None
      BY <3>1 DEF IInv, RecordOK
    <3> QED
      BY <3>1, <3>2 DEF IInv, TypeOK
  <2>2. CASE record_call(r)
    BY <2>2 DEF record_call, ProbeHit, ReprobeHit, ProbeMiss, ReprobeMiss, Begin,
       InsertRejected, InsertLoses, Insert, Rollback, Stage, StageFails, Publish
  <2>3. CASE Accident(r) \/ ReleaseTx(r)
    BY <2>3 DEF Accident, DbFails, Abandon, ReleaseTx
  <2> QED
    BY <2>1, <2>2, <2>3
<1>3. SurfaceCalls' = SurfaceCalls
  BY <1>1 DEF SurfaceCalls
<1> QED
  BY <1>1, <1>2, <1>3, SurfaceStutters

(* A commit in the unit, prompt or late, is a delivery nobody holds the id of,   *)
(* because the transaction has been holding the key; in another unit, nothing.   *)
LEMMA SurfaceCommit ==
    ASSUME IInv, PerUnitUnique, NEW r \in Request, Commit(r) \/ LateCommit(r)
    PROVE  [Surface!Next]_(Surface!vars)
<1> DEFINE ext == req[r].cdr.external_id
           row == NewCallRow(req[r].cdr, req[r].scope)
<1>1. /\ Apply(r) /\ UNCHANGED req
      /\ tx[r].row = row /\ row # None /\ row \in Row
      /\ tx[r].event # None /\ calls[r] = None /\ outbox[r] = None
      /\ pc[r] # "idle"
  BY DEF Commit, LateCommit, IInv, TransactionOK, TypeOK, Transaction
<1>2. /\ calls' = [calls EXCEPT ![r] = row]
      /\ outbox' = [outbox EXCEPT ![r] = tx[r].event]
  BY <1>1 DEF Apply
<1>3. /\ \A q \in Request : calls'[q] = IF q = r THEN row ELSE calls[q]
      /\ \A q \in Request : outbox'[q] = IF q = r THEN tx[r].event ELSE outbox[q]
  BY <1>2 DEF IInv, TypeOK
<1>4. row.cdr = req[r].cdr /\ row.unit = req[r].scope /\ row.deleted = FALSE
  BY DEF NewCallRow
<1> HIDE DEF row
<1>5. CASE req[r].scope # Home
  <2>1. Recorded' = Recorded /\ Purged' = Purged
    BY <1>1, <1>3, <1>5 DEF Recorded, Purged
  <2>2. SurfaceCalls' = SurfaceCalls
    BY <1>1, <1>3, <1>4, <1>5 DEF SurfaceCalls, InHome
  <2> QED
    BY <1>1, <2>1, <2>2 DEF Surface!vars, ProviderIds
<1>6. CASE req[r].scope = Home
  <2>1. Recorded' = Recorded \cup {r} /\ r \notin Recorded /\ Purged' = Purged
    BY <1>1, <1>3, <1>6 DEF Recorded, Purged
  <2>2. SurfaceCalls' = [SurfaceCalls EXCEPT ![r] = SurfaceRow(row)]
    BY <1>1, <1>3, <1>4, <1>6 DEF SurfaceCalls, InHome
  <2>3. SurfaceRow(row) = Surface!audit_insert(ext, 0)
    BY <1>4 DEF SurfaceRow, Surface!audit_insert
  <2>4. Surface!Holders(ext) = {}
    <3> SUFFICES ASSUME NEW id \in Request, SurfaceCalls[id] # None,
                        SurfaceCalls[id].external_id = ext, ext # None
                 PROVE  FALSE
      BY DEF Surface!Holders
    <3>1. calls[id] # None /\ calls[id].unit = Home /\ calls[id].cdr.external_id = ext
      BY DEF SurfaceCalls, InHome, SurfaceRow
    <3>2. id # r /\ calls[id] \in Held(id) /\ row \in Held(r)
      BY <1>1, <3>1 DEF Held
    <3>3. SameProviderCall(calls[id], row)
      BY <1>4, <1>6, <3>1 DEF SameProviderCall
    <3> QED
      BY <3>2, <3>3 DEF IInv, KeysDisjoint
  <2>5. Surface!Serves("record_call")
    BY DEF Surface!Serves, Mounted, Surface!Routes, Surface!validated_routes
  <2>6. /\ ProviderIds(Recorded)' = ProviderIds(Recorded) \cup {ext}
        /\ {<<q, req[q].cdr.external_id>> : q \in Recorded}' =
             {<<q, req[q].cdr.external_id>> : q \in Recorded} \cup {<<r, ext>>}
        /\ (ProviderIds(Purged) \ {None})' = ProviderIds(Purged) \ {None}
    BY <1>1, <2>1 DEF ProviderIds
  <2>7. ext \in ExternalId \cup {None}
    BY <1>1, CdrAssumption DEF IInv, TypeOK, RequestOK, IngestCallRequest, InboundCdr
  <2>8. Surface!Insert(r, ext, 0)
    BY <2>1, <2>2, <2>3 DEF Surface!Insert
  <2>9. Surface!record_call(r, ext, 0)
    BY <2>4, <2>5, <2>6, <2>8 DEF Surface!record_call, Mounted
  <2> QED
    BY <2>7, <2>9 DEF Surface!Next, Surface!ProviderId
<1> QED
  BY <1>5, <1>6

(* Linking a call changes nothing the routers tell apart.                        *)
LEMMA SurfaceLink ==
    ASSUME IInv, NEW id \in Request, NEW s \in Scope, NEW subject \in Subject, link_call(s, id, subject)
    PROVE  UNCHANGED Surface!vars
<1>1. /\ calls' = [calls EXCEPT ![id].subject = subject]
      /\ UNCHANGED <<req, outbox>> /\ calls[id] # None /\ calls[id] \in Row
  BY DEF link_call, IInv, TypeOK
<1>2. calls[id] \in Row /\ calls'[id] = [calls[id] EXCEPT !.subject = subject]
  BY <1>1 DEF IInv, TypeOK
<1>3. /\ calls'[id] \in Row /\ calls'[id] # None
      /\ calls'[id].cdr = calls[id].cdr /\ calls'[id].unit = calls[id].unit
      /\ calls'[id].deleted = calls[id].deleted
      /\ \A q \in Request \ {id} : calls'[q] = calls[q]
  BY <1>1, <1>2, RequestAssumption DEF Row, IInv, TypeOK
<1>4. SurfaceCalls' = SurfaceCalls
  BY <1>1, <1>3 DEF SurfaceCalls, InHome, SurfaceRow
<1> QED
  BY <1>1, <1>3, <1>4, SurfaceStutters

(* A soft delete or a restore of one of the unit's calls is the generic router's. *)
LEMMA SurfaceDelete ==
    ASSUME IInv, NEW id \in Request, NEW deleted \in BOOLEAN, SetDeleted(id, deleted)
    PROVE  [Surface!Next]_(Surface!vars)
<1>1. /\ calls' = [calls EXCEPT ![id].deleted = deleted]
      /\ UNCHANGED <<req, outbox>> /\ calls[id] # None /\ calls[id].deleted # deleted /\ AdminCrud
  BY DEF SetDeleted
<1>2. calls[id] \in Row /\ calls'[id] = [calls[id] EXCEPT !.deleted = deleted]
  BY <1>1 DEF IInv, TypeOK
<1>3. /\ calls'[id] \in Row /\ calls'[id] # None
      /\ calls'[id].cdr = calls[id].cdr /\ calls'[id].unit = calls[id].unit
      /\ calls'[id].deleted = deleted
      /\ \A q \in Request \ {id} : calls'[q] = calls[q]
  BY <1>1, <1>2, RequestAssumption DEF Row, IInv, TypeOK
<1>4. CASE calls[id].unit # Home
  <2>1. SurfaceCalls' = SurfaceCalls
    BY <1>1, <1>3, <1>4 DEF SurfaceCalls, InHome
  <2> QED
    BY <1>1, <1>3, <2>1, SurfaceStutters
<1>5. CASE calls[id].unit = Home
  <2>1. SurfaceCalls[id] = SurfaceRow(calls[id]) /\ SurfaceCalls[id] # None
    BY <1>1, <1>2, <1>5, SurfaceRowIsARow DEF SurfaceCalls, InHome
  <2>2. SurfaceCalls' = [SurfaceCalls EXCEPT ![id] = SurfaceRow(calls'[id])]
    <3>1. /\ SurfaceCalls'[id] = SurfaceRow(calls'[id])
          /\ \A q \in Request \ {id} : SurfaceCalls'[q] = SurfaceCalls[q]
      BY <1>3, <1>5 DEF SurfaceCalls, InHome
    <3> QED
      BY <3>1 DEF SurfaceCalls, InHome
  <2>3. SurfaceRow(calls'[id]) = Surface!audit_update([SurfaceCalls[id] EXCEPT !.deleted = deleted], 0)
    <3> DEFINE marked == [external_id |-> calls[id].cdr.external_id, deleted |-> deleted,
                          created_at |-> 0, updated_at |-> 0]
    <3>1. SurfaceRow(calls'[id]) = marked
      BY <1>3 DEF SurfaceRow
    <3>2. [SurfaceCalls[id] EXCEPT !.deleted = deleted] = marked
      BY <2>1 DEF SurfaceRow
    <3>3. [marked EXCEPT !.updated_at = 0] = marked
      OBVIOUS
    <3> QED
      BY <3>1, <3>2, <3>3 DEF Surface!audit_update
  <2>4. Recorded' = Recorded /\ Purged' = Purged
    BY <1>1, <1>3 DEF Recorded, Purged
  <2>5. Surface!Serves("soft_delete") /\ Surface!Serves("restore")
    BY <1>1 DEF Surface!Serves, Mounted, Surface!Routes, Surface!all_crud_routes, Surface!create_call_write_routes
  <2>6. SurfaceCalls[id].deleted = calls[id].deleted /\ calls[id].deleted \in BOOLEAN
    BY <1>2, <2>1 DEF SurfaceRow, Row
  <2>7. CASE deleted
    <3>1. deleted = TRUE /\ ~calls[id].deleted
      BY <1>1, <2>6, <2>7
    <3>2. Surface!soft_delete(id)
      BY <1>1, <2>1, <2>2, <2>3, <2>4, <2>5, <2>6, <3>1
      DEF Surface!soft_delete, Surface!Live, Surface!log, Mounted, ProviderIds
    <3> QED
      BY <3>2 DEF Surface!Next
  <2>8. CASE ~deleted
    <3>1. deleted = FALSE /\ calls[id].deleted
      BY <1>1, <2>6, <2>8
    <3>2. Surface!restore(id)
      BY <1>1, <2>1, <2>2, <2>3, <2>4, <2>5, <2>6, <3>1
      DEF Surface!restore, Surface!log, Mounted, ProviderIds
    <3> QED
      BY <3>2 DEF Surface!Next
  <2> QED
    BY <2>7, <2>8
<1> QED
  BY <1>4, <1>5

(* A purge of one of the unit's calls releases its provider id and nothing else. *)
LEMMA SurfacePurge ==
    ASSUME IInv, NEW id \in Request, EmptyTrash(id)
    PROVE  [Surface!Next]_(Surface!vars)
<1>1. /\ calls' = [calls EXCEPT ![id] = None] /\ AdminCrud
      /\ UNCHANGED <<req, outbox>> /\ calls[id] # None /\ calls[id].deleted
  BY DEF EmptyTrash
<1>2. \A q \in Request : calls'[q] = IF q = id THEN None ELSE calls[q]
  BY <1>1 DEF IInv, TypeOK
<1>3. outbox[id] # None /\ calls[id].cdr = req[id].cdr /\ calls[id].unit = req[id].scope
  BY <1>1 DEF IInv, RecordOK
<1>4. CASE calls[id].unit # Home
  <2>1. SurfaceCalls' = SurfaceCalls
    BY <1>1, <1>2, <1>4 DEF SurfaceCalls, InHome
  <2>2. Recorded' = Recorded /\ Purged' = Purged
    BY <1>1, <1>2, <1>3, <1>4 DEF Recorded, Purged
  <2> QED
    BY <1>1, <2>1, <2>2 DEF Surface!vars, ProviderIds
<1>5. CASE calls[id].unit = Home
  <2>1. Recorded' = Recorded /\ Purged' = Purged \cup {id}
    BY <1>1, <1>2, <1>3, <1>5 DEF Recorded, Purged
  <2>2. SurfaceCalls[id] = SurfaceRow(calls[id]) /\ SurfaceCalls[id] # None
    BY <1>1, <1>5, SurfaceRowIsARow DEF IInv, TypeOK, SurfaceCalls, InHome
  <2>3. SurfaceCalls[id].deleted /\ SurfaceCalls[id].external_id = req[id].cdr.external_id
    BY <1>1, <1>3, <2>2 DEF SurfaceRow
  <2>4. SurfaceCalls' = [q \in Request |-> IF q \in {id} THEN None ELSE SurfaceCalls[q]]
    BY <1>2 DEF SurfaceCalls, InHome
  <2>5. ProviderIds(Purged)' = ProviderIds(Purged) \cup {SurfaceCalls[q].external_id : q \in {id}}
    BY <1>1, <2>1, <2>3 DEF ProviderIds
  <2>6. Surface!Serves("empty_trash")
    BY <1>1 DEF Surface!Serves, Mounted, Surface!Routes, Surface!all_crud_routes, Surface!create_call_write_routes
  <2>7. Surface!empty_trash({id})
    BY <1>1, <2>1, <2>2, <2>3, <2>4, <2>5, <2>6
    DEF Surface!empty_trash, Surface!log, Mounted, ProviderIds
  <2> QED
    BY <2>7 DEF Surface!Next
<1> QED
  BY <1>4, <1>5

(* Every step of the service is one step of the unit's surface, or none.         *)
LEMMA SurfaceStep == PerUnitUnique /\ IInv /\ [Next]_vars => [Surface!Next]_(Surface!vars)
<1> SUFFICES ASSUME PerUnitUnique, IInv, [Next]_vars PROVE [Surface!Next]_(Surface!vars)
  OBVIOUS
<1>1. CASE UNCHANGED vars
  BY <1>1, SurfaceStutters DEF vars, SurfaceCalls
<1>2. CASE Next
  <2> SUFFICES ASSUME NEW r \in Request,
                      \/ ingest_call(r) \/ record_call(r) \/ Accident(r)
                      \/ ReleaseTx(r) \/ LateCommit(r)
                      \/ link_call_handler(r) \/ Admin(r)
               PROVE  [Surface!Next]_(Surface!vars)
    BY <1>2 DEF Next
  <2>1. CASE Commit(r) \/ LateCommit(r)
    BY <2>1, SurfaceCommit
  <2>2. CASE (ingest_call(r) \/ record_call(r) \/ Accident(r) \/ ReleaseTx(r)) /\ ~Commit(r)
    BY <2>2, SurfaceSilent
  <2>3. CASE link_call_handler(r)
    BY <2>3, SurfaceLink DEF link_call_handler
  <2>4. CASE Admin(r)
    BY <2>4, SurfaceDelete, SurfacePurge DEF Admin
  <2> QED
    BY <2>1, <2>2, <2>3, <2>4
<1> QED
  BY <1>1, <1>2

(* With the composing service's unique, a delivery raced, retried, abandoned or  *)
(* committed late is to every router of its unit one atomic record_call          *)
(* (record_call, insert_cdr, create_call_routes).                                *)
THEOREM ServiceImplementsSurface ==
    ASSUME PerUnitUnique
    PROVE  Spec => ImplementsSurface
<1>1. Init => Surface!Init
  BY SurfaceInit
<1>2. IInv /\ [Next]_vars => [Surface!Next]_(Surface!vars)
  BY SurfaceStep
<1> QED
  BY <1>1, <1>2, Invariance, PTL DEF Spec, ImplementsSurface, Surface!Spec
================================================================================

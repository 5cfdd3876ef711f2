---------------------------- MODULE TelephonyProofs ----------------------------
(* Proofs about TelephonyWriteService for every set of requests, CDRs, units    *)
(* and companies, and for each deployment posture.                              *)
EXTENDS TelephonyInvariant, CallRecordProofs

(* A scope that names an owning company is a unit, never the missing scope.     *)
LEMMA OwningCompanyOfUnit ==
    ASSUME NEW s \in Scope, owning_company(s) # None
    PROVE  s \in Unit /\ owning_company(s) \in Company
  BY CompanyAssumption DEF Scope, owning_company

(* The event of a request under a company-owning scope.                         *)
LEMMA EventOfIsEvent ==
    ASSUME NEW r \in Request, req[r] \in IngestCallRequest,
           owning_company(req[r].scope) # None
    PROVE  EventOf(r) \in Event
  BY OwningCompanyOfUnit DEF EventOf, Event, IngestCallRequest

Requests == \A r \in Request : RequestOK(r)

(* Initially the state is well typed.                                           *)
LEMMA TypeInit == Init => TypeOK /\ Requests
  BY NoneAssumption DEF Init, TypeOK, Requests, RequestOK, NoTx, NoReply, Failure,
     Label, Transaction, Reply

(* What record_call returns is a reply.                                         *)
LEMMA Replies ==
    /\ \A e \in {"none", "Invalid", "OrgScopeRequired", "Db", "lost"} : Failure(e) \in Reply
    /\ \A id \in Request, d \in 0 .. I32Max, duplicate \in BOOLEAN :
           Success(id, d, duplicate) \in Reply
    /\ NoReply = Failure("none")
  BY DEF Failure, Success, Reply, CallOutcome, NoReply

(* Returning from the handler keeps its position and its reply typed.           *)
LEMMA ReturnType ==
    ASSUME TypeOK, NEW r \in Request, NEW answer \in Reply, Return(r, answer)
    PROVE  /\ pc' \in [Request -> Label]
           /\ reply' \in [Request -> Reply]
           /\ pc'[r] = "done"
           /\ \A q \in Request \ {r} : pc'[q] = pc[q]
  BY DEF TypeOK, Return, Goto, Label

(* So does going on to the next await.                                          *)
LEMMA GotoType ==
    ASSUME TypeOK, NEW r \in Request, NEW label \in Label, Goto(r, label)
    PROVE  /\ pc' \in [Request -> Label]
           /\ pc'[r] = label
           /\ \A q \in Request \ {r} : pc'[q] = pc[q]
  BY DEF TypeOK, Goto

(* Taking a request in records what it asked.                                   *)
LEMMA ArriveType ==
    ASSUME TypeOK, NEW r \in Request, NEW c \in Cdr, NEW s \in Scope, Arrive(r, c, s)
    PROVE  /\ req' \in [Request -> IngestCallRequest \cup {None}]
           /\ req'[r] # None /\ req'[r].cdr = c /\ req'[r].scope = s
           /\ \A q \in Request \ {r} : req'[q] = req[q]
<1>1. [cdr |-> c, scope |-> s] \in IngestCallRequest
  BY DEF IngestCallRequest
<1>2. [cdr |-> c, scope |-> s] # None
  BY <1>1, RequestAssumption
<1> QED
  BY <1>1, <1>2 DEF TypeOK, Arrive

(* No open transaction.                                                         *)
LEMMA NoTxIsTransaction == NoTx \in Transaction
  BY DEF NoTx, Transaction

(* Committing moves a typed transaction into the tables.                        *)
LEMMA ApplyType ==
    ASSUME TypeOK, NEW r \in Request, Apply(r)
    PROVE  /\ calls' \in [Request -> Row \cup {None}]
           /\ outbox' \in [Request -> Event \cup {None}]
           /\ tx' \in [Request -> Transaction]
  BY NoTxIsTransaction DEF TypeOK, Apply, Transaction

(* Each step keeps the state well typed.                                        *)
LEMMA TypeStep ==
    ASSUME TypeOK, Requests, [Next]_vars
    PROVE  TypeOK' /\ Requests'
<1>1. CASE UNCHANGED vars
  BY <1>1 DEF vars, TypeOK, Requests, RequestOK
<1>2. CASE Next
  <2> SUFFICES ASSUME NEW r \in Request,
                      \/ ingest_call(r) \/ record_call(r) \/ Accident(r)
                      \/ ReleaseTx(r) \/ LateCommit(r)
                      \/ link_call_handler(r) \/ Admin(r)
               PROVE  TypeOK' /\ Requests'
    BY <1>2 DEF Next
  <2>1. ASSUME NEW c \in Cdr, NEW s \in Scope, RefuseNumbers(r, c, s)
        PROVE  TypeOK' /\ Requests'
    BY <2>1, ArriveType, ReturnType, Replies DEF RefuseNumbers, TypeOK, Requests, RequestOK
  <2>2. ASSUME NEW c \in Cdr, NEW s \in Scope, RefuseScope(r, c, s)
        PROVE  TypeOK' /\ Requests'
    BY <2>2, ArriveType, ReturnType, Replies DEF RefuseScope, TypeOK, Requests, RequestOK
  <2>3. ASSUME NEW c \in Cdr, NEW s \in Scope, Accept(r, c, s)
        PROVE  TypeOK' /\ Requests'
    BY <2>3, ArriveType, GotoType DEF Accept, Label, TypeOK, Requests, RequestOK
  <2>4. ASSUME NEW id \in Request, ProbeHit(r, id)
        PROVE  TypeOK' /\ Requests'
    <3>1. calls[id].duration_seconds \in 0 .. I32Max
      BY <2>4 DEF ProbeHit, find_outcome_by_external_id, TypeOK, Row
    <3>2. Success(id, calls[id].duration_seconds, TRUE) \in Reply
      BY <3>1, Replies
    <3> QED
      BY <2>4, <3>2, ReturnType DEF ProbeHit, TypeOK, Requests, RequestOK
  <2>5. ASSUME NEW id \in Request, ReprobeHit(r, id)
        PROVE  TypeOK' /\ Requests'
    <3>1. calls[id].duration_seconds \in 0 .. I32Max
      BY <2>5 DEF ReprobeHit, find_outcome_by_external_id, TypeOK, Row
    <3>2. Success(id, calls[id].duration_seconds, TRUE) \in Reply
      BY <3>1, Replies
    <3> QED
      BY <2>5, <3>2, ReturnType DEF ReprobeHit, TypeOK, Requests, RequestOK
  <2>6. ASSUME ProbeMiss(r)
        PROVE  TypeOK' /\ Requests'
    BY <2>6, GotoType DEF ProbeMiss, Label, TypeOK, Requests, RequestOK
  <2>7. ASSUME ReprobeMiss(r)
        PROVE  TypeOK' /\ Requests'
    BY <2>7, ReturnType, Replies DEF ReprobeMiss, TypeOK, Requests, RequestOK
  <2>8. ASSUME Begin(r)
        PROVE  TypeOK' /\ Requests'
    <3>1. owning_company(req[r].scope) \in Company
      BY <2>8, OwningCompanyOfUnit, RequestAssumption
      DEF Begin, TypeOK, Requests, RequestOK, IngestCallRequest
    <3>2. tx' \in [Request -> Transaction]
      BY <2>8, <3>1 DEF Begin, TypeOK, Transaction
    <3> QED
      BY <2>8, <3>2, GotoType DEF Begin, Label, TypeOK, Requests, RequestOK
  <2>9. ASSUME InsertRejected(r)
        PROVE  TypeOK' /\ Requests'
    BY <2>9, ReturnType, Replies DEF InsertRejected, TypeOK, Requests, RequestOK
  <2>10. ASSUME InsertLoses(r)
        PROVE  TypeOK' /\ Requests'
    BY <2>10, GotoType DEF InsertLoses, Label, CommittedConflict, SameProviderCall, NewCallRow, TypeOK, Requests, RequestOK
  <2>11. ASSUME Insert(r)
        PROVE  TypeOK' /\ Requests'
    <3>1. NewCallRow(req[r].cdr, req[r].scope) \in Row
      BY <2>11, OwningCompanyOfUnit, NewCallRowIsRow, CdrAssumption
      DEF Insert, TypeOK, Requests, RequestOK, IngestCallRequest
    <3>2. tx' \in [Request -> Transaction]
      BY <2>11, <3>1 DEF Insert, TypeOK, Transaction
    <3> QED
      BY <2>11, <3>2, GotoType DEF Insert, Label, TypeOK, Requests, RequestOK
  <2>12. ASSUME Rollback(r)
        PROVE  TypeOK' /\ Requests'
    <3>1. tx' \in [Request -> Transaction]
      BY <2>12 DEF Rollback, TypeOK, Transaction, NoTx
    <3> QED
      BY <2>12, <3>1, GotoType DEF Rollback, Label, TypeOK, Requests, RequestOK
  <2>13. ASSUME Stage(r)
        PROVE  TypeOK' /\ Requests'
    <3>1. EventOf(r) \in Event
      BY <2>13, EventOfIsEvent DEF Stage, TypeOK, Requests, RequestOK
    <3>2. tx' \in [Request -> Transaction]
      BY <2>13, <3>1 DEF Stage, TypeOK, Transaction
    <3> QED
      BY <2>13, <3>2, GotoType DEF Stage, Label, TypeOK, Requests, RequestOK
  <2>14. ASSUME StageFails(r)
        PROVE  TypeOK' /\ Requests'
    BY <2>14, ReturnType, Replies DEF StageFails, TypeOK, Requests, RequestOK
  <2>15. ASSUME Commit(r)
        PROVE  TypeOK' /\ Requests'
    BY <2>15, GotoType, ApplyType DEF Commit, Label, TypeOK, Requests, RequestOK
  <2>16. ASSUME Publish(r)
        PROVE  TypeOK' /\ Requests'
    <3>1. /\ EventOf(r) \in Event
          /\ Duration(req[r].cdr) \in 0 .. I32Max
      BY <2>16, EventOfIsEvent, DurationRange, CdrAssumption
      DEF Publish, TypeOK, Requests, RequestOK, IngestCallRequest
    <3>2. Success(r, Duration(req[r].cdr), FALSE) \in Reply
      BY <3>1, Replies
    <3> QED
      BY <2>16, <3>1, <3>2, ReturnType DEF Publish, TypeOK, Requests, RequestOK
  <2>17. ASSUME DbFails(r)
        PROVE  TypeOK' /\ Requests'
    BY <2>17, ReturnType, Replies DEF DbFails, TypeOK, Requests, RequestOK
  <2>18. ASSUME Abandon(r)
        PROVE  TypeOK' /\ Requests'
    BY <2>18, ReturnType, Replies DEF Abandon, TypeOK, Requests, RequestOK
  <2>19. ASSUME ReleaseTx(r)
        PROVE  TypeOK' /\ Requests'
    BY <2>19, NoTxIsTransaction DEF ReleaseTx, TypeOK, Requests, RequestOK
  <2>20. ASSUME LateCommit(r)
        PROVE  TypeOK' /\ Requests'
    BY <2>20, ApplyType DEF LateCommit, TypeOK, Requests, RequestOK
  <2>21. ASSUME NEW s \in Scope, NEW subject \in Subject, link_call(s, r, subject)
        PROVE  TypeOK' /\ Requests'
    <3>1. calls' \in [Request -> Row \cup {None}]
      BY <2>21 DEF link_call, TypeOK, Row
    <3> QED
      BY <2>21, <3>1 DEF link_call, TypeOK, Requests, RequestOK
  <2>22. ASSUME NEW deleted \in BOOLEAN, SetDeleted(r, deleted)
        PROVE  TypeOK' /\ Requests'
    <3>1. calls' \in [Request -> Row \cup {None}]
      BY <2>22 DEF SetDeleted, TypeOK, Row
    <3> QED
      BY <2>22, <3>1 DEF SetDeleted, TypeOK, Requests, RequestOK
  <2>23. ASSUME EmptyTrash(r)
        PROVE  TypeOK' /\ Requests'
    BY <2>23, NoneAssumption DEF EmptyTrash, TypeOK, Requests, RequestOK
  <2> QED
    BY <2>1, <2>2, <2>3, <2>4, <2>5, <2>6, <2>7, <2>8, <2>9, <2>10, <2>11, <2>12, <2>13, <2>14, <2>15, <2>16, <2>17, <2>18, <2>19, <2>20, <2>21, <2>22, <2>23
    DEF ingest_call, record_call, Accident, link_call_handler, Admin
<1> QED
  BY <1>1, <1>2

(* Every reachable state is well typed: positions, transactions, rows, events   *)
(* and replies of record_call, for every set of requests and CDRs.              *)
THEOREM TypeCorrect == Spec => []TypeOK
<1>1. Init => TypeOK /\ Requests
  BY TypeInit
<1>2. TypeOK /\ Requests /\ [Next]_vars => TypeOK' /\ Requests'
  BY TypeStep
<1> QED
  BY <1>1, <1>2, PTL DEF Spec

--------------------------------------------------------------------------------
Transactions == \A r \in Request : TransactionOK(r)

Records == \A r \in Request : RecordOK(r)

Answers == \A r \in Request : ReplyOK(r)

(* An open transaction keeps holding its own request's row and event.           *)
LEMMA TransactionStep ==
    ASSUME TypeOK, Requests, Transactions, Records, Answers, [Next]_vars
    PROVE  Transactions'
<1>1. CASE UNCHANGED vars
  BY <1>1 DEF vars, TypeOK, Requests, Transactions, Records, Answers, TransactionOK, RecordOK, ReplyOK, RequestOK, EventOf, NoTx, Failure, Success, Transaction
<1>2. CASE Next
  <2> SUFFICES ASSUME NEW r \in Request,
                      \/ ingest_call(r) \/ record_call(r) \/ Accident(r)
                      \/ ReleaseTx(r) \/ LateCommit(r)
                      \/ link_call_handler(r) \/ Admin(r)
               PROVE  Transactions'
    BY <1>2 DEF Next
  <2>1. ASSUME NEW c \in Cdr, NEW s \in Scope, RefuseNumbers(r, c, s)
        PROVE  Transactions'
    BY <2>1
    DEF RefuseNumbers, Arrive, Return, Goto, TypeOK, Requests, Transactions, Records, Answers, TransactionOK, RecordOK, ReplyOK, RequestOK, EventOf, NoTx, Failure, Success, Transaction
  <2>2. ASSUME NEW c \in Cdr, NEW s \in Scope, RefuseScope(r, c, s)
        PROVE  Transactions'
    BY <2>2
    DEF RefuseScope, Arrive, Return, Goto, TypeOK, Requests, Transactions, Records, Answers, TransactionOK, RecordOK, ReplyOK, RequestOK, EventOf, NoTx, Failure, Success, Transaction
  <2>3. ASSUME NEW c \in Cdr, NEW s \in Scope, Accept(r, c, s)
        PROVE  Transactions'
    BY <2>3
    DEF Accept, Arrive, Goto, TypeOK, Requests, Transactions, Records, Answers, TransactionOK, RecordOK, ReplyOK, RequestOK, EventOf, NoTx, Failure, Success, Transaction
  <2>4. ASSUME NEW id \in Request, ProbeHit(r, id)
        PROVE  Transactions'
    BY <2>4
    DEF ProbeHit, Return, Goto, TypeOK, Requests, Transactions, Records, Answers, TransactionOK, RecordOK, ReplyOK, RequestOK, EventOf, NoTx, Failure, Success, Transaction
  <2>5. ASSUME NEW id \in Request, ReprobeHit(r, id)
        PROVE  Transactions'
    BY <2>5
    DEF ReprobeHit, Return, Goto, TypeOK, Requests, Transactions, Records, Answers, TransactionOK, RecordOK, ReplyOK, RequestOK, EventOf, NoTx, Failure, Success, Transaction
  <2>6. ASSUME ProbeMiss(r)
        PROVE  Transactions'
    BY <2>6
    DEF ProbeMiss, Goto, TypeOK, Requests, Transactions, Records, Answers, TransactionOK, RecordOK, ReplyOK, RequestOK, EventOf, NoTx, Failure, Success, Transaction
  <2>7. ASSUME ReprobeMiss(r)
        PROVE  Transactions'
    BY <2>7
    DEF ReprobeMiss, Return, Goto, TypeOK, Requests, Transactions, Records, Answers, TransactionOK, RecordOK, ReplyOK, RequestOK, EventOf, NoTx, Failure, Success, Transaction
  <2>8. ASSUME Begin(r)
        PROVE  Transactions'
    BY <2>8
    DEF Begin, Goto, TypeOK, Requests, Transactions, Records, Answers, TransactionOK, RecordOK, ReplyOK, RequestOK, EventOf, NoTx, Failure, Success, Transaction
  <2>9. ASSUME InsertRejected(r)
        PROVE  Transactions'
    BY <2>9
    DEF InsertRejected, Return, Goto, TypeOK, Requests, Transactions, Records, Answers, TransactionOK, RecordOK, ReplyOK, RequestOK, EventOf, NoTx, Failure, Success, Transaction
  <2>10. ASSUME InsertLoses(r)
        PROVE  Transactions'
    BY <2>10
    DEF InsertLoses, Goto, TypeOK, Requests, Transactions, Records, Answers, TransactionOK, RecordOK, ReplyOK, RequestOK, EventOf, NoTx, Failure, Success, Transaction
  <2>11. ASSUME Insert(r)
        PROVE  Transactions'
    <3>1. NewCallRow(req[r].cdr, req[r].scope) # None
      BY <2>11, OwningCompanyOfUnit, NewCallRowIsRow, CdrAssumption, RequestAssumption
      DEF Insert, TypeOK, Requests, RequestOK, IngestCallRequest
    <3>2. calls[r] = None /\ outbox[r] = None /\ tx[r].event = None
      BY <2>11 DEF Insert, Records, RecordOK, Transactions, TransactionOK
    <3> QED
      BY <2>11, <3>1, <3>2
      DEF Insert, Goto, TypeOK, Transactions, TransactionOK, EventOf, Transaction
  <2>12. ASSUME Rollback(r)
        PROVE  Transactions'
    BY <2>12
    DEF Rollback, Goto, TypeOK, Requests, Transactions, Records, Answers, TransactionOK, RecordOK, ReplyOK, RequestOK, EventOf, NoTx, Failure, Success, Transaction
  <2>13. ASSUME Stage(r)
        PROVE  Transactions'
    <3>1. EventOf(r) # None
      BY <2>13, EventOfIsEvent, RequestAssumption DEF Stage, TypeOK, Requests, RequestOK
    <3>2. reply[r].result = "none"
      BY <2>13 DEF Stage, Answers, ReplyOK, NoReply
    <3> QED
      BY <2>13, <3>1, <3>2
      DEF Stage, Goto, TypeOK, Transactions, TransactionOK, EventOf, Transaction
  <2>14. ASSUME StageFails(r)
        PROVE  Transactions'
    BY <2>14
    DEF StageFails, Return, Goto, TypeOK, Requests, Transactions, Records, Answers, TransactionOK, RecordOK, ReplyOK, RequestOK, EventOf, NoTx, Failure, Success, Transaction
  <2>15. ASSUME Commit(r)
        PROVE  Transactions'
    BY <2>15
    DEF Commit, Apply, Goto, TypeOK, Requests, Transactions, Records, Answers, TransactionOK, RecordOK, ReplyOK, RequestOK, EventOf, NoTx, Failure, Success, Transaction
  <2>16. ASSUME Publish(r)
        PROVE  Transactions'
    BY <2>16
    DEF Publish, Return, Goto, TypeOK, Requests, Transactions, Records, Answers, TransactionOK, RecordOK, ReplyOK, RequestOK, EventOf, NoTx, Failure, Success, Transaction
  <2>17. ASSUME DbFails(r)
        PROVE  Transactions'
    BY <2>17
    DEF DbFails, Return, Goto, TypeOK, Requests, Transactions, Records, Answers, TransactionOK, RecordOK, ReplyOK, RequestOK, EventOf, NoTx, Failure, Success, Transaction
  <2>18. ASSUME Abandon(r)
        PROVE  Transactions'
    BY <2>18
    DEF Abandon, Return, Goto, TypeOK, Requests, Transactions, Records, Answers, TransactionOK, RecordOK, ReplyOK, RequestOK, EventOf, NoTx, Failure, Success, Transaction
  <2>19. ASSUME ReleaseTx(r)
        PROVE  Transactions'
    BY <2>19
    DEF ReleaseTx, TypeOK, Requests, Transactions, Records, Answers, TransactionOK, RecordOK, ReplyOK, RequestOK, EventOf, NoTx, Failure, Success, Transaction
  <2>20. ASSUME LateCommit(r)
        PROVE  Transactions'
    BY <2>20
    DEF LateCommit, Apply, TypeOK, Requests, Transactions, Records, Answers, TransactionOK, RecordOK, ReplyOK, RequestOK, EventOf, NoTx, Failure, Success, Transaction
  <2>21. ASSUME NEW s \in Scope, NEW subject \in Subject, link_call(s, r, subject)
        PROVE  Transactions'
    BY <2>21
    DEF link_call, TypeOK, Requests, Transactions, Records, Answers, TransactionOK, RecordOK, ReplyOK, RequestOK, EventOf, NoTx, Failure, Success, Transaction
  <2>22. ASSUME NEW deleted \in BOOLEAN, SetDeleted(r, deleted)
        PROVE  Transactions'
    BY <2>22
    DEF SetDeleted, TypeOK, Requests, Transactions, Records, Answers, TransactionOK, RecordOK, ReplyOK, RequestOK, EventOf, NoTx, Failure, Success, Transaction
  <2>23. ASSUME EmptyTrash(r)
        PROVE  Transactions'
    BY <2>23
    DEF EmptyTrash, TypeOK, Requests, Transactions, Records, Answers, TransactionOK, RecordOK, ReplyOK, RequestOK, EventOf, NoTx, Failure, Success, Transaction
  <2> QED
    BY <2>1, <2>2, <2>3, <2>4, <2>5, <2>6, <2>7, <2>8, <2>9, <2>10, <2>11, <2>12, <2>13, <2>14, <2>15, <2>16, <2>17, <2>18, <2>19, <2>20, <2>21, <2>22, <2>23
    DEF ingest_call, record_call, Accident, link_call_handler, Admin
<1> QED
  BY <1>1, <1>2

(* A committed row keeps its event and what its request asked for.              *)
LEMMA RecordStep ==
    ASSUME TypeOK, Requests, Transactions, Records, [Next]_vars
    PROVE  Records'
<1>1. CASE UNCHANGED vars
  BY <1>1 DEF vars, TypeOK, Requests, Transactions, Records, TransactionOK, RecordOK, RequestOK, EventOf, NewCallRow, Transaction
<1>2. CASE Next
  <2> SUFFICES ASSUME NEW r \in Request,
                      \/ ingest_call(r) \/ record_call(r) \/ Accident(r)
                      \/ ReleaseTx(r) \/ LateCommit(r)
                      \/ link_call_handler(r) \/ Admin(r)
               PROVE  Records'
    BY <1>2 DEF Next
  <2>1. ASSUME NEW c \in Cdr, NEW s \in Scope, RefuseNumbers(r, c, s)
        PROVE  Records'
    BY <2>1
    DEF RefuseNumbers, Arrive, Return, Goto, TypeOK, Requests, Transactions, Records, TransactionOK, RecordOK, RequestOK, EventOf, NewCallRow, Transaction
  <2>2. ASSUME NEW c \in Cdr, NEW s \in Scope, RefuseScope(r, c, s)
        PROVE  Records'
    BY <2>2
    DEF RefuseScope, Arrive, Return, Goto, TypeOK, Requests, Transactions, Records, TransactionOK, RecordOK, RequestOK, EventOf, NewCallRow, Transaction
  <2>3. ASSUME NEW c \in Cdr, NEW s \in Scope, Accept(r, c, s)
        PROVE  Records'
    BY <2>3
    DEF Accept, Arrive, Goto, TypeOK, Requests, Transactions, Records, TransactionOK, RecordOK, RequestOK, EventOf, NewCallRow, Transaction
  <2>4. ASSUME NEW id \in Request, ProbeHit(r, id)
        PROVE  Records'
    BY <2>4
    DEF ProbeHit, Return, Goto, TypeOK, Requests, Transactions, Records, TransactionOK, RecordOK, RequestOK, EventOf, NewCallRow, Transaction
  <2>5. ASSUME NEW id \in Request, ReprobeHit(r, id)
        PROVE  Records'
    BY <2>5
    DEF ReprobeHit, Return, Goto, TypeOK, Requests, Transactions, Records, TransactionOK, RecordOK, RequestOK, EventOf, NewCallRow, Transaction
  <2>6. ASSUME ProbeMiss(r)
        PROVE  Records'
    BY <2>6
    DEF ProbeMiss, Goto, TypeOK, Requests, Transactions, Records, TransactionOK, RecordOK, RequestOK, EventOf, NewCallRow, Transaction
  <2>7. ASSUME ReprobeMiss(r)
        PROVE  Records'
    BY <2>7
    DEF ReprobeMiss, Return, Goto, TypeOK, Requests, Transactions, Records, TransactionOK, RecordOK, RequestOK, EventOf, NewCallRow, Transaction
  <2>8. ASSUME Begin(r)
        PROVE  Records'
    BY <2>8
    DEF Begin, Goto, TypeOK, Requests, Transactions, Records, TransactionOK, RecordOK, RequestOK, EventOf, NewCallRow, Transaction
  <2>9. ASSUME InsertRejected(r)
        PROVE  Records'
    BY <2>9
    DEF InsertRejected, Return, Goto, TypeOK, Requests, Transactions, Records, TransactionOK, RecordOK, RequestOK, EventOf, NewCallRow, Transaction
  <2>10. ASSUME InsertLoses(r)
        PROVE  Records'
    BY <2>10
    DEF InsertLoses, Goto, TypeOK, Requests, Transactions, Records, TransactionOK, RecordOK, RequestOK, EventOf, NewCallRow, Transaction
  <2>11. ASSUME Insert(r)
        PROVE  Records'
    BY <2>11
    DEF Insert, Goto, TypeOK, Requests, Transactions, Records, TransactionOK, RecordOK, RequestOK, EventOf, NewCallRow, Transaction
  <2>12. ASSUME Rollback(r)
        PROVE  Records'
    BY <2>12
    DEF Rollback, Goto, TypeOK, Requests, Transactions, Records, TransactionOK, RecordOK, RequestOK, EventOf, NewCallRow, Transaction
  <2>13. ASSUME Stage(r)
        PROVE  Records'
    BY <2>13
    DEF Stage, Goto, TypeOK, Requests, Transactions, Records, TransactionOK, RecordOK, RequestOK, EventOf, NewCallRow, Transaction
  <2>14. ASSUME StageFails(r)
        PROVE  Records'
    BY <2>14
    DEF StageFails, Return, Goto, TypeOK, Requests, Transactions, Records, TransactionOK, RecordOK, RequestOK, EventOf, NewCallRow, Transaction
  <2>15. ASSUME Commit(r)
        PROVE  Records'
    <3>1. /\ tx[r].event # None /\ tx[r].event = EventOf(r)
          /\ tx[r].row # None /\ tx[r].row = NewCallRow(req[r].cdr, req[r].scope)
      BY <2>15 DEF Commit, Transactions, TransactionOK
    <3>2. /\ calls'[r] = NewCallRow(req[r].cdr, req[r].scope) /\ calls'[r] # None
          /\ outbox'[r] = EventOf(r) /\ outbox'[r] # None
          /\ pc'[r] \in {"publish", "done"} /\ req' = req
      BY <2>15, <3>1 DEF Commit, Apply, Goto, TypeOK
    <3>3. RecordOK(r)'
      BY <3>2 DEF RecordOK, EventOf, NewCallRow
    <3>4. ASSUME NEW q \in Request \ {r} PROVE RecordOK(q)'
      BY <2>15 DEF Commit, Apply, Goto, TypeOK, Records, RecordOK, EventOf
    <3> QED
      BY <3>3, <3>4 DEF Records
  <2>16. ASSUME Publish(r)
        PROVE  Records'
    BY <2>16
    DEF Publish, Return, Goto, TypeOK, Requests, Transactions, Records, TransactionOK, RecordOK, RequestOK, EventOf, NewCallRow, Transaction
  <2>17. ASSUME DbFails(r)
        PROVE  Records'
    BY <2>17
    DEF DbFails, Return, Goto, TypeOK, Requests, Transactions, Records, TransactionOK, RecordOK, RequestOK, EventOf, NewCallRow, Transaction
  <2>18. ASSUME Abandon(r)
        PROVE  Records'
    BY <2>18
    DEF Abandon, Return, Goto, TypeOK, Requests, Transactions, Records, TransactionOK, RecordOK, RequestOK, EventOf, NewCallRow, Transaction
  <2>19. ASSUME ReleaseTx(r)
        PROVE  Records'
    BY <2>19
    DEF ReleaseTx, TypeOK, Requests, Transactions, Records, TransactionOK, RecordOK, RequestOK, EventOf, NewCallRow, Transaction
  <2>20. ASSUME LateCommit(r)
        PROVE  Records'
    <3>1. /\ tx[r].event # None /\ tx[r].event = EventOf(r)
          /\ tx[r].row # None /\ tx[r].row = NewCallRow(req[r].cdr, req[r].scope)
      BY <2>20 DEF LateCommit, Transactions, TransactionOK
    <3>2. /\ calls'[r] = NewCallRow(req[r].cdr, req[r].scope) /\ calls'[r] # None
          /\ outbox'[r] = EventOf(r) /\ outbox'[r] # None
          /\ pc'[r] \in {"publish", "done"} /\ req' = req
      BY <2>20, <3>1 DEF LateCommit, Apply, Goto, TypeOK
    <3>3. RecordOK(r)'
      BY <3>2 DEF RecordOK, EventOf, NewCallRow
    <3>4. ASSUME NEW q \in Request \ {r} PROVE RecordOK(q)'
      BY <2>20 DEF LateCommit, Apply, Goto, TypeOK, Records, RecordOK, EventOf
    <3> QED
      BY <3>3, <3>4 DEF Records
  <2>21. ASSUME NEW s \in Scope, NEW subject \in Subject, link_call(s, r, subject)
        PROVE  Records'
    <3>1. calls'[r] # None /\ calls'[r] = [calls[r] EXCEPT !.subject = subject]
      BY <2>21, RequestAssumption DEF link_call, TypeOK, Row
    <3> QED
      BY <2>21, <3>1 DEF link_call, TypeOK, Records, RecordOK, EventOf, Row
  <2>22. ASSUME NEW deleted \in BOOLEAN, SetDeleted(r, deleted)
        PROVE  Records'
    BY <2>22
    DEF SetDeleted, TypeOK, Requests, Transactions, Records, TransactionOK, RecordOK, RequestOK, EventOf, NewCallRow, Transaction
  <2>23. ASSUME EmptyTrash(r)
        PROVE  Records'
    BY <2>23
    DEF EmptyTrash, TypeOK, Requests, Transactions, Records, TransactionOK, RecordOK, RequestOK, EventOf, NewCallRow, Transaction
  <2> QED
    BY <2>1, <2>2, <2>3, <2>4, <2>5, <2>6, <2>7, <2>8, <2>9, <2>10, <2>11, <2>12, <2>13, <2>14, <2>15, <2>16, <2>17, <2>18, <2>19, <2>20, <2>21, <2>22, <2>23
    DEF ingest_call, record_call, Accident, link_call_handler, Admin
<1> QED
  BY <1>1, <1>2

(* What a handler returned stays true of the tables.                            *)
LEMMA AnswerStep ==
    ASSUME TypeOK, Requests, Transactions, Records, Answers, [Next]_vars
    PROVE  Answers'
<1>1. CASE UNCHANGED vars
  BY <1>1 DEF vars, TypeOK, Requests, Transactions, Records, Answers, TransactionOK, RecordOK, ReplyOK, RequestOK, Acknowledged, Answer, Failure, Success, NoReply, Reply, CallOutcome, Transaction
<1>2. CASE Next
  <2> SUFFICES ASSUME NEW r \in Request,
                      \/ ingest_call(r) \/ record_call(r) \/ Accident(r)
                      \/ ReleaseTx(r) \/ LateCommit(r)
                      \/ link_call_handler(r) \/ Admin(r)
               PROVE  Answers'
    BY <1>2 DEF Next
  <2>1. ASSUME NEW c \in Cdr, NEW s \in Scope, RefuseNumbers(r, c, s)
        PROVE  Answers'
    BY <2>1
    DEF RefuseNumbers, Arrive, Return, Goto, TypeOK, Requests, Transactions, Records, Answers, TransactionOK, RecordOK, ReplyOK, RequestOK, Acknowledged, Answer, Failure, Success, NoReply, Reply, CallOutcome, Transaction
  <2>2. ASSUME NEW c \in Cdr, NEW s \in Scope, RefuseScope(r, c, s)
        PROVE  Answers'
    BY <2>2
    DEF RefuseScope, Arrive, Return, Goto, TypeOK, Requests, Transactions, Records, Answers, TransactionOK, RecordOK, ReplyOK, RequestOK, Acknowledged, Answer, Failure, Success, NoReply, Reply, CallOutcome, Transaction
  <2>3. ASSUME NEW c \in Cdr, NEW s \in Scope, Accept(r, c, s)
        PROVE  Answers'
    BY <2>3
    DEF Accept, Arrive, Goto, TypeOK, Requests, Transactions, Records, Answers, TransactionOK, RecordOK, ReplyOK, RequestOK, Acknowledged, Answer, Failure, Success, NoReply, Reply, CallOutcome, Transaction
  <2>4. ASSUME NEW id \in Request, ProbeHit(r, id)
        PROVE  Answers'
    <3>1. /\ calls[id] # None /\ outbox[id] # None /\ outbox[r] = None
          /\ calls[id].cdr = req[id].cdr /\ calls[id].unit = req[id].scope
          /\ calls[id].duration_seconds = Duration(req[id].cdr)
          /\ calls[id].cdr.external_id = req[r].cdr.external_id
          /\ Fenced => calls[id].unit = req[r].scope
      BY <2>4 DEF ProbeHit, find_outcome_by_external_id, Visible, Records, RecordOK
    <3>2. /\ reply' = [reply EXCEPT ![r] = Success(id, calls[id].duration_seconds, TRUE)]
          /\ pc' = [pc EXCEPT ![r] = "done"]
          /\ UNCHANGED <<req, outbox>>
      BY <2>4 DEF ProbeHit, Return, Goto
    <3> QED
      BY <3>1, <3>2 DEF TypeOK, Answers, ReplyOK, Acknowledged, Answer, Success, NoReply
  <2>5. ASSUME NEW id \in Request, ReprobeHit(r, id)
        PROVE  Answers'
    <3>1. /\ calls[id] # None /\ outbox[id] # None /\ outbox[r] = None
          /\ calls[id].cdr = req[id].cdr /\ calls[id].unit = req[id].scope
          /\ calls[id].duration_seconds = Duration(req[id].cdr)
          /\ calls[id].cdr.external_id = req[r].cdr.external_id
          /\ Fenced => calls[id].unit = req[r].scope
      BY <2>5 DEF ReprobeHit, find_outcome_by_external_id, Visible, Records, RecordOK
    <3>2. /\ reply' = [reply EXCEPT ![r] = Success(id, calls[id].duration_seconds, TRUE)]
          /\ pc' = [pc EXCEPT ![r] = "done"]
          /\ UNCHANGED <<req, outbox>>
      BY <2>5 DEF ReprobeHit, Return, Goto
    <3> QED
      BY <3>1, <3>2 DEF TypeOK, Answers, ReplyOK, Acknowledged, Answer, Success, NoReply
  <2>6. ASSUME ProbeMiss(r)
        PROVE  Answers'
    BY <2>6
    DEF ProbeMiss, Goto, TypeOK, Requests, Transactions, Records, Answers, TransactionOK, RecordOK, ReplyOK, RequestOK, Acknowledged, Answer, Failure, Success, NoReply, Reply, CallOutcome, Transaction
  <2>7. ASSUME ReprobeMiss(r)
        PROVE  Answers'
    BY <2>7
    DEF ReprobeMiss, Return, Goto, TypeOK, Requests, Transactions, Records, Answers, TransactionOK, RecordOK, ReplyOK, RequestOK, Acknowledged, Answer, Failure, Success, NoReply, Reply, CallOutcome, Transaction
  <2>8. ASSUME Begin(r)
        PROVE  Answers'
    BY <2>8
    DEF Begin, Goto, TypeOK, Requests, Transactions, Records, Answers, TransactionOK, RecordOK, ReplyOK, RequestOK, Acknowledged, Answer, Failure, Success, NoReply, Reply, CallOutcome, Transaction
  <2>9. ASSUME InsertRejected(r)
        PROVE  Answers'
    BY <2>9
    DEF InsertRejected, Return, Goto, TypeOK, Requests, Transactions, Records, Answers, TransactionOK, RecordOK, ReplyOK, RequestOK, Acknowledged, Answer, Failure, Success, NoReply, Reply, CallOutcome, Transaction
  <2>10. ASSUME InsertLoses(r)
        PROVE  Answers'
    BY <2>10
    DEF InsertLoses, Goto, TypeOK, Requests, Transactions, Records, Answers, TransactionOK, RecordOK, ReplyOK, RequestOK, Acknowledged, Answer, Failure, Success, NoReply, Reply, CallOutcome, Transaction
  <2>11. ASSUME Insert(r)
        PROVE  Answers'
    BY <2>11
    DEF Insert, Goto, TypeOK, Requests, Transactions, Records, Answers, TransactionOK, RecordOK, ReplyOK, RequestOK, Acknowledged, Answer, Failure, Success, NoReply, Reply, CallOutcome, Transaction
  <2>12. ASSUME Rollback(r)
        PROVE  Answers'
    BY <2>12
    DEF Rollback, Goto, TypeOK, Requests, Transactions, Records, Answers, TransactionOK, RecordOK, ReplyOK, RequestOK, Acknowledged, Answer, Failure, Success, NoReply, Reply, CallOutcome, Transaction
  <2>13. ASSUME Stage(r)
        PROVE  Answers'
    BY <2>13
    DEF Stage, Goto, TypeOK, Requests, Transactions, Records, Answers, TransactionOK, RecordOK, ReplyOK, RequestOK, Acknowledged, Answer, Failure, Success, NoReply, Reply, CallOutcome, Transaction
  <2>14. ASSUME StageFails(r)
        PROVE  Answers'
    BY <2>14
    DEF StageFails, Return, Goto, TypeOK, Requests, Transactions, Records, Answers, TransactionOK, RecordOK, ReplyOK, RequestOK, Acknowledged, Answer, Failure, Success, NoReply, Reply, CallOutcome, Transaction
  <2>15. ASSUME Commit(r)
        PROVE  Answers'
    BY <2>15
    DEF Commit, Apply, Goto, TypeOK, Requests, Transactions, Records, Answers, TransactionOK, RecordOK, ReplyOK, RequestOK, Acknowledged, Answer, Failure, Success, NoReply, Reply, CallOutcome, Transaction
  <2>16. ASSUME Publish(r)
        PROVE  Answers'
    BY <2>16
    DEF Publish, Return, Goto, TypeOK, Requests, Transactions, Records, Answers, TransactionOK, RecordOK, ReplyOK, RequestOK, Acknowledged, Answer, Failure, Success, NoReply, Reply, CallOutcome, Transaction
  <2>17. ASSUME DbFails(r)
        PROVE  Answers'
    BY <2>17
    DEF DbFails, Return, Goto, TypeOK, Requests, Transactions, Records, Answers, TransactionOK, RecordOK, ReplyOK, RequestOK, Acknowledged, Answer, Failure, Success, NoReply, Reply, CallOutcome, Transaction
  <2>18. ASSUME Abandon(r)
        PROVE  Answers'
    BY <2>18
    DEF Abandon, Return, Goto, TypeOK, Requests, Transactions, Records, Answers, TransactionOK, RecordOK, ReplyOK, RequestOK, Acknowledged, Answer, Failure, Success, NoReply, Reply, CallOutcome, Transaction
  <2>19. ASSUME ReleaseTx(r)
        PROVE  Answers'
    BY <2>19
    DEF ReleaseTx, TypeOK, Requests, Transactions, Records, Answers, TransactionOK, RecordOK, ReplyOK, RequestOK, Acknowledged, Answer, Failure, Success, NoReply, Reply, CallOutcome, Transaction
  <2>20. ASSUME LateCommit(r)
        PROVE  Answers'
    BY <2>20
    DEF LateCommit, Apply, TypeOK, Requests, Transactions, Records, Answers, TransactionOK, RecordOK, ReplyOK, RequestOK, Acknowledged, Answer, Failure, Success, NoReply, Reply, CallOutcome, Transaction
  <2>21. ASSUME NEW s \in Scope, NEW subject \in Subject, link_call(s, r, subject)
        PROVE  Answers'
    BY <2>21
    DEF link_call, TypeOK, Requests, Transactions, Records, Answers, TransactionOK, RecordOK, ReplyOK, RequestOK, Acknowledged, Answer, Failure, Success, NoReply, Reply, CallOutcome, Transaction
  <2>22. ASSUME NEW deleted \in BOOLEAN, SetDeleted(r, deleted)
        PROVE  Answers'
    BY <2>22
    DEF SetDeleted, TypeOK, Requests, Transactions, Records, Answers, TransactionOK, RecordOK, ReplyOK, RequestOK, Acknowledged, Answer, Failure, Success, NoReply, Reply, CallOutcome, Transaction
  <2>23. ASSUME EmptyTrash(r)
        PROVE  Answers'
    BY <2>23
    DEF EmptyTrash, TypeOK, Requests, Transactions, Records, Answers, TransactionOK, RecordOK, ReplyOK, RequestOK, Acknowledged, Answer, Failure, Success, NoReply, Reply, CallOutcome, Transaction
  <2> QED
    BY <2>1, <2>2, <2>3, <2>4, <2>5, <2>6, <2>7, <2>8, <2>9, <2>10, <2>11, <2>12, <2>13, <2>14, <2>15, <2>16, <2>17, <2>18, <2>19, <2>20, <2>21, <2>22, <2>23
    DEF ingest_call, record_call, Accident, link_call_handler, Admin
<1> QED
  BY <1>1, <1>2

(* What the in-process sink was given stays in the outbox.                      *)
LEMMA PublishedStep ==
    ASSUME TypeOK, Requests, Transactions, Records, PublishedIsStaged, [Next]_vars
    PROVE  PublishedIsStaged'
<1>1. CASE UNCHANGED vars
  BY <1>1 DEF vars, TypeOK, PublishedIsStaged, Transactions, TransactionOK, Records, RecordOK, EventOf, RoutingEvent
<1>2. CASE Next
  <2> SUFFICES ASSUME NEW r \in Request,
                      \/ ingest_call(r) \/ record_call(r) \/ Accident(r)
                      \/ ReleaseTx(r) \/ LateCommit(r)
                      \/ link_call_handler(r) \/ Admin(r)
               PROVE  PublishedIsStaged'
    BY <1>2 DEF Next
  <2>1. ASSUME NEW c \in Cdr, NEW s \in Scope, RefuseNumbers(r, c, s)
        PROVE  PublishedIsStaged'
    BY <2>1
    DEF RefuseNumbers, Arrive, Return, Goto, TypeOK, PublishedIsStaged, Transactions, TransactionOK, Records, RecordOK, EventOf, RoutingEvent
  <2>2. ASSUME NEW c \in Cdr, NEW s \in Scope, RefuseScope(r, c, s)
        PROVE  PublishedIsStaged'
    BY <2>2
    DEF RefuseScope, Arrive, Return, Goto, TypeOK, PublishedIsStaged, Transactions, TransactionOK, Records, RecordOK, EventOf, RoutingEvent
  <2>3. ASSUME NEW c \in Cdr, NEW s \in Scope, Accept(r, c, s)
        PROVE  PublishedIsStaged'
    BY <2>3
    DEF Accept, Arrive, Goto, TypeOK, PublishedIsStaged, Transactions, TransactionOK, Records, RecordOK, EventOf, RoutingEvent
  <2>4. ASSUME NEW id \in Request, ProbeHit(r, id)
        PROVE  PublishedIsStaged'
    BY <2>4
    DEF ProbeHit, Return, Goto, TypeOK, PublishedIsStaged, Transactions, TransactionOK, Records, RecordOK, EventOf, RoutingEvent
  <2>5. ASSUME NEW id \in Request, ReprobeHit(r, id)
        PROVE  PublishedIsStaged'
    BY <2>5
    DEF ReprobeHit, Return, Goto, TypeOK, PublishedIsStaged, Transactions, TransactionOK, Records, RecordOK, EventOf, RoutingEvent
  <2>6. ASSUME ProbeMiss(r)
        PROVE  PublishedIsStaged'
    BY <2>6
    DEF ProbeMiss, Goto, TypeOK, PublishedIsStaged, Transactions, TransactionOK, Records, RecordOK, EventOf, RoutingEvent
  <2>7. ASSUME ReprobeMiss(r)
        PROVE  PublishedIsStaged'
    BY <2>7
    DEF ReprobeMiss, Return, Goto, TypeOK, PublishedIsStaged, Transactions, TransactionOK, Records, RecordOK, EventOf, RoutingEvent
  <2>8. ASSUME Begin(r)
        PROVE  PublishedIsStaged'
    BY <2>8
    DEF Begin, Goto, TypeOK, PublishedIsStaged, Transactions, TransactionOK, Records, RecordOK, EventOf, RoutingEvent
  <2>9. ASSUME InsertRejected(r)
        PROVE  PublishedIsStaged'
    BY <2>9
    DEF InsertRejected, Return, Goto, TypeOK, PublishedIsStaged, Transactions, TransactionOK, Records, RecordOK, EventOf, RoutingEvent
  <2>10. ASSUME InsertLoses(r)
        PROVE  PublishedIsStaged'
    BY <2>10
    DEF InsertLoses, Goto, TypeOK, PublishedIsStaged, Transactions, TransactionOK, Records, RecordOK, EventOf, RoutingEvent
  <2>11. ASSUME Insert(r)
        PROVE  PublishedIsStaged'
    BY <2>11
    DEF Insert, Goto, TypeOK, PublishedIsStaged, Transactions, TransactionOK, Records, RecordOK, EventOf, RoutingEvent
  <2>12. ASSUME Rollback(r)
        PROVE  PublishedIsStaged'
    BY <2>12
    DEF Rollback, Goto, TypeOK, PublishedIsStaged, Transactions, TransactionOK, Records, RecordOK, EventOf, RoutingEvent
  <2>13. ASSUME Stage(r)
        PROVE  PublishedIsStaged'
    BY <2>13
    DEF Stage, Goto, TypeOK, PublishedIsStaged, Transactions, TransactionOK, Records, RecordOK, EventOf, RoutingEvent
  <2>14. ASSUME StageFails(r)
        PROVE  PublishedIsStaged'
    BY <2>14
    DEF StageFails, Return, Goto, TypeOK, PublishedIsStaged, Transactions, TransactionOK, Records, RecordOK, EventOf, RoutingEvent
  <2>15. ASSUME Commit(r)
        PROVE  PublishedIsStaged'
    <3>1. outbox[r] = None
      BY <2>15 DEF Commit, Transactions, TransactionOK
    <3>2. ASSUME NEW e \in published PROVE e.call_id # r
      BY <3>1, RequestAssumption DEF TypeOK, PublishedIsStaged
    <3> QED
      BY <2>15, <3>2 DEF Commit, Apply, TypeOK, PublishedIsStaged
  <2>16. ASSUME Publish(r)
        PROVE  PublishedIsStaged'
    BY <2>16
    DEF Publish, Return, Goto, TypeOK, PublishedIsStaged, Transactions, TransactionOK, Records, RecordOK, EventOf, RoutingEvent
  <2>17. ASSUME DbFails(r)
        PROVE  PublishedIsStaged'
    BY <2>17
    DEF DbFails, Return, Goto, TypeOK, PublishedIsStaged, Transactions, TransactionOK, Records, RecordOK, EventOf, RoutingEvent
  <2>18. ASSUME Abandon(r)
        PROVE  PublishedIsStaged'
    BY <2>18
    DEF Abandon, Return, Goto, TypeOK, PublishedIsStaged, Transactions, TransactionOK, Records, RecordOK, EventOf, RoutingEvent
  <2>19. ASSUME ReleaseTx(r)
        PROVE  PublishedIsStaged'
    BY <2>19
    DEF ReleaseTx, TypeOK, PublishedIsStaged, Transactions, TransactionOK, Records, RecordOK, EventOf, RoutingEvent
  <2>20. ASSUME LateCommit(r)
        PROVE  PublishedIsStaged'
    <3>1. outbox[r] = None
      BY <2>20 DEF LateCommit, Transactions, TransactionOK
    <3>2. ASSUME NEW e \in published PROVE e.call_id # r
      BY <3>1, RequestAssumption DEF TypeOK, PublishedIsStaged
    <3> QED
      BY <2>20, <3>2 DEF LateCommit, Apply, TypeOK, PublishedIsStaged
  <2>21. ASSUME NEW s \in Scope, NEW subject \in Subject, link_call(s, r, subject)
        PROVE  PublishedIsStaged'
    BY <2>21
    DEF link_call, TypeOK, PublishedIsStaged, Transactions, TransactionOK, Records, RecordOK, EventOf, RoutingEvent
  <2>22. ASSUME NEW deleted \in BOOLEAN, SetDeleted(r, deleted)
        PROVE  PublishedIsStaged'
    BY <2>22
    DEF SetDeleted, TypeOK, PublishedIsStaged, Transactions, TransactionOK, Records, RecordOK, EventOf, RoutingEvent
  <2>23. ASSUME EmptyTrash(r)
        PROVE  PublishedIsStaged'
    BY <2>23
    DEF EmptyTrash, TypeOK, PublishedIsStaged, Transactions, TransactionOK, Records, RecordOK, EventOf, RoutingEvent
  <2> QED
    BY <2>1, <2>2, <2>3, <2>4, <2>5, <2>6, <2>7, <2>8, <2>9, <2>10, <2>11, <2>12, <2>13, <2>14, <2>15, <2>16, <2>17, <2>18, <2>19, <2>20, <2>21, <2>22, <2>23
    DEF ingest_call, record_call, Accident, link_call_handler, Admin
<1> QED
  BY <1>1, <1>2

--------------------------------------------------------------------------------
KeysKept(q) ==
    \A row \in Held(q)' : \E old \in Held(q) : old.cdr = row.cdr /\ old.unit = row.unit

(* A step that brings no request a key it did not hold keeps the keys disjoint. *)
LEMMA KeysKeptDisjoint ==
    ASSUME KeysDisjoint, \A q \in Request : KeysKept(q)
    PROVE  KeysDisjoint'
  BY DEF KeysDisjoint, KeysKept, SameProviderCall

(* Moving one's own row from the transaction to the table brings no new key.    *)
LEMMA ApplyKeysKept ==
    ASSUME TypeOK, NEW r \in Request, Apply(r)
    PROVE  \A q \in Request : KeysKept(q)
<1>1. \A q \in Request : Held(q)' \subseteq Held(q)
  BY DEF Apply, Held, TypeOK, NoTx
<1> QED
  BY <1>1 DEF KeysKept

(* No step lets two requests hold one key: an insert takes only a free one.     *)
LEMMA KeysStep ==
    ASSUME TypeOK, Records, KeysDisjoint, [Next]_vars
    PROVE  KeysDisjoint'
<1>1. CASE UNCHANGED vars
  BY <1>1 DEF vars, KeysDisjoint, Held
<1>2. CASE Next
  <2> SUFFICES ASSUME NEW r \in Request,
                      \/ ingest_call(r) \/ record_call(r) \/ Accident(r)
                      \/ ReleaseTx(r) \/ LateCommit(r)
                      \/ link_call_handler(r) \/ Admin(r)
               PROVE  KeysDisjoint'
    BY <1>2 DEF Next
  <2>1. ASSUME NEW c \in Cdr, NEW s \in Scope, RefuseNumbers(r, c, s)
        PROVE  KeysDisjoint'
    BY <2>1 DEF RefuseNumbers, Arrive, Return, Goto, KeysDisjoint, Held
  <2>2. ASSUME NEW c \in Cdr, NEW s \in Scope, RefuseScope(r, c, s)
        PROVE  KeysDisjoint'
    BY <2>2 DEF RefuseScope, Arrive, Return, Goto, KeysDisjoint, Held
  <2>3. ASSUME NEW c \in Cdr, NEW s \in Scope, Accept(r, c, s)
        PROVE  KeysDisjoint'
    BY <2>3 DEF Accept, Arrive, Goto, KeysDisjoint, Held
  <2>4. ASSUME NEW id \in Request, ProbeHit(r, id)
        PROVE  KeysDisjoint'
    BY <2>4 DEF ProbeHit, Return, Goto, KeysDisjoint, Held
  <2>5. ASSUME NEW id \in Request, ReprobeHit(r, id)
        PROVE  KeysDisjoint'
    BY <2>5 DEF ReprobeHit, Return, Goto, KeysDisjoint, Held
  <2>6. ASSUME ProbeMiss(r)
        PROVE  KeysDisjoint'
    BY <2>6 DEF ProbeMiss, Goto, KeysDisjoint, Held
  <2>7. ASSUME ReprobeMiss(r)
        PROVE  KeysDisjoint'
    BY <2>7 DEF ReprobeMiss, Return, Goto, KeysDisjoint, Held
  <2>8. ASSUME Begin(r)
        PROVE  KeysDisjoint'
    <3>1. \A q \in Request : Held(q)' = Held(q)
      BY <2>8 DEF Begin, Held, TypeOK, Transaction
    <3> QED
      BY <3>1 DEF KeysDisjoint
  <2>9. ASSUME InsertRejected(r)
        PROVE  KeysDisjoint'
    BY <2>9 DEF InsertRejected, Return, Goto, KeysDisjoint, Held
  <2>10. ASSUME InsertLoses(r)
        PROVE  KeysDisjoint'
    BY <2>10 DEF InsertLoses, Goto, KeysDisjoint, Held
  <2>11. ASSUME Insert(r)
        PROVE  KeysDisjoint'
    <3> DEFINE new == NewCallRow(req[r].cdr, req[r].scope)
    <3>1. /\ tx'[r].row = new /\ UNCHANGED calls
          /\ \A q \in Request \ {r} : tx'[q] = tx[q]
      BY <2>11 DEF Insert, TypeOK, Transaction
    <3>2. calls[r] = None
      BY <2>11 DEF Insert, Records, RecordOK
    <3>3. Held(r)' \subseteq {new}
      BY <3>1, <3>2 DEF Held
    <3>4. \A q \in Request \ {r} : Held(q)' = Held(q)
      BY <3>1 DEF Held
    <3>5. ASSUME PerUnitUnique, NEW q \in Request \ {r}, NEW row \in Held(q)
          PROVE  ~SameProviderCall(row, new) /\ ~SameProviderCall(new, row)
      <4>1. ~SameProviderCall(row, new)
        BY <2>11, <3>5 DEF Insert, CommittedConflict, PendingConflict, Held
      <4> QED
        BY <4>1, SameProviderCallSymmetric
    <3> HIDE DEF new
    <3> QED
      BY <3>3, <3>4, <3>5 DEF KeysDisjoint
  <2>12. ASSUME Rollback(r)
        PROVE  KeysDisjoint'
    <3>1. \A q \in Request : Held(q)' \subseteq Held(q)
      BY <2>12 DEF Rollback, Held, TypeOK, NoTx
    <3> QED
      BY <3>1 DEF KeysDisjoint
  <2>13. ASSUME Stage(r)
        PROVE  KeysDisjoint'
    <3>1. \A q \in Request : Held(q)' = Held(q)
      BY <2>13 DEF Stage, Held, TypeOK, Transaction
    <3> QED
      BY <3>1 DEF KeysDisjoint
  <2>14. ASSUME StageFails(r)
        PROVE  KeysDisjoint'
    BY <2>14 DEF StageFails, Return, Goto, KeysDisjoint, Held
  <2>15. ASSUME Commit(r)
        PROVE  KeysDisjoint'
    BY <2>15, ApplyKeysKept, KeysKeptDisjoint DEF Commit
  <2>16. ASSUME Publish(r)
        PROVE  KeysDisjoint'
    BY <2>16 DEF Publish, Return, Goto, KeysDisjoint, Held
  <2>17. ASSUME DbFails(r)
        PROVE  KeysDisjoint'
    BY <2>17 DEF DbFails, Return, Goto, KeysDisjoint, Held
  <2>18. ASSUME Abandon(r)
        PROVE  KeysDisjoint'
    BY <2>18 DEF Abandon, Return, Goto, KeysDisjoint, Held
  <2>19. ASSUME ReleaseTx(r)
        PROVE  KeysDisjoint'
    <3>1. \A q \in Request : Held(q)' \subseteq Held(q)
      BY <2>19 DEF ReleaseTx, Held, TypeOK, NoTx
    <3> QED
      BY <3>1 DEF KeysDisjoint
  <2>20. ASSUME LateCommit(r)
        PROVE  KeysDisjoint'
    BY <2>20, ApplyKeysKept, KeysKeptDisjoint DEF LateCommit
  <2>21. ASSUME NEW s \in Scope, NEW subject \in Subject, link_call(s, r, subject)
        PROVE  KeysDisjoint'
    <3>1. /\ calls'[r].cdr = calls[r].cdr /\ calls'[r].unit = calls[r].unit
          /\ \A q \in Request \ {r} : calls'[q] = calls[q]
          /\ calls[r] # None /\ tx' = tx
      BY <2>21 DEF link_call, TypeOK, Row
    <3>2. \A q \in Request : KeysKept(q)
      BY <3>1 DEF KeysKept, Held
    <3> QED
      BY <3>2, KeysKeptDisjoint
  <2>22. ASSUME NEW deleted \in BOOLEAN, SetDeleted(r, deleted)
        PROVE  KeysDisjoint'
    <3>1. /\ calls'[r].cdr = calls[r].cdr /\ calls'[r].unit = calls[r].unit
          /\ \A q \in Request \ {r} : calls'[q] = calls[q]
          /\ calls[r] # None /\ tx' = tx
      BY <2>22 DEF SetDeleted, TypeOK, Row
    <3>2. \A q \in Request : KeysKept(q)
      BY <3>1 DEF KeysKept, Held
    <3> QED
      BY <3>2, KeysKeptDisjoint
  <2>23. ASSUME EmptyTrash(r)
        PROVE  KeysDisjoint'
    <3>1. \A q \in Request : Held(q)' \subseteq Held(q)
      BY <2>23 DEF EmptyTrash, Held, TypeOK, NoTx
    <3> QED
      BY <3>1 DEF KeysDisjoint
  <2> QED
    BY <2>1, <2>2, <2>3, <2>4, <2>5, <2>6, <2>7, <2>8, <2>9, <2>10, <2>11, <2>12, <2>13, <2>14, <2>15, <2>16, <2>17, <2>18, <2>19, <2>20, <2>21, <2>22, <2>23
    DEF ingest_call, record_call, Accident, link_call_handler, Admin
<1> QED
  BY <1>1, <1>2

--------------------------------------------------------------------------------
(* The inductive invariant holds initially ...                                  *)
LEMMA InvariantInit == Init => IInv
<1> SUFFICES ASSUME Init PROVE IInv
  OBVIOUS
<1>1. TypeOK /\ Requests
  BY TypeInit
<1>2. Transactions /\ Records /\ Answers
  BY DEF Init, Transactions, Records, Answers, TransactionOK, RecordOK, ReplyOK,
     Acknowledged, NoTx, NoReply
<1>3. KeysDisjoint /\ PublishedIsStaged
  BY DEF Init, KeysDisjoint, Held, NoTx, PublishedIsStaged
<1> QED
  BY <1>1, <1>2, <1>3 DEF IInv, Requests, Transactions, Records, Answers

(* ... and is preserved by every step.                                          *)
LEMMA InvariantStep == IInv /\ [Next]_vars => IInv'
<1> SUFFICES ASSUME IInv, [Next]_vars PROVE IInv'
  OBVIOUS
<1>1. TypeOK /\ Requests /\ Transactions /\ Records /\ Answers /\ KeysDisjoint /\ PublishedIsStaged
  BY DEF IInv, Requests, Transactions, Records, Answers
<1>2. TypeOK' /\ Requests'
  BY <1>1, TypeStep
<1>3. Transactions' /\ Records' /\ Answers'
  BY <1>1, TransactionStep, RecordStep, AnswerStep
<1>4. KeysDisjoint' /\ PublishedIsStaged'
  BY <1>1, KeysStep, PublishedStep
<1> QED
  BY <1>2, <1>3, <1>4 DEF IInv, Requests, Transactions, Records, Answers

(* Every reachable state of the service satisfies the inductive invariant.      *)
THEOREM Invariance == Spec => []IInv
  BY InvariantInit, InvariantStep, PTL DEF Spec

--------------------------------------------------------------------------------
(* Disjoint keys leave one committed row per provider id.                       *)
LEMMA OneCallFromInvariant ==
    ASSUME IInv, PerUnitUnique
    PROVE  OneCallPerProviderId
  BY DEF IInv, KeysDisjoint, Held, OneCallPerProviderId

(* Rows are never purged where the generic endpoints are not mounted.           *)
LEMMA RecordedFromInvariant ==
    ASSUME IInv, ~AdminCrud
    PROVE  AcknowledgedIsRecorded
<1> SUFFICES ASSUME NEW r \in Request, Acknowledged(r)
             PROVE  LET row == calls[Answer(r).call_id]
                    IN  /\ row # None
                        /\ row.cdr.external_id = req[r].cdr.external_id
                        /\ Fenced => row.unit = req[r].scope
                        /\ row.duration_seconds = Answer(r).duration_seconds
  BY DEF AcknowledgedIsRecorded
<1>1. Answer(r).call_id \in Request
  BY DEF IInv, TypeOK, Reply, CallOutcome, Acknowledged, Answer
<1>2. ReplyOK(r) /\ RecordOK(Answer(r).call_id)
  BY <1>1 DEF IInv
<1> QED
  BY <1>2 DEF ReplyOK, RecordOK

(* With the composing service's unique installed, a CDR is recorded once        *)
(* however many redeliveries race, for any number of requests, units and CDRs   *)
(* (record_call, insert_cdr).                                                   *)
THEOREM RecordedOnce ==
    ASSUME PerUnitUnique
    PROVE  Spec => []OneCallPerProviderId
<1>1. IInv => OneCallPerProviderId
  BY OneCallFromInvariant
<1> QED
  BY <1>1, Invariance, PTL

(* Without the generic endpoints, an Ok answer names a committed row of the     *)
(* caller's unit with the caller's provider id and the talk time it was told.   *)
THEOREM OkMeansRecorded ==
    ASSUME ~AdminCrud
    PROVE  Spec => []AcknowledgedIsRecorded
<1>1. IInv => AcknowledgedIsRecorded
  BY RecordedFromInvariant
<1> QED
  BY <1>1, Invariance, PTL

(* In every posture, an Ok answer names a call whose event is in the outbox,    *)
(* owned by the caller's company where the fence is up.                         *)
THEOREM OkMeansRouted == Spec => []AcknowledgedIsRouted
<1>1. ASSUME IInv PROVE AcknowledgedIsRouted
  <2> SUFFICES ASSUME NEW r \in Request, Acknowledged(r)
               PROVE  LET event == outbox[Answer(r).call_id]
                      IN  /\ event # None
                          /\ Fenced => event.company_id = owning_company(req[r].scope)
    BY DEF AcknowledgedIsRouted
  <2>1. Answer(r).call_id \in Request
    BY <1>1 DEF IInv, TypeOK, Reply, CallOutcome, Acknowledged, Answer
  <2>2. ReplyOK(r) /\ RecordOK(Answer(r).call_id)
    BY <1>1, <2>1 DEF IInv
  <2> QED
    BY <2>2 DEF ReplyOK, RecordOK, EventOf, RoutingEvent
<1> QED
  BY <1>1, Invariance, PTL

(* The in-process sink is never given an event the outbox does not hold.        *)
THEOREM StagedBeforePublished == Spec => []PublishedIsStaged
<1>1. IInv => PublishedIsStaged
  BY DEF IInv
<1> QED
  BY <1>1, Invariance, PTL

(* A refused request never leaves a call or an event behind, not even later.    *)
THEOREM RefusalIsClean == Spec => []RefusedLeavesNothing
<1>1. IInv => RefusedLeavesNothing
  BY DEF IInv, RefusedLeavesNothing, ReplyOK, RecordOK
<1> QED
  BY <1>1, Invariance, PTL

(* In every posture, a committed row and its event tell one story: a callback   *)
(* is owed exactly for the rows stored as missed and never answered, which have *)
(* no talk time, every other row's event carries the row's, and the event is    *)
(* owned by the company of the row's unit (insert_cdr, record_call).            *)
THEOREM RowsAndEventsAgree == Spec => []RowsMatchTheirEvents
<1>1. ASSUME IInv PROVE RowsMatchTheirEvents
  <2> SUFFICES ASSUME NEW r \in Request, calls[r] # None
               PROVE  LET row      == calls[r]
                          event    == outbox[r]
                          callback == event.event_type = "MissedCall"
                      IN  /\ event # None
                          /\ event.company_id = LegacyCompany[row.unit]
                          /\ callback <=> row.cdr.status = "missed" /\ row.cdr.answered_at = None
                          /\ callback => row.duration_seconds = 0
                          /\ ~callback => event.duration_seconds = row.duration_seconds
    BY DEF RowsMatchTheirEvents
  <2> DEFINE c == calls[r].cdr
             company == owning_company(req[r].scope)
  <2>1. RecordOK(r) /\ calls[r] \in Row
    BY <1>1 DEF IInv, TypeOK
  <2>2. /\ outbox[r] # None
        /\ outbox[r] = RoutingEvent(r, company, c)
        /\ calls[r].duration_seconds = Duration(c)
    BY <2>1 DEF RecordOK, EventOf
  <2>3. company = LegacyCompany[calls[r].unit]
    BY <2>1, NoneAssumption DEF RecordOK, owning_company, Row
  <2> HIDE DEF c, company
  <2>4. /\ outbox[r].company_id = company
        /\ outbox[r].event_type = "MissedCall" <=> GenuinelyMissed(c)
        /\ ~GenuinelyMissed(c) => outbox[r].duration_seconds = Duration(c)
    BY <2>2 DEF RoutingEvent
  <2>5. GenuinelyMissed(c) => Duration(c) = 0
    BY DEF GenuinelyMissed, Duration, talk_time
  <2>6. QED
    BY <2>2, <2>3, <2>4, <2>5 DEF GenuinelyMissed, c
<1> QED
  BY <1>1, Invariance, PTL

(* All redeliveries of a CDR are answered with one call and one talk time.      *)
THEOREM RedeliveriesGetOneCall ==
    ASSUME PerUnitUnique, ~AdminCrud
    PROVE  Spec => []RedeliveriesAgree
<1>1. ASSUME IInv PROVE RedeliveriesAgree
  <2>1. OneCallPerProviderId /\ AcknowledgedIsRecorded
    BY <1>1, OneCallFromInvariant, RecordedFromInvariant
  <2> SUFFICES ASSUME NEW r \in Request, NEW q \in Request,
                      Acknowledged(r), Acknowledged(q), SameDelivery(r, q)
               PROVE  /\ Answer(r).call_id = Answer(q).call_id
                      /\ Answer(r).duration_seconds = Answer(q).duration_seconds
    BY DEF RedeliveriesAgree
  <2>2. Answer(r).call_id \in Request /\ Answer(q).call_id \in Request
    BY <1>1 DEF IInv, TypeOK, Reply, CallOutcome, Acknowledged, Answer
  <2>3. SameProviderCall(calls[Answer(r).call_id], calls[Answer(q).call_id])
    BY <2>1, PostureAssumption DEF AcknowledgedIsRecorded, SameDelivery, SameProviderCall
  <2>4. Answer(r).call_id = Answer(q).call_id
    BY <2>1, <2>2, <2>3 DEF OneCallPerProviderId, AcknowledgedIsRecorded
  <2> QED
    BY <2>1, <2>4 DEF AcknowledgedIsRecorded
<1> QED
  BY <1>1, Invariance, PTL

(* At most one delivery of a CDR is told it was the first.                      *)
THEOREM FirstDeliveryIsUnique ==
    ASSUME PerUnitUnique, ~AdminCrud
    PROVE  Spec => []OneOriginal
<1>1. RedeliveriesAgree /\ IInv => OneOriginal
  BY DEF RedeliveriesAgree, IInv, ReplyOK, OneOriginal
<1> QED
  BY <1>1, Invariance, RedeliveriesGetOneCall, PTL

--------------------------------------------------------------------------------
(* The fence set on the transaction is the company that owns the event it        *)
(* stages: WITH CHECK never turns a call down (bind_org_scope_on, enqueue).      *)
OwnEventsPassTheFence ==
    \A r \in Request : pc[r] = "stage" => OutboxFence(EventOf(r), tx[r].bound)

(* Who an insert waits for is past every wait of its own, and there is one of    *)
(* them: no chain and no cycle of requests waits for each other's keys           *)
(* (insert_cdr; the transaction takes no other lock).                            *)
WaitersWaitForOneRunner ==
    \A r, q \in Request :
        r # q /\ tx[q].row # None /\ SameProviderCall(tx[q].row, NewCallRow(req[r].cdr, req[r].scope)) =>
            /\ pc[q] \in {"stage", "commit", "done"}
            /\ PerUnitUnique => \A p \in Request : Held(p) # {} =>
                 p = q \/ \A row \in Held(p) : ~SameProviderCall(row, NewCallRow(req[r].cdr, req[r].scope))

(* In a unit a provider's call is routed twice only if the generic surface has   *)
(* purged one of the rows (record_call's dedup, empty trash).                    *)
RoutedTwiceOnlyAfterPurge ==
    \A r, q \in Request :
        r # q /\ outbox[r] # None /\ outbox[q] # None /\ SameDelivery(r, q) =>
            AdminCrud /\ (calls[r] = None \/ calls[q] = None)

(* The outbox's WITH CHECK accepts every event record_call stages, in every      *)
(* posture: a call is never lost to the fence (bind_org_scope_on, enqueue).      *)
THEOREM FenceAcceptsOwnEvents == Spec => []OwnEventsPassTheFence
<1>1. IInv => OwnEventsPassTheFence
  BY DEF IInv, TransactionOK, OwnEventsPassTheFence, OutboxFence, EventOf, RoutingEvent
<1> QED
  BY <1>1, Invariance, PTL

(* No two requests ever wait for each other's uncommitted rows, in chains or     *)
(* cycles of any length (insert_cdr).                                            *)
THEOREM NoWaitingChains == Spec => []WaitersWaitForOneRunner
<1>1. ASSUME IInv, NEW r \in Request, NEW q \in Request, r # q, tx[q].row # None,
             SameProviderCall(tx[q].row, NewCallRow(req[r].cdr, req[r].scope))
      PROVE  /\ pc[q] \in {"stage", "commit", "done"}
             /\ PerUnitUnique => \A p \in Request : Held(p) # {} =>
                  p = q \/ \A row \in Held(p) : ~SameProviderCall(row, NewCallRow(req[r].cdr, req[r].scope))
  <2>1. pc[q] \in {"stage", "commit", "done"} /\ tx[q].row \in Held(q)
    BY <1>1 DEF IInv, TransactionOK, Held
  <2>2. ASSUME PerUnitUnique, NEW p \in Request, p # q, NEW row \in Held(p)
        PROVE  ~SameProviderCall(row, NewCallRow(req[r].cdr, req[r].scope))
    <3>1. ~SameProviderCall(row, tx[q].row)
      BY <1>1, <2>1, <2>2 DEF IInv, KeysDisjoint
    <3> QED
      BY <1>1, <3>1 DEF SameProviderCall
  <2> QED
    BY <2>1, <2>2
<1>2. IInv => WaitersWaitForOneRunner
  BY <1>1 DEF WaitersWaitForOneRunner
<1> QED
  BY <1>2, Invariance, PTL

(* With the composing service's unique, one event per provider call and unit as  *)
(* long as no row is purged; without the generic endpoints, always (record_call).*)
THEOREM RoutedOnce ==
    ASSUME PerUnitUnique
    PROVE  Spec => []RoutedTwiceOnlyAfterPurge
<1>1. ASSUME IInv, NEW r \in Request, NEW q \in Request,
             r # q, outbox[r] # None, outbox[q] # None, SameDelivery(r, q)
      PROVE  AdminCrud /\ (calls[r] = None \/ calls[q] = None)
  <2>1. RecordOK(r) /\ RecordOK(q)
    BY <1>1 DEF IInv
  <2>2. calls[r] # None /\ calls[q] # None => SameProviderCall(calls[r], calls[q])
    BY <1>1, <2>1 DEF RecordOK, SameDelivery, SameProviderCall
  <2>3. ~(calls[r] # None /\ calls[q] # None)
    BY <1>1, <2>2, OneCallFromInvariant DEF OneCallPerProviderId
  <2> QED
    BY <1>1, <2>1, <2>3, PostureAssumption DEF RecordOK
<1>2. IInv => RoutedTwiceOnlyAfterPurge
  BY <1>1 DEF RoutedTwiceOnlyAfterPurge
<1> QED
  BY <1>2, Invariance, PTL

--------------------------------------------------------------------------------
(* How far a handler is from its return at most (record_call's awaits).          *)
AwaitsLeft(label) ==
    CASE label = "idle"     -> 9
      [] label = "probe"    -> 8
      [] label = "begin"    -> 7
      [] label = "insert"   -> 6
      [] label = "rollback" -> 5
      [] label = "reprobe"  -> 4
      [] label = "stage"    -> 4
      [] label = "commit"   -> 3
      [] label = "publish"  -> 2

(* What a request may still cost: its awaits, then the end of a transaction its  *)
(* handler left open.                                                            *)
Work(r) == IF pc[r] = "done" THEN IF tx[r] = NoTx THEN 0 ELSE 1 ELSE AwaitsLeft(pc[r])

(* No retry loop and no rework: whatever fails, loses, is dropped or commits      *)
(* late, each step of the write path brings one request closer to its end and    *)
(* sends no other back; links and generic endpoints cost the requests nothing    *)
(* (record_call, sqlx's rollback on drop).                                       *)
UsesUpWork ==
    \/ UNCHANGED <<pc, tx>>
    \/ \E r \in Request :
         /\ Work(r)' < Work(r)
         /\ \A q \in Request \ {r} : Work(q)' = Work(q)

EveryStepUsesUpWork == [][UsesUpWork]_vars

(* A step that moves one handler forward leaves the work of the others alone.    *)
LEMMA OneHandlerMoves ==
    ASSUME TypeOK, NEW r \in Request, NEW label \in Label, pc' = [pc EXCEPT ![r] = label],
           tx' = tx \/ \E t : tx' = [tx EXCEPT ![r] = t]
    PROVE  /\ pc'[r] = label
           /\ \A q \in Request \ {r} : Work(q)' = Work(q)
  BY DEF TypeOK, Work

(* The awaits of record_call are passed at most once each, so a run of any        *)
(* number of requests takes a bounded number of steps of the write path.         *)
THEOREM WorkRunsOut == Spec => EveryStepUsesUpWork
<1>1. ASSUME TypeOK, NEW r \in Request, NEW label \in Label \ {"idle"},
             pc[r] # "done", pc' = [pc EXCEPT ![r] = label],
             tx' = tx \/ \E t : tx' = [tx EXCEPT ![r] = t],
             label # "done" => AwaitsLeft(label) < AwaitsLeft(pc[r])
      PROVE  /\ Work(r)' < Work(r)
             /\ \A q \in Request \ {r} : Work(q)' = Work(q)
  <2>1. pc'[r] = label /\ \A q \in Request \ {r} : Work(q)' = Work(q)
    BY <1>1, OneHandlerMoves
  <2>2. Work(r) = AwaitsLeft(pc[r]) /\ AwaitsLeft(pc[r]) \in 2 .. 9
    BY <1>1 DEF Work, AwaitsLeft, TypeOK, Label
  <2>3. Work(r)' = IF label = "done" THEN IF tx'[r] = NoTx THEN 0 ELSE 1 ELSE AwaitsLeft(label)
    BY <2>1 DEF Work
  <2> QED
    BY <1>1, <2>1, <2>2, <2>3
<1>2. /\ AwaitsLeft("begin") < AwaitsLeft("idle")
      /\ AwaitsLeft("probe") < AwaitsLeft("idle")
      /\ AwaitsLeft("begin") < AwaitsLeft("probe")
      /\ AwaitsLeft("insert") < AwaitsLeft("begin")
      /\ AwaitsLeft("rollback") < AwaitsLeft("insert")
      /\ AwaitsLeft("stage") < AwaitsLeft("insert")
      /\ AwaitsLeft("reprobe") < AwaitsLeft("rollback")
      /\ AwaitsLeft("commit") < AwaitsLeft("stage")
      /\ AwaitsLeft("publish") < AwaitsLeft("commit")
      /\ {"begin", "probe", "insert", "rollback", "reprobe", "stage", "commit", "publish", "done"}
           \subseteq Label \ {"idle"}
  BY DEF AwaitsLeft, Label
<1>3. ASSUME TypeOK, NEW r \in Request, ingest_call(r) \/ record_call(r) \/ Accident(r)
      PROVE  \E q \in Request : Work(q)' < Work(q) /\ \A p \in Request \ {q} : Work(p)' = Work(p)
  <2> SUFFICES Work(r)' < Work(r) /\ \A p \in Request \ {r} : Work(p)' = Work(p)
    OBVIOUS
  <2>1. CASE \/ \E id \in Request : ProbeHit(r, id) \/ ReprobeHit(r, id)
             \/ ReprobeMiss(r) \/ InsertRejected(r) \/ StageFails(r) \/ Publish(r) \/ Accident(r)
    <3>1. pc[r] # "done" /\ pc' = [pc EXCEPT ![r] = "done"] /\ tx' = tx
      BY <2>1 DEF ProbeHit, ReprobeHit, ReprobeMiss, InsertRejected, StageFails, Publish, Accident,
         DbFails, Abandon, Return, Goto
    <3> QED
      BY <1>1, <1>2, <1>3, <3>1
  <2>2. CASE ingest_call(r)
    <3>1. /\ pc[r] = "idle" /\ tx' = tx
          /\ \/ pc' = [pc EXCEPT ![r] = "done"]
             \/ pc' = [pc EXCEPT ![r] = "begin"]
             \/ pc' = [pc EXCEPT ![r] = "probe"]
      BY <2>2 DEF ingest_call, RefuseNumbers, RefuseScope, Accept, Arrive, Return, Goto
    <3>2. CASE pc' = [pc EXCEPT ![r] = "done"]
      BY <1>1, <1>2, <1>3, <3>1, <3>2
    <3>3. CASE pc' = [pc EXCEPT ![r] = "begin"]
      BY <1>1, <1>2, <1>3, <3>1, <3>3
    <3>4. CASE pc' = [pc EXCEPT ![r] = "probe"]
      BY <1>1, <1>2, <1>3, <3>1, <3>4
    <3> QED
      BY <3>1, <3>2, <3>3, <3>4
  <2>3. CASE ProbeMiss(r)
    <3>1. pc[r] = "probe" /\ pc' = [pc EXCEPT ![r] = "begin"] /\ tx' = tx
      BY <2>3 DEF ProbeMiss, Goto
    <3> QED
      BY <1>1, <1>2, <1>3, <3>1
  <2>4. CASE Begin(r)
    <3>1. pc[r] = "begin" /\ pc' = [pc EXCEPT ![r] = "insert"] /\ \E t : tx' = [tx EXCEPT ![r] = t]
      BY <2>4 DEF Begin, Goto
    <3> QED
      BY <1>1, <1>2, <1>3, <3>1
  <2>5. CASE InsertLoses(r)
    <3>1. pc[r] = "insert" /\ pc' = [pc EXCEPT ![r] = "rollback"] /\ tx' = tx
      BY <2>5 DEF InsertLoses, Goto
    <3> QED
      BY <1>1, <1>2, <1>3, <3>1
  <2>6. CASE Insert(r)
    <3>1. pc[r] = "insert" /\ pc' = [pc EXCEPT ![r] = "stage"] /\ \E t : tx' = [tx EXCEPT ![r] = t]
      BY <2>6 DEF Insert, Goto
    <3> QED
      BY <1>1, <1>2, <1>3, <3>1
  <2>7. CASE Rollback(r)
    <3>1. pc[r] = "rollback" /\ pc' = [pc EXCEPT ![r] = "reprobe"] /\ \E t : tx' = [tx EXCEPT ![r] = t]
      BY <2>7 DEF Rollback, Goto
    <3> QED
      BY <1>1, <1>2, <1>3, <3>1
  <2>8. CASE Stage(r)
    <3>1. pc[r] = "stage" /\ pc' = [pc EXCEPT ![r] = "commit"] /\ \E t : tx' = [tx EXCEPT ![r] = t]
      BY <2>8 DEF Stage, Goto
    <3> QED
      BY <1>1, <1>2, <1>3, <3>1
  <2>9. CASE Commit(r)
    <3>1. pc[r] = "commit" /\ pc' = [pc EXCEPT ![r] = "publish"] /\ \E t : tx' = [tx EXCEPT ![r] = t]
      BY <2>9 DEF Commit, Apply, Goto
    <3> QED
      BY <1>1, <1>2, <1>3, <3>1
  <2> QED
    BY <1>3, <2>1, <2>2, <2>3, <2>4, <2>5, <2>6, <2>7, <2>8, <2>9 DEF record_call
<1>4. ASSUME TypeOK, NEW r \in Request, ReleaseTx(r) \/ LateCommit(r)
      PROVE  \E q \in Request : Work(q)' < Work(q) /\ \A p \in Request \ {q} : Work(p)' = Work(p)
  <2>1. pc' = pc /\ pc[r] = "done" /\ tx[r] # NoTx /\ tx' = [tx EXCEPT ![r] = NoTx]
    BY <1>4 DEF ReleaseTx, LateCommit, Apply, NoTx
  <2>2. Work(r) = 1 /\ Work(r)' = 0 /\ \A p \in Request \ {r} : Work(p)' = Work(p)
    BY <1>4, <2>1 DEF Work, TypeOK
  <2> QED
    BY <2>2
<1>5. TypeOK /\ [Next]_vars => [UsesUpWork]_vars
  <2> SUFFICES ASSUME TypeOK, Next PROVE UsesUpWork
    BY DEF UsesUpWork
  <2>1. ASSUME NEW r \in Request, link_call_handler(r) \/ Admin(r)
        PROVE  UNCHANGED <<pc, tx>>
    BY <2>1 DEF link_call_handler, link_call, Admin, SetDeleted, EmptyTrash
  <2> QED
    BY <1>3, <1>4, <2>1 DEF Next, UsesUpWork
<1> QED
  BY <1>5, TypeCorrect, PTL DEF Spec, EveryStepUsesUpWork

================================================================================

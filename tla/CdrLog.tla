-------------------------------- MODULE CdrLog --------------------------------
(* What the CDR log promises, with no transactions, probes or locks: a request  *)
(* is asked, its call and its routing event are recorded in one atomic step,    *)
(* and the request is answered once.  TelephonyWriteService implements it.      *)
EXTENDS CallRecord

CONSTANTS
    Request,        \* deliveries of CDRs; a request's own identity is the fresh
                    \* call id it records under
    Cdr,            \* the CDRs that may be delivered
    LegacyCompany,  \* the legacy company of each unit, None if it has none
    Fenced,         \* rows of other units are invisible
    PerUnitUnique,  \* (unit, external_id) is unique
    AdminCrud       \* the generic delete / restore / empty-trash endpoints are mounted

VARIABLES
    asked,      \* what each request asked to record, None until it arrives
    log,        \* the recorded calls
    routed,     \* the routing event owed for each call ever recorded
    answered    \* the answer each request got

vars == <<asked, log, routed, answered>>

NoAnswer == [result |-> "none", outcome |-> None]

Failure(result) == [result |-> result, outcome |-> None]

Success(id, duration, duplicate) ==
    [result  |-> "ok",
     outcome |-> [call_id |-> id, duration_seconds |-> duration,
                  duplicate |-> duplicate]]

Refusals == {Failure("Invalid"), Failure("OrgScopeRequired")}

Accidents == {Failure("Db"), Failure("lost")}

(* A request that may be recorded: it names both numbers and its scope names a  *)
(* company to own the event.                                                    *)
Recordable(request) ==
    /\ ~NumbersMissing(request.cdr)
    /\ request.scope # NoScope
    /\ LegacyCompany[request.scope] # None

Init ==
    /\ asked = [r \in Request |-> None]
    /\ log = [r \in Request |-> None]
    /\ routed = [r \in Request |-> None]
    /\ answered = [r \in Request |-> NoAnswer]

Open(r) == asked[r] # None /\ answered[r] = NoAnswer

Ask(r, c, s) ==
    /\ asked[r] = None
    /\ asked' = [asked EXCEPT ![r] = [cdr |-> c, scope |-> s]]
    /\ \/ Recordable(asked'[r]) /\ UNCHANGED answered
       \/ ~Recordable(asked'[r]) /\ \E a \in Refusals : answered' = [answered EXCEPT ![r] = a]
    /\ UNCHANGED <<log, routed>>

(* The call and its event appear together, once, unless the unit already holds  *)
(* the provider's id; perhaps only after the request was given up as failed.    *)
Record(r) ==
    /\ Open(r) \/ answered[r] \in Accidents
    /\ routed[r] = None
    /\ LET row == NewCallRow(asked[r].cdr, asked[r].scope)
       IN  /\ PerUnitUnique => \A id \in Request :
                 log[id] # None => ~SameProviderCall(log[id], row)
           /\ log' = [log EXCEPT ![r] = row]
    /\ routed' = [routed EXCEPT ![r] =
           RoutingEvent(r, LegacyCompany[asked[r].scope], asked[r].cdr)]
    /\ UNCHANGED <<asked, answered>>

Acknowledge(r) ==
    /\ Open(r)
    /\ routed[r] # None
    /\ answered' = [answered EXCEPT ![r] = Success(r, Duration(asked[r].cdr), FALSE)]
    /\ UNCHANGED <<asked, log, routed>>

(* A redelivery is answered with a call that holds its provider id, in its own  *)
(* unit where the fence is up.                                                  *)
AcknowledgeDuplicate(r, id) ==
    /\ Open(r)
    /\ routed[r] = None
    /\ log[id] # None
    /\ asked[r].cdr.external_id # None
    /\ log[id].cdr.external_id = asked[r].cdr.external_id
    /\ Fenced => log[id].unit = asked[r].scope
    /\ answered' = [answered EXCEPT ![r] = Success(id, log[id].duration_seconds, TRUE)]
    /\ UNCHANGED <<asked, log, routed>>

(* A request refused as the caller's fault has left nothing behind; a failed or *)
(* abandoned one may have.                                                      *)
Refuse(r) ==
    /\ Open(r)
    /\ routed[r] = None
    /\ \E a \in Refusals : answered' = [answered EXCEPT ![r] = a]
    /\ UNCHANGED <<asked, log, routed>>

Fail(r) ==
    /\ Open(r)
    /\ \E a \in Accidents : answered' = [answered EXCEPT ![r] = a]
    /\ UNCHANGED <<asked, log, routed>>

Link(id, subject) ==
    /\ log[id] # None
    /\ ~log[id].deleted
    /\ log' = [log EXCEPT ![id].subject = subject]
    /\ UNCHANGED <<asked, routed, answered>>

SetDeleted(id, deleted) ==
    /\ AdminCrud
    /\ log[id] # None
    /\ log' = [log EXCEPT ![id].deleted = deleted]
    /\ UNCHANGED <<asked, routed, answered>>

(* Emptying the trash removes the row, never the event already owed for it. *)
Purge(id) ==
    /\ AdminCrud
    /\ log[id] # None
    /\ log[id].deleted
    /\ log' = [log EXCEPT ![id] = None]
    /\ UNCHANGED <<asked, routed, answered>>

Next ==
    \E r \in Request :
        \/ \E c \in Cdr, s \in Unit \cup {NoScope} : Ask(r, c, s)
        \/ Record(r)
        \/ Acknowledge(r)
        \/ \E id \in Request : AcknowledgeDuplicate(r, id)
        \/ Refuse(r)
        \/ Fail(r)
        \/ \E subject \in Subject : Link(r, subject)
        \/ \E deleted \in BOOLEAN : SetDeleted(r, deleted)
        \/ Purge(r)

Spec == Init /\ [][Next]_vars
================================================================================

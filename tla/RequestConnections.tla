--------------------------- MODULE RequestConnections ---------------------------
(* Which connection each statement of a request runs on.  The middleware may bind *)
(* a request to a scope and a connection of its own; scoped statements ride that  *)
(* connection, record_call's transaction takes another one from the pool the      *)
(* request names, and what is not scoped takes one for a single statement.  A     *)
(* handler that holds its own connection while it waits for the transaction's is  *)
(* in the way of the others, and the pool's acquire timeout is all that ends it.  *)
(* What the statements read and write is left to TelephonyWriteService.           *)
CONSTANTS
    Handler,    \* requests
    Pool,       \* connection pools: the boot pool and the tenants'
    Boot,       \* the pool the service was built with
    Conn,       \* connections
    PoolOf,     \* the pool of each connection
    Unit,       \* org units a scope may be bound to
    NoScope,    \* no fence variables
    Arrival,    \* the requests that may arrive
    None        \* no connection, no pool, no request

Scope == Unit \cup {NoScope}

(* An operation, the pool the request names, the scope it is bound to. *)
Request == [operation : {"record", "link"}, pool : Pool, scope : Scope]

(* What a handler holds a connection for: the whole request, the transaction,    *)
(* one statement.                                                                *)
Role == {"own", "tx", "lease"}

ASSUME PoolAssumption == Boot \in Pool /\ PoolOf \in [Conn -> Pool] /\ None \notin Pool

ASSUME ConnAssumption == None \notin Conn

ASSUME ScopeAssumption == NoScope \notin Unit

ASSUME ArrivalAssumption == Arrival \subseteq Request /\ None \notin Request

VARIABLES
    pc,         \* where each handler is
    req,        \* its request
    hold,       \* the connections it holds
    session     \* the fence variables set on each connection

vars == <<pc, req, hold, session>>

Free(c) == \A h \in Handler, role \in Role : hold[h][role] # c

(* Statements outside record_call's transaction. *)
Lookups == {"probe", "reprobe", "link"}

(* Mutant: the statement takes a fresh connection whatever the request has.      *)
Needs_Raw(h) ==
    IF pc[h] \in {"dedicate", "begin"} THEN req[h].pool
    ELSE IF pc[h] \in Lookups /\ hold[h]["lease"] = None
    THEN IF pc[h] = "link" THEN Boot ELSE req[h].pool
    ELSE None

(* The pool a handler must have a connection of before it can go on: none for a  *)
(* statement that rides the request's own connection.                            *)
Needs(h) ==
    IF pc[h] \in {"dedicate", "begin"} THEN req[h].pool
    ELSE IF pc[h] \in Lookups /\ hold[h]["own"] = None /\ hold[h]["lease"] = None
    THEN IF pc[h] = "link" THEN Boot ELSE req[h].pool
    ELSE None

Acquires(h, role, c) ==
    /\ Free(c)
    /\ Needs(h) = PoolOf[c]
    /\ hold' = [hold EXCEPT ![h][role] = c]

(* A connection goes back to its pool; the variables a transaction set end with   *)
(* it, and the middleware resets its own.                                        *)
GiveBack(h, role) ==
    /\ hold' = [hold EXCEPT ![h][role] = None]
    /\ session' = [c \in Conn |-> IF c = hold[h][role] THEN NoScope ELSE session[c]]

Goto(h, label) == pc' = [pc EXCEPT ![h] = label]

--------------------------------------------------------------------------------
Init ==
    /\ pc = [h \in Handler |-> "idle"]
    /\ req = [h \in Handler |-> None]
    /\ hold = [h \in Handler |-> [role \in Role |-> None]]
    /\ session = [c \in Conn |-> NoScope]

(* The middleware resolves a scope, or none, and binds a connection, or none. *)
Arrive(h, request) ==
    /\ pc[h] = "idle"
    /\ req' = [req EXCEPT ![h] = request]
    /\ \/ Goto(h, "handle")
       \/ request.scope # NoScope /\ Goto(h, "dedicate")
    /\ UNCHANGED <<hold, session>>

Dedicate(h, c) ==
    /\ pc[h] = "dedicate"
    /\ Acquires(h, "own", c)
    /\ session' = [session EXCEPT ![c] = req[h].scope]
    /\ Goto(h, "handle")
    /\ UNCHANGED req

(* record_call refuses blank numbers and a missing scope; a CDR without a         *)
(* provider id is not looked up.                                                 *)
ingest_call(h) ==
    /\ pc[h] = "handle"
    /\ req[h].operation = "record"
    /\ \/ Goto(h, "done")
       \/ req[h].scope # NoScope /\ \E label \in {"probe", "begin"} : Goto(h, label)
    /\ UNCHANGED <<req, hold, session>>

link_call_handler(h) ==
    /\ pc[h] = "handle"
    /\ req[h].operation = "link"
    /\ Goto(h, "link")
    /\ UNCHANGED <<req, hold, session>>

(* No connection bound: one is taken for the statement alone. *)
Lease(h, c) ==
    /\ pc[h] \in Lookups
    /\ Acquires(h, "lease", c)
    /\ UNCHANGED <<pc, req, session>>

(* The lookup answers, or finds nothing and a transaction is begun; the second    *)
(* lookup and the link answer.                                                   *)
Lookup(h) ==
    /\ pc[h] \in Lookups
    /\ Needs(h) = None
    /\ \/ Goto(h, "done")
       \/ pc[h] = "probe" /\ Goto(h, "begin")
    /\ GiveBack(h, "lease")
    /\ UNCHANGED req

(* Mutant: the transaction is begun on the service's own pool.                   *)
Begin_BootPool(h, c) ==
    /\ pc[h] = "begin"
    /\ Free(c)
    /\ PoolOf[c] = Boot
    /\ hold' = [hold EXCEPT ![h]["tx"] = c]
    /\ Goto(h, "bind")
    /\ UNCHANGED <<req, session>>

(* pool.begin(). *)
Begin(h, c) ==
    /\ pc[h] = "begin"
    /\ Acquires(h, "tx", c)
    /\ Goto(h, "bind")
    /\ UNCHANGED <<req, session>>

bind_org_scope_on(h) ==
    /\ pc[h] = "bind"
    /\ session' = [session EXCEPT ![hold[h]["tx"]] = req[h].scope]
    /\ Goto(h, "write")
    /\ UNCHANGED <<req, hold>>

(* The insert and the stage succeed, and so does the commit. *)
Commit(h) ==
    /\ pc[h] = "write"
    /\ GiveBack(h, "tx")
    /\ Goto(h, "done")
    /\ UNCHANGED req

(* Mutant: the connection goes back with the loser's variables on it.            *)
Rollback_KeepsScope(h) ==
    /\ pc[h] = "write"
    /\ hold' = [hold EXCEPT ![h]["tx"] = None]
    /\ Goto(h, "reprobe")
    /\ UNCHANGED <<req, session>>

(* The insert lost the race for the provider's id. *)
Rollback(h) ==
    /\ pc[h] = "write"
    /\ GiveBack(h, "tx")
    /\ Goto(h, "reprobe")
    /\ UNCHANGED req

(* Mutant: acquiring a connection never gives up.                                *)
AcquireTimesOut_Never(h) == FALSE /\ UNCHANGED vars

(* pool.acquire gives up: Db, 500. *)
AcquireTimesOut(h) ==
    /\ Needs(h) # None
    /\ \A c \in Conn : PoolOf[c] = Needs(h) => ~Free(c)
    /\ Goto(h, "done")
    /\ UNCHANGED <<req, hold, session>>

(* A statement fails and "?" returns, or the caller disconnects. *)
Fail(h) ==
    /\ pc[h] \notin {"idle", "done"}
    /\ Goto(h, "done")
    /\ UNCHANGED <<req, hold, session>>

(* Mutant: a dropped transaction keeps its connection.                           *)
Release_KeepsTx(h) ==
    /\ pc[h] = "done"
    /\ \E role \in {"own", "lease"} : hold[h][role] # None /\ GiveBack(h, role)
    /\ UNCHANGED <<pc, req>>

(* What the handler still held when it returned goes back: its own connection,   *)
(* and whatever an early return or a drop left in its hands.                     *)
Release(h) ==
    /\ pc[h] = "done"
    /\ \E role \in Role : hold[h][role] # None /\ GiveBack(h, role)
    /\ UNCHANGED <<pc, req>>

Step(h) ==
    \/ \E c \in Conn : Dedicate(h, c) \/ Lease(h, c) \/ Begin(h, c)
    \/ ingest_call(h) \/ link_call_handler(h)
    \/ Lookup(h)
    \/ bind_org_scope_on(h) \/ Commit(h) \/ Rollback(h)

Next ==
    \E h \in Handler :
        \/ \E request \in Arrival : Arrive(h, request)
        \/ Step(h)
        \/ AcquireTimesOut(h)
        \/ Fail(h)
        \/ Release(h)

Spec == Init /\ [][Next]_vars

(* The runtime polls what is ready, statements are answered, an acquire times     *)
(* out, and what a finished handler held is returned.  No one is promised a       *)
(* connection.                                                                   *)
Fairness == \A h \in Handler : WF_vars(Step(h)) /\ WF_vars(AcquireTimesOut(h)) /\ WF_vars(Release(h))

FairSpec == Spec /\ Fairness

--------------------------------------------------------------------------------
Label == {"idle", "dedicate", "handle", "probe", "begin", "bind", "write", "reprobe", "link", "done"}

(* Type invariant of the handlers and the connections. *)
TypeOK ==
    /\ pc \in [Handler -> Label]
    /\ req \in [Handler -> Request \cup {None}]
    /\ hold \in [Handler -> [Role -> Conn \cup {None}]]
    /\ session \in [Conn -> Scope]

(* The connection the handler's next statement runs on. *)
Riding(h) ==
    IF pc[h] = "write" THEN hold[h]["tx"]
    ELSE IF pc[h] \in Lookups
    THEN IF hold[h]["lease"] # None THEN hold[h]["lease"] ELSE hold[h]["own"]
    ELSE None

(* The statement is link_call's, and the request has no connection of its own.    *)
Astray(h) == pc[h] = "link" /\ hold[h]["own"] = None

(* No statement runs where another tenant's rows would pass for its own: each one *)
(* runs in the database of its request's tenant and under the request's scope or  *)
(* none, and under that scope if it belongs to a transaction or the request has a *)
(* connection of its own.  The exception is a link without one: it runs on the    *)
(* boot pool, whatever the request's is, and under no scope (record_call's `pool` *)
(* and bind, the scoped lookups, link_call).                                     *)
StatementsKnowTheirTenant ==
    \A h \in Handler : Riding(h) # None =>
        /\ PoolOf[Riding(h)] = IF Astray(h) THEN Boot ELSE req[h].pool
        /\ session[Riding(h)] \in IF Astray(h) THEN {NoScope} ELSE {NoScope, req[h].scope}
        /\ hold[h]["own"] # None \/ pc[h] = "write" => session[Riding(h)] = req[h].scope

(* Fence variables never outlive their request: a connection carries a scope only *)
(* while a handler bound to that scope holds it, and none when it is free for the  *)
(* next one (bind_org_scope_on, commit, rollback and every early return).         *)
ScopeDiesWithItsRequest ==
    \A c \in Conn : session[c] # NoScope =>
        \E h \in Handler : (\E role \in Role : hold[h][role] = c) /\ session[c] = req[h].scope

(* A handler that is not waiting for a connection of the pool it holds one of. *)
Moving(h) == pc[h] # "idle" /\ Needs(h) = None

(* The only way requests starve each other: all connections of the pool are bound *)
(* to requests that wait for a second one to begin their transaction.  One more   *)
(* connection than requests with one of their own, and somebody always moves      *)
(* (pool.begin() under a bound scope).                                           *)
OnlyBeginStarves ==
    \A c \in Conn, g \in Handler :
        Needs(g) = PoolOf[c] =>
            \/ Free(c)
            \/ \E h \in Handler, role \in Role : hold[h][role] = c /\ Moving(h)
            \/ \E h \in Handler : /\ hold[h]["own"] = c
                                  /\ pc[h] = "begin"
                                  /\ req[h].pool = PoolOf[c]

(* Every request is answered, also when all of them hold a connection and wait    *)
(* for another (record_call, link_call).                                         *)
EveryHandlerReturns == \A h \in Handler : pc[h] # "idle" ~> pc[h] = "done"

(* Every connection comes back to its pool, wherever its handler stopped.         *)
EveryConnectionIsReturned == \A c \in Conn : ~Free(c) ~> Free(c)

(* No connection is held twice. *)
OneHolder ==
    \A h, g \in Handler, role, other \in Role :
        hold[h][role] # None /\ hold[h][role] = hold[g][other] => h = g /\ role = other

(* What a handler holds at each step, and what is set on it. *)
HandlerOK(h) ==
    /\ pc[h] # "idle" => req[h] \in Request
    /\ pc[h] \in {"idle", "dedicate"} => hold[h]["own"] = None
    /\ pc[h] \notin {"bind", "write", "done"} => hold[h]["tx"] = None
    /\ pc[h] \notin Lookups \cup {"done"} => hold[h]["lease"] = None
    /\ pc[h] \in {"bind", "write"} => hold[h]["tx"] # None
    /\ hold[h]["own"] # None =>
         PoolOf[hold[h]["own"]] = req[h].pool /\ session[hold[h]["own"]] = req[h].scope
    /\ hold[h]["own"] # None => hold[h]["lease"] = None
    /\ hold[h]["tx"] # None => /\ PoolOf[hold[h]["tx"]] = req[h].pool
                               /\ session[hold[h]["tx"]] \in {NoScope, req[h].scope}
    /\ pc[h] = "write" => session[hold[h]["tx"]] = req[h].scope
    /\ hold[h]["lease"] # None => session[hold[h]["lease"]] = NoScope
    /\ pc[h] \in Lookups /\ hold[h]["lease"] # None =>
         PoolOf[hold[h]["lease"]] = IF pc[h] = "link" THEN Boot ELSE req[h].pool

(* What makes the safety properties inductive: one holder and one role for each    *)
(* connection, each held where its handler's step needs it, the request's own      *)
(* and a bound transaction's marked with its scope, all others unmarked.          *)
ConnInv ==
    /\ TypeOK
    /\ OneHolder
    /\ \A h \in Handler : HandlerOK(h)
    /\ \A c \in Conn : Free(c) => session[c] = NoScope

================================================================================

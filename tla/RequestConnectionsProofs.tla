------------------------ MODULE RequestConnectionsProofs ------------------------
(* Connections are held by one handler each, carry its scope and no other, and    *)
(* starve nobody but through begin, for any requests, pools and units.            *)
EXTENDS RequestConnections, FiniteSetTheorems, TLAPS

USE PoolAssumption, ConnAssumption, ScopeAssumption, ArrivalAssumption

USE DEF Goto, Role

(* A step that takes a free connection and may mark it (Acquires).                *)
LEMMA AcquireKeepsOneHolder ==
  ASSUME TypeOK, OneHolder, NEW h \in Handler, NEW role \in Role, NEW c \in Conn,
         Acquires(h, role, c)
  PROVE  /\ OneHolder'
         /\ hold' \in [Handler -> [Role -> Conn \cup {None}]]
         /\ \A g \in Handler, other \in Role :
              hold'[g][other] = IF g = h /\ other = role THEN c ELSE hold[g][other]
<1>1. hold' = [hold EXCEPT ![h][role] = c]
  BY DEF Acquires
<1>2. \A g \in Handler, other \in Role :
        hold'[g][other] = IF g = h /\ other = role THEN c ELSE hold[g][other]
  BY <1>1 DEF TypeOK
<1>3. hold' \in [Handler -> [Role -> Conn \cup {None}]]
  BY <1>1 DEF TypeOK
<1>4. \A g \in Handler, other \in Role : hold[g][other] # c
  BY DEF Acquires, Free
<1>5. OneHolder'
  BY <1>2, <1>4 DEF OneHolder
<1>6. QED  BY <1>2, <1>3, <1>5

(* A step that returns a connection (GiveBack).                                   *)
LEMMA GiveBackKeepsOneHolder ==
  ASSUME TypeOK, OneHolder, NEW h \in Handler, NEW role \in Role, GiveBack(h, role)
  PROVE  /\ OneHolder'
         /\ hold' \in [Handler -> [Role -> Conn \cup {None}]]
         /\ \A g \in Handler, other \in Role :
              hold'[g][other] = IF g = h /\ other = role THEN None ELSE hold[g][other]
         /\ session' \in [Conn -> Scope]
         /\ \A c \in Conn : session'[c] = IF c = hold[h][role] THEN NoScope ELSE session[c]
<1>1. hold' = [hold EXCEPT ![h][role] = None]
  BY DEF GiveBack
<1>2. \A g \in Handler, other \in Role :
        hold'[g][other] = IF g = h /\ other = role THEN None ELSE hold[g][other]
  BY <1>1 DEF TypeOK
<1>3. hold' \in [Handler -> [Role -> Conn \cup {None}]]
  BY <1>1 DEF TypeOK
<1>4. OneHolder'
  BY <1>2 DEF OneHolder
<1>5. /\ session' \in [Conn -> Scope]
      /\ \A c \in Conn : session'[c] = IF c = hold[h][role] THEN NoScope ELSE session[c]
  BY DEF GiveBack, TypeOK, Scope
<1>6. QED  BY <1>2, <1>3, <1>4, <1>5

(* A handler that waits for a connection has a request (Needs).                   *)
LEMMA NeedsNotIdle ==
  ASSUME NEW h \in Handler, Needs(h) # None
  PROVE  pc[h] # "idle"
  BY DEF Needs, Lookups

(* No connection is held before the first request arrives (Init).                 *)
LEMMA InitConn == Init => ConnInv
  BY DEF Init, ConnInv, TypeOK, OneHolder, HandlerOK, Label, Scope, Lookups

(* Every step of a handler keeps the invariant (Next).                            *)
LEMMA StepConn == ConnInv /\ [Next]_vars => ConnInv'
<1> SUFFICES ASSUME ConnInv, [Next]_vars PROVE ConnInv'
  OBVIOUS
<1> USE DEF ConnInv
<1>1. ASSUME NEW h \in Handler, NEW request \in Arrival, Arrive(h, request) PROVE ConnInv'
  <2>1. TypeOK'
    BY <1>1 DEF Arrive, TypeOK, Label
  <2>2. OneHolder' /\ \A c \in Conn : Free(c)' => session'[c] = NoScope
    BY <1>1 DEF Arrive, OneHolder, Free
  <2>3. \A g \in Handler : HandlerOK(g)'
    BY <1>1 DEF Arrive, TypeOK, HandlerOK, Lookups, Label
  <2>4. QED  BY <2>1, <2>2, <2>3
<1>2. ASSUME NEW h \in Handler, NEW c \in Conn, Dedicate(h, c) PROVE ConnInv'
  <2>1. Acquires(h, "own", c)
    BY <1>2 DEF Dedicate
  <2>2. /\ OneHolder'
        /\ hold' \in [Handler -> [Role -> Conn \cup {None}]]
        /\ \A g \in Handler, other \in Role :
             hold'[g][other] = IF g = h /\ other = "own" THEN c ELSE hold[g][other]
    BY <2>1, AcquireKeepsOneHolder
  <2>3. req[h] \in Request /\ PoolOf[c] = req[h].pool
    BY <1>2, <2>1 DEF Dedicate, Acquires, Needs, HandlerOK
  <2>4. \A g \in Handler, other \in Role : hold[g][other] # c
    BY <2>1 DEF Acquires, Free
  <2>5. TypeOK'
    BY <1>2, <2>2, <2>3 DEF Dedicate, TypeOK, Label, Request
  <2>6. \A g \in Handler : HandlerOK(g)'
    BY <1>2, <2>2, <2>3, <2>4 DEF Dedicate, TypeOK, HandlerOK, Lookups, Label
  <2>7. ASSUME NEW d \in Conn, Free(d)' PROVE session'[d] = NoScope
    <3>0. hold[h]["own"] = None
      BY <1>2, <2>1 DEF Dedicate, Acquires, Needs, HandlerOK, Lookups
    <3>1. hold'[h]["own"] = c /\ hold'[h]["own"] # d
      BY <2>2, <2>7 DEF Free
    <3>2. \A g \in Handler, other \in Role : hold[g][other] # d
      BY <2>2, <2>7, <3>0 DEF Free
    <3>3. session'[d] = session[d]
      BY <1>2, <3>1 DEF Dedicate, TypeOK
    <3>4. QED  BY <3>2, <3>3 DEF Free
  <2>8. QED  BY <2>2, <2>5, <2>6, <2>7
<1>3. ASSUME NEW h \in Handler, ingest_call(h) \/ link_call_handler(h) PROVE ConnInv'
  <2>1. TypeOK'
    BY <1>3 DEF ingest_call, link_call_handler, TypeOK, Label
  <2>2. OneHolder' /\ \A c \in Conn : Free(c)' => session'[c] = NoScope
    BY <1>3 DEF ingest_call, link_call_handler, OneHolder, Free
  <2>3. \A g \in Handler : HandlerOK(g)'
    BY <1>3 DEF ingest_call, link_call_handler, TypeOK, HandlerOK, Lookups, Label
  <2>4. QED  BY <2>1, <2>2, <2>3
<1>4. ASSUME NEW h \in Handler, NEW c \in Conn, Lease(h, c) PROVE ConnInv'
  <2>1. Acquires(h, "lease", c)
    BY <1>4 DEF Lease
  <2>2. /\ OneHolder'
        /\ hold' \in [Handler -> [Role -> Conn \cup {None}]]
        /\ \A g \in Handler, other \in Role :
             hold'[g][other] = IF g = h /\ other = "lease" THEN c ELSE hold[g][other]
    BY <2>1, AcquireKeepsOneHolder
  <2>3. /\ hold[h]["own"] = None /\ session[c] = NoScope
        /\ PoolOf[c] = IF pc[h] = "link" THEN Boot ELSE req[h].pool
    BY <1>4, <2>1, PoolAssumption DEF Lease, Acquires, Needs, Lookups, Free
  <2>4. TypeOK'
    BY <1>4, <2>2 DEF Lease, TypeOK
  <2>5. \A g \in Handler : HandlerOK(g)'
    BY <1>4, <2>2, <2>3 DEF Lease, TypeOK, HandlerOK, Lookups, Label
  <2>6. ASSUME NEW d \in Conn, Free(d)' PROVE session'[d] = NoScope
    <3>0. hold[h]["lease"] = None
      BY <1>4, <2>1 DEF Lease, Acquires, Needs, HandlerOK, Lookups
    <3>1. hold'[h]["lease"] = c /\ hold'[h]["lease"] # d
      BY <2>2, <2>6 DEF Free
    <3>2. \A g \in Handler, other \in Role : hold[g][other] # d
      BY <2>2, <2>6, <3>0 DEF Free
    <3>3. session'[d] = session[d]
      BY <1>4, <3>1 DEF Lease, TypeOK
    <3>4. QED  BY <3>2, <3>3 DEF Free
  <2>7. QED  BY <2>2, <2>4, <2>5, <2>6
<1>5. ASSUME NEW h \in Handler, Lookup(h) PROVE ConnInv'
  <2>1. GiveBack(h, "lease")
    BY <1>5 DEF Lookup
  <2>2. /\ OneHolder'
        /\ hold' \in [Handler -> [Role -> Conn \cup {None}]]
        /\ \A g \in Handler, other \in Role :
             hold'[g][other] = IF g = h /\ other = "lease" THEN None ELSE hold[g][other]
        /\ session' \in [Conn -> Scope]
        /\ \A c \in Conn : session'[c] = IF c = hold[h]["lease"] THEN NoScope ELSE session[c]
    BY <2>1, GiveBackKeepsOneHolder
  <2>3. TypeOK'
    BY <1>5, <2>2 DEF Lookup, TypeOK, Label
  <2>4. \A g \in Handler : HandlerOK(g)'
    BY <1>5, <2>2 DEF Lookup, TypeOK, HandlerOK, OneHolder, Lookups, Label
  <2>5. \A d \in Conn : Free(d)' => session'[d] = NoScope
    BY <1>5, <2>2 DEF TypeOK, Free
  <2>6. QED  BY <2>2, <2>3, <2>4, <2>5
<1>6. ASSUME NEW h \in Handler, NEW c \in Conn, Begin(h, c) PROVE ConnInv'
  <2>1. Acquires(h, "tx", c)
    BY <1>6 DEF Begin
  <2>2. /\ OneHolder'
        /\ hold' \in [Handler -> [Role -> Conn \cup {None}]]
        /\ \A g \in Handler, other \in Role :
             hold'[g][other] = IF g = h /\ other = "tx" THEN c ELSE hold[g][other]
    BY <2>1, AcquireKeepsOneHolder
  <2>3. PoolOf[c] = req[h].pool /\ session[c] = NoScope
    BY <1>6, <2>1 DEF Begin, Acquires, Needs, Lookups, Free
  <2>4. TypeOK'
    BY <1>6, <2>2 DEF Begin, TypeOK, Label
  <2>5. \A g \in Handler : HandlerOK(g)'
    BY <1>6, <2>2, <2>3 DEF Begin, TypeOK, HandlerOK, Lookups, Label
  <2>6. ASSUME NEW d \in Conn, Free(d)' PROVE session'[d] = NoScope
    <3>0. hold[h]["tx"] = None
      BY <1>6, <2>1 DEF Begin, Acquires, Needs, HandlerOK, Lookups
    <3>1. hold'[h]["tx"] = c /\ hold'[h]["tx"] # d
      BY <2>2, <2>6 DEF Free
    <3>2. \A g \in Handler, other \in Role : hold[g][other] # d
      BY <2>2, <2>6, <3>0 DEF Free
    <3>3. session'[d] = session[d]
      BY <1>6, <3>1 DEF Begin, TypeOK
    <3>4. QED  BY <3>2, <3>3 DEF Free
  <2>7. QED  BY <2>2, <2>4, <2>5, <2>6
<1>7. ASSUME NEW h \in Handler, bind_org_scope_on(h) PROVE ConnInv'
  <2>1. hold[h]["tx"] \in Conn /\ req[h].scope \in Scope
    BY <1>7 DEF bind_org_scope_on, TypeOK, HandlerOK, Request
  <2>2. TypeOK'
    BY <1>7, <2>1 DEF bind_org_scope_on, TypeOK, Label
  <2>3. OneHolder'
    BY <1>7 DEF bind_org_scope_on, OneHolder
  <2>4. \A g \in Handler : HandlerOK(g)'
    BY <1>7, <2>1 DEF bind_org_scope_on, TypeOK, HandlerOK, OneHolder, Lookups, Label
  <2>5. \A d \in Conn : Free(d)' => session'[d] = NoScope
    BY <1>7, <2>1 DEF bind_org_scope_on, TypeOK, Free
  <2>6. QED  BY <2>2, <2>3, <2>4, <2>5
<1>8. ASSUME NEW h \in Handler, Commit(h) \/ Rollback(h) PROVE ConnInv'
  <2>1. GiveBack(h, "tx")
    BY <1>8 DEF Commit, Rollback
  <2>2. /\ OneHolder'
        /\ hold' \in [Handler -> [Role -> Conn \cup {None}]]
        /\ \A g \in Handler, other \in Role :
             hold'[g][other] = IF g = h /\ other = "tx" THEN None ELSE hold[g][other]
        /\ session' \in [Conn -> Scope]
        /\ \A c \in Conn : session'[c] = IF c = hold[h]["tx"] THEN NoScope ELSE session[c]
    BY <2>1, GiveBackKeepsOneHolder
  <2>3. TypeOK'
    BY <1>8, <2>2 DEF Commit, Rollback, TypeOK, Label
  <2>4. \A g \in Handler : HandlerOK(g)'
    BY <1>8, <2>2 DEF Commit, Rollback, TypeOK, HandlerOK, OneHolder, Lookups, Label
  <2>5. \A d \in Conn : Free(d)' => session'[d] = NoScope
    BY <1>8, <2>2 DEF TypeOK, Free
  <2>6. QED  BY <2>2, <2>3, <2>4, <2>5
<1>9. ASSUME NEW h \in Handler, AcquireTimesOut(h) \/ Fail(h) PROVE ConnInv'
  <2>1. TypeOK'
    BY <1>9 DEF AcquireTimesOut, Fail, TypeOK, Label
  <2>2. OneHolder' /\ \A c \in Conn : Free(c)' => session'[c] = NoScope
    BY <1>9 DEF AcquireTimesOut, Fail, OneHolder, Free
  <2>3. pc[h] # "idle"
    BY <1>9, NeedsNotIdle DEF AcquireTimesOut, Fail
  <2>4. \A g \in Handler : HandlerOK(g)'
    BY <1>9, <2>3 DEF AcquireTimesOut, Fail, TypeOK, HandlerOK, Lookups, Label
  <2>5. QED  BY <2>1, <2>2, <2>4
<1>10. ASSUME NEW h \in Handler, Release(h) PROVE ConnInv'
  <2>1. PICK role \in Role : GiveBack(h, role)
    BY <1>10 DEF Release
  <2>2. /\ OneHolder'
        /\ hold' \in [Handler -> [Role -> Conn \cup {None}]]
        /\ \A g \in Handler, other \in Role :
             hold'[g][other] = IF g = h /\ other = role THEN None ELSE hold[g][other]
        /\ session' \in [Conn -> Scope]
        /\ \A c \in Conn : session'[c] = IF c = hold[h][role] THEN NoScope ELSE session[c]
    BY <2>1, GiveBackKeepsOneHolder
  <2>3. TypeOK'
    BY <1>10, <2>2 DEF Release, TypeOK
  <2>4. \A g \in Handler : HandlerOK(g)'
    BY <1>10, <2>2 DEF Release, TypeOK, HandlerOK, OneHolder, Lookups, Label
  <2>5. \A d \in Conn : Free(d)' => session'[d] = NoScope
    BY <1>10, <2>2 DEF TypeOK, Free
  <2>6. QED  BY <2>2, <2>3, <2>4, <2>5
<1>11. CASE UNCHANGED vars
  BY <1>11 DEF vars, TypeOK, OneHolder, HandlerOK, Free
<1>12. QED
  BY <1>1, <1>2, <1>3, <1>4, <1>5, <1>6, <1>7, <1>8, <1>9, <1>10, <1>11 DEF Next, Step

(* The invariant holds in every reachable state.                                  *)
THEOREM ConnectionInvariance == Spec => []ConnInv
  BY InitConn, StepConn, PTL DEF Spec

(* No statement runs in another tenant's database or under another request's      *)
(* scope; a link without a connection of its own runs on the boot pool, unscoped  *)
(* (record_call, link_call).                                                      *)
THEOREM StatementsRunAtHome == Spec => []StatementsKnowTheirTenant
<1>1. ConnInv => StatementsKnowTheirTenant
  BY DEF ConnInv, TypeOK, HandlerOK, StatementsKnowTheirTenant, Astray, Riding, Lookups
<1>2. QED  BY <1>1, ConnectionInvariance, PTL

(* A scope set on a connection dies with the request that set it.                 *)
THEOREM NoScopeIsInherited == Spec => []ScopeDiesWithItsRequest
<1>1. ASSUME ConnInv PROVE ScopeDiesWithItsRequest
  <2> SUFFICES ASSUME NEW c \in Conn, session[c] # NoScope
               PROVE  \E h \in Handler : (\E role \in Role : hold[h][role] = c)
                                          /\ session[c] = req[h].scope
    BY DEF ScopeDiesWithItsRequest
  <2>1. PICK h \in Handler, role \in Role : hold[h][role] = c
    BY <1>1 DEF ConnInv, Free
  <2>2. session[c] = req[h].scope
    BY <1>1, <2>1 DEF ConnInv, HandlerOK
  <2>3. QED  BY <2>1, <2>2
<1>2. QED  BY <1>1, ConnectionInvariance, PTL

(* A connection nobody moves with is the own one of a request about to begin its   *)
(* transaction (pool.begin).                                                      *)
LEMMA HeldAtRest ==
  ASSUME ConnInv, NEW c \in Conn, NEW h \in Handler, NEW role \in Role,
         hold[h][role] = c, ~Moving(h)
  PROVE  hold[h]["own"] = c /\ pc[h] = "begin" /\ req[h].pool = PoolOf[c]
<1>1. pc[h] \in {"begin"} \cup Lookups \cup {"idle", "dedicate"}
  BY DEF Moving, Needs
<1>2. pc[h] = "begin" /\ role = "own"
  BY <1>1 DEF ConnInv, HandlerOK, Moving, Needs, Lookups
<1>3. QED  BY <1>2 DEF ConnInv, HandlerOK

(* Only requests that begin a transaction while holding a connection starve       *)
(* anyone (pool.begin).                                                           *)
THEOREM StarvationComesFromBegin == Spec => []OnlyBeginStarves
<1>1. ConnInv => OnlyBeginStarves
  BY HeldAtRest DEF OnlyBeginStarves, Free
<1>2. QED  BY <1>1, ConnectionInvariance, PTL

--------------------------------------------------------------------------------
ConnectionsOf(p) == {c \in Conn : PoolOf[c] = p}

(* The requests that hold a connection of the pool while they wait for another.   *)
Beginning(p) == {h \in Handler : pc[h] = "begin" /\ hold[h]["own"] \in ConnectionsOf(p)}

(* How many connections a pool needs: as long as it has more than requests that    *)
(* begin a transaction beside a connection of their own, one of them is free or    *)
(* with a handler that moves (pool.begin() under a bound scope).                  *)
OneToSpareIsEnough ==
    \A p \in Pool :
        IsFiniteSet(ConnectionsOf(p)) /\ Cardinality(Beginning(p)) < Cardinality(ConnectionsOf(p)) =>
            \E c \in ConnectionsOf(p) :
                \/ Free(c)
                \/ \E h \in Handler, role \in Role : hold[h][role] = c /\ Moving(h)

(* A handler holds one connection of its own, so the waiting ones are no more than  *)
(* the pool's connections, and if no connection moves they are as many            *)
(* (hold[h].own).                                                                 *)
LEMMA WaitersAreConnections ==
  ASSUME ConnInv, NEW p \in Pool, IsFiniteSet(ConnectionsOf(p)),
         \A c \in ConnectionsOf(p) : \E h \in Beginning(p) : hold[h]["own"] = c
  PROVE  Cardinality(Beginning(p)) = Cardinality(ConnectionsOf(p))
<1> DEFINE own == [h \in Beginning(p) |-> hold[h]["own"]]
<1>1. own \in [Beginning(p) -> ConnectionsOf(p)]
  BY DEF Beginning
<1>2. ASSUME NEW h \in Beginning(p), NEW g \in Beginning(p), own[h] = own[g]
      PROVE  h = g
  <2>1. hold[h]["own"] = hold[g]["own"] /\ hold[h]["own"] # None
    BY <1>2 DEF Beginning, ConnectionsOf
  <2>2. QED  BY <2>1 DEF ConnInv, OneHolder, Beginning
<1>3. \A c \in ConnectionsOf(p) : \E h \in Beginning(p) : own[h] = c
  OBVIOUS
<1> HIDE DEF own
<1>4. own \in Injection(Beginning(p), ConnectionsOf(p))
  BY <1>1, <1>2 DEF Injection, IsInjective
<1>5. own \in Surjection(Beginning(p), ConnectionsOf(p))
  BY <1>1, <1>3 DEF Surjection
<1>6. QED  BY <1>4, <1>5, FS_Injection

(* One connection more than requests that begin with one of their own, and the     *)
(* pool is not stuck (pool.begin).                                                *)
THEOREM PoolIsNotStuck == Spec => []OneToSpareIsEnough
<1>1. ASSUME ConnInv PROVE OneToSpareIsEnough
  <2> SUFFICES ASSUME NEW p \in Pool, IsFiniteSet(ConnectionsOf(p)),
                      \A c \in ConnectionsOf(p) :
                          ~Free(c) /\ \A h \in Handler, role \in Role : hold[h][role] = c => ~Moving(h)
               PROVE  ~(Cardinality(Beginning(p)) < Cardinality(ConnectionsOf(p)))
    BY DEF OneToSpareIsEnough
  <2>1. ASSUME NEW c \in ConnectionsOf(p)
        PROVE  \E h \in Beginning(p) : hold[h]["own"] = c
    <3>1. PICK h \in Handler, role \in Role : hold[h][role] = c /\ ~Moving(h)
      BY <2>1 DEF Free, ConnectionsOf
    <3>2. hold[h]["own"] = c /\ pc[h] = "begin"
      BY <1>1, <3>1, HeldAtRest DEF ConnectionsOf
    <3>3. QED  BY <3>2 DEF Beginning
  <2>2. Cardinality(Beginning(p)) = Cardinality(ConnectionsOf(p))
    BY <1>1, <2>1, WaitersAreConnections
  <2>3. Cardinality(ConnectionsOf(p)) \in Nat
    BY FS_CardinalityType
  <2>4. QED  BY <2>2, <2>3
<1>2. QED  BY <1>1, ConnectionInvariance, PTL

--------------------------------------------------------------------------------
(* The awaits a request is from its answer at most, by where its handler is       *)
(* (record_call, link_call).                                                      *)
AwaitsLeft(label) ==
  CASE label = "idle"     -> 9
    [] label = "dedicate" -> 8
    [] label = "handle"   -> 7
    [] label = "probe"    -> 6
    [] label = "link"     -> 6
    [] label = "begin"    -> 5
    [] label = "bind"     -> 4
    [] label = "write"    -> 3
    [] label = "reprobe"  -> 2

Taken(h, role) == IF hold[h][role] = None THEN 0 ELSE 1

(* What a request may still cost: its awaits, with one more for each statement    *)
(* that has to lease a connection, then the return of what its handler holds.     *)
Work(h) ==
  IF pc[h] = "done" THEN Taken(h, "own") + Taken(h, "tx") + Taken(h, "lease")
  ELSE 2 * AwaitsLeft(pc[h]) + 1 - Taken(h, "lease")

(* Each step of the handlers, the pool's timeouts and returns among them, brings   *)
(* one request closer to its end and sends no other back: nothing is acquired      *)
(* again, retried or waited for twice (pool.begin, the scoped lookups, link_call). *)
UsesUpWork ==
  \E h \in Handler :
    /\ Work(h)' < Work(h)
    /\ \A g \in Handler \ {h} : Work(g)' = Work(g)

EveryStepUsesUpWork == [][UsesUpWork]_vars

(* A handler that goes on by one await, keeping, taking or returning connections   *)
(* of its own alone, has less left to do (Goto).                                   *)
LEMMA GoingOnUsesUpWork ==
  ASSUME TypeOK, NEW h \in Handler, NEW label \in Label,
         pc[h] # "done", pc' = [pc EXCEPT ![h] = label],
         hold' \in [Handler -> [Role -> Conn \cup {None}]],
         \A g \in Handler \ {h} : hold'[g] = hold[g],
         label = "done" \/ AwaitsLeft(label) + 1 <= AwaitsLeft(pc[h])
  PROVE  UsesUpWork
<1>1. /\ pc'[h] = label
      /\ \A g \in Handler \ {h} : Work(g)' = Work(g)
  BY DEF TypeOK, Work, Taken
<1>2. AwaitsLeft(pc[h]) \in 2 .. 9 /\ (label # "done" => AwaitsLeft(label) \in 2 .. 9)
  BY DEF TypeOK, Label, AwaitsLeft
<1>3. Taken(h, "lease") \in 0 .. 1 /\ \A role \in Role : Taken(h, role)' \in 0 .. 1
  BY DEF Taken
<1>4. Work(h) = 2 * AwaitsLeft(pc[h]) + 1 - Taken(h, "lease")
  BY DEF Work
<1>5. CASE label = "done"
  <2>1. Work(h)' = Taken(h, "own")' + Taken(h, "tx")' + Taken(h, "lease")'
    BY <1>1, <1>5 DEF Work
  <2>2. QED  BY <1>1, <1>2, <1>3, <1>4, <2>1 DEF UsesUpWork
<1>6. CASE label # "done"
  <2>1. Work(h)' = 2 * AwaitsLeft(label) + 1 - Taken(h, "lease")'
    BY <1>1, <1>6 DEF Work
  <2>2. QED  BY <1>1, <1>2, <1>3, <1>4, <1>6, <2>1 DEF UsesUpWork
<1>7. QED  BY <1>5, <1>6

(* Any number of requests on any pools takes a bounded number of steps, whatever   *)
(* fails or times out: what ends a request is never undone (record_call,           *)
(* link_call).                                                                    *)
THEOREM WorkRunsOut == Spec => EveryStepUsesUpWork
<1>1. /\ AwaitsLeft("dedicate") + 1 <= AwaitsLeft("idle")
      /\ AwaitsLeft("handle") + 1 <= AwaitsLeft("idle")
      /\ AwaitsLeft("handle") + 1 <= AwaitsLeft("dedicate")
      /\ AwaitsLeft("link") + 1 <= AwaitsLeft("handle")
      /\ AwaitsLeft("probe") + 1 <= AwaitsLeft("handle")
      /\ AwaitsLeft("begin") + 1 <= AwaitsLeft("handle")
      /\ AwaitsLeft("begin") + 1 <= AwaitsLeft("probe")
      /\ AwaitsLeft("bind") + 1 <= AwaitsLeft("begin")
      /\ AwaitsLeft("write") + 1 <= AwaitsLeft("bind")
      /\ AwaitsLeft("reprobe") + 1 <= AwaitsLeft("write")
      /\ {"dedicate", "handle", "link", "probe", "begin", "bind", "write", "reprobe", "done"} \subseteq Label
  BY DEF AwaitsLeft, Label
<1>2. ASSUME ConnInv, NEW h \in Handler, NEW role \in Role, GiveBack(h, role)
      PROVE  /\ hold' \in [Handler -> [Role -> Conn \cup {None}]]
             /\ \A g \in Handler \ {h} : hold'[g] = hold[g]
             /\ hold'[h][role] = None
             /\ \A other \in Role \ {role} : hold'[h][other] = hold[h][other]
  BY <1>2 DEF GiveBack, ConnInv, TypeOK
<1>3. ASSUME ConnInv, NEW h \in Handler, NEW role \in Role, NEW c \in Conn, Acquires(h, role, c)
      PROVE  /\ hold' \in [Handler -> [Role -> Conn \cup {None}]]
             /\ \A g \in Handler \ {h} : hold'[g] = hold[g]
             /\ hold'[h][role] = c
  BY <1>3 DEF Acquires, ConnInv, TypeOK
<1>4. ASSUME ConnInv, NEW h \in Handler, NEW request \in Arrival, Arrive(h, request) PROVE UsesUpWork
  <2>1. pc[h] = "idle" /\ hold' = hold
    BY <1>4 DEF Arrive
  <2>2. CASE pc' = [pc EXCEPT ![h] = "handle"]
    BY <1>1, <1>4, <2>1, <2>2, GoingOnUsesUpWork DEF ConnInv, TypeOK
  <2>3. CASE pc' = [pc EXCEPT ![h] = "dedicate"]
    BY <1>1, <1>4, <2>1, <2>3, GoingOnUsesUpWork DEF ConnInv, TypeOK
  <2>4. QED  BY <1>4, <2>2, <2>3 DEF Arrive
<1>5. ASSUME ConnInv, NEW h \in Handler, NEW c \in Conn, Dedicate(h, c) PROVE UsesUpWork
  <2>1. pc[h] = "dedicate" /\ pc' = [pc EXCEPT ![h] = "handle"] /\ Acquires(h, "own", c)
    BY <1>5 DEF Dedicate
  <2>2. QED  BY <1>1, <1>3, <1>5, <2>1, GoingOnUsesUpWork DEF ConnInv
<1>6. ASSUME ConnInv, NEW h \in Handler, NEW c \in Conn, Begin(h, c) PROVE UsesUpWork
  <2>1. pc[h] = "begin" /\ pc' = [pc EXCEPT ![h] = "bind"] /\ Acquires(h, "tx", c)
    BY <1>6 DEF Begin
  <2>2. QED  BY <1>1, <1>3, <1>6, <2>1, GoingOnUsesUpWork DEF ConnInv
<1>7. ASSUME ConnInv, NEW h \in Handler, NEW c \in Conn, Lease(h, c) PROVE UsesUpWork
  <2>1. pc' = pc /\ pc[h] \in Lookups /\ Acquires(h, "lease", c)
    BY <1>7 DEF Lease
  <2>2. hold[h]["lease"] = None /\ hold'[h]["lease"] # None
    <3>1. PoolOf[c] # None /\ Needs(h) = PoolOf[c]
      BY <2>1 DEF Acquires
    <3>2. hold[h]["lease"] = None
      BY <2>1, <3>1 DEF Needs, Lookups
    <3>3. QED  BY <1>3, <1>7, <2>1, <3>2
  <2>3. Taken(h, "lease") = 0 /\ Taken(h, "lease")' = 1
    BY <2>2 DEF Taken
  <2>4. /\ Work(h) = 2 * AwaitsLeft(pc[h]) + 1 - Taken(h, "lease")
        /\ Work(h)' = 2 * AwaitsLeft(pc[h]) + 1 - Taken(h, "lease")'
    BY <2>1 DEF Work, Lookups
  <2>5. AwaitsLeft(pc[h]) \in 2 .. 9
    BY <2>1 DEF Lookups, AwaitsLeft
  <2>6. \A g \in Handler \ {h} : Work(g)' = Work(g)
    BY <1>3, <1>7, <2>1 DEF Work, Taken
  <2>7. QED  BY <2>3, <2>4, <2>5, <2>6 DEF UsesUpWork
<1>8. ASSUME ConnInv, NEW h \in Handler, ingest_call(h) \/ link_call_handler(h) PROVE UsesUpWork
  <2>1. pc[h] = "handle" /\ hold' = hold
    BY <1>8 DEF ingest_call, link_call_handler
  <2>2. ASSUME NEW label \in {"done", "probe", "begin", "link"}, pc' = [pc EXCEPT ![h] = label]
        PROVE  UsesUpWork
    <3>1. label \in Label /\ (label = "done" \/ AwaitsLeft(label) + 1 <= AwaitsLeft(pc[h]))
      BY <1>1, <2>1, <2>2
    <3>2. QED  BY <1>8, <2>1, <2>2, <3>1, GoingOnUsesUpWork DEF ConnInv, TypeOK
  <2>3. QED  BY <1>8, <2>2 DEF ingest_call, link_call_handler
<1>9. ASSUME ConnInv, NEW h \in Handler, Lookup(h) PROVE UsesUpWork
  <2>1. pc[h] # "done" /\ GiveBack(h, "lease")
    BY <1>9 DEF Lookup, Lookups
  <2>2. CASE pc' = [pc EXCEPT ![h] = "done"]
    BY <1>1, <1>2, <1>9, <2>1, <2>2, GoingOnUsesUpWork DEF ConnInv
  <2>3. CASE pc[h] = "probe" /\ pc' = [pc EXCEPT ![h] = "begin"]
    BY <1>1, <1>2, <1>9, <2>1, <2>3, GoingOnUsesUpWork DEF ConnInv
  <2>4. QED  BY <1>9, <2>2, <2>3 DEF Lookup
<1>10. ASSUME ConnInv, NEW h \in Handler, bind_org_scope_on(h) PROVE UsesUpWork
  <2>1. pc[h] = "bind" /\ pc' = [pc EXCEPT ![h] = "write"] /\ hold' = hold
    BY <1>10 DEF bind_org_scope_on
  <2>2. QED  BY <1>1, <1>10, <2>1, GoingOnUsesUpWork DEF ConnInv, TypeOK
<1>11. ASSUME ConnInv, NEW h \in Handler, Commit(h) \/ Rollback(h) PROVE UsesUpWork
  <2>1. pc[h] = "write" /\ GiveBack(h, "tx")
    BY <1>11 DEF Commit, Rollback
  <2>2. CASE pc' = [pc EXCEPT ![h] = "done"]
    BY <1>1, <1>2, <1>11, <2>1, <2>2, GoingOnUsesUpWork DEF ConnInv
  <2>3. CASE pc' = [pc EXCEPT ![h] = "reprobe"]
    BY <1>1, <1>2, <1>11, <2>1, <2>3, GoingOnUsesUpWork DEF ConnInv
  <2>4. QED  BY <1>11, <2>2, <2>3 DEF Commit, Rollback
<1>12. ASSUME ConnInv, NEW h \in Handler, AcquireTimesOut(h) \/ Fail(h) PROVE UsesUpWork
  <2>1. pc[h] # "done" /\ pc' = [pc EXCEPT ![h] = "done"] /\ hold' = hold
    BY <1>12 DEF AcquireTimesOut, Fail, Needs, Lookups
  <2>2. QED  BY <1>1, <1>12, <2>1, GoingOnUsesUpWork DEF ConnInv, TypeOK
<1>13. ASSUME ConnInv, NEW h \in Handler, Release(h) PROVE UsesUpWork
  <2>1. PICK role \in Role : hold[h][role] # None /\ GiveBack(h, role)
    BY <1>13 DEF Release
  <2>2. pc' = pc /\ pc[h] = "done"
    BY <1>13 DEF Release
  <2>3. /\ Taken(h, role) = 1 /\ Taken(h, role)' = 0
        /\ \A other \in Role \ {role} : Taken(h, other)' = Taken(h, other)
        /\ \A other \in Role : Taken(h, other) \in 0 .. 1
    BY <1>2, <1>13, <2>1 DEF Taken
  <2>4. /\ Work(h) = Taken(h, "own") + Taken(h, "tx") + Taken(h, "lease")
        /\ Work(h)' = Taken(h, "own")' + Taken(h, "tx")' + Taken(h, "lease")'
    BY <2>2 DEF Work
  <2>5. \A g \in Handler \ {h} : Work(g)' = Work(g)
    BY <1>2, <1>13, <2>1, <2>2 DEF Work, Taken
  <2>6. QED  BY <2>3, <2>4, <2>5 DEF UsesUpWork
<1>14. ConnInv /\ [Next]_vars => [UsesUpWork]_vars
  BY <1>4, <1>5, <1>6, <1>7, <1>8, <1>9, <1>10, <1>11, <1>12, <1>13 DEF Next, Step
<1>15. QED  BY <1>14, ConnectionInvariance, PTL DEF Spec, EveryStepUsesUpWork

================================================================================

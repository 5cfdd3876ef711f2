--------------------------- MODULE CallSurfaceProofs ---------------------------
(* The log, the outbox and the stamps beside the generic surface, for any calls,  *)
(* provider ids, writers and deployments.                                         *)
EXTENDS CallSurface, TLAPS

USE ValueAssumption, RowAssumption, DeploymentAssumption

USE DEF log, Kept

(* What the routers of the production surface do not serve (validated_routes).    *)
LEMMA GuardedServes ==
  ASSUME TypeOK, mounted \subseteq {"readonly", "validated"}
  PROVE  \A operation \in create_call_write_routes : ~Serves(operation)
  BY DEF TypeOK, Serves, Routes, readonly_routes, validated_routes, create_call_write_routes

(* No row, no event, no update (Init).                                            *)
LEMMA InitSurface == Init => SurfaceInv
  BY DEF Init, SurfaceInv, TypeOK, RowOK, OneHolder, EventOK, WriteOK,
         NoDeliveryIsSwallowed, ValidatedSurfaceKeepsTheLog

(* A new row, routed or not (record_call, create).                                *)
LEMMA InsertStep ==
  ASSUME SurfaceInv, NEW id \in Call, NEW external_id \in ProviderId, NEW start \in 0 .. now,
         Holders(external_id) = {}, Insert(id, external_id, start),
         UNCHANGED <<mounted, released, write, now>>,
         \/ /\ outbox' = outbox \cup {<<id, external_id>>}
            /\ delivered' = delivered \cup {external_id}
            /\ UNCHANGED foreign
         \/ /\ Serves("create")
            /\ foreign' = foreign \cup ({external_id} \ {None})
            /\ UNCHANGED <<outbox, delivered>>
  PROVE  SurfaceInv'
<1> USE DEF SurfaceInv
<1> DEFINE row == audit_insert(external_id, start)
<1>1. row \in Row /\ row.external_id = external_id /\ row.deleted = FALSE
      /\ row.created_at = start /\ row.updated_at = start
  BY DEF audit_insert, Row, TypeOK
<1>2. id \notin used /\ calls[id] = None /\ used' = used \cup {id}
  BY DEF Insert, RowOK
<1> HIDE DEF row
<1>3. calls' = [calls EXCEPT ![id] = row]
  BY DEF Insert, row
<1>4. /\ calls'[id] = row
      /\ \A other \in Call : other # id => calls'[other] = calls[other]
  BY <1>3 DEF TypeOK
<1>5. TypeOK'
  BY <1>1, <1>2, <1>3 DEF TypeOK, ProviderId
<1>6. \A other \in Call : RowOK(other)'
  BY <1>1, <1>2, <1>4 DEF RowOK, ProviderId, TypeOK
<1>7. OneHolder'
  BY <1>1, <1>4 DEF OneHolder, Holders
<1>8. EventOK'
  BY <1>1, <1>2, <1>4 DEF EventOK
<1>9. \A w \in Writer : WriteOK(w)'
  BY <1>2, <1>4 DEF WriteOK, TypeOK, Write
<1>10. NoDeliveryIsSwallowed'
  BY DEF NoDeliveryIsSwallowed
<1>11. ValidatedSurfaceKeepsTheLog'
  BY <1>1, <1>2, <1>4, GuardedServes DEF ValidatedSurfaceKeepsTheLog, create_call_write_routes
<1>12. QED  BY <1>5, <1>6, <1>7, <1>8, <1>9, <1>10, <1>11

(* A statement replaces a row by one created when it was, under an id it had or    *)
(* the generic surface gives it (Execute, soft_delete, restore).                  *)
LEMMA ReplaceStep ==
  ASSUME SurfaceInv, NEW id \in Call, NEW row \in Row, calls[id] # None,
         calls' = [calls EXCEPT ![id] = row],
         Holders(row.external_id) \subseteq {id},
         row.created_at = calls[id].created_at,
         row.created_at <= row.updated_at,
         foreign' = foreign \cup ({row.external_id} \ {calls[id].external_id, None}),
         released' = released \cup ({calls[id].external_id} \ {row.external_id, None}),
         mounted \subseteq {"readonly", "validated"} =>
            row.external_id = calls[id].external_id /\ row.deleted = calls[id].deleted,
         write' \in [Writer -> Write \cup {None}],
         \A w \in Writer : write'[w] \in {write[w], None},
         UNCHANGED <<mounted, used, outbox, delivered, now>>
  PROVE  SurfaceInv'
<1> USE DEF SurfaceInv
<1>1. /\ calls'[id] = row
      /\ \A other \in Call : other # id => calls'[other] = calls[other]
  BY DEF TypeOK
<1>2. row.external_id \in ProviderId /\ calls[id].external_id \in ProviderId /\ row # None
  BY DEF TypeOK, Row
<1>3. TypeOK'
  BY <1>2 DEF TypeOK, ProviderId
<1>4. \A other \in Call : RowOK(other)'
  <2>1. RowOK(id)'
    <3>1. RowOK(id)
      OBVIOUS
    <3>2. row.external_id # None =>
            <<id, row.external_id>> \in outbox \/ row.external_id \in foreign'
      BY <3>1 DEF RowOK
    <3>3. id \in used /\ row.created_at <= row.updated_at /\ row.created_at <= now
      BY <3>1 DEF RowOK
    <3>4. QED  BY <1>1, <3>2, <3>3 DEF RowOK
  <2>2. ASSUME NEW other \in Call, other # id PROVE RowOK(other)'
    BY <1>1, <2>2 DEF RowOK
  <2>3. QED  BY <2>1, <2>2
<1>5. OneHolder'
  BY <1>1 DEF OneHolder, Holders
<1>6. EventOK'
  BY <1>1, <1>2 DEF EventOK, ProviderId
<1>7. \A w \in Writer : WriteOK(w)'
  BY <1>1 DEF WriteOK
<1>8. NoDeliveryIsSwallowed'
  BY DEF NoDeliveryIsSwallowed
<1>9. ValidatedSurfaceKeepsTheLog'
  BY <1>1, <1>2 DEF ValidatedSurfaceKeepsTheLog
<1>10. QED  BY <1>3, <1>4, <1>5, <1>6, <1>7, <1>8, <1>9

(* Rows in the trash are deleted for good (empty_trash).                          *)
LEMMA PurgeStep ==
  ASSUME SurfaceInv, NEW ids \in SUBSET Call, empty_trash(ids)
  PROVE  SurfaceInv'
<1> USE DEF SurfaceInv
<1>1. \A id \in Call : calls'[id] = IF id \in ids THEN None ELSE calls[id]
  BY DEF empty_trash
<1>2. \A id \in ids : calls[id] \in Row /\ calls[id].external_id \in ProviderId
  BY DEF empty_trash, TypeOK, Row
<1>3. TypeOK'
  BY <1>2 DEF empty_trash, TypeOK, ProviderId
<1>4. \A id \in Call : RowOK(id)'
  BY <1>1 DEF empty_trash, RowOK
<1>5. OneHolder'
  BY <1>1 DEF OneHolder
<1>6. EventOK'
  BY <1>1 DEF empty_trash, EventOK
<1>7. \A w \in Writer : WriteOK(w)'
  BY <1>1 DEF empty_trash, WriteOK, TypeOK, Write
<1>8. NoDeliveryIsSwallowed'
  BY DEF empty_trash, NoDeliveryIsSwallowed
<1>9. ValidatedSurfaceKeepsTheLog'
  BY GuardedServes DEF empty_trash, ValidatedSurfaceKeepsTheLog, create_call_write_routes
<1>10. QED  BY <1>3, <1>4, <1>5, <1>6, <1>7, <1>8, <1>9

(* Updates in flight move, or the clock does, and no row changes (Tick,           *)
(* record_duplicate, find, link_call, StartStatement, Miss).                      *)
LEMMA QuietStep ==
  ASSUME SurfaceInv, UNCHANGED <<mounted, calls, used, outbox, foreign, released>>,
         TypeOK', now <= now',
         delivered' = delivered \/ \E e \in ExternalId : Holders(e) # {} /\ delivered' = delivered \cup {e},
         \A w \in Writer : WriteOK(w)'
  PROVE  SurfaceInv'
<1> USE DEF SurfaceInv
<1>1. \A id \in Call : RowOK(id)'
  BY DEF RowOK, TypeOK, Row
<1>2. OneHolder' /\ EventOK' /\ ValidatedSurfaceKeepsTheLog'
  BY DEF OneHolder, EventOK, ValidatedSurfaceKeepsTheLog
<1>3. NoDeliveryIsSwallowed'
  BY DEF NoDeliveryIsSwallowed, Holders, RowOK
<1>4. QED  BY <1>1, <1>2, <1>3

(* What a statement may leave (Outcome).                                          *)
LEMMA ExecuteStep ==
  ASSUME SurfaceInv, NEW w \in Writer, Execute(w)
  PROVE  SurfaceInv'
<1> USE DEF SurfaceInv
<1> DEFINE id == write[w].call
<1>1. write[w] \in Write /\ id \in Call /\ calls[id] \in Row /\ write[w].start \in Nat
  BY DEF Execute, TypeOK, Write
<1>2. PICK row \in Outcome(w) :
        /\ Holders(row.external_id) \subseteq {id}
        /\ calls' = [calls EXCEPT ![id] = row]
        /\ foreign' = foreign \cup ({row.external_id} \ {calls[id].external_id, None})
        /\ released' = released \cup ({calls[id].external_id} \ {row.external_id, None})
  BY DEF Execute
<1>3. PICK base \in Row :
        /\ row = apply_update(write[w].change, base, write[w].start)
        /\ base = calls[id] \/ (write[w].read # None /\ base = write[w].read)
  BY <1>1, <1>2 DEF Outcome, Write
<1>4. /\ row \in Row
      /\ row.created_at = base.created_at
      /\ row.updated_at = write[w].start
      /\ row.deleted = base.deleted
      /\ write[w].change = Kept => row.external_id = base.external_id
  BY <1>1, <1>3 DEF apply_update, audit_update, Row, Write, Change
<1>5. row.created_at = calls[id].created_at /\ row.created_at <= row.updated_at
  BY <1>1, <1>3, <1>4 DEF WriteOK, Execute
<1>6. mounted \subseteq {"readonly", "validated"} =>
        row.external_id = calls[id].external_id /\ row.deleted = calls[id].deleted
  BY <1>3, <1>4 DEF WriteOK, Execute
<1>7. /\ write' \in [Writer -> Write \cup {None}]
      /\ \A v \in Writer : write'[v] \in {write[v], None}
  BY DEF Execute, TypeOK
<1>8. UNCHANGED <<mounted, used, outbox, delivered, now>> /\ calls[id] # None
  BY DEF Execute
<1> HIDE DEF id
<1>9. QED  BY <1>1, <1>2, <1>4, <1>5, <1>6, <1>7, <1>8, ReplaceStep

(* Every step keeps the invariant (Next).                                         *)
LEMMA StepSurface == SurfaceInv /\ [Next]_vars => SurfaceInv'
<1> SUFFICES ASSUME SurfaceInv, [Next]_vars PROVE SurfaceInv'
  OBVIOUS
<1>1. TypeOK /\ \A w \in Writer : WriteOK(w)
  BY DEF SurfaceInv
<1>2. CASE Tick
  <2>1. TypeOK' /\ now <= now'
    BY <1>1, <1>2 DEF Tick, TypeOK
  <2>2. \A w \in Writer : WriteOK(w)'
    BY <1>1, <1>2 DEF Tick, TypeOK, WriteOK, Write
  <2>3. QED  BY <1>2, <2>1, <2>2, QuietStep DEF Tick
<1>3. ASSUME NEW id \in Call, NEW external_id \in ProviderId, NEW start \in 0 .. now,
             record_call(id, external_id, start)
      PROVE  SurfaceInv'
  BY <1>3, InsertStep DEF record_call
<1>4. ASSUME NEW id \in Call, NEW external_id \in ProviderId, create(id, external_id)
      PROVE  SurfaceInv'
  <2>1. now \in 0 .. now
    BY <1>1 DEF TypeOK
  <2>2. QED  BY <1>4, <2>1, InsertStep DEF create
<1>5. ASSUME NEW external_id \in ExternalId, record_duplicate(external_id) PROVE SurfaceInv'
  <2>1. TypeOK' /\ now <= now'
    BY <1>1, <1>5 DEF record_duplicate, TypeOK, ProviderId
  <2>2. \A w \in Writer : WriteOK(w)'
    BY <1>1, <1>5 DEF record_duplicate, WriteOK
  <2>3. QED  BY <1>5, <2>1, <2>2, QuietStep DEF record_duplicate
<1>6. ASSUME NEW w \in Writer, NEW id \in Call, NEW change \in Change, find(w, id, change)
      PROVE  SurfaceInv'
  <2>1. id \in used /\ calls[id] \in Row
    BY <1>6 DEF SurfaceInv, RowOK, find, Live, TypeOK
  <2>2. TypeOK' /\ now <= now'
    BY <1>1, <1>6, <2>1 DEF find, TypeOK, Write
  <2>3. ~(mounted \subseteq {"readonly", "validated"})
    BY <1>1, <1>6, GuardedServes DEF find, create_call_write_routes
  <2>4. \A v \in Writer : WriteOK(v)'
    BY <1>1, <1>6, <2>1, <2>3 DEF find, TypeOK, WriteOK
  <2>5. QED  BY <1>6, <2>2, <2>4, QuietStep DEF find
<1>7. ASSUME NEW w \in Writer, NEW id \in Call, link_call(w, id) PROVE SurfaceInv'
  <2>1. TypeOK' /\ now <= now'
    BY <1>1, <1>7 DEF link_call, TypeOK, Write, Change
  <2>2. \A v \in Writer : WriteOK(v)'
    BY <1>1, <1>7 DEF link_call, TypeOK, WriteOK
  <2>3. QED  BY <1>7, <2>1, <2>2, QuietStep DEF link_call
<1>8. ASSUME NEW w \in Writer, StartStatement(w) PROVE SurfaceInv'
  <2>1. write[w] \in Write /\ write' = [write EXCEPT ![w] = [write[w] EXCEPT !.start = now]]
    BY <1>1, <1>8 DEF StartStatement, TypeOK
  <2>2. TypeOK' /\ now <= now'
    BY <1>1, <1>8, <2>1 DEF StartStatement, TypeOK, Write
  <2>3. \A v \in Writer : v # w => WriteOK(v)'
    BY <1>1, <1>8, <2>1 DEF StartStatement, TypeOK, WriteOK
  <2>4. /\ write'[w] = [write[w] EXCEPT !.start = now]
        /\ write'[w].call = write[w].call /\ write'[w].change = write[w].change
        /\ write'[w].read = write[w].read /\ write'[w].start = now
    BY <1>1, <2>1 DEF TypeOK, Write
  <2>5. calls[write[w].call] # None => calls[write[w].call].created_at <= now
    BY <2>1 DEF SurfaceInv, RowOK, Write
  <2>6. WriteOK(w)'
    BY <1>1, <1>8, <2>4, <2>5 DEF StartStatement, TypeOK, WriteOK
  <2>7. QED  BY <1>8, <2>2, <2>3, <2>6, QuietStep DEF StartStatement
<1>9. ASSUME NEW w \in Writer, Execute(w) PROVE SurfaceInv'
  BY <1>9, ExecuteStep
<1>10. ASSUME NEW w \in Writer, Miss(w) PROVE SurfaceInv'
  <2>1. TypeOK' /\ now <= now'
    BY <1>1, <1>10 DEF Miss, TypeOK
  <2>2. \A v \in Writer : WriteOK(v)'
    BY <1>1, <1>10 DEF Miss, TypeOK, WriteOK
  <2>3. QED  BY <1>10, <2>1, <2>2, QuietStep DEF Miss
<1>11. ASSUME NEW id \in Call, soft_delete(id) \/ restore(id) PROVE SurfaceInv'
  <2>1. calls[id] \in Row
    BY <1>1, <1>11 DEF soft_delete, restore, Live, TypeOK
  <2>2. PICK deleted \in BOOLEAN : calls' = [calls EXCEPT ![id] = audit_update([calls[id] EXCEPT !.deleted = deleted], now)]
    BY <1>1, <1>11 DEF soft_delete, restore, TypeOK
  <2> DEFINE row == audit_update([calls[id] EXCEPT !.deleted = deleted], now)
  <2>3. /\ row \in Row /\ row.external_id = calls[id].external_id
        /\ row.created_at = calls[id].created_at /\ row.updated_at = now
    BY <1>1, <2>1 DEF audit_update, Row, TypeOK
  <2>4. row.created_at <= row.updated_at
    BY <2>3, <1>11 DEF SurfaceInv, RowOK, soft_delete, restore, Live
  <2>5. Holders(row.external_id) \subseteq {id}
    BY <2>1, <2>3, <1>11 DEF Holders, SurfaceInv, OneHolder, soft_delete, restore, Live
  <2>6. ~(mounted \subseteq {"readonly", "validated"})
    BY <1>1, <1>11, GuardedServes DEF soft_delete, restore, create_call_write_routes
  <2> HIDE DEF row
  <2>7. calls' = [calls EXCEPT ![id] = row]
    BY <2>2 DEF row
  <2>8. UNCHANGED <<mounted, used, outbox, delivered, foreign, released, write, now>> /\ calls[id] # None
    BY <1>11 DEF soft_delete, restore, Live
  <2>9. /\ foreign' = foreign \cup ({row.external_id} \ {calls[id].external_id, None})
        /\ released' = released \cup ({calls[id].external_id} \ {row.external_id, None})
    BY <2>3, <2>8
  <2>10. write' \in [Writer -> Write \cup {None}] /\ \A w \in Writer : write'[w] \in {write[w], None}
    BY <1>1, <2>8 DEF TypeOK
  <2>11. QED  BY <2>3, <2>4, <2>5, <2>6, <2>7, <2>8, <2>9, <2>10, ReplaceStep
<1>12. ASSUME NEW ids \in SUBSET Call, empty_trash(ids) PROVE SurfaceInv'
  BY <1>12, PurgeStep
<1>13. CASE UNCHANGED vars
  <2>1. TypeOK' /\ now <= now'
    BY <1>1, <1>13 DEF vars, TypeOK
  <2>2. \A w \in Writer : WriteOK(w)'
    BY <1>1, <1>13 DEF vars, WriteOK
  <2>3. QED  BY <1>13, <2>1, <2>2, QuietStep DEF vars
<1>14. QED
  BY <1>2, <1>3, <1>4, <1>5, <1>6, <1>7, <1>8, <1>9, <1>10, <1>11, <1>12, <1>13 DEF Next

(* The invariant holds in every reachable state.                                  *)
THEOREM SurfaceInvariance == Spec => []SurfaceInv
  BY InitSurface, StepSurface, PTL DEF Spec

(* A 200 means routed, unless the generic surface gave the id away.               *)
THEOREM DeliveriesAreRouted == Spec => []NoDeliveryIsSwallowed
<1>1. SurfaceInv => NoDeliveryIsSwallowed
  BY DEF SurfaceInv
<1>2. QED  BY <1>1, SurfaceInvariance, PTL

(* Only a released provider id is routed a second time.                           *)
THEOREM RoutedOncePerId == Spec => []RoutedAgainOnlyAfterRelease
<1>1. SurfaceInv => RoutedAgainOnlyAfterRelease
  BY DEF SurfaceInv, EventOK, OneHolder, RoutedAgainOnlyAfterRelease, ProviderId
<1>2. QED  BY <1>1, SurfaceInvariance, PTL

(* The production surface keeps the log and the outbox in step.                   *)
THEOREM LogIsKept == Spec => []ValidatedSurfaceKeepsTheLog
<1>1. SurfaceInv => ValidatedSurfaceKeepsTheLog
  BY DEF SurfaceInv
<1>2. QED  BY <1>1, SurfaceInvariance, PTL

(* Creation precedes every update.                                                *)
THEOREM CreationComesFirst == Spec => []StampsInOrder
<1>1. SurfaceInv => StampsInOrder
  BY DEF SurfaceInv, RowOK, StampsInOrder
<1>2. QED  BY <1>1, SurfaceInvariance, PTL

(* What a step may do to a row's created_at (Next).                               *)
LEMMA CreatedAtIsKept ==
  ASSUME SurfaceInv, [Next]_vars, NEW id \in Call, calls[id] # None, calls'[id] # None
  PROVE  calls'[id].created_at = calls[id].created_at
<1>1. calls \in [Call -> Row \cup {None}] /\ id \in used
  BY DEF SurfaceInv, TypeOK, RowOK
<1>2. CASE calls' = calls
  BY <1>2
<1>3. ASSUME NEW other \in Call, NEW external_id \in ProviderId, NEW start \in 0 .. now,
             Insert(other, external_id, start)
      PROVE  calls'[id] = calls[id]
  BY <1>1, <1>3 DEF Insert
<1>4. ASSUME NEW w \in Writer, Execute(w)
      PROVE  calls'[id].created_at = calls[id].created_at
  <2>1. write[w] \in Write /\ WriteOK(w)
    BY <1>4 DEF Execute, SurfaceInv, TypeOK
  <2>2. PICK row \in Outcome(w) : calls' = [calls EXCEPT ![write[w].call] = row]
    BY <1>4 DEF Execute
  <2>3. PICK base \in Row :
          /\ row = apply_update(write[w].change, base, write[w].start)
          /\ base = calls[write[w].call] \/ (write[w].read # None /\ base = write[w].read)
    BY <1>1, <1>4, <2>1, <2>2 DEF Outcome, Write, Execute
  <2>4. row.created_at = base.created_at
    BY <2>3 DEF apply_update, audit_update, Row
  <2>5. CASE write[w].call = id
    <3>1. base.created_at = calls[id].created_at
      BY <2>1, <2>3, <2>5, <1>4 DEF WriteOK, Execute
    <3>2. calls'[id] = row
      BY <1>1, <2>2, <2>5
    <3>3. QED  BY <2>4, <3>1, <3>2
  <2>6. CASE write[w].call # id
    BY <1>1, <2>2, <2>6
  <2>7. QED  BY <2>5, <2>6
<1>5. ASSUME NEW other \in Call, soft_delete(other) \/ restore(other)
      PROVE  calls'[id].created_at = calls[id].created_at
  <2>1. PICK deleted \in BOOLEAN :
          calls' = [calls EXCEPT ![other] = audit_update([calls[other] EXCEPT !.deleted = deleted], now)]
    BY <1>1, <1>5 DEF soft_delete, restore
  <2>2. CASE other = id
    <3>1. calls'[id] = audit_update([calls[id] EXCEPT !.deleted = deleted], now) /\ calls[id] \in Row
      BY <1>1, <2>1, <2>2
    <3>2. QED  BY <3>1 DEF audit_update, Row
  <2>3. CASE other # id
    BY <1>1, <2>1, <2>3
  <2>4. QED  BY <2>2, <2>3
<1>6. ASSUME NEW ids \in SUBSET Call, empty_trash(ids)
      PROVE  calls'[id] = calls[id]
  BY <1>6 DEF empty_trash
<1>7. now \in 0 .. now
  BY DEF SurfaceInv, TypeOK
<1>8. QED
  BY <1>2, <1>3, <1>4, <1>5, <1>6, <1>7
  DEF Next, Tick, record_call, create, record_duplicate, find, link_call, StartStatement, Miss, vars

(* created_at never moves.                                                        *)
THEOREM CreatedAtIsWrittenOnce == Spec => CreatedOnce
<1>1. SurfaceInv /\ [Next]_vars =>
        [\A id \in Call : calls[id] # None /\ calls'[id] # None =>
           calls'[id].created_at = calls[id].created_at]_calls
  BY CreatedAtIsKept
<1>2. QED  BY <1>1, SurfaceInvariance, PTL DEF Spec, CreatedOnce

================================================================================

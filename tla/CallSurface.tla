------------------------------ MODULE CallSurface ------------------------------
(* The routers the module offers, mounted side by side over one unit's calls.     *)
(* The validated surface records a delivery once and stages its event; the        *)
(* generic one creates, replaces, deletes, restores and purges rows and knows     *)
(* neither the provider's ids nor the outbox.  Audit stamps are the database's:   *)
(* the start of the transaction that writes.  record_call is one step here; how   *)
(* its two lookups and its transaction interleave is TelephonyWriteService's.     *)
EXTENDS Naturals

CONSTANTS
    Call,         \* row ids, each given out once
    ExternalId,   \* provider CDR ids
    Deployment,   \* the combinations of routers a composing service mounts
    Writer,       \* updates in flight
    None,         \* SQL NULL; also no row, no write
    MaxTime       \* bound on the database clock

ASSUME ValueAssumption == None \notin ExternalId \cup Nat /\ MaxTime \in Nat

ProviderId == ExternalId \cup {None}

(* What the surfaces tell apart of a row: the provider's id, the soft-delete mark *)
(* and the audit stamps.  The other columns are written along and never read.     *)
Row == [external_id : ProviderId, deleted : BOOLEAN, created_at : Nat, updated_at : Nat]

ASSUME RowAssumption == None \notin Row /\ "kept" \notin ProviderId

VARIABLES
    mounted,    \* the routers the composing service mounted
    calls,      \* the stored rows
    used,       \* ids given out
    outbox,     \* the calls routed, each with the id it was delivered under
    delivered,  \* provider ids of the deliveries answered 200
    foreign,    \* history: provider ids the generic surface gave to a row
    released,   \* history: provider ids the generic surface took off a row
    write,      \* the update each writer is at
    now         \* the database clock

vars == <<mounted, calls, used, outbox, delivered, foreign, released, write, now>>

log == <<used, outbox, delivered>>

--------------------------------------------------------------------------------
(* Mutant: the read-only base serves every generic endpoint.                     *)
readonly_routes_Unguarded == {"get", "create", "update", "soft_delete", "restore", "empty_trash"}

readonly_routes == {"get"}

create_call_write_routes == {"create", "update", "soft_delete", "restore", "empty_trash"}

validated_routes == readonly_routes \cup {"record_call", "link_call"}

all_crud_routes == readonly_routes \cup create_call_write_routes

Routes == [readonly |-> readonly_routes, validated |-> validated_routes,
           writes |-> create_call_write_routes, all_crud |-> all_crud_routes]

ASSUME DeploymentAssumption == Deployment \subseteq SUBSET DOMAIN Routes

Serves(operation) == \E surface \in mounted : operation \in Routes[surface]

(* Mutant: created_at is the time of the insert, updated_at of its transaction.  *)
audit_insert_Clock(external_id, start) ==
    [external_id |-> external_id, deleted |-> FALSE, created_at |-> now, updated_at |-> start]

(* A fresh row after the audit trigger: both stamps are NOW(), the transaction's   *)
(* start.                                                                        *)
audit_insert(external_id, start) ==
    [external_id |-> external_id, deleted |-> FALSE, created_at |-> start, updated_at |-> start]

(* Mutant: the trigger does not tell an UPDATE from an INSERT.                   *)
audit_update_Recreates(row, start) ==
    [row EXCEPT !.created_at = start, !.updated_at = start]

(* An updated row after it. *)
audit_update(row, start) == [row EXCEPT !.updated_at = start]

(* Mutant: a soft-deleted row gives its provider id up.                          *)
Holders_Live(external_id) ==
    {id \in Call : calls[id] # None /\ ~calls[id].deleted /\ calls[id].external_id = external_id}

(* The rows a lookup by provider id finds and the unique index counts, the        *)
(* soft-deleted ones among them; NULLs never collide.                            *)
Holders(external_id) ==
    {id \in Call : calls[id] # None /\ calls[id].external_id = external_id /\ external_id # None}

Init ==
    /\ mounted \in Deployment
    /\ calls = [id \in Call |-> None]
    /\ used = {}
    /\ outbox = {}
    /\ delivered = {}
    /\ foreign = {}
    /\ released = {}
    /\ write = [w \in Writer |-> None]
    /\ now = 0

Tick ==
    /\ now < MaxTime
    /\ now' = now + 1
    /\ UNCHANGED <<mounted, calls, log, foreign, released, write>>

Insert(id, external_id, start) ==
    /\ id \notin used
    /\ start \in 0 .. now
    /\ calls' = [calls EXCEPT ![id] = audit_insert(external_id, start)]
    /\ used' = used \cup {id}

--------------------------------------------------------------------------------
(* Mutant: the event is left to whoever reads the log.                           *)
record_call_NoEvent(id, external_id, start) ==
    /\ Serves("record_call")
    /\ Holders(external_id) = {}
    /\ Insert(id, external_id, start)
    /\ delivered' = delivered \cup {external_id}
    /\ UNCHANGED <<mounted, outbox, foreign, released, write, now>>

(* A delivery nobody holds the provider id of: one row and one event, committed   *)
(* together.                                                                     *)
record_call(id, external_id, start) ==
    /\ Serves("record_call")
    /\ Holders(external_id) = {}
    /\ Insert(id, external_id, start)
    /\ outbox' = outbox \cup {<<id, external_id>>}
    /\ delivered' = delivered \cup {external_id}
    /\ UNCHANGED <<mounted, foreign, released, write, now>>

(* Any other is answered by the call that holds it, and announces nothing. *)
record_duplicate(external_id) ==
    /\ Serves("record_call")
    /\ Holders(external_id) # {}
    /\ delivered' = delivered \cup {external_id}
    /\ UNCHANGED <<mounted, calls, used, outbox, foreign, released, write, now>>

(* Call::from(CreateCallDto) and its insert; no event. *)
create(id, external_id) ==
    /\ Serves("create")
    /\ Holders(external_id) = {}
    /\ Insert(id, external_id, now)
    /\ foreign' = foreign \cup ({external_id} \ {None})
    /\ UNCHANGED <<mounted, outbox, delivered, released, write, now>>

Live(id) == calls[id] # None /\ ~calls[id].deleted

(* PUT gives every column, and makes an optional one it omits NULL; PATCH may keep *)
(* the provider's id.  The row is read first.                                    *)
Kept == "kept"

Change == ProviderId \cup {Kept}

find(w, id, change) ==
    /\ Serves("update")
    /\ write[w] = None
    /\ Live(id)
    /\ write' = [write EXCEPT ![w] = [call |-> id, change |-> change, read |-> calls[id], start |-> None]]
    /\ UNCHANGED <<mounted, calls, log, foreign, released, now>>

(* One statement on a call the caller was told of, live or not any more. *)
link_call(w, id) ==
    /\ Serves("link_call")
    /\ write[w] = None
    /\ id \in used
    /\ write' = [write EXCEPT ![w] = [call |-> id, change |-> Kept, read |-> None, start |-> None]]
    /\ UNCHANGED <<mounted, calls, log, foreign, released, now>>

(* The statement starts, and waits for whoever has the row. *)
StartStatement(w) ==
    /\ write[w] # None
    /\ write[w].start = None
    /\ write' = [write EXCEPT ![w].start = now]
    /\ UNCHANGED <<mounted, calls, log, foreign, released, now>>

(* Mutant: a full update puts the request in the place of the row.               *)
apply_update_Replaced(change, row, start) ==
    audit_insert(IF change = Kept THEN row.external_id ELSE change, now)

(* What the request gives, on top of the row it started from. *)
apply_update(change, row, start) ==
    audit_update([row EXCEPT !.external_id = IF change = Kept THEN @ ELSE change], start)

(* What the statement may leave: a link changes the stored row, if it is live; an *)
(* update writes its columns alone or all it read, the soft-delete mark included. *)
Outcome(w) ==
    LET stored == calls[write[w].call]
        bases  == IF write[w].read # None THEN {stored, write[w].read}
                  ELSE IF stored.deleted THEN {} ELSE {stored}
    IN  {apply_update(write[w].change, row, write[w].start) : row \in bases}

Execute(w) ==
    /\ write[w] # None
    /\ write[w].start # None
    /\ calls[write[w].call] # None
    /\ \E row \in Outcome(w) :
         LET id  == write[w].call
             old == calls[id].external_id
         IN  /\ Holders(row.external_id) \subseteq {id}
             /\ calls' = [calls EXCEPT ![id] = row]
             /\ foreign' = foreign \cup ({row.external_id} \ {old, None})
             /\ released' = released \cup ({old} \ {row.external_id, None})
    /\ write' = [write EXCEPT ![w] = None]
    /\ UNCHANGED <<mounted, log, now>>

(* No row any more, the unique index, a failure. *)
Miss(w) ==
    /\ write[w] # None
    /\ write' = [write EXCEPT ![w] = None]
    /\ UNCHANGED <<mounted, calls, log, foreign, released, now>>

soft_delete(id) ==
    /\ Serves("soft_delete")
    /\ Live(id)
    /\ calls' = [calls EXCEPT ![id] = audit_update([@ EXCEPT !.deleted = TRUE], now)]
    /\ UNCHANGED <<mounted, log, foreign, released, write, now>>

restore(id) ==
    /\ Serves("restore")
    /\ calls[id] # None
    /\ calls[id].deleted
    /\ calls' = [calls EXCEPT ![id] = audit_update([@ EXCEPT !.deleted = FALSE], now)]
    /\ UNCHANGED <<mounted, log, foreign, released, write, now>>

empty_trash(ids) ==
    /\ Serves("empty_trash")
    /\ \A id \in ids : calls[id] # None /\ calls[id].deleted
    /\ calls' = [id \in Call |-> IF id \in ids THEN None ELSE calls[id]]
    /\ released' = released \cup ({calls[id].external_id : id \in ids} \ {None})
    /\ UNCHANGED <<mounted, log, foreign, write, now>>

Next ==
    \/ Tick
    \/ \E id \in Call, external_id \in ProviderId :
         (\E start \in 0 .. now : record_call(id, external_id, start)) \/ create(id, external_id)
    \/ \E external_id \in ExternalId : record_duplicate(external_id)
    \/ \E w \in Writer, id \in Call :
         (\E change \in Change : find(w, id, change)) \/ link_call(w, id)
    \/ \E w \in Writer : StartStatement(w) \/ Execute(w) \/ Miss(w)
    \/ \E id \in Call : soft_delete(id) \/ restore(id)
    \/ \E ids \in SUBSET Call : empty_trash(ids)

Spec == Init /\ [][Next]_vars

--------------------------------------------------------------------------------
(* A provider's delivery is swallowed by no row but one the generic surface gave  *)
(* its id to: every id answered 200 was routed, whatever was updated, deleted,     *)
(* restored or purged meanwhile (record_call's lookup finds rows that never had   *)
(* an event).                                                                    *)
NoDeliveryIsSwallowed ==
    \A external_id \in delivered \ {None} :
        external_id \in foreign \/ \E id \in Call : <<id, external_id>> \in outbox

(* One provider call is routed twice only after the generic surface took its id   *)
(* off a row; deleting softly or restoring is not enough (find_by_external_id and  *)
(* the unique count soft-deleted rows).                                          *)
RoutedAgainOnlyAfterRelease ==
    \A id, other \in Call, external_id \in ExternalId :
        <<id, external_id>> \in outbox /\ <<other, external_id>> \in outbox =>
            id = other \/ external_id \in released

(* Behind the read-only and validated routers the log and the outbox say the      *)
(* same: every row was routed under the id it still has, every routed call is      *)
(* still a live row ("generic mutation cannot reach here", validated_routes).     *)
ValidatedSurfaceKeepsTheLog ==
    mounted \subseteq {"readonly", "validated"} =>
        /\ outbox = {<<id, calls[id].external_id>> : id \in {i \in Call : calls[i] # None}}
        /\ \A id \in Call : calls[id] # None => ~calls[id].deleted

(* No row was updated before it was created, with updates that wait for the row    *)
(* and transactions that commit late (calls_audit_timestamp).                     *)
StampsInOrder ==
    \A id \in Call : calls[id] # None => calls[id].created_at <= calls[id].updated_at

(* created_at is written once: an update that replaces the row, or writes back     *)
(* all it read, leaves it (apply_update keeps the metadata, the trigger restamps   *)
(* updated_at alone).                                                             *)
CreatedOnce ==
    [][\A id \in Call : calls[id] # None /\ calls'[id] # None =>
         calls'[id].created_at = calls[id].created_at]_calls

Write == [call : Call, change : Change, read : Row \cup {None}, start : Nat \cup {None}]

TypeOK ==
    /\ mounted \in Deployment
    /\ calls \in [Call -> Row \cup {None}]
    /\ used \subseteq Call
    /\ outbox \subseteq Call \X ProviderId
    /\ delivered \subseteq ProviderId
    /\ foreign \subseteq ExternalId
    /\ released \subseteq ExternalId
    /\ write \in [Writer -> Write \cup {None}]
    /\ now \in Nat

(* A row has an id that was given out, a provider id that a routed delivery or the *)
(* generic surface gave it, and stamps in order.                                  *)
RowOK(id) ==
    calls[id] # None =>
        /\ id \in used
        /\ calls[id].external_id # None =>
             <<id, calls[id].external_id>> \in outbox \/ calls[id].external_id \in foreign
        /\ calls[id].created_at <= calls[id].updated_at
        /\ calls[id].created_at <= now

OneHolder ==
    \A id, other \in Call :
        /\ calls[id] # None
        /\ calls[other] # None
        /\ calls[id].external_id # None
        /\ calls[id].external_id = calls[other].external_id
        => id = other

(* A routed call has the id it was routed under until that id is released. *)
EventOK ==
    \A id \in Call, external_id \in ProviderId :
        <<id, external_id>> \in outbox =>
            /\ id \in used
            /\ external_id \in ExternalId \ released =>
                 calls[id] # None /\ calls[id].external_id = external_id

(* An update in flight read the row it is about to write, or a past of it, and its *)
(* statement starts after the row was created; a link reads nothing, and is all    *)
(* that is in flight while the generic surface is not mounted.                    *)
WriteOK(w) ==
    LET id     == write[w].call
        read   == write[w].read
        start  == write[w].start
    IN  write[w] # None =>
          /\ id \in used
          /\ read = None => write[w].change = Kept
          /\ mounted \subseteq {"readonly", "validated"} => read = None
          /\ read # None /\ calls[id] # None => read.created_at = calls[id].created_at
          /\ start # None => start <= now
          /\ start # None /\ calls[id] # None => calls[id].created_at <= start

(* What makes the safety properties inductive. *)
SurfaceInv ==
    /\ TypeOK
    /\ \A id \in Call : RowOK(id)
    /\ OneHolder
    /\ EventOK
    /\ \A w \in Writer : WriteOK(w)
    /\ NoDeliveryIsSwallowed
    /\ ValidatedSurfaceKeepsTheLog

================================================================================

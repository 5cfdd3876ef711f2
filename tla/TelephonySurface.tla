--------------------------- MODULE TelephonySurface ---------------------------
(* One unit's calls as the module's routers see them.  CallSurface takes a       *)
(* delivery in one step and says which routers may touch what it left behind;    *)
(* TelephonyWriteService says how two lookups, a transaction and a commit get    *)
(* there.  This is the second seen as the first.                                 *)
EXTENDS TelephonyInvariant

CONSTANT Home     \* the unit looked at

ASSUME HomeAssumption == Home \in Unit

(* The routers the module's composition mounts. *)
Mounted == {"validated"} \cup IF AdminCrud THEN {"all_crud"} ELSE {}

InHome(row) == row # None /\ row.unit = Home

(* What the surfaces tell apart of a row; the clock stands still. *)
SurfaceRow(row) ==
    [external_id |-> row.cdr.external_id, deleted |-> row.deleted, created_at |-> 0, updated_at |-> 0]

SurfaceCalls == [r \in Request |-> IF InHome(calls[r]) THEN SurfaceRow(calls[r]) ELSE None]

(* The calls ever recorded in the unit: their events stay in the outbox. *)
Recorded == {r \in Request : outbox[r] # None /\ req[r].scope = Home}

ProviderIds(recorded) == {req[r].cdr.external_id : r \in recorded}

Purged == {r \in Recorded : calls[r] = None}

Surface == INSTANCE CallSurface WITH
    Call <- Request, Deployment <- {Mounted}, Writer <- {}, MaxTime <- 0,
    mounted <- Mounted,
    calls <- SurfaceCalls,
    used <- Recorded,
    outbox <- {<<r, req[r].cdr.external_id>> : r \in Recorded},
    delivered <- ProviderIds(Recorded),
    foreign <- {},
    released <- ProviderIds(Purged) \ {None},
    write <- [w \in {} |-> None],
    now <- 0

ASSUME SurfaceAssumption == None \notin Surface!Row

(* In the unit, every interleaving of deliveries, lock waits, failures and late    *)
(* commits looks like deliveries taken in one after the other, beside the soft     *)
(* deletes, restores and purges of the generic surface (record_call, insert_cdr). *)
ImplementsSurface == Surface!Spec
================================================================================

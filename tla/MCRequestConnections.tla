-------------------------- MODULE MCRequestConnections --------------------------
(* Connections on small instances: the boot pool and one tenant's pool.          *)
EXTENDS RequestConnections

CONSTANTS b1, t1, t2, boot, tenant, u1, u2

MCPoolOf == [c \in Conn |-> IF c = b1 THEN boot ELSE tenant]

OnTenant(operation, s) == [operation |-> operation, pool |-> tenant, scope |-> s]

(* Deliveries of one unit, links of another, links without a scope. *)
MCArrival == {OnTenant("record", u1), OnTenant("link", u2), OnTenant("link", NoScope)}

================================================================================

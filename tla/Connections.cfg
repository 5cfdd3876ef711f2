\* Three requests, one of them more than the tenant's pool can dedicate a connection to; the boot pool has one.
\* Finitely many requests: the system stops when all are answered.
SPECIFICATION FairSpec
CONSTANTS
    b1 = b1
    t1 = t1
    t2 = t2
    boot = boot
    tenant = tenant
    None = None
    NoScope = NoScope
    Handler = {h1, h2, h3}
    Pool = {boot, tenant}
    Boot = boot
    Conn = {b1, t1, t2}
    PoolOf <- MCPoolOf
    u1 = u1
    u2 = u2
    Unit = {u1, u2}
    Arrival <- MCArrival
INVARIANTS
    ConnInv
    StatementsKnowTheirTenant
    ScopeDiesWithItsRequest
    OnlyBeginStarves
PROPERTIES
    EveryHandlerReturns
    EveryConnectionIsReturned
CHECK_DEADLOCK FALSE

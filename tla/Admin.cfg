\* Decorated deployment with the generic endpoints mounted: rows are deleted, restored and purged under the race,
\* and three deliveries wait for each other while any handler fails or is dropped.
\* Finitely many deliveries: the system stops when all are answered.
SPECIFICATION FairSpec
CONSTANTS
    e1 = e1
    s1 = s1
    co1 = co1
    co2 = co2
    u1 = u1
    u2 = u2
    u3 = u3
    Home = u1
    None = None
    NoScope = NoScope
    Request = {r1, r2, r3}
    ExternalId = {e1}
    Subject = {s1}
    Company = {co1, co2}
    Unit = {u1}
    TicksPerSecond = 2
    I32Max = 3
    DeclaredChecks = TRUE
    Cdr <- RedeliveredCdrs
    LegacyCompany <- OwnCompany
    Fenced = TRUE
    PerUnitUnique = TRUE
    AdminCrud = TRUE
INVARIANTS
    IInv
    AcknowledgedIsRouted
    PublishedIsStaged
PROPERTIES
    RecordedWithItsEvent
    ImplementsCdrLog
    ImplementsSurface
    EveryRequestReturns
CHECK_DEADLOCK FALSE

\* The module on its own: no fence, no unique.
\* Finitely many deliveries: the system stops when all are answered.
SPECIFICATION Spec
CONSTANTS
    e1 = e1
    s1 = s1
    co1 = co1
    co2 = co2
    u1 = u1
    u2 = u2
    u3 = u3
    Home = u1
    None = None
    NoScope = NoScope
    Request = {r1, r2}
    ExternalId = {e1}
    Subject = {s1}
    Company = {co1, co2}
    Unit = {u1, u2}
    TicksPerSecond = 2
    I32Max = 3
    DeclaredChecks = FALSE
    Cdr <- RaceCdrs
    LegacyCompany <- OwnCompany
    Fenced = FALSE
    PerUnitUnique = FALSE
    AdminCrud = FALSE
INVARIANTS
    AcknowledgedIsRecorded
PROPERTIES
    ImplementsCdrLog
CHECK_DEADLOCK FALSE

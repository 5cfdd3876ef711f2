\* Decorated deployment: three deliveries in two units race over one provider id,
\* beside what the code refuses: blank numbers, no scope, no company, a row the database rejects.
\* Finitely many deliveries: the system stops when all are answered.
SPECIFICATION Spec
CONSTANTS
    e1 = e1
    s1 = s1
    co1 = co1
    co2 = co2
    u1 = u1
    u2 = u2
    u3 = u3
    Home = u1
    None = None
    NoScope = NoScope
    Request = {r1, r2, r3}
    ExternalId = {e1}
    Subject = {s1}
    Company = {co1, co2}
    Unit = {u1, u2, u3}
    TicksPerSecond = 2
    I32Max = 3
    DeclaredChecks = TRUE
    Cdr <- RaceCdrs
    LegacyCompany <- OwnCompany
    Fenced = TRUE
    PerUnitUnique = TRUE
    AdminCrud = FALSE
SYMMETRY RequestSymmetry
INVARIANTS
    OneCallPerProviderId
    AcknowledgedIsRecorded
    RedeliveriesAgree
    OneOriginal
    RefusedLeavesNothing
    RowsMatchTheirEvents
CHECK_DEADLOCK FALSE

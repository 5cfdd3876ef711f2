\* A migrator row security does not bind; releases start and stop at any time.
SPECIFICATION Spec
CONSTANTS
    None = None
    co1 = co1  co2 = co2
    u1 = u1  u2 = u2  u3 = u3
    Call = {k1, k2, k3}
    Company = {co1, co2}
    Unit = {u1, u2, u3}
    CompanyOf <- MCCompanyOf
    UnitOf <- MCUnitOf
    MigratorBypasses = TRUE
SYMMETRY CallSymmetry
INVARIANTS
    UpgradeInv
    KeyKept
    OwnerSees
    DedupKept
    FenceHolds

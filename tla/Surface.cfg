\* Two calls, one provider id, two updates in flight; the validated router alone and beside each generic one.
SPECIFICATION Spec
CONSTANTS
    Call = {c1, c2}
    ExternalId = {e1}
    Deployment <- MCDeployment
    Writer = {w1, w2}
    None = None
    MaxTime = 1
INVARIANTS
    SurfaceInv
    NoDeliveryIsSwallowed
    RoutedAgainOnlyAfterRelease
    ValidatedSurfaceKeepsTheLog
    StampsInOrder
PROPERTIES
    CreatedOnce
SYMMETRY Symmetry
CHECK_DEADLOCK FALSE

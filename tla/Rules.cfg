\* Two updates of one row in flight while it is recorded, linked and purged and the constraints come and go.
SPECIFICATION Spec
CONSTANTS
    None = None
    Call = {k1}
    Update = {w1, w2}
    Submitted <- MCSubmitted
    Stored <- MCStored
    Declared <- MCDeclared
    SubjectType <- MCSubjectType
    RuleTrimsTabs = TRUE
SYMMETRY UpdateSymmetry
INVARIANTS
    RulesInv
    ConstraintsHold
    GuardLetsNothingIn
    GuardAnticipatesChecks

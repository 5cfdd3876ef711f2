\* One state per input; a CDR whose end is set is final, and so are a page and a patch applied.
SPECIFICATION Spec
CONSTANTS
    c1 = c1
    u1 = u1
    v1 = v1
    v2 = v2
    None = None
    NoScope = NoScope
    Malformed = Malformed
    Omit = Omit
    Modulus = 32
    Value = {v1, v2}
    Null = Null
    ExternalId = {}
    Subject = {}
    Company = {c1}
    Unit = {u1}
    TicksPerSecond = 3
    I32Max = 2
    DeclaredChecks = TRUE
    Cdr <- Cdrs
    Later <- Times
    Listing <- Listings
    Edit <- Edits
INVARIANTS
    TalkTimeIsWholeSeconds
    PagesPartitionTheList
    PatchIsReadModifyPut
    NoChangesOnlyClears
CHECK_DEADLOCK FALSE

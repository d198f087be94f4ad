\* A chain of two credentials, a recovery, a registry with backers, an owner.
SPECIFICATION MCSpec
CONSTANTS
    TelEvent = {"r", "s", "g", "g1", "ci", "cj", "cr", "di", "eb", "er"}
    Registry = {"r", "s", "g"}
    KelEvent = {"a0", "a1", "a2", "a3", "a2j", "h1", "h2", "h3", "h4", "b0", "b1", "b2"}
    Cred = {"c", "d", "e"}
    Aid = {"A", "B"}
    Backer = {"w", "v"}
    Schema = {"x"}
    None = "none"
    MaxSn = 4
    Old = {}
    Tel <- MCTel
    Kel <- MCKel
    Card <- MCCard
INVARIANTS LogChained
PROPERTIES LoggedAnchored SavedVouched NothingForgotten LoggedAtLast SavedAtLast
CHECK_DEADLOCK FALSE

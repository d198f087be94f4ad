\* Two families, each in any order.
SPECIFICATION MCSpec
CONSTANTS
    Event = {"k0", "k1", "k2", "k2r", "k3", "x0", "x1", "b0", "b1", "b2", "b1r", "b1s", "b1t",
             "r0", "r1", "r2", "r3", "d0", "d1", "d2", "d2r", "a0", "a1", "a1r",
             "a2", "x1r", "x2", "x1s"}
    None = "none"
    MaxSn = 3
    Pre <- MCPre
    Ev <- Log
    Delegator <- MCDelegator
    Dnd = {}
INVARIANTS DelegatedAnchored SealsNameAnchors ChainStands
PROPERTIES GivesWayToStronger EstablishedStays StrongestStands
CHECK_DEADLOCK FALSE

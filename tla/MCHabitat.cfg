\* Two identifiers and a group; failed rotations; two stops.
SPECIFICATION Spec
CONSTANTS
    Salty = {"s"}
    Randy = {"r"}
    Group = {g}
    None = None
    MaxRidx = 3
    MaxMade = 3
    MaxCrashes = 2
INVARIANTS KeysKept KeeperFollowsLog OwnsItsHabitats
CHECK_DEADLOCK FALSE

\* Signatures spread over nine messages, and a crash between any two store writes.
SPECIFICATION CrashSpec
CONSTANTS
    Pre = {"A"}
    Transferable = {"A"}
    Key <- Keys
    Wit = {}
    Habs = {"A"}
    Groups = {}
    Event <- Events
    Ev <- Bodies
    NoEvent = NoEvent
    MaxSn = 3
    Messages <- Sent
    Receipts = {}
    Resent <- Sent
    Lax = FALSE
    MayExpire = FALSE
    MaxCrashes = 1
INVARIANTS AcceptedAuthorized StateFromChain WriteOrder
PROPERTIES StateNeverRollsBack
CHECK_DEADLOCK FALSE

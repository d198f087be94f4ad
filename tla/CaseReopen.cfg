\* A remote identifier known before a restart, its events sent again after it.
SPECIFICATION RestartSpec
CONSTANTS
    Pre = {"A"}
    Transferable = {"A"}
    Key <- Keys
    Wit = {}
    Habs = {}
    Groups = {}
    Event <- Events
    Ev <- Bodies
    NoEvent = NoEvent
    MaxSn = 3
    Messages <- Sent
    Receipts = {}
    Resent <- Sent
    Lax = FALSE
    MayExpire = FALSE
    MaxCrashes = 1
PROPERTIES StateNeverRollsBack
CHECK_DEADLOCK FALSE

\* Recovery by rotation under any order and repetition of eight messages.
SPECIFICATION Spec
CONSTANTS
    Pre = {"A"}
    Transferable = {"A"}
    Key <- Keys
    Wit = {}
    Habs = {}
    Groups = {}
    Event <- Events
    Ev <- Bodies
    NoEvent = NoEvent
    MaxSn = 3
    Messages <- Sent
    Receipts = {}
    Resent <- Sent
    Lax = FALSE
    MayExpire = FALSE
    MaxCrashes = 0
INVARIANTS TypeOK LogInv KelChain FirstSeenOnce EstNeverSuperseded
PROPERTIES ImplementsKeyEventLog
CHECK_DEADLOCK FALSE

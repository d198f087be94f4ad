\* Witness receipts and protected identifiers, under any order and repetition.
SPECIFICATION HistoriesSpec
CONSTANTS
    Pre = {"A", "B", "C"}
    Transferable = {"A", "B", "C"}
    Key <- Keys
    Wit <- Wits
    Habs = {"A", "wl"}
    Groups = {}
    Event <- Events
    Ev <- Bodies
    NoEvent = NoEvent
    MaxSn = 2
    Messages <- Sent
    Receipts <- Posted
    Resent <- Every
    Lax = FALSE
    MayExpire = TRUE
    MaxCrashes = 1
INVARIANTS AcceptedWitnessed EstReceiptsFiled ProtectedOnlyLocal
CHECK_DEADLOCK FALSE

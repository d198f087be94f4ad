\* Eventual acceptance: every message once, or one stop between two writes.
SPECIFICATION HistoriesSpec
CONSTANTS
    Pre = {"A", "B", "C", "D"}
    Transferable = {"A", "B", "C", "D"}
    Key <- Keys
    Wit <- Wits
    Habs = {"D"}
    Groups = {}
    Event <- Events
    Ev <- Bodies
    NoEvent = NoEvent
    MaxSn = 2
    Messages <- Sent
    Receipts <- Posted
    Resent <- SentD
    Lax = FALSE
    MayExpire = FALSE
    MaxCrashes = 1
INVARIANTS TransReceiptsSealed
PROPERTIES Converges SweepsCatchUp
CHECK_DEADLOCK FALSE

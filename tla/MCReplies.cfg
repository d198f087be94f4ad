\* Replies in any order, resent, with one stop between two writes.
SPECIFICATION HistoriesSpec
CONSTANTS
    Pre = {"C"}
    Event <- Events
    Ev <- Bodies
    Accepting <- Order
    Key = {"k0", "k1", "k2", "k9"}
    Reply <- ReplyNames
    Rep <- Replies
    Slot <- Slots
    Source <- Sources
    Lax = FALSE
    Messages <- All
    Held = {"rot"}
    Late = {}
    None = None
    MaxCrashes = 1
INVARIANTS ShownOnRecord ShownAuthorized
PROPERTIES BestPrevails
CHECK_DEADLOCK FALSE

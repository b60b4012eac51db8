SPECIFICATION FairSpec
CONSTANTS
    Generator = {g1}
    Lot = 1
    EnrolledMax = 1
    Widest = 1
    Broker = {zerodha}
    LostReplies = TRUE
    MaxIntents = 2
PROPERTIES TradesSettle GeneratedResolves

SPECIFICATION Spec
CONSTANTS
    Generator = {g1}
    Lot = 1
    EnrolledMax = 3
    Widest = 1
    Broker = {zerodha}
    LostReplies = FALSE
    MaxIntents = 3
INVARIANT NeverStacksOrders

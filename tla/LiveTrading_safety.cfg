SPECIFICATION Spec
CONSTANTS
    Generator = {g1, g2}
    Lot = 1
    EnrolledMax = 2
    Widest = 2
    Broker = {zerodha}
    LostReplies = TRUE
    MaxIntents = 2
SYMMETRY Symmetry
ACTION_CONSTRAINTS SwitchBound LimitsBound
INVARIANTS TypeOK PositionBacked SubmittedHasTrade OneUnconfirmed RateCap

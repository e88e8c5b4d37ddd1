SPECIFICATION RankSpec
CONSTANTS
    Base = 26
    MaxMoves = 9
CHECK_DEADLOCK FALSE
INVARIANT DroppedWhereAsked

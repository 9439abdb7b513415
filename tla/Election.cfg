\* Three controllers; they freeze, wake, write late, and may stop for good.
SPECIFICATION FairSpec
CONSTANTS
    Candidates = {a, b, c}
    NoOne = NoOne
    LeaseTicks = 2
    MaxToken = 4
    MaxWrites = 3
INVARIANTS
    FenceHolds
PROPERTIES
    ReignsAreKept
    Succession

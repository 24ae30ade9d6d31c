\* Three entries over a clock that runs past the rate window.
CONSTANTS
    Entries = {e1, e2, e3}
    RateWindow = 1
    MaxTime = 2
SPECIFICATION FairSpec
INVARIANTS TypeOK CountsPromotions PositionFollowsOrder
PROPERTIES PromotionsAreCounted RateOfWindow

SPECIFICATION FairSpec
CONSTANTS
    Publisher = {w1, w2}
    Event = {1, 2, 3}
    Poison = {1}
    Limit = 2
INVARIANTS
    TypeOK
    PublishedWasDelivered
PROPERTIES
    PublishedIsFinal
    PublishedUnlessNobodyCalls
CHECK_DEADLOCK FALSE

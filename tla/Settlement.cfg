SPECIFICATION FairSettlement
CONSTANTS
    Publisher = {w1}
    Event = {1, 2, 3}
    Poison = {1}
    Limit = 2
    Key = {k1}
    QuoteId = {q1}
    ConversionId = {c1}
    Instant = {0, 1}
    Handler = {h1, h2}
    Provider = {p1}
    EventId = {e1, e2}
    Ref = {r1, r2}
    Message <- PaidAndTransferred
    Numbering <- Orders
    None = None
    c1 = c1
    p1 = p1
    e1 = e1
    e2 = e2
    r1 = r1
    r2 = r2
INVARIANT
    OutboxTellsTheStory
PROPERTIES
    ImplementsLife
    Settled

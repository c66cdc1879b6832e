SPECIFICATION FairSpec
CONSTANTS
    Handler = {h1, h2}
    Key = {k1, k2}
    QuoteId = {q1, q2, q3}
    Currency = {KRW, USD, EUR}
    FeeCurrency = KRW
    Call <- Mixed
    MaxEdition = 1
    None = None
    KRW = KRW
    USD = USD
    EUR = EUR
    k1 = k1
    k2 = k2
PROPERTIES
    RequestsFinish
    RetriesAreServed

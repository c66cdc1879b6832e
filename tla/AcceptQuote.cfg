SPECIFICATION Spec
CONSTANTS
    Handler = {h1, h2}
    Key = {k1, k2}
    QuoteId = {q1, q2}
    ConversionId = {c1, c2, c3}
    QuoteTTL = 1
    MaxTime = 2
    None = None
SYMMETRY Interchangeable
INVARIANTS
    TypeOK
    OneConversionPerQuoteAndKey
    AcceptanceIsAtomic
    AnswersAgree
    ConflictIsJustified
    QuoteIsWonByInserting
PROPERTIES
    ImplementsAcceptance

SPECIFICATION Spec
CONSTANTS
    KRW = KRW
    USD = USD
    k1 = k1
    k2 = k2
    Blank = Blank
    TooLong = TooLong
    Other = Other
    None = None
    Currency = {KRW, USD}
    Key = {k1, k2}
    QuoteId = {q1, q2}
    ConversionId = {c1, c2}
    Unit <- Units
    MaxMinor = 32767
    ProviderText <- ProviderTexts
    RateUnit = 1000
    FeeBPS = 50
    MinFee <- Minimum
    Provider <- Market
    QuoteCall <- Quotations
    ConversionCall <- Acceptances
    ReadCall <- Readings
    RatesCall <- RateQueries
SYMMETRY Interchangeable
INVARIANTS
    TypeOK
    PricedRight
    TransportsAgree
    TermsAreKept

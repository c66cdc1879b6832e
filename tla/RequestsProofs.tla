----------------------------- MODULE RequestsProofs ----------------------------
(***************************************************************************)
(* Proofs about Money and Requests, for every width of the integers, every *)
(* fee and every set of requests.                                          *)
(***************************************************************************)
EXTENDS Requests, TLAPS

--------------------------------------------------------------------------------
(* Integers. *)

\* Division with a remainder, for any positive divisor.
LEMMA Division ==
    ASSUME NEW n \in Int, NEW d \in Nat \ {0}
    PROVE  /\ n \div d \in Int /\ n % d \in Int
           /\ n = d * (n \div d) + (n % d) /\ 0 <= n % d /\ n % d < d
  BY SMTT(30)

\* Wrap leaves alone what fits.
LEMMA WrapFits ==
    ASSUME NEW x \in Minor
    PROVE  Wrap(x) = x
  <1> DEFINE y == x + MaxMinor + 1
             w == 2 * (MaxMinor + 1)
  <1>1. y \in Nat /\ w \in Nat \ {0} /\ y < w
    BY MoneyAssumption DEF Minor
  <1> HIDE DEF y, w
  <1>2. y % w = y
    <2>1. y \div w \in Int /\ y % w \in Int
          /\ y = w * (y \div w) + (y % w) /\ 0 <= y % w /\ y % w < w
      BY <1>1, Division
    <2> DEFINE q == y \div w
               r == y % w
    <2> HIDE DEF q, r
    <2>2. q \in Int /\ r \in Int /\ y = w * q + r /\ 0 <= r /\ r < w
      BY <2>1 DEF q, r
    <2>3. q = 0
      <3>1. CASE q >= 1
        <4>1. w * q >= w
          BY <1>1, <2>2, <3>1
        <4> QED
          BY <4>1, <1>1, <2>2
      <3>2. CASE q <= -1
        <4>1. w * q <= -w
          BY <1>1, <2>2, <3>2
        <4> QED
          BY <4>1, <1>1, <2>2
      <3> QED
        BY <3>1, <3>2, <2>2
    <2> QED
      BY <2>2, <2>3, <1>1 DEF r
  <1> QED
    BY <1>2, MoneyAssumption DEF Wrap, y, w, Minor

\* Wrap always yields an integer of the width.
LEMMA WrapType ==
    ASSUME NEW x \in Int
    PROVE  Wrap(x) \in Minor
  <1> DEFINE y == x + MaxMinor + 1
             w == 2 * (MaxMinor + 1)
  <1>1. y \in Int /\ w \in Nat \ {0}
    BY MoneyAssumption
  <1> HIDE DEF y
  <1>2. y % w \in Int /\ 0 <= y % w /\ y % w < w
    <2> HIDE DEF w
    <2> QED
      BY <1>1, Division
  <1> QED
    BY <1>2, MoneyAssumption DEF Wrap, y, Minor

--------------------------------------------------------------------------------
(* Fees. *)

LEMMA QuoType ==
    ASSUME NEW x \in Minor
    PROVE  LET up == Quo10000(x) + (IF Rem10000(x) # 0 THEN 1 ELSE 0)
           IN  up \in Minor
  BY MoneyAssumption DEF Quo10000, Rem10000, Minor

\* The fee of FeeFromBPS is an int64 no less than the minimum.
LEMMA FeeType ==
    ASSUME NEW base \in Money, NEW bps \in Nat, NEW minimum \in Money,
           minimum.minor >= 0
    PROVE  LET fee == FeeFromBPS(base, bps, minimum)
           IN  /\ fee.minor \in Minor /\ fee.minor >= minimum.minor
               /\ fee.currency = base.currency
  <1>1. base.minor * bps \in Int
    BY DEF Money, Minor
  <1>2. Wrap(base.minor * bps) \in Minor
    BY <1>1, WrapType
  <1> QED
    BY <1>2, QuoType DEF FeeFromBPS, Money, Minor

\* Unless the product overflows, FeeFromBPS charges the least whole amount that
\* covers the basis points.
THEOREM FeeIsDue ==
    ASSUME NEW base \in Money, NEW bps \in Nat, NEW minimum \in Money,
           base.minor > 0, minimum.minor >= 0, base.minor * bps <= MaxMinor
    PROVE  IsFeeDue(FeeFromBPS(base, bps, minimum).minor, base.minor, bps, minimum.minor)
  <1> DEFINE p == base.minor * bps
  <1>1. p \in Minor /\ p >= 0
    <2>1. base.minor \in Nat
      BY DEF Money, Minor
    <2>2. p \in Nat
      BY <2>1
    <2> QED
      BY <2>2, MoneyAssumption DEF Minor
  <1>2. Wrap(p) = p
    BY <1>1, WrapFits
  <1>3. FeeFromBPS(base, bps, minimum).minor =
          LET up == (p \div 10000) + (IF p % 10000 # 0 THEN 1 ELSE 0)
          IN  IF up < minimum.minor THEN minimum.minor ELSE up
    BY <1>1, <1>2 DEF FeeFromBPS, Quo10000, Rem10000, Minor
  <1>4. minimum.minor \in Int
    BY DEF Money, Minor
  <1> HIDE DEF p
  <1> QED
    BY <1>1, <1>3, <1>4 DEF IsFeeDue, p, Minor

--------------------------------------------------------------------------------
(* Conversion. *)

\* Rounding half to even yields an integer nearest to the fraction, the even one
\* of two, for every fraction.
THEOREM RoundIsNearest ==
    ASSUME NEW n \in Int, NEW d \in Nat \ {0}
    PROVE  RoundBank(n, d) \in Int /\ IsNearest(RoundBank(n, d), n, d)
  <1> DEFINE q == n \div d
             r == n % d
  <1>1. q \in Int /\ r \in Int /\ n = d * q + r /\ 0 <= r /\ r < d
    BY Division
  <1>2. RoundBank(n, d) =
          IF 2 * r > d \/ (2 * r = d /\ q % 2 = 1) THEN q + 1 ELSE q
    BY DEF RoundBank
  <1> HIDE DEF q, r
  <1>3. q * d = d * q /\ (q + 1) * d = d * q + d
    BY <1>1
  <1>4. d * q \in Int
    BY <1>1
  <1>5. q % 2 \in {0, 1} /\ (q % 2 = 1 => (q + 1) % 2 = 0)
    BY <1>1
  <1>6. CASE 2 * r > d \/ (2 * r = d /\ q % 2 = 1)
    <2>1. RoundBank(n, d) = q + 1
      BY <1>2, <1>6
    <2>2. (q + 1) * d - n = d - r
      BY <1>1, <1>3, <1>4
    <2> QED
      BY <2>1, <2>2, <1>1, <1>3, <1>4, <1>5, <1>6 DEF IsNearest
  <1>7. CASE ~(2 * r > d \/ (2 * r = d /\ q % 2 = 1))
    <2>1. RoundBank(n, d) = q
      BY <1>2, <1>7
    <2>2. n - q * d = r
      BY <1>1, <1>3, <1>4
    <2> QED
      BY <2>1, <2>2, <1>1, <1>3, <1>4, <1>5, <1>7 DEF IsNearest
  <1> QED
    BY <1>6, <1>7

\* What is nearest to a fraction between two integers lies between them.
LEMMA NearestBounds ==
    ASSUME NEW n \in Nat, NEW d \in Nat \ {0}, NEW k \in Nat, n <= k * d,
           NEW q \in Int, IsNearest(q, n, d)
    PROVE  0 <= q /\ q <= k
  <1>1. 2 * (q * d - n) <= d /\ 2 * (n - q * d) <= d
    BY DEF IsNearest
  <1>2. q * d \in Int /\ k * d \in Int
    OBVIOUS
  <1>3. q >= 0
    <2>1. CASE q <= -1
      <3>1. q * d <= -d
        BY <2>1
      <3> QED
        BY <3>1, <1>1, <1>2
    <2> QED
      BY <2>1
  <1>4. q <= k
    <2>1. CASE q >= k + 1
      <3>1. q * d >= (k + 1) * d
        BY <2>1
      <3>2. (k + 1) * d = k * d + d
        OBVIOUS
      <3> QED
        BY <3>1, <3>2, <1>1, <1>2
    <2> QED
      BY <2>1
  <1> QED
    BY <1>3, <1>4

\* Convert yields an amount of the target currency.
LEMMA ConvertType ==
    ASSUME NEW base \in Money, NEW target \in Currency, NEW rate \in Rate
    PROVE  /\ Convert(base, target, rate).currency = target
           /\ Convert(base, target, rate).minor \in Minor
  <1>1. base.minor * rate.num * Unit[target] \in Int
    BY MoneyAssumption DEF Money, Minor, Rate
  <1>2. rate.den * Unit[base.currency] \in Nat \ {0}
    BY MoneyAssumption DEF Money, Rate
  <1> QED
    BY <1>1, <1>2, RoundIsNearest, WrapType DEF Convert

\* Convert yields the nearest amount whenever int64 can hold it.
THEOREM ConvertIsNearest ==
    ASSUME NEW base \in Money, NEW target \in Currency, NEW rate \in Rate,
           base.minor > 0, rate.num > 0,
           base.minor * rate.num * Unit[target]
             <= MaxMinor * (rate.den * Unit[base.currency])
    PROVE  /\ Convert(base, target, rate).minor >= 0
           /\ IsNearest(Convert(base, target, rate).minor,
                        base.minor * rate.num * Unit[target],
                        rate.den * Unit[base.currency])
  <1> DEFINE n == base.minor * rate.num * Unit[target]
             d == rate.den * Unit[base.currency]
  <1>1. n \in Nat
    <2>1. base.minor \in Nat /\ rate.num \in Nat /\ Unit[target] \in Nat
      BY MoneyAssumption DEF Money, Minor, Rate
    <2> QED
      BY <2>1
  <1>2. d \in Nat \ {0}
    BY MoneyAssumption DEF Money, Rate
  <1>3. n <= MaxMinor * d
    OBVIOUS
  <1>4. Convert(base, target, rate).minor = Wrap(RoundBank(n, d))
    BY DEF Convert
  <1> HIDE DEF n, d
  <1>5. RoundBank(n, d) \in Int /\ IsNearest(RoundBank(n, d), n, d)
    BY <1>1, <1>2, RoundIsNearest
  <1>6. 0 <= RoundBank(n, d) /\ RoundBank(n, d) <= MaxMinor
    BY <1>1, <1>2, <1>3, <1>5, NearestBounds, MoneyAssumption
  <1>7. Wrap(RoundBank(n, d)) = RoundBank(n, d)
    BY <1>5, <1>6, WrapFits, MoneyAssumption DEF Minor
  <1> QED
    BY <1>4, <1>5, <1>6, <1>7 DEF n, d

\* Add does not change the currency, and is exact whenever int64 can hold the sum.
LEMMA AddType ==
    ASSUME NEW m \in Money, NEW other \in Money
    PROVE  /\ Add(m, other).currency = m.currency
           /\ Add(m, other).minor \in Minor
           /\ m.minor > 0 /\ other.minor >= 0 /\ m.minor + other.minor <= MaxMinor =>
                Add(m, other).minor = m.minor + other.minor
  <1>1. m.minor + other.minor \in Int
    BY DEF Money, Minor
  <1>2. m.minor > 0 /\ other.minor >= 0 /\ m.minor + other.minor <= MaxMinor =>
          m.minor + other.minor \in Minor
    BY MoneyAssumption DEF Money, Minor
  <1> QED
    BY <1>1, <1>2, WrapType, WrapFits DEF Add

--------------------------------------------------------------------------------
(* The transports. *)

LEMMA Words ==
    /\ None \notin Currency /\ None \notin Key
    /\ None # "Validation" /\ None # "Internal"
    /\ None # "NotFound" /\ None # "Conflict"
  BY RequestsAssumption

\* A missing amount is no amount for gRPC and an empty one for rpc; neither lets
\* it through.
LEMMA MissingAmount ==
    ASSUME NEW c \in QuoteCall, QuoteParses(c)
    PROVE  c.amount # None
  <1>1. ASSUME c.amount = None PROVE FALSE
    <2>1. ParseQuote(c).base.currency = ParseCurrency([word |-> Blank, spelled |-> "exact"])
      BY <1>1 DEF ParseQuote
    <2>2. ParseCurrency([word |-> Blank, spelled |-> "exact"]) = None
      BY RequestsAssumption DEF ParseCurrency
    <2> QED
      BY <2>1, <2>2 DEF QuoteParses
  <1> QED
    BY <1>1

\* In every state, every request is answered alike by the three servers, save
\* for what HTTP refuses first.
LEMMA Agreement == TransportsAgree
  <1>1. ASSUME NEW c \in QuoteCall, NEW id \in QuoteId
        PROVE  /\ QuoteAnswer("grpc", c, id) = QuoteAnswer("rpc", c, id)
               /\ Agree(QuoteAnswer("http", c, id), QuoteAnswer("grpc", c, id),
                        QuoteServed(ParseQuote(c).key))
    <2> DEFINE p == ParseQuote(c)
               q == QuoteToDomain(CHOOSE r \in quotes \cup QuoteRows(p, id) : r.key = p.key)
    <2> HIDE DEF q
    <2>1. /\ AdmitsQuote("http", c) <=> HTTPAdmitsQuote(c)
          /\ AdmitsQuote("grpc", c) <=> GRPCAdmitsQuote(c)
          /\ AdmitsQuote("rpc", c) <=> RPCAdmitsQuote(c)
      BY DEF AdmitsQuote
    <2>2. GRPCAdmitsQuote(c) <=> RPCAdmitsQuote(c)
      BY MissingAmount DEF GRPCAdmitsQuote, RPCAdmitsQuote
    <2>3. ShowQuote("http", q) = ShowQuote("grpc", q)
          /\ ShowQuote("grpc", q) = ShowQuote("rpc", q)
      BY DEF ShowQuote, ToQuoteResponse, ToQuoteMessage, ToQuoteReply
    <2>4. \A t \in Transport : QuoteAnswer(t, c, id) =
            IF ~AdmitsQuote(t, c) THEN Failed("Validation")
            ELSE IF QuoteError(p) # None THEN Failed(QuoteError(p))
            ELSE Body(ShowQuote(t, q))
      BY DEF QuoteAnswer, q
    <2>5. QuoteAnswer("grpc", c, id) = QuoteAnswer("rpc", c, id)
      BY <2>1, <2>2, <2>3, <2>4 DEF Transport
    <2>6. CASE HTTPAdmitsQuote(c)
      <3>1. GRPCAdmitsQuote(c)
        BY <2>6 DEF HTTPAdmitsQuote, GRPCAdmitsQuote
      <3> QED
        BY <2>1, <2>3, <2>4, <2>5, <2>6, <3>1 DEF Agree, Transport
    <2>7. CASE ~HTTPAdmitsQuote(c) /\ ~GRPCAdmitsQuote(c)
      BY <2>1, <2>4, <2>5, <2>7 DEF Agree, Transport
    <2>8. CASE ~HTTPAdmitsQuote(c) /\ GRPCAdmitsQuote(c)
      <3>1. QuoteAnswer("http", c, id).error = "Validation"
        BY <2>1, <2>4, <2>8 DEF Transport, Failed
      <3>2. c.amount # None /\ c.amount.minor = 0
        BY <2>8 DEF HTTPAdmitsQuote, GRPCAdmitsQuote
      <3>3. p.base.minor = 0
        BY <3>2 DEF ParseQuote
      <3>4. \A rate : ~CanPrice(p.base, rate)
        BY <3>3 DEF CanPrice, CanConvert, ValidatePositive
      <3>5. ~QuoteServed(p.key) => QuoteError(p) # None
        BY <3>4, Words DEF QuoteError
      <3>6. ~QuoteServed(p.key) => QuoteAnswer("grpc", c, id).error # None
        BY <2>1, <2>4, <2>8, <3>5 DEF Transport, Failed
      <3> QED
        BY <2>5, <3>1, <3>6 DEF Agree
    <2> QED
      BY <2>6, <2>7, <2>8
  <1>2. ASSUME NEW c \in ConversionCall, NEW id \in ConversionId
        PROVE  /\ ConversionAnswer("grpc", c, id) = ConversionAnswer("rpc", c, id)
               /\ Agree(ConversionAnswer("http", c, id), ConversionAnswer("grpc", c, id),
                        ConversionServed(ParseIdempotencyKey(c.key)))
    <2> DEFINE v == CHOOSE w \in {ConversionToDomain(r) : r \in conversions}
                                   \cup NewConversions(c, id) :
                        w.key = ParseIdempotencyKey(c.key)
    <2> HIDE DEF v
    <2>1. \A t \in Transport : ConversionAnswer(t, c, id) =
            IF ~AdmitsConversion(t, c) THEN Failed("Validation")
            ELSE IF ConversionError(c) # None THEN Failed(ConversionError(c))
            ELSE Body(ShowConversion(t, v))
      BY DEF ConversionAnswer, v
    <2>2. ShowConversion("http", v) = ShowConversion("grpc", v)
          /\ ShowConversion("grpc", v) = ShowConversion("rpc", v)
      BY DEF ShowConversion, ToConversionResponse, ToConversionMessage, ToConversionReply
    <2>3. AdmitsConversion("grpc", c) <=> AdmitsConversion("rpc", c)
      BY DEF AdmitsConversion
    <2>4. ConversionAnswer("grpc", c, id) = ConversionAnswer("rpc", c, id)
      BY <2>1, <2>2, <2>3 DEF Transport
    <2>5. CASE AdmitsConversion("http", c) <=> AdmitsConversion("grpc", c)
      BY <2>1, <2>2, <2>4, <2>5 DEF Agree, Transport
    <2>6. CASE ~(AdmitsConversion("http", c) <=> AdmitsConversion("grpc", c))
      <3>1. ~AdmitsConversion("http", c) /\ AdmitsConversion("grpc", c)
            /\ ~HTTPAdmitsProviders(c)
        BY <2>6 DEF AdmitsConversion
      <3>2. ~(/\ IsSupportedPaymentProvider(PaymentProvider(c))
              /\ IsSupportedTransferProvider(TransferProvider(c)))
        BY <3>1 DEF HTTPAdmitsProviders, IsSupportedPaymentProvider,
                    IsSupportedTransferProvider, PaymentProvider, TransferProvider
      <3>3. ~ConversionServed(ParseIdempotencyKey(c.key)) => ConversionError(c) # None
        BY <3>2, Words DEF ConversionError
      <3>4. ~ConversionServed(ParseIdempotencyKey(c.key))
              => ConversionAnswer("grpc", c, id).error # None
        BY <2>1, <3>1, <3>3 DEF Transport, Failed
      <3>5. ConversionAnswer("http", c, id).error = "Validation"
        BY <2>1, <3>1 DEF Transport, Failed
      <3> QED
        BY <2>4, <3>4, <3>5 DEF Agree
    <2> QED
      BY <2>5, <2>6
  <1>3. ASSUME NEW c \in ReadCall
        PROVE  /\ ReadAnswer("http", c) = ReadAnswer("grpc", c)
               /\ ReadAnswer("grpc", c) = ReadAnswer("rpc", c)
    BY DEF ReadAnswer, ShowConversion, ToConversionResponse, ToConversionMessage,
           ToConversionReply
  <1> QED
    BY <1>1, <1>2, <1>3 DEF TransportsAgree

\* Along every behaviour the three servers answer a request alike, save for what
\* HTTP refuses first (fx_handler.go and the two server.go).
THEOREM SameAnswers == Spec => []TransportsAgree
  BY Agreement, PTL

--------------------------------------------------------------------------------
(* Rates. *)

StoredType == stored \in [Corridor -> {r \in Rate : r.num >= 0} \cup {None}]
ProviderType == provider \in Provider

\* The column takes a positive rate to one that is not negative.
LEMMA NumericType ==
    ASSUME NEW r \in Rate, r.num > 0
    PROVE  Numeric(r) \in Rate /\ Numeric(r).num >= 0
  <1> DEFINE n == 2 * r.num * RateUnit + r.den
             d == 2 * r.den
  <1>1. r.num \in Nat /\ r.den \in Nat \ {0} /\ RateUnit \in Nat \ {0}
    BY RequestsAssumption DEF Rate
  <1>2. r.num * RateUnit \in Nat
    BY <1>1
  <1>3. n \in Nat /\ d \in Nat \ {0}
    BY <1>1, <1>2
  <1> HIDE DEF n, d
  <1>4. n \div d \in Nat
    BY <1>3
  <1>5. Numeric(r) = [num |-> n \div d, den |-> RateUnit]
    BY DEF Numeric, n, d
  <1> QED
    BY <1>1, <1>4, <1>5 DEF Rate

\* ensureReferenceRates keeps the types of the table.
LEMMA SyncedType ==
    ASSUME StoredType, ProviderType, NEW base, NEW asked
    PROVE  Synced(base, asked) \in [Corridor -> {r \in Rate : r.num >= 0} \cup {None}]
  <1>1. provider.rates \in [Corridor -> Rate \cup {None}]
    BY RequestsAssumption DEF ProviderType
  <1>2. CASE Complete(stored, base, asked) \/ ~AllValid(Sent(base, asked))
              \/ ~AllFit(Sent(base, asked))
    BY <1>2 DEF Synced, StoredType
  <1>3. CASE ~(Complete(stored, base, asked) \/ ~AllValid(Sent(base, asked))
              \/ ~AllFit(Sent(base, asked)))
    <2>1. \A c \in Sent(base, asked) :
            /\ c \in Corridor /\ provider.rates[c] \in Rate /\ provider.rates[c].num > 0
            /\ Numeric(provider.rates[c]) \in Rate /\ Numeric(provider.rates[c]).num >= 0
      BY <1>1, <1>3, NumericType DEF AllValid, Sent
    <2>2. Synced(base, asked) =
            [c \in Corridor |-> IF c \in Sent(base, asked)
                               THEN Numeric(provider.rates[c])
                               ELSE stored[c]]
      BY <1>3 DEF Synced
    <2>3. \A c \in Corridor : (IF c \in Sent(base, asked)
                               THEN Numeric(provider.rates[c])
                               ELSE stored[c]) \in {r \in Rate : r.num >= 0} \cup {None}
      BY <2>1 DEF StoredType
    <2> QED
      BY <2>2, <2>3
  <1> QED
    BY <1>2, <1>3

\* A rate that ensureReferenceRates returns without an error is there.
LEMMA SyncedRate ==
    ASSUME StoredType, ProviderType, NEW base \in Currency, NEW target \in Currency,
           SyncError(base, <<target>>) = None
    PROVE  LET rate == Synced(base, <<target>>)[<<base, target>>]
           IN  rate \in Rate
  <1> DEFINE asked == <<target>>
  <1>1. Complete(Synced(base, asked), base, asked)
    <2>1. CASE Complete(stored, base, asked)
      BY <2>1 DEF Synced
    <2>2. CASE ~Complete(stored, base, asked)
      <3>1. provider.does \in {"serves", "rejects", "fails"}
        BY RequestsAssumption DEF ProviderType
      <3> QED
        BY <2>2, <3>1, Words DEF SyncError
    <2> QED
      BY <2>1, <2>2
  <1>2. 1 \in DOMAIN asked /\ asked[1] = target
    OBVIOUS
  <1>3. Synced(base, asked)[<<base, target>>] # None
    BY <1>1, <1>2 DEF Complete
  <1>4. <<base, target>> \in Corridor
    BY DEF Corridor
  <1> HIDE DEF asked
  <1>5. Synced(base, asked)[<<base, target>>] \in {r \in Rate : r.num >= 0} \cup {None}
    BY <1>4, SyncedType
  <1> QED
    BY <1>3, <1>5 DEF asked

--------------------------------------------------------------------------------
(* The rows CreateQuote inserts. *)

\* A request that every parser has taken.
ParsedType(p) == p.key \in Key /\ p.base \in Money /\ p.quote \in Currency

LEMMA Parsed ==
    ASSUME NEW c \in QuoteCall, NEW t \in Transport, AdmitsQuote(t, c)
    PROVE  ParsedType(ParseQuote(c)) /\ ParseQuote(c).key = c.key.word
  <1>1. QuoteParses(c)
    BY DEF AdmitsQuote, Transport, HTTPAdmitsQuote, GRPCAdmitsQuote, RPCAdmitsQuote
  <1>2. c.amount # None
    BY <1>1, MissingAmount
  <1>3. c.key \in KeyText /\ c.amount \in [currency : CurrencyText, minor : Minor]
    BY <1>2, RequestsAssumption
  <1>4. ParseQuote(c) =
          [key |-> ParseIdempotencyKey(c.key),
           base |-> [currency |-> ParseCurrency(c.amount.currency), minor |-> c.amount.minor],
           quote |-> ParseCurrency(c.quote)]
    BY <1>2 DEF ParseQuote
  <1>5. c.key.word \in Key /\ ParseIdempotencyKey(c.key) = c.key.word
    BY <1>1, <1>3, <1>4 DEF QuoteParses, ParseIdempotencyKey, KeyText, Text
  <1>6. ParseCurrency(c.amount.currency) \in Currency /\ ParseCurrency(c.quote) \in Currency
    BY <1>1, <1>4 DEF QuoteParses, ParseCurrency
  <1> QED
    BY <1>3, <1>4, <1>5, <1>6 DEF ParsedType, Money

\* The row has its types, the key and the id it was made for, and the right price.
LEMMA NewRow ==
    ASSUME StoredType, ProviderType, NEW p, ParsedType(p), NEW id \in QuoteId,
           NEW r \in QuoteRows(p, id)
    PROVE  /\ r \in QuoteModel /\ Priced(r)
           /\ r.id = id /\ r.key = p.key /\ ~QuoteServed(p.key)
           /\ QuoteRows(p, id) = {r}
  <1> DEFINE rate == Synced(p.base.currency, <<p.quote>>)[<<p.base.currency, p.quote>>]
             fee == FeeFromBPS(p.base, FeeBPS, MinFee)
             amount == Convert(p.base, p.quote, rate)
             total == Add(p.base, fee)
  <1>1. ~QuoteServed(p.key) /\ QuoteError(p) = None
    BY DEF QuoteRows
  <1>2. QuoteRows(p, id) = {r}
        /\ r = QuoteModelFromDomain(NewQuote(id, p.key, p.base, p.quote, rate))
    BY <1>1 DEF QuoteRows
  <1>3. SyncError(p.base.currency, <<p.quote>>) = None /\ CanPrice(p.base, rate)
    BY <1>1, Words DEF QuoteError
  <1>4. p.base \in Money /\ p.base.currency \in Currency /\ p.base.minor \in Minor
        /\ p.quote \in Currency /\ p.key \in Key
    BY DEF ParsedType, Money
  <1>5. rate \in Rate /\ rate.num > 0
    BY <1>3, <1>4, SyncedRate DEF CanPrice, CanConvert
  <1>6. p.base.minor > 0 /\ p.base.currency = MinFee.currency
    BY <1>3 DEF CanPrice, CanConvert, CanCharge, ValidatePositive
  <1>7. FeeBPS \in Nat /\ MinFee \in Money /\ MinFee.minor >= 0
    BY RequestsAssumption
  <1> HIDE DEF rate
  <1>8. /\ fee.minor \in Minor /\ fee.minor >= MinFee.minor
        /\ fee.currency = p.base.currency
    BY <1>4, <1>7, FeeType
  <1>9. fee = [currency |-> fee.currency, minor |-> fee.minor]
    BY DEF FeeFromBPS
  <1>10. fee \in Money
    BY <1>4, <1>8, <1>9 DEF Money
  <1>11. amount.currency = p.quote /\ amount.minor \in Minor
    BY <1>4, <1>5, ConvertType
  <1>12. p.base.minor * FeeBPS <= MaxMinor
           => IsFeeDue(fee.minor, p.base.minor, FeeBPS, MinFee.minor)
    BY <1>4, <1>6, <1>7, FeeIsDue
  <1>13. fee.minor >= 0
    BY <1>7, <1>8, MoneyAssumption DEF Minor, Money
  <1>14. total.minor \in Minor
         /\ (p.base.minor + fee.minor <= MaxMinor => total.minor = p.base.minor + fee.minor)
    <2> HIDE DEF fee
    <2> QED
      BY <1>4, <1>6, <1>10, <1>13, AddType
  <1>15. p.base.minor * rate.num * Unit[p.quote]
           <= MaxMinor * (rate.den * Unit[p.base.currency])
         => /\ amount.minor >= 0
            /\ IsNearest(amount.minor, p.base.minor * rate.num * Unit[p.quote],
                         rate.den * Unit[p.base.currency])
    BY <1>4, <1>5, <1>6, ConvertIsNearest
  <1> HIDE DEF fee, amount, total
  <1>16. r = [id |-> id, key |-> p.key, baseCurrency |-> p.base.currency,
              base |-> p.base.minor, quoteCurrency |-> amount.currency,
              quote |-> amount.minor, fee |-> fee.minor, total |-> total.minor,
              rate |-> rate, expired |-> FALSE, accepted |-> FALSE]
    BY <1>2 DEF QuoteModelFromDomain, NewQuote, fee, amount, total
  <1>17. r \in QuoteModel
    BY <1>4, <1>5, <1>8, <1>11, <1>14, <1>16 DEF QuoteModel
  <1>18. Priced(r)
    BY <1>6, <1>8, <1>11, <1>12, <1>14, <1>15, <1>16 DEF Priced
  <1> QED
    BY <1>1, <1>2, <1>16, <1>17, <1>18

--------------------------------------------------------------------------------
(* The invariant. *)

QuotesTyped == quotes \subseteq QuoteModel
ConversionsTyped == conversions \subseteq ConversionModel
GivenTyped == given \subseteq Given

\* Keys and ULIDs are unique.
QuotesKeyed == \A q, r \in quotes : q.key = r.key \/ q.id = r.id => q = r
ConversionsKeyed == \A c, d \in conversions : c.key = d.key \/ c.id = d.id => c = d

\* Two rows agree in the columns of the price.
SamePrice(a, b) ==
    /\ a.baseCurrency = b.baseCurrency /\ a.base = b.base
    /\ a.quoteCurrency = b.quoteCurrency /\ a.quote = b.quote
    /\ a.fee = b.fee /\ a.total = b.total /\ a.rate = b.rate

\* A conversion is priced like its quote.
Sourced == \A c \in conversions : \E q \in quotes : q.id = c.quoteId /\ SamePrice(c, q)

\* What a client was told is what is stored.
QuotesTold ==
    \A g \in given : g.op = "quote" =>
        \E r \in quotes : /\ r.key = g.of /\ g.body.id = r.id
                         /\ SameTerms(g.body, QuoteToDomain(r))
ConversionsTold ==
    \A g \in given : g.op = "conversion" =>
        \E r \in conversions : r.key = g.of /\ g.body = ConversionToDomain(r)
ReadsTold ==
    \A g \in given : g.op = "read" =>
        \E r \in conversions : r.id = g.of /\ g.body = ConversionToDomain(r)

Types == StoredType /\ ProviderType /\ QuotesTyped /\ ConversionsTyped /\ GivenTyped
Rows == PricedRight /\ QuotesKeyed /\ ConversionsKeyed /\ Sourced
History == QuotesTold /\ ConversionsTold /\ ReadsTold
IInv == Types /\ Rows /\ History

\* What the clients were told agrees because what is stored is unique.
LEMMA Kept == IInv => TermsAreKept
  <1> SUFFICES ASSUME IInv, NEW g \in given, NEW h \in given
               PROVE  /\ g.op = "quote" /\ h.op = "quote" /\ g.of = h.of =>
                           g.body.id = h.body.id /\ SameTerms(g.body, h.body)
                      /\ g.op = "conversion" /\ h.op = "conversion" /\ g.of = h.of =>
                           g.body = h.body
                      /\ g.op = "conversion" /\ h.op = "read" /\ g.body.id = h.of =>
                           g.body = h.body
                      /\ g.op = "quote" /\ h.op = "conversion"
                         /\ h.body.quoteId = g.body.id => SameTerms(g.body, h.body)
    BY DEF TermsAreKept
  <1>1. ASSUME g.op = "quote", h.op = "quote", g.of = h.of
        PROVE  g.body.id = h.body.id /\ SameTerms(g.body, h.body)
    BY <1>1 DEF IInv, History, Rows, QuotesTold, QuotesKeyed, SameTerms
  <1>2. ASSUME g.op = "conversion", h.op = "conversion", g.of = h.of
        PROVE  g.body = h.body
    BY <1>2 DEF IInv, History, Rows, ConversionsTold, ConversionsKeyed
  <1>3. ASSUME g.op = "conversion", h.op = "read", g.body.id = h.of
        PROVE  g.body = h.body
    <2>1. PICK r \in conversions : r.key = g.of /\ g.body = ConversionToDomain(r)
      BY <1>3 DEF IInv, History, ConversionsTold
    <2>2. PICK s \in conversions : s.id = h.of /\ h.body = ConversionToDomain(s)
      BY <1>3 DEF IInv, History, ReadsTold
    <2>3. g.body.id = r.id
      BY <2>1 DEF ConversionToDomain
    <2> QED
      BY <1>3, <2>1, <2>2, <2>3 DEF IInv, Rows, ConversionsKeyed
  <1>4. ASSUME g.op = "quote", h.op = "conversion", h.body.quoteId = g.body.id
        PROVE  SameTerms(g.body, h.body)
    <2>1. PICK q \in quotes : g.body.id = q.id /\ SameTerms(g.body, QuoteToDomain(q))
      BY <1>4 DEF IInv, History, QuotesTold
    <2>2. PICK c \in conversions : h.body = ConversionToDomain(c)
      BY <1>4 DEF IInv, History, ConversionsTold
    <2>3. PICK s \in quotes : s.id = c.quoteId /\ SamePrice(c, s)
      BY DEF IInv, Rows, Sourced
    <2>4. h.body.quoteId = c.quoteId
      BY <2>2 DEF ConversionToDomain
    <2>5. s = q
      BY <1>4, <2>1, <2>3, <2>4 DEF IInv, Rows, QuotesKeyed
    <2>6. SameTerms(QuoteToDomain(q), ConversionToDomain(c))
      BY <2>3, <2>5 DEF SameTerms, SamePrice, QuoteToDomain, ConversionToDomain
    <2> QED
      BY <2>1, <2>2, <2>6 DEF SameTerms
  <1> QED
    BY <1>1, <1>2, <1>3, <1>4

\* A step that changes nothing but flags of quotes and adds nothing to the
\* history keeps what the invariant says about quotes.
LEMMA Flags ==
    ASSUME QuotesTyped, PricedRight, QuotesKeyed, Sourced, QuotesTold,
           NEW f, quotes' = {f[r] : r \in quotes},
           \A r \in quotes : /\ f[r] \in QuoteModel /\ SamePrice(f[r], r)
                            /\ f[r].id = r.id /\ f[r].key = r.key
    PROVE  /\ QuotesTyped' /\ PricedRight' /\ QuotesKeyed'
           /\ \A c : (\E q \in quotes : q.id = c.quoteId /\ SamePrice(c, q))
                    => \E q \in quotes' : q.id = c.quoteId /\ SamePrice(c, q)
           /\ \A g : (\E r \in quotes : /\ r.key = g.of /\ g.body.id = r.id
                                       /\ SameTerms(g.body, QuoteToDomain(r)))
                    => \E r \in quotes' : /\ r.key = g.of /\ g.body.id = r.id
                                        /\ SameTerms(g.body, QuoteToDomain(r))
  <1>1. QuotesTyped'
    BY DEF QuotesTyped
  <1>2. PricedRight'
    <2>1. \A r \in quotes : Priced(r) => Priced(f[r])
      BY DEF Priced, SamePrice
    <2> QED
      BY <2>1 DEF PricedRight, Priced
  <1>3. QuotesKeyed'
    BY DEF QuotesKeyed
  <1>4. ASSUME NEW c, NEW q \in quotes, q.id = c.quoteId, SamePrice(c, q)
        PROVE  \E s \in quotes' : s.id = c.quoteId /\ SamePrice(c, s)
    <2>1. f[q] \in quotes' /\ f[q].id = c.quoteId /\ SamePrice(c, f[q])
      BY <1>4 DEF SamePrice
    <2> QED
      BY <2>1
  <1>5. ASSUME NEW g, NEW r \in quotes, r.key = g.of, g.body.id = r.id,
               SameTerms(g.body, QuoteToDomain(r))
        PROVE  \E s \in quotes' : /\ s.key = g.of /\ g.body.id = s.id
                                /\ SameTerms(g.body, QuoteToDomain(s))
    <2>1. f[r] \in quotes' /\ f[r].key = g.of /\ g.body.id = f[r].id
      BY <1>5
    <2>2. SameTerms(g.body, QuoteToDomain(f[r]))
      BY <1>5 DEF SameTerms, QuoteToDomain, SamePrice
    <2> QED
      BY <2>1, <2>2
  <1> QED
    BY <1>1, <1>2, <1>3, <1>4, <1>5

\* Initially nothing is stored and nothing told.
LEMMA Start == Init => IInv
  BY DEF Init, IInv, Types, Rows, History, StoredType, ProviderType, QuotesTyped,
         ConversionsTyped, GivenTyped, PricedRight, QuotesKeyed, ConversionsKeyed,
         Sourced, QuotesTold, ConversionsTold, ReadsTold

--------------------------------------------------------------------------------
(* CreateQuote. *)

\* The quote a request is answered with is stored when the request ends.
LEMMA AnsweredQuote ==
    ASSUME NEW t \in Transport, NEW c \in QuoteCall, NEW id \in QuoteId,
           QuotesTyped, StoredType, ProviderType,
           NEW g \in Told("quote", c.key.word, QuoteAnswer(t, c, id))
    PROVE  /\ AdmitsQuote(t, c) /\ g.op = "quote" /\ g.of = c.key.word /\ g \in Given
           /\ \E r \in quotes \cup QuoteRows(ParseQuote(c), id) :
                 /\ r.key = g.of /\ g.body.id = r.id
                 /\ SameTerms(g.body, QuoteToDomain(r))
  <1> DEFINE p == ParseQuote(c)
             q == CHOOSE r \in quotes \cup QuoteRows(p, id) : r.key = p.key
  <1>1. QuoteAnswer(t, c, id).error = None
        /\ g = [op |-> "quote", of |-> c.key.word, body |-> QuoteAnswer(t, c, id).body]
    BY DEF Told
  <1>2. AdmitsQuote(t, c) /\ QuoteError(p) = None
        /\ QuoteAnswer(t, c, id) = Body(ShowQuote(t, QuoteToDomain(q)))
    BY <1>1, Words DEF QuoteAnswer, Failed
  <1>3. ParsedType(p) /\ p.key = c.key.word
    BY <1>2, Parsed
  <1>4. \E r \in quotes \cup QuoteRows(p, id) : r.key = p.key
    <2>1. CASE QuoteServed(p.key)
      BY <2>1 DEF QuoteServed
    <2>2. CASE ~QuoteServed(p.key)
      <3>1. PICK r : r \in QuoteRows(p, id)
        BY <1>2, <2>2 DEF QuoteRows
      <3>2. r.key = p.key
        BY <1>3, <3>1, NewRow
      <3> QED
        BY <3>1, <3>2
    <2> QED
      BY <2>1, <2>2
  <1>5. q \in quotes \cup QuoteRows(p, id) /\ q.key = p.key
    BY <1>4
  <1>6. q \in QuoteModel
    <2>1. \A r \in QuoteRows(p, id) : r \in QuoteModel
      BY <1>3, NewRow
    <2> QED
      BY <1>5, <2>1 DEF QuotesTyped
  <1>7. g.body = ShowQuote(t, QuoteToDomain(q)) /\ g.op = "quote" /\ g.of = c.key.word
    BY <1>1, <1>2 DEF Body
  <1> HIDE DEF q
  <1>8. g.body \in QuoteBody /\ g.body.id = q.id /\ SameTerms(g.body, QuoteToDomain(q))
    <2>1. g.body = [id |-> q.id, key |-> q.key,
                    base |-> [currency |-> q.baseCurrency, minor |-> q.base],
                    quote |-> [currency |-> q.quoteCurrency, minor |-> q.quote],
                    fee |-> [currency |-> q.baseCurrency, minor |-> q.fee],
                    total |-> [currency |-> q.baseCurrency, minor |-> q.total],
                    rate |-> q.rate, accepted |-> q.accepted]
      BY <1>7 DEF ShowQuote, ToQuoteResponse, ToQuoteMessage, ToQuoteReply,
                  QuoteToDomain, Transport
    <2>2. g.body \in QuoteBody
      BY <1>6, <2>1 DEF QuoteModel, QuoteBody, Money
    <2> QED
      BY <2>1, <2>2 DEF SameTerms, QuoteToDomain
  <1>9. g \in Given
    <2>1. g.of \in Key
      BY <1>3, <1>7 DEF ParsedType
    <2>2. g \in [op : {"quote"}, of : Key, body : QuoteBody]
      BY <1>1, <1>7, <1>8, <2>1
    <2> QED
      BY <2>2 DEF Given
  <1> QED
    BY <1>2, <1>3, <1>5, <1>7, <1>8, <1>9

LEMMA CreateQuoteStep ==
    ASSUME IInv, NEW t \in Transport, NEW c \in QuoteCall, NEW id \in QuoteId,
           CreateQuote(t, c, id)
    PROVE  IInv'
  <1> DEFINE p == ParseQuote(c)
             rows == IF AdmitsQuote(t, c) THEN QuoteRows(p, id) ELSE {}
             told == Told("quote", c.key.word, QuoteAnswer(t, c, id))
  <1>1. /\ rows # {} => \A r \in quotes : r.id # id
        /\ quotes' = quotes \cup rows
        /\ stored' = stored \/ \E base, asked : stored' = Synced(base, asked)
        /\ given' = given \cup told
        /\ provider' = provider /\ conversions' = conversions
    BY DEF CreateQuote
  <1>2. QuotesTyped /\ StoredType /\ ProviderType /\ ConversionsTyped /\ GivenTyped
    BY DEF IInv, Types
  <1>3. PricedRight /\ QuotesKeyed /\ ConversionsKeyed /\ Sourced
    BY DEF IInv, Rows
  <1>4. QuotesTold /\ ConversionsTold /\ ReadsTold
    BY DEF IInv, History
  <1>5. \A r \in rows : /\ r \in QuoteModel /\ Priced(r) /\ r.id = id
                        /\ r.key = p.key /\ ~QuoteServed(p.key) /\ rows = {r}
    <2>1. ASSUME AdmitsQuote(t, c), NEW r \in QuoteRows(p, id)
          PROVE  /\ r \in QuoteModel /\ Priced(r) /\ r.id = id
                 /\ r.key = p.key /\ ~QuoteServed(p.key) /\ QuoteRows(p, id) = {r}
      <3>1. ParsedType(p)
        BY <2>1, Parsed
      <3> QED
        BY <1>2, <2>1, <3>1, NewRow
    <2> QED
      BY <2>1
  <1>6. \A g \in told : /\ g.op = "quote" /\ g \in Given
                        /\ \E r \in quotes' : /\ r.key = g.of /\ g.body.id = r.id
                                            /\ SameTerms(g.body, QuoteToDomain(r))
    BY <1>1, <1>2, AnsweredQuote
  <1> HIDE DEF p, rows, told
  <1>7. Types'
    <2>1. StoredType'
      BY <1>1, <1>2, SyncedType DEF StoredType
    <2> QED
      BY <2>1, <1>1, <1>2, <1>5, <1>6
      DEF Types, ProviderType, QuotesTyped, ConversionsTyped, GivenTyped
  <1>8. Rows'
    <2>1. PricedRight'
      BY <1>1, <1>3, <1>5 DEF PricedRight, Priced
    <2>2. QuotesKeyed'
      BY <1>1, <1>3, <1>5 DEF QuotesKeyed, QuoteServed
    <2>3. ConversionsKeyed' /\ Sourced'
      BY <1>1, <1>3 DEF ConversionsKeyed, Sourced
    <2> QED
      BY <2>1, <2>2, <2>3 DEF Rows
  <1>9. History'
    <2>1. QuotesTold'
      BY <1>1, <1>4, <1>6 DEF QuotesTold
    <2>2. ConversionsTold' /\ ReadsTold'
      BY <1>1, <1>4, <1>6 DEF ConversionsTold, ReadsTold
    <2> QED
      BY <2>1, <2>2 DEF History
  <1> QED
    BY <1>7, <1>8, <1>9 DEF IInv

--------------------------------------------------------------------------------
(* CreateConversion and GetConversion. *)

\* What every transport shows of a conversion.
LEMMA Shown ==
    ASSUME NEW t \in Transport, NEW r \in ConversionModel
    PROVE  /\ ShowConversion(t, ConversionToDomain(r)) = ConversionToDomain(r)
           /\ ConversionToDomain(r) \in ConversionBody
  BY DEF ShowConversion, ToConversionResponse, ToConversionMessage, ToConversionReply,
         ConversionToDomain, ConversionModel, ConversionBody, Money, Transport

LEMMA AcceptedKey ==
    ASSUME NEW t \in Transport, NEW c \in ConversionCall, AdmitsConversion(t, c)
    PROVE  c.key.word \in Key /\ ParseIdempotencyKey(c.key) = c.key.word
  <1>1. c.key \in KeyText /\ ParseIdempotencyKey(c.key) # None
    BY RequestsAssumption DEF AdmitsConversion
  <1> QED
    BY <1>1 DEF ParseIdempotencyKey, KeyText, Text

\* The conversion that is made: its row reads back as it is, has the price of
\* its quote, and its key and id are the request's.
LEMMA Made ==
    ASSUME NEW c \in ConversionCall, NEW id \in ConversionId, NEW key \in Key,
           ParseIdempotencyKey(c.key) = key, QuotesTyped, QuotesKeyed,
           NEW v \in NewConversions(c, id)
    PROVE  LET r == ConversionModelFromDomain(v)
           IN  /\ r \in ConversionModel /\ ConversionToDomain(r) = v
               /\ r.id = id /\ r.key = key /\ v.key = key /\ ~ConversionServed(key)
               /\ \E q \in quotes : q.id = r.quoteId /\ SamePrice(r, q)
               /\ NewConversions(c, id) = {v}
  <1>1. PICK q \in Source(c) :
          v = FromQuote(id, key, QuoteToDomain(q), PaymentProvider(c), TransferProvider(c))
    BY DEF NewConversions
  <1>2. q \in quotes /\ q \in QuoteModel /\ q.id = c.quoteId.word
    BY DEF Source, Names, QuotesTyped
  <1>3. Source(c) = {q}
    BY <1>2 DEF Source, Names, QuotesKeyed
  <1>4. ~ConversionServed(key)
    BY DEF NewConversions
  <1>5. NewConversions(c, id) = {v}
    BY <1>1, <1>3, <1>4 DEF NewConversions
  <1>6. PaymentProvider(c) \in ProviderText /\ TransferProvider(c) \in ProviderText
    <2>1. c.payment \in ProviderText /\ c.transfer \in ProviderText
      <3>1. c \in [key : KeyText, quoteId : Text(QuoteId \cup {Blank, Other}),
                   payment : ProviderText, transfer : ProviderText]
        BY RequestsAssumption
      <3> QED
        BY <3>1
    <2>2. "toss" \in ProviderText /\ "wise" \in ProviderText
      BY RequestsAssumption
    <2> QED
      BY <2>1, <2>2 DEF PaymentProvider, TransferProvider
  <1>7. v = [id |-> id, quoteId |-> q.id, key |-> key,
             base |-> [currency |-> q.baseCurrency, minor |-> q.base],
             quote |-> [currency |-> q.quoteCurrency, minor |-> q.quote],
             fee |-> [currency |-> q.baseCurrency, minor |-> q.fee],
             total |-> [currency |-> q.baseCurrency, minor |-> q.total],
             rate |-> q.rate, payment |-> PaymentProvider(c),
             transfer |-> TransferProvider(c)]
    BY <1>1 DEF FromQuote, QuoteToDomain
  <1>8. ConversionModelFromDomain(v) =
            [id |-> id, quoteId |-> q.id, key |-> key, baseCurrency |-> q.baseCurrency,
             base |-> q.base, quoteCurrency |-> q.quoteCurrency, quote |-> q.quote,
             fee |-> q.fee, total |-> q.total, rate |-> q.rate,
             payment |-> PaymentProvider(c), transfer |-> TransferProvider(c)]
    BY <1>7 DEF ConversionModelFromDomain
  <1>9. ConversionModelFromDomain(v) \in ConversionModel
    BY <1>2, <1>6, <1>8 DEF QuoteModel, ConversionModel
  <1>10. ConversionToDomain(ConversionModelFromDomain(v)) = v
    BY <1>7, <1>8 DEF ConversionToDomain
  <1>11. SamePrice(ConversionModelFromDomain(v), q)
    BY <1>8 DEF SamePrice
  <1> QED
    BY <1>2, <1>4, <1>5, <1>7, <1>8, <1>9, <1>10, <1>11

\* What CreateConversion tells is stored when the request ends.
LEMMA AnsweredConversion ==
    ASSUME NEW t \in Transport, NEW c \in ConversionCall, NEW id \in ConversionId,
           QuotesTyped, QuotesKeyed, ConversionsTyped,
           NEW g \in Told("conversion", c.key.word, ConversionAnswer(t, c, id))
    PROVE  /\ AdmitsConversion(t, c) /\ g.op = "conversion" /\ g \in Given
           /\ \E r \in conversions \cup {ConversionModelFromDomain(v) : v \in NewConversions(c, id)} :
                 r.key = g.of /\ g.body = ConversionToDomain(r)
  <1> DEFINE key == c.key.word
             all == {ConversionToDomain(r) : r \in conversions} \cup NewConversions(c, id)
             v == CHOOSE w \in all : w.key = ParseIdempotencyKey(c.key)
  <1>1. ConversionAnswer(t, c, id).error = None
        /\ g = [op |-> "conversion", of |-> key, body |-> ConversionAnswer(t, c, id).body]
    BY DEF Told
  <1>2. AdmitsConversion(t, c) /\ ConversionError(c) = None
        /\ ConversionAnswer(t, c, id) = Body(ShowConversion(t, v))
    BY <1>1, Words DEF ConversionAnswer, Failed
  <1>3. key \in Key /\ ParseIdempotencyKey(c.key) = key
    BY <1>2, AcceptedKey
  <1>4. \A r \in conversions : ConversionToDomain(r).key = r.key
    BY DEF ConversionToDomain
  <1>5. \E w \in all : w.key = key
    <2>1. CASE ConversionServed(key)
      BY <1>4, <2>1 DEF ConversionServed
    <2>2. CASE ~ConversionServed(key)
      <3>1. Source(c) # {}
        BY <1>2, <1>3, <2>2, Words DEF ConversionError
      <3>2. PICK w : w \in NewConversions(c, id)
        BY <1>2, <1>3, <2>2, <3>1 DEF NewConversions
      <3>3. w.key = key
        BY <1>3, <3>2, Made
      <3> QED
        BY <3>2, <3>3
    <2> QED
      BY <2>1, <2>2
  <1>6. v \in all /\ v.key = key
    BY <1>3, <1>5
  <1>7. g.body = ShowConversion(t, v) /\ g.op = "conversion" /\ g.of = key
    BY <1>1, <1>2 DEF Body
  <1> HIDE DEF v
  <1>8. PICK r \in ConversionModel :
          /\ r \in conversions \cup {ConversionModelFromDomain(w) : w \in NewConversions(c, id)}
          /\ v = ConversionToDomain(r) /\ r.key = key
    <2>1. CASE v \in NewConversions(c, id)
      BY <1>3, <2>1, Made
    <2>2. CASE v \notin NewConversions(c, id)
      BY <1>4, <1>6, <2>2 DEF ConversionsTyped
    <2> QED
      BY <2>1, <2>2
  <1>9. g.body = ConversionToDomain(r) /\ g.body \in ConversionBody
    BY <1>7, <1>8, Shown
  <1>10. g \in Given
    <2>1. g \in [op : {"conversion"}, of : Key, body : ConversionBody]
      BY <1>1, <1>3, <1>7, <1>9
    <2> QED
      BY <2>1 DEF Given
  <1> QED
    BY <1>2, <1>7, <1>8, <1>9, <1>10

LEMMA CreateConversionStep ==
    ASSUME IInv, NEW t \in Transport, NEW c \in ConversionCall, NEW id \in ConversionId,
           CreateConversion(t, c, id)
    PROVE  IInv'
  <1> DEFINE key == c.key.word
             made == IF AdmitsConversion(t, c) THEN NewConversions(c, id) ELSE {}
             rows == {ConversionModelFromDomain(v) : v \in made}
             told == Told("conversion", c.key.word, ConversionAnswer(t, c, id))
             f == [r \in quotes |->
                     [r EXCEPT !.accepted = @ \/ \E v \in made : v.quoteId = r.id]]
  <1>1. /\ made # {} => \A r \in conversions : r.id # id
        /\ conversions' = conversions \cup rows
        /\ quotes' = {f[r] : r \in quotes}
        /\ given' = given \cup told
        /\ provider' = provider /\ stored' = stored
    BY DEF CreateConversion
  <1>2. QuotesTyped /\ StoredType /\ ProviderType /\ ConversionsTyped /\ GivenTyped
    BY DEF IInv, Types
  <1>3. PricedRight /\ QuotesKeyed /\ ConversionsKeyed /\ Sourced
    BY DEF IInv, Rows
  <1>4. QuotesTold /\ ConversionsTold /\ ReadsTold
    BY DEF IInv, History
  <1>5. \A r \in rows : /\ r \in ConversionModel /\ r.id = id /\ r.key = key
                        /\ ~ConversionServed(key) /\ made # {} /\ rows = {r}
                        /\ \E q \in quotes : q.id = r.quoteId /\ SamePrice(r, q)
    <2>1. ASSUME NEW v \in made
          PROVE  LET r == ConversionModelFromDomain(v)
                 IN  /\ r \in ConversionModel /\ r.id = id /\ r.key = key
                     /\ ~ConversionServed(key) /\ made = {v}
                     /\ \E q \in quotes : q.id = r.quoteId /\ SamePrice(r, q)
      <3>1. AdmitsConversion(t, c) /\ v \in NewConversions(c, id)
            /\ made = NewConversions(c, id)
        OBVIOUS
      <3>2. key \in Key /\ ParseIdempotencyKey(c.key) = key
        BY <3>1, AcceptedKey
      <3> QED
        BY <1>2, <1>3, <3>1, <3>2, Made
    <2> HIDE DEF made
    <2> QED
      BY <2>1
  <1>6. \A g \in told : /\ g.op = "conversion" /\ g \in Given
                        /\ \E r \in conversions' : r.key = g.of
                                                 /\ g.body = ConversionToDomain(r)
    <2>1. ASSUME NEW g \in told
          PROVE  /\ g.op = "conversion" /\ g \in Given
                 /\ \E r \in conversions' : r.key = g.of /\ g.body = ConversionToDomain(r)
      <3>1. /\ AdmitsConversion(t, c) /\ g.op = "conversion" /\ g \in Given
            /\ \E r \in conversions \cup {ConversionModelFromDomain(v) : v \in NewConversions(c, id)} :
                  r.key = g.of /\ g.body = ConversionToDomain(r)
        BY <1>2, <1>3, AnsweredConversion
      <3> QED
        BY <1>1, <3>1
    <2> QED
      BY <2>1
  <1>7. \A r \in quotes : /\ f[r] \in QuoteModel /\ SamePrice(f[r], r)
                          /\ f[r].id = r.id /\ f[r].key = r.key
    <2>1. ASSUME NEW r \in quotes, NEW b \in BOOLEAN
          PROVE  LET s == [r EXCEPT !.accepted = b]
                 IN  /\ s \in QuoteModel /\ SamePrice(s, r)
                     /\ s.id = r.id /\ s.key = r.key
      BY <1>2 DEF QuotesTyped, QuoteModel, SamePrice
    <2>2. \A r \in quotes : (r.accepted \/ \E v \in made : v.quoteId = r.id) \in BOOLEAN
      BY <1>2 DEF QuotesTyped, QuoteModel
    <2>3. \A r \in quotes :
            f[r] = [r EXCEPT !.accepted = r.accepted \/ \E v \in made : v.quoteId = r.id]
      OBVIOUS
    <2> QED
      BY <2>1, <2>2, <2>3
  <1> HIDE DEF key, made, rows, told, f
  <1>8. /\ QuotesTyped' /\ PricedRight' /\ QuotesKeyed'
        /\ \A d : (\E q \in quotes : q.id = d.quoteId /\ SamePrice(d, q))
                 => \E q \in quotes' : q.id = d.quoteId /\ SamePrice(d, q)
        /\ \A g : (\E r \in quotes : /\ r.key = g.of /\ g.body.id = r.id
                                    /\ SameTerms(g.body, QuoteToDomain(r)))
                 => \E r \in quotes' : /\ r.key = g.of /\ g.body.id = r.id
                                     /\ SameTerms(g.body, QuoteToDomain(r))
    BY <1>1, <1>2, <1>3, <1>4, <1>7, Flags
  <1>9. Types'
    BY <1>1, <1>2, <1>5, <1>6, <1>8
    DEF Types, StoredType, ProviderType, ConversionsTyped, GivenTyped
  <1>10. Rows'
    <2>1. ConversionsKeyed'
      BY <1>1, <1>3, <1>5 DEF ConversionsKeyed, ConversionServed
    <2>2. Sourced'
      BY <1>1, <1>3, <1>5, <1>8 DEF Sourced
    <2> QED
      BY <1>8, <2>1, <2>2 DEF Rows
  <1>11. History'
    <2>1. QuotesTold'
      BY <1>1, <1>4, <1>6, <1>8 DEF QuotesTold
    <2>2. ConversionsTold' /\ ReadsTold'
      BY <1>1, <1>4, <1>6 DEF ConversionsTold, ReadsTold
    <2> QED
      BY <2>1, <2>2 DEF History
  <1> QED
    BY <1>9, <1>10, <1>11 DEF IInv

\* GetConversion tells what is stored and changes nothing.
LEMMA GetConversionStep ==
    ASSUME IInv, NEW t \in Transport, NEW c \in ReadCall, GetConversion(t, c)
    PROVE  IInv'
  <1> DEFINE told == Told("read", c.word, ReadAnswer(t, c))
  <1>1. /\ given' = given \cup told /\ provider' = provider /\ stored' = stored
        /\ quotes' = quotes /\ conversions' = conversions
    BY DEF GetConversion
  <1>2. QuotesTyped /\ StoredType /\ ProviderType /\ ConversionsTyped /\ GivenTyped
    BY DEF IInv, Types
  <1>3. ASSUME NEW g \in told
        PROVE  /\ g.op = "read" /\ g \in Given
               /\ \E r \in conversions : r.id = g.of /\ g.body = ConversionToDomain(r)
    <2> DEFINE r == CHOOSE x \in Found(c) : TRUE
    <2>1. ReadAnswer(t, c).error = None
          /\ g = [op |-> "read", of |-> c.word, body |-> ReadAnswer(t, c).body]
      BY <1>3 DEF Told
    <2>2. Found(c) # {} /\ ReadAnswer(t, c) = Body(ShowConversion(t, ConversionToDomain(r)))
      BY <2>1, Words DEF ReadAnswer, Failed
    <2>3. r \in conversions /\ r \in ConversionModel /\ r.id = c.word
      BY <1>2, <2>2 DEF Found, Names, ConversionsTyped
    <2> HIDE DEF r
    <2>4. g.op = "read" /\ g.of = r.id /\ g.body = ConversionToDomain(r)
          /\ g.body \in ConversionBody
      BY <2>1, <2>2, <2>3, Shown DEF Body
    <2>5. g \in Given
      <3>1. r.id \in ConversionId
        BY <2>3 DEF ConversionModel
      <3>2. g \in [op : {"read"}, of : ConversionId, body : ConversionBody]
        BY <2>1, <2>4, <3>1
      <3> QED
        BY <3>2 DEF Given
    <2> QED
      BY <2>3, <2>4, <2>5
  <1> HIDE DEF told
  <1>4. Types'
    BY <1>1, <1>2, <1>3
    DEF Types, StoredType, ProviderType, QuotesTyped, ConversionsTyped, GivenTyped
  <1>5. Rows'
    BY <1>1 DEF IInv, Rows, PricedRight, Priced, QuotesKeyed, ConversionsKeyed, Sourced
  <1>6. History'
    BY <1>1, <1>3 DEF IInv, History, QuotesTold, ConversionsTold, ReadsTold
  <1> QED
    BY <1>4, <1>5, <1>6 DEF IInv

--------------------------------------------------------------------------------
(* The other steps, and the theorems. *)

LEMMA ExpireStep ==
    ASSUME IInv, NEW row \in quotes, Expire(row)
    PROVE  IInv'
  <1> DEFINE f == [r \in quotes |-> [r EXCEPT !.expired = @ \/ r = row]]
  <1>1. /\ quotes' = {f[r] : r \in quotes}
        /\ UNCHANGED <<provider, stored, conversions, given>>
    BY DEF Expire
  <1>2. QuotesTyped /\ PricedRight /\ QuotesKeyed /\ Sourced /\ QuotesTold
    BY DEF IInv, Types, Rows, History
  <1>3. \A r \in quotes : /\ f[r] \in QuoteModel /\ SamePrice(f[r], r)
                          /\ f[r].id = r.id /\ f[r].key = r.key
    <2>1. ASSUME NEW r \in quotes, NEW b \in BOOLEAN
          PROVE  LET s == [r EXCEPT !.expired = b]
                 IN  /\ s \in QuoteModel /\ SamePrice(s, r)
                     /\ s.id = r.id /\ s.key = r.key
      BY <1>2 DEF QuotesTyped, QuoteModel, SamePrice
    <2>2. \A r \in quotes : (r.expired \/ r = row) \in BOOLEAN
      BY <1>2 DEF QuotesTyped, QuoteModel
    <2>3. \A r \in quotes : f[r] = [r EXCEPT !.expired = r.expired \/ r = row]
      OBVIOUS
    <2> QED
      BY <2>1, <2>2, <2>3
  <1> HIDE DEF f
  <1>4. /\ QuotesTyped' /\ PricedRight' /\ QuotesKeyed'
        /\ \A d : (\E q \in quotes : q.id = d.quoteId /\ SamePrice(d, q))
                 => \E q \in quotes' : q.id = d.quoteId /\ SamePrice(d, q)
        /\ \A g : (\E r \in quotes : /\ r.key = g.of /\ g.body.id = r.id
                                    /\ SameTerms(g.body, QuoteToDomain(r)))
                 => \E r \in quotes' : /\ r.key = g.of /\ g.body.id = r.id
                                     /\ SameTerms(g.body, QuoteToDomain(r))
    BY <1>1, <1>2, <1>3, Flags
  <1>5. Types'
    BY <1>1, <1>4 DEF IInv, Types, StoredType, ProviderType, ConversionsTyped, GivenTyped
  <1>6. Rows'
    BY <1>1, <1>4 DEF IInv, Rows, ConversionsKeyed, Sourced
  <1>7. History'
    BY <1>1, <1>4 DEF IInv, History, QuotesTold, ConversionsTold, ReadsTold
  <1> QED
    BY <1>5, <1>6, <1>7 DEF IInv

\* A step that leaves the tables of quotes and conversions and the history alone.
LEMMA Unconcerned ==
    ASSUME IInv, UNCHANGED <<quotes, conversions, given>>, StoredType', ProviderType'
    PROVE  IInv'
  BY DEF IInv, Types, Rows, History, QuotesTyped, ConversionsTyped, GivenTyped,
         PricedRight, Priced, QuotesKeyed, ConversionsKeyed, Sourced, QuotesTold,
         ConversionsTold, ReadsTold

LEMMA Step == IInv /\ [Next]_vars => IInv'
  <1> SUFFICES ASSUME IInv, [Next]_vars PROVE IInv'
    OBVIOUS
  <1>1. StoredType /\ ProviderType
    BY DEF IInv, Types
  <1>2. CASE ChangeProvider
    BY <1>1, <1>2, Unconcerned DEF ChangeProvider, StoredType, ProviderType
  <1>3. ASSUME NEW c \in RatesCall, GetRates(c) PROVE IInv'
    <2>1. StoredType' /\ ProviderType'
      BY <1>1, <1>3, SyncedType DEF GetRates, StoredType, ProviderType
    <2> QED
      BY <1>3, <2>1, Unconcerned DEF GetRates
  <1>4. ASSUME NEW t \in Transport, NEW c \in QuoteCall, NEW id \in QuoteId,
               CreateQuote(t, c, id)
        PROVE  IInv'
    BY <1>4, CreateQuoteStep
  <1>5. ASSUME NEW t \in Transport, NEW c \in ConversionCall, NEW id \in ConversionId,
               CreateConversion(t, c, id)
        PROVE  IInv'
    BY <1>5, CreateConversionStep
  <1>6. ASSUME NEW t \in Transport, NEW c \in ReadCall, GetConversion(t, c) PROVE IInv'
    BY <1>6, GetConversionStep
  <1>7. ASSUME NEW row \in quotes, Expire(row) PROVE IInv'
    BY <1>7, ExpireStep
  <1>8. CASE UNCHANGED vars
    BY <1>1, <1>8, Unconcerned DEF vars, StoredType, ProviderType
  <1> QED
    BY <1>2, <1>3, <1>4, <1>5, <1>6, <1>7, <1>8 DEF Next

LEMMA Invariance == Spec => []IInv
  BY Start, Step, PTL DEF Spec

\* Rows fit their columns, stored rates are not negative, and every amount stored or
\* shown is an int64 (store.go, money.go).
THEOREM TypeCorrect == Spec => []TypeOK
  <1>1. IInv => TypeOK
    BY DEF IInv, Types, StoredType, ProviderType, QuotesTyped, ConversionsTyped,
           GivenTyped, TypeOK
  <1> QED
    BY <1>1, Invariance, PTL

\* For every width of the integers, every fee and every rate, the price of every
\* stored quote is the one its terms ask for (money.go, quote.New).
THEOREM Prices == Spec => []PricedRight
  <1>1. IInv => PricedRight
    BY DEF IInv, Rows
  <1> QED
    BY <1>1, Invariance, PTL

\* The terms a client was told are kept in every later answer, in the conversion
\* and in what GetConversion reports (quotes.go, conversion.FromQuote, store.go).
THEOREM Terms == Spec => []TermsAreKept
  BY Kept, Invariance, PTL

--------------------------------------------------------------------------------
(***************************************************************************)
(* Requests implements QuoteIssuing as Quoting does, seen from the amounts *)
(* instead of the interleavings: what may be offered to a key are the      *)
(* prices that are right, in the sense of money.go's rules and not of its  *)
(* operators.  TLC cannot enumerate these offers; this is proved only.     *)
(***************************************************************************)

Price == [base : Money, quote : Money, fee : Money, total : Money, rate : Rate]
PriceOf(r) ==
    LET q == QuoteToDomain(r)
    IN  [base |-> q.base, quote |-> q.quote, fee |-> q.fee, total |-> q.total,
         rate |-> q.rate]

\* The offers that are priced right, a row of quotes as the ledger sees it, and
\* the answers to CreateQuote.
OfferOf(r) == [key |-> r.key, terms |-> PriceOf(r)]
Offers == {OfferOf(r) : r \in {s \in QuoteModel : Priced(s)}}
Issued(r) == [id |-> r.id, key |-> r.key, terms |-> PriceOf(r)]
Ledger == {Issued(r) : r \in quotes}
Answers == {[key |-> g.of, id |-> g.body.id] : g \in {h \in given : h.op = "quote"}}

Issuing == INSTANCE QuoteIssuing WITH
    Terms <- Price, quotable <- Offers, ledger <- Ledger, answers <- Answers

ImplementsIssuing == Issuing!Spec

\* What is right to offer are offers, and no step changes what is right.
LEMMA OffersType == Offers \subseteq Issuing!Offer
  <1>1. ASSUME NEW r \in QuoteModel PROVE OfferOf(r) \in Issuing!Offer
    BY DEF OfferOf, PriceOf, QuoteToDomain, Price, QuoteModel, Money, Issuing!Offer
  <1> QED
    BY <1>1 DEF Offers

LEMMA OffersStay == Offers' = Offers
  BY DEF Offers, OfferOf, PriceOf, QuoteToDomain, Priced, IsFeeDue, IsNearest

\* A row that keeps its price, its key and its id is the same to the ledger.
LEMMA SameIssued ==
    ASSUME NEW r, NEW s, SamePrice(s, r), s.id = r.id, s.key = r.key
    PROVE  Issued(s) = Issued(r)
  BY DEF Issued, PriceOf, QuoteToDomain, SamePrice

\* The flags of a quote are none of the ledger's business.
LEMMA FlagsAreStutters ==
    ASSUME NEW f, quotes' = {f[r] : r \in quotes},
           \A r \in quotes : SamePrice(f[r], r) /\ f[r].id = r.id /\ f[r].key = r.key
    PROVE  Ledger' = Ledger
  <1>1. \A r \in quotes : Issued(f[r]) = Issued(r)
    BY SameIssued
  <1>2. Ledger' = {Issued(s) : s \in quotes'}
    BY DEF Ledger, Issued, PriceOf, QuoteToDomain
  <1> QED
    BY <1>1, <1>2 DEF Ledger

\* Answers to other operations are not answers to CreateQuote.
LEMMA OtherAnswers ==
    ASSUME NEW told, given' = given \cup told, \A g \in told : g.op # "quote"
    PROVE  Answers' = Answers
  <1>1. {h \in given' : h.op = "quote"} = {h \in given : h.op = "quote"}
    OBVIOUS
  <1> QED
    BY <1>1 DEF Answers

\* A client that is told of a quote is told of the one stored under its key.
LEMMA AnswersGrow ==
    ASSUME NEW told, given' = given \cup told, NEW of, NEW id,
           \A g \in told : g.op = "quote" /\ g.of = of /\ g.body.id = id
    PROVE  Answers' \in {Answers, Answers \cup {[key |-> of, id |-> id]}}
  <1>1. Answers' = Answers \cup {[key |-> g.of, id |-> g.body.id] : g \in told}
    BY DEF Answers
  <1>2. {[key |-> g.of, id |-> g.body.id] : g \in told} \in {{}, {[key |-> of, id |-> id]}}
    <2>1. CASE told = {}
      BY <2>1
    <2>2. CASE told # {}
      BY <2>2
    <2> QED
      BY <2>1, <2>2
  <1> QED
    BY <1>1, <1>2

\* CreateQuote issues a quote that is priced right, or answers with the one its
\* key has, or refuses.
LEMMA CreateQuoteIssues ==
    ASSUME IInv, NEW t \in Transport, NEW c \in QuoteCall, NEW id \in QuoteId,
           CreateQuote(t, c, id)
    PROVE  [Issuing!Next]_Issuing!vars
  <1> DEFINE p == ParseQuote(c)
             rows == IF AdmitsQuote(t, c) THEN QuoteRows(p, id) ELSE {}
             told == Told("quote", c.key.word, QuoteAnswer(t, c, id))
  <1>1. /\ rows # {} => \A r \in quotes : r.id # id
        /\ quotes' = quotes \cup rows /\ given' = given \cup told
    BY DEF CreateQuote
  <1>2. QuotesTyped /\ StoredType /\ ProviderType /\ QuotesKeyed
    BY DEF IInv, Types, Rows
  <1>3. \A g \in told : /\ AdmitsQuote(t, c) /\ g.op = "quote" /\ g.of = c.key.word
                        /\ \E r \in quotes' : r.key = g.of /\ g.body.id = r.id
    <2>1. ASSUME NEW g \in told
          PROVE  /\ AdmitsQuote(t, c) /\ g.op = "quote" /\ g.of = c.key.word
                 /\ \E r \in quotes \cup QuoteRows(p, id) : r.key = g.of /\ g.body.id = r.id
      BY <1>2, AnsweredQuote
    <2> QED
      BY <1>1, <2>1
  <1>4. Ledger' = Ledger \cup {Issued(r) : r \in rows}
    <2> HIDE DEF rows
    <2>1. Ledger' = {Issued(r) : r \in quotes'}
      BY DEF Ledger, Issued, PriceOf, QuoteToDomain
    <2> QED
      BY <1>1, <2>1 DEF Ledger
  <1>5. CASE rows = {}
    <2>1. Ledger' = Ledger /\ quotes' = quotes
      BY <1>1, <1>4, <1>5
    <2>2. CASE told = {}
      <3>1. Answers' = Answers
        BY <1>1, <2>2, OtherAnswers
      <3> QED
        BY <2>1, <3>1, OffersStay DEF Issuing!vars
    <2>3. CASE told # {}
      <3>1. PICK g \in told : TRUE
        BY <2>3
      <3>2. told = {g}
        BY <3>1 DEF Told
      <3>3. PICK r \in quotes : r.key = g.of /\ g.body.id = r.id
        BY <1>3, <2>1, <3>1
      <3>4. given' = given \cup {g} /\ g.op = "quote"
        BY <1>1, <1>3, <3>1, <3>2
      <3>5. Answers' = Answers \cup {[key |-> r.key, id |-> r.id]}
        BY <3>3, <3>4 DEF Answers
      <3>6. Issuing!Reply(Issued(r)) = [key |-> r.key, id |-> r.id]
        BY DEF Issued, Issuing!Reply
      <3>7. Issuing!Answer(Issued(r))
        BY <2>1, <3>5, <3>6, OffersStay DEF Issuing!Answer
      <3>8. Issued(r) \in Ledger
        BY DEF Ledger
      <3> QED
        BY <3>7, <3>8 DEF Issuing!Next
    <2> QED
      BY <2>2, <2>3
  <1>6. CASE rows # {}
    <2>1. AdmitsQuote(t, c) /\ rows = QuoteRows(p, id)
      BY <1>6
    <2>2. ParsedType(p) /\ p.key = c.key.word
      BY <2>1, Parsed
    <2>3. PICK r \in QuoteRows(p, id) : TRUE
      BY <1>6, <2>1
    <2>4. /\ r \in QuoteModel /\ Priced(r) /\ r.id = id /\ r.key = p.key
          /\ ~QuoteServed(p.key) /\ rows = {r}
      BY <1>2, <2>1, <2>2, <2>3, NewRow
    <2>5. OfferOf(r) \in Offers
      BY <2>4 DEF Offers
    <2>6. Issuing!Quote(id, OfferOf(r)) = Issued(r)
      BY <2>4 DEF Issuing!Quote, OfferOf, Issued
    <2>7. Ledger' = Ledger \cup {Issued(r)}
      BY <1>4, <2>4
    <2>8. \A i \in Ledger : i.id # id /\ i.key # OfferOf(r).key
      <3>1. \A q \in quotes : q.id # id /\ q.key # r.key
        BY <1>1, <1>6, <2>4 DEF QuoteServed
      <3> QED
        BY <3>1 DEF Ledger, Issued, OfferOf
    <2>9. Answers' \in {Answers, Answers \cup {[key |-> r.key, id |-> r.id]}}
      <3>1. \A q \in quotes' : q.key = r.key => q = r
        BY <1>1, <2>4 DEF QuoteServed
      <3>2. \A g \in told : g.op = "quote" /\ g.of = r.key /\ g.body.id = r.id
        BY <1>3, <2>2, <2>4, <3>1
      <3> HIDE DEF told
      <3> QED
        BY <1>1, <3>2, AnswersGrow
    <2>10. Issuing!Reply(Issued(r)) = [key |-> r.key, id |-> r.id]
      BY DEF Issued, Issuing!Reply
    <2>11. Issuing!Issue(id, OfferOf(r))
      BY <2>6, <2>7, <2>8, <2>9, <2>10, OffersStay DEF Issuing!Issue
    <2> QED
      BY <2>5, <2>11 DEF Issuing!Next
  <1> QED
    BY <1>5, <1>6

\* Nothing else issues or answers a quote.
LEMMA OthersIssueNothing ==
    ASSUME IInv,
           \/ ChangeProvider
           \/ \E c \in RatesCall : GetRates(c)
           \/ \E t \in Transport, c \in ConversionCall, id \in ConversionId :
                CreateConversion(t, c, id)
           \/ \E t \in Transport, c \in ReadCall : GetConversion(t, c)
           \/ \E row \in quotes : Expire(row)
    PROVE  UNCHANGED Issuing!vars
  <1>1. \A r \in quotes, b \in BOOLEAN :
          /\ LET s == [r EXCEPT !.accepted = b]
             IN  SamePrice(s, r) /\ s.id = r.id /\ s.key = r.key
          /\ LET s == [r EXCEPT !.expired = b]
             IN  SamePrice(s, r) /\ s.id = r.id /\ s.key = r.key
    BY DEF IInv, Types, QuotesTyped, QuoteModel, SamePrice
  <1>2. \A r \in quotes : r.accepted \in BOOLEAN /\ r.expired \in BOOLEAN
    BY DEF IInv, Types, QuotesTyped, QuoteModel
  <1>3. CASE ChangeProvider \/ \E c \in RatesCall : GetRates(c)
    <2>1. quotes' = quotes /\ given' = given
      BY <1>3 DEF ChangeProvider, GetRates
    <2> QED
      BY <2>1, OffersStay DEF Ledger, Issued, PriceOf, QuoteToDomain, Answers, Issuing!vars
  <1>4. ASSUME NEW t \in Transport, NEW c \in ConversionCall, NEW id \in ConversionId,
               CreateConversion(t, c, id)
        PROVE  UNCHANGED Issuing!vars
    <2> DEFINE made == IF AdmitsConversion(t, c) THEN NewConversions(c, id) ELSE {}
               told == Told("conversion", c.key.word, ConversionAnswer(t, c, id))
               f == [r \in quotes |->
                       [r EXCEPT !.accepted = @ \/ \E v \in made : v.quoteId = r.id]]
    <2>1. quotes' = {f[r] : r \in quotes} /\ given' = given \cup told
      BY <1>4 DEF CreateConversion
    <2>2. \A g \in told : g.op # "quote"
      BY DEF Told
    <2>3. \A r \in quotes : /\ f[r] = [r EXCEPT !.accepted =
                                        r.accepted \/ \E v \in made : v.quoteId = r.id]
                            /\ (r.accepted \/ \E v \in made : v.quoteId = r.id) \in BOOLEAN
      BY <1>2
    <2> HIDE DEF made, told, f
    <2>4. \A r \in quotes : SamePrice(f[r], r) /\ f[r].id = r.id /\ f[r].key = r.key
      BY <1>1, <2>3
    <2>5. Ledger' = Ledger /\ Answers' = Answers
      BY <2>1, <2>2, <2>4, FlagsAreStutters, OtherAnswers
    <2> QED
      BY <2>5, OffersStay DEF Issuing!vars
  <1>5. ASSUME NEW t \in Transport, NEW c \in ReadCall, GetConversion(t, c)
        PROVE  UNCHANGED Issuing!vars
    <2> DEFINE told == Told("read", c.word, ReadAnswer(t, c))
    <2>1. quotes' = quotes /\ given' = given \cup told /\ \A g \in told : g.op # "quote"
      BY <1>5 DEF GetConversion, Told
    <2>2. Answers' = Answers
      BY <2>1, OtherAnswers
    <2> QED
      BY <2>1, <2>2, OffersStay DEF Ledger, Issued, PriceOf, QuoteToDomain, Issuing!vars
  <1>6. ASSUME NEW row \in quotes, Expire(row) PROVE UNCHANGED Issuing!vars
    <2> DEFINE f == [r \in quotes |-> [r EXCEPT !.expired = @ \/ r = row]]
    <2>1. quotes' = {f[r] : r \in quotes} /\ given' = given
      BY <1>6 DEF Expire
    <2>2. \A r \in quotes : /\ f[r] = [r EXCEPT !.expired = r.expired \/ r = row]
                            /\ (r.expired \/ r = row) \in BOOLEAN
      BY <1>2
    <2> HIDE DEF f
    <2>3. \A r \in quotes : SamePrice(f[r], r) /\ f[r].id = r.id /\ f[r].key = r.key
      BY <1>1, <2>2
    <2>4. Ledger' = Ledger
      BY <2>1, <2>3, FlagsAreStutters
    <2> QED
      BY <2>1, <2>4, OffersStay DEF Answers, Issuing!vars
  <1> QED
    BY <1>3, <1>4, <1>5, <1>6

\* At every amount, rate and fee CreateQuote, whichever transport serves it,
\* is the one-step issuing of quotes: one for a key, priced right, and every
\* answer names it (quotes.go, money.go, store.go).
THEOREM Refinement == Spec => ImplementsIssuing
  <1>1. Init => Issuing!Init
    BY OffersType DEF Init, Ledger, Answers, Issuing!Init
  <1>2. IInv /\ [Next]_vars => [Issuing!Next]_Issuing!vars
    <2> SUFFICES ASSUME IInv, [Next]_vars PROVE [Issuing!Next]_Issuing!vars
      OBVIOUS
    <2>1. ASSUME NEW t \in Transport, NEW c \in QuoteCall, NEW id \in QuoteId,
                 CreateQuote(t, c, id)
          PROVE  [Issuing!Next]_Issuing!vars
      BY <2>1, CreateQuoteIssues
    <2>2. CASE UNCHANGED vars
      BY <2>2, OffersStay DEF vars, Ledger, Issued, PriceOf, QuoteToDomain, Answers,
           Issuing!vars
    <2> QED
      BY <2>1, <2>2, OthersIssueNothing DEF Next
  <1> QED
    BY <1>1, <1>2, Invariance, PTL DEF Spec, ImplementsIssuing, Issuing!Spec

================================================================================

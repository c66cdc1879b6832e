-------------------------------- MODULE Requests -------------------------------
(***************************************************************************)
(* What the three transports (internal/adapter/inbound/http, grpc, rpc)    *)
(* accept, what the use cases answer, the amounts they compute and store,  *)
(* and what each transport shows of them.                                  *)
(*                                                                         *)
(* Requests are served one after the other here; AcceptQuote and Quoting   *)
(* interleave them, Webhooks moves a conversion's status, and Settlement   *)
(* follows the outbox.  A text is the word in it and how it is spelled.    *)
(***************************************************************************)
EXTENDS Money, Sequences

CONSTANTS Key,           \* idempotency keys
          QuoteId,       \* ULIDs of quotes
          ConversionId,  \* ULIDs of conversions
          Blank,         \* a text without a word
          TooLong,       \* a key of more than maxIdempotencyKeyLength bytes
          Other,         \* a word that is no currency and no ULID
          ProviderText,  \* texts in the place of a provider, among them ""
          RateUnit,      \* ten to the ten: the column rate is NUMERIC(20, 10)
          FeeBPS,        \* FX_FEE_BPS
          MinFee,        \* FX_MIN_FEE_MINOR in KRW
          Provider,      \* what the rate provider may do
          QuoteCall, ConversionCall, ReadCall, RatesCall,  \* requests
          None           \* Go's nil, SQL NULL, no error

Corridor == Currency \X Currency
Text(words) == [word : words, spelled : {"exact", "padded", "lower"}]
KeyText == Text(Key \cup {Blank, TooLong})
CurrencyText == Text(Currency \cup {Blank, Other})

ASSUME RequestsAssumption ==
    /\ None \notin Currency \cup Key \cup QuoteId \cup ConversionId
    /\ {Blank, TooLong, Other} \cap (Currency \cup Key) = {}
    /\ {Blank, Other} \cap (QuoteId \cup ConversionId) = {}
    /\ None \notin {"Validation", "NotFound", "Conflict", "Internal"}
    /\ {"toss", "wise"} \subseteq ProviderText
    /\ RateUnit \in Nat \ {0}
    /\ FeeBPS \in Nat /\ MinFee \in Money /\ MinFee.minor >= 0
    /\ Provider \subseteq [does : {"serves", "rejects", "fails"},
                           rates : [Corridor -> Rate \cup {None}]]
    /\ None \notin Rate
    /\ QuoteCall \subseteq
         [key : KeyText, quote : CurrencyText,
          amount : [currency : CurrencyText, minor : Minor] \cup {None}]
    /\ ConversionCall \subseteq
         [key : KeyText, quoteId : Text(QuoteId \cup {Blank, Other}),
          payment : ProviderText, transfer : ProviderText]
    /\ ReadCall \subseteq Text(ConversionId \cup {Blank, Other})
    /\ RatesCall \subseteq [base : CurrencyText, quotes : Seq(CurrencyText)]

VARIABLES
    provider,     \* what the rate provider does now
    stored,       \* the table reference_rates: corridor to rate or None
    quotes,       \* the table quotes
    conversions,  \* the table conversions
    given         \* history: the successful answers, by operation and word

vars == <<provider, stored, quotes, conversions, given>>

QuoteModel ==
    [id : QuoteId, key : Key, baseCurrency : Currency, base : Minor,
     quoteCurrency : Currency, quote : Minor, fee : Minor, total : Minor,
     rate : Rate, expired : BOOLEAN, accepted : BOOLEAN]
ConversionModel ==
    [id : ConversionId, quoteId : QuoteId, key : Key, baseCurrency : Currency,
     base : Minor, quoteCurrency : Currency, quote : Minor, fee : Minor,
     total : Minor, rate : Rate, payment : ProviderText, transfer : ProviderText]
QuoteBody ==
    [id : QuoteId, key : Key, base : Money, quote : Money, fee : Money,
     total : Money, rate : Rate, accepted : BOOLEAN]
ConversionBody ==
    [id : ConversionId, quoteId : QuoteId, key : Key, base : Money,
     quote : Money, fee : Money, total : Money, rate : Rate,
     payment : ProviderText, transfer : ProviderText]
Given ==
    [op : {"quote"}, of : Key, body : QuoteBody]
      \cup [op : {"conversion"}, of : Key, body : ConversionBody]
      \cup [op : {"read"}, of : ConversionId, body : ConversionBody]

--------------------------------------------------------------------------------
(* Texts. *)

\* ParseIdempotencyKey trims the text and refuses an empty or a long one.
ParseIdempotencyKey(t) == IF t.word \in {Blank, TooLong} THEN None ELSE t.word

\* ParseCurrency trims the text and puts it into upper case.
ParseCurrency(t) == IF t.word \in Currency THEN t.word ELSE None

\* ulid.ParseStrict takes 26 letters and digits in either case.
IsULID(t) ==
    t.word \in QuoteId \cup ConversionId /\ t.spelled \in {"exact", "lower"}

\* WHERE id = ?: the rows hold the ULIDs in upper case.
Names(t, row) == t.spelled = "exact" /\ row.id = t.word

--------------------------------------------------------------------------------
(* The rows of the store. *)

QuoteModelFromDomain(q) ==
    [id |-> q.id, key |-> q.key, baseCurrency |-> q.base.currency,
     base |-> q.base.minor, quoteCurrency |-> q.quote.currency,
     quote |-> q.quote.minor, fee |-> q.fee.minor, total |-> q.total.minor,
     rate |-> q.rate, expired |-> q.expired, accepted |-> q.accepted]

QuoteToDomain(r) ==
    [id |-> r.id, key |-> r.key,
     base |-> [currency |-> r.baseCurrency, minor |-> r.base],
     quote |-> [currency |-> r.quoteCurrency, minor |-> r.quote],
     fee |-> [currency |-> r.baseCurrency, minor |-> r.fee],
     total |-> [currency |-> r.baseCurrency, minor |-> r.total],
     rate |-> r.rate, expired |-> r.expired, accepted |-> r.accepted]

\* A bug: the total is stored in the column of the fee.
ConversionModelMixedUp(c) ==
    [id |-> c.id, quoteId |-> c.quoteId, key |-> c.key,
     baseCurrency |-> c.base.currency, base |-> c.base.minor,
     quoteCurrency |-> c.quote.currency, quote |-> c.quote.minor,
     fee |-> c.total.minor, total |-> c.total.minor, rate |-> c.rate,
     payment |-> c.payment, transfer |-> c.transfer]

ConversionModelFromDomain(c) ==
    [id |-> c.id, quoteId |-> c.quoteId, key |-> c.key,
     baseCurrency |-> c.base.currency, base |-> c.base.minor,
     quoteCurrency |-> c.quote.currency, quote |-> c.quote.minor,
     fee |-> c.fee.minor, total |-> c.total.minor, rate |-> c.rate,
     payment |-> c.payment, transfer |-> c.transfer]

ConversionToDomain(r) ==
    [id |-> r.id, quoteId |-> r.quoteId, key |-> r.key,
     base |-> [currency |-> r.baseCurrency, minor |-> r.base],
     quote |-> [currency |-> r.quoteCurrency, minor |-> r.quote],
     fee |-> [currency |-> r.baseCurrency, minor |-> r.fee],
     total |-> [currency |-> r.baseCurrency, minor |-> r.total],
     rate |-> r.rate, payment |-> r.payment, transfer |-> r.transfer]

--------------------------------------------------------------------------------
(* What the transports show.  The scale and the decimal text of an amount   *)
(* follow from its currency and its minor units.                            *)

ToQuoteResponse(q) ==
    [id |-> q.id, key |-> q.key, base |-> q.base, quote |-> q.quote,
     fee |-> q.fee, total |-> q.total, rate |-> q.rate, accepted |-> q.accepted]
ToQuoteMessage(q) ==
    [id |-> q.id, key |-> q.key, base |-> q.base, quote |-> q.quote,
     fee |-> q.fee, total |-> q.total, rate |-> q.rate, accepted |-> q.accepted]
ToQuoteReply(q) ==
    [id |-> q.id, key |-> q.key, base |-> q.base, quote |-> q.quote,
     fee |-> q.fee, total |-> q.total, rate |-> q.rate, accepted |-> q.accepted]

ShowQuote(t, q) ==
    CASE t = "http" -> ToQuoteResponse(q)
      [] t = "grpc" -> ToQuoteMessage(q)
      [] t = "rpc"  -> ToQuoteReply(q)

ToConversionResponse(c) ==
    [id |-> c.id, quoteId |-> c.quoteId, key |-> c.key, base |-> c.base,
     quote |-> c.quote, fee |-> c.fee, total |-> c.total, rate |-> c.rate,
     payment |-> c.payment, transfer |-> c.transfer]
ToConversionMessage(c) ==
    [id |-> c.id, quoteId |-> c.quoteId, key |-> c.key, base |-> c.base,
     quote |-> c.quote, fee |-> c.fee, total |-> c.total, rate |-> c.rate,
     payment |-> c.payment, transfer |-> c.transfer]
ToConversionReply(c) ==
    [id |-> c.id, quoteId |-> c.quoteId, key |-> c.key, base |-> c.base,
     quote |-> c.quote, fee |-> c.fee, total |-> c.total, rate |-> c.rate,
     payment |-> c.payment, transfer |-> c.transfer]

ShowConversion(t, c) ==
    CASE t = "http" -> ToConversionResponse(c)
      [] t = "grpc" -> ToConversionMessage(c)
      [] t = "rpc"  -> ToConversionReply(c)

--------------------------------------------------------------------------------
(* Reference rates. *)

\* len(rates) == len(quotes): a repeated currency is listed once.
Complete(table, base, asked) ==
    /\ \A i \in DOMAIN asked : table[<<base, asked[i]>>] # None
    /\ \A i, j \in DOMAIN asked : asked[i] = asked[j] => i = j

\* The corridors the provider sends a rate for.
Sent(base, asked) ==
    {c \in Corridor : /\ provider.does = "serves" /\ provider.rates[c] # None
                      /\ \E i \in DOMAIN asked : c = <<base, asked[i]>>}

\* A bug: the rates are written as they come.
AllValidUnchecked(sent) == TRUE

\* ExchangeRate.Validate, which UpsertRates calls before it writes.
AllValid(sent) == \A c \in sent : provider.rates[c].num > 0

\* What the column rate makes of a positive rate: ten digits after the point,
\* halves rounded up, and no more than ten before it.
Numeric(rate) ==
    [num |-> (2 * rate.num * RateUnit + rate.den) \div (2 * rate.den), den |-> RateUnit]
AllFit(sent) == \A c \in sent : Numeric(provider.rates[c]).num < RateUnit * RateUnit

\* reference_rates after ensureReferenceRates.
Synced(base, asked) ==
    LET sent == Sent(base, asked)
    IN  IF Complete(stored, base, asked) \/ ~AllValid(sent) \/ ~AllFit(sent) THEN stored
        ELSE [c \in Corridor |->
                IF c \in sent THEN Numeric(provider.rates[c]) ELSE stored[c]]

SyncError(base, asked) ==
    LET complete == Complete(stored, base, asked)
    IN  CASE complete -> None
          [] ~complete /\ provider.does = "fails"   -> "Internal"
          [] ~complete /\ provider.does = "rejects" -> "Validation"
          [] ~complete /\ provider.does = "serves"  ->
               IF ~AllValid(Sent(base, asked)) THEN "Validation"
               ELSE IF /\ AllFit(Sent(base, asked))
                       /\ Complete(Synced(base, asked), base, asked) THEN None
               ELSE "Internal"

--------------------------------------------------------------------------------
(* CreateQuote. *)

\* What every handler parses; RPC sends a missing amount as an empty one.
ParseQuote(c) ==
    LET amount == IF c.amount = None
                  THEN [currency |-> [word |-> Blank, spelled |-> "exact"], minor |-> 0]
                  ELSE c.amount
    IN  [key |-> ParseIdempotencyKey(c.key),
         base |-> [currency |-> ParseCurrency(amount.currency), minor |-> amount.minor],
         quote |-> ParseCurrency(c.quote)]
QuoteParses(c) ==
    None \notin {ParseQuote(c).key, ParseQuote(c).base.currency, ParseQuote(c).quote}

\* binding:"required" takes a zero for a missing field.
HTTPAdmitsQuote(c) == c.amount # None /\ c.amount.minor # 0 /\ QuoteParses(c)
GRPCAdmitsQuote(c) == c.amount # None /\ QuoteParses(c)
RPCAdmitsQuote(c)  == QuoteParses(c)

AdmitsQuote(t, c) ==
    CASE t = "http" -> HTTPAdmitsQuote(c)
      [] t = "grpc" -> GRPCAdmitsQuote(c)
      [] t = "rpc"  -> RPCAdmitsQuote(c)

QuoteServed(key) == \E r \in quotes : r.key = key

\* quote.New refuses nothing else: the corridor is the one asked for, and the
\* configuration holds a positive TTL and fees that are not negative.
CanPrice(base, rate) == CanConvert(base, rate) /\ CanCharge(base, FeeBPS, MinFee)

NewQuote(id, key, base, target, rate) ==
    LET fee == FeeFromBPS(base, FeeBPS, MinFee)
    IN  [id |-> id, key |-> key, base |-> base, quote |-> Convert(base, target, rate),
         fee |-> fee, total |-> Add(base, fee), rate |-> rate,
         expired |-> FALSE, accepted |-> FALSE]

\* What CreateQuoteUsecase.Execute says to a parsed request.
QuoteError(p) ==
    LET asked == <<p.quote>>
        sync == SyncError(p.base.currency, asked)
        rate == Synced(p.base.currency, asked)[<<p.base.currency, p.quote>>]
    IN  IF QuoteServed(p.key) THEN None
        ELSE IF sync # None THEN sync
        ELSE IF CanPrice(p.base, rate) THEN None ELSE "Validation"

\* The row it inserts, if any.
QuoteRows(p, id) ==
    IF QuoteServed(p.key) \/ QuoteError(p) # None THEN {}
    ELSE {QuoteModelFromDomain(
            NewQuote(id, p.key, p.base, p.quote,
              Synced(p.base.currency, <<p.quote>>)[<<p.base.currency, p.quote>>]))}

Failed(error) == [error |-> error, body |-> None]
Body(body)    == [error |-> None, body |-> body]

QuoteAnswer(t, c, id) ==
    LET p == ParseQuote(c)
    IN  IF ~AdmitsQuote(t, c) THEN Failed("Validation")
        ELSE IF QuoteError(p) # None THEN Failed(QuoteError(p))
        ELSE Body(ShowQuote(t, QuoteToDomain(
               CHOOSE r \in quotes \cup QuoteRows(p, id) : r.key = p.key)))

--------------------------------------------------------------------------------
(* CreateConversion and GetConversion. *)

IsSupportedPaymentProvider(p)  == p \in {"toss", "stripe", "demo"}
IsSupportedTransferProvider(p) == p \in {"wise", "plaid", "demo"}

\* A bug: the demo provider is missing in the list of the binding tag.
HTTPAdmitsWithoutDemo(c) ==
    /\ c.payment \in {"", "toss", "stripe"}
    /\ c.transfer \in {"", "wise", "plaid", "demo"}

\* binding:"omitempty,oneof=...".
HTTPAdmitsProviders(c) ==
    /\ c.payment \in {"", "toss", "stripe", "demo"}
    /\ c.transfer \in {"", "wise", "plaid", "demo"}

AdmitsConversion(t, c) ==
    /\ ParseIdempotencyKey(c.key) # None
    /\ IsULID(c.quoteId)
    /\ t = "http" => HTTPAdmitsProviders(c)

PaymentProvider(c)  == IF c.payment = "" THEN "toss" ELSE c.payment
TransferProvider(c) == IF c.transfer = "" THEN "wise" ELSE c.transfer

ConversionServed(key) == \E r \in conversions : r.key = key
Source(c) == {r \in quotes : Names(c.quoteId, r)}

\* CanAccept and MarkQuoteAccepted together; now = expires_at passes the first
\* and not the second, with the same error.
CanAccept(r) == ~r.accepted /\ ~r.expired

ConversionError(c) ==
    IF ConversionServed(ParseIdempotencyKey(c.key)) THEN None
    ELSE IF Source(c) = {} THEN "NotFound"
    ELSE IF \E r \in Source(c) : ~CanAccept(r) THEN "Conflict"
    ELSE IF /\ IsSupportedPaymentProvider(PaymentProvider(c))
            /\ IsSupportedTransferProvider(TransferProvider(c))
         THEN None ELSE "Validation"

FromQuote(id, key, q, payment, transfer) ==
    [id |-> id, quoteId |-> q.id, key |-> key, base |-> q.base, quote |-> q.quote,
     fee |-> q.fee, total |-> q.total, rate |-> q.rate,
     payment |-> payment, transfer |-> transfer]

\* The conversion AcceptQuoteUsecase.Execute creates, if any.
NewConversions(c, id) ==
    IF ConversionServed(ParseIdempotencyKey(c.key)) \/ ConversionError(c) # None THEN {}
    ELSE {FromQuote(id, ParseIdempotencyKey(c.key), QuoteToDomain(r),
                    PaymentProvider(c), TransferProvider(c)) : r \in Source(c)}

\* What it answers with: the stored conversion, or the one it made.
ConversionAnswer(t, c, id) ==
    IF ~AdmitsConversion(t, c) THEN Failed("Validation")
    ELSE IF ConversionError(c) # None THEN Failed(ConversionError(c))
    ELSE Body(ShowConversion(t,
           CHOOSE v \in {ConversionToDomain(r) : r \in conversions}
                          \cup NewConversions(c, id) :
               v.key = ParseIdempotencyKey(c.key)))

Found(c) == {r \in conversions : Names(c, r)}

ReadAnswer(t, c) ==
    IF ~IsULID(c) THEN Failed("Validation")
    ELSE IF Found(c) = {} THEN Failed("NotFound")
    ELSE Body(ShowConversion(t, ConversionToDomain(CHOOSE r \in Found(c) : TRUE)))

--------------------------------------------------------------------------------
(* GetRates. *)

\* parseCurrenciesCSV and the two parseCurrencies: HTTP joins the texts with
\* commas, and an empty text fails like an empty list.
RatesParse(c) ==
    /\ ParseCurrency(c.base) # None
    /\ c.quotes # <<>>
    /\ \A i \in DOMAIN c.quotes : ParseCurrency(c.quotes[i]) # None

Asked(c) == [i \in DOMAIN c.quotes |-> ParseCurrency(c.quotes[i])]

--------------------------------------------------------------------------------
Init ==
    /\ provider \in Provider
    /\ stored = [c \in Corridor |-> None]
    /\ quotes = {}
    /\ conversions = {}
    /\ given = {}

\* The market moves, the provider fails or it comes back.
ChangeProvider ==
    /\ provider' \in Provider
    /\ UNCHANGED <<stored, quotes, conversions, given>>

GetRates(c) ==
    /\ RatesParse(c)
    /\ stored' = Synced(ParseCurrency(c.base), Asked(c))
    /\ UNCHANGED <<provider, quotes, conversions, given>>

\* The history of an answer.
Told(op, of, answer) ==
    IF answer.error # None THEN {} ELSE {[op |-> op, of |-> of, body |-> answer.body]}

CreateQuote(t, c, id) ==
    LET p == ParseQuote(c)
        rows == IF AdmitsQuote(t, c) THEN QuoteRows(p, id) ELSE {}
    IN  /\ rows # {} => \A r \in quotes : r.id # id
        /\ quotes' = quotes \cup rows
        /\ stored' = IF AdmitsQuote(t, c) /\ ~QuoteServed(p.key)
                     THEN Synced(p.base.currency, <<p.quote>>) ELSE stored
        /\ given' = given \cup Told("quote", c.key.word, QuoteAnswer(t, c, id))
        /\ UNCHANGED <<provider, conversions>>

CreateConversion(t, c, id) ==
    LET made == IF AdmitsConversion(t, c) THEN NewConversions(c, id) ELSE {}
    IN  /\ made # {} => \A r \in conversions : r.id # id
        /\ conversions' = conversions \cup {ConversionModelFromDomain(v) : v \in made}
        /\ quotes' = {[r EXCEPT !.accepted = @ \/ \E v \in made : v.quoteId = r.id] :
                         r \in quotes}
        /\ given' = given \cup Told("conversion", c.key.word, ConversionAnswer(t, c, id))
        /\ UNCHANGED <<provider, stored>>

GetConversion(t, c) ==
    /\ given' = given \cup Told("read", c.word, ReadAnswer(t, c))
    /\ UNCHANGED <<provider, stored, quotes, conversions>>

\* The clock passes expires_at.
Expire(row) ==
    /\ ~row.expired
    /\ quotes' = {[r EXCEPT !.expired = @ \/ r = row] : r \in quotes}
    /\ UNCHANGED <<provider, stored, conversions, given>>

Transport == {"http", "grpc", "rpc"}

Next ==
    \/ ChangeProvider
    \/ \E c \in RatesCall : GetRates(c)
    \/ \E t \in Transport, c \in QuoteCall, id \in QuoteId : CreateQuote(t, c, id)
    \/ \E t \in Transport, c \in ConversionCall, id \in ConversionId :
          CreateConversion(t, c, id)
    \/ \E t \in Transport, c \in ReadCall : GetConversion(t, c)
    \/ \E row \in quotes : Expire(row)

Spec == Init /\ [][Next]_vars

--------------------------------------------------------------------------------
(* Properties. *)

\* The variables have their types: a row fits its columns, a stored rate is not
\* negative, and no answer shows an amount that is not an int64.
TypeOK ==
    /\ provider \in Provider
    /\ stored \in [Corridor -> {r \in Rate : r.num >= 0} \cup {None}]
    /\ quotes \subseteq QuoteModel
    /\ conversions \subseteq ConversionModel
    /\ given \subseteq Given

Priced(q) ==
    LET n == q.base * q.rate.num * Unit[q.quoteCurrency]
        d == q.rate.den * Unit[q.baseCurrency]
    IN  /\ q.base > 0 /\ q.fee >= MinFee.minor
        /\ q.baseCurrency = MinFee.currency
        /\ q.base * FeeBPS <= MaxMinor
             => IsFeeDue(q.fee, q.base, FeeBPS, MinFee.minor)
        /\ q.base + q.fee <= MaxMinor => q.total = q.base + q.fee
        /\ n <= MaxMinor * d => q.quote >= 0 /\ IsNearest(q.quote, n, d)

\* The price of a stored quote is the one the terms ask for, whatever the
\* amount: the fee is never below the minimum; it is the least that covers the
\* basis points and the total is the amount and the fee, unless int64 cannot
\* hold the product or the sum; and the converted amount is the nearest, the
\* even one of two (FeeFromBPS, Convert and Add of money.go).
PricedRight == \A q \in quotes : Priced(q)

\* HTTP answers as the two others do, or refuses, with a validation error, what
\* they refuse as well or have served before.
Agree(http, others, served) ==
    \/ http = others
    \/ http.error = "Validation" /\ (others.error # None \/ served)

\* A request is answered alike whichever server it is sent to: gRPC and rpc
\* always agree, and what HTTP accepts they accept with the same answer.  HTTP
\* checks the fields before it looks for the key, so it can refuse the retry of
\* a served key, and name another error (fx_handler.go, the two server.go).
TransportsAgree ==
    /\ \A c \in QuoteCall, id \in QuoteId :
          /\ QuoteAnswer("grpc", c, id) = QuoteAnswer("rpc", c, id)
          /\ Agree(QuoteAnswer("http", c, id), QuoteAnswer("grpc", c, id),
                   QuoteServed(ParseQuote(c).key))
    /\ \A c \in ConversionCall, id \in ConversionId :
          /\ ConversionAnswer("grpc", c, id) = ConversionAnswer("rpc", c, id)
          /\ Agree(ConversionAnswer("http", c, id), ConversionAnswer("grpc", c, id),
                   ConversionServed(ParseIdempotencyKey(c.key)))
    /\ \A c \in ReadCall :
          ReadAnswer("http", c) = ReadAnswer("grpc", c)
            /\ ReadAnswer("grpc", c) = ReadAnswer("rpc", c)

SameTerms(a, b) ==
    /\ a.base = b.base /\ a.quote = b.quote /\ a.fee = b.fee
    /\ a.total = b.total /\ a.rate = b.rate

\* The terms a client was told are kept: however a key is spelled and whatever
\* the request says the next time, on whichever server, the key gets the quote
\* or the conversion it got first; a conversion has the amounts and the rate of
\* the quote the client was shown; and GetConversion shows what the client was
\* told when it was made (the lookups of quotes.go, FromQuote, store.go's rows).
TermsAreKept ==
    \A g, h \in given :
        /\ g.op = "quote" /\ h.op = "quote" /\ g.of = h.of =>
             g.body.id = h.body.id /\ SameTerms(g.body, h.body)
        /\ g.op = "conversion" /\ h.op = "conversion" /\ g.of = h.of => g.body = h.body
        /\ g.op = "conversion" /\ h.op = "read" /\ g.body.id = h.of => g.body = h.body
        /\ g.op = "quote" /\ h.op = "conversion" /\ h.body.quoteId = g.body.id =>
             SameTerms(g.body, h.body)

================================================================================

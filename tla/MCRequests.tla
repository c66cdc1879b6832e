------------------------------- MODULE MCRequests ------------------------------
(***************************************************************************)
(* A TLC instance of Requests: 16-bit amounts, a fee of 50 basis points    *)
(* with a minimum of 2, and requests around the limits of each step.       *)
(***************************************************************************)
EXTENDS Requests, TLC

CONSTANTS KRW, USD, k1, k2

Units == KRW :> 1 @@ USD :> 100
Minimum == [currency |-> KRW, minor |-> 2]

Exact(word) == [word |-> word, spelled |-> "exact"]
Padded(word) == [word |-> word, spelled |-> "padded"]
Lower(word) == [word |-> word, spelled |-> "lower"]
Of(currency, minor) == [currency |-> currency, minor |-> minor]

\* Dollars for a won, stored as 0.007, 0.001 and 0: 15 won are 10.5 cents and
\* 645 won 451.5 at the first.
Sevens == [num |-> 69999, den |-> 10000000]
Falling == [num |-> 1, den |-> 1000]
Tiny == [num |-> 1, den |-> 10000]

\* More than the column can hold, and less than Validate lets through.
Huge == [num |-> 2000, den |-> 1]
Negative == [num |-> -1, den |-> 1000]

Serving(rate, back) ==
    [does |-> "serves",
     rates |-> [c \in Corridor |-> CASE c = <<KRW, USD>> -> rate
                                     [] c = <<USD, KRW>> -> back
                                     [] c[1] = c[2] -> None]]
Idle(does) == [does |-> does, rates |-> [c \in Corridor |-> None]]
Market == {Serving(Sevens, Huge), Serving(Falling, Negative), Serving(Tiny, None),
           Idle("fails"), Idle("rejects")}

Quotation(key, amount, quote) == [key |-> key, amount |-> amount, quote |-> quote]
Won(minor) == Of(Exact(KRW), minor)

\* Retries with another spelling and another amount, ties, an amount whose fee
\* exceeds the minimum, one whose fee overflows, and what some parser or
\* quote.New refuses.
Quotations ==
    {Quotation(Exact(k1), Won(15), Exact(USD)),
     Quotation(Padded(k1), Of(Lower(KRW), 0), Padded(USD)),
     Quotation(Exact(k2), Won(645), Lower(USD)),
     Quotation(Padded(k2), Won(32767), Exact(USD)),
     Quotation(Exact(k2), Won(-1), Exact(USD)),
     Quotation(Exact(k2), None, Exact(USD)),
     Quotation(Exact(k2), Of(Exact(USD), 5), Exact(KRW)),
     Quotation(Exact(k2), Won(5), Exact(Other)),
     Quotation(Exact(Blank), Won(5), Exact(USD)),
     Quotation(Exact(TooLong), Won(5), Exact(USD))}

Acceptance(key, quote, payment, transfer) ==
    [key |-> key, quoteId |-> quote, payment |-> payment, transfer |-> transfer]
Acceptances ==
    UNION {{Acceptance(Exact(k1), Exact(q), "", ""),
            Acceptance(Padded(k1), Exact(q), "other", "demo"),
            Acceptance(Exact(k2), Exact(q), "demo", "plaid"),
            Acceptance(Exact(k2), Exact(q), "stripe", "other"),
            Acceptance(Exact(k2), Lower(q), "", ""),
            Acceptance(Exact(k2), Padded(q), "", "")} : q \in QuoteId}
      \cup {Acceptance(Exact(k2), Exact(Other), "", ""),
            Acceptance(Exact(Blank), Exact(Other), "", "")}

ProviderTexts == {"", "toss", "stripe", "demo", "wise", "plaid", "other"}

Readings ==
    UNION {{Exact(c), Lower(c), Padded(c)} : c \in ConversionId} \cup {Exact(Other)}

RatesOf(base, asked) == [base |-> base, quotes |-> asked]
RateQueries ==
    {RatesOf(Exact(KRW), <<Padded(USD)>>), RatesOf(Lower(KRW), <<Exact(USD), Exact(USD)>>),
     RatesOf(Exact(KRW), <<>>)}

Interchangeable == Permutations(QuoteId) \cup Permutations(ConversionId)

================================================================================

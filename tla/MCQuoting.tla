------------------------------- MODULE MCQuoting -------------------------------
(***************************************************************************)
(* TLC instances of Quoting: the requests clients send.                    *)
(***************************************************************************)
EXTENDS Quoting, TLC

CONSTANTS KRW, USD, EUR, k1, k2

Quotation(key, base, quote, positive) ==
    [key |-> key, base |-> base, quotes |-> <<quote>>, positive |-> positive]
RatesOf(base, asked) ==
    [key |-> None, base |-> base, quotes |-> asked, positive |-> TRUE]

ForUSD == Quotation(k1, KRW, USD, TRUE)
\* The first key again, for another currency; an amount and a base currency
\* that quote.New refuses.
ForEUR   == Quotation(k1, KRW, EUR, TRUE)
Negative == Quotation(k2, KRW, USD, FALSE)
FromUSD  == Quotation(k2, USD, EUR, TRUE)

\* Quotes and a request that names a currency twice.
Quotations == {ForUSD, ForEUR, Negative, FromUSD}
\* Rates, in either order and with a repetition.
RateCalls == {RatesOf(KRW, <<USD, EUR>>), RatesOf(KRW, <<EUR, USD>>),
              RatesOf(KRW, <<USD, USD>>), RatesOf(KRW, <<USD>>)}
Everything == Quotations \cup RateCalls
Mixed == {ForUSD, RatesOf(KRW, <<USD, EUR>>), RatesOf(KRW, <<EUR, USD>>)}

Interchangeable == Permutations(Handler) \cup Permutations(QuoteId)

================================================================================

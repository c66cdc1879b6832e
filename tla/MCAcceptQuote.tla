----------------------------- MODULE MCAcceptQuote -----------------------------
(***************************************************************************)
(* TLC instances of AcceptQuote.                                           *)
(***************************************************************************)
EXTENDS AcceptQuote, TLC

\* Handlers, keys, quotes and conversion ids are only compared for equality.
Interchangeable ==
    Permutations(Handler) \cup Permutations(Key) \cup Permutations(QuoteId)
        \cup Permutations(ConversionId)

================================================================================

---------------------------- MODULE QuoteAcceptance ----------------------------
(***************************************************************************)
(* What accepting a quote promises, with no handlers, no transactions and  *)
(* no crashes: an append-only ledger of conversions, each of which takes   *)
(* one open offer in time and one idempotency key, and answers that only   *)
(* ever name the ledger's conversion for the caller's key.                 *)
(***************************************************************************)
EXTENDS Integers

CONSTANTS Key, QuoteId, ConversionId, Instant, None

VARIABLES offer,    \* the instant each quote expires, None before it is issued
          ledger,   \* the conversions created so far
          answers   \* which conversion each key has been answered with

vars == <<offer, ledger, answers>>

Conversion == [id : ConversionId, quote : QuoteId, key : Key, at : Instant]

\* Two conversions that share an identity, a quote or a key.
Clash(r, s) == r.id = s.id \/ r.quote = s.quote \/ r.key = s.key

Init ==
    /\ offer = [q \in QuoteId |-> None]
    /\ ledger = {}
    /\ answers = {}

\* A quote is issued once and its expiry never changes.
Issue(q, t) ==
    /\ offer[q] = None
    /\ offer' = [offer EXCEPT ![q] = t]
    /\ UNCHANGED <<ledger, answers>>

\* The whole acceptance is one step: strictly before the quote expires, and
\* clashing with nothing accepted before.
Accept(r) ==
    /\ offer[r.quote] # None
    /\ r.at < offer[r.quote]
    /\ \A s \in ledger : ~Clash(r, s)
    /\ ledger' = ledger \cup {r}
    /\ UNCHANGED <<offer, answers>>

Answer(r) ==
    /\ r \in ledger
    /\ answers' = answers \cup {[key |-> r.key, id |-> r.id]}
    /\ UNCHANGED <<offer, ledger>>

Next ==
    \/ \E q \in QuoteId, t \in Instant : Issue(q, t)
    \/ \E r \in Conversion : Accept(r) \/ Answer(r)

Spec == Init /\ [][Next]_vars

================================================================================

------------------------------ MODULE QuoteIssuing ------------------------------
(***************************************************************************)
(* What CreateQuote promises, with no handlers, no rates on the way from   *)
(* the provider to a table and no crashes: an append-only ledger of quotes,*)
(* one for each idempotency key, on terms that could be quoted to that key *)
(* when it was issued, and answers that only ever name the ledger's quote. *)
(***************************************************************************)

CONSTANTS Key, QuoteId,
          Terms           \* what a quote is about and what it costs

VARIABLES quotable,  \* the offers that may be made, which become more and more
          ledger,    \* the quotes issued so far
          answers    \* which quote each key has been answered with

vars == <<quotable, ledger, answers>>

Offer == [key : Key, terms : Terms]

Quote(id, o) == [id |-> id, key |-> o.key, terms |-> o.terms]
Reply(q) == [key |-> q.key, id |-> q.id]

Init ==
    /\ quotable \subseteq Offer
    /\ ledger = {}
    /\ answers = {}

\* The market moves: there is more to offer.
Widen ==
    /\ quotable \subseteq quotable' /\ quotable' \subseteq Offer
    /\ UNCHANGED <<ledger, answers>>

\* The whole of CreateQuote is one step; its client is answered now or later.
Issue(id, o) ==
    /\ \A q \in ledger : q.id # id /\ q.key # o.key
    /\ ledger' = ledger \cup {Quote(id, o)}
    /\ answers' \in {answers, answers \cup {Reply(Quote(id, o))}}
    /\ UNCHANGED quotable

\* A retry of a served key is answered with the quote it got.
Answer(q) ==
    /\ answers' = answers \cup {Reply(q)}
    /\ UNCHANGED <<quotable, ledger>>

Next ==
    \/ Widen
    \/ \E id \in QuoteId, o \in quotable : Issue(id, o)
    \/ \E q \in ledger : Answer(q)

Spec == Init /\ [][Next]_vars

================================================================================

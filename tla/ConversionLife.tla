----------------------------- MODULE ConversionLife -----------------------------
(***************************************************************************)
(* What the whole system promises to clients, providers and consumers of   *)
(* its events, with no handlers, no transactions, no passes and no         *)
(* crashes: conversions come to be, webhooks take effect on them, and the  *)
(* broker is told.                                                         *)
(***************************************************************************)

CONSTANTS Conversion,  \* conversion ids
          Message,     \* the webhooks the providers send
          None         \* no conversion yet

VARIABLES
    status,   \* the status of each conversion, None before it is accepted
    effects,  \* the webhooks that have taken effect
    told,     \* what the broker has been told: conversions and webhooks
    filed     \* what need not be told again

vars == <<status, effects, told, filed>>

\* What there is to tell of.
Happened == {c \in Conversion : status[c] # None} \cup effects

SameEvent(m, n) == m.provider = n.provider /\ m.event = n.event
Paid(c) == \E m \in effects : m.conversion = c /\ m.topic = "payment.succeeded"

\* The status a webhook leads to, whatever the status was.
Outcome(topic) ==
    CASE topic = "payment.succeeded" -> "PROCESSING"
      [] topic = "transfer.completed" -> "COMPLETED"
      [] topic \in {"payment.failed", "transfer.failed"} -> "FAILED"

Init ==
    /\ status = [c \in Conversion |-> None]
    /\ effects = {}
    /\ told = {}
    /\ filed = {}

\* A client accepts a quote.
Accept(c) ==
    /\ status[c] = None
    /\ status' = [status EXCEPT ![c] = "AWAITING_PAYMENT"]
    /\ UNCHANGED <<effects, told, filed>>

\* A webhook takes effect, for the first and only time its event does, on a
\* conversion that exists; no transfer completes before a payment has succeeded.
TakeEffect(m) ==
    /\ status[m.conversion] # None
    /\ m.topic # "unsupported"
    /\ m.topic = "transfer.completed" => Paid(m.conversion)
    /\ \A n \in effects : ~SameEvent(m, n)
    /\ effects' = effects \cup {m}
    /\ status' = [status EXCEPT ![m.conversion] = Outcome(m.topic)]
    /\ UNCHANGED <<told, filed>>

\* The broker is told of what has happened, once or more often, in any order ...
Tell(x) ==
    /\ x \in Happened
    /\ told' = told \cup {x}
    /\ UNCHANGED <<status, effects, filed>>

\* ... and only what it was told is filed, for good.
File(x) ==
    /\ x \in told
    /\ filed' = filed \cup {x}
    /\ UNCHANGED <<status, effects, told>>

Next ==
    \/ \E c \in Conversion : Accept(c)
    \/ \E m \in Message : TakeEffect(m)
    \/ \E x \in Happened : Tell(x)
    \/ \E x \in told : File(x)

Spec == Init /\ [][Next]_vars

================================================================================

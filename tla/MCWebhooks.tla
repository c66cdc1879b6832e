------------------------------- MODULE MCWebhooks -------------------------------
(***************************************************************************)
(* TLC instances of Webhooks: the webhooks the providers send.             *)
(***************************************************************************)
EXTENDS Webhooks, TLC

CONSTANTS c1, c2, p1, e1, e2, e3, e4, r1, r2

Post(endpoint, event, topic, conversion, ref) ==
    [endpoint |-> endpoint, provider |-> p1, event |-> event, topic |-> topic,
     conversion |-> conversion, ref |-> ref]

Paid        == Post("payments", e1, "payment.succeeded", c1, r1)
Transferred == Post("transfers", e2, "transfer.completed", c1, r2)
Declined    == Post("payments", e3, "payment.failed", c1, None)
Bounced     == Post("transfers", e4, "transfer.failed", c1, r2)
\* Another conversion for which nothing fails, an event id used twice, and a
\* topic its endpoint does not support.
OtherPaid        == Post("payments", e4, "payment.succeeded", c2, r2)
OtherTransferred == Post("transfers", e1, "transfer.completed", c2, None)
Misposted        == Post("payments", e3, "transfer.completed", c1, r2)

\* Everything above: two conversions, failures, and event ids used twice.
Everything == {Paid, Transferred, Declined, Bounced, OtherPaid,
               OtherTransferred, Misposted}
\* One conversion that is paid, transferred and declined.
OneConversion == {Paid, Transferred, Declined}

Interchangeable == Permutations(Handler)

================================================================================

------------------------------ MODULE MCSettlement ------------------------------
(***************************************************************************)
(* A TLC instance of Settlement: one conversion, paid and transferred.     *)
(***************************************************************************)
EXTENDS Settlement

CONSTANTS c1, p1, e1, e2, r1, r2

Post(endpoint, event, topic, ref) ==
    [endpoint |-> endpoint, provider |-> p1, event |-> event, topic |-> topic,
     conversion |-> c1, ref |-> ref]

Paid        == Post("payments", e1, "payment.succeeded", r1)
Transferred == Post("transfers", e2, "transfer.completed", r2)
PaidAndTransferred == {Paid, Transferred}

Numbered(created, paid, transferred) ==
    [x \in Announcement |-> CASE x = c1 -> created
                             [] x = Paid -> paid
                             [] x = Transferred -> transferred]

\* The order of the commits, and its reverse.
Orders == {Numbered(1, 2, 3), Numbered(3, 2, 1)}

================================================================================

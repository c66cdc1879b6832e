-------------------------------- MODULE Webhooks --------------------------------
(***************************************************************************)
(* HandlePaymentWebhookUsecase.Execute and HandleTransferWebhookUsecase.   *)
(* Execute (internal/usecase/webhooks.go) run by concurrent handlers       *)
(* against one PostgreSQL database at READ COMMITTED.  Payment providers   *)
(* deliver at least once and in no order.                                  *)
(*                                                                         *)
(* conversions, inbox and outbox hold committed rows.  An open             *)
(* transaction's writes are what its handler's pc says it has executed:    *)
(* the inbox row of msg[h], the new version row[h] of the conversion and   *)
(* the event that announces it become visible together at COMMIT.          *)
(***************************************************************************)
EXTENDS Integers, Sequences

CONSTANTS Handler,      \* goroutines that serve the two webhook endpoints
          Conversion,   \* conversion ids
          Provider,     \* provider names
          EventId,      \* external event ids
          Ref,          \* external references
          Message,      \* the webhooks the providers send
          None          \* SQL NULL and Go nil

Endpoint == {"payments", "transfers"}
Topic == {"payment.succeeded", "payment.failed",
          "transfer.completed", "transfer.failed", "unsupported"}
Status == {"REQUESTED", "AWAITING_PAYMENT", "PROCESSING", "COMPLETED", "FAILED"}

\* A webhook that passed signature and body checks (shared.ProviderEvent), with
\* the endpoint it was posted to.
ProviderEvent == [endpoint : Endpoint, provider : Provider, event : EventId,
                  topic : Topic, conversion : Conversion, ref : Ref \cup {None}]

\* The columns of a conversion that webhooks write; reason is failure_reason.
Row == [status : Status, payment : Ref \cup {None}, transfer : Ref \cup {None},
        reason : {"payment.failed", "transfer.failed", None}]

ASSUME ConstantsAssumption ==
    /\ Message \subseteq ProviderEvent
    /\ None \notin Ref /\ None \notin Row /\ None \notin Topic

VARIABLES
    conversions,  \* the table conversions; None while the id is not stored
    inbox,        \* the table webhook_inbox
    outbox,       \* webhook events of outbox_events, in commit order
    pc,           \* the next statement of each handler
    msg,          \* the webhook each handler serves
    row,          \* the local variable updated of Execute
    acked         \* history: the webhooks answered with 200

db    == <<conversions, inbox, outbox>>
local == <<msg, row>>
vars  == <<db, pc, local, acked>>

Step == {"idle", "store", "load", "save", "enqueue", "commit", "reload", "ack"}

--------------------------------------------------------------------------------
(* domain/conversion: the state machine of one conversion. *)

\* A reference, when the webhook carries one, replaces the column.
Referenced(old, ref) == IF ref = None THEN old ELSE ref
\* On failures it only fills an empty column.
FirstReference(old, ref) == IF old = None THEN ref ELSE old

AdvanceForPayment(r, ref) ==
    [r EXCEPT !.status = "PROCESSING", !.payment = Referenced(@, ref)]
\* A bug: the status is spelled differently from the constant.
CompleteTransferMisspelled(r, ref) ==
    [r EXCEPT !.status = "COMPLETE", !.transfer = Referenced(@, ref)]
CompleteTransfer(r, ref) ==
    [r EXCEPT !.status = "COMPLETED", !.transfer = Referenced(@, ref)]
FailPayment(r, ref) ==
    [r EXCEPT !.status = "FAILED", !.reason = "payment.failed",
              !.payment = FirstReference(@, ref)]
FailTransfer(r, ref) ==
    [r EXCEPT !.status = "FAILED", !.reason = "transfer.failed",
              !.transfer = FirstReference(@, ref)]

\* A bug: the success topics have no guard either.
AppliesUnguarded(m, r) ==
    \/ m.endpoint = "payments" /\ m.topic \in {"payment.succeeded", "payment.failed"}
    \/ m.endpoint = "transfers" /\ m.topic \in {"transfer.completed", "transfer.failed"}

\* Execute's switch on the topic: Applies(m, r) when it yields no error, and
\* Updated(m, r) the conversion it yields.  The failure topics have no guard.
Applies(m, r) ==
    \/ /\ m.endpoint = "payments" /\ m.topic = "payment.succeeded"
       /\ r.status \in {"AWAITING_PAYMENT", "REQUESTED"}
    \/ m.endpoint = "payments" /\ m.topic = "payment.failed"
    \/ /\ m.endpoint = "transfers" /\ m.topic = "transfer.completed"
       /\ r.status = "PROCESSING"
    \/ m.endpoint = "transfers" /\ m.topic = "transfer.failed"

Updated(m, r) ==
    CASE m.topic = "payment.succeeded"  -> AdvanceForPayment(r, m.ref)
      [] m.topic = "payment.failed"     -> FailPayment(r, m.ref)
      [] m.topic = "transfer.completed" -> CompleteTransfer(r, m.ref)
      [] m.topic = "transfer.failed"    -> FailTransfer(r, m.ref)

--------------------------------------------------------------------------------
(* What an open transaction has done. *)

\* Its INSERT holds the inbox entry.
HoldsEntry(h) == pc[h] \in {"load", "save", "enqueue", "commit"}
\* Its UPDATE holds the lock of the conversion row.
HoldsRow(h) == pc[h] \in {"enqueue", "commit"}

\* The unique key of webhook_inbox.
SameEvent(m, n) == m.provider = n.provider /\ m.event = n.event

Recorded(m) == \E n \in inbox : SameEvent(m, n)

\* Another open transaction makes this one wait until it ends.
EntryBusy(h) ==
    \E g \in Handler \ {h} : HoldsEntry(g) /\ SameEvent(msg[g], msg[h])
RowBusy(h) ==
    \E g \in Handler \ {h} : HoldsRow(g) /\ msg[g].conversion = msg[h].conversion

--------------------------------------------------------------------------------
Init ==
    /\ conversions = [c \in Conversion |-> None]
    /\ inbox = {}
    /\ outbox = <<>>
    /\ pc = [h \in Handler |-> "idle"]
    /\ msg = [h \in Handler |-> None]
    /\ row = [h \in Handler |-> None]
    /\ acked = {}

GoTo(h, s) == pc' = [pc EXCEPT ![h] = s]

\* Execute returns: its locals are gone, an open transaction rolls back.
Return(h) ==
    /\ GoTo(h, "idle")
    /\ msg' = [msg EXCEPT ![h] = None]
    /\ row' = [row EXCEPT ![h] = None]

\* AcceptQuoteUsecase commits a conversion, whenever it does.
CreateConversion(c) ==
    /\ conversions[c] = None
    /\ conversions' = [conversions EXCEPT ![c] =
         [status |-> "AWAITING_PAYMENT", payment |-> None, transfer |-> None,
          reason |-> None]]
    /\ UNCHANGED <<inbox, outbox, pc, local, acked>>

\* A provider posts a webhook, for the first time or again.
Deliver(h, m) ==
    /\ pc[h] = "idle"
    /\ GoTo(h, "store")
    /\ msg' = [msg EXCEPT ![h] = m]
    /\ UNCHANGED <<db, row, acked>>

\* A bug: the duplicate check looks at committed rows only and does not wait.
StoreIfAbsentNoWait(h) ==
    /\ pc[h] = "store"
    /\ \/ Recorded(msg[h]) /\ GoTo(h, "reload") /\ UNCHANGED local
       \/ ~Recorded(msg[h]) /\ conversions[msg[h].conversion] = None /\ Return(h)
       \/ /\ ~Recorded(msg[h]) /\ conversions[msg[h].conversion] # None
          /\ GoTo(h, "load") /\ UNCHANGED local
    /\ UNCHANGED <<db, acked>>

\* The transaction begins with INSERT ... ON CONFLICT DO NOTHING: it waits for
\* an open transaction on the same key, finds a duplicate, fails on the foreign
\* key to conversions, or takes the entry.
StoreIfAbsent(h) ==
    /\ pc[h] = "store"
    /\ ~EntryBusy(h)
    /\ \/ Recorded(msg[h]) /\ GoTo(h, "reload") /\ UNCHANGED local
       \/ /\ ~Recorded(msg[h]) /\ conversions[msg[h].conversion] = None
          /\ Return(h)
       \/ /\ ~Recorded(msg[h]) /\ conversions[msg[h].conversion] # None
          /\ GoTo(h, "load") /\ UNCHANGED local
    /\ UNCHANGED <<db, acked>>

\* A bug: a transition the status forbids is swallowed and answered with 200.
LoadAndSwallow(h) ==
    /\ pc[h] = "load"
    /\ LET m == msg[h]
           current == conversions[m.conversion] IN
       \/ ~Applies(m, current) /\ GoTo(h, "ack") /\ UNCHANGED local
       \/ /\ Applies(m, current)
          /\ row' = [row EXCEPT ![h] = Updated(m, current)]
          /\ GoTo(h, "save") /\ UNCHANGED msg
    /\ UNCHANGED <<db, acked>>

\* A bug: the inbox row is written outside the transaction and outlives it.
LoadAndKeepEntry(h) ==
    /\ pc[h] = "load"
    /\ LET m == msg[h]
           current == conversions[m.conversion] IN
       \/ ~Applies(m, current) /\ Return(h) /\ inbox' = inbox \cup {m}
       \/ /\ Applies(m, current)
          /\ row' = [row EXCEPT ![h] = Updated(m, current)]
          /\ GoTo(h, "save") /\ UNCHANGED <<msg, inbox>>
    /\ UNCHANGED <<conversions, outbox, acked>>

\* GetConversionByID, a plain SELECT, and the transition computed from it; an
\* unsupported topic and a transition the status forbids are errors.
Load(h) ==
    /\ pc[h] = "load"
    /\ LET m == msg[h]
           current == conversions[m.conversion] IN
       \/ ~Applies(m, current) /\ Return(h)
       \/ /\ Applies(m, current)
          /\ row' = [row EXCEPT ![h] = Updated(m, current)]
          /\ GoTo(h, "save") /\ UNCHANGED msg
    /\ UNCHANGED <<db, acked>>

\* UpdateConversion is GORM's Save: UPDATE of all columns WHERE id = ?.  It waits
\* for the row lock and then matches whatever version it finds.
UpdateConversion(h) ==
    /\ pc[h] = "save"
    /\ ~RowBusy(h)
    /\ GoTo(h, "enqueue")
    /\ UNCHANGED <<db, local, acked>>

\* Enqueue inserts "conversion." + status.
Enqueue(h) ==
    /\ pc[h] = "enqueue"
    /\ GoTo(h, "commit")
    /\ UNCHANGED <<db, local, acked>>

Commit(h) ==
    /\ pc[h] = "commit"
    /\ conversions' = [conversions EXCEPT ![msg[h].conversion] = row[h]]
    /\ inbox' = inbox \cup {msg[h]}
    /\ outbox' = Append(outbox, [conversion |-> msg[h].conversion,
                                 status |-> row[h].status, cause |-> msg[h]])
    /\ GoTo(h, "ack")
    /\ UNCHANGED <<local, acked>>

\* A duplicate is answered with the conversion it names, which must exist.
Reload(h) ==
    /\ pc[h] = "reload"
    /\ \/ conversions[msg[h].conversion] = None /\ Return(h)
       \/ /\ conversions[msg[h].conversion] # None
          /\ GoTo(h, "ack") /\ UNCHANGED local
    /\ UNCHANGED <<db, acked>>

\* The provider receives 200 and need not deliver this webhook again.
Ack(h) ==
    /\ pc[h] = "ack"
    /\ acked' = acked \cup {msg[h]}
    /\ Return(h)
    /\ UNCHANGED db

\* A crash, a failed statement or a lost connection at any point.
Abandon(h) ==
    /\ pc[h] # "idle"
    /\ Return(h)
    /\ UNCHANGED <<db, acked>>

Handle(h) ==
    \/ StoreIfAbsent(h) \/ Load(h) \/ UpdateConversion(h) \/ Enqueue(h)
    \/ Commit(h) \/ Reload(h) \/ Ack(h)

Next ==
    \/ \E c \in Conversion : CreateConversion(c)
    \/ \E h \in Handler : \/ \E m \in Message : Deliver(h, m)
                          \/ Handle(h)
                          \/ Abandon(h)

Spec == Init /\ [][Next]_vars

--------------------------------------------------------------------------------
\* Every variable has its type.
TypeOK ==
    /\ conversions \in [Conversion -> Row \cup {None}]
    /\ inbox \subseteq Message
    /\ outbox \in Seq([conversion : Conversion, status : Status, cause : Message])
    /\ pc \in [Handler -> Step]
    /\ msg \in [Handler -> Message \cup {None}]
    /\ row \in [Handler -> Row \cup {None}]
    /\ acked \subseteq Message

\* A webhook takes effect exactly once however often, and however concurrently,
\* it is delivered and whatever crashes: recorded webhooks and their events
\* correspond one to one, and no two events stem from the same external event.
OneEffectPerMessage ==
    /\ \A i, j \in DOMAIN outbox :
          SameEvent(outbox[i].cause, outbox[j].cause) => i = j
    /\ inbox = {outbox[i].cause : i \in DOMAIN outbox}

\* Row r of conversion c holds nothing that the webhooks S did not put there.
Explained(r, c, S) ==
    LET Caused(t) == \E m \in S : m.conversion = c /\ m.topic = t IN
    /\ r.status \in {"PROCESSING", "COMPLETED"} => Caused("payment.succeeded")
    /\ r.status = "COMPLETED" => Caused("transfer.completed")
    /\ r.status = "FAILED" => r.reason # None /\ Caused(r.reason)
    /\ \A ref \in {r.payment, r.transfer} \ {None} :
          \E m \in S : m.conversion = c /\ m.ref = ref

\* The recorded webhooks explain every row, even when concurrent webhooks
\* overwrite each other: money is only in flight after a payment, COMPLETED
\* needs the payment and the transfer, a failure has its reason's webhook, and
\* references come from webhooks of that conversion.
RowIsExplained ==
    \A c \in Conversion :
        conversions[c] # None => Explained(conversions[c], c, inbox)

\* A provider told 200 will not deliver again, so the webhook's external event
\* is recorded by then.
AckedIsRecorded == \A m \in acked : Recorded(m)

\* The transition of domain/conversion from the stored row r to s: PROCESSING
\* only from AWAITING_PAYMENT, COMPLETED only from PROCESSING, and references are
\* not lost.
MovesForward(r, s) ==
    /\ s.status = "PROCESSING" => r.status = "AWAITING_PAYMENT"
    /\ s.status = "COMPLETED" => r.status = "PROCESSING"
    /\ s.payment = None => r.payment = None
    /\ s.transfer = None => r.transfer = None

\* What the guards of domain/conversion say of every conversion, judged against
\* the row that is stored when the write takes effect.
StatusMovesForward ==
    [][\A c \in Conversion :
          conversions[c] # None /\ conversions'[c] # conversions[c] =>
             MovesForward(conversions[c], conversions'[c])]_vars

\* Nothing fails for c, and every success is one external event.
Uneventful(c) ==
    \A m, n \in {k \in Message : k.conversion = c} :
        /\ m.topic \notin {"payment.failed", "transfer.failed"}
        /\ m.topic = n.topic => SameEvent(m, n)

\* Without failures it does hold, though nothing locks the row between Load and
\* UpdateConversion: the guards and the inbox entries together let only one
\* webhook of a conversion at a time get past Load.
SuccessesMoveForward ==
    [][\A c \in {d \in Conversion : Uneventful(d)} :
          conversions[c] # None /\ conversions'[c] # conversions[c] =>
             MovesForward(conversions[c], conversions'[c])]_vars

\* All the providers have to say about c is that it was paid and transferred.
HappyPath(c) ==
    LET topics == {m.topic : m \in {n \in Message : n.conversion = c}} IN
    topics = {"payment.succeeded", "transfer.completed"}

================================================================================

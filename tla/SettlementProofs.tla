---------------------------- MODULE SettlementProofs ----------------------------
(***************************************************************************)
(* Proofs about Settlement, for every set of quotes, conversions, webhooks,*)
(* handlers and publishers, every order of created_at and every batch size.*)
(***************************************************************************)
EXTENDS Settlement, OutboxPublisherProofs

\* The theorems about Webhooks, for the variables of Settlement.
WP == INSTANCE WebhooksProofs WITH Conversion <- ConversionId,
                                   outbox <- announced, pc <- statement

--------------------------------------------------------------------------------
(***************************************************************************)
(* The webhook handlers of the composition behave as Webhooks says: its    *)
(* invariant holds here too.                                               *)
(***************************************************************************)

USE DEF W!db, W!local, WP!db, WP!local, W!GoTo, WP!GoTo, W!Return, WP!Return

\* What WebhooksProofs assumes of the constants.
LEMMA WebhookConstants == WP!ConstantsAssumption
BY SettlementAssumption
   DEF WP!ConstantsAssumption, W!ProviderEvent, WP!ProviderEvent, W!Row, WP!Row,
       W!Topic, WP!Topic, W!Endpoint, WP!Endpoint, W!Status, WP!Status

\* The two instances of Webhooks have the same actions.
LEMMA SameActions ==
    /\ W!Init = WP!Init
    /\ \A c : W!CreateConversion(c) = WP!CreateConversion(c)
    /\ \A h : W!Commit(h) = WP!Commit(h)
<1>1. W!Init = WP!Init
  BY DEF W!Init, WP!Init
<1>2. \A c : W!CreateConversion(c) = WP!CreateConversion(c)
  BY DEF W!CreateConversion, WP!CreateConversion
<1>3. \A h : W!Commit(h) = WP!Commit(h)
  BY DEF W!Commit, WP!Commit
<1> QED
  BY <1>1, <1>2, <1>3

\* Every other statement of a handler is a step of Webhooks.
LEMMA WebhookSteps ==
    ASSUME NEW h \in Handler, Webhook(h) PROVE WP!Next
<1>1. ASSUME NEW m \in Message, W!Deliver(h, m) PROVE WP!Next
  BY <1>1 DEF W!Deliver, WP!Deliver, WP!Next
<1>2. CASE W!StoreIfAbsent(h)
  BY <1>2 DEF W!StoreIfAbsent, WP!StoreIfAbsent, W!EntryBusy, WP!EntryBusy,
              W!HoldsEntry, WP!HoldsEntry, W!SameEvent, WP!SameEvent,
              W!Recorded, WP!Recorded, WP!Next, WP!Handle
<1>3. CASE W!Load(h)
  <2>1. W!Load(h) = WP!Load(h)
    BY DEF W!Load, WP!Load, W!Applies, WP!Applies, W!Updated, WP!Updated,
           W!AdvanceForPayment, WP!AdvanceForPayment,
           W!CompleteTransfer, WP!CompleteTransfer,
           W!FailPayment, WP!FailPayment, W!FailTransfer, WP!FailTransfer,
           W!Referenced, WP!Referenced, W!FirstReference, WP!FirstReference
  <2> QED
    BY <1>3, <2>1 DEF WP!Next, WP!Handle
<1>4. CASE W!UpdateConversion(h) \/ W!Enqueue(h)
  BY <1>4 DEF W!UpdateConversion, WP!UpdateConversion, W!Enqueue, WP!Enqueue,
              W!RowBusy, WP!RowBusy, W!HoldsRow, WP!HoldsRow, WP!Next, WP!Handle
<1>5. CASE W!Reload(h) \/ W!Ack(h) \/ W!Abandon(h)
  BY <1>5 DEF W!Reload, WP!Reload, W!Ack, WP!Ack, W!Abandon, WP!Abandon,
              WP!Next, WP!Handle
<1> QED
  BY <1>1, <1>2, <1>3, <1>4, <1>5 DEF Webhook

LEMMA IsWebhooks == SettlementSpec => WP!Spec
<1>1. SettlementInit => WP!Init
  BY SameActions DEF SettlementInit
<1>2. [SettlementNext]_all => [WP!Next]_(WP!vars)
  <2> SUFFICES ASSUME [SettlementNext]_all PROVE [WP!Next]_(WP!vars)
    OBVIOUS
  <2>1. ASSUME NEW r \in A!Conversion, Accept(r) PROVE WP!Next
    <3>1. r.id \in ConversionId
      BY DEF A!Conversion
    <3> QED
      BY <2>1, <3>1, SameActions DEF Accept, WP!Next
  <2>2. ASSUME NEW h \in Handler, Commit(h) PROVE WP!Next
    BY <2>2, SameActions DEF Commit, WP!Next, WP!Handle
  <2>3. CASE UNCHANGED webhooks
    BY <2>3 DEF webhooks, WP!vars
  <2> QED
    BY <2>1, <2>2, <2>3, WebhookSteps DEF SettlementNext, Issue, Pass, all
<1> QED
  BY <1>1, <1>2, PTL DEF SettlementSpec, WP!Spec

LEMMA WebhooksInvariant == SettlementSpec => []WP!IInv
<1>1. WP!Spec => []WP!IInv
  BY WebhookConstants, WP!InvariantHolds DEF WP!ConstantsAssumption
<1> QED
  BY <1>1, IsWebhooks, PTL

--------------------------------------------------------------------------------
(***************************************************************************)
(* The tables agree.  The numbering never changes, the ledger holds typed  *)
(* rows, and a transaction that commits has checked the foreign key.       *)
(***************************************************************************)

StoryInv ==
    /\ OutboxTellsTheStory
    /\ createdAt \in Numbering
    /\ ledger \subseteq A!Conversion

\* No row is NULL.
LEMMA RowIsNotNull ==
    [status |-> "AWAITING_PAYMENT", payment |-> None, transfer |-> None,
     reason |-> None] # None
BY SettlementAssumption DEF W!Row, W!Status

\* Nothing is stored, nothing announced.
LEMMA StoryBegins == SettlementInit => StoryInv
BY DEF SettlementInit, StoryInv, OutboxTellsTheStory, Init, A!Init, W!Init

\* A new conversion appears in the ledger, the table and the outbox at once.
LEMMA AcceptKeepsStory ==
    ASSUME StoryInv, WP!IInv, NEW r \in A!Conversion, Accept(r) PROVE StoryInv'
<1> USE DEF Accept, A!Accept, W!CreateConversion, Enqueue
<1> DEFINE stored == {c \in ConversionId : conversions[c] # None}
<1>1. r.id \in ConversionId /\ conversions \in [ConversionId -> WP!Row \cup {None}]
  BY DEF A!Conversion, WP!IInv, WP!TypeOK
<1>2. stored' = stored \cup {r.id}
  BY <1>1, RowIsNotNull
<1>3. enqueued' = enqueued \cup {createdAt[r.id]} /\ createdAt' = createdAt
      /\ ledger' = ledger \cup {r} /\ inbox' = inbox
  OBVIOUS
<1>4. /\ enqueued = {createdAt[x] : x \in stored \cup inbox}
      /\ stored = {s.id : s \in ledger}
      /\ {m.conversion : m \in inbox} \subseteq stored
  BY DEF StoryInv, OutboxTellsTheStory
<1> HIDE DEF Accept, A!Accept, W!CreateConversion, Enqueue, stored
<1>5. enqueued' = {createdAt'[x] : x \in stored' \cup inbox'}
  BY <1>2, <1>3, <1>4
<1>6. stored' = {s.id : s \in ledger'}
  BY <1>2, <1>3, <1>4
<1>7. {m.conversion : m \in inbox'} \subseteq stored'
  BY <1>2, <1>3, <1>4
<1> QED
  BY <1>3, <1>5, <1>6, <1>7 DEF StoryInv, OutboxTellsTheStory, stored

\* A webhook that takes effect is recorded and announced at once, for a
\* conversion that is stored.
LEMMA CommitKeepsStory ==
    ASSUME StoryInv, WP!IInv, NEW h \in Handler, Commit(h)
    PROVE  StoryInv' /\ msg[h] \in Message
<1> USE DEF Commit, W!Commit, Enqueue, quoting
<1> DEFINE stored == {c \in ConversionId : conversions[c] # None}
<1>1. /\ msg[h] \in Message /\ row[h] \in WP!Row
      /\ conversions[msg[h].conversion] # None
      /\ conversions \in [ConversionId -> WP!Row \cup {None}]
  BY DEF WP!IInv, WP!TypeOK, WP!EntriesOK, WP!EntryOK, WP!HoldsEntry,
         WP!UpdatesOK, WP!UpdatedOK
<1>2. msg[h].conversion \in ConversionId /\ row[h] # None
  BY <1>1, SettlementAssumption
     DEF W!ProviderEvent, W!Row, WP!Row, W!Status, WP!Status
<1>3. stored' = stored
  BY <1>1, <1>2
<1>4. enqueued' = enqueued \cup {createdAt[msg[h]]} /\ createdAt' = createdAt
      /\ ledger' = ledger /\ inbox' = inbox \cup {msg[h]}
  OBVIOUS
<1>5. /\ enqueued = {createdAt[x] : x \in stored \cup inbox}
      /\ stored = {s.id : s \in ledger}
      /\ {m.conversion : m \in inbox} \subseteq stored
      /\ msg[h].conversion \in stored
  BY <1>1, <1>2 DEF StoryInv, OutboxTellsTheStory
<1> HIDE DEF Commit, W!Commit, Enqueue, quoting, stored
<1>6. enqueued' = {createdAt'[x] : x \in stored' \cup inbox'}
  BY <1>3, <1>4, <1>5
<1>7. stored' = {s.id : s \in ledger'}
  BY <1>3, <1>4, <1>5
<1>8. {m.conversion : m \in inbox'} \subseteq stored'
  BY <1>3, <1>4, <1>5
<1> QED
  BY <1>1, <1>4, <1>6, <1>7, <1>8 DEF StoryInv, OutboxTellsTheStory, stored

\* No other step writes to the tables this is about.
LEMMA OthersKeepStory ==
    ASSUME StoryInv,
           \/ \E q \in QuoteId, t \in Instant : Issue(q, t)
           \/ \E h \in Handler : Webhook(h)
           \/ \E p \in Publisher : Pass(p)
           \/ UNCHANGED all
    PROVE  StoryInv'
<1> DEFINE Same == /\ enqueued' = enqueued /\ conversions' = conversions
                   /\ inbox' = inbox /\ ledger' = ledger /\ createdAt' = createdAt
<1>1. ASSUME NEW q \in QuoteId, NEW t \in Instant, Issue(q, t) PROVE Same
  BY <1>1 DEF Issue, A!Issue, vars, table, webhooks
<1>2. ASSUME NEW h \in Handler, Webhook(h) PROVE Same
  BY <1>2 DEF Webhook, vars, table, quoting, W!Deliver, W!StoreIfAbsent, W!Load,
              W!UpdateConversion, W!Enqueue, W!Reload, W!Ack, W!Abandon
<1>3. ASSUME NEW p \in Publisher, Pass(p) PROVE Same
  BY <1>3 DEF Pass, Proceed, quoting, webhooks, table, ListPending, Publish,
              PublishFails, MarkPublished, MarkPublishFailed, Abort
<1>4. ASSUME UNCHANGED all PROVE Same
  BY <1>4 DEF all, vars, table, quoting, webhooks
<1> HIDE DEF Same
<1>5. Same
  BY <1>1, <1>2, <1>3, <1>4
<1> DEFINE stored == {c \in ConversionId : conversions[c] # None}
<1>6. stored' = stored
  BY <1>5 DEF Same
<1> HIDE DEF stored
<1>7. /\ enqueued' = {createdAt'[x] : x \in stored' \cup inbox'}
      /\ stored' = {r.id : r \in ledger'}
      /\ {m.conversion : m \in inbox'} \subseteq stored'
  BY <1>5, <1>6 DEF Same, StoryInv, OutboxTellsTheStory, stored
<1> QED
  BY <1>5, <1>7 DEF Same, StoryInv, OutboxTellsTheStory, stored

LEMMA StoryKept == StoryInv /\ WP!IInv /\ [SettlementNext]_all => StoryInv'
BY AcceptKeepsStory, CommitKeepsStory, OthersKeepStory DEF SettlementNext

LEMMA StoryHolds == SettlementSpec => []StoryInv
BY StoryBegins, StoryKept, WebhooksInvariant, PTL DEF SettlementSpec

--------------------------------------------------------------------------------
(***************************************************************************)
(* The other two components behave as their own specifications say.        *)
(***************************************************************************)

LEMMA IsPublisher == SettlementSpec => Spec
<1>1. SettlementInit => Init
  BY DEF SettlementInit
<1>2. StoryInv /\ WP!IInv /\ [SettlementNext]_all => [Next]_vars
  <2> SUFFICES ASSUME StoryInv, WP!IInv, [SettlementNext]_all PROVE [Next]_vars
    OBVIOUS
  <2>1. createdAt \in [Announcement -> Event]
    BY SettlementAssumption DEF StoryInv
  <2>2. ASSUME NEW r \in A!Conversion, Accept(r) PROVE Next
    <3>1. createdAt[r.id] \in Event
      BY <2>1 DEF A!Conversion, Announcement
    <3> QED
      BY <2>2, <3>1 DEF Accept, Next
  <2>3. ASSUME NEW h \in Handler, Commit(h) PROVE Next
    <3>1. createdAt[msg[h]] \in Event
      BY <2>1, <2>3, CommitKeepsStory DEF Announcement
    <3> QED
      BY <2>3, <3>1 DEF Commit, Next
  <2>4. ASSUME NEW p \in Publisher, Pass(p) PROVE Next
    BY <2>4 DEF Pass, Proceed, Next
  <2> QED
    BY <2>2, <2>3, <2>4 DEF SettlementNext, Issue, Webhook, all
<1> QED
  BY <1>1, <1>2, StoryHolds, WebhooksInvariant, PTL DEF SettlementSpec, Spec

LEMMA IsAcceptance == SettlementSpec => A!Spec
<1>1. SettlementInit => A!Init
  BY DEF SettlementInit
<1>2. [SettlementNext]_all => [A!Next]_(A!vars)
  <2> SUFFICES ASSUME [SettlementNext]_all PROVE [A!Next]_(A!vars)
    OBVIOUS
  <2>1. ASSUME NEW q \in QuoteId, NEW t \in Instant, Issue(q, t) PROVE A!Next
    BY <2>1 DEF Issue, A!Next
  <2>2. ASSUME NEW r \in A!Conversion, Accept(r) PROVE A!Next
    BY <2>2 DEF Accept, A!Next
  <2>3. CASE UNCHANGED quoting
    BY <2>3 DEF quoting, A!vars
  <2> QED
    BY <2>1, <2>2, <2>3 DEF SettlementNext, Commit, Webhook, Pass, all
<1> QED
  BY <1>1, <1>2, PTL DEF SettlementSpec, A!Spec

--------------------------------------------------------------------------------
(***************************************************************************)
(* Refinement: the transaction of AcceptQuote is Accept, that of a webhook *)
(* TakeEffect, a call of the broker that gives it the event is Tell, and   *)
(* MarkPublished is File.  Every other step leaves ConversionLife alone.   *)
(***************************************************************************)

\* What is proved of webhooks and of passes holds here.
LEMMA TransitionsHold == SettlementSpec => []WP!TransitionInv
<1>1. WP!Spec => []WP!TransitionInv
  BY WebhookConstants, WP!TransitionHolds DEF WP!ConstantsAssumption
<1> QED
  BY <1>1, IsWebhooks, PTL

LEMMA PassesHold == SettlementSpec => []IInv
BY IsPublisher, InvariantHolds

LifeInv == StoryInv /\ IInv /\ WP!IInv /\ WP!TransitionInv

\* An event in the outbox is the number of one thing that happened.
LEMMA EventOfOneThing ==
    ASSUME LifeInv, NEW e \in enqueued
    PROVE  \E x \in Announcement : /\ createdAt[x] = e
                                   /\ x \in Life!Happened
                                   /\ \A y \in Announcement : createdAt[y] = e => y = x
<1>1. createdAt \in Numbering
      /\ enqueued = {createdAt[x] :
                       x \in {c \in ConversionId : conversions[c] # None} \cup inbox}
  BY DEF LifeInv, StoryInv, OutboxTellsTheStory
<1>2. PICK x \in {c \in ConversionId : conversions[c] # None} \cup inbox :
        e = createdAt[x]
  BY <1>1
<1>3. inbox \subseteq Message /\ conversions \in [ConversionId -> WP!Row \cup {None}]
  BY DEF LifeInv, WP!IInv, WP!TypeOK
<1>4. x \in Announcement
  BY <1>2, <1>3 DEF Announcement
<1>5. x \in Life!Happened
  <2>1. CASE x \in inbox
    BY <2>1 DEF Life!Happened
  <2>2. CASE x \in ConversionId /\ conversions[x] # None
    <3>1. conversions[x].status \in W!Status
      BY <1>3, <2>2 DEF WP!Row, WP!Status, W!Status
    <3>2. conversions[x].status # None
      BY <3>1, SettlementAssumption
    <3> QED
      BY <2>2, <3>2 DEF Life!Happened, SeenStatus
  <2> QED
    BY <1>2, <2>1, <2>2
<1>6. \A y \in Announcement : createdAt[y] = createdAt[x] => y = x
  BY <1>1, <1>4, SettlementAssumption
<1> QED
  BY <1>2, <1>4, <1>5, <1>6

\* The transaction that accepts a quote brings its conversion to life.
LEMMA AcceptIsAccept ==
    ASSUME LifeInv, NEW r \in A!Conversion, Accept(r) PROVE Life!Accept(r.id)
<1>1. /\ r.id \in ConversionId /\ conversions[r.id] = None
      /\ conversions' = [conversions EXCEPT ![r.id] =
           [status |-> "AWAITING_PAYMENT", payment |-> None, transfer |-> None,
            reason |-> None]]
      /\ inbox' = inbox /\ delivered' = delivered /\ published' = published
      /\ createdAt' = createdAt
  BY DEF Accept, W!CreateConversion, Enqueue, A!Conversion
<1>2. conversions \in [ConversionId -> WP!Row \cup {None}]
  BY DEF LifeInv, WP!IInv, WP!TypeOK
<1>3. SeenStatus' = [SeenStatus EXCEPT ![r.id] = "AWAITING_PAYMENT"]
  BY <1>1, <1>2, RowIsNotNull DEF SeenStatus
<1>4. SeenStatus[r.id] = None /\ Among(delivered)' = Among(delivered)
      /\ Among(published)' = Among(published)
  BY <1>1 DEF SeenStatus, Among
<1> QED
  BY <1>1, <1>3, <1>4 DEF Life!Accept

\* The webhook a transaction commits is supported and leaves its conversion in
\* the status of its topic; a transfer completes what was paid for.
LEMMA CommitOutcome ==
    ASSUME LifeInv, NEW h \in Handler, Commit(h)
    PROVE  /\ msg[h] \in Message /\ row[h] # None
           /\ msg[h].topic # "unsupported"
           /\ row[h].status = Life!Outcome(msg[h].topic)
           /\ msg[h].topic = "transfer.completed" => Life!Paid(msg[h].conversion)
<1> DEFINE m == msg[h]
<1>1. /\ m \in Message /\ m \in WP!ProviderEvent /\ statement[h] = "commit"
      /\ row[h] \in WP!Row /\ WP!Explained(row[h], m.conversion, inbox \cup {m})
  BY WebhookConstants
     DEF Commit, W!Commit, LifeInv, WP!IInv, WP!EntriesOK, WP!EntryOK, WP!UpdatesOK,
         WP!UpdatedOK, WP!ConstantsAssumption
<1>2. PICK r \in WP!Row : WP!Applies(m, r) /\ row[h] = WP!Updated(m, r)
  BY <1>1 DEF LifeInv, WP!TransitionInv, WP!FromSomeVersion, WP!Saving
<1>3. m.topic # "unsupported" /\ row[h].status = Life!Outcome(m.topic)
  BY <1>2 DEF WP!Applies, WP!Updated, WP!AdvanceForPayment, WP!CompleteTransfer,
              WP!FailPayment, WP!FailTransfer, WP!Row, Life!Outcome
<1>4. ASSUME m.topic = "transfer.completed" PROVE Life!Paid(m.conversion)
  <2>1. row[h].status = "COMPLETED"
    BY <1>3, <1>4 DEF Life!Outcome
  <2>2. \E n \in inbox \cup {m} : n.conversion = m.conversion
                                 /\ n.topic = "payment.succeeded"
    BY <1>1, <2>1 DEF WP!Explained
  <2> QED
    BY <1>4, <2>2 DEF Life!Paid
<1>5. row[h] # None
  BY <1>1, WebhookConstants DEF WP!ConstantsAssumption
<1> QED
  BY <1>1, <1>3, <1>4, <1>5

\* The transaction of a webhook is its one effect.
LEMMA CommitIsTakeEffect ==
    ASSUME LifeInv, NEW h \in Handler, Commit(h) PROVE Life!TakeEffect(msg[h])
<1> DEFINE m == msg[h]
<1>1. /\ conversions' = [conversions EXCEPT ![m.conversion] = row[h]]
      /\ inbox' = inbox \cup {m} /\ delivered' = delivered
      /\ published' = published /\ createdAt' = createdAt
      /\ statement[h] = "commit"
  BY DEF Commit, W!Commit, Enqueue
<1>2. /\ conversions \in [ConversionId -> WP!Row \cup {None}]
      /\ conversions[m.conversion] # None
      /\ \A n \in inbox : ~WP!SameEvent(m, n)
  BY <1>1 DEF LifeInv, WP!IInv, WP!TypeOK, WP!EntriesOK, WP!EntryOK, WP!HoldsEntry,
              WP!Recorded, WP!SameEvent
<1>3. m.conversion \in ConversionId
  BY CommitOutcome, SettlementAssumption DEF W!ProviderEvent
<1>4. SeenStatus' = [SeenStatus EXCEPT ![m.conversion] = Life!Outcome(m.topic)]
  BY <1>1, <1>2, <1>3, CommitOutcome DEF SeenStatus
<1>5. SeenStatus[m.conversion] # None
  <2>1. conversions[m.conversion].status \in W!Status
    BY <1>2, <1>3 DEF WP!Row, WP!Status, W!Status
  <2> QED
    BY <1>2, <1>3, <2>1, SettlementAssumption DEF SeenStatus
<1>6. Among(delivered)' = Among(delivered) /\ Among(published)' = Among(published)
  BY <1>1 DEF Among
<1>7. \A n \in inbox : ~Life!SameEvent(m, n)
  BY <1>2 DEF WP!SameEvent, Life!SameEvent
<1> QED
  BY <1>1, <1>4, <1>5, <1>6, <1>7, CommitOutcome DEF Life!TakeEffect

\* Whatever the broker takes has happened, however stale the pass that sends it.
LEMMA DeliveryIsTell ==
    ASSUME LifeInv, NEW p \in Publisher, NEW e \in Event,
           Publish(p, e) \/ PublishFails(p, e), UNCHANGED <<quoting, webhooks, createdAt>>
    PROVE  \/ \E x \in Life!Happened : Life!Tell(x)
           \/ UNCHANGED Life!vars
<1>1. /\ published' = published /\ createdAt' = createdAt
      /\ conversions' = conversions /\ inbox' = inbox
      /\ delivered' = delivered \/ delivered' = delivered \cup {e}
  BY DEF Publish, PublishFails, table, webhooks
<1>2. SeenStatus' = SeenStatus /\ Among(published)' = Among(published)
  BY <1>1 DEF SeenStatus, Among
<1>3. e \in enqueued
  BY DEF Publish, PublishFails, IsCurrent, LifeInv, IInv, PassOK
<1>4. PICK x \in Announcement :
        /\ createdAt[x] = e /\ x \in Life!Happened
        /\ \A y \in Announcement : createdAt[y] = e => y = x
  BY <1>3, EventOfOneThing
<1>5. CASE delivered' = delivered \cup {e}
  <2>1. Among(delivered)' = Among(delivered) \cup {x}
    BY <1>1, <1>4, <1>5 DEF Among
  <2> QED
    BY <1>1, <1>2, <1>4, <2>1 DEF Life!Tell
<1>6. CASE delivered' = delivered
  BY <1>1, <1>2, <1>6 DEF Life!vars, Among
<1> QED
  BY <1>1, <1>5, <1>6

\* What is marked published is something the broker was told.
LEMMA MarkIsFile ==
    ASSUME LifeInv, NEW p \in Publisher, NEW e \in Event, MarkPublished(p, e),
           UNCHANGED <<quoting, webhooks, createdAt>>
    PROVE  \E x \in Among(delivered) : Life!File(x)
<1>1. /\ published' = published \cup {e} /\ createdAt' = createdAt
      /\ conversions' = conversions /\ inbox' = inbox /\ delivered' = delivered
  BY DEF MarkPublished, webhooks
<1>2. SeenStatus' = SeenStatus /\ Among(delivered)' = Among(delivered)
  BY <1>1 DEF SeenStatus, Among
<1>3. e \in enqueued /\ e \in delivered
  BY DEF MarkPublished, IsCurrent, LifeInv, IInv, PassOK
<1>4. PICK x \in Announcement :
        /\ createdAt[x] = e
        /\ \A y \in Announcement : createdAt[y] = e => y = x
  BY <1>3, EventOfOneThing
<1>5. x \in Among(delivered) /\ Among(published)' = Among(published) \cup {x}
  BY <1>1, <1>3, <1>4 DEF Among
<1> QED
  BY <1>1, <1>2, <1>5 DEF Life!File

\* Every other step is a stutter.
LEMMA OthersAreStutters ==
    ASSUME \/ \E q \in QuoteId, t \in Instant : Issue(q, t)
           \/ \E h \in Handler : Webhook(h)
           \/ \E p \in Publisher :
                /\ ListPending(p) \/ Abort(p) \/ \E e \in Event : MarkPublishFailed(p, e)
                /\ UNCHANGED <<quoting, webhooks, createdAt>>
           \/ UNCHANGED all
    PROVE  UNCHANGED Life!vars
<1> DEFINE Same == /\ delivered' = delivered /\ conversions' = conversions
                   /\ inbox' = inbox /\ published' = published
                   /\ createdAt' = createdAt
<1>1. ASSUME NEW q \in QuoteId, NEW t \in Instant, Issue(q, t) PROVE Same
  BY <1>1 DEF Issue, vars, table, webhooks
<1>2. ASSUME NEW h \in Handler, Webhook(h) PROVE Same
  BY <1>2 DEF Webhook, vars, table, quoting, W!Deliver, W!StoreIfAbsent, W!Load,
              W!UpdateConversion, W!Enqueue, W!Reload, W!Ack, W!Abandon
<1>3. ASSUME NEW p \in Publisher, UNCHANGED <<quoting, webhooks, createdAt>>,
             ListPending(p) \/ Abort(p) \/ \E e \in Event : MarkPublishFailed(p, e)
      PROVE  Same
  BY <1>3 DEF webhooks, table, ListPending, MarkPublishFailed, Abort
<1>4. ASSUME UNCHANGED all PROVE Same
  BY <1>4 DEF all, vars, table, webhooks
<1> HIDE DEF Same
<1>5. Same
  BY <1>1, <1>2, <1>3, <1>4
<1> QED
  BY <1>5 DEF Same, Life!vars, SeenStatus, Among

\* At first nothing lives and nothing is told.
LEMMA LifeBegins == SettlementInit => Life!Init
BY DEF SettlementInit, Init, W!Init, Life!Init, SeenStatus, Among

\* Every step of the composition is a step of a life, or none.
LEMMA LifeStep == LifeInv /\ [SettlementNext]_all => [Life!Next]_(Life!vars)
<1> SUFFICES ASSUME LifeInv, [SettlementNext]_all PROVE [Life!Next]_(Life!vars)
  OBVIOUS
<1>1. ASSUME NEW r \in A!Conversion, Accept(r) PROVE Life!Next
  BY <1>1, AcceptIsAccept DEF A!Conversion, Life!Next
<1>2. ASSUME NEW h \in Handler, Commit(h) PROVE Life!Next
  BY <1>2, CommitOutcome, CommitIsTakeEffect DEF Life!Next
<1>3. ASSUME NEW p \in Publisher, Pass(p) PROVE [Life!Next]_(Life!vars)
  <2>1. UNCHANGED <<quoting, webhooks, createdAt>>
    BY <1>3 DEF Pass
  <2>2. ASSUME NEW e \in Event, Publish(p, e) \/ PublishFails(p, e)
        PROVE  [Life!Next]_(Life!vars)
    BY <2>1, <2>2, DeliveryIsTell DEF Life!Next
  <2>3. ASSUME NEW e \in Event, MarkPublished(p, e) PROVE Life!Next
    BY <2>1, <2>3, MarkIsFile DEF Life!Next
  <2> QED
    BY <1>3, <2>1, <2>2, <2>3, OthersAreStutters DEF Pass, Proceed
<1> QED
  BY <1>1, <1>2, <1>3, OthersAreStutters DEF SettlementNext

--------------------------------------------------------------------------------
\* The components keep their promises next to each other: what is proved of
\* each of them alone holds of the whole.
THEOREM Composition == SettlementSpec => A!Spec /\ WP!Spec /\ Spec
BY IsAcceptance, IsWebhooks, IsPublisher

\* No event is lost, invented or enqueued for a transaction that rolled back,
\* from the accepted quote and the webhooks to the outbox.
THEOREM Story == SettlementSpec => []OutboxTellsTheStory
BY StoryHolds, PTL DEF StoryInv

\* Whatever the broker has been given tells of a conversion in the ledger: of
\* its creation, or of a webhook that took effect on it.
THEOREM NothingInvented ==
    SettlementSpec => [](delivered \subseteq
        {createdAt[x] : x \in {r.id : r \in ledger} \cup inbox})
<1>1. SettlementSpec => []PublishedWasDelivered
  BY IsPublisher, AtLeastOnce
<1>2. OutboxTellsTheStory /\ PublishedWasDelivered =>
        delivered \subseteq {createdAt[x] : x \in {r.id : r \in ledger} \cup inbox}
  BY DEF OutboxTellsTheStory, PublishedWasDelivered
<1> QED
  BY <1>1, <1>2, Story, PTL

\* The system as a whole, with its handlers, transactions, passes and crashes, is
\* the life of conversions it promises: nothing takes effect twice or for nothing,
\* and nothing is told that did not happen or forgotten before it was told.
THEOREM WholeSystem == SettlementSpec => ImplementsLife
<1>1. SettlementSpec => []LifeInv
  BY StoryHolds, PassesHold, WebhooksInvariant, TransitionsHold, PTL DEF LifeInv
<1> QED
  BY <1>1, LifeBegins, LifeStep, PTL DEF SettlementSpec, ImplementsLife, Life!Spec

================================================================================

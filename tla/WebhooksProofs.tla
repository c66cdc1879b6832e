----------------------------- MODULE WebhooksProofs -----------------------------
(***************************************************************************)
(* Proofs about Webhooks, for every set of handlers, conversions and       *)
(* webhooks.                                                               *)
(***************************************************************************)
EXTENDS Webhooks, TLAPS

\* The inbox entry a transaction holds excludes recorded webhooks and other
\* transactions, and the foreign key has been checked.
EntryOK(h) ==
    HoldsEntry(h) => /\ ~Recorded(msg[h]) /\ ~EntryBusy(h)
                     /\ conversions[msg[h].conversion] # None

\* The row about to be saved is explained once this webhook is recorded too,
\* however stale the version it was computed from.
UpdatedOK(h) ==
    pc[h] \in {"save", "enqueue", "commit"} =>
        /\ row[h] \in Row
        /\ Explained(row[h], msg[h].conversion, inbox \cup {msg[h]})

\* What is answered with 200 is recorded.
AnswerOK(h) == pc[h] \in {"reload", "ack"} => Recorded(msg[h])

EntriesOK == \A h \in Handler : (pc[h] # "idle" => msg[h] \in Message) /\ EntryOK(h)
UpdatesOK == \A h \in Handler : UpdatedOK(h)
AnswersOK == \A h \in Handler : AnswerOK(h)

IInv ==
    /\ TypeOK
    /\ OneEffectPerMessage
    /\ RowIsExplained
    /\ AckedIsRecorded
    /\ EntriesOK /\ UpdatesOK /\ AnswersOK

USE DEF GoTo, Return, db, local, HoldsEntry, HoldsRow, Recorded, SameEvent

--------------------------------------------------------------------------------
(* The state machine of domain/conversion. *)

\* A transition yields a row of the table's type.
LEMMA UpdatedType ==
    ASSUME NEW m \in ProviderEvent, NEW r \in Row, Applies(m, r)
    PROVE  Updated(m, r) \in Row
BY DEF Applies, Updated, AdvanceForPayment, CompleteTransfer, FailPayment,
       FailTransfer, Referenced, FirstReference, Row, ProviderEvent, Status

\* A webhook is all the explanation its own transition needs.
LEMMA UpdatedExplained ==
    ASSUME NEW m \in ProviderEvent, NEW r \in Row, NEW S,
           Applies(m, r), Explained(r, m.conversion, S)
    PROVE  Explained(Updated(m, r), m.conversion, S \cup {m})
<1>1. CASE m.topic = "payment.succeeded"
  BY <1>1 DEF Applies, Updated, AdvanceForPayment, Referenced, Explained, Row
<1>2. CASE m.topic = "payment.failed"
  BY <1>2, ConstantsAssumption
     DEF Applies, Updated, FailPayment, FirstReference, Explained, Row, Topic
<1>3. CASE m.topic = "transfer.completed"
  BY <1>3 DEF Applies, Updated, CompleteTransfer, Referenced, Explained, Row
<1>4. CASE m.topic = "transfer.failed"
  BY <1>4, ConstantsAssumption
     DEF Applies, Updated, FailTransfer, FirstReference, Explained, Row, Topic
<1> QED
  BY <1>1, <1>2, <1>3, <1>4 DEF Applies

\* More webhooks explain no less.
LEMMA ExplainedMonotone ==
    ASSUME NEW r, NEW c, NEW S, NEW T, S \subseteq T, Explained(r, c, S)
    PROVE  Explained(r, c, T)
BY DEF Explained

--------------------------------------------------------------------------------
(***************************************************************************)
(* IInv is inductive.                                                      *)
(***************************************************************************)

\* Nothing stored, nobody at work.
LEMMA InitOK == Init => IInv
BY DEF Init, IInv, TypeOK, OneEffectPerMessage, RowIsExplained, AckedIsRecorded,
       EntriesOK, UpdatesOK, AnswersOK, EntryOK, UpdatedOK, AnswerOK, Step

\* A new conversion is AWAITING_PAYMENT, which needs no explanation.
LEMMA CreateConversionOK ==
    ASSUME IInv, NEW c \in Conversion, CreateConversion(c) PROVE IInv'
<1>1. TypeOK'
  BY DEF IInv, CreateConversion, TypeOK, Row, Status
<1>2. OneEffectPerMessage' /\ AckedIsRecorded'
  BY DEF IInv, CreateConversion, OneEffectPerMessage, AckedIsRecorded
<1>3. RowIsExplained'
  <2> SUFFICES ASSUME NEW d \in Conversion, conversions'[d] # None
               PROVE  Explained(conversions'[d], d, inbox')
    BY DEF RowIsExplained
  <2>1. CASE d = c
    BY <2>1 DEF IInv, CreateConversion, TypeOK, Explained
  <2>2. CASE d # c
    BY <2>2 DEF IInv, CreateConversion, TypeOK, RowIsExplained
  <2> QED
    BY <2>1, <2>2
<1>4. EntriesOK'
  BY ConstantsAssumption DEF IInv, CreateConversion, EntriesOK, EntryOK, EntryBusy, TypeOK, Row
<1>5. UpdatesOK'
  BY DEF IInv, CreateConversion, UpdatesOK, UpdatedOK, TypeOK
<1>6. AnswersOK'
  BY DEF IInv, CreateConversion, AnswersOK, AnswerOK, TypeOK
<1> QED
  BY <1>1, <1>2, <1>3, <1>4, <1>5, <1>6 DEF IInv

\* A delivery starts with nothing done.
LEMMA DeliverOK ==
    ASSUME IInv, NEW h \in Handler, NEW m \in Message, Deliver(h, m) PROVE IInv'
<1>1. TypeOK'
  BY DEF IInv, Deliver, TypeOK, Step
<1>2. OneEffectPerMessage' /\ RowIsExplained' /\ AckedIsRecorded'
  BY DEF IInv, Deliver, OneEffectPerMessage, RowIsExplained, AckedIsRecorded
<1>3. EntriesOK'
  BY DEF IInv, Deliver, EntriesOK, EntryOK, EntryBusy, TypeOK
<1>4. UpdatesOK'
  BY DEF IInv, Deliver, UpdatesOK, UpdatedOK, TypeOK
<1>5. AnswersOK'
  BY DEF IInv, Deliver, AnswersOK, AnswerOK, TypeOK
<1> QED
  BY <1>1, <1>2, <1>3, <1>4, <1>5 DEF IInv

\* The entry is taken when neither a record nor a transaction has the key.
LEMMA StoreIfAbsentOK ==
    ASSUME IInv, NEW h \in Handler, StoreIfAbsent(h) PROVE IInv'
<1>1. TypeOK'
  BY DEF IInv, StoreIfAbsent, TypeOK, Step
<1>2. OneEffectPerMessage' /\ RowIsExplained' /\ AckedIsRecorded'
  BY DEF IInv, StoreIfAbsent, OneEffectPerMessage, RowIsExplained, AckedIsRecorded
<1>3. EntriesOK'
  BY DEF IInv, StoreIfAbsent, EntriesOK, EntryOK, EntryBusy, TypeOK
<1>4. UpdatesOK'
  BY DEF IInv, StoreIfAbsent, UpdatesOK, UpdatedOK, TypeOK
<1>5. AnswersOK'
  BY DEF IInv, StoreIfAbsent, AnswersOK, AnswerOK, TypeOK
<1> QED
  BY <1>1, <1>2, <1>3, <1>4, <1>5 DEF IInv

\* The new row is computed from a stored, hence explained, version.
LEMMA LoadOK ==
    ASSUME IInv, NEW h \in Handler, Load(h) PROVE IInv'
<1> DEFINE m == msg[h]
           current == conversions[m.conversion]
<1>1. /\ m \in ProviderEvent
      /\ current \in Row /\ Explained(current, m.conversion, inbox)
  <2>1. m \in ProviderEvent
    BY ConstantsAssumption DEF Load, IInv, EntriesOK
  <2>2. current # None
    BY DEF Load, IInv, EntriesOK, EntryOK
  <2> QED
    BY <2>1, <2>2 DEF IInv, TypeOK, RowIsExplained, ProviderEvent
<1>2. ASSUME Applies(m, current)
      PROVE  /\ Updated(m, current) \in Row
             /\ Explained(Updated(m, current), m.conversion, inbox \cup {m})
  BY <1>1, <1>2, UpdatedType, UpdatedExplained
<1>3. TypeOK'
  BY <1>2 DEF IInv, Load, TypeOK, Step
<1>4. OneEffectPerMessage' /\ RowIsExplained' /\ AckedIsRecorded'
  BY DEF IInv, Load, OneEffectPerMessage, RowIsExplained, AckedIsRecorded
<1>5. EntriesOK'
  BY DEF IInv, Load, EntriesOK, EntryOK, EntryBusy, TypeOK
<1>6. UpdatesOK'
  BY <1>2 DEF IInv, Load, UpdatesOK, UpdatedOK, TypeOK
<1>7. AnswersOK'
  BY DEF IInv, Load, AnswersOK, AnswerOK, TypeOK
<1> QED
  BY <1>1, <1>2, <1>3, <1>4, <1>5, <1>6, <1>7 DEF IInv

\* Statements inside the transaction show nobody anything.
LEMMA StatementOK ==
    ASSUME IInv, NEW h \in Handler, UpdateConversion(h) \/ Enqueue(h) PROVE IInv'
<1>1. TypeOK'
  BY DEF IInv, UpdateConversion, Enqueue, TypeOK, Step
<1>2. OneEffectPerMessage' /\ RowIsExplained' /\ AckedIsRecorded'
  BY DEF IInv, UpdateConversion, Enqueue, OneEffectPerMessage, RowIsExplained, AckedIsRecorded
<1>3. EntriesOK'
  BY DEF IInv, UpdateConversion, Enqueue, EntriesOK, EntryOK, EntryBusy, TypeOK
<1>4. UpdatesOK'
  BY DEF IInv, UpdateConversion, Enqueue, UpdatesOK, UpdatedOK, TypeOK
<1>5. AnswersOK'
  BY DEF IInv, UpdateConversion, Enqueue, AnswersOK, AnswerOK, TypeOK
<1> QED
  BY <1>1, <1>2, <1>3, <1>4, <1>5 DEF IInv

\* COMMIT records a webhook that was not recorded, with its one event.
LEMMA CommitOK ==
    ASSUME IInv, NEW h \in Handler, Commit(h) PROVE IInv'
<1> DEFINE m == msg[h]
           event == [conversion |-> m.conversion, status |-> row[h].status, cause |-> m]
<1>1. /\ m \in Message /\ m \in ProviderEvent /\ ~Recorded(m) /\ row[h] \in Row
      /\ Explained(row[h], m.conversion, inbox \cup {m})
  BY ConstantsAssumption DEF IInv, Commit, EntriesOK, UpdatesOK, EntryOK, UpdatedOK
<1>2. TypeOK'
  <2>1. event \in [conversion : Conversion, status : Status, cause : Message]
    BY <1>1 DEF ProviderEvent, Row
  <2> QED
    BY <1>1, <2>1 DEF IInv, Commit, TypeOK, Step, ProviderEvent
<1>3. OneEffectPerMessage'
  <2>1. /\ Len(outbox') = Len(outbox) + 1 /\ Len(outbox) \in Nat
        /\ DOMAIN outbox = 1..Len(outbox) /\ DOMAIN outbox' = 1..(Len(outbox) + 1)
        /\ \A i \in 1..Len(outbox) : outbox'[i] = outbox[i]
        /\ outbox'[Len(outbox) + 1] = event
    BY DEF IInv, TypeOK, Commit
  <2>2. \A i \in 1..Len(outbox) : ~SameEvent(outbox[i].cause, m) /\ ~SameEvent(m, outbox[i].cause)
    BY <1>1, <2>1 DEF IInv, OneEffectPerMessage
  <2>3. event.cause = m
    OBVIOUS
  <2>4. \A i, j \in DOMAIN outbox' :
           SameEvent(outbox'[i].cause, outbox'[j].cause) => i = j
    BY <2>1, <2>2, <2>3 DEF IInv, OneEffectPerMessage
  <2>5. inbox' = {outbox'[i].cause : i \in DOMAIN outbox'}
    BY <2>1, <2>3 DEF IInv, OneEffectPerMessage, Commit
  <2> QED
    BY <2>4, <2>5 DEF OneEffectPerMessage
<1>4. RowIsExplained'
  BY <1>1, ExplainedMonotone DEF IInv, Commit, RowIsExplained, TypeOK, ProviderEvent
<1>5. AckedIsRecorded'
  BY DEF IInv, Commit, AckedIsRecorded
<1>6. EntriesOK'
  BY <1>1, ConstantsAssumption DEF IInv, Commit, EntriesOK, EntryOK, EntryBusy, TypeOK, ProviderEvent
<1>7. UpdatesOK'
  <2> SUFFICES ASSUME NEW g \in Handler, pc'[g] \in {"save", "enqueue", "commit"}
               PROVE  /\ row'[g] \in Row
                      /\ Explained(row'[g], msg'[g].conversion, inbox' \cup {msg'[g]})
    BY DEF UpdatesOK, UpdatedOK
  <2>1. pc[g] = pc'[g] /\ row'[g] = row[g] /\ msg'[g] = msg[g]
    BY DEF IInv, TypeOK, Commit
  <2>2. /\ row[g] \in Row
        /\ Explained(row[g], msg[g].conversion, inbox \cup {msg[g]})
    BY <2>1 DEF IInv, UpdatesOK, UpdatedOK
  <2>3. inbox \cup {msg[g]} \subseteq inbox' \cup {msg[g]}
    BY DEF Commit
  <2> QED
    BY <2>1, <2>2, <2>3, ExplainedMonotone
<1>8. AnswersOK'
  BY DEF IInv, Commit, AnswersOK, AnswerOK, TypeOK
<1> QED
  BY <1>1, <1>2, <1>3, <1>4, <1>5, <1>6, <1>7, <1>8 DEF IInv

\* A duplicate is answered from what is recorded.
LEMMA ReloadOK ==
    ASSUME IInv, NEW h \in Handler, Reload(h) PROVE IInv'
<1>1. TypeOK'
  BY DEF IInv, Reload, TypeOK, Step
<1>2. OneEffectPerMessage' /\ RowIsExplained' /\ AckedIsRecorded'
  BY DEF IInv, Reload, OneEffectPerMessage, RowIsExplained, AckedIsRecorded
<1>3. EntriesOK'
  <2>1. /\ conversions' = conversions /\ inbox' = inbox
        /\ \A g \in Handler : HoldsEntry(g)' => HoldsEntry(g) /\ msg'[g] = msg[g]
        /\ \A g \in Handler : pc'[g] # "idle" => pc[g] # "idle" /\ msg'[g] = msg[g]
    BY DEF IInv, Reload, TypeOK
  <2> QED
    BY <2>1 DEF IInv, EntriesOK, EntryOK, EntryBusy
<1>4. UpdatesOK'
  BY DEF IInv, Reload, UpdatesOK, UpdatedOK, TypeOK
<1>5. AnswersOK'
  BY DEF IInv, Reload, AnswersOK, AnswerOK, TypeOK
<1> QED
  BY <1>1, <1>2, <1>3, <1>4, <1>5 DEF IInv

\* The end of a request, with an answer or without one, changes no table.
LEMMA LeaveOK ==
    ASSUME IInv, NEW h \in Handler, Ack(h) \/ Abandon(h) PROVE IInv'
<1>1. TypeOK'
  BY DEF IInv, Ack, Abandon, TypeOK, Step, EntriesOK
<1>2. OneEffectPerMessage' /\ RowIsExplained' /\ AckedIsRecorded'
  BY DEF IInv, Ack, Abandon, OneEffectPerMessage, RowIsExplained,
         AckedIsRecorded, AnswersOK, AnswerOK
<1>3. EntriesOK'
  BY DEF IInv, Ack, Abandon, EntriesOK, EntryOK, EntryBusy, TypeOK
<1>4. UpdatesOK'
  BY DEF IInv, Ack, Abandon, UpdatesOK, UpdatedOK, TypeOK
<1>5. AnswersOK'
  BY DEF IInv, Ack, Abandon, AnswersOK, AnswerOK, TypeOK
<1> QED
  BY <1>1, <1>2, <1>3, <1>4, <1>5 DEF IInv

\* Every step preserves the invariant.
LEMMA NextOK == IInv /\ [Next]_vars => IInv'
<1> SUFFICES ASSUME IInv, [Next]_vars PROVE IInv'
  OBVIOUS
<1>1. CASE \E c \in Conversion : CreateConversion(c)
  BY <1>1, CreateConversionOK
<1>2. ASSUME NEW h \in Handler, \E m \in Message : Deliver(h, m) PROVE IInv'
  BY <1>2, DeliverOK
<1>3. ASSUME NEW h \in Handler, Handle(h) \/ Abandon(h) PROVE IInv'
  BY <1>3, StoreIfAbsentOK, LoadOK, StatementOK, CommitOK, ReloadOK, LeaveOK DEF Handle
<1>4. CASE UNCHANGED vars
  <2> USE <1>4 DEF vars, IInv
  <2>1. TypeOK' /\ OneEffectPerMessage' /\ RowIsExplained' /\ AckedIsRecorded'
    BY DEF TypeOK, OneEffectPerMessage, RowIsExplained, AckedIsRecorded
  <2>2. EntriesOK'
    BY DEF EntriesOK, EntryOK, EntryBusy
  <2>3. UpdatesOK' /\ AnswersOK'
    BY DEF UpdatesOK, AnswersOK, UpdatedOK, AnswerOK
  <2> QED
    BY <2>1, <2>2, <2>3
<1> QED
  BY <1>1, <1>2, <1>3, <1>4 DEF Next

\* The invariant holds in every reachable state.
LEMMA InvariantHolds == Spec => []IInv
BY InitOK, NextOK, PTL DEF Spec

--------------------------------------------------------------------------------
\* Every variable keeps its type in every reachable state.
THEOREM TypeCorrect == Spec => []TypeOK
BY InvariantHolds, PTL DEF IInv

\* Webhook processing is exactly-once: one committed effect and one event per
\* external event, whatever the deliveries, races and crashes.
THEOREM ExactlyOnce == Spec => []OneEffectPerMessage
BY InvariantHolds, PTL DEF IInv

\* Every stored conversion is explained by recorded webhooks; in particular none
\* is COMPLETED without a recorded payment and a recorded transfer.
THEOREM Explanation == Spec => []RowIsExplained
BY InvariantHolds, PTL DEF IInv

\* No webhook is answered with 200 before its external event is recorded.
THEOREM AckAfterRecord == Spec => []AckedIsRecorded
BY InvariantHolds, PTL DEF IInv

--------------------------------------------------------------------------------
(***************************************************************************)
(* While nothing fails, the row a transaction read is the row it           *)
(* overwrites.                                                             *)
(***************************************************************************)

Saving(h) == pc[h] \in {"save", "enqueue", "commit"}

\* What h has computed is still what it would compute.
UpToDate(h) ==
    Saving(h) /\ Uneventful(msg[h].conversion) =>
        /\ Applies(msg[h], conversions[msg[h].conversion])
        /\ row[h] = Updated(msg[h], conversions[msg[h].conversion])

\* FromQuote starts a conversion at AWAITING_PAYMENT and nothing leads back.
NeverRequested ==
    /\ \A c \in Conversion : conversions[c] # None => conversions[c].status # "REQUESTED"
    /\ \A h \in Handler : Saving(h) => row[h].status # "REQUESTED"

ForwardInv == NeverRequested /\ \A h \in Handler : UpToDate(h)

\* A success moves forward from the row it was computed from.
LEMMA UpdatedForward ==
    ASSUME NEW m \in ProviderEvent, NEW r \in Row, Applies(m, r),
           r.status # "REQUESTED"
    PROVE  /\ Updated(m, r).status # "REQUESTED"
           /\ m.topic \notin {"payment.failed", "transfer.failed"} =>
                 MovesForward(r, Updated(m, r))
<1>1. CASE m.topic = "payment.succeeded"
  BY <1>1 DEF Applies, Updated, AdvanceForPayment, Referenced, MovesForward, Row
<1>2. CASE m.topic = "payment.failed"
  BY <1>2 DEF Applies, Updated, FailPayment, Row
<1>3. CASE m.topic = "transfer.completed"
  BY <1>3 DEF Applies, Updated, CompleteTransfer, Referenced, MovesForward, Row
<1>4. CASE m.topic = "transfer.failed"
  BY <1>4 DEF Applies, Updated, FailTransfer, Row
<1> QED
  BY <1>1, <1>2, <1>3, <1>4 DEF Applies

\* Two webhooks of an uneventful conversion that apply to one row are one
\* external event.
LEMMA OneApplies ==
    ASSUME NEW m \in Message, NEW n \in Message, NEW r,
           m.conversion = n.conversion, Uneventful(m.conversion),
           Applies(m, r), Applies(n, r)
    PROVE  SameEvent(m, n)
<1>1. m.topic \notin {"payment.failed", "transfer.failed"}
      /\ n.topic \notin {"payment.failed", "transfer.failed"}
  BY DEF Uneventful
<1>2. m.topic = n.topic
  BY <1>1 DEF Applies
<1> QED
  BY <1>2 DEF Uneventful

\* Handlers that are saving hold typed rows, webhooks and entries.
LEMMA SavingFacts ==
    ASSUME IInv, NEW h \in Handler, Saving(h)
    PROVE  /\ msg[h] \in Message /\ msg[h] \in ProviderEvent
           /\ msg[h].conversion \in Conversion
           /\ conversions[msg[h].conversion] \in Row
           /\ conversions[msg[h].conversion] # None
           /\ \A g \in Handler \ {h} : Saving(g) => ~SameEvent(msg[g], msg[h])
BY ConstantsAssumption
   DEF Saving, IInv, TypeOK, EntriesOK, EntryOK, EntryBusy, ProviderEvent

LEMMA CommitForward ==
    ASSUME IInv, ForwardInv, NEW h \in Handler, Commit(h)
    PROVE  /\ ForwardInv'
           /\ Uneventful(msg[h].conversion) =>
                 MovesForward(conversions[msg[h].conversion], row[h])
<1> DEFINE c == msg[h].conversion
<1>1. /\ Saving(h) /\ pc' = [pc EXCEPT ![h] = "ack"] /\ msg' = msg /\ row' = row
      /\ conversions' = [conversions EXCEPT ![c] = row[h]]
      /\ pc \in [Handler -> Step] /\ conversions \in [Conversion -> Row \cup {None}]
  BY DEF Commit, Saving, IInv, TypeOK
<1>2. /\ c \in Conversion /\ conversions[c] \in Row /\ conversions[c] # None
      /\ msg[h] \in Message /\ msg[h] \in ProviderEvent
  BY <1>1, SavingFacts
<1>3. NeverRequested'
  <2>1. row[h].status # "REQUESTED"
    BY <1>1 DEF ForwardInv, NeverRequested
  <2> QED
    BY <1>1, <1>2, <2>1 DEF ForwardInv, NeverRequested, Saving
<1>4. ASSUME NEW g \in Handler PROVE UpToDate(g)'
  <2>1. CASE g = h
    BY <1>1, <2>1 DEF UpToDate, Saving
  <2>2. CASE g # h /\ msg[g].conversion # c
    BY <1>1, <2>2 DEF UpToDate, Saving, ForwardInv
  <2>3. CASE g # h /\ msg[g].conversion = c
    <3>1. SUFFICES ASSUME Saving(g), Uneventful(c) PROVE FALSE
      BY <1>1, <2>3 DEF UpToDate, Saving
    <3>2. Applies(msg[g], conversions[c]) /\ Applies(msg[h], conversions[c])
      BY <1>1, <2>3, <3>1 DEF ForwardInv, UpToDate
    <3>3. msg[g] \in Message
      BY <3>1, SavingFacts
    <3>4. SameEvent(msg[g], msg[h])
      BY <1>2, <2>3, <3>1, <3>2, <3>3, OneApplies
    <3> QED
      BY <1>1, <2>3, <3>1, <3>4, SavingFacts
  <2> QED
    BY <2>1, <2>2, <2>3
<1>5. ASSUME Uneventful(c) PROVE MovesForward(conversions[c], row[h])
  <2>1. Applies(msg[h], conversions[c]) /\ row[h] = Updated(msg[h], conversions[c])
    BY <1>1, <1>5 DEF ForwardInv, UpToDate
  <2>2. conversions[c].status # "REQUESTED"
    BY <1>2 DEF ForwardInv, NeverRequested
  <2>3. msg[h].topic \notin {"payment.failed", "transfer.failed"}
    BY <1>2, <1>5 DEF Uneventful
  <2> QED
    BY <1>2, <2>1, <2>2, <2>3, UpdatedForward
<1> QED
  BY <1>3, <1>4, <1>5 DEF ForwardInv

LEMMA LoadForward ==
    ASSUME IInv, ForwardInv, NEW h \in Handler, Load(h) PROVE ForwardInv'
<1> DEFINE m == msg[h]
           r == conversions[m.conversion]
<1>1. /\ pc \in [Handler -> Step] /\ row \in [Handler -> Row \cup {None}]
      /\ pc[h] = "load" /\ conversions' = conversions
      /\ m \in ProviderEvent /\ m.conversion \in Conversion
      /\ r \in Row /\ r # None
  BY ConstantsAssumption
     DEF Load, IInv, TypeOK, EntriesOK, EntryOK, ProviderEvent
<1>2. CASE Return(h)
  BY <1>1, <1>2 DEF ForwardInv, NeverRequested, UpToDate, Saving, IInv, TypeOK
<1>3. CASE /\ Applies(m, r) /\ row' = [row EXCEPT ![h] = Updated(m, r)]
           /\ GoTo(h, "save") /\ UNCHANGED msg
  <2>1. Updated(m, r).status # "REQUESTED"
    BY <1>1, <1>3, UpdatedForward DEF ForwardInv, NeverRequested
  <2>2. NeverRequested'
    BY <1>1, <1>3, <2>1 DEF ForwardInv, NeverRequested, Saving
  <2>3. ASSUME NEW g \in Handler PROVE UpToDate(g)'
    <3>1. CASE g = h
      BY <1>1, <1>3, <3>1 DEF UpToDate
    <3>2. CASE g # h
      BY <1>1, <1>3, <3>2 DEF ForwardInv, UpToDate, Saving
    <3> QED
      BY <3>1, <3>2
  <2> QED
    BY <2>2, <2>3 DEF ForwardInv
<1> QED
  BY <1>2, <1>3 DEF Load

\* Nothing else writes rows or starts saving.
LEMMA OthersForward ==
    ASSUME IInv, ForwardInv, NEW h \in Handler,
           \/ \E m \in Message : Deliver(h, m)
           \/ StoreIfAbsent(h) \/ UpdateConversion(h) \/ Enqueue(h)
           \/ Reload(h) \/ Ack(h) \/ Abandon(h)
    PROVE  ForwardInv' /\ conversions' = conversions
<1>1. /\ conversions' = conversions
      /\ \A g \in Handler : Saving(g)' =>
            Saving(g) /\ msg'[g] = msg[g] /\ row'[g] = row[g]
  BY DEF Saving, Deliver, StoreIfAbsent, UpdateConversion, Enqueue, Reload, Ack,
         Abandon, IInv, TypeOK
<1> QED
  BY <1>1 DEF ForwardInv, NeverRequested, UpToDate, Saving

\* A conversion starts at AWAITING_PAYMENT, and nobody was saving it before.
LEMMA CreateForward ==
    ASSUME IInv, ForwardInv, NEW c \in Conversion, CreateConversion(c)
    PROVE  ForwardInv'
<1>1. \A h \in Handler : Saving(h) => msg[h].conversion # c
  BY SavingFacts DEF CreateConversion
<1>2. /\ conversions \in [Conversion -> Row \cup {None}]
      /\ conversions' = [conversions EXCEPT ![c] = conversions'[c]]
      /\ conversions'[c].status = "AWAITING_PAYMENT"
      /\ pc' = pc /\ msg' = msg /\ row' = row
  BY DEF CreateConversion, IInv, TypeOK
<1>3. NeverRequested'
  BY <1>2 DEF ForwardInv, NeverRequested, Saving
<1>4. \A h \in Handler : UpToDate(h)'
  BY <1>1, <1>2, SavingFacts DEF ForwardInv, UpToDate, Saving
<1> QED
  BY <1>3, <1>4 DEF ForwardInv

LEMMA ForwardNext == IInv /\ ForwardInv /\ [Next]_vars => ForwardInv'
<1> SUFFICES ASSUME IInv, ForwardInv, [Next]_vars PROVE ForwardInv'
  OBVIOUS
<1>1. CASE UNCHANGED vars
  BY <1>1 DEF vars, ForwardInv, NeverRequested, UpToDate, Saving
<1> QED
  BY <1>1, CommitForward, LoadForward, OthersForward, CreateForward
     DEF Next, Handle

LEMMA ForwardHolds == Spec => []ForwardInv
<1>1. Init => ForwardInv
  BY DEF Init, ForwardInv, NeverRequested, UpToDate, Saving
<1> QED
  BY <1>1, ForwardNext, InvariantHolds, PTL DEF Spec

\* The guards of domain/conversion do hold of the stored row, for every
\* conversion nothing fails for, though nothing locks it while it is computed.
THEOREM Forward == Spec => SuccessesMoveForward
<1> DEFINE Moves == \A c \in {d \in Conversion : Uneventful(d)} :
                      conversions[c] # None /\ conversions'[c] # conversions[c] =>
                         MovesForward(conversions[c], conversions'[c])
<1>1. IInv /\ ForwardInv /\ [Next]_vars => [Moves]_vars
  <2> SUFFICES ASSUME IInv, ForwardInv, Next PROVE Moves
    OBVIOUS
  <2>1. ASSUME NEW c \in Conversion, CreateConversion(c) PROVE Moves
    BY <2>1 DEF CreateConversion, IInv, TypeOK
  <2>2. ASSUME NEW h \in Handler, Commit(h) PROVE Moves
    <3>1. /\ conversions' = [conversions EXCEPT ![msg[h].conversion] = row[h]]
          /\ conversions \in [Conversion -> Row \cup {None}]
      BY <2>2 DEF Commit, IInv, TypeOK
    <3> QED
      BY <2>2, <3>1, CommitForward
  <2>3. ASSUME NEW h \in Handler, Load(h) PROVE Moves
    BY <2>3 DEF Load
  <2> QED
    BY <2>1, <2>2, <2>3, OthersForward DEF Next, Handle
<1> QED
  BY <1>1, InvariantHolds, ForwardHolds, PTL DEF Spec, SuccessesMoveForward

--------------------------------------------------------------------------------
(***************************************************************************)
(* What is saved is a transition of the state machine, though not of the   *)
(* version it is saved over.                                               *)
(***************************************************************************)

\* Some version of the row, perhaps overwritten since, allowed the webhook and
\* led to the version being saved.
FromSomeVersion(h) ==
    Saving(h) => \E r \in Row : Applies(msg[h], r) /\ row[h] = Updated(msg[h], r)

TransitionInv == \A h \in Handler : FromSomeVersion(h)

LEMMA LoadTransition ==
    ASSUME IInv, TransitionInv, NEW h \in Handler, Load(h) PROVE TransitionInv'
<1> DEFINE r == conversions[msg[h].conversion]
<1>1. /\ pc \in [Handler -> Step] /\ row \in [Handler -> Row \cup {None}]
      /\ r \in Row
  BY ConstantsAssumption DEF Load, IInv, TypeOK, EntriesOK, EntryOK, ProviderEvent
<1>2. SUFFICES ASSUME NEW g \in Handler, Saving(g)'
               PROVE  FromSomeVersion(g)'
  BY DEF TransitionInv, FromSomeVersion
<1>3. CASE g = h
  <2>1. /\ Applies(msg[h], r) /\ msg' = msg
        /\ row' = [row EXCEPT ![h] = Updated(msg[h], r)]
    BY <1>1, <1>2, <1>3 DEF Load, Saving
  <2>2. row'[h] = Updated(msg'[h], r) /\ Applies(msg'[h], r)
    BY <1>1, <2>1
  <2> QED
    BY <1>1, <1>3, <2>2 DEF FromSomeVersion
<1>4. CASE g # h
  <2>1. Saving(g) /\ msg'[g] = msg[g] /\ row'[g] = row[g]
    BY <1>1, <1>2, <1>4 DEF Load, Saving, IInv, TypeOK
  <2> QED
    BY <2>1 DEF TransitionInv, FromSomeVersion
<1> QED
  BY <1>3, <1>4

\* No other step starts to save or changes what is being saved.
LEMMA OthersKeepTransition ==
    ASSUME IInv, TransitionInv,
           \/ \E c \in Conversion : CreateConversion(c)
           \/ \E h \in Handler :
                \/ \E m \in Message : Deliver(h, m)
                \/ StoreIfAbsent(h) \/ UpdateConversion(h) \/ Enqueue(h)
                \/ Commit(h) \/ Reload(h) \/ Ack(h) \/ Abandon(h)
           \/ UNCHANGED vars
    PROVE  TransitionInv'
<1>1. \A g \in Handler : Saving(g)' =>
            Saving(g) /\ msg'[g] = msg[g] /\ row'[g] = row[g]
  BY DEF Saving, CreateConversion, Deliver, StoreIfAbsent, UpdateConversion, Enqueue,
         Commit, Reload, Ack, Abandon, IInv, TypeOK, vars
<1> QED
  BY <1>1 DEF TransitionInv, FromSomeVersion

LEMMA TransitionHolds == Spec => []TransitionInv
<1>1. Init => TransitionInv
  BY DEF Init, TransitionInv, FromSomeVersion, Saving
<1>2. IInv /\ TransitionInv /\ [Next]_vars => TransitionInv'
  BY LoadTransition, OthersKeepTransition DEF Next, Handle
<1> QED
  BY <1>1, <1>2, InvariantHolds, PTL DEF Spec

================================================================================

--------------------------- MODULE AcceptQuoteProofs ---------------------------
(***************************************************************************)
(* Proofs about AcceptQuote, for every set of handlers, keys, quotes and   *)
(* conversion ids, every quote TTL and every bound on the clock.           *)
(***************************************************************************)
EXTENDS AcceptQuote, TLAPS

\* What a handler's locals hold at each statement.
LocalsOK(h) ==
    /\ pc[h] # "idle" => req[h] \in Request
    /\ pc[h] = "load" \/ HasRow(h) => at[h] \in 0..MaxTime
    /\ pc[h] = "refuse" => error[h] \in Error
    /\ pc[h] = "refuse" /\ error[h] = "Conflict" =>
          expiresAt[req[h].quote] # None /\ at[h] \in 0..MaxTime

\* The row of an open transaction is the one the request asks for, and its id
\* is nobody else's.
RowOK(h) ==
    HasRow(h) =>
        /\ conv[h] \in Row
        /\ conv[h].quote = req[h].quote /\ conv[h].key = req[h].key
        /\ conv[h].at = at[h]
        /\ expiresAt[conv[h].quote] # None
        /\ \A r \in conversions : r.id # conv[h].id
        /\ \A g \in Handler \ {h} : HasRow(g) => conv[g].id # conv[h].id

\* An index entry excludes committed rows and the other open transactions.
QuoteEntryOK(h) == HoldsQuote(h) => ~QuoteTaken(conv[h].quote) /\ ~QuoteBusy(h)
KeyEntryOK(h) == HoldsKey(h) => ~KeyTaken(conv[h].key) /\ ~KeyBusy(h)

\* From the UPDATE to the COMMIT the quote stays as the UPDATE found it.
AcceptOK(h) == HoldsAccept(h) => MarkMatches(conv[h].quote, at[h])

\* A conversion about to be answered is stored under the request's key.
AnswerOK(h) ==
    pc[h] = "answer" => conv[h] \in conversions /\ conv[h].key = req[h].key

HandlersOK ==
    \A h \in Handler : /\ LocalsOK(h) /\ RowOK(h) /\ QuoteEntryOK(h)
                       /\ KeyEntryOK(h) /\ AcceptOK(h) /\ AnswerOK(h)

IInv ==
    /\ TypeOK
    /\ OneConversionPerQuoteAndKey
    /\ AcceptanceIsAtomic
    /\ AnswersAgree
    /\ ConflictIsJustified
    /\ HandlersOK

--------------------------------------------------------------------------------
(***************************************************************************)
(* IInv is inductive: the initial state satisfies it, and each action, in  *)
(* a lemma of its own, preserves it.                                       *)
(***************************************************************************)

\* Abbreviations of the actions, and of a transaction's progress.
USE DEF GoTo, Refuse, Forget, db, local,
        HasRow, HoldsQuote, HoldsKey, HoldsAccept, QuoteTaken, KeyTaken

\* The empty database with idle handlers satisfies the invariant.
--------------------------------------------------------------------------------
(***************************************************************************)
(* IInv is inductive: the initial state satisfies it, and each action, in  *)
(* a lemma of its own, preserves it.                                       *)
(***************************************************************************)

\* Abbreviations of the actions, and of a transaction's progress.
USE DEF GoTo, Refuse, Forget, db, local,
        HasRow, HoldsQuote, HoldsKey, HoldsAccept, QuoteTaken, KeyTaken

\* The empty database with idle handlers satisfies the invariant.
LEMMA InitOK == Init => IInv
<1> SUFFICES ASSUME Init PROVE IInv
  OBVIOUS
<1>1. TypeOK
  BY ConstantsAssumption DEF Init, TypeOK, Step, Instant
<1>2. OneConversionPerQuoteAndKey /\ AcceptanceIsAtomic /\ AnswersAgree
  BY DEF Init, OneConversionPerQuoteAndKey, AcceptanceIsAtomic, AnswersAgree
<1>3. ConflictIsJustified /\ HandlersOK
  BY DEF Init, ConflictIsJustified, HandlersOK, LocalsOK, RowOK, QuoteEntryOK,
         KeyEntryOK, AcceptOK, AnswerOK
<1> QED
  BY <1>1, <1>2, <1>3 DEF IInv

\* The clock is read by nobody's invariant: handlers keep the instant they captured.
LEMMA TickOK ==
    ASSUME IInv, Tick PROVE IInv'
<1>1. TypeOK'
  BY ConstantsAssumption DEF IInv, Tick, TypeOK, Instant
<1>2. OneConversionPerQuoteAndKey' /\ AcceptanceIsAtomic' /\ AnswersAgree'
  BY DEF IInv, Tick, OneConversionPerQuoteAndKey,
         AcceptanceIsAtomic, AnswersAgree, EventOf
<1>3. ConflictIsJustified'
  BY ConstantsAssumption DEF IInv, Tick, ConflictIsJustified, TypeOK
<1>4. HandlersOK'
  BY ConstantsAssumption DEF IInv, Tick, HandlersOK, LocalsOK, RowOK, QuoteEntryOK,
         KeyEntryOK, AcceptOK, AnswerOK, QuoteBusy, KeyBusy, RowBusy, MarkMatches,
         TypeOK
<1> QED
  BY <1>1, <1>2, <1>3, <1>4 DEF IInv

\* A new quote is open and no conversion or request can have used it.
LEMMA CreateQuoteOK ==
    ASSUME IInv, NEW q \in QuoteId, CreateQuote(q) PROVE IInv'
<1>1. TypeOK'
  BY ConstantsAssumption DEF IInv, CreateQuote, TypeOK, Instant
<1>2. OneConversionPerQuoteAndKey' /\ AcceptanceIsAtomic' /\ AnswersAgree'
  BY ConstantsAssumption DEF IInv, CreateQuote, OneConversionPerQuoteAndKey,
         AcceptanceIsAtomic, AnswersAgree, EventOf, TypeOK, HandlersOK, LocalsOK, RowOK, QuoteEntryOK, KeyEntryOK, AcceptOK, MarkMatches, Row, Instant
<1>3. ConflictIsJustified'
  BY ConstantsAssumption DEF IInv, CreateQuote, ConflictIsJustified, TypeOK, HandlersOK, LocalsOK
<1>4. HandlersOK'
  BY ConstantsAssumption DEF IInv, CreateQuote, HandlersOK, LocalsOK, RowOK, QuoteEntryOK,
         KeyEntryOK, AcceptOK, AnswerOK, QuoteBusy, KeyBusy, RowBusy, MarkMatches,
         TypeOK, FreshId, Row, Request, Error, Instant
<1> QED
  BY <1>1, <1>2, <1>3, <1>4 DEF IInv

\* A request starts with nothing done.
LEMMA ReceiveOK ==
    ASSUME IInv, NEW h \in Handler, Receive(h) PROVE IInv'
<1>1. TypeOK'
  BY ConstantsAssumption DEF IInv, Receive, TypeOK, Step
<1>2. OneConversionPerQuoteAndKey' /\ AcceptanceIsAtomic' /\ AnswersAgree'
  BY DEF IInv, Receive, OneConversionPerQuoteAndKey,
         AcceptanceIsAtomic, AnswersAgree, EventOf
<1>3. ConflictIsJustified'
  BY ConstantsAssumption DEF IInv, Receive, ConflictIsJustified, TypeOK
<1>4. HandlersOK'
  BY ConstantsAssumption DEF IInv, Receive, HandlersOK, LocalsOK, RowOK, QuoteEntryOK,
         KeyEntryOK, AcceptOK, AnswerOK, QuoteBusy, KeyBusy, RowBusy, MarkMatches,
         TypeOK, FreshId, Row, Request, Error, Instant
<1> QED
  BY <1>1, <1>2, <1>3, <1>4 DEF IInv

\* An existing conversion is answered from the table.
LEMMA FindExistingOK ==
    ASSUME IInv, NEW h \in Handler, FindExisting(h) PROVE IInv'
<1>1. TypeOK'
  BY ConstantsAssumption DEF IInv, FindExisting, TypeOK, Step
<1>2. OneConversionPerQuoteAndKey' /\ AcceptanceIsAtomic' /\ AnswersAgree'
  BY DEF IInv, FindExisting, OneConversionPerQuoteAndKey,
         AcceptanceIsAtomic, AnswersAgree, EventOf
<1>3. ConflictIsJustified'
  BY ConstantsAssumption DEF IInv, FindExisting, ConflictIsJustified, TypeOK
<1>4. HandlersOK'
  BY ConstantsAssumption DEF IInv, FindExisting, HandlersOK, LocalsOK, RowOK, QuoteEntryOK,
         KeyEntryOK, AcceptOK, AnswerOK, QuoteBusy, KeyBusy, RowBusy, MarkMatches,
         TypeOK
<1> QED
  BY <1>1, <1>2, <1>3, <1>4 DEF IInv

\* The captured instant is one of the clock's.
LEMMA ReadClockOK ==
    ASSUME IInv, NEW h \in Handler, ReadClock(h) PROVE IInv'
<1>1. TypeOK'
  BY ConstantsAssumption DEF IInv, ReadClock, TypeOK, Step, Instant
<1>2. OneConversionPerQuoteAndKey' /\ AcceptanceIsAtomic' /\ AnswersAgree'
  BY DEF IInv, ReadClock, OneConversionPerQuoteAndKey,
         AcceptanceIsAtomic, AnswersAgree, EventOf
<1>3. ConflictIsJustified'
  BY ConstantsAssumption DEF IInv, ReadClock, ConflictIsJustified, TypeOK
<1>4. HandlersOK'
  BY ConstantsAssumption DEF IInv, ReadClock, HandlersOK, LocalsOK, RowOK, QuoteEntryOK,
         KeyEntryOK, AcceptOK, AnswerOK, QuoteBusy, KeyBusy, RowBusy, MarkMatches,
         TypeOK, FreshId, Row, Request, Error, Instant
<1> QED
  BY <1>1, <1>2, <1>3, <1>4 DEF IInv

\* The new row has a fresh id; a Conflict here means an accepted or expired quote.
LEMMA LoadQuoteOK ==
    ASSUME IInv, NEW h \in Handler, LoadQuote(h) PROVE IInv'
<1>1. TypeOK'
  BY ConstantsAssumption DEF IInv, LoadQuote, TypeOK, Step, Error, Row, HandlersOK, LocalsOK, Request, Instant
<1>2. OneConversionPerQuoteAndKey' /\ AcceptanceIsAtomic' /\ AnswersAgree'
  BY DEF IInv, LoadQuote, OneConversionPerQuoteAndKey,
         AcceptanceIsAtomic, AnswersAgree, EventOf
<1>3. ConflictIsJustified'
  BY ConstantsAssumption DEF IInv, LoadQuote, ConflictIsJustified, TypeOK, CanAccept, Instant, AcceptanceIsAtomic, HandlersOK, LocalsOK,
         Request
<1>4. HandlersOK'
  BY ConstantsAssumption DEF IInv, LoadQuote, HandlersOK, LocalsOK, RowOK, QuoteEntryOK,
         KeyEntryOK, AcceptOK, AnswerOK, QuoteBusy, KeyBusy, RowBusy, MarkMatches,
         TypeOK, FreshId, Row, Request, Error, Instant
<1> QED
  BY <1>1, <1>2, <1>3, <1>4 DEF IInv

\* The entry on the quote is taken when no row and no transaction has it.
LEMMA InsertConversionOK ==
    ASSUME IInv, NEW h \in Handler, InsertConversion(h) PROVE IInv'
<1>1. TypeOK'
  BY ConstantsAssumption DEF IInv, InsertConversion, TypeOK, Step, Error
<1>2. OneConversionPerQuoteAndKey' /\ AcceptanceIsAtomic' /\ AnswersAgree'
  BY DEF IInv, InsertConversion, OneConversionPerQuoteAndKey,
         AcceptanceIsAtomic, AnswersAgree, EventOf
<1>3. ConflictIsJustified'
  BY ConstantsAssumption DEF IInv, InsertConversion, ConflictIsJustified, TypeOK, HandlersOK, RowOK
<1>4. HandlersOK'
  BY ConstantsAssumption DEF IInv, InsertConversion, HandlersOK, LocalsOK, RowOK, QuoteEntryOK,
         KeyEntryOK, AcceptOK, AnswerOK, QuoteBusy, KeyBusy, RowBusy, MarkMatches,
         TypeOK, FreshId, Row, Request, Error, Instant
<1> QED
  BY <1>1, <1>2, <1>3, <1>4 DEF IInv

\* The entry on the key is taken when no row and no transaction has it.
LEMMA InsertKeyOK ==
    ASSUME IInv, NEW h \in Handler, InsertKey(h) PROVE IInv'
<1>1. TypeOK'
  BY ConstantsAssumption DEF IInv, InsertKey, TypeOK, Step, Error
<1>2. OneConversionPerQuoteAndKey' /\ AcceptanceIsAtomic' /\ AnswersAgree'
  BY DEF IInv, InsertKey, OneConversionPerQuoteAndKey,
         AcceptanceIsAtomic, AnswersAgree, EventOf
<1>3. ConflictIsJustified'
  BY ConstantsAssumption DEF IInv, InsertKey, ConflictIsJustified, TypeOK, HandlersOK, RowOK
<1>4. HandlersOK'
  BY ConstantsAssumption DEF IInv, InsertKey, HandlersOK, LocalsOK, RowOK, QuoteEntryOK,
         KeyEntryOK, AcceptOK, AnswerOK, QuoteBusy, KeyBusy, RowBusy, MarkMatches,
         TypeOK, FreshId, Row, Request, Error, Instant
<1> QED
  BY <1>1, <1>2, <1>3, <1>4 DEF IInv

\* The UPDATE matches an open quote, and misses one that is accepted or over.
LEMMA MarkQuoteAcceptedOK ==
    ASSUME IInv, NEW h \in Handler, MarkQuoteAccepted(h) PROVE IInv'
<1>1. TypeOK'
  BY ConstantsAssumption DEF IInv, MarkQuoteAccepted, TypeOK, Step, Error
<1>2. OneConversionPerQuoteAndKey' /\ AcceptanceIsAtomic' /\ AnswersAgree'
  BY DEF IInv, MarkQuoteAccepted, OneConversionPerQuoteAndKey,
         AcceptanceIsAtomic, AnswersAgree, EventOf
<1>3. ConflictIsJustified'
  BY ConstantsAssumption DEF IInv, MarkQuoteAccepted, ConflictIsJustified, TypeOK, MarkMatches, HandlersOK, RowOK, LocalsOK, QuoteEntryOK,
         AcceptanceIsAtomic, Request, Row, Instant
<1>4. HandlersOK'
  BY ConstantsAssumption DEF IInv, MarkQuoteAccepted, HandlersOK, LocalsOK, RowOK, QuoteEntryOK,
         KeyEntryOK, AcceptOK, AnswerOK, QuoteBusy, KeyBusy, RowBusy, MarkMatches,
         TypeOK, FreshId, Row, Request, Error, Instant
<1> QED
  BY <1>1, <1>2, <1>3, <1>4 DEF IInv

\* The event joins the transaction; nothing is visible yet.
LEMMA EnqueueOK ==
    ASSUME IInv, NEW h \in Handler, Enqueue(h) PROVE IInv'
<1>1. TypeOK'
  BY ConstantsAssumption DEF IInv, Enqueue, TypeOK, Step
<1>2. OneConversionPerQuoteAndKey' /\ AcceptanceIsAtomic' /\ AnswersAgree'
  BY DEF IInv, Enqueue, OneConversionPerQuoteAndKey,
         AcceptanceIsAtomic, AnswersAgree, EventOf
<1>3. ConflictIsJustified'
  BY ConstantsAssumption DEF IInv, Enqueue, ConflictIsJustified, TypeOK
<1>4. HandlersOK'
  BY ConstantsAssumption DEF IInv, Enqueue, HandlersOK, LocalsOK, RowOK, QuoteEntryOK,
         KeyEntryOK, AcceptOK, AnswerOK, QuoteBusy, KeyBusy, RowBusy, MarkMatches,
         TypeOK
<1> QED
  BY <1>1, <1>2, <1>3, <1>4 DEF IInv

\* COMMIT adds a row that clashes with nothing, together with its acceptance and event.
LEMMA CommitOK ==
    ASSUME IInv, NEW h \in Handler, Commit(h) PROVE IInv'
<1>1. TypeOK'
  BY ConstantsAssumption DEF IInv, Commit, TypeOK, Step, Row, Event, EventOf, HandlersOK, LocalsOK, RowOK, Instant
<1>2. OneConversionPerQuoteAndKey' /\ AcceptanceIsAtomic' /\ AnswersAgree'
  BY ConstantsAssumption DEF IInv, Commit, OneConversionPerQuoteAndKey,
         AcceptanceIsAtomic, AnswersAgree, EventOf, TypeOK, HandlersOK, LocalsOK, RowOK, QuoteEntryOK, KeyEntryOK, AcceptOK, MarkMatches, Row, Instant
<1>3. ConflictIsJustified'
  BY ConstantsAssumption DEF IInv, Commit, ConflictIsJustified, TypeOK
<1>4. HandlersOK'
  BY ConstantsAssumption DEF IInv, Commit, HandlersOK, LocalsOK, RowOK, QuoteEntryOK,
         KeyEntryOK, AcceptOK, AnswerOK, QuoteBusy, KeyBusy, RowBusy, MarkMatches,
         TypeOK, FreshId, Row, Request, Error, Instant
<1> QED
  BY <1>1, <1>2, <1>3, <1>4 DEF IInv

\* The answered conversion is stored, and is the only one with the request's key.
LEMMA AnswerKeepsInv ==
    ASSUME IInv, NEW h \in Handler, Answer(h) PROVE IInv'
<1>1. TypeOK'
  BY DEF IInv, Answer, TypeOK, Step, HandlersOK, LocalsOK, AnswerOK, Request, Row
<1>2. OneConversionPerQuoteAndKey' /\ AcceptanceIsAtomic' /\ AnswersAgree'
  BY DEF IInv, Answer, OneConversionPerQuoteAndKey, AcceptanceIsAtomic,
         AnswersAgree, HandlersOK, AnswerOK, EventOf
<1>3. ConflictIsJustified'
  BY DEF IInv, Answer, ConflictIsJustified, TypeOK
<1>4. HandlersOK'
  BY DEF IInv, Answer, HandlersOK, LocalsOK, RowOK, QuoteEntryOK, KeyEntryOK,
         AcceptOK, AnswerOK, QuoteBusy, KeyBusy, MarkMatches, TypeOK
<1> QED
  BY <1>1, <1>2, <1>3, <1>4 DEF IInv

\* An error changes no table.
LEMMA ReturnErrorOK ==
    ASSUME IInv, NEW h \in Handler, ReturnError(h) PROVE IInv'
<1>1. TypeOK'
  BY DEF IInv, ReturnError, TypeOK, Step, HandlersOK, LocalsOK, AnswerOK, Request, Row
<1>2. OneConversionPerQuoteAndKey' /\ AcceptanceIsAtomic' /\ AnswersAgree'
  BY DEF IInv, ReturnError, OneConversionPerQuoteAndKey, AcceptanceIsAtomic,
         AnswersAgree, HandlersOK, AnswerOK, EventOf
<1>3. ConflictIsJustified'
  BY DEF IInv, ReturnError, ConflictIsJustified, TypeOK
<1>4. HandlersOK'
  BY DEF IInv, ReturnError, HandlersOK, LocalsOK, RowOK, QuoteEntryOK, KeyEntryOK,
         AcceptOK, AnswerOK, QuoteBusy, KeyBusy, MarkMatches, TypeOK
<1> QED
  BY <1>1, <1>2, <1>3, <1>4 DEF IInv

\* A rollback changes no table; what was committed stays.
LEMMA AbandonOK ==
    ASSUME IInv, NEW h \in Handler, Abandon(h) PROVE IInv'
<1>1. TypeOK'
  BY DEF IInv, Abandon, TypeOK, Step, HandlersOK, LocalsOK, AnswerOK, Request, Row
<1>2. OneConversionPerQuoteAndKey' /\ AcceptanceIsAtomic' /\ AnswersAgree'
  BY DEF IInv, Abandon, OneConversionPerQuoteAndKey, AcceptanceIsAtomic,
         AnswersAgree, HandlersOK, AnswerOK, EventOf
<1>3. ConflictIsJustified'
  BY DEF IInv, Abandon, ConflictIsJustified, TypeOK
<1>4. HandlersOK'
  BY DEF IInv, Abandon, HandlersOK, LocalsOK, RowOK, QuoteEntryOK, KeyEntryOK,
         AcceptOK, AnswerOK, QuoteBusy, KeyBusy, MarkMatches, TypeOK
<1> QED
  BY <1>1, <1>2, <1>3, <1>4 DEF IInv

\* Every step of the system preserves the invariant.
LEMMA NextOK == IInv /\ [Next]_vars => IInv'
<1> SUFFICES ASSUME IInv, [Next]_vars PROVE IInv'
  OBVIOUS
<1>1. CASE Tick
  BY <1>1, TickOK
<1>2. CASE \E q \in QuoteId : CreateQuote(q)
  BY <1>2, CreateQuoteOK
<1>3. ASSUME NEW h \in Handler, Receive(h) \/ Handle(h) \/ Abandon(h) PROVE IInv'
  BY <1>3, ReceiveOK, FindExistingOK, ReadClockOK, LoadQuoteOK, InsertConversionOK,
     InsertKeyOK, MarkQuoteAcceptedOK, EnqueueOK, CommitOK, AnswerKeepsInv, ReturnErrorOK,
     AbandonOK DEF Handle
<1>4. CASE UNCHANGED vars
  BY <1>4 DEF vars, IInv, TypeOK, OneConversionPerQuoteAndKey, AcceptanceIsAtomic,
     AnswersAgree, ConflictIsJustified, HandlersOK, LocalsOK, RowOK, QuoteEntryOK,
     KeyEntryOK, AcceptOK, AnswerOK, QuoteBusy, KeyBusy, MarkMatches
<1> QED
  BY <1>1, <1>2, <1>3, <1>4 DEF Next

LEMMA InvariantHolds == Spec => []IInv
<1> QED
  BY InitOK, NextOK, PTL DEF Spec

--------------------------------------------------------------------------------
\* Every variable keeps its type in every reachable state.
THEOREM TypeCorrect == Spec => []TypeOK
BY InvariantHolds, PTL DEF IInv

\* However many handlers race, no two conversions share an id, a quote or a key.
THEOREM Unique == Spec => []OneConversionPerQuoteAndKey
BY InvariantHolds, PTL DEF IInv

\* quotes, conversions and outbox_events agree in every reachable state, and no
\* conversion was created at or after its quote's expiry.
THEOREM Atomic == Spec => []AcceptanceIsAtomic
BY InvariantHolds, PTL DEF IInv

\* All successful answers to one key name the one stored conversion of that key.
THEOREM Agreement == Spec => []AnswersAgree
BY InvariantHolds, PTL DEF IInv

\* A Conflict is always backed by committed state or by the quote's expiry.
THEOREM Justified == Spec => []ConflictIsJustified
BY InvariantHolds, PTL DEF IInv

\* However many handlers race, a transaction that has inserted its conversion
\* is alone with the quote when it comes to accept it.  Its index entry shows
\* that no conversion takes the quote (QuoteEntryOK), so the quote is not
\* accepted (AcceptanceIsAtomic), and that nobody else has the entry, which
\* whoever holds the lock of the row would.
THEOREM WonByInserting == Spec => []QuoteIsWonByInserting
<1>1. IInv => QuoteIsWonByInserting
  <2> SUFFICES ASSUME IInv, NEW h \in Handler, HoldsQuote(h)
               PROVE  acceptedAt[conv[h].quote] = None /\ ~RowBusy(h)
    BY DEF QuoteIsWonByInserting
  <2>1. conv[h].quote \in QuoteId
    BY DEF IInv, HandlersOK, RowOK, Row
  <2>2. ~QuoteTaken(conv[h].quote) /\ ~QuoteBusy(h)
    BY DEF IInv, HandlersOK, QuoteEntryOK
  <2>3. acceptedAt[conv[h].quote] = None
    BY <2>1, <2>2 DEF IInv, AcceptanceIsAtomic
  <2>4. ~RowBusy(h)
    BY <2>2 DEF QuoteBusy, RowBusy
  <2> QED
    BY <2>3, <2>4
<1> QED
  BY <1>1, InvariantHolds, PTL

--------------------------------------------------------------------------------
(***************************************************************************)
(* Refinement: COMMIT is the abstract Accept, Answer is Answer, CreateQuote *)
(* is Issue, and every other step leaves the abstract state alone.         *)
(***************************************************************************)

LEMMA InitRefines == Init => Abstract!Init
BY DEF Init, Abstract!Init

LEMMA StepRefines == IInv /\ [Next]_vars => [Abstract!Next]_Abstract!vars
<1> SUFFICES ASSUME IInv, [Next]_vars PROVE [Abstract!Next]_Abstract!vars
  OBVIOUS
<1>1. ASSUME NEW q \in QuoteId, CreateQuote(q) PROVE Abstract!Next
  <2>1. now + QuoteTTL \in Instant
    BY ConstantsAssumption DEF IInv, TypeOK, Instant
  <2>2. Abstract!Issue(q, now + QuoteTTL)
    BY <1>1 DEF CreateQuote, Abstract!Issue
  <2> QED
    BY <2>1, <2>2 DEF Abstract!Next, Instant
<1>2. ASSUME NEW h \in Handler, Commit(h) PROVE Abstract!Next
  <2>1. HasRow(h) /\ HoldsQuote(h) /\ HoldsKey(h) /\ HoldsAccept(h)
    BY <1>2 DEF Commit
  <2>2. conv[h] \in Abstract!Conversion
    BY <2>1 DEF IInv, HandlersOK, RowOK, Row, Abstract!Conversion
  <2>3. conv[h].at < expiresAt[conv[h].quote] /\ expiresAt[conv[h].quote] # None
    BY <2>1, ConstantsAssumption
       DEF IInv, HandlersOK, LocalsOK, RowOK, AcceptOK, MarkMatches, TypeOK, Row, Instant
  <2>4. \A s \in conversions : ~Abstract!Clash(conv[h], s)
    BY <2>1 DEF IInv, HandlersOK, RowOK, QuoteEntryOK, KeyEntryOK, Abstract!Clash
  <2>5. Abstract!Accept(conv[h])
    BY <1>2, <2>3, <2>4 DEF Commit, Abstract!Accept
  <2> QED
    BY <2>2, <2>5 DEF Abstract!Next
<1>3. ASSUME NEW h \in Handler, Answer(h) PROVE Abstract!Next
  <2>1. conv[h] \in conversions /\ conv[h].key = req[h].key
    BY <1>3 DEF Answer, IInv, HandlersOK, AnswerOK
  <2>2. conv[h] \in Abstract!Conversion
    BY <2>1 DEF IInv, TypeOK, Row, Abstract!Conversion
  <2>3. Abstract!Answer(conv[h])
    BY <1>3, <2>1 DEF Answer, Abstract!Answer
  <2> QED
    BY <2>2, <2>3 DEF Abstract!Next
<1>4. CASE UNCHANGED vars
  BY <1>4 DEF vars, Abstract!vars
<1>5. CASE Tick
  BY <1>5 DEF Tick, Abstract!vars
<1>6. ASSUME NEW h \in Handler,
             \/ Receive(h) \/ FindExisting(h) \/ ReadClock(h) \/ LoadQuote(h)
             \/ InsertConversion(h) \/ InsertKey(h) \/ MarkQuoteAccepted(h)
             \/ Enqueue(h) \/ ReturnError(h) \/ Abandon(h)
      PROVE  UNCHANGED Abstract!vars
  BY <1>6 DEF Receive, FindExisting, ReadClock, LoadQuote, InsertConversion,
     InsertKey, MarkQuoteAccepted, Enqueue, ReturnError, Abandon, Abstract!vars
<1> QED
  BY <1>1, <1>2, <1>3, <1>4, <1>5, <1>6 DEF Next, Handle

\* The concurrent, crash-prone implementation satisfies the one-step
\* specification of accepting a quote.
THEOREM Refinement == Spec => ImplementsAcceptance
BY InitRefines, StepRefines, InvariantHolds, PTL
   DEF Spec, ImplementsAcceptance, Abstract!Spec

================================================================================

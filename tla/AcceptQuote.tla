------------------------------ MODULE AcceptQuote ------------------------------
(***************************************************************************)
(* AcceptQuoteUsecase.Execute (internal/usecase/quotes.go) run by          *)
(* concurrent handlers of the HTTP, gRPC and net/rpc servers against one   *)
(* PostgreSQL database at READ COMMITTED.                                  *)
(*                                                                         *)
(* Committed tables are the variables expiresAt and acceptedAt (columns of *)
(* quotes), conversions and outbox.  What a transaction has written and    *)
(* not yet committed is not in them: it is what the handler's pc says it   *)
(* has executed so far, so a rollback is the handler leaving the           *)
(* transaction, and a commit publishes all three tables in one step.       *)
(***************************************************************************)
EXTENDS Integers

CONSTANTS Handler,       \* goroutines that serve AcceptQuote requests
          Key,           \* Idempotency-Key values
          QuoteId,       \* quote ids a client may name
          ConversionId,  \* ULIDs handed to new conversions
          QuoteTTL,      \* config QuoteTTL, in clock ticks
          MaxTime,       \* bound on the clock
          None           \* SQL NULL

\* config.Validate refuses a quote TTL that is not positive; NULL is no instant.
ASSUME ConstantsAssumption ==
    /\ QuoteTTL \in Nat \ {0}
    /\ MaxTime \in Nat
    /\ None \notin Nat

VARIABLES
    now,          \* the wall clock
    expiresAt,    \* quotes.expires_at, None while no such quote is stored
    acceptedAt,   \* quotes.accepted_at
    conversions,  \* rows of the table conversions
    outbox,       \* "conversion.created" rows of the table outbox_events
    pc,           \* the next statement of each handler
    req,          \* the request each handler serves
    at,           \* the local variable now of Execute
    conv,         \* the conversion Execute returns: existing or created
    error,        \* the error Execute returns
    replies       \* history: the successful answers clients received

db    == <<expiresAt, acceptedAt, conversions, outbox>>
local == <<req, at, conv, error>>
vars  == <<now, db, pc, local, replies>>

Instant == 0..(MaxTime + QuoteTTL)
Row     == [id : ConversionId, quote : QuoteId, key : Key, at : Instant]
Event   == [conversion : ConversionId, quote : QuoteId]
Request == [key : Key, quote : QuoteId, supported : BOOLEAN]
Error   == {"NotFound", "Conflict", "Validation"}
Step    == {"idle", "find", "clock", "load", "insert", "insertKey", "mark",
            "enqueue", "commit", "answer", "refuse"}

--------------------------------------------------------------------------------
(* What an open transaction has done, by the statement it is about to run. *)

\* The handler has built its new row (FromQuote).
HasRow(h) == pc[h] \in {"insert", "insertKey", "mark", "enqueue", "commit"}
\* Its INSERT has put its entry into the unique index of quote_id ...
HoldsQuote(h) == pc[h] \in {"insertKey", "mark", "enqueue", "commit"}
\* ... and into the one of idempotency_key.
HoldsKey(h) == pc[h] \in {"mark", "enqueue", "commit"}
\* Its UPDATE of the quote row has succeeded and holds that row's lock.
HoldsAccept(h) == pc[h] \in {"enqueue", "commit"}

\* ULIDs are unique: an id no stored and no uncommitted conversion has.
FreshId(id) ==
    /\ \A r \in conversions : r.id # id
    /\ \A h \in Handler : HasRow(h) => conv[h].id # id

\* Quote.CanAccept at instant t.
CanAccept(q, t) == acceptedAt[q] = None /\ t <= expiresAt[q]

\* A bug: the boundary instant counts as open, as it does in CanAccept.
MarkMatchesAtExpiry(q, t) == acceptedAt[q] = None /\ expiresAt[q] >= t

\* The WHERE clause of MarkQuoteAccepted at instant t.
MarkMatches(q, t) == acceptedAt[q] = None /\ expiresAt[q] > t

\* The two unique indexes, over committed rows ...
QuoteTaken(q) == \E r \in conversions : r.quote = q
KeyTaken(k) == \E r \in conversions : r.key = k

\* ... and over the entry of another open transaction, which makes an INSERT
\* wait until that transaction ends.
QuoteBusy(h) ==
    \E g \in Handler \ {h} : HoldsQuote(g) /\ conv[g].quote = conv[h].quote
KeyBusy(h) ==
    \E g \in Handler \ {h} : HoldsKey(g) /\ conv[g].key = conv[h].key
RowBusy(h) ==
    \E g \in Handler \ {h} : HoldsAccept(g) /\ conv[g].quote = conv[h].quote

\* A bug: the payload's quoteId is filled with the idempotency key.
EventOfKey(r) == [conversion |-> r.id, quote |-> r.key]

EventOf(r) == [conversion |-> r.id, quote |-> r.quote]

--------------------------------------------------------------------------------
Init ==
    /\ now = 0
    /\ expiresAt = [q \in QuoteId |-> None]
    /\ acceptedAt = [q \in QuoteId |-> None]
    /\ conversions = {}
    /\ outbox = {}
    /\ pc = [h \in Handler |-> "idle"]
    /\ req = [h \in Handler |-> None]
    /\ at = [h \in Handler |-> None]
    /\ conv = [h \in Handler |-> None]
    /\ error = [h \in Handler |-> None]
    /\ replies = {}

GoTo(h, s) == pc' = [pc EXCEPT ![h] = s]

\* Every error path: the transaction, if one is open, rolls back.
Refuse(h, e) == GoTo(h, "refuse") /\ error' = [error EXCEPT ![h] = e]

Tick ==
    /\ now < MaxTime
    /\ now' = now + 1
    /\ UNCHANGED <<db, pc, local, replies>>

\* CreateQuoteUsecase commits a quote that expires QuoteTTL from now.
CreateQuote(q) ==
    /\ expiresAt[q] = None
    /\ expiresAt' = [expiresAt EXCEPT ![q] = now + QuoteTTL]
    /\ UNCHANGED <<now, acceptedAt, conversions, outbox, pc, local, replies>>

\* A client calls one of the three transports; retries are calls like any other.
Receive(h) ==
    /\ pc[h] = "idle"
    /\ \E r \in Request : req' = [req EXCEPT ![h] = r]
    /\ GoTo(h, "find")
    /\ UNCHANGED <<now, db, at, conv, error, replies>>

\* GetConversionByIdempotencyKey, before any transaction: a stored conversion
\* is the answer, whatever quote the request names.
FindExisting(h) ==
    /\ pc[h] = "find"
    /\ \/ \E r \in conversions :
            /\ r.key = req[h].key
            /\ conv' = [conv EXCEPT ![h] = r]
            /\ GoTo(h, "answer")
       \/ /\ ~KeyTaken(req[h].key)
          /\ GoTo(h, "clock")
          /\ UNCHANGED conv
    /\ UNCHANGED <<now, db, req, at, error, replies>>

\* now := u.clock.Now(), used in every later statement however late it runs.
ReadClock(h) ==
    /\ pc[h] = "clock"
    /\ at' = [at EXCEPT ![h] = now]
    /\ GoTo(h, "load")
    /\ UNCHANGED <<now, db, req, conv, error, replies>>

\* The transaction begins: GetQuoteByID, CanAccept and conversion.FromQuote.
LoadQuote(h) ==
    /\ pc[h] = "load"
    /\ LET q == req[h].quote IN
       \/ expiresAt[q] = None /\ Refuse(h, "NotFound") /\ UNCHANGED conv
       \/ /\ expiresAt[q] # None /\ ~CanAccept(q, at[h])
          /\ Refuse(h, "Conflict") /\ UNCHANGED conv
       \/ /\ expiresAt[q] # None /\ CanAccept(q, at[h]) /\ ~req[h].supported
          /\ Refuse(h, "Validation") /\ UNCHANGED conv
       \/ /\ expiresAt[q] # None /\ CanAccept(q, at[h]) /\ req[h].supported
          /\ \E id \in ConversionId :
                /\ FreshId(id)
                /\ conv' = [conv EXCEPT ![h] =
                     [id |-> id, quote |-> q, key |-> req[h].key, at |-> at[h]]]
          /\ GoTo(h, "insert")
          /\ UNCHANGED error
    /\ UNCHANGED <<now, db, req, at, replies>>

\* A bug: an uncommitted row of another transaction is already a conflict.
InsertConversionNoWait(h) ==
    /\ pc[h] = "insert"
    /\ \/ /\ QuoteBusy(h) \/ QuoteTaken(conv[h].quote)
          /\ Refuse(h, "Conflict")
       \/ /\ ~QuoteBusy(h) /\ ~QuoteTaken(conv[h].quote)
          /\ GoTo(h, "insertKey") /\ UNCHANGED error
    /\ UNCHANGED <<now, db, req, at, conv, replies>>

\* A bug: the migration declares no unique index on quote_id.
InsertConversionUnindexed(h) ==
    /\ pc[h] = "insert"
    /\ GoTo(h, "insertKey")
    /\ UNCHANGED <<now, db, local, replies>>

\* CreateConversion, first unique index: wait for an open transaction on the
\* same quote, then fail on a committed row or take the entry.
InsertConversion(h) ==
    /\ pc[h] = "insert"
    /\ ~QuoteBusy(h)
    /\ \/ QuoteTaken(conv[h].quote) /\ Refuse(h, "Conflict")
       \/ /\ ~QuoteTaken(conv[h].quote)
          /\ GoTo(h, "insertKey") /\ UNCHANGED error
    /\ UNCHANGED <<now, db, req, at, conv, replies>>

\* A bug: the migration declares no unique index on idempotency_key.
InsertKeyUnindexed(h) ==
    /\ pc[h] = "insertKey"
    /\ GoTo(h, "mark")
    /\ UNCHANGED <<now, db, local, replies>>

\* CreateConversion, second unique index, with the entry on the quote held.
InsertKey(h) ==
    /\ pc[h] = "insertKey"
    /\ ~KeyBusy(h)
    /\ \/ KeyTaken(conv[h].key) /\ Refuse(h, "Conflict")
       \/ ~KeyTaken(conv[h].key) /\ GoTo(h, "mark") /\ UNCHANGED error
    /\ UNCHANGED <<now, db, req, at, conv, replies>>

\* MarkQuoteAccepted: no matching row is a conflict.
MarkQuoteAccepted(h) ==
    /\ pc[h] = "mark"
    /\ ~RowBusy(h)
    /\ \/ MarkMatches(conv[h].quote, at[h]) /\ GoTo(h, "enqueue") /\ UNCHANGED error
       \/ ~MarkMatches(conv[h].quote, at[h]) /\ Refuse(h, "Conflict")
    /\ UNCHANGED <<now, db, req, at, conv, replies>>

\* A bug: the conversion is answered before its transaction has committed.
EnqueueAndAnswer(h) ==
    /\ pc[h] = "enqueue"
    /\ GoTo(h, "answer")
    /\ UNCHANGED <<now, db, local, replies>>

\* Enqueue inserts the conversion.created event in the same transaction.
Enqueue(h) ==
    /\ pc[h] = "enqueue"
    /\ GoTo(h, "commit")
    /\ UNCHANGED <<now, db, local, replies>>

\* COMMIT makes the writes of the whole transaction visible at once.
Commit(h) ==
    /\ pc[h] = "commit"
    /\ conversions' = conversions \cup {conv[h]}
    /\ acceptedAt' = [acceptedAt EXCEPT ![conv[h].quote] = at[h]]
    /\ outbox' = outbox \cup {EventOf(conv[h])}
    /\ GoTo(h, "answer")
    /\ UNCHANGED <<now, expiresAt, local, replies>>

\* The locals of Execute are gone once it has returned.
Forget(h) ==
    /\ GoTo(h, "idle")
    /\ req' = [req EXCEPT ![h] = None]
    /\ at' = [at EXCEPT ![h] = None]
    /\ conv' = [conv EXCEPT ![h] = None]
    /\ error' = [error EXCEPT ![h] = None]

\* The client receives the conversion ...
Answer(h) ==
    /\ pc[h] = "answer"
    /\ replies' = replies \cup {[key |-> req[h].key, id |-> conv[h].id]}
    /\ Forget(h)
    /\ UNCHANGED <<now, db>>

\* ... or the error.
ReturnError(h) ==
    /\ pc[h] = "refuse"
    /\ Forget(h)
    /\ UNCHANGED <<now, db, replies>>

\* A crash, a cancelled context, a failed statement or a lost connection: an
\* open transaction rolls back, a committed one stays, the client learns nothing.
Abandon(h) ==
    /\ pc[h] # "idle"
    /\ Forget(h)
    /\ UNCHANGED <<now, db, replies>>

Handle(h) ==
    \/ FindExisting(h) \/ ReadClock(h) \/ LoadQuote(h) \/ InsertConversion(h)
    \/ InsertKey(h) \/ MarkQuoteAccepted(h) \/ Enqueue(h) \/ Commit(h)
    \/ Answer(h) \/ ReturnError(h)

Next ==
    \/ Tick
    \/ \E q \in QuoteId : CreateQuote(q)
    \/ \E h \in Handler : Receive(h) \/ Handle(h) \/ Abandon(h)

Spec == Init /\ [][Next]_vars

--------------------------------------------------------------------------------
\* Every variable has its type.
TypeOK ==
    /\ now \in 0..MaxTime
    /\ expiresAt \in [QuoteId -> Instant \cup {None}]
    /\ acceptedAt \in [QuoteId -> Instant \cup {None}]
    /\ conversions \subseteq Row
    /\ outbox \subseteq Event
    /\ pc \in [Handler -> Step]
    /\ req \in [Handler -> Request \cup {None}]
    /\ at \in [Handler -> Instant \cup {None}]
    /\ conv \in [Handler -> Row \cup {None}]
    /\ error \in [Handler -> Error \cup {None}]
    /\ replies \subseteq [key : Key, id : ConversionId]

\* No two conversions share an id, a quote or an idempotency key, however many
\* handlers pass the lookup by key and CanAccept with the same stale view.
OneConversionPerQuoteAndKey ==
    \A r, s \in conversions :
        r.id = s.id \/ r.quote = s.quote \/ r.key = s.key => r = s

\* The three tables tell one story at all times, whichever statement a
\* transaction dies at: a quote is accepted exactly when one conversion takes
\* it, at that conversion's instant and strictly before the quote expires, and
\* conversion.created is enqueued for exactly the stored conversions.
AcceptanceIsAtomic ==
    /\ \A q \in QuoteId : acceptedAt[q] # None <=> QuoteTaken(q)
    /\ \A r \in conversions :
          /\ acceptedAt[r.quote] = r.at
          /\ expiresAt[r.quote] # None /\ r.at < expiresAt[r.quote]
    /\ outbox = {EventOf(r) : r \in conversions}

\* A client that was told it has a conversion has that one for good: retries
\* with its key, on any server, are answered with the same stored conversion.
AnswersAgree ==
    \A a \in replies :
        /\ KeyTaken(a.key)
        /\ \A r \in conversions : r.key = a.key => r.id = a.id

\* Nobody is refused because of a transaction that may still roll back: behind
\* every Conflict stand a committed acceptance of the quote or of the key, or
\* an instant at which the quote was over.
ConflictIsJustified ==
    \A h \in Handler :
        pc[h] = "refuse" /\ error[h] = "Conflict" =>
            \/ QuoteTaken(req[h].quote)
            \/ KeyTaken(req[h].key)
            \/ at[h] >= expiresAt[req[h].quote]

\* The race for a quote is over with the INSERT: a transaction that holds the
\* entry of quote_id meets no one at the UPDATE of MarkQuoteAccepted, which so
\* waits for no row lock and finds no row for one reason only, that the quote
\* has expired by the instant its Execute read; the "accepted_at IS NULL" of
\* the WHERE clause never decides.
QuoteIsWonByInserting ==
    \A h \in Handler :
        HoldsQuote(h) =>
            /\ acceptedAt[conv[h].quote] = None
            /\ pc[h] = "mark" => ~RowBusy(h)

\* The handlers, their transactions and their crashes together do nothing that
\* the one-step acceptance of QuoteAcceptance does not do.
Abstract == INSTANCE QuoteAcceptance WITH
    offer <- expiresAt, ledger <- conversions, answers <- replies

ImplementsAcceptance == Abstract!Spec

================================================================================

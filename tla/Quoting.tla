-------------------------------- MODULE Quoting --------------------------------
(***************************************************************************)
(* CreateQuoteUsecase.Execute (internal/usecase/quotes.go) and             *)
(* GetReferenceRatesUsecase.Execute (internal/usecase/rates.go), run by    *)
(* concurrent handlers against one PostgreSQL database and the Frankfurter *)
(* API, with ensureReferenceRates (internal/usecase/common.go) between.    *)
(*                                                                         *)
(* Every statement is a transaction of its own.  What an INSERT has locked *)
(* and not committed is what its handler's pc and todo say.  A rate is     *)
(* represented by the edition of the market data it comes from.            *)
(***************************************************************************)
EXTENDS Integers, Sequences, FiniteSets

CONSTANTS Handler,      \* goroutines that serve the two operations
          Key,          \* Idempotency-Key values
          QuoteId,      \* ULIDs handed to new quotes
          Currency,     \* the supported currencies
          FeeCurrency,  \* the currency of the minimum fee, KRW in app/runtime.go
          Call,         \* the requests clients send
          MaxEdition,   \* bound on the editions of the market data
          None          \* SQL NULL and Go nil

Edition == 1..MaxEdition
Corridor == Currency \X Currency
Rate == [base : Currency, quote : Currency, edition : Edition]

\* quotes is what the rates are asked for; a GetReferenceRates call has no key.
\* positive: the amount passes ValidatePositive.
Request == [key : Key \cup {None}, base : Currency, quotes : Seq(Currency),
            positive : BOOLEAN]

ASSUME ConstantsAssumption ==
    /\ MaxEdition \in Nat \ {0}
    /\ FeeCurrency \in Currency
    /\ Call \subseteq Request
    /\ \A r \in Call : r.quotes # <<>> /\ (r.key # None => Len(r.quotes) = 1)
    /\ None \notin Key /\ None \notin Edition /\ None \notin Currency

VARIABLES
    market,    \* the edition the provider serves now
    stored,    \* the table reference_rates: corridor to edition or None
    quotes,    \* the table quotes
    pc,        \* the next statement of each handler
    req,       \* the request each handler serves
    synced,    \* whether ensureReferenceRates has been to the provider
    todo,      \* the rows of a running upsert: those to lock, those locked
    rates,     \* the rates ensureReferenceRates returns
    created,   \* the quote Execute returns: existing or created
    error,     \* the error Execute returns
    replies    \* history: which quote each key was answered with

local == <<req, synced, todo, rates, created, error>>
vars  == <<market, stored, quotes, pc, local, replies>>

Quote == [id : QuoteId, key : Key, base : Currency, quote : Currency,
          edition : Edition]
Error == {"Internal", "Validation", "Conflict"}
Step  == {"idle", "find", "list", "fetch", "upsert", "new", "insert", "commit",
          "answer", "refuse"}
Work  == [rows : Seq(Currency), done : Nat, edition : Edition \cup {None}]
NoWork == [rows |-> <<>>, done |-> 0, edition |-> None]

--------------------------------------------------------------------------------
(* Rates. *)

\* The rows ListLatestRates selects for a request.  IN () ignores repetitions.
Listed(r) == {[base |-> r.base, quote |-> c, edition |-> stored[<<r.base, c>>]] :
                 c \in {d \in Currency : /\ \E i \in DOMAIN r.quotes : r.quotes[i] = d
                                         /\ stored[<<r.base, d>>] # None}}

\* A bug: what is stored is taken for all there is.
CompleteIfAny(r) == Listed(r) # {}

Complete(r) == Cardinality(Listed(r)) = Len(r.quotes)

\* indexByQuote of sortRates: a later occurrence of a currency wins.
IndexByQuote(c, asked) ==
    CHOOSE i \in DOMAIN asked :
        asked[i] = c /\ \A j \in DOMAIN asked : asked[j] = c => j <= i

\* A bug: the rates stay in the order of the SELECT.
SortRatesUnsorted(rows, asked) ==
    CHOOSE s \in [1..Cardinality(rows) -> rows] :
        \A i, j \in DOMAIN s : s[i] = s[j] => i = j

\* sortRates puts every rate at the place of its currency in the request; a
\* place no rate belongs to keeps Go's zero value.
SortRates(rows, asked) ==
    [i \in 1..Cardinality(rows) |->
        LET here == {r \in rows : IndexByQuote(r.quote, asked) = i} IN
        IF here = {} THEN None ELSE CHOOSE r \in here : TRUE]

--------------------------------------------------------------------------------
(* What running statements hold. *)

\* The corridors whose rows the upsert of h has locked, and the next one.
Locked(h) ==
    {<<req[h].base, todo[h].rows[i]>> : i \in 1..todo[h].done}
Wanted(h) == <<req[h].base, todo[h].rows[todo[h].done + 1]>>
Finished(h) == todo[h].done = Len(todo[h].rows)

\* The upsert of h waits for the one of g.
WaitsFor(h, g) ==
    /\ g # h
    /\ pc[h] = "upsert" /\ ~Finished(h)
    /\ pc[g] = "upsert"
    /\ Wanted(h) \in Locked(g)

\* Every member of S waits for another member.
Deadlocked(h) ==
    \E S \in SUBSET Handler :
        h \in S /\ \A g \in S : \E f \in S : WaitsFor(g, f)

HasQuote(h) == pc[h] \in {"insert", "commit"}
\* A bug: requests that have not inserted yet already exclude each other.
HoldsKeyEarly(h) == HasQuote(h)

\* The INSERT of a quote has put its key into the unique index.
HoldsKey(h) == pc[h] = "commit"
KeyBusy(h) == \E g \in Handler \ {h} : HoldsKey(g) /\ req[g].key = req[h].key
KeyTaken(k) == \E q \in quotes : q.key = k

\* ULIDs are unique.
FreshId(id) ==
    /\ \A q \in quotes : q.id # id
    /\ \A h \in Handler : HasQuote(h) => created[h].id # id

--------------------------------------------------------------------------------
Init ==
    /\ market = 1
    /\ stored = [c \in Corridor |-> None]
    /\ quotes = {}
    /\ pc = [h \in Handler |-> "idle"]
    /\ req = [h \in Handler |-> None]
    /\ synced = [h \in Handler |-> FALSE]
    /\ todo = [h \in Handler |-> NoWork]
    /\ rates = [h \in Handler |-> <<>>]
    /\ created = [h \in Handler |-> None]
    /\ error = [h \in Handler |-> None]
    /\ replies = {}

GoTo(h, s) == pc' = [pc EXCEPT ![h] = s]

Refuse(h, e) ==
    GoTo(h, "refuse") /\ error' = [error EXCEPT ![h] = e]

Forget(h) ==
    /\ GoTo(h, "idle")
    /\ req' = [req EXCEPT ![h] = None]
    /\ synced' = [synced EXCEPT ![h] = FALSE]
    /\ todo' = [todo EXCEPT ![h] = NoWork]
    /\ rates' = [rates EXCEPT ![h] = <<>>]
    /\ created' = [created EXCEPT ![h] = None]
    /\ error' = [error EXCEPT ![h] = None]

\* The provider publishes new reference rates.
PublishEdition ==
    /\ market < MaxEdition
    /\ market' = market + 1
    /\ UNCHANGED <<stored, quotes, pc, local, replies>>

\* A client calls; retries are calls like any other.
Receive(h, r) ==
    /\ pc[h] = "idle"
    /\ req' = [req EXCEPT ![h] = r]
    /\ GoTo(h, IF r.key = None THEN "list" ELSE "find")
    /\ UNCHANGED <<market, stored, quotes, synced, todo, rates, created, error,
                   replies>>

\* A bug: there is no lookup by key.
FindExistingSkipped(h) ==
    /\ pc[h] = "find"
    /\ GoTo(h, "list")
    /\ UNCHANGED <<market, stored, quotes, local, replies>>

\* GetQuoteByIdempotencyKey: a stored quote is the answer, whatever amount and
\* currencies the request names.
FindExisting(h) ==
    /\ pc[h] = "find"
    /\ \/ \E q \in quotes :
            /\ q.key = req[h].key
            /\ created' = [created EXCEPT ![h] = q]
            /\ GoTo(h, "answer")
       \/ ~KeyTaken(req[h].key) /\ GoTo(h, "list") /\ UNCHANGED created
    /\ UNCHANGED <<market, stored, quotes, req, synced, todo, rates, error, replies>>

\* ensureReferenceRates, before and after the provider was asked.  A complete
\* list is used whatever its age.
ListRates(h) ==
    /\ pc[h] = "list"
    /\ \/ /\ Complete(req[h])
          /\ rates' = [rates EXCEPT ![h] = SortRates(Listed(req[h]), req[h].quotes)]
          /\ GoTo(h, IF req[h].key = None THEN "answer" ELSE "new")
          /\ UNCHANGED error
       \/ /\ ~Complete(req[h]) /\ ~synced[h]
          /\ GoTo(h, "fetch") /\ UNCHANGED <<rates, error>>
       \/ /\ ~Complete(req[h]) /\ synced[h]
          /\ Refuse(h, "Internal") /\ UNCHANGED rates
    /\ UNCHANGED <<market, stored, quotes, req, synced, todo, created, replies>>

\* The provider answers with rates of the current edition for some of the
\* currencies, in an order of its own; an empty answer is not written at all.
FetchRates(h) ==
    /\ pc[h] = "fetch"
    /\ \E S \in SUBSET {req[h].quotes[i] : i \in DOMAIN req[h].quotes} :
       \E rows \in [1..Cardinality(S) -> S] :
          /\ \A i, j \in DOMAIN rows : rows[i] = rows[j] => i = j
          /\ todo' = [todo EXCEPT ![h] =
                        [rows |-> rows, done |-> 0, edition |-> market]]
          /\ GoTo(h, IF S = {} THEN "list" ELSE "upsert")
    /\ synced' = [synced EXCEPT ![h] = TRUE]
    /\ UNCHANGED <<market, stored, quotes, req, rates, created, error, replies>>

\* The call fails, its answer does not decode, or UpsertRates refuses it for a
\* rate that is not positive or a corridor that is there twice.
FetchFails(h) ==
    /\ pc[h] = "fetch"
    /\ \E e \in {"Internal", "Validation"} : Refuse(h, e)
    /\ UNCHANGED <<market, stored, quotes, req, synced, todo, rates, created,
                   replies>>

\* UpsertRates, INSERT ... ON CONFLICT DO UPDATE, locks its rows in the order
\* the provider listed them.
LockRate(h) ==
    /\ pc[h] = "upsert" /\ ~Finished(h)
    /\ \A g \in Handler : ~WaitsFor(h, g)
    /\ todo' = [todo EXCEPT ![h].done = @ + 1]
    /\ UNCHANGED <<market, stored, quotes, pc, req, synced, rates, created, error,
                   replies>>

\* PostgreSQL fails one statement of a circle.
BreakDeadlock(h) ==
    /\ Deadlocked(h)
    /\ Refuse(h, "Internal")
    /\ UNCHANGED <<market, stored, quotes, req, synced, todo, rates, created,
                   replies>>

\* The upsert commits, over whatever edition the rows hold by then.
CommitRates(h) ==
    /\ pc[h] = "upsert" /\ Finished(h)
    /\ stored' = [c \in Corridor |->
                     IF c \in Locked(h) THEN todo[h].edition ELSE stored[c]]
    /\ todo' = [todo EXCEPT ![h] = NoWork]
    /\ GoTo(h, "list")
    /\ UNCHANGED <<market, quotes, req, synced, rates, created, error, replies>>

\* quote.New: the amount, the corridor of the rate and the fee's currency.
NewQuote(h) ==
    /\ pc[h] = "new"
    /\ LET r == req[h]
           rate == rates[h][1]
           valid == /\ r.positive
                    /\ rate.base = r.base /\ rate.quote = r.quotes[1]
                    /\ r.base = FeeCurrency IN
       \/ ~valid /\ Refuse(h, "Validation") /\ UNCHANGED created
       \/ /\ valid
          /\ \E id \in QuoteId :
                /\ FreshId(id)
                /\ created' = [created EXCEPT ![h] =
                     [id |-> id, key |-> r.key, base |-> r.base,
                      quote |-> r.quotes[1], edition |-> rate.edition]]
          /\ GoTo(h, "insert") /\ UNCHANGED error
    /\ UNCHANGED <<market, stored, quotes, req, synced, todo, rates, replies>>

\* A bug: the migration declares no unique index on idempotency_key.
InsertQuoteUnindexed(h) ==
    /\ pc[h] = "insert"
    /\ GoTo(h, "commit")
    /\ UNCHANGED <<market, stored, quotes, local, replies>>

\* A bug: the quote is answered before its INSERT has committed.
InsertQuoteAndAnswer(h) ==
    /\ pc[h] = "insert" /\ ~KeyBusy(h)
    /\ \/ KeyTaken(req[h].key) /\ Refuse(h, "Conflict")
       \/ ~KeyTaken(req[h].key) /\ GoTo(h, "answer") /\ UNCHANGED error
    /\ UNCHANGED <<market, stored, quotes, req, synced, todo, rates, created,
                   replies>>

\* A bug: the uncommitted row of another transaction is already a conflict.
InsertQuoteNoWait(h) ==
    /\ pc[h] = "insert"
    /\ \/ (KeyBusy(h) \/ KeyTaken(req[h].key)) /\ Refuse(h, "Conflict")
       \/ ~KeyBusy(h) /\ ~KeyTaken(req[h].key) /\ GoTo(h, "commit") /\ UNCHANGED error
    /\ UNCHANGED <<market, stored, quotes, req, synced, todo, rates, created,
                   replies>>

\* Store.CreateQuote: wait for another INSERT of the key, then fail on a
\* committed row or take the entry.
InsertQuote(h) ==
    /\ pc[h] = "insert"
    /\ ~KeyBusy(h)
    /\ \/ KeyTaken(req[h].key) /\ Refuse(h, "Conflict")
       \/ ~KeyTaken(req[h].key) /\ GoTo(h, "commit") /\ UNCHANGED error
    /\ UNCHANGED <<market, stored, quotes, req, synced, todo, rates, created,
                   replies>>

CommitQuote(h) ==
    /\ pc[h] = "commit"
    /\ quotes' = quotes \cup {created[h]}
    /\ GoTo(h, "answer")
    /\ UNCHANGED <<market, stored, local, replies>>

\* The client receives the quote or the rates ...
Answer(h) ==
    /\ pc[h] = "answer"
    /\ \/ /\ req[h].key # None
          /\ replies' = replies \cup {[key |-> req[h].key, id |-> created[h].id]}
       \/ req[h].key = None /\ UNCHANGED replies
    /\ Forget(h)
    /\ UNCHANGED <<market, stored, quotes>>

\* ... or the error.
ReturnError(h) ==
    /\ pc[h] = "refuse"
    /\ Forget(h)
    /\ UNCHANGED <<market, stored, quotes, replies>>

\* A crash, a cancelled context, a failed statement or a lost connection.
Abandon(h) ==
    /\ pc[h] # "idle"
    /\ Forget(h)
    /\ UNCHANGED <<market, stored, quotes, replies>>

Handle(h) ==
    \/ FindExisting(h) \/ ListRates(h) \/ FetchRates(h) \/ FetchFails(h)
    \/ LockRate(h) \/ BreakDeadlock(h) \/ CommitRates(h) \/ NewQuote(h)
    \/ InsertQuote(h) \/ CommitQuote(h) \/ Answer(h) \/ ReturnError(h)

Next ==
    \/ PublishEdition
    \/ \E h \in Handler : \/ \E r \in Call : Receive(h, r)
                          \/ Handle(h)
                          \/ Abandon(h)

Spec == Init /\ [][Next]_vars

\* The client of r tries again until it is answered, and from some time on its
\* attempts are not cut short and the provider gives them what they ask for.
Unserved(r) == \A a \in replies : a.key # r.key
FetchAll(h) == FetchRates(h) /\ Len(todo'[h].rows) = Len(req[h].quotes)
CutShort(h) ==
    \/ pc[h] # "refuse" /\ Abandon(h)
    \/ FetchFails(h)
    \/ FetchRates(h) /\ ~FetchAll(h)
Retried(r) ==
    /\ SF_vars(Unserved(r) /\ \E h \in Handler : Receive(h, r))
    /\ <>[][Unserved(r) => \A h \in Handler : req[h] = r => ~CutShort(h)]_vars

\* Running handlers keep executing, PostgreSQL breaks every deadlock, and the
\* clients of CreateQuote retry.
FairSpec ==
    /\ Spec
    /\ \A h \in Handler : SF_vars(Handle(h))
    /\ \A r \in Call : r.key # None => Retried(r)

--------------------------------------------------------------------------------
\* Every variable has its type.
TypeOK ==
    /\ market \in Edition
    /\ stored \in [Corridor -> Edition \cup {None}]
    /\ quotes \subseteq Quote
    /\ pc \in [Handler -> Step]
    /\ req \in [Handler -> Call \cup {None}]
    /\ synced \in [Handler -> BOOLEAN]
    /\ todo \in [Handler -> Work]
    /\ rates \in [Handler -> Seq(Rate)]
    /\ created \in [Handler -> Quote \cup {None}]
    /\ error \in [Handler -> Error \cup {None}]
    /\ replies \subseteq [key : Key, id : QuoteId]

\* Concurrent retries of CreateQuote, which all miss the lookup by key, leave a
\* single quote per key (README, "Explicit idempotency").
OneQuotePerKey == \A q, s \in quotes : q.id = s.id \/ q.key = s.key => q = s

\* A client that was told its quote is told the same one by every later answer
\* to its key, on any server.
AnswersAgree ==
    \A a \in replies :
        /\ KeyTaken(a.key)
        /\ \A q \in quotes : q.key = a.key => q.id = a.id

\* The loser of a race between two retries is told Conflict, but never while
\* its key could still be left without a quote: trying again finds one.
ConflictMeansServed ==
    \A h \in Handler :
        pc[h] = "refuse" /\ error[h] = "Conflict" => KeyTaken(req[h].key)

\* The rates of an answer are those of the currencies asked for, each once and
\* in the order of the request, whatever the provider sent and whoever else
\* fetched in between.
RatesAnswerTheRequest ==
    \A h \in Handler :
        pc[h] = "answer" /\ req[h].key = None =>
            /\ Len(rates[h]) = Len(req[h].quotes)
            /\ \A i \in DOMAIN rates[h] :
                  rates[h][i].base = req[h].base /\ rates[h][i].quote = req[h].quotes[i]

\* The latest rates are what ListLatestRates lists: no fetch that was under way
\* for long replaces newer rates by its own.
RatesNeverGoBack ==
    [][\A c \in Corridor : stored[c] # None => stored'[c] >= stored[c]]_vars

\* Every call comes to an end, though upserts lock rows in the provider's order
\* and can wait for each other in a circle.
RequestsFinish == \A h \in Handler : pc[h] # "idle" ~> pc[h] = "idle"

\* A client that retries a valid CreateQuote is answered with a quote in the
\* end: neither a lost race nor another handler's half-fetched rates can keep
\* its key unserved.
RetriesAreServed ==
    \A r \in {c \in Call : c.key # None /\ c.positive /\ c.base = FeeCurrency} :
        <>(\E a \in replies : a.key = r.key)

\* What a client may be quoted, a valid request for a corridor that has the
\* fee's currency, and what of it the editions published so far allow.
Asked ==
    {[key |-> r.key,
      terms |-> [base |-> r.base, quote |-> r.quotes[1], edition |-> e]] :
        r \in {c \in Call : c.key # None /\ c.positive /\ c.base = FeeCurrency},
        e \in Edition}
Quotable == {o \in Asked : o.terms.edition <= market}

\* A row of quotes as QuoteIssuing sees it.
Issued(q) ==
    [id |-> q.id, key |-> q.key,
     terms |-> [base |-> q.base, quote |-> q.quote, edition |-> q.edition]]

Abstract == INSTANCE QuoteIssuing WITH
    Terms <- Rate, quotable <- Quotable,
    ledger <- {Issued(q) : q \in quotes}, answers <- replies

\* Racing retries, other handlers' upserts, stale lists and crashes together do
\* nothing that the one-step CreateQuote of QuoteIssuing does not do: one quote
\* for a key, for what its client asked, at a rate that was published, and every
\* answer names it.
ImplementsIssuing == Abstract!Spec

================================================================================

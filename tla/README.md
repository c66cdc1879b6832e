# TLA+ verification of clearn-fx-settlement

This directory holds a TLA+ model of the FX quote-to-settlement backend in `../src`, the TLC
configurations that model-check it on small instances, and proofs, checked by TLAPS, of its safety
properties for every instance. Source paths below are relative to `../src`.

## 1. The system

A client asks for a quote, accepts it (which creates a *conversion*), and payment and transfer
providers then report by webhook what became of the money. Everything is stored in PostgreSQL; the
processes (`cmd/api`, `cmd/grpc`, `cmd/rpc`) keep no state of their own beyond a request's locals, and
any number of them share one database. So all concurrency is **transactions of concurrent handlers
against shared tables at READ COMMITTED** (GORM's default), and all failure is a handler that stops
between two statements, a client or provider that repeats itself, and messages in any order.

| Component | State | Operations | Talks to |
|---|---|---|---|
| Quote creation, reference rates (`usecase/quotes.go:46`, `usecase/rates.go`, `usecase/common.go`, `outbound/frankfurter`) | `reference_rates`, `quotes` | CreateQuote, GetReferenceRates, SyncReferenceRates | Frankfurter over HTTP, store |
| Quote acceptance (`usecase/quotes.go:117`, `domain/quote`, `domain/conversion.FromQuote`) | `quotes.accepted_at`, `conversions`, `outbox_events` | AcceptQuote | store, in one transaction |
| Webhooks (`usecase/webhooks.go`, `domain/conversion`, `domain/webhook`) | `webhook_inbox`, `conversions`, `outbox_events` | HandlePaymentWebhook, HandleTransferWebhook | store, in one transaction |
| Outbox (`usecase/outbox.go`, `outbound/publisher`) | `outbox_events` | PublishOutbox | broker (a log line today), store without a transaction |
| Conversion query (`usecase/conversions.go`) | none | GetConversion | store |
| Money (`domain/shared`) | none | Convert, FeeFromBPS, Add, parsing of currencies and keys | |
| Keyset pagination (`internal/keyset`) | the client's cursor | NewPlan, OrderBy, WhereClause, EncodeNextCursor | a SQL query of its caller |
| Transports (`inbound/http`, `inbound/grpc`, `inbound/rpc`) | a request's context | decode, validate, call, map errors, count | use cases, telemetry |
| Lifecycle (`app/runtime.go`, `cmd/*`) | pools and servers | Bootstrap, Close, graceful shutdown | everything |

What is hard here, and what would make each component correct:

* **Acceptance.** The lookup by idempotency key and the clock reading happen *before* the transaction;
  two requests may race on a key, on a quote, or on both crosswise, while the quote expires. Correct
  means: one conversion per quote and per key; `quotes`, `conversions` and `outbox_events` always agree;
  a client told it has a conversion is told the same one for ever; nobody is refused because of a
  transaction that may still roll back; who has inserted the conversion has won the race for the quote.
* **Webhooks.** Providers deliver at least once, in any order, to any server. Correct means: each
  external event has exactly one effect and one outbox event; a refused webhook leaves no trace, so that
  its redelivery succeeds; the stored conversion is always explained by recorded webhooks and follows its
  state machine.
* **Outbox.** A pass is a sequence of separate statements, passes overlap, and some events never get
  published. Correct means: nothing is marked published that was not delivered, a published row stays
  so, and as long as passes are called every event that the broker takes is published.
* **Quoting.** Retries of CreateQuote race without any transaction around them, and handlers that all
  find the rates incomplete fetch and upsert the same rows at the same time. Correct means: one quote per
  key and the same answer for ever; a lost race is only reported when the key is served; the rates of an
  answer are those asked for; a client that retries gets its quote.
* **Money and requests.** Amounts are 64-bit integers, rates decimals that a column rounds, and every amount
  goes through a hand-written copy into a row, back, and into one of three renderings. Correct means: fee,
  total and converted amount are what the terms say to the last unit wherever nothing overflows; the three
  transports answer alike; what a client was told once stays true in every later answer.
* **From quote to broker.** The components meet in `conversions` and `outbox_events` only. Correct means:
  the outbox tells exactly what happened, the broker hears of nothing else, and a paid and transferred
  conversion completes, whatever overtakes what and whatever crashes.
* **Keyset pagination.** Cursor, `WHERE` and `ORDER BY` must agree on every tie-breaker, while rows are
  written between two pages. Correct means: no row twice, no page behind an earlier one, and no row that
  stayed in the table skipped.
* **Transports and lifecycle.** run(), two serving goroutines and the requests in flight share listeners,
  database handles and one channel of reports, and each transport has its own tables of what an error
  means. Correct means: whatever fails or whenever the signal comes, the process ends and leaves nothing
  open, no request in flight loses its database or its answer, and a client and the metric are told
  the same thing about a call. The code keeps this with the exceptions that the properties name.

`PROJECT.json` lists every hazard at its line with the properties that cover it.

## 2. Modules

| Module | Models | Used by |
|---|---|---|
| `QuoteAcceptance` | what accepting a quote promises, in one step (abstract) | `AcceptQuote`, `Settlement` |
| `QuoteIssuing` | what creating a quote promises, in one step (abstract) | `Quoting`, `RequestsProofs` |
| `ConversionLife` | what acceptance, webhooks and publisher promise together (abstract) | `Settlement`, `SettlementProofs` |
| `AcceptQuote` | `AcceptQuoteUsecase.Execute` and the store, statement by statement | `MCAcceptQuote`, `AcceptQuoteProofs` |
| `Webhooks` | `HandlePaymentWebhook`, `HandleTransferWebhook`, the conversion state machine, the inbox | `MCWebhooks`, `WebhooksProofs`, `Settlement` |
| `OutboxPublisher` | `PublishOutboxUsecase.Execute` and the outbox statements of the store | `OutboxPublisherProofs`, `Settlement` |
| `Quoting` | `CreateQuoteUsecase`, `GetReferenceRatesUsecase`, `ensureReferenceRates`, the Frankfurter client | `MCQuoting`, `QuotingProofs` |
| `Settlement` | the composition of `QuoteAcceptance`, `Webhooks` and `OutboxPublisher` over one database | `MCSettlement`, `SettlementProofs` |
| `Money` | `domain/shared/money.go` in fixed-width integers, and what its results ought to be | `Requests` |
| `Requests` | what the transports accept and show, the amounts of a quote, and the rows of the store | `MCRequests`, `RequestsProofs` |
| `Keyset` | `internal/keyset` and the query of a caller | `MCKeyset`, `KeysetProofs` |
| `Server` | `app/runtime.go`, `cmd/{api,grpc,rpc}` and what the transports do with a request and its error | `MCServer`, `ServerProofs` |

`PROJECT.json` maps every definition to the lines it stands for. In every module of a use case the state
has the same three parts: the **tables** (what is committed), **per handler** the next statement (`pc`),
the request and the locals of `Execute`, and a **history** variable of what clients were told. An action
is one statement against PostgreSQL or the provider, with the Go code up to the next one; `Abandon` lets
a handler stop at any statement (a crash, a cancelled context, a lost connection), which rolls its
transaction back.

**AcceptQuote.** `Receive`, `FindExisting` (quotes.go:127, outside the transaction), `ReadClock` (:135),
`LoadQuote` with `CanAccept` (:137-156), `InsertConversion`/`InsertKey`, `MarkQuoteAccepted`, `Enqueue`,
`Commit`, `Answer`/`ReturnError`. The INSERT enters the unique index of `quote_id` and then that of
`idempotency_key`; at each it waits (`QuoteBusy`, `KeyBusy`: the action is disabled) while another
transaction holds an uncommitted entry, and is refused once one is committed. What a transaction holds is
derived from its `pc` (`HoldsQuote`, `HoldsKey`, `HoldsAccept`). `MarkQuoteAccepted` evaluates its
`WHERE accepted_at IS NULL AND expires_at > ?` on the committed row once it has the row lock.

**Webhooks.** `Deliver`, `StoreIfAbsent` (`ON CONFLICT DO NOTHING`, which waits for an uncommitted entry
of the same event), `Load` (a plain SELECT and the state machine's guard on that copy), `UpdateConversion`
(Save of every column, waiting for the row lock but *not* reading the row again), `Enqueue`, `Commit`,
`Reload` (the duplicate's path), `Ack`. Both endpoints share the module; `Endpoint` and `Topic` decide
which half of the code runs.

**OutboxPublisher.** `ListPending`, then per event `Publish` or `PublishFails`, `MarkPublished` or
`MarkPublishFailed`, then `Advance`; `Abort` where the code returns an error or the process dies. Passes
overlap freely, as nothing in the code prevents it.

**Quoting.** `FindExisting`, `ListRates`/`Complete` (common.go:27-31), `FetchRates`/`FetchFails`,
`LockRate` for each corridor in the order the provider listed it, `CommitRates`, the second `ListRates`,
`SortRates`, `NewQuote`, `InsertQuote`, `CommitQuote`. An exchange rate is the edition of the provider's
table it comes from. Two upserts can wait for each other in a circle, which `BreakDeadlock` ends the way
PostgreSQL does, by failing one of them. `ImplementsIssuing` maps the module to `QuoteIssuing`: what is
asked for is what the open requests ask (`Asked`), what may be issued is a price at an edition the provider
has published (`Quotable`), and `InsertQuote` is the step that issues.

**Settlement.** Acceptance takes part as its abstract specification, which `AcceptQuote` implements (theorem
`Refinement`), webhooks and passes statement by statement. `Accept` commits a conversion together with its
event, `Commit` a webhook's row, inbox entry and event; `createdAt`, chosen in `SettlementInit`, is any
order in which the events may be listed, because `created_at` is read before the transaction begins
(common.go:81-90). `ImplementsLife` maps the composition to `ConversionLife`, which has no handlers, no
transactions and no passes: a conversion is accepted, a webhook takes effect, the broker is told, a row is
filed as published. There the status, the inbox and the outbox are the committed rows, and what was told
is what was delivered; everything else a handler or a pass does is a stutter.

**Requests and Money.** A request is what a client writes: keys and currencies as texts (`word`, and how it
is `spelled`), an amount or none. `HTTPAdmitsQuote`, `GRPCAdmitsQuote`, `RPCAdmitsQuote`, `AdmitsConversion`
and `IsULID` are the checks of the three transports; `QuoteError` and `ConversionError` say what the use
cases answer, in the order of their checks; `NewQuote`, `FromQuote` compute and copy the amounts;
`QuoteModelFromDomain`, `QuoteToDomain` and their twins for conversions are the rows; `To...Response`,
`To...Message` and `To...Reply` what each transport shows. `Wrap` is two's complement, `RoundBank` the
rounding of the decimal library, `Numeric` that of the column. Requests are served one after the other:
their interleavings are the subject of `AcceptQuote` and `Quoting`, for which `Requests` is the data that
they leave out.

**Keyset.** A client opens a list (`Start`), continues with the cursor it was given under whatever sort
and order it names (`Continue`), and others write (`Write`, `Delete`) between its pages. `Accepts` is the
validation of `NewPlan`, `WhereClause`, `Follows` (ORDER BY) and `EncodeNextCursor` the three places that
must agree. A cursor carries texts: `Serialize` and `Parse` are the codecs, which lose nothing (strings are
copied, times written in UTC with nanoseconds).

**Server.** `main` is where `run()` stands, `held` what is open, `server` the two serving goroutines,
`serverErrors` the channel they report to, `open` and `request` the clients. `StageSucceeds`/`StageFails`
are Bootstrap, with what each failure branch closes by hand in `Unwinds`; `gorm.Open` is two stages,
`openGorm` and `pingGorm`, because it opens the `sql.DB` before it pings it, and `getDB` is `db.DB()` after it.
The listener that a goroutine of HTTP or of the metrics opens itself is open while that goroutine is
"running". A request's handler uses the
database any number of times (`Execute`, `Executed`), ends with an error of any code or without
(`Finish`), panics, or is a readiness probe (`Ping`, `Pinged`), and is then counted and answered through
the error handling of its transport (`Middleware`, `MapError`, `Counted`, `Answered`).

## 3. What is checked

The cfg files give every constant; the bounds are the sets below.

| Run | Instance | Properties | Result |
|---|---|---|---|
| `accept_quote` | 2 handlers, 2 keys, 2 quotes, 3 conversion ids, TTL 1, clock 0..2, symmetric | TypeOK, OneConversionPerQuoteAndKey, AcceptanceIsAtomic, AnswersAgree, ConflictIsJustified, QuoteIsWonByInserting, ImplementsAcceptance | hold |
| `webhooks` | 2 handlers, 2 conversions, 7 webhooks (failures, an event id used twice on different endpoints, a conversion that nothing fails for) | TypeOK, OneEffectPerMessage, RowIsExplained, AckedIsRecorded, SuccessesMoveForward | hold |
| `webhooks_lost_update` | 2 handlers, 1 conversion, paid, transferred and declined | StatusMovesForward | **violated** |
| `outbox` | 2 passes, 3 events, 1 poisoned, batch of 2, fair | TypeOK, PublishedWasDelivered, PublishedIsFinal, PublishedUnlessNobodyCalls | hold |
| `settlement` | 1 quote, 1 conversion, its payment and its transfer, 2 webhook handlers, 1 publisher, 3 events in two orders of `created_at`, 1 poisoned, batch of 2, fair | OutboxTellsTheStory, ImplementsLife, Settled | hold |
| `requests` | 3 transports, 2 keys, 2 quotes, 2 conversions, 10 quote, 14 conversion, 7 read and 3 rate requests, 5 states of the provider, 16-bit amounts, 50 basis points, minimum 2, symmetric | TypeOK, PricedRight, TransportsAgree, TermsAreKept | hold |
| `quoting` | 2 handlers, 2 keys, 3 quote ids, 3 currencies, 2 editions, 8 different calls, symmetric | TypeOK, AnswersAgree, ConflictMeansServed, RatesAnswerTheRequest, ImplementsIssuing | hold |
| `quoting_live` | 2 handlers, 1 quote call and 2 rate calls in opposite orders, 1 edition, fair | RequestsFinish, RetriesAreServed | hold |
| `quoting_stale` | the same, 2 editions | RatesNeverGoBack | **violated** |
| `keyset` | 4 ids, 7 row contents that tie in one column or both, pages of 2, two sorts, both orders | TypeOK, PagesAscend, NothingSkipped | hold |
| `server` | 3 commands, 2 clients, 6 errors, fair | TypeOK, NobodyIsCutOff, NobodyMeetsAClosedDatabase, LeavesOpenOnlyInTrouble, ToldAndCounted, StopsInTheEnd | hold |
| `server_metrics` | net/rpc, 2 clients | FailuresAreReported | **violated** |

Why these bounds. Two handlers are enough for every race the code can lose, because each waits for or
reads at most one other transaction's work at a time; two keys and two quotes give the crossed case (key A
with quote B against key B with quote A). A third id leaves room for a retry that creates again after a
rollback. Clock 0..2 with TTL 1 has an instant before, at and after the expiry of a quote, and lets
the clock pass between the reading of it and the UPDATE. A batch of two with one poisoned event, among
three, is the smallest case where the poisoned event is listed for ever and the others must get past it.
Pages of two in a table of up to four rows let ties end inside a page and at its end. Two clients give a
request in flight beside an idle connection, and one whose connection is opened while `run()` is leaving.

One conversion with its two webhooks and two handlers is enough for `settlement`: conversions share nothing
but the outbox, and the second handler is what lets the transfer overtake the payment and both overtake the
commit of the conversion. Three events are its whole story; the one the broker refuses is listed before the
others, and is the conversion's creation in one order and its transfer in the other. In `requests` 16 bits put an overflow of `base * feeBPS` (645 * 50 still fits, 32767 * 50
does not) and of the total within reach of TLC's integers. At the
rate of 0.007 the two amounts of 15 and 645 won are halves of a cent, one rounding down to the even and one
up; that rate is rounded by its column, another to zero, one is too large for it and one negative.
The requests stand on both sides of every check of every transport.

The theorems of section 5 remove these bounds for the safety properties.

Deadlock is checked everywhere but in `outbox`, where passes that have nothing to do may really stop when
the model's finite set of events is used up; it is `PublishedUnlessNobodyCalls` that says a pass does not
stop early.

## 4. Fairness, and why the code justifies it

* `Quoting`: strong fairness of a handler's own next statement, `SF(Handle)`. A goroutine that can run does;
  an INSERT or UPDATE that waits again and again for other transactions gets its turn because PostgreSQL
  queues lock requests, and a circle of waits is broken by its deadlock detector.
* `AcceptQuote` and `Webhooks` alone: no fairness, only safety is claimed of them. No property is about waiting:
  their transactions take their locks in one order of tables, which rules a circle out by the order of the
  statements alone.
* `Settlement`, `FairSettlement`: `SF(Handle)` for webhook handlers as above; a provider delivers a webhook
  until it is answered 200, and from some time on its attempts are not cut short (`Delivered`). Nothing is
  assumed about order or duplicates, nor that quotes are issued or accepted, nor that a publisher ever runs:
  `Settled` ends with the stored status, and no property says that the broker is told of it in time.
* `Quoting`, `Retried`: the client of CreateQuote tries again until it is answered, and from some time on
  its attempts are not cut short and the provider answers them in full. The other handlers may be cut
  short for ever, and their provider answers may stay partial.
* `OutboxPublisher`, `Served`: neither the broker, but for the poisoned events, nor the database fails on an
  event every time it is asked. That anybody calls `Execute` is not assumed, because **nothing in the
  repository does** (section 6): `PublishedUnlessNobodyCalls` leaves open that from some time on no pass
  begins. In a real deployment that alternative is what happens today.
* `Server`: only once it has left its select is `run()` made to go on (its own steps and its timer), a
  closed listener ends its goroutine, and the database answers a ping. Handlers may hang for ever,
  which is why `Overdue` matters.

## 5. What is proved

TLAPS checks the following for every value of the constants (any number of handlers, keys, clients,
rows, ...); each `*Proofs` module holds the proofs of one component.

| Theorem | States |
|---|---|
| `AcceptQuoteProofs`: TypeCorrect, Unique, Atomic, Agreement, Justified | the first five invariants of `accept_quote` |
| `AcceptQuoteProofs`: WonByInserting | `QuoteIsWonByInserting`, of any number of handlers |
| `AcceptQuoteProofs`: Refinement | `Spec => Abstract!Spec`: the handlers implement `QuoteAcceptance` |
| `WebhooksProofs`: TypeCorrect, ExactlyOnce, Explanation, AckAfterRecord | the first four invariants of `webhooks` |
| `WebhooksProofs`: Forward | `SuccessesMoveForward` |
| `SettlementProofs`: Composition | the composition satisfies the specification of each of its components |
| `SettlementProofs`: Story, NothingInvented | `OutboxTellsTheStory`, and that the broker hears of nothing else |
| `SettlementProofs`: WholeSystem | `SettlementSpec => ImplementsLife`: the whole implements `ConversionLife` |
| `RequestsProofs`: TypeCorrect, Prices, SameAnswers, Terms | the four invariants of `requests` |
| `RequestsProofs`: FeeIsDue, RoundIsNearest, ConvertIsNearest | fee and converted amount are what the terms say, for every amount and rate |
| `RequestsProofs`: Refinement | with all amounts, CreateQuote implements `QuoteIssuing` |
| `OutboxPublisherProofs`: TypeCorrect, AtLeastOnce, FinalOnceDone | two invariants and the action property of `outbox` |
| `OutboxPublisherProofs`: PoisonIsOvertaken, PoisonBlocks | how many refused events hold back an event, and how many do not |
| `QuotingProofs`: TypeCorrect, Agreement, Justified, InRequestOrder | the four invariants of `quoting` |
| `QuotingProofs`: Refinement | `Spec => ImplementsIssuing`: the handlers implement `QuoteIssuing` |
| `QuotingProofs`: Unique, CompleteInOrder | one quote for a key; a complete list is answered whole and in order |
| `QuotingProofs`: OneHolder, QuotesNeverDeadlock, OrderedNeverDeadlock | no rate row is locked twice; who can be in a deadlock of upserts, and what alone causes one |
| `KeysetProofs`: TypeCorrect, Ascending, Complete | the three invariants of `keyset` |
| `ServerProofs`: TypeCorrect, Graceful, HandlesOutlive, Closed, Reported | the five invariants of `server` |

The argument is the same everywhere: a strengthening `IInv` that is inductive, one lemma or step for each
action, and PTL at the end.

* **Acceptance.** The invariants alone are not inductive: they say nothing of what a handler knows in the
  middle of a transaction. `HandlersOK` adds, per `pc`, what has been checked (the quote existed, was open
  at `at[h]`), that a handler past an index entry holds it *alone*, and that its row fits its request.
  Uniqueness then follows at `Commit`, because the holder of both entries knows that no committed row
  has them. For the refinement every step but `CreateQuote`, `Commit` and `Answer` is a stutter, and
  `Commit` is `Accept` because of `HandlersOK`. `WonByInserting` puts the two tables together: whoever holds
  an index entry of a quote knows that no conversion takes it, hence (`AcceptanceIsAtomic`) that it is not
  accepted, and that no other transaction holds the entry, which the holder of the quote's row lock would.
* **Webhooks.** A handler that has stored its inbox entry is the only one that holds it, its event is not
  recorded yet, and the row it will save is explained by the recorded webhooks *and its own*. That is
  stable although another handler overwrites the row meanwhile, since recorded webhooks only grow:
  `RowIsExplained` survives lost updates, which `StatusMovesForward` does not.
  For `SuccessesMoveForward` the invariant says that a handler past `Load` is up to date: were another handler
  past `Load` with the same conversion, both would hold the entry of the same external event or one of them
  would have been refused by the guard.
* **Settlement.** `Composition` is a refinement by projection: a step of the whole is a step or a stutter of
  each component. With it every theorem about a component holds of the whole, and `Story` needs only what
  ties them together: ledger and `conversions` name the same rows, and the ids of the outbox are the
  numbers of what was announced.
  `WholeSystem` composes further: `LifeInv` joins the invariants of the components, and `TransitionInv` of
  `WebhooksProofs` is what makes a webhook one step although its row is read and saved in two statements. The
  copy a handler holds may be stale, so that what it saves need not follow from the row it overwrites; but it
  follows, by the state machine, from *some* status the conversion had, and that is what `ConversionLife`
  allows and what the code guarantees, no more (compare `StatusMovesForward`, section 6).
* **Money and requests.** Lemmas on division give that rounding up the quotient is the least fee that covers
  the basis points (`FeeIsDue`), that `RoundBank` is nearest and even (`RoundIsNearest`) and when `Wrap` is
  the identity (`WrapFits`); `Prices` follows for the row a request inserts and rows keep their amounts.
  `Terms` needs an invariant that relates three things: rows are unique by key and by id, a conversion has
  the terms of its quote's row, and every past answer shows a row that is still there.
  `Refinement` ties the amounts to the interleavings: `Requests`, serial and with arithmetic, and `Quoting`,
  interleaved and without, implement the same `QuoteIssuing`. The offers it may issue are here the prices
  that are right; TLC cannot enumerate them, so this refinement is proved only.
* **Outbox.** A pass that is about to mark an event has delivered it; all sets only grow. The two theorems
  on poisoned events are the safety half of `PublishedUnlessNobodyCalls`: counting the rows before an event, it is
  in the list of every pass once the poisoned events and the older ones still pending are fewer than a
  batch (`PoisonIsOvertaken`, for finitely many poisoned events), and in the list of none while as many
  poisoned ones as a batch holds are older (`PoisonBlocks`). The code has no limit on attempts that would
  take such rows away. That a pass holds no more rows than it asked for (`ListFits`) is an injection of the
  list into `1..Limit` by rank.
* **Quoting.** As for acceptance, and for `RatesAnswerTheRequest` a pigeonhole argument: `IndexByQuote`
  is a partial function, the list has as many rows as the request, each at the place of its currency, so
  that no place is empty and no currency can be asked for twice. `Refinement` needs `FromMarket`, which follows a
  rate from the provider's answer through the upsert, the table, the list and the sorting into the quote: at
  every place it is an edition the provider published for that corridor.
  For the row locks `LocksOK` says that an upsert locks each row once and only rows it asked for, and that no
  two hold the same. A CreateQuote asks for one corridor, so that it holds nothing while it waits, and a
  circle needs two GetReferenceRates calls. In a circle of upserts whose rows ascend in one order, whoever
  waits for the highest row would wait for somebody who waits for a higher one: sorting the rows in
  `UpsertRates` (store.go:142-173) would make the deadlocks impossible. The code keeps the order of the
  provider's list (client.go:111), which it does not control.
* **Keyset.** `Follows` is a strict total order on rows with different ids (lemmas by cases of sort and
  order); a cursor denotes the last row of its page, and `WhereClause` selects exactly the rows that follow
  that row; the page is a prefix of what was selected, and kept rows are not before its end without being
  in a page.
* **Server.** `IInv` says which place of `run()` may hold what (`HeldIsOwned`), that each goroutine
  reports once at most (`OneReportEach`, so that the channel's two places suffice), which `cause` belongs
  to which place and which resource may be left (`CauseIsKnown`), that a server still running at the exit
  is one that nobody stopped because the other failed or the drain was overdue (`ServersStop`), that before the select nobody is served, that a request in flight has an open connection
  unless somebody cut it, and that after a signal nothing is closed before the drain is over.

**Only model-checked.** All liveness (Settled, PublishedUnlessNobodyCalls,
RequestsFinish, RetriesAreServed, StopsInTheEnd): fairness and ENABLED are beyond the prover. Every invariant and every
action property of the passing runs is proved, and so are the three refinements they check. The proofs assume of the
constants only what the named assumptions in the modules say.

## 6. What the checks found

* **`webhooks_lost_update`.** Two different webhooks of one conversion that are processed at the same time
  both read the row with a plain SELECT, and the second Save overwrites the first
  (webhooks.go:64, 172; store.go:303). A FAILED conversion becomes PROCESSING or COMPLETED, or the
  first webhook's reference is lost, although both webhooks are acknowledged and their events enqueued.
  Without failures the guards and the inbox entries let only one webhook at a time proceed, and the
  property holds (`SuccessesMoveForward`, run `webhooks`, theorem `Forward`).
* **`quoting_stale`.** An upsert of older rates that commits last replaces newer ones (store.go:162-169),
  and a complete list is never fetched again.
* **`server_metrics`.** `defer s.recordRequest(..., err)` (rpc/server.go:136, 167, 198, 228) passes the nil
  that err is when the defer statement runs: every net/rpc call is counted as a success.

Seen while modelling, without a run of their own:

* HTTP after a panic: `Recovery` is outside `ErrorHandler` (router.go:37, 45), so the error it records is
  never rendered; the call is counted as a success and `RequestContext` answers 200. A request without a
  route is counted as a client error and answered 200 with no body. With `Kind = {"http"}`,
  `ServerMetrics.cfg` violates FailuresAreReported for these reasons.
* Nothing calls `PublishOutbox`: `newUsecases` (runtime.go:179-196) does not construct it, and
  `OUTBOX_PUBLISH_BATCH` is read and unused, although README.md:12 lists outbox-style event publishing.
  Events stay pending for ever; what `OutboxPublisher` shows is of use once a caller is added.
* Where the ping inside `gorm.Open` fails (db.go:35), or `db.DB()` after it (db.go:41, runtime.go:87), the
  `sql.DB` is open and Bootstrap closes the pool and the logger only. The process exits, so that it matters
  to a caller of `Bootstrap` that tries again and to nobody today.
* When one of the two servers fails, `run()` returns without stopping the other, and over HTTP an overdue
  drain leaves the metrics server as it is. `LeavesOpenOnlyInTrouble` says that these are all the cases.
* `classifyRPCOutcome` (rpc/server.go:281) has the same classes as the HTTP and gRPC tables, but is only ever
  given nil; `ToldAndCounted` therefore compares the four tables of HTTP and gRPC and leaves it out.
* net/rpc stops without waiting for calls in flight (cmd/rpc/main.go:79-94): they may meet the closed
  database or lose their answer, which is why NobodyIsCutOff and NobodyMeetsAClosedDatabase speak of HTTP
  and gRPC only.
* HTTP refuses an amount of 0 and an unknown provider while it binds the request (fx_handler.go:50, 60-61),
  before the use case looks for the key; gRPC and net/rpc answer the retry of a served key whatever it says.
  Where both refuse, HTTP may name a validation error and the others what went wrong first. This is the
  exception in `Agree`; `TransportsAgree` says there is no other.
* `base * feeBPS` (money.go:105) overflows for amounts above 2^63 / feeBPS: the fee is then too small, down to
  the minimum, and the total (money.go:60) can wrap to a negative number. Nothing bounds the amount of a
  request; `PricedRight` shows that the fee never falls below the minimum and is exact below that bound.
* A small amount can be quoted as 0, and a rate of less than 5e-11 passes `ExchangeRate.Validate`
  (exchange_rate.go:27) but is stored as 0 in NUMERIC(20, 10): its corridor then counts as complete, is not
  fetched again, and refuses every quote.
* Quotes in a base currency other than KRW are always refused: the minimum fee is in KRW
  (runtime.go:186) and `FeeFromBPS` demands its currency. The rates fetched for such a request stay.
* A ULID in lower case passes every `validateULID` and finds no row: the client is told NotFound.
* The HTTP command returns at once when Shutdown times out or a server fails, and closes the database under
  the requests that remain; the properties name those causes as their exceptions.

## 7. Abstractions

* **PostgreSQL.** READ COMMITTED: a statement sees what is committed; uncommitted rows are seen only by
  their own transaction; unique indexes make an INSERT wait for an uncommitted entry and fail on a
  committed one; row locks are held to the end. The unique indexes of `conversions` are entered in the
  order in which the migration declares them. Foreign keys hold because the referenced rows are never
  deleted.
* **Ids and time.** ULIDs are fresh. There is one clock, which all servers read; how far it moves while a
  handler runs is free. The precision of stored timestamps is left out.
* **Provider of rates.** It answers only in corridors it was asked for, in any order, with any part of
  them. In `Quoting` amounts are reduced to whether `quote.New` accepts them; `Requests` has the arithmetic.
* **Outbox.** `publish_attempts` and the counters of telemetry are left out, no behaviour reads them.
* **Keyset.** SELECT and LIMIT of the caller are external; cursors that do not decode are left out, as they
  are refused before anything happens.
* **Settlement.** Answers to the clients of AcceptQuote are left out, nothing else reads them; who accepts and
  when is free.
* **Requests.** Serial execution (above). Timestamps, the name of the rate's provider and the status of a
  conversion are left out of rows and answers, and so are the scale and the decimal text that follow from an
  amount; expiry is a flag that time sets. A rate is a fraction, rounded as its column rounds it. A call on
  HTTP that is no JSON or has a missing field is one that the transport refuses.
* **Server.** `sql.DB.Close` does not wait for a statement that is running (it fails afterwards);
  `pgxpool.Close` waits. Requests to the metrics endpoint, clients that hang up and a second signal are
  left out. `http.Server.Shutdown` and `GracefulStop` are what their documentation says: no new
  connections, wait for requests in flight.

## 8. Not modelled

* Configuration: only its range checks matter, and they are the assumptions on constants.
* Webhook signatures: a pure comparison; webhooks in the model have passed it.
* Telemetry and logging, except for the outcome a call is counted under (`Server`).
* `SyncReferenceRates` (usecase/rates.go): nothing constructs it.
* Of the transports: CORS, clients that hang up, bodies that do not decode, and the rendering of webhook
  answers. Of the store: the copying of inbox and outbox rows, which no later answer shows.
* The empty provider packages, migrations as programs, demo traffic, test support and generated code.

## 9. Plan

1. The abstract outbox is the half of `ConversionLife` that tells and files; it is proved of `Settlement`.
   Stating it of `OutboxPublisher` alone would add nothing.
2. The lifecycle of `Server` with requests that hold transactions of `AcceptQuote` when the process is killed.
3. The copying of inbox and outbox rows in the store, beside those of quotes and conversions in `Requests`.

---------------------------- MODULE OutboxPublisher ----------------------------
(***************************************************************************)
(* PublishOutboxUsecase.Execute (internal/usecase/outbox.go) over the      *)
(* table outbox_events, run by any number of concurrent callers.  No       *)
(* transaction spans a pass: the list, each call of the broker and each    *)
(* update of a row are separate steps, and other callers' steps and        *)
(* crashes fall between them.  The counter publish_attempts is left out.    *)
(***************************************************************************)
EXTENDS Integers, FiniteSets

CONSTANTS Publisher,    \* goroutines that call PublishOutbox
          Event,        \* outbox events, numbered in the order of created_at
          Poison,       \* events the broker refuses every time
          Limit         \* the batch size, OUTBOX_PUBLISH_BATCH

\* config.Validate refuses a batch size below 1.
ASSUME ConstantsAssumption ==
    /\ Event \subseteq Nat
    /\ Poison \subseteq Event
    /\ Limit \in Nat \ {0}

VARIABLES
    enqueued,   \* ids in outbox_events
    published,  \* those with published_at set
    lastError,  \* those with last_error set
    delivered,  \* the events the broker has taken at least once
    pc,         \* the next step of each caller
    batch       \* the events each caller's pass has still to go through

table == <<enqueued, published, lastError>>
vars  == <<table, delivered, pc, batch>>

Step == {"idle", "publish", "markPublished", "markFailed"}

Pending == enqueued \ published

\* A bug: one row too many, as after a loop that stops at `<= limit'.
FirstPendingOneMore == {e \in Pending : Cardinality({f \in Pending : f < e}) <= Limit}

\* The events ListPending returns: the oldest Limit that are not published.
FirstPending == {e \in Pending : Cardinality({f \in Pending : f < e}) < Limit}

\* The pass goes through its batch in the order of created_at.
IsCurrent(p, e) == e \in batch[p] /\ \A f \in batch[p] : e <= f

--------------------------------------------------------------------------------
Init ==
    /\ enqueued = {}
    /\ published = {}
    /\ lastError = {}
    /\ delivered = {}
    /\ pc = [p \in Publisher |-> "idle"]
    /\ batch = [p \in Publisher |-> {}]

GoTo(p, s) == pc' = [pc EXCEPT ![p] = s]

\* A use case commits an event.  created_at was read before its transaction
\* began, so events appear in any order of created_at.
Enqueue(e) ==
    /\ e \notin enqueued
    /\ enqueued' = enqueued \cup {e}
    /\ UNCHANGED <<published, lastError, delivered, pc, batch>>

\* A pass begins; with nothing pending it is over at once.
ListPending(p) ==
    /\ pc[p] = "idle"
    /\ FirstPending # {}
    /\ batch' = [batch EXCEPT ![p] = FirstPending]
    /\ GoTo(p, "publish")
    /\ UNCHANGED <<table, delivered>>

\* A bug: the error of Publish is only counted, and the row marked anyway.
PublishErrorIgnored(p, e) ==
    /\ pc[p] = "publish" /\ IsCurrent(p, e)
    /\ GoTo(p, "markPublished")
    /\ UNCHANGED <<table, delivered, batch>>

\* The broker takes the event and says so.
Publish(p, e) ==
    /\ pc[p] = "publish" /\ IsCurrent(p, e)
    /\ e \notin Poison
    /\ delivered' = delivered \cup {e}
    /\ GoTo(p, "markPublished")
    /\ UNCHANGED <<table, batch>>

\* Publish returns an error, with or without the broker having the event.
PublishFails(p, e) ==
    /\ pc[p] = "publish" /\ IsCurrent(p, e)
    /\ \/ delivered' = delivered
       \/ e \notin Poison /\ delivered' = delivered \cup {e}
    /\ GoTo(p, "markFailed")
    /\ UNCHANGED <<table, batch>>

\* The loop goes on to the next event, or the pass is over.
Advance(p, e) ==
    /\ batch' = [batch EXCEPT ![p] = @ \ {e}]
    /\ GoTo(p, IF batch[p] = {e} THEN "idle" ELSE "publish")

\* UPDATE ... WHERE id = ?, whatever another pass has done to the row since.
MarkPublished(p, e) ==
    /\ pc[p] = "markPublished" /\ IsCurrent(p, e)
    /\ published' = published \cup {e}
    /\ lastError' = lastError \ {e}
    /\ Advance(p, e)
    /\ UNCHANGED <<enqueued, delivered>>

\* A bug: the row is reset, published_at included, before last_error is set.
MarkPublishFailedResets(p, e) ==
    /\ pc[p] = "markFailed" /\ IsCurrent(p, e)
    /\ published' = published \ {e}
    /\ lastError' = lastError \cup {e}
    /\ Advance(p, e)
    /\ UNCHANGED <<enqueued, delivered>>

\* A bug: Execute returns at the first event that fails, without `continue'.
MarkPublishFailedStops(p, e) ==
    /\ pc[p] = "markFailed" /\ IsCurrent(p, e)
    /\ lastError' = lastError \cup {e}
    /\ batch' = [batch EXCEPT ![p] = {}]
    /\ GoTo(p, "idle")
    /\ UNCHANGED <<enqueued, published, delivered>>

MarkPublishFailed(p, e) ==
    /\ pc[p] = "markFailed" /\ IsCurrent(p, e)
    /\ lastError' = lastError \cup {e}
    /\ Advance(p, e)
    /\ UNCHANGED <<enqueued, published, delivered>>

\* An update fails, the context is cancelled or the process dies: the rest of
\* the pass does not happen.
Abort(p) ==
    /\ pc[p] # "idle"
    /\ batch' = [batch EXCEPT ![p] = {}]
    /\ GoTo(p, "idle")
    /\ UNCHANGED <<table, delivered>>

Next ==
    \/ \E e \in Event : Enqueue(e)
    \/ \E p \in Publisher :
          \/ ListPending(p)
          \/ \E e \in Event : \/ Publish(p, e) \/ PublishFails(p, e)
                              \/ MarkPublished(p, e) \/ MarkPublishFailed(p, e)
          \/ Abort(p)

Spec == Init /\ [][Next]_vars

\* Neither the broker (but for Poison) nor the database fails on an event every
\* time it is asked.  That anybody calls Execute is not assumed.
Served(e) ==
    /\ e \notin Poison => SF_vars(\E p \in Publisher : Publish(p, e))
    /\ e \in Poison => SF_vars(\E p \in Publisher : PublishFails(p, e))
    /\ SF_vars(\E p \in Publisher : MarkPublished(p, e))
    /\ SF_vars(\E p \in Publisher : MarkPublishFailed(p, e))

FairSpec == Spec /\ \A e \in Event : Served(e)

--------------------------------------------------------------------------------
\* Every variable has its type, and no pass works on more rows than it asked for.
TypeOK ==
    /\ enqueued \subseteq Event
    /\ published \subseteq Event
    /\ lastError \subseteq Event
    /\ delivered \subseteq Event
    /\ pc \in [Publisher -> Step]
    /\ batch \in [Publisher -> SUBSET Event]
    /\ \A p \in Publisher : Cardinality(batch[p]) <= Limit

\* At least once: a row is only marked published after the broker took the
\* event, whichever pass marks it and wherever passes die, so no crash loses an
\* event; and only committed rows reach the broker.
PublishedWasDelivered == published \subseteq delivered /\ delivered \subseteq enqueued

\* A published row stays published, even when an overlapping pass that read it
\* as pending fails to publish it again.
PublishedIsFinal == [][published \subseteq published']_vars

NobodyCalls == \A p \in Publisher : pc[p] = "idle"

\* While fewer events are poisoned than a batch holds, every other event is
\* published in the end, unless there comes a time from which no pass is ever
\* called again: whatever fails, dies, overlaps or is enqueued before it, the
\* loop gets to the event.  The oldest Limit pending rows being all poisoned
\* would block the queue however often passes are called.
PublishedUnlessNobodyCalls ==
    Cardinality(Poison) < Limit =>
        \/ \A e \in Event \ Poison : e \in enqueued ~> e \in published
        \/ <>[]NobodyCalls

================================================================================

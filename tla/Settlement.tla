------------------------------- MODULE Settlement -------------------------------
(***************************************************************************)
(* The life of a conversion from the accepted quote to the broker:         *)
(* QuoteAcceptance (what AcceptQuote implements), the handlers of Webhooks *)
(* and the passes of OutboxPublisher over one database.                    *)
(*                                                                         *)
(* The tables conversions and outbox_events are where they meet.  The      *)
(* ledger of QuoteAcceptance and the variable conversions hold different   *)
(* columns of the same rows; enqueued holds the ids of all outbox rows.    *)
(***************************************************************************)
EXTENDS OutboxPublisher

CONSTANTS Key, QuoteId, ConversionId, Instant,       \* of QuoteAcceptance
          Handler, Provider, EventId, Ref, Message,  \* of Webhooks
          Numbering,  \* the orders of created_at the events may have
          None        \* SQL NULL and Go nil

VARIABLES
    offer, ledger, answers,          \* QuoteAcceptance
    conversions, inbox, announced,   \* Webhooks; announced is its outbox
    statement, msg, row, acked,      \* Webhooks; statement is its pc
    createdAt                        \* the place of each event by created_at

quoting  == <<offer, ledger, answers>>
webhooks == <<conversions, inbox, announced, statement, msg, row, acked>>
all      == <<vars, quoting, webhooks, createdAt>>

A == INSTANCE QuoteAcceptance
W == INSTANCE Webhooks WITH Conversion <- ConversionId,
                            outbox <- announced, pc <- statement

\* What is announced: that a conversion was created, and what a webhook did.
Announcement == ConversionId \cup Message

ASSUME SettlementAssumption ==
    /\ Message \subseteq W!ProviderEvent
    /\ ConversionId \cap Message = {}
    /\ Numbering \subseteq [Announcement -> Event]
    /\ \A f \in Numbering : \A x, y \in Announcement : f[x] = f[y] => x = y
    /\ None \notin Ref /\ None \notin W!Row /\ None \notin W!Topic
    /\ None \notin W!Status

--------------------------------------------------------------------------------
\* newOutboxEvent stamps an event with the instant its use case read before its
\* transaction began: the order of created_at is not the order of the commits.
\* It is chosen here once and for all, and may be any.
SettlementInit ==
    /\ Init /\ A!Init /\ W!Init
    /\ createdAt \in Numbering

\* Quotes are issued next to everything else.  Answers to the clients of
\* AcceptQuote, which nothing here reads, are left out.
Issue(q, t) == A!Issue(q, t) /\ UNCHANGED <<vars, webhooks, createdAt>>

\* A bug: the event is enqueued outside the transaction and is lost with the
\* process.
AcceptOnly(r) ==
    /\ A!Accept(r)
    /\ W!CreateConversion(r.id)
    /\ UNCHANGED <<vars, createdAt>>

\* The transaction of AcceptQuote commits the conversion and its event.
Accept(r) ==
    /\ A!Accept(r)
    /\ W!CreateConversion(r.id)
    /\ Enqueue(createdAt[r.id])
    /\ UNCHANGED createdAt

\* So does the transaction of a webhook.
Commit(h) ==
    /\ W!Commit(h)
    /\ Enqueue(createdAt[msg[h]])
    /\ UNCHANGED <<quoting, createdAt>>

\* Every other step of a webhook leaves the outbox alone.
Webhook(h) ==
    /\ \/ \E m \in Message : W!Deliver(h, m)
       \/ W!StoreIfAbsent(h) \/ W!Load(h) \/ W!UpdateConversion(h)
       \/ W!Enqueue(h) \/ W!Reload(h) \/ W!Ack(h) \/ W!Abandon(h)
    /\ UNCHANGED <<vars, quoting, createdAt>>

\* A publisher sees nothing but the outbox.
Proceed(p) ==
    \E e \in Event : \/ Publish(p, e) \/ PublishFails(p, e)
                     \/ MarkPublished(p, e) \/ MarkPublishFailed(p, e)
Pass(p) ==
    /\ ListPending(p) \/ Proceed(p) \/ Abort(p)
    /\ UNCHANGED <<quoting, webhooks, createdAt>>

SettlementNext ==
    \/ \E q \in QuoteId, t \in Instant : Issue(q, t)
    \/ \E r \in A!Conversion : Accept(r)
    \/ \E h \in Handler : Commit(h) \/ Webhook(h)
    \/ \E p \in Publisher : Pass(p)

SettlementSpec == SettlementInit /\ [][SettlementNext]_all

\* Running handlers keep executing; a provider delivers a webhook again until it
\* is acknowledged, and from some time on its attempts are not cut short.
Delivered(m) ==
    /\ SF_webhooks(m \notin acked /\ \E h \in Handler : W!Deliver(h, m))
    /\ <>[][\A h \in Handler : msg[h] = m /\ m \notin acked => ~W!Abandon(h)]_webhooks

FairSettlement ==
    /\ SettlementSpec
    /\ \A h \in Handler : SF_webhooks(W!Handle(h))
    /\ \A m \in Message : Delivered(m)

--------------------------------------------------------------------------------
\* What consumers can rely on, in whatever order they receive events and
\* wherever processes die: the outbox holds exactly the events of conversions
\* that exist and of webhooks that took effect; conversions exist by an accepted
\* quote alone, and webhooks only took effect on those.
OutboxTellsTheStory ==
    LET stored == {c \in ConversionId : conversions[c] # None} IN
    /\ enqueued = {createdAt[x] : x \in stored \cup inbox}
    /\ stored = {r.id : r \in ledger}
    /\ {m.conversion : m \in inbox} \subseteq stored

\* What clients and consumers see of the tables and of the broker.
SeenStatus == [c \in ConversionId |->
                  IF conversions[c] = None THEN None ELSE conversions[c].status]
Among(events) == {x \in Announcement : createdAt[x] \in events}

Life == INSTANCE ConversionLife WITH
    Conversion <- ConversionId, status <- SeenStatus, effects <- inbox,
    told <- Among(delivered), filed <- Among(published)

\* Handlers, publishers, crashes and the order of created_at together do nothing
\* that ConversionLife does not do: the status of a conversion is the outcome of
\* the last webhook that took effect on it, each external event takes effect
\* once, none completes a transfer that was not paid for, and the broker is told
\* of all that happened and nothing else before the outbox forgets it.
ImplementsLife == Life!Spec

\* From the acceptance to the end: a conversion that is paid and transferred gets
\* to COMPLETED, though webhooks overtake each other and the commit that creates
\* the conversion, are refused and delivered again, and handlers die at any
\* statement.
Settled ==
    \A c \in {d \in ConversionId : W!HappyPath(d)} :
        c \in {r.id : r \in ledger} ~>
            conversions[c] # None /\ conversions[c].status = "COMPLETED"

================================================================================

------------------------- MODULE OutboxPublisherProofs -------------------------
(***************************************************************************)
(* Proofs about OutboxPublisher, for every set of callers, every set of    *)
(* events and every batch size.                                            *)
(***************************************************************************)
EXTENDS OutboxPublisher, TLAPS, FiniteSetTheorems

\* A pass works on rows that were committed, however stale its list is, and
\* only marks as published what the broker took.
PassOK(p) ==
    /\ batch[p] \subseteq enqueued
    /\ IsFiniteSet(batch[p])
    /\ pc[p] = "markPublished" =>
          \A e \in Event : IsCurrent(p, e) => e \in delivered

IInv == TypeOK /\ PublishedWasDelivered /\ \A p \in Publisher : PassOK(p)

\* A pass is at one event at a time.
LEMMA OneCurrent ==
    ASSUME TypeOK, NEW p \in Publisher, NEW e \in Event, NEW f \in Event,
           IsCurrent(p, e), IsCurrent(p, f)
    PROVE  e = f
BY ConstantsAssumption DEF TypeOK, IsCurrent

\* Older events are finitely many, being numbered from 0.
LEMMA OlderFinite ==
    ASSUME NEW e \in Event, NEW S, S \subseteq Event
    PROVE  /\ IsFiniteSet({f \in S : f < e})
           /\ Cardinality({f \in S : f < e}) \in Nat
<1> DEFINE Older == {f \in S : f < e}
<1>1. Event \subseteq Nat
  BY ConstantsAssumption
<1>2. ASSUME NEW f \in Older PROVE f \in 0..e
  <2>1. f \in Nat /\ e \in Nat /\ f < e
    BY <1>1
  <2> QED
    BY <2>1
<1>3. IsFiniteSet(0..e)
  <2>1. e \in Int
    BY <1>1
  <2> QED
    BY <2>1, FS_Interval
<1> HIDE DEF Older
<1>4. IsFiniteSet(Older)
  BY <1>2, <1>3, FS_Subset
<1>5. Cardinality(Older) \in Nat
  BY <1>4, FS_CardinalityType
<1> QED
  BY <1>4, <1>5 DEF Older

\* ListPending returns finitely many rows, and no more than it was asked for: a
\* listed row is told from the others by how many pending rows are older, which
\* is one of the numbers below Limit.
LEMMA ListFits ==
    ASSUME Pending \subseteq Event
    PROVE  IsFiniteSet(FirstPending) /\ Cardinality(FirstPending) <= Limit
<1> DEFINE Older(e) == {f \in Pending : f < e}
           rank == [e \in FirstPending |-> Cardinality(Older(e))]
<1>1. FirstPending \subseteq Pending /\ Event \subseteq Nat /\ Limit \in Nat \ {0}
  BY ConstantsAssumption DEF FirstPending
<1>2. ASSUME NEW e \in FirstPending
      PROVE  IsFiniteSet(Older(e)) /\ Cardinality(Older(e)) \in 0..(Limit - 1)
  <2>1. IsFiniteSet(Older(e)) /\ Cardinality(Older(e)) \in Nat
    BY <1>1, OlderFinite
  <2>2. Cardinality(Older(e)) < Limit
    BY DEF FirstPending
  <2> QED
    BY <1>1, <2>1, <2>2
<1>3. ASSUME NEW e \in FirstPending, NEW f \in FirstPending, e < f
      PROVE  Cardinality(Older(e)) < Cardinality(Older(f))
  <2>1. Older(e) \cup {e} \subseteq Older(f) /\ e \notin Older(e)
    <3>1. e \in Pending /\ e \in Nat /\ f \in Nat /\ Pending \subseteq Nat
      BY <1>1
    <3>2. \A g \in Pending : g < e => g < f
      BY <1>3, <3>1
    <3>3. ~(e < e)
      BY <3>1
    <3> QED
      BY <1>3, <3>1, <3>2, <3>3
  <2> HIDE DEF Older
  <2>2. /\ IsFiniteSet(Older(e) \cup {e})
        /\ Cardinality(Older(e) \cup {e}) = Cardinality(Older(e)) + 1
    BY <1>2, <2>1, FS_AddElement
  <2>3. Cardinality(Older(e) \cup {e}) <= Cardinality(Older(f))
    BY <1>2, <2>1, FS_Subset
  <2> QED
    BY <1>2, <2>2, <2>3
<1>4. rank \in Injection(FirstPending, 0..(Limit - 1))
  <2> HIDE DEF Older
  <2>1. rank \in [FirstPending -> 0..(Limit - 1)]
    BY <1>2
  <2>2. ASSUME NEW e \in FirstPending, NEW f \in FirstPending, rank[e] = rank[f]
        PROVE  e = f
    <3>1. Cardinality(Older(e)) = Cardinality(Older(f))
          /\ Cardinality(Older(e)) \in Nat
      BY <1>2, <2>2
    <3>2. ~(e < f) /\ ~(f < e)
      BY <1>3, <3>1
    <3> QED
      BY <1>1, <3>2
  <2> QED
    BY <2>1, <2>2 DEF Injection, IsInjective
<1> HIDE DEF rank
<1>5. IsFiniteSet(0..(Limit - 1)) /\ Cardinality(0..(Limit - 1)) = Limit
  <2>1. 0 \in Int /\ Limit - 1 \in Int /\ ~(0 > Limit - 1)
    BY <1>1
  <2> QED
    BY <1>1, <2>1, FS_Interval
<1> QED
  BY <1>4, <1>5, FS_Injection

\* An empty table and idle callers satisfy the invariant.
LEMMA InitOK == Init => IInv
BY FS_EmptySet, ConstantsAssumption DEF Init, IInv, TypeOK, PublishedWasDelivered, PassOK, Step, IsCurrent

\* A committed event joins no running pass.
LEMMA EnqueueOK == ASSUME IInv, NEW e \in Event, Enqueue(e) PROVE IInv'
BY DEF IInv, Enqueue, TypeOK, PublishedWasDelivered, PassOK, IsCurrent

\* A pass starts with rows that are committed.
LEMMA ListPendingOK == ASSUME IInv, NEW p \in Publisher, ListPending(p) PROVE IInv'
<1>1. /\ FirstPending \subseteq enqueued /\ FirstPending \subseteq Event
      /\ IsFiniteSet(FirstPending) /\ Cardinality(FirstPending) <= Limit
  <2>1. Pending \subseteq Event
    BY DEF IInv, TypeOK, Pending
  <2> QED
    BY <2>1, ListFits DEF FirstPending, Pending
<1>2. TypeOK' /\ PublishedWasDelivered'
  BY <1>1 DEF IInv, ListPending, GoTo, table, TypeOK, Step, PublishedWasDelivered
<1>3. \A q \in Publisher : PassOK(q)'
  BY <1>1 DEF IInv, ListPending, GoTo, table, TypeOK, PassOK, IsCurrent
<1> QED
  BY <1>2, <1>3 DEF IInv

\* What is about to be marked published has been delivered.
LEMMA PublishOK ==
    ASSUME IInv, NEW p \in Publisher, NEW e \in Event, Publish(p, e) PROVE IInv'
<1>1. TypeOK' /\ PublishedWasDelivered'
  BY DEF IInv, Publish, GoTo, table, TypeOK, Step, PublishedWasDelivered, PassOK, IsCurrent
<1>2. \A q \in Publisher : PassOK(q)'
  BY OneCurrent DEF IInv, Publish, GoTo, table, TypeOK, PassOK, IsCurrent
<1> QED
  BY <1>1, <1>2 DEF IInv

\* A failed call marks nothing as published.
LEMMA PublishFailsOK ==
    ASSUME IInv, NEW p \in Publisher, NEW e \in Event, PublishFails(p, e) PROVE IInv'
<1>1. TypeOK' /\ PublishedWasDelivered'
  BY DEF IInv, PublishFails, GoTo, table, TypeOK, Step, PublishedWasDelivered, PassOK,
         IsCurrent
<1>2. \A q \in Publisher : PassOK(q)'
  BY DEF IInv, PublishFails, GoTo, table, TypeOK, PassOK, IsCurrent
<1> QED
  BY <1>1, <1>2 DEF IInv

\* Marking concerns the current event only, whatever other passes did to it.
LEMMA MarkOK ==
    ASSUME IInv, NEW p \in Publisher, NEW e \in Event,
           MarkPublished(p, e) \/ MarkPublishFailed(p, e)
    PROVE  IInv'
<1>0. IsFiniteSet(batch[p] \ {e}) /\ Cardinality(batch[p] \ {e}) <= Limit
  <2>1. IsFiniteSet(batch[p]) /\ Cardinality(batch[p]) <= Limit
    BY DEF IInv, TypeOK, PassOK
  <2>2. Cardinality(batch[p]) \in Nat
    BY <2>1, FS_CardinalityType
  <2>3. /\ IsFiniteSet(batch[p] \ {e})
        /\ Cardinality(batch[p] \ {e}) \in {Cardinality(batch[p]), Cardinality(batch[p]) - 1}
    BY <2>1, FS_RemoveElement
  <2> QED
    BY <2>1, <2>2, <2>3, ConstantsAssumption
<1>1. TypeOK' /\ PublishedWasDelivered'
  BY <1>0 DEF IInv, MarkPublished, MarkPublishFailed, Advance, GoTo, TypeOK, Step,
         PublishedWasDelivered, PassOK
<1>2. \A q \in Publisher : PassOK(q)'
  BY <1>0 DEF IInv, MarkPublished, MarkPublishFailed, Advance, GoTo, TypeOK, PassOK, IsCurrent
<1> QED
  BY <1>1, <1>2 DEF IInv

\* A pass that dies leaves the table as it is.
LEMMA AbortOK == ASSUME IInv, NEW p \in Publisher, Abort(p) PROVE IInv'
BY FS_EmptySet, ConstantsAssumption DEF IInv, Abort, GoTo, table, TypeOK, Step, PublishedWasDelivered, PassOK, IsCurrent

\* Every step preserves the invariant.
LEMMA NextOK == IInv /\ [Next]_vars => IInv'
<1>1. IInv /\ UNCHANGED vars => IInv'
  BY DEF vars, table, IInv, TypeOK, PublishedWasDelivered, PassOK, IsCurrent
<1> QED
  BY <1>1, EnqueueOK, ListPendingOK, PublishOK, PublishFailsOK, MarkOK, AbortOK DEF Next

\* The invariant holds in every reachable state.
LEMMA InvariantHolds == Spec => []IInv
BY InitOK, NextOK, PTL DEF Spec

--------------------------------------------------------------------------------
\* Every variable keeps its type in every reachable state.
THEOREM TypeCorrect == Spec => []TypeOK
BY InvariantHolds, PTL DEF IInv

\* Delivery is at least once: whatever overlaps and dies, no row is marked
\* published that the broker has not taken.
THEOREM AtLeastOnce == Spec => []PublishedWasDelivered
BY InvariantHolds, PTL DEF IInv

\* No step of any pass takes back a published row.
THEOREM FinalOnceDone == Spec => PublishedIsFinal
<1>1. [Next]_vars => [published \subseteq published']_vars
  BY DEF Next, vars, table, Enqueue, ListPending, Publish, PublishFails,
         MarkPublished, MarkPublishFailed, Abort
<1> QED
  BY <1>1, PTL DEF Spec, PublishedIsFinal

--------------------------------------------------------------------------------
(***************************************************************************)
(* How far poisoned events hold up the others.                             *)
(***************************************************************************)

\* Nothing poisoned is ever delivered or published.
LEMMA PoisonStays == Spec => [](delivered \cap Poison = {})
<1>1. Init => delivered \cap Poison = {}
  BY DEF Init
<1>2. delivered \cap Poison = {} /\ [Next]_vars => (delivered \cap Poison = {})'
  BY DEF Next, vars, table, Enqueue, ListPending, Publish, PublishFails,
         MarkPublished, MarkPublishFailed, Abort
<1> QED
  BY <1>1, <1>2, PTL DEF Spec

\* A batch has room for what is not poisoned.
LEMMA ListedInSpite ==
    ASSUME IsFiniteSet(Poison), TypeOK, NEW e \in Pending,
           Cardinality({f \in Pending \ Poison : f < e}) + Cardinality(Poison) < Limit
    PROVE  e \in FirstPending
<1> DEFINE Older == {f \in Pending : f < e}
           Others == {f \in Pending \ Poison : f < e}
<1>1. Pending \subseteq Event /\ e \in Event
  BY DEF TypeOK, Pending
<1>2. IsFiniteSet(Others) /\ Cardinality(Others) \in Nat
  BY <1>1, OlderFinite
<1>3. Cardinality(Poison) \in Nat
  BY FS_CardinalityType
<1>4. Older \subseteq Others \cup Poison
  OBVIOUS
<1> HIDE DEF Others, Older
<1>5. IsFiniteSet(Others \cup Poison)
      /\ Cardinality(Others \cup Poison) <= Cardinality(Others) + Cardinality(Poison)
  <2>1. IsFiniteSet(Others \cap Poison) /\ Cardinality(Others \cap Poison) \in Nat
    BY <1>2, FS_Intersection, FS_CardinalityType
  <2>2. Cardinality(Others \cup Poison) =
          Cardinality(Others) + Cardinality(Poison) - Cardinality(Others \cap Poison)
    BY <1>2, FS_Union
  <2> QED
    BY <1>2, <1>3, <2>1, <2>2, FS_Union
<1>6. Cardinality(Older) \in Nat
  BY <1>1, OlderFinite DEF Older
<1>7. Cardinality(Older) <= Cardinality(Others \cup Poison)
      /\ Cardinality(Others \cup Poison) \in Nat
  BY <1>4, <1>5, FS_Subset, FS_CardinalityType
<1>8. Cardinality(Others) + Cardinality(Poison) < Limit
  BY DEF Others
<1>9. Cardinality(Older) < Limit
  BY <1>2, <1>3, <1>5, <1>6, <1>7, <1>8, ConstantsAssumption
<1> QED
  BY <1>9 DEF FirstPending, Older

\* Fewer poisoned events than a batch holds never keep an event out of the lists
\* for good: as soon as few enough others are before it, every pass lists it.
THEOREM PoisonIsOvertaken ==
    ASSUME IsFiniteSet(Poison), NEW e \in Event
    PROVE  Spec => [](e \in Pending
                      /\ Cardinality({f \in Pending \ Poison : f < e})
                           + Cardinality(Poison) < Limit
                        => e \in FirstPending)
<1>1. TypeOK => (e \in Pending
                  /\ Cardinality({f \in Pending \ Poison : f < e})
                       + Cardinality(Poison) < Limit
                    => e \in FirstPending)
  BY ListedInSpite
<1> QED
  BY <1>1, TypeCorrect, PTL

\* And no more than that is true: once Limit poisoned rows are older than an
\* event, no pass lists it, however often passes run and rows fail.
THEOREM PoisonBlocks ==
    ASSUME NEW e \in Event
    PROVE  Spec => [](Cardinality({f \in enqueued \cap Poison : f < e}) >= Limit
                        => e \notin FirstPending)
<1>1. TypeOK /\ PublishedWasDelivered /\ delivered \cap Poison = {} =>
        (Cardinality({f \in enqueued \cap Poison : f < e}) >= Limit
            => e \notin FirstPending)
  <2> SUFFICES ASSUME TypeOK, PublishedWasDelivered, delivered \cap Poison = {},
                      Cardinality({f \in enqueued \cap Poison : f < e}) >= Limit
               PROVE  e \notin FirstPending
    OBVIOUS
  <2> DEFINE Blocking == {f \in enqueued \cap Poison : f < e}
             Older == {f \in Pending : f < e}
  <2>1. Blocking \subseteq Older
    BY DEF PublishedWasDelivered, Pending
  <2>2. /\ IsFiniteSet(Older) /\ Cardinality(Older) \in Nat
        /\ Cardinality(Blocking) \in Nat
    BY OlderFinite DEF TypeOK, Pending
  <2>3. Cardinality(Blocking) <= Cardinality(Older)
    BY <2>1, <2>2, FS_Subset
  <2>4. ~(Cardinality(Older) < Limit)
    BY <2>2, <2>3, ConstantsAssumption
  <2> QED
    BY <2>4 DEF FirstPending
<1> QED
  BY <1>1, InvariantHolds, PoisonStays, PTL DEF IInv

================================================================================

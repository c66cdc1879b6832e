----------------------------- MODULE QuotingProofs -----------------------------
(***************************************************************************)
(* Proofs about Quoting, for every set of handlers, keys, currencies and   *)
(* requests and every number of editions of the market data.               *)
(***************************************************************************)
EXTENDS Quoting, TLAPS, FiniteSetTheorems

--------------------------------------------------------------------------------
(***************************************************************************)
(* A complete list of rates, put into the order of the request, has one    *)
(* rate for every currency asked for.  SortRates could leave a place empty *)
(* or lose a rate; that it does not is a pigeonhole argument, which needs  *)
(* that the SELECT returned as many rows as the request has places.        *)
(***************************************************************************)

\* A currency a request names has a last occurrence.
LEMMA LastOccurrence ==
    ASSUME NEW asked \in Seq(Currency), NEW c,
           \E i \in DOMAIN asked : asked[i] = c
    PROVE  /\ IndexByQuote(c, asked) \in DOMAIN asked
           /\ asked[IndexByQuote(c, asked)] = c
<1> DEFINE n == Len(asked)
           Tails == {i..n : i \in {j \in 1..n : asked[j] = c}}
<1>1. n \in Nat /\ DOMAIN asked = 1..n
  OBVIOUS
<1>2. Tails \subseteq SUBSET (1..n) /\ Tails # {}
  BY <1>1
<1>3. IsFiniteSet(1..n)
  BY <1>1, FS_Interval
<1>4. PICK t \in Tails : \A s \in Tails : <<s, t>> \notin StrictSubsetOrdering(1..n)
  <2>1. IsWellFoundedOn(StrictSubsetOrdering(1..n), SUBSET (1..n))
    BY <1>3, FS_StrictSubsetOrderingWellFounded, FS_FiniteSubsetsOfFinite
  <2> QED
    BY <1>2, <2>1, WFMin
<1>5. PICK i \in 1..n : t = i..n /\ asked[i] = c
  BY <1>4
<1>6. ASSUME NEW j \in 1..n, asked[j] = c PROVE j <= i
  <2> SUFFICES ASSUME i < j PROVE FALSE
    BY <1>1
  <2>1. j..n \in Tails
    BY <1>6
  <2>2. j..n \subseteq i..n /\ i \in i..n /\ i \notin j..n
    BY <1>1
  <2>3. <<j..n, t>> \in StrictSubsetOrdering(1..n)
    BY <1>1, <1>5, <2>2 DEF StrictSubsetOrdering
  <2> QED
    BY <1>4, <2>1, <2>3
<1> QED
  BY <1>1, <1>5, <1>6 DEF IndexByQuote

\* The currencies of a request are finitely many.
LEMMA AskedFinite ==
    ASSUME NEW asked \in Seq(Currency), NEW S,
           S \subseteq {asked[i] : i \in DOMAIN asked}
    PROVE  IsFiniteSet(S) /\ Cardinality(S) \in Nat
<1> DEFINE All == {asked[i] : i \in DOMAIN asked}
           f == [i \in 1..Len(asked) |-> asked[i]]
<1>1. f \in Surjection(1..Len(asked), All)
  BY DEF Surjection
<1>2. IsFiniteSet(1..Len(asked))
  BY FS_Interval
<1>3. IsFiniteSet(All)
  BY <1>1, <1>2, FS_Surjection
<1> QED
  BY <1>3, FS_Subset, FS_CardinalityType

\* s answers the request r: a rate for every currency, in the order asked for.
InOrder(s, r) ==
    /\ s \in Seq(Rate)
    /\ Len(s) = Len(r.quotes)
    /\ \A i \in DOMAIN s : s[i].base = r.base /\ s[i].quote = r.quotes[i]

\* A complete list is answered whole and in the order of the request, with rates
\* of the list, for every number of currencies (sortRates of common.go).
THEOREM CompleteInOrder ==
    ASSUME NEW r \in Call, stored \in [Corridor -> Edition \cup {None}], Complete(r)
    PROVE  LET s == SortRates(Listed(r), r.quotes) IN
           InOrder(s, r) /\ \A i \in DOMAIN s : s[i] \in Listed(r)
<1> DEFINE D == 1..Len(r.quotes)
           L == Listed(r)
           index == [x \in L |-> IndexByQuote(x.quote, r.quotes)]
<1>1. r.quotes \in Seq(Currency) /\ r.base \in Currency /\ DOMAIN r.quotes = D
  BY ConstantsAssumption DEF Request
<1>2. IsFiniteSet(D) /\ Cardinality(D) = Len(r.quotes) /\ Len(r.quotes) \in Nat
  BY <1>1, FS_Interval
<1>3. \A x \in L : /\ x \in Rate /\ x.base = r.base
                   /\ \E i \in DOMAIN r.quotes : r.quotes[i] = x.quote
                   /\ x = [base |-> r.base, quote |-> x.quote,
                           edition |-> stored[<<r.base, x.quote>>]]
  <2> TAKE x \in L
  <2>1. PICK c \in Currency :
            /\ \E i \in DOMAIN r.quotes : r.quotes[i] = c
            /\ stored[<<r.base, c>>] # None
            /\ x = [base |-> r.base, quote |-> c, edition |-> stored[<<r.base, c>>]]
    BY DEF Listed
  <2>2. stored[<<r.base, c>>] \in Edition
    BY <1>1, <2>1 DEF Corridor
  <2> QED
    BY <1>1, <2>1, <2>2 DEF Rate
<1>4. \A x \in L : index[x] \in D /\ r.quotes[index[x]] = x.quote
  BY <1>1, <1>3, LastOccurrence
<1>5. \A x, y \in L : x.quote = y.quote => x = y
  BY <1>3
<1>6. index \in Injection(L, D)
  <2>1. index \in [L -> D]
    BY <1>4
  <2>2. \A x, y \in L : index[x] = index[y] => x = y
    BY <1>4, <1>5
  <2> QED
    BY <2>1, <2>2 DEF Injection, IsInjective
<1>7. index \in Surjection(L, D) /\ Cardinality(L) = Len(r.quotes)
  BY <1>2, <1>6, FS_Injection DEF Complete
<1>8. ASSUME NEW i \in D
      PROVE  /\ SortRates(L, r.quotes)[i] \in L
             /\ SortRates(L, r.quotes)[i].quote = r.quotes[i]
  <2> DEFINE here == {x \in L : IndexByQuote(x.quote, r.quotes) = i}
  <2>1. here # {}
    BY <1>7 DEF Surjection
  <2>2. SortRates(L, r.quotes)[i] = CHOOSE x \in here : TRUE
    BY <1>7, <2>1 DEF SortRates
  <2>3. SortRates(L, r.quotes)[i] \in here
    BY <2>1, <2>2
  <2> QED
    BY <1>4, <2>3
<1>9. SortRates(L, r.quotes) \in [D -> Rate]
  <2>1. SortRates(L, r.quotes) = [i \in D |-> SortRates(L, r.quotes)[i]]
    BY <1>7 DEF SortRates
  <2> QED
    BY <1>3, <1>8, <2>1
<1> DEFINE s == SortRates(L, r.quotes)
<1>10. /\ s \in [D -> Rate] /\ \A i \in D : s[i] \in L
       /\ \A i \in D : s[i].base = r.base /\ s[i].quote = r.quotes[i]
  BY <1>3, <1>8, <1>9
<1> HIDE DEF s
<1>11. s \in Seq(Rate) /\ Len(s) = Len(r.quotes)
  BY <1>2, <1>10
<1>12. InOrder(s, r) /\ \A i \in DOMAIN s : s[i] \in L
  BY <1>2, <1>10, <1>11 DEF InOrder
<1> QED
  BY <1>12 DEF s
--------------------------------------------------------------------------------
\* What a handler's locals hold at each statement.
LocalsOK(h) ==
    /\ pc[h] # "idle" => req[h] \in Call
    /\ pc[h] \in {"find", "new", "insert", "commit"} => req[h].key \in Key
    /\ pc[h] = "upsert" => todo[h].edition \in Edition
    /\ pc[h] = "refuse" => error[h] \in Error

\* A quote not yet committed is the request's, and its id is nobody else's.
QuoteOK(h) ==
    HasQuote(h) =>
        /\ created[h] \in Quote
        /\ created[h].key = req[h].key
        /\ \A q \in quotes : q.id # created[h].id
        /\ \A g \in Handler \ {h} : HasQuote(g) => created[g].id # created[h].id

\* An index entry excludes committed rows and the other open transactions.
EntryOK(h) == HoldsKey(h) => ~KeyTaken(req[h].key) /\ ~KeyBusy(h)

\* A quote about to be answered is stored under the request's key.
AnswerOK(h) ==
    pc[h] = "answer" /\ req[h].key # None =>
        created[h] \in quotes /\ created[h].key = req[h].key

\* Rates about to be used or answered are in the order of the request.
RatesOK(h) ==
    pc[h] = "new" \/ (pc[h] = "answer" /\ req[h].key = None) =>
        InOrder(rates[h], req[h])

HandlersOK ==
    \A h \in Handler : LocalsOK(h) /\ QuoteOK(h) /\ EntryOK(h) /\ AnswerOK(h)

IInv ==
    /\ TypeOK
    /\ OneQuotePerKey
    /\ AnswersAgree
    /\ ConflictMeansServed
    /\ HandlersOK
    /\ \A h \in Handler : RatesOK(h)

--------------------------------------------------------------------------------
(***************************************************************************)
(* IInv is inductive: the initial state satisfies it, and each action, in  *)
(* a lemma of its own, preserves it.                                       *)
(***************************************************************************)

USE DEF GoTo, Refuse, Forget, local, HasQuote, HoldsKey, KeyTaken

\* The empty database with idle handlers satisfies the invariant.
LEMMA InitOK == Init => IInv
<1> SUFFICES ASSUME Init PROVE IInv
  OBVIOUS
<1>1. TypeOK
  BY ConstantsAssumption DEF Init, TypeOK, Step, Edition, Work, NoWork
<1>2. OneQuotePerKey /\ AnswersAgree /\ ConflictMeansServed
  BY DEF Init, OneQuotePerKey, AnswersAgree, ConflictMeansServed
<1>3. HandlersOK /\ \A h \in Handler : RatesOK(h)
  BY DEF Init, HandlersOK, LocalsOK, QuoteOK, EntryOK, AnswerOK, RatesOK
<1> QED
  BY <1>1, <1>2, <1>3 DEF IInv

\* The market is read by nobody's invariant.
LEMMA PublishEditionOK ==
    ASSUME IInv, PublishEdition PROVE IInv'
<1>1. TypeOK'
  BY ConstantsAssumption DEF IInv, PublishEdition, TypeOK, Step, Edition
<1>2. OneQuotePerKey' /\ AnswersAgree'
  BY DEF IInv, PublishEdition, OneQuotePerKey, AnswersAgree
<1>3. ConflictMeansServed'
  BY DEF IInv, PublishEdition, ConflictMeansServed, TypeOK
<1>4. HandlersOK'
  BY DEF IInv, PublishEdition, HandlersOK, LocalsOK, QuoteOK, EntryOK, KeyBusy,
       AnswerOK, TypeOK
<1>5. \A g \in Handler : RatesOK(g)'
  BY DEF IInv, PublishEdition, RatesOK, TypeOK
<1> QED
  BY <1>1, <1>2, <1>3, <1>4, <1>5 DEF IInv

\* A request starts with nothing done.
LEMMA ReceiveOK ==
    ASSUME IInv, NEW h \in Handler, NEW r \in Call, Receive(h, r) PROVE IInv'
<1>1. TypeOK'
  BY DEF IInv, Receive, TypeOK, Step
<1>2. OneQuotePerKey' /\ AnswersAgree'
  BY DEF IInv, Receive, OneQuotePerKey, AnswersAgree
<1>3. ConflictMeansServed'
  BY DEF IInv, Receive, ConflictMeansServed, TypeOK
<1>4. HandlersOK'
  BY ConstantsAssumption DEF IInv, Receive, HandlersOK, LocalsOK, QuoteOK, EntryOK,
       KeyBusy, AnswerOK, TypeOK, Request
<1>5. \A g \in Handler : RatesOK(g)'
  BY DEF IInv, Receive, RatesOK, TypeOK
<1> QED
  BY <1>1, <1>2, <1>3, <1>4, <1>5 DEF IInv

\* An existing quote is answered from the table.
LEMMA FindExistingOK ==
    ASSUME IInv, NEW h \in Handler, FindExisting(h) PROVE IInv'
<1>1. TypeOK'
  BY DEF IInv, FindExisting, TypeOK, Step, Quote
<1>2. OneQuotePerKey' /\ AnswersAgree'
  BY DEF IInv, FindExisting, OneQuotePerKey, AnswersAgree
<1>3. ConflictMeansServed'
  BY DEF IInv, FindExisting, ConflictMeansServed, TypeOK
<1>4. HandlersOK'
  <2>1. \A g \in Handler : LocalsOK(g)'
    BY ConstantsAssumption DEF IInv, FindExisting, TypeOK, HandlersOK, LocalsOK, Step
  <2>2. \A g \in Handler : QuoteOK(g)'
    <3>1. \A g \in Handler : HasQuote(g)' => /\ g # h /\ HasQuote(g)
                                            /\ created'[g] = created[g]
      BY DEF IInv, FindExisting, TypeOK
    <3>2. quotes' = quotes /\ req' = req
      BY DEF FindExisting
    <3> QED
      BY <3>1, <3>2 DEF IInv, HandlersOK, QuoteOK
  <2>3. \A g \in Handler : EntryOK(g)'
    BY ConstantsAssumption DEF IInv, FindExisting, TypeOK, HandlersOK, LocalsOK, EntryOK, KeyBusy
  <2>4. \A g \in Handler : AnswerOK(g)'
    BY ConstantsAssumption DEF IInv, FindExisting, TypeOK, HandlersOK, LocalsOK, AnswerOK, Quote
  <2> QED
    BY <2>1, <2>2, <2>3, <2>4 DEF HandlersOK
<1>5. \A g \in Handler : RatesOK(g)'
  BY ConstantsAssumption DEF IInv, FindExisting, RatesOK, TypeOK, HandlersOK,
       LocalsOK, Quote
<1> QED
  BY <1>1, <1>2, <1>3, <1>4, <1>5 DEF IInv

\* A complete list is put into the order of the request.
LEMMA ListRatesOK ==
    ASSUME IInv, NEW h \in Handler, ListRates(h) PROVE IInv'
<1>0. /\ req[h] \in Call
      /\ Complete(req[h]) => InOrder(SortRates(Listed(req[h]), req[h].quotes), req[h])
  BY CompleteInOrder DEF ListRates, IInv, TypeOK, HandlersOK, LocalsOK
<1>1. TypeOK'
  BY <1>0 DEF IInv, ListRates, TypeOK, Step, Error, InOrder
<1>2. OneQuotePerKey' /\ AnswersAgree'
  BY DEF IInv, ListRates, OneQuotePerKey, AnswersAgree
<1>3. ConflictMeansServed'
  BY DEF IInv, ListRates, ConflictMeansServed, TypeOK
<1>4. HandlersOK'
  BY <1>0, ConstantsAssumption DEF IInv, ListRates, HandlersOK, LocalsOK, QuoteOK,
       EntryOK, KeyBusy, AnswerOK, TypeOK, Error, Request
<1>5. \A g \in Handler : RatesOK(g)'
  BY <1>0 DEF IInv, ListRates, RatesOK, TypeOK
<1> QED
  BY <1>1, <1>2, <1>3, <1>4, <1>5 DEF IInv

\* An answer of the provider lists finitely many of the currencies.
LEMMA FetchRatesOK ==
    ASSUME IInv, NEW h \in Handler, FetchRates(h) PROVE IInv'
<1>1. TypeOK'
  <2>1. req[h].quotes \in Seq(Currency)
    BY ConstantsAssumption DEF IInv, TypeOK, FetchRates, HandlersOK, LocalsOK,
         Request
  <2>2. PICK S \in SUBSET {req[h].quotes[i] : i \in DOMAIN req[h].quotes} :
        \E rows \in [1..Cardinality(S) -> S] :
            /\ todo' = [todo EXCEPT ![h] =
                           [rows |-> rows, done |-> 0, edition |-> market]]
            /\ pc' = [pc EXCEPT ![h] = IF S = {} THEN "list" ELSE "upsert"]
    BY DEF FetchRates
  <2>3. Cardinality(S) \in Nat /\ S \subseteq Currency
    BY <2>1, AskedFinite
  <2>4. \A rows \in [1..Cardinality(S) -> S] : rows \in Seq(Currency)
    BY <2>3
  <2> QED
    BY <2>2, <2>4 DEF IInv, FetchRates, TypeOK, Step, Work
<1>2. OneQuotePerKey' /\ AnswersAgree'
  BY DEF IInv, FetchRates, OneQuotePerKey, AnswersAgree
<1>3. ConflictMeansServed'
  BY DEF IInv, FetchRates, ConflictMeansServed, TypeOK
<1>4. HandlersOK'
  BY DEF IInv, FetchRates, HandlersOK, LocalsOK, QuoteOK, EntryOK, KeyBusy,
       AnswerOK, TypeOK, Work
<1>5. \A g \in Handler : RatesOK(g)'
  BY DEF IInv, FetchRates, RatesOK, TypeOK
<1> QED
  BY <1>1, <1>2, <1>3, <1>4, <1>5 DEF IInv

\* An error of the provider changes no table.
LEMMA FetchFailsOK ==
    ASSUME IInv, NEW h \in Handler, FetchFails(h) PROVE IInv'
<1>1. TypeOK'
  BY DEF IInv, FetchFails, TypeOK, Step, Error
<1>2. OneQuotePerKey' /\ AnswersAgree'
  BY DEF IInv, FetchFails, OneQuotePerKey, AnswersAgree
<1>3. ConflictMeansServed'
  BY DEF IInv, FetchFails, ConflictMeansServed, TypeOK
<1>4. HandlersOK'
  BY DEF IInv, FetchFails, HandlersOK, LocalsOK, QuoteOK, EntryOK, KeyBusy,
       AnswerOK, TypeOK, Error
<1>5. \A g \in Handler : RatesOK(g)'
  BY DEF IInv, FetchFails, RatesOK, TypeOK
<1> QED
  BY <1>1, <1>2, <1>3, <1>4, <1>5 DEF IInv

\* A locked row changes nothing anybody else sees.
LEMMA LockRateOK ==
    ASSUME IInv, NEW h \in Handler, LockRate(h) PROVE IInv'
<1>1. TypeOK'
  <2>1. todo[h] \in Work
    BY DEF IInv, TypeOK
  <2>2. [todo[h] EXCEPT !.done = todo[h].done + 1] \in Work
    BY <2>1 DEF Work
  <2>3. todo' = [todo EXCEPT ![h] = [todo[h] EXCEPT !.done = todo[h].done + 1]]
    BY DEF LockRate
  <2> QED
    BY <2>2, <2>3 DEF IInv, LockRate, TypeOK, Step
<1>2. OneQuotePerKey' /\ AnswersAgree'
  BY DEF IInv, LockRate, OneQuotePerKey, AnswersAgree
<1>3. ConflictMeansServed'
  BY DEF IInv, LockRate, ConflictMeansServed, TypeOK
<1>4. HandlersOK'
  BY DEF IInv, LockRate, HandlersOK, LocalsOK, QuoteOK, EntryOK, KeyBusy, AnswerOK,
       TypeOK, Work
<1>5. \A g \in Handler : RatesOK(g)'
  BY DEF IInv, LockRate, RatesOK, TypeOK
<1> QED
  BY <1>1, <1>2, <1>3, <1>4, <1>5 DEF IInv

\* A broken deadlock is an error like any other.
LEMMA BreakDeadlockOK ==
    ASSUME IInv, NEW h \in Handler, BreakDeadlock(h) PROVE IInv'
<1>1. TypeOK'
  BY DEF IInv, BreakDeadlock, TypeOK, Step, Error
<1>2. OneQuotePerKey' /\ AnswersAgree'
  BY DEF IInv, BreakDeadlock, OneQuotePerKey, AnswersAgree
<1>3. ConflictMeansServed'
  BY DEF IInv, BreakDeadlock, ConflictMeansServed, TypeOK
<1>4. HandlersOK'
  <2>1. pc[h] = "upsert"
    BY DEF BreakDeadlock, Deadlocked, WaitsFor
  <2> QED
    BY <2>1 DEF IInv, BreakDeadlock, HandlersOK, LocalsOK, QuoteOK, EntryOK, KeyBusy,
         AnswerOK, TypeOK, Error
<1>5. \A g \in Handler : RatesOK(g)'
  BY DEF IInv, BreakDeadlock, RatesOK, TypeOK
<1> QED
  BY <1>1, <1>2, <1>3, <1>4, <1>5 DEF IInv

\* The rows of an upsert take the edition it fetched.
LEMMA CommitRatesOK ==
    ASSUME IInv, NEW h \in Handler, CommitRates(h) PROVE IInv'
<1>1. TypeOK'
  BY DEF IInv, CommitRates, TypeOK, Step, Work, NoWork, Corridor, HandlersOK,
       LocalsOK
<1>2. OneQuotePerKey' /\ AnswersAgree'
  BY DEF IInv, CommitRates, OneQuotePerKey, AnswersAgree
<1>3. ConflictMeansServed'
  BY DEF IInv, CommitRates, ConflictMeansServed, TypeOK
<1>4. HandlersOK'
  BY DEF IInv, CommitRates, HandlersOK, LocalsOK, QuoteOK, EntryOK, KeyBusy,
       AnswerOK, TypeOK
<1>5. \A g \in Handler : RatesOK(g)'
  BY DEF IInv, CommitRates, RatesOK, TypeOK
<1> QED
  BY <1>1, <1>2, <1>3, <1>4, <1>5 DEF IInv

\* The new quote has the request's key and an id of its own.
LEMMA NewQuoteOK ==
    ASSUME IInv, NEW h \in Handler, NewQuote(h) PROVE IInv'
<1>0. /\ req[h] \in Request /\ req[h].key \in Key
      /\ rates[h][1] \in Rate /\ req[h].quotes[1] \in Currency
  <2>1. req[h] \in Request /\ req[h].key \in Key /\ InOrder(rates[h], req[h])
    BY ConstantsAssumption DEF IInv, NewQuote, TypeOK, HandlersOK, LocalsOK, RatesOK
  <2>2. Len(req[h].quotes) = 1
    BY <2>1, ConstantsAssumption DEF IInv, NewQuote, TypeOK, HandlersOK, LocalsOK
  <2> QED
    BY <2>1, <2>2 DEF InOrder, Request
<1> DEFINE made(id) == [id |-> id, key |-> req[h].key, base |-> req[h].base,
                        quote |-> req[h].quotes[1], edition |-> rates[h][1].edition]
<1>a. \/ pc' = [pc EXCEPT ![h] = "refuse"] /\ UNCHANGED created
      \/ /\ pc' = [pc EXCEPT ![h] = "insert"]
         /\ \E id \in QuoteId : FreshId(id) /\ created' = [created EXCEPT ![h] = made(id)]
  BY DEF NewQuote
<1>b. \A id \in QuoteId : made(id) \in Quote
  BY <1>0 DEF Quote, Rate, Request
<1>c. \A id \in QuoteId : made(id).id = id /\ made(id).key = req[h].key
  OBVIOUS
<1> HIDE DEF made
<1>1. TypeOK'
  <2>1. created' \in [Handler -> Quote \cup {None}]
    BY <1>a, <1>b DEF IInv, TypeOK
  <2> QED
    BY <2>1 DEF IInv, NewQuote, TypeOK, Step, Error
<1>2. OneQuotePerKey' /\ AnswersAgree'
  BY DEF IInv, NewQuote, OneQuotePerKey, AnswersAgree
<1>3. ConflictMeansServed'
  BY DEF IInv, NewQuote, ConflictMeansServed, TypeOK
<1>4. HandlersOK'
  <2>1. \A g \in Handler : LocalsOK(g)'
    BY <1>0 DEF IInv, NewQuote, TypeOK, HandlersOK, LocalsOK, Step, Error
  <2>2. \A g \in Handler : QuoteOK(g)'
    <3>1. \A g \in Handler \ {h} : /\ HasQuote(g)' <=> HasQuote(g)
                                   /\ created'[g] = created[g]
      BY DEF IInv, NewQuote, TypeOK
    <3>2. quotes' = quotes /\ req' = req
      BY DEF NewQuote
    <3>3. HasQuote(h)' =>
             /\ created'[h] \in Quote /\ created'[h].key = req[h].key
             /\ FreshId(created'[h].id)
      BY <1>a, <1>b, <1>c DEF IInv, TypeOK, FreshId
    <3>4. ~HasQuote(h)
      BY DEF NewQuote
    <3> QED
      BY <3>1, <3>2, <3>3, <3>4 DEF IInv, HandlersOK, QuoteOK, FreshId
  <2>3. \A g \in Handler : EntryOK(g)'
    BY <1>0 DEF IInv, NewQuote, TypeOK, HandlersOK, LocalsOK, EntryOK, KeyBusy
  <2>4. \A g \in Handler : AnswerOK(g)'
    BY <1>0 DEF IInv, NewQuote, TypeOK, HandlersOK, LocalsOK, AnswerOK
  <2> QED
    BY <2>1, <2>2, <2>3, <2>4 DEF HandlersOK
<1>5. \A g \in Handler : RatesOK(g)'
  BY DEF IInv, NewQuote, RatesOK, TypeOK
<1> QED
  BY <1>1, <1>2, <1>3, <1>4, <1>5 DEF IInv

\* The entry is taken when no row and no transaction has the key.
LEMMA InsertQuoteOK ==
    ASSUME IInv, NEW h \in Handler, InsertQuote(h) PROVE IInv'
<1>1. TypeOK'
  BY DEF IInv, InsertQuote, TypeOK, Step, Error
<1>2. OneQuotePerKey' /\ AnswersAgree'
  BY DEF IInv, InsertQuote, OneQuotePerKey, AnswersAgree
<1>3. ConflictMeansServed'
  BY DEF IInv, InsertQuote, ConflictMeansServed, TypeOK
<1>4. HandlersOK'
  BY DEF IInv, InsertQuote, HandlersOK, LocalsOK, QuoteOK, EntryOK, KeyBusy,
       AnswerOK, TypeOK, Error
<1>5. \A g \in Handler : RatesOK(g)'
  BY DEF IInv, InsertQuote, RatesOK, TypeOK
<1> QED
  BY <1>1, <1>2, <1>3, <1>4, <1>5 DEF IInv

\* COMMIT adds a quote that clashes with nothing.
LEMMA CommitQuoteOK ==
    ASSUME IInv, NEW h \in Handler, CommitQuote(h) PROVE IInv'
<1>1. TypeOK'
  BY DEF IInv, CommitQuote, TypeOK, Step, HandlersOK, QuoteOK
<1>2. OneQuotePerKey' /\ AnswersAgree'
  BY ConstantsAssumption DEF IInv, CommitQuote, OneQuotePerKey, AnswersAgree,
       TypeOK, Quote, HandlersOK, LocalsOK, QuoteOK, EntryOK
<1>3. ConflictMeansServed'
  BY DEF IInv, CommitQuote, ConflictMeansServed, TypeOK
<1>4. HandlersOK'
  BY ConstantsAssumption DEF IInv, CommitQuote, HandlersOK, LocalsOK, QuoteOK,
       EntryOK, KeyBusy, AnswerOK, TypeOK, Quote
<1>5. \A g \in Handler : RatesOK(g)'
  BY ConstantsAssumption DEF IInv, CommitQuote, RatesOK, TypeOK, HandlersOK,
       LocalsOK
<1> QED
  BY <1>1, <1>2, <1>3, <1>4, <1>5 DEF IInv

\* The answered quote is the only one with the request's key.
LEMMA AnswerKeepsInv ==
    ASSUME IInv, NEW h \in Handler, Answer(h) PROVE IInv'
<1>1. TypeOK'
  BY ConstantsAssumption DEF IInv, Answer, TypeOK, Step, Work, NoWork, HandlersOK,
       LocalsOK, AnswerOK, Quote, Request
<1>2. OneQuotePerKey' /\ AnswersAgree'
  BY DEF IInv, Answer, OneQuotePerKey, AnswersAgree, TypeOK, Quote, HandlersOK,
       AnswerOK
<1>3. ConflictMeansServed'
  BY DEF IInv, Answer, ConflictMeansServed, TypeOK
<1>4. HandlersOK'
  BY DEF IInv, Answer, HandlersOK, LocalsOK, QuoteOK, EntryOK, KeyBusy, AnswerOK,
       TypeOK
<1>5. \A g \in Handler : RatesOK(g)'
  BY DEF IInv, Answer, RatesOK, TypeOK
<1> QED
  BY <1>1, <1>2, <1>3, <1>4, <1>5 DEF IInv

\* An error changes no table.
LEMMA ReturnErrorOK ==
    ASSUME IInv, NEW h \in Handler, ReturnError(h) PROVE IInv'
<1>1. TypeOK'
  BY DEF IInv, ReturnError, TypeOK, Step, Work, NoWork
<1>2. OneQuotePerKey' /\ AnswersAgree'
  BY DEF IInv, ReturnError, OneQuotePerKey, AnswersAgree
<1>3. ConflictMeansServed'
  BY DEF IInv, ReturnError, ConflictMeansServed, TypeOK
<1>4. HandlersOK'
  BY DEF IInv, ReturnError, HandlersOK, LocalsOK, QuoteOK, EntryOK, KeyBusy,
       AnswerOK, TypeOK
<1>5. \A g \in Handler : RatesOK(g)'
  BY DEF IInv, ReturnError, RatesOK, TypeOK
<1> QED
  BY <1>1, <1>2, <1>3, <1>4, <1>5 DEF IInv

\* A rollback changes no table; what was committed stays.
LEMMA AbandonOK ==
    ASSUME IInv, NEW h \in Handler, Abandon(h) PROVE IInv'
<1>1. TypeOK'
  BY DEF IInv, Abandon, TypeOK, Step, Work, NoWork
<1>2. OneQuotePerKey' /\ AnswersAgree'
  BY DEF IInv, Abandon, OneQuotePerKey, AnswersAgree
<1>3. ConflictMeansServed'
  BY DEF IInv, Abandon, ConflictMeansServed, TypeOK
<1>4. HandlersOK'
  BY DEF IInv, Abandon, HandlersOK, LocalsOK, QuoteOK, EntryOK, KeyBusy, AnswerOK,
       TypeOK
<1>5. \A g \in Handler : RatesOK(g)'
  BY DEF IInv, Abandon, RatesOK, TypeOK
<1> QED
  BY <1>1, <1>2, <1>3, <1>4, <1>5 DEF IInv

\* Every step of the system preserves the invariant.
LEMMA NextOK == IInv /\ [Next]_vars => IInv'
<1> SUFFICES ASSUME IInv, [Next]_vars PROVE IInv'
  OBVIOUS
<1>1. CASE PublishEdition
  BY <1>1, PublishEditionOK
<1>2. ASSUME NEW h \in Handler, NEW r \in Call, Receive(h, r) PROVE IInv'
  BY <1>2, ReceiveOK
<1>3. ASSUME NEW h \in Handler, Handle(h) PROVE IInv'
  BY <1>3, FindExistingOK, ListRatesOK, FetchRatesOK, FetchFailsOK, LockRateOK,
     BreakDeadlockOK, CommitRatesOK, NewQuoteOK, InsertQuoteOK, CommitQuoteOK,
     AnswerKeepsInv, ReturnErrorOK DEF Handle
<1>4. ASSUME NEW h \in Handler, Abandon(h) PROVE IInv'
  BY <1>4, AbandonOK
<1>5. CASE UNCHANGED vars
  BY <1>5 DEF vars, IInv, TypeOK, OneQuotePerKey, AnswersAgree, ConflictMeansServed,
     HandlersOK, LocalsOK, QuoteOK, EntryOK, KeyBusy, AnswerOK, RatesOK
<1> QED
  BY <1>1, <1>2, <1>3, <1>4, <1>5 DEF Next

LEMMA InvariantHolds == Spec => []IInv
<1> QED
  BY InitOK, NextOK, PTL DEF Spec

--------------------------------------------------------------------------------
\* Every variable keeps its type: in particular SortRates leaves no place empty.
THEOREM TypeCorrect == Spec => []TypeOK
BY InvariantHolds, PTL DEF IInv

\* However many retries of a CreateQuote race, its key has one quote.
THEOREM Unique == Spec => []OneQuotePerKey
BY InvariantHolds, PTL DEF IInv

\* All successful answers to one key name the one stored quote of that key.
THEOREM Agreement == Spec => []AnswersAgree
BY InvariantHolds, PTL DEF IInv

\* Behind every Conflict stands a committed quote of the key.
THEOREM Justified == Spec => []ConflictMeansServed
BY InvariantHolds, PTL DEF IInv

\* The rates of an answer are those asked for, in the order of the request.
THEOREM InRequestOrder == Spec => []RatesAnswerTheRequest
<1>1. IInv => RatesAnswerTheRequest
  BY DEF IInv, RatesOK, InOrder, RatesAnswerTheRequest
<1> QED
  BY <1>1, InvariantHolds, PTL

--------------------------------------------------------------------------------
(***************************************************************************)
(* Row locks.  Upserts lock their rows one by one in the order of the      *)
(* provider's answer, each row once and only rows that were asked for, and *)
(* a row that one of them has locked waits for its commit.                 *)
(***************************************************************************)

\* What an upsert has left to lock and has locked.
WorkOK(h) ==
    pc[h] = "upsert" =>
        /\ todo[h].done <= Len(todo[h].rows)
        /\ \A i, j \in DOMAIN todo[h].rows :
              todo[h].rows[i] = todo[h].rows[j] => i = j
        /\ \A i \in DOMAIN todo[h].rows :
              \E j \in DOMAIN req[h].quotes : todo[h].rows[i] = req[h].quotes[j]

\* No row of reference_rates is locked by two running upserts.
LocksExclude ==
    \A g, h \in Handler :
        g # h /\ pc[g] = "upsert" /\ pc[h] = "upsert" => Locked(g) \cap Locked(h) = {}

LocksOK == LocksExclude /\ \A h \in Handler : WorkOK(h)

\* The rows of an answer are those asked for, each once, none locked yet.
LEMMA FetchKeepsLocks ==
    ASSUME IInv, LocksOK, NEW h \in Handler, FetchRates(h) PROVE LocksOK'
<1>0. PICK S \in SUBSET {req[h].quotes[i] : i \in DOMAIN req[h].quotes} :
        \E rows \in [1..Cardinality(S) -> S] :
            /\ \A i, j \in DOMAIN rows : rows[i] = rows[j] => i = j
            /\ todo' = [todo EXCEPT ![h] =
                           [rows |-> rows, done |-> 0, edition |-> market]]
  BY DEF FetchRates
<1>1. PICK rows \in [1..Cardinality(S) -> S] :
          /\ \A i, j \in DOMAIN rows : rows[i] = rows[j] => i = j
          /\ todo' = [todo EXCEPT ![h] =
                         [rows |-> rows, done |-> 0, edition |-> market]]
  BY <1>0
<1>2. req[h].quotes \in Seq(Currency)
  BY ConstantsAssumption DEF IInv, TypeOK, FetchRates, HandlersOK, LocalsOK, Request
<1>3. Cardinality(S) \in Nat
  BY <1>2, AskedFinite
<1>4. /\ todo'[h].rows = rows /\ todo'[h].done = 0 /\ req' = req
      /\ \A g \in Handler \ {h} : pc'[g] = pc[g] /\ todo'[g] = todo[g]
  BY <1>1 DEF IInv, TypeOK, FetchRates
<1>5. Len(rows) = Cardinality(S) /\ DOMAIN rows = 1..Cardinality(S)
  BY <1>3
<1>6. WorkOK(h)'
  BY <1>1, <1>3, <1>4, <1>5 DEF WorkOK
<1>7. Locked(h)' = {}
  BY <1>4 DEF Locked
<1>8. \A g \in Handler \ {h} : WorkOK(g)' /\ Locked(g)' = Locked(g)
  BY <1>4 DEF LocksOK, WorkOK, Locked
<1>9. LocksExclude'
  BY <1>4, <1>7, <1>8 DEF LocksOK, LocksExclude
<1> QED
  BY <1>6, <1>8, <1>9 DEF LocksOK

\* A row is only locked once no other upsert has it.
LEMMA LockKeepsLocks ==
    ASSUME IInv, LocksOK, NEW h \in Handler, LockRate(h) PROVE LocksOK'
<1>1. todo[h].done \in Nat /\ todo[h].rows \in Seq(Currency)
  BY DEF IInv, TypeOK, Work
<1>2. /\ todo'[h].done = todo[h].done + 1 /\ todo'[h].rows = todo[h].rows
      /\ req' = req /\ pc' = pc /\ pc[h] = "upsert" /\ ~Finished(h)
      /\ \A g \in Handler \ {h} : todo'[g] = todo[g]
  BY DEF IInv, TypeOK, Work, LockRate
<1>3. WorkOK(h)'
  BY <1>1, <1>2 DEF LocksOK, WorkOK, Finished
<1>4. Locked(h)' = Locked(h) \cup {Wanted(h)}
  <2> DEFINE row(i) == <<req[h].base, todo[h].rows[i]>>
             d == todo[h].done
  <2>1. Locked(h)' = {row(i) : i \in 1..d + 1}
    BY <1>2 DEF Locked
  <2>2. 1..d + 1 = 1..d \cup {d + 1}
    BY <1>1
  <2>3. Locked(h) = {row(i) : i \in 1..d} /\ Wanted(h) = row(d + 1)
    BY DEF Locked, Wanted
  <2> HIDE DEF row, d
  <2> QED
    BY <2>1, <2>2, <2>3
<1>5. \A g \in Handler \ {h} : WorkOK(g)' /\ Locked(g)' = Locked(g)
  BY <1>2 DEF LocksOK, WorkOK, Locked
<1>6. \A g \in Handler \ {h} : pc[g] = "upsert" => Wanted(h) \notin Locked(g)
  BY <1>2 DEF LockRate, WaitsFor
<1>7. LocksExclude'
  BY <1>2, <1>4, <1>5, <1>6 DEF LocksOK, LocksExclude
<1> QED
  BY <1>3, <1>5, <1>7 DEF LocksOK

\* No other step begins an upsert or changes what one has to do.
LEMMA OthersKeepLocks ==
    ASSUME IInv, LocksOK,
           \/ PublishEdition
           \/ \E h \in Handler :
                \/ \E r \in Call : Receive(h, r)
                \/ FindExisting(h) \/ ListRates(h) \/ FetchFails(h) \/ BreakDeadlock(h)
                \/ CommitRates(h) \/ NewQuote(h) \/ InsertQuote(h) \/ CommitQuote(h)
                \/ Answer(h) \/ ReturnError(h) \/ Abandon(h)
           \/ UNCHANGED vars
    PROVE  LocksOK'
<1> DEFINE Kept == \A g \in Handler : (pc[g] = "upsert")' =>
                       pc[g] = "upsert" /\ todo'[g] = todo[g] /\ req'[g] = req[g]
<1>1. Kept
  <2>1. CASE PublishEdition \/ UNCHANGED vars
    BY <2>1 DEF vars, PublishEdition
  <2>2. ASSUME NEW h \in Handler,
               \/ \E r \in Call : Receive(h, r)
               \/ FindExisting(h) \/ ListRates(h) \/ FetchFails(h) \/ BreakDeadlock(h)
        PROVE  Kept
    BY <2>2 DEF IInv, TypeOK, Receive, FindExisting, ListRates, FetchFails, BreakDeadlock
  <2>3. ASSUME NEW h \in Handler,
               \/ CommitRates(h) \/ NewQuote(h) \/ InsertQuote(h) \/ CommitQuote(h)
               \/ Answer(h) \/ ReturnError(h) \/ Abandon(h)
        PROVE  Kept
    BY <2>3 DEF IInv, TypeOK, CommitRates, NewQuote, InsertQuote, CommitQuote, Answer,
           ReturnError, Abandon
  <2> QED
    BY <2>1, <2>2, <2>3
<1>2. \A g \in Handler : (pc[g] = "upsert")' =>
          pc[g] = "upsert" /\ Locked(g)' = Locked(g) /\ WorkOK(g)'
  BY <1>1 DEF LocksOK, WorkOK, Locked
<1>3. LocksExclude'
  BY <1>2 DEF LocksOK, LocksExclude
<1>4. \A g \in Handler : WorkOK(g)'
  BY <1>2 DEF WorkOK
<1> QED
  BY <1>3, <1>4 DEF LocksOK

LEMMA LocksHold == Spec => []LocksOK
<1>1. Init => LocksOK
  BY DEF Init, LocksOK, LocksExclude, WorkOK
<1>2. IInv /\ LocksOK /\ [Next]_vars => LocksOK'
  BY FetchKeepsLocks, LockKeepsLocks, OthersKeepLocks DEF Next, Handle
<1> QED
  BY <1>1, <1>2, InvariantHolds, PTL DEF Spec

\* Concurrent upserts never hold the same row, so that the rows a commit writes
\* are nobody else's (UpsertRates, store.go).
THEOREM OneHolder == Spec => []LocksExclude
BY LocksHold, PTL DEF LocksOK

\* CreateQuote asks for one corridor: it holds nothing while it waits.
CirclesAreOfRateCalls ==
    \A h \in Handler : Deadlocked(h) =>
        \E f, g \in Handler : /\ WaitsFor(f, g)
                              /\ req[f].key = None /\ req[g].key = None

\* However many CreateQuote calls fetch the same rates, they alone never wait in
\* a circle: behind every deadlock of upserts a GetReferenceRates call waits for another.
THEOREM QuotesNeverDeadlock == Spec => []CirclesAreOfRateCalls
<1>1. ASSUME IInv, LocksOK, NEW f \in Handler, NEW g \in Handler,
             WaitsFor(f, g), ~Finished(g)
      PROVE  req[g].key = None
  <2> SUFFICES ASSUME req[g].key # None PROVE FALSE
    OBVIOUS
  <2>1. /\ pc[g] = "upsert" /\ req[g] \in Call
        /\ todo[g].done \in Nat /\ todo[g].rows \in Seq(Currency)
    BY <1>1 DEF WaitsFor, IInv, TypeOK, HandlersOK, LocalsOK, Work
  <2>2. req[g].quotes \in Seq(Currency) /\ Len(req[g].quotes) = 1
    BY <2>1, ConstantsAssumption DEF Request
  <2>3. 1 <= todo[g].done /\ todo[g].done + 1 <= Len(todo[g].rows)
    BY <1>1, <2>1 DEF WaitsFor, Locked, Finished, LocksOK, WorkOK
  <2>4. 1 \in DOMAIN todo[g].rows /\ 2 \in DOMAIN todo[g].rows
    BY <2>1, <2>3
  <2>5. todo[g].rows[1] = req[g].quotes[1] /\ todo[g].rows[2] = req[g].quotes[1]
    BY <2>1, <2>2, <2>4, <1>1 DEF LocksOK, WorkOK
  <2> QED
    BY <1>1, <2>1, <2>4, <2>5 DEF LocksOK, WorkOK
<1>2. ASSUME IInv, LocksOK, NEW h \in Handler, Deadlocked(h)
      PROVE  \E f, g \in Handler : /\ WaitsFor(f, g)
                                   /\ req[f].key = None /\ req[g].key = None
  <2>1. PICK S \in SUBSET Handler :
            h \in S /\ \A g \in S : \E f \in S : WaitsFor(g, f)
    BY <1>2 DEF Deadlocked
  <2>2. PICK f \in S : WaitsFor(h, f)
    BY <2>1
  <2>3. PICK g \in S : WaitsFor(f, g)
    BY <2>1
  <2>4. ~Finished(f) /\ ~Finished(g)
    BY <2>1, <2>3 DEF WaitsFor
  <2> QED
    BY <1>1, <1>2, <2>1, <2>2, <2>3, <2>4
<1>3. IInv /\ LocksOK => CirclesAreOfRateCalls
  BY <1>2 DEF CirclesAreOfRateCalls
<1> QED
  BY <1>3, InvariantHolds, LocksHold, PTL

\* Every upsert locks its rows in the ascending order of a rank.
Ascending(rank) ==
    \A h \in Handler : pc[h] = "upsert" =>
        \A i, j \in DOMAIN todo[h].rows : i < j =>
            rank[<<req[h].base, todo[h].rows[i]>>] < rank[<<req[h].base, todo[h].rows[j]>>]

\* The deadlocks of upserts have no other cause than the order of the provider's
\* answers: while these agree with any one order of the corridors, none occurs.
THEOREM OrderedNeverDeadlock ==
    ASSUME NEW n \in Nat, NEW rank \in [Corridor -> 0..n]
    PROVE  Spec => [](Ascending(rank) => \A h \in Handler : ~Deadlocked(h))
<1>1. ASSUME IInv, LocksOK, Ascending(rank), NEW h \in Handler, Deadlocked(h)
      PROVE  FALSE
  <2>1. PICK S \in SUBSET Handler :
            h \in S /\ \A g \in S : \E f \in S : WaitsFor(g, f)
    BY <1>1 DEF Deadlocked
  <2>2. ASSUME NEW g \in S
        PROVE  /\ pc[g] = "upsert" /\ req[g].base \in Currency
               /\ todo[g].done \in Nat /\ todo[g].rows \in Seq(Currency)
               /\ todo[g].done + 1 \in DOMAIN todo[g].rows
               /\ Wanted(g) \in Corridor
    <3>1. pc[g] = "upsert" /\ ~Finished(g)
      BY <2>1 DEF WaitsFor
    <3>2. req[g] \in Request /\ todo[g] \in Work
      BY <1>1, <2>1, <3>1, ConstantsAssumption DEF IInv, TypeOK, HandlersOK, LocalsOK
    <3>3. todo[g].done + 1 \in DOMAIN todo[g].rows
      BY <1>1, <2>1, <3>1, <3>2 DEF LocksOK, WorkOK, Finished, Work
    <3> QED
      BY <3>1, <3>2, <3>3 DEF Request, Work, Wanted, Corridor
  <2> DEFINE Left == {n - rank[Wanted(g)] : g \in S}
  <2>3. Left \subseteq Nat /\ Left # {}
    BY <2>1, <2>2
  <2>4. PICK k \in Left : \A m \in Left : k <= m
    <3> DEFINE Less == OpToRel(<, Nat)
    <3>1. IsWellFoundedOn(Less, Nat)
      BY NatLessThanWellFounded, Zenon
    <3>2. \A a, b \in Nat : a < b => <<a, b>> \in Less
      BY Zenon DEF OpToRel
    <3> HIDE DEF Less, Left
    <3>3. PICK k \in Left : \A m \in Left : <<m, k>> \notin Less
      BY <2>3, <3>1, WFMin
    <3>4. \A m \in Left : m \in Nat /\ k \in Nat /\ ~(m < k)
      BY <2>3, <3>2, <3>3
    <3> QED
      BY <3>4
  <2>5. PICK g \in S : k = n - rank[Wanted(g)]
    BY <2>4
  <2>6. PICK f \in S : WaitsFor(g, f)
    BY <2>1
  <2>7. PICK i \in 1..todo[f].done : Wanted(g) = <<req[f].base, todo[f].rows[i]>>
    BY <2>6 DEF WaitsFor, Locked
  <2>8. i \in DOMAIN todo[f].rows /\ i < todo[f].done + 1
    BY <2>2, <2>7
  <2>9. rank[Wanted(g)] < rank[Wanted(f)]
    BY <1>1, <2>1, <2>2, <2>7, <2>8 DEF Ascending, Wanted
  <2> QED
    <3>1. /\ rank[Wanted(g)] \in 0..n /\ rank[Wanted(f)] \in 0..n
          /\ n - rank[Wanted(f)] \in Left
      BY <2>2
    <3>2. k <= n - rank[Wanted(f)]
      BY <2>4, <3>1
    <3> QED
      BY <2>5, <2>9, <3>1, <3>2
<1>2. IInv /\ LocksOK => (Ascending(rank) => \A h \in Handler : ~Deadlocked(h))
  BY <1>1
<1> QED
  BY <1>2, InvariantHolds, LocksHold, PTL

--------------------------------------------------------------------------------
(***************************************************************************)
(* Refinement: CommitQuote is the abstract Issue, Answer to a CreateQuote  *)
(* is Answer, PublishEdition is Widen, and every other step, among them    *)
(* all that move rates about, leaves the abstract state alone.  What IInv  *)
(* does not say is where a rate comes from: FromMarket follows it from the *)
(* provider through the upsert, the table and the list into the quote.     *)
(***************************************************************************)

\* The offer a quote was made from.
OfferOf(q) ==
    [key |-> q.key, terms |-> [base |-> q.base, quote |-> q.quote, edition |-> q.edition]]

\* Every rate in a table, in an upsert, in a list and in a quote was published.
StoredOK == \A c \in Corridor : stored[c] # None => stored[c] <= market
FetchedOK(h) == pc[h] = "upsert" => todo[h].edition <= market
ChosenOK(h) == pc[h] = "new" => rates[h][1].edition <= market
OfferOK(h) == HasQuote(h) => OfferOf(created[h]) \in Quotable

FromMarket ==
    /\ StoredOK
    /\ \A h \in Handler : FetchedOK(h) /\ ChosenOK(h) /\ OfferOK(h)

\* What may be quoted are offers, and they only become more.
LEMMA QuotableOffers == Quotable \subseteq Abstract!Offer
BY ConstantsAssumption DEF Quotable, Asked, Abstract!Offer, Rate, Request

\* A handler about to build a quote has the one rate it asked for.
LEMMA FirstRate ==
    ASSUME IInv, NEW h \in Handler, pc[h] = "new"
    PROVE  /\ req[h] \in Call /\ req[h] \in Request /\ req[h].key \in Key
           /\ rates[h][1] \in Rate /\ req[h].quotes[1] \in Currency
           /\ 1 \in DOMAIN rates[h]
<1>1. /\ req[h] \in Call /\ req[h] \in Request /\ req[h].key \in Key
      /\ InOrder(rates[h], req[h])
  BY ConstantsAssumption DEF IInv, TypeOK, HandlersOK, LocalsOK, RatesOK
<1>2. Len(req[h].quotes) = 1
  BY <1>1, ConstantsAssumption
<1> QED
  BY <1>1, <1>2 DEF InOrder, Request

\* The empty database holds no rate.
LEMMA FromMarketInit == Init => FromMarket
BY DEF Init, FromMarket, StoredOK, FetchedOK, ChosenOK, OfferOK

\* New editions leave the older ones published.
LEMMA PublishKeepsFromMarket ==
    ASSUME IInv, FromMarket, PublishEdition PROVE FromMarket' /\ Quotable \subseteq Quotable'
<1>1. market \in Nat /\ market' = market + 1
  BY DEF IInv, TypeOK, PublishEdition, Edition
<1>2. ASSUME NEW o \in Quotable PROVE o \in Quotable'
  <2>1. o \in Asked /\ o.terms.edition <= market /\ o.terms.edition \in Nat
    BY <1>2 DEF Quotable, Asked, Edition
  <2> QED
    BY <1>1, <2>1 DEF Quotable
<1>3. StoredOK'
  BY <1>1 DEF IInv, TypeOK, FromMarket, StoredOK, PublishEdition, Edition
<1>4. ASSUME NEW h \in Handler PROVE FetchedOK(h)' /\ ChosenOK(h)' /\ OfferOK(h)'
  <2>1. FetchedOK(h)'
    BY <1>1 DEF IInv, HandlersOK, LocalsOK, FromMarket, FetchedOK, PublishEdition, Edition
  <2>2. ASSUME pc[h] = "new" PROVE rates[h][1].edition <= market'
    <3>1. rates[h][1] \in Rate /\ rates[h][1].edition <= market
      BY <2>2, FirstRate DEF FromMarket, ChosenOK
    <3> QED
      BY <1>1, <3>1 DEF Rate, Edition
  <2>3. OfferOK(h)'
    BY <1>2 DEF FromMarket, OfferOK, PublishEdition
  <2> QED
    BY <2>1, <2>2, <2>3 DEF ChosenOK, PublishEdition
<1> QED
  BY <1>2, <1>3, <1>4 DEF FromMarket

\* The listed rate of the request is one of the table's.
LEMMA ListKeepsFromMarket ==
    ASSUME IInv, FromMarket, NEW h \in Handler, ListRates(h) PROVE FromMarket'
<1>1. StoredOK'
  BY DEF FromMarket, StoredOK, ListRates
<1>2. ASSUME NEW g \in Handler PROVE FetchedOK(g)' /\ OfferOK(g)'
  BY DEF IInv, TypeOK, FromMarket, FetchedOK, OfferOK, ListRates, Quotable
<1>3. ASSUME NEW g \in Handler \ {h} PROVE ChosenOK(g)'
  BY DEF IInv, TypeOK, FromMarket, ChosenOK, ListRates
<1>4. ChosenOK(h)'
  <2> SUFFICES ASSUME (pc[h] = "new")' PROVE rates'[h][1].edition <= market
    BY DEF ChosenOK, ListRates
  <2> DEFINE s == SortRates(Listed(req[h]), req[h].quotes)
  <2>1. req[h] \in Call /\ req[h] \in Request /\ Complete(req[h]) /\ req[h].key # None
    BY ConstantsAssumption DEF IInv, TypeOK, HandlersOK, LocalsOK, ListRates
  <2>2. rates'[h] = s
    BY DEF IInv, TypeOK, ListRates
  <2>3. InOrder(s, req[h]) /\ \A i \in DOMAIN s : s[i] \in Listed(req[h])
    BY <2>1, CompleteInOrder DEF IInv, TypeOK
  <2>4. Len(req[h].quotes) = 1
    BY <2>1, ConstantsAssumption
  <2> HIDE DEF s
  <2>5. 1 \in DOMAIN s
    BY <2>3, <2>4 DEF InOrder
  <2>6. PICK c \in Currency :
            /\ stored[<<req[h].base, c>>] # None
            /\ s[1].edition = stored[<<req[h].base, c>>]
    <3>1. s[1] \in Listed(req[h])
      BY <2>3, <2>5
    <3> QED
      BY <3>1 DEF Listed
  <2>7. <<req[h].base, c>> \in Corridor
    BY <2>1 DEF Request, Corridor
  <2> QED
    BY <2>2, <2>6, <2>7 DEF FromMarket, StoredOK
<1> QED
  BY <1>1, <1>2, <1>3, <1>4 DEF FromMarket

\* What the provider sends is the edition it serves.
LEMMA FetchKeepsFromMarket ==
    ASSUME IInv, FromMarket, NEW h \in Handler, FetchRates(h) PROVE FromMarket'
<1>1. /\ market' = market /\ stored' = stored /\ rates' = rates /\ created' = created
      /\ \A g \in Handler \ {h} : pc'[g] = pc[g] /\ todo'[g] = todo[g]
      /\ pc'[h] \in {"list", "upsert"} /\ todo'[h].edition = market
  BY DEF IInv, TypeOK, FetchRates
<1>2. market \in Nat
  BY DEF IInv, TypeOK, Edition
<1> QED
  BY <1>1, <1>2 DEF FromMarket, StoredOK, FetchedOK, ChosenOK, OfferOK, Quotable

\* The rows an upsert writes are of the edition it fetched.
LEMMA CommitRatesKeepsFromMarket ==
    ASSUME IInv, FromMarket, NEW h \in Handler, CommitRates(h) PROVE FromMarket'
<1>1. StoredOK'
  BY DEF CommitRates, FromMarket, StoredOK, FetchedOK
<1>2. ASSUME NEW g \in Handler PROVE FetchedOK(g)' /\ ChosenOK(g)' /\ OfferOK(g)'
  BY DEF IInv, TypeOK, CommitRates, FromMarket, FetchedOK, ChosenOK, OfferOK, Quotable
<1> QED
  BY <1>1, <1>2 DEF FromMarket

\* A new quote is for what the client asked, at the rate that was listed.
LEMMA NewQuoteKeepsFromMarket ==
    ASSUME IInv, FromMarket, NEW h \in Handler, NewQuote(h) PROVE FromMarket'
<1>1. StoredOK'
  BY DEF NewQuote, FromMarket, StoredOK
<1>2. ASSUME NEW g \in Handler PROVE FetchedOK(g)' /\ ChosenOK(g)'
  BY DEF IInv, TypeOK, NewQuote, FromMarket, FetchedOK, ChosenOK
<1>3. ASSUME NEW g \in Handler \ {h} PROVE OfferOK(g)'
  BY DEF IInv, TypeOK, NewQuote, FromMarket, OfferOK, Quotable
<1>4. OfferOK(h)'
  <2> SUFFICES ASSUME HasQuote(h)' PROVE OfferOf(created'[h]) \in Quotable
    BY DEF OfferOK, NewQuote, Quotable
  <2> DEFINE r == req[h]
             e == rates[h][1].edition
  <2>1. r \in Call /\ r.key \in Key /\ rates[h][1] \in Rate /\ pc[h] = "new"
    BY FirstRate DEF NewQuote
  <2>2. r.positive /\ r.base = FeeCurrency
    BY DEF NewQuote, IInv, TypeOK
  <2>3. \E id \in QuoteId :
            created'[h] = [id |-> id, key |-> r.key, base |-> r.base,
                           quote |-> r.quotes[1], edition |-> e]
    BY DEF NewQuote, IInv, TypeOK
  <2>4. OfferOf(created'[h]) =
            [key |-> r.key,
             terms |-> [base |-> r.base, quote |-> r.quotes[1], edition |-> e]]
    BY <2>3 DEF OfferOf
  <2>5. e \in Edition /\ e <= market
    BY <2>1 DEF Rate, FromMarket, ChosenOK
  <2>6. OfferOf(created'[h]) \in Asked
    BY <2>1, <2>2, <2>4, <2>5, ConstantsAssumption DEF Asked
  <2> QED
    BY <2>4, <2>5, <2>6 DEF Quotable
<1> QED
  BY <1>1, <1>2, <1>3, <1>4 DEF FromMarket

\* The other steps bring no rate further.
LEMMA OthersKeepFromMarket ==
    ASSUME IInv, FromMarket, NEW h \in Handler,
           \/ \E r \in Call : Receive(h, r)
           \/ FindExisting(h) \/ FetchFails(h) \/ LockRate(h) \/ BreakDeadlock(h)
           \/ InsertQuote(h) \/ CommitQuote(h) \/ Answer(h) \/ ReturnError(h)
           \/ Abandon(h)
    PROVE  FromMarket'
<1>1. /\ market' = market /\ stored' = stored
      /\ \A g \in Handler :
            /\ pc'[g] = "upsert" =>
                   pc[g] = "upsert" /\ todo'[g].edition = todo[g].edition
            /\ pc'[g] = "new" => pc[g] = "new" /\ rates'[g] = rates[g]
            /\ pc'[g] \in {"insert", "commit"} => HasQuote(g) /\ created'[g] = created[g]
  <2>1. CASE (\E r \in Call : Receive(h, r)) \/ FindExisting(h) \/ FetchFails(h)
    BY <2>1 DEF IInv, TypeOK, Receive, FindExisting, FetchFails
  <2>2. CASE LockRate(h)
    <3>1. todo[h] \in Work
      BY DEF IInv, TypeOK
    <3>2. [todo[h] EXCEPT !.done = todo[h].done + 1].edition = todo[h].edition
      BY <3>1 DEF Work
    <3>3. \A g \in Handler : todo'[g].edition = todo[g].edition
      BY <2>2, <3>2 DEF IInv, TypeOK, LockRate
    <3> QED
      BY <2>2, <3>3 DEF LockRate
  <2>3. CASE BreakDeadlock(h) \/ InsertQuote(h) \/ CommitQuote(h)
    BY <2>3 DEF IInv, TypeOK, BreakDeadlock, InsertQuote, CommitQuote
  <2>4. CASE Answer(h) \/ ReturnError(h) \/ Abandon(h)
    BY <2>4 DEF IInv, TypeOK, Answer, ReturnError, Abandon
  <2> QED
    BY <2>1, <2>2, <2>3, <2>4
<1> QED
  BY <1>1 DEF FromMarket, StoredOK, FetchedOK, ChosenOK, OfferOK, Quotable

\* Every step keeps the rates those of the provider.
LEMMA FromMarketHolds == Spec => []FromMarket
<1>1. IInv /\ FromMarket /\ [Next]_vars => FromMarket'
  <2> SUFFICES ASSUME IInv, FromMarket, [Next]_vars PROVE FromMarket'
    OBVIOUS
  <2>1. CASE PublishEdition
    BY <2>1, PublishKeepsFromMarket
  <2>2. ASSUME NEW h \in Handler,
               (\E r \in Call : Receive(h, r)) \/ Handle(h) \/ Abandon(h)
        PROVE  FromMarket'
    BY <2>2, ListKeepsFromMarket, FetchKeepsFromMarket, CommitRatesKeepsFromMarket,
       NewQuoteKeepsFromMarket, OthersKeepFromMarket DEF Handle
  <2>3. CASE UNCHANGED vars
    BY <2>3 DEF vars, FromMarket, StoredOK, FetchedOK, ChosenOK, OfferOK, Quotable
  <2> QED
    BY <2>1, <2>2, <2>3 DEF Next
<1> QED
  BY <1>1, FromMarketInit, InvariantHolds, PTL DEF Spec

\* With no quotes there is no ledger.
LEMMA IssuingBegins == Init => Abstract!Init
BY QuotableOffers DEF Init, Abstract!Init

\* COMMIT issues what its client asked for, under a key and an id of its own.
LEMMA CommitIsIssue ==
    ASSUME IInv, FromMarket, NEW h \in Handler, CommitQuote(h)
    PROVE  \E id \in QuoteId, o \in Quotable : Abstract!Issue(id, o)
<1> DEFINE c == created[h]
           o == OfferOf(c)
<1>1. c \in Quote /\ c.key = req[h].key /\ o \in Quotable
  BY DEF CommitQuote, IInv, HandlersOK, QuoteOK, FromMarket, OfferOK
<1>2. \A q \in quotes : q.id # c.id /\ q.key # c.key
  BY <1>1 DEF CommitQuote, IInv, HandlersOK, QuoteOK, EntryOK
<1>3. Issued(c) = Abstract!Quote(c.id, o) /\ o.key = c.key
  BY DEF Issued, OfferOf, Abstract!Quote
<1>4. quotes' = quotes \cup {c} /\ replies' = replies /\ market' = market
  BY DEF CommitQuote
<1>5. {Issued(q) : q \in quotes'} = {Issued(q) : q \in quotes} \cup {Issued(c)}
  BY <1>4
<1>6. \A i \in {Issued(q) : q \in quotes} : i.id # c.id /\ i.key # c.key
  BY <1>2 DEF Issued
<1>7. Quotable' = Quotable
  BY <1>4 DEF Quotable
<1>8. Abstract!Issue(c.id, o)
  BY <1>3, <1>4, <1>5, <1>6, <1>7 DEF Abstract!Issue
<1> QED
  BY <1>1, <1>8 DEF Quote

\* A client is answered with the ledger's quote of its key, or with rates.
LEMMA AnswerIsAnswer ==
    ASSUME IInv, NEW h \in Handler, Answer(h)
    PROVE  \/ \E i \in {Issued(q) : q \in quotes} : Abstract!Answer(i)
           \/ UNCHANGED Abstract!vars
<1>1. quotes' = quotes /\ Quotable' = Quotable
  BY DEF Answer, Quotable
<1>2. CASE req[h].key = None
  BY <1>1, <1>2 DEF Answer, Abstract!vars
<1>3. CASE req[h].key # None
  <2>1. created[h] \in quotes /\ created[h].key = req[h].key
    BY <1>3 DEF Answer, IInv, HandlersOK, AnswerOK
  <2>2. Abstract!Reply(Issued(created[h])) = [key |-> req[h].key, id |-> created[h].id]
    BY <2>1 DEF Issued, Abstract!Reply
  <2>3. Abstract!Answer(Issued(created[h]))
    BY <1>1, <1>3, <2>2 DEF Answer, Abstract!Answer
  <2> QED
    BY <2>1, <2>3
<1> QED
  BY <1>2, <1>3

\* Every step of the handlers is a step of the ledger or none.
LEMMA IssuingStep ==
    ASSUME IInv, FromMarket, [Next]_vars PROVE [Abstract!Next]_Abstract!vars
<1>1. CASE PublishEdition
  <2>1. Quotable \subseteq Quotable'
    BY <1>1, PublishKeepsFromMarket
  <2>2. Quotable' \subseteq Abstract!Offer
    BY ConstantsAssumption DEF Quotable, Asked, Abstract!Offer, Rate, Request
  <2> QED
    BY <1>1, <2>1, <2>2 DEF PublishEdition, Abstract!Next, Abstract!Widen
<1>2. ASSUME NEW h \in Handler, CommitQuote(h) PROVE Abstract!Next
  BY <1>2, CommitIsIssue DEF Abstract!Next
<1>3. ASSUME NEW h \in Handler, Answer(h) PROVE [Abstract!Next]_Abstract!vars
  BY <1>3, AnswerIsAnswer DEF Abstract!Next
<1>4. ASSUME NEW h \in Handler,
             \/ \E r \in Call : Receive(h, r)
             \/ FindExisting(h) \/ ListRates(h) \/ FetchRates(h) \/ FetchFails(h)
             \/ LockRate(h) \/ BreakDeadlock(h) \/ CommitRates(h) \/ NewQuote(h)
             \/ InsertQuote(h) \/ ReturnError(h) \/ Abandon(h)
      PROVE  UNCHANGED Abstract!vars
  <2>1. market' = market /\ quotes' = quotes /\ replies' = replies
    BY <1>4 DEF Receive, FindExisting, ListRates, FetchRates, FetchFails, LockRate,
       BreakDeadlock, CommitRates, NewQuote, InsertQuote, ReturnError, Abandon
  <2> QED
    BY <2>1 DEF Quotable, Abstract!vars
<1>5. CASE UNCHANGED vars
  BY <1>5 DEF vars, Quotable, Abstract!vars
<1> QED
  BY <1>1, <1>2, <1>3, <1>4, <1>5 DEF Next, Handle

\* Creating quotes, with retries that race, rates that are fetched and
\* overwritten meanwhile and handlers that crash, is the one-step issuing of
\* quotes: one for a key, for what was asked, at a rate that was published.
THEOREM Refinement == Spec => ImplementsIssuing
<1>1. IInv /\ FromMarket /\ [Next]_vars => [Abstract!Next]_Abstract!vars
  BY IssuingStep
<1> QED
  BY <1>1, IssuingBegins, InvariantHolds, FromMarketHolds, PTL
     DEF Spec, ImplementsIssuing, Abstract!Spec

================================================================================

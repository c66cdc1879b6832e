------------------------------- MODULE ServerProofs ------------------------------
(***************************************************************************)
(* Proofs that a Server, of every kind, with any number of clients and any *)
(* errors, keeps its types, LeavesOpenOnlyInTrouble, NobodyIsCutOff,         *)
(* NobodyMeetsAClosedDatabase and ToldAndCounted.                          *)
(***************************************************************************)
EXTENDS Server, TLAPS

Both == {"calls", "metrics"}
Before == Stage \cup {"listen", "start"}
Up == {"listen", "start", "notify", "select", "drain", "awaitAccept", "stopMetrics",
       "closeListener", "closeDB"}

\* What a place of the program owns; only the listener may or may not be there.
Owns(place) ==
    CASE place = "newLogger"                                  -> {}
      [] place \in {"newMetrics", "newPool", "sync"}          -> {"logger"}
      [] place \in {"pingPool", "openGorm", "closePool"}      -> {"logger", "pool"}
      [] OTHER                                                -> {"logger", "pool", "db"}

HeldIsOwned ==
    /\ main \notin Gone => held \ {"listener"} = Owns(main)
    /\ main = "exited" => held = IF cause = "gorm" THEN {"db"} ELSE {}
    /\ main \in Stage \cup {"listen", "closeDB", "closePool", "sync", "exited"} \/ kind = "http"
          => "listener" \notin held
    /\ main = "listen" => kind # "http"

\* The reports in the channel come from goroutines that have ended.
Sent(s) == IF server[s] \in {"failed", "stopped"} THEN 1 ELSE 0
OneReportEach == Len(serverErrors) <= Sent("calls") + Sent("metrics")

\* Why run() is where it is.
CauseIsKnown ==
    /\ main \in Before \cup {"notify", "select"} <=> cause = None
    /\ main = "drain" => kind # "rpc" /\ cause = "signal"
    /\ main = "awaitAccept" => kind = "rpc"
    /\ cause \in {"killed", "panic"} => main = "crashed"
    /\ cause = "gorm" => main = "exited"

\* Nobody is served before the servers start, or if they never do.
NobodyYet ==
    main \in Before \/ cause \in {"bootstrap", "gorm"} =>
        /\ \A s \in Both : server[s] = "off"
        /\ open = {}
        /\ \A c \in Client : Idle(c)

\* Before anything has gone wrong a request in flight has its connection.
InFlightIsOpen ==
    cause \in {None, "signal"} => \A c \in Client : Idle(c) \/ c \in open

\* A signal ends what is idle at once and the rest before run() goes on.
SignalDrains ==
    kind # "rpc" /\ cause = "signal" /\ main # "crashed" =>
        /\ server["calls"] # "running"
        /\ \A c \in open : ~Idle(c)
        /\ main = "drain" \/ (open = {} /\ \A c \in Client : Idle(c))

\* A report of an error comes from a server that has failed, one of an end from a
\* server that has ended, and none ends before run() has left its select; so when
\* run() leaves without stopping its servers one of them has failed.
Reports == {serverErrors[i] : i \in 1..Len(serverErrors)}
OneFailed == \E s \in Both : server[s] = "failed"
ServersStop ==
    /\ "error" \in Reports \/ cause = "failed" => OneFailed
    /\ "closed" \in Reports => \E s \in Both : server[s] = "stopped"
    /\ cause = None => \A s \in Both : server[s] \notin {"stopping", "stopped"}
    /\ main \in {"drain", "awaitAccept", "stopMetrics"} => server["calls"] # "running"
    /\ main \in {"closeListener", "closeDB", "closePool", "sync", "exited"} =>
          \/ OneFailed
          \/ server["calls"] # "running"
             /\ (server["metrics"] = "running" => kind = "http" /\ cause = "overdue")

\* What a request carries on its way out, and after it.
CarriesWell(q) ==
    /\ q.at # "idle" => q.answer = None
    /\ kind # "rpc" /\ q.call = "use case" /\ q.error # "panic"
          /\ (q.at = "answering" \/ q.answer # None)
       => q.counted = ClassOf(q.error)
    /\ kind = "http" /\ q.call = "use case" /\ q.error # "panic" /\ q.answer # None
       => ClassifyHTTPOutcome(q.answer) = ClassOf(q.error)
    /\ kind = "grpc" /\ q.call = "use case" /\ q.error # "panic" /\ q.answer # None
       => ClassifyGRPCOutcome(q.answer) = ClassOf(q.error)

Carries == \A c \in Client : CarriesWell(request[c])

IInv == TypeOK /\ HeldIsOwned /\ OneReportEach /\ CauseIsKnown /\ NobodyYet
           /\ InFlightIsOpen /\ SignalDrains /\ ServersStop /\ NobodyMeetsAClosedDatabase
           /\ Carries

----------------------------------------------------------------------------------
(***************************************************************************)
(* The tables of errors agree.                                             *)
(***************************************************************************)
LEMMA HTTPAgrees ==
    ASSUME NEW q \in Request, q.call # "unknown", q.error # "panic"
    PROVE  /\ ClassifyHTTPOutcome(Middleware(q).status) = ClassOf(q.error)
           /\ RequestContext(Middleware(q)).status = Middleware(q).status
<1> DEFINE h == Handled(q)
<1>1. h = [status |-> "StatusOK", written |-> q.error = None, error |-> q.error]
  BY DEF Handled
<1>2. Middleware(q) = ErrorHandler(h)
  BY DEF Middleware
<1>3. CASE q.error = None
  <2>1. Middleware(q) = h
    BY <1>1, <1>2, <1>3 DEF ErrorHandler
  <2> QED  BY <2>1, <1>1, <1>3 DEF ClassifyHTTPOutcome, ClassOf, RequestContext
<1>4. CASE q.error # None
  <2>1. Middleware(q) = [status |-> HTTPStatusFor(AsAppError(q.error)), written |-> TRUE,
                         error |-> q.error]
    <3>0. (q.error = None) = FALSE
      BY <1>4
    <3>1. h = [status |-> "StatusOK", written |-> FALSE, error |-> q.error]
      BY <1>1, <3>0
    <3>2. h.error # None /\ ~h.written
      BY <3>1, <1>4
    <3>3. ErrorHandler(h) = [h EXCEPT !.status = HTTPStatusFor(AsAppError(h.error)),
                                      !.written = TRUE]
      BY <3>2 DEF ErrorHandler
    <3> HIDE DEF h
    <3> QED  BY <1>2, <3>1, <3>3
  <2>2. ClassifyHTTPOutcome(HTTPStatusFor(AsAppError(q.error))) = ClassOf(q.error)
    BY <1>4 DEF ClassifyHTTPOutcome, HTTPStatusFor, ClassOf, AsAppError, AppCode
  <2> QED  BY <2>1, <2>2 DEF RequestContext
<1> QED  BY <1>3, <1>4

LEMMA GRPCAgrees ==
    ASSUME NEW e
    PROVE  ClassifyGRPCOutcome(MapError(e)) = ClassOf(e)
BY DEF ClassifyGRPCOutcome, MapError, ClassOf, AsAppError, AppCode

\* What is counted and what is answered are of the right types.
LEMMA Tables ==
    ASSUME NEW q \in Request
    PROVE  /\ Counted(q) \in Outcome \cup {None}
           /\ Answered(q) \in Status \cup Code \cup Reply
<1>1. \A s : ClassifyHTTPOutcome(s) \in Outcome
  BY DEF ClassifyHTTPOutcome, Outcome
<1>2. \A s : ClassifyGRPCOutcome(s) \in Outcome
  BY DEF ClassifyGRPCOutcome, Outcome
<1>3. ClassifyRPCOutcome(None) \in Outcome
  BY DEF ClassifyRPCOutcome, ClassOf, Outcome
<1>4. MapError(q.error) \in Code
  BY DEF MapError, Code, AsAppError, AppCode
<1>5. RequestContext(Middleware(q)).status \in Status
  <2>1. \A x : HTTPStatusFor(x) \in Status
    BY DEF HTTPStatusFor, Status
  <2>2. Handled(q) \in [status : Status, written : BOOLEAN, error : Error \cup {None}]
    BY DEF Handled, Status, Request
  <2>3. Middleware(q).status \in Status
    BY <2>1, <2>2 DEF Middleware, ErrorHandler, Recovery
  <2>4. Middleware(q) \in [status : Status, written : BOOLEAN,
                            error : Error \cup {None, "INTERNAL_ERROR"}]
    BY <2>1, <2>2 DEF Middleware, ErrorHandler, Recovery
  <2> QED  BY <2>3, <2>4 DEF RequestContext, Status
<1> QED  BY <1>1, <1>2, <1>3, <1>4, <1>5 DEF Counted, Answered, Code, Reply

----------------------------------------------------------------------------------
(***************************************************************************)
(* What the steps leave alone.                                             *)
(***************************************************************************)
Requests(c) == Serve(c) \/ Connect(c)
                  \/ \E call \in {"use case", "ready", "unknown"} : Arrive(c, call)

LEMMA Steps ==
    ASSUME [Next]_vars
    PROVE  \/ Run
           \/ Killed
           \/ \E s \in Both : ServerFails(s) \/ ServerStops(s)
           \/ \E c \in Client : Requests(c)
           \/ UNCHANGED vars
BY DEF Next, Rest, Requests, Both

LEMMA RunLeavesRequests ==
    ASSUME Run \/ Killed \/ \E s \in Both : ServerFails(s) \/ ServerStops(s)
    PROVE  UNCHANGED <<kind, request>>
<1>1. CASE Run
  BY <1>1 DEF Run, StageSucceeds, StageFails, Listen, StartServers, Notify, TakeServerError,
       TakeSignal, Drained, Overdue, AwaitAccept, StopMetrics, CloseListener, CloseDB,
       ClosePool, Sync
<1>2. CASE Killed \/ \E s \in Both : ServerFails(s) \/ ServerStops(s)
  BY <1>2 DEF Killed, ServerFails, ServerStops
<1> QED  BY <1>1, <1>2

LEMMA RequestsLeaveRun ==
    ASSUME NEW c \in Client, Requests(c)
    PROVE  /\ UNCHANGED <<kind, held, server, serverErrors>>
           /\ Alive
           /\ \/ UNCHANGED <<main, cause>>
              \/ /\ main' = "crashed" /\ cause' = IF cause = None THEN "panic" ELSE cause
                 /\ kind # "http" /\ UNCHANGED <<open, request>>
BY DEF Requests, Serve, Connect, Arrive, Execute, Executed, Finish, Ping, Pinged, Panic,
       Count, Answer, Becomes

LEMMA GoroutinesLeaveRun ==
    ASSUME NEW s \in Both, ServerFails(s) \/ ServerStops(s)
    PROVE  UNCHANGED <<kind, main, held, cause, open, request>>
BY DEF ServerFails, ServerStops

LEMMA InitIInv == Init => IInv
<1> SUFFICES ASSUME Init  PROVE IInv
  OBVIOUS
<1>1. TypeOK
  BY DEF Init, TypeOK, Place, Stage, Resource, Request, NoRequest, Error
<1>2. HeldIsOwned /\ CauseIsKnown
  BY ServerAssumption DEF Init, HeldIsOwned, CauseIsKnown, Owns, Stage, Before, Cause
<1>3. OneReportEach
  BY DEF Init, OneReportEach, Sent
<1>4. NobodyYet /\ InFlightIsOpen /\ NobodyMeetsAClosedDatabase /\ Carries
  BY ServerAssumption DEF Init, NobodyYet, InFlightIsOpen, NobodyMeetsAClosedDatabase, Carries,
       CarriesWell, NoRequest, Idle, Before, Stage, Both
<1>5. SignalDrains
  BY ServerAssumption DEF Init, SignalDrains, Cause
<1>6. ServersStop
  BY ServerAssumption DEF Init, ServersStop, Reports, OneFailed, Cause, Both
<1> QED  BY <1>1, <1>2, <1>3, <1>4, <1>5, <1>6 DEF IInv
----------------------------------------------------------------------------------
(***************************************************************************)
(* Types, and the capacity of the channel.                                 *)
(***************************************************************************)
LEMMA RunKeepsTypes == TypeOK /\ Run => TypeOK'
<1> SUFFICES ASSUME TypeOK, Run  PROVE TypeOK'
  OBVIOUS
<1> USE DEF TypeOK, Place, Gone, Cause
<1>1. CASE StageSucceeds
  <2>1. Opens[main] \subseteq Resource
    BY <1>1 DEF StageSucceeds, Stage, Opens, Resource
  <2>2. After(main) \in Place
    BY <1>1 DEF StageSucceeds, Stage, After
  <2> QED  BY <1>1, <2>1, <2>2 DEF StageSucceeds
<1>2. CASE StageFails
  BY <1>2 DEF StageFails
<1>3. CASE Listen
  BY <1>3 DEF Listen, Resource
<1>4. CASE StartServers \/ Notify
  BY <1>4 DEF StartServers, Notify
<1>5. CASE TakeServerError
  BY <1>5 DEF TakeServerError, Return
<1>6. CASE TakeSignal
  BY <1>6 DEF TakeSignal, StopServer
<1>7. CASE Drained \/ Overdue
  BY <1>7 DEF Drained, Overdue, Return
<1>8. CASE AwaitAccept
  BY <1>8 DEF AwaitAccept, Return
<1>9. CASE StopMetrics \/ CloseListener
  BY <1>9 DEF StopMetrics, CloseListener, StopServer, Return
<1>10. CASE CloseDB \/ ClosePool \/ Sync
  BY <1>10 DEF CloseDB, ClosePool, Sync
<1> QED  BY <1>1, <1>2, <1>3, <1>4, <1>5, <1>6, <1>7, <1>8, <1>9, <1>10 DEF Run

LEMMA Shapes ==
    ASSUME NEW q \in Request, NEW at \in {"handler", "executing", "pinging"},
           NEW e \in Error \cup {None}
    PROVE  /\ Moved(q, at) \in Request /\ Ended(q, e) \in Request
           /\ Moved(q, at).at = at /\ Moved(q, at).error = q.error
           /\ Moved(q, at).answer = q.answer
           /\ Ended(q, e).at = "counting" /\ Ended(q, e).error = e
           /\ Ended(q, e).answer = None
BY DEF Moved, Ended, Request

\* A request's step makes of it another request.
LEMMA Becoming ==
    ASSUME TypeOK, NEW c \in Client, NEW q \in Request, Becomes(c, q)
    PROVE  /\ request' \in [Client -> Request]
           /\ request'[c] = q
           /\ \A d \in Client \ {c} : request'[d] = request[d]
BY DEF TypeOK, Becomes

LEMMA RequestsKeepTypes ==
    ASSUME TypeOK, NEW c \in Client, Requests(c)
    PROVE  TypeOK'
<1>1. request[c] \in Request /\ open \subseteq Client /\ request \in [Client -> Request]
  BY DEF TypeOK
<1>2. "closed" \in Error /\ "panic" \in Error /\ Failure \subseteq Error
  BY DEF Error
<1>3. request' \in [Client -> Request]
  <2>1. CASE Connect(c)
    BY <2>1, <1>1 DEF Connect
  <2>2. CASE \E call \in {"use case", "ready", "unknown"} : Arrive(c, call)
    <3> PICK call \in {"use case", "ready", "unknown"} : Arrive(c, call)
      BY <2>2
    <3>1. [at |-> IF call = "unknown" THEN "counting" ELSE "handler", call |-> call,
           error |-> None, counted |-> None, answer |-> None] \in Request
      BY DEF Request
    <3> QED  BY <3>1, Becoming DEF Arrive
  <2>3. CASE Execute(c) \/ Ping(c) \/ Executed(c)
    BY <2>3, <1>1, <1>2, Shapes, Becoming DEF Execute, Ping, Executed
  <2>4. CASE Finish(c) \/ Pinged(c)
    BY <2>4, <1>1, <1>2, Shapes, Becoming DEF Finish, Pinged
  <2>5. CASE Panic(c)
    BY <2>5, <1>1, <1>2, Shapes, Becoming DEF Panic
  <2>6. CASE Count(c)
    <3> DEFINE q == [at |-> "answering", call |-> request[c].call, error |-> request[c].error,
                     counted |-> Counted(request[c]), answer |-> None]
    <3>1. q \in Request
      BY <1>1, Tables DEF Request
    <3>2. Becomes(c, q)
      BY <2>6 DEF Count
    <3> HIDE DEF q
    <3> QED  BY <3>1, <3>2, Becoming
  <2>7. CASE Answer(c)
    <3> DEFINE q == [at |-> "idle", call |-> request[c].call, error |-> request[c].error,
                     counted |-> request[c].counted,
                     answer |-> IF c \in open THEN Answered(request[c]) ELSE None]
    <3>1. q \in Request
      BY <1>1, Tables DEF Request
    <3>2. Becomes(c, q)
      BY <2>7 DEF Answer
    <3> HIDE DEF q
    <3> QED  BY <3>1, <3>2, Becoming
  <2> QED  BY <2>1, <2>2, <2>3, <2>4, <2>5, <2>6, <2>7 DEF Requests, Serve
<1>4. open' \subseteq Client
  BY <1>1 DEF Requests, Serve, Connect, Arrive, Execute, Executed, Finish, Ping, Pinged, Panic,
     Count, Answer
<1> QED  BY <1>3, <1>4, RequestsLeaveRun DEF TypeOK, Place, Gone, Cause

LEMMA TypesKept ==
    TypeOK /\ OneReportEach /\ NobodyYet /\ [Next]_vars => TypeOK' /\ OneReportEach'
<1> SUFFICES ASSUME TypeOK, OneReportEach, NobodyYet, [Next]_vars
             PROVE  TypeOK' /\ OneReportEach'
  OBVIOUS
<1>1. CASE Run
  <2>1. TypeOK'
    BY <1>1, RunKeepsTypes
  <2>2. \A s \in Both : Sent(s)' >= Sent(s)
    <3>1. CASE \E t \in Both : StopServer(t)
      BY <3>1 DEF StopServer, Sent, Both, TypeOK
    <3>2. CASE UNCHANGED server
      BY <3>2 DEF Sent
    <3>3. CASE StartServers
      <4>1. \A s \in Both : server[s] \notin {"failed", "stopped"}
        BY <3>3 DEF StartServers, NobodyYet, Before
      <4> QED  BY <4>1, <3>3 DEF Sent, StartServers, Both
    <3> QED  BY <1>1, <3>1, <3>2, <3>3 DEF Both, Run, StageSucceeds, StageFails, Listen, Notify,
         TakeServerError, TakeSignal, Drained, Overdue, AwaitAccept, StopMetrics,
         CloseListener, CloseDB, ClosePool, Sync
  <2>3. Len(serverErrors') <= Len(serverErrors)
    BY <1>1 DEF Run, StageSucceeds, StageFails, Listen, StartServers, Notify,
         TakeServerError, TakeSignal, Drained, Overdue, AwaitAccept, StopMetrics,
         CloseListener, CloseDB, ClosePool, Sync, TypeOK
  <2> QED  BY <2>1, <2>2, <2>3 DEF OneReportEach, TypeOK, Sent, Both
<1>2. CASE Killed
  BY <1>2 DEF Killed, TypeOK, OneReportEach, Sent, Place, Gone, Cause
<1>3. CASE \E s \in Both : ServerFails(s) \/ ServerStops(s)
  <2> PICK s \in Both : ServerFails(s) \/ ServerStops(s)
    BY <1>3
  <2>1. server' \in [Both -> {"off", "running", "failed", "stopping", "stopped"}]
    BY DEF TypeOK, ServerFails, ServerStops, Both
  <2>2. Sent(s) = 0 /\ Sent(s)' = 1 /\ \A t \in Both \ {s} : Sent(t)' = Sent(t)
    BY DEF TypeOK, ServerFails, ServerStops, Both, Sent
  <2>3. /\ serverErrors' \in Seq({"error", "closed"})
        /\ Len(serverErrors') = Len(serverErrors) + 1
    BY DEF TypeOK, ServerFails, ServerStops
  <2>4. OneReportEach'
    BY <2>2, <2>3 DEF OneReportEach, Both, Sent, TypeOK
  <2>5. Len(serverErrors') <= 2
    BY <2>3, <2>4 DEF OneReportEach, Sent
  <2> QED  BY <2>1, <2>3, <2>4, <2>5 DEF TypeOK, ServerFails, ServerStops, Both
<1>4. CASE \E c \in Client : Requests(c)
  BY <1>4, RequestsKeepTypes, RequestsLeaveRun DEF OneReportEach, Sent
<1>5. CASE UNCHANGED vars
  BY <1>5 DEF vars, TypeOK, OneReportEach, Sent
<1> QED  BY <1>1, <1>2, <1>3, <1>4, <1>5, Steps

----------------------------------------------------------------------------------
(***************************************************************************)
(* What is open, and why, at each place of run().                          *)
(***************************************************************************)
LEMMA RunKeepsPlaces ==
    ASSUME IInv, Run
    PROVE  HeldIsOwned' /\ CauseIsKnown'
<1>1. UNCHANGED kind /\ main # "crashed"
  BY RunLeavesRequests DEF Run, StageSucceeds, StageFails, Listen, StartServers, Notify,
     TakeServerError, TakeSignal, Drained, Overdue, AwaitAccept, StopMetrics, CloseListener,
     CloseDB, ClosePool, Sync, Stage
<1>2. /\ held \ {"listener"} = Owns(main)
      /\ main \in Stage \cup {"listen", "closeDB", "closePool", "sync", "exited"} \/ kind = "http"
            => "listener" \notin held
  BY <1>1 DEF IInv, HeldIsOwned, Gone, Run, StageSucceeds, StageFails, Listen, StartServers, Notify,
     TakeServerError, TakeSignal, Drained, Overdue, AwaitAccept, StopMetrics, CloseListener,
     CloseDB, ClosePool, Sync, Stage
<1>3. CauseIsKnown /\ None \notin Cause
  BY ServerAssumption DEF IInv
<1> USE DEF Stage, Before, Cause, Gone
<1>4. CASE StageSucceeds
  <2>1. main \in Stage /\ held' = held \cup Opens[main] /\ main' = After(main)
           /\ UNCHANGED cause
    BY <1>4 DEF StageSucceeds
  <2>2. held' \ {"listener"} = Owns(main')
    BY <1>2, <2>1 DEF Opens, After, Owns
  <2>3. "listener" \notin held'
    BY <1>2, <2>1 DEF Opens
  <2>4. main' \in Before /\ (main' = "listen" => kind # "http")
    BY <2>1 DEF After
  <2> QED  BY <1>1, <1>3, <2>1, <2>2, <2>3, <2>4 DEF HeldIsOwned, CauseIsKnown
<1>5. CASE StageFails
  <2>1. held' = IF main \in {"pingGorm", "getDB"} THEN {"db"} ELSE {}
    BY <1>2, <1>5 DEF StageFails, Unwinds, Owns
  <2> QED  BY <1>3, <1>5, <2>1 DEF StageFails, HeldIsOwned, CauseIsKnown, Owns
<1>6. CASE Listen
  <2>1. kind # "http" /\ held = {"logger", "pool", "db"}
    BY <1>2, <1>6 DEF Listen, Owns, IInv, HeldIsOwned
  <2> QED  BY <1>1, <1>3, <1>6, <2>1 DEF Listen, HeldIsOwned, CauseIsKnown, Owns
<1>7. CASE StartServers \/ Notify \/ TakeServerError
  BY <1>1, <1>2, <1>3, <1>7
     DEF StartServers, Notify, TakeServerError, HeldIsOwned, CauseIsKnown, Owns, Return
<1>8. CASE TakeSignal
  BY <1>1, <1>2, <1>3, <1>8 DEF TakeSignal, HeldIsOwned, CauseIsKnown, Owns
<1>9. CASE Drained \/ Overdue \/ AwaitAccept
  BY <1>1, <1>2, <1>3, <1>9
     DEF Drained, Overdue, AwaitAccept, HeldIsOwned, CauseIsKnown, Owns, Return
<1>10. CASE StopMetrics
  BY <1>1, <1>2, <1>3, <1>10 DEF StopMetrics, HeldIsOwned, CauseIsKnown, Owns, Return
<1>11. CASE CloseListener \/ CloseDB \/ ClosePool \/ Sync
  BY <1>1, <1>2, <1>3, <1>11
     DEF CloseListener, CloseDB, ClosePool, Sync, HeldIsOwned, CauseIsKnown, Owns
<1> QED  BY <1>4, <1>5, <1>6, <1>7, <1>8, <1>9, <1>10, <1>11 DEF Run

LEMMA PlacesKept ==
    ASSUME IInv, [Next]_vars
    PROVE  HeldIsOwned' /\ CauseIsKnown'
<1>1. HeldIsOwned /\ CauseIsKnown /\ None \notin Cause
  BY ServerAssumption DEF IInv
<1>2. CASE Run
  BY <1>2, RunKeepsPlaces
<1>3. CASE Killed
  BY <1>1, <1>3 DEF Killed, HeldIsOwned, CauseIsKnown, Before, Stage, Cause, Gone
<1>4. CASE \E c \in Client : Requests(c)
  <2>1. UNCHANGED <<kind, held>>
    BY <1>4, RequestsLeaveRun
  <2>0. main \notin Gone
    BY <1>4, RequestsLeaveRun DEF Alive
  <2>2. CASE UNCHANGED <<main, cause>>
    BY <1>1, <2>1, <2>2 DEF HeldIsOwned, CauseIsKnown
  <2>3. CASE main' = "crashed" /\ cause' = (IF cause = None THEN "panic" ELSE cause) /\ kind # "http"
    BY <1>1, <2>0, <2>1, <2>3 DEF HeldIsOwned, CauseIsKnown, Before, Stage, Cause, Gone
  <2> QED  BY <1>4, <2>2, <2>3, RequestsLeaveRun
<1>5. CASE \/ \E s \in Both : ServerFails(s) \/ ServerStops(s)
           \/ UNCHANGED vars
  <2>1. UNCHANGED <<kind, main, held, cause>>
    BY <1>5, GoroutinesLeaveRun DEF vars
  <2> QED  BY <1>1, <2>1 DEF HeldIsOwned, CauseIsKnown
<1> QED  BY <1>2, <1>3, <1>4, <1>5, Steps

LEMMA NobodyYetKept ==
    ASSUME IInv, [Next]_vars
    PROVE  NobodyYet'
<1>1. CauseIsKnown /\ CauseIsKnown' /\ NobodyYet /\ None \notin Cause
  BY PlacesKept, ServerAssumption DEF IInv
<1>2. SUFFICES ASSUME main' \in Before \/ cause' \in {"bootstrap", "gorm"}
               PROVE  /\ \A s \in Both : server'[s] = "off"
                      /\ open' = {} /\ \A c \in Client : request'[c].at = "idle"
  BY DEF NobodyYet, Idle
<1>3. (main \in Before \/ cause \in {"bootstrap", "gorm"})
      => (\A s \in Both : server[s] = "off") /\ open = {} /\ \A c \in Client : Idle(c)
  BY <1>1 DEF NobodyYet
<1>4. CASE Run
  <2>1. main \in Before \/ cause \in {"bootstrap", "gorm"}
    BY <1>1, <1>2, <1>4 DEF Run, StageSucceeds, StageFails, Listen, StartServers, Notify,
       TakeServerError, TakeSignal, Drained, Overdue, AwaitAccept, StopMetrics, CloseListener,
       CloseDB, ClosePool, Sync, Before, Stage, Return, Cause
  <2>2. ~StartServers
    BY <1>1, <1>2 DEF StartServers, CauseIsKnown, Before, Stage, Cause
  <2>3. /\ open' \subseteq open
        /\ UNCHANGED server \/ \E t \in Both : StopServer(t)
    BY <1>4, <2>2 DEF Run, StageSucceeds, StageFails, Listen, Notify,
       TakeServerError, TakeSignal, Drained, Overdue, AwaitAccept, StopMetrics, CloseListener,
       CloseDB, ClosePool, Sync, Both
  <2>4. \A s \in Both : server'[s] = "off"
    BY <1>3, <2>1, <2>3 DEF StopServer, IInv, TypeOK, Both
  <2> QED  BY <1>3, <1>4, <2>1, <2>3, <2>4, RunLeavesRequests DEF Idle
<1>5. CASE Killed
  BY <1>2, <1>5 DEF Killed, Before, Stage
<1>6. CASE \E s \in Both : ServerFails(s) \/ ServerStops(s)
  BY <1>2, <1>3, <1>6 DEF ServerFails, ServerStops
<1>7. CASE \E c \in Client : Requests(c)
  <2> PICK c \in Client : Requests(c)
    BY <1>7
  <2>1. main \in Before \/ cause \in {"bootstrap", "gorm"}
    BY <1>1, <1>2, RequestsLeaveRun DEF Before, Stage, Cause
  <2>2. FALSE
    BY <1>3, <2>1 DEF Requests, Serve, Connect, Arrive, Execute, Executed, Finish, Ping, Pinged,
       Panic, Count, Answer, Idle, Both
  <2> QED  BY <2>2
<1>8. CASE UNCHANGED vars
  BY <1>2, <1>3, <1>8 DEF vars, Idle
<1> QED  BY <1>4, <1>5, <1>6, <1>7, <1>8, Steps

----------------------------------------------------------------------------------
(***************************************************************************)
(* Requests in flight.                                                     *)
(***************************************************************************)
\* What one request's step does to the others, and to its own connection.
LEMMA OneAtATime ==
    ASSUME IInv, NEW c \in Client, Requests(c)
    PROVE  /\ \A d \in Client \ {c} : request'[d] = request[d] /\ (d \in open' <=> d \in open)
           /\ \/ request'[c] = request[c] /\ open \subseteq open'
              \/ request'[c].at # "idle" /\ open' = open /\ (Idle(c) => c \in open)
              \/ ~Idle(c) /\ request'[c].at = "idle" /\ (Draining => c \notin open')
           /\ c \in open' /\ c \notin open => server["calls"] = "running" /\ Idle(c)
<1>1. TypeOK /\ request[c] \in Request /\ "closed" \in Error /\ "panic" \in Error
         /\ Failure \subseteq Error
  BY DEF IInv, TypeOK, Error
<1>2. \A d \in Client \ {c} : request'[d] = request[d] /\ (d \in open' <=> d \in open)
  BY <1>1 DEF Requests, Serve, Connect, Arrive, Execute, Executed, Finish, Ping, Pinged, Panic,
     Count, Answer, Becomes, TypeOK
<1>3. CASE Connect(c)
  BY <1>2, <1>3 DEF Connect
<1>4. CASE \E call \in {"use case", "ready", "unknown"} : Arrive(c, call)
  <2> PICK call \in {"use case", "ready", "unknown"} : Arrive(c, call)
    BY <1>4
  <2> DEFINE q == [at |-> IF call = "unknown" THEN "counting" ELSE "handler", call |-> call,
                   error |-> None, counted |-> None, answer |-> None]
  <2>1. q \in Request /\ q.at # "idle"
    BY DEF Request
  <2>2. Becomes(c, q) /\ UNCHANGED open /\ c \in open
    BY DEF Arrive
  <2> HIDE DEF q
  <2>3. request'[c] = q
    BY <1>1, <2>1, <2>2, Becoming
  <2> QED  BY <1>2, <2>1, <2>2, <2>3
<1>5. CASE Execute(c) \/ Ping(c) \/ Executed(c) \/ Finish(c) \/ Pinged(c)
  <2>1. UNCHANGED open /\ ~Idle(c)
    BY <1>5 DEF Execute, Ping, Executed, Finish, Pinged, Idle
  <2>2. request'[c].at # "idle"
    <3>1. CASE Execute(c) \/ Ping(c) \/ Executed(c)
      <4>1. \E at \in {"handler", "executing", "pinging"} :
                Becomes(c, Moved(request[c], at)) \/ Becomes(c, Ended(request[c], "closed"))
        BY <3>1 DEF Execute, Ping, Executed
      <4>2. CASE Becomes(c, Ended(request[c], "closed"))
        <5>1. Ended(request[c], "closed") \in Request
                 /\ Ended(request[c], "closed").at # "idle"
          BY <1>1, Shapes
        <5> QED  BY <1>1, <4>2, <5>1, Becoming
      <4>3. CASE \E at \in {"handler", "executing", "pinging"} : Becomes(c, Moved(request[c], at))
        <5> PICK at \in {"handler", "executing", "pinging"} : Becomes(c, Moved(request[c], at))
          BY <4>3
        <5>1. Moved(request[c], at) \in Request /\ Moved(request[c], at).at = at
          BY <1>1, Shapes
        <5> QED  BY <1>1, <5>1, Becoming
      <4> QED  BY <4>1, <4>2, <4>3
    <3>2. CASE Finish(c) \/ Pinged(c)
      <4>1. \E e \in Error \cup {None} : Becomes(c, Ended(request[c], e))
        BY <1>1, <3>2 DEF Finish, Pinged
      <4> QED  BY <1>1, <4>1, Shapes, Becoming
    <3> QED  BY <1>5, <3>1, <3>2
  <2> QED  BY <1>2, <2>1, <2>2
<1>6. CASE Panic(c)
  <2>1. UNCHANGED open /\ ~Idle(c)
    BY <1>6 DEF Panic, Idle
  <2>2. request'[c] = request[c] \/ request'[c].at # "idle"
    BY <1>1, <1>6, Shapes, Becoming DEF Panic
  <2> QED  BY <1>2, <2>1, <2>2
<1>7. CASE Count(c)
  BY <1>1, <1>2, <1>7 DEF Count, Becomes, TypeOK, Idle
<1>8. CASE Answer(c)
  BY <1>1, <1>2, <1>8 DEF Answer, Becomes, TypeOK, Idle
<1> QED  BY <1>3, <1>4, <1>5, <1>6, <1>7, <1>8 DEF Requests, Serve

LEMMA InFlightKept ==
    ASSUME IInv, [Next]_vars
    PROVE  InFlightIsOpen'
<1>1. InFlightIsOpen /\ CauseIsKnown /\ None \notin Cause
  BY ServerAssumption DEF IInv
<1>2. SUFFICES ASSUME cause' \in {None, "signal"}, NEW d \in Client
               PROVE  request'[d].at = "idle" \/ d \in open'
  BY DEF InFlightIsOpen, Idle
<1>3. CASE Run
  <2>1. cause \in {None, "signal"}
    BY <1>1, <1>2, <1>3 DEF Run, StageSucceeds, StageFails, Listen, StartServers, Notify,
       TakeServerError, TakeSignal, Drained, Overdue, AwaitAccept, StopMetrics, CloseListener,
       CloseDB, ClosePool, Sync, Cause, CauseIsKnown, Before
  <2>2. open' = open \/ open' = {c \in open : ~Idle(c)}
    BY <1>1, <1>2, <1>3 DEF Run, StageSucceeds, StageFails, Listen, StartServers, Notify,
       TakeServerError, TakeSignal, Drained, Overdue, AwaitAccept, StopMetrics, CloseListener,
       CloseDB, ClosePool, Sync, Cause
  <2> QED  BY <1>1, <1>3, <2>1, <2>2, RunLeavesRequests DEF InFlightIsOpen, Idle
<1>4. CASE Killed
  BY <1>1, <1>2, <1>4 DEF Killed, Cause
<1>5. CASE \E c \in Client : Requests(c)
  <2> PICK c \in Client : Requests(c)
    BY <1>5
  <2>1. cause \in {None, "signal"}
    BY <1>1, <1>2, RequestsLeaveRun DEF Cause
  <2>2. Idle(d) \/ d \in open
    BY <1>1, <2>1 DEF InFlightIsOpen
  <2> QED  BY <2>2, OneAtATime DEF Idle
<1>6. CASE \/ \E s \in Both : ServerFails(s) \/ ServerStops(s)
           \/ UNCHANGED vars
  <2>1. UNCHANGED <<cause, open, request>>
    BY <1>6, GoroutinesLeaveRun DEF vars
  <2> QED  BY <1>1, <1>2, <2>1 DEF InFlightIsOpen, Idle
<1> QED  BY <1>3, <1>4, <1>5, <1>6, Steps

LEMMA SignalDrainsKept ==
    ASSUME IInv, [Next]_vars
    PROVE  SignalDrains'
<1>1. /\ SignalDrains /\ InFlightIsOpen /\ CauseIsKnown /\ None \notin Cause
      /\ InFlightIsOpen' /\ CauseIsKnown' /\ UNCHANGED kind
  BY PlacesKept, InFlightKept, ServerAssumption, RunLeavesRequests, RequestsLeaveRun,
     GoroutinesLeaveRun, Steps DEF IInv, vars
<1>2. SUFFICES ASSUME kind # "rpc", cause' = "signal", main' # "crashed"
               PROVE  /\ server'["calls"] # "running"
                      /\ \A c \in open' : request'[c].at # "idle"
                      /\ \/ main' = "drain"
                         \/ open' = {} /\ \A c \in Client : request'[c].at = "idle"
  BY <1>1 DEF SignalDrains, Idle
<1>3. CASE TakeSignal
  <2>1. main' = "drain" /\ open' = {c \in open : ~Idle(c)} /\ UNCHANGED request
           /\ StopServer("calls")
    BY <1>2, <1>3 DEF TakeSignal
  <2>2. server'["calls"] # "running"
    BY <2>1 DEF StopServer, IInv, TypeOK
  <2> QED  BY <2>1, <2>2 DEF Idle
<1>4. CASE ~TakeSignal /\ Run
  <2>1. /\ cause = "signal" /\ main # "crashed" /\ UNCHANGED request
        /\ main' # "drain"
    BY <1>1, <1>2, <1>4, RunLeavesRequests
       DEF Run, StageSucceeds, StageFails, Listen, StartServers, Notify,
       TakeServerError, Drained, Overdue, AwaitAccept, StopMetrics, CloseListener,
       CloseDB, ClosePool, Sync, Cause, CauseIsKnown, Return, Stage, After
  <2>2. /\ server["calls"] # "running"
        /\ \A c \in open : ~Idle(c)
        /\ main = "drain" \/ (open = {} /\ \A c \in Client : Idle(c))
    BY <1>1, <1>2, <2>1 DEF SignalDrains
  <2>3. open = {} /\ \A c \in Client : Idle(c)
    <3>1. CASE main = "drain"
      <4>1. Drained
        BY <1>1, <1>2, <1>4, <2>1, <3>1
           DEF Run, StageSucceeds, StageFails, Listen, StartServers, Notify,
           TakeServerError, Overdue, AwaitAccept, StopMetrics, CloseListener,
           CloseDB, ClosePool, Sync, Stage
      <4>2. open = {}
        BY <2>2, <4>1 DEF Drained, IInv, TypeOK
      <4> QED  BY <1>1, <2>1, <4>2 DEF InFlightIsOpen
    <3> QED  BY <2>2, <3>1
  <2>4. open' = open
    BY <1>2, <1>4, <2>1 DEF Run, StageSucceeds, StageFails, Listen, StartServers, Notify,
       TakeServerError, Drained, Overdue, AwaitAccept, StopMetrics, CloseListener,
       CloseDB, ClosePool, Sync
  <2>5. server'["calls"] # "running"
    BY <1>1, <2>1, <2>2, <1>4 DEF Run, StageSucceeds, StageFails, Listen, StartServers, Notify,
       TakeServerError, Drained, Overdue, AwaitAccept, StopMetrics, CloseListener,
       CloseDB, ClosePool, Sync, StopServer, CauseIsKnown, Before, IInv, TypeOK, Cause
  <2> QED  BY <2>1, <2>3, <2>4, <2>5 DEF Idle
<1>5. CASE Killed
  BY <1>2, <1>5 DEF Killed
<1>6. CASE \E c \in Client : Requests(c)
  <2> PICK c \in Client : Requests(c)
    BY <1>6
  <2>1. UNCHANGED <<main, cause, server>> /\ main # "crashed" /\ cause = "signal"
    BY <1>2, RequestsLeaveRun DEF Alive, Gone
  <2>2. /\ server["calls"] # "running"
        /\ \A d \in open : ~Idle(d)
        /\ main = "drain" \/ (open = {} /\ \A d \in Client : Idle(d))
    BY <1>1, <1>2, <2>1 DEF SignalDrains
  <2>3. Draining
    BY <1>2, <2>1 DEF Draining
  <2>4. \A d \in open' : request'[d].at # "idle"
    BY <2>2, <2>3, OneAtATime, TypesKept DEF Idle, IInv, TypeOK
  <2>5. CASE open = {} /\ \A d \in Client : Idle(d)
    BY <2>1, <2>2, <2>5, OneAtATime, TypesKept DEF Idle, IInv, TypeOK
  <2> QED  BY <2>1, <2>2, <2>4, <2>5
<1>7. CASE \E s \in Both : ServerFails(s) \/ ServerStops(s)
  <2>1. UNCHANGED <<kind, main, held, cause, open, request>> /\ server'["calls"] # "running"
    BY <1>1, <1>2, <1>7, GoroutinesLeaveRun
       DEF ServerFails, ServerStops, Both, SignalDrains, IInv, TypeOK
  <2> QED  BY <1>1, <1>2, <2>1 DEF SignalDrains, Idle
<1>8. CASE UNCHANGED vars
  BY <1>1, <1>2, <1>8 DEF vars, SignalDrains, Idle
<1> QED  BY <1>3, <1>4, <1>5, <1>6, <1>7, <1>8, Steps

----------------------------------------------------------------------------------
(***************************************************************************)
(* What becomes of the servers.                                            *)
(***************************************************************************)
\* What a report adds to the channel, and what taking one leaves there.
LEMMA Channel ==
    ASSUME TypeOK, NEW x \in {"error", "closed"}
    PROVE  /\ {Append(serverErrors, x)[i] : i \in 1..Len(Append(serverErrors, x))}
                 \subseteq Reports \cup {x}
           /\ serverErrors # <<>> =>
                 /\ Head(serverErrors) \in Reports
                 /\ {Tail(serverErrors)[i] : i \in 1..Len(Tail(serverErrors))} \subseteq Reports
<1> DEFINE q == serverErrors
<1>1. q \in Seq({"error", "closed"}) /\ Reports = {q[i] : i \in 1..Len(q)}
  BY DEF TypeOK, Reports
<1> HIDE DEF q
<1>2. {Append(q, x)[i] : i \in 1..Len(Append(q, x))} \subseteq Reports \cup {x}
  <2> SUFFICES ASSUME NEW i \in 1..Len(Append(q, x))
               PROVE  Append(q, x)[i] \in Reports \cup {x}
    OBVIOUS
  <2> QED  BY <1>1
<1>3. ASSUME q # <<>>
      PROVE  /\ Head(q) \in Reports
             /\ {Tail(q)[i] : i \in 1..Len(Tail(q))} \subseteq Reports
  <2>1. Len(q) \in Nat \ {0} /\ Head(q) = q[1]
    BY <1>1, <1>3
  <2>2. ASSUME NEW i \in 1..Len(Tail(q))
        PROVE  Tail(q)[i] = q[i + 1] /\ i + 1 \in 1..Len(q)
    BY <1>1, <1>3
  <2> QED  BY <1>1, <2>1, <2>2
<1> QED  BY <1>2, <1>3 DEF q

\* run() only leaves its servers running when it has to.
LEMMA RunStopsServers ==
    ASSUME IInv, Run, UNCHANGED kind, CauseIsKnown'
    PROVE  ServersStop'
<1>1. /\ ServersStop /\ CauseIsKnown /\ None \notin Cause
      /\ server \in [Both -> {"off", "running", "failed", "stopping", "stopped"}]
  BY ServerAssumption DEF IInv, TypeOK, Both
<1>2. main \in Before => \A s \in Both : server[s] = "off"
  BY DEF IInv, NobodyYet
<1>3. Reports' \subseteq Reports
  <2>1. TypeOK
    BY DEF IInv
  <2>2. CASE UNCHANGED serverErrors
    BY <2>2 DEF Reports
  <2>3. CASE serverErrors # <<>> /\ serverErrors' = Tail(serverErrors)
    BY <2>1, <2>3, Channel DEF Reports
  <2> QED  BY <2>2, <2>3 DEF Run, StageSucceeds, StageFails, Listen, StartServers, Notify,
       TakeServerError, TakeSignal, Drained, Overdue, AwaitAccept, StopMetrics, CloseListener,
       CloseDB, ClosePool, Sync
<1>4. (TakeServerError \/ AwaitAccept) => Head(serverErrors) \in Reports
  BY Channel DEF TakeServerError, AwaitAccept, IInv
<1> USE DEF Before, Stage, Cause, Both
<1>5. CASE StageSucceeds
  <2>1. main' \in Before /\ UNCHANGED <<cause, server, serverErrors>>
    BY <1>5 DEF StageSucceeds, After
  <2> QED  BY <1>1, <1>3, <2>1 DEF ServersStop, OneFailed, Reports
<1>6. CASE StageFails \/ Listen
  <2>1. /\ UNCHANGED <<server, serverErrors>> /\ cause' # "failed"
        /\ cause = None /\ \A s \in Both : server[s] = "off"
        /\ main' \in {"exited", "start", "closeDB"}
    BY <1>1, <1>2, <1>6 DEF StageFails, Listen, CauseIsKnown
  <2> QED  BY <1>1, <2>1 DEF ServersStop, OneFailed, Reports
<1>7. CASE StartServers \/ Notify
  <2>1. /\ UNCHANGED <<cause, serverErrors>> /\ cause = None
        /\ main' \in {"notify", "select"}
        /\ \/ UNCHANGED server
           \/ /\ \A s \in Both : server[s] = "off"
              /\ server' = [s \in Both |-> "running"]
    BY <1>1, <1>2, <1>7 DEF StartServers, Notify, CauseIsKnown
  <2> QED  BY <1>1, <2>1 DEF ServersStop, OneFailed, Reports
<1>8. CASE TakeServerError
  <2>1. /\ UNCHANGED server /\ cause = None /\ cause' = "failed"
        /\ main' \in {"closeDB", "closeListener"}
    BY <1>1, <1>8 DEF TakeServerError, CauseIsKnown, Return
  <2>2. Head(serverErrors) \in {"error", "closed"}
    BY <1>8 DEF TakeServerError, IInv, TypeOK
  <2>3. "closed" \notin Reports
    BY <1>1, <2>1 DEF ServersStop
  <2>4. OneFailed /\ "closed" \notin Reports'
    BY <1>1, <1>3, <1>4, <1>8, <2>2, <2>3 DEF ServersStop
  <2> QED  BY <1>1, <2>1, <2>4 DEF ServersStop, OneFailed
<1>9. CASE TakeSignal \/ StopMetrics \/ CloseListener
  <2>1. /\ UNCHANGED serverErrors
        /\ cause' = cause \/ cause' = "signal"
        /\ cause' # None
        /\ \E s \in Both : StopServer(s)
    BY <1>1, <1>9 DEF TakeSignal, StopMetrics, CloseListener, CauseIsKnown
  <2>2. \A s \in Both : server[s] \in {"failed", "stopped"} => server'[s] = server[s]
    BY <1>1, <2>1 DEF StopServer
  <2>3. OneFailed => OneFailed'
    BY <2>2 DEF OneFailed
  <2>4. CASE TakeSignal
    <3>1. main' \in {"drain", "awaitAccept"} /\ server'["calls"] # "running"
      BY <1>1, <2>4 DEF TakeSignal, StopServer
    <3> QED  BY <1>1, <2>1, <2>2, <2>3, <3>1 DEF ServersStop, Reports
  <2>5. CASE StopMetrics
    <3>1. /\ main' \in {"closeDB", "closeListener"}
          /\ server'["calls"] # "running" /\ server'["metrics"] # "running"
      BY <1>1, <2>5 DEF StopMetrics, StopServer, Return, ServersStop
    <3> QED  BY <1>1, <2>1, <2>2, <2>3, <3>1 DEF ServersStop, Reports
  <2>6. CASE CloseListener
    <3>1. /\ main' = "closeDB" /\ UNCHANGED cause
          /\ server'["calls"] # "running" /\ server'["metrics"] = server["metrics"]
      BY <1>1, <2>6 DEF CloseListener, StopServer
    <3>2. \/ OneFailed
          \/ server["metrics"] = "running" => kind = "http" /\ cause = "overdue"
      BY <1>1, <2>6 DEF CloseListener, ServersStop
    <3> QED  BY <1>1, <2>1, <2>2, <2>3, <3>1, <3>2 DEF ServersStop, Reports
  <2> QED  BY <1>9, <2>4, <2>5, <2>6
<1>10. CASE Drained \/ CloseDB \/ ClosePool \/ Sync
  BY <1>1, <1>10
     DEF Drained, CloseDB, ClosePool, Sync, ServersStop, OneFailed, Reports, CauseIsKnown
<1>11. CASE Overdue
  BY <1>1, <1>11 DEF Overdue, Return, ServersStop, OneFailed, Reports
<1>12. CASE AwaitAccept
  <2>1. /\ UNCHANGED <<server, cause>> /\ main = "awaitAccept" /\ cause # None
        /\ main' = IF Head(serverErrors) = "error" THEN Return ELSE "stopMetrics"
    BY <1>1, <1>12 DEF AwaitAccept, CauseIsKnown
  <2>2. Head(serverErrors) = "error" => OneFailed
    BY <1>1, <1>4, <1>12 DEF ServersStop
  <2> QED  BY <1>1, <1>3, <2>1, <2>2 DEF ServersStop, OneFailed, Return
<1> QED  BY <1>5, <1>6, <1>7, <1>8, <1>9, <1>10, <1>11, <1>12 DEF Run

LEMMA ServersStopKept ==
    ASSUME IInv, [Next]_vars
    PROVE  ServersStop'
<1>1. /\ ServersStop /\ CauseIsKnown /\ CauseIsKnown' /\ None \notin Cause /\ TypeOK
      /\ server \in [Both -> {"off", "running", "failed", "stopping", "stopped"}]
  BY PlacesKept, ServerAssumption DEF IInv, TypeOK, Both
<1>2. CASE Run
  BY <1>1, <1>2, RunLeavesRequests, RunStopsServers
<1>3. CASE Killed
  BY <1>1, <1>3 DEF Killed, ServersStop, OneFailed, Reports, Cause
<1>4. CASE \E s \in Both : ServerFails(s) \/ ServerStops(s)
  <2> PICK s \in Both : ServerFails(s) \/ ServerStops(s)
    BY <1>4
  <2>1. UNCHANGED <<kind, main, cause>>
    BY GoroutinesLeaveRun
  <2>2. CASE ServerFails(s)
    <3>1. /\ server[s] = "running" /\ server' = [server EXCEPT ![s] = "failed"]
          /\ Reports' \subseteq Reports \cup {"error"}
      BY <1>1, <2>2, Channel DEF ServerFails, Reports
    <3>2. OneFailed'
      BY <1>1, <3>1 DEF OneFailed
    <3> QED  BY <1>1, <2>1, <3>1, <3>2 DEF ServersStop
  <2>3. CASE ServerStops(s)
    <3>1. /\ server[s] = "stopping" /\ server' = [server EXCEPT ![s] = "stopped"]
          /\ Reports' \subseteq Reports \cup {"closed"}
      BY <1>1, <2>3, Channel DEF ServerStops, Reports
    <3>2. OneFailed => OneFailed'
      BY <1>1, <3>1 DEF OneFailed
    <3>3. /\ server'[s] = "stopped"
          /\ \A t \in Both : server'[t] = "running" => server[t] = "running"
      BY <1>1, <3>1
    <3>4. cause # None
      BY <1>1, <3>1 DEF ServersStop
    <3> QED  BY <1>1, <2>1, <3>1, <3>2, <3>3, <3>4 DEF ServersStop, Both
  <2> QED  BY <2>2, <2>3
<1>5. CASE \E c \in Client : Requests(c)
  <2>1. /\ UNCHANGED <<kind, server, serverErrors>>
        /\ \/ UNCHANGED <<main, cause>>
           \/ main' = "crashed" /\ cause' = IF cause = None THEN "panic" ELSE cause
    BY <1>5, RequestsLeaveRun
  <2> QED  BY <1>1, <2>1 DEF ServersStop, OneFailed, Reports, Cause
<1>6. CASE UNCHANGED vars
  BY <1>1, <1>6 DEF vars, ServersStop, OneFailed, Reports
<1> QED  BY <1>2, <1>3, <1>4, <1>5, <1>6, Steps
----------------------------------------------------------------------------------
(***************************************************************************)
(* What requests meet, and what is said of them.                           *)
(***************************************************************************)
\* While somebody is served in order, both handles are open.
LEMMA HandlesAreOpen ==
    ASSUME IInv, NEW c \in Client, Alive, ~Idle(c), kind # "rpc", cause \notin {"failed", "overdue"}
    PROVE  "db" \in held /\ PoolUsable
<1>1. main # "crashed" /\ main # "exited" /\ cause \notin {"killed", "panic"} /\ main \notin Before
         /\ cause \notin {"bootstrap", "gorm"}
  BY DEF IInv, CauseIsKnown, Alive, Gone, NobodyYet
<1>2. main \in {"notify", "select", "drain"}
  <2>1. CASE cause = None
    BY <1>1, <2>1 DEF IInv, CauseIsKnown
  <2>2. CASE cause = "signal"
    BY <1>1, <2>2 DEF IInv, SignalDrains
  <2> QED  BY <1>1, <2>1, <2>2 DEF IInv, TypeOK, Cause
<1>3. held \ {"listener"} = {"logger", "pool", "db"}
  BY <1>2 DEF IInv, HeldIsOwned, Owns, Gone
<1> QED  BY <1>2, <1>3 DEF PoolUsable

LEMMA ClosedKept ==
    ASSUME IInv, [Next]_vars
    PROVE  NobodyMeetsAClosedDatabase'
<1>1. NobodyMeetsAClosedDatabase /\ CauseIsKnown /\ None \notin Cause \cup {"closed"}
         /\ "closed" \notin Failure
  BY ServerAssumption DEF IInv, AppCode
<1>2. CASE Run \/ Killed
  <2>1. UNCHANGED <<kind, request>>
    BY <1>2, RunLeavesRequests
  <2>2. cause \in {"failed", "overdue"} => cause' \in {"failed", "overdue"}
    BY <1>1, <1>2 DEF CauseIsKnown, Before, Killed, Run, StageSucceeds, StageFails, Listen,
       StartServers, Notify, TakeServerError, TakeSignal, Drained, Overdue, AwaitAccept,
       StopMetrics, CloseListener, CloseDB, ClosePool, Sync, Cause
  <2> QED  BY <1>1, <2>1, <2>2 DEF NobodyMeetsAClosedDatabase
<1>3. CASE \E c \in Client : Requests(c)
  <2> PICK c \in Client : Requests(c)
    BY <1>3
  <2>1. UNCHANGED kind /\ (cause \in {"failed", "overdue"} => cause' \in {"failed", "overdue"}) /\ Alive
    BY <1>1, RequestsLeaveRun DEF Cause
  <2>2. SUFFICES ASSUME NEW d \in Client, request'[d].error = "closed", kind # "rpc",
                        cause \notin {"failed", "overdue"}
                 PROVE  FALSE
    BY <2>1 DEF NobodyMeetsAClosedDatabase
  <2>3. request[d].error # "closed"
    BY <1>1, <2>2 DEF NobodyMeetsAClosedDatabase
  <2>4. d = c
    BY <2>2, <2>3, OneAtATime
  <2>5. /\ TypeOK /\ request[c] \in Request
        /\ Failure \subseteq Error /\ "closed" \in Error /\ "panic" \in Error
    BY DEF IInv, TypeOK, Error
  <2>6. CASE Connect(c)
    BY <2>2, <2>3, <2>6 DEF Connect
  <2>7. CASE \E call \in {"use case", "ready", "unknown"} : Arrive(c, call)
    <3> PICK call \in {"use case", "ready", "unknown"} : Arrive(c, call)
      BY <2>7
    <3> DEFINE q == [at |-> IF call = "unknown" THEN "counting" ELSE "handler", call |-> call,
                     error |-> None, counted |-> None, answer |-> None]
    <3>1. q \in Request /\ q.error = None
      BY DEF Request
    <3>2. Becomes(c, q)
      BY DEF Arrive
    <3> HIDE DEF q
    <3> QED  BY <1>1, <2>2, <2>4, <2>5, <3>1, <3>2, Becoming
  <2>8. CASE Execute(c) \/ Ping(c) \/ Executed(c)
    <3>1. ~Idle(c)
      BY <2>8 DEF Execute, Ping, Executed, Idle
    <3>2. "db" \in held /\ PoolUsable
      BY <2>1, <2>2, <3>1, HandlesAreOpen
    <3>3. \E at \in {"handler", "executing", "pinging"} : Becomes(c, Moved(request[c], at))
      BY <2>8, <3>2 DEF Execute, Ping, Executed
    <3> QED  BY <2>2, <2>3, <2>4, <2>5, <3>3, Shapes, Becoming
  <2>9. CASE Finish(c) \/ Pinged(c)
    <3>1. \E e \in Failure \cup {None} : Becomes(c, Ended(request[c], e))
      BY <2>9 DEF Finish, Pinged
    <3>2. PICK e \in Failure \cup {None} : Becomes(c, Ended(request[c], e))
      BY <3>1
    <3>3. e \in Error \cup {None} /\ e # "closed"
      BY <1>1, <2>5
    <3> QED  BY <2>2, <2>4, <2>5, <3>2, <3>3, Shapes, Becoming
  <2>10. CASE Panic(c)
    <3>1. request' = request \/ Becomes(c, Ended(request[c], "panic"))
      BY <2>10 DEF Panic
    <3> QED  BY <2>2, <2>3, <2>4, <2>5, <3>1, Shapes, Becoming
  <2>11. CASE Count(c)
    BY <2>2, <2>3, <2>4, <2>5, <2>11 DEF Count, Becomes, TypeOK
  <2>12. CASE Answer(c)
    BY <2>2, <2>3, <2>4, <2>5, <2>12 DEF Answer, Becomes, TypeOK
  <2> QED  BY <2>6, <2>7, <2>8, <2>9, <2>10, <2>11, <2>12 DEF Requests, Serve
<1>4. CASE \/ \E s \in Both : ServerFails(s) \/ ServerStops(s)
           \/ UNCHANGED vars
  <2>1. UNCHANGED <<kind, cause, request>>
    BY <1>4, GoroutinesLeaveRun DEF vars
  <2> QED  BY <1>1, <2>1 DEF NobodyMeetsAClosedDatabase
<1> QED  BY <1>2, <1>3, <1>4, Steps

\* A fresh, ended or moved request says nothing yet.
LEMMA Silent ==
    ASSUME NEW q, q.answer = None, q.at # "answering"
    PROVE  CarriesWell(q)
BY DEF CarriesWell

LEMMA RequestsKeepCarries ==
    ASSUME IInv, NEW c \in Client, Requests(c)
    PROVE  UNCHANGED request \/ \E q \in Request : Becomes(c, q) /\ CarriesWell(q)
<1>1. /\ TypeOK /\ request[c] \in Request /\ CarriesWell(request[c])
      /\ Failure \subseteq Error /\ "closed" \in Error /\ "panic" \in Error
  BY DEF IInv, TypeOK, Error, Carries
<1>2. CASE Connect(c)
  BY <1>2 DEF Connect
<1>3. CASE \E call \in {"use case", "ready", "unknown"} : Arrive(c, call)
  <2> PICK call \in {"use case", "ready", "unknown"} : Arrive(c, call)
    BY <1>3
  <2> DEFINE q == [at |-> IF call = "unknown" THEN "counting" ELSE "handler", call |-> call,
                   error |-> None, counted |-> None, answer |-> None]
  <2>1. q \in Request /\ q.answer = None /\ q.at # "answering"
    BY DEF Request
  <2>2. Becomes(c, q)
    BY DEF Arrive
  <2> HIDE DEF q
  <2> QED  BY <2>1, <2>2, Silent
<1>4. CASE Execute(c) \/ Ping(c) \/ Executed(c)
  <2>1. request[c].answer = None
    BY <1>1, <1>4 DEF Execute, Ping, Executed, CarriesWell
  <2>2. \E at \in {"handler", "executing", "pinging"} :
            Becomes(c, Moved(request[c], at)) \/ Becomes(c, Ended(request[c], "closed"))
    BY <1>4 DEF Execute, Ping, Executed
  <2> QED  BY <1>1, <2>1, <2>2, Shapes, Silent
<1>5. CASE Finish(c) \/ Pinged(c)
  <2>1. \E e \in Error \cup {None} : Becomes(c, Ended(request[c], e))
    BY <1>1, <1>5 DEF Finish, Pinged
  <2> QED  BY <1>1, <2>1, Shapes, Silent
<1>6. CASE Panic(c)
  <2>1. request' = request \/ Becomes(c, Ended(request[c], "panic"))
    BY <1>6 DEF Panic
  <2> QED  BY <1>1, <2>1, Shapes, Silent
<1>7. CASE Count(c)
  <2> DEFINE r == request[c]
             q == [at |-> "answering", call |-> r.call, error |-> r.error,
                   counted |-> Counted(r), answer |-> None]
  <2>1. q \in Request /\ Becomes(c, q)
    BY <1>1, <1>7, Tables DEF Request, Count
  <2>2. CASE kind # "rpc" /\ r.call = "use case" /\ r.error # "panic"
    <3>1. Counted(r) = ClassOf(r.error)
      <4>1. kind = "http" => Counted(r) = ClassOf(r.error)
        BY <1>1, <2>2, HTTPAgrees DEF Counted
      <4>2. kind = "grpc" => Counted(r) = ClassOf(r.error)
        BY <2>2, GRPCAgrees DEF Counted
      <4>3. kind \in {"http", "grpc"}
        BY <1>1, <2>2, ServerAssumption DEF TypeOK
      <4> QED  BY <4>1, <4>2, <4>3
    <3> QED  BY <2>1, <3>1 DEF CarriesWell
  <2>3. CASE ~(kind # "rpc" /\ r.call = "use case" /\ r.error # "panic")
    <3>1. CarriesWell(q)
      BY <2>3 DEF CarriesWell
    <3> QED  BY <2>1, <3>1
  <2> QED  BY <2>2, <2>3
<1>8. CASE Answer(c)
  <2> DEFINE r == request[c]
             q == [at |-> "idle", call |-> r.call, error |-> r.error, counted |-> r.counted,
                   answer |-> IF c \in open THEN Answered(r) ELSE None]
  <2>1. q \in Request /\ Becomes(c, q) /\ r.at = "answering"
    BY <1>1, <1>8, Tables DEF Request, Answer
  <2>2. CarriesWell(q)
    <3>1. CASE kind # "rpc" /\ r.call = "use case" /\ r.error # "panic"
      <4>1. q.counted = ClassOf(q.error)
        BY <1>1, <2>1, <3>1 DEF CarriesWell
      <4>2. kind = "http" => ClassifyHTTPOutcome(Answered(r)) = ClassOf(r.error)
        BY <1>1, <3>1, HTTPAgrees DEF Answered
      <4>3. kind = "grpc" => ClassifyGRPCOutcome(Answered(r)) = ClassOf(r.error)
        BY <3>1, GRPCAgrees DEF Answered
      <4>4. q.answer # None => q.answer = Answered(r)
        OBVIOUS
      <4> QED  BY <3>1, <4>1, <4>2, <4>3, <4>4 DEF CarriesWell
    <3>2. CASE ~(kind # "rpc" /\ r.call = "use case" /\ r.error # "panic")
      BY <3>2 DEF CarriesWell
    <3> QED  BY <3>1, <3>2
  <2> QED  BY <2>1, <2>2
<1> QED  BY <1>2, <1>3, <1>4, <1>5, <1>6, <1>7, <1>8 DEF Requests, Serve

LEMMA CarriesKept ==
    ASSUME IInv, [Next]_vars
    PROVE  Carries'
<1>1. Carries /\ UNCHANGED kind
  BY RunLeavesRequests, RequestsLeaveRun, GoroutinesLeaveRun, Steps DEF IInv, vars
<1>2. CASE UNCHANGED request
  BY <1>1, <1>2 DEF Carries, CarriesWell
<1>3. CASE \E c \in Client : Requests(c)
  <2> PICK c \in Client : Requests(c)
    BY <1>3
  <2>1. CASE \E q \in Request : Becomes(c, q) /\ CarriesWell(q)
    <3> PICK q \in Request : Becomes(c, q) /\ CarriesWell(q)
      BY <2>1
    <3>1. \A d \in Client : request'[d] = q \/ request'[d] = request[d]
      BY Becoming DEF IInv
    <3>2. \A d \in Client : CarriesWell(request'[d])
      BY <1>1, <3>1 DEF Carries
    <3> QED  BY <1>1, <3>2 DEF Carries, CarriesWell
  <2> QED  BY <1>2, <2>1, RequestsKeepCarries
<1> QED  BY <1>2, <1>3, Steps, RunLeavesRequests DEF vars
----------------------------------------------------------------------------------
LEMMA Inductive == Spec => []IInv
<1>1. IInv /\ [Next]_vars => IInv'
  BY TypesKept, PlacesKept, NobodyYetKept, InFlightKept, SignalDrainsKept,
     ServersStopKept, ClosedKept, CarriesKept DEF IInv
<1> QED  BY InitIInv, <1>1, PTL DEF Spec

\* Every variable keeps its type and neither serving goroutine can ever block
\* on reporting how it ended, for any number of clients.
THEOREM TypeCorrect == Spec => []TypeOK
<1>1. IInv => TypeOK
  BY DEF IInv
<1> QED  BY <1>1, Inductive, PTL

\* Whatever Bootstrap or run() fails at, the process closes all that it opened
\* but the handle gorm.Open keeps to itself when it fails late, and the listener
\* of a server that run() leaves behind when the other fails or HTTP's drain is
\* overdue.
THEOREM Closed == Spec => []LeavesOpenOnlyInTrouble
<1>1. IInv => LeavesOpenOnlyInTrouble
  <2> SUFFICES ASSUME IInv, main = "exited"
               PROVE  /\ held = IF cause = "gorm" THEN {"db"} ELSE {}
                      /\ \A s \in Both : server[s] = "running" =>
                            \/ OneFailed
                            \/ s = "metrics" /\ kind = "http" /\ cause = "overdue"
    BY DEF LeavesOpenOnlyInTrouble, OneFailed, Both
  <2> QED  BY DEF IInv, HeldIsOwned, ServersStop, Both
<1> QED  BY <1>1, Inductive, PTL

\* A graceful stop that is in time cuts nobody off, however many requests were
\* in flight and wherever the signal found them.
THEOREM Graceful == Spec => []NobodyIsCutOff
<1>1. IInv => NobodyIsCutOff
  BY DEF IInv, NobodyIsCutOff, SignalDrains
<1> QED  BY <1>1, Inductive, PTL

\* Over HTTP and gRPC only a stop that is overdue, or a server that failed, lets
\* a request find the database closed under it.
THEOREM HandlesOutlive == Spec => []NobodyMeetsAClosedDatabase
<1>1. IInv => NobodyMeetsAClosedDatabase
  BY DEF IInv
<1> QED  BY <1>1, Inductive, PTL

\* For every error a use case can return, the HTTP status or gRPC code and the
\* counted outcome fall in the class of that error.
THEOREM Reported == Spec => []ToldAndCounted
<1>1. IInv => ToldAndCounted
  <2> SUFFICES ASSUME IInv, NEW c \in Client, kind # "rpc", request[c].call = "use case",
                      request[c].answer # None, request[c].error # "panic"
               PROVE  /\ request[c].counted = ClassOf(request[c].error)
                      /\ (IF kind = "http" THEN ClassifyHTTPOutcome(request[c].answer)
                          ELSE ClassifyGRPCOutcome(request[c].answer))
                         = ClassOf(request[c].error)
    BY DEF ToldAndCounted
  <2>1. CarriesWell(request[c]) /\ kind \in {"http", "grpc"}
    BY ServerAssumption DEF IInv, Carries, TypeOK
  <2> QED  BY <2>1 DEF CarriesWell
<1> QED  BY <1>1, Inductive, PTL

================================================================================

---------------------------------- MODULE Server ---------------------------------
(***************************************************************************)
(* One server process, cmd/api, cmd/grpc or cmd/rpc, from Bootstrap to its *)
(* exit, and the requests it serves meanwhile.                             *)
(*                                                                         *)
(* Concurrent here are run() on the main goroutine, the two goroutines     *)
(* that serve the calls and the metrics, and one goroutine for each        *)
(* request in flight.  They share the channel serverErrors, the listeners  *)
(* and the database handles.  A request is what its transport makes of it: *)
(* its handler may touch the database any number of times and ends with an *)
(* error or without, and then the middleware or the interceptor counts it  *)
(* and the client is answered.                                             *)
(***************************************************************************)
EXTENDS Naturals, Sequences

CONSTANTS Kind,      \* the commands considered, among "http", "grpc" and "rpc"
          Client,    \* connections of clients
          Failure,   \* errors a handler may return
          None

AppCode == {"NOT_FOUND", "VALIDATION_ERROR", "CONFLICT", "UNAUTHORIZED", "INTERNAL_ERROR"}
Cause == {"bootstrap", "gorm", "signal", "killed", "panic", "failed", "overdue"}

\* "other" is an error that is not an AppError.
ASSUME ServerAssumption ==
    /\ Kind \subseteq {"http", "grpc", "rpc"}
    /\ Failure \subseteq AppCode \cup {"other"}
    /\ None \notin AppCode \cup {"other", "closed"} \cup Cause

VARIABLES kind,          \* the command this process runs
          main,          \* where run() is
          held,          \* what is open: logger, pool, db, listener
          server,        \* the goroutines that serve "calls" and "metrics"; the
                         \* listener of one that is "running" is open
          serverErrors,  \* the channel they report to
          cause,         \* why run() left its select, or the process died
          open,          \* clients whose connection is open
          request        \* the last request of each client

vars == <<kind, main, held, server, serverErrors, cause, open, request>>

Stage == {"newLogger", "newMetrics", "newPool", "pingPool", "openGorm", "pingGorm", "getDB",
          "pingDB", "register"}
Gone == {"exited", "crashed"}
Place == Stage \cup Gone \cup
    {"listen", "start", "notify", "select", "drain", "awaitAccept", "stopMetrics",
     "closeListener", "closeDB", "closePool", "sync"}
Resource == {"logger", "pool", "db", "listener"}
\* "database/sql: database is closed" and a recovered panic, besides Failure.
Error == Failure \cup {"closed", "panic"}
Outcome == {"success", "client_error", "server_error"}
Status == {"StatusOK", "StatusNotFound", "StatusUnprocessableEntity", "StatusConflict",
           "StatusUnauthorized", "StatusInternalServerError"}
Code == {"OK", "NotFound", "InvalidArgument", "FailedPrecondition", "Unauthenticated",
         "Internal", "Unimplemented"}
Reply == {"reply", "error"}

Alive == main \notin Gone
----------------------------------------------------------------------------------
(***************************************************************************)
(* Errors, and what each transport says of them.                           *)
(***************************************************************************)
AsAppError(e) == IF e \in AppCode THEN e ELSE "INTERNAL_ERROR"

ClassOf(e) == IF e = None THEN "success"
              ELSE IF AsAppError(e) = "INTERNAL_ERROR" THEN "server_error"
              ELSE "client_error"

HTTPStatusFor(code) ==
    CASE code = "NOT_FOUND"        -> "StatusNotFound"
      [] code = "VALIDATION_ERROR" -> "StatusUnprocessableEntity"
      [] code = "CONFLICT"         -> "StatusConflict"
      [] code = "UNAUTHORIZED"     -> "StatusUnauthorized"
      [] OTHER                     -> "StatusInternalServerError"

ClassifyHTTPOutcome(status) ==
    IF status = "StatusInternalServerError" THEN "server_error"
    ELSE IF status = "StatusOK" THEN "success"
    ELSE "client_error"

\* The gin context a request's handler leaves behind: without a route, the
\* status gin presets; without an error, a written body.
Handled(q) ==
    [status  |-> IF q.call = "unknown" THEN "StatusNotFound" ELSE "StatusOK",
     written |-> q.call # "unknown" /\ q.error = None,
     error   |-> q.error]

ErrorHandler(c) ==
    IF c.error = None \/ c.written THEN c
    ELSE [c EXCEPT !.status = HTTPStatusFor(AsAppError(c.error)), !.written = TRUE]

\* A panic leaves ErrorHandler's frame before that looks at the errors.
Recovery(c) == [c EXCEPT !.error = "INTERNAL_ERROR"]

Middleware(q) == IF q.error = "panic" THEN Recovery(Handled(q)) ELSE ErrorHandler(Handled(q))

RequestContext(c) == IF c.written THEN c ELSE [c EXCEPT !.status = "StatusOK"]

MapError(e) ==
    IF e = None THEN "OK"
    ELSE CASE AsAppError(e) = "NOT_FOUND"        -> "NotFound"
           [] AsAppError(e) = "VALIDATION_ERROR" -> "InvalidArgument"
           [] AsAppError(e) = "CONFLICT"         -> "FailedPrecondition"
           [] AsAppError(e) = "UNAUTHORIZED"     -> "Unauthenticated"
           [] OTHER                              -> "Internal"

\* A bug: the code MapError gives to a conflict is missing from the list.
ClassifyGRPCOutcomeNoConflict(code) ==
    IF code = "OK" THEN "success"
    ELSE IF code \in {"InvalidArgument", "NotFound", "Unauthenticated"} THEN "client_error"
    ELSE "server_error"

ClassifyGRPCOutcome(code) ==
    IF code = "OK" THEN "success"
    ELSE IF code \in {"InvalidArgument", "NotFound", "FailedPrecondition", "Unauthenticated"}
         THEN "client_error"
    ELSE "server_error"

ClassifyRPCOutcome(e) == ClassOf(e)

\* What RecordInboundRequest is given.  The deferred call of net/rpc has
\* taken its err when the defer statement ran, before anything could fail.
\* gRPC and net/rpc refuse an unknown method before any of this code runs.
Counted(q) ==
    CASE kind = "http" -> ClassifyHTTPOutcome(Middleware(q).status)
      [] kind = "grpc" -> IF q.call = "unknown" THEN None
                          ELSE ClassifyGRPCOutcome(MapError(q.error))
      [] OTHER         -> IF q.call = "unknown" THEN None ELSE ClassifyRPCOutcome(None)

Answered(q) ==
    CASE kind = "http" -> RequestContext(Middleware(q)).status
      [] kind = "grpc" -> IF q.call = "unknown" THEN "Unimplemented" ELSE MapError(q.error)
      [] OTHER         -> IF q.call = "unknown" \/ q.error # None THEN "error" ELSE "reply"
----------------------------------------------------------------------------------
NoRequest == [at |-> "idle", call |-> None, error |-> None, counted |-> None, answer |-> None]

Init ==
    /\ kind \in Kind
    /\ main = "newLogger"
    /\ held = {}
    /\ server = [s \in {"calls", "metrics"} |-> "off"]
    /\ serverErrors = <<>>
    /\ cause = None
    /\ open = {}
    /\ request = [c \in Client |-> NoRequest]
----------------------------------------------------------------------------------
(***************************************************************************)
(* Bootstrap: one resource or check after the other, each failure          *)
(* unwinding by hand what came before it.                                  *)
(***************************************************************************)
\* gorm.Open opens the sql.DB and then pings it; NewGormDB and Bootstrap ask for
\* it after that (getDB).
Opens == [newLogger |-> {"logger"}, newMetrics |-> {}, newPool |-> {"pool"}, pingPool |-> {},
          openGorm |-> {"db"}, pingGorm |-> {}, getDB |-> {}, pingDB |-> {}, register |-> {}]

\* A bug: when the ping of SQLDB fails, the pool is forgotten.
UnwindsNoPool == [newLogger |-> {}, newMetrics |-> {"logger"}, newPool |-> {"logger"},
                  pingPool |-> {"pool", "logger"}, openGorm |-> {"pool", "logger"},
                  pingGorm |-> {"pool", "logger"}, getDB |-> {"pool", "logger"},
                  pingDB |-> {"db", "logger"}, register |-> {"db", "pool", "logger"}]

\* The sql.DB is not closed until Bootstrap has it in its hands.
Unwinds == [newLogger |-> {}, newMetrics |-> {"logger"}, newPool |-> {"logger"},
            pingPool |-> {"pool", "logger"}, openGorm |-> {"pool", "logger"},
            pingGorm |-> {"pool", "logger"}, getDB |-> {"pool", "logger"},
            pingDB |-> {"db", "pool", "logger"}, register |-> {"db", "pool", "logger"}]

After(stage) ==
    CASE stage = "newLogger"  -> "newMetrics"
      [] stage = "newMetrics" -> "newPool"
      [] stage = "newPool"    -> "pingPool"
      [] stage = "pingPool"   -> "openGorm"
      [] stage = "openGorm"   -> "pingGorm"
      [] stage = "pingGorm"   -> "getDB"
      [] stage = "getDB"      -> "pingDB"
      [] stage = "pingDB"     -> "register"
      [] stage = "register"   -> IF kind = "http" THEN "start" ELSE "listen"

StageSucceeds ==
    /\ main \in Stage
    /\ held' = held \cup Opens[main]
    /\ main' = After(main)
    /\ UNCHANGED <<kind, server, serverErrors, cause, open, request>>

StageFails ==
    /\ main \in Stage
    /\ held' = held \ Unwinds[main]
    /\ main' = "exited"
    /\ cause' = IF main \in {"pingGorm", "getDB"} THEN "gorm" ELSE "bootstrap"
    /\ UNCHANGED <<kind, server, serverErrors, open, request>>

\* The gRPC and net/rpc commands listen themselves; ListenAndServe does it for HTTP.
Listen ==
    /\ main = "listen"
    /\ \/ /\ held' = held \cup {"listener"}
          /\ main' = "start"
          /\ UNCHANGED cause
       \/ /\ main' = "closeDB"
          /\ cause' = "bootstrap"
          /\ UNCHANGED held
    /\ UNCHANGED <<kind, server, serverErrors, open, request>>

StartServers ==
    /\ main = "start"
    /\ server' = [s \in {"calls", "metrics"} |-> "running"]
    /\ main' = "notify"
    /\ UNCHANGED <<kind, held, serverErrors, cause, open, request>>

Notify ==
    /\ main = "notify"
    /\ main' = "select"
    /\ UNCHANGED <<kind, held, server, serverErrors, cause, open, request>>
----------------------------------------------------------------------------------
(***************************************************************************)
(* The serving goroutines.                                                 *)
(***************************************************************************)
\* A bug: the goroutine reports an error of Accept and accepts again.
ServerFailsAndGoesOn(s) ==
    /\ Alive /\ server[s] = "running"
    /\ serverErrors' = Append(serverErrors, "error")
    /\ UNCHANGED <<kind, main, held, server, cause, open, request>>

\* The port is taken, or Accept fails.
ServerFails(s) ==
    /\ Alive /\ server[s] = "running"
    /\ server' = [server EXCEPT ![s] = "failed"]
    /\ serverErrors' = Append(serverErrors, "error")
    /\ UNCHANGED <<kind, main, held, cause, open, request>>

\* A bug: the accept loop returns on net.ErrClosed without `serverErrors <- nil'.
ServerStopsSilently(s) ==
    /\ Alive /\ server[s] = "stopping"
    /\ server' = [server EXCEPT ![s] = "stopped"]
    /\ UNCHANGED <<kind, main, held, serverErrors, cause, open, request>>

\* run() has closed its listener: Serve returns ErrServerClosed or nil.
ServerStops(s) ==
    /\ Alive /\ server[s] = "stopping"
    /\ server' = [server EXCEPT ![s] = "stopped"]
    /\ serverErrors' = Append(serverErrors, "closed")
    /\ UNCHANGED <<kind, main, held, cause, open, request>>

StopServer(s) == server' = [server EXCEPT ![s] = IF @ = "running" THEN "stopping" ELSE @]

Idle(c) == request[c].at = "idle"
----------------------------------------------------------------------------------
(***************************************************************************)
(* run(), from its select to its deferred calls.  `return err' anywhere    *)
(* goes straight to those.                                                 *)
(***************************************************************************)
Return == IF kind = "http" THEN "closeDB" ELSE "closeListener"

\* Before signal.Notify a signal has its default effect.
Killed ==
    /\ Alive /\ main \in Stage \cup {"listen", "start", "notify"}
    /\ main' = "crashed"
    /\ cause' = "killed"
    /\ UNCHANGED <<kind, held, server, serverErrors, open, request>>

TakeServerError ==
    /\ main = "select" /\ serverErrors # <<>>
    /\ serverErrors' = Tail(serverErrors)
    /\ main' = Return
    /\ cause' = "failed"
    /\ UNCHANGED <<kind, held, server, open, request>>

\* A bug: the database is closed first, as soon as the signal is seen.
TakeSignalClosingDB ==
    /\ main = "select"
    /\ cause' = "signal"
    /\ StopServer("calls")
    /\ main' = IF kind = "rpc" THEN "awaitAccept" ELSE "drain"
    /\ held' = held \ {"listener", "db"}
    /\ open' = IF kind = "rpc" THEN open ELSE {c \in open : ~Idle(c)}
    /\ UNCHANGED <<kind, serverErrors, request>>

\* HTTP and gRPC stop listening and close the idle connections; net/rpc
\* closes its listener and nothing else.
TakeSignal ==
    /\ main = "select"
    /\ cause' = "signal"
    /\ StopServer("calls")
    /\ IF kind = "rpc"
       THEN /\ main' = "awaitAccept"
            /\ held' = held \ {"listener"}
            /\ UNCHANGED open
       ELSE /\ main' = "drain"
            /\ open' = {c \in open : ~Idle(c)}
            /\ UNCHANGED held
    /\ UNCHANGED <<kind, serverErrors, request>>

\* A bug: GracefulStop is started and its end not awaited.
DrainedAtOnce ==
    /\ main = "drain"
    /\ main' = "stopMetrics"
    /\ UNCHANGED <<kind, held, server, serverErrors, cause, open, request>>

\* server.Shutdown and GracefulStop return once nothing is in flight.
Drained ==
    /\ main = "drain"
    /\ \A c \in open : Idle(c)
    /\ main' = "stopMetrics"
    /\ UNCHANGED <<kind, held, server, serverErrors, cause, open, request>>

\* ShutdownTimeout passes: HTTP returns the error, gRPC calls Stop, which
\* closes every connection and waits for nobody.
Overdue ==
    /\ main = "drain"
    /\ cause' = "overdue"
    /\ IF kind = "http" THEN /\ main' = Return
                             /\ UNCHANGED open
       ELSE /\ main' = "stopMetrics"
            /\ open' = {}
    /\ UNCHANGED <<kind, held, server, serverErrors, request>>

\* The first report to arrive, usually but not always the accept loop's.
AwaitAccept ==
    /\ main = "awaitAccept" /\ serverErrors # <<>>
    /\ serverErrors' = Tail(serverErrors)
    /\ main' = IF Head(serverErrors) = "error" THEN Return ELSE "stopMetrics"
    /\ UNCHANGED <<kind, held, server, cause, open, request>>

\* Whether scrapes finish in time or not, run() returns next.
StopMetrics ==
    /\ main = "stopMetrics"
    /\ StopServer("metrics")
    /\ main' = Return
    /\ UNCHANGED <<kind, held, serverErrors, cause, open, request>>

CloseListener ==
    /\ main = "closeListener"
    /\ held' = held \ {"listener"}
    /\ StopServer("calls")
    /\ main' = "closeDB"
    /\ UNCHANGED <<kind, serverErrors, cause, open, request>>

(***************************************************************************)
(* Runtime.Close.  pgxpool's Close waits for the connections in use.       *)
(***************************************************************************)
CloseDB ==
    /\ main = "closeDB"
    /\ held' = held \ {"db"}
    /\ main' = "closePool"
    /\ UNCHANGED <<kind, server, serverErrors, cause, open, request>>

ClosePool ==
    /\ main = "closePool"
    /\ \A c \in Client : request[c].at # "pinging"
    /\ held' = held \ {"pool"}
    /\ main' = "sync"
    /\ UNCHANGED <<kind, server, serverErrors, cause, open, request>>

Sync ==
    /\ main = "sync"
    /\ held' = held \ {"logger"}
    /\ main' = "exited"
    /\ UNCHANGED <<kind, server, serverErrors, cause, open, request>>
----------------------------------------------------------------------------------
(***************************************************************************)
(* Requests.                                                               *)
(***************************************************************************)
\* Shutdown or GracefulStop has been called: a connection ends with its request.
Draining == kind # "rpc" /\ cause \in {"signal", "overdue"}
PoolUsable == "pool" \in held /\ main # "closePool"

Connect(c) ==
    /\ Alive /\ server["calls"] = "running"
    /\ c \notin open /\ Idle(c)
    /\ open' = open \cup {c}
    /\ UNCHANGED <<kind, main, held, server, serverErrors, cause, request>>

Becomes(c, q) == request' = [request EXCEPT ![c] = q]
Moved(q, at) == [q EXCEPT !.at = at]
Ended(q, e) == [at |-> "counting", call |-> q.call, error |-> e, counted |-> None, answer |-> None]

\* A call of a use case, a probe of /ready, or a call of nothing there is.
Arrive(c, call) ==
    /\ Alive /\ c \in open /\ Idle(c)
    /\ call = "ready" => kind = "http"
    /\ Becomes(c, [at |-> IF call = "unknown" THEN "counting" ELSE "handler", call |-> call,
                   error |-> None, counted |-> None, answer |-> None])
    /\ UNCHANGED <<kind, main, held, server, serverErrors, cause, open>>

\* A statement, or a transaction of several, on a connection of SQLDB.
Execute(c) ==
    /\ Alive /\ request[c].at = "handler" /\ request[c].call = "use case"
    /\ Becomes(c, IF "db" \in held THEN Moved(request[c], "executing")
                  ELSE Ended(request[c], "closed"))
    /\ UNCHANGED <<kind, main, held, server, serverErrors, cause, open>>

Executed(c) ==
    /\ Alive /\ request[c].at = "executing"
    /\ Becomes(c, Moved(request[c], "handler"))
    /\ UNCHANGED <<kind, main, held, server, serverErrors, cause, open>>

Finish(c) ==
    /\ Alive /\ request[c].at = "handler" /\ request[c].call = "use case"
    /\ \E e \in Failure \cup {None} : Becomes(c, Ended(request[c], e))
    /\ UNCHANGED <<kind, main, held, server, serverErrors, cause, open>>

Ping(c) ==
    /\ Alive /\ request[c].at = "handler" /\ request[c].call = "ready"
    /\ Becomes(c, IF PoolUsable THEN Moved(request[c], "pinging")
                  ELSE Ended(request[c], "closed"))
    /\ UNCHANGED <<kind, main, held, server, serverErrors, cause, open>>

Pinged(c) ==
    /\ Alive /\ request[c].at = "pinging"
    /\ \E e \in {None} \cup (Failure \cap {"INTERNAL_ERROR"}) :
          Becomes(c, Ended(request[c], e))
    /\ UNCHANGED <<kind, main, held, server, serverErrors, cause, open>>

\* gin recovers; gRPC and net/rpc have nothing that does.
Panic(c) ==
    /\ Alive /\ request[c].at \in {"handler", "executing"}
    /\ IF kind = "http"
       THEN /\ Becomes(c, Ended(request[c], "panic"))
            /\ UNCHANGED <<main, cause>>
       ELSE /\ main' = "crashed"
            /\ cause' = IF cause = None THEN "panic" ELSE cause
            /\ UNCHANGED request
    /\ UNCHANGED <<kind, held, server, serverErrors, open>>

Count(c) ==
    /\ Alive /\ request[c].at = "counting"
    /\ LET q == request[c]
       IN Becomes(c, [at |-> "answering", call |-> q.call, error |-> q.error,
                      counted |-> Counted(q), answer |-> None])
    /\ UNCHANGED <<kind, main, held, server, serverErrors, cause, open>>

\* An answer on a connection that Stop has closed reaches nobody.
Answer(c) ==
    /\ Alive /\ request[c].at = "answering"
    /\ LET q == request[c]
       IN Becomes(c, [at |-> "idle", call |-> q.call, error |-> q.error, counted |-> q.counted,
                      answer |-> IF c \in open THEN Answered(q) ELSE None])
    /\ open' = IF Draining THEN open \ {c} ELSE open
    /\ UNCHANGED <<kind, main, held, server, serverErrors, cause>>
----------------------------------------------------------------------------------
\* A process that is gone stays so.
Rest == ~Alive /\ UNCHANGED vars

Run == StageSucceeds \/ StageFails \/ Listen \/ StartServers \/ Notify
          \/ TakeServerError \/ TakeSignal \/ Drained \/ Overdue \/ AwaitAccept
          \/ StopMetrics \/ CloseListener \/ CloseDB \/ ClosePool \/ Sync

Serve(c) == Execute(c) \/ Executed(c) \/ Finish(c) \/ Ping(c) \/ Pinged(c) \/ Panic(c)
               \/ Count(c) \/ Answer(c)

Next ==
    \/ Run \/ Killed \/ Rest
    \/ \E s \in {"calls", "metrics"} : ServerFails(s) \/ ServerStops(s)
    \/ \E c \in Client : Connect(c) \/ Serve(c)
    \/ \E c \in Client, call \in {"use case", "ready", "unknown"} : Arrive(c, call)

Spec == Init /\ [][Next]_vars

\* Once it is leaving, run() and its timer go on, a closed listener ends its
\* goroutine, and the database answers a ping.
FairSpec ==
    /\ Spec
    /\ WF_vars(Drained \/ Overdue \/ AwaitAccept \/ StopMetrics \/ CloseListener
                  \/ CloseDB \/ ClosePool \/ Sync)
    /\ \A s \in {"calls", "metrics"} : WF_vars(ServerStops(s))
    /\ \A c \in Client : WF_vars(Pinged(c))
----------------------------------------------------------------------------------
Request == [at : {"idle", "handler", "executing", "pinging", "counting", "answering"},
            call : {"use case", "ready", "unknown", None},
            error : Error \cup {None},
            counted : Outcome \cup {None},
            answer : Status \cup Code \cup Reply \cup {None}]

\* Types.  The channel never holds more than its capacity of two, so that no
\* serving goroutine ever blocks on its report (cmd/*/main.go serverErrors).
TypeOK ==
    /\ kind \in Kind
    /\ main \in Place
    /\ held \subseteq Resource
    /\ server \in [{"calls", "metrics"} -> {"off", "running", "failed", "stopping", "stopped"}]
    /\ serverErrors \in Seq({"error", "closed"}) /\ Len(serverErrors) <= 2
    /\ cause \in Cause \cup {None}
    /\ open \subseteq Client
    /\ request \in [Client -> Request]

\* An HTTP or gRPC process that was told to stop and did so in time leaves no
\* request behind, whatever was in flight when the signal came.
NobodyIsCutOff ==
    main = "exited" /\ kind # "rpc" /\ cause = "signal" => \A c \in Client : Idle(c)

\* Such a process also never lets a request meet the closed database: its
\* handles outlive the requests (the deferred runtime.Close runs last).
NobodyMeetsAClosedDatabase ==
    \A c \in Client :
        request[c].error = "closed" => kind = "rpc" \/ cause \in {"failed", "overdue"}

\* However far Bootstrap got before something failed, and however run() ends, the
\* process leaves open only the sql.DB that gorm.Open could not ping or return,
\* and a server's listener only if the other server has failed or, over HTTP, the
\* metrics server's if the drain was overdue.  A stop that a signal asks for and
\* that is in time, and every other failure of Bootstrap, leaves nothing.
LeavesOpenOnlyInTrouble ==
    main = "exited" =>
        /\ held = IF cause = "gorm" THEN {"db"} ELSE {}
        /\ \A s \in {"calls", "metrics"} : server[s] = "running" =>
              \/ \E t \in {"calls", "metrics"} : server[t] = "failed"
              \/ s = "metrics" /\ kind = "http" /\ cause = "overdue"

\* Over HTTP and gRPC a use case's error has one class, whichever of the two
\* carries it, and the counter and the client are told the same one.
ToldAndCounted ==
    \A c \in Client :
        LET q == request[c]
            told == IF kind = "http" THEN ClassifyHTTPOutcome(q.answer)
                    ELSE ClassifyGRPCOutcome(q.answer)
        IN kind # "rpc" /\ q.call = "use case" /\ q.answer # None /\ q.error # "panic"
              => q.counted = ClassOf(q.error) /\ told = ClassOf(q.error)

\* Once run() has left its select the process ends: neither a request in
\* flight nor a goroutine that failed at the same time can keep it.
StopsInTheEnd == (Alive /\ cause # None) ~> ~Alive

\* What ErrorHandler's tests and the counter's help text promise: a call that
\* failed is neither answered nor counted as a success.
FailuresAreReported ==
    \A c \in Client :
        LET q == request[c]
        IN q.error # None \/ q.call = "unknown"
              => q.counted # "success" /\ q.answer \notin {"StatusOK", "OK", "reply"}

================================================================================

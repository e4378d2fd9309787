------------------------------- MODULE Daemon -------------------------------
(***************************************************************************)
(* The life of bancod: main, TakerService.Start, Stop and Status around    *)
(* the solver runtime, and the API server whose handlers share main's      *)
(* resources.  The module adds main's program counter and the service's    *)
(* state to Solver and lets Solver's steps happen only between the go      *)
(* statements that start them and the exit of the process.                 *)
(***************************************************************************)
EXTENDS Solver

CONSTANT Requests    \* API requests that may arrive

VARIABLES
    main,       \* where main is
    running,    \* svc.running
    epilogue,   \* deferred calls of Start's goroutine: "pending", "flagged", "done"
    open,       \* resources main has not closed yet
    req,        \* each request: "idle", "grpc" or "http" while handled, "over"
    httpLate    \* httpServer.Shutdown gave up on requests after its timeout

daemonVars == <<main, running, epilogue, open, req, httpLate>>
allVars == <<vars, daemonVars>>

(* The ark client and its stores, the introspector connection, the         *)
(* database, in the order the deferred calls close them.                   *)
Resources == {"ark", "intro", "db"}

(* main's steps in order.  From "serving" on both listeners are open.      *)
Pcs == {"start", "subscribed", "flagged", "spawned", "serving", "signalled",
        "waiting", "stopHttp", "stopGrpc", "closeArk", "closeIntro", "closeDb",
        "exited"}

Alive == main # "exited"
SourceStarted == main # "start"

RunStarted == main \notin {"start", "subscribed", "flagged"}

DaemonInit ==
    /\ Init
    /\ main = "start"
    /\ running = FALSE
    /\ epilogue = "pending"
    /\ open = Resources
    /\ req = [r \in Requests |-> "idle"]
    /\ httpLate = FALSE

-----------------------------------------------------------------------------
(* TakerService.Start, called by main.                                     *)

StartSubscribe ==
    /\ main = "start"
    /\ main' = "subscribed"
    /\ UNCHANGED <<vars, running, epilogue, open, req, httpLate>>

StartSetRunning ==
    /\ main = "subscribed"
    /\ running' = TRUE
    /\ main' = "flagged"
    /\ UNCHANGED <<vars, epilogue, open, req, httpLate>>

StartSpawn ==
    /\ main = "flagged"
    /\ main' = "spawned"
    /\ UNCHANGED <<vars, running, epilogue, open, req, httpLate>>

(* The deferred calls of the goroutine, in their order.                    *)
ClearRunning ==
    /\ run = "returned"
    /\ epilogue = "pending"
    /\ running' = FALSE
    /\ epilogue' = "flagged"
    /\ UNCHANGED <<vars, main, open, req, httpLate>>

CloseDone ==
    /\ epilogue = "flagged"
    /\ epilogue' = "done"
    /\ UNCHANGED <<vars, main, running, open, req, httpLate>>

-----------------------------------------------------------------------------
(* The rest of main.                                                       *)

ServerStart ==
    /\ main = "spawned"
    /\ main' = "serving"
    /\ UNCHANGED <<vars, running, epilogue, open, req, httpLate>>

(* srv.Start failed: log.Fatal leaves the process where it stands.         *)
ServerStartFatal ==
    /\ main = "spawned"
    /\ main' = "exited"
    /\ UNCHANGED <<vars, running, epilogue, open, req, httpLate>>

Signal ==
    /\ main = "serving"
    /\ main' = "signalled"
    /\ UNCHANGED <<vars, running, epilogue, open, req, httpLate>>

(* Mutant: Stop waits for the goroutine without cancelling its context.    *)
StopCancel_NoCancel ==
    /\ main = "signalled"
    /\ main' = "waiting"
    /\ UNCHANGED <<vars, running, epilogue, open, req, httpLate>>

(* Mutant: Stop clears the flag itself, before the drain.                  *)
StopCancel_ClearsFlag ==
    /\ main = "signalled"
    /\ Cancel
    /\ running' = FALSE
    /\ main' = "waiting"
    /\ UNCHANGED <<epilogue, open, req, httpLate>>

(* TakerService.Stop: cancel, then wait for done.                          *)
StopCancel ==
    /\ main = "signalled"
    /\ Cancel
    /\ main' = "waiting"
    /\ UNCHANGED <<running, epilogue, open, req, httpLate>>

(* Mutant: Stop returns without waiting for the goroutine.                 *)
StopWait_Skipped ==
    /\ main = "waiting"
    /\ main' = "stopHttp"
    /\ UNCHANGED <<vars, running, epilogue, open, req, httpLate>>

StopWait ==
    /\ main = "waiting"
    /\ epilogue = "done"
    /\ main' = "stopHttp"
    /\ UNCHANGED <<vars, running, epilogue, open, req, httpLate>>

(* httpServer.Shutdown returns when no HTTP request is being handled or    *)
(* when its five seconds are over; then grpcConn.Close.                    *)
StopHttp ==
    /\ main = "stopHttp"
    /\ httpLate' = \E r \in Requests : req[r] = "http"
    /\ main' = "stopGrpc"
    /\ UNCHANGED <<vars, running, epilogue, open, req>>

(* Mutant: the gRPC server is stopped at once instead of gracefully.       *)
StopGrpc_Abrupt ==
    /\ main = "stopGrpc"
    /\ main' = "closeArk"
    /\ UNCHANGED <<vars, running, epilogue, open, req, httpLate>>

(* grpcServer.GracefulStop waits for the gRPC requests.                    *)
StopGrpc ==
    /\ main = "stopGrpc"
    /\ \A r \in Requests : req[r] # "grpc"
    /\ main' = "closeArk"
    /\ UNCHANGED <<vars, running, epilogue, open, req, httpLate>>

Close(at, resource, next) ==
    /\ main = at
    /\ open' = open \ {resource}
    /\ main' = next
    /\ UNCHANGED <<vars, running, epilogue, req, httpLate>>

CloseResources ==
    \/ Close("closeArk", "ark", "closeIntro")
    \/ Close("closeIntro", "intro", "closeDb")
    \/ Close("closeDb", "db", "exited")

-----------------------------------------------------------------------------
(* API requests.  The HTTP gateway calls the handler itself, so an HTTP    *)
(* request is none of the gRPC server's requests.                          *)

GrpcListening ==
    main \in {"serving", "signalled", "waiting", "stopHttp", "stopGrpc"}
HttpListening == main \in {"serving", "signalled", "waiting"}

RequestStart(r) ==
    /\ req[r] = "idle"
    /\ \E via \in {"grpc", "http"} :
          /\ via = "grpc" => GrpcListening
          /\ via = "http" => HttpListening
          /\ req' = [req EXCEPT ![r] = via]
    /\ UNCHANGED <<vars, main, running, epilogue, open, httpLate>>

RequestEnd(r) ==
    /\ req[r] \in {"grpc", "http"}
    /\ req' = [req EXCEPT ![r] = "over"]
    /\ UNCHANGED <<vars, main, running, epilogue, open, httpLate>>

-----------------------------------------------------------------------------
SolverStep ==
    /\ \/ SourceStarted /\ SourceStep
       \/ RunStarted /\ RunStep
       \/ \E j \in Jobs : SolveStep(j)
       \/ \E k \in Kinds : ArkdEmit(k)
       \/ ArkdClose
    /\ UNCHANGED daemonVars

MainStep ==
    \/ StartSubscribe \/ StartSetRunning \/ StartSpawn
    \/ ServerStart \/ ServerStartFatal
    \/ StopCancel \/ StopWait \/ StopHttp \/ StopGrpc \/ CloseResources

DaemonNext ==
    /\ Alive
    /\ \/ SolverStep
       \/ ClearRunning \/ CloseDone
       \/ MainStep
       \/ Signal
       \/ \E r \in Requests : RequestStart(r) \/ RequestEnd(r)

DaemonSpec == DaemonInit /\ [][DaemonNext]_allVars

(* Solver's fairness for a live process, and main and the goroutine's      *)
(* epilogue go on.  Whether a signal or a request ever comes is left open, *)
(* and so is whether a handler ever returns: it may wait on arkd with the  *)
(* request's context, which the shutdown does not cancel.                  *)
DaemonFairness ==
    /\ WF_allVars(Alive /\ UNCHANGED daemonVars /\ SourceStarted
                  /\ (SourceCancelled \/ SourceEnd \/ SourceRecv
                      \/ SourceSend \/ SourceSendCancelled))
    /\ WF_allVars(Alive /\ UNCHANGED daemonVars /\ SourceStarted /\ cancelled
                  /\ (SubscribeOk \/ SubscribeFail))
    /\ WF_allVars(Alive /\ UNCHANGED daemonVars /\ RunStarted
                  /\ (RunCancelled \/ RunClosed \/ RunReceive \/ MatchDone
                      \/ RunReturn))
    /\ WF_allVars(Alive /\ UNCHANGED daemonVars /\ RunStarted /\ cancelled
                  /\ (MatchMiss \/ MatchHit))
    /\ \A j \in Jobs :
          /\ WF_allVars(Alive /\ UNCHANGED daemonVars /\ SolveStart(j))
          /\ WF_allVars(Alive /\ UNCHANGED daemonVars /\ cancelled /\ SolveEnd(j))
    /\ WF_allVars(Alive /\ (ClearRunning \/ CloseDone))
    /\ WF_allVars(Alive /\ MainStep)

FairDaemonSpec == DaemonSpec /\ DaemonFairness

-----------------------------------------------------------------------------
(* Properties.                                                             *)

(* No Solve runs without its clients: while one is in flight neither the   *)
(* ark client, nor the introspector connection, nor the database its       *)
(* listener writes to has been closed.                                     *)
SolvesHaveResources == InFlight # {} => open = Resources

(* No handler runs without them either, except an HTTP request that        *)
(* outlived the five seconds of httpServer.Shutdown.                       *)
HandlersHaveResources ==
    open # Resources =>
        \A r \in Requests : req[r] # "grpc" /\ (req[r] = "http" => httpLate)

(* Status tells the truth about Run: not running means that Run has not    *)
(* begun or has returned with nothing in flight, and once Stop can return  *)
(* the flag is down for good.                                              *)
StatusHonest ==
    /\ RunStarted /\ ~running => run = "returned" /\ InFlight = {}
    /\ epilogue = "done" => ~running

(* No gRPC handler runs forever.  Nothing in the code makes it so.         *)
GrpcHandlersReturn == \A r \in Requests : []<>(req[r] # "grpc")

(* A signal ends the process, whatever the solver was doing and however    *)
(* long HTTP handlers take; only a gRPC handler that never returns keeps   *)
(* it, for GracefulStop waits without a bound.                             *)
SignalExits == GrpcHandlersReturn => (main = "signalled" ~> main = "exited")

(* Around main and the service the solver still behaves as it does alone.  *)
ImplementsSolver == Spec

=============================================================================

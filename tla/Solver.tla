------------------------------- MODULE Solver -------------------------------
(***************************************************************************)
(* The solver runtime: the goroutine arkdsource.Subscribe starts, which    *)
(* turns arkd's event stream into a channel of packets, and Solver.Run,    *)
(* which offers every packet to every plugin and runs the matched Solves   *)
(* concurrently.                                                           *)
(*                                                                         *)
(* An event is its position in arkd's stream.  Of its content only what    *)
(* the source's early "continue"s tell apart is kept: "tx" decodes to a    *)
(* packet, "junk" is a stream error, an event without an ArkTx or an       *)
(* undecodable one.  Match and Solve are the plugin's: here Match answers  *)
(* yes or no (a recovered panic answers no) and Solve takes some time.     *)
(***************************************************************************)
EXTENDS Integers, Sequences, FiniteSets

CONSTANTS
    NPlugins,    \* how many plugins solver.New was given
    MaxEvents    \* bound: events arkd emits in a behaviour

ASSUME NPluginsAssumption == NPlugins \in Nat
ASSUME MaxEventsAssumption == MaxEvents \in Nat

Events == 1..MaxEvents
Plugins == 1..NPlugins
Kinds == {"tx", "junk"}

(* A job is one plugin's work on one event.                                *)
Jobs == Events \X Plugins

(* The capacity of the channel Subscribe returns.                          *)
OutCap == 1

VARIABLES
    cancelled,  \* ctx.Done() is closed
    stream,     \* the events arkd emitted so far
    upClosed,   \* eventsCh is closed
    src,        \* where the source goroutine is
    rd,         \* how many events it has read; the one in hand when "sending"
    failed,     \* GetTransactionsStream returned an error
    out,        \* the packets in the channel; it is closed iff src = "closed"
    run,        \* where Run is
    cur,        \* the packet Run is matching
    pi,         \* the plugin it is offered to next
    result,     \* what Run returns
    wg,         \* the counter of Run's WaitGroup
    job         \* what became of each job

sourceVars == <<src, rd, failed>>
runVars == <<run, cur, pi, result>>
arkdVars == <<stream, upClosed>>
vars == <<cancelled, stream, upClosed, src, rd, failed, out, run, cur, pi,
          result, wg, job>>

JobStates == {"none", "missed", "spawned", "running", "finished"}

(* Solves started and not finished.                                        *)
InFlight == {j \in Jobs : job[j] \in {"spawned", "running"}}

Init ==
    /\ cancelled = FALSE
    /\ stream = <<>>
    /\ upClosed = FALSE
    /\ src = "subscribing"
    /\ rd = 0
    /\ failed = FALSE
    /\ out = <<>>
    /\ run = "select"
    /\ cur = 0
    /\ pi = 1
    /\ result = "none"
    /\ wg = 0
    /\ job = [j \in Jobs |-> "none"]

-----------------------------------------------------------------------------
(* The surroundings: arkd, and whoever cancels the context.                *)

(* The stream exists from the subscription until the source lets go of it. *)
Subscribed == src \in {"select", "sending"}

ArkdEmit(k) ==
    /\ Subscribed
    /\ ~upClosed
    /\ Len(stream) < MaxEvents
    /\ stream' = Append(stream, k)
    /\ UNCHANGED <<cancelled, upClosed, sourceVars, out, runVars, wg, job>>

ArkdClose ==
    /\ Subscribed
    /\ ~upClosed
    /\ upClosed' = TRUE
    /\ UNCHANGED <<cancelled, stream, sourceVars, out, runVars, wg, job>>

Cancel ==
    /\ ~cancelled
    /\ cancelled' = TRUE
    /\ UNCHANGED <<arkdVars, sourceVars, out, runVars, wg, job>>

-----------------------------------------------------------------------------
(* The source goroutine.                                                   *)

SubscribeOk ==
    /\ src = "subscribing"
    /\ src' = "select"
    /\ UNCHANGED <<cancelled, arkdVars, rd, failed, out, runVars, wg, job>>

SubscribeFail ==
    /\ src = "subscribing"
    /\ failed' = TRUE
    /\ src' = "closed"
    /\ UNCHANGED <<cancelled, arkdVars, rd, out, runVars, wg, job>>

SourceCancelled ==
    /\ src = "select"
    /\ cancelled
    /\ src' = "closed"
    /\ UNCHANGED <<cancelled, arkdVars, rd, failed, out, runVars, wg, job>>

(* Receiving from a closed channel first yields what is buffered in it.    *)
SourceEnd ==
    /\ src = "select"
    /\ upClosed
    /\ rd = Len(stream)
    /\ src' = "closed"
    /\ UNCHANGED <<cancelled, arkdVars, rd, failed, out, runVars, wg, job>>

SourceRecv ==
    /\ src = "select"
    /\ rd < Len(stream)
    /\ rd' = rd + 1
    /\ src' = IF stream[rd + 1] = "tx" THEN "sending" ELSE "select"
    /\ UNCHANGED <<cancelled, arkdVars, failed, out, runVars, wg, job>>

(* Mutant: the channel has no bound.                                       *)
SourceSend_Unbounded ==
    /\ src = "sending"
    /\ out' = Append(out, rd)
    /\ src' = "select"
    /\ UNCHANGED <<cancelled, arkdVars, rd, failed, runVars, wg, job>>

(* Mutant: a default arm drops the packet when the channel is full.        *)
SourceSend_DropsWhenFull ==
    /\ src = "sending"
    /\ out' = IF Len(out) < OutCap THEN Append(out, rd) ELSE out
    /\ src' = "select"
    /\ UNCHANGED <<cancelled, arkdVars, rd, failed, runVars, wg, job>>

SourceSend ==
    /\ src = "sending"
    /\ Len(out) < OutCap
    /\ out' = Append(out, rd)
    /\ src' = "select"
    /\ UNCHANGED <<cancelled, arkdVars, rd, failed, runVars, wg, job>>

(* Mutant: a plain send, without the ctx.Done arm.                         *)
SourceSendCancelled_Missing == FALSE

SourceSendCancelled ==
    /\ src = "sending"
    /\ cancelled
    /\ src' = "closed"
    /\ UNCHANGED <<cancelled, arkdVars, rd, failed, out, runVars, wg, job>>

SourceStep ==
    \/ SubscribeOk \/ SubscribeFail
    \/ SourceCancelled \/ SourceEnd \/ SourceRecv
    \/ SourceSend \/ SourceSendCancelled

-----------------------------------------------------------------------------
(* Run.  Both arms of its select may be ready; Go then picks either.       *)

RunCancelled ==
    /\ run = "select"
    /\ cancelled
    /\ result' = "ctxErr"
    /\ run' = "drain"
    /\ UNCHANGED <<cancelled, arkdVars, sourceVars, out, cur, pi, wg, job>>

RunClosed ==
    /\ run = "select"
    /\ src = "closed"
    /\ out = <<>>
    /\ result' = "nil"
    /\ run' = "drain"
    /\ UNCHANGED <<cancelled, arkdVars, sourceVars, out, cur, pi, wg, job>>

RunReceive ==
    /\ run = "select"
    /\ out # <<>>
    /\ cur' = Head(out)
    /\ out' = Tail(out)
    /\ pi' = 1
    /\ run' = "match"
    /\ UNCHANGED <<cancelled, arkdVars, sourceVars, result, wg, job>>

(* Mutant: a miss breaks out of the loop over the plugins.                 *)
MatchMiss_Breaks ==
    /\ run = "match"
    /\ pi <= NPlugins
    /\ job' = [job EXCEPT ![<<cur, pi>>] = "missed"]
    /\ run' = "select"
    /\ UNCHANGED <<cancelled, arkdVars, sourceVars, out, cur, pi, result, wg>>

(* safeMatch said no, or recovered a panic: the loop goes on to the next   *)
(* plugin.                                                                 *)
MatchMiss ==
    /\ run = "match"
    /\ pi <= NPlugins
    /\ job' = [job EXCEPT ![<<cur, pi>>] = "missed"]
    /\ pi' = pi + 1
    /\ UNCHANGED <<cancelled, arkdVars, sourceVars, out, run, cur, result, wg>>

(* Mutant: the goroutine is started without wg.Add(1).                     *)
MatchHit_NoAdd ==
    /\ run = "match"
    /\ pi <= NPlugins
    /\ job' = [job EXCEPT ![<<cur, pi>>] = "spawned"]
    /\ pi' = pi + 1
    /\ UNCHANGED <<cancelled, arkdVars, sourceVars, out, run, cur, result, wg>>

(* safeMatch said yes: wg.Add(1), then the go statement.                   *)
MatchHit ==
    /\ run = "match"
    /\ pi <= NPlugins
    /\ wg' = wg + 1
    /\ job' = [job EXCEPT ![<<cur, pi>>] = "spawned"]
    /\ pi' = pi + 1
    /\ UNCHANGED <<cancelled, arkdVars, sourceVars, out, run, cur, result>>

MatchDone ==
    /\ run = "match"
    /\ pi > NPlugins
    /\ run' = "select"
    /\ UNCHANGED <<cancelled, arkdVars, sourceVars, out, cur, pi, result, wg, job>>

(* The deferred wg.Wait.                                                   *)
RunReturn ==
    /\ run = "drain"
    /\ wg = 0
    /\ run' = "returned"
    /\ UNCHANGED <<cancelled, arkdVars, sourceVars, out, cur, pi, result, wg, job>>

RunStep ==
    \/ RunCancelled \/ RunClosed \/ RunReceive
    \/ MatchMiss \/ MatchHit \/ MatchDone
    \/ RunReturn

-----------------------------------------------------------------------------
(* The goroutine of one Solve.                                             *)

SolveStart(j) ==
    /\ job[j] = "spawned"
    /\ job' = [job EXCEPT ![j] = "running"]
    /\ UNCHANGED <<cancelled, arkdVars, sourceVars, out, runVars, wg>>

(* Mutant: a Solve that ended badly is started again.                      *)
SolveEnd_Retries(j) ==
    /\ job[j] = "running"
    /\ job' = [job EXCEPT ![j] = "spawned"]
    /\ UNCHANGED <<cancelled, arkdVars, sourceVars, out, runVars, wg>>

(* Solve returned, or panicked and safeSolve recovered: either way the     *)
(* deferred wg.Done runs.                                                  *)
SolveEnd(j) ==
    /\ job[j] = "running"
    /\ job' = [job EXCEPT ![j] = "finished"]
    /\ wg' = wg - 1
    /\ UNCHANGED <<cancelled, arkdVars, sourceVars, out, runVars>>

SolveStep(j) == SolveStart(j) \/ SolveEnd(j)

-----------------------------------------------------------------------------
Next ==
    \/ \E k \in Kinds : ArkdEmit(k)
    \/ ArkdClose
    \/ Cancel
    \/ SourceStep
    \/ RunStep
    \/ \E j \in Jobs : SolveStep(j)

Spec == Init /\ [][Next]_vars

(* Goroutines are scheduled.  Steps that wait for another service (the     *)
(* subscription, Match, Solve) are only sure to end once the context they  *)
(* were given is cancelled.                                                *)
Fairness ==
    /\ WF_vars(SourceCancelled \/ SourceEnd \/ SourceRecv \/ SourceSend
               \/ SourceSendCancelled)
    /\ WF_vars(cancelled /\ (SubscribeOk \/ SubscribeFail))
    /\ WF_vars(RunCancelled \/ RunClosed \/ RunReceive \/ MatchDone \/ RunReturn)
    /\ WF_vars(cancelled /\ (MatchMiss \/ MatchHit))
    /\ \A j \in Jobs : WF_vars(SolveStart(j)) /\ WF_vars(cancelled /\ SolveEnd(j))

FairSpec == Spec /\ Fairness

-----------------------------------------------------------------------------
(* Properties.                                                             *)

(* Every variable has its type.                                            *)
TypeOK ==
    /\ cancelled \in BOOLEAN
    /\ stream \in Seq(Kinds)
    /\ Len(stream) <= MaxEvents
    /\ upClosed \in BOOLEAN
    /\ src \in {"subscribing", "select", "sending", "closed"}
    /\ rd \in 0..Len(stream)
    /\ src = "sending" => rd >= 1
    /\ failed \in BOOLEAN
    /\ out \in Seq(Events)
    /\ Len(out) <= OutCap
    /\ run \in {"select", "match", "drain", "returned"}
    /\ cur \in 0..MaxEvents
    /\ pi \in 1..(NPlugins + 1)
    /\ result \in {"none", "nil", "ctxErr"}
    /\ wg \in Int
    /\ job \in [Jobs -> JobStates]

(* Run returns only after every Solve it started has ended, whatever it    *)
(* returns and however many are in flight (the comment on Run).            *)
DrainBeforeReturn == run = "returned" => InFlight = {}

(* Events that decode to a packet, among the first n.                      *)
Packets(n) == {i \in 1..n : stream[i] = "tx"}

Offered(i) == \A p \in Plugins : job[<<i, p>>] # "none"

(* A run that ends because arkd closed its stream has offered every packet *)
(* of the stream to every plugin: junk events, recovered panics and a full *)
(* channel lose nothing.                                                   *)
CleanEndCoversStream ==
    run = "returned" /\ result = "nil" /\ ~cancelled /\ ~failed =>
        \A i \in Packets(Len(stream)) : Offered(i)

(* Packets are consumed one after the other, in arrival order: when a      *)
(* plugin has seen one, every plugin has seen all the earlier ones.        *)
OfferedInOrder ==
    \A i, k \in Packets(Len(stream)) :
        i < k /\ (\E p \in Plugins : job[<<k, p>>] # "none") => Offered(i)

(* A plugin is offered an event at most once and a Solve runs at most      *)
(* once: a job only moves forward.                                         *)
JobOrder ==
    {<<"none", "missed">>, <<"none", "spawned">>,
     <<"spawned", "running">>, <<"running", "finished">>}
JobsMoveForward ==
    [][\A j \in Jobs : job'[j] # job[j] => <<job[j], job'[j]>> \in JobOrder]_vars

(* Cancelling the context ends both goroutines, whatever they were blocked *)
(* on: the select, a full channel, a Match or the drain.                   *)
CancelStops == cancelled ~> (run = "returned" /\ src = "closed")

(* The runtime keeps its contract: it implements SolverContract, with the  *)
(* jobs a plugin was asked about, the Solves in flight and Run's return    *)
(* as the abstract state.                                                  *)
Contract == INSTANCE SolverContract WITH
    offered <- {j \in Jobs : job[j] # "none"},
    inFlight <- InFlight,
    returned <- run = "returned"
KeepsContract == Contract!ContractSpec

=============================================================================

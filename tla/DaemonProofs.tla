---------------------------- MODULE DaemonProofs ----------------------------
(***************************************************************************)
(* The safety properties of Solver and of Daemon, for any number of        *)
(* plugins, events and API requests.                                       *)
(*                                                                         *)
(* The solver's properties need to know where a packet can be between arkd *)
(* and the plugins.  It is in the source's hand, then in the channel, then *)
(* in Run's hand, and the three are in stream order: nothing at or after   *)
(* the packet nearest to the plugins has been offered yet (Unseen), and    *)
(* everything before it has (Covered).  That makes a job fresh when Match  *)
(* accepts it, which is what keeps the WaitGroup's counter equal to the    *)
(* number of Solves in flight.                                             *)
(*                                                                         *)
(* The daemon's steps are steps of the solver or leave it alone, so the    *)
(* solver's invariant carries over; what is added in the second part       *)
(* orders main's shutdown after the drain.                                 *)
(***************************************************************************)
EXTENDS Daemon, FiniteSetTheorems, TLAPS

(* No plugin was asked about an event from e on.                           *)
Unseen(e) == \A i \in Events, p \in Plugins : i >= e => job[<<i, p>>] = "none"

(* The channel's packet is behind the one Run holds, the source's is       *)
(* behind both, and what is not yet in Run's hand is unseen.               *)
Pipeline ==
    /\ Unseen(rd + 1)
    /\ src = "sending" =>
          /\ rd \in Events
          /\ Unseen(rd)
          /\ out # <<>> => out[1] < rd
          /\ run = "match" => cur < rd
    /\ out # <<>> =>
          /\ out[1] \in Events /\ out[1] <= rd
          /\ Unseen(out[1])
          /\ run = "match" => cur < out[1]
    /\ run = "match" =>
          /\ cur \in Events /\ cur <= rd
          /\ Unseen(cur + 1)
          /\ \A p \in Plugins : p >= pi => job[<<cur, p>>] = "none"
          /\ \A p \in Plugins : p < pi => job[<<cur, p>>] # "none"

(* A packet that was read is offered to all plugins, or still on its way,  *)
(* or was in the source's hand when it saw the cancellation.               *)
Covered ==
    \A i \in Events :
        i <= rd /\ stream[i] = "tx" =>
            \/ Offered(i)
            \/ src = "sending" /\ i = rd
            \/ out # <<>> /\ i = out[1]
            \/ run = "match" /\ i = cur
            \/ src = "closed" /\ cancelled /\ i = rd

(* What the end of the source and of Run's loop mean.                      *)
Ends ==
    /\ src = "closed" /\ ~cancelled /\ ~failed => rd = Len(stream)
    /\ result = "nil" /\ run \in {"drain", "returned"} => src = "closed" /\ out = <<>>
    /\ run = "returned" => wg = 0

WgCounts == wg = Cardinality(InFlight)

IndInv == TypeOK /\ Pipeline /\ Covered /\ Ends /\ WgCounts

-----------------------------------------------------------------------------
(* There are finitely many jobs.                                           *)
LEMMA JobsFinite == IsFiniteSet(Jobs)
<1>1. IsFiniteSet(Events)
  BY FS_Interval, MaxEventsAssumption DEF Events
<1>2. IsFiniteSet(Plugins)
  BY FS_Interval, NPluginsAssumption DEF Plugins
<1> QED
  BY <1>1, <1>2, FS_Product DEF Jobs

LEMMA InFlightFinite == IsFiniteSet(InFlight)
  BY JobsFinite, FS_Subset DEF InFlight

(* Every step of the runtime keeps the variables in their types.           *)
LEMMA TypeStep == TypeOK /\ [Next]_vars => TypeOK'
<1> SUFFICES ASSUME TypeOK, [Next]_vars PROVE TypeOK'
  OBVIOUS
<1> USE NPluginsAssumption, MaxEventsAssumption
    DEF TypeOK, Events, Plugins, Kinds, JobStates, OutCap
<1>1. ASSUME NEW k \in Kinds, ArkdEmit(k) PROVE TypeOK'
  BY <1>1 DEF ArkdEmit, sourceVars, runVars
<1>2. CASE ArkdClose \/ Cancel
  BY <1>2 DEF ArkdClose, Cancel, arkdVars, sourceVars, runVars
<1>3. CASE SubscribeOk \/ SubscribeFail \/ SourceCancelled \/ SourceEnd \/ SourceSendCancelled
  BY <1>3 DEF SubscribeOk, SubscribeFail, SourceCancelled, SourceEnd,
              SourceSendCancelled, arkdVars, runVars
<1>4. CASE SourceRecv
  BY <1>4 DEF SourceRecv, arkdVars, runVars
<1>5. CASE SourceSend
  <2>1. rd \in Events /\ Len(out) = 0
    BY <1>5 DEF SourceSend
  <2>2. out' \in Seq(Events) /\ Len(out') <= OutCap
    BY <1>5, <2>1 DEF SourceSend
  <2> QED
    BY <1>5, <2>2 DEF SourceSend, arkdVars, runVars
<1>6. CASE RunCancelled \/ RunClosed \/ MatchDone \/ RunReturn
  BY <1>6 DEF RunCancelled, RunClosed, MatchDone, RunReturn, arkdVars, sourceVars
<1>7. CASE RunReceive
  BY <1>7 DEF RunReceive, arkdVars, sourceVars
<1>8. CASE MatchMiss \/ MatchHit
  <2>1. job' \in [Jobs -> JobStates]
    BY <1>8 DEF MatchMiss, MatchHit
  <2>2. wg' \in Int /\ pi' \in 1..(NPlugins + 1)
    BY <1>8 DEF MatchMiss, MatchHit
  <2> QED
    BY <1>8, <2>1, <2>2 DEF MatchMiss, MatchHit, arkdVars, sourceVars
<1>9. ASSUME NEW j \in Jobs, SolveStep(j) PROVE TypeOK'
  BY <1>9 DEF SolveStep, SolveStart, SolveEnd, arkdVars, sourceVars, runVars
<1>10. CASE UNCHANGED vars
  BY <1>10 DEF vars
<1> QED
  BY <1>1, <1>2, <1>3, <1>4, <1>5, <1>6, <1>7, <1>8, <1>9, <1>10
  DEF Next, SourceStep, RunStep

-----------------------------------------------------------------------------
(* Steps that touch neither the pipeline nor a job, and the two that do    *)
(* with a Solve's job, keep what was said about unseen events.             *)
LEMMA PipelineStep == TypeOK /\ Pipeline /\ [Next]_vars => Pipeline'
<1> SUFFICES ASSUME TypeOK, Pipeline, [Next]_vars PROVE Pipeline'
  OBVIOUS
<1> USE NPluginsAssumption, MaxEventsAssumption
    DEF Pipeline, Unseen, Events, Plugins, OutCap
<1>1. CASE (\E k \in Kinds : ArkdEmit(k)) \/ ArkdClose \/ Cancel
  BY <1>1 DEF ArkdEmit, ArkdClose, Cancel, arkdVars, sourceVars, runVars
<1>2. CASE SubscribeOk \/ SubscribeFail \/ SourceCancelled \/ SourceEnd \/ SourceSendCancelled
  BY <1>2 DEF SubscribeOk, SubscribeFail, SourceCancelled, SourceEnd,
              SourceSendCancelled, arkdVars, runVars
<1>3. CASE SourceRecv
  BY <1>3 DEF SourceRecv, arkdVars, runVars, TypeOK
<1>4. CASE SourceSend
  <2>1. out'[1] = rd
    BY <1>4 DEF SourceSend, TypeOK
  <2> QED
    BY <1>4, <2>1 DEF SourceSend, arkdVars, runVars, TypeOK
<1>5. CASE RunCancelled \/ RunClosed \/ MatchDone \/ RunReturn
  BY <1>5 DEF RunCancelled, RunClosed, MatchDone, RunReturn, arkdVars, sourceVars
<1>6. CASE RunReceive
  <2>1. out' = <<>> /\ cur' = out[1]
    BY <1>6 DEF RunReceive, TypeOK
  <2> QED
    BY <1>6, <2>1 DEF RunReceive, arkdVars, sourceVars, TypeOK
<1>7. CASE MatchMiss \/ MatchHit
  <2>1. cur \in Events /\ pi \in Plugins /\ <<cur, pi>> \in Jobs
    BY <1>7 DEF MatchMiss, MatchHit, TypeOK, Jobs
  <2>2. \A i \in Events, p \in Plugins :
           i # cur \/ p # pi => job'[<<i, p>>] = job[<<i, p>>]
    BY <1>7, <2>1 DEF MatchMiss, MatchHit, TypeOK, Jobs
  <2>3. job'[<<cur, pi>>] # "none"
    BY <1>7, <2>1 DEF MatchMiss, MatchHit, TypeOK
  <2>4. UNCHANGED <<src, rd, out, run, cur>> /\ pi' = pi + 1 /\ run = "match"
    BY <1>7 DEF MatchMiss, MatchHit, sourceVars
  <2>5. cur \in Int /\ rd \in Int /\ pi \in Int
    BY DEF TypeOK
  <2>6. \A p \in Plugins : p >= pi' => job'[<<cur, p>>] = "none"
    BY <2>1, <2>2, <2>4, <2>5
  <2>7. \A p \in Plugins : p < pi' => job'[<<cur, p>>] # "none"
    BY <2>1, <2>2, <2>3, <2>4, <2>5
  <2>8. Unseen(rd + 1)'
    BY <2>2, <2>4, <2>5
  <2>9. Unseen(cur + 1)'
    BY <2>2, <2>4, <2>5
  <2>10. src = "sending" => Unseen(rd)'
    BY <2>2, <2>4, <2>5
  <2>11. out # <<>> => Unseen(out[1])'
    <3> SUFFICES ASSUME out # <<>> PROVE Unseen(out[1])'
      OBVIOUS
    <3>1. out[1] \in Int /\ cur < out[1] /\ out'[1] = out[1]
      BY <2>4
    <3> QED
      BY <2>2, <2>4, <2>5, <3>1
  <2> QED
    BY <2>4, <2>6, <2>7, <2>8, <2>9, <2>10, <2>11
<1>8. ASSUME NEW j \in Jobs, SolveStep(j) PROVE Pipeline'
  <2>1. \A k \in Jobs : job[k] = "none" <=> job'[k] = "none"
    BY <1>8 DEF SolveStep, SolveStart, SolveEnd, TypeOK
  <2>2. \A i \in Events, p \in Plugins : job[<<i, p>>] = "none" <=> job'[<<i, p>>] = "none"
    BY <2>1 DEF Jobs
  <2>3. UNCHANGED <<src, rd, out, run, cur, pi>>
    BY <1>8 DEF SolveStep, SolveStart, SolveEnd, sourceVars, runVars
  <2> QED
    BY <2>2, <2>3 DEF TypeOK
<1>9. CASE UNCHANGED vars
  BY <1>9 DEF vars
<1> QED
  BY <1>1, <1>2, <1>3, <1>4, <1>5, <1>6, <1>7, <1>8, <1>9
  DEF Next, SourceStep, RunStep

-----------------------------------------------------------------------------
(* wg.Add and wg.Done keep the counter at the number of Solves in flight:  *)
(* a matched job is fresh, and a Solve ends once.                          *)
LEMMA WgStep == TypeOK /\ Pipeline /\ WgCounts /\ [Next]_vars => WgCounts'
<1> SUFFICES ASSUME TypeOK, Pipeline, WgCounts, [Next]_vars PROVE WgCounts'
  OBVIOUS
<1> USE DEF WgCounts
<1>1. CASE UNCHANGED <<wg, job>>
  BY <1>1 DEF InFlight
<1>2. CASE MatchMiss \/ MatchHit
  <2>1. <<cur, pi>> \in Jobs /\ job[<<cur, pi>>] = "none"
    BY <1>2, NPluginsAssumption, MaxEventsAssumption
    DEF MatchMiss, MatchHit, TypeOK, Pipeline, Jobs, Events, Plugins
  <2>2. CASE MatchMiss
    <3>1. InFlight' = InFlight
      BY <2>1, <2>2 DEF MatchMiss, InFlight, TypeOK
    <3> QED
      BY <2>2, <3>1 DEF MatchMiss
  <2>3. CASE MatchHit
    <3>1. InFlight' = InFlight \union {<<cur, pi>>}
      BY <2>1, <2>3 DEF MatchHit, InFlight, TypeOK
    <3>2. <<cur, pi>> \notin InFlight
      BY <2>1 DEF InFlight
    <3>3. Cardinality(InFlight') = Cardinality(InFlight) + 1
      BY <3>1, <3>2, InFlightFinite, FS_AddElement
    <3> QED
      BY <2>3, <3>3 DEF MatchHit
  <2> QED
    BY <1>2, <2>2, <2>3
<1>3. ASSUME NEW j \in Jobs, SolveStep(j) PROVE WgCounts'
  <2>1. CASE SolveStart(j)
    <3>1. InFlight' = InFlight
      BY <2>1 DEF SolveStart, InFlight, TypeOK
    <3> QED
      BY <2>1, <3>1 DEF SolveStart
  <2>2. CASE SolveEnd(j)
    <3>1. InFlight' = InFlight \ {j} /\ j \in InFlight
      BY <2>2 DEF SolveEnd, InFlight, TypeOK
    <3>2. Cardinality(InFlight') = Cardinality(InFlight) - 1
      BY <3>1, InFlightFinite, FS_RemoveElement
    <3> QED
      BY <2>2, <3>2 DEF SolveEnd
  <2> QED
    BY <1>3, <2>1, <2>2 DEF SolveStep
<1>4. CASE (\E k \in Kinds : ArkdEmit(k)) \/ ArkdClose \/ Cancel \/ SourceStep
  BY <1>1, <1>4 DEF ArkdEmit, ArkdClose, Cancel, SourceStep, SubscribeOk,
     SubscribeFail, SourceCancelled, SourceEnd, SourceRecv, SourceSend,
     SourceSendCancelled
<1>5. CASE RunCancelled \/ RunClosed \/ RunReceive \/ MatchDone \/ RunReturn
  BY <1>1, <1>5 DEF RunCancelled, RunClosed, RunReceive, MatchDone, RunReturn
<1>6. CASE UNCHANGED vars
  BY <1>1, <1>6 DEF vars
<1> QED
  BY <1>2, <1>3, <1>4, <1>5, <1>6 DEF Next, RunStep

(* What the end of the source and of Run's loop mean stays true.           *)
LEMMA EndsStep == TypeOK /\ Ends /\ WgCounts /\ [Next]_vars => Ends'
<1> SUFFICES ASSUME TypeOK, Ends, WgCounts, [Next]_vars PROVE Ends'
  OBVIOUS
<1> USE DEF Ends
<1>1. CASE (\E k \in Kinds : ArkdEmit(k)) \/ ArkdClose \/ Cancel
  BY <1>1 DEF ArkdEmit, ArkdClose, Cancel, Subscribed, arkdVars, sourceVars, runVars
<1>2. CASE SourceStep
  BY <1>2 DEF SourceStep, SubscribeOk, SubscribeFail, SourceCancelled, SourceEnd,
     SourceRecv, SourceSend, SourceSendCancelled, arkdVars, runVars
<1>3. CASE RunStep
  BY <1>3 DEF RunStep, RunCancelled, RunClosed, RunReceive, MatchMiss, MatchHit,
     MatchDone, RunReturn, arkdVars, sourceVars
<1>4. ASSUME NEW j \in Jobs, SolveStep(j) PROVE Ends'
  <2>1. wg # 0
    <3>1. j \in InFlight
      BY <1>4 DEF SolveStep, SolveStart, SolveEnd, InFlight
    <3> QED
      BY <3>1, InFlightFinite, FS_EmptySet DEF WgCounts
  <2> QED
    BY <1>4, <2>1 DEF SolveStep, SolveStart, SolveEnd, arkdVars, sourceVars, runVars
<1>5. CASE UNCHANGED vars
  BY <1>5 DEF vars
<1> QED
  BY <1>1, <1>2, <1>3, <1>4, <1>5 DEF Next

(* No step loses a packet, except the source's own end on a cancellation.  *)
LEMMA CoveredStep == TypeOK /\ Pipeline /\ Covered /\ [Next]_vars => Covered'
<1> SUFFICES ASSUME TypeOK, Pipeline, Covered, [Next]_vars PROVE Covered'
  OBVIOUS
<1> USE NPluginsAssumption, MaxEventsAssumption DEF Covered, Offered, Events, Plugins
<1>1. ASSUME NEW k \in Kinds, ArkdEmit(k) PROVE Covered'
  <2>1. \A i \in Events : i <= rd => stream'[i] = stream[i]
    BY <1>1 DEF ArkdEmit, TypeOK
  <2> QED
    BY <1>1, <2>1 DEF ArkdEmit, sourceVars, runVars
<1>2. CASE ArkdClose \/ Cancel
  BY <1>2 DEF ArkdClose, Cancel, arkdVars, sourceVars, runVars
<1>3. CASE SubscribeOk \/ SubscribeFail \/ SourceCancelled \/ SourceEnd \/ SourceSendCancelled
  BY <1>3 DEF SubscribeOk, SubscribeFail, SourceCancelled, SourceEnd,
              SourceSendCancelled, arkdVars, runVars
<1>4. CASE SourceRecv
  BY <1>4 DEF SourceRecv, arkdVars, runVars, TypeOK
<1>5. CASE SourceSend
  <2>1. out'[1] = rd /\ out' # <<>> /\ out = <<>>
    BY <1>5 DEF SourceSend, TypeOK, OutCap
  <2> QED
    BY <1>5, <2>1 DEF SourceSend, arkdVars, runVars
<1>6. CASE RunCancelled \/ RunClosed \/ RunReturn
  BY <1>6 DEF RunCancelled, RunClosed, RunReturn, arkdVars, sourceVars
<1>7. CASE RunReceive
  <2>1. cur' = out[1]
    BY <1>7 DEF RunReceive, TypeOK
  <2> QED
    BY <1>7, <2>1 DEF RunReceive, arkdVars, sourceVars
<1>8. CASE MatchDone
  <2>1. Offered(cur)
    BY <1>8 DEF MatchDone, Pipeline, TypeOK
  <2> QED
    BY <1>8, <2>1 DEF MatchDone, arkdVars, sourceVars
<1>9. CASE MatchMiss \/ MatchHit \/ \E j \in Jobs : SolveStep(j)
  <2>1. \A k \in Jobs : job[k] # "none" => job'[k] # "none"
    BY <1>9 DEF MatchMiss, MatchHit, SolveStep, SolveStart, SolveEnd, TypeOK
  <2>2. \A i \in Events : Offered(i) => Offered(i)'
    BY <2>1 DEF Jobs
  <2>3. UNCHANGED <<cancelled, stream, src, rd, out, run, cur>>
    BY <1>9 DEF MatchMiss, MatchHit, SolveStep, SolveStart, SolveEnd,
                arkdVars, sourceVars, runVars
  <2> QED
    BY <2>2, <2>3
<1>10. CASE UNCHANGED vars
  BY <1>10 DEF vars
<1> QED
  BY <1>1, <1>2, <1>3, <1>4, <1>5, <1>6, <1>7, <1>8, <1>9, <1>10
  DEF Next, SourceStep, RunStep

-----------------------------------------------------------------------------
(* The inductive invariant holds in every reachable state.                 *)
THEOREM Invariance == Spec => []IndInv
<1>1. Init => IndInv
  <2> SUFFICES ASSUME Init PROVE IndInv
    OBVIOUS
  <2> USE NPluginsAssumption, MaxEventsAssumption DEF Init
  <2>1. TypeOK
    <3>1. job \in [Jobs -> JobStates]
      BY DEF JobStates
    <3>2. stream \in Seq(Kinds) /\ Len(stream) = 0 /\ out \in Seq(Events) /\ Len(out) = 0
      OBVIOUS
    <3>3. pi \in 1..(NPlugins + 1) /\ cur \in 0..MaxEvents
      OBVIOUS
    <3>4. rd \in 0..Len(stream) /\ Len(stream) <= MaxEvents /\ Len(out) <= OutCap
      BY <3>2 DEF OutCap
    <3>5. wg \in Int
      OBVIOUS
    <3> HIDE NPluginsAssumption, MaxEventsAssumption
    <3> QED
      BY <3>1, <3>2, <3>3, <3>4, <3>5, Zenon DEF TypeOK
  <2>2. \A i \in Events, p \in Plugins : job[<<i, p>>] = "none"
    BY DEF Jobs
  <2>3. Pipeline
    BY <2>2 DEF Pipeline, Unseen
  <2>4. Covered
    BY DEF Covered, Events
  <2>5. Ends
    BY DEF Ends
  <2>6. InFlight = {}
    BY DEF InFlight
  <2>7. WgCounts
    BY <2>6, FS_EmptySet DEF WgCounts
  <2> QED
    BY <2>1, <2>3, <2>4, <2>5, <2>7 DEF IndInv
<1>2. IndInv /\ [Next]_vars => IndInv'
  BY TypeStep, PipelineStep, CoveredStep, EndsStep, WgStep DEF IndInv
<1> QED
  BY <1>1, <1>2, PTL DEF Spec

(* Every variable of the runtime keeps its type.                           *)
THEOREM TypeCorrect == Spec => []TypeOK
<1>1. IndInv => TypeOK
  BY DEF IndInv
<1> QED
  BY <1>1, Invariance, PTL

(* Run never returns with a Solve in flight.                               *)
THEOREM Drains == Spec => []DrainBeforeReturn
<1>1. IndInv => DrainBeforeReturn
  <2> SUFFICES ASSUME IndInv, run = "returned" PROVE InFlight = {}
    BY DEF DrainBeforeReturn
  <2>1. Cardinality(InFlight) = 0
    BY DEF IndInv, Ends, WgCounts
  <2> QED
    BY <2>1, InFlightFinite, FS_EmptySet
<1> QED
  BY <1>1, Invariance, PTL

(* A run that arkd ended has offered every packet to every plugin.         *)
THEOREM CleanEndIsComplete == Spec => []CleanEndCoversStream
<1>1. IndInv => CleanEndCoversStream
  <2> SUFFICES ASSUME IndInv, run = "returned", result = "nil", ~cancelled, ~failed,
                      NEW i \in Packets(Len(stream))
               PROVE  Offered(i)
    BY DEF CleanEndCoversStream
  <2>1. src = "closed" /\ out = <<>> /\ rd = Len(stream)
    BY DEF IndInv, Ends
  <2>2. i \in Events /\ i <= rd /\ stream[i] = "tx"
    BY <2>1, MaxEventsAssumption DEF Packets, Events, IndInv, TypeOK
  <2> QED
    BY <2>1, <2>2 DEF IndInv, Covered
<1> QED
  BY <1>1, Invariance, PTL

(* Packets reach the plugins in stream order.                              *)
THEOREM InOrder == Spec => []OfferedInOrder
<1>1. IndInv => OfferedInOrder
  <2> SUFFICES ASSUME IndInv,
                      NEW i \in Packets(Len(stream)), NEW k \in Packets(Len(stream)),
                      i < k, NEW p \in Plugins, job[<<k, p>>] # "none"
               PROVE  Offered(i)
    BY DEF OfferedInOrder
  <2> USE MaxEventsAssumption DEF IndInv, TypeOK, Events
  <2>1. i \in Events /\ k \in Events /\ stream[i] = "tx"
    BY DEF Packets
  <2>2. k <= rd /\ i <= rd /\ i # rd
    BY <2>1 DEF Pipeline, Unseen
  <2>3. ~(out # <<>> /\ i = out[1])
    BY <2>1 DEF Pipeline, Unseen
  <2>4. ~(run = "match" /\ i = cur)
    BY <2>1 DEF Pipeline, Unseen
  <2> QED
    BY <2>1, <2>2, <2>3, <2>4 DEF Covered
<1> QED
  BY <1>1, Invariance, PTL

(* No job is offered or solved twice.                                      *)
THEOREM MovesForward == Spec => JobsMoveForward
<1>1. IndInv /\ [Next]_vars =>
        [\A j \in Jobs : job'[j] # job[j] => <<job[j], job'[j]>> \in JobOrder]_vars
  <2> SUFFICES ASSUME IndInv, [Next]_vars, NEW j \in Jobs, job'[j] # job[j]
               PROVE  <<job[j], job'[j]>> \in JobOrder
    OBVIOUS
  <2> USE DEF IndInv, TypeOK
  <2>1. CASE MatchMiss \/ MatchHit
    <3>1. <<cur, pi>> \in Jobs /\ job[<<cur, pi>>] = "none"
      BY <2>1, NPluginsAssumption, MaxEventsAssumption
      DEF MatchMiss, MatchHit, Pipeline, Jobs, Events, Plugins
    <3>2. j = <<cur, pi>> /\ job'[j] \in {"missed", "spawned"}
      BY <2>1, <3>1 DEF MatchMiss, MatchHit
    <3> QED
      BY <3>1, <3>2 DEF JobOrder
  <2>2. ASSUME NEW i \in Jobs, SolveStep(i) PROVE <<job[j], job'[j]>> \in JobOrder
    BY <2>2 DEF SolveStep, SolveStart, SolveEnd, JobOrder
  <2>3. ~UNCHANGED job
    OBVIOUS
  <2> QED
    BY <2>1, <2>2, <2>3
    DEF Next, vars, ArkdEmit, ArkdClose, Cancel, SourceStep, SubscribeOk,
        SubscribeFail, SourceCancelled, SourceEnd, SourceRecv, SourceSend,
        SourceSendCancelled, RunStep, RunCancelled, RunClosed, RunReceive,
        MatchDone, RunReturn
<1> QED
  BY <1>1, Invariance, PTL DEF Spec, JobsMoveForward

-----------------------------------------------------------------------------
(* The runtime implements its contract: every step is one of the           *)
(* contract's or leaves the contract's state alone.                        *)
THEOREM ImplementsContract == Spec => KeepsContract
<1>1. Init => Contract!ContractInit
  BY DEF Init, Contract!ContractInit, InFlight
<1>2. IndInv /\ [Next]_vars => [Contract!ContractNext]_(Contract!contractVars)
  <2> SUFFICES ASSUME IndInv, [Next]_vars
               PROVE  [Contract!ContractNext]_(Contract!contractVars)
    OBVIOUS
  <2> DEFINE offered == {j \in Jobs : job[j] # "none"}
  <2> USE DEF IndInv
  <2>1. CASE UNCHANGED <<run, job>>
    BY <2>1 DEF Contract!contractVars, InFlight
  <2>2. CASE MatchMiss \/ MatchHit
    <3>1. PICK j \in Jobs : j = <<cur, pi>>
      BY <2>2, NPluginsAssumption, MaxEventsAssumption
      DEF MatchMiss, MatchHit, TypeOK, Pipeline, Jobs, Events, Plugins
    <3>2. job[j] = "none" /\ run = "match" /\ run' = "match"
      <4>1. run = "match" /\ run' = "match" /\ pi <= NPlugins
        BY <2>2 DEF MatchMiss, MatchHit
      <4>2. pi \in Plugins /\ pi >= pi
        BY <4>1, NPluginsAssumption DEF TypeOK, Plugins
      <4>3. job[<<cur, pi>>] = "none"
        BY <4>1, <4>2 DEF Pipeline
      <4> QED
        BY <3>1, <4>1, <4>3
    <3>3. offered' = offered \union {j} /\ j \notin offered
      BY <2>2, <3>1, <3>2 DEF MatchMiss, MatchHit, TypeOK
    <3>4. CASE MatchMiss
      <4>1. InFlight' = InFlight
        BY <3>1, <3>2, <3>4 DEF MatchMiss, InFlight, TypeOK
      <4>2. Contract!Decline(j)
        BY <3>2, <3>3, <4>1 DEF Contract!Decline
      <4> QED
        BY <4>2 DEF Contract!ContractNext
    <3>5. CASE MatchHit
      <4>1. InFlight' = InFlight \union {j}
        BY <3>1, <3>2, <3>5 DEF MatchHit, InFlight, TypeOK
      <4>2. Contract!Accept(j)
        BY <3>2, <3>3, <4>1 DEF Contract!Accept
      <4> QED
        BY <4>2 DEF Contract!ContractNext
    <3> QED
      BY <2>2, <3>4, <3>5
  <2>3. ASSUME NEW j \in Jobs, SolveStep(j)
        PROVE  [Contract!ContractNext]_(Contract!contractVars)
    <3>1. offered' = offered /\ run' = run
      BY <2>3 DEF SolveStep, SolveStart, SolveEnd, TypeOK, runVars
    <3>2. CASE SolveStart(j)
      <4>1. InFlight' = InFlight
        BY <3>2 DEF SolveStart, InFlight, TypeOK
      <4> QED
        BY <3>1, <4>1 DEF Contract!contractVars
    <3>3. CASE SolveEnd(j)
      <4>1. InFlight' = InFlight \ {j} /\ j \in InFlight
        BY <3>3 DEF SolveEnd, InFlight, TypeOK
      <4>2. Contract!Finish(j)
        BY <3>1, <4>1 DEF Contract!Finish
      <4> QED
        BY <4>2 DEF Contract!ContractNext
    <3> QED
      BY <2>3, <3>2, <3>3 DEF SolveStep
  <2>4. CASE RunReturn
    <3>1. Cardinality(InFlight) = 0
      BY <2>4 DEF RunReturn, WgCounts
    <3>2. InFlight = {}
      BY <3>1, InFlightFinite, FS_EmptySet
    <3>3. InFlight' = InFlight /\ offered' = offered
      BY <2>4 DEF RunReturn, InFlight
    <3>4. Contract!Return
      BY <2>4, <3>2, <3>3 DEF RunReturn, Contract!Return
    <3> QED
      BY <3>4 DEF Contract!ContractNext
  <2>5. CASE RunCancelled \/ RunClosed \/ RunReceive \/ MatchDone
    <3>1. UNCHANGED job /\ run # "returned" /\ run' # "returned"
      BY <2>5 DEF RunCancelled, RunClosed, RunReceive, MatchDone
    <3> QED
      BY <3>1 DEF Contract!contractVars, InFlight
  <2>6. CASE (\E k \in Kinds : ArkdEmit(k)) \/ ArkdClose \/ Cancel \/ SourceStep \/ UNCHANGED vars
    BY <2>1, <2>6 DEF ArkdEmit, ArkdClose, Cancel, SourceStep, SubscribeOk,
       SubscribeFail, SourceCancelled, SourceEnd, SourceRecv, SourceSend,
       SourceSendCancelled, runVars, vars
  <2> QED
    BY <2>2, <2>3, <2>4, <2>5, <2>6 DEF Next, RunStep
<1> QED
  BY <1>1, <1>2, Invariance, PTL DEF Spec, KeepsContract, Contract!ContractSpec

-----------------------------------------------------------------------------
(* The daemon.                                                             *)

(* main has not executed Start's go statement.                             *)
BeforeRun == main \in {"start", "subscribed", "flagged"}

(* Stop has returned.                                                      *)
AfterStop == main \in {"stopHttp", "stopGrpc", "closeArk", "closeIntro", "closeDb"}

(* The goroutine's deferred calls follow Run's return, and the running     *)
(* flag is up exactly from Start's assignment to the first of them.        *)
Epilogue ==
    /\ BeforeRun => run = "select" /\ epilogue = "pending"
    /\ main = "flagged" => running
    /\ ~BeforeRun /\ epilogue = "pending" => running
    /\ epilogue # "pending" => run = "returned" /\ ~running

(* Nothing is closed before Stop returned, and Stop returns only after the *)
(* deferred calls.                                                         *)
Shutdown ==
    /\ AfterStop => epilogue = "done"
    /\ open # Resources => epilogue = "done"
    /\ open # Resources => main \in {"closeIntro", "closeDb", "exited"}

(* Requests left over by the server's Stop.                                *)
Handlers ==
    /\ main \in {"stopGrpc", "closeArk", "closeIntro", "closeDb"} \/ open # Resources =>
          \A r \in Requests : req[r] = "http" => httpLate
    /\ main \in {"closeArk", "closeIntro", "closeDb"} \/ open # Resources =>
          \A r \in Requests : req[r] # "grpc"

DaemonTypes ==
    /\ main \in Pcs
    /\ running \in BOOLEAN
    /\ epilogue \in {"pending", "flagged", "done"}
    /\ open \subseteq Resources
    /\ req \in [Requests -> {"idle", "grpc", "http", "over"}]
    /\ httpLate \in BOOLEAN

DaemonInv == DaemonTypes /\ Epilogue /\ Shutdown /\ Handlers

-----------------------------------------------------------------------------
(* Steps of the daemon, seen from the solver.                              *)

(* A step that does not touch the solver.                                  *)
Outside ==
    \/ StartSubscribe \/ StartSetRunning \/ StartSpawn
    \/ ServerStart \/ ServerStartFatal \/ Signal
    \/ StopWait \/ StopHttp \/ StopGrpc \/ CloseResources
    \/ ClearRunning \/ CloseDone
    \/ \E r \in Requests : RequestStart(r) \/ RequestEnd(r)

LEMMA OutsideLeavesSolver == Outside => UNCHANGED vars
BY DEF Outside, StartSubscribe, StartSetRunning, StartSpawn, ServerStart,
       ServerStartFatal, Signal, StopWait, StopHttp, StopGrpc, CloseResources,
       Close, ClearRunning, CloseDone, RequestStart, RequestEnd

(* The three sorts of steps the daemon takes.                              *)
LEMMA StepKinds == DaemonNext => SolverStep \/ StopCancel \/ Outside
BY DEF DaemonNext, MainStep, Outside

LEMMA SolverStepIsNext == SolverStep => Next
BY DEF SolverStep, Next

(* Every step of the daemon is a step of the solver or leaves it alone.    *)
LEMMA DaemonStepRefines == [DaemonNext]_allVars => [Next]_vars
<1> SUFFICES ASSUME [DaemonNext]_allVars PROVE [Next]_vars
  OBVIOUS
<1>1. CASE SolverStep
  BY <1>1, SolverStepIsNext
<1>2. CASE StopCancel
  BY <1>2 DEF StopCancel, Next
<1>3. CASE Outside
  BY <1>3, OutsideLeavesSolver
<1>4. CASE UNCHANGED allVars
  BY <1>4 DEF allVars
<1> QED
  BY <1>1, <1>2, <1>3, <1>4, StepKinds

(* Run's return is final, and Run moves only in its own steps.             *)
LEMMA ReturnedIsFinal == SolverStep => (run = "returned" => run' = "returned")
BY DEF SolverStep, SourceStep, SubscribeOk, SubscribeFail, SourceCancelled, SourceEnd,
       SourceRecv, SourceSend, SourceSendCancelled, RunStep, RunCancelled, RunClosed,
       RunReceive, MatchMiss, MatchHit, MatchDone, RunReturn, SolveStep, SolveStart,
       SolveEnd, ArkdEmit, ArkdClose, runVars

LEMMA RunWaitsForStart == SolverStep /\ BeforeRun => run' = run
BY DEF SolverStep, BeforeRun, RunStarted, SourceStep, SubscribeOk, SubscribeFail,
       SourceCancelled, SourceEnd, SourceRecv, SourceSend, SourceSendCancelled,
       SolveStep, SolveStart, SolveEnd, ArkdEmit, ArkdClose, runVars

-----------------------------------------------------------------------------
(* Around main and the service the solver behaves as it does alone: what   *)
(* is proved of Solver holds in the daemon (Start, Stop and main only ever *)
(* delay the goroutines or cancel their context).                          *)
THEOREM DaemonRunsSolver == DaemonSpec => ImplementsSolver
<1>1. DaemonInit => Init
  BY DEF DaemonInit
<1> QED
  BY <1>1, DaemonStepRefines, PTL DEF DaemonSpec, ImplementsSolver, Spec

-----------------------------------------------------------------------------
(* Each part of DaemonInv is preserved by every step.                      *)

LEMMA DaemonTypesStep == DaemonTypes /\ [DaemonNext]_allVars => DaemonTypes'
<1> SUFFICES ASSUME DaemonTypes, [DaemonNext]_allVars PROVE DaemonTypes'
  OBVIOUS
<1> USE DEF DaemonTypes
<1>1. CASE SolverStep \/ UNCHANGED allVars
  <2>1. UNCHANGED <<main, running, epilogue, open, req, httpLate>>
    BY <1>1 DEF SolverStep, allVars, daemonVars
  <2> QED
    BY <2>1
<1>2. CASE StopCancel
  BY <1>2 DEF StopCancel, Pcs
<1>3. CASE Outside
  <2>1. main' \in Pcs
    BY <1>3 DEF Outside, Pcs, StartSubscribe, StartSetRunning, StartSpawn,
                ServerStart, ServerStartFatal, Signal, StopWait, StopHttp, StopGrpc,
                CloseResources, Close, ClearRunning, CloseDone, RequestStart, RequestEnd
  <2>2. running' \in BOOLEAN /\ epilogue' \in {"pending", "flagged", "done"}
    BY <1>3 DEF Outside, StartSubscribe, StartSetRunning, StartSpawn,
                ServerStart, ServerStartFatal, Signal, StopWait, StopHttp, StopGrpc,
                CloseResources, Close, ClearRunning, CloseDone, RequestStart, RequestEnd
  <2>3. open' \subseteq Resources
    BY <1>3 DEF Outside, StartSubscribe, StartSetRunning, StartSpawn,
                ServerStart, ServerStartFatal, Signal, StopWait, StopHttp, StopGrpc,
                CloseResources, Close, ClearRunning, CloseDone, RequestStart, RequestEnd
  <2>4. req' \in [Requests -> {"idle", "grpc", "http", "over"}]
    BY <1>3 DEF Outside, StartSubscribe, StartSetRunning, StartSpawn,
                ServerStart, ServerStartFatal, Signal, StopWait, StopHttp, StopGrpc,
                CloseResources, Close, ClearRunning, CloseDone, RequestStart, RequestEnd
  <2>5. httpLate' \in BOOLEAN
    <3>1. CASE StopHttp
      BY <3>1 DEF StopHttp
    <3>2. CASE UNCHANGED httpLate
      BY <3>2
    <3> QED
      BY <1>3, <3>1, <3>2 DEF Outside, StartSubscribe, StartSetRunning, StartSpawn,
                ServerStart, ServerStartFatal, Signal, StopWait, StopGrpc,
                CloseResources, Close, ClearRunning, CloseDone, RequestStart, RequestEnd
  <2> QED
    BY <2>1, <2>2, <2>3, <2>4, <2>5
<1> QED
  BY <1>1, <1>2, <1>3, StepKinds

LEMMA EpilogueStep == DaemonInv /\ [DaemonNext]_allVars => Epilogue'
<1> SUFFICES ASSUME DaemonInv, [DaemonNext]_allVars PROVE Epilogue'
  OBVIOUS
<1> USE DEF DaemonInv, DaemonTypes, Epilogue, BeforeRun
<1>1. CASE SolverStep
  <2>1. UNCHANGED <<main, running, epilogue>>
    BY <1>1 DEF SolverStep, daemonVars
  <2> QED
    BY <1>1, <2>1, ReturnedIsFinal, RunWaitsForStart
<1>2. CASE StopCancel
  BY <1>2 DEF StopCancel, Cancel, runVars
<1>3. CASE Outside
  <2>1. UNCHANGED run
    BY <1>3, OutsideLeavesSolver DEF vars
  <2>2. CASE ClearRunning
    BY <2>1, <2>2 DEF ClearRunning
  <2>3. CASE StartSetRunning
    BY <2>1, <2>3 DEF StartSetRunning
  <2>4. CASE CloseDone
    BY <2>1, <2>4 DEF CloseDone
  <2>5. CASE UNCHANGED <<running, epilogue>> /\ (BeforeRun' => BeforeRun)
             /\ (BeforeRun => BeforeRun' \/ running) /\ (main' = "flagged" => main = "flagged")
    BY <2>1, <2>5
  <2> QED
    BY <1>3, <2>2, <2>3, <2>4, <2>5
    DEF Outside, StartSubscribe, StartSpawn, ServerStart, ServerStartFatal, Signal,
        StopWait, StopHttp, StopGrpc, CloseResources, Close, RequestStart, RequestEnd
<1>4. CASE UNCHANGED allVars
  BY <1>4 DEF allVars, vars, daemonVars
<1> QED
  BY <1>1, <1>2, <1>3, <1>4, StepKinds

LEMMA ShutdownStep == DaemonInv /\ [DaemonNext]_allVars => Shutdown'
<1> SUFFICES ASSUME DaemonInv, [DaemonNext]_allVars PROVE Shutdown'
  OBVIOUS
<1> USE DEF DaemonInv, DaemonTypes, Shutdown, AfterStop
<1>1. CASE SolverStep \/ UNCHANGED allVars
  <2>1. UNCHANGED <<main, epilogue, open>>
    BY <1>1 DEF SolverStep, allVars, daemonVars
  <2> QED
    BY <2>1
<1>2. CASE StopCancel
  BY <1>2 DEF StopCancel
<1>3. CASE ClearRunning
  BY <1>3 DEF ClearRunning
<1>4. CASE CloseResources
  BY <1>4 DEF CloseResources, Close
<1>5. CASE StopWait \/ StopHttp \/ StopGrpc
  BY <1>5 DEF StopWait, StopHttp, StopGrpc
<1>6. CASE Outside /\ ~ClearRunning /\ ~CloseResources /\ ~(StopWait \/ StopHttp \/ StopGrpc)
  BY <1>6 DEF Outside, StartSubscribe, StartSetRunning, StartSpawn, ServerStart,
              ServerStartFatal, Signal, CloseDone, RequestStart, RequestEnd
<1> QED
  BY <1>1, <1>2, <1>3, <1>4, <1>5, <1>6, StepKinds

LEMMA HandlersStep == DaemonInv /\ [DaemonNext]_allVars => Handlers'
<1> SUFFICES ASSUME DaemonInv, [DaemonNext]_allVars PROVE Handlers'
  OBVIOUS
<1> USE DEF DaemonInv, DaemonTypes, Handlers
<1>1. CASE SolverStep \/ UNCHANGED allVars
  <2>1. UNCHANGED <<main, open, req, httpLate>>
    BY <1>1 DEF SolverStep, allVars, daemonVars
  <2> QED
    BY <2>1
<1>2. CASE StopCancel
  BY <1>2 DEF StopCancel, Shutdown
<1>3. CASE StopHttp
  BY <1>3 DEF StopHttp, Shutdown
<1>4. CASE StopGrpc
  BY <1>4 DEF StopGrpc
<1>5. CASE CloseResources
  BY <1>5 DEF CloseResources, Close
<1>6. ASSUME NEW r \in Requests, RequestStart(r) PROVE Handlers'
  BY <1>6 DEF RequestStart, GrpcListening, HttpListening, Shutdown
<1>7. ASSUME NEW r \in Requests, RequestEnd(r) PROVE Handlers'
  BY <1>7 DEF RequestEnd
<1>8. CASE \/ StartSubscribe \/ StartSetRunning \/ StartSpawn \/ ServerStart
           \/ ServerStartFatal \/ Signal \/ StopWait \/ ClearRunning \/ CloseDone
  BY <1>8 DEF StartSubscribe, StartSetRunning, StartSpawn, ServerStart,
              ServerStartFatal, Signal, StopWait, ClearRunning, CloseDone, Shutdown
<1> QED
  BY <1>1, <1>2, <1>3, <1>4, <1>5, <1>6, <1>7, <1>8, StepKinds DEF Outside

-----------------------------------------------------------------------------
(* The shutdown order holds in every reachable state.                      *)
THEOREM DaemonInvariance == DaemonSpec => []DaemonInv
<1>1. DaemonInit => DaemonInv
  BY DEF DaemonInit, Init, DaemonInv, DaemonTypes, Epilogue, Shutdown, Handlers,
         BeforeRun, AfterStop, Pcs
<1>2. DaemonInv /\ [DaemonNext]_allVars => DaemonInv'
  BY DaemonTypesStep, EpilogueStep, ShutdownStep, HandlersStep DEF DaemonInv
<1> QED
  BY <1>1, <1>2, PTL DEF DaemonSpec

(* While a Solve is in flight main has closed none of the clients and      *)
(* stores it works with.                                                   *)
THEOREM SolvesKeepResources == DaemonSpec => []SolvesHaveResources
<1>1. DaemonInv /\ DrainBeforeReturn => SolvesHaveResources
  BY DEF DaemonInv, Epilogue, Shutdown, DrainBeforeReturn, SolvesHaveResources
<1> QED
  BY <1>1, DaemonInvariance, DaemonRunsSolver, Drains, PTL DEF ImplementsSolver

(* main closes nothing under a handler, except under an HTTP request that  *)
(* outlived the shutdown timeout.                                          *)
THEOREM HandlersKeepResources == DaemonSpec => []HandlersHaveResources
<1>1. DaemonInv => HandlersHaveResources
  BY DEF DaemonInv, Handlers, HandlersHaveResources
<1> QED
  BY <1>1, DaemonInvariance, PTL

(* Status reports Run truthfully.                                          *)
THEOREM StatusIsHonest == DaemonSpec => []StatusHonest
<1>1. DaemonInv /\ DrainBeforeReturn => StatusHonest
  BY DEF DaemonInv, DaemonTypes, Epilogue, DrainBeforeReturn, StatusHonest, RunStarted,
         BeforeRun
<1> QED
  BY <1>1, DaemonInvariance, DaemonRunsSolver, Drains, PTL DEF ImplementsSolver
=============================================================================

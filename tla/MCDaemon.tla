------------------------------ MODULE MCDaemon ------------------------------
(***************************************************************************)
(* The life of bancod for TLC, its start-up and what comes after it.  The  *)
(* two share no state but the step from one to the other, so a behaviour   *)
(* is one part's; the other stays in its initial state.                    *)
(*                                                                         *)
(* Start-up: what is required is set or not, ports are unset, no integer,  *)
(* too small, too large, each other's default, or taken.  Daemon: one      *)
(* plugin, as main installs, two events, so that one Solve is in flight    *)
(* while the next packet is matched, and two requests.                     *)
(***************************************************************************)
EXTENDS Daemon, Startup

VARIABLE part    \* the part that runs

lifeVars == <<allVars, startupVars, part>>

MCEnvs ==
    [ark : BOOLEAN, seed : BOOLEAN, intro : BOOLEAN, datadir : BOOLEAN,
     home : BOOLEAN, level : {Unset, Junk},
     grpc : {Unset, Junk, 0, 2, 9}, http : {Unset, Junk, 1, 3, 9}]

LifeInit ==
    /\ DaemonInit /\ StartupInit
    /\ part \in {"start-up", "daemon"}
    /\ part = "daemon" => env = CHOOSE e \in Envs : ConfigValid(e)

LifeNext ==
    \/ part = "start-up" /\ StartupNext /\ UNCHANGED <<allVars, part>>
    \/ part = "daemon" /\ DaemonNext /\ UNCHANGED <<startupVars, part>>

(* Nothing in start-up has to happen.                                      *)
LifeSpec == LifeInit /\ [][LifeNext]_lifeVars /\ (part = "daemon" => DaemonFairness)

=============================================================================

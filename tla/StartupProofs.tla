---------------------------- MODULE StartupProofs ----------------------------
(***************************************************************************)
(* Theorems about Startup, for every set of environments, every choice of  *)
(* default and taken ports and any number of faults, crashes and restarts. *)
(***************************************************************************)
EXTENDS Startup, TLAPS

(* main is past OpenDB.                                                    *)
PastOpenDB == {"introspector", "arkclient", "arkinit", "unlock", "listen",
               "gateway", "serving"}
InOpenDB == {"wal", "migrate", "migrating"}
PastConfig == {"mkdir", "open"} \union InOpenDB \union PastOpenDB

(* The handle is open from OpenDB's first statement on, and the file is    *)
(* migrated from its return on.                                            *)
DatabaseInv ==
    /\ pc \in InOpenDB \union PastOpenDB => db = "open"
    /\ pc \in PastOpenDB => schema = "migrated"
    /\ pc = "migrating" => schema = "partial"

(* The configuration in hand is LoadConfig's, the gRPC server has the port *)
(* it names, and the HTTP server has tried only in a started daemon.       *)
PortsInv ==
    /\ pc \in PastConfig => cfg.http \in Int /\ cfg.grpc # cfg.http
    /\ pc \in {"gateway", "serving"} => grpc = cfg.grpc
    /\ pc \in {"config"} \union (PastConfig \ {"serving"}) => http = None
    /\ ServingHasPorts

(* A configuration in hand is the environment's, which was valid.          *)
CauseInv ==
    /\ pc \in PastConfig =>
          ConfigValid(env) /\ cfg.grpc = PortOr(env.grpc, DefaultGRPCPort)
    /\ faults \in Nat /\ crashes \in Nat
    /\ GivesUpForCause

-----------------------------------------------------------------------------
LEMMA DatabaseStep == DatabaseInv /\ [StartupNext]_startupVars => DatabaseInv'
<1> SUFFICES ASSUME DatabaseInv, [StartupNext]_startupVars PROVE DatabaseInv'
  OBVIOUS
<1> USE DEF DatabaseInv, InOpenDB, PastOpenDB, process
<1>1. CASE LoadConfig
  BY <1>1 DEF LoadConfig
<1>2. CASE Proceed
  BY <1>2 DEF Proceed, Follows
<1>3. CASE Fatal
  BY <1>3 DEF Fatal
<1>4. CASE EnableWAL
  BY <1>4 DEF EnableWAL
<1>5. CASE MigrateBegin
  BY <1>5 DEF MigrateBegin
<1>6. CASE MigrateApplied
  BY <1>6 DEF MigrateApplied
<1>7. CASE MigrateNoChange
  BY <1>7 DEF MigrateNoChange
<1>8. CASE MigrateRefused \/ OpenFails
  BY <1>8 DEF MigrateRefused, OpenFails
<1>9. CASE Listen \/ ListenRefused
  BY <1>9 DEF Listen, ListenRefused
<1>10. CASE ListenAndServe \/ ListenAndServeFails
  BY <1>10 DEF ListenAndServe, ListenAndServeFails
<1>11. CASE Stop \/ Crash \/ Restart
  BY <1>11 DEF Stop, Crash, Restart
<1>12. CASE UNCHANGED startupVars
  BY <1>12 DEF startupVars
<1> QED
  BY <1>1, <1>2, <1>3, <1>4, <1>5, <1>6, <1>7, <1>8, <1>9, <1>10, <1>11, <1>12
  DEF StartupNext

LEMMA PortsStep == PortsInv /\ [StartupNext]_startupVars => PortsInv'
<1> SUFFICES ASSUME PortsInv, [StartupNext]_startupVars PROVE PortsInv'
  OBVIOUS
<1> USE DEF PortsInv, PastConfig, InOpenDB, PastOpenDB, ServingHasPorts, process
<1>1. CASE LoadConfig
  <2>1. CASE ConfigValid(env)
    <3>1. /\ cfg'.http = PortOr(env.http, DefaultHTTPPort)
          /\ cfg'.grpc = PortOr(env.grpc, DefaultGRPCPort)
          /\ pc' = "mkdir" /\ http' = http /\ http = None
      BY <1>1, <2>1 DEF LoadConfig
    <3>2. cfg'.http \in Int /\ cfg'.grpc # cfg'.http
      BY <2>1, <3>1, PortsAssumption DEF ConfigValid, PortsValid
    <3> QED
      BY <3>1, <3>2
  <2>2. CASE ~ConfigValid(env)
    BY <1>1, <2>2 DEF LoadConfig
  <2> QED
    BY <2>1, <2>2
<1>2. CASE Proceed
  BY <1>2, FailedAssumption DEF Proceed, Follows
<1>3. CASE Listen
  BY <1>3 DEF Listen
<1>4. CASE ListenAndServe
  <2>1. CASE cfg.http \in Taken \union {grpc}
    BY <1>4, <2>1, FailedAssumption DEF ListenAndServe
  <2>2. CASE cfg.http \notin Taken \union {grpc}
    BY <1>4, <2>2, FailedAssumption DEF ListenAndServe
  <2> QED
    BY <2>1, <2>2
<1>5. CASE ListenAndServeFails
  BY <1>5, FailedAssumption DEF ListenAndServeFails, Fault
<1>6. CASE Restart
  BY <1>6 DEF Restart
<1>7. CASE /\ UNCHANGED <<cfg, grpc, http>>
           /\ pc' \in PastConfig => pc \in PastConfig \ {"serving", "gateway"}
           /\ pc' \notin {"gateway", "serving", "config"}
  BY <1>7
<1>8. CASE UNCHANGED startupVars
  BY <1>8 DEF startupVars
<1> QED
  BY <1>1, <1>2, <1>3, <1>4, <1>5, <1>6, <1>7, <1>8
  DEF StartupNext, Fatal, EnableWAL, MigrateBegin, MigrateApplied, MigrateNoChange,
      MigrateRefused, OpenFails, ListenRefused, Stop, Crash

LEMMA CauseStep == CauseInv /\ [StartupNext]_startupVars => CauseInv'
<1> SUFFICES ASSUME CauseInv, [StartupNext]_startupVars PROVE CauseInv'
  OBVIOUS
<1> USE DEF CauseInv, PastConfig, InOpenDB, PastOpenDB, GivesUpForCause, process
<1>1. CASE LoadConfig
  <2>1. UNCHANGED env /\ (pc' = "mkdir" \/ (pc' = "fatal" /\ ~ConfigValid(env)))
    BY <1>1 DEF LoadConfig
  <2>2. pc' = "mkdir" => ConfigValid(env) /\ cfg'.grpc = PortOr(env.grpc, DefaultGRPCPort)
    BY <1>1 DEF LoadConfig
  <2>3. UNCHANGED <<schema, faults, crashes>> /\ pc = "config"
    BY <1>1 DEF LoadConfig
  <2> QED
    BY <2>1, <2>2, <2>3 DEF ConfigValid, Required, DatadirKnown, PortsValid, PortOr
<1>2. CASE Fatal \/ OpenFails \/ ListenAndServeFails
  <2>1. PICK f \in Nat : f = faults
    OBVIOUS
  <2>2. faults' = f + 1 /\ struck' = TRUE
    BY <1>2, <2>1 DEF Fatal, OpenFails, ListenAndServeFails, Fault
  <2>3. faults' \in Nat /\ faults' > 0
    BY <2>1, <2>2
  <2>4. /\ UNCHANGED <<env, cfg, schema, crashes>>
        /\ pc' = "fatal" \/ (pc' = pc /\ pc = "serving")
    BY <1>2 DEF Fatal, OpenFails, ListenAndServeFails
  <2> QED
    BY <2>2, <2>3, <2>4 DEF ConfigValid, Required, DatadirKnown, PortsValid, PortOr
<1>3. CASE Crash
  <2>1. PICK c \in Nat : c = crashes
    OBVIOUS
  <2>2. crashes' = c + 1 /\ pc' = "crashed" /\ UNCHANGED <<schema, faults>>
    BY <1>3, <2>1 DEF Crash
  <2>3. crashes' \in Nat /\ crashes' > 0
    BY <2>1, <2>2
  <2> QED
    BY <2>2, <2>3
<1>4. CASE ListenRefused
  BY <1>4 DEF ListenRefused
<1>5. CASE Proceed \/ EnableWAL \/ MigrateNoChange \/ Listen \/ ListenAndServe
  <2>1. /\ UNCHANGED <<env, cfg, schema, faults, crashes>>
        /\ pc' \in PastConfig /\ pc \in PastConfig \ {"migrating"} /\ pc' # "fatal"
    BY <1>5 DEF Proceed, Follows, EnableWAL, MigrateNoChange, Listen, ListenAndServe
  <2> QED
    BY <2>1
<1>6. CASE MigrateBegin \/ MigrateApplied
  <2>1. /\ UNCHANGED <<env, cfg, faults, crashes>>
        /\ pc' \in PastConfig /\ pc \in PastConfig /\ pc' # "fatal"
        /\ schema' = "partial" => pc' = "migrating"
    BY <1>6 DEF MigrateBegin, MigrateApplied
  <2> QED
    BY <2>1
<1>7. CASE MigrateRefused
  BY <1>7 DEF MigrateRefused
<1>8. CASE Stop \/ Restart
  BY <1>8 DEF Stop, Restart
<1>9. CASE UNCHANGED startupVars
  BY <1>9 DEF startupVars
<1> QED
  BY <1>1, <1>2, <1>3, <1>4, <1>5, <1>6, <1>7, <1>8, <1>9 DEF StartupNext

-----------------------------------------------------------------------------
(* A daemon that has started has an open handle on a migrated database,    *)
(* after any history of failures, crashes and restarts (OpenDB).           *)
THEOREM ServesFromMigratedDatabase == StartupSpec => []ServingHasDatabase
<1>1. StartupInit => DatabaseInv
  BY DEF StartupInit, DatabaseInv, InOpenDB, PastOpenDB
<1>2. DatabaseInv => ServingHasDatabase
  BY DEF DatabaseInv, ServingHasDatabase, InOpenDB, PastOpenDB
<1> QED
  BY <1>1, <1>2, DatabaseStep, PTL DEF StartupSpec

(* A started daemon has its gRPC port, and its HTTP server is not kept     *)
(* down by it: only by another process or by a failed call (LoadConfig,    *)
(* Server.Start).                                                          *)
THEOREM ListenersHaveTheirPorts == StartupSpec => []ServingHasPorts
<1>1. StartupInit => PortsInv
  BY DEF StartupInit, PortsInv, ServingHasPorts, PastConfig, InOpenDB, PastOpenDB
<1>2. PortsInv => ServingHasPorts
  BY DEF PortsInv
<1> QED
  BY <1>1, <1>2, PortsStep, PTL DEF StartupSpec

(* A daemon that says it is started has its migrated database and its gRPC *)
(* port, and is without its HTTP port for an outside cause only, after any *)
(* history of failures, crashes and restarts (main, LoadConfig).           *)
THEOREM StartsSoundly == StartupSpec => []StartedSoundly
BY ServesFromMigratedDatabase, ListenersHaveTheirPorts, PTL DEF StartedSoundly

(* Start-up gives up only for an invalid configuration, a taken gRPC port, *)
(* a failed call or a migration that was interrupted: what a stopped or    *)
(* crashed daemon leaves behind is otherwise no obstacle (OpenDB, main).   *)
THEOREM GivesUpOnlyForCause == StartupSpec => []GivesUpForCause
<1>1. StartupInit => CauseInv
  BY DEF StartupInit, CauseInv, GivesUpForCause, PastConfig, InOpenDB, PastOpenDB
<1>2. CauseInv => GivesUpForCause
  BY DEF CauseInv
<1> QED
  BY <1>1, <1>2, CauseStep, PTL DEF StartupSpec

=============================================================================

------------------------------- MODULE Startup -------------------------------
(***************************************************************************)
(* bancod from its environment to "bancod started": LoadConfig, OpenDB,    *)
(* the clients and the two listeners, with every error path, and again     *)
(* after a stop, a crash or a fatal error over what is left on disk.  What *)
(* happens between the start of the service and its shutdown is module     *)
(* Daemon's.                                                               *)
(***************************************************************************)
EXTENDS Integers

CONSTANTS
    Envs,         \* environments: [ark, seed, intro, datadir,
                  \* home, grpc, http, level]
    Unset, Junk,  \* a variable that is not set, that is no integer
    DefaultGRPCPort, DefaultHTTPPort, MaxPort,
    Taken,        \* ports another process listens on
    None,         \* no configuration, no listener
    Failed,       \* a listener that could not bind its port
    MaxFaults,    \* bound: calls that fail
    MaxCrashes    \* bound: crashes

ASSUME PortsAssumption ==
    /\ MaxPort \in Nat
    /\ DefaultGRPCPort \in 1..MaxPort /\ DefaultHTTPPort \in 1..MaxPort
    /\ DefaultGRPCPort # DefaultHTTPPort
ASSUME FailedAssumption == Failed # None /\ Failed \notin Int
ASSUME BoundsAssumption == MaxFaults \in Nat /\ MaxCrashes \in Nat

VARIABLES
    env,      \* the environment; it stays what it is
    pc,       \* where main is; a process that is "fatal", "crashed" or
              \* "stopped" may be started again
    cfg,      \* the Config: [grpc, http], or None
    db,       \* the handle: "closed", "open"
    schema,   \* the file: "absent", "partial" or "migrated"
    grpc,     \* the port the gRPC server listens on, or None
    http,     \* the port of the HTTP server, None or Failed
    struck,   \* history: a call of this process has failed
    faults, crashes

startupVars == <<env, pc, cfg, db, schema, grpc, http, struck, faults, crashes>>
process == <<cfg, db, grpc, http>>

StartupInit ==
    /\ env \in Envs
    /\ pc = "config" /\ cfg = None
    /\ db = "closed" /\ schema = "absent"
    /\ grpc = None /\ http = None
    /\ struck = FALSE /\ faults = 0 /\ crashes = 0

-----------------------------------------------------------------------------
(* LoadConfig.                                                             *)

PortOr(v, default) == IF v = Unset THEN default ELSE v
Required(e) == e.ark /\ e.seed /\ e.intro
DatadirKnown(e) == e.datadir \/ e.home

(* Mutant: the two ports may be one.                                       *)
PortsValid_SamePort(e) ==
    /\ e.grpc # Junk /\ e.http # Junk
    /\ PortOr(e.grpc, DefaultGRPCPort) \in 1..MaxPort
    /\ PortOr(e.http, DefaultHTTPPort) \in 1..MaxPort

PortsValid(e) ==
    /\ e.grpc # Junk /\ e.http # Junk
    /\ PortOr(e.grpc, DefaultGRPCPort) \in 1..MaxPort
    /\ PortOr(e.http, DefaultHTTPPort) \in 1..MaxPort
    /\ PortOr(e.grpc, DefaultGRPCPort) # PortOr(e.http, DefaultHTTPPort)

ConfigValid(e) ==
    Required(e) /\ DatadirKnown(e) /\ PortsValid(e) /\ e.level # Junk

LoadConfig ==
    /\ pc = "config"
    /\ IF ConfigValid(env)
         THEN /\ cfg' = [grpc |-> PortOr(env.grpc, DefaultGRPCPort),
                         http |-> PortOr(env.http, DefaultHTTPPort)]
              /\ pc' = "mkdir"
         ELSE pc' = "fatal" /\ UNCHANGED cfg
    /\ UNCHANGED <<env, db, schema, grpc, http, struck, faults, crashes>>

-----------------------------------------------------------------------------
(* main.  A call that only may fail goes on or ends the process; log.Fatal *)
(* runs no deferred call.                                                  *)

Follows == [mkdir |-> "open", open |-> "wal", introspector |-> "arkclient",
            arkclient |-> "arkinit", arkinit |-> "unlock", unlock |-> "listen",
            gateway |-> "serving"]

Proceed ==
    /\ pc \in DOMAIN Follows
    /\ pc' = Follows[pc]
    /\ db' = IF pc = "open" THEN "open" ELSE db
    /\ UNCHANGED <<env, cfg, schema, grpc, http, struck, faults, crashes>>

Fault == faults < MaxFaults /\ faults' = faults + 1 /\ struck' = TRUE

(* Any of these calls, or net.Listen on the gRPC port, returned an error.  *)
Fatal ==
    /\ pc \in DOMAIN Follows \union {"listen"}
    /\ Fault
    /\ pc' = "fatal"
    /\ UNCHANGED <<env, process, schema, crashes>>

(* OpenDB sets the journal mode; on an error it closes the handle.         *)
EnableWAL ==
    /\ pc = "wal"
    /\ pc' = "migrate"
    /\ UNCHANGED <<env, process, schema, struck, faults, crashes>>

(* golang-migrate: a version is marked, applied and cleared; one that is   *)
(* still marked is refused.                                                *)
MigrateBegin ==
    /\ pc = "migrate" /\ schema = "absent"
    /\ schema' = "partial"
    /\ pc' = "migrating"
    /\ UNCHANGED <<env, process, struck, faults, crashes>>

MigrateApplied ==
    /\ pc = "migrating"
    /\ schema' = "migrated"
    /\ pc' = "introspector"
    /\ UNCHANGED <<env, process, struck, faults, crashes>>

(* Mutant: a database that is up to date is an error.                      *)
MigrateNoChange_IsError ==
    /\ pc = "migrate" /\ schema = "migrated"
    /\ pc' = "fatal" /\ db' = "closed"
    /\ UNCHANGED <<env, cfg, grpc, http, schema, struck, faults, crashes>>

(* ErrNoChange is no error.                                                *)
MigrateNoChange ==
    /\ pc = "migrate" /\ schema = "migrated"
    /\ pc' = "introspector"
    /\ UNCHANGED <<env, process, schema, struck, faults, crashes>>

(* Up refuses a version that is still marked; the handle is closed.        *)
MigrateRefused ==
    /\ pc = "migrate" /\ schema = "partial"
    /\ pc' = "fatal" /\ db' = "closed"
    /\ UNCHANGED <<env, cfg, grpc, http, schema, struck, faults, crashes>>

(* Mutant: the error is logged and OpenDB goes on.                         *)
OpenFails_Ignored ==
    /\ pc \in {"wal", "migrate", "migrating"}
    /\ Fault
    /\ pc' = "introspector"
    /\ UNCHANGED <<env, process, schema, crashes>>

(* PRAGMA, the migration driver or Up failed: the handle is closed.        *)
OpenFails ==
    /\ pc \in {"wal", "migrate", "migrating"}
    /\ Fault
    /\ pc' = "fatal" /\ db' = "closed"
    /\ UNCHANGED <<env, cfg, grpc, http, schema, crashes>>

(* Server.Start: the gRPC port is bound at once; the gateway's client may  *)
(* still fail; the HTTP port is bound by a goroutine, whose error is only  *)
(* logged.                                                                 *)
Listen ==
    /\ pc = "listen" /\ cfg.grpc \notin Taken
    /\ pc' = "gateway" /\ grpc' = cfg.grpc
    /\ UNCHANGED <<env, cfg, db, schema, http, struck, faults, crashes>>

ListenRefused ==
    /\ pc = "listen" /\ cfg.grpc \in Taken
    /\ pc' = "fatal"
    /\ UNCHANGED <<env, process, schema, struck, faults, crashes>>

ListenAndServe ==
    /\ pc = "serving" /\ http = None
    /\ http' = IF cfg.http \in Taken \union {grpc} THEN Failed ELSE cfg.http
    /\ UNCHANGED <<env, pc, cfg, db, schema, grpc, struck, faults, crashes>>

(* Any other error of the HTTP server's listener, such as a port that      *)
(* needs privileges.                                                       *)
ListenAndServeFails ==
    /\ pc = "serving" /\ http = None
    /\ Fault
    /\ http' = Failed
    /\ UNCHANGED <<env, pc, cfg, db, schema, grpc, crashes>>

(* A signal: module Daemon has the shutdown.                               *)
Stop ==
    /\ pc = "serving"
    /\ pc' = "stopped"
    /\ UNCHANGED <<env, process, schema, struck, faults, crashes>>

Crash ==
    /\ pc \notin {"fatal", "crashed", "stopped"}
    /\ crashes < MaxCrashes /\ crashes' = crashes + 1
    /\ pc' = "crashed"
    /\ UNCHANGED <<env, process, schema, struck, faults>>

(* Somebody starts the process again: memory is new, the file is not.      *)
Restart ==
    /\ pc \in {"fatal", "crashed", "stopped"}
    /\ pc' = "config" /\ cfg' = None /\ db' = "closed"
    /\ grpc' = None /\ http' = None /\ struck' = FALSE
    /\ UNCHANGED <<env, schema, faults, crashes>>

-----------------------------------------------------------------------------
StartupNext ==
    \/ LoadConfig \/ Proceed \/ Fatal \/ EnableWAL
    \/ MigrateBegin \/ MigrateApplied \/ MigrateNoChange \/ MigrateRefused
    \/ OpenFails
    \/ Listen \/ ListenRefused \/ ListenAndServe \/ ListenAndServeFails
    \/ Stop \/ Crash \/ Restart

StartupSpec == StartupInit /\ [][StartupNext]_startupVars

-----------------------------------------------------------------------------
(* Properties.                                                             *)

(* When main has said that bancod is started it has an open handle on a    *)
(* migrated database, whatever failed before and however it was restarted. *)
ServingHasDatabase == pc = "serving" => db = "open" /\ schema = "migrated"

(* A started daemon has its gRPC port.  Its HTTP server may be down, which *)
(* main only logs (server.go:91), but for a cause outside of it: another   *)
(* process has the port or the listener's call failed.  It is never down   *)
(* because of the daemon's own gRPC port, defaults included (LoadConfig).  *)
ServingHasPorts ==
    pc = "serving" =>
        /\ grpc = cfg.grpc
        /\ http = Failed => cfg.http \in Taken \/ struck
        /\ http \notin {None, Failed} => http = cfg.http /\ http # grpc

(* Both, of a daemon that says it is started.                              *)
StartedSoundly == ServingHasDatabase /\ ServingHasPorts

(* Start-up gives up for a cause only: its configuration is invalid, the   *)
(* gRPC port is taken, a call of this process failed, or an earlier crash  *)
(* or failure struck in the middle of the migration and left the file      *)
(* marked, which no restart gets over.  So a daemon that was stopped, or   *)
(* crashed outside of the migration, starts again on the file it left.     *)
GivesUpForCause ==
    /\ pc = "fatal" =>
          \/ ~ConfigValid(env)
          \/ PortOr(env.grpc, DefaultGRPCPort) \in Taken
          \/ struck
          \/ schema = "partial"
    /\ schema = "partial" => pc = "migrating" \/ faults > 0 \/ crashes > 0

=============================================================================

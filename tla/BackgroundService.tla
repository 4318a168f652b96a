-------------------------- MODULE BackgroundService --------------------------
(***************************************************************************)
(* Initialization and the managed background process of the local proxy    *)
(* on Linux without systemd --user (src/tools/saiai-cli/src/main.rs):      *)
(* saiai init / init-codex, start (restart is the same), stop and          *)
(* upstream-proxy, run by concurrent command processes, and the workers    *)
(* they spawn.  Every environment has a config.json, a service lock and a  *)
(* state file; the initialization lock is the root's, shared by all.       *)
(*                                                                         *)
(* A configuration is its listen address, its credential and its upstream  *)
(* setting: what proxy_runtime_config_changed compares.  A worker is known *)
(* by the number of its spawn, which stands for its start time; its pid    *)
(* may have belonged to an earlier process.                                *)
(***************************************************************************)
EXTENDS Naturals, FiniteSets

CONSTANTS Cli,         \* command processes, each runs one command at a time
          Env,         \* environments under one SAIAI root
          Port, Key, Upstream, Pid,
          SystemUpstream, \* the upstream setting of a new configuration
          Kinds,       \* the commands the run issues
          NoConfig, Nobody, Unread,
          MaxCommands, \* bound on the commands issued
          MaxSpawns,   \* bound on the workers spawned
          MaxClaims,   \* bound on the ports other programs bind
          MaxCrashes,  \* bound on command processes that are killed
          Interrupted  \* whether inits stop after they wrote the configuration

ASSUME BackgroundAssumption ==
    /\ Env # {} /\ Key # {} /\ SystemUpstream \in Upstream
    /\ Kinds \subseteq {"init", "start", "stop", "upstream"}
    /\ MaxCommands \in Nat /\ MaxSpawns \in Nat /\ MaxClaims \in Nat /\ MaxCrashes \in Nat
    /\ Interrupted \in BOOLEAN
    /\ Nobody \notin Cli /\ NoConfig \notin Port \cup Key
    /\ Nobody \notin [pid : Pid, start : Nat]
    /\ NoConfig \notin [listen : Port, key : Key, upstream : Upstream]

VARIABLES config,      \* config.json of every environment
          initLock, serviceLock,
          state,       \* background-process state file: [pid, start] or Nobody
          command,     \* for every command process, what it runs and where it is
          worker,      \* the workers spawned so far, by spawn number
          foreign,     \* ports bound by other programs
          count        \* what the bounds are counted in

vars == <<config, initLock, serviceLock, state, command, worker, foreign, count>>

Config == [listen : Port, key : Key, upstream : Upstream]
Spawn == 1 .. MaxSpawns
NoCommand == [pc |-> "idle", kind |-> "start", env |-> CHOOSE e \in Env : TRUE,
              key |-> CHOOSE k \in Key : TRUE, cfg |-> NoConfig, changed |-> FALSE, spawn |-> 0]
Ended == {"idle", "started", "left", "stopped", "failed", "saved", "skipped"}
Commands == [pc : Ended \cup {"initLock", "configure", "written", "serviceLock", "read", "stop",
                              "forget", "ensure", "spawn", "record", "await"},
             kind : {"init", "start", "stop", "upstream"}, env : Env, key : Key,
             cfg : Config \cup {NoConfig}, changed : BOOLEAN, spawn : 0 .. MaxSpawns]
Worker == [env : Env, pid : Pid, pc : {"spawned", "booted", "listening", "dead"},
           conf : Config \cup {Unread}]

TypeOK ==
    /\ config \in [Env -> Config \cup {NoConfig}]
    /\ initLock \in Cli \cup {Nobody} /\ serviceLock \in [Env -> Cli \cup {Nobody}]
    /\ state \in [Env -> [pid : Pid, start : Spawn] \cup {Nobody}]
    /\ command \in [Cli -> Commands]
    /\ \E spawned \in 0 .. MaxSpawns : worker \in [1 .. spawned -> Worker]
    /\ foreign \subseteq Port
    /\ count \in [commands : 0 .. MaxCommands, claims : 0 .. MaxClaims, crashes : 0 .. MaxCrashes]
-----------------------------------------------------------------------------
(* The operating system *)

Alive(w) == worker[w].pc # "dead"
Listener(port) == {w \in DOMAIN worker : worker[w].pc = "listening" /\ worker[w].conf.listen = port}
Bindable(port) == port \notin foreign /\ Listener(port) = {}
PidFree(pid) == \A w \in DOMAIN worker : Alive(w) => worker[w].pid # pid

(* The process the state file names: alive, with the recorded pid and start time. *)
Matches(e) == {w \in DOMAIN worker : /\ state[e] # Nobody /\ Alive(w)
                                     /\ worker[w].pid = state[e].pid /\ w = state[e].start}
\* BUG: the start time is not compared.
MatchesPidOnly(e) == {w \in DOMAIN worker : /\ state[e] # Nobody /\ Alive(w)
                                            /\ worker[w].pid = state[e].pid}

Goto(c, pc) == command' = [command EXCEPT ![c].pc = pc]
Kill(W) == worker' = [w \in DOMAIN worker |-> IF w \in W THEN [worker[w] EXCEPT !.pc = "dead"] ELSE worker[w]]

(* A command returns: its locks go with its file descriptors. *)
Release(c) == /\ initLock' = IF initLock = c THEN Nobody ELSE initLock
              /\ serviceLock' = [e \in Env |-> IF serviceLock[e] = c THEN Nobody ELSE serviceLock[e]]
Finish(c, outcome) == Goto(c, outcome) /\ Release(c)
-----------------------------------------------------------------------------
(* Commands *)

Begin(c, kind, e, key) ==
    /\ command[c].pc \in Ended /\ count.commands < MaxCommands
    /\ count' = [count EXCEPT !.commands = @ + 1]
    /\ command' = [command EXCEPT ![c] =
           [NoCommand EXCEPT !.kind = kind, !.env = e, !.key = key,
                             !.pc = IF kind \in {"init", "upstream"} THEN "initLock" ELSE "serviceLock"]]
    /\ UNCHANGED <<config, initLock, serviceLock, state, worker, foreign>>

LockInitialization(c) ==
    /\ command[c].pc = "initLock" /\ initLock = Nobody
    /\ initLock' = c /\ Goto(c, "configure")
    /\ UNCHANGED <<config, serviceLock, state, worker, foreign, count>>

Reserved(e) == {config[f].listen : f \in {f \in Env \ {e} : config[f] # NoConfig}}

(* select_local_proxy_listen: keep the address that the own service holds or that is
   free, and otherwise take any free one no environment has configured. *)
Keeps(e) ==
    /\ config[e] # NoConfig /\ config[e].listen \notin Reserved(e)
    /\ \/ Listener(config[e].listen) \cap Matches(e) # {}
       \/ Bindable(config[e].listen)
Selected(e) == IF Keeps(e) THEN {config[e].listen}
               ELSE {p \in Port : Bindable(p)} \ Reserved(e)

(* update_saiai_provider_config_at: the file is rewritten whether or not it changed,
   and an upstream setting that is there survives. *)
WriteConfig(c) ==
    LET e == command[c].env
        settings == IF config[e] = NoConfig THEN SystemUpstream ELSE config[e].upstream
    IN  /\ command[c].pc = "configure" /\ command[c].kind = "init"
        /\ \/ /\ Selected(e) = {}
              /\ Finish(c, "failed") /\ UNCHANGED config
           \/ \E port \in Selected(e) :
                LET new == [listen |-> port, key |-> command[c].key, upstream |-> settings]
                IN  /\ config' = [config EXCEPT ![e] = new]
                    /\ command' = [command EXCEPT ![c].pc = "written", ![c].changed = config[e] # new]
                    /\ UNCHANGED <<initLock, serviceLock>>
        /\ UNCHANGED <<state, worker, foreign, count>>

(* run_upstream_proxy_command: the service is not restarted. *)
SetUpstream(c) ==
    LET e == command[c].env
    IN  /\ command[c].pc = "configure" /\ command[c].kind = "upstream"
        /\ \/ config[e] = NoConfig /\ Finish(c, "failed") /\ UNCHANGED config
           \/ \E u \in Upstream : /\ config[e] # NoConfig
                                  /\ config' = [config EXCEPT ![e].upstream = u]
                                  /\ Finish(c, "saved")
        /\ UNCHANGED <<state, worker, foreign, count>>

(* What follows the write in init fails (the client's own files), or SAIAI_SKIP_START. *)
Interrupt(c) ==
    /\ Interrupted /\ command[c].pc = "written"
    /\ Finish(c, "failed") \/ Finish(c, "skipped")
    /\ UNCHANGED <<config, state, worker, foreign, count>>

Active(e) == Matches(e) # {}
Reachable(e) == ~Bindable(config[e].listen)
\* BUG: a changed configuration does not count.
RefreshIfInactive(c) == ~Active(command[c].env) \/ ~Reachable(command[c].env)
RefreshNeeded(c) == command[c].changed \/ ~Active(command[c].env) \/ ~Reachable(command[c].env)

(* start_managed_service_after_initialization, still under the initialization lock. *)
Decide(c) ==
    /\ command[c].pc = "written"
    /\ \/ RefreshNeeded(c) /\ Goto(c, "serviceLock") /\ UNCHANGED <<initLock, serviceLock>>
       \/ ~RefreshNeeded(c) /\ Finish(c, "left")
    /\ UNCHANGED <<config, state, worker, foreign, count>>

LockService(c) ==
    LET e == command[c].env
    IN  /\ command[c].pc = "serviceLock" /\ serviceLock[e] = Nobody
        /\ serviceLock' = [serviceLock EXCEPT ![e] = c]
        /\ Goto(c, IF command[c].kind = "stop" THEN "stop" ELSE "read")
        /\ UNCHANGED <<config, initLock, state, worker, foreign, count>>

ReadConfig(c) ==
    LET e == command[c].env
    IN  /\ command[c].pc = "read"
        /\ \/ config[e] = NoConfig /\ Finish(c, "failed")
           \/ /\ config[e] # NoConfig
              /\ command' = [command EXCEPT ![c].pc = "stop", ![c].cfg = config[e]]
              /\ UNCHANGED <<initLock, serviceLock>>
        /\ UNCHANGED <<config, state, worker, foreign, count>>

\* BUG: whatever has the recorded pid now is signalled.
StopPid(c) ==
    /\ command[c].pc = "stop"
    /\ Kill(MatchesPidOnly(command[c].env)) /\ Goto(c, "forget")
    /\ UNCHANGED <<config, initLock, serviceLock, state, foreign, count>>
(* stop_linux_background_proxy_at: only a process that is the recorded one is
   signalled.  The identity is checked immediately before the signal: one step. *)
StopRecorded(c) ==
    /\ command[c].pc = "stop"
    /\ Kill(Matches(command[c].env)) /\ Goto(c, "forget")
    /\ UNCHANGED <<config, initLock, serviceLock, state, foreign, count>>
Forget(c) ==
    LET e == command[c].env
    IN  /\ command[c].pc = "forget" /\ Matches(e) = {}
        /\ state' = [state EXCEPT ![e] = Nobody]
        /\ IF command[c].kind = "stop" THEN Finish(c, "stopped")
           ELSE Goto(c, "ensure") /\ UNCHANGED <<initLock, serviceLock>>
        /\ UNCHANGED <<config, worker, foreign, count>>

(* ensure_listen_available: an address in use whose owner cannot be seen passes. *)
EnsureAvailable(c) ==
    LET port == command[c].cfg.listen
    IN  /\ command[c].pc = "ensure"
        /\ \/ /\ Bindable(port) \/ port \in foreign
              /\ Goto(c, "spawn") /\ UNCHANGED <<initLock, serviceLock>>
           \/ ~Bindable(port) /\ Finish(c, "failed")
        /\ UNCHANGED <<config, state, worker, foreign, count>>

SpawnFails(c) ==
    /\ command[c].pc = "spawn" /\ Finish(c, "failed")
    /\ UNCHANGED <<config, state, worker, foreign, count>>
SpawnWorker(c) ==
    LET w == Cardinality(DOMAIN worker) + 1
    IN  /\ command[c].pc = "spawn" /\ w \in Spawn
        /\ \E pid \in Pid :
             /\ PidFree(pid)
             /\ worker' = [v \in 1 .. w |-> IF v = w THEN [env |-> command[c].env, pid |-> pid,
                                                           pc |-> "spawned", conf |-> Unread]
                                            ELSE worker[v]]
        /\ command' = [command EXCEPT ![c].pc = "record", ![c].spawn = w]
        /\ UNCHANGED <<config, initLock, serviceLock, state, foreign, count>>

Record(c) ==
    LET w == command[c].spawn
    IN  /\ command[c].pc = "record" /\ Alive(w)
        /\ state' = [state EXCEPT ![command[c].env] = [pid |-> worker[w].pid, start |-> w]]
        /\ Goto(c, "await")
        /\ UNCHANGED <<config, initLock, serviceLock, worker, foreign, count>>

Ready(c) ==
    /\ command[c].pc = "await"
    /\ command[c].spawn \in Listener(command[c].cfg.listen)
    /\ Finish(c, "started")
    /\ UNCHANGED <<config, state, worker, foreign, count>>

\* BUG: the child is left running.
StartFailsQuietly(c) ==
    /\ command[c].pc \in {"record", "await"}
    /\ state' = [state EXCEPT ![command[c].env] = Nobody]
    /\ Finish(c, "failed")
    /\ UNCHANGED <<config, worker, foreign, count>>
\* BUG: no deadline.
StartFailsOnExit(c) ==
    /\ command[c].pc \in {"record", "await"} /\ ~Alive(command[c].spawn)
    /\ state' = [state EXCEPT ![command[c].env] = Nobody]
    /\ Finish(c, "failed")
    /\ UNCHANGED <<config, worker, foreign, count>>
(* The worker exited, or a deadline passed: the child is killed and its state removed. *)
StartFails(c) ==
    /\ command[c].pc \in {"record", "await"}
    /\ Kill({command[c].spawn})
    /\ state' = [state EXCEPT ![command[c].env] = Nobody]
    /\ Finish(c, "failed")
    /\ UNCHANGED <<config, foreign, count>>

CliCrash(c) ==
    /\ command[c].pc \notin Ended /\ count.crashes < MaxCrashes
    /\ count' = [count EXCEPT !.crashes = @ + 1]
    /\ Finish(c, "idle")
    /\ UNCHANGED <<config, state, worker, foreign>>
-----------------------------------------------------------------------------
(* Workers (run_local_proxy) and the rest of the machine *)

WorkerReads(w) ==
    LET e == worker[w].env
    IN  /\ worker[w].pc = "spawned" /\ config[e] # NoConfig
        /\ worker' = [worker EXCEPT ![w].pc = "booted", ![w].conf = config[e]]
        /\ UNCHANGED <<config, initLock, serviceLock, state, command, foreign, count>>
WorkerBinds(w) ==
    /\ worker[w].pc = "booted"
    /\ worker' = [worker EXCEPT ![w].pc = IF Bindable(worker[w].conf.listen) THEN "listening" ELSE "dead"]
    /\ UNCHANGED <<config, initLock, serviceLock, state, command, foreign, count>>
WorkerDies(w) ==
    /\ Alive(w) /\ Kill({w})
    /\ UNCHANGED <<config, initLock, serviceLock, state, command, foreign, count>>

Claim(port) ==
    /\ Bindable(port) /\ count.claims < MaxClaims
    /\ foreign' = foreign \cup {port} /\ count' = [count EXCEPT !.claims = @ + 1]
    /\ UNCHANGED <<config, initLock, serviceLock, state, command, worker>>
Leave(port) ==
    /\ port \in foreign /\ foreign' = foreign \ {port}
    /\ UNCHANGED <<config, initLock, serviceLock, state, command, worker, count>>
-----------------------------------------------------------------------------
Init ==
    /\ config = [e \in Env |-> NoConfig]
    /\ initLock = Nobody /\ serviceLock = [e \in Env |-> Nobody]
    /\ state = [e \in Env |-> Nobody]
    /\ command = [c \in Cli |-> NoCommand]
    /\ worker = [w \in {} |-> NoCommand] /\ foreign = {}
    /\ count = [commands |-> 0, claims |-> 0, crashes |-> 0]

CliStep(c) ==
    \/ LockInitialization(c) \/ WriteConfig(c) \/ SetUpstream(c) \/ Decide(c)
    \/ LockService(c) \/ ReadConfig(c) \/ StopRecorded(c) \/ Forget(c)
    \/ EnsureAvailable(c) \/ SpawnFails(c) \/ SpawnWorker(c) \/ Record(c) \/ Ready(c) \/ StartFails(c)

Next ==
    \/ \E c \in Cli : \/ \E kind \in Kinds, e \in Env, key \in Key : Begin(c, kind, e, key)
                      \/ CliStep(c) \/ Interrupt(c) \/ CliCrash(c)
    \/ \E w \in DOMAIN worker : WorkerReads(w) \/ WorkerBinds(w) \/ WorkerDies(w)
    \/ \E port \in Port : Claim(port) \/ Leave(port)

Spec == Init /\ [][Next]_vars
FairSpec == Spec /\ \A c \in Cli : WF_vars(CliStep(c))
-----------------------------------------------------------------------------
Workers(e) == {w \in DOMAIN worker : worker[w].env = e /\ Alive(w)}
Starting(e) == {command[c].spawn : c \in {c \in Cli : /\ serviceLock[e] = c
                                                      /\ command[c].pc \in {"record", "await"}}}
Reaches(c, outcome) == command[c].pc # outcome /\ command'[c].pc = outcome

(* No two environments are configured with one address, although inits pick it by
   binding and dropping a socket while ports come and go. *)
DistinctListeners ==
    \A e, f \in Env : (e # f /\ config[e] # NoConfig /\ config[f] # NoConfig)
                          => config[e].listen # config[f].listen

(* As long as no command process is killed, every worker is the one that the state
   file names or that a command is starting under the service lock: stop finds it, and
   no second one runs beside it. *)
NoOrphans ==
    count.crashes = 0 =>
        \A e \in Env : /\ Workers(e) \subseteq Matches(e) \cup Starting(e)
                       /\ Cardinality(Workers(e)) <= 1

(* No two workers contend for an address, and every worker is one that a stop would find. *)
WorkersAreKnown == DistinctListeners /\ NoOrphans

(* A command ends no process but a worker of its own environment, even when the pid in
   a stale state file belongs to another environment's worker by now. *)
EndsOnlyItsOwn ==
    \A c \in Cli, w \in DOMAIN worker :
        (command'[c].pc # command[c].pc /\ Alive(w) /\ worker'[w].pc = "dead")
            => worker[w].env = command[c].env

(* When init reports that it started or refreshed the proxy, the worker it spawned
   serves the configuration that is in the file at that moment. *)
RefreshesToTheFile ==
    \A c \in Cli : (command[c].kind = "init" /\ Reaches(c, "started"))
        => LET w == command[c].spawn
           IN  worker'[w].pc = "listening" /\ worker'[w].conf = config'[command[c].env]

(* Commands of concurrent processes act on the worker and the configuration of their own
   environment, as both are when they act. *)
CommandsKeepToTheirOwn == [][EndsOnlyItsOwn /\ RefreshesToTheFile]_vars

(* When init reports that it left the proxy running because the configuration is
   unchanged, the running worker has read, or is about to read, that configuration. *)
LeftRunningIsCurrent ==
    [][\A c \in Cli : Reaches(c, "left")
          => \A w \in Workers(command[c].env) :
                worker[w].conf \in {Unread, config[command[c].env]}]_vars

(* Every command returns, whatever the workers, the other commands and the ports do. *)
CommandsEnd == \A c \in Cli : []<>(command[c].pc \in Ended)
=============================================================================

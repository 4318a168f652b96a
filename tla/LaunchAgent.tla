------------------------------ MODULE LaunchAgent ------------------------------
(***************************************************************************)
(* The managed proxy of macOS (src/tools/saiai-cli/src/main.rs): start,    *)
(* stop, restart and init of one environment.  A start writes the plist of *)
(* the LaunchAgent, loads it again only when the file changed, and         *)
(* restarts its process; there is no service lock, so commands interleave  *)
(* at every launchctl call.  launchd keeps the definition it loaded and    *)
(* starts the process again whenever it ends.                              *)
(***************************************************************************)
EXTENDS Naturals

CONSTANTS Cli,
          Program,        \* what a plist may name; commands write Current
          Current,
          Port,
          None,
          MaxCommands,    \* bound on the commands issued
          MaxDeaths,      \* bound on processes that end and ports others take
          LaunchctlFails  \* whether bootout may fail for a loaded agent

LaunchAgentAssumption ==
    /\ Current \in Program /\ None \notin Program \cup Cli
    /\ MaxCommands \in Nat /\ MaxDeaths \in Nat /\ LaunchctlFails \in BOOLEAN

VARIABLES config,    \* config.json: how often it was written, and the address
          plist,     \* the program the plist names
          loaded,    \* the program of the definition launchd has loaded
          worker,    \* the agent's process: the configuration it read, whether it listens
          foreign,   \* ports that other programs listen on
          initLock,
          command,   \* of every Cli
          settled,   \* a start has seen the listener, and nothing was done since
          count

vars == <<config, plist, loaded, worker, foreign, initLock, command, settled, count>>

Config == [version : Nat, port : Port]
NoWorker == [runs |-> FALSE, read |-> 0, port |-> None, up |-> FALSE]
Fresh == [NoWorker EXCEPT !.runs = TRUE]
Idle == [pc |-> "idle", kind |-> "start", loaded |-> FALSE, changed |-> FALSE, version |-> 0]
TypeOK ==
    /\ config.version \in 1 .. MaxCommands + 1 /\ config.port \in Port
    /\ plist \in Program \cup {None} /\ loaded \in Program \cup {None}
    /\ worker \in [runs : BOOLEAN, read : 0 .. MaxCommands + 1, port : Port \cup {None}, up : BOOLEAN]
    /\ foreign \subseteq Port /\ initLock \in Cli \cup {None} /\ settled \in BOOLEAN
    /\ command \in [Cli -> [pc : {"idle", "lock", "select", "bind", "print", "plist", "bootout", "ensure", "bootstrap",
                                  "enable", "kickstart", "wait", "stop"},
                            kind : {"start", "stop", "restart", "init"}, loaded : BOOLEAN, changed : BOOLEAN,
                            version : 0 .. MaxCommands + 1]]

\* Nothing is installed yet, or an agent of this program or of an earlier one is loaded.
Init ==
    /\ \E p \in Port : config = [version |-> 1, port |-> p]
    /\ plist \in Program \cup {None} /\ loaded \in {None, plist}
    /\ worker = (IF loaded = None THEN NoWorker ELSE [runs |-> TRUE, read |-> 1, port |-> config.port, up |-> TRUE])
    /\ foreign = {} /\ initLock = None /\ settled = FALSE
    /\ command = [c \in Cli |-> Idle] /\ count = [commands |-> 0, deaths |-> 0]
-----------------------------------------------------------------------------
(* launchd *)

At(c, pc) == command[c].pc = pc
Go(c, pc) == command' = [command EXCEPT ![c].pc = pc]
End(c) == /\ command' = [command EXCEPT ![c] = Idle]
          /\ initLock' = IF initLock = c THEN None ELSE initLock
Ports == <<config, foreign, count>>

\* The process reads config.json when it starts, and then binds the address or ends.
WorkerReads ==
    /\ worker.runs /\ worker.port = None
    /\ worker' = [worker EXCEPT !.read = config.version, !.port = config.port]
    /\ UNCHANGED <<Ports, plist, loaded, initLock, command, settled>>
WorkerBinds ==
    /\ worker.runs /\ worker.port # None /\ ~worker.up
    /\ worker' = IF worker.port \in foreign THEN Fresh ELSE [worker EXCEPT !.up = TRUE]
    /\ UNCHANGED <<Ports, plist, loaded, initLock, command, settled>>
\* KeepAlive
WorkerDies ==
    /\ worker.up /\ count.deaths < MaxDeaths /\ count' = [count EXCEPT !.deaths = @ + 1]
    /\ worker' = Fresh /\ settled' = FALSE
    /\ UNCHANGED <<config, foreign, plist, loaded, initLock, command>>
PortIsTaken(p) ==
    /\ p \notin foreign /\ ~(worker.up /\ worker.port = p) /\ foreign' = foreign \cup {p}
    /\ foreign' # Port /\ count.deaths < MaxDeaths /\ count' = [count EXCEPT !.deaths = @ + 1]
    /\ UNCHANGED <<config, plist, loaded, worker, initLock, command, settled>>
-----------------------------------------------------------------------------
(* init: the address, config.json and the start *)

Begin(c, kind) ==
    /\ At(c, "idle") /\ count.commands < MaxCommands /\ count' = [count EXCEPT !.commands = @ + 1]
    /\ command' = [command EXCEPT ![c] = [Idle EXCEPT !.kind = kind,
                      !.pc = CASE kind = "init" -> "lock" [] kind = "start" -> "print" [] OTHER -> "stop"]]
    /\ UNCHANGED <<config, foreign, plist, loaded, worker, initLock, settled>>
LockInit(c) ==
    /\ At(c, "lock") /\ initLock = None /\ initLock' = c /\ Go(c, "select")
    /\ UNCHANGED <<Ports, plist, loaded, worker, settled>>
\* An address that the environment's own proxy answers on is kept.
Owned == loaded # None /\ worker.up /\ worker.port = config.port
Write(c, port) == /\ config' = [version |-> config.version + 1, port |-> port] /\ settled' = FALSE
                  /\ Go(c, "print")
Select(c) ==
    /\ At(c, "select")
    /\ IF Owned THEN Write(c, config.port) ELSE Go(c, "bind") /\ UNCHANGED <<config, settled>>
    /\ UNCHANGED <<foreign, count, plist, loaded, worker, initLock>>
Taken == foreign \cup {p \in Port : worker.up /\ worker.port = p}
\* Otherwise it is kept if it can be bound; else any free one is taken.
Bind(c) ==
    /\ At(c, "bind")
    /\ \/ config.port \notin Taken /\ Write(c, config.port)
       \/ config.port \in Taken /\ \E p \in Port \ Taken : Write(c, p)
       \/ Taken = Port /\ End(c) /\ UNCHANGED <<config, settled>>
    /\ Taken # Port => UNCHANGED initLock
    /\ UNCHANGED <<foreign, count, plist, loaded, worker>>
-----------------------------------------------------------------------------
(* start and stop *)

Announce(c) ==
    /\ At(c, "print")
    /\ command' = [command EXCEPT ![c].pc = "plist", ![c].loaded = (loaded # None), ![c].version = config.version]
    /\ UNCHANGED <<Ports, plist, loaded, worker, initLock, settled>>
Loads(wasLoaded, changed) == ~wasLoaded \/ changed
WritePlist(c) ==
    /\ At(c, "plist") /\ plist' = Current
    /\ command' = [command EXCEPT ![c].changed = (plist # Current),
                      ![c].pc = IF ~Loads(command[c].loaded, plist # Current) THEN "enable"
                                ELSE IF command[c].loaded THEN "bootout" ELSE "ensure"]
    /\ UNCHANGED <<Ports, loaded, worker, initLock, settled>>
Bootout(c) ==
    /\ At(c, "bootout")
    /\ \/ /\ loaded # None /\ Go(c, "ensure") /\ loaded' = None /\ worker' = NoWorker /\ settled' = FALSE
          /\ UNCHANGED initLock
       \/ (loaded = None \/ LaunchctlFails) /\ End(c) /\ UNCHANGED <<loaded, worker, settled>>
    /\ UNCHANGED <<Ports, plist>>
Ensure(c) ==
    /\ At(c, "ensure")
    /\ IF config.port \in Taken THEN End(c) ELSE Go(c, "bootstrap") /\ UNCHANGED initLock
    /\ UNCHANGED <<Ports, plist, loaded, worker, settled>>
\* launchd reads the file now and runs the program at load.
Bootstrap(c) ==
    /\ At(c, "bootstrap")
    /\ IF loaded = None
       THEN /\ loaded' = plist /\ worker' = Fresh /\ settled' = FALSE
            /\ Go(c, "enable") /\ UNCHANGED initLock
       ELSE End(c) /\ UNCHANGED <<loaded, worker, settled>>
    /\ UNCHANGED <<Ports, plist>>
Enable(c) ==
    /\ At(c, "enable") /\ Go(c, "kickstart")
    /\ UNCHANGED <<Ports, plist, loaded, worker, initLock, settled>>
\* BUG: a process that runs is left.
LeftRunning == IF worker.runs THEN worker ELSE Fresh
\* kickstart -k
Restarted == Fresh
Kickstart(c) ==
    /\ At(c, "kickstart")
    /\ IF loaded # None
       THEN worker' = Restarted /\ settled' = FALSE /\ Go(c, "wait") /\ UNCHANGED initLock
       ELSE End(c) /\ UNCHANGED <<worker, settled>>
    /\ UNCHANGED <<Ports, plist, loaded>>
\* A connection to the address: to whoever listens there.
Listening == config.port \in Taken
\* A start that waited in vain says so, and succeeds all the same.
Wait(c) ==
    /\ At(c, "wait")
    /\ \/ Listening /\ settled' = (config.port \notin foreign /\ loaded # None)
       \/ ~Listening /\ UNCHANGED settled
    /\ End(c) /\ UNCHANGED <<Ports, plist, loaded, worker>>
\* stop: whatever bootout answers; a restart goes on.
Stop(c) ==
    /\ At(c, "stop")
    /\ \/ loaded' = None /\ worker' = NoWorker
       \/ LaunchctlFails /\ loaded # None /\ UNCHANGED <<loaded, worker>>
    /\ settled' = FALSE
    /\ IF command[c].kind = "restart" THEN Go(c, "print") /\ UNCHANGED initLock ELSE End(c)
    /\ UNCHANGED <<Ports, plist>>

Start(c) == \/ Announce(c) \/ WritePlist(c) \/ Bootout(c) \/ Ensure(c) \/ Bootstrap(c) \/ Enable(c) \/ Kickstart(c) \/ Wait(c)
Next == \/ WorkerReads \/ WorkerBinds \/ WorkerDies \/ \E p \in Port : PortIsTaken(p)
        \/ \E c \in Cli : \/ LockInit(c) \/ Select(c) \/ Bind(c) \/ Start(c) \/ Stop(c)
                          \/ \E kind \in {"start", "stop", "restart", "init"} : Begin(c, kind)
Spec == Init /\ [][Next]_vars
-----------------------------------------------------------------------------
(* A start that succeeds leaves no process that read an older configuration than the one
   it was called for. *)
RunsTheConfiguration ==
    \A c \in Cli : At(c, "wait") /\ command'[c].pc = "idle" /\ worker.runs
        => worker.port = None \/ worker.read >= command[c].version

(* When no command is under way, launchd runs the agent as the plist defines it. *)
LoadedIsThePlist == (\A c \in Cli : At(c, "idle")) /\ loaded # None => loaded = plist

(* Once a start has seen its proxy listen and nothing was done to it since, an init finds
   the address to be its own. *)
FindsItsAddress ==
    \A c \in Cli : settled /\ At(c, "select") => command'[c].pc # "bind"

\* A start on macOS leaves the agent refreshed, at an address the next init keeps.
AgentIsRefreshed == [][RunsTheConfiguration /\ FindsItsAddress]_vars
=============================================================================

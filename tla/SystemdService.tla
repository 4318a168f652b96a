---------------------------- MODULE SystemdService ----------------------------
(***************************************************************************)
(* The two managers of the Linux proxy (src/tools/saiai-cli/src/main.rs):  *)
(* start and stop use the systemd user unit where the shell reaches the    *)
(* user bus, and a background process where it does not.  Both exist for   *)
(* one environment when its commands are given in different shells.        *)
(*                                                                         *)
(* The service lock admits one start or stop at a time (BackgroundService, *)
(* which also has the steps that end a recorded background process; here   *)
(* they are one).  An init writes config.json without that lock, and takes *)
(* a new address when the one it finds is not its proxy's nor free.        *)
(***************************************************************************)
EXTENDS Sequences, Naturals

CONSTANTS Address,     \* listener addresses
          Damaged,     \* what a config.json that cannot be read names
          MaxCommands, \* bound on starts and stops
          MaxWrites,   \* bound on the configurations written or damaged
          MaxCrashes   \* bound on proxies that end by themselves

SystemdAssumption == Damaged \notin Address /\ MaxCommands \in Nat /\ MaxWrites \in Nat /\ MaxCrashes \in Nat

VARIABLES config,     \* the address in every config.json so far; the last one is in the file
          unit,       \* [file, enabled, state]: whether the unit is written, its ActiveState
          background, \* whether a background process is recorded
          proxy,      \* what the unit's and the background process have read, and who listens
          command,
          count

vars == <<config, unit, background, proxy, command, count>>

Manager == {"unit", "background"}
Version == Len(config)
Readable == config[Version] # Damaged
\* A proxy: read is 0 until it has read config.json; then it binds the address or ends.
Gone == [runs |-> FALSE, read |-> 0, up |-> FALSE]
Fresh == [Gone EXCEPT !.runs = TRUE]
Idle == [pc |-> "idle", kind |-> "start", bus |-> FALSE, wasActive |-> FALSE, stopped |-> FALSE, version |-> 0, result |-> "none"]
TypeOK ==
    /\ config \in Seq(Address \cup {Damaged}) /\ Version \in 1 .. MaxWrites + 1 /\ background \in BOOLEAN
    /\ unit \in [file : BOOLEAN, enabled : BOOLEAN, state : {"inactive", "active", "waiting"}]
    /\ proxy \in [Manager -> [runs : BOOLEAN, read : 0 .. MaxWrites + 1, up : BOOLEAN]]
    /\ command \in [pc : {"idle", "background", "active", "write", "reload", "enable", "run", "ensure", "spawn", "await",
                          "unit", "owner"},
                    kind : {"start", "stop"}, bus : BOOLEAN, wasActive : BOOLEAN, stopped : BOOLEAN,
                    version : 0 .. MaxWrites + 1, result : {"none", "started", "unitStopped", "stopped", "notRunning", "failed"}]

Init ==
    /\ (\E address \in Address : config = <<address>>) /\ background = FALSE
    /\ unit = [file |-> FALSE, enabled |-> FALSE, state |-> "inactive"]
    /\ proxy = [m \in Manager |-> Gone] /\ command = Idle
    /\ count = [commands |-> 0, writes |-> 0, crashes |-> 0]
-----------------------------------------------------------------------------
(* The processes *)

\* What listens at the address of a configuration.
ListensAt(m, version) == proxy[m].up /\ config[proxy[m].read] = config[version]
Listening(version) == \E m \in Manager : ListensAt(m, version)
\* A proxy that ends: the unit is started again after a while (Restart=on-failure).
Ends(m) == /\ proxy' = [proxy EXCEPT ![m] = Gone]
           /\ unit' = IF m = "unit" THEN [unit EXCEPT !.state = "waiting"] ELSE unit
Reads(m) ==
    /\ proxy[m].runs /\ proxy[m].read = 0
    /\ IF Readable THEN proxy' = [proxy EXCEPT ![m].read = Version] /\ UNCHANGED unit ELSE Ends(m)
    /\ UNCHANGED <<config, background, command, count>>
Binds(m) ==
    /\ proxy[m].read > 0 /\ ~proxy[m].up
    /\ IF Listening(proxy[m].read) THEN Ends(m) ELSE proxy' = [proxy EXCEPT ![m].up = TRUE] /\ UNCHANGED unit
    /\ UNCHANGED <<config, background, command, count>>
Crash(m) ==
    /\ proxy[m].runs /\ count.crashes < MaxCrashes /\ count' = [count EXCEPT !.crashes = @ + 1] /\ Ends(m)
    /\ UNCHANGED <<config, background, command>>
UnitRestarts ==
    /\ unit.state = "waiting" /\ unit' = [unit EXCEPT !.state = "active"] /\ proxy' = [proxy EXCEPT !["unit"] = Fresh]
    /\ UNCHANGED <<config, background, command, count>>
Changes(address) ==
    /\ count.writes < MaxWrites /\ count' = [count EXCEPT !.writes = @ + 1] /\ config' = Append(config, address)
    /\ UNCHANGED <<unit, background, proxy, command>>
\* selected_service_owns_listener: the process on record, or else the unit where the shell of
\* the init reaches the bus.
SelectedListens(bus) ==
    \E m \in Manager : /\ ListensAt(m, Version)
                       /\ IF background /\ proxy["background"].runs THEN m = "background" ELSE m = "unit" /\ bus
\* The address stays when the selected proxy listens at it or nobody does; another
\* program may have it where the selected proxy has not.
ConfigWritten(bus, address) ==
    /\ SelectedListens(bus) => address = config[Version]
    /\ address = config[Version] => SelectedListens(bus) \/ ~Listening(Version)
    /\ Changes(address)
ConfigDamaged == Readable /\ Changes(Damaged)
-----------------------------------------------------------------------------
(* start and stop *)

At(pc) == command.pc = pc
Go(pc) == command' = [command EXCEPT !.pc = pc]
End(result) == command' = [command EXCEPT !.pc = "idle", !.result = result]
World == <<config, count>>
Begin(kind, bus) ==
    /\ At("idle") /\ count.commands < MaxCommands /\ count' = [count EXCEPT !.commands = @ + 1]
    /\ command' = IF kind = "start" /\ ~Readable THEN [Idle EXCEPT !.result = "failed"]
                  ELSE [Idle EXCEPT !.pc = "background", !.kind = kind, !.bus = bus, !.version = Version]
    /\ UNCHANGED <<config, unit, background, proxy>>

\* stop_linux_background_proxy, which fails when the process does not end; nothing else
\* ends a background process that is recorded.
StopBackground ==
    /\ At("background")
    /\ \/ /\ command' = [command EXCEPT !.stopped = background /\ proxy["background"].runs,
                            !.pc = CASE command.kind = "stop" /\ command.bus -> "unit"
                                     [] command.kind = "stop" /\ ~command.bus -> "owner"
                                     [] command.kind # "stop" /\ command.bus -> "active"
                                     [] OTHER -> "ensure"]
          /\ background' = FALSE /\ proxy' = [proxy EXCEPT !["background"] = Gone]
       \/ background /\ proxy["background"].runs /\ End("failed") /\ UNCHANGED <<background, proxy>>
    /\ UNCHANGED <<World, unit>>
\* is-active says no of a unit that waits for its restart; then the address must be free.
Active ==
    /\ At("active")
    /\ IF unit.state # "active" /\ Listening(command.version) THEN End("failed")
       ELSE command' = [command EXCEPT !.pc = "write", !.wasActive = (unit.state = "active")]
    /\ UNCHANGED <<World, unit, background, proxy>>
WriteUnit ==
    /\ At("write")
    /\ \/ Go("reload") /\ unit' = [unit EXCEPT !.file = TRUE]
       \/ End("failed") /\ UNCHANGED unit
    /\ UNCHANGED <<World, background, proxy>>
Reload ==
    /\ At("reload") /\ (Go("enable") \/ End("failed"))
    /\ UNCHANGED <<World, unit, background, proxy>>
Enable ==
    /\ At("enable")
    /\ \/ Go("run") /\ unit' = [unit EXCEPT !.enabled = TRUE]
       \/ End("failed") /\ UNCHANGED unit
    /\ UNCHANGED <<World, background, proxy>>
\* systemctl restart of a unit that was active; systemctl start of another, which leaves
\* one alone that has come back meanwhile.
Renews == command.wasActive \/ unit.state # "active"
RunUnit ==
    /\ At("run")
    /\ \/ /\ unit' = [unit EXCEPT !.state = "active"] /\ End("started")
          /\ proxy' = IF Renews THEN [proxy EXCEPT !["unit"] = Fresh] ELSE proxy
       \/ End("failed") /\ UNCHANGED <<unit, proxy>>
    /\ UNCHANGED <<World, background>>

Ensure ==
    /\ At("ensure") /\ (IF Listening(command.version) THEN End("failed") ELSE Go("spawn"))
    /\ UNCHANGED <<World, unit, background, proxy>>
Spawn ==
    /\ At("spawn") /\ Go("await") /\ background' = TRUE /\ proxy' = [proxy EXCEPT !["background"] = Fresh]
    /\ UNCHANGED <<World, unit>>
\* The process must itself listen at the address of the start; one that exits or is too slow
\* is ended.
Await ==
    /\ At("await")
    /\ \/ ListensAt("background", command.version) /\ End("started") /\ UNCHANGED <<background, proxy>>
       \/ /\ ~ListensAt("background", command.version) /\ End("failed")
          /\ background' = FALSE /\ proxy' = [proxy EXCEPT !["background"] = Gone]
    /\ UNCHANGED <<World, unit>>

StopUnit ==
    /\ At("unit")
    /\ \/ /\ ~unit.file /\ End(IF command.stopped THEN "stopped" ELSE "notRunning") /\ UNCHANGED <<unit, proxy>>
       \/ /\ unit.file /\ End("unitStopped") /\ unit' = [unit EXCEPT !.enabled = FALSE, !.state = "inactive"]
          /\ proxy' = [proxy EXCEPT !["unit"] = Gone]
       \/ End("failed") /\ UNCHANGED <<unit, proxy>>
    /\ UNCHANGED <<World, background>>
\* BUG: without a bus there can be no unit.
NobodyOwns == TRUE
\* linux_configured_listen_has_saiai_owner asks about the address in the file, if it can
\* read the file.
NobodyListens == ~(Readable /\ Listening(Version))
CheckOwner ==
    /\ At("owner")
    /\ End(IF command.stopped THEN "stopped" ELSE IF NobodyListens THEN "notRunning" ELSE "failed")
    /\ UNCHANGED <<World, unit, background, proxy>>

Next == \/ \E m \in Manager : Reads(m) \/ Binds(m) \/ Crash(m)
        \/ UnitRestarts \/ ConfigDamaged
        \/ \E bus \in BOOLEAN, address \in Address : ConfigWritten(bus, address)
        \/ \E kind \in {"start", "stop"}, bus \in BOOLEAN : Begin(kind, bus)
        \/ StopBackground \/ Active \/ WriteUnit \/ Reload \/ Enable \/ RunUnit
        \/ Ensure \/ Spawn \/ Await \/ StopUnit \/ CheckOwner
Spec == Init /\ [][Next]_vars
-----------------------------------------------------------------------------
(* The proxy that a command without the bus can neither end nor find: the unit's, when it
   listens at another address than the configuration that the command looks at. *)
OutOfReach(m, version) == m = "unit" /\ ~command.bus /\ ~ListensAt(m, version)

(* Whichever manager it used, and whichever was used before, a start that succeeds leaves
   no proxy that read a configuration older than the one it was called for, but for a unit
   that an init without the bus has left at an older address. *)
RunsTheConfiguration ==
    command.result # "started" /\ command'.result = "started"
        => \A m \in Manager :
              proxy'[m].up => proxy'[m].read >= command.version \/ OutOfReach(m, command.version)'

(* A stop that finds nothing to stop leaves nothing that listens, also where it cannot
   reach the manager that runs the proxy, as long as config.json can be read and still names
   the address of that proxy. *)
SaysSoTruly ==
    At("unit") \/ At("owner") =>
        /\ command'.result = "notRunning" =>
              \A m \in Manager : proxy'[m].up => OutOfReach(m, Version)'
        /\ command'.result = "unitStopped" => ~\E m \in Manager : proxy'[m].runs

\* Either manager's start refreshes the proxy and either's stop is true of both.
EitherManagerAgrees == [][RunsTheConfiguration /\ SaysSoTruly]_vars
=============================================================================

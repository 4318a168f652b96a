---------------------------- MODULE WindowsService ----------------------------
(***************************************************************************)
(* The background proxy of Windows (src/tools/saiai-cli/src/main.rs and    *)
(* windows_background.rs): saiai start, stop, restart and logs of several  *)
(* environments, each with a lock, a state file that names its worker and  *)
(* a directory of registered log followers.                                *)
(*                                                                         *)
(* A process is known by its pid and the time it was created (born); pids  *)
(* are used again.  A handle keeps the pid it was opened for, so opening a *)
(* process, comparing it and ending it is one step.                        *)
(***************************************************************************)
EXTENDS Naturals, FiniteSets

CONSTANTS Cli,        \* command processes, each runs one command at a time
          Env,
          Isolated,   \* the environments but the default one
          Pid,
          Nobody,
          MaxCommands,\* bound on the commands issued
          MaxBorn     \* bound on the processes that get one pid

WindowsServiceAssumption ==
    /\ \E default \in Env : Isolated = Env \ {default}
    /\ Pid \subseteq Nat /\ Nobody \notin Cli \cup Pid
    /\ MaxCommands \in Nat /\ MaxBorn \in Nat \ {0}

VARIABLES process,    \* of every pid: the latest process, role "none" when it ended
          record,     \* the state file of every environment
          followers,  \* log-followers: a file for the pid of every saiai logs
          lock,       \* saiai.lock
          command,    \* of every Cli
          issued      \* how many commands were issued

vars == <<process, record, followers, lock, command, issued>>

Kind == {"start", "stop", "restart", "logs"}
\* "protected" processes may not even be inspected, "legacy" is a worker of a version
\* that recorded nothing but its pid.
Role == {"none", "worker", "legacy", "logs", "follower", "other", "protected"}
Worker == {"worker", "legacy"}
Born == 0 .. MaxBorn
Process == [born : Born, role : Role, env : Env]
\* The file: version 2 names the process and the environment; an old one (bare) the pid.
NoRecord == [pid |-> Nobody, born |-> 0, env |-> Nobody, bare |-> FALSE]
NoFollower == [born |-> 0, child |-> Nobody, childBorn |-> 0]
Idle == [pc |-> "idle", kind |-> "stop", env |-> CHOOSE e \in Env : TRUE, pid |-> Nobody, born |-> 0,
         child |-> NoFollower, listed |-> {}]
TypeOK ==
    /\ process \in [Pid -> Process]
    /\ record \in [Env -> [pid : Pid \cup {Nobody}, born : Born, env : Env \cup {Nobody}, bare : BOOLEAN]]
    /\ followers \in [Env -> [Pid -> [born : Born, child : Pid \cup {Nobody}, childBorn : Born]]]
    /\ lock \in [Env -> Cli \cup {Nobody}]
    /\ \A c \in Cli :
          /\ command[c].pc \in {"idle", "lock", "inspect", "kill", "followers", "forget", "ensure", "spawn",
                                "record", "follow", "register", "release", "wait"}
          /\ command[c].kind \in Kind /\ command[c].env \in Env /\ command[c].listed \subseteq Pid
    /\ issued \in 0 .. MaxCommands

\* The default environment may have a state file, old or new, of a worker that runs or of a
\* process that got its pid since; an isolated one may be a copy of its directory.
Init ==
    /\ \E p \in Pid, role \in Role \ {"logs", "follower"}, d \in Env \ Isolated, bare, copied \in BOOLEAN :
          /\ \A q \in Pid : p <= q
          /\ role = "worker" => ~bare
          /\ role = "legacy" => bare
          /\ process = [q \in Pid |-> IF q = p /\ role # "none" THEN [born |-> 1, role |-> role, env |-> d]
                                     ELSE [born |-> 0, role |-> "none", env |-> d]]
          /\ record = [e \in Env |->
                IF role = "none" \/ (e # d /\ ~copied) THEN NoRecord
                ELSE IF bare THEN [NoRecord EXCEPT !.pid = p, !.bare = TRUE]
                ELSE [pid |-> p, born |-> IF role = "worker" THEN 1 ELSE 0, env |-> d, bare |-> FALSE]]
    /\ followers = [e \in Env |-> [p \in Pid |-> NoFollower]]
    /\ lock = [e \in Env |-> Nobody]
    /\ command = [c \in Cli |-> Idle] /\ issued = 0
-----------------------------------------------------------------------------
(* Processes *)

\* A pid that is free; of those never used so far, which are all alike, the least.
Free(p) == /\ process[p].role = "none" /\ process[p].born < MaxBorn
           /\ process[p].born = 0 => \A q \in Pid : q < p => process[q].born > 0
New(p, role, e) == [born |-> process[p].born + 1, role |-> role, env |-> e]
Runs(p, born) == p # Nobody /\ process[p].role # "none" /\ process[p].born = born
Dead(p) == [process[p] EXCEPT !.role = "none", !.env = Idle.env]
Without(ended) == [p \in Pid |-> IF p \in ended THEN Dead(p) ELSE process[p]]

\* BUG: the process that has the pid now is taken for the worker.
VerifiedByPid(e) == LET r == record[e] IN {p \in {r.pid} \ {Nobody} : process[p].role # "none"}
\* windows_background_process: what the state file names, if it still runs.
Verified(e) == LET r == record[e]
               IN  {p \in {r.pid} \ {Nobody} : IF r.bare THEN process[p].role = "legacy" ELSE Runs(p, r.born)}
\* A file of another environment, an old file of an isolated one, or a process that
\* may not be inspected.
Unverifiable(e) ==
    LET r == record[e]
    IN  /\ r # NoRecord
        /\ \/ ~r.bare /\ r.env # e
           \/ r.bare /\ e \in Isolated
           \/ process[r.pid].role = "protected"
-----------------------------------------------------------------------------
(* Commands *)

At(c, pc) == command[c].pc = pc
Go(c, pc) == command' = [command EXCEPT ![c].pc = pc]
End(c) == command' = [command EXCEPT ![c] = Idle]
Release(c) == lock' = [lock EXCEPT ![command[c].env] = Nobody]
Fail(c) == End(c) /\ Release(c)

Begin(c, k, e) ==
    /\ At(c, "idle") /\ issued < MaxCommands /\ issued' = issued + 1
    /\ IF k = "logs"
       THEN \E p \in Pid : /\ Free(p) /\ process' = [process EXCEPT ![p] = New(p, "logs", e)]
                           /\ command' = [command EXCEPT ![c] = [Idle EXCEPT !.pc = "lock", !.kind = k, !.env = e,
                                                                 !.pid = p, !.born = process[p].born + 1]]
       ELSE /\ command' = [command EXCEPT ![c] = [Idle EXCEPT !.pc = "lock", !.kind = k, !.env = e]]
            /\ UNCHANGED process
    /\ UNCHANGED <<record, followers, lock>>

Lock(c) ==
    /\ At(c, "lock") /\ lock[command[c].env] = Nobody
    /\ lock' = [lock EXCEPT ![command[c].env] = c]
    /\ Go(c, CASE command[c].kind = "start" -> "inspect" [] command[c].kind = "logs" -> "follow" [] OTHER -> "kill")
    /\ UNCHANGED <<process, record, followers, issued>>

Inspect(c) ==
    /\ At(c, "inspect")
    /\ LET e == command[c].env
       IN  IF Unverifiable(e) THEN Fail(c)
           ELSE Go(c, IF Verified(e) # {} THEN "kill" ELSE "ensure") /\ UNCHANGED lock
    /\ UNCHANGED <<process, record, followers, issued>>

\* A restart goes on as a start, whatever became of its stop.
StopFails(c) == IF command[c].kind = "restart"
                THEN command' = [command EXCEPT ![c].kind = "start", ![c].pc = "lock"] /\ Release(c)
                ELSE Fail(c)
\* The worker is ended, or it cannot be; then the followers are listed.
Kill(c) ==
    /\ At(c, "kill")
    /\ LET e == command[c].env
       IN  \/ /\ ~Unverifiable(e) /\ process' = Without(Verified(e))
              /\ command' = [command EXCEPT ![c].pc = "followers", ![c].listed = {p \in Pid : followers[e][p] # NoFollower}]
              /\ UNCHANGED lock
           \/ (Unverifiable(e) \/ Verified(e) # {}) /\ StopFails(c) /\ UNCHANGED process
    /\ UNCHANGED <<record, followers, issued>>

\* One record: the follower and the saiai logs that started it, each only if it still is
\* the registered process.  A record that vanished meanwhile is an error, like a process
\* that may not be inspected.
EndFollower(c) ==
    /\ At(c, "followers")
    /\ \E p \in command[c].listed :
          LET e == command[c].env
              f == followers[e][p]
              registered == {<<f.child, f.childBorn>>, <<p, f.born>>}
          IN  IF f = NoFollower \/ \E r \in registered : process[r[1]].role = "protected"
              THEN StopFails(c) /\ UNCHANGED <<process, followers>>
              ELSE /\ process' = Without({r[1] : r \in {q \in registered : Runs(q[1], q[2])}})
                   /\ followers' = [followers EXCEPT ![e][p] = NoFollower]
                   /\ command' = [d \in Cli |->
                         IF d = c THEN [command[c] EXCEPT !.listed = @ \ {p}]
                         ELSE IF command[d].kind = "logs" /\ command[d].pid = p /\ command[d].born = f.born THEN Idle
                         ELSE command[d]]
                   /\ UNCHANGED lock
    /\ UNCHANGED <<record, issued>>
NoFollowersLeft(c) ==
    /\ At(c, "followers") /\ command[c].listed = {} /\ Go(c, "forget")
    /\ UNCHANGED <<process, record, followers, lock, issued>>

\* The state file is removed if it can be.
Forget(c) ==
    /\ At(c, "forget")
    /\ \E left \in {NoRecord, record[command[c].env]} : record' = [record EXCEPT ![command[c].env] = left]
    /\ CASE command[c].kind = "start" -> Go(c, "ensure") /\ UNCHANGED lock
         [] command[c].kind = "stop" -> End(c) /\ Release(c)
         [] OTHER -> command' = [command EXCEPT ![c].kind = "start", ![c].pc = "lock"] /\ Release(c)
    /\ UNCHANGED <<process, followers, issued>>

\* Another program may have the port.
Ensure(c) ==
    /\ At(c, "ensure")
    /\ \/ Go(c, "spawn") /\ UNCHANGED lock
       \/ Fail(c)
    /\ UNCHANGED <<process, record, followers, issued>>
Spawn(c) ==
    /\ At(c, "spawn")
    /\ \/ Fail(c) /\ UNCHANGED process
       \/ \E p \in Pid :
             /\ Free(p) /\ process' = [process EXCEPT ![p] = New(p, "worker", command[c].env)]
             /\ command' = [command EXCEPT ![c].pc = "record", ![c].pid = p, ![c].born = process[p].born + 1]
             /\ UNCHANGED lock
    /\ UNCHANGED <<record, followers, issued>>
\* BUG: a worker that cannot be recorded is left.
RecordOrLeave(c) ==
    /\ At(c, "record")
    /\ LET e == command[c].env
           p == command[c].pid
       IN  \/ /\ Runs(p, command[c].born) /\ End(c) /\ UNCHANGED process
              /\ record' = [record EXCEPT ![e] = [pid |-> p, born |-> command[c].born, env |-> e, bare |-> FALSE]]
           \/ End(c) /\ UNCHANGED <<process, record>>
    /\ Release(c) /\ UNCHANGED <<followers, issued>>
\* The worker is recorded without waiting for its listener; one that is gone or cannot
\* be recorded is ended.
Record(c) ==
    /\ At(c, "record")
    /\ LET e == command[c].env
           p == command[c].pid
       IN  \/ /\ Runs(p, command[c].born) /\ End(c) /\ UNCHANGED process
              /\ record' = [record EXCEPT ![e] = [pid |-> p, born |-> command[c].born, env |-> e, bare |-> FALSE]]
           \/ /\ process' = Without({q \in {p} : Runs(q, command[c].born)})
              /\ End(c) /\ UNCHANGED record
    /\ Release(c) /\ UNCHANGED <<followers, issued>>
-----------------------------------------------------------------------------
(* saiai logs *)

OwnWorker(c) == {p \in {command[c].pid} : Runs(p, command[c].born)}
Children(c) == {p \in {command[c].child.child} : Runs(p, command[c].child.childBorn)}
SpawnFollower(c) ==
    /\ At(c, "follow")
    /\ \/ Fail(c) /\ process' = Without(OwnWorker(c))
       \/ \E p \in Pid :
             /\ Free(p) /\ process' = [process EXCEPT ![p] = New(p, "follower", command[c].env)]
             /\ command' = [command EXCEPT ![c].pc = "register",
                               ![c].child = [born |-> command[c].born, child |-> p, childBorn |-> process[p].born + 1]]
             /\ UNCHANGED lock
    /\ UNCHANGED <<record, followers, issued>>
\* BUG: the lock is kept while the log is followed.
RegisterAndKeep(c) ==
    /\ \/ /\ At(c, "register") /\ Go(c, "release")
          /\ followers' = [followers EXCEPT ![command[c].env][command[c].pid] = command[c].child]
       \/ At(c, "release") /\ Go(c, "wait") /\ UNCHANGED followers
    /\ UNCHANGED <<process, lock, record, issued>>
\* The follower is registered under the lock; one that cannot be is ended.
Register(c) ==
    /\ \/ /\ At(c, "register")
          /\ \/ /\ Children(c) # {} /\ Go(c, "release") /\ UNCHANGED <<process, lock>>
                /\ followers' = [followers EXCEPT ![command[c].env][command[c].pid] = command[c].child]
             \/ /\ process' = Without(OwnWorker(c) \cup Children(c)) /\ Fail(c) /\ UNCHANGED followers
       \/ /\ At(c, "release") /\ Go(c, "wait") /\ Release(c) /\ UNCHANGED <<process, followers>>
    /\ UNCHANGED <<record, issued>>
\* The follower ended: its record goes without the lock.
Unregister(c) ==
    /\ At(c, "wait") /\ Children(c) = {}
    /\ followers' = [followers EXCEPT ![command[c].env][command[c].pid] = NoFollower]
    /\ process' = Without(OwnWorker(c)) /\ command' = [command EXCEPT ![c] = Idle]
    /\ UNCHANGED <<record, lock, issued>>
\* The user closes the console: both end, and the record stays.
CloseConsole(c) ==
    /\ At(c, "wait") /\ process' = Without(OwnWorker(c) \cup Children(c))
    /\ command' = [command EXCEPT ![c] = Idle]
    /\ UNCHANGED <<record, followers, lock, issued>>
-----------------------------------------------------------------------------
(* Other processes *)

Exits(p) ==
    /\ process[p].role \in {"worker", "legacy", "follower", "other", "protected"}
    /\ process' = Without({p})
    /\ UNCHANGED <<record, followers, lock, command, issued>>
\* Another program gets a pid that is free.
Appears(p) ==
    /\ Free(p) /\ process[p].born > 0
    /\ \E role \in {"other", "protected"} : process' = [process EXCEPT ![p] = New(p, role, Idle.env)]
    /\ UNCHANGED <<record, followers, lock, command, issued>>

Step(c) == \/ Lock(c) \/ Inspect(c) \/ Kill(c) \/ EndFollower(c) \/ NoFollowersLeft(c) \/ Forget(c)
           \/ Ensure(c) \/ Spawn(c) \/ Record(c) \/ SpawnFollower(c) \/ Register(c) \/ Unregister(c)
Next == \/ \E c \in Cli : \/ Step(c) \/ CloseConsole(c)
                          \/ \E k \in Kind, e \in Env : Begin(c, k, e)
        \/ \E p \in Pid : Exits(p) \/ Appears(p)
Spec == Init /\ [][Next]_vars /\ \A c \in Cli : WF_vars(Step(c))
-----------------------------------------------------------------------------
(* A command ends only the worker that its environment recorded and the followers and
   the logs commands that were registered there, whoever has their pids now. *)
Ended(p) == process[p].role # "none" /\ process'[p] # process[p]
EndsOnlyItsOwn ==
    \A c \in Cli : command[c].pc \in {"kill", "followers"} /\ command'[c] # command[c]
        => \A p \in Pid : Ended(p) => /\ process[p].env = command[c].env
                                      /\ process[p].role \in {"worker", "legacy", "logs", "follower"}

(* While no command of an environment is under way, the only worker that runs for it is
   the one its state file names. *)
NoLostWorker ==
    \A e \in Env : lock[e] = Nobody
        => \A p \in Pid : process[p].role \in Worker /\ process[p].env = e => p \in Verified(e)

(* When a stop reports success nobody follows the environment's log any more, although
   saiai logs may start at any moment. *)
LeavesNoFollower ==
    \A c \in Cli : At(c, "forget") /\ command[c].kind = "stop" /\ command'[c].pc = "idle"
        => \A p \in Pid : ~(process'[p].role = "follower" /\ process'[p].env = command[c].env)

\* Windows commands end what is registered for their environment, all of it and nothing else.
WindowsStopsItsOwn == [][EndsOnlyItsOwn /\ LeavesNoFollower]_vars

(* Every start, stop and restart comes to an end, although saiai logs follows the log for
   as long as it likes. *)
WindowsCommandsEnd ==
    \A c \in Cli : []<>(command[c].kind = "logs" \/ At(c, "idle"))
=============================================================================

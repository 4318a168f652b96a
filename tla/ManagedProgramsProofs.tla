------------------------ MODULE ManagedProgramsProofs -----------------------
(***************************************************************************)
(* Proofs about the managed programs for any number of environments,       *)
(* command processes, commands, workers and crashes: BackgroundService     *)
(* first, then the parts that MCManagedPrograms composes with it, the      *)
(* agent of macOS, the workers of Windows, the two managers of Linux,      *)
(* saiai update and the probe of a version.                                *)
(***************************************************************************)
EXTENDS MCManagedPrograms, FiniteSetTheorems, TLAPS

\* Where a command holds the lock of its environment's service, and where it
\* holds the initialization lock if it is an init or upstream-proxy.
InService == {"read", "stop", "forget", "ensure", "spawn", "record", "await"}
InInitialization == {"configure", "written", "serviceLock"} \cup InService
Locks ==
    /\ \A e \in Env, c \in Cli :
          serviceLock[e] = c <=> command[c].env = e /\ command[c].pc \in InService
    /\ \A c \in Cli :
          command[c].kind \in {"init", "upstream"} /\ command[c].pc \in InInitialization => initLock = c

\* A state file names a worker of its environment, alive or dead.
StatesAreOfWorkers ==
    \A e \in Env : state[e] # Nobody =>
        /\ state[e].start \in DOMAIN worker
        /\ worker[state[e].start].pid = state[e].pid /\ worker[state[e].start].env = e

\* A command that starts a worker has removed the state file before, and has
\* written the one of its own worker when it waits for it.
Starts ==
    \A c \in Cli :
        LET e == command[c].env
            w == command[c].spawn
        IN  /\ command[c].pc \in {"ensure", "spawn", "record"} => state[e] = Nobody
            /\ command[c].pc \in {"record", "await"} => w \in DOMAIN worker /\ worker[w].env = e
            /\ command[c].pc = "await" => state[e] # Nobody /\ state[e].start = w

\* What an init spawned runs by the configuration that is in the file, once it
\* has read one.
Refreshes ==
    \A c \in Cli :
        LET w == command[c].spawn
        IN  command[c].kind = "init" /\ command[c].pc \in {"record", "await"}
            /\ worker[w].pc \in {"booted", "listening"} => worker[w].conf = config[command[c].env]

\* Workers are found by their state file or by the command that starts them.
Known ==
    count.crashes = 0 => \A e \in Env : Workers(e) \subseteq Matches(e) \cup Starting(e)

IInv == /\ TypeOK /\ Locks /\ StatesAreOfWorkers /\ Starts /\ Refreshes /\ Known
        /\ DistinctListeners

(***************************************************************************)
(* Types.                                                                  *)
(***************************************************************************)
Pcs == Ended \cup {"initLock", "configure", "written", "serviceLock", "read", "stop",
                   "forget", "ensure", "spawn", "record", "await"}

\* A command goes somewhere else.
LEMMA GotoType ==
    ASSUME TypeOK, NEW c \in Cli, NEW pc \in Pcs, Goto(c, pc)
    PROVE  command' \in [Cli -> Commands]
<1>1. command \in [Cli -> Commands]
  BY DEF TypeOK
<1>2. [command[c] EXCEPT !.pc = pc] \in Commands
  BY <1>1 DEF Commands, Pcs
<1> QED BY <1>1, <1>2 DEF Goto

\* A command gives up its locks.
LEMMA ReleaseType ==
    ASSUME TypeOK, NEW c \in Cli, Release(c)
    PROVE  initLock' \in Cli \cup {Nobody} /\ serviceLock' \in [Env -> Cli \cup {Nobody}]
BY DEF TypeOK, Release

\* Ending workers changes nothing else about them.
LEMMA KillType ==
    ASSUME TypeOK, NEW dying, Kill(dying)
    PROVE  /\ DOMAIN worker' = DOMAIN worker
           /\ \A w \in DOMAIN worker :
                 worker'[w] = IF w \in dying THEN [worker[w] EXCEPT !.pc = "dead"] ELSE worker[w]
           /\ \E spawned \in 0 .. MaxSpawns : worker' \in [1 .. spawned -> Worker]
<1>1. PICK spawned \in 0 .. MaxSpawns : worker \in [1 .. spawned -> Worker]
  BY DEF TypeOK
<1>2. \A w \in DOMAIN worker : [worker[w] EXCEPT !.pc = "dead"] \in Worker
  BY <1>1 DEF Worker
<1>3. worker' = [w \in DOMAIN worker |-> IF w \in dying THEN [worker[w] EXCEPT !.pc = "dead"] ELSE worker[w]]
  BY DEF Kill
<1>4. worker' \in [1 .. spawned -> Worker]
  BY <1>1, <1>2, <1>3
<1> QED BY <1>1, <1>3, <1>4

\* The parts of the type invariant that a step of a command can change.
LEMMA CommandType ==
    ASSUME TypeOK, NEW c \in Cli, CliStep(c)
    PROVE  /\ command' \in [Cli -> Commands]
           /\ initLock' \in Cli \cup {Nobody} /\ serviceLock' \in [Env -> Cli \cup {Nobody}]
<1> USE DEF Pcs, Ended
<1>0. /\ command \in [Cli -> Commands] /\ config \in [Env -> Config \cup {NoConfig}]
      /\ initLock \in Cli \cup {Nobody} /\ serviceLock \in [Env -> Cli \cup {Nobody}]
  BY DEF TypeOK
<1>1. CASE LockInitialization(c) \/ LockService(c)
  BY <1>0, <1>1, GotoType DEF LockInitialization, LockService
<1>2. CASE Decide(c)
  BY <1>0, <1>2, GotoType, ReleaseType DEF Decide, Finish
<1>3. CASE SetUpstream(c) \/ SpawnFails(c) \/ Ready(c)
  BY <1>0, <1>3, GotoType, ReleaseType DEF SetUpstream, SpawnFails, Ready, Finish
<1>4. CASE StopRecorded(c) \/ Forget(c)
  BY <1>0, <1>4, GotoType, ReleaseType DEF StopRecorded, Forget, Finish
<1>5. CASE EnsureAvailable(c) \/ Record(c) \/ StartFails(c)
  BY <1>0, <1>5, GotoType, ReleaseType DEF EnsureAvailable, Record, StartFails, Finish
<1>6. CASE WriteConfig(c)
  <2>1. CASE Finish(c, "failed")
    BY <2>1, GotoType, ReleaseType DEF Finish
  <2>2. ASSUME NEW changed \in BOOLEAN, command' = [command EXCEPT ![c].pc = "written", ![c].changed = changed],
               UNCHANGED <<initLock, serviceLock>>
        PROVE  /\ command' \in [Cli -> Commands]
               /\ initLock' \in Cli \cup {Nobody} /\ serviceLock' \in [Env -> Cli \cup {Nobody}]
    <3>1. [[command[c] EXCEPT !.pc = "written"] EXCEPT !.changed = changed] \in Commands
      BY ZenonT(60), <1>0 DEF Commands
    <3> QED BY <1>0, <2>2, <3>1
  <2> QED BY <1>6, <2>1, <2>2 DEF WriteConfig
<1>7. CASE ReadConfig(c)
  <2>1. CASE Finish(c, "failed")
    BY <2>1, GotoType, ReleaseType DEF Finish
  <2>2. CASE /\ command' = [command EXCEPT ![c].pc = "stop", ![c].cfg = config[command[c].env]]
             /\ UNCHANGED <<initLock, serviceLock>>
    <3>1. command[c].env \in Env
      BY <1>0 DEF Commands
    <3>2. [[command[c] EXCEPT !.pc = "stop"] EXCEPT !.cfg = config[command[c].env]] \in Commands
      BY ZenonT(60), <1>0, <3>1 DEF Commands
    <3> QED BY <1>0, <2>2, <3>2
  <2> QED BY <1>7, <2>1, <2>2 DEF ReadConfig
<1>8. CASE SpawnWorker(c)
  <2>1. PICK w \in Spawn : command' = [command EXCEPT ![c].pc = "record", ![c].spawn = w] /\ UNCHANGED <<initLock, serviceLock>>
    BY <1>8 DEF SpawnWorker
  <2>2. [[command[c] EXCEPT !.pc = "record"] EXCEPT !.spawn = w] \in Commands
    <3>1. w \in 0 .. MaxSpawns
      BY BackgroundAssumption DEF Spawn
    <3> QED BY ZenonT(60), <1>0, <3>1 DEF Commands
  <2> QED BY <1>0, <2>1, <2>2
<1> QED BY <1>1, <1>2, <1>3, <1>4, <1>5, <1>6, <1>7, <1>8 DEF CliStep

\* A new worker is numbered after those that were spawned before.
NewWorker(e, pid) == [env |-> e, pid |-> pid, pc |-> "spawned", conf |-> Unread]
\* Spawning adds one worker and goes on to record it.
LEMMA SpawnType ==
    ASSUME TypeOK, NEW c \in Cli, SpawnWorker(c)
    PROVE  \E w \in Spawn, pid \in Pid :
              /\ w \notin DOMAIN worker /\ DOMAIN worker' = DOMAIN worker \cup {w}
              /\ \A v \in DOMAIN worker : worker'[v] = worker[v]
              /\ worker'[w] = NewWorker(command[c].env, pid)
              /\ command' = [command EXCEPT ![c].pc = "record", ![c].spawn = w]
              /\ \E spawned \in 0 .. MaxSpawns : worker' \in [1 .. spawned -> Worker]
<1>1. PICK spawned \in 0 .. MaxSpawns : worker \in [1 .. spawned -> Worker]
  BY DEF TypeOK
<1> DEFINE w == Cardinality(DOMAIN worker) + 1
<1>2. spawned \in Nat /\ w = spawned + 1
  <2>1. spawned \in Nat /\ DOMAIN worker = 1 .. spawned
    BY <1>1, BackgroundAssumption
  <2>2. Cardinality(1 .. spawned) = spawned
    BY <2>1, FS_Interval
  <2> QED BY <2>1, <2>2
<1>3. w \in Spawn /\ w \in 0 .. MaxSpawns
  BY <1>2, BackgroundAssumption DEF SpawnWorker, Spawn
<1>4. PICK pid \in Pid :
         worker' = [v \in 1 .. w |-> IF v = w THEN NewWorker(command[c].env, pid) ELSE worker[v]]
  BY DEF SpawnWorker, NewWorker
<1>5. command' = [command EXCEPT ![c].pc = "record", ![c].spawn = w]
  BY DEF SpawnWorker
<1> HIDE DEF w
<1>6. w \notin DOMAIN worker /\ DOMAIN worker' = DOMAIN worker \cup {w}
  BY <1>1, <1>2, <1>4
<1>7. /\ \A v \in DOMAIN worker : worker'[v] = worker[v]
      /\ worker'[w] = NewWorker(command[c].env, pid)
  BY <1>1, <1>2, <1>4
<1>8. NewWorker(command[c].env, pid) \in Worker
  <2>1. command[c].env \in Env
    BY DEF TypeOK, Commands
  <2> QED BY <2>1 DEF NewWorker, Worker
<1>9. worker' \in [1 .. w -> Worker]
  BY <1>1, <1>2, <1>4, <1>8
<1> QED BY <1>3, <1>5, <1>6, <1>7, <1>9

\* Workers keep their number, their pid and their environment, and the dead
\* stay dead.
WorkersStay ==
    /\ DOMAIN worker \subseteq DOMAIN worker'
    /\ \A w \in DOMAIN worker : /\ worker'[w].env = worker[w].env /\ worker'[w].pid = worker[w].pid
                                /\ worker'[w].pc # "dead" => worker[w].pc # "dead"
\* Ending workers leaves who they were.
LEMMA KillStays == ASSUME TypeOK, NEW dying, Kill(dying) PROVE WorkersStay
<1>1. \A w \in DOMAIN worker : worker[w] \in Worker
  BY DEF TypeOK
<1>2. \A w \in DOMAIN worker :
         LET dead == [worker[w] EXCEPT !.pc = "dead"]
         IN  dead.env = worker[w].env /\ dead.pid = worker[w].pid /\ dead.pc = "dead"
  BY <1>1 DEF Worker
<1>3. DOMAIN worker' = DOMAIN worker
      /\ \A w \in DOMAIN worker :
            worker'[w] = IF w \in dying THEN [worker[w] EXCEPT !.pc = "dead"] ELSE worker[w]
  BY KillType
<1> QED BY <1>2, <1>3 DEF WorkersStay

\* A step of a worker.
LEMMA WorkerType ==
    ASSUME TypeOK, NEW w \in DOMAIN worker, WorkerReads(w) \/ WorkerBinds(w) \/ WorkerDies(w)
    PROVE  /\ WorkersStay /\ DOMAIN worker' = DOMAIN worker
           /\ \A v \in DOMAIN worker \ {w} : worker'[v] = worker[v]
           /\ \E spawned \in 0 .. MaxSpawns : worker' \in [1 .. spawned -> Worker]
<1>1. PICK spawned \in 0 .. MaxSpawns : worker \in [1 .. spawned -> Worker]
  BY DEF TypeOK
<1>2. CASE WorkerReads(w)
  <2>1. worker' = [worker EXCEPT ![w].pc = "booted", ![w].conf = config[worker[w].env]]
    BY <1>2 DEF WorkerReads
  <2>2. worker[w].env \in Env /\ config[worker[w].env] \in Config
    BY <1>1, <1>2 DEF WorkerReads, Worker, TypeOK
  <2>3. [[worker[w] EXCEPT !.pc = "booted"] EXCEPT !.conf = config[worker[w].env]] \in Worker
    BY <1>1, <2>2 DEF Worker
  <2>4. worker' \in [1 .. spawned -> Worker]
    BY <1>1, <2>1, <2>3
  <2>5. worker'[w] = [[worker[w] EXCEPT !.pc = "booted"] EXCEPT !.conf = config[worker[w].env]]
        /\ DOMAIN worker' = DOMAIN worker /\ \A v \in DOMAIN worker \ {w} : worker'[v] = worker[v]
    BY <1>1, <2>1
  <2>6. worker'[w].env = worker[w].env /\ worker'[w].pid = worker[w].pid /\ worker[w].pc # "dead"
    BY ZenonT(60), <1>1, <1>2, <2>5 DEF Worker, WorkerReads
  <2> QED BY <2>4, <2>5, <2>6 DEF WorkersStay
<1>3. CASE WorkerBinds(w)
  <2>1. PICK pc \in {"listening", "dead"} : worker' = [worker EXCEPT ![w].pc = pc]
    BY <1>3 DEF WorkerBinds
  <2>2. [worker[w] EXCEPT !.pc = pc] \in Worker
    BY <1>1 DEF Worker
  <2>3. worker' \in [1 .. spawned -> Worker]
    BY <1>1, <2>1, <2>2
  <2>4. worker'[w] = [worker[w] EXCEPT !.pc = pc]
        /\ DOMAIN worker' = DOMAIN worker /\ \A v \in DOMAIN worker \ {w} : worker'[v] = worker[v]
    BY <1>1, <2>1
  <2>5. worker'[w].env = worker[w].env /\ worker'[w].pid = worker[w].pid /\ worker[w].pc # "dead"
    BY <1>1, <1>3, <2>4 DEF Worker, WorkerBinds
  <2> QED BY <2>3, <2>4, <2>5 DEF WorkersStay
<1>4. CASE WorkerDies(w)
  <2>1. Kill({w})
    BY <1>4 DEF WorkerDies
  <2> QED BY <2>1, KillType, KillStays
<1> QED BY <1>2, <1>3, <1>4

\* Steps of commands, of workers and of the rest of the machine.
LEMMA StepWorkers ==
    ASSUME TypeOK, Next
    PROVE  WorkersStay /\ \E spawned \in 0 .. MaxSpawns : worker' \in [1 .. spawned -> Worker]
<1> DEFINE Goal == WorkersStay /\ \E spawned \in 0 .. MaxSpawns : worker' \in [1 .. spawned -> Worker]
<1>1. ASSUME UNCHANGED worker PROVE Goal
  BY <1>1 DEF TypeOK, WorkersStay
<1>2. ASSUME NEW c \in Cli, StopRecorded(c) \/ StartFails(c) PROVE Goal
  <2>1. PICK dying : Kill(dying)
    BY <1>2 DEF StopRecorded, StartFails
  <2> QED BY <2>1, KillType, KillStays
<1>3. ASSUME NEW c \in Cli, SpawnWorker(c) PROVE Goal
  BY <1>3, SpawnType DEF WorkersStay
<1>4. ASSUME NEW c \in Cli, CliStep(c) PROVE Goal
  <2>1. CASE LockInitialization(c) \/ WriteConfig(c) \/ SetUpstream(c) \/ Decide(c) \/ LockService(c) \/ ReadConfig(c)
    <3>1. UNCHANGED worker
      BY <2>1 DEF LockInitialization, WriteConfig, SetUpstream, Decide, LockService, ReadConfig
    <3> QED BY <3>1, <1>1
  <2>2. CASE Forget(c) \/ EnsureAvailable(c) \/ SpawnFails(c) \/ Record(c) \/ Ready(c)
    <3>1. UNCHANGED worker
      BY <2>2 DEF Forget, EnsureAvailable, SpawnFails, Record, Ready
    <3> QED BY <3>1, <1>1
  <2> QED BY <1>2, <1>3, <1>4, <2>1, <2>2 DEF CliStep
<1>5. ASSUME NEW w \in DOMAIN worker, WorkerReads(w) \/ WorkerBinds(w) \/ WorkerDies(w) PROVE Goal
  BY <1>5, WorkerType
<1>6. ASSUME NEW c \in Cli, (\E kind \in Kinds, e \in Env, key \in Key : Begin(c, kind, e, key)) \/ Interrupt(c) \/ CliCrash(c)
      PROVE  Goal
  BY <1>1, <1>6, Zenon DEF Begin, Interrupt, CliCrash
<1>7. ASSUME NEW port \in Port, Claim(port) \/ Leave(port) PROVE Goal
  BY <1>1, <1>7 DEF Claim, Leave
<1> HIDE DEF Goal
<1>8. Goal
  BY <1>4, <1>5, <1>6, <1>7 DEF Next
<1> QED BY <1>8 DEF Goal

\* What a command writes to the configuration.
LEMMA StepConfig == ASSUME TypeOK, NEW c \in Cli, CliStep(c) PROVE config' \in [Env -> Config \cup {NoConfig}]
<1>0. command[c].env \in Env /\ command[c].key \in Key /\ config \in [Env -> Config \cup {NoConfig}]
  BY DEF TypeOK, Commands
<1>1. CASE UNCHANGED config
  BY <1>1 DEF TypeOK
<1>2. CASE WriteConfig(c)
  <2> DEFINE e == command[c].env
             settings == IF config[e] = NoConfig THEN SystemUpstream ELSE config[e].upstream
  <2>1. CASE UNCHANGED config
    BY <1>1, <2>1
  <2>2. CASE ~UNCHANGED config
    <3>1. PICK port \in Selected(e) : config' = [config EXCEPT ![e] = [listen |-> port, key |-> command[c].key, upstream |-> settings]]
      BY <1>2, <2>2 DEF WriteConfig
    <3>2. port \in Port
      BY <1>0, <3>1 DEF Selected, Keeps, Config
    <3>3. settings \in Upstream
      BY <1>0, BackgroundAssumption DEF Config
    <3>4. [listen |-> port, key |-> command[c].key, upstream |-> settings] \in Config
      BY <1>0, <3>2, <3>3 DEF Config
    <3> HIDE DEF settings
    <3> QED BY <1>0, <3>1, <3>4
  <2> QED BY <2>1, <2>2
<1>3. CASE SetUpstream(c)
  <2>1. CASE UNCHANGED config
    BY <1>1, <2>1
  <2>2. CASE ~UNCHANGED config
    <3>1. PICK u \in Upstream : config' = [config EXCEPT ![command[c].env].upstream = u] /\ config[command[c].env] # NoConfig
      BY <1>3, <2>2 DEF SetUpstream
    <3>2. [config[command[c].env] EXCEPT !.upstream = u] \in Config
      BY <1>0, <3>1 DEF Config
    <3> QED BY <1>0, <3>1, <3>2
  <2> QED BY <2>1, <2>2
<1>4. CASE LockInitialization(c) \/ Decide(c) \/ LockService(c) \/ ReadConfig(c) \/ StopRecorded(c) \/ Forget(c)
  BY <1>1, <1>4 DEF LockInitialization, Decide, LockService, ReadConfig, StopRecorded, Forget
<1>5. CASE EnsureAvailable(c) \/ SpawnFails(c) \/ SpawnWorker(c) \/ Record(c) \/ Ready(c) \/ StartFails(c)
  BY <1>1, <1>5 DEF EnsureAvailable, SpawnFails, SpawnWorker, Record, Ready, StartFails
<1> QED BY <1>2, <1>3, <1>4, <1>5 DEF CliStep

\* What a command writes to the state file: a worker that there is.
LEMMA StepState ==
    ASSUME TypeOK, Starts, NEW c \in Cli, CliStep(c)
    PROVE  state' \in [Env -> [pid : Pid, start : Spawn] \cup {Nobody}]
<1>0. command[c].env \in Env /\ state \in [Env -> [pid : Pid, start : Spawn] \cup {Nobody}]
  BY DEF TypeOK, Commands
<1>1. CASE UNCHANGED state
  BY <1>0, <1>1
<1>2. CASE Forget(c) \/ StartFails(c)
  BY <1>0, <1>2 DEF Forget, StartFails
<1>3. CASE Record(c)
  <2> DEFINE w == command[c].spawn
  <2>1. w \in DOMAIN worker
    BY <1>3 DEF Record, Starts
  <2>2. worker[w].pid \in Pid /\ w \in Spawn
    BY <2>1, BackgroundAssumption DEF TypeOK, Worker, Spawn
  <2> QED BY <1>0, <1>3, <2>2 DEF Record
<1>4. CASE LockInitialization(c) \/ WriteConfig(c) \/ SetUpstream(c) \/ Decide(c) \/ LockService(c) \/ ReadConfig(c)
  BY <1>1, <1>4 DEF LockInitialization, WriteConfig, SetUpstream, Decide, LockService, ReadConfig
<1>5. CASE StopRecorded(c) \/ EnsureAvailable(c) \/ SpawnFails(c) \/ SpawnWorker(c) \/ Ready(c)
  BY <1>1, <1>5 DEF StopRecorded, EnsureAvailable, SpawnFails, SpawnWorker, Ready
<1> QED BY <1>2, <1>3, <1>4, <1>5 DEF CliStep

\* A command of a process, as a whole.
LEMMA BeginType ==
    ASSUME TypeOK, NEW c \in Cli, NEW kind \in Kinds, NEW e \in Env, NEW key \in Key, Begin(c, kind, e, key)
    PROVE  /\ command' \in [Cli -> Commands]
           /\ count' \in [commands : 0 .. MaxCommands, claims : 0 .. MaxClaims, crashes : 0 .. MaxCrashes]
<1>0. /\ command \in [Cli -> Commands]
      /\ count \in [commands : 0 .. MaxCommands, claims : 0 .. MaxClaims, crashes : 0 .. MaxCrashes]
  BY DEF TypeOK
<1> DEFINE pc == IF kind \in {"init", "upstream"} THEN "initLock" ELSE "serviceLock"
           begun == [NoCommand EXCEPT !.kind = kind, !.env = e, !.key = key, !.pc = pc]
<1>1. NoCommand \in Commands
  <2>1. (CHOOSE f \in Env : TRUE) \in Env /\ (CHOOSE k \in Key : TRUE) \in Key
    OBVIOUS
  <2> QED BY <2>1, BackgroundAssumption DEF NoCommand, Commands, Ended
<1>2. begun = [[[[NoCommand EXCEPT !.kind = kind] EXCEPT !.env = e] EXCEPT !.key = key] EXCEPT !.pc = pc]
  OBVIOUS
<1>3. begun \in Commands
  <2>1. [NoCommand EXCEPT !.kind = kind] \in Commands
    BY <1>1, BackgroundAssumption DEF Commands
  <2>2. [[NoCommand EXCEPT !.kind = kind] EXCEPT !.env = e] \in Commands
    BY <2>1 DEF Commands
  <2>3. [[[NoCommand EXCEPT !.kind = kind] EXCEPT !.env = e] EXCEPT !.key = key] \in Commands
    BY <2>2 DEF Commands
  <2>4. [[[[NoCommand EXCEPT !.kind = kind] EXCEPT !.env = e] EXCEPT !.key = key] EXCEPT !.pc = pc] \in Commands
    BY <2>3 DEF Commands
  <2> QED BY <1>2, <2>4
<1>4. command' = [command EXCEPT ![c] = begun]
  BY DEF Begin
<1>5. command' \in [Cli -> Commands]
  BY <1>0, <1>3, <1>4
<1> QED BY <1>0, <1>5, BackgroundAssumption DEF Begin

\* Every step keeps the types.
LEMMA TypeStep == ASSUME TypeOK, Starts, Next PROVE TypeOK'
<1>0. \E spawned \in 0 .. MaxSpawns : worker' \in [1 .. spawned -> Worker]
  BY StepWorkers
<1>1. ASSUME NEW c \in Cli, CliStep(c) PROVE TypeOK'
  <2>1. UNCHANGED <<foreign, count>>
    <3>1. CASE LockInitialization(c) \/ WriteConfig(c) \/ SetUpstream(c) \/ Decide(c) \/ LockService(c) \/ ReadConfig(c)
      BY <3>1 DEF LockInitialization, WriteConfig, SetUpstream, Decide, LockService, ReadConfig
    <3>2. CASE StopRecorded(c) \/ Forget(c) \/ EnsureAvailable(c) \/ SpawnFails(c) \/ SpawnWorker(c) \/ Record(c) \/ Ready(c) \/ StartFails(c)
      BY <3>2 DEF StopRecorded, Forget, EnsureAvailable, SpawnFails, SpawnWorker, Record, Ready, StartFails
    <3> QED BY <1>1, <3>1, <3>2 DEF CliStep
  <2> QED BY <1>0, <1>1, <2>1, CommandType, StepConfig, StepState DEF TypeOK
<1>2. ASSUME NEW c \in Cli, NEW kind \in Kinds, NEW e \in Env, NEW key \in Key, Begin(c, kind, e, key) PROVE TypeOK'
  <2>1. UNCHANGED <<config, initLock, serviceLock, state, foreign>>
    BY <1>2 DEF Begin
  <2> QED BY <1>0, <1>2, <2>1, BeginType DEF TypeOK
<1>3. ASSUME NEW c \in Cli, Interrupt(c) PROVE TypeOK'
  <2>1. UNCHANGED <<config, state, foreign, count>> /\ \E pc \in {"failed", "skipped"} : Goto(c, pc) /\ Release(c)
    BY <1>3 DEF Interrupt, Finish
  <2>2. \A pc \in {"failed", "skipped"} : pc \in Pcs
    BY DEF Pcs, Ended
  <2> QED BY <1>0, <2>1, <2>2, GotoType, ReleaseType DEF TypeOK
<1>4. ASSUME NEW c \in Cli, CliCrash(c) PROVE TypeOK'
  <2>1. UNCHANGED <<config, state, foreign>> /\ Goto(c, "idle") /\ Release(c)
    BY <1>4 DEF CliCrash, Finish
  <2>2. count' \in [commands : 0 .. MaxCommands, claims : 0 .. MaxClaims, crashes : 0 .. MaxCrashes]
    BY <1>4, BackgroundAssumption DEF CliCrash, TypeOK
  <2>3. "idle" \in Pcs
    BY DEF Pcs, Ended
  <2> QED BY <1>0, <2>1, <2>2, <2>3, GotoType, ReleaseType DEF TypeOK
<1>5. ASSUME NEW w \in DOMAIN worker, WorkerReads(w) \/ WorkerBinds(w) \/ WorkerDies(w) PROVE TypeOK'
  <2>1. UNCHANGED <<config, initLock, serviceLock, state, command, foreign, count>>
    BY <1>5 DEF WorkerReads, WorkerBinds, WorkerDies
  <2> QED BY <1>0, <2>1 DEF TypeOK
<1>6. ASSUME NEW port \in Port, Claim(port) \/ Leave(port) PROVE TypeOK'
  <2>1. UNCHANGED <<config, initLock, serviceLock, state, command>>
    BY <1>6 DEF Claim, Leave
  <2>2. foreign' \subseteq Port
        /\ count' \in [commands : 0 .. MaxCommands, claims : 0 .. MaxClaims, crashes : 0 .. MaxCrashes]
    BY <1>6, BackgroundAssumption DEF Claim, Leave, TypeOK
  <2> QED BY <1>0, <2>1, <2>2 DEF TypeOK
<1> QED BY <1>1, <1>2, <1>3, <1>4, <1>5, <1>6 DEF Next

(***************************************************************************)
(* Locks.                                                                  *)
(***************************************************************************)
\* A command goes on within its environment, and the others stay where they are.
Moves(c, pc) ==
    /\ \A d \in Cli \ {c} : command'[d] = command[d]
    /\ command'[c].pc = pc
    /\ command'[c].env = command[c].env /\ command'[c].kind = command[c].kind
\* Going somewhere else is a move.
LEMMA GotoMoves ==
    ASSUME TypeOK, NEW c \in Cli, NEW pc, Goto(c, pc)
    PROVE  Moves(c, pc) /\ command'[c].spawn = command[c].spawn
<1>1. command \in [Cli -> Commands]
  BY DEF TypeOK
<1>2. LET moved == [command[c] EXCEPT !.pc = pc]
      IN  moved.pc = pc /\ moved.env = command[c].env /\ moved.kind = command[c].kind /\ moved.spawn = command[c].spawn
  BY <1>1 DEF Commands
<1> QED BY <1>1, <1>2 DEF Goto, Moves

\* A command that ends has no lock any more.
LEMMA FinishLocks ==
    ASSUME TypeOK, Locks, NEW c \in Cli, NEW outcome \in Ended, Finish(c, outcome)
    PROVE  Locks'
<1>1. Moves(c, outcome)
  BY GotoMoves DEF Finish
<1>2. outcome \notin InService /\ outcome \notin InInitialization
  BY DEF Ended, InService, InInitialization
<1>3. \A e \in Env : serviceLock'[e] = IF serviceLock[e] = c THEN Nobody ELSE serviceLock[e]
  BY DEF Finish, Release
<1>4. initLock' = IF initLock = c THEN Nobody ELSE initLock
  BY DEF Finish, Release
<1>5. \A e \in Env, d \in Cli : serviceLock'[e] = d <=> command'[d].env = e /\ command'[d].pc \in InService
  BY <1>1, <1>2, <1>3, BackgroundAssumption DEF Locks, Moves
<1>6. \A d \in Cli : command'[d].kind \in {"init", "upstream"} /\ command'[d].pc \in InInitialization => initLock' = d
  BY <1>1, <1>2, <1>4 DEF Locks, Moves
<1> QED BY <1>5, <1>6 DEF Locks

\* A command that goes on with the locks that it has.
LEMMA SameLocks ==
    ASSUME Locks, NEW c \in Cli, NEW pc, Moves(c, pc), UNCHANGED <<initLock, serviceLock>>,
           pc \in InService <=> command[c].pc \in InService,
           pc \in InInitialization => command[c].pc \in InInitialization
    PROVE  Locks'
<1>1. \A e \in Env, d \in Cli : serviceLock'[e] = d <=> command'[d].env = e /\ command'[d].pc \in InService
  BY DEF Locks, Moves
<1>2. \A d \in Cli : command'[d].kind \in {"init", "upstream"} /\ command'[d].pc \in InInitialization => initLock' = d
  BY DEF Locks, Moves
<1> QED BY <1>1, <1>2 DEF Locks

\* What a step of a command is: its end, or a step to a place of the program
\* with the locks that it has or with the one that it takes.
LEMMA CommandSteps ==
    ASSUME TypeOK, NEW c \in Cli, CliStep(c)
    PROVE  \/ \E outcome \in Ended : Finish(c, outcome)
           \/ /\ UNCHANGED <<initLock, serviceLock>>
              /\ \E pc \in InService \cup {"written", "serviceLock"} :
                    /\ Moves(c, pc)
                    /\ pc \in InService <=> command[c].pc \in InService
                    /\ command[c].pc \in InInitialization
           \/ /\ initLock = Nobody /\ initLock' = c /\ UNCHANGED serviceLock
              /\ Moves(c, "configure") /\ command[c].pc = "initLock"
           \/ /\ serviceLock[command[c].env] = Nobody /\ UNCHANGED initLock
              /\ serviceLock' = [serviceLock EXCEPT ![command[c].env] = c]
              /\ command[c].pc = "serviceLock" /\ \E pc \in InService : Moves(c, pc)
<1> USE DEF InService, InInitialization, Ended
<1>0. command \in [Cli -> Commands]
  BY DEF TypeOK
<1>1. CASE LockInitialization(c)
  BY <1>1, GotoMoves DEF LockInitialization
<1>2. CASE LockService(c)
  BY <1>2, GotoMoves DEF LockService
<1>3. CASE WriteConfig(c)
  <2>1. ASSUME NEW changed, command' = [command EXCEPT ![c].pc = "written", ![c].changed = changed] PROVE Moves(c, "written")
    <3>1. LET moved == [[command[c] EXCEPT !.pc = "written"] EXCEPT !.changed = changed]
          IN  moved.pc = "written" /\ moved.env = command[c].env /\ moved.kind = command[c].kind
      BY <1>0 DEF Commands
    <3> QED BY <1>0, <2>1, <3>1 DEF Moves
  <2>2. CASE UNCHANGED <<initLock, serviceLock>> /\ Moves(c, "written")
    BY <1>3, <2>2 DEF WriteConfig
  <2> QED BY <1>3, <2>1, <2>2 DEF WriteConfig
<1>4. CASE SetUpstream(c)
  BY <1>4 DEF SetUpstream
<1>5. CASE Decide(c)
  BY <1>5, GotoMoves DEF Decide
<1>6. CASE ReadConfig(c)
  <2>1. ASSUME command' = [command EXCEPT ![c].pc = "stop", ![c].cfg = config[command[c].env]] PROVE Moves(c, "stop")
    <3>1. LET moved == [[command[c] EXCEPT !.pc = "stop"] EXCEPT !.cfg = config[command[c].env]]
          IN  moved.pc = "stop" /\ moved.env = command[c].env /\ moved.kind = command[c].kind
      BY <1>0 DEF Commands
    <3> QED BY <1>0, <2>1, <3>1 DEF Moves
  <2> QED BY <1>6, <2>1 DEF ReadConfig
<1>7. CASE StopRecorded(c)
  BY <1>7, GotoMoves DEF StopRecorded
<1>8. CASE Forget(c)
  BY <1>8, GotoMoves DEF Forget
<1>9. CASE EnsureAvailable(c)
  BY <1>9, GotoMoves DEF EnsureAvailable
<1>10. CASE SpawnWorker(c)
  <2>1. PICK w : command' = [command EXCEPT ![c].pc = "record", ![c].spawn = w]
    BY <1>10 DEF SpawnWorker
  <2>2. LET moved == [[command[c] EXCEPT !.pc = "record"] EXCEPT !.spawn = w]
        IN  moved.pc = "record" /\ moved.env = command[c].env /\ moved.kind = command[c].kind
    BY <1>0 DEF Commands
  <2>3. Moves(c, "record")
    BY <1>0, <2>1, <2>2 DEF Moves
  <2> QED BY <1>10, <2>3 DEF SpawnWorker
<1>11. CASE Record(c)
  BY <1>11, GotoMoves DEF Record
<1>12. CASE SpawnFails(c) \/ Ready(c) \/ StartFails(c)
  BY <1>12 DEF SpawnFails, Ready, StartFails
<1> QED BY <1>1, <1>2, <1>3, <1>4, <1>5, <1>6, <1>7, <1>8, <1>9, <1>10, <1>11, <1>12, Zenon DEF CliStep

\* Every step keeps the locks with the commands that need them.
LEMMA LocksStep == ASSUME TypeOK, Locks, Next PROVE Locks'
<1>1. ASSUME NEW c \in Cli, CliStep(c) PROVE Locks'
  <2>1. CASE \E outcome \in Ended : Finish(c, outcome)
    BY <2>1, FinishLocks
  <2>2. CASE /\ UNCHANGED <<initLock, serviceLock>>
             /\ \E pc \in InService \cup {"written", "serviceLock"} :
                   /\ Moves(c, pc)
                   /\ pc \in InService <=> command[c].pc \in InService
                   /\ command[c].pc \in InInitialization
    BY <2>2, SameLocks
  <2>3. CASE /\ initLock = Nobody /\ initLock' = c /\ UNCHANGED serviceLock
             /\ Moves(c, "configure") /\ command[c].pc = "initLock"
    <3>1. \A e \in Env, d \in Cli : serviceLock'[e] = d <=> command'[d].env = e /\ command'[d].pc \in InService
      BY <2>3 DEF Locks, Moves, InService
    <3>2. \A d \in Cli : command'[d].kind \in {"init", "upstream"} /\ command'[d].pc \in InInitialization => initLock' = d
      BY <2>3, BackgroundAssumption DEF Locks, Moves
    <3> QED BY <3>1, <3>2 DEF Locks
  <2>4. CASE /\ serviceLock[command[c].env] = Nobody /\ UNCHANGED initLock
             /\ serviceLock' = [serviceLock EXCEPT ![command[c].env] = c]
             /\ command[c].pc = "serviceLock" /\ \E pc \in InService : Moves(c, pc)
    <3>1. command[c].env \in Env /\ serviceLock \in [Env -> Cli \cup {Nobody}]
      BY DEF TypeOK, Commands
    <3>2. \A e \in Env, d \in Cli : serviceLock'[e] = d <=> command'[d].env = e /\ command'[d].pc \in InService
      BY <2>4, <3>1, BackgroundAssumption DEF Locks, Moves, InService
    <3>3. \A d \in Cli : command'[d].kind \in {"init", "upstream"} /\ command'[d].pc \in InInitialization => initLock' = d
      BY <2>4 DEF Locks, Moves, InInitialization
    <3> QED BY <3>2, <3>3 DEF Locks
  <2> QED BY <1>1, <2>1, <2>2, <2>3, <2>4, CommandSteps
<1>2. ASSUME NEW c \in Cli, NEW kind \in Kinds, NEW e \in Env, NEW key \in Key, Begin(c, kind, e, key) PROVE Locks'
  <2>1. /\ \A d \in Cli \ {c} : command'[d] = command[d]
        /\ command'[c].pc \in {"initLock", "serviceLock"}
        /\ command'[c].kind \in {"init", "upstream"} => command'[c].pc = "initLock"
    <3>1. /\ command' = [command EXCEPT ![c] =
                 [NoCommand EXCEPT !.kind = kind, !.env = e, !.key = key,
                                   !.pc = IF kind \in {"init", "upstream"} THEN "initLock" ELSE "serviceLock"]]
          /\ command \in [Cli -> Commands]
      BY <1>2 DEF Begin, TypeOK
    <3> QED BY <3>1 DEF NoCommand
  <2>2. command[c].pc \in Ended /\ UNCHANGED <<initLock, serviceLock>>
    BY <1>2 DEF Begin
  <2>3. \A f \in Env, d \in Cli : serviceLock'[f] = d <=> command'[d].env = f /\ command'[d].pc \in InService
    BY <2>1, <2>2 DEF Locks, InService, Ended
  <2>4. \A d \in Cli : command'[d].kind \in {"init", "upstream"} /\ command'[d].pc \in InInitialization => initLock' = d
    BY <2>1, <2>2 DEF Locks, InInitialization, InService
  <2> QED BY <2>3, <2>4 DEF Locks
<1>3. ASSUME NEW c \in Cli, Interrupt(c) \/ CliCrash(c) PROVE Locks'
  BY <1>3, FinishLocks DEF Interrupt, CliCrash, Ended
<1>4. CASE UNCHANGED <<initLock, serviceLock, command>>
  BY <1>4 DEF Locks
<1>5. ASSUME NEW w \in DOMAIN worker, WorkerReads(w) \/ WorkerBinds(w) \/ WorkerDies(w) PROVE Locks'
  BY <1>4, <1>5 DEF WorkerReads, WorkerBinds, WorkerDies
<1>6. ASSUME NEW port \in Port, Claim(port) \/ Leave(port) PROVE Locks'
  BY <1>4, <1>6 DEF Claim, Leave
<1> QED BY <1>1, <1>2, <1>3, <1>5, <1>6 DEF Next

(***************************************************************************)
(* State files and starts.                                                 *)
(***************************************************************************)
\* Every step keeps the state files with workers of their environments.
LEMMA StatesStep == ASSUME TypeOK, StatesAreOfWorkers, Starts, Next PROVE StatesAreOfWorkers'
<1>0. WorkersStay
  BY StepWorkers
<1>1. CASE UNCHANGED state
  <2>1. \A e \in Env : state'[e] = state[e]
    BY <1>1
  <2> QED BY <1>0, <2>1 DEF StatesAreOfWorkers, WorkersStay
<1>2. ASSUME NEW c \in Cli, Forget(c) \/ StartFails(c) PROVE StatesAreOfWorkers'
  <2>1. \A e \in Env : state'[e] \in {state[e], Nobody}
    BY <1>2 DEF Forget, StartFails, TypeOK
  <2> QED BY <1>0, <2>1 DEF StatesAreOfWorkers, WorkersStay
<1>3. ASSUME NEW c \in Cli, Record(c) PROVE StatesAreOfWorkers'
  <2> DEFINE e == command[c].env
             w == command[c].spawn
  <2>1. /\ state' = [state EXCEPT ![e] = [pid |-> worker[w].pid, start |-> w]]
        /\ UNCHANGED worker
    BY <1>3 DEF Record
  <2>2. w \in DOMAIN worker /\ worker[w].env = e /\ e \in Env /\ state \in [Env -> [pid : Pid, start : Spawn] \cup {Nobody}]
    BY <1>3 DEF Record, Starts, TypeOK, Commands
  <2>3. \A f \in Env \ {e} : state'[f] = state[f]
    BY <2>1, <2>2
  <2>4. state'[e] = [pid |-> worker[w].pid, start |-> w]
    BY <2>1, <2>2
  <2> HIDE DEF e, w
  <2> QED BY <2>1, <2>2, <2>3, <2>4 DEF StatesAreOfWorkers
<1>4. ASSUME NEW c \in Cli, CliStep(c) PROVE StatesAreOfWorkers'
  <2>1. CASE LockInitialization(c) \/ WriteConfig(c) \/ SetUpstream(c) \/ Decide(c) \/ LockService(c) \/ ReadConfig(c)
    BY <1>1, <2>1 DEF LockInitialization, WriteConfig, SetUpstream, Decide, LockService, ReadConfig
  <2>2. CASE StopRecorded(c) \/ EnsureAvailable(c) \/ SpawnFails(c) \/ SpawnWorker(c) \/ Ready(c)
    BY <1>1, <2>2 DEF StopRecorded, EnsureAvailable, SpawnFails, SpawnWorker, Ready
  <2> QED BY <1>2, <1>3, <1>4, <2>1, <2>2 DEF CliStep
<1>5. ASSUME NEW c \in Cli, (\E kind \in Kinds, e \in Env, key \in Key : Begin(c, kind, e, key)) \/ Interrupt(c) \/ CliCrash(c)
      PROVE  StatesAreOfWorkers'
  BY <1>1, <1>5, Zenon DEF Begin, Interrupt, CliCrash
<1>6. ASSUME NEW w \in DOMAIN worker, WorkerReads(w) \/ WorkerBinds(w) \/ WorkerDies(w) PROVE StatesAreOfWorkers'
  BY <1>1, <1>6 DEF WorkerReads, WorkerBinds, WorkerDies
<1>7. ASSUME NEW port \in Port, Claim(port) \/ Leave(port) PROVE StatesAreOfWorkers'
  BY <1>1, <1>7 DEF Claim, Leave
<1> QED BY <1>4, <1>5, <1>6, <1>7 DEF Next

\* What Starts says of one command.
StartsOf(c) ==
    LET e == command[c].env
        w == command[c].spawn
    IN  /\ command[c].pc \in {"ensure", "spawn", "record"} => state[e] = Nobody
        /\ command[c].pc \in {"record", "await"} => w \in DOMAIN worker /\ worker[w].env = e
        /\ command[c].pc = "await" => state[e] # Nobody /\ state[e].start = w
\* The state file is only the business of the command that has the lock.
Exclusive(c) == \A e \in Env \ {command[c].env} : state'[e] = state[e]
\* What one command does leaves the starts of the others as they are.
LEMMA OthersStart ==
    ASSUME TypeOK, Locks, Starts, WorkersStay, NEW c \in Cli, NEW d \in Cli \ {c},
           command'[d] = command[d],
           UNCHANGED state \/ (command[c].pc \in InService /\ Exclusive(c))
    PROVE  StartsOf(d)'
<1>1. command[c].env \in Env /\ command[d].env \in Env
  BY DEF TypeOK, Commands
<1>2. command[d].pc \in {"ensure", "spawn", "record", "await"} => state'[command[d].env] = state[command[d].env]
  <2>1. CASE UNCHANGED state
    BY <2>1
  <2>2. CASE command[c].pc \in InService /\ Exclusive(c)
    <3>1. ASSUME command[d].pc \in InService PROVE command[d].env # command[c].env
      BY <1>1, <2>2, <3>1 DEF Locks
    <3> QED BY <1>1, <2>2, <3>1 DEF InService, Exclusive
  <2> QED BY <2>1, <2>2
<1> QED BY <1>2 DEF StartsOf, Starts, WorkersStay

\* Every step keeps what is known of the starts.
LEMMA StartsStep == ASSUME TypeOK, Locks, Starts, Next PROVE Starts'
<1>0. WorkersStay /\ command \in [Cli -> Commands] /\ state \in [Env -> [pid : Pid, start : Spawn] \cup {Nobody}]
  BY StepWorkers DEF TypeOK
<1>1. ASSUME \A d \in Cli : StartsOf(d)' PROVE Starts'
  BY <1>1 DEF Starts, StartsOf
<1>2. ASSUME NEW c \in Cli, CliStep(c) PROVE Starts'
  <2> DEFINE e == command[c].env
  <2>0. e \in Env
    BY <1>0 DEF Commands
  <2>1. \A d \in Cli \ {c} : command'[d] = command[d]
    BY <1>2, CommandSteps, GotoMoves DEF Moves, Finish
  <2>2. UNCHANGED state \/ (command[c].pc \in InService /\ Exclusive(c))
    <3>1. CASE Forget(c) \/ Record(c) \/ StartFails(c)
      BY <1>0, <3>1 DEF Forget, Record, StartFails, Exclusive, InService
    <3>2. CASE LockInitialization(c) \/ WriteConfig(c) \/ SetUpstream(c) \/ Decide(c) \/ LockService(c) \/ ReadConfig(c)
      BY <3>2 DEF LockInitialization, WriteConfig, SetUpstream, Decide, LockService, ReadConfig
    <3>3. CASE StopRecorded(c) \/ EnsureAvailable(c) \/ SpawnFails(c) \/ SpawnWorker(c) \/ Ready(c)
      BY <3>3 DEF StopRecorded, EnsureAvailable, SpawnFails, SpawnWorker, Ready
    <3> QED BY <1>2, <3>1, <3>2, <3>3 DEF CliStep
  <2>3. \A d \in Cli \ {c} : StartsOf(d)'
    BY <1>0, <2>1, <2>2, OthersStart
  <2>4. StartsOf(c)'
    <3>1. ASSUME NEW pc, Moves(c, pc), pc \notin {"ensure", "spawn", "record", "await"} PROVE StartsOf(c)'
      BY <3>1 DEF StartsOf, Moves
    <3>2. CASE \E outcome \in Ended : Finish(c, outcome)
      <4>1. PICK outcome \in Ended : Goto(c, outcome)
        BY <3>2 DEF Finish
      <4> QED BY <3>1, <4>1, GotoMoves DEF Ended
    <3>3. CASE LockInitialization(c) \/ LockService(c) \/ Decide(c) \/ StopRecorded(c)
      <4>1. PICK pc \in {"configure", "stop", "read", "serviceLock", "forget", "left"} : Goto(c, pc)
        BY <3>3 DEF LockInitialization, LockService, Decide, StopRecorded, Finish
      <4> QED BY <3>1, <4>1, GotoMoves
    <3>4. CASE WriteConfig(c) \/ ReadConfig(c)
      <4>1. command[c].pc \in {"configure", "read"}
        BY <3>4 DEF WriteConfig, ReadConfig
      <4>2. CASE \E pc \in {"written", "stop"} : command'[c].pc = pc
        BY <4>2 DEF StartsOf
      <4>3. \/ \E outcome \in Ended : Finish(c, outcome)
            \/ \E x : command' = [command EXCEPT ![c].pc = "written", ![c].changed = x]
            \/ \E x : command' = [command EXCEPT ![c].pc = "stop", ![c].cfg = x]
        BY <3>4 DEF WriteConfig, ReadConfig, Ended
      <4>4. ASSUME NEW x, command' = [command EXCEPT ![c].pc = "written", ![c].changed = x] PROVE command'[c].pc = "written"
        BY <1>0, <4>4 DEF Commands
      <4>5. ASSUME NEW x, command' = [command EXCEPT ![c].pc = "stop", ![c].cfg = x] PROVE command'[c].pc = "stop"
        BY <1>0, <4>5 DEF Commands
      <4> QED BY <3>2, <4>2, <4>3, <4>4, <4>5
    <3>5. CASE SetUpstream(c) \/ SpawnFails(c) \/ Ready(c) \/ StartFails(c)
      BY <3>2, <3>5 DEF SetUpstream, SpawnFails, Ready, StartFails, Ended
    <3>6. CASE Forget(c)
      <4>1. CASE Goto(c, "ensure")
        <5>1. Moves(c, "ensure") /\ state'[e] = Nobody
          BY <1>0, <2>0, <3>6, <4>1, GotoMoves DEF Forget
        <5> QED BY <5>1 DEF StartsOf, Moves
      <4> QED BY <3>2, <3>6, <4>1 DEF Forget, Ended
    <3>7. CASE EnsureAvailable(c)
      <4>1. CASE Goto(c, "spawn")
        <5>1. Moves(c, "spawn") /\ UNCHANGED state /\ state[e] = Nobody
          BY <3>7, <4>1, GotoMoves DEF EnsureAvailable, Starts
        <5> QED BY <5>1 DEF StartsOf, Moves
      <4> QED BY <3>2, <3>7, <4>1 DEF EnsureAvailable, Ended
    <3>8. CASE SpawnWorker(c)
      <4>1. PICK w \in Spawn, pid \in Pid :
               /\ w \notin DOMAIN worker /\ DOMAIN worker' = DOMAIN worker \cup {w}
               /\ worker'[w] = NewWorker(e, pid)
               /\ command' = [command EXCEPT ![c].pc = "record", ![c].spawn = w]
        BY <3>8, SpawnType
      <4>2. command'[c].pc = "record" /\ command'[c].env = e /\ command'[c].spawn = w
        BY <1>0, <4>1 DEF Commands
      <4>3. UNCHANGED state /\ state[e] = Nobody
        BY <3>8 DEF SpawnWorker, Starts
      <4> QED BY <4>1, <4>2, <4>3 DEF StartsOf, NewWorker
    <3>9. CASE Record(c)
      <4> DEFINE w == command[c].spawn
      <4>1. w \in DOMAIN worker /\ worker[w].env = e
        BY <3>9 DEF Record, Starts
      <4>2. Moves(c, "await") /\ command'[c].spawn = w /\ UNCHANGED worker
            /\ state'[e] = [pid |-> worker[w].pid, start |-> w]
        BY <1>0, <2>0, <3>9, GotoMoves DEF Record
      <4>3. [pid |-> worker[w].pid, start |-> w] # Nobody
        <5>1. worker[w].pid \in Pid /\ w \in Nat
          BY <4>1, BackgroundAssumption DEF TypeOK, Worker
        <5> QED BY <5>1, BackgroundAssumption
      <4> QED BY <4>1, <4>2, <4>3 DEF StartsOf, Moves
    <3> QED BY <1>2, <3>3, <3>4, <3>5, <3>6, <3>7, <3>8, <3>9 DEF CliStep
  <2> QED BY <1>1, <2>3, <2>4
<1>3. ASSUME NEW c \in Cli, (\E kind \in Kinds, e \in Env, key \in Key : Begin(c, kind, e, key)) \/ Interrupt(c) \/ CliCrash(c)
      PROVE  Starts'
  <2>1. UNCHANGED state
    BY <1>3, Zenon DEF Begin, Interrupt, CliCrash
  <2>2. (\A d \in Cli \ {c} : command'[d] = command[d]) /\ command'[c].pc \in Ended \cup {"initLock", "serviceLock"}
    <3>1. ASSUME NEW kind \in Kinds, NEW e \in Env, NEW key \in Key, Begin(c, kind, e, key)
          PROVE  (\A d \in Cli \ {c} : command'[d] = command[d]) /\ command'[c].pc \in {"initLock", "serviceLock"}
      BY <1>0, <3>1 DEF Begin, NoCommand
    <3>2. CASE Interrupt(c) \/ CliCrash(c)
      <4>1. PICK pc \in Ended : Goto(c, pc)
        BY <3>2 DEF Interrupt, CliCrash, Finish, Ended
      <4> QED BY <4>1, GotoMoves DEF Moves
    <3> QED BY <1>3, <3>1, <3>2
  <2>3. \A d \in Cli \ {c} : StartsOf(d)'
    BY <1>0, <2>1, <2>2, OthersStart
  <2>4. StartsOf(c)'
    BY <2>2 DEF StartsOf, Ended
  <2> QED BY <1>1, <2>3, <2>4
<1>4. CASE UNCHANGED <<command, state>>
  BY <1>0, <1>4 DEF Starts, WorkersStay
<1>5. ASSUME NEW w \in DOMAIN worker, WorkerReads(w) \/ WorkerBinds(w) \/ WorkerDies(w) PROVE Starts'
  BY <1>4, <1>5 DEF WorkerReads, WorkerBinds, WorkerDies
<1>6. ASSUME NEW port \in Port, Claim(port) \/ Leave(port) PROVE Starts'
  BY <1>4, <1>6 DEF Claim, Leave
<1> QED BY <1>2, <1>3, <1>5, <1>6 DEF Next

(***************************************************************************)
(* Configurations.                                                         *)
(***************************************************************************)
\* Only an init or an upstream-proxy writes the configuration, where it has
\* the initialization lock.
LEMMA ConfigSteps ==
    ASSUME Next
    PROVE  \/ UNCHANGED config
           \/ \E c \in Cli : WriteConfig(c) \/ SetUpstream(c)
<1>1. ASSUME NEW c \in Cli, CliStep(c), ~WriteConfig(c), ~SetUpstream(c) PROVE UNCHANGED config
  <2>1. CASE LockInitialization(c) \/ Decide(c) \/ LockService(c) \/ ReadConfig(c) \/ StopRecorded(c) \/ Forget(c)
    BY <2>1 DEF LockInitialization, Decide, LockService, ReadConfig, StopRecorded, Forget
  <2>2. CASE EnsureAvailable(c) \/ SpawnFails(c) \/ SpawnWorker(c) \/ Record(c) \/ Ready(c) \/ StartFails(c)
    BY <2>2 DEF EnsureAvailable, SpawnFails, SpawnWorker, Record, Ready, StartFails
  <2> QED BY <1>1, <2>1, <2>2 DEF CliStep
<1>2. ASSUME NEW c \in Cli, (\E kind \in Kinds, e \in Env, key \in Key : Begin(c, kind, e, key)) \/ Interrupt(c) \/ CliCrash(c)
      PROVE  UNCHANGED config
  BY <1>2, Zenon DEF Begin, Interrupt, CliCrash
<1>3. ASSUME NEW w \in DOMAIN worker, WorkerReads(w) \/ WorkerBinds(w) \/ WorkerDies(w) PROVE UNCHANGED config
  BY <1>3 DEF WorkerReads, WorkerBinds, WorkerDies
<1>4. ASSUME NEW port \in Port, Claim(port) \/ Leave(port) PROVE UNCHANGED config
  BY <1>4 DEF Claim, Leave
<1> QED BY <1>1, <1>2, <1>3, <1>4 DEF Next

\* The address that an init selects is none of another environment's.
LEMMA DistinctStep == ASSUME TypeOK, DistinctListeners, Next PROVE DistinctListeners'
<1>1. CASE UNCHANGED config
  BY <1>1 DEF DistinctListeners
<1>2. ASSUME NEW c \in Cli, WriteConfig(c), ~UNCHANGED config PROVE DistinctListeners'
  <2> DEFINE e == command[c].env
  <2>1. e \in Env /\ config \in [Env -> Config \cup {NoConfig}]
    BY DEF TypeOK, Commands
  <2> DEFINE settings == IF config[e] = NoConfig THEN SystemUpstream ELSE config[e].upstream
  <2>2. PICK port \in Selected(e) : config' = [config EXCEPT ![e] = [listen |-> port, key |-> command[c].key, upstream |-> settings]]
    BY <1>2 DEF WriteConfig
  <2>3. port \notin Reserved(e)
    BY <2>2 DEF Selected, Keeps
  <2>4. \A f \in Env \ {e} : config'[f] = config[f] /\ (config[f] # NoConfig => config[f].listen # port)
    BY <2>1, <2>2, <2>3 DEF Reserved
  <2>5. config'[e].listen = port
    BY <2>1, <2>2
  <2> QED BY <2>1, <2>4, <2>5 DEF DistinctListeners
<1>3. ASSUME NEW c \in Cli, SetUpstream(c), ~UNCHANGED config PROVE DistinctListeners'
  <2> DEFINE e == command[c].env
  <2>1. e \in Env /\ config \in [Env -> Config \cup {NoConfig}]
    BY DEF TypeOK, Commands
  <2>2. PICK u \in Upstream : config' = [config EXCEPT ![e].upstream = u] /\ config[e] # NoConfig
    BY <1>3 DEF SetUpstream
  <2>3. config'[e].listen = config[e].listen /\ \A f \in Env \ {e} : config'[f] = config[f]
    BY <2>1, <2>2 DEF Config
  <2> QED BY <2>1, <2>2, <2>3 DEF DistinctListeners
<1> QED BY <1>1, <1>2, <1>3, ConfigSteps

\* A worker that has a configuration had it, or has just read it.
LEMMA WorkerSteps ==
    ASSUME TypeOK, Next, NEW w \in DOMAIN worker, worker'[w].pc \in {"booted", "listening"}
    PROVE  \/ worker'[w].conf = worker[w].conf /\ worker[w].pc \in {"booted", "listening"}
           \/ worker'[w].conf = config[worker[w].env] /\ UNCHANGED config
<1> DEFINE Goal == \/ worker'[w].conf = worker[w].conf /\ worker[w].pc \in {"booted", "listening"}
                   \/ worker'[w].conf = config[worker[w].env] /\ UNCHANGED config
<1>0. worker[w] \in Worker
  BY DEF TypeOK
<1>1. ASSUME worker'[w] = worker[w] PROVE Goal
  BY <1>1
<1>2. ASSUME NEW c \in Cli, StopRecorded(c) \/ StartFails(c) PROVE Goal
  <2>1. PICK dying : Kill(dying)
    BY <1>2 DEF StopRecorded, StartFails
  <2>2. worker'[w] = IF w \in dying THEN [worker[w] EXCEPT !.pc = "dead"] ELSE worker[w]
    BY <2>1, KillType
  <2>3. [worker[w] EXCEPT !.pc = "dead"].pc = "dead"
    BY <1>0 DEF Worker
  <2> QED BY <1>1, <2>2, <2>3
<1>3. ASSUME NEW c \in Cli, CliStep(c) PROVE Goal
  <2>1. CASE LockInitialization(c) \/ WriteConfig(c) \/ SetUpstream(c) \/ Decide(c) \/ LockService(c) \/ ReadConfig(c)
    BY <1>1, <2>1 DEF LockInitialization, WriteConfig, SetUpstream, Decide, LockService, ReadConfig
  <2>2. CASE Forget(c) \/ EnsureAvailable(c) \/ SpawnFails(c) \/ Record(c) \/ Ready(c)
    BY <1>1, <2>2 DEF Forget, EnsureAvailable, SpawnFails, Record, Ready
  <2>3. CASE SpawnWorker(c)
    BY <1>1, <2>3, SpawnType
  <2> QED BY <1>2, <1>3, <2>1, <2>2, <2>3 DEF CliStep
<1>4. ASSUME NEW v \in DOMAIN worker, WorkerReads(v) \/ WorkerBinds(v) \/ WorkerDies(v) PROVE Goal
  <2>1. CASE v # w
    BY <1>1, <1>4, <2>1, WorkerType
  <2>2. CASE v = w /\ WorkerReads(v)
    <3>1. worker' = [worker EXCEPT ![w].pc = "booted", ![w].conf = config[worker[w].env]] /\ UNCHANGED config
      BY <2>2 DEF WorkerReads
    <3> QED BY <1>0, <3>1 DEF Worker
  <2>3. CASE v = w /\ WorkerBinds(v)
    <3>1. PICK pc : worker' = [worker EXCEPT ![w].pc = pc] /\ worker[w].pc = "booted"
      BY <2>3 DEF WorkerBinds
    <3> QED BY <1>0, <3>1 DEF Worker
  <2>4. CASE v = w /\ WorkerDies(v)
    <3>1. worker'[w] = [worker[w] EXCEPT !.pc = "dead"]
      BY <2>4, KillType DEF WorkerDies
    <3> QED BY <1>0, <3>1 DEF Worker
  <2> QED BY <1>4, <2>1, <2>2, <2>3, <2>4
<1>5. ASSUME NEW c \in Cli, (\E kind \in Kinds, e \in Env, key \in Key : Begin(c, kind, e, key)) \/ Interrupt(c) \/ CliCrash(c)
      PROVE  Goal
  BY <1>1, <1>5, Zenon DEF Begin, Interrupt, CliCrash
<1>6. ASSUME NEW port \in Port, Claim(port) \/ Leave(port) PROVE Goal
  BY <1>1, <1>6 DEF Claim, Leave
<1> HIDE DEF Goal
<1>7. Goal
  BY <1>3, <1>4, <1>5, <1>6 DEF Next
<1> QED BY <1>7 DEF Goal

\* A command that is recording or awaiting its worker has just spawned it, or
\* recorded it, or was there before.
LEMMA StartingSteps ==
    ASSUME TypeOK, Next, NEW c \in Cli, command'[c].pc \in {"record", "await"}
    PROVE  \/ command'[c] = command[c]
           \/ SpawnWorker(c)
           \/ Record(c) /\ Moves(c, "await") /\ command'[c].spawn = command[c].spawn
<1>1. ASSUME NEW d \in Cli \ {c}, CliStep(d) PROVE command'[c] = command[c]
  BY <1>1, CommandSteps, GotoMoves DEF Moves, Finish
<1>2. CASE CliStep(c)
  <2> USE DEF Ended
  <2>1. ASSUME NEW pc, Goto(c, pc), pc \notin {"record", "await"} PROVE FALSE
    BY <2>1, GotoMoves DEF Moves
  <2>2. CASE LockInitialization(c) \/ LockService(c) \/ Decide(c) \/ StopRecorded(c)
    BY <2>1, <2>2 DEF LockInitialization, LockService, Decide, StopRecorded, Finish
  <2>3. CASE SetUpstream(c) \/ SpawnFails(c) \/ Ready(c) \/ StartFails(c) \/ Forget(c) \/ EnsureAvailable(c)
    BY <2>1, <2>3 DEF SetUpstream, SpawnFails, Ready, StartFails, Forget, EnsureAvailable, Finish
  <2>4. CASE WriteConfig(c) \/ ReadConfig(c)
    <3>0. command \in [Cli -> Commands]
      BY DEF TypeOK
    <3>1. \/ Goto(c, "failed")
          \/ \E x : command' = [command EXCEPT ![c].pc = "written", ![c].changed = x]
          \/ \E x : command' = [command EXCEPT ![c].pc = "stop", ![c].cfg = x]
      BY <2>4 DEF WriteConfig, ReadConfig, Finish
    <3>2. ASSUME NEW x, command' = [command EXCEPT ![c].pc = "written", ![c].changed = x] PROVE command'[c].pc = "written"
      BY <3>0, <3>2 DEF Commands
    <3>3. ASSUME NEW x, command' = [command EXCEPT ![c].pc = "stop", ![c].cfg = x] PROVE command'[c].pc = "stop"
      BY <3>0, <3>3 DEF Commands
    <3> QED BY <2>1, <3>1, <3>2, <3>3
  <2>5. CASE Record(c)
    BY <2>5, GotoMoves DEF Record
  <2> QED BY <1>2, <2>2, <2>3, <2>4, <2>5 DEF CliStep
<1>3. ASSUME NEW d \in Cli, NEW kind \in Kinds, NEW e \in Env, NEW key \in Key, Begin(d, kind, e, key) PROVE command'[c] = command[c]
  <2>1. command \in [Cli -> Commands]
    BY DEF TypeOK
  <2>2. d # c
    BY <1>3, <2>1 DEF Begin, NoCommand
  <2> QED BY <1>3, <2>1, <2>2 DEF Begin
<1>4. ASSUME NEW d \in Cli, Interrupt(d) \/ CliCrash(d) PROVE command'[c] = command[c]
  <2>1. PICK pc \in Ended : Goto(d, pc)
    BY <1>4 DEF Interrupt, CliCrash, Finish, Ended
  <2> QED BY <2>1, GotoMoves DEF Moves, Ended
<1>5. CASE UNCHANGED command
  BY <1>5
<1>6. ASSUME NEW w \in DOMAIN worker, WorkerReads(w) \/ WorkerBinds(w) \/ WorkerDies(w) PROVE UNCHANGED command
  BY <1>6 DEF WorkerReads, WorkerBinds, WorkerDies
<1>7. ASSUME NEW port \in Port, Claim(port) \/ Leave(port) PROVE UNCHANGED command
  BY <1>7 DEF Claim, Leave
<1> QED BY <1>1, <1>2, <1>3, <1>4, <1>5, <1>6, <1>7 DEF Next

\* Every step keeps the worker of an init with the configuration in the file.
LEMMA RefreshesStep == ASSUME TypeOK, Locks, Starts, Refreshes, Next PROVE Refreshes'
<1> SUFFICES ASSUME NEW c \in Cli, command'[c].kind = "init", command'[c].pc \in {"record", "await"},
                    worker'[command'[c].spawn].pc \in {"booted", "listening"}
             PROVE  worker'[command'[c].spawn].conf = config'[command'[c].env]
  BY DEF Refreshes
<1>1. CASE command'[c] = command[c]
  <2> DEFINE w == command[c].spawn
  <2>1. w \in DOMAIN worker /\ worker[w].env = command[c].env
    BY <1>1 DEF Starts
  <2>2. initLock = c
    BY <1>1 DEF Locks, InInitialization, InService
  <2>3. UNCHANGED config
    <3>1. ASSUME NEW d \in Cli, WriteConfig(d) \/ SetUpstream(d) PROVE FALSE
      <4>1. command[d].pc = "configure" /\ command[d].kind \in {"init", "upstream"}
        BY <3>1 DEF WriteConfig, SetUpstream
      <4>2. d = c
        BY <2>2, <4>1 DEF Locks, InInitialization
      <4> QED BY <1>1, <4>1, <4>2
    <3> QED BY <3>1, ConfigSteps
  <2> QED BY <1>1, <2>1, <2>3, WorkerSteps DEF Refreshes
<1>2. CASE SpawnWorker(c)
  <2>1. PICK w \in Spawn, pid \in Pid :
           /\ worker'[w] = NewWorker(command[c].env, pid)
           /\ command' = [command EXCEPT ![c].pc = "record", ![c].spawn = w]
    BY <1>2, SpawnType
  <2>2. command'[c].spawn = w
    BY <2>1 DEF TypeOK, Commands
  <2> QED BY <2>1, <2>2 DEF NewWorker
<1>3. CASE Record(c) /\ Moves(c, "await") /\ command'[c].spawn = command[c].spawn
  BY <1>3 DEF Record, Moves, Refreshes
<1> QED BY <1>1, <1>2, <1>3, StartingSteps

(***************************************************************************)
(* Workers are known.                                                      *)
(***************************************************************************)
\* A worker that its state file names, or a command that starts it.
Named(e, w) == state[e] # Nobody /\ state[e].start = w
Started(e, w) == \E c \in Cli : /\ serviceLock[e] = c /\ command[c].pc \in {"record", "await"}
                                /\ command[c].spawn = w
KnownPlainly ==
    count.crashes = 0 =>
        \A e \in Env, w \in DOMAIN worker :
           worker[w].env = e /\ worker[w].pc # "dead" => Named(e, w) \/ Started(e, w)
\* The same, worker by worker.
LEMMA KnownMeans == StatesAreOfWorkers => (Known <=> KnownPlainly)
<1> SUFFICES ASSUME StatesAreOfWorkers PROVE Known <=> KnownPlainly
  OBVIOUS
<1>1. ASSUME NEW e \in Env, NEW w \in DOMAIN worker, worker[w].pc # "dead"
      PROVE  w \in Matches(e) <=> Named(e, w)
  BY <1>1 DEF Matches, Alive, Named, StatesAreOfWorkers
<1>2. ASSUME NEW e \in Env, NEW w
      PROVE  w \in Starting(e) <=> Started(e, w)
  BY DEF Starting, Started
<1> QED BY <1>1, <1>2 DEF Known, KnownPlainly, Workers, Alive

\* At most one worker of an environment is known.
LEMMA KnownIsOne ==
    ASSUME TypeOK, Locks, Starts, NEW e \in Env, NEW w, NEW v,
           Named(e, w) \/ Started(e, w), Named(e, v) \/ Started(e, v)
    PROVE  w = v
<1>1. ASSUME NEW x, Started(e, x)
      PROVE  \E c \in Cli : /\ serviceLock[e] = c /\ command[c].spawn = x /\ command[c].env = e
                            /\ state[e] = Nobody \/ (state[e] # Nobody /\ state[e].start = x)
  <2>1. PICK c \in Cli : serviceLock[e] = c /\ command[c].pc \in {"record", "await"} /\ command[c].spawn = x
    BY <1>1 DEF Started
  <2>2. command[c].env = e
    BY <2>1 DEF Locks
  <2> QED BY <2>1, <2>2 DEF Starts
<1> QED BY <1>1 DEF Named

\* What a command does elsewhere: its state file, its lock and its starts are
\* those of its environment.
LEMMA OthersKnown ==
    ASSUME TypeOK, Locks, NEW c \in Cli, NEW e \in Env, e # command[c].env, NEW w,
           \A d \in Cli \ {c} : command'[d] = command[d],
           state'[e] = state[e],
           serviceLock'[e] = serviceLock[e] \/ (serviceLock[e] = c /\ serviceLock'[e] = Nobody),
           Named(e, w) \/ Started(e, w)
    PROVE  (Named(e, w) \/ Started(e, w))'
<1>1. serviceLock[e] # c
  BY DEF Locks
<1> QED BY <1>1 DEF Named, Started

\* The same where a command that is not about to start a worker goes on.
LEMMA StaysKnown ==
    ASSUME TypeOK, Locks, NEW c \in Cli, NEW e \in Env, NEW w,
           \A d \in Cli \ {c} : command'[d] = command[d],
           command[c].pc \notin {"record", "await"},
           state'[e] = state[e],
           serviceLock'[e] = serviceLock[e] \/ serviceLock[e] = c \/ serviceLock[e] = Nobody,
           Named(e, w) \/ Started(e, w)
    PROVE  (Named(e, w) \/ Started(e, w))'
<1>1. CASE Named(e, w)
  BY <1>1 DEF Named
<1>2. CASE Started(e, w)
  <2>1. PICK d \in Cli : serviceLock[e] = d /\ command[d].pc \in {"record", "await"} /\ command[d].spawn = w
    BY <1>2 DEF Started
  <2>2. d # c /\ d # Nobody
    BY <2>1, BackgroundAssumption
  <2> QED BY <2>1, <2>2 DEF Started
<1> QED BY <1>1, <1>2

\* No step loses a worker.
LEMMA KnownStep ==
    ASSUME IInv, Next, StatesAreOfWorkers'
    PROVE  Known'
<1> USE DEF IInv
<1>0. /\ WorkersStay /\ command \in [Cli -> Commands]
      /\ state \in [Env -> [pid : Pid, start : Spawn] \cup {Nobody}] /\ serviceLock \in [Env -> Cli \cup {Nobody}]
  BY StepWorkers DEF TypeOK
<1> DEFINE Goal == \A e \in Env, w \in DOMAIN worker' :
                      worker'[w].env = e /\ worker'[w].pc # "dead" => (Named(e, w) \/ Started(e, w))'
<1>1. ASSUME count'.crashes = 0 => Goal
      PROVE  Known'
  <2>1. StatesAreOfWorkers' => (Known' <=> KnownPlainly')
    BY KnownMeans, PTL
  <2> QED BY <1>1, <2>1 DEF KnownPlainly
<1>2. ASSUME count.crashes = 0, NEW e \in Env, NEW w \in DOMAIN worker, worker'[w].env = e, worker'[w].pc # "dead"
      PROVE  (Named(e, w) \/ Started(e, w)) /\ worker[w].env = e /\ worker[w].pc # "dead"
  <2>1. worker[w].env = e /\ worker[w].pc # "dead"
    BY <1>0, <1>2 DEF WorkersStay
  <2> QED BY <1>2, <2>1, KnownMeans DEF KnownPlainly
<1>3. ASSUME NEW c \in Cli, CliStep(c), count.crashes = 0 PROVE Goal
  <2>1. PICK f \in Env : f = command[c].env
    BY <1>0 DEF Commands
  <2>2. \A d \in Cli \ {c} : command'[d] = command[d]
    BY <1>3, CommandSteps, GotoMoves DEF Moves, Finish
  <2>3. \A e \in Env : \/ serviceLock'[e] = serviceLock[e]
                       \/ serviceLock[e] = c /\ serviceLock'[e] = Nobody
                       \/ e = f /\ serviceLock[e] = Nobody
    <3>1. ASSUME NEW outcome, Finish(c, outcome)
          PROVE  \A e \in Env : serviceLock'[e] = serviceLock[e] \/ (serviceLock[e] = c /\ serviceLock'[e] = Nobody)
      BY <3>1 DEF Finish, Release
    <3> QED BY <1>0, <1>3, <2>1, <3>1, CommandSteps
  <2>4. \A e \in Env \ {f} : state'[e] = state[e]
    <3>1. CASE Forget(c) \/ Record(c) \/ StartFails(c)
      BY <1>0, <2>1, <3>1 DEF Forget, Record, StartFails
    <3>2. CASE LockInitialization(c) \/ WriteConfig(c) \/ SetUpstream(c) \/ Decide(c) \/ LockService(c) \/ ReadConfig(c)
      BY <3>2 DEF LockInitialization, WriteConfig, SetUpstream, Decide, LockService, ReadConfig
    <3>3. CASE StopRecorded(c) \/ EnsureAvailable(c) \/ SpawnFails(c) \/ SpawnWorker(c) \/ Ready(c)
      BY <3>3 DEF StopRecorded, EnsureAvailable, SpawnFails, SpawnWorker, Ready
    <3> QED BY <1>3, <3>1, <3>2, <3>3 DEF CliStep
  <2>5. \A e \in Env \ {f}, w \in DOMAIN worker :
           worker'[w].env = e /\ worker'[w].pc # "dead" => (Named(e, w) \/ Started(e, w))'
    <3> SUFFICES ASSUME NEW e \in Env \ {f}, NEW w \in DOMAIN worker, worker'[w].env = e, worker'[w].pc # "dead"
                 PROVE  (Named(e, w) \/ Started(e, w))'
      OBVIOUS
    <3>1. Named(e, w) \/ Started(e, w)
      BY <1>2, <1>3
    <3>2. serviceLock'[e] = serviceLock[e] \/ (serviceLock[e] = c /\ serviceLock'[e] = Nobody)
      BY <2>3
    <3> QED BY <2>1, <2>2, <2>4, <3>1, <3>2, OthersKnown
  <2>6. ASSUME DOMAIN worker' = DOMAIN worker,
               \A w \in DOMAIN worker :
                  worker'[w].env = f /\ worker'[w].pc # "dead" => (Named(f, w) \/ Started(f, w))'
        PROVE  Goal
    BY <2>5, <2>6
  <2>7. ASSUME command[c].pc \notin {"record", "await"}, DOMAIN worker' = DOMAIN worker, UNCHANGED state
        PROVE  Goal
    <3> SUFFICES ASSUME NEW w \in DOMAIN worker, worker'[w].env = f, worker'[w].pc # "dead"
                 PROVE  (Named(f, w) \/ Started(f, w))'
      BY <2>6, <2>7
    <3>1. Named(f, w) \/ Started(f, w)
      BY <1>2, <1>3, <2>1
    <3>2. serviceLock'[f] = serviceLock[f] \/ serviceLock[f] = c \/ serviceLock[f] = Nobody
      BY <2>1, <2>3
    <3> QED BY <2>1, <2>2, <2>7, <3>1, <3>2, StaysKnown
  <2>8. CASE LockInitialization(c) \/ WriteConfig(c) \/ SetUpstream(c) \/ Decide(c) \/ LockService(c) \/ ReadConfig(c)
    BY <2>7, <2>8 DEF LockInitialization, WriteConfig, SetUpstream, Decide, LockService, ReadConfig
  <2>9. CASE EnsureAvailable(c) \/ SpawnFails(c)
    BY <2>7, <2>9 DEF EnsureAvailable, SpawnFails
  <2>10. CASE StopRecorded(c)
    BY <2>7, <2>10, KillType DEF StopRecorded
  <2>11. CASE Forget(c)
    <3> SUFFICES ASSUME NEW w \in DOMAIN worker, worker'[w].env = f, worker'[w].pc # "dead"
                 PROVE  FALSE
      BY <2>6, <2>11 DEF Forget
    <3>1. (Named(f, w) \/ Started(f, w)) /\ worker[w].env = f /\ worker[w].pc # "dead"
      BY <1>2, <1>3, <2>1
    <3>2. ~Started(f, w)
      BY <2>1, <2>11 DEF Forget, Started, Locks, InService
    <3>3. w \in Matches(f)
      BY <2>1, <3>1, <3>2 DEF Named, Matches, Alive, StatesAreOfWorkers
    <3> QED BY <2>1, <2>11, <3>3 DEF Forget
  <2>12. CASE SpawnWorker(c)
    <3>1. PICK v \in Spawn, pid \in Pid :
             /\ DOMAIN worker' = DOMAIN worker \cup {v}
             /\ worker'[v] = NewWorker(f, pid)
             /\ command' = [command EXCEPT ![c].pc = "record", ![c].spawn = v]
      BY <2>1, <2>12, SpawnType
    <3>2. command'[c].pc = "record" /\ command'[c].spawn = v
      BY <1>0, <3>1 DEF Commands
    <3>3. serviceLock'[f] = c /\ state[f] = Nobody
      BY <2>1, <2>12 DEF SpawnWorker, Locks, InService, Starts
    <3>4. Started(f, v)'
      BY <3>2, <3>3 DEF Started
    <3>5. ASSUME NEW w \in DOMAIN worker, worker'[w].env = f, worker'[w].pc # "dead" PROVE FALSE
      <4>1. Started(f, w)
        BY <1>2, <1>3, <2>1, <3>3, <3>5 DEF Named
      <4> QED BY <2>12, <3>3, <4>1 DEF Started, SpawnWorker
    <3>6. \A w \in DOMAIN worker' : worker'[w].env = f /\ worker'[w].pc # "dead" => w = v
      BY <3>1, <3>5
    <3>7. worker'[v].env = f
      BY <3>1 DEF NewWorker
    <3> QED BY <2>5, <3>1, <3>4, <3>6, <3>7
  <2>13. CASE Record(c)
    <3> SUFFICES ASSUME NEW w \in DOMAIN worker, worker'[w].env = f, worker'[w].pc # "dead"
                 PROVE  (Named(f, w) \/ Started(f, w))'
      BY <2>6, <2>13 DEF Record
    <3>1. serviceLock[f] = c /\ state[f] = Nobody
      BY <2>1, <2>13 DEF Record, Locks, InService, Starts
    <3>2. Started(f, w)
      BY <1>2, <1>3, <2>1, <3>1 DEF Named
    <3>3. command[c].spawn = w
      BY <3>1, <3>2 DEF Started
    <3>4. serviceLock'[f] = c /\ Moves(c, "await") /\ command'[c].spawn = w
      BY <2>13, <3>1, <3>3, GotoMoves DEF Record
    <3> QED BY <3>4 DEF Started, Moves
  <2>14. CASE Ready(c)
    <3> SUFFICES ASSUME NEW w \in DOMAIN worker, worker'[w].env = f, worker'[w].pc # "dead"
                 PROVE  Named(f, w)'
      BY <2>6, <2>14 DEF Ready
    <3>1. serviceLock[f] = c /\ Named(f, command[c].spawn)
      BY <2>1, <2>14 DEF Ready, Locks, InService, Starts, Named
    <3>2. Named(f, w) \/ Started(f, w)
      BY <1>2, <1>3, <2>1
    <3>3. Named(f, w)
      BY <3>1, <3>2 DEF Started
    <3> QED BY <2>14, <3>3 DEF Ready, Named
  <2>15. CASE StartFails(c)
    <3>0. DOMAIN worker' = DOMAIN worker /\ Kill({command[c].spawn})
      BY <2>15, KillType DEF StartFails
    <3> SUFFICES ASSUME NEW w \in DOMAIN worker, worker'[w].env = f, worker'[w].pc # "dead"
                 PROVE  FALSE
      BY <2>6, <3>0
    <3>1. serviceLock[f] = c /\ Started(f, command[c].spawn)
      BY <2>1, <2>15 DEF StartFails, Locks, InService, Started
    <3>2. Named(f, w) \/ Started(f, w)
      BY <1>2, <1>3, <2>1
    <3>3. w = command[c].spawn
      BY <2>1, <3>1, <3>2, KnownIsOne
    <3>4. worker'[w] = [worker[w] EXCEPT !.pc = "dead"]
      BY <3>0, <3>3, KillType
    <3>5. worker[w] \in Worker
      BY DEF TypeOK
    <3> QED BY <3>4, <3>5 DEF Worker
  <2> HIDE DEF Goal
  <2> QED BY <1>3, <2>8, <2>9, <2>10, <2>11, <2>12, <2>13, <2>14, <2>15 DEF CliStep
<1>4. ASSUME UNCHANGED <<command, state, serviceLock>>, DOMAIN worker' = DOMAIN worker, count.crashes = 0 PROVE Goal
  <2> SUFFICES ASSUME NEW e \in Env, NEW w \in DOMAIN worker, worker'[w].env = e, worker'[w].pc # "dead"
               PROVE  (Named(e, w) \/ Started(e, w))'
    BY <1>4
  <2>1. Named(e, w) \/ Started(e, w)
    BY <1>2, <1>4
  <2> QED BY <1>4, <2>1 DEF Named, Started
<1>5. ASSUME NEW c \in Cli, UNCHANGED <<state, worker>>, \A d \in Cli \ {c} : command'[d] = command[d],
             command[c].pc \notin {"record", "await"},
             \A e \in Env : serviceLock'[e] = serviceLock[e] \/ serviceLock[e] = c, count.crashes = 0
      PROVE  Goal
  <2> SUFFICES ASSUME NEW e \in Env, NEW w \in DOMAIN worker, worker'[w].env = e, worker'[w].pc # "dead"
               PROVE  (Named(e, w) \/ Started(e, w))'
    BY <1>5
  <2>1. Named(e, w) \/ Started(e, w)
    BY <1>2, <1>5
  <2> QED BY <1>5, <2>1, StaysKnown
<1> HIDE DEF Goal
<1>6. count \in [commands : 0 .. MaxCommands, claims : 0 .. MaxClaims, crashes : 0 .. MaxCrashes]
  BY DEF TypeOK
<1>7. ASSUME NEW c \in Cli, CliStep(c) PROVE Known'
  <2>1. UNCHANGED count
    <3>1. CASE LockInitialization(c) \/ WriteConfig(c) \/ SetUpstream(c) \/ Decide(c) \/ LockService(c) \/ ReadConfig(c)
      BY <3>1 DEF LockInitialization, WriteConfig, SetUpstream, Decide, LockService, ReadConfig
    <3>2. CASE StopRecorded(c) \/ Forget(c) \/ EnsureAvailable(c) \/ SpawnFails(c) \/ SpawnWorker(c) \/ Record(c) \/ Ready(c) \/ StartFails(c)
      BY <3>2 DEF StopRecorded, Forget, EnsureAvailable, SpawnFails, SpawnWorker, Record, Ready, StartFails
    <3> QED BY <1>7, <3>1, <3>2 DEF CliStep
  <2> QED BY <1>3, <1>7, <2>1, <1>1
<1>8. ASSUME NEW c \in Cli, NEW kind \in Kinds, NEW e \in Env, NEW key \in Key, Begin(c, kind, e, key) PROVE Known'
  <2>1. /\ UNCHANGED <<state, worker, serviceLock>> /\ \A d \in Cli \ {c} : command'[d] = command[d]
        /\ command[c].pc \notin {"record", "await"} /\ count'.crashes = count.crashes
    BY <1>0, <1>6, <1>8 DEF Begin, Ended
  <2> QED BY <1>5, <2>1, <1>1
<1>9. ASSUME NEW c \in Cli, Interrupt(c) PROVE Known'
  <2>1. PICK pc : Goto(c, pc) /\ Release(c)
    BY <1>9 DEF Interrupt, Finish
  <2>2. /\ UNCHANGED <<state, worker, count>> /\ command[c].pc \notin {"record", "await"}
        /\ \A d \in Cli \ {c} : command'[d] = command[d]
        /\ \A e \in Env : serviceLock'[e] = serviceLock[e] \/ serviceLock[e] = c
    BY <1>9, <2>1, GotoMoves DEF Interrupt, Moves, Release
  <2> QED BY <1>5, <2>2, <1>1
<1>10. ASSUME NEW c \in Cli, CliCrash(c) PROVE Known'
  <2>1. count'.crashes # 0
    BY <1>6, <1>10, BackgroundAssumption DEF CliCrash
  <2> QED BY <2>1 DEF Known
<1>11. ASSUME NEW w \in DOMAIN worker, WorkerReads(w) \/ WorkerBinds(w) \/ WorkerDies(w) PROVE Known'
  <2>1. UNCHANGED <<command, state, serviceLock, count>> /\ DOMAIN worker' = DOMAIN worker
    BY <1>11, WorkerType, Zenon DEF WorkerReads, WorkerBinds, WorkerDies
  <2> QED BY <1>4, <2>1, <1>1
<1>12. ASSUME NEW port \in Port, Claim(port) \/ Leave(port) PROVE Known'
  <2>1. UNCHANGED <<command, state, serviceLock, worker>> /\ count'.crashes = count.crashes
    BY <1>6, <1>12 DEF Claim, Leave
  <2> QED BY <1>4, <2>1, <1>1
<1> QED BY <1>7, <1>8, <1>9, <1>10, <1>11, <1>12 DEF Next

(***************************************************************************)
(* The inductive invariant and the theorems.                               *)
(***************************************************************************)
\* The invariant holds at first, and every step keeps it.
LEMMA InitIInv == Init => IInv
<1> SUFFICES ASSUME Init PROVE IInv
  OBVIOUS
<1>1. NoCommand \in Commands /\ NoCommand.pc = "idle"
  <2>1. (CHOOSE f \in Env : TRUE) \in Env /\ (CHOOSE k \in Key : TRUE) \in Key
    BY BackgroundAssumption
  <2> QED BY <2>1, BackgroundAssumption DEF NoCommand, Commands, Ended
<1>2. \A c \in Cli : command[c] = NoCommand
  BY DEF Init
<1>3. DOMAIN worker = {} /\ \A e \in Env : serviceLock[e] = Nobody /\ state[e] = Nobody /\ config[e] = NoConfig
  BY DEF Init
<1>4. TypeOK
  <2>1. command \in [Cli -> Commands]
    BY <1>1 DEF Init
  <2>2. worker \in [1 .. 0 -> Worker] /\ 0 \in 0 .. MaxSpawns
    <3>1. worker = [w \in {} |-> NoCommand] /\ 1 .. 0 = {}
      BY DEF Init
    <3> QED BY <3>1, BackgroundAssumption
  <2>3. count \in [commands : 0 .. MaxCommands, claims : 0 .. MaxClaims, crashes : 0 .. MaxCrashes]
    BY BackgroundAssumption DEF Init
  <2>4. /\ config \in [Env -> Config \cup {NoConfig}] /\ initLock \in Cli \cup {Nobody}
        /\ serviceLock \in [Env -> Cli \cup {Nobody}]
        /\ state \in [Env -> [pid : Pid, start : Spawn] \cup {Nobody}] /\ foreign \subseteq Port
    BY DEF Init
  <2> QED BY <2>1, <2>2, <2>3, <2>4 DEF TypeOK
<1>5. Locks
  BY <1>1, <1>2, <1>3, BackgroundAssumption DEF Locks, InService, InInitialization
<1>6. Starts /\ Refreshes
  BY <1>1, <1>2 DEF Starts, Refreshes
<1>7. StatesAreOfWorkers /\ DistinctListeners
  BY <1>3 DEF StatesAreOfWorkers, DistinctListeners
<1>8. Known
  BY <1>3 DEF Known, Workers
<1> QED BY <1>4, <1>5, <1>6, <1>7, <1>8 DEF IInv

\* Every step keeps the invariant.
LEMMA NextIInv == IInv /\ [Next]_vars => IInv'
<1> SUFFICES ASSUME IInv, [Next]_vars PROVE IInv'
  OBVIOUS
<1>1. CASE Next
  <2>1. TypeOK' /\ Locks' /\ StatesAreOfWorkers' /\ Starts' /\ Refreshes' /\ DistinctListeners'
    BY <1>1, TypeStep, LocksStep, StatesStep, StartsStep, RefreshesStep, DistinctStep DEF IInv
  <2>2. Known'
    BY <1>1, <2>1, KnownStep
  <2> QED BY <2>1, <2>2 DEF IInv
<1>2. CASE UNCHANGED vars
  <2> USE <1>2 DEF vars
  <2>1. TypeOK' /\ Locks' /\ StatesAreOfWorkers'
    BY DEF IInv, TypeOK, Locks, StatesAreOfWorkers
  <2>2. Starts' /\ Refreshes' /\ DistinctListeners'
    BY DEF IInv, Starts, Refreshes, DistinctListeners
  <2>3. Known'
    BY DEF IInv, Known, Workers, Matches, Starting, Alive
  <2> QED BY <2>1, <2>2, <2>3 DEF IInv
<1> QED BY <1>1, <1>2

\* What the invariant says of the workers of an environment.
LEMMA IInvKnows == IInv => WorkersAreKnown
<1> SUFFICES ASSUME IInv, count.crashes = 0, NEW e \in Env
             PROVE  Cardinality(Workers(e)) <= 1
  BY DEF WorkersAreKnown, NoOrphans, IInv, Known
<1>1. \A w, v \in Workers(e) : w = v
  <2> SUFFICES ASSUME NEW w \in Workers(e), NEW v \in Workers(e) PROVE w = v
    OBVIOUS
  <2>1. /\ w \in DOMAIN worker /\ worker[w].env = e /\ worker[w].pc # "dead"
        /\ v \in DOMAIN worker /\ worker[v].env = e /\ worker[v].pc # "dead"
    BY DEF Workers, Alive
  <2>2. KnownPlainly
    BY KnownMeans DEF IInv
  <2> QED BY <2>1, <2>2, KnownIsOne DEF IInv, KnownPlainly
<1>2. CASE Workers(e) = {}
  BY <1>2, FS_EmptySet
<1>3. ASSUME NEW w \in Workers(e) PROVE Cardinality(Workers(e)) <= 1
  <2>1. Workers(e) = {w}
    BY <1>1, <1>3
  <2>2. Cardinality({w}) = 1
    BY FS_Singleton
  <2> QED BY <2>1, <2>2
<1> QED BY <1>2, <1>3

\* A command's step ends a worker: it is the one that its environment's state
\* file names, or the one that it started.
LEMMA EndsItsOwn == IInv /\ Next => EndsOnlyItsOwn
<1> SUFFICES ASSUME IInv, Next, NEW c \in Cli, NEW w \in DOMAIN worker,
                    command'[c].pc # command[c].pc, worker[w].pc # "dead", worker'[w].pc = "dead"
             PROVE  worker[w].env = command[c].env
  BY DEF EndsOnlyItsOwn, Alive
<1>1. TypeOK /\ command[c].env \in Env
  BY DEF IInv, TypeOK, Commands
<1>2. ASSUME NEW d \in Cli, CliStep(d) PROVE worker[w].env = command[c].env
  <2>1. d = c
    BY <1>1, <1>2, CommandSteps, GotoMoves DEF Moves, Finish
  <2>2. CASE LockInitialization(c) \/ WriteConfig(c) \/ SetUpstream(c) \/ Decide(c) \/ LockService(c) \/ ReadConfig(c)
    BY <2>2 DEF LockInitialization, WriteConfig, SetUpstream, Decide, LockService, ReadConfig
  <2>3. CASE Forget(c) \/ EnsureAvailable(c) \/ SpawnFails(c) \/ Record(c) \/ Ready(c)
    BY <2>3 DEF Forget, EnsureAvailable, SpawnFails, Record, Ready
  <2>4. CASE SpawnWorker(c)
    BY <1>1, <2>4, SpawnType
  <2>5. CASE StopRecorded(c)
    <3>1. w \in Matches(command[c].env)
      BY <1>1, <2>5, KillType DEF StopRecorded
    <3> QED BY <1>1, <3>1 DEF Matches, IInv, StatesAreOfWorkers
  <2>6. CASE StartFails(c)
    <3>0. Kill({command[c].spawn})
      BY <2>6 DEF StartFails
    <3>1. w = command[c].spawn
      <4>1. worker'[w] = IF w \in {command[c].spawn} THEN [worker[w] EXCEPT !.pc = "dead"] ELSE worker[w]
        BY <1>1, <3>0, KillType
      <4> QED BY <4>1
    <3> QED BY <2>6, <3>1 DEF StartFails, IInv, Starts
  <2> QED BY <1>2, <2>1, <2>2, <2>3, <2>4, <2>5, <2>6 DEF CliStep
<1>3. ASSUME NEW d \in Cli, (\E kind \in Kinds, e \in Env, key \in Key : Begin(d, kind, e, key)) \/ Interrupt(d) \/ CliCrash(d)
      PROVE  FALSE
  BY <1>3, Zenon DEF Begin, Interrupt, CliCrash
<1>4. ASSUME NEW v \in DOMAIN worker, WorkerReads(v) \/ WorkerBinds(v) \/ WorkerDies(v) PROVE FALSE
  BY <1>4 DEF WorkerReads, WorkerBinds, WorkerDies
<1>5. ASSUME NEW port \in Port, Claim(port) \/ Leave(port) PROVE FALSE
  BY <1>5 DEF Claim, Leave
<1> QED BY <1>2, <1>3, <1>4, <1>5 DEF Next

\* Only an init whose worker listens reports that it started the service.
LEMMA StartedIsReady ==
    ASSUME TypeOK, Next, NEW c \in Cli, Reaches(c, "started")
    PROVE  Ready(c) /\ command'[c].spawn = command[c].spawn /\ command'[c].env = command[c].env
<1>0. command \in [Cli -> Commands]
  BY DEF TypeOK
<1>1. ASSUME NEW pc, Goto(c, pc), pc # "started" PROVE FALSE
  BY <1>1, GotoMoves DEF Moves, Reaches
<1>2. ASSUME NEW d \in Cli, CliStep(d) PROVE Ready(c)
  <2>1. d = c
    BY <1>2, CommandSteps, GotoMoves DEF Moves, Finish, Reaches
  <2>2. CASE LockInitialization(c) \/ LockService(c) \/ Decide(c) \/ StopRecorded(c)
    BY <1>1, <2>2 DEF LockInitialization, LockService, Decide, StopRecorded, Finish
  <2>3. CASE SetUpstream(c) \/ SpawnFails(c) \/ StartFails(c) \/ Forget(c) \/ EnsureAvailable(c) \/ Record(c)
    BY <1>1, <2>3 DEF SetUpstream, SpawnFails, StartFails, Forget, EnsureAvailable, Record, Finish
  <2>4. CASE WriteConfig(c) \/ ReadConfig(c) \/ SpawnWorker(c)
    <3>1. \/ Goto(c, "failed")
          \/ \E x : command' = [command EXCEPT ![c].pc = "written", ![c].changed = x]
          \/ \E x : command' = [command EXCEPT ![c].pc = "stop", ![c].cfg = x]
          \/ \E x : command' = [command EXCEPT ![c].pc = "record", ![c].spawn = x]
      BY <2>4 DEF WriteConfig, ReadConfig, SpawnWorker, Finish
    <3>2. ASSUME NEW x, command' = [command EXCEPT ![c].pc = "written", ![c].changed = x] PROVE command'[c].pc = "written"
      BY <1>0, <3>2 DEF Commands
    <3>3. ASSUME NEW x, command' = [command EXCEPT ![c].pc = "stop", ![c].cfg = x] PROVE command'[c].pc = "stop"
      BY <1>0, <3>3 DEF Commands
    <3>4. ASSUME NEW x, command' = [command EXCEPT ![c].pc = "record", ![c].spawn = x] PROVE command'[c].pc = "record"
      BY <1>0, <3>4 DEF Commands
    <3> QED BY <1>1, <3>1, <3>2, <3>3, <3>4 DEF Reaches
  <2> QED BY <1>2, <2>1, <2>2, <2>3, <2>4 DEF CliStep
<1>3. ASSUME NEW d \in Cli, NEW kind \in Kinds, NEW e \in Env, NEW key \in Key, Begin(d, kind, e, key) PROVE FALSE
  <2>1. command'[d].pc \in {"initLock", "serviceLock"} /\ \A b \in Cli \ {d} : command'[b] = command[b]
    BY <1>0, <1>3 DEF Begin, NoCommand
  <2> QED BY <2>1 DEF Reaches
<1>4. ASSUME NEW d \in Cli, Interrupt(d) \/ CliCrash(d) PROVE FALSE
  <2>1. PICK pc \in {"failed", "skipped", "idle"} : Goto(d, pc)
    BY <1>4 DEF Interrupt, CliCrash, Finish
  <2> QED BY <2>1, GotoMoves DEF Moves, Reaches
<1>5. ASSUME UNCHANGED command PROVE FALSE
  BY <1>5 DEF Reaches
<1>6. ASSUME NEW w \in DOMAIN worker, WorkerReads(w) \/ WorkerBinds(w) \/ WorkerDies(w) PROVE FALSE
  BY <1>5, <1>6 DEF WorkerReads, WorkerBinds, WorkerDies
<1>7. ASSUME NEW port \in Port, Claim(port) \/ Leave(port) PROVE FALSE
  BY <1>5, <1>7 DEF Claim, Leave
<1>8. Ready(c)
  BY <1>2, <1>3, <1>4, <1>6, <1>7 DEF Next
<1> QED BY <1>8, GotoMoves DEF Ready, Finish, Moves

\* What an init reports when its worker is ready.
LEMMA RefreshesFile == IInv /\ Next => RefreshesToTheFile
<1> SUFFICES ASSUME IInv, Next, NEW c \in Cli, command[c].kind = "init", Reaches(c, "started")
             PROVE  LET w == command[c].spawn
                    IN  worker'[w].pc = "listening" /\ worker'[w].conf = config'[command[c].env]
  BY DEF RefreshesToTheFile
<1>1. Ready(c)
  BY StartedIsReady DEF IInv
<1>2. worker[command[c].spawn].pc = "listening" /\ command[c].pc = "await" /\ UNCHANGED <<config, worker>>
  BY <1>1 DEF Ready, Listener
<1> QED BY <1>2 DEF IInv, Refreshes

\* Every variable keeps its type.
THEOREM TypeCorrect == Spec => []TypeOK
<1>1. IInv => TypeOK
  BY DEF IInv
<1> QED BY <1>1, InitIInv, NextIInv, PTL DEF Spec

\* However many commands run, are killed or fail at any step, two environments
\* never share an address, and as long as none is killed every worker is the
\* one that its environment's state file names or that a command is starting
\* under the service lock (select_local_proxy_listen,
\* start_linux_background_proxy_at, stop_linux_background_proxy_at).
THEOREM WorkersStayKnown == Spec => []WorkersAreKnown
<1> QED BY InitIInv, NextIInv, IInvKnows, PTL DEF Spec

\* No command ends a process of another environment, whatever has a pid that a
\* state file still names, and an init reports a start only when the worker
\* it spawned serves the configuration that is in the file.
THEOREM CommandsTouchOnlyTheirOwn == Spec => CommandsKeepToTheirOwn
<1>1. IInv /\ [Next]_vars => [EndsOnlyItsOwn /\ RefreshesToTheFile]_vars
  BY EndsItsOwn, RefreshesFile
<1> QED BY <1>1, InitIInv, NextIInv, PTL DEF Spec, CommandsKeepToTheirOwn
-----------------------------------------------------------------------------
(* What an init that leaves the service running says of it *)

\* An init that is about to replace the worker of an environment.
IsDue(c, e) ==
    /\ command[c].env = e /\ command[c].kind = "init"
    /\ \/ command[c].pc = "written" /\ command[c].changed
       \/ command[c].pc \in {"serviceLock", "read", "stop"}
\* The workers of an environment have read its configuration, or will.
Served(e) == \A w \in Workers(e) : worker[w].conf \in {Unread, config[e]}
LeftKinds ==
    \A c \in Cli : /\ command[c].kind # "upstream"
                   /\ command[c].pc = "written" => command[c].kind = "init"
Configured ==
    \A c \in Cli : command[c].kind = "init" /\ command[c].pc \in {"written", "serviceLock", "read"}
                      => config[command[c].env] # NoConfig
LeftInv == LeftKinds /\ Configured /\ \A e \in Env : Served(e) \/ \E c \in Cli : IsDue(c, e)

\* The places that an init goes through between its write and the end of the
\* worker that runs.
LEMMA InitPlaces ==
    ASSUME TypeOK, NEW c \in Cli, CliStep(c)
    PROVE  \E pc :
              /\ Moves(c, pc)
              /\ pc = "written" => WriteConfig(c) /\ command[c].kind = "init"
              /\ pc = "serviceLock" => command[c].pc = "written"
              /\ pc = "left" => command[c].pc = "written" /\ ~command[c].changed
              /\ pc = "read" => command[c].pc = "serviceLock"
              /\ command[c].pc = "written" => pc = "serviceLock" \/ (pc = "left" /\ ~command[c].changed)
              /\ command[c].pc = "serviceLock" => pc = "read" \/ command[c].kind = "stop"
              /\ command[c].pc = "read" => pc = "stop" \/ config[command[c].env] = NoConfig
              /\ command[c].pc = "stop" => StopRecorded(c)
<1>0. command \in [Cli -> Commands]
  BY DEF TypeOK
<1>1. CASE LockInitialization(c)
  BY <1>1, GotoMoves DEF LockInitialization
<1>2. CASE WriteConfig(c)
  <2>1. CASE Goto(c, "failed")
    BY <1>2, <2>1, GotoMoves DEF WriteConfig
  <2>2. ASSUME NEW x, command' = [command EXCEPT ![c].pc = "written", ![c].changed = x] PROVE Moves(c, "written")
    <3>1. LET moved == [[command[c] EXCEPT !.pc = "written"] EXCEPT !.changed = x]
          IN  moved.pc = "written" /\ moved.env = command[c].env /\ moved.kind = command[c].kind
      BY <1>0 DEF Commands
    <3> QED BY <1>0, <2>2, <3>1 DEF Moves
  <2>3. Goto(c, "failed") \/ \E x : command' = [command EXCEPT ![c].pc = "written", ![c].changed = x]
    BY <1>2 DEF WriteConfig, Finish
  <2>4. command[c].pc = "configure" /\ command[c].kind = "init"
    BY <1>2 DEF WriteConfig
  <2> QED BY <1>2, <2>1, <2>2, <2>3, <2>4
<1>3. CASE SetUpstream(c)
  BY <1>3, GotoMoves DEF SetUpstream, Finish
<1>4. CASE Decide(c)
  BY <1>4, GotoMoves DEF Decide, Finish, RefreshNeeded
<1>5. CASE LockService(c)
  BY <1>5, GotoMoves DEF LockService
<1>6. CASE ReadConfig(c)
  <2>1. ASSUME NEW x, command' = [command EXCEPT ![c].pc = "stop", ![c].cfg = x] PROVE Moves(c, "stop")
    <3>1. LET moved == [[command[c] EXCEPT !.pc = "stop"] EXCEPT !.cfg = x]
          IN  moved.pc = "stop" /\ moved.env = command[c].env /\ moved.kind = command[c].kind
      BY <1>0 DEF Commands
    <3> QED BY <1>0, <2>1, <3>1 DEF Moves
  <2>2. \/ config[command[c].env] = NoConfig /\ Goto(c, "failed")
        \/ command' = [command EXCEPT ![c].pc = "stop", ![c].cfg = config[command[c].env]]
    BY <1>6 DEF ReadConfig, Finish
  <2>3. command[c].pc = "read"
    BY <1>6 DEF ReadConfig
  <2> QED BY <2>1, <2>2, <2>3, GotoMoves
<1>7. CASE StopRecorded(c)
  BY <1>7, GotoMoves DEF StopRecorded
<1>8. CASE Forget(c) \/ EnsureAvailable(c)
  BY <1>8, GotoMoves DEF Forget, EnsureAvailable, Finish
<1>9. CASE SpawnFails(c) \/ Record(c) \/ Ready(c) \/ StartFails(c)
  BY <1>9, GotoMoves DEF SpawnFails, Record, Ready, StartFails, Finish
<1>10. CASE SpawnWorker(c)
  <2>1. PICK w : command' = [command EXCEPT ![c].pc = "record", ![c].spawn = w]
    BY <1>10 DEF SpawnWorker
  <2>2. LET moved == [[command[c] EXCEPT !.pc = "record"] EXCEPT !.spawn = w]
        IN  moved.pc = "record" /\ moved.env = command[c].env /\ moved.kind = command[c].kind
    BY <1>0 DEF Commands
  <2>3. Moves(c, "record") /\ command[c].pc = "spawn"
    BY <1>0, <1>10, <2>1, <2>2 DEF Moves, SpawnWorker
  <2> QED BY <2>3
<1> QED BY <1>1, <1>2, <1>3, <1>4, <1>5, <1>6, <1>7, <1>8, <1>9, <1>10 DEF CliStep

\* Nothing else moves a command that is under way, if none is interrupted.
LEMMA OnlyItsSteps ==
    ASSUME TypeOK, Next, ~Interrupted, MaxCrashes = 0, NEW c \in Cli
    PROVE  \/ command'[c] = command[c]
           \/ CliStep(c)
           \/ /\ command[c].pc \in Ended /\ command'[c].pc \in {"initLock", "serviceLock"}
              /\ command'[c].kind \in Kinds
              /\ command'[c].kind = "init" => command'[c].pc = "initLock"
<1> DEFINE Begun == /\ command[c].pc \in Ended /\ command'[c].pc \in {"initLock", "serviceLock"}
                    /\ command'[c].kind \in Kinds
                    /\ command'[c].kind = "init" => command'[c].pc = "initLock"
<1>0. command \in [Cli -> Commands]
  BY DEF TypeOK
<1>1. ASSUME NEW d \in Cli, CliStep(d) PROVE command'[c] = command[c] \/ CliStep(c)
  BY <1>1, InitPlaces DEF Moves
<1>2. ASSUME NEW d \in Cli, NEW kind \in Kinds, NEW e \in Env, NEW key \in Key, Begin(d, kind, e, key)
      PROVE  command'[c] = command[c] \/ Begun
  <2>1. command' = [command EXCEPT ![d] =
           [NoCommand EXCEPT !.kind = kind, !.env = e, !.key = key,
                             !.pc = IF kind \in {"init", "upstream"} THEN "initLock" ELSE "serviceLock"]]
        /\ command[d].pc \in Ended
    BY <1>2 DEF Begin
  <2>2. command'[d].pc \in {"initLock", "serviceLock"} /\ command'[d].kind = kind
        /\ (kind = "init" => command'[d].pc = "initLock")
    BY <1>0, <2>1 DEF NoCommand
  <2> QED BY <1>0, <2>1, <2>2
<1>3. ASSUME NEW d \in Cli, Interrupt(d) \/ CliCrash(d) PROVE FALSE
  <2>1. count.crashes \in 0 .. 0
    BY DEF TypeOK
  <2> QED BY <1>3, <2>1 DEF Interrupt, CliCrash
<1>4. ASSUME NEW w \in DOMAIN worker, WorkerReads(w) \/ WorkerBinds(w) \/ WorkerDies(w) PROVE UNCHANGED command
  BY <1>4 DEF WorkerReads, WorkerBinds, WorkerDies
<1>5. ASSUME NEW port \in Port, Claim(port) \/ Leave(port) PROVE UNCHANGED command
  BY <1>5 DEF Claim, Leave
<1> HIDE DEF Begun
<1>6. command'[c] = command[c] \/ CliStep(c) \/ Begun
  BY <1>1, <1>2, <1>3, <1>4, <1>5 DEF Next
<1> QED BY <1>6 DEF Begun

\* A worker that lives has read nothing yet, or lived before with what it has
\* read, or read the configuration in this step.
LEMMA LivingWorkers ==
    ASSUME TypeOK, Next, NEW e \in Env, NEW w \in Workers(e)'
    PROVE  \/ worker'[w].conf = Unread
           \/ w \in Workers(e) /\ worker'[w].conf = worker[w].conf
           \/ worker'[w].conf = config[e] /\ UNCHANGED config
<1> DEFINE Goal == \/ worker'[w].conf = Unread
                   \/ w \in Workers(e) /\ worker'[w].conf = worker[w].conf
                   \/ worker'[w].conf = config[e] /\ UNCHANGED config
<1>0. w \in DOMAIN worker' /\ worker'[w].env = e /\ worker'[w].pc # "dead"
  BY DEF Workers, Alive
<1>1. ASSUME w \in DOMAIN worker, worker'[w] = worker[w] PROVE Goal
  BY <1>0, <1>1 DEF Workers, Alive
<1>2. ASSUME NEW c \in Cli, StopRecorded(c) \/ StartFails(c) PROVE Goal
  <2>1. PICK dying : Kill(dying)
    BY <1>2 DEF StopRecorded, StartFails
  <2>2. w \in DOMAIN worker /\ worker'[w] = IF w \in dying THEN [worker[w] EXCEPT !.pc = "dead"] ELSE worker[w]
    BY <1>0, <2>1, KillType
  <2>3. worker[w] \in Worker
    BY <2>2 DEF TypeOK
  <2>4. [worker[w] EXCEPT !.pc = "dead"].pc = "dead"
    BY <2>3 DEF Worker
  <2> QED BY <1>0, <1>1, <2>2, <2>4
<1>3. ASSUME NEW c \in Cli, SpawnWorker(c) PROVE Goal
  <2>1. PICK v \in Spawn, pid \in Pid :
           /\ DOMAIN worker' = DOMAIN worker \cup {v}
           /\ \A x \in DOMAIN worker : worker'[x] = worker[x]
           /\ worker'[v] = NewWorker(command[c].env, pid)
    BY <1>3, SpawnType
  <2>2. worker'[v].conf = Unread
    BY <2>1 DEF NewWorker
  <2> QED BY <1>0, <1>1, <2>1, <2>2
<1>4. ASSUME NEW v \in DOMAIN worker, WorkerReads(v) \/ WorkerBinds(v) \/ WorkerDies(v) PROVE Goal
  <2>0. w \in DOMAIN worker /\ worker[w] \in Worker /\ worker'[w].env = worker[w].env
        /\ (v # w => worker'[w] = worker[w])
    BY <1>0, <1>4, WorkerType DEF TypeOK, WorkersStay
  <2>1. CASE v # w
    BY <1>1, <2>0, <2>1
  <2>2. CASE v = w /\ WorkerReads(v)
    <3>1. worker' = [worker EXCEPT ![w].pc = "booted", ![w].conf = config[worker[w].env]] /\ UNCHANGED config
      BY <2>2 DEF WorkerReads
    <3>2. worker'[w].conf = config[worker[w].env]
      BY <2>0, <3>1 DEF Worker
    <3> QED BY <1>0, <2>0, <3>1, <3>2
  <2>3. CASE v = w /\ WorkerBinds(v)
    <3>1. PICK pc : worker' = [worker EXCEPT ![w].pc = pc] /\ worker[w].pc = "booted"
      BY <2>3 DEF WorkerBinds
    <3>2. worker'[w].conf = worker[w].conf
      BY <2>0, <3>1 DEF Worker
    <3> QED BY <1>0, <2>0, <3>1, <3>2 DEF Workers, Alive
  <2>4. CASE v = w /\ WorkerDies(v)
    <3>1. worker'[w] = [worker[w] EXCEPT !.pc = "dead"]
      BY <2>4, KillType DEF WorkerDies
    <3> QED BY <1>0, <2>0, <3>1 DEF Worker
  <2> QED BY <1>4, <2>1, <2>2, <2>3, <2>4
<1>5. ASSUME UNCHANGED worker PROVE Goal
  BY <1>0, <1>1, <1>5
<1>6. ASSUME NEW c \in Cli, CliStep(c) PROVE Goal
  <2>1. CASE LockInitialization(c) \/ WriteConfig(c) \/ SetUpstream(c) \/ Decide(c) \/ LockService(c) \/ ReadConfig(c)
    BY <1>5, <2>1 DEF LockInitialization, WriteConfig, SetUpstream, Decide, LockService, ReadConfig
  <2>2. CASE Forget(c) \/ EnsureAvailable(c) \/ SpawnFails(c) \/ Record(c) \/ Ready(c)
    BY <1>5, <2>2 DEF Forget, EnsureAvailable, SpawnFails, Record, Ready
  <2> QED BY <1>2, <1>3, <1>6, <2>1, <2>2 DEF CliStep
<1>7. ASSUME NEW c \in Cli, (\E kind \in Kinds, f \in Env, key \in Key : Begin(c, kind, f, key)) \/ Interrupt(c) \/ CliCrash(c)
      PROVE  Goal
  BY <1>5, <1>7, Zenon DEF Begin, Interrupt, CliCrash
<1>8. ASSUME NEW port \in Port, Claim(port) \/ Leave(port) PROVE Goal
  BY <1>5, <1>8 DEF Claim, Leave
<1> HIDE DEF Goal
<1>9. Goal
  BY <1>4, <1>6, <1>7, <1>8 DEF Next
<1> QED BY <1>9 DEF Goal

\* While its configuration stays, an environment stays served.
LEMMA ServedStays ==
    ASSUME TypeOK, Next, NEW e \in Env, Served(e), config'[e] = config[e]
    PROVE  Served(e)'
<1> SUFFICES ASSUME NEW w \in Workers(e)' PROVE worker'[w].conf \in {Unread, config'[e]}
  BY DEF Served
<1> QED BY LivingWorkers DEF Served

\* A command that ends the recorded worker leaves none.
LEMMA StopServes ==
    ASSUME IInv, MaxCrashes = 0, NEW c \in Cli, StopRecorded(c), NEW e \in Env, command[c].env = e
    PROVE  Served(e)'
<1>0. TypeOK
  BY DEF IInv
<1>1. count.crashes = 0
  <2>1. count.crashes \in 0 .. 0
    BY <1>0 DEF TypeOK
  <2> QED BY <2>1
<1>2. serviceLock[e] = c /\ command[c].pc = "stop"
  BY <1>0 DEF IInv, Locks, InService, StopRecorded
<1>3. Starting(e) = {}
  BY <1>2 DEF Starting
<1>4. Workers(e) \subseteq Matches(e)
  BY <1>0, <1>1, <1>3 DEF IInv, Known
<1> SUFFICES ASSUME NEW w \in Workers(e)' PROVE FALSE
  BY DEF Served
<1>5. w \in DOMAIN worker' /\ worker'[w].env = e /\ worker'[w].pc # "dead"
  BY DEF Workers, Alive
<1>6. Kill(Matches(e))
  BY DEF StopRecorded
<1>7. /\ w \in DOMAIN worker
      /\ worker'[w] = IF w \in Matches(e) THEN [worker[w] EXCEPT !.pc = "dead"] ELSE worker[w]
  BY <1>0, <1>5, <1>6, KillType
<1>8. worker[w] \in Worker
  BY <1>0, <1>7 DEF TypeOK
<1>9. w \in Matches(e)
  BY <1>4, <1>5, <1>7 DEF Workers, Alive
<1> QED BY <1>5, <1>7, <1>8, <1>9 DEF Worker

\* What an init writes is a configuration.
LEMMA WriteConfigures ==
    ASSUME TypeOK, NEW c \in Cli, WriteConfig(c), ~UNCHANGED config \/ command'[c].pc = "written"
    PROVE  /\ config'[command[c].env] # NoConfig
           /\ \A e \in Env \ {command[c].env} : config'[e] = config[e]
<1> DEFINE e == command[c].env
           settings == IF config[e] = NoConfig THEN SystemUpstream ELSE config[e].upstream
<1>0. config \in [Env -> Config \cup {NoConfig}] /\ e \in Env /\ command[c].key \in Key
  BY DEF TypeOK, Commands
<1>1. CASE Goto(c, "failed") /\ UNCHANGED config
  BY <1>1, GotoMoves DEF Moves
<1>2. ASSUME NEW port \in Selected(e),
             config' = [config EXCEPT ![e] = [listen |-> port, key |-> command[c].key, upstream |-> settings]]
      PROVE  config'[e] # NoConfig /\ \A f \in Env \ {e} : config'[f] = config[f]
  <2>1. port \in Port
    BY <1>0, <1>2 DEF Selected, Keeps, Config
  <2>2. settings \in Upstream
    BY <1>0, BackgroundAssumption DEF Config
  <2>3. [listen |-> port, key |-> command[c].key, upstream |-> settings] # NoConfig
    BY <1>0, <2>1, <2>2, BackgroundAssumption
  <2> HIDE DEF settings
  <2> QED BY <1>0, <1>2, <2>3
<1> QED BY <1>1, <1>2 DEF WriteConfig, Finish

\* An init that writes something new will replace the worker.
LEMMA WriteIsDue ==
    ASSUME TypeOK, NEW c \in Cli, WriteConfig(c), NEW e \in Env, config'[e] # config[e]
    PROVE  IsDue(c, e)'
<1>0. command \in [Cli -> Commands] /\ config \in [Env -> Config \cup {NoConfig}]
  BY DEF TypeOK
<1>1. PICK new : /\ config' = [config EXCEPT ![command[c].env] = new]
                 /\ command' = [command EXCEPT ![c].pc = "written", ![c].changed = config[command[c].env] # new]
  BY DEF WriteConfig
<1>2. command[c].env = e /\ config[e] # new
  BY <1>0, <1>1 DEF Commands
<1>3. PICK changed \in BOOLEAN : changed /\ command' = [command EXCEPT ![c].pc = "written", ![c].changed = changed]
  BY <1>1, <1>2
<1>4. LET moved == [[command[c] EXCEPT !.pc = "written"] EXCEPT !.changed = changed]
      IN  moved.pc = "written" /\ moved.env = e /\ moved.kind = command[c].kind /\ moved.changed = changed
  BY <1>0, <1>2 DEF Commands
<1> QED BY <1>0, <1>3, <1>4 DEF IsDue, WriteConfig

LEMMA LeftInit == Init => LeftInv
BY DEF Init, LeftInv, LeftKinds, Configured, Served, Workers, NoCommand

\* Every step keeps that, if nobody interrupts a command or sets an upstream
\* proxy.
LEMMA LeftStep ==
    ASSUME IInv, LeftInv, Next, ~Interrupted, MaxCrashes = 0, "upstream" \notin Kinds
    PROVE  LeftInv'
<1>0. TypeOK /\ command \in [Cli -> Commands] /\ config \in [Env -> Config \cup {NoConfig}]
  BY DEF IInv, TypeOK
<1>1. LeftKinds'
  <2> SUFFICES ASSUME NEW c \in Cli
               PROVE  command'[c].kind # "upstream" /\ (command'[c].pc = "written" => command'[c].kind = "init")
    BY DEF LeftKinds
  <2>1. CASE command'[c] = command[c]
    BY <2>1 DEF LeftInv, LeftKinds
  <2>2. CASE CliStep(c)
    BY <1>0, <2>2, InitPlaces DEF LeftInv, LeftKinds, Moves
  <2> QED BY <1>0, <2>1, <2>2, OnlyItsSteps
<1>2. \A c \in Cli : ~SetUpstream(c)
  BY DEF SetUpstream, LeftInv, LeftKinds
<1>3. \A e \in Env : config[e] # NoConfig => config'[e] # NoConfig
  <2>1. ASSUME NEW c \in Cli, WriteConfig(c), ~UNCHANGED config, NEW e \in Env, config[e] # NoConfig PROVE config'[e] # NoConfig
    BY <1>0, <2>1, WriteConfigures
  <2> QED BY <1>2, <2>1, ConfigSteps
<1>4. Configured'
  <2> SUFFICES ASSUME NEW c \in Cli, command'[c].kind = "init", command'[c].pc \in {"written", "serviceLock", "read"}
               PROVE  config'[command'[c].env] # NoConfig
    BY DEF Configured
  <2>1. CASE command'[c] = command[c]
    BY <1>0, <1>3, <2>1 DEF LeftInv, Configured, Commands
  <2>2. CASE CliStep(c)
    <3>1. command'[c].env = command[c].env /\ command'[c].kind = command[c].kind
          /\ (command'[c].pc = "written" => WriteConfig(c))
          /\ (command'[c].pc = "serviceLock" => command[c].pc = "written")
          /\ (command'[c].pc = "read" => command[c].pc = "serviceLock")
      BY <1>0, <2>2, InitPlaces DEF Moves
    <3>2. CASE command'[c].pc = "written"
      BY <1>0, <3>1, <3>2, WriteConfigures DEF Commands
    <3>3. CASE command'[c].pc # "written"
      BY <1>0, <1>3, <3>1, <3>3 DEF LeftInv, Configured, Commands
    <3> QED BY <3>2, <3>3
  <2> QED BY <1>0, <2>1, <2>2, OnlyItsSteps
<1>5. ASSUME NEW e \in Env PROVE Served(e)' \/ \E c \in Cli : IsDue(c, e)'
  <2>1. CASE config'[e] # config[e]
    BY <1>0, <1>2, <2>1, ConfigSteps, WriteIsDue
  <2>2. CASE config'[e] = config[e] /\ Served(e)
    BY <1>0, <2>2, ServedStays
  <2>3. ASSUME NEW c \in Cli, IsDue(c, e) PROVE Served(e)' \/ IsDue(c, e)'
    <3>1. command[c].env = e /\ command[c].kind = "init" /\ command[c].pc \notin Ended
      BY <2>3 DEF IsDue, Ended
    <3>2. CASE command'[c] = command[c]
      BY <2>3, <3>2 DEF IsDue
    <3>3. CASE CliStep(c)
      <4>1. CASE StopRecorded(c)
        BY <3>1, <4>1, StopServes
      <4>2. CASE ~StopRecorded(c)
        <5>1. command[c].pc # "stop" /\ command'[c].env = e /\ command'[c].kind = "init"
              /\ (command[c].pc = "written" => command'[c].pc = "serviceLock" \/ ~command[c].changed)
              /\ (command[c].pc = "serviceLock" => command'[c].pc = "read")
              /\ (command[c].pc = "read" => command'[c].pc = "stop" \/ config[e] = NoConfig)
          BY <1>0, <3>1, <3>3, <4>2, InitPlaces DEF Moves
        <5>2. command[c].pc = "read" => config[e] # NoConfig
          BY <3>1 DEF LeftInv, Configured
        <5> QED BY <2>3, <5>1, <5>2 DEF IsDue
      <4> QED BY <4>1, <4>2
    <3> QED BY <1>0, <3>1, <3>2, <3>3, OnlyItsSteps
  <2> QED BY <2>1, <2>2, <2>3 DEF LeftInv
<1> QED BY <1>1, <1>4, <1>5 DEF LeftInv

\* A worker that an init leaves running has what the init found unchanged.
LEMMA LeavesCurrent ==
    ASSUME IInv, LeftInv, Next, ~Interrupted, MaxCrashes = 0, NEW c \in Cli, Reaches(c, "left")
    PROVE  Served(command[c].env)
<1>0. TypeOK /\ command[c].env \in Env
  BY DEF IInv, TypeOK, Commands
<1>1. CliStep(c)
  BY <1>0, OnlyItsSteps DEF Reaches
<1>2. command[c].pc = "written" /\ ~command[c].changed
  BY <1>0, <1>1, InitPlaces DEF Moves, Reaches
<1>3. initLock = c
  BY <1>2 DEF IInv, Locks, InInitialization, LeftInv, LeftKinds
<1>4. ASSUME NEW d \in Cli, IsDue(d, command[c].env) PROVE FALSE
  <2>1. initLock = d
    BY <1>4 DEF IsDue, IInv, Locks, InInitialization, InService
  <2> QED BY <1>2, <1>3, <1>4, <2>1 DEF IsDue
<1> QED BY <1>0, <1>4 DEF LeftInv

\* As long as no command is killed or stops behind its write, and the upstream
\* proxy is not set between two inits, an init that says it left the proxy
\* running leaves one with the configuration in the file, whatever other inits
\* and starts are under way (start_managed_service_after_initialization,
\* proxy_runtime_config_changed).
THEOREM LeavesRunningTheCurrent ==
    ASSUME ~Interrupted, MaxCrashes = 0, "upstream" \notin Kinds
    PROVE  Spec => LeftRunningIsCurrent
<1> DEFINE Left == \A c \in Cli : Reaches(c, "left")
                      => \A w \in Workers(command[c].env) :
                            worker[w].conf \in {Unread, config[command[c].env]}
<1>1. IInv /\ LeftInv /\ [Next]_vars => LeftInv'
  <2>1. CASE UNCHANGED vars
    BY <2>1 DEF vars, LeftInv, LeftKinds, Configured, Served, IsDue, Workers, Alive
  <2> QED BY <2>1, LeftStep
<1>2. IInv /\ LeftInv /\ [Next]_vars => [Left]_vars
  BY LeavesCurrent DEF Served
<1> QED BY <1>1, <1>2, InitIInv, NextIInv, LeftInit, PTL DEF Spec, LeftRunningIsCurrent
-----------------------------------------------------------------------------
(* macOS: the agent that launchd has loaded *)

AgentPcs == {"idle", "lock", "select", "bind", "print", "plist", "bootout", "ensure", "bootstrap",
             "enable", "kickstart", "wait", "stop"}
AgentJobs == [pc : AgentPcs, kind : {"start", "stop", "restart", "init"}, loaded : BOOLEAN, changed : BOOLEAN, version : Nat]

AgentTypes == agentCommand \in [Cli -> AgentJobs] /\ agentConfig \in [version : Nat, port : Port]
\* Behind the write the plist is this program's, and launchd has what the plist
\* names, except for a command that is about to unload it; a command that found
\* nothing loaded has nothing older to load again.
AgentInv ==
    /\ AgentTypes
    /\ \A c \in Cli : agentCommand[c].pc \in {"bootout", "ensure", "bootstrap"} => plist = Current
    /\ \A c \in Cli : agentCommand[c].pc = "plist" /\ ~agentCommand[c].loaded => loaded \in {None, Current}
    /\ loaded \in {None, plist} \/ \E c \in Cli : agentCommand[c].pc = "bootout"

LEMMA AgentInit == A!Init => AgentInv
<1> SUFFICES ASSUME A!Init PROVE AgentInv
  OBVIOUS
<1>1. A!Idle \in AgentJobs /\ A!Idle.pc = "idle"
  BY DEF A!Idle, AgentJobs, AgentPcs
<1> QED BY <1>1 DEF A!Init, AgentInv, AgentTypes

\* What one command does leaves the others where they are.
AgentMoves(c, pcs) ==
    /\ agentCommand' \in [Cli -> AgentJobs] /\ agentCommand'[c].pc \in pcs
    /\ \A d \in Cli \ {c} : agentCommand'[d] = agentCommand[d]
LEMMA AgentGoes ==
    ASSUME agentCommand \in [Cli -> AgentJobs], NEW c \in Cli, NEW pc \in AgentPcs, A!Go(c, pc)
    PROVE  AgentMoves(c, {pc})
BY DEF A!Go, AgentJobs, AgentMoves
LEMMA AgentEnds ==
    ASSUME agentCommand \in [Cli -> AgentJobs], NEW c \in Cli, A!End(c)
    PROVE  AgentMoves(c, {"idle"})
BY DEF A!End, A!Idle, AgentJobs, AgentPcs, AgentMoves
LEMMA AgentSteps ==
    ASSUME AgentTypes, NEW c \in Cli
    PROVE  /\ A!LockInit(c) => AgentMoves(c, {"select"})
           /\ A!Select(c) => AgentMoves(c, {"bind", "print"})
           /\ A!Bind(c) => AgentMoves(c, {"print", "idle"})
           /\ A!Announce(c) => AgentMoves(c, {"plist"})
           /\ A!WritePlist(c) => AgentMoves(c, {"enable", "bootout", "ensure"})
           /\ A!Bootout(c) => AgentMoves(c, {"ensure", "idle"})
           /\ A!Ensure(c) => AgentMoves(c, {"bootstrap", "idle"})
           /\ A!Bootstrap(c) => AgentMoves(c, {"enable", "idle"})
           /\ A!Enable(c) => AgentMoves(c, {"kickstart"})
           /\ A!Kickstart(c) => AgentMoves(c, {"wait", "idle"})
           /\ A!Wait(c) => AgentMoves(c, {"idle"})
           /\ A!Stop(c) => AgentMoves(c, {"print", "idle"})
<1> USE DEF AgentTypes
<1>1. \A pc \in AgentPcs : A!Go(c, pc) => AgentMoves(c, {pc})
  BY AgentGoes
<1>2. A!End(c) => AgentMoves(c, {"idle"})
  BY AgentEnds
<1>3. \A less, more : AgentMoves(c, less) /\ less \subseteq more => AgentMoves(c, more)
  BY DEF AgentMoves
<1> DEFINE To(pc) == A!Go(c, pc)  Ends == A!End(c)
<1>4. /\ A!LockInit(c) => To("select")
      /\ A!Select(c) => To("bind") \/ To("print")
      /\ A!Bind(c) => To("print") \/ Ends
      /\ A!Bootout(c) => To("ensure") \/ Ends
      /\ A!Ensure(c) => To("bootstrap") \/ Ends
      /\ A!Bootstrap(c) => To("enable") \/ Ends
      /\ A!Enable(c) => To("kickstart")
      /\ A!Kickstart(c) => To("wait") \/ Ends
      /\ A!Wait(c) => Ends
      /\ A!Stop(c) => To("print") \/ Ends
  BY DEF A!LockInit, A!Select, A!Bind, A!Write, A!Bootout, A!Ensure, A!Bootstrap, A!Enable, A!Kickstart, A!Wait, A!Stop
<1>5. \A pc \in AgentPcs : To(pc) => AgentMoves(c, {pc})
  BY <1>1
<1>6. Ends => AgentMoves(c, {"idle"})
  BY <1>2
<1>7. A!Announce(c) => AgentMoves(c, {"plist"})
  <2>1. PICK b \in BOOLEAN : b = (loaded # None)
    OBVIOUS
  <2>2. A!Announce(c) =>
          agentCommand' = [agentCommand EXCEPT ![c].pc = "plist", ![c].loaded = b, ![c].version = agentConfig.version]
    BY <2>1, Zenon DEF A!Announce
  <2>3. agentConfig.version \in Nat
    OBVIOUS
  <2> QED BY <2>2, <2>3 DEF AgentMoves, AgentJobs, AgentPcs
<1>8. A!WritePlist(c) => AgentMoves(c, {"enable", "bootout", "ensure"})
  <2>1. PICK b \in BOOLEAN : b = (plist # Current)
    OBVIOUS
  <2>2. PICK pc \in {"enable", "bootout", "ensure"} :
            pc = IF ~A!Loads(agentCommand[c].loaded, plist # Current) THEN "enable"
                 ELSE IF agentCommand[c].loaded THEN "bootout" ELSE "ensure"
    OBVIOUS
  <2>3. A!WritePlist(c) => agentCommand' = [agentCommand EXCEPT ![c].changed = b, ![c].pc = pc]
    BY <2>1, <2>2, Zenon DEF A!WritePlist
  <2> QED BY <2>3 DEF AgentMoves, AgentJobs, AgentPcs
<1> HIDE DEF To, Ends, AgentTypes
<1> QED BY <1>3, <1>4, <1>5, <1>6, <1>7, <1>8 DEF AgentPcs
LEMMA AgentStep == ASSUME AgentInv, A!Next, ~LaunchctlFails PROVE AgentInv'
<1> USE DEF AgentInv, AgentTypes, A!At
<1>1. ASSUME A!WorkerReads \/ A!WorkerBinds \/ A!WorkerDies \/ \E p \in Port : A!PortIsTaken(p) PROVE AgentInv'
  BY <1>1 DEF A!WorkerReads, A!WorkerBinds, A!WorkerDies, A!PortIsTaken, A!Ports
<1>2. ASSUME NEW c \in Cli, NEW kind \in {"start", "stop", "restart", "init"}, A!Begin(c, kind) PROVE AgentInv'
  <2>1. [A!Idle EXCEPT !.kind = kind,
                      !.pc = CASE kind = "init" -> "lock" [] kind = "start" -> "print" [] OTHER -> "stop"] \in AgentJobs
    BY DEF A!Idle, AgentJobs, AgentPcs
  <2>2. agentCommand' \in [Cli -> AgentJobs]
    BY <1>2, <2>1 DEF A!Begin
  <2>3. agentCommand'[c].pc \in {"lock", "print", "stop"} /\ \A d \in Cli \ {c} : agentCommand'[d] = agentCommand[d]
    BY <1>2 DEF A!Begin, A!Idle
  <2> QED BY <1>2, <2>2, <2>3 DEF A!Begin
<1>3. ASSUME NEW c \in Cli, A!LockInit(c) \/ A!Select(c) \/ A!Bind(c) PROVE AgentInv'
  <2>1. AgentMoves(c, {"select", "bind", "print", "idle"}) /\ agentCommand[c].pc # "bootout"
    BY <1>3, AgentSteps DEF A!LockInit, A!Select, A!Bind, AgentMoves
  <2>3. agentConfig' \in [version : Nat, port : Port]
    BY <1>3 DEF A!LockInit, A!Select, A!Bind, A!Write, A!Ports
  <2>2. UNCHANGED <<plist, loaded>>
    BY <1>3 DEF A!LockInit, A!Select, A!Bind
  <2> QED BY <2>1, <2>2, <2>3 DEF AgentMoves
<1>4. ASSUME NEW c \in Cli, A!Start(c) \/ A!Stop(c) PROVE AgentInv'
  <2>1. /\ agentCommand' \in [Cli -> AgentJobs] /\ \A d \in Cli \ {c} : agentCommand'[d] = agentCommand[d]
    BY <1>4, AgentSteps DEF A!Start, AgentMoves
  <2>2. UNCHANGED agentConfig
    BY <1>4 DEF A!Start, A!Stop, A!Announce, A!WritePlist, A!Bootout, A!Ensure, A!Bootstrap, A!Enable, A!Kickstart, A!Wait, A!Ports
  <2>3. CASE A!Announce(c)
    BY <2>1, <2>2, <2>3 DEF A!Announce, AgentJobs
  <2>4. CASE A!WritePlist(c)
    <3>1. agentCommand'[c].pc \in {"enable", "bootout", "ensure"} /\ plist' = Current /\ UNCHANGED loaded
      BY <2>4 DEF A!WritePlist, AgentJobs
    <3>2. plist # Current /\ agentCommand[c].loaded => agentCommand'[c].pc = "bootout"
      BY <2>4 DEF A!WritePlist, AgentJobs, A!Loads
    <3>3. agentCommand[c].pc = "plist"
      BY <2>4 DEF A!WritePlist
    <3> QED BY <3>1, <3>2, <3>3, <2>1, <2>2
  <2>5. CASE A!Bootout(c)
    <3>1. loaded' = None /\ UNCHANGED plist /\ agentCommand'[c].pc \in {"ensure", "idle"} /\ agentCommand[c].pc = "bootout"
      BY <2>5 DEF A!Bootout, A!Go, A!End, A!Idle, AgentJobs
    <3> QED BY <3>1, <2>1, <2>2
  <2>6. CASE A!Ensure(c)
    <3>1. UNCHANGED <<plist, loaded>> /\ agentCommand'[c].pc \in {"bootstrap", "idle"} /\ agentCommand[c].pc = "ensure"
      BY <2>6 DEF A!Ensure, A!Go, A!End, A!Idle, AgentJobs
    <3> QED BY <3>1, <2>1, <2>2
  <2>7. CASE A!Bootstrap(c)
    <3>1. /\ UNCHANGED plist /\ loaded' \in {loaded, plist} /\ (loaded' # loaded => loaded = None)
          /\ agentCommand'[c].pc \in {"enable", "idle"} /\ agentCommand[c].pc = "bootstrap"
      BY <2>7 DEF A!Bootstrap, A!Go, A!End, A!Idle, AgentJobs
    <3> QED BY <3>1, <2>1, <2>2
  <2>8. CASE A!Enable(c) \/ A!Kickstart(c) \/ A!Wait(c) \/ A!Stop(c)
    <3>1. /\ UNCHANGED plist /\ loaded' \in {None, loaded}
          /\ agentCommand'[c].pc \in {"kickstart", "wait", "print", "idle"} /\ agentCommand[c].pc \in {"enable", "kickstart", "wait", "stop"}
      BY <2>8 DEF A!Enable, A!Kickstart, A!Wait, A!Stop, A!Go, A!End, A!Idle, AgentJobs
    <3> QED BY <3>1, <2>1, <2>2
  <2> QED BY <1>4, <2>3, <2>4, <2>5, <2>6, <2>7, <2>8 DEF A!Start
<1> QED BY <1>1, <1>2, <1>3, <1>4 DEF A!Next

LEMMA AgentKnown == AgentInv => A!LoadedIsThePlist
BY DEF AgentInv, A!LoadedIsThePlist, A!At

AgentWorkers == [runs : BOOLEAN, read : Nat, port : Port \cup {None}, up : BOOLEAN]
\* No command was called for a configuration that is still to come; the process
\* that a start has restarted reads what the start was called for; once it was
\* seen to listen it is the one at the address.
AgentFresh ==
    /\ AgentTypes
    /\ agentWorker \in AgentWorkers
    /\ \A c \in Cli : agentCommand[c].version <= agentConfig.version
    /\ \A c \in Cli : agentCommand[c].pc = "wait" =>
          agentWorker.port = None \/ agentWorker.read >= agentCommand[c].version
    /\ settled => A!Owned

\* The process is new, or there is none.
Restarts == agentWorker' \in {A!NoWorker, A!Fresh} /\ settled' = FALSE
LEMMA NewWorkers == {A!NoWorker, A!Fresh} \subseteq AgentWorkers /\ \A w \in {A!NoWorker, A!Fresh} : w.port = None
<1>1. A!NoWorker \in AgentWorkers /\ A!NoWorker.port = None
  BY DEF A!NoWorker, AgentWorkers
<1>2. A!Fresh \in AgentWorkers /\ A!Fresh.port = None
  BY <1>1 DEF A!Fresh, AgentWorkers
<1> QED BY <1>1, <1>2
LEMMA FreshInit == A!Init => AgentFresh
<1> SUFFICES ASSUME A!Init PROVE AgentFresh
  OBVIOUS
<1>1. A!Idle \in AgentJobs /\ A!Idle.pc = "idle" /\ A!Idle.version = 0
  BY DEF A!Idle, AgentJobs, AgentPcs
<1>2. agentWorker \in AgentWorkers
  BY NewWorkers DEF A!Init, AgentWorkers
<1> QED BY <1>1, <1>2 DEF A!Init, AgentFresh, AgentTypes

\* A step of a command that leaves the configuration and what it was called for.
FreshMoves(c, pcs) ==
    /\ AgentMoves(c, pcs) /\ UNCHANGED agentConfig /\ agentCommand'[c].version \in {agentCommand[c].version, 0}
LEMMA FreshGoes ==
    ASSUME AgentTypes, NEW c \in Cli, UNCHANGED agentConfig
    PROVE  /\ \A pc \in AgentPcs : A!Go(c, pc) => FreshMoves(c, {pc})
           /\ A!End(c) => FreshMoves(c, {"idle"})
<1>1. ASSUME NEW pc \in AgentPcs, A!Go(c, pc) PROVE FreshMoves(c, {pc})
  BY <1>1, AgentGoes DEF AgentTypes, A!Go, AgentJobs, FreshMoves
<1>2. ASSUME A!End(c) PROVE FreshMoves(c, {"idle"})
  BY <1>2, AgentEnds DEF AgentTypes, A!End, A!Idle, FreshMoves
<1> QED BY <1>1, <1>2

LEMMA FreshKept ==
    ASSUME AgentFresh, NEW c \in Cli, NEW pcs, FreshMoves(c, pcs),
           Restarts \/ ("wait" \notin pcs /\ UNCHANGED <<agentWorker, settled, loaded>>)
    PROVE  AgentFresh'
<1>1. \A d \in Cli : agentCommand'[d].version <= agentConfig'.version
  BY DEF AgentFresh, FreshMoves, AgentMoves, AgentTypes
<1>2. AgentTypes'
  BY DEF AgentFresh, FreshMoves, AgentMoves, AgentTypes
<1>3. \A d \in Cli : agentCommand'[d].pc = "wait" =>
          agentWorker'.port = None \/ agentWorker'.read >= agentCommand'[d].version
  BY NewWorkers DEF AgentFresh, FreshMoves, AgentMoves, Restarts
<1>4. settled' => A!Owned'
  BY DEF AgentFresh, FreshMoves, Restarts, A!Owned
<1>5. agentWorker' \in AgentWorkers
  BY NewWorkers DEF AgentFresh, Restarts
<1> QED BY <1>1, <1>2, <1>3, <1>4, <1>5 DEF AgentFresh

LEMMA FreshStep == ASSUME AgentFresh, A!Next PROVE AgentFresh'
<1> USE DEF A!At
<1>0. AgentTypes
  BY DEF AgentFresh
<1>1. ASSUME A!WorkerReads PROVE AgentFresh'
  <2>1. agentWorker'.read = agentConfig.version /\ agentConfig.version \in Nat /\ agentWorker' \in AgentWorkers
        /\ agentWorker'.port = agentConfig.port /\ agentWorker'.up = agentWorker.up
    BY <1>0, <1>1 DEF A!WorkerReads, AgentWorkers, AgentFresh, AgentTypes
  <2> QED BY <1>1, <2>1 DEF A!WorkerReads, A!Ports, AgentFresh, AgentTypes, A!Owned
<1>2. ASSUME A!WorkerBinds \/ A!WorkerDies \/ \E p \in Port : A!PortIsTaken(p) PROVE AgentFresh'
  <2>1. CASE A!WorkerBinds
    <3>1. agentWorker' = A!Fresh \/ agentWorker' = [agentWorker EXCEPT !.up = TRUE]
      BY <2>1 DEF A!WorkerBinds
    <3>2. agentWorker' \in AgentWorkers /\ (agentWorker'.port = None \/ (agentWorker'.port = agentWorker.port /\ agentWorker'.read = agentWorker.read))
      BY <3>1, NewWorkers DEF AgentFresh, AgentWorkers
    <3>3. ~settled'
      BY <2>1 DEF A!WorkerBinds, AgentFresh, A!Owned
    <3>4. UNCHANGED <<agentConfig, agentCommand>>
      BY <2>1 DEF A!WorkerBinds, A!Ports
    <3> QED BY <3>2, <3>3, <3>4 DEF AgentFresh, AgentTypes
  <2>2. CASE A!WorkerDies
    BY <2>2, NewWorkers DEF A!WorkerDies, AgentFresh, AgentTypes
  <2>3. CASE \E p \in Port : A!PortIsTaken(p)
    BY <2>3 DEF A!PortIsTaken, AgentFresh, AgentTypes, A!Owned
  <2> QED BY <1>2, <2>1, <2>2, <2>3
<1>3. ASSUME NEW c \in Cli, NEW kind \in {"start", "stop", "restart", "init"}, A!Begin(c, kind) PROVE AgentFresh'
  <2>1. PICK j : j = [A!Idle EXCEPT !.kind = kind,
                      !.pc = CASE kind = "init" -> "lock" [] kind = "start" -> "print" [] OTHER -> "stop"]
    OBVIOUS
  <2>2. j \in AgentJobs /\ j.pc \in {"lock", "print", "stop"} /\ j.version = 0
    BY <2>1 DEF A!Idle, AgentJobs, AgentPcs
  <2>3. agentCommand' = [agentCommand EXCEPT ![c] = j]
    BY <1>3, <2>1 DEF A!Begin
  <2>4. FreshMoves(c, {"lock", "print", "stop"})
    BY <1>0, <1>3, <2>2, <2>3 DEF FreshMoves, AgentMoves, A!Begin, AgentTypes
  <2> QED BY <1>3, <2>4, FreshKept DEF A!Begin
<1>4. ASSUME NEW c \in Cli, A!LockInit(c) PROVE AgentFresh'
  <2>1. FreshMoves(c, {"select"})
    BY <1>0, <1>4, FreshGoes DEF A!LockInit, A!Ports, AgentPcs
  <2> QED BY <1>4, <2>1, FreshKept DEF A!LockInit
\* a new configuration
<1>5. ASSUME NEW c \in Cli, NEW port \in Port, A!Write(c, port), UNCHANGED <<loaded, agentWorker>> PROVE AgentFresh'
  <2>1. agentConfig' = [version |-> agentConfig.version + 1, port |-> port] /\ settled' = FALSE
    BY <1>5 DEF A!Write
  <2>2. agentConfig' \in [version : Nat, port : Port] /\ agentConfig'.version = agentConfig.version + 1 /\ agentConfig.version \in Nat
    BY <1>0, <2>1 DEF AgentTypes
  <2>3. AgentMoves(c, {"print"}) /\ agentCommand'[c].version = agentCommand[c].version
    BY <1>0, <1>5, AgentGoes DEF A!Write, A!Go, AgentPcs, AgentTypes, AgentJobs
  <2>4. \A d \in Cli : agentCommand'[d].version = agentCommand[d].version /\ agentCommand[d].version \in Nat
    BY <1>0, <2>3 DEF AgentMoves, AgentTypes, AgentJobs
  <2> QED BY <1>5, <2>1, <2>2, <2>3, <2>4 DEF AgentFresh, AgentTypes, AgentMoves
<1>6. ASSUME NEW c \in Cli, A!Select(c) \/ A!Bind(c) PROVE AgentFresh'
  <2>1. agentConfig.port \in Port /\ UNCHANGED <<loaded, agentWorker>>
    BY <1>0, <1>6 DEF AgentTypes, A!Select, A!Bind
  <2>2. \/ \E port \in Port : A!Write(c, port)
        \/ (A!Go(c, "bind") \/ A!End(c)) /\ UNCHANGED <<agentConfig, settled>>
    BY <1>6, <2>1 DEF A!Select, A!Bind
  <2>3. ASSUME A!Go(c, "bind") \/ A!End(c), UNCHANGED <<agentConfig, settled>> PROVE AgentFresh'
    <3>1. FreshMoves(c, {"bind"}) \/ FreshMoves(c, {"idle"})
      BY <1>0, <2>3, FreshGoes DEF AgentPcs
    <3> QED BY <2>1, <2>3, <3>1, FreshKept
  <2> QED BY <1>5, <2>1, <2>2, <2>3
<1>7. ASSUME NEW c \in Cli, A!Announce(c) PROVE AgentFresh'
  <2>1. AgentMoves(c, {"plist"})
    BY <1>0, <1>7, AgentSteps
  <2>2. agentCommand'[c].version = agentConfig.version /\ agentConfig.version \in Nat
    BY <1>0, <1>7 DEF A!Announce, AgentTypes, AgentJobs
  <2>3. UNCHANGED <<agentConfig, agentWorker, settled, loaded>>
    BY <1>7 DEF A!Announce, A!Ports
  <2> QED BY <2>1, <2>2, <2>3 DEF AgentFresh, AgentMoves, AgentTypes, A!Owned
<1>8. ASSUME NEW c \in Cli, A!WritePlist(c) PROVE AgentFresh'
  <2>1. AgentMoves(c, {"enable", "bootout", "ensure"})
    BY <1>0, <1>8, AgentSteps
  <2>2. agentCommand'[c].version = agentCommand[c].version
    BY <1>0, <1>8 DEF A!WritePlist, AgentTypes, AgentJobs
  <2>3. FreshMoves(c, {"enable", "bootout", "ensure"})
    BY <1>8, <2>1, <2>2 DEF FreshMoves, A!WritePlist, A!Ports
  <2> QED BY <1>8, <2>3, FreshKept DEF A!WritePlist
<1>9. ASSUME NEW c \in Cli, A!Bootout(c) \/ A!Ensure(c) \/ A!Bootstrap(c) \/ A!Enable(c) \/ A!Stop(c) PROVE AgentFresh'
  <2>1. UNCHANGED agentConfig
    BY <1>9 DEF A!Bootout, A!Ensure, A!Bootstrap, A!Enable, A!Stop, A!Ports
  <2>2. \/ A!Go(c, "ensure") \/ A!Go(c, "bootstrap") \/ A!Go(c, "enable") \/ A!Go(c, "kickstart") \/ A!Go(c, "print")
        \/ A!End(c)
    BY <1>9 DEF A!Bootout, A!Ensure, A!Bootstrap, A!Enable, A!Stop
  <2>3. \E pc \in AgentPcs \ {"wait"} : FreshMoves(c, {pc})
    BY <1>0, <2>1, <2>2, FreshGoes DEF AgentPcs
  <2>4. Restarts \/ UNCHANGED <<agentWorker, settled, loaded>> \/ (settled' = FALSE /\ UNCHANGED agentWorker)
    BY <1>9 DEF A!Bootout, A!Ensure, A!Bootstrap, A!Enable, A!Stop, Restarts
  <2>5. ASSUME settled' = FALSE, UNCHANGED agentWorker PROVE AgentFresh'
    BY <2>3, <2>5 DEF AgentFresh, FreshMoves, AgentMoves, AgentTypes
  <2> QED BY <2>3, <2>4, <2>5, FreshKept
<1>10. ASSUME NEW c \in Cli, A!Kickstart(c) PROVE AgentFresh'
  <2>1. CASE loaded # None
    <3>1. FreshMoves(c, {"wait"}) /\ Restarts
      BY <1>0, <1>10, <2>1, FreshGoes DEF A!Kickstart, A!Ports, AgentPcs, A!Restarted, Restarts
    <3> QED BY <3>1, FreshKept
  <2>2. CASE loaded = None
    <3>1. FreshMoves(c, {"idle"}) /\ UNCHANGED <<agentWorker, settled, loaded>>
      BY <1>0, <1>10, <2>2, FreshGoes DEF A!Kickstart, A!Ports
    <3> QED BY <3>1, FreshKept
  <2> QED BY <2>1, <2>2
<1>11. ASSUME NEW c \in Cli, A!Wait(c) PROVE AgentFresh'
  <2>1. FreshMoves(c, {"idle"}) /\ UNCHANGED <<agentWorker, loaded>>
    BY <1>0, <1>11, FreshGoes DEF A!Wait, A!Ports
  <2>2. settled' = settled \/ (settled' => A!Owned)
    BY <1>11 DEF A!Wait, A!Listening, A!Taken, A!Owned
  <2>3. settled' => A!Owned'
    BY <2>1, <2>2 DEF AgentFresh, FreshMoves, A!Owned
  <2> QED BY <2>1, <2>3 DEF AgentFresh, FreshMoves, AgentMoves, AgentTypes
<1> QED BY <1>1, <1>2, <1>3, <1>4, <1>6, <1>7, <1>8, <1>9, <1>10, <1>11 DEF A!Next, A!Start

LEMMA FreshRuns == ASSUME AgentFresh, A!Next PROVE A!RunsTheConfiguration
BY DEF AgentFresh, A!RunsTheConfiguration, A!At

LEMMA FreshFinds == ASSUME AgentFresh, A!Next PROVE A!FindsItsAddress
<1> SUFFICES ASSUME NEW c \in Cli, settled, agentCommand[c].pc = "select" PROVE agentCommand'[c].pc # "bind"
  BY DEF A!FindsItsAddress, A!At
<1>1. AgentTypes /\ A!Owned
  BY DEF AgentFresh
<1>2. CASE A!Select(c)
  BY <1>1, <1>2 DEF A!Select, A!Write, A!Go, AgentTypes, AgentJobs
<1>3. CASE agentCommand'[c] = agentCommand[c]
  BY <1>3
<1>4. \A pcs : \A d \in Cli : AgentMoves(d, pcs) /\ d # c => agentCommand'[c] = agentCommand[c]
  BY DEF AgentMoves
<1>5. \A d \in Cli, kind \in {"start", "stop", "restart", "init"} : A!Begin(d, kind) => agentCommand'[c] = agentCommand[c]
  BY <1>1 DEF A!Begin, A!At, AgentTypes
<1>6. ASSUME NEW d \in Cli, A!LockInit(d) \/ A!Select(d) \/ A!Bind(d) \/ A!Start(d) \/ A!Stop(d), d # c
      PROVE  agentCommand'[c] = agentCommand[c]
  BY <1>1, <1>6, <1>4, AgentSteps DEF A!Start
<1>7. A!LockInit(c) \/ A!Bind(c) \/ A!Start(c) \/ A!Stop(c) => FALSE
  BY DEF A!LockInit, A!Bind, A!Stop, A!Start, A!Announce, A!WritePlist, A!Bootout, A!Ensure, A!Bootstrap, A!Enable, A!Kickstart,
     A!Wait, A!At
<1>8. A!WorkerReads \/ A!WorkerBinds \/ A!WorkerDies \/ (\E p \in Port : A!PortIsTaken(p)) => UNCHANGED agentCommand
  BY DEF A!WorkerReads, A!WorkerBinds, A!WorkerDies, A!PortIsTaken
<1> QED BY <1>2, <1>3, <1>5, <1>6, <1>7, <1>8 DEF A!Next
-----------------------------------------------------------------------------
(* Windows: the worker of an environment *)

WinPcs == {"idle", "lock", "inspect", "kill", "followers", "forget", "ensure", "spawn",
           "record", "follow", "register", "release", "wait"}
WinBorn == 0 .. MaxBorn
WinFollowers == [born : WinBorn, child : Pid \cup {Nobody}, childBorn : WinBorn]
WinJobs == [pc : WinPcs, kind : {"start", "stop", "restart", "logs"}, env : Env, pid : Pid \cup {Nobody}, born : WinBorn,
            child : WinFollowers, listed : SUBSET Pid]
WinProcesses == [born : WinBorn, role : W!Role, env : Env]
WinRecords == [pid : Pid \cup {Nobody}, born : WinBorn, env : Env \cup {Nobody}, bare : BOOLEAN]

WinTypes ==
    /\ process \in [Pid -> WinProcesses] /\ record \in [Env -> WinRecords]
    /\ followers \in [Env -> [Pid -> WinFollowers]]
    /\ lock \in [Env -> Cli \cup {Nobody}] /\ job \in [Cli -> WinJobs]

LEMMA Idles == W!Idle \in WinJobs /\ W!Idle.pc = "idle" /\ W!Idle.env \in Env
<1>1. (CHOOSE e \in Env : TRUE) \in Env
  BY BackgroundAssumption
<1>2. 0 \in WinBorn
  BY PartsAssumption DEF W!WindowsServiceAssumption, WinBorn
<1> QED BY <1>1, <1>2 DEF W!Idle, WinJobs, WinPcs, WinFollowers, W!NoFollower

LEMMA DeadType == ASSUME WinTypes, NEW p \in Pid
                  PROVE  W!Dead(p) \in WinProcesses /\ W!Dead(p).role = "none" /\ W!Dead(p).born = process[p].born
BY Idles DEF W!Dead, WinTypes, WinProcesses, W!Role

LEMMA WithoutType ==
    ASSUME WinTypes, NEW ended, process' = W!Without(ended)
    PROVE  /\ process' \in [Pid -> WinProcesses]
           /\ \A p \in Pid : IF p \in ended THEN process'[p].role = "none" /\ process'[p].born = process[p].born
                             ELSE process'[p] = process[p]
<1>1. \A p \in Pid : W!Dead(p) \in WinProcesses /\ W!Dead(p).role = "none" /\ W!Dead(p).born = process[p].born
  BY DeadType
<1>2. process' = [p \in Pid |-> IF p \in ended THEN W!Dead(p) ELSE process[p]]
  BY DEF W!Without
<1> QED BY <1>1, <1>2 DEF WinTypes

LEMMA NewType ==
    ASSUME WinTypes, NEW p \in Pid, W!Free(p), NEW role \in W!Role, NEW e \in Env,
           process' = [process EXCEPT ![p] = W!New(p, role, e)]
    PROVE  /\ process' \in [Pid -> WinProcesses]
           /\ process[p].role = "none" /\ process'[p].born = process[p].born + 1 /\ process'[p].born \in WinBorn
           /\ process'[p].role = role /\ process'[p].env = e
           /\ \A q \in Pid \ {p} : process'[q] = process[q]
<1>1. process[p].born \in Nat /\ process[p].born < MaxBorn /\ process[p].role = "none"
  BY DEF W!Free, WinTypes, WinProcesses, WinBorn
<1>2. process[p].born + 1 \in WinBorn
  BY <1>1, PartsAssumption DEF WinBorn, W!WindowsServiceAssumption
<1>3. W!New(p, role, e) \in WinProcesses /\ W!New(p, role, e).born = process[p].born + 1
      /\ W!New(p, role, e).role = role /\ W!New(p, role, e).env = e
  BY <1>2 DEF W!New, WinProcesses
<1> QED BY <1>1, <1>2, <1>3 DEF WinTypes

(* Commands. *)
WinMoves(c, pcs) ==
    /\ job' \in [Cli -> WinJobs] /\ job'[c].pc \in pcs
    /\ \A d \in Cli \ {c} : job'[d] = job[d]
\* it stays the command it is
SameCommand(c) == job'[c].kind = job[c].kind /\ job'[c].env = job[c].env /\ job'[c].pid = job[c].pid /\ job'[c].born = job[c].born
             /\ job'[c].child = job[c].child /\ job'[c].listed = job[c].listed
LEMMA WinGoes ==
    ASSUME WinTypes, NEW c \in Cli, NEW pc \in WinPcs, W!Go(c, pc)
    PROVE  WinMoves(c, {pc}) /\ SameCommand(c)
BY DEF W!Go, WinJobs, WinMoves, WinTypes, SameCommand
LEMMA WinEnds ==
    ASSUME WinTypes, NEW c \in Cli, W!End(c)
    PROVE  WinMoves(c, {"idle"}) /\ job'[c] = W!Idle
BY Idles DEF W!End, WinJobs, WinMoves, WinTypes
LEMMA WinReleases ==
    ASSUME WinTypes, NEW c \in Cli, W!Release(c)
    PROVE  /\ lock' \in [Env -> Cli \cup {Nobody}] /\ lock'[job[c].env] = Nobody
           /\ \A e \in Env \ {job[c].env} : lock'[e] = lock[e]
BY DEF W!Release, WinTypes, WinJobs

Unlocked(c) ==
    /\ lock' \in [Env -> Cli \cup {Nobody}] /\ lock'[job[c].env] = Nobody
    /\ \A e \in Env \ {job[c].env} : lock'[e] = lock[e]
LEMMA FailDoes ==
    ASSUME WinTypes, NEW c \in Cli, W!Fail(c)
    PROVE  WinMoves(c, {"idle"}) /\ job'[c] = W!Idle /\ Unlocked(c)
BY WinEnds, WinReleases DEF W!Fail, Unlocked
LEMMA StopFailsDoes ==
    ASSUME WinTypes, NEW c \in Cli, W!StopFails(c)
    PROVE  /\ WinMoves(c, {"idle", "lock"}) /\ Unlocked(c)
           /\ job'[c].pc = "lock" => job'[c].kind = "start" /\ job'[c].env = job[c].env
<1>1. CASE W!Fail(c)
  BY <1>1, FailDoes DEF WinMoves, Idles
<1>2. CASE job' = [job EXCEPT ![c].kind = "start", ![c].pc = "lock"] /\ W!Release(c)
  <2>0. PICK new : new = [job[c] EXCEPT !.kind = "start", !.pc = "lock"]
    OBVIOUS
  <2>2. new \in WinJobs /\ new.pc = "lock" /\ new.kind = "start" /\ new.env = job[c].env
    <3>1. job[c] \in WinJobs
      BY DEF WinTypes
    <3> QED BY <2>0, <3>1 DEF WinJobs, WinPcs
  <2>3. job' = [job EXCEPT ![c] = new]
    BY <1>2, <2>0 DEF WinTypes
  <2>1. WinMoves(c, {"lock"}) /\ job'[c].kind = "start" /\ job'[c].env = job[c].env
    BY <2>2, <2>3 DEF WinMoves, WinTypes
  <2> QED BY <1>2, <2>1, WinReleases DEF Unlocked, WinMoves
<1> QED BY <1>1, <1>2 DEF W!StopFails

LEMMA BeginDoes ==
    ASSUME WinTypes, NEW c \in Cli, NEW k \in W!Kind, NEW e \in Env, W!Begin(c, k, e)
    PROVE  /\ WinMoves(c, {"lock"}) /\ job[c].pc = "idle" /\ job'[c].kind = k /\ job'[c].env = e
           /\ UNCHANGED <<record, followers, lock>> /\ process' \in [Pid -> WinProcesses]
           /\ \/ k # "logs" /\ UNCHANGED process
              \/ /\ k = "logs"
                 /\ \E p \in Pid : /\ job'[c].pid = p /\ job'[c].born = process'[p].born
                                   /\ process[p].role = "none" /\ process'[p].born = process[p].born + 1
                                   /\ process'[p].role = "logs" /\ process'[p].env = e
                                   /\ \A q \in Pid \ {p} : process'[q] = process[q]
<1>0. k \in {"start", "stop", "restart", "logs"} /\ "lock" \in WinPcs /\ "logs" \in W!Role
  BY DEF W!Kind, WinPcs, W!Role
<1>1. CASE k # "logs"
  <2>1. job' = [job EXCEPT ![c] = [W!Idle EXCEPT !.pc = "lock", !.kind = k, !.env = e]]
    BY <1>1 DEF W!Begin
  <2>2. [W!Idle EXCEPT !.pc = "lock", !.kind = k, !.env = e] \in WinJobs
    BY <1>0, Idles DEF WinJobs
  <2>3. WinMoves(c, {"lock"}) /\ job'[c].kind = k /\ job'[c].env = e
    BY <2>1, <2>2, Idles DEF WinMoves, WinTypes, WinJobs
  <2> QED BY <1>1, <2>3 DEF W!Begin, W!At, WinTypes
<1>2. CASE k = "logs"
  <2>1. PICK p \in Pid :
           /\ W!Free(p) /\ process' = [process EXCEPT ![p] = W!New(p, "logs", e)]
           /\ job' = [job EXCEPT ![c] = [W!Idle EXCEPT !.pc = "lock", !.kind = k, !.env = e, !.pid = p, !.born = process[p].born + 1]]
    BY <1>2, Zenon DEF W!Begin
  <2>2. /\ process' \in [Pid -> WinProcesses]
        /\ process[p].role = "none" /\ process'[p].born = process[p].born + 1 /\ process'[p].born \in WinBorn
        /\ process'[p].role = "logs" /\ process'[p].env = e
        /\ \A q \in Pid \ {p} : process'[q] = process[q]
    BY <1>0, <2>1, NewType
  <2>3. [W!Idle EXCEPT !.pc = "lock", !.kind = k, !.env = e, !.pid = p, !.born = process[p].born + 1] \in WinJobs
    BY <1>0, <2>2, Idles DEF WinJobs
  <2>4. WinMoves(c, {"lock"}) /\ job'[c].kind = k /\ job'[c].env = e /\ job'[c].pid = p /\ job'[c].born = process[p].born + 1
    BY <2>1, <2>3, Idles DEF WinMoves, WinTypes, WinJobs
  <2> QED BY <1>2, <2>2, <2>4, Zenon DEF W!Begin, W!At
<1> QED BY <1>1, <1>2

LEMMA LockDoes ==
    ASSUME WinTypes, NEW c \in Cli, W!Lock(c)
    PROVE  /\ WinMoves(c, {"inspect", "follow", "kill"}) /\ SameCommand(c) /\ job[c].pc = "lock"
           /\ job'[c].pc = "follow" <=> job[c].kind = "logs"
           /\ lock' \in [Env -> Cli \cup {Nobody}] /\ lock[job[c].env] = Nobody /\ lock'[job[c].env] = c
           /\ \A e \in Env \ {job[c].env} : lock'[e] = lock[e]
           /\ UNCHANGED <<process, record, followers>>
<1>1. PICK pc \in {"inspect", "follow", "kill"} :
          pc = CASE job[c].kind = "start" -> "inspect" [] job[c].kind = "logs" -> "follow" [] OTHER -> "kill"
  <2>1. job[c].kind \in {"start", "stop", "restart", "logs"}
    BY DEF WinTypes, WinJobs
  <2> QED BY <2>1
<1>2. pc = "follow" <=> job[c].kind = "logs"
  BY <1>1
<1>3. W!Go(c, pc)
  BY <1>1 DEF W!Lock
<1>4. WinMoves(c, {pc}) /\ SameCommand(c)
  BY <1>3, WinGoes DEF WinPcs
<1>5. lock' = [lock EXCEPT ![job[c].env] = c] /\ job[c].env \in Env
  BY DEF W!Lock, WinTypes, WinJobs
<1> QED BY <1>1, <1>2, <1>4, <1>5 DEF W!Lock, W!At, WinMoves, WinTypes

LEMMA InspectDoes ==
    ASSUME WinTypes, NEW c \in Cli, W!Inspect(c)
    PROVE  /\ job[c].pc = "inspect" /\ UNCHANGED <<process, record, followers>>
           /\ \/ WinMoves(c, {"idle"}) /\ Unlocked(c)
              \/ /\ WinMoves(c, {"kill", "ensure"}) /\ SameCommand(c) /\ UNCHANGED lock
                 /\ job'[c].pc = "ensure" => W!Verified(job[c].env) = {}
<1>1. CASE W!Fail(c)
  BY <1>1, FailDoes DEF W!Inspect, W!At
<1>2. ASSUME NEW pc \in {"kill", "ensure"}, W!Go(c, pc), UNCHANGED lock, pc = "ensure" => W!Verified(job[c].env) = {}
      PROVE WinMoves(c, {"kill", "ensure"}) /\ SameCommand(c) /\ job'[c].pc = pc
  BY <1>2, WinGoes DEF WinPcs, WinMoves
<1>3. CASE W!Verified(job[c].env) = {} /\ W!Go(c, "ensure") /\ UNCHANGED lock
  BY <1>2, <1>3 DEF W!Inspect, W!At
<1>4. CASE W!Verified(job[c].env) # {} /\ W!Go(c, "kill") /\ UNCHANGED lock
  BY <1>2, <1>4 DEF W!Inspect, W!At
<1> QED BY <1>1, <1>3, <1>4 DEF W!Inspect

LEMMA KillDoes ==
    ASSUME WinTypes, NEW c \in Cli, W!Kill(c)
    PROVE  /\ job[c].pc = "kill" /\ UNCHANGED <<record, followers>>
           /\ \/ /\ WinMoves(c, {"followers"}) /\ job'[c].kind = job[c].kind /\ job'[c].env = job[c].env
                 /\ job'[c].listed = {p \in Pid : followers[job[c].env][p] # W!NoFollower}
                 /\ ~W!Unverifiable(job[c].env) /\ process' = W!Without(W!Verified(job[c].env)) /\ UNCHANGED lock
              \/ /\ WinMoves(c, {"idle", "lock"}) /\ Unlocked(c) /\ UNCHANGED process
                 /\ job'[c].pc = "lock" => job'[c].kind = "start" /\ job'[c].env = job[c].env
<1>1. CASE W!StopFails(c) /\ UNCHANGED process
  BY <1>1, StopFailsDoes DEF W!Kill, W!At
<1>2. CASE /\ ~W!Unverifiable(job[c].env) /\ process' = W!Without(W!Verified(job[c].env)) /\ UNCHANGED lock
           /\ job' = [job EXCEPT ![c].pc = "followers", ![c].listed = {p \in Pid : followers[job[c].env][p] # W!NoFollower}]
  <2>1. PICK listed \in SUBSET Pid : listed = {p \in Pid : followers[job[c].env][p] # W!NoFollower}
    OBVIOUS
  <2>2. job' = [job EXCEPT ![c].pc = "followers", ![c].listed = listed]
    BY <1>2, <2>1
  <2>0. PICK new : new = [job[c] EXCEPT !.pc = "followers", !.listed = listed]
    OBVIOUS
  <2>4. new \in WinJobs /\ new.pc = "followers" /\ new.kind = job[c].kind /\ new.env = job[c].env /\ new.listed = listed
    <3>1. job[c] \in WinJobs
      BY DEF WinTypes
    <3> QED BY <2>0, <3>1 DEF WinJobs, WinPcs
  <2>5. job' = [job EXCEPT ![c] = new]
    BY <2>2, <2>0 DEF WinTypes
  <2>3. WinMoves(c, {"followers"}) /\ job'[c].kind = job[c].kind /\ job'[c].env = job[c].env /\ job'[c].listed = listed
    BY <2>4, <2>5 DEF WinMoves, WinTypes
  <2> QED BY <1>2, <2>1, <2>3 DEF W!Kill, W!At
<1> QED BY <1>1, <1>2 DEF W!Kill

\* A follower's record is written, or removed.
Files(e, p, f) ==
    /\ followers' \in [Env -> [Pid -> WinFollowers]] /\ followers'[e][p] = f
    /\ \A q \in Pid \ {p} : followers'[e][q] = followers[e][q]
    /\ \A d \in Env \ {e} : followers'[d] = followers[d]
LEMMA FilesDoes ==
    ASSUME WinTypes, NEW e \in Env, NEW p \in Pid, NEW f \in WinFollowers, followers' = [followers EXCEPT ![e][p] = f]
    PROVE  Files(e, p, f)
<1>1. PICK new : new = [followers[e] EXCEPT ![p] = f]
  OBVIOUS
<1>2. followers[e] \in [Pid -> WinFollowers]
  BY DEF WinTypes
<1>3. new \in [Pid -> WinFollowers] /\ new[p] = f /\ \A q \in Pid \ {p} : new[q] = followers[e][q]
  BY <1>1, <1>2
<1>4. followers' = [followers EXCEPT ![e] = new]
  BY <1>1
<1> QED BY <1>3, <1>4 DEF Files, WinTypes
LEMMA NoFollowerType == W!NoFollower \in WinFollowers
BY PartsAssumption DEF W!WindowsServiceAssumption, W!NoFollower, WinFollowers, WinBorn

\* What is registered under f and still runs.
Registered(p, f, q) ==
    /\ process[q].role # "none"
    /\ \/ q = f.child /\ process[q].born = f.childBorn
       \/ q = p /\ process[q].born = f.born
SameButListed(c) ==
    /\ job'[c].pc = job[c].pc /\ job'[c].kind = job[c].kind /\ job'[c].env = job[c].env
    /\ job'[c].pid = job[c].pid /\ job'[c].born = job[c].born /\ job'[c].child = job[c].child
EndsRegistered(c, p) ==
    LET e == job[c].env  f == followers[job[c].env][p] IN
    /\ p \in Pid /\ p \in job[c].listed /\ f # W!NoFollower
    /\ \A q \in Pid : Registered(p, f, q) => process[q].role # "protected"
    /\ process' \in [Pid -> WinProcesses]
    /\ \A q \in Pid : IF Registered(p, f, q) THEN process'[q].role = "none" /\ process'[q].born = process[q].born
                      ELSE process'[q] = process[q]
    /\ Files(e, p, W!NoFollower)
    /\ job' \in [Cli -> WinJobs] /\ SameButListed(c) /\ job'[c].listed = job[c].listed \ {p}
    /\ \A d \in Cli \ {c} : job'[d] = IF job[d].kind = "logs" /\ job[d].pid = p /\ job[d].born = f.born
                                      THEN W!Idle ELSE job[d]
    /\ UNCHANGED lock
PidsThatRun(a, x, b, y) == {r[1] : r \in {q \in {<<a, x>>, <<b, y>>} : W!Runs(q[1], q[2])}}
LEMMA RegisteredPids ==
    ASSUME NEW a, NEW x, NEW b, NEW y, NEW q
    PROVE  q \in PidsThatRun(a, x, b, y)
           <=> (q = a /\ W!Runs(a, x)) \/ (q = b /\ W!Runs(b, y))
<1> DEFINE running == {t \in {<<a, x>>, <<b, y>>} : W!Runs(t[1], t[2])}
<1>1. \A t : t \in running <=> (t = <<a, x>> /\ W!Runs(a, x)) \/ (t = <<b, y>> /\ W!Runs(b, y))
  BY DEF running
<1> HIDE DEF running
<1>2. q \in {r[1] : r \in running} <=> \E r \in running : q = r[1]
  OBVIOUS
<1>3. (\E r \in running : q = r[1]) => (q = a /\ W!Runs(a, x)) \/ (q = b /\ W!Runs(b, y))
  <2>1. ASSUME NEW r \in running, q = r[1] PROVE (q = a /\ W!Runs(a, x)) \/ (q = b /\ W!Runs(b, y))
    <3>1. (r = <<a, x>> /\ W!Runs(a, x)) \/ (r = <<b, y>> /\ W!Runs(b, y))
      BY <1>1
    <3>2. CASE r = <<a, x>>
      <4>1. q = a
        BY <2>1, <3>2
      <4>2. <<a, x>> \in running
        BY <3>2
      <4> QED BY <1>1, <4>1, <4>2, <3>1
    <3>3. CASE r = <<b, y>>
      BY <2>1, <3>1, <3>3
    <3> QED BY <3>1, <3>2, <3>3
  <2> QED BY <2>1
<1>4. q = a /\ W!Runs(a, x) => \E r \in running : q = r[1]
  <2>1. W!Runs(a, x) => <<a, x>> \in running
    BY <1>1
  <2> QED BY <2>1
<1>5. q = b /\ W!Runs(b, y) => \E r \in running : q = r[1]
  <2>1. W!Runs(b, y) => <<b, y>> \in running
    BY <1>1
  <2> QED BY <2>1
<1> QED BY <1>2, <1>3, <1>4, <1>5 DEF running, PidsThatRun
LEMMA EndFollowerDoes ==
    ASSUME WinTypes, NEW c \in Cli, W!EndFollower(c)
    PROVE  /\ job[c].pc = "followers" /\ UNCHANGED record
           /\ \/ /\ WinMoves(c, {"idle", "lock"}) /\ Unlocked(c) /\ UNCHANGED <<process, followers>>
                 /\ job'[c].pc = "lock" => job'[c].kind = "start" /\ job'[c].env = job[c].env
              \/ \E p \in Pid : EndsRegistered(c, p)
<1> DEFINE e == job[c].env
<1>1. PICK p \in job[c].listed :
         LET f == followers[e][p]
             registered == {<<f.child, f.childBorn>>, <<p, f.born>>}
         IN IF f = W!NoFollower \/ \E r \in registered : process[r[1]].role = "protected"
              THEN W!StopFails(c) /\ UNCHANGED <<process, followers>>
              ELSE /\ process' = W!Without({r[1] : r \in {q \in registered : W!Runs(q[1], q[2])}})
                   /\ followers' = [followers EXCEPT ![e][p] = W!NoFollower]
                   /\ job' = [d \in Cli |->
                         IF d = c THEN [job[c] EXCEPT !.listed = @ \ {p}]
                         ELSE IF job[d].kind = "logs" /\ job[d].pid = p /\ job[d].born = f.born THEN W!Idle
                         ELSE job[d]]
                   /\ UNCHANGED lock
  BY Zenon DEF W!EndFollower
<1>2. job[c] \in WinJobs /\ e \in Env /\ p \in Pid
  BY DEF WinTypes, WinJobs
<1> DEFINE f == followers[e][p]
           registered == {<<f.child, f.childBorn>>, <<p, f.born>>}
<1>3. CASE W!StopFails(c) /\ UNCHANGED <<process, followers>>
  BY <1>3, StopFailsDoes DEF W!EndFollower, W!At
<1>4. CASE /\ ~(f = W!NoFollower \/ \E r \in registered : process[r[1]].role = "protected")
           /\ process' = W!Without({r[1] : r \in {q \in registered : W!Runs(q[1], q[2])}})
           /\ followers' = [followers EXCEPT ![e][p] = W!NoFollower]
           /\ job' = [d \in Cli |->
                 IF d = c THEN [job[c] EXCEPT !.listed = @ \ {p}]
                 ELSE IF job[d].kind = "logs" /\ job[d].pid = p /\ job[d].born = f.born THEN W!Idle
                 ELSE job[d]]
           /\ UNCHANGED lock
  <2>1. f \in WinFollowers
    BY <1>2 DEF WinTypes
  <2>2. PICK ended : ended = {r[1] : r \in {q \in registered : W!Runs(q[1], q[2])}}
    OBVIOUS
  <2>3. \A q \in Pid : q \in ended <=> Registered(p, f, q)
    <3>1. \A q : q \in ended <=> \/ q = f.child /\ W!Runs(f.child, f.childBorn)
                                 \/ q = p /\ W!Runs(p, f.born)
      <4>1. ended = PidsThatRun(f.child, f.childBorn, p, f.born)
        BY <2>2, Zenon DEF PidsThatRun
      <4> HIDE DEF f
      <4> QED BY <4>1, RegisteredPids
    <3>2. Nobody \notin Pid
      BY PartsAssumption DEF W!WindowsServiceAssumption
    <3> QED BY <3>1, <3>2 DEF W!Runs, Registered
  <2>4. /\ process' \in [Pid -> WinProcesses]
        /\ \A q \in Pid : IF q \in ended THEN process'[q].role = "none" /\ process'[q].born = process[q].born
                          ELSE process'[q] = process[q]
    <3>1. process' = W!Without(ended)
      BY <1>4, <2>2, Zenon
    <3> QED BY <3>1, WithoutType
  <2>5. Files(e, p, W!NoFollower)
    BY <1>2, <1>4, FilesDoes, NoFollowerType, Zenon
  <2>6. \A q \in Pid : Registered(p, f, q) => process[q].role # "protected"
    <3>1. process[f.child].role # "protected" /\ process[p].role # "protected"
      BY <1>4, Zenon
    <3> QED BY <3>1 DEF Registered
  <2>7. PICK new : new = [job[c] EXCEPT !.listed = @ \ {p}]
    OBVIOUS
  <2>8. new \in WinJobs /\ new.listed = job[c].listed \ {p} /\ new.pc = job[c].pc /\ new.kind = job[c].kind
        /\ new.env = job[c].env /\ new.pid = job[c].pid /\ new.born = job[c].born /\ new.child = job[c].child
    BY <1>2, <2>7 DEF WinJobs
  <2>9. /\ job'[c] = new
        /\ \A d \in Cli \ {c} : job'[d] = IF job[d].kind = "logs" /\ job[d].pid = p /\ job[d].born = f.born
                                          THEN W!Idle ELSE job[d]
    BY <1>4, <2>7, Zenon
  <2>10. job' \in [Cli -> WinJobs]
    <3>1. DOMAIN job' = Cli /\ job' = [d \in Cli |-> job'[d]]
      BY <1>4, Zenon
    <3>2. \A d \in Cli : job[d] \in WinJobs
      BY DEF WinTypes
    <3>3. \A d \in Cli : job'[d] \in WinJobs
      BY <2>8, <2>9, <3>2, Idles
    <3> QED BY <3>1, <3>3
  <2>11. EndsRegistered(c, p)
    BY <1>1, <1>2, <1>4, <2>4, <2>3, <2>5, <2>6, <2>8, <2>9, <2>10, Zenon DEF EndsRegistered, SameButListed
  <2> QED BY <1>2, <2>11 DEF W!EndFollower, W!At
<1> QED BY <1>1, <1>3, <1>4, Zenon

LEMMA NoFollowersLeftDoes ==
    ASSUME WinTypes, NEW c \in Cli, W!NoFollowersLeft(c)
    PROVE  /\ job[c].pc = "followers" /\ job[c].listed = {} /\ WinMoves(c, {"forget"}) /\ SameCommand(c)
           /\ UNCHANGED <<process, record, followers, lock>>
BY WinGoes DEF W!NoFollowersLeft, W!At, WinPcs

LEMMA ForgetDoes ==
    ASSUME WinTypes, NEW c \in Cli, W!Forget(c), job[c].kind # "logs"
    PROVE  /\ job[c].pc = "forget" /\ UNCHANGED <<process, followers>>
           /\ record' \in [Env -> WinRecords] /\ \A e \in Env \ {job[c].env} : record'[e] = record[e]
           /\ record'[job[c].env] \in {W!NoRecord, record[job[c].env]}
           /\ \/ job[c].kind = "start" /\ WinMoves(c, {"ensure"}) /\ SameCommand(c) /\ UNCHANGED lock
              \/ /\ WinMoves(c, {"idle", "lock"}) /\ Unlocked(c) /\ (job'[c].pc = "idle" => job[c].kind = "stop")
                 /\ job'[c].pc = "lock" => job'[c].kind = "start" /\ job'[c].env = job[c].env
<1> DEFINE e == job[c].env
<1>0. job[c] \in WinJobs /\ e \in Env /\ job[c].kind \in {"start", "stop", "restart"}
  BY DEF WinTypes, WinJobs
<1>1. PICK left \in {W!NoRecord, record[e]} : record' = [record EXCEPT ![e] = left]
  BY DEF W!Forget
<1>2. W!NoRecord \in WinRecords
  BY PartsAssumption DEF W!NoRecord, WinRecords, WinBorn, W!WindowsServiceAssumption
<1>3. /\ record' \in [Env -> WinRecords]
      /\ \A d \in Env \ {e} : record'[d] = record[d]
      /\ record'[e] \in {W!NoRecord, record[e]}
  BY <1>0, <1>1, <1>2 DEF WinTypes
<1>4. CASE job[c].kind = "start"
  <2>1. W!Go(c, "ensure") /\ UNCHANGED lock
    BY <1>4 DEF W!Forget
  <2> QED BY <1>3, <1>4, <2>1, WinGoes DEF W!Forget, W!At, WinPcs
<1>5. CASE job[c].kind = "stop"
  <2>1. W!End(c) /\ W!Release(c)
    BY <1>5 DEF W!Forget
  <2>2. WinMoves(c, {"idle"}) /\ Unlocked(c)
    BY <2>1, WinEnds, WinReleases DEF Unlocked
  <2> QED BY <1>3, <1>5, <2>2 DEF W!Forget, W!At, WinMoves
<1>6. CASE job[c].kind = "restart"
  <2>1. job' = [job EXCEPT ![c].kind = "start", ![c].pc = "lock"] /\ W!Release(c)
    BY <1>6 DEF W!Forget
  <2>2. W!StopFails(c)
    BY <1>6, <2>1 DEF W!StopFails
  <2>3. job'[c].pc = "lock"
    BY <2>1, <1>0 DEF WinTypes, WinJobs
  <2> QED BY <1>3, <2>2, <2>3, StopFailsDoes DEF W!Forget, W!At
<1> QED BY <1>0, <1>4, <1>5, <1>6

LEMMA EnsureDoes ==
    ASSUME WinTypes, NEW c \in Cli, W!Ensure(c)
    PROVE  /\ job[c].pc = "ensure" /\ UNCHANGED <<process, record, followers>>
           /\ \/ WinMoves(c, {"spawn"}) /\ SameCommand(c) /\ UNCHANGED lock
              \/ WinMoves(c, {"idle"}) /\ Unlocked(c)
BY WinGoes, FailDoes DEF W!Ensure, W!At, WinPcs

\* A process that is new: of this role and environment, named by its pid and birth.
Spawns(p, born, role, e) ==
    /\ process' \in [Pid -> WinProcesses]
    /\ process[p].role = "none" /\ process'[p].born = process[p].born + 1
    /\ process'[p].role = role /\ process'[p].env = e /\ born = process'[p].born
    /\ \A q \in Pid \ {p} : process'[q] = process[q]
LEMMA SpawnDoes ==
    ASSUME WinTypes, NEW c \in Cli, W!Spawn(c)
    PROVE  /\ job[c].pc = "spawn" /\ UNCHANGED <<record, followers>>
           /\ \/ WinMoves(c, {"idle"}) /\ Unlocked(c) /\ UNCHANGED process
              \/ /\ WinMoves(c, {"record"}) /\ job'[c].kind = job[c].kind /\ job'[c].env = job[c].env /\ UNCHANGED lock
                 /\ job'[c].pid \in Pid /\ Spawns(job'[c].pid, job'[c].born, "worker", job[c].env)
<1>0. job[c] \in WinJobs /\ job[c].env \in Env
  BY DEF WinTypes, WinJobs
<1>1. CASE W!Fail(c) /\ UNCHANGED process
  BY <1>1, FailDoes DEF W!Spawn, W!At
<1>2. ASSUME NEW p \in Pid, W!Free(p), process' = [process EXCEPT ![p] = W!New(p, "worker", job[c].env)],
             job' = [job EXCEPT ![c].pc = "record", ![c].pid = p, ![c].born = process[p].born + 1], UNCHANGED lock
      PROVE  /\ WinMoves(c, {"record"}) /\ job'[c].kind = job[c].kind /\ job'[c].env = job[c].env /\ UNCHANGED lock
             /\ job'[c].pid \in Pid /\ Spawns(job'[c].pid, job'[c].born, "worker", job[c].env)
  <2>1. /\ process' \in [Pid -> WinProcesses]
        /\ process[p].role = "none" /\ process'[p].born = process[p].born + 1 /\ process'[p].born \in WinBorn
        /\ process'[p].role = "worker" /\ process'[p].env = job[c].env
        /\ \A q \in Pid \ {p} : process'[q] = process[q]
    <3>1. "worker" \in W!Role
      BY DEF W!Role
    <3> QED BY <1>0, <1>2, <3>1, NewType
  <2>2. PICK new : new = [job[c] EXCEPT !.pc = "record", !.pid = p, !.born = process[p].born + 1]
    OBVIOUS
  <2>3. /\ new \in WinJobs /\ new.pc = "record" /\ new.kind = job[c].kind /\ new.env = job[c].env
        /\ new.pid = p /\ new.born = process'[p].born
    BY <1>0, <2>1, <2>2 DEF WinJobs, WinPcs
  <2>4. job' = [job EXCEPT ![c] = new]
    BY <1>2, <2>2 DEF WinTypes
  <2>5. WinMoves(c, {"record"}) /\ job'[c] = new
    BY <2>3, <2>4 DEF WinMoves, WinTypes
  <2> QED BY <1>2, <2>1, <2>3, <2>5 DEF Spawns
<1> QED BY <1>1, <1>2, Zenon DEF W!Spawn, W!At

LEMMA RecordDoes ==
    ASSUME WinTypes, NEW c \in Cli, W!Record(c)
    PROVE  /\ job[c].pc = "record" /\ UNCHANGED followers /\ WinMoves(c, {"idle"}) /\ Unlocked(c)
           /\ \/ /\ UNCHANGED process /\ W!Runs(job[c].pid, job[c].born)
                 /\ record' \in [Env -> WinRecords] /\ \A e \in Env \ {job[c].env} : record'[e] = record[e]
                 /\ record'[job[c].env] = [pid |-> job[c].pid, born |-> job[c].born, env |-> job[c].env, bare |-> FALSE]
              \/ /\ UNCHANGED record
                 /\ process' = W!Without({q \in {job[c].pid} : W!Runs(q, job[c].born)})
<1> DEFINE e == job[c].env
<1>0. job[c] \in WinJobs /\ e \in Env
  BY DEF WinTypes, WinJobs
<1>1. WinMoves(c, {"idle"}) /\ Unlocked(c) /\ job[c].pc = "record" /\ UNCHANGED followers
  BY WinEnds, WinReleases DEF W!Record, W!At, Unlocked
<1>2. PICK r : r = [pid |-> job[c].pid, born |-> job[c].born, env |-> e, bare |-> FALSE]
  OBVIOUS
<1>3. r \in WinRecords
  BY <1>0, <1>2 DEF WinJobs, WinRecords
<1>4. record' = [record EXCEPT ![e] = r] =>
         record' \in [Env -> WinRecords] /\ record'[e] = r /\ \A d \in Env \ {e} : record'[d] = record[d]
  BY <1>0, <1>3 DEF WinTypes
<1> QED BY <1>1, <1>2, <1>4 DEF W!Record

\* Processes that end, and nothing else.
OnlyEnds ==
    /\ process' \in [Pid -> WinProcesses]
    /\ \A p \in Pid : process'[p] = process[p] \/ (process'[p].role = "none" /\ process'[p].born = process[p].born)
LEMMA WithoutEnds == ASSUME WinTypes, NEW ended, process' = W!Without(ended) PROVE OnlyEnds
BY WithoutType DEF OnlyEnds

LEMMA SpawnFollowerDoes ==
    ASSUME WinTypes, NEW c \in Cli, W!SpawnFollower(c)
    PROVE  /\ job[c].pc = "follow" /\ UNCHANGED <<record, followers>>
           /\ \/ WinMoves(c, {"idle"}) /\ Unlocked(c) /\ OnlyEnds /\ process' = W!Without(W!OwnWorker(c))
              \/ /\ WinMoves(c, {"register"}) /\ job'[c].kind = job[c].kind /\ job'[c].env = job[c].env /\ UNCHANGED lock
                 /\ job'[c].pid = job[c].pid /\ job'[c].born = job[c].born /\ job'[c].child.born = job[c].born
                 /\ job'[c].child.child \in Pid
                 /\ Spawns(job'[c].child.child, job'[c].child.childBorn, "follower", job[c].env)
<1>0. job[c] \in WinJobs /\ job[c].env \in Env
  BY DEF WinTypes, WinJobs
<1>1. CASE W!Fail(c) /\ process' = W!Without(W!OwnWorker(c))
  BY <1>1, FailDoes, WithoutEnds DEF W!SpawnFollower, W!At
<1>2. ASSUME NEW p \in Pid, W!Free(p), process' = [process EXCEPT ![p] = W!New(p, "follower", job[c].env)], UNCHANGED lock,
             job' = [job EXCEPT ![c].pc = "register",
                       ![c].child = [born |-> job[c].born, child |-> p, childBorn |-> process[p].born + 1]]
      PROVE  /\ WinMoves(c, {"register"}) /\ job'[c].kind = job[c].kind /\ job'[c].env = job[c].env /\ UNCHANGED lock
             /\ job'[c].pid = job[c].pid /\ job'[c].born = job[c].born /\ job'[c].child.born = job[c].born
             /\ job'[c].child.child \in Pid
             /\ Spawns(job'[c].child.child, job'[c].child.childBorn, "follower", job[c].env)
  <2>1. /\ process' \in [Pid -> WinProcesses]
        /\ process[p].role = "none" /\ process'[p].born = process[p].born + 1 /\ process'[p].born \in WinBorn
        /\ process'[p].role = "follower" /\ process'[p].env = job[c].env
        /\ \A q \in Pid \ {p} : process'[q] = process[q]
    <3>1. "follower" \in W!Role
      BY DEF W!Role
    <3> QED BY <1>0, <1>2, <3>1, NewType
  <2>2. PICK f : f = [born |-> job[c].born, child |-> p, childBorn |-> process[p].born + 1]
    OBVIOUS
  <2>3. f \in WinFollowers /\ f.born = job[c].born /\ f.child = p /\ f.childBorn = process'[p].born
    BY <1>0, <2>1, <2>2 DEF WinFollowers, WinJobs
  <2>4. PICK new : new = [job[c] EXCEPT !.pc = "register", !.child = f]
    OBVIOUS
  <2>5. /\ new \in WinJobs /\ new.pc = "register" /\ new.kind = job[c].kind /\ new.env = job[c].env
        /\ new.pid = job[c].pid /\ new.born = job[c].born /\ new.child = f
    BY <1>0, <2>3, <2>4 DEF WinJobs, WinPcs
  <2>6. job' = [job EXCEPT ![c] = new]
    BY <1>2, <2>2, <2>4 DEF WinTypes
  <2>7. WinMoves(c, {"register"}) /\ job'[c] = new
    BY <2>5, <2>6 DEF WinMoves, WinTypes
  <2> QED BY <1>2, <2>1, <2>3, <2>5, <2>7 DEF Spawns
<1> QED BY <1>1, <1>2 DEF W!SpawnFollower, W!At

LEMMA RegisterDoes ==
    ASSUME WinTypes, NEW c \in Cli, W!Register(c)
    PROVE  /\ UNCHANGED record
           /\ \/ /\ job[c].pc = "register" /\ W!Children(c) # {} /\ WinMoves(c, {"release"}) /\ SameCommand(c)
                 /\ UNCHANGED <<process, lock>>
                 /\ job[c].pid \in Pid => Files(job[c].env, job[c].pid, job[c].child)
              \/ /\ job[c].pc = "register" /\ WinMoves(c, {"idle"}) /\ Unlocked(c) /\ UNCHANGED followers
                 /\ process' = W!Without(W!OwnWorker(c) \cup W!Children(c))
              \/ job[c].pc = "release" /\ WinMoves(c, {"wait"}) /\ SameCommand(c) /\ Unlocked(c) /\ UNCHANGED <<process, followers>>
<1>0. job[c].env \in Env /\ job[c].child \in WinFollowers
  BY DEF WinTypes, WinJobs
<1>1. followers' = [followers EXCEPT ![job[c].env][job[c].pid] = job[c].child] /\ job[c].pid \in Pid
      => Files(job[c].env, job[c].pid, job[c].child)
  BY <1>0, FilesDoes
<1>2. W!Go(c, "release") => WinMoves(c, {"release"}) /\ SameCommand(c)
  BY WinGoes DEF WinPcs
<1>3. W!Go(c, "wait") => WinMoves(c, {"wait"}) /\ SameCommand(c)
  BY WinGoes DEF WinPcs
<1>4. W!Release(c) => Unlocked(c)
  BY WinReleases DEF Unlocked
<1>5. W!Fail(c) => WinMoves(c, {"idle"}) /\ Unlocked(c)
  BY FailDoes
<1> QED BY <1>1, <1>2, <1>3, <1>4, <1>5, Zenon DEF W!Register, W!At

LEMMA UnregisterDoes ==
    ASSUME WinTypes, NEW c \in Cli, W!Unregister(c), job[c].pid \in Pid
    PROVE  /\ job[c].pc = "wait" /\ W!Children(c) = {} /\ WinMoves(c, {"idle"}) /\ UNCHANGED <<record, lock>>
           /\ Files(job[c].env, job[c].pid, W!NoFollower)
           /\ process' = W!Without(W!OwnWorker(c))
<1>0. job[c].env \in Env
  BY DEF WinTypes, WinJobs
<1>1. Files(job[c].env, job[c].pid, W!NoFollower)
  BY <1>0, FilesDoes, NoFollowerType DEF W!Unregister
<1>2. W!End(c)
  BY DEF W!Unregister, W!End
<1> QED BY <1>1, <1>2, WinEnds DEF W!Unregister, W!At

LEMMA CloseConsoleDoes ==
    ASSUME WinTypes, NEW c \in Cli, W!CloseConsole(c)
    PROVE  /\ job[c].pc = "wait" /\ WinMoves(c, {"idle"}) /\ UNCHANGED <<record, followers, lock>>
           /\ process' = W!Without(W!OwnWorker(c) \cup W!Children(c))
<1>1. W!End(c)
  BY DEF W!CloseConsole, W!End
<1> QED BY <1>1, WinEnds DEF W!CloseConsole, W!At

LEMMA ExitsDoes ==
    ASSUME WinTypes, NEW p \in Pid, W!Exits(p)
    PROVE  /\ UNCHANGED <<record, followers, lock, job>> /\ OnlyEnds /\ process[p].role # "logs"
           /\ \A q \in Pid \ {p} : process'[q] = process[q]
BY WithoutType, WithoutEnds DEF W!Exits

LEMMA AppearsDoes ==
    ASSUME WinTypes, NEW p \in Pid, W!Appears(p)
    PROVE  /\ UNCHANGED <<record, followers, lock, job>>
           /\ \E role \in {"other", "protected"}, born \in WinBorn, e \in Env : Spawns(p, born, role, e)
<1>1. PICK role \in {"other", "protected"} : process' = [process EXCEPT ![p] = W!New(p, role, W!Idle.env)]
  BY DEF W!Appears
<1>2. role \in W!Role /\ W!Free(p)
  BY <1>1 DEF W!Role, W!Appears
<1>3. /\ process' \in [Pid -> WinProcesses]
      /\ process[p].role = "none" /\ process'[p].born = process[p].born + 1 /\ process'[p].born \in WinBorn
      /\ process'[p].role = role /\ process'[p].env = W!Idle.env
      /\ \A q \in Pid \ {p} : process'[q] = process[q]
  BY <1>1, <1>2, Idles, NewType
<1>4. Spawns(p, process'[p].born, role, W!Idle.env)
  BY <1>3 DEF Spawns
<1> QED BY <1>1, <1>3, <1>4, Idles DEF W!Appears

(* Who holds the locks, and what kinds of command are where. *)
Waiting == {"idle", "lock", "wait"}
Ending == {"inspect", "kill", "followers", "forget", "ensure", "spawn", "record"}
Logging == {"follow", "register", "release", "wait"}
WinHolds == \A c \in Cli : job[c].pc \notin Waiting => lock[job[c].env] = c
KindFits(j) ==
    /\ j.pc \in Ending => j.kind # "logs"
    /\ j.pc \in Logging => j.kind = "logs"
    /\ (j.kind = "logs" /\ j.pc # "idle") \/ j.pc = "record" => j.pid \in Pid
WinKinds == \A c \in Cli : KindFits(job[c])
WinBasics == WinTypes /\ WinHolds /\ WinKinds

LEMMA HoldsStays ==
    ASSUME WinTypes, WinHolds, NEW c \in Cli, NEW pcs, WinMoves(c, pcs), UNCHANGED lock,
           job'[c].pc \in Waiting \/ (job'[c].env = job[c].env /\ job[c].pc \notin Waiting)
    PROVE  WinHolds'
BY DEF WinHolds, WinMoves
LEMMA HoldsReleased ==
    ASSUME WinTypes, WinHolds, NEW c \in Cli, NEW pcs, WinMoves(c, pcs), Unlocked(c),
           job'[c].pc \in Waiting, job[c].pc \notin Waiting
    PROVE  WinHolds'
<1>1. \A d \in Cli : job[d].env \in Env
  BY DEF WinTypes, WinJobs
<1> QED BY <1>1 DEF WinHolds, WinMoves, Unlocked
LEMMA HoldsLocked ==
    ASSUME WinTypes, WinHolds, NEW c \in Cli, W!Lock(c)
    PROVE  WinHolds'
<1>1. \A d \in Cli : job[d].env \in Env
  BY DEF WinTypes, WinJobs
<1>2. Nobody \notin Cli
  BY BackgroundAssumption
<1> QED BY <1>1, <1>2, LockDoes DEF WinHolds, WinMoves, SameCommand
LEMMA HoldsRegistered ==
    ASSUME WinTypes, WinHolds, NEW c \in Cli, NEW p \in Pid, EndsRegistered(c, p)
    PROVE  WinHolds'
BY Idles DEF WinHolds, EndsRegistered, SameButListed, Waiting

LEMMA KindsMove ==
    ASSUME WinKinds, NEW c \in Cli, NEW pcs, WinMoves(c, pcs), KindFits(job'[c])
    PROVE  WinKinds'
BY DEF WinKinds, WinMoves

LEMMA IdleFits == KindFits(W!Idle)
BY DEF KindFits, W!Idle, Ending, Logging

LEMMA BasicsBegin ==
    ASSUME WinBasics, NEW c \in Cli, NEW k \in W!Kind, NEW e \in Env, W!Begin(c, k, e)
    PROVE  WinBasics'
<1> USE DEF WinBasics
<1>1. WinTypes'
  BY BeginDoes DEF WinTypes, WinMoves
<1>2. WinHolds'
  BY BeginDoes, HoldsStays DEF WinMoves, Waiting
<1>3. KindFits(job'[c])
  BY BeginDoes DEF KindFits, WinMoves, Ending, Logging
<1> QED BY <1>1, <1>2, <1>3, BeginDoes, KindsMove

LEMMA BasicsStep ==
    ASSUME WinBasics, NEW c \in Cli, W!Step(c) \/ W!CloseConsole(c)
    PROVE  WinBasics'
<1> USE DEF WinBasics
<1>0. KindFits(job[c]) /\ job[c] \in WinJobs
  BY DEF WinKinds, WinTypes
<1>1. CASE W!Lock(c)
  <2>1. WinTypes'
    BY <1>1, LockDoes DEF WinTypes, WinMoves
  <2>2. KindFits(job'[c])
    BY <1>0, <1>1, LockDoes DEF KindFits, WinMoves, SameCommand, Ending, Logging
  <2> QED BY <1>1, <2>1, <2>2, LockDoes, HoldsLocked, KindsMove
<1>2. CASE W!Inspect(c)
  <2>1. WinTypes'
    BY <1>2, InspectDoes DEF WinTypes, WinMoves, Unlocked
  <2>2. WinHolds'
    BY <1>2, InspectDoes, HoldsStays, HoldsReleased DEF Waiting, WinMoves, SameCommand
  <2>3. WinKinds'
    <3>1. KindFits(job'[c])
      BY <1>0, <1>2, InspectDoes DEF KindFits, WinMoves, SameCommand, Ending, Logging
    <3> QED BY <1>2, <3>1, InspectDoes, KindsMove
  <2> QED BY <2>1, <2>2, <2>3
<1>3. CASE W!Kill(c)
  <2>1. WinTypes'
    BY <1>3, KillDoes, WithoutType DEF WinTypes, WinMoves, Unlocked
  <2>2. WinHolds'
    BY <1>3, KillDoes, HoldsStays, HoldsReleased DEF Waiting, WinMoves, SameCommand
  <2>3. WinKinds'
    <3>1. KindFits(job'[c])
      BY <1>0, <1>3, KillDoes DEF KindFits, WinMoves, SameCommand, Ending, Logging
    <3> QED BY <1>3, <3>1, KillDoes, KindsMove
  <2> QED BY <2>1, <2>2, <2>3
<1>4. CASE W!NoFollowersLeft(c)
  <2>1. WinTypes'
    BY <1>4, NoFollowersLeftDoes DEF WinTypes, WinMoves
  <2>2. WinHolds'
    BY <1>4, NoFollowersLeftDoes, HoldsStays, HoldsReleased DEF Waiting, WinMoves, SameCommand
  <2>3. WinKinds'
    <3>1. KindFits(job'[c])
      BY <1>0, <1>4, NoFollowersLeftDoes DEF KindFits, WinMoves, SameCommand, Ending, Logging
    <3> QED BY <1>4, <3>1, NoFollowersLeftDoes, KindsMove
  <2> QED BY <2>1, <2>2, <2>3
<1>5. CASE W!Forget(c)
  <2>0. job[c].kind # "logs"
    BY <1>0, <1>5 DEF W!Forget, W!At, KindFits, Ending
  <2>1. WinTypes'
    BY <1>5, <2>0, ForgetDoes DEF WinTypes, WinMoves, Unlocked
  <2>2. WinHolds'
    BY <1>5, <2>0, ForgetDoes, HoldsStays, HoldsReleased DEF Waiting, WinMoves, SameCommand
  <2>3. WinKinds'
    BY <1>0, <1>5, <2>0, ForgetDoes, KindsMove DEF KindFits, WinMoves, SameCommand, Ending, Logging
  <2> QED BY <2>1, <2>2, <2>3
<1>6. CASE W!Ensure(c)
  <2>1. WinTypes'
    BY <1>6, EnsureDoes DEF WinTypes, WinMoves, Unlocked
  <2>2. WinHolds'
    BY <1>6, EnsureDoes, HoldsStays, HoldsReleased DEF Waiting, WinMoves, SameCommand
  <2>3. WinKinds'
    <3>1. KindFits(job'[c])
      BY <1>0, <1>6, EnsureDoes DEF KindFits, WinMoves, SameCommand, Ending, Logging
    <3> QED BY <1>6, <3>1, EnsureDoes, KindsMove
  <2> QED BY <2>1, <2>2, <2>3
<1>7. CASE W!Spawn(c)
  <2>1. WinTypes'
    BY <1>7, SpawnDoes DEF WinTypes, WinMoves, Unlocked, Spawns
  <2>2. WinHolds'
    BY <1>7, SpawnDoes, HoldsStays, HoldsReleased DEF Waiting, WinMoves, SameCommand
  <2>3. WinKinds'
    <3>1. KindFits(job'[c])
      BY <1>0, <1>7, SpawnDoes DEF KindFits, WinMoves, SameCommand, Ending, Logging
    <3> QED BY <1>7, <3>1, SpawnDoes, KindsMove
  <2> QED BY <2>1, <2>2, <2>3
<1>8. CASE W!Record(c)
  <2>1. WinTypes'
    BY <1>8, RecordDoes, WithoutType DEF WinTypes, WinMoves, Unlocked
  <2>2. WinHolds'
    BY <1>8, RecordDoes, HoldsStays, HoldsReleased DEF Waiting, WinMoves, SameCommand
  <2>3. WinKinds'
    <3>1. KindFits(job'[c])
      BY <1>0, <1>8, RecordDoes DEF KindFits, WinMoves, SameCommand, Ending, Logging
    <3> QED BY <1>8, <3>1, RecordDoes, KindsMove
  <2> QED BY <2>1, <2>2, <2>3
<1>9. CASE W!SpawnFollower(c)
  <2>1. WinTypes'
    BY <1>9, SpawnFollowerDoes DEF WinTypes, WinMoves, Unlocked, Spawns, OnlyEnds
  <2>2. WinHolds'
    BY <1>9, SpawnFollowerDoes, HoldsStays, HoldsReleased DEF Waiting, WinMoves, SameCommand
  <2>3. WinKinds'
    <3>1. KindFits(job'[c])
      BY <1>0, <1>9, SpawnFollowerDoes DEF KindFits, WinMoves, SameCommand, Ending, Logging
    <3> QED BY <1>9, <3>1, SpawnFollowerDoes, KindsMove
  <2> QED BY <2>1, <2>2, <2>3
<1>10. CASE W!Register(c)
  <2>0. job[c].pid \in Pid
    BY <1>0, <1>10 DEF W!Register, W!At, KindFits, Logging
  <2>1. WinTypes'
    BY <1>10, <2>0, RegisterDoes, WithoutType DEF WinTypes, WinMoves, Unlocked, Files
  <2>2. WinHolds'
    BY <1>10, <2>0, RegisterDoes, HoldsStays, HoldsReleased DEF Waiting, WinMoves, SameCommand
  <2>3. WinKinds'
    <3>1. job'[c].pc = "idle" \/ (job'[c].pc \in Logging /\ SameCommand(c) /\ job[c].kind = "logs")
      BY <1>0, <1>10, RegisterDoes DEF KindFits, WinMoves, Logging
    <3>2. KindFits(job'[c])
      BY <2>0, <3>1 DEF KindFits, SameCommand, Ending, Logging
    <3> QED BY <1>10, <3>2, RegisterDoes, KindsMove
  <2> QED BY <2>1, <2>2, <2>3
<1>11. CASE W!Unregister(c)
  <2>0. job[c].pid \in Pid
    BY <1>0, <1>11 DEF W!Unregister, W!At, KindFits, Logging
  <2>1. WinTypes'
    BY <1>11, <2>0, UnregisterDoes, WithoutType DEF WinTypes, WinMoves, Files
  <2>2. WinHolds'
    BY <1>11, <2>0, UnregisterDoes, HoldsStays, HoldsReleased DEF Waiting, WinMoves, SameCommand
  <2>3. WinKinds'
    BY <1>0, <1>11, <2>0, UnregisterDoes, KindsMove DEF KindFits, WinMoves, SameCommand, Ending, Logging
  <2> QED BY <2>1, <2>2, <2>3
<1>12. CASE W!CloseConsole(c)
  <2>1. WinTypes'
    <3>1. process' \in [Pid -> WinProcesses] /\ UNCHANGED <<record, followers, lock>>
      BY <1>12, CloseConsoleDoes, WithoutType
    <3>2. job' \in [Cli -> WinJobs]
      BY <1>12, CloseConsoleDoes DEF WinMoves
    <3> QED BY <3>1, <3>2 DEF WinTypes
  <2>2. WinHolds'
    BY <1>12, CloseConsoleDoes, HoldsStays, HoldsReleased DEF Waiting, WinMoves, SameCommand
  <2>3. WinKinds'
    <3>1. KindFits(job'[c])
      BY <1>0, <1>12, CloseConsoleDoes DEF KindFits, WinMoves, SameCommand, Ending, Logging
    <3> QED BY <1>12, <3>1, CloseConsoleDoes, KindsMove
  <2> QED BY <2>1, <2>2, <2>3
<1>13. CASE W!EndFollower(c)
  <2>1. CASE \E p \in Pid : EndsRegistered(c, p)
    <3>1. PICK p \in Pid : EndsRegistered(c, p)
      BY <2>1
    <3>2. WinTypes'
      BY <1>13, <3>1, EndFollowerDoes DEF WinTypes, EndsRegistered, Files
    <3>3. WinKinds'
      BY <3>1, IdleFits DEF WinKinds, EndsRegistered, SameButListed, KindFits
    <3> QED BY <3>1, <3>2, <3>3, HoldsRegistered
  <2>2. CASE ~\E p \in Pid : EndsRegistered(c, p)
    <3>1. WinTypes'
      BY <1>13, <2>2, EndFollowerDoes DEF WinTypes, WinMoves, Unlocked
    <3>2. WinHolds'
      BY <1>13, <2>2, EndFollowerDoes, HoldsReleased DEF Waiting, WinMoves
    <3>3. WinKinds'
      BY <1>0, <1>13, <2>2, EndFollowerDoes, KindsMove DEF KindFits, WinMoves, Ending, Logging
    <3> QED BY <3>1, <3>2, <3>3
  <2> QED BY <2>1, <2>2
<1> QED BY <1>1, <1>2, <1>3, <1>4, <1>5, <1>6, <1>7, <1>8, <1>9, <1>10, <1>11, <1>12, <1>13 DEF W!Step

LEMMA BasicsOthers ==
    ASSUME WinBasics, NEW p \in Pid, W!Exits(p) \/ W!Appears(p)
    PROVE  WinBasics'
<1>1. WinTypes'
  BY ExitsDoes, AppearsDoes DEF WinBasics, WinTypes, OnlyEnds, Spawns
<1> QED BY <1>1, ExitsDoes, AppearsDoes DEF WinBasics, WinHolds, WinKinds

LEMMA BasicsNext == ASSUME WinBasics, W!Next PROVE WinBasics'
BY BasicsBegin, BasicsStep, BasicsOthers DEF W!Next

(* The worker that runs is the one on record. *)
Cleared == {"followers", "forget", "ensure", "spawn"}
Serves(p, e) == process[p].role \in W!Worker /\ process[p].env = e
Clear(c) == job[c].pc \in Cleared => \A p \in Pid : ~Serves(p, job[c].env)
Recording(c) == job[c].pc = "record" =>
    \A p \in Pid : Serves(p, job[c].env) => p = job[c].pid /\ process[p].born = job[c].born
Accounted == \A p \in Pid, e \in Env :
    Serves(p, e) => p \in W!Verified(e) \/ \E c \in Cli : job[c].pc = "record" /\ job[c].env = e
WinWorkers == (\A c \in Cli : Clear(c) /\ Recording(c)) /\ Accounted

LEMMA VerifiedMeans ==
    ASSUME NEW p \in Pid, NEW e \in Env
    PROVE  p \in W!Verified(e) <=> /\ record[e].pid = p
                                   /\ IF record[e].bare THEN process[p].role = "legacy"
                                      ELSE process[p].role # "none" /\ process[p].born = record[e].born
<1>1. p # Nobody
  BY PartsAssumption DEF W!WindowsServiceAssumption
<1> QED BY <1>1 DEF W!Verified, W!Runs
LEMMA VerifiedMeansAfter ==
    ASSUME NEW p \in Pid, NEW e \in Env
    PROVE  p \in W!Verified(e)' <=> /\ record'[e].pid = p
                                    /\ IF record'[e].bare THEN process'[p].role = "legacy"
                                       ELSE process'[p].role # "none" /\ process'[p].born = record'[e].born
<1>1. p # Nobody
  BY PartsAssumption DEF W!WindowsServiceAssumption
<1> QED BY <1>1 DEF W!Verified, W!Runs

NoNewWorker == \A p \in Pid : process'[p].role \in W!Worker => process'[p] = process[p]
LEMMA NoneNew ==
    ASSUME WinTypes
    PROVE  /\ UNCHANGED process => NoNewWorker
           /\ \A ended : process' = W!Without(ended) => NoNewWorker
           /\ OnlyEnds => NoNewWorker
           /\ \A p, born, e : \A role \in {"logs", "follower", "other", "protected"} : Spawns(p, born, role, e) => NoNewWorker
BY WithoutEnds DEF NoNewWorker, OnlyEnds, Spawns, W!Worker

LEMMA WorkersKept ==
    ASSUME WinTypes, WinWorkers, NoNewWorker, UNCHANGED record,
           \A c \in Cli : job'[c].pc \in Cleared =>
               (job[c].pc \in Cleared /\ job'[c].env = job[c].env) \/ \A p \in Pid : ~Serves(p, job[c].env)',
           \A c \in Cli : (job'[c].pc = "record" <=> job[c].pc = "record") /\ (job[c].pc = "record" => job'[c] = job[c])
    PROVE  WinWorkers'
<1>1. \A p \in Pid, e \in Env : Serves(p, e)' => Serves(p, e) /\ process'[p] = process[p]
  BY DEF Serves, NoNewWorker
<1>3. \A c \in Cli : Clear(c)'
  <2>1. \A c \in Cli, p \in Pid : Serves(p, job[c].env)' => process'[p] = process[p] /\ Serves(p, job'[c].env)
    BY DEF Serves, NoNewWorker
  <2> QED BY <2>1 DEF WinWorkers, Clear
<1>4. \A c \in Cli : Recording(c)'
  <2>1. \A c \in Cli, p \in Pid : Serves(p, job[c].env)' => process'[p] = process[p] /\ Serves(p, job'[c].env)
    BY DEF Serves, NoNewWorker
  <2> QED BY <2>1 DEF WinWorkers, Recording
<1>5. Accounted'
  <2> SUFFICES ASSUME NEW p \in Pid, NEW e \in Env, Serves(p, e)'
               PROVE  p \in W!Verified(e)' \/ \E c \in Cli : job'[c].pc = "record" /\ job'[c].env = e
    BY DEF Accounted
  <2>1. Serves(p, e) /\ process'[p] = process[p]
    BY <1>1
  <2>2. p \in W!Verified(e) => p \in W!Verified(e)'
    BY <2>1, VerifiedMeans, VerifiedMeansAfter
  <2> QED BY <2>1, <2>2 DEF WinWorkers, Accounted
<1> QED BY <1>3, <1>4, <1>5 DEF WinWorkers

\* For a command that moves between places that are no such ones.
LEMMA WorkersPass ==
    ASSUME WinTypes, WinWorkers, NoNewWorker, UNCHANGED record, NEW c \in Cli, NEW pcs, WinMoves(c, pcs),
           job[c].pc # "record", job'[c].pc # "record",
           job'[c].pc \in Cleared => (job[c].pc \in Cleared /\ job'[c].env = job[c].env) \/ \A p \in Pid : ~Serves(p, job[c].env)'
    PROVE  WinWorkers'
<1>1. \A d \in Cli : job'[d].pc \in Cleared =>
               (job[d].pc \in Cleared /\ job'[d].env = job[d].env) \/ \A p \in Pid : ~Serves(p, job[d].env)'
  BY DEF WinMoves
<1>2. \A d \in Cli : (job'[d].pc = "record" <=> job[d].pc = "record") /\ (job[d].pc = "record" => job'[d] = job[d])
  BY DEF WinMoves
<1> QED BY <1>1, <1>2, WorkersKept

LEMMA OnlyOneActs ==
    ASSUME WinBasics, NEW c \in Cli, NEW d \in Cli, job[c].env = job[d].env,
           job[c].pc \notin Waiting, job[d].pc \notin Waiting
    PROVE  c = d
BY DEF WinBasics, WinHolds
LEMMA VerifiedAreAll ==
    ASSUME WinBasics, WinWorkers, NEW c \in Cli, job[c].pc \notin Waiting, job[c].pc # "record",
           NEW p \in Pid, Serves(p, job[c].env)
    PROVE  p \in W!Verified(job[c].env)
<1>1. job[c].env \in Env
  BY DEF WinBasics, WinTypes, WinJobs
<1> QED BY <1>1, OnlyOneActs DEF WinWorkers, Accounted, Waiting

LEMMA WorkersBegin ==
    ASSUME WinBasics, WinWorkers, NEW c \in Cli, NEW k \in W!Kind, NEW e \in Env, W!Begin(c, k, e)
    PROVE  WinWorkers'
<1>1. NoNewWorker
  BY BeginDoes DEF WinBasics, NoNewWorker, W!Worker
<1> QED BY <1>1, BeginDoes, WorkersPass DEF WinBasics, WinMoves, Cleared

LEMMA WorkersInspect ==
    ASSUME WinBasics, WinWorkers, NEW c \in Cli, W!Inspect(c)
    PROVE  WinWorkers'
<1>1. UNCHANGED process /\ job[c].pc = "inspect" /\ UNCHANGED record
  BY InspectDoes DEF WinBasics
<1>2. NoNewWorker
  BY <1>1 DEF NoNewWorker
<1>3. ASSUME job'[c].pc \in Cleared PROVE \A p \in Pid : ~Serves(p, job[c].env)'
  <2>1. W!Verified(job[c].env) = {} /\ job'[c].env = job[c].env
    BY <1>3, InspectDoes DEF WinBasics, WinMoves, SameCommand, Cleared
  <2>2. \A p \in Pid : ~Serves(p, job[c].env)
    BY <1>1, <2>1, VerifiedAreAll DEF Waiting
  <2> QED BY <1>1, <2>1, <2>2 DEF Serves
<1>4. \E pcs : WinMoves(c, pcs) /\ "record" \notin pcs
  BY InspectDoes DEF WinBasics
<1>5. job'[c].pc # "record"
  BY <1>4 DEF WinMoves
<1> QED BY <1>1, <1>2, <1>3, <1>4, <1>5, WorkersPass DEF WinBasics

LEMMA WorkersKill ==
    ASSUME WinBasics, WinWorkers, NEW c \in Cli, W!Kill(c)
    PROVE  WinWorkers'
<1>1. job[c].pc = "kill" /\ UNCHANGED record
  BY KillDoes DEF WinBasics
<1>2. NoNewWorker
  BY KillDoes, NoneNew DEF WinBasics
<1>3. ASSUME job'[c].pc \in Cleared PROVE \A p \in Pid : ~Serves(p, job[c].env)'
  <2>1. process' = W!Without(W!Verified(job[c].env)) /\ job'[c].env = job[c].env
    BY <1>3, KillDoes DEF WinBasics, WinMoves, Cleared
  <2> SUFFICES ASSUME NEW p \in Pid, Serves(p, job[c].env)' PROVE FALSE
    OBVIOUS
  <2>2. Serves(p, job[c].env) /\ process'[p].role # "none"
    BY <1>2, <2>1 DEF NoNewWorker, Serves, W!Worker
  <2>3. p \in W!Verified(job[c].env)
    BY <1>1, <2>2, VerifiedAreAll DEF Waiting
  <2> QED BY <2>1, <2>2, <2>3, WithoutType DEF WinBasics
<1>4. \E pcs : WinMoves(c, pcs) /\ "record" \notin pcs
  BY KillDoes DEF WinBasics
<1>5. job'[c].pc # "record"
  BY <1>4 DEF WinMoves
<1> QED BY <1>1, <1>2, <1>3, <1>4, <1>5, WorkersPass DEF WinBasics

LEMMA WorkersEndFollower ==
    ASSUME WinBasics, WinWorkers, NEW c \in Cli, W!EndFollower(c)
    PROVE  WinWorkers'
<1>1. CASE \E p \in Pid : EndsRegistered(c, p)
  <2>1. PICK p \in Pid : EndsRegistered(c, p)
    BY <1>1
  <2>2. NoNewWorker
    BY <2>1 DEF EndsRegistered, NoNewWorker, W!Worker
  <2>3. UNCHANGED record /\ job[c].pc = "followers"
    BY EndFollowerDoes DEF WinBasics
  <2>4. \A d \in Cli : (job'[d].pc = job[d].pc /\ job'[d].env = job[d].env) \/ (job'[d] = W!Idle /\ job[d].kind = "logs" /\ d # c)
    BY <2>1 DEF EndsRegistered, SameButListed
  <2>5. \A d \in Cli : job'[d].pc \in Cleared => job[d].pc \in Cleared /\ job'[d].env = job[d].env
    BY <2>4, Idles DEF Cleared
  <2>6. \A d \in Cli : (job'[d].pc = "record" <=> job[d].pc = "record") /\ (job[d].pc = "record" => job'[d] = job[d])
    <3>1. \A d \in Cli : job[d].pc = "record" => job[d].kind # "logs"
      BY DEF WinBasics, WinKinds, KindFits, Ending
    <3> QED BY <2>1, <2>3, <2>4, <3>1, Idles DEF EndsRegistered
  <2> QED BY <2>2, <2>3, <2>5, <2>6, WorkersKept DEF WinBasics
<1>2. CASE ~\E p \in Pid : EndsRegistered(c, p)
  <2>1. UNCHANGED <<process, record>> /\ WinMoves(c, {"idle", "lock"}) /\ job[c].pc = "followers"
    BY <1>2, EndFollowerDoes DEF WinBasics
  <2>2. NoNewWorker
    BY <2>1 DEF NoNewWorker
  <2> QED BY <2>1, <2>2, WorkersPass DEF WinBasics, WinMoves, Cleared
<1> QED BY <1>1, <1>2

LEMMA WorkersForget ==
    ASSUME WinBasics, WinWorkers, NEW c \in Cli, W!Forget(c)
    PROVE  WinWorkers'
<1>0. job[c].pc = "forget" /\ job[c].kind # "logs"
  BY DEF W!Forget, W!At, WinBasics, WinKinds, KindFits, Ending
<1>1. UNCHANGED process /\ \A e \in Env \ {job[c].env} : record'[e] = record[e]
  BY <1>0, ForgetDoes DEF WinBasics
<1>2. \A p \in Pid : ~Serves(p, job[c].env)
  BY <1>0 DEF WinWorkers, Clear, Cleared
<1>3. /\ job'[c].pc \in {"ensure", "idle", "lock"} /\ \A d \in Cli \ {c} : job'[d] = job[d]
      /\ job'[c].pc = "ensure" => job'[c].env = job[c].env
  BY <1>0, ForgetDoes DEF WinBasics, WinMoves, SameCommand
<1>4. \A p \in Pid, e \in Env : Serves(p, e)' <=> Serves(p, e)
  BY <1>1 DEF Serves
<1>5. \A d \in Cli : Clear(d)' /\ Recording(d)'
  <2> SUFFICES ASSUME NEW d \in Cli PROVE Clear(d)' /\ Recording(d)'
    OBVIOUS
  <2>1. CASE d = c
    BY <1>1, <1>2, <1>3, <2>1 DEF Clear, Recording, Serves, Cleared
  <2>2. CASE d # c
    BY <1>1, <1>3, <2>2 DEF Clear, Recording, Serves, WinWorkers
  <2> QED BY <2>1, <2>2
<1>6. Accounted'
  <2> SUFFICES ASSUME NEW p \in Pid, NEW e \in Env, Serves(p, e)'
               PROVE  p \in W!Verified(e)' \/ \E d \in Cli : job'[d].pc = "record" /\ job'[d].env = e
    BY DEF Accounted
  <2>1. Serves(p, e) /\ e # job[c].env
    BY <1>2, <1>4
  <2>2. p \in W!Verified(e) => p \in W!Verified(e)'
    BY <1>1, <2>1, VerifiedMeans, VerifiedMeansAfter
  <2>3. \A d \in Cli : job[d].pc = "record" => job'[d] = job[d]
    BY <1>0, <1>3
  <2> QED BY <2>1, <2>2, <2>3 DEF WinWorkers, Accounted
<1> QED BY <1>5, <1>6 DEF WinWorkers

LEMMA WorkersSpawn ==
    ASSUME WinBasics, WinWorkers, NEW c \in Cli, W!Spawn(c)
    PROVE  WinWorkers'
<1>0. job[c].pc = "spawn" /\ UNCHANGED record /\ job[c].env \in Env
  BY SpawnDoes DEF WinBasics, WinTypes, WinJobs
<1>1. CASE UNCHANGED process /\ WinMoves(c, {"idle"})
  <2>1. NoNewWorker
    BY <1>1 DEF NoNewWorker
  <2> QED BY <1>0, <1>1, <2>1, WorkersPass DEF WinBasics, WinMoves, Cleared
<1>2. CASE /\ WinMoves(c, {"record"}) /\ job'[c].env = job[c].env /\ job'[c].pid \in Pid
           /\ Spawns(job'[c].pid, job'[c].born, "worker", job[c].env)
  <2>1. \A p \in Pid : ~Serves(p, job[c].env)
    BY <1>0 DEF WinWorkers, Clear, Cleared
  <2>2. \A p \in Pid, e \in Env : Serves(p, e)' =>
           \/ Serves(p, e) /\ process'[p] = process[p] /\ e # job[c].env
           \/ p = job'[c].pid /\ process'[p].born = job'[c].born /\ e = job[c].env
    BY <1>2, <2>1 DEF Spawns, Serves
  <2>3. \A d \in Cli \ {c} : job'[d] = job[d]
        /\ (job[d].pc \in Cleared \cup {"record"} => job[d].env # job[c].env)
        /\ job[d].env \in Env
    BY <1>0, <1>2, OnlyOneActs DEF WinMoves, Waiting, Cleared, WinBasics, WinTypes, WinJobs
  <2>4. \A d \in Cli : Clear(d)' /\ Recording(d)'
    <3> SUFFICES ASSUME NEW d \in Cli PROVE Clear(d)' /\ Recording(d)'
      OBVIOUS
    <3>1. CASE d = c
      <4>1. job'[c].pc = "record"
        BY <1>2 DEF WinMoves
      <4>2. \A p \in Pid : Serves(p, job[c].env)' => p = job'[c].pid /\ process'[p].born = job'[c].born
        BY <1>0, <1>2, <2>2 DEF Serves
      <4> QED BY <3>1, <4>1, <4>2 DEF Clear, Recording, Cleared
    <3>2. CASE d # c
      <4>1. job'[d] = job[d] /\ job[d].env \in Env /\ (job[d].pc \in Cleared \cup {"record"} => job[d].env # job[c].env)
        BY <2>3, <3>2
      <4>2. job[d].pc \in Cleared \cup {"record"} =>
               \A p \in Pid : Serves(p, job[d].env)' => Serves(p, job[d].env) /\ process'[p] = process[p]
        BY <2>2, <4>1 DEF Serves
      <4>3. Clear(d) /\ Recording(d)
        BY DEF WinWorkers
      <4> QED BY <4>1, <4>2, <4>3 DEF Clear, Recording
    <3> QED BY <3>1, <3>2
  <2>5. Accounted'
    <3> SUFFICES ASSUME NEW p \in Pid, NEW e \in Env, Serves(p, e)'
                 PROVE  p \in W!Verified(e)' \/ \E d \in Cli : job'[d].pc = "record" /\ job'[d].env = e
      BY DEF Accounted
    <3>1. CASE e = job[c].env
      BY <1>2, <3>1 DEF WinMoves
    <3>2. CASE e # job[c].env
      <4>1. Serves(p, e) /\ process'[p] = process[p]
        BY <2>2, <3>2
      <4>2. p \in W!Verified(e) => p \in W!Verified(e)'
        BY <1>0, <4>1, VerifiedMeans, VerifiedMeansAfter
      <4>3. \A d \in Cli : job[d].pc = "record" => job'[d] = job[d]
        BY <1>0, <2>3
      <4> QED BY <4>1, <4>2, <4>3 DEF WinWorkers, Accounted
    <3> QED BY <3>1, <3>2
  <2> QED BY <2>4, <2>5 DEF WinWorkers
<1> QED BY <1>1, <1>2, SpawnDoes DEF WinBasics

LEMMA WorkersRecord ==
    ASSUME WinBasics, WinWorkers, NEW c \in Cli, W!Record(c)
    PROVE  WinWorkers'
<1>0. job[c].pc = "record" /\ WinMoves(c, {"idle"}) /\ job[c].env \in Env /\ job[c].pid \in Pid
  BY RecordDoes DEF WinBasics, WinTypes, WinJobs, WinKinds, KindFits
<1>1. NoNewWorker
  BY RecordDoes, NoneNew DEF WinBasics
<1>2. \A e \in Env \ {job[c].env} : record'[e] = record[e]
  BY RecordDoes DEF WinBasics
<1>3. \A d \in Cli \ {c} : job'[d] = job[d] /\ (job[d].pc \in Cleared \cup {"record"} => job[d].env # job[c].env)
  BY <1>0, OnlyOneActs DEF WinMoves, Waiting, Cleared
<1>4. \A p \in Pid : Serves(p, job[c].env) => p = job[c].pid /\ process[p].born = job[c].born
  BY <1>0 DEF WinWorkers, Recording
<1>5. \A p \in Pid, e \in Env : Serves(p, e)' => Serves(p, e) /\ process'[p] = process[p]
  BY <1>1 DEF NoNewWorker, Serves
<1>6. \A d \in Cli : Clear(d)' /\ Recording(d)'
  <2> SUFFICES ASSUME NEW d \in Cli PROVE Clear(d)' /\ Recording(d)'
    OBVIOUS
  <2>1. CASE d = c
    BY <1>0, <2>1 DEF Clear, Recording, Cleared, WinMoves
  <2>2. CASE d # c
    <3>1. job'[d] = job[d] /\ Clear(d) /\ Recording(d)
      BY <1>3, <2>2 DEF WinWorkers
    <3>2. \A p \in Pid : Serves(p, job[d].env)' => Serves(p, job'[d].env) /\ process'[p] = process[p]
      BY <1>1 DEF NoNewWorker, Serves
    <3> QED BY <3>1, <3>2 DEF Clear, Recording
  <2> QED BY <2>1, <2>2
<1>7. Accounted'
  <2> SUFFICES ASSUME NEW p \in Pid, NEW e \in Env, Serves(p, e)'
               PROVE  p \in W!Verified(e)' \/ \E d \in Cli : job'[d].pc = "record" /\ job'[d].env = e
    BY DEF Accounted
  <2>1. Serves(p, e) /\ process'[p] = process[p] /\ process'[p].role # "none"
    BY <1>5 DEF Serves, W!Worker
  <2>2. CASE e = job[c].env
    <3>1. p = job[c].pid /\ process[p].born = job[c].born
      BY <1>4, <2>1, <2>2
    <3>2. CASE record'[job[c].env] = [pid |-> job[c].pid, born |-> job[c].born, env |-> job[c].env, bare |-> FALSE]
      BY <2>1, <2>2, <3>1, <3>2, VerifiedMeansAfter
    <3>3. CASE process' = W!Without({q \in {job[c].pid} : W!Runs(q, job[c].born)})
      <4>1. p # Nobody
        BY PartsAssumption DEF W!WindowsServiceAssumption
      <4>2. W!Runs(p, job[c].born)
        BY <2>1, <3>1, <4>1 DEF W!Runs
      <4>3. p \in {q \in {job[c].pid} : W!Runs(q, job[c].born)}
        BY <3>1, <4>2
      <4> QED BY <2>1, <3>3, <4>3, WithoutType DEF WinBasics
    <3> QED BY <3>2, <3>3, RecordDoes DEF WinBasics
  <2>3. CASE e # job[c].env
    <3>1. p \in W!Verified(e) => p \in W!Verified(e)'
      BY <1>2, <2>1, <2>3, VerifiedMeans, VerifiedMeansAfter
    <3>2. \A d \in Cli : job[d].pc = "record" /\ job[d].env = e => job'[d] = job[d]
      BY <1>3, <2>3
    <3> QED BY <2>1, <3>1, <3>2 DEF WinWorkers, Accounted
  <2> QED BY <2>2, <2>3
<1> QED BY <1>6, <1>7 DEF WinWorkers

\* The other steps neither start a worker nor touch the state file.
LEMMA WorkersElse ==
    ASSUME WinBasics, WinWorkers, NEW c \in Cli,
           \/ W!Lock(c) \/ W!NoFollowersLeft(c) \/ W!Ensure(c) \/ W!SpawnFollower(c) \/ W!Register(c)
           \/ W!Unregister(c) \/ W!CloseConsole(c)
    PROVE  WinWorkers'
<1>0. W!Unregister(c) => job[c].pid \in Pid
  BY DEF W!Unregister, W!At, WinBasics, WinKinds, KindFits, Logging
<1>1. NoNewWorker /\ UNCHANGED record
  BY <1>0, LockDoes, NoFollowersLeftDoes, EnsureDoes, SpawnFollowerDoes, RegisterDoes, UnregisterDoes, CloseConsoleDoes,
     NoneNew DEF WinBasics
<1>2. WinMoves(c, WinPcs \ {"record"})
  <2>1. PICK pcs \in SUBSET (WinPcs \ {"record"}) : WinMoves(c, pcs)
    BY <1>0, LockDoes, NoFollowersLeftDoes, EnsureDoes, SpawnFollowerDoes, RegisterDoes, UnregisterDoes, CloseConsoleDoes
       DEF WinBasics, WinPcs
  <2> QED BY <2>1 DEF WinMoves
<1>3. job[c].pc # "record" /\ (job'[c].pc \in Cleared => job[c].pc \in Cleared /\ job'[c].env = job[c].env)
  <2>1. (W!Lock(c) \/ W!SpawnFollower(c) \/ W!Register(c) \/ W!Unregister(c) \/ W!CloseConsole(c))
          => job'[c].pc \notin Cleared
    BY <1>0, LockDoes, SpawnFollowerDoes, RegisterDoes, UnregisterDoes, CloseConsoleDoes DEF WinBasics, WinMoves, Cleared
  <2>2. (W!NoFollowersLeft(c) \/ W!Ensure(c)) => (job[c].pc \in Cleared /\ SameCommand(c)) \/ job'[c].pc \notin Cleared
    BY NoFollowersLeftDoes, EnsureDoes DEF WinBasics, WinMoves, Cleared
  <2>3. job[c].pc # "record"
    BY <1>0, LockDoes, NoFollowersLeftDoes, EnsureDoes, SpawnFollowerDoes, RegisterDoes, UnregisterDoes, CloseConsoleDoes
       DEF WinBasics
  <2> QED BY <2>1, <2>2, <2>3 DEF SameCommand
<1>4. job'[c].pc # "record"
  BY <1>2 DEF WinMoves
<1> QED BY <1>1, <1>2, <1>3, <1>4, WorkersPass DEF WinBasics

LEMMA WorkersOthers ==
    ASSUME WinBasics, WinWorkers, NEW p \in Pid, W!Exits(p) \/ W!Appears(p)
    PROVE  WinWorkers'
<1>1. NoNewWorker /\ UNCHANGED <<record, job>>
  BY ExitsDoes, AppearsDoes, NoneNew DEF WinBasics
<1> QED BY <1>1, WorkersKept DEF WinBasics

LEMMA WorkersNext == ASSUME WinBasics, WinWorkers, W!Next PROVE WinWorkers'
<1>1. ASSUME NEW c \in Cli, W!Step(c) \/ W!CloseConsole(c) PROVE WinWorkers'
  BY <1>1, WorkersInspect, WorkersKill, WorkersEndFollower, WorkersForget, WorkersSpawn, WorkersRecord, WorkersElse DEF W!Step
<1> QED BY <1>1, WorkersBegin, WorkersOthers DEF W!Next

LEMMA WinInit == W!Init => WinBasics /\ WinWorkers
<1> SUFFICES ASSUME W!Init PROVE WinBasics /\ WinWorkers
  OBVIOUS
<1>1. PICK p \in Pid, role \in W!Role \ {"logs", "follower"}, d \in Env \ Isolated, bare \in BOOLEAN, copied \in BOOLEAN :
          /\ \A q \in Pid : p <= q
          /\ role = "worker" => ~bare
          /\ role = "legacy" => bare
          /\ process = [q \in Pid |-> IF q = p /\ role # "none" THEN [born |-> 1, role |-> role, env |-> d]
                                     ELSE [born |-> 0, role |-> "none", env |-> d]]
          /\ record = [e \in Env |->
                IF role = "none" \/ (e # d /\ ~copied) THEN W!NoRecord
                ELSE IF bare THEN [W!NoRecord EXCEPT !.pid = p, !.bare = TRUE]
                ELSE [pid |-> p, born |-> IF role = "worker" THEN 1 ELSE 0, env |-> d, bare |-> FALSE]]
  BY Zenon DEF W!Init
<1>2. 0 \in WinBorn /\ 1 \in WinBorn
  BY PartsAssumption DEF W!WindowsServiceAssumption, WinBorn
<1>3. process \in [Pid -> WinProcesses]
  BY <1>1, <1>2 DEF WinProcesses, W!Role
<1>4. record \in [Env -> WinRecords]
  BY <1>1, <1>2 DEF WinRecords, W!NoRecord
<1>5. followers \in [Env -> [Pid -> WinFollowers]] /\ lock \in [Env -> Cli \cup {Nobody}] /\ job \in [Cli -> WinJobs]
  BY Idles, NoFollowerType DEF W!Init
<1>6. \A c \in Cli : job[c] = W!Idle
  BY DEF W!Init
<1>7. WinBasics
  BY <1>3, <1>4, <1>5, <1>6, Idles, IdleFits DEF WinBasics, WinTypes, WinHolds, WinKinds, Waiting
<1>8. \A c \in Cli : Clear(c) /\ Recording(c)
  BY <1>6, Idles DEF Clear, Recording, Cleared
<1>9. \A q \in Pid, e \in Env : Serves(q, e) => q = p /\ e = d /\ role \in {"worker", "legacy"} /\ process[q].role = role /\ process[q].born = 1
  BY <1>1 DEF Serves, W!Worker
<1>10. role = "worker" => record[d].pid = p /\ ~record[d].bare /\ record[d].born = 1
  BY <1>1
<1>11. role = "legacy" => record[d].pid = p /\ record[d].bare
  BY <1>1 DEF W!NoRecord
<1>12. Accounted
  BY <1>9, <1>10, <1>11, VerifiedMeans DEF Accounted
<1> QED BY <1>7, <1>8, <1>12 DEF WinWorkers

LEMMA WinKnown == WinBasics /\ WinWorkers => W!NoLostWorker
<1> SUFFICES ASSUME WinBasics, WinWorkers, NEW e \in Env, lock[e] = Nobody,
                    NEW p \in Pid, process[p].role \in W!Worker, process[p].env = e
             PROVE  p \in W!Verified(e)
  BY DEF W!NoLostWorker
<1>1. Serves(p, e)
  BY DEF Serves
<1>2. \A c \in Cli : job[c].env = e => job[c].pc \in Waiting
  BY BackgroundAssumption DEF WinBasics, WinHolds
<1> QED BY <1>1, <1>2 DEF WinWorkers, Accounted, Waiting

(* What a file or a command names. *)

\* No process but one of this role and environment was ever born there then.
Identifies(p, born, role, e) ==
    /\ p \in Pid /\ born <= process[p].born
    /\ process[p].role # "none" /\ process[p].born = born => process[p].role = role /\ process[p].env = e
IdentifiesAfter(p, born, role, e) ==
    /\ p \in Pid /\ born <= process'[p].born
    /\ process'[p].role # "none" /\ process'[p].born = born => process'[p].role = role /\ process'[p].env = e
\* Pids are given again, to younger processes.
Ages ==
    /\ process' \in [Pid -> WinProcesses]
    /\ \A p \in Pid : \/ process'[p] = process[p]
                      \/ process'[p].role = "none" /\ process'[p].born = process[p].born
                      \/ /\ process[p].role = "none" /\ process'[p].born = process[p].born + 1
                         /\ process'[p].role # "legacy"
LEMMA IdentifiesStays ==
    ASSUME WinTypes, Ages, NEW p, NEW born \in WinBorn, NEW role, NEW e, Identifies(p, born, role, e)
    PROVE  IdentifiesAfter(p, born, role, e)
<1>1. process[p].born \in WinBorn /\ process'[p].born \in WinBorn
  BY DEF Identifies, WinTypes, WinProcesses, Ages
<1>2. MaxBorn \in Nat
  BY PartsAssumption DEF W!WindowsServiceAssumption
<1> QED BY <1>1, <1>2 DEF Identifies, IdentifiesAfter, Ages, WinBorn

Followed == {"register", "release", "wait"}
LegacyIsDefault == \A p \in Pid : process[p].role = "legacy" => process[p].env \notin Isolated
RecordsName == \A e \in Env : record[e].pid \in Pid /\ ~record[e].bare =>
    Identifies(record[e].pid, record[e].born, "worker", record[e].env)
FilesName == \A e \in Env, p \in Pid : followers[e][p] # W!NoFollower =>
    /\ Identifies(p, followers[e][p].born, "logs", e)
    /\ Identifies(followers[e][p].child, followers[e][p].childBorn, "follower", e)
JobName(c) ==
    /\ job[c].pc = "record" => Identifies(job[c].pid, job[c].born, "worker", job[c].env)
    /\ job[c].pc \in Followed => /\ Identifies(job[c].child.child, job[c].child.childBorn, "follower", job[c].env)
                                 /\ job[c].child.born = job[c].born
JobsName == \A c \in Cli : JobName(c)
\* saiai logs runs as long as its command, under a pid of its own.
LogsRun(c) == job[c].kind = "logs" /\ job[c].pc # "idle"
LogsLive == \A c \in Cli : LogsRun(c) =>
    process[job[c].pid].role = "logs" /\ process[job[c].pid].born = job[c].born /\ process[job[c].pid].env = job[c].env
LogsDiffer == \A c, d \in Cli : LogsRun(c) /\ LogsRun(d) /\ job[c].pid = job[d].pid => c = d
WinNames == LegacyIsDefault /\ RecordsName /\ FilesName /\ JobsName /\ LogsLive /\ LogsDiffer

LEMMA LegacyKept == ASSUME WinTypes, LegacyIsDefault, Ages PROVE LegacyIsDefault'
BY DEF LegacyIsDefault, Ages
LEMMA RecordsKept ==
    ASSUME WinTypes, RecordsName, Ages,
           \A e \in Env : \/ record'[e] = record[e] \/ record'[e].pid \notin Pid
                          \/ IdentifiesAfter(record'[e].pid, record'[e].born, "worker", record'[e].env)
    PROVE  RecordsName'
<1>1. \A e \in Env : record[e].born \in WinBorn
  BY DEF WinTypes, WinRecords
<1> SUFFICES ASSUME NEW e \in Env, record'[e].pid \in Pid, ~record'[e].bare
             PROVE  Identifies(record[e].pid, record[e].born, "worker", record[e].env)'
  BY DEF RecordsName
<1>2. IdentifiesAfter(record'[e].pid, record'[e].born, "worker", record'[e].env)
  BY <1>1, IdentifiesStays DEF RecordsName
<1> QED BY <1>2 DEF Identifies, IdentifiesAfter
LEMMA FilesKept ==
    ASSUME WinTypes, FilesName, Ages,
           \A e \in Env, p \in Pid : \/ followers'[e][p] = followers[e][p] \/ followers'[e][p] = W!NoFollower
                                     \/ /\ IdentifiesAfter(p, followers'[e][p].born, "logs", e)
                                        /\ IdentifiesAfter(followers'[e][p].child, followers'[e][p].childBorn, "follower", e)
    PROVE  FilesName'
<1>1. \A e \in Env, p \in Pid : followers[e][p].born \in WinBorn /\ followers[e][p].childBorn \in WinBorn
  BY DEF WinTypes, WinFollowers
<1> SUFFICES ASSUME NEW e \in Env, NEW p \in Pid, followers'[e][p] # W!NoFollower
             PROVE  /\ Identifies(p, followers[e][p].born, "logs", e)'
                    /\ Identifies(followers[e][p].child, followers[e][p].childBorn, "follower", e)'
  BY DEF FilesName, W!NoFollower
<1>2. /\ IdentifiesAfter(p, followers'[e][p].born, "logs", e)
      /\ IdentifiesAfter(followers'[e][p].child, followers'[e][p].childBorn, "follower", e)
  <2>1. CASE followers'[e][p] = followers[e][p]
    <3>1. Identifies(p, followers[e][p].born, "logs", e) /\ Identifies(followers[e][p].child, followers[e][p].childBorn, "follower", e)
      BY <2>1 DEF FilesName
    <3> QED BY <1>1, <2>1, <3>1, IdentifiesStays
  <2> QED BY <2>1
<1> QED BY <1>2 DEF Identifies, IdentifiesAfter
LEMMA JobsKept ==
    ASSUME WinTypes, JobsName, Ages,
           \A c \in Cli :
              /\ job'[c].pc = "record" => \/ job'[c] = job[c]
                                          \/ IdentifiesAfter(job'[c].pid, job'[c].born, "worker", job'[c].env)
              /\ job'[c].pc \in Followed =>
                    \/ /\ job[c].pc \in Followed /\ job'[c].child = job[c].child /\ job'[c].env = job[c].env
                       /\ job'[c].born = job[c].born
                    \/ /\ IdentifiesAfter(job'[c].child.child, job'[c].child.childBorn, "follower", job'[c].env)
                       /\ job'[c].child.born = job'[c].born
    PROVE  JobsName'
<1> SUFFICES ASSUME NEW c \in Cli PROVE JobName(c)'
  BY DEF JobsName
<1>0. job[c].born \in WinBorn /\ job[c].child.childBorn \in WinBorn
  BY DEF WinTypes, WinJobs, WinFollowers
<1>1. ASSUME job'[c].pc = "record" PROVE IdentifiesAfter(job'[c].pid, job'[c].born, "worker", job'[c].env)
  BY <1>0, <1>1, IdentifiesStays DEF JobsName, JobName
<1>2. ASSUME job'[c].pc \in Followed
      PROVE  /\ IdentifiesAfter(job'[c].child.child, job'[c].child.childBorn, "follower", job'[c].env)
             /\ job'[c].child.born = job'[c].born
  <2>1. CASE /\ job[c].pc \in Followed /\ job'[c].child = job[c].child /\ job'[c].env = job[c].env
             /\ job'[c].born = job[c].born
    BY <1>0, <2>1, IdentifiesStays DEF JobsName, JobName
  <2> QED BY <1>2, <2>1
<1> QED BY <1>1, <1>2 DEF JobName, Identifies, IdentifiesAfter
LEMMA LogsKept ==
    ASSUME LogsLive, LogsDiffer,
           \A d \in Cli : job'[d].kind = "logs" /\ job'[d].pc # "idle" =>
               /\ LogsRun(d) /\ job'[d].pid = job[d].pid /\ job'[d].born = job[d].born /\ job'[d].env = job[d].env
               /\ process'[job[d].pid] = process[job[d].pid]
    PROVE  LogsLive' /\ LogsDiffer'
BY DEF LogsLive, LogsDiffer, LogsRun

LEMMA AgesWhen ==
    ASSUME WinTypes
    PROVE  /\ UNCHANGED process => Ages
           /\ OnlyEnds => Ages
           /\ \A ended : process' = W!Without(ended) => Ages
           /\ \A p, born, e : \A role \in {"worker", "logs", "follower", "other", "protected"} : Spawns(p, born, role, e) => Ages
BY WithoutEnds DEF Ages, OnlyEnds, Spawns, WinTypes
LEMMA SpawnIdentifies ==
    ASSUME WinTypes, NEW p \in Pid, NEW born, NEW role, NEW e, Spawns(p, born, role, e)
    PROVE  IdentifiesAfter(p, born, role, e)
<1>1. process'[p].born \in WinBorn /\ MaxBorn \in Nat
  BY PartsAssumption DEF Spawns, W!WindowsServiceAssumption, WinProcesses
<1> QED BY <1>1 DEF Spawns, IdentifiesAfter, WinBorn

\* A command goes on, ends or begins, and no other saiai logs is ended.
LEMMA NamesMove ==
    ASSUME WinTypes, WinNames, Ages, NEW c \in Cli, NEW pcs, WinMoves(c, pcs), "record" \notin pcs,
           \A e \in Env : record'[e] = record[e] \/ record'[e].pid \notin Pid,
           \A e \in Env, p \in Pid : followers'[e][p] = followers[e][p] \/ followers'[e][p] = W!NoFollower,
           \/ job'[c].pc = "idle"
           \/ job'[c].pc \notin Followed /\ job'[c].kind # "logs"
           \/ SameCommand(c) /\ job[c].pc # "idle" /\ (job'[c].pc \in Followed => job[c].pc \in Followed),
           \A d \in Cli : LogsRun(d) /\ job'[d].pc # "idle" => process'[job[d].pid] = process[job[d].pid]
    PROVE  WinNames'
<1>1. LegacyIsDefault'
  BY LegacyKept DEF WinNames
<1>2. RecordsName'
  BY RecordsKept DEF WinNames
<1>3. FilesName'
  BY FilesKept DEF WinNames
<1>4. \A d \in Cli : job'[d].pc = "record" => job'[d] = job[d]
  BY DEF WinMoves
<1>5. \A d \in Cli : job'[d].pc \in Followed =>
         /\ job[d].pc \in Followed /\ job'[d].child = job[d].child /\ job'[d].env = job[d].env /\ job'[d].born = job[d].born
  BY DEF WinMoves, SameCommand, Followed
<1>6. JobsName'
  BY <1>4, <1>5, JobsKept DEF WinNames
<1>7. \A d \in Cli : job'[d].kind = "logs" /\ job'[d].pc # "idle" =>
         /\ LogsRun(d) /\ job'[d].pid = job[d].pid /\ job'[d].born = job[d].born /\ job'[d].env = job[d].env
         /\ process'[job[d].pid] = process[job[d].pid]
  BY DEF WinMoves, SameCommand, LogsRun
<1>8. LogsLive' /\ LogsDiffer'
  BY <1>7, LogsKept DEF WinNames
<1> QED BY <1>1, <1>2, <1>3, <1>6, <1>8 DEF WinNames

\* The actions that end and start no process.
LEMMA NamesQuiet ==
    ASSUME WinBasics, WinNames, NEW c \in Cli,
           W!Lock(c) \/ W!Inspect(c) \/ W!NoFollowersLeft(c) \/ W!Forget(c) \/ W!Ensure(c)
    PROVE  WinNames'
<1>0. WinTypes /\ KindFits(job[c])
  BY DEF WinBasics, WinKinds
<1>1. UNCHANGED <<process, followers>>
  BY <1>0 DEF W!Lock, W!Inspect, W!NoFollowersLeft, W!Forget, W!Ensure
<1>2. \A e \in Env : record'[e] = record[e] \/ record'[e].pid \notin Pid
  <2>1. CASE W!Forget(c)
    <3>1. job[c].kind # "logs"
      BY <1>0, <2>1 DEF W!Forget, W!At, KindFits, Ending
    <3>2. W!NoRecord.pid \notin Pid
      BY PartsAssumption DEF W!NoRecord, W!WindowsServiceAssumption
    <3> QED BY <1>0, <2>1, <3>1, <3>2, ForgetDoes
  <2>2. CASE W!Lock(c) \/ W!Inspect(c) \/ W!NoFollowersLeft(c) \/ W!Ensure(c)
    BY <2>2 DEF W!Lock, W!Inspect, W!NoFollowersLeft, W!Ensure
  <2> QED BY <2>1, <2>2
<1>3. ASSUME W!Lock(c) PROVE WinNames'
  <2>1. WinMoves(c, {"inspect", "follow", "kill"}) /\ SameCommand(c) /\ job[c].pc = "lock"
    BY <1>0, <1>3, LockDoes
  <2>2. job'[c].pc \notin Followed
    BY <2>1 DEF WinMoves, Followed
  <2> QED BY <1>0, <1>1, <1>2, <2>1, <2>2, AgesWhen, NamesMove
<1>4. ASSUME W!Inspect(c) \/ W!NoFollowersLeft(c) \/ W!Forget(c) \/ W!Ensure(c) PROVE WinNames'
  <2>1. WinMoves(c, {"idle", "lock", "kill", "forget", "ensure", "spawn"}) /\ job[c].kind # "logs"
    <3>1. job[c].kind # "logs"
      BY <1>0, <1>4 DEF W!Inspect, W!NoFollowersLeft, W!Forget, W!Ensure, W!At, KindFits, Ending
    <3>2. W!Inspect(c) \/ W!NoFollowersLeft(c) => WinMoves(c, {"idle", "lock", "kill", "forget", "ensure", "spawn"})
      BY <1>0, InspectDoes, NoFollowersLeftDoes DEF WinMoves
    <3>3. W!Forget(c) \/ W!Ensure(c) => WinMoves(c, {"idle", "lock", "kill", "forget", "ensure", "spawn"})
      BY <1>0, <3>1, ForgetDoes, EnsureDoes DEF WinMoves
    <3> QED BY <1>4, <3>1, <3>2, <3>3
  <2>2. job'[c].pc \notin Followed /\ (job'[c].pc = "idle" \/ job'[c].kind # "logs")
    <3>1. job'[c].pc = "idle" \/ job'[c].kind \in {job[c].kind, "start"}
      <4>1. CASE W!Inspect(c)
        BY <1>0, <4>1, InspectDoes DEF WinMoves, SameCommand
      <4>2. CASE W!NoFollowersLeft(c)
        BY <1>0, <4>2, NoFollowersLeftDoes DEF WinMoves, SameCommand
      <4>3. CASE W!Forget(c)
        BY <1>0, <2>1, <4>3, ForgetDoes DEF WinMoves, SameCommand
      <4>4. CASE W!Ensure(c)
        BY <1>0, <4>4, EnsureDoes DEF WinMoves, SameCommand
      <4> QED BY <1>4, <4>1, <4>2, <4>3, <4>4
    <3> QED BY <2>1, <3>1 DEF WinMoves, Followed
  <2> QED BY <1>0, <1>1, <1>2, <2>1, <2>2, AgesWhen, NamesMove
<1> QED BY <1>3, <1>4

\* What a stop ends, the state file identifies.
LEMMA VerifiedIsWorker ==
    ASSUME WinTypes, WinNames, NEW e \in Env, ~W!Unverifiable(e), NEW p \in Pid, p \in W!Verified(e)
    PROVE  process[p].role \in W!Worker /\ process[p].env = e
<1>1. record[e].pid = p /\ record[e] # W!NoRecord
  <2>1. p # Nobody
    BY PartsAssumption DEF W!WindowsServiceAssumption
  <2> QED BY <2>1, VerifiedMeans DEF W!NoRecord
<1>2. CASE record[e].bare
  <2>1. process[p].role = "legacy"
    BY <1>2, VerifiedMeans
  <2>2. e \notin Isolated /\ process[p].env \notin Isolated /\ process[p].env \in Env
    BY <1>1, <1>2, <2>1 DEF W!Unverifiable, WinNames, LegacyIsDefault, WinTypes, WinProcesses
  <2> QED BY <2>1, <2>2, PartsAssumption DEF W!WindowsServiceAssumption, W!Worker
<1>3. CASE ~record[e].bare
  <2>1. record[e].env = e
    BY <1>1, <1>3 DEF W!Unverifiable
  <2>2. Identifies(p, record[e].born, "worker", e)
    BY <1>1, <1>3, <2>1 DEF WinNames, RecordsName
  <2> QED BY <1>3, <2>2, VerifiedMeans DEF Identifies, W!Worker
<1> QED BY <1>2, <1>3

LEMMA NamesKill ==
    ASSUME WinBasics, WinNames, NEW c \in Cli, W!Kill(c)
    PROVE  WinNames'
<1>0. WinTypes /\ job[c].env \in Env /\ job[c].pc = "kill" /\ job[c].kind # "logs"
  BY KillDoes DEF WinBasics, WinTypes, WinJobs, WinKinds, KindFits, Ending
<1>1. UNCHANGED <<record, followers>>
  BY <1>0, KillDoes
<1>2. CASE WinMoves(c, {"idle", "lock"}) /\ UNCHANGED process /\ (job'[c].pc = "lock" => job'[c].kind = "start")
  <2>1. job'[c].pc \notin Followed /\ (job'[c].pc = "idle" \/ job'[c].kind # "logs")
    BY <1>2 DEF WinMoves, Followed
  <2> QED BY <1>0, <1>1, <1>2, <2>1, AgesWhen, NamesMove
<1>3. CASE /\ WinMoves(c, {"followers"}) /\ job'[c].kind = job[c].kind
           /\ ~W!Unverifiable(job[c].env) /\ process' = W!Without(W!Verified(job[c].env))
  <2>1. \A d \in Cli : LogsRun(d) => process'[job[d].pid] = process[job[d].pid]
    <3> SUFFICES ASSUME NEW d \in Cli, LogsRun(d) PROVE process'[job[d].pid] = process[job[d].pid]
      OBVIOUS
    <3>1. job[d].pid \in Pid /\ process[job[d].pid].role = "logs"
      BY DEF WinBasics, WinKinds, KindFits, LogsRun, WinNames, LogsLive
    <3>2. job[d].pid \notin W!Verified(job[c].env)
      BY <1>0, <1>3, <3>1, VerifiedIsWorker DEF W!Worker
    <3> QED BY <1>0, <1>3, <3>1, <3>2, WithoutType
  <2>2. job'[c].pc \notin Followed /\ job'[c].kind # "logs"
    BY <1>0, <1>3 DEF WinMoves, Followed
  <2> QED BY <1>0, <1>1, <1>3, <2>1, <2>2, AgesWhen, NamesMove
<1> QED BY <1>0, <1>2, <1>3, KillDoes

\* What saiai logs ends of its own: itself and its child, which is no other saiai logs.
LEMMA OwnOnly ==
    ASSUME WinBasics, WinNames, NEW c \in Cli, LogsRun(c), NEW d \in Cli, d # c, LogsRun(d)
    PROVE  /\ job[d].pid \notin W!OwnWorker(c)
           /\ job[c].pc \in Followed => job[d].pid \notin W!Children(c)
<1>1. job[c].pid # job[d].pid
  BY DEF WinNames, LogsDiffer
<1>2. process[job[d].pid].role = "logs"
  BY DEF WinNames, LogsLive
<1>3. ASSUME job[c].pc \in Followed PROVE job[d].pid \notin W!Children(c)
  <2>1. Identifies(job[c].child.child, job[c].child.childBorn, "follower", job[c].env)
    BY <1>3 DEF WinNames, JobsName, JobName
  <2> QED BY <1>2, <2>1 DEF Identifies, W!Children, W!Runs
<1> QED BY <1>1, <1>3 DEF W!OwnWorker
LEMMA OthersSpared ==
    ASSUME WinBasics, WinNames, NEW c \in Cli, LogsRun(c), job'[c].pc = "idle",
           \/ UNCHANGED process
           \/ process' = W!Without(W!OwnWorker(c))
           \/ job[c].pc \in Followed /\ process' = W!Without(W!OwnWorker(c) \cup W!Children(c))
    PROVE  \A d \in Cli : LogsRun(d) /\ job'[d].pc # "idle" => process'[job[d].pid] = process[job[d].pid]
<1> SUFFICES ASSUME NEW d \in Cli, LogsRun(d), d # c PROVE process'[job[d].pid] = process[job[d].pid]
  OBVIOUS
<1>1. job[d].pid \in Pid /\ WinTypes
  BY DEF WinBasics, WinKinds, KindFits, LogsRun
<1>2. CASE process' = W!Without(W!OwnWorker(c))
  BY <1>1, <1>2, OwnOnly, WithoutType
<1>3. CASE job[c].pc \in Followed /\ process' = W!Without(W!OwnWorker(c) \cup W!Children(c))
  <2>1. job[d].pid \notin W!OwnWorker(c) \cup W!Children(c)
    BY <1>3, OwnOnly
  <2> QED BY <1>1, <1>3, <2>1, WithoutType
<1> QED BY <1>2, <1>3

LEMMA NamesLogsEnd ==
    ASSUME WinBasics, WinNames, NEW c \in Cli, LogsRun(c), WinMoves(c, {"idle"}), UNCHANGED record,
           \A e \in Env, p \in Pid : followers'[e][p] = followers[e][p] \/ followers'[e][p] = W!NoFollower,
           \/ UNCHANGED process
           \/ process' = W!Without(W!OwnWorker(c))
           \/ job[c].pc \in Followed /\ process' = W!Without(W!OwnWorker(c) \cup W!Children(c))
    PROVE  WinNames'
<1>1. job'[c].pc = "idle" /\ WinTypes
  BY DEF WinMoves, WinBasics
<1>2. Ages
  BY <1>1, AgesWhen
<1>3. \A d \in Cli : LogsRun(d) /\ job'[d].pc # "idle" => process'[job[d].pid] = process[job[d].pid]
  BY <1>1, OthersSpared
<1> QED BY <1>1, <1>2, <1>3, NamesMove

LEMMA LogsIsRun == ASSUME WinBasics, NEW c \in Cli, job[c].pc \in Logging PROVE LogsRun(c) /\ job[c].pid \in Pid
BY DEF WinBasics, WinKinds, KindFits, LogsRun, Logging

LEMMA NamesSpawnFollower ==
    ASSUME WinBasics, WinNames, NEW c \in Cli, W!SpawnFollower(c)
    PROVE  WinNames'
<1>0. WinTypes /\ job[c].pc = "follow" /\ UNCHANGED <<record, followers>> /\ LogsRun(c)
  BY SpawnFollowerDoes, LogsIsRun DEF WinBasics, Logging
<1>1. CASE WinMoves(c, {"idle"}) /\ process' = W!Without(W!OwnWorker(c))
  BY <1>0, <1>1, NamesLogsEnd
<1>2. CASE /\ WinMoves(c, {"register"}) /\ job'[c].kind = job[c].kind /\ job'[c].env = job[c].env
           /\ job'[c].pid = job[c].pid /\ job'[c].born = job[c].born /\ job'[c].child.born = job[c].born
           /\ job'[c].child.child \in Pid
           /\ Spawns(job'[c].child.child, job'[c].child.childBorn, "follower", job[c].env)
  <2>1. Ages
    BY <1>0, <1>2, AgesWhen
  <2>2. IdentifiesAfter(job'[c].child.child, job'[c].child.childBorn, "follower", job'[c].env)
    BY <1>0, <1>2, SpawnIdentifies
  <2>3. \A d \in Cli : job'[d].pc = "record" => job'[d] = job[d]
    BY <1>2 DEF WinMoves
  <2>4. JobsName'
    <3>1. \A d \in Cli \ {c} : job'[d] = job[d]
      BY <1>2 DEF WinMoves
    <3>2. \A d \in Cli : job'[d].pc \in Followed =>
                    \/ /\ job[d].pc \in Followed /\ job'[d].child = job[d].child /\ job'[d].env = job[d].env
                       /\ job'[d].born = job[d].born
                    \/ /\ IdentifiesAfter(job'[d].child.child, job'[d].child.childBorn, "follower", job'[d].env)
                       /\ job'[d].child.born = job'[d].born
      BY <1>2, <2>2, <3>1
    <3> QED BY <1>0, <2>1, <2>3, <3>2, JobsKept DEF WinNames
  <2>5. LogsLive' /\ LogsDiffer'
    <3>1. \A d \in Cli : LogsRun(d) => process'[job[d].pid] = process[job[d].pid]
      BY <1>2 DEF Spawns, WinNames, LogsLive, WinBasics, WinKinds, KindFits, LogsRun
    <3>2. \A d \in Cli : job'[d].kind = "logs" /\ job'[d].pc # "idle" =>
               /\ LogsRun(d) /\ job'[d].pid = job[d].pid /\ job'[d].born = job[d].born /\ job'[d].env = job[d].env
      BY <1>0, <1>2 DEF WinMoves, LogsRun
    <3> QED BY <3>1, <3>2, LogsKept DEF WinNames
  <2>6. LegacyIsDefault' /\ RecordsName' /\ FilesName'
    BY <1>0, <2>1, LegacyKept, RecordsKept, FilesKept DEF WinNames
  <2> QED BY <2>4, <2>5, <2>6 DEF WinNames
<1> QED BY <1>0, <1>1, <1>2, SpawnFollowerDoes

LEMMA NamesRegister ==
    ASSUME WinBasics, WinNames, NEW c \in Cli, W!Register(c)
    PROVE  WinNames'
<1>0. WinTypes /\ UNCHANGED record /\ job[c].pc \in {"register", "release"} /\ job[c].env \in Env
  BY RegisterDoes DEF WinBasics, WinTypes, WinJobs
<1>1. LogsRun(c) /\ job[c].pid \in Pid /\ job[c].pc \in Followed
  BY <1>0, LogsIsRun DEF Logging, Followed
<1>2. CASE WinMoves(c, {"idle"}) /\ UNCHANGED followers /\ process' = W!Without(W!OwnWorker(c) \cup W!Children(c))
  BY <1>0, <1>1, <1>2, NamesLogsEnd
<1>3. CASE WinMoves(c, {"wait"}) /\ SameCommand(c) /\ UNCHANGED <<process, followers>>
  BY <1>0, <1>1, <1>3, AgesWhen, NamesMove DEF Followed
<1>4. CASE WinMoves(c, {"release"}) /\ SameCommand(c) /\ UNCHANGED process /\ Files(job[c].env, job[c].pid, job[c].child)
  <2>1. Ages
    BY <1>0, <1>4, AgesWhen
  <2>2. \A d \in Cli : job'[d].pc = "record" => job'[d] = job[d]
    BY <1>4 DEF WinMoves
  <2>3. \A d \in Cli : job'[d].pc \in Followed =>
           /\ job[d].pc \in Followed /\ job'[d].child = job[d].child /\ job'[d].env = job[d].env /\ job'[d].born = job[d].born
    BY <1>1, <1>4 DEF WinMoves, SameCommand
  <2>4. \A d \in Cli : job'[d].kind = "logs" /\ job'[d].pc # "idle" =>
         /\ LogsRun(d) /\ job'[d].pid = job[d].pid /\ job'[d].born = job[d].born /\ job'[d].env = job[d].env
         /\ process'[job[d].pid] = process[job[d].pid]
    BY <1>1, <1>4 DEF WinMoves, SameCommand, LogsRun
  <2>5. /\ Identifies(job[c].pid, job[c].born, "logs", job[c].env) /\ job[c].child.born = job[c].born
        /\ Identifies(job[c].child.child, job[c].child.childBorn, "follower", job[c].env)
    <3>1. process[job[c].pid].role = "logs" /\ process[job[c].pid].born = job[c].born /\ process[job[c].pid].env = job[c].env
      BY <1>1 DEF WinNames, LogsLive
    <3>2. job[c].born <= process[job[c].pid].born
      BY <1>0, <1>1, <3>1, PartsAssumption DEF WinTypes, WinJobs, WinBorn, W!WindowsServiceAssumption
    <3> QED BY <1>1, <3>1, <3>2 DEF Identifies, WinNames, JobsName, JobName
  <2>6. /\ IdentifiesAfter(job[c].pid, job[c].child.born, "logs", job[c].env)
        /\ IdentifiesAfter(job[c].child.child, job[c].child.childBorn, "follower", job[c].env)
    BY <1>4, <2>5 DEF Identifies, IdentifiesAfter
  <2>7. FilesName'
    <3>1. \A e \in Env, p \in Pid : followers'[e][p] = followers[e][p] \/ (e = job[c].env /\ p = job[c].pid /\ followers'[e][p] = job[c].child)
      BY <1>0, <1>1, <1>4 DEF Files
    <3>2. \A e \in Env, p \in Pid : \/ followers'[e][p] = followers[e][p] \/ followers'[e][p] = W!NoFollower
                                     \/ /\ IdentifiesAfter(p, followers'[e][p].born, "logs", e)
                                        /\ IdentifiesAfter(followers'[e][p].child, followers'[e][p].childBorn, "follower", e)
      BY <2>6, <3>1
    <3> QED BY <1>0, <2>1, <3>2, FilesKept DEF WinNames
  <2>8. LegacyIsDefault' /\ RecordsName' /\ JobsName'
    BY <1>0, <2>1, <2>2, <2>3, LegacyKept, RecordsKept, JobsKept DEF WinNames
  <2> QED BY <2>4, <2>7, <2>8, LogsKept DEF WinNames
<1> QED BY <1>0, <1>1, <1>2, <1>3, <1>4, RegisterDoes

LEMMA NamesRest ==
    ASSUME WinBasics, WinNames, NEW c \in Cli, W!Unregister(c) \/ W!CloseConsole(c)
    PROVE  WinNames'
<1>0. WinTypes /\ job[c].pc = "wait" /\ job[c].env \in Env
  BY DEF W!Unregister, W!CloseConsole, W!At, WinBasics, WinTypes, WinJobs
<1>1. LogsRun(c) /\ job[c].pid \in Pid /\ job[c].pc \in Followed
  BY <1>0, LogsIsRun DEF Logging, Followed
<1>2. CASE W!Unregister(c)
  <2>1. \A e \in Env, p \in Pid : followers'[e][p] = followers[e][p] \/ followers'[e][p] = W!NoFollower
    BY <1>0, <1>1, <1>2, UnregisterDoes DEF Files
  <2> QED BY <1>0, <1>1, <1>2, <2>1, UnregisterDoes, NamesLogsEnd
<1>3. CASE W!CloseConsole(c)
  BY <1>0, <1>1, <1>3, CloseConsoleDoes, NamesLogsEnd
<1> QED BY <1>2, <1>3

LEMMA LogsSpared ==
    ASSUME WinBasics, WinNames
    PROVE  \A d \in Cli : LogsRun(d) => job[d].pid \in Pid /\ process[job[d].pid].role = "logs"
BY DEF WinBasics, WinKinds, KindFits, LogsRun, WinNames, LogsLive

LEMMA NamesSpawn ==
    ASSUME WinBasics, WinNames, NEW c \in Cli, W!Spawn(c)
    PROVE  WinNames'
<1>0. WinTypes /\ job[c].pc = "spawn" /\ UNCHANGED <<record, followers>> /\ job[c].kind # "logs"
  BY SpawnDoes DEF WinBasics, WinKinds, KindFits, Ending
<1>1. CASE WinMoves(c, {"idle"}) /\ UNCHANGED process
  BY <1>0, <1>1, AgesWhen, NamesMove DEF WinMoves
<1>2. CASE /\ WinMoves(c, {"record"}) /\ job'[c].kind = job[c].kind /\ job'[c].env = job[c].env
           /\ job'[c].pid \in Pid /\ Spawns(job'[c].pid, job'[c].born, "worker", job[c].env)
  <2>1. Ages
    BY <1>0, <1>2, AgesWhen
  <2>2. IdentifiesAfter(job'[c].pid, job'[c].born, "worker", job'[c].env)
    BY <1>0, <1>2, SpawnIdentifies
  <2>3. \A d \in Cli : job'[d].pc = "record" =>
           job'[d] = job[d] \/ IdentifiesAfter(job'[d].pid, job'[d].born, "worker", job'[d].env)
    BY <1>2, <2>2 DEF WinMoves
  <2>4. \A d \in Cli : job'[d].pc \in Followed => job[d].pc \in Followed /\ job'[d] = job[d]
    BY <1>2 DEF WinMoves, Followed
  <2>5. JobsName'
    BY <1>0, <2>1, <2>3, <2>4, JobsKept DEF WinNames
  <2>6. LogsLive' /\ LogsDiffer'
    <3>1. \A d \in Cli : LogsRun(d) => process'[job[d].pid] = process[job[d].pid]
      BY <1>2, LogsSpared DEF Spawns
    <3>2. \A d \in Cli : job'[d].kind = "logs" /\ job'[d].pc # "idle" => LogsRun(d) /\ job'[d] = job[d]
      BY <1>0, <1>2 DEF WinMoves, LogsRun
    <3> QED BY <3>1, <3>2, LogsKept DEF WinNames
  <2>7. LegacyIsDefault' /\ RecordsName' /\ FilesName'
    BY <1>0, <2>1, LegacyKept, RecordsKept, FilesKept DEF WinNames
  <2> QED BY <2>5, <2>6, <2>7 DEF WinNames
<1> QED BY <1>0, <1>1, <1>2, SpawnDoes

LEMMA NamesRecord ==
    ASSUME WinBasics, WinNames, NEW c \in Cli, W!Record(c)
    PROVE  WinNames'
<1> DEFINE ended == {q \in {job[c].pid} : W!Runs(q, job[c].born)}
<1>0. /\ WinTypes /\ job[c].pc = "record" /\ UNCHANGED followers /\ WinMoves(c, {"idle"}) /\ job[c].env \in Env
      /\ UNCHANGED process \/ process' = W!Without(ended)
  BY RecordDoes DEF WinBasics, WinTypes, WinJobs
<1>1. Identifies(job[c].pid, job[c].born, "worker", job[c].env) /\ job[c].born \in WinBorn
  BY <1>0 DEF WinNames, JobsName, JobName, WinTypes, WinJobs
<1>2. Ages
  BY <1>0, AgesWhen
<1>3. \A d \in Cli : LogsRun(d) => process'[job[d].pid] = process[job[d].pid]
  <2> SUFFICES ASSUME NEW d \in Cli, LogsRun(d) PROVE process'[job[d].pid] = process[job[d].pid]
    OBVIOUS
  <2>1. job[d].pid \notin ended
    BY <1>1, LogsSpared DEF Identifies, W!Runs
  <2> QED BY <1>0, <2>1, LogsSpared, WithoutType
<1>4. \A d \in Cli : job'[d].pc \notin {"idle"} => job'[d] = job[d]
  BY <1>0 DEF WinMoves
<1>5. JobsName'
  BY <1>0, <1>2, <1>4, JobsKept DEF WinNames, Followed
<1>6. LogsLive' /\ LogsDiffer'
  BY <1>3, <1>4, LogsKept DEF WinNames, LogsRun
<1>7. \A e \in Env : \/ record'[e] = record[e]
                     \/ IdentifiesAfter(record'[e].pid, record'[e].born, "worker", record'[e].env)
  <2>1. IdentifiesAfter(job[c].pid, job[c].born, "worker", job[c].env)
    BY <1>0, <1>1, <1>2, IdentifiesStays
  <2>2. CASE UNCHANGED record
    BY <2>2
  <2>3. CASE /\ \A e \in Env \ {job[c].env} : record'[e] = record[e]
             /\ record'[job[c].env] = [pid |-> job[c].pid, born |-> job[c].born, env |-> job[c].env, bare |-> FALSE]
    <3>1. record'[job[c].env].pid = job[c].pid /\ record'[job[c].env].born = job[c].born /\ record'[job[c].env].env = job[c].env
      BY <2>3
    <3> QED BY <2>1, <2>3, <3>1
  <2> QED BY <1>0, <2>2, <2>3, RecordDoes
<1>8. LegacyIsDefault' /\ RecordsName' /\ FilesName'
  BY <1>0, <1>2, <1>7, LegacyKept, RecordsKept, FilesKept DEF WinNames
<1> QED BY <1>5, <1>6, <1>8 DEF WinNames

\* A registered process is of the environment it is registered in.
LEMMA RegisteredIsOwn ==
    ASSUME WinNames, NEW e \in Env, NEW p \in Pid, followers[e][p] # W!NoFollower,
           NEW q \in Pid, Registered(p, followers[e][p], q)
    PROVE  process[q].role \in {"logs", "follower"} /\ process[q].env = e
           /\ (q # p \/ process[q].born # followers[e][p].born => process[q].role = "follower")
BY DEF WinNames, FilesName, Registered, Identifies

LEMMA NamesEndFollower ==
    ASSUME WinBasics, WinNames, NEW c \in Cli, W!EndFollower(c)
    PROVE  WinNames'
<1>0. WinTypes /\ job[c].pc = "followers" /\ UNCHANGED record /\ job[c].kind # "logs" /\ job[c].env \in Env
  BY EndFollowerDoes DEF WinBasics, WinKinds, KindFits, Ending, WinTypes, WinJobs
<1>1. CASE WinMoves(c, {"idle", "lock"}) /\ UNCHANGED <<process, followers>> /\ (job'[c].pc = "lock" => job'[c].kind = "start")
  <2>1. job'[c].pc \notin Followed /\ (job'[c].pc = "idle" \/ job'[c].kind # "logs")
    BY <1>1 DEF WinMoves, Followed
  <2> QED BY <1>0, <1>1, <2>1, AgesWhen, NamesMove
<1>2. ASSUME NEW p \in Pid, EndsRegistered(c, p) PROVE WinNames'
  <2> DEFINE f == followers[job[c].env][p]
  <2>0. f # W!NoFollower
    BY <1>2 DEF EndsRegistered
  <2>1. Ages
    BY <1>0, <1>2 DEF EndsRegistered, Ages
  <2>2. \A d \in Cli : job'[d] \in {job[d], W!Idle} \/ (d = c /\ SameButListed(c))
    BY <1>2 DEF EndsRegistered
  <2>3. \A d \in Cli : job'[d].pc = "record" => job'[d] = job[d]
    BY <1>0, <2>2, Idles DEF SameButListed
  <2>4. \A d \in Cli : job'[d].pc \in Followed => job[d].pc \in Followed /\ job'[d] = job[d]
    BY <1>0, <2>2, Idles DEF SameButListed, Followed
  <2>5. JobsName'
    BY <1>0, <2>1, <2>3, <2>4, JobsKept DEF WinNames
  <2>6. \A d \in Cli : job'[d].kind = "logs" /\ job'[d].pc # "idle" =>
            LogsRun(d) /\ job'[d] = job[d] /\ ~(job[d].pid = p /\ job[d].born = f.born)
    <3> SUFFICES ASSUME NEW d \in Cli, job'[d].kind = "logs", job'[d].pc # "idle"
                 PROVE  LogsRun(d) /\ job'[d] = job[d] /\ ~(job[d].pid = p /\ job[d].born = f.born)
      OBVIOUS
    <3>1. d # c
      BY <1>0, <1>2 DEF EndsRegistered, SameButListed
    <3>2. job'[d] = IF job[d].kind = "logs" /\ job[d].pid = p /\ job[d].born = f.born THEN W!Idle ELSE job[d]
      BY <1>2, <3>1 DEF EndsRegistered
    <3> QED BY <3>2, Idles DEF LogsRun
  <2>7. \A d \in Cli : job'[d].kind = "logs" /\ job'[d].pc # "idle" => process'[job[d].pid] = process[job[d].pid]
    <3> SUFFICES ASSUME NEW d \in Cli, job'[d].kind = "logs", job'[d].pc # "idle"
                 PROVE  process'[job[d].pid] = process[job[d].pid]
      OBVIOUS
    <3>1. LogsRun(d) /\ ~(job[d].pid = p /\ job[d].born = f.born)
      BY <2>6
    <3>2. job[d].pid \in Pid /\ process[job[d].pid].role = "logs" /\ process[job[d].pid].born = job[d].born
      BY <3>1, LogsSpared DEF WinNames, LogsLive
    <3>3. ~Registered(p, f, job[d].pid)
      BY <1>0, <2>0, <3>1, <3>2, RegisteredIsOwn
    <3> QED BY <1>2, <3>2, <3>3 DEF EndsRegistered
  <2>8. LogsLive' /\ LogsDiffer'
    BY <2>6, <2>7, LogsKept DEF WinNames
  <2>9. \A e \in Env, q \in Pid : followers'[e][q] = followers[e][q] \/ followers'[e][q] = W!NoFollower
    BY <1>0, <1>2 DEF EndsRegistered, Files
  <2>10. LegacyIsDefault' /\ RecordsName' /\ FilesName'
    BY <1>0, <2>1, <2>9, LegacyKept, RecordsKept, FilesKept DEF WinNames
  <2> QED BY <2>5, <2>8, <2>10 DEF WinNames
<1> QED BY <1>0, <1>1, <1>2, EndFollowerDoes

LEMMA NamesBegin ==
    ASSUME WinBasics, WinNames, NEW c \in Cli, NEW k \in W!Kind, NEW e \in Env, W!Begin(c, k, e)
    PROVE  WinNames'
<1>0. WinTypes /\ WinMoves(c, {"lock"}) /\ job[c].pc = "idle" /\ job'[c].kind = k /\ job'[c].env = e /\ UNCHANGED <<record, followers>>
  BY BeginDoes DEF WinBasics
<1>1. CASE k # "logs" /\ UNCHANGED process
  BY <1>0, <1>1, AgesWhen, NamesMove DEF WinMoves, Followed
<1>2. ASSUME NEW p \in Pid, k = "logs", job'[c].pid = p, job'[c].born = process'[p].born, Spawns(p, process'[p].born, "logs", e)
      PROVE  WinNames'
  <2>1. Ages
    BY <1>0, <1>2, AgesWhen
  <2>2. \A d \in Cli : job'[d].pc # "lock" => job'[d] = job[d]
    BY <1>0 DEF WinMoves
  <2>3. JobsName'
    BY <1>0, <2>1, <2>2, JobsKept DEF WinNames, Followed
  <2>4. \A d \in Cli : LogsRun(d) => job[d].pid # p /\ process'[job[d].pid] = process[job[d].pid]
    BY <1>2, LogsSpared DEF Spawns
  <2>5. \A d \in Cli \ {c} : job'[d] = job[d]
    BY <1>0 DEF WinMoves
  <2>6. process'[p].role = "logs" /\ process'[p].env = e
    BY <1>2 DEF Spawns
  <2>7. LogsLive'
    BY <1>0, <1>2, <2>4, <2>5, <2>6 DEF WinNames, LogsLive, LogsRun
  <2>8. LogsDiffer'
    BY <1>0, <1>2, <2>4, <2>5 DEF WinNames, LogsDiffer, LogsRun
  <2>9. LegacyIsDefault' /\ RecordsName' /\ FilesName'
    BY <1>0, <2>1, LegacyKept, RecordsKept, FilesKept DEF WinNames
  <2> QED BY <2>3, <2>7, <2>8, <2>9 DEF WinNames
<1> QED BY <1>0, <1>1, <1>2, BeginDoes DEF Spawns, WinBasics

LEMMA NamesOthers ==
    ASSUME WinBasics, WinNames, NEW p \in Pid, W!Exits(p) \/ W!Appears(p)
    PROVE  WinNames'
<1>0. WinTypes /\ UNCHANGED <<record, followers, job>>
  BY ExitsDoes, AppearsDoes DEF WinBasics
<1>1. Ages
  BY <1>0, ExitsDoes, AppearsDoes, AgesWhen
<1>2. \A d \in Cli : LogsRun(d) => process'[job[d].pid] = process[job[d].pid]
  BY <1>0, LogsSpared, ExitsDoes, AppearsDoes DEF Spawns
<1>3. LogsLive' /\ LogsDiffer'
  BY <1>0, <1>2, LogsKept DEF WinNames, LogsRun
<1>4. LegacyIsDefault' /\ RecordsName' /\ FilesName' /\ JobsName'
  BY <1>0, <1>1, LegacyKept, RecordsKept, FilesKept, JobsKept DEF WinNames
<1> QED BY <1>3, <1>4 DEF WinNames

LEMMA NamesNext == ASSUME WinBasics, WinNames, W!Next PROVE WinNames'
<1>1. ASSUME NEW c \in Cli, W!Step(c) \/ W!CloseConsole(c) PROVE WinNames'
  BY <1>1, NamesQuiet, NamesKill, NamesEndFollower, NamesSpawn, NamesRecord, NamesSpawnFollower, NamesRegister, NamesRest
     DEF W!Step
<1> QED BY <1>1, NamesBegin, NamesOthers DEF W!Next

\* How the processes and state files of a Windows machine begin.
LEMMA WinStarts ==
    ASSUME W!Init
    PROVE  \E p \in Pid, role \in W!Role \ {"logs", "follower"}, d \in Env \ Isolated, bare \in BOOLEAN, copied \in BOOLEAN :
             /\ \A q \in Pid : p <= q
             /\ role = "worker" => ~bare
             /\ role = "legacy" => bare
             /\ process = [q \in Pid |-> IF q = p /\ role # "none" THEN [born |-> 1, role |-> role, env |-> d]
                                        ELSE [born |-> 0, role |-> "none", env |-> d]]
             /\ record = [e \in Env |->
                   IF role = "none" \/ (e # d /\ ~copied) THEN W!NoRecord
                   ELSE IF bare THEN [W!NoRecord EXCEPT !.pid = p, !.bare = TRUE]
                   ELSE [pid |-> p, born |-> IF role = "worker" THEN 1 ELSE 0, env |-> d, bare |-> FALSE]]
  BY Zenon DEF W!Init

LEMMA NamesInit == W!Init => WinNames
<1> SUFFICES ASSUME W!Init PROVE WinNames
  OBVIOUS
<1>1. PICK p \in Pid, role \in W!Role \ {"logs", "follower"}, d \in Env \ Isolated, bare \in BOOLEAN, copied \in BOOLEAN :
          /\ \A q \in Pid : p <= q
          /\ role = "worker" => ~bare
          /\ role = "legacy" => bare
          /\ process = [q \in Pid |-> IF q = p /\ role # "none" THEN [born |-> 1, role |-> role, env |-> d]
                                     ELSE [born |-> 0, role |-> "none", env |-> d]]
          /\ record = [e \in Env |->
                IF role = "none" \/ (e # d /\ ~copied) THEN W!NoRecord
                ELSE IF bare THEN [W!NoRecord EXCEPT !.pid = p, !.bare = TRUE]
                ELSE [pid |-> p, born |-> IF role = "worker" THEN 1 ELSE 0, env |-> d, bare |-> FALSE]]
  BY WinStarts, Zenon
<1>2. \A q \in Pid : /\ process[q].role # "none" => q = p /\ process[q].role = role /\ process[q].born = 1 /\ process[q].env = d
                     /\ process[q].env = d
                     /\ q = p /\ role # "none" => process[q].born = 1
  BY <1>1
<1>3. LegacyIsDefault
  BY <1>2 DEF LegacyIsDefault
<1>4. RecordsName
  <2> SUFFICES ASSUME NEW e \in Env, record[e].pid \in Pid, ~record[e].bare
               PROVE  Identifies(record[e].pid, record[e].born, "worker", record[e].env)
    BY DEF RecordsName
  <2>1. W!NoRecord.pid \notin Pid
    BY PartsAssumption DEF W!NoRecord, W!WindowsServiceAssumption
  <2>2. role # "none" /\ (e = d \/ copied)
    BY <1>1, <2>1
  <2>3. ~bare
    <3>1. ASSUME bare PROVE record[e].bare
      BY <1>1, <2>2, <3>1 DEF W!NoRecord
    <3> QED BY <3>1
  <2>4. record[e] = [pid |-> p, born |-> IF role = "worker" THEN 1 ELSE 0, env |-> d, bare |-> FALSE]
    BY <1>1, <2>2, <2>3
  <2>5. record[e].pid = p /\ record[e].env = d /\ record[e].born = IF role = "worker" THEN 1 ELSE 0
    BY <2>4
  <2> QED BY <1>2, <2>2, <2>5 DEF Identifies
<1>5. FilesName
  BY DEF W!Init, FilesName
<1>6. \A c \in Cli : job[c].pc = "idle"
  BY Idles DEF W!Init
<1>7. JobsName /\ LogsLive /\ LogsDiffer
  BY <1>6 DEF JobsName, JobName, LogsLive, LogsDiffer, LogsRun, Followed
<1> QED BY <1>3, <1>4, <1>5, <1>7 DEF WinNames

\* The step that changes a command that starts or stops is its own.
LEMMA OwnStep ==
    ASSUME WinBasics, W!Next, NEW c \in Cli, job[c].pc \in Ending, job'[c] # job[c]
    PROVE  W!Step(c)
<1>0. WinTypes /\ job[c].kind # "logs" /\ job[c].pc \notin {"idle", "wait"}
  BY DEF WinBasics, WinKinds, KindFits, Ending
<1>1. ASSUME NEW d \in Cli, d # c, W!Step(d) \/ W!CloseConsole(d) PROVE FALSE
  <2>1. \A pcs : WinMoves(d, pcs) => job'[c] = job[c]
    BY <1>1 DEF WinMoves
  <2>2. \A q \in Pid : ~EndsRegistered(d, q)
    BY <1>0, <1>1 DEF EndsRegistered
  <2>3. W!Forget(d) => job[d].kind # "logs"
    BY DEF W!Forget, W!At, WinBasics, WinKinds, KindFits, Ending
  <2>4. W!Unregister(d) => job[d].pid \in Pid
    BY DEF W!Unregister, W!At, WinBasics, WinKinds, KindFits, Logging
  <2>5. W!Lock(d) \/ W!Inspect(d) \/ W!Kill(d) \/ W!EndFollower(d) => FALSE
    BY <1>0, <2>1, <2>2, LockDoes, InspectDoes, KillDoes, EndFollowerDoes
  <2>6. W!NoFollowersLeft(d) \/ W!Forget(d) \/ W!Ensure(d) \/ W!Spawn(d) \/ W!Record(d) => FALSE
    BY <1>0, <2>1, <2>3, NoFollowersLeftDoes, ForgetDoes, EnsureDoes, SpawnDoes, RecordDoes
  <2>7. W!SpawnFollower(d) \/ W!Register(d) \/ W!Unregister(d) \/ W!CloseConsole(d) => FALSE
    BY <1>0, <2>1, <2>4, SpawnFollowerDoes, RegisterDoes, UnregisterDoes, CloseConsoleDoes
  <2> QED BY <1>1, <2>5, <2>6, <2>7 DEF W!Step
<1>2. ASSUME NEW d \in Cli, NEW k \in W!Kind, NEW e \in Env, W!Begin(d, k, e) PROVE FALSE
  BY <1>0, <1>2, BeginDoes DEF WinMoves
<1>3. ASSUME NEW q \in Pid, W!Exits(q) \/ W!Appears(q) PROVE FALSE
  BY <1>3 DEF W!Exits, W!Appears
<1>4. ~W!CloseConsole(c)
  BY <1>0 DEF W!CloseConsole, W!At
<1> QED BY <1>1, <1>2, <1>3, <1>4 DEF W!Next

LEMMA WinEndsItsOwn == ASSUME WinBasics, WinNames, W!Next PROVE W!EndsOnlyItsOwn
<1> SUFFICES ASSUME NEW c \in Cli, job[c].pc \in {"kill", "followers"}, job'[c] # job[c],
                    NEW p \in Pid, W!Ended(p)
             PROVE  process[p].env = job[c].env /\ process[p].role \in {"worker", "legacy", "logs", "follower"}
  BY DEF W!EndsOnlyItsOwn
<1>0. WinTypes /\ job[c].env \in Env /\ process[p].role # "none" /\ process'[p] # process[p]
  BY DEF WinBasics, WinTypes, WinJobs, W!Ended
<1>1. W!Kill(c) \/ W!EndFollower(c) \/ W!NoFollowersLeft(c)
  <2>1. W!Step(c)
    BY OwnStep DEF Ending
  <2> QED BY <2>1, Zenon DEF W!Step, W!Lock, W!Inspect, W!Forget, W!Ensure, W!Spawn, W!Record, W!SpawnFollower, W!Register,
                      W!Unregister, W!At
<1>2. CASE W!Kill(c)
  <2>1. ~W!Unverifiable(job[c].env) /\ process' = W!Without(W!Verified(job[c].env))
    BY <1>0, <1>2, KillDoes
  <2>2. p \in W!Verified(job[c].env)
    BY <1>0, <2>1, WithoutType
  <2> QED BY <1>0, <2>1, <2>2, VerifiedIsWorker DEF W!Worker
<1>3. CASE W!EndFollower(c)
  <2>1. PICK q \in Pid : EndsRegistered(c, q)
    BY <1>0, <1>3, EndFollowerDoes
  <2>2. followers[job[c].env][q] # W!NoFollower /\ Registered(q, followers[job[c].env][q], p)
    BY <1>0, <2>1 DEF EndsRegistered
  <2> QED BY <1>0, <2>2, RegisteredIsOwn
<1>4. CASE W!NoFollowersLeft(c)
  BY <1>0, <1>4 DEF W!NoFollowersLeft
<1> QED BY <1>1, <1>2, <1>3, <1>4

(* Who follows the log. *)

\* A follower that runs is the child of a saiai logs, which is under way or
\* registered; a stop that listed the registered ones misses none.
Follows(d, p) ==
    /\ job[d].pc \in Followed /\ job[d].child.child = p /\ job[d].child.childBorn = process[p].born
    /\ job[d].env = process[p].env
FollowersBelong == \A p \in Pid : process[p].role = "follower" => \E d \in Cli : Follows(d, p)
Filed == \A d \in Cli : job[d].pc \in {"release", "wait"} => followers[job[d].env][job[d].pid] = job[d].child
Listed(c) ==
    /\ job[c].pc = "followers" => \A d \in Cli : job[d].pc = "wait" /\ job[d].env = job[c].env => job[d].pid \in job[c].listed
    /\ job[c].pc = "forget" => \A d \in Cli : ~(job[d].pc = "wait" /\ job[d].env = job[c].env)
WinFollowing == FollowersBelong /\ Filed /\ \A c \in Cli : Listed(c)

NoNewFollower == \A p \in Pid : process'[p].role = "follower" => process'[p] = process[p]
LEMMA NoNewFollowerWhen ==
    ASSUME WinTypes
    PROVE  /\ UNCHANGED process => NoNewFollower
           /\ OnlyEnds => NoNewFollower
           /\ \A ended : process' = W!Without(ended) => NoNewFollower
           /\ \A p, born, e : \A role \in {"worker", "logs", "other", "protected"} : Spawns(p, born, role, e) => NoNewFollower
BY WithoutEnds DEF NoNewFollower, OnlyEnds, Spawns

LEMMA BelongKept ==
    ASSUME FollowersBelong, NoNewFollower,
           \A d \in Cli : job[d].pc \in Followed =>
              \/ job'[d].pc \in Followed /\ job'[d].child = job[d].child /\ job'[d].env = job[d].env
              \/ \A p \in Pid : job[d].child.child = p /\ job[d].child.childBorn = process[p].born => process'[p].role # "follower"
    PROVE  FollowersBelong'
<1> SUFFICES ASSUME NEW p \in Pid, process'[p].role = "follower" PROVE \E d \in Cli : Follows(d, p)'
  BY DEF FollowersBelong
<1>1. process'[p] = process[p]
  BY DEF NoNewFollower
<1>2. PICK d \in Cli : Follows(d, p)
  BY <1>1 DEF FollowersBelong
<1>3. Follows(d, p)'
  BY <1>1, <1>2 DEF Follows
<1> QED BY <1>3
LEMMA FiledKept ==
    ASSUME Filed,
           \A d \in Cli : job'[d].pc \in {"release", "wait"} =>
              \/ /\ job[d].pc \in {"release", "wait"} /\ job'[d].env = job[d].env /\ job'[d].pid = job[d].pid
                 /\ job'[d].child = job[d].child
                 /\ followers'[job[d].env][job[d].pid] = followers[job[d].env][job[d].pid]
              \/ followers'[job'[d].env][job'[d].pid] = job'[d].child
    PROVE  Filed'
BY DEF Filed
LEMMA ListedKept ==
    ASSUME WinBasics, WinFollowing,
           \A d \in Cli : job'[d].pc = "wait" => /\ job[d].pc \in {"wait", "release"} /\ job'[d].env = job[d].env
                                                 /\ job'[d].pid = job[d].pid,
           NEW c \in Cli, job'[c].pc \in {"followers", "forget"} =>
              job'[c].pc = job[c].pc /\ job'[c].env = job[c].env /\ job'[c].listed = job[c].listed
    PROVE  Listed(c)'
<1>1. ASSUME NEW d \in Cli, job[c].pc \in {"followers", "forget"}, job[d].env = job[c].env PROVE job[d].pc # "release"
  BY <1>1, OnlyOneActs DEF Waiting
<1> QED BY <1>1 DEF WinFollowing, Listed

\* A step with which nobody begins or ceases to follow.
LEMMA FollowingElse ==
    ASSUME WinBasics, WinFollowing, NoNewFollower, UNCHANGED followers, NEW c \in Cli, NEW pcs, WinMoves(c, pcs),
           job[c].pc \notin Followed, pcs \cap (Followed \cup {"followers", "forget"}) = {}
    PROVE  WinFollowing'
<1>1. job'[c].pc \notin Followed \cup {"followers", "forget"} /\ \A d \in Cli \ {c} : job'[d] = job[d]
  BY DEF WinMoves
<1>2. FollowersBelong'
  BY <1>1, BelongKept DEF WinFollowing
<1>3. Filed'
  BY <1>1, FiledKept DEF WinFollowing, Followed
<1>4. \A d \in Cli : job'[d].pc = "wait" => job'[d] = job[d]
  BY <1>1 DEF Followed
<1>5. \A d \in Cli : job'[d].pc \in {"followers", "forget"} => job'[d] = job[d]
  BY <1>1
<1>6. \A d \in Cli : Listed(d)'
  BY <1>4, <1>5, ListedKept
<1> QED BY <1>2, <1>3, <1>6 DEF WinFollowing

LEMMA FollowingMost ==
    ASSUME WinBasics, WinFollowing, NEW c \in Cli,
           W!Lock(c) \/ W!Inspect(c) \/ W!Forget(c) \/ W!Ensure(c) \/ W!Spawn(c) \/ W!Record(c)
    PROVE  WinFollowing'
<1>0. WinTypes /\ (W!Forget(c) => job[c].kind # "logs")
  BY DEF WinBasics, WinKinds, KindFits, Ending, W!Forget, W!At
<1>1. job[c].pc \notin Followed
  BY Zenon DEF W!Lock, W!Inspect, W!Forget, W!Ensure, W!Spawn, W!Record, W!At, Followed
<1>2. UNCHANGED followers
  BY Zenon DEF W!Lock, W!Inspect, W!Forget, W!Ensure, W!Spawn, W!Record
<1>3. NoNewFollower
  <2>1. W!Lock(c) \/ W!Inspect(c) \/ W!Forget(c) \/ W!Ensure(c) => UNCHANGED process
    BY DEF W!Lock, W!Inspect, W!Forget, W!Ensure
  <2>2. W!Spawn(c) => NoNewFollower
    BY <1>0, SpawnDoes, NoNewFollowerWhen
  <2>3. W!Record(c) => NoNewFollower
    BY <1>0, RecordDoes, NoNewFollowerWhen
  <2> QED BY <1>0, <2>1, <2>2, <2>3, NoNewFollowerWhen
<1>4. WinMoves(c, {"idle", "lock", "inspect", "follow", "kill", "ensure", "spawn", "record"})
  <2>1. W!Lock(c) \/ W!Inspect(c) => WinMoves(c, {"idle", "lock", "inspect", "follow", "kill", "ensure", "spawn", "record"})
    BY <1>0, LockDoes, InspectDoes DEF WinMoves
  <2>2. W!Forget(c) \/ W!Ensure(c) => WinMoves(c, {"idle", "lock", "inspect", "follow", "kill", "ensure", "spawn", "record"})
    BY <1>0, ForgetDoes, EnsureDoes DEF WinMoves
  <2>3. W!Spawn(c) \/ W!Record(c) => WinMoves(c, {"idle", "lock", "inspect", "follow", "kill", "ensure", "spawn", "record"})
    BY <1>0, SpawnDoes, RecordDoes DEF WinMoves
  <2> QED BY <2>1, <2>2, <2>3
<1>5. {"idle", "lock", "inspect", "follow", "kill", "ensure", "spawn", "record"} \cap (Followed \cup {"followers", "forget"}) = {}
  BY DEF Followed
<1> QED BY <1>1, <1>2, <1>3, <1>4, <1>5, FollowingElse

LEMMA FollowingKill ==
    ASSUME WinBasics, WinNames, WinFollowing, NEW c \in Cli, W!Kill(c)
    PROVE  WinFollowing'
<1>0. WinTypes /\ job[c].pc = "kill" /\ UNCHANGED followers /\ job[c].env \in Env
  BY KillDoes DEF WinBasics, WinTypes, WinJobs
<1>1. CASE WinMoves(c, {"idle", "lock"}) /\ UNCHANGED process
  <2>1. {"idle", "lock"} \cap (Followed \cup {"followers", "forget"}) = {} /\ job[c].pc \notin Followed
    BY <1>0 DEF Followed
  <2> QED BY <1>0, <1>1, <2>1, NoNewFollowerWhen, FollowingElse
<1>2. CASE /\ WinMoves(c, {"followers"}) /\ job'[c].env = job[c].env
           /\ job'[c].listed = {p \in Pid : followers[job[c].env][p] # W!NoFollower}
           /\ process' = W!Without(W!Verified(job[c].env))
  <2>1. job'[c].pc = "followers" /\ \A d \in Cli \ {c} : job'[d] = job[d]
    BY <1>2 DEF WinMoves
  <2>2. NoNewFollower
    BY <1>0, <1>2, NoNewFollowerWhen
  <2>3. FollowersBelong' /\ Filed'
    BY <1>0, <2>1, <2>2, BelongKept, FiledKept DEF WinFollowing, Followed
  <2>4. Listed(c)'
    <3> SUFFICES ASSUME NEW d \in Cli, job'[d].pc = "wait", job'[d].env = job'[c].env PROVE job'[d].pid \in job'[c].listed
      BY <2>1 DEF Listed
    <3>1. job'[d] = job[d] /\ job[d].env = job[c].env /\ job[d].pc = "wait"
      BY <1>2, <2>1
    <3>2. followers[job[c].env][job[d].pid] = job[d].child
      BY <3>1 DEF WinFollowing, Filed
    <3>3. job[d].child.child \in Pid
      BY <3>1 DEF WinNames, JobsName, JobName, Followed, Identifies
    <3>4. W!NoFollower.child \notin Pid
      BY PartsAssumption DEF W!NoFollower, W!WindowsServiceAssumption
    <3>5. job[d].pid \in Pid
      BY <3>1, LogsIsRun DEF Logging
    <3> QED BY <1>2, <3>1, <3>2, <3>3, <3>4, <3>5
  <2>5. \A d \in Cli \ {c} : Listed(d)'
    BY <2>1, ListedKept
  <2> QED BY <2>3, <2>4, <2>5 DEF WinFollowing
<1> QED BY <1>0, <1>1, <1>2, KillDoes

LEMMA FollowingNone ==
    ASSUME WinBasics, WinFollowing, NEW c \in Cli, W!NoFollowersLeft(c)
    PROVE  WinFollowing'
<1>0. /\ job[c].pc = "followers" /\ job[c].listed = {} /\ WinMoves(c, {"forget"}) /\ SameCommand(c)
      /\ UNCHANGED <<process, followers>> /\ WinTypes
  BY NoFollowersLeftDoes DEF WinBasics
<1>1. job'[c].pc = "forget" /\ job'[c].env = job[c].env /\ \A d \in Cli \ {c} : job'[d] = job[d]
  BY <1>0 DEF WinMoves, SameCommand
<1>2. FollowersBelong' /\ Filed'
  BY <1>0, <1>1, NoNewFollowerWhen, BelongKept, FiledKept DEF WinFollowing, Followed
<1>3. Listed(c)'
  BY <1>0, <1>1 DEF WinFollowing, Listed
<1>4. \A d \in Cli \ {c} : Listed(d)'
  BY <1>1, ListedKept
<1> QED BY <1>2, <1>3, <1>4 DEF WinFollowing

LEMMA FollowingBegin ==
    ASSUME WinBasics, WinFollowing, NEW c \in Cli, NEW k \in W!Kind, NEW e \in Env, W!Begin(c, k, e)
    PROVE  WinFollowing'
<1>0. WinTypes /\ WinMoves(c, {"lock"}) /\ job[c].pc = "idle" /\ UNCHANGED followers
  BY BeginDoes DEF WinBasics
<1>1. NoNewFollower
  <2>1. CASE UNCHANGED process
    BY <1>0, <2>1, NoNewFollowerWhen
  <2>2. ASSUME NEW p \in Pid, Spawns(p, process'[p].born, "logs", e) PROVE NoNewFollower
    BY <1>0, <2>2, NoNewFollowerWhen
  <2> QED BY <1>0, <2>1, <2>2, BeginDoes DEF Spawns
<1>2. {"lock"} \cap (Followed \cup {"followers", "forget"}) = {} /\ job[c].pc \notin Followed
  BY <1>0 DEF Followed
<1> QED BY <1>0, <1>1, <1>2, FollowingElse

LEMMA FollowingOthers ==
    ASSUME WinBasics, WinFollowing, NEW p \in Pid, W!Exits(p) \/ W!Appears(p)
    PROVE  WinFollowing'
<1>0. WinTypes /\ UNCHANGED <<followers, job>>
  BY ExitsDoes, AppearsDoes DEF WinBasics
<1>1. NoNewFollower
  BY <1>0, ExitsDoes, AppearsDoes, NoNewFollowerWhen
<1>2. FollowersBelong' /\ Filed'
  BY <1>0, <1>1, BelongKept, FiledKept DEF WinFollowing
<1>3. \A c \in Cli : Listed(c)'
  BY <1>0, ListedKept
<1> QED BY <1>2, <1>3 DEF WinFollowing

\* A saiai logs that ends by itself: its child has ended, or ends with it.
LEMMA FollowingEnds ==
    ASSUME WinBasics, WinNames, WinFollowing, NEW c \in Cli, job[c].pc \in Followed, WinMoves(c, {"idle"}),
           \/ process' = W!Without(W!OwnWorker(c) \cup W!Children(c))
           \/ W!Children(c) = {} /\ process' = W!Without(W!OwnWorker(c)),
           \/ UNCHANGED followers
           \/ Files(job[c].env, job[c].pid, W!NoFollower)
    PROVE  WinFollowing'
<1>0. WinTypes /\ job'[c].pc = "idle" /\ \A d \in Cli \ {c} : job'[d] = job[d]
  BY DEF WinBasics, WinMoves
<1>1. NoNewFollower
  BY <1>0, NoNewFollowerWhen
<1>2. \A p \in Pid : job[c].child.child = p /\ job[c].child.childBorn = process[p].born => process'[p].role # "follower"
  <2> SUFFICES ASSUME NEW p \in Pid, job[c].child.child = p, job[c].child.childBorn = process[p].born, process'[p].role = "follower"
               PROVE  FALSE
    OBVIOUS
  <2>1. process'[p] = process[p] /\ process[p].role # "none"
    BY <1>1 DEF NoNewFollower
  <2>2. p # Nobody
    BY PartsAssumption DEF W!WindowsServiceAssumption
  <2>3. p \in W!Children(c)
    BY <2>1, <2>2 DEF W!Children, W!Runs
  <2> QED BY <1>0, <2>3, WithoutType
<1>3. FollowersBelong'
  <2>1. \A d \in Cli : job[d].pc \in Followed =>
              \/ job'[d].pc \in Followed /\ job'[d].child = job[d].child /\ job'[d].env = job[d].env
              \/ \A p \in Pid : job[d].child.child = p /\ job[d].child.childBorn = process[p].born => process'[p].role # "follower"
    BY <1>0, <1>2
  <2> QED BY <1>1, <2>1, BelongKept DEF WinFollowing
<1>4. Filed'
  <2> SUFFICES ASSUME NEW d \in Cli, job'[d].pc \in {"release", "wait"}
               PROVE  /\ job'[d] = job[d]
                      /\ followers'[job[d].env][job[d].pid] = followers[job[d].env][job[d].pid]
    BY FiledKept DEF WinFollowing
  <2>1. d # c /\ job'[d] = job[d]
    BY <1>0
  <2>2. LogsRun(c) /\ job[c].pid \in Pid /\ LogsRun(d) /\ job[d].pid \in Pid
    BY <2>1, LogsIsRun DEF Followed, Logging
  <2>3. job[c].pid # job[d].pid
    BY <2>1, <2>2 DEF WinNames, LogsDiffer
  <2>4. job[c].env \in Env /\ job[d].env \in Env
    BY <1>0 DEF WinTypes, WinJobs
  <2>5. followers'[job[d].env][job[d].pid] = followers[job[d].env][job[d].pid]
    BY <2>2, <2>3, <2>4 DEF Files
  <2> QED BY <2>1, <2>5
<1>5. \A d \in Cli : Listed(d)'
  <2>1. \A d \in Cli : job'[d].pc # "idle" => job'[d] = job[d]
    BY <1>0
  <2> QED BY <2>1, ListedKept
<1> QED BY <1>3, <1>4, <1>5 DEF WinFollowing

LEMMA FollowingSpawns ==
    ASSUME WinBasics, WinNames, WinFollowing, NEW c \in Cli, W!SpawnFollower(c)
    PROVE  WinFollowing'
<1>0. WinTypes /\ job[c].pc = "follow" /\ UNCHANGED followers
  BY SpawnFollowerDoes DEF WinBasics
<1>1. CASE WinMoves(c, {"idle"}) /\ OnlyEnds
  <2>1. {"idle"} \cap (Followed \cup {"followers", "forget"}) = {} /\ job[c].pc \notin Followed
    BY <1>0 DEF Followed
  <2> QED BY <1>0, <1>1, <2>1, NoNewFollowerWhen, FollowingElse
<1>2. CASE /\ WinMoves(c, {"register"}) /\ job'[c].env = job[c].env /\ job'[c].child.child \in Pid
           /\ Spawns(job'[c].child.child, job'[c].child.childBorn, "follower", job[c].env)
  <2>1. job'[c].pc = "register" /\ \A d \in Cli \ {c} : job'[d] = job[d]
    BY <1>2 DEF WinMoves
  <2>2. FollowersBelong'
    <3> SUFFICES ASSUME NEW p \in Pid, process'[p].role = "follower" PROVE \E d \in Cli : Follows(d, p)'
      BY DEF FollowersBelong
    <3>1. CASE p = job'[c].child.child
      <4>1. Follows(c, p)'
        BY <1>2, <2>1, <3>1 DEF Spawns, Follows, Followed
      <4> QED BY <4>1
    <3>2. CASE p # job'[c].child.child
      <4>1. process'[p] = process[p]
        BY <1>2, <3>2 DEF Spawns
      <4>2. PICK d \in Cli : Follows(d, p)
        BY <4>1 DEF WinFollowing, FollowersBelong
      <4>3. d # c
        BY <1>0, <4>2 DEF Follows, Followed
      <4>4. Follows(d, p)'
        BY <2>1, <4>1, <4>2, <4>3 DEF Follows
      <4> QED BY <4>4
    <3> QED BY <3>1, <3>2
  <2>3. Filed'
    BY <1>0, <2>1, FiledKept DEF WinFollowing
  <2>4. \A d \in Cli : Listed(d)'
    <3>1. \A d \in Cli : job'[d].pc # "register" => job'[d] = job[d]
      BY <2>1
    <3> QED BY <3>1, ListedKept
  <2> QED BY <2>2, <2>3, <2>4 DEF WinFollowing
<1> QED BY <1>0, <1>1, <1>2, SpawnFollowerDoes

LEMMA FollowingRegister ==
    ASSUME WinBasics, WinNames, WinFollowing, NEW c \in Cli, W!Register(c)
    PROVE  WinFollowing'
<1>0. WinTypes /\ job[c].pc \in {"register", "release"} /\ job[c].env \in Env
  BY RegisterDoes DEF WinBasics, WinTypes, WinJobs
<1>1. LogsRun(c) /\ job[c].pid \in Pid /\ job[c].pc \in Followed
  BY <1>0, LogsIsRun DEF Logging, Followed
<1>2. CASE WinMoves(c, {"idle"}) /\ UNCHANGED followers /\ process' = W!Without(W!OwnWorker(c) \cup W!Children(c))
  BY <1>1, <1>2, FollowingEnds
<1>3. ASSUME SameCommand(c), UNCHANGED process,
             \/ WinMoves(c, {"wait"}) /\ job[c].pc = "release" /\ UNCHANGED followers
             \/ WinMoves(c, {"release"}) /\ Files(job[c].env, job[c].pid, job[c].child)
      PROVE  WinFollowing'
  <2>1. /\ job'[c].pc \in {"release", "wait"} /\ (job'[c].pc = "wait" => job[c].pc = "release")
        /\ \A d \in Cli \ {c} : job'[d] = job[d]
    BY <1>3 DEF WinMoves
  <2>2. FollowersBelong'
    <3>1. \A d \in Cli : job[d].pc \in Followed =>
              job'[d].pc \in Followed /\ job'[d].child = job[d].child /\ job'[d].env = job[d].env
      BY <1>3, <2>1 DEF SameCommand, Followed
    <3> QED BY <1>0, <1>3, <3>1, NoNewFollowerWhen, BelongKept DEF WinFollowing
  <2>3. Filed'
    <3>1. ASSUME NEW d \in Cli, d # c, job'[d].pc \in {"release", "wait"}
          PROVE  followers'[job[d].env][job[d].pid] = followers[job[d].env][job[d].pid]
      <4>1. LogsRun(d) /\ job[d].pid \in Pid /\ job[d].env \in Env
        BY <1>0, <2>1, <3>1, LogsIsRun DEF Logging, WinTypes, WinJobs
      <4>2. job[c].pid # job[d].pid
        BY <1>1, <3>1, <4>1 DEF WinNames, LogsDiffer
      <4> QED BY <1>0, <1>1, <1>3, <4>1, <4>2 DEF Files
    <3>2. followers'[job'[c].env][job'[c].pid] = job'[c].child
      <4>1. CASE job[c].pc = "release" /\ UNCHANGED followers
        BY <1>3, <4>1 DEF WinFollowing, Filed, SameCommand
      <4>2. CASE Files(job[c].env, job[c].pid, job[c].child)
        BY <1>3, <4>2 DEF Files, SameCommand
      <4> QED BY <1>3, <4>1, <4>2
    <3>3. \A d \in Cli : job'[d].pc \in {"release", "wait"} =>
              \/ /\ job[d].pc \in {"release", "wait"} /\ job'[d].env = job[d].env /\ job'[d].pid = job[d].pid
                 /\ job'[d].child = job[d].child
                 /\ followers'[job[d].env][job[d].pid] = followers[job[d].env][job[d].pid]
              \/ followers'[job'[d].env][job'[d].pid] = job'[d].child
      BY <2>1, <3>1, <3>2
    <3> QED BY <3>3, FiledKept DEF WinFollowing
  <2>4. \A d \in Cli : Listed(d)'
    <3>1. \A d \in Cli : job'[d].pc = "wait" => /\ job[d].pc \in {"wait", "release"} /\ job'[d].env = job[d].env
                                                 /\ job'[d].pid = job[d].pid
      BY <1>3, <2>1 DEF SameCommand
    <3>2. \A d \in Cli : job'[d].pc \in {"followers", "forget"} => job'[d] = job[d]
      BY <2>1
    <3> QED BY <3>1, <3>2, ListedKept
  <2> QED BY <2>2, <2>3, <2>4 DEF WinFollowing
<1> QED BY <1>0, <1>1, <1>2, <1>3, RegisterDoes

LEMMA FollowingRest ==
    ASSUME WinBasics, WinNames, WinFollowing, NEW c \in Cli, W!Unregister(c) \/ W!CloseConsole(c)
    PROVE  WinFollowing'
<1>0. WinTypes /\ job[c].pc = "wait"
  BY DEF W!Unregister, W!CloseConsole, W!At, WinBasics
<1>1. LogsRun(c) /\ job[c].pid \in Pid /\ job[c].pc \in Followed
  BY <1>0, LogsIsRun DEF Logging, Followed
<1>2. CASE W!Unregister(c)
  BY <1>0, <1>1, <1>2, UnregisterDoes, FollowingEnds
<1>3. CASE W!CloseConsole(c)
  BY <1>0, <1>1, <1>3, CloseConsoleDoes, FollowingEnds
<1> QED BY <1>2, <1>3

LEMMA FollowingEndFollower ==
    ASSUME WinBasics, WinNames, WinFollowing, NEW c \in Cli, W!EndFollower(c)
    PROVE  WinFollowing'
<1>0. WinTypes /\ job[c].pc = "followers" /\ job[c].env \in Env
  BY EndFollowerDoes DEF WinBasics, WinTypes, WinJobs
<1>1. CASE WinMoves(c, {"idle", "lock"}) /\ UNCHANGED <<process, followers>>
  <2>1. {"idle", "lock"} \cap (Followed \cup {"followers", "forget"}) = {} /\ job[c].pc \notin Followed
    BY <1>0 DEF Followed
  <2> QED BY <1>0, <1>1, <2>1, NoNewFollowerWhen, FollowingElse
<1>2. ASSUME NEW p \in Pid, EndsRegistered(c, p) PROVE WinFollowing'
  <2> DEFINE e == job[c].env  f == followers[e][p]
  <2>1. /\ f # W!NoFollower
        /\ job'[c].pc = "followers" /\ job'[c].env = e /\ job'[c].listed = job[c].listed \ {p}
        /\ process' \in [Pid -> WinProcesses]
        /\ \A q \in Pid : IF Registered(p, f, q) THEN process'[q].role = "none" /\ process'[q].born = process[q].born
                          ELSE process'[q] = process[q]
        /\ Files(e, p, W!NoFollower)
    BY <1>0, <1>2 DEF EndsRegistered, SameButListed
  <2>2. \A d \in Cli \ {c} : job'[d] = IF job[d].kind = "logs" /\ job[d].pid = p /\ job[d].born = f.born
                                      THEN W!Idle ELSE job[d]
    BY <1>2 DEF EndsRegistered
  <2>3. ASSUME NEW d \in Cli, job[d].pc \in Followed PROVE d # c /\ LogsRun(d) /\ job[d].pid \in Pid /\ job[d].env \in Env
    BY <1>0, <2>3, LogsIsRun DEF Followed, Logging, WinTypes, WinJobs
  <2>4. ASSUME NEW d \in Cli, job[d].pc \in Followed, job[d].env = e PROVE job[d].pc = "wait"
    BY <1>0, <2>3, <2>4, OnlyOneActs DEF Followed, Waiting
  <2>5. ASSUME NEW d \in Cli, job[d].pc \in Followed, job[d].env = e, job[d].pid = p
        PROVE  f = job[d].child /\ f.born = job[d].born /\ job'[d] = W!Idle
    <3>1. f = job[d].child
      BY <2>4, <2>5 DEF WinFollowing, Filed
    <3>2. job[d].child.born = job[d].born
      BY <2>5 DEF WinNames, JobsName, JobName
    <3>3. job[d].kind = "logs" /\ d # c
      BY <2>3, <2>5 DEF LogsRun
    <3> QED BY <2>2, <2>5, <3>1, <3>2, <3>3
  <2>6. ASSUME NEW d \in Cli, job[d].pc \in Followed, job[d].pid = p, job[d].born = f.born PROVE job[d].env = e
    <3>1. process[p].role = "logs" /\ process[p].born = f.born /\ process[p].env = job[d].env
      BY <2>3, <2>6 DEF WinNames, LogsLive
    <3>2. Registered(p, f, p)
      BY <3>1 DEF Registered
    <3> QED BY <1>0, <2>1, <3>1, <3>2, RegisteredIsOwn
  <2>7. NoNewFollower
    BY <2>1 DEF NoNewFollower
  <2>8. FollowersBelong'
    <3>1. ASSUME NEW d \in Cli, job[d].pc \in Followed, job'[d] # job[d]
          PROVE  \A q \in Pid : job[d].child.child = q /\ job[d].child.childBorn = process[q].born => process'[q].role # "follower"
      <4>1. job[d].pid = p /\ job[d].born = f.born
        BY <2>2, <2>3, <3>1
      <4>2. f = job[d].child
        BY <2>5, <2>6, <3>1, <4>1
      <4>3. \A q \in Pid : job[d].child.child = q /\ job[d].child.childBorn = process[q].born /\ process[q].role # "none"
                              => Registered(p, f, q)
        BY <4>2 DEF Registered
      <4> QED BY <2>1, <4>3
    <3> QED BY <2>7, <3>1, BelongKept DEF WinFollowing
  <2>9. \A d \in Cli : job'[d].pc \in Followed => d # c /\ job'[d] = job[d]
    <3> SUFFICES ASSUME NEW d \in Cli, job'[d].pc \in Followed PROVE d # c /\ job'[d] = job[d]
      OBVIOUS
    <3>1. d # c
      BY <2>1 DEF Followed
    <3> QED BY <2>2, <3>1, Idles DEF Followed
  <2>10. Filed'
    <3>1. ASSUME NEW d \in Cli, job'[d].pc \in {"release", "wait"}
          PROVE  /\ job'[d] = job[d]
                 /\ followers'[job[d].env][job[d].pid] = followers[job[d].env][job[d].pid]
      <4>1. job'[d] = job[d] /\ job[d].pc \in Followed
        BY <2>9, <3>1 DEF Followed
      <4>2. ~(job[d].env = e /\ job[d].pid = p)
        BY <2>5, <3>1, <4>1, Idles
      <4>3. job[d].pid \in Pid /\ job[d].env \in Env
        BY <2>3, <4>1
      <4> QED BY <2>1, <4>1, <4>2, <4>3 DEF Files
    <3> QED BY <3>1, FiledKept DEF WinFollowing
  <2>11. Listed(c)'
    <3> SUFFICES ASSUME NEW d \in Cli, job'[d].pc = "wait", job'[d].env = job'[c].env PROVE job'[d].pid \in job'[c].listed
      BY <2>1 DEF Listed
    <3>1. job'[d] = job[d] /\ job[d].pc = "wait" /\ job[d].pc \in Followed
      BY <2>9 DEF Followed
    <3>2. job[d].env = e
      BY <2>1, <3>1
    <3>3. job[d].pid # p
      BY <2>5, <3>1, <3>2, Idles
    <3>4. job[d].pid \in job[c].listed
      BY <1>0, <3>1, <3>2 DEF WinFollowing, Listed
    <3> QED BY <2>1, <3>1, <3>3, <3>4
  <2>12. \A d \in Cli \ {c} : Listed(d)'
    <3>1. \A d \in Cli : job'[d].pc = "wait" => job'[d] = job[d]
      BY <2>9 DEF Followed
    <3>2. \A d \in Cli \ {c} : job'[d].pc \in {"followers", "forget"} => job'[d] = job[d]
      BY <2>2, Idles
    <3> QED BY <3>1, <3>2, ListedKept
  <2> QED BY <2>8, <2>10, <2>11, <2>12 DEF WinFollowing
<1> QED BY <1>0, <1>1, <1>2, EndFollowerDoes

LEMMA FollowingNext == ASSUME WinBasics, WinNames, WinFollowing, W!Next PROVE WinFollowing'
<1>1. ASSUME NEW c \in Cli, W!Step(c) \/ W!CloseConsole(c) PROVE WinFollowing'
  BY <1>1, FollowingMost, FollowingKill, FollowingEndFollower, FollowingNone, FollowingSpawns, FollowingRegister, FollowingRest
     DEF W!Step
<1> QED BY <1>1, FollowingBegin, FollowingOthers DEF W!Next

LEMMA FollowingInit == W!Init => WinFollowing
<1> SUFFICES ASSUME W!Init PROVE WinFollowing
  OBVIOUS
<1>1. \A c \in Cli : job[c].pc = "idle"
  BY Idles DEF W!Init
<1>2. \A p \in Pid : process[p].role # "follower"
  <2>1. PICK p \in Pid, role \in W!Role \ {"logs", "follower"}, d \in Env \ Isolated, bare \in BOOLEAN, copied \in BOOLEAN :
          /\ \A q \in Pid : p <= q
          /\ role = "worker" => ~bare
          /\ role = "legacy" => bare
          /\ process = [q \in Pid |-> IF q = p /\ role # "none" THEN [born |-> 1, role |-> role, env |-> d]
                                     ELSE [born |-> 0, role |-> "none", env |-> d]]
          /\ record = [e \in Env |->
                IF role = "none" \/ (e # d /\ ~copied) THEN W!NoRecord
                ELSE IF bare THEN [W!NoRecord EXCEPT !.pid = p, !.bare = TRUE]
                ELSE [pid |-> p, born |-> IF role = "worker" THEN 1 ELSE 0, env |-> d, bare |-> FALSE]]
    BY WinStarts, Zenon
  <2> QED BY <2>1
<1> QED BY <1>1, <1>2 DEF WinFollowing, FollowersBelong, Filed, Listed

LEMMA WinLeavesNone == ASSUME WinBasics, WinFollowing, W!Next PROVE W!LeavesNoFollower
<1> SUFFICES ASSUME NEW c \in Cli, job[c].pc = "forget", job'[c].pc = "idle", NEW p \in Pid,
                    process'[p].role = "follower", process'[p].env = job[c].env
             PROVE  FALSE
  BY DEF W!LeavesNoFollower, W!At
<1>1. W!Forget(c)
  <2>1. W!Step(c)
    BY OwnStep DEF Ending
  <2> QED BY <2>1 DEF W!Step, W!Lock, W!Inspect, W!Kill, W!EndFollower, W!NoFollowersLeft, W!Ensure, W!Spawn, W!Record,
                      W!SpawnFollower, W!Register, W!Unregister, W!At
<1>2. process[p].role = "follower" /\ process[p].env = job[c].env
  BY <1>1 DEF W!Forget
<1>3. PICK d \in Cli : Follows(d, p)
  BY <1>2 DEF WinFollowing, FollowersBelong
<1>4. job[d].pc \in Followed /\ job[d].env = job[c].env
  BY <1>2, <1>3 DEF Follows
<1>5. job[d].pc # "wait"
  BY <1>4 DEF WinFollowing, Listed
<1> QED BY <1>4, <1>5, OnlyOneActs DEF Followed, Waiting
-----------------------------------------------------------------------------
(* The two managers of Linux (SystemdService) *)

SwitchPcs == {"idle", "background", "active", "write", "reload", "enable", "run", "ensure", "spawn", "await", "unit", "owner"}
Switches == [pc : SwitchPcs, kind : {"start", "stop"}, bus : BOOLEAN, wasActive : BOOLEAN, stopped : BOOLEAN, version : Nat,
             result : {"none", "started", "unitStopped", "stopped", "notRunning", "failed"}]
Proxies == [runs : BOOLEAN, read : Nat, up : BOOLEAN]
Units == [file : BOOLEAN, enabled : BOOLEAN, state : {"inactive", "active", "waiting"}]
SwitchTypes == /\ unitConfig \in Seq(Port \cup {None}) /\ Len(unitConfig) >= 1
               /\ unitCommand \in Switches /\ unitCommand.version <= Len(unitConfig)
               /\ unit \in Units /\ proxy \in [S!Manager -> Proxies]
               /\ \A m \in S!Manager : proxy[m].read <= Len(unitConfig)

\* No such process, and one that reads config.json no earlier than the command
\* was called, if it does at all.
Off(m) == ~proxy[m].runs /\ proxy[m].read = 0 /\ ~proxy[m].up
Recent(m) == proxy[m].read = 0 \/ proxy[m].read >= unitCommand.version
\* One proxy listens at an address, and it has read it in its configuration; a unit that is
\* not active has no process, and one that was never written is not active.
OneListens ==
    /\ proxy["unit"].up /\ proxy["background"].up => unitConfig[proxy["unit"].read] # unitConfig[proxy["background"].read]
    /\ \A m \in S!Manager : proxy[m].up => proxy[m].read > 0
    /\ \A m \in S!Manager : proxy[m].read > 0 => unitConfig[proxy[m].read] # None
    /\ unit.state # "active" => Off("unit")
    /\ ~unit.file => unit.state = "inactive"
\* What a command that is past a step has brought about: no background process,
\* a unit, and a process that came back since it was found not to run.
Switched ==
    /\ unitCommand.pc # "idle" => unitCommand.result = "none"
    /\ unitCommand.pc \notin {"idle", "background", "await"} => Off("background")
    /\ unitCommand.pc = "await" => Recent("background")
    /\ unitCommand.pc \in {"ensure", "spawn", "await", "owner"} => ~unitCommand.bus
    /\ unitCommand.pc \in {"write", "reload", "enable", "run"} /\ ~unitCommand.wasActive => Recent("unit")
    /\ unitCommand.pc \in {"reload", "enable", "run"} => unit.file
SwitchInv == SwitchTypes /\ OneListens /\ Switched

LEMMA Managers == S!Manager = {"unit", "background"}
BY DEF S!Manager
LEMMA NewProxies ==
    /\ S!Gone \in Proxies /\ ~S!Gone.runs /\ S!Gone.read = 0 /\ ~S!Gone.up
    /\ S!Fresh \in Proxies /\ S!Fresh.runs /\ S!Fresh.read = 0 /\ ~S!Fresh.up
<1>1. S!Gone \in Proxies /\ ~S!Gone.runs /\ S!Gone.read = 0 /\ ~S!Gone.up
  BY DEF S!Gone, Proxies
<1> QED BY <1>1 DEF S!Fresh, Proxies

LEMMA ReadsStay ==
    ASSUME SwitchTypes, \A m \in S!Manager : proxy'[m].read \in {0, proxy[m].read}
    PROVE  \A m \in S!Manager : proxy'[m].read <= Len(unitConfig)
<1>1. Len(unitConfig) \in Nat
  BY DEF SwitchTypes
<1> QED BY <1>1 DEF SwitchTypes

LEMMA SwitchInit == S!Init => SwitchInv
<1> SUFFICES ASSUME S!Init PROVE SwitchInv
  OBVIOUS
<1>1. S!Idle \in Switches /\ S!Idle.pc = "idle" /\ S!Idle.version = 0
  BY DEF S!Idle, Switches, SwitchPcs
<1>2. unit \in Units /\ unit.state = "inactive"
  BY DEF S!Init, Units
<1>3. proxy \in [S!Manager -> Proxies] /\ Off("unit") /\ Off("background")
  BY NewProxies, Managers DEF S!Init, Off
<1>4. SwitchTypes
  <2>1. unitConfig \in Seq(Port \cup {None}) /\ Len(unitConfig) = 1
    BY DEF S!Init
  <2> QED BY <1>1, <1>2, <1>3, <2>1, Managers DEF S!Init, SwitchTypes, Off, Switches
<1> QED BY <1>1, <1>2, <1>3, <1>4, Managers DEF S!Init, SwitchInv, OneListens, Switched, Off

(* The processes *)

\* A process ends, or does not.
LEMMA EndsOff ==
    ASSUME SwitchInv, NEW m \in S!Manager, S!Ends(m), proxy[m].runs \/ proxy[m].read > 0, UNCHANGED <<unitConfig, unitCommand>>
    PROVE  SwitchInv'
<1>1. proxy' \in [S!Manager -> Proxies] /\ Off(m)' /\ \A k \in S!Manager \ {m} : proxy'[k] = proxy[k]
  BY NewProxies DEF SwitchInv, SwitchTypes, S!Ends, Off
<1>2. unit' \in Units /\ unit'.file = unit.file /\ (m # "unit" => unit' = unit) /\ (m = "unit" => unit'.state = "waiting")
  BY DEF SwitchInv, SwitchTypes, S!Ends, Units
<1>3. m = "unit" => unit.file
  BY DEF SwitchInv, OneListens, Off
<1>4. OneListens'
  BY <1>1, <1>2, <1>3, Managers DEF SwitchInv, OneListens, Off
<1>5. Switched'
  BY <1>1, <1>2, <1>3, Managers DEF SwitchInv, Switched, Off, Recent
<1>6. \A k \in S!Manager : proxy'[k].read <= Len(unitConfig)
  BY <1>1 DEF SwitchInv, SwitchTypes, Off
<1> QED BY <1>1, <1>2, <1>4, <1>5, <1>6 DEF SwitchInv, SwitchTypes

LEMMA SwitchProcesses ==
    ASSUME SwitchInv, NEW m \in S!Manager, S!Reads(m) \/ S!Binds(m) \/ S!Crash(m)
    PROVE  SwitchInv'
<1>1. CASE S!Reads(m) /\ ~S!Readable
  BY <1>1, EndsOff DEF S!Reads
<1>2. CASE S!Reads(m) /\ S!Readable
  <2>1. proxy' \in [S!Manager -> Proxies] /\ (\A k \in S!Manager \ {m} : proxy'[k] = proxy[k])
        /\ proxy'[m].read = Len(unitConfig) /\ proxy'[m].runs = proxy[m].runs /\ proxy'[m].up = proxy[m].up /\ proxy[m].read = 0
    <3>1. proxy' = [proxy EXCEPT ![m].read = Len(unitConfig)] /\ Len(unitConfig) \in Nat /\ proxy[m].read = 0
      BY <1>2 DEF S!Reads, S!Version, SwitchInv, SwitchTypes
    <3> QED BY <3>1 DEF SwitchInv, SwitchTypes, Proxies
  <2>2. proxy[m].runs /\ UNCHANGED <<unitConfig, unit, unitCommand>>
    BY <1>2 DEF S!Reads
  <2>3. SwitchTypes'
    BY <2>1, <2>2 DEF SwitchInv, SwitchTypes
  <2>4. OneListens'
    BY <1>2, <2>1, <2>2, Managers DEF SwitchInv, OneListens, SwitchTypes, Off, S!Readable, S!Version
  <2>5. Switched'
    BY <2>1, <2>2, Managers DEF SwitchInv, Switched, SwitchTypes, Off, Recent, Switches
  <2> QED BY <2>3, <2>4, <2>5 DEF SwitchInv
<1>3. CASE S!Binds(m)
  <2>1. CASE S!Listening(proxy[m].read)
    BY <1>3, <2>1, EndsOff DEF S!Binds
  <2>2. CASE ~S!Listening(proxy[m].read)
    <3>1. proxy' \in [S!Manager -> Proxies] /\ (\A k \in S!Manager \ {m} : proxy'[k] = proxy[k])
          /\ proxy'[m].read = proxy[m].read /\ proxy'[m].runs = proxy[m].runs /\ proxy[m].read > 0
      BY <1>3, <2>2 DEF S!Binds, SwitchInv, SwitchTypes, Proxies
    <3>2. SwitchTypes'
      BY <1>3, <2>2, <3>1 DEF S!Binds, SwitchInv, SwitchTypes
    <3>3. OneListens'
      BY <1>3, <2>2, <3>1, Managers DEF S!Binds, SwitchInv, OneListens, S!Listening, S!ListensAt, Off
    <3>4. Switched'
      BY <1>3, <2>2, <3>1, Managers DEF S!Binds, SwitchInv, Switched, Off, Recent
    <3> QED BY <3>2, <3>3, <3>4 DEF SwitchInv
  <2> QED BY <2>1, <2>2
<1>4. CASE S!Crash(m)
  BY <1>4, EndsOff DEF S!Crash
<1> QED BY <1>1, <1>2, <1>3, <1>4

\* What was read of config.json stays what it was when the file is written anew.
LEMMA SwitchChanges == ASSUME SwitchInv, NEW address \in Port \cup {None}, S!Changes(address) PROVE SwitchInv'
<1>1. UNCHANGED <<unit, background, proxy, unitCommand>> /\ unitConfig' = Append(unitConfig, address)
  BY DEF S!Changes
<1>2. unitConfig' \in Seq(Port \cup {None}) /\ Len(unitConfig') = Len(unitConfig) + 1 /\ Len(unitConfig) \in Nat
      /\ \A i \in 1 .. Len(unitConfig) : unitConfig'[i] = unitConfig[i]
  BY <1>1 DEF SwitchInv, SwitchTypes
<1>3. SwitchTypes'
  <2>1. unitCommand.version \in Nat /\ \A m \in S!Manager : proxy[m].read \in Nat
    BY DEF SwitchInv, SwitchTypes, Switches, Proxies
  <2> QED BY <1>1, <1>2, <2>1 DEF SwitchInv, SwitchTypes
<1>4. OneListens'
  <2>1. \A m \in S!Manager : proxy[m].up \/ proxy[m].read > 0 => proxy[m].read \in 1 .. Len(unitConfig)
    BY <1>2 DEF SwitchInv, SwitchTypes, OneListens, Proxies
  <2> QED BY <1>1, <1>2, <2>1, Managers DEF SwitchInv, OneListens, Off
<1>5. Switched'
  BY <1>1 DEF SwitchInv, Switched, Off, Recent
<1> QED BY <1>3, <1>4, <1>5 DEF SwitchInv

LEMMA SwitchOthers ==
    ASSUME SwitchInv, S!UnitRestarts \/ S!ConfigDamaged \/ \E bus \in BOOLEAN, address \in Port : S!ConfigWritten(bus, address)
    PROVE  SwitchInv'
<1>1. CASE S!UnitRestarts
  <2>1. proxy' \in [S!Manager -> Proxies] /\ proxy'["background"] = proxy["background"] /\ proxy'["unit"] = S!Fresh
    BY <1>1, NewProxies, Managers DEF S!UnitRestarts, SwitchInv, SwitchTypes
  <2>2. unit' \in Units /\ unit'.file = unit.file /\ unit'.state = "active" /\ unit.file
    BY <1>1 DEF S!UnitRestarts, SwitchInv, SwitchTypes, Units, OneListens
  <2>3. SwitchTypes'
    <3>1. \A m \in S!Manager : proxy'[m].read <= Len(unitConfig)
      BY <2>1, ReadsStay, NewProxies, Managers DEF SwitchInv
    <3> QED BY <1>1, <2>1, <2>2, <3>1 DEF S!UnitRestarts, SwitchInv, SwitchTypes
  <2>4. OneListens'
    BY <1>1, <2>1, <2>2, NewProxies, Managers DEF S!UnitRestarts, SwitchInv, OneListens, Off
  <2>5. Switched'
    BY <1>1, <2>1, <2>2, NewProxies, Managers DEF S!UnitRestarts, SwitchInv, Switched, Off, Recent
  <2> QED BY <2>3, <2>4, <2>5 DEF SwitchInv
<1>2. CASE S!ConfigDamaged \/ \E bus \in BOOLEAN, address \in Port : S!ConfigWritten(bus, address)
  BY <1>2, SwitchChanges DEF S!ConfigDamaged, S!ConfigWritten
<1> QED BY <1>1, <1>2

(* The command *)

\* A step of the command that leaves the configuration and what it was called for.
SwitchMoves(pcs) ==
    /\ unitCommand' \in Switches /\ unitCommand'.pc \in pcs /\ unitCommand'.version = unitCommand.version
    /\ unitCommand'.bus = unitCommand.bus /\ UNCHANGED unitConfig
    /\ unitCommand'.pc # "idle" => unitCommand'.result = unitCommand.result
LEMMA SwitchGoes ==
    ASSUME SwitchTypes, UNCHANGED unitConfig
    PROVE  /\ \A pc \in SwitchPcs : S!Go(pc) => SwitchMoves({pc}) /\ unitCommand'.wasActive = unitCommand.wasActive
                                                  /\ unitCommand'.result = unitCommand.result
           /\ \A result \in {"started", "unitStopped", "stopped", "notRunning", "failed"} :
                 S!End(result) => SwitchMoves({"idle"}) /\ unitCommand'.result = result
<1>1. ASSUME NEW pc \in SwitchPcs, S!Go(pc)
      PROVE  SwitchMoves({pc}) /\ unitCommand'.wasActive = unitCommand.wasActive /\ unitCommand'.result = unitCommand.result
  BY <1>1 DEF S!Go, SwitchTypes, Switches, SwitchMoves
<1>2. ASSUME NEW result \in {"started", "unitStopped", "stopped", "notRunning", "failed"}, S!End(result)
      PROVE  SwitchMoves({"idle"}) /\ unitCommand'.result = result
  BY <1>2 DEF S!End, SwitchTypes, Switches, SwitchPcs, SwitchMoves
<1> QED BY <1>1, <1>2

LEMMA SwitchBegins == ASSUME SwitchInv, NEW kind \in {"start", "stop"}, NEW bus \in BOOLEAN, S!Begin(kind, bus) PROVE SwitchInv'
<1>1. Len(unitConfig) \in Nat
  BY DEF SwitchInv, SwitchTypes
<1>2. UNCHANGED <<unitConfig, unit, proxy>>
  BY DEF S!Begin
<1>3. /\ unitCommand' \in Switches /\ unitCommand'.version <= Len(unitConfig)
      /\ \/ unitCommand'.pc = "background" /\ unitCommand'.result = "none"
         \/ unitCommand'.pc = "idle"
  <2>1. CASE kind = "start" /\ ~S!Readable
    <3>1. unitCommand' = [S!Idle EXCEPT !.result = "failed"]
      BY <2>1 DEF S!Begin
    <3>2. S!Idle \in Switches /\ S!Idle.pc = "idle" /\ S!Idle.version = 0
      BY DEF S!Idle, Switches, SwitchPcs
    <3>3. unitCommand' \in Switches /\ unitCommand'.pc = "idle" /\ unitCommand'.version = 0
      BY <3>1, <3>2 DEF Switches
    <3> QED BY <1>1, <3>3
  <2>2. CASE ~(kind = "start" /\ ~S!Readable)
    <3>1. unitCommand' = [S!Idle EXCEPT !.pc = "background", !.kind = kind, !.bus = bus, !.version = Len(unitConfig)]
      BY <2>2 DEF S!Begin, S!Version
    <3>2. S!Idle \in Switches /\ S!Idle.result = "none"
      BY DEF S!Idle, Switches, SwitchPcs
    <3>3. unitCommand' \in Switches /\ unitCommand'.pc = "background" /\ unitCommand'.version = Len(unitConfig)
          /\ unitCommand'.result = "none"
      BY <1>1, <3>1, <3>2 DEF Switches, SwitchPcs
    <3> QED BY <1>1, <3>3
  <2> QED BY <2>1, <2>2
<1>4. SwitchTypes'
  BY <1>2, <1>3 DEF SwitchInv, SwitchTypes
<1> QED BY <1>2, <1>3, <1>4 DEF SwitchInv, OneListens, Switched, Off

\* The background process is gone, and nothing else happened to a process.
LEMMA BackgroundGone ==
    ASSUME SwitchTypes, proxy' = [proxy EXCEPT !["background"] = S!Gone]
    PROVE  /\ proxy' \in [S!Manager -> Proxies] /\ Off("background")' /\ proxy'["unit"] = proxy["unit"]
           /\ \A m \in S!Manager : proxy'[m].read <= Len(unitConfig)
<1>1. proxy' \in [S!Manager -> Proxies] /\ Off("background")' /\ proxy'["unit"] = proxy["unit"]
  BY NewProxies, Managers DEF SwitchTypes, Off
<1>2. Len(unitConfig) \in Nat
  BY DEF SwitchTypes
<1> QED BY <1>1, <1>2, Managers DEF SwitchTypes, Off

LEMMA SwitchStops == ASSUME SwitchInv, S!StopBackground PROVE SwitchInv'
<1>1. CASE S!End("failed") /\ UNCHANGED <<background, proxy>>
  BY <1>1, SwitchGoes DEF SwitchInv, SwitchTypes, OneListens, Switched, Off, SwitchMoves, S!StopBackground, S!World
<1>2. CASE proxy' = [proxy EXCEPT !["background"] = S!Gone]
           /\ unitCommand' = [unitCommand EXCEPT !.stopped = background /\ proxy["background"].runs,
                                  !.pc = CASE unitCommand.kind = "stop" /\ unitCommand.bus -> "unit"
                                           [] unitCommand.kind = "stop" /\ ~unitCommand.bus -> "owner"
                                           [] unitCommand.kind # "stop" /\ unitCommand.bus -> "active"
                                           [] OTHER -> "ensure"]
  <2>1. PICK stopped \in BOOLEAN, pc \in {"unit", "owner", "active", "ensure"} :
             /\ unitCommand' = [unitCommand EXCEPT !.stopped = stopped, !.pc = pc]
             /\ pc \in {"owner", "ensure"} => ~unitCommand.bus
    <3>1. PICK stopped \in BOOLEAN : stopped = (background /\ proxy["background"].runs)
      OBVIOUS
    <3>2. PICK pc \in {"unit", "owner", "active", "ensure"} :
             /\ pc = CASE unitCommand.kind = "stop" /\ unitCommand.bus -> "unit"
                       [] unitCommand.kind = "stop" /\ ~unitCommand.bus -> "owner"
                       [] unitCommand.kind # "stop" /\ unitCommand.bus -> "active"
                       [] OTHER -> "ensure"
             /\ pc \in {"owner", "ensure"} => ~unitCommand.bus
      OBVIOUS
    <3> QED BY <1>2, <3>1, <3>2, Zenon
  <2>2. unitCommand' \in Switches /\ unitCommand'.pc \in {"unit", "owner", "active", "ensure"}
        /\ unitCommand'.version = unitCommand.version /\ unitCommand'.result = unitCommand.result
        /\ (unitCommand'.pc \in {"owner", "ensure"} => ~unitCommand'.bus)
    BY <2>1 DEF SwitchInv, SwitchTypes, Switches, SwitchPcs
  <2>3. UNCHANGED <<unitConfig, unit>> /\ unitCommand.pc = "background"
    BY DEF S!StopBackground, S!World, S!At
  <2>4. SwitchTypes'
    BY <1>2, <2>2, <2>3, BackgroundGone DEF SwitchInv, SwitchTypes
  <2>5. OneListens'
    BY <1>2, <2>3, BackgroundGone, Managers DEF SwitchInv, OneListens, Off
  <2>6. Switched'
    BY <1>2, <2>2, <2>3, BackgroundGone DEF SwitchInv, Switched
  <2> QED BY <2>4, <2>5, <2>6 DEF SwitchInv
<1> QED BY <1>1, <1>2 DEF S!StopBackground

LEMMA SwitchActive == ASSUME SwitchInv, S!Active PROVE SwitchInv'
<1>0. UNCHANGED <<unitConfig, unit, proxy>> /\ unitCommand.pc = "active"
  BY DEF S!Active, S!World, S!At
<1>1. CASE S!End("failed")
  BY <1>0, <1>1, SwitchGoes DEF SwitchInv, SwitchTypes, OneListens, Switched, Off, SwitchMoves
<1>2. CASE unitCommand' = [unitCommand EXCEPT !.pc = "write", !.wasActive = (unit.state = "active")]
  <2>1. PICK active \in BOOLEAN : active <=> unit.state = "active"
    OBVIOUS
  <2>2. unitCommand' = [unitCommand EXCEPT !.pc = "write", !.wasActive = active]
    BY <1>2, <2>1
  <2>3. unitCommand' \in Switches /\ unitCommand'.pc = "write" /\ unitCommand'.version = unitCommand.version
        /\ unitCommand'.result = unitCommand.result /\ (unitCommand'.wasActive <=> unit.state = "active")
    BY <2>1, <2>2 DEF SwitchInv, SwitchTypes, Switches, SwitchPcs
  <2>4. SwitchTypes'
    BY <1>0, <2>3 DEF SwitchInv, SwitchTypes
  <2>5. OneListens'
    BY <1>0 DEF SwitchInv, OneListens, Off
  <2>6. Switched'
    BY <1>0, <2>3 DEF SwitchInv, Switched, OneListens, Off, Recent
  <2> QED BY <2>4, <2>5, <2>6 DEF SwitchInv
<1> QED BY <1>1, <1>2 DEF S!Active

\* write, reload and enable differ in what they do to the unit's file.
LEMMA SwitchInstalls == ASSUME SwitchInv, S!WriteUnit \/ S!Reload \/ S!Enable PROVE SwitchInv'
<1>0. UNCHANGED <<unitConfig, proxy>>
  BY DEF S!WriteUnit, S!Reload, S!Enable, S!World
<1>1. unit' \in Units /\ unit'.state = unit.state /\ (unit.file => unit'.file)
  BY DEF S!WriteUnit, S!Reload, S!Enable, SwitchInv, SwitchTypes, Units
<1>2. OneListens'
  BY <1>0, <1>1 DEF SwitchInv, OneListens, Off
<1>3. CASE S!End("failed")
  <2>1. Switched'
    BY <1>0, <1>3, SwitchGoes DEF SwitchInv, Switched, SwitchMoves
  <2> QED BY <1>0, <1>1, <1>2, <1>3, <2>1, SwitchGoes DEF SwitchInv, SwitchTypes, SwitchMoves
<1>4. ASSUME NEW pc \in {"reload", "enable", "run"}, S!Go(pc), unit'.file,
             unitCommand.pc \in {"write", "reload", "enable"}
      PROVE  SwitchInv'
  <2>1. SwitchMoves({pc}) /\ unitCommand'.wasActive = unitCommand.wasActive /\ unitCommand'.result = unitCommand.result
    BY <1>0, <1>4, SwitchGoes DEF SwitchInv, SwitchPcs
  <2>2. Off("background")' /\ (~unitCommand.wasActive => Recent("unit")')
    <3>1. Off("background") /\ (~unitCommand.wasActive => Recent("unit"))
      BY <1>4 DEF SwitchInv, Switched
    <3> QED BY <1>0, <2>1, <3>1 DEF SwitchMoves, Off, Recent
  <2>3. unitCommand'.pc = pc /\ unitCommand'.result = "none"
    BY <1>4, <2>1 DEF SwitchInv, Switched, SwitchMoves
  <2>4. Switched'
    BY <1>4, <2>1, <2>2, <2>3 DEF Switched
  <2> QED BY <1>0, <1>1, <1>2, <2>1, <2>4 DEF SwitchInv, SwitchTypes, SwitchMoves
<1>5. CASE S!WriteUnit
  <2>1. S!Go("reload") /\ unit' = [unit EXCEPT !.file = TRUE] => unit'.file
    BY DEF SwitchInv, SwitchTypes, Units
  <2> QED BY <1>3, <1>4, <1>5, <2>1 DEF S!WriteUnit, S!At
<1>6. CASE S!Reload \/ S!Enable
  <2>1. unit.file
    BY <1>6 DEF SwitchInv, Switched, S!Reload, S!Enable, S!At
  <2> QED BY <1>1, <1>3, <1>4, <1>6, <2>1 DEF S!Reload, S!Enable, S!At
<1> QED BY <1>5, <1>6

LEMMA SwitchRuns == ASSUME SwitchInv, S!RunUnit PROVE SwitchInv' /\ S!RunsTheConfiguration
<1>0. UNCHANGED unitConfig /\ unitCommand.pc = "run" /\ unit.file
  BY DEF S!RunUnit, S!World, S!At, SwitchInv, Switched
<1>1. CASE S!End("failed") /\ UNCHANGED <<unit, proxy>>
  BY <1>0, <1>1, SwitchGoes DEF SwitchInv, SwitchTypes, OneListens, Switched, Off, SwitchMoves, S!RunsTheConfiguration
<1>2. CASE unit' = [unit EXCEPT !.state = "active"] /\ S!End("started")
           /\ proxy' = IF S!Renews THEN [proxy EXCEPT !["unit"] = S!Fresh] ELSE proxy
  <2>1. proxy' \in [S!Manager -> Proxies] /\ proxy'["background"] = proxy["background"]
        /\ (S!Renews => proxy'["unit"] = S!Fresh) /\ (~S!Renews => proxy' = proxy)
    BY <1>2, NewProxies, Managers DEF SwitchInv, SwitchTypes
  <2>2. unit' \in Units /\ unit'.state = "active" /\ unit'.file
    BY <1>0, <1>2 DEF SwitchInv, SwitchTypes, Units
  <2>3. SwitchTypes'
    <3>1. \A m \in S!Manager : proxy'[m].read <= Len(unitConfig)
      BY <2>1, ReadsStay, NewProxies, Managers DEF SwitchInv
    <3> QED BY <1>0, <1>2, <2>1, <2>2, <3>1, SwitchGoes DEF SwitchInv, SwitchTypes, SwitchMoves
  <2>4. Off("background")
    BY <1>0 DEF SwitchInv, Switched
  <2>5. OneListens'
    BY <1>0, <2>1, <2>2, <2>4, NewProxies, Managers DEF SwitchInv, OneListens, Off
  <2>6. Switched'
    BY <1>0, <1>2, SwitchGoes DEF SwitchInv, Switched, SwitchMoves
  <2>7. ASSUME ~S!Renews PROVE Recent("unit")
    BY <1>0, <2>7 DEF SwitchInv, Switched, S!Renews
  <2>8. S!RunsTheConfiguration
    BY <2>1, <2>4, <2>5, <2>7, NewProxies, Managers DEF S!RunsTheConfiguration, OneListens, Off, Recent
  <2> QED BY <2>3, <2>5, <2>6, <2>8 DEF SwitchInv
<1> QED BY <1>1, <1>2 DEF S!RunUnit

LEMMA SwitchSpawns == ASSUME SwitchInv, S!Ensure \/ S!Spawn PROVE SwitchInv'
<1>0. UNCHANGED <<unitConfig, unit>> /\ unitCommand.pc \in {"ensure", "spawn"}
  BY DEF S!Ensure, S!Spawn, S!World, S!At
<1>1. CASE S!End("failed") /\ UNCHANGED proxy
  BY <1>0, <1>1, SwitchGoes DEF SwitchInv, SwitchTypes, OneListens, Switched, Off, SwitchMoves
<1>2. CASE S!Go("spawn") /\ UNCHANGED proxy
  <2>1. SwitchMoves({"spawn"}) /\ unitCommand'.result = unitCommand.result
    BY <1>0, <1>2, SwitchGoes DEF SwitchInv, SwitchPcs
  <2> QED BY <1>0, <1>2, <2>1 DEF SwitchInv, SwitchTypes, OneListens, Switched, Off, SwitchMoves
<1>3. CASE S!Go("await") /\ proxy' = [proxy EXCEPT !["background"] = S!Fresh]
  <2>1. SwitchMoves({"await"}) /\ unitCommand'.result = unitCommand.result
    BY <1>0, <1>3, SwitchGoes DEF SwitchInv, SwitchPcs
  <2>2. proxy' \in [S!Manager -> Proxies] /\ proxy'["background"] = S!Fresh /\ proxy'["unit"] = proxy["unit"]
    BY <1>3, NewProxies, Managers DEF SwitchInv, SwitchTypes
  <2>3. SwitchTypes'
    <3>1. \A m \in S!Manager : proxy'[m].read <= Len(unitConfig)
      BY <2>2, ReadsStay, NewProxies, Managers DEF SwitchInv
    <3> QED BY <1>0, <2>1, <2>2, <3>1 DEF SwitchInv, SwitchTypes, SwitchMoves
  <2>4. OneListens'
    BY <1>0, <2>2, NewProxies, Managers DEF SwitchInv, OneListens, Off
  <2>5. Switched'
    BY <1>0, <2>1, <2>2, NewProxies DEF SwitchInv, Switched, SwitchMoves, Recent
  <2> QED BY <2>3, <2>4, <2>5 DEF SwitchInv
<1> QED BY <1>1, <1>2, <1>3 DEF S!Ensure, S!Spawn

LEMMA SwitchAwaits == ASSUME SwitchInv, S!Await PROVE SwitchInv' /\ S!RunsTheConfiguration
<1>0. UNCHANGED <<unitConfig, unit>> /\ unitCommand.pc = "await"
  BY DEF S!Await, S!World, S!At
<1>1. CASE S!ListensAt("background", unitCommand.version) /\ S!End("started") /\ UNCHANGED proxy
  <2>1. SwitchInv'
    BY <1>0, <1>1, SwitchGoes DEF SwitchInv, SwitchTypes, OneListens, Switched, Off, SwitchMoves
  <2>2. S!RunsTheConfiguration
    <3> SUFFICES ASSUME NEW m \in S!Manager, proxy'[m].up
                 PROVE  proxy'[m].read >= unitCommand.version \/ S!OutOfReach(m, unitCommand.version)'
      BY DEF S!RunsTheConfiguration
    <3>1. unitCommand'.version = unitCommand.version /\ unitCommand'.bus = unitCommand.bus /\ ~unitCommand.bus
      BY <1>0, <1>1, SwitchGoes DEF SwitchInv, SwitchMoves, Switched
    <3>2. CASE m = "background"
      BY <1>0, <1>1, <3>2, Managers DEF SwitchInv, OneListens, Switched, Recent
    <3>3. CASE m = "unit"
      <4>1. ~S!ListensAt("unit", unitCommand.version)
        BY <1>1, <3>3 DEF S!ListensAt, SwitchInv, OneListens
      <4> QED BY <1>0, <1>1, <3>1, <3>3, <4>1 DEF S!OutOfReach, S!ListensAt
    <3> QED BY <3>2, <3>3, Managers
  <2> QED BY <2>1, <2>2
<1>2. CASE S!End("failed") /\ proxy' = [proxy EXCEPT !["background"] = S!Gone]
  <2>1. OneListens'
    BY <1>0, <1>2, BackgroundGone, SwitchGoes, Managers DEF SwitchInv, OneListens, Off, SwitchMoves
  <2>2. SwitchTypes' /\ Switched'
    BY <1>0, <1>2, BackgroundGone, SwitchGoes DEF SwitchInv, SwitchTypes, Switched, SwitchMoves
  <2>3. S!RunsTheConfiguration
    BY <1>0, <1>2, SwitchGoes DEF S!RunsTheConfiguration, SwitchInv
  <2> QED BY <2>1, <2>2, <2>3 DEF SwitchInv
<1> QED BY <1>1, <1>2 DEF S!Await

LEMMA SwitchEnds == ASSUME SwitchInv, S!StopUnit \/ S!CheckOwner PROVE SwitchInv' /\ S!SaysSoTruly
<1>0. UNCHANGED unitConfig /\ unitCommand.pc \in {"unit", "owner"} /\ Off("background")
  BY DEF S!StopUnit, S!CheckOwner, S!World, S!At, SwitchInv, Switched
<1>1. ASSUME NEW result \in {"stopped", "notRunning", "failed"}, S!End(result), UNCHANGED <<unit, proxy>>,
             result = "notRunning" /\ proxy["unit"].up => S!OutOfReach("unit", S!Version)
      PROVE  SwitchInv' /\ S!SaysSoTruly
  <2>1. SwitchInv'
    BY <1>0, <1>1, SwitchGoes DEF SwitchInv, SwitchTypes, OneListens, Switched, Off, SwitchMoves
  <2>2. unitCommand'.result = result /\ unitCommand'.bus = unitCommand.bus
    BY <1>1, SwitchGoes, <1>0 DEF SwitchInv, SwitchMoves
  <2>3. ASSUME result = "notRunning", NEW m \in S!Manager, proxy'[m].up PROVE S!OutOfReach(m, S!Version)'
    <3>1. m = "unit" /\ S!OutOfReach("unit", S!Version)
      BY <1>0, <1>1, <2>3, Managers DEF Off
    <3> QED BY <1>0, <1>1, <2>2, <3>1 DEF S!OutOfReach, S!ListensAt, S!Version
  <2> QED BY <1>1, <2>1, <2>2, <2>3 DEF S!SaysSoTruly
<1>2. CASE S!End("unitStopped") /\ unit' = [unit EXCEPT !.enabled = FALSE, !.state = "inactive"]
           /\ proxy' = [proxy EXCEPT !["unit"] = S!Gone]
  <2>1. proxy' \in [S!Manager -> Proxies] /\ Off("unit")' /\ proxy'["background"] = proxy["background"]
    BY <1>2, NewProxies, Managers DEF SwitchInv, SwitchTypes, Off
  <2>2. unit' \in Units /\ unit'.state = "inactive"
    BY <1>2 DEF SwitchInv, SwitchTypes, Units
  <2>3. SwitchTypes' /\ Switched'
    <3>1. \A m \in S!Manager : proxy'[m].read <= Len(unitConfig)
      BY <2>1, ReadsStay, Managers DEF SwitchInv, Off
    <3> QED BY <1>0, <1>2, <2>1, <2>2, <3>1, SwitchGoes DEF SwitchInv, SwitchTypes, Switched, SwitchMoves
  <2>4. OneListens'
    BY <1>0, <2>1, <2>2, Managers DEF SwitchInv, OneListens, Off
  <2>5. S!SaysSoTruly
    BY <1>0, <1>2, <2>1, SwitchGoes, Managers DEF S!SaysSoTruly, Off, SwitchInv
  <2> QED BY <2>3, <2>4, <2>5 DEF SwitchInv
<1>3. CASE S!StopUnit
  <2>1. ~unit.file => ~proxy["unit"].up
    BY DEF SwitchInv, OneListens, Off
  <2>2. (IF unitCommand.stopped THEN "stopped" ELSE "notRunning") \in {"stopped", "notRunning", "failed"}
    OBVIOUS
  <2> QED BY <1>1, <1>2, <1>3, <2>1, <2>2 DEF S!StopUnit
<1>4. CASE S!CheckOwner
  <2> DEFINE result == IF unitCommand.stopped THEN "stopped" ELSE IF S!NobodyListens THEN "notRunning" ELSE "failed"
  <2>1. result \in {"stopped", "notRunning", "failed"} /\ (result = "notRunning" /\ proxy["unit"].up => S!OutOfReach("unit", S!Version))
    <3>1. ~unitCommand.bus
      BY <1>4 DEF S!CheckOwner, S!At, SwitchInv, Switched
    <3>2. S!NobodyListens /\ proxy["unit"].up => ~S!ListensAt("unit", S!Version)
      <4>1. ASSUME proxy["unit"].up, S!ListensAt("unit", S!Version) PROVE S!Readable
        <5>1. unitConfig[proxy["unit"].read] = unitConfig[S!Version]
          BY <4>1 DEF S!ListensAt
        <5>2. unitConfig[proxy["unit"].read] # None
          BY <4>1, Managers DEF SwitchInv, OneListens
        <5> QED BY <5>1, <5>2 DEF S!Readable
      <4> QED BY <4>1, Managers DEF S!NobodyListens, S!Listening
    <3> QED BY <3>1, <3>2 DEF S!OutOfReach
  <2>2. S!End(result) /\ UNCHANGED <<unit, proxy>>
    BY <1>4 DEF S!CheckOwner
  <2> HIDE DEF result
  <2> QED BY <1>1, <2>1, <2>2
<1> QED BY <1>3, <1>4

\* No other step reports a start, nor anything at all.
LEMMA SwitchQuiet ==
    ASSUME SwitchInv,
           \/ \E m \in S!Manager : S!Reads(m) \/ S!Binds(m) \/ S!Crash(m)
           \/ S!UnitRestarts \/ S!ConfigDamaged \/ \E bus \in BOOLEAN, address \in Port : S!ConfigWritten(bus, address)
           \/ \E kind \in {"start", "stop"}, bus \in BOOLEAN : S!Begin(kind, bus)
           \/ S!StopBackground \/ S!Active \/ S!WriteUnit \/ S!Reload \/ S!Enable \/ S!Ensure \/ S!Spawn
    PROVE  S!RunsTheConfiguration /\ S!SaysSoTruly
<1>1. CASE \/ \E m \in S!Manager : S!Reads(m) \/ S!Binds(m) \/ S!Crash(m)
           \/ S!UnitRestarts \/ S!ConfigDamaged \/ \E bus \in BOOLEAN, address \in Port : S!ConfigWritten(bus, address)
  <2>1. UNCHANGED unitCommand
    BY <1>1 DEF S!Reads, S!Binds, S!Crash, S!UnitRestarts, S!ConfigDamaged, S!ConfigWritten, S!Changes
  <2> QED BY <2>1 DEF S!RunsTheConfiguration, S!SaysSoTruly, S!At, SwitchInv, Switched
<1>2. CASE \E kind \in {"start", "stop"}, bus \in BOOLEAN : S!Begin(kind, bus)
  <2>1. unitCommand'.result \in {"none", "failed"} /\ unitCommand.pc = "idle"
    <3>1. PICK kind \in {"start", "stop"}, bus \in BOOLEAN : S!Begin(kind, bus)
      BY <1>2, Zenon
    <3>2. unitCommand' = [S!Idle EXCEPT !.result = "failed"]
          \/ unitCommand' = [S!Idle EXCEPT !.pc = "background", !.kind = kind, !.bus = bus, !.version = S!Version]
      BY <3>1, Zenon DEF S!Begin
    <3>3. unitCommand'.result \in {"none", "failed"}
      BY <3>2 DEF S!Idle
    <3> QED BY <3>1, <3>3 DEF S!Begin, S!At
  <2> QED BY <2>1 DEF S!RunsTheConfiguration, S!SaysSoTruly, S!At
<1>3. CASE S!StopBackground \/ S!Active \/ S!WriteUnit \/ S!Reload \/ S!Enable \/ S!Ensure \/ S!Spawn
  <2>1. unitCommand.pc \notin {"unit", "owner"}
    BY <1>3 DEF S!StopBackground, S!Active, S!WriteUnit, S!Reload, S!Enable, S!Ensure, S!Spawn, S!At
  <2>2. unitCommand'.result \in {unitCommand.result, "failed"}
    BY <1>3 DEF S!StopBackground, S!Active, S!WriteUnit, S!Reload, S!Enable, S!Ensure, S!Spawn, S!Go, S!End, SwitchInv, SwitchTypes, Switches
  <2> QED BY <2>1, <2>2 DEF S!RunsTheConfiguration, S!SaysSoTruly, S!At
<1> QED BY <1>1, <1>2, <1>3

LEMMA SwitchStep == ASSUME SwitchInv, S!Next PROVE SwitchInv' /\ S!RunsTheConfiguration /\ S!SaysSoTruly
<1>1. CASE S!RunUnit \/ S!Await
  <2>1. unitCommand.pc \notin {"unit", "owner"}
    BY <1>1 DEF S!RunUnit, S!Await, S!At
  <2> QED BY <1>1, <2>1, SwitchRuns, SwitchAwaits DEF S!SaysSoTruly, S!At
<1>2. CASE S!StopUnit \/ S!CheckOwner
  <2>1. unitCommand'.result # "started"
    BY <1>2 DEF S!StopUnit, S!CheckOwner, S!End, SwitchInv, SwitchTypes, Switches
  <2> QED BY <1>2, <2>1, SwitchEnds DEF S!RunsTheConfiguration
<1> QED BY <1>1, <1>2, SwitchQuiet, SwitchProcesses, SwitchOthers, SwitchBegins, SwitchStops, SwitchActive, SwitchInstalls, SwitchSpawns
        DEF S!Next

LEMMA SwitchRests == ASSUME SwitchInv, UNCHANGED varsS PROVE SwitchInv'
BY DEF SwitchInv, SwitchTypes, OneListens, Switched, Off, Recent, varsS
-----------------------------------------------------------------------------
(* saiai update (SelfUpdate) *)

UpdatePcs == {"begin", "check", "download", "verify", "back up", "replace", "restart",
              "updated", "restarted", "notRestarted", "staged", "current", "failed", "killed"}
ScriptPcs == {"none", "wait", "stop", "replace", "verify", "restart", "recover", "ended", "notStarted", "killed"}
Programs == U!Executable \cup {U!NoProgram}
Updaters == [pc : UpdatePcs, active : BOOLEAN, platform : Platforms, current : Programs, expected : Programs]
Scripts == [pc : ScriptPcs, stopped : BOOLEAN, restart : BOOLEAN, expected : Programs]
Services == [runs : Programs, path : {"installed", "gone"}]
UpdateTypes ==
    /\ installed \in U!Executable /\ candidate \in Programs /\ service \in [Env -> Services]
    /\ updater \in Updaters /\ script \in Scripts /\ status \in {"none", "pending", "updated", "failed"}

\* A program that runs, is another than the one that runs the update, and is the
\* one of the manifest if there was one.
Successor(program) ==
    /\ program \in U!Executable /\ program.kind = "good" /\ program # updater.current
    /\ updater.expected \in {U!NoProgram, program}
\* The manifest's program is no older than what runs.
InOrder ==
    /\ updater.pc = "begin" => updater.expected = U!NoProgram
    /\ updater.pc \notin {"begin", "killed"} => updater.current \in U!Executable
    /\ updater.expected # U!NoProgram => U!Weight(updater.expected.version) >= U!Weight(updater.current.version)
\* What the updater has made sure of, up to the program in its place.
Replaces ==
    /\ updater.pc = "verify" => candidate \in U!Executable /\ updater.expected \in {U!NoProgram, candidate}
    /\ updater.pc \in {"back up", "replace"} => Successor(candidate)
    /\ updater.pc \in {"restart", "updated", "restarted", "notRestarted"} => Successor(installed)
\* The same of the helper, that is there after the updater staged a candidate.
Helps ==
    /\ script.pc # "none" <=> updater.pc = "staged"
    /\ script.pc # "none" => Successor(script.expected) /\ status # "none"
    /\ script.pc \in {"wait", "stop", "replace"} => candidate \in U!Executable
    /\ script.pc = "restart" => installed = script.expected
    /\ status = "updated" => script.pc = "ended" /\ installed = script.expected
    /\ script.pc = "recover" => status = "failed"
UpdateInv == UpdateTypes /\ InOrder /\ Replaces /\ Helps

\* Where the versions that the models tell apart are ordered part by part, they
\* are ordered by weight.
LEMMA WeightOf ==
    /\ U!Weight(<<1, 9>>) = 10900 /\ U!Weight(<<1, 10>>) = 11000
    /\ U!Weight(<<1, 9, 0>>) = 10900 /\ U!Weight(<<1, 9, 1>>) = 10901
BY DEF U!Weight, U!Part
LEMMA OlderIsLighter ==
    ASSUME NEW v \in Released, NEW w \in Released, ~U!Older(v, w)
    PROVE  U!Weight(v) >= U!Weight(w)
<1>1. U!Older(<<1, 9>>, <<1, 10>>) /\ U!Older(<<1, 9, 0>>, <<1, 10>>) /\ U!Older(<<1, 9, 1>>, <<1, 10>>)
  BY DEF U!Older, U!Parts, U!Part
<1>2. U!Older(<<1, 9>>, <<1, 9, 1>>) /\ U!Older(<<1, 9, 0>>, <<1, 9, 1>>)
  BY DEF U!Older, U!Parts, U!Part
<1>3. v \in {<<1, 9>>, <<1, 10>>, <<1, 9, 0>>, <<1, 9, 1>>} /\ w \in {<<1, 9>>, <<1, 10>>, <<1, 9, 0>>, <<1, 9, 1>>}
  BY DEF Released
<1> HIDE DEF Released
<1> QED BY <1>1, <1>2, <1>3, WeightOf

LEMMA NoProgramIsNone == U!NoProgram \notin U!Executable /\ U!NoProgram \in Programs /\ U!Executable \subseteq Programs
<1>1. \A program \in U!Executable : program.kind # "none"
  BY DEF U!Executable, U!Kind
<1> QED BY <1>1 DEF U!NoProgram, Programs

LEMMA UpdateInit == U!Init => UpdateInv
<1> SUFFICES ASSUME U!Init PROVE UpdateInv
  OBVIOUS
<1>1. PICK v \in Released : installed = [version |-> v, build |-> 1, kind |-> "good"]
  BY DEF U!Init
<1>2. installed \in U!Executable
  BY <1>1 DEF U!Executable
<1>3. service \in [Env -> Services]
  BY <1>2, NoProgramIsNone DEF U!Init, Services
<1>4. updater \in Updaters /\ updater.pc = "begin" /\ updater.expected = U!NoProgram
  BY NoProgramIsNone DEF U!Init, Updaters, UpdatePcs
<1>5. script \in Scripts /\ script.pc = "none"
  BY NoProgramIsNone DEF U!Init, Scripts, ScriptPcs
<1>6. candidate \in Programs /\ status = "none"
  BY NoProgramIsNone DEF U!Init
<1> QED BY <1>2, <1>3, <1>4, <1>5, <1>6 DEF UpdateInv, UpdateTypes, InOrder, Replaces, Helps

(* The updater *)

\* The updater goes on; what it knows of the programs stays.
UpdaterMoves(pcs) ==
    /\ updater' \in Updaters /\ updater'.pc \in pcs
    /\ updater'.current = updater.current /\ updater'.expected = updater.expected
LEMMA UpdaterGoes ==
    ASSUME UpdateTypes, NEW pc \in UpdatePcs, U!Go(pc)
    PROVE  UpdaterMoves({pc})
BY DEF UpdateTypes, U!Go, Updaters, UpdaterMoves

\* A step that ends the update, before anything is in place, or goes on to a
\* candidate that was made sure of.
LEMMA UpdaterKeeps ==
    ASSUME UpdateInv, NEW pc \in {"check", "download", "verify", "back up", "replace", "current", "failed", "killed"}, UpdaterMoves({pc}),
           updater.pc \notin {"staged", "killed"}, updater.pc = "begin" => pc = "killed",
           UNCHANGED <<installed, service, script>>, status' \in {status, "failed"}, candidate' \in Programs,
           pc = "verify" => candidate' \in U!Executable /\ updater.expected \in {U!NoProgram, candidate'},
           pc \in {"back up", "replace"} => Successor(candidate')
    PROVE  UpdateInv'
<1>1. UpdateTypes'
  BY Zenon DEF UpdateInv, UpdateTypes, UpdaterMoves
<1>2. InOrder'
  <2>1. updater'.pc # "begin" /\ (updater'.pc # "killed" => updater'.current \in U!Executable)
    BY Zenon DEF UpdateInv, InOrder, UpdaterMoves
  <2>2. updater'.expected # U!NoProgram => U!Weight(updater'.expected.version) >= U!Weight(updater'.current.version)
    BY Zenon DEF UpdateInv, InOrder, UpdaterMoves
  <2> QED BY <2>1, <2>2, Zenon DEF InOrder
<1>3. Replaces'
  BY Zenon DEF UpdateInv, Replaces, UpdaterMoves, Successor
<1>4. Helps'
  BY Zenon DEF UpdateInv, Helps, UpdaterMoves
<1> QED BY <1>1, <1>2, <1>3, <1>4, Zenon DEF UpdateInv

LEMMA UpdateBegins == ASSUME UpdateInv, U!Begin PROVE UpdateInv'
<1>1. PICK active \in BOOLEAN : active = U!Active(Own)
  BY DEF U!Active
<1>2. updater.pc = "begin" /\ updater' = [updater EXCEPT !.pc = "check", !.active = active, !.current = installed]
  BY <1>1 DEF U!Begin, U!At
<1>3. updater' \in Updaters /\ updater'.pc = "check" /\ updater'.current = installed /\ updater'.expected = updater.expected
  BY <1>2, NoProgramIsNone, Zenon DEF UpdateInv, UpdateTypes, Updaters, UpdatePcs
<1>4. UNCHANGED <<installed, candidate, service, script, status>>
  BY DEF U!Begin, U!FilesUnchanged, U!OthersUnchanged
<1> QED BY <1>2, <1>3, <1>4 DEF UpdateInv, UpdateTypes, InOrder, Replaces, Helps

LEMMA UpdateChecks == ASSUME UpdateInv, U!CheckManifest PROVE UpdateInv'
<1>0. updater.pc = "check" /\ UNCHANGED <<installed, candidate, service, script, status>>
  BY Zenon DEF U!CheckManifest, U!At, U!FilesUnchanged, U!OthersUnchanged
<1>1. ASSUME NEW pc \in {"failed", "download", "current"}, U!Go(pc) PROVE UpdateInv'
  <2>1. UpdaterMoves({pc})
    BY <1>1, UpdaterGoes, Zenon DEF UpdateInv, UpdatePcs
  <2> QED BY <1>0, <1>1, <2>1, UpdaterKeeps, Zenon DEF UpdateInv, UpdateTypes
<1>2. ASSUME NEW named \in U!Executable, ~U!Older(named.version, updater.current.version),
             updater' = [updater EXCEPT !.pc = "download", !.expected = named]
      PROVE  UpdateInv'
  <2>1. updater' \in Updaters /\ updater'.pc = "download" /\ updater'.current = updater.current /\ updater'.expected = named
    BY <1>2, NoProgramIsNone, Zenon DEF UpdateInv, UpdateTypes, Updaters, UpdatePcs
  <2>2. named.version \in Released /\ updater.current.version \in Released
    BY <1>0, <1>2 DEF UpdateInv, InOrder, U!Executable
  <2>3. U!Weight(named.version) >= U!Weight(updater.current.version)
    BY <1>2, <2>2, OlderIsLighter
  <2>4. InOrder'
    BY <1>0, <2>1, <2>3 DEF UpdateInv, InOrder, U!Weight, U!Part
  <2> QED BY <1>0, <2>1, <2>4 DEF UpdateInv, UpdateTypes, Replaces, Helps
<1> QED BY <1>1, <1>2, Zenon DEF U!CheckManifest, U!Manifest

LEMMA UpdateDownloads == ASSUME UpdateInv, U!Download PROVE UpdateInv'
<1>0. updater.pc = "download" /\ UNCHANGED <<installed, service, script, status>>
  BY DEF U!Download, U!At, U!OthersUnchanged
<1>1. CASE U!Go("failed") /\ UNCHANGED candidate
  <2>1. UpdaterMoves({"failed"})
    BY <1>1, UpdaterGoes, Zenon DEF UpdateInv, UpdatePcs
  <2> QED BY <1>0, <1>1, <2>1, UpdaterKeeps, Zenon DEF UpdateInv, UpdateTypes
<1>2. ASSUME NEW program \in U!Executable, U!Accepted(program), candidate' = program, U!Go("verify") PROVE UpdateInv'
  <2>1. UpdaterMoves({"verify"})
    BY <1>2, UpdaterGoes, Zenon DEF UpdateInv, UpdatePcs
  <2> QED BY <1>0, <1>2, <2>1, UpdaterKeeps, NoProgramIsNone, Zenon DEF U!Accepted
<1> QED BY <1>1, <1>2 DEF U!Download

LEMMA UpdateVerifies == ASSUME UpdateInv, U!VerifyCandidate PROVE UpdateInv'
<1>0. updater.pc = "verify" /\ UNCHANGED <<installed, service, script, status>>
  BY Zenon DEF U!VerifyCandidate, U!At, U!OthersUnchanged
<1>1. ASSUME NEW pc \in {"failed", "current"}, U!Go(pc), candidate' \in {candidate, U!NoProgram} PROVE UpdateInv'
  <2>1. UpdaterMoves({pc})
    BY <1>1, UpdaterGoes, Zenon DEF UpdateInv, UpdatePcs
  <2>2. candidate' \in Programs
    BY <1>1, NoProgramIsNone DEF UpdateInv, UpdateTypes
  <2> QED BY <1>0, <1>1, <2>1, <2>2, UpdaterKeeps, Zenon
<1>2. CASE candidate.kind = "good" /\ candidate # updater.current /\ U!Go("back up") /\ UNCHANGED candidate
  <2>1. UpdaterMoves({"back up"})
    BY <1>2, UpdaterGoes, Zenon DEF UpdateInv, UpdatePcs
  <2>2. Successor(candidate)
    BY <1>0, <1>2, Zenon DEF UpdateInv, Replaces, Successor
  <2> QED BY <1>0, <1>2, <2>1, <2>2, UpdaterKeeps, Zenon DEF UpdateInv, UpdateTypes
<1> QED BY <1>1, <1>2, Zenon DEF U!VerifyCandidate

LEMMA UpdateBacksUp == ASSUME UpdateInv, U!Backup PROVE UpdateInv'
<1>0. updater.pc = "back up" /\ UNCHANGED <<installed, candidate, service, script, status>>
  BY Zenon DEF U!Backup, U!At, U!OthersUnchanged
<1>1. PICK pc \in {"failed", "replace"} : U!Go(pc)
  BY Zenon DEF U!Backup
<1>2. UpdaterMoves({pc})
  BY <1>1, UpdaterGoes, Zenon DEF UpdateInv, UpdatePcs
<1> QED BY <1>0, <1>1, <1>2, UpdaterKeeps, Zenon DEF UpdateInv, UpdateTypes, Replaces

LEMMA UpdateKilled == ASSUME UpdateInv, U!UpdaterKilled PROVE UpdateInv'
<1>0. updater.pc \notin {"staged", "killed"} /\ UNCHANGED <<installed, candidate, service, script, status>> /\ U!Go("killed")
  BY DEF U!UpdaterKilled, U!Ran, U!FilesUnchanged, U!OthersUnchanged
<1>1. UpdaterMoves({"killed"})
  BY <1>0, UpdaterGoes, Zenon DEF UpdateInv, UpdatePcs
<1> QED BY <1>0, <1>1, UpdaterKeeps, Zenon DEF UpdateInv, UpdateTypes

\* The program is in its place: the updater is through, or restarts the service.
LEMMA UpdaterDone ==
    ASSUME UpdateInv, NEW pc \in {"restart", "updated", "restarted", "notRestarted"}, UpdaterMoves({pc}),
           updater.pc \in {"replace", "restart"},
           UNCHANGED <<script, status>>, service' \in [Env -> Services], candidate' \in Programs, Successor(installed')
    PROVE  UpdateInv'
<1>1. UpdateTypes'
  BY DEF UpdateInv, UpdateTypes, UpdaterMoves, Successor
<1>2. InOrder'
  BY DEF UpdateInv, InOrder, UpdaterMoves
<1>3. Replaces'
  BY Zenon DEF UpdateInv, Replaces, UpdaterMoves, Successor
<1>4. Helps'
  BY DEF UpdateInv, Helps, UpdaterMoves
<1> QED BY <1>1, <1>2, <1>3, <1>4 DEF UpdateInv

LEMMA UpdateReplaces == ASSUME UpdateInv, U!Replace PROVE UpdateInv'
<1>0. updater.pc = "replace" /\ UNCHANGED <<service, script, status>>
  BY DEF U!Replace, U!At, U!OthersUnchanged
<1>1. CASE U!Go("failed") /\ U!FilesUnchanged
  <2>1. UpdaterMoves({"failed"})
    BY <1>1, UpdaterGoes, Zenon DEF UpdateInv, UpdatePcs
  <2> QED BY <1>0, <1>1, <2>1, UpdaterKeeps, Zenon DEF UpdateInv, UpdateTypes, U!FilesUnchanged
<1>2. CASE installed' = candidate /\ candidate' = U!NoProgram /\ U!Go(IF updater.active THEN "restart" ELSE "updated")
  <2>1. PICK pc \in {"restart", "updated"} : U!Go(pc)
    BY <1>2
  <2>2. UpdaterMoves({pc})
    BY <2>1, UpdaterGoes, Zenon DEF UpdateInv, UpdatePcs
  <2>3. Successor(installed') /\ candidate' \in Programs /\ service' \in [Env -> Services]
    BY <1>0, <1>2, NoProgramIsNone DEF UpdateInv, Replaces, UpdateTypes
  <2> QED BY <1>0, <2>2, <2>3, UpdaterDone
<1> QED BY <1>1, <1>2 DEF U!Replace

\* The service of the updater's own environment, whatever became of it.
LEMMA ServiceTypes ==
    ASSUME UpdateTypes
    PROVE  /\ \A s \in Services : [service EXCEPT ![Own] = s] \in [Env -> Services] /\ [service EXCEPT ![Own] = s][Own] = s
           /\ \A r \in Programs : [service EXCEPT ![Own].runs = r] \in [Env -> Services]
           /\ service[Own].runs \in Programs /\ Own \in Env
<1>1. Own \in Env
  BY PartsAssumption DEF U!SelfUpdateAssumption
<1>2. service[Own] \in Services
  BY <1>1 DEF UpdateTypes
<1>3. \A r \in Programs : [service EXCEPT ![Own].runs = r] \in [Env -> Services]
  BY <1>1 DEF UpdateTypes, Services
<1> QED BY <1>1, <1>2, <1>3 DEF UpdateTypes, Services

LEMMA UpdateRestarts ==
    ASSUME UpdateInv, U!Restart, "systemd" \notin Platforms PROVE UpdateInv' /\ U!TellsTheTruth
<1>0. updater.pc = "restart" /\ UNCHANGED <<installed, candidate, script, status>>
  BY DEF U!Restart, U!At, U!FilesUnchanged
<1>1. Successor(installed)
  BY <1>0 DEF UpdateInv, Replaces
<1>2. CASE U!Go("notRestarted") /\ \E runs \in {service[Own].runs, U!NoProgram} : service' = [service EXCEPT ![Own].runs = runs]
  <2>1. service' \in [Env -> Services]
    BY <1>2, ServiceTypes, NoProgramIsNone DEF UpdateInv
  <2>2. UpdaterMoves({"notRestarted"})
    BY <1>2, UpdaterGoes, Zenon DEF UpdateInv, UpdatePcs
  <2> QED BY <1>0, <1>1, <2>1, <2>2, UpdaterDone DEF UpdateInv, UpdateTypes, U!TellsTheTruth, UpdaterMoves
<1>3. CASE /\ U!Platform = "fallback" => U!OwnPath = "installed"
           /\ service' = [service EXCEPT ![Own] =
                             [runs |-> IF U!OwnPath = "installed" THEN installed ELSE U!NoProgram, path |-> U!OwnPath]]
           /\ U!Go("restarted")
  <2>1. U!OwnPath = "installed"
    <3>1. updater.platform \in Platforms
      BY DEF UpdateInv, UpdateTypes, Updaters
    <3> QED BY <1>3, <3>1 DEF U!OwnPath, U!Platform
  <2>2. [runs |-> installed, path |-> "installed"] \in Services
    BY NoProgramIsNone DEF UpdateInv, UpdateTypes, Services
  <2>3. service' = [service EXCEPT ![Own] = [runs |-> installed, path |-> "installed"]]
    BY <1>3, <2>1
  <2>4. service' \in [Env -> Services] /\ service'[Own].runs = installed
    BY <2>2, <2>3, ServiceTypes DEF UpdateInv
  <2>5. UpdaterMoves({"restarted"})
    BY <1>3, UpdaterGoes, Zenon DEF UpdateInv, UpdatePcs
  <2>6. UpdateInv'
    BY <1>0, <1>1, <2>4, <2>5, UpdaterDone DEF UpdateInv, UpdateTypes
  <2> QED BY <1>0, <1>1, <2>4, <2>6 DEF U!TellsTheTruth, Successor
<1> QED BY <1>2, <1>3 DEF U!Restart

LEMMA UpdateStages == ASSUME UpdateInv, U!Stage PROVE UpdateInv'
<1>0. updater.pc = "replace" /\ UNCHANGED <<installed, candidate, service>> /\ Successor(candidate)
  BY DEF U!Stage, U!At, U!FilesUnchanged, UpdateInv, Replaces
<1>1. CASE status' = "failed" /\ U!Go("failed") /\ UNCHANGED script
  <2>1. UpdaterMoves({"failed"})
    BY <1>1, UpdaterGoes, Zenon DEF UpdateInv, UpdatePcs
  <2> QED BY <1>0, <1>1, <2>1, UpdaterKeeps, Zenon DEF UpdateInv, UpdateTypes
<1>2. CASE status' = "pending" /\ U!Go("staged")
           /\ script' = [pc |-> "wait", stopped |-> FALSE, restart |-> updater.active, expected |-> candidate]
  <2>1. UpdaterMoves({"staged"})
    BY <1>2, UpdaterGoes, Zenon DEF UpdateInv, UpdatePcs
  <2>2. script' \in Scripts /\ script'.pc = "wait" /\ script'.expected = candidate
    BY <1>2 DEF UpdateInv, UpdateTypes, Updaters, Scripts, ScriptPcs
  <2>3. UpdateTypes'
    BY <1>0, <1>2, <2>1, <2>2 DEF UpdateInv, UpdateTypes, UpdaterMoves
  <2>4. InOrder'
    BY <1>0, <2>1 DEF UpdateInv, InOrder, UpdaterMoves
  <2>5. Replaces'
    BY <2>1, Zenon DEF Replaces, UpdaterMoves
  <2>6. Helps'
    BY <1>0, <1>2, <2>1, <2>2 DEF Helps, UpdaterMoves, Successor
  <2> QED BY <2>3, <2>4, <2>5, <2>6 DEF UpdateInv
<1> QED BY <1>1, <1>2 DEF U!Stage

(* The helper of Windows *)

\* The helper goes on; what it expects stays.
ScriptMoves(pc) == script' \in Scripts /\ script'.pc = pc /\ script'.expected = script.expected
LEMMA ScriptGoes ==
    ASSUME UpdateTypes
    PROVE  /\ \A pc \in ScriptPcs : U!HelperGo(pc) => ScriptMoves(pc)
           /\ U!Fail => \E pc \in {"recover", "ended"} : ScriptMoves(pc) /\ (pc = "ended" => ~(script.stopped /\ script.restart))
<1>1. \A pc \in ScriptPcs : U!HelperGo(pc) => ScriptMoves(pc)
  BY DEF UpdateTypes, U!HelperGo, Scripts, ScriptMoves
<1>2. ASSUME U!Fail PROVE \E pc \in {"recover", "ended"} : ScriptMoves(pc) /\ (pc = "ended" => ~(script.stopped /\ script.restart))
  <2>1. PICK pc \in {"recover", "ended"} : U!HelperGo(pc) /\ (pc = "ended" => ~(script.stopped /\ script.restart))
    BY <1>2 DEF U!Fail
  <2> QED BY <1>1, <2>1 DEF ScriptPcs
<1> QED BY <1>1, <1>2

\* A step of the helper that leaves the programs, or puts the candidate in place.
LEMMA HelperKeeps ==
    ASSUME UpdateInv, NEW pc \in ScriptPcs \ {"none"}, ScriptMoves(pc), script.pc \notin {"none", "ended", "notStarted"}, UNCHANGED updater,
           service' \in [Env -> Services], candidate' \in Programs, installed' \in U!Executable,
           status' \in {"none", "pending", "updated", "failed"},
           script.pc \notin {"none", "wait", "stop", "replace"} => pc \notin {"wait", "stop", "replace"},
           pc \in {"wait", "stop", "replace"} => UNCHANGED candidate,
           pc = "restart" => installed' = script.expected,
           pc = "recover" => status' = "failed",
           status' = status \/ status' = "failed" \/ (status' = "updated" /\ pc = "ended" /\ installed' = script.expected)
    PROVE  UpdateInv'
<1>1. UpdateTypes'
  BY DEF UpdateInv, UpdateTypes, ScriptMoves
<1>2. InOrder'
  BY DEF UpdateInv, InOrder
<1>3. updater.pc = "staged"
  BY DEF UpdateInv, Helps
<1>4. Replaces'
  BY <1>3 DEF Replaces
<1>5. Successor(script.expected)'
  BY DEF UpdateInv, Helps, Successor, ScriptMoves
<1>6. Helps'
  BY <1>3, <1>5 DEF UpdateInv, Helps, ScriptMoves
<1> QED BY <1>1, <1>2, <1>4, <1>6 DEF UpdateInv

\* What else is done to services.
RunPrograms == [service EXCEPT ![Own] = U!Run(Own)]
LEMMA RunTypes ==
    ASSUME UpdateTypes
    PROVE  U!Run(Own) \in Services /\ \A e \in Env : U!Run(e) = U!Run(Own) /\ [service EXCEPT ![e] = U!Run(e)] \in [Env -> Services]
<1>1. U!Run(Own) \in Services
  BY NoProgramIsNone DEF UpdateTypes, U!Run, Services
<1>2. \A e \in Env : U!Run(e) = U!Run(Own)
  BY DEF U!Run
<1> QED BY <1>1, <1>2 DEF UpdateTypes

LEMMA HelperBegins == ASSUME UpdateInv, U!AwaitUpdater \/ U!HelperStops PROVE UpdateInv'
<1>0. script.pc \in {"wait", "stop"} /\ UNCHANGED <<installed, candidate, updater>>
  BY DEF U!AwaitUpdater, U!HelperStops, U!HelperAt, U!FilesUnchanged
<1>1. service' \in [Env -> Services]
  <2>1. U!HelperStops => \E r \in Programs : service' = [service EXCEPT ![Own].runs = r]
    BY ServiceTypes, NoProgramIsNone DEF U!HelperStops, UpdateInv
  <2>2. U!AwaitUpdater => service' = service
    BY DEF U!AwaitUpdater
  <2> QED BY <2>1, <2>2, ServiceTypes DEF UpdateInv, UpdateTypes
<1>2. CASE U!Fail
  <2>1. PICK pc \in {"recover", "ended"} : ScriptMoves(pc)
    BY <1>2, ScriptGoes DEF UpdateInv
  <2> QED BY <1>0, <1>1, <1>2, <2>1, HelperKeeps DEF UpdateInv, UpdateTypes, U!Fail, ScriptPcs
<1>3. ASSUME NEW pc \in {"stop", "replace"}, ScriptMoves(pc), UNCHANGED status PROVE UpdateInv'
  BY <1>0, <1>1, <1>3, HelperKeeps DEF UpdateInv, UpdateTypes, ScriptPcs
<1>4. CASE U!HelperGo("stop") /\ UNCHANGED status
  BY <1>3, <1>4, ScriptGoes DEF UpdateInv, ScriptPcs
<1>5. CASE script' = [script EXCEPT !.pc = "replace", !.stopped = TRUE] /\ UNCHANGED status
  <2>1. ScriptMoves("replace")
    BY <1>5 DEF UpdateInv, UpdateTypes, Scripts, ScriptPcs, ScriptMoves
  <2> QED BY <1>3, <1>5, <2>1
<1> QED BY <1>2, <1>4, <1>5 DEF U!AwaitUpdater, U!HelperStops

LEMMA HelperPlaces == ASSUME UpdateInv, U!HelperReplaces \/ U!HelperVerifies PROVE UpdateInv'
<1>0. script.pc \in {"replace", "verify"} /\ UNCHANGED <<service, updater>>
  BY DEF U!HelperReplaces, U!HelperVerifies, U!HelperAt
<1>1. CASE U!Fail /\ U!FilesUnchanged
  <2>1. PICK pc \in {"recover", "ended"} : ScriptMoves(pc)
    BY <1>1, ScriptGoes DEF UpdateInv
  <2> QED BY <1>0, <1>1, <2>1, HelperKeeps DEF UpdateInv, UpdateTypes, U!Fail, U!FilesUnchanged, ScriptPcs
<1>2. CASE script.pc = "replace" /\ installed' = candidate /\ candidate' = U!NoProgram /\ U!HelperGo("verify") /\ UNCHANGED status
  <2>1. ScriptMoves("verify")
    BY <1>2, ScriptGoes DEF UpdateInv, ScriptPcs
  <2>2. installed' \in U!Executable /\ candidate' \in Programs
    BY <1>2, NoProgramIsNone DEF UpdateInv, Helps
  <2> QED BY <1>0, <1>2, <2>1, <2>2, HelperKeeps DEF UpdateInv, UpdateTypes, ScriptPcs
<1>3. CASE script.pc = "verify" /\ installed = script.expected /\ U!HelperGo("restart") /\ UNCHANGED status /\ U!FilesUnchanged
  <2>1. ScriptMoves("restart")
    BY <1>3, ScriptGoes DEF UpdateInv, ScriptPcs
  <2> QED BY <1>0, <1>3, <2>1, HelperKeeps DEF UpdateInv, UpdateTypes, U!FilesUnchanged, ScriptPcs
<1> QED BY <1>1, <1>2, <1>3 DEF U!HelperReplaces, U!HelperVerifies, U!HelperAt

LEMMA HelperRestarts ==
    ASSUME UpdateInv, U!HelperRestarts PROVE UpdateInv' /\ U!TellsTheTruth /\ U!ComesBack
<1>0. script.pc = "restart" /\ installed = script.expected /\ Successor(installed) /\ UNCHANGED <<installed, candidate, updater>>
  BY DEF U!HelperRestarts, U!HelperAt, U!FilesUnchanged, UpdateInv, Helps
<1>1. CASE U!Fail /\ \E runs \in {service[Own].runs, U!NoProgram} : service' = [service EXCEPT ![Own].runs = runs]
  <2>1. PICK pc \in {"recover", "ended"} : ScriptMoves(pc) /\ (pc = "ended" => ~(script.stopped /\ script.restart))
    BY <1>1, ScriptGoes DEF UpdateInv
  <2>2. service' \in [Env -> Services]
    BY <1>1, ServiceTypes, NoProgramIsNone DEF UpdateInv
  <2>3. UpdateInv'
    BY <1>0, <1>1, <2>1, <2>2, HelperKeeps DEF UpdateInv, UpdateTypes, U!Fail, ScriptPcs
  <2>4. U!TellsTheTruth /\ U!ComesBack
    BY <1>0, <1>1, <2>1 DEF U!TellsTheTruth, U!ComesBack, U!Through, U!Fail, ScriptMoves
  <2> QED BY <2>3, <2>4
<1>2. CASE status' = "updated" /\ U!HelperGo("ended") /\ ((~script.restart /\ UNCHANGED service) \/ (script.restart /\ service' = RunPrograms))
  <2>1. ScriptMoves("ended")
    BY <1>2, ScriptGoes DEF UpdateInv, ScriptPcs
  <2>2. service' \in [Env -> Services] /\ (script.restart => service'[Own] = U!Run(Own))
    BY <1>2, ServiceTypes, RunTypes DEF UpdateInv, UpdateTypes, RunPrograms
  <2>3. UpdateInv'
    BY <1>0, <1>2, <2>1, <2>2, HelperKeeps DEF UpdateInv, UpdateTypes, ScriptPcs
  <2>4. U!Run(Own).runs = installed
    BY <1>0 DEF U!Run, Successor
  <2>5. U!TellsTheTruth /\ U!ComesBack
    BY <1>0, <2>2, <2>4 DEF U!TellsTheTruth, U!ComesBack
  <2> QED BY <2>3, <2>5
<1> QED BY <1>1, <1>2 DEF U!HelperRestarts, RunPrograms

LEMMA HelperEnds ==
    ASSUME UpdateInv, U!HelperRecovers \/ U!HelperKilled PROVE UpdateInv' /\ U!ComesBack
<1>0. UNCHANGED <<installed, candidate, updater, status>>
  BY DEF U!HelperRecovers, U!HelperKilled, U!FilesUnchanged
<1>1. CASE U!HelperRecovers /\ U!HelperGo("ended") /\ service' = RunPrograms
  <2>1. ScriptMoves("ended") /\ script.pc = "recover"
    BY <1>1, ScriptGoes DEF UpdateInv, U!HelperRecovers, U!HelperAt, ScriptPcs
  <2>2. service' \in [Env -> Services] /\ service'[Own] = U!Run(Own)
    BY <1>1, ServiceTypes, RunTypes DEF UpdateInv, UpdateTypes, RunPrograms
  <2> QED BY <1>0, <2>1, <2>2, HelperKeeps DEF UpdateInv, UpdateTypes, ScriptPcs, U!ComesBack
<1>3. CASE /\ U!HelperRecovers /\ U!HelperGo("notStarted")
           /\ \E runs \in {service[Own].runs, U!NoProgram} : service' = [service EXCEPT ![Own].runs = runs]
  <2>1. ScriptMoves("notStarted") /\ script.pc = "recover"
    BY <1>3, ScriptGoes DEF UpdateInv, U!HelperRecovers, U!HelperAt, ScriptPcs
  <2>2. service' \in [Env -> Services]
    BY <1>3, ServiceTypes, NoProgramIsNone DEF UpdateInv
  <2>3. status = "failed"
    BY <2>1 DEF UpdateInv, Helps
  <2>4. UpdateInv'
    BY <1>0, <2>1, <2>2, <2>3, HelperKeeps DEF UpdateInv, UpdateTypes, ScriptPcs
  <2>5. U!ComesBack
    BY <1>0, <2>1, <2>3 DEF U!ComesBack, U!Warned, ScriptMoves
  <2> QED BY <2>4, <2>5
<1>2. CASE U!HelperKilled
  <2>1. ScriptMoves("killed") /\ script.pc \notin {"none", "ended", "notStarted", "killed"} /\ UNCHANGED service
    BY <1>2, ScriptGoes DEF UpdateInv, U!HelperKilled, ScriptPcs
  <2>2. U!ComesBack
    BY <2>1 DEF U!ComesBack, U!Through, ScriptMoves
  <2> QED BY <1>0, <2>1, <2>2, HelperKeeps DEF UpdateInv, UpdateTypes, ScriptPcs
<1> QED BY <1>1, <1>2, <1>3 DEF U!HelperRecovers, RunPrograms

LEMMA UpdateTampered == ASSUME UpdateInv, U!Tampered PROVE UpdateInv'
<1>1. UNCHANGED <<installed, service, updater, script, status>> /\ script.pc \in {"wait", "stop", "replace"} /\ updater.pc = "staged"
  BY DEF U!Tampered, UpdateInv, Helps
<1>2. candidate \in U!Executable /\ candidate' = [candidate EXCEPT !.build = 1, !.kind = "damaged"]
  BY <1>1 DEF U!Tampered, UpdateInv, Helps
<1>3. candidate' \in U!Executable
  BY <1>2 DEF U!Executable, U!Kind
<1>4. UpdateTypes' /\ Helps'
  BY <1>1, <1>3, NoProgramIsNone DEF UpdateInv, UpdateTypes, Helps, Successor
<1> QED BY <1>1, <1>4 DEF UpdateInv, InOrder, Replaces

LEMMA UpdateByUsers == ASSUME UpdateInv, NEW e \in Env, U!UserStarts(e) \/ U!UserStops(e) PROVE UpdateInv'
<1>1. UNCHANGED <<installed, candidate, updater, script, status>>
  BY DEF U!UserStarts, U!UserStops, U!FilesUnchanged
<1>2. service' \in [Env -> Services]
  <2>1. [service EXCEPT ![e].runs = U!NoProgram] \in [Env -> Services]
    BY NoProgramIsNone DEF UpdateInv, UpdateTypes, Services
  <2> QED BY <2>1, RunTypes DEF U!UserStarts, U!UserStops, UpdateInv
<1> QED BY <1>1, <1>2, Zenon DEF UpdateInv, UpdateTypes, InOrder, Replaces, Helps, Successor

\* No other step reports a restart or an update, or ends the helper with a service stopped.
LEMMA UpdateQuiet ==
    ASSUME UpdateInv,
           \/ U!Begin \/ U!CheckManifest \/ U!Download \/ U!VerifyCandidate \/ U!Backup \/ U!Replace \/ U!Stage
           \/ U!UpdaterKilled \/ U!Tampered \/ \E e \in Env : U!UserStarts(e) \/ U!UserStops(e)
    PROVE  U!TellsTheTruth /\ U!ComesBack
<1>1. updater'.pc # "restarted" \/ updater.pc = "restarted"
  <2>1. CASE U!Begin \/ U!CheckManifest \/ U!Download \/ U!VerifyCandidate
    BY <2>1, Zenon DEF U!Begin, U!CheckManifest, U!Download, U!VerifyCandidate, U!Go, UpdateInv, UpdateTypes, Updaters
  <2>2. CASE U!Backup \/ U!Replace \/ U!Stage \/ U!UpdaterKilled
    BY <2>2, Zenon DEF U!Backup, U!Replace, U!Stage, U!UpdaterKilled, U!Go, UpdateInv, UpdateTypes, Updaters
  <2>3. CASE U!Tampered \/ \E e \in Env : U!UserStarts(e) \/ U!UserStops(e)
    BY <2>3 DEF U!Tampered, U!UserStarts, U!UserStops
  <2> QED BY <2>1, <2>2, <2>3
<1>2. UNCHANGED <<status, script>> \/ U!Stage
  <2>1. CASE U!Begin \/ U!CheckManifest \/ U!Download \/ U!VerifyCandidate \/ U!Backup \/ U!Replace \/ U!UpdaterKilled
    BY <2>1, Zenon DEF U!Begin, U!CheckManifest, U!Download, U!VerifyCandidate, U!Backup, U!Replace, U!UpdaterKilled, U!OthersUnchanged
  <2>2. CASE U!Tampered \/ \E e \in Env : U!UserStarts(e) \/ U!UserStops(e)
    BY <2>2 DEF U!Tampered, U!UserStarts, U!UserStops
  <2> QED BY <2>1, <2>2
<1>3. U!Stage => status' # "updated" /\ (script' = script \/ script'.pc = "wait")
  BY DEF U!Stage
<1> QED BY <1>1, <1>2, <1>3 DEF U!TellsTheTruth, U!ComesBack, U!Through

LEMMA UpdateStep ==
    ASSUME UpdateInv, U!Next, "systemd" \notin Platforms PROVE UpdateInv' /\ U!TellsTheTruth /\ U!ComesBack
<1>1. CASE U!Restart
  <2>1. UNCHANGED script
    BY <1>1 DEF U!Restart
  <2> QED BY <1>1, <2>1, UpdateRestarts DEF U!ComesBack, U!Through
<1>2. CASE U!HelperRestarts
  BY <1>2, HelperRestarts
<1>3. CASE U!HelperRecovers \/ U!HelperKilled
  <2>1. UNCHANGED <<updater, status>>
    BY <1>3 DEF U!HelperRecovers, U!HelperKilled
  <2> QED BY <1>3, <2>1, HelperEnds DEF U!TellsTheTruth
<1>4. CASE U!AwaitUpdater \/ U!HelperStops \/ U!HelperReplaces \/ U!HelperVerifies
  <2>1. UNCHANGED updater /\ status' \in {status, "failed"}
    BY <1>4 DEF U!AwaitUpdater, U!HelperStops, U!HelperReplaces, U!HelperVerifies, U!Fail
  <2>2. script'.pc \in {"ended", "notStarted"} => ~(script.stopped /\ script.restart)
    <3>1. script \in Scripts
      BY DEF UpdateInv, UpdateTypes
    <3>2. CASE U!Fail
      BY <3>1, <3>2, ScriptGoes DEF UpdateInv, ScriptMoves
    <3>3. CASE ~U!Fail
      <4>1. script'.pc \in {"stop", "replace", "verify", "restart"}
        BY <1>4, <3>1, <3>3 DEF U!AwaitUpdater, U!HelperStops, U!HelperReplaces, U!HelperVerifies, U!HelperGo, Scripts
      <4> QED BY <4>1
    <3> QED BY <3>2, <3>3
  <2> QED BY <1>4, <2>1, <2>2, HelperBegins, HelperPlaces DEF U!TellsTheTruth, U!ComesBack, U!Through
<1>5. CASE \/ U!Begin \/ U!CheckManifest \/ U!Download \/ U!VerifyCandidate \/ U!Backup \/ U!Replace \/ U!Stage
           \/ U!UpdaterKilled \/ U!Tampered \/ \E e \in Env : U!UserStarts(e) \/ U!UserStops(e)
  BY <1>5, UpdateQuiet, UpdateBegins, UpdateChecks, UpdateDownloads, UpdateVerifies, UpdateBacksUp, UpdateReplaces, UpdateStages,
     UpdateKilled, UpdateTampered, UpdateByUsers
<1> QED BY <1>1, <1>2, <1>3, <1>4, <1>5 DEF U!Next, U!Updater, U!Helper

LEMMA UpdateRests == ASSUME UpdateInv, UNCHANGED varsU PROVE UpdateInv'
BY Zenon DEF UpdateInv, UpdateTypes, InOrder, Replaces, Helps, Successor, varsU

LEMMA UpdateNamed == UpdateInv => U!InstalledIsNamed
<1> SUFFICES ASSUME UpdateInv PROVE U!InstalledIsNamed
  OBVIOUS
<1>1. U!Succeeded => Successor(installed)
  BY Zenon DEF U!Succeeded, U!Warned, UpdateInv, UpdateTypes, Replaces, Helps
<1> QED BY <1>1 DEF U!InstalledIsNamed, Successor, UpdateInv, InOrder
-----------------------------------------------------------------------------
(* The version that a client gives (VersionProbe) *)

Probes == [pc : {"poll", "stdout", "stderr", "done"}, result : {"none", "found", "warning"}, shown : Nat]
\* A reader that is done has all that was and ever will be written, or more than
\* may be shown; who waits for the readers has seen the client end well.
ProbeInv ==
    /\ written \in [P!Stream -> Nat] /\ taken \in [P!Stream -> Nat]
    /\ reader \in [P!Stream -> {"reading", "done"}] /\ probe \in Probes
    /\ \A s \in P!Stream : reader[s] = "done" => taken[s] = LineLimit + 1 \/ (taken[s] = written[s] /\ ~P!Open)
    /\ probe.pc \in {"stdout", "stderr"} => child = "ok"
    /\ probe.pc \in {"poll", "stdout"} => probe.result # "found"
    /\ probe.pc = "stderr" => reader["stdout"] = "done" /\ probe.result # "found"
    /\ probe.result = "found" => probe.pc = "done" /\ ~P!Open
    /\ P!VersionIsWhole

LEMMA ProbeInit == P!Init => ProbeInv
<1> SUFFICES ASSUME P!Init PROVE ProbeInv
  OBVIOUS
<1>1. probe \in Probes /\ probe.pc = "poll" /\ probe.result = "none"
  BY DEF P!Init, Probes
<1> QED BY <1>1 DEF P!Init, ProbeInv, P!VersionIsWhole

LEMMA ProbeClient ==
    ASSUME ProbeInv, P!Fork \/ P!Exit \/ P!ExitDescendant \/ P!TimePasses \/ \E s \in P!Stream : P!Write(s)
    PROVE  ProbeInv'
<1>1. CASE P!Fork \/ P!Exit \/ P!ExitDescendant \/ P!TimePasses
  <2>1. P!Open' => P!Open
    BY <1>1 DEF P!Fork, P!Exit, P!ExitDescendant, P!TimePasses, P!Open
  <2>2. UNCHANGED <<written, taken, reader, safe, probe>> /\ (child # "running" => child' = child)
    BY <1>1 DEF P!Fork, P!Exit, P!ExitDescendant, P!TimePasses
  <2> QED BY <2>1, <2>2 DEF ProbeInv, P!VersionIsWhole
<1>2. ASSUME NEW s \in P!Stream, P!Write(s) PROVE ProbeInv'
  <2>1. P!Open /\ written' = [written EXCEPT ![s] = @ + 1] /\ UNCHANGED <<child, descendant, taken, reader, safe, late, probe>>
    BY <1>2 DEF P!Write
  <2>2. written' \in [P!Stream -> Nat] /\ P!Open'
    BY <2>1 DEF ProbeInv, P!Open
  <2>3. \A q \in P!Stream : reader[q] = "done" => taken[q] = LineLimit + 1
    BY <2>1 DEF ProbeInv
  <2> QED BY <2>1, <2>2, <2>3 DEF ProbeInv, P!VersionIsWhole
<1> QED BY <1>1, <1>2

LEMMA ProbeReads == ASSUME ProbeInv, NEW s \in P!Stream, P!Read(s) PROVE ProbeInv'
<1>0. LineLimit \in Nat
  BY PartsAssumption DEF P!ProbeAssumption
<1>1. UNCHANGED <<child, descendant, written, safe, late, probe>> /\ reader[s] = "reading"
  BY DEF P!Read
<1>2. UNCHANGED P!Open
  BY <1>1 DEF P!Open
<1>3. CASE taken' = [taken EXCEPT ![s] = @ + 1] /\ UNCHANGED reader
  <2>1. taken' \in [P!Stream -> Nat] /\ \A q \in P!Stream \ {s} : taken'[q] = taken[q]
    BY <1>3 DEF ProbeInv
  <2> QED BY <1>1, <1>2, <1>3, <2>1 DEF ProbeInv, P!VersionIsWhole
<1>4. CASE /\ taken[s] = P!ReadLimit \/ (taken[s] = written[s] /\ ~P!Open)
           /\ reader' = [reader EXCEPT ![s] = "done"] /\ UNCHANGED taken
  <2>1. reader' \in [P!Stream -> {"reading", "done"}] /\ \A q \in P!Stream : reader[q] = "done" => reader'[q] = "done"
    BY <1>4 DEF ProbeInv
  <2> QED BY <1>1, <1>2, <1>4, <2>1 DEF ProbeInv, P!VersionIsWhole, P!ReadLimit
<1> QED BY <1>3, <1>4 DEF P!Read

\* The probe ends with a warning.
LEMMA ProbeWarns ==
    ASSUME ProbeInv, probe.pc # "done", P!Warn, child' # "running",
           UNCHANGED <<descendant, written, taken, reader, safe, late>>
    PROVE  ProbeInv'
<1>1. probe' \in Probes /\ probe'.pc = "done" /\ probe'.result = "warning"
  BY DEF P!Warn, ProbeInv, Probes
<1>2. P!Open' => P!Open \/ child' = "running"
  BY DEF P!Open
<1> QED BY <1>1, <1>2 DEF ProbeInv, P!VersionIsWhole

LEMMA ProbePolls == ASSUME ProbeInv, P!Poll PROVE ProbeInv'
<1>1. probe.pc = "poll" /\ UNCHANGED <<descendant, written, taken, reader, safe, late>>
  BY DEF P!Poll
<1>2. CASE child = "ok" /\ probe' = [probe EXCEPT !.pc = "stdout"] /\ UNCHANGED child
  <2>1. probe' \in Probes /\ probe'.pc = "stdout" /\ probe'.result = probe.result
    BY <1>2 DEF ProbeInv, Probes
  <2> QED BY <1>1, <1>2, <2>1 DEF ProbeInv, P!VersionIsWhole, P!Open
<1>3. CASE P!Warn /\ child' # "running"
  BY <1>1, <1>3, ProbeWarns
<1> QED BY <1>2, <1>3 DEF P!Poll

LEMMA ProbeReceives == ASSUME ProbeInv, NEW s \in P!Stream, P!Receive(s) PROVE ProbeInv'
<1>0. LineLimit \in Nat
  BY PartsAssumption DEF P!ProbeAssumption
<1>1. probe.pc = s /\ probe.pc # "done" /\ child = "ok" /\ UNCHANGED <<child, descendant, written, taken, reader, safe, late>>
  BY DEF P!Receive, P!Stream, ProbeInv
<1>2. CASE P!Warn
  BY <1>1, <1>2, ProbeWarns
<1>3. CASE reader[s] = "done" /\ s = "stdout" /\ probe' = [probe EXCEPT !.pc = "stderr"]
  <2>1. probe' \in Probes /\ probe'.pc = "stderr" /\ probe'.result = probe.result
    BY <1>3 DEF ProbeInv, Probes
  <2> QED BY <1>1, <1>3, <2>1 DEF ProbeInv, P!VersionIsWhole, P!Open
<1>4. ASSUME NEW line \in P!FirstLines, P!Safe(line), reader[s] = "done", s = "stderr",
             probe' = [pc |-> "done", result |-> "found", shown |-> taken[line]]
      PROVE  ProbeInv'
  <2>1. line \in P!Stream /\ reader[line] = "done"
    BY <1>1, <1>4 DEF P!FirstLines, P!Stream, ProbeInv
  <2>2. taken[line] \in 1 .. LineLimit /\ safe[line]
    BY <1>4 DEF P!Safe
  <2>3. taken[line] = written[line] /\ ~P!Open
    BY <1>0, <2>1, <2>2 DEF ProbeInv
  <2>4. probe' \in Probes /\ probe'.pc = "done" /\ probe'.result = "found" /\ probe'.shown = taken[line]
    BY <1>4, <2>1 DEF ProbeInv, Probes
  <2>5. P!VersionIsWhole'
    BY <1>1, <2>1, <2>2, <2>3, <2>4 DEF P!VersionIsWhole
  <2> QED BY <1>1, <2>3, <2>4, <2>5 DEF ProbeInv, P!Open
<1> QED BY <1>2, <1>3, <1>4 DEF P!Receive

LEMMA ProbeStep == ASSUME ProbeInv, P!Next PROVE ProbeInv'
BY ProbeClient, ProbeReads, ProbePolls, ProbeReceives DEF P!Next, P!ProbeStep
LEMMA ProbeRests == ASSUME ProbeInv, UNCHANGED varsP PROVE ProbeInv'
BY DEF ProbeInv, P!VersionIsWhole, P!Open, varsP
-----------------------------------------------------------------------------
(* The platforms together *)

ManagedInv == IInv /\ AgentInv /\ WinBasics /\ WinWorkers

LEMMA AgentRests == ASSUME AgentInv, UNCHANGED varsA PROVE AgentInv'
BY DEF AgentInv, AgentTypes, varsA
LEMMA FreshRests == ASSUME AgentFresh, UNCHANGED varsA PROVE AgentFresh'
BY DEF AgentFresh, AgentTypes, varsA, A!Owned
LEMMA WinRests == ASSUME WinBasics, WinWorkers, UNCHANGED varsW PROVE WinBasics' /\ WinWorkers'
<1>1. WinBasics'
  BY DEF WinBasics, WinTypes, WinHolds, WinKinds, varsW
<1>2. (\A c \in Cli : Clear(c)' /\ Recording(c)') /\ Accounted'
  BY DEF WinWorkers, Clear, Recording, Accounted, Serves, W!Verified, W!Runs, varsW
<1> QED BY <1>1, <1>2 DEF WinWorkers

LEMMA StopsRest ==
    ASSUME WinNames, WinFollowing, UNCHANGED varsW
    PROVE  WinNames' /\ WinFollowing'
<1>1. RecordsName' /\ FilesName' /\ JobsName'
  <2>1. RecordsName'
    BY DEF WinNames, RecordsName, Identifies, varsW
  <2>2. FilesName'
    BY DEF WinNames, FilesName, Identifies, varsW
  <2>3. JobsName'
    BY DEF WinNames, JobsName, JobName, Identifies, varsW
  <2> QED BY <2>1, <2>2, <2>3
<1>2. LegacyIsDefault' /\ LogsLive' /\ LogsDiffer'
  BY DEF WinNames, LegacyIsDefault, LogsLive, LogsDiffer, LogsRun, varsW
<1>3. FollowersBelong' /\ Filed' /\ \A c \in Cli : Listed(c)'
  BY DEF WinFollowing, FollowersBelong, Follows, Filed, Listed, varsW
<1> QED BY <1>1, <1>2, <1>3 DEF WinNames, WinFollowing

LEMMA ManagedInit == MCInit => ManagedInv
<1>1. MCInit => Init /\ W!Init /\ A!Init
  BY DEF MCInit, RestB, RestW, RestA
<1> QED BY <1>1, InitIInv, AgentInit, WinInit DEF ManagedInv

LEMMA ManagedNext ==
    ASSUME ManagedInv, [MCNext]_<<part, vars, varsW, varsA, varsS, varsU, varsP>>, ~LaunchctlFails
    PROVE  ManagedInv'
<1>1. [Next]_vars /\ (A!Next \/ UNCHANGED varsA) /\ (W!Next \/ UNCHANGED varsW)
  BY DEF MCNext
<1>2. IInv'
  BY <1>1, NextIInv DEF ManagedInv
<1>3. AgentInv'
  BY <1>1, AgentStep, AgentRests DEF ManagedInv
<1>4. WinBasics' /\ WinWorkers'
  BY <1>1, BasicsNext, WorkersNext, WinRests DEF ManagedInv
<1> QED BY <1>2, <1>3, <1>4 DEF ManagedInv

\* Whatever commands run beside each other, are killed or fail, and whatever gets
\* the pids of processes that ended: between commands a worker or an agent that
\* runs is the one on record, as long as launchctl does what it is told.
THEOREM RecordsStayTrue == ASSUME ~LaunchctlFails PROVE MCSpec => []RunsWhatIsOnRecord
<1>1. ManagedInv => RunsWhatIsOnRecord
  BY IInvKnows, AgentKnown, WinKnown DEF ManagedInv, RunsWhatIsOnRecord, WorkersAreKnown
<1> QED BY <1>1, ManagedInit, ManagedNext, PTL DEF MCSpec

\* Whatever is done to the agent in between: a start that is through leaves no
\* process of an older configuration, and an init finds its own address again.
THEOREM AgentStaysRefreshed == MCSpec => AgentIsRefreshed
<1>1. MCInit => AgentFresh
  BY FreshInit DEF MCInit, RestA
<1>2. AgentFresh /\ [MCNext]_<<part, vars, varsW, varsA, varsS, varsU, varsP>> => AgentFresh'
  BY FreshStep, FreshRests DEF MCNext
<1>3. AgentFresh /\ [MCNext]_<<part, vars, varsW, varsA, varsS, varsU, varsP>>
         => [part = "agent" => A!RunsTheConfiguration /\ A!FindsItsAddress]_varsA
  BY FreshRuns, FreshFinds DEF MCNext
<1> QED BY <1>1, <1>2, <1>3, PTL DEF MCSpec, AgentIsRefreshed

\* Whatever gets the pids of processes that ended, and whoever starts to follow the
\* log meanwhile: a stop ends what its environment recorded and registered, nothing
\* of another program or environment, and leaves no follower behind.
THEOREM StopsReachTheirOwn == MCSpec => WindowsStopsItsOwn
<1> DEFINE Inv == WinBasics /\ WinNames /\ WinFollowing
<1>1. MCInit => Inv
  BY WinInit, NamesInit, FollowingInit DEF MCInit, RestW
<1>2. Inv /\ [MCNext]_<<part, vars, varsW, varsA, varsS, varsU, varsP>> => Inv'
  <2>1. Inv /\ W!Next => Inv'
    BY BasicsNext, NamesNext, FollowingNext
  <2>2. Inv /\ UNCHANGED varsW => Inv'
    <3>1. WinBasics /\ UNCHANGED varsW => WinBasics'
      BY DEF WinBasics, WinTypes, WinHolds, WinKinds, varsW
    <3> QED BY <3>1, StopsRest
  <2>3. [MCNext]_<<part, vars, varsW, varsA, varsS, varsU, varsP>> => W!Next \/ UNCHANGED varsW
    BY DEF MCNext
  <2> QED BY <2>1, <2>2, <2>3
<1>3. Inv /\ [MCNext]_<<part, vars, varsW, varsA, varsS, varsU, varsP>>
         => [part = "windows" => W!EndsOnlyItsOwn /\ W!LeavesNoFollower]_varsW
  BY WinEndsItsOwn, WinLeavesNone DEF MCNext
<1> QED BY <1>1, <1>2, <1>3, PTL DEF MCSpec, WindowsStopsItsOwn

\* Whichever manager runs the proxy, and whatever crashes or comes back meanwhile: a
\* start that succeeds leaves no proxy with an older configuration, and a stop that
\* finds nothing to stop leaves nothing that listens; but for a unit at an address
\* that config.json no longer names, of which a shell without the bus knows nothing.
THEOREM ManagersAgree == MCSpec => EitherManagerAgrees
<1>1. MCInit => SwitchInv
  BY SwitchInit DEF MCInit, RestS
<1>2. SwitchInv /\ [MCNext]_<<part, vars, varsW, varsA, varsS, varsU, varsP>> => SwitchInv'
  BY SwitchStep, SwitchRests DEF MCNext
<1>3. SwitchInv /\ [MCNext]_<<part, vars, varsW, varsA, varsS, varsU, varsP>>
         => [part = "systemd" => S!RunsTheConfiguration /\ S!SaysSoTruly]_varsS
  BY SwitchStep DEF MCNext
<1> QED BY <1>1, <1>2, <1>3, PTL DEF MCSpec, EitherManagerAgrees

\* Whatever is killed, fails or is changed on disk, and whatever users do to the
\* service: what an update says of the programs and of the service it restarted is
\* so, where the system finds the program of a process by its path; a service that it
\* stopped runs again or the next command warns; and a version that is shown is what
\* the client wrote.
THEOREM ReportsStayTrue == ASSUME "systemd" \notin Platforms PROVE MCSpec => ReportsAreTrue
<1> DEFINE vs == <<part, vars, varsW, varsA, varsS, varsU, varsP>>
<1>1. MCInit => UpdateInv /\ ProbeInv
  BY UpdateInit, ProbeInit DEF MCInit, RestU, RestP
<1>2. UpdateInv /\ ProbeInv /\ [MCNext]_vs => UpdateInv' /\ ProbeInv'
  BY UpdateStep, UpdateRests, ProbeStep, ProbeRests DEF MCNext
<1>3. UpdateInv /\ [MCNext]_vs => [part = "update" => U!TellsTheTruth /\ U!ComesBack]_varsU
  BY UpdateStep DEF MCNext
<1>4. UpdateInv => U!InstalledIsNamed
  BY UpdateNamed
<1>5. ProbeInv => P!VersionIsWhole
  BY DEF ProbeInv
<1> QED BY <1>1, <1>2, <1>3, <1>4, <1>5, PTL DEF MCSpec, ReportsAreTrue
=============================================================================

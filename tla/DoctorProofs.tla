---------------------------- MODULE DoctorProofs ----------------------------
(***************************************************************************)
(* Proofs about ClientConfiguration and Doctor, for every set of ports and *)
(* every bound: edits of Claude's settings survive, an init that nothing   *)
(* disturbs ends healthy, and a doctor that says nothing is right.         *)
(***************************************************************************)
EXTENDS Doctor, TLAPS

(***************************************************************************)
(* The inductive invariant.                                                *)
(***************************************************************************)
Pc == {"idle", "ca", "key", "config", "load", "files", "start", "await", "done", "failed"}
Job == [pc : Pc, rebuild : BOOLEAN, ca : Place, listen : Port \cup {0}, caChanged : BOOLEAN,
        changed : BOOLEAN, edit : Nat, since : Nat]
Workers == [pc : {"none", "migrate", "replace", "bind", "serving"}, listen : Port \cup {0}, ca : Nat, read : Nat]
Settings == [proxy : Port \cup {0}, ca : Place, legacy : BOOLEAN, edit : Nat]
Dotenv == [proxy : Port \cup {0}, ca : Place]
Counts == [inits : Nat, starts : Nat, mishaps : Nat, edits : Nat, pairs : Nat]

Types == /\ config \in Config \cup {NoConfig}
         /\ cert \in [Place -> Nat] /\ key \in [Place -> Nat]
         /\ worker \in Workers /\ settings \in Settings /\ dotenv \in Dotenv
         /\ foreign \subseteq Port /\ lock \in Client \cup {"worker", "nobody"}
         /\ job \in [Client -> Job] /\ count \in Counts
         /\ interrupted \in BOOLEAN

\* One init at a time, or the worker that rewrites Claude's settings.
Busy(c) == job[c].pc \notin {"idle", "done", "failed"}
Locks == /\ \A c \in Client : lock = c <=> Busy(c)
         /\ lock = "worker" <=> worker.pc = "replace"

\* No other program has the port of a worker that listens.
PortIsItsOwn == worker.pc = "serving" => worker.listen \notin foreign

\* The last edit is in the file, in a backup, in memory, or was overtaken.
EditsKept == /\ SettingsSurvive
             /\ At("claude", "files") => count.edits \in {job["claude"].edit} \cup saved \cup overtaken

\* A worker signs with the CA of the configuration, or that is lost, unless an
\* init that is under way, or failed, has changed what it read.
Stands(c) == At(c, "await") \/ ~Busy(c) \/ ~(job[c].changed \/ job[c].caChanged)
WorkerIsCurrent ==
    Active /\ ~interrupted /\ config # NoConfig /\ (\A c \in Client : Stands(c))
    => cert[config.ca] \in {0, worker.ca}

\* An init has changed no configuration before it writes one.
Unwritten == \A c \in Client : job[c].pc \in {"ca", "key", "config"} => ~job[c].changed

\* How far an init has come that nothing has disturbed.
Undisturbed(c) == job[c].since = count.mishaps
FileOf(c) == IF c = "claude" THEN settings ELSE dotenv
Chosen(c) ==
    /\ c = "codex" => IF job[c].rebuild THEN job[c].ca = "saiai" ELSE At(c, "config") /\ RuntimeCA
    /\ c = "claude" => ~job[c].rebuild /\ (RuntimeCA => config.ca = job[c].ca)
    /\ cert[job[c].ca] # 0
    /\ At(c, "config") => ValidCA(job[c].ca)
Configured(c) ==
    /\ RuntimeCA /\ config.listen = job[c].listen /\ config.ca = job[c].ca
    /\ c \in config.keys /\ config.listen \notin foreign
Filed(c) == FileOf(c).proxy = job[c].listen /\ FileOf(c).ca = job[c].ca
Started(c) == worker.pc \in {"migrate", "bind", "serving"} /\ worker.listen = config.listen /\ worker.ca = cert[config.ca]
Progress(c) ==
    Undisturbed(c) =>
       /\ job[c].pc \in {"key", "config"} => Chosen(c)
       /\ job[c].pc \in {"load", "files", "start", "await"} => Configured(c)
       /\ job[c].pc \in {"start", "await"} => Filed(c)
       /\ At(c, "await") => Started(c)
Progresses == \A c \in Client : job[c].since <= count.mishaps /\ Progress(c)

IInv == Types /\ Locks /\ PortIsItsOwn /\ EditsKept /\ WorkerIsCurrent /\ Unwritten /\ Progresses

(***************************************************************************)
(* Types.                                                                  *)
(***************************************************************************)
LEMMA IdleIsAJob == ASSUME NEW pc \in Pc PROVE [Idle EXCEPT !.pc = pc] \in Job
BY ConfigurationAssumption DEF Idle, Job, Pc, Place

\* A job that goes somewhere else is a job.
LEMMA GoType ==
    ASSUME Types, NEW c \in Client, NEW pc \in Pc, Go(c, pc)
    PROVE  job' \in [Client -> Job]
BY DEF Types, Go, Job

LEMMA LeaveType ==
    ASSUME Types, NEW c \in Client, NEW pc \in {"done", "failed"}, Leave(c, pc)
    PROVE  job' \in [Client -> Job] /\ lock' = "nobody" /\ job'[c] = [Idle EXCEPT !.pc = pc]
           /\ \A q \in Client \ {c} : job'[q] = job[q]
BY IdleIsAJob DEF Types, Leave, Pc

LEMMA CountedType ==
    ASSUME Types, NEW what \in {"inits", "starts", "mishaps", "edits", "pairs"}, Counted(what)
    PROVE  count' \in Counts /\ count'[what] = count[what] + 1
           /\ \A other \in {"inits", "starts", "mishaps", "edits", "pairs"} \ {what} : count'[other] = count[other]
BY DEF Types, Counted, Counts

LEMMA ConfigFields ==
    ASSUME Types, config # NoConfig
    PROVE  config \in Config /\ config.listen \in Port /\ config.ca \in Place /\ config.keys \in SUBSET Client
BY DEF Types, Config

\* The worker that a start leaves behind.
LEMMA SpawnedType ==
    ASSUME Types
    PROVE  Spawned \in Workers
<1>1. CASE RuntimeCA
  <2>1. config.listen \in Port /\ cert[config.ca] \in Nat /\ settings.edit \in Nat
    BY <1>1, ConfigFields DEF RuntimeCA, Types, Settings
  <2> QED BY <1>1, <2>1 DEF Spawned, NoWorker, Workers
<1>2. CASE ~RuntimeCA
  BY <1>2 DEF Spawned, NoWorker, Workers
<1> QED BY <1>1, <1>2

\* Whichever configuration an init writes.
LEMMA WrittenType ==
    ASSUME Types, NEW c \in Client, NEW port \in Port,
           c = "claude" \/ job[c].rebuild \/ config # NoConfig
    PROVE  (IF job[c].rebuild THEN Rebuilt(port) ELSE Updated(c, port)) \in Config
<1>1. CASE job[c].rebuild
  BY <1>1 DEF Rebuilt, Config, Place, Client
<1>2. CASE ~job[c].rebuild
  <2> DEFINE kept   == IF config = NoConfig THEN {} ELSE config.keys
             legacy == IF c = "codex" /\ kept = {} /\ LegacyClaude THEN {"claude"} ELSE {}
             ca     == IF c = "codex" \/ RuntimeCA THEN config.ca ELSE job[c].ca
  <2>1. (kept \cup legacy \cup {c}) \in SUBSET Client
    BY ConfigFields DEF Client
  <2>2. ca \in Place
    BY <1>2, ConfigFields DEF RuntimeCA, Types, Job, Client
  <2>3. Updated(c, port) = [obsolete |-> FALSE, listen |-> port, ca |-> ca, keys |-> kept \cup legacy \cup {c}]
    BY DEF Updated
  <2> HIDE DEF kept, legacy, ca
  <2> QED BY <1>2, <2>1, <2>2, <2>3 DEF Config
<1> QED BY <1>1, <1>2

LEMMA TypesInit == Init => Types
<1> SUFFICES ASSUME Init PROVE Types
  OBVIOUS
<1> DEFINE port == CHOOSE p \in Port : TRUE
<1>1. port \in Port
  BY ConfigurationAssumption
<1> HIDE DEF port
<1>2. Idle \in Job
  BY ConfigurationAssumption DEF Idle, Job, Pc, Place
<1>3. /\ config \in Config \cup {NoConfig} /\ cert \in [Place -> Nat]
      /\ settings \in Settings
  <2>1. CASE config = NoConfig /\ cert = [p \in Place |-> 0]
             /\ settings = [proxy |-> 0, ca |-> "claude", legacy |-> FALSE, edit |-> 0]
    BY <2>1 DEF Settings, Place
  <2>2. CASE \E obsolete \in BOOLEAN :
                /\ config = [obsolete |-> obsolete, listen |-> port, ca |-> "claude", keys |-> {}]
                /\ cert = [p \in Place |-> IF p = "claude" THEN 1 ELSE 0]
                /\ settings = [proxy |-> port, ca |-> "claude", legacy |-> TRUE, edit |-> 0]
    BY <1>1, <2>2 DEF Config, Settings, Place
  <2> QED BY <2>1, <2>2 DEF Init, port
<1>4. worker \in Workers /\ dotenv \in Dotenv /\ count \in Counts
  BY DEF Init, NoWorker, Workers, Unset, Dotenv, Counts, Place
<1> QED BY <1>2, <1>3, <1>4 DEF Init, Types

LEMMA TypesStep == Types /\ Locks /\ [Next]_vars => Types'
<1> SUFFICES ASSUME Types, Locks, [Next]_vars PROVE Types'
  OBVIOUS
<1> USE DEF clientFiles
<1>1. ASSUME NEW c \in Client, Begin(c) PROVE Types'
  <2>1. [Idle EXCEPT !.pc = "ca", !.since = count.mishaps] \in Job
    BY ConfigurationAssumption DEF Idle, Job, Pc, Place, Types, Counts
  <2> QED BY <1>1, <2>1, CountedType DEF Begin, Types
<1>2. ASSUME NEW c \in Client, EnsureCA(c) PROVE Types'
  <2> DEFINE place  == ChosenPlace(c)
             chosen == [job[c] EXCEPT !.ca = place, !.rebuild = (c = "codex" /\ ~RuntimeCA)]
  <2>1. place \in Place
    BY ConfigFields DEF ChosenPlace, RuntimeCA, Place
  <2>2. chosen \in Job
    BY <2>1 DEF Types, Job
  <2>3. [chosen EXCEPT !.pc = "config"] \in Job /\ [chosen EXCEPT !.pc = "key", !.caChanged = TRUE] \in Job
    BY ZenonT(60), <2>2 DEF Job, Pc
  <2>4. job' \in [Client -> Job]
    BY <1>2, <2>3 DEF EnsureCA, Types
  <2>5. cert' \in [Place -> Nat] /\ count' \in Counts
    BY <1>2, <2>1, CountedType DEF EnsureCA, Types, Counts
  <2> QED BY <1>2, <2>4, <2>5 DEF EnsureCA, Types
<1>3. ASSUME NEW c \in Client, WriteKey(c) PROVE Types'
  BY <1>3, GoType DEF WriteKey, Types, Pc, Job
<1>4. ASSUME NEW c \in Client, WriteConfig(c) PROVE Types'
  <2>1. PICK port \in Port : WriteConfig(c)!2!(port)
    BY <1>4 DEF WriteConfig
  <2> DEFINE new == IF job[c].rebuild THEN Rebuilt(port) ELSE Updated(c, port)
  <2>2. new \in Config
    BY <1>4, WrittenType DEF WriteConfig
  <2>3. config' \in Config
    BY <2>1, <2>2
  <2>4. job' \in [Client -> Job]
    <3>1. new.ca \in Place /\ job[c].ca \in Place
      BY <2>2 DEF Config, Types, Job
    <3>2. port \in Port /\ (job[c].rebuild \/ Changed(config, new)) \in BOOLEAN
      BY DEF Types, Job, Changed
    <3> HIDE DEF new
    <3> DEFINE ca      == IF c = "codex" THEN new.ca ELSE job[c].ca
               changed == job[c].rebuild \/ Changed(config, new)
               loaded  == [job[c] EXCEPT !.pc = "load"]
               bound   == [loaded EXCEPT !.listen = port]
               placed  == [bound EXCEPT !.ca = ca]
    <3>3. loaded \in Job
      BY DEF Types, Job, Pc
    <3>4. bound \in Job
      BY <3>3 DEF Job
    <3>5. placed \in Job
      BY <3>1, <3>4 DEF Job
    <3>6. [placed EXCEPT !.changed = changed] \in Job
      BY <3>2, <3>5 DEF Job
    <3>7. job' = [job EXCEPT ![c] = [placed EXCEPT !.changed = changed]]
      BY <2>1, <3>1 DEF Types, Job, new
    <3> QED BY <3>6, <3>7 DEF Types
  <2> QED BY <1>4, <2>3, <2>4 DEF WriteConfig, Types
<1>5. ASSUME NEW c \in Client, Refuse(c) PROVE Types'
  BY <1>5, LeaveType DEF Refuse, Types
<1>6. ASSUME NEW c \in Client, LoadFiles(c) PROVE Types'
  <2> DEFINE filed == [job[c] EXCEPT !.pc = "files"]
  <2>1. filed \in Job
    BY DEF Types, Job, Pc
  <2>2. [filed EXCEPT !.edit = settings.edit] \in Job
    BY <2>1 DEF Types, Settings, Job
  <2>3. job' = [job EXCEPT ![c] = [filed EXCEPT !.edit = settings.edit]]
    BY <1>6 DEF LoadFiles, Types, Job
  <2>4. job' \in [Client -> Job]
    BY <2>2, <2>3 DEF Types
  <2> QED BY <1>6, <2>4 DEF LoadFiles, Types
<1>7. ASSUME NEW c \in Client, WriteFiles(c) PROVE Types'
  <2>1. job[c].listen \in Port \cup {0} /\ job[c].ca \in Place /\ job[c].edit \in Nat
    BY DEF Types, Job
  <2>2. job' \in [Client -> Job]
    BY <1>7, GoType DEF WriteFiles, Pc
  <2>3. [proxy |-> job[c].listen, ca |-> job[c].ca, legacy |-> FALSE, edit |-> job[c].edit] \in Settings
    BY <2>1 DEF Settings
  <2>4. [proxy |-> job[c].listen, ca |-> job[c].ca] \in Dotenv
    BY <2>1 DEF Dotenv
  <2>5. settings' \in Settings /\ dotenv' \in Dotenv
    BY <1>7, <2>3, <2>4 DEF WriteFiles, Types
  <2> QED BY <1>7, <2>2, <2>5 DEF WriteFiles, Types
<1>8. ASSUME NEW c \in Client, StartAfterInit(c) PROVE Types'
  <2>1. CASE MustRefresh(c)
    BY <1>8, <2>1, GoType, SpawnedType DEF StartAfterInit, Types, Pc
  <2>2. CASE ~MustRefresh(c)
    BY <1>8, <2>2, LeaveType DEF StartAfterInit, Types
  <2> QED BY <2>1, <2>2
<1>9. ASSUME NEW c \in Client, Await(c) PROVE Types'
  BY <1>9, LeaveType DEF Await, Types
<1>10. ASSUME NEW c \in Client, Fail(c) PROVE Types'
  <2>1. interrupted' \in BOOLEAN
    BY <1>10 DEF Fail, Types, Job
  <2> QED BY <1>10, <2>1, LeaveType, CountedType DEF Fail, Types
<1>11. ASSUME StartService PROVE Types'
  BY <1>11, CountedType, SpawnedType DEF StartService, Types
<1>12. ASSUME Migrate PROVE Types'
  <2>1. worker' \in Workers
    BY <1>12 DEF Migrate, Types, Workers, Settings
  <2> QED BY <1>12, <2>1 DEF Migrate, Types
<1>13. ASSUME Replace PROVE Types'
  <2>1. worker' \in Workers
    BY <1>13 DEF Replace, Types, Workers
  <2>2. settings' \in Settings
    BY <1>13 DEF Replace, Types, Workers, Settings
  <2> QED BY <1>13, <2>1, <2>2 DEF Replace, Types
<1>14. ASSUME Bind PROVE Types'
  BY <1>14 DEF Bind, Types, Workers, NoWorker
<1>15. ASSUME NEW place \in Place, LoseCA(place) PROVE Types'
  BY <1>15, CountedType DEF LoseCA, Mishap, Types
<1>16. ASSUME NEW port \in Port, Claim(port) PROVE Types'
  BY <1>16, CountedType DEF Claim, Mishap, Types
<1>17. ASSUME LoseConfig PROVE Types'
  BY <1>17, CountedType DEF LoseConfig, Mishap, Types
<1>18. ASSUME WorkerDies PROVE Types'
  BY <1>18, CountedType DEF WorkerDies, Mishap, Types, NoWorker, Workers
<1>19. ASSUME EditSettings PROVE Types'
  <2>1. settings' \in Settings
    BY <1>19 DEF EditSettings, Types, Settings, Counts
  <2> QED BY <1>19, <2>1, CountedType DEF EditSettings, Types
<1>20. CASE UNCHANGED vars
  BY <1>20 DEF vars, Types
<1> QED BY <1>1, <1>2, <1>3, <1>4, <1>5, <1>6, <1>7, <1>8, <1>9, <1>10, <1>11, <1>12, <1>13, <1>14,
           <1>15, <1>16, <1>17, <1>18, <1>19, <1>20 DEF Next, InitStep, WorkerStep

(***************************************************************************)
(* The jobs.                                                               *)
(***************************************************************************)
\* Where an init is after a step of its own.
LEMMA Went ==
    ASSUME Types, NEW c \in Client, NEW pc \in Pc, Go(c, pc)
    PROVE  /\ job'[c].pc = pc /\ job'[c].rebuild = job[c].rebuild /\ job'[c].ca = job[c].ca
           /\ job'[c].listen = job[c].listen /\ job'[c].changed = job[c].changed
           /\ job'[c].caChanged = job[c].caChanged /\ job'[c].edit = job[c].edit /\ job'[c].since = job[c].since
           /\ \A q \in Client \ {c} : job'[q] = job[q]
BY DEF Types, Go, Job

\* What an init remembers of its first steps.
LEMMA Chose ==
    ASSUME Types, NEW c \in Client, EnsureCA(c)
    PROVE  /\ job'[c].rebuild = (c = "codex" /\ ~RuntimeCA) /\ job'[c].ca = ChosenPlace(c)
           /\ job'[c].changed = job[c].changed /\ job'[c].since = job[c].since
           /\ job'[c].pc = IF ValidCA(ChosenPlace(c)) THEN "config" ELSE "key"
           /\ job'[c].caChanged = (job[c].caChanged \/ ~ValidCA(ChosenPlace(c)))
           /\ \A q \in Client \ {c} : job'[q] = job[q]
<1> DEFINE chosen == [job[c] EXCEPT !.ca = ChosenPlace(c), !.rebuild = (c = "codex" /\ ~RuntimeCA)]
<1>1. job[c] \in Job
  BY DEF Types
<1>2. /\ chosen.rebuild = (c = "codex" /\ ~RuntimeCA) /\ chosen.ca = ChosenPlace(c)
      /\ chosen.changed = job[c].changed /\ chosen.since = job[c].since /\ chosen.caChanged = job[c].caChanged
      /\ DOMAIN chosen = DOMAIN job[c]
  BY <1>1 DEF Job
<1>3. job' = [job EXCEPT ![c] = IF ValidCA(ChosenPlace(c)) THEN [chosen EXCEPT !.pc = "config"]
                                ELSE [chosen EXCEPT !.pc = "key", !.caChanged = TRUE]]
  BY DEF EnsureCA
<1> HIDE DEF chosen
<1>4. CASE ValidCA(ChosenPlace(c))
  <2>1. job'[c] = [chosen EXCEPT !.pc = "config"] /\ \A q \in Client \ {c} : job'[q] = job[q]
    BY <1>3, <1>4 DEF Types
  <2> QED BY <1>1, <1>2, <1>4, <2>1 DEF Job
<1>5. CASE ~ValidCA(ChosenPlace(c))
  <2>1. job'[c] = [chosen EXCEPT !.pc = "key", !.caChanged = TRUE] /\ \A q \in Client \ {c} : job'[q] = job[q]
    BY <1>3, <1>5 DEF Types
  <2> QED BY <1>1, <1>2, <1>5, <2>1 DEF Job
<1> QED BY <1>4, <1>5

\* What an init remembers of the configuration it has written.
New(c, port) == IF job[c].rebuild THEN Rebuilt(port) ELSE Updated(c, port)
LEMMA Wrote ==
    ASSUME Types, NEW c \in Client, WriteConfig(c)
    PROVE  \E port \in Port :
             /\ Selectable(port, IF job[c].rebuild \/ config = NoConfig THEN 0 ELSE config.listen)
             /\ config' = New(c, port) /\ New(c, port) \in Config
             /\ job'[c].pc = "load" /\ job'[c].listen = port /\ job'[c].since = job[c].since
             /\ job'[c].ca = (IF c = "codex" THEN New(c, port).ca ELSE job[c].ca)
             /\ job'[c].changed = (job[c].rebuild \/ Changed(config, New(c, port)))
             /\ job'[c].caChanged = job[c].caChanged
             /\ \A q \in Client \ {c} : job'[q] = job[q]
<1>1. PICK port \in Port :
        /\ Selectable(port, IF job[c].rebuild \/ config = NoConfig THEN 0 ELSE config.listen)
        /\ config' = New(c, port)
        /\ job' = [job EXCEPT ![c].pc = "load", ![c].listen = port, ![c].ca = IF c = "codex" THEN New(c, port).ca ELSE @,
                              ![c].changed = job[c].rebuild \/ Changed(config, New(c, port))]
  BY DEF WriteConfig, New
<1>2. New(c, port) \in Config
  BY WrittenType DEF WriteConfig, New
<1> QED BY <1>1, <1>2 DEF Types, Job

\* What an init remembers of the settings it has read.
LEMMA Loaded ==
    ASSUME Types, NEW c \in Client, LoadFiles(c)
    PROVE  /\ job'[c].pc = "files" /\ job'[c].edit = settings.edit /\ job'[c].ca = job[c].ca
           /\ job'[c].listen = job[c].listen /\ job'[c].changed = job[c].changed
           /\ job'[c].caChanged = job[c].caChanged /\ job'[c].since = job[c].since
           /\ \A q \in Client \ {c} : job'[q] = job[q]
BY DEF LoadFiles, Types, Job

LEMMA Began ==
    ASSUME Types, NEW c \in Client, Begin(c)
    PROVE  /\ job'[c].pc = "ca" /\ job'[c].since = count.mishaps /\ job'[c].changed = FALSE /\ job'[c].caChanged = FALSE
           /\ \A q \in Client \ {c} : job'[q] = job[q]
BY DEF Begin, Types, Idle

\* An init that has ended remembers nothing.
LEMMA Left ==
    ASSUME Types, NEW c \in Client, NEW pc \in {"done", "failed"}, Leave(c, pc)
    PROVE  /\ job'[c].pc = pc /\ job'[c].since = 0 /\ job'[c].changed = FALSE /\ job'[c].caChanged = FALSE
           /\ lock' = "nobody" /\ \A q \in Client \ {c} : job'[q] = job[q]
BY DEF Leave, Types, Idle

(***************************************************************************)
(* The locks, the port, the user's edits.                                  *)
(***************************************************************************)
LEMMA LocksStep == Types /\ Locks /\ [Next]_vars => Locks'
<1> SUFFICES ASSUME Types, Locks, [Next]_vars PROVE Locks'
  OBVIOUS
<1> USE DEF clientFiles
<1>1. ASSUME NEW c \in Client, Begin(c) PROVE Locks'
  BY <1>1, Began DEF Begin, Locks, Busy, At, Types, Client
<1>2. ASSUME NEW c \in Client, EnsureCA(c) PROVE Locks'
  BY <1>2, Chose DEF EnsureCA, Locks, Busy, At, Types, Client
<1>3. ASSUME NEW c \in Client, WriteKey(c) PROVE Locks'
  BY <1>3, Went DEF WriteKey, Locks, Busy, At, Pc, Types, Client
<1>4. ASSUME NEW c \in Client, WriteConfig(c) PROVE Locks'
  BY <1>4, Wrote DEF WriteConfig, Locks, Busy, At, Types, Client
<1>5. ASSUME NEW c \in Client, Refuse(c) PROVE Locks'
  BY <1>5, Left DEF Refuse, Locks, Busy, At, Types, Client
<1>6. ASSUME NEW c \in Client, LoadFiles(c) PROVE Locks'
  BY <1>6, Loaded DEF LoadFiles, Locks, Busy, At, Types, Client
<1>7. ASSUME NEW c \in Client, WriteFiles(c) PROVE Locks'
  BY <1>7, Went DEF WriteFiles, Locks, Busy, At, Pc, Types, Client
<1>8. ASSUME NEW c \in Client, StartAfterInit(c) PROVE Locks'
  <2>1. CASE MustRefresh(c)
    BY <1>8, <2>1, Went DEF StartAfterInit, Locks, Busy, At, Pc, Types, Client, Spawned, NoWorker
  <2>2. CASE ~MustRefresh(c)
    BY <1>8, <2>2, Left DEF StartAfterInit, Locks, Busy, At, Types, Client
  <2> QED BY <2>1, <2>2
<1>9. ASSUME NEW c \in Client, Await(c) PROVE Locks'
  BY <1>9, Left DEF Await, Locks, Busy, At, Types, Client
<1>10. ASSUME NEW c \in Client, Fail(c) PROVE Locks'
  BY <1>10, Left DEF Fail, Locks, Busy, At, Types, Client
<1>11. ASSUME StartService PROVE Locks'
  BY <1>11 DEF StartService, Locks, Busy, Types, Client, Workers, Spawned, NoWorker
<1>12. ASSUME Migrate PROVE Locks'
  BY <1>12 DEF Migrate, Locks, Busy, Types, Client, Workers, Spawned, NoWorker
<1>13. ASSUME Replace PROVE Locks'
  BY <1>13 DEF Replace, Locks, Busy, Types, Client, Workers, Spawned, NoWorker
<1>14. ASSUME Bind PROVE Locks'
  BY <1>14 DEF Bind, Locks, Busy, Types, Client, Workers, Spawned, NoWorker
<1>15. ASSUME NEW place \in Place, LoseCA(place) PROVE Locks'
  BY <1>15 DEF LoseCA, Locks, Busy, Types, Client
<1>16. ASSUME NEW port \in Port, Claim(port) PROVE Locks'
  BY <1>16 DEF Claim, Locks, Busy, Types, Client
<1>17. ASSUME LoseConfig PROVE Locks'
  BY <1>17 DEF LoseConfig, Locks, Busy, Types, Client
<1>18. ASSUME WorkerDies PROVE Locks'
  BY <1>18 DEF WorkerDies, Locks, Busy, Types, Client, Workers, Spawned, NoWorker
<1>19. ASSUME EditSettings PROVE Locks'
  BY <1>19 DEF EditSettings, Locks, Busy, Types, Client
<1>20. CASE UNCHANGED vars
  BY <1>20 DEF vars, Locks, Busy, Types, Client
<1> QED BY <1>1, <1>2, <1>3, <1>4, <1>5, <1>6, <1>7, <1>8, <1>9, <1>10, <1>11, <1>12, <1>13, <1>14,
           <1>15, <1>16, <1>17, <1>18, <1>19, <1>20 DEF Next, InitStep, WorkerStep

LEMMA PortStep == Types /\ PortIsItsOwn /\ [Next]_vars => PortIsItsOwn'
<1> SUFFICES ASSUME Types, PortIsItsOwn, [Next]_vars PROVE PortIsItsOwn'
  OBVIOUS
<1> USE DEF clientFiles
<1>1. ASSUME NEW c \in Client, Begin(c) PROVE PortIsItsOwn'
  BY <1>1 DEF Begin, PortIsItsOwn
<1>2. ASSUME NEW c \in Client, EnsureCA(c) PROVE PortIsItsOwn'
  BY <1>2 DEF EnsureCA, PortIsItsOwn
<1>3. ASSUME NEW c \in Client, WriteKey(c) PROVE PortIsItsOwn'
  BY <1>3 DEF WriteKey, PortIsItsOwn
<1>4. ASSUME NEW c \in Client, WriteConfig(c) PROVE PortIsItsOwn'
  BY <1>4 DEF WriteConfig, PortIsItsOwn
<1>5. ASSUME NEW c \in Client, Refuse(c) PROVE PortIsItsOwn'
  BY <1>5 DEF Refuse, PortIsItsOwn
<1>6. ASSUME NEW c \in Client, LoadFiles(c) PROVE PortIsItsOwn'
  BY <1>6 DEF LoadFiles, PortIsItsOwn
<1>7. ASSUME NEW c \in Client, WriteFiles(c) PROVE PortIsItsOwn'
  BY <1>7 DEF WriteFiles, PortIsItsOwn
<1>8. ASSUME NEW c \in Client, StartAfterInit(c) PROVE PortIsItsOwn'
  BY <1>8 DEF StartAfterInit, PortIsItsOwn, Spawned, NoWorker
<1>9. ASSUME NEW c \in Client, Await(c) PROVE PortIsItsOwn'
  BY <1>9 DEF Await, PortIsItsOwn
<1>10. ASSUME NEW c \in Client, Fail(c) PROVE PortIsItsOwn'
  BY <1>10 DEF Fail, PortIsItsOwn
<1>11. ASSUME StartService PROVE PortIsItsOwn'
  BY <1>11 DEF StartService, PortIsItsOwn, Types, Workers, Spawned, NoWorker
<1>12. ASSUME Migrate PROVE PortIsItsOwn'
  BY <1>12 DEF Migrate, PortIsItsOwn, Types, Workers, Spawned, NoWorker
<1>13. ASSUME Replace PROVE PortIsItsOwn'
  BY <1>13 DEF Replace, PortIsItsOwn, Types, Workers, Spawned, NoWorker
<1>14. ASSUME Bind PROVE PortIsItsOwn'
  BY <1>14 DEF Bind, PortIsItsOwn, Types, Workers, Spawned, NoWorker
<1>15. ASSUME NEW place \in Place, LoseCA(place) PROVE PortIsItsOwn'
  BY <1>15 DEF LoseCA, PortIsItsOwn
<1>16. ASSUME NEW port \in Port, Claim(port) PROVE PortIsItsOwn'
  BY <1>16 DEF Claim, PortIsItsOwn, Bindable, Listening
<1>17. ASSUME LoseConfig PROVE PortIsItsOwn'
  BY <1>17 DEF LoseConfig, PortIsItsOwn
<1>18. ASSUME WorkerDies PROVE PortIsItsOwn'
  BY <1>18 DEF WorkerDies, PortIsItsOwn, Types, Workers, Spawned, NoWorker
<1>19. ASSUME EditSettings PROVE PortIsItsOwn'
  BY <1>19 DEF EditSettings, PortIsItsOwn
<1>20. CASE UNCHANGED vars
  BY <1>20 DEF vars, PortIsItsOwn
<1> QED BY <1>1, <1>2, <1>3, <1>4, <1>5, <1>6, <1>7, <1>8, <1>9, <1>10, <1>11, <1>12, <1>13, <1>14,
           <1>15, <1>16, <1>17, <1>18, <1>19, <1>20 DEF Next, InitStep, WorkerStep

LEMMA EditsStep == Types /\ EditsKept /\ [Next]_vars => EditsKept'
<1> SUFFICES ASSUME Types, EditsKept, [Next]_vars PROVE EditsKept'
  OBVIOUS
<1> USE DEF clientFiles
<1>1. ASSUME NEW c \in Client, Begin(c) PROVE EditsKept'
  BY <1>1, Began, CountedType DEF Begin, EditsKept, SettingsSurvive, At, Client
<1>2. ASSUME NEW c \in Client, EnsureCA(c) PROVE EditsKept'
  BY <1>2, Chose, CountedType DEF EnsureCA, EditsKept, SettingsSurvive, At, Client
<1>3. ASSUME NEW c \in Client, WriteKey(c) PROVE EditsKept'
  BY <1>3, Went DEF WriteKey, EditsKept, SettingsSurvive, At, Pc, Types, Client
<1>4. ASSUME NEW c \in Client, WriteConfig(c) PROVE EditsKept'
  BY <1>4, Wrote DEF WriteConfig, EditsKept, SettingsSurvive, At, Client
<1>5. ASSUME NEW c \in Client, Refuse(c) PROVE EditsKept'
  BY <1>5, Left, CountedType DEF Refuse, EditsKept, SettingsSurvive, At, Client
<1>6. ASSUME NEW c \in Client, LoadFiles(c) PROVE EditsKept'
  BY <1>6, Loaded DEF LoadFiles, EditsKept, SettingsSurvive, At, Client
<1>7. ASSUME NEW c \in Client, WriteFiles(c) PROVE EditsKept'
  BY <1>7, Went DEF WriteFiles, EditsKept, SettingsSurvive, At, Pc, Types, Client
<1>8. ASSUME NEW c \in Client, StartAfterInit(c) PROVE EditsKept'
  <2>1. CASE MustRefresh(c)
    BY <1>8, <2>1, Went DEF StartAfterInit, EditsKept, SettingsSurvive, At, Pc, Client
  <2>2. CASE ~MustRefresh(c)
    BY <1>8, <2>2, Left DEF StartAfterInit, EditsKept, SettingsSurvive, At, Client
  <2> QED BY <2>1, <2>2
<1>9. ASSUME NEW c \in Client, Await(c) PROVE EditsKept'
  BY <1>9, Left, CountedType DEF Await, EditsKept, SettingsSurvive, At, Client
<1>10. ASSUME NEW c \in Client, Fail(c) PROVE EditsKept'
  BY <1>10, Left, CountedType DEF Fail, EditsKept, SettingsSurvive, At, Client
<1>11. ASSUME StartService PROVE EditsKept'
  BY <1>11, CountedType DEF StartService, EditsKept, SettingsSurvive, At
<1>12. ASSUME Migrate PROVE EditsKept'
  BY <1>12 DEF Migrate, EditsKept, SettingsSurvive, At
<1>13. ASSUME Replace PROVE EditsKept'
  BY <1>13 DEF Replace, EditsKept, SettingsSurvive, At, Same, Types, Settings
<1>14. ASSUME Bind PROVE EditsKept'
  BY <1>14 DEF Bind, EditsKept, SettingsSurvive, At
<1>15. ASSUME NEW place \in Place, LoseCA(place) PROVE EditsKept'
  BY <1>15, CountedType DEF LoseCA, Mishap, EditsKept, SettingsSurvive, At
<1>16. ASSUME NEW port \in Port, Claim(port) PROVE EditsKept'
  BY <1>16, CountedType DEF Claim, Mishap, EditsKept, SettingsSurvive, At
<1>17. ASSUME LoseConfig PROVE EditsKept'
  BY <1>17, CountedType DEF LoseConfig, Mishap, EditsKept, SettingsSurvive, At
<1>18. ASSUME WorkerDies PROVE EditsKept'
  BY <1>18, CountedType DEF WorkerDies, Mishap, EditsKept, SettingsSurvive, At
<1>19. ASSUME EditSettings PROVE EditsKept'
  BY <1>19, CountedType DEF EditSettings, EditsKept, SettingsSurvive, At, Types, Settings
<1>20. CASE UNCHANGED vars
  BY <1>20 DEF vars, EditsKept, SettingsSurvive, At
<1> QED BY <1>1, <1>2, <1>3, <1>4, <1>5, <1>6, <1>7, <1>8, <1>9, <1>10, <1>11, <1>12, <1>13, <1>14,
           <1>15, <1>16, <1>17, <1>18, <1>19, <1>20 DEF Next, InitStep, WorkerStep

(***************************************************************************)
(* The worker and the configuration.                                       *)
(***************************************************************************)
LEMMA UnwrittenStep == Types /\ Unwritten /\ [Next]_vars => Unwritten'
<1> SUFFICES ASSUME Types, Unwritten, [Next]_vars PROVE Unwritten'
  OBVIOUS
<1> USE DEF clientFiles
<1>1. ASSUME NEW c \in Client, Begin(c) PROVE Unwritten'
  BY <1>1, Began DEF Begin, Unwritten, At
<1>2. ASSUME NEW c \in Client, EnsureCA(c) PROVE Unwritten'
  BY <1>2, Chose DEF EnsureCA, Unwritten, At
<1>3. ASSUME NEW c \in Client, WriteKey(c) PROVE Unwritten'
  BY <1>3, Went DEF WriteKey, Unwritten, At, Pc
<1>4. ASSUME NEW c \in Client, WriteConfig(c) PROVE Unwritten'
  BY <1>4, Wrote DEF WriteConfig, Unwritten, At
<1>5. ASSUME NEW c \in Client, Refuse(c) PROVE Unwritten'
  BY <1>5, Left DEF Refuse, Unwritten
<1>6. ASSUME NEW c \in Client, LoadFiles(c) PROVE Unwritten'
  BY ZenonT(60), <1>6, Loaded DEF LoadFiles, Unwritten, At
<1>7. ASSUME NEW c \in Client, WriteFiles(c) PROVE Unwritten'
  BY <1>7, Went DEF WriteFiles, Unwritten, At, Pc
<1>8. ASSUME NEW c \in Client, StartAfterInit(c) PROVE Unwritten'
  <2>1. CASE MustRefresh(c)
    BY <1>8, <2>1, Went DEF StartAfterInit, Unwritten, At, Pc
  <2>2. CASE ~MustRefresh(c)
    BY <1>8, <2>2, Left DEF StartAfterInit, Unwritten
  <2> QED BY <2>1, <2>2
<1>9. ASSUME NEW c \in Client, Await(c) PROVE Unwritten'
  BY <1>9, Left DEF Await, Unwritten
<1>10. ASSUME NEW c \in Client, Fail(c) PROVE Unwritten'
  BY <1>10, Left DEF Fail, Unwritten
<1>11. ASSUME StartService PROVE Unwritten'
  BY <1>11 DEF StartService, Unwritten
<1>12. ASSUME Migrate PROVE Unwritten'
  BY <1>12 DEF Migrate, Unwritten
<1>13. ASSUME Replace PROVE Unwritten'
  BY <1>13 DEF Replace, Unwritten
<1>14. ASSUME Bind PROVE Unwritten'
  BY <1>14 DEF Bind, Unwritten
<1>15. ASSUME NEW place \in Place, LoseCA(place) PROVE Unwritten'
  BY <1>15 DEF LoseCA, Unwritten
<1>16. ASSUME NEW port \in Port, Claim(port) PROVE Unwritten'
  BY <1>16 DEF Claim, Unwritten
<1>17. ASSUME LoseConfig PROVE Unwritten'
  BY <1>17 DEF LoseConfig, Unwritten
<1>18. ASSUME WorkerDies PROVE Unwritten'
  BY <1>18 DEF WorkerDies, Unwritten
<1>19. ASSUME EditSettings PROVE Unwritten'
  BY <1>19 DEF EditSettings, Unwritten
<1>20. CASE UNCHANGED vars
  BY <1>20 DEF vars, Unwritten
<1> QED BY <1>1, <1>2, <1>3, <1>4, <1>5, <1>6, <1>7, <1>8, <1>9, <1>10, <1>11, <1>12, <1>13, <1>14,
           <1>15, <1>16, <1>17, <1>18, <1>19, <1>20 DEF Next, InitStep, WorkerStep

\* A worker that a start leaves behind has read what is there.
LEMMA SpawnedIsCurrent ==
    ASSUME Spawned.pc # "none"
    PROVE  /\ RuntimeCA /\ Spawned.pc = "migrate" /\ Spawned.listen = config.listen /\ Spawned.ca = cert[config.ca]
           /\ config.listen \notin foreign
BY DEF Spawned, NoWorker

LEMMA CurrentStep == Types /\ Unwritten /\ WorkerIsCurrent /\ [Next]_vars => WorkerIsCurrent'
<1> SUFFICES ASSUME Types, Unwritten, WorkerIsCurrent, [Next]_vars PROVE WorkerIsCurrent'
  OBVIOUS
<1> USE DEF clientFiles
<1>1. ASSUME NEW c \in Client, Begin(c) PROVE WorkerIsCurrent'
  BY <1>1, Began DEF Begin, WorkerIsCurrent, Stands, Busy, At, Active
<1>2. ASSUME NEW c \in Client, EnsureCA(c) PROVE WorkerIsCurrent'
  <2>1. CASE ValidCA(ChosenPlace(c))
    BY <1>2, <2>1, Chose DEF EnsureCA, WorkerIsCurrent, Stands, Busy, At, Active
  <2>2. CASE ~ValidCA(ChosenPlace(c))
    BY <1>2, <2>2, Chose DEF EnsureCA, WorkerIsCurrent, Stands, Busy, At, Active
  <2> QED BY <2>1, <2>2
<1>3. ASSUME NEW c \in Client, WriteKey(c) PROVE WorkerIsCurrent'
  BY <1>3, Went DEF WriteKey, WorkerIsCurrent, Stands, Busy, At, Active, Pc
<1>4. ASSUME NEW c \in Client, WriteConfig(c) PROVE WorkerIsCurrent'
  <2>1. PICK port \in Port :
          /\ config' = New(c, port) /\ job'[c].pc = "load"
          /\ job'[c].changed = (job[c].rebuild \/ Changed(config, New(c, port)))
          /\ job'[c].caChanged = job[c].caChanged
          /\ \A q \in Client \ {c} : job'[q] = job[q]
    BY <1>4, Wrote
  <2>2. CASE job'[c].changed
    BY <1>4, <2>1, <2>2 DEF WorkerIsCurrent, Stands, Busy, At, Active
  <2>3. CASE ~job'[c].changed
    <3>1. config' = config /\ config # NoConfig
      BY <2>1, <2>3 DEF Changed
    <3> QED BY <1>4, <2>1, <2>3, <3>1 DEF WriteConfig, Unwritten, WorkerIsCurrent, Stands, Busy, At, Active
  <2> QED BY <2>2, <2>3
<1>5. ASSUME NEW c \in Client, Refuse(c) PROVE WorkerIsCurrent'
  BY <1>5, Left DEF Refuse, WorkerIsCurrent, Stands, Busy, At, Active
<1>6. ASSUME NEW c \in Client, LoadFiles(c) PROVE WorkerIsCurrent'
  <2>1. \A q \in Client : Stands(q)' => Stands(q)
    BY ZenonT(60), <1>6, Loaded DEF LoadFiles, Stands, Busy, At
  <2> QED BY <1>6, <2>1 DEF LoadFiles, WorkerIsCurrent, Active
<1>7. ASSUME NEW c \in Client, WriteFiles(c) PROVE WorkerIsCurrent'
  BY <1>7, Went DEF WriteFiles, WorkerIsCurrent, Stands, Busy, At, Active, Pc
<1>8. ASSUME NEW c \in Client, StartAfterInit(c) PROVE WorkerIsCurrent'
  <2>1. CASE MustRefresh(c)
    <3>1. worker' = Spawned /\ UNCHANGED <<config, cert>>
      BY <1>8, <2>1 DEF StartAfterInit
    <3> QED BY <3>1, SpawnedIsCurrent DEF WorkerIsCurrent, Active
  <2>2. CASE ~MustRefresh(c)
    BY <1>8, <2>2, Left DEF StartAfterInit, MustRefresh, WorkerIsCurrent, Stands, Busy, At, Active
  <2> QED BY <2>1, <2>2
<1>9. ASSUME NEW c \in Client, Await(c) PROVE WorkerIsCurrent'
  BY <1>9, Left DEF Await, WorkerIsCurrent, Stands, Busy, At, Active
<1>10. ASSUME NEW c \in Client, Fail(c) PROVE WorkerIsCurrent'
  BY ZenonT(60), <1>10, Left DEF Fail, WorkerIsCurrent, Stands, Busy, At, Active, Types
<1>11. ASSUME StartService PROVE WorkerIsCurrent'
  <2>1. worker' = Spawned /\ UNCHANGED <<config, cert>>
    BY <1>11 DEF StartService
  <2> QED BY <2>1, SpawnedIsCurrent DEF WorkerIsCurrent, Active
<1>12. ASSUME Migrate PROVE WorkerIsCurrent'
  BY <1>12 DEF Migrate, WorkerIsCurrent, Stands, Busy, At, Active, Types, Workers, NoWorker
<1>13. ASSUME Replace PROVE WorkerIsCurrent'
  BY <1>13 DEF Replace, WorkerIsCurrent, Stands, Busy, At, Active, Types, Workers, NoWorker
<1>14. ASSUME Bind PROVE WorkerIsCurrent'
  BY <1>14 DEF Bind, WorkerIsCurrent, Stands, Busy, At, Active, Types, Workers, NoWorker
<1>15. ASSUME NEW place \in Place, LoseCA(place) PROVE WorkerIsCurrent'
  BY <1>15, ConfigFields DEF LoseCA, WorkerIsCurrent, Stands, Busy, At, Active, Types
<1>16. ASSUME NEW port \in Port, Claim(port) PROVE WorkerIsCurrent'
  BY <1>16 DEF Claim, WorkerIsCurrent, Stands, Busy, At, Active
<1>17. ASSUME LoseConfig PROVE WorkerIsCurrent'
  BY <1>17 DEF LoseConfig, WorkerIsCurrent, Stands, Busy, At, Active
<1>18. ASSUME WorkerDies PROVE WorkerIsCurrent'
  BY <1>18 DEF WorkerDies, WorkerIsCurrent, Stands, Busy, At, Active, NoWorker
<1>19. ASSUME EditSettings PROVE WorkerIsCurrent'
  BY <1>19 DEF EditSettings, WorkerIsCurrent, Stands, Busy, At, Active
<1>20. CASE UNCHANGED vars
  BY <1>20 DEF vars, WorkerIsCurrent, Stands, Busy, At, Active
<1> QED BY <1>1, <1>2, <1>3, <1>4, <1>5, <1>6, <1>7, <1>8, <1>9, <1>10, <1>11, <1>12, <1>13, <1>14,
           <1>15, <1>16, <1>17, <1>18, <1>19, <1>20 DEF Next, InitStep, WorkerStep

(***************************************************************************)
(* How far an init has come.                                               *)
(***************************************************************************)
\* What goes wrong from outside leaves no init undisturbed.
LEMMA Disturbed ==
    ASSUME Types, Progresses, Counted("mishaps"),
           \A q \in Client : job'[q] = job[q] \/ job'[q].since = 0
    PROVE  Progresses'
<1> SUFFICES ASSUME NEW q \in Client PROVE job'[q].since <= count'.mishaps /\ ~Undisturbed(q)'
  BY DEF Progresses, Progress
<1>1. count.mishaps \in Nat /\ count'.mishaps = count.mishaps + 1
  BY CountedType DEF Types, Counts
<1>2. job[q].since \in Nat /\ job[q].since <= count.mishaps
  BY DEF Types, Job, Progresses
<1>3. job'[q].since <= count.mishaps
  BY <1>1, <1>2
<1>4. job'[q].since \in Nat
  BY <1>2
<1> QED BY <1>1, <1>3, <1>4 DEF Undisturbed

\* Of an init that acts, only its own progress can change.
LEMMA OnlyOwn ==
    ASSUME Types, Locks, Progresses, NEW c \in Client, Busy(c),
           \A q \in Client \ {c} : job'[q] = job[q],
           count'.mishaps = count.mishaps, job'[c].since \in {0, job[c].since}, Progress(c)'
    PROVE  Progresses'
<1>1. \A q \in Client \ {c} : ~Busy(q)
  BY DEF Locks
<1>2. \A q \in Client \ {c} : Progress(q)'
  BY <1>1 DEF Busy, Progress, At
<1>3. 0 <= count.mishaps
  BY DEF Types, Counts
<1>4. \A q \in Client : job'[q].since <= count'.mishaps
  BY <1>3 DEF Progresses
<1> QED BY <1>2, <1>4 DEF Progresses

\* The CA of an init that has made one is the one it chose.
LEMMA ProgressCA ==
    ASSUME Types, NEW c \in Client, EnsureCA(c)
    PROVE  Chosen(c)'
<1>0. PICK place \in Place : place = ChosenPlace(c)
  BY ConfigFields DEF ChosenPlace, RuntimeCA, Place
<1>1. count.pairs \in Nat
  BY DEF Types, Counts
<1>2. cert'[place] # 0 /\ (job'[c].pc = "config" => ValidCA(place)')
  <2>1. CASE ValidCA(place)
    BY <1>0, <2>1 DEF EnsureCA, ValidCA
  <2>2. CASE ~ValidCA(place)
    <3>1. cert' = [cert EXCEPT ![place] = count.pairs + 1] /\ job'[c].pc = "key"
      BY <1>0, <2>2, Chose DEF EnsureCA
    <3> QED BY <1>1, <3>1 DEF Types
  <2> QED BY <2>1, <2>2
<1>3. CASE RuntimeCA
  <2>1. place = config.ca /\ ValidCA(place) /\ UNCHANGED <<config, cert, key>>
    BY <1>0, <1>3 DEF EnsureCA, ChosenPlace, RuntimeCA
  <2>2. RuntimeCA' /\ job'[c].pc = "config" /\ ~job'[c].rebuild /\ job'[c].ca = place
    BY <1>0, <1>3, <2>1, Chose DEF RuntimeCA, ValidCA
  <2> QED BY <1>2, <2>1, <2>2 DEF Chosen, At
<1>4. CASE ~RuntimeCA
  <2>1. place = (IF c = "claude" THEN "claude" ELSE "saiai") /\ job'[c].rebuild = (c = "codex") /\ job'[c].ca = place
    BY <1>0, <1>4, Chose DEF ChosenPlace
  <2>2. RuntimeCA' => config'.ca = place
    <3>1. UNCHANGED <<config, key>> /\ \A q \in Place \ {place} : cert'[q] = cert[q]
      BY <1>0 DEF EnsureCA, Types
    <3> QED BY <1>4, <3>1, ConfigFields DEF RuntimeCA, ValidCA
  <2> QED BY <1>2, <2>1, <2>2 DEF Chosen, At, Client
<1> QED BY <1>3, <1>4

\* What an init has written is what it goes on with.
LEMMA ProgressConfig ==
    ASSUME Types, PortIsItsOwn, NEW c \in Client, WriteConfig(c), Chosen(c)
    PROVE  Configured(c)'
<1>1. PICK port \in Port :
        /\ Selectable(port, IF job[c].rebuild \/ config = NoConfig THEN 0 ELSE config.listen)
        /\ config' = New(c, port) /\ New(c, port) \in Config
        /\ job'[c].listen = port /\ job'[c].ca = (IF c = "codex" THEN New(c, port).ca ELSE job[c].ca)
  BY Wrote
<1>2. port \notin foreign
  BY <1>1 DEF Selectable, Bindable, Listening, PortIsItsOwn
<1>3. At(c, "config") /\ ValidCA(job[c].ca) /\ UNCHANGED <<cert, key, foreign>>
  BY DEF WriteConfig, Chosen
<1>4. config' # NoConfig
  BY <1>1, ConfigurationAssumption
<1>5. CASE job[c].rebuild
  <2>1. c = "codex" /\ job[c].ca = "saiai" /\ New(c, port) = Rebuilt(port)
    BY <1>5 DEF Chosen, New, Client
  <2> QED BY <1>1, <1>2, <1>3, <1>4, <2>1 DEF Configured, RuntimeCA, ValidCA, Rebuilt
<1>6. CASE ~job[c].rebuild
  <2>1. New(c, port) = Updated(c, port)
    BY <1>6 DEF New
  <2>2. /\ config'.obsolete = FALSE /\ config'.listen = port /\ c \in config'.keys
        /\ config'.ca = IF c = "codex" \/ RuntimeCA THEN config.ca ELSE job[c].ca
    BY <1>1, <2>1 DEF Updated
  <2>3. ValidCA(config'.ca) /\ config'.ca = job'[c].ca
    <3>1. CASE c = "codex"
      BY <1>1, <1>6, <2>2, <3>1 DEF Chosen, RuntimeCA
    <3>2. CASE c = "claude"
      BY <1>1, <1>3, <2>2, <3>2 DEF Chosen
    <3> QED BY <3>1, <3>2 DEF Client
  <2>4. config'.ca \in Place /\ cert'[config'.ca] # 0 /\ cert'[config'.ca] = key'[config'.ca]
    BY <1>1, <1>3, <2>3 DEF ValidCA, Config
  <2> QED BY <1>1, <1>2, <1>3, <1>4, <2>2, <2>3, <2>4 DEF Configured, RuntimeCA, ValidCA
<1> QED BY <1>5, <1>6

LEMMA ProgressStep == Types /\ Locks /\ PortIsItsOwn /\ Progresses /\ [Next]_vars => Progresses'
<1> SUFFICES ASSUME Types, Locks, PortIsItsOwn, Progresses, [Next]_vars PROVE Progresses'
  OBVIOUS
<1> USE DEF clientFiles
<1>1. ASSUME NEW c \in Client, Begin(c) PROVE Progresses'
  <2>1. \A q \in Client \ {c} : job'[q] = job[q]
    BY <1>1, Began
  <2>2. job'[c].pc = "ca" /\ job'[c].since = count.mishaps /\ count'.mishaps = count.mishaps
    BY <1>1, Began, CountedType DEF Begin
  <2>3. \A q \in Client : ~Busy(q)
    BY <1>1 DEF Begin, Locks, Client
  <2>4. \A q \in Client : Progress(q)'
    BY <2>1, <2>2, <2>3 DEF Progress, Busy, At
  <2>5. count.mishaps \in Nat
    BY DEF Types, Counts
  <2> QED BY <2>1, <2>2, <2>4, <2>5 DEF Progresses
<1>2. ASSUME NEW c \in Client, EnsureCA(c) PROVE Progresses'
  <2>1. Busy(c) /\ \A q \in Client \ {c} : job'[q] = job[q]
    BY <1>2, Chose DEF EnsureCA, Busy, At, Pc
  <2>2. job'[c].since \in {0, job[c].since} /\ count'.mishaps = count.mishaps
    BY <1>2, Chose, CountedType DEF EnsureCA, Pc
  <2>3. Progress(c)'
    BY <1>2, Chose, ProgressCA DEF Progress, At
  <2> QED BY <2>1, <2>2, <2>3, OnlyOwn
<1>3. ASSUME NEW c \in Client, WriteKey(c) PROVE Progresses'
  <2>1. Busy(c) /\ \A q \in Client \ {c} : job'[q] = job[q]
    BY <1>3, Went DEF WriteKey, Busy, At, Pc
  <2>2. job'[c].since \in {0, job[c].since} /\ count'.mishaps = count.mishaps
    BY <1>3, Went, CountedType DEF WriteKey, Pc
  <2>3. Progress(c)'
    <3> SUFFICES ASSUME Undisturbed(c)' PROVE Chosen(c)'
      BY <1>3, Went DEF WriteKey, Progress, At, Pc
    <3>1. Chosen(c) /\ At(c, "key") /\ UNCHANGED <<config, cert>>
      BY <1>3, <2>2, Went DEF WriteKey, Progresses, Progress, Undisturbed, At, Pc
    <3>2. job'[c].pc = "config" /\ job'[c].rebuild = job[c].rebuild /\ job'[c].ca = job[c].ca /\ job[c].ca \in Place
      BY <1>3, Went DEF WriteKey, Pc, Types, Job
    <3>3. ValidCA(job[c].ca)' /\ \A q \in Place \ {job[c].ca} : key'[q] = key[q]
      BY <1>3, <3>1, <3>2 DEF WriteKey, Chosen, ValidCA, Types
    <3>4. RuntimeCA' => config.ca = job[c].ca \/ RuntimeCA
      BY <3>1, <3>3, ConfigFields DEF RuntimeCA, ValidCA
    <3> QED BY <3>1, <3>2, <3>3, <3>4 DEF Chosen, At
  <2> QED BY <2>1, <2>2, <2>3, OnlyOwn
<1>4. ASSUME NEW c \in Client, WriteConfig(c) PROVE Progresses'
  <2>1. Busy(c) /\ \A q \in Client \ {c} : job'[q] = job[q]
    BY <1>4, Wrote DEF WriteConfig, Busy, At, Pc
  <2>2. job'[c].since \in {0, job[c].since} /\ count'.mishaps = count.mishaps
    BY <1>4, Wrote, CountedType DEF WriteConfig, Pc
  <2>3. Progress(c)'
    <3>1. job'[c].pc = "load"
      BY <1>4, Wrote
    <3>2. Undisturbed(c)' => Undisturbed(c)
      BY <1>4, Wrote DEF WriteConfig, Undisturbed
    <3>3. Undisturbed(c)' => Chosen(c)
      BY <1>4, <3>2 DEF WriteConfig, Progresses, Progress, At
    <3> QED BY <1>4, <3>1, <3>3, ProgressConfig DEF Progress, At
  <2> QED BY <2>1, <2>2, <2>3, OnlyOwn
<1>5. ASSUME NEW c \in Client, Refuse(c) PROVE Progresses'
  <2>1. Busy(c) /\ \A q \in Client \ {c} : job'[q] = job[q]
    BY <1>5, Left DEF Refuse, Busy, At, Pc
  <2>2. job'[c].since \in {0, job[c].since} /\ count'.mishaps = count.mishaps
    BY <1>5, Left, CountedType DEF Refuse, Pc
  <2>3. Progress(c)'
    BY <1>5, Left DEF Refuse, Progress, At
  <2> QED BY <2>1, <2>2, <2>3, OnlyOwn
<1>6. ASSUME NEW c \in Client, LoadFiles(c) PROVE Progresses'
  <2>1. Busy(c) /\ \A q \in Client \ {c} : job'[q] = job[q]
    BY <1>6, Loaded DEF LoadFiles, Busy, At, Pc
  <2>2. job'[c].since \in {0, job[c].since} /\ count'.mishaps = count.mishaps
    BY <1>6, Loaded, CountedType DEF LoadFiles, Pc
  <2>3. Progress(c)'
    BY ZenonT(60), <1>6, Loaded DEF LoadFiles, Progresses, Progress, Undisturbed, Configured, RuntimeCA, ValidCA, At
  <2> QED BY <2>1, <2>2, <2>3, OnlyOwn
<1>7. ASSUME NEW c \in Client, WriteFiles(c) PROVE Progresses'
  <2>1. Busy(c) /\ \A q \in Client \ {c} : job'[q] = job[q]
    BY <1>7, Went DEF WriteFiles, Busy, At, Pc
  <2>2. job'[c].since \in {0, job[c].since} /\ count'.mishaps = count.mishaps
    BY <1>7, Went, CountedType DEF WriteFiles, Pc
  <2>3. Progress(c)'
    <3>1. Undisturbed(c)' => Configured(c)'
      BY <1>7, Went DEF WriteFiles, Progresses, Progress, Undisturbed, Configured, RuntimeCA, ValidCA, At, Pc
    <3>2. Filed(c)'
      BY <1>7, Went DEF WriteFiles, Filed, FileOf, At, Pc, Client
    <3> QED BY <1>7, <3>1, <3>2, Went DEF WriteFiles, Progress, At, Pc
  <2> QED BY <2>1, <2>2, <2>3, OnlyOwn
<1>8. ASSUME NEW c \in Client, StartAfterInit(c) PROVE Progresses'
  <2> Busy(c) /\ count'.mishaps = count.mishaps
    BY <1>8 DEF StartAfterInit, Busy, At
  <2>1. CASE MustRefresh(c)
    <3>1. Go(c, "await") /\ worker' = Spawned /\ UNCHANGED <<config, cert, key, settings, dotenv, foreign>> /\ At(c, "start")
      BY <1>8, <2>1 DEF StartAfterInit
    <3>2. job'[c].pc = "await" /\ \A q \in Client \ {c} : job'[q] = job[q]
      BY <3>1, Went DEF Pc
    <3>3. job'[c].since = job[c].since /\ job'[c].listen = job[c].listen /\ job'[c].ca = job[c].ca
      BY <3>1, Went DEF Pc
    <3>4. Undisturbed(c)' => Configured(c) /\ Filed(c)
      BY <3>1, <3>3 DEF Progresses, Progress, Undisturbed, At
    <3>5. Configured(c) => Configured(c)'
      BY <3>1, <3>3 DEF Configured, RuntimeCA, ValidCA
    <3>6. Filed(c) => Filed(c)'
      BY <3>1, <3>3 DEF Filed, FileOf
    <3>7. Configured(c) => Started(c)'
      BY <3>1 DEF Configured, Started, Spawned
    <3>8. Progress(c)'
      BY <3>2, <3>4, <3>5, <3>6, <3>7 DEF Progress, At
    <3> QED BY <3>2, <3>3, <3>8, OnlyOwn
  <2>2. CASE ~MustRefresh(c)
    <3>1. job'[c].pc = "done" /\ job'[c].since = 0 /\ \A q \in Client \ {c} : job'[q] = job[q]
      BY <1>8, <2>2, Left DEF StartAfterInit
    <3>2. Progress(c)'
      BY <3>1 DEF Progress, At
    <3> QED BY <3>1, <3>2, OnlyOwn
  <2> QED BY <2>1, <2>2
<1>9. ASSUME NEW c \in Client, Await(c) PROVE Progresses'
  <2>1. Busy(c) /\ \A q \in Client \ {c} : job'[q] = job[q]
    BY <1>9, Left DEF Await, Busy, At, Pc
  <2>2. job'[c].since \in {0, job[c].since} /\ count'.mishaps = count.mishaps
    BY <1>9, Left, CountedType DEF Await, Pc
  <2>3. Progress(c)'
    BY <1>9, Left DEF Await, Progress, At
  <2> QED BY <2>1, <2>2, <2>3, OnlyOwn
<1>10. ASSUME NEW c \in Client, Fail(c) PROVE Progresses'
  BY <1>10, Left, Disturbed DEF Fail
<1>11. ASSUME StartService PROVE Progresses'
  BY <1>11, CountedType DEF StartService, Progresses, Progress, Undisturbed, Chosen, Configured, Filed, FileOf, Started, RuntimeCA, ValidCA, At
<1>12. ASSUME Migrate PROVE Progresses'
  <2>1. \A c \in Client : At(c, "await") /\ Started(c) => Started(c)'
    BY <1>12 DEF Migrate, Started, Locks, Busy, At, Types, Workers, Client
  <2> QED BY <1>12, <2>1 DEF Migrate, Progresses, Progress, Undisturbed, Chosen, Configured, Filed, FileOf, RuntimeCA, ValidCA, At
<1>13. ASSUME Replace PROVE Progresses'
  <2>1. \A c \in Client : ~Busy(c)
    BY <1>13 DEF Replace, Locks, Client
  <2> QED BY <1>13, <2>1 DEF Replace, Busy, Progresses, Progress, At
<1>14. ASSUME Bind PROVE Progresses'
  <2>1. \A c \in Client : Configured(c) /\ Started(c) => Started(c)'
    BY <1>14 DEF Bind, Started, Configured, Types, Workers
  <2> QED BY <1>14, <2>1 DEF Bind, Progresses, Progress, Undisturbed, Chosen, Configured, Filed, FileOf, RuntimeCA, ValidCA, At
<1>15. ASSUME NEW place \in Place, LoseCA(place) PROVE Progresses'
  BY <1>15, Disturbed DEF LoseCA, Mishap
<1>16. ASSUME NEW port \in Port, Claim(port) PROVE Progresses'
  BY <1>16, Disturbed DEF Claim, Mishap
<1>17. ASSUME LoseConfig PROVE Progresses'
  BY <1>17, Disturbed DEF LoseConfig, Mishap
<1>18. ASSUME WorkerDies PROVE Progresses'
  BY <1>18, Disturbed DEF WorkerDies, Mishap
<1>19. ASSUME EditSettings PROVE Progresses'
  <2>1. settings'.proxy = settings.proxy /\ settings'.ca = settings.ca
    BY <1>19 DEF EditSettings, Types, Settings
  <2> QED BY <1>19, <2>1, CountedType DEF EditSettings, Progresses, Progress, Undisturbed, Chosen, Configured, Filed, FileOf, Started, RuntimeCA, ValidCA, At
<1>20. CASE UNCHANGED vars
  BY <1>20 DEF vars, Progresses, Progress, Undisturbed, Chosen, Configured, Filed, FileOf, Started, RuntimeCA, ValidCA, At
<1> QED BY <1>1, <1>2, <1>3, <1>4, <1>5, <1>6, <1>7, <1>8, <1>9, <1>10, <1>11, <1>12, <1>13, <1>14,
           <1>15, <1>16, <1>17, <1>18, <1>19, <1>20 DEF Next, InitStep, WorkerStep

\* The inductive invariant at the start, and after every step.
LEMMA Invariance == Spec => []IInv
<1>1. Init => IInv
  <2> SUFFICES ASSUME Init PROVE IInv
    OBVIOUS
  <2>1. Types
    BY TypesInit
  <2>2. \A c \in Client : job[c].pc = "idle" /\ job[c].changed = FALSE /\ job[c].since = 0
    BY DEF Init, Idle
  <2>3. worker.pc = "none" /\ lock = "nobody" /\ count.edits = 0 /\ count.mishaps = 0
    BY DEF Init, NoWorker
  <2>4. Locks /\ PortIsItsOwn /\ WorkerIsCurrent /\ Unwritten /\ Progresses
    BY <2>2, <2>3 DEF Locks, Busy, Client, PortIsItsOwn, WorkerIsCurrent, Active, Unwritten, Progresses, Progress, At
  <2>5. settings.edit = 0
    BY DEF Init
  <2>7. EditsKept
    BY <2>2, <2>3, <2>5 DEF EditsKept, SettingsSurvive, At, Client
  <2> QED BY <2>1, <2>4, <2>7 DEF IInv
<1>2. IInv /\ [Next]_vars => IInv'
  BY TypesStep, LocksStep, PortStep, EditsStep, UnwrittenStep, CurrentStep, ProgressStep DEF IInv
<1> QED BY <1>1, <1>2, PTL DEF Spec

\* The type invariant of ClientConfiguration.
THEOREM TypeCorrect == Spec => []TypeOK
<1>1. IInv => TypeOK
  BY DEF IInv, Types, TypeOK, Workers, Job, Pc
<1> QED BY <1>1, Invariance, PTL

\* Whatever Claude Code or the user last wrote into settings.json is there or in
\* a backup, but for what was written while an init had the file in memory
\* (install_claude_saiai, migrate_legacy_claude_no_proxy).
THEOREM EditsSurvive == Spec => []SettingsSurvive
<1>1. IInv => SettingsSurvive
  BY DEF IInv, EditsKept
<1> QED BY <1>1, Invariance, PTL

(***************************************************************************)
(* What doctor says.                                                       *)
(***************************************************************************)
LEMMA NoComplaint ==
    ASSUME NEW wrong, NEW level, NEW label
    PROVE  Complaint(wrong, level, label) = {} <=> ~wrong
BY DEF Complaint

\* Of whose configuration, files and service doctor has nothing to say: their
\* clients reach the worker and trust it.
LEMMA SilentInside ==
    ASSUME Types, NEW c \in Client, SaysInside(c) = {}
    PROVE  /\ config # NoConfig /\ Listening(config.listen) /\ worker.ca # 0 /\ worker.ca = cert[config.ca]
           /\ c = "claude" => settings.proxy = config.listen /\ cert[settings.ca] # 0
                              /\ settings.ca = config.ca
<1>0. config # NoConfig
  BY DEF SaysInside, Error, Complaint
<1>1. config # NoConfig /\ ConfigSays = {} /\ Probe = {}
  BY <1>0 DEF SaysInside
<1>2. Reachable /\ ConfiguredCAExists
  BY <1>1, NoComplaint DEF ConfigSays, Error, Warn
<1>3. ProbeTrusts
  BY <1>1, <1>2, NoComplaint DEF Probe, Error
<1>4. ASSUME c = "claude"
      PROVE  settings.proxy = config.listen /\ cert[settings.ca] # 0 /\ settings.ca = config.ca
  <2>1. ClaudeSettingsSay = {}
    BY <1>4 DEF SaysInside
  <2>2. settings.proxy # 0
    BY <2>1, NoComplaint DEF ClaudeSettingsSay, Error
  <2>3. settings.proxy = ExpectedListen /\ settings.ca = config.ca /\ cert[settings.ca] # 0
    BY <1>1, <2>1, <2>2, NoComplaint DEF ClaudeSettingsSay, Error, Warn
  <2> QED BY <1>1, <2>3 DEF ExpectedListen
<1> QED BY <1>1, <1>2, <1>3, <1>4 DEF ProbeTrusts, ConfiguredCAExists

\* A layer of variables that doctor has nothing to say of leads to the worker.
LEMMA LayerReaches ==
    ASSUME Types, SaysInside("claude") = {}, NEW layer \in Layers, ~layer.direct,
           layer.proxy \in {0, ExpectedListen}, layer.bypass = {} \/ "local" \in layer.bypass,
           NEW own \in Variables, own.upper = 0, "local" \in own.bypass
    PROVE  ClaudeReaches(layer, own) \/ Bypassed(layer, own) = {"local", "api"}
<1>1. /\ config # NoConfig /\ Listening(config.listen) /\ worker.ca # 0 /\ worker.ca = cert[config.ca]
      /\ settings.proxy = config.listen /\ settings.ca = config.ca
  BY SilentInside DEF Client
<1>2. ExpectedListen = config.listen
  BY <1>1 DEF ExpectedListen
<1>5. ProxyUsed(layer, own) = config.listen
  BY <1>1, <1>2 DEF ProxyUsed
<1> DEFINE used == [settings EXCEPT !.proxy = ProxyUsed(layer, own)]
<1>3. used.proxy = config.listen /\ used.ca = config.ca
  BY <1>1, <1>5 DEF Types, Settings
<1>4. Bypassed(layer, own) \in NoProxy /\ "local" \in Bypassed(layer, own)
  BY DEF Bypassed, Layers, Variables
<1>6. CASE "api" \in Bypassed(layer, own)
  BY <1>4, <1>6 DEF NoProxy
<1>7. CASE "api" \notin Bypassed(layer, own)
  BY <1>1, <1>3, <1>7 DEF ClaudeReaches, Works, Listening
<1> QED BY <1>6, <1>7

LEMMA BareIsALayer == Bare \in Layers /\ ~Bare.direct /\ Bare.proxy = 0 /\ Bare.bypass = {}
BY DEF Bare, Layers, NoProxy
LEMMA KeptVariables == Kept \in Variables
BY DEF Kept, Variables, NoProxy

\* The variables of which doctor has nothing to say name no other proxy.
LEMMA SilentLayer ==
    ASSUME NEW e, SaysAround("claude", e) = {},
           e.shell \in Layers, e.profile \in Layers, e.session \in Layers,
           NEW layer \in Launches(e)
    PROVE  /\ layer \in Layers /\ ~layer.direct /\ layer.proxy \in {0, ExpectedListen}
           /\ layer.bypass = {} \/ "local" \in layer.bypass
           /\ e.own.upper = 0 /\ "local" \in e.own.bypass
<1>1. /\ ShellSays(e.shell) = {} /\ ProfileSays(e.profile) = {} /\ (e.manager => SessionSays(e.session) = {})
      /\ ClaudeVariablesSay(e.own) = {}
  BY DEF SaysAround, EnvironmentSays
<1>2. /\ ~e.shell.direct /\ e.shell.proxy \in {0, ExpectedListen}
      /\ e.shell.bypass = {} \/ "local" \in e.shell.bypass
  BY <1>1 DEF ShellSays, Warn, Complaint, ProxyConflicts
<1>3. ~e.profile.direct /\ e.profile.proxy = 0 /\ e.profile.bypass = {}
  BY <1>1 DEF ProfileSays, Warn, Complaint, NamesProxies
<1>4. e.manager => ~e.session.direct /\ e.session.proxy = 0 /\ e.session.bypass = {}
  BY <1>1 DEF SessionSays, Warn, Complaint, NamesProxies
<1>5. e.own.upper = 0 /\ "local" \in e.own.bypass
  BY <1>1, NoComplaint DEF ClaudeVariablesSay, Warn
<1> QED BY <1>2, <1>3, <1>4, <1>5 DEF Launches

\* A codex command of which doctor has nothing to say knows its model.
LEMMA SilentCatalog ==
    ASSUME NEW e, SaysAround("codex", e) = {}, e.command.model, e.command.provider = "openai"
    PROVE  ModelIsKnown(e.command)
<1>1. CatalogSays(e.command) = {}
  BY DEF SaysAround
<1>2. e.command.found
  BY <1>1, NoComplaint DEF CatalogSays, Warn
<1>3. e.command.version # "none"
  BY <1>1, <1>2, NoComplaint DEF CatalogSays, Warn
<1>4. CachedModel(e.command.cache, e.command.version) = "Present"
  BY <1>1, <1>2, <1>3, NoComplaint DEF CatalogSays, Warn, ConfiguredModel
<1>5. e.command.cache.version = e.command.version
  BY <1>4 DEF CachedModel
<1>6. e.command.cache.models = "with"
  BY <1>4, <1>5 DEF CachedModel
<1> QED BY <1>5, <1>6 DEF ModelIsKnown

\* Each of the surroundings that doctor is asked about.
LEMMA StartsAreLayers ==
    ASSUME NEW e \in Starts
    PROVE  e.shell \in Layers /\ e.profile \in Layers /\ e.session \in Layers /\ e.own \in Variables
<1> USE KeptVariables
<1>1. CASE e = [Usual EXCEPT !.manager = FALSE]
  BY <1>1, BareIsALayer DEF Usual
<1>3. CASE \E own \in Variables : e = [Usual EXCEPT !.own = own]
  BY <1>3, BareIsALayer DEF Usual
<1>2. CASE \E where \in {"shell", "profile", "session"}, layer \in Layers : e = [Usual EXCEPT ![where] = layer]
  <2>1. PICK where \in {"shell", "profile", "session"}, layer \in Layers : e = [Usual EXCEPT ![where] = layer]
    BY <1>2
  <2>2. CASE where = "shell"
    BY <2>1, <2>2, BareIsALayer DEF Usual
  <2>3. CASE where = "profile"
    BY <2>1, <2>3, BareIsALayer DEF Usual
  <2>4. CASE where = "session"
    BY <2>1, <2>4, BareIsALayer DEF Usual
  <2> QED BY <2>2, <2>3, <2>4
<1> QED BY <1>1, <1>2, <1>3 DEF Starts

LEMMA InstalledAskForAModel ==
    ASSUME NEW e \in Installed
    PROVE  e.command.model /\ e.command.provider = "openai"
<1>1. CASE \E version \in Versions : e = [Usual EXCEPT !.command.version = version]
  BY <1>1 DEF Usual, UsualCommand
<1>2. CASE \E cache \in Caches : e = [Usual EXCEPT !.command.cache = cache]
  BY <1>2 DEF Usual, UsualCommand
<1>3. CASE e = [Usual EXCEPT !.command.found = FALSE] \/ e = [Usual EXCEPT !.command.copies = 2]
  BY <1>3 DEF Usual, UsualCommand
<1> QED BY <1>1, <1>2, <1>3 DEF Installed

\* A doctor that has nothing to say is right about Claude Code, from wherever
\* it is started unless a NO_PROXY has a loopback address and Anthropic's API,
\* and about Codex as saiai codex starts it (doctor_claude, doctor_codex,
\* probe_local_proxy_mitm).
THEOREM SilenceIsAlwaysTrue == Spec => []SilenceIsTrue
<1>1. Types => SilenceIsTrue
  <2> SUFFICES ASSUME Types PROVE SilenceIsTrue
    OBVIOUS
  <2>1. ASSUME SaysInside("claude") = {}, NEW e \in Starts, SaysAround("claude", e) = {}, NEW layer \in Launches(e)
        PROVE  ClaudeReaches(layer, e.own) \/ Bypassed(layer, e.own) = {"local", "api"}
    BY <2>1, StartsAreLayers, SilentLayer, LayerReaches
  <2>2. ASSUME SaysInside("codex") = {} PROVE CodexLaunchWorks
    BY <2>2, SilentInside DEF Client, CodexLaunchWorks, Works, Listening
  <2>3. ASSUME NEW e \in Installed, SaysAround("codex", e) = {} PROVE ModelIsKnown(e.command)
    BY <2>3, InstalledAskForAModel, SilentCatalog
  <2> QED BY <2>1, <2>2, <2>3 DEF SilenceIsTrue
<1> QED BY <1>1, Invariance, PTL DEF IInv

(***************************************************************************)
(* How an init ends.                                                       *)
(***************************************************************************)
\* Nothing is wrong where the worker has read the configuration and the CA, and
\* the files of the client name them.
Ready(c) ==
    /\ Types /\ RuntimeCA /\ c \in config.keys /\ config.listen \notin foreign
    /\ FileOf(c).proxy = config.listen /\ FileOf(c).ca = config.ca
    /\ Listening(config.listen) /\ worker.ca = cert[config.ca]
LEMMA Healthy == \A c \in Client : Ready(c) => ClientWorks(c) /\ Says(c, Usual) = {}
<1> SUFFICES ASSUME NEW c \in Client, Ready(c) PROVE ClientWorks(c) /\ Says(c, Usual) = {}
  OBVIOUS
<1> USE DEF Ready
<1>1. /\ config # NoConfig /\ ~config.obsolete /\ cert[config.ca] # 0 /\ config.listen \in Port
      /\ c \in config.keys /\ config.listen \notin foreign /\ config.listen # 0 /\ RuntimeCA
  BY ConfigFields, ConfigurationAssumption DEF RuntimeCA, ValidCA
<1>2. FileOf(c).proxy = config.listen /\ FileOf(c).ca = config.ca
  OBVIOUS
<1>3. ClientWorks(c)
  BY <1>1, <1>2 DEF ClientWorks, Works, FileOf, Listening
<1>4. Reachable /\ Active /\ ProbeTrusts
  BY <1>1 DEF Reachable, Active, ProbeTrusts, ConfiguredCAExists, Listening
<1>5. ConfigSays = {} /\ Probe = {} /\ ServiceSays = {} /\ RouteSays(c) = {} /\ Error(~RuntimeCA, "TLS certificate") = {}
      /\ Error(config = NoConfig, "config") = {}
  BY <1>1, <1>4, NoComplaint DEF ConfigSays, Probe, ServiceSays, RouteSays, Error, Warn, ConfiguredCAExists
<1>6. c = "claude" => ClaudeSettingsSay = {}
  BY <1>1, <1>2, NoComplaint DEF ClaudeSettingsSay, Error, Warn, ExpectedListen, TokenMatches, FileOf
<1>7. c = "codex" => CodexFilesSay = {}
  BY <1>1, <1>2, NoComplaint DEF CodexFilesSay, Error, Warn, FileOf
<1>8. SaysInside(c) = {}
  BY <1>1, <1>5, <1>6, <1>7 DEF SaysInside, Client
<1>9. SaysAround(c, Usual) = {}
  <2>1. EnvironmentSays(Usual) = {} /\ ClaudeVariablesSay(Usual.own) = {}
    BY NoComplaint DEF EnvironmentSays, ShellSays, ProfileSays, SessionSays, Warn, ProxyConflicts, NamesProxies,
                       Usual, Bare, ClaudeVariablesSay, Kept
  <2>2. CatalogSays(UsualCommand) = {}
    <3>1. /\ UsualCommand.found = TRUE /\ UsualCommand.copies = 1 /\ UsualCommand.version = "new"
          /\ UsualCommand.cache = UsualCache
      BY DEF UsualCommand
    <3>2. UsualCache.version = "new" /\ UsualCache.fetched = "fresh" /\ UsualCache.models = "with"
      BY DEF UsualCache
    <3>3. CachedModel(UsualCache, "new") = "Present"
      BY <3>2 DEF CachedModel
    <3>4. SupportsTimeToggle("new")
      BY DEF SupportsTimeToggle
    <3>5. ~(UsualCommand.copies > 1)
      BY <3>1
    <3> QED BY <3>1, <3>3, <3>4, <3>5, Zenon DEF CatalogSays, Warn, Complaint
  <2> QED BY <2>1, <2>2 DEF SaysAround, Usual
<1> QED BY <1>3, <1>8, <1>9 DEF Says
LEMMA HealthyThen == (\A c \in Client : Ready(c) => ClientWorks(c) /\ Says(c, Usual) = {})'
BY Healthy, PTL

\* Only the init that holds the lock goes on.
LEMMA EndsItself ==
    ASSUME Types, Locks, NEW c \in Client, Busy(c), [Next]_vars, job'[c].pc # job[c].pc
    PROVE  Refuse(c) \/ StartAfterInit(c) \/ Await(c) \/ Fail(c) \/ job'[c].pc \notin {"done", "failed"}
<1>1. \A q \in Client : ~Begin(q)
  BY DEF Locks, Begin, Client
<1>2. \A q \in Client \ {c} : ~InitStep(q) /\ ~Fail(q)
  <2> SUFFICES ASSUME NEW q \in Client \ {c} PROVE ~InitStep(q) /\ ~Fail(q)
    OBVIOUS
  <2>1. ~Busy(q)
    BY DEF Locks
  <2> QED BY <2>1 DEF Busy, InitStep, Fail, EnsureCA, WriteKey, WriteConfig, Refuse, LoadFiles, WriteFiles,
                      StartAfterInit, Await, At
<1>3. job' # job
  OBVIOUS
<1>4. InitStep(c) \/ Fail(c)
  BY <1>1, <1>2, <1>3 DEF Next, vars, StartService, WorkerStep, Migrate, Replace, Bind, LoseCA, Claim, LoseConfig,
                          WorkerDies, EditSettings
<1>5. EnsureCA(c) => job'[c].pc \notin {"done", "failed"}
  BY Chose
<1>6. WriteKey(c) \/ WriteFiles(c) => job'[c].pc \notin {"done", "failed"}
  BY Went DEF WriteKey, WriteFiles, Pc
<1>7. WriteConfig(c) => job'[c].pc \notin {"done", "failed"}
  BY Wrote
<1>8. LoadFiles(c) => job'[c].pc \notin {"done", "failed"}
  BY Loaded
<1> QED BY <1>4, <1>5, <1>6, <1>7, <1>8 DEF InitStep

\* An init that nothing disturbs succeeds, its client then works and doctor has
\* no complaint, whatever was lost, taken or left half done before it and
\* whoever restarts the service meanwhile, but for a worker older than an init
\* that failed (initialize_codex_local_proxy,
\* start_managed_service_after_initialization).
THEOREM InitsEndHealthy == Spec => InitEndsHealthy
<1>1. ASSUME IInv, IInv', [Next]_vars, NEW c \in Client, job[c].pc \in {"start", "await"},
             job'[c].pc \in {"done", "failed"}, job[c].since = count'.mishaps
      PROVE  job'[c].pc = "done" /\ (~interrupted' => ClientWorks(c)' /\ Says(c, Usual)' = {})
  <2>1. ~Refuse(c)
    BY <1>1 DEF Refuse, At
  <2>2. ~Fail(c)
    <3>1. job[c].since <= count.mishaps /\ count.mishaps \in Nat
      BY <1>1 DEF IInv, Progresses, Types, Counts
    <3> QED BY <1>1, <3>1, CountedType DEF Fail, IInv
  <2>3. StartAfterInit(c) \/ Await(c)
    BY <1>1, <2>1, <2>2, EndsItself DEF IInv, Busy
  <2>4. Configured(c) /\ Filed(c) /\ (At(c, "await") => Started(c))
    <3>1. Undisturbed(c)
      BY <1>1, <2>3 DEF StartAfterInit, Await, Undisturbed
    <3> QED BY <1>1, <3>1 DEF IInv, Progresses, Progress, At
  <2>5. Ready(c)' => ClientWorks(c)' /\ Says(c, Usual)' = {}
    BY HealthyThen
  <2>6. /\ Listening(config.listen) /\ worker.ca = cert[config.ca]
         /\ UNCHANGED <<config, cert, key, worker, settings, dotenv, foreign>>
         => Ready(c)'
    BY <1>1, <2>4 DEF Ready, IInv, Configured, Filed, FileOf, RuntimeCA, ValidCA, Listening
  <2>7. CASE Await(c)
    <3>1. job'[c].pc = "done" /\ Listening(config.listen) /\ worker.ca = cert[config.ca]
      BY <1>1, <2>4, <2>7, Left DEF Await, Started, Listening, IInv
    <3>2. UNCHANGED <<config, cert, key, worker, settings, dotenv, foreign>>
      BY <2>7 DEF Await, clientFiles
    <3> QED BY <2>5, <2>6, <3>1, <3>2
  <2>8. CASE StartAfterInit(c)
    <3>1. ~MustRefresh(c)
      BY <1>1, <2>8, Went DEF StartAfterInit, IInv, Pc
    <3>2. job'[c].pc = "done" /\ interrupted' = interrupted
      BY <1>1, <2>8, <3>1, Left DEF StartAfterInit, IInv
    <3>3. UNCHANGED <<config, cert, key, worker, settings, dotenv, foreign>>
      BY <2>8, <3>1 DEF StartAfterInit, clientFiles
    <3>4. Listening(config.listen) /\ Active /\ config # NoConfig
      BY <2>4, <3>1 DEF MustRefresh, Reachable, Configured
    <3>5. \A q \in Client : Stands(q)
      BY <1>1, <3>1 DEF MustRefresh, Stands, IInv, Locks, Busy
    <3>6. ~interrupted => worker.ca = cert[config.ca]
      BY <1>1, <2>4, <3>4, <3>5 DEF IInv, WorkerIsCurrent, Configured, RuntimeCA, ValidCA
    <3> QED BY <2>5, <2>6, <3>2, <3>3, <3>4, <3>6
  <2> QED BY <2>3, <2>7, <2>8
<1>2. IInv /\ IInv' /\ [Next]_vars =>
        [\A c \in Client : /\ job[c].pc \in {"start", "await"} /\ job'[c].pc \in {"done", "failed"}
                           /\ job[c].since = count'.mishaps
                           => /\ job'[c].pc = "done"
                              /\ ~interrupted' => ClientWorks(c)' /\ Says(c, Usual)' = {}]_vars
  BY <1>1
<1> QED BY <1>2, Invariance, PTL DEF Spec, InitEndsHealthy
=============================================================================

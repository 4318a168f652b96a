----------------------------- MODULE ClientConfiguration -----------------------------
(***************************************************************************)
(* What init and init-codex set up for the clients of one environment      *)
(* (src/tools/saiai-cli/src/main.rs): SAIAI's config.json, the CA of the   *)
(* installation, the settings of Claude Code and the files of Codex, and   *)
(* the worker that serves them.  Unlike BackgroundService, which has the   *)
(* processes and locks of many services, this module has one service and   *)
(* the files between it and the clients: what a client trusts and connects *)
(* to must be what the worker has read.                                    *)
(*                                                                         *)
(* A certificate and a key are the number of the pair they were generated  *)
(* in.  Starting or restarting the service replaces the worker in one step.*)
(***************************************************************************)
EXTENDS Naturals, FiniteSets

CONSTANTS Port,        \* loopback addresses
          NoConfig,
          MaxInits,    \* bound on the initializations
          MaxBeside,   \* bound on saiai start and the user's edits of Claude's settings together
          MaxMishaps   \* bound on what goes wrong from outside

Client == {"claude", "codex"}
\* Where a CA may be: SAIAI_CA_FILENAME in ~/.claude and in SAIAI's directory.
Place  == {"claude", "saiai"}
Config == [obsolete : BOOLEAN, listen : Port, ca : Place, keys : SUBSET Client]

ASSUME ConfigurationAssumption ==
    /\ MaxInits \in Nat /\ MaxBeside \in Nat /\ MaxMishaps \in Nat
    /\ NoConfig \notin Config /\ 0 \notin Port /\ Port # {}

VARIABLES config,   \* config.json: [obsolete, listen, ca, keys], or NoConfig
          cert, key, \* the CA files in either place; 0 is a missing one
          worker,   \* the service: [pc, listen, ca, read]
          settings, \* Claude's settings.json: [proxy, ca, legacy, edit]
          dotenv,   \* the block in Codex's .env: [proxy, ca]
          toml,     \* Codex's config.toml: whether an old client left respect_system_proxy on
          foreign,  \* ports that other programs have bound
          lock,     \* holder of initialization.lock: a client's init, the worker, or nobody
          job,      \* saiai init and saiai init-codex: how far, and what they remember
          count,    \* [inits, starts, mishaps, edits, pairs]
          saved,    \* edits of Claude's settings in a backup
          overtaken, \* history: edits between SAIAI's last look and its write
          interrupted \* history: an init failed after it wrote what the worker reads

vars == <<config, cert, key, worker, settings, dotenv, toml, foreign, lock, job, count, saved, overtaken, interrupted>>
clientFiles == <<settings, dotenv, toml>>

NoWorker == [pc |-> "none", listen |-> 0, ca |-> 0, read |-> 0]
Idle     == [pc |-> "idle", rebuild |-> FALSE, ca |-> "claude", listen |-> 0, caChanged |-> FALSE,
             changed |-> FALSE, edit |-> 0, since |-> 0]
Unset    == [proxy |-> 0, ca |-> "claude"]

\* validate_tls_config of the files as they are.
ValidCA(place) == cert[place] # 0 /\ cert[place] = key[place]
\* read_runtime_ca.
RuntimeCA == config # NoConfig /\ ~config.obsolete /\ ValidCA(config.ca)
Active    == worker.pc # "none"
Listening(port) == worker.pc = "serving" /\ worker.listen = port
Reachable == config # NoConfig /\ (Listening(config.listen) \/ config.listen \in foreign)
Bindable(port) == port \notin foreign /\ ~Listening(port)

TypeOK ==
    /\ config \in Config \cup {NoConfig}
    /\ DOMAIN cert = Place /\ DOMAIN key = Place
    /\ worker.pc \in {"none", "migrate", "replace", "bind", "serving"} /\ worker.listen \in Port \cup {0}
    /\ foreign \subseteq Port /\ lock \in Client \cup {"worker", "nobody"}
    /\ \A c \in Client : job[c].pc \in {"idle", "ca", "key", "config", "load", "files", "start", "await",
                                        "done", "failed"}
-----------------------------------------------------------------------------
(* saiai init and saiai init-codex *)

At(c, pc) == job[c].pc = pc
Go(c, pc) == job' = [job EXCEPT ![c].pc = pc]
Counted(what) == count' = [count EXCEPT ![what] = @ + 1]
\* What happens beside the initializations is bounded as a whole.
Beside == count.starts + count.edits < MaxBeside

Leave(c, pc) == lock' = "nobody" /\ job' = [job EXCEPT ![c] = [Idle EXCEPT !.pc = pc]]

\* lock_initialization, and the backup of Claude's settings.
Begin(c) ==
    /\ job[c].pc \in {"idle", "done", "failed"} /\ lock = "nobody" /\ count.inits < MaxInits
    /\ lock' = c /\ Counted("inits")
    /\ job' = [job EXCEPT ![c] = [Idle EXCEPT !.pc = "ca", !.since = count.mishaps]]
    /\ saved' = IF c = "claude" THEN saved \cup {settings.edit} ELSE saved
    /\ UNCHANGED <<config, cert, key, worker, clientFiles, foreign, overtaken, interrupted>>

\* existing_runtime_ca_paths, or else Claude's own directory; init_codex keeps
\* a valid configuration and rebuilds it otherwise.
ChosenPlace(c) == IF RuntimeCA THEN config.ca ELSE IF c = "claude" THEN "claude" ELSE "saiai"
\* ensure_installation_ca: the certificate is written first.
EnsureCA(c) ==
    LET place  == ChosenPlace(c)
        chosen == [job[c] EXCEPT !.ca = place, !.rebuild = (c = "codex" /\ ~RuntimeCA)]
    IN
    /\ At(c, "ca")
    /\ IF ValidCA(place)
       THEN job' = [job EXCEPT ![c] = [chosen EXCEPT !.pc = "config"]] /\ UNCHANGED <<cert, key, count>>
       ELSE /\ cert' = [cert EXCEPT ![place] = count.pairs + 1] /\ Counted("pairs")
            /\ job' = [job EXCEPT ![c] = [chosen EXCEPT !.pc = "key", !.caChanged = TRUE]]
            /\ UNCHANGED key
    /\ UNCHANGED <<config, worker, clientFiles, foreign, lock, saved, overtaken, interrupted>>
WriteKey(c) ==
    /\ At(c, "key") /\ key' = [key EXCEPT ![job[c].ca] = cert[job[c].ca]]
    /\ Go(c, "config")
    /\ UNCHANGED <<config, cert, worker, clientFiles, foreign, lock, count, saved, overtaken, interrupted>>

\* select_local_proxy_listen: the address there is, if the service has it or
\* nobody; or one that the system finds free.
Selectable(port, existing) ==
    IF existing # 0 /\ (Listening(existing) \/ existing \notin foreign) THEN port = existing
    ELSE Bindable(port)
\* legacy_claude_proxy_configured.
LegacyClaude == settings.proxy # 0
\* proxy_runtime_config_changed; of the credentials, which clients have one.
Changed(old, new) == old = NoConfig \/ old # new
\* update_saiai_provider_config_at, to which init_codex names no CA.
Updated(c, listen) ==
    LET kept   == IF config = NoConfig THEN {} ELSE config.keys
        legacy == IF c = "codex" /\ kept = {} /\ LegacyClaude THEN {"claude"} ELSE {}
    IN  [obsolete |-> FALSE, listen |-> listen,
         ca |-> IF c = "codex" \/ RuntimeCA THEN config.ca ELSE job[c].ca,
         keys |-> kept \cup legacy \cup {c}]
\* initialize_codex_local_proxy_at: the other client's credential goes.
Rebuilt(listen) == [obsolete |-> FALSE, listen |-> listen, ca |-> "saiai", keys |-> {"codex"}]
WriteConfig(c) ==
    /\ At(c, "config") /\ (c = "claude" \/ job[c].rebuild \/ config # NoConfig)
    /\ \E port \in Port :
          LET new == IF job[c].rebuild THEN Rebuilt(port) ELSE Updated(c, port) IN
          /\ Selectable(port, IF job[c].rebuild \/ config = NoConfig THEN 0 ELSE config.listen)
          /\ config' = new
          /\ job' = [job EXCEPT ![c].pc = "load", ![c].listen = port, ![c].ca = IF c = "codex" THEN new.ca ELSE @,
                                ![c].changed = job[c].rebuild \/ Changed(config, new)]
    /\ UNCHANGED <<cert, key, worker, clientFiles, foreign, lock, count, saved, overtaken, interrupted>>

\* The configuration that init_codex found valid has gone: obsolete.
Refuse(c) ==
    /\ At(c, "config") /\ c = "codex" /\ ~job[c].rebuild /\ config = NoConfig /\ Leave(c, "failed")
    /\ UNCHANGED <<config, cert, key, worker, clientFiles, foreign, count, saved, overtaken, interrupted>>

\* The client's own files: Claude's settings are loaded, changed and written.
LoadFiles(c) ==
    /\ At(c, "load") /\ job' = [job EXCEPT ![c].pc = "files", ![c].edit = settings.edit]
    /\ UNCHANGED <<config, cert, key, worker, clientFiles, foreign, lock, count, saved, overtaken, interrupted>>
WriteFiles(c) ==
    /\ At(c, "files") /\ Go(c, "start")
    /\ IF c = "claude"
       THEN /\ settings' = [proxy |-> job[c].listen, ca |-> job[c].ca, legacy |-> FALSE, edit |-> job[c].edit]
            /\ UNCHANGED <<dotenv, toml>>
       ELSE /\ dotenv' = [proxy |-> job[c].listen, ca |-> job[c].ca] /\ toml' = FALSE
            /\ UNCHANGED settings
    /\ UNCHANGED <<config, cert, key, worker, foreign, lock, count, saved, overtaken, interrupted>>

\* run_local_proxy of a new worker: it reads the configuration and the CA and
\* looks whether its address is free.
Spawned == IF RuntimeCA /\ config.listen \notin foreign
           THEN [pc |-> "migrate", listen |-> config.listen, ca |-> cert[config.ca], read |-> settings.edit]
           ELSE NoWorker
\* start_managed_service_after_initialization.
\* BUG: a new CA under the old path is not a reason.
RefreshForConfig(c) == job[c].changed \/ ~Active \/ ~Reachable
MustRefresh(c) == job[c].changed \/ job[c].caChanged \/ ~Active \/ ~Reachable
StartAfterInit(c) ==
    /\ At(c, "start")
    /\ IF MustRefresh(c)
       THEN worker' = Spawned /\ Go(c, "await") /\ interrupted' = FALSE /\ UNCHANGED lock
       ELSE Leave(c, "done") /\ UNCHANGED <<worker, interrupted>>
    /\ UNCHANGED <<config, cert, key, clientFiles, foreign, count, saved, overtaken>>
\* The start waits until the worker is reachable, or has gone; a worker that
\* only waits for this init would be given up.
Await(c) ==
    /\ At(c, "await")
    /\ \/ worker.pc = "serving" /\ Leave(c, "done")
       \/ worker.pc = "none" /\ Leave(c, "failed")
    /\ UNCHANGED <<config, cert, key, worker, clientFiles, foreign, count, saved, overtaken, interrupted>>
\* An init is killed or cannot write.
Fail(c) ==
    /\ job[c].pc \notin {"idle", "done", "failed"} /\ count.mishaps < MaxMishaps /\ Counted("mishaps")
    /\ Leave(c, "failed") /\ interrupted' = (interrupted \/ job[c].changed \/ job[c].caChanged)
    /\ UNCHANGED <<config, cert, key, worker, clientFiles, foreign, saved, overtaken>>
-----------------------------------------------------------------------------
(* The worker *)

\* saiai start or restart: it does not wait for the initialization lock.
StartService ==
    /\ Beside /\ Counted("starts")
    /\ \A c \in Client : ~At(c, "await")
    /\ worker' = Spawned /\ interrupted' = FALSE
    /\ lock' = IF lock = "worker" THEN "nobody" ELSE lock
    /\ UNCHANGED <<config, cert, key, clientFiles, foreign, job, saved, overtaken>>

\* migrate_legacy_claude_no_proxy_for_instance: never waits for an init.
\* BUG: lock_initialization instead of try_lock_initialization.
WaitIfLocked == FALSE
SkipIfLocked == lock # "nobody"
MigrationDue == settings.legacy /\ settings.proxy = worker.listen
Migrate ==
    /\ worker.pc = "migrate"
    /\ \/ SkipIfLocked /\ worker' = [worker EXCEPT !.pc = "bind"] /\ UNCHANGED lock
       \/ /\ lock = "nobody"
          /\ IF MigrationDue
             THEN worker' = [worker EXCEPT !.pc = "replace", !.read = settings.edit] /\ lock' = "worker"
             ELSE worker' = [worker EXCEPT !.pc = "bind"] /\ UNCHANGED lock
    /\ UNCHANGED <<config, cert, key, clientFiles, foreign, job, count, saved, overtaken, interrupted>>
\* The file is compared, backed up and written; the user's version is left.
\* BUG: it is not compared.
SameOrNot == TRUE
Same == settings.edit = worker.read
Replace ==
    /\ worker.pc = "replace" /\ lock' = "nobody"
    /\ worker' = [worker EXCEPT !.pc = "bind", !.read = 0]
    /\ settings' = IF Same THEN [settings EXCEPT !.legacy = FALSE, !.edit = worker.read] ELSE settings
    /\ UNCHANGED <<config, cert, key, dotenv, toml, foreign, job, count, saved, overtaken, interrupted>>
\* migrate_legacy_codex_system_proxy, where .env has this worker's block, and
\* then the real bind.
Bind ==
    /\ worker.pc = "bind"
    /\ worker' = IF worker.listen \in foreign THEN NoWorker ELSE [worker EXCEPT !.pc = "serving", !.read = 0]
    /\ toml' = (toml /\ ~(lock = "nobody" /\ dotenv.proxy = worker.listen /\ dotenv.ca = config.ca))
    /\ UNCHANGED <<config, cert, key, settings, dotenv, foreign, lock, job, count, saved, overtaken, interrupted>>
-----------------------------------------------------------------------------
(* What goes wrong from outside *)

Mishap == count.mishaps < MaxMishaps /\ Counted("mishaps")
LoseCA(place) ==
    /\ Mishap
    /\ \/ cert[place] # 0 /\ cert' = [cert EXCEPT ![place] = 0] /\ UNCHANGED key
       \/ key[place] # 0 /\ key' = [key EXCEPT ![place] = 0] /\ UNCHANGED cert
    /\ UNCHANGED <<config, worker, clientFiles, foreign, lock, job, saved, overtaken, interrupted>>
LoseConfig ==
    /\ Mishap /\ config # NoConfig /\ config' = NoConfig
    /\ UNCHANGED <<cert, key, worker, clientFiles, foreign, lock, job, saved, overtaken, interrupted>>
Claim(port) ==
    /\ Mishap /\ Bindable(port) /\ foreign' = foreign \cup {port}
    /\ UNCHANGED <<config, cert, key, worker, clientFiles, lock, job, saved, overtaken, interrupted>>
WorkerDies ==
    /\ Mishap /\ Active /\ worker' = NoWorker /\ lock' = IF lock = "worker" THEN "nobody" ELSE lock
    /\ UNCHANGED <<config, cert, key, clientFiles, foreign, job, saved, overtaken, interrupted>>
\* Claude Code, or the user, rewrites settings.json.
EditSettings ==
    /\ Beside /\ Counted("edits")
    /\ settings' = [settings EXCEPT !.edit = count.edits + 1]
    /\ overtaken' = IF At("claude", "files") THEN overtaken \cup {count.edits + 1} ELSE overtaken
    /\ UNCHANGED <<config, cert, key, worker, dotenv, toml, foreign, lock, job, saved, interrupted>>
-----------------------------------------------------------------------------
\* A new installation, or what an older client left: its CA beside Claude's
\* settings, and a configuration of this or of an obsolete layout.
Init ==
    /\ \/ /\ config = NoConfig /\ cert = [p \in Place |-> 0] /\ settings = [proxy |-> 0, ca |-> "claude", legacy |-> FALSE, edit |-> 0]
          /\ toml = FALSE
       \/ \E obsolete \in BOOLEAN : LET port == CHOOSE p \in Port : TRUE IN
             /\ config = [obsolete |-> obsolete, listen |-> port, ca |-> "claude", keys |-> {}]
             /\ cert = [p \in Place |-> IF p = "claude" THEN 1 ELSE 0]
             /\ settings = [proxy |-> port, ca |-> "claude", legacy |-> TRUE, edit |-> 0]
             /\ toml = TRUE
    /\ key = cert /\ worker = NoWorker /\ dotenv = Unset
    /\ foreign = {} /\ lock = "nobody" /\ job = [c \in Client |-> Idle]
    /\ count = [inits |-> 0, starts |-> 0, mishaps |-> 0, edits |-> 0, pairs |-> 1]
    /\ saved = {} /\ overtaken = {} /\ interrupted = FALSE

InitStep(c) == EnsureCA(c) \/ WriteKey(c) \/ WriteConfig(c) \/ Refuse(c) \/ LoadFiles(c) \/ WriteFiles(c)
               \/ StartAfterInit(c) \/ Await(c)
WorkerStep == Migrate \/ Replace \/ Bind
Next == \/ \E c \in Client : Begin(c) \/ InitStep(c) \/ Fail(c)
        \/ StartService \/ WorkerStep
        \/ \E place \in Place : LoseCA(place)
        \/ \E port \in Port : Claim(port)
        \/ LoseConfig \/ WorkerDies \/ EditSettings

\* A command that runs, and the worker, go on.
Spec == Init /\ [][Next]_vars /\ WF_vars(WorkerStep) /\ \A c \in Client : WF_vars(InitStep(c))

(***************************************************************************)
(* Properties.                                                             *)
(***************************************************************************)
\* A client connects to the worker and trusts the CA that it signs with.
Works(file) == /\ worker.pc = "serving" /\ file.proxy = worker.listen
               /\ worker.ca # 0 /\ cert[file.ca] = worker.ca
ClientWorks(c) == Works(IF c = "claude" THEN settings ELSE dotenv)

\* What Claude Code or the user last wrote into settings.json is there or in a
\* backup, but for what was written while init had the file in memory.
SettingsSurvive == count.edits \in {settings.edit} \cup saved \cup overtaken

\* No init waits for ever: the worker it starts does not wait for its lock.
InitsEnd == \A c \in Client : []<>(job[c].pc \in {"idle", "done", "failed"})
=============================================================================

----------------------------- MODULE Doctor -----------------------------
(***************************************************************************)
(* saiai doctor (src/tools/saiai-cli/src/main.rs, codex_diagnostics.rs):   *)
(* what it says of a state of ClientConfiguration, which it reads in one   *)
(* step, and of the surroundings of the process, which are values that it  *)
(* is asked about.  A complaint has a level and the label it is printed    *)
(* under; the lines that say OK are left out.  The editor's, the Desktop's *)
(* and the upstream's checks have modules of their own subject.            *)
(***************************************************************************)
EXTENDS ClientConfiguration

Complaint(wrong, level, label) == IF wrong THEN {[level |-> level, label |-> label]} ELSE {}
Error(wrong, label) == Complaint(wrong, "error", label)
Warn(wrong, label)  == Complaint(wrong, "warn", label)
\* DoctorReport.finish: only errors fail.
Fails(complaints) == \E complaint \in complaints : complaint.level = "error"
-----------------------------------------------------------------------------
(* Variables that go around SAIAI *)

\* Where Claude Code is started from: the shell that runs doctor, a new login
\* shell, the session.  What its variables name: a proxy (0 for none, and
\* DEFAULT_LOCAL_PROXY_LISTEN where there is no configuration), an
\* ANTHROPIC_BASE_URL, and in NO_PROXY a loopback address and Anthropic's API.
NoProxy == SUBSET {"local", "api"}
Bare == [proxy |-> 0, direct |-> FALSE, bypass |-> {}]
Layers == [proxy : Port \cup {0}, direct : BOOLEAN, bypass : NoProxy]
DefaultListen == CHOOSE port \in Port : TRUE
ExpectedListen == IF config = NoConfig THEN DefaultListen ELSE config.listen

\* proxy_value_conflicts: of NO_PROXY, only whether it has a loopback address.
ProxyConflicts(layer) == \/ layer.proxy \notin {0, ExpectedListen}
                         \/ layer.bypass # {} /\ "local" \notin layer.bypass
NamesProxies(layer) == layer.proxy # 0 \/ layer.bypass # {}
ShellSays(layer) == Warn(layer.direct, "shell env") \cup Warn(ProxyConflicts(layer), "proxy shell env")
\* Files and the manager of the session: any such variable is one too many.
ProfileSays(layer) == Warn(layer.direct, "profile env") \cup Warn(NamesProxies(layer), "proxy profile env")
SessionSays(layer) == Warn(layer.direct, "systemd user env") \cup Warn(NamesProxies(layer), "proxy systemd env")
EnvironmentSays(e) == ShellSays(e.shell) \cup ProfileSays(e.profile)
                      \cup IF e.manager THEN SessionSays(e.session) ELSE {}
-----------------------------------------------------------------------------
(* The configuration and the service *)

ConfiguredCAExists == cert[config.ca] # 0
RouteSays(c) == Warn(c \notin config.keys, c)
ConfigSays ==
    Warn(config.obsolete, "config version")
    \cup Warn(config.listen \in foreign, "listen owner")
    \cup Warn(~Reachable, "local proxy")
    \cup Error(~ConfiguredCAExists, "configured CA")
\* BUG: a connection is enough.
ProbeConnects == TRUE
\* load_ca_root_store: the handshake ends where the worker signs with what the
\* file holds.
ProbeTrusts == ConfiguredCAExists /\ Listening(config.listen) /\ worker.ca = cert[config.ca]
Probe == Warn(~Reachable, "local proxy MITM") \cup Error(Reachable /\ ~ProbeTrusts, "local proxy MITM")
ServiceSays == Warn(~Active, "service")
-----------------------------------------------------------------------------
(* The files of the clients *)

\* The settings hold the credential of the time they were written.
TokenMatches == config = NoConfig \/ config.keys = {} \/ "claude" \in config.keys
ClaudeSettingsSay ==
    IF settings.proxy = 0 THEN Error(TRUE, "Claude settings")
    ELSE Error(settings.proxy # ExpectedListen, "https_proxy")
         \cup Warn(config # NoConfig /\ settings.ca # config.ca, "NODE_EXTRA_CA_CERTS")
         \cup Error(cert[settings.ca] = 0, "NODE_EXTRA_CA_CERTS")
         \cup Error(~TokenMatches, "CLAUDE_CODE_OAUTH_TOKEN")
\* What the user has put into the environment of the settings since init wrote
\* it: no_proxy, and an upper-case proxy (0 for none).  init writes a list with
\* the loopback addresses and takes the upper-case ones out.
Kept == [bypass |-> {"local"}, upper |-> 0]
Variables == [bypass : NoProxy, upper : Port \cup {0}]
ClaudeVariablesSay(own) ==
    Complaint("local" \notin own.bypass, IF own.bypass = {} THEN "error" ELSE "warn", "no_proxy")
    \cup Warn(own.upper # 0, "Claude proxy case")
\* Of .env only that it has an entry, not which.
CodexFilesSay == Error(dotenv.proxy = 0, "Codex .env") \cup Warn(config = NoConfig, "Codex route")
-----------------------------------------------------------------------------
(* The codex command and its catalog of models *)

Versions == {"none", "odd", "old", "new"}
Caches   == [version : Versions, fetched : {"missing", "future", "fresh", "stale"}, models : {"none", "broken", "with", "without"}]
UsualCache == [version |-> "new", fetched |-> "fresh", models |-> "with"]
Commands == [found : BOOLEAN, copies : 0 .. 2, version : Versions, provider : {"openai", "other"}, model : BOOLEAN, cache : Caches]
UsualCommand == [found |-> TRUE, copies |-> 1, version |-> "new", provider |-> "openai", model |-> TRUE, cache |-> UsualCache]

\* "odd" is a version that has no three numbers.
SupportsTimeToggle(version) == version = "new"
CachedModel(cache, version) ==
    IF cache.version # version THEN "VersionMismatch"
    ELSE IF cache.fetched # "fresh" THEN "Stale"
    ELSE CASE cache.models \in {"none", "broken"} -> "Unavailable"
           [] cache.models = "with" -> "Present"
           [] OTHER -> "Missing"
ConfiguredModel(command) == command.model /\ command.provider = "openai"
CatalogSays(command) ==
    IF ~command.found THEN Warn(TRUE, "Codex CLI")
    ELSE Warn(command.copies > 1, "Codex CLI installations")
         \cup IF command.version = "none" THEN Warn(TRUE, "Codex CLI version")
              ELSE Warn(~SupportsTimeToggle(command.version), "Codex time reporting support")
                   \cup Warn(ConfiguredModel(command) /\ CachedModel(command.cache, command.version) # "Present",
                             "Codex model metadata")
-----------------------------------------------------------------------------
\* doctor of one client: of the surroundings, and of what init set up.
SaysAround(c, e) == IF c = "claude" THEN EnvironmentSays(e) \cup ClaudeVariablesSay(e.own) ELSE CatalogSays(e.command)
SaysInside(c) ==
    Error(config = NoConfig, "config")
    \cup (IF c = "claude" THEN ClaudeSettingsSay ELSE CodexFilesSay)
    \cup ServiceSays
    \cup IF config = NoConfig THEN {} ELSE ConfigSays \cup RouteSays(c) \cup Error(~RuntimeCA, "TLS certificate") \cup Probe
Says(c, e) == SaysAround(c, e) \cup SaysInside(c)

\* The usual surroundings; those that differ in where Claude Code is started, or
\* in what the user put into its settings; and those with another codex command.
Usual == [shell |-> Bare, profile |-> Bare, session |-> Bare, manager |-> TRUE, own |-> Kept, command |-> UsualCommand]
Starts == {[Usual EXCEPT ![where] = layer] : where \in {"shell", "profile", "session"}, layer \in Layers}
          \cup {[Usual EXCEPT !.manager = FALSE]} \cup {[Usual EXCEPT !.own = own] : own \in Variables}
Installed ==
    {[Usual EXCEPT !.command.version = version] : version \in Versions}
    \cup {[Usual EXCEPT !.command.cache = cache] : cache \in Caches}
    \cup {[Usual EXCEPT !.command.found = FALSE], [Usual EXCEPT !.command.copies = 2]}
-----------------------------------------------------------------------------
(***************************************************************************)
(* Properties.                                                             *)
(***************************************************************************)
\* What Claude Code and Codex then do.  An upper-case proxy variable is used
\* instead of the lower-case one of the settings, and none for the hosts on the list.
ProxyUsed(layer, own) == IF layer.proxy # 0 THEN layer.proxy ELSE IF own.upper # 0 THEN own.upper ELSE settings.proxy
Bypassed(layer, own) == IF layer.bypass # {} THEN layer.bypass ELSE own.bypass
ClaudeReaches(layer, own) ==
    /\ ~layer.direct /\ "api" \notin Bypassed(layer, own)
    /\ Works([settings EXCEPT !.proxy = ProxyUsed(layer, own)])
Launches(e) == {e.shell, e.profile} \cup IF e.manager THEN {e.session} ELSE {}
\* saiai codex, which names config.json's proxy and CA to its child.
CodexLaunchWorks == config # NoConfig /\ Works([proxy |-> config.listen, ca |-> config.ca])
ModelIsKnown(command) == command.cache.models = "with" /\ command.cache.version = command.version

\* A doctor that has nothing to say is right: Claude Code reaches the worker
\* and trusts it, from wherever it is started; and so does Codex as saiai
\* codex starts it, with a model that its catalog knows.  Excepted is a list that
\* has a loopback address, for which doctor looks, and Anthropic's API beside it.
SilenceIsTrue ==
    /\ SaysInside("claude") = {} =>
           \A e \in Starts : SaysAround("claude", e) = {} =>
               \A layer \in Launches(e) : ClaudeReaches(layer, e.own) \/ Bypassed(layer, e.own) = {"local", "api"}
    /\ SaysInside("codex") = {} =>
           CodexLaunchWorks /\ \A e \in Installed : SaysAround("codex", e) = {} => ModelIsKnown(e.command)

\* An init that nothing disturbs succeeds, its client then works and doctor
\* has no complaint, whatever was lost, taken or left half done before it, and
\* whoever restarts the service meanwhile.  Excepted is a worker that runs
\* since before an init that failed behind its first write: the repeated init
\* finds nothing changed.
InitEndsHealthy ==
    [][\A c \in Client : /\ job[c].pc \in {"start", "await"} /\ job'[c].pc \in {"done", "failed"}
                         /\ job[c].since = count'.mishaps
                         => /\ job'[c].pc = "done"
                            /\ ~interrupted' => ClientWorks(c)' /\ Says(c, Usual)' = {}]_vars
=============================================================================

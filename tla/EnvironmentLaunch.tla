----------------------------- MODULE EnvironmentLaunch -----------------------------
(***************************************************************************)
(* Which SAIAI environment a command acts on (environment_scope.rs), and   *)
(* the launchers saiai claude and saiai codex (claude_launcher.rs and      *)
(* main.rs in src/tools/saiai-cli/src), which find, check or start the     *)
(* proxy of that environment and then run the client.                      *)
(*                                                                         *)
(* A product directory that CLAUDE_CONFIG_DIR or CODEX_HOME names has an   *)
(* environment of its own; without one there is the root's.  init and the  *)
(* commands of the service act in one step here; ClientConfiguration and   *)
(* BackgroundService take them apart.  A CA is named by its environment.   *)
(***************************************************************************)
EXTENDS Naturals, FiniteSets, Sequences

CONSTANTS Dir,         \* product directories other than the default ones
          Port, None,
          Paths,       \* what the directories of PATH have, in their order
          MaxCommands, \* bound on commands beside the launch
          MaxClaims    \* bound on what other programs do with the ports

EnvironmentAssumption ==
    /\ Port # {} /\ None \notin Port /\ None \notin {"claude", "codex"} /\ MaxCommands \in Nat /\ MaxClaims \in Nat /\ "home" \notin Dir /\ "unset" \notin Dir

Product == {"claude", "codex"}
Environment == [product : Product, dir : Dir] \cup {[product |-> "root", dir |-> "home"]}
Root == [product |-> "root", dir |-> "home"]
Isolated(e) == e # Root
Refused == [product |-> "refused", dir |-> "home"]

VARIABLES config,   \* of each environment: [listen, keys], listen is None if there is none
          route,    \* of each product and directory: the proxy and the CA its own files name
          worker,   \* of each environment: the port its service listens on, or None
          foreign,  \* ports of other programs
          job,      \* a launch
          count     \* [commands, claims]

vars == <<config, route, worker, foreign, job, count>>

NoConfig == [listen |-> None, keys |-> {}]
NoRoute  == [proxy |-> None, ca |-> Root]
Idle == [pc |-> "idle", product |-> "claude", dir |-> "home", scope |-> Root, listen |-> None,
         started |-> FALSE, disturbed |-> FALSE, legacy |-> FALSE]
HomeOf(product, dir) == [product |-> product, dir |-> dir]
Places == [product : Product, dir : Dir \cup {"home"}]

TypeOK ==
    /\ \A e \in Environment : /\ config[e].listen \in Port \cup {None} /\ config[e].keys \subseteq Product
                              /\ worker[e] \in Port \cup {None}
    /\ \A p \in Places : route[p].proxy \in Port \cup {None} /\ route[p].ca \in Environment
    /\ foreign \subseteq Port
    /\ job.pc \in {"idle", "probe", "start", "wait", "run", "running", "failed"}
-----------------------------------------------------------------------------
(* The environment of a command *)

\* A shell: what CLAUDE_CONFIG_DIR and CODEX_HOME are.
Shells == [claude : Dir \cup {"home", "unset"}, codex : Dir \cup {"home", "unset"}]
NoSelector == Refused
\* The variable may also name the default directory.
ProductDirectory(product, shell) == IF shell[product] \in Dir THEN HomeOf(product, shell[product]) ELSE Root
\* A command of the service has no product and must not be ambiguous.
Inferred(shell) ==
    LET claude == ProductDirectory("claude", shell)
        codex  == ProductDirectory("codex", shell)
    IN  IF Isolated(claude) /\ Isolated(codex) THEN Refused ELSE IF Isolated(claude) THEN claude ELSE codex
\* --instance-dir names one; --environment a product or the default.
Resolve(product, instance, shell) ==
    IF instance # NoSelector THEN (IF product = None THEN instance ELSE Refused)
    ELSE IF product = None THEN Inferred(shell) ELSE ProductDirectory(product, shell)

\* A project that was set up before environments had their own proxies.
LegacyRouteMatches(product, dir) ==
    LET file == route[HomeOf(product, dir)] IN
    config[Root].listen # None /\ file.proxy = config[Root].listen /\ file.ca = Root

\* Which program is found: the first directory of PATH with an executable, or
\* with a shim whose script and interpreter there are.
HasNode(path) == \E i \in DOMAIN path : "node" \in path[i]
Program(path) == \E i \in DOMAIN path : "executable" \in path[i] \/ ({"shim", "script"} \subseteq path[i] /\ HasNode(path))
-----------------------------------------------------------------------------
(* The commands beside the launch *)

Listening(port) == port \in foreign \/ \E e \in Environment : worker[e] = port
Command == count.commands < MaxCommands /\ count' = [count EXCEPT !.commands = @ + 1]
           /\ job' = [job EXCEPT !.disturbed = TRUE]

\* The ports that the other environments have configured are theirs.
Reserved(e) == {config[other].listen : other \in Environment \ {e}}
Selectable(e, port) ==
    LET existing == config[e].listen IN
    IF existing # None /\ existing \notin Reserved(e) /\ (worker[e] = existing \/ ~Listening(existing))
    THEN port = existing ELSE port \notin Reserved(e) /\ ~Listening(port)
\* init and init-codex write the configuration and the client's files, and
\* leave a worker that has read them.
Initialize(product, shell) ==
    LET e == Resolve(product, NoSelector, shell)
        place == HomeOf(product, IF Isolated(e) THEN shell[product] ELSE "home")
    IN
    /\ Command
    /\ \E port \in Port :
          /\ Selectable(e, port)
          /\ config' = [config EXCEPT ![e] = [listen |-> port, keys |-> @.keys \cup {product}]]
          /\ route' = [route EXCEPT ![place] = [proxy |-> port, ca |-> e]]
          /\ worker' = [worker EXCEPT ![e] = port]
    /\ UNCHANGED foreign
\* The service reads its configuration and binds its port, or does not run.
Startable(e) == config[e].listen # None /\ (worker[e] = config[e].listen \/ ~Listening(config[e].listen))
Started(e) == IF Startable(e) THEN config[e].listen ELSE None
StartService(shell) ==
    LET e == Resolve(None, NoSelector, shell) IN
    /\ Command /\ e # Refused /\ worker' = [worker EXCEPT ![e] = Started(e)]
    /\ UNCHANGED <<config, route, foreign>>
StopService(shell) ==
    LET e == Resolve(None, NoSelector, shell) IN
    /\ Command /\ e # Refused /\ worker[e] # None /\ worker' = [worker EXCEPT ![e] = None]
    /\ UNCHANGED <<config, route, foreign>>
Claim(port) ==
    /\ count.claims < MaxClaims /\ count' = [count EXCEPT !.claims = @ + 1] /\ job' = [job EXCEPT !.disturbed = TRUE]
    /\ \/ ~Listening(port) /\ foreign' = foreign \cup {port}
       \/ port \in foreign /\ foreign' = foreign \ {port}
    /\ UNCHANGED <<config, route, worker>>
-----------------------------------------------------------------------------
(* The launch *)

Go(pc) == job' = [job EXCEPT !.pc = pc]
quiet == <<config, route, worker, foreign, count>>

\* claude_token: a credential of Claude's, or a configuration that has none of
\* either.  Codex's is checked where its requests are.
HasCredential(product, e) == product = "codex" \/ config[e].keys = {} \/ "claude" \in config[e].keys
RunLaunch(product, shell, path) ==
    LET dir   == IF shell[product] \in Dir THEN shell[product] ELSE "home"
        own   == Resolve(product, NoSelector, shell)
        legacy == Isolated(own) /\ config[own].listen = None /\ LegacyRouteMatches(product, dir)
        scope == IF legacy THEN Root ELSE own
        ready == Program(path) /\ config[scope].listen # None /\ HasCredential(product, scope)
    IN
    /\ job.pc = "idle"
    /\ job' = [Idle EXCEPT !.pc = IF ready THEN "probe" ELSE "failed", !.product = product, !.dir = dir,
                           !.scope = scope, !.listen = config[scope].listen, !.legacy = legacy]
    /\ UNCHANGED quiet
\* verify_selected_proxy_identity: the configuration still names this port, and
\* who listens there signs with its CA.
Authentic == config[job.scope].listen = job.listen /\ worker[job.scope] = job.listen
\* Only an environment of its own looks who it is.
\* BUG: nor does one that finds its proxy running.
VerifyIfStarted == Authentic \/ ~Isolated(job.scope) \/ ~job.started
Accepted == Authentic \/ ~Isolated(job.scope)
Probe ==
    /\ job.pc = "probe"
    /\ Go(IF ~Listening(job.listen) THEN "start" ELSE IF Accepted THEN "run" ELSE "failed")
    /\ UNCHANGED quiet
\* saiai start as a child, which inherits the variables and is told the
\* directory: it does not infer it again.
Pinned(shell) == Resolve(None, job.scope, shell)
StartChild(shell) ==
    LET e == IF job.product = "codex" THEN job.scope ELSE Pinned(shell) IN
    /\ job.pc = "start" /\ shell[job.product] = (IF job.dir = "home" THEN "unset" ELSE job.dir)
    /\ IF e = Refused THEN Go("failed") /\ UNCHANGED worker
       ELSE /\ worker' = [worker EXCEPT ![e] = Started(e)]
            /\ job' = [job EXCEPT !.pc = IF Started(e) = None THEN "failed" ELSE "wait", !.started = TRUE]
    /\ UNCHANGED <<config, route, foreign, count>>
Wait ==
    /\ job.pc = "wait"
    /\ Go(IF Listening(job.listen) /\ Accepted THEN "run" ELSE "failed")
    /\ UNCHANGED quiet
\* The child has the environment of the configuration that was read first.
Run == job.pc = "run" /\ Go("running") /\ UNCHANGED quiet
Finish == job.pc \in {"running", "failed"} /\ job' = Idle /\ UNCHANGED quiet
-----------------------------------------------------------------------------
\* Nothing set up, or what a client without environments left: one proxy, to
\* which the files of any directory may point.
Init ==
    /\ worker = [e \in Environment |-> None]
    /\ \/ config = [e \in Environment |-> NoConfig] /\ route = [p \in Places |-> NoRoute]
       \/ \E old \in SUBSET Places : LET port == CHOOSE p \in Port : TRUE IN   \* one port is as good as another
             /\ config = [e \in Environment |-> IF e = Root THEN [listen |-> port, keys |-> {}] ELSE NoConfig]
             /\ route = [p \in Places |-> IF p \in old THEN [proxy |-> port, ca |-> Root] ELSE NoRoute]
    /\ foreign = {} /\ job = Idle /\ count = [commands |-> 0, claims |-> 0]

LaunchStep == Probe \/ Wait \/ Run \/ Finish \/ \E shell \in Shells : StartChild(shell)
Next == \/ \E shell \in Shells : \/ \E product \in Product : \/ Initialize(product, shell)
                                                                  \/ \E path \in Paths : RunLaunch(product, shell, path)
                                 \/ StartService(shell) \/ StopService(shell)
        \/ \E port \in Port : Claim(port)
        \/ LaunchStep
Spec == Init /\ [][Next]_vars

(***************************************************************************)
(* Properties.                                                             *)
(***************************************************************************)
\* A client that runs in an environment of its own has that environment's
\* proxy, and not whoever took the port while the service was down; unless the
\* service ends in the moment before the client starts.
ReachesItsEnvironment ==
    job'.pc = "run" /\ job.pc # "run" /\ Isolated(job.scope)
    => worker[job.scope] = job.listen /\ worker[job.scope] = config[job.scope].listen

\* A launch that nobody disturbs fails only for want of a program, a
\* configuration, a credential or the port: starting the proxy out of it does
\* not depend on what else the variables name.
SucceedsUndisturbed ==
    job.pc \notin {"idle", "failed"} /\ job'.pc = "failed" /\ ~job'.disturbed
    => \/ job.listen \in foreign
       \/ \E e \in Environment \ {job.scope} : worker[e] = job.listen

\* Claude's own settings win over its environment: what a launched client's
\* files name, if they name a proxy, is what the launch gives it, unless the
\* default environment serves both clients and the other one's init moved it.
FollowsTheFiles ==
    job.pc = "run" /\ job'.pc = "running" /\ ~job.disturbed /\ (Isolated(job.scope) \/ job.dir # "home")
    => route[HomeOf(job.product, job.dir)] = [proxy |-> job.listen, ca |-> job.scope]

\* A client that starts talks to the proxy of its environment, whatever moved meanwhile.
ClientsReachTheirEnvironment == [][ReachesItsEnvironment /\ SucceedsUndisturbed /\ FollowsTheFiles]_vars
=============================================================================

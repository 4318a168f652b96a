----------------------------- MODULE MCLaunches -----------------------------
(***************************************************************************)
(* The three ways to start a client, each beside a world of its own, the   *)
(* login that two of them share with Codex and the app-server that Codex   *)
(* keeps running: a behaviour is one of EnvironmentLaunch, of              *)
(* PackagedDesktop, of IsolatedDesktop, of CodexLogin or of CodexDaemon,   *)
(* and the variables of the others stay as they are.                       *)
(***************************************************************************)
EXTENDS CodexLogin, Sequences, TLC

CONSTANTS Dir, Port, None, MaxCommands, MaxClaims,
          Launch, PackagedPort, MaxCA, MaxVersion, MaxWindows, PackagedMoves,
          Platform, Account, Bundle, IsolatedMoves,
          ServerVersion, Odd, Silent, Thread, MaxOutside, MaxRefreshes

VARIABLES part,
          config, route, worker, foreign, launch, count,
          package, windows, helpers, clock, receipt, conf, served, sys, lease, roots, starts, changes,
          platform, real, own, account, files, state, ca, nss, apps, time, moves, task,
          daemon, socket, managed, pinned, cli, restarter, refresh, recent, outside, daemonCount

\* A PATH with nothing, and one where a shim comes before an executable.
SomePaths == {<<{}>>, <<{"shim", "script"}, {"executable"}>>}
E == INSTANCE EnvironmentLaunch WITH Paths <- SomePaths, job <- launch
P == INSTANCE PackagedDesktop WITH Port <- PackagedPort, MaxMoves <- PackagedMoves, job <- starts, moves <- changes
I == INSTANCE IsolatedDesktop WITH MaxMoves <- IsolatedMoves, now <- time, job <- task
D == INSTANCE CodexDaemon WITH Version <- ServerVersion, package <- managed, helper <- restarter, count <- daemonCount

ASSUME PartsAssumption ==
    E!EnvironmentAssumption /\ P!PackagedAssumption /\ I!IsolatedAssumption
    /\ LoginAssumption /\ D!CodexDaemonAssumption

varsE == <<config, route, worker, foreign, launch, count>>
varsP == <<package, windows, helpers, clock, receipt, conf, served, sys, lease, roots, starts, changes>>
varsI == <<platform, real, own, account, files, state, ca, nss, apps, time, moves, task>>
varsD == <<daemon, socket, managed, pinned, cli, restarter, refresh, recent, outside, daemonCount>>

\* Launches of the packaged Desktop are interchangeable.
Symmetry == Permutations(Launch)
\* Bound: Codex signs in and the user edits config.toml twice altogether.
FewWrites == issued.login + issued.edit <= 2

\* One initial state of each, for the parts that rest.
RestE == E!Init /\ \A e \in E!Environment : config[e].listen = None
RestP == P!Init /\ served = None /\ lease = None
RestI == I!Init /\ platform = (CHOOSE p \in Platform : TRUE) /\ nss = None /\ real.kind = "missing" /\ own.kind = "missing"
RestL == auth = Missing /\ Init
RestD == D!Init /\ daemon = D!Down /\ ~socket /\ managed = cli /\ cli = CHOOSE v \in ServerVersion : TRUE
MCInit == \/ part = "environments" /\ E!Init /\ RestP /\ RestI /\ RestL /\ RestD
          \/ part = "packaged" /\ RestE /\ P!Init /\ RestI /\ RestL /\ RestD
          \/ part = "isolated" /\ RestE /\ RestP /\ I!Init /\ RestL /\ RestD
          \/ part = "login" /\ RestE /\ RestP /\ RestI /\ Init /\ RestD
          \/ part = "daemon" /\ RestE /\ RestP /\ RestI /\ RestL /\ D!Init
MCNext == \/ part = "environments" /\ E!Next /\ UNCHANGED <<part, varsP, varsI, vars, varsD>>
          \/ part = "packaged" /\ P!Next /\ UNCHANGED <<part, varsE, varsI, vars, varsD>>
          \/ part = "isolated" /\ I!Next /\ UNCHANGED <<part, varsE, varsP, vars, varsD>>
          \/ part = "login" /\ Next /\ UNCHANGED <<part, varsE, varsP, varsI, varsD>>
          \/ part = "daemon" /\ D!Next /\ UNCHANGED <<part, varsE, varsP, varsI, vars>>
MCSpec == MCInit /\ [][MCNext]_<<part, varsE, varsP, varsI, vars, varsD>>

\* The environment's proxy, and nobody else, serves a client that runs in an
\* environment of its own, as the client's own settings say too, and an
\* undisturbed launch fails only for a reason of its own (EnvironmentLaunch).
ClientsReachTheirEnvironment ==
    [][part = "environments" => E!ReachesItsEnvironment /\ E!SucceedsUndisturbed /\ E!FollowsTheFiles]_varsE
\* What a launch of the packaged Desktop reports is so, a Desktop that a
\* launch has started is reused by the next, and the settings of an older
\* client end with its marker (PackagedDesktop).
DesktopReportIsTrue == [][part = "packaged" => P!ReportsTheTruth /\ P!ReusesItsOwn /\ P!EndsTheLease]_varsP
\* The isolated Desktop has the best login there is, and the configuration and
\* the trust of its proxy; one packaged app runs, the one that was started
\* (IsolatedDesktop).
DesktopIsPrepared == [][part = "isolated" => I!HasTheLogin /\ I!IsPrepared /\ I!IsTheOnlyOne]_varsI
\* A refresh of Codex's daemon costs no session it knew of, goes to no older
\* version and is reported as it went (CodexDaemon).
DaemonIsRefreshed == [][part = "daemon" => D!SparesSessions /\ D!KeepsUp /\ D!ReportsTheTruth]_varsD
=============================================================================

----------------------------- MODULE CodexDaemon -----------------------------
(***************************************************************************)
(* What init-codex does with the app-server that Codex keeps running       *)
(* (src/tools/saiai-cli/src/codex_daemon.rs).  The daemon has read the     *)
(* login and the proxy when it started, so it is replaced: by its official *)
(* command, and only if it has no session loaded.  The daemon, its command *)
(* (the helper) and its updater are Codex's own and modelled from what the *)
(* code relies on; users go on opening sessions, and everything may die or *)
(* take too long at any point.                                             *)
(*                                                                         *)
(* A version is a number.  Odd ones are pre-releases, which the code does  *)
(* not compare; 0 is a version that is not reported, as by the Silent,     *)
(* older command lines.                                                    *)
(***************************************************************************)
EXTENDS Naturals, FiniteSets

CONSTANTS Version, Odd, Silent,
          Thread,       \* sessions
          MaxOutside,   \* bound on what others do to the daemon and its packages
          MaxRefreshes  \* bound on the initializations

CodexDaemonAssumption ==
    /\ Version \subseteq Nat \ {0} /\ Version # {} /\ Odd \subseteq Version /\ Silent \subseteq Version
    /\ MaxOutside \in Nat /\ MaxRefreshes \in Nat

VARIABLES daemon,   \* [up, version, backend, signed, fresh, threads]; fresh is the refresh that started it
          socket,   \* whether the control socket is in CODEX_HOME
          package,  \* the version that a restart launches
          pinned,   \* the package follows the command line, not the updater
          cli,      \* the version of the codex command
          helper,   \* the official command: "none", or how far it is
          refresh,  \* [pc, report, loaded, signed, update, after, result]
          recent,   \* history: sessions loaded since the refresh counted them
          outside,  \* history: others changed the daemon or a package since the refresh began
          count     \* [outside, refreshes]

vars == <<daemon, socket, package, pinned, cli, helper, refresh, recent, outside, count>>

NoReport == [cli |-> 0, app |-> 0, managed |-> 0]
Down     == [up |-> FALSE, version |-> 0, backend |-> "pid", signed |-> FALSE, fresh |-> 0, threads |-> {}]
Idle     == [pc |-> "idle", report |-> NoReport, loaded |-> {}, signed |-> FALSE, update |-> FALSE,
             after |-> 0, result |-> "none"]

TypeOK ==
    /\ daemon.version \in Version \cup {0} /\ daemon.threads \subseteq Thread /\ socket \in BOOLEAN
    /\ package \in Version /\ cli \in Version
    /\ helper \in {"none", "copy", "stop", "start", "confirm", "confirmed", "failed"}
    /\ refresh.pc \in {"idle", "version", "account", "threads", "decide", "helper", "version2", "account2", "threads2", "verify"}
    /\ recent \subseteq Thread
-----------------------------------------------------------------------------
(* Versions *)

Parses(v) == v # 0 /\ v \notin Odd
Older(v, w) == Parses(v) /\ Parses(w) /\ v < w
\* What a refresh launches: this command line's package for an update, or else
\* the managed package, or the running version where that is not reported.
Launched(report, update) == IF update THEN report.cli ELSE IF report.managed # 0 THEN report.managed ELSE report.app
RestartLaunchesOlder(report) == Older(Launched(report, FALSE), report.cli)
\* What a refreshed daemon must not fall below.
Floors(report) == {v \in {report.cli, report.app} : Parses(v)}
RunsAtLeast(report, v) == Parses(report.app) /\ report.app >= v
-----------------------------------------------------------------------------
(* The refresh *)

Go(pc) == refresh' = [refresh EXCEPT !.pc = pc]
End(result) == refresh' = [refresh EXCEPT !.pc = "idle", !.result = result]
At(pc) == refresh.pc = pc
quiet == <<daemon, socket, package, pinned, cli, helper, outside, count>>

Begin ==
    /\ At("idle") /\ count.refreshes < MaxRefreshes
    /\ refresh' = [Idle EXCEPT !.pc = "version"] /\ count' = [count EXCEPT !.refreshes = @ + 1]
    /\ recent' = {} /\ outside' = FALSE
    /\ UNCHANGED <<daemon, socket, package, pinned, cli, helper>>

Shown(v) == IF cli \in Silent THEN 0 ELSE v
Reported == [cli |-> Shown(cli), app |-> Shown(daemon.version), managed |-> Shown(package)]
\* The daemon's version command: it fails where none runs, and whenever else it
\* likes.  A socket that refuses connections is one that was left behind.
ReadVersion ==
    /\ refresh.pc \in {"version", "version2"}
    /\ \/ (~socket \/ ~daemon.up) /\ End(IF At("version") THEN "Absent" ELSE IF refresh.update THEN "UpdateApplied" ELSE "RestartFailed")
       \/ socket /\ daemon.up
          /\ \/ refresh' = [refresh EXCEPT !.pc = IF At("version") THEN "account" ELSE "account2",
                                           !.report = IF At("version") THEN Reported ELSE @,
                                           !.after = IF At("version2") THEN Reported.app ELSE @]
             \/ End(IF At("version2") /\ refresh.update THEN "UpdateApplied" ELSE "RestartFailed")
    /\ UNCHANGED <<quiet, recent>>
\* The control connection: the account, and last the sessions.
ReadAccount ==
    /\ refresh.pc \in {"account", "account2"}
    /\ \/ daemon.up /\ refresh' = [refresh EXCEPT !.pc = IF At("account") THEN "threads" ELSE "threads2",
                                                  !.signed = daemon.signed]
       \/ End(IF At("account2") /\ refresh.update THEN "UpdateApplied" ELSE "RestartFailed")
    /\ UNCHANGED <<quiet, recent>>
\* BUG: sessions without a running turn do not count.
IgnoreIdle == {}
Counted == daemon.threads
ReadThreads ==
    /\ refresh.pc \in {"threads", "threads2"}
    /\ \/ /\ daemon.up
          /\ refresh' = [refresh EXCEPT !.pc = IF At("threads") THEN "decide" ELSE "verify", !.loaded = Counted]
          /\ recent' = {}
       \/ End(IF At("threads2") /\ refresh.update THEN "UpdateApplied" ELSE "RestartFailed") /\ UNCHANGED recent
    /\ UNCHANGED quiet

DowngradesTo(report) == Older(Launched(report, RestartLaunchesOlder(report)), report.app)
Decide ==
    /\ At("decide")
    /\ LET report == refresh.report
           update == RestartLaunchesOlder(report)
       IN  IF DowngradesTo(report) THEN End("NewerRunning") /\ UNCHANGED helper
           ELSE IF refresh.loaded # {} THEN End("Deferred") /\ UNCHANGED helper
           ELSE IF daemon.backend # "pid" THEN End("RestartFailed") /\ UNCHANGED helper
           ELSE /\ refresh' = [refresh EXCEPT !.pc = "helper", !.update = update]
                /\ helper' = IF update THEN "copy" ELSE "stop"
    /\ UNCHANGED <<daemon, socket, package, pinned, cli, recent, outside, count>>
\* The helper confirms or fails; at the deadline it is killed, never the daemon.
AwaitHelper ==
    /\ At("helper")
    /\ \/ helper = "confirmed" /\ Go("version2")
       \/ helper # "confirmed" /\ End(IF refresh.update THEN "UpdateUnconfirmed" ELSE "RestartFailed")
    /\ helper' = "none"
    /\ UNCHANGED <<daemon, socket, package, pinned, cli, recent, outside, count>>
Verified == refresh.signed /\ \A floor \in Floors(refresh.report) : RunsAtLeast([refresh.report EXCEPT !.app = refresh.after], floor)
Verify ==
    /\ At("verify")
    /\ End(IF ~Verified THEN (IF refresh.update THEN "UpdateApplied" ELSE "RestartFailed")
           ELSE IF refresh.update THEN "Updated" ELSE "Restarted")
    /\ UNCHANGED <<quiet, recent>>
-----------------------------------------------------------------------------
(* The official command, with the environment of the new configuration *)

Advance(pc) == helper' = pc
CopyPackage ==
    /\ helper = "copy" /\ package' = cli /\ pinned' = TRUE /\ Advance("stop")
    /\ UNCHANGED <<daemon, socket, cli, refresh, recent, outside, count>>
StopDaemon ==
    /\ helper = "stop" /\ daemon' = Down /\ socket' = FALSE /\ Advance("start")
    /\ UNCHANGED <<package, pinned, cli, refresh, recent, outside, count>>
StartDaemon ==
    /\ helper = "start" /\ ~daemon.up /\ Advance("confirm") /\ socket' = TRUE
    /\ \E signed \in BOOLEAN :
          daemon' = [Down EXCEPT !.up = TRUE, !.version = package, !.signed = signed, !.fresh = count.refreshes]
    /\ UNCHANGED <<package, pinned, cli, refresh, recent, outside, count>>
Confirm ==
    /\ helper = "confirm" /\ Advance("confirmed")
    /\ UNCHANGED <<daemon, socket, package, pinned, cli, refresh, recent, outside, count>>
\* It fails, or does not know the command.
FailHelper ==
    /\ helper \in {"copy", "stop", "start", "confirm"} /\ Advance("failed")
    /\ UNCHANGED <<daemon, socket, package, pinned, cli, refresh, recent, outside, count>>
-----------------------------------------------------------------------------
(* Users, the updater and the system *)

OpenThread(t) ==
    /\ daemon.up /\ t \notin daemon.threads
    /\ daemon' = [daemon EXCEPT !.threads = @ \cup {t}] /\ recent' = recent \cup {t}
    /\ UNCHANGED <<socket, package, pinned, cli, helper, refresh, outside, count>>
CloseThread(t) ==
    /\ t \in daemon.threads
    /\ daemon' = [daemon EXCEPT !.threads = @ \ {t}] /\ recent' = recent \ {t}
    /\ UNCHANGED <<socket, package, pinned, cli, helper, refresh, outside, count>>
Outside == count.outside < MaxOutside /\ count' = [count EXCEPT !.outside = @ + 1] /\ outside' = TRUE
UpgradeCli(v) ==
    /\ Outside /\ v > cli /\ cli' = v
    /\ UNCHANGED <<daemon, socket, package, pinned, helper, refresh, recent>>
UpgradePackage(v) ==
    /\ Outside /\ ~pinned /\ v > package /\ package' = v
    /\ UNCHANGED <<daemon, socket, pinned, cli, helper, refresh, recent>>
\* A daemon that dies leaves its socket behind.
Die ==
    /\ Outside /\ daemon.up /\ daemon' = Down
    /\ UNCHANGED <<socket, package, pinned, cli, helper, refresh, recent>>
StartByUser ==
    /\ Outside /\ ~daemon.up /\ socket' = TRUE
    /\ \E signed \in BOOLEAN, backend \in {"pid", "other"} :
          daemon' = [Down EXCEPT !.up = TRUE, !.version = package, !.signed = signed, !.backend = backend]
    /\ UNCHANGED <<package, pinned, cli, helper, refresh, recent>>
-----------------------------------------------------------------------------
Init ==
    /\ package \in Version /\ cli \in Version /\ pinned = FALSE
    /\ \/ daemon = Down /\ socket \in BOOLEAN
       \/ /\ socket = TRUE
          /\ \E v \in Version, backend \in {"pid", "other"} :
                daemon = [Down EXCEPT !.up = TRUE, !.version = v, !.backend = backend]
    /\ helper = "none" /\ refresh = Idle /\ recent = {} /\ outside = FALSE
    /\ count = [outside |-> 0, refreshes |-> 0]

RefreshStep == ReadVersion \/ ReadAccount \/ ReadThreads \/ Decide \/ AwaitHelper \/ Verify
HelperStep == CopyPackage \/ StopDaemon \/ StartDaemon \/ Confirm \/ FailHelper
Next == \/ Begin \/ RefreshStep \/ HelperStep
        \/ \E t \in Thread : OpenThread(t) \/ CloseThread(t)
        \/ \E v \in Version : UpgradeCli(v) \/ UpgradePackage(v)
        \/ Die \/ StartByUser
Spec == Init /\ [][Next]_vars

(***************************************************************************)
(* Properties.                                                             *)
(***************************************************************************)
\* A refresh costs no session that was loaded when it asked for them.  Codex
\* has no command that restarts only an idle daemon: those that were loaded
\* since may be lost.
SparesSessions == helper = "stop" /\ helper' = "start" => daemon.threads \subseteq recent

\* A refresh replaces no app-server by an older one, nor leaves it older than
\* the command line, where the versions can be compared and nobody else
\* changed them meanwhile.
KeepsUp ==
    helper = "start" /\ helper' = "confirm" /\ ~outside
        => \A v \in Floors(refresh.report) : Parses(package) => daemon'.version >= v

\* What init-codex says of the daemon is so, if nobody else changes it: that it
\* was restarted or updated, that it has the new proxy, that no package was
\* changed or that it was.
ReportsTheTruth ==
    ~At("idle") /\ refresh'.pc = "idle" /\ ~outside =>
        /\ refresh'.result = "Absent" => ~daemon.up
        /\ refresh'.result \in {"Restarted", "Updated"} =>
               /\ daemon.up /\ daemon.fresh = count.refreshes /\ daemon.signed
               /\ \A v \in Floors(refresh.report) : daemon.version >= v
        /\ refresh'.result \in {"Updated", "UpdateApplied"} => package = cli /\ pinned
        /\ refresh'.result \in {"NewerRunning", "Deferred"} => daemon.up /\ daemon.fresh # count.refreshes

\* A refresh costs no session it knew of, goes to no older version and reports what happened.
DaemonIsRefreshed == [][SparesSessions /\ KeepsUp /\ ReportsTheTruth]_vars
=============================================================================

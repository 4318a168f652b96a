----------------------------- MODULE PackagedDesktop -----------------------------
(***************************************************************************)
(* saiai desktop codex with the Desktop package of the Windows Store       *)
(* (run_windows_packaged_desktop in main.rs, windows_desktop_runtime.rs    *)
(* and windows_desktop_inspect.ps1 in src/tools/saiai-cli/src).            *)
(*                                                                         *)
(* Windows starts the package, so the launcher can only ask for arguments  *)
(* and look at what runs: the package, the processes, and an instance      *)
(* record of the window that an earlier launch had started.  Beside it the *)
(* user opens and closes windows, the Store updates the package, init      *)
(* moves the proxy or its CA, and the proxy stops.                         *)
(***************************************************************************)
EXTENDS Naturals, Sequences, FiniteSets

CONSTANTS Launch,      \* launches, which may overlap
          Port, None,
          MaxCA,       \* CAs are 1..MaxCA, each new one higher
          MaxVersion,  \* of the package
          MaxWindows,  \* bound on windows that are ever opened
          MaxMoves     \* bound on what happens beside the launches

PackagedAssumption ==
    /\ Port # {} /\ {MaxCA, MaxVersion, MaxWindows} \subseteq Nat \ {0} /\ MaxMoves \in Nat
    /\ None \notin Port /\ None \notin [port : Port, ca : 1..MaxCA]

CA == 1..MaxCA
Version == 1..MaxVersion

VARIABLES package, \* what is installed: [version, ready]
          windows, \* [started, native, proxy, pin, apart, version]; None for arguments that are not there
          helpers, \* a process without a window is left
          clock,   \* of the starts of the windows
          receipt, \* instance.json: [version, profile, window], or None
          conf,    \* config.json, the CA file and the managed .env: [port, ca]
          served,  \* [port, ca] of the running proxy, or None
          sys,     \* the system's proxy settings: [enable, server, auto]
          lease,   \* the marker of a client that had changed them: the previous settings, or None
          roots,   \* that client's CA is trusted
          job, moves

vars == <<package, windows, helpers, clock, receipt, conf, served, sys, lease, roots, job, moves>>
world == <<package, windows, helpers, clock, conf, served, sys, lease, roots, moves>>

\* apart: with a --user-data-dir of its own, one of the unsafe overrides.
Window == [started : 1..MaxWindows, native : BOOLEAN, proxy : Port \cup {None}, pin : CA \cup {None},
           apart : BOOLEAN, version : Version]
Profile == [port : Port, ca : CA]
Idle == [pc |-> "idle", listen |-> None, package |-> None, binding |-> None, actors |-> FALSE, refreshed |-> FALSE,
         profile |-> None, receipt |-> None, reuse |-> FALSE, spki |-> None, step |-> 0,
         from |-> 0, observed |-> None, began |-> 0, looked |-> 0]

TypeOK ==
    /\ package.version \in Version /\ package.ready \in BOOLEAN
    /\ windows \subseteq Window /\ Cardinality({w \in windows : ~w.apart}) <= 1
    /\ receipt # None => receipt.window \in Window /\ receipt.profile \in Profile
    /\ conf \in Profile /\ served \in Profile \cup {None}
    /\ \A l \in Launch : job[l].pc \in {"idle", "initial", "lock", "again", "proxy", "pins", "lease", "before", "activate",
                                        "observe", "settle", "write", "done", "failed"}
-----------------------------------------------------------------------------
(* The observer *)

Actors == windows # {} \/ helpers
\* The script: why it refuses, or "ok".
Reads(version, noActors) ==
    IF ~package.ready THEN "official_package_not_ready"
    ELSE IF package.version # version THEN "official_package_root_changed"
    ELSE IF noActors /\ Actors THEN "package_refresh_requires_no_actors"
    ELSE IF \E w \in windows : w.version # version THEN "unknown_or_foreign_actor" ELSE "ok"
\* Only once, before any process was seen, a package that was updated is taken
\* in place of the one that was resolved.
Refreshes(j) == /\ Reads(j.package, FALSE) = "official_package_root_changed"
                /\ ~j.refreshed /\ ~j.actors /\ package.version > j.package /\ Reads(package.version, TRUE) = "ok"
Observable(j) == Refreshes(j) \/ (Reads(j.package, FALSE) = "ok" /\ j.binding \in {None, package.version})
Observed(j) == [j EXCEPT !.package = package.version, !.binding = package.version,
                         !.refreshed = @ \/ Refreshes(j), !.actors = @ \/ Actors]

\* windows_packaged_profile, for the address the launch has read.
ProfileNow(j) == IF conf.port = j.listen THEN conf ELSE None
\* local_proxy_chatgpt_spki: the pins of the leaf keys, which follow from the CA.
Pins(j) == IF served # None /\ served.port = j.listen THEN served.ca ELSE None

MatchesWindow(w, profile, spki) == w.native /\ ~w.apart /\ w.proxy = profile.port /\ w.pin = spki /\ spki # None
\* decide: start it, take what is there, or neither.
Decision(profile, record) ==
    IF ~Actors THEN "cold"
    ELSE IF /\ record # None /\ windows = {record.window}
            /\ record.version = package.version /\ record.profile = profile
            /\ MatchesWindow(record.window, profile, record.window.pin)
    THEN "reuse" ELSE "refused"
ReceiptRead == IF Actors THEN receipt ELSE None
\* accept_window: not yet, a window, or refused.
\* BUG: whatever its pins are.
AcceptAny(j) == IF windows = {} THEN (IF j.reuse THEN "refused" ELSE "none")
                ELSE IF Cardinality(windows) > 1 \/ \E w \in windows : w.apart \/ w.proxy # j.profile.port
                     THEN "refused" ELSE "window"
Accept(j) ==
    IF windows = {} THEN (IF j.reuse THEN "refused" ELSE "none")
    ELSE IF Cardinality(windows) > 1 THEN "refused"
    ELSE LET w == CHOOSE x \in windows : TRUE IN
         IF (j.reuse /\ w # j.receipt.window) \/ (~j.reuse /\ w.started < j.from) THEN "refused"
         ELSE IF ~w.native /\ ~j.reuse THEN "none"
         ELSE IF MatchesWindow(w, j.profile, j.spki) THEN "window" ELSE "refused"
-----------------------------------------------------------------------------
(* A launch *)

To(l, j, pc) == job' = [job EXCEPT ![l] = [j EXCEPT !.pc = pc]]
At(l, pc) == job[l].pc = pc
Failed(l) == To(l, Idle, "failed")

\* It needs the managed profile and a package that is ready.
Start(l) ==
    /\ At(l, "idle")
    /\ To(l, [Idle EXCEPT !.listen = conf.port, !.package = package.version, !.profile = conf, !.began = moves],
          IF package.ready THEN "initial" ELSE "failed")
    /\ UNCHANGED <<world, receipt>>
Initial(l) ==
    LET j == job[l] IN
    /\ At(l, "initial")
    /\ IF Observable(j) /\ Decision(j.profile, ReceiptRead) # "refused" THEN To(l, Observed(j), "lock") ELSE Failed(l)
    /\ UNCHANGED <<world, receipt>>
\* The lock is held until the launch ends, whichever way.
Holds(l) == job[l].pc \in {"again", "proxy", "pins", "lease", "before", "activate", "observe", "settle", "write"}
Lock(l) ==
    /\ At(l, "lock")
    /\ IF \E other \in Launch : Holds(other) THEN Failed(l) ELSE To(l, job[l], "again")
    /\ UNCHANGED <<world, receipt>>
\* Another launch may have come between: look again.
Again(l) ==
    LET j == job[l]  decision == Decision(j.profile, ReceiptRead) IN
    /\ At(l, "again")
    /\ IF Observable(j) /\ decision # "refused"
       THEN To(l, [Observed(j) EXCEPT !.receipt = ReceiptRead, !.reuse = decision = "reuse"],
               IF decision = "cold" THEN "proxy" ELSE "pins")
       ELSE Failed(l)
    /\ UNCHANGED <<world, receipt>>
\* ensure_local_proxy_running; the proxy may not come up.
Proxy(l) ==
    /\ At(l, "proxy")
    /\ \/ Pins(job[l]) # None /\ To(l, job[l], "pins") /\ UNCHANGED served
       \/ Pins(job[l]) = None /\ served' = conf /\ To(l, job[l], IF conf.port = job[l].listen THEN "pins" ELSE "failed")
       \/ Pins(job[l]) = None /\ Failed(l) /\ UNCHANGED served
    /\ UNCHANGED <<package, windows, helpers, clock, conf, sys, lease, roots, moves, receipt>>
ReadPins(l) ==
    LET j == job[l]  pins == Pins(j) IN
    /\ At(l, "pins")
    /\ IF pins = None \/ (j.reuse /\ j.receipt.window.pin # pins) THEN Failed(l)
       ELSE To(l, [j EXCEPT !.spki = pins], IF j.reuse \/ lease = None THEN "before" ELSE "lease")
    /\ UNCHANGED <<world, receipt>>
-----------------------------------------------------------------------------
(* The settings that an older client left *)

InForce(settings) == settings.enable /\ ~settings.auto /\ settings.server = "managed"
LeaseSteps == <<"enable", "server", "auto", "ca", "marker">>
\* Whose settings they are is looked up once; a proxy that the user has set
\* since is kept.
Restored(field) ==
    CASE field = "enable" -> [sys EXCEPT !.enable = lease.enable]
      [] field = "server" -> [sys EXCEPT !.server = lease.server]
      [] field = "auto"   -> [sys EXCEPT !.auto = lease.auto]
RestoreLease(l) ==
    LET j == job[l]
        first == IF InForce(sys) THEN 1 ELSE 4
        n == IF j.step = 0 THEN first ELSE j.step
        field == LeaseSteps[n] IN
    /\ At(l, "lease")
    /\ IF field \in {"enable", "server", "auto"} /\ lease # None
       THEN sys' = Restored(field) /\ UNCHANGED <<roots, lease>>
       ELSE /\ roots' = IF field = "ca" THEN FALSE ELSE roots
            /\ lease' = IF field = "marker" THEN None ELSE lease
            /\ UNCHANGED sys
    /\ job' = [job EXCEPT ![l] = [j EXCEPT !.step = (n + 1) % (Len(LeaseSteps) + 1),
                                           !.pc = IF n = Len(LeaseSteps) THEN "before" ELSE "lease"]]
    /\ UNCHANGED <<package, windows, helpers, clock, conf, served, moves, receipt>>
-----------------------------------------------------------------------------
(* Activation *)

Before(l) ==
    LET j == job[l] IN
    /\ At(l, "before")
    /\ IF /\ Observable(j) /\ ProfileNow(j) = j.profile /\ Pins(j) = j.spki
          /\ Decision(j.profile, j.receipt) = (IF j.reuse THEN "reuse" ELSE "cold")
       THEN To(l, [Observed(j) EXCEPT !.from = clock + 1], "activate") ELSE Failed(l)
    /\ UNCHANGED <<world, receipt>>
Opens(w) == clock < MaxWindows /\ clock' = clock + 1 /\ windows' = windows \cup {w} /\ helpers' = TRUE
\* Windows gives the arguments to a new process, or wakes the one that has the
\* package's own user data, whatever its arguments were; or it fails.
Activate(l) ==
    LET j == job[l] IN
    /\ At(l, "activate")
    /\ \/ Failed(l) /\ UNCHANGED <<windows, clock, helpers>>
       \/ /\ \E w \in windows : ~w.apart
          /\ To(l, j, "observe") /\ UNCHANGED <<windows, clock, helpers>>
       \/ /\ \A w \in windows : w.apart
          /\ Opens([started |-> clock + 1, native |-> FALSE, proxy |-> j.profile.port, pin |-> j.spki,
                    apart |-> FALSE, version |-> package.version])
          /\ To(l, j, "observe")
    /\ UNCHANGED <<package, conf, served, sys, lease, roots, moves, receipt>>
\* Every 300 ms for 30 s.
Observe(l) ==
    LET j == job[l] IN
    /\ At(l, "observe")
    /\ \/ ~Observable(j) /\ Failed(l)
       \/ Observable(j) /\ Accept(j) = "refused" /\ Failed(l)
       \/ /\ Observable(j) /\ Accept(j) = "window"
          /\ To(l, [Observed(j) EXCEPT !.observed = CHOOSE w \in windows : TRUE], "settle")
       \/ Observable(j) /\ Accept(j) = "none" /\ j # Observed(j) /\ To(l, Observed(j), "observe")
    /\ UNCHANGED <<world, receipt>>
Timeout(l) == At(l, "observe") /\ Accept(job[l]) = "none" /\ Failed(l) /\ UNCHANGED <<world, receipt>>
Settled(j) == /\ Observable(j) /\ Accept(j) = "window" /\ windows = {j.observed}
              /\ ProfileNow(j) = j.profile /\ Pins(j) = j.spki
Settle(l) ==
    LET j == job[l] IN
    /\ At(l, "settle")
    /\ IF ~Settled(j) THEN Failed(l)
       ELSE IF j.reuse THEN To(l, [Idle EXCEPT !.looked = moves], "done")
       ELSE To(l, [Observed(j) EXCEPT !.looked = moves], "write")
    /\ UNCHANGED <<world, receipt>>
Write(l) ==
    LET j == job[l] IN
    /\ At(l, "write")
    /\ receipt' = [version |-> j.binding, profile |-> j.profile, window |-> j.observed]
    /\ To(l, [Idle EXCEPT !.looked = j.looked], "done")
    /\ UNCHANGED world
\* It ends, or is killed anywhere.
End(l) == ~At(l, "idle") /\ job' = [job EXCEPT ![l] = Idle] /\ UNCHANGED <<world, receipt>>
-----------------------------------------------------------------------------
(* Beside it *)

Move == moves < MaxMoves /\ moves' = moves + 1 /\ UNCHANGED <<job, receipt>>
\* The window shows; its start is no change.
Show(w) ==
    /\ ~w.native /\ windows' = (windows \ {w}) \cup {[w EXCEPT !.native = TRUE]}
    /\ UNCHANGED <<package, helpers, clock, conf, served, sys, lease, roots, moves, job, receipt>>
UserOpens(apart) ==
    /\ Move /\ package.ready /\ (apart \/ \A w \in windows : w.apart)
    /\ Opens([started |-> clock + 1, native |-> TRUE, proxy |-> None, pin |-> None, apart |-> apart, version |-> package.version])
    /\ UNCHANGED <<package, conf, served, sys, lease, roots>>
UserQuits(w) ==
    /\ Move /\ windows' = windows \ {w} /\ helpers' \in (IF windows = {w} THEN BOOLEAN ELSE {TRUE})
    /\ UNCHANGED <<package, clock, conf, served, sys, lease, roots>>
HelperEnds ==
    /\ helpers /\ windows = {} /\ helpers' = FALSE
    /\ UNCHANGED <<package, windows, clock, conf, served, sys, lease, roots, moves, job, receipt>>
Update ==
    /\ Move
    /\ \/ package.ready /\ package.version < MaxVersion /\ package' = [package EXCEPT !.ready = FALSE]
       \/ ~package.ready /\ package' = [version |-> package.version + 1, ready |-> TRUE]
    /\ UNCHANGED <<windows, helpers, clock, conf, served, sys, lease, roots>>
\* init-codex moves the proxy or renews its CA; the worker may still be the old one.
Reconfigure(to) ==
    /\ Move /\ to # conf /\ to.ca \in conf.ca .. conf.ca + 1 /\ conf' = to /\ served' \in {served, None, to}
    /\ UNCHANGED <<package, windows, helpers, clock, sys, lease, roots>>
ServiceTurns ==
    /\ Move /\ served' \in {None, conf} \ {served}
    /\ UNCHANGED <<package, windows, helpers, clock, conf, sys, lease, roots>>
UserSetsProxy(settings) ==
    /\ Move /\ lease # None /\ settings # sys /\ sys' = settings
    /\ UNCHANGED <<package, windows, helpers, clock, conf, served, lease, roots>>
-----------------------------------------------------------------------------
Settings == [enable : BOOLEAN, server : {"managed", "users"}, auto : BOOLEAN]
UserSettings == {s \in Settings : s.server = "users"}
Init ==
    /\ package = [version |-> 1, ready |-> TRUE] /\ windows = {} /\ helpers = FALSE /\ clock = 0 /\ receipt = None
    /\ conf = [port |-> CHOOSE p \in Port : TRUE, ca |-> 1]   \* one port is as good as another
    /\ served \in {None, conf}
    /\ \/ sys = [enable |-> FALSE, server |-> "users", auto |-> FALSE] /\ lease = None /\ roots = FALSE
       \/ sys = [enable |-> TRUE, server |-> "managed", auto |-> FALSE] /\ lease \in UserSettings /\ roots = TRUE
    /\ job = [l \in Launch |-> Idle] /\ moves = 0

Step(l) == \/ Start(l) \/ Initial(l) \/ Lock(l) \/ Again(l) \/ Proxy(l) \/ ReadPins(l) \/ RestoreLease(l)
           \/ Before(l) \/ Activate(l) \/ Observe(l) \/ Timeout(l) \/ Settle(l) \/ Write(l) \/ End(l)
Beside == \/ \E w \in windows : Show(w) \/ UserQuits(w)
          \/ \E apart \in BOOLEAN : UserOpens(apart)
          \/ HelperEnds \/ Update \/ ServiceTurns
          \/ \E to \in Profile : Reconfigure(to)
          \/ \E settings \in UserSettings : UserSetsProxy(settings)
Next == (\E l \in Launch : Step(l)) \/ Beside
Spec == Init /\ [][Next]_vars

(***************************************************************************)
(* Properties.                                                             *)
(***************************************************************************)
\* What a successful launch says is so if nothing moved since its last look:
\* one window, of the installed version, shown, started for the proxy that the
\* configuration names, with the pins that the proxy there has now.
ReportsTheTruth ==
    \A l \in Launch :
      job[l].pc # "done" /\ job'[l].pc = "done" /\ job'[l].looked = moves
      => \E w \in windows : /\ windows = {w} /\ w.native /\ w.version = package.version
                            /\ w.proxy = conf.port /\ served = [port |-> conf.port, ca |-> w.pin]

\* A window that a launch has started and recorded is not refused to the next
\* launch while nothing has moved and no other launch is under way.
Ours == /\ receipt # None /\ package = [version |-> receipt.version, ready |-> TRUE]
        /\ \E w \in windows : windows = {w} /\ w.native /\ w.started = receipt.window.started
        /\ receipt.profile = conf /\ served = [port |-> conf.port, ca |-> receipt.window.pin]
ReusesItsOwn ==
    \A l \in Launch :
      job[l].pc \notin {"idle", "failed", "activate"} /\ job'[l].pc = "failed"
      => ~(Ours /\ job[l].began = moves /\ \A other \in Launch \ {l} : job[other] = Idle)

\* What a launch reports of the packaged Desktop is so when it reports it.
DesktopReportIsTrue == [][ReportsTheTruth /\ ReusesItsOwn]_vars

\* When the marker of the older client goes, its proxy is not in force and its
\* CA is not trusted, at whatever step an earlier launch was killed.
EndsTheLease ==
    lease # None /\ lease' = None => ~InForce(sys) /\ ~roots

\* The marker of an older client goes only after its settings are gone.
LeaseEnds == [][EndsTheLease]_vars
=============================================================================

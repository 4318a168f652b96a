-------------------------- MODULE MCManagedPrograms --------------------------
(***************************************************************************)
(* The programs that SAIAI starts, stops and replaces: a behaviour is one  *)
(* of BackgroundService (Linux without systemd), of WindowsService, of     *)
(* LaunchAgent (macOS), of SystemdService, of SelfUpdate or of             *)
(* VersionProbe, and the variables of the others stay as they are.         *)
(***************************************************************************)
EXTENDS BackgroundService, Sequences

CONSTANTS Isolated, MaxIssued, MaxBorn,
          Program, Current, None, MaxDeaths, LaunchctlFails,
          MaxSwitches, MaxWrites,
          Platforms, Own, MaxUser, Crashes,
          LineLimit, MaxOutput

VARIABLES part,
          process, record, followers, lock, job, issued,
          agentConfig, plist, loaded, agentWorker, agentForeign, agentLock, agentCommand, settled, agentCount,
          unitConfig, unit, background, proxy, unitCommand, unitCount,
          installed, candidate, backup, service, updater, script, status, user,
          child, descendant, written, taken, reader, safe, late, probe

varsW == <<process, record, followers, lock, job, issued>>
varsA == <<agentConfig, plist, loaded, agentWorker, agentForeign, agentLock, agentCommand, settled, agentCount>>
varsS == <<unitConfig, unit, background, proxy, unitCommand, unitCount>>
varsU == <<installed, candidate, backup, service, updater, script, status, user>>
varsP == <<child, descendant, written, taken, reader, safe, late, probe>>

W == INSTANCE WindowsService WITH command <- job, MaxCommands <- MaxIssued
A == INSTANCE LaunchAgent WITH config <- agentConfig, worker <- agentWorker, foreign <- agentForeign,
                               initLock <- agentLock, command <- agentCommand, count <- agentCount
S == INSTANCE SystemdService WITH config <- unitConfig, command <- unitCommand, count <- unitCount,
                                  MaxCommands <- MaxSwitches, Address <- Port, Damaged <- None
\* Versions that an ordering part by part and one by length tell apart.
Released == {<<1, 9>>, <<1, 10>>, <<1, 9, 0>>, <<1, 9, 1>>}
U == INSTANCE SelfUpdate WITH Version <- Released, helper <- script
P == INSTANCE VersionProbe

ASSUME PartsAssumption ==
    /\ W!WindowsServiceAssumption /\ A!LaunchAgentAssumption /\ S!SystemdAssumption
    /\ U!SelfUpdateAssumption /\ P!ProbeAssumption

\* On Windows a copy of an environment's directory names a worker; what else has
\* its pid is tried with the environment's own file.
CopiesNameWorkers ==
    \A p \in Pid : process[p].role \in {"other", "protected"} => \A e \in Isolated : record[e] = W!NoRecord
\* One initial state of each, for the parts that rest.
RestB == Init
RestW == W!Init /\ record = [e \in Env |-> W!NoRecord]
RestA == A!Init /\ plist = None /\ agentConfig.port = CHOOSE p \in Port : TRUE
RestS == S!Init /\ unitConfig[1] = CHOOSE p \in Port : TRUE
RestU == /\ U!Init /\ installed.version = <<1, 9>> /\ updater.platform = CHOOSE p \in Platforms : TRUE
         /\ \A e \in Env : service[e].runs = U!NoProgram
RestP == P!Init /\ \A s \in P!Stream : safe[s]
MCInit == \/ part = "service" /\ Init /\ RestW /\ RestA /\ RestS /\ RestU /\ RestP
          \/ part = "windows" /\ RestB /\ W!Init /\ CopiesNameWorkers /\ RestA /\ RestS /\ RestU /\ RestP
          \/ part = "agent" /\ RestB /\ RestW /\ A!Init /\ RestS /\ RestU /\ RestP
          \/ part = "systemd" /\ RestB /\ RestW /\ RestA /\ S!Init /\ RestU /\ RestP
          \/ part = "update" /\ RestB /\ RestW /\ RestA /\ RestS /\ U!Init /\ RestP
          \/ part = "probe" /\ RestB /\ RestW /\ RestA /\ RestS /\ RestU /\ P!Init
MCNext == \/ part = "service" /\ Next /\ UNCHANGED <<part, varsW, varsA, varsS, varsU, varsP>>
          \/ part = "windows" /\ W!Next /\ UNCHANGED <<part, vars, varsA, varsS, varsU, varsP>>
          \/ part = "agent" /\ A!Next /\ UNCHANGED <<part, vars, varsW, varsS, varsU, varsP>>
          \/ part = "systemd" /\ S!Next /\ UNCHANGED <<part, vars, varsW, varsA, varsU, varsP>>
          \/ part = "update" /\ U!Next /\ UNCHANGED <<part, vars, varsW, varsA, varsS, varsP>>
          \/ part = "probe" /\ P!Next /\ UNCHANGED <<part, vars, varsW, varsA, varsS, varsU>>
MCSpec == MCInit /\ [][MCNext]_<<part, vars, varsW, varsA, varsS, varsU, varsP>>

\* As in WindowsService: every command process runs on; as in VersionProbe:
\* the app runs and time passes.
MCFairSpec == /\ MCSpec
              /\ \A c \in Cli : WF_varsW(part = "windows" /\ W!Step(c))
              /\ WF_varsP(part = "probe" /\ P!ProbeStep) /\ WF_varsP(part = "probe" /\ P!TimePasses)

\* On Windows a command ends only what its environment registered, and a stop
\* all that follows its log (WindowsService).
WindowsStopsItsOwn == [][part = "windows" => W!EndsOnlyItsOwn /\ W!LeavesNoFollower]_varsW
\* Commands end, whoever follows the log (WindowsService), and so does the
\* probe of a client's version, whatever the client does (VersionProbe).
CommandsAndProbesEnd ==
    /\ \A c \in Cli : []<>(job[c].kind = "logs" \/ job[c].pc = "idle")
    /\ []<>(part = "probe" => probe.pc = "done")
\* Between commands a service that runs is the one on record: in the state file
\* on Windows (WindowsService) and on Linux (BackgroundService), in the plist on
\* macOS (LaunchAgent).
RunsWhatIsOnRecord == W!NoLostWorker /\ A!LoadedIsThePlist /\ NoOrphans
\* On macOS a start leaves the agent with the configuration it was called for,
\* at an address that an init finds again (LaunchAgent).
AgentIsRefreshed == [][part = "agent" => A!RunsTheConfiguration /\ A!FindsItsAddress]_varsA
\* With systemd or without, a start refreshes the proxy and a stop that finds
\* nothing leaves nothing, but for a unit that is out of its reach (SystemdService).
EitherManagerAgrees == [][part = "systemd" => S!RunsTheConfiguration /\ S!SaysSoTruly]_varsS
\* An update installs what the manifest named, what it reports is so, and a
\* service that it stopped comes back or the next command warns (SelfUpdate); a version that the desktop
\* app shows is one that a client gave (VersionProbe).
ReportsAreTrue ==
    /\ [][part = "update" => U!InstalledIsNamed' /\ U!TellsTheTruth /\ U!ComesBack]_varsU
    /\ [][part = "probe" => P!VersionIsWhole']_varsP
=============================================================================

------------------------------ MODULE SelfUpdate ------------------------------
(***************************************************************************)
(* saiai update (src/tools/saiai-cli/src/main.rs): a process replaces its  *)
(* own program file, with a backup, and restarts the service that was      *)
(* active when it began.  On Unix the updater renames the candidate over   *)
(* the file itself; on Windows a helper does it after the updater exited   *)
(* and reports through a status file.                                      *)
(*                                                                         *)
(* A program is its version, its build (two builds of one version have     *)
(* different hashes) and what became of it as a file.  The Gateway may     *)
(* publish another release between the manifest and the download.          *)
(*                                                                         *)
(* A service is the program its worker runs, or none, and where its        *)
(* manager looks for the program: at the installed path or at one that     *)
(* does not exist.  Users start and stop services meanwhile.               *)
(***************************************************************************)
EXTENDS Naturals, Sequences

CONSTANTS Platforms,\* of "systemd", "fallback" (both Linux), "macos" and "windows"
          Env,      \* environments whose services run the installed program
          Own,      \* the environment the update was called for
          Version,  \* versions: sequences of numbers
          MaxUser,  \* bound on starts and stops by the user
          Crashes   \* whether the updater or the helper may be killed

SelfUpdateAssumption ==
    /\ Platforms \subseteq {"systemd", "fallback", "macos", "windows"}
    /\ Own \in Env /\ Version \subseteq Seq(Nat) \ {<<>>} /\ MaxUser \in Nat /\ Crashes \in BOOLEAN

VARIABLES installed, \* the program at the installed path
          candidate, \* what is at the candidate's path
          backup,    \* what is at the backup's path
          service,   \* of every environment
          updater,   \* active is service_was_active, current the program it read,
                     \* expected the one the manifest names
          helper,    \* [pc, stopped, restart, expected]
          status,    \* .saiai-update-status.txt
          user       \* how often the user started or stopped a service

Platform == updater.platform
vars == <<installed, candidate, backup, service, updater, helper, status, user>>

\* An executable of this platform, one that does not run, one that runs but is not
\* SAIAI, one of another platform.
Kind == {"good", "damaged", "mute", "foreign"}
Executable == [version : Version, build : {1, 2}, kind : {"good"}] \cup [version : Version, build : {1}, kind : Kind]
NoProgram == [version |-> <<>>, build |-> 0, kind |-> "none"]
Ran == {"updated", "restarted", "notRestarted", "staged", "current", "failed", "killed"}
TypeOK ==
    /\ installed \in Executable /\ candidate \in Executable \cup {NoProgram} /\ backup \in Executable \cup {NoProgram}
    /\ service \in [Env -> [runs : Executable \cup {NoProgram}, path : {"installed", "gone"}]]
    /\ updater \in [pc : Ran \cup {"begin", "check", "download", "verify", "back up", "replace", "restart"},
                    active : BOOLEAN, platform : Platforms, current : Executable \cup {NoProgram}, expected : Executable \cup {NoProgram}]
    /\ helper \in [pc : {"none", "wait", "stop", "replace", "verify", "restart", "recover", "ended", "notStarted", "killed"},
                   stopped : BOOLEAN, restart : BOOLEAN, expected : Executable \cup {NoProgram}]
    /\ status \in {"none", "pending", "updated", "failed"}
    /\ user \in 0 .. MaxUser

Init ==
    /\ \E v \in Version : installed = [version |-> v, build |-> 1, kind |-> "good"]
    /\ candidate = NoProgram /\ backup = NoProgram
    /\ \E running \in SUBSET Env :
          service = [e \in Env |-> [runs |-> IF e \in running THEN installed ELSE NoProgram, path |-> "installed"]]
    /\ \E p \in Platforms : updater = [pc |-> "begin", active |-> FALSE, platform |-> p, current |-> NoProgram, expected |-> NoProgram]
    /\ helper = [pc |-> "none", stopped |-> FALSE, restart |-> FALSE, expected |-> NoProgram]
    /\ status = "none" /\ user = 0
-----------------------------------------------------------------------------
(* The updater *)

At(pc) == updater.pc = pc
Go(pc) == updater' = [updater EXCEPT !.pc = pc]
Active(e) == service[e].runs # NoProgram
FilesUnchanged == UNCHANGED <<installed, candidate, backup>>
OthersUnchanged == UNCHANGED <<service, helper, status, user>>

Begin ==
    /\ At("begin") /\ updater' = [updater EXCEPT !.pc = "check", !.active = Active(Own), !.current = installed]
    /\ FilesUnchanged /\ OthersUnchanged

\* compare_versions: part by part, a missing part is 0.
Part(version, i) == IF i <= Len(version) THEN version[i] ELSE 0
Parts(l, r) == 1 .. (IF Len(l) > Len(r) THEN Len(l) ELSE Len(r))
Older(l, r) ==
    \E i \in Parts(l, r) : Part(l, i) < Part(r, i) /\ \A j \in 1 .. i - 1 : Part(l, j) = Part(r, j)
Same(l, r) == ~Older(l, r) /\ ~Older(r, l)

\* download_update_manifest: the program it names, or NoProgram if there is no manifest (404).
Manifest == Executable \cup {NoProgram}
CheckManifest ==
    /\ At("check")
    /\ \/ Go("failed")
       \/ \E named \in Manifest :
             IF named = NoProgram THEN Go("download")
             ELSE IF \/ Older(named.version, updater.current.version)
                     \/ Same(named.version, updater.current.version) /\ named = updater.current
             THEN Go("current")
             ELSE updater' = [updater EXCEPT !.pc = "download", !.expected = named]
    /\ FilesUnchanged /\ OthersUnchanged

\* validate_update_asset: an executable of the platform, by its header; then the hash,
\* where there was a manifest.
Accepted(program) == program.kind # "foreign" /\ updater.expected \in {NoProgram, program}
Download ==
    /\ At("download")
    /\ \/ Go("failed") /\ UNCHANGED candidate
       \/ \E program \in Executable :
             IF Accepted(program) THEN candidate' = program /\ Go("verify") ELSE Go("failed") /\ UNCHANGED candidate
    /\ UNCHANGED <<installed, backup>> /\ OthersUnchanged

\* The candidate is run with --version: one that does not run stays behind, one that
\* answers wrongly or is what runs already is removed.
Runs(program) == program.kind # "damaged"
VerifyCandidate ==
    /\ At("verify")
    /\ \/ ~Runs(candidate) /\ Go("failed") /\ UNCHANGED candidate
       \/ candidate.kind = "mute" /\ Go("failed") /\ candidate' = NoProgram
       \/ candidate = updater.current /\ Go("current") /\ candidate' = NoProgram
       \/ /\ candidate.kind = "good" /\ candidate # updater.current
          /\ Go("back up") /\ UNCHANGED candidate
    /\ UNCHANGED <<installed, backup>> /\ OthersUnchanged

Backup ==
    /\ At("back up")
    /\ \/ Go("failed") /\ UNCHANGED backup
       \/ backup' = installed /\ Go("replace")
    /\ UNCHANGED <<installed, candidate>> /\ OthersUnchanged

Replace ==
    /\ At("replace") /\ Platform # "windows"
    /\ \/ Go("failed") /\ FilesUnchanged
       \/ /\ installed' = candidate /\ candidate' = NoProgram /\ UNCHANGED backup
          /\ Go(IF updater.active THEN "restart" ELSE "updated")
    /\ OthersUnchanged

\* BUG: the process looks for its program where it no longer is.
OwnPathUnlinked == "gone"
(* env::current_exe() of a process whose file was replaced: Linux names the unlinked
   file, "... (deleted)", which does not exist. *)
OwnPath == IF Platform \in {"systemd", "fallback"} THEN "gone" ELSE "installed"

(* run_service_restart with the unit, plist or child made from OwnPath.  systemctl does
   not see that the program of a simple service cannot be executed; a spawn does. *)
Restart ==
    /\ At("restart")
    /\ \/ /\ Platform = "fallback" => OwnPath = "installed"
          /\ service' = [service EXCEPT ![Own] =
                            [runs |-> IF OwnPath = "installed" THEN installed ELSE NoProgram, path |-> OwnPath]]
          /\ Go("restarted")
       \/ /\ \E runs \in {service[Own].runs, NoProgram} : service' = [service EXCEPT ![Own].runs = runs]
          /\ Go("notRestarted")
    /\ FilesUnchanged /\ UNCHANGED <<helper, status, user>>

\* Windows: the helper is started last; if that fails the status says so.
Stage ==
    /\ At("replace") /\ Platform = "windows"
    /\ \/ status' = "failed" /\ Go("failed") /\ UNCHANGED helper
       \/ /\ status' = "pending" /\ Go("staged")
          /\ helper' = [pc |-> "wait", stopped |-> FALSE, restart |-> updater.active, expected |-> candidate]
    /\ FilesUnchanged /\ UNCHANGED <<service, user>>

UpdaterKilled ==
    /\ Crashes /\ updater.pc \notin Ran /\ Go("killed")
    /\ FilesUnchanged /\ OthersUnchanged
-----------------------------------------------------------------------------
(* The helper script of Windows *)

HelperAt(pc) == helper.pc = pc
HelperGo(pc) == helper' = [helper EXCEPT !.pc = pc]
\* The catch block: what was stopped is started again.
Fail == /\ status' = "failed"
        /\ HelperGo(IF helper.stopped /\ helper.restart THEN "recover" ELSE "ended")

AwaitUpdater ==
    /\ HelperAt("wait")
    /\ \/ HelperGo("stop") /\ UNCHANGED status
       \/ Fail
    /\ FilesUnchanged /\ UNCHANGED <<service, updater, user>>

\* A stop that fails may have ended the worker already.
HelperStops ==
    /\ HelperAt("stop")
    /\ \/ Fail /\ \E runs \in {service[Own].runs, NoProgram} : service' = [service EXCEPT ![Own].runs = runs]
       \/ /\ service' = [service EXCEPT ![Own].runs = NoProgram]
          /\ helper' = [helper EXCEPT !.pc = "replace", !.stopped = TRUE] /\ UNCHANGED status
    /\ FilesUnchanged /\ UNCHANGED <<updater, user>>

HelperReplaces ==
    /\ HelperAt("replace")
    /\ \/ Fail /\ FilesUnchanged
       \/ /\ installed' = candidate /\ candidate' = NoProgram
          /\ HelperGo("verify") /\ UNCHANGED <<backup, status>>
    /\ UNCHANGED <<service, updater, user>>

\* The candidate may have been altered on disk since it was downloaded.
Tampered ==
    /\ candidate # NoProgram /\ candidate.kind = "good" /\ helper.pc \in {"wait", "stop", "replace"}
    /\ candidate' = [candidate EXCEPT !.build = 1, !.kind = "damaged"]
    /\ UNCHANGED <<installed, backup, service, updater, helper, status, user>>

HelperVerifies ==
    /\ HelperAt("verify")
    /\ IF installed = helper.expected THEN HelperGo("restart") /\ UNCHANGED status ELSE Fail
    /\ FilesUnchanged /\ UNCHANGED <<service, updater, user>>

Run(e) == [runs |-> IF installed.kind = "good" THEN installed ELSE NoProgram, path |-> "installed"]
\* restart, if the service was active; the program may fail to start.
HelperRestarts ==
    /\ HelperAt("restart")
    /\ \/ /\ ~helper.restart /\ status' = "updated" /\ HelperGo("ended") /\ UNCHANGED service
       \/ /\ helper.restart /\ status' = "updated" /\ HelperGo("ended")
          /\ service' = [service EXCEPT ![Own] = Run(Own)]
       \/ /\ helper.restart /\ Fail
          /\ \E runs \in {service[Own].runs, NoProgram} : service' = [service EXCEPT ![Own].runs = runs]
    /\ FilesUnchanged /\ UNCHANGED <<updater, user>>
\* The catch block's start: nothing is said of one that fails.
HelperRecovers ==
    /\ HelperAt("recover")
    /\ \/ HelperGo("ended") /\ service' = [service EXCEPT ![Own] = Run(Own)]
       \/ /\ HelperGo("notStarted")
          /\ \E runs \in {service[Own].runs, NoProgram} : service' = [service EXCEPT ![Own].runs = runs]
    /\ FilesUnchanged /\ UNCHANGED <<updater, status, user>>
HelperKilled ==
    /\ Crashes /\ helper.pc \notin {"none", "ended", "notStarted", "killed"} /\ HelperGo("killed")
    /\ FilesUnchanged /\ UNCHANGED <<service, updater, status, user>>
-----------------------------------------------------------------------------
(* Users and service managers *)

UserStarts(e) ==
    /\ user < MaxUser /\ user' = user + 1
    /\ service' = [service EXCEPT ![e] = Run(e)]
    /\ FilesUnchanged /\ UNCHANGED <<updater, helper, status>>
UserStops(e) ==
    /\ user < MaxUser /\ user' = user + 1 /\ Active(e)
    /\ service' = [service EXCEPT ![e].runs = NoProgram]
    /\ FilesUnchanged /\ UNCHANGED <<updater, helper, status>>

Helper == \/ AwaitUpdater \/ HelperStops \/ HelperReplaces \/ HelperVerifies
          \/ HelperRestarts \/ HelperRecovers
Updater == \/ Begin \/ CheckManifest \/ Download \/ VerifyCandidate \/ Backup
           \/ Replace \/ Restart \/ Stage
Next == \/ Updater \/ UpdaterKilled \/ Helper \/ HelperKilled \/ Tampered
        \/ \E e \in Env : UserStarts(e) \/ UserStops(e)
Spec == Init /\ [][Next]_vars
-----------------------------------------------------------------------------
(* warn_incomplete_windows_update, at the start of every command *)
Warned == status \in {"pending", "failed"}

(* When the updater reports that the active service was restarted, the service runs the
   new program; when the Windows helper reports the update as done, the new program is in
   place and the service that was active runs it. *)
TellsTheTruth ==
    /\ updater.pc # "restarted" /\ updater'.pc = "restarted"
          => service'[Own].runs = installed' /\ installed' # updater.current
    /\ status # "updated" /\ status' = "updated"
          => installed' = helper.expected /\ (helper.restart => service'[Own].runs = helper.expected)

(* Where there was a manifest, an update that did not fail installed what the manifest
   named, whatever was published or changed on disk since, and nothing older than what
   ran; and who is not warned of a staged update has it.  Weight orders the versions of
   up to three parts below 100. *)
Weight(version) == 10000 * Part(version, 1) + 100 * Part(version, 2) + Part(version, 3)
Succeeded == updater.pc \in {"updated", "restarted", "notRestarted"} \/ (updater.pc = "staged" /\ ~Warned)
InstalledIsNamed ==
    Succeeded => /\ installed # updater.current /\ installed.kind = "good"
                 /\ updater.expected # NoProgram
                       => installed = updater.expected /\ Weight(installed.version) >= Weight(updater.current.version)

(* Whatever failed after the helper stopped an active service, the service is started
   again with the program that is there; if that start fails too, the next command warns. *)
Through == {"ended", "notStarted"}
ComesBack ==
    helper.pc \notin Through /\ helper'.pc \in Through /\ helper.stopped /\ helper.restart
        => service'[Own] = Run(Own) \/ (helper'.pc = "notStarted" /\ Warned')

\* An update installs what the manifest named, reports truly and brings back what it stopped.
UpdateReportsAreTrue == [][InstalledIsNamed' /\ TellsTheTruth /\ ComesBack]_vars
=============================================================================

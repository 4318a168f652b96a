----------------------------- MODULE IsolatedDesktop -----------------------------
(***************************************************************************)
(* saiai desktop codex with a Desktop that the launcher starts itself      *)
(* (run_linux_desktop, run_macos_desktop and the rest of                   *)
(* run_windows_desktop in src/tools/saiai-cli/src/main.rs).                *)
(*                                                                         *)
(* The Desktop gets a home of its own with a copy of the user's Codex      *)
(* login, cleaned configuration files and, on Linux, an NSS database that  *)
(* trusts the proxy's CA.  On macOS the packaged app is stopped first, and *)
(* after the start LaunchServices is asked to open a thread in it: the app *)
(* to be opened and the app whose executable is started are looked up      *)
(* separately and need not be the same.                                    *)
(***************************************************************************)
EXTENDS Naturals, Sequences, FiniteSets

CONSTANTS Platform, \* of "linux", "macos", "windows"
          Account, Bundle, None,
          MaxTime, MaxMoves

IsolatedAssumption ==
    /\ Platform \subseteq {"linux", "macos", "windows"} /\ None \notin Account /\ MaxTime \in Nat /\ MaxMoves \in Nat

\* auth.json: what it holds and, of a token, until when it is good.
Login == [kind : {"chatgpt"}, account : Account, expires : 0 .. MaxTime]
         \cup [kind : {"missing", "broken", "api_key", "placeholder"}, account : {None}, expires : {0}]
Plain(kind) == [kind |-> kind, account |-> None, expires |-> 0]
Placeholder == Plain("placeholder")
\* A configuration file: whether its requests go the normal way, the reporting of
\* the time, whether features is something other than a table, and its entries.
Doc(kind, routed, time, bad, features) ==
    [kind |-> kind, routed |-> routed, time |-> time, bad |-> bad, features |-> features]
NoFile == Doc("missing", FALSE, "missing", FALSE, {})
Broken == Doc("broken", FALSE, "missing", FALSE, {})
File == {"config", "profile"}

VARIABLES platform,
          real,    \* auth.json of the user's Codex home
          own,     \* auth.json of the Desktop's home
          account, \* desktop/account-id
          files,   \* the Desktop's configuration: of each file its document
          state,   \* .codex-global-state.json: "missing", "broken", "incomplete", "complete"
          ca,      \* the number of the proxy's CA
          nss,     \* the CA that the NSS database trusts, or 0; None without certutil
          apps,    \* macOS: what runs of the packaged apps, [bundle, by]; by is "user" or "saiai"
          now, moves,
          job

vars == <<platform, real, own, account, files, state, ca, nss, apps, now, moves, job>>
\* bundle is the packaged app that is verified and opened, app the one whose
\* executable is started, unseen whether what runs was overlooked.
Idle == [pc |-> "idle", bundle |-> None, app |-> None, unseen |-> FALSE, began |-> 0, tries |-> 0, before |-> Plain("missing")]

TypeOK ==
    /\ platform \in Platform /\ real \in Login /\ own \in Login /\ account \in Account \cup {None}
    /\ state \in {"missing", "broken", "incomplete", "complete"} /\ nss \in {None} \cup 0..ca
    /\ \A app \in apps : app.bundle \in Bundle /\ app.by \in {"user", "saiai"}
    /\ job.pc \in {"idle", "copy", "files", "write", "key", "apps", "account", "state", "nss", "forget", "trust", "find", "look", "quit",
                   "term", "kill", "zone", "spawn", "open", "inspect", "done", "failed"}
-----------------------------------------------------------------------------
(* The login *)

\* codex_access_token_is_expired: a minute early, which is no step of this clock.
Usable(login) == login.kind = "chatgpt" /\ login.expires > now
\* validate_codex_oauth_auth
Valid(login) == login.kind \in {"chatgpt", "placeholder"}
\* The user's login, else the one of the Desktop's home, else a placeholder.
Copied == IF Usable(real) THEN real ELSE IF Usable(own) THEN own ELSE Placeholder
\* The placeholder's account.
AccountOf(login) == IF login.kind = "placeholder" THEN None ELSE login.account
-----------------------------------------------------------------------------
(* The configuration files *)

IsDocument(d) == d.kind = "toml"
\* clean_codex_oauth_document: features that are empty go, and with them a table.
Clean(d) == [d EXCEPT !.routed = TRUE, !.features = @ \ {"websockets"}]
DisableTime(d) == [d EXCEPT !.time = "false"]
EnableSystemProxy(d) == [d EXCEPT !.features = @ \cup {"proxy"}]
\* enable_codex_system_proxy refuses features that are no table.
Prepared(d) == EnableSystemProxy(DisableTime(Clean(d)))
DisableApps(d) == [d EXCEPT !.features = @ \cup {"apps_off"}]
Empty == Doc("toml", FALSE, "missing", FALSE, {})
\* BUG: only the main file.
MainFile == {"config"}
ToPrepare == {f \in File : f = "config" \/ IsDocument(files[f])}
-----------------------------------------------------------------------------
Go(pc) == job' = [job EXCEPT !.pc = pc]
At(pc) == job.pc = pc
Fail == job' = [Idle EXCEPT !.pc = "failed"]
quiet == <<platform, real, ca, now, moves>>
home == <<own, account, files, state>>

\* The configuration, the CA and the proxy are there (EnvironmentLaunch).  On
\* macOS a packaged app is taken unless an executable is named: the first with
\* OpenAI's identifier, in /Applications before ~/Applications.
Start ==
    /\ At("idle")
    /\ \E bundle \in (IF platform = "macos" THEN Bundle \cup {None} ELSE {None}) :
          job' = [Idle EXCEPT !.pc = "copy", !.bundle = bundle, !.began = moves, !.before = own]
    /\ UNCHANGED <<quiet, home, nss, apps>>
\* A file that cannot be parsed is no source, but replacing it fails.
Copy ==
    /\ At("copy")
    /\ IF Copied = Placeholder /\ own.kind = "broken" THEN Fail /\ UNCHANGED own ELSE own' = Copied /\ Go("files")
    /\ UNCHANGED <<quiet, account, files, state, nss, apps>>
\* All of them are parsed before one is written.
ReadFiles ==
    /\ At("files")
    /\ IF Valid(own) /\ \A f \in File : files[f].kind # "broken" THEN Go("write") ELSE Fail
    /\ UNCHANGED <<quiet, home, nss, apps>>
\* In their order; a features entry that is no table ends it.
WriteFiles ==
    /\ At("write")
    /\ LET document(f) == IF files[f] = NoFile THEN Empty ELSE files[f]
           bad == {f \in ToPrepare : document(f).bad}
           done == IF "config" \in bad THEN {} ELSE IF "profile" \in bad THEN {"config"} ELSE ToPrepare
       IN  /\ files' = [f \in File |-> IF f \in done THEN Prepared(document(f)) ELSE files[f]]
           /\ IF bad = {} THEN Go("key") ELSE Fail
    /\ UNCHANGED <<quiet, own, account, state, nss, apps>>
\* OPENAI_API_KEY is null in a file that must still be an object.
ClearKey == At("key") /\ (IF own.kind \in {"missing", "broken"} THEN Fail ELSE Go("apps"))
            /\ UNCHANGED <<quiet, home, nss, apps>>
WriteApps ==
    /\ At("apps")
    /\ IF IsDocument(files["config"]) /\ ~files["config"].bad
       THEN files' = [files EXCEPT !["config"] = DisableApps(@)] /\ Go("account")
       ELSE Fail /\ UNCHANGED files
    /\ UNCHANGED <<quiet, own, account, state, nss, apps>>
WriteAccount ==
    /\ At("account")
    /\ IF Valid(own) THEN account' = AccountOf(own) /\ Go("state") ELSE Fail /\ UNCHANGED account
    /\ UNCHANGED <<quiet, own, files, state, nss, apps>>
\* A state that is no object is left as it is.
WriteState ==
    /\ At("state")
    /\ IF state = "broken" THEN Fail /\ UNCHANGED state
       ELSE state' = "complete" /\ Go(IF platform = "linux" /\ nss # None THEN "forget" ELSE "find")
    /\ UNCHANGED <<quiet, own, account, files, nss, apps>>
\* certutil: the old entry goes, the new one is added.
Forget == At("forget") /\ nss' \in {0, nss} /\ Go("trust") /\ UNCHANGED <<quiet, home, apps>>
Trust == /\ At("trust")
         /\ \/ nss' = ca /\ Go("find")
            \/ Fail /\ UNCHANGED nss
         /\ UNCHANGED <<quiet, home, apps>>
-----------------------------------------------------------------------------
(* The executable, and on macOS the packaged app that already runs *)

\* Every place an app may be in, whichever was found.
CleanedUp == apps
\* A pgrep that fails counts as one that finds nothing.
Overlook == CleanedUp # {} /\ job' = [job EXCEPT !.pc = "zone", !.unseen = TRUE]
\* The executable: of the first app that has one, in ~/Applications before
\* /Applications and whoever made it.  Then the other app is verified, and what
\* runs is looked at.
Find ==
    /\ At("find")
    /\ \/ Fail
       \/ job.bundle = None /\ Go("zone")
       \/ job.bundle # None /\ \E app \in Bundle : job' = [job EXCEPT !.pc = "look", !.app = app]
    /\ UNCHANGED <<quiet, home, nss, apps>>
Look == At("look") /\ (Go(IF CleanedUp # {} THEN "quit" ELSE "zone") \/ Overlook) /\ UNCHANGED <<quiet, home, nss, apps>>
\* Asked to quit, then TERM, then KILL, five seconds each; or it stays.
Stopping(pc, next) ==
    /\ At(pc)
    /\ \/ apps' = apps \ CleanedUp /\ Go("zone")
       \/ UNCHANGED apps /\ IF pc = "kill" THEN Fail ELSE Go(next)
       \/ UNCHANGED apps /\ Overlook
    /\ UNCHANGED <<quiet, home, nss>>
Stop == Stopping("quit", "term") \/ Stopping("term", "kill") \/ Stopping("kill", "failed")
\* A SAIAI_CHATGPT_TIMEZONE that names none, or a proxy without pins.
Zone == At("zone") /\ (Fail \/ Go("spawn")) /\ UNCHANGED <<quiet, home, nss, apps>>
Child == [bundle |-> job.app, by |-> "saiai"]
Spawn ==
    /\ At("spawn")
    /\ IF job.bundle = None THEN Go("done") /\ UNCHANGED apps ELSE apps' = apps \cup {Child} /\ Go("open")
    /\ UNCHANGED <<quiet, home, nss>>
\* open -a: the app that runs, or a new one without any of the arguments.
\* After ten failures the child is killed.
Opened == [bundle |-> job.bundle, by |-> "user"]
MaxTries == 2  \* stands for ten
Open ==
    /\ At("open")
    /\ \/ /\ apps' = IF \E app \in apps : app.bundle = job.bundle THEN apps ELSE apps \cup {Opened}
          /\ Go("inspect")
       \/ job.tries + 1 < MaxTries /\ job' = [job EXCEPT !.tries = @ + 1] /\ UNCHANGED apps
       \/ job.tries + 1 = MaxTries /\ apps' = apps \ {Child} /\ Fail
    /\ UNCHANGED <<quiet, home, nss>>
\* The child must still be there.
Inspect == At("inspect") /\ (IF Child \in apps THEN Go("done") ELSE Fail) /\ UNCHANGED <<quiet, home, nss, apps>>
End == job.pc # "idle" /\ job' = Idle /\ UNCHANGED <<quiet, home, nss, apps>>
-----------------------------------------------------------------------------
(* Beside it *)

Move == moves < MaxMoves /\ moves' = moves + 1 /\ UNCHANGED <<platform, job>>
LogsIn(login) == Move /\ real' = login /\ UNCHANGED <<own, account, files, state, ca, nss, apps, now>>
\* The Desktop itself logs in or out, or writes its state.
DesktopWrites(login, seen) ==
    /\ Move /\ own' = login /\ state' = seen /\ UNCHANGED <<real, account, files, ca, nss, apps, now>>
Edits(f, d) == Move /\ files' = [files EXCEPT ![f] = d] /\ UNCHANGED <<real, own, account, state, ca, nss, apps, now>>
Renew == Move /\ ca < 2 /\ ca' = ca + 1 /\ UNCHANGED <<real, own, account, files, state, nss, apps, now>>
Tick == Move /\ now < MaxTime /\ now' = now + 1 /\ UNCHANGED <<real, own, account, files, state, ca, nss, apps>>
UserApp(app) ==
    /\ Move /\ apps' = IF app \in apps THEN apps \ {app} ELSE apps \cup {app}
    /\ UNCHANGED <<real, own, account, files, state, ca, nss, now>>
Dies == Child \in apps /\ apps' = apps \ {Child} /\ UNCHANGED <<platform, real, home, ca, nss, now, moves, job>>
-----------------------------------------------------------------------------
Tokens == {l \in Login : l.kind = "chatgpt"}
EditedDocuments == {NoFile, Broken, Doc("toml", FALSE, "true", FALSE, {"websockets", "users"}), Doc("toml", FALSE, "invalid", TRUE, {})}
Init ==
    /\ platform \in Platform /\ real \in {Plain("missing")} \cup Tokens /\ own \in {Plain("missing"), Plain("broken")} \cup Tokens
    /\ account = AccountOf(own) /\ files = [f \in File |-> NoFile] /\ state = "missing"
    /\ ca = 1 /\ nss \in (IF platform = "linux" THEN {0, None} ELSE {None})
    /\ apps = {} /\ now = 0 /\ moves = 0 /\ job = Idle

Step == \/ Start \/ Copy \/ ReadFiles \/ WriteFiles \/ ClearKey \/ WriteApps \/ WriteAccount \/ WriteState
        \/ Forget \/ Trust \/ Find \/ Look \/ Stop \/ Zone \/ Spawn \/ Open \/ Inspect \/ End
Beside == \/ \E login \in Login : LogsIn(login)
          \/ \E login \in {own, Plain("missing")} \cup Tokens, seen \in {"broken", "incomplete"} : DesktopWrites(login, seen)
          \/ \E f \in File, d \in EditedDocuments : Edits(f, d)
          \/ Renew \/ Tick \/ Dies
          \/ platform = "macos" /\ \E bundle \in Bundle : UserApp([bundle |-> bundle, by |-> "user"])
Next == Step \/ Beside
Spec == Init /\ [][Next]_vars

(***************************************************************************)
(* Properties.                                                             *)
(***************************************************************************)
Starts == job.pc = "spawn" /\ job'.pc \in {"done", "open"} /\ job.began = moves

\* The Desktop starts with the best login there is: the user's while it is
\* good, else its own, never one that has run out; and account-id names its
\* account, whatever an earlier launch that ended early had left.
HasTheLogin ==
    Starts => /\ own = IF Usable(real) THEN real ELSE IF Usable(job.before) THEN job.before ELSE Placeholder
              /\ account = AccountOf(own)

\* And with a configuration that goes through the proxy, in every profile, and
\* on Linux with a database that trusts the CA of today.
IsPrepared ==
    Starts => /\ \A f \in File : IsDocument(files[f]) => /\ files[f].routed /\ files[f].time = "false"
                                                          /\ "websockets" \notin files[f].features
              /\ "apps_off" \in files["config"].features /\ state = "complete"
              /\ nss \in {None, ca} \/ platform # "linux"

\* On macOS a launch that succeeds leaves one packaged app, the one that it has
\* started with the proxy's arguments, unless somebody opens another meanwhile
\* or what ran was overlooked.  Where the two searches find different apps there
\* is a second one, which was opened without the arguments.
IsTheOnlyOne ==
    job.pc = "inspect" /\ job'.pc = "done" /\ job.began = moves /\ ~job.unseen
        => apps = IF job.app = job.bundle THEN {Child} ELSE {Child, Opened}

\* An isolated Desktop that a launch reports has the login, the files and the one process
\* it should have, but for the second app of two searches that differ.
DesktopIsPrepared == [][HasTheLogin /\ IsPrepared /\ IsTheOnlyOne]_vars
=============================================================================

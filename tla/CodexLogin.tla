-------------------------------- MODULE CodexLogin --------------------------------
(***************************************************************************)
(* The login of Codex, auth.json, and its settings, config.toml, in        *)
(* CODEX_HOME.  Codex rewrites auth.json whenever it signs in or refreshes *)
(* its tokens, the user edits config.toml, and SAIAI rewrites both: `saiai *)
(* init-codex`, and without the initialization lock `saiai codex` and      *)
(* `saiai vscode`.  `saiai desktop` only copies the login, for a CODEX_HOME *)
(* of its own (IsolatedDesktop).                                              *)
(***************************************************************************)
EXTENDS Naturals, FiniteSets

CONSTANTS MaxTime,     \* bound on the clock, in seconds
          MaxLogins,   \* bound on the logins and refreshes of Codex
          MaxEdits,    \* bound on the user's edits of config.toml
          Opaque       \* the expiry of an access token that is not a readable JWT

LoginAssumption == MaxTime \in Nat /\ MaxLogins \in Nat /\ MaxEdits \in Nat /\ Opaque \notin Nat

Time == 0 .. MaxTime
Job  == {"init", "launch"}   \* `saiai init-codex`; `saiai codex` or `saiai vscode`

VARIABLES auth,       \* auth.json: [kind, login, expires]
          toml,       \* config.toml: the last edit of the user it holds, 0 before the first
          now,        \* the clock
          second,     \* the login in the backup of auth.json that has the name of the second
          backup,     \* logins in backups with a name of their own, which nothing writes over
          tomlBackup, \* edits in backups of config.toml
          job,        \* [Job -> [pc, stamp, auth, toml]]: commands that run
          issued,     \* history: [login, edit]: how many there have been
          overtaken   \* history: those written between SAIAI's last look and its write

vars == <<auth, toml, now, second, backup, tomlBackup, job, issued, overtaken>>

Auth(kind, login, expires) == [kind |-> kind, login |-> login, expires |-> expires]
Missing     == Auth("missing", 0, 0)
Placeholder == Auth("placeholder", 0, 0)
Stopped     == [pc |-> "stopped", stamp |-> 0, auth |-> Missing, toml |-> 0]

\* real_codex_oauth_expiry: what is there is a login of the user's.
RealLogin(a) == a.kind = "chatgpt"
Expired(a, time) == RealLogin(a) /\ a.expires # Opaque /\ a.expires <= time
Parses(a) == a.kind # "broken"
\* validate_codex_oauth_auth.
Valid(a) == a.kind \in {"chatgpt", "placeholder"}

TypeOK == /\ auth.kind \in {"missing", "broken", "other", "chatgpt", "placeholder"}
          /\ toml \in 0 .. MaxEdits /\ now \in Time
          /\ \A j \in Job : job[j].pc \in {"stopped", "read", "save", "compare", "replace", "validate",
                                           "files", "back up", "write", "load", "clear"}
-----------------------------------------------------------------------------
(* The commands of SAIAI *)

At(j, pc) == job[j].pc = pc
Go(j, pc) == job' = [job EXCEPT ![j].pc = pc]
Stop(j)   == job' = [job EXCEPT ![j] = Stopped]
\* init-codex migrates the login, then the files; the launchers do the
\* opposite, and keep a login that has expired.
AfterAuth(j)  == IF j = "init" THEN "files" ELSE "stopped"
AfterFiles(j) == IF j = "init" THEN "stopped" ELSE "read"

\* init_codex holds lock_initialization: one runs at a time.  backup_if_exists
\* writes over an older copy of that name.
StartInit ==
    /\ At("init", "stopped")
    /\ second' = [second EXCEPT ![now] = IF auth = Missing THEN @ ELSE auth.login]
    /\ tomlBackup' = tomlBackup \cup {toml}
    /\ job' = [job EXCEPT !["init"] = [Stopped EXCEPT !.pc = "read"]]
    /\ UNCHANGED <<auth, toml, now, backup, issued, overtaken>>
\* run_codex and configure_vscode.
StartLaunch ==
    /\ At("launch", "stopped") /\ Go("launch", "files")
    /\ UNCHANGED <<auth, toml, now, second, backup, tomlBackup, issued, overtaken>>

\* write_codex_local_proxy_auth_at reads the file and the clock.
ReadAuth(j) ==
    /\ At(j, "read")
    /\ LET found == [Stopped EXCEPT !.auth = auth, !.stamp = now] IN
       job' = [job EXCEPT ![j] =
          IF ~Parses(auth) THEN Stopped
          ELSE IF ~RealLogin(auth) THEN [Stopped EXCEPT !.pc = "replace"]
          ELSE IF Expired(auth, now) /\ j = "init" THEN [found EXCEPT !.pc = "save"]
          ELSE [Stopped EXCEPT !.pc = "validate"]]
    /\ UNCHANGED <<auth, toml, now, second, backup, tomlBackup, issued, overtaken>>

\* write_expired_login_backup: a name that is free, and the bytes that were read.
SaveExpired(j) ==
    /\ At(j, "save") /\ Go(j, "compare")
    /\ backup' = backup \cup {job[j].auth.login}
    /\ UNCHANGED <<auth, toml, now, second, tomlBackup, issued, overtaken>>
\* BUG: the file is not read again.
UnchangedOrNot(j) == TRUE
Unchanged(j) == auth = job[j].auth
Compare(j) ==
    /\ At(j, "compare") /\ IF Unchanged(j) THEN Go(j, "replace") ELSE Stop(j)
    /\ UNCHANGED <<auth, toml, now, second, backup, tomlBackup, issued, overtaken>>
Replace(j) ==
    /\ At(j, "replace") /\ auth' = Placeholder
    /\ job' = [job EXCEPT ![j] = [Stopped EXCEPT !.pc = "validate"]]
    /\ UNCHANGED <<toml, now, second, backup, tomlBackup, issued, overtaken>>
Validate(j) ==
    /\ At(j, "validate") /\ IF Valid(auth) THEN job' = [job EXCEPT ![j] = [Stopped EXCEPT !.pc = AfterAuth(j)]] ELSE Stop(j)
    /\ UNCHANGED <<auth, toml, now, second, backup, tomlBackup, issued, overtaken>>

\* prepare_codex_oauth_files: the documents are read and parsed, backed up,
\* written; then the API key is taken from auth.json.
ReadFiles(j) ==
    /\ At(j, "files")
    /\ \/ job' = [job EXCEPT ![j].toml = toml, ![j].pc = "back up"]
       \/ Stop(j)   \* a document of the user's does not parse
    /\ UNCHANGED <<auth, toml, now, second, backup, tomlBackup, issued, overtaken>>
BackUpFiles(j) ==
    /\ At(j, "back up") /\ Go(j, "write")
    /\ backup' = backup \cup ({auth.login} \ {0}) /\ tomlBackup' = tomlBackup \cup {toml}
    /\ UNCHANGED <<auth, toml, now, second, issued, overtaken>>
WriteFiles(j) ==
    /\ At(j, "write") /\ toml' = job[j].toml /\ job' = [job EXCEPT ![j] = [Stopped EXCEPT !.pc = "load"]]
    /\ UNCHANGED <<auth, now, second, backup, tomlBackup, issued, overtaken>>
LoadAuth(j) ==
    /\ At(j, "load")
    /\ IF Parses(auth) THEN job' = [job EXCEPT ![j].auth = auth, ![j].pc = "clear"] ELSE Stop(j)
    /\ UNCHANGED <<auth, toml, now, second, backup, tomlBackup, issued, overtaken>>
ClearApiKey(j) ==
    /\ At(j, "clear") /\ job' = [job EXCEPT ![j] = [Stopped EXCEPT !.pc = AfterFiles(j)]]
    /\ auth' = IF job[j].auth.kind \in {"missing", "other"} THEN Auth("other", 0, 0) ELSE job[j].auth
    /\ UNCHANGED <<toml, now, second, backup, tomlBackup, issued, overtaken>>

\* A command may be killed, or fail to write, anywhere.
Crash(j) ==
    /\ ~At(j, "stopped") /\ Stop(j)
    /\ UNCHANGED <<auth, toml, now, second, backup, tomlBackup, issued, overtaken>>

-----------------------------------------------------------------------------
(* Codex, the user and the clock *)

\* Someone has read the file for the last time and has yet to write it.
AuthInFlight == \E j \in Job : job[j].pc \in {"replace", "clear"}
TomlInFlight == \E j \in Job : job[j].pc = "write"
Overtaken(inFlight, what) == overtaken' = IF inFlight THEN overtaken \cup {what} ELSE overtaken

\* Signing in, or refreshing the tokens; the login before is of no use then.
Login(expires) ==
    /\ issued.login < MaxLogins /\ issued' = [issued EXCEPT !.login = @ + 1]
    /\ auth' = Auth("chatgpt", issued.login + 1, expires)
    /\ Overtaken(AuthInFlight, <<"login", issued.login + 1>>)
    /\ UNCHANGED <<toml, now, second, backup, tomlBackup, job>>
EditConfig ==
    /\ issued.edit < MaxEdits /\ issued' = [issued EXCEPT !.edit = @ + 1]
    /\ toml' = issued.edit + 1
    /\ Overtaken(TomlInFlight, <<"edit", issued.edit + 1>>)
    /\ UNCHANGED <<auth, now, second, backup, tomlBackup, job>>
Tick ==
    /\ now < MaxTime /\ now' = now + 1
    /\ UNCHANGED <<auth, toml, second, backup, tomlBackup, job, issued, overtaken>>
-----------------------------------------------------------------------------
Init ==
    /\ auth \in {Missing, Placeholder, Auth("broken", 0, 0), Auth("other", 0, 0)}
                \cup {Auth("chatgpt", 1, e) : e \in {0, 1, Opaque}}
    /\ toml = 0 /\ now = 0 /\ second = [t \in Time |-> 0] /\ backup = {} /\ tomlBackup = {}
    /\ job = [j \in Job |-> Stopped]
    /\ issued = [login |-> auth.login, edit |-> 0] /\ overtaken = {}

JobStep(j) == \/ ReadAuth(j) \/ SaveExpired(j) \/ Compare(j) \/ Replace(j) \/ Validate(j)
              \/ ReadFiles(j) \/ BackUpFiles(j) \/ WriteFiles(j) \/ LoadAuth(j) \/ ClearApiKey(j)
              \/ Crash(j)
Next == \/ StartInit \/ StartLaunch \/ EditConfig \/ Tick
        \/ \E j \in Job : JobStep(j)
        \/ \E expires \in {1, Opaque} : Login(expires)

Spec == Init /\ [][Next]_vars

(***************************************************************************)
(* Properties.                                                             *)
(***************************************************************************)
\* The newest login of the user, whether or not its access token has expired,
\* is never lost to SAIAI's placeholder: it is in auth.json or in a backup; so
\* is the user's last edit of config.toml.  Excepted is only what was written
\* between SAIAI's last look at the file and its write, the window that a
\* comment in write_codex_local_proxy_auth_at calls narrow.
LoginsSurvive ==
    /\ issued.login = 0 \/ issued.login \in {auth.login} \cup backup \cup {second[t] : t \in Time}
         \/ <<"login", issued.login>> \in overtaken
    /\ issued.edit \in {toml} \cup tomlBackup \/ <<"edit", issued.edit>> \in overtaken
=============================================================================

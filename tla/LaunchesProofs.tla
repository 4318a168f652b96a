---------------------------- MODULE LaunchesProofs ----------------------------
(***************************************************************************)
(* Proofs about what MCLaunches composes, for any numbers of logins,       *)
(* edits, commands, launches, windows, refreshes and of what moves beside  *)
(* them: CodexLogin (none of the user's logins is lost), CodexDaemon (a    *)
(* refresh spares sessions and tells the truth), EnvironmentLaunch (a      *)
(* client reaches its own proxy), PackagedDesktop (what a launch reports   *)
(* is so) and IsolatedDesktop (a Desktop starts prepared).                 *)
(***************************************************************************)
EXTENDS MCLaunches, FiniteSetTheorems, TLAPS

PCs == {"stopped", "read", "save", "compare", "replace", "validate", "files", "back up", "write", "load", "clear"}
Auths == [kind : {"missing", "broken", "other", "chatgpt", "placeholder"}, login : Nat, expires : Nat \cup {Opaque}]
Jobs == [pc : PCs, stamp : Time, auth : Auths, toml : 0 .. MaxEdits]

LoginTypes ==
    /\ auth \in Auths /\ toml \in 0 .. MaxEdits /\ now \in Time
    /\ second \in [Time -> Nat] /\ job \in [Job -> Jobs]
    /\ issued \in [login : Nat, edit : Nat]

\* The user's last login, or last edit, has nothing to fear any more: it is in a
\* backup that nothing writes over, or came when a command had looked for the
\* last time.
LoginIsSafe == issued.login = 0 \/ issued.login \in backup \/ <<"login", issued.login>> \in overtaken
EditIsSafe  == issued.edit \in tomlBackup \/ <<"edit", issued.edit>> \in overtaken

\* Only a login has a number.
Numbered(a) == a.login # 0 => a.kind = "chatgpt"

\* What a command has read and will write, or compare with what is there.
SavedBefore(j) == job[j].pc = "compare" => job[j].auth.login = 0 \/ job[j].auth.login \in backup
ReplacesSafely(j) == job[j].pc = "replace" => LoginIsSafe
ClearsSafely(j) == job[j].pc = "clear" => LoginIsSafe \/ job[j].auth.login = issued.login
WritesSafely(j) == job[j].pc = "write" => EditIsSafe
Carries(j) == /\ Numbered(job[j].auth)
              /\ SavedBefore(j) /\ ReplacesSafely(j) /\ ClearsSafely(j) /\ WritesSafely(j)

LoginInv ==
    /\ LoginTypes
    /\ Numbered(auth)
    /\ LoginIsSafe \/ auth.login = issued.login
    /\ EditIsSafe \/ toml = issued.edit
    /\ \A j \in Job : Carries(j)

(***************************************************************************)
(* The steps of one command: the others go on as they were.                *)
(***************************************************************************)
\* What is safe stays so, and nothing new is issued.
Keeps == /\ issued' = issued /\ backup \subseteq backup' /\ tomlBackup \subseteq tomlBackup'
         /\ overtaken' = overtaken
LEMMA SafeStays == ASSUME Keeps PROVE (LoginIsSafe => LoginIsSafe') /\ (EditIsSafe => EditIsSafe')
BY DEF Keeps, LoginIsSafe, EditIsSafe

LEMMA OthersCarry == ASSUME Keeps, NEW k \in Job, Carries(k), job'[k] = job[k] PROVE Carries(k)'
BY SafeStays DEF Keeps, Carries, Numbered, SavedBefore, ReplacesSafely, ClearsSafely, WritesSafely

\* A step of the command j that leaves it with the record r.
Becomes(j, r) == job' = [job EXCEPT ![j] = r] /\ Keeps
LEMMA JobStepKeeps ==
    ASSUME LoginInv, NEW j \in Job, NEW r \in Jobs, Becomes(j, r), Carries(j)',
           auth' \in Auths, Numbered(auth)', LoginIsSafe' \/ auth'.login = issued.login,
           toml' \in 0 .. MaxEdits, EditIsSafe' \/ toml' = issued.edit,
           now' \in Time, second' \in [Time -> Nat]
    PROVE  LoginInv'
<1>1. job' \in [Job -> Jobs] /\ \A k \in Job \ {j} : job'[k] = job[k]
  BY DEF Becomes, LoginInv, LoginTypes
<1>2. \A k \in Job : Carries(k)'
  BY <1>1, OthersCarry DEF Becomes, LoginInv
<1> QED BY <1>1, <1>2 DEF Becomes, Keeps, LoginInv, LoginTypes

LEMMA StoppedType == ASSUME LoginAssumption PROVE Stopped \in Jobs /\ Stopped.pc = "stopped" /\ Stopped.auth.login = 0 /\ Numbered(Stopped.auth)
BY DEF LoginAssumption, Stopped, Jobs, PCs, Auths, Missing, Auth, Time, Numbered

\* With nothing read, and no write ahead, there is nothing to lose.
Idle == {"stopped", "read", "save", "validate", "files", "back up", "load"}
LEMMA IdleCarries ==
    ASSUME NEW j \in Job, NEW r \in Jobs, job'[j] = r, r.pc \in Idle, Numbered(r.auth)
    PROVE  Carries(j)'
BY DEF Carries, Idle, Numbered, SavedBefore, ReplacesSafely, ClearsSafely, WritesSafely

LEMMA ToIdle ==
    ASSUME LoginAssumption, LoginInv, NEW j \in Job, NEW r \in Jobs, Becomes(j, r), r.pc \in Idle, Numbered(r.auth),
           UNCHANGED <<auth, toml, now>>, second' \in [Time -> Nat]
    PROVE  LoginInv'
<1>1. job'[j] = r
  BY DEF Becomes, LoginInv, LoginTypes
<1>2. Carries(j)'
  BY <1>1, IdleCarries
<1> QED BY <1>2, JobStepKeeps, SafeStays DEF Becomes, LoginInv, LoginTypes, Numbered

\* The record of a command after a step, by the step.
LEMMA Records ==
    ASSUME LoginAssumption, LoginInv, NEW j \in Job, NEW pc \in PCs
    PROVE  /\ [Stopped EXCEPT !.pc = pc] \in Jobs /\ [Stopped EXCEPT !.pc = pc].pc = pc
           /\ Numbered([Stopped EXCEPT !.pc = pc].auth)
           /\ [job[j] EXCEPT !.pc = pc] \in Jobs /\ [job[j] EXCEPT !.pc = pc].pc = pc
           /\ [job[j] EXCEPT !.pc = pc].auth = job[j].auth /\ [job[j] EXCEPT !.pc = pc].toml = job[j].toml
           /\ Numbered(job[j].auth)
BY StoppedType DEF LoginInv, LoginTypes, Jobs, Stopped, Carries

LEMMA StartStep ==
    ASSUME LoginAssumption, LoginInv, StartInit \/ StartLaunch
    PROVE  LoginInv'
<1>1. CASE StartInit
  <2> DEFINE r == [Stopped EXCEPT !.pc = "read"]
  <2>1. r \in Jobs /\ r.pc \in Idle /\ Numbered(r.auth)
    BY <1>1, Records DEF PCs, Idle, Job
  <2> HIDE DEF r
  <2>2. Becomes("init", r)
    BY <1>1 DEF StartInit, Becomes, Keeps, r
  <2>3. second' \in [Time -> Nat]
    BY <1>1 DEF StartInit, LoginInv, LoginTypes, Auths
  <2> QED BY <1>1, <2>1, <2>2, <2>3, ToIdle DEF StartInit, Job
<1>2. CASE StartLaunch
  <2> DEFINE r == [job["launch"] EXCEPT !.pc = "files"]
  <2>1. r \in Jobs /\ r.pc \in Idle /\ Numbered(r.auth)
    BY <1>2, Records DEF PCs, Idle, Job
  <2>2. Becomes("launch", r)
    BY <1>2 DEF StartLaunch, Go, Becomes, Keeps, LoginInv, LoginTypes
  <2> HIDE DEF r
  <2> QED BY <1>2, <2>1, <2>2, ToIdle DEF StartLaunch, Job, LoginInv, LoginTypes
<1> QED BY <1>1, <1>2

\* The commands that are killed, fail, or have nothing more to do.
LEMMA StopStep ==
    ASSUME LoginAssumption, LoginInv, NEW j \in Job, Stop(j), UNCHANGED <<auth, toml, now, second, backup, tomlBackup, issued, overtaken>>
    PROVE  LoginInv'
<1>1. Becomes(j, Stopped)
  BY DEF Stop, Becomes, Keeps
<1> QED BY <1>1, StoppedType, ToIdle DEF Idle, LoginInv, LoginTypes

LEMMA ReadAuthStep ==
    ASSUME LoginAssumption, LoginInv, NEW j \in Job, ReadAuth(j)
    PROVE  LoginInv'
<1>1. UNCHANGED <<auth, toml, now, second, backup, tomlBackup, issued, overtaken>> /\ Keeps
  BY DEF ReadAuth, Keeps
<1>2. CASE Stop(j)
  BY <1>1, <1>2, StopStep
<1>3. CASE ~RealLogin(auth) /\ job' = [job EXCEPT ![j] = [Stopped EXCEPT !.pc = "replace"]]
  <2> DEFINE r == [Stopped EXCEPT !.pc = "replace"]
  <2>1. r \in Jobs /\ r.pc = "replace" /\ Numbered(r.auth)
    BY Records DEF PCs
  <2> HIDE DEF r
  <2>2. Becomes(j, r) /\ job'[j] = r
    BY <1>1, <1>3 DEF Becomes, LoginInv, LoginTypes, r
  <2>3. LoginIsSafe'
    BY <1>1, <1>3, SafeStays DEF LoginInv, Numbered, RealLogin, LoginIsSafe
  <2>4. Carries(j)'
    BY <2>1, <2>2, <2>3 DEF Carries, Numbered, SavedBefore, ReplacesSafely, ClearsSafely, WritesSafely
  <2> QED BY <1>1, <2>1, <2>2, <2>4, SafeStays, JobStepKeeps DEF LoginInv, LoginTypes, Numbered
<1>4. CASE job' = [job EXCEPT ![j] = [[Stopped EXCEPT !.auth = auth, !.stamp = now] EXCEPT !.pc = "save"]]
  <2> DEFINE r == [[Stopped EXCEPT !.auth = auth, !.stamp = now] EXCEPT !.pc = "save"]
  <2>1. r \in Jobs /\ r.pc \in Idle /\ r.auth = auth
    BY StoppedType DEF LoginInv, LoginTypes, Jobs, PCs, Stopped, Idle
  <2> HIDE DEF r
  <2>2. Becomes(j, r)
    BY <1>1, <1>4 DEF Becomes, r
  <2> QED BY <1>1, <2>1, <2>2, ToIdle DEF LoginInv, LoginTypes, Numbered
<1>5. CASE job' = [job EXCEPT ![j] = [Stopped EXCEPT !.pc = "validate"]]
  <2> DEFINE r == [Stopped EXCEPT !.pc = "validate"]
  <2>1. r \in Jobs /\ r.pc \in Idle /\ Numbered(r.auth)
    BY Records DEF PCs, Idle
  <2> HIDE DEF r
  <2>2. Becomes(j, r)
    BY <1>1, <1>5 DEF Becomes, r
  <2> QED BY <1>1, <2>1, <2>2, ToIdle DEF LoginInv, LoginTypes
<1> QED BY <1>2, <1>3, <1>4, <1>5 DEF ReadAuth, Stop

LEMMA SaveExpiredStep ==
    ASSUME LoginAssumption, LoginInv, NEW j \in Job, SaveExpired(j)
    PROVE  LoginInv'
<1> DEFINE r == [job[j] EXCEPT !.pc = "compare"]
<1>1. r \in Jobs /\ r.pc = "compare" /\ r.auth = job[j].auth /\ Numbered(r.auth)
  BY Records DEF PCs
<1>2. Becomes(j, r)
  BY DEF SaveExpired, Go, Becomes, Keeps, LoginInv, LoginTypes
<1> HIDE DEF r
<1>3. job'[j] = r
  BY <1>2 DEF Becomes, LoginInv, LoginTypes
<1>4. Carries(j)'
  BY <1>1, <1>3 DEF SaveExpired, Carries, Numbered, SavedBefore, ReplacesSafely, ClearsSafely, WritesSafely
<1> QED BY <1>1, <1>2, <1>4, SafeStays, JobStepKeeps DEF SaveExpired, Becomes, LoginInv, LoginTypes, Numbered

LEMMA CompareStep ==
    ASSUME LoginAssumption, LoginInv, NEW j \in Job, Compare(j)
    PROVE  LoginInv'
<1>1. UNCHANGED <<auth, toml, now, second, backup, tomlBackup, issued, overtaken>> /\ Keeps
  BY DEF Compare, Keeps
<1>2. CASE Stop(j)
  BY <1>1, <1>2, StopStep
<1>3. CASE Unchanged(j) /\ Go(j, "replace")
  <2> DEFINE r == [job[j] EXCEPT !.pc = "replace"]
  <2>1. r \in Jobs /\ r.pc = "replace" /\ Numbered(r.auth)
    BY Records DEF PCs
  <2>2. Becomes(j, r)
    BY <1>1, <1>3 DEF Go, Becomes, LoginInv, LoginTypes
  <2> HIDE DEF r
  <2>3. job'[j] = r
    BY <2>2 DEF Becomes, LoginInv, LoginTypes
  \* What is there is what was read, and that is in a backup.
  <2>4. LoginIsSafe'
    <3>1. job[j].auth.login = 0 \/ job[j].auth.login \in backup
      BY DEF Compare, At, LoginInv, Carries, SavedBefore
    <3>2. auth.login = job[j].auth.login
      BY <1>3 DEF Unchanged
    <3> QED BY <1>1, <3>1, <3>2, SafeStays DEF LoginInv, LoginIsSafe
  <2>5. Carries(j)'
    BY <2>1, <2>3, <2>4 DEF Carries, Numbered, SavedBefore, ReplacesSafely, ClearsSafely, WritesSafely
  <2> QED BY <1>1, <2>1, <2>2, <2>5, SafeStays, JobStepKeeps DEF LoginInv, LoginTypes, Numbered
<1> QED BY <1>2, <1>3 DEF Compare

LEMMA ReplaceStep ==
    ASSUME LoginAssumption, LoginInv, NEW j \in Job, Replace(j)
    PROVE  LoginInv'
<1> DEFINE r == [Stopped EXCEPT !.pc = "validate"]
<1>1. r \in Jobs /\ r.pc \in Idle /\ Numbered(r.auth)
  BY Records DEF PCs, Idle
<1> HIDE DEF r
<1>2. Becomes(j, r)
  BY DEF Replace, Becomes, Keeps, r
<1>3. Carries(j)'
  BY <1>1, <1>2, IdleCarries DEF Becomes, LoginInv, LoginTypes
<1>4. auth' \in Auths /\ Numbered(auth)'
  BY DEF Replace, Placeholder, Auth, Auths, Numbered
<1>5. LoginIsSafe'
  BY <1>2, SafeStays DEF Replace, At, Becomes, LoginInv, Carries, ReplacesSafely
<1> QED BY <1>1, <1>2, <1>3, <1>4, <1>5, SafeStays, JobStepKeeps DEF Replace, Becomes, Keeps, LoginInv, LoginTypes

LEMMA ValidateStep ==
    ASSUME LoginAssumption, LoginInv, NEW j \in Job, Validate(j)
    PROVE  LoginInv'
<1>1. UNCHANGED <<auth, toml, now, second, backup, tomlBackup, issued, overtaken>> /\ Keeps
  BY DEF Validate, Keeps
<1>2. CASE Stop(j)
  BY <1>1, <1>2, StopStep
<1>3. CASE job' = [job EXCEPT ![j] = [Stopped EXCEPT !.pc = AfterAuth(j)]]
  <2> DEFINE r == [Stopped EXCEPT !.pc = AfterAuth(j)]
  <2>1. r \in Jobs /\ r.pc \in Idle /\ Numbered(r.auth)
    <3>1. AfterAuth(j) \in PCs /\ AfterAuth(j) \in Idle
      BY DEF AfterAuth, PCs, Idle
    <3> QED BY <3>1, Records
  <2> HIDE DEF r
  <2>2. Becomes(j, r)
    BY <1>1, <1>3 DEF Becomes, r
  <2> QED BY <1>1, <2>1, <2>2, ToIdle DEF LoginInv, LoginTypes
<1> QED BY <1>2, <1>3 DEF Validate

LEMMA ReadFilesStep ==
    ASSUME LoginAssumption, LoginInv, NEW j \in Job, ReadFiles(j)
    PROVE  LoginInv'
<1>1. UNCHANGED <<auth, toml, now, second, backup, tomlBackup, issued, overtaken>> /\ Keeps
  BY DEF ReadFiles, Keeps
<1>2. CASE Stop(j)
  BY <1>1, <1>2, StopStep
<1>3. CASE job' = [job EXCEPT ![j].toml = toml, ![j].pc = "back up"]
  <2> DEFINE r == [job[j] EXCEPT !.toml = toml, !.pc = "back up"]
  <2>1. r \in Jobs /\ r.pc \in Idle /\ r.auth = job[j].auth
    BY DEF LoginInv, LoginTypes, Jobs, PCs, Idle
  <2>2. Becomes(j, r)
    BY <1>1, <1>3 DEF Becomes, LoginInv, LoginTypes
  <2> HIDE DEF r
  <2>3. Numbered(r.auth)
    BY <2>1 DEF LoginInv, Carries, Numbered
  <2> QED BY <1>1, <2>1, <2>2, <2>3, ToIdle DEF LoginInv, LoginTypes
<1> QED BY <1>2, <1>3 DEF ReadFiles

\* What is there is in a backup from here on.
LEMMA BackUpFilesStep ==
    ASSUME LoginAssumption, LoginInv, NEW j \in Job, BackUpFiles(j)
    PROVE  LoginInv'
<1> DEFINE r == [job[j] EXCEPT !.pc = "write"]
<1>1. r \in Jobs /\ r.pc = "write" /\ r.auth = job[j].auth /\ Numbered(r.auth)
  BY Records DEF PCs
<1>2. Becomes(j, r)
  BY DEF BackUpFiles, Go, Becomes, Keeps, LoginInv, LoginTypes
<1> HIDE DEF r
<1>3. job'[j] = r
  BY <1>2 DEF Becomes, LoginInv, LoginTypes
<1>4. EditIsSafe'
  BY DEF BackUpFiles, LoginInv, EditIsSafe
<1>5. Carries(j)'
  BY <1>1, <1>3, <1>4 DEF Carries, Numbered, SavedBefore, ReplacesSafely, ClearsSafely, WritesSafely
<1> QED BY <1>1, <1>2, <1>5, SafeStays, JobStepKeeps DEF BackUpFiles, Becomes, LoginInv, LoginTypes, Numbered

LEMMA WriteFilesStep ==
    ASSUME LoginAssumption, LoginInv, NEW j \in Job, WriteFiles(j)
    PROVE  LoginInv'
<1> DEFINE r == [Stopped EXCEPT !.pc = "load"]
<1>1. r \in Jobs /\ r.pc \in Idle /\ Numbered(r.auth)
  BY Records DEF PCs, Idle
<1> HIDE DEF r
<1>2. Becomes(j, r)
  BY DEF WriteFiles, Becomes, Keeps, r
<1>3. Carries(j)'
  BY <1>1, <1>2, IdleCarries DEF Becomes, LoginInv, LoginTypes
<1>4. EditIsSafe'
  BY <1>2, SafeStays DEF WriteFiles, At, Becomes, LoginInv, Carries, WritesSafely
<1>5. job[j].toml \in 0 .. MaxEdits
  BY DEF LoginInv, LoginTypes, Jobs
<1> QED BY <1>1, <1>2, <1>3, <1>4, <1>5, SafeStays, JobStepKeeps DEF WriteFiles, Becomes, Keeps, LoginInv, LoginTypes, Numbered

LEMMA LoadAuthStep ==
    ASSUME LoginAssumption, LoginInv, NEW j \in Job, LoadAuth(j)
    PROVE  LoginInv'
<1>1. UNCHANGED <<auth, toml, now, second, backup, tomlBackup, issued, overtaken>> /\ Keeps
  BY DEF LoadAuth, Keeps
<1>2. CASE Stop(j)
  BY <1>1, <1>2, StopStep
<1>3. CASE job' = [job EXCEPT ![j].auth = auth, ![j].pc = "clear"]
  <2> DEFINE r == [job[j] EXCEPT !.auth = auth, !.pc = "clear"]
  <2>1. r \in Jobs /\ r.pc = "clear" /\ r.auth = auth
    BY DEF LoginInv, LoginTypes, Jobs, PCs
  <2>2. Becomes(j, r)
    BY <1>1, <1>3 DEF Becomes, LoginInv, LoginTypes
  <2> HIDE DEF r
  <2>3. job'[j] = r
    BY <2>2 DEF Becomes, LoginInv, LoginTypes
  <2>4. LoginIsSafe' \/ auth.login = issued'.login
    BY <1>1, SafeStays DEF LoginInv
  <2>5. Carries(j)'
    BY <2>1, <2>3, <2>4 DEF LoginInv, Carries, Numbered, SavedBefore, ReplacesSafely, ClearsSafely, WritesSafely
  <2> QED BY <1>1, <2>1, <2>2, <2>5, SafeStays, JobStepKeeps DEF LoginInv, LoginTypes, Numbered
<1> QED BY <1>2, <1>3 DEF LoadAuth

LEMMA ClearApiKeyStep ==
    ASSUME LoginAssumption, LoginInv, NEW j \in Job, ClearApiKey(j)
    PROVE  LoginInv'
<1> DEFINE r == [Stopped EXCEPT !.pc = AfterFiles(j)]
<1>1. r \in Jobs /\ r.pc \in Idle /\ Numbered(r.auth)
  <2>1. AfterFiles(j) \in PCs /\ AfterFiles(j) \in Idle
    BY DEF AfterFiles, PCs, Idle
  <2> QED BY <2>1, Records
<1> HIDE DEF r
<1>2. Becomes(j, r)
  BY DEF ClearApiKey, Becomes, Keeps, r
<1>3. Carries(j)'
  BY <1>1, <1>2, IdleCarries DEF Becomes, LoginInv, LoginTypes
<1>4. job[j].auth \in Auths /\ Numbered(job[j].auth) /\ (LoginIsSafe \/ job[j].auth.login = issued.login)
  BY DEF ClearApiKey, At, LoginInv, LoginTypes, Jobs, Carries, ClearsSafely
<1>5. CASE job[j].auth.kind \in {"missing", "other"}
  <2>1. auth' \in Auths /\ Numbered(auth)' /\ auth'.login = 0
    BY <1>5 DEF ClearApiKey, Auth, Auths, Numbered
  <2>2. LoginIsSafe \/ issued.login = 0
    BY <1>4, <1>5 DEF Numbered
  <2>3. LoginIsSafe'
    BY <1>2, <2>2, SafeStays DEF LoginIsSafe, Becomes
  <2> QED BY <1>1, <1>2, <1>3, <2>1, <2>3, SafeStays, JobStepKeeps DEF ClearApiKey, Becomes, Keeps, LoginInv, LoginTypes
<1>6. CASE job[j].auth.kind \notin {"missing", "other"}
  <2>1. auth' = job[j].auth
    BY <1>6 DEF ClearApiKey
  <2>2. auth' \in Auths /\ Numbered(auth)' /\ (LoginIsSafe' \/ auth'.login = issued.login)
    BY <1>2, <1>4, <2>1, SafeStays DEF Numbered, Becomes
  <2> QED BY <1>1, <1>2, <1>3, <2>2, SafeStays, JobStepKeeps DEF ClearApiKey, Becomes, Keeps, LoginInv, LoginTypes
<1> QED BY <1>5, <1>6

(***************************************************************************)
(* Codex, the user and the clock.                                          *)
(***************************************************************************)
LEMMA LoginStep ==
    ASSUME LoginAssumption, LoginInv, NEW expires \in {1, Opaque}, Login(expires)
    PROVE  LoginInv'
<1>1. /\ UNCHANGED <<toml, now, second, backup, tomlBackup, job>> /\ issued' = [issued EXCEPT !.login = @ + 1]
      /\ auth' = Auth("chatgpt", issued.login + 1, expires)
      /\ overtaken' = IF AuthInFlight THEN overtaken \cup {<<"login", issued.login + 1>>} ELSE overtaken
  BY DEF Login, Overtaken
<1>2. issued' \in [login : Nat, edit : Nat] /\ issued'.login = issued.login + 1 /\ issued'.edit = issued.edit
  BY <1>1 DEF LoginInv, LoginTypes
<1>3. auth' \in Auths /\ Numbered(auth)' /\ auth'.login = issued'.login
  BY <1>1, <1>2 DEF Auth, Auths, Numbered, LoginInv, LoginTypes
<1>4. LoginTypes'
  BY <1>1, <1>2, <1>3 DEF LoginInv, LoginTypes
<1>5. EditIsSafe => EditIsSafe'
  BY <1>1, <1>2 DEF EditIsSafe
<1>6. AuthInFlight => LoginIsSafe'
  BY <1>1, <1>2 DEF LoginIsSafe
<1>7. ASSUME NEW j \in Job PROVE Carries(j)'
  <2>1. job[j].pc \in {"replace", "clear"} => LoginIsSafe'
    BY <1>6 DEF AuthInFlight
  <2> QED BY <1>1, <1>5, <2>1 DEF LoginInv, Carries, Numbered, SavedBefore, ReplacesSafely, ClearsSafely, WritesSafely
<1> QED BY <1>1, <1>2, <1>3, <1>4, <1>5, <1>7 DEF LoginInv

LEMMA EditStep ==
    ASSUME LoginAssumption, LoginInv, EditConfig
    PROVE  LoginInv'
<1>1. /\ UNCHANGED <<auth, now, second, backup, tomlBackup, job>> /\ issued' = [issued EXCEPT !.edit = @ + 1]
      /\ toml' = issued.edit + 1 /\ issued.edit < MaxEdits
      /\ overtaken' = IF TomlInFlight THEN overtaken \cup {<<"edit", issued.edit + 1>>} ELSE overtaken
  BY DEF EditConfig, Overtaken
<1>2. issued' \in [login : Nat, edit : Nat] /\ issued'.login = issued.login /\ issued'.edit = issued.edit + 1
  BY <1>1 DEF LoginInv, LoginTypes
<1>3. toml' \in 0 .. MaxEdits /\ toml' = issued'.edit
  BY <1>1, <1>2 DEF LoginInv, LoginTypes, LoginAssumption
<1>4. LoginTypes'
  BY <1>1, <1>2, <1>3 DEF LoginInv, LoginTypes
<1>5. LoginIsSafe => LoginIsSafe'
  BY <1>1, <1>2 DEF LoginIsSafe
<1>6. TomlInFlight => EditIsSafe'
  BY <1>1, <1>2 DEF EditIsSafe
<1>7. ASSUME NEW j \in Job PROVE Carries(j)'
  <2>1. job[j].pc = "write" => EditIsSafe'
    BY <1>6 DEF TomlInFlight
  <2> QED BY <1>1, <1>2, <1>5, <2>1 DEF LoginInv, Carries, Numbered, SavedBefore, ReplacesSafely, ClearsSafely, WritesSafely
<1> QED BY <1>1, <1>2, <1>3, <1>4, <1>5, <1>7 DEF LoginInv, Numbered

LEMMA Unchanging ==
    ASSUME LoginInv, UNCHANGED <<auth, toml, second, backup, tomlBackup, job, issued, overtaken>>, now' \in Time
    PROVE  LoginInv'
BY DEF LoginInv, LoginTypes, LoginIsSafe, EditIsSafe, Numbered, Carries, SavedBefore, ReplacesSafely, ClearsSafely, WritesSafely

LEMMA LoginInit == ASSUME LoginAssumption, Init PROVE LoginInv
<1>1. auth \in Auths /\ Numbered(auth)
  BY DEF Init, Missing, Placeholder, Auth, Auths, Numbered
<1>2. job \in [Job -> Jobs] /\ \A j \in Job : job[j] = Stopped
  BY StoppedType DEF Init
<1>3. LoginTypes
  BY <1>1, <1>2 DEF Init, LoginTypes, LoginAssumption, Time, Auths
<1>4. \A j \in Job : Carries(j)
  BY <1>2, StoppedType DEF Carries, SavedBefore, ReplacesSafely, ClearsSafely, WritesSafely
<1> QED BY <1>1, <1>3, <1>4 DEF Init, LoginInv

LEMMA LoginNext == ASSUME LoginAssumption, LoginInv, [Next]_vars PROVE LoginInv'
<1>1. CASE UNCHANGED vars
  BY <1>1, Unchanging DEF vars, LoginInv, LoginTypes
<1>2. CASE StartInit \/ StartLaunch
  BY <1>2, StartStep
<1>3. CASE EditConfig
  BY <1>3, EditStep
<1>4. CASE Tick
  <2>1. now' \in Time
    BY <1>4 DEF Tick, Time, LoginInv, LoginTypes, LoginAssumption
  <2> QED BY <1>4, <2>1, Unchanging DEF Tick
<1>5. ASSUME NEW expires \in {1, Opaque}, Login(expires) PROVE LoginInv'
  BY <1>5, LoginStep
<1>6. ASSUME NEW j \in Job, JobStep(j) PROVE LoginInv'
  <2>1. CASE Crash(j)
    BY <2>1, StopStep DEF Crash
  <2> QED BY <1>6, <2>1, ReadAuthStep, SaveExpiredStep, CompareStep, ReplaceStep, ValidateStep,
             ReadFilesStep, BackUpFilesStep, WriteFilesStep, LoadAuthStep, ClearApiKeyStep DEF JobStep
<1> QED BY <1>1, <1>2, <1>3, <1>4, <1>5, <1>6 DEF Next

-----------------------------------------------------------------------------
(* Codex's app-server (CodexDaemon) *)

Reportable == ServerVersion \cup {0}
Daemons == [up : BOOLEAN, version : Reportable, backend : {"pid", "other"}, signed : BOOLEAN, fresh : Nat, threads : SUBSET Thread]
DaemonReports == [cli : Reportable, app : Reportable, managed : Reportable]
RefreshPcs == {"idle", "version", "account", "threads", "decide", "helper", "version2", "account2", "threads2", "verify"}
RefreshResults == {"none", "Absent", "UpdateApplied", "RestartFailed", "NewerRunning", "Deferred", "UpdateUnconfirmed", "Updated", "Restarted"}
Refreshments == [pc : RefreshPcs, report : DaemonReports, loaded : SUBSET Thread, signed : BOOLEAN, update : BOOLEAN,
                 after : Reportable, result : RefreshResults]
DaemonTypes ==
    /\ daemon \in Daemons /\ socket \in BOOLEAN /\ managed \in ServerVersion /\ cli \in ServerVersion
    /\ restarter \in {"none", "copy", "stop", "start", "confirm", "confirmed", "failed"}
    /\ refresh \in Refreshments /\ daemonCount \in [outside : Nat, refreshes : Nat]

\* Whoever is connected, the refresh has counted or seen come since; and the
\* official command is there while the refresh waits for it.
Sessions ==
    /\ refresh.pc = "decide" => daemon.threads \subseteq refresh.loaded \cup recent
    /\ restarter # "none" => refresh.pc = "helper"
    /\ restarter \in {"copy", "stop"} => daemon.threads \subseteq recent
\* Before it restarts it, the refresh has to do with the daemon of another.
Generations ==
    /\ daemon.up => socket
    /\ daemon.fresh <= daemonCount.refreshes
    /\ refresh.pc \in {"version", "account", "threads", "decide"} => daemon.fresh < daemonCount.refreshes
\* What the refresh read is so as long as nobody else changes it: what the
\* packages are, that the daemon runs, and what it runs.
Reading == {"account", "threads", "decide"}
Checking == {"version2", "account2", "threads2", "verify"}
IsEnough(version) == \A v \in D!Floors(refresh.report) : D!Parses(version) => version >= v
Undisturbed ==
    ~outside =>
        /\ refresh.pc \in Reading =>
               /\ daemon.up /\ refresh.report.cli = D!Shown(cli) /\ refresh.report.managed = D!Shown(managed)
               /\ cli \in Silent => refresh.report.app = 0
        /\ restarter = "copy" => refresh.update /\ IsEnough(cli)
        /\ restarter \in {"stop", "start"} => IsEnough(managed)
        /\ restarter \in {"stop", "start", "confirm", "confirmed"} \/ refresh.pc \in Checking
               => (refresh.update => managed = cli /\ pinned)
        /\ restarter \in {"confirm", "confirmed"} \/ refresh.pc \in Checking
               => daemon.up /\ daemon.fresh = daemonCount.refreshes
        /\ refresh.pc \in {"account2", "threads2", "verify"} => refresh.after = D!Shown(daemon.version)
        /\ refresh.pc \in {"threads2", "verify"} => (refresh.signed <=> daemon.signed)
DaemonInv == DaemonTypes /\ Sessions /\ Generations /\ Undisturbed

LEMMA VersionsAreNumbers == ServerVersion \subseteq Nat \ {0} /\ Reportable \subseteq Nat
BY PartsAssumption DEF D!CodexDaemonAssumption, Reportable
LEMMA DownIsDaemon == D!Down \in Daemons /\ ~D!Down.up /\ D!Down.fresh = 0 /\ D!Down.threads = {}
BY DEF D!Down, Daemons, Reportable

LEMMA DaemonInit == D!Init => DaemonInv
<1> SUFFICES ASSUME D!Init PROVE DaemonInv
  OBVIOUS
<1>1. D!NoReport \in DaemonReports
  BY DEF D!NoReport, DaemonReports, Reportable
<1>2. refresh \in Refreshments /\ refresh.pc = "idle"
  BY <1>1, Zenon DEF D!Init, D!Idle, Refreshments, RefreshPcs, RefreshResults, Reportable
<1>3. daemonCount \in [outside : Nat, refreshes : Nat] /\ daemonCount.refreshes = 0
  BY Zenon DEF D!Init
<1>4. daemon \in Daemons /\ daemon.fresh = 0 /\ (daemon.up => socket) /\ socket \in BOOLEAN
  <2>1. CASE daemon = D!Down /\ socket \in BOOLEAN
    BY <2>1, DownIsDaemon
  <2>2. CASE socket = TRUE /\ \E v \in ServerVersion, backend \in {"pid", "other"} :
                daemon = [D!Down EXCEPT !.up = TRUE, !.version = v, !.backend = backend]
    <3>1. PICK v \in ServerVersion, b \in {"pid", "other"} : daemon = [D!Down EXCEPT !.up = TRUE, !.version = v, !.backend = b]
      BY <2>2, Zenon
    <3>2. daemon \in Daemons /\ daemon.fresh = 0
      BY <3>1, DownIsDaemon DEF Daemons, Reportable
    <3> QED BY <2>2, <3>2
  <2>3. \/ daemon = D!Down /\ socket \in BOOLEAN
        \/ socket = TRUE /\ \E v \in ServerVersion, backend \in {"pid", "other"} :
                daemon = [D!Down EXCEPT !.up = TRUE, !.version = v, !.backend = backend]
    BY Zenon DEF D!Init
  <2> QED BY <2>1, <2>2, <2>3, Zenon
<1>5. managed \in ServerVersion /\ cli \in ServerVersion /\ restarter = "none"
  BY Zenon DEF D!Init
<1> QED BY <1>2, <1>3, <1>4, <1>5 DEF DaemonInv, DaemonTypes, Sessions, Generations, Undisturbed, Reading, Checking

(* The refresh *)

LEMMA RefreshGoes ==
    ASSUME DaemonTypes
    PROVE  /\ \A pc \in RefreshPcs : D!Go(pc) => /\ refresh' \in Refreshments /\ refresh'.pc = pc /\ refresh'.report = refresh.report
                                                 /\ refresh'.loaded = refresh.loaded /\ refresh'.update = refresh.update
           /\ \A result \in RefreshResults : D!End(result) => refresh' \in Refreshments /\ refresh'.pc = "idle" /\ refresh'.result = result
<1>1. ASSUME NEW pc \in RefreshPcs, D!Go(pc)
      PROVE  /\ refresh' \in Refreshments /\ refresh'.pc = pc /\ refresh'.report = refresh.report
             /\ refresh'.loaded = refresh.loaded /\ refresh'.update = refresh.update
  BY <1>1 DEF DaemonTypes, D!Go, Refreshments
<1>2. ASSUME NEW result \in RefreshResults, D!End(result)
      PROVE  refresh' \in Refreshments /\ refresh'.pc = "idle" /\ refresh'.result = result
  BY <1>2 DEF DaemonTypes, D!End, Refreshments, RefreshPcs
<1> QED BY <1>1, <1>2

\* A refresh ends, and nothing else happens.
LEMMA RefreshEnds ==
    ASSUME DaemonInv, NEW result \in RefreshResults, D!End(result), restarter' = "none",
           UNCHANGED <<daemon, socket, managed, cli, daemonCount>>
    PROVE  DaemonInv'
<1>1. refresh' \in Refreshments /\ refresh'.pc = "idle"
  BY RefreshGoes DEF DaemonInv
<1> QED BY <1>1 DEF DaemonInv, DaemonTypes, Sessions, Generations, Undisturbed, Reading, Checking

LEMMA RefreshBegins == ASSUME DaemonInv, D!Begin PROVE DaemonInv'
<1>1. D!NoReport \in DaemonReports
  BY DEF D!NoReport, DaemonReports, Reportable
<1>2. refresh' \in Refreshments /\ refresh'.pc = "version"
  BY <1>1 DEF D!Begin, D!Idle, Refreshments, RefreshPcs, RefreshResults, Reportable
<1>3. daemonCount' \in [outside : Nat, refreshes : Nat] /\ daemonCount'.refreshes = daemonCount.refreshes + 1
  BY DEF D!Begin, DaemonInv, DaemonTypes
<1>4. UNCHANGED <<daemon, socket, managed, pinned, cli, restarter>> /\ refresh.pc = "idle"
  BY DEF D!Begin, D!At
<1>5. daemon.fresh \in Nat /\ daemonCount.refreshes \in Nat
  BY DEF DaemonInv, DaemonTypes, Daemons
<1> QED BY <1>2, <1>3, <1>4, <1>5 DEF DaemonInv, DaemonTypes, Sessions, Generations, Undisturbed, Reading, Checking

LEMMA ReportIsReport == ASSUME DaemonTypes PROVE D!Reported \in DaemonReports /\ \A v \in Reportable : D!Shown(v) \in Reportable
BY DEF DaemonTypes, Daemons, D!Reported, D!Shown, DaemonReports, Reportable

LEMMA RefreshReads == ASSUME DaemonInv, D!ReadVersion PROVE DaemonInv'
<1>0. UNCHANGED <<daemon, socket, managed, pinned, cli, restarter, outside, daemonCount, recent>> /\ refresh.pc \in {"version", "version2"} /\ restarter = "none"
  BY DEF D!ReadVersion, D!quiet, DaemonInv, Sessions
<1>1. ASSUME NEW result \in RefreshResults, D!End(result) PROVE DaemonInv'
  BY <1>0, <1>1, RefreshEnds
<1>2. CASE daemon.up /\ D!At("version") /\ refresh' = [refresh EXCEPT !.pc = "account", !.report = D!Reported, !.after = refresh.after]
  <2>1. refresh' \in Refreshments /\ refresh'.pc = "account" /\ refresh'.report = D!Reported
    BY <1>2, ReportIsReport DEF DaemonInv, DaemonTypes, Refreshments, RefreshPcs
  <2>2. D!Reported.cli = D!Shown(cli) /\ D!Reported.managed = D!Shown(managed) /\ (cli \in Silent => D!Reported.app = 0)
    BY DEF D!Reported, D!Shown
  <2>3. Undisturbed'
    BY <1>0, <1>2, <2>1, <2>2 DEF Undisturbed, Reading, Checking, D!Shown
  <2> QED BY <1>0, <1>2, <2>1, <2>3 DEF DaemonInv, DaemonTypes, Sessions, Generations, D!At
<1>3. CASE daemon.up /\ D!At("version2") /\ refresh' = [refresh EXCEPT !.pc = "account2", !.report = refresh.report, !.after = D!Reported.app]
  <2>1. refresh' \in Refreshments /\ refresh'.pc = "account2" /\ refresh'.report = refresh.report /\ refresh'.after = D!Shown(daemon.version)
        /\ refresh'.update = refresh.update
    BY <1>3, ReportIsReport DEF DaemonInv, DaemonTypes, Refreshments, RefreshPcs, D!Reported, DaemonReports
  <2>2. Undisturbed'
    BY <1>0, <1>3, <2>1 DEF DaemonInv, Undisturbed, Reading, Checking, D!Shown, D!At
  <2> QED BY <1>0, <1>3, <2>1, <2>2 DEF DaemonInv, DaemonTypes, Sessions, Generations, D!At
<1>4. CASE \E result \in RefreshResults : D!End(result)
  BY <1>1, <1>4
<1>5. CASE daemon.up /\ refresh' = [refresh EXCEPT !.pc = IF D!At("version") THEN "account" ELSE "account2",
                                                   !.report = IF D!At("version") THEN D!Reported ELSE @,
                                                   !.after = IF D!At("version2") THEN D!Reported.app ELSE @]
  BY <1>0, <1>2, <1>3, <1>5 DEF D!At
<1> QED BY <1>4, <1>5 DEF D!ReadVersion, RefreshResults

LEMMA RefreshAccounts == ASSUME DaemonInv, D!ReadAccount PROVE DaemonInv'
<1>0. UNCHANGED <<daemon, socket, managed, pinned, cli, restarter, outside, daemonCount, recent>> /\ refresh.pc \in {"account", "account2"} /\ restarter = "none"
  BY DEF D!ReadAccount, D!quiet, DaemonInv, Sessions
<1>1. ASSUME NEW pc \in {"threads", "threads2"}, refresh' = [refresh EXCEPT !.pc = pc, !.signed = daemon.signed],
             pc = "threads" <=> refresh.pc = "account"
      PROVE  DaemonInv'
  <2>1. PICK signed \in BOOLEAN : signed <=> daemon.signed
    OBVIOUS
  <2>2. daemon.signed \in BOOLEAN
    BY DEF DaemonInv, DaemonTypes, Daemons
  <2>3. refresh' = [refresh EXCEPT !.pc = pc, !.signed = signed]
    BY <1>1, <2>1, <2>2
  <2>4. refresh' \in Refreshments /\ refresh'.pc = pc /\ refresh'.report = refresh.report /\ (refresh'.signed <=> signed)
        /\ refresh'.update = refresh.update /\ refresh'.after = refresh.after
    BY <2>3 DEF DaemonInv, DaemonTypes, Refreshments, RefreshPcs
  <2>5. Undisturbed'
    BY <1>0, <1>1, <2>1, <2>4 DEF DaemonInv, Undisturbed, Reading, Checking, D!Shown
  <2> QED BY <1>0, <1>1, <2>4, <2>5 DEF DaemonInv, DaemonTypes, Sessions, Generations
<1>2. CASE \E result \in RefreshResults : D!End(result)
  BY <1>0, <1>2, RefreshEnds
<1>3. CASE refresh' = [refresh EXCEPT !.pc = IF D!At("account") THEN "threads" ELSE "threads2", !.signed = daemon.signed]
  BY <1>0, <1>1, <1>3 DEF D!At
<1> QED BY <1>2, <1>3 DEF D!ReadAccount, RefreshResults

LEMMA RefreshCounts == ASSUME DaemonInv, D!ReadThreads PROVE DaemonInv'
<1>0. UNCHANGED <<daemon, socket, managed, pinned, cli, restarter, outside, daemonCount>> /\ refresh.pc \in {"threads", "threads2"} /\ restarter = "none"
  BY DEF D!ReadThreads, D!quiet, DaemonInv, Sessions
<1>1. ASSUME NEW pc \in {"decide", "verify"}, refresh' = [refresh EXCEPT !.pc = pc, !.loaded = daemon.threads],
             pc = "decide" <=> refresh.pc = "threads"
      PROVE  DaemonInv'
  <2>1. refresh' \in Refreshments /\ refresh'.pc = pc /\ refresh'.report = refresh.report /\ refresh'.signed = refresh.signed
        /\ refresh'.update = refresh.update /\ refresh'.after = refresh.after /\ refresh'.loaded = daemon.threads
    BY <1>1 DEF DaemonInv, DaemonTypes, Daemons, Refreshments, RefreshPcs
  <2>2. Undisturbed'
    BY <1>0, <1>1, <2>1 DEF DaemonInv, Undisturbed, Reading, Checking, D!Shown
  <2> QED BY <1>0, <1>1, <2>1, <2>2 DEF DaemonInv, DaemonTypes, Sessions, Generations
<1>2. CASE \E result \in RefreshResults : D!End(result)
  BY <1>0, <1>2, RefreshEnds
<1>3. CASE refresh' = [refresh EXCEPT !.pc = IF D!At("threads") THEN "decide" ELSE "verify", !.loaded = D!Counted]
  BY <1>0, <1>1, <1>3 DEF D!At, D!Counted
<1> QED BY <1>2, <1>3 DEF D!ReadThreads, RefreshResults

\* What the refresh decides to launch is no older than what it read.
LEMMA DecisionIsEnough ==
    ASSUME DaemonInv, ~outside, refresh.pc = "decide", ~D!DowngradesTo(refresh.report)
    PROVE  IF D!RestartLaunchesOlder(refresh.report) THEN IsEnough(cli) ELSE IsEnough(managed)
<1> DEFINE r == refresh.report
<1>1. r.cli = D!Shown(cli) /\ r.managed = D!Shown(managed) /\ (cli \in Silent => r.app = 0)
  BY DEF DaemonInv, Undisturbed, Reading
<1>2. cli \in Nat \ {0} /\ managed \in Nat \ {0} /\ r.app \in Nat
  BY VersionsAreNumbers DEF DaemonInv, DaemonTypes, Refreshments, DaemonReports
<1>3. D!Floors(r) = {v \in {r.cli, r.app} : D!Parses(v)}
  BY DEF D!Floors
<1>4. CASE cli \in Silent
  <2>1. r.cli = 0 /\ r.app = 0
    BY <1>1, <1>4 DEF D!Shown
  <2>2. D!Floors(r) = {}
    BY <1>3, <2>1 DEF D!Parses
  <2> QED BY <2>2 DEF IsEnough
<1>5. CASE cli \notin Silent
  <2>1. r.cli = cli /\ r.managed = managed
    BY <1>1, <1>5 DEF D!Shown
  <2>2. D!Launched(r, FALSE) = managed /\ D!Launched(r, TRUE) = cli
    BY <1>2, <2>1 DEF D!Launched
  <2>3. CASE D!RestartLaunchesOlder(r)
    <3>1. ~D!Older(cli, r.app)
      BY <2>2, <2>3 DEF D!DowngradesTo, D!Launched
    <3>2. ASSUME NEW v \in {r.cli, r.app}, D!Parses(v), D!Parses(cli) PROVE cli >= v
      BY <1>2, <2>1, <3>1, <3>2 DEF D!Older
    <3> QED BY <1>3, <2>3, <3>2 DEF IsEnough
  <2>4. CASE ~D!RestartLaunchesOlder(r)
    <3>1. ~D!Older(managed, r.app) /\ ~D!Older(managed, cli)
      BY <2>1, <2>2, <2>4 DEF D!DowngradesTo, D!RestartLaunchesOlder, D!Launched
    <3>2. ASSUME NEW v \in {r.cli, r.app}, D!Parses(v), D!Parses(managed) PROVE managed >= v
      BY <1>2, <2>1, <3>1, <3>2 DEF D!Older
    <3> QED BY <1>3, <2>4, <3>2 DEF IsEnough
  <2> QED BY <2>3, <2>4
<1> QED BY <1>4, <1>5

LEMMA RefreshDecides == ASSUME DaemonInv, D!Decide PROVE DaemonInv'
<1>0. UNCHANGED <<daemon, socket, managed, pinned, cli, recent, outside, daemonCount>> /\ refresh.pc = "decide" /\ restarter = "none"
  BY DEF D!Decide, D!At, DaemonInv, Sessions
<1>1. CASE \E result \in RefreshResults : D!End(result) /\ UNCHANGED restarter
  BY <1>0, <1>1, RefreshEnds
<1>2. CASE /\ ~D!DowngradesTo(refresh.report) /\ refresh.loaded = {}
           /\ refresh' = [refresh EXCEPT !.pc = "helper", !.update = D!RestartLaunchesOlder(refresh.report)]
           /\ restarter' = IF D!RestartLaunchesOlder(refresh.report) THEN "copy" ELSE "stop"
  <2>1. PICK update \in BOOLEAN : update = D!RestartLaunchesOlder(refresh.report)
    BY DEF D!RestartLaunchesOlder, D!Older
  <2>2. refresh' = [refresh EXCEPT !.pc = "helper", !.update = update] /\ restarter' = IF update THEN "copy" ELSE "stop"
    BY <1>2, <2>1
  <2>3. refresh' \in Refreshments /\ refresh'.pc = "helper" /\ refresh'.report = refresh.report /\ (refresh'.update <=> update)
    BY <2>2 DEF DaemonInv, DaemonTypes, Refreshments, RefreshPcs
  <2>4. daemon.threads \subseteq recent
    BY <1>0, <1>2 DEF DaemonInv, Sessions
  <2>5. ~outside => IF update THEN IsEnough(cli) ELSE IsEnough(managed)
    BY <1>0, <1>2, <2>1, DecisionIsEnough
  <2>6. Undisturbed'
    BY <1>0, <2>2, <2>3, <2>5 DEF Undisturbed, Reading, Checking, IsEnough
  <2> QED BY <1>0, <2>2, <2>3, <2>4, <2>6 DEF DaemonInv, DaemonTypes, Sessions, Generations
<1> QED BY <1>1, <1>2 DEF D!Decide, RefreshResults

LEMMA RefreshAwaits == ASSUME DaemonInv, D!AwaitHelper PROVE DaemonInv'
<1>0. UNCHANGED <<daemon, socket, managed, pinned, cli, recent, outside, daemonCount>> /\ refresh.pc = "helper" /\ restarter' = "none"
  BY DEF D!AwaitHelper, D!At
<1>1. CASE \E result \in RefreshResults : D!End(result)
  BY <1>0, <1>1, RefreshEnds
<1>2. CASE restarter = "confirmed" /\ D!Go("version2")
  <2>1. refresh' \in Refreshments /\ refresh'.pc = "version2" /\ refresh'.report = refresh.report /\ refresh'.update = refresh.update
    BY <1>2, RefreshGoes DEF DaemonInv, RefreshPcs
  <2>2. Undisturbed'
    BY <1>0, <1>2, <2>1 DEF DaemonInv, Undisturbed, Reading, Checking
  <2> QED BY <1>0, <2>1, <2>2 DEF DaemonInv, DaemonTypes, Sessions, Generations
<1> QED BY <1>1, <1>2 DEF D!AwaitHelper, RefreshResults

LEMMA RefreshVerifies == ASSUME DaemonInv, D!Verify PROVE DaemonInv'
<1>1. UNCHANGED <<daemon, socket, managed, cli, daemonCount, restarter>> /\ restarter = "none"
  BY DEF D!Verify, D!quiet, D!At, DaemonInv, Sessions
<1>2. \E result \in RefreshResults : D!End(result)
  BY DEF D!Verify, RefreshResults
<1> QED BY <1>1, <1>2, RefreshEnds

(* The official command *)

LEMMA HelperIsAwaited == ASSUME DaemonInv, restarter # "none" PROVE refresh.pc = "helper"
BY DEF DaemonInv, Sessions

LEMMA HelperCopies == ASSUME DaemonInv, D!CopyPackage PROVE DaemonInv'
<1>0. UNCHANGED <<daemon, socket, cli, refresh, recent, outside, daemonCount>> /\ restarter = "copy" /\ restarter' = "stop" /\ managed' = cli /\ pinned'
  BY DEF D!CopyPackage, D!Advance
<1>1. refresh.pc = "helper"
  BY <1>0, HelperIsAwaited
<1>2. Undisturbed'
  BY <1>0, <1>1 DEF DaemonInv, Undisturbed, Reading, Checking, IsEnough
<1> QED BY <1>0, <1>1, <1>2 DEF DaemonInv, DaemonTypes, Sessions, Generations

LEMMA HelperStopsDaemon == ASSUME DaemonInv, D!StopDaemon PROVE DaemonInv'
<1>0. UNCHANGED <<managed, pinned, cli, refresh, recent, outside, daemonCount>> /\ restarter = "stop" /\ restarter' = "start"
      /\ daemon' = D!Down /\ socket' = FALSE
  BY DEF D!StopDaemon, D!Advance
<1>1. refresh.pc = "helper"
  BY <1>0, HelperIsAwaited
<1>2. Undisturbed'
  BY <1>0, <1>1 DEF DaemonInv, Undisturbed, Reading, Checking, IsEnough
<1>3. daemonCount.refreshes \in Nat
  BY DEF DaemonInv, DaemonTypes
<1>4. DaemonTypes'
  BY <1>0, DownIsDaemon DEF DaemonInv, DaemonTypes
<1>5. Sessions' /\ Generations'
  BY <1>0, <1>1, <1>3, DownIsDaemon DEF DaemonInv, Sessions, Generations
<1> QED BY <1>2, <1>4, <1>5 DEF DaemonInv

LEMMA HelperStartsDaemon == ASSUME DaemonInv, D!StartDaemon PROVE DaemonInv'
<1>0. UNCHANGED <<managed, pinned, cli, refresh, recent, outside, daemonCount>> /\ restarter = "start" /\ restarter' = "confirm"
      /\ socket' = TRUE
  BY DEF D!StartDaemon, D!Advance
<1>1. refresh.pc = "helper"
  BY <1>0, HelperIsAwaited
<1>2. PICK signed \in BOOLEAN :
          daemon' = [D!Down EXCEPT !.up = TRUE, !.version = managed, !.signed = signed, !.fresh = daemonCount.refreshes]
  BY Zenon DEF D!StartDaemon
<1>3. daemon' \in Daemons /\ daemon'.up /\ daemon'.fresh = daemonCount.refreshes
  BY <1>2, DownIsDaemon DEF DaemonInv, DaemonTypes, Daemons, Reportable
<1>4. daemonCount.refreshes \in Nat
  BY DEF DaemonInv, DaemonTypes
<1>5. Undisturbed'
  BY <1>0, <1>1, <1>3 DEF DaemonInv, Undisturbed, Reading, Checking
<1> QED BY <1>0, <1>1, <1>3, <1>4, <1>5 DEF DaemonInv, DaemonTypes, Sessions, Generations

LEMMA HelperAnswers == ASSUME DaemonInv, D!Confirm \/ D!FailHelper PROVE DaemonInv'
<1>0. UNCHANGED <<daemon, socket, managed, pinned, cli, refresh, recent, outside, daemonCount>>
      /\ ((restarter = "confirm" /\ restarter' = "confirmed") \/ (restarter # "none" /\ restarter' = "failed"))
  BY DEF D!Confirm, D!FailHelper, D!Advance
<1>1. refresh.pc = "helper"
  BY <1>0, HelperIsAwaited
<1>2. Undisturbed'
  BY <1>0, <1>1 DEF DaemonInv, Undisturbed, Reading, Checking
<1> QED BY <1>0, <1>1, <1>2 DEF DaemonInv, DaemonTypes, Sessions, Generations

(* Users, the updater and the system *)

LEMMA DaemonThreads ==
    ASSUME DaemonInv, NEW t \in Thread, D!OpenThread(t) \/ D!CloseThread(t)
    PROVE  DaemonInv'
<1>0. UNCHANGED <<socket, managed, pinned, cli, restarter, refresh, outside, daemonCount>>
  BY DEF D!OpenThread, D!CloseThread
<1>1. PICK threads \in SUBSET Thread : daemon' = [daemon EXCEPT !.threads = threads]
  BY DEF D!OpenThread, D!CloseThread, DaemonInv, DaemonTypes, Daemons
<1>2. daemon' \in Daemons /\ daemon'.up = daemon.up /\ daemon'.version = daemon.version /\ daemon'.signed = daemon.signed
      /\ daemon'.fresh = daemon.fresh
  BY <1>1 DEF DaemonInv, DaemonTypes, Daemons
<1>3. \A known : daemon.threads \subseteq known \cup recent => daemon'.threads \subseteq known \cup recent'
  BY DEF D!OpenThread, D!CloseThread, DaemonInv, DaemonTypes, Daemons
<1>4. Sessions'
  <2>1. refresh.pc = "decide" => daemon'.threads \subseteq refresh.loaded \cup recent'
    BY <1>3 DEF DaemonInv, Sessions
  <2>2. restarter \in {"copy", "stop"} => daemon'.threads \subseteq {} \cup recent'
    BY <1>3 DEF DaemonInv, Sessions
  <2> QED BY <1>0, <2>1, <2>2 DEF DaemonInv, Sessions
<1>5. Undisturbed'
  BY <1>0, <1>2 DEF DaemonInv, Undisturbed, IsEnough, D!Shown
<1> QED BY <1>0, <1>2, <1>4, <1>5 DEF DaemonInv, DaemonTypes, Generations

LEMMA DaemonOutside ==
    ASSUME DaemonInv, D!Die \/ D!StartByUser \/ \E v \in ServerVersion : D!UpgradeCli(v) \/ D!UpgradePackage(v)
    PROVE  DaemonInv'
<1>1. outside' /\ UNCHANGED <<restarter, refresh, recent>>
  BY Zenon DEF D!Die, D!StartByUser, D!UpgradeCli, D!UpgradePackage, D!Outside
<1>2. daemonCount' \in [outside : Nat, refreshes : Nat] /\ daemonCount'.refreshes = daemonCount.refreshes
  <2>1. D!Outside
    BY Zenon DEF D!Die, D!StartByUser, D!UpgradeCli, D!UpgradePackage
  <2> QED BY <2>1 DEF D!Outside, DaemonInv, DaemonTypes
<1>3. managed' \in ServerVersion /\ cli' \in ServerVersion
  BY Zenon DEF D!Die, D!StartByUser, D!UpgradeCli, D!UpgradePackage, DaemonInv, DaemonTypes
<1>4. CASE UNCHANGED <<daemon, socket>>
  BY <1>1, <1>2, <1>3, <1>4 DEF DaemonInv, DaemonTypes, Sessions, Generations, Undisturbed
<1>5. CASE daemon' \in Daemons /\ daemon'.fresh = 0 /\ daemon'.threads = {} /\ socket' \in BOOLEAN /\ (daemon'.up => socket')
  <2>1. daemonCount.refreshes \in Nat /\ daemon.fresh \in Nat
    BY DEF DaemonInv, DaemonTypes, Daemons
  <2> QED BY <1>1, <1>2, <1>3, <1>5, <2>1 DEF DaemonInv, DaemonTypes, Sessions, Generations, Undisturbed
<1>6. CASE D!Die
  BY <1>5, <1>6, DownIsDaemon DEF D!Die, DaemonInv, DaemonTypes
<1>7. CASE D!StartByUser
  <2>1. PICK signed \in BOOLEAN, backend \in {"pid", "other"} :
            daemon' = [D!Down EXCEPT !.up = TRUE, !.version = managed, !.signed = signed, !.backend = backend]
    BY <1>7, Zenon DEF D!StartByUser
  <2>2. daemon' \in Daemons /\ daemon'.fresh = 0 /\ daemon'.threads = {}
    BY <2>1, DownIsDaemon DEF Daemons, DaemonInv, DaemonTypes, Reportable
  <2>3. socket' = TRUE
    BY <1>7, Zenon DEF D!StartByUser
  <2> QED BY <1>5, <2>2, <2>3
<1>8. CASE \E v \in ServerVersion : D!UpgradeCli(v) \/ D!UpgradePackage(v)
  BY <1>4, <1>8 DEF D!UpgradeCli, D!UpgradePackage
<1> QED BY <1>6, <1>7, <1>8

LEMMA DaemonRests == ASSUME DaemonInv, UNCHANGED varsD PROVE DaemonInv'
BY DEF DaemonInv, DaemonTypes, Sessions, Generations, Undisturbed, IsEnough, D!Shown, varsD
LEMMA DaemonNext == ASSUME DaemonInv, D!Next PROVE DaemonInv'
<1>1. CASE D!Begin \/ D!RefreshStep
  BY <1>1, RefreshBegins, RefreshReads, RefreshAccounts, RefreshCounts, RefreshDecides, RefreshAwaits, RefreshVerifies DEF D!RefreshStep
<1>2. CASE D!HelperStep
  BY <1>2, HelperCopies, HelperStopsDaemon, HelperStartsDaemon, HelperAnswers DEF D!HelperStep
<1> QED BY <1>1, <1>2, DaemonThreads, DaemonOutside DEF D!Next

(* What a refresh does and says *)

LEMMA RefreshSpares == ASSUME DaemonInv, D!Next PROVE D!SparesSessions
BY DEF D!SparesSessions, DaemonInv, Sessions

LEMMA OnlyStarts == ASSUME DaemonInv, D!Next, restarter = "start", restarter' = "confirm" PROVE D!StartDaemon
<1>1. refresh.pc = "helper"
  BY HelperIsAwaited
<1>2. CASE D!Begin \/ D!RefreshStep
  BY <1>1, <1>2 DEF D!Begin, D!RefreshStep, D!ReadVersion, D!ReadAccount, D!ReadThreads, D!Decide, D!AwaitHelper, D!Verify, D!At
<1>3. CASE D!HelperStep
  BY <1>3 DEF D!HelperStep, D!CopyPackage, D!StopDaemon, D!Confirm, D!FailHelper, D!Advance
<1>4. CASE \/ \E t \in Thread : D!OpenThread(t) \/ D!CloseThread(t)
           \/ \E v \in ServerVersion : D!UpgradeCli(v) \/ D!UpgradePackage(v)
           \/ D!Die \/ D!StartByUser
  BY <1>4 DEF D!OpenThread, D!CloseThread, D!UpgradeCli, D!UpgradePackage, D!Die, D!StartByUser
<1> QED BY <1>2, <1>3, <1>4 DEF D!Next

LEMMA RefreshKeepsUp == ASSUME DaemonInv, D!Next PROVE D!KeepsUp
<1> SUFFICES ASSUME restarter = "start", restarter' = "confirm", ~outside,
                    NEW v \in D!Floors(refresh.report), D!Parses(managed)
             PROVE  daemon'.version >= v
  BY DEF D!KeepsUp
<1>1. PICK signed \in BOOLEAN :
          daemon' = [D!Down EXCEPT !.up = TRUE, !.version = managed, !.signed = signed, !.fresh = daemonCount.refreshes]
  BY OnlyStarts, Zenon DEF D!StartDaemon
<1>2. daemon'.version = managed
  BY <1>1 DEF D!Down
<1> QED BY <1>2 DEF DaemonInv, Undisturbed, IsEnough

LEMMA VerifiedIsSo ==
    ASSUME DaemonInv, ~outside, refresh.pc = "verify", D!Verified
    PROVE  /\ daemon.up /\ daemon.fresh = daemonCount.refreshes /\ daemon.signed
           /\ \A floor \in D!Floors(refresh.report) : daemon.version >= floor
<1>1. daemon.up /\ daemon.fresh = daemonCount.refreshes /\ refresh.after = D!Shown(daemon.version) /\ (refresh.signed <=> daemon.signed)
  BY DEF DaemonInv, Undisturbed, Checking
<1>2. ASSUME NEW floor \in D!Floors(refresh.report) PROVE daemon.version >= floor
  <2>1. D!Parses(refresh.after) /\ refresh.after >= floor
    <3>1. D!RunsAtLeast([refresh.report EXCEPT !.app = refresh.after], floor)
      BY <1>2 DEF D!Verified
    <3>2. [refresh.report EXCEPT !.app = refresh.after].app = refresh.after
      BY DEF DaemonInv, DaemonTypes, Refreshments, DaemonReports
    <3> QED BY <3>1, <3>2 DEF D!RunsAtLeast
  <2>2. refresh.after = daemon.version
    BY <1>1, <2>1 DEF D!Shown, D!Parses
  <2> QED BY <2>1, <2>2
<1> QED BY <1>1, <1>2 DEF D!Verified

LEMMA RefreshTells == ASSUME DaemonInv, D!Next PROVE D!ReportsTheTruth
<1> SUFFICES ASSUME refresh.pc # "idle", refresh'.pc = "idle", ~outside
             PROVE  /\ refresh'.result = "Absent" => ~daemon.up
                    /\ refresh'.result \in {"Restarted", "Updated"} =>
                           /\ daemon.up /\ daemon.fresh = daemonCount.refreshes /\ daemon.signed
                           /\ \A v \in D!Floors(refresh.report) : daemon.version >= v
                    /\ refresh'.result \in {"Updated", "UpdateApplied"} => managed = cli /\ pinned
                    /\ refresh'.result \in {"NewerRunning", "Deferred"} => daemon.up /\ daemon.fresh # daemonCount.refreshes
  BY DEF D!ReportsTheTruth, D!At
<1>0. refresh \in Refreshments /\ daemon.fresh \in Nat /\ daemonCount.refreshes \in Nat
  BY DEF DaemonInv, DaemonTypes, Daemons
<1>1. D!RefreshStep
  BY Zenon DEF D!Next, D!HelperStep, D!Begin, D!CopyPackage, D!StopDaemon, D!StartDaemon, D!Confirm, D!FailHelper, D!OpenThread, D!CloseThread,
         D!UpgradeCli, D!UpgradePackage, D!Die, D!StartByUser, D!At
<1>2. \A result \in RefreshResults : D!End(result) => refresh'.result = result
  BY RefreshGoes DEF DaemonInv
<1>3. refresh.pc \in Checking /\ refresh.update => managed = cli /\ pinned
  BY DEF DaemonInv, Undisturbed
<1>4. CASE D!ReadVersion
  <2>1. CASE (~socket \/ ~daemon.up) /\ D!End(IF D!At("version") THEN "Absent" ELSE IF refresh.update THEN "UpdateApplied" ELSE "RestartFailed")
    <3>1. ~daemon.up
      BY <2>1 DEF DaemonInv, Generations
    <3>2. refresh.pc \in {"version", "version2"}
      BY <1>4 DEF D!ReadVersion
    <3>3. refresh'.result = IF D!At("version") THEN "Absent" ELSE IF refresh.update THEN "UpdateApplied" ELSE "RestartFailed"
      BY <1>2, <2>1 DEF RefreshResults
    <3> QED BY <1>3, <3>1, <3>2, <3>3 DEF D!At, Checking
  <2>2. CASE D!End(IF D!At("version2") /\ refresh.update THEN "UpdateApplied" ELSE "RestartFailed")
    <3>1. refresh'.result = IF D!At("version2") /\ refresh.update THEN "UpdateApplied" ELSE "RestartFailed"
      BY <1>2, <2>2 DEF RefreshResults
    <3> QED BY <1>3, <3>1 DEF D!At, Checking
  <2>3. CASE refresh' = [refresh EXCEPT !.pc = IF D!At("version") THEN "account" ELSE "account2",
                                        !.report = IF D!At("version") THEN D!Reported ELSE @,
                                        !.after = IF D!At("version2") THEN D!Reported.app ELSE @]
    <3>1. refresh'.pc \in {"account", "account2"}
      BY <1>0, <2>3 DEF Refreshments
    <3> QED BY <3>1
  <2> QED BY <1>4, <2>1, <2>2, <2>3 DEF D!ReadVersion
<1>5. CASE D!ReadAccount \/ D!ReadThreads
  <2>1. \/ D!End(IF D!At("account2") /\ refresh.update THEN "UpdateApplied" ELSE "RestartFailed")
        \/ D!End(IF D!At("threads2") /\ refresh.update THEN "UpdateApplied" ELSE "RestartFailed")
    BY <1>0, <1>5 DEF D!ReadAccount, D!ReadThreads, Refreshments
  <2>2. refresh'.result \in {"UpdateApplied", "RestartFailed"}
        /\ (refresh'.result = "UpdateApplied" => refresh.pc \in Checking /\ refresh.update)
    BY <1>2, <2>1 DEF RefreshResults, D!At, Checking
  <2> QED BY <1>3, <2>2
<1>6. CASE D!Decide
  <2>1. refresh.pc = "decide"
    BY <1>6 DEF D!Decide, D!At
  <2>2. daemon.up /\ daemon.fresh # daemonCount.refreshes
    BY <1>0, <2>1 DEF DaemonInv, Undisturbed, Generations, Reading
  <2>3. PICK result \in {"NewerRunning", "Deferred", "RestartFailed"} : D!End(result)
    BY <1>0, <1>6 DEF D!Decide, Refreshments
  <2>4. refresh'.result = result
    BY <1>2, <2>3 DEF RefreshResults
  <2> QED BY <2>2, <2>3, <2>4
<1>7. CASE D!AwaitHelper
  <2>1. PICK result \in {"UpdateUnconfirmed", "RestartFailed"} : D!End(result)
    BY <1>0, <1>7 DEF D!AwaitHelper, D!Go, Refreshments
  <2> QED BY <1>2, <2>1 DEF RefreshResults
<1>8. CASE D!Verify
  <2>1. refresh.pc = "verify" /\ refresh.pc \in Checking
    BY <1>8 DEF D!Verify, D!At, Checking
  <2>2. PICK result \in {"UpdateApplied", "RestartFailed", "Updated", "Restarted"} :
            /\ D!End(result)
            /\ result \in {"Updated", "Restarted"} => D!Verified
            /\ result \in {"Updated", "UpdateApplied"} => refresh.update
    BY <1>8 DEF D!Verify
  <2>3. refresh'.result = result
    BY <1>2, <2>2 DEF RefreshResults
  <2> QED BY <1>3, <2>1, <2>2, <2>3, VerifiedIsSo
<1> QED BY <1>1, <1>4, <1>5, <1>6, <1>7, <1>8 DEF D!RefreshStep
-----------------------------------------------------------------------------
(* The environment of a client (EnvironmentLaunch) *)

Listens == Port \cup {None}
Proxied == [listen : Listens, keys : SUBSET E!Product]
Routes == [proxy : Listens, ca : E!Environment]
Launches == [pc : {"idle", "probe", "start", "wait", "run", "running", "failed"}, product : E!Product, dir : Dir \cup {"home"},
             scope : E!Environment, listen : Listens, started : BOOLEAN, disturbed : BOOLEAN, legacy : BOOLEAN]
EnvironmentTypes ==
    /\ config \in [E!Environment -> Proxied] /\ route \in [E!Places -> Routes]
    /\ worker \in [E!Environment -> Listens] /\ launch \in Launches

\* What init wrote for an environment of its ours is what its client's files name.
FilesAgree ==
    \A e \in E!Environment : E!Isolated(e) /\ config[e].listen # None
        => route[e] = [proxy |-> config[e].listen, ca |-> e]
\* The launch acts on the environment of its directory, or on the default one;
\* while nobody disturbs it what it has read is so, and the proxy that it
\* started listens.
UnderWay == launch.pc \in {"probe", "start", "wait", "run"}
Scoped == E!Isolated(launch.scope) => launch.scope = E!HomeOf(launch.product, launch.dir)
Launching ==
    /\ launch.pc # "idle" => Scoped
    /\ UnderWay => launch.listen # None
    /\ UnderWay /\ ~launch.disturbed =>
           /\ config[launch.scope].listen = launch.listen
           /\ launch.pc = "wait" => worker[launch.scope] = launch.listen
           /\ ~E!Isolated(launch.scope) /\ launch.dir # "home"
                  => route[E!HomeOf(launch.product, launch.dir)] = [proxy |-> launch.listen, ca |-> launch.scope]
EnvironmentInv == EnvironmentTypes /\ FilesAgree /\ Launching

\* Which environments there are, and which one a command acts on.
LEMMA Environments ==
    /\ E!Root \in E!Environment /\ E!Refused \notin E!Environment /\ None \notin Port /\ Port # {}
    /\ \A e \in E!Environment : E!Isolated(e) => e \in E!Places /\ e.product \in E!Product /\ e.dir \in Dir
    /\ \A product \in E!Product : E!HomeOf(product, "home") \in E!Places /\ E!HomeOf(product, "home") \notin E!Environment
<1>1. "home" \notin Dir /\ None \notin Port /\ Port # {}
  BY PartsAssumption DEF E!EnvironmentAssumption
<1>2. ASSUME NEW e \in E!Environment, E!Isolated(e) PROVE e \in E!Places /\ e.product \in E!Product /\ e.dir \in Dir
  BY <1>2 DEF E!Isolated, E!Root, E!Environment, E!Places
<1>3. E!Root \in E!Environment /\ E!Refused \notin E!Environment
  BY DEF E!Root, E!Refused, E!Environment, E!Product
<1>4. ASSUME NEW product \in E!Product
      PROVE  E!HomeOf(product, "home") \in E!Places /\ E!HomeOf(product, "home") \notin E!Environment
  BY <1>1 DEF E!HomeOf, E!Places, E!Environment, E!Product
<1> QED BY <1>1, <1>2, <1>3, <1>4

LEMMA Directories ==
    ASSUME NEW product \in E!Product, NEW shell
    PROVE  LET e == E!ProductDirectory(product, shell)
           IN  /\ e \in E!Environment
               /\ IF shell[product] \in Dir THEN E!Isolated(e) /\ e = E!HomeOf(product, shell[product]) ELSE e = E!Root
               /\ E!Resolve(product, E!NoSelector, shell) = e
<1>1. product # None
  BY PartsAssumption DEF E!EnvironmentAssumption, E!Product
<1>2. CASE shell[product] \in Dir
  <2>1. E!HomeOf(product, shell[product]) \in E!Environment
    BY <1>2 DEF E!HomeOf, E!Environment
  <2>2. E!Isolated(E!HomeOf(product, shell[product]))
    BY DEF E!HomeOf, E!Isolated, E!Root, E!Product
  <2> QED BY <1>1, <1>2, <2>1, <2>2 DEF E!ProductDirectory, E!Resolve
<1>3. CASE shell[product] \notin Dir
  BY <1>1, <1>3, Environments DEF E!ProductDirectory, E!Resolve
<1> QED BY <1>2, <1>3

LEMMA ServiceEnvironment ==
    ASSUME NEW shell
    PROVE  E!Resolve(None, E!NoSelector, shell) \in E!Environment \cup {E!Refused}
<1>1. E!ProductDirectory("claude", shell) \in E!Environment /\ E!ProductDirectory("codex", shell) \in E!Environment
  BY Directories DEF E!Product
<1> QED BY <1>1 DEF E!Resolve, E!Inferred

(* The commands beside the launch *)

\* A command disturbs the launch.
LEMMA Disturbs ==
    ASSUME EnvironmentInv, launch' = [launch EXCEPT !.disturbed = TRUE], EnvironmentTypes', FilesAgree'
    PROVE  EnvironmentInv'
<1>1. launch \in Launches
  BY DEF EnvironmentInv, EnvironmentTypes
<1>2. /\ launch'.pc = launch.pc /\ launch'.scope = launch.scope /\ launch'.product = launch.product /\ launch'.dir = launch.dir
      /\ launch'.listen = launch.listen /\ launch'.disturbed
  BY <1>1 DEF Launches
<1> QED BY <1>2 DEF EnvironmentInv, Launching, UnderWay, Scoped

LEMMA Disturbed ==
    ASSUME EnvironmentInv, launch' = [launch EXCEPT !.disturbed = TRUE]
    PROVE  launch' \in Launches
BY DEF EnvironmentInv, EnvironmentTypes, Launches

LEMMA Initializes ==
    ASSUME EnvironmentInv, NEW product \in E!Product, NEW shell \in E!Shells, E!Initialize(product, shell)
    PROVE  EnvironmentInv'
<1> DEFINE e == E!Resolve(product, E!NoSelector, shell)
           place == E!HomeOf(product, IF E!Isolated(e) THEN shell[product] ELSE "home")
<1>1. PICK port \in Port : /\ config' = [config EXCEPT ![e] = [listen |-> port, keys |-> @.keys \cup {product}]]
                           /\ route' = [route EXCEPT ![place] = [proxy |-> port, ca |-> e]]
                           /\ worker' = [worker EXCEPT ![e] = port]
  BY DEF E!Initialize
<1>2. launch' = [launch EXCEPT !.disturbed = TRUE]
  BY DEF E!Initialize, E!Command
<1>3. e \in E!Environment /\ (IF E!Isolated(e) THEN place = e ELSE place = E!HomeOf(product, "home"))
  BY Directories, Environments DEF E!Isolated
<1>4. place \in E!Places
  BY <1>3, Environments
<1> HIDE DEF e, place
<1>5. config'[e].listen = port /\ config' \in [E!Environment -> Proxied] /\ \A f \in E!Environment \ {e} : config'[f] = config[f]
  BY <1>1, <1>3 DEF EnvironmentInv, EnvironmentTypes, Proxied, Listens
<1>6. route' \in [E!Places -> Routes] /\ route'[place] = [proxy |-> port, ca |-> e] /\ \A p \in E!Places \ {place} : route'[p] = route[p]
  BY <1>1, <1>3, <1>4 DEF EnvironmentInv, EnvironmentTypes, Routes, Listens
<1>7. worker' \in [E!Environment -> Listens]
  BY <1>1, <1>3 DEF EnvironmentInv, EnvironmentTypes, Listens
<1>8. FilesAgree'
  <2> SUFFICES ASSUME NEW f \in E!Environment, E!Isolated(f), config'[f].listen # None
               PROVE  route'[f] = [proxy |-> config'[f].listen, ca |-> f]
    BY DEF FilesAgree
  <2>1. f \in E!Places
    BY Environments
  <2>2. CASE f = e
    BY <1>3, <1>5, <1>6, <2>2
  <2>3. CASE f # e
    <3>1. f # place
      BY <1>3, <2>3, Environments
    <3> QED BY <1>5, <1>6, <2>1, <2>3, <3>1 DEF EnvironmentInv, FilesAgree
  <2> QED BY <2>2, <2>3
<1> QED BY <1>2, <1>5, <1>6, <1>7, <1>8, Disturbs, Disturbed DEF EnvironmentTypes

LEMMA Serves ==
    ASSUME EnvironmentInv, NEW shell \in E!Shells, E!StartService(shell) \/ E!StopService(shell)
    PROVE  EnvironmentInv'
<1> DEFINE e == E!Resolve(None, E!NoSelector, shell)
<1>1. e \in E!Environment
  BY ServiceEnvironment DEF E!StartService, E!StopService
<1> HIDE DEF e
<1>2. launch' = [launch EXCEPT !.disturbed = TRUE] /\ UNCHANGED <<config, route>>
  BY DEF E!StartService, E!StopService, E!Command
<1>3. \E port \in Listens : worker' = [worker EXCEPT ![e] = port]
  BY <1>1 DEF E!StartService, E!StopService, E!Started, EnvironmentInv, EnvironmentTypes, Proxied, Listens, e
<1>4. worker' \in [E!Environment -> Listens]
  BY <1>1, <1>3 DEF EnvironmentInv, EnvironmentTypes
<1> QED BY <1>2, <1>4, Disturbs, Disturbed DEF EnvironmentInv, EnvironmentTypes, FilesAgree

LEMMA Claims == ASSUME EnvironmentInv, NEW port \in Port, E!Claim(port) PROVE EnvironmentInv'
<1>1. launch' = [launch EXCEPT !.disturbed = TRUE] /\ UNCHANGED <<config, route, worker>>
  BY DEF E!Claim
<1> QED BY <1>1, Disturbs, Disturbed DEF EnvironmentInv, EnvironmentTypes, FilesAgree

(* The launch *)

LEMMA LaunchRuns ==
    ASSUME EnvironmentInv, NEW product \in E!Product, NEW shell \in E!Shells, NEW path \in SomePaths, E!RunLaunch(product, shell, path)
    PROVE  EnvironmentInv' /\ launch'.pc \in {"probe", "failed"}
<1> DEFINE dir == IF shell[product] \in Dir THEN shell[product] ELSE "home"
           ours == E!Resolve(product, E!NoSelector, shell)
           legacy == E!Isolated(ours) /\ config[ours].listen = None /\ E!LegacyRouteMatches(product, dir)
           scope == IF legacy THEN E!Root ELSE ours
           ready == E!Program(path) /\ config[scope].listen # None /\ E!HasCredential(product, scope)
<1>1. launch' = [E!Idle EXCEPT !.pc = IF ready THEN "probe" ELSE "failed", !.product = product, !.dir = dir,
                               !.scope = scope, !.listen = config[scope].listen, !.legacy = legacy]
      /\ UNCHANGED <<config, route, worker>>
  BY DEF E!RunLaunch, E!quiet
<1>2. /\ ours \in E!Environment /\ dir \in Dir \cup {"home"}
      /\ IF dir # "home" THEN ours = E!HomeOf(product, dir) ELSE ours = E!Root
  BY Directories, PartsAssumption DEF E!EnvironmentAssumption
<1>3. scope \in E!Environment /\ (E!Isolated(scope) => scope = E!HomeOf(product, dir))
  BY <1>2, Environments DEF E!Isolated
<1>4. ~E!Isolated(scope) /\ dir # "home" => route[E!HomeOf(product, dir)] = [proxy |-> config[scope].listen, ca |-> scope]
  <2> SUFFICES ASSUME ~E!Isolated(scope), dir # "home"
               PROVE  route[E!HomeOf(product, dir)] = [proxy |-> config[scope].listen, ca |-> scope]
    OBVIOUS
  <2>1. E!Isolated(ours)
    BY <1>2, Directories
  <2>2. legacy /\ scope = E!Root
    BY <2>1
  <2>3. E!HomeOf(product, dir) \in E!Places
    BY <1>2, <2>1, Environments
  <2>4. route[E!HomeOf(product, dir)] \in Routes
    BY <2>3 DEF EnvironmentInv, EnvironmentTypes
  <2>5. route[E!HomeOf(product, dir)].proxy = config[E!Root].listen /\ route[E!HomeOf(product, dir)].ca = E!Root
    BY <2>2 DEF E!LegacyRouteMatches
  <2> QED BY <2>2, <2>4, <2>5 DEF Routes
<1>5. config[scope].listen \in Listens
  BY <1>3 DEF EnvironmentInv, EnvironmentTypes, Proxied
<1>6. legacy \in BOOLEAN /\ (ready => config[scope].listen # None) /\ ready \in BOOLEAN
  BY DEF E!Isolated, E!LegacyRouteMatches, E!Program, E!HasCredential
<1>7. PICK pc \in {"probe", "failed"} : pc = (IF ready THEN "probe" ELSE "failed")
  OBVIOUS
<1>8. PICK old \in BOOLEAN : old = legacy
  BY <1>6
<1> HIDE DEF dir, ours, legacy, scope, ready
<1>9. launch' = [E!Idle EXCEPT !.pc = pc, !.product = product, !.dir = dir,
                               !.scope = scope, !.listen = config[scope].listen, !.legacy = old]
  BY <1>1, <1>7, <1>8
<1>10. /\ launch' \in Launches /\ launch'.pc = pc /\ launch'.product = product /\ launch'.dir = dir
       /\ launch'.scope = scope /\ launch'.listen = config[scope].listen
  BY <1>2, <1>3, <1>5, <1>9 DEF Launches, E!Idle
<1> QED BY <1>1, <1>3, <1>4, <1>6, <1>7, <1>10 DEF EnvironmentInv, EnvironmentTypes, FilesAgree, Launching, UnderWay, Scoped

\* A step of the launch itself.
LEMMA LaunchGoes ==
    ASSUME EnvironmentInv, NEW pc \in {"start", "run", "running", "failed"}, E!Go(pc),
           UNCHANGED <<config, route, worker>>, UnderWay
    PROVE  EnvironmentInv' /\ launch'.pc = pc /\ launch'.disturbed = launch.disturbed
<1>1. launch \in Launches
  BY DEF EnvironmentInv, EnvironmentTypes
<1>2. /\ launch' \in Launches /\ launch'.pc = pc /\ launch'.scope = launch.scope /\ launch'.product = launch.product
      /\ launch'.dir = launch.dir /\ launch'.listen = launch.listen /\ launch'.disturbed = launch.disturbed
  BY <1>1 DEF E!Go, Launches
<1> QED BY <1>2 DEF EnvironmentInv, EnvironmentTypes, FilesAgree, Launching, UnderWay, Scoped

LEMMA ProbesAndWaits ==
    ASSUME EnvironmentInv, E!Probe \/ E!Wait
    PROVE  /\ EnvironmentInv'
           /\ launch'.pc = "run" => E!Accepted
           /\ launch'.pc = "failed" /\ ~launch'.disturbed =>
                 \/ launch.listen \in foreign
                 \/ \E e \in E!Environment \ {launch.scope} : worker[e] = launch.listen
<1>0. UNCHANGED <<config, route, worker>> /\ UnderWay /\ launch.scope \in E!Environment
  BY DEF E!Probe, E!Wait, E!quiet, UnderWay, EnvironmentInv, EnvironmentTypes, Launches
<1>1. \/ E!Probe /\ E!Go("start")
      \/ E!Accepted /\ E!Go("run")
      \/ E!Probe /\ E!Listening(launch.listen) /\ ~E!Accepted /\ E!Go("failed")
      \/ E!Wait /\ ~(E!Listening(launch.listen) /\ E!Accepted) /\ E!Go("failed")
  BY DEF E!Probe, E!Wait
<1>2. CASE E!Go("start") \/ (E!Accepted /\ E!Go("run"))
  BY <1>0, <1>2, LaunchGoes
<1>3. CASE E!Go("failed") /\ ~(E!Listening(launch.listen) /\ E!Accepted) /\ (E!Wait \/ E!Listening(launch.listen))
  <2>1. EnvironmentInv' /\ launch'.pc = "failed" /\ launch'.disturbed = launch.disturbed
    BY <1>0, <1>3, LaunchGoes
  <2>2. ASSUME ~launch.disturbed
        PROVE  \/ launch.listen \in foreign
               \/ \E e \in E!Environment \ {launch.scope} : worker[e] = launch.listen
    <3>1. config[launch.scope].listen = launch.listen
      BY <1>0, <2>2 DEF EnvironmentInv, Launching
    <3>2. CASE E!Wait
      <4>1. worker[launch.scope] = launch.listen
        BY <1>0, <2>2, <3>2 DEF EnvironmentInv, Launching, E!Wait
      <4>2. E!Listening(launch.listen) /\ E!Accepted
        BY <1>0, <3>1, <4>1 DEF E!Listening, E!Accepted, E!Authentic
      <4> QED BY <1>3, <4>2
    <3>3. CASE E!Listening(launch.listen) /\ ~E!Accepted
      BY <3>1, <3>3 DEF E!Listening, E!Accepted, E!Authentic
    <3> QED BY <1>3, <3>2, <3>3
  <2> QED BY <2>1, <2>2
<1> QED BY <1>1, <1>2, <1>3

LEMMA StartsChild ==
    ASSUME EnvironmentInv, NEW shell \in E!Shells, E!StartChild(shell)
    PROVE  /\ EnvironmentInv' /\ launch'.pc \in {"failed", "wait"}
           /\ launch'.pc = "failed" /\ ~launch'.disturbed =>
                 \/ launch.listen \in foreign
                 \/ \E e \in E!Environment \ {launch.scope} : worker[e] = launch.listen
<1>0. launch \in Launches /\ launch.scope \in E!Environment /\ launch.pc = "start" /\ UnderWay /\ UNCHANGED <<config, route, foreign>>
  BY DEF E!StartChild, EnvironmentInv, EnvironmentTypes, Launches, UnderWay
<1>1. launch.scope # E!Refused
  BY <1>0, Environments
<1>2. E!Pinned(shell) = launch.scope
  BY <1>1 DEF E!Pinned, E!Resolve, E!NoSelector
<1>3. /\ worker' = [worker EXCEPT ![launch.scope] = E!Started(launch.scope)]
      /\ launch' = [launch EXCEPT !.pc = IF E!Started(launch.scope) = None THEN "failed" ELSE "wait", !.started = TRUE]
  BY <1>1, <1>2 DEF E!StartChild
<1>4. E!Started(launch.scope) \in Listens
  BY <1>0 DEF E!Started, EnvironmentInv, EnvironmentTypes, Proxied, Listens
<1>5. PICK pc \in {"failed", "wait"} : pc = (IF E!Started(launch.scope) = None THEN "failed" ELSE "wait")
  OBVIOUS
<1>6. launch' = [launch EXCEPT !.pc = pc, !.started = TRUE]
  BY <1>3, <1>5
<1>7. /\ launch' \in Launches /\ launch'.pc = pc /\ launch'.scope = launch.scope /\ launch'.product = launch.product
      /\ launch'.dir = launch.dir /\ launch'.listen = launch.listen /\ launch'.disturbed = launch.disturbed
  BY <1>0, <1>6 DEF Launches
<1>8. worker' \in [E!Environment -> Listens] /\ worker'[launch.scope] = E!Started(launch.scope)
  BY <1>0, <1>3, <1>4 DEF EnvironmentInv, EnvironmentTypes
<1>9. E!Started(launch.scope) # None => E!Started(launch.scope) = config[launch.scope].listen
  BY DEF E!Started
<1>10. EnvironmentInv'
  BY <1>0, <1>5, <1>7, <1>8, <1>9 DEF EnvironmentInv, EnvironmentTypes, FilesAgree, Launching, UnderWay, Scoped
<1>11. ASSUME pc = "failed", ~launch.disturbed
       PROVE  \/ launch.listen \in foreign
              \/ \E e \in E!Environment \ {launch.scope} : worker[e] = launch.listen
  <2>1. config[launch.scope].listen = launch.listen /\ launch.listen # None
    BY <1>0, <1>11 DEF EnvironmentInv, Launching
  <2>2. ~E!Startable(launch.scope)
    BY <1>5, <1>11, <2>1 DEF E!Started
  <2>3. worker[launch.scope] # launch.listen /\ E!Listening(launch.listen)
    BY <2>1, <2>2 DEF E!Startable
  <2> QED BY <2>3 DEF E!Listening
<1> QED BY <1>7, <1>10, <1>11

LEMMA RunsAndFinishes ==
    ASSUME EnvironmentInv, E!Run \/ E!Finish
    PROVE  EnvironmentInv' /\ launch'.pc \in {"running", "idle"}
<1>1. CASE E!Run
  BY <1>1, LaunchGoes DEF E!Run, E!quiet, UnderWay
<1>2. CASE E!Finish
  <2>1. launch' = E!Idle /\ UNCHANGED <<config, route, worker>>
    BY <1>2 DEF E!Finish, E!quiet
  <2>2. E!Idle \in Launches /\ E!Idle.pc = "idle"
    BY Environments DEF E!Idle, Launches, Listens, E!Product
  <2> QED BY <2>1, <2>2 DEF EnvironmentInv, EnvironmentTypes, FilesAgree, Launching, UnderWay
<1> QED BY <1>1, <1>2

LEMMA EnvironmentInit == E!Init => EnvironmentInv
<1> SUFFICES ASSUME E!Init PROVE EnvironmentInv
  OBVIOUS
<1>1. worker \in [E!Environment -> Listens]
  BY Zenon DEF E!Init, Listens
<1>2. launch \in Launches /\ launch.pc = "idle"
  BY Environments, Zenon DEF E!Init, E!Idle, Launches, Listens, E!Product
<1>3. PICK port \in Port : port = CHOOSE p \in Port : TRUE
  BY Environments
<1>4. config \in [E!Environment -> Proxied] /\ \A e \in E!Environment : E!Isolated(e) => config[e].listen = None
  <2>1. E!NoConfig \in Proxied /\ E!NoConfig.listen = None
    BY DEF E!NoConfig, Proxied, Listens
  <2>2. [listen |-> port, keys |-> {}] \in Proxied
    BY DEF Proxied, Listens
  <2>3. \/ config = [e \in E!Environment |-> E!NoConfig]
        \/ config = [e \in E!Environment |-> IF e = E!Root THEN [listen |-> port, keys |-> {}] ELSE E!NoConfig]
    BY <1>3, Zenon DEF E!Init
  <2> QED BY <2>1, <2>2, <2>3 DEF E!Isolated
<1>5. route \in [E!Places -> Routes]
  <2>1. E!NoRoute \in Routes /\ [proxy |-> port, ca |-> E!Root] \in Routes
    BY Environments DEF E!NoRoute, Routes, Listens
  <2>2. \/ route = [p \in E!Places |-> E!NoRoute]
        \/ \E old \in SUBSET E!Places : route = [p \in E!Places |-> IF p \in old THEN [proxy |-> port, ca |-> E!Root] ELSE E!NoRoute]
    BY <1>3, Zenon DEF E!Init
  <2> QED BY <2>1, <2>2
<1> QED BY <1>1, <1>2, <1>4, <1>5 DEF EnvironmentInv, EnvironmentTypes, FilesAgree, Launching, UnderWay

LEMMA EnvironmentStep == ASSUME EnvironmentInv, E!Next PROVE EnvironmentInv'
BY Initializes, LaunchRuns, Serves, Claims, ProbesAndWaits, StartsChild, RunsAndFinishes DEF E!Next, E!LaunchStep

LEMMA EnvironmentRests == ASSUME EnvironmentInv, UNCHANGED varsE PROVE EnvironmentInv'
BY DEF EnvironmentInv, EnvironmentTypes, FilesAgree, Launching, UnderWay, Scoped, varsE

LEMMA LaunchesReach ==
    ASSUME EnvironmentInv, E!Next
    PROVE  E!ReachesItsEnvironment /\ E!SucceedsUndisturbed /\ E!FollowsTheFiles
<1>0. launch \in Launches
  BY DEF EnvironmentInv, EnvironmentTypes
<1>1. CASE launch' = [launch EXCEPT !.disturbed = TRUE]
  <2>1. launch'.pc = launch.pc
    BY <1>0, <1>1 DEF Launches
  <2> QED BY <2>1 DEF E!ReachesItsEnvironment, E!SucceedsUndisturbed, E!FollowsTheFiles
<1>2. ASSUME NEW product \in E!Product, NEW shell \in E!Shells, NEW path \in SomePaths, E!RunLaunch(product, shell, path)
      PROVE  E!ReachesItsEnvironment /\ E!SucceedsUndisturbed /\ E!FollowsTheFiles
  <2>1. launch.pc = "idle" /\ launch'.pc \in {"probe", "failed"}
    BY <1>2, LaunchRuns DEF E!RunLaunch
  <2> QED BY <2>1 DEF E!ReachesItsEnvironment, E!SucceedsUndisturbed, E!FollowsTheFiles
<1>3. CASE E!Probe \/ E!Wait
  <2>1. E!ReachesItsEnvironment
    BY <1>3, ProbesAndWaits DEF E!ReachesItsEnvironment, E!Accepted, E!Authentic
  <2>2. launch.pc # "run"
    BY <1>3 DEF E!Probe, E!Wait
  <2> QED BY <1>3, <2>1, <2>2, ProbesAndWaits DEF E!SucceedsUndisturbed, E!FollowsTheFiles
<1>4. ASSUME NEW shell \in E!Shells, E!StartChild(shell)
      PROVE  E!ReachesItsEnvironment /\ E!SucceedsUndisturbed /\ E!FollowsTheFiles
  <2>1. launch.pc = "start"
    BY <1>4 DEF E!StartChild
  <2> QED BY <1>4, <2>1, StartsChild DEF E!ReachesItsEnvironment, E!SucceedsUndisturbed, E!FollowsTheFiles
<1>5. CASE E!Run \/ E!Finish
  <2>1. E!ReachesItsEnvironment /\ E!SucceedsUndisturbed
    BY <1>5, RunsAndFinishes DEF E!ReachesItsEnvironment, E!SucceedsUndisturbed
  <2>2. E!FollowsTheFiles
    <3> SUFFICES ASSUME launch.pc = "run", ~launch.disturbed, E!Isolated(launch.scope) \/ launch.dir # "home"
                 PROVE  route[E!HomeOf(launch.product, launch.dir)] = [proxy |-> launch.listen, ca |-> launch.scope]
      BY DEF E!FollowsTheFiles
    <3>1. launch.listen # None /\ config[launch.scope].listen = launch.listen /\ Scoped
      BY DEF EnvironmentInv, Launching, UnderWay
    <3>2. CASE E!Isolated(launch.scope)
      BY <1>0, <3>1, <3>2 DEF EnvironmentInv, FilesAgree, Scoped, Launches
    <3>3. CASE ~E!Isolated(launch.scope)
      BY <3>3 DEF EnvironmentInv, Launching, UnderWay
    <3> QED BY <3>2, <3>3
  <2> QED BY <2>1, <2>2
<1>6. \/ launch' = [launch EXCEPT !.disturbed = TRUE]
      \/ \E shell \in E!Shells, product \in E!Product, path \in SomePaths : E!RunLaunch(product, shell, path)
      \/ E!Probe \/ E!Wait \/ E!Run \/ E!Finish
      \/ \E shell \in E!Shells : E!StartChild(shell)
  BY DEF E!Next, E!LaunchStep, E!Initialize, E!StartService, E!StopService, E!Claim, E!Command
<1> QED BY <1>1, <1>2, <1>3, <1>4, <1>5, <1>6
-----------------------------------------------------------------------------
(* The packaged Desktop (PackagedDesktop) *)

WindowFields == {"started", "native", "proxy", "pin", "apart", "version"}
StartFields == {"pc", "listen", "package", "binding", "actors", "refreshed", "profile", "receipt", "reuse", "spki", "step",
                "from", "observed", "began", "looked"}
Held == {"again", "proxy", "pins", "lease", "before", "activate", "observe", "settle", "write"}
Busy == {"initial", "lock"} \cup Held
StartTypes(j) ==
    /\ DOMAIN j = StartFields /\ j.pc \in {"idle", "done", "failed"} \cup Busy
    /\ j.began \in Nat /\ j.began <= changes /\ j.looked \in Nat /\ j.looked <= changes /\ j.from \in Nat
    /\ j.step \in {0, 2, 3, 4, 5} /\ (j.pc # "lease" => j.step = 0)
    /\ j.pc \in Busy => j.profile \in P!Profile
    /\ j.spki \in P!CA \cup {None}

\* A window that is known is known by its start.
Known(o) ==
    /\ o.native /\ ~o.apart /\ o.pin \in P!CA /\ o.pin # None /\ o.started \in Nat /\ o.started <= clock
    /\ \A w \in windows : w.started = o.started => w = o
Recorded == receipt # None => /\ Known(receipt.window) /\ receipt.window.version = receipt.version
                              /\ receipt.window.proxy = receipt.profile.port

\* A launch beside which nothing has moved still has what it had read, and an
\* instance that it is to take is the one on record, which nobody else writes.
Fresh(j) == j.began = changes
Current(j) ==
    j.pc \in Busy /\ Fresh(j) => /\ j.package = package.version /\ j.binding \in {None, package.version}
                                 /\ j.profile = conf /\ j.listen = conf.port
Reuses(j) == j.pc \in Held \ {"again"} /\ j.reuse => receipt # None /\ j.receipt = receipt
Pinned(j) == j.pc \in {"lease", "before", "activate", "observe", "settle", "write"} /\ Fresh(j) => P!Pins(j) = j.spki
\* Nothing is open when it starts one, and nothing else is opened.
Opening(j) ==
    ~j.reuse => /\ j.pc \in {"proxy", "pins", "lease", "before", "activate"} /\ Fresh(j) => windows = {}
                /\ j.pc \in {"activate", "observe", "settle"} => /\ j.from <= clock + 1
                                                                 /\ receipt # None => receipt.window.started < j.from
                /\ j.pc \in {"observe", "settle"} /\ Fresh(j) => \A w \in windows : w.started >= j.from
\* The window that it has seen, and what it has found on its last look.
Truth(j) == /\ windows = {j.observed} /\ j.observed.version = package.version /\ j.observed.proxy = conf.port
            /\ served = [port |-> conf.port, ca |-> j.observed.pin]
Seeing(j) ==
    /\ j.pc = "settle" /\ j.reuse => j.observed = j.receipt.window
    /\ j.pc \in {"settle", "write"} => Known(j.observed) /\ j.observed.proxy = j.profile.port
    /\ j.pc = "write" => j.observed.version = j.binding /\ (j.looked = changes => Truth(j))
\* What is left of the older client.
Ending(j) ==
    j.pc = "lease" => /\ lease # None
                      /\ j.step = 3 => sys.server = "users"
                      /\ j.step \in {4, 5} => ~P!InForce(sys)
                      /\ j.step = 5 => ~roots
StartOk(j) == StartTypes(j) /\ Current(j) /\ Reuses(j) /\ Pinned(j) /\ Opening(j) /\ Seeing(j) /\ Ending(j)

WorldTypes ==
    /\ DOMAIN starts = Launch /\ changes \in Nat /\ clock \in Nat /\ IsFiniteSet(windows)
    /\ conf \in P!Profile /\ served \in P!Profile \cup {None}
    /\ \A w \in windows : DOMAIN w = WindowFields /\ w.started \in Nat /\ w.started <= clock
    /\ DOMAIN sys = {"enable", "server", "auto"} /\ (lease # None => lease.server = "users")
OneHolds == \A l, m \in Launch : starts[l].pc \in Held /\ starts[m].pc \in Held => l = m
PackagedInv == WorldTypes /\ Recorded /\ OneHolds /\ \A l \in Launch : StartOk(starts[l])

LEMMA IdleStart ==
    /\ DOMAIN P!Idle = StartFields /\ P!Idle.step = 0 /\ P!Idle.began = 0 /\ P!Idle.looked = 0 /\ P!Idle.from = 0
    /\ P!Idle.pc = "idle" /\ P!Idle.spki = None
BY DEF P!Idle, StartFields
LEMMA EndedIsOk ==
    ASSUME WorldTypes, NEW j, DOMAIN j = StartFields, j.pc \in {"idle", "done", "failed"}, j.step = 0, j.began = 0, j.from = 0, j.spki = None,
           j.looked \in Nat, j.looked <= changes
    PROVE  StartOk(j)
<1>1. StartTypes(j)
  BY DEF StartTypes, WorldTypes, Busy, Held
<1> QED BY <1>1 DEF StartOk, Current, Reuses, Pinned, Opening, Seeing, Ending, Held, Busy
LEMMA FailedIsOk == ASSUME WorldTypes PROVE StartOk([P!Idle EXCEPT !.pc = "failed"]) /\ StartOk(P!Idle)
<1> DEFINE f == [P!Idle EXCEPT !.pc = "failed"]
<1>1. /\ DOMAIN f = StartFields /\ f.pc = "failed" /\ f.step = 0 /\ f.began = 0 /\ f.from = 0 /\ f.spki = None /\ f.looked = 0
  BY IdleStart DEF StartFields
<1> HIDE DEF f
<1>2. StartOk(f)
  BY <1>1, EndedIsOk DEF WorldTypes
<1>3. StartOk(P!Idle)
  BY IdleStart, EndedIsOk DEF WorldTypes
<1> QED BY <1>2, <1>3 DEF f

LEMMA PackagedInit == P!Init => PackagedInv
<1> SUFFICES ASSUME P!Init PROVE PackagedInv
  OBVIOUS
<1>1. WorldTypes /\ Recorded
  <2>1. conf \in P!Profile
    <3>1. (CHOOSE p \in PackagedPort : TRUE) \in PackagedPort /\ 1 \in P!CA
      BY PartsAssumption DEF P!PackagedAssumption, P!CA
    <3> QED BY <3>1 DEF P!Init, P!Profile
  <2>2. DOMAIN sys = {"enable", "server", "auto"} /\ (lease # None => lease.server = "users")
    BY DEF P!Init, P!UserSettings
  <2> QED BY <2>1, <2>2, FS_EmptySet DEF P!Init, WorldTypes, Recorded
<1>2. \A l \in Launch : starts[l] = P!Idle
  BY DEF P!Init
<1> QED BY <1>1, <1>2, FailedIsOk, IdleStart DEF PackagedInv, OneHolds, Held

(* One launch *)

\* Another launch waits, or has looked only before the lock.
LEMMA OthersWait ==
    ASSUME PackagedInv, NEW l \in Launch, starts[l].pc \in Held, NEW m \in Launch \ {l}
    PROVE  starts[m].pc \notin Held
BY DEF PackagedInv, OneHolds
LEMMA WaitersStay ==
    ASSUME NEW j, StartOk(j), j.pc \notin Held, UNCHANGED <<package, conf, changes>>
    PROVE  StartOk(j)'
BY DEF StartOk, StartTypes, Current, Fresh, Reuses, Pinned, Opening, Seeing, Ending, Held, Busy
\* The step of a launch, whose record becomes r.
LEMMA StartGoes ==
    ASSUME PackagedInv, NEW l \in Launch, NEW r, starts' = [starts EXCEPT ![l] = r],
           r.pc \in Held => starts[l].pc \in Held \/ \A m \in Launch : starts[m].pc \notin Held,
           WorldTypes', Recorded', StartOk(r)',
           \A m \in Launch \ {l} : \A j : j = starts[m] => StartOk(j)'
    PROVE  PackagedInv'
<1>1. starts'[l] = r /\ \A m \in Launch \ {l} : starts'[m] = starts[m]
  BY DEF PackagedInv, WorldTypes
<1>2. \A m \in Launch : StartOk(starts[m])'
  <2> SUFFICES ASSUME NEW m \in Launch PROVE StartOk(starts[m])'
    OBVIOUS
  <2>1. CASE m = l
    BY <1>1, <2>1
  <2>2. CASE m # l
    <3>1. PICK j : j = starts[m]
      OBVIOUS
    <3>2. starts'[m] = j /\ StartOk(j)'
      BY <1>1, <2>2, <3>1
    <3> QED BY <3>2
  <2> QED BY <2>1, <2>2
<1>3. OneHolds'
  BY <1>1 DEF PackagedInv, OneHolds
<1> QED BY <1>2, <1>3 DEF PackagedInv

LEMMA StartStays ==
    ASSUME NEW j, StartOk(j), UNCHANGED <<P!world, receipt>>
    PROVE  StartOk(j)'
BY DEF P!world, StartOk, StartTypes, Current, Fresh, Reuses, Pinned, P!Pins, Opening, Seeing, Known, Truth, Ending, P!InForce
\* A step that only looks.
LEMMA StartLooks ==
    ASSUME PackagedInv, NEW l \in Launch, NEW r, starts' = [starts EXCEPT ![l] = r],
           r.pc \in Held => starts[l].pc \in Held \/ \A m \in Launch : starts[m].pc \notin Held,
           UNCHANGED <<P!world, receipt>>, StartOk(r)
    PROVE  PackagedInv'
<1>1. WorldTypes' /\ Recorded'
  BY DEF PackagedInv, WorldTypes, Recorded, Known, P!world
<1>2. StartOk(r)'
  BY StartStays
<1>3. \A m \in Launch \ {l} : \A j : j = starts[m] => StartOk(j)'
  BY StartStays DEF PackagedInv
<1> QED BY <1>1, <1>2, <1>3, StartGoes

LEMMA Goes ==
    ASSUME NEW j, DOMAIN j = StartFields, NEW pc
    PROVE  LET r == [j EXCEPT !.pc = pc]
           IN  DOMAIN r = StartFields /\ r.pc = pc /\ \A f \in StartFields \ {"pc"} : r[f] = j[f]
BY DEF StartFields
LEMMA Observes ==
    ASSUME NEW j, DOMAIN j = StartFields
    PROVE  LET r == P!Observed(j)
           IN  /\ DOMAIN r = StartFields /\ r.package = package.version /\ r.binding = package.version
               /\ \A f \in StartFields \ {"package", "binding", "refreshed", "actors"} : r[f] = j[f]
BY DEF StartFields, P!Observed

LEMMA StartFails ==
    ASSUME PackagedInv, NEW l \in Launch, P!Failed(l), UNCHANGED <<P!world, receipt>>
    PROVE  PackagedInv'
<1>1. PICK r : r = [P!Idle EXCEPT !.pc = "failed"]
  OBVIOUS
<1>2. starts' = [starts EXCEPT ![l] = r] /\ r.pc = "failed"
  BY <1>1, IdleStart DEF P!Failed, P!To, StartFields
<1> QED BY <1>1, <1>2, StartLooks, FailedIsOk DEF PackagedInv, Held

LEMMA PackagedStarts == ASSUME PackagedInv, NEW l \in Launch, P!Start(l) PROVE PackagedInv'
<1>1. PICK j : j = [P!Idle EXCEPT !.listen = conf.port, !.package = package.version, !.profile = conf, !.began = changes]
  OBVIOUS
<1>2. PICK pc \in {"initial", "failed"} : P!To(l, j, pc)
  BY <1>1 DEF P!Start
<1>3. PICK r : r = [j EXCEPT !.pc = pc]
  OBVIOUS
<1>4. /\ DOMAIN j = StartFields /\ j.listen = conf.port /\ j.package = package.version /\ j.profile = conf /\ j.began = changes
      /\ j.step = 0 /\ j.looked = 0 /\ j.from = 0 /\ j.spki = None /\ j.binding = None
  BY <1>1, IdleStart DEF StartFields, P!Idle
<1>5. /\ DOMAIN r = StartFields /\ r.listen = conf.port /\ r.package = package.version /\ r.profile = conf /\ r.began = changes
      /\ r.step = 0 /\ r.looked = 0 /\ r.from = 0 /\ r.spki = None /\ r.binding = None /\ r.pc = pc
  BY <1>3, <1>4, Goes DEF StartFields
<1>6. StartOk(r)
  BY <1>5 DEF PackagedInv, WorldTypes, StartOk, StartTypes, Current, Fresh, Reuses, Pinned, Opening, Seeing, Ending, Held, Busy
<1> QED BY <1>2, <1>3, <1>5, <1>6, StartLooks DEF P!To, P!Start, Held

LEMMA PackagedInitial == ASSUME PackagedInv, NEW l \in Launch, P!Initial(l) PROVE PackagedInv'
<1>1. CASE P!Failed(l)
  BY <1>1, StartFails DEF P!Initial
<1>2. CASE P!To(l, P!Observed(starts[l]), "lock")
  <2>1. PICK j : j = starts[l] /\ StartOk(j) /\ j.pc = "initial"
    BY DEF P!Initial, P!At, PackagedInv
  <2>2. PICK o : o = P!Observed(j)
    OBVIOUS
  <2>3. PICK r : r = [o EXCEPT !.pc = "lock"]
    OBVIOUS
  <2>4. /\ DOMAIN r = StartFields /\ r.pc = "lock" /\ r.package = package.version /\ r.binding = package.version
        /\ \A f \in StartFields \ {"pc", "package", "binding", "refreshed", "actors"} : r[f] = j[f]
    BY <2>1, <2>2, <2>3, Goes, Observes DEF StartOk, StartTypes, StartFields
  <2>5. StartOk(r)
    BY <2>1, <2>4 DEF StartFields, StartOk, StartTypes, Current, Fresh, Reuses, Pinned, Opening, Seeing, Ending, Held, Busy
  <2> QED BY <1>2, <2>1, <2>2, <2>3, <2>4, <2>5, StartLooks DEF P!To, P!Initial, Held
<1> QED BY <1>1, <1>2 DEF P!Initial

LEMMA PackagedLocks == ASSUME PackagedInv, NEW l \in Launch, P!Lock(l) PROVE PackagedInv'
<1>1. CASE P!Failed(l)
  BY <1>1, StartFails DEF P!Lock
<1>2. CASE (\A m \in Launch : ~P!Holds(m)) /\ P!To(l, starts[l], "again")
  <2>1. PICK j : j = starts[l] /\ StartOk(j) /\ j.pc = "lock"
    BY DEF P!Lock, P!At, PackagedInv
  <2>3. PICK r : r = [j EXCEPT !.pc = "again"]
    OBVIOUS
  <2>4. DOMAIN r = StartFields /\ r.pc = "again" /\ \A f \in StartFields \ {"pc"} : r[f] = j[f]
    BY <2>1, <2>3, Goes DEF StartOk, StartTypes
  <2>5. StartOk(r)
    BY <2>1, <2>4 DEF StartFields, StartOk, StartTypes, Current, Fresh, Reuses, Pinned, Opening, Seeing, Ending, Held, Busy
  <2>6. \A m \in Launch : starts[m].pc \notin Held
    BY <1>2 DEF P!Holds, Held
  <2> QED BY <1>2, <2>1, <2>3, <2>4, <2>5, <2>6, StartLooks DEF P!To, P!Lock
<1> QED BY <1>1, <1>2 DEF P!Lock

\* The lock is held: it looks again, at the record too.
LEMMA PackagedLooksAgain == ASSUME PackagedInv, NEW l \in Launch, P!Again(l) PROVE PackagedInv'
<1>1. CASE P!Failed(l)
  BY <1>1, StartFails DEF P!Again
<1>2. PICK j : j = starts[l] /\ StartOk(j) /\ j.pc = "again"
  BY DEF P!Again, P!At, PackagedInv
<1>3. PICK decision : decision = P!Decision(j.profile, P!ReceiptRead)
  OBVIOUS
<1>4. PICK o : o = P!Observed(j)
  OBVIOUS
<1>5. PICK reuse \in BOOLEAN : reuse <=> decision = "reuse"
  OBVIOUS
<1>6. PICK k : k = [o EXCEPT !.receipt = P!ReceiptRead, !.reuse = decision = "reuse"]
  OBVIOUS
<1>7. CASE decision # "refused" /\ P!To(l, k, IF decision = "cold" THEN "proxy" ELSE "pins")
  <2>1. PICK r : r = [k EXCEPT !.pc = IF decision = "cold" THEN "proxy" ELSE "pins"]
    OBVIOUS
  <2>2. DOMAIN o = StartFields
    BY <1>2, <1>4, Observes DEF StartOk, StartTypes
  <2>3. DOMAIN k = StartFields /\ k.receipt = P!ReceiptRead /\ (k.reuse <=> decision = "reuse")
    BY <1>6, <2>2 DEF StartFields
  <2>4. \A f \in StartFields \ {"receipt", "reuse"} : k[f] = o[f]
    BY <1>6, <2>2 DEF StartFields
  <2>5. DOMAIN r = StartFields /\ r.pc = (IF decision = "cold" THEN "proxy" ELSE "pins") /\ \A f \in StartFields \ {"pc"} : r[f] = k[f]
    BY <2>1, <2>3, Goes
  <2>6. /\ r.package = package.version /\ r.binding = package.version
        /\ \A f \in {"began", "looked", "from", "step", "profile", "listen", "spki"} : r[f] = j[f]
    <3>1. DOMAIN j = StartFields
      BY <1>2 DEF StartOk, StartTypes
    <3>2. o.package = package.version /\ o.binding = package.version
      BY <1>4, <3>1, Observes
    <3>3. \A f \in StartFields \ {"package", "binding", "refreshed", "actors"} : o[f] = j[f]
      BY <1>4, <3>1, Observes
    <3>4. \A f \in StartFields \ {"pc", "receipt", "reuse"} : r[f] = o[f]
      BY <2>4, <2>5
    <3> QED BY <3>2, <3>3, <3>4 DEF StartFields
  <2>7. r.receipt = P!ReceiptRead /\ (r.reuse <=> decision = "reuse")
    BY <2>3, <2>5 DEF StartFields
  <2>8. r.reuse => receipt # None /\ r.receipt = receipt
    BY <1>3, <2>7 DEF P!Decision, P!ReceiptRead
  <2>9. ~r.reuse => decision = "cold" /\ windows = {}
    BY <1>3, <1>7, <2>7 DEF P!Decision, P!Actors
  <2>10. StartOk(r)
    BY <1>2, <2>5, <2>6, <2>8, <2>9 DEF StartOk, StartTypes, Current, Fresh, Reuses, Pinned, Opening, Seeing, Ending, Held, Busy
  <2> QED BY <1>2, <1>7, <2>1, <2>5, <2>10, StartLooks DEF P!To, P!Again, Held
<1> QED BY <1>1, <1>2, <1>3, <1>4, <1>6, <1>7 DEF P!Again

\* The others wait while something moves.
LEMMA StartMoves ==
    ASSUME PackagedInv, NEW l \in Launch, starts[l].pc \in Held, NEW r, starts' = [starts EXCEPT ![l] = r],
           WorldTypes', Recorded', StartOk(r)', UNCHANGED <<package, conf, changes>>
    PROVE  PackagedInv'
<1>1. \A m \in Launch \ {l} : \A j : j = starts[m] => StartOk(j)'
  <2> SUFFICES ASSUME NEW m \in Launch \ {l}, NEW j, j = starts[m] PROVE StartOk(j)'
    OBVIOUS
  <2>1. StartOk(j) /\ j.pc \notin Held
    BY OthersWait DEF PackagedInv
  <2> QED BY <2>1, WaitersStay
<1> QED BY <1>1, StartGoes

LEMMA PackagedEnsuresProxy == ASSUME PackagedInv, NEW l \in Launch, P!Proxy(l) PROVE PackagedInv'
<1>0. /\ UNCHANGED <<package, windows, helpers, clock, conf, sys, lease, roots, changes, receipt>>
      /\ starts[l].pc = "proxy"
  BY DEF P!Proxy, P!At
<1>1. CASE P!Failed(l) /\ UNCHANGED served
  BY <1>0, <1>1, StartFails DEF P!world
<1>2. PICK j : j = starts[l] /\ StartOk(j) /\ j.pc = "proxy"
  BY <1>0 DEF PackagedInv
<1>3. ASSUME NEW pc \in {"pins", "failed"}, P!To(l, j, pc), served' \in {served, conf} PROVE PackagedInv'
  <2>1. PICK r : r = [j EXCEPT !.pc = pc]
    OBVIOUS
  <2>2. DOMAIN r = StartFields /\ r.pc = pc /\ \A f \in StartFields \ {"pc"} : r[f] = j[f]
    BY <1>2, <2>1, Goes DEF StartOk, StartTypes
  <2>3. StartOk(r)'
    BY <1>0, <1>2, <2>2 DEF StartFields, StartOk, StartTypes, Current, Fresh, Reuses, Pinned, Opening, Seeing, Ending, Held, Busy
  <2>4. WorldTypes' /\ Recorded'
    <3>1. DOMAIN starts' = Launch
      BY <1>3 DEF P!To, PackagedInv, WorldTypes
    <3> QED BY <1>0, <1>3, <3>1 DEF PackagedInv, WorldTypes, Recorded, Known
  <2> QED BY <1>0, <1>2, <1>3, <2>1, <2>3, <2>4, StartMoves DEF P!To, Held
<1>4. CASE P!Pins(starts[l]) # None /\ P!To(l, starts[l], "pins") /\ UNCHANGED served
  BY <1>2, <1>3, <1>4
<1>5. CASE served' = conf /\ P!To(l, starts[l], IF conf.port = starts[l].listen THEN "pins" ELSE "failed")
  BY <1>2, <1>3, <1>5
<1> QED BY <1>1, <1>4, <1>5 DEF P!Proxy

LEMMA PackagedReadsPins == ASSUME PackagedInv, NEW l \in Launch, P!ReadPins(l) PROVE PackagedInv'
<1>1. CASE P!Failed(l)
  BY <1>1, StartFails DEF P!ReadPins
<1>2. PICK j : j = starts[l] /\ StartOk(j) /\ j.pc = "pins"
  BY DEF P!ReadPins, P!At, PackagedInv
<1>3. PICK k : k = [j EXCEPT !.spki = P!Pins(j)]
  OBVIOUS
<1>4. ASSUME NEW pc \in {"before", "lease"}, pc = "lease" => lease # None, P!To(l, k, pc) PROVE PackagedInv'
  <2>1. PICK r : r = [k EXCEPT !.pc = pc]
    OBVIOUS
  <2>2. DOMAIN k = StartFields /\ k.spki = P!Pins(j) /\ \A f \in StartFields \ {"spki"} : k[f] = j[f]
    BY <1>2, <1>3 DEF StartFields, StartOk, StartTypes
  <2>3. DOMAIN r = StartFields /\ r.pc = pc /\ r.spki = P!Pins(j) /\ \A f \in StartFields \ {"pc", "spki"} : r[f] = j[f]
    BY <2>1, <2>2, Goes DEF StartFields
  <2>4. P!Pins(r) = P!Pins(j) /\ P!Pins(j) \in P!CA \cup {None}
    BY <2>3 DEF P!Pins, P!Profile, StartFields, PackagedInv, WorldTypes
  <2>5. StartOk(r)
    BY <1>2, <1>4, <2>3, <2>4 DEF StartFields, StartOk, StartTypes, Current, Fresh, Reuses, Pinned, Opening, Seeing, Ending, Held, Busy
  <2> QED BY <1>2, <1>4, <2>1, <2>5, StartLooks DEF P!To, P!ReadPins, Held
<1> QED BY <1>1, <1>2, <1>3, <1>4 DEF P!ReadPins

LEMMA PackagedRestores == ASSUME PackagedInv, NEW l \in Launch, P!RestoreLease(l) PROVE PackagedInv'
<1>0. UNCHANGED <<package, windows, helpers, clock, conf, served, changes, receipt>>
  BY DEF P!RestoreLease
<1>1. PICK j : j = starts[l] /\ StartOk(j) /\ j.pc = "lease"
  BY DEF P!RestoreLease, P!At, PackagedInv
<1>2. PICK n : n = IF j.step = 0 THEN (IF P!InForce(sys) THEN 1 ELSE 4) ELSE j.step
  OBVIOUS
<1>3. n \in 1..5
  BY <1>1, <1>2 DEF StartOk, StartTypes
<1>4. /\ Len(P!LeaseSteps) = 5
      /\ P!LeaseSteps[1] = "enable" /\ P!LeaseSteps[2] = "server" /\ P!LeaseSteps[3] = "auto"
      /\ P!LeaseSteps[4] = "ca" /\ P!LeaseSteps[5] = "marker"
  BY DEF P!LeaseSteps
<1>13. PICK field : field = P!LeaseSteps[n]
  OBVIOUS
<1>14. /\ field \in {"enable", "server", "auto"} <=> n \in 1..3
       /\ field = "ca" <=> n = 4
       /\ field = "marker" <=> n = 5
  <2>1. n = 1 \/ n = 2 \/ n = 3 \/ n = 4 \/ n = 5
    BY <1>3
  <2> QED BY <1>4, <1>13, <2>1
<1>15. /\ IF field \in {"enable", "server", "auto"} /\ lease # None THEN sys' = P!Restored(field) /\ UNCHANGED <<roots, lease>>
          ELSE /\ roots' = IF field = "ca" THEN FALSE ELSE roots
               /\ lease' = IF field = "marker" THEN None ELSE lease
               /\ UNCHANGED sys
       /\ starts' = [starts EXCEPT ![l] = [j EXCEPT !.step = (n + 1) % (5 + 1), !.pc = IF n = 5 THEN "before" ELSE "lease"]]
  BY <1>1, <1>2, <1>4, <1>13 DEF P!RestoreLease
<1>16. lease # None
  BY <1>1 DEF StartOk, Ending
<1>17. /\ n \in 1..3 => sys' = P!Restored(field) /\ UNCHANGED <<roots, lease>>
       /\ n = 4 => ~roots' /\ UNCHANGED <<sys, lease>>
       /\ n = 5 => lease' = None /\ UNCHANGED <<sys, roots>>
  BY <1>14, <1>15, <1>16
<1>18. (n + 1) % (5 + 1) = IF n = 5 THEN 0 ELSE n + 1
  BY <1>3
<1>6. PICK r : r = [j EXCEPT !.step = (n + 1) % (5 + 1), !.pc = IF n = 5 THEN "before" ELSE "lease"]
  OBVIOUS
<1>7. /\ DOMAIN r = StartFields /\ r.pc = (IF n = 5 THEN "before" ELSE "lease") /\ r.step = (IF n = 5 THEN 0 ELSE n + 1)
      /\ \A f \in StartFields \ {"pc", "step"} : r[f] = j[f]
  BY <1>1, <1>6, <1>18 DEF StartFields, StartOk, StartTypes
<1>19. n \in 1..3 => /\ DOMAIN sys' = {"enable", "server", "auto"}
                     /\ n = 2 => sys'.server = "users"
                     /\ n = 3 => sys'.server = sys.server
  <2>1. DOMAIN sys = {"enable", "server", "auto"} /\ lease.server = "users"
    BY <1>16 DEF PackagedInv, WorldTypes
  <2>2. CASE n = 1
    BY <1>4, <1>13, <1>17, <2>1, <2>2 DEF P!Restored
  <2>3. CASE n = 2
    BY <1>4, <1>13, <1>17, <2>1, <2>3 DEF P!Restored
  <2>4. CASE n = 3
    BY <1>4, <1>13, <1>17, <2>1, <2>4 DEF P!Restored
  <2> QED BY <1>3, <2>2, <2>3, <2>4
<1>8. DOMAIN sys' = {"enable", "server", "auto"} /\ (lease' # None => lease'.server = "users")
  BY <1>3, <1>17, <1>19 DEF PackagedInv, WorldTypes
<1>9. Ending(r)'
  <2>1. CASE n = 1
    BY <1>7, <1>16, <1>17, <2>1 DEF Ending
  <2>2. CASE n = 2
    BY <1>7, <1>16, <1>17, <1>19, <2>2 DEF Ending
  <2>3. CASE n = 3
    <3>1. sys.server = "users"
      BY <1>1, <1>2, <2>3 DEF StartOk, Ending
    <3>2. ~P!InForce(sys')
      BY <1>19, <2>3, <3>1 DEF P!InForce
    <3> QED BY <1>7, <1>16, <1>17, <2>3, <3>2 DEF Ending
  <2>4. CASE n = 4
    <3>1. ~P!InForce(sys)
      BY <1>1, <1>2, <2>4 DEF StartOk, Ending
    <3>2. ~P!InForce(sys')
      BY <1>17, <2>4, <3>1
    <3> QED BY <1>7, <1>16, <1>17, <2>4, <3>2 DEF Ending
  <2>5. CASE n = 5
    BY <1>7, <2>5 DEF Ending
  <2> QED BY <1>3, <2>1, <2>2, <2>3, <2>4, <2>5
<1>10. P!Pins(r)' = P!Pins(j) /\ P!Pins(r)' = P!Pins(r)
  BY <1>0, <1>7 DEF P!Pins, StartFields
<1>11. StartOk(r)'
  <2>1. (StartTypes(r) /\ Current(r) /\ Reuses(r) /\ Opening(r) /\ Seeing(r))'
    BY <1>0, <1>1, <1>3, <1>7 DEF StartFields, StartOk, StartTypes, Current, Fresh, Reuses, Opening, Seeing, Held, Busy
  <2>2. Pinned(r)'
    BY <1>0, <1>1, <1>7, <1>10 DEF StartFields, StartOk, Pinned, Fresh
  <2> QED BY <1>9, <2>1, <2>2 DEF StartOk
<1>12. WorldTypes' /\ Recorded'
  <2>1. DOMAIN starts' = Launch
    BY <1>15 DEF PackagedInv, WorldTypes
  <2> QED BY <1>0, <1>8, <2>1 DEF PackagedInv, WorldTypes, Recorded, Known
<1> QED BY <1>0, <1>1, <1>15, <1>6, <1>11, <1>12, StartMoves DEF Held

LEMMA PackagedLooksBefore == ASSUME PackagedInv, NEW l \in Launch, P!Before(l) PROVE PackagedInv'
<1>1. CASE P!Failed(l)
  BY <1>1, StartFails DEF P!Before
<1>2. PICK j : j = starts[l] /\ StartOk(j) /\ j.pc = "before"
  BY DEF P!Before, P!At, PackagedInv
<1>3. PICK o : o = P!Observed(j)
  OBVIOUS
<1>4. PICK k : k = [o EXCEPT !.from = clock + 1]
  OBVIOUS
<1>5. CASE P!To(l, k, "activate")
  <2>1. PICK r : r = [k EXCEPT !.pc = "activate"]
    OBVIOUS
  <2>2. DOMAIN o = StartFields
    BY <1>2, <1>3, Observes DEF StartOk, StartTypes
  <2>3. DOMAIN k = StartFields /\ k.from = clock + 1 /\ \A f \in StartFields \ {"from"} : k[f] = o[f]
    BY <1>4, <2>2 DEF StartFields
  <2>4. DOMAIN r = StartFields /\ r.pc = "activate" /\ \A f \in StartFields \ {"pc"} : r[f] = k[f]
    BY <2>1, <2>3, Goes
  <2>5. r.package = package.version /\ r.binding = package.version /\ r.from = clock + 1
    <3>1. o.package = package.version /\ o.binding = package.version
      BY <1>2, <1>3, Observes DEF StartOk, StartTypes
    <3> QED BY <2>3, <2>4, <3>1 DEF StartFields
  <2>6. \A f \in StartFields \ {"pc", "package", "binding", "refreshed", "actors", "from"} : r[f] = j[f]
    BY <1>2, <1>3, <2>3, <2>4, Observes DEF StartOk, StartTypes
  <2>7. P!Pins(r) = P!Pins(j)
    BY <2>6 DEF P!Pins, StartFields
  <2>8. receipt # None => receipt.window.started < clock + 1
    BY DEF PackagedInv, Recorded, Known, WorldTypes
  <2>9. StartOk(r)
    <3>1. StartTypes(r) /\ Current(r) /\ Reuses(r)
      BY <1>2, <2>4, <2>5, <2>6 DEF StartFields, StartOk, StartTypes, Current, Fresh, Reuses, Held, Busy, PackagedInv, WorldTypes
    <3>2. Pinned(r) /\ Seeing(r) /\ Ending(r)
      BY <1>2, <2>4, <2>6, <2>7 DEF StartFields, StartOk, Pinned, Fresh, Seeing, Ending
    <3>3. Opening(r)
      BY <1>2, <2>4, <2>5, <2>6, <2>8 DEF StartFields, StartOk, Opening, Fresh, PackagedInv, WorldTypes
    <3> QED BY <3>1, <3>2, <3>3 DEF StartOk
  <2> QED BY <1>2, <1>5, <2>1, <2>9, StartLooks DEF P!To, P!Before, Held
<1> QED BY <1>1, <1>2, <1>3, <1>4, <1>5 DEF P!Before

LEMMA PackagedActivates == ASSUME PackagedInv, NEW l \in Launch, P!Activate(l) PROVE PackagedInv'
<1>0. UNCHANGED <<package, conf, served, sys, lease, roots, changes, receipt>> /\ starts[l].pc = "activate"
  BY DEF P!Activate, P!At
<1>1. CASE P!Failed(l) /\ UNCHANGED <<windows, clock, helpers>>
  BY <1>0, <1>1, StartFails DEF P!world
<1>2. PICK j : j = starts[l] /\ StartOk(j) /\ j.pc = "activate"
  BY <1>0 DEF PackagedInv
<1>3. PICK r : r = [j EXCEPT !.pc = "observe"]
  OBVIOUS
<1>4. DOMAIN r = StartFields /\ r.pc = "observe" /\ \A f \in StartFields \ {"pc"} : r[f] = j[f]
  BY <1>2, <1>3, Goes DEF StartOk, StartTypes
<1>5. CASE (\E w \in windows : ~w.apart) /\ P!To(l, j, "observe") /\ UNCHANGED <<windows, clock, helpers>>
  <2>1. P!Pins(r) = P!Pins(j)
    BY <1>4 DEF P!Pins, StartFields
  <2>2. ~j.reuse => ~Fresh(j)
    BY <1>2, <1>5 DEF StartOk, Opening
  <2>3. StartOk(r)
    BY <1>2, <1>4, <2>1, <2>2 DEF StartFields, StartOk, StartTypes, Current, Fresh, Reuses, Pinned, Opening, Seeing, Ending, Held, Busy
  <2> QED BY <1>0, <1>2, <1>3, <1>5, <2>3, StartLooks DEF P!To, P!world, Held
<1>6. PICK v : v = [started |-> clock + 1, native |-> FALSE, proxy |-> j.profile.port, pin |-> j.spki,
                    apart |-> FALSE, version |-> package.version]
  OBVIOUS
<1>7. CASE P!Opens(v) /\ P!To(l, j, "observe")
  <2>1. DOMAIN v = WindowFields /\ v.started = clock + 1
    BY <1>6 DEF WindowFields
  <2>2. clock' = clock + 1 /\ windows' = windows \cup {v} /\ starts' = [starts EXCEPT ![l] = r] /\ clock \in Nat
    BY <1>2, <1>3, <1>7 DEF P!Opens, P!To, PackagedInv, WorldTypes
  <2>3. WorldTypes'
    <3>1. IsFiniteSet(windows')
      BY <2>2, FS_AddElement DEF PackagedInv, WorldTypes
    <3> QED BY <1>0, <2>1, <2>2, <3>1 DEF PackagedInv, WorldTypes
  <2>4. Recorded'
    BY <1>0, <2>1, <2>2 DEF PackagedInv, Recorded, Known
  <2>5. P!Pins(r)' = P!Pins(r) /\ P!Pins(r) = P!Pins(j)
    BY <1>0, <1>4 DEF P!Pins, StartFields
  <2>6. Opening(r)'
    <3>1. ~r.reuse => r.from <= clock + 1 /\ (Fresh(r) => windows = {}) /\ (receipt # None => receipt.window.started < r.from)
      BY <1>2, <1>4 DEF StartFields, StartOk, Opening, Fresh
    <3>2. r.from \in Nat
      BY <1>2, <1>4 DEF StartFields, StartOk, StartTypes
    <3> QED BY <1>0, <1>4, <2>1, <2>2, <3>1, <3>2 DEF Opening, Fresh
  <2>7. StartOk(r)'
    <3>1. (StartTypes(r) /\ Current(r) /\ Reuses(r))'
      BY <1>0, <1>2, <1>4 DEF StartFields, StartOk, StartTypes, Current, Fresh, Reuses, Held, Busy
    <3>2. Pinned(r)'
      BY <1>0, <1>2, <1>4, <2>5 DEF StartFields, StartOk, Pinned, Fresh
    <3>3. (Seeing(r) /\ Ending(r))'
      BY <1>4 DEF Seeing, Ending
    <3> QED BY <2>6, <3>1, <3>2, <3>3 DEF StartOk
  <2> QED BY <1>0, <2>2, <2>3, <2>4, <2>7, StartMoves DEF Held
<1> QED BY <1>0, <1>1, <1>2, <1>5, <1>6, <1>7 DEF P!Activate

LEMMA SameCardinality == \A S : P!Cardinality(S) = Cardinality(S)
BY DEF P!Cardinality, Cardinality

\* What is accepted is one window, known by its start, with the profile's proxy.
LEMMA AcceptedIsKnown ==
    ASSUME WorldTypes, NEW j, j.spki \in P!CA \cup {None}, P!Accept(j) = "window"
    PROVE  LET w == CHOOSE x \in windows : TRUE
           IN  /\ windows = {w} /\ Known(w) /\ w.proxy = j.profile.port /\ w.pin = j.spki
               /\ IF j.reuse THEN w = j.receipt.window ELSE ~(w.started < j.from)
<1>1. PICK w : w = CHOOSE x \in windows : TRUE
  OBVIOUS
<1>2. /\ windows # {} /\ ~(Cardinality(windows) > 1) /\ P!MatchesWindow(w, j.profile, j.spki)
      /\ IF j.reuse THEN w = j.receipt.window ELSE ~(w.started < j.from)
  <2>1. windows # {} /\ ~(Cardinality(windows) > 1)
    BY SameCardinality DEF P!Accept
  <2>2. IF (j.reuse /\ w # j.receipt.window) \/ (~j.reuse /\ w.started < j.from) THEN "refused" = "window"
        ELSE IF ~w.native /\ ~j.reuse THEN "none" = "window"
        ELSE IF P!MatchesWindow(w, j.profile, j.spki) THEN TRUE ELSE "refused" = "window"
    BY <1>1, <2>1, Zenon DEF P!Accept
  <2> QED BY <2>1, <2>2, Zenon
<1>3. windows = {w}
  <2>1. Cardinality(windows) \in Nat /\ Cardinality(windows) # 0
    BY <1>2, FS_CardinalityType, FS_EmptySet DEF WorldTypes
  <2>2. Cardinality(windows) = 1
    BY <1>2, <2>1
  <2>3. \E x : windows = {x}
    BY <2>2, FS_Singleton DEF WorldTypes
  <2> QED BY <1>1, <2>3
<1>4. Known(w) /\ w.proxy = j.profile.port /\ w.pin = j.spki
  BY <1>2, <1>3 DEF Known, P!MatchesWindow, WorldTypes
<1> QED BY <1>1, <1>2, <1>3, <1>4

LEMMA PackagedObserves == ASSUME PackagedInv, NEW l \in Launch, P!Observe(l) PROVE PackagedInv'
<1>1. CASE P!Failed(l)
  BY <1>1, StartFails DEF P!Observe
<1>2. PICK j : j = starts[l] /\ StartOk(j) /\ j.pc = "observe"
  BY DEF P!Observe, P!At, PackagedInv
<1>3. PICK o : o = P!Observed(j)
  OBVIOUS
<1>4. DOMAIN o = StartFields /\ o.package = package.version /\ o.binding = package.version
  BY <1>2, <1>3, Observes DEF StartOk, StartTypes
<1>5. \A f \in StartFields \ {"package", "binding", "refreshed", "actors"} : o[f] = j[f]
  BY <1>2, <1>3, Observes DEF StartOk, StartTypes
<1>6. CASE P!To(l, o, "observe")
  <2>1. PICK r : r = [o EXCEPT !.pc = "observe"]
    OBVIOUS
  <2>2. DOMAIN r = StartFields /\ r.pc = "observe" /\ \A f \in StartFields \ {"pc"} : r[f] = o[f]
    BY <1>4, <2>1, Goes
  <2>3. P!Pins(r) = P!Pins(j)
    BY <1>5, <2>2 DEF P!Pins, StartFields
  <2>4. StartOk(r)
    BY <1>2, <1>4, <1>5, <2>2, <2>3 DEF StartFields, StartOk, StartTypes, Current, Fresh, Reuses, Pinned, Opening, Seeing, Ending, Held, Busy
  <2> QED BY <1>2, <1>6, <2>1, <2>4, StartLooks DEF P!To, P!Observe, Held
<1>7. PICK w : w = CHOOSE x \in windows : TRUE
  OBVIOUS
<1>8. PICK k : k = [o EXCEPT !.observed = w]
  OBVIOUS
<1>9. CASE P!Accept(j) = "window" /\ P!To(l, k, "settle")
  <2>1. PICK r : r = [k EXCEPT !.pc = "settle"]
    OBVIOUS
  <2>2. DOMAIN k = StartFields /\ k.observed = w /\ \A f \in StartFields \ {"observed"} : k[f] = o[f]
    BY <1>4, <1>8 DEF StartFields
  <2>3. DOMAIN r = StartFields /\ r.pc = "settle" /\ \A f \in StartFields \ {"pc"} : r[f] = k[f]
    BY <2>1, <2>2, Goes
  <2>4. /\ r.package = package.version /\ r.binding = package.version /\ r.observed = w
        /\ \A f \in StartFields \ {"package", "binding", "refreshed", "actors", "observed", "pc"} : r[f] = j[f]
    BY <1>4, <1>5, <2>2, <2>3 DEF StartFields
  <2>5. P!Pins(r) = P!Pins(j)
    BY <2>4 DEF P!Pins, StartFields
  <2>6. Seeing(r)
    <3>1. Known(w) /\ w.proxy = j.profile.port /\ (j.reuse => w = j.receipt.window)
      BY <1>2, <1>7, <1>9, AcceptedIsKnown DEF PackagedInv, StartOk, StartTypes
    <3> QED BY <2>3, <2>4, <3>1 DEF Seeing, StartFields
  <2>7. StartOk(r)
    <3>1. StartTypes(r) /\ Current(r) /\ Reuses(r)
      BY <1>2, <2>3, <2>4 DEF StartFields, StartOk, StartTypes, Current, Fresh, Reuses, Held, Busy
    <3>2. Pinned(r) /\ Opening(r) /\ Ending(r)
      BY <1>2, <2>3, <2>4, <2>5 DEF StartFields, StartOk, Pinned, Fresh, Opening, Ending
    <3> QED BY <2>6, <3>1, <3>2 DEF StartOk
  <2> QED BY <1>2, <1>9, <2>1, <2>7, StartLooks DEF P!To, P!Observe, Held
<1> QED BY <1>1, <1>2, <1>3, <1>6, <1>7, <1>8, <1>9 DEF P!Observe

LEMMA PackagedTimesOut == ASSUME PackagedInv, NEW l \in Launch, P!Timeout(l) \/ P!End(l) PROVE PackagedInv'
<1>1. CASE P!Timeout(l)
  BY <1>1, StartFails DEF P!Timeout
<1>2. CASE P!End(l)
  <2>1. starts' = [starts EXCEPT ![l] = P!Idle] /\ UNCHANGED <<P!world, receipt>>
    BY <1>2 DEF P!End
  <2> QED BY <2>1, IdleStart, FailedIsOk, StartLooks DEF PackagedInv, Held
<1> QED BY <1>1, <1>2

\* What the last look has found.
LEMMA SettledIsTrue ==
    ASSUME WorldTypes, NEW j, j.profile \in P!Profile, j.spki \in P!CA \cup {None}, P!Settled(j)
    PROVE  /\ windows = {j.observed} /\ j.observed.native /\ j.observed.version = package.version
           /\ j.observed.proxy = conf.port /\ served = [port |-> conf.port, ca |-> j.observed.pin]
<1>1. PICK w : w = CHOOSE x \in windows : TRUE
  OBVIOUS
<1>2. windows = {w} /\ Known(w) /\ w.proxy = j.profile.port /\ w.pin = j.spki
  BY <1>1, AcceptedIsKnown DEF P!Settled
<1>3. w = j.observed
  BY <1>2 DEF P!Settled
<1>4. P!ProfileNow(j) = j.profile /\ P!Pins(j) = w.pin /\ w.pin # None
  BY <1>2 DEF P!Settled, Known
<1>5. served \in P!Profile /\ served.port = j.listen /\ served.ca = w.pin
  BY <1>4 DEF P!Pins, WorldTypes
<1>6. conf.port = j.listen /\ w.proxy = conf.port
  <2>1. CASE conf.port = j.listen
    BY <1>2, <1>4, <2>1 DEF P!ProfileNow
  <2>2. CASE conf.port # j.listen
    <3>1. j.profile = None
      BY <1>4, <2>2 DEF P!ProfileNow
    <3> QED BY <3>1, PartsAssumption DEF P!PackagedAssumption, P!Profile, P!CA
  <2> QED BY <2>1, <2>2
<1>7. w.version = package.version
  BY <1>2 DEF P!Settled, P!Observable, P!Refreshes, P!Reads, P!Actors
<1> QED BY <1>2, <1>3, <1>5, <1>6, <1>7 DEF P!Profile, Known

LEMMA PackagedSettles == ASSUME PackagedInv, NEW l \in Launch, P!Settle(l) PROVE PackagedInv'
<1>1. CASE P!Failed(l)
  BY <1>1, StartFails DEF P!Settle
<1>2. PICK j : j = starts[l] /\ StartOk(j) /\ j.pc = "settle"
  BY DEF P!Settle, P!At, PackagedInv
<1>3. CASE P!To(l, [P!Idle EXCEPT !.looked = changes], "done")
  <2>1. PICK k : k = [P!Idle EXCEPT !.looked = changes]
    OBVIOUS
  <2>2. PICK r : r = [k EXCEPT !.pc = "done"]
    OBVIOUS
  <2>3. DOMAIN k = StartFields /\ k.looked = changes /\ k.step = 0 /\ k.began = 0 /\ k.from = 0 /\ k.spki = None
    BY <2>1, IdleStart DEF StartFields
  <2>4. DOMAIN r = StartFields /\ r.looked = changes /\ r.step = 0 /\ r.began = 0 /\ r.from = 0 /\ r.spki = None /\ r.pc = "done"
    BY <2>2, <2>3, Goes DEF StartFields
  <2>5. StartOk(r)
    BY <2>4, EndedIsOk DEF PackagedInv, WorldTypes
  <2> QED BY <1>3, <2>1, <2>2, <2>4, <2>5, StartLooks DEF P!To, P!Settle, Held
<1>4. PICK o : o = P!Observed(j)
  OBVIOUS
<1>5. PICK k : k = [o EXCEPT !.looked = changes]
  OBVIOUS
<1>6. CASE P!Settled(j) /\ ~j.reuse /\ P!To(l, k, "write")
  <2>1. PICK r : r = [k EXCEPT !.pc = "write"]
    OBVIOUS
  <2>2. DOMAIN o = StartFields
    BY <1>2, <1>4, Observes DEF StartOk, StartTypes
  <2>3. DOMAIN k = StartFields /\ k.looked = changes /\ \A f \in StartFields \ {"looked"} : k[f] = o[f]
    BY <1>5, <2>2 DEF StartFields
  <2>4. DOMAIN r = StartFields /\ r.pc = "write" /\ \A f \in StartFields \ {"pc"} : r[f] = k[f]
    BY <2>1, <2>3, Goes
  <2>5. /\ r.package = package.version /\ r.binding = package.version /\ r.looked = changes
        /\ \A f \in StartFields \ {"package", "binding", "refreshed", "actors", "looked", "pc"} : r[f] = j[f]
    BY <1>2, <1>4, <2>3, <2>4, Observes DEF StartFields, StartOk, StartTypes
  <2>6. P!Pins(r) = P!Pins(j)
    BY <2>5 DEF P!Pins, StartFields
  <2>7. Seeing(r)
    <3>1. Known(j.observed) /\ j.observed.proxy = j.profile.port
      BY <1>2 DEF StartOk, Seeing
    <3>2. r.observed = j.observed /\ r.profile = j.profile
      BY <2>5 DEF StartFields
    <3>3. Truth(r) /\ r.observed.version = package.version
      BY <1>2, <1>6, <3>2, SettledIsTrue DEF PackagedInv, Truth, StartOk, StartTypes, Busy, Held
    <3> QED BY <2>4, <2>5, <3>1, <3>2, <3>3 DEF Seeing
  <2>8. StartOk(r)
    <3>1. StartTypes(r) /\ Current(r) /\ Reuses(r)
      BY <1>2, <1>6, <2>4, <2>5 DEF StartFields, StartOk, StartTypes, Current, Fresh, Reuses, Held, Busy, PackagedInv, WorldTypes
    <3>2. Pinned(r) /\ Opening(r) /\ Ending(r)
      BY <1>2, <2>4, <2>5, <2>6 DEF StartFields, StartOk, Pinned, Fresh, Opening, Ending
    <3> QED BY <2>7, <3>1, <3>2 DEF StartOk
  <2> QED BY <1>2, <1>6, <2>1, <2>8, StartLooks DEF P!To, P!Settle, Held
<1> QED BY <1>1, <1>2, <1>3, <1>4, <1>5, <1>6 DEF P!Settle

LEMMA PackagedWrites == ASSUME PackagedInv, NEW l \in Launch, P!Write(l) PROVE PackagedInv'
<1>1. PICK j : j = starts[l] /\ StartOk(j) /\ j.pc = "write"
  BY DEF P!Write, P!At, PackagedInv
<1>2. PICK k : k = [P!Idle EXCEPT !.looked = j.looked]
  OBVIOUS
<1>3. PICK r : r = [k EXCEPT !.pc = "done"]
  OBVIOUS
<1>4. /\ receipt' = [version |-> j.binding, profile |-> j.profile, window |-> j.observed]
      /\ starts' = [starts EXCEPT ![l] = r]
      /\ UNCHANGED <<package, windows, helpers, clock, conf, served, sys, lease, roots, changes>>
  BY <1>1, <1>2, <1>3 DEF P!Write, P!To, P!world
<1>5. DOMAIN k = StartFields /\ k.looked = j.looked /\ k.step = 0 /\ k.began = 0 /\ k.from = 0 /\ k.spki = None
  BY <1>2, IdleStart DEF StartFields
<1>6. DOMAIN r = StartFields /\ r.looked = j.looked /\ r.step = 0 /\ r.began = 0 /\ r.from = 0 /\ r.spki = None /\ r.pc = "done"
  BY <1>3, <1>5, Goes DEF StartFields
<1>7. WorldTypes'
  BY <1>4 DEF PackagedInv, WorldTypes
<1>8. StartOk(r)'
  <2>1. r.looked \in Nat /\ r.looked <= changes
    BY <1>1, <1>6 DEF StartOk, StartTypes
  <2>2. StartTypes(r)'
    BY <1>4, <1>6, <2>1 DEF StartTypes, Busy, Held, PackagedInv, WorldTypes
  <2> QED BY <1>6, <2>2 DEF StartOk, Current, Reuses, Pinned, Opening, Seeing, Ending, Busy, Held
<1>9. Recorded'
  BY <1>1, <1>4 DEF StartOk, Seeing, Recorded, Known
<1> QED BY <1>1, <1>4, <1>7, <1>8, <1>9, StartMoves DEF Held

(* Beside the launches *)

\* Windows that were there are the same, and nothing is fresh any more.
LEMMA PackagedIsDisturbed ==
    ASSUME PackagedInv, P!Move, WorldTypes', clock' >= clock,
           \A w \in windows' : w \in windows \/ w.started > clock,
           sys' = sys \/ sys'.server = "users", UNCHANGED <<lease, roots>>
    PROVE  PackagedInv'
<1>1. changes' = changes + 1 /\ changes \in Nat /\ clock \in Nat /\ clock' \in Nat /\ UNCHANGED <<starts, receipt>>
  BY DEF P!Move, PackagedInv, WorldTypes
<1>2. ASSUME NEW o, Known(o) PROVE Known(o)'
  BY <1>1, <1>2 DEF Known
<1>3. Recorded'
  BY <1>1, <1>2 DEF PackagedInv, Recorded
<1>4. ASSUME NEW l \in Launch PROVE StartOk(starts[l])'
  <2>1. PICK j : j = starts[l] /\ StartOk(j)
    BY DEF PackagedInv
  <2>2. StartTypes(j)' /\ ~Fresh(j)' /\ (Reuses(j) => Reuses(j)') /\ j.looked # changes'
    BY <1>1, <2>1 DEF StartOk, StartTypes, Fresh, Reuses
  <2>3. Opening(j)'
    BY <1>1, <2>1, <2>2 DEF StartOk, StartTypes, Opening
  <2>4. Seeing(j)'
    BY <1>2, <2>1, <2>2 DEF StartOk, Seeing
  <2>5. Ending(j)'
    BY <2>1 DEF StartOk, Ending, P!InForce
  <2>6. StartOk(j)'
    BY <2>1, <2>2, <2>3, <2>4, <2>5 DEF StartOk, Current, Pinned
  <2> QED BY <1>1, <2>1, <2>6
<1> QED BY <1>1, <1>3, <1>4 DEF PackagedInv, OneHolds

LEMMA PackagedShows == ASSUME PackagedInv, NEW w \in windows, P!Show(w) PROVE PackagedInv'
<1>0. UNCHANGED <<package, helpers, clock, conf, served, sys, lease, roots, changes, starts, receipt>> /\ ~w.native
  BY DEF P!Show
<1>1. PICK v : v = [w EXCEPT !.native = TRUE]
  OBVIOUS
<1>2. windows' = (windows \ {w}) \cup {v} /\ DOMAIN v = WindowFields /\ v.started = w.started
  BY <1>1 DEF P!Show, PackagedInv, WorldTypes, WindowFields
<1>3. WorldTypes'
  <2>1. IsFiniteSet(windows')
    BY <1>2, FS_AddElement, FS_RemoveElement DEF PackagedInv, WorldTypes
  <2> QED BY <1>0, <1>2, <2>1 DEF PackagedInv, WorldTypes
<1>4. ASSUME NEW o, Known(o) PROVE Known(o)'
  <2>1. w.started # o.started
    BY <1>0, <1>4 DEF Known
  <2> QED BY <1>0, <1>2, <1>4, <2>1 DEF Known
<1>5. Recorded'
  BY <1>0, <1>4 DEF PackagedInv, Recorded
<1>6. ASSUME NEW l \in Launch PROVE StartOk(starts[l])'
  <2>1. PICK j : j = starts[l] /\ StartOk(j)
    BY DEF PackagedInv
  <2>2. StartTypes(j)' /\ Current(j)' /\ Reuses(j)' /\ Pinned(j)' /\ Ending(j)'
    BY <1>0, <2>1 DEF StartOk, StartTypes, Current, Fresh, Reuses, Pinned, P!Pins, Ending, P!InForce
  <2>3. Opening(j)'
    BY <1>0, <1>2, <2>1 DEF StartOk, Opening, Fresh
  <2>4. j.pc = "write" /\ j.looked = changes => FALSE
    BY <1>0, <2>1 DEF StartOk, Seeing, Truth, Known
  <2>5. Seeing(j)'
    BY <1>0, <1>4, <2>1, <2>4 DEF StartOk, Seeing
  <2>6. StartOk(j)'
    BY <2>2, <2>3, <2>5 DEF StartOk
  <2> QED BY <1>0, <2>1, <2>6
<1> QED BY <1>0, <1>3, <1>5, <1>6 DEF PackagedInv, OneHolds

LEMMA PackagedBeside ==
    ASSUME PackagedInv, P!Beside
    PROVE  PackagedInv'
<1>0. WorldTypes
  BY DEF PackagedInv
<1>1. ASSUME NEW w \in windows, P!Show(w) PROVE PackagedInv'
  BY <1>1, PackagedShows
<1>2. ASSUME NEW w \in windows, P!UserQuits(w) PROVE PackagedInv'
  <2>1. IsFiniteSet(windows')
    BY <1>0, <1>2, FS_RemoveElement DEF P!UserQuits, WorldTypes
  <2>2. WorldTypes'
    BY <1>0, <1>2, <2>1 DEF P!UserQuits, P!Move, WorldTypes
  <2> QED BY <1>0, <1>2, <2>2, PackagedIsDisturbed DEF P!UserQuits, WorldTypes
<1>3. ASSUME NEW apart \in BOOLEAN, P!UserOpens(apart) PROVE PackagedInv'
  <2>1. PICK v : v = [started |-> clock + 1, native |-> TRUE, proxy |-> None, pin |-> None, apart |-> apart, version |-> package.version]
    OBVIOUS
  <2>2. clock' = clock + 1 /\ windows' = windows \cup {v} /\ DOMAIN v = WindowFields /\ v.started = clock + 1
    BY <1>3, <2>1 DEF P!UserOpens, P!Opens, WindowFields
  <2>3. IsFiniteSet(windows')
    BY <1>0, <2>2, FS_AddElement DEF WorldTypes
  <2>4. WorldTypes'
    BY <1>0, <1>3, <2>2, <2>3 DEF P!UserOpens, P!Move, WorldTypes
  <2> QED BY <1>0, <1>3, <2>2, <2>4, PackagedIsDisturbed DEF P!UserOpens, WorldTypes
<1>4. CASE P!HelperEnds
  <2>1. UNCHANGED <<package, windows, clock, conf, served, sys, lease, roots, changes, starts, receipt>>
    BY <1>4 DEF P!HelperEnds
  <2>2. WorldTypes' /\ Recorded' /\ OneHolds'
    BY <2>1 DEF PackagedInv, WorldTypes, Recorded, Known, OneHolds
  <2>3. ASSUME NEW j, StartOk(j) PROVE StartOk(j)'
    BY <2>1, <2>3 DEF StartOk, StartTypes, Current, Fresh, Reuses, Pinned, P!Pins, Opening, Seeing, Known, Truth, Ending, P!InForce
  <2>4. ASSUME NEW l \in Launch PROVE StartOk(starts[l])'
    <3>1. PICK j : j = starts[l] /\ StartOk(j)
      BY DEF PackagedInv
    <3> QED BY <2>1, <2>3, <3>1
  <2> QED BY <2>2, <2>4 DEF PackagedInv
<1>5. CASE P!Update
  <2>1. WorldTypes'
    BY <1>0, <1>5 DEF P!Update, P!Move, WorldTypes
  <2> QED BY <1>0, <1>5, <2>1, PackagedIsDisturbed DEF P!Update, WorldTypes
<1>6. CASE P!ServiceTurns
  <2>1. WorldTypes'
    BY <1>0, <1>6 DEF P!ServiceTurns, P!Move, WorldTypes
  <2> QED BY <1>0, <1>6, <2>1, PackagedIsDisturbed DEF P!ServiceTurns, WorldTypes
<1>7. ASSUME NEW to \in P!Profile, P!Reconfigure(to) PROVE PackagedInv'
  <2>1. WorldTypes'
    BY <1>0, <1>7 DEF P!Reconfigure, P!Move, WorldTypes
  <2> QED BY <1>0, <1>7, <2>1, PackagedIsDisturbed DEF P!Reconfigure, WorldTypes
<1>8. ASSUME NEW settings \in P!UserSettings, P!UserSetsProxy(settings) PROVE PackagedInv'
  <2>1. settings.server = "users" /\ DOMAIN settings = {"enable", "server", "auto"}
    BY DEF P!UserSettings, P!Settings
  <2>2. WorldTypes'
    BY <1>0, <1>8, <2>1 DEF P!UserSetsProxy, P!Move, WorldTypes
  <2> QED BY <1>0, <1>8, <2>1, <2>2, PackagedIsDisturbed DEF P!UserSetsProxy, WorldTypes
<1> QED BY <1>1, <1>2, <1>3, <1>4, <1>5, <1>6, <1>7, <1>8 DEF P!Beside

LEMMA PackagedStep == ASSUME PackagedInv, P!Next PROVE PackagedInv'
<1>1. ASSUME NEW l \in Launch, P!Step(l) PROVE PackagedInv'
  BY <1>1, PackagedStarts, PackagedInitial, PackagedLocks, PackagedLooksAgain, PackagedEnsuresProxy, PackagedReadsPins,
     PackagedRestores, PackagedLooksBefore, PackagedActivates, PackagedObserves, PackagedTimesOut, PackagedSettles,
     PackagedWrites DEF P!Step
<1> QED BY <1>1, PackagedBeside DEF P!Next
LEMMA PackagedRests == ASSUME PackagedInv, UNCHANGED varsP PROVE PackagedInv'
<1>1. UNCHANGED <<P!world, receipt, starts>>
  BY DEF varsP, P!world
<1>2. WorldTypes' /\ Recorded' /\ OneHolds'
  BY <1>1 DEF PackagedInv, WorldTypes, Recorded, Known, OneHolds, P!world
<1>3. ASSUME NEW l \in Launch PROVE StartOk(starts[l])'
  <2>1. PICK j : j = starts[l] /\ StartOk(j)
    BY DEF PackagedInv
  <2> QED BY <1>1, <2>1, StartStays
<1> QED BY <1>2, <1>3 DEF PackagedInv

(* What a launch reports *)

LEMMA ToPc ==
    ASSUME WorldTypes, NEW l \in Launch, NEW j, "pc" \in DOMAIN j, NEW pc, P!To(l, j, pc)
    PROVE  starts'[l].pc = pc /\ \A m \in Launch \ {l} : starts'[m] = starts[m]
BY DEF P!To, WorldTypes
LEMMA FailedPc ==
    ASSUME WorldTypes, NEW l \in Launch, P!Failed(l)
    PROVE  starts'[l].pc = "failed" /\ \A m \in Launch \ {l} : starts'[m] = starts[m]
<1>1. "pc" \in DOMAIN P!Idle
  BY IdleStart DEF StartFields
<1> QED BY <1>1, ToPc DEF P!Failed

\* A step of another launch, or beside the launches, leaves this one where it is.
LEMMA OthersGo ==
    ASSUME WorldTypes, NEW l \in Launch, P!Next, starts'[l].pc # starts[l].pc
    PROVE  P!Step(l)
<1>1. ASSUME P!Beside PROVE FALSE
  BY <1>1 DEF P!Beside, P!Show, P!UserQuits, P!UserOpens, P!HelperEnds, P!Update, P!ServiceTurns, P!Reconfigure, P!UserSetsProxy, P!Move
<1>2. ASSUME NEW m \in Launch \ {l}, P!Step(m) PROVE FALSE
  <2>1. \E r : starts' = [starts EXCEPT ![m] = r]
    <3>1. CASE P!Start(m) \/ P!Initial(m) \/ P!Lock(m) \/ P!Again(m)
      BY <3>1 DEF P!Start, P!Initial, P!Lock, P!Again, P!To, P!Failed
    <3>2. CASE P!Proxy(m) \/ P!ReadPins(m) \/ P!RestoreLease(m) \/ P!Before(m)
      BY <3>2 DEF P!Proxy, P!ReadPins, P!RestoreLease, P!Before, P!To, P!Failed
    <3>3. CASE P!Activate(m) \/ P!Observe(m) \/ P!Timeout(m) \/ P!Settle(m)
      BY <3>3 DEF P!Activate, P!Observe, P!Timeout, P!Settle, P!To, P!Failed
    <3>4. CASE P!Write(m) \/ P!End(m)
      BY <3>4 DEF P!Write, P!End, P!To
    <3> QED BY <1>2, <3>1, <3>2, <3>3, <3>4 DEF P!Step
  <2> QED BY <2>1 DEF WorldTypes
<1> QED BY <1>1, <1>2 DEF P!Next

\* Before a launch is done only the last look and the write of the record come.
LEMMA DoneAfter ==
    ASSUME PackagedInv, NEW l \in Launch, P!Step(l), starts'[l].pc = "done"
    PROVE  P!Settle(l) \/ P!Write(l)
<1> USE DEF PackagedInv
<1>0. PICK j : j = starts[l] /\ StartOk(j) /\ "pc" \in DOMAIN j /\ DOMAIN j = StartFields
  BY DEF StartOk, StartTypes, StartFields
<1>1. ~P!Failed(l)
  BY FailedPc
<1>2. DOMAIN P!Observed(j) = StartFields
  BY <1>0, Observes
<1>3. ~P!Start(l)
  <2>1. PICK i : i = [P!Idle EXCEPT !.listen = conf.port, !.package = package.version, !.profile = conf, !.began = changes]
    OBVIOUS
  <2>2. "pc" \in DOMAIN i
    BY <2>1, IdleStart DEF StartFields
  <2>3. ASSUME NEW pc, pc \in {"initial", "failed"}, P!To(l, i, pc) PROVE FALSE
    BY <2>2, <2>3, ToPc
  <2> QED BY <2>1, <2>3 DEF P!Start
<1>4. ~P!Initial(l) /\ ~P!Lock(l)
  <2>1. P!To(l, P!Observed(j), "lock") => FALSE
    BY <1>2, ToPc DEF StartFields
  <2>2. P!To(l, j, "again") => FALSE
    BY <1>0, ToPc
  <2> QED BY <1>0, <1>1, <2>1, <2>2 DEF P!Initial, P!Lock
<1>5. ~P!Again(l)
  <2>1. PICK o : o = P!Observed(j)
    OBVIOUS
  <2>2. ASSUME NEW x, NEW y, NEW pc, pc \in {"proxy", "pins"}, P!To(l, [o EXCEPT !.receipt = x, !.reuse = y], pc) PROVE FALSE
    <3>1. "pc" \in DOMAIN [o EXCEPT !.receipt = x, !.reuse = y]
      BY <1>2, <2>1 DEF StartFields
    <3> QED BY <2>2, <3>1, ToPc
  <2> QED BY <1>0, <1>1, <2>1, <2>2 DEF P!Again
<1>6. ~P!Proxy(l)
  BY <1>0, <1>1, ToPc DEF P!Proxy
<1>7. ~P!ReadPins(l)
  <2>1. ASSUME NEW x, NEW pc, pc \in {"before", "lease"}, P!To(l, [j EXCEPT !.spki = x], pc) PROVE FALSE
    <3>1. "pc" \in DOMAIN [j EXCEPT !.spki = x]
      BY <1>0
    <3> QED BY <2>1, <3>1, ToPc
  <2> QED BY <1>0, <1>1, <2>1 DEF P!ReadPins
<1>8. ~P!RestoreLease(l)
  <2>1. ASSUME NEW x, NEW pc, pc \in {"before", "lease"}, starts' = [starts EXCEPT ![l] = [j EXCEPT !.step = x, !.pc = pc]] PROVE FALSE
    <3>1. starts'[l].pc = pc
      BY <1>0, <2>1 DEF WorldTypes
    <3> QED BY <2>1, <3>1
  <2> QED BY <1>0, <2>1 DEF P!RestoreLease
<1>9. ~P!Before(l)
  <2>1. PICK o : o = P!Observed(j)
    OBVIOUS
  <2>2. ASSUME NEW x, P!To(l, [o EXCEPT !.from = x], "activate") PROVE FALSE
    <3>1. "pc" \in DOMAIN [o EXCEPT !.from = x]
      BY <1>2, <2>1 DEF StartFields
    <3> QED BY <2>2, <3>1, ToPc
  <2> QED BY <1>0, <1>1, <2>1, <2>2 DEF P!Before
<1>10. ~P!Activate(l)
  BY <1>0, <1>1, ToPc DEF P!Activate
<1>11. ~P!Observe(l) /\ ~P!Timeout(l)
  <2>1. PICK o : o = P!Observed(j)
    OBVIOUS
  <2>2. ASSUME NEW x, P!To(l, [o EXCEPT !.observed = x], "settle") PROVE FALSE
    <3>1. "pc" \in DOMAIN [o EXCEPT !.observed = x]
      BY <1>2, <2>1 DEF StartFields
    <3> QED BY <2>2, <3>1, ToPc
  <2>3. P!To(l, o, "observe") => FALSE
    BY <1>2, <2>1, ToPc DEF StartFields
  <2> QED BY <1>0, <1>1, <2>1, <2>2, <2>3 DEF P!Observe, P!Timeout
<1>12. ~P!End(l)
  BY IdleStart DEF P!End, WorldTypes
<1> QED BY <1>3, <1>4, <1>5, <1>6, <1>7, <1>8, <1>9, <1>10, <1>11, <1>12 DEF P!Step

LEMMA PackagedReports == ASSUME PackagedInv, P!Next PROVE P!ReportsTheTruth
<1> SUFFICES ASSUME NEW l \in Launch, starts[l].pc # "done", starts'[l].pc = "done", starts'[l].looked = changes
             PROVE  \E w \in windows : /\ windows = {w} /\ w.native /\ w.version = package.version
                                       /\ w.proxy = conf.port /\ served = [port |-> conf.port, ca |-> w.pin]
  BY DEF P!ReportsTheTruth
<1>1. P!Step(l)
  BY OthersGo DEF PackagedInv
<1>2. PICK j : j = starts[l] /\ StartOk(j)
  BY DEF PackagedInv
<1>3. CASE P!Settle(l)
  <2>1. j.pc = "settle" /\ P!Settled(j)
    BY <1>2, <1>3, FailedPc DEF P!Settle, P!At, PackagedInv
  <2> QED BY <1>2, <2>1, SettledIsTrue DEF PackagedInv, StartOk, StartTypes, Busy, Held
<1>4. CASE P!Write(l)
  <2>1. PICK k : k = [P!Idle EXCEPT !.looked = j.looked]
    OBVIOUS
  <2>2. DOMAIN k = StartFields /\ k.looked = j.looked
    BY <2>1, IdleStart DEF StartFields
  <2>3. starts'[l].looked = j.looked /\ j.pc = "write"
    BY <1>2, <1>4, <2>1, <2>2, Goes DEF P!Write, P!To, P!At, PackagedInv, WorldTypes, StartFields
  <2>4. Truth(j) /\ j.observed.native
    BY <1>2, <2>3 DEF StartOk, Seeing, Known
  <2> QED BY <2>4 DEF Truth
<1> QED BY <1>1, <1>3, <1>4, DoneAfter

\* What a launch before which nothing has moved finds when the window is its own.
LEMMA OursIsReusable ==
    ASSUME PackagedInv, P!Ours, NEW j, StartOk(j), j.pc \in Busy, Fresh(j)
    PROVE  /\ windows = {receipt.window} /\ receipt # None /\ receipt.window.native
           /\ P!Observable(j) /\ P!Decision(j.profile, receipt) = "reuse" /\ P!ReceiptRead = receipt
           /\ P!ProfileNow(j) = j.profile /\ P!Pins(j) = receipt.window.pin /\ receipt.window.pin # None
           /\ P!MatchesWindow(receipt.window, j.profile, receipt.window.pin)
<1>1. /\ receipt # None /\ package.version = receipt.version /\ package.ready
      /\ receipt.profile = conf /\ served.port = conf.port /\ served.ca = receipt.window.pin /\ served # None
  <2>1. served = [port |-> conf.port, ca |-> receipt.window.pin] /\ package = [version |-> receipt.version, ready |-> TRUE]
        /\ receipt # None /\ receipt.profile = conf
    BY DEF P!Ours
  <2>2. conf \in P!Profile
    BY DEF PackagedInv, WorldTypes
  <2>3. served # None
    <3>1. receipt.window.pin \in P!CA /\ conf.port \in PackagedPort
      BY <2>1, <2>2 DEF PackagedInv, Recorded, Known, P!Profile
    <3>2. served \in [port : PackagedPort, ca : 1..MaxCA]
      BY <2>1, <3>1 DEF P!CA
    <3> QED BY <3>2, PartsAssumption DEF P!PackagedAssumption
  <2> QED BY <2>1, <2>3
<1>2. Known(receipt.window) /\ receipt.window.version = receipt.version /\ receipt.window.proxy = receipt.profile.port
  BY <1>1 DEF PackagedInv, Recorded
<1>3. windows = {receipt.window}
  BY <1>2 DEF P!Ours, Known
<1>4. j.package = package.version /\ j.binding \in {None, package.version} /\ j.profile = conf /\ j.listen = conf.port
  BY DEF StartOk, Current
<1>5. P!Actors
  BY <1>3 DEF P!Actors
<1>6. P!Observable(j)
  BY <1>1, <1>2, <1>3, <1>4 DEF P!Observable, P!Reads
<1>7. P!MatchesWindow(receipt.window, j.profile, receipt.window.pin)
  BY <1>1, <1>2, <1>4 DEF P!MatchesWindow, Known
<1>8. P!Decision(j.profile, receipt) = "reuse"
  BY <1>1, <1>2, <1>3, <1>4, <1>5, <1>7 DEF P!Decision
<1> QED BY <1>1, <1>2, <1>3, <1>4, <1>5, <1>6, <1>7, <1>8 DEF P!ReceiptRead, P!ProfileNow, P!Pins, Known

\* And takes it: it is the instance on record, which no other launch can write.
LEMMA ReusedIsAccepted ==
    ASSUME PackagedInv, P!Ours, NEW j, StartOk(j), j.pc \in {"observe", "settle"}, Fresh(j)
    PROVE  j.reuse /\ j.receipt = receipt /\ P!Accept(j) = "window"
<1>1. windows = {receipt.window} /\ receipt # None /\ receipt.window.native
  BY OursIsReusable DEF Busy, Held
<1>2. P!MatchesWindow(receipt.window, j.profile, receipt.window.pin) /\ P!Pins(j) = receipt.window.pin
  BY OursIsReusable DEF Busy, Held
<1>3. j.reuse /\ j.receipt = receipt
  <2>1. ASSUME ~j.reuse PROVE FALSE
    <3>1. receipt.window.started < j.from /\ receipt.window.started >= j.from
      BY <1>1, <2>1 DEF StartOk, Opening
    <3>2. receipt.window.started \in Nat /\ j.from \in Nat
      BY <1>1 DEF PackagedInv, Recorded, Known, StartOk, StartTypes
    <3> QED BY <3>1, <3>2
  <2> QED BY <2>1 DEF StartOk, Reuses, Held
<1>4. P!Pins(j) = j.spki
  BY DEF StartOk, Pinned
<1>5. PICK w : w = CHOOSE x \in windows : TRUE
  OBVIOUS
<1>6. w = receipt.window
  BY <1>1, <1>5
<1>7. ~(Cardinality(windows) > 1)
  <2>1. Cardinality(windows) = 1
    BY <1>1, FS_Singleton
  <2> QED BY <2>1
<1>8. P!MatchesWindow(w, j.profile, j.spki)
  BY <1>2, <1>4, <1>6
<1>9. windows # {} /\ w = j.receipt.window /\ w.native
  BY <1>1, <1>3, <1>6
<1>10. ~(P!Cardinality(windows) > 1)
  BY <1>7, SameCardinality
<1>11. P!Accept(j) = "window"
  BY <1>3, <1>5, <1>8, <1>9, <1>10, Zenon DEF P!Accept
<1> QED BY <1>3, <1>11

LEMMA PackagedReuses == ASSUME PackagedInv, P!Next PROVE P!ReusesItsOwn
<1> SUFFICES ASSUME NEW l \in Launch, starts[l].pc \notin {"idle", "failed", "activate"}, starts'[l].pc = "failed",
                    P!Ours, starts[l].began = changes, \A other \in Launch \ {l} : starts[other] = P!Idle
             PROVE  FALSE
  BY DEF P!ReusesItsOwn
<1>1. P!Step(l)
  BY OthersGo DEF PackagedInv
<1>2. PICK j : j = starts[l] /\ StartOk(j) /\ Fresh(j)
  BY DEF PackagedInv, Fresh
<1>3. DOMAIN j = StartFields /\ "pc" \in StartFields /\ DOMAIN P!Observed(j) = StartFields
  BY <1>2, Observes DEF StartOk, StartTypes, StartFields
<1>4. ASSUME NEW k, "pc" \in DOMAIN k, NEW pc, pc # "failed", P!To(l, k, pc) PROVE FALSE
  BY <1>4, ToPc DEF PackagedInv
<1>5. CASE P!Start(l)
  BY <1>5 DEF P!Start, P!At
<1>6. CASE P!Initial(l)
  <2>1. P!Observable(j) /\ P!Decision(j.profile, P!ReceiptRead) = "reuse"
    BY <1>2, <1>6, OursIsReusable DEF P!Initial, P!At, Busy
  <2>2. P!To(l, P!Observed(j), "lock")
    BY <1>2, <1>6, <2>1 DEF P!Initial
  <2> QED BY <1>3, <1>4, <2>2
<1>7. CASE P!Lock(l)
  <2>1. \A m \in Launch : ~P!Holds(m)
    BY <1>7, IdleStart DEF P!Lock, P!At, P!Holds
  <2>2. P!To(l, j, "again")
    BY <1>2, <1>7, <2>1 DEF P!Lock
  <2> QED BY <1>3, <1>4, <2>2
<1>8. CASE P!Again(l)
  <2>1. P!Observable(j) /\ P!Decision(j.profile, P!ReceiptRead) = "reuse"
    BY <1>2, <1>8, OursIsReusable DEF P!Again, P!At, Busy, Held
  <2>2. PICK o : o = P!Observed(j)
    OBVIOUS
  <2>3. PICK x, y : P!To(l, [o EXCEPT !.receipt = x, !.reuse = y], "pins")
    BY <1>2, <1>8, <2>1, <2>2 DEF P!Again
  <2>4. "pc" \in DOMAIN [o EXCEPT !.receipt = x, !.reuse = y]
    BY <1>3, <2>2
  <2> QED BY <1>4, <2>3, <2>4
<1>9. CASE P!Proxy(l)
  <2>1. P!Pins(j) # None
    BY <1>2, <1>9, OursIsReusable DEF P!Proxy, P!At, Busy, Held
  <2>2. P!To(l, j, "pins")
    BY <1>2, <1>9, <2>1 DEF P!Proxy
  <2> QED BY <1>3, <1>4, <2>2
<1>10. CASE P!ReadPins(l)
  <2>1. j.pc = "pins" /\ P!Pins(j) = receipt.window.pin /\ P!Pins(j) # None
    BY <1>2, <1>10, OursIsReusable DEF P!ReadPins, P!At, Busy, Held
  <2>2. j.reuse => j.receipt = receipt
    BY <1>2, <2>1 DEF StartOk, Reuses, Held
  <2>3. PICK x : \E pc \in {"before", "lease"} : P!To(l, [j EXCEPT !.spki = x], pc)
    BY <1>2, <1>10, <2>1, <2>2 DEF P!ReadPins
  <2>4. "pc" \in DOMAIN [j EXCEPT !.spki = x]
    BY <1>3
  <2> QED BY <1>4, <2>3, <2>4
<1>11. CASE P!RestoreLease(l)
  <2>1. ASSUME NEW x, NEW pc, pc \in {"before", "lease"}, starts' = [starts EXCEPT ![l] = [j EXCEPT !.step = x, !.pc = pc]] PROVE FALSE
    <3>1. starts'[l].pc = pc
      BY <1>3, <2>1 DEF PackagedInv, WorldTypes
    <3> QED BY <2>1, <3>1
  <2> QED BY <1>2, <1>11, <2>1 DEF P!RestoreLease
<1>12. CASE P!Before(l)
  <2>1. j.pc = "before"
    BY <1>2, <1>12 DEF P!Before, P!At
  <2>2. /\ windows = {receipt.window} /\ P!Observable(j) /\ P!ProfileNow(j) = j.profile
        /\ P!Decision(j.profile, receipt) = "reuse"
    BY <1>2, <2>1, OursIsReusable DEF Busy, Held
  <2>3. j.reuse /\ j.receipt = receipt
    BY <1>2, <2>1, <2>2 DEF StartOk, Opening, Reuses, Held
  <2>4. P!Pins(j) = j.spki
    BY <1>2, <2>1 DEF StartOk, Pinned
  <2>5. PICK o : o = P!Observed(j)
    OBVIOUS
  <2>6. P!To(l, [o EXCEPT !.from = clock + 1], "activate")
    BY <1>2, <1>12, <2>2, <2>3, <2>4, <2>5 DEF P!Before
  <2>7. "pc" \in DOMAIN [o EXCEPT !.from = clock + 1]
    BY <1>3, <2>5
  <2> QED BY <1>4, <2>6, <2>7
<1>13. CASE P!Activate(l)
  BY <1>13 DEF P!Activate, P!At
<1>14. CASE P!Observe(l) \/ P!Timeout(l)
  <2>1. j.pc = "observe"
    BY <1>2, <1>14 DEF P!Observe, P!Timeout, P!At
  <2>2. P!Observable(j) /\ P!Accept(j) = "window"
    BY <1>2, <2>1, OursIsReusable, ReusedIsAccepted DEF Busy, Held
  <2>3. PICK o : o = P!Observed(j)
    OBVIOUS
  <2>4. PICK x : P!To(l, [o EXCEPT !.observed = x], "settle")
    BY <1>2, <1>14, <2>2, <2>3 DEF P!Observe, P!Timeout
  <2>5. "pc" \in DOMAIN [o EXCEPT !.observed = x]
    BY <1>3, <2>3
  <2> QED BY <1>4, <2>4, <2>5
<1>15. CASE P!Settle(l)
  <2>1. j.pc = "settle"
    BY <1>2, <1>15 DEF P!Settle, P!At
  <2>2. windows = {receipt.window} /\ P!Observable(j) /\ P!ProfileNow(j) = j.profile
    BY <1>2, <2>1, OursIsReusable DEF Busy, Held
  <2>3. j.reuse /\ j.receipt = receipt /\ P!Accept(j) = "window"
    BY <1>2, <2>1, ReusedIsAccepted
  <2>4. j.observed = receipt.window /\ P!Pins(j) = j.spki
    BY <1>2, <2>1, <2>3 DEF StartOk, Seeing, Pinned
  <2>5. P!Settled(j)
    BY <2>2, <2>3, <2>4 DEF P!Settled
  <2>6. PICK k : k = [P!Idle EXCEPT !.looked = changes]
    OBVIOUS
  <2>7. P!To(l, k, "done") /\ "pc" \in DOMAIN k
    BY <1>2, <1>3, <1>15, <2>3, <2>5, <2>6, IdleStart DEF P!Settle
  <2> QED BY <1>4, <2>7
<1>16. CASE P!Write(l)
  <2>1. PICK k : k = [P!Idle EXCEPT !.looked = j.looked]
    OBVIOUS
  <2>2. P!To(l, k, "done") /\ "pc" \in DOMAIN k
    BY <1>2, <1>3, <1>16, <2>1, IdleStart DEF P!Write
  <2> QED BY <1>4, <2>2
<1>17. CASE P!End(l)
  BY <1>17, IdleStart DEF P!End, PackagedInv, WorldTypes
<1> QED BY <1>1, <1>5, <1>6, <1>7, <1>8, <1>9, <1>10, <1>11, <1>12, <1>13, <1>14, <1>15, <1>16, <1>17 DEF P!Step

\* The marker goes last.
LEMMA PackagedEndsTheLease == ASSUME PackagedInv, P!Next PROVE P!EndsTheLease
<1> SUFFICES ASSUME lease # None, lease' = None PROVE ~P!InForce(sys) /\ ~roots
  BY DEF P!EndsTheLease
<1>1. ~P!Beside
  BY DEF P!Beside, P!Show, P!UserQuits, P!UserOpens, P!HelperEnds, P!Update, P!ServiceTurns, P!Reconfigure, P!UserSetsProxy
<1>2. PICK l \in Launch : P!Step(l)
  BY <1>1 DEF P!Next
<1>3. P!RestoreLease(l)
  <2>1. ~(P!Start(l) \/ P!Initial(l) \/ P!Lock(l) \/ P!Again(l) \/ P!ReadPins(l) \/ P!Before(l))
    BY DEF P!Start, P!Initial, P!Lock, P!Again, P!ReadPins, P!Before, P!world
  <2>2. ~(P!Proxy(l) \/ P!Activate(l) \/ P!Observe(l) \/ P!Timeout(l) \/ P!Settle(l) \/ P!Write(l) \/ P!End(l))
    BY DEF P!Proxy, P!Activate, P!Observe, P!Timeout, P!Settle, P!Write, P!End, P!world
  <2> QED BY <1>2, <2>1, <2>2 DEF P!Step
<1>4. PICK j : j = starts[l] /\ StartOk(j) /\ j.pc = "lease"
  BY <1>3 DEF P!RestoreLease, P!At, PackagedInv
<1>5. PICK n : n = IF j.step = 0 THEN (IF P!InForce(sys) THEN 1 ELSE 4) ELSE j.step
  OBVIOUS
<1>6. n \in 1..5
  BY <1>4, <1>5 DEF StartOk, StartTypes
<1>7. P!LeaseSteps[n] = "marker"
  BY <1>3, <1>4, <1>5 DEF P!RestoreLease
<1>8. n = 5
  <2>1. n = 1 \/ n = 2 \/ n = 3 \/ n = 4 \/ n = 5
    BY <1>6
  <2> QED BY <1>7, <2>1 DEF P!LeaseSteps
<1>9. j.step = 5
  BY <1>5, <1>8
<1> QED BY <1>4, <1>9 DEF StartOk, Ending

LEMMA PackagedTells ==
    ASSUME PackagedInv, P!Next
    PROVE  P!ReportsTheTruth /\ P!ReusesItsOwn /\ P!EndsTheLease
BY PackagedReports, PackagedReuses, PackagedEndsTheLease
-----------------------------------------------------------------------------
(* The isolated Desktop (IsolatedDesktop) *)

Ready == {"find", "look", "quit", "term", "kill", "zone", "spawn"}
PastState == {"forget", "trust"} \cup Ready
PastAccount == {"state"} \cup PastState
PastApps == {"account"} \cup PastAccount
PastFiles == {"key", "apps"} \cup PastApps
PastCopy == {"files", "write"} \cup PastFiles

Documents == [kind : {"missing", "broken", "toml"}, routed : BOOLEAN, time : {"missing", "true", "false", "invalid"}, bad : BOOLEAN,
              features : SUBSET {"websockets", "users", "proxy", "apps_off"}]
Tasks == [pc : {"idle", "copy", "open", "inspect", "done", "failed"} \cup PastCopy, bundle : Bundle \cup {None}, app : Bundle \cup {None},
          unseen : BOOLEAN, began : Nat, tries : Nat, before : I!Login]
DesktopTypes ==
    /\ real \in I!Login /\ own \in I!Login /\ files \in [I!File -> Documents]
    /\ task \in Tasks /\ moves \in Nat /\ task.began <= moves

\* What the launch has done so far, as long as nothing moves beside it: the login,
\* the configuration, the database of trust and the processes.
Best == IF I!Usable(real) THEN real ELSE IF I!Usable(task.before) THEN task.before ELSE I!Placeholder
LoginReady ==
    /\ task.pc = "copy" => own = task.before
    /\ task.pc \in PastCopy => own = Best
    /\ task.pc \in PastAccount => account = I!AccountOf(own)
Cleaned(d) == I!IsDocument(d) => d.routed /\ d.time = "false" /\ "websockets" \notin d.features
FilesReady ==
    /\ task.pc \in PastFiles => \A f \in I!File : Cleaned(files[f])
    /\ task.pc \in PastApps => "apps_off" \in files["config"].features
    /\ task.pc \in PastState => state = "complete"
    /\ task.pc \in Ready => nss \in {None, ca} \/ platform # "linux"
AppsReady ==
    /\ task.pc \in {"zone", "spawn"} => task.bundle = None \/ task.unseen \/ apps = {}
    /\ task.pc = "open" => task.unseen \/ apps \subseteq {I!Child}
    /\ task.pc = "inspect" => \/ task.unseen \/ I!Child \notin apps
                              \/ apps = IF task.app = task.bundle THEN {I!Child} ELSE {I!Child, I!Opened}
DesktopInv == DesktopTypes /\ (task.began = moves => LoginReady /\ FilesReady /\ AppsReady)

LEMMA LoginKinds ==
    /\ \A kind \in {"missing", "broken", "api_key", "placeholder"} : I!Plain(kind) \in I!Login
    /\ I!Placeholder \in I!Login /\ I!Tokens \subseteq I!Login
BY DEF I!Plain, I!Placeholder, I!Login, I!Tokens
LEMMA DocumentKinds ==
    I!NoFile \in Documents /\ I!Empty \in Documents /\ I!Broken \in Documents /\ I!EditedDocuments \subseteq Documents
BY DEF I!NoFile, I!Empty, I!Broken, I!EditedDocuments, I!Doc, Documents

\* The launch goes on to another step, and all that it has done stays.
LEMMA TaskGoes ==
    ASSUME DesktopTypes, NEW pc, I!Go(pc), pc \in {"open", "inspect", "done"} \cup PastCopy
    PROVE  /\ task' \in Tasks /\ task'.pc = pc /\ task'.bundle = task.bundle /\ task'.began = task.began
           /\ task'.before = task.before /\ task'.app = task.app /\ task'.unseen = task.unseen
           /\ I!Child' = I!Child /\ I!Opened' = I!Opened
<1>1. task' \in Tasks /\ task' = [task EXCEPT !.pc = pc]
  BY DEF DesktopTypes, I!Go, Tasks
<1> QED BY <1>1 DEF Tasks, DesktopTypes, I!Child, I!Opened
\* It ends.
LEMMA TaskEnds ==
    ASSUME DesktopTypes, I!Fail \/ task' = I!Idle, 
           real' \in I!Login, own' \in I!Login, files' \in [I!File -> Documents], moves' = moves
    PROVE  DesktopInv'
<1>1. task' \in Tasks /\ task'.pc \in {"failed", "idle"} /\ task'.began = 0
  <2>1. I!Idle \in Tasks /\ I!Idle.pc = "idle" /\ I!Idle.began = 0
    BY LoginKinds DEF I!Idle, Tasks
  <2>2. [I!Idle EXCEPT !.pc = "failed"] \in Tasks /\ [I!Idle EXCEPT !.pc = "failed"].pc = "failed" /\ [I!Idle EXCEPT !.pc = "failed"].began = 0
    BY <2>1 DEF Tasks
  <2> QED BY <2>1, <2>2 DEF I!Fail
<1> QED BY <1>1 DEF DesktopInv, DesktopTypes, LoginReady, FilesReady, AppsReady, PastCopy, PastFiles, PastApps, PastAccount, PastState, Ready
\* Something moves beside it.
LEMMA TaskIsDisturbed ==
    ASSUME DesktopInv, I!Move, real' \in I!Login, own' \in I!Login, files' \in [I!File -> Documents]
    PROVE  DesktopInv'
<1>1. task' = task /\ moves' = moves + 1 /\ task \in Tasks /\ moves \in Nat /\ task.began <= moves
  BY DEF I!Move, DesktopInv, DesktopTypes
<1>2. task.began # moves'
  BY <1>1 DEF Tasks
<1> QED BY <1>1, <1>2 DEF DesktopInv, DesktopTypes, Tasks

LEMMA DesktopInit == I!Init => DesktopInv
<1> SUFFICES ASSUME I!Init PROVE DesktopInv
  OBVIOUS
<1>1. real \in I!Login /\ own \in I!Login
  BY LoginKinds DEF I!Init
<1>2. files \in [I!File -> Documents]
  BY DocumentKinds DEF I!Init
<1>3. task = I!Idle /\ moves = 0
  BY DEF I!Init
<1>4. task \in Tasks /\ task.pc = "idle" /\ task.began = 0
  BY <1>3, LoginKinds DEF I!Idle, Tasks
<1> QED BY <1>1, <1>2, <1>3, <1>4 DEF DesktopInv, DesktopTypes, LoginReady, FilesReady, AppsReady, PastCopy, PastFiles, PastApps, PastAccount, PastState, Ready

LEMMA BestStays ==
    ASSUME UNCHANGED <<real, time>>, task'.before = task.before
    PROVE  Best' = Best
BY DEF Best, I!Usable
LEMMA PreparedIsClean ==
    ASSUME NEW d \in Documents
    PROVE  I!Prepared(d) \in Documents /\ Cleaned(I!Prepared(d))
<1>1. I!Clean(d) \in Documents /\ I!Clean(d).routed /\ "websockets" \notin I!Clean(d).features
  BY DEF I!Clean, Documents
<1>2. /\ I!DisableTime(I!Clean(d)) \in Documents /\ I!DisableTime(I!Clean(d)).routed /\ I!DisableTime(I!Clean(d)).time = "false"
      /\ "websockets" \notin I!DisableTime(I!Clean(d)).features
  BY <1>1 DEF I!DisableTime, Documents
<1> QED BY <1>2 DEF I!Prepared, I!EnableSystemProxy, Documents, Cleaned

LEMMA TaskStarts == ASSUME DesktopInv, I!Start PROVE DesktopInv'
<1>0. UNCHANGED <<real, own, files, moves>>
  BY DEF I!Start, I!quiet, I!home
<1>1. PICK bundle \in Bundle \cup {None} : task' = [I!Idle EXCEPT !.pc = "copy", !.bundle = bundle, !.began = moves, !.before = own]
  BY DEF I!Start
<1>2. task' \in Tasks /\ task'.pc = "copy" /\ task'.before = own /\ task'.began = moves
  BY <1>1 DEF I!Idle, Tasks, DesktopInv, DesktopTypes
<1> QED BY <1>0, <1>2 DEF DesktopInv, DesktopTypes, LoginReady, FilesReady, AppsReady, PastCopy, PastFiles, PastApps, PastAccount, PastState, Ready

LEMMA TaskCopies == ASSUME DesktopInv, I!Copy PROVE DesktopInv'
<1>0. task.pc = "copy" /\ UNCHANGED <<real, files, moves, account, state, nss, apps, ca, platform, time>>
  BY DEF I!Copy, I!At, I!quiet
<1>1. CASE I!Fail /\ UNCHANGED own
  BY <1>0, <1>1, TaskEnds DEF DesktopInv, DesktopTypes
<1>2. CASE own' = I!Copied /\ I!Go("files")
  <2>1. task'.pc = "files" /\ task' \in Tasks /\ task'.before = task.before /\ task'.began = task.began
    BY <1>2, TaskGoes DEF DesktopInv, PastCopy
  <2>2. own' \in I!Login
    BY <1>2, LoginKinds DEF I!Copied, DesktopInv, DesktopTypes
  <2>3. task.began = moves => own' = Best'
    BY <1>0, <1>2, <2>1 DEF DesktopInv, LoginReady, I!Copied, Best, I!Usable
  <2> QED BY <1>0, <2>1, <2>2, <2>3 DEF DesktopInv, DesktopTypes, LoginReady, FilesReady, AppsReady, PastFiles, PastApps, PastAccount, PastState, Ready
<1> QED BY <1>1, <1>2 DEF I!Copy

LEMMA TaskReadsFiles == ASSUME DesktopInv, I!ReadFiles PROVE DesktopInv'
<1>0. task.pc = "files" /\ UNCHANGED <<real, own, account, files, state, nss, apps, ca, platform, time, moves>>
  BY DEF I!ReadFiles, I!At, I!quiet, I!home
<1>1. CASE I!Fail
  BY <1>0, <1>1, TaskEnds DEF DesktopInv, DesktopTypes
<1>2. CASE I!Go("write")
  BY <1>0, <1>2, TaskGoes, BestStays DEF DesktopInv, DesktopTypes, LoginReady, FilesReady, AppsReady, PastCopy, PastFiles, PastApps, PastAccount, PastState, Ready
<1> QED BY <1>1, <1>2 DEF I!ReadFiles

LEMMA TaskWritesFiles == ASSUME DesktopInv, I!WriteFiles PROVE DesktopInv'
<1> DEFINE document(f) == IF files[f] = I!NoFile THEN I!Empty ELSE files[f]
           bad == {f \in I!ToPrepare : document(f).bad}
           ready == IF "config" \in bad THEN {} ELSE IF "profile" \in bad THEN {"config"} ELSE I!ToPrepare
<1>0. /\ task.pc = "write" /\ UNCHANGED <<real, own, account, state, nss, apps, ca, platform, time, moves>>
      /\ files' = [f \in I!File |-> IF f \in ready THEN I!Prepared(document(f)) ELSE files[f]]
      /\ IF bad = {} THEN I!Go("key") ELSE I!Fail
  BY DEF I!WriteFiles, I!At, I!quiet
<1>1. ASSUME NEW f \in I!File PROVE document(f) \in Documents
  BY DocumentKinds DEF DesktopInv, DesktopTypes
<1>2. ASSUME NEW f \in I!File
      PROVE  I!Prepared(document(f)) \in Documents /\ Cleaned(I!Prepared(document(f)))
  BY <1>1, PreparedIsClean
<1> HIDE DEF document
<1>3. files' \in [I!File -> Documents]
  BY <1>0, <1>2 DEF DesktopInv, DesktopTypes
<1>4. CASE I!Fail
  BY <1>0, <1>3, <1>4, TaskEnds DEF DesktopInv, DesktopTypes
<1>5. CASE bad = {} /\ I!Go("key")
  <2>1. \A f \in I!File : f \in ready \/ ~I!IsDocument(files[f])
    BY <1>5 DEF I!ToPrepare
  <2>2. \A f \in I!File : Cleaned(files'[f])
    BY <1>0, <1>2, <2>1 DEF Cleaned
  <2>3. task' \in Tasks /\ task'.pc = "key" /\ task'.before = task.before /\ task'.began = task.began
    BY <1>5, TaskGoes DEF DesktopInv, PastCopy, PastFiles
  <2> QED BY <1>0, <1>3, <2>2, <2>3, BestStays DEF DesktopInv, DesktopTypes, LoginReady, FilesReady, AppsReady, PastCopy, PastFiles, PastApps, PastAccount, PastState, Ready
<1> QED BY <1>0, <1>4, <1>5

LEMMA TaskClearsKey == ASSUME DesktopInv, I!ClearKey PROVE DesktopInv'
<1>0. task.pc = "key" /\ UNCHANGED <<real, own, account, files, state, nss, apps, ca, platform, time, moves>>
  BY DEF I!ClearKey, I!At, I!quiet, I!home
<1>1. CASE I!Fail
  BY <1>0, <1>1, TaskEnds DEF DesktopInv, DesktopTypes
<1>2. CASE I!Go("apps")
  BY <1>0, <1>2, TaskGoes, BestStays DEF DesktopInv, DesktopTypes, LoginReady, FilesReady, AppsReady, PastCopy, PastFiles, PastApps, PastAccount, PastState, Ready
<1> QED BY <1>1, <1>2 DEF I!ClearKey

LEMMA TaskWritesApps == ASSUME DesktopInv, I!WriteApps PROVE DesktopInv'
<1>0. task.pc = "apps" /\ UNCHANGED <<real, own, account, state, nss, apps, ca, platform, time, moves>>
  BY DEF I!WriteApps, I!At, I!quiet
<1>1. CASE I!Fail /\ UNCHANGED files
  BY <1>0, <1>1, TaskEnds DEF DesktopInv, DesktopTypes
<1>2. CASE files' = [files EXCEPT !["config"] = I!DisableApps(@)] /\ I!Go("account")
  <2>1. files["config"] \in Documents /\ "config" \in I!File
    BY DEF DesktopInv, DesktopTypes, I!File
  <2>2. /\ I!DisableApps(files["config"]) \in Documents /\ "apps_off" \in I!DisableApps(files["config"]).features
        /\ Cleaned(files["config"]) => Cleaned(I!DisableApps(files["config"]))
    BY <2>1 DEF I!DisableApps, Documents, Cleaned, I!IsDocument
  <2>3. /\ files' \in [I!File -> Documents] /\ files'["config"] = I!DisableApps(files["config"])
        /\ \A f \in I!File \ {"config"} : files'[f] = files[f]
    BY <1>2, <2>1, <2>2 DEF DesktopInv, DesktopTypes
  <2>4. task' \in Tasks /\ task'.pc = "account" /\ task'.before = task.before /\ task'.began = task.began
    BY <1>2, TaskGoes DEF DesktopInv, PastCopy, PastFiles, PastApps
  <2>5. (\A f \in I!File : Cleaned(files[f])) => \A f \in I!File : Cleaned(files'[f])
    BY <2>2, <2>3
  <2> QED BY <1>0, <2>2, <2>3, <2>4, <2>5, BestStays DEF DesktopInv, DesktopTypes, LoginReady, FilesReady, AppsReady, PastCopy, PastFiles, PastApps, PastAccount, PastState, Ready
<1> QED BY <1>1, <1>2 DEF I!WriteApps

LEMMA TaskWritesAccount == ASSUME DesktopInv, I!WriteAccount PROVE DesktopInv'
<1>0. task.pc = "account" /\ UNCHANGED <<real, own, files, state, nss, apps, ca, platform, time, moves>>
  BY DEF I!WriteAccount, I!At, I!quiet
<1>1. CASE I!Fail
  BY <1>0, <1>1, TaskEnds DEF DesktopInv, DesktopTypes
<1>2. CASE account' = I!AccountOf(own) /\ I!Go("state")
  <2>1. task' \in Tasks /\ task'.pc = "state" /\ task'.before = task.before /\ task'.began = task.began
    BY <1>2, TaskGoes DEF DesktopInv, PastCopy, PastFiles, PastApps, PastAccount
  <2>2. account' = I!AccountOf(own)'
    BY <1>0, <1>2 DEF I!AccountOf
  <2> QED BY <1>0, <2>1, <2>2, BestStays DEF DesktopInv, DesktopTypes, LoginReady, FilesReady, AppsReady, PastCopy, PastFiles, PastApps, PastAccount, PastState, Ready
<1> QED BY <1>1, <1>2 DEF I!WriteAccount

LEMMA TaskWritesState == ASSUME DesktopInv, I!WriteState PROVE DesktopInv'
<1>0. task.pc = "state" /\ UNCHANGED <<real, own, account, files, nss, apps, ca, platform, time, moves>>
  BY DEF I!WriteState, I!At, I!quiet
<1>1. CASE I!Fail
  BY <1>0, <1>1, TaskEnds DEF DesktopInv, DesktopTypes
<1>2. ASSUME NEW pc \in {"forget", "find"}, pc = "find" => platform # "linux" \/ nss = None, state' = "complete", I!Go(pc)
      PROVE  DesktopInv'
  <2>1. task' \in Tasks /\ task'.pc = pc /\ task'.before = task.before /\ task'.began = task.began
    BY <1>2, TaskGoes DEF DesktopInv, PastCopy, PastFiles, PastApps, PastAccount, PastState, Ready
  <2> QED BY <1>0, <1>2, <2>1, BestStays DEF DesktopInv, DesktopTypes, LoginReady, FilesReady, AppsReady, PastCopy, PastFiles, PastApps, PastAccount, PastState, Ready
<1> QED BY <1>1, <1>2 DEF I!WriteState

LEMMA TaskTrusts == ASSUME DesktopInv, I!Forget \/ I!Trust PROVE DesktopInv'
<1>0. task.pc \in {"forget", "trust"} /\ UNCHANGED <<real, own, account, files, state, apps, ca, platform, time, moves>>
  BY DEF I!Forget, I!Trust, I!At, I!quiet, I!home
<1>1. CASE I!Fail
  BY <1>0, <1>1, TaskEnds DEF DesktopInv, DesktopTypes
<1>2. ASSUME NEW pc \in {"trust", "find"}, pc = "find" => nss' = ca, I!Go(pc)
      PROVE  DesktopInv'
  <2>1. task' \in Tasks /\ task'.pc = pc /\ task'.before = task.before /\ task'.began = task.began
    BY <1>2, TaskGoes DEF DesktopInv, PastCopy, PastFiles, PastApps, PastAccount, PastState, Ready
  <2> QED BY <1>0, <1>2, <2>1, BestStays DEF DesktopInv, DesktopTypes, LoginReady, FilesReady, AppsReady, PastCopy, PastFiles, PastApps, PastAccount, PastState, Ready
<1> QED BY <1>1, <1>2 DEF I!Forget, I!Trust

\* The login, the files and the database stay, and the processes are as the next step wants them.
LEMMA TaskLooksAtApps ==
    ASSUME DesktopInv, task.pc \in Ready, UNCHANGED <<platform, real, own, account, files, state, ca, nss, time, moves>>,
           NEW pc \in Ready, I!Go(pc), pc \in {"zone", "spawn"} => task.bundle = None \/ task.unseen \/ apps' = {}
    PROVE  DesktopInv'
<1>1. /\ task'.pc = pc /\ task' \in Tasks /\ task'.before = task.before /\ task'.began = task.began /\ task'.bundle = task.bundle
      /\ task'.unseen = task.unseen
  BY TaskGoes DEF DesktopInv, PastCopy, PastFiles, PastApps, PastAccount, PastState, Ready
<1> QED BY <1>1, BestStays DEF DesktopInv, DesktopTypes, LoginReady, FilesReady, AppsReady, PastCopy, PastFiles, PastApps, PastAccount, PastState, Ready

\* pgrep fails.
LEMMA TaskOverlooks ==
    ASSUME DesktopInv, task.pc \in Ready, UNCHANGED <<platform, real, own, account, files, state, ca, nss, time, moves>>, I!Overlook
    PROVE  DesktopInv'
<1>1. task' = [task EXCEPT !.pc = "zone", !.unseen = TRUE] /\ task \in Tasks
  BY DEF I!Overlook, DesktopInv, DesktopTypes
<1>2. task'.pc = "zone" /\ task' \in Tasks /\ task'.before = task.before /\ task'.began = task.began /\ task'.unseen
  BY <1>1 DEF Tasks, PastCopy, PastFiles, PastApps, PastAccount, PastState, Ready
<1> QED BY <1>2, BestStays DEF DesktopInv, DesktopTypes, LoginReady, FilesReady, AppsReady, PastCopy, PastFiles, PastApps, PastAccount, PastState, Ready

LEMMA TaskFinds == ASSUME DesktopInv, I!Find PROVE DesktopInv'
<1>0. task.pc = "find" /\ UNCHANGED <<platform, real, own, account, files, state, ca, nss, apps, time, moves>>
  BY DEF I!Find, I!At, I!quiet, I!home
<1>1. CASE I!Fail
  BY <1>0, <1>1, TaskEnds DEF DesktopInv, DesktopTypes
<1>2. CASE task.bundle = None /\ I!Go("zone")
  BY <1>0, <1>2, TaskLooksAtApps DEF Ready
<1>3. ASSUME NEW app \in Bundle, task' = [task EXCEPT !.pc = "look", !.app = app] PROVE DesktopInv'
  <2>1. task \in Tasks
    BY DEF DesktopInv, DesktopTypes
  <2>2. task'.pc = "look" /\ task' \in Tasks /\ task'.before = task.before /\ task'.began = task.began
    BY <1>3, <2>1 DEF Tasks, PastCopy, PastFiles, PastApps, PastAccount, PastState, Ready
  <2> QED BY <1>0, <2>2, BestStays DEF DesktopInv, DesktopTypes, LoginReady, FilesReady, AppsReady, PastCopy, PastFiles, PastApps, PastAccount, PastState, Ready
<1> QED BY <1>1, <1>2, <1>3 DEF I!Find

LEMMA TaskLooks == ASSUME DesktopInv, I!Look PROVE DesktopInv'
<1>0. task.pc = "look" /\ UNCHANGED <<platform, real, own, account, files, state, ca, nss, apps, time, moves>>
  BY DEF I!Look, I!At, I!quiet, I!home
<1>1. CASE I!CleanedUp # {} /\ I!Go("quit")
  BY <1>0, <1>1, TaskLooksAtApps DEF Ready
<1>2. CASE I!CleanedUp = {} /\ I!Go("zone")
  BY <1>0, <1>2, TaskLooksAtApps DEF Ready, I!CleanedUp
<1>3. CASE I!Overlook
  BY <1>0, <1>3, TaskOverlooks DEF Ready
<1> QED BY <1>1, <1>2, <1>3 DEF I!Look

LEMMA TaskStops == ASSUME DesktopInv, I!Stop PROVE DesktopInv'
<1> PICK pc \in {"quit", "term", "kill"}, next \in {"term", "kill", "failed"} :
         I!Stopping(pc, next) /\ (pc # "kill" => next \in {"term", "kill"})
  BY DEF I!Stop
<1>0. task.pc = pc /\ UNCHANGED <<platform, real, own, account, files, state, ca, nss, time, moves>>
  BY DEF I!Stopping, I!At, I!quiet, I!home
<1>1. CASE apps' = apps \ I!CleanedUp /\ I!Go("zone")
  BY <1>0, <1>1, TaskLooksAtApps DEF Ready, I!CleanedUp
<1>2. CASE I!Fail
  BY <1>0, <1>2, TaskEnds DEF DesktopInv, DesktopTypes
<1>3. CASE pc # "kill" /\ I!Go(next)
  BY <1>0, <1>3, TaskLooksAtApps DEF Ready
<1>4. CASE UNCHANGED apps /\ I!Overlook
  BY <1>0, <1>4, TaskOverlooks DEF Ready
<1> QED BY <1>1, <1>2, <1>3, <1>4 DEF I!Stopping

LEMMA TaskZones == ASSUME DesktopInv, I!Zone PROVE DesktopInv'
<1>0. task.pc = "zone" /\ UNCHANGED <<platform, real, own, account, files, state, ca, nss, apps, time, moves>>
  BY DEF I!Zone, I!At, I!quiet, I!home
<1>1. CASE I!Fail
  BY <1>0, <1>1, TaskEnds DEF DesktopInv, DesktopTypes
<1>2. CASE I!Go("spawn") /\ task.began = moves
  BY <1>0, <1>2, TaskLooksAtApps DEF Ready, DesktopInv, AppsReady
<1>3. CASE I!Go("spawn") /\ task.began # moves
  BY <1>0, <1>3, TaskGoes DEF DesktopInv, DesktopTypes, PastCopy, PastFiles, PastApps, PastAccount, PastState, Ready
<1> QED BY <1>1, <1>2, <1>3 DEF I!Zone

\* Once the process runs only what runs matters.
LEMMA TaskRuns ==
    ASSUME DesktopInv, UNCHANGED <<real, own, files, moves>>, task' \in Tasks, task'.began = task.began,
           task'.pc \in {"open", "inspect", "done"}, task.began = moves => AppsReady'
    PROVE  DesktopInv'
BY DEF DesktopInv, DesktopTypes, LoginReady, FilesReady, AppsReady, PastCopy, PastFiles, PastApps, PastAccount, PastState, Ready

LEMMA TaskSpawns == ASSUME DesktopInv, I!Spawn PROVE DesktopInv'
<1>0. task.pc = "spawn" /\ UNCHANGED <<platform, real, own, account, files, state, ca, nss, time, moves>>
  BY DEF I!Spawn, I!At, I!quiet, I!home
<1>1. CASE task.bundle = None /\ I!Go("done")
  <2>1. task'.pc = "done" /\ task' \in Tasks /\ task'.began = task.began
    BY <1>1, TaskGoes DEF DesktopInv
  <2> QED BY <1>0, <2>1, TaskRuns DEF AppsReady
<1>2. CASE task.bundle # None /\ apps' = apps \cup {I!Child} /\ I!Go("open")
  <2>1. /\ task'.pc = "open" /\ task' \in Tasks /\ task'.began = task.began /\ task'.unseen = task.unseen
        /\ I!Child' = I!Child
    BY <1>2, TaskGoes DEF DesktopInv
  <2>2. task.began = moves => task.unseen \/ apps = {}
    BY <1>0, <1>2 DEF DesktopInv, AppsReady
  <2>3. task.began = moves => task'.unseen \/ apps' \subseteq {I!Child'}
    BY <1>2, <2>1, <2>2
  <2> QED BY <1>0, <2>1, <2>3, TaskRuns DEF AppsReady
<1> QED BY <1>1, <1>2 DEF I!Spawn

LEMMA TaskOpens == ASSUME DesktopInv, I!Open PROVE DesktopInv'
<1>0. task.pc = "open" /\ UNCHANGED <<platform, real, own, account, files, state, ca, nss, time, moves>>
  BY DEF I!Open, I!At, I!quiet, I!home
<1>4. task.began = moves => task.unseen \/ apps \subseteq {I!Child}
  BY <1>0 DEF DesktopInv, AppsReady
<1>1. CASE /\ apps' = IF \E app \in apps : app.bundle = task.bundle THEN apps ELSE apps \cup {I!Opened}
           /\ I!Go("inspect")
  <2>1. /\ task'.pc = "inspect" /\ task' \in Tasks /\ task'.began = task.began /\ I!Child' = I!Child /\ I!Opened' = I!Opened
        /\ task'.app = task.app /\ task'.bundle = task.bundle /\ task'.unseen = task.unseen
    BY <1>1, TaskGoes DEF DesktopInv
  <2>2. ASSUME task.began = moves, ~task.unseen, I!Child \in apps
        PROVE  apps' = IF task.app = task.bundle THEN {I!Child} ELSE {I!Child, I!Opened}
    <3>1. apps = {I!Child} /\ I!Child.bundle = task.app
      BY <1>4, <2>2 DEF I!Child
    <3> QED BY <1>1, <3>1
  <2>3. I!Child # I!Opened
    BY DEF I!Child, I!Opened
  <2>4. task.began = moves /\ I!Child \notin apps => I!Child \notin apps'
    BY <1>1, <2>3
  <2> QED BY <1>0, <2>1, <2>2, <2>4, TaskRuns DEF AppsReady
<1>2. CASE task' = [task EXCEPT !.tries = @ + 1] /\ UNCHANGED apps
  <2>1. /\ task'.pc = "open" /\ task' \in Tasks /\ task'.began = task.began /\ task'.unseen = task.unseen
        /\ task'.app = task.app
    BY <1>0, <1>2 DEF DesktopInv, DesktopTypes, Tasks
  <2>2. I!Child' = I!Child
    BY <2>1 DEF I!Child
  <2> QED BY <1>0, <1>2, <1>4, <2>1, <2>2, TaskRuns DEF AppsReady
<1>3. CASE I!Fail
  BY <1>0, <1>3, TaskEnds DEF DesktopInv, DesktopTypes
<1> QED BY <1>1, <1>2, <1>3 DEF I!Open

LEMMA TaskInspects == ASSUME DesktopInv, I!Inspect PROVE DesktopInv'
<1>0. task.pc = "inspect" /\ UNCHANGED <<real, own, files, moves>>
  BY DEF I!Inspect, I!At, I!quiet, I!home
<1>1. CASE I!Fail
  BY <1>0, <1>1, TaskEnds DEF DesktopInv, DesktopTypes
<1>2. CASE I!Go("done")
  <2>1. task'.pc = "done" /\ task' \in Tasks /\ task'.began = task.began
    BY <1>2, TaskGoes DEF DesktopInv
  <2> QED BY <1>0, <2>1, TaskRuns DEF AppsReady
<1> QED BY <1>1, <1>2 DEF I!Inspect

LEMMA TaskIsOver == ASSUME DesktopInv, I!End PROVE DesktopInv'
BY TaskEnds DEF I!End, I!quiet, I!home, DesktopInv, DesktopTypes

LEMMA DesktopMoves == ASSUME DesktopInv, I!Beside PROVE DesktopInv'
<1>0. real \in I!Login /\ own \in I!Login /\ files \in [I!File -> Documents]
  BY DEF DesktopInv, DesktopTypes
<1>1. ASSUME NEW login \in I!Login, I!LogsIn(login) PROVE DesktopInv'
  BY <1>0, <1>1, TaskIsDisturbed DEF I!LogsIn
<1>2. ASSUME NEW login \in {own, I!Plain("missing")} \cup I!Tokens, NEW seen \in {"broken", "incomplete"}, I!DesktopWrites(login, seen)
      PROVE  DesktopInv'
  <2>1. login \in I!Login
    BY <1>0, LoginKinds
  <2> QED BY <1>0, <1>2, <2>1, TaskIsDisturbed DEF I!DesktopWrites
<1>3. ASSUME NEW f \in I!File, NEW d \in I!EditedDocuments, I!Edits(f, d) PROVE DesktopInv'
  <2>1. d \in Documents
    BY DocumentKinds
  <2>2. files' \in [I!File -> Documents]
    BY <1>0, <1>3, <2>1 DEF I!Edits
  <2> QED BY <1>0, <1>3, <2>2, TaskIsDisturbed DEF I!Edits
<1>4. CASE I!Renew
  BY <1>0, <1>4, TaskIsDisturbed DEF I!Renew
<1>5. CASE I!Tick
  BY <1>0, <1>5, TaskIsDisturbed DEF I!Tick
<1>6. ASSUME NEW bundle \in Bundle, I!UserApp([bundle |-> bundle, by |-> "user"]) PROVE DesktopInv'
  BY <1>0, <1>6, TaskIsDisturbed DEF I!UserApp
<1>7. CASE I!Dies
  <2>1. UNCHANGED <<platform, real, own, account, files, state, ca, nss, time, moves, task>> /\ apps' = apps \ {I!Child}
    BY <1>7 DEF I!Dies, I!home
  <2>2. I!Child' = I!Child /\ I!Opened' = I!Opened
    BY <2>1 DEF I!Child, I!Opened
  <2>3. DesktopTypes' /\ (LoginReady => LoginReady') /\ (FilesReady => FilesReady')
    BY <2>1, BestStays DEF DesktopInv, DesktopTypes, LoginReady, FilesReady
  <2>4. AppsReady => AppsReady'
    BY <2>1, <2>2 DEF AppsReady
  <2> QED BY <2>1, <2>3, <2>4 DEF DesktopInv
<1> QED BY <1>1, <1>2, <1>3, <1>4, <1>5, <1>6, <1>7 DEF I!Beside

LEMMA DesktopStep == ASSUME DesktopInv, I!Next PROVE DesktopInv'
BY TaskStarts, TaskCopies, TaskReadsFiles, TaskWritesFiles, TaskClearsKey, TaskWritesApps, TaskWritesAccount, TaskWritesState, TaskTrusts,
   TaskFinds, TaskLooks, TaskStops, TaskZones, TaskSpawns, TaskOpens, TaskInspects, TaskIsOver, DesktopMoves DEF I!Next, I!Step
LEMMA DesktopRests == ASSUME DesktopInv, UNCHANGED varsI PROVE DesktopInv'
<1>1. UNCHANGED <<platform, real, own, account, files, state, ca, nss, apps, time, moves, task>>
  BY DEF varsI, I!vars
<1>2. DesktopTypes' /\ (LoginReady => LoginReady') /\ (FilesReady => FilesReady')
  BY <1>1, BestStays DEF DesktopInv, DesktopTypes, LoginReady, FilesReady
<1>3. AppsReady => AppsReady'
  BY <1>1 DEF AppsReady, I!Child, I!Opened
<1> QED BY <1>1, <1>2, <1>3 DEF DesktopInv

LEMMA DesktopStarts ==
    ASSUME DesktopInv, I!Next
    PROVE  I!HasTheLogin /\ I!IsPrepared /\ I!IsTheOnlyOne
<1>1. I!HasTheLogin
  BY DEF I!HasTheLogin, I!Starts, DesktopInv, LoginReady, PastCopy, PastFiles, PastApps, PastAccount, PastState, Ready, Best
<1>2. I!IsPrepared
  BY DEF I!IsPrepared, I!Starts, DesktopInv, FilesReady, PastCopy, PastFiles, PastApps, PastAccount, PastState, Ready, Cleaned
<1>3. ASSUME task.pc = "inspect", task'.pc = "done" PROVE I!Child \in apps
  <2>1. ~(I!Start \/ I!Copy \/ I!ReadFiles \/ I!WriteFiles \/ I!ClearKey \/ I!WriteApps \/ I!WriteAccount \/ I!WriteState)
    BY <1>3 DEF I!Start, I!Copy, I!ReadFiles, I!WriteFiles, I!ClearKey, I!WriteApps, I!WriteAccount, I!WriteState, I!At
  <2>2. ~(I!Forget \/ I!Trust \/ I!Find \/ I!Look \/ I!Stop \/ I!Zone \/ I!Spawn \/ I!Open)
    BY <1>3 DEF I!Forget, I!Trust, I!Find, I!Look, I!Stop, I!Stopping, I!Zone, I!Spawn, I!Open, I!At
  <2>3. ~I!End
    BY <1>3 DEF I!End, I!Idle
  <2>4. ~I!Beside
    BY <1>3 DEF I!Beside, I!LogsIn, I!DesktopWrites, I!Edits, I!Renew, I!Tick, I!UserApp, I!Dies, I!Move
  <2>5. I!Inspect => I!Child \in apps
    BY <1>3 DEF I!Inspect, I!Fail, I!Idle
  <2> QED BY <2>1, <2>2, <2>3, <2>4, <2>5 DEF I!Next, I!Step
<1>4. I!IsTheOnlyOne
  BY <1>3 DEF I!IsTheOnlyOne, DesktopInv, AppsReady
<1> QED BY <1>1, <1>2, <1>4
-----------------------------------------------------------------------------
(* The launches together *)

\* No command, however it is killed or overtaken, loses the user's newest login
\* to the placeholder or the last edit of config.toml to an older one, but one
\* that came between the last look and the write
\* (write_codex_local_proxy_auth_at, prepare_codex_oauth_files).
THEOREM NoLoginIsLost == MCSpec => []LoginsSurvive
<1> DEFINE vs == <<part, varsE, varsP, varsI, vars, varsD>>
<1> USE PartsAssumption
<1>1. MCInit => LoginInv
  BY LoginInit DEF MCInit, RestL
<1>2. LoginInv /\ [MCNext]_vs => LoginInv'
  <2>1. [MCNext]_vs => [Next]_vars
    BY DEF MCNext, vars
  <2> QED BY <2>1, LoginNext
<1>3. LoginInv => LoginsSurvive
  BY DEF LoginInv, LoginsSurvive, LoginIsSafe, EditIsSafe
<1> QED BY <1>1, <1>2, <1>3, PTL DEF MCSpec

\* Whatever users, the updater and the system do to Codex's app-server in between:
\* a refresh ends no session it knew of, launches nothing older where the versions
\* can be compared, and says what became of the server.
THEOREM RefreshesStayTrue == MCSpec => DaemonIsRefreshed
<1> DEFINE vs == <<part, varsE, varsP, varsI, vars, varsD>>
<1>1. MCInit => DaemonInv
  BY DaemonInit DEF MCInit, RestD
<1>2. DaemonInv /\ [MCNext]_vs => DaemonInv'
  BY DaemonNext, DaemonRests DEF MCNext
<1>3. DaemonInv /\ [MCNext]_vs
         => [part = "daemon" => D!SparesSessions /\ D!KeepsUp /\ D!ReportsTheTruth]_varsD
  BY RefreshSpares, RefreshKeepsUp, RefreshTells DEF MCNext
<1> QED BY <1>1, <1>2, <1>3, PTL DEF MCSpec, DaemonIsRefreshed

\* Whatever commands, edits of the environment's files, restarts and foreign
\* programs come beside a launch: a client in an environment of its own is served
\* by that environment's proxy, an undisturbed launch fails only over its port, and
\* gives the client the proxy that the client's own files name
\* (environment.rs, run_claude and run_codex_launcher in main.rs).
THEOREM ClientsStayInTheirEnvironment == MCSpec => ClientsReachTheirEnvironment
<1> DEFINE vs == <<part, varsE, varsP, varsI, vars, varsD>>
<1>1. MCInit => EnvironmentInv
  BY EnvironmentInit DEF MCInit, RestE
<1>2. EnvironmentInv /\ [MCNext]_vs => EnvironmentInv'
  BY EnvironmentStep, EnvironmentRests DEF MCNext
<1>3. EnvironmentInv /\ [MCNext]_vs
         => [part = "environments" => E!ReachesItsEnvironment /\ E!SucceedsUndisturbed /\ E!FollowsTheFiles]_varsE
  BY LaunchesReach DEF MCNext
<1> QED BY <1>1, <1>2, <1>3, PTL DEF MCSpec, ClientsReachTheirEnvironment

\* However many launches of the packaged Desktop overlap or are killed, and
\* whatever the user, the Store and init do beside them: a report of success is so
\* unless something moved since the last look, a window of the user's own launch is
\* reused, and the marker of an older client goes after its settings
\* (run_windows_packaged_desktop, windows_desktop_runtime.rs).
THEOREM DesktopReportsAreTrue == MCSpec => DesktopReportIsTrue
<1> DEFINE vs == <<part, varsE, varsP, varsI, vars, varsD>>
<1>1. MCInit => PackagedInv
  BY PackagedInit DEF MCInit, RestP
<1>2. PackagedInv /\ [MCNext]_vs => PackagedInv'
  BY PackagedStep, PackagedRests DEF MCNext
<1>3. PackagedInv /\ [MCNext]_vs => [part = "packaged" => P!ReportsTheTruth /\ P!ReusesItsOwn /\ P!EndsTheLease]_varsP
  BY PackagedTells DEF MCNext
<1> QED BY <1>1, <1>2, <1>3, PTL DEF MCSpec, DesktopReportIsTrue

\* A Desktop that the launcher starts has, unless something moved meanwhile, the best
\* login there is, cleaned files and the trust of today's CA, whatever an earlier
\* launch that ended early had left.  On macOS nothing else runs beside it, unless
\* pgrep failed and so overlooked it, or the app that was opened is not the one that
\* was started
\* (run_linux_desktop, run_macos_desktop, run_windows_desktop in main.rs).
THEOREM DesktopsStartPrepared == MCSpec => DesktopIsPrepared
<1> DEFINE vs == <<part, varsE, varsP, varsI, vars, varsD>>
<1>1. MCInit => DesktopInv
  BY DesktopInit DEF MCInit, RestI
<1>2. DesktopInv /\ [MCNext]_vs => DesktopInv'
  BY DesktopStep, DesktopRests DEF MCNext
<1>3. DesktopInv /\ [MCNext]_vs => [part = "isolated" => I!HasTheLogin /\ I!IsPrepared /\ I!IsTheOnlyOne]_varsI
  BY DesktopStarts DEF MCNext
<1> QED BY <1>1, <1>2, <1>3, PTL DEF MCSpec, DesktopIsPrepared
=============================================================================

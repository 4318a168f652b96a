# SAIAI client: a TLA+ verification project

SAIAI installs and runs the clients of a Gateway (Claude Code, Codex, the
ChatGPT desktop application) on a user's machine. The repository has three
programs: `tools/saiai-core`, the library that writes and removes a product's
installation and that the desktop application is built on;
`tools/saiai-desktop`, that application; and `tools/saiai-cli`, the `saiai`
command with the *local proxy* it installs, a background process that intercepts
the clients' connections and sends them to the Gateway.

This directory models the parts of these programs in which several processes,
tasks or machines act on shared state, or a user's file is edited in several
steps. Every module is translated from the source; the lines behind each
definition are listed in `PROJECT.json` ("map"). Definitions marked `BUG` in a
comment are not part of the specifications: each is a plausible mistake in the
code next to it, and `PROJECT.json` ("mutants") says which property finds it.

To check a run: `tlc -config <cfg> <module>`, with the pairs in
`PROJECT.json` ("runs"). To check the proofs: `tlapm <module>`.

## 1. Inventory

### Installation transactions — `saiai-core`: setup.rs, lease.rs, fsutil.rs, credentials.rs, config.rs, paths.rs

*State*: `config.json` (one gateway for all products; per product the committed
client home and credential), client homes and credential files named by fresh
UUIDs, lease files, the managed roots, a transaction lock outside of them.
*Operations*: `setup`, `revoke` of a product, `revoke` of everything,
`load_committed_product` (launch under a shared lease), `setup_status`.
*Interaction*: any number of processes call these; the lock serializes
transactions, a lease (a shared file lock that a running client keeps) forbids
the removal of the home it runs in. *Hard*: crashes between any two file
operations; a rollback that fails; the roots are inspected before the lock is
waited for; removal after commit is best effort. *Correct when*: a running client
keeps its home; a revoked product is gone; transactions are all or nothing, and
end; no transaction damages another product; gateway and home always belong
together; receipts tell the truth.

### Provisioning — `saiai-core`: provision.rs, artifacts.rs, model.rs

Checks the gateway, fetches the bootstrap document over the network and calls
`setup` with the artifacts made of it. *Hard*: the check is under the read lock
and stale by the time of the setup.

### Atomic file replacement — fsutil.rs of `saiai-core`, main.rs of `saiai-cli`

What every other part takes for one step: a temporary file, its bytes on the disk,
a rename. *Hard*: kills and losses of power between the steps; an error after the
rename would be rolled back by the caller. *Correct when*: a reader always finds a
whole version, and an error of saiai-core left nothing behind.

### Client proof — `saiai-cli`: client_proof.rs

*State*: a device key file and a device file shared by all local proxies, their
lock, and in every process a map of device records. *Operations*: load, claim
and enrol a credential, record the Gateway's answer, sign a request.
*Hard*: processes read, merge and write the file concurrently, keep keys that
were replaced, and get answers late. *Correct when*: a process signs only as its
own device, no write that could read the file loses a device id or a revocation, and a
revocation that was recorded is final.

### Upstream proxy — `saiai-cli`: upstream_proxy.rs

*State*: snapshots of the proxy configuration, a cache and an evaluation lock
per snapshot, a pool of HTTP clients. *Hard*: routing takes seconds (WPAD) while
configurations are published; few evaluation permits; settings that name SAIAI's
own listener. *Correct when*: a configured but unusable proxy fails the connection;
a request is sent by the configuration it was routed with; nothing loops; everybody
is answered and a change is followed.

### Local proxy — `saiai-cli`: local_proxy.rs

Accepts connections, refuses telemetry hosts, terminates TLS for managed hosts,
parses requests, answers some itself — among them those for the synthetic ChatGPT
account of a Desktop —, forwards others to the Gateway with its own key and a proof,
passes the rest through, relays WebSockets.
*Hard*: pipelined requests, bodies over the limit, responses that break off or are
held back to be changed, HEAD, slow and absent peers; which of several credentials
leaves the machine; dozens of overlapping path rules that must tell one story; one
task that serves both directions of a WebSocket.
*Correct when*: the bytes of a connection stay in step; only whole requests are
forwarded; a truncated response is recognizable; what leaves has exactly one
identity, the one that is proved; logins stay on the machine; the synthetic account
is one and grants no write; messages arrive.

### Initialization and the managed service — `saiai-cli`: main.rs, windows_background.rs

*State*: per environment a `config.json`, a service lock, a service (a background
process on record on Linux and Windows, a systemd unit, a LaunchAgent); one CA per
installation, one initialization lock. *Operations*: `init`, `init-codex`, `start`,
`restart`, `stop`, `logs`, `upstream-proxy`, `doctor`, and the workers themselves.
*Hard*: ports are chosen by binding and letting go; workers die, pids are reused,
service managers restart on their own and return early; commands overlap, are
interrupted, are killed; the clients' settings must agree with what the worker has
read. *Correct when*: two environments never share an address; no worker is orphaned
or doubled; a stop reaches only its own worker; after `init` the worker has the new
configuration and the client works; a silent doctor is right.

### Client configuration files and login — `saiai-cli`: main.rs, vscode.rs

*State*: Claude's `settings.json`, VS Code's settings (JSON with comments, edited in
place), Codex's `.env`, `config.toml` and `auth.json`. Users and clients write the
same files. *Hard*: reads and writes are apart; members are removed between commas and
comments; Codex renews a login while SAIAI replaces it. *Correct when*: the user's
part survives every init and uninstall, and no login is lost.

### Launchers — `saiai-cli`: environment_scope.rs, claude_launcher.rs, main.rs, windows_desktop_runtime.rs, desktop_product.rs

`saiai claude`, `saiai codex`, `saiai vscode`, `saiai desktop`: find the environment,
find or start its proxy, prepare the client's files, start the client. The packaged
Windows Desktop is started by Windows, so that the launcher can only observe it.
*Hard*: another program has the port; variables name another environment than the
directory; windows, packages and proxies change between two looks; a launch ends in the
middle. *Correct when*: a credential goes to its own proxy only; what a launch reports
is so; an interrupted preparation is repeated as a whole.

### Codex daemon — `saiai-cli`: codex_daemon.rs

After an init the app-server that Codex keeps running has the old login and proxy. It is
inspected, and restarted or updated by its official command if it has no session.
*Hard*: sessions opened in between, packages replaced, versions that go back or are
not reported. *Correct when*: no known session is lost, no older version runs
afterwards, and the report is true.

### Self-update and uninstall — `saiai-cli`: main.rs, uninstall.rs

*Hard*: the program replaces itself, on Windows by a helper that runs after it exited; the
plan of an uninstall is older than its execution, an item fails or the process is killed
anywhere, and what SAIAI wrote into a file is known only by the `config.json` that the
same run deletes. *Correct when*: what is installed is what the manifest named, reports
are true and a stopped service comes back; the evidence outlives what it proves, the
user's edits survive, and repeating ends with everything removed.

### Desktop backend — `saiai-desktop`: src-tauri/src/lib.rs

Commands that call saiai-core and show its answers, and a probe that runs a client for
its version. *Hard*: a client that hangs, writes without an end, or leaves a process on
its pipes. *Correct when*: the probe ends, leaves no client running, and shows a whole
version or none.

### Not modelled

| part | why |
|---|---|
| upstream_tls.rs | a set of root certificates computed when a client is built; no state |
| certificates of the local proxy | one map under one mutex, keys derived from the CA's: no interleaving is left to go wrong, X.509 contents |
| windows_acl.rs, permissions.rs, client_program.rs | checks of the platform; a failing step in the models that call them |
| Windows and macOS items of uninstall | the registry, scheduled tasks and the Store: the same plan, gates and reruns as the items of Linux |
| Windows scheduled start, `status`, VS Code's command line | one call each to the system; printed text |
| JSON, TOML and URL parsing, tracing | pure conversions without a property of theirs here |
| Desktop interface, installers, release scripts, documents | views, downloads and text |

## 2. Modules

| module | models | composes or implements |
|---|---|---|
| `Installation` | the abstract promise of the transactions | |
| `SetupTransaction` | setup.rs, lease.rs and the parts of provision.rs around it | implements `Installation` |
| `AtomicFile` | atomic_write_private, write_bytes_atomic | |
| `ClientProof` | client_proof.rs | |
| `EgressDecision` | what leaves the machine for a request and with which credentials | |
| `ProxyPolicy` | the policy algorithms of upstream_proxy.rs, as operators | |
| `OutboundRequest` | one request: the decision, then its route | composes `EgressDecision` and `ProxyPolicy` |
| `LocalAnswers` | which requests are answered in place, and the synthetic account | |
| `UpstreamProxy` | refresher, snapshots, evaluation, pool | extends `ProxyPolicy` |
| `ManagedConnection` | one intercepted HTTP/1.1 connection, with its client and the Gateway | |
| `ChatInit` | the answer to a new chat, held back and changed | |
| `DuplexChannel` | the abstract promise of a relay: two ordered channels that end | |
| `WebSocketRelay` | relay_openai_websocket | implements `DuplexChannel` |
| `BackgroundService` | init, start, stop, workers on Linux without systemd | |
| `SystemdService`, `LaunchAgent`, `WindowsService` | the same commands under the other managers | |
| `SelfUpdate` | saiai update and its Windows helper | |
| `CodexDaemon` | codex_daemon.rs | |
| `VersionProbe` | run_version_command of the desktop application | |
| `ClientConfiguration` | init and init-codex: CA, config.json, the clients' files, the worker | |
| `Doctor` | saiai doctor on every state of it | extends `ClientConfiguration` |
| `CodexLogin` | auth.json and config.toml beside a Codex that writes them | |
| `EditorSettings`, `DotenvBlock` | the edits of VS Code's settings and of Codex's .env, as operators | |
| `ManagedDocuments` | init, uninstall and the user on these files | extends the two |
| `EnvironmentLaunch` | environment_scope.rs, saiai claude and saiai codex | |
| `PackagedDesktop`, `IsolatedDesktop` | saiai desktop with the package of Windows; with a Desktop that it starts itself | |
| `Uninstall` | uninstall.rs: discovery, plan, execution, reruns | |
| `UpstreamProxyProofs`, `DoctorProofs` | theorems | extend the modules they are named for; `Doctor` brings `ClientConfiguration` |
| `SetupTransactionProofs`, `IdentityProofs`, `RequestsProofs`, `ManagedProgramsProofs`, `UserFilesProofs`, `LaunchesProofs` | theorems, most of them of several modules | extend the `MC...` module of the same name, which has the properties and the parts |

Modules named `MC...` hold the instances. Several put parts side by side that have no
variable in common: the variable `part` says which one a behaviour is about, the others
keep one initial state, and each property is about its part. That is a way to
check small modules in one run, and not a claim that they interact. One of the parts
is extended and the others are instances (`MCIdentity` extends `ClientProof`, `MCRequests`
`WebSocketRelay`, `MCManagedPrograms` `BackgroundService`, `MCLaunches` `CodexLogin`,
`MCUserFiles` `Uninstall`), so that a theorem can name the very definition that the run checks.
Where components do interact, one module has both: the decision and the route of a request, init with the
worker and the files between them, transactions with clients, doctor with what it
looks at.

How state and actions correspond to the code:

- **SetupTransaction.** `dirs`, `entry`/`gateway`, `home`, `cred`, `leaseFile`
  are the files; `lock`, `lease`, `excl` the file locks of the operating system;
  `pc`/`job` the call each process is in. A step of a transaction is one file
  operation whose effect another process or a crash can see. `Crash` ends a process at
  any of them; `RemovalMayFail` lets a removal fail wherever the code ignores that
  error. An error before the commit runs the rollback in one step; a rename of the
  rollback that fails is the state a crash in the middle of the move leaves. A setup
  names home and credential by two UUIDs; the model uses one reference for both. The
  two locks the code takes are one.
- **AtomicFile.** `bytes` is what a reader sees of a version, `synced` whether it is on the
  disk; `name` and `diskName` the same for the directory entry. A write that
  returned may still be lost with the power, as the directory is synced best effort;
  an error of the CLI's variant is possible after the rename (permissions).
- **ClientProof.** A record's device id is the key it was issued for, so
  "own device" can be said without cryptography. `update()` is lock, merge
  and write, each a step; the Gateway may answer, fail, or revoke at any time. A file that
  cannot be read is loaded (`Readings`) and merged (`MergeNothing`) as an empty one, and is
  then replaced.
- **UpstreamProxy.** A snapshot is its position in `published`; waiting for a
  blocking thread, for the evaluation lock and for WinHTTP are steps. Times
  are abstract: cache entries may expire at any time.
- **EgressDecision / OutboundRequest.** `Handle` is the whole of `handle_client`
  for one request: it yields what leaves, to whom, with which Authorization
  headers, cookies and proof. `Connect` then routes it through `ProxyPolicy`.
- **LocalAnswers.** One path stands for each family that a prefix rule lets through, in
  both spellings (with and without `/backend-api`). A request without header and claims
  is given the account of `desktop/account-id`, or the fixture. An upgrade at the OpenAI
  host goes to the Gateway on any path. Account ids over the length limit are left out.
- **ManagedConnection.** The client's decoder is part of the model, because
  "in step" is a statement about what the client understands. Bodies and responses
  are counted in parts, the limit is two. A client that does not read leaves room for
  `Backlog` parts; a write that finds none waits for ever (`Room`). **ChatInit** adds the response that is
  held back; the user's choice is read before the request is sent.
- **WebSocketRelay.** Sockets are bounded queues. A send that finds no room is
  the state in which nothing else is read. Pings are answered by the library.
- **BackgroundService.** Linux without `systemd --user`, where SAIAI itself manages
  the process. The check of a process's identity and the signal are one step, and so is
  a probing bind.
- **WindowsService.** A handle pins its pid, so that opening, comparing and
  terminating are one step. Of the unused pids the least is taken, as they are alike.
  Followers whose parent alone was killed, and starters killed between spawn and record,
  are left out.
- **LaunchAgent.** Every `launchctl` call is a step; there is no service lock. launchd
  keeps the definition it loaded and starts the process again whenever it ends.
- **SystemdService.** One command at a time, because the service lock sees to it; what is
  new is that the shell of each may reach the user bus or not. An init takes another address
  where it does not find the one in the file to be its own (`SelectedListens`), and the file
  may be damaged; `stop` without the bus looks at the address that is then in the file.
- **SelfUpdate.** Manifest, download and format checks are their outcome; another release
  may be published between the two. One updater at a time. A `start` of the Windows helper
  after a failure may itself fail; the code swallows that.
- **CodexDaemon.** The daemon, its command and its updater are external: modelled by
  what codex_daemon.rs relies on, and nothing more.
- **VersionProbe.** The client's program may write, fork, end or hang as it likes; both
  reader threads, the polling loop and the deadline are steps.
- **ClientConfiguration.** One environment; a worker is started or replaced in one
  step. Certificates and keys are numbers of pairs. **Doctor** reads all in one
  step; its check of `.env` looks for an `HTTP_PROXY=` line, as the code does. A layer of
  variables has a proxy, a base URL that goes past it, and a `NO_PROXY` list of loopback
  addresses, the Anthropic API, both or neither. Claude Code follows the layer where it
  names a proxy or a list, and its settings' own variables where the layer does not.
- **CodexLogin, ClientConfiguration.** What the user or a client writes between SAIAI's
  last look at a file and its rename is overwritten by construction of the code; the
  history variables `overtaken` mark exactly those writes, and the properties except
  them and nothing else. **ManagedDocuments** reads and writes in two steps with edits
  between them; comparing the file again and replacing it is one. `write_codex_ide_env`
  (main.rs:1226) does not compare: it reads, backs up and writes Codex's `.env` at once, and
  is one step here, so that an edit in the middle of it, of which the backup may be left, is
  not in the model.
- **EditorSettings, DotenvBlock.** Documents are sequences of tokens or lines. A `.env`
  block with a BEGIN and no END reaches to the end of the file, as in the code. In a
  document that was `{}` the code sorts SAIAI's marker behind the members (vscode.rs:523), the
  model puts it before them; no property tells the two apart.
- **EnvironmentLaunch.** The service's and init's commands are one step each here. The
  default environment accepts a listener without verifying it (it may be the Codex or
  the Claude route), and its Claude settings may name a port that `init-codex` has
  since moved; `FollowsTheFiles` is therefore about the isolated ones.
- **PackagedDesktop.** Observing the processes and resolving the package is taken as one step. **IsolatedDesktop**: on Linux a second `saiai desktop codex`
  may join the running instance, which keeps its old arguments. On macOS two searches each
  find an app, `bundle` and `app`, which may differ; a `pgrep` that fails finds nothing
  (`Overlook`).
- **Uninstall.** Linux. A client's file is: whose values SAIAI wrote into it, the
  user's revision, and whether it can be parsed or is not even UTF-8. `run.plan` is the plan,
  item by item, in the order in which they are carried out. `given` notes what a plan leaves
  out: projects that the user gave up, and the areas it passes over in silence (`PassedOver`,
  and a `certutil` that is missing or fails). The comparison in `execute_edit` and the
  write behind it are one step. Not in the model: symbolic links, one file shared by
  several product directories, project directories that older clients configured
  against the default proxy, and an `init` at the same time (uninstall takes no
  initialization lock).

## 3. Runs

Every run is exhaustive for its bounds. `PROJECT.json` has the list with the
properties; each property is found violated under one of the mutants.

| run | shows | bounds, and why they are enough |
|---|---|---|
| setup_replace | running clients keep their home, transactions end, `Installation` is implemented | one product, two references, so that a generation is replaced under a running client and an orphan can exist beside the committed one; two processes (the lock admits one, the other is the client or waits); crashes and failing removals everywhere |
| setup_products | gateway and homes match, receipts are true, a revoked product is gone, only a revoke takes away, transactions are atomic while nobody has crashed | two products, two gateways, one reference each: sharing, conflict and revocation of one of two |
| identity | own device only, no lost record, a recorded revocation is final; one proven identity; unusable proxies fail and nothing loops; the synthetic account is one and grants no write | records: two processes, two credentials of one user, two keys (`FewKeys`: two in use, or one and a revocation, as the theorem covers any number). Requests: up to two Authorization headers with a cookie, or two cookies with one header; every setting, three variables, every macOS configuration and Windows lists of two entries: each precedence rule compares two. Answers: every path family in both spellings, four methods, with and without the account |
| requests | messages in step and whole, a chosen model is restored, the relay implements `DuplexChannel`, what was begun ends | up to two pipelined requests, HEAD on every path, bodies of nothing, the limit and one more; two parts that the client has not read (`Backlog`): one response fits, and its end or a second one does not; room for one message and three a side: both directions can block at once; an answer of up to four parts, of which two can be held |
| upstream_service | clients belong to their snapshot, one evaluation at a time, everybody is answered, changes are followed | two connections and the refresher, one change among three readings: one connection older than a publication and one newer |
| service_commands | distinct addresses, no orphans, stops only its own, a refreshed worker is current | two environments, two commands at a time, three in all, two workers and two pids, one killed command, one foreign port |
| service_refresh | a proxy that is left running is current, commands end | one environment, two keys, uninterrupted commands, no `upstream-proxy` between them (it says that a restart is needed) |
| managed_programs | on every platform the service is the one on record, stops end their own, starts leave the configuration they were called for; either manager of Linux agrees; reports of update and probe are true | on Linux two environments, each its own init with a worker (service_commands has the rest); on Windows two environments and three pids with two births each, where the copy of a directory names a worker (`CopiesNameWorkers`); two launchctl commands and a death; four starts and stops, two addresses, two writes or damages of config.json and two crashes under systemd; four versions that orderings tell apart, two actions of the user, kills anywhere; three parts of output where two may be shown |
| user_files | evidence outlives values, edits survive, SAIAI's part alone comes and goes, reruns converge, files are whole | the default environment and one project in every layout, CAs trusted at first (`Trusted`); any number of runs, each with or without a working certutil, with one edit, which may break the file, and one failure or kill at any item: one is enough to make a plan stale or a run partial. Settings of up to two members, with comments and trailing commas around the user's own (`UsersOwn`), `.env` files of three lines, one edit. Two writers, one of each function |
| client_configuration | an undisturbed init ends with a working client and a silent doctor, a silent doctor is right, edits survive, inits end | two inits (one per client or the same repeated), one start or one edit beside them (`MaxBeside`), two mishaps, three ports: an address to move from, to and to lose; doctor and the clients on every layer of variables that differs from the usual one in one place |
| launches | launched clients have their environment's proxy; reports of the packaged Desktop and of a daemon refresh are true, and the Desktop is reused; the isolated Desktop is prepared; logins survive | one project directory for both products and three ports, at first the default one; two commands; two launches that overlap, two CAs, versions and windows, two moves; three platforms, two accounts, two app bundles for two searches, a clock of two values, one move; two logins and edits altogether (`FewWrites`), of which one may be an edit; a daemon with one session, four versions of which one is odd and one is not reported, one foreign change, two refreshes |
| service_left_running | a violation, see section 5 | |

`CHECK_DEADLOCK FALSE` stands in every configuration because each of these
systems may stop: bounds are exhausted, clients leave, a command was not issued.

The run `client_configuration` checks the module `Doctor` itself, as do `setup_replace`
`SetupTransaction`: there is nothing to put beside them. Symmetry is declared only where
no property compares the values, and in `MCUpstreamProxy`, `EnvironmentLaunch` and
`PackagedDesktop` the first of several alike ports is taken.

Liveness is stated as recurrence, `[]<>` of "nothing is under way", and not as a
leads-to for each command: a process that begins again and again ends again and again,
and one that is stuck refutes either form.

Two bounds stand for larger constants of the code: `MaxTries` of IsolatedDesktop, 2, for the
ten times that LaunchServices is asked, and `Limit` or `LineLimit`, in parts, for byte
limits. `LaunchctlFails` leaves a known deviation out of a run (section 5). Other deviations
are exceptions that the properties name, each with its line: `OutOfStep` (HEAD), `PastSocks`,
`ReplacesUnread`, `LateAnswer`, `OutOfReach`, `notStarted`, `given`, `Bypassed`, `unseen`. Each was
checked to be needed: without it TLC finds its property violated.

### Fairness

- `SetupTransaction!FairSpec`: a process inside a transaction is scheduled. No
  fairness of clients: a client may hold its lease for ever.
- `UpstreamProxy!FairSpec`: threads run, the 30-second timer ticks, and WinHTTP is
  given timeouts by `WinHttpSetTimeouts`. Nothing is assumed of the system's
  configuration.
- `MCRequests!MCFairSpec`: the connection's task is scheduled and its read deadlines pass;
  the Gateway answers in the end, as the code has no deadline for that; no fairness of the
  client. The code has no deadline for a write to the client either (local_proxy.rs:2238,
  2280). Without any premise `RequestsEnd` therefore says only that a request that stops
  half-way ends at its deadline while there is room for the 408 (`StallsEnd`); that every request
  ends has the hypothesis that the client reads on or leaves. The relay's task runs and the two
  seconds of its close timeout (local_proxy.rs:1460) pass; that a relay ends has, as its
  hypothesis, endpoints that read.
- `MCUserFiles!MCFairSpec`: the process carries out its items. `AnyRerunsConverge` adds,
  as its hypothesis, a user who repairs files, repeats uninstall, and confirms it.
- `BackgroundService!FairSpec`: command processes run; their deadlines pass.
  No fairness of the workers, which may hang before they listen.
- `ClientConfiguration!Spec`: both inits and the worker run. The mishaps, starts and
  the user are not fair.
- `MCManagedPrograms!MCFairSpec`: the Windows commands run (`saiai logs` ends when its
  user wants, and never need); of the probe, the app runs and time passes, while
  the client's program need not do anything.

## 4. Proofs

TLAPS proves 45 results for every value of the constants. Among them are all seventeen invariants
of the runs, all their action properties but a part of one, and both refinements; what is left
is liveness. For each property an inductive
invariant is shown to hold at first and to be kept by every action, with a lemma per
action, and the property follows from it. Every inductive invariant was also checked by
TLC on the instance of a run, with the number of distinct states given below.

| module | theorems about the runs' properties | assumes |
|---|---|---|
| `SetupTransactionProofs` | `ClientKeepsHome` (RunningClientKeepsHome), `GatewayOfEveryHome` (HomeMatchesGateway), `ReportsAreTrue` (CommitsAreTrue), `ProductsStay` (OnlyARevokeTakesAway), `AllOrNothing` (TransactionsAreAtomic), `Refinement` (ImplementsInstallation) | the values for "none" are none of the others; the two switches are Booleans |
| `IdentityProofs` | `OwnDeviceOnly` (SignsOnlyAsItself), `RecordsStayKept` (RecordsAreKept), `OneIdentityLeaves` (OneProvenIdentity), `OnlyConfiguredRoutes` (RoutesAreConfigured), `AnswersStayItsOwn` (AnswersAreItsOwn) | the configured credentials are credentials with a user; requests, settings and system configurations have the shape that the parsers give them, every macOS configuration among them; names are told apart |
| `UpstreamProxyProofs` | `ConnectionsAlwaysAgree` (ConnectionsAgree) | "nobody" and "unset" are nobody and no reading |
| `RequestsProofs` | `RequestsAreWhole` (MessagesAreWhole), `RelayIsAChannel` (ImplementsChannel) | a client has room for a part and a socket for a message; the kinds of messages differ. What the proxy answers behind a HEAD that gets a body (section 5) is excepted by the property, by name |
| `ManagedProgramsProofs` | `WorkersStayKnown` (WorkersAreKnown), `CommandsTouchOnlyTheirOwn` (CommandsKeepToTheirOwn), `LeavesRunningTheCurrent` (LeftRunningIsCurrent), `RecordsStayTrue` (RunsWhatIsOnRecord), `AgentStaysRefreshed` (AgentIsRefreshed), `StopsReachTheirOwn` (WindowsStopsItsOwn), `ManagersAgree` (EitherManagerAgrees), `ReportsStayTrue` (ReportsAreTrue) | there are environments, keys and ports; "nobody" and "none" are none; on Windows one environment is the default. Three theorems have a hypothesis of their own, each the line to a deviation of section 5: `LeavesRunningTheCurrent` that no init is killed or stops behind its write and `upstream-proxy` is not used, `RecordsStayTrue` that launchctl does not fail, `ReportsStayTrue` that the updated program is not under systemd. The versions of an update are the four of the model |
| `LaunchesProofs` | `NoLoginIsLost` (LoginsSurvive), `RefreshesStayTrue` (DaemonIsRefreshed), `ClientsStayInTheirEnvironment` (ClientsReachTheirEnvironment), `DesktopReportsAreTrue` (DesktopReportIsTrue), `DesktopsStartPrepared` (DesktopIsPrepared) | there are ports; versions are numbers; "none" and an opaque token's expiry are none of the other values |
| `DoctorProofs` | `EditsSurvive` (SettingsSurvive), `SilenceIsAlwaysTrue` (SilenceIsTrue), `InitsEndHealthy` (InitEndsHealthy) | there are ports, and "none" is none |
| `UserFilesProofs` | `EvidenceIsKept` (EvidenceOutlivesValues), `FilesStayWhole` (FilesAreWhole), `UserEditsStay` (the part of OnlyTheUserChangesTheRest about plans that are carried out beside a user) | there are finitely many environments; "none" is none |

TLC evaluates every assumption at the start of the run that extends its module.

**Installation transactions.** `RunningClientKeepsHome` is not inductive: nothing in it
says why the owner of the lock does not remove a leased home. `LeaseInvariant` adds
that (`OwnerOK`) whoever is inside a transaction owns the lock, that (`LeaseHeld`)
a held lease has its file and belongs to a launched client or to the launch that
owns the lock, and that (`RemovableUnleased`) whatever the owner may still remove
— the generation it builds, the product whose leases it has probed, everything
once it drops the roots — is leased by nobody. New leases are taken only by a
launch that owns the lock (`NoNewLease`), so what was probed stays unleased.
`GatewayInvariant` adds what a setup knows between its check and its commit:
its gateway is still compatible with the other products' (`GatewayKept`).
`CommitInvariant` (808,466, 1,345,173 and 1,080,736 states on three instances) adds what
a receipt rests on: the diagnosis a transaction made under the lock stands until its end for
every product but its own (`DiagnosisStands`), what it builds is new (`PendingIsNew`), what
it retires is replaced (`RetiredIsReplaced`), what it quarantined does not come back
(`RevokedIsGone`), the ground of a first setup is clean (`GroundIsClean`), and the roots are
dropped only by a revoke of everything or by a first setup (`DropIsTotal`). `TypeStep`,
`LeaseStep`, `GatewayStep` and `CommitStep` show them inductive, in this order.
The refinement maps `installed` to the committed entries, and a session to a
process whose client runs; a commit of `config.json` is `Install`, `Remove` or
`RemoveAll`, a launch that validated its snapshot is `Open`, and all other steps
stutter (`RefinementStep`).
`AtomicInvariant` (1,345,173 states) is about what lies on the disk, as long as nobody dies and
no removal fails (`Clean`): while the lock is free everything is accounted for (`AtRest`), and
the owner of the lock accounts for the rest — what it has built but not committed, or replaced
but not retired (`Pending`), what its revoke has moved away (`Revoking`), in which order it drops
the roots (`Removed`). A failed
setup comes back to `AtRest` because it takes away exactly what is `Pending`.

**Device records.** Neither property says why a write covers a file that other processes
wrote since this one was loaded, so `IInv` adds that only the owner of
`client-device.lock` is between reading the file and writing it (`OwnsTheLock`), that the
records of a process, the file and a pending write are each issued for one key
(`AllIssued`), that what will be written has every device id and every revocation of the file
(`CoversTheFile`), and that a credential is enrolled once per process and what it was told
is recorded (`Told`). The lock is what keeps `CoversTheFile` while another process would
write. Two exceptions are in the property and in the invariant, because they are in the code: a
writer that could not read the file covers nothing, and an enrolment answered before a
revocation takes it back when it is recorded after it. The one enrolment per credential is what
keeps any other answer from doing so (`DoneStays`).

**What leaves, and how.** `OneIdentityLeaves` needs no interleaving, but every case of
`handle_client`: `EgressIsProven` goes through the routes of a request with any number
of Authorization headers and cookies. `OnlyConfiguredRoutes` compares the algorithms of
upstream_proxy.rs with what is configured, for variables, scutil answers and ProxyServer lists
of any length (`EnvIsFaithful`, `MacIsFaithful`, `WindowsIsFaithful`); the exception for a
scheme beside a SOCKS proxy (section 5) is `PastSocks` in the property. A list is searched for its
first usable entry, and `Least` gives that there is one. `AnswersStayItsOwn` goes through every
family of paths in both spellings; the one thing with a history is the Statsig client, whose
gates are those of the configuration it was told (`AnswerInv`, 929,662 states).

**Upstream proxy.** A connection holds a client made for a snapshot, across any number of
publications, because (`IInv`; 371,014 states) the snapshots are never more than the changes
and are only appended (`SnapshotsAreCounted`), a call's route is one that its own snapshot's
policy can give (`CallsAreOfSnapshots`), a cache holds routes of its snapshot only
(`CacheIsOfItsSnapshot`), the pool's clients are those of the snapshot the pool is for
(`ClientsAreOfTheirSnapshot`), and an evaluator is the one that a snapshot's lock names
(`OneEvaluation`).

**Requests.** `ResponsesInStep` alone says nothing of what is under way. `ConnectionInv`
(737,338 states for all of `requests`) describes both directions of a connection, for requests and bodies of any number: what
waits for the proxy is a stretch of the requests, every part after its predecessor, from the
place where the proxy reads to the one where the client writes (`Uploaded`), so that a
request is handled when exactly its own parts were read (`AtRequest`); what waits for the client
is a stretch of responses, each part one that may follow the one before, in the same
response or as the first of the next (`Downloaded`), from what the client awaits to what the
proxy writes next (`Written`); and a part that ends a Gateway response is written only when
that has all its parts. `PartsWritten` and `PartTaken` are about the two ends of this queue,
and every action is one of them. `ChatInv` says what is held and what was passed on.

**Relay.** For both directions at once (31,403 and 114,071 states): what has passed to a side is what the other
sent, in order, followed by at most the notice of a message that was too big (`InOrder`); while
the relay relays, sent is passed, held and waiting, one after the other and
nothing else (`Flow`). The step lemmas are about one queue each (`GrowingFlow`, `TakenFlow`).

**Managed service.** Who holds which lock follows from where a command is (`Locks`); a state
file names a worker of its environment, if not a living one (`StatesAreOfWorkers`); a command
that starts a worker has removed the state file (`Starts`); every living worker is the one on
record or the one being started (`Known`); listeners differ (`DistinctListeners`). The last
two are invariants only because a command writes the state file before it lets go of the
service lock, and chooses its address under the initialization lock (2,585,152 states).
`LeftInv` (331,149 states) adds that an environment is served by its configuration (`Served`)
unless an init is between its write and the end of the worker (`IsDue`); as that init owns the
initialization lock, no other can find the file unchanged meanwhile. The end of the worker is
where `Known` is needed: what the state file names is all there is.

**Other managers** (715,731 states for all of `managed_programs`). On Windows a worker that serves an
environment is the one its state file names, unless a command is about to record it
(`Accounted`, `Recording`): a command spawns only where it has left no worker (`Clear`). That a recorded pid names nobody else follows from births, which
are never used twice for a pid: `WinNames` says of every record, follower file and job which
process it is of or that this one is gone, and `WinFollowing` that a stop has listed every
follower that is still there. On macOS
`AgentInv` says that behind a write the plist is this program's and launchd has it, except for a
command that is about to unload it, and
`AgentFresh` that a restarted agent reads what the start was called for, or something newer. With
systemd `SwitchInv` follows a start from one manager to the other (`Switched`): the background
process is off, and a process that came back since it was found not to run is recent or, for
a shell without the bus, at another address and so out of reach; one proxy at most listens at
each address (`OneListens`). `UpdateInv` follows candidate, backup and helper in
their order; that nothing older is installed needs that the versions are ordered by their weight
(`OlderIsLighter`). `ProbeInv` says that a reader that is done has all that was ever written, or
more than may be shown.

**Configuration and doctor.** `DoctorProofs` follows an init through its steps (`Progresses`: what it
has chosen, configured, written and started is so, if no mishap came after it began), and
the worker through everybody's (`WorkerIsCurrent`: unless an init is under way or failed,
a worker signs with the CA of the configuration; 578,390 states). `SilenceIsAlwaysTrue` then
compares what doctor reads with what a client does, layer by layer of the settings, the lists
of addresses that need no proxy included.

**Launches** (1,700,884 states for all of `launches`). A launch in an environment of its own keeps to
it (`Scoped`), and what init wrote for the environment is what its client's files name
(`FilesAgree`); while nobody disturbs the launch, what it has read is still so (`Launching`). For the packaged
Desktop, one launch at a time holds the lock (`OneHolds`), and the window on record is one that
Windows gave no other start (`Recorded`); a launch beside which nothing moved since it began has
the package, profile and pins of today (`Current`, `Pinned`), found nothing open before it
started its own (`Opening`), reports a window it has seen (`Seeing`), and restores the proxy
settings of an older client before it removes their marker (`Ending`). For the
isolated Desktop, `DesktopInv` says step by step what is ready while nothing moves: the login is
the best there was (`LoginReady`), files cleaned and trust up to date (`FilesReady`), nothing else running unless it was overlooked
(`AppsReady`) — whatever an earlier launch left.

**Daemon refresh.** `DaemonInv` (in the same run) says that a refresh has counted whoever is
connected, or seen them come since (`Sessions`), that it has to do with the daemon of another
until it restarts it (`Generations`), and that its notes are true while nothing foreign
happens (`Undisturbed`).

**Logins.** A login is safe if it is in a backup or was made after a job's last look; a job that
is about to replace or clear the file has made it safe, or holds it (`Carries`; 831,979 states).

**Uninstall.** `EvidenceOutlivesValues` depends on the order of a plan of any length: before a
pending removal of evidence there is, for every value that is left and was not given up, an item
that is still pending, or one that ends all removals if it fails (`Covers`;
1,147,373 states for all of `user_files`). A failed item blocks exactly
the removals behind it; a new plan is in this order because `discover` appends the clients'
files first (`PlanOrder`), whatever files and environments there are. What is given up only grows
(`GivesUpMore`), and nothing more is ever owed of a file (`OwesNoMore`); both are needed because a run
passes over a file that a later run finds readable again.

**Atomic replacement.** `FilesAreWhole` says nothing of a version that is about to be shown:
the invariant adds that whatever was shown once is whole and on the disk
(`ShownIsSynced`), and that a writer's version is whole and on the disk before it replaces
the file, and was not shown before (`WriterInv`).

Induction over numbers is used without the library's schemas, which take an operator as a
parameter: a non-empty set of natural numbers has a least element (`Least`, from
`WFMin` and `NatLessThanWellFounded`), and the set is the one of counterexamples. So are
the lemmas `Flattened` — what FlattenSeq has as elements — and `FlatExists` proved.

*Only model-checked*, and why:

- every liveness property, as ENABLED is out of the prover's reach;
- the documents in `OnlyTheUserChangesTheRest`: what an edit of a token sequence or of lines of
  any length leaves is computed by recursion over the document, and induction over data
  is out of reach, too. `UserEditsStay` is the part about plans beside a user;
- the orderings of versions in `ReportsAreTrue` are compared for the four versions of the model,
  as `Part` reads a sequence of any length.

## 5. Findings

One run shows a disagreement between the program and what it says of itself:

- **service_left_running.** `init` compares the file it wrote with the file before
  it, not with what the running worker has read. After an init that wrote a new
  key and then failed (or was told to skip the start), the next one finds
  nothing changed, prints "left running; binary and runtime configuration are
  unchanged", and the worker goes on with the old key.

Further deviations met while modelling, without a run of their own:

*Connections and identity*

- A HEAD that is forwarded to the Gateway gets `Transfer-Encoding: chunked` and a
  last chunk behind its headers (local_proxy.rs:2147), so that a client on a
  connection that is kept alive finds `0\r\n\r\n` in front of its next response,
  although local_proxy.rs:1077 has "only a real HEAD drops the body". The same goes for a
  sidecar's answer to a HEAD. `requests` sends HEAD everywhere, and `MessagesAreWhole` excepts what
  follows such an answer (`OutOfStep`).
- Answers are written without a deadline (local_proxy.rs:2238, 2280): a client that neither
  reads nor leaves holds its task for as long as it likes.
- A device file that cannot be read or parsed is taken for an empty one (client_proof.rs:398, 521)
  and overwritten: the ids of other processes in it are lost, and their revocations.
- `record_device` (client_proof.rs:487) sets `revoked = false` after the merge, so
  an enrolment answered before a revocation and recorded after it erases the
  revocation of a common device (client_proof.rs:491-492, CLIENT_DESIGN.md:76-77).
  `RevocationsStay` excepts exactly that answer (`LateAnswer`); `RevocationIsFinal` says that a
  revocation recorded last is kept for good.
- A failed lock disables proofs only in `load`; in `update` the record is applied
  in memory and signs (client_proof.rs:513; CLIENT_PROOF.md:82-83).
- `macos_policy` (upstream_proxy.rs:764) lets the scheme without a proxy of its own
  go direct past a configured SOCKS proxy, other than upstream_proxy.rs:8-9 says.
  `RoutesAreConfigured` excepts that scheme of that input (`PastSocks`).
- On Windows with automatic configuration a connection to loopback waits for an
  evaluation permit, too.

*Services and updates*

- On Linux `current_exe` of an updater that replaced itself names the unlinked file
  (main.rs:6824), so the restarted unit or process cannot be executed although
  main.rs:4584 reports the restart. `managed_programs` checks the other platforms;
  `Platforms = {"systemd"}` violates `ReportsAreTrue`. Without systemd the start
  fails, and says so.
- The Windows helper stops the worker of the selected environment only
  (main.rs:6718), not every process of the same path (WINDOWS.md:157-158). If a stop
  fails although the worker ended, the helper leaves the service down; and when the `start`
  after a failed update fails as well, the error is swallowed (main.rs:6753). The next command
  warns of the update, not of the service that is down.
- A worker whose starter is killed before it wrote the state file is found by
  nobody: no orphans are promised while no command was killed.
- On macOS `start` boots the old definition out after it wrote the new plist
  (main.rs:4002). If that fails, the next start finds the plist unchanged and
  goes on with the old definition: with `LaunchctlFails = TRUE` `RunsWhatIsOnRecord` is
  violated. `stop` ignores the errors of `bootout` and always prints that it stopped.
- A systemd unit that waits for its automatic restart does not count as active, and may
  come up beside a background process.
- An init in a shell without the user bus does not take the listening systemd unit for its own
  and moves to another port (main.rs:3601-3660). A start there spawns a process beside the unit,
  which goes on at the old address with the old configuration, and a stop looks at the new
  address only (main.rs:7486) and says that nothing runs; so does a stop with a `config.json`
  that it cannot read. `EitherManagerAgrees` excepts the unit at another address (`OutOfReach`).
- A `NO_PROXY` with a loopback address and `api.anthropic.com` takes Claude Code past the worker, and
  doctor, which looks for a loopback address only (main.rs:5037, 5883), says nothing.
  `SilenceIsTrue` excepts that list.
- On macOS the app that is verified and opened is the first of /Applications with OpenAI's
  identifier (main.rs:2023), the executable that is started is that of the first app in
  ~/Applications, unverified (main.rs:1959). With two apps installed `open -a` then starts the
  first beside the second, without the proxy's arguments, and the launch succeeds. And a `pgrep`
  that fails counts as nothing running (main.rs:2146), so that a Desktop of the user is not stopped.
  `IsTheOnlyOne` says what runs in the first case, and excepts the second (`unseen`).
- Between codex_daemon's count of the sessions and the restart a user may open one, and
  lose it. Codex has no command that restarts only an idle daemon.

*Installations and files*

- `load_committed_product` on a machine without an installation creates the state
  root with `transaction.lock`; a setup then refuses the unexpected root
  until `revoke --all`. It has no caller besides tests today.
- A setup that waits behind a first setup that fails may leave a state root. Homes
  staged by a crashed setup are collected only by `revoke --all`.
- The lock-free readers (`client_home`, `load_credential`) return what was
  committed when they read it; it may be retired before it is used.
- `remove_member` deletes a comment between a value and its comma, although
  vscode.rs:678 says that comments are preserved.
- A login or an edit that is written between SAIAI's last look and its rename is lost;
  `LoginsSurvive` and `SettingsSurvive` except exactly these.
- `remove_dir_all` of an environment (uninstall.rs:2446) deletes in the directory's
  own order. Interrupted, it may leave `config.json` without the record of the
  project, and the next uninstall needs the variable again; or SAIAI's files with
  neither, which are then kept for ever. `AnyRerunsConverge` promises nothing for
  projects that are not on record.
- An `init` during the confirmation prompt of an uninstall may write values whose
  `config.json` is then deleted.
- Uninstall says nothing of settings of VS Code that are not UTF-8 (uninstall.rs:1219-1221), nor of
  the CA where `certutil` is missing or fails (uninstall.rs:1379, 1388), and then deletes the evidence:
  no rerun removes what is left. `EvidenceOutlivesValues` and `AnyRerunsConverge` except what was
  passed over (`given`).

## 6. What is left

The models are complete for what section 1 names, and every safety property is proved but the
one on documents. Worth adding, should the provers come to allow it: the edits of
`EditorSettings` and `DotenvBlock` for documents of any length, with lemmas about tokens that come
and go in pairs; and the liveness properties, of which `CommandsEnd` and `InitsEnd` would gain
the most from a proof, because a deadlock between two kinds of locks may need more commands than
a run has.

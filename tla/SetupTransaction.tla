-------------------------- MODULE SetupTransaction --------------------------
(***************************************************************************)
(* The installation transactions of saiai-core (src/setup.rs): setup of a  *)
(* product, revoke of a product, revoke of everything, and the launch of a *)
(* client from a committed product, run by several processes over one file *)
(* system.  A crash may end a process at any step and leaves the files.    *)
(*                                                                         *)
(* The files are the three managed roots with the "leases" directory       *)
(* (dirs), config.json (gateway and entry; it exists iff gateway is not    *)
(* NoGateway), one client home per generation, one credential file and one *)
(* lease file per reference.  A setup names its generation gen-<product>-  *)
(* <uuid> and its credential <product>-<uuid> by one UUID, so one          *)
(* reference <<product, uuid>> stands for both.                            *)
(*                                                                         *)
(* Platform: Unix.  The transaction lock is the flock on the parent of the *)
(* state root; transaction.lock inside it is taken under that flock, and   *)
(* is in the state root whenever the state root exists.                    *)
(***************************************************************************)
EXTENDS Naturals, FiniteSets

CONSTANTS Product, Identifier, Gateway, Process,
          NoRef, NoGateway, NoSession,
          Nobody,         \* the lock's owner when it is free
          MayCrash,       \* processes may die at any step
          RemovalMayFail  \* removing a file or a directory may fail

ASSUME NullAssumption ==
    /\ NoRef \notin Product \X Identifier
    /\ NoGateway \notin Gateway
    /\ Nobody \notin Process
ASSUME SessionAssumption == NoSession \notin [ref : Product \X Identifier, gateway : Gateway \cup {NoGateway}]
ASSUME SwitchAssumption == MayCrash \in BOOLEAN /\ RemovalMayFail \in BOOLEAN

Refs(q) == {q} \X Identifier
Ref == Product \X Identifier

VARIABLES dirs,      \* which of the managed directories exist
          entry,     \* config.json: the reference committed for each product
          gateway,   \* config.json: base_url, or NoGateway without the file
          home,      \* where each generation's home is, and its gateway
          cred,      \* where each credential file is
          leaseFile, \* the references whose lease file exists
          lease,     \* the reference whose lease each process holds shared
          excl,      \* the leases the lock's owner holds exclusively
          lock,      \* the owner of the transaction lock
          pc, job    \* where each process is, and its request

config == <<entry, gateway>>
files == <<dirs, entry, gateway, home, cred, leaseFile>>
vars == <<dirs, entry, gateway, home, cred, leaseFile, lease, excl, lock, pc, job>>

Roots == {"config", "data", "state"}
Place == {"absent", "staged", "live", "quarantined"}
NoHome == [at |-> "absent", for |-> NoGateway]
State == {"unconfigured", "ready", "broken"}
NoDiagnosis == [q \in Product |-> "unconfigured"]
Request(op, q, g) == [op |-> op, product |-> q, gateway |-> g, before |-> {},
                      ref |-> NoRef, diag |-> NoDiagnosis]
NoJob == Request("none", NoRef, NoGateway)

\* The steps before the config commit of a setup or of a revoke, from which
\* an error still undoes what was done.
Undoable == {"checked", "staged", "promoted", "saved", "purging", "moving"}
Committed == {"retiring", "retiringHome", "purgingOwn", "dropping", "pruning"}
Dropping == {"dropConfig", "dropData", "dropState"}
Inside == {"locked", "validating", "done"} \cup Undoable \cup Committed \cup Dropping
Outside == {"idle", "fetching", "waiting", "running"}

Init == /\ dirs = {}
        /\ entry = [q \in Product |-> NoRef]
        /\ gateway = NoGateway
        /\ home = [r \in Ref |-> NoHome]
        /\ cred = [r \in Ref |-> "absent"]
        /\ leaseFile = {}
        /\ lease = [p \in Process |-> NoRef]
        /\ excl = {}
        /\ lock = Nobody
        /\ pc = [p \in Process |-> "idle"]
        /\ job = [p \in Process |-> NoJob]

(***************************************************************************)
(* Helpers.                                                                *)
(***************************************************************************)
Goto(p, step) == pc' = [pc EXCEPT ![p] = step]
BestEffort(old, new) == IF RemovalMayFail THEN {old, new} ELSE {new}
HomeWithout(refs) == [r \in Ref |-> IF r \in refs THEN NoHome ELSE home[r]]
CredWithout(refs) == [r \in Ref |-> IF r \in refs THEN "absent" ELSE cred[r]]
RootsPresent == dirs \cap Roots # {}
Leased(r) == \E p \in Process : lease[p] = r

\* A UUID never repeats one in use: a reference is fresh when nothing on disk
\* and no process refers to it.
Unused(r) == /\ home[r] = NoHome /\ cred[r] = "absent" /\ r \notin leaseFile
             /\ ~Leased(r) /\ \A q \in Product : entry[q] # r

\* The gateway of the other product's config entry must be kept.
Compatible(q, g) == \A o \in Product \ {q} : entry[o] # NoRef => g = gateway

\* Under the lock: nothing but transaction.lock in the managed roots.
RootsClean == dirs \cap {"config", "data", "leases"} = {}

\* The live diagnosis of a product, as setup_status reports it.
Diagnose(q) == IF entry[q] = NoRef THEN "unconfigured"
               ELSE IF home[entry[q]].at = "live" /\ cred[entry[q]] = "live"
                    THEN "ready" ELSE "broken"
Diagnosis == [q \in Product |-> Diagnose(q)]

\* The receipt of a committed transaction: the diagnosis made before it, but
\* for the product it was about.
Receipt(p) == [job[p].diag EXCEPT ![job[p].product] =
                 IF job[p].op = "setup" THEN "ready" ELSE "unconfigured"]

\* The references a revoke of q must hold exclusively: the committed one and
\* every generation or lease file named after the product.
RefsToProbe(q) == {r \in Refs(q) : entry[q] = r \/ home[r].at = "live" \/ r \in leaseFile}

\* BUG: a lease file is taken to mean that nobody runs the generation any more.
BusyNever(refs) == FALSE
\* try_lock_exclusive fails on a lease that some process holds shared.
Busy(refs) == \E r \in refs \cap leaseFile : Leased(r)

\* BUG: a blocking lock_exclusive, which returns once the client has exited.
ProbeBlocks(refs) == ~Busy(refs)
\* The probe returns at once, with Acquired, Missing or Busy.
ProbeReturns(refs) == TRUE

\* BUG: the product in the file names is not looked at.
CredsOfAllProducts(q) == {r \in Ref : cred[r] = "live"}
\* The credentials a revoke of q quarantines before any home, and the homes.
CredsToMove(q) == {r \in Refs(q) : cred[r] = "live"}
HomesToMove(q) == {r \in Refs(q) : home[r].at = "live"}
Quarantined(q) == {r \in Refs(q) : cred[r] = "quarantined" \/ home[r].at = "quarantined"}

(***************************************************************************)
(* Outside the lock.                                                       *)
(***************************************************************************)
\* provision: the gateway is checked under the read lock, then the bootstrap
\* is fetched over the network with no lock at all.
Precheck(p, q, g) ==
    /\ pc[p] = "idle"
    /\ RootsPresent => /\ lock = Nobody
                       /\ gateway # NoGateway
                       /\ Compatible(q, g)
    /\ job' = [job EXCEPT ![p] = Request("setup", q, g)]
    /\ Goto(p, "fetching")
    /\ UNCHANGED <<files, lease, excl, lock>>

\* setup_product: the roots are inspected before the lock is waited for.
InspectRoots(p) ==
    /\ pc[p] = "fetching"
    /\ job' = [job EXCEPT ![p].before = dirs \cap Roots]
    /\ Goto(p, "waiting")
    /\ UNCHANGED <<files, lease, excl, lock>>

\* The network, or an invalid bootstrap, ends the provision.
FetchFails(p) ==
    /\ pc[p] = "fetching"
    /\ job' = [job EXCEPT ![p] = NoJob]
    /\ Goto(p, "idle")
    /\ UNCHANGED <<files, lease, excl, lock>>

\* revoke returns at once when no root exists; a launch never looks.
BeginRevoke(p, q) ==
    /\ pc[p] = "idle"
    /\ RootsPresent
    /\ job' = [job EXCEPT ![p] = Request("revoke", q, NoGateway)]
    /\ Goto(p, "waiting")
    /\ UNCHANGED <<files, lease, excl, lock>>

BeginRevokeAll(p) ==
    /\ pc[p] = "idle"
    /\ RootsPresent
    /\ job' = [job EXCEPT ![p] = Request("revokeAll", NoRef, NoGateway)]
    /\ Goto(p, "waiting")
    /\ UNCHANGED <<files, lease, excl, lock>>

BeginLaunch(p, q) ==
    /\ pc[p] = "idle"
    /\ job' = [job EXCEPT ![p] = Request("launch", q, NoGateway)]
    /\ Goto(p, "waiting")
    /\ UNCHANGED <<files, lease, excl, lock>>

\* TransactionLock::acquire creates the state root for transaction.lock.
Acquire(p) ==
    /\ pc[p] = "waiting"
    /\ lock = Nobody
    /\ lock' = p
    /\ dirs' = dirs \cup {"state"}
    /\ Goto(p, "locked")
    /\ UNCHANGED <<entry, gateway, home, cred, leaseFile, lease, excl, job>>

\* The locals are dropped in reverse order: leases first, the lock last.
Release(p) ==
    /\ pc[p] = "done"
    /\ lock' = Nobody
    /\ excl' = {}
    /\ lease' = [lease EXCEPT ![p] = NoRef]
    /\ job' = [job EXCEPT ![p] = NoJob]
    /\ Goto(p, "idle")
    /\ UNCHANGED files

\* An error before anything was done: the state root stays where it is.
FailEarly(p) ==
    /\ pc[p] = "locked"
    /\ Goto(p, "done")
    /\ UNCHANGED <<files, lease, excl, lock, job>>

(***************************************************************************)
(* Setup of a product.                                                     *)
(***************************************************************************)
\* BUG: the comparison provision made before the fetch is relied on.
MayInstallPrechecked(p) == gateway # NoGateway \/ (job[p].before = {} /\ RootsClean)
\* With a config the gateways must agree; without one the roots must have
\* been absent before the lock, and be clean under it.
MayInstall(p) ==
    IF gateway # NoGateway THEN Compatible(job[p].product, job[p].gateway)
    ELSE job[p].before = {} /\ RootsClean

CheckSetup(p) ==
    /\ pc[p] = "locked" /\ job[p].op = "setup"
    /\ MayInstall(p)
    /\ job' = [job EXCEPT ![p].diag = Diagnosis]
    /\ Goto(p, "checked")
    /\ UNCHANGED <<files, lease, excl, lock>>

\* A setup refused for lack of a config removes the state root it created.
StateRootIsNew(p) == gateway = NoGateway /\ "state" \notin job[p].before
                                         /\ "leases" \notin dirs
RefuseSetup(p) ==
    /\ pc[p] = "locked" /\ job[p].op = "setup"
    /\ ~MayInstall(p)
    /\ dirs' \in IF StateRootIsNew(p) THEN BestEffort(dirs, dirs \ {"state"}) ELSE {dirs}
    /\ Goto(p, "done")
    /\ UNCHANGED <<entry, gateway, home, cred, leaseFile, lease, excl, lock, job>>

\* The roots and the staging directory are created and the home is written
\* and validated in it.
Stage(p, r) ==
    /\ pc[p] = "checked" /\ job[p].op = "setup"
    /\ r \in Refs(job[p].product) /\ Unused(r)
    /\ dirs' = dirs \cup Roots
    /\ home' = [home EXCEPT ![r] = [at |-> "staged", for |-> job[p].gateway]]
    /\ job' = [job EXCEPT ![p].ref = r]
    /\ Goto(p, "staged")
    /\ UNCHANGED <<entry, gateway, cred, leaseFile, lease, excl, lock>>

Promote(p) ==
    /\ pc[p] = "staged"
    /\ home' = [home EXCEPT ![job[p].ref].at = "live"]
    /\ Goto(p, "promoted")
    /\ UNCHANGED <<dirs, entry, gateway, cred, leaseFile, lease, excl, lock, job>>

SaveCredential(p) ==
    /\ pc[p] = "promoted"
    /\ cred' = [cred EXCEPT ![job[p].ref] = "live"]
    /\ Goto(p, "saved")
    /\ UNCHANGED <<dirs, entry, gateway, home, leaseFile, lease, excl, lock, job>>

\* config.json is replaced atomically: the new reference and the gateway.
\* From here on job[p].ref is the reference this setup replaced.
CommitSetup(p) ==
    /\ pc[p] = "saved"
    /\ entry' = [entry EXCEPT ![job[p].product] = job[p].ref]
    /\ gateway' = job[p].gateway
    /\ job' = [job EXCEPT ![p].ref = entry[job[p].product]]
    /\ Goto(p, "retiring")
    /\ UNCHANGED <<dirs, home, cred, leaseFile, lease, excl, lock>>

\* The replaced credential goes, whether or not its generation is leased.
RetireCredential(p) ==
    /\ pc[p] = "retiring"
    /\ cred' \in BestEffort(cred, CredWithout({job[p].ref}))
    /\ Goto(p, "retiringHome")
    /\ UNCHANGED <<dirs, entry, gateway, home, leaseFile, lease, excl, lock, job>>

\* BUG: the replaced generation is removed under the client that runs it.
RetirableIgnoringLease(r) == TRUE
\* cleanup_generation: only a generation whose lease is missing or free.
Retirable(r) == ~Busy({r})

RetireHome(p) ==
    /\ pc[p] = "retiringHome"
    /\ IF Retirable(job[p].ref)
       THEN /\ home' \in BestEffort(home, HomeWithout({job[p].ref}))
            /\ leaseFile' \in BestEffort(leaseFile, leaseFile \ {job[p].ref})
       ELSE UNCHANGED <<home, leaseFile>>
    /\ Goto(p, "done")
    /\ UNCHANGED <<dirs, entry, gateway, cred, lease, excl, lock, job>>

\* BUG: every failed setup believes that it was the first.
FirstSetupAlways == TRUE
FirstSetup == gateway = NoGateway

\* BUG: the promoted generation outlives the setup that failed.
PendingForgotten(p) == home
\* The drop guards of the staged and of the promoted generation.
PendingDropped(p) == HomeWithout({job[p].ref})

\* An error before the commit: the home and the saved credential go, and the
\* roots with them when the setup was the first.
FailSetup(p) ==
    /\ pc[p] \in Undoable /\ job[p].op = "setup"
    /\ home' \in BestEffort(home, PendingDropped(p))
    /\ cred' \in BestEffort(cred, CredWithout({job[p].ref}))
    /\ Goto(p, IF FirstSetup THEN "dropConfig" ELSE "done")
    /\ UNCHANGED <<dirs, entry, gateway, leaseFile, lease, excl, lock, job>>

(***************************************************************************)
(* Revoke of a product.                                                    *)
(***************************************************************************)
\* The leases are probed without waiting; one busy lease refuses the revoke.
ProbeRevoke(p) ==
    /\ pc[p] = "locked" /\ job[p].op = "revoke"
    /\ LET refs == RefsToProbe(job[p].product) IN
         /\ ProbeReturns(refs)
         /\ IF Busy(refs)
            THEN Goto(p, "done") /\ UNCHANGED <<excl, job>>
            ELSE /\ excl' = refs \cap leaseFile
                 /\ job' = [job EXCEPT ![p].diag = Diagnosis]
                 /\ Goto(p, "purging")
    /\ UNCHANGED <<files, lease, lock>>

\* What earlier, interrupted revokes of the product left is deleted first,
\* what this one quarantined after its commit.
PurgeQuarantine(p) ==
    /\ pc[p] \in {"purging", "purgingOwn"}
    /\ \E r \in Quarantined(job[p].product) :
         \/ cred[r] = "quarantined" /\ cred' = CredWithout({r}) /\ UNCHANGED home
         \/ home[r].at = "quarantined" /\ home' = HomeWithout({r}) /\ UNCHANGED cred
    /\ UNCHANGED <<dirs, entry, gateway, leaseFile, lease, excl, lock, pc, job>>

PurgedPrevious(p) ==
    /\ pc[p] = "purging"
    /\ Quarantined(job[p].product) = {}
    /\ Goto(p, "moving")
    /\ UNCHANGED <<files, lease, excl, lock, job>>

\* The paths are moved in order: the credentials, then the generations.
MoveCredential(p) ==
    /\ pc[p] = "moving"
    /\ \E r \in CredsToMove(job[p].product) : cred' = [cred EXCEPT ![r] = "quarantined"]
    /\ UNCHANGED <<dirs, entry, gateway, home, leaseFile, lease, excl, lock, pc, job>>

MoveHome(p) ==
    /\ pc[p] = "moving"
    /\ CredsToMove(job[p].product) = {}
    /\ \E r \in HomesToMove(job[p].product) : home' = [home EXCEPT ![r].at = "quarantined"]
    /\ UNCHANGED <<dirs, entry, gateway, cred, leaseFile, lease, excl, lock, pc, job>>

AllMoved(q) == CredsToMove(q) = {} /\ HomesToMove(q) = {}

\* config.json is replaced, or removed with its last product.
CommitRevoke(p) ==
    /\ pc[p] = "moving"
    /\ AllMoved(job[p].product)
    /\ entry' = [entry EXCEPT ![job[p].product] = NoRef]
    /\ gateway' = IF \A q \in Product : entry'[q] = NoRef THEN NoGateway ELSE gateway
    /\ Goto(p, "purgingOwn")
    /\ UNCHANGED <<dirs, home, cred, leaseFile, lease, excl, lock, job>>

\* After the commit a removal that fails is left to the next revoke.
PurgedOwn(p) ==
    /\ pc[p] = "purgingOwn"
    /\ Quarantined(job[p].product) = {} \/ RemovalMayFail
    /\ Goto(p, "dropping")
    /\ UNCHANGED <<files, lease, excl, lock, job>>

DropLeases(p) ==
    /\ pc[p] = "dropping"
    /\ leaseFile' \in BestEffort(leaseFile, leaseFile \ excl)
    /\ excl' = {}
    /\ Goto(p, "pruning")
    /\ UNCHANGED <<dirs, entry, gateway, home, cred, lease, lock, job>>

\* Only empty directories are pruned; the state root is empty once the lock
\* file is alone in it.
EmptyDirs == {d \in dirs : CASE d = "config" -> gateway = NoGateway
                             [] d = "data" -> \A r \in Ref : home[r] = NoHome /\ cred[r] = "absent"
                             [] OTHER -> leaseFile = {}}
Prune(p) ==
    /\ pc[p] = "pruning"
    /\ dirs' \in BestEffort(dirs, dirs \ EmptyDirs)
    /\ Goto(p, "done")
    /\ UNCHANGED <<entry, gateway, home, cred, leaseFile, lease, excl, lock, job>>

CredRolledBack(q) == [r \in Ref |-> IF r \in Refs(q) /\ cred[r] = "quarantined"
                                    THEN "live" ELSE cred[r]]
HomeRolledBack(q) == [r \in Ref |-> IF r \in Refs(q) /\ home[r].at = "quarantined"
                                    THEN [home[r] EXCEPT !.at = "live"] ELSE home[r]]

\* An error before the commit: what was moved is moved back.  While the
\* earlier quarantines are being purged nothing has been moved yet.
FailRevoke(p) ==
    /\ pc[p] \in Undoable /\ job[p].op = "revoke"
    /\ IF pc[p] = "moving"
       THEN /\ cred' = CredRolledBack(job[p].product)
            /\ home' = HomeRolledBack(job[p].product)
       ELSE UNCHANGED <<cred, home>>
    /\ Goto(p, "done")
    /\ UNCHANGED <<dirs, entry, gateway, leaseFile, lease, excl, lock, job>>

(***************************************************************************)
(* Revoke of everything, and the removal of the roots it shares with a     *)
(* first setup that failed.                                                *)
(***************************************************************************)
ProbeRevokeAll(p) ==
    /\ pc[p] = "locked" /\ job[p].op = "revokeAll"
    /\ ProbeReturns(leaseFile)
    /\ IF Busy(leaseFile)
       THEN Goto(p, "done") /\ UNCHANGED excl
       ELSE Goto(p, "dropConfig") /\ excl' = leaseFile
    /\ UNCHANGED <<files, lease, lock, job>>

\* A removal that fails ends a revoke, and is ignored by a failed setup.
DropFails(p, next) ==
    /\ RemovalMayFail
    /\ Goto(p, IF job[p].op = "setup" THEN next ELSE "done")
    /\ UNCHANGED <<files, excl>>

DropConfigRoot(p) ==
    /\ pc[p] = "dropConfig"
    /\ \/ /\ entry' = [q \in Product |-> NoRef]
          /\ gateway' = NoGateway
          /\ dirs' = dirs \ {"config"}
          /\ Goto(p, "dropData")
          /\ UNCHANGED <<home, cred, leaseFile, excl>>
       \/ DropFails(p, "dropData")
    /\ UNCHANGED <<lease, lock, job>>

DropDataRoot(p) ==
    /\ pc[p] = "dropData"
    /\ \/ /\ home' = HomeWithout(Ref)
          /\ cred' = CredWithout(Ref)
          /\ dirs' = dirs \ {"data"}
          /\ Goto(p, "dropState")
          /\ UNCHANGED <<entry, gateway, leaseFile, excl>>
       \/ DropFails(p, "dropState")
    /\ UNCHANGED <<lease, lock, job>>

DropStateRoot(p) ==
    /\ pc[p] = "dropState"
    /\ \/ /\ leaseFile' = {}
          /\ excl' = {}
          /\ dirs' = dirs \ {"state", "leases"}
          /\ Goto(p, "done")
          /\ UNCHANGED <<entry, gateway, home, cred>>
       \/ DropFails(p, "done")
    /\ UNCHANGED <<lease, lock, job>>

(***************************************************************************)
(* Launch of a client from a committed product.                            *)
(***************************************************************************)
Configured(q) == entry[q] # NoRef

\* One snapshot under the lock: the reference with the gateway it goes with,
\* and a shared lease on it.
TakeLease(p) ==
    /\ pc[p] = "locked" /\ job[p].op = "launch"
    /\ Configured(job[p].product)
    /\ leaseFile' = leaseFile \cup {entry[job[p].product]}
    /\ dirs' = dirs \cup {"leases"}
    /\ lease' = [lease EXCEPT ![p] = entry[job[p].product]]
    /\ job' = [job EXCEPT ![p].gateway = gateway]
    /\ Goto(p, "validating")
    /\ UNCHANGED <<entry, gateway, home, cred, excl, lock>>

RefuseLaunch(p) ==
    /\ pc[p] = "locked" /\ job[p].op = "launch"
    /\ ~Configured(job[p].product)
    /\ Goto(p, "done")
    /\ UNCHANGED <<files, lease, excl, lock, job>>

Launchable(r) == home[r].at = "live" /\ cred[r] = "live"

\* The lock is released; the lease outlives it for as long as the client runs.
Launch(p) ==
    /\ pc[p] = "validating"
    /\ Launchable(lease[p])
    /\ lock' = Nobody
    /\ job' = [job EXCEPT ![p] = Request("none", NoRef, job[p].gateway)]
    /\ Goto(p, "running")
    /\ UNCHANGED <<files, lease, excl>>

\* An invalid home, a missing credential or an I/O error.
FailLaunch(p) ==
    /\ pc[p] = "validating"
    /\ Goto(p, "done")
    /\ UNCHANGED <<files, lease, excl, lock, job>>

Exit(p) ==
    /\ pc[p] = "running"
    /\ lease' = [lease EXCEPT ![p] = NoRef]
    /\ job' = [job EXCEPT ![p] = NoJob]
    /\ Goto(p, "idle")
    /\ UNCHANGED <<files, excl, lock>>

\* The process dies: the kernel drops its locks, the files stay.
Crash(p) ==
    /\ MayCrash
    /\ pc[p] # "idle"
    /\ IF lock = p THEN lock' = Nobody /\ excl' = {} ELSE UNCHANGED <<lock, excl>>
    /\ lease' = [lease EXCEPT ![p] = NoRef]
    /\ job' = [job EXCEPT ![p] = NoJob]
    /\ Goto(p, "idle")
    /\ UNCHANGED files

\* The steps of the lock's owner.
SetupStep(p) == \/ CheckSetup(p) \/ RefuseSetup(p) \/ \E r \in Ref : Stage(p, r)
                \/ Promote(p) \/ SaveCredential(p) \/ CommitSetup(p)
                \/ RetireCredential(p) \/ RetireHome(p)
RevokeStep(p) == \/ ProbeRevoke(p) \/ PurgeQuarantine(p) \/ PurgedPrevious(p)
                 \/ MoveCredential(p) \/ MoveHome(p) \/ CommitRevoke(p)
                 \/ PurgedOwn(p) \/ DropLeases(p) \/ Prune(p)
RevokeAllStep(p) == \/ ProbeRevokeAll(p)
                    \/ DropConfigRoot(p) \/ DropDataRoot(p) \/ DropStateRoot(p)
LaunchStep(p) == RefuseLaunch(p) \/ TakeLease(p) \/ Launch(p) \/ FailLaunch(p)
Fail(p) == FailEarly(p) \/ FailSetup(p) \/ FailRevoke(p)
OwnerStep(p) == \/ SetupStep(p) \/ RevokeStep(p) \/ RevokeAllStep(p)
                \/ LaunchStep(p) \/ Release(p)
Begin(p) == \/ \E q \in Product, g \in Gateway : Precheck(p, q, g)
            \/ \E q \in Product : BeginRevoke(p, q) \/ BeginLaunch(p, q)
            \/ BeginRevokeAll(p)
Outer(p) == Begin(p) \/ InspectRoots(p) \/ FetchFails(p) \/ Acquire(p) \/ Exit(p) \/ Crash(p)

Next == \E p \in Process : Outer(p) \/ OwnerStep(p) \/ Fail(p)

\* Fairness: a process that owns the lock keeps going, without counting on an
\* I/O error to end its transaction.  The bound on identifiers is the
\* instance's: a setup that finds none left counts as failed.  Nothing is
\* assumed of the processes outside the lock: a client may run for ever, and
\* the flock need not be fair.
IdentifiersUsedUp(p) == \A r \in Refs(job[p].product) : ~Unused(r)
ProgressStep(p) == OwnerStep(p) \/ (FailSetup(p) /\ IdentifiersUsedUp(p))
Spec == Init /\ [][Next]_vars
FairSpec == Spec /\ \A p \in Process : WF_vars(ProgressStep(p))

(***************************************************************************)
(* Properties.                                                             *)
(***************************************************************************)
TypeOK ==
    /\ dirs \subseteq Roots \cup {"leases"}
    /\ entry \in [Product -> Ref \cup {NoRef}]
    /\ gateway \in Gateway \cup {NoGateway}
    /\ home \in [Ref -> [at : Place, for : Gateway \cup {NoGateway}]]
    /\ cred \in [Ref -> {"absent", "live", "quarantined"}]
    /\ leaseFile \subseteq Ref
    /\ lease \in [Process -> Ref \cup {NoRef}]
    /\ excl \subseteq Ref
    /\ lock \in Process \cup {Nobody}
    /\ pc \in [Process -> Inside \cup Outside]
    /\ job \in [Process -> [op : {"none", "setup", "revoke", "revokeAll", "launch"},
                            product : Product \cup {NoRef},
                            gateway : Gateway \cup {NoGateway},
                            before : SUBSET Roots,
                            ref : Ref \cup {NoRef},
                            diag : [Product -> State]]]

\* A product is complete when what config.json refers to is all there.
Complete(q) == Diagnose(q) = "ready"

\* A launched client keeps its home, and its lease file, until it exits,
\* whatever setups, revokes and crashes of other processes happen meanwhile
\* (lease.rs: "preventing setup or revoke from deleting that process's
\* managed home underneath it").
RunningClientKeepsHome ==
    \A p \in Process : pc[p] = "running" => /\ home[lease[p]].at = "live"
                                            /\ lease[p] \in leaseFile

\* Every committed home, and every home a client runs, was built for the
\* gateway it is used with: neither a stale precheck of provision nor a
\* concurrent setup mixes the gateway of one setup with the home of another.
HomeMatchesGateway ==
    /\ \A q \in Product : entry[q] # NoRef /\ home[entry[q]] # NoHome
                          => home[entry[q]].for = gateway
    /\ \A p \in Process : pc[p] = "running" => home[lease[p]].for = job[p].gateway

\* From the commit until the lock is released, the receipt a setup or revoke
\* will return is the live diagnosis of the committed config, although it was
\* put together before the transaction did anything.
ReceiptIsTrue ==
    \A p \in Process : pc[p] \in Committed /\ lock = p => Receipt(p) = Diagnosis

\* A complete product stops being complete only in a revoke of that product
\* or of everything, which owns the lock: no setup, failed or crashed, no
\* revoke of the other product and no launch ever damages it.
BreaksByRevoke ==
    \A q \in Product : Complete(q) /\ ~Complete(q)' =>
        \E p \in Process : /\ lock = p
                           /\ \/ job[p].op = "revoke" /\ job[p].product = q
                              \/ job[p].op = "revokeAll"

\* A first setup commits only on clean ground: at the commit the managed
\* roots hold the new home and credential and nothing else, however long ago
\* the roots were inspected.
FirstFindsCleanGround ==
    gateway = NoGateway /\ gateway' # NoGateway =>
        \E q \in Product :
           \A r \in Ref \ {entry'[q]} : /\ home'[r] = NoHome
                                        /\ cred'[r] = "absent"
                                        /\ r \notin leaseFile'

\* What a committed product needs disappears by a revoke that includes it, and by nothing else
\* that other processes do, fail at or leave behind.
OnlyARevokeTakesAway == [][BreaksByRevoke /\ FirstFindsCleanGround]_vars

\* A product revoke that reports success leaves no home and no credential of
\* the product to use, orphans of crashed and replaced setups included, and no
\* process still holds a lease on any of its generations.
RevokedProductIsGone ==
    \A p \in Process : pc[p] \in Committed /\ job[p].op = "revoke" =>
        \A r \in Refs(job[p].product) : /\ home[r].at # "live"
                                        /\ cred[r] # "live"
                                        /\ ~Leased(r)

\* What a transaction will report is so when it has committed.
CommitsAreTrue == ReceiptIsTrue /\ RevokedProductIsGone

\* A transaction never waits for a client: its lock is always released, even
\* when a client holds its lease for ever.
TransactionsEnd == []<>(lock = Nobody)

(***************************************************************************)
(* The inductive invariant behind RunningClientKeepsHome.                  *)
(***************************************************************************)
SetupSteps == {"checked", "staged", "promoted", "saved", "retiring", "retiringHome"}
Building == {"staged", "promoted", "saved"}
RevokeSteps == {"purging", "moving", "purgingOwn", "dropping", "pruning"}
HoldsNoRef == {"fetching", "waiting", "locked", "checked"}

\* What a process does agrees with what it was asked for.
Agrees(j, step) ==
    /\ j.op \in {"setup", "revoke", "launch"} => j.product \in Product
    /\ step \in SetupSteps => j.op = "setup"
    /\ step \in RevokeSteps => j.op = "revoke"
    /\ step \in HoldsNoRef => j.ref = NoRef
    /\ step \in Building => j.ref \in Ref
JobOK == \A p \in Process : Agrees(job[p], pc[p])

\* One process at a time is inside a transaction: the lock's owner.  Only a
\* revoke that has probed the leases holds any of them exclusively.
OwnerOK == /\ \A p \in Process : pc[p] \in Inside <=> lock = p
           /\ lock = Nobody => excl = {}
           /\ \A p \in Process : pc[p] \in {"locked", "validating"} => excl = {}

\* A lease is held by a client, or by the launch that owns the lock.
LeaseHeld == /\ leaseFile # {} => "leases" \in dirs
             /\ \A p \in Process : lease[p] # NoRef => pc[p] \in {"running", "validating", "done"}
             /\ \A p \in Process : pc[p] \in {"running", "validating"} => lease[p] \in leaseFile

\* What a transaction may remove, nobody leases: the home it builds, the
\* product it revokes, everything once it drops the roots.
NobodyLeases == \A r \in Ref : ~Leased(r)
RemovableUnleased ==
    /\ \A r \in excl : ~Leased(r)
    /\ \A p \in Process :
         /\ pc[p] \in Building => ~Leased(job[p].ref)
         /\ pc[p] \in RevokeSteps => \A r \in Refs(job[p].product) : ~Leased(r)
         /\ pc[p] \in Building \cup {"checked"} /\ gateway = NoGateway => NobodyLeases
         /\ pc[p] \in Dropping => NobodyLeases

\* The leases protect running clients inductively: whatever the lock's owner
\* may still remove is leased by nobody, and a leased home stays.
LeaseInvariant == OwnerOK /\ LeaseHeld /\ RemovableUnleased /\ RunningClientKeepsHome

(***************************************************************************)
(* The inductive invariant behind HomeMatchesGateway and the refinement.   *)
(***************************************************************************)
\* config.json lists a product as long as it exists.
ConfigOK == gateway = NoGateway <=> \A q \in Product : entry[q] = NoRef

\* A setup that passed its check may still commit its gateway, and a launch
\* still looks at the config it took its lease from.
GatewayKept ==
    \A p \in Process :
        /\ job[p].op = "setup" => job[p].gateway \in Gateway
        /\ pc[p] \in Building \cup {"checked"} => Compatible(job[p].product, job[p].gateway)
        /\ pc[p] \in Building => /\ job[p].ref \in Refs(job[p].product)
                                 /\ home[job[p].ref].for = job[p].gateway
        /\ pc[p] = "validating" => /\ lease[p] = entry[job[p].product]
                                   /\ job[p].gateway = gateway
                                   /\ job[p].op = "launch"

\* The gateway checked under the lock is still the right one at the commit,
\* and every home in use was built for the gateway it is used with.
GatewayInvariant == ConfigOK /\ GatewayKept /\ HomeMatchesGateway

(***************************************************************************)
(* The inductive invariant behind CommitsAreTrue and OnlyARevokeTakesAway. *)
(***************************************************************************)
Acting == Undoable \cup Committed \cup Dropping

\* config.json refers to generations of the product they are listed under.
EntriesAreOwn == \A q \in Product : entry[q] \in Refs(q) \cup {NoRef}

\* Homes and credentials are in the data root.
DataInItsRoot == \A r \in Ref : home[r] # NoHome \/ cred[r] # "absent" => "data" \in dirs

\* The diagnosis made under the lock still stands, but for the product of the
\* transaction.
DiagnosisStands(p) ==
    pc[p] \in Undoable \cup Committed =>
        \A q \in Product \ {job[p].product} : Diagnose(q) = job[p].diag[q]

\* The generation a setup builds is no committed one, and is there by the
\* commit.
PendingIsNew(p) ==
    /\ pc[p] \in Building => "data" \in dirs /\ \A q \in Product : entry[q] # job[p].ref
    /\ pc[p] \in {"promoted", "saved"} => home[job[p].ref].at = "live"
    /\ pc[p] = "saved" => cred[job[p].ref] = "live"

\* The generation a setup retires is no committed one any more.
RetiredIsReplaced(p) ==
    pc[p] \in {"retiring", "retiringHome"} =>
        /\ Complete(job[p].product)
        /\ job[p].ref # NoRef => \A q \in Product : entry[q] # job[p].ref

\* What a committed revoke has quarantined does not come back.
RevokedIsGone(p) ==
    pc[p] \in {"purgingOwn", "dropping", "pruning"} =>
        /\ entry[job[p].product] = NoRef
        /\ \A r \in Refs(job[p].product) : home[r].at # "live" /\ cred[r] # "live"

\* A first setup shares the roots with nothing but what it builds.
GroundIsClean(p) ==
    pc[p] \in Building \cup {"checked"} /\ gateway = NoGateway =>
        /\ leaseFile = {}
        /\ \A r \in Ref \ {job[p].ref} : home[r] = NoHome /\ cred[r] = "absent"

\* The roots are dropped by a revoke of everything, or by a first setup.
DropIsTotal(p) ==
    pc[p] \in Dropping => \/ job[p].op = "revokeAll"
                          \/ job[p].op = "setup" /\ gateway = NoGateway

OwnerSound(p) == /\ DiagnosisStands(p) /\ PendingIsNew(p) /\ RetiredIsReplaced(p)
                 /\ RevokedIsGone(p) /\ GroundIsClean(p) /\ DropIsTotal(p)

\* What a transaction found out under the lock holds until its commit, and what it reports
\* until its end.
CommitInvariant == EntriesAreOwn /\ DataInItsRoot /\ \A p \in Process : OwnerSound(p)

(***************************************************************************)
(* The transactions implement Installation: the commit of config.json is   *)
(* the point where a product is installed or removed.                      *)
(***************************************************************************)
session == [p \in Process |-> IF pc[p] = "running"
                              THEN [ref |-> lease[p], gateway |-> job[p].gateway]
                              ELSE NoSession]
Promise == INSTANCE Installation WITH installed <- entry

\* Transactions with their steps, crashes and failing removals implement the promise that
\* products are installed, launched and removed at once.
ImplementsInstallation == Promise!Spec
=============================================================================

---------------------------- MODULE ClientProof ----------------------------
(***************************************************************************)
(* The device records of client proof (saiai-cli/src/client_proof.rs):     *)
(* local proxy processes share one device key and one device file, enrol   *)
(* each credential with a gateway in the background, and sign requests     *)
(* with a credential as long as its record is active.                      *)
(*                                                                         *)
(* One gateway: records of different gateways never meet.  The gateway is  *)
(* external.  It issues one device id per user and public key, so the id   *)
(* in a record is modelled by the key it was issued for; a record without  *)
(* an id and not revoked is one that is not in the file.                   *)
(***************************************************************************)
EXTENDS Naturals, FiniteSets

CONSTANTS Process,      \* local proxy processes
          Credential,   \* API keys (bearers)
          Configured,   \* those of the configured routes
          User,         \* the users of the gateway
          UserOf,       \* the user each credential belongs to
          Key,          \* the device keys that can be generated
          NoKey, Nobody,
          MaxOnDemand   \* MAX_ON_DEMAND_ENROLLMENTS

ASSUME ProofAssumption ==
    /\ Configured \subseteq Credential
    /\ UserOf \in [Credential -> User]
    /\ NoKey \notin Key /\ Nobody \notin Process \X Credential
    /\ MaxOnDemand \in Nat

VARIABLES keyFile,     \* client-device-key: a key, "missing" or "corrupt"
          deviceFile,  \* client-device.json: the key and the records
          fileLock,    \* the owner of client-device.lock
          snapshot,    \* the records the owner of the lock will write
          key,         \* the key each process runs with; NoKey: not running
          mem,         \* the records each process signs from
          claimed,     \* the credentials each process claimed to enrol
          task,        \* the enrolment of each credential in each process
          revoked      \* external: the devices the gateway has revoked

disk == <<keyFile, deviceFile>>
proofVars == <<keyFile, deviceFile, fileLock, snapshot, key, mem, claimed, task,
               revoked>>

Record == [id : Key \cup {NoKey}, revoked : BOOLEAN]
Absent == [id |-> NoKey, revoked |-> FALSE]
NoRecords == [c \in Credential |-> Absent]
Task == [at : {"none", "asking", "told", "merging", "writing", "replacing", "done"},
         told : {"nothing", "active", "revoked"}]
NoTask == [at |-> "none", told |-> "nothing"]
NoTasks == [c \in Credential |-> NoTask]

Init == /\ keyFile = "missing"
        /\ deviceFile = [key |-> NoKey, records |-> NoRecords]
        /\ fileLock = Nobody
        /\ snapshot = NoRecords
        /\ key = [p \in Process |-> NoKey]
        /\ mem = [p \in Process |-> NoRecords]
        /\ claimed = [p \in Process |-> {}]
        /\ task = [p \in Process |-> NoTasks]
        /\ revoked = {}

Running(p) == key[p] # NoKey
Device(p, c) == <<key[p], UserOf[c]>>
Signs(p, c) == Running(p) /\ mem[p][c].id # NoKey /\ ~mem[p][c].revoked

\* BUG: the records of another key are taken for this device's.
RecordsOfAnyKey(k) == deviceFile.records
\* read_device_file: device ids belong to one public key.
RecordsOf(k) == IF deviceFile.key = k THEN deviceFile.records ELSE NoRecords
\* What a process takes the file to say: nothing if it cannot read or parse it.
Readings(k) == {RecordsOf(k), NoRecords}

\* BUG: what the process has in memory is taken to be all there is.
MergedNever(records, other) == records
\* merge_devices: records of other processes are added, revocations too.
Merged(records, other) ==
    [c \in Credential |->
       [id |-> IF records[c].id = NoKey THEN other[c].id ELSE records[c].id,
        revoked |-> records[c].revoked \/ other[c].revoked]]

\* record_revoked: the credential, and all that map to the same device id.
WithRevoked(records, c) ==
    [d \in Credential |->
       IF d = c \/ (/\ records[c].id # NoKey /\ UserOf[d] = UserOf[c]
                    /\ records[d].id = records[c].id)
       THEN [records[d] EXCEPT !.revoked = TRUE] ELSE records[d]]

\* record_device: the id is the one issued for the process's key.
WithDevice(records, c, k) == [records EXCEPT ![c] = [id |-> k, revoked |-> FALSE]]

Changed(p, c, records) == IF task[p][c].told = "revoked" THEN WithRevoked(records, c)
                          ELSE WithDevice(records, c, key[p])

\* enroll returns at once when the record is already known to be revoked.
Started(records, c) == [NoTask EXCEPT !.at = IF records[c].revoked THEN "done" ELSE "asking"]

\* Keys never repeat: a new one is in no file and in no process.
NewKeys == {k \in Key : keyFile # k /\ deviceFile.key # k /\ \A p \in Process : key[p] # k
                        /\ \A u \in User : <<k, u>> \notin revoked}

\* ClientProof::load under the file lock, then the configured routes are
\* claimed before the key is published.  Without its records, if the device
\* file is unreadable.
Load(p) ==
    /\ ~Running(p)
    /\ fileLock = Nobody
    /\ \E k \in IF keyFile \in Key THEN {keyFile} ELSE NewKeys : \E records \in Readings(k) :
         /\ keyFile' = k
         /\ key' = [key EXCEPT ![p] = k]
         /\ mem' = [mem EXCEPT ![p] = records]
         /\ task' = [task EXCEPT ![p] = [c \in Credential |->
                        IF c \in Configured THEN Started(records, c) ELSE NoTask]]
    /\ claimed' = [claimed EXCEPT ![p] = Configured]
    /\ UNCHANGED <<deviceFile, fileLock, snapshot, revoked>>

\* claim_enrollment: once per bearer and process, and a bounded number of
\* bearers that no route is configured with.
MayClaim(p, c) == /\ ~mem[p][c].revoked
                  /\ c \notin claimed[p]
                  /\ Cardinality(claimed[p] \ Configured) < MaxOnDemand

\* A forwarded request carries a bearer this process has not enrolled yet.
ClaimOnDemand(p, c) ==
    /\ Running(p)
    /\ MayClaim(p, c)
    /\ claimed' = [claimed EXCEPT ![p] = @ \cup {c}]
    /\ task' = [task EXCEPT ![p][c] = Started(mem[p], c)]
    /\ UNCHANGED <<disk, fileLock, snapshot, key, mem, revoked>>

\* The gateway answers 200 or 403; errors worth a retry leave the task asking.
Answer(p, c) ==
    /\ task[p][c].at = "asking"
    /\ task' = [task EXCEPT ![p][c] =
                  [at |-> "told",
                   told |-> IF Device(p, c) \in revoked THEN "revoked" ELSE "active"]]
    /\ UNCHANGED <<disk, fileLock, snapshot, key, mem, claimed, revoked>>

\* 429 and permanent errors end the enrolment and leave the record.
StopEnrolling(p, c) ==
    /\ task[p][c].at = "asking"
    /\ task' = [task EXCEPT ![p][c].at = "done"]
    /\ UNCHANGED <<disk, fileLock, snapshot, key, mem, claimed, revoked>>

LockFiles(p, c) ==
    /\ task[p][c].at = "told"
    /\ fileLock = Nobody
    /\ fileLock' = <<p, c>>
    /\ task' = [task EXCEPT ![p][c].at = "merging"]
    /\ UNCHANGED <<disk, snapshot, key, mem, claimed, revoked>>

\* Without the lock the change is made in memory and not on disk.
LockFails(p, c) ==
    /\ task[p][c].at = "told"
    /\ mem' = [mem EXCEPT ![p] = Changed(p, c, mem[p])]
    /\ task' = [task EXCEPT ![p][c].at = "done"]
    /\ UNCHANGED <<disk, fileLock, snapshot, key, claimed, revoked>>

\* The file was read under the lock; the memory lock is taken after it.
MergeFile(p, c) ==
    /\ task[p][c].at = "merging"
    /\ mem' = [mem EXCEPT ![p] = Changed(p, c, Merged(mem[p], RecordsOf(key[p])))]
    /\ snapshot' = mem'[p]
    /\ task' = [task EXCEPT ![p][c].at = "writing"]
    /\ UNCHANGED <<disk, fileLock, key, claimed, revoked>>

\* An unreadable file is merged like an empty one, and replaced all the same.
MergeNothing(p, c) ==
    /\ task[p][c].at = "merging"
    /\ mem' = [mem EXCEPT ![p] = Changed(p, c, Merged(mem[p], NoRecords))]
    /\ snapshot' = mem'[p]
    /\ task' = [task EXCEPT ![p][c].at = "replacing"]
    /\ UNCHANGED <<disk, fileLock, key, claimed, revoked>>

WriteFile(p, c) ==
    /\ task[p][c].at \in {"writing", "replacing"}
    /\ deviceFile' \in {deviceFile, [key |-> key[p], records |-> snapshot]}
    /\ fileLock' = Nobody
    /\ snapshot' = NoRecords
    /\ task' = [task EXCEPT ![p][c].at = "done"]
    /\ UNCHANGED <<keyFile, key, mem, claimed, revoked>>

\* A process ends, or crashes, at any step; the kernel drops its lock.
Stop(p) ==
    /\ Running(p)
    /\ key' = [key EXCEPT ![p] = NoKey]
    /\ mem' = [mem EXCEPT ![p] = NoRecords]
    /\ claimed' = [claimed EXCEPT ![p] = {}]
    /\ task' = [task EXCEPT ![p] = NoTasks]
    /\ IF \E c \in Credential : fileLock = <<p, c>>
       THEN fileLock' = Nobody /\ snapshot' = NoRecords
       ELSE UNCHANGED <<fileLock, snapshot>>
    /\ UNCHANGED <<disk, revoked>>

\* External: the key file is damaged; the user's devices are revoked.
DamageKey == /\ keyFile \in Key
             /\ keyFile' = "corrupt"
             /\ UNCHANGED <<deviceFile, fileLock, snapshot, key, mem, claimed, task,
                            revoked>>
RevokeDevice(k, u) == /\ <<k, u>> \notin revoked
                      /\ \/ keyFile = k
                         \/ \E p \in Process : key[p] = k
                      /\ revoked' = revoked \cup {<<k, u>>}
                      /\ UNCHANGED <<disk, fileLock, snapshot, key, mem, claimed, task>>

Settle(p, c) == \/ LockFiles(p, c) \/ LockFails(p, c)
                \/ MergeFile(p, c) \/ MergeNothing(p, c) \/ WriteFile(p, c)
Next == \/ \E p \in Process :
             \/ Load(p) \/ Stop(p)
             \/ \E c \in Credential : \/ ClaimOnDemand(p, c) \/ Answer(p, c)
                                      \/ StopEnrolling(p, c) \/ Settle(p, c)
        \/ DamageKey
        \/ \E k \in Key, u \in User : RevokeDevice(k, u)

Spec == Init /\ [][Next]_proofVars

(***************************************************************************)
(* Properties.                                                             *)
(***************************************************************************)
TypeOK ==
    /\ keyFile \in Key \cup {"missing", "corrupt"}
    /\ deviceFile \in [key : Key \cup {NoKey}, records : [Credential -> Record]]
    /\ fileLock \in (Process \X Credential) \cup {Nobody}
    /\ snapshot \in [Credential -> Record]
    /\ key \in [Process -> Key \cup {NoKey}]
    /\ mem \in [Process -> [Credential -> Record]]
    /\ claimed \in [Process -> SUBSET Credential]
    /\ task \in [Process -> [Credential -> Task]]
    /\ revoked \subseteq Key \X User

\* A process signs only with device ids issued for its own key, even when
\* processes with different keys take turns writing the device file.
SignsOnlyAsItself ==
    \A p \in Process, c \in Credential : mem[p][c].id \in {NoKey, key[p]}

\* No update is lost: a write of the device file by a process with the same
\* key keeps every device id that was in it.  The code excepts a writer that
\* could not read the file (client_proof.rs:521): it replaces the file by what
\* it knows.
ReplacesUnread == \E p \in Process, c \in Credential : task[p][c].at = "replacing"
KeepsDeviceIds ==
    deviceFile'.key = deviceFile.key /\ ~ReplacesUnread =>
        \A c \in Credential : deviceFile.records[c].id # NoKey =>
            deviceFile'.records[c].id = deviceFile.records[c].id

\* A revocation that a process knows of is taken back in it by one thing only:
\* the record of an answer that the Gateway gave to the enrolment of the same
\* credential before (record_device after record_revoked, client_proof.rs:487).
\* In the file, by the same, and by a writer that could not read it.
LateAnswer(p, c) == /\ task[p][c].told = "active"
                    /\ task[p][c].at \in {"told", "merging", "writing", "replacing"}
RevocationsStay ==
    /\ \A p \in Process, c \in Credential :
          mem[p][c].revoked /\ key'[p] # NoKey => mem'[p][c].revoked \/ LateAnswer(p, c)
    /\ deviceFile'.key = deviceFile.key /\ ~ReplacesUnread =>
          \A c \in Credential : deviceFile.records[c].revoked =>
             deviceFile'.records[c].revoked \/ \E p \in Process : LateAnswer(p, c)

\* A process that was told of the revocation for a credential, and recorded
\* it, never signs with that credential again: there is no late answer then,
\* as a credential is enrolled once per process.
RevocationIsFinal ==
    \A p \in Process, c \in Credential :
        key'[p] # NoKey /\ task[p][c] = [at |-> "done", told |-> "revoked"] => ~Signs(p, c)'

KeepsTheRecords == KeepsDeviceIds /\ RevocationsStay /\ RevocationIsFinal
=============================================================================

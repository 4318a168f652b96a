--------------------------- MODULE IdentityProofs ---------------------------
(***************************************************************************)
(* Proofs about who leaves the machine, for every set of processes,        *)
(* credentials, users and keys, every request with any number of headers,  *)
(* and every proxy configuration with lists of any length.  The device     *)
(* records: a process signs only as its own device, no write of the device *)
(* file loses a device id, and a revocation that a process was told of is  *)
(* final for it.  One request: what leaves for it names one identity, the  *)
(* one the proof was made for, by a route that was configured or not at    *)
(* all.  One Desktop: what is answered in place of the hosted services is  *)
(* of its own account, takes no write and does not leave.                  *)
(***************************************************************************)
EXTENDS MCIdentity, WellFoundedInduction, TLAPS

(***************************************************************************)
(* Device records (ClientProof).                                           *)
(***************************************************************************)
Records == [Credential -> Record]

\* Records whose device ids were issued for one key.
IssuedFor(records, k) == \A c \in Credential : records[c].id \in {NoKey, k}

\* Only the owner of the lock is between reading the device file and writing it.
Writing == {"writing", "replacing"}
Owning == {"merging"} \cup Writing
OwnsTheLock == \A p \in Process, c \in Credential : task[p][c].at \in Owning => fileLock = <<p, c>>
\* Whoever holds records, holds its own.
AllIssued == /\ SignsOnlyAsItself
             /\ IssuedFor(deviceFile.records, deviceFile.key)
             /\ \A p \in Process, c \in Credential :
                   task[p][c].at \in Writing => IssuedFor(snapshot, key[p])
\* What will be written by a process that has read the file has the device ids
\* and the revocations that are in it, but for the answer that is recorded.
CoversTheFile ==
    \A p \in Process, c \in Credential :
       task[p][c].at = "writing" /\ deviceFile.key = key[p] =>
          \A d \in Credential :
             /\ deviceFile.records[d].id # NoKey => snapshot[d].id # NoKey
             /\ deviceFile.records[d].revoked => snapshot[d].revoked \/ (d = c /\ task[p][c].told = "active")
\* A credential is enrolled once, and what was told of it is recorded; a
\* process that does not run knows nothing.
Told == \A p \in Process, c \in Credential :
           /\ task[p][c].at # "none" => c \in claimed[p] /\ key[p] # NoKey
           /\ task[p][c].at \in {"none", "asking"} <=> task[p][c].told = "nothing" /\ task[p][c].at # "done"
           /\ task[p][c].at \in Writing \cup {"done"} /\ task[p][c].told = "revoked" => mem[p][c].revoked
           /\ mem[p][c].revoked => key[p] # NoKey

IInv == TypeOK /\ OwnsTheLock /\ AllIssued /\ CoversTheFile /\ Told

USE DEF Owning, Writing

(***************************************************************************)
(* The operators on records.                                               *)
(***************************************************************************)
\* Reading the device file for a key gives records of that key.
LEMMA RecordsOfIssued ==
    ASSUME deviceFile \in [key : Key \cup {NoKey}, records : Records],
           IssuedFor(deviceFile.records, deviceFile.key), NEW k
    PROVE  RecordsOf(k) \in Records /\ IssuedFor(RecordsOf(k), k)
BY DEF RecordsOf, IssuedFor, NoRecords, Absent, Record, Records

\* Merging keeps the device ids of both sides, whose they are, and every
\* revocation.
LEMMA MergedIssued ==
    ASSUME NEW r \in Records, NEW o \in Records, NEW k, IssuedFor(r, k), IssuedFor(o, k)
    PROVE  /\ Merged(r, o) \in Records /\ IssuedFor(Merged(r, o), k)
           /\ \A d \in Credential : o[d].id # NoKey => Merged(r, o)[d].id # NoKey
           /\ \A d \in Credential : r[d].revoked \/ o[d].revoked => Merged(r, o)[d].revoked
BY DEF Merged, IssuedFor, Record, Records

\* Recording an answer keeps every device id, adds only the process's own, and
\* takes back no revocation but the one that the credential's own enrolment
\* contradicts.
LEMMA ChangedIssued ==
    ASSUME NEW p \in Process, NEW c \in Credential, NEW r \in Records, key[p] \in Key \cup {NoKey},
           IssuedFor(r, key[p]), key[p] # NoKey
    PROVE  /\ Changed(p, c, r) \in Records /\ IssuedFor(Changed(p, c, r), key[p])
           /\ \A d \in Credential : r[d].id # NoKey => Changed(p, c, r)[d].id # NoKey
           /\ \A d \in Credential : r[d].revoked /\ d # c => Changed(p, c, r)[d].revoked
           /\ task[p][c].told = "revoked" => Changed(p, c, r)[c].revoked
<1>1. CASE task[p][c].told = "revoked"
  BY <1>1 DEF Changed, WithRevoked, IssuedFor, Record, Records
<1>2. CASE task[p][c].told # "revoked"
  BY <1>2 DEF Changed, WithDevice, IssuedFor, Record, Records
<1> QED BY <1>1, <1>2

(***************************************************************************)
(* The invariant, action by action.                                        *)
(***************************************************************************)
\* Nobody runs yet.
LEMMA InitIInv == Init => IInv
BY ProofAssumption DEF Init, IInv, TypeOK, OwnsTheLock, AllIssued, SignsOnlyAsItself, IssuedFor, CoversTheFile, Told,
   NoRecords, Absent, Record, NoTasks, NoTask, Task

\* An unread file is of any key.
LEMMA NothingIssued ==
    NoRecords \in Records /\ \A k : IssuedFor(NoRecords, k)
BY DEF NoRecords, Absent, Record, Records, IssuedFor

\* A process loads the key and what the file has of it.
LEMMA LoadStep == ASSUME IInv, NEW p \in Process, Load(p) PROVE IInv'
<1>1. PICK k \in Key : \E r \in Readings(k) :
         /\ keyFile' = k /\ key' = [key EXCEPT ![p] = k] /\ mem' = [mem EXCEPT ![p] = r]
         /\ task' = [task EXCEPT ![p] = [c \in Credential |-> IF c \in Configured THEN Started(r, c) ELSE NoTask]]
  BY DEF Load, NewKeys
<1>a. PICK r \in Readings(k) :
         /\ keyFile' = k /\ key' = [key EXCEPT ![p] = k] /\ mem' = [mem EXCEPT ![p] = r]
         /\ task' = [task EXCEPT ![p] = [c \in Credential |-> IF c \in Configured THEN Started(r, c) ELSE NoTask]]
  BY <1>1
<1>2. r \in Records /\ IssuedFor(r, k)
  <2>1. RecordsOf(k) \in Records /\ IssuedFor(RecordsOf(k), k)
    BY RecordsOfIssued DEF IInv, TypeOK, AllIssued, Records
  <2> QED BY <2>1, NothingIssued DEF Readings
<1>3. \A c \in Credential : /\ Started(r, c) \in Task
                            /\ Started(r, c).at \in {"asking", "done"}
                            /\ Started(r, c).told = "nothing"
  BY DEF Started, NoTask, Task
<1>4. NoTask \in Task /\ NoTask.at = "none" /\ NoTask.told = "nothing"
  BY DEF NoTask, Task
<1>5. \A c \in Credential : /\ task'[p][c] = IF c \in Configured THEN Started(r, c) ELSE NoTask
                            /\ task'[p][c] \in Task
  BY <1>a, <1>3, <1>4 DEF IInv, TypeOK
<1>6. \A q \in Process \ {p} : task'[q] = task[q] /\ key'[q] = key[q] /\ mem'[q] = mem[q] /\ claimed'[q] = claimed[q]
  BY <1>a DEF IInv, TypeOK, Load
<1>7. key'[p] = k /\ mem'[p] = r /\ claimed'[p] = Configured
  BY <1>a DEF IInv, TypeOK, Load
<1>8. TypeOK'
  <2>1. task' \in [Process -> [Credential -> Task]]
    BY <1>a, <1>3, <1>4 DEF IInv, TypeOK
  <2>2. key' \in [Process -> Key \cup {NoKey}] /\ mem' \in [Process -> [Credential -> Record]] /\ keyFile' \in Key
    BY <1>a, <1>2 DEF IInv, TypeOK, Records
  <2>3. claimed' \in [Process -> SUBSET Credential]
    BY ProofAssumption DEF IInv, TypeOK, Load
  <2> QED BY <2>1, <2>2, <2>3 DEF IInv, TypeOK, Load
<1>9. \A q \in Process, c \in Credential : task'[q][c].at \notin Owning
  BY <1>3, <1>4, <1>5, <1>6, ProofAssumption DEF IInv, OwnsTheLock, Load
<1>10. OwnsTheLock' /\ CoversTheFile'
  BY <1>9 DEF OwnsTheLock, CoversTheFile
<1>11. AllIssued'
  BY <1>2, <1>6, <1>7, <1>9 DEF IInv, AllIssued, SignsOnlyAsItself, IssuedFor, Load
<1>12. Told'
  BY <1>3, <1>4, <1>5, <1>6, <1>7, ProofAssumption DEF IInv, Told
<1> QED BY <1>8, <1>10, <1>11, <1>12 DEF IInv

\* The enrolment of credential c in process p becomes t.
Enrols(p, c, t) == task' = [task EXCEPT ![p][c] = t]

\* A step of one enrolment leaves the others as they are.
LEMMA OneTask ==
    ASSUME IInv, NEW p \in Process, NEW c \in Credential, NEW t \in Task, Enrols(p, c, t)
    PROVE  /\ task' \in [Process -> [Credential -> Task]]
           /\ task'[p][c] = t
           /\ \A q \in Process, d \in Credential : <<q, d>> # <<p, c>> => task'[q][d] = task[q][d]
BY DEF Enrols, IInv, TypeOK

\* An enrolment moves on.
LEMMA TaskAt ==
    ASSUME NEW t \in Task, NEW at \in {"none", "asking", "told", "merging", "writing", "replacing", "done"}
    PROVE  [t EXCEPT !.at = at] \in Task /\ [t EXCEPT !.at = at].at = at /\ [t EXCEPT !.at = at].told = t.told
BY DEF Task

\* A request with a new bearer begins an enrolment.
LEMMA ClaimStep == ASSUME IInv, NEW p \in Process, NEW c \in Credential, ClaimOnDemand(p, c) PROVE IInv'
<1> DEFINE t == Started(mem[p], c)
<1>1. t \in Task /\ t.at \in {"asking", "done"} /\ t.told = "nothing"
  BY DEF Started, NoTask, Task
<1>2. /\ task' \in [Process -> [Credential -> Task]] /\ task'[p][c] = t
      /\ \A q \in Process, d \in Credential : <<q, d>> # <<p, c>> => task'[q][d] = task[q][d]
  <2>1. Enrols(p, c, t)
    BY DEF ClaimOnDemand, Enrols
  <2> HIDE DEF t
  <2> QED BY <1>1, <2>1, OneTask
<1>3. claimed' \in [Process -> SUBSET Credential]
  BY DEF IInv, TypeOK, ClaimOnDemand
<1>4. \A q \in Process : claimed[q] \subseteq claimed'[q]
  BY DEF IInv, TypeOK, ClaimOnDemand
<1>5. c \in claimed'[p] /\ key[p] # NoKey
  BY DEF IInv, TypeOK, ClaimOnDemand, Running
<1>6. UNCHANGED <<keyFile, deviceFile, fileLock, snapshot, key, mem, revoked>>
  BY DEF ClaimOnDemand, disk
<1>7. TypeOK'
  BY <1>2, <1>3, <1>6 DEF IInv, TypeOK
<1>8. \A q \in Process, d \in Credential : task'[q][d].at \in Owning => task'[q][d] = task[q][d]
  BY <1>1, <1>2
<1>9. OwnsTheLock' /\ AllIssued' /\ CoversTheFile'
  BY <1>6, <1>8 DEF IInv, OwnsTheLock, AllIssued, SignsOnlyAsItself, IssuedFor, CoversTheFile
<1>10. Told'
  BY <1>1, <1>2, <1>4, <1>5, <1>6 DEF IInv, Told
<1> QED BY <1>7, <1>9, <1>10 DEF IInv

\* An answer, its end, or the lock change nothing but the enrolment and the lock.
LEMMA EnrolStep ==
    ASSUME IInv, NEW p \in Process, NEW c \in Credential,
           Answer(p, c) \/ StopEnrolling(p, c) \/ LockFiles(p, c)
    PROVE  IInv'
<1>1. task[p][c] \in Task
  BY DEF IInv, TypeOK
<1>2. PICK u \in Task : /\ Enrols(p, c, u)
                        /\ u.at \notin Writing
                        /\ u.at = "merging" => fileLock' = <<p, c>>
                        /\ task[p][c].at # "none" /\ u.at \notin {"none", "asking"}
                        /\ ~(u.at = "done" /\ u.told = "revoked")
                        /\ u.told = "nothing" => u.at = "done"
  <2>1. CASE Answer(p, c)
    <3> DEFINE u == [at |-> "told", told |-> IF Device(p, c) \in revoked THEN "revoked" ELSE "active"]
    <3>1. u \in Task
      BY DEF Task
    <3> QED BY <2>1, <3>1 DEF Answer, Enrols
  <2>2. CASE StopEnrolling(p, c)
    <3> DEFINE u == [task[p][c] EXCEPT !.at = "done"]
    <3>1. u \in Task /\ u.told = "nothing"
      BY <1>1, <2>2 DEF Task, StopEnrolling, IInv, Told
    <3>2. Enrols(p, c, u)
      BY <2>2 DEF Enrols, StopEnrolling, IInv, TypeOK
    <3> QED BY <1>1, <2>2, <3>1, <3>2 DEF StopEnrolling, Task
  <2>3. CASE LockFiles(p, c)
    <3> DEFINE u == [task[p][c] EXCEPT !.at = "merging"]
    <3>1. u \in Task
      BY <1>1 DEF Task
    <3>2. Enrols(p, c, u)
      BY <2>3 DEF Enrols, LockFiles, IInv, TypeOK
    <3>3. u.at = "merging" /\ u.told = task[p][c].told /\ task[p][c].told # "nothing"
      BY <1>1, <2>3 DEF LockFiles, Task, IInv, Told
    <3> HIDE DEF u
    <3> QED BY <1>1, <2>3, <3>1, <3>2, <3>3 DEF LockFiles, Task
  <2> QED BY <2>1, <2>2, <2>3
<1>3. /\ task' \in [Process -> [Credential -> Task]] /\ task'[p][c] = u
      /\ \A q \in Process, d \in Credential : <<q, d>> # <<p, c>> => task'[q][d] = task[q][d]
  BY <1>2, OneTask
<1>4. UNCHANGED <<keyFile, deviceFile, snapshot, key, mem, claimed, revoked>>
  BY DEF Answer, StopEnrolling, LockFiles, disk
<1>5. fileLock' = fileLock \/ (fileLock = Nobody /\ fileLock' = <<p, c>>)
  BY DEF Answer, StopEnrolling, LockFiles
<1>6. TypeOK'
  BY <1>3, <1>4, <1>5 DEF IInv, TypeOK
<1>7. OwnsTheLock'
  BY <1>2, <1>3, <1>5, ProofAssumption DEF IInv, OwnsTheLock
<1>8. AllIssued' /\ CoversTheFile'
  BY <1>2, <1>3, <1>4 DEF IInv, AllIssued, SignsOnlyAsItself, IssuedFor, CoversTheFile
<1>9. Told'
  BY <1>2, <1>3, <1>4 DEF IInv, Told
<1> QED BY <1>6, <1>7, <1>8, <1>9 DEF IInv

\* Without the lock an answer changes what the process signs with.
LEMMA LockFailsStep == ASSUME IInv, NEW p \in Process, NEW c \in Credential, LockFails(p, c) PROVE IInv'
<1> DEFINE r == Changed(p, c, mem[p])
<1>1. PICK u \in Task : /\ Enrols(p, c, u)
                        /\ u.at = "done" /\ u.told = task[p][c].told
  <2>1. task[p][c] \in Task /\ Enrols(p, c, [task[p][c] EXCEPT !.at = "done"])
    BY DEF Enrols, LockFails, IInv, TypeOK
  <2> QED BY <2>1, TaskAt
<1>2. /\ task' \in [Process -> [Credential -> Task]] /\ task'[p][c] = u
      /\ \A q \in Process, d \in Credential : <<q, d>> # <<p, c>> => task'[q][d] = task[q][d]
  BY <1>1, OneTask
<1>3. mem[p] \in Records /\ IssuedFor(mem[p], key[p]) /\ key[p] \in Key \cup {NoKey} /\ key[p] # NoKey
  BY DEF IInv, TypeOK, AllIssued, SignsOnlyAsItself, IssuedFor, Told, LockFails, Records
<1>4. /\ r \in Records /\ IssuedFor(r, key[p])
      /\ \A d \in Credential : mem[p][d].revoked /\ d # c => r[d].revoked
      /\ task[p][c].told = "revoked" => r[c].revoked
  BY <1>3, ChangedIssued
<1>5. mem' = [mem EXCEPT ![p] = r] /\ UNCHANGED <<keyFile, deviceFile, fileLock, snapshot, key, claimed, revoked>>
  BY DEF LockFails, disk
<1> HIDE DEF r
<1>6. mem'[p] = r /\ \A q \in Process \ {p} : mem'[q] = mem[q]
  BY <1>5 DEF IInv, TypeOK
<1>7. TypeOK'
  BY <1>2, <1>4, <1>5 DEF IInv, TypeOK, Records
<1>8. OwnsTheLock'
  BY <1>1, <1>2, <1>5 DEF IInv, OwnsTheLock
<1>9. AllIssued'
  BY <1>1, <1>2, <1>4, <1>5, <1>6 DEF IInv, AllIssued, SignsOnlyAsItself, IssuedFor
<1>10. CoversTheFile'
  BY <1>1, <1>2, <1>5 DEF IInv, CoversTheFile
<1>11. task[p][c].at # "none"
  BY DEF LockFails
<1>12. Told'
  BY <1>1, <1>2, <1>4, <1>5, <1>6, <1>11 DEF IInv, Told
<1> QED BY <1>7, <1>8, <1>9, <1>10, <1>12 DEF IInv

\* Under the lock the file's records, or none, are added to those of the process.
LEMMA MergeStep ==
    ASSUME IInv, NEW p \in Process, NEW c \in Credential, MergeFile(p, c) \/ MergeNothing(p, c)
    PROVE  IInv'
<1>1. PICK o \in Records, at \in Writing :
         /\ IssuedFor(o, key[p]) /\ (at = "writing" => o = RecordsOf(key[p]))
         /\ mem' = [mem EXCEPT ![p] = Changed(p, c, Merged(mem[p], o))] /\ snapshot' = mem'[p]
         /\ task' = [task EXCEPT ![p][c].at = at]
  <2>1. RecordsOf(key[p]) \in Records /\ IssuedFor(RecordsOf(key[p]), key[p])
    BY RecordsOfIssued DEF IInv, TypeOK, AllIssued, Records
  <2>2. NoRecords \in Records /\ IssuedFor(NoRecords, key[p])
    BY NothingIssued
  <2>3. CASE MergeFile(p, c)
    <3> "writing" \in Writing
      BY DEF Writing
    <3> QED BY <2>1, <2>3 DEF MergeFile
  <2>4. CASE MergeNothing(p, c)
    <3> "replacing" \in Writing
      BY DEF Writing
    <3> QED BY <2>2, <2>4 DEF MergeNothing
  <2> QED BY <2>3, <2>4
<1> DEFINE m == Merged(mem[p], o)
           r == Changed(p, c, m)
<1>2. PICK u \in Task : Enrols(p, c, u) /\ u.at = at /\ u.told = task[p][c].told
  <2>1. task[p][c] \in Task /\ Enrols(p, c, [task[p][c] EXCEPT !.at = at])
    BY <1>1 DEF Enrols, IInv, TypeOK
  <2>2. at \in {"none", "asking", "told", "merging", "writing", "replacing", "done"}
    OBVIOUS
  <2> DEFINE t == task[p][c]
  <2>3. [t EXCEPT !.at = at] \in Task /\ [t EXCEPT !.at = at].at = at /\ [t EXCEPT !.at = at].told = t.told
    BY <2>1, <2>2, TaskAt
  <2> QED BY <2>1, <2>3
<1>3. /\ task' \in [Process -> [Credential -> Task]] /\ task'[p][c] = u
      /\ \A q \in Process, d \in Credential : <<q, d>> # <<p, c>> => task'[q][d] = task[q][d]
  BY <1>2, OneTask
<1>4. UNCHANGED <<keyFile, deviceFile, fileLock, key, claimed, revoked>> /\ task[p][c].at = "merging"
  BY DEF MergeFile, MergeNothing, disk
<1>5. mem[p] \in Records /\ IssuedFor(mem[p], key[p]) /\ key[p] \in Key \cup {NoKey} /\ key[p] # NoKey
  BY <1>4 DEF IInv, TypeOK, AllIssued, SignsOnlyAsItself, IssuedFor, Told, Records
<1>6. /\ m \in Records /\ IssuedFor(m, key[p])
      /\ \A d \in Credential : o[d].id # NoKey => m[d].id # NoKey
      /\ \A d \in Credential : mem[p][d].revoked \/ o[d].revoked => m[d].revoked
  BY <1>1, <1>5, MergedIssued
<1>7. /\ r \in Records /\ IssuedFor(r, key[p])
      /\ \A d \in Credential : m[d].id # NoKey => r[d].id # NoKey
      /\ \A d \in Credential : m[d].revoked /\ d # c => r[d].revoked
      /\ task[p][c].told = "revoked" => r[c].revoked
  BY <1>5, <1>6, ChangedIssued
<1>8. mem' = [mem EXCEPT ![p] = r] /\ snapshot' = mem'[p]
  BY <1>1
<1> HIDE DEF m, r
<1>9. mem'[p] = r /\ (\A q \in Process \ {p} : mem'[q] = mem[q]) /\ snapshot' = r
  BY <1>8 DEF IInv, TypeOK
<1>10. TypeOK'
  BY <1>3, <1>4, <1>7, <1>8, <1>9 DEF IInv, TypeOK, Records
<1>11. fileLock = <<p, c>>
  BY <1>4 DEF IInv, OwnsTheLock, Owning
<1>12. OwnsTheLock'
  BY <1>3, <1>4, <1>11 DEF IInv, OwnsTheLock
<1>13. \A q \in Process, d \in Credential : task'[q][d].at \in Writing => q = p /\ d = c
  BY <1>4, <1>11, <1>12 DEF OwnsTheLock, Owning
<1>14. AllIssued'
  BY <1>4, <1>7, <1>9, <1>13 DEF IInv, AllIssued, SignsOnlyAsItself, IssuedFor
<1>15. CoversTheFile'
  <2> SUFFICES ASSUME at = "writing", NEW d \in Credential, deviceFile.key = key[p]
               PROVE  /\ deviceFile.records[d].id # NoKey => r[d].id # NoKey
                      /\ deviceFile.records[d].revoked => r[d].revoked \/ (d = c /\ task[p][c].told = "active")
    BY <1>2, <1>3, <1>4, <1>9, <1>13 DEF CoversTheFile, Writing
  <2>1. o = deviceFile.records
    BY <1>1 DEF RecordsOf
  <2>2. task[p][c].told \in {"active", "revoked"}
    BY <1>4 DEF IInv, Told, TypeOK, Task
  <2> QED BY <2>1, <2>2, <1>6, <1>7
<1>16. Told'
  <2>1. at \notin {"none", "asking", "done"} /\ task[p][c].told # "nothing"
    BY <1>1, <1>4 DEF IInv, Told, Writing
  <2> QED BY <2>1, <1>2, <1>3, <1>4, <1>5, <1>6, <1>7, <1>9 DEF IInv, Told
<1> QED BY <1>10, <1>12, <1>14, <1>15, <1>16 DEF IInv

\* The file is written, or that fails; the lock is given back.
LEMMA WriteStep == ASSUME IInv, NEW p \in Process, NEW c \in Credential, WriteFile(p, c) PROVE IInv'
<1>1. PICK u \in Task : /\ Enrols(p, c, u)
                        /\ u.at = "done" /\ u.told = task[p][c].told
  <2>1. task[p][c] \in Task /\ Enrols(p, c, [task[p][c] EXCEPT !.at = "done"])
    BY DEF Enrols, WriteFile, IInv, TypeOK
  <2> QED BY <2>1, TaskAt
<1>2. /\ task' \in [Process -> [Credential -> Task]] /\ task'[p][c] = u
      /\ \A q \in Process, d \in Credential : <<q, d>> # <<p, c>> => task'[q][d] = task[q][d]
  BY <1>1, OneTask
<1>3. fileLock = <<p, c>> /\ IssuedFor(snapshot, key[p]) /\ task[p][c].at \in Writing
  BY DEF WriteFile, IInv, OwnsTheLock, AllIssued, Owning, Writing
<1>4. UNCHANGED <<keyFile, key, mem, claimed, revoked>>
  BY DEF WriteFile
<1>5. \A q \in Process, d \in Credential : task'[q][d].at \notin Owning
  BY <1>1, <1>2, <1>3 DEF IInv, OwnsTheLock
<1>6. OwnsTheLock' /\ CoversTheFile'
  BY <1>5 DEF OwnsTheLock, CoversTheFile
<1>7. TypeOK'
  BY <1>2, <1>4 DEF WriteFile, IInv, TypeOK, NoRecords, Absent, Record
<1>8. IssuedFor(deviceFile'.records, deviceFile'.key)
  BY <1>3 DEF WriteFile, IInv, AllIssued
<1>9. AllIssued'
  BY <1>4, <1>5, <1>8 DEF IInv, AllIssued, SignsOnlyAsItself, IssuedFor
<1>10. Told'
  BY <1>1, <1>2, <1>3, <1>4 DEF IInv, Told
<1> QED BY <1>6, <1>7, <1>9, <1>10 DEF IInv

\* A process that ends forgets everything, and loses its lock.
LEMMA StopStep == ASSUME IInv, NEW p \in Process, Stop(p) PROVE IInv'
<1>1. NoTask \in Task /\ NoTask.at = "none" /\ NoTask.told = "nothing" /\ NoRecords \in Records
      /\ \A c \in Credential : NoRecords[c].id = NoKey /\ ~NoRecords[c].revoked
  BY DEF NoTask, Task, NoRecords, Absent, Record, Records
<1>2. /\ key' = [key EXCEPT ![p] = NoKey] /\ mem' = [mem EXCEPT ![p] = NoRecords]
      /\ claimed' = [claimed EXCEPT ![p] = {}] /\ task' = [task EXCEPT ![p] = NoTasks]
      /\ UNCHANGED <<keyFile, deviceFile, revoked>>
  BY DEF Stop, disk
<1>3. /\ \A q \in Process \ {p} : /\ key'[q] = key[q] /\ mem'[q] = mem[q]
                                  /\ claimed'[q] = claimed[q] /\ task'[q] = task[q]
      /\ key'[p] = NoKey /\ mem'[p] = NoRecords /\ \A c \in Credential : task'[p][c] = NoTask
  BY <1>2 DEF IInv, TypeOK, NoTasks
<1>4. \/ fileLock' = Nobody /\ snapshot' = NoRecords /\ \E c \in Credential : fileLock = <<p, c>>
      \/ UNCHANGED <<fileLock, snapshot>>
  BY DEF Stop
<1>5. TypeOK'
  <2>1. task' \in [Process -> [Credential -> Task]]
    BY <1>1, <1>2 DEF IInv, TypeOK, NoTasks
  <2> QED BY <2>1, <1>1, <1>2, <1>4 DEF IInv, TypeOK, Records
<1>6. \A q \in Process, c \in Credential :
         task'[q][c].at \in Owning =>
            q # p /\ task[q][c] = task'[q][c] /\ fileLock = <<q, c>> /\ UNCHANGED <<fileLock, snapshot>>
  <2>1. \A q \in Process, c \in Credential :
           task'[q][c].at \in Owning => q # p /\ task[q][c] = task'[q][c]
    BY <1>1, <1>3
  <2>2. \A q \in Process, c \in Credential :
           task[q][c].at \in Owning => fileLock = <<q, c>>
    BY DEF IInv, OwnsTheLock
  <2> QED BY <2>1, <2>2, <1>4
<1>7. OwnsTheLock' /\ CoversTheFile'
  BY <1>2, <1>3, <1>6 DEF IInv, OwnsTheLock, CoversTheFile
<1>8. AllIssued'
  BY <1>1, <1>2, <1>3, <1>6 DEF IInv, AllIssued, SignsOnlyAsItself, IssuedFor
<1>9. Told'
  BY <1>1, <1>2, <1>3 DEF IInv, Told
<1> QED BY <1>5, <1>7, <1>8, <1>9 DEF IInv

\* What happens outside of the processes touches no record.
LEMMA OutsideStep ==
    ASSUME IInv, DamageKey \/ (\E k \in Key, u \in User : RevokeDevice(k, u)) \/ UNCHANGED proofVars
    PROVE  IInv'
<1>1. UNCHANGED <<deviceFile, fileLock, snapshot, key, mem, claimed, task>>
  BY DEF DamageKey, RevokeDevice, proofVars, disk
<1>2. keyFile' \in Key \cup {"missing", "corrupt"} /\ revoked' \subseteq Key \X User
  <2>1. keyFile \in Key \cup {"missing", "corrupt"} /\ revoked \subseteq Key \X User
    BY DEF IInv, TypeOK
  <2>2. CASE DamageKey
    BY <2>1, <2>2 DEF DamageKey
  <2>3. ASSUME NEW k \in Key, NEW u \in User, RevokeDevice(k, u)
        PROVE  keyFile' \in Key \cup {"missing", "corrupt"} /\ revoked' \subseteq Key \X User
    <3>1. revoked' = revoked \cup {<<k, u>>} /\ keyFile' = keyFile /\ <<k, u>> \in Key \X User
      BY <2>3 DEF RevokeDevice, disk
    <3> QED BY <2>1, <3>1
  <2>4. CASE UNCHANGED proofVars
    BY <2>1, <2>4 DEF proofVars
  <2> QED BY <2>2, <2>3, <2>4
<1>3. TypeOK'
  BY <1>1, <1>2 DEF IInv, TypeOK
<1>4. OwnsTheLock' /\ AllIssued' /\ CoversTheFile' /\ Told'
  BY <1>1 DEF IInv, OwnsTheLock, AllIssued, SignsOnlyAsItself, IssuedFor, CoversTheFile, Told
<1> QED BY <1>3, <1>4 DEF IInv

\* The invariant is inductive.
THEOREM RecordStep == IInv /\ [Next]_proofVars => IInv'
BY LoadStep, StopStep, ClaimStep, EnrolStep, LockFailsStep, MergeStep, WriteStep, OutsideStep DEF Next, Settle

\* What an enrolment was told, it goes by for as long as its process runs.
LEMMA DoneStays ==
    ASSUME IInv, [Next]_proofVars, NEW p \in Process, NEW c \in Credential,
           task[p][c].at = "done", key'[p] # NoKey
    PROVE  task'[p][c] = task[p][c]
<1>0. key[p] # NoKey /\ c \in claimed[p]
  BY DEF IInv, Told
<1>1. ASSUME NEW q \in Process, Load(q) PROVE task'[p][c] = task[p][c]
  BY <1>0, <1>1 DEF Load, Running, IInv, TypeOK
<1>2. ASSUME NEW q \in Process, Stop(q) PROVE task'[p][c] = task[p][c]
  BY <1>2 DEF Stop, IInv, TypeOK
<1>3. ASSUME NEW q \in Process, NEW d \in Credential, ClaimOnDemand(q, d) PROVE task'[p][c] = task[p][c]
  BY <1>0, <1>3 DEF ClaimOnDemand, MayClaim, IInv, TypeOK
<1>4. ASSUME NEW q \in Process, NEW d \in Credential, Answer(q, d) \/ StopEnrolling(q, d) \/ Settle(q, d)
      PROVE task'[p][c] = task[p][c]
  <2>1. <<q, d>> # <<p, c>>
    BY <1>4 DEF Answer, StopEnrolling, Settle, LockFiles, LockFails, MergeFile, MergeNothing, WriteFile
  <2>2. \E u : task' = [task EXCEPT ![q][d] = u]
    BY <1>4 DEF Answer, StopEnrolling, Settle, LockFiles, LockFails, MergeFile, MergeNothing, WriteFile, IInv, TypeOK
  <2> QED BY <2>1, <2>2 DEF IInv, TypeOK
<1>5. CASE DamageKey \/ (\E k \in Key, u \in User : RevokeDevice(k, u)) \/ UNCHANGED proofVars
  BY <1>5 DEF DamageKey, RevokeDevice, proofVars
<1> QED BY <1>1, <1>2, <1>3, <1>4, <1>5 DEF Next

\* The device file is written in one action.
LEMMA WhoWrites ==
    ASSUME [Next]_proofVars
    PROVE  deviceFile' = deviceFile \/ \E p \in Process, c \in Credential : WriteFile(p, c)
BY ZenonT(60) DEF Next, Load, Stop, ClaimOnDemand, Answer, StopEnrolling, Settle, LockFiles, LockFails, MergeFile, MergeNothing,
   DamageKey, RevokeDevice, proofVars, disk

\* Only the owner of the lock writes the file, and it has merged what is there.
LEMMA StepKeepsDeviceIds == ASSUME IInv, [Next]_proofVars PROVE KeepsDeviceIds
<1>1. ASSUME NEW p \in Process, NEW c \in Credential, WriteFile(p, c) PROVE KeepsDeviceIds
  <2> SUFFICES ASSUME deviceFile'.key = deviceFile.key, ~ReplacesUnread, NEW d \in Credential, deviceFile.records[d].id # NoKey
               PROVE  deviceFile'.records[d].id = deviceFile.records[d].id
    BY DEF KeepsDeviceIds
  <2>1. CASE deviceFile' = deviceFile
    BY <2>1
  <2>2. CASE deviceFile' = [key |-> key[p], records |-> snapshot]
    <3>1. deviceFile.key = key[p] /\ task[p][c].at = "writing"
      BY <1>1, <2>2 DEF WriteFile, ReplacesUnread
    <3>2. snapshot[d].id \in {NoKey, key[p]} /\ snapshot[d].id # NoKey
      BY <3>1 DEF IInv, AllIssued, IssuedFor, CoversTheFile, Writing
    <3>3. deviceFile.records[d].id = key[p]
      BY <3>1 DEF IInv, AllIssued, IssuedFor
    <3> QED BY <2>2, <3>2, <3>3
  <2> QED BY <1>1, <2>1, <2>2 DEF WriteFile
<1>2. CASE deviceFile' = deviceFile
  BY <1>2 DEF KeepsDeviceIds
<1> QED BY <1>1, <1>2, WhoWrites

\* In the file a revocation ends with the record of a late answer only.
LEMMA StepKeepsFileRevocations ==
    ASSUME IInv, [Next]_proofVars, deviceFile'.key = deviceFile.key, ~ReplacesUnread,
           NEW d \in Credential, deviceFile.records[d].revoked, ~deviceFile'.records[d].revoked
    PROVE  \E p \in Process : LateAnswer(p, d)
<1>1. PICK p \in Process, c \in Credential : WriteFile(p, c)
  BY WhoWrites
<1>2. deviceFile' = [key |-> key[p], records |-> snapshot]
  BY <1>1 DEF WriteFile
<1>3. deviceFile.key = key[p] /\ task[p][c].at = "writing" /\ ~snapshot[d].revoked
  BY <1>1, <1>2 DEF WriteFile, ReplacesUnread
<1>4. d = c /\ task[p][c].told = "active"
  BY <1>3 DEF IInv, CoversTheFile
<1> QED BY <1>3, <1>4 DEF LateAnswer

\* In a process it does so, too.
LEMMA StepKeepsRevocations ==
    ASSUME IInv, [Next]_proofVars, NEW p \in Process, NEW d \in Credential,
           mem[p][d].revoked, key'[p] # NoKey
    PROVE  mem'[p][d].revoked \/ LateAnswer(p, d)
<1>0. key[p] # NoKey
  BY DEF IInv, Told
<1>1. ASSUME NEW q \in Process, Load(q) PROVE mem'[p] = mem[p]
  BY <1>0, <1>1 DEF Load, Running, IInv, TypeOK
<1>2. ASSUME NEW q \in Process, Stop(q) PROVE mem'[p] = mem[p]
  BY <1>2 DEF Stop, IInv, TypeOK
<1>3. ASSUME NEW q \in Process, NEW c \in Credential, NEW r \in Records, mem' = [mem EXCEPT ![q] = Changed(q, c, r)],
             IssuedFor(r, key[q]), key[q] # NoKey, task[q][c].at \in {"told", "merging"}, r[d].revoked \/ q # p
      PROVE  mem'[p][d].revoked \/ LateAnswer(p, d)
  <2>1. CASE q # p
    BY <1>3, <2>1 DEF IInv, TypeOK
  <2>2. CASE q = p
    <3>1. mem'[p] = Changed(p, c, r)
      BY <1>3, <2>2 DEF IInv, TypeOK
    <3>2. /\ d # c => Changed(p, c, r)[d].revoked
          /\ task[p][c].told = "revoked" => Changed(p, c, r)[c].revoked
      <4>1. key[p] \in Key \cup {NoKey} /\ IssuedFor(r, key[p])
        BY <1>3, <2>2 DEF IInv, TypeOK
      <4> QED BY <1>0, <1>3, <2>2, <4>1, ChangedIssued
    <3>3. task[p][c].told \in {"active", "revoked"}
      <4>1. task[p][c] \in Task /\ task[p][c].at \in {"told", "merging"}
        BY <1>3, <2>2 DEF IInv, TypeOK
      <4>2. task[p][c].told # "nothing"
        BY <4>1 DEF IInv, Told
      <4> QED BY <4>1, <4>2 DEF Task
    <3> QED BY <1>3, <2>2, <3>1, <3>2, <3>3 DEF LateAnswer
  <2> QED BY <2>1, <2>2
<1>4. ASSUME NEW q \in Process, NEW c \in Credential, LockFails(q, c) \/ MergeFile(q, c) \/ MergeNothing(q, c)
      PROVE  mem'[p][d].revoked \/ LateAnswer(p, d)
  <2>1. mem[q] \in Records /\ IssuedFor(mem[q], key[q]) /\ key[q] # NoKey
    BY <1>4 DEF IInv, TypeOK, AllIssued, SignsOnlyAsItself, IssuedFor, Told, Records, LockFails, MergeFile, MergeNothing
  <2>2. CASE LockFails(q, c)
    BY <1>3, <2>1, <2>2 DEF LockFails
  <2>3. ASSUME NEW o \in Records, IssuedFor(o, key[q]), mem' = [mem EXCEPT ![q] = Changed(q, c, Merged(mem[q], o))],
               task[q][c].at = "merging"
        PROVE  mem'[p][d].revoked \/ LateAnswer(p, d)
    <3>1. /\ Merged(mem[q], o) \in Records /\ IssuedFor(Merged(mem[q], o), key[q])
          /\ mem[q][d].revoked => Merged(mem[q], o)[d].revoked
      BY <2>1, <2>3, MergedIssued
    <3> QED BY <1>3, <2>1, <2>3, <3>1
  <2>4. CASE MergeFile(q, c)
    <3>1. RecordsOf(key[q]) \in Records /\ IssuedFor(RecordsOf(key[q]), key[q])
      BY RecordsOfIssued DEF IInv, TypeOK, AllIssued, Records
    <3> QED BY <2>3, <2>4, <3>1 DEF MergeFile
  <2>5. CASE MergeNothing(q, c)
    BY <2>3, <2>5, NothingIssued DEF MergeNothing
  <2> QED BY <1>4, <2>2, <2>4, <2>5
<1>5. CASE mem' = mem
  BY <1>5
<1>6. ASSUME NEW q \in Process, NEW c \in Credential,
             ClaimOnDemand(q, c) \/ Answer(q, c) \/ StopEnrolling(q, c) \/ LockFiles(q, c) \/ WriteFile(q, c)
      PROVE  mem' = mem
  BY <1>6 DEF ClaimOnDemand, Answer, StopEnrolling, LockFiles, WriteFile
<1>7. CASE DamageKey \/ (\E k \in Key, u \in User : RevokeDevice(k, u)) \/ UNCHANGED proofVars
  BY <1>7 DEF DamageKey, RevokeDevice, proofVars
<1> QED BY <1>1, <1>2, <1>4, <1>5, <1>6, <1>7 DEF Next, Settle

\* However many processes share the device file, whatever they have read of it,
\* a process signs only with device ids that were issued for its own key.
THEOREM OwnDeviceOnly == Spec => []SignsOnlyAsItself
<1>1. IInv => SignsOnlyAsItself
  BY DEF IInv, AllIssued
<1> QED BY <1>1, InitIInv, RecordStep, PTL DEF Spec

\* A process that was told of a revocation has it in memory for as long as it runs.
LEMMA StepKeepsTheRecords == ASSUME IInv, [Next]_proofVars PROVE KeepsTheRecords
<1>1. IInv'
  BY RecordStep
<1>2. ASSUME NEW p \in Process, NEW c \in Credential, key'[p] # NoKey,
             task[p][c] = [at |-> "done", told |-> "revoked"]
      PROVE  ~Signs(p, c)'
  <2>1. task'[p][c] = task[p][c]
    BY <1>2, DoneStays
  <2>2. mem'[p][c].revoked
    BY <1>1, <1>2, <2>1 DEF IInv, Told
  <2> QED BY <2>2 DEF Signs
<1>3. RevocationsStay
  BY StepKeepsRevocations, StepKeepsFileRevocations DEF RevocationsStay
<1> QED BY <1>2, <1>3, StepKeepsDeviceIds DEF KeepsTheRecords, RevocationIsFinal

\* No write of the file by a process that could read it loses a device id;
\* what a process, or the file, knows of a revocation ends only with the
\* record of an answer from before it; and a process that was told of one
\* never signs for that credential again -- however their steps interleave.
THEOREM NoRecordIsLost == Spec => [][KeepsTheRecords]_proofVars
BY InitIInv, RecordStep, StepKeepsTheRecords, PTL DEF Spec

(***************************************************************************)
(* What leaves for a request (EgressDecision).                              *)
(***************************************************************************)
Signers == Login \cup {ClaudeKey, CodexKey}
LEMMA Keys ==
    /\ OutboundKey["claude"] = ClaudeKey /\ OutboundKey["codex"] = CodexKey
    /\ {OutboundKey[p] : p \in O!Product} = {ClaudeKey, CodexKey}
    /\ ClaudeKey \notin Login \cup {Basic} /\ CodexKey \notin Login \cup {Basic} /\ Basic \notin Login
BY PartsAssumption DEF OutboundKey, O!KeyAssumption, O!Product

\* What the client sends names no key of the Gateway.
LEMMA ClientsOwn ==
    ASSUME request \in Received
    PROVE  /\ O!Elements(request.auth) \subseteq Login \cup {Basic}
           /\ request.auth \in Seq(Login \cup {Basic}) /\ request.device \in BOOLEAN
           /\ request.host \in {"telemetry", "control", "anthropic", "openai", "other"}
           /\ request.via \in {"connect", "http"}
BY PartsAssumption DEF O!RequestAssumption, O!Elements

\* The proof that goes with a Bearer.
LEMMA ProofNamesIt ==
    ASSUME NEW b
    PROVE  O!ProofFor(b) # O!NoProof => O!ProofFor(b).by = "proxy" /\ O!ProofFor(b).bearer = b /\ b \in signing
BY DEF O!ProofFor, O!NoProof

LEMMA ClaudeIsProven ==
    ASSUME request \in Received, signing \subseteq Signers, egress = O!ForwardClaude(request), request.host = "anthropic"
    PROVE  O!OneProvenIdentity
<1> DEFINE own == IF O!Nominated(request, "authorization") THEN <<>> ELSE request.auth
<1>1. CASE O!KeyAdded(request)
  <2>1. own = <<>>
    BY <1>1 DEF O!KeyAdded
  <2>2. Append(own, ClaudeKey) = <<ClaudeKey>>
    <3>1. Append(<<>>, ClaudeKey) = <<ClaudeKey>>
      OBVIOUS
    <3> HIDE DEF own
    <3> QED BY <2>1, <3>1
  <2>3. egress.to = "gateway" /\ egress.auth = Append(own, ClaudeKey) /\ egress.proof = O!ProofFor(ClaudeKey)
    BY <1>1, Keys DEF O!ForwardClaude, O!To
  <2> HIDE DEF own
  <2>4. egress.auth = <<ClaudeKey>> /\ O!Elements(egress.auth) = {ClaudeKey}
    BY <2>2, <2>3 DEF O!Elements
  <2> QED BY <2>3, <2>4, Keys, ProofNamesIt DEF O!OneProvenIdentity, O!ProofBindsCredential, O!OneIdentity,
             O!LoginStaysHere
<1>2. CASE ~O!KeyAdded(request)
  <2>1. own = request.auth
    BY <1>2 DEF O!KeyAdded
  <2>2. egress.to = "gateway" /\ egress.auth = request.auth /\ egress.proof = O!ProofFor(O!Signed(request.auth))
    BY <1>2, <2>1 DEF O!ForwardClaude, O!To
  <2>3. O!Elements(egress.auth) \cap {OutboundKey[p] : p \in O!Product} = {}
    BY <2>2, Keys, ClientsOwn
  <2>4. egress.proof # O!NoProof => egress.auth = <<egress.proof.bearer>> /\ egress.proof.by = "proxy"
    <3>1. O!Signed(request.auth) \in signing => Len(request.auth) = 1 /\ O!Signed(request.auth) = Head(request.auth)
      BY Keys DEF O!Signed, Signers
    <3>2. Len(request.auth) = 1 => request.auth = <<Head(request.auth)>>
      BY ClientsOwn
    <3> QED BY <2>2, <3>1, <3>2, ProofNamesIt
  <2> QED BY <2>2, <2>3, <2>4 DEF O!OneProvenIdentity, O!ProofBindsCredential, O!OneIdentity, O!LoginStaysHere
<1> QED BY <1>1, <1>2

LEMMA CodexIsProven ==
    ASSUME request \in Received, signing \subseteq Signers, request.host = "openai",
           egress = O!ForwardCodex(request) \/ egress = O!UpgradeCodex(request)
    PROVE  O!OneProvenIdentity
<1>1. CASE egress = O!Nothing
  BY <1>1 DEF O!OneProvenIdentity, O!ProofBindsCredential, O!OneIdentity, O!LoginStaysHere, O!Left
<1>2. CASE egress # O!Nothing
  <2>1. /\ egress.to = "gateway" /\ egress.auth = <<CodexKey>> /\ egress.proof = O!ProofFor(CodexKey)
        /\ egress.cookies \subseteq O!CookiesSent(request)
    BY <1>2, Keys DEF O!ForwardCodex, O!UpgradeCodex, O!To
  <2>2. O!Elements(egress.auth) = {CodexKey}
    BY <2>1 DEF O!Elements
  <2>3. O!CookiesSent(request) \subseteq (IF request.device THEN {"device"} ELSE {})
    BY DEF O!CookiesSent, O!WantsDevice
  <2> QED BY <2>1, <2>2, <2>3, Keys, ProofNamesIt DEF O!OneProvenIdentity, O!ProofBindsCredential, O!OneIdentity,
             O!LoginStaysHere
<1> QED BY <1>1, <1>2

LEMMA OthersAreProven ==
    ASSUME request \in Received, egress = O!ForwardPlain(request) \/ egress = O!Tunnel(request) \/ egress = O!Nothing
    PROVE  O!OneProvenIdentity
<1>1. CASE egress = O!ForwardPlain(request)
  <2>1. egress.proof = O!NoProof /\ egress.to = "origin" /\ egress.auth \in {<<>>, request.auth}
        /\ (request.host = "openai" => egress.auth = <<>> /\ egress.cookies = {})
    BY <1>1 DEF O!ForwardPlain, O!To, O!ProofOf, O!Managed
  <2>2. O!Elements(egress.auth) \subseteq Login \cup {Basic} /\ (egress.auth = <<>> => O!Elements(egress.auth) = {})
    BY <2>1, ClientsOwn DEF O!Elements
  <2> QED BY <2>1, <2>2, Keys DEF O!OneProvenIdentity, O!ProofBindsCredential, O!OneIdentity, O!LoginStaysHere
<1>2. CASE egress = O!Tunnel(request)
  <2>1. egress.proof = O!NoProof /\ egress.auth = <<>> /\ egress.cookies = {}
    BY <1>2 DEF O!Tunnel, O!To
  <2>2. O!Elements(egress.auth) = {}
    BY <2>1 DEF O!Elements
  <2> QED BY <2>1, <2>2 DEF O!OneProvenIdentity, O!ProofBindsCredential, O!OneIdentity, O!LoginStaysHere
<1>3. CASE egress = O!Nothing
  BY <1>3 DEF O!OneProvenIdentity, O!ProofBindsCredential, O!OneIdentity, O!LoginStaysHere, O!Left
<1> QED BY <1>1, <1>2, <1>3

LEMMA EgressIsProven ==
    ASSUME request \in Received, signing \subseteq Signers, egress = O!Egress(request)
    PROVE  O!OneProvenIdentity
<1>1. \/ egress = O!ForwardPlain(request) \/ egress = O!Tunnel(request) \/ egress = O!Nothing
      \/ egress = O!ForwardClaude(request) /\ request.host = "anthropic"
      \/ (egress = O!ForwardCodex(request) \/ egress = O!UpgradeCodex(request)) /\ request.host = "openai"
  BY ClientsOwn DEF O!Egress, O!Refused
<1> QED BY <1>1, ClaudeIsProven, CodexIsProven, OthersAreProven

(***************************************************************************)
(* Routes (ProxyPolicy, OutboundRequest).                                  *)
(***************************************************************************)
LEMMA Least == ASSUME NEW S \in SUBSET Nat, S # {} PROVE \E i \in S : \A j \in S : i <= j
<1> DEFINE R == OpToRel(<, Nat)
<1>1. IsWellFoundedOn(R, Nat)
  BY NatLessThanWellFounded
<1>2. \A x, y \in Nat : y < x => <<y, x>> \in R
  BY DEF OpToRel
<1> HIDE DEF R
<1>3. PICK x \in S : \A y \in S : ~ (<<y, x>> \in R)
  BY <1>1, WFMin
<1>4. \A y \in S : x \in Nat /\ y \in Nat /\ ~(y < x)
  BY <1>2, <1>3
<1>5. \A y \in S : x <= y
  BY <1>4
<1> QED BY <1>5

Names == /\ Unset \notin Proxy \cup {Self, Bad, Direct, Failed, "system", "direct"}
         /\ Self \notin Proxy \cup {Bad, Direct, Failed, "system", "direct"}
         /\ Bad \notin Proxy \cup {Direct, "system", "direct"}
         /\ Direct \notin Proxy \cup {Failed} /\ {"system", "direct"} \cap Proxy = {}
LEMMA DistinctNames == Names
BY PartsAssumption DEF O!NamesAssumption, Names

LEMMA FirstOfTwo ==
    ASSUME NEW own, NEW other
    PROVE  \/ O!FirstOf(own, other) = Unset /\ ~O!Counts(own) /\ ~O!Counts(other)
           \/ O!FirstOf(own, other) \in {own, other} /\ O!Counts(O!FirstOf(own, other))
BY DEF O!FirstOf, O!Counts

InputsType == inputs \in [mode : O!Mode, env : O!Env, os : O!Os]

\* A static policy has no proxy for a scheme only where none is configured, or
\* past a SOCKS proxy of macOS.
Serves(static) ==
    /\ \A s \in O!Scheme : /\ static[s] \in Proxy \cup {Bad, Unset}
                           /\ static[s] = Unset => ~O!ConfiguredFor(s) \/ O!PastSocks(s)
    /\ \A t \in static.bypass : O!Exempt(t)
Faithful(policy) ==
    \/ policy.kind = "direct" /\ ~O!Automatic /\ \A s \in O!Scheme : ~O!ConfiguredFor(s)
    \/ policy.kind = "unavailable"
    \/ policy.kind = "static" /\ ~O!Automatic /\ Serves(policy)
    \/ /\ policy.kind = "auto" /\ O!Automatic /\ policy.script = inputs.os.script
       /\ Serves(policy.fallback)

LEMMA StaticFields ==
    ASSUME NEW https, NEW http, NEW bypass
    PROVE  /\ O!Static(https, http, bypass).kind = "static" /\ O!Static(https, http, bypass)["https"] = https
           /\ O!Static(https, http, bypass)["http"] = http /\ O!Static(https, http, bypass).bypass = bypass
BY DEF O!Static

LEMMA EnvIsFaithful ==
    ASSUME InputsType, inputs.mode = "system", O!FromEnv
    PROVE  Faithful(O!SystemPolicy(inputs.env, inputs.os))
<1> DEFINE env == inputs.env
           https == O!FirstOf(env.https, env.all)
           http == O!FirstOf(env.http, env.all)
<1>1. env.https \in O!Written /\ env.http \in O!Written /\ env.all \in O!Written
  BY DEF InputsType, O!Env
<1>2. /\ https = Unset <=> ~O!Counts(env.https) /\ ~O!Counts(env.all)
      /\ http = Unset <=> ~O!Counts(env.http) /\ ~O!Counts(env.all)
      /\ https \in Proxy \cup {Bad, Unset} /\ http \in Proxy \cup {Bad, Unset}
  BY <1>1, FirstOfTwo DEF O!Counts, O!Written
<1>3. https # Unset \/ http # Unset
  BY <1>2 DEF O!FromEnv, O!Counts
<1> HIDE DEF https, http
<1>4. CASE https = Bad /\ http = Bad
  BY <1>4 DEF O!SystemPolicy, https, http, O!Unavailable, Faithful
<1>5. CASE ~(https = Bad /\ http = Bad)
  <2>1. O!SystemPolicy(inputs.env, inputs.os) = O!Static(https, http, env.bypass)
    BY <1>3, <1>5 DEF O!SystemPolicy, https, http
  <2>2. \A s \in O!Scheme : O!ConfiguredFor(s) <=> O!Counts(env[s]) \/ O!Counts(env.all)
    BY DEF O!ConfiguredFor, O!Counts
  <2>3. Serves(O!Static(https, http, env.bypass))
    BY <1>2, <2>2, StaticFields DEF Serves, O!Scheme, O!Exempt
  <2> QED BY <2>1, <2>3, StaticFields DEF Faithful, O!Automatic
<1> QED BY <1>4, <1>5

LEMMA MacIsFaithful ==
    ASSUME InputsType, inputs.mode = "system", ~O!FromEnv, inputs.os \in O!Mac
    PROVE  Faithful(O!MacPolicy(inputs.os))
<1> DEFINE os == inputs.os
           https == O!FirstOf(os.https, Unset)
           http == O!FirstOf(os.http, Unset)
<1>1. os.kind = "macos" /\ os.https \in O!Written /\ os.http \in O!Written /\ os.auto \in BOOLEAN
  BY DEF O!Mac
<1>2. /\ https = (IF O!Counts(os.https) THEN os.https ELSE Unset)
      /\ http = (IF O!Counts(os.http) THEN os.http ELSE Unset)
  BY DEF O!FirstOf, O!Counts
<1>3. ~O!Automatic /\ \A s \in O!Scheme : O!ConfiguredFor(s) <=> ~os.auto /\ (O!Counts(os[s]) \/ os.socks)
  BY <1>1 DEF O!Automatic, O!ConfiguredFor, O!Counts
<1> HIDE DEF https, http
<1>4. CASE os.auto
  BY <1>3, <1>4 DEF O!MacPolicy, O!DirectPolicy, Faithful
<1>5. CASE ~os.auto /\ Bad \in {os.https, os.http}
  <2>1. O!MacPolicy(os) = O!Unavailable
    BY <1>5 DEF O!MacPolicy
  <2> QED BY <2>1 DEF O!Unavailable, Faithful
<1>6. CASE ~os.auto /\ Bad \notin {os.https, os.http} /\ https = Unset /\ http = Unset
  <2>1. O!MacPolicy(os) = IF os.socks THEN O!Unavailable ELSE O!DirectPolicy
    BY <1>6 DEF O!MacPolicy, https, http
  <2>2. ~O!Counts(os.https) /\ ~O!Counts(os.http)
    BY <1>2, <1>6 DEF O!Counts
  <2> QED BY <1>3, <2>1, <2>2 DEF O!Unavailable, O!DirectPolicy, Faithful, O!Scheme
<1>7. CASE ~os.auto /\ Bad \notin {os.https, os.http} /\ ~(https = Unset /\ http = Unset)
  <2>1. O!MacPolicy(os) = O!Static(https, http, os.bypass)
    BY <1>7 DEF O!MacPolicy, https, http
  <2>2. https \in Proxy \cup {Unset} /\ http \in Proxy \cup {Unset}
    BY <1>1, <1>2, <1>7 DEF O!Counts, O!Written
  <2>3. https = Unset => ~O!ConfiguredFor("https") \/ O!PastSocks("https")
    <3> SUFFICES ASSUME https = Unset, os.socks PROVE O!PastSocks("https")
      BY <1>1, <1>2, <1>3, <1>7 DEF O!Counts, O!Scheme
    <3>1. O!Counts(os.http) /\ ~O!Counts(os.https)
      BY <1>2, <1>7 DEF O!Counts
    <3> QED BY <1>1, <3>1 DEF O!PastSocks, O!Scheme
  <2>4. http = Unset => ~O!ConfiguredFor("http") \/ O!PastSocks("http")
    <3> SUFFICES ASSUME http = Unset, os.socks PROVE O!PastSocks("http")
      BY <1>1, <1>2, <1>3, <1>7 DEF O!Counts, O!Scheme
    <3>1. O!Counts(os.https) /\ ~O!Counts(os.http)
      BY <1>2, <1>7 DEF O!Counts
    <3> QED BY <1>1, <3>1 DEF O!PastSocks, O!Scheme
  <2>5. Serves(O!Static(https, http, os.bypass))
    BY <1>1, <2>2, <2>3, <2>4, StaticFields DEF Serves, O!Scheme, O!Exempt
  <2> QED BY <1>3, <2>1, <2>5, StaticFields DEF Faithful
<1> QED BY <1>4, <1>5, <1>6, <1>7

LEMMA WindowsIsFaithful ==
    ASSUME InputsType, inputs.mode = "system", ~O!FromEnv, inputs.os \in O!Windows
    PROVE  Faithful(O!WindowsPolicy(inputs.os))
<1> DEFINE os == inputs.os
           Listed(s) == {i \in DOMAIN os.server : os.server[i].scheme = s /\ O!Counts(os.server[i].proxy)}
           Slot(s) == IF Listed(s) = {} THEN Unset
                      ELSE os.server[CHOOSE i \in Listed(s) : \A j \in Listed(s) : i <= j].proxy
           For(s) == O!FirstOf(Slot(s), Slot("any"))
           Or(s) == IF For(s) = Unset /\ O!Socks(os) THEN Bad ELSE For(s)
           n == Len(os.server)
<1>1. /\ os.kind = "windows" /\ os.detect \in BOOLEAN /\ os.script \in BOOLEAN
      /\ n \in Nat /\ DOMAIN os.server = 1 .. n
      /\ \A i \in 1 .. n : \/ os.server[i].scheme \in {"any", "http", "https"} /\ os.server[i].proxy \in Proxy \cup {Self, Bad}
                           \/ os.server[i].scheme = "socks" /\ os.server[i].proxy = Bad
  BY DEF O!Windows
<1>2. \A s \in O!Scheme : O!ConfiguredFor(s) <=> \E i \in 1 .. n : /\ os.server[i].scheme \in {s, "any", "socks"}
                                                                  /\ O!Counts(os.server[i].proxy)
  BY <1>1 DEF O!ConfiguredFor, O!Counts
<1>3. O!Automatic <=> os.detect \/ os.script
  BY <1>1 DEF O!Automatic
<1>4. O!WindowsStatic(os) = IF \/ \E i \in DOMAIN os.server : os.server[i].scheme # "socks" /\ os.server[i].proxy = Bad
                               \/ O!Socks(os) /\ \A s \in O!Scheme : For(s) = Unset
                            THEN O!Unavailable
                            ELSE O!Static(Or("https"), Or("http"), os.bypass)
  BY DEF O!WindowsStatic
\* What the list says for one scheme name.
<1>5. ASSUME NEW s \in {"any", "http", "https"},
             ~\E i \in 1 .. n : os.server[i].scheme # "socks" /\ os.server[i].proxy = Bad
      PROVE  \/ Slot(s) = Unset /\ \A i \in 1 .. n : os.server[i].scheme = s => ~O!Counts(os.server[i].proxy)
             \/ Slot(s) \in Proxy
  <2> DEFINE entries == Listed(s)
             m == CHOOSE i \in entries : \A j \in entries : i <= j
  <2>1. entries \in SUBSET Nat /\ entries = {i \in 1 .. n : os.server[i].scheme = s /\ O!Counts(os.server[i].proxy)}
    BY <1>1
  <2>2. Slot(s) = IF entries = {} THEN Unset ELSE os.server[m].proxy
    OBVIOUS
  <2> HIDE DEF entries, Slot, n
  <2>3. CASE entries = {}
    BY <2>1, <2>2, <2>3
  <2>4. CASE entries # {}
    <3>1. m \in entries
      BY <2>1, <2>4, Least
    <3> HIDE DEF m
    <3>2. m \in 1 .. n /\ os.server[m].scheme = s /\ O!Counts(os.server[m].proxy)
      BY <2>1, <3>1
    <3>3. os.server[m].proxy \in Proxy \cup {Self, Bad} /\ os.server[m].proxy # Bad
      BY <1>1, <1>5, <3>2
    <3>4. os.server[m].proxy \in Proxy
      BY <3>2, <3>3 DEF O!Counts
    <3> QED BY <2>2, <2>4, <3>4
  <2> QED BY <2>3, <2>4
<1> HIDE DEF Slot
<1>6. ASSUME NEW s \in O!Scheme, ~\E i \in 1 .. n : os.server[i].scheme # "socks" /\ os.server[i].proxy = Bad
      PROVE  \/ For(s) = Unset /\ \A i \in 1 .. n : os.server[i].scheme \in {s, "any"} => ~O!Counts(os.server[i].proxy)
             \/ For(s) \in Proxy
  <2>1. s \in {"any", "http", "https"}
    BY DEF O!Scheme
  <2> DEFINE a == Slot(s)
             b == Slot("any")
  <2>2. /\ \/ a = Unset /\ \A i \in 1 .. n : os.server[i].scheme = s => ~O!Counts(os.server[i].proxy)
           \/ a \in Proxy
        /\ \/ b = Unset /\ \A i \in 1 .. n : os.server[i].scheme = "any" => ~O!Counts(os.server[i].proxy)
           \/ b \in Proxy
    BY <1>5, <1>6, <2>1
  <2>3. O!Counts(a) <=> a \in Proxy
    BY <2>2, DistinctNames DEF Names, O!Counts
  <2>4. O!Counts(b) <=> b \in Proxy
    BY <2>2, DistinctNames DEF Names, O!Counts
  <2> HIDE DEF a, b, n
  <2>5. \/ O!FirstOf(a, b) = Unset /\ ~O!Counts(a) /\ ~O!Counts(b)
        \/ O!FirstOf(a, b) \in {a, b} /\ O!Counts(O!FirstOf(a, b))
    BY FirstOfTwo
  <2>6. \/ O!FirstOf(a, b) = Unset /\ \A i \in 1 .. n : os.server[i].scheme \in {s, "any"} => ~O!Counts(os.server[i].proxy)
        \/ O!FirstOf(a, b) \in Proxy
    BY <2>2, <2>3, <2>4, <2>5
  <2> QED BY <2>6 DEF a, b
<1> HIDE DEF For, n
\* A list that can be used.
<1>7. ASSUME O!WindowsStatic(os).kind # "unavailable"
      PROVE  /\ O!WindowsStatic(os) = O!Static(Or("https"), Or("http"), os.bypass)
             /\ Serves(O!WindowsStatic(os))
  <2>1. /\ ~\E i \in 1 .. n : os.server[i].scheme # "socks" /\ os.server[i].proxy = Bad
        /\ O!WindowsStatic(os) = O!Static(Or("https"), Or("http"), os.bypass)
    BY <1>1, <1>4, <1>7 DEF O!Unavailable
  <2>2. ASSUME NEW s \in O!Scheme PROVE Or(s) \in Proxy \cup {Bad, Unset} /\ (Or(s) = Unset => ~O!ConfiguredFor(s))
    <3>1. Or(s) = Unset => For(s) = Unset /\ \A i \in 1 .. n : os.server[i].scheme # "socks"
      BY <1>1, DistinctNames DEF Names, O!Socks
    <3>2. For(s) \in Proxy \cup {Unset}
      BY <1>6, <2>1
    <3>3. For(s) = Unset => \A i \in 1 .. n : os.server[i].scheme \in {s, "any"} => ~O!Counts(os.server[i].proxy)
      BY <1>6, <2>1, DistinctNames DEF Names
    <3> QED BY <1>2, <3>1, <3>2, <3>3
  <2> HIDE DEF Or
  <2>3. \A t \in os.bypass : O!Exempt(t)
    BY <1>1 DEF O!Exempt
  <2>4. Serves(O!Static(Or("https"), Or("http"), os.bypass))
    BY <2>2, <2>3, StaticFields DEF Serves, O!Scheme
  <2> QED BY <2>1, <2>4
<1>8. CASE O!WindowsStatic(os).kind = "unavailable"
  <2>1. O!WindowsStatic(os) = O!Unavailable
    BY <1>4, <1>8, StaticFields
  <2> QED BY <2>1 DEF O!WindowsPolicy, O!Unavailable, Faithful
<1>9. CASE O!WindowsStatic(os).kind # "unavailable"
  <2>1. O!WindowsStatic(os) # O!Unavailable /\ O!WindowsStatic(os).kind = "static" /\ Serves(O!WindowsStatic(os))
    BY <1>7, <1>9, StaticFields DEF O!Unavailable
  <2> HIDE DEF Or
  <2>2. CASE os.detect \/ os.script
    <3>1. O!WindowsPolicy(os) = O!AutoPolicy(os.detect, os.script, O!WindowsStatic(os))
      BY <2>1, <2>2 DEF O!WindowsPolicy
    <3> QED BY <1>3, <2>1, <2>2, <3>1 DEF O!AutoPolicy, Faithful
  <2>3. CASE ~(os.detect \/ os.script)
    BY <1>3, <2>1, <2>3 DEF O!WindowsPolicy, Faithful
  <2> QED BY <2>2, <2>3
<1> QED BY <1>8, <1>9

LEMMA PolicyIsFaithful ==
    ASSUME InputsType
    PROVE  Faithful(O!PolicyFromInputs(inputs))
<1>1. inputs.mode \in O!Mode /\ inputs.os \in O!Os /\ inputs.env \in O!Env
  BY DEF InputsType
<1>2. CASE inputs.mode = "direct"
  <2>1. O!PolicyFromInputs(inputs).kind = "direct"
    BY <1>2, DistinctNames DEF Names, O!PolicyFromInputs, O!DirectPolicy
  <2> QED BY <1>2, <2>1 DEF Faithful, O!Automatic, O!ConfiguredFor
<1>3. CASE inputs.mode \in {Bad, Self}
  BY <1>3, DistinctNames DEF Names, O!PolicyFromInputs, O!Unavailable, Faithful
<1>4. CASE inputs.mode \in Proxy
  <2>1. O!PolicyFromInputs(inputs) = O!Static(inputs.mode, inputs.mode, {})
    BY <1>4, DistinctNames DEF Names, O!PolicyFromInputs
  <2>2. ~O!Automatic
    BY <1>4, DistinctNames DEF Names, O!Automatic
  <2> QED BY <1>4, <2>1, <2>2, StaticFields, DistinctNames DEF Names, Faithful, Serves, O!Scheme
<1>5. CASE inputs.mode = "system"
  <2>1. O!PolicyFromInputs(inputs) = O!SystemPolicy(inputs.env, inputs.os)
    BY <1>5, DistinctNames DEF Names, O!PolicyFromInputs
  <2>2. CASE O!FromEnv
    BY <1>5, <2>1, <2>2, EnvIsFaithful
  <2>3. CASE ~O!FromEnv
    <3> DEFINE https == O!FirstOf(inputs.env.https, inputs.env.all)
               http == O!FirstOf(inputs.env.http, inputs.env.all)
    <3>1. https = Unset /\ http = Unset
      BY <2>3, FirstOfTwo DEF O!FromEnv, O!Counts
    <3>2. O!PolicyFromInputs(inputs) = O!OsPolicy(inputs.os)
      BY <2>1, <3>1, DistinctNames DEF Names, O!SystemPolicy
    <3>3. CASE inputs.os \in O!Windows
      BY <1>5, <2>3, <3>2, <3>3, WindowsIsFaithful DEF O!OsPolicy, O!Windows
    <3>4. CASE inputs.os \in O!Mac
      BY <1>5, <2>3, <3>2, <3>4, MacIsFaithful DEF O!OsPolicy, O!Mac
    <3>5. CASE inputs.os \in [kind : {"none", "unreadable"}]
      <4>1. \/ inputs.os.kind = "none" /\ O!PolicyFromInputs(inputs).kind = "direct"
            \/ inputs.os.kind = "unreadable" /\ O!PolicyFromInputs(inputs).kind = "unavailable"
        BY <3>2, <3>5 DEF O!OsPolicy, O!DirectPolicy, O!Unavailable
      <4>2. inputs.os.kind = "none" => ~O!Automatic /\ \A s \in O!Scheme : ~O!ConfiguredFor(s)
        BY <1>5, <2>3 DEF O!Automatic, O!ConfiguredFor
      <4> QED BY <4>1, <4>2 DEF Faithful
    <3> QED BY <1>1, <3>3, <3>4, <3>5 DEF O!Os
  <2> QED BY <2>2, <2>3
<1> QED BY <1>1, <1>2, <1>3, <1>4, <1>5 DEF O!Mode

(***************************************************************************)
(* Routes.                                                                 *)
(***************************************************************************)
\* A connection was routed by the policy that the configuration makes.
Routed ==
    \E scheme \in O!Scheme, target \in Target, outcome \in O!Outcome, detect \in BOOLEAN :
       LET policy == O!PolicyFromInputs(inputs) IN
       /\ asked.scheme = scheme /\ asked.target = target
       /\ \/ /\ target \in Loopback \/ policy.kind # "auto"
             /\ asked.route = O!RouteNow(policy, scheme, target)
          \/ /\ target \notin Loopback /\ policy.kind = "auto" /\ asked.outcome = outcome
             /\ asked.route = O!PacRoute(policy, detect, scheme, target, outcome)
RoutedInv == InputsType /\ (asked = O!NotAsked \/ Routed)

LEMMA StaticRouteIsConfigured ==
    ASSUME NEW static, Serves(static), NEW scheme \in O!Scheme, NEW target
    PROVE  /\ O!StaticRoute(static, scheme, target) # Self
           /\ O!StaticRoute(static, scheme, target) = Direct =>
                 O!Exempt(target) \/ ~O!ConfiguredFor(scheme) \/ O!PastSocks(scheme)
<1>1. /\ static[scheme] \in Proxy \cup {Bad, Unset}
      /\ static[scheme] = Unset => ~O!ConfiguredFor(scheme) \/ O!PastSocks(scheme)
      /\ (target \in static.bypass => O!Exempt(target))
  BY DEF Serves
<1> QED BY <1>1, DistinctNames DEF O!StaticRoute, Names

LEMMA RoutedAsConfigured ==
    ASSUME RoutedInv
    PROVE  O!RoutesAreConfigured
<1>1. CASE asked = O!NotAsked
  BY <1>1, DistinctNames DEF O!NotAsked, Names, O!RoutesAreConfigured, O!FailsClosed, O!NeverThroughItself
<1>2. CASE Routed
  <2> DEFINE policy == O!PolicyFromInputs(inputs)
  <2>1. Faithful(policy)
    BY PolicyIsFaithful DEF RoutedInv
  <2> HIDE DEF policy
  <2>2. PICK scheme \in O!Scheme, target \in Target, outcome \in O!Outcome, detect \in BOOLEAN :
           /\ asked.scheme = scheme /\ asked.target = target
           /\ \/ /\ target \in Loopback \/ policy.kind # "auto"
                 /\ asked.route = O!RouteNow(policy, scheme, target)
              \/ /\ target \notin Loopback /\ policy.kind = "auto" /\ asked.outcome = outcome
                 /\ asked.route = O!PacRoute(policy, detect, scheme, target, outcome)
    BY <1>2 DEF Routed, policy
  <2>3. CASE target \in Loopback \/ policy.kind # "auto"
    <3>1. asked.route = O!RouteNow(policy, scheme, target)
      BY <2>2, <2>3
    <3>2. CASE target \in Loopback
      BY <2>2, <3>1, <3>2, DistinctNames DEF O!RouteNow, O!Exempt, Names, O!RoutesAreConfigured, O!FailsClosed,
         O!NeverThroughItself
    <3>3. CASE target \notin Loopback /\ policy.kind = "direct"
      <4>1. asked.route = Direct
        BY <3>1, <3>3 DEF O!RouteNow
      <4> QED BY <2>1, <2>2, <3>3, <4>1, DistinctNames DEF Faithful, Names, O!RoutesAreConfigured, O!FailsClosed,
                 O!NeverThroughItself
    <3>4. CASE target \notin Loopback /\ policy.kind = "unavailable"
      <4>1. asked.route = Failed
        BY <3>1, <3>4 DEF O!RouteNow
      <4> QED BY <4>1, DistinctNames DEF Names, O!RoutesAreConfigured, O!FailsClosed, O!NeverThroughItself
    <3>5. CASE target \notin Loopback /\ policy.kind = "static"
      <4>1. asked.route = O!StaticRoute(policy, scheme, target)
        BY <3>1, <3>5 DEF O!RouteNow
      <4>2. Serves(policy) /\ ~O!Automatic
        BY <2>1, <3>5 DEF Faithful
      <4> QED BY <2>2, <4>1, <4>2, StaticRouteIsConfigured DEF O!RoutesAreConfigured, O!FailsClosed, O!NeverThroughItself
    <3> QED BY <2>1, <2>3, <3>2, <3>3, <3>4, <3>5 DEF Faithful
  <2>4. CASE target \notin Loopback /\ policy.kind = "auto"
    <3>1. asked.route = O!PacRoute(policy, detect, scheme, target, outcome) /\ asked.outcome = outcome
      BY <2>2, <2>4
    <3>2. O!Automatic /\ policy.script = inputs.os.script /\ Serves(policy.fallback)
      BY <2>1, <2>4 DEF Faithful
    <3> DEFINE static == O!StaticRoute(policy.fallback, scheme, target)
    <3>3. static # Self /\ (static = Direct => O!Exempt(target) \/ ~O!ConfiguredFor(scheme) \/ O!PastSocks(scheme))
      BY <3>2, StaticRouteIsConfigured
    <3> HIDE DEF static
    <3>4. \/ asked.route = Direct /\ target \in policy.fallback.bypass
          \/ asked.route = static /\ ~policy.script
          \/ asked.route = O!PacDecision(outcome, policy.script, policy.fallback, scheme, target)
      BY <3>1 DEF O!PacRoute, static
    <3>5. CASE asked.route = Direct /\ target \in policy.fallback.bypass
      <4>1. O!Exempt(target)
        BY <3>2, <3>5 DEF Serves
      <4> QED BY <2>2, <3>5, <4>1, DistinctNames DEF Names, O!RoutesAreConfigured, O!FailsClosed, O!NeverThroughItself
    <3>6. CASE asked.route = static /\ ~policy.script
      BY <2>2, <3>2, <3>3, <3>6 DEF O!RoutesAreConfigured, O!FailsClosed, O!NeverThroughItself
    <3>7. CASE asked.route = O!PacDecision(outcome, policy.script, policy.fallback, scheme, target)
      <4>1. \/ outcome \in Proxy \cup {Direct} /\ asked.route = outcome
            \/ ~policy.script /\ asked.route = static
            \/ asked.route = Failed
        BY <3>7 DEF O!PacDecision, static
      <4>2. CASE outcome \in Proxy \cup {Direct} /\ asked.route = outcome
        BY <3>1, <3>2, <4>2, DistinctNames DEF Names, O!RoutesAreConfigured, O!FailsClosed, O!NeverThroughItself
      <4>3. CASE ~policy.script /\ asked.route = static
        BY <3>6, <4>3
      <4>4. CASE asked.route = Failed
        BY <4>4, DistinctNames DEF Names, O!RoutesAreConfigured, O!FailsClosed, O!NeverThroughItself
      <4> QED BY <4>1, <4>2, <4>3, <4>4
    <3> QED BY <3>4, <3>5, <3>6, <3>7
  <2> QED BY <2>2, <2>3, <2>4
<1> QED BY <1>1, <1>2 DEF RoutedInv

LEMMA RouteStep ==
    ASSUME RoutedInv, O!Next
    PROVE  RoutedInv'
<1>1. CASE O!Decide
  BY <1>1 DEF O!Decide, O!Handle, RoutedInv, InputsType, Routed
<1>2. ASSUME NEW scheme \in O!Scheme, NEW target \in Target, O!Connect(scheme, target) PROVE RoutedInv'
  <2>1. UNCHANGED inputs /\ asked'.scheme = scheme /\ asked'.target = target
        /\ (target \in Loopback \/ O!PolicyFromInputs(inputs).kind # "auto")
        /\ asked'.route = O!RouteNow(O!PolicyFromInputs(inputs), scheme, target)
    BY <1>2 DEF O!Connect, O!Route
  <2>2. "error" \in O!Outcome
    BY DEF O!Outcome
  <2>3. Routed'
    BY <2>1, <2>2 DEF Routed
  <2> QED BY <2>1, <2>3 DEF RoutedInv, InputsType
<1>3. ASSUME NEW scheme \in O!Scheme, NEW target \in Target, NEW outcome \in O!Outcome, NEW detect \in BOOLEAN,
             O!ConnectAutomatically(scheme, target, outcome, detect)
      PROVE  RoutedInv'
  <2>1. UNCHANGED inputs /\ asked'.scheme = scheme /\ asked'.target = target /\ asked'.outcome = outcome
        /\ target \notin Loopback /\ O!PolicyFromInputs(inputs).kind = "auto"
        /\ asked'.route = O!PacRoute(O!PolicyFromInputs(inputs), detect, scheme, target, outcome)
    BY <1>3 DEF O!ConnectAutomatically, O!Route
  <2>2. Routed'
    BY <2>1 DEF Routed
  <2> QED BY <2>1, <2>2 DEF RoutedInv, InputsType
<1> QED BY <1>1, <1>2, <1>3 DEF O!Next

(***************************************************************************)
(* Whichever of the parts runs.                                            *)
(***************************************************************************)
\* While the records are the part that runs, their invariant holds.
RecordsInv == part = "records" => IInv
\* A request stays as it came, and what left is what the proxy decided for it.
RequestInv ==
    part = "request" =>
        /\ request \in Received /\ signing \subseteq Signers
        /\ egress = O!Pending \/ egress = O!Egress(request)
        /\ RoutedInv

mcVars == <<proofVars, part, outbound, answers>>

LEMMA MCInitInv == MCInit => RecordsInv /\ RequestInv
<1> SUFFICES ASSUME MCInit PROVE RecordsInv /\ RequestInv
  OBVIOUS
<1>1. RecordsInv
  BY InitIInv DEF MCInit, RecordsInv
<1>2. CASE part = "request" /\ O!Init
  <2>1. PICK c \in Cases : request = c.request /\ signing = c.signing /\ inputs = c.inputs
    BY <1>2 DEF O!Init
  <2>2. /\ c.request \in Received /\ c.signing \subseteq Login \cup {OutboundKey[p] : p \in O!Product}
        /\ c.inputs \in [mode : O!Mode, env : O!Env, os : O!Os]
    BY PartsAssumption DEF O!CasesAssumption
  <2>3. request \in Received /\ signing \subseteq Signers /\ InputsType
    BY <2>1, <2>2, Keys DEF Signers, InputsType
  <2> QED BY <1>1, <1>2, <2>3 DEF O!Init, RequestInv, RoutedInv
<1> QED BY <1>1, <1>2 DEF MCInit, RequestInv

LEMMA MCRecordStep == ASSUME RecordsInv, [MCNext]_mcVars PROVE RecordsInv'
BY RecordStep DEF RecordsInv, MCNext, mcVars, IInv, TypeOK, OwnsTheLock, AllIssued, SignsOnlyAsItself, IssuedFor,
   CoversTheFile, Told, proofVars, disk

\* What leaves depends on the request and on who has a record.
LEMMA EgressIsFixed ==
    ASSUME UNCHANGED <<request, signing>>
    PROVE  O!Egress(request)' = O!Egress(request)
BY DEF O!Egress, O!ForwardClaude, O!ForwardCodex, O!UpgradeCodex, O!ProofFor

LEMMA MCRequestStep == ASSUME RequestInv, [MCNext]_mcVars PROVE RequestInv'
<1>1. CASE part = "request" /\ O!Next /\ UNCHANGED part
  <2>1. RoutedInv'
    BY <1>1, RouteStep DEF RequestInv
  <2>2. /\ request' = request /\ signing' = signing
        /\ egress' = egress \/ egress' = O!Egress(request)
    BY <1>1 DEF O!Next, O!Decide, O!Handle, O!Connect, O!ConnectAutomatically, O!Route
  <2>3. (egress = O!Pending \/ egress = O!Egress(request))'
    BY <1>1, <2>2, EgressIsFixed DEF RequestInv, O!Pending
  <2> QED BY <1>1, <2>1, <2>2, <2>3 DEF RequestInv
<1>2. CASE part' = part /\ part # "request"
  BY <1>2 DEF RequestInv
<1>3. CASE UNCHANGED mcVars
  <2>1. UNCHANGED <<part, request, signing, egress, inputs, asked>>
    BY <1>3 DEF mcVars, outbound
  <2>2. O!Egress(request)' = O!Egress(request)
    BY <2>1, EgressIsFixed
  <2> QED BY <2>1, <2>2 DEF RequestInv, RoutedInv, InputsType, Routed, O!Pending
<1> QED BY <1>1, <1>2, <1>3 DEF MCNext

\* Whatever a client sends, with however many headers and cookies, what leaves
\* for it names one identity to whoever receives it, the one the client proof
\* was made for, and a login to OpenAI stays on the machine.
THEOREM OneIdentityLeaves == MCSpec => []OneProvenIdentity
<1>1. ASSUME RequestInv PROVE OneProvenIdentity
  <2> SUFFICES ASSUME part = "request" PROVE O!OneProvenIdentity
    BY DEF OneProvenIdentity
  <2>1. CASE egress = O!Pending
    BY <2>1 DEF O!OneProvenIdentity, O!ProofBindsCredential, O!OneIdentity, O!LoginStaysHere, O!Left
  <2>2. CASE egress = O!Egress(request)
    BY <1>1, <2>2, EgressIsProven DEF RequestInv
  <2> QED BY <1>1, <2>1, <2>2 DEF RequestInv
<1> QED BY <1>1, MCInitInv, MCRequestStep, PTL DEF MCSpec, mcVars

\* Whatever proxies the setting, the environment and the system name, a
\* connection goes by one that is configured for it, fails, or goes direct
\* where the configuration says so, or past the SOCKS proxy of macOS for the
\* scheme that has no proxy of its own; never through SAIAI itself.
THEOREM OnlyConfiguredRoutes == MCSpec => []RoutesAreConfigured
<1>1. ASSUME RequestInv PROVE RoutesAreConfigured
  BY <1>1, RoutedAsConfigured DEF RequestInv, RoutesAreConfigured
<1> QED BY <1>1, MCInitInv, MCRequestStep, PTL DEF MCSpec, mcVars

\* The device records keep their device ids and their revocations beside the
\* other parts too.
THEOREM RecordsStayKept == MCSpec => RecordsAreKept
<1>1. ASSUME RecordsInv, [MCNext]_mcVars PROVE [part = "records" => KeepsTheRecords]_proofVars
  <2> SUFFICES ASSUME part = "records", proofVars' # proofVars PROVE KeepsTheRecords
    OBVIOUS
  <2>1. IInv /\ Next
    BY <1>1 DEF RecordsInv, MCNext, mcVars
  <2> QED BY <2>1, StepKeepsTheRecords
<1> QED BY <1>1, MCInitInv, MCRecordStep, PTL DEF MCSpec, mcVars, RecordsAreKept

(***************************************************************************)
(* What is answered in place of the hosted services (LocalAnswers).  The   *)
(* sets of paths are told apart by the names in them; the answers by who   *)
(* is asked first; what the Statsig client was told by the order in which  *)
(* Desktop asks.                                                           *)
(***************************************************************************)
\* What is known of a path by the set it comes from.
LEMMA PathNames ==
    ASSUME NEW N, NEW p
    PROVE  /\ p \in A!At(N) => p.name \in N
           /\ p \in A!Under(N) => p.name \in N /\ p.base = TRUE
           /\ p \in A!Bare(N) => p.name \in N /\ p.base = FALSE
           /\ p \in A!At(N) \cup A!Under(N) \cup A!Bare(N) => p.of = Unnamed
BY DEF A!At, A!Under, A!Bare, A!Path

\* The endpoints of the synthetic account.
Sidecar == A!IdentityReads \cup A!Bootstrap \cup A!Profile
ReadNames == {"/accounts/optimized/check", "/wham/accounts/check", "/accounts/check/v4-2023-04-27",
              "/accounts/verified_access", "/conversations", "/system_hints", "/wham/profiles/me", "/me",
              "/payments/payment_methods", "/settings/user", "/wham/work/settings"}
SidecarNames == ReadNames \cup {"/accounts/of/settings", "/wham/statsig/bootstrap", "/profiles/me"}
CodexNames == {"/codex/responses", "/codex/responses/compact", "/codex/models",
                       "/codex/models/one", "/codex/images/generations", "/codex/images/edits"}

\* The names of the endpoints of the account, and of what is forwarded.
LEMMA SettingsNames == ASSUME NEW p \in A!Settings PROVE p.name = "/accounts/of/settings"
BY DEF A!Settings, A!Path
LEMMA ReadsByName == A!IdentityReads = A!At(ReadNames) \cup A!Settings
BY DEF A!IdentityReads, ReadNames
LEMMA IdentityNames == ASSUME NEW p \in A!IdentityReads PROVE p.name \in SidecarNames
BY ReadsByName, PathNames, SettingsNames DEF SidecarNames
LEMMA NamesOfSidecar == ASSUME NEW p \in Sidecar PROVE p.name \in SidecarNames
<1>1. p \in A!Bootstrap => p.name = "/wham/statsig/bootstrap"
  BY PathNames DEF A!Bootstrap
<1>2. p \in A!Profile => p.name = "/profiles/me"
  BY PathNames DEF A!Profile
<1> QED BY <1>1, <1>2, IdentityNames DEF Sidecar, SidecarNames
LEMMA NamesOfCodex == ASSUME NEW p \in A!CodexPaths PROVE  p.name \in CodexNames
BY PathNames DEF A!CodexPaths, CodexNames

ChatNames == {"/models", "/devicecheck", "/ios/attestation_challenge", "/f/conversation", "/f/conversation/resume",
           "/conversation/init", "/sentinel/chat-requirements/prepare", "/files",
           "/files/process_upload_stream", "/files/download/id", "/estuary/upload_content_bytes",
           "/estuary/content", "/celsius/ws/user", "/saiai/chat-updates", "/conversation/id", "/conversations/id",
           "/api/estuary/upload_content_bytes"}
LEMMA NamesOfChat == ASSUME NEW p \in A!ChatPaths PROVE  p.name \in ChatNames
<1>1. p \in A!OwnedConversations => p.name \in {"/conversation/id", "/conversations/id"}
  BY PathNames DEF A!OwnedConversations
<1> DEFINE U == {"/models", "/devicecheck", "/ios/attestation_challenge", "/f/conversation", "/f/conversation/resume",
           "/conversation/init", "/sentinel/chat-requirements/prepare", "/files",
           "/files/process_upload_stream", "/files/download/id", "/estuary/upload_content_bytes",
           "/estuary/content", "/celsius/ws/user", "/saiai/chat-updates"}
           B == {"/api/estuary/upload_content_bytes", "/celsius/ws/user"}
<1>2. A!ChatPaths = A!Under(U) \cup A!OwnedConversations \cup A!Bare(B)
  BY DEF A!ChatPaths
<1>3. U \cup B \cup {"/conversation/id", "/conversations/id"} \subseteq ChatNames
  BY DEF ChatNames
<1> HIDE DEF U, B
<1> QED BY <1>1, <1>2, <1>3, PathNames

\* Neither has one of the other, and constant answers have their own.
LEMMA NotForwarded == ASSUME NEW p \in Sidecar \cup {A!Initialize, A!Tools} PROVE p \notin A!CodexPaths \cup A!ChatPaths
<1>1. p.name \in SidecarNames \cup {"/v1/initialize", "/ps/mcp"}
  BY NamesOfSidecar DEF A!Initialize, A!Tools, A!Path
<1>2. p.name \notin CodexNames \cup ChatNames
  BY <1>1 DEF SidecarNames, ReadNames, CodexNames, ChatNames
<1> QED BY <1>2, NamesOfCodex, NamesOfChat

LEMMA NotConstant ==
    ASSUME NEW p \in Sidecar
    PROVE  /\ p \notin A!Plugins \cup A!Notifications \cup A!Telemetry \cup A!Counters /\ p # A!Initialize
           /\ p # A!Tools
<1>1. p.name \in SidecarNames
  BY NamesOfSidecar
<1>2. ASSUME p \in A!Plugins PROVE p.name \in {"/plugins/featured", "/ps/plugins/home", "/ps/plugins/suggested/codex", "/ps/plugins/list"}
  BY <1>2, PathNames DEF A!Plugins
<1>3. ASSUME p \in A!Notifications PROVE p.name = "/notifications/settings"
  BY <1>3, PathNames DEF A!Notifications
<1>4. ASSUME p \in A!Telemetry \cup A!Counters PROVE p.name \in {"/ces/statsc/flush", "/otlp/v1/metrics", "/ces/v1/rgstr", "/ces/v1/telemetry/intake"}
  <2>1. p \in A!Counters => p.name \in {"/ces/statsc/flush", "/otlp/v1/metrics"}
    BY PathNames DEF A!Counters
  <2> QED BY <1>4, <2>1, PathNames DEF A!Telemetry
<1>5. p # A!Initialize /\ p # A!Tools
  BY <1>1 DEF A!Initialize, A!Tools, A!Path, SidecarNames, ReadNames
<1> QED BY <1>1, <1>2, <1>3, <1>4, <1>5 DEF SidecarNames, ReadNames

\* A path, written with the prefix if it is without, and without if it has it.
Spelled(p) == [p EXCEPT !.base = ~@]

LEMMA SpelledBare == ASSUME NEW n, NEW o, NEW p, p = A!Path(TRUE, n, o) PROVE Spelled(p) = A!Path(FALSE, n, o)
<1> DEFINE x == ~p.base
<1>1. x = FALSE
  <2>1. p.base = TRUE
    BY DEF A!Path
  <2> QED BY <2>1
<1>2. [p EXCEPT !.base = x] = A!Path(x, n, o)
  <2> HIDE DEF x
  <2> QED BY DEF A!Path
<1>3. Spelled(p) = [p EXCEPT !.base = x]
  BY Zenon DEF Spelled
<1> HIDE DEF x
<1> QED BY <1>1, <1>2, <1>3

LEMMA SpelledUnder == ASSUME NEW n, NEW o, NEW p, p = A!Path(FALSE, n, o) PROVE Spelled(p) = A!Path(TRUE, n, o)
<1> DEFINE x == ~p.base
<1>1. x = TRUE
  <2>1. p.base = FALSE
    BY DEF A!Path
  <2> QED BY <2>1
<1>2. [p EXCEPT !.base = x] = A!Path(x, n, o)
  <2> HIDE DEF x
  <2> QED BY DEF A!Path
<1>3. Spelled(p) = [p EXCEPT !.base = x]
  BY Zenon DEF Spelled
<1> HIDE DEF x
<1> QED BY <1>1, <1>2, <1>3

LEMMA SpelledAt ==
    ASSUME NEW N, NEW p \in A!At(N)
    PROVE  Spelled(p) \in A!At(N)
<1>1. CASE p \in A!Under(N)
  <2>1. PICK n \in N : p = A!Path(TRUE, n, Unnamed)
    BY <1>1 DEF A!Under
  <2>2. Spelled(p) = A!Path(FALSE, n, Unnamed)
    BY <2>1, SpelledBare, SpelledUnder
  <2> QED BY <2>2 DEF A!At, A!Bare
<1>2. CASE p \in A!Bare(N)
  <2>1. PICK n \in N : p = A!Path(FALSE, n, Unnamed)
    BY <1>2 DEF A!Bare
  <2>2. Spelled(p) = A!Path(TRUE, n, Unnamed)
    BY <2>1, SpelledBare, SpelledUnder
  <2> QED BY <2>2 DEF A!At, A!Under
<1> QED BY <1>1, <1>2 DEF A!At

LEMMA SpelledSettings ==
    ASSUME NEW p \in A!Settings
    PROVE  Spelled(p) \in A!Settings /\ Spelled(p).of = p.of
<1> DEFINE t(a) == A!Path(TRUE, "/accounts/of/settings", a)
           f(a) == A!Path(FALSE, "/accounts/of/settings", a)
<1>1. PICK a \in Account : p = t(a) \/ p = f(a)
  BY DEF A!Settings
<1>2. t(a).of = a /\ f(a).of = a /\ t(a) \in A!Settings /\ f(a) \in A!Settings
  BY DEF A!Path, A!Settings
<1>3. CASE p = t(a)
  <2>1. Spelled(p) = f(a)
    BY <1>3, SpelledBare
  <2> QED BY Zenon, <1>2, <1>3, <2>1
<1>4. CASE p = f(a)
  <2>1. Spelled(p) = t(a)
    BY <1>4, SpelledUnder
  <2> QED BY Zenon, <1>2, <1>4, <2>1
<1> QED BY <1>1, <1>3, <1>4

\* Spelled otherwise twice, a path is itself.
LEMMA SpelledTwice ==
    ASSUME NEW p, NEW n, NEW o, p = A!Path(TRUE, n, o) \/ p = A!Path(FALSE, n, o),
           NEW q, q = Spelled(p)
    PROVE  Spelled(q) = p
<1>1. CASE p = A!Path(TRUE, n, o)
  <2>1. Spelled(p) = A!Path(FALSE, n, o)
    BY ONLY <1>1, SpelledBare
  <2>2. q = A!Path(FALSE, n, o)
    BY <2>1
  <2>3. Spelled(q) = A!Path(TRUE, n, o)
    BY ONLY <2>2, SpelledUnder
  <2> QED BY <1>1, <2>3
<1>2. CASE p = A!Path(FALSE, n, o)
  <2>1. Spelled(p) = A!Path(TRUE, n, o)
    BY ONLY <1>2, SpelledUnder
  <2>2. q = A!Path(TRUE, n, o)
    BY <2>1
  <2>3. Spelled(q) = A!Path(FALSE, n, o)
    BY ONLY <2>2, SpelledBare
  <2> QED BY <1>2, <2>3
<1> QED BY <1>1, <1>2

LEMMA SidecarPath ==
    ASSUME NEW p \in Sidecar
    PROVE  \E n, o : p = A!Path(TRUE, n, o) \/ p = A!Path(FALSE, n, o)
<1>1. ASSUME NEW N, p \in A!At(N) PROVE \E n : p = A!Path(TRUE, n, Unnamed) \/ p = A!Path(FALSE, n, Unnamed)
  BY <1>1 DEF A!At, A!Under, A!Bare
<1>2. CASE p \in A!Settings
  BY <1>2 DEF A!Settings
<1>3. CASE p \in Sidecar \ A!Settings
  <2>1. \E N : p \in A!At(N)
    BY <1>3 DEF Sidecar, A!IdentityReads, A!Bootstrap, A!Profile
  <2> QED BY <1>1, <2>1
<1> QED BY <1>2, <1>3

\* What either spelling is an endpoint of.
LEMMA SpelledInto ==
    ASSUME NEW p, NEW q, q = Spelled(p)
    PROVE  /\ p \in A!Settings => q \in A!Settings /\ q.of = p.of
           /\ p \in A!IdentityReads => q \in A!IdentityReads
           /\ p \in A!WorkSettings => q \in A!WorkSettings
           /\ p \in A!Naming => q \in A!Naming
           /\ p \in A!Profile => q \in A!Profile
           /\ p \in A!Bootstrap => q \in A!Bootstrap
BY SpelledAt, SpelledSettings DEF A!IdentityReads, A!WorkSettings, A!Naming, A!Profile, A!Bootstrap

\* The other spelling of a path of the account's sidecar is the same endpoint.
LEMMA SpelledSidecar ==
    ASSUME NEW p \in Sidecar, NEW q, q = Spelled(p)
    PROVE  /\ q \in Sidecar
           /\ p \in A!Settings => q.of = p.of
           /\ q \in A!IdentityReads <=> p \in A!IdentityReads
           /\ q \in A!Settings <=> p \in A!Settings
           /\ q \in A!WorkSettings <=> p \in A!WorkSettings
           /\ q \in A!Naming <=> p \in A!Naming
           /\ q \in A!Profile <=> p \in A!Profile
           /\ q \in A!Bootstrap <=> p \in A!Bootstrap
<1>1. p = Spelled(q)
  <2>1. PICK n, o : p = A!Path(TRUE, n, o) \/ p = A!Path(FALSE, n, o)
    BY SidecarPath
  <2> QED BY Zenon, <2>1, SpelledTwice
<1> HIDE DEF Sidecar
<1>2. /\ p \in A!Settings => q \in A!Settings /\ q.of = p.of
      /\ p \in A!IdentityReads => q \in A!IdentityReads
      /\ p \in A!WorkSettings => q \in A!WorkSettings
      /\ p \in A!Naming => q \in A!Naming
      /\ p \in A!Profile => q \in A!Profile
      /\ p \in A!Bootstrap => q \in A!Bootstrap
  BY SpelledInto
<1>3. /\ q \in A!Settings => p \in A!Settings
      /\ q \in A!IdentityReads => p \in A!IdentityReads
      /\ q \in A!WorkSettings => p \in A!WorkSettings
      /\ q \in A!Naming => p \in A!Naming
      /\ q \in A!Profile => p \in A!Profile
      /\ q \in A!Bootstrap => p \in A!Bootstrap
  BY <1>1, SpelledInto
<1> QED BY Zenon, <1>2, <1>3 DEF Sidecar

\* The answers, field by field.
LEMMA LocalFields ==
    ASSUME NEW s
    PROVE  A!Local(s).way = "local" /\ A!Local(s).status = s /\ A!Local(s).identity = A!NoIdentity
BY DEF A!Local, A!Answer

LEMMA EvaluatedFields ==
    ASSUME NEW i
    PROVE  /\ A!Evaluated(i).way = "local" /\ A!Evaluated(i).status = 200
           /\ A!Evaluated(i).identity = i /\ A!Evaluated(i).gates = switches.browser
BY DEF A!Evaluated, A!Local, A!Answer

LEMMA Statuses ==
    /\ A!Local(200).status = 200 /\ A!Local(204).status = 204 /\ A!Local(501).status = 501
    /\ A!Local(413).status = 413 /\ A!Local(405).status = 405
    /\ A!Passed.status # 200
BY LocalFields DEF A!Passed, A!Answer

Locals == {A!Local(200), A!Local(501), A!Local(405), A!Local(413), A!Local(204)}
LEMMA LocalWays == ASSUME NEW a \in Locals PROVE a.way = "local" /\ a.identity = A!NoIdentity
BY DEF Locals, A!Local, A!Answer

LEMMA PassedFields == A!Passed.way = "passed on" /\ A!Passed.status = 0 /\ A!Passed.identity = A!NoIdentity
BY DEF A!Passed, A!Answer

LEMMA EndedFields == A!Ended.way = "ended" /\ A!Ended.status = 0 /\ A!Ended.identity = A!NoIdentity
BY DEF A!Ended, A!Answer

LEMMA GatewayFields == A!Gateway.way = "gateway" /\ A!Gateway.status = 0 /\ A!Gateway.identity = A!NoIdentity
BY DEF A!Gateway, A!Answer

LEMMA SilentFields == A!Silent.way = "none" /\ A!Silent.status = 0 /\ A!Silent.identity = A!NoIdentity
BY DEF A!Silent, A!Answer

LEMMA NamedFields ==
    ASSUME NEW r
    PROVE  A!Named(r).way = "local" /\ A!Named(r).status = 200 /\ A!Named(r).identity = A!IdentityOf(r)
BY DEF A!Named, A!Local, A!Answer

\* What the account's sidecar answers but for an evaluation.
Answers(r) == {A!Passed, A!Named(r), A!Local(200), A!Local(501), A!Local(413), A!Evaluated(A!IdentityOf(r))}

\* What the account's sidecar may answer.
LEMMA IdentityCases ==
    ASSUME NEW r
    PROVE  \/ A!IdentityAnswer(r) \in Answers(r)
           \/ r.path = A!Initialize /\ A!IdentityAnswer(r) = A!InitializeAnswer(r)
<1>1. A!ToolsAnswer(r) \in Answers(r)
  BY DEF A!ToolsAnswer, Answers
<1>2. A!BootstrapAnswer(r) \in Answers(r)
  BY DEF A!BootstrapAnswer, Answers
<1>3. CASE r.path = A!Initialize
  <2> QED BY <1>1, <1>2, <1>3 DEF A!IdentityAnswer, Answers
<1>4. CASE r.path # A!Initialize
  <2> QED BY <1>1, <1>2, <1>4 DEF A!IdentityAnswer, Answers
<1> QED BY <1>3, <1>4

LEMMA AccountCases ==
    ASSUME NEW r
    PROVE  \/ A!AccountAnswer(r) \in Answers(r)
           \/ r.path = A!Initialize /\ A!AccountAnswer(r) = A!InitializeAnswer(r)
BY IdentityCases DEF A!AccountAnswer, Answers

\* A constant answer names nobody, and for an endpoint of the account it is a refusal.
LEMMA ConstantCases ==
    ASSUME NEW r
    PROVE  /\ A!ConstantAnswer(r).way \in {"local", "passed on"}
           /\ A!ConstantAnswer(r).identity = A!NoIdentity
           /\ r.path \in Sidecar => A!ConstantAnswer(r) \in {A!Local(501), A!Passed}
<1>1. \/ A!ConstantAnswer(r) \in Locals
      \/ A!ConstantAnswer(r) = A!Passed
      \/ A!ConstantAnswer(r) = [A!Local(200) EXCEPT !.gates = switches.browser]
  BY DEF A!ConstantAnswer, Locals
<1>2. /\ [A!Local(200) EXCEPT !.gates = switches.browser].way = "local"
      /\ [A!Local(200) EXCEPT !.gates = switches.browser].identity = A!NoIdentity
  BY DEF A!Local, A!Answer
<1>3. r.path \in Sidecar => A!ConstantAnswer(r) \in {A!Local(501), A!Passed}
  <2> HIDE DEF Sidecar
  <2> QED BY NotConstant DEF A!ConstantAnswer
<1> HIDE DEF Sidecar
<1> DEFINE w == A!ConstantAnswer(r)
<1>4. w.way \in {"local", "passed on"} /\ w.identity = A!NoIdentity
  <2> HIDE DEF w
  <2>1. \/ w \in Locals
        \/ w = A!Passed
        \/ w = [A!Local(200) EXCEPT !.gates = switches.browser]
    BY <1>1 DEF w
  <2>2. CASE w = [A!Local(200) EXCEPT !.gates = switches.browser]
    BY <1>2, <2>2
  <2>3. CASE w = A!Passed
    BY <2>3, PassedFields
  <2>4. CASE w \in Locals
    BY <2>4, LocalWays
  <2> QED BY <2>1, <2>2, <2>3, <2>4
<1> QED BY <1>3, <1>4

\* For such an endpoint the account's sidecar is asked first, and succeeds alone.
LEMMA SidecarAnswers ==
    ASSUME NEW r, r.host = "chatgpt", r.path \in Sidecar \cup {A!Initialize, A!Tools}
    PROVE  A!Answered(r) = A!FirstOf(A!FirstOf(A!AccountAnswer(r), A!ConstantAnswer(r)), A!Ended)
BY NotForwarded DEF A!Answered, A!ChatGPTAnswer

LEMMA AccountFirst ==
    ASSUME NEW r, r.host = "chatgpt", r.path \in Sidecar \cup {A!Initialize, A!Tools}, A!AccountAnswer(r) # A!Passed
    PROVE  A!Answered(r) = A!AccountAnswer(r)
BY SidecarAnswers DEF A!FirstOf

LEMMA OnlyTheAccount ==
    ASSUME NEW r, r.host = "chatgpt", r.path \in Sidecar, A!Answered(r).status = 200
    PROVE  A!AccountAnswer(r) # A!Passed /\ A!Answered(r) = A!AccountAnswer(r)
<1>1. CASE A!AccountAnswer(r) = A!Passed
  <2> HIDE DEF Sidecar
  <2>1. A!Answered(r) = A!FirstOf(A!ConstantAnswer(r), A!Ended)
    BY <1>1, SidecarAnswers DEF A!FirstOf
  <2>2. A!ConstantAnswer(r) \in {A!Local(501), A!Passed}
    BY ConstantCases
  <2>3. A!Answered(r) \in {A!Local(501), A!Ended, A!Passed}
    BY <2>1, <2>2 DEF A!FirstOf
  <2>4. A!Local(501).status = 501 /\ A!Ended.status = 0 /\ A!Passed.status = 0
    BY Zenon, Statuses, EndedFields, PassedFields
  <2>5. A!Answered(r).status \in {0, 501}
    BY <2>3, <2>4
  <2> QED BY <2>5
<1>2. CASE A!AccountAnswer(r) # A!Passed
  BY <1>2, AccountFirst
<1> QED BY <1>1, <1>2

\* What each host is asked.
LEMMA Asked ==
    ASSUME NEW hs, NEW ps, NEW r \in A!Ask(hs, ps)
    PROVE  r.host = hs /\ r.path \in ps /\ r.body \in A!Bodies(hs, r.path)
BY DEF A!Ask

LEMMA RequestPaths ==
    ASSUME NEW r \in A!Requests
    PROVE  /\ r.host \in {"chatgpt", "openai", "anthropic"}
           /\ r.host = "chatgpt" => r.path \in A!DesktopPaths
           /\ r.host = "openai" => r.path \in A!OpenAIForwarded \cup A!Unserved
           /\ r.host = "anthropic" => r.path \in A!ClaudeForwarded \cup A!ClaudeControl \cup A!Unserved
           /\ r.body = "identity" => r.host = "chatgpt"
<1>1. /\ r \in A!Ask("chatgpt", A!DesktopPaths) => r.host = "chatgpt" /\ r.path \in A!DesktopPaths
      /\ r \in A!Ask("openai", A!OpenAIForwarded \cup A!Unserved) => r.host = "openai" /\ r.path \in A!OpenAIForwarded \cup A!Unserved
                                /\ r.body = "unreadable"
      /\ r \in A!Ask("anthropic", A!ClaudeForwarded \cup A!ClaudeControl \cup A!Unserved) => r.host = "anthropic"
              /\ r.path \in A!ClaudeForwarded \cup A!ClaudeControl \cup A!Unserved /\ r.body = "unreadable"
  BY Asked DEF A!Bodies
<1> QED BY <1>1 DEF A!Requests

\* The kinds of endpoints of the account.
LEMMA AtMonotone == ASSUME NEW M, NEW N, M \subseteq N PROVE A!At(M) \subseteq A!At(N)
BY DEF A!At, A!Under, A!Bare

LEMMA IdentityParts == A!Settings \cup A!WorkSettings \cup A!Naming \subseteq A!IdentityReads
<1> DEFINE N == {"/accounts/optimized/check", "/wham/accounts/check", "/accounts/check/v4-2023-04-27", "/me"}
           W == {"/wham/work/settings"}
<1>1. A!Naming = A!At(N) /\ A!WorkSettings = A!At(W)
  BY DEF A!Naming, A!WorkSettings
<1>2. N \subseteq ReadNames /\ W \subseteq ReadNames
  BY DEF ReadNames
<1> HIDE DEF N, W
<1> QED BY <1>1, <1>2, ReadsByName, AtMonotone

\* An endpoint of the account's sidecar is of one kind.
LEMMA SidecarApart ==
    ASSUME NEW p
    PROVE  /\ p \in A!Profile => p \notin A!IdentityReads \cup A!Bootstrap
           /\ p \in A!Bootstrap => p \notin A!IdentityReads \cup A!Profile
           /\ p \in A!Settings => p \notin A!WorkSettings \cup A!Naming
           /\ p \in A!WorkSettings => p \notin A!Settings \cup A!Naming
           /\ p \in Sidecar => p # A!Initialize /\ p # A!Tools
<1>1. p \in A!Profile => p.name = "/profiles/me"
  BY PathNames DEF A!Profile
<1>2. p \in A!Bootstrap => p.name = "/wham/statsig/bootstrap"
  BY PathNames DEF A!Bootstrap
<1>3. p \in A!WorkSettings => p.name = "/wham/work/settings"
  BY PathNames DEF A!WorkSettings
<1>4. p \in A!Settings => p.name = "/accounts/of/settings"
  BY SettingsNames
<1>5. p \in A!Naming => p.name \in {"/accounts/optimized/check", "/wham/accounts/check", "/accounts/check/v4-2023-04-27", "/me"}
  BY PathNames DEF A!Naming
<1>6. p \in A!IdentityReads => p.name \in SidecarNames \ {"/profiles/me", "/wham/statsig/bootstrap"}
  <2>1. ReadNames \subseteq SidecarNames \ {"/profiles/me", "/wham/statsig/bootstrap"}
    BY DEF SidecarNames, ReadNames
  <2>2. "/accounts/of/settings" \in SidecarNames \ {"/profiles/me", "/wham/statsig/bootstrap"}
    BY DEF SidecarNames
  <2> QED BY <2>1, <2>2, <1>4, ReadsByName, PathNames
<1> QED BY <1>1, <1>2, <1>3, <1>4, <1>5, <1>6, NotConstant DEF SidecarNames, ReadNames

\* The same request, as a read.
LEMMA AsRead ==
    ASSUME NEW r, NEW g, g = [r EXCEPT !.method = "GET"], r \in A!Requests
    PROVE  g.method = "GET" /\ g.path = r.path /\ g.carries = r.carries /\ g.body = r.body
BY DEF A!Requests, A!Ask

\* A write to what can be read is refused.
LEMMA ReadOfIdentity ==
    ASSUME A!OfIdentity(question), question \in A!Requests
    PROVE  /\ question.host = "chatgpt" /\ question.path \in Sidecar
           /\ A!AccountAnswer(question).way = "local"
           /\ question.method # "GET" /\ question.path \notin A!Bootstrap => A!AccountAnswer(question).status = 501
<1> DEFINE r == question
           g == [r EXCEPT !.method = "GET"]
<1>1. /\ g.method = "GET" /\ g.path = r.path /\ g.carries = r.carries /\ g.body = r.body
  BY AsRead
<1>2. /\ r.host = "chatgpt" /\ r.path # A!Initialize /\ r.path # A!Tools /\ A!AccountAnswer(g).status = 200
  BY DEF A!OfIdentity
<1> HIDE DEF g
<1>3. A!AccountAnswer(g) = A!IdentityAnswer(g)
  BY <1>1 DEF A!AccountAnswer, A!RefusesWrite
<1>4. r.path \in Sidecar
  <2> SUFFICES ASSUME r.path \notin A!IdentityReads, r.path \notin A!Profile, r.path \notin A!Bootstrap PROVE FALSE
    BY DEF Sidecar
  <2>1. r.path \notin A!Settings \cup A!WorkSettings \cup A!Naming
    BY IdentityParts
  <2>2. A!IdentityAnswer(g) = A!Passed
    BY <1>1, <1>2, <2>1 DEF A!IdentityAnswer
  <2> QED BY <1>2, <1>3, <2>2, Statuses
<1>5. CASE r.method # "GET" /\ r.path \in A!IdentityReads
  BY <1>2, <1>4, <1>5, LocalFields DEF A!AccountAnswer, A!RefusesWrite
<1>6. CASE r.method # "GET" /\ r.path \notin A!IdentityReads
  <2>1. A!AccountAnswer(r) = A!IdentityAnswer(r)
    BY <1>6 DEF A!AccountAnswer, A!RefusesWrite
  <2>2. r.path \notin A!Settings \cup A!WorkSettings \cup A!Naming /\ r.path # A!Tools
    BY <1>6, <1>2, IdentityParts
  <2>3. CASE r.path \in A!Profile
    <3>1. A!AccountAnswer(r) = A!Local(501)
      BY <1>6, <2>1, <2>2, <2>3, SidecarApart, <1>2 DEF A!IdentityAnswer
    <3> QED BY <3>1, <1>2, <1>4, LocalFields
  <2>4. CASE r.path \in A!Bootstrap /\ r.path \notin A!Profile
    <3>1. A!AccountAnswer(r) = A!BootstrapAnswer(r)
      BY <1>6, <2>1, <2>2, <2>4, SidecarApart, <1>2 DEF A!IdentityAnswer
    <3> QED BY <3>1, <2>4, <1>2, <1>4, LocalFields, EvaluatedFields DEF A!BootstrapAnswer
  <2> QED BY <1>4, <1>6, <2>3, <2>4 DEF Sidecar
<1>7. CASE r.method = "GET"
  <2>1. A!AccountAnswer(r) = A!AccountAnswer(g)
    BY <1>1, <1>7 DEF A!AccountAnswer, A!RefusesWrite, A!IdentityAnswer, A!Named, A!IdentityOf, A!AccountOf, A!UserIn,
       A!ToolsAnswer, A!BootstrapAnswer, A!InitializeAnswer
  <2>2. A!AccountAnswer(r) \in Answers(r)
    BY <1>2, AccountCases
  <2>3. A!AccountAnswer(r) # A!Passed
    BY <1>2, <2>1, Statuses
  <2> QED BY <1>2, <1>4, <1>7, <2>2, <2>3, LocalFields, EvaluatedFields, NamedFields DEF Answers
<1> QED BY <1>5, <1>6, <1>7

\* No write has a synthetic success or leaves.
LEMMA WritesRefused ==
    ASSUME question \in A!Requests, answer = A!Answered(question) PROVE A!WritesAreRefused
<1>1. ASSUME A!OfIdentity(question)
      PROVE  answer.way = "local" /\ (question.method # "GET" /\ question.path \notin A!Bootstrap => answer.status = 501)
  <2>1. A!AccountAnswer(question) # A!Passed
    BY <1>1, ReadOfIdentity, PassedFields
  <2> QED BY <1>1, <2>1, ReadOfIdentity, AccountFirst
<1> QED BY <1>1 DEF A!WritesAreRefused

\* Whom it names, and that it stays.
LEMMA AnswersFields ==
    ASSUME NEW r, NEW a \in Answers(r)
    PROVE  a.identity \in {A!NoIdentity, A!IdentityOf(r)} /\ a.way \in {"local", "passed on"}
<1>1. CASE a \in Locals
  BY <1>1, LocalWays
<1>2. CASE a = A!Evaluated(A!IdentityOf(r))
  BY <1>2, EvaluatedFields
<1>3. CASE a = A!Named(r)
  BY <1>3, NamedFields
<1>5. CASE a = A!Passed
  BY <1>5, PassedFields
<1>4. \/ a \in Locals
      \/ a = A!Evaluated(A!IdentityOf(r))
      \/ a = A!Named(r) \/ a = A!Passed
  BY DEF Answers, Locals
<1> QED BY <1>1, <1>2, <1>3, <1>4, <1>5

LEMMA IdentityOfLogin ==
    ASSUME NEW r, r.carries # {} PROVE A!IdentityOf(r).account = account
BY DEF A!IdentityOf, A!AccountOf

LEMMA Unidentified == A!NoIdentity.account = Unnamed
BY DEF A!NoIdentity

\* Whom an answer names.
LEMMA AnswersName ==
    ASSUME question \in A!Requests, question.host = "chatgpt", question.carries # {}, question.path # A!Initialize
    PROVE  A!Answered(question).identity.account \in {account, Unnamed}
<1> DEFINE r == question
           c == A!ConstantAnswer(r)
           a == A!AccountAnswer(r)
<1>1. a.identity.account \in {account, Unnamed}
  <2>1. a \in Answers(r)
    BY AccountCases
  <2>2. a.identity \in {A!NoIdentity, A!IdentityOf(r)}
    <3> HIDE DEF a
    <3> QED BY <2>1, AnswersFields
  <2> QED BY <2>2, Unidentified, IdentityOfLogin
<1>2. c.identity.account = Unnamed
  BY ConstantCases, Unidentified
<1>3. A!Answered(r) \in {A!Gateway, A!Local(501), a, c, A!Ended}
  BY DEF A!Answered, A!ChatGPTAnswer, A!FirstOf
<1> HIDE DEF a, c
<1>4. A!Gateway.identity = A!NoIdentity /\ A!Local(501).identity = A!NoIdentity /\ A!Ended.identity = A!NoIdentity
  BY LocalFields, GatewayFields, EndedFields
<1> QED BY <1>1, <1>2, <1>3, <1>4, Unidentified

\* The settings of another account are refused.
LEMMA SettingsOfItsOwn ==
    ASSUME question \in A!Requests, question.host = "chatgpt", question.carries # {}, question.path \in A!Settings,
           A!Answered(question).status = 200
    PROVE  question.path.of = account
<1> DEFINE r == question
<1>1. r.path \in Sidecar /\ r.path \in A!IdentityReads
  BY IdentityParts DEF Sidecar
<1>2. A!AccountAnswer(r) # A!Passed /\ A!AccountAnswer(r).status = 200
  <2> HIDE DEF Sidecar
  <2> QED BY <1>1, OnlyTheAccount
<1>3. A!AccountAnswer(r) = A!IdentityAnswer(r)
  BY <1>2, Statuses DEF A!AccountAnswer
<1>4. r.path.of = A!AccountOf(r)
  BY <1>1, <1>2, <1>3, SidecarApart DEF A!IdentityAnswer
<1> QED BY <1>4 DEF A!AccountOf

\* What the account's sidecar answers depends on which endpoint it is, not on
\* how its path is spelled.
LEMMA SpelledAccount ==
    ASSUME NEW r, NEW q, r.path \in Sidecar, q.path = Spelled(r.path),
           q.method = r.method, q.carries = r.carries, q.body = r.body
    PROVE  A!AccountAnswer(q) = A!AccountAnswer(r)
<1>1. /\ q.path \in Sidecar
      /\ r.path \in A!Settings => q.path.of = r.path.of
      /\ q.path \in A!IdentityReads <=> r.path \in A!IdentityReads
      /\ q.path \in A!Settings <=> r.path \in A!Settings
      /\ q.path \in A!WorkSettings <=> r.path \in A!WorkSettings
      /\ q.path \in A!Naming <=> r.path \in A!Naming
      /\ q.path \in A!Profile <=> r.path \in A!Profile
      /\ q.path \in A!Bootstrap <=> r.path \in A!Bootstrap
  BY SpelledSidecar
<1>2. A!AccountOf(q) = A!AccountOf(r) /\ A!IdentityOf(q) = A!IdentityOf(r) /\ A!Named(q) = A!Named(r)
  BY DEF A!AccountOf, A!UserIn, A!IdentityOf, A!Named
<1>3. A!BootstrapAnswer(q) = A!BootstrapAnswer(r)
  BY <1>2 DEF A!BootstrapAnswer
<1>4. /\ q.path # A!Initialize /\ q.path # A!Tools /\ r.path # A!Initialize /\ r.path # A!Tools
  <2> HIDE DEF Sidecar
  <2> QED BY <1>1, SidecarApart
<1>5. A!IdentityAnswer(q) = A!IdentityAnswer(r)
  <2>1. CASE r.path \in A!Settings
    BY <1>1, <1>2, <1>4, <2>1, SidecarApart, IdentityParts DEF A!IdentityAnswer
  <2>2. CASE r.path \in A!WorkSettings
    BY <1>1, <1>2, <1>4, <2>2, SidecarApart, IdentityParts DEF A!IdentityAnswer
  <2>3. CASE r.path \in A!Naming
    BY <1>1, <1>2, <1>4, <2>3, SidecarApart, IdentityParts DEF A!IdentityAnswer
  <2>4. CASE r.path \in A!IdentityReads \ (A!Settings \cup A!WorkSettings \cup A!Naming)
    BY <1>1, <1>2, <1>4, <2>4, SidecarApart, IdentityParts DEF A!IdentityAnswer
  <2>5. CASE r.path \in A!Profile
    BY <1>1, <1>2, <1>4, <2>5, SidecarApart, IdentityParts DEF A!IdentityAnswer
  <2>6. CASE r.path \in A!Bootstrap
    BY <1>1, <1>2, <1>3, <1>4, <2>6, SidecarApart, IdentityParts DEF A!IdentityAnswer
  <2> QED BY <2>1, <2>2, <2>3, <2>4, <2>5, <2>6 DEF Sidecar
<1> QED BY <1>1, <1>5 DEF A!AccountAnswer, A!RefusesWrite

LEMMA SpelledFields ==
    ASSUME NEW r \in A!Requests, NEW q, q = A!OtherSpelling(r)
    PROVE  /\ q.path = Spelled(r.path) /\ q.host = r.host
           /\ q.method = r.method /\ q.carries = r.carries /\ q.body = r.body
BY DEF A!OtherSpelling, A!Requests, A!Ask, Spelled

LEMMA SpelledTheSame ==
    ASSUME question \in A!Requests, question.host = "chatgpt", question.path \in Sidecar,
           A!Answered(question).status = 200
    PROVE  A!Answered(A!OtherSpelling(question)) = A!Answered(question)
<1> DEFINE r == question
           q == A!OtherSpelling(r)
<1> HIDE DEF Sidecar
<1>1. A!AccountAnswer(r) # A!Passed /\ A!Answered(r) = A!AccountAnswer(r)
  BY OnlyTheAccount
<1>2. /\ q.path = Spelled(r.path) /\ q.host = r.host
      /\ q.method = r.method /\ q.carries = r.carries /\ q.body = r.body
  BY SpelledFields
<1> HIDE DEF q
<1>3. A!AccountAnswer(q) = A!AccountAnswer(r)
  BY <1>2, SpelledAccount
<1>4. q.path \in Sidecar
  BY <1>2, SpelledSidecar
<1>5. A!Answered(q) = A!AccountAnswer(q)
  BY <1>1, <1>2, <1>3, <1>4, AccountFirst
<1> QED BY <1>1, <1>3, <1>5 DEF q

\* One account is found, its own, however the path is spelled.
LEMMA OneAccountFound ==
    ASSUME question \in A!Requests, answer = A!Answered(question) PROVE A!OneAccount
<1> SUFFICES ASSUME question.host = "chatgpt", question.carries # {}
    PROVE /\ question.path # A!Initialize => answer.identity.account \in {account, Unnamed}
          /\ question.path \in A!Settings /\ answer.status = 200 => question.path.of = account
          /\ question.path \in Sidecar /\ question.method = "GET" /\ answer.status = 200 =>
              A!Answered(A!OtherSpelling(question)) = answer
  BY DEF A!OneAccount, Sidecar
<1> QED BY AnswersName, SettingsOfItsOwn, SpelledTheSame

\* An evaluation is answered from what the Statsig client was told.
LEMMA AccountEvaluates ==
    ASSUME NEW r, r.path = A!Initialize
    PROVE  A!AccountAnswer(r) = A!InitializeAnswer(r)
<1>1. r.path \notin A!IdentityReads \cup A!Profile \cup A!Bootstrap /\ r.path # A!Tools
  <2>1. r.path \notin Sidecar
    <3> HIDE DEF Sidecar
    <3> QED BY SidecarApart
  <2>2. A!Initialize # A!Tools
    <3>1. A!Initialize.name # A!Tools.name
      BY DEF A!Initialize, A!Tools, A!Path
    <3> QED BY <3>1
  <2> QED BY <2>1, <2>2 DEF Sidecar
<1>2. A!IdentityAnswer(r) = A!InitializeAnswer(r)
  <2>1. r.path \notin A!Settings \cup A!WorkSettings \cup A!Naming
    BY <1>1, IdentityParts
  <2> QED BY <1>1, <2>1 DEF A!IdentityAnswer
<1> QED BY <1>1, <1>2 DEF A!AccountAnswer, A!RefusesWrite

LEMMA AnsweredByEvaluation ==
    ASSUME NEW r, r.host = "chatgpt", r.path = A!Initialize, A!InitializeAnswer(r) # A!Passed
    PROVE  A!Answered(r) = A!InitializeAnswer(r)
BY AccountEvaluates, AccountFirst

LEMMA EvaluatedAsTold ==
    ASSUME question \in A!Requests, question.path = A!Initialize, question.body = "identity", question.method = "POST",
           sdk.identity # A!NoIdentity
    PROVE  A!Answered(question) = A!Evaluated(sdk.identity)
<1>1. question.host = "chatgpt"
  BY RequestPaths
<1>2. A!InitializeAnswer(question) = A!Evaluated(sdk.identity)
  BY DEF A!InitializeAnswer
<1>3. A!Evaluated(sdk.identity) # A!Passed
  BY EvaluatedFields, PassedFields
<1> QED BY <1>1, <1>2, <1>3, AnsweredByEvaluation

LEMMA AtNamed == ASSUME NEW N, NEW n, NEW p \in A!At(N), p.name = n PROVE p \in A!At({n})
BY DEF A!At, A!Under, A!Bare, A!Path

ControlNames == {"/elsewhere", "/wham/tasks", "/accounts/elsewhere", "/beacons/home", "/automations"}
TelemetryNames == {"/ces/statsc/flush", "/otlp/v1/metrics", "/ces/v1/rgstr", "/ces/v1/telemetry/intake"}
PluginNames == {"/plugins/featured", "/ps/plugins/home", "/ps/plugins/suggested/codex", "/ps/plugins/list",
                "/notifications/settings"}
\* The names of what stays, and of what the other hosts forward.
LEMMA ConstantNames ==
    ASSUME NEW p
    PROVE  /\ p \in A!Telemetry => p.name \in TelemetryNames
           /\ p \in A!Plugins \cup A!Notifications => p.name \in PluginNames
           /\ p \in A!Control \cup A!Unserved => p.name \in ControlNames
<1>1. p \in A!Counters => p.name \in {"/ces/statsc/flush", "/otlp/v1/metrics"}
  BY PathNames DEF A!Counters
<1>2. p \in A!Telemetry => p.name \in TelemetryNames
  BY <1>1, PathNames DEF A!Telemetry, TelemetryNames
<1>3. p \in A!Plugins => p.name \in PluginNames
  <2> DEFINE U == {"/plugins/featured", "/ps/plugins/home", "/ps/plugins/suggested/codex", "/ps/plugins/list"}
             B == {"/ps/plugins/home"}
  <2>1. A!Plugins = A!Under(U) \cup A!Bare(B)
    BY DEF A!Plugins
  <2>2. U \cup B \subseteq PluginNames
    BY DEF PluginNames
  <2> HIDE DEF U, B
  <2> QED BY <2>1, <2>2, PathNames
<1>4. p \in A!Notifications => p.name \in PluginNames
  BY PathNames DEF A!Notifications, PluginNames
<1>5. p \in A!Control => p.name \in ControlNames
  <2> DEFINE U == {"/elsewhere"}
             B == {"/wham/tasks", "/accounts/elsewhere", "/beacons/home", "/automations"}
  <2>1. A!Control = A!Under(U) \cup A!Bare(B)
    BY DEF A!Control
  <2>2. U \cup B \subseteq ControlNames
    BY DEF ControlNames
  <2> HIDE DEF U, B
  <2> QED BY <2>1, <2>2, PathNames
<1>6. p \in A!Unserved => p.name \in ControlNames
  BY PathNames DEF A!Unserved, ControlNames
<1> QED BY <1>2, <1>3, <1>4, <1>5, <1>6

ForwardedNames == {"/v1/responses", "/v1/responses/compact", "/v1/models", "/v1/models/one",
                   "/v1/codex/images/generations", "/v1/codex/images/edits", "/v1/messages", "/v1/messages/count_tokens"}
ClaudeNames == {"/api/web/domain_info", "/api/hello", "/api/claude_code/policy_limits", "/v1/mcp_servers",
                "/api/oauth/profile", "/api/claude_code/settings", "/api/event_logging/batch", "/api/eval/one",
                "/api/claude_cli/bootstrap"}
LEMMA HostNames ==
    ASSUME NEW p
    PROVE  /\ p \in A!OpenAIForwarded \cup A!ClaudeForwarded => p.name \in ForwardedNames
           /\ p \in A!ClaudeControl => p.name \in ClaudeNames
<1>1. p \in A!OpenAIForwarded => p.name \in ForwardedNames
  BY PathNames DEF A!OpenAIForwarded, ForwardedNames
<1>2. p \in A!ClaudeForwarded => p.name \in ForwardedNames
  BY PathNames DEF A!ClaudeForwarded, ForwardedNames
<1>3. p \in A!ClaudeConstants => p.name \in ClaudeNames
  BY PathNames DEF A!ClaudeConstants, ClaudeNames
<1>4. p \in {A!WebDomain, A!Hello} => p.name \in ClaudeNames
  BY DEF A!WebDomain, A!Hello, A!Path, ClaudeNames
<1> DEFINE B == {"/api/claude_code/settings", "/api/event_logging/batch", "/api/eval/one",
                 "/api/claude_cli/bootstrap"}
<1>5. p \in A!Bare(B) => p.name \in ClaudeNames
  <2>1. B \subseteq ClaudeNames
    BY DEF ClaudeNames
  <2> HIDE DEF B
  <2> QED BY <2>1, PathNames
<1>6. A!ClaudeControl = {A!WebDomain, A!Hello} \cup A!ClaudeConstants \cup A!Bare(B)
  BY DEF A!ClaudeControl
<1> QED BY <1>1, <1>2, <1>3, <1>4, <1>5, <1>6

\* The Work settings are read where the gates say so.
LEMMA WorkSettingsByName ==
    ASSUME NEW r \in A!Requests, r.path.name = "/wham/work/settings"
    PROVE  r.host = "chatgpt" /\ r.path \in A!WorkSettings
<1> DEFINE n == "/wham/work/settings"
           p == r.path
<1>1. n \notin ControlNames \cup TelemetryNames \cup PluginNames \cup ForwardedNames \cup ClaudeNames \cup CodexNames \cup ChatNames
  BY DEF ControlNames, TelemetryNames, PluginNames, ForwardedNames, ClaudeNames, CodexNames, ChatNames
<1>2. r.host = "chatgpt"
  BY <1>1, RequestPaths, HostNames, ConstantNames
<1>3. p \notin A!Bootstrap
  BY PathNames DEF A!Bootstrap
<1>4. p \notin A!Profile
  BY PathNames DEF A!Profile
<1>5. p # A!Initialize /\ p # A!Tools
  BY DEF A!Initialize, A!Tools, A!Path
<1>6. p \in A!IdentityReads
  <2>1. p \in A!DesktopPaths
    BY <1>2, RequestPaths
  <2> QED BY <1>1, <1>3, <1>4, <1>5, <2>1, NamesOfCodex, NamesOfChat, ConstantNames DEF A!DesktopPaths
<1>7. A!IdentityReads = A!At(ReadNames) \cup A!Settings /\ A!WorkSettings = A!At({n})
  BY ReadsByName DEF A!WorkSettings
<1>8. p \notin A!Settings
  BY SettingsNames
<1> QED BY <1>2, <1>6, <1>7, <1>8, AtNamed

LEMMA WorkSettingsAnswered ==
    ASSUME question \in A!Requests, question.path.name = "/wham/work/settings", question.method = "GET"
    PROVE  A!Answered(question).status = 200 <=> switches.browser
<1> DEFINE r == question
<1>1. r.host = "chatgpt" /\ r.path \in A!WorkSettings
  BY WorkSettingsByName
<1>2. r.path \in A!IdentityReads /\ r.path \in Sidecar
  BY <1>1, IdentityParts DEF Sidecar
<1> HIDE DEF Sidecar
<1>3. A!AccountAnswer(r) = A!IdentityAnswer(r)
  BY DEF A!AccountAnswer, A!RefusesWrite
<1>4. A!IdentityAnswer(r) = IF switches.browser THEN A!Local(200) ELSE A!Passed
  BY <1>1, <1>2, SidecarApart DEF A!IdentityAnswer
<1>5. A!Local(200) # A!Passed
  BY Statuses
<1>6. CASE switches.browser
  <2>1. A!AccountAnswer(r) = A!Local(200)
    BY <1>3, <1>4, <1>6
  <2>2. A!Answered(r) = A!Local(200)
    BY <1>1, <1>2, <1>5, <2>1, AccountFirst
  <2> QED BY <1>6, <2>2, Statuses
<1>7. CASE ~switches.browser
  <2>1. A!AccountAnswer(r) = A!Passed
    BY <1>3, <1>4, <1>7
  <2> QED BY <1>1, <1>2, <1>7, <2>1, OnlyTheAccount
<1> QED BY <1>6, <1>7

\* Evaluations agree with the bootstrap, and the gates with the settings.
LEMMA EvaluationsGiven ==
    ASSUME question \in A!Requests, answer = A!Answered(question),
           sdk.identity # A!NoIdentity => sdk.gates = switches.browser
    PROVE  A!EvaluationsAgree
<1>1. ASSUME question.path = A!Initialize, question.body = "identity", question.method = "POST",
             sdk.identity # A!NoIdentity
      PROVE  answer.identity = sdk.identity
  BY <1>1, EvaluatedAsTold, EvaluatedFields
<1>2. ASSUME question.path.name = "/wham/work/settings", question.method = "GET", sdk.identity # A!NoIdentity
      PROVE  answer.status = 200 <=> sdk.gates
  BY <1>2, WorkSettingsAnswered
<1> QED BY <1>1, <1>2 DEF A!EvaluationsAgree

\* What is forwarded is of none of the hosted services that stay.
LEMMA BusinessPaths ==
    ASSUME NEW p
    PROVE  /\ p \in A!CodexPaths \cup A!ChatPaths \cup A!OpenAIForwarded \cup A!ClaudeForwarded \cup A!Unserved =>
                 p \notin A!Telemetry \cup A!Plugins \cup A!Notifications \cup A!Control \cup A!ClaudeControl
<1>1. CASE p \in A!Unserved
  <2>1. p.name = "/elsewhere" /\ p.base = FALSE
    BY <1>1, PathNames DEF A!Unserved
  <2>2. p \notin A!Control
    <3> DEFINE B == {"/wham/tasks", "/accounts/elsewhere", "/beacons/home", "/automations"}
    <3>1. A!Control = A!Under({"/elsewhere"}) \cup A!Bare(B)
      BY DEF A!Control
    <3>2. "/elsewhere" \notin B
      OBVIOUS
    <3> HIDE DEF B
    <3>3. p \notin A!Under({"/elsewhere"})
      BY <2>1, PathNames
    <3>4. p \notin A!Bare(B)
      BY <2>1, <3>2, PathNames
    <3> QED BY <3>1, <3>3, <3>4
  <2>3. "/elsewhere" \notin TelemetryNames \cup PluginNames \cup ClaudeNames
    BY DEF TelemetryNames, PluginNames, ClaudeNames
  <2> QED BY <2>1, <2>2, <2>3, ConstantNames, HostNames
<1>2. ASSUME p \in A!CodexPaths \cup A!ChatPaths \cup A!OpenAIForwarded \cup A!ClaudeForwarded
      PROVE  p \notin A!Telemetry \cup A!Plugins \cup A!Notifications \cup A!Control \cup A!ClaudeControl
  <2>1. p.name \in CodexNames \cup ChatNames \cup ForwardedNames
    BY <1>2, NamesOfCodex, NamesOfChat, HostNames
  <2>2. p.name \notin TelemetryNames
    BY <2>1 DEF CodexNames, ChatNames, ForwardedNames, TelemetryNames
  <2>3. p.name \notin PluginNames
    BY <2>1 DEF CodexNames, ChatNames, ForwardedNames, PluginNames
  <2>4. p.name \notin ControlNames
    BY <2>1 DEF CodexNames, ChatNames, ForwardedNames, ControlNames
  <2>5. p.name \notin ClaudeNames
    BY <2>1 DEF CodexNames, ChatNames, ForwardedNames, ClaudeNames
  <2> QED BY <2>2, <2>3, <2>4, <2>5, ConstantNames, HostNames
<1> QED BY <1>1, <1>2

\* Only these reach the Gateway.
LEMMA Gone ==
    ASSUME question \in A!Requests, A!Answered(question).way = "gateway"
    PROVE  /\ question.host = "chatgpt" => \/ question.path \in A!CodexPaths
                                           \/ question.path \in A!ChatPaths /\ switches.chat
           /\ question.host # "chatgpt" => question.path \in A!OpenAIForwarded \cup A!ClaudeForwarded \cup A!Unserved
<1> DEFINE r == question
           a == A!AccountAnswer(r)
           c == A!ConstantAnswer(r)
           e == A!InitializeAnswer(r)
<1>1. CASE r.host = "chatgpt" /\ r.path \notin A!CodexPaths \cup A!ChatPaths
  <2>1. A!Answered(r) \in {a, c, A!Ended}
    BY <1>1 DEF A!Answered, A!ChatGPTAnswer, A!FirstOf
  <2>2. e.way \in {"local", "passed on"}
    <3>1. e = A!Passed \/ e = A!Evaluated(sdk.identity)
      BY DEF A!InitializeAnswer
    <3>2. A!Evaluated(sdk.identity).way = "local" /\ A!Passed.way = "passed on"
      BY EvaluatedFields, PassedFields
    <3> HIDE DEF e
    <3> QED BY <3>1, <3>2
  <2>3. a.way \in {"local", "passed on"}
    <3>1. a \in Answers(r) \/ a = e
      BY AccountCases
    <3> HIDE DEF a, e
    <3> QED BY <2>2, <3>1, AnswersFields
  <2>4. c.way \in {"local", "passed on"}
    BY ConstantCases
  <2> HIDE DEF a, c
  <2> QED BY <2>1, <2>3, <2>4, EndedFields
<1>2. CASE r.host = "chatgpt" /\ r.path \notin A!CodexPaths /\ r.path \in A!ChatPaths
  BY <1>2, LocalFields DEF A!Answered, A!ChatGPTAnswer
<1>3. CASE r.host = "openai"
  BY <1>3, RequestPaths
<1>4. CASE r.host = "anthropic"
  <2>1. A!Answered(r) = A!ClaudeAnswer(r)
    BY <1>4 DEF A!Answered
  <2>2. CASE r.path \in A!ClaudeControl
    <3>1. r.path \notin A!ClaudeForwarded
      BY <2>2, BusinessPaths
    <3>2. \E s : A!ClaudeAnswer(r) = A!Local(s)
      <4>1. CASE r.path = A!WebDomain
        <5>1. r.path # A!Hello
          <6>1. A!WebDomain.name # A!Hello.name
            BY DEF A!WebDomain, A!Hello, A!Path
          <6> QED BY <4>1, <6>1
        <5>2. r.path \notin A!ClaudeConstants
          <6>1. A!WebDomain.name = "/api/web/domain_info"
            BY DEF A!WebDomain, A!Path
          <6> QED BY <4>1, <6>1, PathNames DEF A!ClaudeConstants
        <5> QED BY <4>1, <3>1, <5>1, <5>2 DEF A!ClaudeAnswer
      <4>2. CASE r.path = A!Hello
        <5>1. r.path # A!WebDomain
          <6>1. A!WebDomain.name # A!Hello.name
            BY DEF A!WebDomain, A!Hello, A!Path
          <6> QED BY <4>2, <6>1
        <5>2. r.path \notin A!ClaudeConstants
          <6>1. A!Hello.name = "/api/hello"
            BY DEF A!Hello, A!Path
          <6> QED BY <4>2, <6>1, PathNames DEF A!ClaudeConstants
        <5> QED BY <4>2, <3>1, <5>1, <5>2 DEF A!ClaudeAnswer
      <4>3. CASE r.path # A!WebDomain /\ r.path # A!Hello
        BY <4>3, <3>1 DEF A!ClaudeAnswer
      <4> QED BY <4>1, <4>2, <4>3
    <3> QED BY <2>1, <3>2, LocalFields
  <2> QED BY <1>4, <2>2, RequestPaths
<1> QED BY <1>1, <1>2, <1>3, <1>4, RequestPaths

\* Of the APIs only the business paths leave.
LEMMA BusinessLeaves ==
    ASSUME question \in A!Requests, answer = A!Answered(question) PROVE A!OnlyBusinessLeaves
<1> SUFFICES ASSUME answer.way = "gateway"
             PROVE  /\ question.path \notin A!Telemetry \cup A!Plugins \cup A!Notifications \cup A!Control \cup A!ClaudeControl
                    /\ question.host = "chatgpt" /\ ~switches.chat => question.path \in A!CodexPaths
  BY DEF A!OnlyBusinessLeaves
<1> QED BY Gone, BusinessPaths

\* An answer is of a request, and as the request deserves; the gates that the
\* Statsig client was told are those the proxy was configured for.
AnswerInv ==
    part = "answer" =>
        /\ question \in A!Requests \cup {A!NoRequest}
        /\ answer # A!Silent => question \in A!Requests /\ answer = A!Answered(question)
        /\ sdk.identity # A!NoIdentity => sdk.gates = switches.browser

\* An answer stays the one deserved, unless the Statsig client is told another identity.
LEMMA AnswerStays ==
    ASSUME UNCHANGED <<switches, accountFile, account, question>>,
           question.path = A!Initialize => sdk'.identity = sdk.identity
    PROVE  A!Answered(question)' = A!Answered(question)
<1>1. A!AccountOf(question)' = A!AccountOf(question) /\ A!IdentityOf(question)' = A!IdentityOf(question)
  BY DEF A!AccountOf, A!UserIn, A!IdentityOf
<1>2. A!Named(question)' = A!Named(question)
  BY <1>1 DEF A!Named
<1>3. A!BootstrapAnswer(question)' = A!BootstrapAnswer(question)
  BY <1>1 DEF A!BootstrapAnswer, A!Evaluated
<1>4. A!ToolsAnswer(question)' = A!ToolsAnswer(question)
  BY DEF A!ToolsAnswer
<1>5. question.path = A!Initialize => A!InitializeAnswer(question)' = A!InitializeAnswer(question)
  BY DEF A!InitializeAnswer, A!Evaluated
<1>6. A!IdentityAnswer(question)' = A!IdentityAnswer(question)
  <2>1. CASE question.path = A!Initialize
    BY <1>1, <1>2, <1>3, <1>4, <1>5, <2>1 DEF A!IdentityAnswer
  <2>2. CASE question.path # A!Initialize
    BY <1>1, <1>2, <1>3, <1>4, <2>2 DEF A!IdentityAnswer
  <2> QED BY <2>1, <2>2
<1>7. A!AccountAnswer(question)' = A!AccountAnswer(question)
  BY <1>6 DEF A!AccountAnswer, A!RefusesWrite
<1>8. A!ConstantAnswer(question)' = A!ConstantAnswer(question)
  BY DEF A!ConstantAnswer
<1>9. A!ChatGPTAnswer(question)' = A!ChatGPTAnswer(question)
  BY <1>7, <1>8 DEF A!ChatGPTAnswer, A!FirstOf
<1>10. A!OpenAIAnswer(question)' = A!OpenAIAnswer(question) /\ A!ClaudeAnswer(question)' = A!ClaudeAnswer(question)
  BY DEF A!OpenAIAnswer, A!ClaudeAnswer
<1> QED BY <1>9, <1>10 DEF A!Answered

LEMMA StatsigByName ==
    ASSUME NEW r \in A!Requests, r.path \in A!Bootstrap \cup {A!Initialize}
    PROVE  r.host = "chatgpt"
<1>1. r.path.name \in {"/wham/statsig/bootstrap", "/v1/initialize"}
  <2>1. r.path \in A!Bootstrap => r.path.name = "/wham/statsig/bootstrap"
    BY PathNames DEF A!Bootstrap
  <2>2. r.path = A!Initialize => r.path.name = "/v1/initialize"
    BY DEF A!Initialize, A!Path
  <2> QED BY <2>1, <2>2
<1>2. {"/wham/statsig/bootstrap", "/v1/initialize"} \cap (ControlNames \cup ForwardedNames \cup ClaudeNames) = {}
  BY DEF ControlNames, ForwardedNames, ClaudeNames
<1> QED BY <1>1, <1>2, RequestPaths, HostNames, ConstantNames

\* What the Statsig client is told.
LEMMA ToldAsAsked ==
    ASSUME question \in A!Requests, question.path \in A!Bootstrap \cup {A!Initialize},
           A!Answered(question).identity # A!NoIdentity
    PROVE  /\ A!Answered(question).gates = switches.browser
           /\ question.path = A!Initialize => A!Answered(question).identity = sdk.identity
<1> DEFINE r == question
<1>1. r.host = "chatgpt"
  BY StatsigByName
<1>2. CASE r.path = A!Initialize
  <2>1. CASE A!InitializeAnswer(r) = A!Passed
    <3> DEFINE c == A!ConstantAnswer(r)
    <3>1. A!Answered(r) = A!FirstOf(A!FirstOf(A!Passed, c), A!Ended)
      BY <1>1, <1>2, <2>1, AccountEvaluates, SidecarAnswers
    <3>2. A!Answered(r) \in {c, A!Ended, A!Passed}
      BY <3>1 DEF A!FirstOf
    <3>3. c.identity = A!NoIdentity
      BY ConstantCases
    <3> HIDE DEF c
    <3> QED BY <3>2, <3>3, EndedFields, PassedFields
  <2>2. CASE A!InitializeAnswer(r) # A!Passed
    <3>1. A!Answered(r) = A!Evaluated(sdk.identity)
      BY <1>1, <1>2, <2>2, AnsweredByEvaluation DEF A!InitializeAnswer
    <3> QED BY <1>2, <3>1, EvaluatedFields
  <2> QED BY <2>1, <2>2
<1>3. CASE r.path \in A!Bootstrap
  <2>1. r.path \in Sidecar
    BY <1>3 DEF Sidecar
  <2> HIDE DEF Sidecar
  <2>2. A!AccountAnswer(r) = A!BootstrapAnswer(r)
    BY <1>3, <2>1, SidecarApart, IdentityParts DEF A!AccountAnswer, A!RefusesWrite, A!IdentityAnswer
  <2>3. A!BootstrapAnswer(r) # A!Passed
    <3> DEFINE b == A!BootstrapAnswer(r)
    <3>1. (\E s : b = A!Local(s)) \/ b = A!Evaluated(A!IdentityOf(r))
      BY DEF A!BootstrapAnswer
    <3> HIDE DEF b
    <3>2. b.way = "local"
      BY <3>1, LocalFields, EvaluatedFields
    <3> QED BY <3>2, PassedFields DEF b
  <2>4. A!Answered(r) = A!BootstrapAnswer(r)
    BY <1>1, <2>1, <2>2, <2>3, AccountFirst
  <2>5. A!BootstrapAnswer(r) = A!Evaluated(A!IdentityOf(r))
    BY <2>4, LocalFields DEF A!BootstrapAnswer
  <2>6. r.path # A!Initialize
    BY <2>1, SidecarApart
  <2> QED BY <2>4, <2>5, <2>6, EvaluatedFields
<1> QED BY <1>2, <1>3

\* It holds at the start, every step keeps it, and it implies the property.
LEMMA InitAnswer == MCInit => AnswerInv
<1>1. RestA => question = A!NoRequest /\ answer = A!Silent /\ sdk.identity = A!NoIdentity
  BY DEF RestA, A!Init, A!Untold
<1>2. A!Init => question = A!NoRequest /\ answer = A!Silent /\ sdk.identity = A!NoIdentity
  BY DEF A!Init, A!Untold
<1> QED BY <1>1, <1>2 DEF MCInit, AnswerInv

LEMMA MCAnswerStep == ASSUME AnswerInv, [MCNext]_mcVars PROVE AnswerInv'
<1>1. CASE part' = part /\ part # "answer"
  BY <1>1 DEF AnswerInv
<1>2. CASE UNCHANGED <<part, answers>>
  <2>1. A!Answered(question)' = A!Answered(question)
    BY <1>2, AnswerStays DEF answers
  <2> QED BY <1>2, <2>1 DEF AnswerInv, answers
<1>3. CASE part = "answer" /\ part' = part /\ A!Next
  <2>1. CASE A!Send
    <3>1. answer = A!Silent
      <4>1. A!NoRequest \notin A!Requests
        <5>1. A!NoRequest.host = "none"
          BY DEF A!NoRequest
        <5> QED BY <5>1, RequestPaths
      <4> QED BY <1>3, <2>1, <4>1 DEF AnswerInv, A!Send
    <3> QED BY <1>3, <2>1, <3>1 DEF AnswerInv, A!Send
  <2>2. CASE A!Reply
    <3>1. question \in A!Requests /\ UNCHANGED <<switches, accountFile, account, question>> /\ answer' = A!Answered(question)
      BY <1>3, <2>2 DEF AnswerInv, A!Reply
    <3>2. CASE sdk' = sdk
      <4>1. A!Answered(question)' = A!Answered(question)
        BY <3>1, <3>2, AnswerStays
      <4> QED BY <1>3, <3>1, <3>2, <4>1 DEF AnswerInv
    <3>3. CASE /\ question.path \in A!Bootstrap \cup {A!Initialize} /\ answer'.identity # A!NoIdentity
               /\ sdk' = [identity |-> answer'.identity, gates |-> answer'.gates]
      <4>1. answer'.gates = switches.browser /\ (question.path = A!Initialize => answer'.identity = sdk.identity)
        BY <3>1, <3>3, ToldAsAsked
      <4>2. sdk'.identity = answer'.identity /\ sdk'.gates = answer'.gates
        BY <3>3
      <4>3. A!Answered(question)' = A!Answered(question)
        BY <3>1, <4>1, <4>2, AnswerStays
      <4> QED BY <1>3, <3>1, <4>1, <4>2, <4>3 DEF AnswerInv
    <3> QED BY <2>2, <3>2, <3>3 DEF A!Reply
  <2>3. CASE A!Take
    BY <1>3, <2>3 DEF AnswerInv, A!Take
  <2>4. CASE A!WriteAccountFile
    <3>1. answer = A!Silent
      <4>1. A!NoRequest \notin A!Requests
        <5>1. A!NoRequest.host = "none"
          BY DEF A!NoRequest
        <5> QED BY <5>1, RequestPaths
      <4> QED BY <1>3, <2>4, <4>1 DEF AnswerInv, A!WriteAccountFile
    <3> QED BY <1>3, <2>4, <3>1 DEF AnswerInv, A!WriteAccountFile
  <2> QED BY <1>3, <2>1, <2>2, <2>3, <2>4 DEF A!Next
<1> QED BY <1>1, <1>2, <1>3 DEF MCNext, mcVars

LEMMA AnswersHold == AnswerInv => AnswersAreItsOwn
<1> SUFFICES ASSUME AnswerInv, part = "answer" PROVE A!AnswersAreItsOwn
  BY DEF AnswersAreItsOwn
<1>1. CASE answer = A!Silent
  BY <1>1, SilentFields DEF AnswerInv, A!AnswersAreItsOwn, A!WritesAreRefused, A!OneAccount, A!EvaluationsAgree, A!OnlyBusinessLeaves, A!IsAnswered
<1>2. CASE answer # A!Silent
  <2>1. question \in A!Requests /\ answer = A!Answered(question) /\ (sdk.identity # A!NoIdentity => sdk.gates = switches.browser)
    BY <1>2 DEF AnswerInv
  <2> QED BY <2>1, WritesRefused, OneAccountFound, EvaluationsGiven, BusinessLeaves DEF A!AnswersAreItsOwn
<1> QED BY <1>1, <1>2

\* Whatever Codex, Desktop and Claude Code ask, in whichever order and spelling,
\* with whichever login and settings: a write to the synthetic account is
\* refused, one account is found and it is the own one, evaluations agree with
\* what the bootstrap said, and only the business paths leave for the Gateway.
THEOREM AnswersStayItsOwn == MCSpec => []AnswersAreItsOwn
BY InitAnswer, MCAnswerStep, AnswersHold, PTL DEF MCSpec, mcVars
=============================================================================

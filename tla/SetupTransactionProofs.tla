----------------------- MODULE SetupTransactionProofs -----------------------
(***************************************************************************)
(* Proofs about SetupTransaction for every set of products, references,    *)
(* gateways and processes, with crashes and failing removals: the          *)
(* variables keep their types, one process at a time is in a transaction,  *)
(* a launched client keeps its home, which was built for its gateway, what *)
(* a transaction reports is so, nothing but a revoke takes away, the       *)
(* transactions implement Installation, and while nobody dies each is all  *)
(* or nothing.                                                             *)
(***************************************************************************)
EXTENDS MCSetupTransaction, TLAPS

HomeType == [Ref -> [at : Place, for : Gateway \cup {NoGateway}]]
CredType == [Ref -> {"absent", "live", "quarantined"}]
JobType == [op : {"none", "setup", "revoke", "revokeAll", "launch"},
            product : Product \cup {NoRef},
            gateway : Gateway \cup {NoGateway},
            before : SUBSET Roots,
            ref : Ref \cup {NoRef},
            diag : [Product -> State]]

\* Removing homes leaves homes.
LEMMA HomeWithoutType ==
    ASSUME home \in HomeType, NEW S PROVE HomeWithout(S) \in HomeType
BY DEF HomeType, HomeWithout, NoHome, Place

\* Removing credential files leaves credential files.
LEMMA CredWithoutType ==
    ASSUME cred \in CredType, NEW S PROVE CredWithout(S) \in CredType
BY DEF CredType, CredWithout

\* A best-effort removal happens or does not.
LEMMA BestEffortType ==
    ASSUME NEW old, NEW new, NEW x \in BestEffort(old, new) PROVE x = old \/ x = new
BY DEF BestEffort

\* A diagnosis gives every product a state.
LEMMA DiagnosisType == Diagnosis \in [Product -> State]
BY DEF Diagnosis, Diagnose, State

\* A new request refers to nothing yet.
LEMMA RequestType ==
    ASSUME NEW op \in {"none", "setup", "revoke", "revokeAll", "launch"},
           NEW q \in Product \cup {NoRef}, NEW g \in Gateway \cup {NoGateway}
    PROVE  /\ Request(op, q, g) \in JobType
           /\ Request(op, q, g).op = op
           /\ Request(op, q, g).product = q
           /\ Request(op, q, g).ref = NoRef
BY DEF Request, JobType, NoDiagnosis, State

\* An idle process has no request.
LEMMA NoJobType == NoJob \in JobType /\ NoJob.op = "none" /\ NoJob.ref = NoRef
BY RequestType DEF NoJob

\* One file is moved, one field of a request is set.
LEMMA HomeMovedType ==
    ASSUME home \in HomeType, NEW r, NEW x \in Place
    PROVE  [home EXCEPT ![r].at = x] \in HomeType
BY DEF HomeType

\* Setting one field of a request keeps the others.
LEMMA JobFieldType ==
    ASSUME NEW j \in JobType
    PROVE  /\ \A x \in Ref \cup {NoRef} : /\ [j EXCEPT !.ref = x] \in JobType
                                         /\ [j EXCEPT !.ref = x].op = j.op
                                         /\ [j EXCEPT !.ref = x].product = j.product
                                         /\ [j EXCEPT !.ref = x].ref = x
           /\ \A x \in SUBSET Roots : /\ [j EXCEPT !.before = x] \in JobType
                                       /\ [j EXCEPT !.before = x].op = j.op
                                       /\ [j EXCEPT !.before = x].product = j.product
                                       /\ [j EXCEPT !.before = x].ref = j.ref
           /\ \A x \in [Product -> State] : /\ [j EXCEPT !.diag = x] \in JobType
                                            /\ [j EXCEPT !.diag = x].op = j.op
                                            /\ [j EXCEPT !.diag = x].product = j.product
                                            /\ [j EXCEPT !.diag = x].ref = j.ref
           /\ \A x \in Gateway \cup {NoGateway} : /\ [j EXCEPT !.gateway = x] \in JobType
                                                  /\ [j EXCEPT !.gateway = x].op = j.op
                                                  /\ [j EXCEPT !.gateway = x].product = j.product
                                                  /\ [j EXCEPT !.gateway = x].ref = j.ref
BY DEF JobType

\* The types in two parts: the files and locks, and where the processes are.
FilesOK == /\ dirs \subseteq Roots \cup {"leases"}
           /\ entry \in [Product -> Ref \cup {NoRef}]
           /\ gateway \in Gateway \cup {NoGateway}
           /\ home \in HomeType
           /\ cred \in CredType
           /\ leaseFile \subseteq Ref
           /\ lease \in [Process -> Ref \cup {NoRef}]
           /\ excl \subseteq Ref
           /\ lock \in Process \cup {Nobody}
StepsOK == /\ pc \in [Process -> Inside \cup Outside]
           /\ job \in [Process -> JobType]
           /\ JobOK
TypeInv == FilesOK /\ StepsOK

\* The two parts say what TypeOK says.
LEMMA TypeInvIsTypeOK == TypeInv <=> TypeOK /\ JobOK
BY DEF TypeInv, FilesOK, StepsOK, TypeOK, HomeType, CredType, JobType

\* A process moves to a step that agrees with its request.
LEMMA JobStep ==
    ASSUME StepsOK, NEW p \in Process, NEW j \in JobType, NEW s \in Inside \cup Outside,
           Agrees(j, s), job' = [job EXCEPT ![p] = j], pc' = [pc EXCEPT ![p] = s]
    PROVE  StepsOK'
BY DEF StepsOK, JobOK

\* A process moves to a step that agrees with the request it has.
LEMMA PcStep ==
    ASSUME StepsOK, NEW p \in Process, NEW s \in Inside \cup Outside,
           Agrees(job[p], s), job' = job, pc' = [pc EXCEPT ![p] = s]
    PROVE  StepsOK'
BY DEF StepsOK, JobOK

\* Every step of every process keeps the types and the agreement of its step
\* with its request.
THEOREM TypeStep == TypeInv /\ [Next]_vars => TypeInv'
<1> SUFFICES ASSUME TypeInv, [Next]_vars PROVE TypeInv'
    OBVIOUS
<1> USE DEF TypeInv, files, Goto, Agrees, SetupSteps, RevokeSteps, HoldsNoRef, Building,
        Inside, Outside, Undoable, Committed, Dropping
<1>stutter. CASE UNCHANGED vars
    BY <1>stutter DEF vars, FilesOK, StepsOK, JobOK
<1>step. ASSUME NEW p \in Process, Outer(p) \/ OwnerStep(p) \/ Fail(p)
         PROVE  TypeInv'
  <2>1. CASE \E q \in Product, g \in Gateway : Precheck(p, q, g)
    <3>1. FilesOK'
      BY <2>1 DEF Precheck, FilesOK
    <3>2. StepsOK'
      <4>0. PICK q \in Product, g \in Gateway : Precheck(p, q, g)
        BY <2>1
      <4> DEFINE j == Request("setup", q, g)
      <4>1. job[p] \in JobType /\ Agrees(job[p], pc[p])
        BY DEF StepsOK, JobOK
      <4>2. job' = [job EXCEPT ![p] = j] /\ pc' = [pc EXCEPT ![p] = "fetching"]
        BY <4>0 DEF Precheck, StepsOK
      <4>3. j \in JobType /\ Agrees(j, "fetching")
        BY <4>0, <4>1, RequestType DEF Precheck
      <4> QED BY <4>2, <4>3, JobStep
    <3> QED BY <3>1, <3>2
  <2>2. CASE InspectRoots(p)
    <3>1. FilesOK'
      BY <2>2 DEF InspectRoots, FilesOK
    <3>2. StepsOK'
      <4> DEFINE j == [job[p] EXCEPT !.before = dirs \cap Roots]
      <4>1. job[p] \in JobType /\ Agrees(job[p], pc[p])
        BY DEF StepsOK, JobOK
      <4>2. job' = [job EXCEPT ![p] = j] /\ pc' = [pc EXCEPT ![p] = "waiting"]
        BY <2>2 DEF InspectRoots, StepsOK
      <4>3. j \in JobType /\ Agrees(j, "waiting")
        BY <2>2, <4>1, JobFieldType DEF InspectRoots
      <4> QED BY <4>2, <4>3, JobStep
    <3> QED BY <3>1, <3>2
  <2>3. CASE FetchFails(p)
    <3>1. FilesOK'
      BY <2>3 DEF FetchFails, FilesOK
    <3>2. StepsOK'
      BY <2>3, JobStep, NoJobType DEF FetchFails, StepsOK, JobOK
    <3> QED BY <3>1, <3>2
  <2>4. CASE \E q \in Product : BeginRevoke(p, q)
    <3>1. FilesOK'
      BY <2>4 DEF BeginRevoke, FilesOK
    <3>2. StepsOK'
      <4>0. PICK q \in Product : BeginRevoke(p, q)
        BY <2>4
      <4> DEFINE j == Request("revoke", q, NoGateway)
      <4>1. job[p] \in JobType /\ Agrees(job[p], pc[p])
        BY DEF StepsOK, JobOK
      <4>2. job' = [job EXCEPT ![p] = j] /\ pc' = [pc EXCEPT ![p] = "waiting"]
        BY <4>0 DEF BeginRevoke, StepsOK
      <4>3. j \in JobType /\ Agrees(j, "waiting")
        BY <4>0, <4>1, RequestType DEF BeginRevoke
      <4> QED BY <4>2, <4>3, JobStep
    <3> QED BY <3>1, <3>2
  <2>5. CASE BeginRevokeAll(p)
    <3>1. FilesOK'
      BY <2>5 DEF BeginRevokeAll, FilesOK
    <3>2. StepsOK'
      <4> DEFINE j == Request("revokeAll", NoRef, NoGateway)
      <4>1. job[p] \in JobType /\ Agrees(job[p], pc[p])
        BY DEF StepsOK, JobOK
      <4>2. job' = [job EXCEPT ![p] = j] /\ pc' = [pc EXCEPT ![p] = "waiting"]
        BY <2>5 DEF BeginRevokeAll, StepsOK
      <4>3. j \in JobType /\ Agrees(j, "waiting")
        BY <2>5, <4>1, RequestType DEF BeginRevokeAll
      <4> QED BY <4>2, <4>3, JobStep
    <3> QED BY <3>1, <3>2
  <2>6. CASE \E q \in Product : BeginLaunch(p, q)
    <3>1. FilesOK'
      BY <2>6 DEF BeginLaunch, FilesOK
    <3>2. StepsOK'
      <4>0. PICK q \in Product : BeginLaunch(p, q)
        BY <2>6
      <4> DEFINE j == Request("launch", q, NoGateway)
      <4>1. job[p] \in JobType /\ Agrees(job[p], pc[p])
        BY DEF StepsOK, JobOK
      <4>2. job' = [job EXCEPT ![p] = j] /\ pc' = [pc EXCEPT ![p] = "waiting"]
        BY <4>0 DEF BeginLaunch, StepsOK
      <4>3. j \in JobType /\ Agrees(j, "waiting")
        BY <4>0, <4>1, RequestType DEF BeginLaunch
      <4> QED BY <4>2, <4>3, JobStep
    <3> QED BY <3>1, <3>2
  <2>7. CASE Acquire(p)
    <3>1. FilesOK'
      BY <2>7 DEF Acquire, FilesOK, Roots
    <3>2. StepsOK'
      BY <2>7, PcStep DEF Acquire, StepsOK, JobOK
    <3> QED BY <3>1, <3>2
  <2>8. CASE Exit(p)
    <3>1. FilesOK'
      BY <2>8 DEF Exit, FilesOK
    <3>2. StepsOK'
      BY <2>8, JobStep, NoJobType DEF Exit, StepsOK, JobOK
    <3> QED BY <3>1, <3>2
  <2>9. CASE Crash(p)
    <3>1. FilesOK'
      BY <2>9 DEF Crash, FilesOK
    <3>2. StepsOK'
      BY <2>9, JobStep, NoJobType DEF Crash, StepsOK, JobOK
    <3> QED BY <3>1, <3>2
  <2>10. CASE CheckSetup(p)
    <3>1. FilesOK'
      BY <2>10 DEF CheckSetup, FilesOK
    <3>2. StepsOK'
      <4> DEFINE j == [job[p] EXCEPT !.diag = Diagnosis]
      <4>1. job[p] \in JobType /\ Agrees(job[p], pc[p])
        BY DEF StepsOK, JobOK
      <4>2. job' = [job EXCEPT ![p] = j] /\ pc' = [pc EXCEPT ![p] = "checked"]
        BY <2>10 DEF CheckSetup, StepsOK
      <4>3. j \in JobType /\ Agrees(j, "checked")
        BY <2>10, <4>1, JobFieldType, DiagnosisType DEF CheckSetup
      <4> QED BY <4>2, <4>3, JobStep
    <3> QED BY <3>1, <3>2
  <2>11. CASE RefuseSetup(p)
    <3>1. FilesOK'
      BY <2>11, BestEffortType DEF RefuseSetup, FilesOK
    <3>2. StepsOK'
      BY <2>11, PcStep DEF RefuseSetup, StepsOK, JobOK
    <3> QED BY <3>1, <3>2
  <2>12. CASE \E r \in Ref : Stage(p, r)
    <3>1. FilesOK'
      <4>0. PICK r \in Ref : Stage(p, r)
        BY <2>12
      <4>1. [at |-> "staged", for |-> job[p].gateway] \in [at : Place, for : Gateway \cup {NoGateway}]
        BY DEF StepsOK, JobType, Place
      <4>2. home' \in HomeType
        BY <4>0, <4>1 DEF Stage, FilesOK, HomeType
      <4>3. dirs' \subseteq Roots \cup {"leases"}
        BY <4>0 DEF Stage, FilesOK
      <4> QED BY <4>0, <4>2, <4>3 DEF Stage, FilesOK
    <3>2. StepsOK'
      <4>0. PICK r \in Ref : Stage(p, r)
        BY <2>12
      <4> DEFINE j == [job[p] EXCEPT !.ref = r]
      <4>1. job[p] \in JobType /\ Agrees(job[p], pc[p])
        BY DEF StepsOK, JobOK
      <4>2. job' = [job EXCEPT ![p] = j] /\ pc' = [pc EXCEPT ![p] = "staged"]
        BY <4>0 DEF Stage, StepsOK
      <4>3. j \in JobType /\ Agrees(j, "staged")
        BY <4>0, <4>1, JobFieldType DEF Stage
      <4> QED BY <4>2, <4>3, JobStep
    <3> QED BY <3>1, <3>2
  <2>13. CASE Promote(p)
    <3>1. FilesOK'
      BY <2>13, HomeMovedType DEF Promote, FilesOK, Place
    <3>2. StepsOK'
      BY <2>13, PcStep DEF Promote, StepsOK, JobOK
    <3> QED BY <3>1, <3>2
  <2>14. CASE SaveCredential(p)
    <3>1. FilesOK'
      BY <2>14 DEF SaveCredential, FilesOK, CredType
    <3>2. StepsOK'
      BY <2>14, PcStep DEF SaveCredential, StepsOK, JobOK
    <3> QED BY <3>1, <3>2
  <2>15. CASE CommitSetup(p)
    <3>1. FilesOK'
      <4>1. job[p] \in JobType /\ job[p].ref \in Ref
        BY <2>15 DEF CommitSetup, StepsOK, JobOK
      <4>2. job[p].gateway \in Gateway \cup {NoGateway}
        BY <4>1 DEF JobType
      <4> QED BY <2>15, <4>1, <4>2 DEF CommitSetup, FilesOK
    <3>2. StepsOK'
      <4> DEFINE j == [job[p] EXCEPT !.ref = entry[job[p].product]]
      <4>1. job[p] \in JobType /\ Agrees(job[p], pc[p])
        BY DEF StepsOK, JobOK
      <4>2. job' = [job EXCEPT ![p] = j] /\ pc' = [pc EXCEPT ![p] = "retiring"]
        BY <2>15 DEF CommitSetup, StepsOK
      <4>3. j \in JobType /\ Agrees(j, "retiring")
        BY <2>15, <4>1, JobFieldType DEF CommitSetup, FilesOK
      <4> QED BY <4>2, <4>3, JobStep
    <3> QED BY <3>1, <3>2
  <2>16. CASE RetireCredential(p)
    <3>1. FilesOK'
      BY <2>16, BestEffortType, CredWithoutType DEF RetireCredential, FilesOK
    <3>2. StepsOK'
      BY <2>16, PcStep DEF RetireCredential, StepsOK, JobOK
    <3> QED BY <3>1, <3>2
  <2>17. CASE RetireHome(p)
    <3>1. FilesOK'
      BY <2>17, BestEffortType, HomeWithoutType DEF RetireHome, FilesOK
    <3>2. StepsOK'
      BY <2>17, PcStep DEF RetireHome, StepsOK, JobOK
    <3> QED BY <3>1, <3>2
  <2>18. CASE ProbeRevoke(p)
    <3>1. FilesOK'
      BY <2>18 DEF ProbeRevoke, FilesOK
    <3>2. StepsOK'
      <4> DEFINE j == [job[p] EXCEPT !.diag = Diagnosis]
      <4>1. job[p] \in JobType /\ Agrees(job[p], pc[p]) /\ pc[p] = "locked" /\ job[p].op = "revoke"
        BY <2>18 DEF ProbeRevoke, StepsOK, JobOK
      <4>2. j \in JobType /\ Agrees(j, "purging")
        BY <4>1, JobFieldType, DiagnosisType
      <4>3. CASE job' = job /\ pc' = [pc EXCEPT ![p] = "done"]
        BY <4>1, <4>3, PcStep
      <4>4. CASE job' = [job EXCEPT ![p] = j] /\ pc' = [pc EXCEPT ![p] = "purging"]
        BY <4>2, <4>4, JobStep
      <4> QED BY <2>18, <4>3, <4>4 DEF ProbeRevoke, StepsOK
    <3> QED BY <3>1, <3>2
  <2>19. CASE PurgeQuarantine(p)
    <3>1. FilesOK'
      BY <2>19, HomeWithoutType, CredWithoutType DEF PurgeQuarantine, FilesOK
    <3>2. StepsOK'
      BY <2>19 DEF PurgeQuarantine, StepsOK, JobOK
    <3> QED BY <3>1, <3>2
  <2>20. CASE PurgedPrevious(p)
    <3>1. FilesOK'
      BY <2>20 DEF PurgedPrevious, FilesOK
    <3>2. StepsOK'
      BY <2>20, PcStep DEF PurgedPrevious, StepsOK, JobOK
    <3> QED BY <3>1, <3>2
  <2>21. CASE MoveCredential(p)
    <3>1. FilesOK'
      BY <2>21 DEF MoveCredential, FilesOK, CredType
    <3>2. StepsOK'
      BY <2>21 DEF MoveCredential, StepsOK, JobOK
    <3> QED BY <3>1, <3>2
  <2>22. CASE MoveHome(p)
    <3>1. FilesOK'
      BY <2>22, HomeMovedType DEF MoveHome, FilesOK, Place
    <3>2. StepsOK'
      BY <2>22 DEF MoveHome, StepsOK, JobOK
    <3> QED BY <3>1, <3>2
  <2>23. CASE CommitRevoke(p)
    <3>1. FilesOK'
      BY <2>23 DEF CommitRevoke, FilesOK
    <3>2. StepsOK'
      BY <2>23, PcStep DEF CommitRevoke, StepsOK, JobOK
    <3> QED BY <3>1, <3>2
  <2>24. CASE PurgedOwn(p)
    <3>1. FilesOK'
      BY <2>24 DEF PurgedOwn, FilesOK
    <3>2. StepsOK'
      BY <2>24, PcStep DEF PurgedOwn, StepsOK, JobOK
    <3> QED BY <3>1, <3>2
  <2>25. CASE DropLeases(p)
    <3>1. FilesOK'
      BY <2>25, BestEffortType DEF DropLeases, FilesOK
    <3>2. StepsOK'
      BY <2>25, PcStep DEF DropLeases, StepsOK, JobOK
    <3> QED BY <3>1, <3>2
  <2>26. CASE Prune(p)
    <3>1. FilesOK'
      BY <2>26, BestEffortType DEF Prune, FilesOK, EmptyDirs
    <3>2. StepsOK'
      BY <2>26, PcStep DEF Prune, StepsOK, JobOK
    <3> QED BY <3>1, <3>2
  <2>27. CASE ProbeRevokeAll(p)
    <3>1. FilesOK'
      BY <2>27 DEF ProbeRevokeAll, FilesOK
    <3>2. StepsOK'
      BY <2>27, PcStep DEF ProbeRevokeAll, StepsOK, JobOK
    <3> QED BY <3>1, <3>2
  <2>28. CASE DropConfigRoot(p)
    <3>1. FilesOK'
      BY <2>28 DEF DropConfigRoot, FilesOK, DropFails
    <3>2. StepsOK'
      BY <2>28, PcStep DEF DropConfigRoot, StepsOK, JobOK, DropFails
    <3> QED BY <3>1, <3>2
  <2>29. CASE DropDataRoot(p)
    <3>1. FilesOK'
      BY <2>29, HomeWithoutType, CredWithoutType DEF DropDataRoot, FilesOK, DropFails
    <3>2. StepsOK'
      BY <2>29, PcStep DEF DropDataRoot, StepsOK, JobOK, DropFails
    <3> QED BY <3>1, <3>2
  <2>30. CASE DropStateRoot(p)
    <3>1. FilesOK'
      BY <2>30 DEF DropStateRoot, FilesOK, DropFails
    <3>2. StepsOK'
      BY <2>30, PcStep DEF DropStateRoot, StepsOK, JobOK, DropFails
    <3> QED BY <3>1, <3>2
  <2>31. CASE RefuseLaunch(p)
    <3>1. FilesOK'
      BY <2>31 DEF RefuseLaunch, FilesOK
    <3>2. StepsOK'
      BY <2>31, PcStep DEF RefuseLaunch, StepsOK, JobOK
    <3> QED BY <3>1, <3>2
  <2>32. CASE TakeLease(p)
    <3>1. FilesOK'
      BY <2>32 DEF TakeLease, FilesOK, Configured, StepsOK, JobOK, Agrees
    <3>2. StepsOK'
      <4> DEFINE j == [job[p] EXCEPT !.gateway = gateway]
      <4>1. job[p] \in JobType /\ Agrees(job[p], pc[p])
        BY DEF StepsOK, JobOK
      <4>2. job' = [job EXCEPT ![p] = j] /\ pc' = [pc EXCEPT ![p] = "validating"]
        BY <2>32 DEF TakeLease, StepsOK
      <4>3. j \in JobType /\ Agrees(j, "validating")
        BY <2>32, <4>1, JobFieldType DEF TakeLease, FilesOK
      <4> QED BY <4>2, <4>3, JobStep
    <3> QED BY <3>1, <3>2
  <2>33. CASE Launch(p)
    <3>1. FilesOK'
      BY <2>33 DEF Launch, FilesOK
    <3>2. StepsOK'
      <4> DEFINE j == Request("none", NoRef, job[p].gateway)
      <4>1. job[p] \in JobType /\ Agrees(job[p], pc[p])
        BY DEF StepsOK, JobOK
      <4>2. job' = [job EXCEPT ![p] = j] /\ pc' = [pc EXCEPT ![p] = "running"]
        BY <2>33 DEF Launch, StepsOK
      <4>a. job[p].gateway \in Gateway \cup {NoGateway}
        BY <4>1 DEF JobType
      <4>3. j \in JobType /\ Agrees(j, "running")
        BY <2>33, <4>1, RequestType, <4>a DEF Launch
      <4> QED BY <4>2, <4>3, JobStep
    <3> QED BY <3>1, <3>2
  <2>34. CASE FailLaunch(p)
    <3>1. FilesOK'
      BY <2>34 DEF FailLaunch, FilesOK
    <3>2. StepsOK'
      BY <2>34, PcStep DEF FailLaunch, StepsOK, JobOK
    <3> QED BY <3>1, <3>2
  <2>35. CASE Release(p)
    <3>1. FilesOK'
      BY <2>35 DEF Release, FilesOK
    <3>2. StepsOK'
      BY <2>35, JobStep, NoJobType DEF Release, StepsOK, JobOK
    <3> QED BY <3>1, <3>2
  <2>36. CASE FailEarly(p)
    <3>1. FilesOK'
      BY <2>36 DEF FailEarly, FilesOK
    <3>2. StepsOK'
      BY <2>36, PcStep DEF FailEarly, StepsOK, JobOK
    <3> QED BY <3>1, <3>2
  <2>37. CASE FailSetup(p)
    <3>1. FilesOK'
      BY <2>37, BestEffortType, HomeWithoutType, CredWithoutType DEF FailSetup, FilesOK, PendingDropped
    <3>2. StepsOK'
      BY <2>37, PcStep DEF FailSetup, StepsOK, JobOK
    <3> QED BY <3>1, <3>2
  <2>38. CASE FailRevoke(p)
    <3>1. FilesOK'
      BY <2>38 DEF FailRevoke, FilesOK, HomeRolledBack, CredRolledBack, HomeType, CredType, Place
    <3>2. StepsOK'
      BY <2>38, PcStep DEF FailRevoke, StepsOK, JobOK
    <3> QED BY <3>1, <3>2
  <2> QED BY <1>step, <2>1, <2>2, <2>3, <2>4, <2>5, <2>6, <2>7, <2>8, <2>9, <2>10, <2>11, <2>12, <2>13, <2>14, <2>15, <2>16, <2>17, <2>18, <2>19, <2>20, <2>21, <2>22, <2>23, <2>24, <2>25, <2>26, <2>27, <2>28, <2>29, <2>30, <2>31, <2>32, <2>33, <2>34, <2>35, <2>36, <2>37, <2>38
       DEF Outer, Begin, OwnerStep, SetupStep, RevokeStep, RevokeAllStep, LaunchStep, Fail
<1> QED BY <1>stutter, <1>step DEF Next

\* Type correctness (TypeOK), with the agreement of every step and request.
LEMMA TypeInit == Init => TypeInv
BY RequestType, NoJobType DEF Init, TypeInv, FilesOK, StepsOK, JobOK, Agrees, HomeType, CredType,
      NoHome, Place, Inside, Outside, Undoable, Committed, Dropping, SetupSteps, RevokeSteps,
      HoldsNoRef, Building

\* The inductive form of type correctness, in every behaviour.
LEMMA TypeInvariance == Spec => []TypeInv
<1>1. TypeInv /\ [Next]_vars => TypeInv'
    BY TypeStep
<1> QED BY TypeInit, <1>1, PTL DEF Spec

\* The variables keep their types in every behaviour of the transactions.
THEOREM TypeCorrect == Spec => []TypeOK
<1>1. TypeInv => TypeOK
    BY TypeInvIsTypeOK
<1> QED BY TypeInvariance, <1>1, PTL

(***************************************************************************)
(* The leases.                                                             *)
(***************************************************************************)
\* What RemovableUnleased says of one process.
OwnerUnleased(p) ==
    /\ pc[p] \in Building => ~Leased(job[p].ref)
    /\ pc[p] \in RevokeSteps => \A r \in Refs(job[p].product) : ~Leased(r)
    /\ pc[p] \in Building \cup {"checked"} /\ gateway = NoGateway => NobodyLeases
    /\ pc[p] \in Dropping => NobodyLeases
Removing == Building \cup RevokeSteps \cup Dropping \cup {"checked"}

\* Everybody but the lock's owner is outside the transactions, so only the
\* owner has something to remove.
LEMMA OwnerAlone ==
    ASSUME OwnerOK', NEW p \in Process, pc'[p] \in Inside,
           \A r \in excl' : ~Leased(r)', OwnerUnleased(p)'
    PROVE  RemovableUnleased'
<1>1. \A o \in Process \ {p} : pc'[o] \notin Removing
    BY DEF OwnerOK, Removing, Building, RevokeSteps, Dropping, Inside, Undoable, Committed
<1> QED BY <1>1 DEF RemovableUnleased, OwnerUnleased, Removing

\* A step of a revoke to the next, while what it removes stays unleased.
LEMMA RevokeGoesOn ==
    ASSUME TypeInv, RemovableUnleased, NEW p \in Process, pc[p] \in RevokeSteps,
           NEW step \in {"moving", "dropping", "pruning"},
           pc' = [pc EXCEPT ![p] = step], lease' = lease, job' = job
    PROVE  pc'[p] \in Inside /\ OwnerUnleased(p)'
<1>1. pc'[p] = step
    BY DEF TypeInv, StepsOK
<1>2. step \in Inside /\ step \in RevokeSteps /\ step \notin Building \cup {"checked"} \cup Dropping
    BY DEF Inside, Undoable, Committed, RevokeSteps, Building, Dropping
<1>3. \A r \in Refs(job[p].product) : ~Leased(r)
    BY DEF RemovableUnleased
<1> QED BY <1>1, <1>2, <1>3 DEF OwnerUnleased, Leased, Refs

\* A step that takes no lease and starts no removal.
LEMMA NoNewLease ==
    ASSUME RemovableUnleased, excl' \subseteq excl, gateway' = gateway,
           \A o \in Process : lease'[o] = lease[o] \/ lease'[o] = NoRef,
           \A o \in Process : \/ pc'[o] = pc[o] /\ job'[o] = job[o]
                              \/ pc'[o] \notin Removing,
           TypeInv
    PROVE  RemovableUnleased'
<1>1. \A r \in Ref : ~Leased(r) => ~Leased(r)'
    BY NullAssumption DEF Leased, Ref
<1>2. NobodyLeases => NobodyLeases'
    BY <1>1 DEF NobodyLeases
<1>3. \A r \in excl' : ~Leased(r)'
    BY <1>1 DEF RemovableUnleased, TypeInv, FilesOK
<1>4. ASSUME NEW o \in Process PROVE OwnerUnleased(o)'
  <2>1. CASE pc'[o] \notin Removing
    BY <2>1 DEF OwnerUnleased, Removing
  <2>2. CASE pc'[o] = pc[o] /\ job'[o] = job[o]
    <3>1. pc[o] \in Building => job[o].ref \in Ref
      BY DEF TypeInv, StepsOK, JobOK, Agrees
    <3>2. pc[o] \in RevokeSteps => Refs(job[o].product) \subseteq Ref
      BY DEF TypeInv, StepsOK, JobOK, Agrees, Refs, Ref, RevokeSteps, SetupSteps
    <3> QED BY <2>2, <3>1, <3>2, <1>1, <1>2 DEF OwnerUnleased, RemovableUnleased
  <2> QED BY <1>4, <2>1, <2>2
<1> QED BY <1>3, <1>4 DEF RemovableUnleased, OwnerUnleased

\* Every step keeps the invariant of the leases: a stage takes a fresh
\* reference, a removal is of what nobody leases, a launch leases before it runs.
THEOREM LeaseStep == TypeInv /\ LeaseInvariant /\ [Next]_vars => LeaseInvariant'
<1> SUFFICES ASSUME TypeInv, LeaseInvariant, [Next]_vars PROVE LeaseInvariant'
    OBVIOUS
<1> USE NullAssumption DEF LeaseInvariant, OwnerOK, LeaseHeld, RemovableUnleased, RunningClientKeepsHome,
        TypeInv, FilesOK, StepsOK, JobOK, files, Goto, Leased, NobodyLeases,
        Agrees, SetupSteps, RevokeSteps, HoldsNoRef, Building,
        Inside, Outside, Undoable, Committed, Dropping
<1>stutter. CASE UNCHANGED vars
    BY <1>stutter DEF vars
<1>step. ASSUME NEW p \in Process, Outer(p) \/ OwnerStep(p) \/ Fail(p)
         PROVE  LeaseInvariant'
  <2>1. CASE \E q \in Product, g \in Gateway : Precheck(p, q, g)
    <3>1. OwnerOK'
      BY <2>1 DEF Precheck, HomeType, Place
    <3>2. LeaseHeld'
      BY <2>1 DEF Precheck, HomeType, Place
    <3>3. RemovableUnleased'
      <4>1. /\ excl' \subseteq excl /\ gateway' = gateway
            /\ \A o \in Process : lease'[o] = lease[o] \/ lease'[o] = NoRef
            /\ \A o \in Process : \/ pc'[o] = pc[o] /\ job'[o] = job[o]
                                 \/ pc'[o] \notin Removing
        BY <2>1 DEF Precheck, Removing
      <4> QED BY <4>1, NoNewLease
    <3>4. RunningClientKeepsHome'
      BY <2>1 DEF Precheck, HomeType, Place
    <3> QED BY <3>1, <3>2, <3>3, <3>4
  <2>2. CASE InspectRoots(p)
    <3>1. OwnerOK'
      BY <2>2 DEF InspectRoots, HomeType, Place
    <3>2. LeaseHeld'
      BY <2>2 DEF InspectRoots, HomeType, Place
    <3>3. RemovableUnleased'
      <4>1. /\ excl' \subseteq excl /\ gateway' = gateway
            /\ \A o \in Process : lease'[o] = lease[o] \/ lease'[o] = NoRef
            /\ \A o \in Process : \/ pc'[o] = pc[o] /\ job'[o] = job[o]
                                 \/ pc'[o] \notin Removing
        BY <2>2 DEF InspectRoots, Removing
      <4> QED BY <4>1, NoNewLease
    <3>4. RunningClientKeepsHome'
      BY <2>2 DEF InspectRoots, HomeType, Place
    <3> QED BY <3>1, <3>2, <3>3, <3>4
  <2>3. CASE FetchFails(p)
    <3>1. OwnerOK'
      BY <2>3 DEF FetchFails, HomeType, Place
    <3>2. LeaseHeld'
      BY <2>3 DEF FetchFails, HomeType, Place
    <3>3. RemovableUnleased'
      <4>1. /\ excl' \subseteq excl /\ gateway' = gateway
            /\ \A o \in Process : lease'[o] = lease[o] \/ lease'[o] = NoRef
            /\ \A o \in Process : \/ pc'[o] = pc[o] /\ job'[o] = job[o]
                                 \/ pc'[o] \notin Removing
        BY <2>3 DEF FetchFails, Removing
      <4> QED BY <4>1, NoNewLease
    <3>4. RunningClientKeepsHome'
      BY <2>3 DEF FetchFails, HomeType, Place
    <3> QED BY <3>1, <3>2, <3>3, <3>4
  <2>4. CASE \E q \in Product : BeginRevoke(p, q)
    <3>1. OwnerOK'
      BY <2>4 DEF BeginRevoke, HomeType, Place
    <3>2. LeaseHeld'
      BY <2>4 DEF BeginRevoke, HomeType, Place
    <3>3. RemovableUnleased'
      <4>1. /\ excl' \subseteq excl /\ gateway' = gateway
            /\ \A o \in Process : lease'[o] = lease[o] \/ lease'[o] = NoRef
            /\ \A o \in Process : \/ pc'[o] = pc[o] /\ job'[o] = job[o]
                                 \/ pc'[o] \notin Removing
        BY <2>4 DEF BeginRevoke, Removing
      <4> QED BY <4>1, NoNewLease
    <3>4. RunningClientKeepsHome'
      BY <2>4 DEF BeginRevoke, HomeType, Place
    <3> QED BY <3>1, <3>2, <3>3, <3>4
  <2>5. CASE BeginRevokeAll(p)
    <3>1. OwnerOK'
      BY <2>5 DEF BeginRevokeAll, HomeType, Place
    <3>2. LeaseHeld'
      BY <2>5 DEF BeginRevokeAll, HomeType, Place
    <3>3. RemovableUnleased'
      <4>1. /\ excl' \subseteq excl /\ gateway' = gateway
            /\ \A o \in Process : lease'[o] = lease[o] \/ lease'[o] = NoRef
            /\ \A o \in Process : \/ pc'[o] = pc[o] /\ job'[o] = job[o]
                                 \/ pc'[o] \notin Removing
        BY <2>5 DEF BeginRevokeAll, Removing
      <4> QED BY <4>1, NoNewLease
    <3>4. RunningClientKeepsHome'
      BY <2>5 DEF BeginRevokeAll, HomeType, Place
    <3> QED BY <3>1, <3>2, <3>3, <3>4
  <2>6. CASE \E q \in Product : BeginLaunch(p, q)
    <3>1. OwnerOK'
      BY <2>6 DEF BeginLaunch, HomeType, Place
    <3>2. LeaseHeld'
      BY <2>6 DEF BeginLaunch, HomeType, Place
    <3>3. RemovableUnleased'
      <4>1. /\ excl' \subseteq excl /\ gateway' = gateway
            /\ \A o \in Process : lease'[o] = lease[o] \/ lease'[o] = NoRef
            /\ \A o \in Process : \/ pc'[o] = pc[o] /\ job'[o] = job[o]
                                 \/ pc'[o] \notin Removing
        BY <2>6 DEF BeginLaunch, Removing
      <4> QED BY <4>1, NoNewLease
    <3>4. RunningClientKeepsHome'
      BY <2>6 DEF BeginLaunch, HomeType, Place
    <3> QED BY <3>1, <3>2, <3>3, <3>4
  <2>7. CASE Acquire(p)
    BY <2>7 DEF Acquire, Roots, HomeType, Place
  <2>8. CASE Exit(p)
    <3>1. OwnerOK'
      BY <2>8 DEF Exit, HomeType, Place
    <3>2. LeaseHeld'
      BY <2>8 DEF Exit, HomeType, Place
    <3>3. RemovableUnleased'
      <4>1. /\ excl' \subseteq excl /\ gateway' = gateway
            /\ \A o \in Process : lease'[o] = lease[o] \/ lease'[o] = NoRef
            /\ \A o \in Process : \/ pc'[o] = pc[o] /\ job'[o] = job[o]
                                 \/ pc'[o] \notin Removing
        BY <2>8 DEF Exit, Removing
      <4> QED BY <4>1, NoNewLease
    <3>4. RunningClientKeepsHome'
      BY <2>8 DEF Exit, HomeType, Place
    <3> QED BY <3>1, <3>2, <3>3, <3>4
  <2>9. CASE Crash(p)
    <3>1. OwnerOK'
      BY <2>9 DEF Crash, HomeType, Place
    <3>2. LeaseHeld'
      BY <2>9 DEF Crash, HomeType, Place
    <3>3. RemovableUnleased'
      <4>1. /\ excl' \subseteq excl /\ gateway' = gateway
            /\ \A o \in Process : lease'[o] = lease[o] \/ lease'[o] = NoRef
            /\ \A o \in Process : \/ pc'[o] = pc[o] /\ job'[o] = job[o]
                                 \/ pc'[o] \notin Removing
        BY <2>9 DEF Crash, Removing
      <4> QED BY <4>1, NoNewLease
    <3>4. RunningClientKeepsHome'
      BY <2>9 DEF Crash, HomeType, Place
    <3> QED BY <3>1, <3>2, <3>3, <3>4
  <2>10. CASE CheckSetup(p)
    <3>1. OwnerOK'
      BY <2>10 DEF CheckSetup, HomeType, Place
    <3>2. LeaseHeld'
      BY <2>10 DEF CheckSetup, HomeType, Place
    <3>3. RemovableUnleased'
      <4>1. ASSUME gateway = NoGateway PROVE NobodyLeases
        <5>1. leaseFile = {}
          BY <2>10, <4>1 DEF CheckSetup, MayInstall, RootsClean
        <5>2. \A o \in Process : pc[o] \notin {"running", "validating", "done"}
          BY <2>10, <5>1 DEF CheckSetup
        <5> QED BY <5>2 DEF Ref
      <4>2. pc'[p] = "checked" /\ UNCHANGED <<gateway, lease>>
        BY <2>10 DEF CheckSetup
      <4>3. OwnerUnleased(p)'
        BY <4>1, <4>2 DEF OwnerUnleased
      <4>4. pc'[p] \in Inside /\ excl' = {}
        BY <2>10 DEF CheckSetup
      <4> QED BY <3>1, <4>3, <4>4, OwnerAlone
    <3>4. RunningClientKeepsHome'
      BY <2>10 DEF CheckSetup, HomeType, Place
    <3> QED BY <3>1, <3>2, <3>3, <3>4
  <2>11. CASE RefuseSetup(p)
    BY <2>11, BestEffortType DEF RefuseSetup, HomeType, Place
  <2>12. CASE \E r \in Ref : Stage(p, r)
    <3>1. OwnerOK'
      BY <2>12 DEF Stage, Roots, HomeType, Place
    <3>2. LeaseHeld'
      BY <2>12 DEF Stage, Roots, HomeType, Place
    <3>3. RemovableUnleased'
      <4>0. PICK r \in Ref : Stage(p, r)
        BY <2>12
      <4>1. ~Leased(r)' /\ job'[p].ref = r
        BY <4>0 DEF Stage, Unused, JobType
      <4>2. pc[p] = "checked" /\ pc'[p] = "staged" /\ UNCHANGED <<gateway, lease>>
        BY <4>0 DEF Stage
      <4>3. OwnerUnleased(p)'
        BY <4>1, <4>2 DEF OwnerUnleased
      <4> QED BY <4>0, <3>1, <4>3, OwnerAlone DEF Stage
    <3>4. RunningClientKeepsHome'
      <4>0. PICK r \in Ref : Stage(p, r)
        BY <2>12
      <4>1. \A o \in Process : pc[o] = "running" => lease[o] # r
        BY <4>0 DEF Stage, Unused, NoHome
      <4> QED BY <4>0, <4>1 DEF Stage, HomeType
    <3> QED BY <3>1, <3>2, <3>3, <3>4
  <2>13. CASE Promote(p)
    <3>1. OwnerOK'
      BY <2>13, HomeMovedType DEF Promote, HomeType, Place
    <3>2. LeaseHeld'
      BY <2>13, HomeMovedType DEF Promote, HomeType, Place
    <3>3. RemovableUnleased'
      BY <2>13, HomeMovedType DEF Promote, HomeType, Place
    <3>4. RunningClientKeepsHome'
      BY <2>13, HomeMovedType DEF Promote, HomeType, Place
    <3> QED BY <3>1, <3>2, <3>3, <3>4
  <2>14. CASE SaveCredential(p)
    BY <2>14 DEF SaveCredential, CredType, HomeType, Place
  <2>15. CASE CommitSetup(p)
    BY <2>15 DEF CommitSetup, JobType, HomeType, Place
  <2>16. CASE RetireCredential(p)
    BY <2>16, BestEffortType, CredWithoutType DEF RetireCredential, HomeType, Place
  <2>17. CASE RetireHome(p)
    <3>1. OwnerOK'
      BY <2>17, BestEffortType, HomeWithoutType DEF RetireHome, HomeType, Place
    <3>2. LeaseHeld'
      <4>1. ASSUME NEW o \in Process, pc'[o] \in {"running", "validating"} PROVE lease'[o] \in leaseFile'
        BY <2>17, <4>1, BestEffortType DEF RetireHome, Retirable, Busy
      <4> QED BY <2>17, <4>1, BestEffortType DEF RetireHome
    <3>3. RemovableUnleased'
      BY <2>17, BestEffortType, HomeWithoutType DEF RetireHome, HomeType, Place
    <3>4. RunningClientKeepsHome'
      <4>1. ASSUME NEW o \in Process, pc'[o] = "running"
            PROVE  home'[lease[o]] = home[lease[o]] /\ pc[o] = "running"
        BY <2>17, <4>1, BestEffortType DEF RetireHome, Retirable, Busy, HomeWithout, HomeType
      <4> QED BY <2>17, <3>2, <4>1 DEF RetireHome
    <3> QED BY <3>1, <3>2, <3>3, <3>4
  <2>18. CASE ProbeRevoke(p)
    <3>1. OwnerOK'
      BY <2>18 DEF ProbeRevoke, HomeType, Place
    <3>2. LeaseHeld'
      BY <2>18 DEF ProbeRevoke, HomeType, Place
    <3>3. RemovableUnleased'
      <4>1. CASE UNCHANGED excl /\ pc'[p] = "done"
        BY <2>18, <4>1, NoNewLease DEF ProbeRevoke, Removing
      <4>2. CASE ~Busy(RefsToProbe(job[p].product)) /\ excl' = RefsToProbe(job[p].product) \cap leaseFile
                 /\ job' = [job EXCEPT ![p].diag = Diagnosis] /\ pc' = [pc EXCEPT ![p] = "purging"]
        <5>1. \A o \in Process : lease[o] # NoRef => pc[o] = "running"
          BY <2>18 DEF ProbeRevoke
        <5>2. \A r \in Refs(job[p].product) : ~Leased(r)
          <6> SUFFICES ASSUME NEW r \in Refs(job[p].product), NEW o \in Process, lease[o] = r
                       PROVE  FALSE
            OBVIOUS
          <6>1. r \in Ref
            BY <2>18 DEF ProbeRevoke, Refs, Ref
          <6>2. home[r].at = "live" /\ r \in leaseFile
            BY <5>1, <6>1 DEF Ref
          <6> QED BY <4>2, <6>2 DEF Busy, RefsToProbe
        <5>3. job'[p].product = job[p].product
          BY <4>2 DEF JobType
        <5>4. OwnerUnleased(p)'
          BY <2>18, <4>2, <5>2, <5>3 DEF ProbeRevoke, OwnerUnleased
        <5>5. \A r \in excl' : ~Leased(r)'
          BY <2>18, <4>2, <5>2 DEF ProbeRevoke, RefsToProbe
        <5>6. pc'[p] \in Inside
          BY <4>2
        <5> QED BY <3>1, <5>4, <5>5, <5>6, OwnerAlone
      <4> QED BY <2>18, <4>1, <4>2 DEF ProbeRevoke
    <3>4. RunningClientKeepsHome'
      BY <2>18 DEF ProbeRevoke, HomeType, Place
    <3> QED BY <3>1, <3>2, <3>3, <3>4
  <2>19. CASE PurgeQuarantine(p)
    <3>1. OwnerOK'
      BY <2>19, HomeWithoutType, CredWithoutType DEF PurgeQuarantine, HomeType, Place
    <3>2. LeaseHeld'
      BY <2>19, HomeWithoutType, CredWithoutType DEF PurgeQuarantine, HomeType, Place
    <3>3. RemovableUnleased'
      BY <2>19, NoNewLease DEF PurgeQuarantine
    <3>4. RunningClientKeepsHome'
      <4>0. PICK r \in Quarantined(job[p].product) :
                 \/ UNCHANGED home
                 \/ home[r].at = "quarantined" /\ home' = HomeWithout({r})
        BY <2>19 DEF PurgeQuarantine
      <4>1. \A o \in Process : pc[o] = "running" => home'[lease[o]] = home[lease[o]]
        BY <4>0 DEF HomeWithout
      <4> QED BY <2>19, <4>1 DEF PurgeQuarantine
    <3> QED BY <3>1, <3>2, <3>3, <3>4
  <2>20. CASE PurgedPrevious(p)
    <3>1. OwnerOK'
      BY <2>20 DEF PurgedPrevious, HomeType, Place
    <3>2. LeaseHeld'
      BY <2>20 DEF PurgedPrevious, HomeType, Place
    <3>3. RemovableUnleased'
      <4>1. pc[p] = "purging" /\ pc' = [pc EXCEPT ![p] = "moving"] /\ UNCHANGED <<lease, excl, job>>
        BY <2>20 DEF PurgedPrevious
      <4>2. pc[p] \in RevokeSteps
        BY <4>1
      <4>3. pc'[p] \in Inside /\ OwnerUnleased(p)'
        BY <4>1, <4>2, RevokeGoesOn
      <4>4. \A r \in excl' : ~Leased(r)'
        BY <4>1
      <4> QED BY <3>1, <4>2, <4>3, <4>4, OwnerAlone
    <3>4. RunningClientKeepsHome'
      BY <2>20 DEF PurgedPrevious, HomeType, Place
    <3> QED BY <3>1, <3>2, <3>3, <3>4
  <2>21. CASE MoveCredential(p)
    <3>1. OwnerOK'
      BY <2>21 DEF MoveCredential, CredType
    <3>2. LeaseHeld'
      BY <2>21 DEF MoveCredential
    <3>3. RemovableUnleased'
      BY <2>21, NoNewLease DEF MoveCredential
    <3>4. RunningClientKeepsHome'
      BY <2>21 DEF MoveCredential, HomeType, Place
    <3> QED BY <3>1, <3>2, <3>3, <3>4
  <2>22. CASE MoveHome(p)
    <3>1. OwnerOK'
      BY <2>22, HomeMovedType DEF MoveHome, HomeType, Place
    <3>2. LeaseHeld'
      BY <2>22, HomeMovedType DEF MoveHome, HomeType, Place
    <3>3. RemovableUnleased'
      BY <2>22, NoNewLease DEF MoveHome
    <3>4. RunningClientKeepsHome'
      <4>0. PICK r \in HomesToMove(job[p].product) : home' = [home EXCEPT ![r].at = "quarantined"]
        BY <2>22 DEF MoveHome
      <4>1. ~Leased(r)
        BY <2>22, <4>0 DEF MoveHome, HomesToMove
      <4>2. \A o \in Process : pc[o] = "running" => home'[lease[o]] = home[lease[o]]
        BY <4>0, <4>1 DEF HomeType
      <4> QED BY <2>22, <4>2 DEF MoveHome
    <3> QED BY <3>1, <3>2, <3>3, <3>4
  <2>23. CASE CommitRevoke(p)
    <3>1. OwnerOK'
      BY <2>23 DEF CommitRevoke, HomeType, Place
    <3>2. LeaseHeld'
      BY <2>23 DEF CommitRevoke, HomeType, Place
    <3>3. RemovableUnleased'
      <4>1. pc[p] = "moving" /\ pc'[p] = "purgingOwn" /\ UNCHANGED <<lease, job>>
        BY <2>23 DEF CommitRevoke
      <4>2. OwnerUnleased(p)'
        BY <4>1 DEF OwnerUnleased
      <4>3. pc'[p] \in Inside /\ \A r \in excl' : ~Leased(r)'
        BY <2>23 DEF CommitRevoke
      <4> QED BY <3>1, <4>2, <4>3, OwnerAlone
    <3>4. RunningClientKeepsHome'
      BY <2>23 DEF CommitRevoke, HomeType, Place
    <3> QED BY <3>1, <3>2, <3>3, <3>4
  <2>24. CASE PurgedOwn(p)
    <3>1. OwnerOK'
      BY <2>24 DEF PurgedOwn, HomeType, Place
    <3>2. LeaseHeld'
      BY <2>24 DEF PurgedOwn, HomeType, Place
    <3>3. RemovableUnleased'
      <4>1. pc[p] = "purgingOwn" /\ pc' = [pc EXCEPT ![p] = "dropping"] /\ UNCHANGED <<lease, excl, job>>
        BY <2>24 DEF PurgedOwn
      <4>2. pc[p] \in RevokeSteps
        BY <4>1
      <4>3. pc'[p] \in Inside /\ OwnerUnleased(p)'
        BY <4>1, <4>2, RevokeGoesOn
      <4>4. \A r \in excl' : ~Leased(r)'
        BY <4>1
      <4> QED BY <3>1, <4>2, <4>3, <4>4, OwnerAlone
    <3>4. RunningClientKeepsHome'
      BY <2>24 DEF PurgedOwn, HomeType, Place
    <3> QED BY <3>1, <3>2, <3>3, <3>4
  <2>25. CASE DropLeases(p)
    <3>1. OwnerOK'
      BY <2>25, BestEffortType DEF DropLeases, HomeType, Place
    <3>2. LeaseHeld'
      BY <2>25, BestEffortType DEF DropLeases, HomeType, Place
    <3>3. RemovableUnleased'
      <4>1. pc[p] = "dropping" /\ pc' = [pc EXCEPT ![p] = "pruning"] /\ UNCHANGED <<lease, job>> /\ excl' = {}
        BY <2>25 DEF DropLeases
      <4>2. pc[p] \in RevokeSteps
        BY <4>1
      <4>3. pc'[p] \in Inside /\ OwnerUnleased(p)'
        BY <4>1, <4>2, RevokeGoesOn
      <4> QED BY <3>1, <4>1, <4>2, <4>3, OwnerAlone
    <3>4. RunningClientKeepsHome'
      BY <2>25, BestEffortType DEF DropLeases, HomeType, Place
    <3> QED BY <3>1, <3>2, <3>3, <3>4
  <2>26. CASE Prune(p)
    BY <2>26, BestEffortType DEF Prune, EmptyDirs, HomeType, Place
  <2>27. CASE ProbeRevokeAll(p)
    <3>1. OwnerOK'
      BY <2>27 DEF ProbeRevokeAll, HomeType, Place
    <3>2. LeaseHeld'
      BY <2>27 DEF ProbeRevokeAll, HomeType, Place
    <3>3. RemovableUnleased'
      <4>1. CASE UNCHANGED excl /\ pc' = [pc EXCEPT ![p] = "done"]
        BY <2>27, <4>1, NoNewLease DEF ProbeRevokeAll, Removing
      <4>2. CASE ~Busy(leaseFile) /\ excl' = leaseFile /\ pc' = [pc EXCEPT ![p] = "dropConfig"]
        <5>1. \A o \in Process : lease[o] # NoRef => pc[o] = "running"
          BY <2>27 DEF ProbeRevokeAll
        <5>2. NobodyLeases
          BY <4>2, <5>1 DEF Busy, Ref
        <5>3. OwnerUnleased(p)'
          BY <2>27, <4>2, <5>2 DEF ProbeRevokeAll, OwnerUnleased
        <5> QED BY <2>27, <4>2, <3>1, <5>2, <5>3, OwnerAlone DEF ProbeRevokeAll
      <4> QED BY <2>27, <4>1, <4>2 DEF ProbeRevokeAll
    <3>4. RunningClientKeepsHome'
      BY <2>27 DEF ProbeRevokeAll, HomeType, Place
    <3> QED BY <3>1, <3>2, <3>3, <3>4
  <2>28. CASE DropConfigRoot(p)
    BY <2>28 DEF DropConfigRoot, DropFails, HomeType, Place
  <2>29. CASE DropDataRoot(p)
    BY <2>29, HomeWithoutType, CredWithoutType DEF DropDataRoot, DropFails, HomeType, Place
  <2>30. CASE DropStateRoot(p)
    BY <2>30 DEF DropStateRoot, DropFails, HomeType, Place
  <2>31. CASE RefuseLaunch(p)
    BY <2>31 DEF RefuseLaunch, HomeType, Place
  <2>32. CASE TakeLease(p)
    BY <2>32 DEF TakeLease, Configured, HomeType, Place
  <2>33. CASE Launch(p)
    <3>1. OwnerOK'
      BY <2>33 DEF Launch, HomeType, Place
    <3>2. LeaseHeld'
      BY <2>33 DEF Launch, HomeType, Place
    <3>3. RemovableUnleased'
      BY <2>33 DEF Launch, HomeType, Place
    <3>4. RunningClientKeepsHome'
      <4>1. home[lease[p]].at = "live" /\ lease[p] \in leaseFile
        BY <2>33 DEF Launch, Launchable
      <4> QED BY <2>33, <4>1 DEF Launch
    <3> QED BY <3>1, <3>2, <3>3, <3>4
  <2>34. CASE FailLaunch(p)
    BY <2>34 DEF FailLaunch, HomeType, Place
  <2>35. CASE Release(p)
    BY <2>35 DEF Release, HomeType, Place
  <2>36. CASE FailEarly(p)
    BY <2>36 DEF FailEarly, HomeType, Place
  <2>37. CASE FailSetup(p)
    <3>1. OwnerOK'
      BY <2>37, BestEffortType, HomeWithoutType, CredWithoutType DEF FailSetup, PendingDropped, HomeType, Place
    <3>2. LeaseHeld'
      BY <2>37, BestEffortType, HomeWithoutType, CredWithoutType DEF FailSetup, PendingDropped, HomeType, Place
    <3>3. RemovableUnleased'
      <4>1. pc[p] \in Building \cup {"checked"}
        BY <2>37 DEF FailSetup
        <4>2. /\ (gateway = NoGateway /\ pc'[p] = "dropConfig") \/ pc'[p] = "done"
            /\ UNCHANGED lease
        BY <2>37 DEF FailSetup, FirstSetup
      <4>3. OwnerUnleased(p)'
        BY <4>1, <4>2 DEF OwnerUnleased
      <4>4. pc'[p] \in Inside /\ \A r \in excl' : ~Leased(r)'
        BY <2>37 DEF FailSetup
      <4> QED BY <3>1, <4>3, <4>4, OwnerAlone
    <3>4. RunningClientKeepsHome'
      <4>1. pc[p] \in Building \cup {"checked"}
        BY <2>37 DEF FailSetup
      <4>2. \A o \in Process : pc[o] = "running" => lease[o] # job[p].ref
        BY <4>1 DEF Ref, Agrees, HoldsNoRef
      <4>3. \A o \in Process : pc[o] = "running" => home'[lease[o]] = home[lease[o]]
        BY <2>37, <4>2, BestEffortType DEF FailSetup, PendingDropped, HomeWithout
      <4>4. \A o \in Process : pc'[o] = "running" => pc[o] = "running"
        BY <2>37 DEF FailSetup
      <4> QED BY <2>37, <4>3, <4>4 DEF FailSetup
    <3> QED BY <3>1, <3>2, <3>3, <3>4
  <2>38. CASE FailRevoke(p)
    BY <2>38 DEF FailRevoke, HomeRolledBack, CredRolledBack, CredType, HomeType, Place
  <2> QED BY <1>step, <2>1, <2>2, <2>3, <2>4, <2>5, <2>6, <2>7, <2>8, <2>9, <2>10, <2>11, <2>12, <2>13, <2>14, <2>15, <2>16, <2>17, <2>18, <2>19, <2>20, <2>21, <2>22, <2>23, <2>24, <2>25, <2>26, <2>27, <2>28, <2>29, <2>30, <2>31, <2>32, <2>33, <2>34, <2>35, <2>36, <2>37, <2>38
       DEF Outer, Begin, OwnerStep, SetupStep, RevokeStep, RevokeAllStep, LaunchStep, Fail
<1> QED BY <1>stutter, <1>step DEF Next

\* Initially nothing is leased and nobody is in a transaction.
LEMMA LeaseInit == Init => LeaseInvariant
BY NullAssumption DEF Init, LeaseInvariant, OwnerOK, LeaseHeld, RemovableUnleased, RunningClientKeepsHome,
   Leased, NobodyLeases, Ref, Inside, Undoable, Committed, Dropping, Building, RevokeSteps

\* The inductive invariant of the leases, in every behaviour.
LEMMA LeaseInvariance == Spec => [](TypeInv /\ LeaseInvariant)
<1>1. Init => TypeInv /\ LeaseInvariant
    BY TypeInit, LeaseInit
<1>2. TypeInv /\ LeaseInvariant /\ [Next]_vars => (TypeInv /\ LeaseInvariant)'
    BY TypeStep, LeaseStep
<1> QED BY <1>1, <1>2, PTL DEF Spec

\* No setup, revoke, crash or failing removal, of any number of processes,
\* ever takes the home or the lease file from a client that still runs
\* (RunningClientKeepsHome).
THEOREM ClientKeepsHome == Spec => []RunningClientKeepsHome
<1>1. LeaseInvariant => RunningClientKeepsHome
    BY DEF LeaseInvariant
<1> QED BY LeaseInvariance, <1>1, PTL

(***************************************************************************)
(* The gateway of an installation.                                         *)
(***************************************************************************)
\* Every step keeps the gateway of the config, of the setups under way and of
\* the homes in agreement.
THEOREM GatewayStep == TypeInv /\ LeaseInvariant /\ GatewayInvariant /\ [Next]_vars => GatewayInvariant'
<1> SUFFICES ASSUME TypeInv, LeaseInvariant, GatewayInvariant, [Next]_vars PROVE GatewayInvariant'
    OBVIOUS
<1> USE NullAssumption DEF GatewayInvariant, LeaseInvariant, OwnerOK, LeaseHeld, RunningClientKeepsHome,
        TypeInv, FilesOK, StepsOK, JobOK, files, Goto, ConfigOK, Compatible,
        Agrees, SetupSteps, RevokeSteps, HoldsNoRef, Building,
        Inside, Outside, Undoable, Committed, Dropping
<1>1. LeaseInvariant'
    BY LeaseStep
<1>stutter. CASE UNCHANGED vars
    BY <1>stutter DEF vars, GatewayKept, HomeMatchesGateway
<1>step. ASSUME NEW p \in Process, Outer(p) \/ OwnerStep(p) \/ Fail(p)
         PROVE  GatewayInvariant'
  <2>1. CASE \E q \in Product, g \in Gateway : Precheck(p, q, g)
    <3>1. ConfigOK'
      BY <2>1 DEF Precheck
    <3>2. GatewayKept'
      BY <2>1, <1>1 DEF Precheck, JobType, Request, NoJob, GatewayKept, HomeType, NoHome, HomeWithout
    <3>3. HomeMatchesGateway'
      BY <2>1, <1>1 DEF Precheck, JobType, Request, NoJob, HomeMatchesGateway, GatewayKept, HomeType, NoHome, HomeWithout
    <3> QED BY <3>1, <3>2, <3>3
  <2>2. CASE InspectRoots(p)
    <3>1. ConfigOK'
      BY <2>2 DEF InspectRoots
    <3>2. GatewayKept'
      BY <2>2, <1>1 DEF InspectRoots, JobType, Request, NoJob, GatewayKept, HomeType, NoHome, HomeWithout
    <3>3. HomeMatchesGateway'
      BY <2>2, <1>1 DEF InspectRoots, JobType, Request, NoJob, HomeMatchesGateway, GatewayKept, HomeType, NoHome, HomeWithout
    <3> QED BY <3>1, <3>2, <3>3
  <2>3. CASE FetchFails(p)
    <3>1. ConfigOK'
      BY <2>3 DEF FetchFails
    <3>2. GatewayKept'
      BY <2>3, <1>1 DEF FetchFails, JobType, Request, NoJob, GatewayKept, HomeType, NoHome, HomeWithout
    <3>3. HomeMatchesGateway'
      BY <2>3, <1>1 DEF FetchFails, JobType, Request, NoJob, HomeMatchesGateway, GatewayKept, HomeType, NoHome, HomeWithout
    <3> QED BY <3>1, <3>2, <3>3
  <2>4. CASE \E q \in Product : BeginRevoke(p, q)
    <3>1. ConfigOK'
      BY <2>4 DEF BeginRevoke
    <3>2. GatewayKept'
      BY <2>4, <1>1 DEF BeginRevoke, JobType, Request, NoJob, GatewayKept, HomeType, NoHome, HomeWithout
    <3>3. HomeMatchesGateway'
      BY <2>4, <1>1 DEF BeginRevoke, JobType, Request, NoJob, HomeMatchesGateway, GatewayKept, HomeType, NoHome, HomeWithout
    <3> QED BY <3>1, <3>2, <3>3
  <2>5. CASE BeginRevokeAll(p)
    <3>1. ConfigOK'
      BY <2>5 DEF BeginRevokeAll
    <3>2. GatewayKept'
      BY <2>5, <1>1 DEF BeginRevokeAll, JobType, Request, NoJob, GatewayKept, HomeType, NoHome, HomeWithout
    <3>3. HomeMatchesGateway'
      BY <2>5, <1>1 DEF BeginRevokeAll, JobType, Request, NoJob, HomeMatchesGateway, GatewayKept, HomeType, NoHome, HomeWithout
    <3> QED BY <3>1, <3>2, <3>3
  <2>6. CASE \E q \in Product : BeginLaunch(p, q)
    <3>1. ConfigOK'
      BY <2>6 DEF BeginLaunch
    <3>2. GatewayKept'
      BY <2>6, <1>1 DEF BeginLaunch, JobType, Request, NoJob, GatewayKept, HomeType, NoHome, HomeWithout
    <3>3. HomeMatchesGateway'
      BY <2>6, <1>1 DEF BeginLaunch, JobType, Request, NoJob, HomeMatchesGateway, GatewayKept, HomeType, NoHome, HomeWithout
    <3> QED BY <3>1, <3>2, <3>3
  <2>7. CASE Acquire(p)
    <3>1. ConfigOK'
      BY <2>7 DEF Acquire, Roots
    <3>2. GatewayKept'
      BY <2>7, <1>1 DEF Acquire, Roots, GatewayKept, HomeType, NoHome, HomeWithout
    <3>3. HomeMatchesGateway'
      BY <2>7, <1>1 DEF Acquire, Roots, HomeMatchesGateway, GatewayKept, HomeType, NoHome, HomeWithout
    <3> QED BY <3>1, <3>2, <3>3
  <2>8. CASE Exit(p)
    <3>1. ConfigOK'
      BY <2>8 DEF Exit
    <3>2. GatewayKept'
      BY <2>8, <1>1 DEF Exit, JobType, Request, NoJob, GatewayKept, HomeType, NoHome, HomeWithout
    <3>3. HomeMatchesGateway'
      BY <2>8, <1>1 DEF Exit, JobType, Request, NoJob, HomeMatchesGateway, GatewayKept, HomeType, NoHome, HomeWithout
    <3> QED BY <3>1, <3>2, <3>3
  <2>9. CASE Crash(p)
    <3>1. ConfigOK'
      BY <2>9 DEF Crash
    <3>2. GatewayKept'
      BY <2>9, <1>1 DEF Crash, JobType, Request, NoJob, GatewayKept, HomeType, NoHome, HomeWithout
    <3>3. HomeMatchesGateway'
      BY <2>9, <1>1 DEF Crash, JobType, Request, NoJob, HomeMatchesGateway, GatewayKept, HomeType, NoHome, HomeWithout
    <3> QED BY <3>1, <3>2, <3>3
  <2>10. CASE CheckSetup(p)
    <3>1. ConfigOK'
      BY <2>10 DEF CheckSetup
    <3>2. GatewayKept'
      <4>1. Compatible(job[p].product, job[p].gateway)
        BY <2>10 DEF CheckSetup, MayInstall, GatewayKept
      <4>2. \A o \in Process : /\ job'[o].op = job[o].op /\ job'[o].product = job[o].product
                               /\ job'[o].gateway = job[o].gateway /\ job'[o].ref = job[o].ref
        BY <2>10 DEF CheckSetup, JobType
      <4>3. UNCHANGED <<gateway, entry, home, lease>> /\ pc' = [pc EXCEPT ![p] = "checked"]
        BY <2>10 DEF CheckSetup
      <4> QED BY <4>1, <4>2, <4>3 DEF GatewayKept
    <3>3. HomeMatchesGateway'
      BY <2>10, <1>1 DEF CheckSetup, JobType, Request, NoJob, HomeMatchesGateway, GatewayKept, HomeType, NoHome, HomeWithout
    <3> QED BY <3>1, <3>2, <3>3
  <2>11. CASE RefuseSetup(p)
    <3>1. ConfigOK'
      BY <2>11, BestEffortType DEF RefuseSetup
    <3>2. GatewayKept'
      BY <2>11, <1>1, BestEffortType DEF RefuseSetup, GatewayKept, HomeType, NoHome, HomeWithout
    <3>3. HomeMatchesGateway'
      BY <2>11, <1>1, BestEffortType DEF RefuseSetup, HomeMatchesGateway, GatewayKept, HomeType, NoHome, HomeWithout
    <3> QED BY <3>1, <3>2, <3>3
  <2>12. CASE \E r \in Ref : Stage(p, r)
    <3>1. ConfigOK'
      BY <2>12 DEF Stage, Roots
    <3>2. GatewayKept'
      BY <2>12, <1>1 DEF Stage, Roots, JobType, Request, NoJob, GatewayKept, HomeType, NoHome, HomeWithout
    <3>3. HomeMatchesGateway'
      <4>0. PICK r \in Ref : Stage(p, r)
        BY <2>12
      <4>1. \A q \in Product : entry[q] # NoRef => home'[entry[q]] = home[entry[q]]
        BY <4>0 DEF Stage, Unused
      <4>2. ASSUME NEW o \in Process, pc'[o] = "running"
            PROVE  home'[lease'[o]] = home[lease[o]] /\ job'[o] = job[o] /\ pc[o] = "running"
        BY <4>0, <4>2 DEF Stage, Unused, NoHome
      <4> QED BY <4>0, <4>1, <4>2 DEF Stage, HomeMatchesGateway
    <3> QED BY <3>1, <3>2, <3>3
  <2>13. CASE Promote(p)
    <3>1. ConfigOK'
      BY <2>13 DEF Promote
    <3>2. GatewayKept'
      BY <2>13, <1>1 DEF Promote, GatewayKept, HomeType, NoHome, HomeWithout
    <3>3. HomeMatchesGateway'
      BY <2>13, <1>1 DEF Promote, HomeMatchesGateway, GatewayKept, HomeType, NoHome, HomeWithout
    <3> QED BY <3>1, <3>2, <3>3
  <2>14. CASE SaveCredential(p)
    <3>1. ConfigOK'
      BY <2>14 DEF SaveCredential, CredType
    <3>2. GatewayKept'
      BY <2>14, <1>1 DEF SaveCredential, CredType, GatewayKept, HomeType, NoHome, HomeWithout
    <3>3. HomeMatchesGateway'
      BY <2>14, <1>1 DEF SaveCredential, CredType, HomeMatchesGateway, GatewayKept, HomeType, NoHome, HomeWithout
    <3> QED BY <3>1, <3>2, <3>3
  <2>15. CASE CommitSetup(p)
    <3>1. ConfigOK'
      <4>1. job[p].gateway # NoGateway
        BY <2>15 DEF CommitSetup, GatewayKept
      <4>2. job[p].ref # NoRef /\ job[p].product \in Product
        BY <2>15 DEF CommitSetup, Ref
      <4> QED BY <2>15, <4>1, <4>2 DEF CommitSetup
    <3>2. GatewayKept'
      BY <2>15, <1>1 DEF CommitSetup, JobType, Request, NoJob, GatewayKept, HomeType, NoHome, HomeWithout
    <3>3. HomeMatchesGateway'
      BY <2>15, <1>1 DEF CommitSetup, JobType, Request, NoJob, HomeMatchesGateway, GatewayKept, HomeType, NoHome, HomeWithout
    <3> QED BY <3>1, <3>2, <3>3
  <2>16. CASE RetireCredential(p)
    <3>1. ConfigOK'
      BY <2>16, BestEffortType DEF RetireCredential
    <3>2. GatewayKept'
      BY <2>16, <1>1, BestEffortType DEF RetireCredential, GatewayKept, HomeType, NoHome, HomeWithout
    <3>3. HomeMatchesGateway'
      BY <2>16, <1>1, BestEffortType DEF RetireCredential, HomeMatchesGateway, GatewayKept, HomeType, NoHome, HomeWithout
    <3> QED BY <3>1, <3>2, <3>3
  <2>17. CASE RetireHome(p)
    <3>1. ConfigOK'
      BY <2>17, BestEffortType DEF RetireHome
    <3>2. GatewayKept'
      BY <2>17, <1>1, BestEffortType DEF RetireHome, GatewayKept, HomeType, NoHome, HomeWithout
    <3>3. HomeMatchesGateway'
      BY <2>17, <1>1, BestEffortType DEF RetireHome, HomeMatchesGateway, GatewayKept, HomeType, NoHome, HomeWithout
    <3> QED BY <3>1, <3>2, <3>3
  <2>18. CASE ProbeRevoke(p)
    <3>1. ConfigOK'
      BY <2>18 DEF ProbeRevoke
    <3>2. GatewayKept'
      <4>2. \A o \in Process : /\ job'[o].op = job[o].op /\ job'[o].product = job[o].product
                               /\ job'[o].gateway = job[o].gateway /\ job'[o].ref = job[o].ref
        BY <2>18 DEF ProbeRevoke, JobType
      <4>3. /\ UNCHANGED <<gateway, entry, home, lease>>
            /\ \E s \in {"done", "purging"} : pc' = [pc EXCEPT ![p] = s]
        BY <2>18 DEF ProbeRevoke
      <4> QED BY <4>2, <4>3 DEF GatewayKept
    <3>3. HomeMatchesGateway'
      BY <2>18, <1>1 DEF ProbeRevoke, HomeMatchesGateway, GatewayKept, HomeType, NoHome, HomeWithout
    <3> QED BY <3>1, <3>2, <3>3
  <2>19. CASE PurgeQuarantine(p)
    <3>1. ConfigOK'
      BY <2>19 DEF PurgeQuarantine
    <3>2. GatewayKept'
      BY <2>19, <1>1 DEF PurgeQuarantine, GatewayKept, HomeType, NoHome, HomeWithout
    <3>3. HomeMatchesGateway'
      BY <2>19, <1>1 DEF PurgeQuarantine, HomeMatchesGateway, GatewayKept, HomeType, NoHome, HomeWithout
    <3> QED BY <3>1, <3>2, <3>3
  <2>20. CASE PurgedPrevious(p)
    <3>1. ConfigOK'
      BY <2>20 DEF PurgedPrevious
    <3>2. GatewayKept'
      BY <2>20, <1>1 DEF PurgedPrevious, GatewayKept, HomeType, NoHome, HomeWithout
    <3>3. HomeMatchesGateway'
      BY <2>20, <1>1 DEF PurgedPrevious, HomeMatchesGateway, GatewayKept, HomeType, NoHome, HomeWithout
    <3> QED BY <3>1, <3>2, <3>3
  <2>21. CASE MoveCredential(p)
    <3>1. ConfigOK'
      BY <2>21 DEF MoveCredential, CredType
    <3>2. GatewayKept'
      BY <2>21, <1>1 DEF MoveCredential, CredType, GatewayKept, HomeType, NoHome, HomeWithout
    <3>3. HomeMatchesGateway'
      BY <2>21, <1>1 DEF MoveCredential, CredType, HomeMatchesGateway, GatewayKept, HomeType, NoHome, HomeWithout
    <3> QED BY <3>1, <3>2, <3>3
  <2>22. CASE MoveHome(p)
    <3>1. ConfigOK'
      BY <2>22 DEF MoveHome
    <3>2. GatewayKept'
      BY <2>22, <1>1 DEF MoveHome, GatewayKept, HomeType, NoHome, HomeWithout
    <3>3. HomeMatchesGateway'
      <4>1. \A r \in Ref : home'[r] # home[r] => home[r] # NoHome /\ home'[r].for = home[r].for
        BY <2>22 DEF MoveHome, HomesToMove, HomeType, NoHome
      <4>2. \A o \in Process : pc[o] = "running" => home'[lease[o]].for = home[lease[o]].for
        BY <4>1
      <4> QED BY <2>22, <4>1, <4>2 DEF MoveHome, HomeMatchesGateway
    <3> QED BY <3>1, <3>2, <3>3
  <2>23. CASE CommitRevoke(p)
    <3>1. ConfigOK'
      BY <2>23 DEF CommitRevoke
    <3>2. GatewayKept'
      BY <2>23, <1>1 DEF CommitRevoke, GatewayKept, HomeType, NoHome, HomeWithout
    <3>3. HomeMatchesGateway'
      BY <2>23, <1>1 DEF CommitRevoke, HomeMatchesGateway, GatewayKept, HomeType, NoHome, HomeWithout
    <3> QED BY <3>1, <3>2, <3>3
  <2>24. CASE PurgedOwn(p)
    <3>1. ConfigOK'
      BY <2>24 DEF PurgedOwn
    <3>2. GatewayKept'
      BY <2>24, <1>1 DEF PurgedOwn, GatewayKept, HomeType, NoHome, HomeWithout
    <3>3. HomeMatchesGateway'
      BY <2>24, <1>1 DEF PurgedOwn, HomeMatchesGateway, GatewayKept, HomeType, NoHome, HomeWithout
    <3> QED BY <3>1, <3>2, <3>3
  <2>25. CASE DropLeases(p)
    <3>1. ConfigOK'
      BY <2>25, BestEffortType DEF DropLeases
    <3>2. GatewayKept'
      BY <2>25, <1>1, BestEffortType DEF DropLeases, GatewayKept, HomeType, NoHome, HomeWithout
    <3>3. HomeMatchesGateway'
      BY <2>25, <1>1, BestEffortType DEF DropLeases, HomeMatchesGateway, GatewayKept, HomeType, NoHome, HomeWithout
    <3> QED BY <3>1, <3>2, <3>3
  <2>26. CASE Prune(p)
    <3>1. ConfigOK'
      BY <2>26, BestEffortType DEF Prune, EmptyDirs
    <3>2. GatewayKept'
      BY <2>26, <1>1, BestEffortType DEF Prune, EmptyDirs, GatewayKept, HomeType, NoHome, HomeWithout
    <3>3. HomeMatchesGateway'
      BY <2>26, <1>1, BestEffortType DEF Prune, EmptyDirs, HomeMatchesGateway, GatewayKept, HomeType, NoHome, HomeWithout
    <3> QED BY <3>1, <3>2, <3>3
  <2>27. CASE ProbeRevokeAll(p)
    <3>1. ConfigOK'
      BY <2>27 DEF ProbeRevokeAll
    <3>2. GatewayKept'
      BY <2>27, <1>1 DEF ProbeRevokeAll, GatewayKept, HomeType, NoHome, HomeWithout
    <3>3. HomeMatchesGateway'
      BY <2>27, <1>1 DEF ProbeRevokeAll, HomeMatchesGateway, GatewayKept, HomeType, NoHome, HomeWithout
    <3> QED BY <3>1, <3>2, <3>3
  <2>28. CASE DropConfigRoot(p)
    <3>1. ConfigOK'
      BY <2>28 DEF DropConfigRoot, DropFails
    <3>2. GatewayKept'
      BY <2>28, <1>1 DEF DropConfigRoot, DropFails, GatewayKept, HomeType, NoHome, HomeWithout
    <3>3. HomeMatchesGateway'
      BY <2>28, <1>1 DEF DropConfigRoot, DropFails, HomeMatchesGateway, GatewayKept, HomeType, NoHome, HomeWithout
    <3> QED BY <3>1, <3>2, <3>3
  <2>29. CASE DropDataRoot(p)
    <3>1. ConfigOK'
      BY <2>29 DEF DropDataRoot, DropFails
    <3>2. GatewayKept'
      BY <2>29, <1>1 DEF DropDataRoot, DropFails, GatewayKept, HomeType, NoHome, HomeWithout
    <3>3. HomeMatchesGateway'
      BY <2>29, <1>1 DEF DropDataRoot, DropFails, HomeMatchesGateway, GatewayKept, HomeType, NoHome, HomeWithout
    <3> QED BY <3>1, <3>2, <3>3
  <2>30. CASE DropStateRoot(p)
    <3>1. ConfigOK'
      BY <2>30 DEF DropStateRoot, DropFails
    <3>2. GatewayKept'
      BY <2>30, <1>1 DEF DropStateRoot, DropFails, GatewayKept, HomeType, NoHome, HomeWithout
    <3>3. HomeMatchesGateway'
      BY <2>30, <1>1 DEF DropStateRoot, DropFails, HomeMatchesGateway, GatewayKept, HomeType, NoHome, HomeWithout
    <3> QED BY <3>1, <3>2, <3>3
  <2>31. CASE RefuseLaunch(p)
    <3>1. ConfigOK'
      BY <2>31 DEF RefuseLaunch
    <3>2. GatewayKept'
      BY <2>31, <1>1 DEF RefuseLaunch, GatewayKept, HomeType, NoHome, HomeWithout
    <3>3. HomeMatchesGateway'
      BY <2>31, <1>1 DEF RefuseLaunch, HomeMatchesGateway, GatewayKept, HomeType, NoHome, HomeWithout
    <3> QED BY <3>1, <3>2, <3>3
  <2>32. CASE TakeLease(p)
    <3>1. ConfigOK'
      BY <2>32 DEF TakeLease, Configured
    <3>2. GatewayKept'
      BY <2>32, <1>1 DEF TakeLease, Configured, JobType, Request, NoJob, GatewayKept, HomeType, NoHome, HomeWithout
    <3>3. HomeMatchesGateway'
      BY <2>32, <1>1 DEF TakeLease, Configured, JobType, Request, NoJob, HomeMatchesGateway, GatewayKept, HomeType, NoHome, HomeWithout
    <3> QED BY <3>1, <3>2, <3>3
  <2>33. CASE Launch(p)
    <3>1. ConfigOK'
      BY <2>33 DEF Launch
    <3>2. GatewayKept'
      BY <2>33, <1>1 DEF Launch, JobType, Request, NoJob, GatewayKept, HomeType, NoHome, HomeWithout
    <3>3. HomeMatchesGateway'
      <4>1. home[lease[p]] # NoHome /\ lease[p] = entry[job[p].product] /\ job[p].gateway = gateway
        BY <2>33 DEF Launch, Launchable, NoHome, GatewayKept
      <4>0. job[p].product \in Product /\ lease[p] \in Ref
        BY <2>33 DEF Launch, GatewayKept
      <4>2. home[lease[p]].for = gateway
        BY <4>0, <4>1 DEF HomeMatchesGateway, Ref
      <4>3. \A o \in Process : pc'[o] = "running" => job'[o].gateway = job[o].gateway
        BY <2>33 DEF Launch, Request
      <4> QED BY <2>33, <4>1, <4>2, <4>3 DEF Launch, HomeMatchesGateway
    <3> QED BY <3>1, <3>2, <3>3
  <2>34. CASE FailLaunch(p)
    <3>1. ConfigOK'
      BY <2>34 DEF FailLaunch
    <3>2. GatewayKept'
      BY <2>34, <1>1 DEF FailLaunch, GatewayKept, HomeType, NoHome, HomeWithout
    <3>3. HomeMatchesGateway'
      BY <2>34, <1>1 DEF FailLaunch, HomeMatchesGateway, GatewayKept, HomeType, NoHome, HomeWithout
    <3> QED BY <3>1, <3>2, <3>3
  <2>35. CASE Release(p)
    <3>1. ConfigOK'
      BY <2>35 DEF Release
    <3>2. GatewayKept'
      BY <2>35, <1>1 DEF Release, JobType, Request, NoJob, GatewayKept, HomeType, NoHome, HomeWithout
    <3>3. HomeMatchesGateway'
      BY <2>35, <1>1 DEF Release, JobType, Request, NoJob, HomeMatchesGateway, GatewayKept, HomeType, NoHome, HomeWithout
    <3> QED BY <3>1, <3>2, <3>3
  <2>36. CASE FailEarly(p)
    <3>1. ConfigOK'
      BY <2>36 DEF FailEarly
    <3>2. GatewayKept'
      BY <2>36, <1>1 DEF FailEarly, GatewayKept, HomeType, NoHome, HomeWithout
    <3>3. HomeMatchesGateway'
      BY <2>36, <1>1 DEF FailEarly, HomeMatchesGateway, GatewayKept, HomeType, NoHome, HomeWithout
    <3> QED BY <3>1, <3>2, <3>3
  <2>37. CASE FailSetup(p)
    <3>1. ConfigOK'
      BY <2>37, BestEffortType DEF FailSetup, PendingDropped
    <3>2. GatewayKept'
      BY <2>37, <1>1, BestEffortType DEF FailSetup, PendingDropped, GatewayKept, HomeType, NoHome, HomeWithout
    <3>3. HomeMatchesGateway'
      BY <2>37, <1>1, BestEffortType DEF FailSetup, PendingDropped, HomeMatchesGateway, GatewayKept, HomeType, NoHome, HomeWithout
    <3> QED BY <3>1, <3>2, <3>3
  <2>38. CASE FailRevoke(p)
    <3>1. ConfigOK'
      BY <2>38 DEF FailRevoke, HomeRolledBack, CredRolledBack, CredType
    <3>2. GatewayKept'
      BY <2>38, <1>1 DEF FailRevoke, HomeRolledBack, CredRolledBack, CredType, GatewayKept, HomeType, NoHome, HomeWithout
    <3>3. HomeMatchesGateway'
      BY <2>38, <1>1 DEF FailRevoke, HomeRolledBack, CredRolledBack, CredType, HomeMatchesGateway, GatewayKept, HomeType, NoHome, HomeWithout
    <3> QED BY <3>1, <3>2, <3>3
  <2> QED BY <1>step, <2>1, <2>2, <2>3, <2>4, <2>5, <2>6, <2>7, <2>8, <2>9, <2>10, <2>11, <2>12, <2>13, <2>14, <2>15, <2>16, <2>17, <2>18, <2>19, <2>20, <2>21, <2>22, <2>23, <2>24, <2>25, <2>26, <2>27, <2>28, <2>29, <2>30, <2>31, <2>32, <2>33, <2>34, <2>35, <2>36, <2>37, <2>38
       DEF Outer, Begin, OwnerStep, SetupStep, RevokeStep, RevokeAllStep, LaunchStep, Fail
<1> QED BY <1>stutter, <1>step DEF Next

\* Initially there is no config and no home.
LEMMA GatewayInit == Init => GatewayInvariant
BY NoJobType, RequestType DEF Init, GatewayInvariant, ConfigOK, GatewayKept, HomeMatchesGateway, Building

Invariant == TypeInv /\ LeaseInvariant /\ GatewayInvariant

\* The inductive invariant of the transactions, in every behaviour.
LEMMA Invariance == Spec => []Invariant
<1>1. Init => Invariant
    BY TypeInit, LeaseInit, GatewayInit DEF Invariant
<1>2. Invariant /\ [Next]_vars => Invariant'
    BY TypeStep, LeaseStep, GatewayStep DEF Invariant
<1> QED BY <1>1, <1>2, PTL DEF Spec

\* The committed homes and the homes clients run go with the gateway they are
\* used with (HomeMatchesGateway), however provisions, setups and crashes of
\* any number of processes interleave.
THEOREM GatewayOfEveryHome == Spec => []HomeMatchesGateway
<1>1. Invariant => HomeMatchesGateway
    BY DEF Invariant, GatewayInvariant
<1> QED BY Invariance, <1>1, PTL

(***************************************************************************)
(* The refinement.                                                         *)
(***************************************************************************)
\* The references in use are leased.
LEMMA InUseIsLeased ==
    ASSUME NEW r \in Promise!InUse PROVE \E o \in Process : pc[o] = "running" /\ lease[o] = r
BY DEF Promise!InUse, session

\* Without a lease nothing is in use.
LEMMA NobodyInUse ==
    ASSUME TypeInv, LeaseInvariant, NobodyLeases PROVE Promise!InUse = {}
<1>1. \A o \in Process : pc[o] = "running" => lease[o] \in Ref /\ Leased(lease[o])
    BY DEF TypeInv, FilesOK, LeaseInvariant, LeaseHeld, Leased
<1> QED BY <1>1, InUseIsLeased DEF NobodyLeases

\* A step that launches nothing, ends nothing and commits nothing stutters.
LEMMA SessionKept ==
    ASSUME \A o \in Process : /\ pc'[o] = "running" <=> pc[o] = "running"
                              /\ pc[o] = "running" => /\ lease'[o] = lease[o]
                                                      /\ job'[o].gateway = job[o].gateway
    PROVE  session' = session
BY DEF session

\* A client that ends closes its session.
LEMMA SessionClosed ==
    ASSUME NEW p \in Process, TypeInv, LeaseInvariant, pc[p] = "running", pc' = [pc EXCEPT ![p] = "idle"],
           lease' = [lease EXCEPT ![p] = NoRef], job' = [job EXCEPT ![p] = NoJob],
           UNCHANGED <<entry, gateway>>
    PROVE  Promise!Close(p)
<1>1. lease[p] \in Ref /\ job[p].gateway \in Gateway \cup {NoGateway}
    BY DEF TypeInv, FilesOK, StepsOK, JobType, LeaseInvariant, LeaseHeld
<1>2. session[p] # NoSession
    BY <1>1, SessionAssumption DEF session, Ref
<1>3. session' = [session EXCEPT ![p] = NoSession]
    BY DEF session, TypeInv, StepsOK, FilesOK
<1> QED BY <1>2, <1>3 DEF Promise!Close

\* Every step of the transactions is a step of Installation or a stutter.
THEOREM RefinementStep == Invariant /\ [Next]_vars => [Promise!Next]_(Promise!vars)
<1> SUFFICES ASSUME Invariant, [Next]_vars PROVE [Promise!Next]_(Promise!vars)
    OBVIOUS
<1> USE NullAssumption DEF Invariant, GatewayInvariant, LeaseInvariant, OwnerOK, LeaseHeld,
        TypeInv, FilesOK, StepsOK, JobOK, files, Goto, Promise!vars,
        Agrees, SetupSteps, RevokeSteps, HoldsNoRef, Building,
        Inside, Outside, Undoable, Committed, Dropping
<1>stutter. CASE UNCHANGED vars
    BY <1>stutter DEF vars, session
<1>step. ASSUME NEW p \in Process, Outer(p) \/ OwnerStep(p) \/ Fail(p)
         PROVE  [Promise!Next]_(Promise!vars)
  <2>1. CASE \E q \in Product, g \in Gateway : Precheck(p, q, g)
    BY <2>1, SessionKept DEF Precheck, JobType
  <2>2. CASE InspectRoots(p)
    BY <2>2, SessionKept DEF InspectRoots, JobType
  <2>3. CASE FetchFails(p)
    BY <2>3, SessionKept DEF FetchFails, JobType
  <2>4. CASE \E q \in Product : BeginRevoke(p, q)
    BY <2>4, SessionKept DEF BeginRevoke, JobType
  <2>5. CASE BeginRevokeAll(p)
    BY <2>5, SessionKept DEF BeginRevokeAll, JobType
  <2>6. CASE \E q \in Product : BeginLaunch(p, q)
    BY <2>6, SessionKept DEF BeginLaunch, JobType
  <2>7. CASE Acquire(p)
    BY <2>7, SessionKept DEF Acquire
  <2>8. CASE Exit(p)
    BY <2>8, SessionClosed DEF Exit, Promise!Next
  <2>9. CASE Crash(p)
    <3>1. CASE pc[p] = "running"
      BY <2>9, <3>1, SessionClosed DEF Crash, Promise!Next
    <3>2. CASE pc[p] # "running"
      BY <2>9, <3>2, SessionKept DEF Crash
    <3> QED BY <3>1, <3>2
  <2>10. CASE CheckSetup(p)
    BY <2>10, SessionKept DEF CheckSetup, JobType
  <2>11. CASE RefuseSetup(p)
    BY <2>11, SessionKept DEF RefuseSetup
  <2>12. CASE \E r \in Ref : Stage(p, r)
    BY <2>12, SessionKept DEF Stage, JobType
  <2>13. CASE Promote(p)
    BY <2>13, SessionKept DEF Promote
  <2>14. CASE SaveCredential(p)
    BY <2>14, SessionKept DEF SaveCredential
  <2>15. CASE CommitSetup(p)
    <3> DEFINE q == job[p].product
    <3> DEFINE r == job[p].ref
    <3>1. q \in Product /\ r \in Promise!Refs(q) /\ job[p].gateway \in Gateway /\ pc[p] = "saved"
      BY <2>15 DEF CommitSetup, GatewayKept, Refs, Promise!Refs
    <3>2. Compatible(q, job[p].gateway) /\ ~Leased(r)
      BY <2>15 DEF CommitSetup, GatewayKept, RemovableUnleased
    <3>3. session' = session
      BY <2>15, SessionKept DEF CommitSetup, JobType
    <3>4. r \notin Promise!InUse
      BY <3>2, InUseIsLeased DEF Leased
    <3> QED BY <2>15, <3>1, <3>2, <3>3, <3>4 DEF CommitSetup, Compatible, Promise!Next, Promise!Install
  <2>16. CASE RetireCredential(p)
    BY <2>16, SessionKept DEF RetireCredential
  <2>17. CASE RetireHome(p)
    BY <2>17, SessionKept DEF RetireHome
  <2>18. CASE ProbeRevoke(p)
    BY <2>18, SessionKept DEF ProbeRevoke, JobType
  <2>19. CASE PurgeQuarantine(p)
    BY <2>19, SessionKept DEF PurgeQuarantine
  <2>20. CASE PurgedPrevious(p)
    BY <2>20, SessionKept DEF PurgedPrevious
  <2>21. CASE MoveCredential(p)
    BY <2>21, SessionKept DEF MoveCredential
  <2>22. CASE MoveHome(p)
    BY <2>22, SessionKept DEF MoveHome
  <2>23. CASE CommitRevoke(p)
    <3> DEFINE q == job[p].product
    <3>1. q \in Product /\ \A r \in Refs(q) : ~Leased(r)
      BY <2>23 DEF CommitRevoke, RemovableUnleased
    <3>2. session' = session
      BY <2>23, SessionKept DEF CommitRevoke
    <3>3. Promise!InUse \cap Promise!Refs(q) = {}
      BY <3>1, InUseIsLeased DEF Leased, Refs, Promise!Refs
    <3>4. CASE entry[q] = NoRef
      BY <2>23, <3>1, <3>2, <3>4 DEF CommitRevoke, ConfigOK
    <3>5. CASE entry[q] # NoRef
      <4>1. entry' = [entry EXCEPT ![q] = NoRef]
            /\ gateway' = IF \E o \in Product \ {q} : entry[o] # NoRef THEN gateway ELSE NoGateway
        BY <2>23, <3>1 DEF CommitRevoke
      <4> QED BY <3>1, <3>2, <3>3, <3>5, <4>1 DEF Promise!Next, Promise!Remove
    <3> QED BY <3>4, <3>5
  <2>24. CASE PurgedOwn(p)
    BY <2>24, SessionKept DEF PurgedOwn
  <2>25. CASE DropLeases(p)
    BY <2>25, SessionKept DEF DropLeases
  <2>26. CASE Prune(p)
    BY <2>26, SessionKept DEF Prune
  <2>27. CASE ProbeRevokeAll(p)
    BY <2>27, SessionKept DEF ProbeRevokeAll
  <2>28. CASE DropConfigRoot(p)
    <3>1. Promise!InUse = {}
      BY <2>28, NobodyInUse DEF DropConfigRoot, RemovableUnleased
    <3>2. session' = session
      BY <2>28, SessionKept DEF DropConfigRoot, DropFails
    <3> QED BY <2>28, <3>1, <3>2 DEF DropConfigRoot, DropFails, Promise!Next, Promise!RemoveAll
  <2>29. CASE DropDataRoot(p)
    BY <2>29, SessionKept DEF DropDataRoot, DropFails
  <2>30. CASE DropStateRoot(p)
    BY <2>30, SessionKept DEF DropStateRoot, DropFails
  <2>31. CASE RefuseLaunch(p)
    BY <2>31, SessionKept DEF RefuseLaunch
  <2>32. CASE TakeLease(p)
    BY <2>32, SessionKept DEF TakeLease, JobType
  <2>33. CASE Launch(p)
    <3> DEFINE q == job[p].product
    <3>1. q \in Product /\ lease[p] = entry[q] /\ lease[p] \in Ref /\ job[p].gateway = gateway
      BY <2>33 DEF Launch, GatewayKept
    <3>2. session[p] = NoSession
      BY <2>33 DEF Launch, session
    <3>3. session' = [session EXCEPT ![p] = [ref |-> entry[q], gateway |-> gateway]]
      BY <2>33, <3>1 DEF Launch, session, Request
    <3> QED BY ZenonT(60), <2>33, <3>1, <3>2, <3>3 DEF Launch, Ref, Promise!Next, Promise!Open
  <2>34. CASE FailLaunch(p)
    BY <2>34, SessionKept DEF FailLaunch
  <2>35. CASE Release(p)
    BY <2>35, SessionKept DEF Release, JobType
  <2>36. CASE FailEarly(p)
    BY <2>36, SessionKept DEF FailEarly
  <2>37. CASE FailSetup(p)
    BY <2>37, SessionKept DEF FailSetup
  <2>38. CASE FailRevoke(p)
    BY <2>38, SessionKept DEF FailRevoke
  <2> QED BY <1>step, <2>1, <2>2, <2>3, <2>4, <2>5, <2>6, <2>7, <2>8, <2>9, <2>10, <2>11, <2>12, <2>13, <2>14, <2>15, <2>16, <2>17, <2>18, <2>19, <2>20, <2>21, <2>22, <2>23, <2>24, <2>25, <2>26, <2>27, <2>28, <2>29, <2>30, <2>31, <2>32, <2>33, <2>34, <2>35, <2>36, <2>37, <2>38
       DEF Outer, Begin, OwnerStep, SetupStep, RevokeStep, RevokeAllStep, LaunchStep, Fail
<1> QED BY <1>stutter, <1>step DEF Next

\* The files of an installation that crashes and failing removals may leave
\* in any order still keep the promise of Installation: products share one
\* gateway, a running client keeps its generation, and a launch pairs one
\* generation with its gateway (ImplementsInstallation).
THEOREM Refinement == Spec => ImplementsInstallation
<1>1. Init => Promise!Init
    BY DEF Init, Promise!Init, session
<1>2. Invariant /\ [Next]_vars => [Promise!Next]_(Promise!vars)
    BY RefinementStep
<1> QED BY Invariance, <1>1, <1>2, PTL DEF Spec, ImplementsInstallation, Promise!Spec
(***************************************************************************)
(* What transactions report.                                               *)
(***************************************************************************)
\* A diagnosis depends on what the entry refers to, and on nothing else.
LEMMA DiagnoseKept ==
    ASSUME NEW q \in Product, entry'[q] = entry[q],
           entry[q] # NoRef => /\ home'[entry[q]].at = "live" <=> home[entry[q]].at = "live"
                               /\ cred'[entry[q]] = "live" <=> cred[entry[q]] = "live"
    PROVE  Diagnose(q)' = Diagnose(q)
BY DEF Diagnose

\* While a process is in a transaction only that process has anything to keep true.
LEMMA TheOwner ==
    ASSUME OwnerOK', NEW p \in Process, pc'[p] \in Inside,
           EntriesAreOwn', DataInItsRoot', OwnerSound(p)'
    PROVE  CommitInvariant'
<1>1. \A o \in Process \ {p} : pc'[o] \notin Acting
    BY DEF OwnerOK, Acting, Inside
<1>2. \A o \in Process : pc'[o] \notin Acting => OwnerSound(o)'
    BY DEF OwnerSound, DiagnosisStands, PendingIsNew, RetiredIsReplaced, RevokedIsGone, GroundIsClean, DropIsTotal,
       Acting, Undoable, Committed, Dropping, Building
<1> QED BY <1>1, <1>2 DEF CommitInvariant

\* The last step of a transaction leaves nothing to keep true but the files.
LEMMA OwnerEnds ==
    ASSUME OwnerOK', NEW p \in Process, pc'[p] \in Inside \ Acting, EntriesAreOwn', DataInItsRoot'
    PROVE  CommitInvariant'
<1>1. OwnerSound(p)'
    BY DEF OwnerSound, DiagnosisStands, PendingIsNew, RetiredIsReplaced, RevokedIsGone, GroundIsClean, DropIsTotal,
       Acting, Undoable, Committed, Dropping, Building
<1> QED BY <1>1, TheOwner

\* A step of nobody in a transaction changes nothing that a transaction found.
LEMMA Quiet ==
    ASSUME CommitInvariant, UNCHANGED <<entry, gateway, home, cred, leaseFile>>, "data" \in dirs => "data" \in dirs',
           \A o \in Process : (pc'[o] = pc[o] /\ job'[o] = job[o]) \/ pc'[o] \notin Acting
    PROVE  CommitInvariant'
<1>1. \A q : Diagnose(q)' = Diagnose(q)
    BY DEF Diagnose
<1>2. EntriesAreOwn' /\ DataInItsRoot'
    BY DEF CommitInvariant, EntriesAreOwn, DataInItsRoot
<1>3. ASSUME NEW o \in Process, pc'[o] = pc[o] /\ job'[o] = job[o] PROVE OwnerSound(o)'
    BY <1>1, <1>3 DEF CommitInvariant, OwnerSound, DiagnosisStands, PendingIsNew, RetiredIsReplaced, RevokedIsGone,
       GroundIsClean, DropIsTotal, Complete
<1>4. \A o \in Process : pc'[o] \notin Acting => OwnerSound(o)'
    BY DEF OwnerSound, DiagnosisStands, PendingIsNew, RetiredIsReplaced, RevokedIsGone, GroundIsClean, DropIsTotal,
       Acting, Undoable, Committed, Dropping, Building
<1> QED BY <1>2, <1>3, <1>4 DEF CommitInvariant

\* Every step keeps what a transaction found under the lock true until its
\* commit, and what it reports true until its end.
THEOREM CommitStep == Invariant /\ CommitInvariant /\ [Next]_vars => CommitInvariant'
<1> SUFFICES ASSUME Invariant, CommitInvariant, [Next]_vars PROVE CommitInvariant'
    OBVIOUS
<1>0. OwnerOK'
    BY LeaseStep DEF Invariant, LeaseInvariant
<1> USE <1>0, NullAssumption DEF Invariant, GatewayInvariant, LeaseInvariant, OwnerOK, LeaseHeld,
        TypeInv, FilesOK, StepsOK, JobOK, files, Goto, CommitInvariant, OwnerSound,
        Agrees, SetupSteps, RevokeSteps, HoldsNoRef, Building,
        Inside, Outside, Undoable, Committed, Dropping, Acting
<1>stutter. CASE UNCHANGED vars
    BY <1>stutter, Quiet DEF vars
<1>step. ASSUME NEW p \in Process, Outer(p) \/ OwnerStep(p) \/ Fail(p)
         PROVE  CommitInvariant'
  <2>1. CASE \E q \in Product, g \in Gateway : Precheck(p, q, g)
    BY <2>1, Quiet DEF Precheck
  <2>2. CASE InspectRoots(p)
    BY <2>2, Quiet DEF InspectRoots
  <2>3. CASE FetchFails(p)
    BY <2>3, Quiet DEF FetchFails
  <2>4. CASE \E q \in Product : BeginRevoke(p, q)
    BY <2>4, Quiet DEF BeginRevoke
  <2>5. CASE BeginRevokeAll(p)
    BY <2>5, Quiet DEF BeginRevokeAll
  <2>6. CASE \E q \in Product : BeginLaunch(p, q)
    BY <2>6, Quiet DEF BeginLaunch
  <2>7. CASE Acquire(p)
    BY <2>7, Quiet DEF Acquire
  <2>8. CASE Exit(p)
    BY <2>8, Quiet DEF Exit
  <2>9. CASE Crash(p)
    BY <2>9, Quiet DEF Crash
  <2>10. CASE CheckSetup(p)
    <3>1. UNCHANGED <<files, excl>> /\ pc'[p] = "checked" /\ job'[p].diag = Diagnosis
      BY <2>10 DEF CheckSetup, JobType
    <3>2. job'[p].product = job[p].product /\ job'[p].ref = NoRef
      BY <2>10 DEF CheckSetup, JobType
    <3>3. DiagnosisStands(p)'
      BY <3>1, <3>2 DEF DiagnosisStands, Diagnosis, Diagnose
    <3>4. ASSUME gateway = NoGateway
          PROVE  leaseFile = {} /\ \A r \in Ref : home[r] = NoHome /\ cred[r] = "absent"
      BY <2>10, <3>4 DEF CheckSetup, MayInstall, RootsClean, DataInItsRoot
    <3>5. OwnerSound(p)'
      BY <3>1, <3>3, <3>4 DEF OwnerSound, PendingIsNew, RetiredIsReplaced, RevokedIsGone, GroundIsClean, DropIsTotal
    <3> QED BY <3>1, <3>5, TheOwner DEF EntriesAreOwn, DataInItsRoot
  <2>11. CASE RefuseSetup(p)
    BY <2>11, Quiet, BestEffortType DEF RefuseSetup, Roots
  <2>12. CASE \E r \in Ref : Stage(p, r)
    <3>0. PICK r \in Ref : Stage(p, r)
      BY <2>12
    <3>1. /\ UNCHANGED <<entry, gateway, cred, leaseFile>> /\ pc[p] = "checked" /\ pc'[p] = "staged"
          /\ home' = [home EXCEPT ![r] = [at |-> "staged", for |-> job[p].gateway]] /\ "data" \in dirs'
      BY <3>0 DEF Stage, Roots
    <3>2. job'[p].product = job[p].product /\ job'[p].diag = job[p].diag /\ job'[p].ref = r /\ job[p].ref = NoRef
      BY <3>0 DEF Stage, JobType
    <3>3. \A q \in Product : entry[q] # r
      BY <3>0 DEF Stage, Unused
    <3>4. \A q \in Product : Diagnose(q)' = Diagnose(q)
      BY <3>1, <3>3, DiagnoseKept
    <3>5. OwnerSound(p)'
      <4>1. DiagnosisStands(p)'
        BY <3>1, <3>2, <3>4 DEF DiagnosisStands
      <4>2. PendingIsNew(p)'
        BY <3>1, <3>2, <3>3 DEF PendingIsNew
      <4>3. GroundIsClean(p)'
        BY <3>1, <3>2 DEF GroundIsClean, Ref
      <4> QED BY <3>1, <4>1, <4>2, <4>3 DEF OwnerSound, RetiredIsReplaced, RevokedIsGone, DropIsTotal
    <3> QED BY <3>1, <3>5, TheOwner DEF EntriesAreOwn, DataInItsRoot
  <2>13. CASE Promote(p)
    <3>1. /\ UNCHANGED <<dirs, entry, gateway, cred, leaseFile, job>> /\ pc[p] = "staged" /\ pc'[p] = "promoted"
          /\ home' = [home EXCEPT ![job[p].ref].at = "live"] /\ job[p].ref \in Ref /\ "data" \in dirs
      BY <2>13 DEF Promote, PendingIsNew
    <3>2. \A q \in Product : Diagnose(q)' = Diagnose(q)
      BY <3>1, DiagnoseKept DEF PendingIsNew
    <3>3. OwnerSound(p)'
      <4>1. DiagnosisStands(p)'
        BY <3>1, <3>2 DEF DiagnosisStands
      <4>2. PendingIsNew(p)'
        BY <3>1 DEF PendingIsNew, HomeType
      <4>3. GroundIsClean(p)'
        BY <3>1 DEF GroundIsClean
      <4> QED BY <3>1, <4>1, <4>2, <4>3 DEF OwnerSound, RetiredIsReplaced, RevokedIsGone, DropIsTotal
    <3> QED BY <3>1, <3>3, TheOwner DEF EntriesAreOwn, DataInItsRoot
  <2>14. CASE SaveCredential(p)
    <3>1. /\ UNCHANGED <<dirs, entry, gateway, home, leaseFile, job>> /\ pc[p] = "promoted" /\ pc'[p] = "saved"
          /\ cred' = [cred EXCEPT ![job[p].ref] = "live"] /\ job[p].ref \in Ref /\ "data" \in dirs
      BY <2>14 DEF SaveCredential, PendingIsNew
    <3>2. \A q \in Product : Diagnose(q)' = Diagnose(q)
      BY <3>1, DiagnoseKept DEF PendingIsNew
    <3>3. OwnerSound(p)'
      <4>1. DiagnosisStands(p)'
        BY <3>1, <3>2 DEF DiagnosisStands
      <4>2. PendingIsNew(p)'
        BY <3>1 DEF PendingIsNew, CredType
      <4>3. GroundIsClean(p)'
        BY <3>1 DEF GroundIsClean
      <4> QED BY <3>1, <4>1, <4>2, <4>3 DEF OwnerSound, RetiredIsReplaced, RevokedIsGone, DropIsTotal
    <3> QED BY <3>1, <3>3, TheOwner DEF EntriesAreOwn, DataInItsRoot
  <2>15. CASE CommitSetup(p)
    <3> DEFINE q == job[p].product
               r == job[p].ref
    <3>1. /\ UNCHANGED <<dirs, home, cred, leaseFile>> /\ pc[p] = "saved" /\ pc'[p] = "retiring"
          /\ entry' = [entry EXCEPT ![q] = r] /\ q \in Product /\ r \in Refs(q)
      BY <2>15 DEF CommitSetup, GatewayKept
    <3>2. job'[p].product = q /\ job'[p].diag = job[p].diag /\ job'[p].ref = entry[q]
      BY <2>15 DEF CommitSetup, JobType
    <3>3. EntriesAreOwn'
      BY <3>1 DEF EntriesAreOwn, Refs
    <3>4. home[r].at = "live" /\ cred[r] = "live" /\ \A o \in Product : entry[o] # r
      BY <3>1 DEF PendingIsNew
    <3>5. DiagnosisStands(p)'
      <4>1. \A o \in Product \ {q} : Diagnose(o)' = Diagnose(o)
        BY <3>1, DiagnoseKept
      <4> QED BY <3>1, <3>2, <4>1 DEF DiagnosisStands
    <3>6. Complete(q)'
      <4>1. r \in Ref /\ r # NoRef
        BY <3>1 DEF Refs, Ref
      <4> QED BY <3>1, <3>2, <3>4, <4>1 DEF Complete, Diagnose
    <3>7. entry[q] # NoRef => \A o \in Product : entry'[o] # entry[q]
      <4>1. \A o \in Product \ {q} : entry[q] # NoRef => entry[o] # entry[q]
        BY <3>1 DEF EntriesAreOwn, Refs
      <4> QED BY <3>1, <3>4, <4>1
    <3>8. RetiredIsReplaced(p)'
      BY <3>2, <3>6, <3>7 DEF RetiredIsReplaced, Complete, Diagnose
    <3>9. OwnerSound(p)'
      BY <3>1, <3>5, <3>8 DEF OwnerSound, PendingIsNew, RevokedIsGone, GroundIsClean, DropIsTotal
    <3> QED BY <3>1, <3>3, <3>9, TheOwner DEF DataInItsRoot
  <2>16. CASE RetireCredential(p)
    <3>1. /\ UNCHANGED <<dirs, entry, gateway, home, leaseFile, job>> /\ pc[p] = "retiring" /\ pc'[p] = "retiringHome"
          /\ cred' = cred \/ cred' = CredWithout({job[p].ref})
      BY <2>16, BestEffortType DEF RetireCredential
    <3>2. \A q \in Product : entry[q] # NoRef => entry[q] # job[p].ref
      BY <3>1 DEF RetiredIsReplaced
    <3>3. \A q \in Product : Diagnose(q)' = Diagnose(q)
      BY <3>1, <3>2, DiagnoseKept DEF CredWithout
    <3>4. OwnerSound(p)'
      <4>1. DiagnosisStands(p)'
        BY <3>1, <3>3 DEF DiagnosisStands
      <4>2. RetiredIsReplaced(p)'
        BY <3>1, <3>3 DEF RetiredIsReplaced, Complete
      <4> QED BY <3>1, <4>1, <4>2 DEF OwnerSound, PendingIsNew, RevokedIsGone, GroundIsClean, DropIsTotal
    <3>5. DataInItsRoot'
      BY <3>1 DEF DataInItsRoot, CredWithout
    <3> QED BY <3>1, <3>4, <3>5, TheOwner DEF EntriesAreOwn
  <2>17. CASE RetireHome(p)
    <3>1. UNCHANGED <<dirs, entry, cred>> /\ pc'[p] = "done" /\ (home' = home \/ home' = HomeWithout({job[p].ref}))
      BY <2>17, BestEffortType DEF RetireHome
    <3>2. DataInItsRoot'
      BY <3>1 DEF DataInItsRoot, HomeWithout
    <3> QED BY <3>1, <3>2, OwnerEnds DEF EntriesAreOwn
  <2>18. CASE ProbeRevoke(p)
    <3>1. CASE pc' = [pc EXCEPT ![p] = "done"]
      BY <2>18, <3>1, OwnerEnds DEF ProbeRevoke, EntriesAreOwn, DataInItsRoot
    <3>2. CASE pc' = [pc EXCEPT ![p] = "purging"] /\ job' = [job EXCEPT ![p].diag = Diagnosis]
      <4>1. UNCHANGED files /\ pc'[p] = "purging" /\ job'[p].diag = Diagnosis /\ job'[p].product = job[p].product
        BY <2>18, <3>2 DEF ProbeRevoke, JobType
      <4>2. DiagnosisStands(p)'
        BY <4>1 DEF DiagnosisStands, Diagnosis, Diagnose
      <4>3. OwnerSound(p)'
        BY <4>1, <4>2 DEF OwnerSound, PendingIsNew, RetiredIsReplaced, RevokedIsGone, GroundIsClean, DropIsTotal
      <4> QED BY <4>1, <4>3, TheOwner DEF EntriesAreOwn, DataInItsRoot
    <3> QED BY <2>18, <3>1, <3>2 DEF ProbeRevoke
  <2>19. CASE PurgeQuarantine(p)
    <3>1. /\ UNCHANGED <<dirs, entry, gateway, leaseFile, pc, job>> /\ pc[p] \in {"purging", "purgingOwn"}
          /\ \E r \in Ref : \/ cred[r] = "quarantined" /\ cred' = CredWithout({r}) /\ UNCHANGED home
                            \/ home[r].at = "quarantined" /\ home' = HomeWithout({r}) /\ UNCHANGED cred
      <4>1. job[p].product \in Product
        BY <2>19 DEF PurgeQuarantine
      <4>2. Quarantined(job[p].product) \subseteq Ref
        BY <4>1 DEF Quarantined, Refs, Ref
      <4> QED BY <2>19, <4>2 DEF PurgeQuarantine
    <3>2. \A r \in Ref : /\ home'[r] = home[r] \/ (home[r].at # "live" /\ home'[r] = NoHome)
                         /\ cred'[r] = cred[r] \/ (cred[r] # "live" /\ cred'[r] = "absent")
      BY <3>1 DEF HomeWithout, CredWithout
    <3>3. \A q \in Product : Diagnose(q)' = Diagnose(q)
      <4>1. \A r \in Ref : /\ home'[r].at = "live" <=> home[r].at = "live"
                           /\ cred'[r] = "live" <=> cred[r] = "live"
        BY <3>2 DEF NoHome
      <4> QED BY <3>1, <4>1, DiagnoseKept
    <3>4. OwnerSound(p)'
      <4>1. DiagnosisStands(p)'
        BY <3>1, <3>3 DEF DiagnosisStands
      <4>2. RevokedIsGone(p)'
        <5>1. job[p].product \in Product
          BY <3>1
        <5>2. \A r \in Refs(job[p].product) : r \in Ref
          BY <5>1 DEF Refs, Ref
        <5> QED BY <3>1, <3>2, <5>2 DEF RevokedIsGone, NoHome
      <4> QED BY <3>1, <4>1, <4>2 DEF OwnerSound, PendingIsNew, RetiredIsReplaced, GroundIsClean, DropIsTotal
    <3>5. DataInItsRoot'
      BY <3>1, <3>2 DEF DataInItsRoot
    <3> QED BY <3>1, <3>4, <3>5, TheOwner DEF EntriesAreOwn
  <2>20. CASE PurgedPrevious(p)
    <3>1. UNCHANGED <<dirs, entry, gateway, home, cred, job>> /\ pc[p] = "purging" /\ pc'[p] = "moving"
      BY <2>20 DEF PurgedPrevious
    <3>2. DiagnosisStands(p)'
      BY <3>1 DEF DiagnosisStands, Diagnose
    <3>3. RevokedIsGone(p)'
      BY <3>1 DEF RevokedIsGone
    <3>4. OwnerSound(p)'
      BY <3>1, <3>2, <3>3 DEF OwnerSound, PendingIsNew, RetiredIsReplaced, GroundIsClean, DropIsTotal
    <3> QED BY <3>1, <3>4, TheOwner DEF EntriesAreOwn, DataInItsRoot
  <2>21. CASE MoveCredential(p)
    <3>1. /\ UNCHANGED <<dirs, entry, gateway, home, leaseFile, pc, job>> /\ pc[p] = "moving"
          /\ \E r \in Refs(job[p].product) : cred[r] = "live" /\ cred' = [cred EXCEPT ![r] = "quarantined"]
      BY <2>21 DEF MoveCredential, CredsToMove
    <3>2. \A q \in Product \ {job[p].product} : Diagnose(q)' = Diagnose(q)
      BY <3>1, DiagnoseKept DEF EntriesAreOwn, Refs
    <3>3. OwnerSound(p)'
      <4>1. DiagnosisStands(p)'
        BY <3>1, <3>2 DEF DiagnosisStands
      <4> QED BY <3>1, <4>1 DEF OwnerSound, PendingIsNew, RetiredIsReplaced, RevokedIsGone, GroundIsClean, DropIsTotal
    <3>4. DataInItsRoot'
      BY <3>1 DEF DataInItsRoot, NoHome, CredType
    <3> QED BY <3>1, <3>3, <3>4, TheOwner DEF EntriesAreOwn
  <2>22. CASE MoveHome(p)
    <3>1. /\ UNCHANGED <<dirs, entry, gateway, cred, leaseFile, pc, job>> /\ pc[p] = "moving"
          /\ \E r \in Refs(job[p].product) : home[r].at = "live" /\ home' = [home EXCEPT ![r].at = "quarantined"]
      BY <2>22 DEF MoveHome, HomesToMove
    <3>2. \A q \in Product \ {job[p].product} : Diagnose(q)' = Diagnose(q)
      BY <3>1, DiagnoseKept DEF EntriesAreOwn, Refs
    <3>3. OwnerSound(p)'
      <4>1. DiagnosisStands(p)'
        BY <3>1, <3>2 DEF DiagnosisStands
      <4> QED BY <3>1, <4>1 DEF OwnerSound, PendingIsNew, RetiredIsReplaced, RevokedIsGone, GroundIsClean, DropIsTotal
    <3>4. DataInItsRoot'
      BY <3>1 DEF DataInItsRoot, NoHome, HomeType
    <3> QED BY <3>1, <3>3, <3>4, TheOwner DEF EntriesAreOwn
  <2>23. CASE CommitRevoke(p)
    <3> DEFINE q == job[p].product
    <3>1. /\ UNCHANGED <<dirs, home, cred, leaseFile, job>> /\ pc[p] = "moving" /\ pc'[p] = "purgingOwn"
          /\ entry' = [entry EXCEPT ![q] = NoRef] /\ q \in Product
      BY <2>23 DEF CommitRevoke
    <3>2. \A r \in Refs(q) : home[r].at # "live" /\ cred[r] # "live"
      BY <2>23 DEF CommitRevoke, AllMoved, CredsToMove, HomesToMove
    <3>3. EntriesAreOwn'
      BY <3>1 DEF EntriesAreOwn
    <3>4. DiagnosisStands(p)'
      <4>1. \A o \in Product \ {q} : Diagnose(o)' = Diagnose(o)
        BY <3>1, DiagnoseKept
      <4> QED BY <3>1, <4>1 DEF DiagnosisStands
    <3>5. RevokedIsGone(p)'
      BY <3>1, <3>2 DEF RevokedIsGone
    <3>6. OwnerSound(p)'
      BY <3>1, <3>4, <3>5 DEF OwnerSound, PendingIsNew, RetiredIsReplaced, GroundIsClean, DropIsTotal
    <3> QED BY <3>1, <3>3, <3>6, TheOwner DEF DataInItsRoot
  <2>24. CASE PurgedOwn(p)
    <3>1. UNCHANGED <<dirs, entry, gateway, home, cred, job>> /\ pc[p] = "purgingOwn" /\ pc'[p] = "dropping"
      BY <2>24 DEF PurgedOwn
    <3>2. DiagnosisStands(p)'
      BY <3>1 DEF DiagnosisStands, Diagnose
    <3>3. RevokedIsGone(p)'
      BY <3>1 DEF RevokedIsGone
    <3>4. OwnerSound(p)'
      BY <3>1, <3>2, <3>3 DEF OwnerSound, PendingIsNew, RetiredIsReplaced, GroundIsClean, DropIsTotal
    <3> QED BY <3>1, <3>4, TheOwner DEF EntriesAreOwn, DataInItsRoot
  <2>25. CASE DropLeases(p)
    <3>1. UNCHANGED <<dirs, entry, gateway, home, cred, job>> /\ pc[p] = "dropping" /\ pc'[p] = "pruning"
      BY <2>25 DEF DropLeases
    <3>2. DiagnosisStands(p)'
      BY <3>1 DEF DiagnosisStands, Diagnose
    <3>3. RevokedIsGone(p)'
      BY <3>1 DEF RevokedIsGone
    <3>4. OwnerSound(p)'
      BY <3>1, <3>2, <3>3 DEF OwnerSound, PendingIsNew, RetiredIsReplaced, GroundIsClean, DropIsTotal
    <3> QED BY <3>1, <3>4, TheOwner DEF EntriesAreOwn, DataInItsRoot
  <2>26. CASE Prune(p)
    <3>1. UNCHANGED <<entry, home, cred>> /\ pc'[p] = "done" /\ (dirs' = dirs \/ dirs' = dirs \ EmptyDirs)
      BY <2>26, BestEffortType DEF Prune
    <3>2. DataInItsRoot'
      BY <3>1 DEF DataInItsRoot, EmptyDirs
    <3> QED BY <3>1, <3>2, OwnerEnds DEF EntriesAreOwn
  <2>27. CASE ProbeRevokeAll(p)
    <3>1. UNCHANGED files /\ UNCHANGED job /\ job[p].op = "revokeAll" /\ pc'[p] \in {"done", "dropConfig"}
      BY <2>27 DEF ProbeRevokeAll
    <3>2. OwnerSound(p)'
      BY <3>1 DEF OwnerSound, DiagnosisStands, PendingIsNew, RetiredIsReplaced, RevokedIsGone, GroundIsClean, DropIsTotal
    <3> QED BY <3>1, <3>2, TheOwner DEF EntriesAreOwn, DataInItsRoot
  <2>28. CASE DropConfigRoot(p)
    <3>1. /\ UNCHANGED job /\ pc[p] = "dropConfig" /\ pc'[p] \in {"dropData", "done"}
          /\ gateway' = gateway \/ gateway' = NoGateway
      BY <2>28 DEF DropConfigRoot, DropFails
    <3>2. OwnerSound(p)'
      BY <3>1 DEF OwnerSound, DiagnosisStands, PendingIsNew, RetiredIsReplaced, RevokedIsGone, GroundIsClean, DropIsTotal
    <3>3. EntriesAreOwn' /\ DataInItsRoot'
      BY <2>28 DEF DropConfigRoot, DropFails, EntriesAreOwn, DataInItsRoot, HomeWithout, CredWithout
    <3> QED BY <3>1, <3>2, <3>3, TheOwner
  <2>29. CASE DropDataRoot(p)
    <3>1. /\ UNCHANGED job /\ pc[p] = "dropData" /\ pc'[p] \in {"dropState", "done"}
          /\ gateway' = gateway \/ gateway' = NoGateway
      BY <2>29 DEF DropDataRoot, DropFails
    <3>2. OwnerSound(p)'
      BY <3>1 DEF OwnerSound, DiagnosisStands, PendingIsNew, RetiredIsReplaced, RevokedIsGone, GroundIsClean, DropIsTotal
    <3>3. EntriesAreOwn' /\ DataInItsRoot'
      BY <2>29 DEF DropDataRoot, DropFails, EntriesAreOwn, DataInItsRoot, HomeWithout, CredWithout
    <3> QED BY <3>1, <3>2, <3>3, TheOwner
  <2>30. CASE DropStateRoot(p)
    <3>1. /\ UNCHANGED job /\ pc[p] = "dropState" /\ pc'[p] \in {"done", "done"}
          /\ gateway' = gateway \/ gateway' = NoGateway
      BY <2>30 DEF DropStateRoot, DropFails
    <3>2. OwnerSound(p)'
      BY <3>1 DEF OwnerSound, DiagnosisStands, PendingIsNew, RetiredIsReplaced, RevokedIsGone, GroundIsClean, DropIsTotal
    <3>3. EntriesAreOwn' /\ DataInItsRoot'
      BY <2>30 DEF DropStateRoot, DropFails, EntriesAreOwn, DataInItsRoot, HomeWithout, CredWithout
    <3> QED BY <3>1, <3>2, <3>3, TheOwner
  <2>31. CASE RefuseLaunch(p)
    BY <2>31, Quiet DEF RefuseLaunch
  <2>32. CASE TakeLease(p)
    <3>1. UNCHANGED <<entry, home, cred>> /\ pc'[p] = "validating" /\ dirs \subseteq dirs'
      BY <2>32 DEF TakeLease
    <3> QED BY <3>1, OwnerEnds DEF EntriesAreOwn, DataInItsRoot
  <2>33. CASE Launch(p)
    BY <2>33, Quiet DEF Launch
  <2>34. CASE FailLaunch(p)
    BY <2>34, Quiet DEF FailLaunch
  <2>35. CASE Release(p)
    BY <2>35, Quiet DEF Release
  <2>36. CASE FailEarly(p)
    BY <2>36, Quiet DEF FailEarly
  <2>37. CASE FailSetup(p)
    <3>1. /\ UNCHANGED <<dirs, entry, gateway, job>> /\ job[p].op = "setup"
          /\ pc'[p] = "done" \/ (pc'[p] = "dropConfig" /\ gateway = NoGateway)
          /\ home' = home \/ home' = HomeWithout({job[p].ref})
          /\ cred' = cred \/ cred' = CredWithout({job[p].ref})
      BY <2>37, BestEffortType DEF FailSetup, FirstSetup, PendingDropped
    <3>2. DataInItsRoot'
      BY <3>1 DEF DataInItsRoot, HomeWithout, CredWithout
    <3>3. OwnerSound(p)'
      BY <3>1 DEF OwnerSound, DiagnosisStands, PendingIsNew, RetiredIsReplaced, RevokedIsGone, GroundIsClean, DropIsTotal
    <3> QED BY <3>1, <3>2, <3>3, TheOwner DEF EntriesAreOwn
  <2>38. CASE FailRevoke(p)
    <3>1. /\ UNCHANGED <<dirs, entry>> /\ pc'[p] = "done"
          /\ home' = home \/ home' = HomeRolledBack(job[p].product)
          /\ cred' = cred \/ cred' = CredRolledBack(job[p].product)
      BY <2>38 DEF FailRevoke
    <3>2. DataInItsRoot'
      BY <3>1 DEF DataInItsRoot, HomeRolledBack, CredRolledBack, NoHome
    <3> QED BY <3>1, <3>2, OwnerEnds DEF EntriesAreOwn
  <2> QED BY <1>step, <2>1, <2>2, <2>3, <2>4, <2>5, <2>6, <2>7, <2>8, <2>9, <2>10, <2>11, <2>12, <2>13, <2>14, <2>15, <2>16, <2>17, <2>18, <2>19, <2>20, <2>21, <2>22, <2>23, <2>24, <2>25, <2>26, <2>27, <2>28, <2>29, <2>30, <2>31, <2>32, <2>33, <2>34, <2>35, <2>36, <2>37, <2>38
       DEF Outer, Begin, OwnerStep, SetupStep, RevokeStep, RevokeAllStep, LaunchStep, Fail
<1> QED BY <1>stutter, <1>step DEF Next

\* Initially nothing is committed and nothing is on disk.
LEMMA CommitInit == Init => CommitInvariant
BY DEF Init, CommitInvariant, EntriesAreOwn, DataInItsRoot, OwnerSound, DiagnosisStands, PendingIsNew,
   RetiredIsReplaced, RevokedIsGone, GroundIsClean, DropIsTotal, Acting, Undoable, Committed, Dropping, Building

\* The inductive invariant of the reports, in every behaviour.
LEMMA CommitInvariance == Spec => [](Invariant /\ CommitInvariant)
<1>1. Init => CommitInvariant
    BY CommitInit
<1>2. Invariant /\ CommitInvariant /\ [Next]_vars => CommitInvariant'
    BY CommitStep
<1> QED BY Invariance, <1>1, <1>2, PTL DEF Spec

\* What the invariant says of a transaction that has committed.
LEMMA CommitsReport == ASSUME Invariant, CommitInvariant PROVE CommitsAreTrue
<1> USE DEF Invariant, LeaseInvariant, TypeInv, StepsOK, JobOK, Agrees, CommitInvariant, OwnerSound,
        Committed, SetupSteps, RevokeSteps
<1>1. ReceiptIsTrue
  <2> SUFFICES ASSUME NEW p \in Process, pc[p] \in Committed PROVE Receipt(p) = Diagnosis
      BY DEF ReceiptIsTrue
  <2> DEFINE q == job[p].product
             result == IF job[p].op = "setup" THEN "ready" ELSE "unconfigured"
  <2>1. job[p].diag \in [Product -> State] /\ q \in Product
      BY DEF JobType
  <2>2. \A o \in Product \ {q} : Diagnose(o) = job[p].diag[o]
      BY DEF DiagnosisStands
  <2>3. Diagnose(q) = result
      BY DEF RetiredIsReplaced, RevokedIsGone, Complete, Diagnose
  <2>4. Receipt(p) = [o \in Product |-> IF o = q THEN result ELSE job[p].diag[o]]
      BY <2>1 DEF Receipt
  <2> QED BY <2>2, <2>3, <2>4 DEF Diagnosis
<1>2. RevokedProductIsGone
  BY DEF RevokedProductIsGone, RevokedIsGone, RemovableUnleased
<1> QED BY <1>1, <1>2 DEF CommitsAreTrue

\* What a setup or a revoke reports is so from its commit to the release of
\* the lock, and a revoke leaves nothing of the product to use (CommitsAreTrue),
\* although the report was put together before the transaction did anything
\* and removals of it may have failed.
THEOREM ReportsAreTrue == Spec => []CommitsAreTrue
<1>1. Invariant /\ CommitInvariant => CommitsAreTrue
    BY CommitsReport
<1> QED BY CommitInvariance, <1>1, PTL
(***************************************************************************)
(* What takes a product away.                                              *)
(***************************************************************************)
\* What a process of no transaction does.
Apart(p) == \/ \E q \in Product, g \in Gateway : Precheck(p, q, g)
            \/ \E q \in Product : BeginRevoke(p, q) \/ BeginLaunch(p, q)
            \/ BeginRevokeAll(p) \/ InspectRoots(p) \/ FetchFails(p) \/ Acquire(p) \/ Exit(p) \/ Crash(p)
\* What the owner of the lock does to no entry, no home and no credential.
Looks(p) == \/ CheckSetup(p) \/ RefuseSetup(p) \/ ProbeRevoke(p) \/ PurgedPrevious(p) \/ PurgedOwn(p)
            \/ DropLeases(p) \/ Prune(p) \/ ProbeRevokeAll(p) \/ DropStateRoot(p) \/ RefuseLaunch(p)
            \/ TakeLease(p) \/ Launch(p) \/ FailLaunch(p) \/ Release(p) \/ FailEarly(p)

\* Neither touches an entry, a home or a credential.
LEMMA HandsOff == ASSUME NEW p \in Process, Apart(p) \/ Looks(p) PROVE UNCHANGED <<entry, gateway, home, cred>>
<1>1. CASE Apart(p)
    BY <1>1 DEF Apart, Precheck, BeginRevoke, BeginLaunch, BeginRevokeAll, InspectRoots, FetchFails, Acquire, Exit, Crash, files
<1>2. CASE CheckSetup(p) \/ RefuseSetup(p) \/ ProbeRevoke(p) \/ PurgedPrevious(p) \/ PurgedOwn(p)
    BY <1>2 DEF CheckSetup, RefuseSetup, ProbeRevoke, PurgedPrevious, PurgedOwn, files
<1>3. CASE DropLeases(p) \/ Prune(p) \/ ProbeRevokeAll(p) \/ DropStateRoot(p) \/ RefuseLaunch(p)
    BY <1>3 DEF DropLeases, Prune, ProbeRevokeAll, DropStateRoot, DropFails, RefuseLaunch, files
<1>4. CASE TakeLease(p) \/ Launch(p) \/ FailLaunch(p) \/ Release(p) \/ FailEarly(p)
    BY <1>4 DEF TakeLease, Launch, FailLaunch, Release, FailEarly, files
<1> QED BY <1>1, <1>2, <1>3, <1>4 DEF Looks

\* A complete product needs its entry, its home and its credential, and with
\* the three it stays complete.
LEMMA CompleteStays ==
    ASSUME NEW q \in Product, Complete(q), entry'[q] = entry[q],
           home'[entry[q]].at = "live", cred'[entry[q]] = "live"
    PROVE  Complete(q)'
BY DEF Complete, Diagnose

\* A step that loses a complete product is one of a revoke that includes it.
LEMMA BreakStep == Invariant /\ CommitInvariant /\ Next => BreaksByRevoke
<1> SUFFICES ASSUME Invariant, CommitInvariant, Next, NEW q \in Product, Complete(q), ~Complete(q)'
             PROVE  \E p \in Process : /\ lock = p
                                       /\ \/ job[p].op = "revoke" /\ job[p].product = q
                                          \/ job[p].op = "revokeAll"
    BY DEF BreaksByRevoke
<1> USE NullAssumption DEF Invariant, GatewayInvariant, LeaseInvariant, OwnerOK,
        TypeInv, FilesOK, StepsOK, JobOK, files, Goto, CommitInvariant, OwnerSound,
        Agrees, SetupSteps, RevokeSteps, HoldsNoRef, Building,
        Inside, Outside, Undoable, Committed, Dropping, Acting
<1> DEFINE r == entry[q]
<1>0. r \in Ref /\ r \in Refs(q) /\ home[r].at = "live" /\ cred[r] = "live"
    BY DEF Complete, Diagnose, EntriesAreOwn
<1>lost. entry'[q] = r /\ home'[r].at = "live" /\ cred'[r] = "live" => FALSE
    BY CompleteStays
<1> HIDE DEF r
<1>step. PICK p \in Process : Outer(p) \/ OwnerStep(p) \/ Fail(p)
    BY DEF Next
<1>1. CASE Apart(p) \/ Looks(p)
    BY <1>0, <1>lost, <1>1, HandsOff DEF r
<1>12. CASE \E s \in Ref : Stage(p, s)
    <2>0. PICK s \in Ref : Stage(p, s)
        BY <1>12
    <2>1. s # r
        BY <2>0 DEF Stage, Unused, r
    <2> QED BY <1>0, <1>lost, <2>0, <2>1 DEF Stage, r
<1>13. CASE Promote(p)
    BY <1>0, <1>lost, <1>13 DEF Promote, HomeType, r
<1>14. CASE SaveCredential(p)
    BY <1>0, <1>lost, <1>14 DEF SaveCredential, CredType, r
<1>15. CASE CommitSetup(p)
    <2>1. CASE job[p].product = q
        <3>1. CommitInvariant'
            BY CommitStep
        <3>2. pc'[p] = "retiring" /\ job'[p].product = q
            BY <1>15, <2>1 DEF CommitSetup, JobType
        <3> QED BY <3>1, <3>2 DEF RetiredIsReplaced
    <2>2. CASE job[p].product # q
        BY <1>0, <1>lost, <1>15, <2>2 DEF CommitSetup, r
    <2> QED BY <2>1, <2>2
<1>16. CASE RetireCredential(p)
    <2>1. r # job[p].ref
        BY <1>0, <1>16 DEF RetireCredential, RetiredIsReplaced, r, Ref
    <2>2. cred' = cred \/ cred' = CredWithout({job[p].ref})
        BY <1>16, BestEffortType DEF RetireCredential
    <2>3. cred'[r] = cred[r]
        BY <1>0, <2>1, <2>2 DEF CredWithout
    <2> QED BY <1>0, <1>lost, <1>16, <2>3 DEF RetireCredential, r
<1>17. CASE RetireHome(p)
    <2>1. r # job[p].ref
        BY <1>0, <1>17 DEF RetireHome, RetiredIsReplaced, r, Ref
    <2>2. home' = home \/ home' = HomeWithout({job[p].ref})
        BY <1>17, BestEffortType DEF RetireHome
    <2>3. home'[r] = home[r]
        BY <1>0, <2>1, <2>2 DEF HomeWithout
    <2> QED BY <1>0, <1>lost, <1>17, <2>3 DEF RetireHome, r
<1>19. CASE PurgeQuarantine(p)
    <2>1. PICK s : \/ cred[s] = "quarantined" /\ cred' = CredWithout({s}) /\ UNCHANGED home
                   \/ home[s].at = "quarantined" /\ home' = HomeWithout({s}) /\ UNCHANGED cred
        BY <1>19 DEF PurgeQuarantine
    <2>2. home'[r] = home[r] /\ cred'[r] = cred[r]
        BY <1>0, <2>1 DEF HomeWithout, CredWithout
    <2> QED BY <1>0, <1>lost, <1>19, <2>2 DEF PurgeQuarantine, r
<1>21. CASE MoveCredential(p) \/ MoveHome(p) \/ CommitRevoke(p)
    <2>1. pc[p] = "moving" /\ lock = p /\ job[p].op = "revoke"
        BY <1>21 DEF MoveCredential, MoveHome, CommitRevoke
    <2>2. CASE job[p].product = q
        BY <2>1, <2>2
    <2>3. CASE job[p].product # q
        <3>1. r \notin Refs(job[p].product)
            BY <1>0, <2>3 DEF Refs
        <3>2. CASE MoveCredential(p)
            BY <1>0, <1>lost, <3>1, <3>2 DEF MoveCredential, CredsToMove, r
        <3>3. CASE MoveHome(p)
            BY <1>0, <1>lost, <3>1, <3>3 DEF MoveHome, HomesToMove, r
        <3>4. CASE CommitRevoke(p)
            BY <1>0, <1>lost, <2>3, <3>4 DEF CommitRevoke, r
        <3> QED BY <1>21, <3>2, <3>3, <3>4
    <2> QED BY <2>2, <2>3
<1>28. CASE DropConfigRoot(p) \/ DropDataRoot(p)
    <2>1. lock = p /\ (job[p].op = "revokeAll" \/ gateway = NoGateway)
        BY <1>28 DEF DropConfigRoot, DropDataRoot, DropIsTotal
    <2>2. gateway # NoGateway
        BY <1>0 DEF ConfigOK, r, Ref
    <2> QED BY <2>1, <2>2
<1>37. CASE FailSetup(p)
    <2>1. pc[p] \in Building \cup {"checked"}
        BY <1>37 DEF FailSetup
    <2>2. job[p].ref # r
        BY <1>0, <2>1 DEF PendingIsNew, r, Ref
    <2> QED BY <1>0, <1>lost, <1>37, <2>2, BestEffortType DEF FailSetup, PendingDropped, HomeWithout, CredWithout, r
<1>38. CASE FailRevoke(p)
    BY <1>0, <1>lost, <1>38 DEF FailRevoke, HomeRolledBack, CredRolledBack, r
<1> QED BY <1>step, <1>1, <1>12, <1>13, <1>14, <1>15, <1>16, <1>17, <1>19, <1>21, <1>28, <1>37, <1>38
        DEF Outer, Begin, OwnerStep, SetupStep, RevokeStep, RevokeAllStep, LaunchStep, Fail, Apart, Looks

\* Only the commit of a setup gives the installation a gateway.
LEMMA GatewayStarts ==
    ASSUME NEW p \in Process, Outer(p) \/ OwnerStep(p) \/ Fail(p), gateway = NoGateway, gateway' # NoGateway
    PROVE  CommitSetup(p)
<1>1. CASE Apart(p) \/ Looks(p)
    BY <1>1, HandsOff
<1>2. CASE (\E r \in Ref : Stage(p, r)) \/ Promote(p) \/ SaveCredential(p) \/ RetireCredential(p) \/ RetireHome(p)
    BY <1>2 DEF Stage, Promote, SaveCredential, RetireCredential, RetireHome
<1>3. CASE PurgeQuarantine(p) \/ MoveCredential(p) \/ MoveHome(p) \/ CommitRevoke(p)
    BY <1>3 DEF PurgeQuarantine, MoveCredential, MoveHome, CommitRevoke
<1>4. CASE DropConfigRoot(p) \/ DropDataRoot(p) \/ FailSetup(p) \/ FailRevoke(p)
    BY <1>4 DEF DropConfigRoot, DropDataRoot, DropFails, FailSetup, FailRevoke, files
<1> QED BY <1>1, <1>2, <1>3, <1>4
        DEF Outer, Begin, OwnerStep, SetupStep, RevokeStep, RevokeAllStep, LaunchStep, Fail, Apart, Looks

\* A first setup commits on the ground it found clean.
LEMMA FirstStep == Invariant /\ CommitInvariant /\ Next => FirstFindsCleanGround
<1> SUFFICES ASSUME Invariant, CommitInvariant, Next, gateway = NoGateway, gateway' # NoGateway
             PROVE  \E q \in Product : \A r \in Ref \ {entry'[q]} : /\ home'[r] = NoHome
                                                                   /\ cred'[r] = "absent"
                                                                   /\ r \notin leaseFile'
    BY DEF FirstFindsCleanGround
<1>1. PICK p \in Process : CommitSetup(p)
    BY GatewayStarts DEF Next
<1>2. job[p].product \in Product /\ entry'[job[p].product] = job[p].ref
    BY <1>1 DEF CommitSetup, Invariant, TypeInv, FilesOK, StepsOK, JobOK, Agrees, SetupSteps
<1>3. leaseFile = {} /\ \A r \in Ref \ {job[p].ref} : home[r] = NoHome /\ cred[r] = "absent"
    BY <1>1 DEF CommitSetup, CommitInvariant, OwnerSound, GroundIsClean, Building
<1>4. UNCHANGED <<home, cred, leaseFile>>
    BY <1>1 DEF CommitSetup
<1> QED BY <1>2, <1>3, <1>4

\* A committed product stops being complete only by a revoke of it or of
\* everything, and a first setup commits on clean ground (OnlyARevokeTakesAway),
\* whatever other processes do, fail at or leave behind.
THEOREM ProductsStay == Spec => OnlyARevokeTakesAway
<1>1. Invariant /\ CommitInvariant /\ [Next]_vars => [BreaksByRevoke /\ FirstFindsCleanGround]_vars
    BY BreakStep, FirstStep
<1> QED BY CommitInvariance, <1>1, PTL DEF Spec, OnlyARevokeTakesAway
(***************************************************************************)
(* What transactions leave behind.                                         *)
(***************************************************************************)
\* A configured product has its home and its credential.
HasItsParts(q) == entry[q] # NoRef => home[entry[q]].at = "live" /\ cred[entry[q]] = "live"

\* A credential is the committed one.
CredIsUsed(q, r) == cred[r] # "absent" => entry[q] = r
\* A home that was replaced waits, under its lease file, for the next revoke.
HomeIsKept(q, r) == home[r] # NoHome /\ entry[q] # r => entry[q] # NoRef /\ r \in leaseFile
Tidy(q, r) == CredIsUsed(q, r) /\ HomeIsKept(q, r) /\ home[r].at # "staged"

\* All but the product q, or all but the generations S of them, is as it should be.
Whole(q) == /\ HasItsParts(q)
            /\ \A r \in Refs(q) : Tidy(q, r) /\ home[r].at # "quarantined" /\ (r \in leaseFile => entry[q] # NoRef)
WholeBut(q, s) == /\ HasItsParts(q)
                  /\ \A r \in Refs(q) : /\ r # s => Tidy(q, r)
                                        /\ home[r].at # "quarantined" /\ (r \in leaseFile => entry[q] # NoRef)
RootsAreGone == gateway = NoGateway => dirs \subseteq {"state"}
AtRest == RootsAreGone /\ \A q \in Product : Whole(q)

\* What a setup builds, and what it replaces, belongs to nobody until it is
\* committed or gone.
Pending(p) ==
    /\ pc[p] \in Building \cup {"retiring", "retiringHome"} => \A q \in Product : WholeBut(q, job[p].ref)
    /\ pc[p] \in Building => job[p].ref \notin leaseFile
    /\ pc[p] \in {"retiring", "retiringHome"} =>
          /\ gateway # NoGateway /\ job[p].ref \in Refs(job[p].product) \cup {NoRef}
          /\ job[p].ref # NoRef => home[job[p].ref].at # "staged"
    /\ pc[p] = "retiringHome" /\ job[p].ref # NoRef => cred[job[p].ref] = "absent"

\* A revoke has moved some of what the product had, and will put all of it back or
\* remove it.
Moved(q) == /\ entry[q] # NoRef => /\ home[entry[q]].at \in {"live", "quarantined"}
                                   /\ cred[entry[q]] \in {"live", "quarantined"}
            /\ \A r \in Refs(q) : Tidy(q, r) /\ (r \in leaseFile => entry[q] # NoRef)
Emptied(q) == \A r \in Refs(q) : home[r] = NoHome /\ cred[r] = "absent"
Revoking(p) ==
    LET q == job[p].product IN
    /\ pc[p] \in RevokeSteps =>
          /\ \A o \in Product \ {q} : Whole(o)
          /\ pc[p] # "pruning" => leaseFile \cap Refs(q) = excl
    /\ pc[p] = "moving" => Moved(q) /\ RootsAreGone
    /\ pc[p] = "purgingOwn" => \A r \in Refs(q) : home[r].at # "staged"
    /\ pc[p] \in {"dropping", "pruning"} => Emptied(q)
    /\ pc[p] = "pruning" => leaseFile \cap Refs(q) = {}

\* The roots go one after the other.
Removed(p) ==
    /\ pc[p] \in {"dropData", "dropState"} =>
          gateway = NoGateway /\ (\A q \in Product : entry[q] = NoRef) /\ "config" \notin dirs
    /\ pc[p] = "dropState" => "data" \notin dirs /\ \A q \in Product : Emptied(q)

OwnerTidies(p) == /\ pc[p] \in {"locked", "validating", "checked", "purging", "done"} => AtRest
                  /\ Pending(p) /\ Revoking(p) /\ Removed(p)
Clean == (lock = Nobody => AtRest) /\ \A p \in Process : OwnerTidies(p)
HomesAre == \A r \in Ref : home[r].at = "absent" => home[r] = NoHome

\* While nobody has died and nothing failed to be removed: what is on disk between
\* transactions is what config.json and the lease files account for.
AtomicInvariant == HomesAre /\ (~crashed /\ ~RemovalMayFail => Clean)

(***************************************************************************)
(* Between transactions.                                                   *)
(***************************************************************************)
\* A generation is one product's.
LEMMA OneProduct ==
    /\ \A q \in Product : Refs(q) \subseteq Ref
    /\ \A r \in Ref : \E q \in Product : r \in Refs(q)
    /\ \A q, o \in Product : \A r \in Refs(q) : r \in Refs(o) => q = o
BY DEF Refs, Ref

\* What is on disk stays accounted for while none of it changes.
LEMMA RestStays ==
    ASSUME AtRest, UNCHANGED <<entry, gateway, home, cred, leaseFile>>, RootsAreGone'
    PROVE  AtRest'
BY DEF AtRest, Whole, HasItsParts, Tidy, CredIsUsed, HomeIsKept

\* Nothing but the directories changed, and of those none was made.
LEMMA RestsOn == ASSUME AtRest, UNCHANGED <<entry, gateway, home, cred, leaseFile>>, dirs' \subseteq dirs \cup {"state"} PROVE AtRest'
BY RestStays DEF AtRest, RootsAreGone

\* A free lock: everybody is outside.
LEMMA FreeLock == ASSUME OwnerOK', lock' = Nobody, AtRest' PROVE Clean'
<1>1. \A o \in Process : pc'[o] \notin Inside
    BY NullAssumption DEF OwnerOK
<1>2. \A o \in Process : OwnerTidies(o)'
    BY <1>1 DEF OwnerTidies, Pending, Revoking, Removed, Inside, Building, RevokeSteps, Undoable, Committed, Dropping
<1> QED BY <1>2 DEF Clean

\* A taken lock: only its owner has something to account for.
LEMMA TakenLock == ASSUME OwnerOK', NEW p \in Process, pc'[p] \in Inside, OwnerTidies(p)' PROVE Clean'
<1>1. lock' = p /\ \A o \in Process \ {p} : pc'[o] \notin Inside
    BY DEF OwnerOK
<1>2. \A o \in Process \ {p} : OwnerTidies(o)'
    BY <1>1 DEF OwnerTidies, Pending, Revoking, Removed, Inside, Building, RevokeSteps, Undoable, Committed, Dropping
<1> QED BY <1>1, <1>2, NullAssumption DEF Clean

\* A transaction that has not touched anything yet, or nothing any more.
LEMMA OwnerRests ==
    ASSUME OwnerOK', NEW p \in Process, pc'[p] \in {"locked", "validating", "checked", "done"}, AtRest'
    PROVE  Clean'
<1>1. OwnerTidies(p)'
    BY DEF OwnerTidies, Pending, Revoking, Removed, Building, RevokeSteps
<1> QED BY <1>1, TakenLock DEF Inside, Undoable, Committed, Dropping

\* Nobody in a transaction does anything.
LEMMA OutsideOnly ==
    ASSUME Clean, UNCHANGED <<files, excl, lock>>,
           \A o \in Process : (pc'[o] = pc[o] /\ job'[o] = job[o]) \/ pc'[o] \notin Inside
    PROVE  Clean'
<1> USE DEF files
<1>1. AtRest => AtRest'
    BY DEF AtRest, Whole, HasItsParts, Tidy, CredIsUsed, HomeIsKept, RootsAreGone
<1>2. ASSUME NEW o \in Process, pc'[o] = pc[o] /\ job'[o] = job[o] PROVE OwnerTidies(o)'
  <2>0. OwnerTidies(o)
    BY DEF Clean
  <2>1. Pending(o)'
    BY <1>2, <2>0 DEF OwnerTidies, Pending, WholeBut, HasItsParts, Tidy, CredIsUsed, HomeIsKept
  <2>2. Revoking(o)'
    BY <1>2, <2>0 DEF OwnerTidies, Revoking, Whole, HasItsParts, Tidy, CredIsUsed, HomeIsKept, Moved, Emptied, RootsAreGone
  <2>3. Removed(o)'
    BY <1>2, <2>0 DEF OwnerTidies, Removed, Emptied
  <2> QED BY <1>1, <1>2, <2>0, <2>1, <2>2, <2>3 DEF OwnerTidies
<1>3. ASSUME NEW o \in Process, pc'[o] \notin Inside PROVE OwnerTidies(o)'
    BY <1>3 DEF OwnerTidies, Pending, Revoking, Removed, Inside, Building, RevokeSteps, Undoable, Committed, Dropping
<1> QED BY <1>1, <1>2, <1>3 DEF Clean

\* A removal that cannot fail happens.
LEMMA RemovalHappens == ASSUME ~RemovalMayFail, NEW old, NEW new PROVE BestEffort(old, new) = {new}
BY DEF BestEffort

\* A home that is absent is none.
LEMMA HomesStep == TypeInv /\ HomesAre /\ [Next]_vars => HomesAre'
<1> SUFFICES ASSUME TypeInv, HomesAre, [Next]_vars PROVE HomesAre'
    OBVIOUS
<1> USE DEF TypeInv, FilesOK, HomesAre, HomeType
<1>0. ASSUME UNCHANGED home PROVE HomesAre'
    BY <1>0
<1>1. ASSUME NEW S, home' = HomeWithout(S) PROVE HomesAre'
    BY <1>1 DEF HomeWithout
<1>2. ASSUME NEW r, NEW x \in {"live", "quarantined"}, home' = [home EXCEPT ![r].at = x] PROVE HomesAre'
    BY <1>2
<1>step. ASSUME NEW p \in Process, Outer(p) \/ OwnerStep(p) \/ Fail(p) PROVE HomesAre'
  <2>1. CASE Apart(p) \/ Looks(p)
    BY <1>0, <2>1, HandsOff
  <2>2. CASE \E r \in Ref : Stage(p, r)
    BY <2>2 DEF Stage
  <2>3. CASE Promote(p)
    BY <1>2, <2>3 DEF Promote
  <2>4. CASE SaveCredential(p) \/ CommitSetup(p) \/ RetireCredential(p) \/ MoveCredential(p) \/ CommitRevoke(p) \/ DropConfigRoot(p)
    BY <1>0, <2>4 DEF SaveCredential, CommitSetup, RetireCredential, MoveCredential, CommitRevoke, DropConfigRoot, DropFails, files
  <2>5. CASE RetireHome(p)
    BY <1>0, <1>1, <2>5, BestEffortType DEF RetireHome
  <2>6. CASE PurgeQuarantine(p)
    BY <1>0, <1>1, <2>6 DEF PurgeQuarantine
  <2>7. CASE MoveHome(p)
    BY <1>2, <2>7 DEF MoveHome
  <2>8. CASE DropDataRoot(p)
    BY <1>0, <1>1, <2>8 DEF DropDataRoot, DropFails, files
  <2>9. CASE FailSetup(p)
    BY <1>0, <1>1, <2>9, BestEffortType DEF FailSetup, PendingDropped
  <2>10. CASE FailRevoke(p)
    BY <1>0, <2>10 DEF FailRevoke, HomeRolledBack
  <2> QED BY <1>step, <2>1, <2>2, <2>3, <2>4, <2>5, <2>6, <2>7, <2>8, <2>9, <2>10
       DEF Outer, Begin, OwnerStep, SetupStep, RevokeStep, RevokeAllStep, LaunchStep, Fail, Apart, Looks
<1> QED BY <1>0, <1>step DEF Next, vars

\* While nobody dies and removals succeed, every step of a transaction accounts
\* for what it leaves on disk.
LEMMA CleanStep ==
    ASSUME Invariant, CommitInvariant, HomesAre, Clean, ~RemovalMayFail, OwnerOK', HomesAre',
           NEW p \in Process, Outer(p) \/ OwnerStep(p) \/ Fail(p),
           Crash(p) => pc[p] \in {"done", "running", "fetching"}
    PROVE  Clean'
<1> USE NullAssumption DEF Invariant, GatewayInvariant, LeaseInvariant, OwnerOK,
        TypeInv, FilesOK, StepsOK, JobOK, files, Goto, CommitInvariant, OwnerSound,
        Agrees, SetupSteps, RevokeSteps, HoldsNoRef, Building,
        Inside, Outside, Undoable, Committed, Dropping
<1> USE OneProduct
<1>rest. pc[p] \in {"locked", "validating", "checked", "purging", "done"} => AtRest
    BY DEF Clean, OwnerTidies
<1>owner. Pending(p) /\ Revoking(p) /\ Removed(p)
    BY DEF Clean, OwnerTidies
<1>1. CASE \E q \in Product, g \in Gateway : Precheck(p, q, g)
    BY <1>1, OutsideOnly DEF Precheck
<1>2. CASE InspectRoots(p) \/ FetchFails(p) \/ BeginRevokeAll(p)
    BY <1>2, OutsideOnly DEF InspectRoots, FetchFails, BeginRevokeAll
<1>3. CASE \E q \in Product : BeginRevoke(p, q) \/ BeginLaunch(p, q)
    BY <1>3, OutsideOnly DEF BeginRevoke, BeginLaunch
<1>7. CASE Acquire(p)
    <2>1. AtRest'
      BY <1>7, RestsOn DEF Acquire, Clean
    <2> QED BY <1>7, <2>1, OwnerRests DEF Acquire
<1>8. CASE Exit(p)
    BY <1>8, OutsideOnly DEF Exit
<1>9. CASE Crash(p)
    <2>1. CASE lock = p
      <3>1. pc[p] = "done" /\ AtRest
        BY <1>9, <1>rest, <2>1
      <3>2. AtRest'
        BY <1>9, <3>1, RestsOn DEF Crash
      <3> QED BY <1>9, <2>1, <3>2, FreeLock DEF Crash
    <2>2. CASE lock # p
      BY <1>9, <2>2, OutsideOnly DEF Crash
    <2> QED BY <2>1, <2>2
<1>10. CASE CheckSetup(p) \/ RefuseSetup(p) \/ RefuseLaunch(p) \/ FailLaunch(p) \/ FailEarly(p)
    <2>1. AtRest'
      BY <1>10, <1>rest, RestsOn, RemovalHappens
         DEF CheckSetup, RefuseSetup, RefuseLaunch, FailLaunch, FailEarly
    <2> QED BY <1>10, <2>1, OwnerRests DEF CheckSetup, RefuseSetup, RefuseLaunch, FailLaunch, FailEarly
<1>12. CASE \E r \in Ref : Stage(p, r)
    <2>0. PICK r \in Ref : Stage(p, r)
      BY <1>12
    <2>1. /\ UNCHANGED <<entry, gateway, cred, leaseFile>> /\ pc'[p] = "staged" /\ AtRest
          /\ \A s \in Ref \ {r} : home'[s] = home[s]
          /\ home'[r].at = "staged" /\ job'[p].ref = r
      BY <2>0, <1>rest DEF Stage, JobType, HomeType
    <2>2. r \notin leaseFile /\ cred[r] = "absent" /\ \A q \in Product : entry[q] # r
      BY <2>0 DEF Stage, Unused
    <2>3. \A q \in Product : WholeBut(q, r)'
      BY <2>1, <2>2 DEF AtRest, Whole, WholeBut, HasItsParts, Tidy, CredIsUsed, HomeIsKept
    <2>4. OwnerTidies(p)'
      BY <2>1, <2>2, <2>3 DEF OwnerTidies, Pending, Revoking, Removed
    <2> QED BY <2>1, <2>4, TakenLock
<1>13. CASE Promote(p)
    <2>0. PICK r : r = job[p].ref
      OBVIOUS
    <2>1. /\ UNCHANGED <<entry, gateway, cred, leaseFile, job>> /\ pc[p] = "staged" /\ pc'[p] = "promoted"
          /\ r \in Ref /\ \A s \in Ref \ {r} : home'[s] = home[s]
          /\ home'[r].at = "live"
      BY <2>0, <1>13 DEF Promote, HomeType
    <2>2. \A q \in Product : WholeBut(q, r) /\ entry[q] # r
      BY <2>0, <2>1, <1>owner DEF Pending, PendingIsNew
    <2>3. \A q \in Product : WholeBut(q, r)'
      BY <2>1, <2>2 DEF WholeBut, HasItsParts, Tidy, CredIsUsed, HomeIsKept
    <2>4. OwnerTidies(p)'
      BY <2>0, <2>1, <2>3, <1>owner DEF OwnerTidies, Pending, Revoking, Removed
    <2> QED BY <2>1, <2>4, TakenLock
<1>14. CASE SaveCredential(p)
    <2>0. PICK r : r = job[p].ref
      OBVIOUS
    <2>1. /\ UNCHANGED <<entry, gateway, home, leaseFile, job>> /\ pc[p] = "promoted" /\ pc'[p] = "saved"
          /\ r \in Ref /\ \A s \in Ref \ {r} : cred'[s] = cred[s]
      BY <2>0, <1>14 DEF SaveCredential, CredType
    <2>2. \A q \in Product : WholeBut(q, r) /\ entry[q] # r
      BY <2>0, <2>1, <1>owner DEF Pending, PendingIsNew
    <2>3. \A q \in Product : WholeBut(q, r)'
      BY <2>1, <2>2 DEF WholeBut, HasItsParts, Tidy, CredIsUsed, HomeIsKept
    <2>4. OwnerTidies(p)'
      BY <2>0, <2>1, <2>3, <1>owner DEF OwnerTidies, Pending, Revoking, Removed
    <2> QED BY <2>1, <2>4, TakenLock
<1>15. CASE CommitSetup(p)
    <2>0. PICK q, r, old : q = job[p].product /\ r = job[p].ref /\ old = entry[q]
      OBVIOUS
    <2>1. /\ UNCHANGED <<home, cred, leaseFile>> /\ pc[p] = "saved" /\ pc'[p] = "retiring"
          /\ entry' = [entry EXCEPT ![q] = r] /\ q \in Product /\ r \in Refs(q)
          /\ gateway' \in Gateway /\ job'[p].ref = old /\ job'[p].product = q
      BY <2>0, <1>15 DEF CommitSetup, GatewayKept, JobType
    <2>2. (\A o \in Product : WholeBut(o, r) /\ entry[o] # r) /\ r \notin leaseFile
      BY <2>0, <2>1, <1>owner DEF Pending, PendingIsNew
    <2>3. home[r].at = "live" /\ cred[r] = "live" /\ old \in Refs(q) \cup {NoRef} /\ r # NoRef
      BY <2>0, <2>1 DEF PendingIsNew, EntriesAreOwn, Ref
    <2>4. WholeBut(q, old)'
      <3>1. entry'[q] = r
        BY <2>1
      <3>2. ASSUME NEW s \in Refs(q), s # r, s # old
            PROVE  Tidy(q, s)' /\ home'[s].at # "quarantined" /\ (s \in leaseFile' => entry'[q] # NoRef)
        BY <2>0, <2>1, <2>2, <2>3, <3>1, <3>2 DEF WholeBut, Tidy, CredIsUsed, HomeIsKept
      <3>3. Tidy(q, r)' /\ home'[r].at # "quarantined" /\ r \notin leaseFile'
        BY <2>1, <2>2, <2>3, <3>1 DEF Tidy, CredIsUsed, HomeIsKept
      <3>4. old \in Refs(q) => home'[old].at # "quarantined" /\ entry'[q] # NoRef
        BY <2>1, <2>2, <2>3, <3>1 DEF WholeBut
      <3> QED BY <2>1, <2>3, <3>1, <3>2, <3>3, <3>4 DEF WholeBut, HasItsParts
    <2>5. ASSUME NEW o \in Product \ {q} PROVE WholeBut(o, old)'
      <3>1. r \notin Refs(o) /\ entry'[o] = entry[o]
        BY <2>1
      <3> QED BY <2>1, <2>2, <3>1 DEF WholeBut, HasItsParts, Tidy, CredIsUsed, HomeIsKept
    <2>6. old # NoRef => home[old].at # "staged"
      BY <2>0, <2>1, <2>2, <2>3 DEF WholeBut, HasItsParts
    <2>7. OwnerTidies(p)'
      BY <2>1, <2>3, <2>4, <2>5, <2>6 DEF OwnerTidies, Pending, Revoking, Removed
    <2> QED BY <2>1, <2>7, TakenLock
<1>16. CASE RetireCredential(p)
    <2>0. PICK r : r = job[p].ref
      OBVIOUS
    <2>1. /\ UNCHANGED <<entry, gateway, home, leaseFile, job>> /\ pc[p] = "retiring" /\ pc'[p] = "retiringHome"
          /\ cred' = CredWithout({r})
      BY <2>0, <1>16, RemovalHappens DEF RetireCredential
    <2>2. \A q \in Product : entry[q] # NoRef => entry[q] # r
      BY <2>0, <2>1 DEF RetiredIsReplaced
    <2>3. \A s \in Ref : cred'[s] = IF s = r THEN "absent" ELSE cred[s]
      BY <2>1 DEF CredWithout
    <2>4. ASSUME NEW q \in Product PROVE WholeBut(q, r)'
      <3>1. WholeBut(q, r)
        BY <2>0, <2>1, <1>owner DEF Pending
      <3>2. HasItsParts(q)'
        <4>1. entry[q] # NoRef => entry[q] \in Ref /\ cred'[entry[q]] = cred[entry[q]]
          BY <2>2, <2>3
        <4> QED BY <2>1, <3>1, <4>1 DEF WholeBut, HasItsParts
      <3>3. ASSUME NEW s \in Refs(q), s # r PROVE Tidy(q, s)'
        <4>1. cred'[s] = cred[s]
          BY <2>3, <3>3
        <4> QED BY <2>1, <3>1, <3>3, <4>1 DEF WholeBut, Tidy, CredIsUsed, HomeIsKept
      <3> QED BY <2>1, <3>1, <3>2, <3>3 DEF WholeBut
    <2>5. OwnerTidies(p)'
      BY <2>0, <2>1, <2>3, <2>4, <1>owner DEF OwnerTidies, Pending, Revoking, Removed
    <2> QED BY <2>1, <2>5, TakenLock
<1>17. CASE RetireHome(p)
    <2>0. PICK q, r : q = job[p].product /\ r = job[p].ref
      OBVIOUS
    <2>1. /\ UNCHANGED <<entry, gateway, cred>> /\ pc[p] = "retiringHome" /\ pc'[p] = "done" /\ q \in Product
          /\ \/ home' = HomeWithout({r}) /\ leaseFile' = leaseFile \ {r}
             \/ UNCHANGED <<home, leaseFile>> /\ r \in leaseFile
      BY <2>0, <1>17, RemovalHappens DEF RetireHome, Retirable, Busy
    <2>2. /\ entry[q] # NoRef /\ r \in Refs(q) \cup {NoRef} /\ gateway # NoGateway
          /\ \A o \in Product : entry[o] # NoRef => entry[o] # r
      BY <2>0, <2>1, <1>owner DEF RetiredIsReplaced, Complete, Diagnose, Pending
    <2>3. \A s \in Ref : home'[s] = home[s] \/ (s = r /\ home'[s] = NoHome)
      BY <2>1 DEF HomeWithout
    <2>4. ASSUME NEW o \in Product PROVE Whole(o)'
      <3>1. WholeBut(o, r)
        BY <2>0, <2>1, <1>owner DEF Pending
      <3>2. HasItsParts(o)'
        BY <2>1, <2>2, <2>3, <3>1 DEF WholeBut, HasItsParts
      <3>3. ASSUME NEW s \in Refs(o), s # r
            PROVE  Tidy(o, s)' /\ home'[s].at # "quarantined" /\ (s \in leaseFile' => entry'[o] # NoRef)
        <4>1. home'[s] = home[s] /\ (s \in leaseFile' <=> s \in leaseFile)
          BY <2>1, <2>3, <3>3
        <4> QED BY <2>1, <3>1, <3>3, <4>1 DEF WholeBut, Tidy, CredIsUsed, HomeIsKept
      <3>4. ASSUME r \in Refs(o)
            PROVE  Tidy(o, r)' /\ home'[r].at # "quarantined" /\ (r \in leaseFile' => entry'[o] # NoRef)
        <4>1. o = q /\ r # NoRef /\ r \in Ref
          BY <2>1, <2>2, <3>4 DEF Ref
        <4>2. cred[r] = "absent" /\ home[r].at \notin {"staged", "quarantined"}
          BY <2>0, <2>1, <3>1, <3>4, <4>1, <1>owner DEF Pending, WholeBut
        <4>3. \/ home'[r] = NoHome /\ r \notin leaseFile'
              \/ home'[r] = home[r] /\ r \in leaseFile'
          BY <2>1, <4>1 DEF HomeWithout
        <4> QED BY <2>1, <2>2, <4>1, <4>2, <4>3 DEF Tidy, CredIsUsed, HomeIsKept, NoHome
      <3> QED BY <3>2, <3>3, <3>4 DEF Whole
    <2>5. AtRest'
      BY <2>1, <2>2, <2>4 DEF AtRest, RootsAreGone
    <2> QED BY <2>1, <2>5, OwnerRests
<1>18. CASE ProbeRevoke(p)
    <2>0. PICK q : q = job[p].product
      OBVIOUS
    <2>1. AtRest'
      BY <1>18, <1>rest, RestsOn DEF ProbeRevoke
    <2>2. CASE pc' = [pc EXCEPT ![p] = "done"]
      BY <2>1, <2>2, <1>18, OwnerRests DEF ProbeRevoke
    <2>3. CASE pc' = [pc EXCEPT ![p] = "purging"] /\ excl' = RefsToProbe(q) \cap leaseFile /\ job' = [job EXCEPT ![p].diag = Diagnosis]
      <3>1. pc'[p] = "purging" /\ job'[p].product = q /\ UNCHANGED leaseFile
        BY <2>0, <2>3, <1>18 DEF ProbeRevoke, JobType
      <3>2. leaseFile' \cap Refs(q) = excl'
        BY <2>3, <3>1 DEF RefsToProbe
      <3>3. OwnerTidies(p)'
        BY <2>1, <3>1, <3>2 DEF OwnerTidies, Pending, Revoking, Removed, AtRest
      <3> QED BY <3>1, <3>3, TakenLock
    <2> QED BY <2>0, <2>2, <2>3, <1>18 DEF ProbeRevoke
<1>19. CASE PurgeQuarantine(p)
    <2>0. PICK q : q = job[p].product
      OBVIOUS
    <2>1. /\ UNCHANGED <<dirs, entry, gateway, leaseFile, excl, pc, job>> /\ pc[p] \in {"purging", "purgingOwn"}
          /\ q \in Product
          /\ \E r \in Refs(q) : \/ (cred[r] = "quarantined" /\ cred' = CredWithout({r}) /\ UNCHANGED home)
                               \/ (home[r].at = "quarantined" /\ home' = HomeWithout({r}) /\ UNCHANGED cred)
      <3>1. Quarantined(q) \subseteq Refs(q)
        BY DEF Quarantined
      <3> QED BY <2>0, <3>1, <1>19 DEF PurgeQuarantine
    <2>2. /\ \A r \in Ref : /\ home'[r] = home[r] \/ (r \in Refs(q) /\ home'[r] = NoHome)
                            /\ cred'[r] = cred[r] \/ (r \in Refs(q) /\ cred[r] = "quarantined" /\ cred'[r] = "absent")
      BY <2>1 DEF HomeWithout, CredWithout
    <2>3. \A o \in Product \ {q} : Whole(o)
      BY <2>0, <2>1, <1>owner DEF Revoking
    <2>4. ASSUME NEW o \in Product \ {q} PROVE Whole(o)'
      <3>1. ASSUME NEW r \in Refs(o) PROVE home'[r] = home[r] /\ cred'[r] = cred[r]
        <4>1. r \in Ref /\ r \notin Refs(q)
          BY <2>1
        <4> QED BY <2>2, <4>1
      <3>2. entry[o] \in Refs(o) \cup {NoRef}
        BY DEF EntriesAreOwn
      <3> QED BY <2>1, <2>3, <3>1, <3>2 DEF Whole, HasItsParts, Tidy, CredIsUsed, HomeIsKept
    <2>5. CASE pc[p] = "purging"
      <3>1. AtRest
        BY <2>5, <1>rest
      <3>2. Whole(q)'
        <4>0. Whole(q)
          BY <2>1, <3>1 DEF AtRest
        <4>1. ASSUME NEW r \in Refs(q) PROVE cred[r] # "quarantined" /\ home[r].at # "quarantined"
          <5>1. r # NoRef
            BY <2>1 DEF Ref
          <5> QED BY <4>0, <5>1 DEF Whole, HasItsParts, Tidy, CredIsUsed
        <4> QED BY <2>1, <4>1
      <3>3. AtRest'
        BY <2>1, <2>4, <3>1, <3>2 DEF AtRest, RootsAreGone
      <3>4. OwnerTidies(p)'
        BY <2>0, <2>1, <2>5, <3>3, <1>owner DEF OwnerTidies, Pending, Revoking, Removed, AtRest
      <3> QED BY <2>1, <3>4, TakenLock
    <2>6. CASE pc[p] = "purgingOwn"
      <3>1. ASSUME NEW r \in Refs(q) PROVE home'[r].at # "staged"
        <4>1. r \in Ref /\ home[r].at # "staged"
          BY <2>0, <2>1, <2>6, <1>owner DEF Revoking
        <4> QED BY <2>2, <4>1 DEF NoHome
      <3>2. OwnerTidies(p)'
        BY <2>0, <2>1, <2>4, <2>6, <3>1, <1>owner DEF OwnerTidies, Pending, Revoking, Removed
      <3> QED BY <2>1, <3>2, TakenLock
    <2> QED BY <2>1, <2>5, <2>6
<1>20. CASE PurgedPrevious(p)
    <2>0. PICK q : q = job[p].product
      OBVIOUS
    <2>1. /\ UNCHANGED <<dirs, entry, gateway, home, cred, leaseFile, excl, job>> /\ pc[p] = "purging" /\ pc'[p] = "moving"
          /\ q \in Product
      BY <2>0, <1>20 DEF PurgedPrevious
    <2>2. AtRest
      BY <2>1, <1>rest
    <2>3. AtRest'
      BY <2>1, <2>2, RestsOn
    <2>4. Moved(q)'
      BY <2>1, <2>3 DEF AtRest, Whole, Moved, HasItsParts
    <2>5. OwnerTidies(p)'
      BY <2>0, <2>1, <2>3, <2>4, <1>owner DEF OwnerTidies, Pending, Revoking, Removed, AtRest
    <2> QED BY <2>1, <2>5, TakenLock
<1>21. CASE MoveCredential(p) \/ MoveHome(p)
    <2>0. PICK q : q = job[p].product
      OBVIOUS
    <2>1. /\ UNCHANGED <<dirs, entry, gateway, leaseFile, excl, pc, job>> /\ pc[p] = "moving" /\ q \in Product
          /\ \A r \in Ref : /\ home'[r] = home[r]
                               \/ (r \in Refs(q) /\ home[r].at = "live" /\ home'[r] = [home[r] EXCEPT !.at = "quarantined"])
                            /\ cred'[r] = cred[r] \/ (r \in Refs(q) /\ cred[r] = "live" /\ cred'[r] = "quarantined")
      <3>1. pc[p] = "moving" /\ q \in Product
        BY <2>0, <1>21 DEF MoveCredential, MoveHome
      <3>2. CASE MoveCredential(p)
        BY <2>0, <3>1, <3>2 DEF MoveCredential, CredsToMove, CredType
      <3>3. CASE MoveHome(p)
        BY <2>0, <3>1, <3>3 DEF MoveHome, HomesToMove, HomeType
      <3> QED BY <1>21, <3>2, <3>3
    <2>2. ASSUME NEW o \in Product \ {q} PROVE Whole(o)'
      <3>1. \A r \in Refs(o) : home'[r] = home[r] /\ cred'[r] = cred[r]
        BY <2>1
      <3>2. entry[o] \in Refs(o) \cup {NoRef} /\ Whole(o)
        BY <2>0, <2>1, <1>owner DEF EntriesAreOwn, Revoking
      <3> QED BY <2>1, <3>1, <3>2 DEF Whole, HasItsParts, Tidy, CredIsUsed, HomeIsKept
    <2>3. Moved(q) /\ RootsAreGone
      BY <2>0, <2>1, <1>owner DEF Revoking
    <2>4. ASSUME NEW r \in Refs(q)
          PROVE  /\ home'[r] = home[r] \/ (home[r].at = "live" /\ home'[r].at = "quarantined" /\ home[r] # NoHome)
                 /\ cred'[r] = cred[r] \/ (cred[r] = "live" /\ cred'[r] = "quarantined")
      <3>1. r \in Ref /\ home[r] \in [at : Place, for : Gateway \cup {NoGateway}]
        BY <2>1 DEF HomeType
      <3>2. [home[r] EXCEPT !.at = "quarantined"].at = "quarantined"
        BY <3>1
      <3>3. home[r].at = "live" => home[r] # NoHome
        BY DEF NoHome
      <3>4. home'[r] = home[r] \/ (home[r].at = "live" /\ home'[r] = [home[r] EXCEPT !.at = "quarantined"])
        BY <2>1, <3>1
      <3>5. home'[r] = home[r] \/ (home[r].at = "live" /\ home'[r].at = "quarantined" /\ home[r] # NoHome)
        BY <3>2, <3>3, <3>4
      <3>6. cred'[r] = cred[r] \/ (cred[r] = "live" /\ cred'[r] = "quarantined")
        BY <2>1, <3>1
      <3> QED BY <3>5, <3>6
    <2>5. Moved(q)'
      <3>1. entry[q] # NoRef => /\ home'[entry[q]].at \in {"live", "quarantined"}
                                /\ cred'[entry[q]] \in {"live", "quarantined"}
        BY <2>1, <2>3, <2>4 DEF Moved, EntriesAreOwn
      <3>2. ASSUME NEW r \in Refs(q) PROVE Tidy(q, r)'
        BY <2>1, <2>3, <2>4 DEF Moved, Tidy, CredIsUsed, HomeIsKept
      <3> QED BY <2>1, <2>3, <3>1, <3>2 DEF Moved
    <2>6. RootsAreGone'
      BY <2>1, <2>3 DEF RootsAreGone
    <2>7. OwnerTidies(p)'
      BY <2>0, <2>1, <2>2, <2>5, <2>6, <1>owner DEF OwnerTidies, Pending, Revoking, Removed
    <2> QED BY <2>1, <2>7, TakenLock
<1>23. CASE CommitRevoke(p)
    <2>0. PICK q : q = job[p].product
      OBVIOUS
    <2>1. /\ UNCHANGED <<home, cred, leaseFile, excl, job>> /\ pc[p] = "moving" /\ pc'[p] = "purgingOwn" /\ q \in Product
          /\ entry' = [entry EXCEPT ![q] = NoRef]
      BY <2>0, <1>23 DEF CommitRevoke
    <2>2. ASSUME NEW o \in Product \ {q} PROVE Whole(o)'
      <3>1. entry'[o] = entry[o] /\ Whole(o)
        BY <2>0, <2>1, <1>owner DEF Revoking
      <3> QED BY <2>1, <3>1 DEF Whole, HasItsParts, Tidy, CredIsUsed, HomeIsKept
    <2>3. \A r \in Refs(q) : home'[r].at # "staged"
      BY <2>0, <2>1, <1>owner DEF Revoking, Moved, Tidy
    <2>4. OwnerTidies(p)'
      BY <2>0, <2>1, <2>2, <2>3, <1>owner DEF OwnerTidies, Pending, Revoking, Removed
    <2> QED BY <2>1, <2>4, TakenLock
<1>24. CASE PurgedOwn(p)
    <2>0. PICK q : q = job[p].product
      OBVIOUS
    <2>1. /\ UNCHANGED <<entry, gateway, home, cred, leaseFile, excl, job>> /\ pc[p] = "purgingOwn" /\ pc'[p] = "dropping"
          /\ q \in Product /\ Quarantined(q) = {}
      BY <2>0, <1>24 DEF PurgedOwn
    <2>2. Emptied(q)'
      <3>1. \A r \in Refs(q) : home[r].at \notin {"live", "staged", "quarantined"} /\ cred[r] \notin {"live", "quarantined"}
        BY <2>0, <2>1, <1>owner DEF RevokedIsGone, Revoking, Quarantined
      <3>2. \A r \in Ref : home[r].at \in Place /\ cred[r] \in {"absent", "live", "quarantined"}
        BY DEF HomeType, CredType
      <3>3. \A r \in Refs(q) : home[r].at = "absent" /\ cred[r] = "absent"
        BY <2>1, <3>1, <3>2 DEF Place
      <3> QED BY <2>1, <3>3 DEF Emptied, HomesAre
    <2>3. \A o \in Product \ {q} : Whole(o)'
      BY <2>0, <2>1, <1>owner DEF Revoking, Whole, HasItsParts, Tidy, CredIsUsed, HomeIsKept
    <2>4. OwnerTidies(p)'
      BY <2>0, <2>1, <2>2, <2>3, <1>owner DEF OwnerTidies, Pending, Revoking, Removed
    <2> QED BY <2>1, <2>4, TakenLock
<1>25. CASE DropLeases(p)
    <2>0. PICK q : q = job[p].product
      OBVIOUS
    <2>1. /\ UNCHANGED <<entry, gateway, home, cred, job>> /\ pc[p] = "dropping" /\ pc'[p] = "pruning" /\ q \in Product
          /\ leaseFile' = leaseFile \ excl
      BY <2>0, <1>25, RemovalHappens DEF DropLeases
    <2>2. leaseFile \cap Refs(q) = excl /\ Emptied(q) /\ \A o \in Product \ {q} : Whole(o)
      BY <2>0, <2>1, <1>owner DEF Revoking
    <2>3. leaseFile' \cap Refs(q) = {} /\ \A o \in Product \ {q} : \A r \in Refs(o) : r \in leaseFile' <=> r \in leaseFile
      BY <2>1, <2>2
    <2>4. ASSUME NEW o \in Product \ {q} PROVE Whole(o)'
      BY <2>1, <2>2, <2>3 DEF Whole, HasItsParts, Tidy, CredIsUsed, HomeIsKept
    <2>5. Emptied(q)'
      BY <2>1, <2>2 DEF Emptied
    <2>6. OwnerTidies(p)'
      BY <2>0, <2>1, <2>3, <2>4, <2>5 DEF OwnerTidies, Pending, Revoking, Removed
    <2> QED BY <2>1, <2>6, TakenLock
<1>26. CASE Prune(p)
    <2>0. PICK q : q = job[p].product
      OBVIOUS
    <2>1. /\ UNCHANGED <<entry, gateway, home, cred, leaseFile, job>> /\ pc[p] = "pruning" /\ pc'[p] = "done" /\ q \in Product
          /\ dirs' = dirs \ EmptyDirs
      BY <2>0, <1>26, RemovalHappens DEF Prune
    <2>2. leaseFile \cap Refs(q) = {} /\ Emptied(q) /\ entry[q] = NoRef /\ \A o \in Product \ {q} : Whole(o)
      BY <2>0, <2>1, <1>owner DEF Revoking, RevokedIsGone
    <2>3. Whole(q)
      BY <2>1, <2>2 DEF Whole, HasItsParts, Emptied, Tidy, CredIsUsed, HomeIsKept, NoHome
    <2>4. ASSUME NEW o \in Product PROVE Whole(o)'
      BY <2>1, <2>2, <2>3 DEF Whole, HasItsParts, Tidy, CredIsUsed, HomeIsKept
    <2>5. ASSUME gateway = NoGateway PROVE dirs' \subseteq {"state"}
      <3>1. \A o \in Product : entry[o] = NoRef
        BY <2>5 DEF ConfigOK
      <3>2. ASSUME NEW o \in Product, NEW r \in Refs(o) PROVE home[r] = NoHome /\ cred[r] = "absent" /\ r \notin leaseFile
        <4>1. r \in Ref /\ r # NoRef /\ Whole(o) /\ entry[o] = NoRef
          BY <2>2, <2>3, <3>1 DEF Ref
        <4> QED BY <4>1 DEF Whole, Tidy, CredIsUsed, HomeIsKept
      <3>3. leaseFile = {} /\ \A r \in Ref : home[r] = NoHome /\ cred[r] = "absent"
        BY <3>2
      <3>4. dirs = EmptyDirs
        BY <2>5, <3>3 DEF EmptyDirs
      <3> QED BY <2>1, <3>4
    <2>6. AtRest'
      BY <2>1, <2>4, <2>5 DEF AtRest, RootsAreGone
    <2> QED BY <2>1, <2>6, OwnerRests
<1>27. CASE ProbeRevokeAll(p)
    <2>1. AtRest' /\ pc'[p] \in {"done", "dropConfig"}
      BY <1>27, <1>rest, RestsOn DEF ProbeRevokeAll
    <2>2. OwnerTidies(p)'
      BY <2>1 DEF OwnerTidies, Pending, Revoking, Removed
    <2> QED BY <2>1, <2>2, TakenLock
<1>28. CASE DropConfigRoot(p)
    <2>1. /\ pc'[p] = "dropData" /\ gateway' = NoGateway /\ dirs' = dirs \ {"config"}
          /\ \A q \in Product : entry'[q] = NoRef
      BY <1>28 DEF DropConfigRoot, DropFails
    <2>2. OwnerTidies(p)'
      BY <2>1 DEF OwnerTidies, Pending, Revoking, Removed
    <2> QED BY <2>1, <2>2, TakenLock
<1>29. CASE DropDataRoot(p)
    <2>1. /\ pc[p] = "dropData" /\ pc'[p] = "dropState" /\ dirs' = dirs \ {"data"} /\ UNCHANGED <<entry, gateway>>
          /\ \A r \in Ref : home'[r] = NoHome /\ cred'[r] = "absent"
      BY <1>29 DEF DropDataRoot, DropFails, HomeWithout, CredWithout
    <2>2. \A q \in Product : Emptied(q)'
      BY <2>1 DEF Emptied
    <2>3. OwnerTidies(p)'
      BY <2>1, <2>2, <1>owner DEF OwnerTidies, Pending, Revoking, Removed
    <2> QED BY <2>1, <2>3, TakenLock
<1>30. CASE DropStateRoot(p)
    <2>1. /\ pc[p] = "dropState" /\ pc'[p] = "done" /\ dirs' = dirs \ {"state", "leases"} /\ leaseFile' = {}
          /\ UNCHANGED <<entry, gateway, home, cred>>
      BY <1>30 DEF DropStateRoot, DropFails
    <2>2. /\ \A q \in Product : entry[q] = NoRef /\ Emptied(q)
          /\ dirs \subseteq {"state", "leases"}
      BY <2>1, <1>owner DEF Removed, Roots
    <2>3. \A q \in Product : Whole(q)'
      BY <2>1, <2>2 DEF Emptied, Whole, HasItsParts, Tidy, CredIsUsed, HomeIsKept, NoHome
    <2>4. AtRest'
      BY <2>1, <2>2, <2>3 DEF AtRest, RootsAreGone
    <2> QED BY <2>1, <2>4, OwnerRests
<1>32. CASE TakeLease(p)
    <2>0. PICK q, r : q = job[p].product /\ r = entry[q]
      OBVIOUS
    <2>1. /\ UNCHANGED <<entry, gateway, home, cred>> /\ pc'[p] = "validating" /\ leaseFile' = leaseFile \cup {r}
          /\ q \in Product /\ r # NoRef
      BY <2>0, <1>32 DEF TakeLease, Configured
    <2>2. AtRest /\ r \in Refs(q) /\ gateway # NoGateway
      BY <2>0, <2>1, <1>32, <1>rest DEF TakeLease, EntriesAreOwn, ConfigOK
    <2>3. ASSUME NEW o \in Product PROVE Whole(o)'
      <3>1. \A s \in Refs(o) : s \in leaseFile' => s \in leaseFile \/ o = q
        BY <2>1, <2>2
      <3>2. Whole(o)
        BY <2>2 DEF AtRest
      <3> QED BY <2>0, <2>1, <3>1, <3>2 DEF Whole, HasItsParts, Tidy, CredIsUsed, HomeIsKept
    <2>4. AtRest'
      BY <2>1, <2>2, <2>3 DEF AtRest, RootsAreGone
    <2> QED BY <2>1, <2>4, OwnerRests
<1>33. CASE Launch(p) \/ Release(p)
    <2>1. lock' = Nobody /\ AtRest'
      BY <1>33, <1>rest, RestsOn DEF Launch, Release
    <2> QED BY <2>1, FreeLock
<1>37. CASE FailSetup(p)
    <2>0. PICK r : r = job[p].ref
      OBVIOUS
    <2>1. /\ UNCHANGED <<dirs, entry, gateway, leaseFile, job>> /\ pc[p] \in Building \cup {"checked"}
          /\ home' = HomeWithout({r}) /\ cred' = CredWithout({r})
          /\ pc'[p] = IF gateway = NoGateway THEN "dropConfig" ELSE "done"
      BY <2>0, <1>37, RemovalHappens DEF FailSetup, FirstSetup, PendingDropped
    <2>2. \A s \in Ref : /\ home'[s] = IF s = r THEN NoHome ELSE home[s]
                         /\ cred'[s] = IF s = r THEN "absent" ELSE cred[s]
      BY <2>1 DEF HomeWithout, CredWithout
    <2>3. r # NoRef => r \notin leaseFile /\ \A q \in Product : entry[q] # r
      BY <2>0, <2>1, <1>owner DEF Pending, PendingIsNew
    <2>4. ASSUME NEW q \in Product PROVE Whole(q)'
      <3>1. WholeBut(q, r)
        BY <2>0, <2>1, <1>owner, <1>rest DEF Pending, AtRest, Whole, WholeBut
      <3>2. HasItsParts(q)'
        <4>1. entry[q] # NoRef => entry[q] \in Ref /\ home'[entry[q]] = home[entry[q]] /\ cred'[entry[q]] = cred[entry[q]]
          BY <2>2, <2>3
        <4> QED BY <2>1, <3>1, <4>1 DEF WholeBut, HasItsParts
      <3>3. ASSUME NEW s \in Refs(q), s # r PROVE Tidy(q, s)' /\ home'[s].at # "quarantined"
        <4>1. home'[s] = home[s] /\ cred'[s] = cred[s]
          BY <2>2, <3>3
        <4> QED BY <2>1, <3>1, <3>3, <4>1 DEF WholeBut, Tidy, CredIsUsed, HomeIsKept
      <3>4. ASSUME r \in Refs(q) PROVE Tidy(q, r)' /\ home'[r].at # "quarantined"
        <4>1. home'[r] = NoHome /\ cred'[r] = "absent"
          BY <2>2, <3>4
        <4> QED BY <4>1 DEF Tidy, CredIsUsed, HomeIsKept, NoHome
      <3>5. \A s \in Refs(q) : s \in leaseFile' => entry'[q] # NoRef
        BY <2>1, <3>1 DEF WholeBut
      <3> QED BY <3>2, <3>3, <3>4, <3>5 DEF Whole
    <2>5. CASE gateway = NoGateway
      <3>1. OwnerTidies(p)'
        BY <2>1, <2>5 DEF OwnerTidies, Pending, Revoking, Removed
      <3> QED BY <2>1, <2>5, <3>1, TakenLock
    <2>6. CASE gateway # NoGateway
      <3>1. AtRest'
        BY <2>1, <2>4, <2>6 DEF AtRest, RootsAreGone
      <3> QED BY <2>1, <2>6, <3>1, OwnerRests
    <2> QED BY <2>5, <2>6
<1>38. CASE FailRevoke(p)
    <2>0. PICK q : q = job[p].product
      OBVIOUS
    <2>1. UNCHANGED <<dirs, entry, gateway, leaseFile>> /\ pc'[p] = "done" /\ pc[p] \in {"purging", "moving"} /\ q \in Product
      BY <2>0, <1>38 DEF FailRevoke
    <2>2. CASE pc[p] = "purging"
      <3>1. AtRest'
        BY <2>1, <2>2, <1>rest, <1>38, RestsOn DEF FailRevoke
      <3> QED BY <2>1, <3>1, OwnerRests
    <2>3. CASE pc[p] = "moving"
      <3>1. Moved(q) /\ RootsAreGone /\ \A o \in Product \ {q} : Whole(o)
        BY <2>0, <2>3, <1>owner DEF Revoking
      <3>2. ASSUME NEW r \in Ref
            PROVE  /\ r \notin Refs(q) => home'[r] = home[r] /\ cred'[r] = cred[r]
                   /\ r \in Refs(q) => /\ cred'[r] = IF cred[r] = "quarantined" THEN "live" ELSE cred[r]
                                       /\ home'[r].at = IF home[r].at = "quarantined" THEN "live" ELSE home[r].at
                                       /\ home[r] = NoHome => home'[r] = NoHome
        <4>1. cred' = CredRolledBack(q) /\ home' = HomeRolledBack(q)
          BY <2>0, <2>3, <1>38 DEF FailRevoke
        <4>2. home[r] \in [at : Place, for : Gateway \cup {NoGateway}]
          BY DEF HomeType
        <4>3. [home[r] EXCEPT !.at = "live"].at = "live"
          BY <4>2
        <4> QED BY <4>1, <4>3 DEF CredRolledBack, HomeRolledBack, NoHome
      <3>3. ASSUME NEW o \in Product \ {q} PROVE Whole(o)'
        <4>1. \A r \in Refs(o) : home'[r] = home[r] /\ cred'[r] = cred[r]
          BY <2>1, <3>2
        <4>2. entry[o] \in Refs(o) \cup {NoRef} /\ Whole(o)
          BY <3>1 DEF EntriesAreOwn
        <4> QED BY <2>1, <4>1, <4>2 DEF Whole, HasItsParts, Tidy, CredIsUsed, HomeIsKept
      <3>4. HasItsParts(q)'
        <4>1. entry[q] # NoRef => entry[q] \in Refs(q) /\ entry[q] \in Ref
          BY <2>1 DEF EntriesAreOwn
        <4> QED BY <2>1, <3>1, <3>2, <4>1 DEF Moved, HasItsParts
      <3>5. ASSUME NEW r \in Refs(q) PROVE Tidy(q, r)' /\ home'[r].at # "quarantined"
        <4>1. r \in Ref /\ Tidy(q, r)
          BY <2>1, <3>1 DEF Moved
        <4> QED BY <2>1, <3>2, <4>1 DEF Tidy, CredIsUsed, HomeIsKept
      <3>6. Whole(q)'
        BY <2>1, <3>1, <3>4, <3>5 DEF Moved, Whole
      <3>7. AtRest'
        BY <2>1, <3>1, <3>3, <3>6 DEF AtRest, RootsAreGone
      <3> QED BY <2>1, <3>7, OwnerRests
    <2> QED BY <2>1, <2>2, <2>3
<1> QED BY <1>1, <1>2, <1>3, <1>7, <1>8, <1>9, <1>10, <1>12, <1>13, <1>14, <1>15, <1>16, <1>17, <1>18, <1>19, <1>20,
           <1>21, <1>23, <1>24, <1>25, <1>26, <1>27, <1>28, <1>29, <1>30, <1>32, <1>33, <1>37, <1>38
        DEF Outer, Begin, OwnerStep, SetupStep, RevokeStep, RevokeAllStep, LaunchStep, Fail

\* The step with its history: a crash that matters ends the promise.
THEOREM AtomicStep ==
    Invariant /\ CommitInvariant /\ AtomicInvariant /\ [MCNext]_<<vars, crashed>> => AtomicInvariant'
<1> SUFFICES ASSUME Invariant, CommitInvariant, AtomicInvariant, [MCNext]_<<vars, crashed>> PROVE AtomicInvariant'
    OBVIOUS
<1>1. CASE UNCHANGED <<vars, crashed>>
  <2>1. HomesAre'
    BY <1>1 DEF AtomicInvariant, HomesAre, vars
  <2>2. Clean => Clean'
    BY <1>1, OutsideOnly DEF vars, files
  <2> QED BY <1>1, <2>1, <2>2 DEF AtomicInvariant
<1>2. CASE MCNext
  <2>1. [Next]_vars /\ Next
    BY <1>2 DEF MCNext
  <2>2. HomesAre'
    BY <2>1, HomesStep DEF AtomicInvariant, Invariant
  <2>3. ASSUME ~crashed', ~RemovalMayFail PROVE Clean'
    <3>1. HomesAre /\ Clean
      BY <1>2, <2>3 DEF MCNext, AtomicInvariant
    <3>2. PICK p \in Process : Outer(p) \/ OwnerStep(p) \/ Fail(p)
      BY <2>1 DEF Next
    <3>3. Crash(p) => pc[p] \in {"done", "running", "fetching"}
      BY <1>2, <2>3 DEF MCNext
    <3>4. OwnerOK'
      BY <2>1, LeaseStep DEF Invariant, LeaseInvariant
    <3> QED BY <2>2, <2>3, <3>1, <3>2, <3>3, <3>4, CleanStep
  <2> QED BY <2>2, <2>3 DEF AtomicInvariant
<1> QED BY <1>1, <1>2

\* A transaction is all or nothing (TransactionsAreAtomic): whenever the lock is
\* free and nobody has died, a configured product is complete, and what else there
\* is on disk waits under the lease file of a configured product.
THEOREM AllOrNothing == MCSpec => []TransactionsAreAtomic
<1>1. MCInit => Init /\ AtomicInvariant
  BY OneProduct DEF MCInit, Init, AtomicInvariant, HomesAre, Clean, AtRest, RootsAreGone, Whole, HasItsParts, Tidy,
     CredIsUsed, HomeIsKept, NoHome, OwnerTidies, Pending, Revoking, Removed, Building, RevokeSteps
<1>2. [MCNext]_<<vars, crashed>> => [Next]_vars
  BY DEF MCNext
<1>3. Invariant /\ CommitInvariant /\ AtomicInvariant /\ [MCNext]_<<vars, crashed>> => AtomicInvariant'
  BY AtomicStep
<1>4. AtomicInvariant => TransactionsAreAtomic
  <2> SUFFICES ASSUME AtomicInvariant, Orderly PROVE NoneBroken /\ NothingLeft
    BY DEF TransactionsAreAtomic
  <2>1. RootsAreGone /\ \A q \in Product : Whole(q)
    BY DEF AtomicInvariant, Orderly, Clean, AtRest
  <2>2. NoneBroken
    BY <2>1 DEF NoneBroken, Diagnose, Whole, HasItsParts
  <2>3. NothingLeft
    BY <2>1 DEF NothingLeft, RootsAreGone, Whole, Tidy, CredIsUsed, HomeIsKept, NoHome
  <2> QED BY <2>2, <2>3
<1> QED BY CommitInvariance, <1>1, <1>2, <1>3, <1>4, PTL DEF MCSpec, Spec
=============================================================================

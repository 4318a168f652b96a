--------------------------- MODULE UserFilesProofs ---------------------------
(***************************************************************************)
(* Proofs about the files SAIAI shares with a user, for every behaviour of *)
(* MCSpec and any environments, clients, files and writers.                *)
(*                                                                         *)
(* Uninstall: that the evidence outlives the values follows from the order *)
(* of the plan.  Before any item that removes data, there is one for every *)
(* value that is left, and an item that did not succeed ends all removals. *)
(* Which items a plan has depends on what SetToSeq and FlattenSeq return,  *)
(* so that is proved first.                                                *)
(*                                                                         *)
(* AtomicFile: what a name shows is synced and whole.                      *)
(***************************************************************************)
EXTENDS MCUserFiles, FiniteSetTheorems, WellFoundedInduction, TLAPS

(***************************************************************************)
(* Sequences.                                                              *)
(***************************************************************************)
\* A set of numbers that is not empty has a least one: the induction of this module.
LEMMA Least == ASSUME NEW S \in SUBSET Nat, S # {} PROVE \E i \in S : \A j \in S : i <= j
<1> DEFINE R == OpToRel(<, Nat)
<1>1. IsWellFoundedOn(R, Nat)
  BY NatLessThanWellFounded
<1>2. \A x, y \in Nat : y < x => <<y, x>> \in R
  BY DEF OpToRel
<1> HIDE DEF R
<1>3. PICK x \in S : \A y \in S : ~ (<<y, x>> \in R)
  BY <1>1, WFMin
<1>4. \A y \in S : x \in Nat /\ y \in Nat /\ ~(y < x)
  BY <1>2, <1>3
<1>5. \A y \in S : x <= y
  BY <1>4
<1> QED BY <1>5

\* SetToSeq lists a finite set.
LEMMA SeqOfSet ==
    ASSUME NEW S, IsFiniteSet(S)
    PROVE  SetToSeq(S) \in Seq(S) /\ ToSet(SetToSeq(S)) = S
<1> DEFINE n == Cardinality(S)
           s == SetToSeq(S)
<1>1. n \in Nat /\ ExistsBijection(1 .. n, S)
  BY FS_CardinalityType
<1>2. PICK b \in [1 .. n -> S] : b \in Bijection(1 .. n, S)
  BY <1>1 DEF ExistsBijection, Bijection, Injection
<1>3. IsInjective(b)
  BY <1>2 DEF Bijection, Injection, IsInjective
<1>4. s \in [1 .. n -> S] /\ IsInjective(s)
  BY <1>2, <1>3 DEF SetToSeq
<1> HIDE DEF s
<1>5. s \in Injection(1 .. n, S)
  BY <1>4 DEF Injection, IsInjective
<1>6. IsFiniteSet(1 .. n) /\ Cardinality(1 .. n) = n
  BY <1>1, FS_Interval
<1>7. s \in Surjection(1 .. n, S)
  BY <1>5, <1>6, FS_Injection
<1>8. s \in Seq(S)
  BY <1>1, <1>4
<1>9. ToSet(s) = S
  BY <1>4, <1>7 DEF Surjection, ToSet
<1> QED BY <1>8, <1>9 DEF s

\* A concatenation has the elements of both, the first ones in their places.
LEMMA Concatenated ==
    ASSUME NEW X, NEW s \in Seq(X), NEW t \in Seq(X)
    PROVE  /\ s \o t \in Seq(X) /\ ToSet(s \o t) = ToSet(s) \cup ToSet(t)
           /\ \A i \in DOMAIN s : i \in DOMAIN (s \o t) /\ (s \o t)[i] = s[i]
           /\ \A i \in DOMAIN (s \o t) \ DOMAIN s : (s \o t)[i] \in ToSet(t)
<1>1. s \o t \in Seq(X) /\ Len(s \o t) = Len(s) + Len(t)
  OBVIOUS
<1>2. \A i \in 1 .. Len(s) : (s \o t)[i] = s[i]
  OBVIOUS
<1>3. \A i \in 1 .. Len(t) : (s \o t)[Len(s) + i] = t[i]
  OBVIOUS
<1>4. DOMAIN s = 1 .. Len(s) /\ DOMAIN t = 1 .. Len(t) /\ DOMAIN (s \o t) = 1 .. Len(s) + Len(t)
  BY <1>1
<1>5. Len(s) \in Nat /\ Len(t) \in Nat
  OBVIOUS
<1>6. ASSUME NEW i \in DOMAIN (s \o t) \ DOMAIN s
      PROVE  i - Len(s) \in DOMAIN t /\ (s \o t)[i] = t[i - Len(s)]
  <2>1. i - Len(s) \in 1 .. Len(t) /\ Len(s) + (i - Len(s)) = i
    BY <1>4, <1>5
  <2> QED BY <1>3, <1>4, <2>1
<1>7. \A i \in DOMAIN t : Len(s) + i \in DOMAIN (s \o t)
  BY <1>4, <1>5
<1>8. \A i \in DOMAIN s : i \in DOMAIN (s \o t)
  BY <1>4, <1>5
<1> QED BY <1>1, <1>2, <1>3, <1>4, <1>6, <1>7, <1>8 DEF ToSet

\* The recursive function FlattenSeq is made of, and that there is one.
IsFlat(ss, n, g) == g = [i \in 1 .. n |-> IF i = 1 THEN ss[i] ELSE g[i - 1] \o ss[i]]

\* It exists for every length.
LEMMA FlatExists == ASSUME NEW ss, NEW n \in Nat PROVE \E g : IsFlat(ss, n, g)
<1> DEFINE Bad == {k \in Nat : ~\E g : IsFlat(ss, k, g)}
<1> SUFFICES ASSUME Bad # {} PROVE FALSE
  OBVIOUS
<1>1. PICK m \in Bad : \A k \in Bad : m <= k
  BY Least
<1>2. m # 0
  <2>1. IsFlat(ss, 0, [i \in 1 .. 0 |-> 0])
    BY DEF IsFlat
  <2> QED BY <1>1, <2>1
<1>3. m \in Nat /\ m - 1 \in Nat /\ ~(m <= m - 1)
  BY <1>1, <1>2
<1>4. PICK g : IsFlat(ss, m - 1, g)
  BY <1>1, <1>3
<1> DEFINE h == [i \in 1 .. m |-> IF i = 1 THEN ss[i] ELSE g[i - 1] \o ss[i]]
<1>5. ASSUME NEW i \in 1 .. m, i # 1 PROVE h[i - 1] = g[i - 1]
  <2>1. i - 1 \in 1 .. m /\ i - 1 \in 1 .. m - 1
    BY <1>3, <1>5
  <2>2. h[i - 1] = IF i - 1 = 1 THEN ss[i - 1] ELSE g[(i - 1) - 1] \o ss[i - 1]
    BY <2>1
  <2>3. g[i - 1] = IF i - 1 = 1 THEN ss[i - 1] ELSE g[(i - 1) - 1] \o ss[i - 1]
    <3>1. g = [k \in 1 .. m - 1 |-> IF k = 1 THEN ss[k] ELSE g[k - 1] \o ss[k]]
      BY <1>4 DEF IsFlat
    <3> QED BY <2>1, <3>1
  <2> QED BY <2>2, <2>3
<1>6. IsFlat(ss, m, h)
  <2>1. \A i \in 1 .. m : h[i] = IF i = 1 THEN ss[i] ELSE h[i - 1] \o ss[i]
    BY <1>5
  <2>2. h = [i \in 1 .. m |-> h[i]]
    OBVIOUS
  <2> HIDE DEF h
  <2>3. h = [i \in 1 .. m |-> IF i = 1 THEN ss[i] ELSE h[i - 1] \o ss[i]]
    BY <2>1, <2>2
  <2> QED BY <2>3 DEF IsFlat
<1> QED BY <1>1, <1>6

\* A flattened sequence has the elements of all its parts.
LEMMA Flattened ==
    ASSUME NEW X, NEW ss \in Seq(Seq(X))
    PROVE  FlattenSeq(ss) \in Seq(X) /\ ToSet(FlattenSeq(ss)) = UNION {ToSet(ss[i]) : i \in DOMAIN ss}
<1> DEFINE n == Len(ss)
           g == CHOOSE f : IsFlat(ss, n, f)
           Upto(i) == UNION {ToSet(ss[j]) : j \in 1 .. i}
           Good(i) == g[i] \in Seq(X) /\ ToSet(g[i]) = Upto(i)
           Bad == {i \in 1 .. n : ~Good(i)}
<1>1. n \in Nat /\ DOMAIN ss = 1 .. n
  OBVIOUS
<1>2. CASE n = 0
  <2>1. FlattenSeq(ss) = ss /\ ss = << >>
    BY <1>1, <1>2 DEF FlattenSeq
  <2> QED BY <2>1 DEF ToSet
<1>3. CASE n # 0
  <2>1. FlattenSeq(ss) = g[n]
    BY <1>3 DEF FlattenSeq, IsFlat
  <2>2. IsFlat(ss, n, g)
    BY <1>1, FlatExists
  <2> HIDE DEF g
  <2>3. \A i \in 1 .. n : g[i] = IF i = 1 THEN ss[i] ELSE g[i - 1] \o ss[i]
    <3>1. g = [i \in 1 .. n |-> IF i = 1 THEN ss[i] ELSE g[i - 1] \o ss[i]]
      BY <2>2 DEF IsFlat
    <3> HIDE DEF n
    <3> QED BY <3>1
  <2>4. \A i \in 1 .. n : ss[i] \in Seq(X)
    BY <1>1
  <2> HIDE DEF n
  <2>5. Bad = {}
    <3> SUFFICES ASSUME Bad # {} PROVE FALSE
      OBVIOUS
    <3>1. PICK m \in Bad : \A k \in Bad : m <= k
      <4>1. Bad \in SUBSET Nat
        BY <1>1
      <4> QED BY <4>1, Least
    <3>2. CASE m = 1
      <4>1. g[m] = ss[m] /\ Upto(m) = ToSet(ss[m])
        BY <1>1, <2>3, <3>2
      <4> QED BY <2>4, <3>1, <4>1
    <3>3. CASE m # 1
      <4>1. m - 1 \in 1 .. n /\ m \in 1 .. n /\ ~(m <= m - 1)
        BY <1>1, <3>1, <3>3
      <4>2. Good(m - 1)
        BY <3>1, <4>1
      <4>3. g[m] = g[m - 1] \o ss[m]
        BY <2>3, <3>3, <4>1
      <4>4. g[m] \in Seq(X) /\ ToSet(g[m]) = ToSet(g[m - 1]) \cup ToSet(ss[m])
        BY <2>4, <4>1, <4>2, <4>3, Concatenated
      <4>5. 1 .. m = (1 .. m - 1) \cup {m}
        BY <1>1, <4>1
      <4>6. Upto(m) = Upto(m - 1) \cup ToSet(ss[m])
        BY <4>5
      <4> QED BY <3>1, <4>2, <4>4, <4>6
    <3> QED BY <3>2, <3>3
  <2>6. n \in 1 .. n
    BY <1>1, <1>3
  <2>7. Good(n)
    BY <2>5, <2>6
  <2> QED BY <1>1, <2>1, <2>7
<1> QED BY <1>2, <1>3

\* A set of the values of a function on a finite set.
LEMMA ItemsOf ==
    ASSUME NEW X, NEW S, IsFiniteSet(S), NEW g \in [S -> X]
    PROVE  /\ SetToSeq({g[x] : x \in S}) \in Seq(X)
           /\ ToSet(SetToSeq({g[x] : x \in S})) = {g[x] : x \in S}
<1> DEFINE T == {g[x] : x \in S}
<1>1. g \in Surjection(S, T)
  BY DEF Surjection
<1>2. IsFiniteSet(T)
  BY <1>1, FS_Surjection
<1>3. SetToSeq(T) \in Seq(T) /\ ToSet(SetToSeq(T)) = T
  BY <1>2, SeqOfSet
<1>4. T \subseteq X
  OBVIOUS
<1> HIDE DEF T
<1>5. Seq(T) \subseteq Seq(X)
  BY <1>4
<1> QED BY <1>3, <1>5 DEF T

(***************************************************************************)
(* Uninstall.                                                              *)
(***************************************************************************)
(* What the plan's items are *)

\* A file, an edit that takes values out of it and leaves the user's revision
\* as it is, and an item: one that removes data or another.
FileState == [values : SUBSET Env, revision : Nat, form : Form]
Area == {"services", "product", "vscode", "certificates", "data", "program"}
Outcome == {"pending", "done", "absent", "failed", "skipped", "manual", "kept"}
Rewrite == {x \in [file : File, original : FileState, replacement : FileState] :
               /\ x.replacement.values \subseteq x.original.values
               /\ x.replacement.revision = x.original.revision}
Step == [area : Area, kind : {"edit"}, of : Rewrite, outcome : Outcome]
        \cup [area : Area, kind : {"stop", "record", "untrust", "program", "note"},
              of : Env \cup File \cup Program, outcome : Outcome]
Removal == [area : {"data"}, kind : {"config", "rest", "tree"}, of : Env, outcome : Outcome]
PlanItem == Step \cup Removal

\* An item that ended a run's removals, one that removes data, one that frees
\* file f from e's values, and one that takes the trust away.
Stopped(x) == x.outcome \in {"failed", "skipped"}
Removes(x) == x.outcome = "pending" /\ x.kind \in {"config", "rest", "tree"}
Frees(x, f, e) ==
    \/ Stopped(x)
    \/ x.outcome = "pending" /\ x.kind = "edit" /\ x.of.file = f /\ e \notin x.of.replacement.values
Untrusts(x) == Stopped(x) \/ (x.outcome = "pending" /\ x.kind = "untrust")

\* Types; whose values a file can hold; EvidenceOutlivesValues; and before an
\* item that removes data, the plan has one for every value that is left,
\* which is still to be carried out or has ended all removals.
GivenUp == [projects : SUBSET Env, areas : SUBSET {"vscode", "certificates"}]
Types == /\ file \in [File -> FileState] /\ data \in [Env -> Directory]
         /\ trusted \in Env \cup {None} /\ given \in GivenUp
         /\ run \in [pc : {"idle", "planned", "execute"}, plan : Seq(PlanItem)]
Owns == \A f \in File : \A e \in file[f].values : f = VSCode \/ e = f[2]
Covered(i) ==
    /\ \A f \in File : \A e \in Owed(f) : \E j \in 1 .. i - 1 : Frees(run.plan[j], f, e)
    /\ TrustOwed => \E j \in 1 .. i - 1 : Untrusts(run.plan[j])
Covers == \A i \in DOMAIN run.plan : Removes(run.plan[i]) => Covered(i)
Evidence == EvidenceOutlivesValues
IInv == Types /\ Owns /\ Evidence /\ Covers

\* Nothing is left to take out.
NothingOwed == (\A f \in File : Owed(f) = {}) /\ ~TrustOwed
\* Nothing that was given up is taken up again.
GivesUpMore == /\ given' \in GivenUp
               /\ given.projects \subseteq given'.projects /\ given.areas \subseteq given'.areas

\* Then there is not more to take out.
LEMMA OwesNoMore ==
    ASSUME GivesUpMore, \A f \in File : file'[f].values \subseteq file[f].values, trusted' \in {trusted, None}
    PROVE  /\ \A f \in File : Owed(f)' \subseteq Owed(f)
           /\ TrustOwed' => TrustOwed /\ trusted' = trusted
<1>1. ASSUME NEW f \in File PROVE Owed(f)' \subseteq Owed(f)
  BY DEF Owed, GivesUpMore
<1>2. TrustOwed' => TrustOwed /\ trusted' = trusted
  BY DEF TrustOwed, GivesUpMore
<1> QED BY <1>1, <1>2

\* As when nothing is given up.
LEMMA GivesUpNothing == ASSUME Types, UNCHANGED given PROVE GivesUpMore
BY DEF Types, GivesUpMore

\* Only values of environments are taken out.
LEMMA OwedValues == ASSUME Types, NEW f \in File PROVE Owed(f) \subseteq file[f].values /\ file[f].values \subseteq Env
BY DEF Types, Owed, FileState

\* A removal is only reached when nothing is left that its evidence proves.
LEMMA RemovalIsSafe ==
    ASSUME IInv, NEW i \in Turn, ~Blocked(i), run.plan[i].kind \in {"config", "rest", "tree"}
    PROVE  NothingOwed
<1>1. run.plan \in Seq(PlanItem) /\ DOMAIN run.plan = 1 .. Len(run.plan) /\ Len(run.plan) \in Nat
  BY DEF IInv, Types
<1>2. i \in DOMAIN run.plan /\ Removes(run.plan[i]) /\ Covered(i)
  BY DEF Turn, Pending, IInv, Covers, Removes
<1>3. run.plan[i].area = "data"
  <2>1. run.plan[i] \in PlanItem
    BY <1>1, <1>2
  <2> QED BY <2>1 DEF PlanItem, Step, Removal
<1>4. ASSUME NEW j \in 1 .. i - 1 PROVE j \in DOMAIN run.plan /\ j \notin Pending
  <2>1. j \in DOMAIN run.plan /\ ~(i <= j)
    BY <1>1, <1>2
  <2> QED BY <2>1 DEF Turn
<1>5. \A j \in 1 .. i - 1 : run.plan[j].outcome # "pending" /\ ~Stopped(run.plan[j])
  BY <1>3, <1>4 DEF Pending, Blocked, GateBlocked, Succeeded, Stopped
<1>6. \A j \in 1 .. i - 1 : ~Untrusts(run.plan[j]) /\ \A f, e : ~Frees(run.plan[j], f, e)
  BY <1>5 DEF Untrusts, Frees
<1> QED BY <1>2, <1>6 DEF Covered, NothingOwed

\* The outcome of item i is set.
Marks(i, outcome) == run' = [run EXCEPT !.plan[i].outcome = outcome]

\* Nothing else in the plan changes.
LEMMA Marked ==
    ASSUME Types, NEW i \in DOMAIN run.plan, NEW o \in Outcome, Marks(i, o)
    PROVE  /\ run' \in [pc : {"idle", "planned", "execute"}, plan : Seq(PlanItem)]
           /\ DOMAIN run'.plan = DOMAIN run.plan
           /\ \A j \in DOMAIN run.plan \ {i} : run'.plan[j] = run.plan[j]
           /\ run'.plan[i].kind = run.plan[i].kind /\ run'.plan[i].of = run.plan[i].of /\ run'.plan[i].outcome = o
<1> DEFINE x == [run.plan[i] EXCEPT !.outcome = o]
           p == [run.plan EXCEPT ![i] = x]
<1>1. run.plan \in Seq(PlanItem) /\ DOMAIN run.plan = 1 .. Len(run.plan) /\ Len(run.plan) \in Nat
  BY DEF Types
<1>2. run.plan[i] \in PlanItem
  BY <1>1
<1>3. x \in PlanItem /\ x.kind = run.plan[i].kind /\ x.of = run.plan[i].of /\ x.outcome = o
  BY <1>2 DEF PlanItem, Step, Removal
<1>4. p \in Seq(PlanItem) /\ DOMAIN p = DOMAIN run.plan /\ p[i] = x /\ \A j \in DOMAIN run.plan \ {i} : p[j] = run.plan[j]
  BY <1>1, <1>3
<1>5. run' = [run EXCEPT !.plan = p]
  BY DEF Marks
<1> HIDE DEF p
<1>6. run'.plan = p /\ run' \in [pc : {"idle", "planned", "execute"}, plan : Seq(PlanItem)]
  BY <1>4, <1>5 DEF Types
<1> QED BY <1>3, <1>4, <1>6

\* What an item does while it gets its outcome leaves the removals covered, if
\* the item was no cover for what is left.
LEMMA CoversStay ==
    ASSUME IInv, NEW i \in DOMAIN run.plan, NEW o \in Outcome \ {"pending"}, Marks(i, o),
           \A f \in File : Owed(f)' \subseteq Owed(f), TrustOwed' => TrustOwed,
           \/ Stopped([outcome |-> o])
           \/ /\ \A f \in File, e \in Env : Frees(run.plan[i], f, e) => e \notin Owed(f)'
              /\ Untrusts(run.plan[i]) => ~TrustOwed'
    PROVE  Covers'
<1>1. /\ DOMAIN run'.plan = DOMAIN run.plan
      /\ \A j \in DOMAIN run.plan \ {i} : run'.plan[j] = run.plan[j]
      /\ run'.plan[i].outcome = o
  BY Marked DEF IInv
<1>2. DOMAIN run.plan = 1 .. Len(run.plan) /\ Len(run.plan) \in Nat
  BY DEF IInv, Types
<1> SUFFICES ASSUME NEW k \in DOMAIN run.plan, Removes(run'.plan[k])
             PROVE  /\ \A f \in File : \A e \in Owed(f)' : \E j \in 1 .. k - 1 : Frees(run'.plan[j], f, e)
                    /\ TrustOwed' => \E j \in 1 .. k - 1 : Untrusts(run'.plan[j])
  BY SMTT(60), <1>1 DEF Covers, Covered, Removes, Frees, Untrusts, Stopped
<1>3. k # i /\ Removes(run.plan[k]) /\ Covered(k)
  BY <1>1 DEF IInv, Covers, Removes
<1>4. \A j \in 1 .. k - 1 : j \in DOMAIN run.plan /\ (j = i \/ run'.plan[j] = run.plan[j])
  BY <1>1, <1>2
<1>5. ASSUME NEW f \in File, NEW e \in Owed(f)' PROVE \E j \in 1 .. k - 1 : Frees(run'.plan[j], f, e)
  <2>1. e \in Owed(f) /\ e \in Env
    BY OwedValues DEF IInv
  <2>2. PICK j \in 1 .. k - 1 : Frees(run.plan[j], f, e)
    BY <1>3, <2>1 DEF Covered
  <2>3. Frees(run'.plan[j], f, e)
    <3>1. CASE j = i
      BY <1>1, <2>1, <2>2, <3>1 DEF Frees, Stopped
    <3>2. CASE j # i
      BY <1>4, <2>2, <3>2
    <3> QED BY <3>1, <3>2
  <2> QED BY <2>3
<1>6. ASSUME TrustOwed' PROVE \E j \in 1 .. k - 1 : Untrusts(run'.plan[j])
  <2>1. PICK j \in 1 .. k - 1 : Untrusts(run.plan[j])
    BY <1>3, <1>6 DEF Covered
  <2>2. Untrusts(run'.plan[j])
    <3>1. CASE j = i
      BY <1>1, <1>6, <2>1, <3>1 DEF Untrusts, Stopped
    <3>2. CASE j # i
      BY <1>4, <2>1, <3>2
    <3> QED BY <3>1, <3>2
  <2> QED BY <2>2
<1> QED BY <1>5, <1>6

\* The item whose turn it is.
LEMMA AtTurn ==
    ASSUME Types, NEW i \in Turn
    PROVE  i \in DOMAIN run.plan /\ run.plan[i] \in PlanItem /\ run.plan[i].outcome = "pending"
<1>1. i \in DOMAIN run.plan /\ run.plan[i].outcome = "pending"
  BY DEF Turn, Pending
<1>2. run.plan \in Seq(PlanItem)
  BY DEF Types
<1> QED BY <1>1, <1>2

\* A step that only marks an item.
LEMMA MarkStep ==
    ASSUME IInv, NEW i \in Turn, NEW o \in Outcome \ {"pending"}, Marks(i, o), UNCHANGED <<file, data>>, GivesUpMore,
           trusted' \in {trusted, None},
           \/ Stopped([outcome |-> o])
           \/ run.plan[i].kind # "edit" /\ (run.plan[i].kind = "untrust" => ~TrustOwed')
    PROVE  IInv'
<1>1. i \in DOMAIN run.plan /\ run.plan[i].outcome = "pending"
  BY AtTurn DEF IInv
<1>2. Types'
  BY <1>1, Marked DEF IInv, Types, GivesUpMore
<1>5. (\A f \in File : Owed(f)' \subseteq Owed(f)) /\ (TrustOwed' => TrustOwed /\ trusted' = trusted)
  BY OwesNoMore
<1>3. Owns' /\ Evidence'
  BY <1>5 DEF IInv, Owns, Evidence, EvidenceOutlivesValues, HasConfig
<1>4. Covers'
  <2>1. CASE Stopped([outcome |-> o])
    BY <1>1, <1>5, <2>1, CoversStay
  <2>2. CASE run.plan[i].kind # "edit" /\ (run.plan[i].kind = "untrust" => ~TrustOwed')
    <3>1. \A f \in File, e \in Env : ~Frees(run.plan[i], f, e)
      BY <1>1, <2>2 DEF Frees, Stopped
    <3>2. Untrusts(run.plan[i]) => ~TrustOwed'
      BY <1>1, <2>2 DEF Untrusts, Stopped
    <3> QED BY <1>1, <1>5, <3>1, <3>2, CoversStay
  <2> QED BY <2>1, <2>2
<1> QED BY <1>2, <1>3, <1>4 DEF IInv

\* One step of the invariant for every kind of item.
LEMMA SkipStep == ASSUME IInv, NEW i \in Turn, Skip(i) PROVE IInv'
<1>1. Marks(i, "skipped") /\ UNCHANGED <<file, data, trusted>> /\ GivesUpMore
  BY GivesUpNothing DEF Skip, Ends, Marks, system, IInv
<1>2. Stopped([outcome |-> "skipped"]) /\ "skipped" \in Outcome \ {"pending"}
  BY DEF Stopped, Outcome
<1> QED BY <1>1, <1>2, MarkStep

\* Services, trust and programs hold no evidence.
LEMMA QuietStep == ASSUME IInv, NEW i \in Turn, Stop(i) \/ Untrust(i) \/ RemoveProgram(i) PROVE IInv'
<1>1. UNCHANGED <<file, data>> /\ trusted' \in {trusted, None}
  BY DEF Stop, Untrust, RemoveProgram
<1>2. "done" \in Outcome \ {"pending"} /\ "absent" \in Outcome \ {"pending"}
  BY DEF Outcome
<1>3. CASE Stop(i) \/ RemoveProgram(i)
  <2>1. Marks(i, "done") /\ GivesUpMore /\ run.plan[i].kind \notin {"edit", "untrust"}
    BY <1>3, GivesUpNothing DEF Stop, RemoveProgram, Ends, Marks, Due, IInv
  <2> QED BY <1>1, <1>2, <2>1, MarkStep
<1>4. CASE run.plan[i].kind = "untrust" /\ Marks(i, "done") /\ UNCHANGED given /\ trusted' = None
  <2>1. GivesUpMore /\ ~TrustOwed'
    BY <1>4, GivesUpNothing DEF TrustOwed, IInv
  <2> QED BY <1>1, <1>2, <1>4, <2>1, MarkStep
<1>5. CASE /\ run.plan[i].kind = "untrust" /\ Marks(i, "absent")
           /\ given' = [given EXCEPT !.areas = @ \cup {"certificates"}]
  <2>1. given \in GivenUp
    BY DEF IInv, Types
  <2>2. GivesUpMore /\ "certificates" \in given'.areas
    BY <1>5, <2>1 DEF GivesUpMore, GivenUp
  <2>3. ~TrustOwed'
    BY <2>2 DEF TrustOwed
  <2> QED BY <1>1, <1>2, <1>5, <2>2, <2>3, MarkStep
<1> QED BY <1>3, <1>4, <1>5 DEF Untrust, Due, Ends, Marks

\* An edit frees its file, or fails because the user was there first.
LEMMA EditStep == ASSUME IInv, NEW i \in Turn, Edit(i) PROVE IInv'
<1> DEFINE x == run.plan[i].of
<1>1. i \in DOMAIN run.plan /\ run.plan[i] \in PlanItem /\ run.plan[i].outcome = "pending"
  BY AtTurn DEF IInv
<1>2. run.plan[i].kind = "edit" /\ UNCHANGED <<data, trusted, given>> /\ GivesUpMore
  BY GivesUpNothing DEF Edit, Due, Ends, IInv
<1>3. x \in Rewrite
  BY <1>1, <1>2 DEF PlanItem, Step, Removal
<1>4. CASE Marks(i, "failed") /\ UNCHANGED file
  <2>1. Stopped([outcome |-> "failed"]) /\ "failed" \in Outcome \ {"pending"}
    BY DEF Stopped, Outcome
  <2> QED BY <1>2, <1>4, <2>1, MarkStep
<1>5. CASE Marks(i, "done") /\ file[x.file] = x.original /\ file' = [file EXCEPT ![x.file] = x.replacement]
  <2>1. x.file \in File /\ x.replacement \in FileState /\ x.replacement.values \subseteq x.original.values
    BY <1>3 DEF Rewrite
  <2>2. file'[x.file] = x.replacement /\ \A f \in File \ {x.file} : file'[f] = file[f]
    BY <1>5, <2>1 DEF IInv, Types
  <2>3. \A f \in File : file'[f].values \subseteq file[f].values
    BY <1>5, <2>1, <2>2
  <2>4. "done" \in Outcome \ {"pending"}
    BY DEF Outcome
  <2>5. Types'
    <3>1. file' \in [File -> FileState]
      BY <1>5, <2>1 DEF IInv, Types
    <3> QED BY <1>1, <1>2, <1>5, <2>4, <3>1, Marked DEF IInv, Types
  <2>8. (\A f \in File : Owed(f)' \subseteq Owed(f)) /\ (TrustOwed' => TrustOwed /\ trusted' = trusted)
    BY <1>2, <2>3, OwesNoMore
  <2>6. Owns' /\ Evidence'
    BY <1>2, <2>3, <2>8 DEF IInv, Owns, Evidence, EvidenceOutlivesValues, HasConfig
  <2>7. Covers'
    <3>1. ASSUME NEW f \in File, NEW e \in Env, Frees(run.plan[i], f, e) PROVE e \notin Owed(f)'
      <4>1. e \notin file'[f].values
        BY <1>1, <2>2, <3>1 DEF Frees, Stopped
      <4> QED BY <4>1 DEF Owed
    <3>2. ~Untrusts(run.plan[i])
      BY <1>1, <1>2 DEF Untrusts, Stopped
    <3> QED BY <1>1, <1>5, <2>4, <2>8, <3>1, <3>2, CoversStay
  <2> QED BY <2>5, <2>6, <2>7 DEF IInv
<1> QED BY <1>4, <1>5 DEF Edit, Ends, Marks, MayEdit

\* A step that marks an item and changes a directory, when the evidence there
\* proves nothing more.
LEMMA DataStep ==
    ASSUME IInv, NEW i \in Turn, NEW o \in Outcome \ {"pending"}, Marks(i, o), UNCHANGED <<file, trusted, given>>,
           data' \in [Env -> Directory],
           run.plan[i].kind \notin {"edit", "untrust"},
           \/ NothingOwed
           \/ \A e \in Env : data'[e].config = data[e].config /\ data'[e].rest = data[e].rest
    PROVE  IInv'
<1>1. i \in DOMAIN run.plan /\ run.plan[i].outcome = "pending"
  BY AtTurn DEF IInv
<1>2. Types'
  BY <1>1, Marked DEF IInv, Types
<1>3. Owns'
  BY DEF IInv, Owns
<1>6. (\A f \in File : Owed(f)' = Owed(f)) /\ TrustOwed' = TrustOwed
  BY DEF Owed, TrustOwed
<1>4. Evidence'
  <2>1. \A f \in File : \A e \in Owed(f) : e \in Env
    BY OwedValues DEF IInv
  <2>2. TrustOwed => trusted \in Env
    BY DEF IInv, Types, TrustOwed
  <2> QED BY <1>6, <2>1, <2>2 DEF IInv, Evidence, EvidenceOutlivesValues, HasConfig, NothingOwed
<1>5. Covers'
  <2>1. \A f \in File, e \in Env : ~Frees(run.plan[i], f, e)
    BY <1>1 DEF Frees, Stopped
  <2>2. ~Untrusts(run.plan[i])
    BY <1>1 DEF Untrusts, Stopped
  <2> QED BY <1>1, <1>6, <2>1, <2>2, CoversStay
<1> QED BY <1>2, <1>3, <1>4, <1>5 DEF IInv

\* The record is no evidence of what a file holds.
LEMMA RecordStep == ASSUME IInv, NEW i \in Turn, Record(i) PROVE IInv'
<1>1. Marks(i, "done") /\ UNCHANGED <<file, trusted, given>> /\ run.plan[i].kind = "record"
  BY DEF Record, Ends, Marks, Due
<1>2. data' = [data EXCEPT ![run.plan[i].of].record = TRUE] /\ "done" \in Outcome \ {"pending"}
  BY DEF Record, Outcome
<1>3. \A d \in Directory : [d EXCEPT !.record = TRUE] \in Directory
  BY DEF Directory
<1>4. data' \in [Env -> Directory]
  BY <1>2, <1>3 DEF IInv, Types
<1>5. \A e \in Env : data'[e].config = data[e].config /\ data'[e].rest = data[e].rest
  BY <1>2 DEF IInv, Types, Directory
<1> QED BY <1>1, <1>2, <1>4, <1>5, DataStep

\* Data is removed when nothing is left that it proves.
LEMMA RemoveDataStep == ASSUME IInv, NEW i \in Turn, RemoveData(i) PROVE IInv'
<1>1. ~Blocked(i) /\ run.plan[i].kind \in {"config", "rest", "tree"}
  BY DEF RemoveData, Due
<1>2. Marks(i, "done") /\ UNCHANGED <<file, trusted, given>> /\ "done" \in Outcome \ {"pending"}
  BY DEF RemoveData, Ends, Marks, Outcome
<1>3. NothingOwed
  BY <1>1, RemovalIsSafe
<1>4. \A d \in Directory : [d EXCEPT !.config = "none"] \in Directory /\ [d EXCEPT !.rest = FALSE] \in Directory
  BY DEF Directory
<1>5. Empty \in Directory
  BY DEF Empty, Directory
<1>6. data' \in [Env -> Directory]
  BY <1>4, <1>5 DEF RemoveData, IInv, Types
<1> QED BY <1>1, <1>2, <1>3, <1>6, DataStep

\* What a removal leaves behind is a directory.
LEMMA LeftoverIsDirectory == ASSUME NEW d \in Directory PROVE Leftover(d) \subseteq Directory
<1> SUFFICES ASSUME NEW left \in Leftover(d) PROVE left \in Directory
  OBVIOUS
<1>1. PICK c \in {d.config, "none"}, r \in {d.record, FALSE}, x \in {d.rest, FALSE} :
         left = [config |-> c, record |-> r, rest |-> x]
  BY DEF Leftover
<1>2. c \in {"saiai", "foreign", "none"} /\ r \in BOOLEAN /\ x \in BOOLEAN
  BY DEF Directory
<1> QED BY <1>1, <1>2 DEF Directory

\* An item fails, a tree half removed.
LEMMA FailStep == ASSUME IInv, NEW i \in Turn, Fail(i) PROVE IInv'
<1>1. Marks(i, "failed") /\ UNCHANGED <<file, trusted, given>> /\ GivesUpMore
  BY GivesUpNothing DEF Fail, Ends, Marks, IInv
<1>2. "failed" \in Outcome \ {"pending"} /\ Stopped([outcome |-> "failed"])
  BY DEF Outcome, Stopped
<1>3. CASE run.plan[i].kind # "tree"
  BY <1>1, <1>2, <1>3, MarkStep DEF Fail
<1>4. CASE run.plan[i].kind = "tree"
  <2>1. NothingOwed
    BY <1>4, RemovalIsSafe DEF Fail
  <2>2. run.plan[i] \in PlanItem
    BY AtTurn DEF IInv
  <2>3. run.plan[i].of \in Env
    BY <1>4, <2>2 DEF PlanItem, Step, Removal
  <2>4. PICK left \in Leftover(data[run.plan[i].of]) : data' = [data EXCEPT ![run.plan[i].of] = left]
    BY <1>4 DEF Fail
  <2>5. data' \in [Env -> Directory]
    BY <2>3, <2>4, LeftoverIsDirectory DEF IInv, Types
  <2> QED BY <1>1, <1>2, <1>4, <2>1, <2>5, DataStep
<1> QED BY <1>3, <1>4

\* A run that ends, whatever a removal leaves behind.
LEMMA CrashStep == ASSUME IInv, Crash PROVE IInv'
<1>1. run' = Idle /\ UNCHANGED <<file, trusted, given>>
  BY DEF Crash
<1>2. \/ data' = data
      \/ NothingOwed /\ data' \in [Env -> Directory]
  <2> SUFFICES ASSUME NEW i \in Turn, Due(i, "tree"), NEW left \in Leftover(data[run.plan[i].of]),
                      data' = [data EXCEPT ![run.plan[i].of] = left]
               PROVE  NothingOwed /\ data' \in [Env -> Directory]
    BY DEF Crash
  <2>1. NothingOwed
    BY RemovalIsSafe DEF Due
  <2>2. run.plan[i] \in PlanItem
    BY AtTurn DEF IInv
  <2>3. run.plan[i].of \in Env
    BY <2>2 DEF PlanItem, Step, Removal, Due
  <2>4. data' \in [Env -> Directory]
    BY <2>3, LeftoverIsDirectory DEF IInv, Types
  <2> QED BY <2>1, <2>4
<1>3. Types' /\ DOMAIN run'.plan = {}
  <2>1. Idle \in [pc : {"idle", "planned", "execute"}, plan : Seq(PlanItem)] /\ DOMAIN Idle.plan = {}
    BY DEF Idle
  <2> QED BY <1>1, <1>2, <2>1 DEF IInv, Types
<1>4. Owns' /\ Evidence'
  <2>1. (\A f \in File : Owed(f)' = Owed(f)) /\ TrustOwed' = TrustOwed
    BY <1>1 DEF Owed, TrustOwed
  <2> QED BY <1>1, <1>2, <2>1 DEF IInv, Owns, Evidence, EvidenceOutlivesValues, HasConfig, NothingOwed
<1>5. Covers'
  BY <1>3 DEF Covers
<1> QED BY <1>3, <1>4, <1>5 DEF IInv

\* The uninstaller asks, goes on or ends.
LEMMA RestStep == ASSUME IInv, Cancel \/ Confirm \/ Finish \/ UNCHANGED vars PROVE IInv'
<1>1. UNCHANGED <<file, data, trusted, given>>
  BY DEF Cancel, Confirm, Finish, vars, system
<1>2. CASE run' = Idle
  <2>1. Idle \in [pc : {"idle", "planned", "execute"}, plan : Seq(PlanItem)] /\ DOMAIN Idle.plan = {}
    BY DEF Idle
  <2>2. Types' /\ Owns' /\ Evidence'
    BY <1>1, <1>2, <2>1 DEF IInv, Types, Owns, Evidence, EvidenceOutlivesValues, HasConfig, Owed, TrustOwed
  <2>3. Covers'
    BY <1>2, <2>1 DEF Covers
  <2> QED BY <2>2, <2>3 DEF IInv
<1>3. CASE run' = [run EXCEPT !.pc = "execute"] \/ run' = run
  <2>1. run' \in [pc : {"idle", "planned", "execute"}, plan : Seq(PlanItem)] /\ run'.plan = run.plan
    BY <1>3 DEF IInv, Types
  <2>2. Types' /\ Owns' /\ Evidence'
    BY <1>1, <2>1 DEF IInv, Types, Owns, Evidence, EvidenceOutlivesValues, HasConfig, Owed, TrustOwed
  <2>3. Covers'
    BY <1>1, <2>1 DEF IInv, Covers, Covered, Owed, TrustOwed
  <2> QED BY <2>2, <2>3 DEF IInv
<1> QED BY <1>2, <1>3 DEF Cancel, Confirm, Finish, vars

\* An edit of the user's.
LEMMA AnEdit ==
    ASSUME Types, NEW f \in File, EditFile(f)
    PROVE  \E values \in {file[f].values, {}}, form \in Form :
              file' = [file EXCEPT ![f] = [values |-> values, revision |-> file[f].revision + 1, form |-> form]]
<1>1. PICK change : file' = [file EXCEPT ![f] = [values   |-> IF change = "remove" THEN {} ELSE @.values,
                                                 revision |-> @.revision + 1,
                                                 form |-> CASE change = "break" -> "broken"
                                                            [] change = "garble" -> "garbled"
                                                            [] OTHER -> "good"]]
  BY Zenon DEF EditFile
<1> DEFINE form == CASE change = "break" -> "broken" [] change = "garble" -> "garbled" [] OTHER -> "good"
           values == IF change = "remove" THEN {} ELSE file[f].values
<1>2. form \in Form
  BY DEF Form
<1>3. values \in {file[f].values, {}}
  OBVIOUS
<1>4. file' = [file EXCEPT ![f] = [values |-> values, revision |-> file[f].revision + 1, form |-> form]]
  BY <1>1 DEF Types
<1> HIDE DEF form, values
<1> QED BY <1>2, <1>3, <1>4

\* The user takes values out, or puts none in.
LEMMA UserStep == ASSUME IInv, NEW f \in File, EditFile(f) \/ Repair(f) PROVE IInv'
<1>1. UNCHANGED <<data, trusted, run, given>> /\ GivesUpMore
  BY GivesUpNothing DEF EditFile, Repair, IInv
<1>2. file[f] \in FileState
  BY DEF IInv, Types
<1>3. PICK s \in FileState : file' = [file EXCEPT ![f] = s] /\ s.values \subseteq file[f].values
  <2>1. CASE EditFile(f)
    <3>1. PICK values \in {file[f].values, {}}, form \in Form :
             file' = [file EXCEPT ![f] = [values |-> values, revision |-> file[f].revision + 1, form |-> form]]
      BY <2>1, AnEdit DEF IInv
    <3> DEFINE s == [values |-> values, revision |-> file[f].revision + 1, form |-> form]
    <3>2. s \in FileState /\ s.values \subseteq file[f].values
      BY <1>2 DEF FileState
    <3> QED BY <3>1, <3>2
  <2>2. CASE Repair(f)
    <3> DEFINE s == [file[f] EXCEPT !.form = "good"]
    <3>1. s \in FileState /\ s.values \subseteq file[f].values
      BY <1>2 DEF FileState, Form
    <3>2. file' = [file EXCEPT ![f] = s]
      BY <2>2 DEF Repair, IInv, Types
    <3> QED BY <3>1, <3>2
  <2> QED BY <2>1, <2>2
<1>4. file' \in [File -> FileState] /\ \A g \in File : file'[g].values \subseteq file[g].values
  BY <1>2, <1>3 DEF IInv, Types
<1>7. (\A g \in File : Owed(g)' \subseteq Owed(g)) /\ (TrustOwed' => TrustOwed)
  BY <1>1, <1>4, OwesNoMore
<1>5. Types' /\ Owns' /\ Evidence'
  <2>1. Types' /\ Owns'
    BY <1>1, <1>4 DEF IInv, Types, Owns
  <2>2. Evidence'
    BY <1>1, <1>7 DEF IInv, Evidence, EvidenceOutlivesValues, HasConfig
  <2> QED BY <2>1, <2>2
<1>6. Covers'
  BY <1>1, <1>7 DEF IInv, Covers, Covered
<1> QED BY <1>5, <1>6 DEF IInv

\* Every layout init leaves.
LEMMA InitInv == ASSUME UninstallAssumption, Init PROVE IInv
<1> DEFINE Values == {{}} \cup {{e} : e \in Env}
           Foreign == [config |-> "foreign", record |-> FALSE, rest |-> FALSE]
           Setup == [config : {"saiai"}, record : BOOLEAN, rest : {TRUE}]
<1>1. file \in [File -> FileState]
  <2>1. Values \subseteq SUBSET Env
    OBVIOUS
  <2>2. file \in [File -> [values : Values, revision : {0}, form : {"good"}]]
    BY DEF Init
  <2> HIDE DEF Values
  <2>3. ASSUME NEW x \in [values : Values, revision : {0}, form : {"good"}] PROVE x \in FileState
    <3>1. x = [values |-> x.values, revision |-> x.revision, form |-> x.form]
      OBVIOUS
    <3>2. x.values \in SUBSET Env /\ x.revision \in Nat
      BY <2>1
    <3>3. x.form \in Form
      BY DEF Form
    <3> QED BY <3>1, <3>2, <3>3 DEF FileState
  <2> QED BY <2>2, <2>3
<1>2. Empty \in Directory /\ Foreign \in Directory /\ \A x \in Setup : x \in Directory
  BY DEF Empty, Directory
<1>8. Empty.config # "saiai" /\ Foreign.config # "saiai" /\ \A x \in Setup : x.rest
  BY DEF Empty
<1>7. \A e \in Env : data[e] = Empty \/ data[e] = Foreign \/ data[e] \in Setup
  BY DEF Init
<1>9. data \in [Env -> Directory]
  <2>1. data = [e \in Env |-> data[e]]
    BY DEF Init
  <2> HIDE DEF Foreign, Setup
  <2> QED BY <1>2, <1>7, <2>1
<1>3. run \in [pc : {"idle", "planned", "execute"}, plan : Seq(PlanItem)] /\ DOMAIN run.plan = {} /\ given \in GivenUp
  BY DEF Init, Idle, GivenUp
<1>10. trusted \in Env \cup {None}
  BY DEF Init
<1>4. Owns
  BY DEF Init, Owns
<1>5. \A e \in Env : HasConfig(e) => data[e].rest
  <2> HIDE DEF Foreign, Setup
  <2> QED BY <1>7, <1>8 DEF HasConfig
<1>6. Evidence
  <2>1. \A f \in File : \A e \in Owed(f) : HasConfig(e)
    BY OwedValues, <1>1, <1>9, <1>3, <1>10 DEF Init, Types
  <2>2. TrustOwed => data[trusted].rest
    BY <1>5 DEF Init, TrustOwed
  <2> QED BY <2>1, <2>2 DEF Evidence, EvidenceOutlivesValues
<1> QED BY <1>1, <1>9, <1>3, <1>10, <1>4, <1>6 DEF IInv, Types, Covers
-----------------------------------------------------------------------------
(* The plan *)

\* An item and a note.
LEMMA OneItem ==
    ASSUME NEW area \in Area, NEW kind \in {"stop", "record", "untrust", "program", "note"},
           NEW of \in Env \cup File \cup Program, NEW outcome \in Outcome
    PROVE  /\ Item(area, kind, of) \in Step
           /\ Note(area, of, outcome) \in Step /\ Note(area, of, outcome).outcome = outcome
BY DEF Item, Note, Step, Outcome

\* Of a file that holds values SAIAI is known to have written, the plan has an
\* item that takes them out, or one that failed.
LEMMA EditPlan ==
    ASSUME Types, NEW area \in Area, NEW f \in File, NEW written
    PROVE  /\ PlanEdit(area, f, written) \in Seq(Step)
           /\ \A e \in file[f].values \cap written : \E x \in ToSet(PlanEdit(area, f, written)) : Frees(x, f, e)
<1> DEFINE r == [file[f] EXCEPT !.values = @ \ written]
           c == [file |-> f, original |-> file[f], replacement |-> r]
           x == [Item(area, "edit", f) EXCEPT !.of = c]
<1>1. file[f] \in FileState
  BY DEF Types
<1>2. r \in FileState /\ r.values = file[f].values \ written /\ r.revision = file[f].revision
  BY <1>1 DEF FileState
<1>3. c \in Rewrite /\ c.file = f /\ c.replacement = r
  <2> HIDE DEF r
  <2>1. c \in [file : File, original : FileState, replacement : FileState]
    BY <1>1, <1>2
  <2> QED BY <1>2, <2>1 DEF Rewrite
<1>4. x.of = c /\ x.kind = "edit" /\ x.outcome = "pending" /\ x \in Step
  <2> HIDE DEF c
  <2> QED BY <1>3 DEF Item, Step, Outcome
<1>5. CASE file[f].form # "good"
  <2>1. PlanEdit(area, f, written) = <<Note(area, f, "failed")>>
    BY <1>5 DEF PlanEdit
  <2>2. Note(area, f, "failed") \in Step /\ Stopped(Note(area, f, "failed"))
    BY OneItem DEF Outcome, Stopped
  <2> HIDE DEF x
  <2>3. Note(area, f, "failed") \in ToSet(PlanEdit(area, f, written)) /\ PlanEdit(area, f, written) \in Seq(Step)
    BY <2>1, <2>2 DEF ToSet
  <2> QED BY <2>2, <2>3 DEF Frees
<1>6. CASE file[f].form = "good" /\ file[f].values \cap written = {}
  <2>1. PlanEdit(area, f, written) = <<>>
    BY <1>6 DEF PlanEdit
  <2> QED BY <1>6, <2>1
<1>7. CASE file[f].form = "good" /\ file[f].values \cap written # {}
  <2>1. PlanEdit(area, f, written) = <<x>>
    BY <1>7 DEF PlanEdit
  <2>2. \A e \in written : Frees(x, f, e)
    BY <1>2, <1>3, <1>4 DEF Frees
  <2> HIDE DEF x
  <2>3. x \in ToSet(<<x>>) /\ <<x>> \in Seq(Step)
    BY <1>4 DEF ToSet
  <2> QED BY <2>1, <2>2, <2>3
<1> QED BY <1>5, <1>6, <1>7

\* The plan for one product directory.
OfProduct(variable, f) ==
    (IF f[1] = "claude" THEN PlanClaude(f) ELSE PlanCodex(f)) \o PlanRecord(variable, f[2])

\* The clients' files are finitely many files of environments.
LEMMA ClientFiles ==
    ASSUME UninstallAssumption
    PROVE  /\ IsFiniteSet(ClientFile)
           /\ \A f \in ClientFile : f \in File /\ f[2] \in Env
<1> DEFINE P == {"claude", "codex"}
<1>1. \A f \in ClientFile : f \in File /\ f[2] \in Env /\ f \in P \X Env
  BY DEF ClientFile, File, UninstallAssumption, Isolated
<1>2. IsFiniteSet(P)
  <2>1. P = {"claude"} \cup {"codex"}
    OBVIOUS
  <2>2. IsFiniteSet({"claude"}) /\ IsFiniteSet({"codex"})
    BY FS_Singleton
  <2>3. IsFiniteSet({"claude"} \cup {"codex"})
    BY <2>2, FS_Union
  <2> QED BY <2>1, <2>3
<1>3. IsFiniteSet(P \X Env)
  <2> HIDE DEF P
  <2> QED BY <1>2, FS_Product DEF UninstallAssumption
<1>4. ClientFile \in SUBSET (P \X Env)
  BY <1>1
<1> HIDE DEF P
<1>5. IsFiniteSet(ClientFile)
  BY <1>3, <1>4, FS_Subset
<1> QED BY <1>1, <1>5

\* It has an item for the values of the directory's environment.
LEMMA ProductPlan ==
    ASSUME UninstallAssumption, Types, NEW variable \in Isolated \cup {None}, NEW f \in ClientFile
    PROVE  /\ OfProduct(variable, f) \in Seq(Step)
           /\ f[2] \in file[f].values /\ HasConfig(f[2]) => \E x \in ToSet(OfProduct(variable, f)) : Frees(x, f, f[2])
<1> DEFINE s == IF f[1] = "claude" THEN PlanClaude(f) ELSE PlanCodex(f)
           t == PlanRecord(variable, f[2])
<1>1. f \in File /\ f[2] \in Env /\ "product" \in Area
  BY ClientFiles DEF Area
<1>2. /\ s \in Seq(Step)
      /\ f[2] \in file[f].values /\ HasConfig(f[2]) => \E x \in ToSet(s) : Frees(x, f, f[2])
  <2>1. CASE f[1] = "claude"
    <3>1. s = PlanEdit("product", f, ClaudeWritten(f[2])) /\ (HasConfig(f[2]) => f[2] \in ClaudeWritten(f[2]))
      BY <1>1, <2>1 DEF PlanClaude, ClaudeWritten
    <3> HIDE DEF s
    <3> QED BY <1>1, <3>1, EditPlan
  <2>2. CASE f[1] # "claude"
    <3>1. s = PlanEdit("product", f, Env)
      BY <2>2 DEF PlanCodex
    <3> HIDE DEF s
    <3> QED BY <1>1, <3>1, EditPlan
  <2> QED BY <2>1, <2>2
<1>3. t \in Seq(Step)
  <2>1. CASE t = <<>>
    BY <2>1
  <2>2. CASE t = <<Item("product", "record", f[2])>>
    <3>1. Item("product", "record", f[2]) \in Step
      BY <1>1, OneItem DEF Outcome
    <3> QED BY <2>2, <3>1
  <2> QED BY <2>1, <2>2 DEF PlanRecord
<1>4. OfProduct(variable, f) = s \o t
  BY DEF OfProduct
<1> HIDE DEF s, t
<1>5. s \o t \in Seq(Step) /\ ToSet(s \o t) = ToSet(s) \cup ToSet(t)
  BY <1>2, <1>3, Concatenated
<1> QED BY <1>2, <1>4, <1>5

\* Every known product directory gets its plan.
LEMMA ProductDirectories ==
    ASSUME UninstallAssumption, NEW variable \in Isolated \cup {None}
    PROVE  /\ ProductDirs(variable) \in Seq(ClientFile)
           /\ {f \in ClientFile : f[2] \in Known(variable)} \subseteq ToSet(ProductDirs(variable))
<1> DEFINE one(f) == IF f \in ClientFile THEN <<f>> ELSE <<>>
           first == one(<<"claude", Default>>) \o one(<<"claude", variable>>)
                    \o one(<<"codex", Default>>) \o one(<<"codex", variable>>)
           rest == {f \in ClientFile : f[2] \in Known(variable)} \ ToSet(first)
<1>1. \A f : one(f) \in Seq(ClientFile)
  OBVIOUS
<1>2. first \in Seq(ClientFile)
  <2> HIDE DEF one
  <2> QED BY <1>1
<1>3. ProductDirs(variable) = first \o SetToSeq(rest)
  BY DEF ProductDirs, Items
<1> HIDE DEF first
<1>4. rest \in SUBSET ClientFile
  OBVIOUS
<1>5. SetToSeq(rest) \in Seq(rest) /\ ToSet(SetToSeq(rest)) = rest
  <2> HIDE DEF rest
  <2>1. IsFiniteSet(rest)
    BY <1>4, ClientFiles, FS_Subset
  <2> QED BY <2>1, SeqOfSet
<1>6. SetToSeq(rest) \in Seq(ClientFile)
  <2> HIDE DEF rest
  <2> QED BY <1>4, <1>5
<1> HIDE DEF rest
<1>7. ProductDirs(variable) \in Seq(ClientFile) /\ ToSet(ProductDirs(variable)) = ToSet(first) \cup rest
  BY <1>2, <1>3, <1>5, <1>6, Concatenated
<1> QED BY <1>7 DEF rest

\* So the values of every known directory have their item.
LEMMA ProductsPlan ==
    ASSUME UninstallAssumption, Types, NEW variable \in Isolated \cup {None}
    PROVE  /\ PlanProducts(variable) \in Seq(Step)
           /\ \A f \in ClientFile : f[2] \in Known(variable) /\ f[2] \in file[f].values /\ HasConfig(f[2])
                 => \E x \in ToSet(PlanProducts(variable)) : Frees(x, f, f[2])
<1> DEFINE dirs == ProductDirs(variable)
           ss == [i \in DOMAIN dirs |-> OfProduct(variable, dirs[i])]
<1>1. dirs \in Seq(ClientFile) /\ \A f \in ClientFile : f[2] \in Known(variable) => f \in ToSet(dirs)
  BY ProductDirectories
<1>2. PlanProducts(variable) = FlattenSeq(ss)
  BY DEF PlanProducts, OfProduct
<1> HIDE DEF dirs
<1>3. ss \in Seq(Seq(Step))
  <2>1. DOMAIN dirs = 1 .. Len(dirs) /\ Len(dirs) \in Nat /\ \A i \in DOMAIN dirs : dirs[i] \in ClientFile
    BY <1>1
  <2>2. \A i \in DOMAIN dirs : OfProduct(variable, dirs[i]) \in Seq(Step)
    BY <2>1, ProductPlan
  <2> QED BY <2>1, <2>2
<1>4. DOMAIN ss = DOMAIN dirs /\ \A i \in DOMAIN dirs : ss[i] = OfProduct(variable, dirs[i])
  OBVIOUS
<1> HIDE DEF ss
<1>5. FlattenSeq(ss) \in Seq(Step) /\ ToSet(FlattenSeq(ss)) = UNION {ToSet(ss[i]) : i \in DOMAIN ss}
  BY <1>3, Flattened
<1>6. ASSUME NEW f \in ClientFile, f[2] \in Known(variable), f[2] \in file[f].values, HasConfig(f[2])
      PROVE  \E x \in ToSet(FlattenSeq(ss)) : Frees(x, f, f[2])
  <2>1. PICK i \in DOMAIN dirs : dirs[i] = f
    BY <1>1, <1>6 DEF ToSet
  <2>2. PICK x \in ToSet(ss[i]) : Frees(x, f, f[2])
    BY <1>4, <1>6, <2>1, ProductPlan
  <2> QED BY <1>4, <1>5, <2>1, <2>2
<1> QED BY <1>2, <1>5, <1>6

\* A list of items of one kind.
LEMMA ItemList ==
    ASSUME UninstallAssumption, NEW X, NEW S \in SUBSET Env, NEW g \in [S -> X]
    PROVE  /\ SetToSeq({g[e] : e \in S}) \in Seq(X)
           /\ ToSet(SetToSeq({g[e] : e \in S})) = {g[e] : e \in S}
<1>1. IsFiniteSet(S)
  BY FS_Subset DEF UninstallAssumption
<1> QED BY <1>1, ItemsOf

\* The items of the services.
LEMMA ServicesPlan == ASSUME UninstallAssumption PROVE PlanServices \in Seq(Step)
<1> DEFINE S == running \cap Instances
           g == [e \in S |-> Item("services", "stop", e)]
<1>1. S \in SUBSET Env
  BY DEF Instances
<1>2. g \in [S -> Step]
  <2>1. \A e \in S : Item("services", "stop", e) \in Step
    BY <1>1, OneItem DEF Area, Outcome
  <2> QED BY <2>1
<1>3. PlanServices = SetToSeq({g[e] : e \in S})
  BY DEF PlanServices, Items
<1> HIDE DEF S, g
<1> QED BY <1>1, <1>2, <1>3, ItemList

\* An unknown project ends all removals unless it is given up.
LEMMA UnknownPlan ==
    ASSUME UninstallAssumption, NEW variable, NEW forget \in BOOLEAN
    PROVE  /\ PlanUnknown(variable, forget) \in Seq(Step)
           /\ ~forget => \A e \in Unknown(variable) : \E x \in ToSet(PlanUnknown(variable, forget)) : Stopped(x)
<1> DEFINE S == Unknown(variable)
           o == UnknownOutcome(forget)
           g == [e \in S |-> Note("product", e, o)]
<1>1. S \in SUBSET Env
  BY DEF Unknown, Isolated
<1>2. o \in Outcome /\ (~forget => o = "failed")
  BY DEF UnknownOutcome, Outcome
<1>3. PlanUnknown(variable, forget) = SetToSeq({g[e] : e \in S})
  BY DEF PlanUnknown, Items
<1> HIDE DEF o
<1>4. \A e \in S : Note("product", e, o) \in Step /\ Note("product", e, o).outcome = o
  BY <1>1, <1>2, OneItem DEF Area
<1>5. g \in [S -> Step]
  BY <1>4
<1>8. \A e \in S : g[e].outcome = o
  BY <1>4
<1> HIDE DEF S, g
<1>6. /\ PlanUnknown(variable, forget) \in Seq(Step)
      /\ ToSet(PlanUnknown(variable, forget)) = {g[e] : e \in S}
  <2>1. IsFiniteSet(S)
    BY <1>1, FS_Subset DEF UninstallAssumption
  <2>2. /\ SetToSeq({g[e] : e \in S}) \in Seq(Step)
        /\ ToSet(SetToSeq({g[e] : e \in S})) = {g[e] : e \in S}
    BY <1>5, <2>1, ItemsOf
  <2> QED BY <1>3, <2>2
<1>7. ASSUME ~forget, NEW e \in S PROVE \E x \in ToSet(PlanUnknown(variable, forget)) : Stopped(x)
  <2>1. g[e] \in ToSet(PlanUnknown(variable, forget)) /\ Stopped(g[e])
    BY <1>2, <1>6, <1>7, <1>8 DEF Stopped
  <2> QED BY <2>1
<1> QED BY <1>6, <1>7 DEF S

\* The values in VS Code's settings have their item, unless they are passed over.
LEMMA VSCodePlan ==
    ASSUME Types
    PROVE  /\ PlanVSCode \in Seq(Step)
           /\ file[VSCode].form # "garbled" =>
                \A e \in file[VSCode].values : e \in Env /\ HasConfig(e) => \E x \in ToSet(PlanVSCode) : Frees(x, VSCode, e)
<1>1. VSCode \in File /\ "vscode" \in Area
  BY DEF File, Area
<1> DEFINE W == {e \in Env : HasConfig(e)}
<1>2. PlanVSCode = IF file[VSCode].form = "garbled" THEN <<>> ELSE PlanEdit("vscode", VSCode, W)
  BY DEF PlanVSCode
<1>3. \A e \in Env : HasConfig(e) => e \in W
  OBVIOUS
<1> HIDE DEF W
<1>4. CASE file[VSCode].form = "garbled"
  BY <1>2, <1>4
<1>5. CASE file[VSCode].form # "garbled"
  <2>1. PlanVSCode = PlanEdit("vscode", VSCode, W)
    BY <1>2, <1>5
  <2> QED BY <1>1, <1>3, <2>1, EditPlan
<1> QED BY <1>4, <1>5

\* So has a CA that is trusted and there, unless certutil fails.
LEMMA CertificatesPlan ==
    ASSUME Types, Evidence, NEW blind \in BOOLEAN
    PROVE  /\ PlanCertificates(blind) \in Seq(Step)
           /\ TrustOwed /\ ~blind => \E x \in ToSet(PlanCertificates(blind)) : Untrusts(x)
<1> DEFINE x == Item("certificates", "untrust", trusted)
<1>1. CASE ~blind /\ trusted # None /\ data[trusted].rest
  <2>1. trusted \in Env
    BY <1>1 DEF Types
  <2>2. x \in Step
    BY <2>1, OneItem DEF Area, Outcome
  <2>3. Untrusts(x)
    BY DEF Item, Untrusts
  <2>4. PlanCertificates(blind) = <<x>>
    BY <1>1 DEF PlanCertificates
  <2> HIDE DEF x
  <2>5. <<x>> \in Seq(Step) /\ x \in ToSet(<<x>>)
    BY <2>2 DEF ToSet
  <2> QED BY <2>3, <2>4, <2>5
<1>2. CASE ~(~blind /\ trusted # None /\ data[trusted].rest)
  <2>1. PlanCertificates(blind) = <<>>
    BY <1>2 DEF PlanCertificates
  <2>2. ~(TrustOwed /\ ~blind)
    BY <1>2 DEF Evidence, EvidenceOutlivesValues, TrustOwed
  <2> QED BY <2>1, <2>2
<1> QED BY <1>1, <1>2

\* Only the data has items that remove data.
LEMMA DataPlan == ASSUME UninstallAssumption PROVE PlanData \in Seq(PlanItem)
<1> DEFINE c == IF HasConfig(Default) THEN <<Item("data", "config", Default)>> ELSE <<>>
           r == IF data[Default].rest THEN <<Item("data", "rest", Default)>> ELSE <<>>
           T == {e \in Isolated \cap Instances : Owned(e)}
           N == {e \in Isolated \cap Instances : ~Owned(e)}
           t == [e \in T |-> Item("data", "tree", e)]
           n == [e \in N |-> Note("data", e, "kept")]
<1>1. \A kind \in {"config", "rest", "tree"}, e \in Env : Item("data", kind, e) \in PlanItem
  BY DEF Item, PlanItem, Removal, Outcome
<1>2. \A e \in Env : Note("data", e, "kept") \in PlanItem
  BY OneItem DEF Area, Outcome, PlanItem
<1>3. c \in Seq(PlanItem) /\ r \in Seq(PlanItem)
  <2>1. Item("data", "config", Default) \in PlanItem /\ Item("data", "rest", Default) \in PlanItem
    BY <1>1 DEF UninstallAssumption
  <2> QED BY <2>1
<1>4. SetToSeq({t[e] : e \in T}) \in Seq(PlanItem)
  <2>1. T \in SUBSET Env
    BY DEF Isolated
  <2>2. t \in [T -> PlanItem]
    BY <1>1, <2>1
  <2> HIDE DEF T, t
  <2> QED BY <2>1, <2>2, ItemList
<1>5. SetToSeq({n[e] : e \in N}) \in Seq(PlanItem)
  <2>1. N \in SUBSET Env
    BY DEF Isolated
  <2>2. n \in [N -> PlanItem]
    BY <1>2, <2>1
  <2> HIDE DEF N, n
  <2> QED BY <2>1, <2>2, ItemList
<1>6. PlanData = ((c \o r) \o SetToSeq({t[e] : e \in T})) \o SetToSeq({n[e] : e \in N})
  BY DEF PlanData, Items
<1> HIDE DEF c, r, t, n, T, N
<1> QED BY <1>3, <1>4, <1>5, <1>6

\* The items of the program.
LEMMA ProgramPlan == ASSUME program \subseteq Program PROVE PlanProgram \in Seq(Step)
<1> DEFINE A == program \ {"main"}
           M == program \cap {"main"}
           a == [x \in A |-> Item("program", "program", x)]
           m == [x \in M |-> Item("program", "program", x)]
<1>1. IsFiniteSet({"auxiliary"}) /\ IsFiniteSet({"main"})
  BY FS_Singleton
<1>2. IsFiniteSet(A) /\ IsFiniteSet(M)
  <2>1. A \in SUBSET {"auxiliary"} /\ M \in SUBSET {"main"}
    BY DEF Program
  <2> HIDE DEF A, M
  <2> QED BY <1>1, <2>1, FS_Subset
<1>3. \A x \in Program : Item("program", "program", x) \in Step
  BY OneItem DEF Area, Outcome
<1>4. a \in [A -> Step] /\ m \in [M -> Step]
  BY <1>3
<1>5. PlanProgram = SetToSeq({a[x] : x \in A}) \o SetToSeq({m[x] : x \in M})
  BY DEF PlanProgram, Items
<1> HIDE DEF A, M, a, m
<1>6. SetToSeq({a[x] : x \in A}) \in Seq(Step) /\ SetToSeq({m[x] : x \in M}) \in Seq(Step)
  BY <1>2, <1>4, ItemsOf
<1> QED BY <1>5, <1>6, Concatenated

\* What comes before the data.
BeforeData(variable, forget, blind) ==
    PlanServices \o PlanProducts(variable) \o PlanUnknown(variable, forget) \o PlanVSCode \o PlanCertificates(blind)

\* It is all there, and removes no data.
LEMMA EarlyPlan ==
    ASSUME UninstallAssumption, Types, Evidence, NEW variable \in Isolated \cup {None}, NEW forget \in BOOLEAN,
           NEW blind \in BOOLEAN
    PROVE  /\ BeforeData(variable, forget, blind) \in Seq(Step)
           /\ ToSet(PlanProducts(variable)) \cup ToSet(PlanUnknown(variable, forget))
              \cup ToSet(PlanVSCode) \cup ToSet(PlanCertificates(blind)) \subseteq ToSet(BeforeData(variable, forget, blind))
<1> DEFINE a == PlanServices \o PlanProducts(variable)
           b == a \o PlanUnknown(variable, forget)
           c == b \o PlanVSCode
<1>1. a \in Seq(Step) /\ ToSet(a) = ToSet(PlanServices) \cup ToSet(PlanProducts(variable))
  BY ServicesPlan, ProductsPlan, Concatenated
<1>2. b \in Seq(Step) /\ ToSet(b) = ToSet(a) \cup ToSet(PlanUnknown(variable, forget))
  <2> HIDE DEF a
  <2> QED BY <1>1, UnknownPlan, Concatenated
<1>3. c \in Seq(Step) /\ ToSet(c) = ToSet(b) \cup ToSet(PlanVSCode)
  <2> HIDE DEF b
  <2> QED BY <1>2, VSCodePlan, Concatenated
<1>4. BeforeData(variable, forget, blind) = c \o PlanCertificates(blind)
  BY DEF BeforeData
<1> HIDE DEF c
<1>5. /\ c \o PlanCertificates(blind) \in Seq(Step)
      /\ ToSet(c \o PlanCertificates(blind)) = ToSet(c) \cup ToSet(PlanCertificates(blind))
  BY <1>3, CertificatesPlan, Concatenated
<1> HIDE DEF a, b
<1> QED BY <1>1, <1>2, <1>3, <1>4, <1>5

\* The plan frees every file from every value that is not given up.
LEMMA EarlyPlanFrees ==
    ASSUME UninstallAssumption, IInv, NEW variable \in Isolated \cup {None}, NEW forget \in BOOLEAN,
           NEW blind \in BOOLEAN, NEW f \in File, NEW e \in Owed(f),
           forget => e \notin Unknown(variable), f = VSCode => file[VSCode].form # "garbled"
    PROVE  \E x \in ToSet(BeforeData(variable, forget, blind)) : Frees(x, f, e)
<1>1. e \in file[f].values /\ e \in Env /\ HasConfig(e) /\ (f = VSCode \/ e = f[2])
  BY OwedValues DEF IInv, Evidence, EvidenceOutlivesValues, Owns
<1>2. CASE f = VSCode
  <2>1. PICK x \in ToSet(PlanVSCode) : Frees(x, f, e)
    BY <1>1, <1>2, VSCodePlan DEF IInv
  <2> QED BY <2>1, EarlyPlan DEF IInv
<1>3. CASE f # VSCode /\ e \in Known(variable)
  <2>1. f \in ClientFile /\ e = f[2]
    BY <1>1, <1>3 DEF File
  <2>2. PICK x \in ToSet(PlanProducts(variable)) : Frees(x, f, e)
    BY <1>1, <1>3, <2>1, ProductsPlan DEF IInv
  <2> QED BY <2>2, EarlyPlan DEF IInv
<1>4. CASE e \notin Known(variable)
  <2>1. e \in Unknown(variable)
    BY <1>1, <1>4 DEF Unknown, Known, Isolated
  <2>2. PICK x \in ToSet(PlanUnknown(variable, forget)) : Stopped(x)
    BY <2>1, UnknownPlan
  <2>3. Frees(x, f, e)
    BY <2>2 DEF Frees
  <2> QED BY <2>2, <2>3, EarlyPlan DEF IInv
<1> QED BY <1>2, <1>3, <1>4

\* In the plan, what comes before the data comes before every removal.
LEMMA PlanOrder ==
    ASSUME UninstallAssumption, Types, Evidence, program \subseteq Program,
           NEW variable \in Isolated \cup {None}, NEW forget \in BOOLEAN, NEW blind \in BOOLEAN,
           NEW p, p = BuildPlan(variable, forget, blind)
    PROVE  /\ p \in Seq(PlanItem)
           /\ \A i \in DOMAIN p : Removes(p[i]) =>
                \A x \in ToSet(BeforeData(variable, forget, blind)) : \E j \in 1 .. i - 1 : p[j] = x
<1> DEFINE s == BeforeData(variable, forget, blind)
           t == s \o PlanData
<1>1. p = t \o PlanProgram
  BY DEF BuildPlan, BeforeData
<1>2. \A q \in Seq(Step) : q \in Seq(PlanItem)
  <2>1. Step \subseteq PlanItem
    BY DEF PlanItem
  <2> HIDE DEF s
  <2> QED BY <2>1
<1>3. s \in Seq(Step) /\ s \in Seq(PlanItem) /\ PlanProgram \in Seq(Step) /\ PlanProgram \in Seq(PlanItem)
  BY <1>2, EarlyPlan, ProgramPlan
<1>4. PlanData \in Seq(PlanItem)
  BY DataPlan
<1> HIDE DEF s
<1>5. /\ t \in Seq(PlanItem) /\ \A i \in DOMAIN s : i \in DOMAIN t /\ t[i] = s[i]
  BY <1>3, <1>4, Concatenated
<1> HIDE DEF t
<1>6. /\ p \in Seq(PlanItem) /\ \A i \in DOMAIN t : i \in DOMAIN p /\ p[i] = t[i]
  BY <1>1, <1>3, <1>5, Concatenated
<1>7. ASSUME NEW i \in DOMAIN p, Removes(p[i]), NEW x \in ToSet(s) PROVE \E j \in 1 .. i - 1 : p[j] = x
  <2>1. DOMAIN s = 1 .. Len(s) /\ Len(s) \in Nat /\ i \in Nat /\ i >= 1
    BY <1>3, <1>6
  <2>2. i \notin DOMAIN s
    <3> SUFFICES ASSUME i \in DOMAIN s PROVE FALSE
      OBVIOUS
    <3>1. p[i] = s[i] /\ s[i] \in Step
      BY <1>3, <1>5, <1>6
    <3> QED BY <1>7, <3>1 DEF Step, Removes
  <2>3. PICK j \in DOMAIN s : s[j] = x
    BY DEF ToSet
  <2>4. j \in 1 .. i - 1
    BY <2>1, <2>2, <2>3
  <2>5. p[j] = x
    BY <1>5, <1>6, <2>3
  <2> QED BY <2>4, <2>5
<1> QED BY <1>6, <1>7 DEF s

\* A plan is made.
LEMMA DiscoverStep ==
    ASSUME UninstallAssumption, IInv, program \subseteq Program,
           NEW variable \in Isolated \cup {None}, NEW forget \in BOOLEAN, NEW blind \in BOOLEAN,
           Discover(variable, forget, blind)
    PROVE  IInv'
<1> DEFINE p == BuildPlan(variable, forget, blind)
<1>1. /\ run' = [pc |-> "planned", plan |-> p] /\ UNCHANGED <<file, data, trusted>>
      /\ given' = [projects |-> given.projects \cup (IF forget THEN Unknown(variable) ELSE {}),
                   areas |-> given.areas \cup PassedOver(blind)]
  BY DEF Discover, system
<1>2. /\ p \in Seq(PlanItem)
      /\ \A i \in DOMAIN p : Removes(p[i]) =>
            \A x \in ToSet(BeforeData(variable, forget, blind)) : \E j \in 1 .. i - 1 : p[j] = x
  BY PlanOrder DEF IInv
<1> HIDE DEF p
<1>3. run'.plan = p /\ run' \in [pc : {"idle", "planned", "execute"}, plan : Seq(PlanItem)]
  BY <1>1, <1>2
<1>4. GivesUpMore
  <2>1. PassedOver(blind) \subseteq {"vscode", "certificates"}
    BY DEF PassedOver
  <2>2. Unknown(variable) \subseteq Env
    BY DEF Unknown, Isolated
  <2>3. given.projects \in SUBSET Env /\ given.areas \in SUBSET {"vscode", "certificates"}
    BY DEF IInv, Types, GivenUp
  <2> QED BY <1>1, <2>1, <2>2, <2>3 DEF GivesUpMore, GivenUp
<1>9. (\A f \in File : Owed(f)' \subseteq Owed(f)) /\ (TrustOwed' => TrustOwed)
  BY <1>1, <1>4, OwesNoMore
<1>5. Types' /\ Owns' /\ Evidence'
  <2>1. Types' /\ Owns'
    BY <1>1, <1>3, <1>4 DEF IInv, Types, Owns, GivesUpMore
  <2>2. Evidence'
    BY <1>1, <1>9 DEF IInv, Evidence, EvidenceOutlivesValues, HasConfig
  <2> QED BY <2>1, <2>2
<1>6. ASSUME NEW i \in DOMAIN p, Removes(p[i]), NEW f \in File, NEW e \in Owed(f)'
      PROVE  \E j \in 1 .. i - 1 : Frees(p[j], f, e)
  <2>3. e \in Owed(f) /\ (forget => e \notin Unknown(variable))
    BY <1>1, <1>9 DEF Owed
  <2>4. f = VSCode => file[VSCode].form # "garbled"
    BY <1>1 DEF Owed, PassedOver
  <2>1. PICK x \in ToSet(BeforeData(variable, forget, blind)) : Frees(x, f, e)
    BY <2>3, <2>4, EarlyPlanFrees
  <2>2. PICK j \in 1 .. i - 1 : p[j] = x
    BY <1>2, <1>6, <2>1
  <2> QED BY <2>1, <2>2
<1>7. ASSUME NEW i \in DOMAIN p, Removes(p[i]), TrustOwed'
      PROVE  \E j \in 1 .. i - 1 : Untrusts(p[j])
  <2>4. TrustOwed /\ ~blind
    BY <1>1, <1>7, <1>9 DEF TrustOwed, PassedOver
  <2>1. PICK x \in ToSet(PlanCertificates(blind)) : Untrusts(x)
    BY <2>4, CertificatesPlan DEF IInv
  <2>2. x \in ToSet(BeforeData(variable, forget, blind))
    BY EarlyPlan DEF IInv
  <2>3. PICK j \in 1 .. i - 1 : p[j] = x
    BY <1>2, <1>7, <2>2
  <2> QED BY <2>1, <2>3
<1>8. Covers'
  BY <1>1, <1>3, <1>6, <1>7 DEF Covers, Covered, Removes, Frees, Untrusts, Stopped
<1> QED BY <1>5, <1>8 DEF IInv

\* Programs are only removed.
LEMMA ProgramStep == ASSUME program \subseteq Program, [Next]_vars PROVE program' \subseteq Program
<1>1. ASSUME NEW i \in Turn,
             Skip(i) \/ Stop(i) \/ Edit(i) \/ Record(i) \/ Untrust(i) \/ RemoveData(i) \/ RemoveProgram(i) \/ Fail(i)
      PROVE  program' \subseteq program
  BY <1>1 DEF Skip, Stop, Edit, Record, Untrust, RemoveData, RemoveProgram, Fail, system
<1>2. ASSUME \/ \E variable \in Isolated \cup {None}, forget, blind \in BOOLEAN : Discover(variable, forget, blind)
             \/ Cancel \/ Confirm \/ Finish \/ Crash \/ UNCHANGED vars
             \/ \E f \in File : EditFile(f) \/ Repair(f)
      PROVE  program' = program
  BY <1>2 DEF Discover, Cancel, Confirm, Finish, Crash, EditFile, Repair, vars, system
<1> QED BY <1>1, <1>2 DEF Next, Execute

\* The inductive invariant of Uninstall.
UInv == IInv /\ program \subseteq Program

\* It holds at first, and every step keeps it.
LEMMA UninstallInit == ASSUME UninstallAssumption, Init PROVE UInv
BY InitInv DEF Init, UInv

\* One step per action.
LEMMA UninstallStep == ASSUME UninstallAssumption, UInv, [Next]_vars PROVE UInv'
<1>1. IInv'
  <2> USE DEF UInv
  <2>1. ASSUME NEW i \in Turn, Skip(i) \/ Stop(i) \/ Edit(i) \/ Record(i) \/ Untrust(i)
                               \/ RemoveData(i) \/ RemoveProgram(i) \/ Fail(i)
        PROVE  IInv'
    BY <2>1, SkipStep, QuietStep, EditStep, RecordStep, RemoveDataStep, FailStep
  <2>2. ASSUME NEW variable \in Isolated \cup {None}, NEW forget \in BOOLEAN, NEW blind \in BOOLEAN,
               Discover(variable, forget, blind)
        PROVE  IInv'
    BY <2>2, DiscoverStep
  <2>3. ASSUME NEW f \in File, EditFile(f) \/ Repair(f) PROVE IInv'
    BY <2>3, UserStep
  <2>4. CASE Cancel \/ Confirm \/ Finish \/ UNCHANGED vars
    BY <2>4, RestStep
  <2>5. CASE Crash
    BY <2>5, CrashStep
  <2> QED BY <2>1, <2>2, <2>3, <2>4, <2>5 DEF Next, Execute
<1> QED BY <1>1, ProgramStep DEF UInv

\* EvidenceOutlivesValues: while a client's file holds values of SAIAI or its
\* CA is trusted, what proves it is kept, whatever item fails, is killed or run
\* again, but for what the user gave up, the settings of VS Code that were not
\* UTF-8 and the trust certutil could not show, which a plan passes over.
THEOREM EvidenceIsKept == MCSpec => []EvidenceOutlivesValues
<1>1. UninstallAssumption
  BY PartsAssumption
<1>2. MCInit => UInv
  BY <1>1, UninstallInit DEF MCInit, RestU
<1>3. UInv /\ [MCNext]_<<part, vars, varsD, varsF>> => UInv'
  BY <1>1, UninstallStep DEF MCNext
<1>4. UInv => EvidenceOutlivesValues
  BY DEF UInv, IInv, Evidence
<1> QED BY <1>2, <1>3, <1>4, PTL DEF MCSpec

\* An edit writes the revision it has read, and only over that version.
LEMMA RevisionStep == ASSUME UInv, [Next]_vars PROVE \A f \in File : file'[f].revision >= file[f].revision
<1>1. \A f \in File : file[f] \in FileState /\ file[f].revision \in Nat
  BY DEF UInv, IInv, Types, FileState
<1>2. ASSUME NEW i \in Turn, Edit(i) PROVE \A f \in File : file'[f].revision >= file[f].revision
  <2> DEFINE x == run.plan[i].of
  <2>1. run.plan[i] \in PlanItem /\ run.plan[i].kind = "edit"
    BY <1>2, AtTurn DEF Edit, Due, UInv, IInv
  <2>2. x \in Rewrite
    BY <2>1 DEF PlanItem, Step, Removal
  <2>3. file' = file \/ (file[x.file] = x.original /\ file' = [file EXCEPT ![x.file] = x.replacement])
    BY <1>2 DEF Edit, MayEdit
  <2>4. x.file \in File /\ x.replacement.revision = x.original.revision
    BY <2>2 DEF Rewrite
  <2> HIDE DEF x
  <2> QED BY <1>1, <2>3, <2>4 DEF UInv, IInv, Types
<1>3. ASSUME NEW f \in File, EditFile(f) PROVE \A g \in File : file'[g].revision >= file[g].revision
  <2>1. PICK values \in {file[f].values, {}}, form \in Form :
           file' = [file EXCEPT ![f] = [values |-> values, revision |-> file[f].revision + 1, form |-> form]]
    BY <1>3, AnEdit DEF UInv, IInv
  <2> QED BY <1>1, <2>1 DEF UInv, IInv, Types
<1>4. ASSUME NEW f \in File, Repair(f) PROVE \A g \in File : file'[g].revision >= file[g].revision
  BY <1>1, <1>4 DEF Repair, UInv, IInv, Types
<1>5. ASSUME \/ \E i \in Turn : \/ Skip(i) \/ Stop(i) \/ Record(i) \/ Untrust(i)
                                \/ RemoveData(i) \/ RemoveProgram(i) \/ Fail(i)
             \/ \E variable \in Isolated \cup {None}, forget, blind \in BOOLEAN : Discover(variable, forget, blind)
             \/ Cancel \/ Confirm \/ Finish \/ Crash \/ UNCHANGED vars
      PROVE  file' = file
  BY <1>5 DEF Skip, Stop, Record, Untrust, RemoveData, RemoveProgram, Fail, Discover, Cancel, Confirm, Finish,
              Crash, vars, system
<1> QED BY <1>1, <1>2, <1>3, <1>4, <1>5 DEF Next, Execute

\* UserEditsSurvive, the second part of OnlyTheUserChangesTheRest: uninstall
\* never puts back a version of a file that is older than the user's last edit.
THEOREM UserEditsStay == MCSpec => UserEditsSurvive
<1>1. UninstallAssumption
  BY PartsAssumption
<1>2. MCInit => UInv
  BY <1>1, UninstallInit DEF MCInit, RestU
<1>3. UInv /\ [MCNext]_<<part, vars, varsD, varsF>> => UInv'
  BY <1>1, UninstallStep DEF MCNext
<1>4. UInv /\ [MCNext]_<<part, vars, varsD, varsF>> => [\A f \in File : file'[f].revision >= file[f].revision]_vars
  BY RevisionStep DEF MCNext
<1> QED BY <1>2, <1>3, <1>4, PTL DEF MCSpec, UserEditsSurvive

(***************************************************************************)
(* A file is replaced (AtomicFile).                                        *)
(***************************************************************************)
\* What the name showed once is on the disk, and stays there.
ShownIsSynced == /\ name \in replaced /\ diskName \in replaced
                 /\ \A v \in replaced : v \in synced /\ bytes[v] = "whole"
\* A writer's version is not shown before it replaces the file, and is ready
\* by then.
WriterInv(w) == /\ writing[w] \in F!Before => w \notin replaced
                /\ writing[w] \in {"full", "synced", "private"} => bytes[w] = "whole"
                /\ writing[w] \in {"synced", "private"} => w \in synced
                /\ writing[w] \in F!After => w \in replaced
                /\ w \in Core /\ writing[w] = "failed" => w \notin replaced
FileInv == F!TypeOK /\ ShownIsSynced /\ \A w \in Writer : WriterInv(w)

\* Only the old version is there, and it is whole.
LEMMA InitFile == ASSUME F!FileAssumption, F!Init PROVE FileInv
<1>1. F!TypeOK
  BY DEF F!FileAssumption, F!Init, F!TypeOK, F!Version, F!Before
<1>2. ShownIsSynced
  BY DEF F!Init, ShownIsSynced, F!Version
<1>3. \A w \in Writer : WriterInv(w)
  BY DEF F!FileAssumption, F!Init, WriterInv, F!Before, F!After
<1> QED BY <1>1, <1>2, <1>3 DEF FileInv

\* Every step of a writer and of the machine keeps the types.
LEMMA FileTypeStep == ASSUME F!FileAssumption, F!TypeOK, F!Next \/ UNCHANGED varsF PROVE F!TypeOK'
<1> USE DEF F!FileAssumption, F!TypeOK, F!Version, F!Before, F!After
<1>1. ASSUME NEW w \in Writer, F!Create(w) PROVE F!TypeOK'
  BY <1>1 DEF F!Create, F!Go
<1>2. ASSUME NEW w \in Writer, F!Fill(w) PROVE F!TypeOK'
  BY <1>2 DEF F!Fill, F!Go
<1>3. ASSUME NEW w \in Writer, F!Sync(w) \/ F!Protect(w) \/ F!Return(w) PROVE F!TypeOK'
  BY <1>3 DEF F!Sync, F!Protect, F!Return, F!Go
<1>4. ASSUME NEW w \in Writer, F!Replace(w) PROVE F!TypeOK'
  BY <1>4 DEF F!Replace
<1>5. ASSUME NEW w \in Writer, F!Fail(w) PROVE F!TypeOK'
  BY <1>5 DEF F!Fail
<1>6. ASSUME NEW w \in Writer, F!FailToProtect(w) \/ F!Kill(w) PROVE F!TypeOK'
  BY <1>6 DEF F!FailToProtect, F!Kill, F!Go
<1>7. CASE F!WriteBack
  BY <1>7 DEF F!WriteBack
<1>8. CASE F!LosePower
  BY <1>8 DEF F!LosePower
<1>9. CASE UNCHANGED varsF
  BY <1>9 DEF varsF
<1> QED BY <1>1, <1>2, <1>3, <1>4, <1>5, <1>6, <1>7, <1>8, <1>9 DEF F!Next

\* A step of one writer leaves the others what they had.
LEMMA WriterStep ==
    ASSUME F!FileAssumption, FileInv, NEW w \in Writer,
           \/ F!Create(w) \/ F!Fill(w) \/ F!Sync(w) \/ F!Protect(w) \/ F!Replace(w) \/ F!Return(w)
           \/ F!Fail(w) \/ F!FailToProtect(w) \/ F!Kill(w)
    PROVE  ShownIsSynced' /\ \A o \in Writer : WriterInv(o)'
<1> USE DEF F!FileAssumption, FileInv, F!TypeOK, F!Version, ShownIsSynced, WriterInv, F!Before, F!After
<1>1. CASE F!Create(w)
  BY <1>1 DEF F!Create, F!Go
<1>2. CASE F!Fill(w)
  BY <1>2 DEF F!Fill, F!Go
<1>3. CASE F!Sync(w)
  BY <1>3 DEF F!Sync, F!Go
<1>4. CASE F!Protect(w)
  BY <1>4 DEF F!Protect, F!Go
<1>5. CASE F!Replace(w)
  BY <1>5 DEF F!Replace, F!Ready
<1>6. CASE F!Return(w)
  BY <1>6 DEF F!Return, F!Go
<1>7. CASE F!Fail(w)
  BY <1>7 DEF F!Fail
<1>8. CASE F!FailToProtect(w)
  BY <1>8 DEF F!FailToProtect, F!Go
<1>9. CASE F!Kill(w)
  BY <1>9 DEF F!Kill
<1> QED BY <1>1, <1>2, <1>3, <1>4, <1>5, <1>6, <1>7, <1>8, <1>9

\* The invariant is inductive: a loss of power takes only what was never shown.
THEOREM FileStep == ASSUME F!FileAssumption, FileInv, F!Next \/ UNCHANGED varsF PROVE FileInv'
<1>1. F!TypeOK'
  BY FileTypeStep DEF FileInv
<1>2. ShownIsSynced' /\ \A o \in Writer : WriterInv(o)'
  <2>1. ASSUME NEW w \in Writer,
               \/ F!Create(w) \/ F!Fill(w) \/ F!Sync(w) \/ F!Protect(w) \/ F!Replace(w) \/ F!Return(w)
               \/ F!Fail(w) \/ F!FailToProtect(w) \/ F!Kill(w)
        PROVE  ShownIsSynced' /\ \A o \in Writer : WriterInv(o)'
    BY <2>1, WriterStep
  <2>2. CASE F!WriteBack
    BY <2>2 DEF F!WriteBack, FileInv, ShownIsSynced, WriterInv
  <2>3. CASE F!LosePower
    <3>1. PICK lost \in SUBSET (F!Version \ synced) :
             bytes' = [v \in F!Version |-> IF v \in lost /\ bytes[v] = "whole" THEN "part" ELSE bytes[v]]
      BY <2>3 DEF F!LosePower
    <3>2. \A v \in F!Version : v \in synced => bytes'[v] = bytes[v]
      BY <3>1
    <3>3. ShownIsSynced'
      BY <2>3, <3>2 DEF F!LosePower, FileInv, F!TypeOK, ShownIsSynced
    <3>4. \A w \in Writer : writing'[w] \notin F!Before
      BY <2>3 DEF F!LosePower, FileInv, F!TypeOK, F!Before, F!After
    <3>5. \A w \in Writer : writing'[w] \in F!After \cup {"failed"} => writing'[w] = writing[w]
      BY <2>3 DEF F!LosePower, FileInv, F!TypeOK, F!Before, F!After
    <3>6. ASSUME NEW w \in Writer PROVE WriterInv(w)'
      BY <2>3, <3>4, <3>5 DEF F!LosePower, FileInv, WriterInv, F!Before, F!After
    <3> QED BY <3>3, <3>6
  <2>4. CASE UNCHANGED varsF
    BY <2>4 DEF varsF, FileInv, ShownIsSynced, WriterInv
  <2> QED BY <2>1, <2>2, <2>3, <2>4 DEF F!Next
<1> QED BY <1>1, <1>2 DEF FileInv

LEMMA WholeFiles == FileInv => F!FilesAreWhole
BY DEF FileInv, ShownIsSynced, WriterInv, F!FilesAreWhole, F!NameIsWhole, F!ErrorsRollBack, F!After

(***************************************************************************)
(* Whichever of the parts runs.                                            *)
(***************************************************************************)
mcVars == <<part, vars, varsD, varsF>>
WriteInv == part = "write" => FileInv

\* For any number of writers that are killed, fail or lose their power at any
\* step, the file is a whole version under its name and on the disk, and no
\* error of saiai-core leaves the new version in place.
THEOREM FilesStayWhole == MCSpec => []FilesAreWhole
<1>1. MCInit => WriteInv
  BY PartsAssumption, InitFile DEF MCInit, WriteInv
<1>2. WriteInv /\ [MCNext]_mcVars => WriteInv'
  <2> SUFFICES ASSUME WriteInv, [MCNext]_mcVars, part' = "write" PROVE FileInv'
    BY DEF WriteInv
  <2>1. FileInv /\ (F!Next \/ UNCHANGED varsF)
    BY DEF WriteInv, MCNext, mcVars
  <2> QED BY <2>1, PartsAssumption, FileStep
<1>3. WriteInv => FilesAreWhole
  BY WholeFiles DEF WriteInv, FilesAreWhole
<1> QED BY <1>1, <1>2, <1>3, PTL DEF MCSpec, mcVars
=============================================================================

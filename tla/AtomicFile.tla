------------------------------ MODULE AtomicFile ------------------------------
(***************************************************************************)
(* How SAIAI replaces a file: the transactions of saiai-core               *)
(* (src/tools/saiai-core/src/fsutil.rs, atomic_write_private) and          *)
(* everything else (src/tools/saiai-cli/src/main.rs, write_bytes_atomic).  *)
(* The new version is written to a temporary file of its own name, brought *)
(* to the disk, and renamed.  Writers run beside each other, can be killed *)
(* and the machine can lose its power; what other modules take for one     *)
(* step is this one.                                                       *)
(*                                                                         *)
(* A file system shows a version's bytes before they are on the disk, and  *)
(* brings the bytes and the name to the disk in any order unless it is     *)
(* told to.                                                                *)
(***************************************************************************)
CONSTANTS Writer,  \* a write each, and the version it makes
          Core,    \* those of saiai-core
          Initial  \* the version that was there before

FileAssumption == Core \subseteq Writer /\ Initial \notin Writer

Version == Writer \cup {Initial}

VARIABLES bytes,    \* of each version: [Version -> {"none", "part", "whole"}]
          synced,   \* the versions whose bytes are on the disk
          name,     \* the version that the name of the file shows
          diskName, \* the version that it has on the disk
          pc,       \* of each writer
          replaced  \* history: the versions that the name ever showed

vars == <<bytes, synced, name, diskName, pc, replaced>>

Before == {"idle", "writing", "full", "synced", "private"}
After  == {"renamed", "returned"}
TypeOK == /\ bytes \in [Version -> {"none", "part", "whole"}]
          /\ synced \subseteq Version /\ replaced \subseteq Version
          /\ name \in Version /\ diskName \in Version
          /\ pc \in [Writer -> Before \cup After \cup {"failed", "killed"}]

Init == /\ bytes = [v \in Version |-> IF v = Initial THEN "whole" ELSE "none"]
        /\ synced = {Initial} /\ name = Initial /\ diskName = Initial
        /\ pc = [w \in Writer |-> "idle"]
        /\ replaced = {Initial}

Go(w, from, to) == pc[w] = from /\ pc' = [pc EXCEPT ![w] = to]

\* create_new and write_all.
Create(w) == /\ Go(w, "idle", "writing")
             /\ bytes' = [bytes EXCEPT ![w] = "part"]
             /\ UNCHANGED <<synced, name, diskName, replaced>>
Fill(w) == /\ Go(w, "writing", "full")
           /\ bytes' = [bytes EXCEPT ![w] = "whole"]
           /\ UNCHANGED <<synced, name, diskName, replaced>>
\* sync_all.
Sync(w) == /\ Go(w, "full", "synced")
           /\ synced' = synced \cup {w}
           /\ UNCHANGED <<bytes, name, diskName, replaced>>
\* set_private_file_permissions: before the commit point.
Protect(w) == /\ w \in Core /\ Go(w, "synced", "private")
              /\ UNCHANGED <<bytes, synced, name, diskName, replaced>>

\* BUG: the bytes need not be on the disk.
ReadyInMemory(w) == pc[w] = IF w \in Core THEN "private" ELSE "full"
Ready(w) == pc[w] = IF w \in Core THEN "private" ELSE "synced"
\* replace_file.
Replace(w) == /\ Ready(w)
              /\ pc' = [pc EXCEPT ![w] = "renamed"]
              /\ name' = w /\ replaced' = replaced \cup {w}
              /\ UNCHANGED <<bytes, synced, diskName>>

\* The directory is brought to the disk, if that is possible.
Return(w) == /\ Go(w, "renamed", "returned")
             /\ diskName' \in {diskName, name}
             /\ UNCHANGED <<bytes, synced, name, replaced>>

\* A step fails, and the temporary file is removed.
Fail(w) == /\ pc[w] \in Before
           /\ pc' = [pc EXCEPT ![w] = "failed"]
           /\ bytes' = [bytes EXCEPT ![w] = "none"]
           /\ UNCHANGED <<synced, name, diskName, replaced>>
\* write_bytes_atomic sets the permissions at the end.
FailToProtect(w) == /\ w \notin Core /\ Go(w, "renamed", "failed")
                    /\ UNCHANGED <<bytes, synced, name, diskName, replaced>>

Kill(w) == /\ pc[w] \in Before \cup {"renamed"}
           /\ pc' = [pc EXCEPT ![w] = "killed"]
           /\ UNCHANGED <<bytes, synced, name, diskName, replaced>>
\* The file system brings a name to the disk when it likes.
WriteBack == /\ diskName' = name
             /\ UNCHANGED <<bytes, synced, name, pc, replaced>>
\* Bytes that were not brought to the disk are lost, or some of them.
LosePower == /\ name' = diskName
             /\ \E lost \in SUBSET (Version \ synced) :
                   bytes' = [v \in Version |-> IF v \in lost /\ bytes[v] = "whole" THEN "part" ELSE bytes[v]]
             /\ pc' = [w \in Writer |-> IF pc[w] \in Before \cup {"renamed"} THEN "killed" ELSE pc[w]]
             /\ UNCHANGED <<synced, diskName, replaced>>

Next == \/ \E w \in Writer : \/ Create(w) \/ Fill(w) \/ Sync(w) \/ Protect(w) \/ Replace(w) \/ Return(w)
                             \/ Fail(w) \/ FailToProtect(w) \/ Kill(w)
        \/ WriteBack \/ LosePower
Spec == Init /\ [][Next]_vars

\* Whoever reads the file, at any time and after any loss of power, finds one
\* of the versions, and all of it.
NameIsWhole == bytes[name] = "whole" /\ bytes[diskName] = "whole"

\* An error of saiai-core is one that can be rolled back: nobody has seen the
\* new version ("a successful replacement can never be reported as a
\* rollback-safe error", fsutil.rs); and a write that returned was seen.
ErrorsRollBack == \A w \in Writer : /\ w \in Core /\ pc[w] = "failed" => w \notin replaced
                                    /\ pc[w] = "returned" => w \in replaced

FilesAreWhole == NameIsWhole /\ ErrorsRollBack
=============================================================================

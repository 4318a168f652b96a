-------------------------- MODULE MCSetupTransaction --------------------------
(***************************************************************************)
(* Small instances of SetupTransaction for TLC.  The history variable      *)
(* crashed says that some process has died: what a transaction leaves      *)
(* behind is only promised while none has.                                 *)
(***************************************************************************)
EXTENDS SetupTransaction, TLC

VARIABLE crashed

MCInit == Init /\ crashed = FALSE
\* A crash that does what the process would have done next is none: Release,
\* Exit and FetchFails.
MCNext == /\ Next
          /\ crashed' = \/ crashed
                        \/ \E p \in Process : Crash(p) /\ pc[p] \notin {"done", "running", "fetching"}
MCSpec == MCInit /\ [][MCNext]_<<vars, crashed>>

\* Processes, products, identifiers and gateways are interchangeable.
Symmetry == Permutations(Process) \cup Permutations(Product) \cup Permutations(Identifier)
            \cup Permutations(Gateway)

Orderly == ~crashed /\ ~RemovalMayFail /\ lock = Nobody

NoneBroken == \A q \in Product : Diagnose(q) # "broken"
NothingLeft ==
    /\ \A q \in Product : \A r \in Refs(q) :
         /\ cred[r] # "absent" => entry[q] = r
         /\ home[r].at # "absent" /\ entry[q] # r => entry[q] # NoRef /\ r \in leaseFile
    /\ gateway = NoGateway => dirs \subseteq {"state"}

\* Without a crash every transaction is all or nothing: whenever the lock is
\* free, each configured product is complete, every credential is committed,
\* every other home is one that a lease file of a still configured product
\* keeps for the next revoke, and without a config nothing but the state root
\* exists.
TransactionsAreAtomic == Orderly => NoneBroken /\ NothingLeft
=============================================================================

---------------------------- MODULE Installation ----------------------------
(***************************************************************************)
(* What the SAIAI installation promises its callers, with no file in it.   *)
(* At most one generation per product is installed, all the installed      *)
(* products share one gateway, and a launched client keeps the generation  *)
(* it was launched from, and the gateway it was launched with, until it    *)
(* exits.  SetupTransaction is shown to implement this module.             *)
(***************************************************************************)
EXTENDS Naturals

CONSTANTS Product,     \* the clients SAIAI manages: Claude and Codex
          Identifier,  \* the fresh identifiers (UUIDs) a setup can draw
          Gateway,     \* the gateway URLs
          Process,     \* the processes that use the installation
          NoRef,       \* "no generation"
          NoGateway,   \* "no gateway"
          NoSession    \* "no client is running"

\* The generations of a product, and of every product.
Refs(q) == {q} \X Identifier
Ref == Product \X Identifier

VARIABLES installed,   \* the generation installed for each product
          gateway,     \* the gateway shared by the installed products
          session      \* the launched client of each process

vars == <<installed, gateway, session>>

Session == [ref : Ref, gateway : Gateway]

Init == /\ installed = [q \in Product |-> NoRef]
        /\ gateway = NoGateway
        /\ session = [p \in Process |-> NoSession]

\* The generations some running client was launched from.
InUse == {session[p].ref : p \in {x \in Process : session[x] # NoSession}}

\* A product is installed, or replaced, from a generation that is not in use;
\* the gateway may change only when no other product depends on it.
Install(q, r, g) ==
    /\ r \notin InUse
    /\ \A o \in Product \ {q} : installed[o] # NoRef => g = gateway
    /\ installed' = [installed EXCEPT ![q] = r]
    /\ gateway' = g
    /\ UNCHANGED session

\* A product is removed only when no client launched from it is running.
Remove(q) ==
    /\ installed[q] # NoRef
    /\ InUse \cap Refs(q) = {}
    /\ installed' = [installed EXCEPT ![q] = NoRef]
    /\ gateway' = IF \E o \in Product \ {q} : installed[o] # NoRef
                  THEN gateway ELSE NoGateway
    /\ UNCHANGED session

\* Everything is removed only when no client at all is running.
RemoveAll ==
    /\ InUse = {}
    /\ installed' = [q \in Product |-> NoRef]
    /\ gateway' = NoGateway
    /\ UNCHANGED session

\* A client is launched from one installed generation with its gateway.
Open(p, q) ==
    /\ session[p] = NoSession
    /\ installed[q] # NoRef
    /\ session' = [session EXCEPT ![p] = [ref |-> installed[q], gateway |-> gateway]]
    /\ UNCHANGED <<installed, gateway>>

Close(p) ==
    /\ session[p] # NoSession
    /\ session' = [session EXCEPT ![p] = NoSession]
    /\ UNCHANGED <<installed, gateway>>

Next == \/ \E q \in Product : Remove(q) \/ \E r \in Refs(q), g \in Gateway : Install(q, r, g)
        \/ RemoveAll
        \/ \E p \in Process : Close(p) \/ \E q \in Product : Open(p, q)

Spec == Init /\ [][Next]_vars
=============================================================================

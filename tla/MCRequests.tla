------------------------------ MODULE MCRequests ------------------------------
(***************************************************************************)
(* Requests and messages through the local proxy: a behaviour is one of    *)
(* ManagedConnection, with connections of up to two requests, one of       *)
(* WebSocketRelay, or one of ChatInit, and the variables of the others     *)
(* stay as they are.  The Anthropic host has local answers, the ChatGPT    *)
(* hosts have sidecars, upgrades and unknown paths.                        *)
(***************************************************************************)
EXTENDS WebSocketRelay, SequencesExt

CONSTANTS Limit, MaxChunks, Backlog,
          Asked, Carried, \* the requests and their sequences, as below or any others
          MaxParts

VARIABLES part,
          requests, sending, left, upload, proxy, gateway, download, client,
          chosen, opening, reply, hold, seen

varsC == <<requests, sending, left, upload, proxy, gateway, download, client>>
varsI == <<chosen, opening, reply, hold, seen>>

(***************************************************************************)
(* The requests that are checked.                                          *)
(***************************************************************************)
ConnectionRequest ==
    {r \in [head : BOOLEAN, body : {0, Limit, Limit + 1}, chunked : BOOLEAN, close : BOOLEAN,
            path : {"local", "sidecar", "nothing", "gateway", "upgrade", "unknown"}] :
        /\ r.head => r.path \in {"local", "sidecar", "nothing", "gateway"}
        /\ r.head \/ r.path \in {"upgrade", "unknown"} => r.body = 0 /\ ~r.chunked
        /\ r.body = 0 => ~r.chunked}
Connections == SeqOf(ConnectionRequest, 2) \ {<<>>}

C == INSTANCE ManagedConnection WITH Request <- Asked, Connection <- Carried,
                                     sent <- sending, gone <- left
I == INSTANCE ChatInit WITH HoldLimit <- Limit

ASSUME PartsAssumption ==
    /\ Carried # {} /\ C!ConnectionAssumption
    /\ RelayAssumption /\ I!ChatInitAssumption

(***************************************************************************)
(* One of them runs.                                                       *)
(***************************************************************************)
ASimple == CHOOSE s \in Carried : TRUE
RestC == requests = ASimple /\ C!Init
RestI == chosen = FALSE /\ opening = [chat |-> FALSE, fresh |-> FALSE] /\ I!Init
MCInit == /\ Init
          /\ \/ part = "connection" /\ C!Init /\ RestI
             \/ part = "relay" /\ RestC /\ RestI
             \/ part = "chat" /\ RestC /\ I!Init
MCNext == \/ part = "connection" /\ C!Next /\ UNCHANGED <<part, vars, varsI>>
          \/ part = "relay" /\ Next /\ UNCHANGED <<part, varsC, varsI>>
          \/ part = "chat" /\ I!Next /\ UNCHANGED <<part, varsC, vars>>
MCSpec == MCInit /\ [][MCNext]_<<part, varsC, vars, varsI>>

\* As in the modules: the tasks run, their deadlines pass, and the
\* Gateway answers in the end.
MCFairSpec == /\ MCSpec
              /\ WF_varsC(part = "connection" /\ C!Reading) /\ WF_varsC(part = "connection" /\ C!Answering)
              /\ WF_varsC(part = "connection" /\ C!GatewayStep)
              /\ WF_vars(part = "relay" /\ RelayStep)

(***************************************************************************)
(* Properties, besides ImplementsChannel of WebSocketRelay.                *)
(***************************************************************************)
\* Framing keeps requests and responses apart, and a broken one is not taken
\* for a whole one, but behind an answer to HEAD that has a body
\* (ManagedConnection!OutOfStep), nor is one that was held back to
\* restore the user's choice of a model (ChatInit).
MessagesAreWhole == C!MessagesAreWhole /\ I!ChoiceIsRestored
\* A request that stalls ends, and so does the conversation with a message
\* that is too big, whoever reads; whatever was begun on a connection ends if
\* its client reads or leaves; any other message arrives, or the conversation
\* ends, if both endpoints read.
RequestsEnd ==
    /\ C!StallsEnd
    /\ WF_varsC(part = "connection" /\ C!ClientStep) => []<>(proxy.pc \in {"line", "closed", "relaying"})
    /\ []<>(relay.pc # "tooBig")
    /\ (\A e \in Endpoint : WF_vars(part = "relay" /\ Receive(e))) =>
           \A e \in Endpoint : []<>(Len(received[Other(e)]) = Len(sent[e]) \/ relay.pc = "ended")
=============================================================================

---------------------------- MODULE DuplexChannel ----------------------------
(***************************************************************************)
(* What Codex and the Gateway may rely on when they talk over a WebSocket  *)
(* through the local proxy: each receives a prefix of what the other sent, *)
(* frame by frame and in order, and besides that only the notice that a    *)
(* message of Codex was too big, which is the last thing it receives.      *)
(***************************************************************************)
EXTENDS Naturals, Sequences

CONSTANTS Endpoint, Message,
          Big,    \* the messages over the frame limit
          Notice  \* Close 1009, "message too big", made by the proxy

VARIABLES sent, received \* what every endpoint has sent and received

Other(e) == CHOOSE o \in Endpoint : o # e

Init == /\ sent = [e \in Endpoint |-> <<>>]
        /\ received = [e \in Endpoint |-> <<>>]

Send(e, m) == /\ sent' = [sent EXCEPT ![e] = Append(@, m)]
              /\ UNCHANGED received

Told(e) == received[e] # <<>> /\ received[e][Len(received[e])] = Notice
Deliver(e) ==
    LET n == Len(received[e]) + 1 IN
    /\ ~Told(e) /\ n <= Len(sent[Other(e)])
    /\ received' = [received EXCEPT ![e] = Append(@, sent[Other(e)][n])]
    /\ UNCHANGED sent
Tell(e) ==
    /\ ~Told(e)
    /\ \E o \in Endpoint : \E i \in DOMAIN sent[o] : sent[o][i] \in Big
    /\ received' = [received EXCEPT ![e] = Append(@, Notice)]
    /\ UNCHANGED sent

Next == \E e \in Endpoint : Deliver(e) \/ Tell(e) \/ \E m \in Message : Send(e, m)
Spec == Init /\ [][Next]_<<sent, received>>
=============================================================================

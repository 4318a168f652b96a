---------------------------- MODULE WebSocketRelay ----------------------------
(***************************************************************************)
(* relay_openai_websocket of the local proxy                               *)
(* (src/tools/saiai-cli/src/local_proxy.rs): one task that selects the     *)
(* next message of either side and sends it to the other before it looks   *)
(* at anything else.  Sockets have bounded buffers, so a send waits while  *)
(* the receiver does not read; while it waits neither side is read.        *)
(*                                                                         *)
(* When the task ends both sockets are closed.  Closing a socket that has  *)
(* unread input resets it, which may take away what it had still to give   *)
(* to its endpoint.  The pongs the WebSocket library itself answers are    *)
(* left out.                                                               *)
(***************************************************************************)
EXTENDS Naturals, Sequences

CONSTANTS Codex, Gateway,
          Data, Close, Big, \* kinds of messages: within the frame limit, the
                            \* closing one, and over the limit
          Notice,           \* Close 1009, "message too big"
          Capacity,         \* messages that fit into the buffers of a socket
          MaxSent           \* bound: messages an endpoint sends

Endpoint == {Codex, Gateway}
Message == {Data, Close, Big} \X (1 .. MaxSent) \* numbered to tell them apart
Kind(m) == m[1]
Other(e) == IF e = Codex THEN Gateway ELSE Codex

RelayAssumption ==
    /\ Codex # Gateway
    /\ Data # Close /\ Data # Big /\ Close # Big /\ Notice \notin Message
    /\ Capacity \in Nat \ {0} /\ MaxSent \in Nat \ {0}

VARIABLES sent,     \* what each endpoint has sent
          received, \* what each endpoint has received
          gone,     \* the endpoints that closed their connection
          source,   \* what each endpoint's socket has for the relay
          sink,     \* what each endpoint's socket has for the endpoint
          relay     \* [pc, from, message, told]

vars == <<sent, received, gone, source, sink, relay>>

Selecting == [pc |-> "select", from |-> Codex, message |-> <<Close, 1>>, told |-> {}]
Ended == [Selecting EXCEPT !.pc = "ended"]

TypeOK ==
    /\ sent \in [Endpoint -> Seq(Message)]
    /\ received \in [Endpoint -> Seq(Message \cup {Notice})]
    /\ gone \in SUBSET Endpoint
    /\ source \in [Endpoint -> Seq(Message)]
    /\ sink \in [Endpoint -> Seq(Message \cup {Notice})]
    /\ \A e \in Endpoint : Len(source[e]) <= Capacity /\ Len(sink[e]) <= Capacity
    /\ relay \in [pc : {"select", "send", "tooBig", "ended"}, from : Endpoint,
                  message : Message, told : SUBSET Endpoint]

Init ==
    /\ sent = [e \in Endpoint |-> <<>>]
    /\ received = [e \in Endpoint |-> <<>>]
    /\ gone = {}
    /\ source = [e \in Endpoint |-> <<>>]
    /\ sink = [e \in Endpoint |-> <<>>]
    /\ relay = Selecting

(***************************************************************************)
(* The endpoints.  Both read while they wait to write.                     *)
(***************************************************************************)
Closed(e) == sent[e] # <<>> /\ Kind(sent[e][Len(sent[e])]) = Close
Send(e, kind) ==
    LET m == <<kind, Len(sent[e]) + 1>> IN
    /\ e \notin gone /\ relay.pc # "ended" /\ ~Closed(e)
    /\ Len(sent[e]) < MaxSent /\ Len(source[e]) < Capacity
    /\ sent' = [sent EXCEPT ![e] = Append(@, m)]
    /\ source' = [source EXCEPT ![e] = Append(@, m)]
    /\ UNCHANGED <<received, gone, sink, relay>>
Receive(e) ==
    /\ e \notin gone /\ sink[e] # <<>>
    /\ received' = [received EXCEPT ![e] = Append(@, Head(sink[e]))]
    /\ sink' = [sink EXCEPT ![e] = Tail(@)]
    /\ UNCHANGED <<sent, gone, source, relay>>
Leave(e) ==
    /\ e \notin gone
    /\ gone' = gone \cup {e}
    /\ UNCHANGED <<sent, received, source, sink, relay>>

(***************************************************************************)
(* The relay.                                                              *)
(***************************************************************************)
\* It returns: both sockets are dropped, one with unread input is reset.
Drop(unread, pending) ==
    /\ relay' = Ended
    /\ \E kept \in [Endpoint -> 0 .. Capacity] :
          /\ \A e \in Endpoint :
                IF unread[e] = <<>> THEN kept[e] = Len(pending[e]) ELSE kept[e] <= Len(pending[e])
          /\ sink' = [e \in Endpoint |-> SubSeq(pending[e], 1, kept[e])]

\* BUG: the branch that is cancelled had already taken its message.
TakeBoth(e) == [o \in Endpoint |-> IF source[o] = <<>> THEN <<>> ELSE Tail(source[o])]
\* The branch of select! that is cancelled has taken nothing.
Take(e) == [source EXCEPT ![e] = Tail(@)]

\* select!: a message from e.  One over the limit is an error, which is
\* explained to both sides when it was Codex's.
Select(e) ==
    LET m == Head(source[e]) IN
    /\ relay.pc = "select" /\ source[e] # <<>>
    /\ source' = Take(e)
    /\ CASE Kind(m) # Big -> /\ relay' = [relay EXCEPT !.pc = "send", !.from = e, !.message = m]
                             /\ UNCHANGED sink
         [] Kind(m) = Big /\ e = Codex -> /\ relay' = [relay EXCEPT !.pc = "tooBig"]
                                          /\ UNCHANGED sink
         [] Kind(m) = Big /\ e = Gateway -> Drop(source', sink)
    /\ UNCHANGED <<sent, received, gone>>

\* To the other side, whichever it came from.
Receiver(e) == Other(e)

Room(e) == Len(sink[e]) < Capacity

\* send().await: waits for room, and a Close was the last message.
Forward ==
    LET o == Receiver(relay.from)
        pending == [sink EXCEPT ![o] = Append(@, relay.message)]
    IN  /\ relay.pc = "send" /\ Room(o)
        /\ IF Kind(relay.message) = Close
           THEN Drop(source, pending)
           ELSE relay' = Selecting /\ sink' = pending
        /\ UNCHANGED <<sent, received, gone, source>>

\* A stream that ended or failed, or a send to an endpoint that is gone.
Lose ==
    /\ \/ relay.pc = "select" /\ \E e \in gone : source[e] = <<>>
       \/ relay.pc = "send" /\ Other(relay.from) \in gone
    /\ Drop(source, sink)
    /\ UNCHANGED <<sent, received, gone, source>>
\* A protocol error or a reset, at any time.
ReadFails ==
    /\ relay.pc = "select"
    /\ Drop(source, sink)
    /\ UNCHANGED <<sent, received, gone, source>>

\* Both sides are told at once, each within WEBSOCKET_CLOSE_TIMEOUT.
Tell(e) ==
    /\ relay.pc = "tooBig" /\ e \notin relay.told /\ Room(e)
    /\ sink' = [sink EXCEPT ![e] = Append(@, Notice)]
    /\ relay' = [relay EXCEPT !.told = @ \cup {e}]
    /\ UNCHANGED <<sent, received, gone, source>>
\* BUG: the close frame is sent without a time limit.
NoCloseTimeout(e) == FALSE
CloseTimeout(e) == ~Room(e) \/ e \in gone
TellTooLate(e) ==
    /\ relay.pc = "tooBig" /\ e \notin relay.told /\ CloseTimeout(e)
    /\ relay' = [relay EXCEPT !.told = @ \cup {e}]
    /\ UNCHANGED <<sent, received, gone, source, sink>>
EndTooBig ==
    /\ relay.pc = "tooBig" /\ relay.told = Endpoint
    /\ Drop(source, sink)
    /\ UNCHANGED <<sent, received, gone, source>>

RelayStep ==
    \/ Forward \/ Lose \/ EndTooBig
    \/ \E e \in Endpoint : Select(e) \/ Tell(e) \/ TellTooLate(e)
Next ==
    \/ RelayStep \/ ReadFails
    \/ \E e \in Endpoint : Receive(e) \/ Leave(e) \/ \E kind \in {Data, Close, Big} : Send(e, kind)
Spec == Init /\ [][Next]_vars

\* The task runs and its time limits pass.
FairSpec == Spec /\ WF_vars(RelayStep)
\* An endpoint reads what arrives while it is there.
EndpointsRead == \A e \in Endpoint : WF_vars(Receive(e))

(***************************************************************************)
(* Properties.                                                             *)
(***************************************************************************)
\* Nothing is lost, repeated, reordered or made up while the relay runs, and
\* what an error or a reset takes away is the end of the conversation.
Channel == INSTANCE DuplexChannel WITH Big <- {m \in Message : Kind(m) = Big}

\* The relay's task with its select implements two ordered channels of messages.
ImplementsChannel == Channel!Spec

\* Although one task serves both directions and reads nothing while it sends,
\* every message arrives or the conversation ends, if both endpoints read.
MessagesArrive ==
    EndpointsRead =>
        \A e \in Endpoint : []<>(Len(received[Other(e)]) = Len(sent[e]) \/ relay.pc = "ended")

\* An oversized message ends the conversation even when nobody reads the
\* reason.
TooBigEnds == []<>(relay.pc # "tooBig")
=============================================================================

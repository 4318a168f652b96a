-------------------------- MODULE ManagedConnection --------------------------
(***************************************************************************)
(* One intercepted TLS connection of the local proxy                       *)
(* (src/tools/saiai-cli/src/local_proxy.rs: serve_managed_tls and what it  *)
(* calls): requests are read one after the other, answered locally,        *)
(* forwarded to the Gateway or upgraded to a WebSocket, and the connection *)
(* is kept alive in between.  Both directions of the connection are        *)
(* modelled as the sequence of the parts that HTTP framing tells apart,    *)
(* and the client decodes responses by that framing alone.                 *)
(*                                                                         *)
(* Bodies are counted in parts: Limit of them are MAX_REQUEST_BODY_BYTES.  *)
(* A client sends its requests without waiting, and may stop or disconnect *)
(* at any point.                                                           *)
(***************************************************************************)
EXTENDS Naturals, Sequences

CONSTANTS Request,   \* the requests a client may make
          Connection,\* the sequences of them a connection may carry
          Limit,     \* parts of the longest body that is accepted
          MaxChunks, \* bound: parts of a Gateway response
          Backlog    \* parts on their way to the client that make a write wait

(***************************************************************************)
(* A request has a method, a body of so many parts, framed by              *)
(* content-length or chunked, may ask for the connection to be closed, and *)
(* has a path that is answered locally, by a Desktop sidecar, with 204, by *)
(* the Gateway, by an upgrade, or by nobody.                               *)
(***************************************************************************)
ConnectionAssumption ==
    /\ Limit \in Nat /\ MaxChunks \in Nat /\ Backlog \in Nat \ {0}
    /\ Connection \subseteq Seq(Request)
    /\ Request \subseteq [head : BOOLEAN, body : Nat, chunked : BOOLEAN, close : BOOLEAN,
                          path : {"local", "sidecar", "nothing", "gateway", "upgrade", "unknown"}]

VARIABLES requests, \* what the client means to send
          sent,     \* [request, part] the client sends next
          gone,     \* the client has disconnected
          upload,   \* parts on their way to the proxy
          proxy,    \* [pc, request, body]: the connection's task, which request it read last
          gateway,  \* per request, what the Gateway got and answered
          download, \* parts on their way to the client
          client    \* [pc, results, garbled]: the client's decoder

vars == <<requests, sent, gone, upload, proxy, gateway, download, client>>

Ids == 1 .. Len(requests)
Req(i) == requests[i]
\* The nth part of the message that is request i, or its response.
Part(type, of, nth) == [type |-> type, of |-> of, nth |-> nth]
\* A request is its line, its headers, its body, and the last chunk of a
\* chunked body.
Size(i) == 2 + Req(i).body + (IF Req(i).chunked THEN 1 ELSE 0)
RequestPart(i, nth) == Part(CASE nth = 1 -> "line"
                              [] nth = 2 -> "headers"
                              [] nth > 2 /\ nth <= 2 + Req(i).body -> "body"
                              [] nth > 2 + Req(i).body -> "last", i, nth)
NoAnswer == [got |-> 0, state |-> "none", chunks |-> 0]

TypeOK ==
    /\ Len(requests) \in Nat
    /\ sent.request \in 1 .. Len(requests) + 1 /\ sent.part \in Nat
    /\ gone \in BOOLEAN
    /\ proxy.pc \in {"line", "headers", "body", "handle", "sending", "streaming", "upgrading",
                     "relaying", "closed"}
    /\ proxy.request \in 0 .. Len(requests) /\ proxy.body \in 0 .. Limit
    /\ \A i \in Ids : gateway[i].state \in {"none", "asked", "answering", "ended", "broken"}
    /\ client.pc \in {"head", "length", "chunked", "done"} /\ client.garbled \in BOOLEAN
    /\ \A k \in DOMAIN client.results :
          client.results[k].how \in {"complete", "truncated", "switched", "refused"}

Init ==
    /\ requests \in Connection
    /\ sent = [request |-> 1, part |-> 1]
    /\ gone = FALSE
    /\ upload = <<>>
    /\ proxy = [pc |-> "line", request |-> 0, body |-> 0]
    /\ gateway = [i \in Ids |-> NoAnswer]
    /\ download = <<>>
    /\ client = [pc |-> "head", results |-> <<>>, garbled |-> FALSE, chunks |-> 0]

(***************************************************************************)
(* The client sends.                                                       *)
(***************************************************************************)
Send ==
    LET i == sent.request IN
    /\ ~gone /\ i \in Ids
    /\ upload' = Append(upload, RequestPart(i, sent.part))
    /\ sent' = IF sent.part < Size(i) THEN [sent EXCEPT !.part = @ + 1]
               ELSE [request |-> i + 1, part |-> 1]
    /\ UNCHANGED <<requests, gone, proxy, gateway, download, client>>
Disconnect ==
    /\ ~gone /\ gone' = TRUE
    /\ UNCHANGED <<requests, sent, upload, proxy, gateway, download, client>>

(***************************************************************************)
(* The proxy reads a request.                                              *)
(***************************************************************************)
\* write_all waits for room, without a deadline; that the client has left is
\* seen by WriteFails, if at all.
Room == gone \/ Len(download) < Backlog
Write(parts) == Room /\ download' = download \o parts
Quiet == UNCHANGED <<requests, sent, gone, client>>
Here == proxy.request
Arrived(type) == upload # <<>> /\ Head(upload).type = type
Unexpected == upload # <<>> /\ CASE proxy.pc = "line" -> Head(upload).type # "line"
                                 [] proxy.pc = "headers" -> Head(upload).type # "headers"
                                 [] OTHER -> Head(upload).type \notin {"body", "last"}

\* write_plain_error with Connection: close, and the connection ends.
Refuse ==
    /\ Write(<<Part("refusal", Here, 1)>>)
    /\ proxy' = [proxy EXCEPT !.pc = "closed"]

\* A declared length before the body is read, chunks as they add up.
TooLarge(i, parts) == parts > Limit

ReadLine ==
    /\ proxy.pc = "line" /\ Arrived("line")
    /\ upload' = Tail(upload)
    /\ proxy' = [pc |-> "headers", request |-> Head(upload).of, body |-> 0]
    /\ UNCHANGED <<gateway, download>> /\ Quiet
ReadHeaders ==
    /\ proxy.pc = "headers" /\ Arrived("headers")
    /\ upload' = Tail(upload)
    /\ IF ~Req(Here).chunked /\ TooLarge(Here, Req(Here).body)
       THEN Refuse \* 413
       ELSE /\ proxy' = [proxy EXCEPT !.pc =
                            IF Req(Here).chunked \/ Req(Here).body > 0 THEN "body" ELSE "handle"]
            /\ UNCHANGED download
    /\ UNCHANGED gateway /\ Quiet

\* A content-length body ends with its last byte.
BodyEnds(i, parts) == parts = Req(i).body
ReadBody ==
    /\ proxy.pc = "body" /\ Arrived("body")
    /\ upload' = Tail(upload)
    /\ IF TooLarge(Here, proxy.body + 1)
       THEN Refuse
       ELSE /\ proxy' = [proxy EXCEPT !.body = @ + 1,
                            !.pc = IF ~Req(Here).chunked /\ BodyEnds(Here, proxy.body + 1)
                                   THEN "handle" ELSE "body"]
            /\ UNCHANGED download
    /\ UNCHANGED gateway /\ Quiet
ReadLastChunk ==
    /\ proxy.pc = "body" /\ Arrived("last")
    /\ upload' = Tail(upload)
    /\ proxy' = [proxy EXCEPT !.pc = "handle"]
    /\ UNCHANGED <<gateway, download>> /\ Quiet

\* No first byte for 15 seconds, or the client left between two requests.
EndIdle ==
    /\ proxy.pc = "line" /\ upload = <<>>
    /\ proxy' = [proxy EXCEPT !.pc = "closed"]
    /\ UNCHANGED <<upload, gateway, download>> /\ Quiet
\* HEADER_READ_TIMEOUT and BODY_READ_TIMEOUT.
Deadline == proxy.pc \in {"headers", "body"}
\* 408 after a deadline, 400 for a request that ends or goes on wrongly.
EndReading ==
    /\ \/ Deadline
       \/ proxy.pc \in {"headers", "body"} /\ gone /\ upload = <<>>
       \/ proxy.pc \in {"line", "headers", "body"} /\ Unexpected
    /\ Refuse
    /\ UNCHANGED <<upload, gateway>> /\ Quiet

(***************************************************************************)
(* The proxy answers.                                                      *)
(***************************************************************************)
\* The next request is waited for unless this one asked for a close.
NextRequest == [proxy EXCEPT !.pc = IF Req(Here).close THEN "closed" ELSE "line"]

\* The Anthropic host leaves out the body of an answer to HEAD, the sidecars
\* of the ChatGPT hosts do not.
Content(i) == Req(i).path # "nothing" /\ ~(Req(i).path = "local" /\ Req(i).head)

\* write_static_response.
AnswerLocally ==
    /\ proxy.pc = "handle" /\ Req(Here).path \in {"local", "sidecar", "nothing"}
    /\ Write(IF Content(Here) THEN <<Part("length", Here, 1), Part("content", Here, 2)>>
             ELSE <<Part("empty", Here, 1)>>)
    /\ proxy' = NextRequest
    /\ UNCHANGED <<upload, gateway>> /\ Quiet
\* A path that nobody serves ends the connection with an error.
Abandon ==
    /\ proxy.pc = "handle" /\ Req(Here).path = "unknown"
    /\ proxy' = [proxy EXCEPT !.pc = "closed"]
    /\ UNCHANGED <<upload, gateway, download>> /\ Quiet

\* forward_to_saiai: the request goes out with the body that was read.
Forward ==
    /\ proxy.pc = "handle" /\ Req(Here).path = "gateway"
    /\ gateway' = [gateway EXCEPT ![Here] = [got |-> proxy.body, state |-> "asked", chunks |-> 0]]
    /\ proxy' = [proxy EXCEPT !.pc = "sending"]
    /\ UNCHANGED <<upload, download>> /\ Quiet
\* The request phase fails: the connection ends without a response.
ForwardFails ==
    /\ proxy.pc = "sending"
    /\ gateway' = [gateway EXCEPT ![Here].state = "broken"]
    /\ proxy' = [proxy EXCEPT !.pc = "closed"]
    /\ UNCHANGED <<upload, download>> /\ Quiet
\* write_upstream_response: every status but 204 and 304 has a body, which
\* is chunked, whatever the method was.
GatewayAnswers(body) ==
    /\ proxy.pc = "sending"
    /\ gateway' = [gateway EXCEPT ![Here].state = IF body THEN "answering" ELSE "ended"]
    /\ Write(<<Part(IF body THEN "chunked" ELSE "empty", Here, 1)>>)
    /\ proxy' = IF body THEN [proxy EXCEPT !.pc = "streaming"] ELSE NextRequest
    /\ UNCHANGED upload /\ Quiet
GatewayChunk ==
    /\ proxy.pc = "streaming" /\ gateway[Here].chunks < MaxChunks /\ ~Req(Here).head
    /\ gateway' = [gateway EXCEPT ![Here].chunks = @ + 1]
    /\ Write(<<Part("chunk", Here, gateway[Here].chunks + 2)>>)
    /\ UNCHANGED <<upload, proxy>> /\ Quiet
GatewayEnds ==
    /\ proxy.pc = "streaming"
    /\ gateway' = [gateway EXCEPT ![Here].state = "ended"]
    /\ Write(<<Part("end", Here, gateway[Here].chunks + 2)>>)
    /\ proxy' = NextRequest
    /\ UNCHANGED upload /\ Quiet

\* BUG: the response is finished the same way when its stream breaks.
LastPartsAlways == <<Part("end", Here, gateway[Here].chunks + 2)>>
\* An interrupted stream is left without its last chunk.
LastParts == <<>>
GatewayBreaks ==
    /\ proxy.pc = "streaming"
    /\ gateway' = [gateway EXCEPT ![Here].state = "broken"]
    /\ download' = download \o LastParts
    /\ proxy' = [proxy EXCEPT !.pc = "closed"]
    /\ UNCHANGED upload /\ Quiet

\* serve_openai_websocket: the Gateway is asked first; its refusal is relayed
\* or replaced by a 502, or the request cannot be built; the connection ends.
Upgrade ==
    /\ proxy.pc = "handle" /\ Req(Here).path = "upgrade"
    /\ gateway' = [gateway EXCEPT ![Here] = [got |-> 0, state |-> "asked", chunks |-> 0]]
    /\ proxy' = [proxy EXCEPT !.pc = "upgrading"]
    /\ UNCHANGED <<upload, download>> /\ Quiet
UpgradeFails ==
    /\ proxy.pc = "upgrading"
    /\ gateway' = [gateway EXCEPT ![Here].state = "broken"]
    /\ \/ Refuse
       \/ proxy' = [proxy EXCEPT !.pc = "closed"] /\ UNCHANGED download
    /\ UNCHANGED upload /\ Quiet
Upgraded ==
    /\ proxy.pc = "upgrading"
    /\ gateway' = [gateway EXCEPT ![Here].state = "ended"]
    /\ Write(<<Part("switch", Here, 1)>>)
    /\ proxy' = [proxy EXCEPT !.pc = "relaying"]
    /\ UNCHANGED upload /\ Quiet

\* The client is gone: the next write fails and ends the connection.
WriteFails ==
    /\ gone /\ proxy.pc \in {"handle", "streaming"}
    /\ proxy' = [proxy EXCEPT !.pc = "closed"]
    /\ UNCHANGED <<upload, gateway, download>> /\ Quiet

(***************************************************************************)
(* The client decodes.  Its results belong to its requests in order; a     *)
(* response to HEAD and an empty one have no body; it reads nothing after  *)
(* the connection was to be closed.                                        *)
(***************************************************************************)
Decoding == Len(client.results) + 1
Result(how) == [client EXCEPT !.pc = IF how # "complete" \/ Req(Decoding).close THEN "done" ELSE "head",
                              !.results = Append(@, [of |-> Head(download).of, how |-> how,
                                                     chunks |-> client.chunks]),
                              !.chunks = 0]
Garbled == [client EXCEPT !.garbled = TRUE, !.pc = "done"]
Receive ==
    LET type == Head(download).type IN
    /\ ~gone /\ download # <<>> /\ client.pc # "done"
    /\ download' = Tail(download)
    /\ client' =
          CASE client.pc = "head" /\ Decoding \notin Ids -> Garbled
            [] client.pc = "head" /\ Decoding \in Ids /\ type = "refusal" -> Result("refused")
            [] client.pc = "head" /\ Decoding \in Ids /\ type = "switch" -> Result("switched")
            [] client.pc = "head" /\ Decoding \in Ids /\ type \in {"empty", "length", "chunked"} ->
                  IF type = "empty" \/ Req(Decoding).head THEN Result("complete")
                  ELSE [client EXCEPT !.pc = type]
            [] client.pc = "length" /\ type = "content" -> Result("complete")
            [] client.pc = "chunked" /\ type = "chunk" -> [client EXCEPT !.chunks = @ + 1]
            [] client.pc = "chunked" /\ type = "end" -> Result("complete")
            [] OTHER -> Garbled
    /\ UNCHANGED <<requests, sent, gone, upload, proxy, gateway>>
\* The connection was closed inside a body.
ReceiveEnd ==
    /\ proxy.pc = "closed" /\ download = <<>> /\ client.pc \in {"length", "chunked"}
    /\ client' = [client EXCEPT !.pc = "done",
                     !.results = Append(@, [of |-> Decoding, how |-> "truncated", chunks |-> client.chunks])]
    /\ UNCHANGED <<requests, sent, gone, upload, proxy, gateway, download>>

Reading == ReadLine \/ ReadHeaders \/ ReadBody \/ ReadLastChunk \/ EndIdle \/ EndReading
Answering == AnswerLocally \/ Abandon \/ Forward \/ Upgrade
GatewayStep == ForwardFails \/ GatewayEnds \/ GatewayBreaks \/ UpgradeFails \/ Upgraded
           \/ \E body \in BOOLEAN : GatewayAnswers(body)

Next == Send \/ Disconnect \/ Reading \/ Answering \/ GatewayStep \/ GatewayChunk \/ WriteFails
        \/ Receive \/ ReceiveEnd
Spec == Init /\ [][Next]_vars

\* The task is scheduled and its deadlines expire; the Gateway answers in the
\* end (nothing bounds the wait for it).  No fairness of the client: that it
\* reads on, or leaves, is the premise of what needs it.
ClientStep == Receive \/ ReceiveEnd \/ (client.pc = "done" /\ Disconnect)
FairSpec == Spec /\ WF_vars(Reading) /\ WF_vars(Answering) /\ WF_vars(GatewayStep)

(***************************************************************************)
(* Properties.                                                             *)
(***************************************************************************)
\* A HEAD that a sidecar or the Gateway answers gets a body, or at least the
\* end of a chunked one (local_proxy.rs:2147): whatever follows it on the
\* connection is out of step.
OutOfStep == \E i \in 1 .. proxy.request : Req(i).head /\ Req(i).path \in {"sidecar", "gateway"}

\* However requests are pipelined and responses framed, the client never
\* finds anything but the response to its next request: what follows one
\* response on a connection that is kept alive is the start of the next.
ResponsesInStep ==
    /\ ~client.garbled
    /\ \A k \in DOMAIN client.results : client.results[k].of = k

\* A Gateway response that broke off is never taken for a complete one, and
\* a complete one has all its parts.
TruncationVisible ==
    \A k \in DOMAIN client.results :
        client.results[k].how = "complete" /\ Req(k).path = "gateway" =>
            gateway[k].state = "ended" /\ client.results[k].chunks = gateway[k].chunks

\* The Gateway only gets whole requests within the limit: no partial upload
\* is forwarded (docs/CLIENT_DESIGN.md, the upload limits).
OnlyWholeRequests ==
    \A i \in Ids : gateway[i].state # "none" /\ Req(i).path = "gateway" =>
        gateway[i].got = Req(i).body /\ gateway[i].got <= Limit

\* The client and the Gateway each see whole messages, in order.
MessagesAreWhole == (OutOfStep \/ (ResponsesInStep /\ TruncationVisible)) /\ OnlyWholeRequests

\* A request that stops half-way ends at its deadline, whatever the client
\* does, unless the 408 waits for room.  One that was begun ends, with an
\* answer or with the connection, if the client reads on or leaves: a write
\* to it has no deadline.
StallsEnd == []<>(proxy.pc \in {"headers", "body"} => ~Room)
RequestsEnd == StallsEnd /\ (WF_vars(ClientStep) => []<>(proxy.pc \in {"line", "closed", "relaying"}))
=============================================================================

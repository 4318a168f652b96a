---------------------------- MODULE RequestsProofs ----------------------------
(***************************************************************************)
(* Proofs about requests and messages through the local proxy: for every   *)
(* set of requests, any number of them on a connection, and bodies of any  *)
(* length, the client and the Gateway only see whole messages              *)
(* (ManagedConnection, ChatInit); for every capacity of the sockets and    *)
(* any number of messages, the relay implements DuplexChannel              *)
(* (WebSocketRelay).                                                       *)
(***************************************************************************)
EXTENDS MCRequests, TLAPS

(***************************************************************************)
(* Requests on a connection.  A place is a request and a part of it.       *)
(***************************************************************************)
PlaceOf(x) == [request |-> x.of, part |-> x.nth]
After(x) == IF x.nth < C!Size(x.of) THEN [request |-> x.of, part |-> x.nth + 1]
            ELSE [request |-> x.of + 1, part |-> 1]
\* The place of the part that the proxy will read.
ReadPlace == CASE proxy.pc = "line" -> [request |-> proxy.request + 1, part |-> 1]
               [] proxy.pc = "headers" -> [request |-> proxy.request, part |-> 2]
               [] proxy.pc = "body" -> [request |-> proxy.request, part |-> 3 + proxy.body]
               [] OTHER -> [request |-> proxy.request + 1, part |-> 1]
Over == proxy.pc \in {"closed", "relaying"}

\* Types.
RequestParts == [type : {"line", "headers", "body", "last"}, of : Nat, nth : Nat]
PlaceType == [request : Nat \ {0}, part : Nat \ {0}]
UploadPart(x) ==
    /\ x.of \in C!Ids /\ x.nth \in 1 .. C!Size(x.of)
    /\ x = C!RequestPart(x.of, x.nth)
ProxyType == [pc : {"line", "headers", "body", "handle", "sending", "streaming", "upgrading", "relaying", "closed"},
              request : Nat, body : Nat]
GatewayType == [got : Nat, state : {"none", "asked", "answering", "ended", "broken"}, chunks : Nat]
ResultType == [of : Nat, how : {"complete", "truncated", "switched", "refused"}, chunks : Nat]
ClientType == [pc : {"head", "length", "chunked", "done"}, results : Seq(ResultType), garbled : BOOLEAN, chunks : Nat]
Answers == [type : {"refusal", "switch", "empty", "length", "content", "chunked", "chunk", "end"},
            of : Nat, nth : Nat \ {0}]
ConnectionTypes ==
    /\ requests \in Carried /\ left \in BOOLEAN
    /\ sending \in PlaceType
    /\ proxy \in ProxyType /\ gateway \in [C!Ids -> GatewayType]
    /\ client \in ClientType
    /\ download \in Seq(Answers)
    /\ upload \in Seq(RequestParts)

\* What waits is a stretch of the requests, from where the proxy reads to where
\* the client writes.
Uploaded ==
    /\ sending.request \in C!Ids => sending.part \in 1 .. C!Size(sending.request)
    /\ sending.request \notin C!Ids => sending.part = 1 /\ sending.request = Len(requests) + 1
    /\ \A k \in 1 .. Len(upload) : UploadPart(upload[k])
    /\ \A k \in 1 .. Len(upload) - 1 : PlaceOf(upload[k + 1]) = After(upload[k])
    /\ upload # <<>> => After(upload[Len(upload)]) = sending
    /\ ~Over => ReadPlace = (IF upload = <<>> THEN sending ELSE PlaceOf(Head(upload)))

\* The request that the proxy is at.
AtRequest ==
    /\ proxy.pc # "line" => proxy.request \in C!Ids \/ Over
    /\ proxy.body <= Limit
    /\ proxy.pc = "headers" => proxy.body = 0
    /\ proxy.pc = "body" => IF C!Req(proxy.request).chunked THEN proxy.body <= C!Req(proxy.request).body
                            ELSE proxy.body < C!Req(proxy.request).body
    /\ proxy.pc = "handle" => proxy.body = C!Req(proxy.request).body
    /\ proxy.pc \in {"sending", "streaming"} => C!Req(proxy.request).path = "gateway"
    /\ proxy.pc = "upgrading" => C!Req(proxy.request).path = "upgrade"

\* How far the Gateway is.
AtGateway ==
    /\ C!OnlyWholeRequests
    /\ \A i \in C!Ids :
          i > proxy.request \/ (i = proxy.request /\ proxy.pc \in {"headers", "body", "handle"})
          => gateway[i] = C!NoAnswer
    /\ proxy.pc \in {"sending", "upgrading"} => gateway[proxy.request].state = "asked" /\ gateway[proxy.request].chunks = 0
    /\ proxy.pc = "streaming" => gateway[proxy.request].state = "answering"

(***************************************************************************)
(* Responses on a connection.                                              *)
(***************************************************************************)
\* All of the response to a request of the Gateway is there.
Whole(i, chunks, g) == C!Req(i).path = "gateway" => g[i].state = "ended" /\ g[i].chunks = chunks
AnswerPart(x, g) ==
    /\ x.of \in C!Ids
    /\ x.type \in {"length", "content", "chunked", "chunk", "end"} => ~C!Req(x.of).head
    /\ x.type \in {"length", "content"} => C!Req(x.of).path # "gateway"
    /\ x.type = "empty" => Whole(x.of, 0, g)
    /\ x.type = "end" => Whole(x.of, x.nth - 2, g)
\* A response, its next part, and the next response.
Starts(x, i) == /\ x.type \in {"refusal", "switch", "empty", "length", "chunked"}
                /\ x.of = i /\ x.nth = 1
GoesOn(x, i, type, nth) == /\ x.of = i /\ x.nth = nth
                              /\ x.type \in (IF type = "length" THEN {"content"} ELSE {"chunk", "end"})
Succeeds(x, y) ==
    \/ x.type \in {"length", "chunked", "chunk"} /\ GoesOn(y, x.of, x.type, x.nth + 1)
    \/ x.type \in {"empty", "content", "end"} /\ ~C!Req(x.of).close /\ Starts(y, x.of + 1)
\* What a client waits for.
Awaits(x, c) ==
    LET n == Len(c.results) + 1 IN
    CASE c.pc = "head" -> Starts(x, n)
      [] c.pc = "length" -> GoesOn(x, n, "length", 2)
      [] c.pc = "chunked" -> GoesOn(x, n, "chunked", c.chunks + 2)
      [] OTHER -> TRUE
Downloaded ==
    /\ \A k \in 1 .. Len(download) : AnswerPart(download[k], gateway)
    /\ \A k \in 1 .. Len(download) - 1 : Succeeds(download[k], download[k + 1])
    /\ download # <<>> => Awaits(Head(download), client)

\* The responses up to one are written, and the connection goes on.
Between(n) ==
    IF download = <<>> THEN client.pc = "done" \/ (client.pc = "head" /\ Len(client.results) = n)
    ELSE LET x == download[Len(download)] IN x.type \in {"empty", "content", "end"} /\ x.of = n /\ ~C!Req(n).close
\* A response of the Gateway is being written.
Amid(n) ==
    IF download = <<>> THEN \/ client.pc = "done"
                            \/ client.pc = "chunked" /\ C!Decoding = n /\ client.chunks = gateway[n].chunks
    ELSE LET x == download[Len(download)] IN x.type \in {"chunked", "chunk"} /\ x.of = n /\ x.nth = gateway[n].chunks + 1
Written ==
    /\ proxy.pc = "line" => Between(proxy.request)
    /\ proxy.pc \in {"headers", "body", "handle", "sending", "upgrading"} => Between(proxy.request - 1)
    /\ proxy.pc = "streaming" => Amid(proxy.request) /\ ~C!Req(proxy.request).head

\* What the client has read.
ReadWhole ==
    /\ C!ResponsesInStep /\ C!TruncationVisible
    /\ Len(client.results) <= Len(requests)
    /\ client.pc \in {"head", "length"} => client.chunks = 0
    /\ client.pc \in {"length", "chunked"} => C!Decoding \in C!Ids

\* Until a HEAD was read whose answer has a body, the responses are in step.
InStep == Downloaded /\ Written /\ ReadWhole
ConnectionInv == ConnectionTypes /\ Uploaded /\ AtRequest /\ AtGateway /\ (C!OutOfStep \/ InStep)

(***************************************************************************)
(* The answer to a new chat.                                               *)
(***************************************************************************)
ReplyType == [json : BOOLEAN, content : {"defaults", "limits", "neither"}, parts : 0 .. MaxParts]
HoldType == [pc : {"idle", "asked", "holding", "streaming", "done"}, restore : BOOLEAN, parts : 0 .. Limit]
SeenType == [parts : 0 .. MaxParts, adjusted : BOOLEAN, end : {"open", "complete", "broken"}]
ChatInv ==
    /\ I!TypeOK /\ I!ChoiceIsRestored
    /\ seen.end = "open" <=> hold.pc # "done"
    /\ hold.pc \in {"idle", "asked"} => reply.parts = 0 /\ seen.parts = 0 /\ hold.parts = 0 /\ ~seen.adjusted
    /\ hold.pc = "holding" => hold.restore /\ reply.json /\ reply.parts = hold.parts /\ seen.parts = 0 /\ ~seen.adjusted
    /\ hold.pc = "streaming" => /\ seen.parts = reply.parts /\ hold.parts = 0 /\ ~seen.adjusted
                                /\ ~(hold.restore /\ reply.json) \/ reply.parts > Limit

(***************************************************************************)
(* Requests and what waits of them.                                        *)
(***************************************************************************)
LEMMA RequestsAre ==
    ASSUME requests \in Carried
    PROVE  /\ Len(requests) \in Nat
           /\ \A i \in C!Ids : /\ C!Req(i).body \in Nat
                               /\ C!Req(i).path \in {"local", "sidecar", "nothing", "gateway", "upgrade", "unknown"}
                               /\ C!Size(i) \in Nat \ {0, 1}
<1>1. requests \in Seq(Asked)
  BY PartsAssumption DEF C!ConnectionAssumption
<1>2. ASSUME NEW i \in C!Ids
      PROVE  C!Req(i) \in Asked
  BY <1>1 DEF C!Ids, C!Req
<1> QED BY <1>1, <1>2, PartsAssumption DEF C!ConnectionAssumption, C!Size

LEMMA SizeIs ==
    ASSUME requests \in Carried, NEW i \in C!Ids
    PROVE  /\ C!Req(i).chunked => C!Size(i) = 3 + C!Req(i).body
           /\ ~C!Req(i).chunked => C!Size(i) = 2 + C!Req(i).body
           /\ C!Req(i).body \in Nat
BY RequestsAre DEF C!Size

\* What a part of a request is, by its place.
LEMMA PartAt ==
    ASSUME requests \in Carried, NEW x, UploadPart(x)
    PROVE  /\ x.of \in Nat \ {0} /\ x.nth \in Nat \ {0} /\ C!Req(x.of).body \in Nat
           /\ x.nth = 1 <=> x.type = "line"
           /\ x.nth = 2 <=> x.type = "headers"
           /\ x.nth > 2 /\ x.nth <= 2 + C!Req(x.of).body <=> x.type = "body"
           /\ x.type = "last" <=> x.nth > 2 + C!Req(x.of).body
           /\ x.type = "last" => C!Req(x.of).chunked /\ x.nth = C!Size(x.of) /\ x.nth = 3 + C!Req(x.of).body
           /\ x \in RequestParts
<1>1. x.of \in Nat \ {0} /\ x.nth \in Nat \ {0} /\ x.nth <= C!Size(x.of) /\ C!Req(x.of).body \in Nat
  BY RequestsAre DEF UploadPart, C!Ids
<1>2. x = C!Part(x.type, x.of, x.nth)
      /\ x.type = CASE x.nth = 1 -> "line" [] x.nth = 2 -> "headers"
                    [] x.nth > 2 /\ x.nth <= 2 + C!Req(x.of).body -> "body"
                    [] x.nth > 2 + C!Req(x.of).body -> "last"
  <2> DEFINE type == CASE x.nth = 1 -> "line" [] x.nth = 2 -> "headers"
                       [] x.nth > 2 /\ x.nth <= 2 + C!Req(x.of).body -> "body"
                       [] x.nth > 2 + C!Req(x.of).body -> "last"
  <2>1. x = [type |-> type, of |-> x.of, nth |-> x.nth]
    BY DEF UploadPart, C!RequestPart, C!Part
  <2> HIDE DEF type
  <2>2. x.type = type
    BY <2>1
  <2> QED BY <2>1, <2>2 DEF type, C!Part
<1>3. \/ x.nth = 1 /\ x.type = "line"
      \/ x.nth = 2 /\ x.type = "headers"
      \/ x.nth > 2 /\ x.nth <= 2 + C!Req(x.of).body /\ x.type = "body"
      \/ x.nth > 2 + C!Req(x.of).body /\ x.nth > 2 /\ x.type = "last"
  BY <1>1, <1>2
<1>4. x.type = "last" => C!Req(x.of).chunked /\ x.nth = C!Size(x.of) /\ x.nth = 3 + C!Req(x.of).body
  BY <1>1, <1>3 DEF C!Size
<1>5. x \in RequestParts
  BY <1>1, <1>2, <1>3 DEF C!Part, RequestParts
<1> QED BY <1>1, <1>3, <1>4, <1>5

\* The parts that wait, without what the proxy makes of them.
Waiting ==
    /\ sending.request \in C!Ids => sending.part \in 1 .. C!Size(sending.request)
    /\ sending.request \notin C!Ids => sending.part = 1 /\ sending.request = Len(requests) + 1
    /\ \A k \in 1 .. Len(upload) : UploadPart(upload[k])
    /\ \A k \in 1 .. Len(upload) - 1 : PlaceOf(upload[k + 1]) = After(upload[k])
    /\ upload # <<>> => After(upload[Len(upload)]) = sending
NextPlace == IF upload = <<>> THEN sending ELSE PlaceOf(Head(upload))

LEMMA UploadedIs == Uploaded <=> Waiting /\ (~Over => ReadPlace = NextPlace)
BY DEF Uploaded, Waiting, NextPlace
LEMMA UploadedThen == Uploaded' <=> Waiting' /\ (~Over' => ReadPlace' = NextPlace')
BY DEF Uploaded, Waiting, NextPlace
\* What waits after a step.
LEMMA WaitingThen ==
    ASSUME requests' = requests,
           sending'.request \in C!Ids => sending'.part \in 1 .. C!Size(sending'.request),
           sending'.request \notin C!Ids => sending'.part = 1 /\ sending'.request = Len(requests) + 1,
           \A k \in 1 .. Len(upload') : UploadPart(upload'[k]),
           \A k \in 1 .. Len(upload') - 1 : PlaceOf(upload'[k + 1]) = After(upload'[k]),
           upload' # <<>> => After(upload'[Len(upload')]) = sending'
    PROVE  Waiting'
BY DEF Waiting, UploadPart, C!Ids, C!Size, C!Req, C!RequestPart, PlaceOf, After

LEMMA EmptyIs == ASSUME NEW S, NEW q \in Seq(S) PROVE q = <<>> <=> Len(q) = 0
OBVIOUS
\* The first of a queue is taken, or another is put behind its last.
LEMMA Taken ==
    ASSUME NEW S, NEW q \in Seq(S), q # <<>>
    PROVE  /\ Tail(q) \in Seq(S) /\ Len(q) \in Nat \ {0} /\ Len(Tail(q)) = Len(q) - 1
           /\ \A k \in 1 .. Len(q) - 1 : Tail(q)[k] = q[k + 1]
           /\ Tail(q) = <<>> <=> Len(q) = 1
           /\ Tail(q) # <<>> => Head(Tail(q)) = q[2]
           /\ Head(q) = q[1]
<1>1. Len(q) \in Nat \ {0} /\ Tail(q) \in Seq(S) /\ Len(Tail(q)) = Len(q) - 1 /\ Head(q) = q[1]
  OBVIOUS
<1>2. \A k \in 1 .. Len(q) - 1 : Tail(q)[k] = q[k + 1]
  OBVIOUS
<1>3. Tail(q) = <<>> <=> Len(q) = 1
  <2>1. Tail(q) = <<>> <=> Len(Tail(q)) = 0
    BY <1>1, EmptyIs
  <2> QED BY <1>1, <2>1
<1>4. Tail(q) # <<>> => Head(Tail(q)) = q[2]
  <2>1. Tail(q) # <<>> => 1 \in 1 .. Len(q) - 1
    BY <1>1, <1>3
  <2> QED BY <1>1, <1>2, <2>1
<1> QED BY <1>1, <1>2, <1>3, <1>4
LEMMA PutBehind ==
    ASSUME NEW S, NEW q \in Seq(S), NEW x \in S
    PROVE  /\ Append(q, x) \in Seq(S) /\ Len(q) \in Nat /\ Len(Append(q, x)) = Len(q) + 1 /\ Append(q, x) # <<>>
           /\ Append(q, x)[Len(q) + 1] = x
           /\ \A k \in 1 .. Len(q) : Append(q, x)[k] = q[k]
           /\ q = <<>> => Head(Append(q, x)) = x
           /\ q # <<>> => Head(Append(q, x)) = Head(q) /\ Len(q) > 0
OBVIOUS

LEMMA Joined ==
    ASSUME NEW S, NEW q \in Seq(S), NEW s \in Seq(S), s # <<>>
    PROVE  /\ q \o s \in Seq(S) /\ Len(q) \in Nat /\ Len(s) \in Nat \ {0} /\ Len(q \o s) = Len(q) + Len(s)
           /\ q \o s # <<>>
           /\ \A k \in 1 .. Len(q) : (q \o s)[k] = q[k]
           /\ \A k \in 1 .. Len(s) : (q \o s)[Len(q) + k] = s[k]
           /\ q = <<>> => Head(q \o s) = s[1]
           /\ q # <<>> => Head(q \o s) = Head(q) /\ Len(q) > 0
<1>1. q \o s \in Seq(S) /\ Len(q) \in Nat /\ Len(s) \in Nat \ {0} /\ Len(q \o s) = Len(q) + Len(s)
  BY EmptyIs
<1>2. \A k \in 1 .. Len(q) + Len(s) : (q \o s)[k] = IF k <= Len(q) THEN q[k] ELSE s[k - Len(q)]
  OBVIOUS
<1>3. q \o s # <<>> /\ (q # <<>> => Len(q) > 0)
  BY <1>1, EmptyIs
<1>4. \A k \in 1 .. Len(s) : (q \o s)[Len(q) + k] = s[k]
  <2>1. ASSUME NEW k \in 1 .. Len(s)
        PROVE  Len(q) + k \in 1 .. Len(q) + Len(s) /\ ~(Len(q) + k <= Len(q)) /\ (Len(q) + k) - Len(q) = k
    BY <1>1, <2>1
  <2> QED BY <1>2, <2>1
<1>5. \A k \in 1 .. Len(q) : (q \o s)[k] = q[k]
  BY <1>1, <1>2
<1>6. Head(q \o s) = (q \o s)[1] /\ (q # <<>> => Head(q) = q[1])
  BY <1>1, <1>3
<1>7. q = <<>> => Len(q) = 0
  OBVIOUS
<1> QED BY <1>1, <1>3, <1>4, <1>5, <1>6, <1>7

LEMMA SentQueue ==
    ASSUME ConnectionTypes, Waiting, C!Send
    PROVE  /\ Waiting' /\ NextPlace' = NextPlace
           /\ sending' \in PlaceType
           /\ upload' \in Seq(RequestParts)
<1> DEFINE i == sending.request
           x == C!RequestPart(i, sending.part)
<1>1. /\ i \in C!Ids /\ i \in Nat \ {0} /\ sending.part \in 1 .. C!Size(i)
      /\ requests \in Carried /\ Len(requests) \in Nat /\ C!Size(i) \in Nat
      /\ upload \in Seq(RequestParts)
  BY RequestsAre DEF C!Send, Waiting, ConnectionTypes, C!Ids
<1>2. x.of = i /\ x.nth = sending.part /\ UploadPart(x)
  BY <1>1 DEF C!RequestPart, C!Part, UploadPart
<1>3. /\ upload' = Append(upload, x) /\ requests' = requests
      /\ sending' = IF sending.part < C!Size(i) THEN [sending EXCEPT !.part = @ + 1] ELSE [request |-> i + 1, part |-> 1]
  BY DEF C!Send
<1>4. sending = [request |-> i, part |-> sending.part]
  BY DEF ConnectionTypes, PlaceType
<1>5. sending' = After(x)
  BY <1>2, <1>3, <1>4 DEF After
<1>6. /\ sending'.request \in C!Ids => sending'.part \in 1 .. C!Size(sending'.request)
      /\ sending'.request \notin C!Ids => sending'.part = 1 /\ sending'.request = Len(requests) + 1
      /\ sending' \in PlaceType
  <2>1. CASE sending.part < C!Size(i)
    BY <2>1, <1>1, <1>2, <1>5 DEF After, PlaceType
  <2>2. CASE ~(sending.part < C!Size(i))
    BY <2>2, <1>1, <1>2, <1>5, RequestsAre DEF After, PlaceType, C!Ids
  <2> QED BY <2>1, <2>2
<1>7. x \in RequestParts
  BY <1>1, <1>2, PartAt
<1> HIDE DEF x, i
<1>8. /\ upload' \in Seq(RequestParts)
      /\ Len(upload') = Len(upload) + 1 /\ upload'[Len(upload) + 1] = x /\ Len(upload) \in Nat
      /\ \A k \in 1 .. Len(upload) : upload'[k] = upload[k]
      /\ upload = <<>> => Head(upload') = x
      /\ upload # <<>> => Head(upload') = Head(upload) /\ Len(upload) > 0
      /\ upload' # <<>>
  BY <1>1, <1>3, <1>7, PutBehind
<1>9. \A k \in 1 .. Len(upload') : UploadPart(upload'[k])
  <2>1. \A k \in 1 .. Len(upload) : UploadPart(upload'[k])
    BY <1>8 DEF Waiting
  <2>2. \A k \in 1 .. Len(upload') : k \in 1 .. Len(upload) \/ k = Len(upload) + 1
    BY <1>8
  <2> QED BY <1>2, <1>8, <2>1, <2>2
<1>10. \A k \in 1 .. Len(upload') - 1 : PlaceOf(upload'[k + 1]) = After(upload'[k])
  <2>1. upload # <<>> => PlaceOf(x) = After(upload[Len(upload)])
    BY <1>2, <1>4 DEF Waiting, PlaceOf, i
  <2>2. \A k \in 1 .. Len(upload') - 1 :
           k \in 1 .. Len(upload) /\ upload # <<>>
           /\ ((k \in 1 .. Len(upload) - 1 /\ k + 1 \in 1 .. Len(upload)) \/ k = Len(upload))
    BY <1>1, <1>8
  <2>3. \A k \in 1 .. Len(upload) - 1 : PlaceOf(upload[k + 1]) = After(upload[k])
    BY DEF Waiting
  <2> QED BY <2>1, <2>2, <2>3, <1>8
<1>11. upload = <<>> => PlaceOf(Head(upload')) = sending
  BY <1>2, <1>4, <1>8 DEF PlaceOf, i
<1>12. After(upload'[Len(upload')]) = sending'
  BY <1>5, <1>8
<1>13. Waiting'
  BY <1>3, <1>6, <1>9, <1>10, <1>12, WaitingThen
<1> QED BY <1>6, <1>8, <1>11, <1>13 DEF NextPlace, PlaceOf

LEMMA ReadQueue ==
    ASSUME ConnectionTypes, Waiting, upload # <<>>, upload' = Tail(upload), UNCHANGED <<requests, sending>>
    PROVE  /\ Waiting' /\ NextPlace' = After(Head(upload))
           /\ upload' \in Seq(RequestParts)
           /\ UploadPart(Head(upload)) /\ NextPlace = PlaceOf(Head(upload))
<1>1. /\ upload \in Seq(RequestParts)
      /\ Len(upload) \in Nat \ {0} /\ Head(upload) = upload[1]
  BY DEF ConnectionTypes
<1>2. /\ upload' \in Seq(RequestParts)
      /\ Len(upload') = Len(upload) - 1
      /\ \A k \in 1 .. Len(upload') : upload'[k] = upload[k + 1]
      /\ upload' = <<>> <=> Len(upload) = 1
      /\ upload' # <<>> => Head(upload') = upload[2]
  BY <1>1, Taken
<1>3. \A k \in 1 .. Len(upload') : UploadPart(upload'[k])
  BY <1>1, <1>2 DEF Waiting
<1>4. \A k \in 1 .. Len(upload') - 1 : PlaceOf(upload'[k + 1]) = After(upload'[k])
  <2>1. \A k \in 1 .. Len(upload') - 1 : k \in 1 .. Len(upload') /\ k + 1 \in 1 .. Len(upload') /\ k + 1 \in 1 .. Len(upload) - 1
    BY <1>1, <1>2
  <2> QED BY <1>2, <2>1 DEF Waiting
<1>5. upload' # <<>> => After(upload'[Len(upload')]) = sending
  <2>1. upload' # <<>> => Len(upload') \in 1 .. Len(upload') /\ Len(upload') + 1 = Len(upload)
    BY <1>1, <1>2
  <2> QED BY <1>2, <2>1 DEF Waiting
<1>6. IF upload' = <<>> THEN sending = After(Head(upload)) ELSE PlaceOf(Head(upload')) = After(Head(upload))
  <2>1. Len(upload) = 1 => After(Head(upload)) = sending
    BY <1>1 DEF Waiting
  <2>2. ASSUME NEW n \in Nat \ {0}, n # 1 PROVE 1 \in 1 .. n - 1
    BY <2>2
  <2>3. Len(upload) # 1 => 1 \in 1 .. Len(upload) - 1
    BY <1>1, <2>2
  <2>4. Len(upload) # 1 => PlaceOf(upload[1 + 1]) = After(upload[1])
    BY <2>3 DEF Waiting
  <2> QED BY <1>1, <1>2, <2>1, <2>4
<1>7. Waiting'
  BY <1>3, <1>4, <1>5, WaitingThen DEF Waiting
<1> QED BY <1>1, <1>2, <1>6, <1>7 DEF NextPlace, PlaceOf, Waiting

(***************************************************************************)
(* Responses, written and read.                                            *)
(***************************************************************************)
\* A response of the Gateway that has ended stays as it is.
Keeps == requests' = requests /\ \A i \in C!Ids : gateway[i].state = "ended" => gateway'[i] = gateway[i]

LEMMA AnswerStays == ASSUME Keeps, NEW x, AnswerPart(x, gateway) PROVE AnswerPart(x, gateway')
BY DEF Keeps, AnswerPart, Whole

\* What waits after a step.
LEMMA DownloadedThen ==
    ASSUME requests' = requests,
           \A k \in 1 .. Len(download') : AnswerPart(download'[k], gateway'),
           \A k \in 1 .. Len(download') - 1 : Succeeds(download'[k], download'[k + 1]),
           download' # <<>> => Awaits(Head(download'), client')
    PROVE  Downloaded'
BY DEF Downloaded, AnswerPart, Whole, Succeeds, Starts, GoesOn, Awaits, C!Ids, C!Req

\* Nothing is written.
LEMMA NothingWritten ==
    ASSUME Downloaded, Keeps, UNCHANGED <<download, client>>
    PROVE  Downloaded'
<1>1. \A k \in 1 .. Len(download) : AnswerPart(download[k], gateway')
  BY AnswerStays DEF Downloaded
<1> QED BY <1>1, DownloadedThen DEF Downloaded, Keeps

LEMMA ReadStays ==
    ASSUME ReadWhole, Keeps, client' = client, ConnectionTypes
    PROVE  ReadWhole'
<1>1. C!TruncationVisible'
  <2>1. ASSUME NEW k \in DOMAIN client.results
        PROVE  k \in C!Ids
    BY <2>1, RequestsAre DEF ReadWhole, ConnectionTypes, ClientType, C!Ids
  <2> QED BY <2>1 DEF ReadWhole, C!TruncationVisible, Keeps, C!Req
<1> QED BY <1>1 DEF ReadWhole, Keeps, C!ResponsesInStep, C!Decoding, C!Ids

\* What is written continues what is there.
Fits(x) == IF download = <<>> THEN Awaits(x, client) ELSE Succeeds(download[Len(download)], x)
LEMMA PartsPut ==
    ASSUME ConnectionTypes, NEW s \in Seq(Answers), s # <<>>, C!Write(s)
    PROVE  download' \in Seq(Answers) /\ download' # <<>> /\ download'[Len(download')] = s[Len(s)]
<1>1. /\ download \in Seq(Answers) /\ download' \in Seq(Answers) /\ Len(download) \in Nat /\ Len(s) \in Nat \ {0}
      /\ Len(download') = Len(download) + Len(s) /\ download' # <<>>
      /\ \A k \in 1 .. Len(s) : download'[Len(download) + k] = s[k]
  BY Joined DEF ConnectionTypes, C!Write
<1>2. Len(s) \in 1 .. Len(s)
  BY <1>1
<1> QED BY <1>1, <1>2
LEMMA PartsWritten ==
    ASSUME Downloaded, ConnectionTypes, Keeps, NEW s \in Seq(Answers), s # <<>>, C!Write(s), client' = client,
           \A k \in 1 .. Len(s) : AnswerPart(s[k], gateway'),
           \A k \in 1 .. Len(s) - 1 : Succeeds(s[k], s[k + 1]),
           Fits(s[1])
    PROVE  Downloaded'
<1> DEFINE n == Len(download)
<1>0. download = <<>> => n = 0
  BY EmptyIs DEF ConnectionTypes
<1>1. /\ download \in Seq(Answers) /\ download' \in Seq(Answers) /\ n \in Nat /\ Len(s) \in Nat \ {0}
      /\ Len(download') = n + Len(s) /\ download' # <<>>
      /\ \A k \in 1 .. n : download'[k] = download[k]
      /\ \A k \in 1 .. Len(s) : download'[n + k] = s[k]
      /\ download = <<>> => Head(download') = s[1]
      /\ download # <<>> => Head(download') = Head(download) /\ n > 0
  BY Joined DEF ConnectionTypes, C!Write
<1> HIDE DEF n
<1>2. \A k \in 1 .. Len(download') : AnswerPart(download'[k], gateway')
  <2>1. \A k \in 1 .. n : AnswerPart(download'[k], gateway')
    BY <1>1, AnswerStays DEF Downloaded, n
  <2>2. \A k \in 1 .. Len(download') : k \in 1 .. n \/ (k - n \in 1 .. Len(s) /\ n + (k - n) = k)
    BY <1>1
  <2>3. \A k \in 1 .. Len(s) : AnswerPart(download'[n + k], gateway')
    BY <1>1
  <2> QED BY <2>1, <2>2, <2>3
<1>3. ASSUME NEW k \in 1 .. Len(download') - 1
      PROVE  Succeeds(download'[k], download'[k + 1])
  <2>1. CASE k < n
    <3>1. k \in 1 .. n - 1 /\ k \in 1 .. n /\ k + 1 \in 1 .. n
      BY <1>1, <2>1
    <3> QED BY <1>1, <3>1 DEF Downloaded, n
  <2>2. CASE k = n
    <3>1. n \in 1 .. n /\ 1 \in 1 .. Len(s) /\ download # <<>>
      BY <1>0, <1>1, <2>2
    <3>2. download'[n] = download[n] /\ download'[n + 1] = s[1]
      BY <1>1, <3>1
    <3> QED BY <2>2, <3>1, <3>2 DEF Fits, n
  <2>3. CASE k > n
    <3>1. k - n \in 1 .. Len(s) - 1 /\ k - n \in 1 .. Len(s) /\ k - n + 1 \in 1 .. Len(s)
          /\ n + (k - n) = k /\ n + (k - n + 1) = k + 1
      BY <1>1, <2>3
    <3>2. download'[k] = s[k - n] /\ download'[k + 1] = s[k - n + 1]
      BY <1>1, <3>1
    <3> QED BY <3>1, <3>2
  <2> QED BY <1>1, <2>1, <2>2, <2>3
<1>4. Awaits(Head(download'), client')
  <2>1. CASE download = <<>>
    BY <2>1, <1>1 DEF Fits
  <2>2. CASE download # <<>>
    BY <2>2, <1>1 DEF Downloaded
  <2> QED BY <2>1, <2>2
<1> QED BY <1>1, <1>2, <1>3, <1>4, DownloadedThen DEF Keeps

\* What fits behind a response, or into it.
LEMMA FitsNext ==
    ASSUME ConnectionTypes, NEW n \in Nat, Between(n), NEW x, Starts(x, n + 1)
    PROVE  Fits(x)
BY DEF Between, Fits, Succeeds, Awaits, ConnectionTypes, ClientType
LEMMA FitsAmid ==
    ASSUME ConnectionTypes, NEW n \in C!Ids, Amid(n), NEW x, x.type \in {"chunk", "end"}, x.of = n, x.nth = gateway[n].chunks + 2
    PROVE  Fits(x)
<1>1. gateway[n].chunks \in Nat /\ client.chunks \in Nat
  BY DEF ConnectionTypes, GatewayType, ClientType
<1>2. CASE download = <<>>
  BY <1>1, <1>2 DEF Amid, Fits, Awaits, GoesOn, C!Decoding
<1>3. CASE download # <<>>
  <2>1. GoesOn(x, n, download[Len(download)].type, download[Len(download)].nth + 1)
    BY <1>1, <1>3 DEF Amid, GoesOn
  <2> QED BY <1>3, <2>1 DEF Amid, Fits, Succeeds
<1> QED BY <1>2, <1>3

\* The client takes the first part of what waits.
LEMMA PartTaken ==
    ASSUME Downloaded, ConnectionTypes, Keeps, download # <<>>, download' = Tail(download),
           \A y : Succeeds(Head(download), y) => Awaits(y, client')
    PROVE  /\ Downloaded' /\ download' \in Seq(Answers) /\ AnswerPart(Head(download), gateway) /\ Head(download) \in Answers
           /\ Awaits(Head(download), client)
           /\ IF download' = <<>> THEN download[Len(download)] = Head(download)
              ELSE download'[Len(download')] = download[Len(download)]
<1>1. /\ download \in Seq(Answers) /\ download' \in Seq(Answers)
      /\ Len(download) \in Nat \ {0} /\ Len(download') = Len(download) - 1
      /\ \A k \in 1 .. Len(download) - 1 : download'[k] = download[k + 1]
      /\ download' = <<>> <=> Len(download) = 1
      /\ download' # <<>> => Head(download') = download[2]
      /\ Head(download) = download[1] /\ Head(download) \in Answers
  BY Taken DEF ConnectionTypes
<1>2. \A k \in 1 .. Len(download') : AnswerPart(download'[k], gateway')
  <2>1. \A k \in 1 .. Len(download') : k \in 1 .. Len(download) - 1 /\ k + 1 \in 1 .. Len(download)
    BY <1>1
  <2> QED BY <1>1, <2>1, AnswerStays DEF Downloaded
<1>3. \A k \in 1 .. Len(download') - 1 : Succeeds(download'[k], download'[k + 1])
  <2>1. \A k \in 1 .. Len(download') - 1 : k \in 1 .. Len(download) - 1 /\ k + 1 \in 1 .. Len(download) - 1
    BY <1>1
  <2>2. \A k \in 1 .. Len(download) - 1 : Succeeds(download[k], download[k + 1])
    BY DEF Downloaded
  <2> QED BY <1>1, <2>1, <2>2
<1>4. download' # <<>> => Awaits(Head(download'), client')
  <2>1. ASSUME NEW n \in Nat \ {0}, n # 1 PROVE 1 \in 1 .. n - 1
    BY <2>1
  <2>2. download' # <<>> => 1 \in 1 .. Len(download) - 1
    BY <1>1, <2>1
  <2>3. download' # <<>> => Succeeds(download[1], download[1 + 1])
    BY <2>2 DEF Downloaded
  <2> QED BY <1>1, <2>3
<1>5. IF download' = <<>> THEN download[Len(download)] = Head(download)
      ELSE download'[Len(download')] = download[Len(download)]
  <2>1. download' # <<>> => Len(download') \in 1 .. Len(download) - 1 /\ Len(download') + 1 = Len(download)
    BY <1>1
  <2> QED BY <1>1, <2>1
<1>6. AnswerPart(Head(download), gateway)
  BY <1>1 DEF Downloaded
<1> QED BY <1>1, <1>2, <1>3, <1>4, <1>5, <1>6, DownloadedThen DEF Keeps, Downloaded

(***************************************************************************)
(* The proxy reads.                                                        *)
(***************************************************************************)
LEMMA UploadStays ==
    ASSUME Uploaded, UNCHANGED <<requests, sending, upload>>, Over' \/ (~Over /\ ReadPlace' = ReadPlace)
    PROVE  Uploaded'
BY DEF Uploaded, UploadPart, PlaceOf, After, C!RequestPart, C!Size, C!Ids, C!Req

\* Nothing of the Gateway changes, and no response is under way.
LEMMA GatewayStays ==
    ASSUME ConnectionTypes, proxy' \in ProxyType, AtGateway, UNCHANGED <<requests, gateway>>, proxy'.pc \notin {"sending", "upgrading", "streaming"},
           \/ proxy'.request = proxy.request /\ (proxy'.pc \in {"headers", "body", "handle"} => proxy.pc \in {"headers", "body", "handle"})
           \/ proxy'.request > proxy.request
    PROVE  AtGateway' /\ Keeps
<1>1. C!OnlyWholeRequests' /\ Keeps
  BY DEF AtGateway, C!OnlyWholeRequests, C!Ids, C!Req, Keeps
<1>2. proxy.request \in Nat /\ proxy'.request \in Nat /\ C!Ids \subseteq Nat
  BY RequestsAre DEF ConnectionTypes, ProxyType, C!Ids
<1>3. C!Ids' = C!Ids /\ C!NoAnswer' = C!NoAnswer
  BY DEF C!Ids, C!NoAnswer
<1>4. \A i \in C!Ids :
         i > proxy'.request \/ (i = proxy'.request /\ proxy'.pc \in {"headers", "body", "handle"})
         => gateway[i] = C!NoAnswer
  BY <1>2 DEF AtGateway
<1> QED BY <1>1, <1>3, <1>4 DEF AtGateway

\* What is out of step remains so, and nothing gets out of step but by a request.
LEMMA OutOfStepRemains ==
    ASSUME requests' = requests, proxy.request \in Nat, proxy'.request \in Nat, proxy.request <= proxy'.request
    PROVE  C!OutOfStep => C!OutOfStep'
BY DEF C!OutOfStep, C!Req
LEMMA NoHead ==
    ASSUME ConnectionInv, ~C!OutOfStep, proxy.request \in C!Ids
    PROVE  C!Req(proxy.request).head => C!Req(proxy.request).path \notin {"sidecar", "gateway"}
<1>1. proxy.request \in 1 .. proxy.request
  BY DEF ConnectionInv, ConnectionTypes, ProxyType, C!Ids
<1> QED BY <1>1 DEF C!OutOfStep

\* The proxy reads on, or ends: nothing is written.
Reads == /\ UNCHANGED <<requests, left, gateway, download, client>>
         /\ proxy'.pc \in {"headers", "body", "handle"}
LEMMA ReadingOn ==
    ASSUME ConnectionInv, Reads, proxy' \in ProxyType, Uploaded', AtRequest', sending' \in PlaceType, upload' \in Seq(RequestParts),
           \/ proxy'.request = proxy.request /\ proxy.pc \in {"headers", "body", "handle"}
           \/ proxy'.request = proxy.request + 1 /\ proxy.pc = "line"
    PROVE  ConnectionInv'
<1>1. proxy.request \in Nat /\ proxy'.request \in Nat
  BY DEF ConnectionInv, ConnectionTypes, ProxyType
<1>2. AtGateway' /\ Keeps
  BY <1>1, GatewayStays DEF ConnectionInv, Reads
<1>3. ASSUME InStep PROVE Downloaded' /\ ReadWhole'
  BY <1>2, <1>3, NothingWritten, ReadStays DEF ConnectionInv, InStep, Reads
<1>4. ASSUME InStep PROVE Written'
  <2>1. proxy'.request - 1 = IF proxy.pc = "line" THEN proxy.request ELSE proxy.request - 1
    BY <1>1
  <2>2. Between(proxy'.request - 1)
    BY <1>4, <2>1 DEF InStep, Written
  <2> QED BY <2>2 DEF Written, Between, Reads, C!Req
<1>5. ConnectionTypes'
  BY DEF ConnectionInv, ConnectionTypes, Reads, C!Ids
<1>6. C!OutOfStep => C!OutOfStep'
  BY <1>1, OutOfStepRemains DEF Reads
<1> QED BY <1>2, <1>3, <1>4, <1>5, <1>6 DEF ConnectionInv, InStep

\* Where the proxy reads is the part that waits first.
LEMMA AtHead ==
    ASSUME ConnectionInv, upload # <<>>, ~Over
    PROVE  /\ Head(upload).of = ReadPlace.request /\ Head(upload).nth = ReadPlace.part
           /\ UploadPart(Head(upload)) /\ Waiting
<1>1. Waiting /\ ReadPlace = NextPlace
  BY UploadedIs DEF ConnectionInv
<1>2. UploadPart(upload[1]) /\ Head(upload) = upload[1]
  <2>1. upload \in Seq(RequestParts)
    BY DEF ConnectionInv, ConnectionTypes
  <2>2. 1 \in 1 .. Len(upload)
    BY <2>1
  <2> QED BY <1>1, <2>1, <2>2 DEF Waiting
<1> QED BY <1>1, <1>2 DEF NextPlace, PlaceOf

LEMMA ReadLineStep == ASSUME ConnectionInv, C!ReadLine PROVE ConnectionInv'
<1> DEFINE x == Head(upload)
<1>1. /\ proxy.pc = "line" /\ upload # <<>> /\ x.type = "line" /\ upload' = Tail(upload)
      /\ proxy' = [pc |-> "headers", request |-> x.of, body |-> 0]
      /\ UNCHANGED <<gateway, download, requests, sending, left, client>>
  BY DEF C!ReadLine, C!Arrived, C!Quiet
<1>2. /\ x.of = proxy.request + 1 /\ x.nth = 1 /\ UploadPart(x) /\ Waiting /\ proxy.request \in Nat /\ requests \in Carried
  BY <1>1, AtHead DEF Over, ReadPlace, ConnectionInv, ConnectionTypes, ProxyType
<1>3. x.of \in C!Ids /\ C!Size(x.of) > 1
  BY <1>2, RequestsAre DEF UploadPart
<1>4. Waiting' /\ NextPlace' = After(x) /\ upload' \in Seq(RequestParts)
  BY <1>1, <1>2, ReadQueue DEF ConnectionInv
<1>5. After(x) = [request |-> x.of, part |-> 2]
  BY <1>2, <1>3 DEF After
<1> HIDE DEF x
<1>6. Uploaded'
  BY <1>1, <1>4, <1>5, UploadedThen DEF ReadPlace
<1>7. AtRequest'
  BY <1>1, <1>3, PartsAssumption DEF AtRequest, C!Ids, C!ConnectionAssumption
<1>8. proxy' \in ProxyType /\ sending' \in PlaceType
  BY <1>1, <1>2 DEF ProxyType, ConnectionInv, ConnectionTypes
<1> QED BY <1>1, <1>2, <1>4, <1>6, <1>7, <1>8, ReadingOn DEF Reads

(***************************************************************************)
(* The connection ends.                                                    *)
(***************************************************************************)
LEMMA Closing ==
    ASSUME ConnectionInv, proxy' = [proxy EXCEPT !.pc = "closed"] \/ proxy' = [proxy EXCEPT !.pc = "relaying"],
           UNCHANGED <<requests, sending, client>>, left' \in BOOLEAN, Waiting', upload' \in Seq(RequestParts),
           AtGateway', Keeps, gateway' \in [C!Ids -> GatewayType], C!OutOfStep \/ Downloaded', download' \in Seq(Answers)
    PROVE  ConnectionInv'
<1>1. /\ proxy' \in ProxyType /\ Over' /\ proxy'.body = proxy.body /\ proxy'.pc \in {"closed", "relaying"}
      /\ proxy'.request = proxy.request /\ proxy.request \in Nat
  BY DEF ConnectionInv, ConnectionTypes, ProxyType, Over
<1>2. Uploaded'
  BY <1>1, UploadedThen
<1>3. AtRequest'
  BY <1>1 DEF ConnectionInv, AtRequest
<1>4. C!OutOfStep \/ (Written' /\ ReadWhole')
  BY <1>1, ReadStays DEF ConnectionInv, InStep, Written
<1>5. ConnectionTypes'
  BY <1>1 DEF ConnectionInv, ConnectionTypes, C!Ids
<1>6. C!OutOfStep => C!OutOfStep'
  BY <1>1, OutOfStepRemains
<1> QED BY <1>2, <1>3, <1>4, <1>5, <1>6 DEF ConnectionInv, InStep

LEMMA HereIs ==
    ASSUME ConnectionInv
    PROVE  /\ proxy.request \in Nat /\ Len(requests) \in Nat /\ requests \in Carried
           /\ proxy.pc \notin {"line", "closed", "relaying"} => proxy.request \in C!Ids /\ proxy.request - 1 \in Nat
           /\ C!OutOfStep \/ (proxy.pc \in {"headers", "body", "handle", "sending", "upgrading"} => Between(proxy.request - 1))
           /\ proxy = [pc |-> proxy.pc, request |-> proxy.request, body |-> proxy.body]
           /\ proxy.body \in Nat /\ proxy.body <= Limit
<1>1. proxy.request \in Nat /\ Len(requests) \in Nat /\ requests \in Carried /\ proxy.body \in Nat
      /\ proxy = [pc |-> proxy.pc, request |-> proxy.request, body |-> proxy.body]
  BY RequestsAre DEF ConnectionInv, ConnectionTypes, ProxyType
<1>2. proxy.pc \notin {"line", "closed", "relaying"} => proxy.request \in C!Ids
  BY DEF ConnectionInv, AtRequest, Over
<1> QED BY <1>1, <1>2 DEF ConnectionInv, InStep, Written, AtRequest, C!Ids

LEMMA AnswersAre ==
    ASSUME NEW type \in {"refusal", "switch", "empty", "length", "content", "chunked", "chunk", "end"},
           NEW of \in Nat, NEW nth \in Nat \ {0}
    PROVE  /\ C!Part(type, of, nth) \in Answers
           /\ C!Part(type, of, nth).type = type /\ C!Part(type, of, nth).of = of /\ C!Part(type, of, nth).nth = nth
BY DEF C!Part, Answers

\* A first part of the response to a request is put behind those before it.
LEMMA FirstPart ==
    ASSUME ConnectionInv, NEW i \in C!Ids, C!OutOfStep \/ Between(i - 1),
           NEW type \in {"refusal", "switch", "empty", "length", "chunked"},
           Keeps, client' = client, C!Write(<<C!Part(type, i, 1)>>),
           C!OutOfStep \/ (type \in {"length", "chunked"} => ~C!Req(i).head), type = "length" => C!Req(i).path # "gateway",
           type = "empty" => Whole(i, 0, gateway')
    PROVE  /\ C!OutOfStep \/ Downloaded'
           /\ download' \in Seq(Answers) /\ download' # <<>> /\ download'[Len(download')] = C!Part(type, i, 1)
<1> DEFINE x == C!Part(type, i, 1)
<1>1. i \in Nat /\ i - 1 \in Nat /\ (i - 1) + 1 = i
  BY HereIs DEF C!Ids
<1>2. x \in Answers /\ x.type = type /\ x.of = i /\ x.nth = 1
  BY <1>1, AnswersAre
<1>4. <<x>> \in Seq(Answers) /\ <<x>> # <<>> /\ Len(<<x>>) = 1 /\ <<x>>[1] = x
  BY <1>2
<1>5. download' \in Seq(Answers) /\ download' # <<>> /\ download'[Len(download')] = x
  <2> HIDE DEF x
  <2> QED BY <1>4, PartsPut DEF ConnectionInv, x
<1>6. ASSUME ~C!OutOfStep
      PROVE  Downloaded'
  <2>1. AnswerPart(x, gateway')
    BY <1>2, <1>6 DEF AnswerPart
  <2>2. Fits(x)
    BY <1>1, <1>2, <1>6, FitsNext DEF Starts, ConnectionInv
  <2>3. \A k \in 1 .. Len(<<x>>) : AnswerPart(<<x>>[k], gateway')
    BY <1>4, <2>1
  <2>4. \A k \in 1 .. Len(<<x>>) - 1 : Succeeds(<<x>>[k], <<x>>[k + 1])
    BY <1>4
  <2> HIDE DEF x
  <2> QED BY <1>4, <1>6, <2>2, <2>3, <2>4, PartsWritten DEF ConnectionInv, InStep, x
<1> QED BY <1>5, <1>6 DEF x

LEMMA Refused ==
    ASSUME ConnectionInv, C!Refuse, proxy.pc \in {"headers", "body", "upgrading"}, Keeps, client' = client
    PROVE  (C!OutOfStep \/ Downloaded') /\ download' \in Seq(Answers)
BY HereIs, FirstPart DEF C!Refuse, C!Here

\* While the proxy reads, nothing is asked of the Gateway.
LEMMA ClosedReading ==
    ASSUME ConnectionInv, proxy' = [proxy EXCEPT !.pc = "closed"], UNCHANGED <<requests, gateway>>
    PROVE  AtGateway' /\ Keeps
<1>1. proxy' \in ProxyType /\ proxy'.pc = "closed" /\ proxy'.request = proxy.request
  BY DEF ConnectionInv, ConnectionTypes, ProxyType
<1> QED BY <1>1, GatewayStays DEF ConnectionInv

LEMMA RefusedReading ==
    ASSUME ConnectionInv, C!Refuse, proxy.pc \in {"headers", "body"}, UNCHANGED <<requests, sending, left, gateway, client>>,
           Waiting', upload' \in Seq(RequestParts)
    PROVE  ConnectionInv'
<1>1. proxy' = [proxy EXCEPT !.pc = "closed"]
  BY DEF C!Refuse
<1>2. AtGateway' /\ Keeps
  BY <1>1, ClosedReading
<1>3. (C!OutOfStep \/ Downloaded') /\ download' \in Seq(Answers)
  BY <1>2, Refused
<1> QED BY <1>1, <1>2, <1>3, Closing DEF ConnectionInv, ConnectionTypes

\* Without a word.
LEMMA SilentlyClosed ==
    ASSUME ConnectionInv, proxy' = [proxy EXCEPT !.pc = "closed"],
           UNCHANGED <<requests, sending, left, upload, gateway, download, client>>
    PROVE  ConnectionInv'
<1>1. AtGateway' /\ Keeps
  BY ClosedReading
<1>2. C!OutOfStep \/ Downloaded'
  BY <1>1, NothingWritten DEF ConnectionInv, InStep
<1>3. Waiting'
  BY DEF ConnectionInv, Uploaded, Waiting, UploadPart, PlaceOf, After, C!RequestPart, C!Size, C!Ids, C!Req
<1> QED BY <1>1, <1>2, <1>3, Closing DEF ConnectionInv, ConnectionTypes

LEMMA ReadHeadersStep == ASSUME ConnectionInv, C!ReadHeaders PROVE ConnectionInv'
<1> DEFINE x == Head(upload)
           i == proxy.request
<1>1. /\ proxy.pc = "headers" /\ upload # <<>> /\ x.type = "headers" /\ upload' = Tail(upload)
      /\ UNCHANGED <<gateway, requests, sending, left, client>>
  BY DEF C!ReadHeaders, C!Arrived, C!Quiet
<1>2. /\ x.of = i /\ x.nth = 2 /\ UploadPart(x) /\ Waiting /\ i \in C!Ids /\ requests \in Carried
  BY <1>1, AtHead, HereIs DEF Over, ReadPlace
<1>3. Waiting' /\ NextPlace' = After(x) /\ upload' \in Seq(RequestParts)
  BY <1>1, <1>2, ReadQueue DEF ConnectionInv
<1>4. CASE C!Refuse
  BY <1>1, <1>3, <1>4, RefusedReading
<1>5. CASE ~C!Refuse
  <2>1. /\ proxy' = [proxy EXCEPT !.pc = IF C!Req(i).chunked \/ C!Req(i).body > 0 THEN "body" ELSE "handle"]
        /\ download' = download
    BY <1>5 DEF C!ReadHeaders, C!Here
  <2>2. proxy.body = 0 /\ C!Req(i).body \in Nat
    BY <1>1, <1>2, RequestsAre DEF ConnectionInv, AtRequest
  <2>3. CASE C!Req(i).chunked \/ C!Req(i).body > 0
    <3>1. /\ proxy'.pc = "body" /\ proxy'.request = i /\ proxy'.body = 0 /\ proxy' \in ProxyType
      BY <2>1, <2>2, <2>3 DEF ConnectionInv, ConnectionTypes, ProxyType
    <3>2. After(x) = [request |-> i, part |-> 3]
      BY <1>2, <2>2, <2>3, SizeIs DEF After
    <3>3. Uploaded'
      BY <1>3, <3>1, <3>2, UploadedThen DEF ReadPlace
    <3>4. AtRequest'
      BY <1>1, <1>2, <2>2, <2>3, <3>1, PartsAssumption DEF AtRequest, C!Ids, C!Req, C!ConnectionAssumption
    <3> QED BY <1>1, <1>3, <2>1, <3>1, <3>3, <3>4, ReadingOn DEF Reads, ConnectionInv, ConnectionTypes
  <2>4. CASE ~(C!Req(i).chunked \/ C!Req(i).body > 0)
    <3>1. /\ proxy'.pc = "handle" /\ proxy'.request = i /\ proxy'.body = 0 /\ proxy' \in ProxyType
      BY <2>1, <2>2, <2>4 DEF ConnectionInv, ConnectionTypes, ProxyType
    <3>2. After(x) = [request |-> i + 1, part |-> 1]
      BY <1>2, <2>2, <2>4, SizeIs DEF After
    <3>3. Uploaded'
      BY <1>3, <3>1, <3>2, UploadedThen DEF ReadPlace
    <3>4. AtRequest'
      BY <1>1, <1>2, <2>2, <2>4, <3>1, PartsAssumption DEF AtRequest, C!Ids, C!Req, C!ConnectionAssumption
    <3> QED BY <1>1, <1>3, <2>1, <3>1, <3>3, <3>4, ReadingOn DEF Reads, ConnectionInv, ConnectionTypes
  <2> QED BY <2>3, <2>4
<1> QED BY <1>4, <1>5

LEMMA ReadBodyStep == ASSUME ConnectionInv, C!ReadBody PROVE ConnectionInv'
<1> DEFINE x == Head(upload)
           i == proxy.request
           b == proxy.body
<1>1. /\ proxy.pc = "body" /\ upload # <<>> /\ x.type = "body" /\ upload' = Tail(upload)
      /\ UNCHANGED <<gateway, requests, sending, left, client>>
  BY DEF C!ReadBody, C!Arrived, C!Quiet
<1>2. /\ x.of = i /\ x.nth = 3 + b /\ UploadPart(x) /\ Waiting /\ i \in C!Ids /\ requests \in Carried /\ b \in Nat
      /\ i \in Nat
  BY <1>1, AtHead, HereIs DEF Over, ReadPlace
<1>3. Waiting' /\ NextPlace' = After(x) /\ upload' \in Seq(RequestParts)
  BY <1>1, <1>2, ReadQueue DEF ConnectionInv
<1>4. b + 1 <= C!Req(i).body /\ C!Req(i).body \in Nat
  <2>1. x.nth <= 2 + C!Req(x.of).body /\ C!Req(x.of).body \in Nat
    BY <1>1, <1>2, PartAt
  <2>2. 3 + b <= 2 + C!Req(i).body /\ C!Req(i).body \in Nat
    BY <1>2, <2>1
  <2> QED BY <1>2, <2>2
<1>5. CASE C!Refuse
  BY <1>1, <1>3, <1>5, RefusedReading
<1>6. CASE ~C!Refuse
  <2> DEFINE next == IF ~C!Req(i).chunked /\ b + 1 = C!Req(i).body THEN "handle" ELSE "body"
  <2>1. /\ proxy' = [proxy EXCEPT !.body = @ + 1, !.pc = next]
        /\ download' = download /\ ~(b + 1 > Limit)
    BY <1>6 DEF C!ReadBody, C!Here, C!BodyEnds, C!TooLarge
  <2>2. Limit \in Nat /\ b + 1 <= Limit
    BY <1>2, <2>1, PartsAssumption DEF C!ConnectionAssumption
  <2>3. /\ proxy' = [pc |-> next, request |-> i, body |-> b + 1]
        /\ b + 1 \in Nat /\ i \in Nat
    <3> HIDE DEF next
    <3>1. proxy \in ProxyType /\ proxy' = [proxy EXCEPT !.body = proxy.body + 1, !.pc = next]
      BY <2>1 DEF ConnectionInv, ConnectionTypes
    <3>2. proxy' = [pc |-> next, request |-> proxy.request, body |-> proxy.body + 1]
      BY <3>1 DEF ProxyType
    <3> QED BY <1>2, <3>2
  <2>4. CASE ~C!Req(i).chunked /\ b + 1 = C!Req(i).body
    <3>1. /\ proxy'.pc = "handle" /\ proxy'.request = i /\ proxy'.body = b + 1 /\ proxy' \in ProxyType
      BY <2>4, <2>3 DEF ProxyType
    <3>2. After(x) = [request |-> i + 1, part |-> 1]
      BY <1>2, <1>4, <2>4, SizeIs DEF After
    <3>3. Uploaded'
      BY <1>3, <3>1, <3>2, UploadedThen DEF ReadPlace
    <3>4. AtRequest'
      BY <1>1, <1>2, <2>2, <2>4, <3>1 DEF AtRequest, C!Ids, C!Req
    <3> QED BY <1>1, <1>3, <2>1, <3>1, <3>3, <3>4, ReadingOn DEF Reads, ConnectionInv, ConnectionTypes
  <2>5. CASE ~(~C!Req(i).chunked /\ b + 1 = C!Req(i).body)
    <3>1. /\ proxy'.pc = "body" /\ proxy'.request = i /\ proxy'.body = b + 1 /\ proxy' \in ProxyType
      BY <2>5, <2>3 DEF ProxyType
    <3>2. After(x) = [request |-> i, part |-> 3 + (b + 1)]
      BY <1>2, <1>4, <2>5, SizeIs DEF After
    <3>3. Uploaded'
      BY <1>3, <3>1, <3>2, UploadedThen DEF ReadPlace
    <3>4. AtRequest'
      BY <1>1, <1>2, <1>4, <2>2, <2>5, <3>1 DEF AtRequest, C!Ids, C!Req
    <3> QED BY <1>1, <1>3, <2>1, <3>1, <3>3, <3>4, ReadingOn DEF Reads, ConnectionInv, ConnectionTypes
  <2> QED BY <2>4, <2>5
<1> QED BY <1>5, <1>6

LEMMA ReadLastChunkStep == ASSUME ConnectionInv, C!ReadLastChunk PROVE ConnectionInv'
<1> DEFINE x == Head(upload)
           i == proxy.request
           b == proxy.body
<1>1. /\ proxy.pc = "body" /\ upload # <<>> /\ x.type = "last" /\ upload' = Tail(upload)
      /\ UNCHANGED <<gateway, download, requests, sending, left, client>>
      /\ proxy' = [proxy EXCEPT !.pc = "handle"]
  BY DEF C!ReadLastChunk, C!Arrived, C!Quiet
<1>2. /\ x.of = i /\ x.nth = 3 + b /\ UploadPart(x) /\ Waiting /\ i \in C!Ids /\ requests \in Carried /\ b \in Nat
      /\ b <= Limit
  BY <1>1, AtHead, HereIs DEF Over, ReadPlace
<1>3. Waiting' /\ NextPlace' = After(x) /\ upload' \in Seq(RequestParts)
  BY <1>1, <1>2, ReadQueue DEF ConnectionInv
<1>4. b = C!Req(i).body /\ x.nth = C!Size(i)
  <2>1. x.nth = C!Size(x.of) /\ x.nth = 3 + C!Req(x.of).body /\ C!Req(x.of).body \in Nat
    BY <1>1, <1>2, PartAt
  <2> QED BY <1>2, <2>1
<1>5. /\ proxy'.pc = "handle" /\ proxy'.request = i /\ proxy'.body = b /\ proxy' \in ProxyType
  BY <1>1 DEF ConnectionInv, ConnectionTypes, ProxyType
<1>6. After(x) = [request |-> i + 1, part |-> 1]
  BY <1>2, <1>4, RequestsAre DEF After
<1>7. Uploaded'
  BY <1>3, <1>5, <1>6, UploadedThen DEF ReadPlace
<1>8. AtRequest'
  BY <1>1, <1>2, <1>4, <1>5 DEF AtRequest, C!Ids, C!Req
<1> QED BY <1>1, <1>3, <1>5, <1>7, <1>8, ReadingOn DEF Reads, ConnectionInv, ConnectionTypes

LEMMA EndIdleStep == ASSUME ConnectionInv, C!EndIdle PROVE ConnectionInv'
BY SilentlyClosed DEF C!EndIdle, C!Quiet

LEMMA EndReadingStep == ASSUME ConnectionInv, C!EndReading PROVE ConnectionInv'
<1>1. /\ C!Refuse /\ UNCHANGED <<requests, sending, left, upload, gateway, client>>
      /\ proxy.pc \in {"headers", "body"} \/ (proxy.pc = "line" /\ upload # <<>> /\ Head(upload).type # "line")
  BY DEF C!EndReading, C!Quiet, C!Unexpected, C!Deadline
<1>2. proxy.pc \in {"headers", "body"}
  <2>1. ~(proxy.pc = "line" /\ upload # <<>> /\ Head(upload).type # "line")
    BY AtHead, HereIs, PartAt DEF Over, ReadPlace
  <2> QED BY <1>1, <2>1
<1>3. Waiting' /\ upload' \in Seq(RequestParts)
  BY <1>1 DEF ConnectionInv, ConnectionTypes, Uploaded, Waiting, UploadPart, PlaceOf, After, C!RequestPart, C!Size, C!Ids, C!Req
<1> QED BY <1>1, <1>2, <1>3, RefusedReading

(***************************************************************************)
(* The proxy answers.                                                      *)
(***************************************************************************)
LEMMA WaitingStays ==
    ASSUME ConnectionInv, UNCHANGED <<requests, sending, upload>>
    PROVE  Waiting' /\ upload' \in Seq(RequestParts)
BY DEF ConnectionInv, ConnectionTypes, Uploaded, Waiting, UploadPart, PlaceOf, After, C!RequestPart, C!Size, C!Ids, C!Req

\* The Gateway goes on with the request that the proxy is at.
LEMMA GatewayChanges ==
    ASSUME ConnectionInv, NEW i \in C!Ids, i = proxy.request, NEW r \in GatewayType,
           gateway' = [gateway EXCEPT ![i] = r], gateway[i].state # "ended", requests' = requests,
           proxy' \in ProxyType, proxy'.request = i, proxy'.pc \notin {"headers", "body", "handle"},
           proxy'.pc \in {"sending", "upgrading"} => r.state = "asked" /\ r.chunks = 0,
           proxy'.pc = "streaming" => r.state = "answering",
           \/ C!Req(i).path # "gateway"
           \/ r.got = C!Req(i).body /\ C!Req(i).body <= Limit
           \/ r.got = gateway[i].got /\ gateway[i].state # "none"
    PROVE  /\ AtGateway' /\ Keeps /\ gateway' \in [C!Ids -> GatewayType]
           /\ gateway'[i] = r
<1>1. gateway \in [C!Ids -> GatewayType] /\ C!Ids \subseteq Nat /\ i \in Nat
  BY HereIs DEF ConnectionInv, ConnectionTypes, C!Ids
<1>2. gateway' \in [C!Ids -> GatewayType] /\ gateway'[i] = r /\ \A j \in C!Ids \ {i} : gateway'[j] = gateway[j]
  BY <1>1
<1>3. Keeps
  BY <1>2 DEF Keeps
<1>4. \A j \in C!Ids : gateway'[j].state # "none" /\ C!Req(j).path = "gateway" =>
          gateway'[j].got = C!Req(j).body /\ gateway'[j].got <= Limit
  BY <1>2 DEF ConnectionInv, AtGateway, C!OnlyWholeRequests
<1>5. C!OnlyWholeRequests'
  BY <1>4 DEF C!OnlyWholeRequests, C!Ids, C!Req
<1>6. \A j \in C!Ids : j > proxy'.request => gateway'[j] = C!NoAnswer
  BY <1>1, <1>2 DEF ConnectionInv, AtGateway
<1>7. C!Ids' = C!Ids /\ C!NoAnswer' = C!NoAnswer
  BY DEF C!Ids, C!NoAnswer
<1> QED BY <1>2, <1>3, <1>5, <1>6, <1>7 DEF AtGateway

\* The proxy goes on with the same request.
LEMMA Proceeds ==
    ASSUME ConnectionInv, UNCHANGED <<requests, sending, upload, left, client>>,
           NEW pc \in {"sending", "upgrading", "streaming"}, proxy' = [proxy EXCEPT !.pc = pc],
           proxy.pc \in {"handle", "sending", "streaming"},
           C!Req(proxy.request).path = (IF pc = "upgrading" THEN "upgrade" ELSE "gateway"),
           AtGateway', Keeps, gateway' \in [C!Ids -> GatewayType], download' \in Seq(Answers),
           C!OutOfStep \/ (Downloaded' /\ Written')
    PROVE  ConnectionInv'
<1>1. proxy' \in ProxyType /\ proxy'.pc = pc /\ proxy'.request = proxy.request /\ proxy'.body = proxy.body
  BY DEF ConnectionInv, ConnectionTypes, ProxyType
<1>2. Uploaded'
  BY <1>1, UploadStays DEF ConnectionInv, Over, ReadPlace
<1>3. AtRequest'
  BY <1>1, HereIs DEF AtRequest, C!Ids, C!Req
<1>4. C!OutOfStep \/ ReadWhole'
  BY ReadStays DEF ConnectionInv, InStep
<1>5. ConnectionTypes'
  BY <1>1 DEF ConnectionInv, ConnectionTypes, C!Ids
<1>6. C!OutOfStep => C!OutOfStep'
  BY <1>1, HereIs, OutOfStepRemains
<1> QED BY <1>2, <1>3, <1>4, <1>5, <1>6 DEF ConnectionInv, InStep

\* The last part of a response is written.
LEMMA Answered ==
    ASSUME ConnectionInv, UNCHANGED <<requests, sending, upload, left, client>>,
           proxy.pc \in {"handle", "sending", "streaming"}, proxy' = C!NextRequest,
           AtGateway', Keeps, gateway' \in [C!Ids -> GatewayType], C!OutOfStep \/ Downloaded', download' \in Seq(Answers),
           download' # <<>>, download'[Len(download')].of = proxy.request,
           download'[Len(download')].type \in {"empty", "content", "end"}
    PROVE  ConnectionInv'
<1>1. Waiting' /\ upload' \in Seq(RequestParts)
  BY WaitingStays
<1>2. CASE C!Req(proxy.request).close
  <2>1. proxy' = [proxy EXCEPT !.pc = "closed"]
    BY <1>2 DEF C!NextRequest, C!Here
  <2> QED BY <2>1, <1>1, Closing DEF ConnectionInv, ConnectionTypes
<1>3. CASE ~C!Req(proxy.request).close
  <2>1. proxy' = [proxy EXCEPT !.pc = "line"]
    BY <1>3 DEF C!NextRequest, C!Here
  <2>2. proxy' \in ProxyType /\ proxy'.pc = "line" /\ proxy'.request = proxy.request /\ proxy'.body = proxy.body
    BY <2>1 DEF ConnectionInv, ConnectionTypes, ProxyType
  <2>3. Uploaded'
    BY <2>2, UploadStays DEF ConnectionInv, Over, ReadPlace
  <2>4. AtRequest'
    BY <2>2, HereIs DEF AtRequest
  <2>5. Written'
    BY <1>3, <2>2 DEF Written, Between, C!Req
  <2>6. C!OutOfStep \/ ReadWhole'
    BY ReadStays DEF ConnectionInv, InStep
  <2>7. ConnectionTypes'
    BY <2>2 DEF ConnectionInv, ConnectionTypes, C!Ids
  <2>8. C!OutOfStep => C!OutOfStep'
    BY <2>2, HereIs, OutOfStepRemains
  <2> QED BY <2>3, <2>4, <2>5, <2>6, <2>7, <2>8 DEF ConnectionInv, InStep
<1> QED BY <1>2, <1>3

LEMMA NextRequestIs ==
    ASSUME ConnectionInv, proxy' = C!NextRequest
    PROVE  proxy' \in ProxyType /\ proxy'.request = proxy.request /\ proxy'.pc \in {"closed", "line"}
<1>1. proxy' = [proxy EXCEPT !.pc = "closed"] \/ proxy' = [proxy EXCEPT !.pc = "line"]
  BY DEF C!NextRequest
<1> QED BY <1>1 DEF ConnectionInv, ConnectionTypes, ProxyType

LEMMA AnswerLocallyStep == ASSUME ConnectionInv, C!AnswerLocally PROVE ConnectionInv'
<1> DEFINE i == proxy.request
           s == <<C!Part("length", i, 1), C!Part("content", i, 2)>>
<1>1. /\ proxy.pc = "handle" /\ C!Req(i).path \in {"local", "sidecar", "nothing"} /\ proxy' = C!NextRequest
      /\ UNCHANGED <<requests, sending, upload, gateway, left, client>>
      /\ C!Write(IF C!Content(i) THEN s ELSE <<C!Part("empty", i, 1)>>)
  BY DEF C!AnswerLocally, C!Quiet, C!Here
<1>2. /\ i \in C!Ids /\ i \in Nat /\ i - 1 \in Nat /\ (i - 1) + 1 = i /\ requests \in Carried
      /\ C!OutOfStep \/ Between(i - 1)
  BY <1>1, HereIs
<1>3. AtGateway' /\ Keeps /\ gateway' \in [C!Ids -> GatewayType]
  <2>1. proxy' \in ProxyType /\ proxy'.request = proxy.request /\ proxy'.pc \in {"closed", "line"}
    BY <1>1, NextRequestIs
  <2> QED BY <1>1, <2>1, GatewayStays DEF ConnectionInv, ConnectionTypes
<1>4. CASE C!Content(i)
  <2>1. (C!OutOfStep \/ ~C!Req(i).head) /\ C!Req(i).path # "gateway"
    BY <1>1, <1>2, <1>4, NoHead DEF C!Content
  <2>2. /\ s \in Seq(Answers) /\ s # <<>> /\ Len(s) = 2
        /\ s[1].type = "length" /\ s[1].of = i /\ s[1].nth = 1
        /\ s[2].type = "content" /\ s[2].of = i /\ s[2].nth = 2
    <3>1. /\ C!Part("length", i, 1) \in Answers /\ C!Part("content", i, 2) \in Answers
          /\ C!Part("length", i, 1).type = "length" /\ C!Part("length", i, 1).of = i /\ C!Part("length", i, 1).nth = 1
          /\ C!Part("content", i, 2).type = "content" /\ C!Part("content", i, 2).of = i /\ C!Part("content", i, 2).nth = 2
      BY <1>2, AnswersAre
    <3> QED BY <3>1
  <2>3. C!Write(s)
    BY <1>1, <1>4
  <2> HIDE DEF s, i
  <2>4. C!OutOfStep \/ \A k \in 1 .. Len(s) : AnswerPart(s[k], gateway')
    <3>1. C!OutOfStep \/ (AnswerPart(s[1], gateway') /\ AnswerPart(s[2], gateway'))
      BY <1>2, <2>1, <2>2 DEF AnswerPart
    <3> QED BY <2>2, <3>1
  <2>5. \A k \in 1 .. Len(s) - 1 : Succeeds(s[k], s[k + 1])
    <3>1. Succeeds(s[1], s[2])
      BY <2>2 DEF Succeeds, GoesOn
    <3>2. \A k \in 1 .. Len(s) - 1 : k = 1 /\ k + 1 = 2
      BY <2>2
    <3> QED BY <3>1, <3>2
  <2>6. C!OutOfStep \/ Fits(s[1])
    BY <1>2, <2>2, FitsNext DEF ConnectionInv, Starts
  <2>7. C!OutOfStep \/ Downloaded'
    BY <1>1, <1>3, <2>2, <2>3, <2>4, <2>5, <2>6, PartsWritten DEF ConnectionInv, InStep
  <2>8. download' \in Seq(Answers) /\ download' # <<>> /\ download'[Len(download')] = s[2]
    BY <2>2, <2>3, PartsPut DEF ConnectionInv
  <2> QED BY <1>1, <1>3, <2>2, <2>7, <2>8, Answered DEF i
<1>5. CASE ~C!Content(i)
  <2>1. C!Write(<<C!Part("empty", i, 1)>>)
    BY <1>1, <1>5
  <2>2. /\ C!OutOfStep \/ Downloaded'
        /\ download' \in Seq(Answers) /\ download' # <<>>
        /\ download'[Len(download')] = C!Part("empty", i, 1)
    BY <1>1, <1>2, <1>3, <2>1, FirstPart DEF Whole
  <2>3. C!Part("empty", i, 1).of = i /\ C!Part("empty", i, 1).type = "empty"
    BY <1>2, AnswersAre
  <2> QED BY <1>1, <1>3, <2>2, <2>3, Answered
<1> QED BY <1>4, <1>5

LEMMA AbandonStep == ASSUME ConnectionInv, C!Abandon \/ C!WriteFails PROVE ConnectionInv'
BY SilentlyClosed DEF C!Abandon, C!WriteFails, C!Quiet

LEMMA NoneYet == ASSUME ConnectionInv, proxy.pc = "handle" PROVE gateway[proxy.request] = C!NoAnswer /\ gateway[proxy.request].state # "ended"
BY HereIs DEF ConnectionInv, AtGateway, C!NoAnswer

LEMMA ForwardStep == ASSUME ConnectionInv, C!Forward \/ C!Upgrade PROVE ConnectionInv'
<1> DEFINE i == proxy.request
           path == C!Req(i).path
           got == IF path = "gateway" THEN proxy.body ELSE 0
           pc == IF path = "gateway" THEN "sending" ELSE "upgrading"
           r == [got |-> got, state |-> "asked", chunks |-> 0]
<1>1. /\ proxy.pc = "handle" /\ path \in {"gateway", "upgrade"} /\ proxy' = [proxy EXCEPT !.pc = pc]
      /\ gateway' = [gateway EXCEPT ![i] = r]
      /\ UNCHANGED <<requests, sending, upload, left, client, download>>
  BY DEF C!Forward, C!Upgrade, C!Quiet, C!Here
<1>2. /\ i \in C!Ids /\ proxy.body \in Nat /\ proxy.body <= Limit /\ proxy.body = C!Req(i).body
      /\ C!OutOfStep \/ Between(i - 1)
  BY <1>1, HereIs DEF ConnectionInv, AtRequest
<1>3. r \in GatewayType /\ r.state = "asked" /\ r.chunks = 0 /\ r.got = got /\ pc \in {"sending", "upgrading"}
  BY <1>2 DEF GatewayType
<1>4. proxy' \in ProxyType /\ proxy'.request = i /\ proxy'.pc = pc
  BY <1>1, <1>3 DEF ConnectionInv, ConnectionTypes, ProxyType
<1>5. gateway[i].state # "ended"
  BY <1>1, NoneYet
<1>6. path # "gateway" \/ (r.got = C!Req(i).body /\ C!Req(i).body <= Limit)
  BY <1>2, <1>3
<1> HIDE DEF r
<1>7. AtGateway' /\ Keeps /\ gateway' \in [C!Ids -> GatewayType]
  BY <1>1, <1>2, <1>3, <1>4, <1>5, <1>6, GatewayChanges
<1>8. (C!OutOfStep \/ Downloaded') /\ download' \in Seq(Answers)
  BY <1>1, <1>7, NothingWritten DEF ConnectionInv, InStep, ConnectionTypes
<1>9. C!OutOfStep \/ Written'
  BY <1>1, <1>2, <1>3, <1>4 DEF Written, Between, C!Req
<1> QED BY <1>1, <1>3, <1>7, <1>8, <1>9, Proceeds

(***************************************************************************)
(* The Gateway answers.                                                    *)
(***************************************************************************)
LEMMA AskedOf ==
    ASSUME ConnectionInv, proxy.pc \in {"sending", "upgrading", "streaming"}
    PROVE  /\ proxy.request \in C!Ids /\ proxy.request \in Nat /\ gateway[proxy.request] \in GatewayType
           /\ gateway[proxy.request].state \in {"asked", "answering"}
           /\ proxy.pc \in {"sending", "streaming"} => C!Req(proxy.request).path = "gateway"
           /\ proxy.pc \in {"sending", "upgrading"} => gateway[proxy.request].chunks = 0
           /\ gateway[proxy.request].chunks \in Nat
BY HereIs DEF ConnectionInv, AtGateway, AtRequest, ConnectionTypes, GatewayType

LEMMA GatewayTurns ==
    ASSUME ConnectionInv, proxy.pc \in {"sending", "upgrading", "streaming"}, NEW state \in {"answering", "ended", "broken"},
           gateway' = [gateway EXCEPT ![proxy.request].state = state], requests' = requests,
           proxy' \in ProxyType, proxy'.request = proxy.request,
           proxy'.pc \in {"line", "streaming", "relaying", "closed"}, proxy'.pc = "streaming" => state = "answering"
    PROVE  /\ AtGateway' /\ Keeps /\ gateway' \in [C!Ids -> GatewayType]
           /\ gateway'[proxy.request].state = state
           /\ gateway'[proxy.request].chunks = gateway[proxy.request].chunks
<1> DEFINE i == proxy.request
           r == [gateway[i] EXCEPT !.state = state]
<1>1. r \in GatewayType /\ r.state = state /\ r.got = gateway[i].got /\ r.chunks = gateway[i].chunks
  BY AskedOf DEF GatewayType
<1>2. gateway' = [gateway EXCEPT ![i] = r]
  OBVIOUS
<1>3. i \in C!Ids /\ gateway[i].state \in {"asked", "answering"}
  BY AskedOf
<1> HIDE DEF r
<1>4. AtGateway' /\ Keeps /\ gateway' \in [C!Ids -> GatewayType] /\ gateway'[i] = r
  BY <1>1, <1>2, <1>3, GatewayChanges
<1> QED BY <1>1, <1>4

LEMMA ProxyTurns ==
    ASSUME ConnectionInv, NEW pc \in {"streaming", "relaying", "closed"}, proxy' = [proxy EXCEPT !.pc = pc]
    PROVE  proxy' \in ProxyType /\ proxy'.request = proxy.request /\ proxy'.pc = pc
BY DEF ConnectionInv, ConnectionTypes, ProxyType

\* The Gateway is given up, without a word or with a refusal.
LEMMA GivenUp ==
    ASSUME ConnectionInv, C!ForwardFails \/ C!UpgradeFails \/ C!GatewayBreaks
    PROVE  ConnectionInv'
<1>1. /\ proxy.pc \in {"sending", "upgrading", "streaming"} /\ proxy' = [proxy EXCEPT !.pc = "closed"]
      /\ gateway' = [gateway EXCEPT ![proxy.request].state = "broken"]
      /\ UNCHANGED <<requests, sending, upload, left, client>>
      /\ download' = download \/ (proxy.pc = "upgrading" /\ C!Refuse)
  <2>1. ASSUME C!GatewayBreaks PROVE download' = download
    BY <2>1 DEF C!GatewayBreaks, C!LastParts, ConnectionInv, ConnectionTypes
  <2> QED BY <2>1 DEF C!ForwardFails, C!UpgradeFails, C!GatewayBreaks, C!Refuse, C!Quiet, C!Here
<1>2. AtGateway' /\ Keeps /\ gateway' \in [C!Ids -> GatewayType]
  BY <1>1, ProxyTurns, GatewayTurns
<1>3. (C!OutOfStep \/ Downloaded') /\ download' \in Seq(Answers)
  BY <1>1, <1>2, NothingWritten, Refused DEF ConnectionInv, InStep, ConnectionTypes
<1> QED BY <1>1, <1>2, <1>3, WaitingStays, Closing DEF ConnectionInv, ConnectionTypes

LEMMA UpgradedStep == ASSUME ConnectionInv, C!Upgraded PROVE ConnectionInv'
<1> DEFINE i == proxy.request
<1>1. /\ proxy.pc = "upgrading" /\ proxy' = [proxy EXCEPT !.pc = "relaying"]
      /\ gateway' = [gateway EXCEPT ![i].state = "ended"]
      /\ UNCHANGED <<requests, sending, upload, left, client>> /\ C!Write(<<C!Part("switch", i, 1)>>)
  BY DEF C!Upgraded, C!Quiet, C!Here
<1>2. AtGateway' /\ Keeps /\ gateway' \in [C!Ids -> GatewayType]
  BY <1>1, ProxyTurns, GatewayTurns
<1>3. (C!OutOfStep \/ Downloaded') /\ download' \in Seq(Answers)
  BY <1>1, <1>2, HereIs, FirstPart
<1> QED BY <1>1, <1>2, <1>3, WaitingStays, Closing DEF ConnectionInv, ConnectionTypes

LEMMA GatewayAnswersStep == ASSUME ConnectionInv, NEW body \in BOOLEAN, C!GatewayAnswers(body) PROVE ConnectionInv'
<1> DEFINE i == proxy.request
<1>1. proxy.pc = "sending" /\ UNCHANGED <<requests, sending, upload, left, client>>
  BY DEF C!GatewayAnswers, C!Quiet
<1>2. /\ i \in C!Ids /\ i \in Nat /\ C!Req(i).path = "gateway" /\ gateway[i].chunks = 0
      /\ C!OutOfStep \/ (Between(i - 1) /\ ~C!Req(i).head)
  BY <1>1, AskedOf, HereIs, NoHead
<1>3. CASE body
  <2>1. /\ gateway' = [gateway EXCEPT ![i].state = "answering"] /\ proxy' = [proxy EXCEPT !.pc = "streaming"]
        /\ C!Write(<<C!Part("chunked", i, 1)>>)
    BY <1>3 DEF C!GatewayAnswers, C!Here
  <2>2. /\ AtGateway' /\ Keeps /\ gateway' \in [C!Ids -> GatewayType] /\ gateway'[i].chunks = 0
        /\ proxy'.pc = "streaming" /\ proxy'.request = i
    BY <1>1, <1>2, <2>1, ProxyTurns, GatewayTurns
  <2>3. /\ C!OutOfStep \/ Downloaded'
        /\ download' \in Seq(Answers) /\ download' # <<>>
        /\ download'[Len(download')] = C!Part("chunked", i, 1)
    BY <1>1, <1>2, <2>1, <2>2, FirstPart
  <2>4. C!OutOfStep \/ Written'
    <3>1. C!Part("chunked", i, 1).type = "chunked" /\ C!Part("chunked", i, 1).of = i /\ C!Part("chunked", i, 1).nth = 1
      BY <1>2, AnswersAre
    <3>2. Amid(i)'
      BY <2>2, <2>3, <3>1 DEF Amid
    <3> QED BY <1>1, <1>2, <2>2, <3>2 DEF Written, Amid, C!Req
  <2> QED BY <1>1, <1>2, <2>1, <2>2, <2>3, <2>4, Proceeds
<1>4. CASE ~body
  <2>1. /\ gateway' = [gateway EXCEPT ![i].state = "ended"] /\ proxy' = C!NextRequest
        /\ C!Write(<<C!Part("empty", i, 1)>>)
    BY <1>4 DEF C!GatewayAnswers, C!Here
  <2>2. /\ AtGateway' /\ Keeps /\ gateway' \in [C!Ids -> GatewayType]
        /\ gateway'[i].chunks = 0 /\ gateway'[i].state = "ended"
    BY <1>1, <1>2, <2>1, NextRequestIs, GatewayTurns
  <2>3. /\ C!OutOfStep \/ Downloaded'
        /\ download' \in Seq(Answers) /\ download' # <<>>
        /\ download'[Len(download')] = C!Part("empty", i, 1)
    BY <1>1, <1>2, <2>1, <2>2, FirstPart DEF Whole
  <2>4. C!Part("empty", i, 1).of = i /\ C!Part("empty", i, 1).type = "empty"
    BY <1>2, AnswersAre
  <2> QED BY <1>1, <2>1, <2>2, <2>3, <2>4, Answered
<1> QED BY <1>3, <1>4

\* A further part of a response of the Gateway.
LEMMA FurtherPart ==
    ASSUME ConnectionInv, NEW i \in C!Ids, i = proxy.request, proxy.pc = "streaming", NEW type \in {"chunk", "end"},
           Keeps, client' = client, C!Write(<<C!Part(type, i, gateway[i].chunks + 2)>>),
           type = "end" => gateway'[i].state = "ended" /\ gateway'[i].chunks = gateway[i].chunks
    PROVE  /\ C!OutOfStep \/ Downloaded'
           /\ download' \in Seq(Answers) /\ download' # <<>>
           /\ LET x == download'[Len(download')] IN x.type = type /\ x.of = i /\ x.nth = gateway[i].chunks + 2
<1> DEFINE n == gateway[i].chunks + 2
           x == C!Part(type, i, n)
<1>1. i \in Nat /\ n \in Nat \ {0} /\ n - 2 = gateway[i].chunks
  BY AskedOf
<1> HIDE DEF n
<1>2. x \in Answers /\ x.type = type /\ x.of = i /\ x.nth = n
  BY <1>1, AnswersAre
<1>3. C!OutOfStep \/ (Amid(i) /\ ~C!Req(i).head)
  BY DEF ConnectionInv, InStep, Written
<1>4. C!OutOfStep \/ AnswerPart(x, gateway')
  BY <1>1, <1>2, <1>3 DEF AnswerPart, Whole
<1>5. C!OutOfStep \/ Fits(x)
  BY <1>2, <1>3, FitsAmid DEF ConnectionInv, n
<1>6. C!Write(<<x>>)
  BY DEF n
<1> HIDE DEF x
<1>7. <<x>> \in Seq(Answers) /\ <<x>> # <<>> /\ Len(<<x>>) = 1 /\ <<x>>[1] = x
  BY <1>2
<1>8. C!OutOfStep \/ \A k \in 1 .. Len(<<x>>) : AnswerPart(<<x>>[k], gateway')
  BY <1>4, <1>7
<1>9. \A k \in 1 .. Len(<<x>>) - 1 : Succeeds(<<x>>[k], <<x>>[k + 1])
  BY <1>7
<1>10. C!OutOfStep \/ Downloaded'
  BY <1>5, <1>6, <1>7, <1>8, <1>9, PartsWritten DEF ConnectionInv, InStep
<1>11. download' \in Seq(Answers) /\ download' # <<>> /\ download'[Len(download')] = x
  BY <1>6, <1>7, PartsPut DEF ConnectionInv
<1> QED BY <1>2, <1>10, <1>11 DEF n

LEMMA GatewayChunkStep == ASSUME ConnectionInv, C!GatewayChunk PROVE ConnectionInv'
<1> DEFINE i == proxy.request
           r == [gateway[i] EXCEPT !.chunks = @ + 1]
<1>1. /\ proxy.pc = "streaming" /\ UNCHANGED <<requests, sending, upload, left, client, proxy>>
      /\ gateway' = [gateway EXCEPT ![i] = r]
      /\ C!Write(<<C!Part("chunk", i, gateway[i].chunks + 2)>>)
  BY DEF C!GatewayChunk, C!Quiet, C!Here
<1>2. /\ i \in C!Ids /\ C!Req(i).path = "gateway" /\ gateway[i].chunks \in Nat /\ gateway[i] \in GatewayType
      /\ gateway[i].state = "answering" /\ ~C!Req(i).head
  BY <1>1, AskedOf DEF ConnectionInv, AtGateway, C!GatewayChunk, C!Here
<1>3. r \in GatewayType /\ r.state = "answering" /\ r.got = gateway[i].got /\ r.chunks = gateway[i].chunks + 1
  BY <1>2 DEF GatewayType
<1> HIDE DEF r
<1>4. AtGateway' /\ Keeps /\ gateway' \in [C!Ids -> GatewayType] /\ gateway'[i] = r
  BY <1>1, <1>2, <1>3, GatewayChanges DEF ConnectionInv, ConnectionTypes
<1>5. /\ C!OutOfStep \/ Downloaded'
      /\ download' \in Seq(Answers) /\ download' # <<>>
      /\ LET x == download'[Len(download')] IN x.type = "chunk" /\ x.of = i /\ x.nth = gateway[i].chunks + 2
  BY <1>1, <1>2, <1>4, FurtherPart
<1>6. Written'
  <2>1. gateway[i].chunks + 2 = gateway'[i].chunks + 1
    BY <1>2, <1>3, <1>4
  <2>2. Amid(i)'
    BY <1>1, <1>5, <2>1 DEF Amid
  <2> QED BY <1>1, <1>2, <2>2 DEF Written, Amid, C!Req
<1>7. proxy = [proxy EXCEPT !.pc = "streaming"]
  BY <1>1 DEF ConnectionInv, ConnectionTypes, ProxyType
<1> QED BY <1>1, <1>2, <1>4, <1>5, <1>6, <1>7, Proceeds

LEMMA GatewayEndsStep == ASSUME ConnectionInv, C!GatewayEnds PROVE ConnectionInv'
<1> DEFINE i == proxy.request
<1>1. /\ proxy.pc = "streaming" /\ UNCHANGED <<requests, sending, upload, left, client>> /\ proxy' = C!NextRequest
      /\ gateway' = [gateway EXCEPT ![i].state = "ended"]
      /\ C!Write(<<C!Part("end", i, gateway[i].chunks + 2)>>)
  BY DEF C!GatewayEnds, C!Quiet, C!Here
<1>2. i \in C!Ids
  BY <1>1, AskedOf
<1>3. /\ AtGateway' /\ Keeps /\ gateway' \in [C!Ids -> GatewayType]
      /\ gateway'[i].chunks = gateway[i].chunks /\ gateway'[i].state = "ended"
  BY <1>1, NextRequestIs, GatewayTurns
<1>4. /\ C!OutOfStep \/ Downloaded'
      /\ download' \in Seq(Answers) /\ download' # <<>>
      /\ LET x == download'[Len(download')] IN x.type = "end" /\ x.of = i /\ x.nth = gateway[i].chunks + 2
  BY <1>1, <1>2, <1>3, FurtherPart
<1> QED BY <1>1, <1>3, <1>4, Answered

(***************************************************************************)
(* The client.                                                             *)
(***************************************************************************)
\* The client sends, or leaves: everything else stays.
LEMMA OthersStay ==
    ASSUME ConnectionInv, UNCHANGED <<requests, proxy, gateway, download, client>>, left' \in BOOLEAN,
           Uploaded', sending' \in PlaceType, upload' \in Seq(RequestParts)
    PROVE  ConnectionInv'
<1>1. AtRequest'
  BY DEF ConnectionInv, AtRequest, Over, C!Ids, C!Req
<1>2. AtGateway' /\ Keeps
  BY DEF ConnectionInv, AtGateway, C!OnlyWholeRequests, C!NoAnswer, C!Ids, C!Req, Keeps
<1>3. C!OutOfStep \/ (Downloaded' /\ ReadWhole')
  BY <1>2, NothingWritten, ReadStays DEF ConnectionInv, InStep
<1>4. C!OutOfStep \/ Written'
  BY DEF ConnectionInv, InStep, Written, Between, Amid, C!Decoding, C!Req
<1>5. ConnectionTypes'
  BY DEF ConnectionInv, ConnectionTypes, C!Ids
<1>6. C!OutOfStep => C!OutOfStep'
  BY HereIs, OutOfStepRemains
<1> QED BY <1>1, <1>2, <1>3, <1>4, <1>5, <1>6 DEF ConnectionInv, InStep

LEMMA SendStep == ASSUME ConnectionInv, C!Send PROVE ConnectionInv'
<1>1. UNCHANGED <<requests, proxy, gateway, download, client, left>>
  BY DEF C!Send
<1>2. Waiting /\ (~Over => ReadPlace = NextPlace)
  BY UploadedIs DEF ConnectionInv
<1>3. Waiting' /\ NextPlace' = NextPlace /\ sending' \in PlaceType /\ upload' \in Seq(RequestParts)
  BY <1>2, SentQueue DEF ConnectionInv
<1>4. ~Over' => ~Over /\ ReadPlace' = ReadPlace
  BY <1>1 DEF Over, ReadPlace
<1>5. Uploaded'
  BY <1>2, <1>3, <1>4, UploadedThen
<1> QED BY <1>1, <1>3, <1>5, OthersStay DEF ConnectionInv, ConnectionTypes

LEMMA DisconnectStep == ASSUME ConnectionInv, C!Disconnect PROVE ConnectionInv'
<1>1. UNCHANGED <<requests, sending, upload, proxy, gateway, download, client>> /\ left' \in BOOLEAN
  BY DEF C!Disconnect
<1>2. Uploaded'
  BY <1>1, WaitingStays, UploadedIs, UploadedThen DEF ConnectionInv, Over, ReadPlace, NextPlace, PlaceOf
<1> QED BY <1>1, <1>2, OthersStay DEF ConnectionInv, ConnectionTypes

LEMMA ConnectionStutters == ASSUME ConnectionInv, UNCHANGED varsC PROVE ConnectionInv'
<1>1. UNCHANGED <<requests, sending, left, upload, proxy, gateway, download, client>>
  BY DEF varsC
<1>2. Uploaded'
  BY <1>1, WaitingStays, UploadedIs, UploadedThen DEF ConnectionInv, Over, ReadPlace, NextPlace, PlaceOf
<1> QED BY <1>1, <1>2, OthersStay DEF ConnectionInv, ConnectionTypes

\* The client, field by field.
LEMMA ClientIs ==
    ASSUME ConnectionInv
    PROVE  /\ client.pc \in {"head", "length", "chunked", "done"} /\ client.results \in Seq(ResultType)
           /\ InStep => ~client.garbled
           /\ client.chunks \in Nat
           /\ client = [pc |-> client.pc, results |-> client.results, garbled |-> client.garbled, chunks |-> client.chunks]
<1>1. client \in ClientType /\ (InStep => ~client.garbled)
  BY DEF ConnectionInv, ConnectionTypes, InStep, ReadWhole, C!ResponsesInStep
<1>2. client.pc \in {"head", "length", "chunked", "done"} /\ client.results \in Seq(ResultType) /\ client.chunks \in Nat
  BY <1>1 DEF ClientType
<1>3. client = [pc |-> client.pc, results |-> client.results, garbled |-> client.garbled, chunks |-> client.chunks]
  BY <1>1 DEF ClientType
<1> QED BY <1>1, <1>2, <1>3

\* A result is added to those that are in step.
LEMMA ResultAdded ==
    ASSUME ConnectionInv, InStep, C!Decoding \in C!Ids, NEW how \in {"complete", "truncated", "switched", "refused"},
           NEW pc \in {"head", "done"},
           how = "complete" => Whole(C!Decoding, client.chunks, gateway),
           NEW chunks \in Nat, pc = "head" => chunks = 0, UNCHANGED <<requests, gateway>>,
           client' = [client EXCEPT !.pc = pc,
                         !.results = Append(@, [of |-> C!Decoding, how |-> how, chunks |-> client.chunks]),
                         !.chunks = chunks]
    PROVE  /\ ReadWhole' /\ client' \in ClientType
           /\ client'.pc = pc /\ Len(client'.results) = C!Decoding
<1> DEFINE x == [of |-> C!Decoding, how |-> how, chunks |-> client.chunks]
           n == C!Decoding
           q == client.results
<1>1. n \in Nat /\ n = Len(q) + 1 /\ Len(q) \in Nat /\ x \in ResultType /\ x.of = n /\ x.how = how /\ x.chunks = client.chunks
  BY ClientIs DEF C!Decoding, ResultType
<1> HIDE DEF x
<1>2. /\ Append(q, x) \in Seq(ResultType) /\ Len(Append(q, x)) = n /\ Append(q, x)[n] = x
      /\ \A k \in 1 .. Len(q) : Append(q, x)[k] = q[k]
  BY <1>1, ClientIs, PutBehind
<1>3. /\ client'.pc = pc /\ client'.results = Append(q, x) /\ client'.garbled = client.garbled /\ client'.chunks = chunks
      /\ client' = [pc |-> pc, results |-> Append(q, x), garbled |-> client.garbled, chunks |-> chunks]
  BY ClientIs DEF x
<1>4. client' \in ClientType
  <2>1. client.garbled \in BOOLEAN
    <3>1. client \in ClientType
      BY DEF ConnectionInv, ConnectionTypes
    <3> QED BY <3>1, Zenon DEF ClientType
  <2> QED BY <1>2, <1>3, <2>1 DEF ClientType
<1>5. DOMAIN client'.results = 1 .. n /\ DOMAIN client.results = 1 .. Len(q)
  BY <1>1, <1>2, <1>3, ClientIs
<1>6. C!ResponsesInStep'
  <2>1. \A k \in 1 .. n : client'.results[k].of = k
    BY <1>1, <1>2, <1>3, <1>5 DEF InStep, ReadWhole, C!ResponsesInStep
  <2> QED BY <1>3, <1>5, <2>1, ClientIs DEF C!ResponsesInStep
<1>7. C!TruncationVisible'
  <2>1. ASSUME NEW k \in 1 .. n, client'.results[k].how = "complete", C!Req(k).path = "gateway"
        PROVE  gateway[k].state = "ended" /\ client'.results[k].chunks = gateway[k].chunks
    <3>1. CASE k = n
      BY <1>1, <1>2, <1>3, <2>1, <3>1 DEF Whole
    <3>2. CASE k # n
      <4>1. k \in 1 .. Len(q) /\ client'.results[k] = q[k]
        BY <1>1, <1>2, <1>3, <3>2
      <4> QED BY <1>5, <2>1, <4>1 DEF InStep, ReadWhole, C!TruncationVisible
    <3> QED BY <3>1, <3>2
  <2> QED BY <1>5, <2>1 DEF C!TruncationVisible, C!Req
<1>8. Len(client'.results) <= Len(requests)
  BY <1>1, <1>2, <1>3, HereIs DEF C!Ids
<1>9. ReadWhole'
  BY <1>3, <1>6, <1>7, <1>8 DEF ReadWhole
<1> QED BY <1>2, <1>3, <1>4, <1>9

\* More of a response is waited for.
LEMMA ReadsOn ==
    ASSUME ConnectionInv, InStep, C!Decoding \in C!Ids, NEW pc \in {"length", "chunked"}, NEW chunks \in Nat,
           pc = "length" => chunks = 0, UNCHANGED <<requests, gateway>>,
           client' = [client EXCEPT !.pc = pc, !.chunks = chunks]
    PROVE  /\ ReadWhole' /\ client' \in ClientType
           /\ client'.pc = pc /\ client'.results = client.results /\ client'.chunks = chunks
<1>1. /\ client'.pc = pc /\ client'.results = client.results /\ client'.garbled = client.garbled /\ client'.chunks = chunks
      /\ client' = [pc |-> pc, results |-> client.results, garbled |-> client.garbled, chunks |-> chunks]
  BY ClientIs
<1>2. client' \in ClientType
  <2>1. client.garbled \in BOOLEAN
    <3>1. client \in ClientType
      BY DEF ConnectionInv, ConnectionTypes
    <3> QED BY <3>1, Zenon DEF ClientType
  <2> QED BY <1>1, <2>1, ClientIs DEF ClientType
<1>3. C!TruncationVisible'
  <2>1. \A k \in DOMAIN client.results : k \in C!Ids
    BY ClientIs, HereIs DEF InStep, ReadWhole, C!Ids
  <2> QED BY <1>1, <2>1 DEF InStep, ReadWhole, C!TruncationVisible, C!Req
<1>4. C!ResponsesInStep' /\ C!Decoding' = C!Decoding /\ C!Ids' = C!Ids
  BY <1>1, ClientIs DEF InStep, ReadWhole, C!ResponsesInStep, C!Decoding, C!Ids
<1> QED BY <1>1, <1>2, <1>3, <1>4 DEF InStep, ReadWhole

LEMMA HeadIs ==
    ASSUME ConnectionInv, InStep, download # <<>>
    PROVE  AnswerPart(Head(download), gateway) /\ Head(download) \in Answers /\ Awaits(Head(download), client)
<1>1. download \in Seq(Answers) /\ 1 \in 1 .. Len(download) /\ Head(download) = download[1] /\ Head(download) \in Answers
  BY DEF ConnectionInv, ConnectionTypes
<1>2. AnswerPart(download[1], gateway)
  BY <1>1 DEF InStep, Downloaded
<1> QED BY <1>1, <1>2 DEF InStep, Downloaded

\* What the client makes of a part that it awaits.
FinishesIt(x) == x.type \in {"empty", "content", "end"}
ReadAs(x) ==
    /\ x.of = C!Decoding /\ C!Decoding \in C!Ids
    /\ x.type \in {"refusal", "switch"} => client'.pc = "done"
    /\ FinishesIt(x) => /\ client'.pc = (IF C!Req(C!Decoding).close THEN "done" ELSE "head")
                   /\ Len(client'.results) = C!Decoding
    /\ x.type \in {"length", "chunked", "chunk"} =>
          /\ client'.pc = (IF x.type = "length" THEN "length" ELSE "chunked")
          /\ client'.results = client.results /\ client'.chunks + 1 = x.nth
    /\ ReadWhole' /\ client' \in ClientType

LEMMA ResultIs ==
    ASSUME ConnectionInv, InStep, download # <<>>, C!Decoding \in C!Ids, NEW how \in {"complete", "switched", "refused"},
           Head(download).of = C!Decoding, client' = C!Result(how), UNCHANGED <<requests, gateway>>,
           how = "complete" => Whole(C!Decoding, client.chunks, gateway)
    PROVE  /\ ReadWhole' /\ client' \in ClientType /\ Len(client'.results) = C!Decoding
           /\ client'.pc = (IF how # "complete" \/ C!Req(C!Decoding).close THEN "done" ELSE "head")
<1> DEFINE pc == IF how # "complete" \/ C!Req(C!Decoding).close THEN "done" ELSE "head"
<1>1. pc \in {"head", "done"}
  OBVIOUS
<1>2. client' = [client EXCEPT !.pc = pc,
                     !.results = Append(@, [of |-> C!Decoding, how |-> how, chunks |-> client.chunks]),
                     !.chunks = 0]
  BY DEF C!Result
<1> HIDE DEF pc
<1>3. ReadWhole' /\ client' \in ClientType /\ client'.pc = pc /\ Len(client'.results) = C!Decoding
  BY <1>1, <1>2, ResultAdded
<1> QED BY <1>3 DEF pc

LEMMA ClientReads == ASSUME ConnectionInv, InStep, C!Receive PROVE ReadAs(Head(download))
<1> DEFINE x == Head(download)
           n == C!Decoding
<1>1. /\ download # <<>> /\ client.pc # "done" /\ UNCHANGED <<requests, gateway>>
      /\ client.pc \in {"head", "length", "chunked"}
  BY ClientIs DEF C!Receive
<1>2. AnswerPart(x, gateway) /\ x \in Answers /\ Awaits(x, client) /\ n = Len(client.results) + 1 /\ client.chunks \in Nat
  BY <1>1, HeadIs, ClientIs DEF C!Decoding
<1>3. x.of = n /\ n \in C!Ids
  BY <1>1, <1>2 DEF Awaits, Starts, GoesOn, AnswerPart
<1>4. client' = CASE client.pc = "head" /\ n \notin C!Ids -> C!Garbled
                  [] client.pc = "head" /\ n \in C!Ids /\ x.type = "refusal" -> C!Result("refused")
                  [] client.pc = "head" /\ n \in C!Ids /\ x.type = "switch" -> C!Result("switched")
                  [] client.pc = "head" /\ n \in C!Ids /\ x.type \in {"empty", "length", "chunked"} ->
                        IF x.type = "empty" \/ C!Req(n).head THEN C!Result("complete")
                        ELSE [client EXCEPT !.pc = x.type]
                  [] client.pc = "length" /\ x.type = "content" -> C!Result("complete")
                  [] client.pc = "chunked" /\ x.type = "chunk" -> [client EXCEPT !.chunks = @ + 1]
                  [] client.pc = "chunked" /\ x.type = "end" -> C!Result("complete")
                  [] OTHER -> C!Garbled
  BY DEF C!Receive
<1> HIDE DEF x
<1>5. CASE client.pc = "head" /\ x.type \in {"refusal", "switch"}
  <2>1. client' = C!Result("refused") \/ client' = C!Result("switched")
    BY <1>3, <1>4, <1>5
  <2>2. ReadWhole' /\ client' \in ClientType /\ client'.pc = "done"
    BY <1>1, <1>3, <2>1, ResultIs DEF x
  <2> QED BY <1>3, <1>5, <2>2 DEF ReadAs, FinishesIt, x
<1>6. CASE client.pc = "head" /\ x.type = "empty"
  <2>1. client' = C!Result("complete")
    BY <1>3, <1>4, <1>6
  <2>2. Whole(n, client.chunks, gateway)
    BY <1>2, <1>3, <1>6 DEF AnswerPart, InStep, ReadWhole
  <2> QED BY <1>1, <1>3, <1>6, <2>1, <2>2, ResultIs DEF x, ReadAs, FinishesIt
<1>7. CASE client.pc = "head" /\ x.type \in {"length", "chunked"}
  <2>1. ~C!Req(n).head /\ x.nth = 1 /\ client.chunks = 0
    BY <1>2, <1>3, <1>7 DEF AnswerPart, Awaits, Starts, InStep, ReadWhole
  <2>2. client' = [client EXCEPT !.pc = x.type]
    BY <1>3, <1>4, <1>7, <2>1
  <2>3. client' = [client EXCEPT !.pc = x.type, !.chunks = 0]
    BY <2>1, <2>2, ClientIs
  <2>4. ReadWhole' /\ client' \in ClientType /\ client'.pc = x.type /\ client'.results = client.results /\ client'.chunks = 0
    BY <1>1, <1>3, <1>7, <2>3, ReadsOn
  <2> QED BY <1>3, <1>7, <2>1, <2>4 DEF x, ReadAs, FinishesIt
<1>8. CASE client.pc = "length"
  <2>1. x.type = "content" /\ C!Req(n).path # "gateway"
    BY <1>2, <1>3, <1>8 DEF Awaits, GoesOn, AnswerPart
  <2>2. client' = C!Result("complete") /\ Whole(n, client.chunks, gateway)
    BY <1>4, <1>8, <2>1 DEF Whole
  <2> QED BY <1>1, <1>3, <2>1, <2>2, ResultIs DEF x, ReadAs, FinishesIt
<1>9. CASE client.pc = "chunked" /\ x.type = "chunk"
  <2>1. x.nth = client.chunks + 2 /\ client' = [client EXCEPT !.chunks = @ + 1]
    BY <1>2, <1>4, <1>9 DEF Awaits, GoesOn
  <2>2. client' = [client EXCEPT !.pc = "chunked", !.chunks = client.chunks + 1] /\ client.chunks + 1 \in Nat
    <3> DEFINE c == client.chunks + 1
    <3>1. client' = [client EXCEPT !.chunks = c] /\ c \in Nat
      BY <1>2, <2>1
    <3> HIDE DEF c
    <3>2. client' = [client EXCEPT !.pc = "chunked", !.chunks = c]
      BY <1>9, <3>1, ClientIs
    <3> QED BY <3>1, <3>2 DEF c
  <2>3. ReadWhole' /\ client' \in ClientType /\ client'.pc = "chunked" /\ client'.results = client.results /\ client'.chunks = client.chunks + 1
    BY <1>1, <1>3, <2>2, ReadsOn
  <2>4. client'.chunks + 1 = x.nth
    BY <1>2, <2>1, <2>3
  <2> QED BY <1>3, <1>9, <2>3, <2>4 DEF x, ReadAs, FinishesIt
<1>10. CASE client.pc = "chunked" /\ x.type = "end"
  <2>1. x.nth = client.chunks + 2 /\ client' = C!Result("complete")
    BY <1>2, <1>4, <1>10 DEF Awaits, GoesOn
  <2>2. x.nth - 2 = client.chunks
    BY <1>2, <2>1
  <2>3. Whole(n, client.chunks, gateway)
    BY <1>2, <1>3, <1>10, <2>2 DEF AnswerPart
  <2> QED BY <1>1, <1>3, <1>10, <2>1, <2>3, ResultIs DEF x, ReadAs, FinishesIt
<1>11. \/ client.pc = "head" /\ x.type \in {"refusal", "switch", "empty", "length", "chunked"}
       \/ client.pc = "length"
       \/ client.pc = "chunked" /\ x.type \in {"chunk", "end"}
  BY <1>1, <1>2 DEF Awaits, Starts, GoesOn
<1> QED BY <1>5, <1>6, <1>7, <1>8, <1>9, <1>10, <1>11 DEF x

LEMMA ClientStep ==
    ASSUME ConnectionInv, UNCHANGED <<requests, sending, left, upload, proxy, gateway>>, client' \in ClientType,
           download' \in Seq(Answers), C!OutOfStep \/ (ReadWhole' /\ Downloaded' /\ Written')
    PROVE  ConnectionInv'
<1>1. AtRequest'
  BY DEF ConnectionInv, AtRequest, Over, C!Ids, C!Req
<1>2. AtGateway'
  BY DEF ConnectionInv, AtGateway, C!OnlyWholeRequests, C!NoAnswer, C!Ids, C!Req
<1>3. Uploaded'
  BY WaitingStays, UploadedIs, UploadedThen DEF ConnectionInv, Over, ReadPlace, NextPlace, PlaceOf
<1>4. ConnectionTypes'
  BY DEF ConnectionInv, ConnectionTypes, C!Ids
<1>5. C!OutOfStep => C!OutOfStep'
  BY HereIs, OutOfStepRemains
<1> QED BY <1>1, <1>2, <1>3, <1>4, <1>5 DEF ConnectionInv, InStep

\* Whatever the client receives, it remains a decoder.
LEMMA ResultTypes ==
    ASSUME ConnectionInv, NEW pc \in {"head", "done"}, NEW x \in ResultType, NEW chunks \in Nat,
           client' = [client EXCEPT !.pc = pc, !.results = Append(@, x), !.chunks = chunks]
    PROVE  client' \in ClientType
<1>1. Append(client.results, x) \in Seq(ResultType)
  BY ClientIs, PutBehind
<1>2. client \in ClientType
  BY DEF ConnectionInv, ConnectionTypes
<1> QED BY <1>1, <1>2 DEF ClientType
LEMMA ReceivedTypes ==
    ASSUME ConnectionInv, C!Receive
    PROVE  client' \in ClientType /\ download' \in Seq(Answers)
<1> DEFINE x == Head(download)
<1>1. download # <<>> /\ download' = Tail(download) /\ download \in Seq(Answers) /\ client \in ClientType
  BY DEF C!Receive, ConnectionInv, ConnectionTypes
<1>2. x \in Answers /\ download' \in Seq(Answers)
  <2>1. Len(download) \in Nat \ {0} /\ x = download[1] /\ download' \in Seq(Answers)
    BY <1>1, Taken
  <2> QED BY <1>1, <2>1
<1>3. \/ \E how \in {"refused", "switched", "complete"} : client' = C!Result(how)
      \/ client' = [client EXCEPT !.pc = x.type] /\ x.type \in {"length", "chunked"}
      \/ client' = [client EXCEPT !.chunks = @ + 1]
      \/ client' = C!Garbled
  <2>1. \/ client' \in {C!Result("refused"), C!Result("switched"), C!Result("complete"), C!Garbled}
        \/ client' = [client EXCEPT !.pc = x.type] /\ x.type \in {"empty", "length", "chunked"} /\ x.type # "empty"
        \/ client' = [client EXCEPT !.chunks = @ + 1]
    <3> HIDE DEF x
    <3>1. client' = CASE client.pc = "head" /\ C!Decoding \notin C!Ids -> C!Garbled
                  [] client.pc = "head" /\ C!Decoding \in C!Ids /\ x.type = "refusal" -> C!Result("refused")
                  [] client.pc = "head" /\ C!Decoding \in C!Ids /\ x.type = "switch" -> C!Result("switched")
                  [] client.pc = "head" /\ C!Decoding \in C!Ids /\ x.type \in {"empty", "length", "chunked"} ->
                        IF x.type = "empty" \/ C!Req(C!Decoding).head THEN C!Result("complete")
                        ELSE [client EXCEPT !.pc = x.type]
                  [] client.pc = "length" /\ x.type = "content" -> C!Result("complete")
                  [] client.pc = "chunked" /\ x.type = "chunk" -> [client EXCEPT !.chunks = @ + 1]
                  [] client.pc = "chunked" /\ x.type = "end" -> C!Result("complete")
                  [] OTHER -> C!Garbled
      BY DEF C!Receive, x
    <3> QED BY <3>1
  <2> QED BY <2>1
<1>4. ASSUME NEW how \in {"refused", "switched", "complete"}, client' = C!Result(how)
      PROVE  client' \in ClientType
  <2> DEFINE pc == IF how # "complete" \/ C!Req(C!Decoding).close THEN "done" ELSE "head"
             y == [of |-> x.of, how |-> how, chunks |-> client.chunks]
  <2>1. pc \in {"head", "done"} /\ y \in ResultType
    BY <1>2, ClientIs DEF ResultType, Answers
  <2>2. client' = [client EXCEPT !.pc = pc, !.results = Append(@, y), !.chunks = 0]
    BY <1>4 DEF C!Result
  <2> HIDE DEF pc, y
  <2> QED BY <2>1, <2>2, ResultTypes
<1>5. CASE client' = [client EXCEPT !.pc = x.type] /\ x.type \in {"length", "chunked"}
  BY <1>1, <1>5 DEF ClientType
<1>6. CASE client' = [client EXCEPT !.chunks = @ + 1]
  BY <1>1, <1>6 DEF ClientType
<1>7. CASE client' = C!Garbled
  <2>1. client' = [pc |-> "done", results |-> client.results, garbled |-> TRUE, chunks |-> client.chunks]
    BY <1>7, ClientIs DEF C!Garbled
  <2>2. client.results \in Seq(ResultType) /\ client.chunks \in Nat
    BY ClientIs
  <2> HIDE DEF x
  <2>3. client' \in ClientType
    BY ONLY <2>1, <2>2 DEF ClientType
  <2> QED BY <1>2, <2>3
<1> HIDE DEF x
<1>8. client' \in ClientType
  BY ONLY <1>3, <1>4, <1>5, <1>6, <1>7, Zenon
<1> QED BY <1>2, <1>8

LEMMA ReceivedInStep ==
    ASSUME ConnectionInv, InStep, C!Receive
    PROVE  ReadWhole' /\ Downloaded' /\ Written'
<1> DEFINE x == Head(download)
           n == C!Decoding
<1>1. /\ download # <<>> /\ download' = Tail(download) /\ Keeps
      /\ UNCHANGED <<requests, sending, left, upload, proxy, gateway>>
  BY DEF C!Receive, Keeps
<1>2. /\ ReadAs(x) /\ AnswerPart(x, gateway) /\ x \in Answers
  BY <1>1, ClientReads, HeadIs
<1>3. x.type \in {"refusal", "switch", "empty", "length", "content", "chunked", "chunk", "end"} /\ x.nth \in Nat \ {0}
      /\ n \in Nat
  BY <1>2, ClientIs DEF Answers, C!Decoding
<1>4. n = Len(client.results) + 1
  BY DEF C!Decoding
<1> HIDE DEF x, n
<1>5. ASSUME NEW y, Succeeds(x, y)
      PROVE  Awaits(y, client')
  <2>1. CASE FinishesIt(x)
    <3>1. Starts(y, n + 1) /\ ~C!Req(n).close
      BY <1>2, <1>5, <2>1 DEF Succeeds, FinishesIt, ReadAs, n
    <3>2. client'.pc = "head" /\ Len(client'.results) = n
      BY <1>2, <2>1, <3>1 DEF ReadAs, n
    <3> QED BY <3>1, <3>2 DEF Awaits
  <2>2. CASE x.type \in {"length", "chunked", "chunk"}
    <3>1. GoesOn(y, n, x.type, x.nth + 1)
      BY <1>2, <1>5, <2>2 DEF Succeeds, ReadAs, n
    <3>2. /\ client'.pc = (IF x.type = "length" THEN "length" ELSE "chunked")
          /\ Len(client'.results) + 1 = n /\ client'.chunks + 1 = x.nth /\ client'.chunks \in Nat
      BY <1>2, <1>4, <2>2 DEF ReadAs, ClientType
    <3>3. x.type = "length" => x.nth = 1
      BY <1>1, <1>2, <2>2, HeadIs DEF x, Awaits, Starts, GoesOn, ConnectionInv, ConnectionTypes, ClientType, C!Receive
    <3>4. CASE x.type = "length"
      BY <3>1, <3>2, <3>3, <3>4 DEF Awaits, GoesOn
    <3>5. CASE x.type # "length"
      <4>1. x.nth + 1 = client'.chunks + 2
        BY <3>2
      <4> QED BY <2>2, <3>1, <3>2, <3>5, <4>1 DEF Awaits, GoesOn
    <3> QED BY <3>4, <3>5
  <2> QED BY <1>3, <1>5, <2>1, <2>2 DEF Succeeds, FinishesIt
<1>6. /\ Downloaded'
      /\ IF download' = <<>> THEN download[Len(download)] = x ELSE download'[Len(download')] = download[Len(download)]
  BY <1>1, <1>5, PartTaken DEF ConnectionInv, InStep, x
<1>7. ASSUME NEW m, Between(m) PROVE Between(m)'
  <2>1. CASE download' = <<>>
    <3>1. FinishesIt(x) /\ x.of = m /\ ~C!Req(m).close
      BY <1>1, <1>6, <1>7, <2>1 DEF Between, FinishesIt
    <3> QED BY <1>2, <2>1, <3>1 DEF ReadAs, Between
  <2>2. CASE download' # <<>>
    BY <1>1, <1>6, <1>7, <2>2 DEF Between, C!Req
  <2> QED BY <2>1, <2>2
<1>8. ASSUME NEW m \in Nat, Amid(m) PROVE Amid(m)'
  <2>1. CASE download' = <<>>
    <3>1. x.type \in {"chunked", "chunk"} /\ x.of = m /\ x.nth = gateway[m].chunks + 1
      BY <1>1, <1>6, <1>8, <2>1 DEF Amid
    <3>2. client'.pc = "chunked" /\ client'.results = client.results /\ client'.chunks + 1 = x.nth /\ m = n
      BY <1>2, <3>1 DEF ReadAs, n
    <3>3. client'.chunks \in Nat /\ gateway[m].chunks \in Nat
      BY <1>2, <3>2 DEF ReadAs, n, ClientType, ConnectionInv, ConnectionTypes, GatewayType
    <3>4. client'.chunks = gateway'[m].chunks /\ Len(client'.results) + 1 = m
      BY <1>1, <1>4, <3>1, <3>2, <3>3
    <3> QED BY <2>1, <3>2, <3>4 DEF Amid, C!Decoding
  <2>2. CASE download' # <<>>
    BY <1>1, <1>6, <1>8, <2>2 DEF Amid
  <2> QED BY <2>1, <2>2
<1>9. Written'
  BY <1>1, <1>7, <1>8, HereIs DEF InStep, Written, C!Req
<1> QED BY <1>2, <1>6, <1>9 DEF ReadAs

LEMMA ReceiveStep == ASSUME ConnectionInv, C!Receive PROVE ConnectionInv'
<1>1. UNCHANGED <<requests, sending, left, upload, proxy, gateway>>
  BY DEF C!Receive
<1> QED BY <1>1, ReceivedTypes, ReceivedInStep, ClientStep DEF ConnectionInv

LEMMA ReceiveEndStep == ASSUME ConnectionInv, C!ReceiveEnd PROVE ConnectionInv'
<1>1. /\ proxy.pc = "closed" /\ download = <<>> /\ client.pc \in {"length", "chunked"}
      /\ UNCHANGED <<requests, sending, left, upload, proxy, gateway, download>>
      /\ client' = [client EXCEPT !.pc = "done",
                        !.results = Append(@, [of |-> C!Decoding, how |-> "truncated", chunks |-> client.chunks])]
  BY DEF C!ReceiveEnd
<1>2. client.chunks \in Nat /\ (InStep => C!Decoding \in C!Ids)
  BY <1>1, ClientIs DEF InStep, ReadWhole
<1>3. client' = [client EXCEPT !.pc = "done",
                     !.results = Append(@, [of |-> C!Decoding, how |-> "truncated", chunks |-> client.chunks]),
                     !.chunks = client.chunks]
  BY <1>1, ClientIs
<1>4. InStep => ReadWhole'
  BY <1>1, <1>2, <1>3, ResultAdded
<1>7. client' \in ClientType
  <2> DEFINE y == [of |-> C!Decoding, how |-> "truncated", chunks |-> client.chunks]
  <2>1. y \in ResultType
    BY <1>2, ClientIs DEF ResultType, C!Decoding
  <2>2. client' = [client EXCEPT !.pc = "done", !.results = Append(@, y), !.chunks = client.chunks]
    BY <1>3
  <2> HIDE DEF y
  <2> QED BY <1>2, <2>1, <2>2, ResultTypes
<1>5. Downloaded'
  <2>1. Len(download') = 0
    BY <1>1
  <2> QED BY <1>1, <2>1, DownloadedThen
<1>6. Written'
  BY <1>1 DEF Written
<1> QED BY <1>1, <1>4, <1>5, <1>6, <1>7, ClientStep DEF ConnectionInv, ConnectionTypes

LEMMA ConnectionStarts == ASSUME requests \in Carried, C!Init PROVE ConnectionInv
<1>1. /\ sending = [request |-> 1, part |-> 1] /\ left = FALSE /\ upload = <<>>
      /\ proxy = [pc |-> "line", request |-> 0, body |-> 0] /\ gateway = [i \in C!Ids |-> C!NoAnswer]
      /\ download = <<>> /\ client = [pc |-> "head", results |-> <<>>, garbled |-> FALSE, chunks |-> 0]
  BY DEF C!Init
<1>2. /\ client.pc = "head" /\ client.results = <<>> /\ ~client.garbled /\ client.chunks = 0 /\ Len(client.results) = 0
  BY <1>1
<1>3. client \in ClientType
  <2>1. <<>> \in Seq(ResultType) /\ 0 \in Nat
    OBVIOUS
  <2> QED BY <1>1, <2>1 DEF ClientType
<1>4. gateway \in [C!Ids -> GatewayType] /\ \A i \in C!Ids : gateway[i] = C!NoAnswer /\ C!NoAnswer.state = "none"
  BY <1>1 DEF GatewayType, C!NoAnswer
<1>5. ConnectionTypes
  <2>1. sending \in PlaceType /\ proxy \in ProxyType
    BY <1>1 DEF PlaceType, ProxyType
  <2>2. download \in Seq(Answers) /\ upload \in Seq(RequestParts) /\ left \in BOOLEAN
    <3>1. <<>> \in Seq(Answers) /\ <<>> \in Seq(RequestParts)
      OBVIOUS
    <3> QED BY <1>1, <3>1
  <2> QED BY <1>3, <1>4, <2>1, <2>2 DEF ConnectionTypes
<1>6. Uploaded
  <2>1. 1 \in C!Ids \/ (1 \notin C!Ids /\ Len(requests) = 0)
    BY RequestsAre DEF C!Ids
  <2>2. 1 \in C!Ids => 1 \in 1 .. C!Size(1)
    BY RequestsAre
  <2>3. Len(upload) = 0 /\ ~(\E k \in 1 .. 0 : TRUE) /\ ~(\E k \in 1 .. 0 - 1 : TRUE)
    BY <1>1
  <2> QED BY <1>1, <2>1, <2>2, <2>3 DEF Uploaded, ReadPlace
<1>7. AtRequest
  BY <1>1, PartsAssumption DEF AtRequest, C!ConnectionAssumption
<1>8. AtGateway
  BY <1>1, <1>4 DEF AtGateway, C!OnlyWholeRequests
<1>9. Downloaded
  <2>1. Len(download) = 0 /\ ~(\E k \in 1 .. 0 : TRUE) /\ ~(\E k \in 1 .. 0 - 1 : TRUE)
    BY <1>1
  <2> QED BY <1>1, <2>1 DEF Downloaded
<1>10. Written
  BY <1>1, <1>2 DEF Written, Between
<1>11. ReadWhole
  BY <1>2, RequestsAre DEF ReadWhole, C!ResponsesInStep, C!TruncationVisible
<1> QED BY <1>5, <1>6, <1>7, <1>8, <1>9, <1>10, <1>11 DEF ConnectionInv, InStep

LEMMA ConnectionSteps == ASSUME ConnectionInv, C!Next PROVE ConnectionInv'
<1>1. CASE C!Reading
  BY <1>1, ReadLineStep, ReadHeadersStep, ReadBodyStep, ReadLastChunkStep, EndIdleStep, EndReadingStep DEF C!Reading
<1>2. CASE C!Answering
  BY <1>2, AnswerLocallyStep, AbandonStep, ForwardStep DEF C!Answering
<1>3. CASE C!GatewayStep \/ C!GatewayChunk
  BY <1>3, GivenUp, UpgradedStep, GatewayAnswersStep, GatewayChunkStep, GatewayEndsStep DEF C!GatewayStep
<1>4. CASE C!WriteFails \/ C!Send \/ C!Disconnect \/ C!Receive \/ C!ReceiveEnd
  BY <1>4, AbandonStep, SendStep, DisconnectStep, ReceiveStep, ReceiveEndStep
<1> QED BY <1>1, <1>2, <1>3, <1>4 DEF C!Next

(***************************************************************************)
(* The answer to a new chat.                                               *)
(***************************************************************************)
LEMMA ReplyMade ==
    ASSUME NEW json \in BOOLEAN, NEW parts \in 0 .. MaxParts, NEW content \in {"defaults", "limits", "neither"}
    PROVE  [json |-> json, content |-> content, parts |-> parts] \in ReplyType
BY DEF ReplyType
LEMMA HoldMade ==
    ASSUME NEW restore \in BOOLEAN, NEW parts \in 0 .. Limit, NEW pc \in {"idle", "asked", "holding", "streaming", "done"}
    PROVE  [pc |-> pc, restore |-> restore, parts |-> parts] \in HoldType
BY DEF HoldType
LEMMA SeenMade ==
    ASSUME NEW adjusted \in BOOLEAN, NEW parts \in 0 .. MaxParts, NEW end \in {"open", "complete", "broken"}
    PROVE  [parts |-> parts, adjusted |-> adjusted, end |-> end] \in SeenType
BY DEF SeenType

LEMMA ChatIs ==
    ASSUME ChatInv
    PROVE  /\ Limit \in Nat /\ MaxParts \in Nat
           /\ reply.parts \in 0 .. MaxParts /\ hold.parts \in 0 .. Limit /\ seen.parts \in 0 .. MaxParts
           /\ reply.json \in BOOLEAN /\ hold.restore \in BOOLEAN /\ seen.adjusted \in BOOLEAN
           /\ reply.content \in {"defaults", "limits", "neither"} /\ seen.end \in {"open", "complete", "broken"} /\ 0 \in 0 .. Limit
           /\ 0 \in 0 .. MaxParts
           /\ reply = [json |-> reply.json, content |-> reply.content, parts |-> reply.parts]
           /\ hold = [pc |-> hold.pc, restore |-> hold.restore, parts |-> hold.parts]
           /\ seen = [parts |-> seen.parts, adjusted |-> seen.adjusted, end |-> seen.end]
<1>1. Limit \in Nat /\ MaxParts \in Nat /\ reply \in ReplyType /\ hold \in HoldType /\ seen \in SeenType
  BY PartsAssumption DEF I!ChatInitAssumption, ChatInv, I!TypeOK, ReplyType, HoldType, SeenType
<1>2. /\ reply.parts \in 0 .. MaxParts /\ hold.parts \in 0 .. Limit /\ seen.parts \in 0 .. MaxParts
      /\ reply.content \in {"defaults", "limits", "neither"} /\ seen.end \in {"open", "complete", "broken"} /\ 0 \in 0 .. Limit
      /\ 0 \in 0 .. MaxParts
  BY <1>1 DEF ReplyType, HoldType, SeenType
<1>3. reply.json \in BOOLEAN /\ hold.restore \in BOOLEAN /\ seen.adjusted \in BOOLEAN
  BY <1>1, Zenon DEF ReplyType, HoldType, SeenType
<1>4. reply = [json |-> reply.json, content |-> reply.content, parts |-> reply.parts]
  BY <1>1 DEF ReplyType
<1>5. hold = [pc |-> hold.pc, restore |-> hold.restore, parts |-> hold.parts]
  BY <1>1 DEF HoldType
<1>6. seen = [parts |-> seen.parts, adjusted |-> seen.adjusted, end |-> seen.end]
  BY <1>1 DEF SeenType
<1> QED BY <1>1, <1>2, <1>3, <1>4, <1>5, <1>6

LEMMA ChatTypesThen ==
    ASSUME ChatInv, chosen' \in BOOLEAN, opening' = opening, reply' \in ReplyType, hold' \in HoldType, seen' \in SeenType
    PROVE  I!TypeOK'
BY DEF ChatInv, I!TypeOK, ReplyType, HoldType, SeenType

LEMMA ChatStarts == ASSUME I!Init PROVE ChatInv
BY PartsAssumption DEF I!Init, ChatInv, I!ChoiceIsRestored, I!TypeOK, I!ChatInitAssumption

LEMMA ChatSteps == ASSUME ChatInv, I!Next PROVE ChatInv'
<1>0. reply \in ReplyType /\ hold \in HoldType /\ seen \in SeenType /\ chosen \in BOOLEAN
  BY DEF ChatInv, I!TypeOK, ReplyType, HoldType, SeenType
<1>1. CASE I!Choose
  <2>1. I!TypeOK'
    BY <1>0, <1>1, ChatTypesThen DEF I!Choose
  <2> QED BY <1>1, <2>1 DEF I!Choose, ChatInv, I!ChoiceIsRestored
<1>2. CASE I!Ask
  <2> DEFINE restore == opening.chat /\ opening.fresh /\ chosen
  <2>1. restore \in BOOLEAN /\ UNCHANGED <<chosen, opening, reply, seen>>
        /\ hold' = [hold EXCEPT !.pc = "asked", !.restore = restore] /\ hold.pc = "idle"
    BY <1>2 DEF I!Ask
  <2> HIDE DEF restore
  <2>2. hold' = [pc |-> "asked", restore |-> restore, parts |-> hold.parts]
    BY <2>1, ChatIs
  <2>3. I!TypeOK'
    <3>1. hold' \in HoldType
      <4>1. [pc |-> "asked", restore |-> restore, parts |-> hold.parts] \in HoldType
        BY <2>1, ChatIs, HoldMade
      <4> QED BY <2>2, <4>1
    <3> QED BY <1>0, <2>1, <3>1, ChatTypesThen
  <2> QED BY <2>1, <2>2, <2>3 DEF ChatInv, I!ChoiceIsRestored
<1>3. ASSUME NEW json \in BOOLEAN, NEW content \in {"defaults", "limits", "neither"}, I!Answer(json, content)
      PROVE  ChatInv'
  <2> DEFINE pc == IF hold.restore /\ json THEN "holding" ELSE "streaming"
  <2>1. /\ hold.pc = "asked" /\ UNCHANGED <<chosen, opening, seen>> /\ pc \in {"holding", "streaming"}
        /\ reply' = [json |-> json, content |-> content, parts |-> 0]
        /\ hold' = [hold EXCEPT !.pc = pc]
        /\ pc = "holding" <=> hold.restore /\ json
    BY <1>3 DEF I!Answer
  <2> HIDE DEF pc
  <2>2. hold' = [pc |-> pc, restore |-> hold.restore, parts |-> hold.parts]
    BY <2>1, ChatIs
  <2>3. reply' \in ReplyType /\ hold' \in HoldType
    <3>1. reply' \in ReplyType
      BY <2>1, ChatIs, ReplyMade
    <3>2. hold' \in HoldType
      <4>1. hold.restore \in BOOLEAN /\ hold.parts \in 0 .. Limit /\ pc \in {"idle", "asked", "holding", "streaming", "done"}
        BY <2>1, ChatIs
      <4>2. [pc |-> pc, restore |-> hold.restore, parts |-> hold.parts] \in HoldType
        BY <4>1, HoldMade
      <4> QED BY <2>2, <4>2
    <3> QED BY <3>1, <3>2
  <2>4. I!TypeOK'
    BY <1>0, <2>1, <2>3, ChatTypesThen
  <2> QED BY <2>1, <2>2, <2>4 DEF ChatInv, I!ChoiceIsRestored
<1>4. CASE I!Part
  <2> DEFINE n == reply.parts + 1
  <2>1. /\ UNCHANGED <<chosen, opening>> /\ reply.parts < MaxParts /\ reply' = [reply EXCEPT !.parts = n]
    BY <1>4 DEF I!Part
  <2>2. n \in 0 .. MaxParts /\ n = reply.parts + 1
    BY <2>1, ChatIs
  <2> HIDE DEF n
  <2>3. reply' = [json |-> reply.json, content |-> reply.content, parts |-> n] /\ reply' \in ReplyType
    <3>1. reply' = [json |-> reply.json, content |-> reply.content, parts |-> n]
      BY <2>1, ChatIs
    <3>2. [json |-> reply.json, content |-> reply.content, parts |-> n] \in ReplyType
      BY <2>2, ChatIs, ReplyMade
    <3> QED BY <3>1, <3>2
  <2>4. CASE hold.pc = "holding" /\ hold.parts < Limit
    <3> DEFINE m == hold.parts + 1
    <3>1. hold' = [hold EXCEPT !.parts = m] /\ seen' = seen
      BY <1>4, <2>4, ChatIs DEF I!Part
    <3>2. m \in 0 .. Limit /\ m = hold.parts + 1
      BY <2>4, ChatIs
    <3> HIDE DEF m
    <3>3. hold' = [pc |-> "holding", restore |-> hold.restore, parts |-> m] /\ hold' \in HoldType
      <4>1. hold' = [pc |-> "holding", restore |-> hold.restore, parts |-> m]
        BY <2>4, <3>1, ChatIs
      <4>2. [pc |-> "holding", restore |-> hold.restore, parts |-> m] \in HoldType
        BY <3>2, ChatIs, HoldMade
      <4> QED BY <4>1, <4>2
    <3>4. I!TypeOK'
      BY <1>0, <2>1, <2>3, <3>1, <3>3, ChatTypesThen
    <3> QED BY <2>1, <2>2, <2>3, <2>4, <3>1, <3>2, <3>3, <3>4 DEF ChatInv, I!ChoiceIsRestored
  <2>5. CASE hold.pc = "holding" /\ hold.parts = Limit
    <3>1. hold' = [hold EXCEPT !.pc = "streaming", !.parts = 0] /\ seen' = [seen EXCEPT !.parts = hold.parts + 1]
      BY <1>4, <2>5, ChatIs DEF I!Part, I!Released
    <3>2. hold.parts + 1 = n /\ n > Limit
      BY <2>2, <2>5, ChatIs DEF ChatInv
    <3>3. seen' = [parts |-> n, adjusted |-> seen.adjusted, end |-> seen.end] /\ seen' \in SeenType
      <4>1. seen' = [seen EXCEPT !.parts = n]
        BY <3>1, <3>2
      <4>2. seen' = [parts |-> n, adjusted |-> seen.adjusted, end |-> seen.end]
        BY <4>1, ChatIs
      <4>3. seen.end \in {"open", "complete", "broken"}
        BY <1>0 DEF SeenType
      <4> QED BY <2>2, <4>2, <4>3, ChatIs, SeenMade
    <3>4. hold' = [pc |-> "streaming", restore |-> hold.restore, parts |-> 0] /\ hold' \in HoldType
      <4>1. hold' = [pc |-> "streaming", restore |-> hold.restore, parts |-> 0]
        BY <3>1, ChatIs
      <4>2. 0 \in 0 .. Limit
        BY ChatIs
      <4> QED BY <2>2, <4>1, <4>2, ChatIs, HoldMade
    <3>5. I!TypeOK'
      BY <1>0, <2>1, <2>3, <3>3, <3>4, ChatTypesThen
    <3> QED BY <2>1, <2>2, <2>3, <2>5, <3>2, <3>3, <3>4, <3>5 DEF ChatInv, I!ChoiceIsRestored
  <2>6. CASE hold.pc = "streaming"
    <3>1. hold' = hold /\ seen' = [seen EXCEPT !.parts = @ + 1] /\ seen.parts = reply.parts
      BY <1>4, <2>6 DEF I!Part, ChatInv
    <3>2. seen' = [parts |-> n, adjusted |-> seen.adjusted, end |-> seen.end] /\ seen' \in SeenType
      <4>1. seen' = [seen EXCEPT !.parts = n]
        BY <2>2, <3>1
      <4>2. seen' = [parts |-> n, adjusted |-> seen.adjusted, end |-> seen.end]
        BY <4>1, ChatIs
      <4>3. seen.end \in {"open", "complete", "broken"}
        BY <1>0 DEF SeenType
      <4> QED BY <2>2, <4>2, <4>3, ChatIs, SeenMade
    <3>3. I!TypeOK'
      BY <1>0, <2>1, <2>3, <3>1, <3>2, ChatTypesThen
    <3>4. reply.parts > Limit => n > Limit
      BY <2>2, ChatIs
    <3> QED BY <2>1, <2>2, <2>3, <2>6, <3>1, <3>2, <3>3, <3>4 DEF ChatInv, I!ChoiceIsRestored
  <2> QED BY <1>4, <2>4, <2>5, <2>6 DEF I!Part
<1>5. CASE I!End
  <2>1. /\ hold' = [hold EXCEPT !.pc = "done", !.parts = 0] /\ UNCHANGED <<chosen, opening, reply>>
        /\ hold.pc \in {"holding", "streaming"} /\ 0 \in 0 .. Limit
    BY <1>5, ChatIs DEF I!End
  <2>2. hold' = [pc |-> "done", restore |-> hold.restore, parts |-> 0] /\ hold' \in HoldType
    <3>1. hold' = [pc |-> "done", restore |-> hold.restore, parts |-> 0]
      BY <2>1, ChatIs
    <3>2. [pc |-> "done", restore |-> hold.restore, parts |-> 0] \in HoldType
      BY <2>1, ChatIs, HoldMade
    <3> QED BY <3>1, <3>2
  <2>3. CASE hold.pc = "streaming"
    <3>1. seen' = [seen EXCEPT !.end = "complete"]
      BY <1>5, <2>3 DEF I!End
    <3>2. seen' = [parts |-> seen.parts, adjusted |-> seen.adjusted, end |-> "complete"] /\ seen' \in SeenType
      <4>1. seen' = [parts |-> seen.parts, adjusted |-> seen.adjusted, end |-> "complete"]
        BY <3>1, ChatIs
      <4> QED BY <2>1, <4>1, ChatIs, SeenMade
    <3>3. I!TypeOK'
      BY <1>0, <2>1, <2>2, <3>2, ChatTypesThen
    <3>4. seen.parts = reply.parts /\ ~seen.adjusted /\ (~(hold.restore /\ reply.json) \/ reply.parts > Limit)
      BY <2>3 DEF ChatInv
    <3>5. I!ChoiceIsRestored'
      BY <2>1, <2>2, <3>2, <3>4, ChatIs DEF I!ChoiceIsRestored
    <3> QED BY <2>1, <2>2, <3>2, <3>3, <3>5 DEF ChatInv
  <2>4. CASE hold.pc = "holding"
    <3> DEFINE adjusted == reply.content = "defaults"
    <3>1. seen' = [parts |-> hold.parts, adjusted |-> adjusted, end |-> "complete"] /\ adjusted \in BOOLEAN
      BY <1>5, <2>4 DEF I!End, I!Adjusts
    <3>2. adjusted <=> reply.content = "defaults"
      OBVIOUS
    <3> HIDE DEF adjusted
    <3>3. reply.parts = hold.parts /\ hold.restore /\ reply.json /\ reply.parts <= Limit /\ hold.parts \in 0 .. MaxParts
      BY <2>4, ChatIs DEF ChatInv
    <3>4. seen' \in SeenType
      BY <2>1, <3>1, <3>3, SeenMade
    <3>5. I!TypeOK'
      BY <1>0, <2>1, <2>2, <3>4, ChatTypesThen
    <3>6. I!ChoiceIsRestored'
      BY <2>1, <2>2, <3>1, <3>2, <3>3 DEF I!ChoiceIsRestored
    <3> QED BY <2>1, <2>2, <3>1, <3>5, <3>6 DEF ChatInv
  <2> QED BY <2>1, <2>3, <2>4
<1>6. CASE I!Break
  <2>1. /\ hold' = [hold EXCEPT !.pc = "done", !.parts = 0] /\ UNCHANGED <<chosen, opening, reply>>
        /\ seen' = [seen EXCEPT !.end = "broken"] /\ 0 \in 0 .. Limit
    BY <1>6, ChatIs DEF I!Break
  <2>2. /\ hold' = [pc |-> "done", restore |-> hold.restore, parts |-> 0]
        /\ seen' = [parts |-> seen.parts, adjusted |-> seen.adjusted, end |-> "broken"]
    BY <2>1, ChatIs
  <2>3. hold' \in HoldType /\ seen' \in SeenType
    <3>1. hold' \in HoldType
      <4>1. hold.restore \in BOOLEAN /\ 0 \in 0 .. Limit
        BY ChatIs
      <4>2. [pc |-> "done", restore |-> hold.restore, parts |-> 0] \in HoldType
        BY <4>1, HoldMade
      <4> QED BY <2>2, <4>2
    <3>2. seen' \in SeenType
      BY <2>2, ChatIs, SeenMade
    <3> QED BY <3>1, <3>2
  <2>4. I!TypeOK'
    BY <1>0, <2>1, <2>3, ChatTypesThen
  <2> QED BY <2>1, <2>2, <2>4 DEF ChatInv, I!ChoiceIsRestored
<1> QED BY <1>1, <1>2, <1>3, <1>4, <1>5, <1>6 DEF I!Next

LEMMA ChatStutters == ASSUME ChatInv, UNCHANGED varsI PROVE ChatInv'
BY DEF ChatInv, varsI, I!TypeOK, I!ChoiceIsRestored

\* However requests are pipelined, cut short, refused or answered, and wherever
\* the stream of the Gateway breaks, the Gateway gets whole requests; until the
\* connection carries a HEAD to a sidecar or the Gateway, the client finds the
\* response to its next request where it reads on and takes none for complete
\* that is not; and an answer that was held back to restore the
\* user's choice of a model arrives whole (serve_managed_tls,
\* write_upstream_response, write_chat_init_response).
THEOREM RequestsAreWhole == MCSpec => []MessagesAreWhole
<1> DEFINE MCInv == ConnectionInv /\ ChatInv
<1>1. MCInit => MCInv
  <2>1. ASSUME RestC
        PROVE  requests \in Carried /\ C!Init
    BY <2>1, PartsAssumption DEF RestC, ASimple
  <2>2. C!Init => requests \in Carried
    BY DEF C!Init
  <2>3. MCInit => requests \in Carried /\ C!Init /\ I!Init
    BY <2>1, <2>2 DEF MCInit, RestI
  <2> QED BY <2>3, ConnectionStarts, ChatStarts
<1>2. MCInv /\ [MCNext]_<<part, varsC, vars, varsI>> => MCInv'
  <2> SUFFICES ASSUME MCInv, [MCNext]_<<part, varsC, vars, varsI>>
               PROVE  MCInv'
    OBVIOUS
  <2>1. C!Next \/ UNCHANGED varsC
    BY DEF MCNext
  <2>2. I!Next \/ UNCHANGED varsI
    BY DEF MCNext
  <2>3. ConnectionInv'
    BY <2>1, ConnectionSteps, ConnectionStutters
  <2>4. ChatInv'
    BY <2>2, ChatSteps, ChatStutters
  <2> QED BY <2>3, <2>4
<1>3. MCInv => MessagesAreWhole
  BY DEF MessagesAreWhole, C!MessagesAreWhole, ConnectionInv, InStep, AtGateway, ReadWhole, ChatInv
<1> QED BY <1>1, <1>2, <1>3, PTL DEF MCSpec

(***************************************************************************)
(* The relay: what an endpoint has received and will receive, as one       *)
(* sequence.                                                               *)
(***************************************************************************)
\* The i-th of r followed by s.
Item(r, s, i) == IF i <= Len(r) THEN r[i] ELSE s[i - Len(r)]
Total(e) == Len(received[e]) + Len(sink[e])
Passed(e, i) == Item(received[e], sink[e], i)

\* The i-th message that passes to e is the i-th that the other side sent.
Follows(e, i) == i <= Len(sent[Other(e)]) /\ Passed(e, i) = sent[Other(e)][i]
\* The notice, which is the last thing that passes, if Codex sent a big message.
BigSent == \E i \in 1 .. Len(sent[Codex]) : Kind(sent[Codex][i]) = Big
Noticed(e, i) == /\ i = Total(e) /\ Passed(e, i) = Notice /\ BigSent
                 /\ relay.pc = "ended" \/ (relay.pc = "tooBig" /\ e \in relay.told)
InOrder == \A e \in Endpoint : \A i \in 1 .. Total(e) : Follows(e, i) \/ Noticed(e, i)

\* Between the passed messages and those that wait for the relay is the one that
\* the relay holds, while it relays.
Held(e) == IF relay.pc = "send" /\ relay.from = e THEN 1 ELSE 0
AllThere(e)  == Len(sent[e]) = Total(Other(e)) + Held(e) + Len(source[e])
HoldsNext(e) == Held(e) = 1 => relay.message = sent[e][Total(Other(e)) + 1]
WaitsNext(e) == \A i \in 1 .. Len(source[e]) : source[e][i] = sent[e][Total(Other(e)) + Held(e) + i]
Flow == relay.pc \in {"select", "send"} => \A e \in Endpoint : AllThere(e) /\ HoldsNext(e) /\ WaitsNext(e)
Explained == relay.pc = "tooBig" => BigSent

RelayInv == TypeOK /\ InOrder /\ Flow /\ Explained

(***************************************************************************)
(* Sequences.                                                              *)
(***************************************************************************)
\* When the head of s moves to the end of r, what r and s are together stays.
Moves(S, r, s) ==
    /\ Append(r, Head(s)) \in Seq(S) /\ Tail(s) \in Seq(S)
    /\ Len(Append(r, Head(s))) + Len(Tail(s)) = Len(r) + Len(s)
    /\ \A i \in 1 .. Len(r) + Len(s) : Item(Append(r, Head(s)), Tail(s), i) = Item(r, s, i)
    /\ Head(s) = Item(r, s, Len(r) + 1) /\ Len(s) \in Nat \ {0}
LEMMA MoveHead ==
    ASSUME NEW S, NEW r \in Seq(S), NEW s \in Seq(S), s # <<>>
    PROVE  Moves(S, r, s)
<1>1. Len(s) \in Nat \ {0} /\ Len(r) \in Nat
  OBVIOUS
<1>2. Len(Append(r, Head(s))) = Len(r) + 1 /\ Len(Tail(s)) = Len(s) - 1
  OBVIOUS
<1>3. ASSUME NEW i \in 1 .. Len(r) + Len(s)
      PROVE  Item(Append(r, Head(s)), Tail(s), i) = Item(r, s, i)
  <2>1. CASE i <= Len(r)
    BY <1>1, <1>2, <2>1 DEF Item
  <2>2. CASE i = Len(r) + 1
    BY <1>1, <1>2, <2>2 DEF Item
  <2>3. CASE i > Len(r) + 1
    <3>1. i - (Len(r) + 1) \in 1 .. Len(Tail(s)) /\ i - (Len(r) + 1) + 1 = i - Len(r)
      BY <1>1, <1>2, <2>3
    <3>2. Tail(s)[i - (Len(r) + 1)] = s[i - Len(r)]
      BY <3>1, <1>1
    <3> QED BY <1>1, <1>2, <2>3, <3>2 DEF Item
  <2> QED BY <1>1, <2>1, <2>2, <2>3
<1> QED BY <1>1, <1>2, <1>3 DEF Item, Moves

\* What is appended to s comes last.
Grows(S, r, s, m) ==
    /\ Append(s, m) \in Seq(S) /\ Len(Append(s, m)) = Len(s) + 1
    /\ \A i \in 1 .. Len(r) + Len(s) : Item(r, Append(s, m), i) = Item(r, s, i)
    /\ Item(r, Append(s, m), Len(r) + Len(s) + 1) = m
LEMMA AppendItem ==
    ASSUME NEW S, NEW r \in Seq(S), NEW s \in Seq(S), NEW m \in S
    PROVE  Grows(S, r, s, m)
BY DEF Item, Grows

LEMMA CutItem ==
    ASSUME NEW S, NEW r \in Seq(S), NEW s \in Seq(S), NEW k \in 0 .. Len(s)
    PROVE  /\ SubSeq(s, 1, k) \in Seq(S) /\ Len(SubSeq(s, 1, k)) = k
           /\ \A i \in 1 .. Len(r) + k : Item(r, SubSeq(s, 1, k), i) = Item(r, s, i)
BY DEF Item

LEMMA Appended ==
    ASSUME NEW S, NEW s \in Seq(S), NEW m \in S
    PROVE  /\ Append(s, m) \in Seq(S) /\ Len(Append(s, m)) = Len(s) + 1 /\ Append(s, m)[Len(s) + 1] = m
           /\ \A i \in 1 .. Len(s) : Append(s, m)[i] = s[i]
OBVIOUS

LEMMA Shortened ==
    ASSUME NEW S, NEW s \in Seq(S), s # <<>>
    PROVE  /\ Tail(s) \in Seq(S) /\ Len(Tail(s)) = Len(s) - 1 /\ Len(s) \in Nat \ {0}
           /\ Head(s) = s[1] /\ Head(s) \in S /\ \A i \in 1 .. Len(Tail(s)) : Tail(s)[i] = s[i + 1]
OBVIOUS

\* What comes after n others and perhaps one more, when something is appended.
Continues(s, t, n, h) == Len(s) = n + h + Len(t) /\ \A i \in 1 .. Len(t) : t[i] = s[n + h + i]
LEMMA GrowingFlow ==
    ASSUME NEW S, NEW s \in Seq(S), NEW t \in Seq(S), NEW m \in S, NEW n \in Nat, NEW h \in {0, 1},
           Continues(s, t, n, h)
    PROVE  Continues(Append(s, m), Append(t, m), n, h) /\ (h = 1 => Append(s, m)[n + 1] = s[n + 1])
<1> USE DEF Continues
<1>1. Len(s) \in Nat /\ Len(t) \in Nat /\ Len(Append(s, m)) = Len(s) + 1 /\ Len(Append(t, m)) = Len(t) + 1
  OBVIOUS
<1>2. Append(t, m)[Len(t) + 1] = m /\ Append(s, m)[Len(s) + 1] = m
  OBVIOUS
<1>3. \A i \in 1 .. Len(t) : Append(t, m)[i] = t[i]
  OBVIOUS
<1>4. \A i \in 1 .. Len(s) : Append(s, m)[i] = s[i]
  OBVIOUS
<1>5. ASSUME NEW i \in 1 .. Len(Append(t, m)) PROVE Append(t, m)[i] = Append(s, m)[n + h + i]
  <2>1. CASE i = Len(t) + 1
    <3>1. n + h + i = Len(s) + 1
      BY <1>1, <2>1
    <3> QED BY <1>2, <2>1, <3>1
  <2>2. CASE i \in 1 .. Len(t)
    <3>1. n + h + i \in 1 .. Len(s)
      BY <1>1, <2>2
    <3> QED BY <1>3, <1>4, <2>2, <3>1
  <2> QED BY <1>1, <2>1, <2>2
<1>6. h = 1 => n + 1 \in 1 .. Len(s)
  BY <1>1
<1>7. h = 1 => Append(s, m)[n + 1] = s[n + 1]
  BY <1>4, <1>6
<1>8. Len(Append(s, m)) = n + h + Len(Append(t, m))
  BY <1>1
<1> QED BY <1>5, <1>7, <1>8

\* What comes next, when it is taken.
LEMMA TakenFlow ==
    ASSUME NEW S, NEW s \in Seq(S), NEW t \in Seq(S), NEW n \in Nat, t # <<>>, Continues(s, t, n, 0)
    PROVE  Continues(s, Tail(t), n, 1) /\ Head(t) = s[n + 1] /\ n + 1 <= Len(s)
<1> USE DEF Continues
<1>1. Len(t) \in Nat \ {0} /\ Len(Tail(t)) = Len(t) - 1 /\ Head(t) = t[1]
  OBVIOUS
<1>2. ASSUME NEW i \in 1 .. Len(Tail(t)) PROVE Tail(t)[i] = s[n + 1 + i]
  <2>1. Tail(t)[i] = t[i + 1] /\ i + 1 \in 1 .. Len(t) /\ n + 0 + (i + 1) = n + 1 + i
    BY <1>1
  <2> QED BY <2>1
<1>3. t[1] = s[n + 0 + 1] /\ n + 0 + 1 = n + 1
  BY <1>1
<1> QED BY <1>1, <1>2, <1>3

LEMMA LastOrBefore ==
    ASSUME NEW n \in Nat, NEW i \in 1 .. n + 1
    PROVE  i \in 1 .. n \/ i = n + 1
OBVIOUS

LEMMA OneMore ==
    ASSUME NEW a \in Nat, NEW b \in Nat
    PROVE  a + (b + 1) = (a + b) + 1 /\ a + b \in Nat
OBVIOUS

LEMMA NextIsWithin ==
    ASSUME NEW a \in Nat, NEW b \in Nat \ {0}
    PROVE  a + 1 \in 1 .. a + b /\ a + 1 \in Nat /\ (a # 0 => a \in 1 .. a + b /\ a # a + b)
OBVIOUS

(***************************************************************************)
(* The sides and their messages.                                           *)
(***************************************************************************)
LEMMA OtherSide ==
    ASSUME RelayAssumption, NEW e \in Endpoint
    PROVE  Other(e) \in Endpoint /\ Other(e) # e /\ Other(Other(e)) = e /\ Endpoint = {e, Other(e)}
           /\ Channel!Other(e) = Other(e)
BY DEF RelayAssumption, Endpoint, Other, Channel!Other

LEMMA NoticeIsNoMessage == ASSUME RelayAssumption, NEW m \in Message PROVE m # Notice
BY DEF RelayAssumption

\* A message that an endpoint sends after n others.
LEMMA NumberedMessage ==
    ASSUME RelayAssumption, NEW kind \in {Data, Close, Big}, NEW n \in Nat, n < MaxSent
    PROVE  <<kind, n + 1>> \in Message
BY DEF RelayAssumption, Message

LEMMA RelayTypes ==
    ASSUME TypeOK, NEW e \in Endpoint
    PROVE  /\ sent[e] \in Seq(Message) /\ source[e] \in Seq(Message)
           /\ received[e] \in Seq(Message \cup {Notice}) /\ sink[e] \in Seq(Message \cup {Notice})
           /\ Len(source[e]) <= Capacity /\ Len(sink[e]) <= Capacity
           /\ Len(sent[e]) \in Nat /\ Len(source[e]) \in Nat /\ Len(received[e]) \in Nat /\ Len(sink[e]) \in Nat
           /\ Total(e) \in Nat
BY DEF TypeOK, Total

Relays == [pc : {"select", "send", "tooBig", "ended"}, from : Endpoint, message : Message, told : SUBSET Endpoint]
LEMMA SelectingType == ASSUME RelayAssumption PROVE Selecting \in Relays /\ Ended \in Relays
                       /\ Selecting.pc = "select" /\ Ended.pc = "ended"
<1>1. <<Close, 1>> \in Message
  BY DEF RelayAssumption, Message
<1> QED BY <1>1 DEF Selecting, Ended, Relays, Endpoint

(***************************************************************************)
(* Dropping the sockets cuts off the end of what passes.                   *)
(***************************************************************************)
LEMMA Within ==
    ASSUME NEW a \in Nat, NEW b \in Nat, NEW k \in 0 .. b, NEW i \in 1 .. a + k
    PROVE  i \in 1 .. a + b /\ i \in Nat \ {0} /\ (i = a + b => i = a + k)
OBVIOUS

\* What the sockets hold is no more than before, and begins like it.
Cut(pending) ==
    \A e \in Endpoint : \E k \in 0 .. Len(pending[e]) : sink'[e] = SubSeq(pending[e], 1, k)

LEMMA DropCuts ==
    ASSUME RelayAssumption, NEW unread, NEW pending, Drop(unread, pending),
           \A e \in Endpoint : pending[e] \in Seq(Message \cup {Notice}) /\ Len(pending[e]) <= Capacity
    PROVE  relay' = Ended /\ Cut(pending) /\ sink' \in [Endpoint -> Seq(Message \cup {Notice})]
           /\ \A e \in Endpoint : Len(sink'[e]) <= Capacity
<1>1. PICK kept \in [Endpoint -> 0 .. Capacity] :
        /\ \A e \in Endpoint :
              IF unread[e] = <<>> THEN kept[e] = Len(pending[e]) ELSE kept[e] <= Len(pending[e])
        /\ sink' = [e \in Endpoint |-> SubSeq(pending[e], 1, kept[e])]
  BY DEF Drop
<1>2. ASSUME NEW e \in Endpoint
      PROVE  /\ kept[e] \in 0 .. Len(pending[e]) /\ sink'[e] = SubSeq(pending[e], 1, kept[e])
             /\ sink'[e] \in Seq(Message \cup {Notice}) /\ Len(sink'[e]) <= Capacity
  <2>1. Len(pending[e]) \in Nat /\ kept[e] \in Nat /\ kept[e] <= Len(pending[e])
    BY <1>1
  <2>2. kept[e] \in 0 .. Len(pending[e]) /\ sink'[e] = SubSeq(pending[e], 1, kept[e])
    BY <1>1, <2>1
  <2>3. sink'[e] \in Seq(Message \cup {Notice}) /\ Len(sink'[e]) = kept[e]
    BY <2>1, <2>2
  <2> QED BY <2>1, <2>2, <2>3, Capacity \in Nat DEF RelayAssumption
<1>3. sink' \in [Endpoint -> Seq(Message \cup {Notice})]
  <2>1. sink' = [e \in Endpoint |-> sink'[e]]
    BY <1>1
  <2> QED BY <1>2, <2>1
<1> QED BY <1>2, <1>3 DEF Drop, Cut

\* What the sockets held before, perhaps with one message more, is cut off.
Orderly(pending) ==
    \A e \in Endpoint : \A i \in 1 .. Len(received[e]) + Len(pending[e]) :
       \/ i <= Len(sent[Other(e)]) /\ Item(received[e], pending[e], i) = sent[Other(e)][i]
       \/ i = Len(received[e]) + Len(pending[e]) /\ Item(received[e], pending[e], i) = Notice /\ BigSent
LEMMA CutKeepsOrder ==
    ASSUME RelayAssumption, TypeOK, UNCHANGED <<sent, received>>, relay'.pc = "ended", NEW pending, Cut(pending),
           pending \in [Endpoint -> Seq(Message \cup {Notice})], Orderly(pending)
    PROVE  InOrder'
<1> SUFFICES ASSUME NEW e \in Endpoint, NEW i \in 1 .. Total(e)' PROVE Follows(e, i)' \/ Noticed(e, i)'
  BY DEF InOrder
<1>1. PICK k \in 0 .. Len(pending[e]) : sink'[e] = SubSeq(pending[e], 1, k)
  BY DEF Cut
<1>2. received[e] \in Seq(Message \cup {Notice}) /\ pending[e] \in Seq(Message \cup {Notice})
  BY RelayTypes
<1>3. Len(sink'[e]) = k /\ \A j \in 1 .. Len(received[e]) + k : Item(received[e], sink'[e], j) = Item(received[e], pending[e], j)
  BY <1>1, <1>2, CutItem
<1>4. Len(received[e]) \in Nat /\ Len(pending[e]) \in Nat
  BY <1>2
<1>5. Total(e)' = Len(received[e]) + k /\ k <= Len(pending[e])
  BY <1>3, <1>4 DEF Total
<1>6. /\ i \in 1 .. Len(received[e]) + Len(pending[e]) /\ i \in 1 .. Len(received[e]) + k
      /\ i = Len(received[e]) + Len(pending[e]) => i = Len(received[e]) + k
  BY <1>1, <1>4, <1>5, Within
<1>7. Passed(e, i)' = Item(received[e], pending[e], i)
  BY <1>3, <1>6 DEF Passed
<1>8. CASE i <= Len(sent[Other(e)]) /\ Item(received[e], pending[e], i) = sent[Other(e)][i]
  BY <1>7, <1>8 DEF Follows
<1>9. CASE i = Len(received[e]) + Len(pending[e]) /\ Item(received[e], pending[e], i) = Notice /\ BigSent
  <2>1. i = Total(e)'
    BY <1>5, <1>6, <1>9
  <2>2. BigSent'
    BY <1>9 DEF BigSent
  <2> QED BY <1>7, <1>9, <2>1, <2>2 DEF Noticed
<1> QED BY <1>6, <1>8, <1>9 DEF Orderly

\* Whoever drops the sockets as they are.
LEMMA DropKeeps ==
    ASSUME RelayAssumption, RelayInv, NEW unread, Drop(unread, sink), UNCHANGED <<sent, received, gone>>,
           source' \in [Endpoint -> Seq(Message)], \A e \in Endpoint : Len(source'[e]) <= Capacity
    PROVE  RelayInv'
<1>1. \A e \in Endpoint : sink[e] \in Seq(Message \cup {Notice}) /\ Len(sink[e]) <= Capacity
  BY DEF RelayInv, TypeOK
<1>2. relay' = Ended /\ Cut(sink) /\ sink' \in [Endpoint -> Seq(Message \cup {Notice})]
      /\ \A e \in Endpoint : Len(sink'[e]) <= Capacity
  BY <1>1, DropCuts
<1>3. TypeOK'
  BY <1>2, SelectingType DEF RelayInv, TypeOK, Relays
<1>4. InOrder'
  <2>1. Orderly(sink)
    BY DEF RelayInv, InOrder, Follows, Noticed, Passed, Total, Orderly
  <2> QED BY <1>2, <2>1, SelectingType, CutKeepsOrder DEF RelayInv, TypeOK
<1> QED BY <1>2, <1>3, <1>4, SelectingType DEF RelayInv, Flow, Explained

(***************************************************************************)
(* The endpoints.                                                          *)
(***************************************************************************)
LEMMA RelaySends ==
    ASSUME RelayAssumption, RelayInv, NEW e \in Endpoint, NEW kind \in {Data, Close, Big}, Send(e, kind)
    PROVE  RelayInv' /\ Channel!Next
<1> DEFINE m == <<kind, Len(sent[e]) + 1>>
<1>1. m \in Message
  BY NumberedMessage, RelayTypes DEF RelayInv, Send
<1>2. /\ sent' = [sent EXCEPT ![e] = Append(@, m)] /\ source' = [source EXCEPT ![e] = Append(@, m)]
      /\ UNCHANGED <<received, gone, sink, relay>> /\ Len(source[e]) < Capacity
  BY DEF Send
<1> HIDE DEF m
<1>3. sent'[e] = Append(sent[e], m) /\ source'[e] = Append(source[e], m)
      /\ \A o \in Endpoint \ {e} : sent'[o] = sent[o] /\ source'[o] = source[o]
  BY <1>2 DEF RelayInv, TypeOK
<1>4. /\ sent'[e] \in Seq(Message) /\ Len(sent'[e]) = Len(sent[e]) + 1 /\ sent'[e][Len(sent[e]) + 1] = m
      /\ \A i \in 1 .. Len(sent[e]) : sent'[e][i] = sent[e][i]
      /\ source'[e] \in Seq(Message) /\ Len(source'[e]) = Len(source[e]) + 1 /\ source'[e][Len(source[e]) + 1] = m
      /\ \A i \in 1 .. Len(source[e]) : source'[e][i] = source[e][i]
  <2>1. sent[e] \in Seq(Message) /\ source[e] \in Seq(Message)
    BY RelayTypes DEF RelayInv
  <2> QED BY <1>1, <1>3, <2>1, Appended
<1>5. \A o \in Endpoint : /\ Len(sent[o]) \in Nat /\ Len(sent[o]) <= Len(sent'[o])
                          /\ \A i \in 1 .. Len(sent[o]) : sent'[o][i] = sent[o][i]
  <2> SUFFICES ASSUME NEW o \in Endpoint
               PROVE  /\ Len(sent[o]) \in Nat /\ Len(sent[o]) <= Len(sent'[o])
                      /\ \A i \in 1 .. Len(sent[o]) : sent'[o][i] = sent[o][i]
    OBVIOUS
  <2>1. Len(sent[o]) \in Nat
    BY RelayTypes DEF RelayInv
  <2>2. CASE o = e
    BY <1>4, <2>1, <2>2
  <2>3. CASE o # e
    BY <1>3, <2>1, <2>3
  <2> QED BY <2>2, <2>3
<1>6. TypeOK'
  <2>1. sent' \in [Endpoint -> Seq(Message)] /\ source' \in [Endpoint -> Seq(Message)]
    BY <1>2, <1>3, <1>4 DEF RelayInv, TypeOK
  <2>2. \A o \in Endpoint : Len(source'[o]) <= Capacity
    BY <1>2, <1>3, <1>4, RelayTypes DEF RelayInv, RelayAssumption
  <2> QED BY <1>2, <2>1, <2>2 DEF RelayInv, TypeOK
<1>7. BigSent => BigSent'
  BY <1>5 DEF BigSent, Endpoint
<1>8. \A o \in Endpoint : Total(o)' = Total(o) /\ \A i : Passed(o, i)' = Passed(o, i)
  BY <1>2 DEF Total, Passed
<1>9. InOrder'
  <2> SUFFICES ASSUME NEW o \in Endpoint, NEW i \in 1 .. Total(o) PROVE Follows(o, i)' \/ Noticed(o, i)'
    BY <1>8 DEF InOrder
  <2>1. i \in Nat \ {0} /\ Other(o) \in Endpoint
    BY RelayTypes, OtherSide DEF RelayInv
  <2>2. Follows(o, i) => Follows(o, i)'
    BY <1>5, <1>8, <2>1 DEF Follows
  <2>3. Noticed(o, i) => Noticed(o, i)'
    BY <1>2, <1>7, <1>8 DEF Noticed
  <2> QED BY <2>2, <2>3 DEF RelayInv, InOrder
<1>10. Flow'
  <2> SUFFICES ASSUME relay.pc \in {"select", "send"}, NEW o \in Endpoint
               PROVE  (AllThere(o) /\ HoldsNext(o) /\ WaitsNext(o))'
    BY <1>2 DEF Flow
  <2>1. AllThere(o) /\ HoldsNext(o) /\ WaitsNext(o)
    BY DEF RelayInv, Flow
  <2>2. Held(o)' = Held(o) /\ Total(Other(o))' = Total(Other(o)) /\ relay' = relay
    BY <1>2, <1>8, OtherSide DEF Held
  <2>3. CASE o = e
    <3>1. Total(Other(o)) \in Nat /\ Held(o) \in {0, 1} /\ source[o] \in Seq(Message) /\ sent[o] \in Seq(Message)
      BY RelayTypes, OtherSide DEF RelayInv, Held
    <3>2. /\ Continues(Append(sent[o], m), Append(source[o], m), Total(Other(o)), Held(o))
          /\ Held(o) = 1 => Append(sent[o], m)[Total(Other(o)) + 1] = sent[o][Total(Other(o)) + 1]
      <4>1. Continues(sent[o], source[o], Total(Other(o)), Held(o))
        BY <2>1 DEF AllThere, WaitsNext, Continues
      <4>2. m \in Message
        BY <1>1
      <4> DEFINE n == Total(Other(o))
                 h == Held(o)
                 s == sent[o]
                 t == source[o]
      <4>3. n \in Nat /\ h \in {0, 1} /\ s \in Seq(Message) /\ t \in Seq(Message) /\ Continues(s, t, n, h)
        BY <3>1, <4>1
      <4> HIDE DEF n, h, s, t
      <4>4. Continues(Append(s, m), Append(t, m), n, h) /\ (h = 1 => Append(s, m)[n + 1] = s[n + 1])
        BY <4>2, <4>3, GrowingFlow
      <4> QED BY <4>4 DEF n, h, s, t
    <3>3. sent'[o] = Append(sent[o], m) /\ source'[o] = Append(source[o], m)
      BY <1>3, <2>3
    <3> QED BY <2>1, <2>2, <3>2, <3>3 DEF AllThere, HoldsNext, WaitsNext, Continues
  <2>4. CASE o # e
    <3>1. sent'[o] = sent[o] /\ source'[o] = source[o]
      BY <1>3, <2>4
    <3> QED BY <2>1, <2>2, <3>1 DEF AllThere, HoldsNext, WaitsNext
  <2> QED BY <2>3, <2>4
<1>11. Explained'
  BY <1>2, <1>7 DEF RelayInv, Explained
<1>12. Channel!Send(e, m)
  BY <1>2 DEF Channel!Send
<1> QED BY <1>1, <1>6, <1>9, <1>10, <1>11, <1>12 DEF RelayInv, Channel!Next

LEMMA RelayReceives ==
    ASSUME RelayAssumption, RelayInv, NEW e \in Endpoint, Receive(e)
    PROVE  RelayInv' /\ Channel!Next
<1>1. /\ received' = [received EXCEPT ![e] = Append(@, Head(sink[e]))] /\ sink' = [sink EXCEPT ![e] = Tail(@)]
      /\ UNCHANGED <<sent, gone, source, relay>> /\ sink[e] # <<>>
  BY DEF Receive
<1>2. received[e] \in Seq(Message \cup {Notice}) /\ sink[e] \in Seq(Message \cup {Notice}) /\ Len(sink[e]) <= Capacity
  BY RelayTypes DEF RelayInv
<1>3. received'[e] = Append(received[e], Head(sink[e])) /\ sink'[e] = Tail(sink[e])
      /\ \A o \in Endpoint \ {e} : received'[o] = received[o] /\ sink'[o] = sink[o]
  BY <1>1 DEF RelayInv, TypeOK
<1>4. /\ received'[e] \in Seq(Message \cup {Notice}) /\ sink'[e] \in Seq(Message \cup {Notice})
      /\ Len(received'[e]) + Len(sink'[e]) = Len(received[e]) + Len(sink[e])
      /\ \A i \in 1 .. Len(received[e]) + Len(sink[e]) : Item(received'[e], sink'[e], i) = Item(received[e], sink[e], i)
      /\ Head(sink[e]) = Passed(e, Len(received[e]) + 1) /\ Len(sink[e]) \in Nat \ {0}
  <2>1. Moves(Message \cup {Notice}, received[e], sink[e])
    BY <1>1, <1>2, MoveHead
  <2> QED BY <1>3, <2>1 DEF Moves, Passed
<1>5. \A o \in Endpoint : Total(o)' = Total(o) /\ \A i \in 1 .. Total(o) : Passed(o, i)' = Passed(o, i)
  BY <1>3, <1>4 DEF Total, Passed
<1>6. TypeOK'
  <2>1. received' \in [Endpoint -> Seq(Message \cup {Notice})] /\ sink' \in [Endpoint -> Seq(Message \cup {Notice})]
    BY <1>1, <1>3, <1>4 DEF RelayInv, TypeOK
  <2>2. Len(sink'[e]) <= Capacity
    <3>1. Len(sink'[e]) = Len(sink[e]) - 1 /\ Capacity \in Nat
      BY <1>1, <1>2, <1>3, Shortened DEF RelayAssumption
    <3> QED BY <1>2, <1>4, <3>1
  <2> QED BY <1>1, <1>3, <2>1, <2>2 DEF RelayInv, TypeOK
<1>7. InOrder'
  BY <1>1, <1>5 DEF RelayInv, InOrder, Follows, Noticed, BigSent
<1>8. Flow' /\ Explained'
  <2>1. \A o \in Endpoint : Held(o)' = Held(o) /\ Total(Other(o))' = Total(Other(o))
    BY <1>1, <1>5, OtherSide DEF Held
  <2> QED BY <1>1, <2>1 DEF RelayInv, Flow, AllThere, HoldsNext, WaitsNext, Explained, BigSent
<1> DEFINE n == Len(received[e]) + 1
<1>9. n \in 1 .. Total(e) /\ n \in Nat /\ received' = [received EXCEPT ![e] = Append(@, Passed(e, n))]
  <2>1. Len(received[e]) \in Nat /\ Len(sink[e]) \in Nat \ {0}
    BY <1>2, <1>4
  <2> QED BY <1>1, <1>4, <2>1, NextIsWithin DEF Total
<1>10. ~Channel!Told(e)
  <2> SUFFICES ASSUME received[e] # <<>> PROVE received[e][Len(received[e])] # Notice
    BY DEF Channel!Told
  <2> DEFINE l == Len(received[e])
  <2>1. l \in 1 .. Total(e) /\ l # Total(e) /\ l \in Nat
    <3>1. Len(received[e]) \in Nat \ {0} /\ Len(sink[e]) \in Nat \ {0}
      BY <1>2, <1>4
    <3> QED BY <3>1, NextIsWithin DEF Total
  <2>2. Follows(e, l)
    BY <2>1 DEF RelayInv, InOrder, Noticed
  <2>3. Passed(e, l) = received[e][l]
    BY <2>1 DEF Passed, Item
  <2>4. sent[Other(e)][l] \in Message
    BY <2>1, <2>2, RelayTypes, OtherSide DEF RelayInv, Follows
  <2> QED BY <2>2, <2>3, <2>4, NoticeIsNoMessage DEF Follows
<1>11. CASE Follows(e, n)
  <2>1. n <= Len(sent[Other(e)]) /\ Passed(e, n) = sent[Other(e)][n]
    BY <1>11 DEF Follows
  <2>2. Channel!Deliver(e)
    BY <1>1, <1>9, <1>10, <2>1, OtherSide DEF Channel!Deliver
  <2> QED BY <1>6, <1>7, <1>8, <2>2 DEF RelayInv, Channel!Next
<1>12. CASE Noticed(e, n)
  <2>1. Passed(e, n) = Notice /\ BigSent
    BY <1>12 DEF Noticed
  <2>2. PICK i \in 1 .. Len(sent[Codex]) : Kind(sent[Codex][i]) = Big
    BY <2>1 DEF BigSent
  <2>3. i \in DOMAIN sent[Codex] /\ sent[Codex][i] \in {m \in Message : Kind(m) = Big} /\ Codex \in Endpoint
    BY <2>2, RelayTypes DEF RelayInv, Endpoint
  <2>4. Channel!Tell(e)
    BY <1>1, <1>9, <1>10, <2>1, <2>3 DEF Channel!Tell
  <2> QED BY <1>6, <1>7, <1>8, <2>4 DEF RelayInv, Channel!Next
<1> QED BY <1>9, <1>11, <1>12 DEF RelayInv, InOrder

(***************************************************************************)
(* The relay.                                                              *)
(***************************************************************************)
\* A step that changes neither what the sockets hold nor who has left.
LEMMA LeaveStep ==
    ASSUME RelayInv, NEW e \in Endpoint, Leave(e)
    PROVE  RelayInv'
<1>1. UNCHANGED <<sent, received, source, sink, relay>> /\ gone' \in SUBSET Endpoint
  BY DEF Leave, RelayInv, TypeOK
<1>2. TypeOK'
  BY <1>1 DEF RelayInv, TypeOK
<1>3. InOrder'
  BY <1>1 DEF RelayInv, InOrder, Follows, Noticed, BigSent, Passed, Total
<1>4. Flow' /\ Explained'
  BY <1>1 DEF RelayInv, Flow, AllThere, HoldsNext, WaitsNext, Held, Total, Explained, BigSent
<1> QED BY <1>2, <1>3, <1>4 DEF RelayInv

LEMMA SelectStep ==
    ASSUME RelayAssumption, RelayInv, NEW e \in Endpoint, Select(e)
    PROVE  RelayInv'
<1> DEFINE m == Head(source[e])
<1>1. /\ relay.pc = "select" /\ source[e] # <<>> /\ source' = [source EXCEPT ![e] = Tail(@)]
      /\ UNCHANGED <<sent, received, gone>>
  BY DEF Select, Take
<1>2. /\ source' \in [Endpoint -> Seq(Message)] /\ \A o \in Endpoint : Len(source'[o]) <= Capacity
      /\ m \in Message /\ source'[e] = Tail(source[e]) /\ \A o \in Endpoint \ {e} : source'[o] = source[o]
  <2>1. source[e] \in Seq(Message) /\ Len(source[e]) <= Capacity /\ Capacity \in Nat
    BY RelayTypes DEF RelayInv, RelayAssumption
  <2>2. Tail(source[e]) \in Seq(Message) /\ Len(Tail(source[e])) = Len(source[e]) - 1 /\ Len(source[e]) \in Nat \ {0}
        /\ m \in Message
    BY <1>1, <2>1, Shortened
  <2>3. Len(Tail(source[e])) <= Capacity
    BY <2>1, <2>2
  <2> QED BY <1>1, <2>2, <2>3 DEF RelayInv, TypeOK
<1>3. /\ Continues(sent[e], Tail(source[e]), Total(Other(e)), 1) /\ m = sent[e][Total(Other(e)) + 1]
      /\ Total(Other(e)) + 1 <= Len(sent[e]) /\ Total(Other(e)) \in Nat
  <2>1. Held(e) = 0 /\ AllThere(e) /\ WaitsNext(e)
    BY <1>1 DEF RelayInv, Flow, Held
  <2>2. Continues(sent[e], source[e], Total(Other(e)), 0)
    BY <2>1 DEF AllThere, WaitsNext, Continues
  <2>3. sent[e] \in Seq(Message) /\ source[e] \in Seq(Message) /\ Total(Other(e)) \in Nat
    BY RelayTypes, OtherSide DEF RelayInv
  <2> QED BY <1>1, <2>2, <2>3, TakenFlow
<1>4. CASE Kind(m) # Big
  <2>1. relay' = [relay EXCEPT !.pc = "send", !.from = e, !.message = m] /\ UNCHANGED sink
    BY <1>4 DEF Select
  <2>2. relay' \in Relays /\ relay'.pc = "send" /\ relay'.from = e /\ relay'.message = m /\ relay'.told = relay.told
    BY <1>2, <2>1 DEF RelayInv, TypeOK, Relays
  <2>3. TypeOK'
    BY <1>1, <1>2, <2>1, <2>2 DEF RelayInv, TypeOK, Relays
  <2>4. InOrder'
    BY <1>1, <2>1 DEF RelayInv, InOrder, Follows, Noticed, Passed, Total
  <2>5. Flow'
    <3> SUFFICES ASSUME NEW o \in Endpoint PROVE (AllThere(o) /\ HoldsNext(o) /\ WaitsNext(o))'
      BY DEF Flow
    <3>1. \A q \in Endpoint : Total(q)' = Total(q)
      BY <1>1, <2>1 DEF Total
    <3>2. CASE o = e
      <4>1. Held(o)' = 1 /\ Total(Other(o))' = Total(Other(o)) /\ sent' = sent
        BY <1>1, <2>2, <3>1, <3>2, OtherSide DEF Held
      <4>2. AllThere(o)' /\ WaitsNext(o)'
        BY <1>2, <1>3, <3>2, <4>1 DEF AllThere, WaitsNext, Continues
      <4>3. HoldsNext(o)'
        BY <1>3, <2>2, <3>2, <4>1 DEF HoldsNext
      <4> QED BY <4>2, <4>3
    <3>3. CASE o # e
      <4>1. Held(o)' = 0 /\ Held(o) = 0 /\ Total(Other(o))' = Total(Other(o)) /\ sent' = sent /\ source'[o] = source[o]
        BY <1>1, <1>2, <2>2, <3>1, <3>3, OtherSide DEF Held
      <4>2. AllThere(o) /\ WaitsNext(o)
        BY <1>1 DEF RelayInv, Flow
      <4>3. AllThere(o)' /\ WaitsNext(o)'
        BY <4>1, <4>2 DEF AllThere, WaitsNext
      <4>4. HoldsNext(o)'
        BY <4>1 DEF HoldsNext
      <4> QED BY <4>3, <4>4
    <3> QED BY <3>2, <3>3
  <2>6. Explained'
    BY <2>2 DEF Explained
  <2> QED BY <2>3, <2>4, <2>5, <2>6 DEF RelayInv
<1>5. CASE Kind(m) = Big /\ e = Codex
  <2>1. relay' = [relay EXCEPT !.pc = "tooBig"] /\ UNCHANGED sink
    BY <1>5 DEF Select, RelayAssumption
  <2>2. relay' \in Relays /\ relay'.pc = "tooBig"
    BY <2>1 DEF RelayInv, TypeOK, Relays
  <2>3. TypeOK'
    BY <1>1, <1>2, <2>1, <2>2 DEF RelayInv, TypeOK, Relays
  <2>4. InOrder'
    BY <1>1, <2>1 DEF RelayInv, InOrder, Follows, Noticed, Passed, Total
  <2>5. BigSent'
    <3>1. Total(Other(e)) + 1 \in 1 .. Len(sent[Codex]) /\ Kind(sent[Codex][Total(Other(e)) + 1]) = Big
      BY <1>3, <1>5, RelayTypes DEF RelayInv
    <3> QED BY <1>1, <3>1 DEF BigSent
  <2> QED BY <2>2, <2>3, <2>4, <2>5 DEF RelayInv, Flow, Explained
<1>6. CASE Kind(m) = Big /\ e = Gateway
  <2>1. Drop(source', sink)
    BY <1>6, RelayAssumption DEF Select, RelayAssumption
  <2> QED BY <1>1, <1>2, <2>1, DropKeeps
<1> QED BY <1>4, <1>5, <1>6 DEF Endpoint

\* What the relay holds is added to what passes to the other side.
LEMMA RelayForwards ==
    ASSUME RelayAssumption, RelayInv, Forward
    PROVE  RelayInv'
<1>0. PICK o \in Endpoint : o = Other(relay.from)
  BY OtherSide DEF RelayInv, TypeOK
<1> DEFINE pending == [sink EXCEPT ![o] = Append(@, relay.message)]
<1>1. /\ relay.pc = "send" /\ Len(sink[o]) < Capacity /\ UNCHANGED <<sent, received, gone, source>>
      /\ IF Kind(relay.message) = Close THEN Drop(source, pending) ELSE relay' = Selecting /\ sink' = pending
  BY <1>0 DEF Forward, Room, Receiver
<1>2. relay.from \in Endpoint /\ relay.message \in Message /\ o \in Endpoint /\ Other(o) = relay.from /\ o # relay.from
  BY <1>0, OtherSide DEF RelayInv, TypeOK
<1>3. /\ pending \in [Endpoint -> Seq(Message \cup {Notice})] /\ \A q \in Endpoint : Len(pending[q]) <= Capacity
      /\ pending[o] = Append(sink[o], relay.message) /\ \A q \in Endpoint \ {o} : pending[q] = sink[q]
      /\ Len(pending[o]) = Len(sink[o]) + 1
      /\ \A i \in 1 .. Total(o) : Item(received[o], pending[o], i) = Passed(o, i)
      /\ Item(received[o], pending[o], Total(o) + 1) = relay.message
  <2>1. sink[o] \in Seq(Message \cup {Notice}) /\ received[o] \in Seq(Message \cup {Notice}) /\ Len(sink[o]) \in Nat
        /\ Capacity \in Nat
    BY <1>2, RelayTypes DEF RelayInv, RelayAssumption
  <2>2. Grows(Message \cup {Notice}, received[o], sink[o], relay.message)
    BY <1>2, <2>1, AppendItem
  <2>3. Len(Append(sink[o], relay.message)) <= Capacity
    BY <1>1, <2>1, <2>2 DEF Grows
  <2>4. pending[o] = Append(sink[o], relay.message) /\ \A q \in Endpoint \ {o} : pending[q] = sink[q]
    BY <1>2 DEF RelayInv, TypeOK
  <2>5. pending \in [Endpoint -> Seq(Message \cup {Notice})]
    BY <1>2, <2>2 DEF RelayInv, TypeOK, Grows
  <2>6. \A q \in Endpoint : Len(pending[q]) <= Capacity
    BY <2>3, <2>4, RelayTypes DEF RelayInv
  <2> HIDE DEF pending
  <2> QED BY <2>2, <2>4, <2>5, <2>6 DEF Total, Passed, Grows
<1>4. Len(received[o]) + Len(pending[o]) = Total(o) + 1 /\ Total(o) \in Nat
  <2>1. Len(received[o]) \in Nat /\ Len(sink[o]) \in Nat
    BY <1>2, RelayTypes DEF RelayInv
  <2>2. Len(pending[o]) = Len(sink[o]) + 1
    BY <1>3
  <2>3. Len(received[o]) + (Len(sink[o]) + 1) = (Len(received[o]) + Len(sink[o])) + 1
        /\ Len(received[o]) + Len(sink[o]) \in Nat
    BY <2>1, OneMore
  <2> HIDE DEF pending
  <2> QED BY <2>2, <2>3 DEF Total
<1>5. \A q \in Endpoint : AllThere(q) /\ HoldsNext(q) /\ WaitsNext(q)
  BY <1>1 DEF RelayInv, Flow
<1>6. relay.message = sent[relay.from][Total(o) + 1] /\ Total(o) + 1 <= Len(sent[relay.from])
  <2>1. Held(relay.from) = 1 /\ AllThere(relay.from) /\ HoldsNext(relay.from)
    BY <1>1, <1>2, <1>5 DEF Held
  <2>2. Len(source[relay.from]) \in Nat
    BY <1>2, RelayTypes DEF RelayInv
  <2> QED BY <1>0, <1>4, <2>1, <2>2 DEF AllThere, HoldsNext
<1>7. ASSUME NEW q \in Endpoint, NEW i \in 1 .. Len(received[q]) + Len(pending[q])
      PROVE  i <= Len(sent[Other(q)]) /\ Item(received[q], pending[q], i) = sent[Other(q)][i]
  <2>1. \A j \in 1 .. Total(q) : Follows(q, j)
    BY <1>1 DEF RelayInv, InOrder, Noticed
  <2>2. CASE q # o
    <3>1. pending[q] = sink[q]
      BY <1>3, <2>2
    <3> QED BY <2>1, <3>1 DEF Follows, Passed, Total
  <2>3. CASE q = o
    <3>1. i \in 1 .. Total(o) \/ i = Total(o) + 1
      BY <1>4, <2>3, LastOrBefore
    <3> QED BY <1>2, <1>3, <1>6, <2>1, <2>3, <3>1 DEF Follows
  <2> QED BY <2>2, <2>3
<1> HIDE DEF pending
<1>8. CASE Kind(relay.message) = Close
  <2>1. Drop(source, pending)
    BY <1>1, <1>8
  <2>2. relay' = Ended /\ Cut(pending) /\ sink' \in [Endpoint -> Seq(Message \cup {Notice})]
        /\ \A q \in Endpoint : Len(sink'[q]) <= Capacity
    BY <1>3, <2>1, DropCuts
  <2>3. TypeOK'
    BY <1>1, <2>2, SelectingType DEF RelayInv, TypeOK, Relays
  <2>4. InOrder'
    <3>1. Orderly(pending)
      BY <1>7 DEF Orderly
    <3> QED BY <1>1, <1>3, <2>2, <3>1, SelectingType, CutKeepsOrder DEF RelayInv
  <2> QED BY <2>2, <2>3, <2>4, SelectingType DEF RelayInv, Flow, Explained
<1>9. CASE Kind(relay.message) # Close
  <2>1. relay' = Selecting /\ sink' = pending
    BY <1>1, <1>9
  <2>2. TypeOK'
    BY <1>1, <1>3, <2>1, SelectingType DEF RelayInv, TypeOK, Relays
  <2>3. InOrder'
    <3> SUFFICES ASSUME NEW q \in Endpoint, NEW i \in 1 .. Total(q)' PROVE Follows(q, i)'
      BY DEF InOrder
    <3>1. i \in 1 .. Len(received[q]) + Len(pending[q]) /\ Passed(q, i)' = Item(received[q], pending[q], i)
      BY <1>1, <2>1 DEF Total, Passed
    <3> QED BY <1>1, <1>7, <3>1 DEF Follows
  <2>4. Flow'
    <3> SUFFICES ASSUME NEW q \in Endpoint PROVE (AllThere(q) /\ HoldsNext(q) /\ WaitsNext(q))'
      BY DEF Flow
    <3>1. Held(q)' = 0 /\ sent' = sent /\ source' = source
      BY <1>1, <2>1, SelectingType DEF Held
    <3>2. CASE q = relay.from
      <4>1. Other(q) = o /\ Held(q) = 1 /\ Total(o)' = Total(o) + 1
        BY <1>0, <1>1, <1>4, <2>1, <3>2 DEF Held, Total
      <4>2. AllThere(q) /\ WaitsNext(q) /\ Len(source[q]) \in Nat
        BY <1>5, RelayTypes DEF RelayInv
      <4>3. AllThere(q)' /\ HoldsNext(q)'
        <5>1. Len(sent[q]) = Total(o) + 1 + Len(source[q])
          BY <4>1, <4>2 DEF AllThere
        <5> QED BY <1>4, <3>1, <4>1, <4>2, <5>1 DEF AllThere, HoldsNext
      <4>4. ASSUME NEW i \in 1 .. Len(source[q]) PROVE Total(o) + 1 + 0 + i = Total(o) + 1 + i
        BY <1>4
      <4> QED BY <3>1, <4>1, <4>2, <4>3, <4>4 DEF WaitsNext
    <3>3. CASE q # relay.from
      <4>1. Other(q) # o /\ Other(q) \in Endpoint
        BY <1>2, <3>3, OtherSide
      <4>2. Held(q) = 0 /\ Total(Other(q))' = Total(Other(q))
        BY <1>1, <1>3, <2>1, <3>3, <4>1 DEF Held, Total
      <4> QED BY <1>5, <3>1, <4>2 DEF AllThere, HoldsNext, WaitsNext
    <3> QED BY <3>2, <3>3
  <2> QED BY <2>1, <2>2, <2>3, <2>4, SelectingType DEF RelayInv, Explained
<1> QED BY <1>8, <1>9

LEMMA TellStep ==
    ASSUME RelayAssumption, RelayInv, NEW e \in Endpoint, Tell(e)
    PROVE  RelayInv'
<1>1. /\ relay.pc = "tooBig" /\ e \notin relay.told /\ Len(sink[e]) < Capacity
      /\ sink' = [sink EXCEPT ![e] = Append(@, Notice)] /\ relay' = [relay EXCEPT !.told = @ \cup {e}]
      /\ UNCHANGED <<sent, received, gone, source>>
  BY DEF Tell, Room
<1>2. relay' \in Relays /\ relay'.pc = "tooBig" /\ relay'.told = relay.told \cup {e}
  BY <1>1 DEF RelayInv, TypeOK, Relays
<1>3. /\ sink'[e] = Append(sink[e], Notice) /\ \A q \in Endpoint \ {e} : sink'[q] = sink[q]
      /\ received[e] \in Seq(Message \cup {Notice}) /\ sink[e] \in Seq(Message \cup {Notice})
  BY <1>1 DEF RelayInv, TypeOK
<1>4. /\ sink'[e] \in Seq(Message \cup {Notice}) /\ Len(sink'[e]) = Len(sink[e]) + 1
      /\ \A i \in 1 .. Len(received[e]) + Len(sink[e]) : Item(received[e], sink'[e], i) = Item(received[e], sink[e], i)
      /\ Item(received[e], sink'[e], Len(received[e]) + Len(sink[e]) + 1) = Notice
  <2>1. Grows(Message \cup {Notice}, received[e], sink[e], Notice)
    BY <1>3, AppendItem
  <2> QED BY <1>3, <2>1 DEF Grows
<1>5. TypeOK'
  <2>1. Len(sink'[e]) <= Capacity
    BY <1>1, <1>3, <1>4 DEF RelayAssumption
  <2>2. sink' \in [Endpoint -> Seq(Message \cup {Notice})]
    BY <1>1, <1>3, <1>4 DEF RelayInv, TypeOK
  <2> QED BY <1>1, <1>2, <1>3, <2>1, <2>2 DEF RelayInv, TypeOK, Relays
<1>6. BigSent /\ BigSent'
  BY <1>1 DEF RelayInv, Explained, BigSent
<1>7. InOrder'
  <2> SUFFICES ASSUME NEW q \in Endpoint, NEW i \in 1 .. Total(q)' PROVE Follows(q, i)' \/ Noticed(q, i)'
    BY DEF InOrder
  <2>1. CASE q # e
    <3>1. Total(q)' = Total(q) /\ Passed(q, i)' = Passed(q, i) /\ sent' = sent
      BY <1>1, <1>3, <2>1 DEF Total, Passed
    <3> QED BY <1>1, <1>2, <1>6, <3>1 DEF RelayInv, InOrder, Follows, Noticed
  <2>2. CASE q = e
    <3>1. Total(q)' = Total(q) + 1 /\ Total(q) \in Nat
      <4>1. Len(received[e]) \in Nat /\ Len(sink[e]) \in Nat
        BY <1>3
      <4>2. Len(received'[e]) = Len(received[e]) /\ Len(sink'[e]) = Len(sink[e]) + 1
        BY <1>1, <1>4
      <4>3. Len(received[e]) + (Len(sink[e]) + 1) = (Len(received[e]) + Len(sink[e])) + 1
            /\ Len(received[e]) + Len(sink[e]) \in Nat
        BY <4>1, OneMore
      <4> QED BY <2>2, <4>2, <4>3 DEF Total
    <3>2. CASE i = Total(q) + 1
      <4>1. Passed(q, i)' = Notice
        BY <1>1, <1>4, <2>2, <3>2 DEF Passed, Total
      <4> QED BY <1>2, <1>6, <2>2, <3>1, <3>2, <4>1 DEF Noticed
    <3>3. CASE i \in 1 .. Total(q)
      <4>1. Passed(q, i)' = Passed(q, i)
        BY <1>1, <1>4, <2>2, <3>3 DEF Passed, Total
      <4>2. Follows(q, i)
        BY <1>1, <2>2, <3>3 DEF RelayInv, InOrder, Noticed
      <4> QED BY <1>1, <4>1, <4>2 DEF Follows
    <3> QED BY <3>1, <3>2, <3>3
  <2> QED BY <2>1, <2>2
<1> QED BY <1>2, <1>5, <1>6, <1>7 DEF RelayInv, Flow, Explained

LEMMA TellTooLateStep ==
    ASSUME RelayAssumption, RelayInv, NEW e \in Endpoint, TellTooLate(e)
    PROVE  RelayInv'
<1>1. /\ relay.pc = "tooBig" /\ relay' = [relay EXCEPT !.told = @ \cup {e}]
      /\ UNCHANGED <<sent, received, gone, source, sink>>
  BY DEF TellTooLate
<1>2. relay' \in Relays /\ relay'.pc = "tooBig" /\ relay'.told = relay.told \cup {e}
  BY <1>1 DEF RelayInv, TypeOK, Relays
<1>3. TypeOK'
  BY <1>1, <1>2 DEF RelayInv, TypeOK, Relays
<1>4. InOrder'
  BY <1>1, <1>2 DEF RelayInv, InOrder, Follows, Noticed, BigSent, Passed, Total
<1> QED BY <1>1, <1>2, <1>3, <1>4 DEF RelayInv, Flow, Explained, BigSent

(***************************************************************************)
(* The theorems.                                                           *)
(***************************************************************************)
LEMMA RelaySteps ==
    ASSUME RelayAssumption, RelayInv, [Next]_vars
    PROVE  RelayInv' /\ [Channel!Next]_<<sent, received>>
<1>1. CASE UNCHANGED vars
  <2>1. UNCHANGED <<sent, received, gone, source, sink, relay>>
    BY <1>1 DEF vars
  <2>2. TypeOK' /\ Explained'
    BY <2>1 DEF RelayInv, TypeOK, Explained, BigSent
  <2>3. InOrder'
    BY <2>1 DEF RelayInv, InOrder, Follows, Noticed, BigSent, Passed, Total
  <2>4. Flow'
    BY <2>1 DEF RelayInv, Flow, AllThere, HoldsNext, WaitsNext, Held, Total
  <2> QED BY <2>1, <2>2, <2>3, <2>4 DEF RelayInv
<1>2. ASSUME Lose \/ ReadFails \/ EndTooBig PROVE RelayInv' /\ UNCHANGED <<sent, received>>
  <2>1. /\ UNCHANGED <<sent, received, gone, source>> /\ Drop(source, sink)
    BY <1>2 DEF Lose, ReadFails, EndTooBig
  <2> QED BY <2>1, DropKeeps DEF RelayInv, TypeOK
<1>3. ASSUME Forward PROVE RelayInv' /\ UNCHANGED <<sent, received>>
  BY <1>3, RelayForwards DEF Forward
<1>4. ASSUME NEW e \in Endpoint, Select(e) \/ Tell(e) \/ TellTooLate(e) \/ Leave(e)
      PROVE  RelayInv' /\ UNCHANGED <<sent, received>>
  BY <1>4, SelectStep, TellStep, TellTooLateStep, LeaveStep DEF Select, Tell, TellTooLate, Leave
<1>5. ASSUME NEW e \in Endpoint, Receive(e) \/ \E kind \in {Data, Close, Big} : Send(e, kind)
      PROVE  RelayInv' /\ Channel!Next
  BY <1>5, RelayReceives, RelaySends
<1> QED BY <1>1, <1>2, <1>3, <1>4, <1>5 DEF Next, RelayStep

LEMMA RelayStarts == ASSUME RelayAssumption, Init PROVE RelayInv /\ Channel!Init
<1>1. TypeOK
  BY SelectingType DEF Init, TypeOK, Relays, RelayAssumption
<1>2. \A e \in Endpoint : /\ sent[e] = <<>> /\ received[e] = <<>> /\ source[e] = <<>> /\ sink[e] = <<>>
                          /\ Total(e) = 0
  BY DEF Init, Total
<1>3. relay.pc = "select"
  BY SelectingType DEF Init
<1>4. InOrder
  BY <1>2 DEF InOrder
<1>5. Flow /\ Explained
  BY <1>2, <1>3, OtherSide DEF Flow, Explained, AllThere, HoldsNext, WaitsNext, Held
<1> QED BY <1>1, <1>4, <1>5 DEF RelayInv, Init, Channel!Init

\* The type invariant of the relay.
THEOREM RelayTypeCorrect == ASSUME RelayAssumption PROVE Spec => []TypeOK
<1>1. Init => RelayInv
  BY RelayStarts
<1>2. RelayInv /\ [Next]_vars => RelayInv'
  BY RelaySteps
<1>3. RelayInv => TypeOK
  BY DEF RelayInv
<1> QED BY <1>1, <1>2, <1>3, PTL DEF Spec

\* Although one task selects, holds a message while it sends and may be told to
\* end at any time, each side receives a prefix of what the other sent, in
\* order, and after it at most the notice of a message of Codex that was too big
\* (relay_openai_websocket).
THEOREM RelayIsAChannel == ASSUME RelayAssumption PROVE Spec => ImplementsChannel
<1>1. Init => RelayInv /\ Channel!Init
  BY RelayStarts
<1>2. RelayInv /\ [Next]_vars => RelayInv' /\ [Channel!Next]_<<sent, received>>
  BY RelaySteps
<1> QED BY <1>1, <1>2, PTL DEF Spec, ImplementsChannel, Channel!Spec
=============================================================================

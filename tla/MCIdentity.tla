------------------------------ MODULE MCIdentity ------------------------------
(***************************************************************************)
(* As whom requests leave the machine, and which do not: a behaviour is    *)
(* one of ClientProof, how the device records come about that a request is *)
(* signed with, one of OutboundRequest, what one request carries and which *)
(* route it takes, or one of LocalAnswers, who answers it, and the         *)
(* variables of the others stay as they are.                               *)
(*                                                                         *)
(* Device records: the credentials belong to one user, so that they share  *)
(* a device, and two keys are in use, or one and a revocation.  Requests:  *)
(* every one with up to two Authorization headers and a session cookie,    *)
(* and every one with up to two cookies and one Authorization, on a        *)
(* machine without a proxy; and one for every way out under every proxy    *)
(* configuration: every environment over three variables, every Windows    *)
(* ProxyServer list of up to two entries, every scutil answer, and every   *)
(* setting.                                                                *)
(***************************************************************************)
EXTENDS ClientProof, SequencesExt

CONSTANTS u1,
          Login, Basic, ClaudeKey, CodexKey, Proxy, Self, Bad, Unset, Target, Loopback, Direct, Failed,
          Received, Cases,  \* the requests and the situations, as below or any others
          Account, Fixture, Unnamed

VARIABLES part, request, signing, egress, inputs, asked,
          switches, accountFile, account, sdk, question, answer

outbound == <<request, signing, egress, inputs, asked>>
answers == <<switches, accountFile, account, sdk, question, answer>>

OneUser == [c \in Credential |-> u1]
Symmetry == Permutations(Process) \cup Permutations(Key)
\* Two keys are in use, or one and a revocation.
InUse == {k \in Key : keyFile = k \/ \E p \in Process : key[p] = k}
FewKeys == Cardinality(revoked) + Cardinality(InUse) <= 2

OutboundKey == [p \in {"claude", "codex"} |-> IF p = "claude" THEN ClaudeKey ELSE CodexKey]
O == INSTANCE OutboundRequest WITH Key <- OutboundKey, Requests <- Received
A == INSTANCE LocalAnswers WITH file <- accountFile, login <- account, request <- question

(***************************************************************************)
(* The requests and the situations that are checked.                       *)
(***************************************************************************)
\* One request for each way out: to the Gateway, to an origin, through a tunnel.
Plain == [via |-> "http", tls |-> FALSE, host |-> "other", upgrade |-> FALSE, device |-> FALSE,
          auth |-> <<>>, cookies |-> <<>>, proof |-> FALSE, nominated |-> {}]
WaysOut == {Plain, [Plain EXCEPT !.via = "connect"],
            [Plain EXCEPT !.via = "connect", !.tls = TRUE, !.host = "anthropic"]}
OutboundRequests ==
    WaysOut
    \cup
    [via : {"connect", "http"}, tls : BOOLEAN,
     host : {"telemetry", "control", "anthropic", "openai", "other"},
     upgrade : {FALSE}, device : {FALSE},
     auth : SeqOf(Login \cup {Basic}, 2), cookies : {<<"session">>}, proof : BOOLEAN,
     nominated : {{}, {"authorization"}, {"cookie"}, {"proof"}, {"authorization", "cookie", "proof"}}]
    \cup
    [via : {"connect"}, tls : {TRUE}, host : {"openai"},
     upgrade : BOOLEAN, device : BOOLEAN,
     auth : SeqOf(Login, 1), cookies : SeqOf({"session", "device", "placeholder", "damaged"}, 2), proof : BOOLEAN,
     nominated : SUBSET {"cookie", "proof"}]

Bypasses == {{}, {CHOOSE t \in Target \ Loopback : TRUE}}
Written == Proxy \cup {Self, Bad, Unset}
Entries == {[scheme |-> s, proxy |-> e] : s \in {"any", "http", "https"}, e \in Proxy \cup {Self, Bad}}
           \cup {[scheme |-> "socks", proxy |-> Bad]}
Windows == [kind : {"windows"}, detect : BOOLEAN, script : BOOLEAN,
            server : SeqOf(Entries, 2), bypass : Bypasses]
Mac == [kind : {"macos"}, auto : BOOLEAN, https : Written, http : Written,
        socks : BOOLEAN, bypass : Bypasses]
NoProxy == [https |-> Unset, http |-> Unset, all |-> Unset, bypass |-> {}]
NoOs == [kind |-> "none"]
Inputs == [mode : {"system", "direct", Bad, Self} \cup Proxy,
           env : [https : Written, http : Written, all : Written, bypass : Bypasses], os : {NoOs}]
          \cup
          [mode : {"system"}, env : {NoProxy, [NoProxy EXCEPT !.https = Self]},
           os : {[kind |-> "unreadable"]} \cup Windows \cup Mac]

\* A request carries the key of its route and may name a login: whether either has a record.
SomeSigning == {s \cup k : s \in SUBSET {CHOOSE l \in Login : TRUE}, k \in {{}, {ClaudeKey, CodexKey}}}
OutboundCases ==
    [request : OutboundRequests, signing : SomeSigning,
     inputs : {[mode |-> "direct", env |-> NoProxy, os |-> NoOs]}]
    \cup [request : WaysOut, signing : {{}}, inputs : Inputs]

ASSUME PartsAssumption ==
    /\ O!TargetAssumption /\ O!KeyAssumption /\ O!RequestAssumption /\ O!CasesAssumption /\ O!NamesAssumption
    /\ A!LocalAnswersAssumption

(***************************************************************************)
(* One of them runs.                                                       *)
(***************************************************************************)
RestO == /\ request = Plain /\ signing = {} /\ inputs = [mode |-> "direct", env |-> NoProxy, os |-> NoOs]
         /\ egress = O!Pending /\ asked = O!NotAsked
RestA == account = (CHOOSE a \in Account : TRUE) /\ switches = [chat |-> FALSE, browser |-> FALSE] /\ A!Init
MCInit == Init /\ \/ part = "records" /\ RestO /\ RestA
                  \/ part = "request" /\ O!Init /\ RestA
                  \/ part = "answer" /\ RestO /\ A!Init
MCNext == \/ part = "records" /\ Next /\ UNCHANGED <<part, outbound, answers>>
          \/ part = "request" /\ O!Next /\ UNCHANGED <<part, proofVars, answers>>
          \/ part = "answer" /\ A!Next /\ UNCHANGED <<part, proofVars, outbound>>
MCSpec == MCInit /\ [][MCNext]_<<proofVars, part, outbound, answers>>

\* An enrolment is not lost, and a revocation is final (ClientProof).
RecordsAreKept == [][part = "records" => KeepsTheRecords]_proofVars
\* The Gateway sees one identity, the one the client proof was made for, and
\* a login to OpenAI stays on the machine (EgressDecision).
OneProvenIdentity == part = "request" => O!OneProvenIdentity
\* A connection takes a proxy that is configured, or fails, and never SAIAI's
\* own listener (OutboundRequest).
RoutesAreConfigured == part = "request" => O!RoutesAreConfigured
\* What is answered in place of the hosted service is of one account, grants
\* no write, and never leaves; nothing else stays (LocalAnswers).
AnswersAreItsOwn == part = "answer" => A!AnswersAreItsOwn
=============================================================================

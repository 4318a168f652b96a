---------------------------- MODULE EgressDecision ----------------------------
(***************************************************************************)
(* What leaves the machine because of one request to the local proxy       *)
(* (src/tools/saiai-cli/src/local_proxy.rs): where it goes, and with which *)
(* credentials, cookies and client proof.  A request comes in as a CONNECT *)
(* that is intercepted or tunnelled, or as a plain http request.           *)
(*                                                                         *)
(* Header values are known by what they are: an Authorization is one of    *)
(* the client's logins or not a Bearer at all, a cookie is the device      *)
(* proof, its local placeholder or anything else.                          *)
(***************************************************************************)
EXTENDS Naturals, Sequences

CONSTANTS Login,     \* Bearer credentials a client may send
          Basic,     \* an Authorization that is not a Bearer
          Key,       \* the Gateway keys: Key[product], product "claude" or "codex"
          Requests   \* the requests of an instance

Product == {"claude", "codex"}
Cookie == {"session", "device", "placeholder", "damaged"}

KeyAssumption ==
    /\ Basic \notin Login /\ DOMAIN Key = Product
    /\ \A p \in Product : Key[p] \notin Login \cup {Basic}

(***************************************************************************)
(* A request: via is "connect" or "http"; host is "telemetry", "control",  *)
(* "anthropic", "openai" (which stands for the ChatGPT hosts too) or       *)
(* "other"; tls says that the port is 443.  Inside an intercepted          *)
(* connection: upgrade for a WebSocket, device for the paths that take the *)
(* device proof.  auth is the sequence of Authorization headers, cookies   *)
(* that of cookies, proof says that the client sent a proof header, and    *)
(* nominated which of the three Connection names.                          *)
(***************************************************************************)
RequestAssumption ==
    Requests \subseteq
        [via : {"connect", "http"}, tls : BOOLEAN,
         host : {"telemetry", "control", "anthropic", "openai", "other"},
         upgrade : BOOLEAN, device : BOOLEAN,
         auth : Seq(Login \cup {Basic}), cookies : Seq(Cookie), proof : BOOLEAN,
         nominated : SUBSET {"authorization", "cookie", "proof"}]

VARIABLES request, \* the request
          signing, \* the Bearers the Gateway has given a device id for
          egress   \* what left for it

NoProof == [by |-> "nobody", bearer |-> Basic]
Pending == [to |-> "pending"]
Nothing == [to |-> "nowhere"]
To(to, auth, cookies, proof) == [to |-> to, auth |-> auth, cookies |-> cookies, proof |-> proof]

Managed(r) == r.host \in {"anthropic", "openai"}
Nominated(r, name) == name \in r.nominated
Elements(s) == {s[i] : i \in DOMAIN s}

\* handle_client refuses telemetry hosts on every entry and port.
Refused(r) == r.host = "telemetry"

(***************************************************************************)
(* The client proof: signed for the Bearer that is sent, if there is one   *)
(* and it has been enrolled.                                               *)
(***************************************************************************)
ProofFor(bearer) ==
    IF bearer \in signing THEN [by |-> "proxy", bearer |-> bearer] ELSE NoProof

\* BUG: the first Authorization is signed, whatever else is sent.
SignedFirst(auth) == Head(auth)
\* Several Authorization headers, or one that is not a Bearer, are not signed.
Signed(auth) == IF Len(auth) = 1 /\ Head(auth) \in Login THEN Head(auth) ELSE Basic

(***************************************************************************)
(* forward_to_saiai for the Anthropic host: the client's own Authorization *)
(* goes out, the key is added where there is none.                         *)
(***************************************************************************)
\* A header that Connection names is dropped before it counts.
KeyAdded(r) == r.auth = <<>> \/ Nominated(r, "authorization")

ForwardClaude(r) ==
    LET own == IF Nominated(r, "authorization") THEN <<>> ELSE r.auth
        auth == IF KeyAdded(r) THEN Append(own, Key["claude"]) ELSE own
    IN  To("gateway", auth,
           IF Nominated(r, "cookie") THEN {} ELSE Elements(r.cookies),
           ProofFor(IF KeyAdded(r) THEN Key["claude"] ELSE Signed(own)))

(***************************************************************************)
(* For the OpenAI hosts the key replaces every Authorization, and of the   *)
(* cookies only the device proof crosses, on the paths that need it.       *)
(***************************************************************************)
\* chatgpt_device_cookie: two of them, or a damaged one, are an error.
DeviceCookies(r) == SelectSeq(r.cookies, LAMBDA c : c # "session")
BadDevice(r) == Len(DeviceCookies(r)) > 1 \/ "damaged" \in Elements(DeviceCookies(r))
WantsDevice(r) == r.device /\ ~Nominated(r, "cookie")

\* The historical placeholder is never sent.
CookiesSent(r) == IF WantsDevice(r) THEN Elements(r.cookies) \cap {"device"} ELSE {}

ForwardCodex(r) ==
    IF WantsDevice(r) /\ BadDevice(r) THEN Nothing
    ELSE To("gateway", <<Key["codex"]>>, CookiesSent(r), ProofFor(Key["codex"]))
\* build_openai_websocket_request
UpgradeCodex(r) == To("gateway", <<Key["codex"]>>, {}, ProofFor(Key["codex"]))

(***************************************************************************)
(* Plain http: as it came for a host that is not ours, without credentials *)
(* for one that is.                                                        *)
(***************************************************************************)
\* should_forward_request_header drops a client's proof on every way out.
ProofOf(r) == NoProof
ForwardPlain(r) ==
    To("origin",
       IF Managed(r) \/ Nominated(r, "authorization") THEN <<>> ELSE r.auth,
       IF Managed(r) \/ Nominated(r, "cookie") THEN {} ELSE Elements(r.cookies),
       IF Nominated(r, "proof") THEN NoProof ELSE ProofOf(r))

\* A tunnel carries what the client encrypts; nothing is added to it.
Tunnel(r) == To("tunnel", <<>>, {}, NoProof)

\* handle_client and serve_managed_tls.
Egress(r) ==
    CASE Refused(r) -> Nothing
      [] ~Refused(r) /\ r.via = "http" -> ForwardPlain(r)
      [] ~Refused(r) /\ r.via = "connect" /\ r.host = "control" /\ r.tls -> Nothing
      [] ~Refused(r) /\ r.via = "connect" /\ r.host = "anthropic" /\ r.tls -> ForwardClaude(r)
      [] ~Refused(r) /\ r.via = "connect" /\ r.host = "openai" /\ r.tls ->
            IF r.upgrade THEN UpgradeCodex(r) ELSE ForwardCodex(r)
      [] OTHER -> Tunnel(r)

Handle ==
    /\ egress = Pending
    /\ egress' = Egress(request)
    /\ UNCHANGED <<request, signing>>

(***************************************************************************)
(* Properties.                                                             *)
(***************************************************************************)
Left == egress \notin {Pending, Nothing}

\* A proof is the proxy's own, goes to the Gateway only, and was made for the
\* one and only credential that goes with it: no duplicate, nominated or
\* non-Bearer Authorization makes the Gateway see another one than was signed
\* (local_proxy.rs, "The proof binds the exact Bearer credential").
ProofBindsCredential ==
    Left /\ egress.proof # NoProof =>
        /\ egress.proof.by = "proxy" /\ egress.to = "gateway"
        /\ egress.auth = <<egress.proof.bearer>>

\* Nobody is two users at once: where a Gateway key is sent, no credential of
\* the client is sent with it, and the key is that of the product.
OneIdentity ==
    Left =>
        LET keys == Elements(egress.auth) \cap {Key[p] : p \in Product} IN
        keys # {} => /\ egress.to = "gateway" /\ Len(egress.auth) = 1
                     /\ keys = {Key[IF request.host = "openai" THEN "codex" ELSE "claude"]}

\* A login to OpenAI stays on the machine: of what the client has to show
\* only the device proof crosses, and only to the Gateway.
LoginStaysHere ==
    Left /\ request.host = "openai" =>
        /\ Elements(egress.auth) \cap (Login \cup {Basic}) = {}
        /\ egress.cookies \subseteq (IF egress.to = "gateway" /\ request.device THEN {"device"} ELSE {})

\* What leaves the machine names one identity to whoever receives it, the one the proof was
\* made for.
OneProvenIdentity == ProofBindsCredential /\ OneIdentity /\ LoginStaysHere
=============================================================================

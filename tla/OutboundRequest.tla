--------------------------- MODULE OutboundRequest ---------------------------
(***************************************************************************)
(* A request on its way out of the machine: EgressDecision says what       *)
(* leaves for it and to whom, ProxyPolicy by which route.  The proxy       *)
(* configuration is read when the service starts and is given; how it      *)
(* changes is UpstreamProxy's subject.                                     *)
(***************************************************************************)
EXTENDS EgressDecision, ProxyPolicy

CONSTANT Cases \* [request, signing, inputs]: the situations of an instance

\* What somebody wrote down: a usable proxy, an unusable one, this listener, nothing.
Env == [https : Written, http : Written, all : Written, bypass : SUBSET Target]
Windows == [kind : {"windows"}, detect : BOOLEAN, script : BOOLEAN,
            server : Seq([scheme : {"any", "http", "https"}, proxy : Proxy \cup {Self, Bad}]
                         \cup [scheme : {"socks"}, proxy : {Bad}]),
            bypass : SUBSET Target]
Mac == [kind : {"macos"}, auto : BOOLEAN, https : Written, http : Written,
        socks : BOOLEAN, bypass : SUBSET Target]
Os == [kind : {"none", "unreadable"}] \cup Windows \cup Mac
Mode == {"system", "direct", Bad, Self} \cup Proxy

\* Bearers only have device ids.
CasesAssumption ==
    \A c \in Cases : /\ c.request \in Requests
                     /\ c.signing \subseteq Login \cup {Key[p] : p \in Product}
                     /\ c.inputs \in [mode : Mode, env : Env, os : Os]
\* What is written down and what comes of it are told apart.
NamesAssumption ==
    /\ Unset \notin Proxy \cup {Self, Bad, Direct, Failed, "system", "direct"}
    /\ Self \notin Proxy \cup {Bad, Direct, Failed, "system", "direct"}
    /\ Bad \notin Proxy \cup {Direct, "system", "direct"}
    /\ Direct \notin Proxy \cup {Failed} /\ {"system", "direct"} \cap Proxy = {}

VARIABLES inputs, \* [mode, env, os]: the setting, the proxy variables, the system
          asked   \* the connection that was routed, or NotAsked

vars == <<request, signing, egress, inputs, asked>>
NotAsked == [route |-> Unset]

Init ==
    /\ \E c \in Cases : request = c.request /\ signing = c.signing /\ inputs = c.inputs
    /\ egress = Pending
    /\ asked = NotAsked

Decide == Handle /\ UNCHANGED <<inputs, asked>>

\* The Gateway's URL is http or https; a tunnel is routed like https.
SchemeOf(to) == CASE to = "gateway" -> Scheme [] to = "origin" -> {"http"} [] to = "tunnel" -> {"https"}

Routable(scheme) == Left /\ asked = NotAsked /\ scheme \in SchemeOf(egress.to)
Route(scheme, target, outcome, route) ==
    /\ asked' = [scheme |-> scheme, target |-> target, outcome |-> outcome, route |-> route]
    /\ UNCHANGED <<request, signing, egress, inputs>>

Connect(scheme, target) ==
    LET policy == PolicyFromInputs(inputs) IN
    /\ Routable(scheme)
    /\ target \in Loopback \/ policy.kind # "auto"
    /\ Route(scheme, target, Unset, RouteNow(policy, scheme, target))

\* Automatic configuration gives some outcome; detect is off for a while
\* after discovery found nothing.
ConnectAutomatically(scheme, target, outcome, detect) ==
    LET policy == PolicyFromInputs(inputs) IN
    /\ Routable(scheme)
    /\ target \notin Loopback /\ policy.kind = "auto"
    /\ detect => policy.detect
    /\ Route(scheme, target, outcome, PacRoute(policy, detect, scheme, target, outcome))

Next == \/ Decide
        \/ \E scheme \in Scheme, target \in Target :
              \/ Connect(scheme, target)
              \/ \E outcome \in Outcome, detect \in BOOLEAN :
                    ConnectAutomatically(scheme, target, outcome, detect)
Spec == Init /\ [][Next]_vars

(***************************************************************************)
(* What the configuration says, without the policies in between.           *)
(***************************************************************************)
\* The environment names some proxy, so it decides.
FromEnv == \E v \in {"https", "http", "all"} : Counts(inputs.env[v])

\* Somebody configured a proxy, usable or not, that serves the scheme.
ConfiguredFor(scheme) ==
    LET os == inputs.os IN
    CASE inputs.mode = "direct" -> FALSE
      [] inputs.mode \notin {"direct", "system"} -> TRUE
      [] inputs.mode = "system" /\ FromEnv -> Counts(inputs.env[scheme]) \/ Counts(inputs.env.all)
      [] OTHER -> CASE os.kind = "none" -> FALSE
                    [] os.kind = "unreadable" -> TRUE
                    [] os.kind = "windows" ->
                          \E i \in DOMAIN os.server : /\ os.server[i].scheme \in {scheme, "any", "socks"}
                                                      /\ Counts(os.server[i].proxy)
                    [] os.kind = "macos" -> ~os.auto /\ (Counts(os[scheme]) \/ os.socks)

\* The configuration exempts the target.
Exempt(target) ==
    \/ target \in Loopback
    \/ inputs.mode = "system" /\ FromEnv /\ target \in inputs.env.bypass
    \/ inputs.mode = "system" /\ ~FromEnv /\ inputs.os.kind \in {"windows", "macos"}
                              /\ target \in inputs.os.bypass

\* Automatic configuration is in charge and answered.
Automatic == /\ inputs.mode = "system" /\ ~FromEnv /\ inputs.os.kind = "windows"
             /\ inputs.os.detect \/ inputs.os.script

\* macOS has a SOCKS proxy and an HTTP proxy for the other scheme only: the
\* code takes this one past the SOCKS proxy (upstream_proxy.rs:764).
PastSocks(scheme) ==
    LET os == inputs.os IN
    /\ inputs.mode = "system" /\ ~FromEnv
    /\ os.kind = "macos" /\ os.socks /\ ~Counts(os[scheme])
    /\ \E other \in Scheme \ {scheme} : Counts(os[other])

(***************************************************************************)
(* Properties.                                                             *)
(***************************************************************************)
\* A configured but unusable proxy fails the connection, it never goes direct
\* silently: a connection goes direct only where nothing is configured for it
\* (upstream_proxy.rs:6-9).  Automatic configuration may say DIRECT.  The one
\* case where the code does otherwise is excepted by its name.
FailsClosed ==
    asked.route = Direct =>
        \/ Exempt(asked.target)
        \/ PastSocks(asked.scheme)
        \/ ~ConfiguredFor(asked.scheme) /\ ~(Automatic /\ inputs.os.script)
        \/ Automatic /\ asked.outcome = Direct

\* However SAIAI's own listener got into the settings it is never used as the
\* upstream proxy, which would loop.
NeverThroughItself == asked.route # Self

\* A request leaves by a route that was configured for it, or not at all.
RoutesAreConfigured == FailsClosed /\ NeverThroughItself
=============================================================================

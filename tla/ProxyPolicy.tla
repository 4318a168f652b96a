----------------------------- MODULE ProxyPolicy -----------------------------
(***************************************************************************)
(* How saiai-cli decides the egress route of a connection                  *)
(* (src/tools/saiai-cli/src/upstream_proxy.rs): the policy made from the   *)
(* upstream_proxy setting, the proxy variables of the service environment  *)
(* and the proxy configuration of the operating system, and the route the  *)
(* policy gives to a target.                                               *)
(*                                                                         *)
(* A proxy as somebody wrote it is a usable http:// proxy, Self (the SAIAI *)
(* listener itself), Bad (an https or SOCKS URL, or no URL at all) or      *)
(* Unset.  A bypass list is the set of the targets it matches.             *)
(***************************************************************************)
EXTENDS Naturals, Sequences

CONSTANTS Proxy, Self, Bad, Unset,
          Target,   \* host and port of a connection
          Loopback, \* the targets on this machine
          Direct,   \* route: no proxy
          Failed    \* no route: the connection fails

ASSUME TargetAssumption == Loopback \subseteq Target

Scheme == {"https", "http"}
Written == Proxy \cup {Self, Bad, Unset}

\* The first proxy that counts: this listener is ignored like an unset one.
Counts(proxy) == proxy \notin {Unset, Self}
FirstOf(own, other) == IF Counts(own) THEN own ELSE IF Counts(other) THEN other ELSE Unset

(***************************************************************************)
(* Policies.  In a static one, Bad is a scheme whose only configured proxy *)
(* is unsupported.                                                         *)
(***************************************************************************)
Static(https, http, bypass) ==
    [kind |-> "static", https |-> https, http |-> http, bypass |-> bypass]
DirectPolicy == [kind |-> "direct"]
Unavailable == [kind |-> "unavailable"]
AutoPolicy(detect, script, fallback) ==
    [kind |-> "auto", detect |-> detect, script |-> script, fallback |-> fallback]

\* ProxyServer has a socks= entry; it serves every scheme without its own.
Socks(os) == \E i \in DOMAIN os.server : os.server[i].scheme = "socks"

\* The ProxyServer and ProxyOverride values of Windows: one bad http, https
\* or scheme-less entry makes all of it unusable.
WindowsStatic(os) ==
    LET Entries(s) == {i \in DOMAIN os.server : os.server[i].scheme = s /\ Counts(os.server[i].proxy)}
        Slot(s) == IF Entries(s) = {} THEN Unset
                   ELSE os.server[CHOOSE i \in Entries(s) : \A j \in Entries(s) : i <= j].proxy
        For(s) == FirstOf(Slot(s), Slot("any"))
        Or(s) == IF For(s) = Unset /\ Socks(os) THEN Bad ELSE For(s)
    IN  IF \/ \E i \in DOMAIN os.server : os.server[i].scheme # "socks" /\ os.server[i].proxy = Bad
           \/ Socks(os) /\ \A s \in Scheme : For(s) = Unset
        THEN Unavailable
        ELSE Static(Or("https"), Or("http"), os.bypass)

WindowsPolicy(os) ==
    LET static == WindowsStatic(os)
    IN  IF static # Unavailable /\ (os.detect \/ os.script)
        THEN AutoPolicy(os.detect, os.script, static)
        ELSE static

\* scutil --proxy.  Automatic configuration is not evaluated.
MacPolicy(os) ==
    LET https == FirstOf(os.https, Unset)
        http == FirstOf(os.http, Unset)
    IN  CASE os.auto -> DirectPolicy
          [] ~os.auto /\ Bad \in {os.https, os.http} -> Unavailable
          [] ~os.auto /\ Bad \notin {os.https, os.http} /\ https = Unset /\ http = Unset ->
                IF os.socks THEN Unavailable ELSE DirectPolicy
          [] OTHER -> Static(https, http, os.bypass)

OsPolicy(os) == CASE os.kind = "none" -> DirectPolicy
                  [] os.kind = "unreadable" -> Unavailable
                  [] os.kind = "windows" -> WindowsPolicy(os)
                  [] os.kind = "macos" -> MacPolicy(os)

\* ALL_PROXY fills a scheme without its own proxy; the system is asked only
\* when the environment names no proxy at all.
SystemPolicy(env, os) ==
    LET https == FirstOf(env.https, env.all)
        http == FirstOf(env.http, env.all)
    IN  IF https = Bad /\ http = Bad THEN Unavailable
        ELSE IF https # Unset \/ http # Unset THEN Static(https, http, env.bypass)
        ELSE OsPolicy(os)

\* The setting: "system", "direct", or one proxy for everything.
PolicyFromInputs(inputs) ==
    CASE inputs.mode = "direct" -> DirectPolicy
      [] inputs.mode = "system" -> SystemPolicy(inputs.env, inputs.os)
      [] inputs.mode \in {Bad, Self} -> Unavailable
      [] OTHER -> Static(inputs.mode, inputs.mode, {})

(***************************************************************************)
(* Routes.                                                                 *)
(***************************************************************************)
StaticRoute(static, scheme, target) ==
    IF target \in static.bypass \/ static[scheme] = Unset THEN Direct
    ELSE IF static[scheme] = Bad THEN Failed
    ELSE static[scheme]

\* What WinHTTP may answer: DIRECT, the first http proxy of its list, no
\* usable one in the list, no configuration found by WPAD, or an error.
Outcome == Proxy \cup {Self, Direct, "noProxy", "notFound", "error"}

\* BUG: a script that cannot be fetched falls back like a failed discovery.
PacDecisionLenient(outcome, script, fallback, scheme, target) ==
    CASE outcome \in Proxy \cup {Direct} -> outcome
      [] outcome \in {"notFound", "error"} -> StaticRoute(fallback, scheme, target)
      [] OTHER -> Failed
PacDecision(outcome, script, fallback, scheme, target) ==
    CASE outcome \in Proxy \cup {Direct} -> outcome
      [] outcome = "notFound" /\ ~script -> StaticRoute(fallback, scheme, target)
      [] OTHER -> Failed

\* One evaluation of an automatic policy; detect is off for a while after
\* discovery found nothing.
PacRoute(policy, detect, scheme, target, outcome) ==
    CASE target \in policy.fallback.bypass -> Direct
      [] target \notin policy.fallback.bypass /\ ~detect /\ ~policy.script ->
            StaticRoute(policy.fallback, scheme, target)
      [] OTHER -> PacDecision(outcome, policy.script, policy.fallback, scheme, target)

\* The route of every policy but an automatic one.
RouteNow(policy, scheme, target) ==
    CASE target \in Loopback \/ policy.kind = "direct" -> Direct
      [] target \notin Loopback /\ policy.kind = "unavailable" -> Failed
      [] OTHER -> StaticRoute(policy, scheme, target)
=============================================================================

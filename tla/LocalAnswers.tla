----------------------------- MODULE LocalAnswers -----------------------------
(***************************************************************************)
(* What the local proxy answers itself                                     *)
(* (src/tools/saiai-cli/src/local_proxy.rs): serve_managed_tls decides for *)
(* every request whether it is forwarded to the Gateway, answered in place *)
(* of the hosted service, or ends the connection.  Codex Desktop is given  *)
(* a synthetic account, at endpoints it asks one after the other: what it  *)
(* was told at one of them, it sends to or compares with another.          *)
(*                                                                         *)
(* A path is its part after /backend-api and whether it had that prefix;   *)
(* one path stands for the many a prefix rule lets through.  Methods are   *)
(* written in upper case.                                                  *)
(***************************************************************************)
EXTENDS Naturals, FiniteSets

CONSTANTS Account,     \* account ids
          Fixture,     \* "fixture-chatgpt-account", "saiai-local-proxy-user"
          Unnamed      \* no account, no user, no identity

LocalAnswersAssumption == Fixture # Unnamed /\ {Fixture, Unnamed} \cap Account = {}

VARIABLES switches, \* [chat, browser]: what the proxy was configured for
          file,     \* desktop/account-id, or Unnamed without one
          login,    \* the account Desktop is logged in to
          sdk,      \* [identity, gates]: what Desktop's Statsig client was told
          request, answer

vars == <<switches, file, login, sdk, request, answer>>

(***************************************************************************)
(* Requests: those that Codex, Desktop and Claude Code make and a few      *)
(* others, each with any method.  A request names the login in its account *)
(* header, in the claims of its token, in both or in neither.              *)
(***************************************************************************)
Method == {"GET", "HEAD", "POST", "PATCH"}
Path(base, name, of) == [base |-> base, name |-> name, of |-> of]
Under(names) == {Path(TRUE, n, Unnamed) : n \in names}
Bare(names) == {Path(FALSE, n, Unnamed) : n \in names}
At(names) == Under(names) \cup Bare(names)

\* normalize_chatgpt_gateway_target.
CodexPaths == Under({"/codex/responses", "/codex/responses/compact", "/codex/models",
                     "/codex/models/one", "/codex/images/generations", "/codex/images/edits"})
\* is_chatgpt_owned_conversation_path: a chat, not the list of them.
OwnedConversations == Under({"/conversation/id", "/conversations/id"})
\* normalize_chatgpt_chat_target.
ChatPaths ==
    Under({"/models", "/devicecheck", "/ios/attestation_challenge", "/f/conversation", "/f/conversation/resume",
           "/conversation/init", "/sentinel/chat-requirements/prepare", "/files",
           "/files/process_upload_stream", "/files/download/id", "/estuary/upload_content_bytes",
           "/estuary/content", "/celsius/ws/user", "/saiai/chat-updates"})
    \cup OwnedConversations
    \cup Bare({"/api/estuary/upload_content_bytes", "/celsius/ws/user"})
Settings == {Path(TRUE, "/accounts/of/settings", a) : a \in Account}
            \cup {Path(FALSE, "/accounts/of/settings", a) : a \in Account}
IdentityReads ==
    At({"/accounts/optimized/check", "/wham/accounts/check", "/accounts/check/v4-2023-04-27",
        "/accounts/verified_access", "/conversations", "/system_hints", "/wham/profiles/me", "/me",
        "/payments/payment_methods", "/settings/user", "/wham/work/settings"}) \cup Settings
WorkSettings == At({"/wham/work/settings"})
Bootstrap == At({"/wham/statsig/bootstrap"})
Initialize == Path(FALSE, "/v1/initialize", Unnamed)
Profile == At({"/profiles/me"})
Tools == Path(TRUE, "/ps/mcp", Unnamed)
Plugins == Under({"/plugins/featured", "/ps/plugins/home", "/ps/plugins/suggested/codex", "/ps/plugins/list"})
           \cup Bare({"/ps/plugins/home"})
Notifications == At({"/notifications/settings"})
Counters == Bare({"/ces/statsc/flush", "/otlp/v1/metrics"})
Telemetry == Counters \cup Bare({"/ces/v1/rgstr", "/ces/v1/telemetry/intake"})
\* Of the other paths, those of a hosted API and those of nobody.
Control == Under({"/elsewhere"}) \cup Bare({"/wham/tasks", "/accounts/elsewhere", "/beacons/home", "/automations"})
Unserved == Bare({"/elsewhere"})
\* Everything under /backend-api, and some families of relative paths.
Hosted == {p \in Control \cup IdentityReads \cup Bootstrap \cup Profile \cup {Tools} :
              p.base \/ p \in Control
              \/ p.name \notin {"/conversations", "/system_hints", "/payments/payment_methods", "/profiles/me"}}
DesktopPaths == CodexPaths \cup ChatPaths \cup IdentityReads \cup Bootstrap \cup {Initialize, Tools} \cup Profile
                \cup Plugins \cup Notifications \cup Telemetry \cup Control \cup Unserved

OpenAIForwarded == Bare({"/v1/responses", "/v1/responses/compact", "/v1/models", "/v1/models/one",
                         "/v1/codex/images/generations", "/v1/codex/images/edits"})
ClaudeForwarded == Bare({"/v1/messages", "/v1/messages/count_tokens", "/v1/models", "/v1/models/one"})
WebDomain == Path(FALSE, "/api/web/domain_info", Unnamed)
Hello == Path(FALSE, "/api/hello", Unnamed)
ClaudeConstants == Bare({"/api/claude_code/policy_limits", "/v1/mcp_servers", "/api/oauth/profile"})
ClaudeControl == {WebDomain, Hello} \cup ClaudeConstants
                 \cup Bare({"/api/claude_code/settings", "/api/event_logging/batch", "/api/eval/one",
                           "/api/claude_cli/bootstrap"})

\* "big" is over DESKTOP_STATSIG_MAX_REQUEST_BYTES; "identity" is readable and
\* has the identity that the Statsig client holds.
Bodies(host, path) ==
    IF host = "chatgpt" /\ path \in Bootstrap \cup {Initialize, Tools}
    THEN {"identity", "unreadable", "big"} ELSE {"unreadable"}
Carried(path) == IF path \in IdentityReads \cup Bootstrap
                 THEN SUBSET {"header", "claim"} ELSE {{"header", "claim"}}
Ask(host, paths) ==
    UNION {{r \in [host : {host}, path : {p}, method : Method, upgrade : BOOLEAN,
                   body : Bodies(host, p), carries : Carried(p)] : r.upgrade => r.method = "GET"} : p \in paths}
Requests == Ask("chatgpt", DesktopPaths)
            \cup Ask("openai", OpenAIForwarded \cup Unserved)
            \cup Ask("anthropic", ClaudeForwarded \cup ClaudeControl \cup Unserved)

(***************************************************************************)
(* Answers.                                                                *)
(***************************************************************************)
\* An identity is [account, user].
NoIdentity == [account |-> Unnamed, user |-> Unnamed]
Answer(way, status) == [way |-> way, status |-> status, identity |-> NoIdentity, gates |-> FALSE]
Local(status) == Answer("local", status)
Gateway == Answer("gateway", 0)
Ended == Answer("ended", 0)
Passed == Answer("passed on", 0)  \* the next function that may answer is asked
Silent == Answer("none", 0)

\* The header, oauth_claim_account_id, desktop_account_id_fallback.
AccountOf(r) ==
    IF r.carries # {} THEN login ELSE IF file # Unnamed THEN file ELSE Fixture
UserIn(r) == IF "claim" \in r.carries THEN login ELSE Fixture
IdentityOf(r) == [account |-> AccountOf(r), user |-> UserIn(r)]
Named(r) == [Local(200) EXCEPT !.identity = IdentityOf(r)]
Evaluated(identity) == [Local(200) EXCEPT !.identity = identity, !.gates = switches.browser]

\* Which of the identity endpoints say who it is.
Naming == At({"/accounts/optimized/check", "/wham/accounts/check", "/accounts/check/v4-2023-04-27", "/me"})

\* BUG: only the paths under /backend-api are endpoints of the identity.
RefusesWriteUnderBase(r) == r.path \in IdentityReads /\ r.path.base /\ r.method # "GET"
RefusesWrite(r) == r.path \in IdentityReads /\ r.method # "GET"

ToolsAnswer(r) ==
    IF r.method # "POST" THEN Local(501) ELSE IF r.body = "unreadable" THEN Passed ELSE Local(200)
BootstrapAnswer(r) ==
    IF r.method \notin {"GET", "POST"} THEN Local(501)
    ELSE IF r.body = "big" THEN Local(413) ELSE Evaluated(IdentityOf(r))
\* An evaluation has the user that was sent, not the one of the login.
InitializeAnswer(r) ==
    IF r.method = "POST" /\ r.body = "identity" /\ sdk.identity # NoIdentity THEN Evaluated(sdk.identity) ELSE Passed
\* chatgpt_account_sidecar_response_with after the check of writes.
IdentityAnswer(r) ==
    LET p == r.path IN
    CASE p \in Settings -> IF p.of = AccountOf(r) THEN Named(r) ELSE Passed
      [] p \in WorkSettings -> IF switches.browser THEN Local(200) ELSE Passed
      [] p \in Naming -> Named(r)
      [] p \in IdentityReads \ (Settings \cup WorkSettings \cup Naming) -> Local(200)
      [] p \in Profile -> IF r.method = "GET" THEN Local(200) ELSE Local(501)
      [] p = Tools -> ToolsAnswer(r)
      [] p \in Bootstrap -> BootstrapAnswer(r)
      [] p = Initialize -> InitializeAnswer(r)
      [] OTHER -> Passed
AccountAnswer(r) == IF RefusesWrite(r) THEN Local(501) ELSE IdentityAnswer(r)

\* chatgpt_sidecar_response_with: constant answers, or that a hosted API is
\* not available.
ConstantAnswer(r) ==
    LET p == r.path IN
    CASE p \in Plugins \cup Notifications -> IF r.method = "GET" THEN Local(200) ELSE Local(501)
      [] p = Initialize -> IF r.method # "POST" THEN Local(405) ELSE
                           IF r.body = "big" THEN Local(413) ELSE [Local(200) EXCEPT !.gates = switches.browser]
      [] p \in Counters -> IF r.method = "POST" THEN Local(200) ELSE Passed
      [] p \in Telemetry \ Counters -> Local(204)
      [] p \in Hosted -> Local(501)
      [] OTHER -> Passed

FirstOf(a, b) == IF a = Passed THEN b ELSE a

\* The ChatGPT hosts.  A path that nobody answers ends the connection.
ChatGPTAnswer(r) ==
    CASE r.path \in CodexPaths -> Gateway
      [] r.path \in ChatPaths -> IF switches.chat THEN Gateway ELSE Local(501)
      [] OTHER -> FirstOf(FirstOf(AccountAnswer(r), ConstantAnswer(r)), Ended)

\* The OpenAI API host; serve_openai_websocket takes any path.
OpenAIAnswer(r) == IF r.upgrade \/ r.path \in OpenAIForwarded THEN Gateway ELSE Local(204)

\* local_sidecar_response, and 204 for what is neither answered nor forwarded.
ClaudeAnswer(r) ==
    CASE r.path = WebDomain -> IF r.method = "GET" THEN Local(200) ELSE Local(204)
      [] r.path = Hello -> IF r.method \in {"GET", "HEAD"} THEN Local(200) ELSE Local(204)
      [] r.path \in ClaudeConstants -> Local(200)
      [] r.path \in ClaudeForwarded -> Gateway
      [] OTHER -> Local(204)

Answered(r) ==
    CASE r.host = "chatgpt" -> ChatGPTAnswer(r)
      [] r.host = "openai" -> OpenAIAnswer(r)
      [] r.host = "anthropic" -> ClaudeAnswer(r)

(***************************************************************************)
(* A Desktop asks and is answered.                                         *)
(***************************************************************************)
NoRequest == [host |-> "none", path |-> Path(FALSE, "", Unnamed), method |-> "GET", upgrade |-> FALSE,
              body |-> "unreadable", carries |-> {}]
Untold == [identity |-> NoIdentity, gates |-> FALSE]

TypeOK == /\ switches \in [chat : BOOLEAN, browser : BOOLEAN]
          /\ file \in Account \cup {Unnamed} /\ login \in Account
          /\ request \in Requests \cup {NoRequest}
          /\ answer.way \in {"none", "local", "gateway", "ended"}

Init == /\ switches \in [chat : BOOLEAN, browser : BOOLEAN]
        /\ file = Unnamed /\ login \in Account
        /\ sdk = Untold /\ request = NoRequest /\ answer = Silent

Send == /\ request = NoRequest
        /\ request' \in Requests
        /\ UNCHANGED <<switches, file, login, sdk, answer>>
\* The Statsig client takes the answer of a bootstrap or of an evaluation.
Reply == /\ request # NoRequest /\ answer = Silent
         /\ answer' = Answered(request)
         /\ sdk' = IF /\ request.path \in Bootstrap \cup {Initialize}
                      /\ answer'.status = 200 /\ answer'.identity # NoIdentity
                   THEN [identity |-> answer'.identity, gates |-> answer'.gates] ELSE sdk
         /\ UNCHANGED <<switches, file, login, request>>
Take == /\ answer # Silent
        /\ request' = NoRequest /\ answer' = Silent
        /\ UNCHANGED <<switches, file, login, sdk>>
\* write_desktop_account_id: an isolated Desktop was launched, perhaps with
\* another login.
WriteAccountFile == /\ request = NoRequest /\ file' \in Account
                    /\ UNCHANGED <<switches, login, sdk, request, answer>>

Next == Send \/ Reply \/ Take \/ WriteAccountFile
Spec == Init /\ [][Next]_vars

(***************************************************************************)
(* Properties.                                                             *)
(***************************************************************************)
IsAnswered == answer # Silent
OtherSpelling(r) == [r EXCEPT !.path.base = ~@]
\* An endpoint of the synthetic identity, whatever the method: a read of it is
\* answered by the account's sidecar.
OfIdentity(r) == /\ r.host = "chatgpt"
                 /\ r.path \notin {Initialize, Tools}
                 /\ AccountAnswer([r EXCEPT !.method = "GET"]).status = 200

\* "A write must never receive a synthetic success or be sent to a pooled
\* account" (local_proxy.rs, chatgpt_account_sidecar_response_with), in either
\* spelling of the path; the bootstrap that Desktop posts changes nothing.
WritesAreRefused ==
    IsAnswered /\ OfIdentity(request) =>
        /\ answer.way = "local"
        /\ request.method # "GET" /\ request.path \notin Bootstrap => answer.status = 501

\* Whatever names the login, and however the path is spelled, the Desktop
\* finds one account, which is its own; the settings of another are refused.
OneAccount ==
    IsAnswered /\ request.host = "chatgpt" /\ request.carries # {} =>
        /\ request.path # Initialize => answer.identity.account \in {login, Unnamed}
        /\ request.path \in Settings /\ answer.status = 200 => request.path.of = login
        /\ request.path \in IdentityReads \cup Bootstrap \cup Profile /\ request.method = "GET" /\ answer.status = 200 =>
              Answered(OtherSpelling(request)) = answer

\* An evaluation has the identity that the bootstrap gave, and the feature
\* gates agree with the Work settings that Desktop reads before it uses them:
\* otherwise Desktop waits for ever, or refuses what it was offered.
EvaluationsAgree ==
    /\ IsAnswered /\ request.path = Initialize /\ request.body = "identity"
          /\ request.method = "POST" /\ sdk.identity # NoIdentity => answer.identity = sdk.identity
    /\ sdk.identity # NoIdentity => sdk.gates = switches.browser
    /\ IsAnswered /\ request.path.name = "/wham/work/settings" /\ request.method = "GET"
          /\ sdk.identity # NoIdentity => (answer.status = 200 <=> sdk.gates)

\* Of the hosts' APIs only the business paths reach the Gateway, and those of
\* Chat only where it is switched on.
OnlyBusinessLeaves ==
    answer.way = "gateway" =>
        /\ request.path \notin Telemetry \cup Plugins \cup Notifications \cup Control \cup ClaudeControl
        /\ request.host = "chatgpt" /\ ~switches.chat => request.path \in CodexPaths

AnswersAreItsOwn == WritesAreRefused /\ OneAccount /\ EvaluationsAgree /\ OnlyBusinessLeaves
=============================================================================

------------------------------- MODULE ChatInit -------------------------------
(***************************************************************************)
(* The first request of a new chat through the local proxy                 *)
(* (src/tools/saiai-cli/src/local_proxy.rs, write_chat_init_response).     *)
(* Its answer names the default model of the account that the Gateway      *)
(* lends, which would replace the model the user chose last.  If there is  *)
(* such a choice in Desktop's state file, the answer is held back and      *)
(* passed on without the defaults; an answer that is too long to be held   *)
(* goes on as it is.                                                       *)
(***************************************************************************)
EXTENDS Naturals

CONSTANTS HoldLimit, \* parts of MAX_CHAT_INIT_RESPONSE_BYTES
          MaxParts   \* bound: parts of an answer

ChatInitAssumption == HoldLimit \in Nat /\ MaxParts \in Nat

VARIABLES chosen,  \* the state file has a usable choice of the user's
          opening, \* [chat, fresh]: whether Chat is passed through, and a new chat is opened
          reply,   \* [json, content, parts]: what the Gateway answers
          hold,    \* [pc, restore, parts]: the proxy
          seen     \* [parts, adjusted, end]: what the client gets

vars == <<chosen, opening, reply, hold, seen>>

TypeOK == /\ chosen \in BOOLEAN
          /\ opening \in [chat : BOOLEAN, fresh : BOOLEAN]
          /\ reply \in [json : BOOLEAN, content : {"defaults", "limits", "neither"}, parts : 0 .. MaxParts]
          /\ hold \in [pc : {"idle", "asked", "holding", "streaming", "done"}, restore : BOOLEAN,
                       parts : 0 .. HoldLimit]
          /\ seen \in [parts : 0 .. MaxParts, adjusted : BOOLEAN, end : {"open", "complete", "broken"}]

Init == /\ chosen \in BOOLEAN /\ opening \in [chat : BOOLEAN, fresh : BOOLEAN]
        /\ reply = [json |-> FALSE, content |-> "neither", parts |-> 0]
        /\ hold = [pc |-> "idle", restore |-> FALSE, parts |-> 0]
        /\ seen = [parts |-> 0, adjusted |-> FALSE, end |-> "open"]

\* The user chooses a model, or "auto".
Choose == chosen' = ~chosen /\ UNCHANGED <<opening, reply, hold, seen>>

\* is_fresh_chat_init, saved_chat_model_at: decided before the request is sent.
Ask == /\ hold.pc = "idle"
       /\ hold' = [hold EXCEPT !.pc = "asked", !.restore = opening.chat /\ opening.fresh /\ chosen]
       /\ UNCHANGED <<chosen, opening, reply, seen>>
\* json: 200, application/json and not encoded.
Answer(json, content) ==
    /\ hold.pc = "asked"
    /\ reply' = [json |-> json, content |-> content, parts |-> 0]
    /\ hold' = [hold EXCEPT !.pc = IF hold.restore /\ json THEN "holding" ELSE "streaming"]
    /\ UNCHANGED <<chosen, opening, seen>>

\* The parts that were held, and this one.
Released(held) == held + 1
Part == /\ reply.parts < MaxParts
        /\ reply' = [reply EXCEPT !.parts = @ + 1]
        /\ \/ /\ hold.pc = "holding" /\ hold.parts < HoldLimit
              /\ hold' = [hold EXCEPT !.parts = @ + 1] /\ UNCHANGED seen
           \/ /\ hold.pc = "holding" /\ hold.parts = HoldLimit
              /\ seen' = [seen EXCEPT !.parts = Released(hold.parts)]
              /\ hold' = [hold EXCEPT !.pc = "streaming", !.parts = 0]
           \/ /\ hold.pc = "streaming"
              /\ seen' = [seen EXCEPT !.parts = @ + 1] /\ UNCHANGED hold
        /\ UNCHANGED <<chosen, opening>>

\* without_account_chat_defaults: not if the account's model was replaced
\* because of a quota.
Adjusts == reply.content = "defaults"
End == /\ hold.pc \in {"holding", "streaming"}
       /\ hold' = [hold EXCEPT !.pc = "done", !.parts = 0]
       /\ seen' = IF hold.pc = "streaming" THEN [seen EXCEPT !.end = "complete"]
                  ELSE [parts |-> hold.parts, adjusted |-> Adjusts, end |-> "complete"]
       /\ UNCHANGED <<chosen, opening, reply>>
\* The answer, or its last part, never comes: the connection is closed.
Break == /\ hold.pc \in {"asked", "holding", "streaming"}
         /\ hold' = [hold EXCEPT !.pc = "done", !.parts = 0]
         /\ seen' = [seen EXCEPT !.end = "broken"]
         /\ UNCHANGED <<chosen, opening, reply>>

Next == \/ Choose \/ Ask \/ Part \/ End \/ Break
        \/ \E json \in BOOLEAN, content \in {"defaults", "limits", "neither"} : Answer(json, content)
Spec == Init /\ [][Next]_vars

\* What the client takes for the answer has all its parts, held back or not,
\* and lacks the account's defaults only in place of a choice the user had
\* when the chat was opened, and then always, unless it was too long.
ChoiceIsRestored ==
    seen.end = "complete" =>
        /\ seen.parts = reply.parts
        /\ seen.adjusted <=> /\ hold.restore /\ reply.json /\ reply.content = "defaults"
                             /\ reply.parts <= HoldLimit
=============================================================================

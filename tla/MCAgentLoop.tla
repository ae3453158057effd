---------------------------- MODULE MCAgentLoop ----------------------------
(***************************************************************************)
(* The agent loop with a history variable, for the model checker: what had *)
(* been done when the cancellation signal was set.                         *)
(***************************************************************************)
EXTENDS AgentLoop

VARIABLE atCancel  \* work done when "cancelled" became true

AssistantMessages == {i \in DOMAIN log : log[i].type = "assistant_message"}

WorkDone == Cardinality(executed) + Cardinality(AssistantMessages)

MCInit == Init /\ atCancel = 0

MCNext ==
  /\ Next
  /\ atCancel' = IF cancelled THEN atCancel ELSE WorkDone'

MCSpec == MCInit /\ [][MCNext]_<<vars, atCancel>>

(* Cancellation is cooperative, but prompt: after the signal at most the   *)
(* one thing under way is finished, either the model's answer that was     *)
(* requested or the tool that was being decided, never both and never a    *)
(* second one.                                                             *)
AtMostOneMoreAction == cancelled => WorkDone =< atCancel + 1
=============================================================================

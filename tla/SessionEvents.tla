--------------------------- MODULE SessionEvents ---------------------------
(***************************************************************************)
(* The vocabulary shared by every module of the project: the names of the  *)
(* canonical events a session records, the states of the runtime and the   *)
(* statuses of a tool result (models.py), and the part of an event that    *)
(* the properties tell apart (events.py, PendingEvent).                    *)
(***************************************************************************)
EXTENDS Naturals

EventTypes ==
  {"session_start", "agent_start", "user_message", "assistant_message",
   "tool_call", "policy_decision", "approval_request", "tool_result",
   "compaction", "retry", "turn_end", "error", "agent_end", "session_end"}

TerminalStates == {"LIMIT_REACHED", "INTERRUPTED", "FAILED"}

RuntimeStates ==
  {"RUNNING", "WAITING_FOR_APPROVAL", "COMPLETED_TURN"} \cup TerminalStates

ToolResultStatuses ==
  {"success", "error", "denied", "invalid", "cancelled", "timeout"}

(***************************************************************************)
(* An event keeps its type, the correlation it belongs to and one word of  *)
(* its payload (a state, a decision, a status).  Correlation IDs are drawn *)
(* in order, so they are the numbers 1, 2, ...; the "call" of a tool event *)
(* is its correlation, the "call" of an assistant_message is the last      *)
(* correlation declared so far, and 0 stands for none.                     *)
(***************************************************************************)
Event(type, call, info) == [type |-> type, call |-> call, info |-> info]

Infos ==
  RuntimeStates \cup ToolResultStatuses
    \cup {"text", "empty", "tools", "declared", "allow", "deny", "ask",
          "failed", "recoverable", "context_overflow"}

Events == [type : EventTypes, call : Nat, info : Infos]

(***************************************************************************)
(* A message of the model's context: its role, the correlation it answers  *)
(* or declares, and the sequence of the event it projects.                 *)
(***************************************************************************)
Message(role, call, sequence) ==
  [role |-> role, call |-> call, sequence |-> sequence]

Roles == {"user", "assistant", "tool", "system"}

Messages == [role : Roles, call : Nat, sequence : Nat]
=============================================================================

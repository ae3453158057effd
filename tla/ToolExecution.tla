---------------------------- MODULE ToolExecution ----------------------------
(***************************************************************************)
(* One tool call after the other through ToolExecutor.execute: the         *)
(* validation by the tool registry, the decision of the execution policy,  *)
(* the approval, the built-in tool and the local environment it works on,  *)
(* and the projections of the result that is recorded and shown.           *)
(*                                                                         *)
(* The approval mode is changed by another thread (SetApprovalMode) while  *)
(* calls are decided.  What the event publisher may refuse is part of      *)
(* AgentLoop; here every event is recorded.                                *)
(***************************************************************************)
EXTENDS LocalEnvironment

CONSTANTS
  MaxCalls,      \* bound: calls made
  TextSizes,     \* bound: lengths a text may have, in characters
  ResultLimit    \* model_output_limit, in characters

ASSUME ExecutionAssumption ==
  /\ MaxCalls \in Nat /\ ResultLimit \in Nat
  /\ TextSizes \subseteq Nat /\ TextSizes # {}

Modes == {"ask", "auto", "deny"}

(* What is wrong with a call: an identifier, a name or arguments that the  *)
(* schema refuses; a validator that raises; a path the policy refuses.     *)
Faults == {"none", "malformed", "validator", "unsafe"}

VARIABLES
  call,         \* number of the call under way, or of the last one
  pc,           \* control point of execute
  fault,        \* what is wrong with the call
  mode,         \* approval_mode of the policy
  interactive,  \* there is a user who can be asked
  result,       \* result of the call
  journal,      \* the events recorded
  shown,        \* the tool messages of the conversation
  consent,      \* calls a user approved, or decided in automatic mode
  effects       \* calls that changed the workspace or started a command

execution == <<call, pc, fault, result, journal, shown>>
toolVars  == <<execution, mode, interactive, consent, effects, envVars>>

(* A result: the characters of its text, original_length, truncated. *)
ToolResult(status, text, full, cut) ==
  [status |-> status, text |-> text, full |-> full, cut |-> cut]

ExecutionInit ==
  /\ EnvironmentInit
  /\ call = 0 /\ pc = "idle" /\ fault = "none"
  /\ result = ToolResult("none", 0, 0, FALSE)
  /\ mode \in Modes /\ interactive \in BOOLEAN
  /\ journal = <<>> /\ shown = <<>> /\ consent = {} /\ effects = {}

-----------------------------------------------------------------------------
(* What of a result the model may see: a text of ResultLimit characters.   *)
Bounded(r, full) ==
  IF r.text =< ResultLimit THEN r
  ELSE ToolResult(r.status, ResultLimit, full, TRUE)

(* Mutant of Project: a text that is short enough counts as a whole one. *)
ProjectAnew(r) == [Bounded(r, r.text) EXCEPT !.cut = r.text > ResultLimit]

(* project_tool_result: what is too long is cut, and says so.  The greater *)
(* of two lengths is reported, whatever their units.                       *)
Project(r) == Bounded(r, IF r.full > r.text THEN r.full ELSE r.text)

Message(status, text) == ToolResult(status, text, 0, FALSE)

Recorded(e) == journal' = Append(journal, e)

PolicyEvent(requested, decision) ==
  [kind |-> "policy_decision", call |-> call, requested |-> requested,
   decision |-> decision]

(* The call is refused: the decision is recorded, and the result waits. *)
Deny(requested, status) ==
  /\ Recorded(PolicyEvent(requested, "deny"))
  /\ \E text \in TextSizes : result' = Project(Message(status, text))
  /\ pc' = "publish"

(* It is allowed: the registry hands it to the tool. *)
Allow(requested) ==
  /\ Recorded(PolicyEvent(requested, "allow"))
  /\ pc' = "run" /\ UNCHANGED result

(* The loop makes the next call unless it is to stop; while the tools are  *)
(* at rest the operation of the call is only named.                        *)
BeginCall ==
  /\ pc = "idle" /\ call < MaxCalls /\ ~cancelled
  /\ call' = call + 1 /\ pc' = "validate"
  /\ op' \in Operations /\ fault' \in Faults
  /\ Recorded([kind |-> "tool_call", call |-> call + 1])
  /\ UNCHANGED <<result, shown, mode, interactive, consent, effects, at,
                 reply, files, cancelled, closer, polling, processes>>

(* registry.validate, after the provider's identifier and the name. *)
Malformed == fault = "malformed"

Validate ==
  /\ pc = "validate"
  /\ \/ Malformed /\ Deny("deny", "invalid")
     \/ fault = "validator" /\ Deny("deny", "error")
     \/ /\ ~Malformed /\ fault # "validator" /\ pc' = "decide"
        /\ UNCHANGED <<journal, result>>
  /\ UNCHANGED <<call, fault, shown, mode, interactive, consent, effects,
                 envVars>>

(* A path that is absolute or goes up, or an argument with a NUL. *)
Unsafe == fault = "unsafe"

DecideSideEffect ==
  CASE mode = "auto" -> "allow"
    [] mode = "deny" \/ (mode = "ask" /\ ~interactive) -> "deny"
    [] OTHER -> "ask"

(* Mutant of Decision: edits within the workspace count as reading. *)
DecisionTrustingEdits ==
  CASE Unsafe -> "deny"
    [] ~Unsafe /\ op \in SideEffects \ {"edit"} -> DecideSideEffect
    [] OTHER -> "allow"

Decision ==
  CASE Unsafe -> "deny"
    [] ~Unsafe /\ op \in SideEffects -> DecideSideEffect
    [] OTHER -> "allow"

(* A policy that raises is one that denies. *)
Decide ==
  /\ pc = "decide"
  /\ \/ Decision = "allow" /\ Allow("allow")
     \/ Decision = "deny"  /\ Deny("deny", "denied")
     \/ Decision = "ask"   /\ pc' = "approval" /\ UNCHANGED <<journal, result>>
     \/ Deny("deny", "denied")
  /\ consent' = IF Decision = "allow" /\ mode = "auto"
                THEN consent \union {call} ELSE consent
  /\ UNCHANGED <<call, fault, shown, mode, interactive, effects, envVars>>

(* What comes of the answer of the approval port, which may also raise. *)
Answer(a) ==
  IF a = "approved" THEN Allow("ask") ELSE Deny("ask", "denied")

Approval ==
  /\ pc = "approval"
  /\ \E a \in {"approved", "rejected", "failed"} :
       /\ Answer(a)
       /\ consent' = IF a = "approved" THEN consent \union {call} ELSE consent
  /\ UNCHANGED <<call, fault, shown, mode, interactive, effects, envVars>>

(* The tool calls the operation of the environment ... *)
RunTool ==
  /\ pc = "run" /\ pc' = "running" /\ Call(op)
  /\ UNCHANGED <<call, fault, result, journal, shown, mode, interactive,
                 consent, effects>>

(* ... and makes a text of what it returns.  The text is a message when    *)
(* there is nothing else, and in place of what a list or a search had      *)
(* found until it failed or was cancelled.                                 *)
ShowsMessage(r) ==
  \/ r.full = 0 \/ (r.cut /\ OutputLimit = 0)
  \/ r.status # "success" /\ op # "command"

(* The texts of what is cut.  A file and a command are cut to bytes, and a *)
(* newline may join the streams of a command.                              *)
CutTexts ==
  CASE op \in FileOperations -> {t \in TextSizes : t =< OutputLimit}
    [] op = "command"        -> {t \in TextSizes : t =< OutputLimit + 1}
    [] OTHER                 -> TextSizes

(* The texts of all of n: the characters of a file; entries or matches,    *)
(* one to a line; n bytes of a command.                                    *)
WholeTexts(n) ==
  CASE op \in FileOperations -> {n}
    [] op = "command"        -> {t \in TextSizes : t =< n + 1 /\ n =< 4 * t}
    [] OTHER                 -> {t \in TextSizes : t >= 2 * n - 1}

Texts(r) ==
  CASE ShowsMessage(r)             -> TextSizes
    [] ~ShowsMessage(r) /\ r.cut  -> CutTexts
    [] ~ShowsMessage(r) /\ ~r.cut -> WholeTexts(r.full)

ToolReturns ==
  /\ pc = "running" /\ at = "idle" /\ pc' = "publish"
  /\ \E text \in Texts(reply) :
       result' = Project(ToolResult(reply.status, text, reply.full, reply.cut))
  /\ UNCHANGED <<call, fault, journal, shown, mode, interactive, consent,
                 effects, envVars>>

(* _result_event, and the tool message of the loop. *)
Publish ==
  /\ pc = "publish" /\ pc' = "idle"
  /\ Recorded([kind |-> "tool_result", call |-> call,
               result |-> Project(result)])
  /\ shown' = Append(shown, Project(result))
  /\ UNCHANGED <<call, fault, result, mode, interactive, consent, effects,
                 envVars>>

(* SetApprovalMode: the mode of the decisions to come. *)
SetMode ==
  /\ mode' \in Modes \ {mode}
  /\ UNCHANGED <<execution, interactive, consent, effects, envVars>>

Environment ==
  /\ OperationStep
  /\ effects' = IF touched' THEN effects \union {call} ELSE effects
  /\ UNCHANGED <<execution, mode, interactive, consent>>

Surroundings ==
  /\ Close \/ FinishClose \/ WorldStep
  /\ UNCHANGED <<execution, mode, interactive, consent, effects>>

Execute ==
  \/ BeginCall \/ Validate \/ Decide \/ Approval \/ RunTool \/ ToolReturns
  \/ Publish \/ Environment

Next == Execute \/ SetMode \/ Surroundings

(* The thread of the loop runs on, a close() once begun does, and          *)
(* deadlines pass.  Processes may run for ever, users may never answer.    *)
Rest == UNCHANGED <<execution, mode, interactive, consent, effects>>

Fairness ==
  /\ WF_toolVars(RunTool \/ Environment \/ ToolReturns)
  /\ WF_toolVars(FinishClose /\ Rest)
  /\ WF_toolVars(Expire /\ Rest)

ToolSpec == ExecutionInit /\ [][Next]_toolVars /\ Fairness

-----------------------------------------------------------------------------
ExecutionTypeOK ==
  /\ call \in 0 .. MaxCalls /\ fault \in Faults
  /\ pc \in {"idle", "validate", "decide", "approval", "run", "running",
             "publish"}
  /\ mode \in Modes /\ interactive \in BOOLEAN
  /\ consent \subseteq 1 .. call /\ effects \subseteq 1 .. call
  /\ op \in Operations /\ file \in {"old", "torn", "new"}
  /\ reply.status \in Statuses \union {"none"}

(* The log says that call c may be executed. *)
Permitted(c) ==
  \E i \in DOMAIN journal :
    /\ journal[i].kind = "policy_decision" /\ journal[i].call = c
    /\ journal[i].decision = "allow"

(* Whatever the threads do, a call that changed a file or started a        *)
(* command was allowed, on record and before, and either the user had      *)
(* approved this very call or the mode was automatic when it was decided   *)
(* (executor.py, execute; policy.py, _decide_side_effect).                 *)
EffectsConsented ==
  \A c \in effects : c \in consent /\ Permitted(c)

(* A result tells what became of the workspace: the file holds the new     *)
(* text exactly after a success; a call that was denied, invalid or        *)
(* cancelled before it began to write has left it alone; only an error may *)
(* leave it torn (local.py, write_file and edit_file).                     *)
ResultTellsFile ==
  pc = "publish" =>
    /\ result.status \in {"denied", "invalid"} => call \notin effects
    /\ op \in {"write", "edit"} /\ call \in effects =>
         CASE file = "new"  -> result.status = "success"
           [] file = "torn" -> result.status = "error"
           [] OTHER         -> FALSE

(* The places of the results in the log. *)
Results == {i \in DOMAIN journal : journal[i].kind = "tool_result"}

(* Every result is within the limit.  One of a permitted call that is not  *)
(* reported as truncated holds the whole text, and the count, of what the  *)
(* environment returned uncut -- for a list or a search that failed or was *)
(* cancelled, its message; one that is so reported was cut on the way, and *)
(* gives no smaller a length than what the environment counted.  The log   *)
(* holds what the model was shown, call by call and in the same order,     *)
(* although each projects the result anew (builtins.py, _result_text;      *)
(* output.py, from_result; executor.py, _normalize_result and              *)
(* _result_event).                                                         *)
TruncationReported ==
  /\ result.text =< ResultLimit
  /\ pc \in {"publish", "idle"} /\ Permitted(call) =>
       /\ ~result.cut => /\ ~reply.cut /\ result.full = reply.full
                         /\ result.text \in Texts(reply)
       /\ result.cut => reply.cut \/ result.text = ResultLimit
       /\ result.full >= reply.full
  /\ pc = "idle" /\ call > 0 => Len(shown) = call /\ shown[call] = result
  /\ \A c \in DOMAIN shown : \E i \in Results :
       journal[i].call = c /\ journal[i].result = shown[c]
  /\ \A i \in Results : journal[i].call \in DOMAIN shown
  /\ \A i, j \in Results : i < j => journal[i].call < journal[j].call

(* What the documentation of the projection says: original_length remains  *)
(* authoritative (tools/output.py, head_tail_truncate), so that an output  *)
(* which the environment cut is reported with the length it had there.     *)
LengthAuthoritative ==
  pc \in {"publish", "idle"} /\ Permitted(call) /\ reply.cut =>
    result.full = reply.full

(* A command that was stopped by its deadline or by a cancellation has not *)
(* left a descendant of its group behind that SIGTERM would have ended,    *)
(* even when its leader was gone already (local.py, _terminate_process;    *)
(* the tests of local.py call it reaping).                                 *)
StoppedGroupGone ==
  at = "idle" /\ stopped # "none" =>
    leader = "exited" /\ child \notin {"quiet", "piped"}

(* Every operation returns: a command is ended by its deadline, a search   *)
(* and a command by a cancellation or by close -- unless a background      *)
(* process that SIGTERM does not reach holds the output open (local.py,    *)
(* _communicate_process).                                                  *)
HeldOpen == child \in {"stubborn", "detached"}

OperationReturns ==
  (pc = "running" /\ (op = "search" => Cancelled))
    ~> (pc # "running" \/ HeldOpen)

(* The same without the exception, which is what the documentation says of *)
(* commands: a single execution is bounded by its timeout (FR-15, AC-14).  *)
TimeoutEndsCommand == (pc = "running" /\ expired) ~> at = "idle"

=============================================================================

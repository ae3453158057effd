----------------------------- MODULE AgentLoop -----------------------------
(***************************************************************************)
(* One agent session: the synchronous loop of agent_loop.py (run_turn and  *)
(* close) together with the tool executor it drives (executor.py, execute  *)
(* and skip) and the Store-first emitter both publish through (events.py). *)
(*                                                                         *)
(* The loop is one thread.  "pc" is its control point, and every action    *)
(* below publishes at most one event, so that another thread can cancel,   *)
(* the deadline can pass and the store can fail between any two events.    *)
(* What the model leaves out is data: texts, arguments, token counts; what *)
(* the model client, the policy, the approval port and the tools answer is *)
(* a choice.                                                               *)
(***************************************************************************)
EXTENDS SessionEvents, Sequences, FiniteSets

CONSTANTS
  MaxSteps,             \* BudgetTracker.max_steps
  MaxToolCalls,         \* BudgetTracker.max_tool_calls
  MaxProtocolErrors,    \* BudgetTracker.max_protocol_errors
  MaxCompactions,       \* AgentLoop.max_compactions_per_request
  MaxCallsPerResponse,  \* bound: tool calls in one assistant response
  MaxTurns,             \* bound: calls of run_turn
  StoreMayFail          \* whether an append to the store may fail

ASSUME LoopAssumption ==
  /\ MaxSteps \in Nat /\ MaxToolCalls \in Nat /\ MaxProtocolErrors \in Nat
  /\ MaxCompactions \in Nat \ {0}
  /\ MaxCallsPerResponse \in Nat /\ MaxTurns \in Nat
  /\ StoreMayFail \in BOOLEAN

VARIABLES
  pc,              \* control point of run_turn/close
  exit,            \* why the current turn is being ended, or "none"
  state,           \* AgentLoop.state
  turnActive,      \* _turn_active
  sessionStarted,  \* _session_started
  sessionClosed,   \* _session_closed
  envStarted,      \* _environment_started
  turns,           \* number of run_turn calls so far
  modelSteps, toolCalls, protocolErrors,  \* BudgetTracker counters
  expired,         \* budget.clock() >= budget.deadline
  cancelled,       \* CancellationSignal.is_cancelled
  log,             \* the events the store has made durable
  storeFailed,     \* the store refuses every further append
  context,         \* ContextState.recent_messages with their sequences
  issued,          \* correlations issued: 1 .. issued
  head,            \* pending_plans = head .. issued
  executed,        \* correlations whose tool was dispatched
  outcome,         \* result and exception of the call being executed
  reply,           \* kind of the last assistant response
  forced,          \* the request is the one retried after an overflow
  attempts         \* compactions made for the current request

lifecycle == <<state, turnActive, sessionStarted, sessionClosed, envStarted>>
budget    == <<modelSteps, toolCalls, protocolErrors>>
signals   == <<cancelled, expired>>
journal   == <<log, storeFailed>>
plans     == <<issued, head>>
request   == <<reply, forced, attempts>>

vars == <<pc, exit, lifecycle, turns, budget, signals, journal, context,
          plans, executed, outcome, request>>

LimitReasons ==
  {"model_steps", "tool_calls", "protocol_errors", "wall_time",
   "context_window"}

Exits == {"none", "completed", "interrupted", "failed"} \cup LimitReasons

(* The state a turn that ends for reason x reports. *)
EndState(x) ==
  CASE x = "completed"   -> "COMPLETED_TURN"
    [] x = "interrupted" -> "INTERRUPTED"
    [] x = "failed"      -> "FAILED"
    [] OTHER             -> "LIMIT_REACHED"

(* The status with which the calls never executed are answered. *)
SkipStatus(x) ==
  CASE x = "interrupted" -> "cancelled"
    [] x = "failed"      -> "error"
    [] OTHER             -> "denied"

Init ==
  /\ pc = "idle" /\ exit = "none" /\ turns = 0
  /\ state = "RUNNING" /\ turnActive = FALSE
  /\ sessionStarted = FALSE /\ sessionClosed = FALSE /\ envStarted = FALSE
  /\ modelSteps = 0 /\ toolCalls = 0 /\ protocolErrors = 0
  /\ expired = FALSE /\ cancelled = FALSE
  /\ log = <<>> /\ storeFailed = FALSE /\ context = <<>>
  /\ issued = 0 /\ head = 1 /\ executed = {}
  /\ outcome = [status |-> "success", raised |-> "none"]
  /\ reply = "none" /\ forced = FALSE /\ attempts = 0

-----------------------------------------------------------------------------
(***************************************************************************)
(* Publication.  The emitter appends to the store first; an observer that  *)
(* fails is tolerated, a store that refuses the event raises.  A refusal   *)
(* is final: a failed write poisons the store until it is reopened.        *)
(***************************************************************************)
Record(e) ==
  /\ ~storeFailed
  /\ log' = Append(log, e)
  /\ UNCHANGED storeFailed

Refuse ==
  /\ storeFailed \/ StoreMayFail
  /\ storeFailed' = TRUE
  /\ UNCHANGED log

Goto(p) == pc' = p /\ UNCHANGED exit

Leave(x, p) == pc' = p /\ exit' = x

(* Mutant of Remember: the sequence is read before the event has one. *)
RememberEarly(role, call) ==
  context' = Append(context, Message(role, call, Len(log)))

(* Add the message projected from the event this step records. *)
Remember(role, call) ==
  context' = Append(context, Message(role, call, Len(log) + 1))

(***************************************************************************)
(* A refused event inside run_turn reaches "except BaseException": the     *)
(* pending calls cannot be answered either, because skip raises on its     *)
(* first event, and the turn fails.                                        *)
(***************************************************************************)
Abandon == Leave("failed", "error") /\ UNCHANGED <<context, plans>>

(* Mutant of Emit: a refused event is ignored and the loop goes on. *)
EmitTolerant(e, stored) == (Record(e) \/ Refuse) /\ stored

(* Publish e; "stored" says what the loop does once e is durable. *)
Emit(e, stored) ==
  \/ Record(e) /\ stored
  \/ Refuse /\ Abandon

(* Publish e and ignore a refusal (_emit_best_effort). *)
EmitBestEffort(e) == Record(e) \/ Refuse

(* Mutant of Pending: off by one. *)
PendingButLast == head < issued

Pending == head =< issued

-----------------------------------------------------------------------------
(* Starting a turn and, on the first one, the session. *)

RunTurn ==
  /\ pc = "idle" /\ turns < MaxTurns
  /\ ~sessionClosed /\ ~turnActive
  /\ turns' = turns + 1
  /\ state' = "RUNNING" /\ turnActive' = TRUE
  /\ Leave("none", IF sessionStarted THEN "user" ELSE "start")
  /\ UNCHANGED <<sessionStarted, sessionClosed, envStarted, budget, signals,
                 journal, context, plans, executed, outcome, request>>

(* The flag is set before Environment.start, which may raise. *)
StartEnvironment ==
  /\ pc = "start"
  /\ envStarted' = TRUE
  /\ Goto("session_start") \/ Leave("failed", "error")
  /\ UNCHANGED <<state, turnActive, sessionStarted, sessionClosed, turns,
                 budget, signals, journal, context, plans, executed, outcome,
                 request>>

EmitSessionStart ==
  /\ pc = "session_start"
  /\ Emit(Event("session_start", 0, "RUNNING"),
          Goto("agent_start") /\ UNCHANGED <<context, plans>>)
  /\ UNCHANGED <<lifecycle, turns, budget, signals, executed, outcome,
                 request>>

EmitAgentStart ==
  /\ pc = "agent_start"
  /\ Emit(Event("agent_start", 0, "RUNNING"),
          Goto("user") /\ UNCHANGED <<context, plans>>)
  /\ sessionStarted' = ~storeFailed'
  /\ UNCHANGED <<state, turnActive, sessionClosed, envStarted, turns, budget,
                 signals, executed, outcome, request>>

EmitUserMessage ==
  /\ pc = "user"
  /\ Emit(Event("user_message", 0, "text"),
          Goto("top") /\ Remember("user", 0) /\ UNCHANGED plans)
  /\ UNCHANGED <<lifecycle, turns, budget, signals, executed, outcome,
                 request>>

-----------------------------------------------------------------------------
(* One model step: interrupt and limit checks, context preparation, the    *)
(* request and its answer.                                                 *)

(* Mutant of CurrentLimit: one step too late. *)
CurrentLimitLate ==
  IF modelSteps > MaxSteps THEN "model_steps"
  ELSE IF expired THEN "wall_time" ELSE "none"

(* _current_limit: the limit that prevents another model step, if any. *)
CurrentLimit ==
  IF modelSteps >= MaxSteps THEN "model_steps"
  ELSE IF protocolErrors > 0 /\ protocolErrors >= MaxProtocolErrors
         THEN "protocol_errors"
  ELSE IF expired THEN "wall_time" ELSE "none"

BeginStep ==
  /\ pc = "top"
  /\ \/ /\ cancelled
        /\ Leave("interrupted", "skip")
        /\ UNCHANGED <<modelSteps, forced, attempts>>
     \/ /\ ~cancelled /\ CurrentLimit # "none"
        /\ Leave(CurrentLimit, "turn_end")
        /\ UNCHANGED <<modelSteps, forced, attempts>>
     \/ /\ ~cancelled /\ CurrentLimit = "none"
        /\ modelSteps' = modelSteps + 1
        /\ forced' = FALSE /\ attempts' = 0
        /\ Goto("prepare")
  /\ UNCHANGED <<lifecycle, turns, toolCalls, protocolErrors, signals, journal,
                 context, plans, executed, outcome, reply>>

(***************************************************************************)
(* _prepare_context either finds that the projection fits, or gives up     *)
(* with ContextWindowExceeded.  The interrupt and the deadline are checked *)
(* first; a limit met here is raised, and ends the turn in an except       *)
(* handler of run_turn rather than in its body.                            *)
(***************************************************************************)
PrepareContext ==
  /\ pc = "prepare"
  /\ \/ cancelled /\ Leave("interrupted", "skip")
     \/ ~cancelled /\ expired /\ Leave("wall_time", "limit_handler")
     \/ ~cancelled /\ ~expired /\ Goto("request")
     \/ ~cancelled /\ ~expired /\ Leave("context_window", "limit_handler")
  /\ UNCHANGED <<lifecycle, turns, budget, signals, journal, context, plans,
                 executed, outcome, request>>

(* _compact_once with a plan; after a failed compaction no other is tried. *)
Compact ==
  /\ pc = "prepare" /\ ~cancelled /\ ~expired
  /\ attempts < (IF forced THEN 1 ELSE MaxCompactions)
  /\ \E status \in {"success", "failed"} :
       /\ Emit(Event("compaction", 0, status),
               Goto("prepare") /\ UNCHANGED <<context, plans>>)
       /\ attempts' = IF status = "success" THEN attempts + 1
                                            ELSE MaxCompactions
  /\ UNCHANGED <<lifecycle, turns, budget, signals, executed, outcome, reply,
                 forced>>

(* The model answers with n tool calls and possibly with text. *)
Respond ==
  /\ pc = "request"
  /\ \E n \in 0 .. MaxCallsPerResponse, kind \in {"text", "empty", "tools"} :
       /\ (kind = "tools") <=> (n > 0)
       /\ reply' = kind
       /\ Emit(Event("assistant_message", issued + n, kind),
               /\ Goto("declared")
               /\ issued' = issued + n /\ UNCHANGED head
               /\ Remember("assistant", issued + n))
  /\ UNCHANGED <<lifecycle, turns, budget, signals, executed, outcome, forced,
                 attempts>>

(* The first context overflow is retried once, after a forced compaction. *)
RetryOverflow ==
  /\ pc = "request" /\ ~forced
  /\ Emit(Event("retry", 0, "context_overflow"),
          Goto("prepare") /\ UNCHANGED <<context, plans>>)
  /\ forced' = TRUE /\ attempts' = 0
  /\ UNCHANGED <<lifecycle, turns, budget, signals, executed, outcome, reply>>

(* The request, or the compaction before it, raises something else. *)
ModelRaises ==
  /\ pc \in {"prepare", "request"}
  /\ \E x \in {"interrupted", "failed"} : Leave(x, "skip")
  /\ UNCHANGED <<lifecycle, turns, budget, signals, journal, context, plans,
                 executed, outcome, request>>

(* Mutant of AcceptResponse: a text answer completes a cancelled turn. *)
AcceptResponseCancelled ==
  /\ pc = "declared"
  /\ \/ expired /\ Leave("wall_time", "skip")
     \/ ~expired /\ reply = "text" /\ Leave("completed", "turn_end")
     \/ ~expired /\ reply = "tools" /\ Goto("dispatch")
  /\ UNCHANGED <<lifecycle, turns, budget, signals, journal, context, plans,
                 executed, outcome, request>>

(* The checks made on a recorded assistant message. *)
AcceptResponse ==
  /\ pc = "declared"
  /\ \/ cancelled /\ Leave("interrupted", "skip") /\ UNCHANGED protocolErrors
     \/ /\ ~cancelled /\ expired
        /\ Leave("wall_time", "skip") /\ UNCHANGED protocolErrors
     \/ /\ ~cancelled /\ ~expired /\ reply = "text"
        /\ protocolErrors' = 0 /\ Leave("completed", "turn_end")
     \/ /\ ~cancelled /\ ~expired /\ reply = "tools"
        /\ Goto("dispatch") /\ UNCHANGED protocolErrors
  /\ UNCHANGED <<lifecycle, turns, modelSteps, toolCalls, signals, journal,
                 context, plans, executed, outcome, request>>

RecoverEmptyResponse ==
  /\ pc = "declared" /\ ~cancelled /\ ~expired /\ reply = "empty"
  /\ protocolErrors' = protocolErrors + 1
  /\ Emit(Event("error", 0, "recoverable"),
          /\ IF protocolErrors' >= MaxProtocolErrors
               THEN Leave("protocol_errors", "turn_end")
               ELSE Goto("top")
          /\ Remember("system", 0) /\ UNCHANGED plans)
  /\ UNCHANGED <<lifecycle, turns, modelSteps, toolCalls, signals, executed,
                 outcome, request>>

-----------------------------------------------------------------------------
(* One declared call: dispatch, decision, approval, execution, result. *)

Dispatch ==
  /\ pc = "dispatch"
  /\ \/ /\ cancelled /\ Leave("interrupted", "skip")
        /\ UNCHANGED <<toolCalls, journal, context, plans>>
     \/ /\ ~cancelled /\ expired /\ Leave("wall_time", "skip")
        /\ UNCHANGED <<toolCalls, journal, context, plans>>
     \/ /\ ~cancelled /\ ~expired /\ toolCalls >= MaxToolCalls
        /\ Leave("tool_calls", "skip")
        /\ UNCHANGED <<toolCalls, journal, context, plans>>
     \/ /\ ~cancelled /\ ~expired /\ toolCalls < MaxToolCalls
        /\ toolCalls' = toolCalls + 1
        /\ Emit(Event("tool_call", head, "declared"),
                Goto("decide") /\ UNCHANGED <<context, plans>>)
  /\ UNCHANGED <<lifecycle, turns, modelSteps, protocolErrors, signals,
                 executed, outcome, request>>

(***************************************************************************)
(* A call the executor refuses without asking: "invalid" for a provider    *)
(* ID, name or arguments that fail validation, "denied" for a policy that  *)
(* denies or raises, or that asks when nobody can answer.                  *)
(***************************************************************************)
RejectCall ==
  /\ pc = "decide"
  /\ Emit(Event("policy_decision", head, "deny"),
          Goto("result") /\ UNCHANGED <<context, plans>>)
  /\ \E s \in {"invalid", "denied"} :
       outcome' = [status |-> s, raised |-> "none"]
  /\ UNCHANGED <<lifecycle, turns, budget, signals, executed, request>>

AllowCall ==
  /\ pc = "decide"
  /\ Emit(Event("policy_decision", head, "allow"),
          Goto("execute") /\ UNCHANGED <<context, plans>>)
  /\ UNCHANGED <<lifecycle, turns, budget, signals, executed, outcome,
                 request>>

(* The approval port publishes its request, then waits for an answer.  A   *)
(* refused request is a denial, whose event the store refuses as well.     *)
AskApproval ==
  /\ pc = "decide"
  /\ Emit(Event("approval_request", head, "ask"),
          Goto("waiting") /\ UNCHANGED <<context, plans>>)
  /\ state' = IF storeFailed' THEN "RUNNING" ELSE "WAITING_FOR_APPROVAL"
  /\ UNCHANGED <<turnActive, sessionStarted, sessionClosed, envStarted, turns,
                 budget, signals, executed, outcome, request>>

Approve(approved) ==
  /\ pc = "waiting"
  /\ state' = "RUNNING"
  /\ Emit(Event("policy_decision", head, IF approved THEN "allow" ELSE "deny"),
          /\ Goto(IF approved THEN "execute" ELSE "result")
          /\ UNCHANGED <<context, plans>>)
  /\ outcome' = [status |-> "denied", raised |-> "none"]
  /\ UNCHANGED <<turnActive, sessionStarted, sessionClosed, envStarted, turns,
                 budget, signals, executed, request>>

(* An Exception of the tool becomes an error result; any other exception   *)
(* passes through, after the "finally" has published an error result.  The *)
(* loop only tells an invalid result from the others.                      *)
Execute ==
  /\ pc = "execute"
  /\ executed' = executed \cup {head}
  /\ \E s \in {"success", "invalid", "error"},
        r \in {"none", "interrupted", "failed"} :
       /\ (r = "none") <=> (s # "error")
       /\ outcome' = [status |-> s, raised |-> r]
  /\ Goto("result")
  /\ UNCHANGED <<lifecycle, turns, budget, signals, journal, context, plans,
                 request>>

(* Mutant of PublishResult: a published result is not consumed when an     *)
(* exception passes through, and its call is skipped again.                *)
PublishResultUnconsumed ==
  /\ pc = "result"
  /\ Emit(Event("tool_result", head, outcome.status),
          /\ UNCHANGED issued
          /\ Remember("tool", head)
          /\ IF outcome.raised = "none"
               THEN head' = head + 1 /\ Goto("settle")
               ELSE UNCHANGED head /\ Leave(outcome.raised, "skip"))
  /\ UNCHANGED <<lifecycle, turns, budget, signals, executed, outcome,
                 request>>

(***************************************************************************)
(* The result is published, its message appended and the plan popped; when *)
(* an exception is passing through, _consume_published_result does the     *)
(* latter two, and the calls that remain are skipped.                      *)
(***************************************************************************)
PublishResult ==
  /\ pc = "result"
  /\ Emit(Event("tool_result", head, outcome.status),
          /\ head' = head + 1 /\ UNCHANGED issued
          /\ Remember("tool", head)
          /\ IF outcome.raised = "none" THEN Goto("settle")
                                        ELSE Leave(outcome.raised, "skip"))
  /\ protocolErrors' =
       IF storeFailed' \/ outcome.raised # "none" THEN protocolErrors
       ELSE IF outcome.status = "invalid" THEN protocolErrors + 1 ELSE 0
  /\ UNCHANGED <<lifecycle, turns, modelSteps, toolCalls, signals, executed,
                 outcome, request>>

(* The checks made after a result; the protocol limit has no "> 0" guard. *)
Settle ==
  /\ pc = "settle"
  /\ \/ cancelled /\ Leave("interrupted", "skip")
     \/ /\ ~cancelled /\ protocolErrors >= MaxProtocolErrors
        /\ Leave("protocol_errors", "skip")
     \/ /\ ~cancelled /\ protocolErrors < MaxProtocolErrors
        /\ Goto(IF Pending THEN "dispatch" ELSE "top")
  /\ UNCHANGED <<lifecycle, turns, budget, signals, journal, context, plans,
                 executed, outcome, request>>

-----------------------------------------------------------------------------
(* Calls that will not be executed are answered without reaching a tool. *)

SkipCall ==
  /\ pc = "skip" /\ Pending
  /\ Emit(Event("tool_call", head, "declared"),
          Goto("skip_policy") /\ UNCHANGED <<context, plans>>)
  /\ UNCHANGED <<lifecycle, turns, budget, signals, executed, outcome,
                 request>>

(* Mutant of SkipPolicy: the remaining calls are executed, not skipped. *)
SkipPolicyAllows ==
  /\ pc = "skip_policy"
  /\ Emit(Event("policy_decision", head, "allow"),
          Goto("execute") /\ UNCHANGED <<context, plans>>)
  /\ UNCHANGED <<lifecycle, turns, budget, signals, executed, outcome,
                 request>>

SkipPolicy ==
  /\ pc = "skip_policy"
  /\ Emit(Event("policy_decision", head, "deny"),
          Goto("skip_result") /\ UNCHANGED <<context, plans>>)
  /\ UNCHANGED <<lifecycle, turns, budget, signals, executed, outcome,
                 request>>

SkipResult ==
  /\ pc = "skip_result"
  /\ Emit(Event("tool_result", head, SkipStatus(exit)),
          /\ head' = head + 1 /\ UNCHANGED issued
          /\ Remember("tool", head)
          /\ Goto("skip"))
  /\ UNCHANGED <<lifecycle, turns, budget, signals, executed, outcome,
                 request>>

(* Nothing left to skip; an interrupt not yet signalled is made sticky. *)
SkipDone ==
  /\ pc = "skip" /\ ~Pending
  /\ Goto(IF exit = "failed" THEN "error" ELSE "turn_end")
  /\ cancelled' = (cancelled \/ exit = "interrupted")
  /\ UNCHANGED <<lifecycle, turns, budget, expired, journal, context, plans,
                 executed, outcome, request>>

-----------------------------------------------------------------------------
(* Ending a turn and, unless it completed, the session. *)

EmitError ==
  /\ pc = "error"
  /\ EmitBestEffort(Event("error", 0, "FAILED"))
  /\ Goto("turn_end")
  /\ UNCHANGED <<lifecycle, turns, budget, signals, context, plans, executed,
                 outcome, request>>

(* Mutant of TurnOver: a terminal turn does not end the session. *)
TurnOverOnly ==
  /\ turnActive' = FALSE
  /\ state' = EndState(exit)
  /\ Goto("idle")
  /\ UNCHANGED <<context, plans>>

TurnOver ==
  /\ turnActive' = FALSE
  /\ state' = EndState(exit)
  /\ Goto(IF exit = "completed" THEN "idle" ELSE "agent_end")
  /\ UNCHANGED <<context, plans>>

(* Mutant of EmitTurnEnd: strict for a failed turn too. *)
EmitTurnEndStrict ==
  /\ pc = "turn_end"
  /\ \/ Record(Event("turn_end", 0, EndState(exit))) /\ TurnOver
     \/ Refuse /\ Abandon /\ UNCHANGED <<turnActive, state>>
  /\ UNCHANGED <<sessionStarted, sessionClosed, envStarted, turns, budget,
                 signals, executed, outcome, request>>

(* _end_turn is strict; the failed and interrupted results do their best. *)
EmitTurnEnd ==
  /\ pc = "turn_end"
  /\ \/ Record(Event("turn_end", 0, EndState(exit))) /\ TurnOver
     \/ Refuse /\ exit \in {"interrupted", "failed"} /\ TurnOver
     \/ /\ Refuse /\ exit \notin {"interrupted", "failed"}
        /\ Abandon /\ UNCHANGED <<turnActive, state>>
  /\ UNCHANGED <<sessionStarted, sessionClosed, envStarted, turns, budget,
                 signals, executed, outcome, request>>

(* A limit raised by the context preparation is reported by an except      *)
(* handler: a refused turn_end leaves run_turn with the turn still active. *)
HandleRaisedLimit ==
  /\ pc = "limit_handler"
  /\ \/ Record(Event("turn_end", 0, EndState(exit))) /\ TurnOver
     \/ Refuse /\ Goto("idle") /\ UNCHANGED <<turnActive, state, context,
                                              plans>>
  /\ UNCHANGED <<sessionStarted, sessionClosed, envStarted, turns, budget,
                 signals, executed, outcome, request>>

Close ==
  /\ pc = "idle" /\ ~sessionClosed
  /\ state' = IF state = "RUNNING" THEN "COMPLETED_TURN" ELSE state
  /\ Goto("agent_end")
  /\ UNCHANGED <<turnActive, sessionStarted, sessionClosed, envStarted, turns,
                 budget, signals, journal, context, plans, executed, outcome,
                 request>>

EmitAgentEnd ==
  /\ pc = "agent_end"
  /\ EmitBestEffort(Event("agent_end", 0, state))
  /\ Goto("session_end")
  /\ UNCHANGED <<lifecycle, turns, budget, signals, context, plans, executed,
                 outcome, request>>

EmitSessionEnd ==
  /\ pc = "session_end"
  /\ EmitBestEffort(Event("session_end", 0, state))
  /\ Goto("close_environment")
  /\ UNCHANGED <<lifecycle, turns, budget, signals, context, plans, executed,
                 outcome, request>>

CloseEnvironment ==
  /\ pc = "close_environment"
  /\ envStarted' = FALSE /\ sessionClosed' = TRUE
  /\ Goto("idle")
  /\ UNCHANGED <<state, turnActive, sessionStarted, turns, budget, signals,
                 journal, context, plans, executed, outcome, request>>

-----------------------------------------------------------------------------
(* What other threads and the clock do to the loop. *)

Cancel ==
  /\ ~cancelled /\ cancelled' = TRUE
  /\ UNCHANGED <<pc, exit, lifecycle, turns, budget, expired, journal, context,
                 plans, executed, outcome, request>>

Expire ==
  /\ ~expired /\ expired' = TRUE
  /\ UNCHANGED <<pc, exit, lifecycle, turns, budget, cancelled, journal,
                 context, plans, executed, outcome, request>>

(* The steps of run_turn and close once they have been called, the request *)
(* and the answer of the approval port apart.                              *)
OwnStep ==
  \/ StartEnvironment \/ EmitSessionStart \/ EmitAgentStart \/ EmitUserMessage
  \/ BeginStep \/ PrepareContext \/ Compact \/ Respond \/ RetryOverflow
  \/ ModelRaises \/ AcceptResponse \/ RecoverEmptyResponse
  \/ Dispatch \/ RejectCall \/ AllowCall
  \/ Execute \/ PublishResult \/ Settle
  \/ SkipCall \/ SkipPolicy \/ SkipResult \/ SkipDone
  \/ EmitError \/ EmitTurnEnd \/ HandleRaisedLimit
  \/ EmitAgentEnd \/ EmitSessionEnd \/ CloseEnvironment

LoopStep == OwnStep \/ AskApproval

AnswerApproval == \E approved \in BOOLEAN : Approve(approved)

Next ==
  \/ RunTurn \/ Close
  \/ LoopStep \/ AnswerApproval
  \/ Cancel \/ Expire

Spec == Init /\ [][Next]_vars

(* Every step of a running turn ends in bounded time: requests, commands   *)
(* and approvals have timeouts.  Nobody has to start or close anything.    *)
FairSpec == Spec /\ WF_vars(LoopStep) /\ WF_vars(AnswerApproval)

-----------------------------------------------------------------------------
(* Properties. *)

PcValues ==
  {"idle", "start", "session_start", "agent_start", "user", "top", "prepare",
   "request", "declared", "dispatch", "decide", "waiting", "execute",
   "result", "settle", "skip", "skip_policy", "skip_result", "error",
   "turn_end", "limit_handler", "agent_end", "session_end",
   "close_environment"}

(* Every variable has its type. *)
TypeOK ==
  /\ pc \in PcValues /\ exit \in Exits /\ state \in RuntimeStates
  /\ turnActive \in BOOLEAN /\ sessionStarted \in BOOLEAN
  /\ sessionClosed \in BOOLEAN /\ envStarted \in BOOLEAN
  /\ turns \in Nat
  /\ modelSteps \in Nat /\ toolCalls \in Nat /\ protocolErrors \in Nat
  /\ expired \in BOOLEAN /\ cancelled \in BOOLEAN
  /\ log \in Seq(Events) /\ storeFailed \in BOOLEAN
  /\ context \in Seq(Messages)
  /\ issued \in Nat /\ head \in Nat \ {0} /\ executed \in SUBSET Nat
  /\ outcome \in [status : ToolResultStatuses,
                  raised : {"none", "interrupted", "failed"}]
  /\ reply \in {"none", "text", "empty", "tools"}
  /\ forced \in BOOLEAN /\ attempts \in Nat

(* Event e is durable at a position before i. *)
Before(i, e) == \E j \in 1 .. (i - 1) : log[j] = e

Durable(e) == Before(Len(log) + 1, e)

(* A tool is dispatched only for a call whose declaration and whose "allow" *)
(* decision are both in the store, in this order: an audit trail that may  *)
(* lose its tail never loses the authorisation of a side effect.           *)
SideEffectsAuthorised ==
  \A c \in executed :
    \E i \in DOMAIN log :
      /\ log[i] = Event("policy_decision", c, "allow")
      /\ Before(i, Event("tool_call", c, "declared"))

(* Every tool_result follows the tool_call and a decision of the same      *)
(* correlation, whichever of execute, skip and the exception handlers      *)
(* produced it.                                                            *)
ResultsFollowDecisions ==
  \A i \in DOMAIN log :
    log[i].type = "tool_result" =>
      \E j \in 1 .. (i - 1) :
        /\ log[j].type = "policy_decision" /\ log[j].call = log[i].call
        /\ Before(j, Event("tool_call", log[i].call, "declared"))

(* Calls are answered one at a time, in the order of their declaration and *)
(* once each: the n-th result answers the n-th correlation.                *)
ResultsInOrder ==
  /\ \A i, j \in DOMAIN log :
       /\ log[i].type = "tool_result" /\ log[j].type = "tool_result" /\ i < j
       => log[i].call < log[j].call
  /\ \A i \in DOMAIN log :
       log[i].type \in {"tool_call", "approval_request", "tool_result"} =>
         \A c \in 1 .. (log[i].call - 1) :
           \E j \in 1 .. (i - 1) :
             log[j].type = "tool_result" /\ log[j].call = c

(* When run_turn has returned and the store works, every declared call has *)
(* its result, also after an interrupt, a limit or a failure.              *)
DeclaredCallsAnswered ==
  pc = "idle" /\ ~storeFailed =>
    \A c \in 1 .. issued :
      \E i \in DOMAIN log : log[i].type = "tool_result" /\ log[i].call = c

(* The budget of the session bounds what the loop asks of the model and    *)
(* what it dispatches.                                                     *)
BudgetsRespected ==
  /\ modelSteps =< MaxSteps /\ toolCalls =< MaxToolCalls
  /\ Cardinality(executed) =< toolCalls
  /\ Cardinality({i \in DOMAIN log : log[i].type = "assistant_message"})
       =< modelSteps

(* The role of the message an event is projected to, "none" if it is not. *)
RoleOf(e) ==
  CASE e.type = "user_message"                       -> "user"
    [] e.type = "assistant_message"                  -> "assistant"
    [] e.type = "tool_result"                        -> "tool"
    [] e.type = "error" /\ e.info = "recoverable"    -> "system"
    [] OTHER                                         -> "none"

(* The live context and the log tell the same conversation: each message   *)
(* is the projection of the durable event whose sequence it carries, in    *)
(* log order, and no conversational event is missing.  This is what makes  *)
(* a context rebuilt from the log the one that was lost.                   *)
ContextMirrorsLog ==
  /\ \A k \in DOMAIN context :
       /\ context[k].sequence \in DOMAIN log
       /\ context[k].role = RoleOf(log[context[k].sequence])
       /\ context[k].call = log[context[k].sequence].call
  /\ \A k, l \in DOMAIN context :
       k < l => context[k].sequence < context[l].sequence
  /\ \A i \in DOMAIN log :
       RoleOf(log[i]) # "none" => \E k \in DOMAIN context :
                                    context[k].sequence = i

(* "Interrupted, limited, and failed turns are terminal and close the      *)
(* Environment automatically" (agent_loop.py, class docstring): once       *)
(* run_turn has returned from such a turn, the session is closed.          *)
TerminalTurnCloses ==
  pc = "idle" /\ exit \notin {"none", "completed"} =>
    sessionClosed /\ ~envStarted /\ ~turnActive

(* "Zero protocol errors do not exhaust a zero-tolerance protocol budget   *)
(* until an error actually occurs" (agent_loop.py, _current_limit).        *)
ProtocolLimitNeedsError == exit = "protocol_errors" => protocolErrors > 0

(* A turn that was started ends, whatever the model, the tools, the other  *)
(* threads and the store do.                                               *)
TurnEnds == pc # "idle" ~> pc = "idle"

(* An interrupt is not lost: once the signal is set while a turn is running *)
(* and its end is not decided yet, the session is closed, whatever the     *)
(* model, the tools and the store do.                                      *)
InterruptEndsSession ==
  cancelled /\ turnActive /\ exit = "none" ~> sessionClosed

-----------------------------------------------------------------------------
(* The loop implements the contract: a turn is open while _turn_active is  *)
(* set, and over once the session is closed or its end is being recorded.  *)
Phase ==
  CASE sessionClosed                                          -> "ended"
    [] ~sessionClosed /\ turnActive                           -> "turn"
    [] ~sessionClosed /\ ~turnActive /\ pc = "idle"           -> "ready"
    [] ~sessionClosed /\ ~turnActive /\ pc # "idle"           -> "ended"

Contract == INSTANCE SessionContract WITH
  phase <- Phase,
  declared <- issued,
  answered <- head - 1,
  allowed <- {c \in 1 .. issued :
                Durable(Event("policy_decision", c, "allow"))},
  performed <- executed,
  lost <- storeFailed

(* Every step of the loop is a step of the contract or changes nothing     *)
(* the contract speaks of.                                                 *)
ImplementsContract == Contract!Spec
=============================================================================

--------------------------- MODULE BackendService ---------------------------
(***************************************************************************)
(* The backend service of one session (backend_service.py): the frontends  *)
(* that send commands, the one worker thread that runs the agent loop, the *)
(* buffer that streams the durable events, the one-slot approval channel   *)
(* between the two sides, and the thread that closes the service.          *)
(*                                                                         *)
(* The loop is the module AgentLoop, step by step; the worker publishes    *)
(* every event it has stored to the buffer before it goes on.  The service *)
(* lock is held by send, by the worker when it clears its flag and by      *)
(* close; the commands that call out while holding it take two steps.      *)
(***************************************************************************)
EXTENDS AgentLoop

CONSTANTS
  JoinMayTimeOut  \* whether close() may give up waiting for the worker

ASSUME ServiceAssumption == JoinMayTimeOut \in BOOLEAN

VARIABLES
  queue,           \* commands accepted and not yet taken by the worker
  turnInProgress,  \* _turn_in_progress
  stopped,         \* _stopped
  lock,            \* "free", or the command holding the service lock
  worker,          \* control point of _run_worker
  closer,          \* control point of close()
  pendingId, response, channelClosed, interrupted, mismatch, \* ApprovalChannel
  streamed,        \* the buffer holds log[1 .. streamed]
  lastState,       \* EventStreamBuffer.last_state
  streamClosed,    \* EventStreamBuffer.closed
  submitted,       \* tasks the service has accepted
  approvals,       \* requests that frontends have answered with yes
  seen, ended      \* a consumer of events(): its cursor, and whether it ended

commands == <<queue, turnInProgress, stopped, lock>>
channel  == <<pendingId, response, channelClosed, interrupted, mismatch>>
stream   == <<streamed, lastState, streamClosed>>
client   == <<submitted, approvals, seen, ended>>

serviceVars == <<commands, worker, closer, channel, stream, client>>
allVars == <<vars, serviceVars>>

ServiceInit ==
  /\ Init
  /\ queue = <<>> /\ turnInProgress = FALSE /\ stopped = FALSE
  /\ lock = "free" /\ worker = "get" /\ closer = "none"
  /\ pendingId = 0 /\ response = "none"
  /\ channelClosed = FALSE /\ interrupted = FALSE /\ mismatch = FALSE
  /\ streamed = 0 /\ lastState = "RUNNING" /\ streamClosed = FALSE
  /\ submitted = 0 /\ approvals = {} /\ seen = 0 /\ ended = FALSE

-----------------------------------------------------------------------------
(* send: what a frontend may ask for while the service is not stopped. *)

(* Mutant of Accepting: commands are queued after the stop. *)
AcceptingStopped == lock = "free"

Accepting == lock = "free" /\ ~stopped

(* A task is refused while a turn is running. *)
SubmitTask ==
  /\ Accepting /\ ~turnInProgress /\ submitted < MaxTurns
  /\ turnInProgress' = TRUE /\ queue' = Append(queue, "submit")
  /\ submitted' = submitted + 1
  /\ UNCHANGED <<vars, stopped, lock, worker, closer, channel, stream,
                 approvals, seen, ended>>

(* Mutant of AnswerRequest: any answer goes to the pending request. *)
AnswerAnyRequest(id, approved) ==
  /\ Accepting
  /\ approvals' = approvals \cup {c \in {id} : approved}
  /\ IF pendingId = 0 THEN UNCHANGED response
                      ELSE response' = IF approved THEN "yes" ELSE "no"
  /\ UNCHANGED <<vars, commands, worker, closer, pendingId, channelClosed,
                 interrupted, mismatch, stream, submitted, seen, ended>>

(* A frontend answers one of the requests it has read, perhaps an old one: *)
(* an answer to another request than the pending one denies it.            *)
AnswerRequest(id, approved) ==
  /\ Accepting
  /\ approvals' = approvals \cup {c \in {id} : approved}
  /\ \/ pendingId = 0 /\ UNCHANGED <<response, mismatch>>
     \/ /\ pendingId \notin {0, id} /\ mismatch' = TRUE
        /\ UNCHANGED response
     \/ /\ pendingId = id /\ response' = IF approved THEN "yes" ELSE "no"
        /\ UNCHANGED mismatch
  /\ UNCHANGED <<vars, commands, worker, closer, pendingId, channelClosed,
                 interrupted, stream, submitted, seen, ended>>

ApprovalResponse ==
  \E id \in {log[i].call : i \in {k \in 1 .. seen :
                                    log[k].type = "approval_request"}} :
    \E approved \in BOOLEAN : AnswerRequest(id, approved)

(* CancellationSignal.cancel, which may be called more than once. *)
RequestCancel == Cancel \/ (cancelled /\ UNCHANGED vars)

(* The approval channel is told before the cancellation signal is set; a   *)
(* second interrupt finds both set and changes nothing.                    *)
Interrupt ==
  /\ Accepting /\ ~interrupted
  /\ lock' = "interrupt" /\ interrupted' = TRUE
  /\ UNCHANGED <<vars, queue, turnInProgress, stopped, worker, closer,
                 pendingId, response, channelClosed, mismatch, stream, client>>

FinishInterrupt ==
  /\ lock = "interrupt" /\ lock' = "free" /\ RequestCancel
  /\ UNCHANGED <<queue, turnInProgress, stopped, worker, closer, channel,
                 stream, client>>

(* _request_stop_locked: the channel is closed first, then the turn that   *)
(* is running or queued is cancelled and the worker is told to stop.       *)
RequestStop ==
  /\ stopped' = TRUE /\ channelClosed' = TRUE /\ lock' = "stop"
  /\ UNCHANGED <<vars, queue, turnInProgress, worker, pendingId, response,
                 interrupted, mismatch, stream, client>>

CloseSession == Accepting /\ RequestStop /\ UNCHANGED closer

(* Mutant of FinishStop: a task that is queued is not cancelled. *)
FinishStopRunning ==
  /\ lock = "stop" /\ lock' = "free"
  /\ IF worker = "turn" THEN RequestCancel ELSE UNCHANGED vars
  /\ queue' = Append(queue, "close")
  /\ UNCHANGED <<turnInProgress, stopped, worker, closer, channel, stream,
                 client>>

FinishStop ==
  /\ lock = "stop" /\ lock' = "free"
  /\ IF turnInProgress THEN RequestCancel ELSE UNCHANGED vars
  /\ queue' = Append(queue, "close")
  /\ UNCHANGED <<turnInProgress, stopped, worker, closer, channel, stream,
                 client>>

-----------------------------------------------------------------------------
(* _run_worker *)

(* A task taken after the session has ended, or while the loop believes a  *)
(* turn is active, is refused by run_turn and dropped.                     *)
TakeTask ==
  /\ worker = "get" /\ queue # <<>> /\ Head(queue) = "submit"
  /\ queue' = Tail(queue)
  /\ \/ RunTurn /\ worker' = "turn"
     \/ (sessionClosed \/ turnActive) /\ worker' = "flag" /\ UNCHANGED vars
  /\ UNCHANGED <<turnInProgress, stopped, lock, closer, channel, stream,
                 client>>

TakeClose ==
  /\ worker = "get" /\ queue # <<>> /\ Head(queue) = "close"
  /\ queue' = Tail(queue)
  /\ \/ Close /\ worker' = "closing"
     \/ sessionClosed /\ worker' = "exit" /\ UNCHANGED vars
  /\ UNCHANGED <<turnInProgress, stopped, lock, closer, channel, stream,
                 client>>

Running == worker \in {"turn", "closing"} /\ streamed = Len(log)

AdvanceLoop ==
  /\ Running /\ OwnStep
  /\ UNCHANGED serviceVars

(* The slot is opened before the request is published. *)
RequestApproval ==
  /\ Running /\ AskApproval
  /\ pendingId' = head /\ response' = "none" /\ mismatch' = FALSE
  /\ UNCHANGED <<commands, worker, closer, channelClosed, interrupted, stream,
                 client>>

(* What the wait returns: a closed channel, an interrupt of any time and a *)
(* mismatch deny, and so does a timeout, which leaves no response.         *)
Verdict ==
  response = "yes" /\ ~channelClosed /\ ~interrupted /\ ~mismatch

EndWait ==
  /\ Running /\ Approve(Verdict)
  /\ pendingId' = 0 /\ response' = "none" /\ mismatch' = FALSE
  /\ UNCHANGED <<commands, worker, closer, channelClosed, interrupted, stream,
                 client>>

(* Mutant of ApplyState: the end of a turn is not taken for a state. *)
ApplyStateUntilClose(s, e) ==
  CASE e.type = "approval_request" -> "WAITING_FOR_APPROVAL"
    [] e.type \in {"agent_end", "session_end"} -> e.info
    [] OTHER -> "RUNNING"

(* last_state, as the buffer derives it from the events. *)
ApplyState(s, e) ==
  CASE e.type = "approval_request" ->
         IF s \in TerminalStates THEN s ELSE "WAITING_FOR_APPROVAL"
    [] e.type = "policy_decision" ->
         IF s = "WAITING_FOR_APPROVAL" THEN "RUNNING" ELSE s
    [] e.type \in {"turn_end", "agent_end", "session_end"} -> e.info
    [] e.type \in {"session_start", "agent_start", "user_message"} ->
         IF s \in TerminalStates THEN s ELSE "RUNNING"
    [] OTHER -> s

(* The emitter hands a durable event to the buffer. *)
Notify ==
  /\ streamed < Len(log)
  /\ streamed' = streamed + 1
  /\ lastState' = ApplyState(lastState, log[streamed + 1])
  /\ UNCHANGED <<vars, commands, worker, closer, channel, streamClosed,
                 client>>

LoopReturns ==
  /\ Running /\ pc = "idle"
  /\ worker' = IF worker = "turn" THEN "flag" ELSE "exit"
  /\ UNCHANGED <<vars, commands, closer, channel, stream, client>>

ClearFlag ==
  /\ worker = "flag" /\ lock = "free"
  /\ turnInProgress' = FALSE /\ worker' = "get"
  /\ UNCHANGED <<vars, queue, stopped, lock, closer, channel, stream, client>>

(* Mutant of WorkerExits: the stream is left open. *)
WorkerExitsOnly ==
  /\ worker = "exit" /\ worker' = "done"
  /\ UNCHANGED <<vars, commands, closer, channel, stream, client>>

WorkerExits ==
  /\ worker = "exit" /\ worker' = "done" /\ streamClosed' = TRUE
  /\ UNCHANGED <<vars, commands, closer, channel, streamed, lastState, client>>

-----------------------------------------------------------------------------
(* close(), which waits for the worker for a bounded time, and events(). *)

CallClose ==
  /\ closer = "none" /\ lock = "free" /\ closer' = "join"
  /\ \/ ~stopped /\ RequestStop
     \/ /\ stopped
        /\ UNCHANGED <<vars, commands, worker, channel, stream, client>>

(* Once the worker is gone the loop is closed and closing it again changes *)
(* nothing.  The store is closed in both cases.                            *)
CloseStore ==
  /\ closer = "join" /\ lock # "stop"
  /\ worker = "done" \/ JoinMayTimeOut
  /\ storeFailed' = TRUE /\ closer' = "stream"
  /\ UNCHANGED <<pc, exit, lifecycle, turns, budget, signals, log, context,
                 plans, executed, outcome, request, commands, worker, channel,
                 stream, client>>

CloseStream ==
  /\ closer = "stream" /\ closer' = "done" /\ streamClosed' = TRUE
  /\ UNCHANGED <<vars, commands, worker, channel, streamed, lastState, client>>

(* The iterator checks for buffered events before it looks at "closed". *)
Read ==
  /\ ~ended /\ seen < streamed /\ seen' = seen + 1
  /\ UNCHANGED <<vars, commands, worker, closer, channel, stream, submitted,
                 approvals, ended>>

(* Mutant of EndRead: "closed" is looked at first. *)
EndReadEarly ==
  /\ ~ended /\ streamClosed /\ ended' = TRUE
  /\ UNCHANGED <<vars, commands, worker, closer, channel, stream, submitted,
                 approvals, seen>>

EndRead ==
  /\ ~ended /\ seen = streamed /\ streamClosed /\ ended' = TRUE
  /\ UNCHANGED <<vars, commands, worker, closer, channel, stream, submitted,
                 approvals, seen>>

-----------------------------------------------------------------------------
Send == SubmitTask \/ ApprovalResponse \/ Interrupt \/ CloseSession

WorkerStep ==
  \/ TakeTask \/ TakeClose \/ AdvanceLoop \/ RequestApproval \/ EndWait
  \/ Notify \/ LoopReturns \/ ClearFlag \/ WorkerExits

CloserStep == CloseStore \/ CloseStream

SenderStep == FinishInterrupt \/ FinishStop

ConsumerStep == Read \/ EndRead

ServiceNext ==
  Send \/ SenderStep \/ WorkerStep \/ CallClose \/ CloserStep \/ ConsumerStep

ServiceSpec == ServiceInit /\ [][ServiceNext]_allVars

(* Threads that can run do run; nobody has to send or close anything. *)
ServiceFairSpec ==
  /\ ServiceSpec
  /\ WF_allVars(WorkerStep) /\ WF_allVars(CloserStep)
  /\ WF_allVars(SenderStep) /\ WF_allVars(ConsumerStep)

-----------------------------------------------------------------------------
(* Properties. *)

(* Every variable has its type. *)
ServiceTypeOK ==
  /\ TypeOK
  /\ queue \in Seq({"submit", "close"})
  /\ turnInProgress \in BOOLEAN /\ stopped \in BOOLEAN
  /\ lock \in {"free", "interrupt", "stop"}
  /\ worker \in {"get", "turn", "flag", "closing", "exit", "done"}
  /\ closer \in {"none", "join", "stream", "done"}
  /\ pendingId \in Nat /\ response \in {"none", "yes", "no"}
  /\ channelClosed \in BOOLEAN /\ interrupted \in BOOLEAN
  /\ mismatch \in BOOLEAN
  /\ streamed \in 0 .. Len(log) /\ lastState \in RuntimeStates
  /\ streamClosed \in BOOLEAN
  /\ submitted \in Nat /\ approvals \subseteq Nat
  /\ seen \in 0 .. streamed /\ ended \in BOOLEAN

(* Approval is fail-closed ("this port never auto-approves"): a call that   *)
(* was put to the user is allowed only if a frontend answered yes to that  *)
(* very request, whatever stale answers, interrupts and timeouts occurred.  *)
ApprovedByUser ==
  \A i, j \in DOMAIN log :
    /\ i < j /\ log[i].type = "approval_request"
    /\ log[j] = Event("policy_decision", log[i].call, "allow")
    => log[i].call \in approvals

(* The state derived from the stream is the state of the loop whenever the *)
(* stream has caught up with a loop that waits, for approval or for work.  *)
StateFollowsLoop ==
  streamed = Len(log) /\ ~storeFailed =>
    /\ pc = "waiting" => lastState = "WAITING_FOR_APPROVAL"
    /\ pc = "idle" /\ worker \in {"flag", "get"} => lastState = state

(* An event stream that ends has delivered the whole session: everything   *)
(* that is durable has been read, up to the end of the session.            *)
StreamComplete ==
  ended =>
    /\ seen = Len(log) /\ log[Len(log)].type = "session_end"
    /\ sessionClosed /\ ~envStarted

(* A task the service has accepted is run, unless a terminal turn has      *)
(* ended the session before the worker took it, and the worker never       *)
(* leaves an accepted command behind.                                      *)
AcceptedTasksRun ==
  /\ worker = "get" /\ queue = <<>> => submitted = turns \/ sessionClosed
  /\ worker = "done" => queue = <<>>

(* Once a stop or an interrupt has been requested no model step begins: a  *)
(* turn that runs is cancelled, and so is one that was accepted and has    *)
(* not begun, and the one a frontend asks for after it has interrupted a   *)
(* session that was idle.                                                  *)
NoModelStepAfterStop ==
  [][(stopped \/ interrupted) /\ lock = "free"
       => modelSteps' = modelSteps]_allVars

(* The number of turns a consumer has seen completed. *)
CompletedSeen ==
  Cardinality({i \in 1 .. seen :
                 log[i] = Event("turn_end", 0, "COMPLETED_TURN")})

(* "After a successful turn ends, SubmitTask may be sent again", the end of *)
(* a turn being its turn_end (docs/agent-backend-interface.md): a frontend *)
(* that has seen the turn_end of every task it sent is not refused.        *)
FollowUpAccepted ==
  CompletedSeen = submitted /\ ~stopped => ~turnInProgress

(* After CloseSession or close() the worker ends the session and leaves,   *)
(* and every consumer of events() comes to its end.                        *)
StopEndsStream == stopped ~> ended /\ worker = "done"
=============================================================================

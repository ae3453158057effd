------------------------ MODULE BackendServiceProofs ------------------------
(***************************************************************************)
(* What holds of a session behind its service, whatever the frontends send *)
(* and when the threads run: the loop still keeps the contract of a        *)
(* session, and no call that was put to the user is allowed without a yes. *)
(***************************************************************************)
EXTENDS BackendService, AgentLoopProofs

-----------------------------------------------------------------------------
(* What the steps of the service are to the loop. *)

(* close() closes the store under a worker that it no longer waits for. *)
StoreClosed ==
  /\ storeFailed' = TRUE
  /\ UNCHANGED <<pc, exit, lifecycle, turns, budget, signals, log, context,
                 plans, executed, outcome, request>>

LEMMA ServiceStepIsLoopStep ==
  ASSUME [ServiceNext]_allVars
  PROVE  [Next]_vars \/ StoreClosed
  <1> USE DEF Next, LoopStep, AnswerApproval, RequestCancel
  <1>1. CASE Send
    BY <1>1 DEF Send, SubmitTask, ApprovalResponse, AnswerRequest, Interrupt,
                CloseSession, RequestStop
  <1>2. CASE SenderStep
    BY <1>2 DEF SenderStep, FinishInterrupt, FinishStop
  <1>3. CASE TakeTask \/ TakeClose
    BY <1>3 DEF TakeTask, TakeClose
  <1>4. CASE AdvanceLoop \/ RequestApproval
    BY <1>4 DEF AdvanceLoop, RequestApproval
  <1>5. CASE EndWait
    <2>1. Verdict \in BOOLEAN
      BY DEF Verdict
    <2> QED BY <1>5, <2>1, Zenon DEF EndWait
  <1>6. CASE Notify \/ LoopReturns \/ ClearFlag \/ WorkerExits
    BY <1>6 DEF Notify, LoopReturns, ClearFlag, WorkerExits
  <1>7. CASE CallClose \/ CloseStream \/ ConsumerStep
    BY <1>7 DEF CallClose, RequestStop, CloseStream, ConsumerStep, Read,
                EndRead
  <1>8. CASE CloseStore
    BY <1>8 DEF CloseStore, StoreClosed
  <1>9. CASE UNCHANGED allVars
    BY <1>9 DEF allVars
  <1> QED
    BY <1>1, <1>2, <1>3, <1>4, <1>5, <1>6, <1>7, <1>8, <1>9
       DEF ServiceNext, WorkerStep, CloserStep

(* Losing the store leaves what the loop relies on. *)
LEMMA LoopInvClosed ==
  ASSUME LoopInv, StoreClosed
  PROVE  LoopInv'
  <1> USE DEF LoopInv, StoreClosed, lifecycle, budget, signals, plans, request
  <1>1. TypeOK'
    BY DEF TypeOK
  <1>2. AuditTrail'
    BY TrailUntouched DEF CallInv
  <1>3. ControlPoints'
    BY DEF CallInv, ControlPoints, Requested, Authorised, Decided, Durable,
           Before, Pending, Settled
  <1>4. PhaseInv'
    BY DEF PhaseInv, InTurn, InCall, Pending
  <1>5. DecisionsIssued'
    BY DecisionsUntouched
  <1> QED BY <1>1, <1>2, <1>3, <1>4, <1>5 DEF CallInv

LEMMA LoopInvKept ==
  ASSUME LoopInv, [ServiceNext]_allVars
  PROVE  LoopInv'
  <1>1. CASE [Next]_vars
    BY <1>1, NextType, CallNext, PhaseNext, DecisionsNext DEF LoopInv
  <1>2. CASE StoreClosed
    BY <1>2, LoopInvClosed
  <1> QED BY <1>1, <1>2, ServiceStepIsLoopStep

LEMMA ServiceInitLoop == ServiceInit => LoopInv
  BY InitType, CallInit, PhaseInit DEF ServiceInit, LoopInv

(* A session behind its service keeps the contract of a session, also when *)
(* close() takes the store from a worker that is still in a turn.          *)
THEOREM ServiceKeepsContract == ServiceSpec => ImplementsContract
  <1>1. ServiceInit => Contract!Init
    BY DEF ServiceInit, Init, Contract!Init, Phase, Durable, Before
  <1>2. ASSUME LoopInv, [ServiceNext]_allVars
        PROVE  [Contract!Next]_(Contract!contractVars)
    <2>1. CASE [Next]_vars
      BY <1>2, <2>1, ContractNext DEF LoopInv, ContractStep
    <2>2. CASE StoreClosed
      <3>1. /\ UNCHANGED <<issued, head, executed>> /\ Phase' = Phase
            /\ Allowed' = Allowed /\ storeFailed' \in {storeFailed, TRUE}
        BY <2>2, AllowedUntouched
           DEF StoreClosed, lifecycle, plans, Phase
      <3> QED BY <1>2, <3>1, Silent DEF LoopInv, ContractStep
    <2> QED BY <1>2, <2>1, <2>2, ServiceStepIsLoopStep
  <1> QED
    BY <1>1, <1>2, ServiceInitLoop, LoopInvKept, PTL
       DEF ServiceSpec, ImplementsContract, Contract!Spec

(* Behind the service, too, no tool is dispatched before its declaration   *)
(* and its "allow" are durable, whatever the frontends do to the session.  *)
THEOREM ServiceAuthorised == ServiceSpec => []SideEffectsAuthorised
  <1>1. LoopInv => SideEffectsAuthorised
    BY DEF LoopInv, CallInv, AuditTrail
  <1> QED BY <1>1, ServiceInitLoop, LoopInvKept, PTL DEF ServiceSpec

-----------------------------------------------------------------------------
(***************************************************************************)
(* Approval is fail-closed.  The log alone does not show that the answer   *)
(* the wait returns is an answer to the call that is being decided: the    *)
(* slot of the channel names the head while the loop waits, a "yes" in it  *)
(* is one a frontend gave for that call, and a call that has been put to   *)
(* the user and is not answered yet is not decided by the policy.          *)
(***************************************************************************)
SlotInv ==
  pc = "waiting" =>
    /\ pendingId = head
    /\ response = "yes" => head \in approvals

AskedInv ==
  ~storeFailed =>
    \A i \in DOMAIN log :
      log[i].type = "approval_request" =>
        \/ log[i].call < head
        \/ log[i].call = head /\ pc \in {"waiting", "execute", "result"}

ApprovalInv == LoopInv /\ SlotInv /\ AskedInv /\ ApprovedByUser

Allow(c) == Event("policy_decision", c, "allow")

(* What the loop may publish by itself: no request, and an "allow" only    *)
(* for a call that the policy decides.                                     *)
OwnEvent(e) ==
  /\ e \in Events
  /\ e.type # "approval_request"
  /\ (\E c \in Nat : e = Allow(c)) => pc = "decide" /\ e = Allow(head)

LEMMA OwnEventBy ==
  ASSUME NEW t \in EventTypes, NEW c \in Nat, NEW i \in Infos,
         t # "approval_request", t = "policy_decision" => i = "deny"
  PROVE  OwnEvent(Event(t, c, i))
  <1>1. Event(t, c, i) \in Events
    BY EventType
  <1>2. \A k \in Nat : Event(t, c, i) # Allow(k)
    BY DEF Event, Allow
  <1>3. Event(t, c, i).type # "approval_request"
    BY DEF Event
  <1> QED BY <1>1, <1>2, <1>3 DEF OwnEvent

(* A step of the loop between two visits of the approval port. *)
OwnLog ==
  \/ UNCHANGED log
  \/ ~storeFailed /\ \E e \in Events : OwnEvent(e) /\ log' = Append(log, e)

OwnStore ==
  (Refuse => storeFailed') /\ (storeFailed => storeFailed')

OwnMove ==
  /\ pc # "waiting" /\ pc' # "waiting"
  /\ head =< head' /\ (storeFailed => storeFailed')
  /\ \/ storeFailed' \/ head < head'
     \/ pc \notin {"waiting", "execute", "result"}
     \/ pc' \in {"waiting", "execute", "result"}

LEMMA StoreKept ==
  ASSUME TypeOK, NEW e, Record(e) \/ Refuse
  PROVE  OwnStore
  <1>1. storeFailed' = TRUE => storeFailed'
    OBVIOUS
  <1> QED BY <1>1 DEF OwnStore, Record, Refuse

LEMMA OwnPublished ==
  ASSUME TypeOK, NEW t \in EventTypes, NEW c \in Nat, NEW i \in Infos,
         t # "approval_request", t = "policy_decision" => i = "deny",
         Record(Event(t, c, i)) \/ Refuse
  PROVE  OwnLog /\ OwnStore
  <1>1. Event(t, c, i) \in Events /\ OwnEvent(Event(t, c, i))
    BY OwnEventBy, EventType
  <1>2. OwnLog
    BY <1>1 DEF OwnLog, Record, Refuse
  <1> QED BY <1>2, StoreKept

LEMMA OwnStepGrowth ==
  ASSUME TypeOK, OwnStep
  PROVE  OwnLog /\ OwnMove
  <1> USE DEF Goto, Leave, journal, plans
  <1>0. UNCHANGED log => OwnLog
    BY DEF OwnLog
  <1>typed. /\ 0 \in Nat /\ head \in Nat
            /\ head =< head /\ head < head + 1
            /\ outcome.status \in Infos /\ state \in Infos
            /\ exit \in Exits /\ storeFailed \in BOOLEAN
    BY DEF TypeOK, Infos
  <1> USE <1>typed
  <1>1. CASE StartEnvironment
    BY <1>0, <1>1 DEF StartEnvironment, OwnMove
  <1>2. CASE EmitSessionStart
    <2>1. Record(Event("session_start", 0, "RUNNING")) \/ Refuse
      BY <1>2 DEF EmitSessionStart, Emit, Abandon
    <2>2. OwnLog /\ OwnStore
      BY <2>1, OwnPublished
         DEF EventTypes, Infos, RuntimeStates, TerminalStates
    <2> QED
      BY <1>2, <2>2
         DEF EmitSessionStart, OwnMove, OwnStore, Emit, Abandon
  <1>3. CASE EmitAgentStart
    <2>1. Record(Event("agent_start", 0, "RUNNING")) \/ Refuse
      BY <1>3 DEF EmitAgentStart, Emit, Abandon
    <2>2. OwnLog /\ OwnStore
      BY <2>1, OwnPublished
         DEF EventTypes, Infos, RuntimeStates, TerminalStates
    <2> QED BY <1>3, <2>2 DEF EmitAgentStart, OwnMove, OwnStore, Emit, Abandon
  <1>4. CASE EmitUserMessage
    <2>1. Record(Event("user_message", 0, "text")) \/ Refuse
      BY <1>4 DEF EmitUserMessage, Emit, Abandon
    <2>2. OwnLog /\ OwnStore
      BY <2>1, OwnPublished
         DEF EventTypes, Infos, RuntimeStates, TerminalStates
    <2> QED BY <1>4, <2>2 DEF EmitUserMessage, OwnMove, OwnStore, Emit, Abandon
  <1>5. CASE BeginStep
    BY <1>0, <1>5 DEF BeginStep, OwnMove
  <1>6. CASE PrepareContext
    BY <1>0, <1>6 DEF PrepareContext, OwnMove
  <1>7. CASE Compact
    <2> PICK status \in {"success", "failed"} :
          Emit(Event("compaction", 0, status),
               Goto("prepare") /\ UNCHANGED <<context, plans>>)
      BY <1>7 DEF Compact
    <2>1. "compaction" \in EventTypes /\ status \in Infos
      BY DEF EventTypes, Infos, ToolResultStatuses
    <2>2. Record(Event("compaction", 0, status)) \/ Refuse
      BY DEF Emit
    <2>3. OwnLog /\ OwnStore
      BY <2>1, <2>2, OwnPublished
    <2> QED BY <1>7, <2>3 DEF Compact, OwnMove, OwnStore, Emit, Abandon
  <1>8. CASE Respond
    <2> PICK n \in 0 .. MaxCallsPerResponse,
             kind \in {"text", "empty", "tools"} :
          Emit(Event("assistant_message", issued + n, kind),
               /\ Goto("declared")
               /\ issued' = issued + n /\ UNCHANGED head
               /\ Remember("assistant", issued + n))
      BY <1>8, Zenon DEF Respond
    <2>1. issued + n \in Nat
      BY LoopAssumption DEF LoopAssumption, TypeOK
    <2>2. "assistant_message" \in EventTypes /\ kind \in Infos
      BY DEF EventTypes, Infos
    <2>3. Record(Event("assistant_message", issued + n, kind)) \/ Refuse
      BY DEF Emit
    <2>4. OwnLog /\ OwnStore
      BY <2>1, <2>2, <2>3, OwnPublished
    <2> QED BY <1>8, <2>1, <2>4 DEF Respond, OwnMove, OwnStore, Emit, Abandon
  <1>9. CASE RetryOverflow
    <2>1. Record(Event("retry", 0, "context_overflow")) \/ Refuse
      BY <1>9 DEF RetryOverflow, Emit, Abandon
    <2>2. OwnLog /\ OwnStore
      BY <2>1, OwnPublished
         DEF EventTypes, Infos, RuntimeStates, TerminalStates
    <2> QED BY <1>9, <2>2 DEF RetryOverflow, OwnMove, OwnStore, Emit, Abandon
  <1>10. CASE ModelRaises
    BY <1>0, <1>10 DEF ModelRaises, OwnMove
  <1>11. CASE AcceptResponse
    BY <1>0, <1>11 DEF AcceptResponse, OwnMove
  <1>12. CASE RecoverEmptyResponse
    <2>1. Record(Event("error", 0, "recoverable")) \/ Refuse
      BY <1>12 DEF RecoverEmptyResponse, Emit, Abandon
    <2>2. OwnLog /\ OwnStore
      BY <2>1, OwnPublished
         DEF EventTypes, Infos, RuntimeStates, TerminalStates
    <2> QED
      BY <1>12, <2>2
         DEF RecoverEmptyResponse, OwnMove, OwnStore, Emit, Abandon
  <1>13. CASE Dispatch
    <2>1. CASE UNCHANGED <<journal, plans>> /\ pc' = "skip"
      BY <1>0, <1>13, <2>1 DEF Dispatch, OwnMove
    <2>2. CASE Emit(Event("tool_call", head, "declared"),
                    Goto("decide") /\ UNCHANGED <<context, plans>>)
      <3>1. "tool_call" \in EventTypes /\ "declared" \in Infos
        BY DEF EventTypes, Infos
      <3>2. Record(Event("tool_call", head, "declared")) \/ Refuse
        BY <2>2 DEF Emit
      <3>3. OwnLog /\ OwnStore
        BY <3>1, <3>2, OwnPublished
      <3> QED
        BY <1>13, <2>2, <3>3
           DEF Dispatch, OwnMove, OwnStore, Emit, Abandon
    <2> QED BY <1>13, <2>1, <2>2 DEF Dispatch
  <1>14. CASE RejectCall
    <2>1. Record(Event("policy_decision", head, "deny")) \/ Refuse
      BY <1>14 DEF RejectCall, Emit, Abandon
    <2>2. OwnLog /\ OwnStore
      BY <2>1, OwnPublished
         DEF EventTypes, Infos, RuntimeStates, TerminalStates
    <2> QED BY <1>14, <2>2 DEF RejectCall, OwnMove, OwnStore, Emit, Abandon
  <1>15. CASE AllowCall
    <2>1. Allow(head) \in Events
      BY EventType DEF Allow, EventTypes, Infos
    <2>2. OwnEvent(Allow(head))
      BY <1>15, <2>1 DEF OwnEvent, Allow, AllowCall, Event
    <2>3. OwnLog
      BY <1>15, <2>1, <2>2 DEF AllowCall, Emit, OwnLog, Record, Refuse, Allow
    <2>4. OwnStore
      BY <1>15, StoreKept DEF AllowCall, Emit
    <2> QED
      BY <1>15, <2>3, <2>4
         DEF AllowCall, OwnMove, OwnStore, Emit, Abandon
  <1>16. CASE Execute
    BY <1>0, <1>16 DEF Execute, OwnMove
  <1>17. CASE PublishResult
    <2>1. Record(Event("tool_result", head, outcome.status)) \/ Refuse
      BY <1>17 DEF PublishResult, Emit, Abandon
    <2>2. OwnLog /\ OwnStore
      BY <2>1, OwnPublished
         DEF EventTypes, Infos, RuntimeStates, TerminalStates
    <2> QED BY <1>17, <2>2 DEF PublishResult, OwnMove, OwnStore, Emit, Abandon
  <1>18. CASE Settle
    BY <1>0, <1>18 DEF Settle, OwnMove
  <1>19. CASE SkipCall
    <2>1. Record(Event("tool_call", head, "declared")) \/ Refuse
      BY <1>19 DEF SkipCall, Emit, Abandon
    <2>2. OwnLog /\ OwnStore
      BY <2>1, OwnPublished
         DEF EventTypes, Infos, RuntimeStates, TerminalStates
    <2> QED BY <1>19, <2>2 DEF SkipCall, OwnMove, OwnStore, Emit, Abandon
  <1>20. CASE SkipPolicy
    <2>1. Record(Event("policy_decision", head, "deny")) \/ Refuse
      BY <1>20 DEF SkipPolicy, Emit, Abandon
    <2>2. OwnLog /\ OwnStore
      BY <2>1, OwnPublished
         DEF EventTypes, Infos, RuntimeStates, TerminalStates
    <2> QED BY <1>20, <2>2 DEF SkipPolicy, OwnMove, OwnStore, Emit, Abandon
  <1>21. CASE SkipResult
    <2>1. Record(Event("tool_result", head, SkipStatus(exit))) \/ Refuse
      BY <1>21 DEF SkipResult, Emit, Abandon
    <2>2. OwnLog /\ OwnStore
      BY <2>1, EndWords, OwnPublished
         DEF EventTypes, Infos, RuntimeStates, TerminalStates
    <2> QED BY <1>21, <2>2 DEF SkipResult, OwnMove, OwnStore, Emit, Abandon
  <1>22. CASE SkipDone
    BY <1>0, <1>22 DEF SkipDone, OwnMove
  <1>23. CASE EmitError
    <2>1. Record(Event("error", 0, "FAILED")) \/ Refuse
      BY <1>23 DEF EmitError, EmitBestEffort
    <2>2. OwnLog /\ OwnStore
      BY <2>1, OwnPublished
         DEF EventTypes, Infos, RuntimeStates, TerminalStates
    <2> QED BY <1>23, <2>2 DEF EmitError, OwnMove, OwnStore, EmitBestEffort
  <1>24. CASE EmitTurnEnd
    <2>1. Record(Event("turn_end", 0, EndState(exit))) \/ Refuse
      BY <1>24 DEF EmitTurnEnd, TurnOver, Abandon
    <2>2. OwnLog /\ OwnStore
      BY <2>1, EndWords, OwnPublished
         DEF EventTypes, Infos, RuntimeStates, TerminalStates
    <2> QED
      BY <1>24, <2>2
         DEF EmitTurnEnd, OwnMove, OwnStore, TurnOver, Abandon
  <1>25. CASE HandleRaisedLimit
    <2>1. Record(Event("turn_end", 0, EndState(exit))) \/ Refuse
      BY <1>25 DEF HandleRaisedLimit, TurnOver
    <2>2. OwnLog /\ OwnStore
      BY <2>1, EndWords, OwnPublished
         DEF EventTypes, Infos, RuntimeStates, TerminalStates
    <2> QED BY <1>25, <2>2 DEF HandleRaisedLimit, OwnMove, OwnStore, TurnOver
  <1>26. CASE EmitAgentEnd
    <2>1. Record(Event("agent_end", 0, state)) \/ Refuse
      BY <1>26 DEF EmitAgentEnd, EmitBestEffort
    <2>2. OwnLog /\ OwnStore
      BY <2>1, OwnPublished
         DEF EventTypes, Infos, RuntimeStates, TerminalStates
    <2> QED BY <1>26, <2>2 DEF EmitAgentEnd, OwnMove, OwnStore, EmitBestEffort
  <1>27. CASE EmitSessionEnd
    <2>1. Record(Event("session_end", 0, state)) \/ Refuse
      BY <1>27 DEF EmitSessionEnd, EmitBestEffort
    <2>2. OwnLog /\ OwnStore
      BY <2>1, OwnPublished
         DEF EventTypes, Infos, RuntimeStates, TerminalStates
    <2> QED
      BY <1>27, <2>2
         DEF EmitSessionEnd, OwnMove, OwnStore, EmitBestEffort
  <1>28. CASE CloseEnvironment
    BY <1>0, <1>28 DEF CloseEnvironment, OwnMove
  <1> QED
    BY <1>1, <1>2, <1>3, <1>4, <1>5, <1>6, <1>7, <1>8, <1>9, <1>10, <1>11,
       <1>12, <1>13, <1>14, <1>15, <1>16, <1>17, <1>18, <1>19, <1>20, <1>21,
       <1>22, <1>23, <1>24, <1>25, <1>26, <1>27, <1>28 DEF OwnStep

(* No request and no unasked "allow" is added to the log by itself. *)
LEMMA OwnStepApproval ==
  ASSUME TypeOK, TypeOK', ApprovalInv, OwnLog, OwnMove, UNCHANGED serviceVars
  PROVE  (SlotInv /\ AskedInv /\ ApprovedByUser)'
  <1>0. head \in Nat /\ head' \in Nat
    BY DEF TypeOK
  <1>typed. \A i \in DOMAIN log : log[i].call \in Nat
    <2>1. \A f \in Events : f.call \in Nat
      BY DEF Events
    <2>2. \A i \in DOMAIN log : log[i] \in Events
      BY DEF TypeOK
    <2> QED BY <2>1, <2>2
  <1>1. SlotInv'
    BY DEF OwnMove, SlotInv
  <1>2. CASE UNCHANGED log
    <2>1. AskedInv'
      BY <1>0, <1>typed, <1>2 DEF ApprovalInv, AskedInv, OwnMove
    <2>2. ApprovedByUser'
      BY <1>2 DEF ApprovalInv, ApprovedByUser, serviceVars, client
    <2> QED BY <1>1, <2>1, <2>2
  <1>3. ASSUME NEW e \in Events, ~storeFailed, OwnEvent(e),
               log' = Append(log, e)
        PROVE  AskedInv' /\ ApprovedByUser'
    <2>1. /\ DOMAIN log = 1 .. Len(log) /\ DOMAIN log' = 1 .. (Len(log) + 1)
          /\ \A i \in 1 .. Len(log) : log'[i] = log[i]
          /\ log'[Len(log) + 1] = e /\ Len(log) \in Nat
      BY <1>3, AppendedLog
    <2>3. AskedInv'
      BY <1>0, <1>typed, <1>3, <2>1
         DEF ApprovalInv, AskedInv, OwnMove, OwnEvent
    <2>4. ASSUME NEW i \in 1 .. Len(log), log[i].type = "approval_request",
                 e = Allow(log[i].call)
          PROVE  FALSE
      <3>1. pc = "decide" /\ Allow(log[i].call) = Allow(head)
        BY <1>3, <1>typed, <2>1, <2>4 DEF OwnEvent
      <3>2. log[i].call = head
        BY <3>1 DEF Allow, Event
      <3> QED
        BY <1>0, <1>3, <2>1, <2>4, <3>1, <3>2 DEF ApprovalInv, AskedInv
    <2>5. ApprovedByUser'
      BY <2>1, <2>4 DEF ApprovalInv, ApprovedByUser, Allow, serviceVars, client
    <2> QED BY <2>3, <2>5
  <1> QED BY <1>1, <1>2, <1>3 DEF OwnLog

(* The slot is opened for the head when the request is published. *)
LEMMA RequestApprovalKept ==
  ASSUME TypeOK, ApprovalInv, RequestApproval
  PROVE  (SlotInv /\ AskedInv /\ ApprovedByUser)'
  <1> DEFINE e == Event("approval_request", head, "ask")
  <1>1. e \in Events
    BY EventType DEF EventTypes, Infos, TypeOK
  <1>2. /\ head' = head /\ approvals' = approvals
        /\ pendingId' = head /\ response' = "none"
    BY DEF RequestApproval, AskApproval, Emit, Abandon, plans, client
  <1>3. SlotInv'
    BY <1>2 DEF SlotInv
  <1>4. CASE Refuse
    <2>1. log' = log
      BY <1>4 DEF Refuse
    <2>2. storeFailed' = TRUE => storeFailed'
      OBVIOUS
    <2>3. AskedInv'
      BY <1>4, <2>2 DEF AskedInv, Refuse
    <2>4. ApprovedByUser'
      BY <1>2, <2>1 DEF ApprovalInv, ApprovedByUser
    <2> QED BY <1>3, <2>3, <2>4
  <1>5. CASE Record(e)
    <2>1. /\ DOMAIN log = 1 .. Len(log) /\ DOMAIN log' = 1 .. (Len(log) + 1)
          /\ \A i \in 1 .. Len(log) : log'[i] = log[i]
          /\ log'[Len(log) + 1] = e /\ Len(log) \in Nat
      BY <1>1, <1>5, AppendedLog DEF Record
    <2>2. pc' = "waiting" /\ pc = "decide" /\ ~storeFailed
      BY <1>5 DEF RequestApproval, AskApproval, Emit, Record, Refuse, Goto
    <2>3. e.type = "approval_request" /\ e.call = head
      BY DEF Event
    <2>4. AskedInv'
      BY <1>2, <2>1, <2>2, <2>3 DEF ApprovalInv, AskedInv
    <2>5. \A c : e # Allow(c)
      BY DEF Event, Allow
    <2>6. ApprovedByUser'
      BY <1>2, <2>1, <2>5 DEF ApprovalInv, ApprovedByUser, Allow
    <2> QED BY <1>3, <2>4, <2>6
  <1> QED BY <1>4, <1>5 DEF RequestApproval, AskApproval, Emit

(* What the wait returns is recorded as the decision on the head. *)
LEMMA EndWaitKept ==
  ASSUME TypeOK, ApprovalInv, EndWait
  PROVE  (SlotInv /\ AskedInv /\ ApprovedByUser)'
  <1> DEFINE d == IF Verdict THEN "allow" ELSE "deny"
             e == Event("policy_decision", head, d)
  <1>1. e \in Events
    BY EventType DEF EventTypes, Infos, TypeOK
  <1>2. head' = head /\ approvals' = approvals /\ pc = "waiting"
    BY DEF EndWait, Approve, Emit, Abandon, plans, client
  <1>3. pc' \in {"execute", "result", "error"}
    BY DEF EndWait, Approve, Emit, Abandon, Goto, Leave
  <1>4. SlotInv'
    BY <1>3 DEF SlotInv
  <1>5. CASE Refuse
    <2>1. log' = log
      BY <1>5 DEF Refuse
    <2>2. storeFailed' = TRUE => storeFailed'
      OBVIOUS
    <2>3. AskedInv'
      BY <1>5, <2>2 DEF AskedInv, Refuse
    <2>4. ApprovedByUser'
      BY <1>2, <2>1 DEF ApprovalInv, ApprovedByUser
    <2> QED BY <1>4, <2>3, <2>4
  <1>6. CASE Record(e) /\ Goto(IF Verdict THEN "execute" ELSE "result")
    <2>1. /\ DOMAIN log = 1 .. Len(log) /\ DOMAIN log' = 1 .. (Len(log) + 1)
          /\ \A i \in 1 .. Len(log) : log'[i] = log[i]
          /\ log'[Len(log) + 1] = e /\ Len(log) \in Nat
      BY <1>1, <1>6, AppendedLog DEF Record
    <2>2. pc' \in {"execute", "result"} /\ ~storeFailed
      BY <1>6 DEF Record, Goto
    <2>3. e.type # "approval_request"
      BY DEF Event
    <2>4. AskedInv'
      BY <1>2, <2>1, <2>2, <2>3 DEF ApprovalInv, AskedInv
    <2>5. ASSUME NEW c, e = Allow(c)
          PROVE  c \in approvals
      <3>1. c = head /\ d = "allow"
        BY <2>5 DEF Allow, Event
      <3>2. Verdict
        BY <3>1
      <3> QED BY <1>2, <3>1, <3>2 DEF Verdict, ApprovalInv, SlotInv
    <2>6. ApprovedByUser'
      BY <1>2, <2>1, <2>5 DEF ApprovalInv, ApprovedByUser, Allow
    <2> QED BY <1>4, <2>4, <2>6
  <1> QED BY <1>5, <1>6 DEF EndWait, Approve, Emit

(* A frontend's answer reaches the slot only under the request's name. *)
LEMMA AnswerKept ==
  ASSUME ApprovalInv, ApprovalResponse
  PROVE  (SlotInv /\ AskedInv /\ ApprovedByUser)'
  <1> PICK id \in {log[i].call : i \in {k \in 1 .. seen :
                                        log[k].type = "approval_request"}} :
         \E approved \in BOOLEAN : AnswerRequest(id, approved)
    BY Zenon DEF ApprovalResponse
  <1> PICK approved \in BOOLEAN : AnswerRequest(id, approved)
    OBVIOUS
  <1>1. /\ approvals' = approvals \cup {c \in {id} : approved}
        /\ UNCHANGED <<pc, head, log, storeFailed, pendingId>>
        /\ \/ response' = response
           \/ pendingId = id /\ response' = IF approved THEN "yes" ELSE "no"
    BY DEF AnswerRequest, vars, plans, journal
  <1>2. SlotInv'
    BY <1>1 DEF ApprovalInv, SlotInv
  <1>3. AskedInv'
    BY <1>1 DEF ApprovalInv, AskedInv
  <1>4. ApprovedByUser'
    BY <1>1 DEF ApprovalInv, ApprovedByUser
  <1> QED BY <1>2, <1>3, <1>4

(* The other steps change neither the slot nor the log. *)
LEMMA ElsewhereKept ==
  ASSUME ApprovalInv,
         UNCHANGED <<head, log, pendingId, response, approvals>>,
         \/ UNCHANGED <<pc, storeFailed>>
         \/ UNCHANGED pc /\ storeFailed'
         \/ UNCHANGED storeFailed /\ pc = "idle" /\ pc' # "waiting"
  PROVE  (SlotInv /\ AskedInv /\ ApprovedByUser)'
  <1>1. SlotInv'
    BY DEF ApprovalInv, SlotInv
  <1>2. AskedInv'
    BY DEF ApprovalInv, AskedInv
  <1>3. ApprovedByUser'
    BY DEF ApprovalInv, ApprovedByUser
  <1> QED BY <1>1, <1>2, <1>3

LEMMA ApprovalNext ==
  ASSUME ApprovalInv, [ServiceNext]_allVars
  PROVE  ApprovalInv'
  <1> USE DEF channel, client
  <1>0. LoopInv' /\ TypeOK /\ TypeOK'
    BY LoopInvKept DEF ApprovalInv, LoopInv
  <1> SUFFICES (SlotInv /\ AskedInv /\ ApprovedByUser)'
    BY <1>0 DEF ApprovalInv
  <1>1. CASE AdvanceLoop
    BY <1>0, <1>1, OwnStepGrowth, OwnStepApproval DEF AdvanceLoop
  <1>2. CASE RequestApproval
    BY <1>0, <1>2, RequestApprovalKept
  <1>3. CASE EndWait
    BY <1>0, <1>3, EndWaitKept
  <1>4. CASE ApprovalResponse
    BY <1>4, AnswerKept
  <1>5. CASE SubmitTask \/ Interrupt \/ CloseSession \/ CallClose
    BY <1>5, ElsewhereKept
       DEF SubmitTask, Interrupt, CloseSession, CallClose, RequestStop, vars,
           plans, journal
  <1>6. CASE SenderStep
    BY <1>6, ElsewhereKept
       DEF SenderStep, FinishInterrupt, FinishStop, RequestCancel, Cancel,
           vars, plans, journal
  <1>7. CASE TakeTask \/ TakeClose
    BY <1>7, ElsewhereKept
       DEF TakeTask, TakeClose, RunTurn, Close, Goto, Leave, vars, plans,
           journal
  <1>8. CASE Notify \/ LoopReturns \/ ClearFlag \/ WorkerExits
    BY <1>8, ElsewhereKept
       DEF Notify, LoopReturns, ClearFlag, WorkerExits, vars, plans, journal
  <1>9. CASE CloseStore
    <2>1. storeFailed' = TRUE => storeFailed'
      OBVIOUS
    <2> QED BY <1>9, <2>1, ElsewhereKept DEF CloseStore, plans
  <1>10. CASE CloseStream \/ ConsumerStep
    BY <1>10, ElsewhereKept
       DEF CloseStream, ConsumerStep, Read, EndRead, vars, plans, journal
  <1>11. CASE UNCHANGED allVars
    BY <1>11, ElsewhereKept DEF allVars, serviceVars, vars, plans, journal
  <1> QED
    BY <1>1, <1>2, <1>3, <1>4, <1>5, <1>6, <1>7, <1>8, <1>9, <1>10, <1>11
       DEF ServiceNext, Send, WorkerStep, CloserStep

(* "This port never auto-approves": for every budget, every number of      *)
(* tasks and every order in which answers, interrupts and stops arrive, a  *)
(* call that was put to the user is allowed only if a frontend has         *)
(* answered yes to that very call.                                         *)
THEOREM ApprovalFailsClosed == ServiceSpec => []ApprovedByUser
  <1>1. ServiceInit => ApprovalInv
    BY ServiceInitLoop
       DEF ServiceInit, Init, ApprovalInv, SlotInv, AskedInv, ApprovedByUser
  <1>2. ApprovalInv => ApprovedByUser
    BY DEF ApprovalInv
  <1> QED BY <1>1, <1>2, ApprovalNext, PTL DEF ServiceSpec

-----------------------------------------------------------------------------
(***************************************************************************)
(* How a step of the loop moves through a turn and through the end of the  *)
(* session.                                                                *)
(***************************************************************************)
OwnFlow ==
  /\ UNCHANGED turns /\ (cancelled => cancelled')
  /\ modelSteps' = modelSteps \/ (pc = "top" /\ ~cancelled)
  /\ storeFailed => storeFailed'
  /\ storeFailed' => storeFailed \/ StoreMayFail
  /\ \/ /\ pc \in InTurn
        /\ pc' \in (InTurn \ {"waiting"}) \cup {"idle", "agent_end"}
        /\ UNCHANGED sessionClosed
     \/ /\ pc = "agent_end" /\ pc' = "session_end"
        /\ UNCHANGED <<sessionClosed, envStarted>>
     \/ /\ pc = "session_end" /\ pc' = "close_environment"
        /\ UNCHANGED <<sessionClosed, envStarted>>
     \/ /\ pc = "close_environment" /\ pc' = "idle"
        /\ sessionClosed' = TRUE /\ envStarted' = FALSE /\ UNCHANGED log

LEMMA OwnStepFlow ==
  ASSUME TypeOK, OwnStep
  PROVE  OwnFlow
  <1> USE DEF OwnFlow, InTurn, Goto, Leave, lifecycle, budget, signals,
              journal, plans, TypeOK
  <1>1. CASE StartEnvironment
    BY <1>1 DEF StartEnvironment
  <1>2. CASE EmitSessionStart
    BY <1>2 DEF EmitSessionStart, Emit, Record, Refuse, Abandon
  <1>3. CASE EmitAgentStart
    BY <1>3 DEF EmitAgentStart, Emit, Record, Refuse, Abandon
  <1>4. CASE EmitUserMessage
    BY <1>4 DEF EmitUserMessage, Emit, Record, Refuse, Abandon
  <1>5. CASE BeginStep
    BY <1>5 DEF BeginStep
  <1>6. CASE PrepareContext
    BY <1>6 DEF PrepareContext
  <1>7. CASE Compact
    BY <1>7 DEF Compact, Emit, Record, Refuse, Abandon
  <1>8. CASE Respond
    BY <1>8 DEF Respond, Emit, Record, Refuse, Abandon
  <1>9. CASE RetryOverflow
    BY <1>9 DEF RetryOverflow, Emit, Record, Refuse, Abandon
  <1>10. CASE ModelRaises
    BY <1>10 DEF ModelRaises
  <1>11. CASE AcceptResponse
    BY <1>11 DEF AcceptResponse
  <1>12. CASE RecoverEmptyResponse
    BY <1>12 DEF RecoverEmptyResponse, Emit, Record, Refuse, Abandon
  <1>13. CASE Dispatch
    BY <1>13 DEF Dispatch, Emit, Record, Refuse, Abandon
  <1>14. CASE RejectCall
    BY <1>14 DEF RejectCall, Emit, Record, Refuse, Abandon
  <1>15. CASE AllowCall
    BY <1>15 DEF AllowCall, Emit, Record, Refuse, Abandon
  <1>16. CASE Execute
    BY <1>16 DEF Execute
  <1>17. CASE PublishResult
    BY <1>17 DEF PublishResult, Emit, Record, Refuse, Abandon
  <1>18. CASE Settle
    BY <1>18 DEF Settle
  <1>19. CASE SkipCall
    BY <1>19 DEF SkipCall, Emit, Record, Refuse, Abandon
  <1>20. CASE SkipPolicy
    BY <1>20 DEF SkipPolicy, Emit, Record, Refuse, Abandon
  <1>21. CASE SkipResult
    BY <1>21 DEF SkipResult, Emit, Record, Refuse, Abandon
  <1>22. CASE SkipDone
    BY <1>22 DEF SkipDone
  <1>23. CASE EmitError
    BY <1>23 DEF EmitError, EmitBestEffort, Record, Refuse
  <1>24. CASE EmitTurnEnd
    BY <1>24 DEF EmitTurnEnd, TurnOver, Record, Refuse, Abandon
  <1>25. CASE HandleRaisedLimit
    BY <1>25 DEF HandleRaisedLimit, TurnOver, Record, Refuse
  <1>26. CASE EmitAgentEnd
    BY <1>26 DEF EmitAgentEnd, EmitBestEffort, Record, Refuse
  <1>27. CASE EmitSessionEnd
    BY <1>27 DEF EmitSessionEnd, EmitBestEffort, Record, Refuse
  <1>28. CASE CloseEnvironment
    BY <1>28 DEF CloseEnvironment
  <1> QED
    BY <1>1, <1>2, <1>3, <1>4, <1>5, <1>6, <1>7, <1>8, <1>9, <1>10, <1>11,
       <1>12, <1>13, <1>14, <1>15, <1>16, <1>17, <1>18, <1>19, <1>20, <1>21,
       <1>22, <1>23, <1>24, <1>25, <1>26, <1>27, <1>28 DEF OwnStep

(* The events that report a state, and the others. *)
StateEvents == {"approval_request", "turn_end", "agent_end", "session_end"}

PlainEvents == EventTypes \ StateEvents

Reports(t) == log' = Append(log, Event(t, 0, state'))

(* What a step of the loop tells the stream about the state of the loop. *)
OwnShows ==
  \/ storeFailed' = TRUE
  \/ /\ UNCHANGED <<log, state>>
     /\ \/ pc \in InTurn /\ pc' \in InTurn
        \/ pc = "close_environment" /\ pc' = "idle"
  \/ /\ pc \in InTurn /\ pc' \in InTurn /\ UNCHANGED state
     /\ \E t \in PlainEvents, c \in Nat, i \in Infos :
          log' = Append(log, Event(t, c, i))
  \/ /\ pc \in InTurn /\ pc' \in {"idle", "agent_end"} /\ Reports("turn_end")
     /\ pc' = "idle" => state' \notin TerminalStates
  \/ /\ pc = "agent_end" /\ pc' = "session_end" /\ Reports("agent_end")
     /\ UNCHANGED state
  \/ /\ pc = "session_end" /\ pc' = "close_environment"
     /\ Reports("session_end") /\ UNCHANGED state

LEMMA ShowsNothing ==
  ASSUME NEW t \in PlainEvents, NEW c \in Nat, NEW i \in Infos,
         Record(Event(t, c, i)) \/ Refuse,
         storeFailed' = TRUE \/ (pc \in InTurn /\ pc' \in InTurn),
         UNCHANGED state
  PROVE  OwnShows
  <1>1. CASE Refuse
    BY <1>1 DEF Refuse, OwnShows
  <1>2. CASE Record(Event(t, c, i))
    <2>1. log' = Append(log, Event(t, c, i))
      BY <1>2 DEF Record
    <2> QED BY <2>1 DEF OwnShows
  <1> QED BY <1>1, <1>2

LEMMA OwnStepShows ==
  ASSUME TypeOK, OwnStep
  PROVE  OwnShows
  <1> USE DEF Goto, Leave, lifecycle, journal, plans
  <1>typed. /\ 0 \in Nat /\ head \in Nat /\ exit \in Exits
            /\ outcome.status \in Infos /\ state \in Infos
    BY DEF TypeOK, Infos
  <1>words. /\ PlainEvents = {"session_start", "agent_start",
                 "user_message", "assistant_message", "tool_call",
                 "policy_decision", "tool_result", "compaction", "retry",
                 "error"}
            /\ {"RUNNING", "FAILED", "text", "declared", "allow", "deny",
                "recoverable", "context_overflow"} \subseteq Infos
    BY DEF PlainEvents, StateEvents, EventTypes, Infos, RuntimeStates,
           TerminalStates
  <1> USE <1>typed, <1>words
  <1>1. CASE StartEnvironment
    BY <1>1 DEF StartEnvironment, OwnShows, InTurn
  <1>2. CASE EmitSessionStart
    <2>1. Record(Event("session_start", 0, "RUNNING")) \/ Refuse
      BY <1>2 DEF EmitSessionStart, Emit, Abandon
    <2>2. storeFailed' = TRUE \/ (pc \in InTurn /\ pc' \in InTurn)
      BY <1>2 DEF EmitSessionStart, Emit, Record, Refuse, Abandon, InTurn
    <2> QED BY <1>2, <2>1, <2>2, ShowsNothing DEF EmitSessionStart
  <1>3. CASE EmitAgentStart
    <2>1. Record(Event("agent_start", 0, "RUNNING")) \/ Refuse
      BY <1>3 DEF EmitAgentStart, Emit, Abandon
    <2>2. storeFailed' = TRUE \/ (pc \in InTurn /\ pc' \in InTurn)
      BY <1>3 DEF EmitAgentStart, Emit, Record, Refuse, Abandon, InTurn
    <2> QED BY <1>3, <2>1, <2>2, ShowsNothing DEF EmitAgentStart
  <1>4. CASE EmitUserMessage
    <2>1. Record(Event("user_message", 0, "text")) \/ Refuse
      BY <1>4 DEF EmitUserMessage, Emit, Abandon
    <2>2. storeFailed' = TRUE \/ (pc \in InTurn /\ pc' \in InTurn)
      BY <1>4 DEF EmitUserMessage, Emit, Record, Refuse, Abandon, InTurn
    <2> QED BY <1>4, <2>1, <2>2, ShowsNothing DEF EmitUserMessage
  <1>5. CASE BeginStep
    BY <1>5 DEF BeginStep, OwnShows, InTurn
  <1>6. CASE PrepareContext
    BY <1>6 DEF PrepareContext, OwnShows, InTurn
  <1>7. CASE Compact
    <2> PICK status \in {"success", "failed"} :
          Emit(Event("compaction", 0, status),
               Goto("prepare") /\ UNCHANGED <<context, plans>>)
      BY <1>7 DEF Compact
    <2>1. status \in Infos
      BY DEF Infos, ToolResultStatuses
    <2>2. Record(Event("compaction", 0, status)) \/ Refuse
      BY DEF Emit
    <2>3. storeFailed' = TRUE \/ (pc \in InTurn /\ pc' \in InTurn)
      BY <1>7 DEF Compact, Emit, Abandon, Refuse, InTurn
    <2> QED BY <1>7, <2>1, <2>2, <2>3, ShowsNothing DEF Compact
  <1>8. CASE Respond
    <2> PICK n \in 0 .. MaxCallsPerResponse,
             kind \in {"text", "empty", "tools"} :
          Emit(Event("assistant_message", issued + n, kind),
               /\ Goto("declared")
               /\ issued' = issued + n /\ UNCHANGED head
               /\ Remember("assistant", issued + n))
      BY <1>8, Zenon DEF Respond
    <2>1. issued + n \in Nat
      BY LoopAssumption DEF LoopAssumption, TypeOK
    <2>2. kind \in Infos
      BY DEF Infos
    <2>3. Record(Event("assistant_message", issued + n, kind)) \/ Refuse
      BY DEF Emit
    <2>4. storeFailed' = TRUE \/ (pc \in InTurn /\ pc' \in InTurn)
      BY <1>8 DEF Respond, Emit, Abandon, Refuse, InTurn
    <2> QED BY <1>8, <2>1, <2>2, <2>3, <2>4, ShowsNothing DEF Respond
  <1>9. CASE RetryOverflow
    <2>1. Record(Event("retry", 0, "context_overflow")) \/ Refuse
      BY <1>9 DEF RetryOverflow, Emit, Abandon
    <2>2. storeFailed' = TRUE \/ (pc \in InTurn /\ pc' \in InTurn)
      BY <1>9 DEF RetryOverflow, Emit, Record, Refuse, Abandon, InTurn
    <2> QED BY <1>9, <2>1, <2>2, ShowsNothing DEF RetryOverflow
  <1>10. CASE ModelRaises
    BY <1>10 DEF ModelRaises, OwnShows, InTurn
  <1>11. CASE AcceptResponse
    BY <1>11 DEF AcceptResponse, OwnShows, InTurn
  <1>12. CASE RecoverEmptyResponse
    <2>1. Record(Event("error", 0, "recoverable")) \/ Refuse
      BY <1>12 DEF RecoverEmptyResponse, Emit, Abandon
    <2>2. storeFailed' = TRUE \/ (pc \in InTurn /\ pc' \in InTurn)
      BY <1>12 DEF RecoverEmptyResponse, Emit, Record, Refuse, Abandon, InTurn
    <2> QED BY <1>12, <2>1, <2>2, ShowsNothing DEF RecoverEmptyResponse
  <1>13. CASE Dispatch
    <2>1. CASE UNCHANGED log
      BY <1>13, <2>1 DEF Dispatch, Emit, Refuse, Record, OwnShows, InTurn
    <2>2. CASE Emit(Event("tool_call", head, "declared"),
                    Goto("decide") /\ UNCHANGED <<context, plans>>)
      <3>1. Record(Event("tool_call", head, "declared")) \/ Refuse
        BY <2>2 DEF Emit
      <3>2. storeFailed' = TRUE \/ (pc \in InTurn /\ pc' \in InTurn)
        BY <1>13, <2>2 DEF Dispatch, Emit, Abandon, InTurn
      <3> QED BY <1>13, <3>1, <3>2, ShowsNothing DEF Dispatch
    <2> QED BY <1>13, <2>1, <2>2 DEF Dispatch
  <1>14. CASE RejectCall
    <2>1. Record(Event("policy_decision", head, "deny")) \/ Refuse
      BY <1>14 DEF RejectCall, Emit, Abandon
    <2>2. storeFailed' = TRUE \/ (pc \in InTurn /\ pc' \in InTurn)
      BY <1>14 DEF RejectCall, Emit, Record, Refuse, Abandon, InTurn
    <2> QED BY <1>14, <2>1, <2>2, ShowsNothing DEF RejectCall
  <1>15. CASE AllowCall
    <2>1. Record(Event("policy_decision", head, "allow")) \/ Refuse
      BY <1>15 DEF AllowCall, Emit, Abandon
    <2>2. storeFailed' = TRUE \/ (pc \in InTurn /\ pc' \in InTurn)
      BY <1>15 DEF AllowCall, Emit, Record, Refuse, Abandon, InTurn
    <2> QED BY <1>15, <2>1, <2>2, ShowsNothing DEF AllowCall
  <1>16. CASE Execute
    BY <1>16 DEF Execute, OwnShows, InTurn
  <1>17. CASE PublishResult
    <2>1. Record(Event("tool_result", head, outcome.status)) \/ Refuse
      BY <1>17 DEF PublishResult, Emit, Abandon
    <2>2. storeFailed' = TRUE \/ (pc \in InTurn /\ pc' \in InTurn)
      BY <1>17 DEF PublishResult, Emit, Record, Refuse, Abandon, InTurn
    <2> QED BY <1>17, <2>1, <2>2, ShowsNothing DEF PublishResult
  <1>18. CASE Settle
    BY <1>18 DEF Settle, OwnShows, InTurn
  <1>19. CASE SkipCall
    <2>1. Record(Event("tool_call", head, "declared")) \/ Refuse
      BY <1>19 DEF SkipCall, Emit, Abandon
    <2>2. storeFailed' = TRUE \/ (pc \in InTurn /\ pc' \in InTurn)
      BY <1>19 DEF SkipCall, Emit, Record, Refuse, Abandon, InTurn
    <2> QED BY <1>19, <2>1, <2>2, ShowsNothing DEF SkipCall
  <1>20. CASE SkipPolicy
    <2>1. Record(Event("policy_decision", head, "deny")) \/ Refuse
      BY <1>20 DEF SkipPolicy, Emit, Abandon
    <2>2. storeFailed' = TRUE \/ (pc \in InTurn /\ pc' \in InTurn)
      BY <1>20 DEF SkipPolicy, Emit, Record, Refuse, Abandon, InTurn
    <2> QED BY <1>20, <2>1, <2>2, ShowsNothing DEF SkipPolicy
  <1>21. CASE SkipResult
    <2>1. Record(Event("tool_result", head, SkipStatus(exit))) \/ Refuse
      BY <1>21 DEF SkipResult, Emit, Abandon
    <2>2. storeFailed' = TRUE \/ (pc \in InTurn /\ pc' \in InTurn)
      BY <1>21 DEF SkipResult, Emit, Record, Refuse, Abandon, InTurn
    <2> QED BY <1>21, <2>1, <2>2, ShowsNothing, EndWords DEF SkipResult
  <1>22. CASE SkipDone
    BY <1>22 DEF SkipDone, OwnShows, InTurn
  <1>23. CASE EmitError
    <2>1. Record(Event("error", 0, "FAILED")) \/ Refuse
      BY <1>23 DEF EmitError, EmitBestEffort
    <2>2. storeFailed' = TRUE \/ (pc \in InTurn /\ pc' \in InTurn)
      BY <1>23 DEF EmitError, EmitBestEffort, Record, Refuse, InTurn
    <2> QED BY <1>23, <2>1, <2>2, ShowsNothing DEF EmitError
  <1>24. CASE EmitTurnEnd
    BY <1>24
       DEF EmitTurnEnd, TurnOver, Record, Refuse, Abandon, EndState,
           TerminalStates, OwnShows, Reports, InTurn
  <1>25. CASE HandleRaisedLimit
    BY <1>25
       DEF HandleRaisedLimit, TurnOver, Record, Refuse, EndState,
           TerminalStates, OwnShows, Reports, InTurn
  <1>26. CASE EmitAgentEnd
    BY <1>26
       DEF EmitAgentEnd, EmitBestEffort, Record, Refuse, OwnShows, Reports
  <1>27. CASE EmitSessionEnd
    BY <1>27
       DEF EmitSessionEnd, EmitBestEffort, Record, Refuse, OwnShows, Reports
  <1>28. CASE CloseEnvironment
    BY <1>28 DEF CloseEnvironment, OwnShows, InTurn
  <1> QED
    BY <1>1, <1>2, <1>3, <1>4, <1>5, <1>6, <1>7, <1>8, <1>9, <1>10, <1>11,
       <1>12, <1>13, <1>14, <1>15, <1>16, <1>17, <1>18, <1>19, <1>20, <1>21,
       <1>22, <1>23, <1>24, <1>25, <1>26, <1>27, <1>28 DEF OwnStep

-----------------------------------------------------------------------------
(***************************************************************************)
(* The invariant of the service.                                           *)
(***************************************************************************)

(* A task is in the queue, and so is the command to close. *)
Waits == turnInProgress /\ worker \notin {"turn", "flag"}
Told == stopped /\ lock # "stop" /\ worker \notin {"closing", "exit", "done"}

(* One task at a time is accepted, and none after the close. *)
QueueInv ==
  /\ queue = IF Waits THEN IF Told THEN <<"submit", "close">> ELSE <<"submit">>
                      ELSE IF Told THEN <<"close">> ELSE <<>>
  /\ worker \in {"turn", "flag"} => turnInProgress
  /\ worker \in {"closing", "exit", "done"} =>
       stopped /\ lock # "stop" /\ ~turnInProgress

(* A stop or an interrupt has reached the turn it is about. *)
StopInv ==
  /\ lock = "stop" => stopped
  /\ interrupted => cancelled \/ lock = "interrupt"
  /\ stopped /\ lock # "stop" => cancelled \/ ~turnInProgress

(* The loop moves while the worker runs it, one event ahead of the stream. *)
WorkerInv ==
  /\ worker \notin {"turn", "closing"} => pc = "idle" /\ streamed = Len(log)
  /\ worker = "closing" => pc \notin InTurn
  /\ worker = "closing" /\ pc = "idle" => sessionClosed
  /\ worker \in {"exit", "done"} => sessionClosed
  /\ streamed \in Nat /\ streamed =< Len(log) /\ Len(log) =< streamed + 1

TasksInv ==
  storeFailed \/ sessionClosed
    \/ submitted = turns + (IF Waits THEN 1 ELSE 0)

(* The state the stream shows once it has caught up. *)
Shown ==
  IF streamed = Len(log) THEN lastState
                         ELSE ApplyState(lastState, log[Len(log)])

ShownInv ==
  ~storeFailed =>
    /\ pc = "waiting" => Shown = "WAITING_FOR_APPROVAL"
    /\ pc \in {"idle", "session_end", "close_environment"} => Shown = state
    /\ pc \in InTurn => Shown \notin TerminalStates
    /\ pc = "idle" /\ ~sessionClosed => state \notin TerminalStates

(* The store works, and close() waits for the worker. *)
Reliable == ~StoreMayFail /\ ~JoinMayTimeOut

(* A consumer reads what there is, and the last it reads ends the session. *)
StreamInv ==
  /\ storeFailed => worker = "done"
  /\ closer \in {"stream", "done"} => worker = "done"
  /\ streamClosed => worker = "done"
  /\ pc = "close_environment" \/ sessionClosed =>
       Len(log) > 0 /\ log[Len(log)].type = "session_end"
  /\ sessionClosed => ~envStarted
  /\ seen \in Nat /\ seen =< streamed
  /\ ended => streamClosed /\ seen = streamed

-----------------------------------------------------------------------------
(***************************************************************************)
(* Every step of the service keeps it.                                     *)
(***************************************************************************)
LEMMA QueueNext ==
  ASSUME QueueInv, StopInv, [ServiceNext]_allVars
  PROVE  QueueInv'
  <1> USE DEF QueueInv, StopInv, Waits, Told, commands, channel, stream,
              client, vars, lifecycle, budget, signals, journal, plans
  <1>1. CASE SubmitTask
    BY <1>1 DEF SubmitTask, Accepting
  <1>2. CASE ApprovalResponse
    BY <1>2 DEF ApprovalResponse, AnswerRequest
  <1>3. CASE Interrupt
    BY <1>3 DEF Interrupt, Accepting
  <1>4. CASE CloseSession
    BY <1>4 DEF CloseSession, Accepting, RequestStop
  <1>5. CASE FinishInterrupt
    BY <1>5 DEF FinishInterrupt, RequestCancel, Cancel
  <1>6. CASE FinishStop
    BY <1>6 DEF FinishStop, RequestCancel, Cancel
  <1>7. CASE TakeTask
    BY <1>7 DEF TakeTask, RunTurn, Leave
  <1>8. CASE TakeClose
    BY <1>8 DEF TakeClose, Close, Goto
  <1>9. CASE AdvanceLoop
    BY <1>9, OwnStepFlow DEF AdvanceLoop, Running, OwnFlow, serviceVars
  <1>10. CASE RequestApproval
    BY <1>10
       DEF RequestApproval, Running, AskApproval, Emit, Record, Refuse,
           Abandon, Goto, Leave
  <1>11. CASE EndWait
    BY <1>11
       DEF EndWait, Running, Approve, Emit, Record, Refuse, Abandon, Goto,
           Leave
  <1>12. CASE Notify
    BY <1>12 DEF Notify
  <1>13. CASE LoopReturns
    BY <1>13 DEF LoopReturns, Running
  <1>14. CASE ClearFlag
    BY <1>14 DEF ClearFlag
  <1>15. CASE WorkerExits
    BY <1>15 DEF WorkerExits
  <1>16. CASE CallClose
    BY <1>16 DEF CallClose, RequestStop
  <1>17. CASE CloseStore
    BY <1>17 DEF CloseStore
  <1>18. CASE CloseStream
    BY <1>18 DEF CloseStream
  <1>19. CASE Read
    BY <1>19 DEF Read
  <1>20. CASE EndRead
    BY <1>20 DEF EndRead
  <1>21. CASE UNCHANGED allVars
    BY <1>21 DEF allVars, serviceVars
  <1> QED
    BY <1>1, <1>2, <1>3, <1>4, <1>5, <1>6, <1>7, <1>8, <1>9, <1>10, <1>11,
       <1>12, <1>13, <1>14, <1>15, <1>16, <1>17, <1>18, <1>19, <1>20, <1>21
       DEF ServiceNext, Send, SenderStep, WorkerStep, CloserStep, ConsumerStep

LEMMA StopNext ==
  ASSUME TypeOK, QueueInv, StopInv, [ServiceNext]_allVars
  PROVE  StopInv'
  <1> USE DEF QueueInv, StopInv, commands, channel, stream, client, vars,
              lifecycle, budget, signals, journal, plans
  <1>1. CASE SubmitTask
    BY <1>1 DEF SubmitTask, Accepting
  <1>2. CASE ApprovalResponse
    BY <1>2 DEF ApprovalResponse, AnswerRequest
  <1>3. CASE Interrupt
    BY <1>3 DEF Interrupt, Accepting
  <1>4. CASE CloseSession
    BY <1>4 DEF CloseSession, Accepting, RequestStop
  <1>5. CASE FinishInterrupt
    BY <1>5 DEF FinishInterrupt, RequestCancel, Cancel
  <1>6. CASE FinishStop
    BY <1>6 DEF FinishStop, RequestCancel, Cancel
  <1>7. CASE TakeTask
    BY <1>7 DEF TakeTask, RunTurn, Leave
  <1>8. CASE TakeClose
    BY <1>8 DEF TakeClose, Close, Goto
  <1>9. CASE AdvanceLoop
    BY <1>9, OwnStepFlow DEF AdvanceLoop, Running, OwnFlow, serviceVars
  <1>10. CASE RequestApproval
    BY <1>10
       DEF RequestApproval, Running, AskApproval, Emit, Record, Refuse,
           Abandon, Goto, Leave
  <1>11. CASE EndWait
    BY <1>11
       DEF EndWait, Running, Approve, Emit, Record, Refuse, Abandon, Goto,
           Leave
  <1>12. CASE Notify
    BY <1>12 DEF Notify
  <1>13. CASE LoopReturns
    BY <1>13 DEF LoopReturns, Running
  <1>14. CASE ClearFlag
    BY <1>14 DEF ClearFlag
  <1>15. CASE WorkerExits
    BY <1>15 DEF WorkerExits
  <1>16. CASE CallClose
    BY <1>16 DEF CallClose, RequestStop
  <1>17. CASE CloseStore
    BY <1>17 DEF CloseStore
  <1>18. CASE CloseStream
    BY <1>18 DEF CloseStream
  <1>19. CASE Read
    BY <1>19 DEF Read
  <1>20. CASE EndRead
    BY <1>20 DEF EndRead
  <1>21. CASE UNCHANGED allVars
    BY <1>21 DEF allVars, serviceVars
  <1> QED
    BY <1>1, <1>2, <1>3, <1>4, <1>5, <1>6, <1>7, <1>8, <1>9, <1>10, <1>11,
       <1>12, <1>13, <1>14, <1>15, <1>16, <1>17, <1>18, <1>19, <1>20, <1>21
       DEF ServiceNext, Send, SenderStep, WorkerStep, CloserStep, ConsumerStep

LEMMA AddsOne ==
  ASSUME TypeOK, NEW e \in Events, Record(e) \/ Refuse
  PROVE  /\ Len(log) \in Nat
         /\ log' = log \/ (log' = Append(log, e) /\ Len(log') = Len(log) + 1)
  BY AppendedLog DEF Record, Refuse, TypeOK

LEMMA OwnLogAddsOne ==
  ASSUME TypeOK, OwnStep
  PROVE  Len(log) \in Nat /\ (log' = log \/ Len(log') = Len(log) + 1)
  <1>1. OwnLog /\ Len(log) \in Nat
    BY OwnStepGrowth DEF TypeOK
  <1>2. ASSUME NEW e \in Events, log' = Append(log, e)
        PROVE  Len(log') = Len(log) + 1
    BY <1>2, AppendedLog
  <1> QED BY <1>1, <1>2 DEF OwnLog

LEMMA AskedEvent ==
  ASSUME TypeOK
  PROVE  Event("approval_request", head, "ask") \in Events
  BY EventType DEF EventTypes, Infos, TypeOK

LEMMA DecidedEvent ==
  ASSUME TypeOK, NEW b
  PROVE  Event("policy_decision", head, IF b THEN "allow" ELSE "deny")
           \in Events
  BY EventType DEF EventTypes, Infos, TypeOK

LEMMA WorkerNext ==
  ASSUME LoopInv, WorkerInv, [ServiceNext]_allVars
  PROVE  WorkerInv'
  <1> USE DEF WorkerInv, commands, channel, stream, client, vars, lifecycle,
              budget, signals, journal, plans
  <1>0. TypeOK /\ PhaseInv
    BY DEF LoopInv
  <1>1. CASE SubmitTask
    BY <1>1 DEF SubmitTask, Accepting
  <1>2. CASE ApprovalResponse
    BY <1>2 DEF ApprovalResponse, AnswerRequest
  <1>3. CASE Interrupt
    BY <1>3 DEF Interrupt, Accepting
  <1>4. CASE CloseSession
    BY <1>4 DEF CloseSession, Accepting, RequestStop
  <1>5. CASE FinishInterrupt
    BY <1>5 DEF FinishInterrupt, RequestCancel, Cancel
  <1>6. CASE FinishStop
    BY <1>6 DEF FinishStop, RequestCancel, Cancel
  <1>7. CASE TakeTask
    BY <1>7 DEF TakeTask, RunTurn, Leave
  <1>8. CASE TakeClose
    BY <1>8 DEF TakeClose, Close, Goto, InTurn
  <1>9. CASE AdvanceLoop
    <2>1. OwnStep /\ UNCHANGED serviceVars /\ streamed = Len(log)
          /\ worker \in {"turn", "closing"}
      BY <1>9 DEF AdvanceLoop, Running
    <2>2. OwnFlow
      BY <2>1, <1>0, OwnStepFlow
    <2>3. Len(log) \in Nat /\ (log' = log \/ Len(log') = Len(log) + 1)
      BY <2>1, <1>0, OwnLogAddsOne
    <2>4. worker = "closing" =>
            pc' \notin InTurn /\ (pc' = "idle" => sessionClosed')
      BY <2>2 DEF OwnFlow, InTurn
    <2> QED BY <2>1, <2>3, <2>4 DEF serviceVars
  <1>10. CASE RequestApproval
    <2>1. Record(Event("approval_request", head, "ask")) \/ Refuse
      BY <1>10 DEF RequestApproval, AskApproval, Emit
    <2>2. Len(log) \in Nat /\ (log' = log \/ Len(log') = Len(log) + 1)
      BY <1>0, <2>1, AddsOne, AskedEvent
    <2>3. worker = "turn" /\ UNCHANGED <<worker, streamed>>
          /\ streamed = Len(log)
      BY <1>10 DEF RequestApproval, Running, AskApproval, InTurn
    <2> QED BY <2>2, <2>3
  <1>11. CASE EndWait
    <2>1. Record(Event("policy_decision", head,
                       IF Verdict THEN "allow" ELSE "deny")) \/ Refuse
      BY <1>11 DEF EndWait, Approve, Emit
    <2>2. Len(log) \in Nat /\ (log' = log \/ Len(log') = Len(log) + 1)
      BY <1>0, <2>1, AddsOne, DecidedEvent
    <2>3. worker = "turn" /\ UNCHANGED <<worker, streamed>>
          /\ streamed = Len(log)
      BY <1>11 DEF EndWait, Running, Approve, InTurn
    <2> QED BY <2>2, <2>3
  <1>12. CASE Notify
    BY <1>12 DEF Notify
  <1>13. CASE LoopReturns
    BY <1>13 DEF LoopReturns, Running
  <1>14. CASE ClearFlag
    BY <1>14 DEF ClearFlag
  <1>15. CASE WorkerExits
    BY <1>15 DEF WorkerExits
  <1>16. CASE CallClose
    BY <1>16 DEF CallClose, RequestStop
  <1>17. CASE CloseStore
    BY <1>17 DEF CloseStore
  <1>18. CASE CloseStream
    BY <1>18 DEF CloseStream
  <1>19. CASE Read
    BY <1>19 DEF Read
  <1>20. CASE EndRead
    BY <1>20 DEF EndRead
  <1>21. CASE UNCHANGED allVars
    BY <1>21 DEF allVars, serviceVars
  <1> QED
    BY <1>1, <1>2, <1>3, <1>4, <1>5, <1>6, <1>7, <1>8, <1>9, <1>10, <1>11,
       <1>12, <1>13, <1>14, <1>15, <1>16, <1>17, <1>18, <1>19, <1>20, <1>21
       DEF ServiceNext, Send, SenderStep, WorkerStep, CloserStep, ConsumerStep

LEMMA TasksNext ==
  ASSUME LoopInv, QueueInv, WorkerInv, TasksInv, [ServiceNext]_allVars
  PROVE  TasksInv'
  <1> USE DEF TasksInv, Waits, commands, channel, stream, client, vars,
              lifecycle, budget, signals, journal, plans
  <1>0. TypeOK /\ PhaseInv
    BY DEF LoopInv
  <1>1. CASE SubmitTask
    <2>1. ~turnInProgress /\ turnInProgress' = TRUE
          /\ submitted' = submitted + 1 /\ ~stopped
          /\ UNCHANGED <<turns, worker, storeFailed, sessionClosed>>
      BY <1>1 DEF SubmitTask, Accepting
    <2>2. worker \notin {"turn", "flag"} /\ ~Waits /\ Waits'
      BY <2>1 DEF QueueInv
    <2>3. storeFailed \/ sessionClosed \/ submitted = turns
      BY <1>0, <2>2 DEF TypeOK
    <2>4. submitted = turns => submitted' = turns' + 1
      BY <2>1
    <2> QED BY <2>1, <2>2, <2>3, <2>4
  <1>2. CASE ApprovalResponse
    BY <1>2 DEF ApprovalResponse, AnswerRequest
  <1>3. CASE Interrupt
    BY <1>3 DEF Interrupt, Accepting
  <1>4. CASE CloseSession
    BY <1>4 DEF CloseSession, Accepting, RequestStop
  <1>5. CASE FinishInterrupt
    BY <1>5 DEF FinishInterrupt, RequestCancel, Cancel
  <1>6. CASE FinishStop
    BY <1>6 DEF FinishStop, RequestCancel, Cancel
  <1>7. CASE TakeTask
    <2>1. worker = "get" /\ pc = "idle" /\ queue # <<>>
          /\ Head(queue) = "submit"
          /\ UNCHANGED <<submitted, turnInProgress, storeFailed,
                         sessionClosed>>
      BY <1>7 DEF TakeTask, RunTurn, WorkerInv
    <2>2. Waits
      BY <2>1 DEF QueueInv
    <2>3. ~Waits'
      BY <1>7 DEF TakeTask
    <2>4. CASE RunTurn
      <3>1. turns' = turns + 1 /\ turns \in Nat
        BY <1>0, <2>4 DEF RunTurn, TypeOK
      <3> QED BY <2>1, <2>2, <2>3, <3>1
    <2>5. CASE sessionClosed \/ turnActive
      <3>1. storeFailed \/ sessionClosed
        BY <1>0, <2>1, <2>5 DEF PhaseInv, InTurn
      <3> QED BY <2>1, <3>1
    <2> QED BY <1>7, <2>4, <2>5 DEF TakeTask
  <1>8. CASE TakeClose
    BY <1>8 DEF TakeClose, Close, Goto
  <1>9. CASE AdvanceLoop
    <2>1. OwnStep /\ UNCHANGED serviceVars
      BY <1>9 DEF AdvanceLoop
    <2>2. OwnFlow
      BY <2>1, <1>0, OwnStepFlow
    <2>3. UNCHANGED turns /\ (storeFailed => storeFailed')
          /\ (sessionClosed => sessionClosed')
      <3>1. sessionClosed' = TRUE => sessionClosed'
        OBVIOUS
      <3> QED BY <2>2, <3>1 DEF OwnFlow
    <2> QED BY <2>1, <2>3 DEF serviceVars
  <1>10. CASE RequestApproval
    BY <1>10
       DEF RequestApproval, Running, AskApproval, Emit, Record, Refuse,
           Abandon, Goto, Leave
  <1>11. CASE EndWait
    BY <1>11
       DEF EndWait, Running, Approve, Emit, Record, Refuse, Abandon, Goto,
           Leave
  <1>12. CASE Notify
    BY <1>12 DEF Notify
  <1>13. CASE LoopReturns
    BY <1>13 DEF LoopReturns, Running
  <1>14. CASE ClearFlag
    BY <1>14 DEF ClearFlag
  <1>15. CASE WorkerExits
    BY <1>15 DEF WorkerExits
  <1>16. CASE CallClose
    BY <1>16 DEF CallClose, RequestStop
  <1>17. CASE CloseStore
    BY <1>17 DEF CloseStore
  <1>18. CASE CloseStream
    BY <1>18 DEF CloseStream
  <1>19. CASE Read
    BY <1>19 DEF Read
  <1>20. CASE EndRead
    BY <1>20 DEF EndRead
  <1>21. CASE UNCHANGED allVars
    BY <1>21 DEF allVars, serviceVars
  <1> QED
    BY <1>1, <1>2, <1>3, <1>4, <1>5, <1>6, <1>7, <1>8, <1>9, <1>10, <1>11,
       <1>12, <1>13, <1>14, <1>15, <1>16, <1>17, <1>18, <1>19, <1>20, <1>21
       DEF ServiceNext, Send, SenderStep, WorkerStep, CloserStep, ConsumerStep

(* What each kind of event makes of the state. *)
LEMMA Applied ==
  ASSUME NEW s, NEW t, NEW c, NEW i
  PROVE  /\ t = "approval_request" /\ s \notin TerminalStates
              => ApplyState(s, Event(t, c, i)) = "WAITING_FOR_APPROVAL"
         /\ t \in {"turn_end", "agent_end", "session_end"}
              => ApplyState(s, Event(t, c, i)) = i
         /\ t \in PlainEvents /\ s \notin TerminalStates
              => ApplyState(s, Event(t, c, i)) \notin TerminalStates
  BY DEF ApplyState, Event, PlainEvents, StateEvents, TerminalStates

LEMMA ShownKept ==
  ASSUME ShownInv, UNCHANGED <<pc, state, sessionClosed, log, storeFailed>>,
         UNCHANGED <<streamed, lastState>>
  PROVE  ShownInv'
  BY DEF ShownInv, Shown

LEMMA ShownAfter ==
  ASSUME TypeOK, streamed = Len(log), UNCHANGED <<streamed, lastState>>,
         NEW e \in Events, log' = Append(log, e)
  PROVE  Shown' = ApplyState(lastState, e)
  <1>1. Len(log') = Len(log) + 1 /\ log'[Len(log) + 1] = e
        /\ Len(log) \in Nat
    BY AppendedLog
  <1> QED BY <1>1 DEF Shown

(* A report of the state shows the state. *)
LEMMA ShownReport ==
  ASSUME TypeOK, TypeOK', streamed = Len(log),
         UNCHANGED <<streamed, lastState>>,
         NEW t \in {"turn_end", "agent_end", "session_end"}, Reports(t)
  PROVE  Shown' = state'
  <1>1. Event(t, 0, state') \in Events
    BY EventType DEF EventTypes, Infos, TypeOK
  <1> QED BY <1>1, ShownAfter, Applied DEF Reports

LEMMA OwnStepShown ==
  ASSUME TypeOK, TypeOK', PhaseInv, PhaseInv', ShownInv, OwnShows,
         OwnFlow, streamed = Len(log), UNCHANGED <<streamed, lastState>>
  PROVE  ShownInv'
  <1>0. Shown = lastState
    BY DEF Shown
  <1>1. CASE storeFailed' = TRUE
    <2>1. storeFailed'
      BY <1>1
    <2> QED BY <2>1 DEF ShownInv
  <1>2. CASE ~storeFailed'
    <2>0. ~storeFailed
      BY <1>2 DEF OwnFlow
    <2>1. CASE UNCHANGED log /\ pc \in InTurn /\ pc' \in InTurn
      <3>1. Shown' = Shown
        BY <2>1 DEF Shown
      <3>2. pc' # "waiting"
        BY <2>1 DEF OwnFlow, InTurn
      <3> QED BY <2>0, <2>1, <3>1, <3>2 DEF ShownInv, InTurn
    <2>2. CASE /\ UNCHANGED <<log, state>> /\ pc = "close_environment"
               /\ pc' = "idle"
      <3>1. Shown' = Shown
        BY <2>2 DEF Shown
      <3>2. sessionClosed' = TRUE => sessionClosed'
        OBVIOUS
      <3>3. sessionClosed'
        BY <2>2, <3>2 DEF OwnFlow, InTurn
      <3> QED BY <2>0, <2>2, <3>1, <3>3 DEF ShownInv, InTurn
    <2>3. ASSUME pc \in InTurn, pc' \in InTurn,
                 NEW t \in PlainEvents, NEW c \in Nat, NEW i \in Infos,
                 log' = Append(log, Event(t, c, i))
          PROVE  ShownInv'
      <3>1. Event(t, c, i) \in Events
        BY EventType DEF PlainEvents
      <3>2. Shown' = ApplyState(lastState, Event(t, c, i))
        BY <2>3, <3>1, ShownAfter
      <3>3. Shown' \notin TerminalStates
        BY <1>0, <2>0, <2>3, <3>2, Applied DEF ShownInv
      <3>4. pc' # "waiting"
        BY <2>3 DEF OwnFlow, InTurn
      <3> QED BY <2>3, <3>3, <3>4 DEF ShownInv, InTurn
    <2>4. ASSUME NEW t \in {"turn_end", "agent_end", "session_end"},
                 Reports(t), pc' \notin InTurn,
                 pc' = "idle" => state' \notin TerminalStates
          PROVE  ShownInv'
      <3>1. Shown' = state'
        BY <2>4, ShownReport
      <3> QED BY <2>4, <3>1 DEF ShownInv, InTurn
    <2> QED
      BY <1>2, <2>1, <2>2, <2>3, <2>4 DEF OwnShows, InTurn
  <1> QED BY <1>1, <1>2

LEMMA ShownNext ==
  ASSUME LoopInv, WorkerInv, ShownInv, [ServiceNext]_allVars
  PROVE  ShownInv'
  <1> USE DEF commands, channel, stream, client, vars, lifecycle, budget,
              signals, journal, plans
  <1>0. TypeOK /\ PhaseInv /\ TypeOK' /\ PhaseInv'
    BY LoopInvKept DEF LoopInv
  <1>1. CASE SubmitTask
    BY <1>1, ShownKept DEF SubmitTask, Accepting
  <1>2. CASE ApprovalResponse
    BY <1>2, ShownKept DEF ApprovalResponse, AnswerRequest
  <1>3. CASE Interrupt
    BY <1>3, ShownKept DEF Interrupt, Accepting
  <1>4. CASE CloseSession
    BY <1>4, ShownKept DEF CloseSession, Accepting, RequestStop
  <1>5. CASE FinishInterrupt
    BY <1>5, ShownKept DEF FinishInterrupt, RequestCancel, Cancel
  <1>6. CASE FinishStop
    BY <1>6, ShownKept DEF FinishStop, RequestCancel, Cancel
  <1>7. CASE TakeTask
    <2>1. UNCHANGED <<log, storeFailed, sessionClosed, streamed, lastState>>
          /\ Shown' = Shown /\ pc = "idle"
      BY <1>7 DEF TakeTask, RunTurn, WorkerInv, Shown
    <2>2. CASE RunTurn
      BY <2>1, <2>2 DEF ShownInv, RunTurn, Leave, InTurn
    <2>3. CASE UNCHANGED vars
      BY <2>1, <2>3, ShownKept
    <2> QED BY <1>7, <2>2, <2>3 DEF TakeTask
  <1>8. CASE TakeClose
    <2>1. CASE Close
      BY <2>1 DEF ShownInv, Close, Goto, InTurn
    <2>2. CASE UNCHANGED vars
      BY <1>8, <2>2, ShownKept DEF TakeClose
    <2> QED BY <1>8, <2>1, <2>2 DEF TakeClose
  <1>9. CASE AdvanceLoop
    <2>1. OwnStep /\ streamed = Len(log) /\ UNCHANGED <<streamed, lastState>>
      BY <1>9 DEF AdvanceLoop, Running, serviceVars
    <2>2. OwnFlow /\ OwnShows
      BY <1>0, <2>1, OwnStepFlow, OwnStepShows
    <2> QED BY <1>0, <2>1, <2>2, OwnStepShown
  <1>10. CASE RequestApproval
    <2> DEFINE e == Event("approval_request", head, "ask")
    <2>1. streamed = Len(log) /\ UNCHANGED <<streamed, lastState>>
          /\ pc = "decide"
      BY <1>10 DEF RequestApproval, Running, AskApproval
    <2>2. CASE Refuse
      <3>1. storeFailed' = TRUE => storeFailed'
        OBVIOUS
      <3> QED BY <2>2, <3>1 DEF ShownInv, Refuse
    <2>3. CASE Record(e) /\ Goto("waiting")
      <3>1. ~storeFailed /\ log' = Append(log, e) /\ pc' = "waiting"
        BY <2>3 DEF Record, Goto
      <3>2. Shown = lastState
        BY <2>1 DEF Shown
      <3>3. lastState \notin TerminalStates
        BY <2>1, <3>1, <3>2 DEF ShownInv, InTurn
      <3>4. Shown' = ApplyState(lastState, e)
        <4> HIDE DEF e
        <4> QED BY <1>0, <2>1, <3>1, AskedEvent, ShownAfter DEF e
      <3>5. Shown' = "WAITING_FOR_APPROVAL"
        BY <3>3, <3>4, Applied
      <3> QED BY <3>1, <3>5 DEF ShownInv, InTurn, TerminalStates
    <2> QED BY <1>10, <2>2, <2>3 DEF RequestApproval, AskApproval, Emit
  <1>11. CASE EndWait
    <2> DEFINE d == IF Verdict THEN "allow" ELSE "deny"
               e == Event("policy_decision", head, d)
    <2>1. streamed = Len(log) /\ UNCHANGED <<streamed, lastState>>
          /\ pc = "waiting"
      BY <1>11 DEF EndWait, Running, Approve
    <2>2. CASE Refuse
      <3>1. storeFailed' = TRUE => storeFailed'
        OBVIOUS
      <3> QED BY <2>2, <3>1 DEF ShownInv, Refuse
    <2>3. CASE /\ Record(e)
               /\ Goto(IF Verdict THEN "execute" ELSE "result")
      <3>1. ~storeFailed /\ log' = Append(log, e)
            /\ pc' \in {"execute", "result"}
        BY <2>3 DEF Record, Goto
      <3>2. Shown = lastState
        BY <2>1 DEF Shown
      <3>3. lastState \notin TerminalStates
        BY <2>1, <3>1, <3>2 DEF ShownInv, InTurn
      <3>4. e \in Events
        BY <1>0, DecidedEvent
      <3>5. Shown' = ApplyState(lastState, e)
        <4> HIDE DEF e
        <4> QED BY <1>0, <2>1, <3>1, <3>4, ShownAfter
      <3>6. Shown' \notin TerminalStates
        BY <3>3, <3>5, Applied DEF PlainEvents, StateEvents, EventTypes
      <3> QED BY <3>1, <3>6 DEF ShownInv, InTurn
    <2> QED BY <1>11, <2>2, <2>3 DEF EndWait, Approve, Emit
  <1>12. CASE Notify
    <2>1. Shown' = Shown
      BY <1>12 DEF Notify, WorkerInv, Shown
    <2> QED BY <1>12, <2>1 DEF Notify, ShownInv
  <1>13. CASE LoopReturns
    BY <1>13, ShownKept DEF LoopReturns, Running
  <1>14. CASE ClearFlag
    BY <1>14, ShownKept DEF ClearFlag
  <1>15. CASE WorkerExits
    BY <1>15, ShownKept DEF WorkerExits
  <1>16. CASE CallClose
    BY <1>16, ShownKept DEF CallClose, RequestStop
  <1>17. CASE CloseStore
    <2>1. storeFailed' = TRUE => storeFailed'
      OBVIOUS
    <2> QED BY <1>17, <2>1 DEF CloseStore, ShownInv
  <1>18. CASE CloseStream
    BY <1>18, ShownKept DEF CloseStream
  <1>19. CASE Read
    BY <1>19, ShownKept DEF Read
  <1>20. CASE EndRead
    BY <1>20, ShownKept DEF EndRead
  <1>21. CASE UNCHANGED allVars
    BY <1>21, ShownKept DEF allVars, serviceVars
  <1> QED
    BY <1>1, <1>2, <1>3, <1>4, <1>5, <1>6, <1>7, <1>8, <1>9, <1>10, <1>11,
       <1>12, <1>13, <1>14, <1>15, <1>16, <1>17, <1>18, <1>19, <1>20, <1>21
       DEF ServiceNext, Send, SenderStep, WorkerStep, CloserStep, ConsumerStep

LEMMA StreamNext ==
  ASSUME Reliable, LoopInv, WorkerInv, StreamInv, [ServiceNext]_allVars
  PROVE  StreamInv'
  <1> USE DEF commands, channel, stream, client, vars, lifecycle, budget,
              signals, journal, plans
  <1>0. TypeOK /\ PhaseInv /\ TypeOK' /\ PhaseInv'
    BY LoopInvKept DEF LoopInv
  <1>1. CASE SubmitTask
    BY <1>0, <1>1 DEF SubmitTask, Accepting, StreamInv, WorkerInv, PhaseInv
  <1>2. CASE ApprovalResponse
    BY <1>0, <1>2
       DEF ApprovalResponse, AnswerRequest, StreamInv, WorkerInv, PhaseInv
  <1>3. CASE Interrupt
    BY <1>0, <1>3 DEF Interrupt, Accepting, StreamInv, WorkerInv, PhaseInv
  <1>4. CASE CloseSession
    BY <1>0, <1>4
       DEF CloseSession, Accepting, RequestStop, StreamInv, WorkerInv,
           PhaseInv
  <1>5. CASE FinishInterrupt
    BY <1>0, <1>5
       DEF FinishInterrupt, RequestCancel, Cancel, StreamInv, WorkerInv,
           PhaseInv
  <1>6. CASE FinishStop
    BY <1>0, <1>6
       DEF FinishStop, RequestCancel, Cancel, StreamInv, WorkerInv, PhaseInv
  <1>7. CASE TakeTask
    BY <1>0, <1>7 DEF TakeTask, RunTurn, Leave, StreamInv, WorkerInv, PhaseInv
  <1>8. CASE TakeClose
    BY <1>0, <1>8 DEF TakeClose, Close, Goto, StreamInv, WorkerInv, PhaseInv
  <1>9. CASE AdvanceLoop
    <2>1. OwnStep /\ streamed = Len(log) /\ UNCHANGED serviceVars
          /\ worker \in {"turn", "closing"}
      BY <1>9 DEF AdvanceLoop, Running
    <2>2. OwnFlow /\ OwnShows
      BY <1>0, <2>1, OwnStepFlow, OwnStepShows
    <2>3. ~storeFailed /\ ~storeFailed'
      BY <2>1, <2>2 DEF StreamInv, OwnFlow, Reliable
    <2>4. ~sessionClosed
      BY <1>0, <2>2 DEF OwnFlow, PhaseInv, InTurn
    <2>5. ASSUME pc' = "close_environment"
          PROVE  Len(log') > 0 /\ log'[Len(log')].type = "session_end"
      <3>1. pc = "session_end"
        BY <2>2, <2>5 DEF OwnFlow, InTurn
      <3>2. log' = Append(log, Event("session_end", 0, state'))
        BY <2>3, <2>5, <3>1, <2>2 DEF OwnShows, Reports, InTurn
      <3>3. Event("session_end", 0, state') \in Events
        BY <1>0, EventType DEF EventTypes, Infos, TypeOK
      <3>4. Len(log') = Len(log) + 1 /\ Len(log) \in Nat
            /\ log'[Len(log) + 1] = Event("session_end", 0, state')
        BY <1>0, <3>2, <3>3, AppendedLog
      <3> QED BY <3>4 DEF Event
    <2>6. ASSUME sessionClosed'
          PROVE  /\ Len(log') > 0 /\ log'[Len(log')].type = "session_end"
                 /\ ~envStarted'
      <3>1. pc = "close_environment" /\ envStarted' = FALSE /\ UNCHANGED log
        BY <2>2, <2>4, <2>6 DEF OwnFlow
      <3> QED BY <3>1 DEF StreamInv
    <2> QED BY <2>1, <2>3, <2>5, <2>6 DEF StreamInv, serviceVars
  <1>10. CASE RequestApproval
    <2>1. ~sessionClosed /\ pc' # "close_environment"
          /\ UNCHANGED sessionClosed
      BY <1>0, <1>10
      DEF RequestApproval, AskApproval, Emit, Abandon, Goto, Leave, PhaseInv,
          InTurn
    <2>2. worker # "done" /\ UNCHANGED storeFailed
      BY <1>10 DEF RequestApproval, Running, AskApproval, Emit, Record, Refuse,
               StreamInv, Reliable
    <2> QED BY <1>10, <2>1, <2>2 DEF RequestApproval, StreamInv
  <1>11. CASE EndWait
    <2>1. ~sessionClosed /\ pc' # "close_environment"
          /\ UNCHANGED sessionClosed
      BY <1>0, <1>11
      DEF EndWait, Approve, Emit, Abandon, Goto, Leave, PhaseInv, InTurn
    <2>2. worker # "done" /\ UNCHANGED storeFailed
      BY <1>11 DEF EndWait, Running, Approve, Emit, Record, Refuse, StreamInv,
               Reliable
    <2> QED BY <1>11, <2>1, <2>2 DEF EndWait, StreamInv
  <1>12. CASE Notify
    <2>1. worker # "done" /\ streamed \in Nat /\ streamed' = streamed + 1
      BY <1>12 DEF Notify, WorkerInv
    <2> QED BY <1>12, <2>1 DEF Notify, StreamInv
  <1>13. CASE LoopReturns
    BY <1>0, <1>13 DEF LoopReturns, Running, StreamInv, WorkerInv, PhaseInv
  <1>14. CASE ClearFlag
    BY <1>0, <1>14 DEF ClearFlag, StreamInv, WorkerInv, PhaseInv
  <1>15. CASE WorkerExits
    BY <1>0, <1>15 DEF WorkerExits, StreamInv, WorkerInv, PhaseInv
  <1>16. CASE CallClose
    BY <1>0, <1>16 DEF CallClose, RequestStop, StreamInv, WorkerInv, PhaseInv
  <1>17. CASE CloseStore
    BY <1>17 DEF CloseStore, Reliable, StreamInv
  <1>18. CASE CloseStream
    BY <1>0, <1>18 DEF CloseStream, StreamInv, WorkerInv, PhaseInv
  <1>19. CASE Read
    <2>1. streamed \in Nat /\ seen \in Nat /\ seen' = seen + 1
          /\ seen < streamed
      BY <1>19 DEF Read, WorkerInv, StreamInv
    <2>2. seen' =< streamed
      BY <2>1
    <2> QED BY <1>19, <2>1, <2>2 DEF Read, StreamInv
  <1>20. CASE EndRead
    BY <1>0, <1>20 DEF EndRead, StreamInv, WorkerInv, PhaseInv
  <1>21. CASE UNCHANGED allVars
    BY <1>0, <1>21 DEF allVars, serviceVars, StreamInv, WorkerInv, PhaseInv
  <1> QED
    BY <1>1, <1>2, <1>3, <1>4, <1>5, <1>6, <1>7, <1>8, <1>9, <1>10, <1>11,
       <1>12, <1>13, <1>14, <1>15, <1>16, <1>17, <1>18, <1>19, <1>20, <1>21
       DEF ServiceNext, Send, SenderStep, WorkerStep, CloserStep, ConsumerStep


ServiceInv ==
  LoopInv /\ QueueInv /\ StopInv /\ WorkerInv /\ TasksInv /\ ShownInv

LEMMA ServiceStarts ==
  ASSUME ServiceInit
  PROVE  ServiceInv /\ StreamInv
  <1>1. LoopInv
    BY ServiceInitLoop
  <1>2. /\ pc = "idle" /\ state = "RUNNING" /\ turns = 0 /\ log = <<>>
        /\ storeFailed = FALSE /\ sessionClosed = FALSE /\ Len(log) = 0
    BY DEF ServiceInit, Init
  <1>3. QueueInv /\ StopInv
    BY DEF ServiceInit, QueueInv, StopInv, Waits, Told
  <1>4. WorkerInv
    BY <1>2 DEF ServiceInit, WorkerInv
  <1>5. TasksInv
    BY <1>2 DEF ServiceInit, TasksInv, Waits
  <1>6. ShownInv
    BY <1>2 DEF ServiceInit, ShownInv, Shown, InTurn, TerminalStates
  <1>7. StreamInv
    BY <1>2 DEF ServiceInit, StreamInv
  <1> QED BY <1>1, <1>3, <1>4, <1>5, <1>6, <1>7 DEF ServiceInv

LEMMA ServiceKept == ServiceInv /\ [ServiceNext]_allVars => ServiceInv'
  <1> SUFFICES ASSUME ServiceInv, [ServiceNext]_allVars PROVE ServiceInv'
    OBVIOUS
  <1>1. LoopInv' /\ TypeOK
    BY LoopInvKept DEF ServiceInv, LoopInv
  <1> QED BY <1>1, QueueNext, StopNext, WorkerNext, TasksNext, ShownNext
          DEF ServiceInv

(* The invariant holds of every run of the service. *)
THEOREM ServiceInvariant == ServiceSpec => []ServiceInv
  BY ServiceStarts, ServiceKept, PTL DEF ServiceSpec

(* What a frontend reads off the stream is what the loop is doing, at every *)
(* request for approval and after every turn, whichever way it ended.      *)
THEOREM StreamShowsState == ServiceSpec => []StateFollowsLoop
  <1>1. ServiceInv => StateFollowsLoop
    BY DEF ServiceInv, ShownInv, Shown, StateFollowsLoop
  <1> QED BY <1>1, ServiceInvariant, PTL

(* No accepted task is dropped and no command is left behind by the        *)
(* worker: what the worker finds gone with an empty queue is a task the    *)
(* end of the session forestalled, or one refused because a turn was left  *)
(* active when the store was lost.                                         *)
THEOREM AcceptedTasksTaken ==
  ServiceSpec => [](AcceptedTasksRun \/ (storeFailed /\ worker = "get"))
  <1>1. ServiceInv => AcceptedTasksRun \/ (storeFailed /\ worker = "get")
    <2> SUFFICES ASSUME ServiceInv
                 PROVE  /\ worker = "get" /\ queue = <<>> =>
                             storeFailed \/ submitted = turns \/ sessionClosed
                        /\ worker = "done" => queue = <<>>
      BY DEF AcceptedTasksRun
    <2>1. turns \in Nat
      BY DEF ServiceInv, LoopInv, TypeOK
    <2>2. queue = <<>> => ~Waits
      BY DEF ServiceInv, QueueInv
    <2>3. worker = "done" => queue = <<>>
      BY DEF ServiceInv, QueueInv, Waits, Told
    <2> QED BY <2>1, <2>2, <2>3 DEF ServiceInv, TasksInv
  <1> QED BY <1>1, ServiceInvariant, PTL

(* After a stop or an interrupt nothing more is asked of the model, for    *)
(* every order in which tasks, interrupts and stops arrive and whatever    *)
(* becomes of the store.                                                   *)
THEOREM StoppedForGood == ServiceSpec => NoModelStepAfterStop
  <1> DEFINE Stopped == (stopped \/ interrupted) /\ lock = "free"
  <1>1. ASSUME ServiceInv, [ServiceNext]_allVars, Stopped
        PROVE  modelSteps' = modelSteps
    <2>0. TypeOK
      BY <1>1 DEF ServiceInv, LoopInv
    <2>1. cancelled \/ ~turnInProgress
      BY <1>1 DEF ServiceInv, StopInv
    <2> USE DEF vars, budget
    <2>2. CASE AdvanceLoop
      <3>1. OwnFlow /\ worker \in {"turn", "closing"}
        BY <2>0, <2>2, OwnStepFlow DEF AdvanceLoop, Running
      <3>2. CASE pc = "top"
        <4>1. worker = "turn"
          BY <1>1, <3>1, <3>2 DEF ServiceInv, WorkerInv, InTurn
        <4>2. cancelled
          BY <1>1, <2>1, <4>1 DEF ServiceInv, QueueInv
        <4> QED BY <3>1, <4>2 DEF OwnFlow
      <3>3. CASE pc # "top"
        BY <3>1, <3>3 DEF OwnFlow
      <3> QED BY <3>2, <3>3
    <2>3. CASE TakeTask \/ TakeClose
      BY <2>3 DEF TakeTask, TakeClose, RunTurn, Close
    <2>4. CASE RequestApproval \/ EndWait
      BY <2>4 DEF RequestApproval, EndWait, AskApproval, Approve
    <2>5. CASE SenderStep
      BY <2>5 DEF SenderStep, FinishInterrupt, FinishStop, RequestCancel,
                  Cancel
    <2>6. CASE Send \/ CallClose
      BY <2>6 DEF Send, SubmitTask, ApprovalResponse, AnswerRequest,
                  Interrupt, CloseSession, CallClose, RequestStop
    <2>7. CASE Notify \/ LoopReturns \/ ClearFlag \/ WorkerExits
      BY <2>7 DEF Notify, LoopReturns, ClearFlag, WorkerExits
    <2>8. CASE CloserStep \/ ConsumerStep
      BY <2>8 DEF CloserStep, ConsumerStep, CloseStore, CloseStream, Read,
                  EndRead
    <2>9. CASE UNCHANGED allVars
      BY <2>9 DEF allVars
    <2> QED
      BY <1>1, <2>2, <2>3, <2>4, <2>5, <2>6, <2>7, <2>8, <2>9
         DEF ServiceNext, WorkerStep
  <1>2. ServiceInv /\ [ServiceNext]_allVars
          => [Stopped => modelSteps' = modelSteps]_allVars
    BY <1>1
  <1> QED BY <1>2, ServiceInvariant, PTL DEF ServiceSpec, NoModelStepAfterStop

LEMMA ReliableService ==
  ASSUME Reliable
  PROVE  ServiceSpec => [](ServiceInv /\ StreamInv)
  <1>1. ServiceInit => ServiceInv /\ StreamInv
    BY ServiceStarts
  <1>2. ServiceInv /\ StreamInv /\ [ServiceNext]_allVars
          => (ServiceInv /\ StreamInv)'
    <2> SUFFICES ASSUME ServiceInv, StreamInv, [ServiceNext]_allVars
                 PROVE  ServiceInv' /\ StreamInv'
      OBVIOUS
    <2> QED BY ServiceKept, StreamNext DEF ServiceInv
  <1> QED BY <1>1, <1>2, PTL DEF ServiceSpec

(* As long as the store works and close() waits for the worker, no task    *)
(* that was accepted is dropped while the session is open.                 *)
THEOREM TasksRun ==
  ASSUME Reliable
  PROVE  ServiceSpec => []AcceptedTasksRun
  <1>1. StreamInv => ~(storeFailed /\ worker = "get")
    BY DEF StreamInv
  <1> QED BY <1>1, AcceptedTasksTaken, ReliableService, PTL

(* As long as the store works and close() waits for the worker, a consumer *)
(* whose stream ends has read everything up to the end of the session.     *)
THEOREM StreamDelivered ==
  ASSUME Reliable
  PROVE  ServiceSpec => []StreamComplete
  <1>1. ServiceInv /\ StreamInv => StreamComplete
    <2> SUFFICES ASSUME ServiceInv, StreamInv, ended
                 PROVE  /\ seen = Len(log)
                        /\ log[Len(log)].type = "session_end"
                        /\ sessionClosed /\ ~envStarted
      BY DEF StreamComplete
    <2>1. worker = "done" /\ seen = streamed
      BY DEF StreamInv
    <2> QED BY <2>1 DEF ServiceInv, WorkerInv, StreamInv
  <1> QED BY <1>1, ReliableService, PTL
=============================================================================

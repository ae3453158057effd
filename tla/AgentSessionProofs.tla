------------------------ MODULE AgentSessionProofs ------------------------
(***************************************************************************)
(* What holds of every session besides its contract: the budget bounds the *)
(* work, a cancelled session finishes at most one thing, the live context  *)
(* is the projection of the log, and a terminal turn closes the session.   *)
(***************************************************************************)
EXTENDS AgentLoopProofs, MCAgentLoop, FiniteSetTheorems

-----------------------------------------------------------------------------
(***************************************************************************)
(* The conversation: the context stays the projection of the log.          *)
(***************************************************************************)
LEMMA MirrorInit == Init => ContextMirrorsLog
  BY DEF Init, ContextMirrorsLog

LEMMA MirrorNext == TypeOK /\ ContextMirrorsLog /\ Tells => ContextMirrorsLog'
  <1> SUFFICES ASSUME TypeOK, ContextMirrorsLog, Tells
               PROVE  ContextMirrorsLog'
    OBVIOUS
  <1>1. CASE UNCHANGED <<log, context>>
    BY <1>1 DEF ContextMirrorsLog
  <1>2. ASSUME NEW e \in Events, log' = Append(log, e),
               context' = Projected(e)
        PROVE  ContextMirrorsLog'
    <2> USE <1>2
    <2>1. /\ Len(log) \in Nat
          /\ DOMAIN log = 1 .. Len(log) /\ DOMAIN log' = 1 .. (Len(log) + 1)
          /\ \A i \in DOMAIN log : log'[i] = log[i]
          /\ log'[Len(log) + 1] = e
      BY AppendedLog
    <2>2. /\ Len(context) \in Nat /\ DOMAIN context = 1 .. Len(context)
          /\ \A k \in DOMAIN context : context[k].sequence \in 1 .. Len(log)
      BY <2>1 DEF TypeOK, ContextMirrorsLog
    <2>3. CASE RoleOf(e) = "none"
      <3>1. context' = context
        BY <2>3 DEF Projected
      <3>2. \A k \in DOMAIN context :
              log'[context[k].sequence] = log[context[k].sequence]
        BY <2>1, <2>2
      <3>3. \A k \in DOMAIN context' :
              /\ context'[k].sequence \in DOMAIN log'
              /\ context'[k].role = RoleOf(log'[context'[k].sequence])
              /\ context'[k].call = log'[context'[k].sequence].call
        BY <2>1, <2>2, <3>1, <3>2 DEF ContextMirrorsLog
      <3>4. \A k, l \in DOMAIN context' :
              k < l => context'[k].sequence < context'[l].sequence
        BY <3>1 DEF ContextMirrorsLog
      <3>5. ASSUME NEW i \in DOMAIN log', RoleOf(log'[i]) # "none"
            PROVE  \E k \in DOMAIN context' : context'[k].sequence = i
        <4>1. i \in DOMAIN log /\ log'[i] = log[i]
          BY <2>1, <2>3, <3>5
        <4> QED BY <3>1, <3>5, <4>1 DEF ContextMirrorsLog
      <3> QED BY <3>3, <3>4, <3>5 DEF ContextMirrorsLog
    <2>4. CASE RoleOf(e) # "none"
      <3> DEFINE m == Message(RoleOf(e), e.call, Len(log) + 1)
                 n == Len(context) + 1
      <3>1. /\ m.role = RoleOf(e) /\ m.call = e.call
            /\ m.sequence = Len(log) + 1
        BY DEF Message
      <3>2. context' = Append(context, m)
        BY <2>4 DEF Projected
      <3> HIDE DEF m
      <3>3. /\ DOMAIN context' = 1 .. n /\ context'[n] = m
            /\ \A k \in 1 .. Len(context) : context'[k] = context[k]
        BY <3>2, <2>2 DEF TypeOK
      <3>4. ASSUME NEW k \in DOMAIN context'
            PROVE  /\ context'[k].sequence \in DOMAIN log'
                   /\ context'[k].role = RoleOf(log'[context'[k].sequence])
                   /\ context'[k].call = log'[context'[k].sequence].call
        <4>1. CASE k = n
          BY <2>1, <3>1, <3>3, <4>1
        <4>2. CASE k # n
          <5>1. k \in DOMAIN context /\ context'[k] = context[k]
            BY <2>2, <3>3, <3>4, <4>2
          <5>2. log'[context[k].sequence] = log[context[k].sequence]
            BY <2>1, <2>2, <5>1
          <5> QED BY <2>1, <2>2, <5>1, <5>2 DEF ContextMirrorsLog
        <4> QED BY <4>1, <4>2
      <3>5. ASSUME NEW k \in DOMAIN context', NEW l \in DOMAIN context', k < l
            PROVE  context'[k].sequence < context'[l].sequence
        <4>1. k \in DOMAIN context /\ context'[k] = context[k]
          BY <2>2, <3>3, <3>5
        <4>2. CASE l = n
          BY <2>1, <2>2, <3>1, <3>3, <4>1, <4>2
        <4>3. CASE l # n
          <5>1. l \in DOMAIN context /\ context'[l] = context[l]
            BY <2>2, <3>3, <3>5, <4>3
          <5> QED BY <3>5, <4>1, <5>1 DEF ContextMirrorsLog
        <4> QED BY <4>2, <4>3
      <3>6. ASSUME NEW i \in DOMAIN log', RoleOf(log'[i]) # "none"
            PROVE  \E k \in DOMAIN context' : context'[k].sequence = i
        <4>1. CASE i = Len(log) + 1
          BY <2>2, <3>1, <3>3, <4>1
        <4>2. CASE i # Len(log) + 1
          <5>1. i \in DOMAIN log /\ log'[i] = log[i]
            BY <2>1, <3>6, <4>2
          <5>2. PICK k \in DOMAIN context : context[k].sequence = i
            BY <3>6, <5>1 DEF ContextMirrorsLog
          <5>3. k \in DOMAIN context' /\ context'[k] = context[k]
            BY <2>2, <3>3
          <5> QED BY <5>2, <5>3
        <4> QED BY <4>1, <4>2
      <3> QED BY <3>4, <3>5, <3>6 DEF ContextMirrorsLog
    <2> QED BY <2>3, <2>4
  <1> QED BY <1>1, <1>2 DEF Tells

(* For every session, the live context and the log tell the same           *)
(* conversation, whatever the store refuses and however turns end.         *)
THEOREM ConversationMirrored == Spec => []ContextMirrorsLog
  <1>1. Init => TypeOK /\ ContextMirrorsLog
    BY InitType, MirrorInit
  <1>2. TypeOK /\ ContextMirrorsLog /\ [Next]_vars
          => (TypeOK /\ ContextMirrorsLog)'
    BY NextType, LogStep, MirrorNext
  <1> QED BY <1>1, <1>2, PTL DEF Spec

-----------------------------------------------------------------------------
(***************************************************************************)
(* The budget.  Work is counted by two cardinalities, the answers of the   *)
(* model in the log and the calls dispatched; a step adds to one of them   *)
(* by one at most, and only where the loop has been charged for it.        *)
(***************************************************************************)
Answers == Cardinality(AssistantMessages)

Dispatched == Cardinality(executed)

(* Where the step that was charged has not been answered, or dispatched.   *)
Asking == {"prepare", "request"}

Deciding == {"decide", "waiting", "execute"}

BudgetInv ==
  /\ IsFiniteSet(executed)
  /\ modelSteps =< MaxSteps /\ toolCalls =< MaxToolCalls
  /\ Answers =< modelSteps /\ Dispatched =< toolCalls
  /\ pc \in Asking => Answers < modelSteps
  /\ pc \in Deciding => Dispatched < toolCalls

LEMMA BudgetInit == Init => BudgetInv
  <1> SUFFICES ASSUME Init PROVE BudgetInv
    OBVIOUS
  <1>1. IsFiniteSet({}) /\ Cardinality({}) = 0
    BY FS_EmptySet
  <1>2. AssistantMessages = {}
    BY DEF Init, AssistantMessages
  <1> QED
    BY <1>1, <1>2, LoopAssumption
       DEF Init, BudgetInv, Answers, Dispatched, Asking, Deciding,
           LoopAssumption

(* Both counts are numbers. *)
LEMMA CountTypes ==
  ASSUME TypeOK, IsFiniteSet(executed)
  PROVE  /\ IsFiniteSet(AssistantMessages)
         /\ Answers \in Nat /\ Dispatched \in Nat
  <1>1. Dispatched \in Nat
    BY FS_CardinalityType DEF Dispatched
  <1>2. Len(log) \in Nat /\ DOMAIN log = 1 .. Len(log)
    BY DEF TypeOK
  <1>3. IsFiniteSet(1 .. Len(log))
    BY <1>2, FS_Interval
  <1>4. AssistantMessages \in SUBSET (1 .. Len(log))
    BY <1>2 DEF AssistantMessages
  <1>5. IsFiniteSet(AssistantMessages)
    BY <1>3, <1>4, FS_Subset
  <1>6. Answers \in Nat
    BY <1>5, FS_CardinalityType DEF Answers
  <1> QED BY <1>1, <1>5, <1>6

(* A step leaves the answers alone, or is the answer to a request. *)
LEMMA AnswersNext ==
  ASSUME TypeOK, IsFiniteSet(executed), Tells
  PROVE  \/ Answers' = Answers
         \/ pc = "request" /\ pc' = "declared" /\ Answers' = Answers + 1
  <1>1. CASE UNCHANGED <<log, context>>
    BY <1>1 DEF Answers, AssistantMessages
  <1>2. ASSUME NEW e \in Events, log' = Append(log, e),
               e.type = "assistant_message"
                 => pc = "request" /\ pc' = "declared"
        PROVE  \/ Answers' = Answers
               \/ pc = "request" /\ pc' = "declared" /\ Answers' = Answers + 1
    <2>1. /\ Len(log) \in Nat
          /\ DOMAIN log = 1 .. Len(log) /\ DOMAIN log' = 1 .. (Len(log) + 1)
          /\ \A i \in 1 .. Len(log) : log'[i] = log[i]
          /\ log'[Len(log) + 1] = e
      BY <1>2, AppendedLog
    <2>2. CASE e.type # "assistant_message"
      <3>1. AssistantMessages' = AssistantMessages
        BY <2>1, <2>2 DEF AssistantMessages
      <3> QED BY <3>1 DEF Answers
    <2>3. CASE e.type = "assistant_message"
      <3>1. /\ AssistantMessages' = AssistantMessages \cup {Len(log) + 1}
            /\ Len(log) + 1 \notin AssistantMessages
        BY <2>1, <2>3 DEF AssistantMessages
      <3>2. Answers' = Answers + 1
        BY <3>1, CountTypes, FS_AddElement DEF Answers
      <3> QED BY <1>2, <2>3, <3>2
    <2> QED BY <2>2, <2>3
  <1> QED BY <1>1, <1>2 DEF Tells

(* Dispatching a call adds one to the calls dispatched. *)
LEMMA DispatchedNext ==
  ASSUME TypeOK, IsFiniteSet(executed),
         executed' = executed \/ executed' = executed \cup {head}
  PROVE  /\ IsFiniteSet(executed') /\ Dispatched' \in Nat
         /\ executed' = executed => Dispatched' = Dispatched
         /\ Dispatched' =< Dispatched + 1
  <1>1. CASE executed' = executed
    BY <1>1, CountTypes DEF Dispatched
  <1>2. CASE executed' = executed \cup {head}
    <2>1. IsFiniteSet(executed \cup {head})
      BY FS_AddElement
    <2>2. Dispatched' = IF head \in executed THEN Dispatched
                                             ELSE Dispatched + 1
      BY <1>2, FS_AddElement DEF Dispatched
    <2> QED BY <1>2, <2>1, <2>2, CountTypes DEF Dispatched
  <1> QED BY <1>1, <1>2

(* What a step does to the counters, and where. *)
ChargedStep ==
  /\ \/ executed' = executed
     \/ pc = "execute" /\ pc' = "result" /\ executed' = executed \cup {head}
  /\ \/ UNCHANGED modelSteps
     \/ /\ pc = "top" /\ pc' = "prepare"
        /\ modelSteps < MaxSteps /\ modelSteps' = modelSteps + 1
  /\ \/ UNCHANGED toolCalls
     \/ toolCalls < MaxToolCalls /\ toolCalls' = toolCalls + 1
  /\ pc' \in Asking => pc \in Asking \/ modelSteps' = modelSteps + 1
  /\ pc' \in Deciding => pc \in Deciding \/ toolCalls' = toolCalls + 1

LEMMA Charged ==
  ASSUME TypeOK, [Next]_vars
  PROVE  ChargedStep
  <1> USE LoopAssumption DEF TypeOK, ChargedStep, Asking, Deciding, Goto,
          Leave, budget, LoopAssumption
  <1>1. CASE RunTurn
    BY <1>1 DEF RunTurn
  <1>2. CASE StartEnvironment
    BY <1>2 DEF StartEnvironment
  <1>3. CASE EmitSessionStart
    BY <1>3 DEF EmitSessionStart, Emit, Record, Refuse, Abandon
  <1>4. CASE EmitAgentStart
    BY <1>4 DEF EmitAgentStart, Emit, Record, Refuse, Abandon
  <1>5. CASE EmitUserMessage
    BY <1>5 DEF EmitUserMessage, Emit, Record, Refuse, Abandon
  <1>6. CASE BeginStep
    BY <1>6 DEF BeginStep, CurrentLimit
  <1>7. CASE PrepareContext
    BY <1>7 DEF PrepareContext
  <1>8. CASE Compact
    BY <1>8 DEF Compact, Emit, Record, Refuse, Abandon
  <1>9. CASE Respond
    BY <1>9 DEF Respond, Emit, Record, Refuse, Abandon
  <1>10. CASE RetryOverflow
    BY <1>10 DEF RetryOverflow, Emit, Record, Refuse, Abandon
  <1>11. CASE ModelRaises
    BY <1>11 DEF ModelRaises
  <1>12. CASE AcceptResponse
    BY <1>12 DEF AcceptResponse
  <1>13. CASE RecoverEmptyResponse
    BY <1>13 DEF RecoverEmptyResponse, Emit, Record, Refuse, Abandon
  <1>14. CASE Dispatch
    BY <1>14 DEF Dispatch, Emit, Record, Refuse, Abandon
  <1>15. CASE RejectCall
    BY <1>15 DEF RejectCall, Emit, Record, Refuse, Abandon
  <1>16. CASE AllowCall
    BY <1>16 DEF AllowCall, Emit, Record, Refuse, Abandon
  <1>17. CASE AskApproval
    BY <1>17 DEF AskApproval, Emit, Record, Refuse, Abandon
  <1>18. CASE AnswerApproval
    BY <1>18 DEF AnswerApproval, Approve, Emit, Record, Refuse, Abandon
  <1>19. CASE Execute
    BY <1>19 DEF Execute
  <1>20. CASE PublishResult
    BY <1>20 DEF PublishResult, Emit, Record, Refuse, Abandon
  <1>21. CASE Settle
    BY <1>21 DEF Settle
  <1>22. CASE SkipCall
    BY <1>22 DEF SkipCall, Emit, Record, Refuse, Abandon
  <1>23. CASE SkipPolicy
    BY <1>23 DEF SkipPolicy, Emit, Record, Refuse, Abandon
  <1>24. CASE SkipResult
    BY <1>24 DEF SkipResult, Emit, Record, Refuse, Abandon
  <1>25. CASE SkipDone
    BY <1>25 DEF SkipDone
  <1>26. CASE EmitError
    BY <1>26 DEF EmitError, EmitBestEffort, Record, Refuse
  <1>27. CASE EmitTurnEnd
    BY <1>27 DEF EmitTurnEnd, TurnOver, Record, Refuse, Abandon
  <1>28. CASE HandleRaisedLimit
    BY <1>28 DEF HandleRaisedLimit, TurnOver, Record, Refuse
  <1>29. CASE Close
    BY <1>29 DEF Close
  <1>30. CASE EmitAgentEnd
    BY <1>30 DEF EmitAgentEnd, EmitBestEffort, Record, Refuse
  <1>31. CASE EmitSessionEnd
    BY <1>31 DEF EmitSessionEnd, EmitBestEffort, Record, Refuse
  <1>32. CASE CloseEnvironment
    BY <1>32 DEF CloseEnvironment
  <1>33. CASE Cancel
    BY <1>33 DEF Cancel
  <1>34. CASE Expire
    BY <1>34 DEF Expire
  <1>35. CASE UNCHANGED vars
    BY <1>35 DEF vars
  <1> QED
    BY <1>1, <1>2, <1>3, <1>4, <1>5, <1>6, <1>7, <1>8, <1>9, <1>10, <1>11,
       <1>12, <1>13, <1>14, <1>15, <1>16, <1>17, <1>18, <1>19, <1>20, <1>21,
       <1>22, <1>23, <1>24, <1>25, <1>26, <1>27, <1>28, <1>29, <1>30, <1>31,
       <1>32, <1>33, <1>34, <1>35 DEF Next, LoopStep, OwnStep

LEMMA BudgetNext == TypeOK /\ BudgetInv /\ [Next]_vars => BudgetInv'
  <1> SUFFICES ASSUME TypeOK, BudgetInv, [Next]_vars PROVE BudgetInv'
    OBVIOUS
  <1>1. ChargedStep
    BY Charged
  <1>2. /\ Answers \in Nat /\ Dispatched \in Nat
        /\ modelSteps \in Nat /\ toolCalls \in Nat
        /\ MaxSteps \in Nat /\ MaxToolCalls \in Nat
    BY CountTypes, LoopAssumption DEF BudgetInv, TypeOK, LoopAssumption
  <1>3. \/ Answers' = Answers
        \/ pc = "request" /\ pc' = "declared" /\ Answers' = Answers + 1
    BY LogStep, AnswersNext DEF BudgetInv
  <1>4. /\ IsFiniteSet(executed')
        /\ Dispatched' \in Nat /\ Dispatched' =< Dispatched + 1
        /\ executed' = executed => Dispatched' = Dispatched
    BY <1>1, DispatchedNext DEF BudgetInv, ChargedStep
  <1>5. /\ modelSteps' =< MaxSteps /\ toolCalls' =< MaxToolCalls
    BY <1>1, <1>2 DEF ChargedStep, BudgetInv
  <1>6. Answers' =< modelSteps' /\ (pc' \in Asking => Answers' < modelSteps')
    BY <1>1, <1>2, <1>3 DEF ChargedStep, BudgetInv, Asking
  <1>7. /\ Dispatched' =< toolCalls'
        /\ pc' \in Deciding => Dispatched' < toolCalls'
    BY <1>1, <1>2, <1>4 DEF ChargedStep, BudgetInv, Deciding
  <1> QED BY <1>4, <1>5, <1>6, <1>7 DEF BudgetInv

(* For every budget: the loop never asks the model more often, and never   *)
(* dispatches more tools, than the session's budget allows.                *)
THEOREM BudgetKept == Spec => []BudgetsRespected
  <1>1. Init => TypeOK /\ BudgetInv
    BY InitType, BudgetInit
  <1>2. TypeOK /\ BudgetInv /\ [Next]_vars => (TypeOK /\ BudgetInv)'
    BY NextType, BudgetNext
  <1>3. BudgetInv => BudgetsRespected
    BY DEF BudgetInv, BudgetsRespected, Answers, Dispatched, AssistantMessages
  <1> QED BY <1>1, <1>2, <1>3, PTL DEF Spec

-----------------------------------------------------------------------------
(***************************************************************************)
(* Cancellation.  Once the signal is set, the only work that can still be  *)
(* done is the one the loop was at: a request under way, or a call being   *)
(* decided; and no step leads to either any more.                          *)
(***************************************************************************)
AtWork == {"request"} \cup Deciding

PromptInv ==
  /\ IsFiniteSet(executed) /\ atCancel \in Nat
  /\ cancelled /\ pc \in AtWork => WorkDone =< atCancel
  /\ cancelled => WorkDone =< atCancel + 1

(* The signal stays, and takes the loop to no new work. *)
LEMMA CancelledStep ==
  ASSUME TypeOK, cancelled, [Next]_vars
  PROVE  cancelled' /\ (pc' \in AtWork => pc \in AtWork)
  <1> USE DEF TypeOK, AtWork, Deciding, Goto, Leave, signals
  <1>1. CASE RunTurn
    BY <1>1 DEF RunTurn
  <1>2. CASE StartEnvironment
    BY <1>2 DEF StartEnvironment
  <1>3. CASE EmitSessionStart
    BY <1>3 DEF EmitSessionStart, Emit, Record, Refuse, Abandon
  <1>4. CASE EmitAgentStart
    BY <1>4 DEF EmitAgentStart, Emit, Record, Refuse, Abandon
  <1>5. CASE EmitUserMessage
    BY <1>5 DEF EmitUserMessage, Emit, Record, Refuse, Abandon
  <1>6. CASE BeginStep
    BY <1>6 DEF BeginStep, CurrentLimit
  <1>7. CASE PrepareContext
    BY <1>7 DEF PrepareContext
  <1>8. CASE Compact
    BY <1>8 DEF Compact, Emit, Record, Refuse, Abandon
  <1>9. CASE Respond
    BY <1>9 DEF Respond, Emit, Record, Refuse, Abandon
  <1>10. CASE RetryOverflow
    BY <1>10 DEF RetryOverflow, Emit, Record, Refuse, Abandon
  <1>11. CASE ModelRaises
    BY <1>11 DEF ModelRaises
  <1>12. CASE AcceptResponse
    BY <1>12 DEF AcceptResponse
  <1>13. CASE RecoverEmptyResponse
    BY <1>13 DEF RecoverEmptyResponse, Emit, Record, Refuse, Abandon
  <1>14. CASE Dispatch
    BY <1>14 DEF Dispatch, Emit, Record, Refuse, Abandon
  <1>15. CASE RejectCall
    BY <1>15 DEF RejectCall, Emit, Record, Refuse, Abandon
  <1>16. CASE AllowCall
    BY <1>16 DEF AllowCall, Emit, Record, Refuse, Abandon
  <1>17. CASE AskApproval
    BY <1>17 DEF AskApproval, Emit, Record, Refuse, Abandon
  <1>18. CASE AnswerApproval
    BY <1>18 DEF AnswerApproval, Approve, Emit, Record, Refuse, Abandon
  <1>19. CASE Execute
    BY <1>19 DEF Execute
  <1>20. CASE PublishResult
    BY <1>20 DEF PublishResult, Emit, Record, Refuse, Abandon
  <1>21. CASE Settle
    BY <1>21 DEF Settle
  <1>22. CASE SkipCall
    BY <1>22 DEF SkipCall, Emit, Record, Refuse, Abandon
  <1>23. CASE SkipPolicy
    BY <1>23 DEF SkipPolicy, Emit, Record, Refuse, Abandon
  <1>24. CASE SkipResult
    BY <1>24 DEF SkipResult, Emit, Record, Refuse, Abandon
  <1>25. CASE SkipDone
    BY <1>25 DEF SkipDone
  <1>26. CASE EmitError
    BY <1>26 DEF EmitError, EmitBestEffort, Record, Refuse
  <1>27. CASE EmitTurnEnd
    BY <1>27 DEF EmitTurnEnd, TurnOver, Record, Refuse, Abandon
  <1>28. CASE HandleRaisedLimit
    BY <1>28 DEF HandleRaisedLimit, TurnOver, Record, Refuse
  <1>29. CASE Close
    BY <1>29 DEF Close
  <1>30. CASE EmitAgentEnd
    BY <1>30 DEF EmitAgentEnd, EmitBestEffort, Record, Refuse
  <1>31. CASE EmitSessionEnd
    BY <1>31 DEF EmitSessionEnd, EmitBestEffort, Record, Refuse
  <1>32. CASE CloseEnvironment
    BY <1>32 DEF CloseEnvironment
  <1>33. CASE Cancel
    BY <1>33 DEF Cancel
  <1>34. CASE Expire
    BY <1>34 DEF Expire
  <1>35. CASE UNCHANGED vars
    BY <1>35 DEF vars
  <1> QED
    BY <1>1, <1>2, <1>3, <1>4, <1>5, <1>6, <1>7, <1>8, <1>9, <1>10, <1>11,
       <1>12, <1>13, <1>14, <1>15, <1>16, <1>17, <1>18, <1>19, <1>20, <1>21,
       <1>22, <1>23, <1>24, <1>25, <1>26, <1>27, <1>28, <1>29, <1>30, <1>31,
       <1>32, <1>33, <1>34, <1>35 DEF Next, LoopStep, OwnStep

LEMMA PromptNext ==
  ASSUME TypeOK, PromptInv, [MCNext]_<<vars, atCancel>>
  PROVE  PromptInv'
  <1>1. [Next]_vars
    BY DEF MCNext
  <1>2. ChargedStep /\ Tells
    BY <1>1, Charged, LogStep
  <1>3. /\ Answers \in Nat /\ Dispatched \in Nat
        /\ WorkDone = Dispatched + Answers
        /\ WorkDone' = Dispatched' + Answers'
    BY CountTypes DEF PromptInv, WorkDone, Answers, Dispatched
  <1>4. \/ Answers' = Answers
        \/ pc = "request" /\ pc' = "declared" /\ Answers' = Answers + 1
    BY <1>2, AnswersNext DEF PromptInv
  <1>5. /\ IsFiniteSet(executed')
        /\ Dispatched' \in Nat /\ Dispatched' =< Dispatched + 1
        /\ executed' = executed => Dispatched' = Dispatched
        /\ \/ executed' = executed
           \/ pc = "execute" /\ pc' = "result"
    BY <1>2, DispatchedNext DEF PromptInv, ChargedStep
  <1>6. WorkDone \in Nat /\ WorkDone' \in Nat
    BY <1>3, <1>4, <1>5
  <1>7. CASE cancelled
    <2>1. cancelled' /\ (pc' \in AtWork => pc \in AtWork)
      BY <1>1, <1>7, CancelledStep
    <2>2. atCancel' = atCancel
      BY <1>7 DEF MCNext
    <2>3. "request" \in AtWork /\ "execute" \in AtWork
          /\ "declared" \notin AtWork /\ "result" \notin AtWork
      BY DEF AtWork, Deciding
    <2>4. CASE WorkDone' = WorkDone
      BY <1>5, <1>6, <1>7, <2>1, <2>2, <2>4 DEF PromptInv
    <2>5. CASE WorkDone' # WorkDone
      <3>1. pc \in AtWork /\ pc' \notin AtWork /\ WorkDone' =< WorkDone + 1
        BY <1>3, <1>4, <1>5, <2>3, <2>5
      <3> QED BY <1>5, <1>6, <1>7, <2>2, <3>1 DEF PromptInv
    <2> QED BY <2>4, <2>5
  <1>8. CASE ~cancelled /\ MCNext
    <2>1. atCancel' = WorkDone'
      BY <1>8 DEF MCNext
    <2>2. atCancel' \in Nat /\ WorkDone' =< atCancel'
      BY <1>6, <2>1
    <2>3. \A a, w \in Nat : w =< a => w =< a + 1
      OBVIOUS
    <2>4. WorkDone' =< atCancel' + 1
      BY <1>6, <2>2, <2>3
    <2> QED BY <1>5, <2>2, <2>4 DEF PromptInv
  <1>9. CASE UNCHANGED <<vars, atCancel>>
    BY <1>9 DEF vars, signals, PromptInv, WorkDone, AssistantMessages, journal
  <1> QED BY <1>7, <1>8, <1>9

(* For every session: after the cancellation signal at most one more thing *)
(* is done, the answer that was requested or the tool being decided.       *)
THEOREM CancellationPrompt == MCSpec => []AtMostOneMoreAction
  <1>1. MCInit => TypeOK /\ PromptInv
    <2>1. IsFiniteSet({})
      BY FS_EmptySet
    <2> QED BY <2>1, InitType DEF MCInit, Init, PromptInv
  <1>2. TypeOK /\ PromptInv /\ [MCNext]_<<vars, atCancel>>
          => (TypeOK /\ PromptInv)'
    BY NextType, PromptNext DEF MCNext
  <1>3. PromptInv => AtMostOneMoreAction
    BY DEF PromptInv, AtMostOneMoreAction
  <1> QED BY <1>1, <1>2, <1>3, PTL DEF MCSpec

-----------------------------------------------------------------------------
(***************************************************************************)
(* Terminal turns.  When a turn has ended in any other way than completing *)
(* and run_turn has returned, the session is closed: unless the store      *)
(* refused the end of a turn whose limit was met while preparing the       *)
(* context, which leaves the turn active (AgentLoop_escape.cfg).           *)
(***************************************************************************)
Closes == TerminalTurnCloses \/ (storeFailed /\ turnActive)

LEMMA ClosesNext ==
  ASSUME TypeOK, PhaseInv, Closes, [Next]_vars
  PROVE  Closes'
  <1> USE DEF TypeOK, PhaseInv, InTurn, Closes, TerminalTurnCloses, Goto,
              Leave, lifecycle, journal
  <1>1. CASE RunTurn
    BY <1>1 DEF RunTurn
  <1>2. CASE StartEnvironment
    BY <1>2 DEF StartEnvironment
  <1>3. CASE EmitSessionStart
    BY <1>3 DEF EmitSessionStart, Emit, Record, Refuse, Abandon
  <1>4. CASE EmitAgentStart
    BY <1>4 DEF EmitAgentStart, Emit, Record, Refuse, Abandon
  <1>5. CASE EmitUserMessage
    BY <1>5 DEF EmitUserMessage, Emit, Record, Refuse, Abandon
  <1>6. CASE BeginStep
    BY <1>6 DEF BeginStep, CurrentLimit
  <1>7. CASE PrepareContext
    BY <1>7 DEF PrepareContext
  <1>8. CASE Compact
    BY <1>8 DEF Compact, Emit, Record, Refuse, Abandon
  <1>9. CASE Respond
    BY <1>9 DEF Respond, Emit, Record, Refuse, Abandon
  <1>10. CASE RetryOverflow
    BY <1>10 DEF RetryOverflow, Emit, Record, Refuse, Abandon
  <1>11. CASE ModelRaises
    BY <1>11 DEF ModelRaises
  <1>12. CASE AcceptResponse
    BY <1>12 DEF AcceptResponse
  <1>13. CASE RecoverEmptyResponse
    BY <1>13 DEF RecoverEmptyResponse, Emit, Record, Refuse, Abandon
  <1>14. CASE Dispatch
    BY <1>14 DEF Dispatch, Emit, Record, Refuse, Abandon
  <1>15. CASE RejectCall
    BY <1>15 DEF RejectCall, Emit, Record, Refuse, Abandon
  <1>16. CASE AllowCall
    BY <1>16 DEF AllowCall, Emit, Record, Refuse, Abandon
  <1>17. CASE AskApproval
    BY <1>17 DEF AskApproval, Emit, Record, Refuse, Abandon
  <1>18. CASE AnswerApproval
    BY <1>18 DEF AnswerApproval, Approve, Emit, Record, Refuse, Abandon
  <1>19. CASE Execute
    BY <1>19 DEF Execute
  <1>20. CASE PublishResult
    BY <1>20 DEF PublishResult, Emit, Record, Refuse, Abandon
  <1>21. CASE Settle
    BY <1>21 DEF Settle
  <1>22. CASE SkipCall
    BY <1>22 DEF SkipCall, Emit, Record, Refuse, Abandon
  <1>23. CASE SkipPolicy
    BY <1>23 DEF SkipPolicy, Emit, Record, Refuse, Abandon
  <1>24. CASE SkipResult
    BY <1>24 DEF SkipResult, Emit, Record, Refuse, Abandon
  <1>25. CASE SkipDone
    BY <1>25 DEF SkipDone
  <1>26. CASE EmitError
    BY <1>26 DEF EmitError, EmitBestEffort, Record, Refuse
  <1>27. CASE EmitTurnEnd
    BY <1>27 DEF EmitTurnEnd, TurnOver, Record, Refuse, Abandon
  <1>28. CASE HandleRaisedLimit
    BY <1>28 DEF HandleRaisedLimit, TurnOver, Record, Refuse
  <1>29. CASE Close
    BY <1>29 DEF Close
  <1>30. CASE EmitAgentEnd
    BY <1>30 DEF EmitAgentEnd, EmitBestEffort, Record, Refuse
  <1>31. CASE EmitSessionEnd
    BY <1>31 DEF EmitSessionEnd, EmitBestEffort, Record, Refuse
  <1>32. CASE CloseEnvironment
    BY <1>32 DEF CloseEnvironment
  <1>33. CASE Cancel
    BY <1>33 DEF Cancel
  <1>34. CASE Expire
    BY <1>34 DEF Expire
  <1>35. CASE UNCHANGED vars
    BY <1>35 DEF vars
  <1> QED
    BY <1>1, <1>2, <1>3, <1>4, <1>5, <1>6, <1>7, <1>8, <1>9, <1>10, <1>11,
       <1>12, <1>13, <1>14, <1>15, <1>16, <1>17, <1>18, <1>19, <1>20, <1>21,
       <1>22, <1>23, <1>24, <1>25, <1>26, <1>27, <1>28, <1>29, <1>30, <1>31,
       <1>32, <1>33, <1>34, <1>35 DEF Next, LoopStep, OwnStep

(* A turn that was interrupted, limited or failed closes the session and   *)
(* the environment, also on a store that fails, unless the store refused   *)
(* its very end and the turn is left active.                               *)
THEOREM TerminalCloses ==
  Spec => [](TerminalTurnCloses \/ (storeFailed /\ turnActive))
  <1>1. Init => TypeOK /\ PhaseInv /\ Closes
    BY InitType, PhaseInit DEF Init, Closes, TerminalTurnCloses
  <1>2. TypeOK /\ PhaseInv /\ Closes /\ [Next]_vars
          => (TypeOK /\ PhaseInv /\ Closes)'
    BY NextType, PhaseNext, ClosesNext
  <1>3. Closes => TerminalTurnCloses \/ (storeFailed /\ turnActive)
    BY DEF Closes
  <1> QED BY <1>1, <1>2, <1>3, PTL DEF Spec
=============================================================================

-------------------------- MODULE AgentLoopProofs --------------------------
(***************************************************************************)
(* What holds of every session, whatever the limits of its budget, the     *)
(* number of its turns and of its calls: its types, its audit trail, and   *)
(* the contract of SessionContract, of which every step of the loop is a   *)
(* step under the mapping Contract, or changes nothing it speaks of.       *)
(***************************************************************************)
EXTENDS AgentLoop, TLAPS

-----------------------------------------------------------------------------
(* Type correctness. *)

(* What an event and a message are made of. *)
LEMMA EventType ==
  ASSUME NEW t \in EventTypes, NEW c \in Nat, NEW i \in Infos
  PROVE  Event(t, c, i) \in Events
  BY DEF Event, Events

LEMMA MessageType ==
  ASSUME NEW r \in Roles, NEW c \in Nat, NEW s \in Nat
  PROVE  Message(r, c, s) \in Messages
  BY DEF Message, Messages

(* Every event that tells a message has a role. *)
LEMMA RoleType ==
  ASSUME NEW e, RoleOf(e) # "none"
  PROVE  RoleOf(e) \in Roles
  BY DEF RoleOf, Roles

(* Publishing an event keeps the journal well typed. *)
LEMMA JournalType ==
  ASSUME TypeOK, NEW e \in Events, Record(e) \/ Refuse
  PROVE  log' \in Seq(Events) /\ storeFailed' \in BOOLEAN
  <1>1. CASE Record(e)
    BY <1>1 DEF TypeOK, Record
  <1>2. CASE Refuse
    BY <1>2 DEF TypeOK, Refuse
  <1> QED BY <1>1, <1>2

LEMMA RememberType ==
  ASSUME TypeOK, NEW r \in Roles, NEW c \in Nat, Remember(r, c)
  PROVE  context' \in Seq(Messages)
  <1>1. Message(r, c, Len(log) + 1) \in Messages
    BY MessageType DEF TypeOK
  <1> QED BY <1>1 DEF Remember, TypeOK

(* The words a turn's end puts into its events. *)
LEMMA EndWords ==
  ASSUME NEW x \in Exits
  PROVE  /\ EndState(x) \in RuntimeStates
         /\ SkipStatus(x) \in ToolResultStatuses
         /\ EndState(x) \in Infos /\ SkipStatus(x) \in Infos
  BY DEF EndState, SkipStatus, RuntimeStates, TerminalStates,
         ToolResultStatuses, Infos

(* The initial state and every step are well typed. *)
LEMMA InitType == Init => TypeOK
  <1> SUFFICES ASSUME Init PROVE TypeOK
    OBVIOUS
  <1> USE DEF Init
  <1>1. pc \in PcValues /\ exit \in Exits /\ state \in RuntimeStates
    BY DEF PcValues, Exits, RuntimeStates
  <1>2. log \in Seq(Events) /\ context \in Seq(Messages)
    OBVIOUS
  <1>3. outcome \in [status : ToolResultStatuses,
                     raised : {"none", "interrupted", "failed"}]
    BY DEF ToolResultStatuses
  <1>4. executed \in SUBSET Nat
    OBVIOUS
  <1>5. /\ turnActive \in BOOLEAN /\ sessionStarted \in BOOLEAN
        /\ sessionClosed \in BOOLEAN /\ envStarted \in BOOLEAN
        /\ expired \in BOOLEAN /\ cancelled \in BOOLEAN
        /\ storeFailed \in BOOLEAN /\ forced \in BOOLEAN
    OBVIOUS
  <1>6. /\ turns \in Nat /\ modelSteps \in Nat /\ toolCalls \in Nat
        /\ protocolErrors \in Nat /\ issued \in Nat /\ head \in Nat \ {0}
        /\ attempts \in Nat /\ reply \in {"none", "text", "empty", "tools"}
    OBVIOUS
  <1> QED BY <1>1, <1>2, <1>3, <1>4, <1>5, <1>6, Zenon DEF TypeOK

LEMMA NextType == TypeOK /\ [Next]_vars => TypeOK'
  <1> SUFFICES ASSUME TypeOK, [Next]_vars PROVE TypeOK'
    OBVIOUS
  <1> USE DEF lifecycle, budget, signals, journal, plans, request, Goto, Leave,
              PcValues
  <1>1. CASE RunTurn
    BY <1>1 DEF TypeOK, RunTurn, RuntimeStates, Exits
  <1>2. CASE StartEnvironment
    BY <1>2 DEF TypeOK, StartEnvironment, Exits
  <1>3. CASE EmitSessionStart
    <2>1. Event("session_start", 0, "RUNNING") \in Events
      BY EventType DEF EventTypes, Infos, RuntimeStates
    <2>2. log' \in Seq(Events) /\ storeFailed' \in BOOLEAN
      BY <1>3, <2>1, JournalType DEF EmitSessionStart, Emit
    <2> QED BY <1>3, <2>2 DEF TypeOK, EmitSessionStart, Emit, Abandon, Exits
  <1>4. CASE EmitAgentStart
    <2>1. Event("agent_start", 0, "RUNNING") \in Events
      BY EventType DEF EventTypes, Infos, RuntimeStates
    <2>2. log' \in Seq(Events) /\ storeFailed' \in BOOLEAN
      BY <1>4, <2>1, JournalType DEF EmitAgentStart, Emit
    <2> QED BY <1>4, <2>2 DEF TypeOK, EmitAgentStart, Emit, Abandon, Exits
  <1>5. CASE EmitUserMessage
    <2>1. Event("user_message", 0, "text") \in Events
      BY EventType DEF EventTypes, Infos
    <2>2. log' \in Seq(Events) /\ storeFailed' \in BOOLEAN
      BY <1>5, <2>1, JournalType DEF EmitUserMessage, Emit
    <2>3. context' \in Seq(Messages)
      BY <1>5, RememberType DEF EmitUserMessage, Emit, Abandon, TypeOK, Roles
    <2> QED
      BY <1>5, <2>2, <2>3 DEF TypeOK, EmitUserMessage, Emit, Abandon, Exits
  <1>6. CASE BeginStep
    <2>1. CurrentLimit \in Exits
      BY DEF CurrentLimit, Exits, LimitReasons
    <2>2. exit' \in Exits /\ modelSteps' \in Nat /\ attempts' \in Nat
      BY <1>6, <2>1 DEF BeginStep, TypeOK, Exits
    <2>3. forced' \in BOOLEAN
      BY <1>6, Zenon DEF BeginStep, TypeOK
    <2> QED BY <1>6, <2>2, <2>3 DEF TypeOK, BeginStep
  <1>7. CASE PrepareContext
    BY <1>7 DEF TypeOK, PrepareContext, Exits, LimitReasons
  <1>8. CASE Compact
    <2>1. \A status \in {"success", "failed"} :
            Event("compaction", 0, status) \in Events
      BY EventType DEF EventTypes, Infos, ToolResultStatuses
    <2>2. log' \in Seq(Events) /\ storeFailed' \in BOOLEAN
      BY <1>8, <2>1, JournalType DEF Compact, Emit
    <2>3. attempts' \in Nat
      BY <1>8, LoopAssumption DEF TypeOK, Compact, LoopAssumption
    <2> QED BY <1>8, <2>2, <2>3 DEF TypeOK, Compact, Emit, Abandon, Exits
  <1>9. CASE Respond
    <2> PICK n \in 0 .. MaxCallsPerResponse,
             kind \in {"text", "empty", "tools"} :
          /\ reply' = kind
          /\ Emit(Event("assistant_message", issued + n, kind),
                  /\ Goto("declared")
                  /\ issued' = issued + n /\ UNCHANGED head
                  /\ Remember("assistant", issued + n))
      BY <1>9, Zenon DEF Respond
    <2>1. issued + n \in Nat
      BY LoopAssumption DEF TypeOK, LoopAssumption
    <2>2. Event("assistant_message", issued + n, kind) \in Events
      BY <2>1, EventType DEF EventTypes, Infos
    <2>3. log' \in Seq(Events) /\ storeFailed' \in BOOLEAN
      BY <2>2, JournalType DEF Emit
    <2>4. context' \in Seq(Messages)
      BY <2>1, RememberType DEF Emit, Abandon, TypeOK, Roles
    <2> QED
      BY <1>9, <2>1, <2>3, <2>4 DEF TypeOK, Respond, Emit, Abandon, Exits
  <1>10. CASE RetryOverflow
    <2>1. Event("retry", 0, "context_overflow") \in Events
      BY EventType DEF EventTypes, Infos
    <2>2. log' \in Seq(Events) /\ storeFailed' \in BOOLEAN
      BY <1>10, <2>1, JournalType DEF RetryOverflow, Emit
    <2> QED BY <1>10, <2>2 DEF TypeOK, RetryOverflow, Emit, Abandon, Exits
  <1>11. CASE ModelRaises
    BY <1>11 DEF TypeOK, ModelRaises, Exits
  <1>12. CASE AcceptResponse
    BY <1>12 DEF TypeOK, AcceptResponse, Exits, LimitReasons
  <1>13. CASE RecoverEmptyResponse
    <2>1. Event("error", 0, "recoverable") \in Events
      BY EventType DEF EventTypes, Infos
    <2>2. log' \in Seq(Events) /\ storeFailed' \in BOOLEAN
      BY <1>13, <2>1, JournalType DEF RecoverEmptyResponse, Emit
    <2>3. context' \in Seq(Messages)
      BY <1>13, RememberType
         DEF RecoverEmptyResponse, Emit, Abandon, TypeOK, Roles
    <2> QED
      BY <1>13, <2>2, <2>3
         DEF TypeOK, RecoverEmptyResponse, Emit, Abandon, Exits, LimitReasons
  <1>14. CASE Dispatch
    <2>1. Event("tool_call", head, "declared") \in Events
      BY EventType DEF TypeOK, EventTypes, Infos
    <2>2. log' \in Seq(Events) /\ storeFailed' \in BOOLEAN
      BY <1>14, <2>1, JournalType DEF Dispatch, Emit, TypeOK
    <2> QED
      BY <1>14, <2>2 DEF TypeOK, Dispatch, Emit, Abandon, Exits, LimitReasons
  <1>15. CASE RejectCall
    <2>1. Event("policy_decision", head, "deny") \in Events
      BY EventType DEF TypeOK, EventTypes, Infos
    <2>2. log' \in Seq(Events) /\ storeFailed' \in BOOLEAN
      BY <1>15, <2>1, JournalType DEF RejectCall, Emit
    <2> QED
      BY <1>15, <2>2
         DEF TypeOK, RejectCall, Emit, Abandon, Exits, ToolResultStatuses
  <1>16. CASE AllowCall
    <2>1. Event("policy_decision", head, "allow") \in Events
      BY EventType DEF TypeOK, EventTypes, Infos
    <2>2. log' \in Seq(Events) /\ storeFailed' \in BOOLEAN
      BY <1>16, <2>1, JournalType DEF AllowCall, Emit
    <2> QED BY <1>16, <2>2 DEF TypeOK, AllowCall, Emit, Abandon, Exits
  <1>17. CASE AskApproval
    <2>1. Event("approval_request", head, "ask") \in Events
      BY EventType DEF TypeOK, EventTypes, Infos
    <2>2. log' \in Seq(Events) /\ storeFailed' \in BOOLEAN
      BY <1>17, <2>1, JournalType DEF AskApproval, Emit
    <2> QED
      BY <1>17, <2>2
         DEF TypeOK, AskApproval, Emit, Abandon, Exits, RuntimeStates
  <1>18. CASE AnswerApproval
    <2> PICK approved \in BOOLEAN : Approve(approved)
      BY <1>18 DEF AnswerApproval
    <2>1. /\ Event("policy_decision", head, "deny") \in Events
          /\ Event("policy_decision", head, "allow") \in Events
      BY EventType DEF TypeOK, EventTypes, Infos
    <2>2. Event("policy_decision", head, IF approved THEN "allow" ELSE "deny")
            \in Events
      BY <2>1
    <2>3. log' \in Seq(Events) /\ storeFailed' \in BOOLEAN
      BY <2>2, JournalType DEF Approve, Emit
    <2> QED
      BY <2>3 DEF TypeOK, Approve, Emit, Abandon, Exits, RuntimeStates,
                  ToolResultStatuses
  <1>19. CASE Execute
    BY <1>19 DEF TypeOK, Execute, ToolResultStatuses
  <1>20. CASE PublishResult
    <2>1. Event("tool_result", head, outcome.status) \in Events
      BY EventType DEF TypeOK, EventTypes, Infos
    <2>2. log' \in Seq(Events) /\ storeFailed' \in BOOLEAN
      BY <1>20, <2>1, JournalType DEF PublishResult, Emit
    <2>3. context' \in Seq(Messages)
      BY <1>20, RememberType DEF PublishResult, Emit, Abandon, TypeOK, Roles
    <2> QED
      BY <1>20, <2>2, <2>3 DEF TypeOK, PublishResult, Emit, Abandon, Exits
  <1>21. CASE Settle
    BY <1>21 DEF TypeOK, Settle, Exits, LimitReasons
  <1>22. CASE SkipCall
    <2>1. Event("tool_call", head, "declared") \in Events
      BY EventType DEF TypeOK, EventTypes, Infos
    <2>2. log' \in Seq(Events) /\ storeFailed' \in BOOLEAN
      BY <1>22, <2>1, JournalType DEF SkipCall, Emit
    <2> QED BY <1>22, <2>2 DEF TypeOK, SkipCall, Emit, Abandon, Exits
  <1>23. CASE SkipPolicy
    <2>1. Event("policy_decision", head, "deny") \in Events
      BY EventType DEF TypeOK, EventTypes, Infos
    <2>2. log' \in Seq(Events) /\ storeFailed' \in BOOLEAN
      BY <1>23, <2>1, JournalType DEF SkipPolicy, Emit
    <2> QED BY <1>23, <2>2 DEF TypeOK, SkipPolicy, Emit, Abandon, Exits
  <1>24. CASE SkipResult
    <2>1. Event("tool_result", head, SkipStatus(exit)) \in Events
      BY EndWords, EventType DEF TypeOK, EventTypes
    <2>2. log' \in Seq(Events) /\ storeFailed' \in BOOLEAN
      BY <1>24, <2>1, JournalType DEF SkipResult, Emit
    <2>3. context' \in Seq(Messages)
      BY <1>24, RememberType DEF SkipResult, Emit, Abandon, TypeOK, Roles
    <2> QED BY <1>24, <2>2, <2>3 DEF TypeOK, SkipResult, Emit, Abandon, Exits
  <1>25. CASE SkipDone
    BY <1>25 DEF TypeOK, SkipDone, Exits
  <1>26. CASE EmitError
    <2>1. Event("error", 0, "FAILED") \in Events
      BY EventType DEF EventTypes, Infos, RuntimeStates, TerminalStates
    <2>2. log' \in Seq(Events) /\ storeFailed' \in BOOLEAN
      BY <1>26, <2>1, JournalType DEF EmitError, EmitBestEffort
    <2> QED BY <1>26, <2>2 DEF TypeOK, EmitError, EmitBestEffort, Exits
  <1>27. CASE EmitTurnEnd
    <2>1. Event("turn_end", 0, EndState(exit)) \in Events
      BY EndWords, EventType DEF TypeOK, EventTypes
    <2>2. log' \in Seq(Events) /\ storeFailed' \in BOOLEAN
      BY <1>27, <2>1, JournalType DEF EmitTurnEnd
    <2>3. state' \in RuntimeStates /\ exit' \in Exits
      BY <1>27, EndWords DEF TypeOK, EmitTurnEnd, TurnOver, Abandon, Exits
    <2>4. turnActive' \in BOOLEAN
      BY <1>27 DEF TypeOK, EmitTurnEnd, TurnOver
    <2>5. pc' \in PcValues
      BY <1>27 DEF TypeOK, EmitTurnEnd, TurnOver, Abandon
    <2> QED
      BY <1>27, <2>2, <2>3, <2>4, <2>5
         DEF TypeOK, EmitTurnEnd, TurnOver, Abandon
  <1>28. CASE HandleRaisedLimit
    <2>1. Event("turn_end", 0, EndState(exit)) \in Events
      BY EndWords, EventType DEF TypeOK, EventTypes
    <2>2. log' \in Seq(Events) /\ storeFailed' \in BOOLEAN
      BY <1>28, <2>1, JournalType DEF HandleRaisedLimit
    <2>3. state' \in RuntimeStates /\ exit' \in Exits
      BY <1>28, EndWords
         DEF TypeOK, HandleRaisedLimit, TurnOver, Abandon, Exits
    <2>4. turnActive' \in BOOLEAN
      BY <1>28 DEF TypeOK, HandleRaisedLimit, TurnOver
    <2>5. pc' \in PcValues
      BY <1>28 DEF TypeOK, HandleRaisedLimit, TurnOver, Abandon
    <2> QED
      BY <1>28, <2>2, <2>3, <2>4, <2>5
         DEF TypeOK, HandleRaisedLimit, TurnOver, Abandon
  <1>29. CASE Close
    BY <1>29 DEF TypeOK, Close, RuntimeStates
  <1>30. CASE EmitAgentEnd
    <2>1. Event("agent_end", 0, state) \in Events
      BY EventType DEF TypeOK, EventTypes, Infos
    <2>2. log' \in Seq(Events) /\ storeFailed' \in BOOLEAN
      BY <1>30, <2>1, JournalType DEF EmitAgentEnd, EmitBestEffort
    <2> QED BY <1>30, <2>2 DEF TypeOK, EmitAgentEnd, EmitBestEffort, Exits
  <1>31. CASE EmitSessionEnd
    <2>1. Event("session_end", 0, state) \in Events
      BY EventType DEF TypeOK, EventTypes, Infos
    <2>2. log' \in Seq(Events) /\ storeFailed' \in BOOLEAN
      BY <1>31, <2>1, JournalType DEF EmitSessionEnd, EmitBestEffort
    <2> QED BY <1>31, <2>2 DEF TypeOK, EmitSessionEnd, EmitBestEffort, Exits
  <1>32. CASE CloseEnvironment
    <2>1. pc' \in PcValues
      BY <1>32 DEF CloseEnvironment
    <2>2. /\ envStarted' = FALSE /\ sessionClosed' = TRUE
          /\ UNCHANGED <<exit, state, turnActive, sessionStarted, turns,
                         budget, signals, journal, context, plans, executed,
                         outcome, request>>
      BY <1>32 DEF CloseEnvironment
    <2>3. /\ log' \in Seq(Events) /\ context' \in Seq(Messages)
          /\ outcome' \in [status : ToolResultStatuses,
                           raised : {"none", "interrupted", "failed"}]
      BY <2>2 DEF TypeOK
    <2> QED
      BY <2>1, <2>2, <2>3 DEF TypeOK
  <1>33. CASE Cancel
    BY <1>33 DEF TypeOK, Cancel, Exits
  <1>34. CASE Expire
    BY <1>34 DEF TypeOK, Expire, Exits
  <1>35. CASE UNCHANGED vars
    BY <1>35 DEF TypeOK, vars
  <1> QED
    BY <1>1, <1>2, <1>3, <1>4, <1>5, <1>6, <1>7, <1>8, <1>9, <1>10, <1>11,
       <1>12, <1>13, <1>14, <1>15, <1>16, <1>17, <1>18, <1>19, <1>20, <1>21,
       <1>22, <1>23, <1>24, <1>25, <1>26, <1>27, <1>28, <1>29, <1>30, <1>31,
       <1>32, <1>33, <1>34, <1>35 DEF Next, LoopStep, OwnStep

(* Every variable keeps its type, for every budget and every number of     *)
(* turns and calls.                                                        *)
THEOREM TypeCorrect == Spec => []TypeOK
  BY InitType, NextType, PTL DEF Spec

-----------------------------------------------------------------------------
(***************************************************************************)
(* The audit trail.  The log alone does not show why a dispatched tool was *)
(* authorised or why results come in order; the strengthening says what    *)
(* each control point of a call may rely on being durable already, and     *)
(* that "head" separates the answered correlations from the others.        *)
(***************************************************************************)
Requested(c) == Durable(Event("tool_call", c, "declared"))

Authorised(c) ==
  \E i \in DOMAIN log :
    /\ log[i] = Event("policy_decision", c, "allow")
    /\ Before(i, Event("tool_call", c, "declared"))

Decided(c) ==
  \E i \in DOMAIN log :
    /\ log[i].type = "policy_decision" /\ log[i].call = c
    /\ Before(i, Event("tool_call", c, "declared"))

AnsweredBelowHead ==
  /\ \A i \in DOMAIN log :
       log[i].type = "tool_result" => log[i].call \in 1 .. (head - 1)
  /\ \A c \in 1 .. (head - 1) :
       \E i \in DOMAIN log : log[i].type = "tool_result" /\ log[i].call = c

AuditTrail ==
  /\ SideEffectsAuthorised
  /\ ResultsFollowDecisions
  /\ ResultsInOrder
  /\ AnsweredBelowHead

(* Where no call may be left unanswered unless the store refused it. *)
Settled ==
  {"idle", "start", "session_start", "agent_start", "user", "top", "prepare",
   "request", "error", "turn_end", "limit_handler", "agent_end",
   "session_end", "close_environment"}

ControlPoints ==
  /\ pc \in {"decide", "waiting", "skip_policy"} => Requested(head)
  /\ pc = "execute" => Authorised(head)
  /\ pc \in {"result", "skip_result"} => Decided(head)
  /\ pc = "declared" => (reply # "tools" => ~Pending)
  /\ pc \in Settled => ~Pending \/ storeFailed

CallInv == AuditTrail /\ ControlPoints

(* Appending an event to the log keeps the positions of the others. *)
LEMMA AppendedLog ==
  ASSUME TypeOK, NEW e \in Events, log' = Append(log, e)
  PROVE  /\ Len(log) \in Nat /\ Len(log') = Len(log) + 1
         /\ DOMAIN log = 1 .. Len(log) /\ DOMAIN log' = 1 .. (Len(log) + 1)
         /\ \A i \in 1 .. Len(log) : log'[i] = log[i]
         /\ log'[Len(log) + 1] = e
  BY DEF TypeOK

(* What a step may do to the log. *)
Publishes(e) == UNCHANGED log \/ log' = Append(log, e)

LEMMA LogGrows ==
  ASSUME TypeOK, NEW e \in Events, Publishes(e)
  PROVE  /\ Len(log) \in Nat /\ Len(log') \in Nat /\ Len(log) =< Len(log')
         /\ DOMAIN log = 1 .. Len(log) /\ DOMAIN log' = 1 .. Len(log')
         /\ \A i \in 1 .. Len(log) : log'[i] = log[i]
  <1>1. CASE UNCHANGED log
    BY <1>1 DEF TypeOK
  <1>2. CASE log' = Append(log, e)
    BY <1>2, AppendedLog
  <1> QED BY <1>1, <1>2 DEF Publishes

(* What a call may rely on stays true while the log grows. *)
LEMMA TrailKept ==
  ASSUME TypeOK, NEW e \in Events, Publishes(e), NEW c \in Nat
  PROVE  /\ Requested(c) => Requested(c)'
         /\ Authorised(c) => Authorised(c)'
         /\ Decided(c) => Decided(c)'
  <1> USE LogGrows
  <1>1. ASSUME Requested(c) PROVE Requested(c)'
    BY <1>1 DEF Requested, Durable, Before
  <1>2. ASSUME Authorised(c) PROVE Authorised(c)'
    <2> PICK i \in DOMAIN log :
           /\ log[i] = Event("policy_decision", c, "allow")
           /\ Before(i, Event("tool_call", c, "declared"))
      BY <1>2 DEF Authorised
    <2>1. Before(i, Event("tool_call", c, "declared"))'
      BY DEF Before
    <2> QED BY <2>1 DEF Authorised
  <1>3. ASSUME Decided(c) PROVE Decided(c)'
    <2> PICK i \in DOMAIN log :
           /\ log[i].type = "policy_decision" /\ log[i].call = c
           /\ Before(i, Event("tool_call", c, "declared"))
      BY <1>3 DEF Decided
    <2>1. Before(i, Event("tool_call", c, "declared"))'
      BY DEF Before
    <2> QED BY <2>1 DEF Decided
  <1> QED BY <1>1, <1>2, <1>3

(* Recording a decision on the requested head decides it.  *)
LEMMA DecisionRecorded ==
  ASSUME TypeOK, Requested(head), NEW d \in {"allow", "deny"},
         log' = Append(log, Event("policy_decision", head, d)), head' = head
  PROVE  Decided(head)' /\ (d = "allow" => Authorised(head)')
  <1> DEFINE e == Event("policy_decision", head, d)
  <1>1. e \in Events
    BY EventType DEF TypeOK, EventTypes, Infos
  <1> PICK n \in Nat : n = Len(log) + 1
    BY <1>1, AppendedLog
  <1>2. Before(n, Event("tool_call", head, "declared"))'
    BY <1>1, AppendedLog DEF Requested, Durable, Before
  <1>3. /\ n \in DOMAIN log' /\ log'[n] = e
        /\ e.type = "policy_decision" /\ e.call = head
    BY <1>1, AppendedLog DEF Event
  <1> QED BY <1>2, <1>3 DEF Decided, Authorised

(* The same for a declaration. *)
LEMMA DeclarationRecorded ==
  ASSUME TypeOK, log' = Append(log, Event("tool_call", head, "declared")),
         head' = head
  PROVE  Requested(head)'
  <1>1. Event("tool_call", head, "declared") \in Events
    BY EventType DEF TypeOK, EventTypes, Infos
  <1> QED BY <1>1, AppendedLog DEF Requested, Durable, Before

(***************************************************************************)
(* The audit trail survives the publication of any event but a result, if  *)
(* the event is about no call or about the next one to answer.             *)
(***************************************************************************)
LEMMA TrailExtended ==
  ASSUME TypeOK, AuditTrail, NEW e \in Events, Publishes(e),
         e.type # "tool_result",
         e.type \in {"tool_call", "approval_request"} => e.call = head,
         head' = head, executed' = executed
  PROVE  AuditTrail'
  <1> USE LogGrows
  <1>1. SideEffectsAuthorised'
    <2> SUFFICES ASSUME NEW c \in executed PROVE Authorised(c)'
      BY DEF SideEffectsAuthorised, Authorised
    <2>1. Authorised(c)
      BY DEF AuditTrail, SideEffectsAuthorised, Authorised
    <2> QED BY <2>1, TrailKept DEF TypeOK
  <1>2. \A i \in DOMAIN log' : log'[i].type = "tool_result" =>
          i \in DOMAIN log /\ log'[i] = log[i]
    <2>1. CASE UNCHANGED log
      BY <2>1
    <2>2. CASE log' = Append(log, e)
      BY <2>2, AppendedLog
    <2> QED BY <2>1, <2>2 DEF Publishes
  <1>3. ResultsFollowDecisions'
    <2> SUFFICES ASSUME NEW i \in DOMAIN log', log'[i].type = "tool_result"
                 PROVE  \E j \in 1 .. (i - 1), k \in 1 .. (i - 1) :
                          /\ log'[j].type = "policy_decision"
                          /\ log'[j].call = log'[i].call
                          /\ k < j
                          /\ log'[k] = Event("tool_call", log'[i].call,
                                             "declared")
      BY DEF ResultsFollowDecisions, Before
    <2>1. i \in DOMAIN log /\ log'[i] = log[i]
      BY <1>2
    <2> PICK j \in 1 .. (i - 1) :
           /\ log[j].type = "policy_decision" /\ log[j].call = log[i].call
           /\ Before(j, Event("tool_call", log[i].call, "declared"))
      BY <2>1 DEF AuditTrail, ResultsFollowDecisions
    <2> PICK k \in 1 .. (j - 1) :
           log[k] = Event("tool_call", log[i].call, "declared")
      BY DEF Before
    <2> QED BY <2>1
  <1>4. ResultsInOrder'
    <2>1. \A i, j \in DOMAIN log' :
            /\ log'[i].type = "tool_result" /\ log'[j].type = "tool_result"
            /\ i < j
            => log'[i].call < log'[j].call
      BY <1>2 DEF AuditTrail, ResultsInOrder
    <2>2. ASSUME NEW i \in DOMAIN log',
                 log'[i].type \in {"tool_call", "approval_request",
                                   "tool_result"},
                 NEW c \in 1 .. (log'[i].call - 1)
          PROVE  \E j \in 1 .. (i - 1) :
                   log'[j].type = "tool_result" /\ log'[j].call = c
      <3>1. CASE i \in DOMAIN log
        BY <2>2, <3>1 DEF AuditTrail, ResultsInOrder
      <3>2. CASE i \notin DOMAIN log
        <4>1. i = Len(log) + 1 /\ log'[i] = e
          BY <3>2, AppendedLog DEF Publishes
        <4>2. c \in 1 .. (head - 1)
          BY <4>1, <2>2
        <4> QED BY <4>1, <4>2 DEF AuditTrail, AnsweredBelowHead
      <3> QED BY <3>1, <3>2
    <2> QED BY <2>1, <2>2 DEF ResultsInOrder
  <1>5. AnsweredBelowHead'
    BY <1>2 DEF AuditTrail, AnsweredBelowHead
  <1> QED BY <1>1, <1>3, <1>4, <1>5 DEF AuditTrail

LEMMA TrailUntouched ==
  ASSUME AuditTrail, UNCHANGED <<log, head, executed>>
  PROVE  AuditTrail'
  BY DEF AuditTrail, SideEffectsAuthorised, ResultsFollowDecisions,
         ResultsInOrder, AnsweredBelowHead, Before

(* It survives the result of a decided call, which moves head. *)
LEMMA TrailAnswered ==
  ASSUME TypeOK, AuditTrail, Decided(head), NEW status \in ToolResultStatuses,
         log' = Append(log, Event("tool_result", head, status)),
         head' = head + 1, executed' = executed
  PROVE  AuditTrail'
  <1> DEFINE e == Event("tool_result", head, status)
  <1>1. e \in Events
    BY EventType DEF TypeOK, EventTypes, Infos, ToolResultStatuses
  <1>2. e.type = "tool_result" /\ e.call = head
    BY DEF Event
  <1>3. Publishes(e)
    BY DEF Publishes
  <1>4. /\ Len(log) \in Nat
        /\ DOMAIN log = 1 .. Len(log) /\ DOMAIN log' = 1 .. (Len(log) + 1)
        /\ \A i \in 1 .. Len(log) : log'[i] = log[i]
        /\ log'[Len(log) + 1] = e
    BY <1>1, AppendedLog
  <1> HIDE DEF e
  <1>5. SideEffectsAuthorised'
    <2> SUFFICES ASSUME NEW c \in executed PROVE Authorised(c)'
      BY DEF SideEffectsAuthorised, Authorised
    <2>1. Authorised(c)
      BY DEF AuditTrail, SideEffectsAuthorised, Authorised
    <2> QED BY <2>1, <1>1, <1>3, TrailKept DEF TypeOK
  <1>6. ResultsFollowDecisions'
    <2> SUFFICES ASSUME NEW i \in DOMAIN log', log'[i].type = "tool_result"
                 PROVE  \E j \in 1 .. (i - 1), k \in 1 .. (i - 1) :
                          /\ log'[j].type = "policy_decision"
                          /\ log'[j].call = log'[i].call
                          /\ k < j
                          /\ log'[k] = Event("tool_call", log'[i].call,
                                             "declared")
      BY DEF ResultsFollowDecisions, Before
    <2>1. CASE i = Len(log) + 1
      <3> PICK j \in DOMAIN log :
             /\ log[j].type = "policy_decision" /\ log[j].call = head
             /\ Before(j, Event("tool_call", head, "declared"))
        BY DEF Decided
      <3> PICK k \in 1 .. (j - 1) :
             log[k] = Event("tool_call", head, "declared")
        BY DEF Before
      <3> QED BY <1>2, <1>4, <2>1
    <2>2. CASE i # Len(log) + 1
      <3>1. i \in DOMAIN log /\ log'[i] = log[i]
        BY <1>4, <2>2
      <3> PICK j \in 1 .. (i - 1) :
             /\ log[j].type = "policy_decision" /\ log[j].call = log[i].call
             /\ Before(j, Event("tool_call", log[i].call, "declared"))
        BY <3>1 DEF AuditTrail, ResultsFollowDecisions
      <3> PICK k \in 1 .. (j - 1) :
             log[k] = Event("tool_call", log[i].call, "declared")
        BY DEF Before
      <3> QED BY <1>4, <3>1
    <2> QED BY <2>1, <2>2
  <1>7. \A i \in DOMAIN log : log[i].type = "tool_result" =>
          log[i].call < head
    BY <1>4 DEF AuditTrail, AnsweredBelowHead, TypeOK
  <1>8. ResultsInOrder'
    <2>1. ASSUME NEW i \in DOMAIN log', NEW j \in DOMAIN log', i < j,
                 log'[i].type = "tool_result", log'[j].type = "tool_result"
          PROVE  log'[i].call < log'[j].call
      <3>1. CASE j = Len(log) + 1
        BY <1>2, <1>4, <1>7, <2>1, <3>1
      <3>2. CASE j # Len(log) + 1
        BY <1>4, <2>1, <3>2 DEF AuditTrail, ResultsInOrder
      <3> QED BY <3>1, <3>2
    <2>2. ASSUME NEW i \in DOMAIN log',
                 log'[i].type \in {"tool_call", "approval_request",
                                   "tool_result"},
                 NEW c \in 1 .. (log'[i].call - 1)
          PROVE  \E j \in 1 .. (i - 1) :
                   log'[j].type = "tool_result" /\ log'[j].call = c
      <3>1. CASE i = Len(log) + 1
        BY <1>2, <1>4, <2>2, <3>1 DEF AuditTrail, AnsweredBelowHead
      <3>2. CASE i # Len(log) + 1
        BY <1>4, <2>2, <3>2 DEF AuditTrail, ResultsInOrder
      <3> QED BY <3>1, <3>2
    <2> QED BY <2>1, <2>2 DEF ResultsInOrder
  <1>9. AnsweredBelowHead'
    <2>1. ASSUME NEW i \in DOMAIN log', log'[i].type = "tool_result"
          PROVE  log'[i].call \in 1 .. head
      BY <1>2, <1>4, <2>1 DEF AuditTrail, AnsweredBelowHead, TypeOK
    <2>2. ASSUME NEW c \in 1 .. head
          PROVE  \E i \in DOMAIN log' :
                   log'[i].type = "tool_result" /\ log'[i].call = c
      <3>1. CASE c = head
        BY <1>2, <1>4, <3>1
      <3>2. CASE c # head
        BY <1>4, <2>2, <3>2 DEF AuditTrail, AnsweredBelowHead, TypeOK
      <3> QED BY <3>1, <3>2
    <2>3. 1 .. (head' - 1) = 1 .. head
      BY DEF TypeOK
    <2> QED BY <2>1, <2>2, <2>3 DEF AnsweredBelowHead
  <1> QED BY <1>5, <1>6, <1>8, <1>9 DEF AuditTrail

LEMMA CallInit == Init => CallInv
  BY DEF Init, CallInv, AuditTrail, SideEffectsAuthorised,
         ResultsFollowDecisions, ResultsInOrder, AnsweredBelowHead,
         ControlPoints, Pending, Settled

(* Events about no call. *)
LEMMA OtherEvent ==
  ASSUME NEW t \in EventTypes \ {"tool_result", "tool_call",
                                 "approval_request"},
         NEW c \in Nat, NEW i \in Infos,
         Record(Event(t, c, i)) \/ Refuse
  PROVE  \E e \in Events :
           /\ e.type \notin {"tool_result", "tool_call", "approval_request"}
           /\ Publishes(e)
  <1>1. Event(t, c, i) \in Events /\ Event(t, c, i).type = t
    BY EventType DEF Event
  <1>2. Publishes(Event(t, c, i))
    BY DEF Publishes, Record, Refuse
  <1> QED BY <1>1, <1>2

(* The control points of the calls after an event the store refused. *)
LEMMA ControlAbandoned ==
  ASSUME Refuse, Abandon
  PROVE  ControlPoints'
  BY DEF ControlPoints, Refuse, Abandon, Leave

(* The events of the call at the head of the pending ones. *)
LEMMA CallEvent ==
  ASSUME TypeOK, NEW t \in {"tool_call", "policy_decision",
     "approval_request"},
         NEW i \in Infos, Record(Event(t, head, i)) \/ Refuse
  PROVE  \E e \in Events :
           /\ e.type # "tool_result" /\ e.call = head
           /\ Publishes(e)
  <1>1. /\ Event(t, head, i) \in Events /\ Event(t, head, i).type = t
        /\ Event(t, head, i).call = head
    BY EventType DEF Event, EventTypes, TypeOK
  <1>2. Publishes(Event(t, head, i))
    BY DEF Publishes, Record, Refuse
  <1> QED BY <1>1, <1>2

LEMMA CallNext == TypeOK /\ CallInv /\ [Next]_vars => CallInv'
  <1> SUFFICES ASSUME TypeOK, CallInv, [Next]_vars PROVE CallInv'
    OBVIOUS
  <1> USE DEF lifecycle, budget, signals, journal, plans, request, Goto, Leave
  <1>1. CASE RunTurn
    <2>1. AuditTrail'
      BY <1>1, TrailUntouched DEF CallInv, RunTurn
    <2>2. ControlPoints'
      BY <1>1 DEF CallInv, ControlPoints, RunTurn, Requested, Authorised,
                  Decided, Durable, Before, Pending, Settled
    <2> QED BY <2>1, <2>2 DEF CallInv
  <1>2. CASE StartEnvironment
    <2>1. AuditTrail'
      BY <1>2, TrailUntouched DEF CallInv, StartEnvironment
    <2>2. ControlPoints'
      BY <1>2
         DEF CallInv, ControlPoints, StartEnvironment, Requested, Authorised,
                  Decided, Durable, Before, Pending, Settled
    <2> QED BY <2>1, <2>2 DEF CallInv
  <1>3. CASE BeginStep
    <2>1. AuditTrail'
      BY <1>3, TrailUntouched DEF CallInv, BeginStep
    <2>2. ControlPoints'
      BY <1>3 DEF CallInv, ControlPoints, BeginStep, Requested, Authorised,
                  Decided, Durable, Before, Pending, Settled
    <2> QED BY <2>1, <2>2 DEF CallInv
  <1>4. CASE PrepareContext
    <2>1. AuditTrail'
      BY <1>4, TrailUntouched DEF CallInv, PrepareContext
    <2>2. ControlPoints'
      BY <1>4
         DEF CallInv, ControlPoints, PrepareContext, Requested, Authorised,
                  Decided, Durable, Before, Pending, Settled
    <2> QED BY <2>1, <2>2 DEF CallInv
  <1>5. CASE ModelRaises
    <2>1. AuditTrail'
      BY <1>5, TrailUntouched DEF CallInv, ModelRaises
    <2>2. ControlPoints'
      BY <1>5 DEF CallInv, ControlPoints, ModelRaises, Requested, Authorised,
                  Decided, Durable, Before, Pending, Settled
    <2> QED BY <2>1, <2>2 DEF CallInv
  <1>6. CASE AcceptResponse
    <2>1. AuditTrail'
      BY <1>6, TrailUntouched DEF CallInv, AcceptResponse
    <2>2. ControlPoints'
      BY <1>6
         DEF CallInv, ControlPoints, AcceptResponse, Requested, Authorised,
                  Decided, Durable, Before, Pending, Settled
    <2> QED BY <2>1, <2>2 DEF CallInv
  <1>7. CASE Settle
    <2>1. AuditTrail'
      BY <1>7, TrailUntouched DEF CallInv, Settle
    <2>2. ControlPoints'
      BY <1>7 DEF CallInv, ControlPoints, Settle, Requested, Authorised,
                  Decided, Durable, Before, Pending, Settled
    <2> QED BY <2>1, <2>2 DEF CallInv
  <1>8. CASE SkipDone
    <2>1. AuditTrail'
      BY <1>8, TrailUntouched DEF CallInv, SkipDone
    <2>2. ControlPoints'
      BY <1>8 DEF CallInv, ControlPoints, SkipDone, Requested, Authorised,
                  Decided, Durable, Before, Pending, Settled
    <2> QED BY <2>1, <2>2 DEF CallInv
  <1>9. CASE Close
    <2>1. AuditTrail'
      BY <1>9, TrailUntouched DEF CallInv, Close
    <2>2. ControlPoints'
      BY <1>9 DEF CallInv, ControlPoints, Close, Requested, Authorised,
                  Decided, Durable, Before, Pending, Settled
    <2> QED BY <2>1, <2>2 DEF CallInv
  <1>10. CASE CloseEnvironment
    <2>1. AuditTrail'
      BY <1>10, TrailUntouched DEF CallInv, CloseEnvironment
    <2>2. ControlPoints'
      BY <1>10
         DEF CallInv, ControlPoints, CloseEnvironment, Requested, Authorised,
                  Decided, Durable, Before, Pending, Settled
    <2> QED BY <2>1, <2>2 DEF CallInv
  <1>11. CASE Cancel
    <2>1. AuditTrail'
      BY <1>11, TrailUntouched DEF CallInv, Cancel
    <2>2. ControlPoints'
      BY <1>11 DEF CallInv, ControlPoints, Cancel, Requested, Authorised,
                  Decided, Durable, Before, Pending, Settled
    <2> QED BY <2>1, <2>2 DEF CallInv
  <1>12. CASE Expire
    <2>1. AuditTrail'
      BY <1>12, TrailUntouched DEF CallInv, Expire
    <2>2. ControlPoints'
      BY <1>12 DEF CallInv, ControlPoints, Expire, Requested, Authorised,
                  Decided, Durable, Before, Pending, Settled
    <2> QED BY <2>1, <2>2 DEF CallInv
  <1>13. CASE EmitSessionStart
    <2>1. \E e \in Events :
            /\ e.type \notin {"tool_result", "tool_call", "approval_request"}
            /\ Publishes(e)
      BY <1>13, OtherEvent DEF EmitSessionStart, Emit, EventTypes, Infos,
         RuntimeStates
    <2>2. AuditTrail'
      BY <1>13, <2>1, TrailExtended
         DEF CallInv, EmitSessionStart, Emit, Abandon, TurnOver
    <2>3. ControlPoints'
      BY <1>13 DEF CallInv, ControlPoints, EmitSessionStart, Emit, Record,
                  Refuse, Abandon, TurnOver, Pending, Settled
    <2> QED BY <2>2, <2>3 DEF CallInv
  <1>14. CASE EmitAgentStart
    <2>1. \E e \in Events :
            /\ e.type \notin {"tool_result", "tool_call", "approval_request"}
            /\ Publishes(e)
      BY <1>14, OtherEvent DEF EmitAgentStart, Emit, EventTypes, Infos,
         RuntimeStates
    <2>2. AuditTrail'
      BY <1>14, <2>1, TrailExtended
         DEF CallInv, EmitAgentStart, Emit, Abandon, TurnOver
    <2>3. ControlPoints'
      BY <1>14 DEF CallInv, ControlPoints, EmitAgentStart, Emit, Record,
                  Refuse, Abandon, TurnOver, Pending, Settled
    <2> QED BY <2>2, <2>3 DEF CallInv
  <1>15. CASE EmitUserMessage
    <2>1. \E e \in Events :
            /\ e.type \notin {"tool_result", "tool_call", "approval_request"}
            /\ Publishes(e)
      BY <1>15, OtherEvent DEF EmitUserMessage, Emit, EventTypes, Infos
    <2>2. AuditTrail'
      BY <1>15, <2>1, TrailExtended
         DEF CallInv, EmitUserMessage, Emit, Abandon, TurnOver
    <2>3. ControlPoints'
      BY <1>15 DEF CallInv, ControlPoints, EmitUserMessage, Emit, Record,
                  Refuse, Abandon, TurnOver, Pending, Settled
    <2> QED BY <2>2, <2>3 DEF CallInv
  <1>16. CASE Compact
    <2>1. \E e \in Events :
            /\ e.type \notin {"tool_result", "tool_call", "approval_request"}
            /\ Publishes(e)
      BY <1>16, OtherEvent DEF Compact, Emit, EventTypes, Infos,
         ToolResultStatuses
    <2>2. AuditTrail'
      BY <1>16, <2>1, TrailExtended
         DEF CallInv, Compact, Emit, Abandon, TurnOver
    <2>3. ControlPoints'
      BY <1>16 DEF CallInv, ControlPoints, Compact, Emit, Record,
                  Refuse, Abandon, TurnOver, Pending, Settled
    <2> QED BY <2>2, <2>3 DEF CallInv
  <1>17. CASE RetryOverflow
    <2>1. \E e \in Events :
            /\ e.type \notin {"tool_result", "tool_call", "approval_request"}
            /\ Publishes(e)
      BY <1>17, OtherEvent DEF RetryOverflow, Emit, EventTypes, Infos
    <2>2. AuditTrail'
      BY <1>17, <2>1, TrailExtended
         DEF CallInv, RetryOverflow, Emit, Abandon, TurnOver
    <2>3. ControlPoints'
      BY <1>17 DEF CallInv, ControlPoints, RetryOverflow, Emit, Record,
                  Refuse, Abandon, TurnOver, Pending, Settled
    <2> QED BY <2>2, <2>3 DEF CallInv
  <1>18. CASE RecoverEmptyResponse
    <2>1. \E e \in Events :
            /\ e.type \notin {"tool_result", "tool_call", "approval_request"}
            /\ Publishes(e)
      BY <1>18, OtherEvent DEF RecoverEmptyResponse, Emit, EventTypes, Infos
    <2>2. AuditTrail'
      BY <1>18, <2>1, TrailExtended
         DEF CallInv, RecoverEmptyResponse, Emit, Abandon, TurnOver
    <2>3. ControlPoints'
      BY <1>18 DEF CallInv, ControlPoints, RecoverEmptyResponse, Emit, Record,
                  Refuse, Abandon, TurnOver, Pending, Settled
    <2> QED BY <2>2, <2>3 DEF CallInv
  <1>19. CASE EmitError
    <2>1. \E e \in Events :
            /\ e.type \notin {"tool_result", "tool_call", "approval_request"}
            /\ Publishes(e)
      BY <1>19, OtherEvent DEF EmitError, EmitBestEffort, EventTypes, Infos,
         RuntimeStates, TerminalStates
    <2>2. AuditTrail'
      BY <1>19, <2>1, TrailExtended
         DEF CallInv, EmitError, Emit, Abandon, TurnOver
    <2>3. ControlPoints'
      BY <1>19 DEF CallInv, ControlPoints, EmitError, EmitBestEffort, Record,
                  Refuse, Abandon, TurnOver, Pending, Settled
    <2> QED BY <2>2, <2>3 DEF CallInv
  <1>20. CASE EmitTurnEnd
    <2>1. \E e \in Events :
            /\ e.type \notin {"tool_result", "tool_call", "approval_request"}
            /\ Publishes(e)
      BY <1>20, EndWords, OtherEvent DEF EmitTurnEnd, TypeOK, EventTypes
    <2>2. AuditTrail'
      BY <1>20, <2>1, TrailExtended
         DEF CallInv, EmitTurnEnd, Emit, Abandon, TurnOver
    <2>3. ControlPoints'
      BY <1>20 DEF CallInv, ControlPoints, EmitTurnEnd, Record,
                  Refuse, Abandon, TurnOver, Pending, Settled
    <2> QED BY <2>2, <2>3 DEF CallInv
  <1>21. CASE HandleRaisedLimit
    <2>1. \E e \in Events :
            /\ e.type \notin {"tool_result", "tool_call", "approval_request"}
            /\ Publishes(e)
      BY <1>21, EndWords, OtherEvent DEF HandleRaisedLimit, TypeOK, EventTypes
    <2>2. AuditTrail'
      BY <1>21, <2>1, TrailExtended
         DEF CallInv, HandleRaisedLimit, Emit, Abandon, TurnOver
    <2>3. ControlPoints'
      BY <1>21 DEF CallInv, ControlPoints, HandleRaisedLimit, Record,
                  Refuse, Abandon, TurnOver, Pending, Settled
    <2> QED BY <2>2, <2>3 DEF CallInv
  <1>22. CASE EmitAgentEnd
    <2>1. \E e \in Events :
            /\ e.type \notin {"tool_result", "tool_call", "approval_request"}
            /\ Publishes(e)
      BY <1>22, OtherEvent
         DEF EmitAgentEnd, EmitBestEffort, EventTypes, Infos, TypeOK
    <2>2. AuditTrail'
      BY <1>22, <2>1, TrailExtended
         DEF CallInv, EmitAgentEnd, Emit, Abandon, TurnOver
    <2>3. ControlPoints'
      BY <1>22
         DEF CallInv, ControlPoints, EmitAgentEnd, EmitBestEffort, Record,
                  Refuse, Abandon, TurnOver, Pending, Settled
    <2> QED BY <2>2, <2>3 DEF CallInv
  <1>23. CASE EmitSessionEnd
    <2>1. \E e \in Events :
            /\ e.type \notin {"tool_result", "tool_call", "approval_request"}
            /\ Publishes(e)
      BY <1>23, OtherEvent
         DEF EmitSessionEnd, EmitBestEffort, EventTypes, Infos, TypeOK
    <2>2. AuditTrail'
      BY <1>23, <2>1, TrailExtended
         DEF CallInv, EmitSessionEnd, Emit, Abandon, TurnOver
    <2>3. ControlPoints'
      BY <1>23
         DEF CallInv, ControlPoints, EmitSessionEnd, EmitBestEffort, Record,
                  Refuse, Abandon, TurnOver, Pending, Settled
    <2> QED BY <2>2, <2>3 DEF CallInv
  <1>24. CASE Respond
    <2> PICK k \in 0 .. MaxCallsPerResponse,
             kind \in {"text", "empty", "tools"} :
          /\ (kind = "tools") <=> (k > 0)
          /\ reply' = kind
          /\ Emit(Event("assistant_message", issued + k, kind),
                  /\ Goto("declared")
                  /\ issued' = issued + k /\ UNCHANGED head
                  /\ Remember("assistant", issued + k))
      BY <1>24, Zenon DEF Respond
    <2>1. issued + k \in Nat
      BY LoopAssumption DEF TypeOK, LoopAssumption
    <2>2. \E e \in Events :
            /\ e.type \notin {"tool_result", "tool_call", "approval_request"}
            /\ Publishes(e)
      BY <2>1, OtherEvent DEF Emit, EventTypes, Infos
    <2>3. AuditTrail'
      BY <1>24, <2>2, TrailExtended DEF CallInv, Respond, Emit, Abandon
    <2>4. ControlPoints'
      BY <1>24, <2>1 DEF CallInv, ControlPoints, Respond, Emit, Record, Refuse,
                  Abandon, Pending, Settled, TypeOK
    <2> QED BY <2>3, <2>4 DEF CallInv
  <1>25. CASE Dispatch
    <2>1. CASE pc' = "skip" /\ UNCHANGED <<journal, plans>>
      <3>1. AuditTrail'
        BY <1>25, <2>1, TrailUntouched DEF CallInv, Dispatch
      <3> QED BY <2>1, <3>1 DEF CallInv, ControlPoints, Settled
    <2>2. CASE Emit(Event("tool_call", head, "declared"),
                    Goto("decide") /\ UNCHANGED <<context, plans>>)
      <3>1. \E e \in Events :
              /\ e.type # "tool_result" /\ e.call = head
              /\ Publishes(e)
        BY <2>2, CallEvent DEF Emit, Infos
      <3>2. AuditTrail'
        BY <1>25, <2>2, <3>1, TrailExtended
           DEF CallInv, Dispatch, Emit, Abandon
      <3>3. CASE Refuse /\ Abandon
        BY <3>2, <3>3, ControlAbandoned DEF CallInv
      <3>4. CASE ~(Refuse /\ Abandon)
        <4>1. Requested(head)' /\ pc' = "decide"
          BY <2>2, <3>4, DeclarationRecorded DEF Emit, Record
        <4> QED BY <3>2, <4>1 DEF CallInv, ControlPoints, Settled
      <3> QED BY <3>3, <3>4
    <2> QED BY <1>25, <2>1, <2>2 DEF Dispatch
  <1>26. CASE RejectCall
    <2>1. \E e \in Events :
            /\ e.type # "tool_result" /\ e.call = head
            /\ Publishes(e)
      BY <1>26, CallEvent DEF RejectCall, Emit, Infos
    <2>2. AuditTrail'
      BY <1>26, <2>1, TrailExtended DEF CallInv, RejectCall, Emit, Abandon
    <2>3. CASE Refuse /\ Abandon
      BY <2>2, <2>3, ControlAbandoned DEF CallInv
    <2>4. CASE ~(Refuse /\ Abandon)
      <3>1. Decided(head)'
        BY <1>26, <2>4, DecisionRecorded
           DEF RejectCall, Emit, Record, CallInv, ControlPoints
      <3>2. ControlPoints'
        BY <1>26, <2>4, <3>1
           DEF ControlPoints, RejectCall, Emit, Record, Settled,
                    Pending
      <3> QED BY <2>2, <3>2 DEF CallInv
    <2> QED BY <2>3, <2>4
  <1>27. CASE AllowCall
    <2>1. \E e \in Events :
            /\ e.type # "tool_result" /\ e.call = head
            /\ Publishes(e)
      BY <1>27, CallEvent DEF AllowCall, Emit, Infos
    <2>2. AuditTrail'
      BY <1>27, <2>1, TrailExtended DEF CallInv, AllowCall, Emit, Abandon
    <2>3. CASE Refuse /\ Abandon
      BY <2>2, <2>3, ControlAbandoned DEF CallInv
    <2>4. CASE ~(Refuse /\ Abandon)
      <3>1. Authorised(head)'
        BY <1>27, <2>4, DecisionRecorded
           DEF AllowCall, Emit, Record, CallInv, ControlPoints
      <3>2. ControlPoints'
        BY <1>27, <2>4, <3>1
           DEF ControlPoints, AllowCall, Emit, Record, Settled,
                    Pending
      <3> QED BY <2>2, <3>2 DEF CallInv
    <2> QED BY <2>3, <2>4
  <1>28. CASE AskApproval
    <2>1. \E e \in Events :
            /\ e.type # "tool_result" /\ e.call = head
            /\ Publishes(e)
      BY <1>28, CallEvent DEF AskApproval, Emit, Infos
    <2>2. AuditTrail'
      BY <1>28, <2>1, TrailExtended DEF CallInv, AskApproval, Emit, Abandon
    <2>3. CASE Refuse /\ Abandon
      BY <2>2, <2>3, ControlAbandoned DEF CallInv
    <2>4. CASE ~(Refuse /\ Abandon)
      <3>1. Requested(head)'
        BY <1>28, <2>4, <2>1, TrailKept
           DEF TypeOK, AskApproval, Emit, Record, CallInv, ControlPoints
      <3>2. ControlPoints'
        BY <1>28, <2>4, <3>1
           DEF ControlPoints, AskApproval, Emit, Record, Settled,
                    Pending
      <3> QED BY <2>2, <3>2 DEF CallInv
    <2> QED BY <2>3, <2>4
  <1>29. CASE AnswerApproval
    <2> PICK approved \in BOOLEAN : Approve(approved)
      BY <1>29 DEF AnswerApproval
    <2>1. \E e \in Events :
            /\ e.type # "tool_result" /\ e.call = head
            /\ Publishes(e)
      BY <1>29, CallEvent DEF Approve, Emit, Infos
    <2>2. AuditTrail'
      BY <1>29, <2>1, TrailExtended DEF CallInv, Approve, Emit, Abandon
    <2>3. CASE Refuse /\ Abandon
      BY <2>2, <2>3, ControlAbandoned DEF CallInv
    <2>4. CASE ~(Refuse /\ Abandon)
      <3>1. Decided(head)' /\ (approved => Authorised(head)')
        BY <1>29, <2>4, DecisionRecorded
           DEF Approve, Emit, Record, CallInv, ControlPoints
      <3>2. ControlPoints'
        BY <1>29, <2>4, <3>1 DEF ControlPoints, Approve, Emit, Record, Settled,
                    Pending
      <3> QED BY <2>2, <3>2 DEF CallInv
    <2> QED BY <2>3, <2>4
  <1>30. CASE SkipCall
    <2>1. \E e \in Events :
            /\ e.type # "tool_result" /\ e.call = head
            /\ Publishes(e)
      BY <1>30, CallEvent DEF SkipCall, Emit, Infos
    <2>2. AuditTrail'
      BY <1>30, <2>1, TrailExtended DEF CallInv, SkipCall, Emit, Abandon
    <2>3. CASE Refuse /\ Abandon
      BY <2>2, <2>3, ControlAbandoned DEF CallInv
    <2>4. CASE ~(Refuse /\ Abandon)
      <3>1. Requested(head)'
        BY <1>30, <2>4, DeclarationRecorded
           DEF SkipCall, Emit, Record, CallInv, ControlPoints
      <3>2. ControlPoints'
        BY <1>30, <2>4, <3>1
           DEF ControlPoints, SkipCall, Emit, Record, Settled,
                    Pending
      <3> QED BY <2>2, <3>2 DEF CallInv
    <2> QED BY <2>3, <2>4
  <1>31. CASE SkipPolicy
    <2>1. \E e \in Events :
            /\ e.type # "tool_result" /\ e.call = head
            /\ Publishes(e)
      BY <1>31, CallEvent DEF SkipPolicy, Emit, Infos
    <2>2. AuditTrail'
      BY <1>31, <2>1, TrailExtended DEF CallInv, SkipPolicy, Emit, Abandon
    <2>3. CASE Refuse /\ Abandon
      BY <2>2, <2>3, ControlAbandoned DEF CallInv
    <2>4. CASE ~(Refuse /\ Abandon)
      <3>1. Decided(head)'
        BY <1>31, <2>4, DecisionRecorded
           DEF SkipPolicy, Emit, Record, CallInv, ControlPoints
      <3>2. ControlPoints'
        BY <1>31, <2>4, <3>1
           DEF ControlPoints, SkipPolicy, Emit, Record, Settled,
                    Pending
      <3> QED BY <2>2, <3>2 DEF CallInv
    <2> QED BY <2>3, <2>4
  <1>32. CASE Execute
    <2>1. Authorised(head)
      BY <1>32 DEF CallInv, ControlPoints, Execute
    <2>2. Decided(head)
      BY <2>1 DEF Authorised, Decided, Event
    <2>3. SideEffectsAuthorised'
      <3> SUFFICES ASSUME NEW c \in executed'
                   PROVE  \E i \in DOMAIN log' :
                            /\ log'[i] = Event("policy_decision", c, "allow")
                            /\ Before(i, Event("tool_call", c, "declared"))'
        BY DEF SideEffectsAuthorised
      <3>1. CASE c \in executed
        BY <1>32, <3>1 DEF CallInv, AuditTrail, SideEffectsAuthorised, Execute,
                    Before
      <3>2. CASE c = head
        BY <1>32, <2>1, <3>2 DEF Authorised, Execute, Before
      <3> QED BY <1>32, <3>1, <3>2 DEF Execute
    <2>4. AuditTrail'
      BY <1>32, <2>3 DEF CallInv, AuditTrail, ResultsFollowDecisions,
                  ResultsInOrder, AnsweredBelowHead, Before, Execute
    <2>5. ControlPoints'
      BY <1>32, <2>2 DEF ControlPoints, Execute, Decided, Before, Settled
    <2> QED BY <2>4, <2>5 DEF CallInv
  <1>33. CASE PublishResult
    <2>1. outcome.status \in ToolResultStatuses /\ Decided(head)
      BY <1>33, EndWords DEF PublishResult, TypeOK, CallInv, ControlPoints
    <2>2. CASE Refuse /\ Abandon
      <3>1. AuditTrail'
        BY <1>33, <2>2, TrailUntouched
           DEF CallInv, PublishResult, Refuse, Abandon
      <3> QED BY <2>2, <3>1, ControlAbandoned DEF CallInv
    <2>3. CASE ~(Refuse /\ Abandon)
      <3>1. AuditTrail'
        BY <1>33, <2>1, <2>3, TrailAnswered
           DEF CallInv, PublishResult, Emit, Record
      <3>2. pc' \in {"settle", "skip"}
        BY <1>33, <2>3 DEF PublishResult, Emit
      <3> QED BY <3>1, <3>2 DEF CallInv, ControlPoints, Settled
    <2> QED BY <2>2, <2>3
  <1>34. CASE SkipResult
    <2>1. SkipStatus(exit) \in ToolResultStatuses /\ Decided(head)
      BY <1>34, EndWords DEF SkipResult, TypeOK, CallInv, ControlPoints
    <2>2. CASE Refuse /\ Abandon
      <3>1. AuditTrail'
        BY <1>34, <2>2, TrailUntouched DEF CallInv, SkipResult, Refuse, Abandon
      <3> QED BY <2>2, <3>1, ControlAbandoned DEF CallInv
    <2>3. CASE ~(Refuse /\ Abandon)
      <3>1. AuditTrail'
        BY <1>34, <2>1, <2>3, TrailAnswered
           DEF CallInv, SkipResult, Emit, Record
      <3>2. pc' \in {"settle", "skip"}
        BY <1>34, <2>3 DEF SkipResult, Emit
      <3> QED BY <3>1, <3>2 DEF CallInv, ControlPoints, Settled
    <2> QED BY <2>2, <2>3
  <1>35. CASE UNCHANGED vars
    <2>1. AuditTrail'
      BY <1>35, TrailUntouched DEF CallInv, vars
    <2>2. ControlPoints'
      BY <1>35
         DEF CallInv, ControlPoints, vars, Requested, Authorised, Decided,
                  Durable, Before, Pending, Settled
    <2> QED BY <2>1, <2>2 DEF CallInv
  <1> QED
    BY <1>1, <1>2, <1>3, <1>4, <1>5, <1>6, <1>7, <1>8, <1>9, <1>10, <1>11,
       <1>12, <1>13, <1>14, <1>15, <1>16, <1>17, <1>18, <1>19, <1>20, <1>21,
       <1>22, <1>23, <1>24, <1>25, <1>26, <1>27, <1>28, <1>29, <1>30, <1>31,
       <1>32, <1>33, <1>34, <1>35 DEF Next, LoopStep, OwnStep

(* For every session: a tool is dispatched only after its declaration and  *)
(* its "allow" are durable, and every result follows a decision.           *)
THEOREM AuditTrailKept ==
  Spec => [](SideEffectsAuthorised /\ ResultsFollowDecisions)
  <1>1. Init => TypeOK /\ CallInv
    BY InitType, CallInit
  <1>2. TypeOK /\ CallInv /\ [Next]_vars => (TypeOK /\ CallInv)'
    BY NextType, CallNext
  <1>3. TypeOK /\ CallInv => SideEffectsAuthorised /\ ResultsFollowDecisions
    BY DEF CallInv, AuditTrail
  <1> QED BY <1>1, <1>2, <1>3, PTL DEF Spec

(* For every session: calls are declared to the tools and answered one at  *)
(* a time, once each and in the order the model declared them.             *)
THEOREM ResultsOrdered == Spec => []ResultsInOrder
  <1>1. Init => TypeOK /\ CallInv
    BY InitType, CallInit
  <1>2. TypeOK /\ CallInv /\ [Next]_vars => (TypeOK /\ CallInv)'
    BY NextType, CallNext
  <1>3. TypeOK /\ CallInv => ResultsInOrder
    BY DEF CallInv, AuditTrail
  <1> QED BY <1>1, <1>2, <1>3, PTL DEF Spec

(* Whenever run_turn has returned and the store works, no declared call is *)
(* without a result, however the turn ended.                               *)
THEOREM CallsAnswered == Spec => []DeclaredCallsAnswered
  <1>1. Init => TypeOK /\ CallInv
    BY InitType, CallInit
  <1>2. TypeOK /\ CallInv /\ [Next]_vars => (TypeOK /\ CallInv)'
    BY NextType, CallNext
  <1>3. TypeOK /\ CallInv => DeclaredCallsAnswered
    BY DEF TypeOK, CallInv, AuditTrail, AnsweredBelowHead, ControlPoints,
           Settled, Pending, DeclaredCallsAnswered
  <1> QED BY <1>1, <1>2, <1>3, PTL DEF Spec

-----------------------------------------------------------------------------
(***************************************************************************)
(* The invariant: where a turn is active, which calls are pending at the   *)
(* control points that deal with one, and that only issued calls have been *)
(* decided and only calls up to the head have been dispatched.             *)
(***************************************************************************)
InTurn ==
  {"start", "session_start", "agent_start", "user", "top", "prepare",
   "request", "declared", "dispatch", "decide", "waiting", "execute",
   "result", "settle", "skip", "skip_policy", "skip_result", "error",
   "turn_end", "limit_handler"}

InCall ==
  {"dispatch", "decide", "waiting", "execute", "result", "skip_policy",
   "skip_result"}

PhaseInv ==
  /\ pc \in InTurn => turnActive /\ ~sessionClosed
  /\ sessionClosed => pc = "idle"
  /\ turnActive /\ pc \notin InTurn => storeFailed
  /\ head =< issued + 1
  /\ pc \in InCall => Pending
  /\ pc = "declared" /\ reply = "tools" => Pending
  /\ pc = "execute" => head \notin executed
  /\ executed \subseteq 1 .. head
  /\ head \in executed => pc = "result" \/ storeFailed

DecisionsIssued ==
  \A i \in DOMAIN log :
    log[i].type = "policy_decision" => log[i].call \in 1 .. issued

LoopInv == TypeOK /\ CallInv /\ PhaseInv /\ DecisionsIssued

LEMMA PhaseInit == Init => PhaseInv /\ DecisionsIssued
  BY DEF Init, PhaseInv, DecisionsIssued, InTurn, InCall, Pending

(* Only issued calls have been decided, whatever else is published. *)
LEMMA DecisionsKept ==
  ASSUME TypeOK, DecisionsIssued, NEW e \in Events, Publishes(e),
         e.type = "policy_decision" => e.call \in 1 .. issued,
         issued' \in Nat, issued =< issued'
  PROVE  DecisionsIssued'
  <1>1. 1 .. issued \subseteq 1 .. issued'
    BY DEF TypeOK
  <1>2. CASE UNCHANGED log
    BY <1>1, <1>2 DEF DecisionsIssued
  <1>3. CASE log' = Append(log, e)
    BY <1>1, <1>3, AppendedLog DEF DecisionsIssued
  <1> QED BY <1>2, <1>3 DEF Publishes

(* The same, for a step that may fail to publish or that is about a call. *)
LEMMA DecisionsKeptBy ==
  ASSUME TypeOK, DecisionsIssued,
         NEW t \in EventTypes, NEW c \in Nat, NEW i \in Infos,
         t = "policy_decision" => c \in 1 .. issued,
         Record(Event(t, c, i)) \/ Refuse,
         issued' \in Nat, issued =< issued'
  PROVE  DecisionsIssued'
  <1>1. Event(t, c, i) \in Events
    BY EventType
  <1>2. Publishes(Event(t, c, i))
    BY DEF Publishes, Record, Refuse
  <1>3. Event(t, c, i).type = t /\ Event(t, c, i).call = c
    BY DEF Event
  <1> QED BY <1>1, <1>2, <1>3, DecisionsKept

LEMMA DecisionsUntouched ==
  ASSUME DecisionsIssued, UNCHANGED <<log, issued>>
  PROVE  DecisionsIssued'
  BY DEF DecisionsIssued

(* Every step keeps the phase of the turn and the calls it may owe. *)
LEMMA PhaseNext ==
  ASSUME TypeOK, PhaseInv, [Next]_vars
  PROVE  PhaseInv'
  <1> USE DEF PhaseInv, InTurn, InCall, Pending, TypeOK, Goto, Leave,
              lifecycle, journal, plans, request
  <1>1. CASE RunTurn
    BY <1>1 DEF RunTurn
  <1>2. CASE StartEnvironment
    BY <1>2 DEF StartEnvironment
  <1>3. CASE EmitSessionStart
    BY <1>3 DEF EmitSessionStart, Emit, Record, Refuse, Abandon
  <1>4. CASE EmitAgentStart
    BY <1>4 DEF EmitAgentStart, Emit, Record, Refuse, Abandon
  <1>5. CASE EmitUserMessage
    BY <1>5 DEF EmitUserMessage, Emit, Record, Refuse, Abandon
  <1>6. CASE BeginStep
    BY <1>6 DEF BeginStep
  <1>7. CASE PrepareContext
    BY <1>7 DEF PrepareContext
  <1>8. CASE Compact
    BY <1>8 DEF Compact, Emit, Record, Refuse, Abandon
  <1>9. CASE Respond
    BY <1>9, LoopAssumption
       DEF Respond, Emit, Record, Refuse, Abandon, LoopAssumption
  <1>10. CASE RetryOverflow
    BY <1>10 DEF RetryOverflow, Emit, Record, Refuse, Abandon
  <1>11. CASE ModelRaises
    BY <1>11 DEF ModelRaises
  <1>12. CASE AcceptResponse
    BY <1>12 DEF AcceptResponse
  <1>13. CASE RecoverEmptyResponse
    BY <1>13 DEF RecoverEmptyResponse, Emit, Record, Refuse, Abandon
  <1>14. CASE Dispatch
    BY <1>14 DEF Dispatch, Emit, Record, Refuse, Abandon
  <1>15. CASE RejectCall
    BY <1>15 DEF RejectCall, Emit, Record, Refuse, Abandon
  <1>16. CASE AllowCall
    BY <1>16 DEF AllowCall, Emit, Record, Refuse, Abandon
  <1>17. CASE AskApproval
    BY <1>17 DEF AskApproval, Emit, Record, Refuse, Abandon
  <1>18. CASE AnswerApproval
    BY <1>18 DEF AnswerApproval, Approve, Emit, Record, Refuse, Abandon
  <1>19. CASE Execute
    BY <1>19 DEF Execute
  <1>20. CASE PublishResult
    BY <1>20 DEF PublishResult, Emit, Record, Refuse, Abandon
  <1>21. CASE Settle
    BY <1>21 DEF Settle
  <1>22. CASE SkipCall
    BY <1>22 DEF SkipCall, Emit, Record, Refuse, Abandon
  <1>23. CASE SkipPolicy
    BY <1>23 DEF SkipPolicy, Emit, Record, Refuse, Abandon
  <1>24. CASE SkipResult
    BY <1>24 DEF SkipResult, Emit, Record, Refuse, Abandon
  <1>25. CASE SkipDone
    BY <1>25 DEF SkipDone
  <1>26. CASE EmitError
    BY <1>26 DEF EmitError, EmitBestEffort, Record, Refuse
  <1>27. CASE EmitTurnEnd
    BY <1>27 DEF EmitTurnEnd, TurnOver, Record, Refuse, Abandon
  <1>28. CASE HandleRaisedLimit
    BY <1>28 DEF HandleRaisedLimit, TurnOver, Record, Refuse
  <1>29. CASE Close
    BY <1>29 DEF Close
  <1>30. CASE EmitAgentEnd
    BY <1>30 DEF EmitAgentEnd, EmitBestEffort, Record, Refuse
  <1>31. CASE EmitSessionEnd
    BY <1>31 DEF EmitSessionEnd, EmitBestEffort, Record, Refuse
  <1>32. CASE CloseEnvironment
    BY <1>32 DEF CloseEnvironment
  <1>33. CASE Cancel
    BY <1>33 DEF Cancel
  <1>34. CASE Expire
    BY <1>34 DEF Expire
  <1>35. CASE UNCHANGED vars
    BY <1>35 DEF vars
  <1> QED
    BY <1>1, <1>2, <1>3, <1>4, <1>5, <1>6, <1>7, <1>8, <1>9, <1>10, <1>11,
       <1>12, <1>13, <1>14, <1>15, <1>16, <1>17, <1>18, <1>19, <1>20, <1>21,
       <1>22, <1>23, <1>24, <1>25, <1>26, <1>27, <1>28, <1>29, <1>30, <1>31,
       <1>32, <1>33, <1>34, <1>35 DEF Next, LoopStep, OwnStep
(* Every step keeps the decisions within the issued calls. *)
LEMMA DecisionsNext ==
  ASSUME TypeOK, PhaseInv, DecisionsIssued, [Next]_vars
  PROVE  DecisionsIssued'
  <1> USE DEF journal, plans
  <1>0. pc \in InCall => head \in 1 .. issued
    BY DEF PhaseInv, Pending, TypeOK
  <1>1. CASE RunTurn
    BY <1>1, DecisionsUntouched DEF RunTurn
  <1>2. CASE StartEnvironment
    BY <1>2, DecisionsUntouched DEF StartEnvironment
  <1>3. CASE EmitSessionStart
    <2>1. /\ "session_start" \in EventTypes /\ 0 \in Nat /\ "RUNNING" \in Infos
          /\ Record(Event("session_start", 0, "RUNNING")) \/ Refuse
          /\ issued' = issued
      BY <1>3
         DEF EmitSessionStart, Emit, Abandon, EventTypes, Infos, RuntimeStates
    <2> QED BY <2>1, DecisionsKeptBy DEF TypeOK
  <1>4. CASE EmitAgentStart
    <2>1. /\ "agent_start" \in EventTypes /\ 0 \in Nat /\ "RUNNING" \in Infos
          /\ Record(Event("agent_start", 0, "RUNNING")) \/ Refuse
          /\ issued' = issued
      BY <1>4
         DEF EmitAgentStart, Emit, Abandon, EventTypes, Infos, RuntimeStates
    <2> QED BY <2>1, DecisionsKeptBy DEF TypeOK
  <1>5. CASE EmitUserMessage
    <2>1. /\ "user_message" \in EventTypes /\ 0 \in Nat /\ "text" \in Infos
          /\ Record(Event("user_message", 0, "text")) \/ Refuse
          /\ issued' = issued
      BY <1>5 DEF EmitUserMessage, Emit, Abandon, EventTypes, Infos
    <2> QED BY <2>1, DecisionsKeptBy DEF TypeOK
  <1>6. CASE BeginStep
    BY <1>6, DecisionsUntouched DEF BeginStep
  <1>7. CASE PrepareContext
    BY <1>7, DecisionsUntouched DEF PrepareContext
  <1>8. CASE Compact
    <2> PICK status \in {"success", "failed"} :
          Emit(Event("compaction", 0, status),
               Goto("prepare") /\ UNCHANGED <<context, plans>>)
      BY <1>8 DEF Compact
    <2>1. "compaction" \in EventTypes /\ status \in Infos
      BY DEF EventTypes, Infos, ToolResultStatuses
    <2>2. /\ issued' = issued
          /\ Record(Event("compaction", 0, status)) \/ Refuse
      BY DEF Emit, Abandon
    <2> QED BY <2>1, <2>2, DecisionsKeptBy DEF TypeOK
  <1>9. CASE Respond
    <2> PICK n \in 0 .. MaxCallsPerResponse,
             kind \in {"text", "empty", "tools"} :
          Emit(Event("assistant_message", issued + n, kind),
               /\ Goto("declared")
               /\ issued' = issued + n /\ UNCHANGED head
               /\ Remember("assistant", issued + n))
      BY <1>9, Zenon DEF Respond
    <2>1. issued + n \in Nat /\ issued' \in Nat /\ issued =< issued'
      BY LoopAssumption DEF LoopAssumption, Emit, Abandon, TypeOK
    <2>2. "assistant_message" \in EventTypes /\ kind \in Infos
      BY DEF EventTypes, Infos
    <2>3. Record(Event("assistant_message", issued + n, kind)) \/ Refuse
      BY DEF Emit
    <2> QED BY <2>1, <2>2, <2>3, DecisionsKeptBy
  <1>10. CASE RetryOverflow
    <2>1. /\ "retry" \in EventTypes /\ 0 \in Nat
          /\ "context_overflow" \in Infos
          /\ Record(Event("retry", 0, "context_overflow")) \/ Refuse
          /\ issued' = issued
      BY <1>10 DEF RetryOverflow, Emit, Abandon, EventTypes, Infos
    <2> QED BY <2>1, DecisionsKeptBy DEF TypeOK
  <1>11. CASE ModelRaises
    BY <1>11, DecisionsUntouched DEF ModelRaises
  <1>12. CASE AcceptResponse
    BY <1>12, DecisionsUntouched DEF AcceptResponse
  <1>13. CASE RecoverEmptyResponse
    <2>1. /\ "error" \in EventTypes /\ 0 \in Nat /\ "recoverable" \in Infos
          /\ Record(Event("error", 0, "recoverable")) \/ Refuse
          /\ issued' = issued
      BY <1>13 DEF RecoverEmptyResponse, Emit, Abandon, EventTypes, Infos
    <2> QED BY <2>1, DecisionsKeptBy DEF TypeOK
  <1>14. CASE Dispatch
    <2>1. CASE UNCHANGED <<log, issued>>
      BY <2>1, DecisionsUntouched
    <2>2. CASE Emit(Event("tool_call", head, "declared"),
                    Goto("decide") /\ UNCHANGED <<context, plans>>)
      <3>1. issued' = issued
            /\ (Record(Event("tool_call", head, "declared")) \/ Refuse)
        BY <2>2 DEF Emit, Abandon
      <3>2. "tool_call" \in EventTypes /\ "declared" \in Infos
        BY DEF EventTypes, Infos
      <3> QED BY <3>1, <3>2, DecisionsKeptBy DEF TypeOK
    <2> QED BY <1>14, <2>1, <2>2 DEF Dispatch
  <1>15. CASE RejectCall
    <2>1. /\ "policy_decision" \in EventTypes /\ head \in Nat
          /\ "deny" \in Infos
          /\ Record(Event("policy_decision", head, "deny")) \/ Refuse
          /\ issued' = issued
      BY <1>15, <1>0 DEF RejectCall, Emit, Abandon, EventTypes, Infos, TypeOK
    <2>2. head \in 1 .. issued
      BY <1>15, <1>0 DEF RejectCall, InCall
    <2> QED BY <2>1, <2>2, DecisionsKeptBy DEF TypeOK
  <1>16. CASE AllowCall
    <2>1. /\ "policy_decision" \in EventTypes /\ head \in Nat
          /\ "allow" \in Infos
          /\ Record(Event("policy_decision", head, "allow")) \/ Refuse
          /\ issued' = issued
      BY <1>16, <1>0 DEF AllowCall, Emit, Abandon, EventTypes, Infos, TypeOK
    <2>2. head \in 1 .. issued
      BY <1>16, <1>0 DEF AllowCall, InCall
    <2> QED BY <2>1, <2>2, DecisionsKeptBy DEF TypeOK
  <1>17. CASE AskApproval
    <2>1. /\ "approval_request" \in EventTypes /\ head \in Nat
          /\ "ask" \in Infos
          /\ Record(Event("approval_request", head, "ask")) \/ Refuse
          /\ issued' = issued
      BY <1>17 DEF AskApproval, Emit, Abandon, EventTypes, Infos, TypeOK
    <2> QED BY <2>1, DecisionsKeptBy DEF TypeOK
  <1>18. CASE AnswerApproval
    <2> PICK approved \in BOOLEAN : Approve(approved)
      BY <1>18 DEF AnswerApproval
    <2> DEFINE d == IF approved THEN "allow" ELSE "deny"
    <2>1. "policy_decision" \in EventTypes /\ d \in Infos
      BY DEF EventTypes, Infos
    <2>2. /\ issued' = issued
          /\ Record(Event("policy_decision", head, d)) \/ Refuse
      BY DEF Approve, Emit, Abandon
    <2>3. head \in 1 .. issued
      BY <1>0 DEF Approve, InCall
    <2> QED BY <2>1, <2>2, <2>3, DecisionsKeptBy DEF TypeOK
  <1>19. CASE Execute
    BY <1>19, DecisionsUntouched DEF Execute
  <1>20. CASE PublishResult
    <2>1. /\ "tool_result" \in EventTypes /\ head \in Nat
          /\ outcome.status \in Infos
          /\ Record(Event("tool_result", head, outcome.status)) \/ Refuse
          /\ issued' = issued
      BY <1>20 DEF PublishResult, Emit, Abandon, EventTypes, Infos, TypeOK
    <2> QED BY <2>1, DecisionsKeptBy DEF TypeOK
  <1>21. CASE Settle
    BY <1>21, DecisionsUntouched DEF Settle
  <1>22. CASE SkipCall
    <2>1. /\ "tool_call" \in EventTypes /\ head \in Nat /\ "declared" \in Infos
          /\ Record(Event("tool_call", head, "declared")) \/ Refuse
          /\ issued' = issued
      BY <1>22 DEF SkipCall, Emit, Abandon, EventTypes, Infos, TypeOK
    <2> QED BY <2>1, DecisionsKeptBy DEF TypeOK
  <1>23. CASE SkipPolicy
    <2>1. /\ "policy_decision" \in EventTypes /\ head \in Nat
          /\ "deny" \in Infos
          /\ Record(Event("policy_decision", head, "deny")) \/ Refuse
          /\ issued' = issued
      BY <1>23, <1>0 DEF SkipPolicy, Emit, Abandon, EventTypes, Infos, TypeOK
    <2>2. head \in 1 .. issued
      BY <1>23, <1>0 DEF SkipPolicy, InCall
    <2> QED BY <2>1, <2>2, DecisionsKeptBy DEF TypeOK
  <1>24. CASE SkipResult
    <2>1. /\ "tool_result" \in EventTypes /\ head \in Nat
          /\ SkipStatus(exit) \in Infos
          /\ Record(Event("tool_result", head, SkipStatus(exit))) \/ Refuse
          /\ issued' = issued
      BY <1>24, EndWords DEF SkipResult, Emit, Abandon, EventTypes, TypeOK
    <2> QED BY <2>1, DecisionsKeptBy DEF TypeOK
  <1>25. CASE SkipDone
    BY <1>25, DecisionsUntouched DEF SkipDone
  <1>26. CASE EmitError
    <2>1. /\ "error" \in EventTypes /\ 0 \in Nat /\ "FAILED" \in Infos
          /\ Record(Event("error", 0, "FAILED")) \/ Refuse
          /\ issued' = issued
      BY <1>26
         DEF EmitError, EmitBestEffort, EventTypes, Infos, RuntimeStates,
             TerminalStates
    <2> QED BY <2>1, DecisionsKeptBy DEF TypeOK
  <1>27. CASE EmitTurnEnd
    <2>1. /\ "turn_end" \in EventTypes /\ 0 \in Nat /\ EndState(exit) \in Infos
          /\ Record(Event("turn_end", 0, EndState(exit))) \/ Refuse
          /\ issued' = issued
      BY <1>27, EndWords DEF EmitTurnEnd, TurnOver, Abandon, EventTypes, TypeOK
    <2> QED BY <2>1, DecisionsKeptBy DEF TypeOK
  <1>28. CASE HandleRaisedLimit
    <2>1. /\ "turn_end" \in EventTypes /\ 0 \in Nat /\ EndState(exit) \in Infos
          /\ Record(Event("turn_end", 0, EndState(exit))) \/ Refuse
          /\ issued' = issued
      BY <1>28, EndWords DEF HandleRaisedLimit, TurnOver, EventTypes, TypeOK
    <2> QED BY <2>1, DecisionsKeptBy DEF TypeOK
  <1>29. CASE Close
    BY <1>29, DecisionsUntouched DEF Close
  <1>30. CASE EmitAgentEnd
    <2>1. /\ "agent_end" \in EventTypes /\ 0 \in Nat /\ state \in Infos
          /\ Record(Event("agent_end", 0, state)) \/ Refuse
          /\ issued' = issued
      BY <1>30 DEF EmitAgentEnd, EmitBestEffort, EventTypes, Infos, TypeOK
    <2> QED BY <2>1, DecisionsKeptBy DEF TypeOK
  <1>31. CASE EmitSessionEnd
    <2>1. /\ "session_end" \in EventTypes /\ 0 \in Nat /\ state \in Infos
          /\ Record(Event("session_end", 0, state)) \/ Refuse
          /\ issued' = issued
      BY <1>31 DEF EmitSessionEnd, EmitBestEffort, EventTypes, Infos, TypeOK
    <2> QED BY <2>1, DecisionsKeptBy DEF TypeOK
  <1>32. CASE CloseEnvironment
    BY <1>32, DecisionsUntouched DEF CloseEnvironment
  <1>33. CASE Cancel
    BY <1>33, DecisionsUntouched DEF Cancel
  <1>34. CASE Expire
    BY <1>34, DecisionsUntouched DEF Expire
  <1>35. CASE UNCHANGED vars
    BY <1>35, DecisionsUntouched DEF vars
  <1> QED
    BY <1>1, <1>2, <1>3, <1>4, <1>5, <1>6, <1>7, <1>8, <1>9, <1>10, <1>11,
       <1>12, <1>13, <1>14, <1>15, <1>16, <1>17, <1>18, <1>19, <1>20, <1>21,
       <1>22, <1>23, <1>24, <1>25, <1>26, <1>27, <1>28, <1>29, <1>30, <1>31,
       <1>32, <1>33, <1>34, <1>35 DEF Next, LoopStep, OwnStep
-----------------------------------------------------------------------------
(* The steps of the contract. *)

Allowed == {c \in 1 .. issued : Durable(Event("policy_decision", c, "allow"))}

ContractStep == Contract!Next \/ UNCHANGED Contract!contractVars

(* What is durable after an event has been appended. *)
LEMMA DurableGrows ==
  ASSUME TypeOK, NEW e \in Events, log' = Append(log, e), NEW f
  PROVE  Durable(f)' <=> (Durable(f) \/ f = e)
  BY AppendedLog DEF Durable, Before

(* Only an "allow" adds to the allowed calls. *)
LEMMA AllowedKept ==
  ASSUME TypeOK, DecisionsIssued,
         NEW t \in EventTypes, NEW c \in Nat, NEW i \in Infos,
         t # "policy_decision" \/ i # "allow",
         Record(Event(t, c, i)) \/ Refuse,
         issued' \in Nat, issued =< issued'
  PROVE  Allowed' = Allowed
  <1> DEFINE e == Event(t, c, i)
             D(k) == Event("policy_decision", k, "allow")
  <1>1. e \in Events
    BY EventType
  <1>2. \A k \in Nat : D(k) # e
    BY DEF Event
  <1>3. \A k \in Nat : Durable(D(k))' <=> Durable(D(k))
    <2>1. CASE log' = Append(log, e)
      BY <1>1, <1>2, <2>1, DurableGrows
    <2>2. CASE UNCHANGED log
      BY <2>2 DEF Durable, Before
    <2> QED BY <2>1, <2>2 DEF Record, Refuse
  <1>4. \A k \in Nat : Durable(D(k)) => k \in 1 .. issued
    BY DEF Durable, Before, DecisionsIssued, Event, TypeOK
  <1> QED BY <1>3, <1>4 DEF Allowed, TypeOK

LEMMA AllowedUntouched ==
  ASSUME UNCHANGED <<log, issued>>
  PROVE  Allowed' = Allowed
  BY DEF Allowed, Durable, Before

(* An "allow" for the head adds the head. *)
LEMMA AllowedHead ==
  ASSUME TypeOK, Record(Event("policy_decision", head, "allow")),
         issued' = issued, head \in 1 .. issued
  PROVE  Allowed' = Allowed \cup {head}
  <1> DEFINE D(k) == Event("policy_decision", k, "allow")
  <1>1. D(head) \in Events
    BY EventType DEF TypeOK, EventTypes, Infos
  <1>2. \A k \in Nat : D(k) = D(head) <=> k = head
    BY DEF Event
  <1>3. \A k \in Nat : Durable(D(k))' <=> (Durable(D(k)) \/ k = head)
    BY <1>1, <1>2, DurableGrows DEF Record
  <1> QED BY <1>3 DEF Allowed, TypeOK

(* Losing the log, or nothing, in the same phase. *)
LEMMA Silent ==
  ASSUME TypeOK, UNCHANGED <<issued, head, executed>>, Phase' = Phase,
         Allowed' = Allowed, storeFailed' \in {storeFailed, TRUE}
  PROVE  ContractStep
  <1>1. CASE storeFailed' = storeFailed
    BY <1>1 DEF ContractStep, Contract!contractVars, Allowed
  <1>2. CASE storeFailed' # storeFailed
    <2>1. Contract!LoseLog
      BY <1>2 DEF Contract!LoseLog, Allowed, TypeOK
    <2> QED BY <2>1 DEF ContractStep, Contract!Next
  <1> QED BY <1>1, <1>2

(* An event that decides, answers and declares nothing. *)
LEMMA SilentEvent ==
  ASSUME TypeOK, DecisionsIssued,
         NEW t \in EventTypes, NEW c \in Nat, NEW i \in Infos,
         t # "policy_decision" \/ i # "allow",
         Record(Event(t, c, i)) \/ Refuse,
         UNCHANGED <<issued, head, executed>>, Phase' = Phase
  PROVE  ContractStep
  <1>1. Allowed' = Allowed
    BY AllowedKept DEF TypeOK
  <1>2. storeFailed' \in {storeFailed, TRUE}
    BY DEF Record, Refuse
  <1> QED BY <1>1, <1>2, Silent

(* A step inside a turn. *)
LEMMA TurnGoesOn ==
  ASSUME PhaseInv, pc \in InTurn, UNCHANGED <<turnActive, sessionClosed>>
  PROVE  Phase = "turn" /\ Phase' = Phase
  BY DEF PhaseInv, Phase

(* The end of the session, after its turn or between two of them. *)
LEMMA EndStep ==
  ASSUME TypeOK, UNCHANGED <<issued, head, executed>>, Allowed' = Allowed,
         Phase \in {"ready", "turn"}, Phase' = "ended",
         ~Pending \/ storeFailed', storeFailed' \in {storeFailed, TRUE}
  PROVE  ContractStep
  <1>1. storeFailed' \/ ~(issued > head - 1)
    BY DEF Pending, TypeOK
  <1>2. Contract!EndSession
    BY <1>1, Zenon DEF Contract!EndSession, Contract!Owed, Allowed
  <1> QED BY <1>2 DEF ContractStep, Contract!Next

(* The steps about the call at the head. *)
LEMMA Refused ==
  ASSUME TypeOK, PhaseInv, pc \in InTurn, Refuse, Abandon,
         UNCHANGED <<turnActive, sessionClosed, executed>>
  PROVE  ContractStep
  <1>1. Allowed' = Allowed
    BY AllowedUntouched DEF Refuse, Abandon, plans
  <1> QED BY <1>1, TurnGoesOn, Silent DEF Refuse, Abandon, plans

LEMMA AllowStep ==
  ASSUME TypeOK, PhaseInv, pc \in InTurn, head \in 1 .. issued,
         Record(Event("policy_decision", head, "allow")),
         UNCHANGED <<issued, head, executed, turnActive, sessionClosed>>
  PROVE  ContractStep
  <1>1. Phase = "turn" /\ Phase' = Phase
    BY TurnGoesOn
  <1>2. Allowed' = Allowed \cup {head}
    BY AllowedHead
  <1>3. issued > head - 1 /\ head - 1 + 1 = head
    BY DEF TypeOK
  <1>4. ~storeFailed /\ storeFailed' = storeFailed
    BY DEF Record
  <1>5. Contract!Allow
    BY <1>1, <1>2, <1>3, <1>4 DEF Contract!Allow, Contract!Owed, Allowed
  <1> QED BY <1>5 DEF ContractStep, Contract!Next

LEMMA AnswerStep ==
  ASSUME TypeOK, PhaseInv, DecisionsIssued, pc \in InTurn,
         head \in 1 .. issued, NEW i \in Infos,
         Record(Event("tool_result", head, i)), head' = head + 1,
         UNCHANGED <<issued, executed, turnActive, sessionClosed>>
  PROVE  ContractStep
  <1>1. Phase = "turn" /\ Phase' = Phase
    BY TurnGoesOn
  <1>2. Allowed' = Allowed
    BY AllowedKept DEF EventTypes, TypeOK
  <1>3. issued > head - 1 /\ head' - 1 = head - 1 + 1
    BY DEF TypeOK
  <1>4. ~storeFailed /\ storeFailed' = storeFailed
    BY DEF Record
  <1>5. Contract!Answer
    BY <1>1, <1>2, <1>3, <1>4 DEF Contract!Answer, Contract!Owed, Allowed
  <1> QED BY <1>5 DEF ContractStep, Contract!Next

(* Every step of the loop is one of the contract, or silent. *)
LEMMA ContractNext ==
  ASSUME TypeOK, CallInv, PhaseInv, DecisionsIssued, [Next]_vars
  PROVE  ContractStep
  <1> USE DEF lifecycle, journal, plans
  <1>0. pc \in InCall => head \in 1 .. issued
    BY DEF PhaseInv, Pending, TypeOK
  <1>1. CASE RunTurn
    <2>1. Phase = "ready" /\ Phase' = "turn"
      BY <1>1 DEF RunTurn, Phase
    <2>2. /\ Allowed' = Allowed
          /\ UNCHANGED <<issued, head, executed, storeFailed>>
      BY <1>1, AllowedUntouched DEF RunTurn
    <2>3. Contract!BeginTurn
      BY <2>1, <2>2 DEF Contract!BeginTurn, Allowed
    <2> QED BY <2>3 DEF ContractStep, Contract!Next
  <1>2. CASE StartEnvironment
    <2>1. Phase' = Phase
      BY <1>2, TurnGoesOn DEF StartEnvironment, InTurn
    <2> QED
      BY <1>2, <2>1, AllowedUntouched, Silent DEF StartEnvironment
  <1>3. CASE EmitSessionStart
    <2>1. /\ "session_start" \in EventTypes /\ 0 \in Nat /\ "RUNNING" \in Infos
          /\ Record(Event("session_start", 0, "RUNNING")) \/ Refuse
          /\ UNCHANGED <<issued, head, executed>>
      BY <1>3
         DEF EmitSessionStart, Emit, Abandon, EventTypes, Infos, RuntimeStates
    <2>2. Phase' = Phase
      BY <1>3, TurnGoesOn DEF EmitSessionStart, InTurn
    <2> QED BY <2>1, <2>2, SilentEvent
  <1>4. CASE EmitAgentStart
    <2>1. /\ "agent_start" \in EventTypes /\ 0 \in Nat /\ "RUNNING" \in Infos
          /\ Record(Event("agent_start", 0, "RUNNING")) \/ Refuse
          /\ UNCHANGED <<issued, head, executed>>
      BY <1>4
         DEF EmitAgentStart, Emit, Abandon, EventTypes, Infos, RuntimeStates
    <2>2. Phase' = Phase
      BY <1>4, TurnGoesOn DEF EmitAgentStart, InTurn
    <2> QED BY <2>1, <2>2, SilentEvent
  <1>5. CASE EmitUserMessage
    <2>1. /\ "user_message" \in EventTypes /\ 0 \in Nat /\ "text" \in Infos
          /\ Record(Event("user_message", 0, "text")) \/ Refuse
          /\ UNCHANGED <<issued, head, executed>>
      BY <1>5 DEF EmitUserMessage, Emit, Abandon, EventTypes, Infos
    <2>2. Phase' = Phase
      BY <1>5, TurnGoesOn DEF EmitUserMessage, InTurn
    <2> QED BY <2>1, <2>2, SilentEvent
  <1>6. CASE BeginStep
    <2>1. Phase' = Phase
      BY <1>6, TurnGoesOn DEF BeginStep, InTurn
    <2> QED
      BY <1>6, <2>1, AllowedUntouched, Silent DEF BeginStep
  <1>7. CASE PrepareContext
    <2>1. Phase' = Phase
      BY <1>7, TurnGoesOn DEF PrepareContext, InTurn
    <2> QED
      BY <1>7, <2>1, AllowedUntouched, Silent DEF PrepareContext
  <1>8. CASE Compact
    <2> PICK status \in {"success", "failed"} :
          Emit(Event("compaction", 0, status),
               Goto("prepare") /\ UNCHANGED <<context, plans>>)
      BY <1>8 DEF Compact
    <2>1. "compaction" \in EventTypes /\ status \in Infos
      BY DEF EventTypes, Infos, ToolResultStatuses
    <2>2. /\ UNCHANGED <<issued, head, executed>>
          /\ Record(Event("compaction", 0, status)) \/ Refuse
      BY <1>8 DEF Compact, Emit, Abandon
    <2>3. Phase' = Phase
      BY <1>8, TurnGoesOn DEF Compact, InTurn
    <2> QED BY <2>1, <2>2, <2>3, SilentEvent
  <1>9. CASE Respond
    <2> PICK n \in 0 .. MaxCallsPerResponse,
             kind \in {"text", "empty", "tools"} :
          Emit(Event("assistant_message", issued + n, kind),
               /\ Goto("declared")
               /\ issued' = issued + n /\ UNCHANGED head
               /\ Remember("assistant", issued + n))
      BY <1>9, Zenon DEF Respond
    <2>1. CASE Refuse /\ Abandon
      BY <1>9, <2>1, Refused DEF Respond, InTurn
    <2>2. CASE /\ Record(Event("assistant_message", issued + n, kind))
               /\ issued' = issued + n /\ head' = head
      <3>1. /\ "assistant_message" \in EventTypes /\ kind \in Infos
            /\ issued + n \in Nat /\ issued =< issued + n
        BY LoopAssumption DEF LoopAssumption, EventTypes, Infos, TypeOK
      <3>2. Allowed' = Allowed
        BY <2>2, <3>1, AllowedKept
      <3>3. Phase = "turn" /\ Phase' = Phase
        BY <1>9, TurnGoesOn DEF Respond, InTurn
      <3>4. executed' = executed /\ storeFailed' = storeFailed /\ ~storeFailed
        BY <1>9, <2>2 DEF Respond, Record
      <3>5. ~(issued > head - 1)
        BY <1>9, <3>4 DEF Respond, CallInv, ControlPoints, Settled, Pending,
                          TypeOK
      <3>6. CASE n = 0
        BY <2>2, <3>2, <3>3, <3>4, <3>6, Silent DEF TypeOK
      <3>7. CASE n # 0
        <4>1. issued' \in Nat /\ issued' > issued
          BY <2>2, <3>1, <3>7 DEF TypeOK
        <4>2. Contract!Declare
          BY <2>2, <3>2, <3>3, <3>4, <3>5, <4>1
             DEF Contract!Declare, Contract!Owed, Allowed
        <4> QED BY <4>2 DEF ContractStep, Contract!Next
      <3> QED BY <3>6, <3>7
    <2> QED BY <2>1, <2>2 DEF Emit
  <1>10. CASE RetryOverflow
    <2>1. /\ "retry" \in EventTypes /\ 0 \in Nat
          /\ "context_overflow" \in Infos
          /\ Record(Event("retry", 0, "context_overflow")) \/ Refuse
          /\ UNCHANGED <<issued, head, executed>>
      BY <1>10 DEF RetryOverflow, Emit, Abandon, EventTypes, Infos
    <2>2. Phase' = Phase
      BY <1>10, TurnGoesOn DEF RetryOverflow, InTurn
    <2> QED BY <2>1, <2>2, SilentEvent
  <1>11. CASE ModelRaises
    <2>1. Phase' = Phase
      BY <1>11, TurnGoesOn DEF ModelRaises, InTurn
    <2> QED
      BY <1>11, <2>1, AllowedUntouched, Silent DEF ModelRaises
  <1>12. CASE AcceptResponse
    <2>1. Phase' = Phase
      BY <1>12, TurnGoesOn DEF AcceptResponse, InTurn
    <2> QED
      BY <1>12, <2>1, AllowedUntouched, Silent DEF AcceptResponse
  <1>13. CASE RecoverEmptyResponse
    <2>1. /\ "error" \in EventTypes /\ 0 \in Nat /\ "recoverable" \in Infos
          /\ Record(Event("error", 0, "recoverable")) \/ Refuse
          /\ UNCHANGED <<issued, head, executed>>
      BY <1>13 DEF RecoverEmptyResponse, Emit, Abandon, EventTypes, Infos
    <2>2. Phase' = Phase
      BY <1>13, TurnGoesOn DEF RecoverEmptyResponse, InTurn
    <2> QED BY <2>1, <2>2, SilentEvent
  <1>14. CASE Dispatch
    <2>1. Phase' = Phase /\ executed' = executed
      BY <1>14, TurnGoesOn DEF Dispatch, InTurn
    <2>2. CASE UNCHANGED <<journal, plans>>
      BY <2>1, <2>2, AllowedUntouched, Silent
    <2>3. CASE Emit(Event("tool_call", head, "declared"),
                    Goto("decide") /\ UNCHANGED <<context, plans>>)
      <3>1. /\ UNCHANGED <<issued, head>>
            /\ Record(Event("tool_call", head, "declared")) \/ Refuse
        BY <2>3 DEF Emit, Abandon
      <3>2. "tool_call" \in EventTypes /\ "declared" \in Infos
        BY DEF EventTypes, Infos
      <3> QED BY <2>1, <3>1, <3>2, SilentEvent DEF TypeOK
    <2> QED BY <1>14, <2>2, <2>3 DEF Dispatch
  <1>15. CASE RejectCall
    <2>1. /\ "policy_decision" \in EventTypes /\ head \in Nat
          /\ "deny" \in Infos
          /\ Record(Event("policy_decision", head, "deny")) \/ Refuse
          /\ UNCHANGED <<issued, head, executed>>
      BY <1>15 DEF RejectCall, Emit, Abandon, EventTypes, Infos, TypeOK
    <2>2. Phase' = Phase
      BY <1>15, TurnGoesOn DEF RejectCall, InTurn
    <2> QED BY <2>1, <2>2, SilentEvent
  <1>16. CASE AllowCall
    <2>1. CASE Record(Event("policy_decision", head, "allow"))
      BY <1>0, <1>16, <2>1, AllowStep
         DEF AllowCall, Emit, Record, Refuse, InCall, InTurn
    <2>2. CASE Refuse /\ Abandon
      BY <1>16, <2>2, Refused DEF AllowCall, InTurn
    <2> QED BY <1>16, <2>1, <2>2 DEF AllowCall, Emit
  <1>17. CASE AskApproval
    <2>1. /\ "approval_request" \in EventTypes /\ head \in Nat
          /\ "ask" \in Infos
          /\ Record(Event("approval_request", head, "ask")) \/ Refuse
          /\ UNCHANGED <<issued, head, executed>>
      BY <1>17 DEF AskApproval, Emit, Abandon, EventTypes, Infos, TypeOK
    <2>2. Phase' = Phase
      BY <1>17, TurnGoesOn DEF AskApproval, InTurn
    <2> QED BY <2>1, <2>2, SilentEvent
  <1>18. CASE AnswerApproval
    <2> PICK approved \in BOOLEAN : Approve(approved)
      BY <1>18 DEF AnswerApproval
    <2>1. CASE Refuse /\ Abandon
      BY <2>1, Refused DEF Approve, InTurn
    <2>2. CASE approved /\ Record(Event("policy_decision", head, "allow"))
      BY <1>0, <2>2, AllowStep
         DEF Approve, Emit, Record, Refuse, InCall, InTurn
    <2>3. CASE ~approved /\ Record(Event("policy_decision", head, "deny"))
      <3>1. /\ UNCHANGED <<issued, head, executed>>
            /\ "policy_decision" \in EventTypes /\ "deny" \in Infos
        BY <2>3 DEF Approve, Emit, Record, Refuse, Abandon, EventTypes, Infos
      <3>2. Phase' = Phase
        BY TurnGoesOn DEF Approve, InTurn
      <3> QED BY <2>3, <3>1, <3>2, SilentEvent DEF TypeOK
    <2> QED BY <2>1, <2>2, <2>3 DEF Approve, Emit
  <1>19. CASE Execute
    <2>1. head \in 1 .. issued /\ head \in Allowed /\ head \notin executed
      <3>1. Durable(Event("policy_decision", head, "allow"))
        BY <1>19 DEF Execute, CallInv, ControlPoints, Authorised, Durable,
                     Before, TypeOK
      <3> QED BY <1>0, <1>19, <3>1 DEF Execute, PhaseInv, InCall, Allowed
    <2>2. Phase = "turn" /\ Phase' = Phase
      BY <1>19, TurnGoesOn DEF Execute, InTurn
    <2>3. Allowed' = Allowed
      BY <1>19, AllowedUntouched DEF Execute
    <2>4. issued > head - 1 /\ head - 1 + 1 = head
      BY <2>1 DEF TypeOK
    <2>5. /\ executed' = executed \cup {head}
          /\ UNCHANGED <<issued, head, storeFailed>>
      BY <1>19 DEF Execute
    <2>6. Contract!Perform
      BY <2>1, <2>2, <2>3, <2>4, <2>5
         DEF Contract!Perform, Contract!Owed, Allowed
    <2> QED BY <2>6 DEF ContractStep, Contract!Next
  <1>20. CASE PublishResult
    <2>1. CASE Refuse /\ Abandon
      BY <1>20, <2>1, Refused DEF PublishResult, InTurn
    <2>2. CASE Record(Event("tool_result", head, outcome.status))
      <3>1. "tool_result" \in EventTypes /\ outcome.status \in Infos
        BY DEF EventTypes, Infos, TypeOK
      <3>2. head' = head + 1 /\ UNCHANGED <<issued, executed>>
        BY <1>20, <2>2 DEF PublishResult, Emit, Record, Refuse
      <3> QED
        BY <1>0, <1>20, <2>2, <3>1, <3>2, AnswerStep
           DEF PublishResult, InCall, InTurn
    <2> QED BY <1>20, <2>1, <2>2 DEF PublishResult, Emit
  <1>21. CASE Settle
    <2>1. Phase' = Phase
      BY <1>21, TurnGoesOn DEF Settle, InTurn
    <2> QED
      BY <1>21, <2>1, AllowedUntouched, Silent DEF Settle
  <1>22. CASE SkipCall
    <2>1. /\ "tool_call" \in EventTypes /\ head \in Nat /\ "declared" \in Infos
          /\ Record(Event("tool_call", head, "declared")) \/ Refuse
          /\ UNCHANGED <<issued, head, executed>>
      BY <1>22 DEF SkipCall, Emit, Abandon, EventTypes, Infos, TypeOK
    <2>2. Phase' = Phase
      BY <1>22, TurnGoesOn DEF SkipCall, InTurn
    <2> QED BY <2>1, <2>2, SilentEvent
  <1>23. CASE SkipPolicy
    <2>1. /\ "policy_decision" \in EventTypes /\ head \in Nat
          /\ "deny" \in Infos
          /\ Record(Event("policy_decision", head, "deny")) \/ Refuse
          /\ UNCHANGED <<issued, head, executed>>
      BY <1>23 DEF SkipPolicy, Emit, Abandon, EventTypes, Infos, TypeOK
    <2>2. Phase' = Phase
      BY <1>23, TurnGoesOn DEF SkipPolicy, InTurn
    <2> QED BY <2>1, <2>2, SilentEvent
  <1>24. CASE SkipResult
    <2>1. CASE Refuse /\ Abandon
      BY <1>24, <2>1, Refused DEF SkipResult, InTurn
    <2>2. CASE Record(Event("tool_result", head, SkipStatus(exit)))
      <3>1. "tool_result" \in EventTypes /\ SkipStatus(exit) \in Infos
        BY EndWords DEF EventTypes, TypeOK
      <3>2. head' = head + 1 /\ UNCHANGED <<issued, executed>>
        BY <1>24, <2>2 DEF SkipResult, Emit, Record, Refuse
      <3> QED
        BY <1>0, <1>24, <2>2, <3>1, <3>2, AnswerStep
           DEF SkipResult, InCall, InTurn
    <2> QED BY <1>24, <2>1, <2>2 DEF SkipResult, Emit
  <1>25. CASE SkipDone
    <2>1. Phase' = Phase
      BY <1>25, TurnGoesOn DEF SkipDone, InTurn
    <2> QED
      BY <1>25, <2>1, AllowedUntouched, Silent DEF SkipDone
  <1>26. CASE EmitError
    <2>1. /\ "error" \in EventTypes /\ 0 \in Nat /\ "FAILED" \in Infos
          /\ Record(Event("error", 0, "FAILED")) \/ Refuse
          /\ UNCHANGED <<issued, head, executed>>
      BY <1>26
         DEF EmitError, EmitBestEffort, EventTypes, Infos, RuntimeStates,
             TerminalStates
    <2>2. Phase' = Phase
      BY <1>26, TurnGoesOn DEF EmitError, InTurn
    <2> QED BY <2>1, <2>2, SilentEvent
  <1>27. CASE EmitTurnEnd
    <2>1. /\ "turn_end" \in EventTypes /\ EndState(exit) \in Infos
          /\ Record(Event("turn_end", 0, EndState(exit))) \/ Refuse
          /\ UNCHANGED <<issued, head, executed, sessionClosed>>
      BY <1>27, EndWords DEF EmitTurnEnd, TurnOver, Abandon, EventTypes,
                         TypeOK
    <2>2. Allowed' = Allowed /\ storeFailed' \in {storeFailed, TRUE}
      <3>1. Allowed' = Allowed
        BY <2>1, AllowedKept DEF TypeOK
      <3> QED BY <2>1, <3>1 DEF Record, Refuse
    <2>3. Phase = "turn" /\ ~sessionClosed /\ (~Pending \/ storeFailed')
      BY <1>27, <2>1 DEF EmitTurnEnd, PhaseInv, InTurn, Phase, CallInv,
                         ControlPoints, Settled, Record, Refuse
    <2>4. CASE turnActive' = turnActive
      <3>1. Phase' = Phase
        BY <1>27, <2>1, <2>4, TurnGoesOn DEF EmitTurnEnd, InTurn
      <3> QED BY <2>1, <2>2, <3>1, Silent
    <2>5. CASE TurnOver /\ exit = "completed"
      <3>1. Phase' = "ready"
        BY <2>1, <2>3, <2>5 DEF TurnOver, Goto, Phase
      <3>2. ~storeFailed /\ storeFailed' = storeFailed
        BY <1>27, <2>5 DEF EmitTurnEnd, TurnOver, Record, Abandon, Goto,
                           Leave, PhaseInv, InTurn
      <3>3. ~(issued > head - 1)
        BY <2>3, <3>2 DEF Pending, TypeOK
      <3>4. Contract!CompleteTurn
        BY <2>1, <2>2, <2>3, <3>1, <3>2, <3>3
           DEF Contract!CompleteTurn, Contract!Owed, Allowed
      <3> QED BY <3>4 DEF ContractStep, Contract!Next
    <2>6. CASE TurnOver /\ exit # "completed"
      <3>1. Phase' = "ended"
        BY <2>1, <2>3, <2>6 DEF TurnOver, Goto, Phase
      <3> QED BY <2>1, <2>2, <2>3, <3>1, EndStep
    <2> QED BY <1>27, <2>4, <2>5, <2>6 DEF EmitTurnEnd
  <1>28. CASE HandleRaisedLimit
    <2>1. /\ "turn_end" \in EventTypes /\ EndState(exit) \in Infos
          /\ Record(Event("turn_end", 0, EndState(exit))) \/ Refuse
          /\ UNCHANGED <<issued, head, executed, sessionClosed>>
      BY <1>28, EndWords DEF HandleRaisedLimit, TurnOver, EventTypes,
                         TypeOK
    <2>2. Allowed' = Allowed /\ storeFailed' \in {storeFailed, TRUE}
      <3>1. Allowed' = Allowed
        BY <2>1, AllowedKept DEF TypeOK
      <3> QED BY <2>1, <3>1 DEF Record, Refuse
    <2>3. Phase = "turn" /\ ~sessionClosed /\ (~Pending \/ storeFailed')
      BY <1>28, <2>1 DEF HandleRaisedLimit, PhaseInv, InTurn, Phase, CallInv,
                         ControlPoints, Settled, Record, Refuse
    <2>4. CASE turnActive' = turnActive
      <3>1. Phase' = Phase
        BY <1>28, <2>1, <2>4, TurnGoesOn DEF HandleRaisedLimit, InTurn
      <3> QED BY <2>1, <2>2, <3>1, Silent
    <2>5. CASE TurnOver /\ exit = "completed"
      <3>1. Phase' = "ready"
        BY <2>1, <2>3, <2>5 DEF TurnOver, Goto, Phase
      <3>2. ~storeFailed /\ storeFailed' = storeFailed
        BY <1>28, <2>5 DEF HandleRaisedLimit, TurnOver, Record, Abandon, Goto,
                           Leave, PhaseInv, InTurn
      <3>3. ~(issued > head - 1)
        BY <2>3, <3>2 DEF Pending, TypeOK
      <3>4. Contract!CompleteTurn
        BY <2>1, <2>2, <2>3, <3>1, <3>2, <3>3
           DEF Contract!CompleteTurn, Contract!Owed, Allowed
      <3> QED BY <3>4 DEF ContractStep, Contract!Next
    <2>6. CASE TurnOver /\ exit # "completed"
      <3>1. Phase' = "ended"
        BY <2>1, <2>3, <2>6 DEF TurnOver, Goto, Phase
      <3> QED BY <2>1, <2>2, <2>3, <3>1, EndStep
    <2> QED BY <1>28, <2>4, <2>5, <2>6 DEF HandleRaisedLimit
  <1>29. CASE Close
    <2>1. /\ Allowed' = Allowed
          /\ UNCHANGED <<issued, head, executed, storeFailed>>
      BY <1>29, AllowedUntouched DEF Close
    <2>2. CASE turnActive
      <3>1. Phase' = Phase
        BY <1>29, <2>2 DEF Close, Phase
      <3> QED BY <2>1, <3>1, Silent
    <2>3. CASE ~turnActive
      <3>1. Phase = "ready" /\ Phase' = "ended"
        BY <1>29, <2>3 DEF Close, Goto, Phase
      <3>2. ~Pending \/ storeFailed'
        BY <1>29, <2>1 DEF Close, CallInv, ControlPoints, Settled
      <3> QED BY <2>1, <3>1, <3>2, EndStep
    <2> QED BY <2>2, <2>3
  <1>30. CASE EmitAgentEnd
    <2>1. /\ "agent_end" \in EventTypes /\ 0 \in Nat /\ state \in Infos
          /\ Record(Event("agent_end", 0, state)) \/ Refuse
          /\ UNCHANGED <<issued, head, executed>>
      BY <1>30 DEF EmitAgentEnd, EmitBestEffort, EventTypes, Infos, TypeOK
    <2>2. Phase' = Phase
      BY <1>30 DEF EmitAgentEnd, Goto, Phase
    <2> QED BY <2>1, <2>2, SilentEvent
  <1>31. CASE EmitSessionEnd
    <2>1. /\ "session_end" \in EventTypes /\ 0 \in Nat /\ state \in Infos
          /\ Record(Event("session_end", 0, state)) \/ Refuse
          /\ UNCHANGED <<issued, head, executed>>
      BY <1>31 DEF EmitSessionEnd, EmitBestEffort, EventTypes, Infos, TypeOK
    <2>2. Phase' = Phase
      BY <1>31 DEF EmitSessionEnd, Goto, Phase
    <2> QED BY <2>1, <2>2, SilentEvent
  <1>32. CASE CloseEnvironment
    <2>1. /\ Allowed' = Allowed
          /\ UNCHANGED <<issued, head, executed, storeFailed>>
      BY <1>32, AllowedUntouched DEF CloseEnvironment
    <2>2. Phase' = "ended"
      BY <1>32 DEF CloseEnvironment, Phase
    <2>3. ~sessionClosed /\ (turnActive => storeFailed)
      BY <1>32 DEF CloseEnvironment, PhaseInv, InTurn
    <2>4. CASE turnActive
      <3>1. Phase = "turn"
        BY <2>3, <2>4 DEF Phase
      <3> QED BY <2>1, <2>2, <2>3, <2>4, <3>1, EndStep
    <2>5. CASE ~turnActive
      <3>1. Phase = "ended"
        BY <1>32, <2>3, <2>5 DEF CloseEnvironment, Phase
      <3> QED BY <2>1, <2>2, <3>1, Silent
    <2> QED BY <2>4, <2>5
  <1>33. CASE Cancel
    <2>1. Phase' = Phase
      BY <1>33 DEF Cancel, Phase
    <2> QED
      BY <1>33, <2>1, AllowedUntouched, Silent DEF Cancel
  <1>34. CASE Expire
    <2>1. Phase' = Phase
      BY <1>34 DEF Expire, Phase
    <2> QED
      BY <1>34, <2>1, AllowedUntouched, Silent DEF Expire
  <1>35. CASE UNCHANGED vars
    <2>1. Phase' = Phase /\ Allowed' = Allowed
      BY <1>35, AllowedUntouched DEF vars, Phase
    <2> QED BY <1>35, <2>1, Silent DEF vars
  <1> QED
    BY <1>1, <1>2, <1>3, <1>4, <1>5, <1>6, <1>7, <1>8, <1>9, <1>10, <1>11,
       <1>12, <1>13, <1>14, <1>15, <1>16, <1>17, <1>18, <1>19, <1>20, <1>21,
       <1>22, <1>23, <1>24, <1>25, <1>26, <1>27, <1>28, <1>29, <1>30, <1>31,
       <1>32, <1>33, <1>34, <1>35 DEF Next, LoopStep, OwnStep

(* Whatever the budgets, the store, the model, the tools and the threads   *)
(* that cancel do, run_turn and close keep the promises of a session that  *)
(* SessionContract states.                                                 *)
THEOREM ContractKept == Spec => ImplementsContract
  <1>1. Init => LoopInv
    BY InitType, CallInit, PhaseInit DEF LoopInv
  <1>2. LoopInv /\ [Next]_vars => LoopInv'
    BY NextType, CallNext, PhaseNext, DecisionsNext DEF LoopInv
  <1>3. Init => Contract!Init
    BY DEF Init, Contract!Init, Phase, Durable, Before
  <1>4. LoopInv /\ [Next]_vars => [Contract!Next]_(Contract!contractVars)
    BY ContractNext DEF LoopInv, ContractStep
  <1> QED
    BY <1>1, <1>2, <1>3, <1>4, PTL DEF Spec, ImplementsContract, Contract!Spec

-----------------------------------------------------------------------------
(***************************************************************************)
(* The log and the context move together: a step either publishes nothing, *)
(* or records one event and appends the message that event is projected    *)
(* to, if there is one.                                                    *)
(***************************************************************************)
Projected(e) ==
  IF RoleOf(e) = "none" THEN context
  ELSE Append(context, Message(RoleOf(e), e.call, Len(log) + 1))

Tells ==
  \/ UNCHANGED <<log, context>>
  \/ \E e \in Events :
       /\ log' = Append(log, e) /\ context' = Projected(e)
       /\ e.type = "assistant_message" => pc = "request" /\ pc' = "declared"

(* The role of each event the loop publishes. *)
LEMMA Projection ==
  ASSUME NEW c, NEW i
  PROVE  /\ RoleOf(Event("user_message", c, i)) = "user"
         /\ RoleOf(Event("assistant_message", c, i)) = "assistant"
         /\ RoleOf(Event("tool_result", c, i)) = "tool"
         /\ RoleOf(Event("error", c, "recoverable")) = "system"
         /\ i # "recoverable" => RoleOf(Event("error", c, i)) = "none"
         /\ \A t \in EventTypes \ {"user_message", "assistant_message",
                                   "tool_result", "error"} :
              RoleOf(Event(t, c, i)) = "none"
  BY DEF RoleOf, Event

(* A published event that is not part of the conversation. *)
LEMMA TellsAside ==
  ASSUME NEW t \in EventTypes, NEW c \in Nat, NEW i \in Infos,
         t \notin {"user_message", "assistant_message", "tool_result"},
         t = "error" => i # "recoverable",
         Record(Event(t, c, i)) \/ Refuse, UNCHANGED context
  PROVE  Tells
  <1>1. /\ Event(t, c, i) \in Events
        /\ Event(t, c, i).type # "assistant_message"
    BY EventType DEF Event
  <1>2. RoleOf(Event(t, c, i)) = "none"
    <2>1. CASE t = "error"
      BY <2>1, Projection
    <2>2. CASE t # "error"
      BY <2>2, Projection
    <2> QED BY <2>1, <2>2
  <1> QED BY <1>1, <1>2 DEF Tells, Projected, Record, Refuse

(* A message and the event that carries it, unless the store refuses it. *)
LEMMA TellsMessage ==
  ASSUME NEW t \in {"user_message", "assistant_message", "tool_result",
                    "error"},
         NEW c \in Nat, NEW i \in Infos, NEW role,
         role = RoleOf(Event(t, c, i)), role # "none",
         t = "assistant_message" => pc = "request" /\ pc' = "declared",
         Record(Event(t, c, i)), Remember(role, c)
  PROVE  Tells
  <1>1. /\ Event(t, c, i) \in Events
        /\ Event(t, c, i).type = t /\ Event(t, c, i).call = c
    BY EventType DEF Event, EventTypes
  <1> QED BY <1>1 DEF Tells, Projected, Record, Remember

LEMMA TellsNothing ==
  ASSUME Refuse, Abandon
  PROVE  Tells
  BY DEF Tells, Refuse, Abandon

LEMMA LogStep == TypeOK /\ [Next]_vars => Tells
  <1> SUFFICES ASSUME TypeOK, [Next]_vars PROVE Tells
    OBVIOUS
  <1> USE DEF journal, plans
  <1>1. CASE RunTurn
    BY <1>1 DEF RunTurn, Tells
  <1>2. CASE StartEnvironment
    BY <1>2 DEF StartEnvironment, Tells
  <1>3. CASE EmitSessionStart
    <2>1. /\ "session_start" \in EventTypes /\ 0 \in Nat
          /\ "RUNNING" \in Infos /\ UNCHANGED context
      BY <1>3
         DEF EmitSessionStart, Emit, Abandon, EventTypes, Infos, TypeOK,
             RuntimeStates
    <2>2. Record(Event("session_start", 0, "RUNNING")) \/ Refuse
      BY <1>3 DEF EmitSessionStart, Emit
    <2> QED BY <2>1, <2>2, TellsAside
  <1>4. CASE EmitAgentStart
    <2>1. /\ "agent_start" \in EventTypes /\ 0 \in Nat
          /\ "RUNNING" \in Infos /\ UNCHANGED context
      BY <1>4
         DEF EmitAgentStart, Emit, Abandon, EventTypes, Infos, TypeOK,
             RuntimeStates
    <2>2. Record(Event("agent_start", 0, "RUNNING")) \/ Refuse
      BY <1>4 DEF EmitAgentStart, Emit
    <2> QED BY <2>1, <2>2, TellsAside
  <1>5. CASE EmitUserMessage
    <2>1. CASE Refuse /\ Abandon
      BY <2>1, TellsNothing
    <2>2. CASE ~(Refuse /\ Abandon)
      <3>1. /\ Record(Event("user_message", 0, "text"))
            /\ Remember("user", 0)
        BY <1>5, <2>2 DEF EmitUserMessage, Emit
      <3>2. 0 \in Nat /\ "text" \in Infos
        BY DEF Infos, TypeOK
      <3> QED BY <3>1, <3>2, Projection, TellsMessage
    <2> QED BY <2>1, <2>2
  <1>6. CASE BeginStep
    BY <1>6 DEF BeginStep, Tells
  <1>7. CASE PrepareContext
    BY <1>7 DEF PrepareContext, Tells
  <1>8. CASE Compact
    <2> PICK status \in {"success", "failed"} :
          Emit(Event("compaction", 0, status),
               Goto("prepare") /\ UNCHANGED <<context, plans>>)
      BY <1>8 DEF Compact
    <2>1. "compaction" \in EventTypes /\ status \in Infos
      BY DEF EventTypes, Infos, ToolResultStatuses
    <2>2. /\ UNCHANGED context
          /\ Record(Event("compaction", 0, status)) \/ Refuse
      BY DEF Emit, Abandon
    <2> QED BY <2>1, <2>2, TellsAside
  <1>9. CASE Respond
    <2> PICK n \in 0 .. MaxCallsPerResponse,
             kind \in {"text", "empty", "tools"} :
          Emit(Event("assistant_message", issued + n, kind),
               /\ Goto("declared")
               /\ issued' = issued + n /\ UNCHANGED head
               /\ Remember("assistant", issued + n))
      BY <1>9, Zenon DEF Respond
    <2>1. CASE Refuse /\ Abandon
      BY <2>1, TellsNothing
    <2>2. CASE ~(Refuse /\ Abandon)
      <3>1. /\ Record(Event("assistant_message", issued + n, kind))
            /\ pc = "request" /\ pc' = "declared"
            /\ Remember("assistant", issued + n)
        BY <1>9, <2>2 DEF Respond, Emit, Goto
      <3>2. issued + n \in Nat /\ kind \in Infos
        BY LoopAssumption DEF LoopAssumption, TypeOK, Infos
      <3> QED BY <3>1, <3>2, Projection, TellsMessage
    <2> QED BY <2>1, <2>2
  <1>10. CASE RetryOverflow
    <2>1. /\ "retry" \in EventTypes /\ 0 \in Nat
          /\ "context_overflow" \in Infos /\ UNCHANGED context
      BY <1>10 DEF RetryOverflow, Emit, Abandon, EventTypes, Infos, TypeOK
    <2>2. Record(Event("retry", 0, "context_overflow")) \/ Refuse
      BY <1>10 DEF RetryOverflow, Emit
    <2> QED BY <2>1, <2>2, TellsAside
  <1>11. CASE ModelRaises
    BY <1>11 DEF ModelRaises, Tells
  <1>12. CASE AcceptResponse
    BY <1>12 DEF AcceptResponse, Tells
  <1>13. CASE RecoverEmptyResponse
    <2>1. CASE Refuse /\ Abandon
      BY <2>1, TellsNothing
    <2>2. CASE ~(Refuse /\ Abandon)
      <3>1. /\ Record(Event("error", 0, "recoverable"))
            /\ Remember("system", 0)
        BY <1>13, <2>2 DEF RecoverEmptyResponse, Emit
      <3>2. 0 \in Nat /\ "recoverable" \in Infos
        BY DEF Infos, TypeOK
      <3> QED BY <3>1, <3>2, Projection, TellsMessage
    <2> QED BY <2>1, <2>2
  <1>14. CASE Dispatch
    <2>1. CASE UNCHANGED <<log, context>>
      BY <2>1 DEF Tells
    <2>2. CASE Emit(Event("tool_call", head, "declared"),
                    Goto("decide") /\ UNCHANGED <<context, plans>>)
      <3>1. /\ "tool_call" \in EventTypes /\ head \in Nat
            /\ "declared" \in Infos /\ UNCHANGED context
            /\ Record(Event("tool_call", head, "declared")) \/ Refuse
        BY <2>2 DEF Emit, Abandon, EventTypes, Infos, TypeOK
      <3> QED BY <3>1, TellsAside
    <2> QED BY <1>14, <2>1, <2>2 DEF Dispatch
  <1>15. CASE RejectCall
    <2>1. /\ "policy_decision" \in EventTypes /\ head \in Nat
          /\ "deny" \in Infos /\ UNCHANGED context
      BY <1>15 DEF RejectCall, Emit, Abandon, EventTypes, Infos, TypeOK
    <2>2. Record(Event("policy_decision", head, "deny")) \/ Refuse
      BY <1>15 DEF RejectCall, Emit
    <2> QED BY <2>1, <2>2, TellsAside
  <1>16. CASE AllowCall
    <2>1. /\ "policy_decision" \in EventTypes /\ head \in Nat
          /\ "allow" \in Infos /\ UNCHANGED context
      BY <1>16 DEF AllowCall, Emit, Abandon, EventTypes, Infos, TypeOK
    <2>2. Record(Event("policy_decision", head, "allow")) \/ Refuse
      BY <1>16 DEF AllowCall, Emit
    <2> QED BY <2>1, <2>2, TellsAside
  <1>17. CASE AskApproval
    <2>1. /\ "approval_request" \in EventTypes /\ head \in Nat
          /\ "ask" \in Infos /\ UNCHANGED context
      BY <1>17 DEF AskApproval, Emit, Abandon, EventTypes, Infos, TypeOK
    <2>2. Record(Event("approval_request", head, "ask")) \/ Refuse
      BY <1>17 DEF AskApproval, Emit
    <2> QED BY <2>1, <2>2, TellsAside
  <1>18. CASE AnswerApproval
    <2> PICK approved \in BOOLEAN : Approve(approved)
      BY <1>18 DEF AnswerApproval
    <2> DEFINE d == IF approved THEN "allow" ELSE "deny"
    <2>1. /\ "policy_decision" \in EventTypes /\ head \in Nat /\ d \in Infos
          /\ UNCHANGED context
      BY DEF EventTypes, Infos, Approve, Emit, Abandon, TypeOK
    <2>2. Record(Event("policy_decision", head, d)) \/ Refuse
      BY DEF Approve, Emit
    <2> QED BY <2>1, <2>2, TellsAside
  <1>19. CASE Execute
    BY <1>19 DEF Execute, Tells
  <1>20. CASE PublishResult
    <2>1. CASE Refuse /\ Abandon
      BY <2>1, TellsNothing
    <2>2. CASE ~(Refuse /\ Abandon)
      <3>1. /\ Record(Event("tool_result", head, outcome.status))
            /\ Remember("tool", head)
        BY <1>20, <2>2 DEF PublishResult, Emit
      <3>2. head \in Nat /\ outcome.status \in Infos
        BY DEF Infos, TypeOK
      <3> QED BY <3>1, <3>2, Projection, TellsMessage
    <2> QED BY <2>1, <2>2
  <1>21. CASE Settle
    BY <1>21 DEF Settle, Tells
  <1>22. CASE SkipCall
    <2>1. /\ "tool_call" \in EventTypes /\ head \in Nat
          /\ "declared" \in Infos /\ UNCHANGED context
      BY <1>22 DEF SkipCall, Emit, Abandon, EventTypes, Infos, TypeOK
    <2>2. Record(Event("tool_call", head, "declared")) \/ Refuse
      BY <1>22 DEF SkipCall, Emit
    <2> QED BY <2>1, <2>2, TellsAside
  <1>23. CASE SkipPolicy
    <2>1. /\ "policy_decision" \in EventTypes /\ head \in Nat
          /\ "deny" \in Infos /\ UNCHANGED context
      BY <1>23 DEF SkipPolicy, Emit, Abandon, EventTypes, Infos, TypeOK
    <2>2. Record(Event("policy_decision", head, "deny")) \/ Refuse
      BY <1>23 DEF SkipPolicy, Emit
    <2> QED BY <2>1, <2>2, TellsAside
  <1>24. CASE SkipResult
    <2>1. CASE Refuse /\ Abandon
      BY <2>1, TellsNothing
    <2>2. CASE ~(Refuse /\ Abandon)
      <3>1. /\ Record(Event("tool_result", head, SkipStatus(exit)))
            /\ Remember("tool", head)
        BY <1>24, <2>2 DEF SkipResult, Emit
      <3>2. head \in Nat /\ SkipStatus(exit) \in Infos
        BY EndWords DEF Infos, TypeOK
      <3> QED BY <3>1, <3>2, Projection, TellsMessage
    <2> QED BY <2>1, <2>2
  <1>25. CASE SkipDone
    BY <1>25 DEF SkipDone, Tells
  <1>26. CASE EmitError
    <2>1. /\ "error" \in EventTypes /\ 0 \in Nat
          /\ "FAILED" \in Infos /\ UNCHANGED context
      BY <1>26
         DEF EmitError, EmitBestEffort, EventTypes, Infos, TypeOK,
             RuntimeStates, TerminalStates
    <2>2. Record(Event("error", 0, "FAILED")) \/ Refuse
      BY <1>26 DEF EmitError, EmitBestEffort
    <2> QED BY <2>1, <2>2, TellsAside
  <1>27. CASE EmitTurnEnd
    <2>1. /\ "turn_end" \in EventTypes /\ 0 \in Nat
          /\ EndState(exit) \in Infos /\ UNCHANGED context
      BY <1>27, EndWords
         DEF EmitTurnEnd, TurnOver, Abandon, EventTypes, Infos, TypeOK
    <2>2. Record(Event("turn_end", 0, EndState(exit))) \/ Refuse
      BY <1>27 DEF EmitTurnEnd
    <2> QED BY <2>1, <2>2, TellsAside
  <1>28. CASE HandleRaisedLimit
    <2>1. /\ "turn_end" \in EventTypes /\ 0 \in Nat
          /\ EndState(exit) \in Infos /\ UNCHANGED context
      BY <1>28, EndWords
         DEF HandleRaisedLimit, TurnOver, Abandon, EventTypes, Infos, TypeOK
    <2>2. Record(Event("turn_end", 0, EndState(exit))) \/ Refuse
      BY <1>28 DEF HandleRaisedLimit
    <2> QED BY <2>1, <2>2, TellsAside
  <1>29. CASE Close
    BY <1>29 DEF Close, Tells
  <1>30. CASE EmitAgentEnd
    <2>1. /\ "agent_end" \in EventTypes /\ 0 \in Nat
          /\ state \in Infos /\ UNCHANGED context
      BY <1>30 DEF EmitAgentEnd, EmitBestEffort, EventTypes, Infos, TypeOK
    <2>2. Record(Event("agent_end", 0, state)) \/ Refuse
      BY <1>30 DEF EmitAgentEnd, EmitBestEffort
    <2> QED BY <2>1, <2>2, TellsAside
  <1>31. CASE EmitSessionEnd
    <2>1. /\ "session_end" \in EventTypes /\ 0 \in Nat
          /\ state \in Infos /\ UNCHANGED context
      BY <1>31 DEF EmitSessionEnd, EmitBestEffort, EventTypes, Infos, TypeOK
    <2>2. Record(Event("session_end", 0, state)) \/ Refuse
      BY <1>31 DEF EmitSessionEnd, EmitBestEffort
    <2> QED BY <2>1, <2>2, TellsAside
  <1>32. CASE CloseEnvironment
    BY <1>32 DEF CloseEnvironment, Tells
  <1>33. CASE Cancel
    BY <1>33 DEF Cancel, Tells
  <1>34. CASE Expire
    BY <1>34 DEF Expire, Tells
  <1>35. CASE UNCHANGED vars
    BY <1>35 DEF vars, Tells
  <1> QED
    BY <1>1, <1>2, <1>3, <1>4, <1>5, <1>6, <1>7, <1>8, <1>9, <1>10, <1>11,
       <1>12, <1>13, <1>14, <1>15, <1>16, <1>17, <1>18, <1>19, <1>20, <1>21,
       <1>22, <1>23, <1>24, <1>25, <1>26, <1>27, <1>28, <1>29, <1>30, <1>31,
       <1>32, <1>33, <1>34, <1>35 DEF Next, LoopStep, OwnStep

-----------------------------------------------------------------------------
(***************************************************************************)
(* When calls are owed: each declared call has its result in the context   *)
(* before the model is asked again.                                        *)
(***************************************************************************)

(* Where no call is owed: a turn begins, asks and ends with all answered. *)
Resting ==
  {"start", "session_start", "agent_start", "user", "top", "prepare",
   "request", "limit_handler"}

(***************************************************************************)
(* Between the requests of a turn all declared calls are answered, and a   *)
(* turn that completes leaves none behind.                                 *)
(***************************************************************************)
SettledInv ==
  /\ pc \in Resting => ~Pending
  /\ pc = "idle" /\ ~sessionClosed => ~Pending
  /\ pc = "declared" /\ reply # "tools" => ~Pending
  /\ pc = "turn_end" /\ exit = "completed" => ~Pending
  /\ pc = "error" => exit # "completed"

(* No call is owed at first. *)
LEMMA SettledInit == Init => SettledInv
  BY DEF Init, SettledInv, Resting, Pending

(* A step leaves calls unanswered only where the loop goes on to them. *)
LEMMA SettledNext ==
  ASSUME TypeOK, SettledInv, [Next]_vars
  PROVE  SettledInv'
  <1> USE LoopAssumption
      DEF TypeOK, SettledInv, Resting, Pending, Goto, Leave, lifecycle,
          journal, plans, request, LoopAssumption
  <1>1. CASE RunTurn
    BY <1>1 DEF RunTurn
  <1>2. CASE StartEnvironment
    BY <1>2 DEF StartEnvironment
  <1>3. CASE EmitSessionStart
    BY <1>3 DEF EmitSessionStart, Emit, Record, Refuse, Abandon
  <1>4. CASE EmitAgentStart
    BY <1>4 DEF EmitAgentStart, Emit, Record, Refuse, Abandon
  <1>5. CASE EmitUserMessage
    BY <1>5 DEF EmitUserMessage, Emit, Record, Refuse, Abandon
  <1>6. CASE BeginStep
    BY <1>6 DEF BeginStep
  <1>7. CASE PrepareContext
    BY <1>7 DEF PrepareContext
  <1>8. CASE Compact
    BY <1>8 DEF Compact, Emit, Record, Refuse, Abandon
  <1>9. CASE Respond
    BY <1>9 DEF Respond, Emit, Record, Refuse, Abandon
  <1>10. CASE RetryOverflow
    BY <1>10 DEF RetryOverflow, Emit, Record, Refuse, Abandon
  <1>11. CASE ModelRaises
    BY <1>11 DEF ModelRaises
  <1>12. CASE AcceptResponse
    BY <1>12 DEF AcceptResponse
  <1>13. CASE RecoverEmptyResponse
    BY <1>13 DEF RecoverEmptyResponse, Emit, Record, Refuse, Abandon
  <1>14. CASE Dispatch
    BY <1>14 DEF Dispatch, Emit, Record, Refuse, Abandon
  <1>15. CASE RejectCall
    BY <1>15 DEF RejectCall, Emit, Record, Refuse, Abandon
  <1>16. CASE AllowCall
    BY <1>16 DEF AllowCall, Emit, Record, Refuse, Abandon
  <1>17. CASE AskApproval
    BY <1>17 DEF AskApproval, Emit, Record, Refuse, Abandon
  <1>18. CASE AnswerApproval
    BY <1>18 DEF AnswerApproval, Approve, Emit, Record, Refuse, Abandon
  <1>19. CASE Execute
    BY <1>19 DEF Execute
  <1>20. CASE PublishResult
    BY <1>20 DEF PublishResult, Emit, Record, Refuse, Abandon
  <1>21. CASE Settle
    BY <1>21 DEF Settle
  <1>22. CASE SkipCall
    BY <1>22 DEF SkipCall, Emit, Record, Refuse, Abandon
  <1>23. CASE SkipPolicy
    BY <1>23 DEF SkipPolicy, Emit, Record, Refuse, Abandon
  <1>24. CASE SkipResult
    BY <1>24 DEF SkipResult, Emit, Record, Refuse, Abandon
  <1>25. CASE SkipDone
    BY <1>25 DEF SkipDone
  <1>26. CASE EmitError
    BY <1>26 DEF EmitError, EmitBestEffort, Record, Refuse
  <1>27. CASE EmitTurnEnd
    BY <1>27 DEF EmitTurnEnd, TurnOver, Record, Refuse, Abandon
  <1>28. CASE HandleRaisedLimit
    BY <1>28 DEF HandleRaisedLimit, TurnOver, Record, Refuse
  <1>29. CASE Close
    BY <1>29 DEF Close
  <1>30. CASE EmitAgentEnd
    BY <1>30 DEF EmitAgentEnd, EmitBestEffort, Record, Refuse
  <1>31. CASE EmitSessionEnd
    BY <1>31 DEF EmitSessionEnd, EmitBestEffort, Record, Refuse
  <1>32. CASE CloseEnvironment
    BY <1>32 DEF CloseEnvironment
  <1>33. CASE Cancel
    BY <1>33 DEF Cancel
  <1>34. CASE Expire
    BY <1>34 DEF Expire
  <1>35. CASE UNCHANGED vars
    BY <1>35 DEF vars
  <1> QED
    BY <1>1, <1>2, <1>3, <1>4, <1>5, <1>6, <1>7, <1>8, <1>9, <1>10, <1>11,
       <1>12, <1>13, <1>14, <1>15, <1>16, <1>17, <1>18, <1>19, <1>20, <1>21,
       <1>22, <1>23, <1>24, <1>25, <1>26, <1>27, <1>28, <1>29, <1>30, <1>31,
       <1>32, <1>33, <1>34, <1>35 DEF Next, LoopStep, OwnStep

(* What a step says: which message it adds, and which calls it moves. *)
Says(role, call) ==
  context' = Append(context, Message(role, call, Len(log) + 1))

(* The message a step adds to the context, and what it does to the plans. *)
Speaks ==
  \/ UNCHANGED <<context, issued, head>>
  \/ Says("user", 0) /\ pc = "user" /\ UNCHANGED <<issued, head>>
  \/ Says("system", 0) /\ ~Pending /\ UNCHANGED <<issued, head>>
  \/ /\ Says("assistant", issued') /\ ~Pending
     /\ issued' \in Nat /\ issued =< issued' /\ head' = head
  \/ Says("tool", head) /\ Pending /\ head' = head + 1 /\ issued' = issued

(* A session has started once its agent_start is recorded. *)
Opening ==
  pc' = "user" \/ sessionStarted' =>
    \/ pc = "user" \/ sessionStarted
    \/ log' = Append(log, Event("agent_start", 0, "RUNNING"))

(***************************************************************************)
(* Every step adds a message as said, and a turn reaches its user message  *)
(* behind an agent_start.                                                  *)
(***************************************************************************)
LEMMA StepSpeaks ==
  ASSUME TypeOK, SettledInv, PhaseInv, [Next]_vars
  PROVE  Speaks /\ Opening
  <1> USE LoopAssumption
      DEF TypeOK, SettledInv, PhaseInv, Resting, InCall, Speaks, Says,
          Opening, Pending, Goto, Leave, lifecycle, journal, plans,
          LoopAssumption
  <1>1. CASE RunTurn
    BY <1>1 DEF RunTurn
  <1>2. CASE StartEnvironment
    BY <1>2 DEF StartEnvironment
  <1>3. CASE EmitSessionStart
    BY <1>3 DEF EmitSessionStart, Emit, Record, Refuse, Abandon
  <1>4. CASE EmitAgentStart
    BY <1>4 DEF EmitAgentStart, Emit, Record, Refuse, Abandon
  <1>5. CASE EmitUserMessage
    BY <1>5 DEF EmitUserMessage, Emit, Record, Refuse, Abandon, Remember
  <1>6. CASE BeginStep
    BY <1>6 DEF BeginStep
  <1>7. CASE PrepareContext
    BY <1>7 DEF PrepareContext
  <1>8. CASE Compact
    BY <1>8 DEF Compact, Emit, Record, Refuse, Abandon
  <1>9. CASE Respond
    BY <1>9 DEF Respond, Emit, Record, Refuse, Abandon, Remember
  <1>10. CASE RetryOverflow
    BY <1>10 DEF RetryOverflow, Emit, Record, Refuse, Abandon
  <1>11. CASE ModelRaises
    BY <1>11 DEF ModelRaises
  <1>12. CASE AcceptResponse
    BY <1>12 DEF AcceptResponse
  <1>13. CASE RecoverEmptyResponse
    BY <1>13
       DEF RecoverEmptyResponse, Emit, Record, Refuse, Abandon, Remember
  <1>14. CASE Dispatch
    BY <1>14 DEF Dispatch, Emit, Record, Refuse, Abandon
  <1>15. CASE RejectCall
    BY <1>15 DEF RejectCall, Emit, Record, Refuse, Abandon
  <1>16. CASE AllowCall
    BY <1>16 DEF AllowCall, Emit, Record, Refuse, Abandon
  <1>17. CASE AskApproval
    BY <1>17 DEF AskApproval, Emit, Record, Refuse, Abandon
  <1>18. CASE AnswerApproval
    BY <1>18 DEF AnswerApproval, Approve, Emit, Record, Refuse, Abandon
  <1>19. CASE Execute
    BY <1>19 DEF Execute
  <1>20. CASE PublishResult
    BY <1>20 DEF PublishResult, Emit, Record, Refuse, Abandon, Remember
  <1>21. CASE Settle
    BY <1>21 DEF Settle
  <1>22. CASE SkipCall
    BY <1>22 DEF SkipCall, Emit, Record, Refuse, Abandon
  <1>23. CASE SkipPolicy
    BY <1>23 DEF SkipPolicy, Emit, Record, Refuse, Abandon
  <1>24. CASE SkipResult
    BY <1>24 DEF SkipResult, Emit, Record, Refuse, Abandon, Remember
  <1>25. CASE SkipDone
    BY <1>25 DEF SkipDone
  <1>26. CASE EmitError
    BY <1>26 DEF EmitError, EmitBestEffort, Record, Refuse
  <1>27. CASE EmitTurnEnd
    BY <1>27 DEF EmitTurnEnd, TurnOver, Record, Refuse, Abandon
  <1>28. CASE HandleRaisedLimit
    BY <1>28 DEF HandleRaisedLimit, TurnOver, Record, Refuse
  <1>29. CASE Close
    BY <1>29 DEF Close
  <1>30. CASE EmitAgentEnd
    BY <1>30 DEF EmitAgentEnd, EmitBestEffort, Record, Refuse
  <1>31. CASE EmitSessionEnd
    BY <1>31 DEF EmitSessionEnd, EmitBestEffort, Record, Refuse
  <1>32. CASE CloseEnvironment
    BY <1>32 DEF CloseEnvironment
  <1>33. CASE Cancel
    BY <1>33 DEF Cancel
  <1>34. CASE Expire
    BY <1>34 DEF Expire
  <1>35. CASE UNCHANGED vars
    BY <1>35 DEF vars
  <1> QED
    BY <1>1, <1>2, <1>3, <1>4, <1>5, <1>6, <1>7, <1>8, <1>9, <1>10, <1>11,
       <1>12, <1>13, <1>14, <1>15, <1>16, <1>17, <1>18, <1>19, <1>20, <1>21,
       <1>22, <1>23, <1>24, <1>25, <1>26, <1>27, <1>28, <1>29, <1>30, <1>31,
       <1>32, <1>33, <1>34, <1>35 DEF Next, LoopStep, OwnStep

(***************************************************************************)
(* What a step adds to the conversation: nothing, or the message of the    *)
(* event it records.                                                       *)
(***************************************************************************)
Silence ==
  /\ UNCHANGED <<context, issued, head>>
  /\ \/ UNCHANGED log
     \/ \E e \in Events : log' = Append(log, e) /\ RoleOf(e) = "none"

(***************************************************************************)
(* Who may speak, and how the plans move: a result is that of the first    *)
(* call in question, anything else waits until there is none.              *)
(***************************************************************************)
Turns(e) ==
  \/ RoleOf(e) \in {"user", "system"} /\ ~Pending /\ UNCHANGED <<issued, head>>
  \/ /\ RoleOf(e) = "assistant" /\ ~Pending
     /\ issued' = e.call /\ issued =< issued' /\ head' = head
  \/ /\ RoleOf(e) = "tool" /\ Pending
     /\ e.call = head /\ head' = head + 1 /\ issued' = issued

(* The step that records e adds its message. *)
Spoke(e) ==
  /\ log' = Append(log, e)
  /\ context' = Append(context, Message(RoleOf(e), e.call, Len(log) + 1))
  /\ RoleOf(e) # "none" /\ Turns(e)
  /\ RoleOf(e) = "user" => pc = "user"

(* A step is silent or speaks. *)
Talk == Silence \/ \E e \in Events : Spoke(e)

(* What was appended can be told from the result. *)
LEMMA AppendAgain ==
  ASSUME NEW s, NEW m, NEW n
  PROVE  Append(s, m) = Append(s, n) => m = n
  <1>1. \A t : Append(s, t)[Len(s) + 1] = t
    OBVIOUS
  <1> QED BY <1>1

(* Every step of the loop is one of the two. *)
LEMMA StepTalks ==
  ASSUME TypeOK, SettledInv, PhaseInv, [Next]_vars
  PROVE  Talk
  <1>0. /\ context \in Seq(Messages) /\ log \in Seq(Events)
        /\ Len(log) \in Nat /\ Len(context) \in Nat
    BY DEF TypeOK
  <1>1. Tells /\ Speaks
    BY LogStep, StepSpeaks
  <1> DEFINE x == Len(log) + 1
  <1>2. context' = context => UNCHANGED <<context, issued, head>>
    <2>1. \A m \in Messages : Append(context, m) # context
      <3> TAKE m \in Messages
      <3>1. Len(Append(context, m)) = Len(context) + 1
        BY <1>0
      <3> QED BY <1>0, <3>1
    <2>2. /\ Message("user", 0, x) \in Messages
          /\ Message("system", 0, x) \in Messages
          /\ Message("tool", head, x) \in Messages
          /\ issued' \in Nat => Message("assistant", issued', x) \in Messages
      BY <1>0, MessageType DEF TypeOK, Roles
    <2> QED BY <1>1, <2>1, <2>2 DEF Speaks, Says
  <1>3. ASSUME NEW e \in Events, log' = Append(log, e),
               context' = Projected(e)
        PROVE  Talk
    <2>1. CASE RoleOf(e) = "none"
      <3>1. context' = context
        BY <1>3, <2>1 DEF Projected
      <3> QED BY <1>2, <1>3, <2>1, <3>1 DEF Talk, Silence
    <2>2. CASE RoleOf(e) # "none"
      <3> DEFINE m == Message(RoleOf(e), e.call, x)
      <3>1. context' = Append(context, m) /\ m \in Messages
        <4>1. RoleOf(e) \in Roles /\ e.call \in Nat
          BY <2>2, RoleType DEF Events
        <4> QED BY <1>0, <1>3, <2>2, <4>1, MessageType DEF Projected
      <3>2. context' # context
        <4>1. Len(Append(context, m)) = Len(context) + 1
          BY <1>0, <3>1
        <4> HIDE DEF m
        <4> QED BY <1>0, <3>1, <4>1
      <3>3. ASSUME NEW role, NEW call,
                   context' = Append(context, Message(role, call, x))
            PROVE  RoleOf(e) = role /\ e.call = call
        <4>1. m = Message(role, call, x)
          BY <3>1, <3>3, AppendAgain
        <4> QED BY <4>1 DEF Message
      <3>4. /\ \A role : Says(role, 0) => RoleOf(e) = role
            /\ Says("tool", head) => RoleOf(e) = "tool" /\ e.call = head
            /\ Says("assistant", issued') =>
                 RoleOf(e) = "assistant" /\ e.call = issued'
        BY <3>3, Zenon DEF Says
      <3> DEFINE Goal == Turns(e) /\ (RoleOf(e) = "user" => pc = "user")
      <3>5. Says("user", 0) /\ pc = "user" /\ UNCHANGED <<issued, head>>
              => Goal
        BY <3>4 DEF SettledInv, Resting, Turns
      <3>6. Says("system", 0) /\ ~Pending /\ UNCHANGED <<issued, head>> => Goal
        BY <3>4 DEF Turns
      <3>7. /\ Says("assistant", issued') /\ ~Pending
            /\ issued' \in Nat /\ issued =< issued' /\ head' = head
            => Goal
        BY <3>4 DEF Turns
      <3>8. /\ Says("tool", head) /\ Pending
            /\ head' = head + 1 /\ issued' = issued
            => Goal
        BY <3>4 DEF Turns
      <3>9. Goal
        BY <1>1, <3>2, <3>5, <3>6, <3>7, <3>8 DEF Speaks
      <3> QED BY <1>3, <2>2, <3>1, <3>9 DEF Talk, Spoke
    <2> QED BY <2>1, <2>2
  <1>4. CASE UNCHANGED <<log, context>>
    BY <1>2, <1>4 DEF Talk, Silence
  <1> QED BY <1>1, <1>3, <1>4 DEF Tells
============================================================================

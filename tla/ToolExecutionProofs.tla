------------------------ MODULE ToolExecutionProofs ------------------------
(***************************************************************************)
(* Proofs about ToolExecution: consent before effect, results that tell    *)
(* what became of the file and that something was cut, and commands that   *)
(* leave no process behind that SIGTERM ends, for any number of calls, any *)
(* kinds of background process and any limits.                             *)
(***************************************************************************)
EXTENDS ToolExecution, SequenceTheorems, TLAPS

Points ==
  {"idle", "entry", "enter", "reading", "recheck", "open", "writing",
   "spawn", "register", "poll", "communicate", "terminate", "grace", "drain",
   "finished"}

(* Where an operation has a process. *)
ProcessPoints ==
  {"register", "poll", "communicate", "terminate", "grace", "drain",
   "finished"}

Replies ==
  [status : Statuses \union {"none"}, full : Nat, cut : BOOLEAN]

EnvTypes ==
  /\ op \in Operations /\ at \in Points
  /\ file \in {"old", "torn", "new"} /\ touched \in BOOLEAN
  /\ stopped \in {"none", "timeout", "cancelled"}
  /\ leader \in {"none", "running", "exited"}
  /\ child \in ChildKinds \union {"none"}
  /\ reply \in Replies

(* What is left of a process that has been stopped. *)
Reaped == leader = "exited" /\ child \notin {"quiet", "piped"}

(* The process by control point. *)
ProcessInv ==
  /\ at \in ProcessPoints => leader # "none"
  /\ at \in ProcessPoints \union {"spawn"} => op \in {"search", "command"}
  /\ at = "grace" => child \notin {"quiet", "piped"}
  /\ stopped # "none" => at \in {"terminate", "grace", "drain", "idle"}
  /\ at \in {"drain", "idle"} /\ stopped # "none" => Reaped
  /\ at = "drain" => stopped # "none"

(* The file by control point. *)
FileInv ==
  /\ at \in {"entry", "enter", "reading", "recheck", "open", "spawn"}
       => ~touched
  /\ at \in {"recheck", "open", "writing"} => op \in {"write", "edit"}
  /\ at = "writing" => touched /\ file = "torn"
  /\ ~touched => file = "old"

(* An operation that changed its file has returned what it should. *)
Told(status) ==
  op \in {"write", "edit"} /\ touched =>
    \/ file = "new" /\ status = "success"
    \/ file = "torn" /\ status = "error"

EnvInv == EnvTypes /\ ProcessInv /\ FileInv

(* What the operation under way has done is what its tool may do. *)
WithinOp ==
  /\ touched => op \in SideEffects
  /\ at = "idle" => Told(reply.status)

-----------------------------------------------------------------------------
LEMMA ReturnTyped ==
  ASSUME NEW status \in Statuses, NEW n \in OutputSizes \union {0},
         Return(status, n)
  PROVE  at' = "idle" /\ reply' \in Replies /\ reply'.status = status
<1>1. n \in Nat
  BY EnvironmentAssumption
<1>2. PICK c \in BOOLEAN :
        reply' = [status |-> status, full |-> n, cut |-> c]
  BY DEF Return, Truncated
<1> QED
  BY <1>1, <1>2 DEF Return, Replies

(* One step of an operation. *)
LEMMA OperationKeeps ==
  ASSUME EnvInv, OperationStep, at # "idle" => WithinOp
  PROVE  /\ EnvInv' /\ WithinOp' /\ at # "idle"
         /\ op' = op /\ (touched => touched')
<1> USE DEF EnvInv, EnvTypes, ProcessInv, FileInv, Reaped, Points,
            ProcessPoints, WithinOp, Told, Goto, Refuse, Statuses,
            files, processes, polling, closer, SideEffects
<1>0. \A status \in Statuses, n \in OutputSizes \union {0} :
        Return(status, n) =>
          at' = "idle" /\ reply' \in Replies /\ reply'.status = status
  BY ReturnTyped
<1>1. CASE CheckState
  BY <1>0, <1>1 DEF CheckState
<1>2. CASE CheckCancelled
  BY <1>0, <1>2 DEF CheckCancelled, ResolvePath, FirstStep, Operations
<1>3. CASE ReadFile \/ ListFiles \/ SearchWithPython \/ ReadForEdit
  BY <1>0, <1>3
     DEF ReadFile, ListFiles, SearchWithPython, ReadForEdit, ReadBytes,
              CollectEntries, Report
<1>4. CASE Recheck
  BY <1>0, <1>4 DEF Recheck
<1>5. CASE Open
  <2>1. touched' = TRUE => touched' /\ touched' \in BOOLEAN
    OBVIOUS
  <2>2. CASE Refuse("error") /\ UNCHANGED files
    BY <1>0, <1>5, <2>2 DEF Open
  <2>3. CASE /\ Goto("writing") /\ file' = "torn" /\ touched'
             /\ touched' \in BOOLEAN
    BY <1>0, <1>5, <2>3 DEF Open
  <2> QED
    BY <1>0, <1>5, <2>1, <2>2, <2>3 DEF Open
<1>6. CASE Write
  BY <1>0, <1>6 DEF Write, Report
<1>7. CASE SpawnCommand
  <2>1. touched' = TRUE => touched' /\ touched' \in BOOLEAN
    OBVIOUS
  <2>2. CASE Refuse("error") /\ UNCHANGED <<processes, touched>>
    BY <1>0, <1>7, <2>2 DEF SpawnCommand
  <2>3. CASE /\ Goto("register") /\ leader' = "running" /\ touched'
             /\ touched' \in BOOLEAN /\ child' \in Children
    BY <1>0, <1>7, <2>3, EnvironmentAssumption DEF SpawnCommand
  <2> QED
    BY <1>0, <1>7, <2>1, <2>2, <2>3 DEF SpawnCommand
<1>8. CASE SpawnSearch
  BY <1>0, <1>8 DEF SpawnSearch
<1>9. CASE Register \/ Poll \/ Communicate
  BY <1>0, <1>9 DEF Register, Poll, Communicate
<1>10. CASE FinishCommand
  BY <1>0, <1>10 DEF FinishCommand, Ended, Outcomes
<1>11. CASE FinishSearch
  BY <1>0, <1>11 DEF FinishSearch, Ended, Outcomes, Report
<1>12. CASE Terminate
  BY <1>0, <1>12 DEF Terminate, TerminateGroup
<1>13. CASE Kill
  BY <1>0, <1>13 DEF Kill, EndOfGrace
<1> QED
  BY <1>1, <1>2, <1>3, <1>4, <1>5, <1>6, <1>7, <1>8, <1>9, <1>10, <1>11,
     <1>12, <1>13 DEF OperationStep

(* What the surroundings do to the environment: they end processes, and    *)
(* touch neither the operation nor its file.                               *)
LEMMA SurroundingsKeep ==
  ASSUME EnvInv, Close \/ FinishClose \/ WorldStep
  PROVE  EnvInv' /\ UNCHANGED <<op, at, reply, files, stopped>>
<1> USE DEF EnvInv, EnvTypes, ProcessInv, FileInv, Reaped, Points,
            ProcessPoints, files, processes, polling, closer
<1>1. CASE Close \/ CloseSnapshot
  BY <1>1 DEF Close, CloseSnapshot
<1>2. CASE CloseTerminate
  BY <1>2 DEF CloseTerminate, TerminateGroup
<1>3. CASE CloseKill
  BY <1>3 DEF CloseKill, EndOfGrace
<1>4. CASE WorldStep
  BY <1>4 DEF WorldStep, Cancel, Expire, LeaderExits, ChildExits
<1> QED
  BY <1>1, <1>2, <1>3, <1>4 DEF FinishClose

-----------------------------------------------------------------------------
(* The executor around it. *)
Steps ==
  {"idle", "validate", "decide", "approval", "run", "running", "publish"}

CallResults ==
  [status : Statuses \union {"none", "denied", "invalid", "error"},
   text : Nat, full : Nat, cut : BOOLEAN]

Entries ==
  [kind : {"tool_call"}, call : Nat]
    \union [kind : {"policy_decision"}, call : Nat,
            requested : {"allow", "ask", "deny"}, decision : {"allow", "deny"}]
    \union [kind : {"tool_result"}, call : Nat, result : CallResults]

ToolTypes ==
  /\ call \in Nat /\ pc \in Steps
  /\ journal \in Seq(Entries) /\ result \in CallResults

(* Who may act, and who has acted. *)
ConsentInv ==
  /\ \A c \in effects : c \in consent /\ Permitted(c)
  /\ pc \in {"run", "running"} =>
       Permitted(call) /\ (op \in SideEffects => call \in consent)

(* What the result will have to say of the call under way. *)
EffectInv ==
  /\ at # "idle" => pc = "running"
  /\ \A c \in effects : c =< call /\ c \in Nat
  /\ pc \in {"validate", "decide", "approval", "run"} => call \notin effects
  /\ pc = "running" => (call \in effects <=> touched) /\ WithinOp
  /\ pc = "publish" =>
       /\ result.status \in {"denied", "invalid"} => call \notin effects
       /\ call \in effects => touched /\ Told(result.status)

ToolInv == EnvInv /\ ToolTypes /\ ConsentInv /\ EffectInv

LEMMA JournalGrows ==
  ASSUME ToolTypes, NEW e \in Entries, Recorded(e)
  PROVE  /\ journal' \in Seq(Entries)
         /\ \A c : Permitted(c) => Permitted(c)'
         /\ e.kind = "policy_decision" /\ e.decision = "allow"
              => Permitted(e.call)'
<1>1. journal \in Seq(Entries) /\ journal' = Append(journal, e)
  BY DEF ToolTypes, Recorded
<1>2. /\ journal' \in Seq(Entries) /\ Len(journal') = Len(journal) + 1
      /\ \A i \in 1 .. Len(journal) : journal'[i] = journal[i]
      /\ journal'[Len(journal) + 1] = e
  BY <1>1, AppendProperties
<1>3. /\ DOMAIN journal = 1 .. Len(journal) /\ Len(journal) \in Nat
      /\ DOMAIN journal' = 1 .. Len(journal) + 1
  BY <1>1, <1>2, LenProperties
<1> QED
  BY <1>2, <1>3 DEF Permitted

LEMMA ProjectTyped ==
  ASSUME NEW r \in CallResults
  PROVE  /\ Project(r) \in CallResults /\ Project(r).status = r.status
         /\ Project(r).text =< ResultLimit
BY ExecutionAssumption DEF Project, Bounded, ToolResult, CallResults

(* Projecting a result that was projected changes nothing, so that the log *)
(* and the conversation hold the same one.                                 *)
LEMMA ProjectOnce ==
  ASSUME NEW r \in CallResults, r.text =< ResultLimit
  PROVE  Project(r) = r
BY DEF Project, Bounded, CallResults

LEMMA MessageTyped ==
  ASSUME NEW status \in {"denied", "invalid", "error"}, NEW t \in TextSizes
  PROVE  Message(status, t) \in CallResults
         /\ Message(status, t).status = status
BY ExecutionAssumption DEF Message, ToolResult, CallResults

LEMMA TextsTyped ==
  ASSUME NEW r \in Replies
  PROVE  Texts(r) \subseteq Nat
<1>1. WholeTexts(r.full) \subseteq Nat /\ CutTexts \subseteq Nat
  BY ExecutionAssumption DEF WholeTexts, CutTexts, Replies
<1> QED
  BY <1>1, ExecutionAssumption DEF Texts

(* A call that is refused has done nothing. *)
LEMMA DenyKeeps ==
  ASSUME ToolInv, pc \in {"validate", "decide", "approval"},
         NEW requested \in {"allow", "ask", "deny"},
         NEW status \in {"denied", "invalid", "error"},
         Deny(requested, status), consent \subseteq consent',
         UNCHANGED <<call, effects, envVars>>
  PROVE  ToolInv'
<1>1. PolicyEvent(requested, "deny") \in Entries
  BY DEF PolicyEvent, Entries, ToolInv, ToolTypes
<1>2. journal' \in Seq(Entries) /\ \A c : Permitted(c) => Permitted(c)'
  BY <1>1, JournalGrows DEF Deny, ToolInv
<1>3. result' \in CallResults /\ result'.status = status
  BY MessageTyped, ProjectTyped DEF Deny
<1>4. EnvInv'
  BY DEF ToolInv, EnvInv, EnvTypes, ProcessInv, FileInv, Reaped, envVars,
         files, closer, polling, processes
<1>5. /\ UNCHANGED <<at, touched, op, file, reply>> /\ pc' = "publish"
  BY DEF envVars, files, Deny
<1>6. ToolTypes'
  BY <1>2, <1>3, <1>5 DEF ToolInv, ToolTypes, Steps
<1>7. ConsentInv'
  BY <1>2, <1>5 DEF ToolInv, ConsentInv
<1>8. EffectInv'
  BY <1>3, <1>5 DEF ToolInv, EffectInv
<1> QED
  BY <1>4, <1>6, <1>7, <1>8 DEF ToolInv

(* A call that is allowed is allowed on record, and has done nothing yet. *)
LEMMA AllowKeeps ==
  ASSUME ToolInv, pc \in {"decide", "approval"},
         NEW requested \in {"allow", "ask"}, Allow(requested),
         consent \subseteq consent', op \in SideEffects => call \in consent',
         UNCHANGED <<call, effects, envVars>>
  PROVE  ToolInv'
<1>1. /\ PolicyEvent(requested, "allow") \in Entries
      /\ PolicyEvent(requested, "allow").call = call
  BY DEF PolicyEvent, Entries, ToolInv, ToolTypes
<1>2. /\ journal' \in Seq(Entries) /\ \A c : Permitted(c) => Permitted(c)'
      /\ Permitted(call)'
  <2>1. /\ PolicyEvent(requested, "allow").kind = "policy_decision"
        /\ PolicyEvent(requested, "allow").decision = "allow"
    BY DEF PolicyEvent
  <2> QED
    BY <1>1, <2>1, JournalGrows DEF Allow, ToolInv
<1>3. EnvInv'
  BY DEF ToolInv, EnvInv, EnvTypes, ProcessInv, FileInv, Reaped, envVars,
         files, closer, polling, processes
<1>4. /\ UNCHANGED <<at, touched, op, file, reply, result>> /\ pc' = "run"
  BY DEF envVars, files, Allow
<1>5. ToolTypes'
  BY <1>2, <1>4 DEF ToolInv, ToolTypes, Steps
<1>6. ConsentInv'
  BY <1>2, <1>4 DEF ToolInv, ConsentInv
<1>7. EffectInv'
  BY <1>4 DEF ToolInv, EffectInv
<1> QED
  BY <1>3, <1>5, <1>6, <1>7 DEF ToolInv

LEMMA ToolKeeps ==
  ASSUME ToolInv, [Next]_toolVars
  PROVE  ToolInv'
<1> USE DEF ToolInv
<1>0. ASSUME UNCHANGED envVars
      PROVE  /\ EnvInv' /\ (WithinOp => WithinOp')
             /\ UNCHANGED <<at, touched, op, file, reply>>
  BY <1>0 DEF EnvInv, EnvTypes, ProcessInv, FileInv, Reaped, envVars,
              WithinOp, Told, files, closer, polling, processes
<1>1. CASE BeginCall
  <2>1. [kind |-> "tool_call", call |-> call + 1] \in Entries
    BY DEF Entries, ToolTypes
  <2>2. journal' \in Seq(Entries) /\ \A c : Permitted(c) => Permitted(c)'
    BY <1>1, <2>1, JournalGrows DEF BeginCall
  <2>3. /\ at = "idle" /\ pc' = "validate" /\ call' = call + 1
        /\ op' \in Operations
        /\ UNCHANGED <<result, effects, consent, at, reply, file, touched,
                       stopped, leader, child>>
    BY <1>1 DEF BeginCall, EffectInv, files, polling, processes
  <2>4. EnvInv'
    BY <2>3 DEF EnvInv, EnvTypes, ProcessInv, FileInv, Reaped,
                ProcessPoints
  <2>5. ToolTypes' /\ ConsentInv'
    BY <2>2, <2>3 DEF ToolTypes, ConsentInv, Steps
  <2>6. EffectInv'
    BY <2>3 DEF EffectInv, ToolTypes
  <2> QED
    BY <2>4, <2>5, <2>6
<1>2. CASE Validate
  <2>1. CASE pc' = "decide" /\ UNCHANGED <<journal, result>>
    <3>1. pc = "validate"
          /\ UNCHANGED <<call, consent, effects, envVars>>
      BY <1>2 DEF Validate
    <3>2. ToolTypes' /\ ConsentInv'
      BY <1>0, <2>1, <3>1 DEF ToolTypes, ConsentInv, Steps, Permitted
    <3>3. EffectInv'
      BY <1>0, <2>1, <3>1 DEF EffectInv
    <3> QED
      BY <1>0, <3>1, <3>2, <3>3
  <2>2. CASE Deny("deny", "invalid") \/ Deny("deny", "error")
    BY <1>2, <2>2, DenyKeeps DEF Validate
  <2> QED
    BY <1>2, <2>1, <2>2 DEF Validate
<1>3. CASE Decide
  <2>1. /\ pc = "decide" /\ UNCHANGED <<call, effects, envVars>>
        /\ consent \subseteq consent'
        /\ Decision = "allow" /\ op \in SideEffects => call \in consent'
    <3>1. Decision = "allow" /\ op \in SideEffects => mode = "auto"
      BY DEF Decision, DecideSideEffect
    <3> QED
      BY <1>3, <3>1 DEF Decide
  <2>2. CASE Decision = "allow" /\ Allow("allow")
    <3>1. op \in SideEffects => call \in consent'
      BY <2>1, <2>2
    <3> QED
      BY <2>1, <2>2, <3>1, AllowKeeps
  <2>3. CASE Deny("deny", "denied")
    BY <2>1, <2>3, DenyKeeps
  <2>4. CASE pc' = "approval" /\ UNCHANGED <<journal, result>>
    <3>1. ToolTypes' /\ ConsentInv'
      BY <1>0, <2>1, <2>4 DEF ToolTypes, ConsentInv, Steps, Permitted
    <3>2. EffectInv'
      BY <1>0, <2>1, <2>4 DEF EffectInv
    <3> QED
      BY <1>0, <2>1, <3>1, <3>2
  <2> QED
    BY <1>3, <2>2, <2>3, <2>4 DEF Decide
<1>4. CASE Approval
  <2>1. PICK a \in {"approved", "rejected", "failed"} :
          /\ Answer(a)
          /\ consent' = IF a = "approved" THEN consent \union {call}
                        ELSE consent
    BY <1>4 DEF Approval
  <2>2. pc = "approval" /\ UNCHANGED <<call, effects, envVars>>
    BY <1>4 DEF Approval
  <2>3. CASE a = "approved"
    BY <2>1, <2>2, <2>3, AllowKeeps DEF Answer
  <2>4. CASE a # "approved"
    BY <2>1, <2>2, <2>4, DenyKeeps DEF Answer
  <2> QED
    BY <2>3, <2>4
<1>5. CASE RunTool
  <2>1. /\ pc = "run" /\ pc' = "running" /\ at = "idle" /\ at' = "entry"
        /\ op' = op /\ file' = "old" /\ touched' = FALSE
        /\ stopped' = "none" /\ reply' = NoReply
        /\ UNCHANGED <<call, result, journal, consent, effects, leader, child>>
    BY <1>5 DEF RunTool, Call, processes
  <2>2. NoReply \in Replies
    BY DEF NoReply, Replies
  <2>3. EnvInv'
    BY <2>1, <2>2 DEF EnvInv, EnvTypes, ProcessInv, FileInv, ProcessPoints,
                      Points
  <2>4. ToolTypes' /\ ConsentInv'
    BY <2>1 DEF ToolTypes, ConsentInv, Steps, Permitted
  <2>5. EffectInv'
    BY <2>1 DEF EffectInv, WithinOp, Told
  <2> QED
    BY <2>3, <2>4, <2>5
<1>6. CASE ToolReturns
  <2>1. /\ pc = "running" /\ at = "idle" /\ pc' = "publish"
        /\ UNCHANGED <<call, journal, consent, effects, envVars>>
    BY <1>6 DEF ToolReturns
  <2>2. reply \in Replies /\ reply.status \notin {"denied", "invalid"}
    BY DEF EnvInv, EnvTypes, Replies, Statuses
  <2>3. result' \in CallResults /\ result'.status = reply.status
    <3>1. PICK text \in Texts(reply) :
            result' = Project(ToolResult(reply.status, text, reply.full,
                                         reply.cut))
      BY <1>6 DEF ToolReturns
    <3>2. text \in Nat
      BY <2>2, TextsTyped
    <3>3. ToolResult(reply.status, text, reply.full, reply.cut) \in CallResults
      BY <2>2, <3>2 DEF Replies, CallResults, ToolResult
    <3> QED
      BY <3>1, <3>3, ProjectTyped DEF ToolResult
  <2>4. ToolTypes' /\ ConsentInv'
    BY <1>0, <2>1, <2>3 DEF ToolTypes, ConsentInv, Steps, Permitted
  <2>5. EffectInv'
    BY <1>0, <2>1, <2>2, <2>3 DEF EffectInv, WithinOp, Told
  <2> QED
    BY <1>0, <2>1, <2>4, <2>5
<1>7. CASE Publish
  <2>1. /\ pc = "publish" /\ pc' = "idle"
        /\ UNCHANGED <<call, result, consent, effects, envVars>>
    BY <1>7 DEF Publish
  <2>2. [kind |-> "tool_result", call |-> call, result |-> Project(result)]
          \in Entries
    BY ProjectTyped DEF Entries, ToolTypes
  <2>3. journal' \in Seq(Entries) /\ \A c : Permitted(c) => Permitted(c)'
    BY <1>7, <2>2, JournalGrows DEF Publish
  <2>4. ToolTypes' /\ ConsentInv'
    BY <1>0, <2>1, <2>3 DEF ToolTypes, ConsentInv, Steps
  <2>5. EffectInv'
    BY <1>0, <2>1 DEF EffectInv
  <2> QED
    BY <1>0, <2>1, <2>4, <2>5
<1>8. CASE Environment
  <2>1. /\ OperationStep /\ UNCHANGED <<call, pc, journal, result, consent>>
        /\ effects' = IF touched' THEN effects \union {call} ELSE effects
    BY <1>8 DEF Environment, execution
  <2>2. at # "idle" => WithinOp
    BY DEF EffectInv
  <2>3. /\ EnvInv' /\ WithinOp' /\ at # "idle"
        /\ op' = op /\ (touched => touched')
    BY <2>1, <2>2, OperationKeeps
  <2>4. pc = "running"
    BY <2>3 DEF EffectInv
  <2>5. ConsentInv'
    BY <2>1, <2>3, <2>4 DEF ConsentInv, Permitted, WithinOp
  <2>6. EffectInv'
    BY <2>1, <2>3, <2>4 DEF EffectInv, ToolTypes
  <2>7. ToolTypes'
    BY <2>1 DEF ToolTypes
  <2> QED
    BY <2>3, <2>5, <2>6, <2>7
<1>9. CASE SetMode \/ UNCHANGED toolVars
  <2>1. UNCHANGED <<call, pc, journal, result, consent, effects, envVars>>
    BY <1>9 DEF SetMode, execution, toolVars
  <2>2. ToolTypes' /\ ConsentInv'
    BY <1>0, <2>1 DEF ToolTypes, ConsentInv, Permitted
  <2>3. EffectInv'
    BY <1>0, <2>1 DEF EffectInv, Told
  <2> QED
    BY <1>0, <2>1, <2>2, <2>3
<1>10. CASE Surroundings
  <2>1. /\ Close \/ FinishClose \/ WorldStep
        /\ UNCHANGED <<call, pc, journal, result, consent, effects>>
    BY <1>10 DEF Surroundings, execution
  <2>2. EnvInv' /\ UNCHANGED <<op, at, reply, touched, file, stopped>>
    BY <2>1, SurroundingsKeep DEF files
  <2>3. ToolTypes' /\ ConsentInv'
    BY <2>1, <2>2 DEF ToolTypes, ConsentInv, Permitted
  <2>4. EffectInv'
    BY <2>1, <2>2 DEF EffectInv, WithinOp, Told
  <2> QED
    BY <2>2, <2>3, <2>4
<1> QED
  BY <1>1, <1>2, <1>3, <1>4, <1>5, <1>6, <1>7, <1>8, <1>9, <1>10
     DEF Next, Execute

LEMMA ToolStart == ExecutionInit => ToolInv
<1> SUFFICES ASSUME ExecutionInit PROVE ToolInv
  OBVIOUS
<1>1. /\ op = "read" /\ at = "idle" /\ reply = NoReply /\ file = "old"
      /\ touched = FALSE /\ stopped = "none" /\ leader = "none"
      /\ child = "none" /\ call = 0 /\ pc = "idle"
      /\ result = ToolResult("none", 0, 0, FALSE)
      /\ journal = <<>> /\ effects = {}
  BY DEF ExecutionInit, EnvironmentInit
<1>2. NoReply \in Replies /\ ToolResult("none", 0, 0, FALSE) \in CallResults
  BY DEF NoReply, Replies, CallResults, ToolResult
<1>3. EnvInv
  BY <1>1, <1>2 DEF EnvInv, EnvTypes, ProcessInv, FileInv, Points,
                    ProcessPoints, Operations
<1>4. result \in CallResults
  BY <1>1, <1>2, Zenon
<1>5. ToolTypes
  <2>1. call \in Nat /\ pc \in Steps /\ journal \in Seq(Entries)
    BY <1>1 DEF Steps
  <2> QED
    BY <1>4, <2>1 DEF ToolTypes
<1>6. ConsentInv /\ EffectInv
  BY <1>1 DEF ConsentInv, EffectInv
<1> QED
  BY <1>3, <1>5, <1>6 DEF ToolInv

LEMMA ToolInvariant == ToolSpec => []ToolInv
BY ToolStart, ToolKeeps, PTL DEF ToolSpec

(* No call changes a file or starts a command that was not allowed on      *)
(* record, by the user for this very call or by an automatic mode, however *)
(* often the mode is changed and whatever is cancelled or closed           *)
(* (executor.py, execute; policy.py, _decide_side_effect).                 *)
THEOREM ConsentKept == ToolSpec => []EffectsConsented
<1>1. ToolInv => EffectsConsented
  BY DEF ToolInv, ConsentInv, Permitted, EffectsConsented
<1> QED
  BY <1>1, ToolInvariant, PTL

(* The result of a write or an edit says what became of its file: torn     *)
(* exactly when it is an error after the file was opened (local.py,        *)
(* write_file and edit_file).                                              *)
THEOREM ResultsTell == ToolSpec => []ResultTellsFile
<1>1. ToolInv => ResultTellsFile
  BY DEF ToolInv, EffectInv, EnvInv, EnvTypes, Told, ResultTellsFile
<1> QED
  BY <1>1, ToolInvariant, PTL

(* Whatever kinds of background process a command starts and whoever else  *)
(* terminates the group, a command that was stopped leaves none behind     *)
(* that SIGTERM would have ended (local.py, _terminate_process).           *)
THEOREM GroupsReaped == ToolSpec => []StoppedGroupGone
<1>1. ToolInv => StoppedGroupGone
  BY DEF ToolInv, EnvInv, ProcessInv, Reaped, StoppedGroupGone
<1> QED
  BY <1>1, ToolInvariant, PTL

-----------------------------------------------------------------------------
(* What the results say of the output, and what is kept of them.           *)

(* What was left out on the way from the environment is reported. *)
Reports ==
  /\ ~result.cut => /\ ~reply.cut /\ result.full = reply.full
                    /\ result.text \in Texts(reply)
  /\ result.cut => reply.cut \/ result.text = ResultLimit
  /\ result.full >= reply.full

ReportInv ==
  /\ result.text =< ResultLimit
  /\ pc \in {"publish", "idle"} /\ Permitted(call) => Reports

(* Decisions are about the calls made so far, and end their decision. *)
DecisionInv ==
  /\ \A i \in DOMAIN journal : journal[i].call =< call
  /\ pc \in {"validate", "decide", "approval"} => ~Permitted(call)

(* The results and the tool messages are those of the same calls. *)
ShownInv ==
  /\ shown \in Seq(CallResults)
  /\ pc # "idle" => call > 0
  /\ Len(shown) = IF pc = "idle" THEN call ELSE call - 1
  /\ pc = "idle" /\ call > 0 => shown[call] = result
  /\ \A c \in DOMAIN shown : \E i \in Results :
       journal[i].call = c /\ journal[i].result = shown[c]
  /\ \A i \in Results : journal[i].call \in DOMAIN shown
  /\ \A i, j \in Results : i < j => journal[i].call < journal[j].call

TellInv == ReportInv /\ DecisionInv /\ ShownInv

(* What a projection leaves out of a text of what the environment returned *)
(* it reports.                                                             *)
LEMMA ProjectReports ==
  ASSUME NEW r \in Replies, NEW text \in Texts(r),
         NEW p, p = Project(ToolResult(r.status, text, r.full, r.cut))
  PROVE  /\ ~p.cut => ~r.cut /\ p.full = r.full /\ p.text \in Texts(r)
         /\ p.cut => r.cut \/ p.text = ResultLimit
         /\ p.full >= r.full /\ p.text =< ResultLimit
<1>1. text \in Nat /\ r.full \in Nat /\ ResultLimit \in Nat
  BY TextsTyped, ExecutionAssumption DEF Replies
<1>2. CASE text =< ResultLimit
  BY <1>1, <1>2 DEF Project, Bounded, ToolResult
<1>3. CASE ~(text =< ResultLimit)
  BY <1>1, <1>3 DEF Project, Bounded, ToolResult
<1> QED
  BY <1>2, <1>3

(* The log grows at its end. *)
LEMMA JournalExtends ==
  ASSUME ToolTypes, NEW e \in Entries, Recorded(e)
  PROVE  /\ Len(journal) \in Nat /\ DOMAIN journal = 1 .. Len(journal)
         /\ DOMAIN journal' = 1 .. Len(journal) + 1
         /\ \A i \in 1 .. Len(journal) : journal'[i] = journal[i]
         /\ journal'[Len(journal) + 1] = e
<1>1. journal \in Seq(Entries) /\ journal' = Append(journal, e)
  BY DEF ToolTypes, Recorded
<1> QED
  BY <1>1, AppendProperties, LenProperties

(* An entry that is no permission permits nothing new. *)
LEMMA NothingAllowed ==
  ASSUME ToolTypes, NEW e \in Entries, Recorded(e),
         e.kind = "policy_decision" => e.decision # "allow",
         NEW c, Permitted(c)'
  PROVE  Permitted(c)
BY JournalExtends DEF Permitted

(* An entry that is no result leaves the results as they are. *)
LEMMA ResultsStay ==
  ASSUME ToolTypes, NEW e \in Entries, Recorded(e), e.kind # "tool_result"
  PROVE  /\ Results' = Results
         /\ \A i \in Results : journal'[i] = journal[i]
BY JournalExtends DEF Results

(* A refusal: what it records is no permission and no result. *)
LEMMA DenyTells ==
  ASSUME ToolInv, TellInv, pc \in {"validate", "decide", "approval"},
         NEW requested \in {"allow", "ask", "deny"},
         NEW status \in {"denied", "invalid", "error"},
         Deny(requested, status), UNCHANGED <<call, shown, envVars>>
  PROVE  TellInv'
<1> DEFINE e == PolicyEvent(requested, "deny")
<1>1. /\ e \in Entries /\ e.kind = "policy_decision" /\ e.call = call
      /\ e.decision = "deny" /\ Recorded(e)
  BY DEF PolicyEvent, Entries, ToolInv, ToolTypes, Deny
<1>2. /\ pc' = "publish" /\ result'.text =< ResultLimit
      /\ UNCHANGED <<call, shown>>
  BY MessageTyped, ProjectTyped DEF Deny
<1>3. ToolTypes
  BY DEF ToolInv
<1> HIDE DEF e
<1>4. DecisionInv' /\ ~Permitted(call)'
  <2>1. ~Permitted(call) /\ \A i \in DOMAIN journal :
          journal[i].call =< call
    BY DEF TellInv, DecisionInv
  <2>2. ~Permitted(call)'
    BY <1>1, <1>2, <1>3, <2>1, NothingAllowed
  <2>3. \A i \in DOMAIN journal' : journal'[i].call =< call'
    BY <1>1, <1>2, <1>3, <2>1, JournalExtends DEF ToolTypes
  <2> QED
    BY <1>2, <2>2, <2>3 DEF DecisionInv
<1>5. ReportInv'
  BY <1>2, <1>4 DEF ReportInv
<1>6. ShownInv'
  BY <1>1, <1>2, <1>3, ResultsStay DEF TellInv, ShownInv
<1> QED
  BY <1>4, <1>5, <1>6 DEF TellInv

(* A permission is no result, and the call goes on. *)
LEMMA AllowTells ==
  ASSUME ToolInv, TellInv, pc \in {"decide", "approval"},
         NEW requested \in {"allow", "ask"}, Allow(requested),
         UNCHANGED <<call, shown, envVars>>
  PROVE  TellInv'
<1> DEFINE e == PolicyEvent(requested, "allow")
<1>1. /\ e \in Entries /\ e.kind = "policy_decision" /\ e.call = call
      /\ Recorded(e)
  BY DEF PolicyEvent, Entries, ToolInv, ToolTypes, Allow
<1>2. /\ pc' = "run" /\ UNCHANGED <<call, shown, result>>
  BY DEF Allow
<1>3. ToolTypes
  BY DEF ToolInv
<1> HIDE DEF e
<1>4. DecisionInv'
  BY <1>1, <1>2, <1>3, JournalExtends DEF TellInv, DecisionInv, ToolTypes
<1>5. ReportInv'
  BY <1>2 DEF TellInv, ReportInv
<1>6. ShownInv'
  BY <1>1, <1>2, <1>3, ResultsStay DEF TellInv, ShownInv
<1> QED
  BY <1>4, <1>5, <1>6 DEF TellInv

(* A step that records nothing and shows nothing, and leaves the place of  *)
(* the call before its decision or within its execution.                   *)
LEMMA QuietTells ==
  ASSUME TellInv, UNCHANGED <<call, journal, shown, result>>,
         pc' \in {"publish", "idle"} => pc' = pc /\ UNCHANGED <<op, reply>>,
         pc = "idle" => pc' = "idle",
         pc' \in {"validate", "decide", "approval"} =>
           pc \in {"validate", "decide", "approval"}
  PROVE  TellInv'
<1>1. Results' = Results /\ \A c : Permitted(c)' <=> Permitted(c)
  BY DEF Results, Permitted
<1>2. ReportInv'
  BY <1>1 DEF TellInv, ReportInv, Reports, Texts, ShowsMessage, CutTexts,
              WholeTexts
<1>3. DecisionInv'
  BY <1>1 DEF TellInv, DecisionInv
<1>4. ShownInv'
  BY <1>1 DEF TellInv, ShownInv
<1> QED
  BY <1>2, <1>3, <1>4 DEF TellInv

(* The result is recorded and shown. *)
LEMMA PublishTells ==
  ASSUME ToolInv, TellInv, Publish
  PROVE  TellInv'
<1> DEFINE e == [kind |-> "tool_result", call |-> call,
                 result |-> Project(result)]
<1>1. /\ pc = "publish" /\ pc' = "idle" /\ Recorded(e)
      /\ shown' = Append(shown, Project(result))
      /\ UNCHANGED <<call, result, op, reply>>
  BY DEF Publish, envVars
<1>2. /\ call \in Nat /\ result \in CallResults /\ ToolTypes
  BY DEF ToolInv, ToolTypes
<1>3. Project(result) = result
  BY <1>2, ProjectOnce DEF TellInv, ReportInv
<1>4. /\ e \in Entries /\ e.kind = "tool_result" /\ e.call = call
      /\ e.result = result
  BY <1>2, <1>3 DEF Entries
<1> HIDE DEF e
<1>5. /\ Len(journal) \in Nat /\ DOMAIN journal = 1 .. Len(journal)
      /\ DOMAIN journal' = 1 .. Len(journal) + 1
      /\ \A i \in 1 .. Len(journal) : journal'[i] = journal[i]
      /\ journal'[Len(journal) + 1] = e
  BY <1>1, <1>2, <1>4, JournalExtends
<1>6. /\ shown \in Seq(CallResults) /\ call > 0 /\ Len(shown) = call - 1
      /\ \A c \in DOMAIN shown : \E i \in Results :
           journal[i].call = c /\ journal[i].result = shown[c]
      /\ \A i \in Results : journal[i].call \in DOMAIN shown
      /\ \A i, j \in Results : i < j => journal[i].call < journal[j].call
  BY <1>1 DEF TellInv, ShownInv
<1>7. /\ DOMAIN shown = 1 .. call - 1
      /\ shown' \in Seq(CallResults) /\ Len(shown') = call
      /\ DOMAIN shown' = 1 .. call
      /\ \A c \in 1 .. call - 1 : shown'[c] = shown[c]
      /\ shown'[call] = result
  <2>1. shown' = Append(shown, result) /\ shown' \in Seq(CallResults)
    BY <1>1, <1>2, <1>3, <1>6, AppendProperties
  <2>2. Len(shown') = call
    BY <1>2, <1>6, <2>1, AppendProperties
  <2>3. DOMAIN shown = 1 .. call - 1 /\ DOMAIN shown' = 1 .. call
    BY <1>2, <1>6, <2>1, <2>2, LenProperties
  <2> QED
    BY <1>2, <1>6, <2>1, <2>2, <2>3, AppendProperties
<1>8. /\ Results' = Results \union {Len(journal) + 1}
      /\ Results \subseteq 1 .. Len(journal)
  BY <1>4, <1>5 DEF Results
<1>9. ReportInv'
  <2>1. Permitted(call)' => Permitted(call)
    BY <1>1, <1>2, <1>4, NothingAllowed
  <2> QED
    BY <1>1, <2>1 DEF TellInv, ReportInv, Reports, Texts, ShowsMessage,
                      CutTexts, WholeTexts
<1>10. DecisionInv'
  BY <1>1, <1>2, <1>4, <1>5 DEF TellInv, DecisionInv, ToolTypes
<1>11. \A c \in DOMAIN shown' : \E i \in Results' :
         journal'[i].call = c /\ journal'[i].result = shown'[c]
  <2> SUFFICES ASSUME NEW c \in 1 .. call
               PROVE  \E i \in Results' :
                        journal'[i].call = c /\ journal'[i].result = shown'[c]
    BY <1>7
  <2>1. CASE c = call
    BY <1>4, <1>5, <1>7, <1>8, <2>1
  <2>2. CASE c # call
    <3>1. c \in DOMAIN shown /\ shown'[c] = shown[c]
      BY <1>2, <1>7, <2>2
    <3> QED
      BY <1>5, <1>6, <1>8, <3>1
  <2> QED
    BY <2>1, <2>2
<1>12. \A i \in Results' : journal'[i].call \in DOMAIN shown'
  BY <1>2, <1>4, <1>5, <1>6, <1>7, <1>8
<1>13. \A i, j \in Results' : i < j => journal'[i].call < journal'[j].call
  <2> SUFFICES ASSUME NEW i \in Results', NEW j \in Results', i < j
               PROVE  journal'[i].call < journal'[j].call
    OBVIOUS
  <2>1. i \in Results
    BY <1>5, <1>8
  <2>2. CASE j \in Results
    BY <1>5, <1>6, <1>8, <2>1, <2>2
  <2>3. CASE j = Len(journal) + 1
    BY <1>2, <1>4, <1>5, <1>6, <1>7, <1>8, <2>1, <2>3
  <2> QED
    BY <1>8, <2>2, <2>3
<1>14. ShownInv'
  BY <1>1, <1>7, <1>11, <1>12, <1>13 DEF ShownInv
<1> QED
  BY <1>9, <1>10, <1>14 DEF TellInv

LEMMA TellKeeps ==
  ASSUME ToolInv, TellInv, [Next]_toolVars
  PROVE  TellInv'
<1>0. ToolTypes
  BY DEF ToolInv
<1>1. CASE BeginCall
  <2> DEFINE e == [kind |-> "tool_call", call |-> call + 1]
  <2>1. /\ pc = "idle" /\ pc' = "validate" /\ call' = call + 1
        /\ Recorded(e) /\ call \in Nat
        /\ UNCHANGED <<result, shown>>
    BY <1>0, <1>1 DEF BeginCall, ToolTypes
  <2>2. e \in Entries /\ e.kind = "tool_call" /\ e.call = call + 1
    BY <2>1 DEF Entries
  <2> HIDE DEF e
  <2>3. /\ \A i \in DOMAIN journal : journal[i].call =< call
        /\ \A i \in DOMAIN journal : journal[i] \in Entries
    BY <1>0 DEF TellInv, DecisionInv, ToolTypes
  <2>4. \A i \in DOMAIN journal : journal[i].call \in Nat
    BY <2>3 DEF Entries
  <2>5. /\ \A i \in DOMAIN journal' : journal'[i].call =< call + 1
        /\ \A i \in DOMAIN journal' :
             journal'[i].kind = "policy_decision" =>
               journal'[i].call # call + 1
    BY <1>0, <2>1, <2>2, <2>3, <2>4, JournalExtends
  <2>6. DecisionInv'
    BY <2>1, <2>5 DEF DecisionInv, Permitted
  <2>7. ReportInv'
    BY <1>0, <2>1 DEF TellInv, ReportInv
  <2>8. ShownInv'
    BY <1>0, <2>1, <2>2, ResultsStay DEF TellInv, ShownInv
  <2> QED
    BY <2>6, <2>7, <2>8 DEF TellInv
<1>2. CASE Validate
  <2>1. pc = "validate" /\ UNCHANGED <<call, shown, envVars>>
    BY <1>2 DEF Validate
  <2>2. UNCHANGED <<op, reply>>
    BY <2>1 DEF envVars
  <2>3. CASE pc' = "decide" /\ UNCHANGED <<journal, result>>
    BY <1>0, <2>1, <2>2, <2>3, QuietTells
  <2>4. CASE Deny("deny", "invalid") \/ Deny("deny", "error")
    BY <2>1, <2>4, DenyTells
  <2> QED
    BY <1>2, <2>3, <2>4 DEF Validate
<1>3. CASE Decide
  <2>1. pc = "decide" /\ UNCHANGED <<call, shown, envVars>>
    BY <1>3 DEF Decide
  <2>2. UNCHANGED <<op, reply>>
    BY <2>1 DEF envVars
  <2>3. CASE Allow("allow")
    BY <2>1, <2>3, AllowTells
  <2>4. CASE Deny("deny", "denied")
    BY <2>1, <2>4, DenyTells
  <2>5. CASE pc' = "approval" /\ UNCHANGED <<journal, result>>
    BY <1>0, <2>1, <2>2, <2>5, QuietTells
  <2> QED
    BY <1>3, <2>3, <2>4, <2>5 DEF Decide
<1>4. CASE Approval
  <2>1. pc = "approval" /\ UNCHANGED <<call, shown, envVars>>
    BY <1>4 DEF Approval
  <2>2. Allow("ask") \/ Deny("ask", "denied")
    BY <1>4 DEF Approval, Answer
  <2> QED
    BY <2>1, <2>2, AllowTells, DenyTells
<1>5. CASE RunTool
  <2>1. /\ pc = "run" /\ pc' = "running"
        /\ UNCHANGED <<call, journal, shown, result>>
    BY <1>5 DEF RunTool
  <2> QED
    BY <2>1, QuietTells
<1>6. CASE ToolReturns
  <2>1. /\ pc = "running" /\ pc' = "publish"
        /\ UNCHANGED <<call, journal, shown, op, reply>>
    BY <1>6 DEF ToolReturns, envVars
  <2>2. reply \in Replies
    BY DEF ToolInv, EnvInv, EnvTypes
  <2>3. Reports' /\ result'.text =< ResultLimit
    <3>1. PICK text \in Texts(reply) :
            result' = Project(ToolResult(reply.status, text, reply.full,
                                         reply.cut))
      BY <1>6 DEF ToolReturns
    <3>2. /\ ~result'.cut => /\ ~reply.cut /\ result'.full = reply.full
                             /\ result'.text \in Texts(reply)
          /\ result'.cut => reply.cut \/ result'.text = ResultLimit
          /\ result'.full >= reply.full /\ result'.text =< ResultLimit
      BY <2>2, <3>1, ProjectReports
    <3>3. Texts(reply)' = Texts(reply)
      BY <2>1 DEF Texts, ShowsMessage, CutTexts, WholeTexts
    <3> QED
      BY <2>1, <3>2, <3>3 DEF Reports
  <2>4. Results' = Results /\ \A c : Permitted(c)' <=> Permitted(c)
    BY <2>1 DEF Results, Permitted
  <2>5. ReportInv'
    BY <2>1, <2>3 DEF ReportInv
  <2>6. DecisionInv'
    BY <2>1, <2>4 DEF TellInv, DecisionInv
  <2>7. ShownInv'
    BY <2>1, <2>4 DEF TellInv, ShownInv
  <2> QED
    BY <2>5, <2>6, <2>7 DEF TellInv
<1>7. CASE Publish
  BY <1>7, PublishTells
<1>8. CASE Environment
  <2>1. OperationStep /\ UNCHANGED <<call, pc, journal, result, shown>>
    BY <1>8 DEF Environment, execution
  <2>2. at # "idle" => WithinOp
    BY DEF ToolInv, EffectInv
  <2>3. pc = "running"
    BY <2>1, <2>2, OperationKeeps DEF ToolInv, EffectInv
  <2> QED
    BY <2>1, <2>3, QuietTells
<1>9. CASE SetMode \/ UNCHANGED toolVars
  <2>1. UNCHANGED <<call, pc, journal, result, shown, op, reply>>
    BY <1>9 DEF SetMode, execution, toolVars, envVars
  <2> QED
    BY <1>0, <2>1, QuietTells
<1>10. CASE Surroundings
  <2>1. /\ Close \/ FinishClose \/ WorldStep
        /\ UNCHANGED <<call, pc, journal, result, shown>>
    BY <1>10 DEF Surroundings, execution
  <2>2. UNCHANGED <<op, reply>>
    BY <2>1 DEF Close, FinishClose, CloseSnapshot, CloseTerminate, CloseKill,
                WorldStep, Cancel, Expire, LeaderExits, ChildExits
  <2> QED
    BY <1>0, <2>1, <2>2, QuietTells
<1> QED
  BY <1>1, <1>2, <1>3, <1>4, <1>5, <1>6, <1>7, <1>8, <1>9, <1>10
     DEF Next, Execute

LEMMA TellStart == ExecutionInit => TellInv
<1> SUFFICES ASSUME ExecutionInit PROVE TellInv
  OBVIOUS
<1>1. /\ call = 0 /\ pc = "idle" /\ result = ToolResult("none", 0, 0, FALSE)
      /\ journal = <<>> /\ shown = <<>>
  BY DEF ExecutionInit, EnvironmentInit
<1>2. DOMAIN journal = {} /\ Results = {} /\ DOMAIN shown = {}
      /\ Len(shown) = 0 /\ shown \in Seq(CallResults)
  BY <1>1 DEF Results
<1>3. ReportInv /\ DecisionInv /\ ShownInv
  BY <1>1, <1>2, ExecutionAssumption
     DEF ReportInv, DecisionInv, ShownInv, ToolResult, Permitted
<1> QED
  BY <1>3 DEF TellInv

(* Whatever any tool of any call returns and however long its text is: a   *)
(* result that is not reported as truncated holds all of the text, and the *)
(* count, of what the environment returned uncut; a reported length is no  *)
(* smaller than that count; and the log and the conversation hold the same *)
(* results, call by call (builtins.py, _result_text; output.py,            *)
(* from_result; executor.py, _normalize_result and _result_event).         *)
THEOREM TruncationTold == ToolSpec => []TruncationReported
<1>1. ToolInv /\ TellInv => TruncationReported
  BY DEF TellInv, ReportInv, ShownInv, Reports, TruncationReported
<1> QED
  BY <1>1, ToolStart, ToolKeeps, TellStart, TellKeeps, PTL DEF ToolSpec

=============================================================================

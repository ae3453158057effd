-------------------------- MODULE SessionRecovery --------------------------
(***************************************************************************)
(* A session across process lives (assembly.py: recover_session_plan and   *)
(* the resume branch of build_agent_backend).  The loop is the module      *)
(* AgentLoop; its process may end between any two steps, and what the next *)
(* one knows it rebuilds from the log.                                     *)
(*                                                                         *)
(* The log is the sequence of complete records.  A record cut by the crash *)
(* is discarded before the store is opened again, so it leaves no trace    *)
(* here; and a crash just after a record also stands for an append that    *)
(* wrote its record and then failed, since nothing but best-effort events  *)
(* follows a failed append.                                                *)
(***************************************************************************)
EXTENDS AgentLoop

CONSTANTS
  KeepRecentGroups,  \* ContextBuilder.keep_recent_groups
  MaxCrashes         \* bound: ends of the process

ASSUME RecoveryAssumption ==
  KeepRecentGroups \in Nat \ {0} /\ MaxCrashes \in Nat

VARIABLES
  alive,    \* a process runs the session
  crashes,  \* ends of the process so far
  cut,      \* covered_ and degraded_through_sequence
  ledger    \* what the log says of the budget

recoveryVars == <<alive, crashes, cut, ledger>>
sessionVars == <<vars, recoveryVars>>

NoSnapshot == <<>>

RecoveryInit ==
  /\ Init
  /\ alive = TRUE /\ crashes = 0
  /\ cut = [covered |-> 0, degraded |-> 0]
  /\ ledger = [snapshot |-> NoSnapshot, results |-> 0, errors |-> 0]

-----------------------------------------------------------------------------
(***************************************************************************)
(* Message groups: an assistant message with the results of all the calls  *)
(* it declared, or any other message alone.                                *)
(***************************************************************************)

(* Sequences of the assistant messages recorded before sequence s. *)
AssistantsBefore(s) ==
  {i \in 1 .. (s - 1) : log[i].type = "assistant_message"}

(* The calls a message declares. *)
Calls(m) ==
  IF m.role # "assistant" THEN {}
  ELSE {c \in 1 .. m.call : \A i \in AssistantsBefore(m.sequence) :
                              c > log[i].call}

(* The positions of the messages that open a group. *)
Heads(ctx) == {k \in DOMAIN ctx : ctx[k].role # "tool"}

(* The positions of the results that directly follow position k. *)
Answers(ctx, k) ==
  {j \in (k + 1) .. Len(ctx) : \A i \in (k + 1) .. j : ctx[i].role = "tool"}

Answered(ctx, k) == {ctx[j].call : j \in Answers(ctx, k)}

(* Every call has one result, and no result is foreign to the group. *)
Whole(ctx, k) ==
  /\ Answered(ctx, k) = Calls(ctx[k])
  /\ Cardinality(Answers(ctx, k)) = Cardinality(Calls(ctx[k]))

(* A last group whose results are incomplete. *)
Open(ctx, k) ==
  /\ Answered(ctx, k) \subseteq Calls(ctx[k]) /\ ~Whole(ctx, k)
  /\ k + Cardinality(Answers(ctx, k)) = Len(ctx)

(* The sequence of the last message of the group at k. *)
EndOf(ctx, k) == ctx[k + Cardinality(Answers(ctx, k))].sequence

(* Mutant of Groupable: a trailing open group is refused like any other. *)
GroupableOnlyWhole(ctx) ==
  /\ ctx # <<>> => 1 \in Heads(ctx)
  /\ \A k \in Heads(ctx) : Whole(ctx, k)

(* _complete_message_groups raises unless only the last group is open. *)
Groupable(ctx) ==
  /\ ctx # <<>> => 1 \in Heads(ctx)
  /\ \A k \in Heads(ctx) : Whole(ctx, k) \/ Open(ctx, k)

(* Mutant of WholeGroups: the open group is kept. *)
AllGroups(ctx) == ctx

(* What _complete_message_groups returns: an open last group is dropped. *)
WholeGroups(ctx) ==
  LET open == {k \in Heads(ctx) : ~Whole(ctx, k)}
  IN  IF open = {} THEN ctx
      ELSE SubSeq(ctx, 1, (CHOOSE k \in open : TRUE) - 1)

(* Messages up to this sequence are represented by a summary or a notice. *)
Cutoff == IF cut.covered > cut.degraded THEN cut.covered ELSE cut.degraded

-----------------------------------------------------------------------------
(* A step of the loop, and what it leaves in the log for a later resume.   *)

(***************************************************************************)
(* A compaction plan is a prefix of the groups not summarised yet, and     *)
(* leaves the most recent ones; the compactor may take fewer of them.      *)
(***************************************************************************)
Planned(k) ==
  /\ k \in Heads(context) /\ EndOf(context, k) > cut.covered
  /\ Cardinality({j \in Heads(context) : j > k})
       >= (IF forced THEN 1 ELSE KeepRecentGroups)

(* A successful compaction replaces the fallback of a failed one. *)
CutAt(k, status) ==
  LET last == EndOf(context, k)
  IN  IF status = "success" THEN [covered |-> last, degraded |-> 0]
      ELSE [cut EXCEPT !.degraded = IF last > @ THEN last ELSE @]

(***************************************************************************)
(* The budget as the log tells it: the newest snapshot, the results of     *)
(* calls that were not skipped, and the last count of protocol errors.     *)
(***************************************************************************)
Charge(e) ==
  CASE e.type \in {"turn_end", "agent_end", "session_end"} ->
         [ledger EXCEPT !.snapshot = budget]
    [] e.type = "tool_result" /\ pc # "skip_result" ->
         [ledger EXCEPT !.results = @ + 1]
    [] e.type = "error" /\ e.info = "recoverable" ->
         [ledger EXCEPT !.errors = protocolErrors']
    [] OTHER -> ledger

Run ==
  /\ alive /\ Next
  /\ LET recorded == Len(log') > Len(log)
         e == log'[Len(log')]
     IN  \/ ~recorded /\ UNCHANGED <<cut, ledger>>
         \/ /\ recorded /\ ledger' = Charge(e)
            /\ \/ e.type # "compaction" /\ UNCHANGED cut
               \/ /\ e.type = "compaction"
                  /\ \E k \in DOMAIN context :
                       Planned(k) /\ cut' = CutAt(k, e.info)
  /\ UNCHANGED <<alive, crashes>>

-----------------------------------------------------------------------------
(* The end of a process, and the next one. *)

(* The variables keep what the process knew; nothing reads it any more. *)
Crash ==
  /\ alive /\ crashes < MaxCrashes
  /\ alive' = FALSE /\ crashes' = crashes + 1
  /\ UNCHANGED <<vars, cut, ledger>>

(* The position of the n-th of the positions s. *)
Nth(s, n) == CHOOSE j \in s : Cardinality({i \in s : i < j}) = n - 1

(* The messages of the log behind sequence n. *)
MessagesAfter(n) ==
  LET kept == {i \in DOMAIN log : RoleOf(log[i]) # "none" /\ i > n}
      At(i) == Message(RoleOf(log[i]), log[i].call, i)
  IN  [k \in 1 .. Cardinality(kept) |-> At(Nth(kept, k))]

(* Mutant of Recorded: what a failed compaction left out comes back. *)
RecordedOmitted == MessagesAfter(cut.covered)

(* The messages of the log that no summary or notice stands for. *)
Recorded == MessagesAfter(Cutoff)

(* recover_session_plan raises without a root agent_start. *)
Resumable ==
  /\ \E i \in DOMAIN log : log[i].type = "agent_start"
  /\ Groupable(Recorded)

(* Mutant of Restored: recounted work is added to the snapshot. *)
RestoredTwice ==
  LET steps == Cardinality(AssistantsBefore(Len(log) + 1))
  IN  IF ledger.snapshot = NoSnapshot
        THEN <<steps, ledger.results, ledger.errors>>
        ELSE [ledger.snapshot EXCEPT ![1] = @ + steps]

(* _budget_from_events: the newest snapshot, else what can be counted. *)
Restored ==
  IF ledger.snapshot # NoSnapshot THEN ledger.snapshot
  ELSE <<Cardinality(AssistantsBefore(Len(log) + 1)),
         ledger.results, ledger.errors>>

(* Mutant of Fresh: the calls without a result are executed again. *)
FreshButPending ==
  /\ IF Pending
       THEN pc' = "execute" /\ turnActive' = TRUE /\ UNCHANGED head
       ELSE pc' = "idle" /\ turnActive' = FALSE /\ head' = issued + 1
  /\ exit' = "none" /\ state' = "RUNNING"
  /\ sessionStarted' = FALSE /\ sessionClosed' = FALSE /\ envStarted' = FALSE
  /\ expired' = FALSE /\ cancelled' = FALSE /\ storeFailed' = FALSE
  /\ outcome' = [status |-> "success", raised |-> "none"]
  /\ reply' = "none" /\ forced' = FALSE /\ attempts' = 0

(* A new runtime, executor and store: nothing pending, no signal. *)
Fresh ==
  /\ pc' = "idle" /\ exit' = "none" /\ state' = "RUNNING"
  /\ turnActive' = FALSE /\ head' = issued + 1
  /\ sessionStarted' = FALSE /\ sessionClosed' = FALSE /\ envStarted' = FALSE
  /\ expired' = FALSE /\ cancelled' = FALSE /\ storeFailed' = FALSE
  /\ outcome' = [status |-> "success", raised |-> "none"]
  /\ reply' = "none" /\ forced' = FALSE /\ attempts' = 0

Resume ==
  /\ ~alive /\ Resumable
  /\ alive' = TRUE
  /\ Fresh
  /\ context' = WholeGroups(Recorded)
  /\ modelSteps' = Restored[1] /\ toolCalls' = Restored[2]
  /\ protocolErrors' = Restored[3]
  /\ UNCHANGED <<log, issued, executed, turns, crashes, cut, ledger>>

RecoveryNext == Run \/ Crash \/ Resume

RecoverySpec == RecoveryInit /\ [][RecoveryNext]_sessionVars

(* For the model checker: in later lives nothing interrupts or fails a     *)
(* turn, the deadline does not pass, no request is retried and no call is  *)
(* put to the user.                                                        *)
Quiet ==
  /\ ~cancelled /\ ~expired /\ exit \notin {"interrupted", "failed"}
  /\ ~forced /\ pc # "waiting"

LivesSpec ==
  RecoveryInit
  /\ [][RecoveryNext /\ (crashes > 0 /\ alive' => Quiet')]_sessionVars

-----------------------------------------------------------------------------
(* Properties. *)

RecoveryTypeOK ==
  /\ TypeOK
  /\ alive \in BOOLEAN /\ crashes \in 0 .. MaxCrashes
  /\ cut \in [covered : Nat, degraded : Nat]
  /\ DOMAIN ledger = {"snapshot", "results", "errors"}
  /\ ledger.snapshot = NoSnapshot \/ ledger.snapshot \in Nat \X Nat \X Nat
  /\ ledger.results \in Nat /\ ledger.errors \in Nat

(* "Restore the session ... and let the user continue" (requirements       *)
(* baseline, FR-19): a session that has heard its user can be resumed,     *)
(* wherever its process ended.                                             *)
EverySessionResumable ==
  ~alive /\ (\E i \in DOMAIN log : log[i].type = "user_message") => Resumable

(* What holds of it: the first end of the process does no harm. *)
ResumableOnce == crashes < 2 => EverySessionResumable

(* The head of the group position j belongs to. *)
HeadOf(ctx, j) ==
  CHOOSE k \in Heads(ctx) :
    k =< j /\ \A i \in Heads(ctx) : i =< j => i =< k

(* What the process would have sent to the model next: the groups that end *)
(* after the cutoff (_effective_groups), less one that is still open.      *)
View ==
  LET whole == WholeGroups(context)
      kept == {j \in DOMAIN whole :
                 EndOf(whole, HeadOf(whole, j)) > Cutoff}
  IN  [n \in 1 .. Cardinality(kept) |-> whole[Nth(kept, n)]]

(* A context rebuilt from the log is the view that was lost with the       *)
(* process, also when earlier lives of the session ended in the middle of  *)
(* a group and compactions were made before and after.                     *)
ResumeRestoresView == [][~alive /\ alive' => context' = View]_sessionVars

(* The assistant messages of turns that completed. *)
CompletedAnswers ==
  {i \in AssistantsBefore(Len(log) + 1) :
     \E j \in (i + 1) .. Len(log) :
       /\ log[j] = Event("turn_end", 0, "COMPLETED_TURN")
       /\ \A k \in (i + 1) .. j : log[k].type # "session_start"}

(* The restored budget charges nothing that was not done, and everything   *)
(* that was answered in turns that completed: only the work of a turn cut  *)
(* short may be forgotten.                                                 *)
BudgetSurvives ==
  [][~alive /\ alive' =>
       /\ modelSteps' =< modelSteps /\ toolCalls' =< toolCalls
       /\ modelSteps' >= Cardinality(CompletedAnswers)]_sessionVars

(* A tool with side effects is dispatched once for its call, whatever      *)
(* lives the session goes through: resuming replays nothing.               *)
NothingReplayed ==
  [][alive /\ pc = "execute" /\ pc' # "execute" => head \notin executed]_vars

(* Every request has each declared call followed by all of its results,    *)
(* which the provider insists on, also after a resume that dropped a call. *)
RequestsWellFormed ==
  alive /\ pc = "request" =>
    /\ Groupable(context)
    /\ \A k \in Heads(context) : Whole(context, k)
=============================================================================

---------------------------- MODULE ModelRequest ----------------------------
(***************************************************************************)
(* How one model request is prepared and made: the context projection      *)
(* (context.py), its incremental compaction (compactor.py and              *)
(* agent_loop.py, _compact_once and _prepare_context), the retries of the  *)
(* model client (model_client.py, complete) and the one forced compaction  *)
(* after a context overflow (agent_loop.py, _complete_model_request).      *)
(*                                                                         *)
(* The conversation is a sequence of message groups, a group being what    *)
(* group_messages never splits; a group is its size in tokens, and its     *)
(* place stands for the sequence number it ends with.  What the summary is *)
(* about is kept beside it, so that a group that is nowhere to be found    *)
(* can be noticed.  What the service answers is a choice.                  *)
(***************************************************************************)
EXTENDS Integers, Sequences, FiniteSets

CONSTANTS
  Window,          \* context_window
  Trigger,         \* trigger_tokens
  Fixed,           \* system prompt, tool schemas and reserved output
  SourceFixed,     \* prompt, instruction and reserve of a compaction
  Quote,           \* what quoting adds to a group in a compaction source
  Notice,          \* size of DEGRADED_CONTEXT_NOTICE
  GroupSizes,      \* bound: sizes a message group may have
  SummarySizes,    \* bound: sizes a summary may have
  KeepRecent,      \* keep_recent_groups
  MaxCompactions,  \* max_compactions_per_request
  MaxAttempts,     \* RetryPolicy.max_attempts
  MaxGroups,       \* bound: groups in the conversation
  MaxResumes       \* bound: how often the session is resumed

(* What the constructors insist on. *)
ContextConfigured ==
  /\ Window \in Nat \ {0} /\ Fixed \in 0 .. Window - 1
  /\ Trigger \in 1 .. Window /\ KeepRecent \in Nat \ {0}
CompactorConfigured ==
  /\ SourceFixed \in 0 .. Window - 1 /\ Quote \in Nat /\ Notice \in Nat
  /\ GroupSizes \subseteq Nat \ {0} /\ SummarySizes \subseteq Nat \ {0}
RetryConfigured == MaxAttempts \in Nat \ {0} /\ MaxCompactions \in Nat \ {0}

ASSUME RequestAssumption ==
  /\ ContextConfigured /\ CompactorConfigured /\ RetryConfigured
  /\ MaxGroups \in Nat /\ MaxResumes \in Nat

VARIABLES
  pc,           \* control point of _complete_model_request
  groups,       \* the groups of the conversation, as the log has them
  first,        \* the oldest group still in recent_messages
  context,      \* summary, cutoffs and notice of ContextState
  saved,        \* previous_projection_state of _compact_once
  logged,       \* the same, as the recorded compactions restore it
  source,       \* the groups the compaction under way is about
  forced,       \* the request is repeated after an overflow
  compactions,  \* compactions begun for this request
  attempt,      \* sends of the model call under way
  sends,        \* sends made for this request
  late,         \* those of them made after a stop was asked for
  stop,         \* what keeps the loop from going on, or "none"
  storeFailed,  \* the store refuses every further append
  resumes       \* resumes so far

call  == <<source, forced, compactions, attempt, sends, late>>
memory == <<first, context, saved>>
vars == <<pc, groups, memory, logged, call, stop, storeFailed, resumes>>

NoSummary == [tokens |-> 0, about |-> {}]

EmptyContext ==
  [summary |-> NoSummary, covered |-> 0, degraded |-> 0, notice |-> FALSE]

Contexts ==
  [summary : [tokens : Nat, about : SUBSET (Nat \ {0})],
   covered : Nat, degraded : Nat, notice : BOOLEAN]

RequestInit ==
  /\ pc = "idle" /\ groups = <<>>
  /\ first = 1 /\ context = EmptyContext /\ saved = EmptyContext
  /\ logged = EmptyContext
  /\ source = {} /\ forced = FALSE /\ compactions = 0
  /\ attempt = 0 /\ sends = 0 /\ late = 0
  /\ stop = "none" /\ storeFailed = FALSE /\ resumes = 0

-----------------------------------------------------------------------------
(* Sizes and the projection.                                               *)

Greater(a, b) == IF a > b THEN a ELSE b

(* The tokens of the groups g: each is its group and its place in it. *)
Tokens(g) == UNION {{i} \X (1 .. groups[i]) : i \in g}

SizeOf(g) == Cardinality(Tokens(g))

Cutoff(c) == Greater(c.covered, c.degraded)

(* The groups a request carries in full. *)
Effective(c) == {i \in DOMAIN groups : i >= first /\ i > Cutoff(c)}

ProjectionSize(c) ==
  Fixed + c.summary.tokens + (IF c.notice THEN Notice ELSE 0)
    + SizeOf(Effective(c))

NeedsCompaction(c) == ProjectionSize(c) > Trigger
FitsWindow(c) == ProjectionSize(c) =< Window

(* Mutant of Retained: a forced compaction takes every group. *)
RetainedUnlessForced == IF forced THEN 0 ELSE KeepRecent

(* How many of the newest groups a compaction must leave alone. *)
Retained == IF forced THEN 1 ELSE KeepRecent

(* Mutant of Plan: groups already left out as degraded are given up. *)
PlanAfterCutoff ==
  {i \in Effective(context) : i =< Len(groups) - Retained}

(* The prefix that may be summarised.  What a failed compaction left out   *)
(* of the requests is in it again.                                         *)
Plan ==
  {i \in DOMAIN groups : i >= first /\ i > context.covered
                         /\ i =< Len(groups) - Retained}

(* Size of the request that summarises g. *)
SourceSize(g) ==
  SourceFixed + context.summary.tokens + SizeOf(g) + Quote * Cardinality(g)

(* The groups of the plan before the first one that does not fit. *)
Bounded(plan) ==
  {i \in plan : SourceSize({j \in plan : j =< i}) =< Window}

Smallest(g) == CHOOSE i \in g : \A j \in g : i =< j
Largest(g) == CHOOSE i \in g : \A j \in g : i >= j

-----------------------------------------------------------------------------
(* Publication, and the ways out.                                          *)

Record == ~storeFailed /\ UNCHANGED storeFailed
Refuse == storeFailed' = TRUE

Raise == pc' = "raised"

(* Mutant of Allowed: the deadline is checked between turns only. *)
AllowedAfterDeadline == stop # "interrupted"

(* Whether the loop may still prepare a request. *)
Allowed == stop = "none"

(* The context after a summary of the source. *)
Summarised(tokens) ==
  [summary  |-> [tokens |-> tokens,
                 about  |-> context.summary.about \cup source],
   covered  |-> Largest(source), degraded |-> 0, notice |-> FALSE]

(* The context after a compaction that failed: its source, which ends with *)
(* the group through, is left out, and the model is told.                  *)
Degraded(through) ==
  [summary  |-> context.summary, covered |-> context.covered,
   degraded |-> Greater(context.degraded, through), notice |-> TRUE]

-----------------------------------------------------------------------------
(* Actions.                                                                *)

(* The conversation goes on: a task, an answer, a call with its results. *)
AddGroup(size) ==
  /\ pc = "idle" /\ Len(groups) < MaxGroups
  /\ groups' = Append(groups, size)
  /\ UNCHANGED <<pc, memory, logged, call, stop, storeFailed, resumes>>

Begin ==
  /\ pc = "idle" /\ groups # <<>> /\ ~storeFailed
  /\ pc' = "prepare"
  /\ source' = {} /\ forced' = FALSE /\ compactions' = 0
  /\ attempt' = 0 /\ sends' = 0 /\ late' = 0
  /\ UNCHANGED <<groups, memory, logged, stop, storeFailed, resumes>>

(* Begin the compaction of the next prefix, unless there is none. *)
Compact ==
  /\ Plan # {}
  /\ compactions' = compactions + 1 /\ saved' = context
  /\ IF Bounded(Plan) # {}
       THEN /\ source' = Bounded(Plan) /\ pc' = "summary" /\ attempt' = 0
            /\ UNCHANGED context
       ELSE /\ source' = {Smallest(Plan)} /\ pc' = "publish"
            /\ context' = Degraded(Smallest(Plan))
            /\ UNCHANGED attempt
  /\ UNCHANGED <<first, forced, sends, late>>

(* Mutant of Settle: the last projection is not measured again. *)
SettleUnchecked == pc' = "send" /\ UNCHANGED <<memory, call>>

(* Mutant of Settle: one that is too large is tried again. *)
SettleAgain ==
  /\ pc' = IF FitsWindow(context) THEN "send" ELSE pc
  /\ UNCHANGED <<memory, call>>

(* The projection is used if it fits the window, whatever the trigger. *)
Settle ==
  /\ pc' = IF FitsWindow(context) THEN "send" ELSE "raised"
  /\ UNCHANGED <<memory, call>>

(* One round of _prepare_context. *)
Prepare ==
  /\ pc = "prepare"
  /\ \/ ~Allowed /\ Raise /\ UNCHANGED <<memory, call>>
     \/ /\ Allowed /\ ~forced /\ ~NeedsCompaction(context)
        /\ pc' = "send" /\ UNCHANGED <<memory, call>>
     \/ /\ Allowed /\ ~forced /\ NeedsCompaction(context)
        /\ compactions = MaxCompactions
        /\ Raise /\ UNCHANGED <<memory, call>>
     \/ /\ Allowed
        /\ \/ forced
           \/ NeedsCompaction(context) /\ compactions < MaxCompactions
        /\ \/ Compact
           \/ Plan = {} /\ Settle
  /\ UNCHANGED <<groups, logged, stop, storeFailed, resumes>>

-----------------------------------------------------------------------------
(* The model client: one call is a bounded number of sends.                *)

(* What the classification of a failure looks at. *)
Failures ==
  [signal : BOOLEAN,  \* code or body speaks of the context window
   type   : {"authentication", "permission", "not_found", "rate_limit",
             "connection", "timeout", "network", "other"},
   status : {0, 400, 401, 413, 429, 500, 501}]  \* 0: no status

(* The category of a failure, in the order _classify_exception tests. *)
Category(f) ==
  CASE f.signal -> "context_overflow"
    [] ~f.signal /\ f.type \in {"authentication", "permission", "not_found"}
         -> "fatal"
    [] ~f.signal /\ f.type \in {"rate_limit", "connection"} -> "retryable"
    [] OTHER ->
         IF f.status \in {429, 500} THEN "retryable"
         ELSE IF f.status = 413 THEN "context_overflow"
         ELSE IF f.status = 0 \/ f.status = 400
           THEN IF f.type \in {"timeout", "network"} THEN "retryable"
                ELSE "fatal"
         ELSE "fatal"

Categories == {Category(f) : f \in Failures}

Calling == pc \in {"summary", "request"}

CountSend ==
  /\ attempt' = attempt + 1 /\ sends' = sends + 1
  /\ late' = IF stop = "none" THEN late ELSE late + 1
  /\ UNCHANGED <<source, forced, compactions>>

(* A compaction attempt that failed, however it did. *)
CompactionFails ==
  /\ context' = Degraded(Largest(source)) /\ pc' = "publish"
  /\ UNCHANGED <<first, saved>>

(* The call under way ends with an error of this category. *)
CallFails(category) ==
  IF pc = "summary" THEN CompactionFails
  ELSE /\ pc' = IF category = "context_overflow" /\ ~forced
                  THEN "overflow" ELSE "raised"
       /\ UNCHANGED memory

(* A transient failure is recorded as a retry event and slept out.  A store *)
(* that refuses the event ends the call.                                   *)
SendRetry ==
  /\ Calling /\ attempt + 1 < MaxAttempts
  /\ "retryable" \in Categories
  /\ CountSend
  /\ \/ Record /\ UNCHANGED <<pc, memory>>
     \/ Refuse /\ CallFails("fatal")
  /\ UNCHANGED <<groups, logged, stop, resumes>>

(* A failure that is final, or one whose delay cannot be slept. *)
SendFails(category) ==
  /\ Calling /\ attempt < MaxAttempts
  /\ CountSend
  /\ category = "retryable" => attempt + 1 = MaxAttempts
  /\ CallFails(category)
  /\ UNCHANGED <<groups, logged, stop, storeFailed, resumes>>

(* A summary arrives; one with tool calls or without text is a failure. *)
SummaryArrives ==
  /\ pc = "summary" /\ attempt < MaxAttempts
  /\ CountSend
  /\ \/ \E tokens \in SummarySizes : context' = Summarised(tokens)
     \/ context' = Degraded(Largest(source))
  /\ pc' = "publish"
  /\ UNCHANGED <<groups, first, saved, logged, stop, storeFailed, resumes>>

(* The answer to the request arrives. *)
AnswerArrives ==
  /\ pc = "request" /\ attempt < MaxAttempts
  /\ CountSend
  /\ pc' = "idle"
  /\ UNCHANGED <<groups, memory, logged, stop, storeFailed, resumes>>


-----------------------------------------------------------------------------
(* The steps between the calls.                                            *)

(* Mutant of Publish: the change is kept although its event was refused. *)
PublishKeeping ==
  /\ pc = "publish"
  /\ \/ Record /\ logged' = context
        /\ pc' = IF forced \/ context.notice THEN "settle" ELSE "prepare"
     \/ Refuse /\ Raise /\ UNCHANGED logged
  /\ saved' = EmptyContext /\ source' = {}
  /\ UNCHANGED <<groups, first, context, forced, compactions, attempt>>
  /\ UNCHANGED <<sends, late, stop, resumes>>

(* The compaction event.  Once a summary is recorded the projection is     *)
(* measured again; after a failure, or in the forced round, it must do.    *)
(* A refused event restores the projection the compaction has changed.     *)
Publish ==
  /\ pc = "publish"
  /\ \/ /\ Record
        /\ logged' = context
        /\ pc' = IF forced \/ context.notice THEN "settle" ELSE "prepare"
        /\ UNCHANGED context
     \/ /\ Refuse /\ Raise
        /\ context' = saved
        /\ UNCHANGED logged
  /\ saved' = EmptyContext /\ source' = {}
  /\ UNCHANGED <<groups, first, forced, compactions, attempt, sends, late>>
  /\ UNCHANGED <<stop, resumes>>

SettleContext ==
  /\ pc = "settle"
  /\ \/ ~Allowed /\ Raise /\ UNCHANGED <<memory, call>>
     \/ Allowed /\ Settle
  /\ UNCHANGED <<groups, logged, stop, storeFailed, resumes>>

(* The last check, and the call of the model client. *)
Send ==
  /\ pc = "send"
  /\ pc' = IF Allowed THEN "request" ELSE "raised"
  /\ attempt' = 0
  /\ UNCHANGED <<source, forced, compactions, sends, late>>
  /\ UNCHANGED <<groups, memory, logged, stop, storeFailed, resumes>>

(* After the first overflow: a retry event, and a forced preparation. *)
RetryOverflow ==
  /\ pc = "overflow"
  /\ \/ Record /\ forced' = TRUE /\ pc' = "prepare"
     \/ Refuse /\ Raise /\ UNCHANGED forced
  /\ UNCHANGED <<source, compactions, attempt, sends, late>>
  /\ UNCHANGED <<groups, memory, logged, stop, resumes>>

(* Another thread cancels, or the deadline passes. *)
Stop ==
  /\ stop = "none" /\ pc # "raised"
  /\ stop' \in {"interrupted", "wall_time"}
  /\ UNCHANGED <<pc, groups, memory, logged, call, storeFailed, resumes>>

(* The process ends, at any point, and the session is resumed: the context *)
(* is rebuilt from the log, with the messages behind both cutoffs only.    *)
Resume ==
  /\ resumes < MaxResumes
  /\ context' = logged /\ saved' = EmptyContext
  /\ first' = Cutoff(logged) + 1
  /\ pc' = "idle" /\ stop' = "none" /\ storeFailed' = FALSE
  /\ source' = {} /\ forced' = FALSE /\ compactions' = 0
  /\ attempt' = 0 /\ sends' = 0 /\ late' = 0
  /\ resumes' = resumes + 1
  /\ UNCHANGED <<groups, logged>>

RequestStep ==
  \/ Prepare
  \/ SendRetry
  \/ \E category \in Categories : SendFails(category)
  \/ SummaryArrives
  \/ AnswerArrives
  \/ Publish
  \/ SettleContext
  \/ Send
  \/ RetryOverflow

RequestNext ==
  \/ \E size \in GroupSizes : AddGroup(size)
  \/ Begin
  \/ RequestStep
  \/ Stop
  \/ Resume

RequestSpec == RequestInit /\ [][RequestNext]_vars

(* The loop runs on, and a call of the service returns or times out. *)
RequestFairSpec == RequestSpec /\ WF_vars(RequestStep)

-----------------------------------------------------------------------------
(* Properties.                                                             *)

ControlPoints ==
  {"idle", "prepare", "summary", "publish", "settle", "send", "request",
   "overflow", "raised"}

(* The variables stay in their ranges. *)
RequestTypeOK ==
  /\ pc \in ControlPoints /\ groups \in Seq(GroupSizes)
  /\ first \in Nat \ {0}
  /\ context \in Contexts /\ saved \in Contexts /\ logged \in Contexts
  /\ source \subseteq Nat \ {0} /\ forced \in BOOLEAN
  /\ compactions \in 0 .. MaxCompactions + 1 /\ attempt \in 0 .. MaxAttempts
  /\ sends \in Nat /\ late \in Nat
  /\ stop \in {"none", "interrupted", "wall_time"}
  /\ storeFailed \in BOOLEAN /\ resumes \in 0 .. MaxResumes

(* The groups a request speaks of, in full or in its summary. *)
Kept == Effective(context) \cup context.summary.about

(* Whatever is compacted, left out or put back: a request carries every    *)
(* group of the conversation, in full or in its summary, or it tells the   *)
(* model that some are missing (FR-22).                                    *)
NothingLostSilently ==
  pc = "request" => context.notice \/ DOMAIN groups \subseteq Kept

(* The same for a process that has been running since the session began,   *)
(* which is as far as the code keeps it: compactions that fail, fail after *)
(* others, cover a part only of what was left out, or whose event is       *)
(* refused.                                                                *)
LiveSessionLosesNothing == resumes = 0 => NothingLostSilently

(* The newest group is never given up, not even when compaction is forced *)
(* again and again (FR-21, the recent interactions are kept whole).        *)
NewestGroupSent == pc = "request" => Len(groups) \in Effective(context)

(* No request goes out that cannot fit the window: neither the summary's,  *)
(* nor the one settled for when compaction failed, nor the forced one.     *)
RequestsFit ==
  /\ pc = "request" => FitsWindow(context)
  /\ pc = "summary" => SourceSize(source) =< Window

(* Except while the event is on its way, the context in memory is the one  *)
(* the log would restore, even after the store has refused the event.      *)
ContextFollowsLog == pc # "publish" => context = logged

(* One request costs a bounded number of sends, however the service        *)
(* misbehaves: every compaction, the forced one, the request and its       *)
(* repetition are tried MaxAttempts times at most.  After a cancellation   *)
(* or the deadline only the call under way goes on with its retries.       *)
SendsBounded ==
  sends =< (MaxCompactions + 3) * MaxAttempts /\ late =< MaxAttempts

(* A request that was begun is answered or raises. *)
RequestDecided == pc = "prepare" ~> pc \in {"idle", "raised"}

=============================================================================

# CodingAgentNeo: a TLA+ verification of the agent backend

CodingAgentNeo runs a coding agent in one workspace. A *session* is a durable
log of events; a synchronous *agent loop* asks a model for an answer, executes
the tool calls the model declares and records every step; a *backend service*
runs that loop on one thread and lets frontends send tasks, answers to approval
requests, interrupts and a close, and read the event stream. HTTP, in-process
and terminal frontends sit on top.

This directory models the part of it that is hard to test: what the log of a
session says when the store fails, a thread cancels, a limit is met or an
approval times out between any two steps; what the service's threads do to
each other; what the next process makes of a log the last one left behind;
what a model request carries after compactions that succeed and fail; what a
tool call leaves in the workspace; and what reaches a browser whose
connection breaks. Paths below are relative to the repository (`src/...` there
is `src/src/...` in `PROJECT.json`, whose `map` ties every definition to the
lines it models).

## 1. The system

| component | state it keeps | operations |
|---|---|---|
| agent loop (`agent_loop.py`) | `state`, `_turn_active`, `_session_started/closed`, `_environment_started`, the pending plans, the context | `run_turn`, `close` |
| tool executor (`executor.py`) | correlation counter, issued IDs | `plan_calls`, `execute`, `skip` |
| runtime (`runtime.py`) | budget counters and deadline, cancellation flag, message list | `increment_*`, `cancel`, `append` |
| event emitter (`events.py`) | sequence, observers | `emit` |
| session store (`session.py`) | JSONL file, file sequence, poisoned flag | `create`, `open`, `append`, `close` |
| backend service (`backend_service.py`) | command queue, `_turn_in_progress`, `_stopped`, worker thread, approval slot, event buffer, `last_state` | `send`, `events`, `close`, `_run_worker` |
| recovery (`assembly.py`) | none: it rebuilds context, budgets and open call groups from a log | `recover`, assembly of a session |
| workspace provider (`backend_provider.py`) | history and resume cursors | `history`, `resume` |
| context and compactor (`context.py`, `compactor.py`) | summary, the two cutoffs `covered` and `degraded`, the notice | `project`, `plan_compaction`, `compact`, `apply` |
| model client (`model_client.py`) | attempts of one call | `complete` |
| HTTP registry and pump (`transports/http/`) | transport sessions; cache, subscribers and their queues | create, resume, close, delete; `subscribe`, `_run`, `close` |
| policy (`policy.py`) | approval mode | `decide`, `set_approval_mode` |
| tools (`tools/`) | none | `validate`, `invoke`, projection of results |
| local environment (`environment/local.py`) | `_closed`, `_active_processes` | six operations, `close` |
| web client (`web/src/composables/useAgentSession.ts`) | cursor, run, attempts | attach, apply, reconnect |
| CLI, renderer, launchers | terminal state | commands |

How they interact. A frontend calls `send`, which under the service lock
answers a request, sets the cancellation signal or puts a command on a queue.
The worker takes commands one at a time and calls `run_turn` or `close`. The
loop publishes through the emitter, which appends to the store *first* and then
calls its observers; one of them is the service's event buffer, whose consumers
read on their own threads. When a call needs approval, the executor calls the
approval channel, which publishes the request and blocks the worker until a
frontend answers, the channel is closed or interrupted, or the time is over.

What is hard in it, and for which component what makes it correct:

* **Loop and executor.** A tool is a side effect that cannot be undone, so it
  may only be dispatched after its declaration and permission are durable; a
  response may declare several calls and the turn may end (interrupt, deadline,
  four limits, failure, a refused event, an exception that is not an
  `Exception`) before, between and inside them, and still every declared call
  must be answered exactly once, in order. The deepest part is
  that the same conversation is kept twice, in the context and in the log.
* **Service.** Five parties (senders, worker, loop, closer, consumers) share a
  lock, a queue, a flag, a slot and a buffer. An answer may come late, for the
  wrong request, after an interrupt or a close; a stop may come when a task is
  accepted and not begun; `close` gives up waiting after a time and closes the
  store under the worker.
* **Store and recovery.** A crash cuts the log anywhere, even inside a line and
  inside a group of calls; what is rebuilt must be what was lost, resuming
  twice included.
* **Transports.** A session may be closed without waiting and resumed at once;
  a request that does wait may give up, or raise half-way, and be repeated.
  A subscriber attaches while the pump delivers, and leaves at any time: replay
  and live delivery must neither overlap nor leave a gap, every event must
  arrive in the end, and nobody may be left waiting on a closed session.
* **Context.** Compactions succeed, fail after others, cover part of what an
  earlier one left out, or are refused by the store; retries multiply. A
  request must fit, carry what it should or say that it does not, and be
  decided.
* **Tools and environment.** The approval mode changes while calls are decided;
  a cancellation comes between a check and a write; a command leaves processes
  behind that hold its pipes; `close` races the start of a process. A result
  must tell what became of the workspace, and a command must end.

`PROJECT.json` lists each hazard at its line, with the properties that cover it
or a note saying why none does.

## 2. The modules

| module | what it is |
|---|---|
| `SessionEvents` | the vocabulary: event types, states, statuses, the record an event and a message are reduced to |
| `SessionContract` | abstract specification: what a session promises to a reader of its log |
| `AgentLoop` | the loop with executor, budgets, emitter, as one thread interleaved with cancellation, the clock and the store |
| `MCAgentLoop` | `AgentLoop` with one history variable (work done when the cancellation arrived) |
| `AgentLoopProofs` | type correctness, the audit trail, the answers, and the refinement of `SessionContract`, proved; what a step tells the log and the context |
| `AgentSessionProofs` | context, budget, cancellation and the end of a session, proved |
| `BackendService` | `AgentLoop` composed with the service: frontends, lock, queue, worker, approval channel, buffer, consumer, closer |
| `SessionRecovery` | `AgentLoop` composed with the end of its process and the resume from the log (`assembly.py`) |
| `SessionRecoveryProofs` | what is dispatched, what is charged and what the context is through all lives of a session, proved |
| `SessionStore` | the file of a session, its stores one after the other (`session.py`); the abstract specification of the next |
| `TransportRegistry` | `SessionStore` composed with the HTTP registry and the routes that create, resume and close sessions |
| `SessionStoreProofs` | the safety of the file, and what the registry keeps of it for any frontend, proved |
| `ModelRequest` | projection, compaction, retries and the forced repetition of one model request after the other |
| `ModelRequestProofs` | the five safety properties of the requests, proved |
| `LocalEnvironment` | the six operations, the process of a command and its group, `close` |
| `ToolExecution` | `LocalEnvironment` composed with executor, policy, approval and result projection |
| `ToolExecutionProofs` | consent, results, process groups and reported truncation of the tools, proved |
| `BackendServiceProofs` | contract, approvals, queue, stop and stream of a session behind its service, proved |
| `EventStream` | buffer, pump, subscriptions, SSE generators, connections, the close of a session, and the reconnecting web client |
| `EventStreamProofs` | the order of what is on its way to a client, proved |

### AgentLoop

`pc` is the control point of the one thread that runs `run_turn` and `close`.
Every action publishes at most one event, because another thread can act
between any two; everything the code does after an event and before the next
one is part of the action. The actions follow the code:

* `RunTurn`, `StartEnvironment`, `EmitSessionStart`, `EmitAgentStart`,
  `EmitUserMessage`: the head of `run_turn` and `_start_session`.
* `BeginStep`, `PrepareContext`, `Compact`, `Respond`, `RetryOverflow`,
  `ModelRaises`, `AcceptResponse`, `RecoverEmptyResponse`: one model step.
* `Dispatch`, `RejectCall`, `AllowCall`, `AskApproval`, `Approve`, `Execute`,
  `PublishResult`, `Settle`: one declared call, in the order in which
  `execute` and the loop go through it.
* `SkipCall`, `SkipPolicy`, `SkipResult`, `SkipDone`: `_skip_pending`, used by
  every premature end; `exit` remembers why.
* `EmitError`, `EmitTurnEnd`, `HandleRaisedLimit`, `EmitAgentEnd`,
  `EmitSessionEnd`, `CloseEnvironment`, `Close`: the ends of a turn and of the
  session. Strict and best-effort publication are kept apart, and so are the
  limits found in the body of `run_turn` and those raised into an `except`
  clause.
* `Cancel`, `Expire`: another thread, and the clock.

An event is its type, the correlation it belongs to and one word (`Event`).
Correlations are issued in order, so the pending plans are `head .. issued`.
`Record` and `Refuse` are the two outcomes of an append; a refusal is final,
because the store poisons itself after a failed write. What the model, the
policy, the tools and the user answer is a choice of the action.

Abstractions. Texts, arguments, tokens and times are left out. The statuses of
an executed call other than `invalid` are one value where the loop does not
tell them apart. The executor refuses a call for several reasons before the
policy is asked (`RejectCall`); which one is not modelled. Budgets that are
switched off (`None`) are budgets never reached. The emitter's own refusals
(an event that fails validation before the store sees it), and the check that
the executor and the loop share a context view, are not modelled. The approval
port the service installs never raises, so `AskApproval` has no such
outcome.

### SessionContract and the refinement

Phases `ready`, `turn`, `ended`; calls are declared in groups, and only when
nothing is owed; each is allowed, performed at most once and answered while it
is the next one; a completed turn owes nothing, and the end of a session owes
nothing unless the log was lost. `ImplementsContract` in `AgentLoop` is the
contract under the mapping `Contract`: `declared` is `issued`, `answered` is
`head - 1`, `allowed` is read off the log, `performed` is `executed`. It is
checked for the loop alone, and proved for it and for the loop inside the
service, also when `close` takes the store away.

### BackendService

The loop's own steps are `OwnStep`; the service adds what its threads do
around them. `send` holds the lock, and the two commands that call out while
holding it (`Interrupt`, which tells the approval channel before it sets the
signal, and `RequestStop`) take two steps, so that the worker can run in
between; `ClearFlag` needs the lock, as `_run_worker` does. The worker is
`get -> turn -> flag -> get`, or `get -> closing -> exit -> done`. `Notify` is
the observer call between a durable append and the next step of the loop.
`RequestApproval` opens the slot and publishes the request; `EndWait` is the
return of the wait, with the `Verdict` the channel computes: it denies when the
channel is closed, an interrupt came (at any time), an answer was for another
request, or no answer came in time. A frontend answers only requests it could
have read, old ones included. `CallClose`, `CloseStore` and `CloseStream` are
`close()`; `JoinMayTimeOut` says whether the join may give up. `Read` and
`EndRead` are one consumer of `events()`.

Abstractions. One closer and one consumer; `SetApprovalMode` changes what the
policy answers, which is a choice here and `SetMode` in `ToolExecution`; a
repeated interrupt finds
everything set and is left out; the deadline is not composed with the service
(its effects on the loop are in `AgentLoop`). The return of the wait and the
`policy_decision` that follows are one step: nothing another thread does
between them can change the verdict.

### SessionRecovery

The loop may end with its process between any two steps (`Crash`), and `Resume`
makes a new one from the log: `Recorded` are the messages no summary or notice
stands for, `WholeGroups` drops a last group of calls whose results the crash
cut off, `Resumable` says when recovery raises instead, `Restored` is the
budget. `cut` holds the two cutoffs of a compaction; `Planned` and `CutAt` say
which groups one may cover. `ledger` is what `_budget_from_events` could count,
kept next to the log because an event is reduced to one word. An append cut
by the crash leaves no record: what that means for the file is `SessionStore`.
Locating the file, the active tools and the configuration of the parts are not
modelled.

### SessionStore and TransportRegistry

The file is a sequence of physical lines, each a record or bytes that do not
parse, the last one perhaps without its newline. `Written` is the file after
the bytes of an append up to a point: nothing, the separator, part of the
record, all of it, or with its newline. `FailAppend` and `Cut` stop there, the
one with a store that refuses from then on, the other with the process.
`Opened` is what a new store remembers of the file, `DiscardTail` the
truncation before a resume. `StoreSpec` lets stores follow each other, never
overlap: that is the promise.

In `TransportRegistry` a store stands for a transport session and its backend.
The routes run on one event loop, so a request that waits (`request`) keeps the
others waiting, while the workers write on. `CloseByCommand` releases the
active slot at once and leaves the backend to close when it can
(`CloseBackend`); `Delete` releases it too and waits, but not for ever: it is
answered 204 when the backend has closed (`Deleted`) and also when the wait has
given up (`DeleteGivesUp`). The first event stream publishes the thread of its
pump before it starts it (`OpenStream`, `StartPump`); a close in between raises
(`CloseRaises`), the session is marked as closed and its backend is never asked
to close, and a repeated DELETE answers 204 at once (`DeleteAgain`). `Lingers`
names what these have in common: a backend that has the file behind an answer
that its session is closed. `overlapped` is a history: a session was posted
beside such a backend. `RegistrySpec` lets frontends ask for anything at any
time; in `PatientSpec` they delete what they know until that is answered 204,
and post only then, as the web client is meant to. Other sessions have other
files and are left out; so is a write another thread sees half done: only the
disk and the end of the process cut one.

### ModelRequest

`_complete_model_request` and what it calls, from one request to the next of
the same session. The conversation is a sequence of groups, a group being what
`group_messages` never splits, reduced to its size; its place stands for the
sequence it ends with. `first` is the oldest group still in `recent_messages`,
`context` the projection fields of `ContextState`, `saved` what `_compact_once`
puts back, `logged` what a recovery would make of the recorded compactions.
A summary carries the groups it is `about`, which is how a group that got lost
can be noticed.

`Prepare` is one round of `_prepare_context`; `Compact` takes the `Plan`
(`plan_compaction`) and the part of it whose summary request fits (`Bounded`),
or fails at once when not even the first group does. `SummaryArrives` and
`CallFails` end the compaction's call, `Publish` records the event or, when the
store refuses it, restores the projection; `SettleContext` measures what a
failed or forced compaction left. `SendRetry`, `SendFails`, `AnswerArrives` are
`complete` of the model client, with the `Category` its classification gives to
a failure; `RetryOverflow` is the one forced repetition. `Stop` is a
cancellation or the deadline, `Resume` the end of the process at any point and
the context `recover_session_plan` builds.

Abstractions. Sizes are given, not estimated from texts; a summary has one of a
few sizes; delays take no time. A resume makes groups of whole messages only:
calls that a crash cut off are the subject of `SessionRecovery`.

### LocalEnvironment and ToolExecution

`at` is the control point of the operation under way. `CheckState` and
`CheckCancelled` are the beginning of each; `ReadFile`, `ListFiles`,
`SearchWithPython` and `ReadForEdit` read, `Recheck`, `Open` and `Write` are
the end of `write_file` and `edit_file`. Opening for writing empties the file
(`torn`) and the write makes it `new`: the failure between is an action's
choice. `SpawnCommand`, `Register`, `Poll`, `Communicate`, `Terminate`, `Kill`
and `FinishCommand` are `execute_command`, `_communicate_process` and
`_terminate_process`; `SpawnSearch` and `FinishSearch` the same for a search
with `rg`, which has no deadline of its own. A process group is its leader and
at most one background process: one that has its output redirected (`quiet`),
one that holds the pipes (`piped`), one that also ignores SIGTERM (`stubborn`)
and one that has left the group (`detached`). `Close`, `CloseSnapshot`,
`CloseTerminate` and `CloseKill` are `close()` on another thread.

`ToolExecution` adds `ToolExecutor.execute` around it: `Validate`, `Decide`
(with `Decision`, the policy for each tool, path and mode), `Approval`,
`RunTool`, `ToolReturns`, `Publish`; `SetMode` is another thread. `Project` is
the projection that the tool, the event and the message each apply: it cuts by
the characters of the text, and reports the greater of those and of the count
it is given. `consent` is a history of what authorised a call and `effects` of
what it changed.

A length has a unit. The environment counts the characters of a file, the
entries of a list, the matches of a search and the bytes of a command
(`reply.full`), and cuts by what the operation cuts (`reply.cut`; `Truncated`:
that a list or a search is cut does not follow from its count alone). The tool
makes a text of it, measured in characters (`result.text`), and `Texts` says
which lengths that may have: a file's is its count, entries take at least one
character and a newline each, bytes make between a quarter and all of their
number in characters, with one newline between two streams. A list or a search
that is cancelled returns the entries it has with `cut` false
(`CollectEntries`), and the tool replaces them by a message (`ShowsMessage`).

Abstractions. Contents are left out, only lengths are kept, and the limit of an
output is one number where the environment and the request of a tool each may
have one. A path that leaves the workspace, a missing file, a schema mismatch
and a validator that raises are choices. One operation runs at a time, as the
loop calls them. The Windows branch is left out. What the event publisher may
refuse is in `AgentLoop`.

### EventStream

`published`, `sessionEnd` and `bufferClosed` are the backend's buffer; `cache`,
`targets`, `stop`, `done`, `members` the pump; `queue`, `from` and `generator`
the subscription and the SSE generator of each connection; `wire` what is on
its way to the client. `Attach` is `subscribe` under the lock, `StartPump` the
thread start outside of it; `PumpNext` is the critical section in which an
event is cached and its receivers noted, `PumpPut` the delivery after it;
`Dismiss` the end marker to everyone. `MarkClosed`, `ClosePump`, `JoinPump`
and `CloseBackend` are `TransportSession.close`. The client is `Connect`,
`Receive` (apply, ignore what is known, reconnect on a gap or at the end),
`Leave` and `Break`; a connection that breaks takes along what was on the
wire, and the server notices later (`cut`, `Detach`).

Abstractions. An event is its sequence. A client has one connection at a time,
the earlier ones live on in the server only: the code's `run` number discards
what they deliver. Keep-alive comments and the HTTP format are left out.

## 3. The runs

The bounds: `MaxSteps`, `MaxToolCalls`, `MaxProtocolErrors`, `MaxCompactions`,
`Window`, `Trigger`, `KeepRecent`, the output limits and, in `ModelRequest`
and `EventStream`, `MaxAttempts` are the program's own; `MaxCallsPerResponse`,
`MaxTurns`, `MaxGroups`, `GroupSizes`, `SummarySizes`, `MaxResumes`,
`MaxCalls`, `OutputSizes`, `TextSizes`, `Children`, `MaxEvents`, `MaxStreams`, `MaxAppends`
and the sets of stores and lives bound the model. `StoreMayFail` and
`JoinMayTimeOut` switch a fault on. Deadlock checking is off everywhere: a
closed session, or a service whose threads have all left, really stops, and
progress is stated as liveness instead.

| run | instance | what it shows |
|---|---|---|
| `calls` | 2 calls per response, 2 turns, failing store, `FairSpec` | the log is a sound audit trail whatever fails; the context mirrors it; the loop keeps the contract; a started turn ends, and an interrupt ends the session |
| `turns` | 2 turns of up to 2 steps, 1 call, working store | budgets hold across turns, a terminal turn closes the session, after the signal at most one thing under way is finished |
| `service` | 2 tasks, 1 call, `ServiceFairSpec` | state and stream agree with the loop; accepted tasks run; no model step begins after a stop or an interrupt; a stop ends worker and streams |
| `approval` | 2 calls, so 2 requests in a turn, `JoinMayTimeOut` | what was put to the user is allowed only by a yes to that very request; closing the store under the worker lets nothing run that the log does not account for |
| `recovery` | 3 lives, 2 tasks, a call, a compaction | a resume restores the view that was lost and the budget of completed turns; requests are well formed; no tool runs twice; the first crash can be recovered |
| `recover_twice` (violation) | the same | see finding 1 |
| `registry` | 3 transport sessions, 4 appends, any frontend | until a session is posted beside a backend that lingers behind its answer: what was acknowledged is read back in place, the file stays readable, no visible record moves, and the registry implements `StoreSpec` |
| `overlap` (violation) | the same | see finding 2 |
| `model` | 5 groups of 2 sizes, 2 compactions and 2 attempts per request, 1 resume, `RequestFairSpec` | a live session loses no message silently and always sends the newest group; requests fit the window; memory agrees with the log; sends are bounded, also after a stop; each request is decided |
| `silent_loss` (violation) | the same | see finding 3 |
| `tools` | 2 calls of any tool, one count and 2 lengths of texts, all kinds of background process, `ToolSpec` | no effect without consent on record; results tell what became of the file; what is not reported as cut is whole, what is reported was cut, and not with less than was counted; log and conversation hold the same results; a stopped command leaves nothing SIGTERM would end; operations return |
| `stream` | 2 events, 3 connections, 1 attempt, `StreamSpec` | replay and live delivery join without gap or overlap; events arrive across lost connections; no connection waits on a closed session |

Why these bounds are enough. Two calls in a response give a first one, a last
one, one that is executed and one that is skipped, and a result that must not
be answered twice; a third adds no new control path, because every check looks
only at the head of the plans and whether any is left. Two turns give a turn
after a completed one and budgets carried over; a terminal turn is never
followed by another. Two requests are what a stale answer needs. Two protocol
errors reach the limit both by an empty response and by an invalid call, and
one does not reach it. Three lives are what the second resume of a group cut
open needs; in the second and third nothing interrupts a turn (`LivesSpec`),
since interrupts, deadlines and approvals before a crash are in the first.
Three stores give one that fails, one that resumes behind its torn line and one
that reads both; four appends give each a write, and one more. Five groups with
two retained leave three to compact: one covered, one left out and one that is
new; the sizes are such that one group fits a summary request and two large
ones do not, that a summary may be larger than what it replaces, and that a
projection may lie between trigger and window. Two calls give one after an
environment was closed or a signal set by the other. The count is 5 with limits
of 6 in the environment and 4 in the projection, and a text has 4 or 9
characters, or those of its file: so a file or a search may be cut by its bytes
though its count is within the limit, and results are cut by the environment,
by the projection, by both and by neither. Three connections are one to lose
before and one after the first event, and one more; two events are one that is
replayed and one that is live, and one attempt is used up when a connection
brings nothing. The proofs of section 5 drop the bounds of what they are about.

**Fairness.** `FairSpec` is weakly fair to the loop's own steps and to the
answer of the approval port: requests, commands and approvals all have
timeouts, so each step of a running turn ends. Nothing is fair that a user or
another thread would have to do: tasks, cancellations, closes and the deadline
need not happen. `ServiceFairSpec` is weakly fair to each thread that has
something to do: the worker, the holder of the lock, `close()` and the
consumer; again nobody has to send or close anything. `RequestFairSpec` is
weakly fair to the steps of a request that has been begun: the SDK's call has a
timeout. `ToolSpec` is weakly fair to the thread that runs a tool, to a close
that has been begun and to the deadline of a command; processes may run for
ever, users may never answer, nobody has to cancel. `StreamSpec` is weakly fair
to the server's threads and generators, to the backend that has been asked to
close, to the timer and to the browser's reading; the backend need not publish,
connections need not break, the user need not press retry once the attempts are
used up. With the bounds on tasks, calls and connections every liveness
counterexample is a thread stuck, not a user who goes on for ever.

**Further configurations.** Six more are kept beside the runs, each with one
property that the code does not keep (section 4): `AgentLoop_escape.cfg`
(`TerminalTurnCloses`), `AgentLoop_zero.cfg` (`ProtocolLimitNeedsError`),
`BackendService_followup.cfg` (`FollowUpAccepted`), `ToolExecution_hang.cfg`
(`TimeoutEndsCommand`), `TransportRegistry_patient.cfg` (`OneBackend`, under
`PatientSpec`) and `ToolExecution_length.cfg` (`LengthAuthoritative`).
`SessionStore.cfg` checks the abstract specification of the stores by itself.
Each module also has its type invariant (`TypeOK`, `ServiceTypeOK`,
`RecoveryTypeOK`, `RegistryTypeOK`, `RequestTypeOK`, `ExecutionTypeOK`), to be
added to a configuration after a change; the runs leave them out, and the
proofs have those they need.

## 4. Findings

Shown by a run:

1. *A session that cannot be resumed twice* (`recover_twice`). FR-19 asks that
   a restored session goes on. Recovery drops an incomplete group of calls only
   at the end of the log; the resumed session writes behind it, and the next
   recovery finds it in the middle and raises, for good unless a compaction has
   covered it. `ResumableOnce` is what holds.
2. *Two writers on one file* (`overlap`). FR-34 asks for sequences without
   duplicates. `CloseSession` over HTTP frees the active slot and does not wait
   for the backend: a session resumed at once has two stores on its file, which
   assign the same sequences, and the file can no longer be read.
   `ImplementsStore` is what holds: two writers need a backend that lingers
   behind its answer.
3. *Messages that get lost silently* (`silent_loss`). While a session lives,
   the groups a failed compaction left out of the requests stay in memory and
   the next plan takes them in (`LiveSessionLosesNothing`). A resume restores
   only what is behind both cutoffs; those groups are gone, and the next
   compaction that succeeds withdraws the notice that said so. FR-19 asks for
   the messages after the newest valid compaction.

Shown by the further configurations:

4. *A terminal turn that does not close the session* (`AgentLoop_escape.cfg`).
   The class docstring says interrupted, limited and failed turns close the
   Environment (`agent_loop.py:169`). A limit raised by the preparation of the
   context is ended in an `except` clause of `run_turn`, outside the `try`:
   when the store refuses that `turn_end`, the turn stays active and the
   environment open until `close` is called.
5. *Zero tolerance* (`AgentLoop_zero.cfg`). `_current_limit` says that zero
   protocol errors do not exhaust a budget of zero (`agent_loop.py:589`). The
   check after a tool result lacks that guard, so such a session ends after its
   first successful call.
6. *A follow-up task refused* (`BackendService_followup.cfg`). The interface
   makes `turn_end` the end of a turn, after which the next task may be sent.
   The worker publishes it before it clears `_turn_in_progress`, so a prompt
   frontend is refused with `TurnInProgressError`.
7. *A command that outlives its timeout* (`ToolExecution_hang.cfg`). After the
   termination the rest of the output is read without a timeout
   (`environment/local.py:1130`). A descendant that ignores SIGTERM while the
   shell obeys it, or that has left the group, keeps the pipes open and the
   call waiting. `OperationReturns` is what holds.
8. *Deleting first does not help* (`TransportRegistry_patient.cfg`). The
   architecture of the history sidebar
   (`docs/webgui-history-sidebar/ARCHITECTURE.md:130`) has frontends delete the
   transport they know before they post the next, so that there never is a
   second backend. A DELETE answers 204 also when its bounded wait has given up
   (`registry.py:199` ignores how it ended) on a worker that is still in a
   model request, and a repeated DELETE after a close that raised
   (`registry.py:119`) answers 204 without asking the backend to close at all.
   In both cases the next POST opens a second store on the file, as in finding
   2.
9. *A length in two units* (`ToolExecution_length.cfg`). `head_tail_truncate`
   says that `original_length` remains authoritative (`tools/output.py:40`),
   and reports the greater of it and of the characters of the text it is given.
   For a list or a search the former counts entries or matches. When the
   environment has left some out and the text of the rest is cut once more, the
   characters of that rest are reported: neither the number of entries nor the
   length of all of them. `TruncationReported` is what holds: that something
   was cut is always said.

Stated in `EventStream`, refuted by TLC when added to its configuration:

10. `CloseShowsEnd`: an explicit close shows `agent_end` and `session_end`
    before the SSE ends (`docs/agent-transport-interface.md:511`). The pump is
    dismissed before the backend is asked to close.
11. `CloseReachesBackend`: a close that joins the pump's thread between its
    publication and its start gets a `RuntimeError` before the backend is
    closed, and the session is marked closed already. Finding 8 shows what a
    repeated DELETE makes of it.

The forgotten budget of a turn a crash cut short is documented (the snapshot
of the last completed turn is what counts), and `BudgetSurvives` says what is
left: nothing that was not done is charged, and completed turns are.

## 5. Proofs

TLC checks the properties on small instances; the theorems hold for every value
of the constants that satisfies the named assumption of the module (budgets and
limits are natural numbers, at least one compaction or attempt is made, and the
like). None of the safety properties below is inductive; each section names the
invariant that is.

### The loop: `AgentLoopProofs`, `AgentSessionProofs`

* `TypeCorrect`: `Spec => []TypeOK`.
* `AuditTrailKept`: `Spec => [](SideEffectsAuthorised /\
  ResultsFollowDecisions)`; `ResultsOrdered`: `Spec => []ResultsInOrder`.
* `CallsAnswered`: `Spec => []DeclaredCallsAnswered`.

The log alone does not say why the dispatch at `execute` is authorised. The
invariant, `TypeOK /\ CallInv`, adds `AnsweredBelowHead` (`head` separates the
correlations that have a result from those that have none) and
`ControlPoints`, which says for each control point what is already durable for
the head: its declaration at `decide`, `waiting` and `skip_policy`, its
permission at `execute`, some decision at `result` and `skip_result`; and that
at the points in `Settled` no call is pending unless the store has failed. The
lemmas separate the log from the loop: `TrailKept` and `TrailExtended` say that
publishing anything but a result keeps the trail, `TrailAnswered` that the
result of a decided head extends it, `ControlAbandoned` that a refused event
leads to a point that claims nothing; `CallNext` then has one step per action.

* `ContractKept`: `Spec => ImplementsContract`, the refinement. `PhaseInv`
  adds where a turn is active, which control points have a call pending, that
  only calls up to the head have been dispatched, and that the head has not
  been when it is about to be; `DecisionsIssued` that only issued calls are
  decided. `ContractNext` then maps each action to a step of the contract:
  `SilentEvent` covers the events the contract does not speak of, `Refused` a
  lost log, `AllowStep`, `AnswerStep` and `EndStep` the rest.

The end of the module says what a step tells the log, one step per action:
`LogStep` what is recorded and what the context gets for it, `SettledInv` where
no call is owed (when a turn begins, when the model is asked, when a turn ends
by its answer), and `StepTalks` which calls a recorded answer declares and
whose result a recorded result is. The properties of the context, in one life
and in all, rest on these three.

`AgentSessionProofs` has the properties of a session besides its contract:

* `ConversationMirrored`: `Spec => []ContextMirrorsLog`. Each step either
  leaves log and context alone or records one event and appends the message it
  is projected to (`Tells`, and `LogStep` of `AgentLoopProofs`). From that
  alone the correspondence survives a step, as positions in both only ever
  grow.
* `BudgetKept`: `Spec => []BudgetsRespected`. The property relates the answers
  in the log and the set of dispatched calls to the budget. `BudgetInv` puts
  the counters between: they are at most the budget, answers and dispatched
  calls are at most the counters, and strictly fewer at the control points
  where one has been charged and is not recorded yet.
* `CancellationPrompt`: `MCSpec => []AtMostOneMoreAction`. `PromptInv` says
  what was done when the signal came and which control points may still add
  one to it.
* `TerminalCloses`: `Spec => [](TerminalTurnCloses \/ (storeFailed /\
  turnActive))`, which is inductive with `PhaseInv`. The second disjunct is
  finding 4 and nothing more: the store refused the end of a turn whose limit
  was raised, and the turn is left active.

### Recovery: `SessionRecoveryProofs`

* `NothingRunsTwice`: `RecoverySpec => NothingReplayed`.
* `BudgetRestored`: `RecoverySpec => BudgetSurvives`.
* `RequestsComplete`: `RecoverySpec => []RequestsWellFormed`.
* `FirstCrashHarmless`: `RecoverySpec => []ResumableOnce`.
* `ViewSurvives`: `RecoverySpec => ResumeRestoresView`.
* `RecoveryTypeCorrect`: `RecoverySpec => []RecoveryTypeOK`. The context of a
  new life is built from a set of positions in the log by rank; `NthExists`
  shows by counting that there is an element of each rank.

`LivesInv` says what the log knows of the process at every moment, because
every moment may be its last. Only issued calls have been dispatched, and a new
life starts behind them. `SpentInv`: as long as there is no snapshot, the
answers and results that can be counted are at most the counters, strictly so
between a charge and its event; a snapshot is at most the counters and covers
the turns that completed. That the next snapshot covers the turn that completes
now needs `EarnedInv`: the completed turns and the life that is running have
together cost at most what is charged, since a life starts with what is
restored. It cannot hold before the life has recorded its `session_start`,
which is where the log separates it from the one before (`Unopened`), and no
turn can complete there. `StepGrows` and `StepSpends` say what a step of the
loop does to the log and to the counters, with one step per action; the rest is
about cardinalities (`CountsGrow`, `Counts`).

The three properties of the context need to know how it hangs together with the
log, which each life appends to and the next one reads. `Tale(log, b)` is what
the log tells behind position `b`, a group (`Span`) an assistant message with
the results that directly follow it, or any other message by itself. Three more
invariants:

* `ContextInv`: every group of the context is whole, except that the last one
  may still be `Opened`: its results so far are those of its calls in order, up
  to `head`. `IssuedIn` says that the log declares the calls up to `issued` and
  none behind, which is how the group of a later life starts behind the calls
  of the one before. Where the model is asked nothing is owed (`SettledInv`),
  so no group is open there: that is `RequestsComplete`. A resume keeps the
  invariant because `WholeGroups` drops exactly what is not whole.
* `LifeInv`: the context is the tale of the log behind some `b`, less `w`
  messages that stood behind the `q`-th one and were one incomplete group
  (`Retells`, `Lost`), and both cutoffs lie where a group of the context ends
  or not behind `b` (`CutIn`). The existential is needed: the messages an
  earlier resume has dropped are still in the log, in the middle of it once the
  new life has gone on. In the first life nothing is missing, `w = 0`.
* `StartInv`: who has heard its user has recorded the `agent_start` a resume
  asks for.

What the next process reads behind the cutoff is a suffix of that tale, cut
where a group ends (`RecordedBehind`), and has its groups (`SuffixGroup`). In
the first life the tale is the context, in which only the last group can lack
results: that is `FirstCrashHarmless`. Later the incomplete group of an earlier
life may stand in front of other messages, where `recover_session_plan` raises;
that is finding 1. `ViewSurvives` is about the resumes that do not raise: for
them the incomplete group is either in front of the cutoff, or the last one of
the log and dropped again (`LostLast`), so that whole groups of the suffix and
whole groups of the context behind the cutoff are the same (`KeptBehind`,
`ViewSuffix`, as sequences rise along the context).

### The store and the registry: `SessionStoreProofs`

For any set of stores and any `MaxAppends`:

* `StoreSafe`: `StoreSpec => [](AlwaysReadable /\ SequencesContiguous /\
  AcknowledgedRecovered)`.
* `StoreFinal`: `StoreSpec => RecordsAreFinal`.

The invariant is `StoreInv`: `Placed` (only the last line may lack its newline
or not parse, and the record in line i has sequence i), `Agrees` (the memory of
the open store tells the truth about the end of the file, or it knows of a tail
and does not write), `OneWriter`, and `Kept` (an acknowledged event has a
line). `Agrees` is what the properties lack: without it an append could run
into an open line or repeat a sequence. `WrittenPlaced` says what is in the
file after any part of an append; `CutKeeps`, `AppendKeeps`, `DiscardKeeps` and
`OpenKeeps` are the steps; `SameLinesExtend` compares what a reader sees before
and after one.

* `RegistryKept`: `RegistrySpec => ImplementsStore`, for any frontend: until a
  session is posted beside a backend that lingers behind its answer
  (`overlapped`), each step of the registry is a step of `StoreSpec` or leaves
  the file alone. `RegistryInv` is about the sessions nobody was told are
  closed (`Serving`: open, or being deleted): there is at most one
  (`OneServed`), an open one has the active slot (`OpenIsActive`), one being
  deleted keeps its request in progress (`DeletingWaits`), of which there is
  one (`OneRequest`), and none serves while a resume is prepared
  (`PreparedAlone`). The store of a session that was never created is not held
  (`HeldKnown`). So where nothing lingers, a request finds that nobody holds
  the file, and as long as none was posted where something did, who holds it is
  alone (`HeldAlone`), which is what the end of the process needs.
* `RegistrySafe`: `RegistrySpec => [](FileReadable /\ FileComplete)` and
  `RegistryFinal`: `RegistrySpec => FileFinal` follow with the invariant of the
  stores, `StoreStep` and `StepExtends`: `overlapped \/ StoreInv` is kept. They
  cover the backend that lingers and writes on, and say nothing of the file
  once a second one was posted beside it: findings 2 and 8 show that this
  happens, also to a frontend that deletes first.

### The service: `BackendServiceProofs`

The results about the loop are lifted to the session behind its service.
`ServiceStepIsLoopStep` shows that every step of the frontends, the worker and
the closer is a step of the loop, leaves it alone, or takes the store away
(`StoreClosed`), and `LoopInvClosed` that `LoopInv` survives the last. From
this follow

* `ServiceKeepsContract`: `ServiceSpec => ImplementsContract`, also when
  `close()` has given up waiting for a worker that is still in a turn, and
* `ServiceAuthorised`: `ServiceSpec => []SideEffectsAuthorised`.

`ApprovalFailsClosed`, `ServiceSpec => []ApprovedByUser`, needs what the log
does not show: while the loop waits, the slot of the channel names the head and
a "yes" in it is one a frontend gave for the head (`SlotInv`); and a call that
was put to the user and is not answered is past the policy (`AskedInv`), so
that the policy cannot allow it by itself afterwards. `OwnStepGrowth` says what
the loop may publish between two visits of the approval port; `EndWaitKept` and
`AnswerKept` are the two steps on which the property hangs.

The service itself has the invariant `ServiceInv`: `QueueInv` (what is in the
queue, as a function of the flag, the stop and where the worker is: one task at
most, none after the close), `StopInv` (a stop or an interrupt has reached the
token of the turn it is about, or its sender is still on the way), `WorkerInv`
(the stream is at most one event behind the log, and a worker that has left has
closed the session), `TasksInv` (the tasks accepted are the turns run and the
one in the queue) and `ShownInv` (the state a frontend derives from the stream
and the event under way is the state of the loop). It gives

* `StreamShowsState`: `ServiceSpec => []StateFollowsLoop`;
* `StoppedForGood`: `ServiceSpec => NoModelStepAfterStop`;
* `AcceptedTasksTaken`: `ServiceSpec => [](AcceptedTasksRun \/ (storeFailed
  /\ worker = "get"))`. A store that fails, or is closed, in the middle of a
  turn may leave the turn active, and the next task is then refused by the loop
  although the service has accepted it: this is how a task can be lost.

`Reliable` is the assumption of the last two: the store does not fail and
`close()` does not give up waiting for its worker. `StreamInv`, which holds
under it, says that nothing has closed the stream before the worker is done and
that the last event of a closed session is its `session_end`.

* `TasksRun`: `ServiceSpec => []AcceptedTasksRun`.
* `StreamDelivered`: `ServiceSpec => []StreamComplete`.

In `service` both hold as assumed; in `approval` a close may give up, and the
two theorems say nothing about it.

### The requests: `ModelRequestProofs`

For any window, sizes of groups and summaries, limits and retries, and any
length of the conversation: `NothingForgotten`, `NewestKept`, `WindowKept`,
`LogFollowed`, `SendsKept`, each `RequestSpec => []` one of the five
invariants of the run, and `RequestTypeCorrect`. The invariant `RequestInv` has
a part for each question: `LogInv` (the projection in memory is the one the
recorded compactions give, but for the event under way), `PlaceInv` (where the
cuts are; they never reach the newest group), `LossInv` (what is neither
sent nor summarised is behind the notice), `FitInv` (what has been measured
against the window is what is sent), `CallsInv`, `SendsInv` and `LateInv` (the
sends of one request as a function of attempts, compactions and the one
repetition; what may still be sent after a stop). A size is a cardinality, so
that "a shorter source is not a larger one" follows from subsets.

### The tools: `ToolExecutionProofs`

For any output limits and sizes, of the tool executor over the local
environment:

* `ConsentKept`: `ToolSpec => []EffectsConsented`.
* `ResultsTell`: `ToolSpec => []ResultTellsFile`.
* `GroupsReaped`: `ToolSpec => []StoppedGroupGone`.
* `TruncationTold`: `ToolSpec => []TruncationReported`.

`ToolInv` has a part for the environment, `EnvInv` (what each control point of
an operation has done to the file and to the process group, and what the reply
says of it), and parts for the executor: `ConsentInv` (the call that is run has
its "allow" recorded and, if it may have an effect, something consented to it,
whatever the mode has become since) and `EffectInv` (only the call under way
and earlier ones have had effects, and what the result of the call under way
may say of them). The last theorem has `TellInv`: what a result may say of a
reply, whatever the units of its count and its text (`ReportInv`), that only a
call that is decided has a result to tell of (`DecisionInv`), and that what has
been shown is in the log, call by call (`ShownInv`). `ProjectReports` is its
lemma about the projection, and that a second one changes nothing
(`ProjectOnce`). The theorem does not say that the length reported is the true
one: finding 9 is why.

### The stream: `EventStreamProofs`

`StreamsContiguous`, `StreamSpec => []StreamContiguous`, for any number of
events, connections and attempts. The property speaks of what is on its way to
a client; the invariant `StreamInv` says how it came there: `PlaceInv` where
the pump is in its delivery and which subscriptions it has served already,
`LineInv` that the queue of a subscription continues the replay without a gap
up to what the pump has taken, `ClientInv` that what has left the server
continues what the client has applied. The critical steps are an attachment in
the middle of a delivery and the end of a subscription between two events.

### What is only model-checked

Every invariant and every action property of a passing run is stated by a
theorem above: `TerminalTurnCloses` with the disjunct its theorem names,
`AcceptedTasksRun` and `StreamComplete` under `Reliable`. Left to TLC are

* all liveness, as the prover does not reason about fairness and `ENABLED`:
  `TurnEnds`, `InterruptEndsSession`, `StopEndsStream`, `RequestDecided`,
  `OperationReturns`, `EventsDelivered` and `StreamsEnd`;
* what the three runs with an expected violation show
  (`EverySessionResumable`, `SequencesMonotonic`, `NothingLostSilently`), which
  no theorem could state.

## 6. Not modelled, and the plan

Done: the loop, its contract and its service; recovery, store and registry; the
model request with context, compaction and model client; the tool executor with
policy, tools and local environment; the event stream with pump and web client.

What is left has little state or no protocol of its own:

* the history (listing and event pages): reads of files another process may
  extend, without effect on them;
* the formats: HTTP routes and their DTOs, SSE, JSON, configuration, rendering;
* the in-process transport, which hands each call to the service, and the
  types of the backend protocol;
* command line, renderer, launchers, and the web client apart from its stream;
* the Windows branch of the local environment, path resolution and the
  encoding of outputs;
* the texts of prompts and tools, and the classification of paths and commands.

-------------------------- MODULE LocalEnvironment --------------------------
(***************************************************************************)
(* LocalExecutionEnvironment (environment/local.py): the six operations    *)
(* on a workspace, with the cancellation signal set and the environment    *)
(* closed by other threads at any moment, and with the processes a command *)
(* leaves behind.                                                          *)
(*                                                                         *)
(* One operation runs at a time, as the loop's thread calls them one by    *)
(* one.  A file is what the operation under way has made of it, an output  *)
(* is a count in the unit of its operation, and the process group of a     *)
(* command is its leader and at most one background process.               *)
(***************************************************************************)
EXTENDS Integers, Sequences, FiniteSets

CONSTANTS
  Children,      \* bound: background processes a command may start
  OutputSizes,   \* bound: how much an operation may have to return
  OutputLimit    \* its limit: bytes, entries or matches

(* "quiet" has its output redirected; the others hold the pipes of the     *)
(* command open, "stubborn" ignoring SIGTERM and "detached" being in a     *)
(* session of its own.                                                     *)
ChildKinds == {"quiet", "piped", "stubborn", "detached"}

ASSUME EnvironmentAssumption ==
  /\ Children \subseteq ChildKinds \union {"none"}
  /\ OutputSizes \subseteq Nat /\ OutputSizes # {}
  /\ OutputLimit \in Nat

Operations == {"read", "list", "search", "write", "edit", "command"}
SideEffects == {"write", "edit", "command"}
FileOperations == {"read", "write", "edit"}
Statuses == {"success", "error", "cancelled", "timeout"}

VARIABLES
  op,          \* the operation under way, or the last one
  at,          \* its control point
  reply,       \* what it returned
  file,        \* what it has made of its file
  touched,     \* it changed the file or started a command
  cancelled,   \* the cancellation signal
  closed,      \* _closed
  closing,     \* control point of close()
  toEnd,       \* close() found the process among the active ones
  registered,  \* the process is in _active_processes
  expired,     \* the deadline of the command has passed
  stopped,     \* why the poll loop was left, or "none"
  leader,      \* the process Popen started
  child        \* its background process

files     == <<file, touched>>
processes == <<leader, child>>
polling   == <<registered, expired, stopped>>
closer    == <<closed, closing, toEnd>>
envVars   == <<op, at, reply, files, cancelled, closer, polling, processes>>

(* full is original_length: the characters of a file, the entries of a     *)
(* list, the matches of a search, the bytes of a command; 0 also for none. *)
NoReply == [status |-> "none", full |-> 0, cut |-> FALSE]

EnvironmentInit ==
  /\ op = "read" /\ at = "idle" /\ reply = NoReply
  /\ file = "old" /\ touched = FALSE
  /\ cancelled = FALSE /\ closed = FALSE /\ closing = "open"
  /\ toEnd = FALSE /\ registered = FALSE /\ expired = FALSE
  /\ stopped = "none" /\ leader = "none" /\ child = "none"

-----------------------------------------------------------------------------
(* _cancelled: a closed environment counts as a cancelled operation. *)
Cancelled == closed \/ cancelled

(* Whether n counted are cut.  Entries and the bytes of a command are      *)
(* limited as they are counted; the characters of a file are limited in    *)
(* bytes, of which each has one to four, and matches in bytes as well.     *)
Truncated(n) ==
  {c \in BOOLEAN :
    /\ n > OutputLimit => c
    /\ c => CASE op \in FileOperations -> 4 * n > OutputLimit
              [] op = "search"         -> n > 0
              [] OTHER                 -> n > OutputLimit}

(* The operation returns. *)
Return(status, n) ==
  /\ at' = "idle"
  /\ \E c \in Truncated(n) :
       reply' = [status |-> status, full |-> n, cut |-> c]

(* It returns a message and no output. *)
Refuse(status) == Return(status, 0)

Goto(p) == at' = p /\ UNCHANGED reply

Call(o) ==
  /\ at = "idle" /\ at' = "entry" /\ op' = o
  /\ reply' = NoReply /\ file' = "old" /\ touched' = FALSE
  /\ expired' = FALSE /\ stopped' = "none"
  /\ UNCHANGED <<cancelled, closer, registered, processes>>

CheckState ==
  /\ at = "entry"
  /\ IF closed THEN Refuse("error") ELSE Goto("enter")
  /\ UNCHANGED <<op, files, cancelled, closer, polling, processes>>

(* What an operation does first; a search goes to rg where there is one. *)
FirstStep(o) ==
  CASE o \in {"read", "list", "edit"} -> {"reading"}
    [] o = "search"  -> {"reading", "spawn"}
    [] o = "write"   -> {"recheck"}
    [] o = "command" -> {"spawn"}

(* A path that leaves the workspace, or names nothing of the right kind,   *)
(* is refused.                                                             *)
ResolvePath == Refuse("error") \/ \E p \in FirstStep(op) : Goto(p)

CheckCancelled ==
  /\ at = "enter"
  /\ IF Cancelled THEN Refuse("cancelled") ELSE ResolvePath
  /\ UNCHANGED <<op, files, cancelled, closer, polling, processes>>

(* Reading a file: the signal is looked at between chunks. *)
ReadBytes == Refuse("error") \/ (Cancelled /\ Refuse("cancelled"))

(* Entries and matches are collected one by one, and a cancellation        *)
(* returns those that were found before it.                                *)
CollectEntries ==
  \/ Refuse("error")
  \/ Cancelled /\ \E n \in OutputSizes \union {0} : Return("cancelled", n)

(* A search that finds nothing is an error. *)
Report ==
  \E n \in OutputSizes :
    Return(IF op = "search" /\ n = 0 THEN "error" ELSE "success", n)

ReadFile ==
  /\ at = "reading" /\ op = "read" /\ (ReadBytes \/ Report)
  /\ UNCHANGED <<op, files, cancelled, closer, polling, processes>>

ListFiles ==
  /\ at = "reading" /\ op = "list" /\ (CollectEntries \/ Report)
  /\ UNCHANGED <<op, files, cancelled, closer, polling, processes>>

SearchWithPython ==
  /\ at = "reading" /\ op = "search" /\ (CollectEntries \/ Report)
  /\ UNCHANGED <<op, files, cancelled, closer, polling, processes>>

(* An edit goes on when the text occurs as often as it should. *)
ReadForEdit ==
  /\ at = "reading" /\ op = "edit" /\ (ReadBytes \/ Goto("recheck"))
  /\ UNCHANGED <<op, files, cancelled, closer, polling, processes>>

Recheck ==
  /\ at = "recheck"
  /\ IF Cancelled THEN Refuse("cancelled") ELSE Goto("open")
  /\ UNCHANGED <<op, files, cancelled, closer, polling, processes>>

(* Opening for writing empties the file. *)
Open ==
  /\ at = "open"
  /\ \/ Refuse("error") /\ UNCHANGED files
     \/ Goto("writing") /\ file' = "torn" /\ touched' = TRUE
  /\ UNCHANGED <<op, cancelled, closer, polling, processes>>

(* Mutant of Write: it looks at the signal once more. *)
WriteUnlessCancelled ==
  /\ at = "writing"
  /\ \/ Cancelled /\ Refuse("cancelled") /\ UNCHANGED file
     \/ ~Cancelled /\ file' = "new" /\ Report
  /\ UNCHANGED <<op, touched, cancelled, closer, polling, processes>>

(* The write fails when the disk is full, or when the text has no UTF-8    *)
(* encoding.                                                               *)
Write ==
  /\ at = "writing"
  /\ \/ Refuse("error") /\ UNCHANGED file
     \/ file' = "new" /\ Report
  /\ UNCHANGED <<op, touched, cancelled, closer, polling, processes>>

-----------------------------------------------------------------------------
(* Commands, and searches with rg.                                         *)

SpawnCommand ==
  /\ at = "spawn" /\ op = "command"
  /\ \/ Refuse("error") /\ UNCHANGED <<processes, touched>>
     \/ /\ Goto("register") /\ leader' = "running" /\ child' \in Children
        /\ touched' = TRUE
  /\ UNCHANGED <<op, file, cancelled, closer, polling>>

(* A search that cannot start rg falls back to the library. *)
SpawnSearch ==
  /\ at = "spawn" /\ op = "search"
  /\ \/ Goto("reading") /\ UNCHANGED leader
     \/ Goto("register") /\ leader' = "running"
  /\ UNCHANGED <<op, files, cancelled, closer, polling, child>>

Register ==
  /\ at = "register"
  /\ Goto(IF closed THEN "terminate" ELSE "poll")
  /\ registered' = ~closed
  /\ UNCHANGED <<op, files, cancelled, closer, expired, stopped, processes>>

(* Mutant of Poll: only the deadline is looked at. *)
PollUntilDeadline ==
  /\ at = "poll"
  /\ \/ expired /\ Goto("terminate") /\ stopped' = "timeout"
     \/ ~expired /\ Goto("communicate") /\ UNCHANGED stopped
  /\ UNCHANGED <<op, files, cancelled, closer, registered, expired,
                 processes>>

(* One round of the poll loop, up to communicate. *)
Poll ==
  /\ at = "poll"
  /\ \/ Cancelled /\ Goto("terminate") /\ stopped' = "cancelled"
     \/ ~Cancelled /\ expired /\ Goto("terminate") /\ stopped' = "timeout"
     \/ ~Cancelled /\ ~expired /\ Goto("communicate")
        /\ UNCHANGED stopped
  /\ UNCHANGED <<op, files, cancelled, closer, registered, expired,
                 processes>>

(* Someone holds the pipes of the command open. *)
PipesOpen ==
  leader = "running" \/ child \in {"piped", "stubborn", "detached"}

(* communicate with the poll interval: the end of the output, or another   *)
(* round.                                                                  *)
Communicate ==
  /\ at = "communicate"
  /\ Goto(IF PipesOpen THEN "poll" ELSE "finished")
  /\ UNCHANGED <<op, files, cancelled, closer, polling, processes>>

(* The output has ended, by itself or after the process was stopped. *)
Ended == at = "finished" \/ (at = "drain" /\ ~PipesOpen)

(* What a process came to; a cancellation that came too late to stop it    *)
(* counts as well.                                                         *)
Outcomes ==
  IF stopped # "none" THEN {stopped}
  ELSE IF Cancelled THEN {"cancelled"} ELSE {"success", "error"}

(* The finally blocks remove the process from the active ones. *)
FinishCommand ==
  /\ Ended /\ op = "command"
  /\ \E status \in Outcomes, n \in OutputSizes : Return(status, n)
  /\ registered' = FALSE
  /\ UNCHANGED <<op, files, cancelled, closer, expired, stopped, processes>>

(* A search with rg that was cancelled returns nothing of what it found. *)
FinishSearch ==
  /\ Ended /\ op = "search"
  /\ \E status \in Outcomes :
       IF status = "success" THEN Report ELSE Refuse(status)
  /\ registered' = FALSE
  /\ UNCHANGED <<op, files, cancelled, closer, expired, stopped, processes>>

(* Mutant of TerminateGroup: only the process itself is signalled. *)
TerminateLeader ==
  /\ leader' \in IF leader = "running" THEN {"running", "exited"} ELSE {leader}
  /\ UNCHANGED child

(* SIGTERM ends what is in the group and does not ignore it. *)
TerminateGroup ==
  /\ leader' \in IF leader = "running" THEN {"running", "exited"} ELSE {leader}
  /\ child' = IF child \in {"quiet", "piped"} THEN "none" ELSE child

(* SIGKILL, which is sent only when the leader has outlived the grace. *)
EndOfGrace ==
  IF leader = "running"
  THEN leader' = "exited"
       /\ child' = IF child = "detached" THEN child ELSE "none"
  ELSE UNCHANGED processes

Terminate ==
  /\ at = "terminate" /\ Goto("grace") /\ TerminateGroup
  /\ UNCHANGED <<op, files, cancelled, closer, polling>>

(* A process terminated by Register is polled all the same. *)
Kill ==
  /\ at = "grace" /\ EndOfGrace
  /\ Goto(IF stopped = "none" THEN "poll" ELSE "drain")
  /\ UNCHANGED <<op, files, cancelled, closer, polling>>

-----------------------------------------------------------------------------
(* close(), on another thread.                                             *)
Close ==
  /\ closing = "open" /\ closed' = TRUE /\ closing' = "snapshot"
  /\ UNCHANGED <<op, at, reply, files, cancelled, toEnd, polling,
                 processes>>

CloseSnapshot ==
  /\ closing = "snapshot" /\ toEnd' = registered
  /\ closing' = IF registered THEN "terminate" ELSE "closed"
  /\ UNCHANGED <<op, at, reply, files, cancelled, closed, polling,
                 processes>>

CloseTerminate ==
  /\ closing = "terminate" /\ closing' = "grace" /\ TerminateGroup
  /\ UNCHANGED <<op, at, reply, files, cancelled, closed, toEnd,
                 polling>>

CloseKill ==
  /\ closing = "grace" /\ closing' = "closed" /\ EndOfGrace
  /\ UNCHANGED <<op, at, reply, files, cancelled, closed, toEnd,
                 polling>>

(* What happens around the environment. *)
Cancel ==
  /\ ~cancelled /\ cancelled' = TRUE
  /\ UNCHANGED <<op, at, reply, files, closer, polling, processes>>

(* The deadline of a command passes; a search has none. *)
Expire ==
  /\ op = "command" /\ at # "idle" /\ ~expired /\ expired' = TRUE
  /\ UNCHANGED <<op, at, reply, files, cancelled, closer, registered,
                 stopped, processes>>

LeaderExits ==
  /\ leader = "running" /\ leader' = "exited"
  /\ UNCHANGED <<op, at, reply, files, cancelled, closer, polling,
                 child>>

ChildExits ==
  /\ child # "none" /\ child' = "none"
  /\ UNCHANGED <<op, at, reply, files, cancelled, closer, polling,
                 leader>>

OperationStep ==
  \/ CheckState \/ CheckCancelled
  \/ ReadFile \/ ListFiles \/ SearchWithPython \/ ReadForEdit
  \/ Recheck \/ Open \/ Write
  \/ SpawnCommand \/ SpawnSearch \/ Register \/ Poll \/ Communicate
  \/ FinishCommand \/ FinishSearch \/ Terminate \/ Kill

FinishClose == CloseSnapshot \/ CloseTerminate \/ CloseKill

WorldStep == Cancel \/ Expire \/ LeaderExits \/ ChildExits

=============================================================================

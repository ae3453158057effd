---------------------------- MODULE SessionStore ----------------------------
(***************************************************************************)
(* The file of one session (session.py): what read_session makes of its    *)
(* lines, the SessionStore objects that append to it, and the truncation   *)
(* that prepares a resume.                                                 *)
(*                                                                         *)
(* The file is a sequence of physical lines.  A line is a whole record or  *)
(* bytes that do not parse, and it may lack its newline when it is the     *)
(* last one.  An append is one write that may stop after any prefix of its *)
(* bytes, with the process (Crash) or without it (FailAppend).             *)
(***************************************************************************)
EXTENDS Naturals, Sequences, FiniteSets

CONSTANTS
  Stores,      \* the SessionStore objects, over time
  MaxAppends   \* bound: appends tried

ASSUME StoreAssumption == MaxAppends \in Nat

VARIABLES
  file,    \* the physical lines
  mode,    \* per store: "none", "open", "failed" or "closed"
  memory,  \* per store: _next_sequence, _needs_separator, _tail_diagnostic
  tried,   \* appends tried: event IDs are 1 .. tried
  acked    \* event IDs whose append returned

storeVars == <<file, mode, memory, tried, acked>>

(* A line: the event it holds, 0 if its bytes do not parse, the event's    *)
(* sequence, and whether the newline is there.                             *)
Line(event, sequence, newline) ==
  [event |-> event, sequence |-> sequence, newline |-> newline]

Parses(line) == line.event # 0

LastLine(f) == f[Len(f)]

EndsOpen(f) == f # <<>> /\ ~LastLine(f).newline

-----------------------------------------------------------------------------
(* Reading. *)

(* An invalid final line without a newline is an interrupted append. *)
HasTail(f) == EndsOpen(f) /\ ~Parses(LastLine(f))

WithoutTail(f) == IF HasTail(f) THEN SubSeq(f, 1, Len(f) - 1) ELSE f

(* Mutant of Readable: the tail counts as a broken record. *)
ReadableWhole(f) ==
  /\ \A i \in DOMAIN f : Parses(f[i])
  /\ \A i \in 2 .. Len(f) : f[i - 1].sequence < f[i].sequence

(* read_session raises unless every other line is a valid record and the   *)
(* sequences increase.                                                     *)
Readable(f) ==
  LET lines == WithoutTail(f)
  IN  /\ \A i \in DOMAIN lines : Parses(lines[i])
      /\ \A i \in 2 .. Len(lines) : lines[i - 1].sequence < lines[i].sequence

(* The events a reader gets. *)
Recovered(f) == {WithoutTail(f)[i].event : i \in DOMAIN WithoutTail(f)}

-----------------------------------------------------------------------------
(* Writing. *)

(* How far the write of a line got. *)
Progress == {"nothing", "separator", "part", "record", "all"}

(* Mutant of Opened: a record whose newline is missing is written after.   *)
OpenedBare ==
  LET lines == WithoutTail(file)
  IN  [next |-> IF lines = <<>> THEN 1 ELSE LastLine(lines).sequence + 1,
       separator |-> FALSE, tail |-> HasTail(file)]

(* What a new store remembers of the file. *)
Opened ==
  LET lines == WithoutTail(file)
  IN  [next |-> IF lines = <<>> THEN 1 ELSE LastLine(lines).sequence + 1,
       separator |-> lines # <<>> /\ EndsOpen(file),
       tail |-> HasTail(file)]

(***************************************************************************)
(* The file after store s wrote the bytes of event e up to p: a separator  *)
(* if the store believes it is needed, the record and the newline.  Bytes  *)
(* written behind an open line become part of it.                          *)
(***************************************************************************)
Written(s, e, p) ==
  LET separated == memory[s].separator /\ p # "nothing"
      base == IF separated /\ EndsOpen(file)
                THEN [file EXCEPT ![Len(file)].newline = TRUE] ELSE file
      junk == Line(0, 0, p = "all")
      line == IF p = "part" THEN junk ELSE Line(e, memory[s].next, p = "all")
  IN  IF p \in {"nothing", "separator"} THEN base
      ELSE IF EndsOpen(base) THEN [base EXCEPT ![Len(base)] = junk]
      ELSE Append(base, line)

(* Mutant of CanAppend: a failed append does not poison the store. *)
CanAppendAgain(s) == mode[s] \in {"open", "failed"} /\ ~memory[s].tail

CanAppend(s) == mode[s] = "open" /\ ~memory[s].tail

AppendEvent(s) ==
  /\ CanAppend(s) /\ tried < MaxAppends
  /\ tried' = tried + 1 /\ acked' = acked \cup {tried + 1}
  /\ file' = Written(s, tried + 1, "all")
  /\ memory' = [memory EXCEPT ![s].next = @ + 1, ![s].separator = FALSE]
  /\ UNCHANGED mode

(* The write raises after some of its bytes, or its fsync after all.       *)
FailAppend(s) ==
  /\ CanAppend(s) /\ tried < MaxAppends
  /\ tried' = tried + 1
  /\ \E p \in Progress : file' = Written(s, tried + 1, p)
  /\ mode' = [mode EXCEPT ![s] = "failed"]
  /\ UNCHANGED <<memory, acked>>

(* The end of the process: it may cut a write of store s. *)
Cut(s) ==
  \/ UNCHANGED <<file, tried>>
  \/ /\ CanAppend(s) /\ tried < MaxAppends
     /\ tried' = tried + 1
     /\ \E p \in Progress : file' = Written(s, tried + 1, p)

Crash(s) ==
  /\ mode[s] \in {"open", "failed"}
  /\ mode' = [mode EXCEPT ![s] = "closed"]
  /\ Cut(s)
  /\ UNCHANGED <<memory, acked>>

Close(s) ==
  /\ mode[s] \in {"open", "failed"}
  /\ mode' = [mode EXCEPT ![s] = "closed"]
  /\ UNCHANGED <<file, memory, tried, acked>>

-----------------------------------------------------------------------------
(* Opening. *)

(* Mutant of DiscardTail: every last line without a newline is dropped. *)
DiscardOpenLine ==
  /\ EndsOpen(file)
  /\ file' = SubSeq(file, 1, Len(file) - 1)
  /\ UNCHANGED <<mode, memory, tried, acked>>

(* discard_incomplete_tail, called by a resume that reported the tail. *)
DiscardTail ==
  /\ HasTail(file) /\ Readable(file)
  /\ file' = WithoutTail(file)
  /\ UNCHANGED <<mode, memory, tried, acked>>

Open(s) ==
  /\ mode[s] = "none" /\ Readable(file)
  /\ mode' = [mode EXCEPT ![s] = "open"]
  /\ memory' = [memory EXCEPT ![s] = Opened]
  /\ UNCHANGED <<file, tried, acked>>

StoreInit ==
  /\ file = <<>> /\ mode = [s \in Stores |-> "none"]
  /\ memory = [s \in Stores |->
                 [next |-> 1, separator |-> FALSE, tail |-> FALSE]]
  /\ tried = 0 /\ acked = {}

Writes(s) == AppendEvent(s) \/ FailAppend(s) \/ Crash(s) \/ Close(s)

(* Nobody else has the file open. *)
Released == \A s \in Stores : mode[s] # "open"

(* One process after the other: a store is opened, or the file prepared    *)
(* for it, only when no other store can write.                             *)
StoreNext ==
  \/ Released /\ DiscardTail
  \/ \E s \in Stores : (Released /\ Open(s)) \/ Writes(s)

StoreSpec == StoreInit /\ [][StoreNext]_storeVars

-----------------------------------------------------------------------------
(* Properties. *)

Modes == {"none", "open", "failed", "closed"}

StoreTypeOK ==
  /\ file \in Seq([event : Nat, sequence : Nat, newline : BOOLEAN])
  /\ mode \in [Stores -> Modes]
  /\ memory \in [Stores -> [next : Nat \ {0}, separator : BOOLEAN,
                            tail : BOOLEAN]]
  /\ tried \in 0 .. MaxAppends /\ acked \in SUBSET (1 .. MaxAppends)

(* Whatever writes were cut and wherever, by a failing disk or by the end  *)
(* of the process, the file can be read again.                             *)
AlwaysReadable == Readable(file)

(* An event whose append returned is never lost: later appends do not run  *)
(* into it and preparing a resume does not cut it off.                     *)
AcknowledgedRecovered == acked \subseteq Recovered(file)

(* The records that are in the file keep their sequences, which are        *)
(* 1, 2, ... without a gap: a cursor never skips an event.                 *)
SequencesContiguous ==
  LET lines == WithoutTail(file)
  IN  \A i \in DOMAIN lines : lines[i].sequence = i

(* The records a reader can see stay where they are. *)
RecordsStay ==
  LET before == WithoutTail(file)
      after == WithoutTail(file')
  IN  /\ Len(before) =< Len(after)
      /\ \A i \in DOMAIN before :
           /\ after[i].event = before[i].event
           /\ after[i].sequence = before[i].sequence

(* A record, once a reader can see it, stays where it is. *)
RecordsAreFinal == [][RecordsStay]_storeVars
=============================================================================

------------------------ MODULE SessionStoreProofs ------------------------
(***************************************************************************)
(* Proofs about SessionStore, for any set of stores and any number of      *)
(* appends, and that TransportRegistry keeps its rule of one writer, and   *)
(* with it the file, for any frontend, until a session is posted beside a  *)
(* backend that lingers behind its answer.                                 *)
(***************************************************************************)
EXTENDS TransportRegistry, SequenceTheorems, TLAPS

LineType == [event : Nat, sequence : Nat, newline : BOOLEAN]

(* Every line but the last is a record with its newline, and a record is   *)
(* in its place.                                                           *)
Placed(f) ==
  \A i \in 1 .. Len(f) :
    /\ Parses(f[i]) => f[i].sequence = i
    /\ f[i].newline => Parses(f[i])
    /\ i < Len(f) => f[i].newline

(* A store that may append knows where the file ends. *)
Agrees(s) ==
  mode[s] = "open" =>
    IF memory[s].tail THEN HasTail(file)
    ELSE /\ ~HasTail(file) /\ memory[s].next = Len(file) + 1
         /\ memory[s].separator = EndsOpen(file)

OneWriter ==
  \A s, t \in Stores : mode[s] = "open" /\ mode[t] = "open" => s = t

(* The events whose append returned are in the file. *)
Kept == \A e \in acked : \E i \in 1 .. Len(file) : file[i].event = e

StoreInv ==
  /\ StoreTypeOK
  /\ Placed(file)
  /\ \A s \in Stores : Agrees(s)
  /\ OneWriter /\ Kept

-----------------------------------------------------------------------------
(* The three ways the file changes, line by line. *)
LEMMA CutLine ==
  ASSUME NEW S, NEW f \in Seq(S), NEW k \in Nat, k =< Len(f)
  PROVE  /\ SubSeq(f, 1, k) \in Seq(S) /\ Len(SubSeq(f, 1, k)) = k
         /\ \A i \in 1 .. k : SubSeq(f, 1, k)[i] = f[i]
<1>1. \A i \in 1 .. k : f[i] \in S
  BY LenProperties
<1>2. 1 \in Int /\ k \in Int
  OBVIOUS
<1> QED
  BY <1>1, <1>2, SubSeqProperties

LEMMA ChangeLine ==
  ASSUME NEW S, NEW f \in Seq(S), NEW k \in 1 .. Len(f), NEW x \in S
  PROVE  /\ [f EXCEPT ![k] = x] \in Seq(S)
         /\ Len([f EXCEPT ![k] = x]) = Len(f)
         /\ \A i \in 1 .. Len(f) :
              [f EXCEPT ![k] = x][i] = IF i = k THEN x ELSE f[i]
BY ExceptSeq

LEMMA AddLine ==
  ASSUME NEW S, NEW f \in Seq(S), NEW x \in S
  PROVE  /\ Append(f, x) \in Seq(S) /\ Len(Append(f, x)) = Len(f) + 1
         /\ \A i \in 1 .. Len(f) : Append(f, x)[i] = f[i]
         /\ Append(f, x)[Len(f) + 1] = x
BY AppendProperties

(* EndsOpen and HasTail look at the last line only. *)
LEMMA LastLineDecides ==
  ASSUME NEW f \in Seq(LineType)
  PROVE  /\ Len(f) \in Nat
         /\ EndsOpen(f) <=> Len(f) > 0 /\ ~f[Len(f)].newline
         /\ HasTail(f) <=> EndsOpen(f) /\ ~Parses(f[Len(f)])
<1>1. Len(f) \in Nat /\ (f # <<>> <=> Len(f) > 0)
  BY EmptySeq, LenProperties
<1> QED
  BY <1>1 DEF EndsOpen, HasTail, LastLine

(* What a reader makes of a file whose lines are in place. *)
LEMMA ReadPlaced ==
  ASSUME NEW f \in Seq(LineType), Placed(f)
  PROVE  /\ WithoutTail(f) \in Seq(LineType)
         /\ Len(WithoutTail(f)) = IF HasTail(f) THEN Len(f) - 1 ELSE Len(f)
         /\ \A i \in 1 .. Len(WithoutTail(f)) :
              /\ WithoutTail(f)[i] = f[i]
              /\ Parses(f[i]) /\ f[i].sequence = i
<1> DEFINE w == WithoutTail(f)
<1>1. CASE ~HasTail(f)
  <2>1. w = f
    BY <1>1 DEF WithoutTail
  <2>2. \A i \in 1 .. Len(f) : Parses(f[i])
    <3>1. Len(f) > 0 => f[Len(f)].newline \/ Parses(f[Len(f)])
      BY <1>1, LastLineDecides
    <3> QED
      BY <3>1 DEF Placed
  <2> QED
    BY <2>1, <2>2, <1>1 DEF Placed
<1>2. CASE HasTail(f)
  <2> DEFINE n == Len(f)
  <2>1. n \in Nat \ {0}
    BY <1>2, LastLineDecides
  <2>2. w = SubSeq(f, 1, n - 1)
    BY <1>2 DEF WithoutTail
  <2>3. n - 1 \in Nat /\ n - 1 =< Len(f)
    BY <2>1
  <2>4. /\ w \in Seq(LineType) /\ Len(w) = n - 1
        /\ \A i \in 1 .. n - 1 : w[i] = f[i]
    <3> HIDE DEF n
    <3> QED
      BY <2>2, <2>3, CutLine
  <2>5. \A i \in 1 .. n - 1 : Parses(f[i]) /\ f[i].sequence = i
    BY <2>1 DEF Placed
  <2> QED
    BY <2>1, <2>4, <2>5, <1>2
<1> QED
  BY <1>1, <1>2

(* Such a file is readable. *)
LEMMA PlacedIsReadable ==
  ASSUME NEW f \in Seq(LineType), Placed(f)
  PROVE  Readable(f)
BY ReadPlaced DEF Readable

-----------------------------------------------------------------------------
(* The file with its last line ended. *)
Ended(f) == IF EndsOpen(f) THEN [f EXCEPT ![Len(f)].newline = TRUE] ELSE f

LEMMA EndedPlaced ==
  ASSUME NEW f \in Seq(LineType), Placed(f), ~HasTail(f)
  PROVE  /\ Ended(f) \in Seq(LineType) /\ Len(Ended(f)) = Len(f)
         /\ Placed(Ended(f)) /\ ~EndsOpen(Ended(f))
         /\ \A i \in 1 .. Len(f) : Ended(f)[i].event = f[i].event
<1> DEFINE n == Len(f)
           last == [f[n] EXCEPT !.newline = TRUE]
           h == [f EXCEPT ![n] = last]
<1>1. CASE EndsOpen(f)
  <2>1. /\ n \in Nat /\ n \in 1 .. n /\ f[n] \in LineType
        /\ Parses(f[n])
    BY <1>1, LastLineDecides
  <2>2. /\ last \in LineType /\ last.event = f[n].event
        /\ last.sequence = f[n].sequence /\ last.newline = TRUE
    BY <2>1 DEF LineType
  <2>3. Ended(f) = h
    BY <1>1 DEF Ended
  <2> HIDE DEF last
  <2>4. /\ h \in Seq(LineType) /\ Len(h) = n
        /\ \A i \in 1 .. n : h[i] = IF i = n THEN last ELSE f[i]
    BY <2>1, <2>2, ChangeLine
  <2> HIDE DEF h
  <2>5. ~EndsOpen(h)
    BY <2>1, <2>2, <2>4, LastLineDecides
  <2>6. Placed(h)
    BY <2>1, <2>2, <2>4 DEF Placed, Parses
  <2>7. \A i \in 1 .. n : h[i].event = f[i].event
    BY <2>2, <2>4
  <2> QED
    BY <2>3, <2>4, <2>5, <2>6, <2>7
<1>2. CASE ~EndsOpen(f)
  BY <1>2 DEF Ended
<1> QED
  BY <1>1, <1>2

(* A line behind a file whose last line is ended. *)
LEMMA AppendPlaced ==
  ASSUME NEW f \in Seq(LineType), Placed(f), ~EndsOpen(f),
         NEW x \in LineType, Parses(x) => x.sequence = Len(f) + 1,
         x.newline => Parses(x)
  PROVE  Placed(Append(f, x))
<1> DEFINE g == Append(f, x)
<1>1. /\ g \in Seq(LineType) /\ Len(g) = Len(f) + 1
      /\ \A i \in 1 .. Len(f) : g[i] = f[i]
      /\ g[Len(f) + 1] = x
  BY AddLine
<1> HIDE DEF g
<1>2. Len(f) \in Nat
  OBVIOUS
<1>3. \A i \in 1 .. Len(f) : f[i].newline
  BY <1>2, LastLineDecides DEF Placed
<1>4. Placed(g)
  <2> SUFFICES ASSUME NEW i \in 1 .. Len(g)
               PROVE  /\ Parses(g[i]) => g[i].sequence = i
                      /\ g[i].newline => Parses(g[i])
                      /\ i < Len(g) => g[i].newline
    BY DEF Placed
  <2>1. CASE i = Len(f) + 1
    BY <2>1, <1>1, <1>2
  <2>2. CASE i \in 1 .. Len(f)
    BY <2>2, <1>1, <1>3 DEF Placed
  <2> QED
    BY <2>1, <2>2, <1>1, <1>2
<1> QED
  BY <1>4 DEF g

-----------------------------------------------------------------------------
(* An append that may write, and stops after p: what was there stays, a    *)
(* tail is new, and after all of it the event is the last record.          *)
LEMMA WrittenPlaced ==
  ASSUME StoreInv, NEW s \in Stores, CanAppend(s),
         NEW e \in Nat \ {0}, NEW p \in Progress,
         NEW g, g = Written(s, e, p)
  PROVE  /\ g \in Seq(LineType) /\ Placed(g)
         /\ Len(g) \in {Len(file), Len(file) + 1}
         /\ \A i \in 1 .. Len(file) : g[i].event = file[i].event
         /\ HasTail(g) => Len(g) = Len(file) + 1
         /\ p = "all" => /\ ~EndsOpen(g) /\ Len(g) = Len(file) + 1
                         /\ g[Len(g)].event = e
<1> DEFINE n == Len(file)
           line == IF p = "part" THEN Line(0, 0, FALSE)
                   ELSE Line(e, memory[s].next, p = "all")
<1>1. /\ file \in Seq(LineType) /\ n \in Nat /\ Placed(file)
      /\ ~HasTail(file) /\ memory[s].next = n + 1
      /\ memory[s].separator = EndsOpen(file)
  BY DEF StoreInv, StoreTypeOK, LineType, CanAppend, Agrees
<1>2. /\ Ended(file) \in Seq(LineType) /\ Len(Ended(file)) = n
      /\ Placed(Ended(file)) /\ ~EndsOpen(Ended(file))
      /\ ~HasTail(Ended(file))
      /\ \A i \in 1 .. n : Ended(file)[i].event = file[i].event
  BY <1>1, EndedPlaced DEF HasTail
<1>3. CASE p = "nothing"
  <2>1. g = file
    BY <1>3 DEF Written
  <2> QED
    BY <1>1, <1>3, <2>1
<1>4. CASE p = "separator"
  <2>1. g = Ended(file)
    BY <1>1, <1>4 DEF Written, Ended
  <2> QED
    BY <1>1, <1>2, <1>4, <2>1
<1>5. CASE p \in {"part", "record", "all"}
  <2>1. g = Append(Ended(file), line)
    BY <1>1, <1>2, <1>5 DEF Written, Ended
  <2>2. /\ line \in LineType
        /\ Parses(line) => line.sequence = n + 1
        /\ line.newline => Parses(line)
        /\ p = "all" => line.newline /\ line.event = e
    <3>1. CASE p = "part"
      BY <3>1 DEF Line, LineType, Parses
    <3>2. CASE p # "part"
      <4> DEFINE whole == p = "all"
      <4>1. line = [event |-> e, sequence |-> n + 1, newline |-> whole]
        BY <1>1, <3>2 DEF Line
      <4>2. whole \in BOOLEAN
        OBVIOUS
      <4> HIDE DEF line, n, whole
      <4>3. /\ line \in LineType /\ line.event = e
            /\ line.sequence = n + 1 /\ line.newline = whole
        BY <1>1, <4>1, <4>2 DEF LineType
      <4>4. Parses(line)
        BY <4>3 DEF Parses
      <4> QED
        BY <4>3, <4>4 DEF whole
    <3> QED
      BY <3>1, <3>2
  <2> HIDE DEF line
  <2>3. /\ g \in Seq(LineType) /\ Len(g) = n + 1
        /\ \A i \in 1 .. n : g[i] = Ended(file)[i]
        /\ g[n + 1] = line
    BY <1>2, <2>1, <2>2, AddLine
  <2>4. Placed(g)
    BY <1>2, <2>1, <2>2, AppendPlaced
  <2>5. p = "all" => ~EndsOpen(g)
    BY <1>1, <2>2, <2>3, LastLineDecides
  <2> QED
    BY <1>1, <1>2, <2>2, <2>3, <2>4, <2>5
<1> QED
  BY <1>3, <1>4, <1>5 DEF Progress

-----------------------------------------------------------------------------
(* A write cut at p, with or without the process. *)
LEMMA CutKeeps ==
  ASSUME StoreInv, StoreAssumption, NEW s \in Stores, CanAppend(s),
         tried < MaxAppends, tried' = tried + 1,
         NEW p \in Progress, file' = Written(s, tried + 1, p),
         mode' \in [Stores -> Modes], mode'[s] # "open",
         \A t \in Stores \ {s} : mode'[t] = mode[t],
         UNCHANGED <<memory, acked>>
  PROVE  StoreInv'
<1> DEFINE n == Len(file)
<1>1. /\ tried \in Nat /\ tried + 1 \in Nat \ {0}
      /\ tried + 1 \in 0 .. MaxAppends
  BY DEF StoreInv, StoreTypeOK, StoreAssumption
<1>2. /\ file' \in Seq(LineType) /\ Placed(file')
      /\ Len(file') \in {n, n + 1} /\ n \in Nat
      /\ \A i \in 1 .. n : file'[i].event = file[i].event
  <2>1. file \in Seq(LineType)
    BY DEF StoreInv, StoreTypeOK, LineType
  <2> QED
    BY <1>1, <2>1, WrittenPlaced
<1>3. StoreTypeOK'
  BY <1>1, <1>2 DEF StoreInv, StoreTypeOK, LineType
<1>4. \A t \in Stores : mode'[t] # "open"
  BY DEF StoreInv, OneWriter, CanAppend
<1>5. Kept'
  BY <1>2 DEF StoreInv, Kept
<1> QED
  BY <1>2, <1>3, <1>4, <1>5 DEF StoreInv, Agrees, OneWriter

LEMMA AppendKeeps ==
  ASSUME StoreInv, StoreAssumption, NEW s \in Stores, AppendEvent(s)
  PROVE  StoreInv'
<1> DEFINE n == Len(file)
<1>1. /\ tried \in Nat /\ tried + 1 \in 1 .. MaxAppends
      /\ tried + 1 \in 0 .. MaxAppends /\ tried + 1 \in Nat \ {0}
      /\ CanAppend(s) /\ memory[s].next = n + 1 /\ n \in Nat
      /\ file \in Seq(LineType)
  BY DEF StoreInv, StoreTypeOK, StoreAssumption, AppendEvent, CanAppend,
         Agrees, LineType
<1>2. /\ file' \in Seq(LineType) /\ Placed(file')
      /\ Len(file') = n + 1 /\ ~EndsOpen(file')
      /\ \A i \in 1 .. n : file'[i].event = file[i].event
      /\ file'[n + 1].event = tried + 1
  BY <1>1, WrittenPlaced DEF AppendEvent, Progress
<1>3. StoreTypeOK'
  <2>1. /\ file' \in Seq([event : Nat, sequence : Nat, newline : BOOLEAN])
        /\ mode' \in [Stores -> Modes]
        /\ tried' \in 0 .. MaxAppends
        /\ acked' \in SUBSET (1 .. MaxAppends)
    BY <1>1, <1>2 DEF StoreInv, StoreTypeOK, AppendEvent, LineType
  <2>2. memory' \in [Stores -> [next : Nat \ {0}, separator : BOOLEAN,
                                tail : BOOLEAN]]
    <3> DEFINE Memory == [next : Nat \ {0}, separator : BOOLEAN,
                          tail : BOOLEAN]
               m == memory[s]
               after == [m EXCEPT !.next = m.next + 1, !.separator = FALSE]
    <3>1. memory \in [Stores -> Memory] /\ m \in Memory
      BY DEF StoreInv, StoreTypeOK
    <3>2. memory' = [memory EXCEPT ![s] = after]
      BY DEF AppendEvent
    <3>3. after \in Memory
      <4> HIDE DEF m
      <4>1. m.next + 1 \in Nat \ {0}
        BY <3>1
      <4>2. [m EXCEPT !.next = m.next + 1] \in Memory
        BY <3>1, <4>1
      <4> QED
        BY <4>2
    <3> HIDE DEF after, Memory
    <3>4. memory' \in [Stores -> Memory]
      BY <3>1, <3>2, <3>3
    <3> QED
      BY <3>4 DEF Memory
  <2> QED
    BY <2>1, <2>2 DEF StoreTypeOK
<1>4. /\ memory'[s].next = n + 2 /\ memory'[s].separator = FALSE
      /\ ~memory'[s].tail /\ mode'[s] = "open"
      /\ \A t \in Stores \ {s} : mode'[t] # "open"
  BY <1>1 DEF StoreInv, StoreTypeOK, AppendEvent, CanAppend, OneWriter
<1>5. \A t \in Stores : Agrees(t)'
  <2>1. ~HasTail(file)'
    BY <1>2 DEF HasTail
  <2>2. Agrees(s)'
    <3>1. memory'[s].separator = EndsOpen(file)'
      BY <1>2, <1>4 DEF EndsOpen
    <3>2. memory'[s].next = Len(file)' + 1
      BY <1>1, <1>2, <1>4
    <3> QED
      BY <1>4, <2>1, <3>1, <3>2 DEF Agrees
  <2>3. \A t \in Stores \ {s} : Agrees(t)'
    BY <1>4 DEF Agrees
  <2> QED
    BY <2>2, <2>3
<1>6. Kept'
  <2> SUFFICES ASSUME NEW e \in acked'
               PROVE  \E i \in 1 .. n + 1 : file'[i].event = e
    BY <1>2 DEF Kept
  <2>1. CASE e \in acked
    <3>1. PICK i \in 1 .. n : file[i].event = e
      BY <2>1 DEF StoreInv, Kept
    <3> QED
      BY <1>1, <1>2, <3>1
  <2>2. CASE e = tried + 1
    BY <1>1, <1>2, <2>2
  <2> QED
    BY <2>1, <2>2 DEF AppendEvent
<1> QED
  BY <1>2, <1>3, <1>4, <1>5, <1>6 DEF StoreInv, OneWriter

(* The truncation takes only what no append has acknowledged. *)
LEMMA DiscardKeeps ==
  ASSUME StoreInv, Released, DiscardTail
  PROVE  StoreInv'
<1> DEFINE n == Len(file)
<1>1. file \in Seq(LineType) /\ Placed(file) /\ HasTail(file)
  BY DEF StoreInv, StoreTypeOK, LineType, DiscardTail
<1>2. n \in Nat \ {0} /\ ~Parses(file[n])
  BY <1>1, LastLineDecides
<1>3. /\ file' \in Seq(LineType) /\ Len(file') = n - 1
      /\ \A i \in 1 .. n - 1 : file'[i] = file[i]
  BY <1>1, ReadPlaced DEF DiscardTail
<1>4. Placed(file')
  BY <1>1, <1>2, <1>3 DEF Placed
<1>5. Kept'
  <2> SUFFICES ASSUME NEW e \in acked
               PROVE  \E i \in 1 .. n - 1 : file'[i].event = e
    BY <1>3 DEF Kept, DiscardTail
  <2>1. PICK i \in 1 .. n : file[i].event = e
    BY DEF StoreInv, Kept
  <2>2. e # 0
    BY DEF StoreInv, StoreTypeOK
  <2>3. i \in 1 .. n - 1
    BY <1>2, <2>1, <2>2 DEF Parses
  <2> QED
    BY <1>3, <2>1, <2>3
<1>6. StoreTypeOK'
  BY <1>3 DEF StoreInv, StoreTypeOK, LineType, DiscardTail
<1> QED
  BY <1>4, <1>5, <1>6 DEF StoreInv, Agrees, OneWriter, Released, DiscardTail

(* What a new store remembers agrees with the file. *)
LEMMA OpenKeeps ==
  ASSUME StoreInv, Released, NEW s \in Stores, Open(s)
  PROVE  StoreInv'
<1> DEFINE lines == WithoutTail(file)
<1>1. file \in Seq(LineType) /\ Placed(file) /\ Len(file) \in Nat
  BY DEF StoreInv, StoreTypeOK, LineType
<1>2. /\ lines \in Seq(LineType) /\ Len(lines) \in Nat
      /\ lines # <<>> => LastLine(lines).sequence = Len(lines)
      /\ ~HasTail(file) => lines = file
  <2>1. lines \in Seq(LineType) /\ Len(lines) \in Nat
    BY <1>1, ReadPlaced
  <2>2. lines # <<>> => Len(lines) \in 1 .. Len(lines)
    BY <2>1, EmptySeq
  <2> QED
    BY <1>1, <2>1, <2>2, ReadPlaced DEF LastLine, WithoutTail
<1>3. /\ Opened.next = Len(lines) + 1
      /\ Opened.separator = (lines # <<>> /\ EndsOpen(file))
      /\ Opened.tail = HasTail(file)
  <2>1. lines = <<>> => Len(lines) = 0
    BY EmptySeq
  <2> QED
    BY <1>2, <2>1 DEF Opened
<1>4. Opened \in [next : Nat \ {0}, separator : BOOLEAN, tail : BOOLEAN]
  BY <1>2, <1>3 DEF Opened, HasTail, EndsOpen
<1>5. /\ mode'[s] = "open" /\ memory'[s] = Opened
      /\ \A t \in Stores \ {s} : mode'[t] # "open"
      /\ UNCHANGED <<file, tried, acked>>
  BY DEF Open, StoreInv, StoreTypeOK, Released
<1>6. StoreTypeOK'
  BY <1>4, <1>5 DEF StoreInv, StoreTypeOK, Open, Modes
<1>7. Agrees(s)'
  <2>1. CASE HasTail(file)
    BY <1>3, <1>5, <2>1 DEF Agrees
  <2>2. CASE ~HasTail(file)
    BY <1>1, <1>2, <1>3, <1>5, <2>2 DEF Agrees, EndsOpen
  <2> QED
    BY <2>1, <2>2
<1> QED
  BY <1>5, <1>6, <1>7 DEF StoreInv, Agrees, OneWriter, Kept

-----------------------------------------------------------------------------
(* Every step of the stores keeps the invariant. *)
LEMMA StoreStep ==
  ASSUME StoreInv, StoreAssumption, [StoreNext]_storeVars
  PROVE  StoreInv'
<1>1. CASE Released /\ DiscardTail
  BY <1>1, DiscardKeeps
<1>2. ASSUME NEW s \in Stores, Released /\ Open(s) PROVE StoreInv'
  BY <1>2, OpenKeeps
<1>3. ASSUME NEW s \in Stores, AppendEvent(s) PROVE StoreInv'
  BY <1>3, AppendKeeps
<1>4. ASSUME NEW s \in Stores, FailAppend(s) PROVE StoreInv'
  <2>1. PICK p \in Progress : file' = Written(s, tried + 1, p)
    BY <1>4 DEF FailAppend
  <2>2. /\ mode' \in [Stores -> Modes] /\ mode'[s] # "open"
        /\ \A t \in Stores \ {s} : mode'[t] = mode[t]
    BY <1>4 DEF FailAppend, StoreInv, StoreTypeOK, Modes
  <2> QED
    BY <1>4, <2>1, <2>2, CutKeeps DEF FailAppend
<1>5. ASSUME NEW s \in Stores, Crash(s) PROVE StoreInv'
  <2>1. /\ mode' \in [Stores -> Modes] /\ mode'[s] = "closed"
        /\ \A t \in Stores \ {s} : mode'[t] = mode[t]
        /\ UNCHANGED <<memory, acked>>
    BY <1>5 DEF Crash, StoreInv, StoreTypeOK, Modes
  <2>2. CASE UNCHANGED <<file, tried>>
    BY <2>1, <2>2 DEF StoreInv, StoreTypeOK, Agrees, OneWriter, Kept
  <2>3. CASE ~UNCHANGED <<file, tried>>
    <3>1. PICK p \in Progress : file' = Written(s, tried + 1, p)
      BY <1>5, <2>3 DEF Crash, Cut
    <3>2. CanAppend(s) /\ tried < MaxAppends /\ tried' = tried + 1
      BY <1>5, <2>3 DEF Crash, Cut
    <3> QED
      BY <2>1, <3>1, <3>2, CutKeeps
  <2> QED
    BY <2>2, <2>3
<1>6. ASSUME NEW s \in Stores, Close(s) PROVE StoreInv'
  <2>1. /\ mode' \in [Stores -> Modes] /\ mode'[s] = "closed"
        /\ \A t \in Stores \ {s} : mode'[t] = mode[t]
        /\ UNCHANGED <<file, memory, tried, acked>>
    BY <1>6 DEF Close, StoreInv, StoreTypeOK, Modes
  <2> QED
    BY <2>1 DEF StoreInv, StoreTypeOK, Agrees, OneWriter, Kept
<1>7. CASE UNCHANGED storeVars
  BY <1>7 DEF storeVars, StoreInv, StoreTypeOK, Agrees, OneWriter, Kept
<1> QED
  BY <1>1, <1>2, <1>3, <1>4, <1>5, <1>6, <1>7 DEF StoreNext, Writes

LEMMA StoreBegins ==
  ASSUME StoreInit
  PROVE  StoreInv
<1>1. StoreTypeOK
  BY StoreAssumption DEF StoreInit, StoreTypeOK, Modes
<1> QED
  BY <1>1 DEF StoreInit, StoreInv, Placed, Agrees, OneWriter, Kept

LEMMA StoreInvariant == StoreSpec => []StoreInv
<1>1. StoreInit => StoreInv
  BY StoreBegins
<1>2. StoreInv /\ [StoreNext]_storeVars => StoreInv'
  BY StoreAssumption, StoreStep
<1> QED
  BY <1>1, <1>2, PTL DEF StoreSpec

LEMMA StoreInvSafe ==
  ASSUME StoreInv
  PROVE  AlwaysReadable /\ SequencesContiguous /\ AcknowledgedRecovered
<1> DEFINE lines == WithoutTail(file)
<1>1. /\ file \in Seq(LineType) /\ Placed(file)
      /\ DOMAIN lines = 1 .. Len(lines)
  BY ReadPlaced DEF StoreInv, StoreTypeOK, LineType
<1>2. AlwaysReadable
  BY <1>1, PlacedIsReadable DEF AlwaysReadable
<1>3. SequencesContiguous
  BY <1>1, ReadPlaced DEF SequencesContiguous
<1>4. AcknowledgedRecovered
  <2> SUFFICES ASSUME NEW e \in acked
               PROVE  \E i \in 1 .. Len(lines) : lines[i].event = e
    BY <1>1 DEF AcknowledgedRecovered, Recovered
  <2>1. PICK i \in 1 .. Len(file) : file[i].event = e
    BY DEF StoreInv, Kept
  <2>2. Parses(file[i])
    BY <2>1 DEF StoreInv, StoreTypeOK, Parses
  <2>3. i \in 1 .. Len(lines)
    BY <1>1, <2>2, ReadPlaced, LastLineDecides
  <2> QED
    BY <1>1, <2>1, <2>3, ReadPlaced
<1> QED
  BY <1>2, <1>3, <1>4

(* Whatever writes were cut, by the disk or by the end of the process: the *)
(* file can be read, its sequences have no gap, and every event whose      *)
(* append returned is in it.                                               *)
THEOREM StoreSafe ==
  StoreSpec => [](AlwaysReadable /\ SequencesContiguous
                  /\ AcknowledgedRecovered)
<1>1. StoreInv => AlwaysReadable /\ SequencesContiguous
                 /\ AcknowledgedRecovered
  BY StoreInvSafe
<1> QED
  BY <1>1, StoreInvariant, PTL

-----------------------------------------------------------------------------
(* What a reader of f saw is where it was for a reader of g. *)
Extends(g, f) ==
  LET before == WithoutTail(f)
      after == WithoutTail(g)
  IN  /\ Len(before) =< Len(after)
      /\ \A i \in DOMAIN before :
           /\ after[i].event = before[i].event
           /\ after[i].sequence = before[i].sequence

LEMMA SameLinesExtend ==
  ASSUME NEW f \in Seq(LineType), Placed(f),
         NEW g \in Seq(LineType), Placed(g),
         Len(WithoutTail(f)) =< Len(WithoutTail(g)),
         \A i \in 1 .. Len(WithoutTail(f)) : g[i].event = f[i].event
  PROVE  Extends(g, f)
<1> DEFINE before == WithoutTail(f)
           after == WithoutTail(g)
<1>1. /\ DOMAIN before = 1 .. Len(before)
      /\ Len(before) \in Nat /\ Len(after) \in Nat
  BY ReadPlaced
<1>2. ASSUME NEW i \in 1 .. Len(before)
      PROVE  /\ after[i].event = before[i].event
             /\ after[i].sequence = before[i].sequence
  <2>1. before[i] = f[i] /\ f[i].sequence = i
    BY ReadPlaced
  <2>2. i \in 1 .. Len(after)
    BY <1>1
  <2>3. after[i] = g[i] /\ g[i].sequence = i
    BY <2>2, ReadPlaced
  <2> QED
    BY <2>1, <2>3
<1> QED
  BY <1>1, <1>2 DEF Extends

LEMMA WrittenExtends ==
  ASSUME StoreInv, StoreAssumption, NEW s \in Stores, CanAppend(s),
         NEW p \in Progress, NEW g, g = Written(s, tried + 1, p)
  PROVE  Extends(g, file)
<1>1. /\ file \in Seq(LineType) /\ Placed(file) /\ Len(file) \in Nat
      /\ ~HasTail(file) /\ tried + 1 \in Nat \ {0}
  BY DEF StoreInv, StoreTypeOK, LineType, CanAppend, Agrees,
         StoreAssumption
<1>2. /\ g \in Seq(LineType) /\ Placed(g)
      /\ Len(g) \in {Len(file), Len(file) + 1}
      /\ \A i \in 1 .. Len(file) : g[i].event = file[i].event
      /\ HasTail(g) => Len(g) = Len(file) + 1
  BY <1>1, WrittenPlaced
<1>3. /\ Len(WithoutTail(file)) = Len(file)
      /\ Len(WithoutTail(g)) = IF HasTail(g) THEN Len(g) - 1 ELSE Len(g)
  BY <1>1, <1>2, ReadPlaced
<1>4. Len(WithoutTail(file)) =< Len(WithoutTail(g))
  BY <1>1, <1>2, <1>3
<1> QED
  BY <1>1, <1>2, <1>3, <1>4, SameLinesExtend

LEMMA StepExtends ==
  ASSUME StoreInv, StoreInv', StoreAssumption, [StoreNext]_storeVars
  PROVE  Extends(file', file)
<1>1. /\ file \in Seq(LineType) /\ Placed(file) /\ Len(file) \in Nat
      /\ file' \in Seq(LineType) /\ Placed(file')
  BY DEF StoreInv, StoreTypeOK, LineType
<1>2. CASE UNCHANGED file
  <2>1. Len(WithoutTail(file)) \in Nat
    BY <1>1, ReadPlaced
  <2> QED
    BY <1>2, <2>1 DEF Extends
<1>3. CASE DiscardTail
  <2>1. file' = WithoutTail(file) /\ HasTail(file)
    BY <1>3 DEF DiscardTail
  <2>2. /\ Len(file') = Len(file) - 1 /\ Len(file') \in Nat
        /\ \A i \in 1 .. Len(file') :
             file'[i] = file[i] /\ Parses(file[i])
    BY <1>1, <2>1, ReadPlaced
  <2>3. ~HasTail(file')
    BY <1>1, <2>2, LastLineDecides
  <2>4. Len(WithoutTail(file')) = Len(file')
    BY <1>1, <2>3, ReadPlaced
  <2> QED
    BY <1>1, <2>1, <2>2, <2>4, SameLinesExtend
<1>4. ASSUME NEW s \in Stores, CanAppend(s),
             NEW p \in Progress, file' = Written(s, tried + 1, p)
      PROVE  Extends(file', file)
  BY <1>4, WrittenExtends
<1>5. CASE \E s \in Stores : Writes(s) \/ Open(s)
  <2> PICK s \in Stores : Writes(s) \/ Open(s)
    BY <1>5
  <2>1. CASE AppendEvent(s)
    BY <2>1, <1>4 DEF AppendEvent, Progress
  <2>2. CASE FailAppend(s)
    BY <2>2, <1>4 DEF FailAppend
  <2>3. CASE Crash(s)
    BY <2>3, <1>2, <1>4 DEF Crash, Cut
  <2>4. CASE Close(s) \/ Open(s)
    BY <2>4, <1>2 DEF Close, Open
  <2> QED
    BY <2>1, <2>2, <2>3, <2>4 DEF Writes
<1> QED
  BY <1>2, <1>3, <1>5 DEF StoreNext, storeVars

(* A record that a reader could see stays where it is, whatever is written *)
(* or cut later: the cursor of a reader remains valid.                     *)
THEOREM StoreFinal == StoreSpec => RecordsAreFinal
<1>1. StoreInv /\ StoreInv' /\ [StoreNext]_storeVars
        => [RecordsStay]_storeVars
  BY StoreAssumption, StepExtends DEF Extends, RecordsStay
<1> QED
  BY <1>1, StoreInvariant, PTL DEF StoreSpec, RecordsAreFinal

-----------------------------------------------------------------------------
(***************************************************************************)
(* The registry admits one store after the other, until a session is       *)
(* posted beside a backend that lingers behind its answer.                 *)
(***************************************************************************)

(* Sessions whose frontend was not told yet that they are closed. *)
Serving(s) == IsOpen(s) \/ transport[s] = "deleting"

HeldKnown == \A s \in Stores : Held(s) => transport[s] # "none"

OneServed == \A s, t \in Stores : Serving(s) /\ Serving(t) => s = t

OpenIsActive == \A s \in Stores : IsOpen(s) => s \in active

DeletingWaits ==
  \A s \in Stores :
    transport[s] = "deleting" => Request("delete", s) \in request

(* A resume that has prepared the file is posted while no session serves. *)
PreparedAlone ==
  \A s \in Stores : Request("resume", s) \in request =>
    \A t \in Stores : ~Serving(t)

OneRequest == \A q, r \in request : q = r

RegistryInv ==
  /\ mode \in [Stores -> Modes] /\ transport \in [Stores -> Transports]
  /\ HeldKnown /\ OneServed /\ OpenIsActive /\ DeletingWaits
  /\ PreparedAlone /\ OneRequest

(* As long as nothing was posted beside it, who holds the file is alone.   *)
HeldAlone ==
  ~overlapped => \A s, t \in Stores : Held(s) /\ Held(t) => s = t

NoneLingers == \A s \in Stores : ~Lingers(s)

-----------------------------------------------------------------------------
LEMMA HeldServes ==
  ASSUME RegistryInv, NoneLingers, NEW s \in Stores, Held(s)
  PROVE  Serving(s)
BY DEF RegistryInv, HeldKnown, NoneLingers, Lingers, Serving, IsOpen,
       Transports

(* When the registry admits another session, none serves. *)
LEMMA NobodyServes ==
  ASSUME RegistryInv, Idle, Vacant
  PROVE  \A t \in Stores : ~Serving(t)
<1> SUFFICES ASSUME NEW t \in Stores
             PROVE  ~Serving(t)
  OBVIOUS
<1>1. ~IsOpen(t)
  BY DEF RegistryInv, OpenIsActive, Vacant
<1>2. transport[t] # "deleting"
  BY DEF RegistryInv, DeletingWaits, Idle
<1> QED
  BY <1>1, <1>2 DEF Serving

LEMMA NobodyHolds ==
  ASSUME RegistryInv, NoneLingers, \A t \in Stores : ~Serving(t)
  PROVE  Released
BY HeldServes DEF Released, Held

(* Opening the next store when no session serves. *)
LEMMA ActivateAlone ==
  ASSUME RegistryInv, NEW s \in Stores, Activate(s),
         \A t \in Stores : ~Serving(t)
  PROVE  RegistryInv' /\ (NoneLingers => StoreNext /\ \A t \in Stores :
                                                       Held(t)' => t = s)
<1>1. /\ mode' = [mode EXCEPT ![s] = "open"]
      /\ transport' = [transport EXCEPT ![s] = "open"]
      /\ active' = {s} /\ request' = {}
  BY DEF Activate, Open
<1>2. \A t \in Stores : /\ Serving(t)' => t = s
                        /\ IsOpen(t)' => t = s
                        /\ transport'[t] # "deleting"
  BY <1>1 DEF Serving, IsOpen, RegistryInv
<1>3. HeldKnown'
  BY <1>1 DEF RegistryInv, HeldKnown, Held
<1>4. OneServed' /\ OpenIsActive' /\ DeletingWaits'
  BY <1>1, <1>2 DEF OneServed, OpenIsActive, DeletingWaits
<1>5. PreparedAlone' /\ OneRequest'
  BY <1>1 DEF PreparedAlone, OneRequest
<1>6. mode' \in [Stores -> Modes] /\ transport' \in [Stores -> Transports]
  BY <1>1 DEF RegistryInv, Modes, Transports
<1>7. NoneLingers => StoreNext
  BY NobodyHolds DEF StoreNext, Activate
<1>8. NoneLingers => \A t \in Stores : Held(t)' => t = s
  BY <1>1, HeldServes DEF Held, RegistryInv
<1> QED
  BY <1>3, <1>4, <1>5, <1>6, <1>7, <1>8 DEF RegistryInv

LEMMA PostKeeps ==
  ASSUME RegistryInv, NEW s \in Stores, Post(s)
  PROVE  RegistryInv' /\ HeldAlone' /\ (~overlapped' => StoreNext)
<1>0. ~overlapped' => NoneLingers
  BY DEF Post, NoneLingers
<1>1. CASE CreateNew(s)
  BY <1>0, <1>1, NobodyServes, ActivateAlone DEF CreateNew, HeldAlone
<1>2. CASE PrepareResume(s)
  <2>1. /\ UNCHANGED <<mode, transport, active>> /\ DiscardTail
        /\ request' = {Request("resume", s)}
    BY <1>2 DEF PrepareResume, DiscardTail
  <2>2. \A t \in Stores : ~Serving(t)
    BY <1>2, NobodyServes DEF PrepareResume, MayResume
  <2>3. \A t \in Stores : ~Serving(t)'
    BY <2>1, <2>2 DEF Serving, IsOpen
  <2>4. \A t \in Stores : transport'[t] # "deleting" /\ ~IsOpen(t)'
    BY <2>3 DEF Serving
  <2>5. RegistryInv'
    BY <2>1, <2>3, <2>4
       DEF RegistryInv, HeldKnown, OneServed, OpenIsActive, DeletingWaits,
           PreparedAlone, OneRequest, Held
  <2>6. NoneLingers => \A t \in Stores : ~Held(t) /\ ~Held(t)'
    BY <2>1, <2>2, HeldServes DEF Held
  <2> QED
    BY <1>0, <2>1, <2>2, <2>5, <2>6, NobodyHolds DEF StoreNext, HeldAlone
<1>3. CASE CompleteResume(s)
  <2>1. \A t \in Stores : ~Serving(t)
    <3>1. CASE MayResume(s)
      BY <3>1, NobodyServes DEF MayResume
    <3>2. CASE Request("resume", s) \in request
      BY <3>2 DEF RegistryInv, PreparedAlone
    <3> QED
      BY <1>3, <3>1, <3>2 DEF CompleteResume
  <2> QED
    BY <1>0, <1>3, <2>1, ActivateAlone DEF CompleteResume, HeldAlone
<1> QED
  BY <1>1, <1>2, <1>3 DEF Post

-----------------------------------------------------------------------------
(* What a request for an existing session changes: it is served as before, *)
(* or no longer, or its DELETE waits.                                      *)
LEMMA ChangesOne ==
  ASSUME RegistryInv, NEW s \in Stores, NEW to \in Transports \ {"none"},
         transport' = [transport EXCEPT ![s] = to], mode' = mode,
         Serving(s)' => Serving(s), IsOpen(s)' => s \in active',
         \A t \in Stores \ {s} : t \in active => t \in active',
         OneRequest', DeletingWaits',
         \A t \in Stores : Request("resume", t) \in request' =>
                             Request("resume", t) \in request
  PROVE  RegistryInv'
<1>1. /\ transport' \in [Stores -> Transports] /\ transport'[s] = to
      /\ \A t \in Stores \ {s} : transport'[t] = transport[t]
  BY DEF RegistryInv
<1>2. \A t \in Stores \ {s} : /\ Serving(t)' <=> Serving(t)
                              /\ IsOpen(t)' <=> IsOpen(t)
  BY <1>1 DEF Serving, IsOpen
<1>3. \A t \in Stores : Serving(t)' => Serving(t)
  BY <1>2
<1>4. HeldKnown'
  BY <1>1 DEF RegistryInv, HeldKnown, Held
<1>5. OneServed' /\ PreparedAlone'
  BY <1>3 DEF RegistryInv, OneServed, PreparedAlone
<1>6. OpenIsActive'
  BY <1>2 DEF RegistryInv, OpenIsActive
<1> QED
  BY <1>1, <1>4, <1>5, <1>6 DEF RegistryInv

LEMMA ManageKeeps ==
  ASSUME RegistryInv, NEW s \in Stores, Manage(s)
  PROVE  RegistryInv' /\ UNCHANGED storeVars
<1>0. /\ transport \in [Stores -> Transports] /\ OneRequest /\ DeletingWaits
      /\ OpenIsActive
  BY DEF RegistryInv
<1>1. CASE FailResume(s)
  <2>1. /\ UNCHANGED <<transport, active>> /\ UNCHANGED storeVars
        /\ request' = {} /\ Request("resume", s) \in request /\ mode' = mode
    BY <1>1 DEF FailResume, storeVars
  <2>2. \A t \in Stores : transport[t] # "deleting"
    BY <2>1 DEF RegistryInv, PreparedAlone, Serving
  <2>3. DeletingWaits' /\ OneRequest' /\ PreparedAlone'
    BY <2>1, <2>2 DEF DeletingWaits, OneRequest, PreparedAlone
  <2>4. HeldKnown' /\ OneServed' /\ OpenIsActive'
    BY <2>1 DEF RegistryInv, HeldKnown, OneServed, OpenIsActive, Held,
                Serving, IsOpen
  <2> QED
    BY <2>1, <2>3, <2>4 DEF RegistryInv
<1>2. ASSUME NEW to \in {"starting", "streaming"}, IsOpen(s),
             transport' = [transport EXCEPT ![s] = to],
             UNCHANGED <<storeVars, active, request>>
      PROVE  RegistryInv'
  <2>1. mode' = mode /\ active' = active /\ request' = request
    BY <1>2 DEF storeVars
  <2>2. Serving(s) /\ s \in active' /\ to \in Transports \ {"none"}
    BY <1>0, <1>2 DEF Serving, OpenIsActive, Transports
  <2>3. OneRequest' /\ DeletingWaits'
    BY <1>0, <1>2, <2>1 DEF OneRequest, DeletingWaits
  <2> QED
    BY <1>2, <2>1, <2>2, <2>3, ChangesOne
<1>3. CASE OpenStream(s) \/ StartPump(s)
  BY <1>2, <1>3 DEF OpenStream, StartPump, IsOpen
<1>4. ASSUME NEW to \in {"commanded", "stranded", "forgotten"}, Idle,
             Release(s, to), UNCHANGED <<storeVars, request>>
      PROVE  RegistryInv'
  <2>1. /\ transport' = [transport EXCEPT ![s] = to] /\ mode' = mode
        /\ active' = active \ {s} /\ request = {} /\ request' = {}
    BY <1>4 DEF Release, Idle, storeVars
  <2>2. ~Serving(s)' /\ ~IsOpen(s)' /\ to \in Transports \ {"none"}
    BY <1>0, <2>1 DEF Serving, IsOpen, Transports
  <2>3. OneRequest' /\ DeletingWaits'
    BY <1>0, <2>1 DEF OneRequest, DeletingWaits
  <2> QED
    BY <2>1, <2>2, <2>3, ChangesOne
<1>5. CASE CloseByCommand(s) \/ CloseRaises(s) \/ DeleteAgain(s)
  BY <1>4, <1>5 DEF CloseByCommand, CloseRaises, DeleteAgain
<1>6. CASE Delete(s)
  <2>1. /\ active' = active \ {s} /\ request = {} /\ mode' = mode
        /\ request' = {Request("delete", s)} /\ UNCHANGED storeVars
    BY <1>6 DEF Delete, Release, Idle, storeVars
  <2>2. PICK to \in {"deleting", "commanded"} :
          /\ transport' = [transport EXCEPT ![s] = to]
          /\ to = "deleting" => IsOpen(s)
    BY <1>6 DEF Delete, Release, IsOpen
  <2>3. ~IsOpen(s)' /\ (Serving(s)' => Serving(s))
    BY <1>0, <2>2 DEF Serving, IsOpen
  <2>4. DeletingWaits'
    BY <1>0, <2>1, <2>2 DEF DeletingWaits
  <2>5. \A t \in Stores : Request("resume", t) # Request("delete", s)
    BY DEF Request
  <2>6. OneRequest' /\ to \in Transports \ {"none"}
    BY <2>1 DEF OneRequest, Transports
  <2> QED
    BY <2>1, <2>2, <2>3, <2>4, <2>5, <2>6, ChangesOne
<1>7. CASE AnswerDelete(s)
  <2>1. /\ Request("delete", s) \in request /\ request' = {}
        /\ transport' = [transport EXCEPT ![s] = "deleted"]
        /\ active' = active /\ mode' = mode /\ UNCHANGED storeVars
    BY <1>7 DEF AnswerDelete, storeVars
  <2>2. ASSUME NEW t \in Stores, transport[t] = "deleting"
        PROVE  t = s
    <3>1. Request("delete", t) = Request("delete", s)
      BY <1>0, <2>1, <2>2 DEF OneRequest, DeletingWaits
    <3> QED
      BY <3>1 DEF Request
  <2>3. DeletingWaits'
    BY <1>0, <2>1, <2>2 DEF DeletingWaits
  <2>4. ~Serving(s)' /\ ~IsOpen(s)' /\ "deleted" \in Transports \ {"none"}
    BY <1>0, <2>1 DEF Serving, IsOpen, Transports
  <2>5. OneRequest'
    BY <2>1 DEF OneRequest
  <2> QED
    BY <2>1, <2>3, <2>4, <2>5, ChangesOne
<1> QED
  BY <1>1, <1>3, <1>5, <1>6, <1>7 DEF Manage, Deleted, DeleteGivesUp

-----------------------------------------------------------------------------
(* The end of the process is a crash of the one store that is held.        *)
LEMMA EndKeeps ==
  ASSUME RegistryInv, HeldAlone, EndProcess, UNCHANGED overlapped
  PROVE  RegistryInv' /\ HeldAlone' /\ (~overlapped' => StoreNext)
<1>1. /\ \A t \in Stores : mode'[t] = IF Held(t) THEN "closed" ELSE mode[t]
      /\ \A t \in Stores : transport'[t] \in {"none", "deleted"}
      /\ transport' \in [Stores -> Transports]
      /\ mode' \in [Stores -> Modes]
      /\ active' = {} /\ request' = {}
  BY DEF EndProcess, Transports, RegistryInv, Modes
<1>2. \A t \in Stores : /\ ~Held(t)' /\ ~IsOpen(t)' /\ ~Serving(t)'
                        /\ transport'[t] # "deleting"
  BY <1>1 DEF Held, IsOpen, Serving
<1>3. RegistryInv'
  BY <1>1, <1>2 DEF RegistryInv, HeldKnown, OneServed, OpenIsActive,
                    DeletingWaits, PreparedAlone, OneRequest
<1>4. ASSUME ~overlapped'
      PROVE  StoreNext
  <2>1. PICK s \in Stores : Held(s) /\ Cut(s)
    BY DEF EndProcess
  <2>2. \A t \in Stores : Held(t) <=> t = s
    BY <1>4, <2>1 DEF HeldAlone
  <2>3. mode' = [mode EXCEPT ![s] = "closed"]
    BY <2>2 DEF EndProcess, RegistryInv
  <2>4. Crash(s)
    BY <2>1, <2>3 DEF EndProcess, Crash, Held
  <2> QED
    BY <2>4 DEF StoreNext, Writes
<1> QED
  BY <1>2, <1>3, <1>4 DEF HeldAlone

(* Each step keeps the invariant, and is a step of the stores or none      *)
(* until one is posted beside a backend that lingers.                      *)
LEMMA RegistryStep ==
  ASSUME RegistryInv, HeldAlone, [RegistryNext]_allVars
  PROVE  RegistryInv' /\ HeldAlone' /\ [~overlapped' => StoreNext]_storeVars
<1>1. CASE EndProcess /\ UNCHANGED overlapped
  BY <1>1, EndKeeps
<1>2. ASSUME NEW s \in Stores, Post(s)
      PROVE  RegistryInv' /\ HeldAlone' /\ (~overlapped' => StoreNext)
  BY <1>2, PostKeeps
<1>3. ASSUME NEW s \in Stores, Manage(s), UNCHANGED overlapped
      PROVE  RegistryInv' /\ HeldAlone' /\ UNCHANGED storeVars
  BY <1>3, ManageKeeps DEF HeldAlone, Held, storeVars
<1>4. ASSUME NEW s \in Stores, CloseBackend(s) \/ Work(s),
             UNCHANGED overlapped
      PROVE  RegistryInv' /\ HeldAlone' /\ StoreNext
  <2>1. /\ UNCHANGED <<transport, active, request>>
        /\ mode' \in [Stores -> Modes]
        /\ \A t \in Stores : Held(t)' => Held(t)
    BY <1>4 DEF CloseBackend, Work, Close, AppendEvent, FailAppend,
                CanAppend, registryVars, RegistryInv, Modes, Held
  <2>2. RegistryInv'
    BY <2>1 DEF RegistryInv, HeldKnown, OneServed, OpenIsActive,
                DeletingWaits, PreparedAlone, OneRequest, Serving, IsOpen
  <2>3. HeldAlone'
    BY <1>4, <2>1 DEF HeldAlone
  <2> QED
    BY <1>4, <2>2, <2>3 DEF StoreNext, Writes, CloseBackend, Work
<1>5. CASE UNCHANGED allVars
  <2>1. UNCHANGED <<mode, transport, active, request, storeVars, overlapped>>
    BY <1>5 DEF allVars, storeVars, registryVars
  <2> QED
    BY <2>1 DEF RegistryInv, HeldKnown, OneServed, OpenIsActive,
                DeletingWaits, PreparedAlone, OneRequest, Serving, IsOpen,
                Held, HeldAlone
<1> QED
  BY <1>1, <1>2, <1>3, <1>4, <1>5 DEF RegistryNext, GoOn

(* Whatever any frontend posts, commands and deletes, whichever pump is    *)
(* starting, however the waits of DELETE end and whenever the process      *)
(* ends: the file sees one store after the other, never two that write,    *)
(* until a session is posted beside a backend that lingers behind its      *)
(* answer (registry.py, create, close_session and TransportSession.close). *)
THEOREM RegistryKept == RegistrySpec => ImplementsStore
<1>1. RegistryInit => RegistryInv /\ HeldAlone /\ StoreInit
  <2> SUFFICES ASSUME RegistryInit PROVE RegistryInv /\ HeldAlone
    BY DEF RegistryInit
  <2>1. /\ mode \in [Stores -> Modes] /\ transport \in [Stores -> Transports]
        /\ \A s \in Stores : mode[s] = "none" /\ transport[s] = "none"
        /\ request = {}
    BY DEF RegistryInit, StoreInit, Modes, Transports
  <2> QED
    BY <2>1 DEF RegistryInv, HeldKnown, OneServed, OpenIsActive,
                DeletingWaits, PreparedAlone, OneRequest, Serving, IsOpen,
                Held, HeldAlone
<1>2. RegistryInv /\ HeldAlone /\ [RegistryNext]_allVars
        => /\ RegistryInv' /\ HeldAlone'
           /\ [~overlapped' => StoreNext]_storeVars
  BY RegistryStep
<1> QED
  BY <1>1, <1>2, PTL DEF RegistrySpec, ImplementsStore

(* A session that was posted beside another backend remains so.            *)
LEMMA OverlapStays ==
  ASSUME [RegistryNext]_allVars, overlapped
  PROVE  overlapped'
BY DEF RegistryNext, GoOn, Post, allVars

LEMMA RegistryFile == RegistrySpec => [](overlapped \/ StoreInv)
<1>1. StoreInit => StoreInv
  BY StoreBegins
<1>2. (overlapped \/ StoreInv) /\ [RegistryNext]_allVars
        /\ [~overlapped' => StoreNext]_storeVars
        => overlapped' \/ StoreInv'
  <2> SUFFICES ASSUME overlapped \/ StoreInv, [RegistryNext]_allVars,
                      [~overlapped' => StoreNext]_storeVars, ~overlapped'
               PROVE  StoreInv'
    OBVIOUS
  <2>1. StoreInv /\ [StoreNext]_storeVars
    BY OverlapStays
  <2> QED
    BY <2>1, StoreAssumption, StoreStep
<1> QED
  BY <1>1, <1>2, RegistryKept, PTL DEF RegistrySpec, ImplementsStore

(* Until a session is posted beside a backend that lingers, the file of a  *)
(* session can be read and holds every event whose append returned,        *)
(* wherever the server process, its disk or its requests stop (registry.py *)
(* and session.py).                                                        *)
THEOREM RegistrySafe == RegistrySpec => [](FileReadable /\ FileComplete)
<1>1. overlapped \/ StoreInv => FileReadable /\ FileComplete
  BY StoreInvSafe DEF FileReadable, FileComplete
<1> QED
  BY <1>1, RegistryFile, PTL

(* Until then no record a reader of the file can see moves, so that the    *)
(* cursors of frontends remain valid (session.py).                         *)
THEOREM RegistryFinal == RegistrySpec => FileFinal
<1>1. (overlapped \/ StoreInv) /\ (overlapped \/ StoreInv)'
        /\ [RegistryNext]_allVars /\ [~overlapped' => StoreNext]_storeVars
        => [overlapped' \/ RecordsStay]_storeVars
  <2> SUFFICES ASSUME overlapped \/ StoreInv, overlapped' \/ StoreInv',
                      [RegistryNext]_allVars,
                      [~overlapped' => StoreNext]_storeVars, ~overlapped'
               PROVE  [RecordsStay]_storeVars
    OBVIOUS
  <2>1. StoreInv /\ StoreInv' /\ [StoreNext]_storeVars
    BY OverlapStays
  <2> QED
    BY <2>1, StoreAssumption, StepExtends DEF Extends, RecordsStay
<1> QED
  BY <1>1, RegistryFile, RegistryKept, PTL
     DEF RegistrySpec, ImplementsStore, FileFinal

=============================================================================

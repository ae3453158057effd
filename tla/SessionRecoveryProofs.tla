----------------------- MODULE SessionRecoveryProofs -----------------------
(***************************************************************************)
(* What holds of a session through all its lives, wherever its process     *)
(* ends and however often it is resumed from the log: no call is           *)
(* dispatched twice, and the budget that is restored is neither more than  *)
(* was spent nor less than the completed turns have cost.  The second half *)
(* is about the context: what a request consists of, when a session can be *)
(* resumed, and that a new life takes up what the one before would have    *)
(* sent.                                                                   *)
(***************************************************************************)
EXTENDS SessionRecovery, AgentLoopProofs, FiniteSetTheorems, SequenceTheorems

-----------------------------------------------------------------------------
(***************************************************************************)
(* The invariant.  The first part is about the calls: those dispatched in  *)
(* any life have been issued, so that a new life, which starts behind the  *)
(* last one issued, has dispatched none of its own.  The second and third  *)
(* are about the model's answers, which are counted in the log while the   *)
(* counters are in memory.                                                 *)
(***************************************************************************)

(* The answers of all lives, and those of the life that has last begun.    *)
Spoken == AssistantsBefore(Len(log) + 1)

Latest ==
  {i \in Spoken : \A k \in (i + 1) .. Len(log) : log[k].type # "session_start"}

(* This life has not recorded its session_start, and no turn of it can     *)
(* complete.                                                               *)
Unopened ==
  /\ ~sessionStarted /\ exit # "completed"
  /\ pc \in {"idle", "start", "session_start", "error", "turn_end",
             "agent_end", "session_end", "close_environment"}

(* Where a step or a call has been charged, and its event is to come.      *)
Asking == {"prepare", "request"}

Calling == {"decide", "waiting", "execute", "result"}

DispatchedIssued == executed \subseteq 1 .. issued

Ledgers ==
  [snapshot : {NoSnapshot} \cup (Nat \X Nat \X Nat),
   results : Nat, errors : Nat]

(* The log charges what was spent at most, by the newest snapshot or by    *)
(* what can be counted, and a snapshot covers the turns that completed.    *)
SpentInv ==
  /\ ledger.snapshot = NoSnapshot =>
       /\ Cardinality(Spoken) =< modelSteps
       /\ pc \in Asking => Cardinality(Spoken) < modelSteps
       /\ ledger.results =< toolCalls
       /\ pc \in Calling => ledger.results < toolCalls
  /\ ledger.snapshot # NoSnapshot =>
       /\ Cardinality(CompletedAnswers) =< ledger.snapshot[1]
       /\ ledger.snapshot[1] =< modelSteps
       /\ ledger.snapshot[2] =< toolCalls

(* The turns completed and this life together have cost what is charged:   *)
(* when the turn that is running completes, its answers are covered.       *)
Earned == Cardinality(CompletedAnswers \cup Latest)

EarnedInv ==
  ~storeFailed /\ ~Unopened =>
    /\ Earned =< modelSteps
    /\ pc \in Asking => Earned < modelSteps

LivesInv ==
  /\ TypeOK /\ PhaseInv /\ DispatchedIssued
  /\ ledger \in Ledgers /\ SpentInv /\ EarnedInv

-----------------------------------------------------------------------------
(***************************************************************************)
(* Counting.  The log is read by the positions of its events, and a set of *)
(* positions by the ranks of its elements.                                 *)
(***************************************************************************)

(* In a finite set of numbers a greater one has more below it. *)
LEMMA RankRises ==
  ASSUME NEW S, S \subseteq Nat, IsFiniteSet(S), NEW i \in S, NEW j \in S,
         i < j
  PROVE  Cardinality({k \in S : k < i}) < Cardinality({k \in S : k < j})
  <1> DEFINE Below(l) == {k \in S : k < l}
  <1>1. Below(i) \in SUBSET Below(j) /\ i \in Below(j) /\ i \notin Below(i)
    <2>1. \A k \in S : k \in Nat
      OBVIOUS
    <2>2. \A k \in S : k < i => k < j
      BY <2>1
    <2>3. i \in Nat /\ ~(i < i)
      BY <2>1
    <2> QED BY <2>2, <2>3
  <1>2. IsFiniteSet(Below(j)) /\ Cardinality(Below(j)) \in Nat
    <2>1. Below(j) \in SUBSET S
      OBVIOUS
    <2> QED BY <2>1, FS_Subset, FS_CardinalityType
  <1>3. /\ Cardinality(Below(i)) \in Nat
        /\ Cardinality(Below(i)) =< Cardinality(Below(j))
        /\ Cardinality(Below(i)) = Cardinality(Below(j)) => Below(i) = Below(j)
    BY <1>1, <1>2, FS_Subset, FS_CardinalityType
  <1> HIDE DEF Below
  <1>4. Cardinality(Below(i)) < Cardinality(Below(j))
    BY <1>1, <1>2, <1>3
  <1> QED BY <1>4 DEF Below

(* The n-th element is the one with n - 1 elements below it, *)
LEMMA NthIs ==
  ASSUME NEW S, S \subseteq Nat, IsFiniteSet(S), NEW j \in S, NEW n \in Nat,
         Cardinality({i \in S : i < j}) = n - 1
  PROVE  Nth(S, n) = j
  <1>1. Nth(S, n) \in S /\ Cardinality({i \in S : i < Nth(S, n)}) = n - 1
    BY DEF Nth
  <1> DEFINE y == Nth(S, n)
  <1> HIDE DEF y
  <1>2. y \in S /\ Cardinality({i \in S : i < y}) = n - 1
    BY <1>1 DEF y
  <1>3. ~(y < j)
    <2>1. ~(n - 1 < n - 1)
      OBVIOUS
    <2> QED BY <1>2, <2>1, RankRises, Zenon
  <1>4. ~(j < y)
    <2>1. ~(n - 1 < n - 1)
      OBVIOUS
    <2> QED BY <1>2, <2>1, RankRises, Zenon
  <1>5. y \in Nat /\ j \in Nat
    BY <1>2
  <1>6. y = j
    BY <1>3, <1>4, <1>5
  <1> QED BY <1>6 DEF y

(***************************************************************************)
(* and there is one for each n up to the size of the set: ranks are        *)
(* different, and there are as many ranks as elements.                     *)
(***************************************************************************)
LEMMA NthRank ==
  ASSUME NEW S, S \subseteq Nat, IsFiniteSet(S),
         NEW n \in 1 .. Cardinality(S)
  PROVE  /\ Nth(S, n) \in S
         /\ Cardinality({i \in S : i < Nth(S, n)}) = n - 1
  <1> DEFINE Below(j) == {i \in S : i < j}
             R == 0 .. (Cardinality(S) - 1)
             rank == [j \in S |-> Cardinality(Below(j))]
  <1>1. Cardinality(S) \in Nat
    BY FS_CardinalityType
  <1>2. \A j \in S : /\ IsFiniteSet(Below(j))
                     /\ Cardinality(Below(j)) \in Nat
                     /\ Cardinality(Below(j)) < Cardinality(S)
    <2> TAKE j \in S
    <2>1. Below(j) \in SUBSET S /\ j \notin Below(j)
      OBVIOUS
    <2>2. IsFiniteSet(Below(j)) /\ Cardinality(Below(j)) \in Nat
      BY <2>1, FS_Subset, FS_CardinalityType
    <2>3. Cardinality(Below(j)) =< Cardinality(S)
          /\ (Cardinality(Below(j)) = Cardinality(S) => Below(j) = S)
      BY <2>1, FS_Subset
    <2> HIDE DEF Below
    <2> QED BY <1>1, <2>1, <2>2, <2>3
  <1>3. \A i, j \in S : i < j => Cardinality(Below(i)) < Cardinality(Below(j))
    BY RankRises
  <1>4. rank \in Injection(S, R)
    <2>1. rank \in [S -> R]
      BY <1>1, <1>2
    <2>2. \A i, j \in S : rank[i] = rank[j] => i = j
      <3> SUFFICES ASSUME NEW i \in S, NEW j \in S, rank[i] = rank[j]
                   PROVE  i = j
        OBVIOUS
      <3>1. /\ Cardinality(Below(i)) = Cardinality(Below(j))
            /\ Cardinality(Below(i)) \in Nat
        BY <1>2
      <3> HIDE DEF Below
      <3> QED BY <1>3, <3>1
    <2> QED BY <2>1, <2>2 DEF Injection, IsInjective
  <1>5. IsFiniteSet(R) /\ Cardinality(R) = Cardinality(S)
    <2>1. 0 \in Int /\ Cardinality(S) - 1 \in Int /\ 0 =< Cardinality(S) - 1
      BY <1>1
    <2>2. /\ IsFiniteSet(R)
          /\ Cardinality(R) = IF 0 > Cardinality(S) - 1 THEN 0
                              ELSE Cardinality(S) - 1 - 0 + 1
      BY <2>1, FS_Interval, Zenon
    <2> QED BY <1>1, <2>1, <2>2
  <1>6. rank \in Surjection(S, R)
    BY <1>4, <1>5, FS_Injection
  <1>7. PICK j \in S : rank[j] = n - 1
    <2>1. n - 1 \in R
      BY <1>1
    <2> HIDE DEF rank, R
    <2> QED BY <1>6, <2>1 DEF Surjection
  <1>8. j \in S /\ Cardinality({i \in S : i < j}) = n - 1
    BY <1>7
  <1> QED BY <1>8 DEF Nth

(* The elements rise with n. *)
LEMMA NthRises ==
  ASSUME NEW S, S \subseteq Nat, IsFiniteSet(S),
         NEW m \in 1 .. Cardinality(S), NEW n \in 1 .. Cardinality(S), m < n
  PROVE  Nth(S, m) < Nth(S, n)
  <1> DEFINE x == Nth(S, m)
             y == Nth(S, n)
             Below(j) == Cardinality({i \in S : i < j})
  <1>1. x \in S /\ y \in S /\ Below(x) = m - 1 /\ Below(y) = n - 1
    BY NthRank
  <1>2. y < x => Below(y) < Below(x)
    BY <1>1, RankRises
  <1> HIDE DEF x, y, Below
  <1>3. x \in Nat /\ y \in Nat /\ m \in Nat /\ n \in Nat
    BY <1>1, FS_CardinalityType
  <1>4. x # y
    BY <1>1, <1>3
  <1>5. ~(y < x)
    BY <1>1, <1>2, <1>3
  <1>6. x < y
    BY <1>3, <1>4, <1>5
  <1> QED BY <1>6 DEF x, y

(* Every element is the n-th for some n. *)
LEMMA NthAll ==
  ASSUME NEW S, S \subseteq Nat, IsFiniteSet(S), NEW j \in S
  PROVE  \E n \in 1 .. Cardinality(S) : Nth(S, n) = j
  <1> DEFINE B == {i \in S : i < j}
  <1>1. B \in SUBSET S /\ j \notin B
    OBVIOUS
  <1>2. /\ IsFiniteSet(B) /\ Cardinality(B) =< Cardinality(S)
        /\ Cardinality(B) \in Nat /\ Cardinality(S) \in Nat
        /\ Cardinality(B) = Cardinality(S) => B = S
    BY <1>1, FS_Subset, FS_CardinalityType
  <1>3. Cardinality({i \in S : i < j}) = Cardinality(B)
    OBVIOUS
  <1> HIDE DEF B
  <1>4. Cardinality(B) + 1 \in 1 .. Cardinality(S)
    BY <1>1, <1>2
  <1>5. Nth(S, Cardinality(B) + 1) = j
    <2> DEFINE n == Cardinality(B) + 1
    <2>1. n \in Nat /\ Cardinality({i \in S : i < j}) = n - 1
      BY <1>2, <1>3
    <2> HIDE DEF n
    <2>2. Nth(S, n) = j
      BY <2>1, NthIs
    <2> QED BY <2>2 DEF n
  <1> QED BY <1>4, <1>5

(* A least element. *)
LEMMA Least ==
  ASSUME NEW S, S \subseteq Nat, IsFiniteSet(S), S # {}
  PROVE  \E j \in S : \A i \in S : j =< i
  <1>1. Cardinality(S) \in Nat /\ Cardinality(S) # 0
    BY FS_CardinalityType, FS_EmptySet
  <1>2. 1 \in 1 .. Cardinality(S)
    BY <1>1
  <1> DEFINE j == Nth(S, 1)
  <1>3. j \in S /\ Cardinality({i \in S : i < j}) = 0
    <2>1. j \in S /\ Cardinality({i \in S : i < j}) = 1 - 1
      BY <1>2, NthRank, Zenon
    <2> QED BY <2>1
  <1> HIDE DEF j
  <1>4. {i \in S : i < j} = {}
    <2>1. {i \in S : i < j} \in SUBSET S
      OBVIOUS
    <2> QED BY <1>3, <2>1, FS_Subset, FS_EmptySet
  <1>5. \A i \in S : j =< i
    <2>1. \A i \in S : i \in Nat
      OBVIOUS
    <2>2. j \in Nat
      BY <1>3
    <2>3. \A i \in S : ~(i < j)
      BY <1>4
    <2> QED BY <2>1, <2>2, <2>3
  <1> QED BY <1>3, <1>5

(* The elements of S that are greater than x. *)
Behind(S, x) == {j \in S : j > x}

(* What is behind the r-th element is counted from there. *)
LEMMA NthBehind ==
  ASSUME NEW S, S \subseteq Nat, IsFiniteSet(S),
         NEW r \in 1 .. Cardinality(S)
  PROVE  /\ IsFiniteSet(Behind(S, Nth(S, r)))
         /\ Cardinality(Behind(S, Nth(S, r))) = Cardinality(S) - r
         /\ \A n \in 1 .. Cardinality(Behind(S, Nth(S, r))) :
              Nth(Behind(S, Nth(S, r)), n) = Nth(S, r + n)
  <1> DEFINE R == Behind(S, Nth(S, r))
             x == Nth(S, r)
             B == {i \in S : i < x}
             L == B \cup {x}
  <1>1. x \in S /\ Cardinality(B) = r - 1
    BY NthRank
  <1>2. Cardinality(S) \in Nat /\ r \in Nat /\ r =< Cardinality(S) /\ 1 =< r
    BY FS_CardinalityType
  <1>3. \A i \in S : i \in Nat
    OBVIOUS
  <1>4. R = {j \in S : j > x}
    BY DEF Behind
  <1> HIDE DEF x, R
  <1>5. IsFiniteSet(B) /\ x \notin B /\ x \in Nat
    <2>1. B \in SUBSET S
      OBVIOUS
    <2>2. x \in Nat /\ ~(x < x)
      BY <1>1, <1>3
    <2> QED BY <2>1, <2>2, FS_Subset
  <1>6. IsFiniteSet(L) /\ Cardinality(L) = r
    <2> HIDE DEF B
    <2> QED BY <1>1, <1>2, <1>5, FS_AddElement
  <1>7. R = S \ L /\ L \subseteq S
    <2>1. \A i \in S : i > x <=> ~(i < x \/ i = x)
      BY <1>3, <1>5
    <2> QED BY <1>1, <1>4, <2>1
  <1>8. IsFiniteSet(R) /\ Cardinality(R) = Cardinality(S) - r
    <2> HIDE DEF L
    <2>1. S \cap L = L
      BY <1>7
    <2>2. /\ IsFiniteSet(S \ L)
          /\ Cardinality(S \ L) = Cardinality(S) - Cardinality(S \cap L)
      BY FS_Difference, Zenon
    <2> QED BY <1>6, <1>7, <2>1, <2>2
  <1>9. ASSUME NEW n \in 1 .. Cardinality(R)
        PROVE  Nth(R, n) = Nth(S, r + n)
    <2> DEFINE y == Nth(S, r + n)
               C == {i \in S : i < y}
               D == {i \in R : i < y}
    <2>1. r + n \in 1 .. Cardinality(S) /\ n \in Nat
      BY <1>2, <1>8
    <2>2. y \in S /\ Cardinality(C) = r + n - 1
      <3> DEFINE m == r + n
      <3>1. m \in 1 .. Cardinality(S)
        BY <2>1
      <3>2. /\ Nth(S, m) \in S
            /\ Cardinality({i \in S : i < Nth(S, m)}) = m - 1
        <4> HIDE DEF m
        <4> QED BY <3>1, NthRank
      <3> QED BY <3>2
    <2>3. x < y
      <3>1. r < r + n
        BY <1>2, <2>1
      <3> QED BY <2>1, <3>1, NthRises DEF x
    <2> HIDE DEF y
    <2>4. y \in R
      BY <1>1, <1>3, <1>4, <2>2, <2>3
    <2>5. D = C \ L /\ L \subseteq C
      <3>1. \A i \in S : i < x => i < y
        BY <1>3, <1>5, <2>2, <2>3
      <3>2. L \subseteq C
        BY <1>1, <2>3, <3>1
      <3>3. \A i \in S : i \in R <=> i \notin L
        BY <1>7
      <3>4. R \subseteq S
        BY <1>7
      <3> HIDE DEF L
      <3>5. D = C \ L
        BY <3>3, <3>4
      <3> HIDE DEF C, D
      <3> QED BY <3>2, <3>5
    <2>6. IsFiniteSet(C)
      <3>1. C \in SUBSET S
        OBVIOUS
      <3> QED BY <3>1, FS_Subset
    <2>7. Cardinality(D) = n - 1
      <3> HIDE DEF L, C, D
      <3>1. C \cap L = L
        BY <2>5
      <3>2. Cardinality(D) = Cardinality(C) - Cardinality(L)
        <4>1. Cardinality(C \ L) = Cardinality(C) - Cardinality(C \cap L)
          BY <2>6, FS_Difference, Zenon
        <4> QED BY <2>5, <3>1, <4>1
      <3> QED BY <1>2, <1>6, <2>1, <2>2, <3>2
    <2>8. R \subseteq Nat
      BY <1>3, <1>4
    <2>9. Nth(R, n) = y
      BY <1>8, <2>1, <2>4, <2>7, <2>8, NthIs
    <2> QED BY <2>9 DEF y
  <1> QED BY <1>8, <1>9 DEF R

(* A greatest element is the last one, and moves no other. *)
LEMMA NthAdded ==
  ASSUME NEW S, S \subseteq Nat, IsFiniteSet(S), NEW x \in Nat,
         \A i \in S : i < x
  PROVE  /\ Cardinality(S \cup {x}) = Cardinality(S) + 1
         /\ Nth(S \cup {x}, Cardinality(S) + 1) = x
         /\ \A n \in 1 .. Cardinality(S) : Nth(S \cup {x}, n) = Nth(S, n)
  <1> DEFINE T == S \cup {x}
  <1>1. Cardinality(S) \in Nat /\ \A i \in S : i \in Nat
    BY FS_CardinalityType
  <1>2. x \notin S
    OBVIOUS
  <1>3. IsFiniteSet(T) /\ Cardinality(T) = Cardinality(S) + 1
    BY <1>2, FS_AddElement
  <1>4. T \subseteq Nat /\ x \in T
    OBVIOUS
  <1>5. {i \in T : i < x} = S
    <2>1. ~(x < x)
      OBVIOUS
    <2> QED BY <2>1
  <1>6. \A j \in S : {i \in T : i < j} = {i \in S : i < j}
    BY <1>1
  <1>7. S \subseteq T
    OBVIOUS
  <1> HIDE DEF T
  <1>8. Nth(T, Cardinality(S) + 1) = x
    <2> DEFINE n == Cardinality(S) + 1
    <2>1. n \in Nat /\ Cardinality({i \in T : i < x}) = n - 1
      BY <1>1, <1>5
    <2> HIDE DEF n
    <2>2. Nth(T, n) = x
      BY <1>3, <1>4, <2>1, NthIs
    <2> QED BY <2>2 DEF n
  <1>9. ASSUME NEW n \in 1 .. Cardinality(S)
        PROVE  Nth(T, n) = Nth(S, n)
    <2> DEFINE y == Nth(S, n)
    <2>1. y \in S /\ Cardinality({i \in S : i < y}) = n - 1
      BY NthRank
    <2> HIDE DEF y
    <2>2. /\ y \in T /\ n \in Nat
          /\ Cardinality({i \in T : i < y}) = n - 1
      BY <1>1, <1>6, <1>7, <2>1
    <2>3. Nth(T, n) = y
      BY <1>3, <1>4, <2>2, NthIs
    <2> QED BY <2>3 DEF y
  <1> QED BY <1>3, <1>8, <1>9 DEF T

(* A greatest element. *)
LEMMA Greatest ==
  ASSUME NEW S, S \subseteq Nat, IsFiniteSet(S), S # {}
  PROVE  \E j \in S : \A i \in S : i =< j
  <1> DEFINE c == Cardinality(S)
             y == Nth(S, c)
  <1>1. c \in Nat /\ c # 0
    BY FS_CardinalityType, FS_EmptySet
  <1>2. c \in 1 .. c
    BY <1>1
  <1>3. y \in S
    BY <1>2, NthRank
  <1>4. ASSUME NEW i \in S
        PROVE  i =< y
    <2>1. PICK m \in 1 .. c : Nth(S, m) = i
      BY NthAll
    <2>2. i \in Nat /\ y \in Nat
      BY <1>3
    <2>3. CASE m = c
      BY <2>1, <2>2, <2>3
    <2>4. CASE m # c
      <3>1. m < c
        BY <1>1, <2>4
      <3>2. Nth(S, m) < y
        BY <1>2, <3>1, NthRises
      <3> HIDE DEF y
      <3> QED BY <2>1, <2>2, <3>2
    <2> QED BY <2>3, <2>4
  <1> QED BY <1>3, <1>4

(* How many positions there are from one to another. *)
LEMMA Between ==
  ASSUME NEW a \in Nat, NEW b \in Nat, a =< b
  PROVE  /\ IsFiniteSet((a + 1) .. b)
         /\ Cardinality((a + 1) .. b) = b - a
  <1>1. a + 1 \in Int /\ b \in Int
    OBVIOUS
  <1>2. /\ IsFiniteSet((a + 1) .. b)
        /\ Cardinality((a + 1) .. b) =
             IF a + 1 > b THEN 0 ELSE b - (a + 1) + 1
    BY <1>1, FS_Interval, Zenon
  <1> QED BY <1>2

(* The positions behind p, counted. *)
LEMMA NthBetween ==
  ASSUME NEW p \in Nat, NEW c \in Nat, p =< c, NEW n \in 1 .. (c - p)
  PROVE  Nth((p + 1) .. c, n) = p + n
  <1> DEFINE S == (p + 1) .. c
             j == p + n
  <1>1. S \subseteq Nat /\ IsFiniteSet(S)
    <2>1. IsFiniteSet(S)
      BY Between
    <2> QED BY <2>1
  <1>2. j \in S /\ n \in Nat /\ j - 1 \in Nat /\ p =< j - 1
    OBVIOUS
  <1>3. {i \in S : i < j} = (p + 1) .. (j - 1)
    OBVIOUS
  <1>4. Cardinality((p + 1) .. (j - 1)) = (j - 1) - p
    <2> DEFINE e == j - 1
    <2>1. e \in Nat /\ p =< e
      BY <1>2
    <2> HIDE DEF e
    <2>2. Cardinality((p + 1) .. e) = e - p
      BY <2>1, Between
    <2> QED BY <2>2 DEF e
  <1>5. (j - 1) - p = n - 1
    BY <1>2
  <1>6. Cardinality({i \in S : i < j}) = n - 1
    <2> HIDE DEF S, j
    <2> QED BY <1>3, <1>4, <1>5
  <1> HIDE DEF S, j
  <1>7. Nth(S, n) = j
    BY <1>1, <1>2, <1>6, NthIs
  <1> QED BY <1>7 DEF S, j

-----------------------------------------------------------------------------
(***************************************************************************)
(* What the log tells: its messages behind a position, in order.           *)
(***************************************************************************)

(* The events behind position n that tell a message. *)
Told(lg, n) == {i \in DOMAIN lg : RoleOf(lg[i]) # "none" /\ i > n}

(* The message that event i of lg tells. *)
MessageAt(lg, i) == Message(RoleOf(lg[i]), lg[i].call, i)

(* The messages they tell, in order. *)
Tale(lg, n) ==
  [k \in 1 .. Cardinality(Told(lg, n)) |-> MessageAt(lg, Nth(Told(lg, n), k))]

(* A new life reads the tale behind the cutoff. *)
LEMMA RecordedTale == Recorded = Tale(log, Cutoff)
  BY DEF Recorded, MessagesAfter, Tale, Told, MessageAt

(***************************************************************************)
(* The events that tell a message are finitely many, each at a position of *)
(* the log.                                                                *)
(***************************************************************************)
LEMMA ToldType ==
  ASSUME NEW lg \in Seq(Events), NEW n
  PROVE  /\ Told(lg, n) \subseteq Nat /\ IsFiniteSet(Told(lg, n))
         /\ Cardinality(Told(lg, n)) \in Nat
         /\ \A i \in Told(lg, n) : /\ i \in 1 .. Len(lg) /\ i > n
                                   /\ MessageAt(lg, i) \in Messages
                                   /\ MessageAt(lg, i).sequence = i
  <1>1. /\ DOMAIN lg = 1 .. Len(lg) /\ Len(lg) \in Nat
        /\ \A i \in DOMAIN lg : lg[i] \in Events
    OBVIOUS
  <1>2. Told(lg, n) \in SUBSET (1 .. Len(lg))
    BY <1>1 DEF Told
  <1>3. IsFiniteSet(1 .. Len(lg))
    BY <1>1, FS_Interval
  <1>4. IsFiniteSet(Told(lg, n)) /\ Cardinality(Told(lg, n)) \in Nat
    BY <1>2, <1>3, FS_Subset, FS_CardinalityType
  <1>5. ASSUME NEW i \in Told(lg, n)
        PROVE  /\ i \in 1 .. Len(lg) /\ i > n
               /\ MessageAt(lg, i) \in Messages
               /\ MessageAt(lg, i).sequence = i
    <2>1. i \in DOMAIN lg /\ RoleOf(lg[i]) # "none" /\ i > n
      BY DEF Told
    <2>2. RoleOf(lg[i]) \in Roles /\ lg[i].call \in Nat /\ i \in Nat
      BY <1>1, <2>1, RoleType DEF Events
    <2> QED BY <1>1, <2>1, <2>2, MessageType DEF MessageAt, Message
  <1>6. \A i \in Told(lg, n) : i \in Nat
    BY <1>1, <1>2
  <1> QED BY <1>4, <1>5, <1>6

(* The tale is a sequence of messages in the order of their sequences. *)
LEMMA TaleType ==
  ASSUME NEW lg \in Seq(Events), NEW n
  PROVE  /\ Tale(lg, n) \in Seq(Messages)
         /\ Len(Tale(lg, n)) = Cardinality(Told(lg, n))
         /\ \A k \in 1 .. Len(Tale(lg, n)) :
              /\ Tale(lg, n)[k].sequence = Nth(Told(lg, n), k)
              /\ Tale(lg, n)[k].sequence \in 1 .. Len(lg)
              /\ Tale(lg, n)[k].sequence > n
              /\ Tale(lg, n)[k] = MessageAt(lg, Nth(Told(lg, n), k))
         /\ \A j, k \in 1 .. Len(Tale(lg, n)) :
              j < k => Tale(lg, n)[j].sequence < Tale(lg, n)[k].sequence
  <1> DEFINE S == Told(lg, n)
             F == Tale(lg, n)
  <1>1. /\ S \subseteq Nat /\ IsFiniteSet(S) /\ Cardinality(S) \in Nat
        /\ \A i \in S : /\ i \in 1 .. Len(lg) /\ i > n
                        /\ MessageAt(lg, i) \in Messages
                        /\ MessageAt(lg, i).sequence = i
    BY ToldType
  <1>2. F = [k \in 1 .. Cardinality(S) |-> MessageAt(lg, Nth(S, k))]
    BY DEF Tale
  <1> HIDE DEF S, F
  <1>3. \A k \in 1 .. Cardinality(S) : Nth(S, k) \in S
    BY <1>1, NthRank
  <1>4. F \in Seq(Messages) /\ Len(F) = Cardinality(S)
    <2> DEFINE c == Cardinality(S)
    <2>1. c \in Nat /\ \A k \in 1 .. c : MessageAt(lg, Nth(S, k)) \in Messages
      BY <1>1, <1>3
    <2>2. F = [k \in 1 .. c |-> MessageAt(lg, Nth(S, k))]
      BY <1>2
    <2> HIDE DEF c
    <2>3. F \in Seq(Messages) /\ Len(F) = c
      BY <2>1, <2>2
    <2> QED BY <2>3 DEF c
  <1>5. \A k \in 1 .. Len(F) :
          /\ F[k].sequence = Nth(S, k) /\ F[k].sequence \in 1 .. Len(lg)
          /\ F[k].sequence > n /\ F[k] = MessageAt(lg, Nth(S, k))
    <2> TAKE k \in 1 .. Len(F)
    <2>1. F[k] = MessageAt(lg, Nth(S, k)) /\ Nth(S, k) \in S
      BY <1>2, <1>3, <1>4
    <2> QED BY <1>1, <2>1
  <1>6. \A j, k \in 1 .. Len(F) : j < k => F[j].sequence < F[k].sequence
    <2> SUFFICES ASSUME NEW j \in 1 .. Len(F), NEW k \in 1 .. Len(F), j < k
                 PROVE  F[j].sequence < F[k].sequence
      OBVIOUS
    <2>1. Nth(S, j) < Nth(S, k)
      BY <1>1, <1>4, NthRises
    <2> QED BY <1>5, <2>1
  <1> QED BY <1>4, <1>5, <1>6 DEF S, F

(* A log that grows tells the same, and the message of its last event. *)
LEMMA TaleAside ==
  ASSUME NEW lg \in Seq(Events), NEW e \in Events, RoleOf(e) = "none",
         NEW n
  PROVE  Tale(Append(lg, e), n) = Tale(lg, n)
  <1> DEFINE lh == Append(lg, e)
  <1>1. /\ Len(lg) \in Nat /\ DOMAIN lg = 1 .. Len(lg)
        /\ DOMAIN lh = 1 .. (Len(lg) + 1) /\ lh[Len(lg) + 1] = e
        /\ \A i \in 1 .. Len(lg) : lh[i] = lg[i]
    OBVIOUS
  <1> HIDE DEF lh
  <1>2. \A i \in 1 .. (Len(lg) + 1) : i \in 1 .. Len(lg) \/ i = Len(lg) + 1
    BY <1>1
  <1>3. 1 .. Len(lg) \subseteq 1 .. (Len(lg) + 1)
    BY <1>1
  <1>4. Told(lh, n) = Told(lg, n)
    BY <1>1, <1>2, <1>3 DEF Told
  <1>5. \A i \in Told(lg, n) : MessageAt(lh, i) = MessageAt(lg, i)
    BY <1>1 DEF Told, MessageAt
  <1>6. \A k \in 1 .. Cardinality(Told(lg, n)) :
          Nth(Told(lg, n), k) \in Told(lg, n)
    BY ToldType, NthRank
  <1>7. Tale(lh, n) = Tale(lg, n)
    BY <1>4, <1>5, <1>6 DEF Tale
  <1> QED BY <1>7 DEF lh

(* The message of the last event is added to the tale. *)
LEMMA TaleTold ==
  ASSUME NEW lg \in Seq(Events), NEW e \in Events, RoleOf(e) # "none",
         NEW n \in Nat, n =< Len(lg)
  PROVE  Tale(Append(lg, e), n) =
           Append(Tale(lg, n), Message(RoleOf(e), e.call, Len(lg) + 1))
  <1> DEFINE lh == Append(lg, e)
             x == Len(lg) + 1
             S == Told(lg, n)
             m == Message(RoleOf(e), e.call, x)
             c == Cardinality(S)
  <1>1. /\ Len(lg) \in Nat /\ DOMAIN lg = 1 .. Len(lg)
        /\ DOMAIN lh = 1 .. x /\ lh[x] = e /\ x \in Nat /\ x > n
        /\ \A i \in 1 .. Len(lg) : lh[i] = lg[i]
    OBVIOUS
  <1>2. /\ S \subseteq Nat /\ IsFiniteSet(S) /\ Cardinality(S) \in Nat
        /\ \A i \in S : i \in 1 .. Len(lg)
    BY ToldType
  <1>3. \A i \in S : i < x
    BY <1>1, <1>2
  <1>4. \A i \in 1 .. x : i \in 1 .. Len(lg) \/ i = x
    BY <1>1
  <1>5. 1 .. Len(lg) \subseteq 1 .. x /\ x \in 1 .. x
    BY <1>1
  <1> HIDE DEF lh, x
  <1>6. Told(lh, n) = S \cup {x}
    BY <1>1, <1>4, <1>5 DEF Told
  <1>7. \A i \in S : MessageAt(lh, i) = MessageAt(lg, i)
    BY <1>1 DEF Told, MessageAt
  <1>8. MessageAt(lh, x) = m
    BY <1>1 DEF MessageAt
  <1> HIDE DEF S, m
  <1>9. /\ Cardinality(S \cup {x}) = c + 1 /\ Nth(S \cup {x}, c + 1) = x
        /\ \A k \in 1 .. c : Nth(S \cup {x}, k) = Nth(S, k)
    BY <1>1, <1>2, <1>3, NthAdded
  <1>10. \A k \in 1 .. c : Nth(S, k) \in S
    BY <1>2, NthRank
  <1>11. Tale(lg, n) = [k \in 1 .. c |-> MessageAt(lg, Nth(S, k))]
    BY DEF Tale, S
  <1>12. Tale(lh, n)
           = [k \in 1 .. (c + 1) |-> MessageAt(lh, Nth(S \cup {x}, k))]
    BY <1>6, <1>9 DEF Tale
  <1>13. c \in Nat
    BY <1>2
  <1> HIDE DEF c
  <1>14. /\ Tale(lg, n) \in Seq(Messages) /\ Tale(lh, n) \in Seq(Messages)
         /\ Len(Tale(lg, n)) = c /\ Len(Tale(lh, n)) = c + 1
    <2>1. lh \in Seq(Events)
      BY DEF lh
    <2>2. /\ Tale(lg, n) \in Seq(Messages) /\ Tale(lh, n) \in Seq(Messages)
          /\ Len(Tale(lg, n)) = Cardinality(Told(lg, n))
          /\ Len(Tale(lh, n)) = Cardinality(Told(lh, n))
      BY <2>1, TaleType
    <2> QED BY <1>6, <1>9, <2>2 DEF c, S
  <1>15. \A k \in 1 .. c : Tale(lh, n)[k] = Tale(lg, n)[k]
    <2> TAKE k \in 1 .. c
    <2>1. k \in 1 .. (c + 1)
      BY <1>13
    <2> QED BY <1>7, <1>9, <1>10, <1>11, <1>12, <2>1
  <1>16. Tale(lh, n)[c + 1] = m
    <2>1. c + 1 \in 1 .. (c + 1)
      BY <1>13
    <2> QED BY <1>8, <1>9, <1>12, <2>1
  <1>17. m \in Messages
    <2>1. RoleOf(e) \in Roles /\ e.call \in Nat
      BY RoleType DEF Events
    <2> QED BY <1>1, <2>1, MessageType DEF m
  <1>18. Tale(lh, n) = Append(Tale(lg, n), m)
    <2> DEFINE s == Tale(lg, n)
               t == Tale(lh, n)
               u == Append(s, m)
    <2> HIDE DEF s, t
    <2>1. /\ s \in Seq(Messages) /\ t \in Seq(Messages)
          /\ Len(s) = c /\ Len(t) = c + 1 /\ t[c + 1] = m
          /\ \A k \in 1 .. c : t[k] = s[k]
      BY <1>14, <1>15, <1>16 DEF s, t
    <2>2. /\ u \in Seq(Messages) /\ Len(u) = c + 1 /\ u[c + 1] = m
          /\ \A k \in 1 .. c : u[k] = s[k]
      BY <1>13, <1>17, <2>1
    <2>3. \A k \in 1 .. (c + 1) : k \in 1 .. c \/ k = c + 1
      BY <1>13
    <2> HIDE DEF u
    <2>4. \A k \in 1 .. Len(t) : t[k] = u[k]
      BY <2>1, <2>2, <2>3
    <2>5. t = u
      BY <2>1, <2>2, <2>4, SeqEqual
    <2> QED BY <2>5 DEF s, t, u
  <1> QED BY <1>18 DEF lh, m, x

(* What is told behind a message is the rest of the tale. *)
LEMMA TaleBehind ==
  ASSUME NEW lg \in Seq(Events), NEW n \in Nat,
         NEW r \in 1 .. Len(Tale(lg, n)), NEW x,
         x = Tale(lg, n)[r].sequence
  PROVE  /\ Len(Tale(lg, x)) = Len(Tale(lg, n)) - r
         /\ \A k \in 1 .. Len(Tale(lg, x)) :
              Tale(lg, x)[k] = Tale(lg, n)[r + k]
  <1> DEFINE S == Told(lg, n)
             R == Told(lg, x)
  <1>1. S \subseteq Nat /\ IsFiniteSet(S) /\ Cardinality(S) \in Nat
    BY ToldType
  <1>2. /\ Len(Tale(lg, n)) = Cardinality(S) /\ r \in 1 .. Cardinality(S)
        /\ x = Nth(S, r) /\ x > n /\ x \in 1 .. Len(lg) /\ x \in Nat
    <2> DEFINE F == Tale(lg, n)
    <2>1. /\ Len(F) = Cardinality(S)
          /\ \A k \in 1 .. Len(F) :
               /\ F[k].sequence = Nth(S, k)
               /\ F[k].sequence \in 1 .. Len(lg) /\ F[k].sequence > n
      BY TaleType
    <2> HIDE DEF F, S
    <2>2. r \in 1 .. Len(F) /\ x = F[r].sequence
      BY DEF F
    <2> QED BY <2>1, <2>2 DEF F
  <1>3. Len(Tale(lg, x)) = Cardinality(R)
    BY TaleType
  <1>4. R = Behind(S, Nth(S, r))
    <2>1. \A i \in DOMAIN lg : i \in Nat
      OBVIOUS
    <2>2. \A i \in DOMAIN lg : i > x => i > n
      BY <1>2, <2>1
    <2> QED BY <1>2, <2>2 DEF Told, Behind
  <1> HIDE DEF S, R
  <1>5. /\ IsFiniteSet(R) /\ Cardinality(R) = Cardinality(S) - r
        /\ \A k \in 1 .. Cardinality(R) : Nth(R, k) = Nth(S, r + k)
    <2>1. S \subseteq Nat /\ IsFiniteSet(S) /\ r \in 1 .. Cardinality(S)
      BY <1>1, <1>2
    <2> QED BY ONLY <2>1, <1>4, NthBehind, Zenon
  <1>6. ASSUME NEW k \in 1 .. Cardinality(R)
        PROVE  Tale(lg, x)[k] = Tale(lg, n)[r + k]
    <2>1. r + k \in 1 .. Cardinality(S)
      BY <1>1, <1>2, <1>5
    <2>2. Tale(lg, x)[k] = MessageAt(lg, Nth(R, k))
      BY DEF Tale, R
    <2>3. Tale(lg, n)[r + k] = MessageAt(lg, Nth(S, r + k))
      BY <2>1 DEF Tale, S
    <2> QED BY <1>5, <2>2, <2>3
  <1> QED BY <1>2, <1>3, <1>5, <1>6

(* What a new life keeps of the tale is a sequence of messages. *)
LEMMA RecordedType ==
  ASSUME log \in Seq(Events)
  PROVE  WholeGroups(Recorded) \in Seq(Messages)
  <1>1. Recorded \in Seq(Messages)
    BY RecordedTale, TaleType
  <1>2. ASSUME NEW ctx \in Seq(Messages)
        PROVE  WholeGroups(ctx) \in Seq(Messages)
    <2> DEFINE open == {k \in Heads(ctx) : ~Whole(ctx, k)}
               k0 == CHOOSE k \in open : TRUE
    <2>1. CASE open = {}
      BY <2>1 DEF WholeGroups
    <2>2. CASE open # {}
      <3>1. k0 \in open
        BY <2>2
      <3>2. k0 \in 1 .. Len(ctx)
        BY <3>1 DEF Heads
      <3>3. WholeGroups(ctx) = SubSeq(ctx, 1, k0 - 1)
        BY <2>2 DEF WholeGroups
      <3> HIDE DEF k0
      <3>4. k0 - 1 \in Nat /\ k0 - 1 =< Len(ctx)
        BY <3>2
      <3>5. SubSeq(ctx, 1, k0 - 1) \in Seq(Messages)
        BY <3>4, SubSeqProperties
      <3> QED BY <3>3, <3>5
    <2> QED BY <2>1, <2>2
  <1> QED BY <1>1, <1>2

-----------------------------------------------------------------------------
(***************************************************************************)
(* What a step of the loop adds to the log, and where: the events the      *)
(* invariant counts by are published at their control points only.         *)
(***************************************************************************)
Opens == pc = "session_start" /\ pc' = "agent_start"

LogGrowth ==
  \/ UNCHANGED log /\ ~Opens
  \/ LET e == log'[Len(log')]
     IN  /\ log' = Append(log, e) /\ ~storeFailed
         /\ e.type = "session_start" <=> Opens
         /\ e.type = "assistant_message" => pc = "request" /\ pc' = "declared"
         /\ e = Event("turn_end", 0, "COMPLETED_TURN") => exit = "completed"
         /\ e.type = "tool_result" =>
              pc \in {"result", "skip_result"} /\ pc' \notin Calling

LEMMA RecordLast ==
  ASSUME TypeOK, NEW e, Record(e)
  PROVE  log'[Len(log')] = e /\ log' = Append(log, e) /\ ~storeFailed
  BY DEF Record, TypeOK

(* An event the invariant does not count, and one the store refuses. *)
LEMMA GrowsAside ==
  ASSUME TypeOK, NEW t, NEW c, NEW i, Record(Event(t, c, i)) \/ Refuse,
         t \notin {"session_start", "assistant_message", "tool_result"},
         t = "turn_end" /\ i = "COMPLETED_TURN" => exit = "completed", ~Opens
  PROVE  LogGrowth
  <1>1. CASE Refuse
    BY <1>1 DEF Refuse, LogGrowth
  <1>2. CASE Record(Event(t, c, i))
    <2>1. /\ Event(t, c, i).type = t
          /\ Event(t, c, i) = Event("turn_end", 0, "COMPLETED_TURN")
               => t = "turn_end" /\ i = "COMPLETED_TURN"
      BY DEF Event
    <2> QED BY <1>2, <2>1, RecordLast DEF LogGrowth
  <1> QED BY <1>1, <1>2

(* One that it counts, unless the store refuses it. *)
LEMMA GrowsCounted ==
  ASSUME TypeOK, NEW t, NEW c, NEW i, Record(Event(t, c, i)),
         \/ t = "session_start" /\ Opens
         \/ t = "assistant_message" /\ pc = "request" /\ pc' = "declared"
         \/ /\ t = "tool_result" /\ pc \in {"result", "skip_result"}
            /\ pc' \notin Calling
  PROVE  LogGrowth
  <1>1. /\ Event(t, c, i).type = t
        /\ Event(t, c, i) = Event("turn_end", 0, "COMPLETED_TURN")
             => t = "turn_end"
    BY DEF Event
  <1> QED BY <1>1, RecordLast DEF LogGrowth, Opens

(* The state a turn reports is completed only if it did. *)
LEMMA CompletedOnly ==
  ASSUME TypeOK, EndState(exit) = "COMPLETED_TURN"
  PROVE  exit = "completed"
  BY DEF TypeOK, Exits, LimitReasons, EndState

LEMMA StepGrows == TypeOK /\ [Next]_vars => LogGrowth
  <1> SUFFICES ASSUME TypeOK, [Next]_vars PROVE LogGrowth
    OBVIOUS
  <1> USE DEF journal, Goto, Leave
  <1>1. CASE RunTurn
    BY <1>1 DEF RunTurn, LogGrowth, Opens
  <1>2. CASE StartEnvironment
    BY <1>2 DEF StartEnvironment, LogGrowth, Opens
  <1>3. CASE EmitSessionStart
    <2>1. CASE Refuse /\ Abandon
      BY <2>1 DEF Refuse, Abandon, LogGrowth, Opens
    <2>2. CASE ~(Refuse /\ Abandon)
      <3>1. Record(Event("session_start", 0, "RUNNING")) /\ Opens
        BY <1>3, <2>2 DEF EmitSessionStart, Emit, Opens
      <3> QED BY <3>1, GrowsCounted
    <2> QED BY <2>1, <2>2
  <1>4. CASE EmitAgentStart
    <2>1. Record(Event("agent_start", 0, "RUNNING")) \/ Refuse
      BY <1>4 DEF EmitAgentStart, Emit
    <2>2. ~Opens
      BY <1>4 DEF EmitAgentStart, Opens
    <2> QED BY <2>1, <2>2, GrowsAside
  <1>5. CASE EmitUserMessage
    <2>1. Record(Event("user_message", 0, "text")) \/ Refuse
      BY <1>5 DEF EmitUserMessage, Emit
    <2>2. ~Opens
      BY <1>5 DEF EmitUserMessage, Opens
    <2> QED BY <2>1, <2>2, GrowsAside
  <1>6. CASE BeginStep
    BY <1>6 DEF BeginStep, LogGrowth, Opens
  <1>7. CASE PrepareContext
    BY <1>7 DEF PrepareContext, LogGrowth, Opens
  <1>8. CASE Compact
    <2>1. PICK status \in {"success", "failed"} :
            Record(Event("compaction", 0, status)) \/ Refuse
      BY <1>8 DEF Compact, Emit
    <2>2. ~Opens
      BY <1>8 DEF Compact, Opens
    <2> QED BY <2>1, <2>2, GrowsAside
  <1>9. CASE Respond
    <2>1. CASE Refuse /\ Abandon
      BY <2>1 DEF Refuse, Abandon, LogGrowth, Opens
    <2>2. CASE ~(Refuse /\ Abandon)
      <3>1. PICK n \in 0 .. MaxCallsPerResponse,
                 kind \in {"text", "empty", "tools"} :
              /\ Record(Event("assistant_message", issued + n, kind))
              /\ pc' = "declared"
        BY <1>9, <2>2 DEF Respond, Emit
      <3>2. pc = "request"
        BY <1>9 DEF Respond
      <3> QED BY <3>1, <3>2, GrowsCounted
    <2> QED BY <2>1, <2>2
  <1>10. CASE RetryOverflow
    <2>1. Record(Event("retry", 0, "context_overflow")) \/ Refuse
      BY <1>10 DEF RetryOverflow, Emit
    <2>2. ~Opens
      BY <1>10 DEF RetryOverflow, Opens
    <2> QED BY <2>1, <2>2, GrowsAside
  <1>11. CASE ModelRaises
    BY <1>11 DEF ModelRaises, LogGrowth, Opens
  <1>12. CASE AcceptResponse
    BY <1>12 DEF AcceptResponse, LogGrowth, Opens
  <1>13. CASE RecoverEmptyResponse
    <2>1. Record(Event("error", 0, "recoverable")) \/ Refuse
      BY <1>13 DEF RecoverEmptyResponse, Emit
    <2>2. ~Opens
      BY <1>13 DEF RecoverEmptyResponse, Opens
    <2> QED BY <2>1, <2>2, GrowsAside
  <1>14. CASE Dispatch
    <2>1. ~Opens
      BY <1>14 DEF Dispatch, Opens
    <2>2. \/ UNCHANGED log
          \/ Record(Event("tool_call", head, "declared")) \/ Refuse
      BY <1>14 DEF Dispatch, Emit
    <2>3. CASE UNCHANGED log
      BY <2>1, <2>3 DEF LogGrowth
    <2> QED BY <2>1, <2>2, <2>3, GrowsAside
  <1>15. CASE RejectCall
    <2>1. Record(Event("policy_decision", head, "deny")) \/ Refuse
      BY <1>15 DEF RejectCall, Emit
    <2>2. ~Opens
      BY <1>15 DEF RejectCall, Opens
    <2> QED BY <2>1, <2>2, GrowsAside
  <1>16. CASE AllowCall
    <2>1. Record(Event("policy_decision", head, "allow")) \/ Refuse
      BY <1>16 DEF AllowCall, Emit
    <2>2. ~Opens
      BY <1>16 DEF AllowCall, Opens
    <2> QED BY <2>1, <2>2, GrowsAside
  <1>17. CASE AskApproval
    <2>1. Record(Event("approval_request", head, "ask")) \/ Refuse
      BY <1>17 DEF AskApproval, Emit
    <2>2. ~Opens
      BY <1>17 DEF AskApproval, Opens
    <2> QED BY <2>1, <2>2, GrowsAside
  <1>18. CASE AnswerApproval
    <2> PICK approved \in BOOLEAN : Approve(approved)
      BY <1>18 DEF AnswerApproval
    <2> DEFINE d == IF approved THEN "allow" ELSE "deny"
    <2>1. Record(Event("policy_decision", head, d)) \/ Refuse
      BY DEF Approve, Emit
    <2>2. ~Opens
      BY DEF Approve, Opens
    <2> QED BY <2>1, <2>2, GrowsAside
  <1>19. CASE Execute
    BY <1>19 DEF Execute, LogGrowth, Opens
  <1>20. CASE PublishResult
    <2>1. CASE Refuse /\ Abandon
      BY <2>1 DEF Refuse, Abandon, LogGrowth, Opens
    <2>2. CASE ~(Refuse /\ Abandon)
      <3>1. /\ Record(Event("tool_result", head, outcome.status))
            /\ pc = "result" /\ pc' \notin Calling
        BY <1>20, <2>2 DEF PublishResult, Emit, Calling
      <3> QED BY <3>1, GrowsCounted
    <2> QED BY <2>1, <2>2
  <1>21. CASE Settle
    BY <1>21 DEF Settle, LogGrowth, Opens
  <1>22. CASE SkipCall
    <2>1. Record(Event("tool_call", head, "declared")) \/ Refuse
      BY <1>22 DEF SkipCall, Emit
    <2>2. ~Opens
      BY <1>22 DEF SkipCall, Opens
    <2> QED BY <2>1, <2>2, GrowsAside
  <1>23. CASE SkipPolicy
    <2>1. Record(Event("policy_decision", head, "deny")) \/ Refuse
      BY <1>23 DEF SkipPolicy, Emit
    <2>2. ~Opens
      BY <1>23 DEF SkipPolicy, Opens
    <2> QED BY <2>1, <2>2, GrowsAside
  <1>24. CASE SkipResult
    <2>1. CASE Refuse /\ Abandon
      BY <2>1 DEF Refuse, Abandon, LogGrowth, Opens
    <2>2. CASE ~(Refuse /\ Abandon)
      <3>1. /\ Record(Event("tool_result", head, SkipStatus(exit)))
            /\ pc = "skip_result" /\ pc' \notin Calling
        BY <1>24, <2>2 DEF SkipResult, Emit, Calling
      <3> QED BY <3>1, GrowsCounted
    <2> QED BY <2>1, <2>2
  <1>25. CASE SkipDone
    BY <1>25 DEF SkipDone, LogGrowth, Opens
  <1>26. CASE EmitError
    <2>1. Record(Event("error", 0, "FAILED")) \/ Refuse
      BY <1>26 DEF EmitError, EmitBestEffort
    <2>2. ~Opens
      BY <1>26 DEF EmitError, Opens
    <2> QED BY <2>1, <2>2, GrowsAside
  <1>27. CASE EmitTurnEnd
    <2>1. Record(Event("turn_end", 0, EndState(exit))) \/ Refuse
      BY <1>27 DEF EmitTurnEnd
    <2>2. ~Opens
      BY <1>27 DEF EmitTurnEnd, Opens
    <2> QED BY <2>1, <2>2, GrowsAside, CompletedOnly
  <1>28. CASE HandleRaisedLimit
    <2>1. Record(Event("turn_end", 0, EndState(exit))) \/ Refuse
      BY <1>28 DEF HandleRaisedLimit
    <2>2. ~Opens
      BY <1>28 DEF HandleRaisedLimit, Opens
    <2> QED BY <2>1, <2>2, GrowsAside, CompletedOnly
  <1>29. CASE Close
    BY <1>29 DEF Close, LogGrowth, Opens
  <1>30. CASE EmitAgentEnd
    <2>1. Record(Event("agent_end", 0, state)) \/ Refuse
      BY <1>30 DEF EmitAgentEnd, EmitBestEffort
    <2>2. ~Opens
      BY <1>30 DEF EmitAgentEnd, Opens
    <2> QED BY <2>1, <2>2, GrowsAside
  <1>31. CASE EmitSessionEnd
    <2>1. Record(Event("session_end", 0, state)) \/ Refuse
      BY <1>31 DEF EmitSessionEnd, EmitBestEffort
    <2>2. ~Opens
      BY <1>31 DEF EmitSessionEnd, Opens
    <2> QED BY <2>1, <2>2, GrowsAside
  <1>32. CASE CloseEnvironment
    BY <1>32 DEF CloseEnvironment, LogGrowth, Opens
  <1>33. CASE Cancel
    BY <1>33 DEF Cancel, LogGrowth, Opens
  <1>34. CASE Expire
    BY <1>34 DEF Expire, LogGrowth, Opens
  <1>35. CASE UNCHANGED vars
    BY <1>35 DEF vars, LogGrowth, Opens
  <1> QED
    BY <1>1, <1>2, <1>3, <1>4, <1>5, <1>6, <1>7, <1>8, <1>9, <1>10, <1>11,
       <1>12, <1>13, <1>14, <1>15, <1>16, <1>17, <1>18, <1>19, <1>20, <1>21,
       <1>22, <1>23, <1>24, <1>25, <1>26, <1>27, <1>28, <1>29, <1>30, <1>31,
       <1>32, <1>33, <1>34, <1>35 DEF Next, LoopStep, OwnStep

(***************************************************************************)
(* What a step of the loop does to the counters, to the calls dispatched   *)
(* and to whether the life has been opened.                                *)
(***************************************************************************)
Spending ==
  /\ modelSteps =< modelSteps' /\ toolCalls =< toolCalls'
  /\ pc' \in Asking => pc \in Asking \/ modelSteps < modelSteps'
  /\ pc' \in Calling => pc \in Calling \/ toolCalls < toolCalls'
  /\ DispatchedIssued'
  /\ storeFailed => storeFailed'
  /\ ~Unopened' /\ ~storeFailed' => ~Unopened \/ Opens

LEMMA StepSpends ==
  ASSUME TypeOK, PhaseInv, DispatchedIssued, [Next]_vars
  PROVE  Spending
  <1> USE LoopAssumption
      DEF TypeOK, PhaseInv, DispatchedIssued, Pending, InCall, Spending,
          Asking, Calling, Unopened, Opens, Goto, Leave, lifecycle, journal,
          plans, budget, LoopAssumption
  <1>1. CASE RunTurn
    BY <1>1 DEF RunTurn
  <1>2. CASE StartEnvironment
    BY <1>2 DEF StartEnvironment
  <1>3. CASE EmitSessionStart
    BY <1>3 DEF EmitSessionStart, Emit, Record, Refuse, Abandon
  <1>4. CASE EmitAgentStart
    BY <1>4 DEF EmitAgentStart, Emit, Record, Refuse, Abandon
  <1>5. CASE EmitUserMessage
    BY <1>5 DEF EmitUserMessage, Emit, Record, Refuse, Abandon
  <1>6. CASE BeginStep
    BY <1>6 DEF BeginStep, CurrentLimit
  <1>7. CASE PrepareContext
    BY <1>7 DEF PrepareContext
  <1>8. CASE Compact
    BY <1>8 DEF Compact, Emit, Record, Refuse, Abandon
  <1>9. CASE Respond
    BY <1>9 DEF Respond, Emit, Record, Refuse, Abandon
  <1>10. CASE RetryOverflow
    BY <1>10 DEF RetryOverflow, Emit, Record, Refuse, Abandon
  <1>11. CASE ModelRaises
    BY <1>11 DEF ModelRaises
  <1>12. CASE AcceptResponse
    BY <1>12 DEF AcceptResponse
  <1>13. CASE RecoverEmptyResponse
    BY <1>13 DEF RecoverEmptyResponse, Emit, Record, Refuse, Abandon
  <1>14. CASE Dispatch
    BY <1>14 DEF Dispatch, Emit, Record, Refuse, Abandon
  <1>15. CASE RejectCall
    BY <1>15 DEF RejectCall, Emit, Record, Refuse, Abandon
  <1>16. CASE AllowCall
    BY <1>16 DEF AllowCall, Emit, Record, Refuse, Abandon
  <1>17. CASE AskApproval
    BY <1>17 DEF AskApproval, Emit, Record, Refuse, Abandon
  <1>18. CASE AnswerApproval
    BY <1>18 DEF AnswerApproval, Approve, Emit, Record, Refuse, Abandon
  <1>19. CASE Execute
    BY <1>19 DEF Execute
  <1>20. CASE PublishResult
    BY <1>20 DEF PublishResult, Emit, Record, Refuse, Abandon
  <1>21. CASE Settle
    BY <1>21 DEF Settle
  <1>22. CASE SkipCall
    BY <1>22 DEF SkipCall, Emit, Record, Refuse, Abandon
  <1>23. CASE SkipPolicy
    BY <1>23 DEF SkipPolicy, Emit, Record, Refuse, Abandon
  <1>24. CASE SkipResult
    BY <1>24 DEF SkipResult, Emit, Record, Refuse, Abandon
  <1>25. CASE SkipDone
    BY <1>25 DEF SkipDone
  <1>26. CASE EmitError
    BY <1>26 DEF EmitError, EmitBestEffort, Record, Refuse
  <1>27. CASE EmitTurnEnd
    BY <1>27 DEF EmitTurnEnd, TurnOver, Record, Refuse, Abandon
  <1>28. CASE HandleRaisedLimit
    BY <1>28 DEF HandleRaisedLimit, TurnOver, Record, Refuse
  <1>29. CASE Close
    BY <1>29 DEF Close
  <1>30. CASE EmitAgentEnd
    BY <1>30 DEF EmitAgentEnd, EmitBestEffort, Record, Refuse
  <1>31. CASE EmitSessionEnd
    BY <1>31 DEF EmitSessionEnd, EmitBestEffort, Record, Refuse
  <1>32. CASE CloseEnvironment
    BY <1>32 DEF CloseEnvironment
  <1>33. CASE Cancel
    BY <1>33 DEF Cancel
  <1>34. CASE Expire
    BY <1>34 DEF Expire
  <1>35. CASE UNCHANGED vars
    BY <1>35 DEF vars
  <1> QED
    BY <1>1, <1>2, <1>3, <1>4, <1>5, <1>6, <1>7, <1>8, <1>9, <1>10, <1>11,
       <1>12, <1>13, <1>14, <1>15, <1>16, <1>17, <1>18, <1>19, <1>20, <1>21,
       <1>22, <1>23, <1>24, <1>25, <1>26, <1>27, <1>28, <1>29, <1>30, <1>31,
       <1>32, <1>33, <1>34, <1>35 DEF Next, LoopStep, OwnStep

-----------------------------------------------------------------------------
(***************************************************************************)
(* Counting.  An answer is added to those spoken when it is published, and *)
(* to those completed when its turn is, if its life is the latest.         *)
(***************************************************************************)
LEMMA Subsets ==
  ASSUME NEW A, NEW B, A \subseteq B, IsFiniteSet(B)
  PROVE  /\ IsFiniteSet(A) /\ Cardinality(A) \in Nat
         /\ Cardinality(B) \in Nat /\ Cardinality(A) =< Cardinality(B)
  BY FS_Subset, FS_CardinalityType

LEMMA OneMore ==
  ASSUME NEW A, NEW B, NEW x, A \subseteq B \cup {x}, IsFiniteSet(B)
  PROVE  Cardinality(A) \in Nat /\ Cardinality(A) =< Cardinality(B) + 1
  <1>1. /\ IsFiniteSet(B \cup {x})
        /\ Cardinality(B \cup {x})
             = IF x \in B THEN Cardinality(B) ELSE Cardinality(B) + 1
    BY FS_AddElement
  <1> QED BY <1>1, Subsets

LEMMA Counts ==
  ASSUME TypeOK
  PROVE  /\ IsFiniteSet(Spoken) /\ IsFiniteSet(CompletedAnswers \cup Latest)
         /\ Cardinality(Spoken) \in Nat /\ Earned \in Nat
         /\ Cardinality(CompletedAnswers) \in Nat
         /\ Cardinality(CompletedAnswers) =< Cardinality(Spoken)
         /\ Cardinality(CompletedAnswers) =< Earned
  <1>1. Len(log) \in Nat
    BY DEF TypeOK
  <1>2. Spoken \subseteq 1 .. Len(log)
    BY <1>1 DEF Spoken, AssistantsBefore
  <1>3. IsFiniteSet(1 .. Len(log))
    BY <1>1, FS_Interval
  <1>4. IsFiniteSet(Spoken)
    BY <1>2, <1>3, Subsets
  <1>5. CompletedAnswers \subseteq Spoken /\ Latest \subseteq Spoken
    BY DEF CompletedAnswers, Latest, Spoken
  <1>6. /\ CompletedAnswers \cup Latest \subseteq Spoken
        /\ CompletedAnswers \subseteq CompletedAnswers \cup Latest
    BY <1>5
  <1>7. IsFiniteSet(CompletedAnswers \cup Latest) /\ Earned \in Nat
    BY <1>4, <1>6, Subsets DEF Earned
  <1> QED BY <1>4, <1>5, <1>6, <1>7, Subsets DEF Earned

LEMMA CountsGrow ==
  ASSUME TypeOK, NEW e, log' = Append(log, e)
  PROVE  /\ Spoken' \subseteq Spoken \cup {Len(log) + 1}
         /\ e.type # "assistant_message" => Spoken' \subseteq Spoken
         /\ CompletedAnswers' \subseteq CompletedAnswers \cup Latest
         /\ e # Event("turn_end", 0, "COMPLETED_TURN") =>
              CompletedAnswers' \subseteq CompletedAnswers
         /\ Latest' \subseteq Latest \cup {Len(log) + 1}
         /\ e.type # "assistant_message" => Latest' \subseteq Latest
         /\ e.type = "session_start" => Latest' = {}
  <1>1. /\ Len(log) \in Nat /\ Len(log') = Len(log) + 1
        /\ \A i \in 1 .. Len(log) : log'[i] = log[i]
        /\ log'[Len(log) + 1] = e
    BY DEF TypeOK
  <1>2. Spoken' = {i \in 1 .. (Len(log) + 1) :
                     log'[i].type = "assistant_message"}
    BY <1>1 DEF Spoken, AssistantsBefore
  <1>3. Spoken = {i \in 1 .. Len(log) : log[i].type = "assistant_message"}
    BY <1>1 DEF Spoken, AssistantsBefore
  <1>4. \A i \in 1 .. (Len(log) + 1) : i \in 1 .. Len(log) \/ i = Len(log) + 1
    BY <1>1
  <1>5. /\ Spoken' \subseteq Spoken \cup {Len(log) + 1}
        /\ e.type # "assistant_message" => Spoken' \subseteq Spoken
    BY <1>1, <1>2, <1>3, <1>4
  <1>6. ASSUME NEW i \in Latest'
        PROVE  /\ i = Len(log) + 1 \/ i \in Latest
               /\ e.type # "assistant_message" => i \in Latest
               /\ e.type # "session_start"
    <2>1. /\ i \in Spoken' /\ i \in 1 .. (Len(log) + 1)
          /\ \A k \in (i + 1) .. (Len(log) + 1) :
               log'[k].type # "session_start"
      BY <1>1, <1>2, <1>6 DEF Latest
    <2>2. CASE i = Len(log) + 1
      BY <1>1, <1>2, <2>1, <2>2
    <2>3. CASE i \in 1 .. Len(log)
      <3>1. i \in Spoken
        BY <1>1, <1>2, <1>3, <2>1, <2>3
      <3>2. \A k \in (i + 1) .. Len(log) : log[k].type # "session_start"
        BY <1>1, <2>1, <2>3
      <3>3. e.type # "session_start"
        BY <1>1, <2>1, <2>3
      <3> QED BY <3>1, <3>2, <3>3 DEF Latest
    <2> QED BY <1>4, <2>1, <2>2, <2>3
  <1>7. ASSUME NEW i \in CompletedAnswers'
        PROVE  /\ i \in CompletedAnswers \cup Latest
               /\ e # Event("turn_end", 0, "COMPLETED_TURN") =>
                    i \in CompletedAnswers
    <2>1. i \in Spoken'
      BY <1>7 DEF CompletedAnswers, Spoken
    <2>2. PICK j \in (i + 1) .. Len(log') :
            /\ log'[j] = Event("turn_end", 0, "COMPLETED_TURN")
            /\ \A k \in (i + 1) .. j : log'[k].type # "session_start"
      BY <1>7 DEF CompletedAnswers
    <2>3. i \in 1 .. Len(log) /\ i \in Spoken
      BY <1>1, <1>2, <1>3, <2>1, <2>2
    <2>4. CASE j = Len(log) + 1
      <3>1. \A k \in (i + 1) .. Len(log) : log[k].type # "session_start"
        BY <1>1, <2>2, <2>3, <2>4
      <3> QED BY <1>1, <2>2, <2>3, <2>4, <3>1 DEF Latest
    <2>5. CASE j \in (i + 1) .. Len(log)
      <3>1. log[j] = Event("turn_end", 0, "COMPLETED_TURN")
        BY <1>1, <2>2, <2>3, <2>5
      <3>2. \A k \in (i + 1) .. j : log[k].type # "session_start"
        BY <1>1, <2>2, <2>3, <2>5
      <3>3. i \in CompletedAnswers
        BY <2>3, <2>5, <3>1, <3>2 DEF CompletedAnswers, Spoken
      <3> QED BY <3>3
    <2> QED BY <1>1, <2>2, <2>3, <2>4, <2>5
  <1> QED BY <1>5, <1>6, <1>7

-----------------------------------------------------------------------------
(***************************************************************************)
(* A step of the loop keeps the invariant.                                 *)
(***************************************************************************)

(* What an event is charged as, when it is not the one before it. *)
LEMMA Charges ==
  ASSUME TypeOK, TypeOK', ledger \in Ledgers, NEW e, ledger' = Charge(e)
  PROVE  /\ ledger' \in Ledgers
         /\ \/ /\ ledger' = [ledger EXCEPT !.snapshot = budget]
               /\ e.type # "assistant_message"
            \/ /\ ledger' = [ledger EXCEPT !.results = @ + 1]
               /\ e.type = "tool_result" /\ pc # "skip_result"
            \/ ledger' = [ledger EXCEPT !.errors = protocolErrors']
               /\ e.type = "error"
            \/ ledger' = ledger
               /\ e.type \notin {"turn_end", "agent_end", "session_end"}
  <1>1. budget \in Nat \X Nat \X Nat /\ protocolErrors' \in Nat
    BY DEF budget, TypeOK
  <1>2. CASE e.type \in {"turn_end", "agent_end", "session_end"}
    <2>1. ledger' = [ledger EXCEPT !.snapshot = budget]
      BY <1>2, Zenon DEF Charge
    <2> QED BY <1>1, <1>2, <2>1 DEF Ledgers
  <1>3. CASE e.type = "tool_result" /\ pc # "skip_result"
    <2>1. ledger' = [ledger EXCEPT !.results = @ + 1]
      BY <1>3 DEF Charge
    <2> QED BY <1>3, <2>1 DEF Ledgers
  <1>4. CASE e.type = "error" /\ e.info = "recoverable"
    <2>1. ledger' = [ledger EXCEPT !.errors = protocolErrors']
      BY <1>4 DEF Charge
    <2> QED BY <1>1, <1>4, <2>1 DEF Ledgers
  <1>5. CASE /\ e.type \notin {"turn_end", "agent_end", "session_end"}
             /\ ~(e.type = "tool_result" /\ pc # "skip_result")
             /\ ~(e.type = "error" /\ e.info = "recoverable")
    <2>1. ledger' = ledger
      BY <1>5 DEF Charge
    <2> QED BY <1>5, <2>1
  <1> QED BY <1>2, <1>3, <1>4, <1>5

LEMMA RunKeeps ==
  ASSUME LivesInv, Run
  PROVE  LivesInv'
  <1> DEFINE n == Cardinality(Spoken)
             m == Cardinality(CompletedAnswers)
             e == log'[Len(log')]
  <1>0. TypeOK /\ PhaseInv /\ DispatchedIssued /\ ledger \in Ledgers
        /\ SpentInv /\ EarnedInv /\ [Next]_vars
    BY DEF LivesInv, Run
  <1>1. TypeOK' /\ PhaseInv' /\ Spending /\ LogGrowth
    BY <1>0, NextType, PhaseNext, StepSpends, StepGrows
  <1>2. /\ n \in Nat /\ m \in Nat /\ Earned \in Nat
        /\ m =< n /\ m =< Earned
    BY <1>0, Counts
  <1>4. /\ modelSteps \in Nat /\ toolCalls \in Nat
        /\ modelSteps' \in Nat /\ toolCalls' \in Nat
    BY <1>0, <1>1 DEF TypeOK
  <1>5. CASE UNCHANGED log /\ ~Opens
    <2>1. ledger' = ledger
      BY <1>0, <1>5 DEF Run, TypeOK
    <2>2. n' = n /\ m' = m /\ Earned' = Earned
      BY <1>5 DEF Spoken, CompletedAnswers, Latest, Earned, AssistantsBefore
    <2> HIDE DEF n, m
    <2>3. SpentInv'
      BY <1>0, <1>1, <1>2, <1>4, <2>1, <2>2
         DEF SpentInv, Spending, Asking, Calling, n, m, Ledgers
    <2>4. EarnedInv'
      BY <1>0, <1>1, <1>2, <1>4, <1>5, <2>2
         DEF EarnedInv, Spending, Asking
    <2> QED BY <1>0, <1>1, <2>1, <2>3, <2>4 DEF LivesInv, Spending
  <1>6. CASE ~(UNCHANGED log /\ ~Opens)
    <2>1. /\ log' = Append(log, e) /\ ~storeFailed
          /\ e.type = "session_start" <=> Opens
          /\ e.type = "assistant_message" => pc = "request" /\ pc' = "declared"
          /\ e = Event("turn_end", 0, "COMPLETED_TURN") => exit = "completed"
          /\ e.type = "tool_result" =>
               pc \in {"result", "skip_result"} /\ pc' \notin Calling
      BY <1>1, <1>6 DEF LogGrowth
    <2>2. ledger' = Charge(e)
      <3>1. Len(log') > Len(log)
        BY <1>0, <2>1 DEF TypeOK
      <3> QED BY <3>1 DEF Run
    <2>3. ledger' \in Ledgers
      BY <1>0, <1>1, <2>2, Charges
    <2>4. /\ Spoken' \subseteq Spoken \cup {Len(log) + 1}
          /\ e.type # "assistant_message" => Spoken' \subseteq Spoken
          /\ CompletedAnswers' \subseteq CompletedAnswers \cup Latest
          /\ e # Event("turn_end", 0, "COMPLETED_TURN") =>
               CompletedAnswers' \subseteq CompletedAnswers
          /\ Latest' \subseteq Latest \cup {Len(log) + 1}
          /\ e.type # "assistant_message" => Latest' \subseteq Latest
          /\ e.type = "session_start" => Latest' = {}
      BY <1>0, <2>1, CountsGrow
    <2>5. IsFiniteSet(Spoken) /\ IsFiniteSet(CompletedAnswers \cup Latest)
          /\ IsFiniteSet(CompletedAnswers)
      BY <1>0, Counts, Subsets
    <2>6. /\ n' \in Nat /\ n' =< n + 1
          /\ e.type # "assistant_message" => n' =< n
      BY <2>4, <2>5, OneMore, Subsets
    <2>7. /\ m' \in Nat /\ m' =< Earned
          /\ e # Event("turn_end", 0, "COMPLETED_TURN") => m' =< m
      BY <2>4, <2>5, Subsets DEF Earned
    <2>8. e.type # "turn_end" => e # Event("turn_end", 0, "COMPLETED_TURN")
      BY DEF Event
    <2>9. /\ Earned' \in Nat /\ Earned' =< Earned + 1
          /\ e.type # "assistant_message" => Earned' =< Earned
          /\ e.type = "session_start" => Earned' =< m
      <3>1. (CompletedAnswers \cup Latest)'
              \subseteq (CompletedAnswers \cup Latest) \cup {Len(log) + 1}
        BY <2>4
      <3>2. e.type # "assistant_message" =>
              (CompletedAnswers \cup Latest)'
                \subseteq CompletedAnswers \cup Latest
        BY <2>4
      <3>3. e.type = "session_start" =>
              (CompletedAnswers \cup Latest)' \subseteq CompletedAnswers
        BY <2>4, <2>8
      <3> DEFINE A == CompletedAnswers \cup Latest
      <3>4. Earned = Cardinality(A) /\ Earned' = Cardinality(A')
        BY DEF Earned
      <3> HIDE DEF A, e
      <3>5. Earned' \in Nat /\ Earned' =< Earned + 1
        BY <2>5, <3>1, <3>4, OneMore DEF A
      <3>6. e.type # "assistant_message" => Earned' =< Earned
        BY <2>5, <3>2, <3>4, Subsets DEF A
      <3>7. e.type = "session_start" => Earned' =< m
        BY <2>5, <3>3, <3>4, Subsets DEF A
      <3> QED BY <3>5, <3>6, <3>7
    <2> HIDE DEF n, m, e
    <2>10. m =< modelSteps
      BY <1>0, <1>2, <1>4 DEF SpentInv, Ledgers, n, m
    <2>11. e.type = "turn_end" => Earned =< modelSteps \/ m' =< m
      BY <1>0, <2>1, <2>7 DEF EarnedInv, Unopened
    <2>12. SpentInv'
      <3>0. SpentInv' =
             /\ ledger'.snapshot = NoSnapshot =>
                  /\ n' =< modelSteps'
                  /\ pc' \in Asking => n' < modelSteps'
                  /\ ledger'.results =< toolCalls'
                  /\ pc' \in Calling => ledger'.results < toolCalls'
             /\ ledger'.snapshot # NoSnapshot =>
                  /\ m' =< ledger'.snapshot[1]
                  /\ ledger'.snapshot[1] =< modelSteps'
                  /\ ledger'.snapshot[2] =< toolCalls'
        BY DEF SpentInv, NoSnapshot, n, m
      <3>1. /\ ledger.snapshot = NoSnapshot =>
                 /\ n' =< modelSteps'
                 /\ pc' \in Asking => n' < modelSteps'
                 /\ ledger.results =< toolCalls'
                 /\ pc' \in Calling => ledger.results < toolCalls'
                 /\ e.type = "tool_result" /\ pc # "skip_result" =>
                      ledger.results + 1 =< toolCalls'
            /\ ledger.snapshot # NoSnapshot =>
                 /\ m =< ledger.snapshot[1]
                 /\ ledger.snapshot[1] =< modelSteps'
                 /\ ledger.snapshot[2] =< toolCalls'
        <4>1. ledger.results \in Nat
          BY <1>0 DEF Ledgers
        <4>2. ASSUME ledger.snapshot = NoSnapshot
              PROVE  /\ n =< modelSteps /\ ledger.results =< toolCalls
                     /\ pc \in Asking => n < modelSteps
                     /\ pc \in Calling => ledger.results < toolCalls
          BY <1>0, <4>2 DEF SpentInv, n
        <4>3. ASSUME ledger.snapshot # NoSnapshot
              PROVE  /\ m =< ledger.snapshot[1]
                     /\ ledger.snapshot[1] =< modelSteps
                     /\ ledger.snapshot[2] =< toolCalls
                     /\ ledger.snapshot[1] \in Nat
                     /\ ledger.snapshot[2] \in Nat
          BY <1>0, <4>3 DEF SpentInv, Ledgers, m
        <4>4. /\ modelSteps =< modelSteps' /\ toolCalls =< toolCalls'
              /\ pc' \in Asking /\ pc \notin Asking => modelSteps < modelSteps'
              /\ pc' \in Calling /\ pc \notin Calling => toolCalls < toolCalls'
          BY <1>1, <1>4 DEF Spending
        <4>5. /\ "declared" \notin Asking /\ "request" \in Asking
              /\ "result" \in Calling
          BY DEF Asking, Calling
        <4>6. CASE ledger.snapshot = NoSnapshot
          <5> DEFINE r == ledger.results
          <5> HIDE DEF r
          <5>1. r \in Nat /\ r =< toolCalls
            BY <4>1, <4>2, <4>6 DEF r
          <5>2. n' =< modelSteps'
            BY <1>2, <1>4, <2>1, <2>6, <4>2, <4>4, <4>5, <4>6
          <5>3. pc' \in Asking => n' < modelSteps'
            BY <1>2, <1>4, <2>1, <2>6, <4>2, <4>4, <4>5, <4>6
          <5>4. r =< toolCalls'
            BY <1>4, <4>4, <5>1
          <5>5. pc' \in Calling => r < toolCalls'
            BY <1>4, <4>2, <4>4, <4>6, <5>1 DEF r
          <5>6. e.type = "tool_result" /\ pc # "skip_result" => r < toolCalls
            BY <2>1, <4>2, <4>5, <4>6 DEF r
          <5>7. e.type = "tool_result" /\ pc # "skip_result" =>
                  r + 1 =< toolCalls'
            BY <1>4, <4>4, <5>1, <5>6
          <5> QED BY <4>6, <5>2, <5>3, <5>4, <5>5, <5>7 DEF r
        <4>7. CASE ledger.snapshot # NoSnapshot
          BY <1>4, <4>3, <4>4, <4>7
        <4> QED BY <4>6, <4>7
      <3>2. CASE /\ ledger' = [ledger EXCEPT !.snapshot = budget]
                 /\ e.type # "assistant_message"
        <4>1. /\ ledger'.snapshot = <<modelSteps, toolCalls, protocolErrors>>
              /\ ledger'.snapshot # NoSnapshot
          BY <1>0, <3>2 DEF Ledgers, budget, NoSnapshot
        <4>2. m' =< modelSteps
          BY <1>0, <1>2, <1>4, <2>1, <2>7, <2>8, <2>10, <2>11
             DEF EarnedInv, Unopened
        <4> QED BY <1>1, <1>4, <3>0, <4>1, <4>2 DEF Spending
      <3>3. CASE /\ ledger' = [ledger EXCEPT !.results = @ + 1]
                 /\ e.type = "tool_result" /\ pc # "skip_result"
        <4>1. /\ ledger'.snapshot = ledger.snapshot
              /\ ledger'.results = ledger.results + 1
          BY <1>0, <3>3 DEF Ledgers
        <4>2. m' =< m /\ pc' \notin Calling
          BY <2>1, <2>7, <2>8, <3>3
        <4> QED
          BY <1>0, <1>2, <2>7, <3>0, <3>1, <3>3, <4>1, <4>2
             DEF Ledgers, NoSnapshot
      <3>4. CASE /\ ledger'.snapshot = ledger.snapshot
                 /\ ledger'.results = ledger.results
                 /\ e.type # "turn_end"
        <4>1. m' =< m
          BY <2>7, <2>8, <3>4
        <4> QED
          BY <1>0, <1>2, <2>7, <3>0, <3>1, <3>4, <4>1
             DEF Ledgers, NoSnapshot
      <3>5. CASE /\ ledger' = [ledger EXCEPT !.errors = protocolErrors']
                 /\ e.type = "error"
        BY <1>0, <3>4, <3>5 DEF Ledgers
      <3>6. CASE /\ ledger' = ledger
                 /\ e.type \notin {"turn_end", "agent_end", "session_end"}
        BY <3>4, <3>6
      <3> QED BY <1>0, <1>1, <2>2, <3>2, <3>3, <3>5, <3>6, Charges
    <2>13. EarnedInv'
      <3> SUFFICES ASSUME ~storeFailed', ~Unopened'
                   PROVE  /\ Earned' =< modelSteps'
                          /\ pc' \in Asking => Earned' < modelSteps'
        BY DEF EarnedInv
      <3>1. CASE Opens
        BY <1>1, <1>2, <1>4, <2>1, <2>9, <2>10, <3>1
           DEF Opens, Spending, Asking
      <3>2. CASE ~Opens
        <4>1. ~Unopened
          BY <1>1, <3>2 DEF Spending
        <4> QED
          BY <1>0, <1>1, <1>2, <1>4, <2>1, <2>9, <4>1
             DEF EarnedInv, Spending, Asking
      <3> QED BY <3>1, <3>2
    <2> QED BY <1>0, <1>1, <2>3, <2>12, <2>13 DEF LivesInv, Spending
  <1> QED BY <1>5, <1>6

-----------------------------------------------------------------------------
(***************************************************************************)
(* The first life starts with nothing charged, the end of a process leaves *)
(* what the invariant is about alone, and the next one starts from the log.*)
(***************************************************************************)
LEMMA LivesStart == RecoveryInit => LivesInv
  <1> SUFFICES ASSUME RecoveryInit PROVE LivesInv
    OBVIOUS
  <1>1. TypeOK /\ PhaseInv
    BY InitType, PhaseInit DEF RecoveryInit
  <1>2. /\ log = <<>> /\ Len(log) = 0 /\ modelSteps = 0 /\ toolCalls = 0
        /\ pc = "idle" /\ exit = "none" /\ ~sessionStarted /\ executed = {}
        /\ ledger = [snapshot |-> NoSnapshot, results |-> 0, errors |-> 0]
    BY DEF RecoveryInit, Init
  <1>3. Cardinality(Spoken) = 0
    <2>1. Spoken = {}
      BY <1>2 DEF Spoken, AssistantsBefore
    <2> QED BY <2>1, FS_EmptySet
  <1>4. SpentInv
    BY <1>2, <1>3 DEF SpentInv, Asking, Calling
  <1>5. Unopened
    BY <1>2 DEF Unopened
  <1>6. ledger \in Ledgers /\ DispatchedIssued
    BY <1>2 DEF Ledgers, DispatchedIssued
  <1> QED BY <1>1, <1>4, <1>5, <1>6 DEF LivesInv, EarnedInv

(***************************************************************************)
(* What a new life is charged: no more than was spent, and no less than    *)
(* the completed turns have cost.                                          *)
(***************************************************************************)
LEMMA RestoredSpent ==
  ASSUME LivesInv
  PROVE  /\ Restored[1] \in Nat /\ Restored[2] \in Nat /\ Restored[3] \in Nat
         /\ Restored[1] =< modelSteps /\ Restored[2] =< toolCalls
         /\ Cardinality(CompletedAnswers) =< Restored[1]
  <1>1. CASE ledger.snapshot = NoSnapshot
    <2>1. Restored = <<Cardinality(Spoken), ledger.results, ledger.errors>>
      BY <1>1 DEF Restored, Spoken
    <2>2. ledger.results \in Nat /\ ledger.errors \in Nat
      BY DEF LivesInv, Ledgers
    <2>3. /\ Cardinality(Spoken) \in Nat
          /\ Cardinality(CompletedAnswers) =< Cardinality(Spoken)
      BY Counts DEF LivesInv
    <2> QED BY <1>1, <2>1, <2>2, <2>3 DEF LivesInv, SpentInv
  <1>2. CASE ledger.snapshot # NoSnapshot
    <2>1. Restored = ledger.snapshot /\ ledger.snapshot \in Nat \X Nat \X Nat
      BY <1>2 DEF Restored, LivesInv, Ledgers
    <2> QED BY <1>2, <2>1 DEF LivesInv, SpentInv
  <1> QED BY <1>1, <1>2

LEMMA ResumeKeeps ==
  ASSUME LivesInv, Resume
  PROVE  LivesInv'
  <1>1. TypeOK /\ DispatchedIssued /\ ledger \in Ledgers
    BY DEF LivesInv
  <1>2. /\ Fresh /\ modelSteps' = Restored[1] /\ toolCalls' = Restored[2]
        /\ protocolErrors' = Restored[3] /\ context' = WholeGroups(Recorded)
        /\ UNCHANGED <<log, issued, executed, turns, ledger>>
    BY DEF Resume
  <1>3. /\ pc' = "idle" /\ exit' = "none" /\ ~turnActive' /\ ~sessionClosed'
        /\ ~sessionStarted' /\ head' = issued + 1
    BY <1>2 DEF Fresh
  <1>4. TypeOK'
    <2>1. context' \in Seq(Messages)
      BY <1>1, <1>2, RecordedType DEF TypeOK
    <2>2. modelSteps' \in Nat /\ toolCalls' \in Nat /\ protocolErrors' \in Nat
      BY <1>2, RestoredSpent
    <2>3. head' \in Nat \ {0}
      BY <1>1, <1>3 DEF TypeOK
    <2>4. pc' \in PcValues /\ exit' \in Exits /\ state' \in RuntimeStates
      BY <1>2 DEF Fresh, PcValues, Exits, RuntimeStates
    <2>5. outcome' \in [status : ToolResultStatuses,
                        raised : {"none", "interrupted", "failed"}]
      BY <1>2 DEF Fresh, ToolResultStatuses
    <2> QED
      BY <1>1, <1>2, <2>1, <2>2, <2>3, <2>4, <2>5 DEF TypeOK, Fresh
  <1>5. PhaseInv' /\ DispatchedIssued'
    <2>1. issued \in Nat /\ executed \subseteq 1 .. issued
      BY <1>1 DEF TypeOK, DispatchedIssued
    <2>2. head' \notin executed' /\ executed' \subseteq 1 .. head'
          /\ head' =< issued' + 1
      BY <1>2, <1>3, <2>1
    <2>3. pc' \notin InTurn /\ pc' \notin InCall
      BY <1>3 DEF InTurn, InCall
    <2> QED BY <1>2, <1>3, <2>1, <2>2, <2>3 DEF PhaseInv, DispatchedIssued
  <1>6. /\ Spoken' = Spoken /\ CompletedAnswers' = CompletedAnswers
        /\ ledger' = ledger
    BY <1>2 DEF Spoken, CompletedAnswers, AssistantsBefore
  <1>7. SpentInv'
    <2>1. CASE ledger.snapshot = NoSnapshot
      <3>1. Restored = <<Cardinality(Spoken), ledger.results, ledger.errors>>
        BY <2>1 DEF Restored, Spoken
      <3>2. Cardinality(Spoken) \in Nat /\ ledger.results \in Nat
        BY <1>1, Counts DEF Ledgers
      <3> QED
        BY <1>2, <1>3, <1>6, <2>1, <3>1, <3>2 DEF SpentInv, Asking, Calling
    <2>2. CASE ledger.snapshot # NoSnapshot
      <3>1. Restored = ledger.snapshot /\ ledger.snapshot \in Nat \X Nat \X Nat
        BY <1>1, <2>2 DEF Restored, Ledgers
      <3>2. Cardinality(CompletedAnswers) =< ledger.snapshot[1]
        BY <2>2 DEF LivesInv, SpentInv
      <3> QED BY <1>2, <1>6, <2>2, <3>1, <3>2 DEF SpentInv
    <2> QED BY <2>1, <2>2
  <1>8. EarnedInv'
    BY <1>3 DEF EarnedInv, Unopened
  <1> QED BY <1>1, <1>4, <1>5, <1>6, <1>7, <1>8 DEF LivesInv

LEMMA LivesKept == LivesInv /\ [RecoveryNext]_sessionVars => LivesInv'
  <1> SUFFICES ASSUME LivesInv, [RecoveryNext]_sessionVars PROVE LivesInv'
    OBVIOUS
  <1>1. CASE Run
    BY <1>1, RunKeeps
  <1>2. CASE Resume
    BY <1>2, ResumeKeeps
  <1>3. CASE UNCHANGED <<vars, ledger>>
    <2>1. /\ TypeOK' /\ PhaseInv' /\ DispatchedIssued' /\ ledger' = ledger
          /\ modelSteps' = modelSteps /\ toolCalls' = toolCalls /\ pc' = pc
          /\ storeFailed' = storeFailed /\ Unopened' = Unopened
      <3>1. [Next]_vars
        BY <1>3
      <3>2. TypeOK' /\ PhaseInv'
        BY <3>1, NextType, PhaseNext DEF LivesInv
      <3> QED
        BY <1>3, <3>2 DEF LivesInv, DispatchedIssued, Unopened, vars, budget,
                          plans, journal, lifecycle
    <2>2. /\ Spoken' = Spoken /\ CompletedAnswers' = CompletedAnswers
          /\ Earned' = Earned
      BY <1>3 DEF Spoken, CompletedAnswers, AssistantsBefore, Latest, Earned,
                  vars, journal
    <2> QED BY <2>1, <2>2 DEF LivesInv, SpentInv, EarnedInv
  <1> QED
    BY <1>1, <1>2, <1>3 DEF RecoveryNext, Crash, sessionVars, recoveryVars

(***************************************************************************)
(* The invariant holds in all the lives of a session.                      *)
(***************************************************************************)
THEOREM LivesInvariant == RecoverySpec => []LivesInv
  BY LivesStart, LivesKept, PTL DEF RecoverySpec

-----------------------------------------------------------------------------
(***************************************************************************)
(* The end of a group is a message: its results directly follow its head,  *)
(* so that there are at most as many as positions behind it.               *)
(***************************************************************************)
LEMMA EndOfType ==
  ASSUME NEW ctx \in Seq(Messages), NEW k \in Heads(ctx)
  PROVE  EndOf(ctx, k) \in Nat
  <1>1. Len(ctx) \in Nat /\ k \in 1 .. Len(ctx)
    BY DEF Heads
  <1>2. /\ IsFiniteSet((k + 1) .. Len(ctx))
        /\ Cardinality((k + 1) .. Len(ctx)) = Len(ctx) - k
    <2>1. /\ IsFiniteSet((k + 1) .. Len(ctx))
          /\ Cardinality((k + 1) .. Len(ctx)) =
               IF k + 1 > Len(ctx) THEN 0 ELSE Len(ctx) - (k + 1) + 1
      <3>1. k + 1 \in Int /\ Len(ctx) \in Int
        BY <1>1
      <3> QED BY <3>1, FS_Interval, Zenon
    <2> QED BY <1>1, <2>1
  <1>3. Answers(ctx, k) \subseteq (k + 1) .. Len(ctx)
    BY DEF Answers
  <1>4. /\ Cardinality(Answers(ctx, k)) \in Nat
        /\ Cardinality(Answers(ctx, k)) =< Len(ctx) - k
    BY <1>2, <1>3, Subsets
  <1>5. k + Cardinality(Answers(ctx, k)) \in 1 .. Len(ctx)
    BY <1>1, <1>4
  <1>6. ctx[k + Cardinality(Answers(ctx, k))] \in Messages
    BY <1>5
  <1> QED BY <1>6 DEF EndOf, Messages

LEMMA CutType ==
  ASSUME RecoveryTypeOK, [RecoveryNext]_sessionVars
  PROVE  /\ cut' \in [covered : Nat, degraded : Nat]
         /\ alive' \in BOOLEAN /\ crashes' \in 0 .. MaxCrashes
  <1>0. /\ cut \in [covered : Nat, degraded : Nat]
        /\ alive \in BOOLEAN /\ crashes \in 0 .. MaxCrashes
        /\ MaxCrashes \in Nat /\ context \in Seq(Messages)
    BY RecoveryAssumption DEF RecoveryAssumption, RecoveryTypeOK, TypeOK
  <1>1. CASE Run
    <2>1. UNCHANGED <<alive, crashes>>
      BY <1>1 DEF Run
    <2>2. CASE UNCHANGED cut
      BY <1>0, <2>1, <2>2
    <2>3. CASE ~UNCHANGED cut
      <3>1. PICK k \in DOMAIN context :
              Planned(k) /\ cut' = CutAt(k, log'[Len(log')].info)
        BY <1>1, <2>3 DEF Run
      <3>2. EndOf(context, k) \in Nat
        BY <1>0, <3>1, EndOfType DEF Planned
      <3> QED BY <1>0, <2>1, <3>1, <3>2 DEF CutAt
    <2> QED BY <2>2, <2>3
  <1>2. CASE Crash
    <2>1. /\ crashes < MaxCrashes /\ crashes' = crashes + 1
          /\ alive' = FALSE /\ cut' = cut
      BY <1>2 DEF Crash
    <2>2. crashes' \in 0 .. MaxCrashes
      BY <1>0, <2>1
    <2> QED BY <1>0, <2>1, <2>2, Zenon
  <1>3. CASE Resume
    <2>1. alive' = TRUE /\ UNCHANGED <<crashes, cut>>
      BY <1>3, Zenon DEF Resume
    <2> QED BY <1>0, <2>1
  <1>4. CASE UNCHANGED sessionVars
    BY <1>0, <1>4 DEF sessionVars, recoveryVars
  <1> QED BY <1>1, <1>2, <1>3, <1>4 DEF RecoveryNext

(***************************************************************************)
(* The types of a session through its lives: those of the loop, and those  *)
(* of what is read from the log when it is resumed.                        *)
(***************************************************************************)
THEOREM RecoveryTypeCorrect == RecoverySpec => []RecoveryTypeOK
  <1>1. RecoveryInit => RecoveryTypeOK
    <2> SUFFICES ASSUME RecoveryInit PROVE RecoveryTypeOK
      OBVIOUS
    <2> QED
      BY InitType, RecoveryAssumption
         DEF RecoveryInit, RecoveryTypeOK, RecoveryAssumption
  <1>2. LivesInv' /\ RecoveryTypeOK /\ [RecoveryNext]_sessionVars
          => RecoveryTypeOK'
    <2> SUFFICES ASSUME LivesInv', RecoveryTypeOK, [RecoveryNext]_sessionVars
                 PROVE  RecoveryTypeOK'
      OBVIOUS
    <2>1. TypeOK' /\ ledger' \in Ledgers
      BY DEF LivesInv
    <2>2. /\ DOMAIN ledger' = {"snapshot", "results", "errors"}
          /\ \/ ledger'.snapshot = NoSnapshot
             \/ ledger'.snapshot \in Nat \X Nat \X Nat
          /\ ledger'.results \in Nat /\ ledger'.errors \in Nat
      BY <2>1 DEF Ledgers
    <2> QED BY <2>1, <2>2, CutType DEF RecoveryTypeOK
  <1> QED BY <1>1, <1>2, LivesInvariant, PTL DEF RecoverySpec

-----------------------------------------------------------------------------
(***************************************************************************)
(* A call is dispatched once in all the lives of its session: neither the  *)
(* executor nor a resume, which starts behind the last call issued, sends  *)
(* a call again that may have had its side effects.                        *)
(***************************************************************************)
THEOREM NothingRunsTwice == RecoverySpec => NothingReplayed
  <1>1. LivesInv /\ [RecoveryNext]_sessionVars =>
          [alive /\ pc = "execute" /\ pc' # "execute"
             => head \notin executed]_vars
    BY DEF LivesInv, PhaseInv
  <1> QED BY <1>1, LivesInvariant, PTL DEF RecoverySpec, NothingReplayed

(***************************************************************************)
(* However often a session ends and is resumed, the budget it is given     *)
(* again is at most what the life before had spent, and covers the         *)
(* answers of every turn that completed.                                   *)
(***************************************************************************)
THEOREM BudgetRestored == RecoverySpec => BudgetSurvives
  <1>1. LivesInv /\ [RecoveryNext]_sessionVars =>
          [~alive /\ alive' =>
             /\ modelSteps' =< modelSteps /\ toolCalls' =< toolCalls
             /\ modelSteps' >= Cardinality(CompletedAnswers)]_sessionVars
    <2> SUFFICES ASSUME LivesInv, [RecoveryNext]_sessionVars, ~alive, alive'
                 PROVE  /\ modelSteps' =< modelSteps /\ toolCalls' =< toolCalls
                        /\ modelSteps' >= Cardinality(CompletedAnswers)
      OBVIOUS
    <2>1. Resume
      BY DEF RecoveryNext, Run, Crash, sessionVars, recoveryVars
    <2>2. modelSteps' = Restored[1] /\ toolCalls' = Restored[2]
      BY <2>1 DEF Resume
    <2>3. Cardinality(CompletedAnswers) \in Nat
      BY Counts DEF LivesInv
    <2> QED BY <2>2, <2>3, RestoredSpent
  <1> QED BY <1>1, LivesInvariant, PTL DEF RecoverySpec, BudgetSurvives

-----------------------------------------------------------------------------
(***************************************************************************)
(* Groups.  A group is a head with the results that follow it, and is the  *)
(* same wherever its messages are.                                         *)
(***************************************************************************)

(* The calls a message declares, by the log it was recorded in. *)
CallsIn(lg, m) ==
  IF m.role # "assistant" THEN {}
  ELSE {c \in 1 .. m.call :
          \A i \in 1 .. (m.sequence - 1) :
            lg[i].type = "assistant_message" => c > lg[i].call}

(* Whole, by the log lg. *)
WholeIn(lg, ctx, k) ==
  /\ Answered(ctx, k) = CallsIn(lg, ctx[k])
  /\ Cardinality(Answers(ctx, k)) = Cardinality(CallsIn(lg, ctx[k]))

(* The group at k ends with the message at e. *)
Span(ctx, k, e) ==
  /\ k \in Heads(ctx) /\ e \in k .. Len(ctx)
  /\ \A j \in (k + 1) .. e : ctx[j].role = "tool"
  /\ e = Len(ctx) \/ ctx[e + 1].role # "tool"

(* The calls that the messages behind k and up to e answer. *)
Results(ctx, k, e) == {ctx[j].call : j \in (k + 1) .. e}

(* Whole is what WholeIn says by the log there is. *)
LEMMA WholeSame ==
  ASSUME NEW ctx, NEW k \in Heads(ctx)
  PROVE  Whole(ctx, k) <=> WholeIn(log, ctx, k)
  <1>1. Calls(ctx[k]) = CallsIn(log, ctx[k])
    BY DEF Calls, CallsIn, AssistantsBefore
  <1> QED BY <1>1 DEF Whole, WholeIn

(* Every group ends somewhere, *)
LEMMA SpanExists ==
  ASSUME NEW ctx \in Seq(Messages), NEW k \in Heads(ctx)
  PROVE  \E e \in k .. Len(ctx) : Span(ctx, k, e)
  <1> DEFINE S == {j \in (k + 1) .. Len(ctx) : ctx[j].role # "tool"}
  <1>1. k \in 1 .. Len(ctx) /\ Len(ctx) \in Nat
    BY DEF Heads
  <1>2. CASE S = {}
    <2>1. Span(ctx, k, Len(ctx))
      BY <1>1, <1>2 DEF Span
    <2> QED BY <1>1, <2>1
  <1>3. CASE S # {}
    <2>1. S \subseteq Nat /\ S \in SUBSET ((k + 1) .. Len(ctx))
      BY <1>1
    <2>2. IsFiniteSet(S)
      <3>1. IsFiniteSet((k + 1) .. Len(ctx))
        <4>1. k \in Nat /\ k =< Len(ctx)
          BY <1>1
        <4> QED BY <1>1, <4>1, Between
      <3> HIDE DEF S
      <3> QED BY <2>1, <3>1, FS_Subset
    <2>3. PICK m \in S : \A i \in S : m =< i
      <3> HIDE DEF S
      <3> QED BY <1>3, <2>1, <2>2, Least
    <2>4. /\ m \in (k + 1) .. Len(ctx) /\ ctx[m].role # "tool"
          /\ \A i \in (k + 1) .. Len(ctx) : ctx[i].role # "tool" => m =< i
      BY <2>3
    <2>5. \A j \in (k + 1) .. (m - 1) : ctx[j].role = "tool"
      <3> TAKE j \in (k + 1) .. (m - 1)
      <3>1. j \in (k + 1) .. Len(ctx) /\ ~(m =< j)
        BY <1>1, <2>4
      <3> QED BY <2>4, <3>1
    <2>6. m - 1 \in k .. Len(ctx) /\ m - 1 + 1 = m
      BY <1>1, <2>4
    <2>7. Span(ctx, k, m - 1)
      BY <2>4, <2>5, <2>6 DEF Span
    <2> QED BY <2>6, <2>7
  <1> QED BY <1>2, <1>3

(* and its results are the messages up to there. *)
LEMMA SpanAnswers ==
  ASSUME NEW ctx \in Seq(Messages), NEW k, NEW e, Span(ctx, k, e)
  PROVE  /\ Answers(ctx, k) = (k + 1) .. e
         /\ Cardinality(Answers(ctx, k)) = e - k
         /\ EndOf(ctx, k) = ctx[e].sequence
         /\ Answered(ctx, k) = Results(ctx, k, e)
         /\ k \in 1 .. Len(ctx) /\ e \in k .. Len(ctx) /\ Len(ctx) \in Nat
  <1>1. /\ k \in 1 .. Len(ctx) /\ e \in k .. Len(ctx) /\ Len(ctx) \in Nat
        /\ \A j \in (k + 1) .. e : ctx[j].role = "tool"
        /\ e = Len(ctx) \/ ctx[e + 1].role # "tool"
    BY DEF Span, Heads
  <1>2. Answers(ctx, k) = (k + 1) .. e
    <2>1. ASSUME NEW j \in Answers(ctx, k)
          PROVE  j \in (k + 1) .. e
      <3>1. /\ j \in (k + 1) .. Len(ctx)
            /\ \A i \in (k + 1) .. j : ctx[i].role = "tool"
        BY <2>1 DEF Answers
      <3>2. CASE j > e
        <4>1. e + 1 \in (k + 1) .. j /\ e # Len(ctx)
          BY <1>1, <3>1, <3>2
        <4> QED BY <1>1, <3>1, <4>1
      <3>3. CASE ~(j > e)
        BY <1>1, <3>1, <3>3
      <3> QED BY <3>2, <3>3
    <2>2. ASSUME NEW j \in (k + 1) .. e
          PROVE  j \in Answers(ctx, k)
      <3>1. /\ j \in (k + 1) .. Len(ctx)
            /\ \A i \in (k + 1) .. j : i \in (k + 1) .. e
        BY <1>1
      <3> QED BY <1>1, <3>1 DEF Answers
    <2> QED BY <2>1, <2>2
  <1>3. Cardinality(Answers(ctx, k)) = e - k
    BY <1>1, <1>2, Between
  <1>4. k + (e - k) = e
    BY <1>1
  <1> QED BY <1>1, <1>2, <1>3, <1>4 DEF EndOf, Answered, Results

(* When the group at k is whole, by its last message. *)
LEMMA SpanWhole ==
  ASSUME NEW lg, NEW ctx \in Seq(Messages), NEW k, NEW e, Span(ctx, k, e)
  PROVE  WholeIn(lg, ctx, k) <=>
           /\ Results(ctx, k, e) = CallsIn(lg, ctx[k])
           /\ e - k = Cardinality(CallsIn(lg, ctx[k]))
  BY SpanAnswers DEF WholeIn

(* The messages of s from k to e are those of t from a to b. *)
Copied(s, k, e, t, a, b) ==
  /\ a \in 1 .. Len(t) /\ b \in a .. Len(t) /\ b - a = e - k
  /\ \A j \in k .. e : t[j + (a - k)] = s[j]

(* A group is the same wherever its messages are. *)
LEMMA SameGroup ==
  ASSUME NEW lg, NEW lh, NEW s \in Seq(Messages), NEW t \in Seq(Messages),
         NEW k, NEW e, Span(s, k, e), NEW a, NEW b, Copied(s, k, e, t, a, b),
         b = Len(t) \/ t[b + 1].role # "tool",
         CallsIn(lh, s[k]) = CallsIn(lg, s[k])
  PROVE  /\ Span(t, a, b)
         /\ WholeIn(lh, t, a) <=> WholeIn(lg, s, k)
  <1> DEFINE d == a - k
  <1>1. /\ k \in 1 .. Len(s) /\ e \in k .. Len(s) /\ Len(s) \in Nat
        /\ s[k].role # "tool"
        /\ \A j \in (k + 1) .. e : s[j].role = "tool"
    BY DEF Span, Heads
  <1>2. /\ Len(t) \in Nat /\ DOMAIN t = 1 .. Len(t)
        /\ a \in 1 .. Len(t) /\ b \in a .. Len(t) /\ b - a = e - k
        /\ \A j \in k .. e : t[j + d] = s[j]
    BY DEF Copied
  <1>3. /\ a \in Int /\ b \in Int /\ k \in Int /\ e \in Int
        /\ k =< e /\ a =< b /\ b - a = e - k
    <2>1. k \in 1 .. Len(s) /\ e \in k .. Len(s) /\ Len(s) \in Nat
      BY <1>1
    <2>2. a \in 1 .. Len(t) /\ b \in a .. Len(t) /\ b - a = e - k
      BY <1>2
    <2>3. Len(t) \in Nat
      OBVIOUS
    <2> QED BY ONLY <2>1, <2>2, <2>3
  <1>4. d \in Int /\ k + d = a /\ e + d = b
    BY ONLY <1>3
  <1> HIDE DEF d
  <1>5. t[a] = s[k]
    <2>1. k \in k .. e
      BY <1>3
    <2>2. t[k + d] = s[k]
      BY <1>2, <2>1
    <2> QED BY <1>4, <2>2
  <1>6. ASSUME NEW j \in (a + 1) .. b
        PROVE  j - d \in (k + 1) .. e /\ t[j] = s[j - d]
    <2>1. j - d \in k .. e /\ j - d \in (k + 1) .. e /\ (j - d) + d = j
      BY <1>3, <1>4
    <2> QED BY <1>2, <2>1
  <1>7. ASSUME NEW j \in (k + 1) .. e
        PROVE  j + d \in (a + 1) .. b /\ t[j + d] = s[j]
    <2>1. j \in k .. e /\ j + d \in (a + 1) .. b
      BY <1>3, <1>4
    <2> QED BY <1>2, <2>1
  <1>8. Span(t, a, b)
    <2>1. a \in Heads(t)
      BY <1>1, <1>2, <1>5 DEF Heads
    <2>2. \A j \in (a + 1) .. b : t[j].role = "tool"
      BY <1>1, <1>6
    <2> QED BY <1>2, <2>1, <2>2 DEF Span
  <1>9. Results(t, a, b) = Results(s, k, e)
    <2> DEFINE A == {t[j].call : j \in (a + 1) .. b}
               B == {s[j].call : j \in (k + 1) .. e}
    <2>1. A \subseteq B
      <3> SUFFICES ASSUME NEW j \in (a + 1) .. b
                   PROVE  t[j].call \in B
        OBVIOUS
      <3> DEFINE i == j - d
      <3>1. i \in (k + 1) .. e /\ t[j] = s[i]
        BY <1>6
      <3> HIDE DEF i
      <3> QED BY <3>1
    <2>2. B \subseteq A
      <3> SUFFICES ASSUME NEW j \in (k + 1) .. e
                   PROVE  s[j].call \in A
        OBVIOUS
      <3> DEFINE i == j + d
      <3>1. i \in (a + 1) .. b /\ t[i] = s[j]
        BY <1>7
      <3> HIDE DEF i
      <3> QED BY <3>1
    <2> QED BY <2>1, <2>2 DEF Results
  <1>10. b - a = e - k /\ CallsIn(lh, t[a]) = CallsIn(lg, s[k])
    BY <1>2, <1>5
  <1> HIDE DEF Span
  <1>11. WholeIn(lg, s, k) <=>
           /\ Results(s, k, e) = CallsIn(lg, s[k])
           /\ e - k = Cardinality(CallsIn(lg, s[k]))
    BY SpanWhole
  <1>12. WholeIn(lh, t, a) <=>
           /\ Results(t, a, b) = CallsIn(lh, t[a])
           /\ b - a = Cardinality(CallsIn(lh, t[a]))
    BY <1>8, SpanWhole
  <1> HIDE DEF WholeIn
  <1>13. WholeIn(lh, t, a) <=> WholeIn(lg, s, k)
    BY <1>9, <1>10, <1>11, <1>12, Zenon
  <1> QED BY <1>8, <1>13

(* What a message declared does not change when the log grows. *)
LEMMA CallsStable ==
  ASSUME NEW lg \in Seq(Events), NEW e \in Events, NEW m \in Messages,
         m.sequence =< Len(lg) + 1
  PROVE  CallsIn(Append(lg, e), m) = CallsIn(lg, m)
  <1>1. m.sequence \in Nat /\ Len(lg) \in Nat
    BY DEF Messages
  <1>2. \A i \in 1 .. (m.sequence - 1) : Append(lg, e)[i] = lg[i]
    BY <1>1
  <1> QED BY <1>2 DEF CallsIn

(* Of two heads, the group of the first ends before the second. *)
LEMMA SpanBefore ==
  ASSUME NEW ctx \in Seq(Messages), NEW k, NEW f, Span(ctx, k, f),
         NEW i \in Heads(ctx), i > k
  PROVE  f < i /\ f < Len(ctx)
  <1>1. /\ k \in 1 .. Len(ctx) /\ f \in k .. Len(ctx) /\ Len(ctx) \in Nat
        /\ i \in 1 .. Len(ctx) /\ ctx[i].role # "tool"
        /\ \A j \in (k + 1) .. f : ctx[j].role = "tool"
    BY DEF Span, Heads
  <1>2. ~(i =< f)
    <2> SUFFICES ASSUME i =< f PROVE FALSE
      OBVIOUS
    <2>1. i \in (k + 1) .. f
      BY <1>1
    <2> QED BY <1>1, <2>1
  <1> QED BY <1>1, <1>2

(* Two groups that reach to the end are one. *)
LEMMA SpanLast ==
  ASSUME NEW s \in Seq(Messages), NEW i, NEW k, Span(s, i, Len(s)),
         Span(s, k, Len(s))
  PROVE  i = k
  <1>1. /\ i \in Heads(s) /\ k \in Heads(s) /\ Len(s) \in Nat
        /\ i \in Nat /\ k \in Nat
    <2>1. i \in Heads(s) /\ k \in Heads(s)
      BY DEF Span
    <2> QED BY <2>1 DEF Heads
  <1>2. ~(i > k)
    <2>1. ~(Len(s) < Len(s))
      BY <1>1
    <2> QED BY <1>1, <2>1, SpanBefore
  <1>3. ~(k > i)
    <2>1. ~(Len(s) < Len(s))
      BY <1>1
    <2> QED BY <1>1, <2>1, SpanBefore
  <1> QED BY <1>1, <1>2, <1>3

(* An open group reaches to the end. *)
LEMMA OpenSpan ==
  ASSUME NEW ctx \in Seq(Messages), NEW k \in Heads(ctx), Open(ctx, k)
  PROVE  Span(ctx, k, Len(ctx))
  <1>1. PICK f \in k .. Len(ctx) : Span(ctx, k, f)
    BY SpanExists
  <1>2. /\ Cardinality(Answers(ctx, k)) = f - k
        /\ k \in 1 .. Len(ctx) /\ f \in k .. Len(ctx) /\ Len(ctx) \in Nat
    BY <1>1, SpanAnswers
  <1>3. f = Len(ctx)
    BY <1>2 DEF Open
  <1> QED BY <1>1, <1>3

-----------------------------------------------------------------------------
(***************************************************************************)
(* The context within a life: all of its groups are whole, but for the     *)
(* last one while its calls are being answered.                            *)
(***************************************************************************)

(* The last call that the log declares is the last one issued. *)
IssuedIn(lg, iss) ==
  /\ \A i \in DOMAIN lg : lg[i].type = "assistant_message" => lg[i].call =< iss
  /\ \/ iss = 0
     \/ \E i \in DOMAIN lg :
          lg[i].type = "assistant_message" /\ lg[i].call = iss

(* The first call of the group at k, if its results end with call hd - 1. *)
FirstIn(ctx, k, hd) == hd - (Len(ctx) - k)

(* The group at k is the last one.  It declares the calls up to iss, and   *)
(* its results are, in order, those of its calls before hd.                *)
Opened(lg, ctx, k, hd, iss) ==
  /\ Span(ctx, k, Len(ctx)) /\ FirstIn(ctx, k, hd) \in 1 .. hd
  /\ CallsIn(lg, ctx[k]) = FirstIn(ctx, k, hd) .. iss
  /\ \A j \in (k + 1) .. Len(ctx) :
       ctx[j].call = FirstIn(ctx, k, hd) + (j - k - 1)

(* All groups are whole but the one whose calls are being answered. *)
GroupsIn(lg, ctx, hd, iss) ==
  /\ ctx # <<>> => 1 \in Heads(ctx)
  /\ \A k \in DOMAIN ctx : ctx[k].sequence \in 1 .. Len(lg)
  /\ \A k \in Heads(ctx) :
       WholeIn(lg, ctx, k) \/ (hd =< iss /\ Opened(lg, ctx, k, hd, iss))
  /\ hd =< iss => \E k \in Heads(ctx) : Opened(lg, ctx, k, hd, iss)

(* The assistant speaks by its messages only. *)
LEMMA Speakers ==
  ASSUME NEW e
  PROVE  RoleOf(e) = "assistant" <=> e.type = "assistant_message"
  BY DEF RoleOf

(* The calls issued go with the calls declared in the log. *)
LEMMA IssuedAppend ==
  ASSUME NEW lg \in Seq(Events), NEW e \in Events, NEW iss \in Nat,
         NEW is2 \in Nat, IssuedIn(lg, iss),
         \/ RoleOf(e) # "assistant" /\ is2 = iss
         \/ RoleOf(e) = "assistant" /\ iss =< is2 /\ e.call = is2
  PROVE  IssuedIn(Append(lg, e), is2)
  <1> DEFINE lh == Append(lg, e)
             x == Len(lg) + 1
  <1>1. /\ Len(lg) \in Nat /\ DOMAIN lg = 1 .. Len(lg)
        /\ DOMAIN lh = 1 .. x /\ lh[x] = e
        /\ \A i \in 1 .. Len(lg) : lh[i] = lg[i] /\ lg[i].call \in Nat
    <2>1. \A i \in 1 .. Len(lg) : lg[i] \in Events
      OBVIOUS
    <2>2. \A i \in 1 .. Len(lg) : lg[i].call \in Nat
      BY <2>1 DEF Events
    <2> QED BY <2>2
  <1>2. /\ \A i \in 1 .. x : i \in 1 .. Len(lg) \/ i = x
        /\ \A i \in 1 .. Len(lg) : i \in 1 .. x
        /\ x \in 1 .. x
    BY <1>1
  <1> HIDE DEF lh, x
  <1>3. CASE RoleOf(e) # "assistant" /\ is2 = iss
    BY <1>1, <1>2, <1>3, Speakers DEF IssuedIn, lh
  <1>4. CASE RoleOf(e) = "assistant" /\ iss =< is2 /\ e.call = is2
    <2>1. e.type = "assistant_message"
      BY <1>4, Speakers
    <2>2. ASSUME NEW i \in DOMAIN lh, lh[i].type = "assistant_message"
          PROVE  lh[i].call =< is2
      <3>1. CASE i = x
        BY <1>1, <1>4, <3>1
      <3>2. CASE i \in 1 .. Len(lg)
        <4>1. lg[i].call =< iss
          BY <1>1, <2>2, <3>2 DEF IssuedIn
        <4> QED BY <1>1, <1>4, <3>2, <4>1
      <3> QED BY <1>1, <1>2, <3>1, <3>2
    <2> QED BY <1>1, <1>2, <1>4, <2>1, <2>2 DEF IssuedIn, lh
  <1> QED BY <1>3, <1>4

(* What a new message declares: the calls issued with it. *)
LEMMA NewCalls ==
  ASSUME NEW lg \in Seq(Events), NEW e \in Events, NEW iss \in Nat,
         NEW is2 \in Nat, IssuedIn(lg, iss), NEW m,
         m = Message(RoleOf(e), e.call, Len(lg) + 1),
         \/ RoleOf(e) # "assistant" /\ is2 = iss
         \/ RoleOf(e) = "assistant" /\ iss =< is2 /\ e.call = is2
  PROVE  CallsIn(Append(lg, e), m) = (iss + 1) .. is2
  <1> DEFINE lh == Append(lg, e)
  <1>1. /\ Len(lg) \in Nat /\ DOMAIN lg = 1 .. Len(lg)
        /\ \A i \in 1 .. Len(lg) : lh[i] = lg[i] /\ lg[i].call \in Nat
    <2>1. \A i \in 1 .. Len(lg) : lg[i] \in Events
      OBVIOUS
    <2>2. \A i \in 1 .. Len(lg) : lg[i].call \in Nat
      BY <2>1 DEF Events
    <2> QED BY <2>2
  <1>2. /\ m.role = RoleOf(e) /\ m.call = e.call
        /\ m.sequence = Len(lg) + 1 /\ m.sequence - 1 = Len(lg)
    BY <1>1 DEF Message
  <1> HIDE DEF lh
  <1>3. CASE RoleOf(e) # "assistant" /\ is2 = iss
    <2>1. (iss + 1) .. is2 = {}
      BY <1>3
    <2> QED BY <1>2, <1>3, <2>1 DEF CallsIn, lh
  <1>4. CASE RoleOf(e) = "assistant" /\ iss =< is2 /\ e.call = is2
    <2> DEFINE C == {c \in 1 .. is2 :
                       \A i \in 1 .. Len(lg) :
                         lh[i].type = "assistant_message" => c > lh[i].call}
    <2>1. CallsIn(lh, m) = C
      BY <1>2, <1>4 DEF CallsIn
    <2>2. ASSUME NEW c \in C PROVE c \in (iss + 1) .. is2
      <3>1. CASE iss = 0
        BY <3>1
      <3>2. CASE iss # 0
        <4>1. PICK i \in 1 .. Len(lg) :
                lg[i].type = "assistant_message" /\ lg[i].call = iss
          BY <1>1, <3>2 DEF IssuedIn
        <4>2. c > iss
          BY <1>1, <4>1
        <4> QED BY <4>2
      <3> QED BY <3>1, <3>2
    <2>3. ASSUME NEW c \in (iss + 1) .. is2 PROVE c \in C
      <3>1. c \in 1 .. is2 /\ c > iss
        OBVIOUS
      <3>2. ASSUME NEW i \in 1 .. Len(lg), lh[i].type = "assistant_message"
            PROVE  c > lh[i].call
        <4>1. lg[i].call =< iss /\ lh[i] = lg[i] /\ lg[i].call \in Nat
          BY <1>1, <3>2 DEF IssuedIn
        <4> QED BY <3>1, <4>1
      <3> QED BY <3>1, <3>2
    <2> HIDE DEF C
    <2> QED BY <2>1, <2>2, <2>3 DEF lh
  <1> QED BY <1>3, <1>4

(* An open group is whole when its last call has been answered. *)
LEMMA OpenedWhole ==
  ASSUME NEW lg, NEW ctx \in Seq(Messages), NEW k, NEW iss \in Nat,
         NEW hd, hd = iss + 1, Opened(lg, ctx, k, hd, iss)
  PROVE  WholeIn(lg, ctx, k)
  <1> DEFINE n == Len(ctx)
             first == FirstIn(ctx, k, hd)
  <1>1. /\ Span(ctx, k, n) /\ first \in 1 .. hd
        /\ CallsIn(lg, ctx[k]) = first .. iss
        /\ \A j \in (k + 1) .. n : ctx[j].call = first + (j - k - 1)
    BY DEF Opened
  <1>2. k \in 1 .. n /\ n \in Nat
    <2>1. k \in Heads(ctx)
      BY <1>1 DEF Span
    <2> QED BY <2>1 DEF Heads
  <1>3. first = iss + 1 - (n - k)
    BY <1>2 DEF FirstIn
  <1> HIDE DEF first
  <1>4. Results(ctx, k, n) = first .. iss
    <2>1. ASSUME NEW j \in (k + 1) .. n
          PROVE  ctx[j].call \in first .. iss
      <3>1. ctx[j].call = first + (j - k - 1)
        BY <1>1
      <3> QED BY <1>2, <1>3, <3>1
    <2>2. ASSUME NEW c \in first .. iss
          PROVE  \E j \in (k + 1) .. n : ctx[j].call = c
      <3> DEFINE i == c - first + k + 1
      <3>1. i \in (k + 1) .. n /\ first + (i - k - 1) = c
        BY <1>2, <1>3
      <3>2. ctx[i].call = first + (i - k - 1)
        BY <1>1, <3>1
      <3> HIDE DEF i
      <3> QED BY <3>1, <3>2
    <2> QED BY <2>1, <2>2 DEF Results
  <1>5. Cardinality(first .. iss) = n - k
    <2>1. first \in Int /\ iss \in Int
      BY <1>2, <1>3
    <2>2. Cardinality(first .. iss) =
            IF first > iss THEN 0 ELSE iss - first + 1
      <3> QED BY <2>1, FS_Interval, Zenon
    <2> QED BY <1>1, <1>2, <1>3, <2>2
  <1> HIDE DEF n
  <1> QED BY <1>1, <1>4, <1>5, SpanWhole

(* A context that grows by a message keeps its own. *)
LEMMA Grown ==
  ASSUME NEW ctx \in Seq(Messages), NEW m \in Messages
  PROVE  /\ Append(ctx, m) \in Seq(Messages)
         /\ Len(ctx) \in Nat /\ DOMAIN ctx = 1 .. Len(ctx)
         /\ Len(Append(ctx, m)) = Len(ctx) + 1
         /\ DOMAIN Append(ctx, m) = 1 .. (Len(ctx) + 1)
         /\ Append(ctx, m)[Len(ctx) + 1] = m
         /\ \A j \in 1 .. Len(ctx) : Append(ctx, m)[j] = ctx[j]
         /\ Heads(ctx) \subseteq Heads(Append(ctx, m))
         /\ \A k \in Heads(Append(ctx, m)) :
              k \in Heads(ctx) \/ (k = Len(ctx) + 1 /\ m.role # "tool")
         /\ m.role # "tool" => Len(ctx) + 1 \in Heads(Append(ctx, m))
  <1> DEFINE t == Append(ctx, m)
             x == Len(ctx) + 1
  <1>1. /\ t \in Seq(Messages) /\ Len(ctx) \in Nat
        /\ DOMAIN ctx = 1 .. Len(ctx) /\ Len(t) = x
        /\ DOMAIN t = 1 .. x /\ t[x] = m
        /\ \A j \in 1 .. Len(ctx) : t[j] = ctx[j]
    OBVIOUS
  <1>2. /\ \A i \in 1 .. x : i \in 1 .. Len(ctx) \/ i = x
        /\ \A i \in 1 .. Len(ctx) : i \in 1 .. x
        /\ x \in 1 .. x
    BY <1>1
  <1> HIDE DEF t, x
  <1>3. /\ Heads(ctx) \subseteq Heads(t)
        /\ \A k \in Heads(t) : k \in Heads(ctx) \/ (k = x /\ m.role # "tool")
        /\ m.role # "tool" => x \in Heads(t)
    BY <1>1, <1>2 DEF Heads
  <1> QED BY <1>1, <1>3 DEF t, x

(* An event that is not a message leaves the groups as they are. *)
LEMMA GroupsAside ==
  ASSUME NEW lg \in Seq(Events), NEW e \in Events, NEW ctx \in Seq(Messages),
         NEW hd \in Nat, NEW iss \in Nat, GroupsIn(lg, ctx, hd, iss)
  PROVE  GroupsIn(Append(lg, e), ctx, hd, iss)
  <1> DEFINE lh == Append(lg, e)
  <1>1. /\ Len(lg) \in Nat /\ Len(lh) = Len(lg) + 1
        /\ DOMAIN ctx = 1 .. Len(ctx)
        /\ \A k \in DOMAIN ctx : ctx[k] \in Messages
    OBVIOUS
  <1>2. \A k \in DOMAIN ctx : ctx[k].sequence \in 1 .. Len(lg)
    BY DEF GroupsIn
  <1>3. \A k \in DOMAIN ctx : ctx[k].sequence \in 1 .. Len(lh)
    BY <1>1, <1>2
  <1>4. \A k \in DOMAIN ctx : CallsIn(lh, ctx[k]) = CallsIn(lg, ctx[k])
    <2> TAKE k \in DOMAIN ctx
    <2>1. ctx[k] \in Messages /\ ctx[k].sequence =< Len(lg) + 1
      BY <1>1, <1>2
    <2> QED BY <2>1, CallsStable
  <1> HIDE DEF lh
  <1>5. Heads(ctx) \subseteq DOMAIN ctx
    BY DEF Heads
  <1>6. \A k \in Heads(ctx) :
          /\ WholeIn(lh, ctx, k) <=> WholeIn(lg, ctx, k)
          /\ Opened(lh, ctx, k, hd, iss) <=> Opened(lg, ctx, k, hd, iss)
    BY <1>4, <1>5, Zenon DEF WholeIn, Opened
  <1>7. GroupsIn(lh, ctx, hd, iss)
    BY <1>3, <1>6 DEF GroupsIn
  <1> QED BY <1>7 DEF lh

(* The groups that are over are not touched by a message behind them. *)
LEMMA GroupKept ==
  ASSUME NEW lg \in Seq(Events), NEW e \in Events, NEW ctx \in Seq(Messages),
         NEW m \in Messages, NEW k \in Heads(ctx),
         ctx[k].sequence \in 1 .. Len(lg),
         NEW f, Span(ctx, k, f), m.role # "tool" \/ f < Len(ctx)
  PROVE  /\ WholeIn(Append(lg, e), Append(ctx, m), k) <=> WholeIn(lg, ctx, k)
         /\ Span(Append(ctx, m), k, f)
  <1> DEFINE t == Append(ctx, m)
             lh == Append(lg, e)
  <1>1. /\ k \in 1 .. Len(ctx) /\ f \in k .. Len(ctx)
        /\ f = Len(ctx) \/ ctx[f + 1].role # "tool"
    BY DEF Span, Heads
  <1>2. /\ t \in Seq(Messages) /\ Len(ctx) \in Nat
        /\ Len(t) = Len(ctx) + 1 /\ t[Len(ctx) + 1] = m
        /\ \A j \in 1 .. Len(ctx) : t[j] = ctx[j]
    BY Grown
  <1>3. CallsIn(lh, ctx[k]) = CallsIn(lg, ctx[k])
    <2>1. ctx[k] \in Messages /\ ctx[k].sequence =< Len(lg) + 1
      BY <1>1
    <2> QED BY <2>1, CallsStable
  <1> HIDE DEF t, lh
  <1>4. t[f + 1].role # "tool"
    <2>1. CASE f = Len(ctx)
      BY <1>2, <2>1
    <2>2. CASE f # Len(ctx)
      <3>1. f + 1 \in 1 .. Len(ctx)
        BY <1>1, <1>2, <2>2
      <3> QED BY <1>1, <1>2, <2>2, <3>1
    <2> QED BY <2>1, <2>2
  <1>5. Copied(ctx, k, f, t, k, f)
    <2>1. \A j \in k .. f : j + (k - k) = j /\ j \in 1 .. Len(ctx)
      BY <1>1, <1>2
    <2> QED BY <1>1, <1>2, <2>1 DEF Copied
  <1>6. Span(t, k, f) /\ (WholeIn(lh, t, k) <=> WholeIn(lg, ctx, k))
    BY <1>2, <1>3, <1>4, <1>5, SameGroup
  <1> QED BY <1>6 DEF t, lh

(* A message that is not a result opens a group of its own. *)
LEMMA GroupsHead ==
  ASSUME NEW lg \in Seq(Events), NEW e \in Events, NEW ctx \in Seq(Messages),
         NEW m \in Messages, NEW hd \in Nat \ {0}, NEW iss \in Nat,
         NEW is2 \in Nat, GroupsIn(lg, ctx, hd, iss), hd > iss,
         m.role # "tool", m.sequence = Len(lg) + 1,
         CallsIn(Append(lg, e), m) = hd .. is2
  PROVE  GroupsIn(Append(lg, e), Append(ctx, m), hd, is2)
  <1> DEFINE t == Append(ctx, m)
             lh == Append(lg, e)
             x == Len(ctx) + 1
  <1>1. /\ t \in Seq(Messages) /\ Len(ctx) \in Nat
        /\ DOMAIN ctx = 1 .. Len(ctx)
        /\ Len(t) = x /\ DOMAIN t = 1 .. x /\ t[x] = m
        /\ \A j \in 1 .. Len(ctx) : t[j] = ctx[j]
        /\ \A k \in Heads(t) : k \in Heads(ctx) \/ k = x
        /\ x \in Heads(t) /\ Heads(ctx) \subseteq Heads(t)
    BY Grown
  <1>2. Len(lg) \in Nat /\ Len(lh) = Len(lg) + 1
    OBVIOUS
  <1>3. /\ ctx # <<>> => 1 \in Heads(ctx)
        /\ \A k \in DOMAIN ctx : ctx[k].sequence \in 1 .. Len(lg)
        /\ \A k \in Heads(ctx) : WholeIn(lg, ctx, k)
    BY DEF GroupsIn
  <1>4. 1 \in Heads(t)
    <2>1. CASE ctx = <<>>
      <3>1. x = 1
        BY <2>1
      <3> HIDE DEF x
      <3> QED BY <1>1, <3>1
    <2>2. CASE ctx # <<>>
      BY <1>1, <1>3, <2>2
    <2> QED BY <2>1, <2>2
  <1>5. \A k \in DOMAIN t : t[k].sequence \in 1 .. Len(lh)
    <2> TAKE k \in DOMAIN t
    <2>1. CASE k = x
      BY <1>1, <1>2, <2>1
    <2>2. CASE k \in 1 .. Len(ctx)
      <3>1. ctx[k].sequence \in 1 .. Len(lg)
        BY <1>1, <1>3, <2>2
      <3> QED BY <1>1, <1>2, <2>2, <3>1
    <2> QED BY <1>1, <2>1, <2>2
  <1> HIDE DEF t, lh
  <1>6. ASSUME NEW k \in Heads(ctx)
        PROVE  WholeIn(lh, t, k)
    <2>1. PICK f \in k .. Len(ctx) : Span(ctx, k, f)
      BY SpanExists
    <2>2. ctx[k].sequence \in 1 .. Len(lg)
      BY <1>3 DEF Heads
    <2>3. WholeIn(lh, t, k) <=> WholeIn(lg, ctx, k)
      BY <2>1, <2>2, GroupKept DEF t, lh
    <2> QED BY <1>3, <2>3
  <1>7. Span(t, x, x)
    BY <1>1 DEF Span
  <1>8. CallsIn(lh, t[x]) = hd .. is2
    BY <1>1 DEF lh
  <1>9. CASE hd > is2
    <2>1. CallsIn(lh, t[x]) = {}
      BY <1>8, <1>9
    <2>2. Results(t, x, x) = {}
      BY <1>1 DEF Results
    <2>3. x - x = 0 /\ Cardinality({}) = 0
      BY <1>1, FS_EmptySet
    <2> HIDE DEF x
    <2>4. WholeIn(lh, t, x)
      BY <1>1, <1>7, <2>1, <2>2, <2>3, SpanWhole
    <2> QED BY <1>1, <1>4, <1>5, <1>6, <1>9, <2>4 DEF GroupsIn, t, lh
  <1>10. CASE ~(hd > is2)
    <2>1. FirstIn(t, x, hd) = hd
      BY <1>1 DEF FirstIn
    <2>2. \A j \in (x + 1) .. Len(t) : FALSE
      BY <1>1
    <2>3. hd \in 1 .. hd
      OBVIOUS
    <2> HIDE DEF x
    <2>4. Opened(lh, t, x, hd, is2)
      BY <1>1, <1>7, <1>8, <2>1, <2>2, <2>3 DEF Opened
    <2>5. hd =< is2
      BY <1>10
    <2> QED BY <1>1, <1>4, <1>5, <1>6, <2>4, <2>5 DEF GroupsIn, t, lh
  <1> QED BY <1>9, <1>10

(* A result belongs to the open group. *)
LEMMA GroupsResult ==
  ASSUME NEW lg \in Seq(Events), NEW e \in Events, NEW ctx \in Seq(Messages),
         NEW m \in Messages, NEW hd \in Nat \ {0}, NEW iss \in Nat,
         GroupsIn(lg, ctx, hd, iss), hd =< iss,
         m.role = "tool", m.call = hd, m.sequence = Len(lg) + 1
  PROVE  GroupsIn(Append(lg, e), Append(ctx, m), hd + 1, iss)
  <1> DEFINE t == Append(ctx, m)
             lh == Append(lg, e)
             x == Len(ctx) + 1
  <1>1. /\ t \in Seq(Messages) /\ Len(ctx) \in Nat
        /\ DOMAIN ctx = 1 .. Len(ctx)
        /\ Len(t) = x /\ DOMAIN t = 1 .. x /\ t[x] = m
        /\ \A j \in 1 .. Len(ctx) : t[j] = ctx[j]
        /\ Heads(t) = Heads(ctx)
    <2>1. Heads(t) \subseteq Heads(ctx) /\ Heads(ctx) \subseteq Heads(t)
      BY Grown
    <2> QED BY <2>1, Grown
  <1>2. Len(lg) \in Nat /\ Len(lh) = Len(lg) + 1
    OBVIOUS
  <1>3. /\ ctx # <<>> => 1 \in Heads(ctx)
        /\ \A k \in DOMAIN ctx : ctx[k].sequence \in 1 .. Len(lg)
        /\ \A k \in Heads(ctx) :
             WholeIn(lg, ctx, k) \/ Opened(lg, ctx, k, hd, iss)
    BY DEF GroupsIn
  <1>4. PICK k \in Heads(ctx) : Opened(lg, ctx, k, hd, iss)
    BY DEF GroupsIn
  <1> DEFINE first == FirstIn(ctx, k, hd)
  <1>5. /\ Span(ctx, k, Len(ctx)) /\ first \in 1 .. hd
        /\ CallsIn(lg, ctx[k]) = first .. iss
        /\ \A j \in (k + 1) .. Len(ctx) : ctx[j].call = first + (j - k - 1)
    BY <1>4 DEF Opened
  <1>6. k \in 1 .. Len(ctx) /\ ctx[k].role # "tool"
    BY <1>1, <1>4 DEF Heads
  <1>7. \A i \in DOMAIN t : t[i].sequence \in 1 .. Len(lh)
    <2> TAKE i \in DOMAIN t
    <2>1. CASE i = x
      BY <1>1, <1>2, <2>1
    <2>2. CASE i \in 1 .. Len(ctx)
      <3>1. ctx[i].sequence \in 1 .. Len(lg)
        BY <1>1, <1>3, <2>2
      <3> QED BY <1>1, <1>2, <2>2, <3>1
    <2> QED BY <1>1, <2>1, <2>2
  <1>8. CallsIn(lh, t[k]) = first .. iss
    <2>1. ctx[k] \in Messages /\ ctx[k].sequence =< Len(lg) + 1
      BY <1>1, <1>2, <1>3, <1>6
    <2>2. CallsIn(lh, ctx[k]) = CallsIn(lg, ctx[k])
      BY <2>1, CallsStable
    <2>3. t[k] = ctx[k]
      BY <1>1, <1>6
    <2> QED BY <1>5, <2>2, <2>3
  <1> HIDE DEF t, lh
  <1>9. ASSUME NEW i \in Heads(ctx), i # k
        PROVE  WholeIn(lh, t, i)
    <2>1. i \in 1 .. Len(ctx) /\ ctx[i].sequence \in 1 .. Len(lg)
      BY <1>1, <1>3 DEF Heads
    <2>2. i < k
      <3>1. ~(i > k)
        BY <1>1, <1>5, SpanBefore
      <3> QED BY <1>6, <1>9, <2>1, <3>1
    <2>3. PICK f \in i .. Len(ctx) : Span(ctx, i, f)
      BY SpanExists
    <2>4. f < Len(ctx)
      BY <1>4, <2>2, <2>3, SpanBefore
    <2>5. WholeIn(lh, t, i) <=> WholeIn(lg, ctx, i)
      BY <2>1, <2>3, <2>4, GroupKept DEF t, lh
    <2>6. ~Opened(lg, ctx, i, hd, iss)
      <3>1. ~Span(ctx, i, Len(ctx))
        BY <1>1, <1>4, <2>2, SpanBefore
      <3> QED BY <3>1 DEF Opened
    <2> QED BY <1>3, <2>5, <2>6
  <1>10. Opened(lh, t, k, hd + 1, iss)
    <2>0. \A j \in (k + 1) .. x :
            j # x => j \in (k + 1) .. Len(ctx) /\ j \in 1 .. Len(ctx)
      <3>1. Len(ctx) \in Nat /\ k \in 1 .. Len(ctx)
        BY <1>1, <1>6
      <3> QED BY ONLY <3>1
    <2>1. FirstIn(t, k, hd + 1) = first /\ first = hd - (Len(ctx) - k)
      BY <1>1, <1>6 DEF FirstIn
    <2>2. first \in 1 .. (hd + 1)
      BY <1>5
    <2>3. Span(t, k, x)
      <3>1. \A j \in (k + 1) .. x : t[j].role = "tool"
        <4> TAKE j \in (k + 1) .. x
        <4>1. CASE j = x
          BY <1>1, <4>1
        <4>2. CASE j # x
          <5>1. j \in (k + 1) .. Len(ctx) /\ j \in 1 .. Len(ctx)
            BY <2>0, <4>2
          <5> QED BY <1>1, <1>5, <5>1 DEF Span
        <4> QED BY <4>1, <4>2
      <3>2. x \in k .. Len(t) /\ x = Len(t) /\ k \in Heads(t)
        BY <1>1, <1>4, <1>6
      <3> QED BY <3>1, <3>2 DEF Span
    <2>4. ASSUME NEW j \in (k + 1) .. x
          PROVE  t[j].call = first + (j - k - 1)
      <3>1. CASE j = x
        <4>1. first + (x - k - 1) = hd
          BY <1>1, <1>6, <2>1
        <4> QED BY <1>1, <3>1, <4>1
      <3>2. CASE j # x
        <4>1. j \in (k + 1) .. Len(ctx) /\ j \in 1 .. Len(ctx)
          BY <2>0, <3>2
        <4> QED BY <1>1, <1>5, <4>1
      <3> QED BY <3>1, <3>2
    <2> HIDE DEF first
    <2> QED BY <1>1, <1>8, <2>1, <2>2, <2>3, <2>4 DEF Opened
  <1>11. t # <<>> => 1 \in Heads(t)
    <2>1. ctx # <<>>
      BY <1>6
    <2> QED BY <1>1, <1>3, <2>1
  <1>12. CASE hd + 1 =< iss
    BY <1>1, <1>4, <1>7, <1>9, <1>10, <1>11, <1>12 DEF GroupsIn, t, lh
  <1>13. CASE ~(hd + 1 =< iss)
    <2>1. hd + 1 = iss + 1
      BY <1>13
    <2> DEFINE hn == hd + 1
    <2>2. hn = iss + 1 /\ Opened(lh, t, k, hn, iss)
      BY <1>10, <2>1
    <2> HIDE DEF hn
    <2>3. WholeIn(lh, t, k)
      BY <1>1, <2>2, OpenedWhole
    <2>4. \A i \in Heads(t) : WholeIn(lh, t, i)
      BY <1>1, <1>9, <2>3
    <2> QED BY <1>7, <1>11, <1>13, <2>4 DEF GroupsIn, t, lh
  <1> QED BY <1>12, <1>13

(* w has the first n messages of ctx, and no group of it is cut. *)
FirstOf(ctx, w, n) ==
  /\ n \in 0 .. Len(ctx) /\ Len(w) = n
  /\ \A j \in 1 .. n : w[j] = ctx[j]
  /\ n = Len(ctx) \/ ctx[n + 1].role # "tool"

(* The groups of the first messages are groups of the whole context. *)
LEMMA FirstGroups ==
  ASSUME NEW lg, NEW ctx \in Seq(Messages), NEW w \in Seq(Messages), NEW n,
         FirstOf(ctx, w, n), NEW i \in Heads(w)
  PROVE  /\ i \in Heads(ctx) /\ i =< n
         /\ WholeIn(lg, w, i) <=> WholeIn(lg, ctx, i)
  <1>1. /\ n \in 0 .. Len(ctx) /\ Len(w) = n /\ Len(ctx) \in Nat
        /\ \A j \in 1 .. n : w[j] = ctx[j]
        /\ n = Len(ctx) \/ ctx[n + 1].role # "tool"
    BY DEF FirstOf
  <1>2. i \in 1 .. n /\ w[i].role # "tool" /\ w[i] = ctx[i]
    BY <1>1 DEF Heads
  <1>3. i \in Heads(ctx)
    BY <1>1, <1>2 DEF Heads
  <1>4. PICK f \in i .. Len(w) : Span(w, i, f)
    BY SpanExists
  <1>5. f \in i .. n /\ (f = n \/ w[f + 1].role # "tool")
    BY <1>1, <1>4 DEF Span
  <1>6. Copied(w, i, f, ctx, i, f)
    <2>1. \A j \in i .. f : j + (i - i) = j /\ j \in 1 .. n
      BY <1>1, <1>2, <1>5
    <2> QED BY <1>1, <1>2, <1>5, <2>1 DEF Copied
  <1>7. f = Len(ctx) \/ ctx[f + 1].role # "tool"
    <2>1. CASE f = n
      BY <1>1, <2>1
    <2>2. CASE f # n
      <3>1. f + 1 \in 1 .. n
        BY <1>1, <1>2, <1>5, <2>2
      <3> QED BY <1>1, <1>5, <2>2, <3>1
    <2> QED BY <2>1, <2>2
  <1>8. CallsIn(lg, w[i]) = CallsIn(lg, w[i])
    OBVIOUS
  <1>9. WholeIn(lg, ctx, i) <=> WholeIn(lg, w, i)
    BY <1>4, <1>6, <1>7, <1>8, SameGroup
  <1> QED BY <1>2, <1>3, <1>9

(***************************************************************************)
(* What a new life keeps of a context in which only the last group may be  *)
(* incomplete: its whole groups, and they are whole.                       *)
(***************************************************************************)
LEMMA Dropped ==
  ASSUME NEW ctx \in Seq(Messages), NEW w, w = WholeGroups(ctx),
         \A k \in Heads(ctx) : Whole(ctx, k) \/ Span(ctx, k, Len(ctx))
  PROVE  /\ w \in Seq(Messages)
         /\ \E n \in 0 .. Len(ctx) :
              /\ FirstOf(ctx, w, n)
              /\ \/ n = Len(ctx)
                 \/ Span(ctx, n + 1, Len(ctx)) /\ ~Whole(ctx, n + 1)
         /\ \A k \in Heads(w) : Whole(w, k)
  <1> DEFINE open == {k \in Heads(ctx) : ~Whole(ctx, k)}
             k0 == CHOOSE k \in open : TRUE
  <1>1. Len(ctx) \in Nat /\ DOMAIN ctx = 1 .. Len(ctx)
    OBVIOUS
  <1>2. CASE open = {}
    <2>1. w = ctx
      BY <1>2 DEF WholeGroups
    <2>2. FirstOf(ctx, w, Len(ctx)) /\ Len(ctx) \in 0 .. Len(ctx)
      BY <1>1, <2>1 DEF FirstOf
    <2> QED BY <1>2, <2>1, <2>2
  <1>3. CASE open # {}
    <2> DEFINE n == k0 - 1
    <2>1. k0 \in open
      BY <1>3
    <2>2. /\ k0 \in Heads(ctx) /\ ~Whole(ctx, k0)
          /\ Span(ctx, k0, Len(ctx)) /\ k0 \in 1 .. Len(ctx)
          /\ ctx[k0].role # "tool"
      BY <1>1, <2>1 DEF Heads
    <2>3. w = SubSeq(ctx, 1, n)
      BY <1>3 DEF WholeGroups
    <2> HIDE DEF k0, open
    <2>4. n \in 0 .. Len(ctx) /\ n =< Len(ctx) /\ n \in Nat /\ n + 1 = k0
      BY <1>1, <2>2
    <2> HIDE DEF n
    <2>5. /\ w \in Seq(Messages) /\ Len(w) = n
          /\ \A j \in 1 .. n : w[j] = ctx[j]
      BY <1>1, <2>3, <2>4
    <2>6. FirstOf(ctx, w, n)
      BY <2>2, <2>4, <2>5 DEF FirstOf
    <2>7. ASSUME NEW i \in Heads(w)
          PROVE  Whole(w, i)
      <3>1. /\ i \in Heads(ctx) /\ i =< n
            /\ WholeIn(log, w, i) <=> WholeIn(log, ctx, i)
        BY <2>5, <2>6, FirstGroups
      <3>2. k0 > i /\ i \in Nat
        <4>1. i \in 1 .. Len(ctx)
          BY <1>1, <3>1 DEF Heads
        <4> QED BY <2>2, <2>4, <3>1, <4>1
      <3>3. ~Span(ctx, i, Len(ctx))
        BY <1>1, <2>2, <3>2, SpanBefore
      <3>4. Whole(ctx, i)
        BY <3>1, <3>3
      <3> QED BY <2>5, <3>1, <3>4, WholeSame
    <2>8. Span(ctx, n + 1, Len(ctx)) /\ ~Whole(ctx, n + 1)
      BY <2>2, <2>4
    <2> QED BY <2>4, <2>5, <2>6, <2>7, <2>8
  <1> QED BY <1>2, <1>3

(* A new life has whole groups only, and no call is open. *)
LEMMA GroupsResume ==
  ASSUME log \in Seq(Events), Groupable(Recorded), NEW hd, NEW iss,
         hd \in Nat, iss \in Nat, hd > iss
  PROVE  GroupsIn(log, WholeGroups(Recorded), hd, iss)
  <1> DEFINE F == Recorded
             w == WholeGroups(F)
  <1>1. /\ F \in Seq(Messages)
        /\ \A k \in 1 .. Len(F) : F[k].sequence \in 1 .. Len(log)
    BY RecordedTale, TaleType
  <1>2. /\ F # <<>> => 1 \in Heads(F)
        /\ \A k \in Heads(F) : Whole(F, k) \/ Open(F, k)
    BY DEF Groupable
  <1> HIDE DEF F
  <1>3. \A k \in Heads(F) : Whole(F, k) \/ Span(F, k, Len(F))
    BY <1>1, <1>2, OpenSpan
  <1>4. w \in Seq(Messages) /\ \A k \in Heads(w) : Whole(w, k)
    BY <1>1, <1>3, Dropped
  <1>5. PICK n \in 0 .. Len(F) : FirstOf(F, w, n)
    BY <1>1, <1>3, Dropped
  <1> HIDE DEF w
  <1>6. /\ Len(w) = n /\ \A j \in 1 .. n : w[j] = F[j] /\ j \in 1 .. Len(F)
        /\ DOMAIN w = 1 .. n
    BY <1>1, <1>4, <1>5 DEF FirstOf
  <1>7. w # <<>> => 1 \in Heads(w)
    <2> SUFFICES ASSUME w # <<>> PROVE 1 \in Heads(w)
      OBVIOUS
    <2>1. 1 \in 1 .. n
      BY <1>4, <1>5, <1>6
    <2>2. F # <<>> /\ w[1] = F[1]
      BY <1>1, <1>6, <2>1
    <2> QED BY <1>2, <1>6, <2>1, <2>2 DEF Heads
  <1>8. \A k \in DOMAIN w : w[k].sequence \in 1 .. Len(log)
    BY <1>1, <1>6
  <1>9. \A k \in Heads(w) : WholeIn(log, w, k)
    BY <1>4, WholeSame
  <1>10. ~(hd =< iss)
    OBVIOUS
  <1>11. GroupsIn(log, w, hd, iss)
    BY <1>7, <1>8, <1>9, <1>10 DEF GroupsIn
  <1> QED BY <1>11 DEF w, F

(* The context between steps and between lives. *)
ContextInv ==
  /\ SettledInv /\ IssuedIn(log, issued)
  /\ GroupsIn(log, context, head, issued)

(* A session starts with an empty context. *)
LEMMA ContextStart == Init => ContextInv
  <1> SUFFICES ASSUME Init PROVE ContextInv
    OBVIOUS
  <1>1. /\ log = <<>> /\ context = <<>> /\ head = 1 /\ issued = 0
        /\ DOMAIN log = {} /\ DOMAIN context = {} /\ ~(head =< issued)
    BY DEF Init
  <1>2. IssuedIn(log, issued)
    BY <1>1 DEF IssuedIn
  <1>3. Heads(context) = {}
    BY <1>1 DEF Heads
  <1>4. GroupsIn(log, context, head, issued)
    BY <1>1, <1>3 DEF GroupsIn
  <1> QED BY <1>2, <1>4, SettledInit DEF ContextInv

(* A step of the loop leaves the context in order. *)
LEMMA ContextNext ==
  ASSUME TypeOK, PhaseInv, ContextInv, [Next]_vars
  PROVE  ContextInv'
  <1>1. /\ SettledInv /\ IssuedIn(log, issued)
        /\ GroupsIn(log, context, head, issued)
    BY DEF ContextInv
  <1>2. SettledInv'
    BY <1>1, SettledNext
  <1>3. /\ log \in Seq(Events) /\ context \in Seq(Messages)
        /\ head \in Nat \ {0} /\ issued \in Nat /\ head =< issued + 1
        /\ Len(log) \in Nat
    BY DEF TypeOK, PhaseInv
  <1>4. issued' \in Nat /\ head' \in Nat
    BY NextType DEF TypeOK
  <1> SUFFICES /\ IssuedIn(log', issued')
               /\ GroupsIn(log', context', head', issued')
    BY <1>2 DEF ContextInv, IssuedIn, GroupsIn, Opened, WholeIn, CallsIn,
                FirstIn, Span, Heads, Answered, Answers
  <1>5. CASE Silence
    <2>1. context' = context /\ issued' = issued /\ head' = head
      BY <1>5 DEF Silence
    <2>2. CASE log' = log
      BY <1>1, <2>1, <2>2
    <2>3. CASE \E e \in Events : log' = Append(log, e) /\ RoleOf(e) = "none"
      <3>1. PICK e \in Events : log' = Append(log, e) /\ RoleOf(e) = "none"
        BY <2>3
      <3>2. IssuedIn(Append(log, e), issued)
        BY <1>1, <1>3, <3>1, IssuedAppend
      <3>3. GroupsIn(Append(log, e), context, head, issued)
        BY <1>1, <1>3, GroupsAside
      <3> QED BY <2>1, <3>1, <3>2, <3>3
    <2> QED BY <1>5, <2>2, <2>3 DEF Silence
  <1>6. ASSUME NEW e \in Events, Spoke(e)
        PROVE  /\ IssuedIn(log', issued')
               /\ GroupsIn(log', context', head', issued')
    <2> DEFINE m == Message(RoleOf(e), e.call, Len(log) + 1)
    <2>1. /\ log' = Append(log, e) /\ context' = Append(context, m)
          /\ RoleOf(e) # "none" /\ Turns(e)
      BY <1>6 DEF Spoke
    <2>2. /\ m \in Messages /\ m.role = RoleOf(e) /\ m.call = e.call
          /\ m.sequence = Len(log) + 1
      <3>1. RoleOf(e) \in Roles /\ e.call \in Nat
        BY <2>1, RoleType DEF Events
      <3> QED BY <1>3, <3>1, MessageType DEF Message
    <2> HIDE DEF m
    <2>3. CASE RoleOf(e) = "tool"
      <3>1. /\ head =< issued /\ e.call = head /\ head' = head + 1
            /\ issued' = issued
        BY <2>1, <2>3 DEF Turns, Pending
      <3>2. IssuedIn(Append(log, e), issued)
        BY <1>1, <1>3, <2>3, IssuedAppend
      <3>3. GroupsIn(Append(log, e), Append(context, m), head + 1, issued)
        BY <1>1, <1>3, <2>2, <2>3, <3>1, GroupsResult
      <3> QED BY <2>1, <3>1, <3>2, <3>3
    <2>4. CASE RoleOf(e) # "tool"
      <3>1. /\ head > issued /\ head' = head
            /\ \/ RoleOf(e) # "assistant" /\ issued' = issued
               \/ /\ RoleOf(e) = "assistant" /\ issued =< issued'
                  /\ e.call = issued'
        BY <1>3, <2>1, <2>4 DEF Turns, Pending
      <3>2. head = issued + 1
        BY <1>3, <3>1
      <3>3. IssuedIn(Append(log, e), issued')
        BY <1>1, <1>3, <1>4, <3>1, IssuedAppend
      <3>4. CallsIn(Append(log, e), m) = head .. issued'
        BY <1>1, <1>3, <1>4, <3>1, <3>2, NewCalls DEF m
      <3>5. GroupsIn(Append(log, e), Append(context, m), head, issued')
        BY <1>1, <1>3, <1>4, <2>2, <2>4, <3>1, <3>4, GroupsHead
      <3> QED BY <2>1, <3>1, <3>3, <3>5
    <2> QED BY <2>3, <2>4
  <1> QED BY <1>1, <1>5, <1>6, StepTalks DEF Talk

(* So does a new life. *)
LEMMA ContextResume ==
  ASSUME TypeOK, ContextInv, Resume
  PROVE  ContextInv'
  <1>1. /\ log' = log /\ context' = WholeGroups(Recorded)
        /\ issued' = issued /\ head' = issued + 1 /\ pc' = "idle"
        /\ Groupable(Recorded)
    BY DEF Resume, Resumable, Fresh
  <1>2. log \in Seq(Events) /\ issued \in Nat
    BY DEF TypeOK
  <1>3. SettledInv'
    BY <1>1, <1>2 DEF SettledInv, Resting, Pending
  <1>4. IssuedIn(log', issued')
    BY <1>1 DEF ContextInv
  <1>5. GroupsIn(log', context', head', issued')
    <2> DEFINE hd == issued + 1
    <2>1. hd \in Nat /\ hd > issued
      BY <1>2
    <2> HIDE DEF hd
    <2>2. GroupsIn(log, WholeGroups(Recorded), hd, issued)
      BY <1>1, <1>2, <2>1, GroupsResume
    <2> QED BY <1>1, <2>2 DEF hd
  <1> QED
    BY <1>3, <1>4, <1>5
       DEF ContextInv, IssuedIn, GroupsIn, Opened, WholeIn, CallsIn, FirstIn,
           Span, Heads, Answered, Answers

(***************************************************************************)
(* The context is in order in all the lives of a session.                  *)
(***************************************************************************)
THEOREM ContextInvariant == RecoverySpec => []ContextInv
  <1>1. RecoveryInit => ContextInv
    BY ContextStart DEF RecoveryInit
  <1>2. LivesInv /\ ContextInv /\ [RecoveryNext]_sessionVars => ContextInv'
    <2> SUFFICES ASSUME LivesInv, ContextInv, [RecoveryNext]_sessionVars
                 PROVE  ContextInv'
      OBVIOUS
    <2>1. TypeOK /\ PhaseInv
      BY DEF LivesInv
    <2>2. CASE [Next]_vars
      BY <2>1, <2>2, ContextNext
    <2>3. CASE Resume
      BY <2>1, <2>3, ContextResume
    <2> QED
      BY <2>2, <2>3 DEF RecoveryNext, Run, Crash, sessionVars
  <1> QED BY <1>1, <1>2, LivesInvariant, PTL DEF RecoverySpec

(***************************************************************************)
(* Every request of every life has each declared call followed by all of   *)
(* its results, and nothing else.                                          *)
(***************************************************************************)
THEOREM RequestsComplete == RecoverySpec => []RequestsWellFormed
  <1>1. LivesInv /\ ContextInv => RequestsWellFormed
    <2> SUFFICES ASSUME LivesInv, ContextInv, pc = "request"
                 PROVE  /\ Groupable(context)
                        /\ \A k \in Heads(context) : Whole(context, k)
      BY DEF RequestsWellFormed
    <2>1. ~(head =< issued)
      BY DEF ContextInv, SettledInv, Resting, Pending
    <2>2. /\ \A k \in Heads(context) : WholeIn(log, context, k)
          /\ context # <<>> => 1 \in Heads(context)
      BY <2>1 DEF ContextInv, GroupsIn
    <2>3. \A k \in Heads(context) : Whole(context, k)
      BY <2>2, WholeSame
    <2> QED BY <2>2, <2>3 DEF Groupable
  <1> QED BY <1>1, LivesInvariant, ContextInvariant, PTL

-----------------------------------------------------------------------------
(***************************************************************************)
(* The context and the log.  A life starts from what the log tells behind  *)
(* a position; what its process before left incomplete is missing, and     *)
(* nothing else.                                                           *)
(***************************************************************************)

(* x is where the log was read from, or where a group of the context ends. *)
Boundary(ctx, b, x) ==
  \/ x =< b
  \/ \E p \in 1 .. (Len(ctx) - 1) :
       ctx[p].sequence = x /\ ctx[p + 1].role # "tool"

(* The messages that are missing, if any are, were an incomplete group of  *)
(* their tale, and no call is owed as long as nothing follows them.        *)
Lost(lg, F, q, w, hd, iss) ==
  w > 0 => /\ Span(F, q + 1, q + w) /\ ~WholeIn(lg, F, q + 1)
           /\ q + w = Len(F) => hd > iss

(* ctx has the messages of F without those from q + 1 to q + w. *)
Retells(ctx, F, q, w) ==
  /\ q \in 0 .. Len(ctx) /\ w \in Nat /\ Len(F) = Len(ctx) + w
  /\ \A j \in 1 .. q : ctx[j] = F[j]
  /\ \A j \in (q + 1) .. Len(ctx) : ctx[j] = F[j + w]

(***************************************************************************)
(* The context is the tale of the log behind b, less the w messages of a   *)
(* group behind the q-th that was incomplete when its process ended.       *)
(***************************************************************************)
LifeIn(lg, ctx, hd, iss, b, q, w) ==
  /\ b \in 0 .. Len(lg)
  /\ Retells(ctx, Tale(lg, b), q, w)
  /\ Lost(lg, Tale(lg, b), q, w, hd, iss)

(* Both cutoffs are where a group ends, and one is not before b. *)
CutIn(ctx, c, b) ==
  /\ Boundary(ctx, b, c.covered) /\ Boundary(ctx, b, c.degraded)
  /\ b =< c.covered \/ b =< c.degraded

(* An event that is not a message does not change what is told. *)
LEMMA LifeAside ==
  ASSUME NEW lg \in Seq(Events), NEW e \in Events, RoleOf(e) = "none",
         NEW ctx \in Seq(Messages), NEW hd, NEW iss, NEW b, NEW q, NEW w,
         LifeIn(lg, ctx, hd, iss, b, q, w)
  PROVE  LifeIn(Append(lg, e), ctx, hd, iss, b, q, w)
  <1> DEFINE lh == Append(lg, e)
             F == Tale(lg, b)
  <1>1. Tale(lh, b) = F
    BY TaleAside
  <1>2. /\ Len(lg) \in Nat /\ Len(lh) = Len(lg) + 1 /\ b \in 0 .. Len(lg)
        /\ Retells(ctx, F, q, w) /\ Lost(lg, F, q, w, hd, iss)
    BY DEF LifeIn
  <1>3. b \in 0 .. Len(lh)
    BY <1>2
  <1>4. /\ F \in Seq(Messages)
        /\ \A k \in 1 .. Len(F) : F[k].sequence \in 1 .. Len(lg)
    BY TaleType
  <1> HIDE DEF F
  <1>5. Lost(lh, F, q, w, hd, iss)
    <2> SUFFICES ASSUME w > 0, ~WholeIn(lg, F, q + 1), Span(F, q + 1, q + w)
                 PROVE  ~WholeIn(lh, F, q + 1)
      BY <1>2 DEF Lost
    <2> DEFINE k == q + 1
    <2>1. k \in 1 .. Len(F)
      BY <1>4 DEF Span, Heads
    <2> HIDE DEF k
    <2>2. F[k] \in Messages /\ F[k].sequence =< Len(lg) + 1
      BY <1>2, <1>4, <2>1
    <2>3. CallsIn(lh, F[k]) = CallsIn(lg, F[k])
      BY <2>2, CallsStable
    <2>4. ~WholeIn(lg, F, k)
      BY DEF k
    <2>5. ~WholeIn(lh, F, k)
      BY <2>3, <2>4 DEF WholeIn
    <2> QED BY <2>5 DEF k
  <1> HIDE DEF lh
  <1>6. LifeIn(lh, ctx, hd, iss, b, q, w)
    BY <1>1, <1>2, <1>3, <1>5 DEF LifeIn
  <1> QED BY <1>6 DEF lh

(* A message is added to the tale and to the context. *)
LEMMA LifeTold ==
  ASSUME NEW lg \in Seq(Events), NEW e \in Events, RoleOf(e) # "none",
         NEW ctx \in Seq(Messages), NEW hd, NEW iss, NEW h2, NEW i2,
         NEW b, NEW q, NEW w,
         LifeIn(lg, ctx, hd, iss, b, q, w),
         hd > iss => RoleOf(e) # "tool",
         NEW m, m = Message(RoleOf(e), e.call, Len(lg) + 1)
  PROVE  LifeIn(Append(lg, e), Append(ctx, m), h2, i2, b, q, w)
  <1> DEFINE lh == Append(lg, e)
             t == Append(ctx, m)
             F == Tale(lg, b)
             G == Append(F, m)
  <1>1. /\ Len(lg) \in Nat /\ Len(lh) = Len(lg) + 1 /\ b \in 0 .. Len(lg)
        /\ Retells(ctx, F, q, w) /\ Lost(lg, F, q, w, hd, iss)
    BY DEF LifeIn
  <1>2. b \in Nat /\ b =< Len(lg) /\ b \in 0 .. Len(lh)
    BY <1>1
  <1>3. Tale(lh, b) = G
    BY <1>2, TaleTold
  <1>4. m \in Messages /\ m.role = RoleOf(e)
    <2>1. RoleOf(e) \in Roles /\ e.call \in Nat
      BY RoleType DEF Events
    <2> QED BY <1>1, <2>1, MessageType DEF Message
  <1>5. /\ F \in Seq(Messages)
        /\ \A k \in 1 .. Len(F) : F[k].sequence \in 1 .. Len(lg)
    BY TaleType
  <1> HIDE DEF F
  <1>6. /\ Len(ctx) \in Nat /\ Len(t) = Len(ctx) + 1 /\ t[Len(ctx) + 1] = m
        /\ \A j \in 1 .. Len(ctx) : t[j] = ctx[j]
        /\ t \in Seq(Messages)
    BY <1>4, Grown
  <1>7. /\ Len(F) \in Nat /\ Len(G) = Len(F) + 1 /\ G[Len(F) + 1] = m
        /\ \A j \in 1 .. Len(F) : G[j] = F[j]
        /\ G \in Seq(Messages)
    BY <1>4, <1>5, Grown
  <1>8. /\ q \in 0 .. Len(ctx) /\ w \in Nat /\ Len(F) = Len(ctx) + w
        /\ \A j \in 1 .. q : ctx[j] = F[j]
        /\ \A j \in (q + 1) .. Len(ctx) : ctx[j] = F[j + w]
    BY <1>1 DEF Retells
  <1> HIDE DEF t, G, lh
  <1>9. Retells(t, G, q, w)
    <2>1. q \in 0 .. Len(t) /\ Len(G) = Len(t) + w
      <3>1. q \in 0 .. Len(ctx) /\ w \in Nat /\ Len(F) = Len(ctx) + w
        BY <1>8
      <3>2. /\ Len(ctx) \in Nat /\ Len(t) = Len(ctx) + 1
            /\ Len(G) = Len(F) + 1
        BY <1>6, <1>7
      <3> QED BY ONLY <3>1, <3>2
    <2>2. ASSUME NEW j \in 1 .. q
          PROVE  t[j] = G[j]
      <3>1. j \in 1 .. Len(ctx) /\ j \in 1 .. Len(F)
        BY <1>6, <1>7, <1>8
      <3> QED BY <1>6, <1>7, <1>8, <3>1
    <2>3. ASSUME NEW j \in (q + 1) .. Len(t)
          PROVE  t[j] = G[j + w]
      <3>1. CASE j = Len(ctx) + 1
        <4>1. j + w = Len(F) + 1
          BY <1>6, <1>8, <3>1
        <4> QED BY <1>6, <1>7, <3>1, <4>1
      <3>2. CASE j # Len(ctx) + 1
        <4> DEFINE i == j + w
        <4>1. /\ j \in (q + 1) .. Len(ctx) /\ j \in 1 .. Len(ctx)
              /\ i \in 1 .. Len(F)
          BY <1>6, <1>8, <3>2
        <4>2. t[j] = ctx[j] /\ ctx[j] = F[i]
          BY <1>6, <1>8, <4>1
        <4> HIDE DEF i
        <4>3. G[i] = F[i]
          BY <1>7, <4>1
        <4> QED BY <4>2, <4>3 DEF i
      <3> QED BY <3>1, <3>2
    <2> QED BY <1>8, <2>1, <2>2, <2>3 DEF Retells
  <1>10. Lost(lh, G, q, w, h2, i2)
    <2> SUFFICES ASSUME w > 0
                 PROVE  /\ Span(G, q + 1, q + w) /\ ~WholeIn(lh, G, q + 1)
                        /\ q + w # Len(G)
      BY DEF Lost
    <2> DEFINE k == q + 1
               f == q + w
    <2>1. /\ Span(F, k, f) /\ ~WholeIn(lg, F, k)
          /\ f = Len(F) => hd > iss
      BY <1>1 DEF Lost
    <2>2. f =< Len(F) /\ f \in Nat /\ k \in Nat
      BY <1>6, <1>7, <1>8
    <2> HIDE DEF k, f
    <2>3. m.role # "tool" \/ f < Len(F)
      BY <1>4, <1>7, <2>1, <2>2
    <2>4. k \in Heads(F) /\ F[k].sequence \in 1 .. Len(lg)
      BY <1>5, <2>1 DEF Span, Heads
    <2>5. /\ WholeIn(lh, G, k) <=> WholeIn(lg, F, k)
          /\ Span(G, k, f)
      BY <1>4, <1>5, <2>1, <2>3, <2>4, GroupKept DEF G, lh
    <2>6. f # Len(G)
      BY <1>7, <2>2
    <2> QED BY <2>1, <2>5, <2>6 DEF k, f
  <1>11. LifeIn(lh, t, h2, i2, b, q, w)
    BY <1>2, <1>3, <1>9, <1>10 DEF LifeIn
  <1> QED BY <1>11 DEF lh, t

(* A group that is followed by another has ended for good, *)
LEMMA BoundaryGrows ==
  ASSUME NEW ctx \in Seq(Messages), NEW m \in Messages, NEW b, NEW x,
         Boundary(ctx, b, x)
  PROVE  Boundary(Append(ctx, m), b, x)
  <1> DEFINE t == Append(ctx, m)
  <1>1. CASE x =< b
    BY <1>1 DEF Boundary
  <1>2. CASE ~(x =< b)
    <2>1. PICK p \in 1 .. (Len(ctx) - 1) :
            ctx[p].sequence = x /\ ctx[p + 1].role # "tool"
      BY <1>2 DEF Boundary
    <2>2. /\ Len(ctx) \in Nat /\ Len(t) = Len(ctx) + 1
          /\ \A j \in 1 .. Len(ctx) : t[j] = ctx[j]
      BY Grown
    <2> DEFINE r == p + 1
    <2>3. p \in 1 .. Len(ctx) /\ r \in 1 .. Len(ctx)
      BY <2>2
    <2>4. p \in 1 .. (Len(t) - 1)
      BY <2>2
    <2>5. t[p] = ctx[p] /\ t[r] = ctx[r]
      BY <2>2, <2>3
    <2> HIDE DEF t
    <2>6. t[p].sequence = x /\ t[p + 1].role # "tool"
      BY <2>1, <2>5
    <2>7. Boundary(t, b, x)
      BY <2>4, <2>6 DEF Boundary
    <2> QED BY <2>7 DEF t
  <1> QED BY <1>1, <1>2

(* so that a cutoff stays where a group ends. *)
LEMMA CutGrows ==
  ASSUME NEW ctx \in Seq(Messages), NEW m \in Messages, NEW b, NEW c,
         CutIn(ctx, c, b)
  PROVE  CutIn(Append(ctx, m), c, b)
  BY BoundaryGrows DEF CutIn

(* The messages of a life are in the order of the log, and behind b. *)
LEMMA LifeRises ==
  ASSUME NEW lg \in Seq(Events), NEW ctx \in Seq(Messages), NEW hd, NEW iss,
         NEW b, NEW q, NEW w, LifeIn(lg, ctx, hd, iss, b, q, w)
  PROVE  /\ \A j \in 1 .. Len(ctx) : ctx[j].sequence > b
         /\ \A i, j \in 1 .. Len(ctx) :
              i < j => ctx[i].sequence < ctx[j].sequence
  <1> DEFINE F == Tale(lg, b)
             At(j) == IF j =< q THEN j ELSE j + w
  <1>1. /\ Retells(ctx, F, q, w) /\ b \in 0 .. Len(lg)
    BY DEF LifeIn
  <1>2. /\ F \in Seq(Messages)
        /\ \A k \in 1 .. Len(F) : F[k].sequence > b
        /\ \A j, k \in 1 .. Len(F) :
             j < k => F[j].sequence < F[k].sequence
    BY TaleType
  <1> HIDE DEF F
  <1>3. /\ q \in 0 .. Len(ctx) /\ w \in Nat /\ Len(F) = Len(ctx) + w
        /\ \A j \in 1 .. q : ctx[j] = F[j]
        /\ \A j \in (q + 1) .. Len(ctx) : ctx[j] = F[j + w]
        /\ Len(ctx) \in Nat
    BY <1>1 DEF Retells
  <1>4. ASSUME NEW j \in 1 .. Len(ctx)
        PROVE  At(j) \in 1 .. Len(F) /\ ctx[j] = F[At(j)]
    <2>1. CASE j =< q
      <3>1. j \in 1 .. q /\ j \in 1 .. Len(F) /\ At(j) = j
        BY <1>3, <2>1
      <3> HIDE DEF At
      <3> QED BY <1>3, <3>1
    <2>2. CASE ~(j =< q)
      <3>1. j \in (q + 1) .. Len(ctx) /\ At(j) = j + w
        BY <1>3, <2>2
      <3>2. j + w \in 1 .. Len(F)
        BY <1>3
      <3> HIDE DEF At
      <3> QED BY <1>3, <3>1, <3>2
    <2> QED BY <2>1, <2>2
  <1>5. \A i, j \in 1 .. Len(ctx) : i < j => At(i) < At(j)
    BY <1>3
  <1> HIDE DEF At
  <1>6. \A j \in 1 .. Len(ctx) : ctx[j].sequence > b
    BY <1>2, <1>4
  <1>7. ASSUME NEW i \in 1 .. Len(ctx), NEW j \in 1 .. Len(ctx), i < j
        PROVE  ctx[i].sequence < ctx[j].sequence
    <2>1. At(i) < At(j)
      BY <1>5, <1>7
    <2> QED BY <1>2, <1>4, <2>1
  <1> QED BY <1>6, <1>7

(* A compaction ends with a group that is followed by another. *)
LEMMA CompactionEnds ==
  ASSUME TypeOK, NEW k, Planned(k), NEW b
  PROVE  \E p \in 1 .. (Len(context) - 1) :
           /\ context[p].sequence = EndOf(context, k)
           /\ context[p + 1].role # "tool"
  <1>1. /\ context \in Seq(Messages) /\ k \in Heads(context)
        /\ Len(context) \in Nat
    BY DEF TypeOK, Planned
  <1>2. \E i \in Heads(context) : i > k
    <2> DEFINE L == {j \in Heads(context) : j > k}
    <2> SUFFICES ASSUME L = {} PROVE FALSE
      OBVIOUS
    <2>1. Cardinality(L) = 0
      BY FS_EmptySet
    <2>2. Cardinality(L) >= (IF forced THEN 1 ELSE KeepRecentGroups)
      BY DEF Planned
    <2> HIDE DEF L
    <2>3. KeepRecentGroups >= 1 /\ KeepRecentGroups \in Nat
      BY RecoveryAssumption DEF RecoveryAssumption
    <2> QED BY <2>1, <2>2, <2>3
  <1>3. PICK i \in Heads(context) : i > k
    BY <1>2
  <1>4. PICK f \in k .. Len(context) : Span(context, k, f)
    BY <1>1, SpanExists
  <1>5. f < Len(context)
    BY <1>1, <1>3, <1>4, SpanBefore
  <1>6. /\ EndOf(context, k) = context[f].sequence
        /\ k \in 1 .. Len(context)
    BY <1>1, <1>4, SpanAnswers
  <1>7. f \in 1 .. (Len(context) - 1)
    BY <1>1, <1>4, <1>5, <1>6
  <1>8. context[f + 1].role # "tool"
    BY <1>4, <1>5 DEF Span
  <1> QED BY <1>6, <1>7, <1>8

(* Nothing has been dropped before the first resume. *)
FirstLife == crashes = 0 \/ (crashes = 1 /\ ~alive)

(* What the context is in all the lives of a session. *)
LifeInv ==
  /\ ~alive => crashes >= 1
  /\ \E b \in 0 .. Len(log), q \in 0 .. Len(context), w \in Nat :
       /\ LifeIn(log, context, head, issued, b, q, w)
       /\ CutIn(context, cut, b)
       /\ FirstLife => w = 0

(* A session starts with nothing told. *)
LEMMA LifeStart == RecoveryInit => LifeInv
  <1> SUFFICES ASSUME RecoveryInit PROVE LifeInv
    OBVIOUS
  <1>1. /\ log = <<>> /\ context = <<>> /\ alive /\ DOMAIN log = {}
        /\ cut = [covered |-> 0, degraded |-> 0]
    BY DEF RecoveryInit, Init
  <1>2. Tale(log, 0) = <<>>
    <2>1. Told(log, 0) = {}
      BY <1>1 DEF Told
    <2>2. Tale(log, 0) \in Seq(Messages) /\ Len(Tale(log, 0)) = 0
      <3>1. log \in Seq(Events)
        BY <1>1
      <3> QED BY <2>1, <3>1, TaleType, FS_EmptySet
    <2> QED BY <2>2
  <1>3. LifeIn(log, context, head, issued, 0, 0, 0)
    <2>1. Retells(context, <<>>, 0, 0)
      BY <1>1 DEF Retells
    <2>2. Lost(log, <<>>, 0, 0, head, issued)
      BY DEF Lost
    <2> QED BY <1>1, <1>2, <2>1, <2>2 DEF LifeIn
  <1>4. CutIn(context, cut, 0)
    BY <1>1 DEF CutIn, Boundary
  <1> QED BY <1>1, <1>3, <1>4 DEF LifeInv

(* A compaction cuts where a group of the context ends, and no less far. *)
LEMMA CutMoves ==
  ASSUME TypeOK, cut \in [covered : Nat, degraded : Nat],
         NEW k, Planned(k), NEW status, NEW b, NEW q, NEW w,
         LifeIn(log, context, head, issued, b, q, w),
         CutIn(context, cut, b), cut' = CutAt(k, status)
  PROVE  CutIn(context, cut', b)
  <1> DEFINE x == EndOf(context, k)
  <1>1. PICK p \in 1 .. (Len(context) - 1) :
           /\ context[p].sequence = x /\ context[p + 1].role # "tool"
    BY CompactionEnds
  <1>2. /\ context \in Seq(Messages) /\ Len(context) \in Nat
        /\ p \in 1 .. Len(context) /\ b \in Nat /\ log \in Seq(Events)
    BY <1>1 DEF TypeOK, LifeIn
  <1>3. x > b /\ x \in Nat
    <2>1. context[p].sequence > b
      <3>1. \A j \in 1 .. Len(context) : context[j].sequence > b
        BY <1>2, LifeRises
      <3> QED BY <1>2, <3>1
    <2>2. context[p] \in Messages
      BY <1>2
    <2>3. context[p].sequence \in Nat
      BY <2>2 DEF Messages
    <2> QED BY <1>1, <2>1, <2>3
  <1>4. Boundary(context, b, x)
    BY <1>1 DEF Boundary
  <1> HIDE DEF x
  <1>5. CASE status = "success"
    <2>1. cut'.covered = x /\ cut'.degraded = 0
      BY <1>5 DEF CutAt, x
    <2>2. Boundary(context, b, 0)
      BY <1>2 DEF Boundary
    <2> QED BY <1>2, <1>3, <1>4, <2>1, <2>2 DEF CutIn
  <1>6. CASE status # "success"
    <2>1. /\ cut'.covered = cut.covered
          /\ cut'.degraded = IF x > cut.degraded THEN x ELSE cut.degraded
      BY <1>6 DEF CutAt, x
    <2>2. CASE x > cut.degraded
      <3>1. cut'.degraded = x
        BY <2>1, <2>2
      <3> QED BY <1>2, <1>3, <1>4, <2>1, <3>1 DEF CutIn
    <2>3. CASE ~(x > cut.degraded)
      <3>1. cut'.degraded = cut.degraded
        BY <2>1, <2>3
      <3> QED BY <2>1, <3>1 DEF CutIn
    <2> QED BY <2>2, <2>3
  <1> QED BY <1>5, <1>6

(* A step of the loop continues the life. *)
LEMMA LifeGoesOn ==
  ASSUME TypeOK, PhaseInv, SettledInv, [Next]_vars, NEW b, NEW q, NEW w,
         LifeIn(log, context, head, issued, b, q, w)
  PROVE  /\ LifeIn(log', context', head', issued', b, q, w)
         /\ \A c : CutIn(context, c, b) => CutIn(context', c, b)
  <1>1. /\ log \in Seq(Events) /\ context \in Seq(Messages)
        /\ head \in Nat /\ issued \in Nat /\ Len(log) \in Nat
    BY DEF TypeOK
  <1>2. CASE Silence
    <2>1. context' = context /\ issued' = issued /\ head' = head
      BY <1>2 DEF Silence
    <2>2. CASE log' = log
      BY <2>1, <2>2
    <2>3. CASE \E e \in Events : log' = Append(log, e) /\ RoleOf(e) = "none"
      <3>1. PICK e \in Events : log' = Append(log, e) /\ RoleOf(e) = "none"
        BY <2>3
      <3>2. LifeIn(Append(log, e), context, head, issued, b, q, w)
        BY <1>1, <3>1, LifeAside
      <3> QED BY <2>1, <3>1, <3>2
    <2> QED BY <1>2, <2>2, <2>3 DEF Silence
  <1>3. ASSUME NEW e \in Events, Spoke(e)
        PROVE  /\ LifeIn(log', context', head', issued', b, q, w)
               /\ \A c : CutIn(context, c, b) => CutIn(context', c, b)
    <2> DEFINE m == Message(RoleOf(e), e.call, Len(log) + 1)
    <2>1. /\ log' = Append(log, e) /\ context' = Append(context, m)
          /\ RoleOf(e) # "none" /\ Turns(e)
      BY <1>3 DEF Spoke
    <2>2. m \in Messages
      <3>1. RoleOf(e) \in Roles /\ e.call \in Nat
        BY <2>1, RoleType DEF Events
      <3> QED BY <1>1, <3>1, MessageType DEF Message
    <2>3. head > issued => RoleOf(e) # "tool"
      BY <1>1, <2>1 DEF Turns, Pending
    <2>4. LifeIn(Append(log, e), Append(context, m), head', issued', b, q, w)
      <3> DEFINE h2 == head'
                 i2 == issued'
      <3> HIDE DEF h2, i2
      <3>1. LifeIn(Append(log, e), Append(context, m), h2, i2, b, q, w)
        BY <1>1, <2>1, <2>3, LifeTold
      <3> QED BY <3>1 DEF h2, i2
    <2>5. \A c : CutIn(context, c, b) => CutIn(Append(context, m), c, b)
      BY <1>1, <2>2, CutGrows
    <2> HIDE DEF m
    <2> QED BY <2>1, <2>4, <2>5
  <1> QED BY <1>2, <1>3, StepTalks DEF Talk

(* What makes the invariant true of the next state. *)
LEMMA LifePrimed ==
  ASSUME NEW b, NEW q, NEW w,
         LifeIn(log', context', head', issued', b, q, w),
         CutIn(context', cut', b), FirstLife' => w = 0,
         ~alive' => crashes' >= 1
  PROVE  LifeInv'
  <1>1. /\ b \in 0 .. Len(log') /\ q \in 0 .. Len(context') /\ w \in Nat
    BY DEF LifeIn, Retells
  <1> QED BY <1>1 DEF LifeInv

(* The cutoff is a position of the log. *)
LEMMA CutoffType ==
  ASSUME TypeOK, cut \in [covered : Nat, degraded : Nat], ContextInv,
         NEW b, b \in 0 .. Len(log), CutIn(context, cut, b)
  PROVE  /\ Cutoff \in 0 .. Len(log) /\ Cutoff \in Nat
         /\ b =< Cutoff
         /\ Boundary(context, b, Cutoff)
         /\ cut.covered =< Cutoff /\ cut.degraded =< Cutoff
         /\ Cutoff = cut.covered \/ Cutoff = cut.degraded
  <1>1. /\ cut.covered \in Nat /\ cut.degraded \in Nat
        /\ log \in Seq(Events) /\ context \in Seq(Messages)
        /\ Len(log) \in Nat /\ Len(context) \in Nat
        /\ b \in Nat /\ b =< Len(log)
    BY DEF TypeOK
  <1>2. \A j \in 1 .. Len(context) : context[j].sequence \in 1 .. Len(log)
    <2>1. \A j \in DOMAIN context : context[j].sequence \in 1 .. Len(log)
      BY DEF ContextInv, GroupsIn
    <2> QED BY <1>1, <2>1
  <1>3. /\ Cutoff \in Nat
        /\ cut.covered =< Cutoff /\ cut.degraded =< Cutoff
        /\ Cutoff = cut.covered \/ Cutoff = cut.degraded
    BY <1>1 DEF Cutoff
  <1>4. Boundary(context, b, Cutoff)
    BY <1>3 DEF CutIn
  <1>5. b =< Cutoff
    BY <1>1, <1>3 DEF CutIn
  <1>6. Cutoff =< Len(log)
    <2>1. CASE Cutoff =< b
      BY <1>1, <1>3, <2>1
    <2>2. CASE ~(Cutoff =< b)
      <3>1. PICK p \in 1 .. (Len(context) - 1) :
              context[p].sequence = Cutoff
        BY <1>4, <2>2 DEF Boundary
      <3>2. p \in 1 .. Len(context)
        BY <1>1
      <3> QED BY <1>1, <1>2, <3>1, <3>2
    <2> QED BY <2>1, <2>2
  <1> QED BY <1>1, <1>3, <1>4, <1>5, <1>6

(* The steps of a process, and its end, keep the invariant. *)
LEMMA LifeNext ==
  ASSUME LivesInv, RecoveryTypeOK, ContextInv, LifeInv, Run \/ Crash
  PROVE  LifeInv'
  <1>1. PICK b \in 0 .. Len(log), q \in 0 .. Len(context), w \in Nat :
          /\ LifeIn(log, context, head, issued, b, q, w)
          /\ CutIn(context, cut, b)
          /\ FirstLife => w = 0
    BY DEF LifeInv
  <1>2. /\ TypeOK /\ PhaseInv /\ SettledInv
        /\ ~alive => crashes >= 1
        /\ cut \in [covered : Nat, degraded : Nat]
        /\ crashes \in Nat
    BY DEF LivesInv, ContextInv, LifeInv, RecoveryTypeOK
  <1>3. CASE Run
    <2>1. [Next]_vars /\ alive' = alive /\ crashes' = crashes /\ alive
      BY <1>3 DEF Run
    <2>2. /\ LifeIn(log', context', head', issued', b, q, w)
          /\ \A c : CutIn(context, c, b) => CutIn(context', c, b)
      BY <1>1, <1>2, <2>1, LifeGoesOn
    <2>3. CutIn(context, cut', b)
      <3> DEFINE status == log'[Len(log')].info
      <3>1. \/ cut' = cut
            \/ \E k \in DOMAIN context :
                 Planned(k) /\ cut' = CutAt(k, status)
        BY <1>3 DEF Run
      <3> HIDE DEF status
      <3>2. CASE \E k \in DOMAIN context :
                   Planned(k) /\ cut' = CutAt(k, status)
        BY <1>1, <1>2, <3>2, CutMoves
      <3>3. CASE cut' = cut
        BY <1>1, <3>3
      <3> QED BY <3>1, <3>2, <3>3
    <2>4. CutIn(context', cut', b)
      <3> DEFINE c == cut'
      <3> HIDE DEF c
      <3>1. CutIn(context, c, b)
        BY <2>3 DEF c
      <3>2. CutIn(context', c, b)
        BY <2>2, <3>1
      <3> QED BY <3>2 DEF c
    <2>5. FirstLife' => w = 0
      BY <1>1, <2>1 DEF FirstLife
    <2>6. ~alive' => crashes' >= 1
      BY <2>1
    <2> QED BY <2>2, <2>4, <2>5, <2>6, LifePrimed
  <1>4. CASE Crash
    <2>1. /\ UNCHANGED vars /\ cut' = cut /\ alive /\ ~alive'
          /\ crashes' = crashes + 1
      BY <1>4 DEF Crash
    <2>2. log' = log /\ context' = context /\ head' = head /\ issued' = issued
      BY <2>1 DEF vars, journal, plans
    <2>3. FirstLife' => w = 0
      BY <1>1, <1>2, <2>1 DEF FirstLife
    <2>4. ~alive' => crashes' >= 1
      BY <1>2, <2>1
    <2>5. /\ LifeIn(log', context', head', issued', b, q, w)
          /\ CutIn(context', cut', b)
      BY <1>1, <2>1, <2>2
    <2> QED BY <2>3, <2>4, <2>5, LifePrimed
  <1> QED BY <1>3, <1>4

(* A new life retells what is behind the cutoff, less an open group. *)
LEMMA LifeResume ==
  ASSUME LivesInv, RecoveryTypeOK, ContextInv, LifeInv, Resume
  PROVE  LifeInv'
  <1>1. PICK b \in 0 .. Len(log) : CutIn(context, cut, b)
    BY DEF LifeInv
  <1>2. /\ TypeOK /\ cut \in [covered : Nat, degraded : Nat]
        /\ log \in Seq(Events) /\ Len(log) \in Nat /\ issued \in Nat
        /\ crashes \in Nat
    BY DEF LivesInv, RecoveryTypeOK, TypeOK
  <1>3. /\ log' = log /\ context' = WholeGroups(Recorded)
        /\ issued' = issued /\ head' = issued + 1 /\ cut' = cut
        /\ ~alive /\ alive' /\ crashes' = crashes /\ Groupable(Recorded)
    BY DEF Resume, Resumable, Fresh
  <1> DEFINE F == Recorded
             v == WholeGroups(F)
             x == Cutoff
             hd == issued + 1
  <1>4. /\ x \in 0 .. Len(log) /\ cut.covered =< x /\ cut.degraded =< x
        /\ x = cut.covered \/ x = cut.degraded
    BY <1>1, <1>2, CutoffType
  <1>5. F \in Seq(Messages) /\ F = Tale(log, x) /\ Len(F) \in Nat
    <2>1. F = Tale(log, x)
      BY RecordedTale
    <2>2. Tale(log, x) \in Seq(Messages)
      BY <1>2, TaleType
    <2> HIDE DEF F
    <2> QED BY <2>1, <2>2
  <1> HIDE DEF F, x
  <1>6. \A k \in Heads(F) : Whole(F, k) \/ Span(F, k, Len(F))
    <2>1. \A k \in Heads(F) : Whole(F, k) \/ Open(F, k)
      BY <1>3 DEF Groupable, F
    <2> QED BY <1>5, <2>1, OpenSpan
  <1>7. PICK n \in 0 .. Len(F) :
          /\ FirstOf(F, v, n)
          /\ n = Len(F) \/ (Span(F, n + 1, Len(F)) /\ ~Whole(F, n + 1))
    BY <1>5, <1>6, Dropped
  <1> HIDE DEF v
  <1> DEFINE w == Len(F) - n
  <1>8. /\ w \in Nat /\ n + w = Len(F) /\ n \in Nat
        /\ w > 0 => n # Len(F)
    BY <1>5
  <1>9. Retells(v, F, n, w)
    <2>1. Len(v) = n /\ \A j \in 1 .. n : v[j] = F[j]
      BY <1>7 DEF FirstOf
    <2> HIDE DEF w
    <2>2. Len(v) = n
      BY <2>1
    <2>3. /\ n \in 0 .. Len(v) /\ Len(F) = Len(v) + w
          /\ (n + 1) .. Len(v) = {}
      BY ONLY <1>8, <2>2
    <2> QED BY <1>8, <2>1, <2>3 DEF Retells
  <1>10. Lost(log, F, n, w, hd, issued)
    <2>1. hd > issued
      BY <1>2
    <2> HIDE DEF hd, w
    <2> SUFFICES ASSUME w > 0
                 PROVE  /\ Span(F, n + 1, n + w) /\ ~WholeIn(log, F, n + 1)
      BY <2>1 DEF Lost
    <2>2. Span(F, n + 1, Len(F)) /\ ~Whole(F, n + 1)
      BY <1>7, <1>8
    <2>3. n + 1 \in Heads(F)
      BY <2>2 DEF Span
    <2> QED BY <1>8, <2>2, <2>3, WholeSame
  <1> HIDE DEF w, hd
  <1>11. LifeIn(log, v, hd, issued, x, n, w)
    BY <1>4, <1>5, <1>9, <1>10 DEF LifeIn
  <1>12. CutIn(v, cut, x)
    <2>1. Boundary(v, x, cut.covered) /\ Boundary(v, x, cut.degraded)
      BY <1>4 DEF Boundary
    <2>2. x =< cut.covered \/ x =< cut.degraded
      <3>1. cut.covered \in Nat /\ cut.degraded \in Nat
        BY <1>2
      <3> QED BY <1>4, <3>1
    <2> QED BY <2>1, <2>2 DEF CutIn
  <1>13. /\ LifeIn(log', context', head', issued', x, n, w)
         /\ CutIn(context', cut', x)
    BY <1>3, <1>11, <1>12 DEF v, F, hd
  <1>14. ~FirstLife'
    <2>1. crashes >= 1
      BY <1>3 DEF LifeInv
    <2> QED BY <1>2, <1>3, <2>1 DEF FirstLife
  <1> QED BY <1>3, <1>13, <1>14, LifePrimed

(***************************************************************************)
(* What the context of a life is: the tale of the log behind a position,   *)
(* less a group that its life before left incomplete.                      *)
(***************************************************************************)
THEOREM LifeInvariant == RecoverySpec => []LifeInv
  <1>1. LivesInv /\ RecoveryTypeOK /\ ContextInv /\ LifeInv
          /\ [RecoveryNext]_sessionVars => LifeInv'
    <2> SUFFICES ASSUME LivesInv, RecoveryTypeOK, ContextInv, LifeInv,
                        [RecoveryNext]_sessionVars
                 PROVE  LifeInv'
      OBVIOUS
    <2>1. CASE Run \/ Crash
      BY <2>1, LifeNext
    <2>2. CASE Resume
      BY <2>2, LifeResume
    <2>3. CASE UNCHANGED sessionVars
      <3>1. PICK b \in 0 .. Len(log), q \in 0 .. Len(context), w \in Nat :
              /\ LifeIn(log, context, head, issued, b, q, w)
              /\ CutIn(context, cut, b)
              /\ FirstLife => w = 0
        BY DEF LifeInv
      <3>2. /\ log' = log /\ context' = context /\ head' = head
            /\ issued' = issued /\ alive' = alive /\ crashes' = crashes
            /\ cut' = cut
        BY <2>3 DEF sessionVars, vars, recoveryVars, journal, plans
      <3>3. /\ LifeIn(log', context', head', issued', b, q, w)
            /\ CutIn(context', cut', b)
        BY <3>1, <3>2
      <3>4. FirstLife' => w = 0
        BY <3>1, <3>2 DEF FirstLife
      <3>5. ~alive' => crashes' >= 1
        BY <3>2 DEF LifeInv
      <3> QED BY <3>3, <3>4, <3>5, LifePrimed
    <2> QED BY <2>1, <2>2, <2>3 DEF RecoveryNext
  <1> QED
    BY <1>1, LifeStart, LivesInvariant, RecoveryTypeCorrect,
       ContextInvariant, PTL DEF RecoverySpec

-----------------------------------------------------------------------------
(***************************************************************************)
(* The first end of a process does no harm.                                *)
(***************************************************************************)

(* The log has the root agent_start that a resume asks for. *)
Began(lg) == \E i \in DOMAIN lg : lg[i].type = "agent_start"

(* The log has a message of the user. *)
Heard(lg) == \E i \in DOMAIN lg : lg[i].type = "user_message"

(* The user is heard in a session that has begun. *)
StartInv ==
  /\ pc = "user" \/ sessionStarted => Began(log)
  /\ Heard(log) => Began(log)

(* A user is heard only behind an agent_start. *)
LEMMA StartNext ==
  ASSUME TypeOK, PhaseInv, SettledInv, StartInv, [Next]_vars
  PROVE  StartInv'
  <1>1. log \in Seq(Events) /\ Len(log) \in Nat /\ DOMAIN log = 1 .. Len(log)
    BY DEF TypeOK
  <1>2. Talk /\ Opening
    BY StepTalks, StepSpeaks
  <1>3. ASSUME NEW e \in Events
        PROVE  /\ Began(log) => Began(Append(log, e))
               /\ e.type = "agent_start" => Began(Append(log, e))
               /\ Heard(Append(log, e)) =>
                    Heard(log) \/ e.type = "user_message"
    <2> DEFINE lh == Append(log, e)
               x == Len(log) + 1
    <2>1. /\ DOMAIN lh = 1 .. x /\ lh[x] = e
          /\ \A i \in 1 .. Len(log) : lh[i] = log[i]
      BY <1>1
    <2>2. /\ \A i \in 1 .. x : i \in 1 .. Len(log) \/ i = x
          /\ \A i \in 1 .. Len(log) : i \in 1 .. x
          /\ x \in 1 .. x
      BY <1>1
    <2> HIDE DEF lh, x
    <2>3. /\ Began(log) => Began(lh)
          /\ e.type = "agent_start" => Began(lh)
          /\ Heard(lh) => Heard(log) \/ e.type = "user_message"
      BY <1>1, <2>1, <2>2 DEF Began, Heard
    <2> QED BY <2>3 DEF lh
  <1>4. \A e : e.type = "user_message" <=> RoleOf(e) = "user"
    BY DEF RoleOf
  <1>5. /\ Began(log) => Began(log')
        /\ Heard(log') => Heard(log) \/ pc = "user"
    <2>1. CASE UNCHANGED log
      BY <2>1 DEF Began, Heard
    <2>2. ASSUME NEW e \in Events, log' = Append(log, e),
                 RoleOf(e) = "user" => pc = "user"
          PROVE  /\ Began(log) => Began(log')
                 /\ Heard(log') => Heard(log) \/ pc = "user"
      <3> HIDE DEF Began, Heard
      <3>1. /\ Began(log) => Began(Append(log, e))
            /\ Heard(Append(log, e)) => Heard(log) \/ pc = "user"
        BY <1>3, <1>4, <2>2
      <3> QED BY <2>2, <3>1 DEF Began, Heard
    <2>3. \/ UNCHANGED log
          \/ \E e \in Events : /\ log' = Append(log, e)
                               /\ RoleOf(e) = "user" => pc = "user"
      BY <1>2 DEF Talk, Silence, Spoke
    <2> QED BY <2>1, <2>2, <2>3
  <1>6. pc' = "user" \/ sessionStarted' => Began(log')
    <2>1. CASE log' = Append(log, Event("agent_start", 0, "RUNNING"))
      <3> DEFINE e == Event("agent_start", 0, "RUNNING")
      <3>1. e.type = "agent_start"
        BY DEF Event
      <3>2. log'[Len(log) + 1] = e /\ Len(log) + 1 \in DOMAIN log'
        <4> HIDE DEF e
        <4> QED BY <1>1, <2>1 DEF e
      <3> QED BY <3>1, <3>2 DEF Began
    <2>2. pc = "user" \/ sessionStarted => Began(log')
      BY <1>5 DEF StartInv
    <2> QED BY <1>2, <2>1, <2>2 DEF Opening
  <1>7. Heard(log') => Began(log')
    BY <1>5 DEF StartInv
  <1> QED BY <1>6, <1>7 DEF StartInv, Began, Heard

(***************************************************************************)
(* In all the lives of a session, a log with a message of the user has the *)
(* root agent_start without which recover_session_plan refuses it.         *)
(***************************************************************************)
THEOREM StartInvariant == RecoverySpec => []StartInv
  <1>1. RecoveryInit => StartInv
    BY DEF RecoveryInit, Init, StartInv, Heard
  <1>2. LivesInv /\ ContextInv /\ StartInv /\ [RecoveryNext]_sessionVars
          => StartInv'
    <2> SUFFICES ASSUME LivesInv, ContextInv, StartInv,
                        [RecoveryNext]_sessionVars
                 PROVE  StartInv'
      OBVIOUS
    <2>1. CASE [Next]_vars
      BY <2>1, StartNext DEF LivesInv, ContextInv
    <2>2. CASE Resume
      <3>1. log' = log /\ pc' = "idle" /\ ~sessionStarted'
        BY <2>2 DEF Resume, Fresh
      <3> QED BY <3>1 DEF StartInv, Began, Heard
    <2> QED
      BY <2>1, <2>2 DEF RecoveryNext, Run, Crash, sessionVars
  <1> QED BY <1>1, <1>2, LivesInvariant, ContextInvariant, PTL
          DEF RecoverySpec

(* t is what follows the first p messages of s. *)
Suffix(s, p, t) ==
  /\ p \in 0 .. Len(s) /\ Len(t) = Len(s) - p
  /\ \A j \in 1 .. Len(t) : t[j] = s[p + j]

(* A suffix has the groups of the whole that it contains. *)
LEMMA SuffixGroup ==
  ASSUME NEW lg, NEW s \in Seq(Messages), NEW t \in Seq(Messages), NEW p,
         Suffix(s, p, t), NEW k \in Heads(t)
  PROVE  /\ p + k \in Heads(s) /\ t[k] = s[p + k]
         /\ WholeIn(lg, t, k) <=> WholeIn(lg, s, p + k)
         /\ Span(s, p + k, Len(s)) => Span(t, k, Len(t))
         /\ \E f \in (p + k) .. Len(s) : Span(s, p + k, f) /\ Span(t, k, f - p)
  <1> DEFINE i == p + k
  <1>1. /\ Len(s) \in Nat /\ Len(t) \in Nat /\ p \in Nat
        /\ Len(s) = p + Len(t)
        /\ \A j \in 1 .. Len(t) : t[j] = s[p + j]
    BY DEF Suffix
  <1>2. k \in 1 .. Len(t) /\ t[k].role # "tool" /\ t[k] = s[i]
        /\ i \in 1 .. Len(s)
    BY <1>1 DEF Heads
  <1>3. i \in Heads(s)
    BY <1>2 DEF Heads
  <1> HIDE DEF i
  <1>4. ASSUME NEW f, Span(s, i, f)
        PROVE  /\ Span(t, k, f - p)
               /\ WholeIn(lg, t, k) <=> WholeIn(lg, s, i)
    <2> DEFINE e == f - p
               d == k - i
    <2>1. f \in i .. Len(s) /\ (f = Len(s) \/ s[f + 1].role # "tool")
      BY <1>4 DEF Span
    <2>2. /\ e \in k .. Len(t) /\ e - k = f - i /\ d = 0 - p
      BY <1>1, <1>2, <2>1 DEF i
    <2>3. \A j \in i .. f : j - p \in 1 .. Len(t) /\ p + (j - p) = j
                            /\ j + d = j - p
      BY <1>1, <1>2, <2>1, <2>2 DEF i
    <2>4. Copied(s, i, f, t, k, e)
      <3>1. ASSUME NEW j \in i .. f
            PROVE  t[j + d] = s[j]
        <4> DEFINE l == j - p
        <4>1. l \in 1 .. Len(t) /\ p + l = j /\ j + d = l
          BY <2>3
        <4> HIDE DEF l, d
        <4> QED BY <1>1, <4>1
      <3> HIDE DEF e
      <3> QED BY <1>2, <2>2, <3>1 DEF Copied
    <2>5. e = Len(t) \/ t[e + 1].role # "tool"
      <3>1. CASE f = Len(s)
        BY <1>1, <3>1
      <3>2. CASE f # Len(s)
        <4> DEFINE l == e + 1
        <4>1. l \in 1 .. Len(t) /\ p + l = f + 1
          <5>1. /\ Len(s) \in Nat /\ Len(t) \in Nat /\ p \in Nat
                /\ Len(s) = p + Len(t) /\ k \in 1 .. Len(t)
                /\ f \in (p + k) .. Len(s) /\ f # Len(s)
            BY <1>1, <1>2, <2>1, <3>2 DEF i
          <5> QED BY ONLY <5>1
        <4> HIDE DEF l, e
        <4>2. t[l] = s[f + 1]
          BY <1>1, <4>1
        <4> QED BY <2>1, <3>2, <4>2 DEF l
      <3> QED BY <3>1, <3>2
    <2>6. CallsIn(lg, t[k]) = CallsIn(lg, s[i])
      BY <1>2
    <2> HIDE DEF e
    <2>7. Span(t, k, e) /\ (WholeIn(lg, t, k) <=> WholeIn(lg, s, i))
      BY <1>4, <2>4, <2>5, <2>6, SameGroup
    <2> QED BY <2>7 DEF e
  <1>5. PICK f \in i .. Len(s) : Span(s, i, f)
    BY <1>3, SpanExists
  <1>6. Span(s, i, Len(s)) => Span(t, k, Len(t))
    <2>1. Len(s) - p = Len(t)
      BY <1>1
    <2> QED BY <1>4, <2>1
  <1>7. Span(t, k, f - p) /\ (WholeIn(lg, t, k) <=> WholeIn(lg, s, i))
    BY <1>4, <1>5
  <1>8. /\ i \in Heads(s) /\ t[k] = s[i]
        /\ WholeIn(lg, t, k) <=> WholeIn(lg, s, i)
        /\ Span(s, i, Len(s)) => Span(t, k, Len(t))
        /\ \E g \in i .. Len(s) : Span(s, i, g) /\ Span(t, k, g - p)
    BY <1>2, <1>3, <1>5, <1>6, <1>7
  <1> QED BY <1>8 DEF i

(* The group whose calls are being answered is in the suffix as well. *)
LEMMA SuffixOpened ==
  ASSUME NEW lg, NEW s \in Seq(Messages), NEW t \in Seq(Messages), NEW p,
         Suffix(s, p, t), NEW k \in Heads(t), NEW hd, NEW iss,
         Opened(lg, s, p + k, hd, iss)
  PROVE  Opened(lg, t, k, hd, iss)
  <1> DEFINE i == p + k
  <1>1. /\ Len(s) \in Nat /\ Len(t) \in Nat /\ p \in Nat
        /\ Len(s) = p + Len(t) /\ k \in 1 .. Len(t)
        /\ \A j \in 1 .. Len(t) : t[j] = s[p + j]
    <2>1. Len(s) \in Nat /\ Len(t) \in Nat /\ k \in 1 .. Len(t)
      BY DEF Heads
    <2>2. /\ p \in 0 .. Len(s) /\ Len(t) = Len(s) - p
          /\ \A j \in 1 .. Len(t) : t[j] = s[p + j]
      BY DEF Suffix
    <2>3. p \in Nat /\ Len(s) = p + Len(t)
      BY <2>1, <2>2
    <2> QED BY <2>1, <2>2, <2>3
  <1>2. /\ Span(s, i, Len(s)) /\ FirstIn(s, i, hd) \in 1 .. hd
        /\ CallsIn(lg, s[i]) = FirstIn(s, i, hd) .. iss
        /\ \A j \in (i + 1) .. Len(s) :
             s[j].call = FirstIn(s, i, hd) + (j - i - 1)
    BY DEF Opened
  <1>3. Span(t, k, Len(t)) /\ t[k] = s[i]
    BY <1>2, SuffixGroup
  <1>4. Len(t) - k = Len(s) - i
    BY <1>1
  <1>5. FirstIn(t, k, hd) = FirstIn(s, i, hd)
    BY <1>4 DEF FirstIn
  <1>6. ASSUME NEW j \in (k + 1) .. Len(t)
        PROVE  t[j].call = FirstIn(t, k, hd) + (j - k - 1)
    <2> DEFINE l == p + j
    <2>1. /\ l \in (i + 1) .. Len(s) /\ l - i - 1 = j - k - 1
          /\ j \in 1 .. Len(t)
      BY <1>1
    <2>2. t[j] = s[l]
      BY <1>1, <2>1
    <2> HIDE DEF l, i
    <2>3. s[l].call = FirstIn(s, i, hd) + (l - i - 1)
      BY <1>2, <2>1
    <2> QED BY <1>5, <2>1, <2>2, <2>3
  <1> HIDE DEF i
  <1> QED BY <1>2, <1>3, <1>5, <1>6 DEF Opened

(* That group is one a new life drops, unless it is whole. *)
LEMMA OpenedOpen ==
  ASSUME NEW ctx \in Seq(Messages), NEW k, NEW hd \in Nat, NEW iss \in Nat,
         hd =< iss, Opened(log, ctx, k, hd, iss)
  PROVE  Whole(ctx, k) \/ Open(ctx, k)
  <1> DEFINE e == Len(ctx)
             fst == FirstIn(ctx, k, hd)
  <1>1. /\ Span(ctx, k, e) /\ fst \in 1 .. hd
        /\ CallsIn(log, ctx[k]) = fst .. iss
        /\ \A j \in (k + 1) .. e : ctx[j].call = fst + (j - k - 1)
    BY DEF Opened
  <1>2. /\ Answered(ctx, k) = Results(ctx, k, e)
        /\ Cardinality(Answers(ctx, k)) = e - k
        /\ k \in 1 .. e /\ e \in Nat
    BY <1>1, SpanAnswers
  <1>3. Calls(ctx[k]) = fst .. iss
    BY <1>1 DEF Calls, CallsIn, AssistantsBefore
  <1>4. fst = hd - (e - k)
    BY DEF FirstIn
  <1> HIDE DEF e, fst
  <1>5. \A j \in (k + 1) .. e : fst + (j - k - 1) \in fst .. iss
    BY <1>1, <1>2, <1>4
  <1>6. Results(ctx, k, e) \subseteq fst .. iss
    BY <1>1, <1>5 DEF Results
  <1>7. k + (e - k) = Len(ctx)
    BY <1>2 DEF e
  <1> QED BY <1>2, <1>3, <1>6, <1>7 DEF Open

(* Where the p-th message of a context is in the tale it retells. *)
Place(p, q, w) == IF p > q THEN p + w ELSE p

(* What is left of a context when its first p messages are summarised. *)
CutAfter(ctx, p, b, x) ==
  /\ p \in 0 .. Len(ctx)
  /\ p = 0 => x = b
  /\ p > 0 => /\ p < Len(ctx) /\ ctx[p].sequence = x
              /\ ctx[p + 1].role # "tool"

(* The log behind the cutoff is a suffix of the tale the context retells. *)
LEMMA RecordedBehind ==
  ASSUME TypeOK, cut \in [covered : Nat, degraded : Nat], ContextInv,
         NEW b, NEW q, NEW w,
         LifeIn(log, context, head, issued, b, q, w),
         CutIn(context, cut, b)
  PROVE  \E p \in 0 .. Len(context) :
           /\ CutAfter(context, p, b, Cutoff)
           /\ Suffix(Tale(log, b), Place(p, q, w), Recorded)
  <1> DEFINE F == Tale(log, b)
             R == Recorded
             x == Cutoff
             c == Len(context)
  <1>1. /\ context \in Seq(Messages) /\ c \in Nat /\ log \in Seq(Events)
        /\ b \in 0 .. Len(log) /\ Retells(context, F, q, w)
        /\ b \in Nat /\ Len(log) \in Nat
    BY DEF TypeOK, LifeIn
  <1>2. b =< x /\ x \in Nat /\ Boundary(context, b, x)
    BY <1>1, CutoffType
  <1>3. R = Tale(log, x)
    BY RecordedTale
  <1>4. F \in Seq(Messages) /\ Len(F) \in Nat
    <2>1. F \in Seq(Messages)
      BY <1>1, TaleType
    <2> HIDE DEF F
    <2> QED BY <2>1
  <1> HIDE DEF x, R
  <1>5. CASE x =< b
    <2>1. x = b /\ R = F
      BY <1>1, <1>2, <1>3, <1>5
    <2>2. Place(0, q, w) = 0
      <3>1. q \in Nat
        BY <1>1 DEF Retells
      <3> QED BY <3>1 DEF Place
    <2> HIDE DEF F
    <2>3. Suffix(F, Place(0, q, w), R)
      BY <1>4, <2>1, <2>2 DEF Suffix
    <2>4. CutAfter(context, 0, b, x)
      BY <1>1, <2>1 DEF CutAfter
    <2>5. 0 \in 0 .. c
      BY <1>1
    <2> QED BY <2>3, <2>4, <2>5 DEF F, R, x
  <1>6. CASE ~(x =< b)
    <2>1. PICK p \in 1 .. (c - 1) :
            context[p].sequence = x /\ context[p + 1].role # "tool"
      BY <1>2, <1>6 DEF Boundary
    <2> DEFINE r == Place(p, q, w)
    <2>2. /\ q \in 0 .. c /\ w \in Nat /\ Len(F) = c + w
          /\ \A j \in 1 .. q : context[j] = F[j]
          /\ \A j \in (q + 1) .. c : context[j] = F[j + w]
      BY <1>1 DEF Retells
    <2>3. r \in 1 .. Len(F) /\ context[p] = F[r]
      <3> HIDE DEF F
      <3>1. CASE p > q
        <4>1. r = p + w /\ p + w \in 1 .. Len(F) /\ p \in (q + 1) .. c
          BY <1>1, <2>2, <3>1 DEF Place
        <4> HIDE DEF r
        <4> QED BY <2>2, <4>1
      <3>2. CASE ~(p > q)
        <4>1. r = p /\ p \in 1 .. Len(F) /\ p \in 1 .. q
          BY <1>1, <2>2, <3>2 DEF Place
        <4> HIDE DEF r
        <4> QED BY <2>2, <4>1
      <3> QED BY <3>1, <3>2
    <2>4. x = F[r].sequence
      BY <2>1, <2>3
    <2> HIDE DEF r
    <2>5. /\ Len(R) = Len(F) - r
          /\ \A k \in 1 .. Len(R) : R[k] = F[r + k]
      BY <1>1, <1>3, <2>3, <2>4, TaleBehind
    <2>6. Suffix(F, r, R)
      <3> HIDE DEF F
      <3>1. r \in 0 .. Len(F)
        BY <1>4, <2>3
      <3> QED BY <2>5, <3>1 DEF Suffix
    <2>7. p \in 0 .. c /\ p > 0 /\ p < c
      BY <1>1
    <2>8. CutAfter(context, p, b, x)
      BY <2>1, <2>7 DEF CutAfter
    <2> QED BY <2>6, <2>7, <2>8 DEF F, R, x, r
  <1> QED BY <1>5, <1>6

(* In the first life the log tells just the context behind the cutoff. *)
LEMMA FirstLifeGroupable ==
  ASSUME TypeOK, cut \in [covered : Nat, degraded : Nat], ContextInv,
         NEW b, NEW q, LifeIn(log, context, head, issued, b, q, 0),
         CutIn(context, cut, b)
  PROVE  Groupable(Recorded)
  <1> DEFINE F == Tale(log, b)
             R == Recorded
  <1>1. /\ context \in Seq(Messages) /\ Len(context) \in Nat
        /\ log \in Seq(Events) /\ head \in Nat /\ issued \in Nat
        /\ Retells(context, F, q, 0)
        /\ GroupsIn(log, context, head, issued)
    BY DEF TypeOK, LifeIn, ContextInv
  <1>2. F = context
    <2>1. F \in Seq(Messages)
      BY <1>1, TaleType
    <2> HIDE DEF F
    <2>2. /\ q \in 0 .. Len(context) /\ Len(F) = Len(context)
          /\ \A j \in 1 .. q : context[j] = F[j]
          /\ \A j \in (q + 1) .. Len(context) : context[j] = F[j + 0]
      BY <1>1 DEF Retells
    <2>3. \A j \in 1 .. Len(context) : context[j] = F[j]
      <3> TAKE j \in 1 .. Len(context)
      <3>1. j \in 1 .. q \/ (j \in (q + 1) .. Len(context) /\ j + 0 = j)
        BY <1>1, <2>2
      <3> QED BY <2>2, <3>1
    <2> QED BY <1>1, <2>1, <2>2, <2>3, SeqEqual
  <1>3. PICK p \in 0 .. Len(context) :
          /\ CutAfter(context, p, b, Cutoff)
          /\ Suffix(F, Place(p, q, 0), R)
    BY RecordedBehind
  <1>4. R \in Seq(Messages)
    <2>1. R = Tale(log, Cutoff)
      BY RecordedTale
    <2> HIDE DEF R
    <2> QED BY <1>1, <2>1, TaleType
  <1> HIDE DEF F, R
  <1>5. Suffix(context, p, R)
    <2>1. Place(p, q, 0) = p
      BY <1>1, <1>3 DEF Place
    <2> QED BY <1>2, <1>3, <2>1
  <1>6. /\ Len(R) = Len(context) - p
        /\ \A j \in 1 .. Len(R) : R[j] = context[p + j]
    BY <1>5 DEF Suffix
  <1>7. R # <<>> => 1 \in Heads(R)
    <2> SUFFICES ASSUME R # <<>> PROVE R[1].role # "tool" /\ 1 \in DOMAIN R
      BY DEF Heads
    <2>1. 1 \in 1 .. Len(R) /\ 1 \in DOMAIN R
      BY <1>4
    <2>2. R[1] = context[p + 1]
      BY <1>6, <2>1
    <2>3. CASE p = 0
      <3>1. context # <<>>
        BY <1>1, <1>6, <2>1, <2>3
      <3> QED BY <1>1, <2>1, <2>2, <2>3, <3>1 DEF GroupsIn, Heads
    <2>4. CASE p # 0
      <3>1. p > 0
        BY <1>3, <2>4
      <3> QED BY <1>3, <2>1, <2>2, <3>1 DEF CutAfter
    <2> QED BY <2>3, <2>4
  <1>8. ASSUME NEW k \in Heads(R)
        PROVE  Whole(R, k) \/ Open(R, k)
    <2>1. /\ p + k \in Heads(context)
          /\ WholeIn(log, R, k) <=> WholeIn(log, context, p + k)
      BY <1>1, <1>4, <1>5, SuffixGroup
    <2>2. CASE WholeIn(log, context, p + k)
      BY <2>1, <2>2, WholeSame
    <2>3. CASE ~WholeIn(log, context, p + k)
      <3>1. head =< issued /\ Opened(log, context, p + k, head, issued)
        BY <1>1, <2>1, <2>3 DEF GroupsIn
      <3>2. Opened(log, R, k, head, issued)
        BY <1>1, <1>4, <1>5, <3>1, SuffixOpened
      <3> QED BY <1>1, <1>4, <3>1, <3>2, OpenedOpen
    <2> QED BY <2>2, <2>3
  <1>9. Groupable(R)
    BY <1>7, <1>8 DEF Groupable
  <1> QED BY <1>9 DEF R

(***************************************************************************)
(* A session whose process has ended once, at whatever point, can be       *)
(* resumed when it has heard its user.                                     *)
(***************************************************************************)
THEOREM FirstCrashHarmless == RecoverySpec => []ResumableOnce
  <1>1. /\ LivesInv /\ RecoveryTypeOK /\ ContextInv /\ LifeInv /\ StartInv
        => ResumableOnce
    <2> SUFFICES ASSUME LivesInv, RecoveryTypeOK, ContextInv, LifeInv,
                        StartInv, crashes < 2, ~alive, Heard(log)
                 PROVE  Resumable
      BY DEF ResumableOnce, EverySessionResumable, Heard
    <2>1. /\ TypeOK /\ cut \in [covered : Nat, degraded : Nat]
          /\ crashes \in Nat
      BY DEF LivesInv, RecoveryTypeOK
    <2>2. FirstLife
      BY <2>1 DEF LifeInv, FirstLife
    <2>3. PICK b \in 0 .. Len(log), q \in 0 .. Len(context), w \in Nat :
            /\ LifeIn(log, context, head, issued, b, q, w)
            /\ CutIn(context, cut, b)
            /\ FirstLife => w = 0
      BY DEF LifeInv
    <2>4. LifeIn(log, context, head, issued, b, q, 0)
      BY <2>2, <2>3
    <2>5. Groupable(Recorded)
      BY <2>1, <2>3, <2>4, FirstLifeGroupable
    <2>6. \E i \in DOMAIN log : log[i].type = "agent_start"
      BY DEF StartInv, Began
    <2> QED BY <2>5, <2>6 DEF Resumable
  <1> QED
    BY <1>1, LivesInvariant, RecoveryTypeCorrect, ContextInvariant,
       LifeInvariant, StartInvariant, PTL

-----------------------------------------------------------------------------
(***************************************************************************)
(* What is resumed is what was lost.                                       *)
(***************************************************************************)

(* The group of a message, and that it reaches at least to the message. *)
LEMMA HeadSpan ==
  ASSUME NEW v \in Seq(Messages), v # <<>> => 1 \in Heads(v),
         NEW j \in 1 .. Len(v)
  PROVE  \E f \in j .. Len(v) :
           /\ Span(v, HeadOf(v, j), f) /\ HeadOf(v, j) =< j
           /\ EndOf(v, HeadOf(v, j)) = v[f].sequence
  <1> DEFINE S == {k \in Heads(v) : k =< j}
             h == HeadOf(v, j)
  <1>1. Len(v) \in Nat /\ 1 \in Heads(v)
    <2>1. v # <<>>
      OBVIOUS
    <2> QED BY <2>1
  <1>2. \A k \in Heads(v) : k \in 1 .. Len(v)
    BY DEF Heads
  <1>3. S \subseteq Nat /\ IsFiniteSet(S) /\ S # {}
    <2>1. S \in SUBSET (1 .. Len(v)) /\ S \subseteq Nat
      BY <1>1, <1>2
    <2>2. IsFiniteSet(1 .. Len(v))
      BY <1>1, FS_Interval
    <2>3. 1 \in S
      BY <1>1
    <2> HIDE DEF S
    <2> QED BY <2>1, <2>2, <2>3, FS_Subset
  <1>4. \E k \in S : \A i \in S : i =< k
    <2> HIDE DEF S
    <2> QED BY <1>3, Greatest
  <1>5. h \in Heads(v) /\ h =< j /\ \A i \in Heads(v) : i =< j => i =< h
    <2>1. \E k \in Heads(v) :
            k =< j /\ \A i \in Heads(v) : i =< j => i =< k
      BY <1>4
    <2> QED BY <2>1 DEF HeadOf
  <1> HIDE DEF h
  <1>6. PICK f \in h .. Len(v) : Span(v, h, f)
    BY <1>5, SpanExists
  <1>7. h \in 1 .. Len(v) /\ EndOf(v, h) = v[f].sequence
    BY <1>6, SpanAnswers
  <1>8. f >= j
    <2> SUFFICES ASSUME f < j PROVE FALSE
      BY <1>1, <1>6, <1>7
    <2> DEFINE g == f + 1
    <2>1. g \in 1 .. Len(v) /\ g =< j /\ g > h /\ f # Len(v)
      BY <1>1, <1>6, <1>7
    <2>2. v[g].role # "tool"
      BY <1>6, <2>1 DEF Span
    <2> HIDE DEF g
    <2>3. g \in Heads(v)
      BY <2>1, <2>2 DEF Heads
    <2>4. g =< h
      BY <1>5, <2>1, <2>3
    <2> QED BY <1>7, <2>1, <2>4
  <1>9. f \in j .. Len(v)
    BY <1>1, <1>6, <1>7, <1>8
  <1> QED BY <1>5, <1>6, <1>7, <1>9 DEF h

(* The first p messages are complete groups, and end at x. *)
EndsAt(v, p, b, x) ==
  /\ p \in 0 .. Len(v)
  /\ p = 0 => x = b
  /\ p > 0 => v[p].sequence = x
  /\ p < Len(v) => v[p + 1].role # "tool"

(* The sequences of v rise, and are behind b. *)
InOrder(v, b) ==
  /\ \A j \in 1 .. Len(v) : v[j].sequence > b
  /\ \A i, j \in 1 .. Len(v) : i < j => v[i].sequence < v[j].sequence

(* The groups that end after x are those behind the first p messages. *)
LEMMA KeptBehind ==
  ASSUME NEW v \in Seq(Messages), v # <<>> => 1 \in Heads(v),
         NEW p, NEW b \in Nat, NEW x, EndsAt(v, p, b, x), InOrder(v, b),
         NEW j \in 1 .. Len(v)
  PROVE  EndOf(v, HeadOf(v, j)) > x <=> j > p
  <1> DEFINE h == HeadOf(v, j)
  <1>1. PICK f \in j .. Len(v) :
          /\ Span(v, h, f) /\ h =< j /\ EndOf(v, h) = v[f].sequence
    BY HeadSpan
  <1> HIDE DEF h
  <1>2. /\ Len(v) \in Nat /\ p \in 0 .. Len(v) /\ f \in 1 .. Len(v)
        /\ h \in 1 .. Len(v)
    <2>1. h \in 1 .. Len(v) /\ Len(v) \in Nat
      BY <1>1, SpanAnswers
    <2> QED BY <1>1, <2>1 DEF EndsAt
  <1>3. \A i \in 1 .. Len(v) : v[i].sequence \in Nat
    <2>1. \A i \in 1 .. Len(v) : v[i] \in Messages
      OBVIOUS
    <2> QED BY <2>1 DEF Messages
  <1>4. CASE j > p
    <2>1. v[f].sequence > x
      <3>1. CASE p = 0
        BY <1>2, <3>1 DEF EndsAt, InOrder
      <3>2. CASE p # 0
        <4>1. p \in 1 .. Len(v) /\ p > 0 /\ p < f
          BY <1>1, <1>2, <1>4, <3>2
        <4>2. v[p].sequence = x /\ v[p].sequence < v[f].sequence
          BY <1>2, <4>1 DEF EndsAt, InOrder
        <4>3. v[p].sequence \in Nat /\ v[f].sequence \in Nat
          BY <1>2, <1>3, <4>1
        <4> QED BY <4>2, <4>3
      <3> QED BY <3>1, <3>2
    <2> QED BY <1>1, <1>4, <2>1 DEF h
  <1>5. CASE ~(j > p)
    <2>1. p \in 1 .. Len(v) /\ p > 0 /\ j =< p
      BY <1>2, <1>5
    <2>2. f =< p
      <3>1. CASE p = Len(v)
        BY <1>2, <3>1
      <3>2. CASE p # Len(v)
        <4> DEFINE g == p + 1
        <4>1. g \in 1 .. Len(v) /\ p < Len(v) /\ g > h
          BY <1>1, <1>2, <2>1, <3>2
        <4>2. v[g].role # "tool"
          BY <4>1 DEF EndsAt
        <4> HIDE DEF g
        <4>3. g \in Heads(v)
          BY <4>1, <4>2 DEF Heads
        <4>4. f < g
          BY <1>1, <4>1, <4>3, SpanBefore
        <4> QED BY <1>2, <4>4 DEF g
      <3> QED BY <3>1, <3>2
    <2>3. v[p].sequence = x
      BY <2>1 DEF EndsAt
    <2>4. f = p \/ v[f].sequence < v[p].sequence
      BY <1>2, <2>1, <2>2 DEF InOrder
    <2>5. v[p].sequence \in Nat /\ v[f].sequence \in Nat
      BY <1>2, <1>3, <2>1
    <2>6. ~(v[f].sequence > x)
      BY <2>3, <2>4, <2>5
    <2> QED BY <1>1, <1>5, <2>6 DEF h
  <1> QED BY <1>4, <1>5

(* What a process would have sent is what it has behind the cutoff. *)
LEMMA ViewSuffix ==
  ASSUME NEW v \in Seq(Messages), v = WholeGroups(context),
         v # <<>> => 1 \in Heads(v), NEW p, NEW b \in Nat,
         EndsAt(v, p, b, Cutoff), InOrder(v, b)
  PROVE  View \in Seq(Messages) /\ Suffix(v, p, View)
  <1> DEFINE x == Cutoff
             c == Len(v)
             kept == {j \in DOMAIN v : EndOf(v, HeadOf(v, j)) > x}
             K == (p + 1) .. c
  <1>1. /\ c \in Nat /\ DOMAIN v = 1 .. c /\ p \in 0 .. c /\ p \in Nat
        /\ p =< c
    BY DEF EndsAt
  <1>2. kept = K
    <2>1. \A j \in 1 .. c : EndOf(v, HeadOf(v, j)) > x <=> j > p
      BY KeptBehind
    <2>2. kept = {j \in 1 .. c : j > p}
      BY <1>1, <2>1
    <2> HIDE DEF kept
    <2>3. {j \in 1 .. c : j > p} = K
      <3> HIDE DEF c
      <3> QED BY <1>1
    <2> QED BY <2>2, <2>3
  <1>3. Cardinality(K) = c - p
    <2> HIDE DEF c
    <2> QED BY <1>1, Between
  <1>4. View = [n \in 1 .. Cardinality(kept) |-> v[Nth(kept, n)]]
    BY DEF View
  <1> HIDE DEF kept, K
  <1>5. View = [n \in 1 .. (c - p) |-> v[Nth(K, n)]]
    BY <1>2, <1>3, <1>4
  <1>6. \A n \in 1 .. (c - p) : Nth(K, n) = p + n /\ p + n \in 1 .. c
    <2> HIDE DEF c
    <2> TAKE n \in 1 .. (c - p)
    <2>1. Nth(K, n) = p + n
      BY <1>1, NthBetween DEF K
    <2> QED BY <1>1, <2>1
  <1>7. \A n \in 1 .. (c - p) : v[Nth(K, n)] \in Messages
    <2> TAKE n \in 1 .. (c - p)
    <2>1. Nth(K, n) \in 1 .. c
      BY <1>6
    <2> QED BY <2>1
  <1> DEFINE d == c - p
  <1>8. d \in Nat
    BY <1>1
  <1>9. /\ View = [n \in 1 .. d |-> v[Nth(K, n)]]
        /\ \A n \in 1 .. d : v[Nth(K, n)] \in Messages
    BY <1>5, <1>7
  <1>10. \A n \in 1 .. d : Nth(K, n) = p + n
    BY <1>6
  <1> HIDE DEF d, View
  <1>11. View \in Seq(Messages) /\ Len(View) = d
    BY <1>8, <1>9
  <1>12. \A n \in 1 .. d : View[n] = v[p + n]
    BY <1>9, <1>10
  <1> QED BY <1>1, <1>11, <1>12 DEF Suffix, d, c

(* Where the whole groups end. *)
LEMMA DroppedAt ==
  ASSUME NEW s \in Seq(Messages), NEW n, n \in 0 .. Len(s),
         \A k \in Heads(s) : Whole(s, k) \/ Span(s, k, Len(s)),
         \/ n = Len(s) /\ \A k \in Heads(s) : Whole(s, k)
         \/ n + 1 \in Heads(s) /\ ~Whole(s, n + 1)
  PROVE  FirstOf(s, WholeGroups(s), n) /\ WholeGroups(s) \in Seq(Messages)
  <1> DEFINE w == WholeGroups(s)
  <1>1. /\ w \in Seq(Messages)
        /\ \A k \in Heads(w) : Whole(w, k)
    BY Dropped
  <1>2. PICK m \in 0 .. Len(s) :
          /\ FirstOf(s, w, m)
          /\ m = Len(s) \/ (Span(s, m + 1, Len(s)) /\ ~Whole(s, m + 1))
    BY Dropped
  <1> HIDE DEF w
  <1>3. Len(s) \in Nat /\ n \in Nat /\ m \in Nat
    OBVIOUS
  <1>4. CASE n = Len(s) /\ \A k \in Heads(s) : Whole(s, k)
    <2>1. m = Len(s)
      <3> SUFFICES ASSUME Span(s, m + 1, Len(s)), ~Whole(s, m + 1)
                   PROVE  FALSE
        BY <1>2
      <3> QED BY <1>4 DEF Span
    <2> QED BY <1>1, <1>2, <1>4, <2>1 DEF w
  <1>5. CASE n + 1 \in Heads(s) /\ ~Whole(s, n + 1)
    <2> DEFINE k == n + 1
               i == m + 1
    <2>1. k \in Heads(s) /\ ~Whole(s, k) /\ k \in 1 .. Len(s)
      BY <1>3, <1>5 DEF Heads
    <2>2. Span(s, k, Len(s))
      BY <2>1
    <2>3. m # Len(s)
      <3> SUFFICES ASSUME m = Len(s) PROVE FALSE
        OBVIOUS
      <3> HIDE DEF k
      <3>1. Len(w) = Len(s) /\ w[k] = s[k]
        BY <1>2, <2>1 DEF FirstOf
      <3>2. k \in Heads(w)
        BY <1>1, <2>1, <3>1 DEF Heads
      <3>3. WholeIn(log, w, k) <=> WholeIn(log, s, k)
        BY <1>1, <1>2, <3>2, FirstGroups
      <3>4. WholeIn(log, w, k)
        BY <1>1, <3>2, WholeSame
      <3> QED BY <2>1, <3>3, <3>4, WholeSame
    <2>4. Span(s, i, Len(s))
      BY <1>2, <2>3
    <2> HIDE DEF k, i
    <2>5. k = i
      BY <2>2, <2>4, SpanLast
    <2>6. n = m
      BY <1>3, <2>5 DEF k, i
    <2> QED BY <1>1, <1>2, <2>6 DEF w
  <1> QED BY <1>4, <1>5

(* How a suffix loses its incomplete group. *)
LEMMA SuffixDropped ==
  ASSUME NEW s \in Seq(Messages), NEW t \in Seq(Messages), NEW p,
         Suffix(s, p, t), NEW n, n \in p .. Len(s),
         \A k \in Heads(s) : Whole(s, k) \/ Span(s, k, Len(s)),
         \/ n = Len(s) /\ \A k \in Heads(s) : Whole(s, k)
         \/ n + 1 \in Heads(s) /\ ~Whole(s, n + 1)
  PROVE  /\ FirstOf(t, WholeGroups(t), n - p)
         /\ WholeGroups(t) \in Seq(Messages)
  <1>1. /\ Len(s) \in Nat /\ Len(t) \in Nat /\ p \in Nat /\ n \in Nat
        /\ Len(s) = p + Len(t) /\ n - p \in 0 .. Len(t)
        /\ \A j \in 1 .. Len(t) : t[j] = s[p + j]
    BY DEF Suffix
  <1>2. ASSUME NEW k \in Heads(t)
        PROVE  /\ p + k \in Heads(s)
               /\ Whole(t, k) <=> Whole(s, p + k)
               /\ Span(s, p + k, Len(s)) => Span(t, k, Len(t))
    <2>1. /\ p + k \in Heads(s)
          /\ WholeIn(log, t, k) <=> WholeIn(log, s, p + k)
          /\ Span(s, p + k, Len(s)) => Span(t, k, Len(t))
      BY SuffixGroup
    <2> QED BY <2>1, WholeSame
  <1>3. \A k \in Heads(t) : Whole(t, k) \/ Span(t, k, Len(t))
    BY <1>2
  <1> DEFINE m == n - p
  <1>4. CASE n = Len(s) /\ \A k \in Heads(s) : Whole(s, k)
    <2>1. m = Len(t)
      BY <1>1, <1>4
    <2>2. \A k \in Heads(t) : Whole(t, k)
      BY <1>2, <1>4
    <2>3. m \in 0 .. Len(t)
      BY <1>1
    <2> HIDE DEF m
    <2>4. FirstOf(t, WholeGroups(t), m) /\ WholeGroups(t) \in Seq(Messages)
      BY <1>3, <2>1, <2>2, <2>3, DroppedAt
    <2> QED BY <2>4 DEF m
  <1>5. CASE n + 1 \in Heads(s) /\ ~Whole(s, n + 1)
    <2> DEFINE k == m + 1
    <2>1. n + 1 \in 1 .. Len(s)
      BY <1>1, <1>5 DEF Heads
    <2>2. k \in 1 .. Len(t) /\ p + k = n + 1 /\ m \in 0 .. Len(t)
      BY <1>1, <2>1
    <2> HIDE DEF k
    <2>3. t[k].role # "tool"
      <3>1. t[k] = s[n + 1]
        BY <1>1, <2>2
      <3> QED BY <1>5, <3>1 DEF Heads
    <2>4. k \in Heads(t)
      BY <1>1, <2>2, <2>3 DEF Heads
    <2>5. ~Whole(t, k)
      BY <1>2, <1>5, <2>2, <2>4
    <2>6. m + 1 \in Heads(t) /\ ~Whole(t, m + 1)
      BY <2>4, <2>5 DEF k
    <2> HIDE DEF m
    <2>7. FirstOf(t, WholeGroups(t), m) /\ WholeGroups(t) \in Seq(Messages)
      BY <1>3, <2>2, <2>6, DroppedAt
    <2> QED BY <2>7 DEF m
  <1> QED BY <1>4, <1>5

(* The messages of an earlier life that a life has not kept are behind the *)
(* cutoff only if they are the last ones.                                  *)
LEMMA LostLast ==
  ASSUME NEW s \in Seq(Messages), NEW t \in Seq(Messages), NEW p \in Nat,
         Suffix(s, p, t), Groupable(t), NEW q \in Nat, NEW w \in Nat,
         p =< q, w > 0, Span(s, q + 1, q + w), ~WholeIn(log, s, q + 1)
  PROVE  /\ q + w = Len(s) /\ q - p \in 0 .. Len(t)
         /\ FirstOf(t, WholeGroups(t), q - p)
         /\ WholeGroups(t) \in Seq(Messages)
  <1> DEFINE i == q + 1
             e == q + w
             m == q - p
             k == m + 1
  <1>1. /\ Len(s) \in Nat /\ Len(t) \in Nat /\ Len(s) = p + Len(t)
        /\ \A j \in 1 .. Len(t) : t[j] = s[p + j]
    BY DEF Suffix
  <1>2. /\ i \in 1 .. Len(s) /\ s[i].role # "tool" /\ e \in i .. Len(s)
        /\ Span(s, i, e)
    BY DEF Span, Heads
  <1>3. k \in 1 .. Len(t) /\ p + k = i /\ m \in 0 .. Len(t) /\ m \in Nat
    BY <1>1, <1>2
  <1> HIDE DEF i, e, k
  <1>4. k \in Heads(t)
    <2>1. t[k] = s[i]
      BY <1>1, <1>3
    <2> QED BY <1>1, <1>2, <1>3, <2>1 DEF Heads
  <1>5. /\ WholeIn(log, t, k) <=> WholeIn(log, s, i)
        /\ \E f \in i .. Len(s) : Span(s, i, f) /\ Span(t, k, f - p)
    BY <1>3, <1>4, SuffixGroup
  <1>6. ~Whole(t, k)
    BY <1>4, <1>5, WholeSame DEF i
  <1>7. Span(t, k, Len(t))
    BY <1>4, <1>6, OpenSpan DEF Groupable
  <1>8. e = Len(s)
    <2>1. PICK f \in i .. Len(s) : Span(s, i, f) /\ Span(t, k, f - p)
      BY <1>5
    <2>2. f - i = e - i
      BY <1>2, <2>1, SpanAnswers
    <2>3. (f - p) - k = Len(t) - k
      BY <1>7, <2>1, SpanAnswers
    <2> QED BY <1>1, <1>2, <1>3, <2>1, <2>2, <2>3
  <1>9. \A j \in Heads(t) : Whole(t, j) \/ Span(t, j, Len(t))
    BY OpenSpan DEF Groupable
  <1>10. m + 1 \in Heads(t) /\ ~Whole(t, m + 1)
    BY <1>4, <1>6 DEF k
  <1> HIDE DEF m
  <1>11. FirstOf(t, WholeGroups(t), m) /\ WholeGroups(t) \in Seq(Messages)
    BY <1>3, <1>9, <1>10, DroppedAt
  <1> QED BY <1>3, <1>8, <1>11 DEF m, e

(* A new life takes up the view of the one before. *)
LEMMA ViewRestored ==
  ASSUME TypeOK, cut \in [covered : Nat, degraded : Nat], ContextInv,
         NEW b, NEW q, NEW w,
         LifeIn(log, context, head, issued, b, q, w),
         CutIn(context, cut, b), Groupable(Recorded)
  PROVE  WholeGroups(Recorded) = View
  <1> DEFINE F == Tale(log, b)
             R == Recorded
             v == WholeGroups(context)
             u == WholeGroups(R)
             c == Len(context)
  <1>1. /\ context \in Seq(Messages) /\ c \in Nat /\ log \in Seq(Events)
        /\ head \in Nat /\ issued \in Nat /\ b \in Nat /\ Len(log) \in Nat
        /\ Retells(context, F, q, w) /\ Lost(log, F, q, w, head, issued)
        /\ GroupsIn(log, context, head, issued)
    BY DEF TypeOK, LifeIn, ContextInv
  <1>2. F \in Seq(Messages) /\ R \in Seq(Messages)
    <2>1. R = Tale(log, Cutoff)
      BY RecordedTale
    <2> HIDE DEF F, R
    <2> QED BY <1>1, <2>1, TaleType DEF F
  <1>3. \A k \in Heads(context) :
          Whole(context, k) \/ Span(context, k, Len(context))
    BY <1>1, WholeSame DEF GroupsIn, Opened
  <1>4. /\ v \in Seq(Messages)
        /\ \A k \in Heads(v) : Whole(v, k)
    BY <1>1, <1>3, Dropped
  <1>5. PICK n \in 0 .. c :
          /\ FirstOf(context, v, n)
          /\ n = c \/ (Span(context, n + 1, c) /\ ~Whole(context, n + 1))
    BY <1>1, <1>3, Dropped
  <1>6. PICK p \in 0 .. c :
          /\ CutAfter(context, p, b, Cutoff)
          /\ Suffix(F, Place(p, q, w), R)
    BY RecordedBehind
  <1> HIDE DEF F, R, v, u
  <1>7. /\ Len(v) = n /\ n \in Nat /\ n =< c /\ p \in Nat
        /\ \A j \in 1 .. n : v[j] = context[j] /\ j \in 1 .. c
    BY <1>1, <1>5 DEF FirstOf
  <1>8. p =< n
    <2> SUFFICES ASSUME p > n PROVE FALSE
      BY <1>7
    <2>1. p > 0 /\ n # c
      BY <1>1, <1>7
    <2>2. p < c /\ context[p + 1].role # "tool"
      BY <1>6, <2>1 DEF CutAfter
    <2>3. \A j \in ((n + 1) + 1) .. c : context[j].role = "tool"
      BY <1>5, <2>1 DEF Span
    <2>4. p + 1 \in ((n + 1) + 1) .. c
      BY <1>1, <1>7, <2>2
    <2> QED BY <2>2, <2>3, <2>4
  <1>9. context # <<>> => context[1].role # "tool"
    BY <1>1 DEF GroupsIn, Heads
  <1>10. v # <<>> => 1 \in Heads(v)
    <2> SUFFICES ASSUME v # <<>> PROVE v[1].role # "tool" /\ 1 \in DOMAIN v
      BY DEF Heads
    <2>1. 1 \in 1 .. n /\ 1 \in DOMAIN v
      BY <1>4, <1>7
    <2>2. context # <<>>
      BY <1>1, <1>7, <2>1
    <2> QED BY <1>7, <1>9, <2>1, <2>2
  <1>11. InOrder(v, b)
    <2>1. /\ \A j \in 1 .. c : context[j].sequence > b
          /\ \A i, j \in 1 .. c :
               i < j => context[i].sequence < context[j].sequence
      BY <1>1, LifeRises
    <2> HIDE DEF c
    <2> QED BY <1>7, <2>1 DEF InOrder
  <1>12. EndsAt(v, p, b, Cutoff)
    <2>1. p \in 0 .. Len(v)
      BY <1>7, <1>8
    <2>2. p = 0 => Cutoff = b
      BY <1>6 DEF CutAfter
    <2>3. p > 0 => v[p].sequence = Cutoff
      <3> SUFFICES ASSUME p > 0 PROVE v[p].sequence = Cutoff
        OBVIOUS
      <3>1. p \in 1 .. n
        BY <1>7, <1>8
      <3> QED BY <1>6, <1>7, <3>1 DEF CutAfter
    <2>4. p < Len(v) => v[p + 1].role # "tool"
      <3> SUFFICES ASSUME p < n PROVE v[p + 1].role # "tool"
        BY <1>7
      <3> DEFINE i == p + 1
      <3>1. i \in 1 .. n
        BY <1>7
      <3>2. v[i] = context[i]
        BY <1>7, <3>1
      <3>3. CASE p = 0
        <4>1. context # <<>> /\ i = 1
          BY <1>1, <1>7, <3>3
        <4> QED BY <1>9, <3>2, <4>1
      <3>4. CASE p # 0
        <4>1. p > 0
          BY <1>7, <3>4
        <4> QED BY <1>6, <3>2, <4>1 DEF CutAfter
      <3> QED BY <3>3, <3>4
    <2> QED BY <2>1, <2>2, <2>3, <2>4 DEF EndsAt
  <1>13. View \in Seq(Messages) /\ Suffix(v, p, View)
    BY <1>1, <1>4, <1>10, <1>11, <1>12, ViewSuffix DEF v
  <1> HIDE DEF View
  <1> DEFINE d == n - p
  <1>14. d \in Nat /\ Len(View) = d
    <2>1. Len(View) = n - p
      BY <1>7, <1>13 DEF Suffix
    <2> QED BY <1>7, <1>8, <2>1
  <1>15. \A j \in 1 .. d : View[j] = context[p + j]
    <2> TAKE j \in 1 .. d
    <2> DEFINE i == p + j
    <2>1. i \in 1 .. n /\ j \in 1 .. Len(View)
      BY <1>7, <1>14
    <2> HIDE DEF d
    <2>2. View[j] = v[i]
      BY <1>13, <2>1 DEF Suffix
    <2> HIDE DEF i
    <2>3. v[i] = context[i]
      BY <1>7, <2>1
    <2> QED BY <2>2, <2>3 DEF i
  <1>16. /\ q \in 0 .. c /\ w \in Nat /\ Len(F) = c + w /\ q \in Nat
         /\ \A j \in 1 .. q : context[j] = F[j]
         /\ \A j \in (q + 1) .. c : context[j] = F[j + w]
    BY <1>1 DEF Retells
  <1>17. /\ u \in Seq(Messages) /\ FirstOf(R, u, d)
         /\ \A j \in 1 .. d : R[j] = context[p + j]
    <2>1. CASE p > q \/ w = 0
      <3> DEFINE r == Place(p, q, w)
      <3>1. r = p + w
        BY <1>7, <1>16, <2>1 DEF Place
      <3>2. Len(R) = Len(F) - r /\ \A j \in 1 .. Len(R) : R[j] = F[r + j]
        BY <1>6 DEF Suffix
      <3> HIDE DEF r
      <3>3. Len(R) = c - p
        BY <1>7, <1>16, <3>1, <3>2
      <3>4. \A j \in 1 .. Len(R) : R[j] = context[p + j]
        <4> TAKE j \in 1 .. Len(R)
        <4> DEFINE i == p + j
        <4>1. /\ i \in 1 .. c /\ r + j = i + w
              /\ i \in (q + 1) .. c \/ (w = 0 /\ i \in 1 .. q /\ r + j = i)
          BY <1>1, <1>7, <1>16, <2>1, <3>1, <3>3
        <4>2. R[j] = F[r + j]
          BY <3>2
        <4> HIDE DEF i
        <4>3. context[i] = F[r + j]
          BY <1>16, <4>1
        <4> QED BY <4>2, <4>3 DEF i
      <3>5. Suffix(context, p, R)
        BY <3>3, <3>4 DEF Suffix
      <3>6. n \in p .. Len(context)
        BY <1>1, <1>7, <1>8
      <3>7. \/ n = c /\ \A k \in Heads(context) : Whole(context, k)
            \/ n + 1 \in Heads(context) /\ ~Whole(context, n + 1)
        <4>1. CASE n = c
          <5>1. ASSUME NEW k \in Heads(context)
                PROVE  Whole(context, k)
            <6>1. k \in 1 .. n /\ context[k].role # "tool"
              BY <1>1, <4>1 DEF Heads
            <6>2. k \in Heads(v)
              BY <1>4, <1>7, <6>1 DEF Heads
            <6>3. WholeIn(log, v, k) <=> WholeIn(log, context, k)
              BY <1>1, <1>4, <1>5, <6>2, FirstGroups
            <6> QED BY <1>4, <6>2, <6>3, WholeSame
          <5> QED BY <4>1, <5>1
        <4>2. CASE n # c
          BY <1>5, <4>2 DEF Span
        <4> QED BY <4>1, <4>2
      <3>8. FirstOf(R, u, d) /\ u \in Seq(Messages)
        BY <1>1, <1>2, <1>3, <3>5, <3>6, <3>7, SuffixDropped DEF u
      <3>9. \A j \in 1 .. d : j \in 1 .. Len(R)
        BY <1>1, <1>7, <1>8, <3>3
      <3> QED BY <3>4, <3>8, <3>9
    <2>2. CASE ~(p > q \/ w = 0)
      <3>1. p =< q /\ w > 0 /\ Place(p, q, w) = p
        BY <1>7, <1>16, <2>2 DEF Place
      <3>2. Suffix(F, p, R)
        BY <1>6, <3>1
      <3>3. /\ Span(F, q + 1, q + w) /\ ~WholeIn(log, F, q + 1)
            /\ q + w = Len(F) => head > issued
        BY <1>1, <3>1 DEF Lost
      <3>4. /\ q + w = Len(F) /\ q - p \in 0 .. Len(R)
            /\ FirstOf(R, u, q - p) /\ u \in Seq(Messages)
        BY <1>2, <1>7, <1>16, <3>1, <3>2, <3>3, LostLast DEF R, u
      <3>5. head > issued /\ c = q
        BY <1>1, <1>16, <3>3, <3>4
      <3>6. n = c
        <4> SUFFICES ASSUME Span(context, n + 1, c), ~Whole(context, n + 1)
                     PROVE  FALSE
          BY <1>5
        <4>1. n + 1 \in Heads(context)
          BY DEF Span
        <4>2. ~(head =< issued)
          BY <1>1, <3>5
        <4>3. WholeIn(log, context, n + 1)
          BY <1>1, <4>1, <4>2 DEF GroupsIn
        <4> QED BY <4>1, <4>3, WholeSame
      <3>7. d = q - p
        BY <3>5, <3>6
      <3>8. \A j \in 1 .. d : R[j] = context[p + j]
        <4> TAKE j \in 1 .. d
        <4> DEFINE i == p + j
        <4>1. i \in 1 .. q /\ j \in 1 .. Len(R)
          <5>1. p \in Nat /\ q \in Nat /\ j \in 1 .. (q - p)
            BY <1>7, <1>16, <3>7
          <5> QED BY ONLY <3>4, <5>1
        <4>2. R[j] = F[i]
          BY <3>2, <4>1 DEF Suffix
        <4> HIDE DEF i
        <4>3. context[i] = F[i]
          BY <1>16, <4>1
        <4> QED BY <4>2, <4>3 DEF i
      <3> QED BY <3>4, <3>7, <3>8
    <2> QED BY <2>1, <2>2
  <1> HIDE DEF d
  <1>18. Len(u) = d /\ \A j \in 1 .. d : u[j] = View[j]
    BY <1>15, <1>17 DEF FirstOf
  <1>19. u = View
    BY <1>13, <1>14, <1>17, <1>18, SeqEqual
  <1> QED BY <1>19 DEF u, R

(***************************************************************************)
(* Whatever ended a process, and however often that has happened, the next *)
(* one continues with what this one would have sent to the model.          *)
(***************************************************************************)
THEOREM ViewSurvives == RecoverySpec => ResumeRestoresView
  <1>1. /\ LivesInv /\ RecoveryTypeOK /\ ContextInv /\ LifeInv
        /\ [RecoveryNext]_sessionVars
        => [~alive /\ alive' => context' = View]_sessionVars
    <2> SUFFICES ASSUME LivesInv, RecoveryTypeOK, ContextInv, LifeInv,
                        RecoveryNext, ~alive, alive'
                 PROVE  context' = View
      OBVIOUS
    <2>1. Resume
      BY DEF RecoveryNext, Run, Crash
    <2>2. context' = WholeGroups(Recorded) /\ Groupable(Recorded)
      BY <2>1 DEF Resume, Resumable
    <2>3. PICK b \in 0 .. Len(log), q \in 0 .. Len(context), w \in Nat :
            /\ LifeIn(log, context, head, issued, b, q, w)
            /\ CutIn(context, cut, b)
      BY DEF LifeInv
    <2>4. WholeGroups(Recorded) = View
      BY <2>2, <2>3, ViewRestored DEF LivesInv, RecoveryTypeOK
    <2> QED BY <2>2, <2>4
  <1> QED
    BY <1>1, LivesInvariant, RecoveryTypeCorrect, ContextInvariant,
       LifeInvariant, PTL DEF RecoverySpec, ResumeRestoresView
=============================================================================

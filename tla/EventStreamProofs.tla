------------------------- MODULE EventStreamProofs -------------------------
(***************************************************************************)
(* Proofs about EventStream: what is on its way to a client is in order,   *)
(* has no gap and continues what the client has applied, for any number of *)
(* events, connections and attempts.                                       *)
(***************************************************************************)
EXTENDS EventStream, SequenceTheorems, TLAPS

-----------------------------------------------------------------------------
(* Frames and markers as sequences of numbers.                             *)

(* The last event of w, if it has one, is n. *)
Upto(w, n) ==
  /\ \A i \in Events(w) : w[i] =< n
  /\ Events(w) # {} => \E i \in Events(w) : w[i] = n

(* The events after low, up to high, are all in w. *)
Holds(w, low, high) ==
  \A e \in (low + 1) .. high : \E k \in Events(w) : w[k] = e

(* w is a run of events after low that are not beyond high. *)
Orderly(w, low, high) ==
  /\ InOrder(w) /\ Gapless(w)
  /\ \A i \in Events(w) : w[i] > low /\ w[i] =< high

LEMMA EmptyRun ==
  ASSUME NEW low \in Nat, NEW high \in Nat
  PROVE  /\ Orderly(<<>>, low, high) /\ Upto(<<>>, high)
         /\ Continues(<<>>, low)
<1>1. Events(<<>>) = {}
  BY DEF Events
<1> QED
  BY <1>1 DEF Orderly, InOrder, Gapless, Upto, Continues

(* The positions of a sequence that others follow, or that follows others. *)
LEMMA EventsOfConcat ==
  ASSUME NEW a \in Seq(Nat), NEW b \in Seq(Nat)
  PROVE  /\ a \o b \in Seq(Nat) /\ Len(a) \in Nat
         /\ \A i \in Events(a) :
              i \in Events(a \o b) /\ (a \o b)[i] = a[i] /\ i \in 1 .. Len(a)
         /\ \A i \in Events(b) :
              /\ Len(a) + i \in Events(a \o b)
              /\ (a \o b)[Len(a) + i] = b[i] /\ i \in Nat /\ i > 0
         /\ \A k \in Events(a \o b) :
              /\ k \in Nat
              /\ k =< Len(a) => k \in Events(a)
              /\ k > Len(a) => k - Len(a) \in Events(b)
<1>1. /\ a \o b \in Seq(Nat) /\ Len(a \o b) = Len(a) + Len(b)
      /\ \A i \in 1 .. Len(a) + Len(b) :
           (a \o b)[i] = IF i <= Len(a) THEN a[i] ELSE b[i - Len(a)]
  BY ConcatProperties
<1>2. /\ Len(a) \in Nat /\ DOMAIN a = 1 .. Len(a)
      /\ Len(b) \in Nat /\ DOMAIN b = 1 .. Len(b)
      /\ DOMAIN (a \o b) = 1 .. Len(a) + Len(b)
  BY <1>1, LenProperties
<1>3. ASSUME NEW i \in Events(a)
      PROVE  i \in Events(a \o b) /\ (a \o b)[i] = a[i] /\ i \in 1 .. Len(a)
  BY <1>1, <1>2 DEF Events
<1>4. ASSUME NEW i \in Events(b)
      PROVE  /\ Len(a) + i \in Events(a \o b)
             /\ (a \o b)[Len(a) + i] = b[i] /\ i \in Nat /\ i > 0
  <2>1. i \in 1 .. Len(b) /\ b[i] # Done
    BY <1>2 DEF Events
  <2>2. /\ Len(a) + i \in 1 .. Len(a) + Len(b) /\ ~(Len(a) + i <= Len(a))
        /\ (Len(a) + i) - Len(a) = i
    BY <1>2, <2>1
  <2>3. (a \o b)[Len(a) + i] = b[i]
    BY <1>1, <2>2
  <2> QED
    BY <1>2, <2>1, <2>2, <2>3 DEF Events
<1>5. ASSUME NEW k \in Events(a \o b)
      PROVE  /\ k \in Nat
             /\ k =< Len(a) => k \in Events(a)
             /\ k > Len(a) => k - Len(a) \in Events(b)
  <2>1. k \in 1 .. Len(a) + Len(b) /\ (a \o b)[k] # Done
    BY <1>2 DEF Events
  <2> QED
    BY <1>1, <1>2, <2>1 DEF Events
<1> QED
  BY <1>1, <1>2, <1>3, <1>4, <1>5

(* The events of a sequence are numbers. *)
LEMMA EventNumbers ==
  ASSUME NEW w \in Seq(Nat)
  PROVE  \A i \in Events(w) : i \in Nat /\ w[i] \in Nat
BY LenProperties DEF Events

(* What is left of a run when its beginning is taken away. *)
LEMMA RunSuffix ==
  ASSUME NEW a \in Seq(Nat), NEW b \in Seq(Nat),
         NEW low \in Nat, NEW high \in Nat, Orderly(a \o b, low, high)
  PROVE  /\ Orderly(b, low, high)
         /\ \A n \in Nat : Upto(a \o b, n) => Upto(b, n)
<1> DEFINE w == a \o b
<1>1. /\ w \in Seq(Nat) /\ Len(a) \in Nat
      /\ \A i \in Events(b) :
           /\ Len(a) + i \in Events(w) /\ w[Len(a) + i] = b[i]
           /\ i \in Nat /\ i > 0
      /\ \A k \in Events(w) :
           k \in Nat /\ (k > Len(a) => k - Len(a) \in Events(b))
  BY EventsOfConcat
<1>2. /\ \A i \in Events(w) : w[i] \in Nat
      /\ \A i \in Events(b) : b[i] \in Nat
  BY <1>1, EventNumbers
<1>3. /\ InOrder(w) /\ Gapless(w)
      /\ \A i \in Events(w) : w[i] > low /\ w[i] =< high
  BY DEF Orderly
<1> HIDE DEF w
<1>4. InOrder(b)
  <2> SUFFICES ASSUME NEW i \in Events(b), NEW j \in Events(b), i < j
               PROVE  b[i] < b[j]
    BY DEF InOrder
  <2>1. Len(a) + i < Len(a) + j
    BY <1>1
  <2> QED
    BY <1>1, <1>3, <2>1 DEF InOrder
(* What is in w from one event of b on is in b. *)
<1>5. ASSUME NEW i \in Events(b), NEW k \in Events(w), w[k] >= b[i]
      PROVE  k - Len(a) \in Events(b) /\ b[k - Len(a)] = w[k]
  <2>1. k >= Len(a) + i
    <3>1. k < Len(a) + i => w[k] < w[Len(a) + i]
      BY <1>1, <1>3 DEF InOrder
    <3> QED
      BY <1>1, <1>2, <1>5, <3>1
  <2>2. k > Len(a) /\ Len(a) + (k - Len(a)) = k
    BY <1>1, <2>1
  <2> QED
    BY <1>1, <2>2
<1>6. Gapless(b)
  <2> SUFFICES ASSUME NEW i \in Events(b), NEW j \in Events(b),
                      NEW e \in b[i] .. b[j]
               PROVE  \E k \in Events(b) : b[k] = e
    BY DEF Gapless
  <2>1. PICK k \in Events(w) : w[k] = e
    <3>1. /\ Len(a) + i \in Events(w) /\ w[Len(a) + i] = b[i]
          /\ Len(a) + j \in Events(w) /\ w[Len(a) + j] = b[j]
      BY <1>1
    <3> QED
      BY <1>3, <3>1 DEF Gapless
  <2>2. w[k] >= b[i]
    BY <1>2, <2>1
  <2> QED
    BY <1>5, <2>1, <2>2
<1>7. Orderly(b, low, high)
  BY <1>1, <1>3, <1>4, <1>6 DEF Orderly
<1>8. ASSUME NEW n \in Nat, Upto(w, n)
      PROVE  Upto(b, n)
  <2>1. \A i \in Events(b) : b[i] =< n
    BY <1>1, <1>8 DEF Upto
  <2>2. ASSUME NEW i \in Events(b)
        PROVE  \E k \in Events(b) : b[k] = n
    <3>1. PICK k \in Events(w) : w[k] = n
      BY <1>1, <1>8 DEF Upto
    <3>2. w[k] >= b[i]
      BY <1>2, <2>1, <3>1
    <3> QED
      BY <1>5, <3>1, <3>2
  <2> QED
    BY <2>1, <2>2 DEF Upto
<1> QED
  BY <1>7, <1>8 DEF w

(* What is left of a run when its end is taken away. *)
LEMMA RunPrefix ==
  ASSUME NEW a \in Seq(Nat), NEW b \in Seq(Nat),
         NEW low \in Nat, NEW high \in Nat, Orderly(a \o b, low, high)
  PROVE  /\ Orderly(a, low, high)
         /\ \A n \in Nat : Continues(a \o b, n) => Continues(a, n)
<1> DEFINE w == a \o b
<1>1. /\ w \in Seq(Nat) /\ Len(a) \in Nat
      /\ \A i \in Events(a) :
           i \in Events(w) /\ w[i] = a[i] /\ i \in 1 .. Len(a)
      /\ \A k \in Events(w) :
           k \in Nat /\ (k =< Len(a) => k \in Events(a))
  BY EventsOfConcat
<1>2. /\ \A i \in Events(w) : w[i] \in Nat
      /\ \A i \in Events(a) : a[i] \in Nat
  BY <1>1, EventNumbers
<1>3. /\ InOrder(w) /\ Gapless(w)
      /\ \A i \in Events(w) : w[i] > low /\ w[i] =< high
  BY DEF Orderly
<1> HIDE DEF w
<1>4. InOrder(a)
  BY <1>1, <1>3 DEF InOrder
(* What is in w up to an event of a is in a. *)
<1>5. ASSUME NEW j \in Events(a), NEW k \in Events(w), w[k] =< a[j]
      PROVE  k \in Events(a) /\ a[k] = w[k]
  <2>1. k =< j
    <3>1. j < k => w[j] < w[k]
      BY <1>1, <1>3 DEF InOrder
    <3> QED
      BY <1>1, <1>2, <1>5, <3>1
  <2> QED
    BY <1>1, <2>1
<1>6. Gapless(a)
  <2> SUFFICES ASSUME NEW i \in Events(a), NEW j \in Events(a),
                      NEW e \in a[i] .. a[j]
               PROVE  \E k \in Events(a) : a[k] = e
    BY DEF Gapless
  <2>1. PICK k \in Events(w) : w[k] = e
    BY <1>1, <1>3 DEF Gapless
  <2>2. w[k] =< a[j]
    BY <1>2, <2>1
  <2> QED
    BY <1>5, <2>1, <2>2
<1>7. Orderly(a, low, high)
  BY <1>1, <1>3, <1>4, <1>6 DEF Orderly
<1>8. ASSUME NEW n \in Nat, Continues(w, n)
      PROVE  Continues(a, n)
  <2> SUFFICES ASSUME NEW j \in Events(a)
               PROVE  /\ a[j] > n
                      /\ \A e \in (n + 1) .. a[j] :
                           \E k \in Events(a) : a[k] = e
    BY DEF Continues
  <2>1. a[j] > n
    BY <1>1, <1>8 DEF Continues
  <2>2. ASSUME NEW e \in (n + 1) .. a[j]
        PROVE  \E k \in Events(a) : a[k] = e
    <3>1. PICK k \in Events(w) : w[k] = e
      BY <1>1, <1>8 DEF Continues
    <3>2. w[k] =< a[j]
      BY <1>2, <3>1
    <3> QED
      BY <1>5, <3>1, <3>2
  <2> QED
    BY <2>1, <2>2
<1> QED
  BY <1>7, <1>8 DEF w

(* The marker of the end is no event. *)
LEMMA MarkerAppended ==
  ASSUME NEW w \in Seq(Nat)
  PROVE  /\ Append(w, Done) \in Seq(Nat)
         /\ Events(Append(w, Done)) = Events(w)
         /\ \A i \in Events(w) : Append(w, Done)[i] = w[i]
<1>1. /\ Append(w, Done) \in Seq(Nat) /\ Len(Append(w, Done)) = Len(w) + 1
      /\ \A i \in 1 .. Len(w) : Append(w, Done)[i] = w[i]
      /\ Append(w, Done)[Len(w) + 1] = Done
  BY AppendProperties DEF Done
<1>2. /\ Len(w) \in Nat /\ DOMAIN w = 1 .. Len(w)
      /\ DOMAIN Append(w, Done) = 1 .. Len(w) + 1
  BY <1>1, LenProperties
<1> QED
  BY <1>1, <1>2 DEF Events

(* Sequences with the same events in the same places are equally orderly.  *)
LEMMA SameEvents ==
  ASSUME NEW w, NEW v, Events(v) = Events(w),
         \A i \in Events(w) : v[i] = w[i]
  PROVE  /\ \A low, high : Orderly(w, low, high) => Orderly(v, low, high)
         /\ \A n : Upto(w, n) => Upto(v, n)
         /\ \A n : Continues(w, n) => Continues(v, n)
         /\ \A low, high : Holds(w, low, high) => Holds(v, low, high)
<1>1. InOrder(w) => InOrder(v)
  BY DEF InOrder
<1>2. Gapless(w) => Gapless(v)
  BY DEF Gapless
<1> QED
  BY <1>1, <1>2 DEF Orderly, Upto, Continues, Holds

(* The next event at the end of a run. *)
LEMMA NextAppended ==
  ASSUME NEW w \in Seq(Nat), NEW low \in Nat, NEW n \in Nat,
         Orderly(w, low, n), Upto(w, n), low =< n
  PROVE  /\ Append(w, n + 1) \in Seq(Nat)
         /\ Orderly(Append(w, n + 1), low, n + 1)
         /\ Upto(Append(w, n + 1), n + 1)
         /\ \A c \in Nat : c =< n /\ Continues(w, c) /\ Holds(w, c, n) =>
              /\ Continues(Append(w, n + 1), c)
              /\ Holds(Append(w, n + 1), c, n + 1)
<1> DEFINE v == Append(w, n + 1)
<1>1. /\ v \in Seq(Nat) /\ Len(v) = Len(w) + 1
      /\ \A i \in 1 .. Len(w) : v[i] = w[i]
      /\ v[Len(w) + 1] = n + 1
  BY AppendProperties
<1>2. /\ Len(w) \in Nat /\ DOMAIN w = 1 .. Len(w)
      /\ DOMAIN v = 1 .. Len(w) + 1
  BY <1>1, LenProperties
<1> HIDE DEF v
<1>3. /\ Events(v) = Events(w) \union {Len(w) + 1}
      /\ \A i \in Events(w) : i \in 1 .. Len(w) /\ v[i] = w[i]
  BY <1>1, <1>2 DEF Events, Done
<1>4. /\ \A i \in Events(w) : w[i] \in Nat /\ w[i] =< n /\ w[i] > low
      /\ Events(w) # {} => \E i \in Events(w) : w[i] = n
      /\ InOrder(w) /\ Gapless(w)
  BY EventNumbers DEF Orderly, Upto
<1>5. \A i \in Events(v) : v[i] \in Nat /\ v[i] > low /\ v[i] =< n + 1
  <2> SUFFICES ASSUME NEW i \in Events(v)
               PROVE  v[i] \in Nat /\ v[i] > low /\ v[i] =< n + 1
    OBVIOUS
  <2>1. CASE i \in Events(w)
    BY <1>3, <1>4, <2>1
  <2>2. CASE i = Len(w) + 1
    BY <1>1, <2>2
  <2> QED
    BY <1>3, <2>1, <2>2
<1>6. InOrder(v)
  BY <1>1, <1>2, <1>3, <1>4 DEF InOrder
<1>7. Gapless(v)
  <2> SUFFICES ASSUME NEW i \in Events(v), NEW j \in Events(v),
                      NEW e \in v[i] .. v[j]
               PROVE  \E k \in Events(v) : v[k] = e
    BY DEF Gapless
  <2>1. e \in Nat /\ e =< n + 1 /\ v[i] =< e
    BY <1>5
  <2>2. CASE e = n + 1
    BY <1>1, <1>3, <2>2
  <2>3. CASE e # n + 1
    <3>1. i \in Events(w) /\ e \in w[i] .. n
      BY <1>1, <1>3, <1>4, <1>5, <2>1, <2>3
    <3>2. PICK l \in Events(w) : w[l] = n
      BY <1>4, <3>1
    <3>3. PICK k \in Events(w) : w[k] = e
      BY <1>4, <3>1, <3>2 DEF Gapless
    <3> QED
      BY <1>3, <3>3
  <2> QED
    BY <2>2, <2>3
<1>8. Orderly(v, low, n + 1)
  BY <1>6, <1>7, <1>5 DEF Orderly
<1>9. Upto(v, n + 1)
  BY <1>1, <1>3, <1>5 DEF Upto
<1>10. ASSUME NEW c \in Nat, c =< n, Continues(w, c), Holds(w, c, n)
      PROVE  Continues(v, c) /\ Holds(v, c, n + 1)
  <2>1. Holds(v, c, n + 1)
    <3> SUFFICES ASSUME NEW e \in (c + 1) .. (n + 1)
                 PROVE  \E k \in Events(v) : v[k] = e
      BY DEF Holds
    <3>1. CASE e = n + 1
      BY <1>1, <1>3, <3>1
    <3>2. CASE e # n + 1
      <4>1. e \in (c + 1) .. n
        BY <3>2
      <4> QED
        BY <1>3, <1>10, <4>1 DEF Holds
    <3> QED
      BY <3>1, <3>2
  <2>2. \A i \in Events(v) : v[i] > c
    <3> SUFFICES ASSUME NEW i \in Events(v)
                 PROVE  v[i] > c
      OBVIOUS
    <3>1. CASE i \in Events(w)
      BY <1>3, <1>10, <3>1 DEF Continues
    <3>2. CASE i = Len(w) + 1
      BY <1>1, <1>10, <3>2
    <3> QED
      BY <1>3, <3>1, <3>2
  <2>3. \A i \in Events(v) :
          \A e \in (c + 1) .. v[i] : e \in (c + 1) .. (n + 1)
    BY <1>5
  <2> QED
    BY <2>1, <2>2, <2>3 DEF Continues, Holds
<1> QED
  BY <1>1, <1>8, <1>9, <1>10 DEF v

(* The cached events after n are a run. *)
LEMMA CachedRun ==
  ASSUME NEW top \in Nat, NEW n \in Nat, n =< top,
         NEW c \in Seq(Nat), Len(c) = top, \A i \in 1 .. top : c[i] = i
  PROVE  LET w == SubSeq(c, n + 1, top) IN
           /\ w \in Seq(Nat) /\ Orderly(w, n, top) /\ Upto(w, top)
           /\ Continues(w, n) /\ Holds(w, n, top)
<1> DEFINE w == SubSeq(c, n + 1, top)
<1>1. DOMAIN c = 1 .. top
  BY LenProperties
<1>2. /\ w \in Seq(Nat)
      /\ Len(w) = IF n + 1 <= top THEN top - (n + 1) + 1 ELSE 0
      /\ \A i \in 1 .. top - (n + 1) + 1 : w[i] = c[(n + 1) + i - 1]
  BY <1>1, SubSeqProperties
<1> HIDE DEF w
<1>3. Len(w) = top - n /\ DOMAIN w = 1 .. top - n
  <2>1. CASE n < top
    <3>1. n + 1 <= top /\ top - (n + 1) + 1 = top - n
      BY <1>1, <2>1
    <3> QED
      BY <1>2, <3>1, LenProperties
  <2>2. CASE n = top
    <3>1. ~(n + 1 <= top) /\ top - n = 0
      BY <1>1, <2>2
    <3> QED
      BY <1>2, <3>1, LenProperties
  <2>3. n < top \/ n = top
    BY <1>1
  <2> QED
    BY <2>1, <2>2, <2>3
<1>4. \A i \in 1 .. top - n : w[i] = n + i
  <2> SUFFICES ASSUME NEW i \in 1 .. top - n
               PROVE  w[i] = n + i
    OBVIOUS
  <2>1. /\ i \in 1 .. top - (n + 1) + 1 /\ (n + 1) + i - 1 = n + i
        /\ n + i \in 1 .. top
    BY <1>1
  <2> QED
    BY <1>1, <1>2, <2>1
<1>5. Events(w) = 1 .. top - n
  <2>1. \A i \in 1 .. top - n : w[i] # 0
    BY <1>1, <1>4
  <2> QED
    BY <1>3, <2>1 DEF Events, Done
<1>6. ASSUME NEW e \in (n + 1) .. top
      PROVE  \E k \in Events(w) : w[k] = e
  <2>1. e - n \in 1 .. top - n /\ n + (e - n) = e
    BY <1>1
  <2> QED
    BY <1>4, <1>5, <2>1
<1>7. \A i \in Events(w) : w[i] > n /\ w[i] =< top /\ w[i] \in Nat
  BY <1>1, <1>4, <1>5
<1>8. InOrder(w) /\ Gapless(w)
  <2>1. InOrder(w)
    BY <1>1, <1>4, <1>5 DEF InOrder
  <2>2. Gapless(w)
    BY <1>1, <1>6, <1>7 DEF Gapless
  <2> QED
    BY <2>1, <2>2
<1>9. Upto(w, top)
  <2>1. ASSUME Events(w) # {}
        PROVE  \E i \in Events(w) : w[i] = top
    <3>1. top \in (n + 1) .. top
      BY <1>1, <1>5, <2>1
    <3> QED
      BY <1>6, <3>1
  <2> QED
    BY <1>7, <2>1 DEF Upto
<1>10. Holds(w, n, top) /\ Continues(w, n)
  <2>1. \A i \in Events(w) : \A e \in (n + 1) .. w[i] : e \in (n + 1) .. top
    BY <1>1, <1>7
  <2> QED
    BY <1>6, <1>7, <2>1 DEF Holds, Continues
<1>11. Orderly(w, n, top)
  BY <1>7, <1>8 DEF Orderly
<1> QED
  BY <1>2, <1>9, <1>10, <1>11 DEF w

(* The first frame of a run that continues what has been applied: it is    *)
(* the next event, and what is left continues it.                          *)
LEMMA FirstApplied ==
  ASSUME NEW v \in Seq(Nat), NEW e \in Nat, NEW low \in Nat, NEW high \in Nat,
         NEW c \in Nat, e # Done,
         Orderly(<<e>> \o v, low, high), Continues(<<e>> \o v, c)
  PROVE  /\ e = c + 1 /\ e =< high
         /\ Continues(v, e)
         /\ \A n \in Nat : Holds(<<e>> \o v, c, n) => Holds(v, e, n)
         /\ \A n \in Nat : Upto(<<e>> \o v, n) => e =< n
<1> DEFINE w == <<e>> \o v
<1>1. /\ <<e>> \in Seq(Nat) /\ Len(<<e>>) = 1 /\ <<e>>[1] = e
      /\ DOMAIN <<e>> = 1 .. 1
  OBVIOUS
<1>2. Events(<<e>>) = {1}
  BY <1>1 DEF Events
<1>3. /\ w \in Seq(Nat)
      /\ 1 \in Events(w) /\ w[1] = e
      /\ \A i \in Events(v) :
           1 + i \in Events(w) /\ w[1 + i] = v[i] /\ i \in Nat /\ i > 0
      /\ \A k \in Events(w) :
           k \in Nat /\ (k > 1 => k - 1 \in Events(v))
  <2> DEFINE a == <<e>>
  <2>1. a \in Seq(Nat) /\ Len(a) = 1 /\ a[1] = e /\ Events(a) = {1}
    BY <1>1, <1>2
  <2> HIDE DEF a
  <2>2. /\ a \o v \in Seq(Nat)
        /\ 1 \in Events(a \o v) /\ (a \o v)[1] = e
        /\ \A i \in Events(v) :
             /\ 1 + i \in Events(a \o v) /\ (a \o v)[1 + i] = v[i]
             /\ i \in Nat /\ i > 0
        /\ \A k \in Events(a \o v) :
             k \in Nat /\ (k > 1 => k - 1 \in Events(v))
    <3>1. /\ a \o v \in Seq(Nat)
          /\ \A i \in Events(a) :
               i \in Events(a \o v) /\ (a \o v)[i] = a[i]
          /\ \A i \in Events(v) :
               /\ Len(a) + i \in Events(a \o v)
               /\ (a \o v)[Len(a) + i] = v[i] /\ i \in Nat /\ i > 0
          /\ \A k \in Events(a \o v) :
               k \in Nat /\ (k > Len(a) => k - Len(a) \in Events(v))
      BY <2>1, EventsOfConcat
    <3> QED
      BY <2>1, <3>1
  <2> QED
    BY <2>2 DEF a
<1>4. /\ \A k \in Events(w) : k \in Nat /\ w[k] \in Nat /\ w[k] =< high
      /\ InOrder(w)
  BY <1>3, EventNumbers DEF Orderly
<1> HIDE DEF w
<1>5. \A k \in Events(w) : k >= 1 /\ (k > 1 => w[k] > e)
  <2> SUFFICES ASSUME NEW k \in Events(w)
               PROVE  k >= 1 /\ (k > 1 => w[k] > e)
    OBVIOUS
  <2>1. k # 0
    <3>1. DOMAIN w = 1 .. Len(w)
      BY <1>3, LenProperties
    <3> QED
      BY <1>3, <3>1, LenProperties DEF Events
  <2>2. k > 1 => w[1] < w[k]
    BY <1>3, <1>4 DEF InOrder
  <2> QED
    BY <1>3, <1>4, <2>1, <2>2
<1>6. e > c /\ e = c + 1
  <2>1. e > c /\ \A n \in (c + 1) .. e : \E k \in Events(w) : w[k] = n
    BY <1>3 DEF Continues, w
  <2>2. PICK k \in Events(w) : w[k] = c + 1
    BY <2>1
  <2>3. k = 1
    <3>1. k > 1 => w[k] > e
      BY <1>5
    <3>2. ~(k > 1)
      BY <1>4, <2>1, <2>2, <3>1
    <3> QED
      BY <1>4, <1>5, <3>2
  <2> QED
    BY <1>3, <2>1, <2>2, <2>3
(* What is in w after e is in v. *)
<1>7. ASSUME NEW n \in Nat, n > e, \E k \in Events(w) : w[k] = n
      PROVE  \E k \in Events(v) : v[k] = n
  <2>1. PICK k \in Events(w) : w[k] = n
    BY <1>7
  <2>2. k # 1
    BY <1>3, <1>7, <2>1
  <2>3. k - 1 \in Events(v) /\ 1 + (k - 1) = k
    BY <1>3, <1>5, <2>2
  <2> QED
    BY <1>3, <2>1, <2>3
<1>8. Continues(v, e)
  <2> SUFFICES ASSUME NEW i \in Events(v)
               PROVE  /\ v[i] > e
                      /\ \A n \in (e + 1) .. v[i] :
                           \E k \in Events(v) : v[k] = n
    BY DEF Continues
  <2>1. v[i] > e /\ v[i] \in Nat /\ 1 + i \in Events(w) /\ w[1 + i] = v[i]
    BY <1>3, <1>4, <1>5
  <2>2. ASSUME NEW n \in (e + 1) .. v[i]
        PROVE  \E k \in Events(v) : v[k] = n
    <3>1. n \in (c + 1) .. w[1 + i] /\ n \in Nat /\ n > e
      BY <1>6, <2>1
    <3>2. \E k \in Events(w) : w[k] = n
      BY <2>1, <3>1 DEF Continues, w
    <3> QED
      BY <1>7, <3>1, <3>2
  <2> QED
    BY <2>1, <2>2
<1>9. ASSUME NEW n \in Nat, Holds(w, c, n)
      PROVE  Holds(v, e, n)
  <2> SUFFICES ASSUME NEW l \in (e + 1) .. n
               PROVE  \E k \in Events(v) : v[k] = l
    BY DEF Holds
  <2>1. l \in (c + 1) .. n /\ l \in Nat /\ l > e
    BY <1>6
  <2> QED
    BY <1>7, <1>9, <2>1 DEF Holds
<1> QED
  BY <1>3, <1>4, <1>6, <1>8, <1>9 DEF Upto, w

-----------------------------------------------------------------------------
(* The invariant.                                                          *)

Generators == {"none", "open", "start", "attached", "ended"}

StreamTypes ==
  /\ cache \in Seq(Nat) /\ \A n \in 1 .. Len(cache) : cache[n] = n
  /\ queue \in [Streams -> Seq(Nat)] /\ wire \in [Streams -> Seq(Nat)]
  /\ from \in [Streams -> Nat] /\ generator \in [Streams -> Generators]
  /\ members \subseteq Streams /\ targets \subseteq Streams
  /\ stream \in 0 .. MaxStreams /\ cursor \in Nat

(* Who is subscribed, and where the pump and the client are. *)
PlaceInv ==
  /\ pump # "put" => targets = {}
  /\ pump = "put" => Len(cache) > 0
  /\ \A s \in Streams : generator[s] \in {"none", "open"} =>
       queue[s] = <<>> /\ wire[s] = <<>> /\ s \notin members \union targets
  /\ \A s \in members : generator[s] \in {"start", "attached"}
  /\ \A s \in Streams : generator[s] = "start" => pump = "unstarted"
  /\ \A s, t \in Streams :
       generator[s] = "start" /\ generator[t] = "start" => s = t
  /\ \A s \in Streams : s > stream => generator[s] = "none"
  /\ client = "streaming" => stream \in Streams
  /\ client = "streaming" /\ generator[stream] = "open" =>
       cursor = from[stream]

(* A subscription is to get more events while it is a member, or is among  *)
(* those that the pump is handing the newest event to ...                  *)
Due(s) ==
  s \in members \/ (s \in targets /\ generator[s] # "ended")

(* ... and has been given all that are cached, or all but that one.        *)
Given(s) == IF s \in targets THEN Len(cache) - 1 ELSE Len(cache)

(* The events on the way of one stream. *)
LineInv(s) ==
  /\ Orderly(OnItsWay(s), from[s], Len(cache))
  /\ from[s] =< Len(cache)
  /\ Due(s) => Upto(OnItsWay(s), Given(s)) /\ from[s] =< Given(s)

(* They continue what the client has applied, and reach to what has been   *)
(* given.                                                                  *)
ClientInv ==
  /\ cursor =< Len(cache)
  /\ client = "streaming" =>
       /\ Continues(OnItsWay(stream), cursor)
       /\ Due(stream) =>
            /\ cursor =< Given(stream)
            /\ Holds(OnItsWay(stream), cursor, Given(stream))

StreamInv ==
  StreamTypes /\ PlaceInv /\ (\A s \in Streams : LineInv(s)) /\ ClientInv

-----------------------------------------------------------------------------
(* What is on its way of a stream, by what is done to its parts.           *)

LEMMA WayTyped ==
  ASSUME StreamTypes, NEW s \in Streams
  PROVE  /\ wire[s] \in Seq(Nat) /\ queue[s] \in Seq(Nat)
         /\ OnItsWay(s) \in Seq(Nat)
         /\ from[s] \in Nat /\ Len(cache) \in Nat
BY ConcatProperties, LenProperties DEF StreamTypes, OnItsWay

LEMMA GivenTyped ==
  ASSUME StreamTypes, PlaceInv, NEW s \in Streams
  PROVE  Given(s) \in Nat /\ Given(s) =< Len(cache)
BY LenProperties DEF StreamTypes, PlaceInv, Given

LEMMA ConcatAppend ==
  ASSUME NEW a \in Seq(Nat), NEW b \in Seq(Nat), NEW e \in Nat
  PROVE  a \o Append(b, e) = Append(a \o b, e)
<1>1. <<e>> \in Seq(Nat) /\ a \o b \in Seq(Nat)
  BY ConcatProperties
<1>2. Append(b, e) = b \o <<e>> /\ Append(a \o b, e) = (a \o b) \o <<e>>
  BY <1>1, AppendIsConcat
<1> QED
  BY <1>1, <1>2, ConcatAssociative

LEMMA HeadFirst ==
  ASSUME NEW w \in Seq(Nat), w # <<>>
  PROVE  /\ w = <<Head(w)>> \o Tail(w)
         /\ Head(w) \in Nat /\ Tail(w) \in Seq(Nat) /\ <<Head(w)>> \in Seq(Nat)
<1>1. /\ Len(w) \in Nat /\ Len(w) >= 1
  BY EmptySeq
<1>2. SubSeq(w, 1, Len(w)) = <<w[1]>> \o SubSeq(w, 2, Len(w))
  BY <1>1, SubSeqRecursiveFirst
<1>3. /\ w = SubSeq(w, 1, Len(w)) /\ Tail(w) = SubSeq(w, 2, Len(w))
      /\ Head(w) = w[1] /\ Head(w) \in Nat /\ Tail(w) \in Seq(Nat)
  BY SubSeqFull, TailIsSubSeq, HeadTailProperties
<1> QED
  BY <1>2, <1>3

LEMMA ConcatFirst ==
  ASSUME NEW e \in Nat, NEW a \in Seq(Nat), NEW b \in Seq(Nat)
  PROVE  (<<e>> \o a) \o b = <<e>> \o (a \o b)
<1>1. <<e>> \in Seq(Nat)
  OBVIOUS
<1> QED
  BY <1>1, ConcatAssociative

(* A frame that passes from the queue to the wire stays on its way. *)
LEMMA FramePasses ==
  ASSUME NEW a \in Seq(Nat), NEW b \in Seq(Nat), b # <<>>
  PROVE  Append(a, Head(b)) \o Tail(b) = a \o b
<1>1. /\ b = <<Head(b)>> \o Tail(b) /\ Head(b) \in Nat
      /\ Tail(b) \in Seq(Nat) /\ <<Head(b)>> \in Seq(Nat)
  BY HeadFirst
<1>2. Append(a, Head(b)) = a \o <<Head(b)>>
  BY <1>1, AppendIsConcat
<1>3. (a \o <<Head(b)>>) \o Tail(b) = a \o (<<Head(b)>> \o Tail(b))
  BY <1>1, ConcatAssociative
<1> QED
  BY <1>1, <1>2, <1>3

(* A stream to which nothing is done. *)
LEMMA LineSame ==
  ASSUME NEW s \in Streams, LineInv(s), StreamTypes,
         UNCHANGED OnItsWay(s), from'[s] = from[s],
         Len(cache') \in Nat, Len(cache') >= Len(cache),
         Due(s)' => Due(s) /\ Given(s)' = Given(s)
  PROVE  LineInv(s)'
<1>1. /\ OnItsWay(s) \in Seq(Nat) /\ from[s] \in Nat /\ Len(cache) \in Nat
      /\ \A i \in Events(OnItsWay(s)) : OnItsWay(s)[i] \in Nat
  BY WayTyped, EventNumbers
<1>2. Orderly(OnItsWay(s), from[s], Len(cache'))
  BY <1>1 DEF LineInv, Orderly
<1> QED
  BY <1>1, <1>2 DEF LineInv

(* A stream that gets no more events. *)
LEMMA LineEnded ==
  ASSUME NEW s \in Streams, ~Due(s)', from'[s] = from[s],
         UNCHANGED cache, LineInv(s),
         Orderly(OnItsWay(s)', from[s], Len(cache))
  PROVE  LineInv(s)'
BY DEF LineInv

(* A step that changes nothing of the streams. *)
LEMMA QuietStreams ==
  ASSUME StreamInv,
         UNCHANGED <<cache, queue, wire, from, generator, members, targets,
                     stream, cursor, pump, client>>
  PROVE  StreamInv'
<1>1. StreamTypes' /\ PlaceInv'
  BY DEF StreamInv, StreamTypes, PlaceInv
<1>2. \A s : UNCHANGED <<OnItsWay(s), Due(s), Given(s)>>
  BY DEF OnItsWay, Due, Given
<1>3. ClientInv' /\ \A s \in Streams : LineInv(s)'
  BY <1>2 DEF StreamInv, ClientInv, LineInv
<1> QED
  BY <1>1, <1>3 DEF StreamInv

-----------------------------------------------------------------------------
(* The subscriptions and their generators.                                 *)

LEMMA AttachKeeps ==
  ASSUME StreamInv, NEW s \in Streams, Attach(s)
  PROVE  StreamInv'
<1>0. /\ StreamTypes /\ PlaceInv /\ (\A t \in Streams : LineInv(t))
      /\ ClientInv
  BY DEF StreamInv
<1>1. /\ generator[s] = "open" /\ members' = members \union {s}
      /\ queue' = [queue EXCEPT ![s] = Replay(s) \o LastWord]
      /\ UNCHANGED <<cache, targets, from, wire, stream, client, cursor>>
      /\ \/ /\ pump = "none" /\ pump' = "unstarted"
            /\ generator' = [generator EXCEPT ![s] = "start"]
         \/ /\ generator' = [generator EXCEPT ![s] = "attached"]
            /\ UNCHANGED pump
  BY DEF Attach, browser
<1>2. /\ queue[s] = <<>> /\ wire[s] = <<>> /\ s \notin members \union targets
  BY <1>0, <1>1 DEF PlaceInv
<1>3. /\ from[s] \in Nat /\ Len(cache) \in Nat /\ from[s] =< Len(cache)
      /\ cache \in Seq(Nat) /\ \A n \in 1 .. Len(cache) : cache[n] = n
  BY <1>0, WayTyped DEF LineInv, StreamTypes
<1> DEFINE r == Replay(s)
<1>4. /\ r \in Seq(Nat) /\ Orderly(r, from[s], Len(cache))
      /\ Upto(r, Len(cache)) /\ Continues(r, from[s])
      /\ Holds(r, from[s], Len(cache))
  BY <1>3, CachedRun DEF Replay
<1> DEFINE v == r \o LastWord
<1>5. /\ v \in Seq(Nat) /\ Orderly(v, from[s], Len(cache))
      /\ Upto(v, Len(cache)) /\ Continues(v, from[s])
      /\ Holds(v, from[s], Len(cache))
  <2>1. CASE LastWord = <<>>
    BY <1>4, <2>1, ConcatEmptySeq
  <2>2. CASE LastWord = <<Done>>
    <3>1. v = Append(r, Done)
      BY <1>4, <2>2, AppendIsConcat DEF Done
    <3> HIDE DEF r
    <3>2. /\ v \in Seq(Nat) /\ Events(v) = Events(r)
          /\ \A i \in Events(r) : v[i] = r[i]
      BY <1>4, <3>1, MarkerAppended
    <3> QED
      BY <1>4, <3>2, SameEvents
  <2> QED
    BY <2>1, <2>2 DEF LastWord
<1> HIDE DEF v, r
<1>6. queue'[s] = v /\ \A t \in Streams \ {s} : queue'[t] = queue[t]
  BY <1>0, <1>1 DEF StreamTypes, v, r
<1>7. OnItsWay(s)' = v /\ \A t \in Streams \ {s} : OnItsWay(t)' = OnItsWay(t)
  BY <1>1, <1>2, <1>5, <1>6, ConcatEmptySeq DEF OnItsWay
<1>8. StreamTypes'
  BY <1>0, <1>1, <1>5, <1>6 DEF StreamTypes, Generators, v, r
<1>9. /\ generator'[s] \in {"start", "attached"}
      /\ \A t \in Streams \ {s} : generator'[t] = generator[t]
      /\ generator'[s] = "start" => pump = "none" /\ pump' = "unstarted"
      /\ generator'[s] # "start" => pump' = pump
  BY <1>0, <1>1 DEF StreamTypes
<1>10. PlaceInv'
  BY <1>0, <1>1, <1>2, <1>6, <1>9 DEF PlaceInv, StreamTypes, Streams
<1>11. /\ Due(s)' /\ Given(s)' = Len(cache)
       /\ \A t \in Streams \ {s} : Due(t)' = Due(t) /\ Given(t)' = Given(t)
  BY <1>1, <1>2, <1>9 DEF Due, Given
<1>12. \A t \in Streams : LineInv(t)'
  <2>1. LineInv(s)'
    BY <1>1, <1>3, <1>5, <1>7, <1>11 DEF LineInv
  <2>2. ASSUME NEW t \in Streams \ {s} PROVE LineInv(t)'
    BY <1>0, <1>1, <1>3, <1>7, <1>11, LineSame
  <2> QED
    BY <2>1, <2>2
<1>13. ClientInv'
  <2>1. CASE stream = s
    BY <1>0, <1>1, <1>3, <1>5, <1>7, <1>11, <2>1 DEF ClientInv, PlaceInv
  <2>2. CASE stream # s
    <3>1. client = "streaming" => stream \in Streams \ {s}
      BY <1>0, <2>2 DEF PlaceInv
    <3> QED
      BY <1>0, <1>1, <1>7, <1>11, <3>1 DEF ClientInv
  <2> QED
    BY <2>1, <2>2
<1> QED
  BY <1>8, <1>10, <1>12, <1>13 DEF StreamInv

LEMMA StartKeeps ==
  ASSUME StreamInv, NEW s \in Streams, StartPump(s)
  PROVE  StreamInv'
<1>0. /\ StreamTypes /\ PlaceInv /\ (\A t \in Streams : LineInv(t))
      /\ ClientInv
  BY DEF StreamInv
<1>1. /\ generator[s] = "start"
      /\ generator' = [generator EXCEPT ![s] = "attached"] /\ pump' = "next"
      /\ UNCHANGED <<cache, targets, members, queue, from, wire, stream,
                     client, cursor>>
  BY DEF StartPump, browser
<1>2. /\ generator'[s] = "attached"
      /\ \A t \in Streams \ {s} : generator'[t] = generator[t]
      /\ \A t \in Streams : generator'[t] # "start"
      /\ targets = {}
  BY <1>0, <1>1 DEF StreamTypes, PlaceInv
<1>3. StreamTypes'
  BY <1>0, <1>1 DEF StreamTypes, Generators
<1>4. PlaceInv'
  BY <1>0, <1>1, <1>2 DEF PlaceInv, StreamTypes
<1>5. \A t \in Streams : UNCHANGED <<OnItsWay(t), Due(t), Given(t)>>
  BY <1>1, <1>2 DEF OnItsWay, Due, Given
<1>6. \A t \in Streams : LineInv(t)'
  BY <1>0, <1>1, <1>5 DEF LineInv
<1>7. ClientInv'
  BY <1>0, <1>1, <1>5 DEF ClientInv, PlaceInv
<1> QED
  BY <1>3, <1>4, <1>6, <1>7 DEF StreamInv

(* A generator ends: only what is on the wire remains, and the marker. *)
LEMMA EndKeeps ==
  ASSUME StreamInv, NEW s \in Streams, generator[s] # "none",
         generator' = [generator EXCEPT ![s] = "ended"],
         members' = members \ {s}, queue' = [queue EXCEPT ![s] = <<>>],
         \/ UNCHANGED wire
         \/ wire' = [wire EXCEPT ![s] = Append(wire[s], Done)],
         UNCHANGED <<cache, targets, from, pump, stream, client, cursor>>
  PROVE  StreamInv'
<1>0. /\ StreamTypes /\ PlaceInv /\ (\A t \in Streams : LineInv(t))
      /\ ClientInv
  BY DEF StreamInv
<1>1. /\ generator'[s] = "ended" /\ queue'[s] = <<>>
      /\ wire'[s] \in {wire[s], Append(wire[s], Done)}
      /\ \A t \in Streams \ {s} :
           /\ generator'[t] = generator[t] /\ queue'[t] = queue[t]
           /\ wire'[t] = wire[t]
  BY <1>0 DEF StreamTypes
<1>2. /\ wire[s] \in Seq(Nat) /\ queue[s] \in Seq(Nat)
      /\ from[s] \in Nat /\ Len(cache) \in Nat
      /\ Append(wire[s], Done) \in Seq(Nat)
      /\ Events(Append(wire[s], Done)) = Events(wire[s])
      /\ \A i \in Events(wire[s]) : Append(wire[s], Done)[i] = wire[s][i]
  BY <1>0, WayTyped, MarkerAppended
<1>3. OnItsWay(s)' = wire'[s] /\ wire'[s] \in Seq(Nat)
  BY <1>1, <1>2, ConcatEmptySeq DEF OnItsWay
<1>4. /\ Orderly(wire[s], from[s], Len(cache))
      /\ \A n \in Nat : Continues(OnItsWay(s), n) => Continues(wire[s], n)
  BY <1>0, <1>2, RunPrefix DEF LineInv, OnItsWay
<1>5. /\ Orderly(wire'[s], from[s], Len(cache))
      /\ \A n \in Nat : Continues(OnItsWay(s), n) => Continues(wire'[s], n)
  <2>1. CASE wire'[s] = wire[s]
    BY <1>4, <2>1
  <2>2. CASE wire'[s] = Append(wire[s], Done)
    BY <1>2, <1>4, <2>2, SameEvents
  <2> QED
    BY <1>1, <2>1, <2>2
<1>6. /\ ~Due(s)'
      /\ \A t \in Streams \ {s} :
           UNCHANGED <<OnItsWay(t), Due(t), Given(t)>>
  BY <1>1 DEF OnItsWay, Due, Given
<1>7. StreamTypes'
  <2>1. wire' \in [Streams -> Seq(Nat)]
    BY <1>0, <1>2 DEF StreamTypes
  <2>2. queue' \in [Streams -> Seq(Nat)]
    BY <1>0 DEF StreamTypes
  <2> QED
    BY <1>0, <2>1, <2>2 DEF StreamTypes, Generators
<1>8. PlaceInv'
  BY <1>0, <1>1 DEF PlaceInv, StreamTypes
<1>9. \A t \in Streams : LineInv(t)'
  <2>1. LineInv(s)'
    BY <1>0, <1>3, <1>5, <1>6, LineEnded
  <2>2. ASSUME NEW t \in Streams \ {s} PROVE LineInv(t)'
    BY <1>0, <1>6 DEF LineInv
  <2> QED
    BY <2>1, <2>2
<1>10. ClientInv'
  <2>1. CASE stream = s
    BY <1>0, <1>3, <1>5, <1>6, <2>1 DEF ClientInv, StreamTypes
  <2>2. CASE stream # s
    <3>1. client = "streaming" => stream \in Streams \ {s}
      BY <1>0, <2>2 DEF PlaceInv
    <3> QED
      BY <1>0, <1>6, <3>1 DEF ClientInv
  <2> QED
    BY <2>1, <2>2
<1> QED
  BY <1>7, <1>8, <1>9, <1>10 DEF StreamInv

LEMMA YieldKeeps ==
  ASSUME StreamInv, NEW s \in Streams, Yield(s)
  PROVE  StreamInv'
<1>0. /\ StreamTypes /\ PlaceInv /\ (\A t \in Streams : LineInv(t))
      /\ ClientInv
  BY DEF StreamInv
<1>1. /\ generator[s] = "attached" /\ queue[s] # <<>>
      /\ UNCHANGED <<cache, targets, from, pump, stream, client, cursor>>
  BY DEF Yield, browser, pumping
<1>2. /\ wire[s] \in Seq(Nat) /\ queue[s] \in Seq(Nat)
      /\ from[s] \in Nat /\ Len(cache) \in Nat
  BY <1>0, WayTyped
<1>3. CASE Head(queue[s]) = Done
  <2>1. /\ generator' = [generator EXCEPT ![s] = "ended"]
        /\ members' = members \ {s} /\ queue' = [queue EXCEPT ![s] = <<>>]
        /\ wire' = [wire EXCEPT ![s] = Append(wire[s], Done)]
    BY <1>3 DEF Yield
  <2> QED
    BY <1>1, <2>1, EndKeeps
<1>4. CASE Head(queue[s]) # Done
  <2> DEFINE e == Head(queue[s])
  <2>1. /\ queue' = [queue EXCEPT ![s] = Tail(queue[s])]
        /\ UNCHANGED <<generator, members>>
        /\ wire' = IF e > from[s] \/ e = Done
                   THEN [wire EXCEPT ![s] = Append(wire[s], e)] ELSE wire
    BY <1>4 DEF Yield
  <2>2. /\ queue[s] = <<e>> \o Tail(queue[s]) /\ e \in Nat
        /\ Tail(queue[s]) \in Seq(Nat) /\ <<e>> \in Seq(Nat)
    BY <1>1, <1>2, HeadFirst
  <2>3. e > from[s]
    <3>1. Orderly(queue[s], from[s], Len(cache))
      BY <1>0, <1>2, RunSuffix DEF LineInv, OnItsWay
    <3>2. 1 \in Events(queue[s]) /\ queue[s][1] = e
      BY <1>1, <1>2, <1>4, HeadTailProperties, EmptySeq, LenProperties
         DEF Events
    <3> QED
      BY <3>1, <3>2 DEF Orderly
  <2>4. /\ wire'[s] = Append(wire[s], e) /\ queue'[s] = Tail(queue[s])
        /\ \A t \in Streams \ {s} :
             wire'[t] = wire[t] /\ queue'[t] = queue[t]
        /\ wire'[s] \in Seq(Nat) /\ queue'[s] \in Seq(Nat)
    BY <1>0, <1>2, <2>1, <2>2, <2>3, AppendProperties DEF StreamTypes
  <2>5. \A t \in Streams : OnItsWay(t)' = OnItsWay(t)
    <3>1. Append(wire[s], Head(queue[s])) \o Tail(queue[s])
            = wire[s] \o queue[s]
      BY <1>1, <1>2, FramePasses
    <3>2. OnItsWay(s)' = OnItsWay(s)
      BY <2>4, <3>1 DEF OnItsWay
    <3> QED
      BY <2>4, <3>2 DEF OnItsWay
  <2>6. StreamTypes'
    BY <1>0, <1>1, <1>2, <2>1, <2>2, <2>3, AppendProperties
       DEF StreamTypes
  <2>7. PlaceInv'
    BY <1>0, <1>1, <2>1, <2>4 DEF PlaceInv
  <2>8. \A t \in Streams : UNCHANGED <<Due(t), Given(t)>>
    BY <1>1, <2>1 DEF Due, Given
  <2>9. \A t \in Streams : LineInv(t)'
    BY <1>0, <1>1, <2>5, <2>8 DEF LineInv
  <2>10. ClientInv'
    BY <1>0, <1>1, <2>5, <2>8 DEF ClientInv, PlaceInv
  <2> QED
    BY <2>6, <2>7, <2>9, <2>10 DEF StreamInv
<1> QED
  BY <1>3, <1>4

-----------------------------------------------------------------------------
(* The pump, and the closing of the session.                               *)

(* An event is cached; who is subscribed now is to get it. *)
LEMMA CacheKeeps ==
  ASSUME StreamInv, pump = "next",
         cache' = Append(cache, Len(cache) + 1),
         targets' = members, pump' = "put",
         UNCHANGED <<queue, wire, from, generator, members, stream, client,
                     cursor>>
  PROVE  StreamInv'
<1>0. /\ StreamTypes /\ PlaceInv /\ (\A t \in Streams : LineInv(t))
      /\ ClientInv /\ targets = {}
  BY DEF StreamInv, PlaceInv
<1>1. /\ cache \in Seq(Nat) /\ Len(cache) \in Nat
      /\ \A n \in 1 .. Len(cache) : cache[n] = n
  BY <1>0, LenProperties DEF StreamTypes
<1>2. /\ cache' \in Seq(Nat) /\ Len(cache') = Len(cache) + 1
      /\ \A n \in 1 .. Len(cache') : cache'[n] = n
  <2>1. /\ cache' \in Seq(Nat) /\ Len(cache') = Len(cache) + 1
        /\ \A n \in 1 .. Len(cache) : cache'[n] = cache[n]
        /\ cache'[Len(cache) + 1] = Len(cache) + 1
    BY <1>1, AppendProperties
  <2> QED
    BY <1>1, <2>1
<1>3. StreamTypes'
  BY <1>0, <1>2 DEF StreamTypes
<1>4. PlaceInv'
  BY <1>0, <1>1, <1>2 DEF PlaceInv
<1>5. \A s \in Streams :
        /\ UNCHANGED OnItsWay(s)
        /\ Due(s)' => Due(s) /\ Given(s)' = Given(s)
  BY <1>0, <1>1, <1>2 DEF OnItsWay, Due, Given
<1>6. \A s \in Streams : LineInv(s)'
  BY <1>0, <1>1, <1>2, <1>5, LineSame
<1>7. ClientInv'
  <2>1. cursor' =< Len(cache')
    BY <1>0, <1>1, <1>2 DEF ClientInv, StreamTypes
  <2> QED
    BY <1>0, <1>5, <2>1 DEF ClientInv, PlaceInv
<1> QED
  BY <1>3, <1>4, <1>6, <1>7 DEF StreamInv

(* The newest event is handed to those it is for. *)
LEMMA PutKeeps ==
  ASSUME StreamInv, PumpPut
  PROVE  StreamInv'
<1>0. /\ StreamTypes /\ PlaceInv /\ (\A t \in Streams : LineInv(t))
      /\ ClientInv
  BY DEF StreamInv
<1>1. /\ pump = "put" /\ pump' = "next" /\ targets' = {}
      /\ queue' = [s \in Streams |->
                     IF s \in targets /\ generator[s] # "ended"
                          /\ Newest > from[s]
                     THEN Append(queue[s], Newest) ELSE queue[s]]
      /\ UNCHANGED <<cache, members, from, generator, wire, stream, client,
                     cursor>>
  BY DEF PumpPut, Receivers, browser
<1> DEFINE n == Len(cache) - 1
<1>2. /\ n \in Nat /\ n + 1 = Len(cache) /\ Newest = n + 1
      /\ n + 1 \in Nat /\ \A c \in Nat : c =< n => c =< n + 1
  <2>1. Len(cache) \in Nat /\ Len(cache) > 0
    BY <1>0, <1>1, LenProperties DEF PlaceInv, StreamTypes
  <2>2. Len(cache) \in 1 .. Len(cache)
    BY <2>1
  <2>3. cache[Len(cache)] = Len(cache)
    BY <1>0, <2>2 DEF StreamTypes
  <2>4. n \in Nat /\ n + 1 = Len(cache)
    BY <2>1
  <2> QED
    BY <2>1, <2>3, <2>4 DEF Newest
<1> HIDE DEF n
<1> DEFINE Receives(s) == s \in targets /\ generator[s] # "ended"
(* Who receives it has been given all the others. *)
<1>3. ASSUME NEW s \in Streams, Receives(s)
      PROVE  /\ queue'[s] = Append(queue[s], n + 1)
             /\ Due(s) /\ Given(s) = n
             /\ Orderly(OnItsWay(s), from[s], n) /\ Upto(OnItsWay(s), n)
             /\ from[s] =< n
  <2>1. Due(s) /\ Given(s) = n
    BY <1>2, <1>3 DEF Due, Given, n
  <2>2. /\ Orderly(OnItsWay(s), from[s], Len(cache))
        /\ Upto(OnItsWay(s), n) /\ from[s] =< n
    BY <1>0, <2>1 DEF LineInv
  <2>3. Orderly(OnItsWay(s), from[s], n)
    BY <2>2 DEF Orderly, Upto
  <2>4. queue'[s] = Append(queue[s], n + 1)
    <3>1. from[s] \in Nat
      BY <1>0, WayTyped
    <3> QED
      BY <1>1, <1>2, <1>3, <2>2, <3>1
  <2> QED
    BY <2>1, <2>2, <2>3, <2>4
<1>4. ASSUME NEW s \in Streams, Receives(s)
      PROVE  OnItsWay(s)' = Append(OnItsWay(s), n + 1)
  <2>1. wire[s] \in Seq(Nat) /\ queue[s] \in Seq(Nat)
    BY <1>0, WayTyped
  <2>2. wire[s] \o Append(queue[s], n + 1) = Append(wire[s] \o queue[s], n + 1)
    BY <1>2, <2>1, ConcatAppend
  <2> QED
    BY <1>1, <1>3, <1>4, <2>2 DEF OnItsWay
<1>5. ASSUME NEW s \in Streams, ~Receives(s)
      PROVE  /\ queue'[s] = queue[s] /\ OnItsWay(s)' = OnItsWay(s)
             /\ Due(s)' => Due(s) /\ Given(s)' = Given(s)
  <2>1. queue'[s] = queue[s] /\ OnItsWay(s)' = OnItsWay(s)
    BY <1>1, <1>5 DEF OnItsWay
  <2>2. s \in members => s \notin targets
    BY <1>0, <1>5 DEF PlaceInv
  <2> QED
    BY <1>1, <2>1, <2>2 DEF Due, Given
<1>6. \A s \in Streams : Due(s)' => Given(s)' = n + 1
  BY <1>1, <1>2 DEF Given
<1>7. StreamTypes'
  <2>1. \A s \in Streams : queue'[s] \in Seq(Nat)
    <3> SUFFICES ASSUME NEW s \in Streams PROVE queue'[s] \in Seq(Nat)
      OBVIOUS
    <3>1. queue[s] \in Seq(Nat)
      BY <1>0, WayTyped
    <3>2. CASE Receives(s)
      BY <1>2, <1>3, <3>1, <3>2, AppendProperties
    <3>3. CASE ~Receives(s)
      BY <1>5, <3>1, <3>3
    <3> QED
      BY <3>2, <3>3
  <2>2. queue' \in [Streams -> Seq(Nat)]
    BY <1>1, <2>1
  <2> QED
    BY <1>0, <1>1, <2>2 DEF StreamTypes
<1>8. PlaceInv'
  <2>1. \A s \in Streams : generator[s] \in {"none", "open"} => ~Receives(s)
    BY <1>0 DEF PlaceInv
  <2>2. \A s \in Streams : generator[s] # "start"
    BY <1>0, <1>1 DEF PlaceInv
  <2> QED
    BY <1>0, <1>1, <1>5, <2>1, <2>2 DEF PlaceInv
<1>9. ASSUME NEW s \in Streams, Receives(s)
      PROVE  /\ Orderly(OnItsWay(s)', from[s], n + 1)
             /\ Upto(OnItsWay(s)', n + 1)
             /\ \A c \in Nat :
                  c =< n /\ Continues(OnItsWay(s), c)
                  /\ Holds(OnItsWay(s), c, n) =>
                    /\ Continues(OnItsWay(s)', c)
                    /\ Holds(OnItsWay(s)', c, n + 1)
  <2>1. OnItsWay(s) \in Seq(Nat) /\ from[s] \in Nat
    BY <1>0, WayTyped
  <2> QED
    BY <1>2, <1>3, <1>4, <1>9, <2>1, NextAppended
<1>10. \A s \in Streams : LineInv(s)'
  <2> SUFFICES ASSUME NEW s \in Streams PROVE LineInv(s)'
    OBVIOUS
  <2>1. CASE Receives(s)
    <3>1. from[s] =< n /\ from[s] \in Nat
      BY <1>0, <1>3, <2>1, WayTyped
    <3> QED
      BY <1>1, <1>2, <1>6, <1>9, <2>1, <3>1 DEF LineInv
  <2>2. CASE ~Receives(s)
    BY <1>0, <1>1, <1>2, <1>5, <2>2, LineSame
  <2> QED
    BY <2>1, <2>2
<1>11. ClientInv'
  <2>1. CASE client = "streaming" /\ Receives(stream)
    <3>1. stream \in Streams /\ cursor \in Nat
      BY <1>0, <2>1 DEF PlaceInv, StreamTypes
    <3>2. /\ Continues(OnItsWay(stream), cursor) /\ cursor =< n
          /\ Holds(OnItsWay(stream), cursor, n)
      BY <1>0, <1>3, <2>1, <3>1 DEF ClientInv
    <3>3. /\ Continues(OnItsWay(stream)', cursor)
          /\ Holds(OnItsWay(stream)', cursor, n + 1) /\ cursor =< n + 1
      BY <1>1, <1>2, <1>9, <2>1, <3>1, <3>2
    <3>4. UNCHANGED <<cursor, stream, client, cache>> /\ cursor =< Len(cache)
          /\ (Due(stream)' => Given(stream)' = n + 1)
      BY <1>0, <1>1, <1>6, <3>1 DEF ClientInv
    <3> QED
      BY <3>3, <3>4 DEF ClientInv
  <2>2. CASE client = "streaming" /\ ~Receives(stream)
    <3>1. stream \in Streams
      BY <1>0, <2>2 DEF PlaceInv
    <3> QED
      BY <1>0, <1>1, <1>5, <2>2, <3>1 DEF ClientInv
  <2>3. CASE client # "streaming"
    BY <1>0, <1>1, <2>3 DEF ClientInv
  <2> QED
    BY <2>1, <2>2, <2>3
<1> QED
  BY <1>7, <1>8, <1>10, <1>11 DEF StreamInv

(* The end is passed on to whoever is subscribed, who gets nothing more    *)
(* unless it is among those the newest event is for.                       *)
LEMMA DismissKeeps ==
  ASSUME StreamInv, Dismiss,
         pump' = pump \/ (pump = "finish" /\ pump' = "done"),
         UNCHANGED <<cache, targets, from, generator, wire, stream, client,
                     cursor>>
  PROVE  StreamInv'
<1>0. /\ StreamTypes /\ PlaceInv /\ (\A t \in Streams : LineInv(t))
      /\ ClientInv
  BY DEF StreamInv
<1>1. /\ members' = {}
      /\ \A s \in Streams :
           queue'[s] = IF s \in members THEN Append(queue[s], Done)
                       ELSE queue[s]
      /\ queue' = [s \in Streams |->
                     IF s \in members THEN Append(queue[s], Done)
                     ELSE queue[s]]
  BY DEF Dismiss
<1>2. ASSUME NEW s \in Streams
      PROVE  /\ OnItsWay(s) \in Seq(Nat) /\ queue'[s] \in Seq(Nat)
             /\ Events(OnItsWay(s)') = Events(OnItsWay(s))
             /\ \A i \in Events(OnItsWay(s)) :
                  OnItsWay(s)'[i] = OnItsWay(s)[i]
  <2>1. /\ wire[s] \in Seq(Nat) /\ queue[s] \in Seq(Nat)
        /\ OnItsWay(s) \in Seq(Nat)
    BY <1>0, WayTyped
  <2>2. CASE s \in members
    <3>1. wire[s] \o Append(queue[s], Done) = Append(wire[s] \o queue[s], Done)
      BY <2>1, ConcatAppend DEF Done
    <3>2. OnItsWay(s)' = Append(OnItsWay(s), Done)
      BY <1>1, <2>2, <3>1 DEF OnItsWay
    <3> QED
      BY <1>1, <2>1, <2>2, <3>2, MarkerAppended
  <2>3. CASE s \notin members
    BY <1>1, <2>1, <2>3 DEF OnItsWay
  <2> QED
    BY <2>2, <2>3
<1>3. StreamTypes'
  BY <1>0, <1>1, <1>2 DEF StreamTypes
<1>4. PlaceInv'
  BY <1>0, <1>1 DEF PlaceInv
<1>5. \A s \in Streams : Given(s)' = Given(s) /\ (Due(s)' => Due(s))
  BY <1>1 DEF Due, Given
<1>6. \A s \in Streams : LineInv(s)'
  BY <1>0, <1>2, <1>5, SameEvents DEF LineInv
<1>7. ClientInv'
  <2>1. CASE client = "streaming"
    <3>1. stream \in Streams
      BY <1>0, <2>1 DEF PlaceInv
    <3> QED
      BY <1>0, <1>2, <1>5, <3>1, SameEvents DEF ClientInv
  <2>2. CASE client # "streaming"
    BY <1>0, <2>2 DEF ClientInv
  <2> QED
    BY <2>1, <2>2
<1> QED
  BY <1>3, <1>4, <1>6, <1>7 DEF StreamInv

-----------------------------------------------------------------------------
(* The client.                                                             *)

LEMMA ConnectKeeps ==
  ASSUME StreamInv, Connect
  PROVE  StreamInv'
<1>0. /\ StreamTypes /\ PlaceInv /\ (\A t \in Streams : LineInv(t))
      /\ ClientInv
  BY DEF StreamInv
<1>1. /\ UNCHANGED <<cache, targets, pump, members, queue, wire, cursor>>
      /\ client # "streaming"
  BY DEF Connect, pumping
<1>2. CASE closer # "none"
  <2>1. UNCHANGED <<stream, from, generator>> /\ client' = "gone"
    BY <1>2 DEF Connect
  <2>2. StreamTypes' /\ PlaceInv' /\ ClientInv'
    BY <1>0, <1>1, <2>1 DEF StreamTypes, PlaceInv, ClientInv
  <2>3. \A s : UNCHANGED <<OnItsWay(s), Due(s), Given(s)>>
    BY <1>1, <2>1 DEF OnItsWay, Due, Given
  <2>4. \A s \in Streams : LineInv(s)'
    BY <1>0, <1>1, <2>1, <2>3 DEF LineInv
  <2> QED
    BY <2>2, <2>4 DEF StreamInv
<1>3. CASE closer = "none"
  <2>0. stream + 1 \in Streams
    BY <1>0, <1>3, StreamAssumption DEF Connect, StreamTypes, Streams
  <2> PICK s \in Streams : s = stream + 1
    BY <2>0
  <2>1. /\ client' = "streaming" /\ stream' = s
        /\ from' = [from EXCEPT ![s] = cursor]
        /\ generator' = [generator EXCEPT ![s] = "open"]
        /\ stream < MaxStreams
    BY <1>3 DEF Connect
  <2>2. /\ s \in Streams /\ stream \in Nat /\ s > stream
        /\ \A t \in Streams : t > s => t > stream
    BY <1>0, <2>1, StreamAssumption DEF StreamTypes, Streams
  <2>3. /\ generator[s] = "none" /\ queue[s] = <<>> /\ wire[s] = <<>>
        /\ s \notin members \union targets
    BY <1>0, <2>2 DEF PlaceInv
  <2>4. /\ from'[s] = cursor /\ generator'[s] = "open"
        /\ \A t \in Streams \ {s} :
             from'[t] = from[t] /\ generator'[t] = generator[t]
    BY <1>0, <2>1, <2>2 DEF StreamTypes
  <2>5. StreamTypes'
    BY <1>0, <1>1, <2>1, <2>2 DEF StreamTypes, Generators, Streams
  <2>6. PlaceInv'
    BY <1>0, <1>1, <2>1, <2>2, <2>3, <2>4 DEF PlaceInv, StreamTypes, Streams
  <2>7. /\ OnItsWay(s)' = <<>> /\ ~Due(s)'
        /\ \A t \in Streams \ {s} :
             UNCHANGED <<OnItsWay(t), Due(t), Given(t)>>
    <3>1. <<>> \o <<>> = <<>>
      BY ConcatEmptySeq, EmptySeq
    <3> QED
      BY <1>1, <2>3, <2>4, <3>1 DEF OnItsWay, Due, Given
  <2>8. \A t \in Streams : LineInv(t)'
    <3>1. LineInv(s)'
      <4>1. cursor \in Nat /\ Len(cache) \in Nat /\ cursor =< Len(cache)
        BY <1>0, <2>2, WayTyped DEF StreamTypes, ClientInv
      <4> QED
        BY <1>1, <2>4, <2>7, <4>1, EmptyRun DEF LineInv
    <3>2. ASSUME NEW t \in Streams \ {s} PROVE LineInv(t)'
      BY <1>0, <1>1, <2>4, <2>7 DEF LineInv
    <3> QED
      BY <3>1, <3>2
  <2>9. ClientInv'
    <3>1. Continues(<<>>, cursor) /\ cursor =< Len(cache)
      BY <1>0, EmptyRun DEF StreamTypes, ClientInv
    <3> QED
      BY <1>1, <2>1, <2>7, <3>1 DEF ClientInv
  <2> QED
    BY <2>5, <2>6, <2>8, <2>9 DEF StreamInv
<1> QED
  BY <1>2, <1>3

(* The client leaves its connection, and what was on the wire is lost. *)
LEMMA LeaveKeeps ==
  ASSUME StreamInv, client = "streaming", Leave,
         UNCHANGED <<cache, targets, pump, members, queue, from, generator,
                     stream, cursor>>
  PROVE  StreamInv'
<1>0. /\ StreamTypes /\ PlaceInv /\ (\A t \in Streams : LineInv(t))
      /\ ClientInv /\ stream \in Streams
  BY DEF StreamInv, PlaceInv
<1>1. /\ wire'[stream] = <<>> /\ client' # "streaming"
      /\ \A t \in Streams \ {stream} : wire'[t] = wire[t]
      /\ wire' = [wire EXCEPT ![stream] = <<>>]
  BY <1>0 DEF Leave, StreamTypes
<1>2. StreamTypes'
  BY <1>0, <1>1 DEF StreamTypes
<1>3. PlaceInv'
  <2>1. \A t \in Streams : wire[t] = <<>> => wire'[t] = <<>>
    BY <1>1
  <2> QED
    BY <1>0, <1>1, <2>1 DEF PlaceInv
<1>4. \A t : UNCHANGED <<Due(t), Given(t)>>
  BY DEF Due, Given
<1>5. LineInv(stream)'
  <2>1. /\ wire[stream] \in Seq(Nat) /\ queue[stream] \in Seq(Nat)
        /\ from[stream] \in Nat /\ Len(cache) \in Nat
        /\ Given(stream) \in Nat
    BY <1>0, WayTyped, GivenTyped
  <2>2. OnItsWay(stream)' = queue[stream]
    BY <1>1, <2>1, ConcatEmptySeq DEF OnItsWay
  <2>3. /\ Orderly(queue[stream], from[stream], Len(cache))
        /\ Due(stream) => Upto(queue[stream], Given(stream))
    BY <1>0, <2>1, RunSuffix DEF LineInv, OnItsWay
  <2> QED
    BY <1>0, <1>4, <2>2, <2>3 DEF LineInv
<1>6. ASSUME NEW t \in Streams \ {stream} PROVE LineInv(t)'
  <2>1. UNCHANGED OnItsWay(t)
    BY <1>1 DEF OnItsWay
  <2> QED
    BY <1>0, <1>4, <2>1 DEF LineInv
<1>7. \A t \in Streams : LineInv(t)'
  BY <1>5, <1>6
<1>8. ClientInv'
  BY <1>0, <1>1 DEF ClientInv
<1> QED
  BY <1>2, <1>3, <1>7, <1>8 DEF StreamInv

LEMMA ReceiveKeeps ==
  ASSUME StreamInv, Receive
  PROVE  StreamInv'
<1>0. /\ StreamTypes /\ PlaceInv /\ (\A t \in Streams : LineInv(t))
      /\ ClientInv
  BY DEF StreamInv
<1>1. /\ client = "streaming" /\ wire[stream] # <<>>
      /\ UNCHANGED <<cache, targets, pump, members, queue, from, generator,
                     stream>>
      /\ stream \in Streams
  BY <1>0 DEF Receive, pumping, serving, PlaceInv
<1> DEFINE e == Head(wire[stream])
<1>2. CASE e = Done \/ e > cursor + 1
  <2>1. Leave /\ UNCHANGED cursor
    BY <1>2 DEF Receive
  <2> QED
    BY <1>1, <2>1, LeaveKeeps
<1>3. CASE e # Done /\ ~(e > cursor + 1)
  <2> DEFINE v == Tail(wire[stream]) \o queue[stream]
  <2>1. /\ wire' = [wire EXCEPT ![stream] = Tail(wire[stream])]
        /\ cursor' = IF e = cursor + 1 THEN e ELSE cursor
    BY <1>3 DEF Receive
  <2>2. /\ wire[stream] \in Seq(Nat) /\ queue[stream] \in Seq(Nat)
        /\ from[stream] \in Nat /\ Len(cache) \in Nat /\ cursor \in Nat
        /\ Given(stream) \in Nat
    BY <1>0, <1>1, WayTyped, GivenTyped DEF StreamTypes
  <2>3. /\ wire[stream] = <<e>> \o Tail(wire[stream]) /\ e \in Nat
        /\ Tail(wire[stream]) \in Seq(Nat) /\ <<e>> \in Seq(Nat)
    BY <1>1, <2>2, HeadFirst
  <2> HIDE DEF e
  <2>4. v \in Seq(Nat) /\ OnItsWay(stream) = <<e>> \o v
    <3>1. v \in Seq(Nat)
      BY <2>2, <2>3, ConcatProperties
    <3>2. (<<e>> \o Tail(wire[stream])) \o queue[stream]
            = <<e>> \o (Tail(wire[stream]) \o queue[stream])
      BY <2>2, <2>3, ConcatFirst
    <3> QED
      BY <2>3, <3>1, <3>2 DEF OnItsWay
  <2>5. /\ wire'[stream] = Tail(wire[stream])
        /\ \A t \in Streams \ {stream} : wire'[t] = wire[t]
    BY <1>0, <1>1, <2>1 DEF StreamTypes
  <2>6. OnItsWay(stream)' = v
    BY <1>1, <2>5 DEF OnItsWay
  <2> HIDE DEF v
  <2>7. /\ Orderly(<<e>> \o v, from[stream], Len(cache))
        /\ Due(stream) => Upto(<<e>> \o v, Given(stream))
                          /\ from[stream] =< Given(stream)
        /\ from[stream] =< Len(cache)
    BY <1>0, <1>1, <2>4 DEF LineInv
  <2>8. /\ Continues(<<e>> \o v, cursor)
        /\ Due(stream) => Holds(<<e>> \o v, cursor, Given(stream))
    BY <1>0, <1>1, <2>4 DEF ClientInv
  <2>9. /\ e = cursor + 1 /\ e =< Len(cache) /\ Continues(v, e)
        /\ Due(stream) => Holds(v, e, Given(stream)) /\ e =< Given(stream)
    BY <1>3, <2>2, <2>3, <2>4, <2>7, <2>8, FirstApplied
  <2>10. /\ Orderly(v, from[stream], Len(cache))
         /\ Due(stream) => Upto(v, Given(stream))
    BY <2>2, <2>3, <2>4, <2>7, RunSuffix
  <2>11. \A t : UNCHANGED <<Due(t), Given(t)>>
    BY <1>1 DEF Due, Given
  <2>12. cursor' = e
    BY <2>1, <2>9
  <2>13. StreamTypes'
    BY <1>0, <1>1, <2>1, <2>3, <2>12 DEF StreamTypes
  <2>14. PlaceInv'
    <3>1. generator[stream] \notin {"none", "open"}
      BY <1>0, <1>1 DEF PlaceInv
    <3>2. \A t \in Streams : generator[t] \in {"none", "open"} =>
            wire'[t] = wire[t]
      BY <2>5, <3>1
    <3> QED
      BY <1>0, <1>1, <3>1, <3>2 DEF PlaceInv
  <2>15. LineInv(stream)'
    BY <1>1, <2>6, <2>7, <2>10, <2>11 DEF LineInv
  <2>16. ASSUME NEW t \in Streams \ {stream} PROVE LineInv(t)'
    <3>1. UNCHANGED OnItsWay(t)
      BY <1>1, <2>5 DEF OnItsWay
    <3> QED
      BY <1>0, <1>1, <2>11, <3>1 DEF LineInv
  <2>17. \A t \in Streams : LineInv(t)'
    BY <1>1, <2>15, <2>16
  <2>18. ClientInv'
    BY <1>1, <2>6, <2>9, <2>11, <2>12 DEF ClientInv
  <2> QED
    BY <2>13, <2>14, <2>17, <2>18 DEF StreamInv
<1> QED
  BY <1>2, <1>3

-----------------------------------------------------------------------------
LEMMA StreamsKeep ==
  ASSUME StreamInv, [Next]_vars
  PROVE  StreamInv'
<1>1. CASE Publish \/ EndSession \/ EndBuffer
  BY <1>1, QuietStreams
     DEF Publish, EndSession, EndBuffer, pumping, serving, browser
<1>2. CASE MarkClosed \/ JoinPump \/ CloseBackend \/ UNCHANGED vars
  BY <1>2, QuietStreams
     DEF MarkClosed, JoinPump, CloseBackend, vars, pumping, serving, browser
<1>3. ASSUME NEW s \in Streams, Serve(s)
      PROVE  StreamInv'
  <2>1. CASE Attach(s) \/ StartPump(s) \/ Yield(s)
    BY <2>1, AttachKeeps, StartKeeps, YieldKeeps
  <2>2. CASE Detach(s)
    <3>1. /\ generator[s] # "none"
          /\ generator' = [generator EXCEPT ![s] = "ended"]
          /\ members' = members \ {s}
          /\ queue' = [queue EXCEPT ![s] = <<>>]
          /\ UNCHANGED <<wire, cache, targets, from, pump, stream, client,
                         cursor>>
      BY <2>2 DEF Detach, pumping, browser
    <3> QED
      BY <3>1, EndKeeps
  <2> QED
    BY <1>3, <2>1, <2>2 DEF Serve
<1>4. CASE PumpNext
  <2>1. CASE /\ cache' = Append(cache, Len(cache) + 1)
             /\ targets' = members /\ pump' = "put"
    BY <1>4, <2>1, CacheKeeps DEF PumpNext, serving, browser
  <2>2. CASE pump' = "finish" /\ UNCHANGED <<cache, targets>>
    <3>1. /\ pump = "next"
          /\ UNCHANGED <<queue, wire, from, generator, members, stream,
                         cursor, client>>
      BY <1>4 DEF PumpNext, serving, browser
    <3>2. StreamTypes' /\ PlaceInv'
      BY <2>2, <3>1 DEF StreamInv, StreamTypes, PlaceInv
    <3>3. \A s : UNCHANGED <<OnItsWay(s), Due(s), Given(s)>>
      BY <2>2, <3>1 DEF OnItsWay, Due, Given
    <3>4. ClientInv' /\ \A s \in Streams : LineInv(s)'
      BY <2>2, <3>1, <3>3 DEF StreamInv, ClientInv, LineInv
    <3> QED
      BY <3>2, <3>4 DEF StreamInv
  <2> QED
    BY <1>4, <2>1, <2>2 DEF PumpNext
<1>5. CASE PumpPut
  BY <1>5, PutKeeps
<1>6. CASE PumpFinish \/ ClosePump
  BY <1>6, DismissKeeps DEF PumpFinish, ClosePump, browser
<1>7. CASE Connect \/ Receive
  BY <1>7, ConnectKeeps, ReceiveKeeps
<1>8. CASE Break
  BY <1>8, LeaveKeeps DEF Break, pumping, serving
<1> QED
  BY <1>1, <1>2, <1>3, <1>4, <1>5, <1>6, <1>7, <1>8
     DEF Next, Pump, Closing

LEMMA StreamsStart == Init => StreamInv
<1> SUFFICES ASSUME Init PROVE StreamInv
  OBVIOUS
<1>1. /\ cache = <<>> /\ targets = {} /\ members = {} /\ pump = "none"
      /\ queue = [s \in Streams |-> <<>>] /\ wire = [s \in Streams |-> <<>>]
      /\ from = [s \in Streams |-> 0]
      /\ generator = [s \in Streams |-> "none"]
      /\ stream = 0 /\ client = "backoff" /\ cursor = 0
  BY DEF Init
<1>2. Len(cache) = 0 /\ cache \in Seq(Nat)
  BY <1>1
<1>3. StreamTypes /\ PlaceInv
  BY <1>1, <1>2, StreamAssumption
     DEF StreamTypes, PlaceInv, Generators, Streams
<1>4. \A s \in Streams : OnItsWay(s) = <<>> /\ ~Due(s)
  BY <1>1, ConcatEmptySeq, EmptySeq DEF OnItsWay, Due
<1>5. \A s \in Streams : LineInv(s)
  BY <1>1, <1>2, <1>4, EmptyRun DEF LineInv
<1>6. ClientInv
  BY <1>1, <1>2 DEF ClientInv
<1> QED
  BY <1>3, <1>5, <1>6 DEF StreamInv

(* For any number of events, connections and attempts, whatever            *)
(* connections break and wherever in its delivery the pump is when a       *)
(* subscription attaches or ends: what is on its way to a client is in     *)
(* order, without a gap, and continues what the client has applied         *)
(* (registry.py, subscribe and _run; app.py, _event_stream).               *)
THEOREM StreamsContiguous == StreamSpec => []StreamContiguous
<1>1. StreamInv => StreamContiguous
  BY DEF StreamInv, LineInv, ClientInv, Orderly, StreamContiguous
<1> QED
  BY <1>1, StreamsStart, StreamsKeep, PTL DEF StreamSpec

=============================================================================

------------------------- MODULE ModelRequestProofs -------------------------
(***************************************************************************)
(* What holds of every model request, whatever the window, the sizes of    *)
(* the groups and of the summaries, the limits on compactions and retries  *)
(* and the length of the conversation.                                     *)
(***************************************************************************)
EXTENDS ModelRequest, FiniteSetTheorems, TLAPS

-----------------------------------------------------------------------------
(* Numbers: the least and the greatest of a set, and products. *)

LessThan == {p \in Nat \X Nat : p[1] < p[2]}

LEMMA LessThanWellFounded == IsWellFoundedOn(LessThan, Nat)
  BY NatLessThanWellFounded DEF LessThan, OpToRel

LEMMA LeastNumber ==
  ASSUME NEW g, g \subseteq Nat, g # {}
  PROVE  \E m \in g : \A j \in g : m =< j
  <1>1. \E m \in g : \A j \in g : ~(<<j, m>> \in LessThan)
    BY LessThanWellFounded, WFMin
  <1>2. \A j, m \in Nat : j < m => <<j, m>> \in LessThan
    BY DEF LessThan
  <1>3. ASSUME NEW m \in g, \A j \in g : ~(<<j, m>> \in LessThan)
        PROVE  \A j \in g : m =< j
    <2> TAKE j \in g
    <2>1. j \in Nat /\ m \in Nat /\ ~(j < m)
      BY <1>2, <1>3
    <2> QED BY <2>1
  <1> QED BY <1>1, <1>3

(* A bounded set has a greatest element: its least upper bound. *)
LEMMA GreatestNumber ==
  ASSUME NEW g, g \subseteq Nat, g # {}, NEW n \in Nat, \A j \in g : j =< n
  PROVE  \E m \in g : \A j \in g : j =< m
  <1> DEFINE above == {u \in Nat : \A j \in g : j =< u}
  <1>1. above \subseteq Nat /\ n \in above
    OBVIOUS
  <1>2. \E m \in above : \A u \in above : m =< u
    <2> HIDE DEF above
    <2> QED BY <1>1, LeastNumber
  <1>3. PICK m \in above : \A u \in above : m =< u
    BY <1>2
  <1>4. m \in g
    <2> SUFFICES ASSUME m \notin g PROVE FALSE
      OBVIOUS
    <2>1. PICK s \in g : TRUE
      OBVIOUS
    <2>2. s \in Nat /\ s =< m /\ s # m
      BY <2>1
    <2>3. m - 1 \in Nat /\ \A j \in g : j =< m - 1
      BY <2>2
    <2> QED BY <1>3, <2>3
  <1> QED BY <1>3, <1>4

LEMMA LargestIs ==
  ASSUME NEW g, g \subseteq Nat, NEW n \in g, \A j \in g : j =< n
  PROVE  Largest(g) = n
  <1>1. \E i \in g : \A j \in g : i >= j
    OBVIOUS
  <1>2. Largest(g) \in g /\ \A j \in g : Largest(g) >= j
    BY <1>1 DEF Largest
  <1>3. Largest(g) \in Nat /\ n \in Nat
        /\ Largest(g) =< n /\ n =< Largest(g)
    BY <1>2
  <1> QED BY <1>3

LEMMA SmallestIn ==
  ASSUME NEW g, g \subseteq Nat, g # {}
  PROVE  Smallest(g) \in g
  BY LeastNumber DEF Smallest

(* One more call costs one more round of attempts. *)
LEMMA OneMoreRound ==
  ASSUME NEW n \in Nat, NEW m \in Nat
  PROVE  n * m \in Nat /\ (n + 1) * m = n * m + m
  OBVIOUS

LEMMA MoreRounds ==
  ASSUME NEW k \in Nat, NEW n \in Nat, NEW m \in Nat, k =< n
  PROVE  k * m =< n * m
  OBVIOUS

-----------------------------------------------------------------------------
(***************************************************************************)
(* Sizes.  A set of groups has a size, and a part of it is not larger.     *)
(***************************************************************************)
LEMMA TokensFinite ==
  ASSUME groups \in Seq(Nat), NEW g, g \subseteq DOMAIN groups
  PROVE  IsFiniteSet(g) /\ IsFiniteSet(Tokens(g))
  <1>1. Len(groups) \in Nat /\ DOMAIN groups = 1 .. Len(groups)
    OBVIOUS
  <1>2. IsFiniteSet(1 .. Len(groups))
    BY <1>1, FS_Interval
  <1>3. IsFiniteSet(g)
    BY <1>1, <1>2, FS_Subset
  <1> DEFINE part(i) == {i} \X (1 .. groups[i])
             parts == {part(i) : i \in g}
             f == [i \in g |-> part(i)]
  <1>4. f \in Surjection(g, parts)
    BY DEF Surjection
  <1>5. IsFiniteSet(parts)
    <2> HIDE DEF f, parts
    <2> QED BY <1>3, <1>4, FS_Surjection
  <1>6. ASSUME NEW p \in parts PROVE IsFiniteSet(p)
    <2>1. PICK i \in g : p = {i} \X (1 .. groups[i])
      BY <1>6
    <2>2. groups[i] \in Nat
      BY <1>1
    <2>3. IsFiniteSet(1 .. groups[i])
      BY <2>2, FS_Interval
    <2>4. IsFiniteSet({i})
      BY FS_Singleton
    <2> QED BY <2>1, <2>3, <2>4, FS_Product
  <1>7. IsFiniteSet(UNION parts)
    <2> HIDE DEF parts
    <2> QED BY <1>5, <1>6, FS_UNION
  <1>8. Tokens(g) = UNION parts
    BY DEF Tokens
  <1> QED BY <1>3, <1>7, <1>8

LEMMA SizeType ==
  ASSUME groups \in Seq(Nat), NEW g, g \subseteq DOMAIN groups
  PROVE  SizeOf(g) \in Nat /\ Cardinality(g) \in Nat
  BY TokensFinite, FS_CardinalityType DEF SizeOf

LEMMA SizeGrows ==
  ASSUME groups \in Seq(Nat), NEW g, g \subseteq DOMAIN groups,
         NEW h, h \subseteq g
  PROVE  SizeOf(h) =< SizeOf(g) /\ Cardinality(h) =< Cardinality(g)
  <1>1. Tokens(h) \subseteq Tokens(g)
    BY DEF Tokens
  <1> QED BY <1>1, TokensFinite, FS_Subset DEF SizeOf

-----------------------------------------------------------------------------
(***************************************************************************)
(* The invariant.                                                          *)
(***************************************************************************)

(* The groups a summary up to group m is about. *)
UpTo(m) ==
  {i \in DOMAIN groups : i >= first /\ i > context.covered /\ i =< m}

(* A cutoff that leaves the newest group alone. *)
Behind(n) == n = 0 \/ n < Len(groups)

CutBehind(c) == Behind(c.covered) /\ Behind(c.degraded)

(* What is left out of a request is summarised, or the model is told. *)
Accounted(c) ==
  1 .. c.covered \subseteq c.summary.about /\ (c.notice \/ c.degraded = 0)

Busy == pc \notin {"idle", "raised"}

(* The log has what memory had when the compaction under way began. *)
LogInv ==
  /\ pc # "publish" => context = logged
  /\ pc \in {"summary", "publish"} => saved = logged

(* No cutoff reaches the newest group, and the source of a summary is a   *)
(* stretch of the conversation that starts where the last one ended.      *)
PlaceInv ==
  /\ CutBehind(context) /\ CutBehind(saved) /\ CutBehind(logged)
  /\ first = 1 \/ first =< Len(groups)
  /\ Busy => Len(groups) > 0
  /\ pc = "summary" =>
       \E m \in source : m < Len(groups) /\ source = UpTo(m)

LossInv ==
  resumes = 0 =>
    first = 1 /\ Accounted(context) /\ Accounted(saved) /\ Accounted(logged)

FitInv ==
  /\ pc \in {"send", "request"} => FitsWindow(context)
  /\ pc = "summary" => SourceSize(source) =< Window

Repeated == IF forced THEN 1 ELSE 0

(* Every compaction and every request so far has had its attempts. *)
CallsInv ==
  /\ compactions =< MaxCompactions + Repeated
  /\ pc = "prepare" => compactions =< MaxCompactions
  /\ pc = "overflow" => ~forced
  /\ pc = "summary" => compactions > 0

Paid(n) == n * MaxAttempts

SendsInv ==
  /\ sends =< Paid(MaxCompactions + 3)
  /\ pc \in {"prepare", "settle", "send", "publish"} =>
       sends =< Paid(compactions + Repeated)
  /\ pc = "summary" =>
       sends =< Paid(compactions + Repeated - 1) + attempt
  /\ pc = "request" => sends =< Paid(compactions + Repeated) + attempt
  /\ pc = "overflow" => sends =< Paid(compactions + 1)

(* No call begins after a stop. *)
LateInv ==
  /\ late =< MaxAttempts
  /\ stop = "none" => late = 0
  /\ Calling => late =< attempt

RequestInv ==
  /\ RequestTypeOK /\ LogInv /\ PlaceInv /\ LossInv /\ FitInv
  /\ CallsInv /\ SendsInv /\ LateInv

-----------------------------------------------------------------------------
(***************************************************************************)
(* The plan of a compaction.                                               *)
(***************************************************************************)
LEMMA Configured ==
  /\ Window \in Nat /\ Trigger \in Nat /\ Trigger =< Window /\ Fixed \in Nat
  /\ SourceFixed \in Nat /\ Quote \in Nat /\ Notice \in Nat
  /\ MaxAttempts \in Nat /\ MaxAttempts > 0
  /\ MaxCompactions \in Nat /\ MaxCompactions > 0
  /\ KeepRecent \in Nat /\ KeepRecent > 0 /\ MaxGroups \in Nat
  /\ MaxResumes \in Nat
  /\ GroupSizes \subseteq Nat \ {0} /\ SummarySizes \subseteq Nat \ {0}
  BY RequestAssumption
  DEF RequestAssumption, ContextConfigured, CompactorConfigured,
      RetryConfigured

LEMMA ContextTyped ==
  ASSUME NEW c \in Contexts
  PROVE  /\ c.summary.tokens \in Nat /\ c.summary.about \subseteq Nat \ {0}
         /\ c.covered \in Nat /\ c.degraded \in Nat /\ c.notice \in BOOLEAN
         /\ Cutoff(c) \in Nat
  BY DEF Contexts, Cutoff, Greater

LEMMA GroupsTyped ==
  ASSUME RequestTypeOK
  PROVE  /\ groups \in Seq(Nat) /\ Len(groups) \in Nat
         /\ DOMAIN groups = 1 .. Len(groups)
  <1>1. groups \in Seq(GroupSizes) /\ GroupSizes \subseteq Nat
    BY Configured DEF RequestTypeOK
  <1>2. groups \in [1 .. Len(groups) -> GroupSizes] /\ Len(groups) \in Nat
    BY <1>1
  <1>3. groups \in [1 .. Len(groups) -> Nat]
    BY <1>1, <1>2
  <1> QED BY <1>2, <1>3

LEMMA SizesTyped ==
  ASSUME RequestTypeOK, NEW c \in Contexts, NEW g, g \subseteq DOMAIN groups
  PROVE  ProjectionSize(c) \in Nat /\ SourceSize(g) \in Nat
  <1>1. Effective(c) \subseteq DOMAIN groups
    BY DEF Effective
  <1>2. SizeOf(Effective(c)) \in Nat /\ SizeOf(g) \in Nat
        /\ Cardinality(g) \in Nat
    BY <1>1, GroupsTyped, SizeType
  <1>3. ProjectionSize(c) \in Nat
    BY <1>2, Configured, ContextTyped DEF ProjectionSize
  <1>4. Quote * Cardinality(g) \in Nat
    BY <1>2, Configured
  <1>5. context.summary.tokens \in Nat
    BY ContextTyped DEF RequestTypeOK
  <1> QED BY <1>2, <1>3, <1>4, <1>5, Configured DEF SourceSize

(* A part of a source is not larger than the source. *)
LEMMA SourceGrows ==
  ASSUME RequestTypeOK, NEW g, g \subseteq DOMAIN groups,
         NEW h, h \subseteq g
  PROVE  SourceSize(h) =< SourceSize(g)
  <1>1. /\ SizeOf(g) \in Nat /\ SizeOf(h) \in Nat
        /\ Cardinality(g) \in Nat /\ Cardinality(h) \in Nat
    BY GroupsTyped, SizeType
  <1>2. SizeOf(h) =< SizeOf(g) /\ Cardinality(h) =< Cardinality(g)
    BY GroupsTyped, SizeGrows
  <1>3. Quote * Cardinality(h) =< Quote * Cardinality(g)
        /\ Quote * Cardinality(h) \in Nat /\ Quote * Cardinality(g) \in Nat
    <2>1. Cardinality(h) * Quote =< Cardinality(g) * Quote
      BY <1>1, <1>2, Configured, MoreRounds
    <2> QED BY <1>1, <2>1, Configured
  <1>4. context.summary.tokens \in Nat
    BY ContextTyped DEF RequestTypeOK
  <1> QED BY <1>1, <1>2, <1>3, <1>4, Configured DEF SourceSize

LEMMA PlanBehind ==
  ASSUME RequestTypeOK
  PROVE  \A i \in Plan : /\ i \in DOMAIN groups /\ i \in Nat \ {0}
                         /\ i < Len(groups)
                         /\ {j \in Plan : j =< i} = UpTo(i)
  <1>1. Retained \in Nat /\ Retained > 0
    BY Configured DEF Retained
  <1>2. Len(groups) \in Nat /\ DOMAIN groups = 1 .. Len(groups)
    BY GroupsTyped
  <1> QED BY <1>1, <1>2 DEF Plan, UpTo

(* What is taken of the plan is all of it up to some group, and it fits. *)
LEMMA BoundedIs ==
  ASSUME RequestTypeOK, Bounded(Plan) # {}
  PROVE  /\ SourceSize(Bounded(Plan)) =< Window
         /\ \E m \in Bounded(Plan) : /\ m < Len(groups)
                                     /\ Bounded(Plan) = UpTo(m)
  <1> DEFINE upto(i) == {j \in Plan : j =< i}
  <1>1. Bounded(Plan) \subseteq Plan /\ Plan \subseteq Nat
        /\ Plan \subseteq DOMAIN groups
    BY PlanBehind DEF Bounded
  <1>2. \A j \in Bounded(Plan) : j =< Len(groups)
    <2>1. \A j \in Plan : j \in Nat /\ j < Len(groups)
      BY PlanBehind
    <2>2. Len(groups) \in Nat
      BY GroupsTyped
    <2> TAKE j \in Bounded(Plan)
    <2>3. j \in Nat /\ j < Len(groups)
      BY <1>1, <2>1
    <2> QED BY <2>2, <2>3
  <1>3. \E m \in Bounded(Plan) : \A j \in Bounded(Plan) : j =< m
    BY <1>1, <1>2, GroupsTyped, GreatestNumber
  <1>4. PICK m \in Bounded(Plan) : \A j \in Bounded(Plan) : j =< m
    BY <1>3
  <1>5. SourceSize(upto(m)) =< Window
    BY <1>4 DEF Bounded
  <1>6. ASSUME NEW i \in upto(m) PROVE i \in Bounded(Plan)
    <2>1. i \in Nat /\ m \in Nat /\ i =< m /\ i \in Plan
      BY <1>1
    <2>2. upto(i) \subseteq upto(m) /\ upto(m) \subseteq DOMAIN groups
      <3>1. \A j \in Plan : j \in Nat /\ (j =< i => j =< m)
        BY <1>1, <2>1
      <3> QED BY <1>1, <3>1
    <2>3. SourceSize(upto(i)) =< SourceSize(upto(m))
      BY <2>2, SourceGrows
    <2>4. SourceSize(upto(i)) \in Nat /\ SourceSize(upto(m)) \in Nat
      <3>1. upto(i) \subseteq DOMAIN groups
        BY <1>1
      <3>2. context \in Contexts
        BY DEF RequestTypeOK
      <3> QED BY <2>2, <3>1, <3>2, SizesTyped
    <2>5. SourceSize(upto(i)) =< Window
      BY <1>5, <2>3, <2>4, Configured
    <2> QED BY <2>1, <2>5 DEF Bounded
  <1>7. Bounded(Plan) = upto(m)
    BY <1>1, <1>4, <1>6
  <1>8. m < Len(groups) /\ upto(m) = UpTo(m)
    BY <1>1, PlanBehind
  <1> QED BY <1>5, <1>7, <1>8

LEMMA CompactStep ==
  ASSUME RequestTypeOK, Compact
  PROVE  /\ compactions' = compactions + 1 /\ saved' = context
         /\ UNCHANGED <<first, forced, sends, late>>
         /\ source' \subseteq Nat \ {0}
         /\ \/ /\ pc' = "summary" /\ attempt' = 0 /\ UNCHANGED context
               /\ SourceSize(source') =< Window
               /\ \E m \in source' : /\ m < Len(groups)
                                     /\ source' = UpTo(m)
            \/ /\ pc' = "publish" /\ UNCHANGED attempt
               /\ \E m \in Nat \ {0} :
                    m < Len(groups) /\ context' = Degraded(m)
  <1>1. Plan # {} /\ Plan \subseteq Nat \ {0} /\ Plan \subseteq Nat
    BY PlanBehind DEF Compact
  <1>2. CASE Bounded(Plan) # {}
    <2>1. source' = Bounded(Plan) /\ pc' = "summary" /\ attempt' = 0
          /\ UNCHANGED context
      BY <1>2 DEF Compact
    <2>2. source' \subseteq Nat \ {0}
      BY <1>1, <2>1 DEF Bounded
    <2>3. SourceSize(Bounded(Plan)) =< Window
          /\ \E m \in Bounded(Plan) : m < Len(groups)
                                      /\ Bounded(Plan) = UpTo(m)
      BY <1>2, BoundedIs
    <2> QED BY <2>1, <2>2, <2>3 DEF Compact
  <1>3. CASE ~(Bounded(Plan) # {})
    <2>1. Smallest(Plan) \in Plan
      BY <1>1, SmallestIn
    <2>2. /\ source' = {Smallest(Plan)} /\ pc' = "publish"
          /\ UNCHANGED attempt
          /\ context' = Degraded(Smallest(Plan))
      BY <1>3 DEF Compact
    <2>3. Smallest(Plan) \in Nat \ {0} /\ Smallest(Plan) < Len(groups)
      BY <2>1, PlanBehind
    <2>4. source' \subseteq Nat \ {0}
      BY <2>2, <2>3
    <2> QED BY <2>2, <2>3, <2>4 DEF Compact
  <1> QED BY <1>2, <1>3

(* The source of a summary reaches up to a group, its largest. *)
LEMMA SourceReaches ==
  ASSUME RequestTypeOK, NEW m \in source, source = UpTo(m)
  PROVE  Largest(source) = m /\ m \in Nat \ {0}
  <1>1. source \subseteq Nat /\ m \in Nat \ {0}
    BY DEF RequestTypeOK
  <1>2. \A j \in source : j =< m
    BY DEF UpTo
  <1> QED BY <1>1, <1>2, LargestIs

-----------------------------------------------------------------------------
(***************************************************************************)
(* What the steps do.                                                      *)
(***************************************************************************)
Others == <<groups, logged, stop, storeFailed, resumes>>

LEMMA TriggerFits ==
  ASSUME RequestTypeOK, ~NeedsCompaction(context)
  PROVE  FitsWindow(context)
  <1>1. context \in Contexts
    BY DEF RequestTypeOK
  <1>2. ProjectionSize(context) \in Nat
    BY <1>1, SizesTyped
  <1> QED BY <1>2, Configured DEF NeedsCompaction, FitsWindow

LEMMA PrepareStep ==
  ASSUME RequestTypeOK, Prepare
  PROVE  /\ pc = "prepare" /\ UNCHANGED Others
         /\ \/ /\ pc' \in {"send", "raised"} /\ UNCHANGED <<memory, call>>
               /\ pc' = "send" => FitsWindow(context)
            \/ /\ stop = "none" /\ Compact
               /\ forced \/ compactions < MaxCompactions
  BY TriggerFits DEF Prepare, Raise, Allowed, Settle, Others

LEMMA SettleStep ==
  ASSUME SettleContext
  PROVE  /\ pc = "settle" /\ UNCHANGED Others /\ UNCHANGED <<memory, call>>
         /\ pc' \in {"send", "raised"}
         /\ pc' = "send" => FitsWindow(context)
  BY DEF SettleContext, Raise, Settle, Others

CallEnds == \E category \in Categories : SendFails(category)

ServiceStep == SendRetry \/ CallEnds \/ SummaryArrives \/ AnswerArrives

LEMMA CallStep ==
  ASSUME RequestTypeOK, ServiceStep
  PROVE  /\ Calling /\ CountSend /\ attempt < MaxAttempts
         /\ UNCHANGED <<groups, first, saved, logged, stop, resumes>>
         /\ storeFailed' \in BOOLEAN
         /\ \/ UNCHANGED <<pc, context>>
            \/ /\ pc = "request" /\ pc' \in {"idle", "overflow", "raised"}
               /\ pc' = "overflow" => ~forced
               /\ UNCHANGED context
            \/ /\ pc = "summary" /\ pc' = "publish"
               /\ \/ context' = Degraded(Largest(source))
                  \/ \E tokens \in SummarySizes :
                       context' = Summarised(tokens)
  <1>1. CASE SendRetry
    <2>1. attempt < MaxAttempts
      BY <1>1, Configured DEF SendRetry, RequestTypeOK
    <2>2. storeFailed' \in BOOLEAN
      BY <1>1 DEF SendRetry, Record, Refuse, RequestTypeOK
    <2> QED BY <1>1, <2>1, <2>2
            DEF SendRetry, Record, Refuse, CallFails, CompactionFails,
                Calling, memory
  <1>2. CASE CallEnds
    BY <1>2 DEF CallEnds, SendFails, CallFails, CompactionFails, Calling,
                memory, RequestTypeOK
  <1>3. CASE SummaryArrives
    BY <1>3 DEF SummaryArrives, Calling, RequestTypeOK
  <1>4. CASE AnswerArrives
    BY <1>4 DEF AnswerArrives, Calling, memory, RequestTypeOK
  <1> QED BY <1>1, <1>2, <1>3, <1>4 DEF ServiceStep

(* The steps, with those that answer a call taken together. *)
StepKinds ==
  \/ \E size \in GroupSizes : AddGroup(size)
  \/ Begin
  \/ Prepare
  \/ ServiceStep
  \/ Publish
  \/ SettleContext
  \/ Send
  \/ RetryOverflow
  \/ Stop
  \/ Resume
  \/ UNCHANGED vars

LEMMA Kinds == ASSUME [RequestNext]_vars PROVE StepKinds
  BY DEF RequestNext, RequestStep, StepKinds, ServiceStep, CallEnds

-----------------------------------------------------------------------------
(***************************************************************************)
(* The invariant is kept.                                                *)
(***************************************************************************)
LEMMA EmptyTyped ==
  EmptyContext \in Contexts /\ Accounted(EmptyContext)
  BY DEF EmptyContext, NoSummary, Contexts, Accounted

LEMMA CountersTyped ==
  0 \in 0 .. MaxCompactions + 1 /\ 0 \in 0 .. MaxAttempts
  BY Configured

(* What a compaction that is under way may make of the context. *)
LEMMA SourceTyped ==
  ASSUME RequestTypeOK, PlaceInv, pc = "summary"
  PROVE  /\ Largest(source) \in source
         /\ Largest(source) \in Nat \ {0} /\ Largest(source) < Len(groups)
         /\ source = UpTo(Largest(source))
  <1>1. PICK m \in source : m < Len(groups) /\ source = UpTo(m)
    BY DEF PlaceInv
  <1> QED BY <1>1, SourceReaches

LEMMA DegradedTyped ==
  ASSUME RequestTypeOK, NEW m \in Nat \ {0}
  PROVE  Degraded(m) \in Contexts
  <1>1. context \in Contexts
    BY DEF RequestTypeOK
  <1> QED BY <1>1, ContextTyped DEF Contexts, Degraded, Greater

LEMMA SummarisedTyped ==
  ASSUME RequestTypeOK, PlaceInv, pc = "summary", NEW tokens \in SummarySizes
  PROVE  Summarised(tokens) \in Contexts
  <1>1. context \in Contexts /\ source \subseteq Nat \ {0}
        /\ tokens \in Nat
    BY Configured DEF RequestTypeOK
  <1> QED BY <1>1, ContextTyped, SourceTyped DEF Contexts, Summarised

LEMMA TypeNext ==
  ASSUME RequestTypeOK, PlaceInv, CallsInv, [RequestNext]_vars
  PROVE  RequestTypeOK'
  <1>1. CASE \E size \in GroupSizes : AddGroup(size)
    <2> PICK size \in GroupSizes : AddGroup(size)
      BY <1>1
    <2>1. groups' \in Seq(GroupSizes)
      BY DEF AddGroup, RequestTypeOK
    <2> QED BY <2>1 DEF AddGroup, memory, call, RequestTypeOK
  <1>2. CASE Begin
    BY <1>2, CountersTyped DEF Begin, memory, RequestTypeOK, ControlPoints
  <1>3. CASE Prepare
    <2>1. CASE pc' \in {"send", "raised"} /\ UNCHANGED <<memory, call>>
      <3>1. UNCHANGED Others
        BY <1>3, PrepareStep
      <3> QED BY <2>1, <3>1
              DEF Others, memory, call, RequestTypeOK, ControlPoints
    <2>2. CASE Compact
      <3>1. compactions + 1 \in 0 .. MaxCompactions + 1
        BY <1>3, <2>2, PrepareStep, CompactStep, Configured
        DEF RequestTypeOK, CallsInv, Repeated
      <3>2. context' \in Contexts
        BY <2>2, CompactStep, DegradedTyped DEF RequestTypeOK
      <3> QED BY <1>3, <2>2, <3>1, <3>2, PrepareStep, CompactStep, Configured
              DEF Others, RequestTypeOK, ControlPoints
    <2> QED BY <1>3, <2>1, <2>2, PrepareStep
  <1>4. CASE ServiceStep
    <2>1. context' \in Contexts
      BY <1>4, CallStep, SourceTyped, DegradedTyped, SummarisedTyped
      DEF RequestTypeOK
    <2>2. attempt + 1 \in 0 .. MaxAttempts
      BY <1>4, CallStep, Configured DEF RequestTypeOK
    <2>3. pc' \in ControlPoints
      BY <1>4, CallStep DEF RequestTypeOK, ControlPoints
    <2>4. sends' \in Nat /\ late' \in Nat
      BY <1>4, CallStep DEF CountSend, RequestTypeOK
    <2> QED BY <1>4, <2>1, <2>2, <2>3, <2>4, CallStep
            DEF CountSend, RequestTypeOK
  <1>5. CASE Publish
    BY <1>5, EmptyTyped
    DEF Publish, Record, Refuse, Raise, RequestTypeOK, ControlPoints
  <1>6. CASE SettleContext
    BY <1>6, SettleStep DEF Others, memory, call, RequestTypeOK, ControlPoints
  <1>7. CASE Send
    BY <1>7, CountersTyped DEF Send, memory, RequestTypeOK, ControlPoints
  <1>8. CASE RetryOverflow
    BY <1>8
    DEF RetryOverflow, Record, Refuse, Raise, memory, RequestTypeOK,
        ControlPoints
  <1>9. CASE Stop
    BY <1>9 DEF Stop, memory, call, RequestTypeOK, ControlPoints
  <1>10. CASE Resume
    <2>1. Cutoff(logged) + 1 \in Nat \ {0}
      BY ContextTyped DEF RequestTypeOK
    <2>2. resumes + 1 \in 0 .. MaxResumes
      BY <1>10, Configured DEF Resume, RequestTypeOK
    <2> QED BY <1>10, <2>1, <2>2, EmptyTyped, CountersTyped
            DEF Resume, RequestTypeOK, ControlPoints
  <1>11. CASE UNCHANGED vars
    BY <1>11 DEF vars, memory, call, RequestTypeOK, ControlPoints
  <1> QED
    BY Kinds, <1>1, <1>2, <1>3, <1>4, <1>5, <1>6, <1>7, <1>8, <1>9, <1>10,
       <1>11
    DEF StepKinds

LEMMA LogNext ==
  ASSUME RequestTypeOK, LogInv, [RequestNext]_vars
  PROVE  LogInv'
  <1>1. CASE \E size \in GroupSizes : AddGroup(size)
    BY <1>1 DEF AddGroup, memory, call, LogInv
  <1>2. CASE Begin
    BY <1>2 DEF Begin, memory, LogInv
  <1>3. CASE Prepare
    BY <1>3, PrepareStep, CompactStep DEF Others, memory, call, LogInv
  <1>4. CASE ServiceStep
    BY <1>4, CallStep DEF Calling, CountSend, LogInv
  <1>5. CASE Publish
    BY <1>5 DEF Publish, Record, Refuse, Raise, LogInv
  <1>6. CASE SettleContext
    BY <1>6, SettleStep DEF Others, memory, call, LogInv
  <1>7. CASE Send
    BY <1>7 DEF Send, memory, LogInv
  <1>8. CASE RetryOverflow
    BY <1>8 DEF RetryOverflow, Record, Refuse, Raise, memory, LogInv
  <1>9. CASE Stop
    BY <1>9 DEF Stop, memory, call, LogInv
  <1>10. CASE Resume
    BY <1>10 DEF Resume, LogInv
  <1>11. CASE UNCHANGED vars
    BY <1>11 DEF vars, memory, call, LogInv
  <1> QED
    BY Kinds, <1>1, <1>2, <1>3, <1>4, <1>5, <1>6, <1>7, <1>8, <1>9, <1>10,
       <1>11
    DEF StepKinds

LEMMA CallsNext ==
  ASSUME RequestTypeOK, CallsInv, [RequestNext]_vars
  PROVE  CallsInv'
  <1>1. CASE \E size \in GroupSizes : AddGroup(size)
    BY <1>1 DEF AddGroup, memory, call, CallsInv, Repeated
  <1>2. CASE Begin
    BY <1>2, Configured DEF Begin, CallsInv, Repeated, RequestTypeOK
  <1>3. CASE Prepare
    BY <1>3, PrepareStep, CompactStep, Configured
    DEF Others, memory, call, CallsInv, Repeated, RequestTypeOK
  <1>4. CASE ServiceStep
    BY <1>4, CallStep, Configured
    DEF Calling, CountSend, CallsInv, Repeated, RequestTypeOK
  <1>5. CASE Publish
    BY <1>5, Configured
    DEF Publish, Record, Refuse, Raise, CallsInv, Repeated, RequestTypeOK
  <1>6. CASE SettleContext
    BY <1>6, SettleStep DEF Others, memory, call, CallsInv, Repeated
  <1>7. CASE Send
    BY <1>7 DEF Send, memory, CallsInv, Repeated
  <1>8. CASE RetryOverflow
    BY <1>8, Configured
    DEF RetryOverflow, Record, Refuse, Raise, memory, CallsInv, Repeated,
        RequestTypeOK
  <1>9. CASE Stop
    BY <1>9 DEF Stop, memory, call, CallsInv, Repeated
  <1>10. CASE Resume
    BY <1>10, Configured DEF Resume, CallsInv, Repeated, RequestTypeOK
  <1>11. CASE UNCHANGED vars
    BY <1>11 DEF vars, memory, call, CallsInv, Repeated
  <1> QED
    BY Kinds, <1>1, <1>2, <1>3, <1>4, <1>5, <1>6, <1>7, <1>8, <1>9, <1>10,
       <1>11
    DEF StepKinds

LEMMA LateNext ==
  ASSUME RequestTypeOK, LateInv, [RequestNext]_vars
  PROVE  LateInv'
  <1>1. CASE \E size \in GroupSizes : AddGroup(size)
    BY <1>1 DEF AddGroup, memory, call, LateInv, Calling
  <1>2. CASE Begin
    BY <1>2, Configured DEF Begin, LateInv, Calling, RequestTypeOK
  <1>3. CASE Prepare
    BY <1>3, PrepareStep, CompactStep, Configured
    DEF Others, memory, call, LateInv, Calling, RequestTypeOK
  <1>4. CASE ServiceStep
    BY <1>4, CallStep, Configured
    DEF CountSend, LateInv, Calling, RequestTypeOK
  <1>5. CASE Publish
    BY <1>5 DEF Publish, Record, Refuse, Raise, LateInv, Calling
  <1>6. CASE SettleContext
    BY <1>6, SettleStep DEF Others, memory, call, LateInv, Calling
  <1>7. CASE Send
    BY <1>7, Configured DEF Send, Allowed, LateInv, Calling, RequestTypeOK
  <1>8. CASE RetryOverflow
    BY <1>8 DEF RetryOverflow, Record, Refuse, Raise, memory, LateInv, Calling
  <1>9. CASE Stop
    BY <1>9 DEF Stop, memory, call, LateInv, Calling
  <1>10. CASE Resume
    BY <1>10, Configured DEF Resume, LateInv, Calling, RequestTypeOK
  <1>11. CASE UNCHANGED vars
    BY <1>11 DEF vars, memory, call, LateInv, Calling
  <1> QED
    BY Kinds, <1>1, <1>2, <1>3, <1>4, <1>5, <1>6, <1>7, <1>8, <1>9, <1>10,
       <1>11
    DEF StepKinds


LEMMA UpToKept ==
  ASSUME UNCHANGED <<groups, first, context>>
  PROVE  \A m : UpTo(m)' = UpTo(m)
  BY DEF UpTo

LEMMA FitsKept ==
  ASSUME UNCHANGED <<groups, first, context>>
  PROVE  /\ FitsWindow(context)' = FitsWindow(context)
         /\ Effective(context)' = Effective(context)
  BY DEF FitsWindow, ProjectionSize, Effective, SizeOf, Tokens, Cutoff

LEMMA SourceKept ==
  ASSUME UNCHANGED <<groups, context, source>>
  PROVE  SourceSize(source)' = SourceSize(source)
  BY DEF SourceSize, SizeOf, Tokens

(* A failed compaction leaves the newest group alone too. *)
LEMMA DegradedBehind ==
  ASSUME RequestTypeOK, NEW m \in Nat \ {0}, m < Len(groups),
         CutBehind(context)
  PROVE  CutBehind(Degraded(m))
  BY DEF CutBehind, Behind, Degraded, Greater

LEMMA SummarisedBehind ==
  ASSUME RequestTypeOK, PlaceInv, pc = "summary", NEW tokens
  PROVE  CutBehind(Summarised(tokens))
  BY SourceTyped DEF CutBehind, Behind, Summarised

(* A summary of the source accounts for all it covers. *)
LEMMA SummarisedAccounted ==
  ASSUME RequestTypeOK, PlaceInv, pc = "summary", NEW tokens,
         first = 1, Accounted(context)
  PROVE  Accounted(Summarised(tokens))
  <1> DEFINE m == Largest(source)
  <1>1. m \in Nat /\ m < Len(groups) /\ source = UpTo(m)
    BY SourceTyped
  <1>2. ASSUME NEW i \in 1 .. m PROVE i \in context.summary.about \cup source
    <2>1. context.covered \in Nat
      BY ContextTyped DEF RequestTypeOK
    <2>2. i \in DOMAIN groups /\ i >= first /\ i =< m
      BY <1>1, GroupsTyped
    <2>3. CASE i =< context.covered
      BY <2>1, <2>3 DEF Accounted
    <2>4. CASE i > context.covered
      BY <1>1, <2>2, <2>4 DEF UpTo
    <2> QED BY <2>1, <2>3, <2>4
  <1> QED BY <1>2 DEF Accounted, Summarised

LEMMA DegradedAccounted ==
  ASSUME NEW m, Accounted(context)
  PROVE  Accounted(Degraded(m))
  BY DEF Accounted, Degraded

LEMMA PlaceNext ==
  ASSUME RequestTypeOK, PlaceInv, [RequestNext]_vars
  PROVE  PlaceInv'
  <1>1. CASE \E size \in GroupSizes : AddGroup(size)
    <2> PICK size \in GroupSizes : AddGroup(size)
      BY <1>1
    <2>1. Len(groups') = Len(groups) + 1 /\ Len(groups) \in Nat
      BY GroupsTyped DEF AddGroup, RequestTypeOK
    <2>2. \A k \in Nat : k < Len(groups) => k < Len(groups')
      BY <2>1
    <2>3. \A k \in Nat : k =< Len(groups) => k =< Len(groups')
      BY <2>1
    <2>4. \A c \in Contexts :
            CutBehind(c) => /\ c.covered = 0 \/ c.covered < Len(groups')
                            /\ c.degraded = 0 \/ c.degraded < Len(groups')
      BY <2>2, ContextTyped DEF CutBehind, Behind
    <2>5. first = 1 \/ first =< Len(groups')
      BY <2>3 DEF PlaceInv, RequestTypeOK
    <2>6. UNCHANGED <<first, context, saved, logged>> /\ pc' = "idle"
      BY DEF AddGroup, memory
    <2>7. /\ context \in Contexts /\ saved \in Contexts
          /\ logged \in Contexts
      BY DEF RequestTypeOK
    <2> QED BY <2>4, <2>5, <2>6, <2>7 DEF PlaceInv, CutBehind, Behind, Busy
  <1>2. CASE Begin
    <2>1. Len(groups) > 0
      BY GroupsTyped, <1>2 DEF Begin, RequestTypeOK
    <2> QED BY <1>2, <2>1
            DEF Begin, memory, PlaceInv, CutBehind, Behind, Busy
  <1>3. CASE Prepare
    <2>1. UNCHANGED Others /\ pc = "prepare"
      BY <1>3, PrepareStep
    <2>2. CASE pc' \in {"send", "raised"} /\ UNCHANGED <<memory, call>>
      BY <2>1, <2>2
      DEF Others, memory, call, PlaceInv, CutBehind, Behind, Busy
    <2>3. CASE Compact
      <3>1. CutBehind(context)
        BY DEF PlaceInv
      <3>2. CutBehind(context')
        BY <2>3, <3>1, CompactStep, DegradedBehind
      <3>3. ASSUME pc' = "summary"
            PROVE  \E m \in source' : m < Len(groups') /\ source' = UpTo(m)'
        <4>1. UNCHANGED <<groups, first, context>>
              /\ \E m \in source' : m < Len(groups) /\ source' = UpTo(m)
          BY <2>1, <2>3, <3>3, CompactStep DEF Others
        <4> QED BY <4>1, UpToKept
      <3> QED BY <2>1, <2>3, <3>1, <3>2, <3>3, CompactStep
              DEF Others, PlaceInv, CutBehind, Behind, Busy
    <2> QED BY <1>3, <2>2, <2>3, PrepareStep
  <1>4. CASE ServiceStep
    <2>1. UNCHANGED <<groups, first, saved, logged, source>> /\ Calling
      BY <1>4, CallStep DEF CountSend
    <2>2. CASE UNCHANGED <<pc, context>>
      BY <2>1, <2>2, UpToKept DEF PlaceInv, CutBehind, Behind, Busy
    <2>3. CASE pc = "request" /\ pc' # "summary" /\ UNCHANGED context
      BY <2>1, <2>3 DEF PlaceInv, CutBehind, Behind, Busy
    <2>4. CASE pc = "summary" /\ pc' = "publish"
      <3>1. CutBehind(context)
        BY DEF PlaceInv
      <3>2. CutBehind(context')
        BY <1>4, <2>4, <3>1, CallStep, SourceTyped, DegradedBehind,
           SummarisedBehind
      <3> QED BY <2>1, <2>4, <3>1, <3>2
              DEF PlaceInv, CutBehind, Behind, Busy
    <2> QED BY <1>4, <2>2, <2>3, <2>4, CallStep
  <1>5. CASE Publish
    BY <1>5
    DEF Publish, Record, Refuse, Raise, EmptyContext, PlaceInv, CutBehind,
        Behind, Busy
  <1>6. CASE SettleContext
    BY <1>6, SettleStep
    DEF Others, memory, call, PlaceInv, CutBehind, Behind, Busy
  <1>7. CASE Send
    BY <1>7 DEF Send, memory, PlaceInv, CutBehind, Behind, Busy
  <1>8. CASE RetryOverflow
    BY <1>8
    DEF RetryOverflow, Record, Refuse, Raise, memory, PlaceInv, CutBehind,
        Behind, Busy
  <1>9. CASE Stop
    BY <1>9, UpToKept
    DEF Stop, memory, call, PlaceInv, CutBehind, Behind, Busy
  <1>10. CASE Resume
    <2>1. first' = 1 \/ first' =< Len(groups)
      BY <1>10, ContextTyped, GroupsTyped
      DEF Resume, PlaceInv, CutBehind, Behind, Cutoff, Greater,
          RequestTypeOK
    <2> QED BY <1>10, <2>1
            DEF Resume, EmptyContext, PlaceInv, CutBehind, Behind, Busy
  <1>11. CASE UNCHANGED vars
    BY <1>11, UpToKept
    DEF vars, memory, call, PlaceInv, CutBehind, Behind, Busy
  <1> QED
    BY Kinds, <1>1, <1>2, <1>3, <1>4, <1>5, <1>6, <1>7, <1>8, <1>9, <1>10,
       <1>11
    DEF StepKinds

LEMMA LossNext ==
  ASSUME RequestTypeOK, PlaceInv, LossInv, [RequestNext]_vars
  PROVE  LossInv'
  <1>1. CASE \E size \in GroupSizes : AddGroup(size)
    BY <1>1 DEF AddGroup, memory, call, LossInv, Accounted
  <1>2. CASE Begin
    BY <1>2 DEF Begin, memory, LossInv, Accounted
  <1>3. CASE Prepare
    <2>1. UNCHANGED Others
      BY <1>3, PrepareStep
    <2>2. CASE UNCHANGED <<memory, call>>
      BY <2>1, <2>2 DEF Others, memory, call, LossInv, Accounted
    <2>3. CASE Compact
      <3>1. Accounted(context) => Accounted(context')
        BY <2>3, CompactStep, DegradedAccounted
      <3> QED BY <2>1, <2>3, <3>1, CompactStep DEF Others, LossInv, Accounted
    <2> QED BY <1>3, <2>2, <2>3, PrepareStep
  <1>4. CASE ServiceStep
    <2>1. UNCHANGED <<first, saved, logged, resumes>>
      BY <1>4, CallStep
    <2>2. resumes = 0 /\ first = 1 /\ Accounted(context)
            => Accounted(context')
      BY <1>4, CallStep, SourceTyped, DegradedAccounted, SummarisedAccounted
    <2> QED BY <2>1, <2>2 DEF LossInv, Accounted
  <1>5. CASE Publish
    BY <1>5, EmptyTyped DEF Publish, Record, Refuse, Raise, LossInv, Accounted
  <1>6. CASE SettleContext
    BY <1>6, SettleStep DEF Others, memory, call, LossInv, Accounted
  <1>7. CASE Send
    BY <1>7 DEF Send, memory, LossInv, Accounted
  <1>8. CASE RetryOverflow
    BY <1>8
    DEF RetryOverflow, Record, Refuse, Raise, memory, LossInv, Accounted
  <1>9. CASE Stop
    BY <1>9 DEF Stop, memory, call, LossInv, Accounted
  <1>10. CASE Resume
    <2>1. resumes + 1 # 0
      BY Configured DEF RequestTypeOK
    <2> QED BY <1>10, <2>1 DEF Resume, LossInv
  <1>11. CASE UNCHANGED vars
    BY <1>11 DEF vars, memory, call, LossInv, Accounted
  <1> QED
    BY Kinds, <1>1, <1>2, <1>3, <1>4, <1>5, <1>6, <1>7, <1>8, <1>9, <1>10,
       <1>11
    DEF StepKinds

LEMMA FitNext ==
  ASSUME RequestTypeOK, FitInv, [RequestNext]_vars
  PROVE  FitInv'
  <1>1. CASE \E size \in GroupSizes : AddGroup(size)
    BY <1>1 DEF AddGroup, FitInv
  <1>2. CASE Begin
    BY <1>2 DEF Begin, memory, FitInv
  <1>3. CASE Prepare
    <2>1. UNCHANGED Others
      BY <1>3, PrepareStep
    <2>2. CASE /\ pc' \in {"send", "raised"} /\ UNCHANGED <<memory, call>>
               /\ pc' = "send" => FitsWindow(context)
      BY <2>1, <2>2, FitsKept DEF Others, memory, call, FitInv
    <2>3. CASE Compact
      <3>1. ASSUME pc' = "summary" PROVE SourceSize(source)' =< Window
        <4>1. SourceSize(source') =< Window /\ UNCHANGED <<groups, context>>
          BY <2>1, <2>3, <3>1, CompactStep DEF Others
        <4> QED BY <4>1 DEF SourceSize, SizeOf, Tokens
      <3> QED BY <2>3, <3>1, CompactStep DEF FitInv
    <2> QED BY <1>3, <2>2, <2>3, PrepareStep
  <1>4. CASE ServiceStep
    <2>1. UNCHANGED <<groups, first, source>> /\ Calling
      BY <1>4, CallStep DEF CountSend
    <2>2. CASE UNCHANGED <<pc, context>>
      BY <2>1, <2>2, FitsKept, SourceKept DEF FitInv
    <2>3. CASE pc' \in {"idle", "overflow", "raised", "publish"}
      BY <2>3 DEF FitInv
    <2> QED BY <1>4, <2>2, <2>3, CallStep
  <1>5. CASE Publish
    BY <1>5 DEF Publish, Record, Refuse, Raise, FitInv
  <1>6. CASE SettleContext
    BY <1>6, SettleStep, FitsKept DEF Others, memory, call, FitInv
  <1>7. CASE Send
    BY <1>7, FitsKept DEF Send, memory, FitInv
  <1>8. CASE RetryOverflow
    BY <1>8 DEF RetryOverflow, Record, Refuse, Raise, memory, FitInv
  <1>9. CASE Stop
    BY <1>9, FitsKept, SourceKept DEF Stop, memory, call, FitInv
  <1>10. CASE Resume
    BY <1>10 DEF Resume, FitInv
  <1>11. CASE UNCHANGED vars
    BY <1>11, FitsKept, SourceKept DEF vars, memory, call, FitInv
  <1> QED
    BY Kinds, <1>1, <1>2, <1>3, <1>4, <1>5, <1>6, <1>7, <1>8, <1>9, <1>10,
       <1>11
    DEF StepKinds


LEMMA PaidTyped ==
  ASSUME NEW n \in Nat
  PROVE  Paid(n) \in Nat /\ Paid(n + 1) = Paid(n) + MaxAttempts
  BY Configured, OneMoreRound DEF Paid

LEMMA PaidGrows ==
  ASSUME NEW k \in Nat, NEW n \in Nat, k =< n
  PROVE  Paid(k) =< Paid(n)
  BY Configured, MoreRounds DEF Paid

(* The calls that may still be made have not been paid for. *)
LEMMA CallsAreFew ==
  ASSUME RequestTypeOK, CallsInv
  PROVE  /\ compactions \in Nat /\ Repeated \in {0, 1}
         /\ Paid(compactions + Repeated) =< Paid(MaxCompactions + 2)
         /\ Paid(MaxCompactions + 3) = Paid(MaxCompactions + 2) + MaxAttempts
         /\ Paid(compactions + Repeated) \in Nat
         /\ Paid(MaxCompactions + 2) \in Nat
         /\ Paid(MaxCompactions + 3) \in Nat
  <1>1. compactions \in Nat /\ Repeated \in {0, 1}
    BY Configured DEF RequestTypeOK, Repeated
  <1>2. compactions + Repeated \in Nat /\ MaxCompactions + 2 \in Nat
        /\ compactions + Repeated =< MaxCompactions + 2
        /\ (MaxCompactions + 2) + 1 = MaxCompactions + 3
        /\ MaxCompactions + 3 \in Nat
    BY <1>1, Configured DEF CallsInv
  <1>3. Paid(compactions + Repeated) =< Paid(MaxCompactions + 2)
    BY <1>2, PaidGrows
  <1>4. Paid(MaxCompactions + 3) = Paid(MaxCompactions + 2) + MaxAttempts
        /\ Paid(MaxCompactions + 3) \in Nat
        /\ Paid(MaxCompactions + 2) \in Nat
    <2>1. /\ Paid(MaxCompactions + 2) \in Nat
          /\ Paid((MaxCompactions + 2) + 1)
               = Paid(MaxCompactions + 2) + MaxAttempts
      BY <1>2, PaidTyped
    <2> QED BY <1>2, <2>1, Configured
  <1> QED BY <1>1, <1>2, <1>3, <1>4, PaidTyped

LEMMA SendsNext ==
  ASSUME RequestTypeOK, CallsInv, SendsInv, [RequestNext]_vars
  PROVE  SendsInv'
  <1>1. CASE \E size \in GroupSizes : AddGroup(size)
    <2>1. UNCHANGED <<forced, compactions, attempt, sends>>
      BY <1>1 DEF AddGroup, call
    <2>2. Repeated' = Repeated
      BY <2>1 DEF Repeated
    <2> QED
      BY <1>1, <2>1, <2>2, CallsAreFew DEF AddGroup, call, SendsInv
  <1>2. CASE Begin
    <2>1. Paid(0) \in Nat /\ Paid(MaxCompactions + 3) \in Nat
      BY Configured, PaidTyped
    <2>2. compactions' = 0 /\ Repeated' = 0 /\ sends' = 0
          /\ pc' = "prepare"
      BY <1>2 DEF Begin, Repeated
    <2> QED BY <2>1, <2>2 DEF SendsInv
  <1>3. CASE Prepare
    <2>1. pc = "prepare" /\ UNCHANGED <<forced, sends>>
      BY <1>3, PrepareStep, CompactStep DEF call
    <2>2. Repeated' = Repeated
      BY <2>1 DEF Repeated
    <2>3. CASE pc' \in {"send", "raised"} /\ UNCHANGED <<memory, call>>
      BY <2>1, <2>2, <2>3, CallsAreFew DEF call, SendsInv
    <2>4. CASE Compact
      <3>1. compactions' = compactions + 1
            /\ \/ pc' = "summary" /\ attempt' = 0
               \/ pc' = "publish"
        BY <2>4, CompactStep
      <3>2. compactions' + Repeated' - 1 = compactions + Repeated
        BY <2>2, <3>1, CallsAreFew
      <3>3. compactions + Repeated \in Nat
            /\ compactions' + Repeated' = (compactions + Repeated) + 1
        BY <2>2, <3>1, CallsAreFew
      <3>4. Paid(compactions' + Repeated')
              = Paid(compactions + Repeated) + MaxAttempts
        BY <3>3, PaidTyped
      <3> QED BY <2>1, <3>1, <3>2, <3>4, CallsAreFew, Configured
              DEF SendsInv, RequestTypeOK
    <2> QED BY <1>3, <2>3, <2>4, PrepareStep
  <1>4. CASE ServiceStep
    <2>1. /\ Calling /\ UNCHANGED <<forced, compactions>>
          /\ attempt' = attempt + 1 /\ sends' = sends + 1
          /\ attempt + 1 =< MaxAttempts
          /\ attempt \in Nat /\ sends \in Nat /\ MaxAttempts \in Nat
      BY <1>4, CallStep, Configured DEF CountSend, RequestTypeOK
    <2>2. Repeated' = Repeated
      BY <2>1 DEF Repeated
    <2>3. CASE pc = "request"
      <3>1. sends' =< Paid(compactions + Repeated) + attempt'
        BY <2>1, <2>3, CallsAreFew DEF SendsInv
      <3>2. sends' =< Paid(MaxCompactions + 3)
        BY <2>1, <3>1, CallsAreFew
      <3>3. ASSUME pc' = "overflow" PROVE sends' =< Paid(compactions + 1)
        <4>1. ~forced
          BY <1>4, <2>3, <3>3, CallStep
        <4>2. compactions + Repeated = compactions
          BY <4>1, CallsAreFew DEF Repeated
        <4>3. Paid(compactions + 1) = Paid(compactions) + MaxAttempts
              /\ Paid(compactions) \in Nat
          BY CallsAreFew, PaidTyped
        <4> QED BY <2>1, <3>1, <4>2, <4>3
      <3>4. pc' \in {"request", "idle", "overflow", "raised"}
        BY <1>4, <2>3, CallStep
      <3> QED BY <2>1, <2>2, <3>1, <3>2, <3>3, <3>4 DEF SendsInv
    <2>4. CASE pc = "summary"
      <3>1. compactions + Repeated - 1 \in Nat
            /\ (compactions + Repeated - 1) + 1 = compactions + Repeated
        BY <2>4, CallsAreFew DEF CallsInv
      <3>2. Paid(compactions + Repeated)
              = Paid(compactions + Repeated - 1) + MaxAttempts
            /\ Paid(compactions + Repeated - 1) \in Nat
        <4>1. Paid((compactions + Repeated - 1) + 1)
                = Paid(compactions + Repeated - 1) + MaxAttempts
              /\ Paid(compactions + Repeated - 1) \in Nat
          BY <3>1, PaidTyped
        <4> QED BY <3>1, <4>1
      <3>3. sends' =< Paid(compactions + Repeated - 1) + attempt'
        BY <2>1, <2>4, <3>2 DEF SendsInv
      <3>4. sends' =< Paid(compactions + Repeated)
            /\ sends' =< Paid(MaxCompactions + 3)
        BY <2>1, <3>2, <3>3, CallsAreFew
      <3>5. pc' \in {"summary", "publish"}
        BY <1>4, <2>4, CallStep
      <3> QED BY <2>1, <2>2, <3>3, <3>4, <3>5 DEF SendsInv
    <2> QED BY <2>1, <2>3, <2>4 DEF Calling
  <1>5. CASE Publish
    <2>1. UNCHANGED <<forced, compactions, attempt, sends>>
      BY <1>5 DEF Publish, Record, Refuse, Raise
    <2>2. Repeated' = Repeated
      BY <2>1 DEF Repeated
    <2> QED
      BY <1>5, <2>1, <2>2, CallsAreFew
      DEF Publish, Record, Refuse, Raise, SendsInv
  <1>6. CASE SettleContext
    <2>1. UNCHANGED <<forced, compactions, attempt, sends>>
      BY <1>6, SettleStep DEF Others, call
    <2>2. Repeated' = Repeated
      BY <2>1 DEF Repeated
    <2> QED
      BY <1>6, <2>1, <2>2, CallsAreFew, SettleStep DEF Others, call, SendsInv
  <1>7. CASE Send
    <2>1. UNCHANGED <<forced, compactions, sends>> /\ attempt' = 0
          /\ pc = "send" /\ pc' \in {"request", "raised"}
      BY <1>7 DEF Send
    <2>2. Repeated' = Repeated
      BY <2>1 DEF Repeated
    <2> QED BY <2>1, <2>2, CallsAreFew DEF SendsInv, RequestTypeOK
  <1>8. CASE RetryOverflow
    <2>1. UNCHANGED <<compactions, sends>> /\ pc = "overflow"
          /\ \/ forced' = TRUE /\ pc' = "prepare"
             \/ pc' = "raised"
      BY <1>8 DEF RetryOverflow, Record, Refuse, Raise
    <2>2. ASSUME pc' = "prepare" PROVE Repeated' = 1
      BY <2>1, <2>2 DEF Repeated
    <2> QED BY <2>1, <2>2, CallsAreFew DEF SendsInv
  <1>9. CASE Stop
    <2>1. UNCHANGED <<forced, compactions, attempt, sends>>
      BY <1>9 DEF Stop, call
    <2>2. Repeated' = Repeated
      BY <2>1 DEF Repeated
    <2> QED
      BY <1>9, <2>1, <2>2, CallsAreFew DEF Stop, call, SendsInv
  <1>10. CASE Resume
    <2>1. Paid(MaxCompactions + 3) \in Nat
      BY Configured, PaidTyped
    <2> QED BY <1>10, <2>1 DEF Resume, SendsInv
  <1>11. CASE UNCHANGED vars
    <2>1. UNCHANGED <<forced, compactions, attempt, sends>>
      BY <1>11 DEF vars, call
    <2>2. Repeated' = Repeated
      BY <2>1 DEF Repeated
    <2> QED
      BY <1>11, <2>1, <2>2, CallsAreFew DEF vars, call, SendsInv
  <1> QED
    BY Kinds, <1>1, <1>2, <1>3, <1>4, <1>5, <1>6, <1>7, <1>8, <1>9, <1>10,
       <1>11
    DEF StepKinds


LEMMA RequestStarts == RequestInit => RequestInv
  <1> SUFFICES ASSUME RequestInit PROVE RequestInv
    OBVIOUS
  <1>1. groups = <<>> /\ Len(groups) = 0 /\ groups \in Seq(GroupSizes)
    BY DEF RequestInit
  <1>2. RequestTypeOK
    <2>1. 0 \in 0 .. MaxResumes
      BY Configured
    <2>2. pc \in ControlPoints /\ stop \in {"none", "interrupted", "wall_time"}
      BY DEF RequestInit, ControlPoints
    <2>3. forced \in BOOLEAN /\ storeFailed \in BOOLEAN
      BY DEF RequestInit
    <2>4. first \in Nat \ {0} /\ sends \in Nat /\ late \in Nat
      BY DEF RequestInit
    <2>5. source \subseteq Nat \ {0}
      BY DEF RequestInit
    <2> QED BY <1>1, <2>1, <2>2, <2>3, <2>4, <2>5, EmptyTyped, CountersTyped
            DEF RequestInit, RequestTypeOK
  <1>3. LogInv /\ LossInv
    BY EmptyTyped DEF RequestInit, LogInv, LossInv
  <1>4. PlaceInv
    BY DEF RequestInit, EmptyContext, PlaceInv, CutBehind, Behind, Busy
  <1>5. CallsInv /\ LateInv
    BY Configured DEF RequestInit, CallsInv, Repeated, LateInv, Calling
  <1>6. FitInv
    BY DEF RequestInit, FitInv
  <1>7. SendsInv
    <2>1. MaxCompactions + 3 \in Nat
      BY Configured
    <2>2. Paid(MaxCompactions + 3) \in Nat
      BY <2>1, PaidTyped
    <2> QED BY <2>2 DEF RequestInit, SendsInv
  <1> QED BY <1>2, <1>3, <1>4, <1>5, <1>6, <1>7 DEF RequestInv

LEMMA RequestKept == RequestInv /\ [RequestNext]_vars => RequestInv'
  BY TypeNext, LogNext, PlaceNext, LossNext, FitNext, CallsNext, SendsNext,
     LateNext
  DEF RequestInv

(* The invariant holds of every run of the requests. *)
THEOREM RequestInvariant == RequestSpec => []RequestInv
  BY RequestStarts, RequestKept, PTL DEF RequestSpec

(* The variables stay in their ranges, however long the conversation is:   *)
(* compactions are counted to one more than the configured limit at most,  *)
(* and no call is tried more often than its policy says.                   *)
THEOREM RequestTypeCorrect == RequestSpec => []RequestTypeOK
  <1>1. RequestInv => RequestTypeOK
    BY DEF RequestInv
  <1> QED BY <1>1, RequestInvariant, PTL

(* What a live session has forgotten is in its summary, or its requests    *)
(* say so: for any window and any compactions, failed or refused.          *)
THEOREM NothingForgotten == RequestSpec => []LiveSessionLosesNothing
  <1>1. RequestInv => LiveSessionLosesNothing
    <2> SUFFICES ASSUME RequestInv, resumes = 0, pc = "request",
                        ~context.notice, NEW i \in DOMAIN groups
                 PROVE  i \in Kept
      BY DEF LiveSessionLosesNothing, NothingLostSilently
    <2>1. context.degraded = 0 /\ 1 .. context.covered
            \subseteq context.summary.about /\ first = 1
      BY DEF RequestInv, LossInv, Accounted
    <2>2. context.covered \in Nat /\ Cutoff(context) = context.covered
      BY <2>1, ContextTyped DEF RequestInv, RequestTypeOK, Cutoff, Greater
    <2>3. i \in Nat /\ i >= 1
      BY GroupsTyped DEF RequestInv
    <2>4. CASE i =< context.covered
      BY <2>1, <2>2, <2>3, <2>4 DEF Kept
    <2>5. CASE i > context.covered
      BY <2>1, <2>2, <2>3, <2>5 DEF Kept, Effective
    <2> QED BY <2>2, <2>3, <2>4, <2>5
  <1> QED BY <1>1, RequestInvariant, PTL

(* The newest group goes out with every request, whole, however often the  *)
(* conversation is compacted and by whatever limits.                       *)
THEOREM NewestKept == RequestSpec => []NewestGroupSent
  <1>1. RequestInv => NewestGroupSent
    <2> SUFFICES ASSUME RequestInv, pc = "request"
                 PROVE  Len(groups) \in Effective(context)
      BY DEF NewestGroupSent
    <2>1. Len(groups) \in Nat /\ Len(groups) > 0
          /\ Len(groups) \in DOMAIN groups
      BY GroupsTyped DEF RequestInv, PlaceInv, Busy
    <2>2. Len(groups) >= first
      BY <2>1 DEF RequestInv, PlaceInv
    <2>3. Len(groups) > Cutoff(context)
      BY <2>1, ContextTyped
      DEF RequestInv, PlaceInv, CutBehind, Behind, Cutoff, Greater,
          RequestTypeOK
    <2> QED BY <2>1, <2>2, <2>3 DEF Effective
  <1> QED BY <1>1, RequestInvariant, PTL

(* Whatever is sent fits the window, be it a request that needed no        *)
(* compaction, one settled for after a failure, or the request for a       *)
(* summary, which fits because a shorter source is not a larger one.       *)
THEOREM WindowKept == RequestSpec => []RequestsFit
  <1>1. RequestInv => RequestsFit
    BY DEF RequestInv, FitInv, RequestsFit
  <1> QED BY <1>1, RequestInvariant, PTL

(* A resumed session would have the context of the running one, whatever   *)
(* the store refused.                                                      *)
THEOREM LogFollowed == RequestSpec => []ContextFollowsLog
  <1>1. RequestInv => ContextFollowsLog
    BY DEF RequestInv, LogInv, ContextFollowsLog
  <1> QED BY <1>1, RequestInvariant, PTL

(* A request costs no more sends than its calls have attempts, and only    *)
(* those of the call under way when the stop comes.                        *)
THEOREM SendsKept == RequestSpec => []SendsBounded
  <1>1. RequestInv => SendsBounded
    BY DEF RequestInv, SendsInv, LateInv, Paid, SendsBounded
  <1> QED BY <1>1, RequestInvariant, PTL
=============================================================================

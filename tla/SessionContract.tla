-------------------------- MODULE SessionContract --------------------------
(***************************************************************************)
(* What a session promises to whoever reads its log, without the loop that *)
(* keeps the promise: turns do not overlap, a model response may only be   *)
(* declared when every call declared before has been answered, a call is   *)
(* performed at most once and only while it is the next one to answer and  *)
(* has been allowed, and neither a completed turn nor, as long as the log  *)
(* can be written, an aborted one leaves a declared call unanswered.       *)
(***************************************************************************)
EXTENDS Naturals

VARIABLES
  phase,      \* "ready" for a turn, in a "turn", or "ended"
  declared,   \* calls declared so far: 1 .. declared
  answered,   \* calls answered so far: 1 .. answered
  allowed,    \* calls whose durable decision is "allow"
  performed,  \* calls handed to a tool
  lost        \* the log cannot be written any more

contractVars == <<phase, declared, answered, allowed, performed, lost>>

Owed == declared > answered

Init ==
  /\ phase = "ready" /\ declared = 0 /\ answered = 0
  /\ allowed = {} /\ performed = {} /\ lost = FALSE

BeginTurn ==
  /\ phase = "ready" /\ phase' = "turn"
  /\ UNCHANGED <<declared, answered, allowed, performed, lost>>

Declare ==
  /\ phase = "turn" /\ ~lost /\ ~Owed
  /\ declared' \in Nat /\ declared' > declared
  /\ UNCHANGED <<phase, answered, allowed, performed, lost>>

Allow ==
  /\ phase = "turn" /\ ~lost /\ Owed
  /\ allowed' = allowed \cup {answered + 1}
  /\ UNCHANGED <<phase, declared, answered, performed, lost>>

Perform ==
  /\ phase = "turn" /\ Owed
  /\ answered + 1 \in allowed \ performed
  /\ performed' = performed \cup {answered + 1}
  /\ UNCHANGED <<phase, declared, answered, allowed, lost>>

Answer ==
  /\ phase = "turn" /\ ~lost /\ Owed
  /\ answered' = answered + 1
  /\ UNCHANGED <<phase, declared, allowed, performed, lost>>

CompleteTurn ==
  /\ phase = "turn" /\ ~lost /\ ~Owed
  /\ phase' = "ready"
  /\ UNCHANGED <<declared, answered, allowed, performed, lost>>

(* The end of the session, from a turn or between two of them. *)
EndSession ==
  /\ phase \in {"ready", "turn"} /\ (lost' \/ ~Owed)
  /\ phase' = "ended"
  /\ lost' \in {lost, TRUE}
  /\ UNCHANGED <<declared, answered, allowed, performed>>

LoseLog ==
  /\ ~lost /\ lost' = TRUE
  /\ UNCHANGED <<phase, declared, answered, allowed, performed>>

Next ==
  \/ BeginTurn \/ Declare \/ Allow \/ Perform \/ Answer
  \/ CompleteTurn \/ EndSession \/ LoseLog

Spec == Init /\ [][Next]_contractVars

(* Promises a reader derives from the contract alone. *)
AnswersOnlyDeclared == answered =< declared

PerformedWasAllowed == performed \subseteq allowed
=============================================================================

------------------------------ MODULE ResumeOnce ------------------------------
(***************************************************************************)
(* What resuming promises to clients that repeat their calls: every        *)
(* identifier is open until one resume takes it or its execution ends; it  *)
(* then settles with one answer, and nobody ever sees another.             *)
(***************************************************************************)
CONSTANTS Ids, Answers, NoAnswer

VARIABLES
  state,   \* "unborn", "open", "taken" or "settled"
  answer,  \* the answer it settled with
  seen     \* the answers its clients got

ledgerVars == <<state, answer, seen>>

Init ==
  /\ state = [p \in Ids |-> "unborn"]
  /\ answer = [p \in Ids |-> NoAnswer]
  /\ seen = [p \in Ids |-> {}]

Open(p) ==
  /\ state[p] = "unborn"
  /\ state' = [state EXCEPT ![p] = "open"]
  /\ UNCHANGED <<answer, seen>>

Take(p) ==
  /\ state[p] = "open"
  /\ state' = [state EXCEPT ![p] = "taken"]
  /\ UNCHANGED <<answer, seen>>

\* The one that took p settles it, and usually sees the answer first.
Settle(p) ==
  /\ state[p] = "taken"
  /\ \E a \in Answers :
       /\ state' = [state EXCEPT ![p] = "settled"]
       /\ answer' = [answer EXCEPT ![p] = a]
       /\ seen' \in {seen, [seen EXCEPT ![p] = {a}]}

\* An execution that ends settles all that nobody has taken.
Drop ==
  /\ \E S \in SUBSET {p \in Ids : state[p] = "open"}, a \in Answers :
       /\ state' = [p \in Ids |-> IF p \in S THEN "settled" ELSE state[p]]
       /\ answer' = [p \in Ids |-> IF p \in S THEN a ELSE answer[p]]
  /\ UNCHANGED seen

See(p) ==
  /\ state[p] = "settled"
  /\ seen' = [seen EXCEPT ![p] = @ \cup {answer[p]}]
  /\ UNCHANGED <<state, answer>>

Next == Drop \/ \E p \in Ids : Open(p) \/ Take(p) \/ Settle(p) \/ See(p)

Spec == Init /\ [][Next]_ledgerVars
=============================================================================

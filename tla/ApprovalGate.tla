---------------------------- MODULE ApprovalGate ----------------------------
(***************************************************************************)
(* What the publication of meeting notes promises to the people reviewing  *)
(* them, without scans, claims, leases, checkpoints, processes or          *)
(* requests.                                                               *)
(*                                                                         *)
(* A revision of a meeting is granted or withdrawn only while nothing is   *)
(* being published.  One publication is open at a time; while it is, the   *)
(* document takes the granted revision, and the message follows the        *)
(* document.  A publication whose outcome is lost is never closed.         *)
(***************************************************************************)
EXTENDS Naturals

CONSTANTS Items, Revisions, NoRev

VARIABLES
  granted,   \* the revision a reviewer has approved, or NoRev
  open,      \* the meetings whose publication is open
  lost,      \* those among them whose outcome will not be known
  document,  \* copies and text of the shared document
  message    \* copies and text of the announcement

gateVars == <<granted, open, lost, document, message>>

Nothing == [copies |-> 0, text |-> NoRev]

Init ==
  /\ granted = [i \in Items |-> NoRev]
  /\ open = {}
  /\ lost = {}
  /\ document = [i \in Items |-> Nothing]
  /\ message = [i \in Items |-> Nothing]

\* Decisions: some meetings' grants are withdrawn, or one is given.
Withdraw ==
  /\ open = {}
  /\ \E dropped \in SUBSET Items :
       granted' = [i \in Items |-> IF i \in dropped THEN NoRev ELSE granted[i]]
  /\ UNCHANGED <<open, lost, document, message>>

Grant(i) ==
  /\ open = {}
  /\ \E rev \in Revisions : granted' = [granted EXCEPT ![i] = rev]
  /\ UNCHANGED <<open, lost, document, message>>

Open(i) ==
  /\ open = {}
  /\ granted[i] # NoRev
  /\ open' = {i}
  /\ UNCHANGED <<granted, lost, document, message>>

CreateDocument(i) ==
  /\ i \in open
  /\ document[i].copies = 0
  /\ document' = [document EXCEPT ![i].copies = 1]
  /\ UNCHANGED <<granted, open, lost, message>>

FillDocument(i) ==
  /\ i \in open
  /\ document[i].copies = 1
  /\ document' = [document EXCEPT ![i].text = granted[i]]
  /\ UNCHANGED <<granted, open, lost, message>>

\* The announcement is made once and only ever follows the document.
Announce(i) ==
  /\ i \in open
  /\ document[i] = [copies |-> 1, text |-> granted[i]]
  /\ message' = [message EXCEPT ![i] = [copies |-> 1, text |-> granted[i]]]
  /\ UNCHANGED <<granted, open, lost, document>>

Lose(i) ==
  /\ i \in open
  /\ lost' = {i}
  /\ UNCHANGED <<granted, open, document, message>>

Close ==
  /\ lost = {}
  /\ open' = {}
  /\ UNCHANGED <<granted, lost, document, message>>

Next ==
  \/ Withdraw \/ Close
  \/ \E i \in Items : Grant(i) \/ Open(i) \/ CreateDocument(i)
                      \/ FillDocument(i) \/ Announce(i) \/ Lose(i)

Spec == Init /\ [][Next]_gateVars
=============================================================================

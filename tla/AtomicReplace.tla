---------------------------- MODULE AtomicReplace ----------------------------
(***************************************************************************)
(* What whoever edits a note is promised, without lock, temporary file or  *)
(* descriptor: the note is compared with the text the edit was made from   *)
(* and replaced as a whole.  No edit of another writer comes between the   *)
(* two.  That of a program that does not take part may, and is lost.       *)
(***************************************************************************)
CONSTANTS Writers, Texts, NoText

NoRequest == [expected |-> NoText, candidate |-> NoText]

VARIABLES
  note,   \* the text of the note
  edit,   \* how far each writer's edit has come
  want,   \* what it expects and what it writes
  told    \* what a writer was told last

atomicVars == <<note, edit, want, told>>

Init ==
  /\ note \in Texts
  /\ edit = [w \in Writers |-> "none"]
  /\ want = [w \in Writers |-> NoRequest]
  /\ told = "nothing"

Ask(w) ==
  /\ edit[w] = "none"
  /\ edit' = [edit EXCEPT ![w] = "asked"]
  /\ \E e, c \in Texts : want' = [want EXCEPT ![w] = [expected |-> e, candidate |-> c]]
  /\ told' = "nothing"
  /\ UNCHANGED note

\* One writer at a time has compared and not yet replaced or given up.
Compare(w) ==
  /\ edit[w] = "asked"
  /\ note = want[w].expected
  /\ \A x \in Writers : edit[x] # "compared"
  /\ edit' = [edit EXCEPT ![w] = "compared"]
  /\ UNCHANGED <<note, want, told>>

Replace(w) ==
  /\ edit[w] = "compared"
  /\ note' = want[w].candidate
  /\ edit' = [edit EXCEPT ![w] = "replaced"]
  /\ UNCHANGED <<want, told>>

GiveUp(w) ==
  /\ edit[w] \in {"asked", "compared"}
  /\ edit' = [edit EXCEPT ![w] = "over"]
  /\ UNCHANGED <<note, want, told>>

\* "done" is said of an edit that was made or changes nothing, "race" of one that was
\* not made; an error, or the death of the writer, may leave either.
Tell(w) ==
  /\ edit[w] # "none"
  /\ \E r \in {"done", "race", "error", "nothing"} :
       /\ r = "done" => edit[w] = "replaced" \/ want[w].expected = want[w].candidate
       /\ r = "race" => edit[w] # "replaced"
       /\ told' = r
  /\ edit' = [edit EXCEPT ![w] = "none"]
  /\ want' = [want EXCEPT ![w] = NoRequest]
  /\ UNCHANGED note

\* Another program edits the note.
Foreign ==
  /\ note' \in Texts
  /\ UNCHANGED <<edit, want, told>>

Next == Foreign \/ \E w \in Writers : Ask(w) \/ Compare(w) \/ Replace(w) \/ GiveUp(w) \/ Tell(w)

Spec == Init /\ [][Next]_atomicVars
=============================================================================

--------------------------- MODULE NoteReplacement ---------------------------
(***************************************************************************)
(* How a note is replaced (replaceNoteContent of meeting-publication/      *)
(* notes.ts): under a lock file, through a temporary file that is renamed  *)
(* over the note once the note has been looked at a second time.           *)
(*                                                                         *)
(* A path leads to a file, and a process that has opened a file keeps it   *)
(* when the path is given to another.  An action is a system call or a few *)
(* that need not be told apart; writers are processes of their own, which  *)
(* die anywhere.  Editors know nothing of the lock: they write into the    *)
(* file or rename another one over it.                                     *)
(***************************************************************************)
EXTENDS Naturals

CONSTANTS
  Writers,   \* processes that edit the note through Harnessy
  Texts,
  NoWriter, NoText,
  MaxFiles,  \* bound of the model: files created
  MaxEdits   \* bound of the model: edits by other programs

ASSUME NoneAssumption == NoWriter \notin Writers /\ NoText \notin Texts
ASSUME LimitsAssumption == MaxFiles \in Nat \ {0} /\ MaxEdits \in Nat

VARIABLES
  path,          \* the file the note's path leads to
  lock,          \* whose lock file exists
  text,          \* of each file
  stamp,         \* of each file, its modification time
  made, edits,   \* files created so far, but for locks; edits by other programs
  litter,        \* writers that have left a temporary file behind
  pc, want,      \* of each writer: what it does next, and its request
  opened, seen,  \* the descriptor of the note, its modification time when opened
  temp,          \* its temporary file
  verdict,       \* what it is going to be told
  told,          \* history: what a writer was told last
  failed         \* history: writers that died, could not tell which file they had just
                 \* created, or had a call of their finally block fail

diskVars == <<path, lock, text, stamp, made>>
localVars == <<opened, seen, temp, verdict>>
vars == <<diskVars, litter, edits, pc, want, localVars, told, failed>>

Files == 1..MaxFiles
NoFile == 0
Request == [expected : Texts, candidate : Texts]
NoRequest == [expected |-> NoText, candidate |-> NoText]
Running(w) == pc[w] # "idle"

\* Between the creation of its lock file and its removal.
Locked(w) == pc[w] \notin {"idle", "lock"}

Init ==
  /\ path = 1 /\ lock = NoWriter /\ made = 1 /\ edits = 0 /\ litter = {}
  /\ \E t \in Texts : text = [f \in Files |-> t]
  /\ stamp = [f \in Files |-> 0]
  /\ pc = [w \in Writers |-> "idle"]
  /\ want = [w \in Writers |-> NoRequest]
  /\ opened = [w \in Writers |-> NoFile]
  /\ seen = [w \in Writers |-> 0]
  /\ temp = [w \in Writers |-> NoFile]
  /\ verdict = [w \in Writers |-> "nothing"]
  /\ told = "nothing"
  /\ failed = {}

-----------------------------------------------------------------------------
\* A writer goes to its next step, or to the finally block with what it will tell.
Go(w, at) == pc' = [pc EXCEPT ![w] = at] /\ UNCHANGED verdict
Finally(w, v) == pc' = [pc EXCEPT ![w] = "clean"] /\ verdict' = [verdict EXCEPT ![w] = v]
Refuse(w) == \E v \in {"race", "error"} : Finally(w, v)

\* It returns or throws; a temporary file it still has is nobody's.
End(w, v) ==
  /\ pc' = [pc EXCEPT ![w] = "idle"]
  /\ told' = v
  /\ want' = [want EXCEPT ![w] = NoRequest]
  /\ litter' = IF temp[w] = NoFile THEN litter ELSE litter \cup {w}
  /\ opened' = [opened EXCEPT ![w] = NoFile]
  /\ seen' = [seen EXCEPT ![w] = 0]
  /\ temp' = [temp EXCEPT ![w] = NoFile]
  /\ verdict' = [verdict EXCEPT ![w] = "nothing"]

Fails(w) == failed' = failed \cup {w}

\* A new file.
Create == made < MaxFiles /\ made' = made + 1

\* The reviewer saves a text made from another.
Ask(w) ==
  /\ pc[w] = "idle"
  /\ \E r \in Request : want' = [want EXCEPT ![w] = r]
  /\ told' = "nothing"
  /\ Go(w, "lock")
  /\ UNCHANGED <<diskVars, litter, edits, opened, seen, temp, failed>>

\* The lock file is created, exclusively, and then identified, locked down and written.
\* One that could not be identified is not removed again.
TakeLock(w) ==
  /\ pc[w] = "lock" /\ lock = NoWriter
  /\ lock' = w
  /\ \/ /\ Go(w, "open") \/ Refuse(w)
        /\ UNCHANGED <<litter, want, opened, seen, temp, told, failed>>
     \/ Fails(w) /\ End(w, "error")
  /\ UNCHANGED <<path, text, stamp, made, edits>>

\* It exists; or the folder, the note or the lock is not as it should be.
LockedOut(w) ==
  /\ pc[w] = "lock"
  /\ \/ lock # NoWriter /\ End(w, "race")
     \/ End(w, "error")
  /\ UNCHANGED <<diskVars, edits, failed>>

\* The note cannot be opened, or what was opened is not a file that is small enough.
OpenNote(w) ==
  /\ pc[w] = "open"
  /\ \/ /\ opened' = [opened EXCEPT ![w] = path]
        /\ seen' = [seen EXCEPT ![w] = stamp[path]]
        /\ Go(w, "read") \/ Finally(w, "error")
     \/ Finally(w, "error") /\ UNCHANGED <<opened, seen>>
  /\ UNCHANGED <<diskVars, litter, edits, want, temp, told, failed>>

\* Slip: a note that has changed is refused at once, outside the finally block.
ReadNoteReturns(w) ==
  /\ pc[w] = "read"
  /\ text[opened[w]] # want[w].expected
  /\ End(w, "race")
  /\ UNCHANGED <<diskVars, edits, failed>>

\* The note is read and compared; a text that is new goes to a temporary file.  One that
\* was created and could not be identified is not removed again.
ReadNote(w) ==
  /\ pc[w] = "read"
  /\ \/ Refuse(w) /\ UNCHANGED <<text, stamp, made, litter, temp, failed>>
     \/ /\ text[opened[w]] = want[w].expected /\ want[w].candidate = want[w].expected
        /\ Finally(w, "done")
        /\ UNCHANGED <<text, stamp, made, litter, temp, failed>>
     \/ /\ text[opened[w]] = want[w].expected /\ want[w].candidate # want[w].expected
        /\ Create
        /\ text' = [text EXCEPT ![made + 1] = want[w].candidate]
        /\ stamp' = [stamp EXCEPT ![made + 1] = edits]
        /\ \/ /\ temp' = [temp EXCEPT ![w] = made + 1]
              /\ Go(w, "validate") \/ Finally(w, "error")
              /\ UNCHANGED <<litter, failed>>
           \/ /\ litter' = litter \cup {w}
              /\ Fails(w) /\ Finally(w, "error")
              /\ UNCHANGED temp
  /\ UNCHANGED <<path, lock, edits, want, opened, seen, told>>

\* Slip: only the descriptor is looked at again, not where the path leads.
ValidateDescriptor(w) ==
  /\ pc[w] = "validate"
  /\ \/ lock = w /\ stamp[opened[w]] = seen[w] /\ Go(w, "reread")
     \/ Refuse(w)
  /\ UNCHANGED <<diskVars, litter, edits, want, opened, seen, temp, told, failed>>

\* The final validation, first half: the lock, the path and the file's times are as they
\* were, as far as they can be read.
Validate(w) ==
  /\ pc[w] = "validate"
  /\ \/ lock = w /\ path = opened[w] /\ stamp[path] = seen[w] /\ Go(w, "reread")
     \/ Refuse(w)
  /\ UNCHANGED <<diskVars, litter, edits, want, opened, seen, temp, told, failed>>

\* Second half: so is the text of the file that was opened.
ReadAgain(w) ==
  /\ pc[w] = "reread"
  /\ \/ text[opened[w]] = want[w].expected /\ Go(w, "rename")
     \/ Refuse(w)
  /\ UNCHANGED <<diskVars, litter, edits, want, opened, seen, temp, told, failed>>

Rename(w) ==
  /\ pc[w] = "rename"
  /\ \/ /\ path' = temp[w]
        /\ temp' = [temp EXCEPT ![w] = NoFile]
        /\ Finally(w, "done")
     \/ /\ Finally(w, "error")
        /\ UNCHANGED <<path, temp>>
  /\ UNCHANGED <<lock, text, stamp, made, litter, edits, want, opened, seen, told, failed>>

\* The finally block removes a temporary file.  One whose path cannot be looked at stays,
\* silently; if a call throws, the lock stays too.
CleanUp(w) ==
  /\ pc[w] = "clean"
  /\ \/ /\ temp' = [temp EXCEPT ![w] = NoFile]
        /\ Go(w, "unlock")
        /\ UNCHANGED <<litter, want, opened, seen, told, failed>>
     \/ /\ temp[w] # NoFile
        /\ Fails(w) /\ Go(w, "unlock")
        /\ UNCHANGED <<litter, want, opened, seen, temp, told>>
     \/ /\ opened[w] # NoFile
        /\ Fails(w) /\ End(w, "error")
  /\ UNCHANGED <<diskVars, edits>>

\* Then the lock, if it is still its own, with the same exceptions.  An edit that was
\* made ends with an error if a file cannot be closed or the lock not removed.
Unlock(w) ==
  /\ pc[w] = "unlock"
  /\ \/ /\ lock' = IF lock = w THEN NoWriter ELSE lock
        /\ End(w, verdict[w]) \/ End(w, "error")
        /\ UNCHANGED failed
     \/ /\ lock = w /\ UNCHANGED lock
        /\ Fails(w)
        /\ End(w, verdict[w]) \/ End(w, "error")
  /\ UNCHANGED <<path, text, stamp, made, edits>>

\* A process dies: what it has created stays.
Die(w) ==
  /\ Running(w)
  /\ Fails(w) /\ End(w, "nothing")
  /\ UNCHANGED <<diskVars, edits>>

\* Somebody removes a lock that no edit holds any more, as the comment in the code asks.
RemoveLock ==
  /\ lock # NoWriter /\ ~Locked(lock)
  /\ lock' = NoWriter
  /\ UNCHANGED <<path, text, stamp, made, litter, edits, pc, want, localVars, told, failed>>

\* Another program writes into the note's file, or renames one over it.
EditInPlace(t) ==
  /\ edits < MaxEdits
  /\ edits' = edits + 1
  /\ text' = [text EXCEPT ![path] = t]
  /\ stamp' = [stamp EXCEPT ![path] = edits + 1]
  /\ UNCHANGED <<path, lock, made, litter, pc, want, localVars, told, failed>>

EditByRename(t) ==
  /\ edits < MaxEdits
  /\ Create
  /\ edits' = edits + 1
  /\ path' = made + 1
  /\ text' = [text EXCEPT ![made + 1] = t]
  /\ stamp' = [stamp EXCEPT ![made + 1] = edits + 1]
  /\ UNCHANGED <<lock, litter, pc, want, localVars, told, failed>>

-----------------------------------------------------------------------------
Writer(w) ==
  \/ Ask(w) \/ TakeLock(w) \/ LockedOut(w) \/ OpenNote(w) \/ ReadNote(w)
  \/ Validate(w) \/ ReadAgain(w) \/ Rename(w) \/ CleanUp(w) \/ Unlock(w) \/ Die(w)

Next ==
  \/ \E w \in Writers : Writer(w)
  \/ \E t \in Texts : EditInPlace(t) \/ EditByRename(t)
  \/ RemoveLock

Spec == Init /\ [][Next]_vars

-----------------------------------------------------------------------------
\* What an edit creates it removes again, whether it replaces the note, is refused, or
\* fails in any other call than those named here: a lock is that of an edit under way, and
\* no temporary file is left, unless the very writer it belongs to has died, could not
\* identify the file it had just created, or had a call of its finally block fail.
NothingLeft ==
  /\ lock = NoWriter \/ Locked(lock) \/ lock \in failed
  /\ litter \subseteq failed

\* How far the edit of a writer has come, as it is seen from the note.
Progress(w) ==
  CASE pc[w] = "idle" -> "none"
    [] pc[w] \in {"reread", "rename"} -> "compared"
    [] pc[w] \in {"clean", "unlock"} /\ verdict[w] = "done" /\ want[w].expected # want[w].candidate
         -> "replaced"
    [] pc[w] \in {"clean", "unlock"} /\ ~(verdict[w] = "done" /\ want[w].expected # want[w].candidate)
         -> "over"
    [] OTHER -> "asked"

Note == text[path]
Edit == [w \in Writers |-> Progress(w)]

Atomic == INSTANCE AtomicReplace WITH note <- Note, edit <- Edit

\* Lock, second look and rename together replace a note as one comparison and one write,
\* and tell the truth about it; only an edit by a program that takes no lock can come
\* between the two (notes.ts names this race as one it cannot remove).
ImplementsReplace == Atomic!Spec
=============================================================================

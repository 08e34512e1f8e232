----------------------------- MODULE NoteProofs -----------------------------
(* Theorems about replacing a note, for any number of writers, texts, files *)
(* and foreign edits.                                                       *)
EXTENDS NoteReplacement, TLAPS

Steps == {"idle", "lock", "open", "read", "validate", "reread", "rename", "clean", "unlock"}
Verdicts == {"nothing", "done", "race", "error"}

Types ==
  /\ path \in 1 .. made /\ made \in Files
  /\ lock \in Writers \cup {NoWriter}
  /\ text \in [Files -> Texts] /\ stamp \in [Files -> 0 .. edits] /\ edits \in Nat
  /\ pc \in [Writers -> Steps]
  /\ want \in [Writers -> Request \cup {NoRequest}]
  /\ opened \in [Writers -> 0 .. made] /\ seen \in [Writers -> 0 .. edits]
  /\ temp \in [Writers -> 0 .. made]
  /\ verdict \in [Writers -> Verdicts] /\ told \in Verdicts
  /\ failed \subseteq Writers

\* A writer that has passed the lock holds it, and whoever holds it has passed it
\* or failed.
LockHeld ==
  /\ \A w \in Writers : Locked(w) => lock = w
  /\ lock = NoWriter \/ Locked(lock) \/ lock \in failed

\* A temporary file exists between reading and cleaning up, and after that for one
\* that failed; it is its writer's alone, and holds the whole candidate.
TempOwned ==
  \A w \in Writers :
    /\ pc[w] \in {"idle", "lock", "open", "read"} => temp[w] = NoFile
    /\ pc[w] = "unlock" => temp[w] = NoFile \/ w \in failed
    /\ temp[w] # NoFile => temp[w] # path
    /\ pc[w] \in {"validate", "reread", "rename"} =>
         /\ temp[w] # NoFile /\ text[temp[w]] = want[w].candidate
         /\ want[w].expected # want[w].candidate

\* The file a writer has compared has the text it compared, or another time.
ReadIsDated ==
  \A w \in Writers :
    /\ pc[w] \in {"read", "validate", "reread"} => opened[w] # NoFile
    /\ pc[w] = "validate" /\ stamp[opened[w]] = seen[w] => text[opened[w]] = want[w].expected

\* The inductive invariant.
NoteInv ==
  /\ Types /\ LockHeld /\ TempOwned /\ ReadIsDated
  /\ litter \subseteq failed

-----------------------------------------------------------------------------
LEMMA NoteInit == ASSUME Init PROVE NoteInv
<1>1. 1 \in Files /\ 1 \in 1 .. 1
  BY LimitsAssumption DEF Files
<1>2. Types
  <2>1. 0 \in 0 .. 0 /\ 0 \in 0 .. 1 /\ 0 \in Nat
    OBVIOUS
  <2>2. stamp \in [Files -> 0 .. edits] /\ edits \in Nat /\ text \in [Files -> Texts]
    BY <2>1 DEF Init
  <2>3. pc \in [Writers -> Steps] /\ verdict \in [Writers -> Verdicts] /\ told \in Verdicts
    BY DEF Init, Steps, Verdicts
  <2>4. /\ opened \in [Writers -> 0 .. made] /\ seen \in [Writers -> 0 .. edits]
        /\ temp \in [Writers -> 0 .. made]
    BY <2>1 DEF Init, NoFile
  <2>5. want \in [Writers -> Request \cup {NoRequest}]
    BY DEF Init
  <2>q. QED
    BY <1>1, <2>2, <2>3, <2>4, <2>5 DEF Init, Types
<1>3. LockHeld /\ TempOwned /\ ReadIsDated
  BY DEF Init, LockHeld, TempOwned, ReadIsDated, Locked
<1>q. QED
  BY <1>2, <1>3 DEF Init, NoteInv

\* A writer ends: it lets go of what it had, and has failed if it leaves a file.
LEMMA StepEnds ==
  ASSUME NoteInv, NEW w \in Writers, NEW v \in Verdicts, End(w, v),
         UNCHANGED <<path, text, stamp, made, edits>>,
         failed \subseteq failed', failed' \subseteq Writers,
         temp[w] # NoFile => w \in failed',
         \/ lock' = lock /\ (lock = w => w \in failed' \/ ~Locked(w))
         \/ lock = w /\ lock' = NoWriter
         \/ lock = NoWriter /\ lock' = w /\ w \in failed'
  PROVE  NoteInv'
<1> USE DEF NoteInv
<1>1. /\ pc' = [pc EXCEPT ![w] = "idle"] /\ told' = v
      /\ want' = [want EXCEPT ![w] = NoRequest]
      /\ litter' = IF temp[w] = NoFile THEN litter ELSE litter \cup {w}
      /\ opened' = [opened EXCEPT ![w] = NoFile] /\ seen' = [seen EXCEPT ![w] = 0]
      /\ temp' = [temp EXCEPT ![w] = NoFile]
      /\ verdict' = [verdict EXCEPT ![w] = "nothing"]
  BY DEF End
<1>2. Types'
  <2>1. 0 \in 0 .. edits /\ 0 \in 0 .. made
    BY DEF Types, Files
  <2>2. /\ opened' \in [Writers -> 0 .. made] /\ seen' \in [Writers -> 0 .. edits]
        /\ temp' \in [Writers -> 0 .. made]
    BY <1>1, <2>1 DEF Types, NoFile
  <2>3. pc' \in [Writers -> Steps] /\ verdict' \in [Writers -> Verdicts]
    BY <1>1 DEF Types, Steps, Verdicts
  <2>4. want' \in [Writers -> Request \cup {NoRequest}]
    BY <1>1 DEF Types
  <2>5. lock' \in Writers \cup {NoWriter}
    BY DEF Types
  <2>q. QED
    BY <1>1, <2>2, <2>3, <2>4, <2>5 DEF Types
<1>3. \A x \in Writers : pc'[x] = IF x = w THEN "idle" ELSE pc[x]
  BY <1>1 DEF Types
<1>4. LockHeld'
  BY <1>3, NoneAssumption DEF Types, LockHeld, Locked
<1>5. TempOwned' /\ ReadIsDated'
  <2>1. \A x \in Writers : x # w => /\ want'[x] = want[x] /\ temp'[x] = temp[x]
                                    /\ opened'[x] = opened[x] /\ seen'[x] = seen[x]
    BY <1>1 DEF Types
  <2>2. temp'[w] = NoFile
    BY <1>1 DEF Types
  <2>q. QED
    BY <1>3, <2>1, <2>2 DEF TempOwned, ReadIsDated
<1>6. litter' \subseteq failed'
  BY <1>1
<1>q. QED
  BY <1>2, <1>4, <1>5, <1>6

\* A writer goes on, with the disk as it is, but for a temporary file it may remove;
\* on its way to the finally block it may have opened the note.
LEMMA StepGoes ==
  ASSUME NoteInv, NEW w \in Writers, Locked(w),
         NEW at \in {"reread", "rename", "clean", "unlock"},
         pc' = [pc EXCEPT ![w] = at], verdict' \in [Writers -> Verdicts],
         temp' = temp \/ temp' = [temp EXCEPT ![w] = NoFile],
         \/ UNCHANGED <<opened, seen>>
         \/ /\ at = "clean" /\ opened' = [opened EXCEPT ![w] = path]
            /\ seen' = [seen EXCEPT ![w] = stamp[path]],
         failed \subseteq failed', failed' \subseteq Writers,
         UNCHANGED <<path, lock, text, stamp, made, litter, edits, want, told>>,
         at = "reread" => pc[w] = "validate" /\ temp' = temp,
         at = "rename" => pc[w] = "reread" /\ temp' = temp,
         at = "unlock" => temp'[w] = NoFile \/ w \in failed'
  PROVE  NoteInv'
<1> USE DEF NoteInv
<1>1. \A x \in Writers : /\ pc'[x] = IF x = w THEN at ELSE pc[x]
                         /\ x # w => temp'[x] = temp[x] /\ opened'[x] = opened[x] /\ seen'[x] = seen[x]
  BY DEF Types
<1>2. Types'
  <2>1. 0 \in 0 .. made /\ path \in 0 .. made /\ path \in Files
    BY LimitsAssumption DEF Types, Files
  <2>2. temp' \in [Writers -> 0 .. made] /\ opened' \in [Writers -> 0 .. made]
    BY <2>1 DEF Types, NoFile
  <2>3. seen' \in [Writers -> 0 .. edits]
    BY <2>1 DEF Types
  <2>4. pc' \in [Writers -> Steps]
    BY DEF Types, Steps
  <2>q. QED
    BY <2>2, <2>3, <2>4 DEF Types
<1>3. LockHeld'
  BY <1>1 DEF LockHeld, Locked, Types
<1>4. temp'[w] = NoFile \/ temp'[w] = temp[w]
  BY DEF Types
<1>5. TempOwned'
  BY <1>1, <1>4 DEF TempOwned
<1>6. ReadIsDated'
  <2>1. at = "reread" => opened'[w] = opened[w] /\ opened[w] # NoFile
    BY DEF ReadIsDated
  <2>q. QED
    BY <1>1, <2>1 DEF ReadIsDated
<1>q. QED
  BY <1>2, <1>3, <1>5, <1>6

\* Refusing is going to the finally block.
LEMMA FinallyGoes ==
  ASSUME NoteInv, NEW w \in Writers, Refuse(w) \/ \E v \in Verdicts : Finally(w, v)
  PROVE  pc' = [pc EXCEPT ![w] = "clean"] /\ verdict' \in [Writers -> Verdicts]
BY DEF Refuse, Finally, NoteInv, Types, Verdicts

\* Nobody but the holder of the lock has a temporary file or compares.
LEMMA Alone ==
  ASSUME NoteInv, NEW w \in Writers, NEW x \in Writers, Locked(w), Locked(x)
  PROVE  w = x
  BY DEF NoteInv, LockHeld

LEMMA StepAsk ==
  ASSUME NoteInv, NEW w \in Writers, Ask(w)
  PROVE  NoteInv'
<1> USE DEF NoteInv
<1>1. PICK r \in Request : want' = [want EXCEPT ![w] = r]
  BY DEF Ask
<1>2. /\ pc[w] = "idle" /\ pc' = [pc EXCEPT ![w] = "lock"] /\ told' = "nothing"
      /\ UNCHANGED <<path, lock, text, stamp, made, litter, edits, opened, seen, temp, verdict, failed>>
  BY DEF Ask, Go, diskVars
<1>3. \A x \in Writers : /\ pc'[x] = IF x = w THEN "lock" ELSE pc[x]
                         /\ x # w => want'[x] = want[x]
  BY <1>1, <1>2 DEF Types
<1>4. Types'
  <2>1. want' \in [Writers -> Request \cup {NoRequest}]
    BY <1>1 DEF Types
  <2>2. pc' \in [Writers -> Steps] /\ told' \in Verdicts
    BY <1>2 DEF Types, Steps, Verdicts
  <2>q. QED
    BY <1>2, <2>1, <2>2 DEF Types
<1>5. LockHeld' /\ TempOwned' /\ ReadIsDated'
  BY <1>2, <1>3 DEF Types, LockHeld, TempOwned, ReadIsDated, Locked
<1>q. QED
  BY <1>2, <1>4, <1>5

LEMMA StepTakeLock ==
  ASSUME NoteInv, NEW w \in Writers, TakeLock(w)
  PROVE  NoteInv'
<1> USE DEF NoteInv
<1>1. /\ pc[w] = "lock" /\ lock = NoWriter /\ lock' = w
      /\ UNCHANGED <<path, text, stamp, made, edits>>
  BY DEF TakeLock
<1>2. CASE /\ Go(w, "open") \/ Refuse(w)
           /\ UNCHANGED <<litter, want, opened, seen, temp, told, failed>>
  <2>1. PICK at \in {"open", "clean"} :
          pc' = [pc EXCEPT ![w] = at] /\ verdict' \in [Writers -> Verdicts]
    BY <1>2, FinallyGoes DEF Go, Types
  <2>2. \A x \in Writers : pc'[x] = IF x = w THEN at ELSE pc[x]
    BY <2>1 DEF Types
  <2>3. pc' \in [Writers -> Steps]
    BY <2>1 DEF Types, Steps
  <2>4. Types'
    BY <1>1, <1>2, <2>1, <2>3 DEF Types
  <2>5. LockHeld'
    BY <1>1, <2>2, NoneAssumption DEF LockHeld, Locked
  <2>6. TempOwned' /\ ReadIsDated'
    BY <1>1, <1>2, <2>2 DEF TempOwned, ReadIsDated
  <2>q. QED
    BY <1>2, <2>4, <2>5, <2>6
<1>3. CASE Fails(w) /\ End(w, "error")
  <2>1. temp[w] = NoFile
    BY <1>1 DEF TempOwned
  <2>q. QED
    BY <1>1, <1>3, <2>1, StepEnds DEF Fails, Types, Verdicts
<1>q. QED
  BY <1>2, <1>3 DEF TakeLock

LEMMA StepLockedOut ==
  ASSUME NoteInv, NEW w \in Writers, LockedOut(w)
  PROVE  NoteInv'
<1>1. /\ pc[w] = "lock" /\ UNCHANGED <<path, text, stamp, made, edits, lock, failed>>
      /\ \E v \in {"race", "error"} : End(w, v)
  BY DEF LockedOut, diskVars
<1>2. ~Locked(w) /\ temp[w] = NoFile
  BY <1>1 DEF NoteInv, TempOwned, Locked
<1>q. QED
  BY <1>1, <1>2, StepEnds DEF NoteInv, Types, Verdicts

LEMMA StepOpenNote ==
  ASSUME NoteInv, NEW w \in Writers, OpenNote(w)
  PROVE  NoteInv'
<1> USE DEF NoteInv
<1>1. /\ pc[w] = "open" /\ Locked(w)
      /\ UNCHANGED <<path, lock, text, stamp, made, litter, edits, want, temp, told, failed>>
  BY DEF OpenNote, Locked, diskVars
<1>2. CASE Finally(w, "error")
  <2>1. /\ pc' = [pc EXCEPT ![w] = "clean"] /\ verdict' \in [Writers -> Verdicts]
        /\ \/ UNCHANGED <<opened, seen>>
           \/ /\ opened' = [opened EXCEPT ![w] = path]
              /\ seen' = [seen EXCEPT ![w] = stamp[path]]
    BY <1>2, FinallyGoes DEF OpenNote, Verdicts
  <2>q. QED
    BY <1>1, <2>1, StepGoes DEF Types
<1>3. CASE /\ Go(w, "read") /\ opened' = [opened EXCEPT ![w] = path]
           /\ seen' = [seen EXCEPT ![w] = stamp[path]]
  <2>1. \A x \in Writers : /\ pc'[x] = IF x = w THEN "read" ELSE pc[x]
                           /\ opened'[x] = IF x = w THEN path ELSE opened[x]
                           /\ x # w => seen'[x] = seen[x]
    BY <1>3 DEF Types, Go
  <2>2. path \in Files /\ path # NoFile /\ path \in 0 .. made
    BY LimitsAssumption DEF Types, Files, NoFile
  <2>3. Types'
    <3>1. opened' \in [Writers -> 0 .. made] /\ seen' \in [Writers -> 0 .. edits]
      BY <1>3, <2>2 DEF Types
    <3>2. pc' \in [Writers -> Steps] /\ verdict' = verdict
      BY <1>3 DEF Types, Steps, Go
    <3>q. QED
      BY <1>1, <3>1, <3>2 DEF Types
  <2>4. LockHeld' /\ TempOwned' /\ ReadIsDated'
    BY <1>1, <2>1, <2>2 DEF Types, LockHeld, TempOwned, ReadIsDated, Locked
  <2>q. QED
    BY <1>1, <2>3, <2>4
<1>q. QED
  BY <1>2, <1>3 DEF OpenNote

\* What is created gets the next number, which no path, descriptor or temporary
\* file has yet.
LEMMA Fresh ==
  ASSUME NoteInv, made < MaxFiles
  PROVE  /\ made + 1 \in Files /\ made + 1 # path /\ made + 1 # NoFile
         /\ made + 1 \in 1 .. made + 1
         /\ \A w \in Writers : made + 1 # temp[w] /\ made + 1 # opened[w]
         /\ 1 .. made \subseteq 1 .. made + 1 /\ 0 .. made \subseteq 0 .. made + 1
<1>1. made \in Nat /\ path \in 1 .. made /\ MaxFiles \in Nat
  BY LimitsAssumption DEF NoteInv, Types, Files
<1>2. \A w \in Writers : temp[w] \in 0 .. made /\ opened[w] \in 0 .. made
  BY DEF NoteInv, Types
<1>q. QED
  BY <1>1, <1>2 DEF Files, NoFile

LEMMA StepReadNote ==
  ASSUME NoteInv, NEW w \in Writers, ReadNote(w)
  PROVE  NoteInv'
<1> USE DEF NoteInv
<1>1. /\ pc[w] = "read" /\ Locked(w) /\ temp[w] = NoFile
      /\ UNCHANGED <<path, lock, edits, want, opened, seen, told>>
  BY DEF ReadNote, Locked, TempOwned
<1>2. CASE /\ Refuse(w) \/ Finally(w, "done")
           /\ UNCHANGED <<text, stamp, made, litter, temp, failed>>
  <2>1. pc' = [pc EXCEPT ![w] = "clean"] /\ verdict' \in [Writers -> Verdicts]
    BY <1>2, FinallyGoes DEF Verdicts
  <2>q. QED
    BY <1>1, <1>2, <2>1, StepGoes DEF Types
<1>3. CASE /\ text[opened[w]] = want[w].expected /\ want[w].candidate # want[w].expected
           /\ Create
           /\ text' = [text EXCEPT ![made + 1] = want[w].candidate]
           /\ stamp' = [stamp EXCEPT ![made + 1] = edits]
           /\ \/ /\ temp' = [temp EXCEPT ![w] = made + 1]
                 /\ Go(w, "validate") \/ Finally(w, "error")
                 /\ UNCHANGED <<litter, failed>>
              \/ /\ litter' = litter \cup {w}
                 /\ Fails(w) /\ Finally(w, "error")
                 /\ UNCHANGED temp
  <2> DEFINE at == IF Go(w, "validate") THEN "validate" ELSE "clean"
  <2>1. /\ made < MaxFiles /\ made' = made + 1
        /\ failed \subseteq failed' /\ failed' \subseteq Writers /\ litter' \subseteq failed'
    BY <1>3 DEF Create, Fails, Types
  <2>2. /\ made + 1 \in Files /\ made + 1 # path /\ made + 1 # NoFile
        /\ made + 1 \in 1 .. made + 1
        /\ \A x \in Writers : made + 1 # temp[x] /\ made + 1 # opened[x]
        /\ 1 .. made \subseteq 1 .. made + 1 /\ 0 .. made \subseteq 0 .. made + 1
    BY <2>1, Fresh
  <2>3. /\ pc' = [pc EXCEPT ![w] = at] /\ verdict' \in [Writers -> Verdicts]
        /\ temp' = temp \/ temp' = [temp EXCEPT ![w] = made + 1]
        /\ at = "validate" => temp' = [temp EXCEPT ![w] = made + 1]
    <3>1. CASE Go(w, "validate")
      <4>1. /\ pc' = [pc EXCEPT ![w] = "validate"] /\ verdict' = verdict
        BY <3>1 DEF Go
      <4>2. ~Finally(w, "error")
        BY <4>1 DEF Finally, Types
      <4>q. QED
        BY <1>3, <3>1, <4>1, <4>2 DEF Types
    <3>2. CASE ~Go(w, "validate")
      <4>1. Finally(w, "error")
        BY <1>3, <3>2
      <4>2. pc' = [pc EXCEPT ![w] = "clean"] /\ verdict' \in [Writers -> Verdicts]
        BY <4>1, FinallyGoes DEF Verdicts
      <4>q. QED
        BY <1>3, <3>2, <4>2
    <3>q. QED
      BY <3>1, <3>2
  <2>4. \A x \in Writers : /\ pc'[x] = IF x = w THEN at ELSE pc[x]
                           /\ x # w => temp'[x] = temp[x]
                           /\ temp'[w] \in {NoFile, made + 1}
                           /\ at = "validate" => temp'[w] = made + 1
    BY <1>1, <2>3 DEF Types
  <2> HIDE DEF at
  <2>5. at \in {"validate", "clean"}
    BY DEF at
  <2>6. want[w].candidate \in Texts
    <3>1. text[opened[w]] = want[w].expected /\ opened[w] \in Files
      BY <1>1, <1>3, LimitsAssumption DEF Types, ReadIsDated, Files, NoFile
    <3>2. want[w] \in Request \/ want[w] = NoRequest
      BY DEF Types
    <3>3. want[w] # NoRequest
      BY <3>1, NoneAssumption DEF Types, NoRequest
    <3>q. QED
      BY <3>2, <3>3 DEF Request
  <2>7. \A f \in Files : /\ text'[f] = IF f = made + 1 THEN want[w].candidate ELSE text[f]
                         /\ stamp'[f] = IF f = made + 1 THEN edits ELSE stamp[f]
    BY <1>3 DEF Types
  <2>8. Types'
    <3>1. text' \in [Files -> Texts] /\ stamp' \in [Files -> 0 .. edits]
      <4>1. edits \in 0 .. edits
        BY DEF Types
      <4>q. QED
        BY <1>3, <2>6, <4>1 DEF Types
    <3>2. temp' \in [Writers -> 0 .. made + 1] /\ opened \in [Writers -> 0 .. made + 1]
      <4>1. made + 1 \in 0 .. made + 1
        BY <2>2 DEF Files
      <4>q. QED
        BY <2>2, <2>3, <4>1 DEF Types
    <3>3. pc' \in [Writers -> Steps]
      BY <2>3, <2>5 DEF Types, Steps
    <3>q. QED
      BY <1>1, <2>1, <2>2, <2>3, <3>1, <3>2, <3>3 DEF Types
  <2>9. LockHeld'
    BY <1>1, <2>1, <2>4, <2>5 DEF LockHeld, Locked, Types
  <2>10. \A x \in Writers : x # w => pc[x] \in {"idle", "lock"}
    BY <1>1, Alone DEF Locked
  <2>11. TempOwned'
    <3>1. text'[made + 1] = want[w].candidate
      BY <2>2, <2>7
    <3>q. QED
      BY <1>1, <1>3, <2>2, <2>4, <2>5, <2>10, <3>1 DEF TempOwned
  <2>12. ReadIsDated'
    <3>1. opened[w] \in Files /\ opened[w] # NoFile
      BY <1>1, LimitsAssumption DEF Types, ReadIsDated, Files, NoFile
    <3>2. text'[opened[w]] = want[w].expected
      BY <1>3, <2>2, <2>7, <3>1
    <3>q. QED
      BY <1>1, <2>4, <2>5, <2>10, <3>1, <3>2 DEF ReadIsDated
  <2>q. QED
    BY <2>1, <2>8, <2>9, <2>11, <2>12
<1>q. QED
  BY <1>2, <1>3 DEF ReadNote

\* Another program edits the note where it is, or renames a new file over it.
LEMMA StepEdit ==
  ASSUME NoteInv, NEW t \in Texts, EditInPlace(t) \/ EditByRename(t)
  PROVE  NoteInv'
<1> USE DEF NoteInv
<1>1. /\ edits' = edits + 1 /\ edits \in Nat /\ edits' \in Nat
      /\ 0 .. edits \subseteq 0 .. edits' /\ edits' \in 0 .. edits'
      /\ UNCHANGED <<lock, litter, pc, want, opened, seen, temp, verdict, told, failed>>
  BY DEF EditInPlace, EditByRename, localVars, Types
<1>2. PICK f \in Files :
        /\ text' = [text EXCEPT ![f] = t] /\ stamp' = [stamp EXCEPT ![f] = edits']
        /\ path' = f /\ f # NoFile /\ f \in 1 .. made' /\ made' \in Files
        /\ made \in 0 .. made' /\ 0 .. made \subseteq 0 .. made'
        /\ \A w \in Writers : temp[w] # NoFile => temp[w] # f
  <2>1. CASE EditInPlace(t)
    <3>1. path \in Files /\ path # NoFile
      BY LimitsAssumption DEF Types, Files, NoFile
    <3>2. made \in 0 .. made
      BY DEF Types, Files
    <3>q. QED
      BY <1>1, <2>1, <3>1, <3>2 DEF EditInPlace, Types, TempOwned
  <2>2. CASE EditByRename(t)
    <3>1. made < MaxFiles /\ made' = made + 1 /\ path' = made + 1
      BY <2>2 DEF EditByRename, Create
    <3>2. /\ made + 1 \in Files /\ made + 1 # NoFile /\ made + 1 \in 1 .. made + 1
          /\ \A w \in Writers : made + 1 # temp[w]
          /\ 0 .. made \subseteq 0 .. made + 1
      BY <3>1, Fresh
    <3>3. made \in 0 .. made
      BY DEF Types, Files
    <3>q. QED
      BY <1>1, <2>2, <3>1, <3>2, <3>3 DEF EditByRename
  <2>q. QED
    BY <2>1, <2>2
<1>3. \A g \in Files : /\ text'[g] = IF g = f THEN t ELSE text[g]
                       /\ stamp'[g] = IF g = f THEN edits' ELSE stamp[g]
  BY <1>2 DEF Types
<1>4. Types'
  <2>1. text' \in [Files -> Texts] /\ stamp' \in [Files -> 0 .. edits']
    <3>1. edits' \in Nat /\ edits <= edits' /\ f \in Files /\ t \in Texts
      BY <1>1, <1>2 DEF Types
    <3>2. 0 .. edits \subseteq 0 .. edits' /\ edits' \in 0 .. edits'
      BY <1>1, <3>1 DEF Types
    <3>q. QED
      BY <1>2, <3>1, <3>2 DEF Types
  <2>2. /\ opened \in [Writers -> 0 .. made'] /\ seen \in [Writers -> 0 .. edits']
        /\ temp \in [Writers -> 0 .. made']
    BY <1>1, <1>2 DEF Types
  <2>q. QED
    BY <1>1, <1>2, <2>1, <2>2 DEF Types
<1>5. LockHeld'
  BY <1>1 DEF LockHeld, Locked
<1>6. TempOwned'
  <2>1. \A w \in Writers : temp[w] # NoFile => temp[w] \in Files /\ temp[w] # f
    BY <1>2, LimitsAssumption DEF Types, Files, NoFile
  <2>q. QED
    BY <1>1, <1>2, <1>3, <2>1 DEF TempOwned
<1>7. ReadIsDated'
  <2>1. \A w \in Writers : seen[w] # edits'
    BY <1>1 DEF Types
  <2>2. \A w \in Writers : opened[w] # NoFile => opened[w] \in Files
    BY LimitsAssumption DEF Types, Files, NoFile
  <2>q. QED
    BY <1>1, <1>3, <2>1, <2>2 DEF ReadIsDated
<1>q. QED
  BY <1>1, <1>4, <1>5, <1>6, <1>7

LEMMA StepLooks ==
  ASSUME NoteInv, NEW w \in Writers, Validate(w) \/ ReadAgain(w)
  PROVE  NoteInv'
<1>1. /\ pc[w] \in {"validate", "reread"} /\ Locked(w)
      /\ UNCHANGED <<path, lock, text, stamp, made, litter, edits, want, opened, seen, temp, told, failed>>
  BY DEF Validate, ReadAgain, Locked, diskVars
<1>2. verdict' \in [Writers -> Verdicts]
  BY FinallyGoes DEF NoteInv, Types, Validate, ReadAgain, Go
<1>3. PICK at \in {"reread", "rename", "clean"} :
        /\ pc' = [pc EXCEPT ![w] = at]
        /\ at = "reread" => pc[w] = "validate"
        /\ at = "rename" => pc[w] = "reread"
  BY FinallyGoes DEF Validate, ReadAgain, Go
<1>q. QED
  BY <1>1, <1>2, <1>3, StepGoes DEF NoteInv, Types

LEMMA StepRename ==
  ASSUME NoteInv, NEW w \in Writers, Rename(w)
  PROVE  NoteInv'
<1> USE DEF NoteInv
<1>1. /\ pc[w] = "rename" /\ Locked(w) /\ pc' = [pc EXCEPT ![w] = "clean"]
      /\ verdict' \in [Writers -> Verdicts]
      /\ UNCHANGED <<lock, text, stamp, made, litter, edits, want, opened, seen, told, failed>>
  BY DEF Rename, Finally, Locked, Types, Verdicts
<1>2. CASE UNCHANGED <<path, temp>>
  BY <1>1, <1>2, StepGoes DEF Types
<1>3. CASE path' = temp[w] /\ temp' = [temp EXCEPT ![w] = NoFile]
  <2>1. temp[w] \in 1 .. made /\ 0 \in 0 .. made
    BY <1>1 DEF Types, TempOwned, Files, NoFile
  <2>2. \A x \in Writers : /\ pc'[x] = IF x = w THEN "clean" ELSE pc[x]
                           /\ temp'[x] = IF x = w THEN NoFile ELSE temp[x]
    BY <1>1, <1>3 DEF Types
  <2>3. Types'
    <3>1. temp' \in [Writers -> 0 .. made]
      BY <1>3, <2>1 DEF Types, NoFile
    <3>2. pc' \in [Writers -> Steps]
      BY <1>1 DEF Types, Steps
    <3>q. QED
      BY <1>1, <1>3, <2>1, <3>1, <3>2 DEF Types
  <2>4. LockHeld' /\ ReadIsDated'
    BY <1>1, <2>2 DEF LockHeld, ReadIsDated, Locked, Types
  <2>5. TempOwned'
    <3>1. \A x \in Writers : x # w => temp[x] = NoFile /\ pc[x] \in {"idle", "lock"}
      BY <1>1, Alone DEF Locked, Types, Steps, TempOwned
    <3>q. QED
      BY <1>1, <2>2, <3>1 DEF TempOwned
  <2>q. QED
    BY <1>1, <2>3, <2>4, <2>5
<1>q. QED
  BY <1>2, <1>3 DEF Rename

LEMMA StepCleanUp ==
  ASSUME NoteInv, NEW w \in Writers, CleanUp(w)
  PROVE  NoteInv'
<1>1. /\ pc[w] = "clean" /\ Locked(w) /\ UNCHANGED <<path, lock, text, stamp, made, edits>>
      /\ failed \in SUBSET Writers /\ lock = w
  BY DEF CleanUp, diskVars, Locked, NoteInv, Types, LockHeld
<1>2. CASE Go(w, "unlock") /\ UNCHANGED <<litter, want, opened, seen, told>>
           /\ \/ temp' = [temp EXCEPT ![w] = NoFile] /\ failed' = failed
              \/ temp' = temp /\ Fails(w)
  <2>1. pc' = [pc EXCEPT ![w] = "unlock"] /\ verdict' \in [Writers -> Verdicts]
    BY <1>2 DEF Go, NoteInv, Types
  <2>2. /\ temp' = temp \/ temp' = [temp EXCEPT ![w] = NoFile]
        /\ temp'[w] = NoFile \/ w \in failed'
        /\ failed \subseteq failed' /\ failed' \subseteq Writers
    BY <1>1, <1>2 DEF Fails, NoteInv, Types
  <2>q. QED
    BY <1>1, <1>2, <2>1, <2>2, StepGoes
<1>3. CASE Fails(w) /\ End(w, "error")
  BY <1>1, <1>3, StepEnds DEF Fails, Verdicts
<1>q. QED
  BY <1>2, <1>3 DEF CleanUp

LEMMA StepUnlock ==
  ASSUME NoteInv, NEW w \in Writers, Unlock(w)
  PROVE  NoteInv'
<1>1. /\ pc[w] = "unlock" /\ Locked(w) /\ lock = w /\ (temp[w] = NoFile \/ w \in failed)
      /\ failed \in SUBSET Writers /\ UNCHANGED <<path, text, stamp, made, edits>>
      /\ \E v \in Verdicts : End(w, v)
  BY DEF Unlock, Locked, NoteInv, LockHeld, TempOwned, Types, Verdicts
<1>2. CASE lock' = NoWriter /\ failed' = failed
  BY <1>1, <1>2, StepEnds
<1>3. CASE lock' = lock /\ Fails(w)
  BY <1>1, <1>3, StepEnds DEF Fails
<1>q. QED
  BY <1>1, <1>2, <1>3 DEF Unlock

LEMMA StepDie ==
  ASSUME NoteInv, NEW w \in Writers, Die(w)
  PROVE  NoteInv'
  BY StepEnds DEF Die, Fails, diskVars, NoteInv, Types, Verdicts

LEMMA StepRemoveLock ==
  ASSUME NoteInv, RemoveLock
  PROVE  NoteInv'
<1> USE DEF NoteInv
<1>1. /\ lock # NoWriter /\ ~Locked(lock) /\ lock' = NoWriter
      /\ UNCHANGED <<path, text, stamp, made, litter, edits, pc, want, opened, seen, temp,
                     verdict, told, failed>>
  BY DEF RemoveLock, localVars
<1>2. \A w \in Writers : ~Locked(w)
  BY <1>1 DEF LockHeld
<1>3. LockHeld' /\ TempOwned' /\ ReadIsDated'
  BY <1>1, <1>2 DEF LockHeld, TempOwned, ReadIsDated, Locked
<1>4. Types'
  BY <1>1 DEF Types
<1>q. QED
  BY <1>1, <1>3, <1>4

LEMMA NoteStep ==
  ASSUME NoteInv, [Next]_vars
  PROVE  NoteInv'
<1>1. CASE UNCHANGED vars
  BY <1>1 DEF vars, diskVars, localVars, NoteInv, Types, LockHeld, TempOwned, ReadIsDated, Locked
<1>2. ASSUME NEW w \in Writers, Writer(w) PROVE NoteInv'
  BY <1>2, StepAsk, StepTakeLock, StepLockedOut, StepOpenNote, StepReadNote, StepLooks,
     StepRename, StepCleanUp, StepUnlock, StepDie DEF Writer
<1>q. QED
  BY <1>1, <1>2, StepEdit, StepRemoveLock DEF Next

-----------------------------------------------------------------------------
(* Theorems                                                                 *)

\* The invariant as a whole.
THEOREM NoteInvariant == Spec => []NoteInv
<1>1. Init => NoteInv
  BY NoteInit
<1>2. NoteInv /\ [Next]_vars => NoteInv'
  BY NoteStep
<1>q. QED
  BY <1>1, <1>2, PTL DEF Spec

\* What an edit creates it removes again, refused or failing as it may: a lock is that
\* of an edit under way and no temporary file is left, unless their very writer died,
\* could not identify a file it had just created, or failed within its finally block.
THEOREM NoteLeavesNothing == Spec => []NothingLeft
<1>1. NoteInv => NothingLeft
  BY DEF NoteInv, LockHeld, NothingLeft
<1>q. QED
  BY <1>1, NoteInvariant, PTL

-----------------------------------------------------------------------------
(* The steps of a replacement, seen from the note                           *)

\* A step of w moves the progress of no other writer.
LEMMA OthersStay ==
  ASSUME NoteInv, NEW w \in Writers,
         \A x \in Writers \ {w} : pc'[x] = pc[x] /\ verdict'[x] = verdict[x] /\ want'[x] = want[x]
  PROVE  Edit' = [Edit EXCEPT ![w] = Progress(w)']
<1>1. \A x \in Writers \ {w} : Progress(x)' = Progress(x)
  BY DEF Progress
<1>2. Edit' = [x \in Writers |-> Progress(x)'] /\ Edit = [x \in Writers |-> Progress(x)]
  BY DEF Edit
<1>q. QED
  BY <1>1, <1>2

\* Only who runs has an edit under way.
LEMMA ProgressKinds ==
  ASSUME NoteInv, NEW w \in Writers
  PROVE  /\ Progress(w) \in {"none", "asked", "compared", "replaced", "over"}
         /\ Progress(w) = "none" <=> ~Running(w)
         /\ Progress(w) = "compared" <=> pc[w] \in {"reread", "rename"}
         /\ Progress(w) = "asked" <=> pc[w] \in {"lock", "open", "read", "validate"}
         /\ Progress(w) = "replaced" => pc[w] \in {"clean", "unlock"} /\ verdict[w] = "done"
         /\ pc[w] \in {"clean", "unlock"} /\ verdict[w] = "done" =>
              Progress(w) = "replaced" \/ want[w].expected = want[w].candidate
<1>1. pc[w] \in Steps
  BY DEF NoteInv, Types
<1>q. QED
  BY <1>1 DEF Steps, Progress, Running

\* Whoever ends tells, and the truth.
LEMMA EndTells ==
  ASSUME NoteInv, NEW w \in Writers, NEW v \in Verdicts, End(w, v), Running(w),
         UNCHANGED <<path, text>>,
         v = "done" => Progress(w) = "replaced" \/ want[w].expected = want[w].candidate,
         v = "race" => Progress(w) # "replaced"
  PROVE  Atomic!Tell(w)
<1>1. /\ pc' = [pc EXCEPT ![w] = "idle"] /\ told' = v
      /\ want' = [want EXCEPT ![w] = NoRequest]
      /\ verdict' = [verdict EXCEPT ![w] = "nothing"]
  BY DEF End
<1>2. Edit' = [Edit EXCEPT ![w] = Progress(w)'] /\ Edit[w] = Progress(w)
  BY <1>1, OthersStay DEF NoteInv, Types, Edit
<1>3. pc'[w] = "idle"
  BY <1>1 DEF NoteInv, Types
<1>4. Progress(w)' = "none"
  BY <1>3 DEF Progress
<1>5. Edit[w] # "none"
  BY <1>2, ProgressKinds
<1>6. Note' = Note
  BY DEF Note
<1>q. QED
  BY <1>1, <1>2, <1>4, <1>5, <1>6 DEF Atomic!Tell, Atomic!NoRequest, NoRequest, Verdicts

LEMMA ReplaceInit == ASSUME Init PROVE Atomic!Init
<1>1. path \in Files
  BY LimitsAssumption DEF Init, Files
<1>2. Note \in Texts
  BY <1>1 DEF Init, Note
<1>3. Edit = [w \in Writers |-> "none"]
  BY DEF Init, Edit, Progress
<1>q. QED
  BY <1>2, <1>3 DEF Init, Atomic!Init, NoRequest, Atomic!NoRequest

LEMMA ReplaceAsk ==
  ASSUME NoteInv, NEW w \in Writers, Ask(w)
  PROVE  Atomic!Ask(w)
<1>1. /\ pc[w] = "idle" /\ pc' = [pc EXCEPT ![w] = "lock"] /\ told' = "nothing"
      /\ \E r \in Request : want' = [want EXCEPT ![w] = r]
      /\ UNCHANGED <<path, text, verdict>>
  BY DEF Ask, Go, diskVars
<1>2. Edit' = [Edit EXCEPT ![w] = Progress(w)'] /\ Edit[w] = Progress(w)
  BY <1>1, OthersStay DEF NoteInv, Types, Edit
<1>3. pc'[w] = "lock"
  BY <1>1 DEF NoteInv, Types
<1>4. Progress(w)' = "asked" /\ Progress(w) = "none"
  BY <1>1, <1>3 DEF Progress
<1>5. \E e, c \in Texts : want' = [want EXCEPT ![w] = [expected |-> e, candidate |-> c]]
  <2>1. PICK r \in Request : want' = [want EXCEPT ![w] = r]
    BY <1>1
  <2>2. r = [expected |-> r.expected, candidate |-> r.candidate]
        /\ r.expected \in Texts /\ r.candidate \in Texts
    BY DEF Request
  <2>q. QED
    BY <2>1, <2>2
<1>q. QED
  BY <1>1, <1>2, <1>4, <1>5 DEF Atomic!Ask, Note

\* A step of one writer that asks nothing and tells nothing: what it does to the
\* note, and to its own progress.
LEMMA OwnStep ==
  ASSUME NoteInv, NEW w \in Writers, NEW at \in Steps,
         pc' = [pc EXCEPT ![w] = at],
         verdict' = verdict \/ \E v \in Verdicts : verdict' = [verdict EXCEPT ![w] = v],
         want' = want
  PROVE  /\ pc'[w] = at /\ verdict'[w] \in Verdicts
         /\ Edit' = [Edit EXCEPT ![w] = Progress(w)'] /\ Edit[w] = Progress(w)
         /\ Progress(w)' = Progress(w) => Edit' = Edit
<1>1. pc'[w] = at /\ verdict'[w] \in Verdicts
  BY DEF NoteInv, Types
<1>2. Edit' = [Edit EXCEPT ![w] = Progress(w)'] /\ Edit[w] = Progress(w)
  BY OthersStay DEF NoteInv, Types, Edit
<1>3. Edit = [x \in Writers |-> Progress(x)]
  BY DEF Edit
<1>q. QED
  BY <1>1, <1>2, <1>3

\* A writer that gives up goes to the finally block without "done", or with it
\* when it had nothing to change.
LEMMA ReplaceGivesUp ==
  ASSUME NoteInv, NEW w \in Writers, NEW v \in Verdicts,
         Finally(w, v), pc[w] \in {"lock", "open", "read", "validate", "reread", "rename"},
         v = "done" => want[w].expected = want[w].candidate,
         Note' = Note, UNCHANGED <<want, told>>
  PROVE  Atomic!GiveUp(w)
<1>1. pc' = [pc EXCEPT ![w] = "clean"] /\ verdict' = [verdict EXCEPT ![w] = v]
  BY DEF Finally
<1>2. /\ pc'[w] = "clean" /\ Edit' = [Edit EXCEPT ![w] = Progress(w)']
      /\ Edit[w] = Progress(w)
  BY <1>1, OwnStep DEF Steps
<1>3. verdict'[w] = v
  BY <1>1 DEF NoteInv, Types
<1>4. Progress(w)' = "over"
  BY <1>2, <1>3 DEF Progress
<1>5. Progress(w) \in {"asked", "compared"}
  BY DEF Progress
<1>q. QED
  BY <1>2, <1>4, <1>5 DEF Atomic!GiveUp

LEMMA ReplaceRefuses ==
  ASSUME NoteInv, NEW w \in Writers,
         Refuse(w), pc[w] \in {"lock", "open", "read", "validate", "reread", "rename"},
         Note' = Note, UNCHANGED <<want, told>>
  PROVE  Atomic!GiveUp(w)
<1>1. PICK v \in {"race", "error"} : Finally(w, v)
  BY DEF Refuse
<1>q. QED
  BY <1>1, ReplaceGivesUp DEF Verdicts

\* Before the comparison, and without it, nothing is seen of a writer but that it
\* gives up.
LEMMA ReplaceTakeLock ==
  ASSUME NoteInv, NEW w \in Writers, TakeLock(w) \/ OpenNote(w)
  PROVE  Atomic!GiveUp(w) \/ Atomic!Tell(w) \/ UNCHANGED <<Note, Edit, want, told>>
<1>1. pc[w] \in {"lock", "open"} /\ UNCHANGED <<path, text>> /\ Note' = Note
  BY DEF TakeLock, OpenNote, diskVars, Note
<1>2. CASE Refuse(w) /\ UNCHANGED <<want, told>>
  BY <1>1, <1>2, ReplaceRefuses
<1>3. CASE Finally(w, "error") /\ UNCHANGED <<want, told>>
  BY <1>1, <1>3, ReplaceGivesUp DEF Verdicts
<1>4. CASE End(w, "error")
  BY <1>1, <1>4, EndTells DEF Verdicts, Running
<1>5. CASE (Go(w, "open") \/ Go(w, "read")) /\ UNCHANGED <<want, told>>
  <2>1. PICK at \in {"open", "read"} : pc' = [pc EXCEPT ![w] = at] /\ verdict' = verdict
    BY <1>5 DEF Go
  <2>2. pc'[w] = at /\ (Progress(w)' = Progress(w) => Edit' = Edit)
    BY <1>5, <2>1, OwnStep DEF Steps
  <2>3. Progress(w)' = "asked" /\ Progress(w) = "asked"
    BY <1>1, <2>2 DEF Progress
  <2>q. QED
    BY <1>1, <1>5, <2>2, <2>3
<1>q. QED
  BY <1>2, <1>3, <1>4, <1>5 DEF TakeLock, OpenNote

LEMMA ReplaceReadNote ==
  ASSUME NoteInv, NEW w \in Writers, ReadNote(w)
  PROVE  Atomic!GiveUp(w) \/ UNCHANGED <<Note, Edit, want, told>>
<1>1. pc[w] = "read" /\ UNCHANGED <<path, want, told>>
  BY DEF ReadNote
<1>2. Note' = Note
  <2>1. CASE Create /\ text' = [text EXCEPT ![made + 1] = want[w].candidate]
    <3>1. made + 1 # path
      BY <2>1, Fresh DEF Create
    <3>2. path \in Files
      BY LimitsAssumption DEF NoteInv, Types, Files
    <3>q. QED
      BY <1>1, <2>1, <3>1, <3>2 DEF Note, NoteInv, Types
  <2>q. QED
    BY <1>1, <2>1 DEF ReadNote, Note
<1>3. CASE Refuse(w)
  BY <1>1, <1>2, <1>3, ReplaceRefuses
<1>4. CASE Finally(w, "done") /\ want[w].candidate = want[w].expected
  BY <1>1, <1>2, <1>4, ReplaceGivesUp DEF Verdicts
<1>5. CASE Finally(w, "error")
  BY <1>1, <1>2, <1>5, ReplaceGivesUp DEF Verdicts
<1>6. CASE Go(w, "validate")
  <2>1. pc'[w] = "validate" /\ (Progress(w)' = Progress(w) => Edit' = Edit)
    BY <1>1, <1>6, OwnStep DEF Go, Steps
  <2>2. Progress(w)' = "asked" /\ Progress(w) = "asked"
    BY <1>1, <2>1 DEF Progress
  <2>q. QED
    BY <1>1, <1>2, <2>1, <2>2
<1>q. QED
  BY <1>3, <1>4, <1>5, <1>6 DEF ReadNote

\* The final validation is the comparison: by the path and the time, the text
\* that was read is the note's, and by the lock no other writer has compared.
LEMMA ReplaceValidate ==
  ASSUME NoteInv, NEW w \in Writers, Validate(w)
  PROVE  Atomic!Compare(w) \/ Atomic!GiveUp(w)
<1>1. pc[w] = "validate" /\ UNCHANGED <<path, text, want, told>>
  BY DEF Validate, diskVars
<1>2. CASE Refuse(w)
  BY <1>1, <1>2, ReplaceRefuses DEF Note
<1>3. CASE path = opened[w] /\ stamp[path] = seen[w] /\ Go(w, "reread")
  <2>1. Note = want[w].expected
    BY <1>1, <1>3 DEF NoteInv, ReadIsDated, Note
  <2>2. \A x \in Writers : Edit[x] # "compared"
    <3>1. ASSUME NEW x \in Writers, Progress(x) = "compared" PROVE FALSE
      <4>1. pc[x] \in {"reread", "rename"}
        BY <3>1, ProgressKinds
      <4>2. x = w
        BY <1>1, <4>1, Alone DEF Locked
      <4>q. QED
        BY <1>1, <4>1, <4>2
    <3>q. QED
      BY <3>1 DEF Edit
  <2>3. /\ pc'[w] = "reread" /\ Edit' = [Edit EXCEPT ![w] = Progress(w)']
        /\ Edit[w] = Progress(w)
    BY <1>1, <1>3, OwnStep DEF Go, Steps
  <2>4. Progress(w)' = "compared" /\ Progress(w) = "asked"
    BY <1>1, <2>3 DEF Progress
  <2>q. QED
    BY <1>1, <2>1, <2>2, <2>3, <2>4 DEF Atomic!Compare, Note
<1>q. QED
  BY <1>2, <1>3 DEF Validate

LEMMA ReplaceReadAgain ==
  ASSUME NoteInv, NEW w \in Writers, ReadAgain(w)
  PROVE  Atomic!GiveUp(w) \/ UNCHANGED <<Note, Edit, want, told>>
<1>1. pc[w] = "reread" /\ UNCHANGED <<path, text, want, told>>
  BY DEF ReadAgain, diskVars
<1>2. CASE Refuse(w)
  BY <1>1, <1>2, ReplaceRefuses DEF Note
<1>3. CASE Go(w, "rename")
  <2>1. pc'[w] = "rename" /\ (Progress(w)' = Progress(w) => Edit' = Edit)
    BY <1>1, <1>3, OwnStep DEF Go, Steps
  <2>2. Progress(w)' = "compared" /\ Progress(w) = "compared"
    BY <1>1, <2>1 DEF Progress
  <2>q. QED
    BY <1>1, <2>1, <2>2 DEF Note
<1>q. QED
  BY <1>2, <1>3 DEF ReadAgain

\* The rename is the write.
LEMMA ReplaceRename ==
  ASSUME NoteInv, NEW w \in Writers, Rename(w)
  PROVE  Atomic!Replace(w) \/ Atomic!GiveUp(w)
<1>1. pc[w] = "rename" /\ UNCHANGED <<text, want, told>>
  BY DEF Rename
<1>2. CASE Finally(w, "error") /\ path' = path
  BY <1>1, <1>2, ReplaceGivesUp DEF Note, Verdicts
<1>3. CASE Finally(w, "done") /\ path' = temp[w]
  <2>1. Note' = want[w].candidate /\ want[w].expected # want[w].candidate
    BY <1>1, <1>3 DEF NoteInv, TempOwned, Note
  <2>2. /\ pc'[w] = "clean" /\ Edit' = [Edit EXCEPT ![w] = Progress(w)']
        /\ Edit[w] = Progress(w)
    BY <1>1, <1>3, OwnStep DEF Finally, Steps, Verdicts
  <2>3. verdict'[w] = "done"
    BY <1>3 DEF Finally, NoteInv, Types
  <2>4. Progress(w)' = "replaced" /\ Progress(w) = "compared"
    BY <1>1, <2>1, <2>2, <2>3 DEF Progress
  <2>q. QED
    BY <1>1, <2>1, <2>2, <2>4 DEF Atomic!Replace
<1>q. QED
  BY <1>2, <1>3 DEF Rename

\* The finally block: nothing is seen of it until the writer tells.
LEMMA ReplaceFinally ==
  ASSUME NoteInv, NEW w \in Writers, CleanUp(w) \/ Unlock(w) \/ Die(w) \/ LockedOut(w)
  PROVE  Atomic!Tell(w) \/ UNCHANGED <<Note, Edit, want, told>>
<1>1. Running(w) /\ UNCHANGED <<path, text>>
  BY DEF CleanUp, Unlock, Die, LockedOut, Running, diskVars
<1>2. CASE End(w, "error") \/ End(w, "nothing")
  BY <1>1, <1>2, EndTells DEF Verdicts
<1>3. CASE LockedOut(w) /\ End(w, "race")
  <2>1. Progress(w) = "asked"
    BY <1>3 DEF LockedOut, Progress
  <2>q. QED
    BY <1>1, <1>3, <2>1, EndTells DEF Verdicts
<1>4. CASE Unlock(w) /\ End(w, verdict[w])
  <2>1. pc[w] = "unlock" /\ verdict[w] \in Verdicts
    BY <1>4 DEF Unlock, NoteInv, Types
  <2>2. /\ verdict[w] = "done" => Progress(w) = "replaced" \/ want[w].expected = want[w].candidate
        /\ verdict[w] = "race" => Progress(w) # "replaced"
    BY <2>1, ProgressKinds
  <2>q. QED
    BY <1>1, <1>4, <2>1, <2>2, EndTells
<1>5. CASE CleanUp(w) /\ Go(w, "unlock") /\ UNCHANGED <<want, told>>
  <2>1. pc'[w] = "unlock" /\ (Progress(w)' = Progress(w) => Edit' = Edit)
    BY <1>1, <1>5, OwnStep DEF Go, Steps
  <2>2. pc[w] = "clean" /\ verdict' = verdict
    BY <1>5 DEF CleanUp, Go
  <2>3. Progress(w)' = Progress(w)
    BY <1>5, <2>1, <2>2 DEF Progress
  <2>q. QED
    BY <1>1, <1>5, <2>1, <2>3 DEF Note
<1>q. QED
  BY <1>2, <1>3, <1>4, <1>5 DEF CleanUp, Unlock, Die, LockedOut

LEMMA ReplaceStep ==
  ASSUME NoteInv, [Next]_vars
  PROVE  [Atomic!Next]_(Atomic!atomicVars)
<1> DEFINE Quiet == UNCHANGED <<Note, Edit, want, told>>
<1>1. CASE UNCHANGED vars
  BY <1>1 DEF vars, diskVars, localVars, Note, Edit, Progress, Atomic!atomicVars
<1>2. CASE RemoveLock
  BY <1>2 DEF RemoveLock, localVars, Note, Edit, Progress, Atomic!atomicVars
<1>3. ASSUME NEW t \in Texts, EditInPlace(t) \/ EditByRename(t) PROVE Atomic!Foreign
  <2>1. Edit' = Edit /\ UNCHANGED <<want, told>>
    BY <1>3 DEF EditInPlace, EditByRename, localVars, Edit, Progress
  <2>2. path \in Files
    BY LimitsAssumption DEF NoteInv, Types, Files
  <2>3. EditByRename(t) => made + 1 \in Files
    BY Fresh DEF EditByRename, Create
  <2>4. Note' = t
    BY <1>3, <2>2, <2>3 DEF EditInPlace, EditByRename, Note, NoteInv, Types
  <2>q. QED
    BY <2>1, <2>4 DEF Atomic!Foreign
<1>4. ASSUME NEW w \in Writers, Writer(w) PROVE Atomic!Next \/ Quiet
  BY <1>4, ReplaceAsk, ReplaceTakeLock, ReplaceReadNote, ReplaceValidate, ReplaceReadAgain,
     ReplaceRename, ReplaceFinally DEF Writer, Atomic!Next
<1>q. QED
  BY <1>1, <1>2, <1>3, <1>4 DEF Next, Atomic!Next, Atomic!atomicVars

\* Lock, second look and rename replace a note as one comparison and one write,
\* and a writer is told the truth about it.
THEOREM NoteImplementsReplace == Spec => ImplementsReplace
<1>1. Init => Atomic!Init
  BY ReplaceInit
<1>2. NoteInv /\ [Next]_vars => [Atomic!Next]_(Atomic!atomicVars)
  BY ReplaceStep
<1>q. QED
  BY <1>1, <1>2, NoteInvariant, PTL DEF Spec, ImplementsReplace, Atomic!Spec
=============================================================================

----------------------------- MODULE AgentProofs -----------------------------
(* Theorems about a session and its agent loop, for all values of the       *)
(* constants.                                                               *)
EXTENDS AgentProperties, FiniteSetTheorems, SequenceTheorems, TLAPS

Entry == [role : {"user"}, msg : Msgs]
           \cup [role : {"assistant"}, stop : Stops, calls : 0..MaxCalls]
           \cup [role : {"toolResult"}, call : 1..MaxCalls]

Batch == [calls : 0..MaxCalls, mode : {"sequential", "parallel"},
          next : 1..MaxCalls + 1, told : 0..MaxCalls,
          running : SUBSET (1..MaxCalls), yes : SUBSET (1..MaxCalls)]

Users(s) == [i \in DOMAIN s |-> User(s[i])]

Results(n) == [i \in 1..n |-> Result(i)]

\* The run answers the calls of a reply.
Answering == {"preflight", "check", "execute"}

-----------------------------------------------------------------------------
(* The inductive invariant, in parts that are proved one after the other    *)

\* A batch is prepared up to next, and reported up to told.
BatchInOrder ==
  /\ batch.told < batch.next /\ batch.next <= batch.calls + 1
  /\ pc = "preflight" => batch.next <= batch.calls
  /\ pc = "check" => batch.mode = "parallel"
  /\ pc = "execute" /\ batch.mode = "parallel" /\ ~aborted => batch.next = batch.calls + 1

\* Types, and what the place of the run says of its locals: only prompts and
\* injected messages are on hand, only while calls are answered is there a batch,
\* and after the first event the transcript is not empty.
TypeInv ==
  /\ TypeOK
  /\ context \in Seq(Entry)
  /\ pc \notin {"prompt", "inject"} => inbox = <<>>
  /\ pc # "idle" => transcript # <<>> \/ (pc = "prompt" /\ inbox # <<>>)
  /\ pc = "failed" => Last(transcript).role = "assistant" /\ thrown > 0
  /\ pc \notin Answering \cup {"failed"} => batch = NoBatch
  /\ pc \in Answering => BatchInOrder
  /\ \A c \in Callers : call[c] = "prepare" => held[c] \in Msgs
  /\ retrier # NoCaller => call[retrier] = "sleep"

\* The transcript is the context, but for prompts that are not emitted yet and
\* results that are not collected yet.
ContextKept ==
  /\ pc = "prompt" => context = transcript \o Users(inbox)
  /\ pc \in {"inject", "stream", "cancelled", "turn"} => context = transcript
  /\ pc \in Answering => transcript = context \o Results(batch.told)

\* The reply whose calls are answered is followed by the results so far.
ReplyInAnswer ==
  pc \in Answering =>
    LET reply == Len(transcript) - batch.told
    IN /\ reply > 0
       /\ transcript[reply].role = "assistant" /\ transcript[reply].calls = batch.calls
       /\ \A k \in 1..batch.told : transcript[reply + k] = Result(k)

TalkInv == ContextKept /\ ReplyInAnswer /\ CallsAnswered

\* A message that is being prepared is held by one call.
HeldOnce ==
  /\ \A c \in Callers : call[c] = "prepare" => fate[held[c]] = "held"
  /\ \A c, d \in Callers :
       call[c] = "prepare" /\ call[d] = "prepare" /\ held[c] = held[d] => c = d

DeliveryInv == DeliveredOnce /\ HeldOnce

\* A run has one caller, and a caller of a run has it.
RunHasCaller ==
  /\ pc # "idle" => \E c \in Callers : call[c] = "run"
  /\ \A c, d \in Callers : call[c] = "run" /\ call[d] = "run" => c = d
  /\ \A c \in Callers : call[c] = "run" => pc # "idle"

\* Unless a run threw, the transcript starts with a prompt, a message is queued
\* only when there is something to go on with, and somebody is to look for it.
QueueIsWatched ==
  thrown = 0 =>
    /\ transcript # <<>> => transcript[1].role = "user"
    /\ HasQueuedMessages =>
         /\ pc # "idle" \/ transcript # <<>>
         /\ \E c \in Callers : call[c] \in {"run", "post", "sleep"}

QueueInv == RunHasCaller /\ QueueIsWatched

-----------------------------------------------------------------------------
(* Sequences                                                                *)

\* The last element, and what is left without it.
LEMMA FrontLast ==
  ASSUME NEW S, NEW s \in Seq(S), s # <<>>
  PROVE  /\ Len(s) \in Nat \ {0}
         /\ Last(s) \in S /\ Last(s) = s[Len(s)]
         /\ Front(s) \in Seq(S) /\ Len(Front(s)) = Len(s) - 1
         /\ \A i \in 1..(Len(s) - 1) : Front(s)[i] = s[i]
<1>1. Len(s) \in Nat \ {0}
  BY EmptySeq
<1>2. \A i \in 1..Len(s) : s[i] \in S
  BY ElementOfSeq
<1>3. Last(s) \in S /\ Last(s) = s[Len(s)]
  BY <1>1, <1>2 DEF Last
<1>4. \A n \in Nat : n = Len(s) - 1 =>
        /\ SubSeq(s, 1, n) \in Seq(S) /\ Len(SubSeq(s, 1, n)) = n
        /\ \A i \in 1..n : SubSeq(s, 1, n)[i] = s[i]
  <2>1. SUFFICES ASSUME NEW n \in Nat, n = Len(s) - 1
                 PROVE  /\ SubSeq(s, 1, n) \in Seq(S) /\ Len(SubSeq(s, 1, n)) = n
                        /\ \A i \in 1..n : SubSeq(s, 1, n)[i] = s[i]
    OBVIOUS
  <2>2. 1 \in Int /\ n \in Int /\ \A i \in 1..n : s[i] \in S
    BY <1>1, <1>2, <2>1
  <2>3. /\ SubSeq(s, 1, n) \in Seq(S)
        /\ Len(SubSeq(s, 1, n)) = IF 1 <= n THEN n - 1 + 1 ELSE 0
        /\ \A i \in 1..(n - 1 + 1) : SubSeq(s, 1, n)[i] = s[1 + i - 1]
    BY <2>2, SubSeqProperties
  <2>q. QED
    BY <2>3
<1>5. PICK n \in Nat : n = Len(s) - 1
  BY <1>1
<1>6. Front(s) = SubSeq(s, 1, n)
  BY <1>5 DEF Front
<1>q. QED
  BY <1>1, <1>3, <1>4, <1>5, <1>6

\* How often an entry occurs.
Count(e, s) == Cardinality(Copies(e, s))

LEMMA CountType ==
  ASSUME NEW S, NEW s \in Seq(S), NEW e
  PROVE  /\ IsFiniteSet(Copies(e, s))
         /\ Count(e, s) \in Nat
         /\ Count(e, s) = 0 <=> \A i \in 1..Len(s) : s[i] # e
<1>1. Len(s) \in Nat /\ DOMAIN s = 1..Len(s)
  BY LenProperties
<1>2. Copies(e, s) \subseteq 1..Len(s)
  BY <1>1 DEF Copies
<1>3. IsFiniteSet(1..Len(s))
  BY <1>1, FS_Interval
<1>4. IsFiniteSet(Copies(e, s))
  BY <1>2, <1>3, FS_Subset
<1>5. Count(e, s) \in Nat
  BY <1>4, FS_CardinalityType DEF Count
<1>6. Count(e, s) = 0 <=> Copies(e, s) = {}
  BY <1>4, FS_EmptySet DEF Count
<1>7. Copies(e, s) = {} <=> \A i \in 1..Len(s) : s[i] # e
  BY <1>1 DEF Copies
<1>q. QED
  BY <1>4, <1>5, <1>6, <1>7

LEMMA CountEmpty == ASSUME NEW e PROVE Count(e, <<>>) = 0
<1>1. <<>> \in Seq({}) /\ Len(<<>>) = 0
  BY EmptySeq
<1>2. Count(e, <<>>) = 0 <=> \A i \in 1..Len(<<>>) : <<>>[i] # e
  BY <1>1, CountType
<1>q. QED
  BY <1>1, <1>2

LEMMA CountAppend ==
  ASSUME NEW S, NEW s \in Seq(S), NEW x \in S, NEW e
  PROVE  Count(e, Append(s, x)) = Count(e, s) + (IF x = e THEN 1 ELSE 0)
<1> DEFINE t == Append(s, x)
<1>1. Len(s) \in Nat /\ DOMAIN s = 1..Len(s)
  BY LenProperties
<1>2. /\ t \in Seq(S) /\ Len(t) = Len(s) + 1 /\ t[Len(s) + 1] = x
      /\ \A i \in 1..Len(s) : t[i] = s[i]
  BY AppendProperties
<1>3. DOMAIN t = 1..(Len(s) + 1)
  BY <1>2, LenProperties
<1>4. IsFiniteSet(Copies(e, s)) /\ Count(e, s) \in Nat /\ Len(s) + 1 \notin Copies(e, s)
  BY <1>1, CountType DEF Copies
<1> HIDE DEF t
<1>5. CASE x = e
  <2>1. Copies(e, t) = Copies(e, s) \cup {Len(s) + 1}
    BY <1>1, <1>2, <1>3, <1>5 DEF Copies
  <2>2. Cardinality(Copies(e, s) \cup {Len(s) + 1}) = Cardinality(Copies(e, s)) + 1
    BY <1>4, FS_AddElement
  <2>q. QED
    BY <1>5, <2>1, <2>2 DEF Count, t
<1>6. CASE x # e
  <2>1. Copies(e, t) = Copies(e, s)
    BY <1>1, <1>2, <1>3, <1>6 DEF Copies
  <2>q. QED
    BY <1>4, <1>6, <2>1 DEF Count, t
<1>q. QED
  BY <1>5, <1>6

LEMMA CountTail ==
  ASSUME NEW S, NEW s \in Seq(S), s # <<>>, NEW e
  PROVE  Count(e, s) = Count(e, Tail(s)) + (IF Head(s) = e THEN 1 ELSE 0)
<1> DEFINE t == Tail(s)
           shift == [i \in Copies(e, t) |-> i + 1]
<1>1. Len(s) \in Nat \ {0} /\ DOMAIN s = 1..Len(s)
  BY EmptySeq, LenProperties
<1>2. /\ t \in Seq(S) /\ Len(t) = Len(s) - 1
      /\ \A i \in 1..(Len(s) - 1) : t[i] = s[i + 1]
  BY HeadTailProperties
<1>3. DOMAIN t = 1..(Len(s) - 1)
  BY <1>2, LenProperties
<1>4. Head(s) = s[1]
  OBVIOUS
<1>5. IsFiniteSet(Copies(e, t)) /\ Count(e, t) \in Nat
  BY <1>2, CountType
<1> HIDE DEF t
<1> DEFINE later == Copies(e, s) \ {1}
<1>6. shift \in Bijection(Copies(e, t), later)
  <2>1. \A i \in Copies(e, t) : i \in Nat /\ i + 1 \in later
    BY <1>1, <1>2, <1>3 DEF Copies
  <2>2. shift \in [Copies(e, t) -> later]
    BY <2>1
  <2>3. \A i, j \in Copies(e, t) : shift[i] = shift[j] => i = j
    BY <2>1
  <2>4. \A k \in later : \E i \in Copies(e, t) : shift[i] = k
    <3>1. SUFFICES ASSUME NEW k \in later PROVE \E i \in Copies(e, t) : shift[i] = k
      OBVIOUS
    <3>2. k \in 2..Len(s) /\ s[k] = e
      BY <1>1 DEF Copies
    <3>3. k - 1 \in 1..(Len(s) - 1) /\ t[k - 1] = s[k]
      BY <1>1, <1>2, <3>2
    <3>4. k - 1 \in Copies(e, t) /\ (k - 1) + 1 = k
      BY <1>3, <3>2, <3>3 DEF Copies
    <3>q. QED
      BY <3>4
  <2> HIDE DEF shift, later
  <2>q. QED
    BY <2>2, <2>3, <2>4 DEF Bijection, Injection, Surjection, IsInjective
<1>7. IsFiniteSet(later) /\ Cardinality(later) = Count(e, t)
  <2> HIDE DEF shift, later
  <2>q. QED
    BY <1>5, <1>6, FS_Bijection, FS_SameCardinalityBij DEF Count, ExistsBijection
<1>8. CASE Head(s) = e
  <2>1. Copies(e, s) = later \cup {1} /\ 1 \notin later
    BY <1>1, <1>4, <1>8 DEF Copies
  <2> HIDE DEF later
  <2>2. Cardinality(later \cup {1}) = Cardinality(later) + 1
    BY <1>7, <2>1, FS_AddElement
  <2>q. QED
    BY <1>7, <1>8, <2>1, <2>2 DEF Count, t
<1>9. CASE Head(s) # e
  <2>1. Copies(e, s) = later
    BY <1>4, <1>9 DEF Copies
  <2> HIDE DEF later
  <2>q. QED
    BY <1>5, <1>7, <1>9, <2>1 DEF Count, t
<1>q. QED
  BY <1>8, <1>9

LEMMA CountFront ==
  ASSUME NEW S, NEW s \in Seq(S), s # <<>>, NEW e, Last(s) # e
  PROVE  Count(e, Front(s)) = Count(e, s)
<1>1. /\ Len(s) \in Nat \ {0} /\ Last(s) = s[Len(s)]
      /\ Front(s) \in Seq(S) /\ Len(Front(s)) = Len(s) - 1
      /\ \A i \in 1..(Len(s) - 1) : Front(s)[i] = s[i]
  BY FrontLast
<1>2. DOMAIN s = 1..Len(s) /\ DOMAIN Front(s) = 1..(Len(s) - 1)
  BY <1>1, LenProperties
<1>3. Copies(e, Front(s)) = Copies(e, s)
  BY <1>1, <1>2 DEF Copies
<1>q. QED
  BY <1>3 DEF Count

LEMMA OneElement ==
  ASSUME NEW S, NEW x \in S, NEW e
  PROVE  <<x>> \in Seq(S) /\ Count(e, <<x>>) = IF x = e THEN 1 ELSE 0
<1>1. <<>> \in Seq(S) /\ Append(<<>>, x) = <<x>>
  BY EmptySeq
<1>2. Count(e, Append(<<>>, x)) = Count(e, <<>>) + (IF x = e THEN 1 ELSE 0)
  BY <1>1, CountAppend
<1>q. QED
  BY <1>1, <1>2, CountEmpty, AppendProperties

\* Nothing that is drained gets lost or doubled.
LEMMA DrainedCount ==
  ASSUME NEW q \in Seq(Msgs), NEW d \in Drained(q), NEW m
  PROVE  /\ d.taken \in Seq(Msgs) /\ d.rest \in Seq(Msgs)
         /\ Count(m, d.taken) \in Nat /\ Count(m, d.rest) \in Nat
         /\ Count(m, q) = Count(m, d.taken) + Count(m, d.rest)
         /\ q # <<>> => d.taken # <<>>
         /\ q = <<>> => d.taken = <<>> /\ d.rest = <<>>
<1>1. CASE d = [taken |-> q, rest |-> <<>>]
  <2>1. <<>> \in Seq(Msgs) /\ Count(m, q) \in Nat /\ Count(m, <<>>) = 0
    BY EmptySeq, CountType, CountEmpty
  <2>q. QED
    BY <1>1, <2>1
<1>2. CASE q # <<>> /\ d = [taken |-> <<Head(q)>>, rest |-> Tail(q)]
  <2>1. Head(q) \in Msgs /\ Tail(q) \in Seq(Msgs)
    BY <1>2, HeadTailProperties
  <2>2. /\ <<Head(q)>> \in Seq(Msgs) /\ <<Head(q)>> # <<>>
        /\ Count(m, <<Head(q)>>) = IF Head(q) = m THEN 1 ELSE 0
    BY <2>1, OneElement
  <2>3. Count(m, q) = Count(m, Tail(q)) + (IF Head(q) = m THEN 1 ELSE 0)
    BY <1>2, CountTail
  <2>4. Count(m, Tail(q)) \in Nat
    BY <2>1, CountType
  <2>q. QED
    BY <1>2, <2>1, <2>2, <2>3, <2>4
<1>q. QED
  BY <1>1, <1>2 DEF Drained

LEMMA SeqAppend ==
  ASSUME NEW S, NEW s \in Seq(S), NEW x \in S
  PROVE  /\ Append(s, x) \in Seq(S) /\ Append(s, x) # <<>>
         /\ Last(Append(s, x)) = x
<1>1. /\ Append(s, x) \in Seq(S) /\ Append(s, x) # <<>>
      /\ Len(Append(s, x)) = Len(s) + 1
      /\ Append(s, x)[Len(s) + 1] = x
  BY AppendProperties
<1>q. QED
  BY <1>1 DEF Last

\* The three kinds of entries.
LEMMA EntryTypes ==
  /\ \A m \in Msgs : User(m) \in Entry /\ User(m).role = "user"
  /\ \A stop \in Stops, n \in 0..MaxCalls :
       /\ Assistant(stop, n) \in Entry /\ Assistant(stop, n).role = "assistant"
       /\ Assistant(stop, n).calls = n
  /\ \A i \in 1..MaxCalls : Result(i) \in Entry /\ Result(i).role = "toolResult"
BY DEF User, Assistant, Result, Entry

LEMMA UsersTypes ==
  ASSUME NEW s \in Seq(Msgs)
  PROVE  /\ Users(s) \in Seq(Entry) /\ Len(Users(s)) = Len(s)
         /\ \A i \in 1..Len(s) : Users(s)[i] = User(s[i])
<1>1. Len(s) \in Nat /\ DOMAIN s = 1..Len(s) /\ \A i \in 1..Len(s) : s[i] \in Msgs
  BY LenProperties, ElementOfSeq
<1>2. \A i \in 1..Len(s) : User(s[i]) \in Entry
  BY <1>1, EntryTypes
<1>3. Users(s) = [i \in 1..Len(s) |-> User(s[i])]
  BY <1>1 DEF Users
<1>4. Users(s) \in [1..Len(s) -> Entry]
  BY <1>2, <1>3
<1>5. Users(s) \in Seq(Entry)
  BY <1>1, <1>4, SeqDef
<1>q. QED
  BY <1>1, <1>3, <1>5, LenProperties

LEMMA ResultsTypes ==
  ASSUME NEW n \in 0..MaxCalls
  PROVE  /\ Results(n) \in Seq(Entry) /\ Len(Results(n)) = n
         /\ \A i \in 1..n : Results(n)[i] = Result(i)
<1>1. n \in Nat /\ \A i \in 1..n : Result(i) \in Entry
  BY AgentBounds, EntryTypes
<1>2. Results(n) \in [1..n -> Entry]
  BY <1>1 DEF Results
<1>3. Results(n) \in Seq(Entry)
  BY <1>1, <1>2, SeqDef
<1>q. QED
  BY <1>1, <1>3, LenProperties DEF Results

-----------------------------------------------------------------------------
(* Types                                                                    *)

\* TypeOK, but for the transcript and the batch.
OtherTypes ==
  /\ steering \in Seq(Msgs) /\ followUps \in Seq(Msgs) /\ inbox \in Seq(Msgs)
  /\ pc \in {"idle", "prompt", "inject", "stream", "cancelled", "preflight", "check",
             "execute", "turn", "end", "failed"}
  /\ more \in BOOLEAN /\ aborted \in BOOLEAN /\ skip \in BOOLEAN
  /\ thrown \in 0..MaxThrows
  /\ call \in [Callers -> Steps]
  /\ held \in [Callers -> Msgs \cup {NoMsg}]
  /\ attempts \in 0..MaxRetries
  /\ retrier \in Callers \cup {NoCaller}
  /\ fate \in [Msgs -> Fates]

LEMMA TypeParts ==
  /\ TypeOK <=> transcript \in Seq(Entry) /\ batch \in Batch /\ OtherTypes
  /\ TypeOK' <=> transcript' \in Seq(Entry) /\ batch' \in Batch /\ OtherTypes'
BY DEF TypeOK, OtherTypes, Entry, Batch

LEMMA BatchTypes ==
  /\ NoBatch \in Batch
  /\ \A b \in Batch, i \in 0..MaxCalls : [b EXCEPT !.told = i] \in Batch
  /\ \A n \in 0..MaxCalls, mode \in {"sequential", "parallel"}, k \in 1..MaxCalls + 1 :
       [NoBatch EXCEPT !.calls = n, !.mode = mode, !.next = k] \in Batch
<1>1. NoBatch \in Batch
  BY AgentBounds DEF NoBatch, Batch
<1>2. \A b \in Batch, i \in 0..MaxCalls : [b EXCEPT !.told = i] \in Batch
  BY DEF Batch
<1>3. \A n \in 0..MaxCalls, mode \in {"sequential", "parallel"}, k \in 1..MaxCalls + 1 :
        [NoBatch EXCEPT !.calls = n, !.mode = mode, !.next = k] \in Batch
  BY <1>1 DEF Batch
<1>q. QED
  BY <1>1, <1>2, <1>3

LEMMA TypesInit == Init => TypeInv
<1> SUFFICES ASSUME Init PROVE TypeInv
  OBVIOUS
<1> USE DEF Init, AgentInit
<1>1. <<>> \in Seq(Entry) /\ <<>> \in Seq(Msgs)
  BY EmptySeq
<1>2. fate \in [Msgs -> Fates]
  BY DEF Fates
<1>3. /\ call \in [Callers -> Steps] /\ held \in [Callers -> Msgs \cup {NoMsg}]
      /\ attempts \in 0..MaxRetries /\ thrown \in 0..MaxThrows
      /\ retrier \in Callers \cup {NoCaller}
  BY AgentBounds, SessionAssumption DEF Steps
<1>4. TypeOK
  BY <1>1, <1>2, <1>3, BatchTypes DEF TypeOK, Batch, Entry
<1>q. QED
  BY <1>1, <1>4 DEF TypeInv, Answering

\* What a run starts with.
LEMMA RunPromptsTypes ==
  ASSUME TypeInv, NEW prompts \in Seq(Msgs), NEW noPoll \in BOOLEAN,
         RunPrompts(prompts, noPoll), transcript' = transcript,
         prompts # <<>> \/ transcript # <<>>
  PROVE  /\ context' \in Seq(Entry) /\ inbox' \in Seq(Msgs) /\ skip' \in BOOLEAN
         /\ pc' = "prompt" /\ inbox' = prompts
         /\ context' = transcript \o Users(prompts)
<1>1. context' = transcript \o Users(prompts)
  BY DEF RunPrompts, Users
<1>2. transcript \in Seq(Entry) /\ Users(prompts) \in Seq(Entry)
  BY UsersTypes DEF TypeInv, TypeOK, Batch, Entry
<1>3. context' \in Seq(Entry)
  BY <1>1, <1>2, ConcatProperties
<1>q. QED
  BY <1>1, <1>3 DEF RunPrompts

\* The steps of the loop.
LEMMA LoopTypes ==
  ASSUME TypeInv, LoopStep, UNCHANGED sessionVars
  PROVE  TypeInv'
<1>1. CASE EmitPrompt
  <2>1. Head(inbox) \in Msgs /\ Tail(inbox) \in Seq(Msgs)
    BY <1>1, HeadTailProperties DEF TypeInv, TypeOK, Batch, EmitPrompt
  <2>2. transcript' \in Seq(Entry) /\ transcript' # <<>>
    BY <1>1, <2>1, SeqAppend, EntryTypes DEF TypeInv, TypeOK, Batch, EmitPrompt, Entry
  <2>q. QED
    BY <1>1, <2>1, <2>2
    DEF TypeInv, TypeOK, Batch, EmitPrompt, Entry, queueVars, sessionVars, Answering
<1>2. CASE FirstPoll
  <2>1. PICK d \in Drained(steering) :
          /\ inbox' = IF skip THEN <<>> ELSE d.taken
          /\ steering' = IF skip THEN steering ELSE d.rest
    BY <1>2 DEF FirstPoll
  <2>2. inbox' \in Seq(Msgs) /\ steering' \in Seq(Msgs)
    BY <2>1, DrainedCount, EmptySeq DEF TypeInv, TypeOK, Batch
  <2>q. QED
    BY <1>2, <2>2 DEF TypeInv, TypeOK, Batch, FirstPoll, Entry, sessionVars, Answering
<1>3. CASE Inject
  <2>1. Head(inbox) \in Msgs /\ Tail(inbox) \in Seq(Msgs)
    BY <1>3, HeadTailProperties DEF TypeInv, TypeOK, Batch, Inject
  <2>2. /\ User(Head(inbox)) \in Entry
        /\ transcript' = Append(transcript, User(Head(inbox)))
        /\ context' = Append(context, User(Head(inbox)))
    BY <1>3, <2>1, EntryTypes DEF Inject, Add
  <2>3. transcript \in Seq(Entry) /\ context \in Seq(Entry)
    BY DEF TypeInv, TypeOK, Batch, Entry
  <2>4. transcript' \in Seq(Entry) /\ transcript' # <<>> /\ context' \in Seq(Entry)
    BY <2>2, <2>3, SeqAppend
  <2>q. QED
    BY <1>3, <2>1, <2>4
    DEF TypeInv, TypeOK, Batch, Inject, Entry, queueVars, sessionVars, Answering
<1>4. CASE Ask
  BY <1>4 DEF TypeInv, TypeOK, Batch, Ask, Entry, queueVars, sessionVars, Answering
<1>5. CASE Prepare
  <2>1. batch.next + 1 \in 1..MaxCalls + 1 /\ batch.next \in 1..MaxCalls
    BY <1>5, AgentBounds DEF TypeInv, TypeOK, Batch, BatchInOrder, Prepare, Answering
  <2>2. PICK started \in {{}, {batch.next}} :
          batch' = [batch EXCEPT !.next = @ + 1, !.running = @ \cup started]
    BY <1>5 DEF Prepare
  <2>3. batch.running \cup started \subseteq 1..MaxCalls
    BY <2>1, <2>2 DEF TypeInv, TypeOK, Batch
  <2>4. TypeOK' /\ context' \in Seq(Entry)
    BY <1>5, <2>1, <2>2, <2>3
    DEF TypeInv, TypeOK, Batch, Prepare, Entry, queueVars, sessionVars
  <2>5. BatchInOrder'
    BY <1>5, <2>1, <2>2, AgentBounds
    DEF TypeInv, TypeOK, Batch, Prepare, Answering, BatchInOrder
  <2>6. /\ pc = "preflight" /\ pc' \in {"check", "execute"}
        /\ transcript' # <<>> /\ inbox' = <<>>
        /\ call' = call /\ held' = held /\ retrier' = retrier
    BY <1>5 DEF TypeInv, Prepare, sessionVars
  <2>q. QED
    BY <2>4, <2>5, <2>6 DEF TypeInv, Answering
<1>6. CASE NextSibling
  <2>1. BatchInOrder'
    BY <1>6, AgentBounds DEF TypeInv, TypeOK, Batch, NextSibling, AnotherCall, Answering, BatchInOrder
  <2>q. QED
    BY <1>6, <2>1 DEF TypeInv, TypeOK, Batch, NextSibling, Entry, queueVars, sessionVars, Answering
<1>7. CASE Report
  <2>1. batch.told + 1 \in 1..MaxCalls
    BY <1>7, AgentBounds DEF TypeInv, TypeOK, Batch, BatchInOrder, Report, Answering
  <2>2. transcript' \in Seq(Entry) /\ transcript' # <<>>
    BY <1>7, <2>1, SeqAppend, EntryTypes DEF TypeInv, TypeOK, Batch, Report, Entry
  <2>3. BatchInOrder'
    BY <1>7, <2>1, AgentBounds DEF TypeInv, TypeOK, Batch, Report, Answering, BatchInOrder
  <2>4. batch' \in Batch
    <3>1. batch \in Batch
      BY DEF TypeInv, TypeOK, Batch
    <3>2. batch.told + 1 \in 0..MaxCalls
      BY <2>1
    <3>3. batch' = [batch EXCEPT !.told = batch.told + 1]
      BY <1>7 DEF Report
    <3>q. QED
      BY <3>1, <3>2, <3>3, BatchTypes
  <2>5. TypeOK' /\ context' \in Seq(Entry)
    BY <1>7, <2>2, <2>4 DEF TypeInv, TypeOK, Batch, Report, Entry, queueVars, sessionVars
  <2>6. /\ pc = "execute" /\ pc' = "execute" /\ inbox' = <<>>
        /\ call' = call /\ held' = held /\ retrier' = retrier
    BY <1>7 DEF TypeInv, Report, sessionVars
  <2>q. QED
    BY <2>2, <2>3, <2>5, <2>6 DEF TypeInv, Answering
<1>8. CASE Reported
  <2>1. CASE batch.mode = "sequential" /\ AnotherCall
    <3>1. BatchInOrder'
      BY <1>8, <2>1, AgentBounds
      DEF TypeInv, TypeOK, Batch, Reported, AnotherCall, Answering, BatchInOrder
    <3>q. QED
      BY <1>8, <2>1, <3>1
      DEF TypeInv, TypeOK, Batch, Reported, Entry, queueVars, sessionVars, Answering
  <2>2. CASE ~(batch.mode = "sequential" /\ AnotherCall)
    <3>1. context' = context \o Results(batch.told) /\ batch.told \in 0..MaxCalls
      BY <1>8, <2>2 DEF TypeInv, TypeOK, Batch, Reported, Results
    <3>2. context' \in Seq(Entry)
      BY <3>1, ResultsTypes, ConcatProperties DEF TypeInv
    <3>3. /\ batch' = NoBatch /\ more' \in BOOLEAN /\ pc = "execute" /\ pc' = "turn"
          /\ UNCHANGED <<transcript, inbox, skip, steering, followUps, aborted, thrown,
                          call, held, attempts, retrier, fate>>
      BY <1>8, <2>2 DEF Reported, queueVars, sessionVars
    <3>4. TypeOK'
      BY <3>3, BatchTypes, TypeParts DEF TypeInv, OtherTypes
    <3>q. QED
      BY <3>2, <3>3, <3>4 DEF TypeInv, Answering
  <2>q. QED
    BY <2>1, <2>2
<1>9. CASE NextTurn
  <2>1. PICK d \in Drained(steering) :
          /\ steering' = d.rest
          /\ IF more \/ d.taken # <<>>
             THEN inbox' = d.taken /\ pc' = "inject" /\ UNCHANGED followUps
             ELSE \E f \in Drained(followUps) :
                    /\ followUps' = f.rest
                    /\ inbox' = f.taken
                    /\ pc' = IF f.taken = <<>> THEN "end" ELSE "inject"
    BY <1>9 DEF NextTurn
  <2>2. steering' \in Seq(Msgs) /\ d.taken \in Seq(Msgs)
    BY <2>1, DrainedCount DEF TypeInv, TypeOK, Batch
  <2>3. \A f \in Drained(followUps) : f.rest \in Seq(Msgs) /\ f.taken \in Seq(Msgs)
    BY DrainedCount DEF TypeInv, TypeOK, Batch
  <2>4. /\ followUps' \in Seq(Msgs) /\ inbox' \in Seq(Msgs)
        /\ pc' = "inject" \/ (pc' = "end" /\ inbox' = <<>>)
    BY <2>1, <2>2, <2>3 DEF TypeInv, TypeOK, Batch
  <2>q. QED
    BY <1>9, <2>2, <2>4 DEF TypeInv, TypeOK, Batch, NextTurn, Entry, sessionVars, Answering
<1>q. QED
  BY <1>1, <1>2, <1>3, <1>4, <1>5, <1>6, <1>7, <1>8, <1>9 DEF LoopStep

\* What Agent.continue makes of the queues.
LEMMA ContinueTypes ==
  ASSUME TypeInv, NEW c \in Callers, GoOn(c), transcript' = transcript
  PROVE  /\ steering' \in Seq(Msgs) /\ followUps' \in Seq(Msgs) /\ inbox' \in Seq(Msgs)
         /\ context' \in Seq(Entry) /\ skip' \in BOOLEAN
         /\ \/ /\ CannotContinue /\ call' = [call EXCEPT ![c] = "idle"]
               /\ UNCHANGED <<context, inbox, skip, pc, queueVars>>
            \/ /\ ~CannotContinue /\ call' = [call EXCEPT ![c] = "run"]
               /\ pc = "idle" /\ pc' = "prompt" /\ transcript # <<>>
               /\ context' = transcript \o Users(inbox')
<1>1. CASE CannotContinue
  BY <1>1 DEF GoOn, Goto, TypeInv, TypeOK, Batch, queueVars
<1>2. CASE ~CannotContinue
  <2>1. /\ call' = [call EXCEPT ![c] = "run"] /\ ContinueFrom
        /\ pc = "idle" /\ transcript # <<>>
    BY <1>2 DEF GoOn, Goto, CannotContinue
  <2>2. CASE Last(transcript).role # "assistant"
    <3>1. RunPrompts(<<>>, FALSE) /\ UNCHANGED queueVars /\ <<>> \in Seq(Msgs)
      BY <2>1, <2>2, EmptySeq DEF ContinueFrom
    <3>2. /\ context' \in Seq(Entry) /\ inbox' \in Seq(Msgs) /\ skip' \in BOOLEAN
          /\ pc' = "prompt" /\ inbox' = <<>> /\ context' = transcript \o Users(<<>>)
      BY <2>1, <3>1, RunPromptsTypes
    <3>q. QED
      BY <1>2, <2>1, <3>1, <3>2 DEF TypeInv, TypeOK, Batch, queueVars
  <2>3. CASE Last(transcript).role = "assistant" /\ steering # <<>>
    <3>1. PICK d \in Drained(steering) :
            steering' = d.rest /\ RunPrompts(d.taken, TRUE) /\ UNCHANGED followUps
      BY <2>1, <2>3 DEF ContinueFrom
    <3>2. d.taken \in Seq(Msgs) /\ d.rest \in Seq(Msgs)
      BY <3>1, DrainedCount DEF TypeInv, TypeOK, Batch
    <3>3. /\ context' \in Seq(Entry) /\ inbox' \in Seq(Msgs) /\ skip' \in BOOLEAN
          /\ pc' = "prompt" /\ inbox' = d.taken /\ context' = transcript \o Users(d.taken)
      BY <2>1, <3>1, <3>2, RunPromptsTypes
    <3>q. QED
      BY <1>2, <2>1, <3>1, <3>2, <3>3 DEF TypeInv, TypeOK, Batch
  <2>4. CASE Last(transcript).role = "assistant" /\ steering = <<>>
    <3>1. PICK d \in Drained(followUps) :
            followUps' = d.rest /\ RunPrompts(d.taken, FALSE) /\ UNCHANGED steering
      BY <2>1, <2>4 DEF ContinueFrom
    <3>2. d.taken \in Seq(Msgs) /\ d.rest \in Seq(Msgs)
      BY <3>1, DrainedCount DEF TypeInv, TypeOK, Batch
    <3>3. /\ context' \in Seq(Entry) /\ inbox' \in Seq(Msgs) /\ skip' \in BOOLEAN
          /\ pc' = "prompt" /\ inbox' = d.taken /\ context' = transcript \o Users(d.taken)
      BY <2>1, <3>1, <3>2, RunPromptsTypes
    <3>q. QED
      BY <1>2, <2>1, <3>1, <3>2, <3>3 DEF TypeInv, TypeOK, Batch
  <2>q. QED
    BY <2>2, <2>3, <2>4
<1>q. QED
  BY <1>1, <1>2

\* GoOn, with what its callers add to it.
LEMMA GoOnTypes ==
  ASSUME TypeInv, NEW c \in Callers, GoOn(c), call[c] \in {"post", "sleep"},
         retrier' \in {retrier, NoCaller}, retrier' # c
  PROVE  TypeInv'
<1>1. UNCHANGED <<transcript, batch, more, aborted, thrown, held, attempts, fate>>
  BY DEF GoOn
<1>2. /\ steering' \in Seq(Msgs) /\ followUps' \in Seq(Msgs) /\ inbox' \in Seq(Msgs)
      /\ context' \in Seq(Entry) /\ skip' \in BOOLEAN
      /\ \/ /\ CannotContinue /\ call' = [call EXCEPT ![c] = "idle"]
            /\ UNCHANGED <<context, inbox, skip, pc, queueVars>>
         \/ /\ ~CannotContinue /\ call' = [call EXCEPT ![c] = "run"]
            /\ pc = "idle" /\ pc' = "prompt" /\ transcript # <<>>
            /\ context' = transcript \o Users(inbox')
  BY <1>1, ContinueTypes
<1>3. TypeOK'
  BY <1>1, <1>2 DEF TypeInv, TypeOK, Batch, Steps, Entry
<1>4. /\ \A d \in Callers : call'[d] = "prepare" => held'[d] \in Msgs
      /\ retrier' # NoCaller => call'[retrier'] = "sleep"
  BY <1>1, <1>2 DEF TypeInv, TypeOK, Batch
<1>5. CASE pc' = pc /\ inbox' = inbox
  BY <1>1, <1>2, <1>3, <1>4, <1>5 DEF TypeInv, BatchInOrder
<1>6. CASE pc = "idle" /\ pc' = "prompt" /\ transcript # <<>>
  BY <1>1, <1>2, <1>3, <1>4, <1>6 DEF TypeInv, Answering
<1>q. QED
  BY <1>2, <1>5, <1>6

\* The steps of the calls, and those around the loop.
LEMMA SessionTypes ==
  ASSUME TypeInv,
         \/ \E c \in Callers, m \in Msgs : PromptStreaming(c, m) \/ PromptIdle(c, m)
         \/ \E c \in Callers : StartRun(c) \/ RefusePrompt(c)
         \/ \E c \in Callers : Return(c) \/ RunRejects(c) \/ AfterRun(c) \/ Wake(c)
         \/ Abort \/ ClearQueue
         \/ ModelReplies \/ SettleTool \/ RunThrows
  PROVE  TypeInv'
<1>1. ASSUME NEW c \in Callers, NEW m \in Msgs, PromptStreaming(c, m) PROVE TypeInv'
  <2>1. steering' \in Seq(Msgs) /\ followUps' \in Seq(Msgs)
    <3>1. /\ steering \in Seq(Msgs) /\ followUps \in Seq(Msgs)
          /\ Append(steering, m) \in Seq(Msgs) /\ Append(followUps, m) \in Seq(Msgs)
      BY AppendProperties DEF TypeInv, TypeOK
    <3>2. /\ steering' \in {steering, Append(steering, m)}
          /\ followUps' \in {followUps, Append(followUps, m)}
      BY <1>1 DEF PromptStreaming, queueVars
    <3>q. QED
      BY <3>1, <3>2
  <2>2. fate' \in [Msgs -> Fates]
    BY <1>1 DEF PromptStreaming, TypeInv, TypeOK, Batch, Ends, Fates
  <2>3. UNCHANGED <<transcript, context, pc, inbox, batch, more, skip, aborted, thrown,
                    call, held, attempts, retrier>>
    BY <1>1 DEF PromptStreaming, loopVars
  <2>4. TypeOK'
    BY <2>1, <2>2, <2>3 DEF TypeInv, TypeOK, Batch
  <2>q. QED
    BY <2>3, <2>4 DEF TypeInv, BatchInOrder
<1>2. ASSUME NEW c \in Callers, NEW m \in Msgs, PromptIdle(c, m) PROVE TypeInv'
  <2>1. fate' \in [Msgs -> Fates]
    BY <1>2 DEF PromptIdle, TypeInv, TypeOK, Batch, Ends, Fates
  <2>2. UNCHANGED <<transcript, context, pc, inbox, batch, more, skip, aborted, thrown,
                    steering, followUps, attempts, retrier>>
    BY <1>2 DEF PromptIdle, agentVars, loopVars, queueVars
  <2>3. /\ call' = [call EXCEPT ![c] = "prepare"] /\ held' = [held EXCEPT ![c] = m]
        /\ call[c] = "idle"
    BY <1>2 DEF PromptIdle, Goto
  <2>4. TypeOK'
    BY <2>1, <2>2, <2>3 DEF TypeInv, TypeOK, Batch, Steps
  <2>5. /\ \A d \in Callers : call'[d] = "prepare" => held'[d] \in Msgs
        /\ retrier' # NoCaller => call'[retrier'] = "sleep"
    BY <2>2, <2>3 DEF TypeInv, TypeOK, Batch
  <2>q. QED
    BY <2>2, <2>4, <2>5 DEF TypeInv, BatchInOrder
<1>3. ASSUME NEW c \in Callers, StartRun(c) PROVE TypeInv'
  <2>0. fate' \in [Msgs -> Fates]
    BY <1>3 DEF StartRun, Ends, TypeInv, TypeOK, Fates
  <2>1. /\ held[c] \in Msgs /\ call[c] = "prepare"
        /\ held' = [held EXCEPT ![c] = NoMsg]
        /\ UNCHANGED <<transcript, steering, followUps, batch, more, aborted, thrown,
                        attempts, retrier>>
        /\ fate' \in [Msgs -> Fates]
    BY <1>3, <2>0 DEF StartRun, TypeInv, queueVars
  <2>2. CASE RunPrompts(<<held[c]>>, FALSE) /\ Goto(c, "run")
    <3>1. <<held[c]>> \in Seq(Msgs) /\ <<held[c]>> # <<>>
      BY <2>1, OneElement
    <3>2. /\ context' \in Seq(Entry) /\ inbox' \in Seq(Msgs) /\ skip' \in BOOLEAN
          /\ pc' = "prompt" /\ inbox' = <<held[c]>>
      BY <2>1, <2>2, <3>1, RunPromptsTypes
    <3>3. pc = "idle" /\ call' = [call EXCEPT ![c] = "run"]
      BY <2>2 DEF RunPrompts, Goto
    <3>4. TypeOK'
      BY <2>1, <3>2, <3>3 DEF TypeInv, TypeOK, Batch, Steps
    <3>5. /\ \A d \in Callers : call'[d] = "prepare" => held'[d] \in Msgs
          /\ retrier' # NoCaller => call'[retrier'] = "sleep"
      BY <2>1, <3>3 DEF TypeInv, TypeOK, Batch
    <3>q. QED
      BY <2>1, <3>1, <3>2, <3>3, <3>4, <3>5 DEF TypeInv, Answering
  <2>3. CASE Goto(c, "idle") /\ UNCHANGED <<context, inbox, skip, pc>>
    <3>1. call' = [call EXCEPT ![c] = "idle"]
      BY <2>3 DEF Goto
    <3>2. TypeOK'
      BY <2>1, <2>3, <3>1 DEF TypeInv, TypeOK, Batch, Steps
    <3>3. /\ \A d \in Callers : call'[d] = "prepare" => held'[d] \in Msgs
          /\ retrier' # NoCaller => call'[retrier'] = "sleep"
      BY <2>1, <3>1 DEF TypeInv, TypeOK, Batch
    <3>q. QED
      BY <2>1, <2>3, <3>2, <3>3 DEF TypeInv, BatchInOrder
  <2>q. QED
    BY <1>3, <2>2, <2>3 DEF StartRun
<1>4. ASSUME NEW c \in Callers, RefusePrompt(c) PROVE TypeInv'
  <2>1. /\ held' = [held EXCEPT ![c] = NoMsg] /\ call' = [call EXCEPT ![c] = "idle"]
        /\ call[c] = "prepare"
        /\ UNCHANGED <<transcript, context, pc, inbox, batch, more, skip, aborted, thrown,
                        steering, followUps, attempts, retrier>>
        /\ fate' \in [Msgs -> Fates]
    BY <1>4 DEF RefusePrompt, TypeInv, TypeOK, Batch, Ends, Fates, Goto, agentVars, loopVars, queueVars
  <2>2. TypeOK'
    BY <2>1 DEF TypeInv, TypeOK, Batch, Steps
  <2>3. /\ \A d \in Callers : call'[d] = "prepare" => held'[d] \in Msgs
        /\ retrier' # NoCaller => call'[retrier'] = "sleep"
    BY <2>1 DEF TypeInv, TypeOK, Batch
  <2>q. QED
    BY <2>1, <2>2, <2>3 DEF TypeInv, BatchInOrder
<1>5. ASSUME NEW c \in Callers, Return(c) \/ RunRejects(c) PROVE TypeInv'
  <2>1. transcript \in Seq(Entry) /\ transcript # <<>>
    BY <1>5 DEF Return, RunRejects, TypeInv, TypeOK, Batch, Entry
  <2>2. transcript' \in Seq(Entry)
    BY <1>5, <2>1, FrontLast DEF Return, RunRejects, RetryLater
  <2>3. /\ pc' = "idle" /\ aborted' = FALSE /\ context' = <<>> /\ inbox' = <<>>
        /\ batch' = NoBatch /\ more' = FALSE /\ skip' = FALSE
        /\ UNCHANGED <<steering, followUps, thrown, held, fate>>
        /\ call[c] = "run"
    BY <1>5 DEF Return, RunRejects, FinishRun, queueVars
  <2>4. attempts' \in 0..MaxRetries
    BY <1>5, SessionAssumption DEF Return, RunRejects, RetryLater, TypeInv, TypeOK, Batch
  <2>5. \/ call' = [call EXCEPT ![c] = "sleep"] /\ retrier' = c
        \/ /\ call' = [call EXCEPT ![c] = "post"] \/ call' = [call EXCEPT ![c] = "idle"]
           /\ retrier' = retrier
    BY <1>5 DEF Return, RunRejects, RetryLater, Goto
  <2>6. <<>> \in Seq(Entry) /\ <<>> \in Seq(Msgs)
    BY EmptySeq
  <2>7. TypeOK'
    <3>1. OtherTypes'
      BY <2>3, <2>4, <2>5, <2>6, TypeParts DEF TypeInv, OtherTypes, Steps
    <3>q. QED
      BY <2>2, <2>3, <3>1, BatchTypes, TypeParts
  <2>8. /\ \A d \in Callers : call'[d] = "prepare" => held'[d] \in Msgs
        /\ retrier' # NoCaller => call'[retrier'] = "sleep"
    BY <2>3, <2>5 DEF TypeInv, TypeOK, Batch
  <2>q. QED
    BY <2>3, <2>6, <2>7, <2>8 DEF TypeInv, Answering
<1>6. ASSUME NEW c \in Callers, AfterRun(c) PROVE TypeInv'
  <2>1. CASE HasQueuedMessages /\ GoOn(c)
    <3>1. call[c] = "post" /\ retrier' = retrier /\ retrier # c
      BY <1>6, SessionAssumption DEF AfterRun, TypeInv
    <3>q. QED
      BY <2>1, <3>1, GoOnTypes
  <2>2. CASE ~HasQueuedMessages
    <3>1. /\ call[c] = "post" /\ call' = [call EXCEPT ![c] = "idle"]
          /\ UNCHANGED <<transcript, context, pc, inbox, batch, more, skip, aborted, thrown,
                          steering, followUps, attempts, retrier, held, fate>>
      BY <1>6, <2>2 DEF AfterRun, Goto, agentVars, loopVars, queueVars
    <3>2. TypeOK'
      BY <3>1 DEF TypeInv, TypeOK, Batch, Steps
    <3>3. /\ \A d \in Callers : call'[d] = "prepare" => held'[d] \in Msgs
          /\ retrier' # NoCaller => call'[retrier'] = "sleep"
      BY <3>1 DEF TypeInv, TypeOK, Batch
    <3>q. QED
      BY <3>1, <3>2, <3>3 DEF TypeInv, BatchInOrder
  <2>q. QED
    BY <1>6, <2>1, <2>2 DEF AfterRun
<1>7. ASSUME NEW c \in Callers, Wake(c) PROVE TypeInv'
  <2>1. GoOn(c) /\ call[c] = "sleep" /\ retrier' = NoCaller /\ NoCaller # c
    BY <1>7, SessionAssumption DEF Wake
  <2>q. QED
    BY <2>1, GoOnTypes
<1>8. CASE Abort
  <2>1. /\ aborted' \in BOOLEAN /\ (pc # "idle" => aborted')
        /\ UNCHANGED <<transcript, context, pc, inbox, batch, more, skip, thrown,
                        steering, followUps, held, fate>>
    BY <1>8 DEF Abort, loopVars, queueVars
  <2>2. \/ UNCHANGED <<call, attempts, retrier>>
        \/ /\ call' = [call EXCEPT ![retrier] = "post"]
           /\ attempts' = 0 /\ retrier' = NoCaller
    BY <1>8 DEF Abort, Goto
  <2>3. TypeOK'
    <3>1. call' \in [Callers -> Steps] /\ attempts' \in 0..MaxRetries
      BY <2>2, SessionAssumption, TypeParts DEF TypeInv, OtherTypes, Steps
    <3>2. retrier' \in Callers \cup {NoCaller}
      BY <2>2, TypeParts DEF TypeInv, OtherTypes
    <3>3. OtherTypes'
      BY <2>1, <3>1, <3>2, TypeParts DEF TypeInv, OtherTypes
    <3>q. QED
      BY <2>1, <3>3, TypeParts DEF TypeInv
  <2>4. /\ \A d \in Callers : call'[d] = "prepare" => held'[d] \in Msgs
        /\ retrier' # NoCaller => call'[retrier'] = "sleep"
    BY <2>1, <2>2 DEF TypeInv, TypeOK, Batch
  <2>5. pc \in Answering => BatchInOrder'
    BY <2>1 DEF TypeInv, BatchInOrder, Answering
  <2>q. QED
    BY <2>1, <2>3, <2>4, <2>5 DEF TypeInv
<1>9. CASE ClearQueue
  <2>1. /\ steering' = <<>> /\ followUps' = <<>> /\ <<>> \in Seq(Msgs)
        /\ UNCHANGED <<transcript, context, pc, inbox, batch, more, skip, aborted, thrown,
                        call, held, attempts, retrier>>
        /\ fate' \in [Msgs -> Fates]
    BY <1>9, EmptySeq DEF ClearQueue, loopVars, Ends, Fates, TypeInv, TypeOK, Batch
  <2>2. TypeOK'
    BY <2>1 DEF TypeInv, TypeOK, Batch
  <2>q. QED
    BY <2>1, <2>2 DEF TypeInv, BatchInOrder
<1>10. CASE ModelReplies
  <2>1. PICK stop \in Stops, n \in 0..MaxCalls : ReplyEnds(stop, n)
    BY <1>10 DEF ModelReplies
  <2>2. /\ pc \in {"stream", "cancelled"}
        /\ Add(Assistant(stop, n)) /\ more' = FALSE
        /\ UNCHANGED <<inbox, skip, steering, followUps, aborted, thrown, call, held, retrier,
                        fate>>
        /\ attempts' \in {attempts, 0}
    BY <2>1 DEF ReplyEnds, Reply, queueVars
  <2>3. Assistant(stop, n) \in Entry
    BY <2>1, EntryTypes
  <2>4. transcript' \in Seq(Entry) /\ transcript' # <<>> /\ context' \in Seq(Entry)
    <3>1. transcript \in Seq(Entry) /\ context \in Seq(Entry)
      BY DEF TypeInv, TypeOK, Entry
    <3>2. /\ transcript' = Append(transcript, Assistant(stop, n))
          /\ context' = Append(context, Assistant(stop, n))
      BY <2>2 DEF Add
    <3>q. QED
      BY <2>3, <3>1, <3>2, SeqAppend
  <2>5. /\ batch' \in Batch
        /\ \/ pc' \in {"end", "turn"} /\ batch' = NoBatch
           \/ pc' \in Answering /\ BatchInOrder'
    <3>1. CASE n = 0
      BY <2>1, <2>2, <3>1, BatchTypes DEF ReplyEnds, Reply, TypeInv, Answering
    <3>2. CASE n # 0
      <4>1. PICK mode \in {"sequential", "parallel"} :
              batch' = [NoBatch EXCEPT !.calls = n,
                                       !.mode = IF stop = "length" THEN "parallel" ELSE mode,
                                       !.next = IF stop = "length" THEN n + 1 ELSE 1]
        BY <2>1, <3>2 DEF ReplyEnds, Reply
      <4>2. /\ n \in 1..MaxCalls
            /\ pc' = IF stop = "length" THEN "execute" ELSE "preflight"
        BY <2>1, <3>2, AgentBounds DEF ReplyEnds, Reply
      <4>3. /\ batch'.calls = n /\ batch'.told = 0
            /\ batch'.mode = IF stop = "length" THEN "parallel" ELSE mode
            /\ batch'.next = IF stop = "length" THEN n + 1 ELSE 1
        BY <4>1 DEF NoBatch
      <4>4. BatchInOrder' /\ pc' \in Answering
        BY <4>2, <4>3 DEF BatchInOrder, Answering
      <4>5. batch' \in Batch
        <5>1. /\ n + 1 \in 1..MaxCalls + 1 /\ 1 \in 1..MaxCalls + 1
              /\ "parallel" \in {"sequential", "parallel"}
          BY <4>2, AgentBounds
        <5>q. QED
          BY <4>1, <5>1, BatchTypes
      <4>q. QED
        BY <4>4, <4>5
    <3>q. QED
      BY <3>1, <3>2
  <2>6. TypeOK'
    <3>1. OtherTypes
      BY TypeParts DEF TypeInv
    <3>2. attempts' \in 0..MaxRetries
      BY <2>2, <3>1, SessionAssumption DEF OtherTypes
    <3>3. pc' \in {"end", "turn", "preflight", "check", "execute"}
      BY <2>5 DEF Answering
    <3>4. OtherTypes'
      BY <2>2, <3>1, <3>2, <3>3 DEF OtherTypes
    <3>q. QED
      BY <2>4, <2>5, <3>4, TypeParts
  <2>q. QED
    BY <2>2, <2>4, <2>5, <2>6 DEF TypeInv, Answering
<1>11. CASE SettleTool
  <2>1. PICK i \in batch.running : Settle(i)
    BY <1>11 DEF SettleTool
  <2>2. PICK t \in {{}, {i}} : batch' = [batch EXCEPT !.running = @ \ {i}, !.yes = @ \cup t]
    BY <2>1 DEF Settle
  <2>3. /\ pc = "execute"
        /\ UNCHANGED <<transcript, context, pc, inbox, more, skip, aborted, thrown,
                        steering, followUps, call, held, attempts, retrier, fate>>
    BY <1>11, <2>1 DEF SettleTool, Settle, queueVars, sessionVars
  <2>4. batch.running \ {i} \subseteq 1..MaxCalls /\ batch.yes \cup t \subseteq 1..MaxCalls
    BY <2>1, <2>2 DEF TypeInv, TypeOK, Batch
  <2>5. TypeOK'
    BY <2>2, <2>3, <2>4 DEF TypeInv, TypeOK, Batch
  <2>6. BatchInOrder'
    BY <2>2, <2>3 DEF TypeInv, TypeOK, Batch, BatchInOrder, Answering
  <2>q. QED
    BY <2>3, <2>5, <2>6 DEF TypeInv, Answering
<1>12. CASE RunThrows
  <2>1. /\ pc \notin {"idle", "failed"} /\ pc' = "failed"
        /\ thrown < MaxThrows /\ thrown' = thrown + 1 /\ inbox' = <<>>
        /\ transcript' = Append(transcript, Assistant(IF aborted THEN "aborted" ELSE "error", 0))
        /\ UNCHANGED <<context, batch, more, skip, steering, followUps, aborted, call, held,
                        retrier>>
        /\ attempts' \in {attempts, 0} /\ fate' \in [Msgs -> Fates]
    BY <1>12 DEF RunThrows, Throw, queueVars, Ends, Fates, TypeInv, TypeOK, Batch
  <2>2. \A stop \in Stops : Assistant(stop, 0) \in Entry /\ Assistant(stop, 0).role = "assistant"
    BY EntryTypes, AgentBounds
  <2>3. PICK stop \in Stops : transcript' = Append(transcript, Assistant(stop, 0))
    BY <2>1 DEF Stops
  <2>4. /\ transcript' \in Seq(Entry) /\ transcript' # <<>>
        /\ Last(transcript').role = "assistant"
    <3>1. transcript \in Seq(Entry)
      BY DEF TypeInv, TypeOK, Entry
    <3>q. QED
      BY <2>2, <2>3, <3>1, SeqAppend
  <2>5. <<>> \in Seq(Msgs) /\ thrown' \in 0..MaxThrows /\ thrown' > 0
    BY <2>1, EmptySeq, AgentBounds DEF TypeInv, TypeOK, Batch
  <2>6. TypeOK'
    BY <2>1, <2>4, <2>5, SessionAssumption DEF TypeInv, TypeOK, Batch, Entry
  <2>q. QED
    BY <2>1, <2>4, <2>5, <2>6 DEF TypeInv, Answering
<1>q. QED
  BY <1>1, <1>2, <1>3, <1>4, <1>5, <1>6, <1>7, <1>8, <1>9, <1>10, <1>11, <1>12

LEMMA TypesStep == TypeInv /\ [Next]_vars => TypeInv'
<1>1. ASSUME TypeInv, Next PROVE TypeInv'
  BY <1>1, LoopTypes, SessionTypes DEF Next, Step
<1>2. ASSUME TypeInv, UNCHANGED vars PROVE TypeInv'
  BY <1>2
  DEF vars, agentVars, loopVars, queueVars, sessionVars, TypeInv, TypeOK, Batch, BatchInOrder
<1>q. QED
  BY <1>1, <1>2

LEMMA TypesAlways == Spec => []TypeInv
BY TypesInit, TypesStep, PTL DEF Spec

\* Every reachable state of the session and its loop is well typed, for any number of
\* messages, callers, calls and retries; a series of retries stays within its limit.
THEOREM AgentTypes == Spec => []TypeOK
<1>1. TypeInv => TypeOK
  BY DEF TypeInv
<1>q. QED
  BY <1>1, TypesAlways, PTL

-----------------------------------------------------------------------------
(* The transcript and the context                                           *)

\* Emitting the first of the prompts that are on hand.
LEMMA PromptMoves ==
  ASSUME NEW t \in Seq(Entry), NEW s \in Seq(Msgs), s # <<>>
  PROVE  Append(t, User(Head(s))) \o Users(Tail(s)) = t \o Users(s)
<1>1. /\ Head(s) \in Msgs /\ Head(s) = s[1] /\ Tail(s) \in Seq(Msgs)
      /\ Len(Tail(s)) = Len(s) - 1 /\ Len(s) \in Nat \ {0}
      /\ \A i \in 1..(Len(s) - 1) : Tail(s)[i] = s[i + 1]
  BY HeadTailProperties, EmptySeq
<1>2. User(Head(s)) \in Entry
  BY <1>1, EntryTypes
<1> DEFINE a == Append(t, User(Head(s)))
           u == Users(Tail(s))
           v == Users(s)
<1>3. /\ a \in Seq(Entry) /\ Len(a) = Len(t) + 1 /\ Len(t) \in Nat
      /\ \A i \in 1..Len(t) : a[i] = t[i]
      /\ a[Len(t) + 1] = User(Head(s))
  BY <1>2, AppendProperties, LenProperties
<1>4. /\ u \in Seq(Entry) /\ Len(u) = Len(s) - 1
      /\ \A i \in 1..(Len(s) - 1) : u[i] = User(Tail(s)[i])
  BY <1>1, UsersTypes
<1>5. /\ v \in Seq(Entry) /\ Len(v) = Len(s) /\ \A i \in 1..Len(s) : v[i] = User(s[i])
  BY UsersTypes
<1> HIDE DEF a, u, v
<1>6. /\ a \o u \in Seq(Entry) /\ Len(a \o u) = Len(a) + Len(u)
      /\ \A i \in 1..(Len(a) + Len(u)) :
           (a \o u)[i] = IF i <= Len(a) THEN a[i] ELSE u[i - Len(a)]
  BY <1>3, <1>4, ConcatProperties
<1>7. /\ t \o v \in Seq(Entry) /\ Len(t \o v) = Len(t) + Len(v)
      /\ \A i \in 1..(Len(t) + Len(v)) :
           (t \o v)[i] = IF i <= Len(t) THEN t[i] ELSE v[i - Len(t)]
  BY <1>5, ConcatProperties
<1>8. ASSUME NEW i \in 1..Len(a \o u) PROVE (a \o u)[i] = (t \o v)[i]
  <2>1. i \in 1..(Len(t) + Len(s))
    BY <1>1, <1>3, <1>4, <1>6
  <2>2. CASE i <= Len(t)
    BY <1>1, <1>3, <1>4, <1>5, <1>6, <1>7, <2>1, <2>2
  <2>3. CASE i = Len(t) + 1
    <3>1. (a \o u)[i] = User(s[1])
      BY <1>1, <1>3, <1>4, <1>6, <2>1, <2>3
    <3>2. i - Len(t) = 1
      BY <1>3, <2>3
    <3>3. (t \o v)[i] = User(s[1])
      BY <1>1, <1>3, <1>5, <1>7, <2>1, <2>3, <3>2
    <3>q. QED
      BY <3>1, <3>3
  <2>4. CASE i > Len(t) + 1
    <3>0. i - (Len(t) + 1) \in 1..(Len(s) - 1) /\ i = Len(t) + 1 + (i - (Len(t) + 1))
      BY <1>1, <1>3, <2>1, <2>4
    <3>1. PICK k \in 1..(Len(s) - 1) : i = Len(t) + 1 + k
      BY <3>0
    <3>2. (a \o u)[i] = u[k]
      <4>1. i - Len(a) = k /\ ~(i <= Len(a)) /\ i \in 1..(Len(a) + Len(u))
        BY <1>1, <1>3, <1>4, <3>1
      <4>q. QED
        BY <1>6, <4>1
    <3>3. (t \o v)[i] = v[k + 1]
      <4>1. i - Len(t) = k + 1 /\ ~(i <= Len(t)) /\ i \in 1..(Len(t) + Len(v))
        BY <1>1, <1>3, <1>5, <3>1
      <4>q. QED
        BY <1>7, <4>1
    <3>4. k + 1 \in 1..Len(s)
      BY <1>1, <3>1
    <3>5. Tail(s)[k] = s[k + 1] /\ u[k] = User(Tail(s)[k]) /\ v[k + 1] = User(s[k + 1])
      BY <1>1, <1>4, <1>5, <3>1, <3>4
    <3>q. QED
      BY <3>2, <3>3, <3>5
  <2>5. i <= Len(t) \/ i = Len(t) + 1 \/ i > Len(t) + 1
    BY <1>1, <1>3, <2>1
  <2>q. QED
    BY <2>2, <2>3, <2>4, <2>5
<1>9. Len(a \o u) = Len(t \o v)
  BY <1>1, <1>3, <1>4, <1>5, <1>6, <1>7
<1>10. a \o u = t \o v
  BY <1>6, <1>7, <1>8, <1>9, SeqEqual
<1>q. QED
  BY <1>10 DEF a, u, v

\* Reporting one more result.
LEMMA ResultMoves ==
  ASSUME NEW t \in Seq(Entry), NEW n \in 0..MaxCalls, n + 1 \in 1..MaxCalls
  PROVE  Append(t \o Results(n), Result(n + 1)) = t \o Results(n + 1)
<1>1. /\ Results(n) \in Seq(Entry) /\ Len(Results(n)) = n
      /\ \A i \in 1..n : Results(n)[i] = Result(i)
  BY ResultsTypes
<1>2. n + 1 \in 0..MaxCalls /\ Result(n + 1) \in Entry /\ n \in Nat
  BY EntryTypes, AgentBounds
<1>3. /\ Results(n + 1) \in Seq(Entry) /\ Len(Results(n + 1)) = n + 1
      /\ \A i \in 1..(n + 1) : Results(n + 1)[i] = Result(i)
  BY <1>2, ResultsTypes
<1> DEFINE a == Append(Results(n), Result(n + 1))
<1>4. /\ a \in Seq(Entry) /\ Len(a) = n + 1
      /\ \A i \in 1..n : a[i] = Results(n)[i]
      /\ a[n + 1] = Result(n + 1)
  BY <1>1, <1>2, AppendProperties
<1>5. \A i \in 1..(n + 1) : a[i] = Results(n + 1)[i]
  <2> HIDE DEF a
  <2>q. QED
    BY <1>1, <1>2, <1>3, <1>4
<1>6. a = Results(n + 1)
  <2> HIDE DEF a
  <2>q. QED
    BY <1>3, <1>4, <1>5, SeqEqual
<1>7. Append(t \o Results(n), Result(n + 1)) = t \o a
  <2>1. Append(t \o Results(n), Result(n + 1)) = (t \o Results(n)) \o <<Result(n + 1)>>
    BY <1>1, <1>2, ConcatProperties, AppendIsConcat
  <2>2. a = Results(n) \o <<Result(n + 1)>>
    BY <1>1, <1>2, AppendIsConcat
  <2>3. <<Result(n + 1)>> \in Seq(Entry)
    BY <1>2, OneElement
  <2>4. (t \o Results(n)) \o <<Result(n + 1)>> = t \o (Results(n) \o <<Result(n + 1)>>)
    BY <1>1, <2>3, ConcatAssociative
  <2>q. QED
    BY <2>1, <2>2, <2>4
<1>q. QED
  BY <1>6, <1>7

\* The first part of CallsAnswered, of any transcript.
Answered(s) ==
  \A i \in DOMAIN s : s[i].role = "toolResult" =>
    LET n == s[i].call
    IN /\ i > n
       /\ \A k \in 1..(n - 1) : s[i - k] = Result(n - k)
       /\ s[i - n].role = "assistant" /\ s[i - n].calls >= n

LEMMA CallOfResult == \A e \in Entry : e.role = "toolResult" => e.call \in 1..MaxCalls
BY DEF Entry

LEMMA AnsweredAppend ==
  ASSUME NEW s \in Seq(Entry), NEW x \in Entry, Answered(s),
         x.role = "toolResult" =>
           /\ Len(s) >= x.call
           /\ \A k \in 1..(x.call - 1) : s[Len(s) + 1 - k] = Result(x.call - k)
           /\ s[Len(s) + 1 - x.call].role = "assistant"
           /\ s[Len(s) + 1 - x.call].calls >= x.call
  PROVE  Answered(Append(s, x))
<1> DEFINE t == Append(s, x)
<1>1. /\ t \in Seq(Entry) /\ Len(t) = Len(s) + 1 /\ Len(s) \in Nat
      /\ \A i \in 1..Len(s) : t[i] = s[i]
      /\ t[Len(s) + 1] = x
  BY AppendProperties, LenProperties
<1>2. DOMAIN t = 1..(Len(s) + 1) /\ DOMAIN s = 1..Len(s)
  BY <1>1, LenProperties
<1> HIDE DEF t
<1>3. ASSUME NEW i \in DOMAIN t, t[i].role = "toolResult", NEW n, n = t[i].call
      PROVE  /\ i > n
             /\ \A k \in 1..(n - 1) : t[i - k] = Result(n - k)
             /\ t[i - n].role = "assistant" /\ t[i - n].calls >= n
  <2>1. i \in 1..(Len(s) + 1) /\ t[i] \in Entry
    BY <1>1, <1>2, ElementOfSeq
  <2>2. n \in Nat \ {0}
    BY <1>3, <2>1, CallOfResult, AgentBounds
  <2>3. CASE i \in 1..Len(s)
    <3>1. s[i].role = "toolResult" /\ n = s[i].call
      BY <1>1, <1>3, <2>3
    <3>2. /\ i > n
          /\ \A k \in 1..(n - 1) : s[i - k] = Result(n - k)
          /\ s[i - n].role = "assistant" /\ s[i - n].calls >= n
      BY <1>2, <2>3, <3>1 DEF Answered
    <3>3. i - n \in 1..Len(s) /\ \A k \in 1..(n - 1) : i - k \in 1..Len(s)
      BY <1>1, <2>2, <2>3, <3>2
    <3>q. QED
      BY <1>1, <3>2, <3>3
  <2>4. CASE i = Len(s) + 1
    <3>1. x.role = "toolResult" /\ n = x.call
      BY <1>1, <1>3, <2>4
    <3>2. /\ i > n
          /\ \A k \in 1..(n - 1) : s[i - k] = Result(n - k)
          /\ s[i - n].role = "assistant" /\ s[i - n].calls >= n
      BY <1>1, <2>2, <2>4, <3>1
    <3>3. i - n \in 1..Len(s) /\ \A k \in 1..(n - 1) : i - k \in 1..Len(s)
      BY <1>1, <2>2, <2>4, <3>2
    <3>q. QED
      BY <1>1, <3>2, <3>3
  <2>q. QED
    BY <1>1, <2>1, <2>3, <2>4
<1>4. Answered(t)
  BY <1>3 DEF Answered
<1>q. QED
  BY <1>4 DEF t

LEMMA AnsweredFront ==
  ASSUME NEW s \in Seq(Entry), s # <<>>, Answered(s)
  PROVE  Answered(Front(s))
<1> DEFINE t == Front(s)
<1>1. /\ t \in Seq(Entry) /\ Len(t) = Len(s) - 1 /\ Len(s) \in Nat \ {0}
      /\ \A i \in 1..(Len(s) - 1) : t[i] = s[i]
  BY FrontLast
<1>2. DOMAIN t = 1..(Len(s) - 1) /\ DOMAIN s = 1..Len(s)
  BY <1>1, LenProperties
<1> HIDE DEF t
<1>3. ASSUME NEW i \in DOMAIN t, t[i].role = "toolResult", NEW n, n = t[i].call
      PROVE  /\ i > n
             /\ \A k \in 1..(n - 1) : t[i - k] = Result(n - k)
             /\ t[i - n].role = "assistant" /\ t[i - n].calls >= n
  <2>1. i \in 1..(Len(s) - 1) /\ t[i] \in Entry /\ t[i] = s[i] /\ i \in DOMAIN s
    BY <1>1, <1>2, ElementOfSeq
  <2>2. n \in Nat \ {0}
    BY <1>3, <2>1, CallOfResult, AgentBounds
  <2>3. /\ i > n
        /\ \A k \in 1..(n - 1) : s[i - k] = Result(n - k)
        /\ s[i - n].role = "assistant" /\ s[i - n].calls >= n
    BY <1>3, <2>1 DEF Answered
  <2>4. i - n \in 1..(Len(s) - 1) /\ \A k \in 1..(n - 1) : i - k \in 1..(Len(s) - 1)
    BY <1>1, <2>1, <2>2, <2>3
  <2>q. QED
    BY <1>1, <2>3, <2>4
<1>4. Answered(t)
  BY <1>3 DEF Answered
<1>q. QED
  BY <1>4 DEF t

\* LastReply, of any transcript.
ReplyIn(s) ==
  LET I == {i \in 1..Len(s) : s[i].role = "assistant"}
  IN IF I # {} THEN Max(I) ELSE 0

LEMMA LastReplyIn == LastReply = ReplyIn(transcript) /\ LastReply' = ReplyIn(transcript')
BY DEF LastReply, SelectLastInSeq, ReplyIn

\* The last reply is the one after which there are only other entries.
LEMMA ReplyIs ==
  ASSUME NEW s \in Seq(Entry), NEW r \in 1..Len(s), s[r].role = "assistant",
         \A i \in (r + 1)..Len(s) : s[i].role # "assistant"
  PROVE  ReplyIn(s) = r
<1> DEFINE I == {i \in 1..Len(s) : s[i].role = "assistant"}
<1>1. Len(s) \in Nat
  BY LenProperties
<1>2. r \in I /\ \A i \in I : i <= r
  BY <1>1
<1>3. ReplyIn(s) = IF I # {} THEN Max(I) ELSE 0
  BY DEF ReplyIn
<1>4. \A i \in I : i \in Int
  BY <1>1
<1> HIDE DEF I
<1>5. Max(I) \in I /\ \A i \in I : Max(I) >= i
  BY <1>1, <1>2, <1>4 DEF Max
<1>6. Max(I) = r
  BY <1>2, <1>4, <1>5
<1>q. QED
  BY <1>2, <1>3, <1>6

LEMMA TalkInit == Init => TalkInv
<1> SUFFICES ASSUME Init PROVE TalkInv
  OBVIOUS
<1>1. DOMAIN transcript = {}
  BY EmptySeq, LenProperties DEF Init, AgentInit
<1>q. QED
  BY <1>1 DEF Init, AgentInit, TalkInv, ContextKept, ReplyInAnswer, CallsAnswered, Answering

\* How a step moves the transcript and the context of a run.
RunStays ==
  /\ UNCHANGED <<transcript, context, inbox, pc>>
  /\ aborted => aborted' \/ pc = "idle"
  /\ batch'.told = batch.told /\ batch'.calls = batch.calls

RunStarts ==
  /\ pc' = "prompt"
  /\ transcript' = transcript
  /\ context' = transcript \o Users(inbox')

RunEnds ==
  /\ pc' = "idle"
  /\ transcript # <<>> /\ transcript' \in {transcript, Front(transcript)}

LEMMA TalkParts ==
  /\ CallsAnswered <=> /\ Answered(transcript)
                       /\ pc = "turn" /\ ~aborted =>
                            Len(transcript) = LastReply + transcript[LastReply].calls
  /\ CallsAnswered' <=> /\ Answered(transcript')
                        /\ (pc = "turn" /\ ~aborted =>
                              Len(transcript) = LastReply + transcript[LastReply].calls)'
BY DEF CallsAnswered, Answered

LEMMA StaysTalk == ASSUME TalkInv, RunStays PROVE TalkInv'
<1>1. UNCHANGED <<transcript, context, inbox, pc>>
  BY DEF RunStays
<1>2. LastReply' = LastReply /\ Users(inbox)' = Users(inbox)
  BY <1>1 DEF LastReply, SelectLastInSeq, Users
<1>3. batch'.told = batch.told /\ batch'.calls = batch.calls /\ Results(batch.told)' = Results(batch.told)
  BY DEF RunStays, Results
<1>4. ContextKept' /\ ReplyInAnswer'
  BY <1>1, <1>2, <1>3 DEF TalkInv, ContextKept, ReplyInAnswer
<1>5. pc = "turn" /\ ~aborted' => ~aborted
  BY DEF RunStays
<1>6. CallsAnswered'
  BY <1>1, <1>2, <1>5, TalkParts DEF TalkInv
<1>q. QED
  BY <1>4, <1>6 DEF TalkInv

LEMMA StartsTalk == ASSUME TalkInv, RunStarts PROVE TalkInv'
<1>1. pc' = "prompt" /\ transcript' = transcript /\ context' = transcript' \o Users(inbox')
  BY DEF RunStarts
<1>2. ContextKept' /\ ReplyInAnswer'
  BY <1>1 DEF ContextKept, ReplyInAnswer, Answering, Users
<1>3. CallsAnswered'
  BY <1>1, TalkParts DEF TalkInv
<1>q. QED
  BY <1>2, <1>3 DEF TalkInv

LEMMA EndsTalk == ASSUME TypeInv, TalkInv, RunEnds PROVE TalkInv'
<1>1. transcript \in Seq(Entry)
  BY TypeParts DEF TypeInv
<1>2. Answered(transcript')
  BY <1>1, AnsweredFront, TalkParts DEF TalkInv, RunEnds
<1>3. ContextKept' /\ ReplyInAnswer' /\ pc' # "turn"
  BY DEF RunEnds, ContextKept, ReplyInAnswer, Answering
<1>q. QED
  BY <1>2, <1>3, TalkParts DEF TalkInv

LEMMA GoOnTalk ==
  ASSUME TypeInv, NEW c \in Callers, GoOn(c)
  PROVE  RunStays \/ RunStarts
<1>1. UNCHANGED <<transcript, batch, aborted>>
  BY DEF GoOn
<1>q. QED
  BY <1>1, ContinueTypes DEF RunStays, RunStarts

\* All but the steps of a run that is under way.
LEMMA SessionTalk ==
  ASSUME TypeInv,
         \/ \E c \in Callers, m \in Msgs : PromptStreaming(c, m) \/ PromptIdle(c, m)
         \/ \E c \in Callers : StartRun(c) \/ RefusePrompt(c)
         \/ \E c \in Callers : Return(c) \/ RunRejects(c) \/ AfterRun(c) \/ Wake(c)
         \/ Abort \/ ClearQueue \/ SettleTool
  PROVE  RunStays \/ RunStarts \/ RunEnds
<1> USE DEF agentVars, loopVars, queueVars
<1>1. ASSUME NEW c \in Callers, NEW m \in Msgs, PromptStreaming(c, m) \/ PromptIdle(c, m)
      PROVE RunStays
  BY <1>1 DEF PromptStreaming, PromptIdle, RunStays
<1>2. ASSUME NEW c \in Callers, StartRun(c) PROVE RunStays \/ RunStarts
  <2>1. CASE RunPrompts(<<held[c]>>, FALSE)
    BY <1>2, <2>1 DEF StartRun, RunPrompts, RunStarts, Users
  <2>2. CASE UNCHANGED <<context, inbox, skip, pc>>
    BY <1>2, <2>2 DEF StartRun, RunStays
  <2>q. QED
    BY <1>2, <2>1, <2>2 DEF StartRun
<1>3. ASSUME NEW c \in Callers, RefusePrompt(c) PROVE RunStays
  BY <1>3 DEF RefusePrompt, RunStays
<1>4. ASSUME NEW c \in Callers, Return(c) \/ RunRejects(c) PROVE RunEnds
  <2>1. transcript # <<>> /\ pc' = "idle"
    BY <1>4 DEF TypeInv, Return, RunRejects, FinishRun
  <2>2. transcript' \in {transcript, Front(transcript)}
    BY <1>4 DEF Return, RunRejects, RetryLater
  <2>q. QED
    BY <2>1, <2>2 DEF RunEnds
<1>5. ASSUME NEW c \in Callers, AfterRun(c) PROVE RunStays \/ RunStarts
  <2>1. CASE GoOn(c)
    BY <2>1, GoOnTalk
  <2>2. CASE ~HasQueuedMessages
    BY <1>5, <2>2 DEF AfterRun, RunStays
  <2>q. QED
    BY <1>5, <2>1, <2>2 DEF AfterRun
<1>6. ASSUME NEW c \in Callers, Wake(c) PROVE RunStays \/ RunStarts
  BY <1>6, GoOnTalk DEF Wake
<1>7. CASE Abort
  BY <1>7 DEF Abort, RunStays
<1>8. CASE ClearQueue
  BY <1>8 DEF ClearQueue, RunStays
<1>9. CASE SettleTool
  <2>1. PICK i \in batch.running : Settle(i)
    BY <1>9 DEF SettleTool
  <2>2. PICK t \in {{}, {i}} : batch' = [batch EXCEPT !.running = @ \ {i}, !.yes = @ \cup t]
    BY <2>1 DEF Settle
  <2>3. batch \in Batch
    BY TypeParts DEF TypeInv
  <2>4. batch'.told = batch.told /\ batch'.calls = batch.calls
    BY <2>2, <2>3 DEF Batch
  <2>q. QED
    BY <2>1, <2>4 DEF Settle, RunStays
<1>q. QED
  BY <1>1, <1>2, <1>3, <1>4, <1>5, <1>6, <1>7, <1>8, <1>9

LEMMA NothingToShow == Users(<<>>) = <<>> /\ Results(0) = <<>>
<1>1. <<>> \in Seq(Msgs) /\ Len(<<>>) = 0 /\ 0 \in 0..MaxCalls
  BY EmptySeq, AgentBounds
<1>2. Users(<<>>) \in Seq(Entry) /\ Len(Users(<<>>)) = 0
  BY <1>1, UsersTypes
<1>3. Results(0) \in Seq(Entry) /\ Len(Results(0)) = 0
  BY <1>1, ResultsTypes
<1>q. QED
  BY <1>2, <1>3, EmptySeq

\* The reply whose calls are answered.
LEMMA AnsweredReply ==
  ASSUME TalkInv, pc \in Answering, transcript \in Seq(Entry), batch.told \in 0..MaxCalls
  PROVE  \E reply \in 1..Len(transcript) :
           /\ reply = Len(transcript) - batch.told
           /\ transcript[reply].role = "assistant" /\ transcript[reply].calls = batch.calls
           /\ \A k \in 1..batch.told : transcript[reply + k] = Result(k)
<1>1. Len(transcript) \in Nat /\ batch.told \in Nat
  BY LenProperties
<1> DEFINE reply == Len(transcript) - batch.told
<1>2. /\ reply > 0
      /\ transcript[reply].role = "assistant" /\ transcript[reply].calls = batch.calls
      /\ \A k \in 1..batch.told : transcript[reply + k] = Result(k)
  BY DEF TalkInv, ReplyInAnswer
<1>3. reply \in 1..Len(transcript)
  BY <1>1, <1>2
<1>q. QED
  BY <1>2, <1>3

LEMMA LoopTalk ==
  ASSUME TypeInv, TypeInv', TalkInv, LoopStep
  PROVE  TalkInv'
<1> USE DEF queueVars
<1>1. /\ transcript \in Seq(Entry) /\ context \in Seq(Entry) /\ transcript' \in Seq(Entry)
      /\ inbox \in Seq(Msgs) /\ batch \in Batch /\ Answered(transcript)
      /\ batch.told \in 0..MaxCalls /\ batch.calls \in 0..MaxCalls
  BY TypeParts, TalkParts DEF TypeInv, TalkInv, OtherTypes, Batch
<1>2. CASE EmitPrompt
  <2>1. /\ pc = "prompt" /\ pc' = "prompt" /\ inbox # <<>> /\ inbox' = Tail(inbox)
        /\ transcript' = Append(transcript, User(Head(inbox))) /\ context' = context
    BY <1>2 DEF EmitPrompt
  <2>2. context' = transcript' \o Users(inbox')
    BY <1>1, <2>1, PromptMoves DEF TalkInv, ContextKept
  <2>3. User(Head(inbox)) \in Entry /\ User(Head(inbox)).role = "user"
    BY <1>1, <2>1, HeadTailProperties, EntryTypes
  <2>4. Answered(transcript')
    BY <1>1, <2>1, <2>3, AnsweredAppend
  <2>q. QED
    BY <2>1, <2>2, <2>4, TalkParts DEF TalkInv, ContextKept, ReplyInAnswer, Answering, Users
<1>3. CASE FirstPoll
  <2>1. /\ pc = "prompt" /\ pc' = "inject" /\ inbox = <<>>
        /\ transcript' = transcript /\ context' = context
    BY <1>3 DEF FirstPoll
  <2>2. context = transcript
    BY <1>1, <2>1, NothingToShow, ConcatEmptySeq DEF TalkInv, ContextKept
  <2>q. QED
    BY <1>1, <2>1, <2>2, TalkParts DEF TalkInv, ContextKept, ReplyInAnswer, Answering
<1>4. CASE Inject
  <2>1. /\ pc = "inject" /\ pc' = "inject" /\ inbox # <<>>
        /\ transcript' = Append(transcript, User(Head(inbox)))
        /\ context' = Append(context, User(Head(inbox)))
    BY <1>4 DEF Inject, Add
  <2>2. User(Head(inbox)) \in Entry /\ User(Head(inbox)).role = "user"
    BY <1>1, <2>1, HeadTailProperties, EntryTypes
  <2>3. Answered(transcript')
    BY <1>1, <2>1, <2>2, AnsweredAppend
  <2>4. context' = transcript'
    BY <2>1 DEF TalkInv, ContextKept
  <2>q. QED
    BY <2>1, <2>3, <2>4, TalkParts DEF TalkInv, ContextKept, ReplyInAnswer, Answering
<1>5. CASE Ask
  <2>1. /\ pc = "inject" /\ pc' \in {"stream", "cancelled"}
        /\ transcript' = transcript /\ context' = context
    BY <1>5 DEF Ask
  <2>q. QED
    BY <1>1, <2>1, TalkParts DEF TalkInv, ContextKept, ReplyInAnswer, Answering
<1>6. CASE Prepare \/ NextSibling
  <2>1. /\ pc \in Answering /\ pc' \in Answering
        /\ transcript' = transcript /\ context' = context
    BY <1>6 DEF Prepare, NextSibling, Answering
  <2>2. batch'.told = batch.told /\ batch'.calls = batch.calls
    BY <1>1, <1>6 DEF Prepare, NextSibling, Batch
  <2>q. QED
    BY <1>1, <2>1, <2>2, TalkParts DEF TalkInv, ContextKept, ReplyInAnswer, Answering
<1>7. CASE Report
  <2>1. /\ pc = "execute" /\ pc' = "execute" /\ context' = context
        /\ batch.told + 1 < batch.next
        /\ transcript' = Append(transcript, Result(batch.told + 1))
        /\ batch' = [batch EXCEPT !.told = @ + 1]
    BY <1>7 DEF Report
  <2>2. batch'.told = batch.told + 1 /\ batch'.calls = batch.calls
    BY <1>1, <2>1 DEF Batch
  <2>3. batch.next \in Nat /\ batch.told + 1 <= batch.calls /\ batch.told + 1 \in 1..MaxCalls
    BY <1>1, <2>1, AgentBounds DEF TypeInv, BatchInOrder, Answering, Batch
  <2> DEFINE x == Result(batch.told + 1)
  <2>6. Len(transcript) \in Nat /\ batch.told \in Nat
    BY <1>1, LenProperties
  <2>4. PICK reply \in 1..Len(transcript) :
          /\ reply = Len(transcript) - batch.told
          /\ transcript[reply].role = "assistant" /\ transcript[reply].calls = batch.calls
          /\ \A k \in 1..batch.told : transcript[reply + k] = Result(k)
    BY <1>1, <2>1, AnsweredReply DEF Answering
  <2>5. x \in Entry /\ x.role = "toolResult" /\ x.call = batch.told + 1
    BY <2>3, EntryTypes DEF Result
  <2>7. \A k \in 1..batch.told : transcript[Len(transcript) + 1 - k] = Result(batch.told + 1 - k)
    <3>1. ASSUME NEW k \in 1..batch.told
          PROVE  transcript[Len(transcript) + 1 - k] = Result(batch.told + 1 - k)
      <4>1. batch.told + 1 - k \in 1..batch.told
        BY <2>6
      <4>2. reply + (batch.told + 1 - k) = Len(transcript) + 1 - k
        BY <2>4, <2>6
      <4>q. QED
        BY <2>4, <4>1, <4>2
    <3>q. QED
      BY <3>1
  <2>8. Len(transcript) + 1 - (batch.told + 1) = reply /\ (batch.told + 1) - 1 = batch.told
    BY <2>4, <2>6
  <2>9. Answered(transcript')
    <3>1. /\ Len(transcript) >= x.call
          /\ \A k \in 1..(x.call - 1) : transcript[Len(transcript) + 1 - k] = Result(x.call - k)
          /\ transcript[Len(transcript) + 1 - x.call].role = "assistant"
          /\ transcript[Len(transcript) + 1 - x.call].calls >= x.call
      <4>1. Len(transcript) >= batch.told + 1 /\ batch.calls >= batch.told + 1
        BY <1>1, <2>3, <2>4, <2>6
      <4> HIDE DEF x
      <4>2. ASSUME NEW k \in 1..(x.call - 1)
            PROVE  transcript[Len(transcript) + 1 - k] = Result(x.call - k)
        <5>1. k \in 1..batch.told /\ x.call - k = batch.told + 1 - k
          BY <2>5, <2>6, <4>2
        <5>2. transcript[Len(transcript) + 1 - k] = Result(batch.told + 1 - k)
          BY <2>7, <5>1
        <5>q. QED
          BY <5>1, <5>2
      <4>3. Len(transcript) + 1 - x.call = reply
        BY <2>5, <2>8
      <4>q. QED
        BY <2>4, <2>5, <4>1, <4>2, <4>3
    <3>q. QED
      BY <1>1, <2>1, <2>5, <3>1, AnsweredAppend
  <2>10. /\ Len(transcript') = Len(transcript) + 1
         /\ \A i \in 1..Len(transcript) : transcript'[i] = transcript[i]
         /\ transcript'[Len(transcript) + 1] = Result(batch.told + 1)
    BY <1>1, <2>1, <2>5, AppendProperties
  <2>11. ReplyInAnswer'
    <3>1. Len(transcript') - batch'.told = reply
      BY <2>2, <2>4, <2>6, <2>10
    <3>2. transcript'[reply] = transcript[reply]
      BY <2>4, <2>6, <2>10
    <3>3. ASSUME NEW k \in 1..(batch.told + 1) PROVE transcript'[reply + k] = Result(k)
      <4>1. CASE k \in 1..batch.told
        <5>1. reply + k \in 1..Len(transcript)
          BY <2>4, <2>6, <4>1
        <5>q. QED
          BY <2>4, <2>10, <4>1, <5>1
      <4>2. CASE k = batch.told + 1
        <5>1. reply + k = Len(transcript) + 1
          BY <2>4, <2>6, <4>2
        <5>q. QED
          BY <2>10, <4>2, <5>1
      <4>q. QED
        BY <2>6, <4>1, <4>2
    <3>q. QED
      BY <2>2, <2>4, <3>1, <3>2, <3>3 DEF ReplyInAnswer
  <2>12. transcript' = context' \o Results(batch'.told)
    BY <1>1, <2>1, <2>2, <2>3, ResultMoves DEF TalkInv, ContextKept, Answering
  <2>q. QED
    BY <2>1, <2>9, <2>11, <2>12, TalkParts DEF TalkInv, ContextKept, Results
<1>8. CASE Reported
  <2>1. CASE batch.mode = "sequential" /\ AnotherCall
    <3>1. /\ pc = "execute" /\ pc' = "preflight"
          /\ transcript' = transcript /\ context' = context /\ batch' = batch
      BY <1>8, <2>1 DEF Reported
    <3>q. QED
      BY <1>1, <3>1, TalkParts DEF TalkInv, ContextKept, ReplyInAnswer, Answering
  <2>2. CASE ~(batch.mode = "sequential" /\ AnotherCall)
    <3>1. /\ pc = "execute" /\ pc' = "turn" /\ transcript' = transcript
          /\ context' = context \o Results(batch.told)
          /\ aborted' = aborted /\ batch.told + 1 = batch.next
      BY <1>8, <2>2 DEF Reported, Results
    <3>2. context' = transcript'
      BY <3>1 DEF TalkInv, ContextKept, Answering
    <3>3. ASSUME ~aborted PROVE batch.told = batch.calls
      BY <1>1, <2>2, <3>1, <3>3, AgentBounds DEF TypeInv, BatchInOrder, Answering, AnotherCall, Batch
    <3>4. PICK reply \in 1..Len(transcript) :
            /\ reply = Len(transcript) - batch.told
            /\ transcript[reply].role = "assistant" /\ transcript[reply].calls = batch.calls
            /\ \A k \in 1..batch.told : transcript[reply + k] = Result(k)
      BY <1>1, <3>1, AnsweredReply DEF Answering
    <3>5. Len(transcript) \in Nat /\ batch.told \in Nat
      BY <1>1, LenProperties
    <3>6. ASSUME NEW i \in (reply + 1)..Len(transcript) PROVE transcript[i].role # "assistant"
      <4>1. i - reply \in 1..batch.told /\ reply + (i - reply) = i
        <5>1. reply \in Int /\ Len(transcript) = reply + batch.told
          BY <3>4, <3>5
        <5>2. i \in Int /\ reply + 1 <= i /\ i <= reply + batch.told
          BY <3>6, <5>1
        <5>q. QED
          BY <3>5, <5>1, <5>2
      <4>2. transcript[reply + (i - reply)] = Result(i - reply) /\ i - reply \in 1..MaxCalls
        <5>0. \A n \in 0..MaxCalls : \A k \in 1..n : k \in 1..MaxCalls
          BY AgentBounds
        <5>1. \A k \in 1..batch.told : transcript[reply + k] = Result(k) /\ k \in 1..MaxCalls
          BY <1>1, <3>4, <5>0
        <5>q. QED
          BY <4>1, <5>1
      <4>3. transcript[i] = Result(i - reply)
        BY <4>1, <4>2
      <4>q. QED
        BY <4>2, <4>3, EntryTypes
    <3>8. LastReply = reply
      BY <1>1, <3>4, <3>6, ReplyIs, LastReplyIn
    <3>9. ~aborted => Len(transcript) = LastReply + transcript[LastReply].calls
      BY <3>3, <3>4, <3>5, <3>8
    <3>10. LastReply' = LastReply
      BY <3>1, LastReplyIn
    <3>q. QED
      BY <1>1, <3>1, <3>2, <3>9, <3>10, TalkParts
      DEF TalkInv, ContextKept, ReplyInAnswer, Answering
  <2>q. QED
    BY <2>1, <2>2
<1>9. CASE NextTurn
  <2>1. /\ pc = "turn" /\ pc' \in {"inject", "end"}
        /\ transcript' = transcript /\ context' = context
    BY <1>9 DEF NextTurn
  <2>q. QED
    BY <1>1, <2>1, TalkParts DEF TalkInv, ContextKept, ReplyInAnswer, Answering
<1>q. QED
  BY <1>2, <1>3, <1>4, <1>5, <1>6, <1>7, <1>8, <1>9 DEF LoopStep

LEMMA ReplyTalk ==
  ASSUME TypeInv, TypeInv', TalkInv, ModelReplies \/ RunThrows
  PROVE  TalkInv'
<1>1. /\ transcript \in Seq(Entry) /\ context \in Seq(Entry) /\ Answered(transcript)
      /\ Len(transcript) \in Nat
  BY TypeParts, TalkParts, LenProperties DEF TypeInv, TalkInv
<1>2. CASE ModelReplies
  <2>1. PICK stop \in Stops, n \in 0..MaxCalls : ReplyEnds(stop, n)
    BY <1>2 DEF ModelReplies
  <2> DEFINE x == Assistant(stop, n)
  <2>2. x \in Entry /\ x.role = "assistant" /\ x.calls = n
    BY <2>1, EntryTypes
  <2>3. /\ pc \in {"stream", "cancelled"}
        /\ transcript' = Append(transcript, x) /\ context' = Append(context, x)
        /\ n = 0 => pc' \in {"end", "turn"}
        /\ n # 0 => pc' \in {"execute", "preflight"} /\ batch'.told = 0 /\ batch'.calls = n
    <3>1. /\ pc \in {"stream", "cancelled"}
          /\ transcript' = Append(transcript, x) /\ context' = Append(context, x)
          /\ n = 0 => pc' \in {"end", "turn"}
      BY <2>1 DEF ReplyEnds, Reply, Add
    <3>2. CASE n # 0
      <4>1. PICK mode \in {"sequential", "parallel"} :
              batch' = [NoBatch EXCEPT !.calls = n,
                                       !.mode = IF stop = "length" THEN "parallel" ELSE mode,
                                       !.next = IF stop = "length" THEN n + 1 ELSE 1]
        BY <2>1, <3>2 DEF ReplyEnds, Reply
      <4>2. batch'.told = 0 /\ batch'.calls = n
        BY <4>1 DEF NoBatch
      <4>3. pc' \in {"execute", "preflight"}
        BY <2>1, <3>2 DEF ReplyEnds, Reply
      <4>q. QED
        BY <3>1, <4>2, <4>3
    <3>q. QED
      BY <3>1, <3>2
  <2>4. context' = transcript'
    BY <2>3 DEF TalkInv, ContextKept
  <2> HIDE DEF x
  <2>5. Answered(transcript')
    BY <1>1, <2>2, <2>3, AnsweredAppend
  <2>6. /\ Len(transcript') = Len(transcript) + 1 /\ transcript'[Len(transcript) + 1] = x
        /\ transcript' \in Seq(Entry)
    BY <1>1, <2>2, <2>3, AppendProperties
  <2>7. CASE n = 0
    <3>1. LastReply' = Len(transcript) + 1
      <4>1. /\ Len(transcript) + 1 \in 1..Len(transcript')
            /\ (Len(transcript) + 1 + 1)..Len(transcript') = {}
        BY <1>1, <2>6
      <4>q. QED
        BY <2>2, <2>6, <4>1, ReplyIs, LastReplyIn
    <3>2. (Len(transcript) = LastReply + transcript[LastReply].calls)'
      BY <1>1, <2>2, <2>6, <2>7, <3>1
    <3>q. QED
      BY <2>3, <2>4, <2>5, <2>7, <3>2, TalkParts DEF TalkInv, ContextKept, ReplyInAnswer, Answering
  <2>8. CASE n # 0
    <3>1. transcript' = context' \o Results(0)
      BY <2>4, <2>6, NothingToShow, ConcatEmptySeq
    <3>2. /\ Len(transcript') - batch'.told = Len(transcript) + 1
          /\ 1..batch'.told = {}
      BY <1>1, <2>3, <2>6, <2>8
    <3>3. ReplyInAnswer'
      BY <1>1, <2>2, <2>3, <2>6, <2>8, <3>2 DEF ReplyInAnswer
    <3>q. QED
      BY <2>3, <2>5, <2>8, <3>1, <3>3, TalkParts DEF TalkInv, ContextKept, Results
  <2>q. QED
    BY <2>1, <2>7, <2>8, AgentBounds
<1>3. CASE RunThrows
  <2>1. PICK stop \in Stops : transcript' = Append(transcript, Assistant(stop, 0))
    BY <1>3 DEF RunThrows, Throw, Stops
  <2>2. Assistant(stop, 0) \in Entry /\ Assistant(stop, 0).role = "assistant"
    BY <2>1, EntryTypes, AgentBounds
  <2>3. Answered(transcript')
    BY <1>1, <2>1, <2>2, AnsweredAppend
  <2>4. pc' = "failed"
    BY <1>3 DEF RunThrows, Throw
  <2>q. QED
    BY <2>3, <2>4, TalkParts DEF TalkInv, ContextKept, ReplyInAnswer, Answering
<1>q. QED
  BY <1>2, <1>3

LEMMA TalkStep == TypeInv /\ TypeInv' /\ TalkInv /\ [Next]_vars => TalkInv'
<1>1. ASSUME TypeInv, TypeInv', TalkInv, Next PROVE TalkInv'
  BY <1>1, LoopTalk, ReplyTalk, SessionTalk, StaysTalk, StartsTalk, EndsTalk DEF Next, Step
<1>2. ASSUME TalkInv, UNCHANGED vars PROVE TalkInv'
  <2>1. RunStays
    BY <1>2 DEF vars, agentVars, loopVars, RunStays
  <2>q. QED
    BY <1>2, <2>1, StaysTalk
<1>q. QED
  BY <1>1, <1>2

LEMMA TalkAlways == Spec => []TalkInv
BY TalkInit, TalkStep, TypesAlways, PTL DEF Spec

\* At every request the context the model is asked with is the transcript, after
\* prompts, injected messages, results, continuations and failures.
THEOREM AgentContext == Spec => []ContextIsTranscript
<1>1. TalkInv => ContextIsTranscript
  BY DEF TalkInv, ContextKept, ContextIsTranscript
<1>q. QED
  BY <1>1, TalkAlways, PTL

\* Every result follows the reply it answers, after the results of the calls before
\* it; a run that was not aborted goes on with every call answered.
THEOREM AgentAnswers == Spec => []CallsAnswered
<1>1. TalkInv => CallsAnswered
  BY DEF TalkInv
<1>q. QED
  BY <1>1, TalkAlways, PTL

-----------------------------------------------------------------------------
(* Delivery                                                                 *)

\* The places where m is, counted.
Places(m) ==
  Count(m, steering) + Count(m, followUps) + Count(m, inbox) + Count(User(m), transcript)

LEMMA PlacesDelivered ==
  /\ DeliveredOnce <=> \A m \in Msgs : Places(m) = IF fate[m] = "accepted" THEN 1 ELSE 0
  /\ DeliveredOnce' <=> \A m \in Msgs : Places(m)' = IF fate'[m] = "accepted" THEN 1 ELSE 0
BY DEF DeliveredOnce, Places, Count, InTranscript, Copies

LEMMA CountsTyped ==
  ASSUME TypeInv, NEW m
  PROVE  /\ Count(m, steering) \in Nat /\ Count(m, followUps) \in Nat
         /\ Count(m, inbox) \in Nat /\ Count(User(m), transcript) \in Nat
BY CountType, TypeParts DEF TypeInv, OtherTypes

LEMMA SameUser == \A m, k : User(m) = User(k) <=> m = k
<1>1. ASSUME NEW m, NEW k, User(m) = User(k) PROVE m = k
  <2>1. User(m).msg = User(k).msg
    BY <1>1
  <2>q. QED
    BY <2>1 DEF User
<1>q. QED
  BY <1>1

\* A message in a queue or on hand has been accepted.
LEMMA QueuedIsAccepted ==
  ASSUME TypeInv, DeliveredOnce, NEW m \in Msgs,
         m \in SeqSet(steering) \cup SeqSet(followUps) \cup SeqSet(inbox)
  PROVE  fate[m] = "accepted"
<1>1. /\ steering \in Seq(Msgs) /\ followUps \in Seq(Msgs) /\ inbox \in Seq(Msgs)
  BY TypeParts DEF TypeInv, OtherTypes
<1>2. \A s \in Seq(Msgs) : m \in SeqSet(s) => Count(m, s) # 0
  <2>1. ASSUME NEW s \in Seq(Msgs), m \in SeqSet(s) PROVE Count(m, s) # 0
    <3>1. DOMAIN s = 1..Len(s)
      BY LenProperties
    <3>2. PICK i \in 1..Len(s) : s[i] = m
      BY <2>1, <3>1 DEF SeqSet
    <3>q. QED
      BY <3>2, CountType
  <2>q. QED
    BY <2>1
<1>3. Places(m) # 0
  BY <1>1, <1>2, CountsTyped DEF Places
<1>q. QED
  BY <1>3, PlacesDelivered

\* What a step does to the messages: it moves them around, accepts one that was new or
\* held, or ends some that were in a queue or held.
Moves == fate' = fate /\ \A m \in Msgs : Places(m)' = Places(m)

Accepts(m) ==
  /\ m \in Msgs /\ fate[m] \in {"new", "held"} /\ Ends({m}, "accepted")
  /\ \A k \in Msgs : Places(k)' = Places(k) + (IF k = m THEN 1 ELSE 0)

Gives(m, how) ==
  /\ m \in Msgs /\ fate[m] \in {"new", "held"} /\ how \in {"held", "refused", "rejected"}
  /\ Ends({m}, how)
  /\ \A k \in Msgs : Places(k)' = Places(k)

Drops(ms, how) ==
  /\ \A m \in ms : fate[m] = "accepted"
  /\ how \in {"cleared", "dropped"} /\ Ends(ms, how)
  /\ \A k \in Msgs : Places(k)' = IF k \in ms THEN 0 ELSE Places(k)

LEMMA DeliveryKinds ==
  ASSUME TypeInv, DeliveredOnce,
         \/ Moves \/ \E m \in Msgs : Accepts(m)
         \/ \E m \in Msgs, how \in {"held", "refused", "rejected"} : Gives(m, how)
         \/ \E ms \in SUBSET Msgs, how \in {"cleared", "dropped"} : Drops(ms, how)
  PROVE  DeliveredOnce'
<1>1. \A m \in Msgs : Places(m) = IF fate[m] = "accepted" THEN 1 ELSE 0
  BY PlacesDelivered
<1>2. CASE Moves
  BY <1>1, <1>2, PlacesDelivered DEF Moves
<1>3. ASSUME NEW m \in Msgs, Accepts(m) PROVE DeliveredOnce'
  <2>1. \A k \in Msgs : fate'[k] = IF k = m THEN "accepted" ELSE fate[k]
    BY <1>3 DEF Accepts, Ends
  <2>2. \A k \in Msgs : Places(k)' = IF fate'[k] = "accepted" THEN 1 ELSE 0
    BY <1>1, <1>3, <2>1 DEF Accepts
  <2>q. QED
    BY <2>2, PlacesDelivered
<1>4. ASSUME NEW m \in Msgs, NEW how \in {"held", "refused", "rejected"}, Gives(m, how)
      PROVE DeliveredOnce'
  <2>1. \A k \in Msgs : fate'[k] = IF k = m THEN how ELSE fate[k]
    BY <1>4 DEF Gives, Ends
  <2>2. \A k \in Msgs : Places(k)' = IF fate'[k] = "accepted" THEN 1 ELSE 0
    BY <1>1, <1>4, <2>1 DEF Gives
  <2>q. QED
    BY <2>2, PlacesDelivered
<1>5. ASSUME NEW ms \in SUBSET Msgs, NEW how \in {"cleared", "dropped"}, Drops(ms, how)
      PROVE DeliveredOnce'
  <2>1. \A k \in Msgs : fate'[k] = IF k \in ms THEN how ELSE fate[k]
    BY <1>5 DEF Drops, Ends
  <2>2. \A k \in Msgs : Places(k)' = IF fate'[k] = "accepted" THEN 1 ELSE 0
    BY <1>1, <1>5, <2>1 DEF Drops
  <2>q. QED
    BY <2>2, PlacesDelivered
<1>q. QED
  BY <1>2, <1>3, <1>4, <1>5

\* The steps of the loop only move messages.
LEMMA LoopMoves ==
  ASSUME TypeInv, LoopStep, UNCHANGED sessionVars
  PROVE  Moves
<1> USE DEF queueVars
<1>1. fate' = fate
  BY DEF sessionVars
<1>2. /\ transcript \in Seq(Entry) /\ steering \in Seq(Msgs) /\ followUps \in Seq(Msgs)
      /\ inbox \in Seq(Msgs) /\ batch \in Batch
  BY TypeParts DEF TypeInv, OtherTypes
<1>3. ASSUME NEW m \in Msgs PROVE Places(m)' = Places(m)
  <2>1. /\ Count(m, steering) \in Nat /\ Count(m, followUps) \in Nat
        /\ Count(m, inbox) \in Nat /\ Count(User(m), transcript) \in Nat
    BY CountsTyped
  <2>2. CASE EmitPrompt \/ Inject
    <3>1. /\ inbox # <<>> /\ inbox' = Tail(inbox) /\ UNCHANGED <<steering, followUps>>
          /\ transcript' = Append(transcript, User(Head(inbox)))
      BY <2>2 DEF EmitPrompt, Inject, Add
    <3>2. Head(inbox) \in Msgs /\ User(Head(inbox)) \in Entry
      BY <1>2, <3>1, HeadTailProperties, EntryTypes
    <3>3. Count(m, inbox) = Count(m, inbox') + (IF Head(inbox) = m THEN 1 ELSE 0)
      BY <1>2, <3>1, CountTail
    <3>4. Count(User(m), transcript')
            = Count(User(m), transcript) + (IF User(Head(inbox)) = User(m) THEN 1 ELSE 0)
      BY <1>2, <3>1, <3>2, CountAppend
    <3>5. User(Head(inbox)) = User(m) <=> Head(inbox) = m
      BY SameUser
    <3>6. Count(m, inbox') \in Nat
      BY <1>2, <3>1, HeadTailProperties, CountType
    <3>7. Count(m, steering') = Count(m, steering) /\ Count(m, followUps') = Count(m, followUps)
      BY <3>1
    <3>q. QED
      BY <2>1, <3>3, <3>4, <3>5, <3>6, <3>7 DEF Places
  <2>3. CASE FirstPoll
    <3>1. PICK d \in Drained(steering) :
            /\ inbox' = IF skip THEN <<>> ELSE d.taken
            /\ steering' = IF skip THEN steering ELSE d.rest
      BY <2>3 DEF FirstPoll
    <3>2. inbox = <<>> /\ followUps' = followUps /\ transcript' = transcript
      BY <2>3 DEF FirstPoll
    <3>3. /\ Count(m, d.taken) \in Nat /\ Count(m, d.rest) \in Nat
          /\ Count(m, steering) = Count(m, d.taken) + Count(m, d.rest)
      BY <1>2, <3>1, DrainedCount
    <3>4. Count(m, <<>>) = 0
      BY CountEmpty
    <3>5. Count(m, steering') + Count(m, inbox') = Count(m, steering) + Count(m, inbox)
      BY <2>1, <3>1, <3>2, <3>3, <3>4
    <3>6. CASE skip
      BY <2>1, <3>1, <3>2, <3>4, <3>6 DEF Places
    <3>7. CASE ~skip
      BY <2>1, <3>1, <3>2, <3>3, <3>4, <3>7 DEF Places
    <3>q. QED
      BY <3>6, <3>7
  <2>4. CASE NextTurn
    <3>1. PICK d \in Drained(steering) :
            /\ steering' = d.rest
            /\ IF more \/ d.taken # <<>>
               THEN inbox' = d.taken /\ pc' = "inject" /\ UNCHANGED followUps
               ELSE \E f \in Drained(followUps) :
                      /\ followUps' = f.rest
                      /\ inbox' = f.taken
                      /\ pc' = IF f.taken = <<>> THEN "end" ELSE "inject"
      BY <2>4 DEF NextTurn
    <3>2. inbox = <<>> /\ transcript' = transcript /\ Count(m, inbox) = 0
      BY <2>4, CountEmpty DEF NextTurn, TypeInv
    <3>3. /\ Count(m, d.taken) \in Nat /\ Count(m, d.rest) \in Nat
          /\ Count(m, steering) = Count(m, d.taken) + Count(m, d.rest)
      BY <1>2, <3>1, DrainedCount
    <3>4. CASE inbox' = d.taken /\ followUps' = followUps
      BY <2>1, <3>1, <3>2, <3>3, <3>4 DEF Places
    <3>5. CASE d.taken = <<>> /\ \E f \in Drained(followUps) : followUps' = f.rest /\ inbox' = f.taken
      <4>1. PICK f \in Drained(followUps) : followUps' = f.rest /\ inbox' = f.taken
        BY <3>5
      <4>2. /\ Count(m, f.taken) \in Nat /\ Count(m, f.rest) \in Nat
            /\ Count(m, followUps) = Count(m, f.taken) + Count(m, f.rest)
        BY <1>2, <4>1, DrainedCount
      <4>3. Count(m, d.taken) = 0
        BY <3>5, CountEmpty
      <4>q. QED
        BY <2>1, <3>1, <3>2, <3>3, <4>1, <4>2, <4>3 DEF Places
    <3>q. QED
      BY <3>1, <3>4, <3>5
  <2>5. CASE Report
    <3>1. /\ transcript' = Append(transcript, Result(batch.told + 1))
          /\ UNCHANGED <<steering, followUps, inbox>>
      BY <2>5 DEF Report
    <3>2. batch.told + 1 \in 1..MaxCalls
      BY <1>2, <2>5, AgentBounds DEF TypeInv, BatchInOrder, Report, Answering, Batch
    <3>3. Result(batch.told + 1) \in Entry /\ Result(batch.told + 1) # User(m)
      BY <3>2, EntryTypes
    <3>4. Count(User(m), transcript') = Count(User(m), transcript)
      BY <1>2, <2>1, <3>1, <3>3, CountAppend
    <3>q. QED
      BY <3>1, <3>4 DEF Places
  <2>6. CASE Ask \/ Prepare \/ NextSibling \/ Reported
    <3>1. UNCHANGED <<transcript, steering, followUps, inbox>>
      BY <2>6 DEF Ask, Prepare, NextSibling, Reported
    <3>q. QED
      BY <3>1 DEF Places
  <2>q. QED
    BY <2>2, <2>3, <2>4, <2>5, <2>6 DEF LoopStep
<1>q. QED
  BY <1>1, <1>3 DEF Moves

\* The prompts a run starts with are on hand instead of in a queue.
LEMMA GoOnMoves ==
  ASSUME TypeInv, NEW c \in Callers, GoOn(c)
  PROVE  Moves
<1> USE DEF queueVars
<1>1. /\ steering \in Seq(Msgs) /\ followUps \in Seq(Msgs) /\ fate' = fate
      /\ transcript' = transcript
  BY TypeParts DEF TypeInv, OtherTypes, GoOn
<1>2. ASSUME NEW m \in Msgs PROVE Places(m)' = Places(m)
  <2>1. /\ Count(m, steering) \in Nat /\ Count(m, followUps) \in Nat
        /\ Count(m, inbox) \in Nat /\ Count(User(m), transcript) \in Nat
    BY CountsTyped
  <2>2. CASE CannotContinue
    <3>1. UNCHANGED <<steering, followUps, inbox>>
      BY <2>2 DEF GoOn
    <3>q. QED
      BY <1>1, <3>1 DEF Places
  <2>3. CASE ~CannotContinue
    <3>1. ContinueFrom /\ pc = "idle"
      BY <2>3 DEF GoOn, CannotContinue
    <3>2. Count(m, <<>>) = 0 /\ inbox = <<>> /\ Count(m, inbox) = 0
      BY <3>1, CountEmpty DEF TypeInv
    <3>3. CASE inbox' = <<>> /\ UNCHANGED <<steering, followUps>>
      BY <1>1, <3>2, <3>3 DEF Places
    <3>4. ASSUME NEW d \in Drained(steering),
                 steering' = d.rest, inbox' = d.taken, followUps' = followUps
          PROVE  Places(m)' = Places(m)
      <4>1. /\ Count(m, d.taken) \in Nat /\ Count(m, d.rest) \in Nat
            /\ Count(m, steering) = Count(m, d.taken) + Count(m, d.rest)
        BY <1>1, DrainedCount
      <4>q. QED
        BY <1>1, <2>1, <3>2, <3>4, <4>1 DEF Places
    <3>5. ASSUME NEW d \in Drained(followUps),
                 followUps' = d.rest, inbox' = d.taken, steering' = steering
          PROVE  Places(m)' = Places(m)
      <4>1. /\ Count(m, d.taken) \in Nat /\ Count(m, d.rest) \in Nat
            /\ Count(m, followUps) = Count(m, d.taken) + Count(m, d.rest)
        BY <1>1, DrainedCount
      <4>q. QED
        BY <1>1, <2>1, <3>2, <3>5, <4>1 DEF Places
    <3>6. CASE Last(transcript).role # "assistant"
      BY <3>1, <3>3, <3>6 DEF ContinueFrom, RunPrompts
    <3>7. CASE Last(transcript).role = "assistant" /\ steering # <<>>
      <4>1. PICK d \in Drained(steering) :
              steering' = d.rest /\ RunPrompts(d.taken, TRUE) /\ UNCHANGED followUps
        BY <3>1, <3>7 DEF ContinueFrom
      <4>q. QED
        BY <3>4, <4>1 DEF RunPrompts
    <3>8. CASE Last(transcript).role = "assistant" /\ steering = <<>>
      <4>1. PICK d \in Drained(followUps) :
              followUps' = d.rest /\ RunPrompts(d.taken, FALSE) /\ UNCHANGED steering
        BY <3>1, <3>8 DEF ContinueFrom
      <4>q. QED
        BY <3>5, <4>1 DEF RunPrompts
    <3>q. QED
      BY <3>6, <3>7, <3>8
  <2>q. QED
    BY <2>2, <2>3
<1>q. QED
  BY <1>1, <1>2 DEF Moves

\* Steps that leave every place alone.
Rests == UNCHANGED <<transcript, steering, followUps, inbox>>

LEMMA RestsPlaces == Rests => \A m \in Msgs : Places(m)' = Places(m)
BY DEF Rests, Places

\* Steps that prepare nothing, and end nothing that is prepared.
HeldStays ==
  /\ \A c \in Callers : call'[c] = "prepare" => call[c] = "prepare" /\ held'[c] = held[c]
  /\ \A c \in Callers : call'[c] = "prepare" /\ fate[held[c]] = "held" =>
       fate'[held[c]] = "held"

LEMMA HeldStaysOnce == HeldOnce /\ HeldStays => HeldOnce'
BY DEF HeldOnce, HeldStays

\* A prompt: queued, refused, or to be prepared.
LEMMA PromptDelivery ==
  ASSUME TypeInv, DeliveryInv, NEW c \in Callers, NEW m \in Msgs,
         PromptStreaming(c, m) \/ PromptIdle(c, m)
  PROVE  DeliveryInv'
<1> USE DEF queueVars, agentVars, loopVars
<1>1. /\ steering \in Seq(Msgs) /\ followUps \in Seq(Msgs) /\ fate \in [Msgs -> Fates]
      /\ call \in [Callers -> Steps] /\ held \in [Callers -> Msgs \cup {NoMsg}]
      /\ fate[m] = "new" /\ call[c] = "idle"
      /\ \A d \in Callers : call[d] = "prepare" => held[d] \in Msgs
  BY TypeParts DEF TypeInv, OtherTypes, PromptStreaming, PromptIdle, IsNew
<1>2. CASE PromptStreaming(c, m)
  <2>1. HeldOnce'
    <3>1. UNCHANGED <<call, held>> /\ \A k \in Msgs \ {m} : fate'[k] = fate[k]
      BY <1>2 DEF PromptStreaming, Ends
    <3>q. QED
      BY <1>1, <3>1, HeldStaysOnce DEF DeliveryInv, HeldStays
  <2>2. UNCHANGED <<transcript, inbox>>
    BY <1>2 DEF PromptStreaming
  <2>3. ASSUME NEW k \in Msgs
        PROVE  /\ Count(k, Append(steering, m)) = Count(k, steering) + (IF k = m THEN 1 ELSE 0)
               /\ Count(k, Append(followUps, m)) = Count(k, followUps) + (IF k = m THEN 1 ELSE 0)
               /\ Count(k, steering) \in Nat /\ Count(k, followUps) \in Nat
               /\ Count(k, inbox) \in Nat /\ Count(User(k), transcript) \in Nat
    BY <1>1, CountAppend, CountsTyped
  <2>4. CASE steering' = Append(steering, m) /\ Ends({m}, "accepted") /\ UNCHANGED followUps
    <3>1. ASSUME NEW k \in Msgs PROVE Places(k)' = Places(k) + (IF k = m THEN 1 ELSE 0)
      <4>1. /\ Count(k, steering') = Count(k, steering) + (IF k = m THEN 1 ELSE 0)
            /\ Count(k, followUps') = Count(k, followUps) /\ Count(k, inbox') = Count(k, inbox)
            /\ Count(User(k), transcript') = Count(User(k), transcript)
        BY <2>2, <2>3, <2>4
      <4>2. /\ Count(k, steering) \in Nat /\ Count(k, followUps) \in Nat
            /\ Count(k, inbox) \in Nat /\ Count(User(k), transcript) \in Nat
        BY <2>3
      <4>q. QED
        BY <4>1, <4>2 DEF Places
    <3>2. Accepts(m)
      BY <1>1, <2>4, <3>1 DEF Accepts
    <3>q. QED
      BY <2>1, <3>2, DeliveryKinds DEF DeliveryInv
  <2>5. CASE followUps' = Append(followUps, m) /\ Ends({m}, "accepted") /\ UNCHANGED steering
    <3>1. ASSUME NEW k \in Msgs PROVE Places(k)' = Places(k) + (IF k = m THEN 1 ELSE 0)
      <4>1. /\ Count(k, followUps') = Count(k, followUps) + (IF k = m THEN 1 ELSE 0)
            /\ Count(k, steering') = Count(k, steering) /\ Count(k, inbox') = Count(k, inbox)
            /\ Count(User(k), transcript') = Count(User(k), transcript)
        BY <2>2, <2>3, <2>5
      <4>2. /\ Count(k, steering) \in Nat /\ Count(k, followUps) \in Nat
            /\ Count(k, inbox) \in Nat /\ Count(User(k), transcript) \in Nat
        BY <2>3
      <4>q. QED
        BY <4>1, <4>2 DEF Places
    <3>2. Accepts(m)
      BY <1>1, <2>5, <3>1 DEF Accepts
    <3>q. QED
      BY <2>1, <3>2, DeliveryKinds DEF DeliveryInv
  <2>6. CASE Ends({m}, "refused") /\ UNCHANGED queueVars
    <3>1. \A k \in Msgs : Places(k)' = Places(k)
      BY <2>2, <2>6, RestsPlaces DEF Rests
    <3>2. Gives(m, "refused")
      BY <1>1, <2>6, <3>1 DEF Gives
    <3>q. QED
      BY <2>1, <3>2, DeliveryKinds DEF DeliveryInv
  <2>q. QED
    BY <1>2, <2>4, <2>5, <2>6 DEF PromptStreaming
<1>3. CASE PromptIdle(c, m)
  <2>1. /\ Rests /\ Ends({m}, "held")
        /\ call' = [call EXCEPT ![c] = "prepare"] /\ held' = [held EXCEPT ![c] = m]
    BY <1>3 DEF PromptIdle, Goto, Rests
  <2>2. Gives(m, "held")
    BY <1>1, <2>1, RestsPlaces DEF Gives
  <2>3. \A k \in Msgs : fate'[k] = IF k = m THEN "held" ELSE fate[k]
    BY <2>1 DEF Ends
  <2>4. \A d \in Callers : call'[d] = "prepare" =>
          \/ d = c /\ held'[d] = m
          \/ d # c /\ call[d] = "prepare" /\ held'[d] = held[d] /\ held[d] \in Msgs \ {m}
    BY <1>1, <2>1 DEF DeliveryInv, HeldOnce
  <2>5. HeldOnce'
    BY <2>3, <2>4 DEF DeliveryInv, HeldOnce
  <2>q. QED
    BY <2>2, <2>5, DeliveryKinds DEF DeliveryInv
<1>q. QED
  BY <1>2, <1>3

\* A prepared prompt becomes the first of a run, or is rejected or refused.
LEMMA PreparedDelivery ==
  ASSUME TypeInv, DeliveryInv, NEW c \in Callers, StartRun(c) \/ RefusePrompt(c)
  PROVE  DeliveryInv'
<1> USE DEF queueVars, agentVars, loopVars
<1>1. /\ fate \in [Msgs -> Fates] /\ call \in [Callers -> Steps]
      /\ held \in [Callers -> Msgs \cup {NoMsg}] /\ call[c] = "prepare"
      /\ held[c] \in Msgs /\ fate[held[c]] = "held"
      /\ \A d \in Callers : call[d] = "prepare" => held[d] \in Msgs
  BY TypeParts DEF TypeInv, OtherTypes, StartRun, RefusePrompt, DeliveryInv, HeldOnce
<1>2. HeldOnce'
  <2>1. PICK how : Ends({held[c]}, how)
    BY DEF StartRun, RefusePrompt
  <2>2. PICK step \in {"run", "idle"} : call' = [call EXCEPT ![c] = step]
    BY DEF StartRun, RefusePrompt, Goto
  <2>3. held' = [held EXCEPT ![c] = NoMsg]
    BY DEF StartRun, RefusePrompt
  <2>4. \A d \in Callers : call'[d] = "prepare" =>
          d # c /\ call[d] = "prepare" /\ held'[d] = held[d] /\ held[d] \in Msgs \ {held[c]}
    BY <1>1, <2>2, <2>3 DEF DeliveryInv, HeldOnce
  <2>5. \A k \in Msgs \ {held[c]} : fate'[k] = fate[k]
    BY <2>1 DEF Ends
  <2>6. HeldStays
    BY <2>4, <2>5 DEF HeldStays
  <2>q. QED
    BY <2>6, HeldStaysOnce DEF DeliveryInv
<1>3. CASE RunPrompts(<<held[c]>>, FALSE) /\ Ends({held[c]}, "accepted") /\ StartRun(c)
  <2>1. /\ inbox = <<>> /\ inbox' = <<held[c]>>
        /\ UNCHANGED <<transcript, steering, followUps>>
    BY <1>3 DEF RunPrompts, TypeInv, StartRun
  <2>2. ASSUME NEW k \in Msgs PROVE Places(k)' = Places(k) + (IF k = held[c] THEN 1 ELSE 0)
    <3>1. Count(k, inbox) = 0 /\ Count(k, inbox') = IF held[c] = k THEN 1 ELSE 0
      BY <1>1, <2>1, CountEmpty, OneElement
    <3>q. QED
      BY <2>1, <3>1, CountsTyped DEF Places
  <2>3. Accepts(held[c])
    BY <1>1, <1>3, <2>2 DEF Accepts
  <2>q. QED
    BY <1>1, <1>2, <2>3, DeliveryKinds DEF DeliveryInv
<1>4. CASE /\ Ends({held[c]}, "rejected") \/ Ends({held[c]}, "refused")
           /\ Rests
  <2>1. PICK how \in {"held", "refused", "rejected"} : Ends({held[c]}, how)
    BY <1>4
  <2>2. Gives(held[c], how)
    BY <1>1, <1>4, <2>1, RestsPlaces DEF Gives
  <2>q. QED
    BY <1>1, <1>2, <2>1, <2>2, DeliveryKinds DEF DeliveryInv
<1>q. QED
  BY <1>3, <1>4 DEF StartRun, RefusePrompt, Rests

\* What ends with the queues, or with what was on hand.
LEMMA EndingDelivery ==
  ASSUME TypeInv, DeliveryInv, ClearQueue \/ RunThrows
  PROVE  DeliveryInv'
<1> USE DEF queueVars, loopVars
<1>1. /\ transcript \in Seq(Entry) /\ steering \in Seq(Msgs) /\ followUps \in Seq(Msgs)
      /\ inbox \in Seq(Msgs) /\ fate \in [Msgs -> Fates]
      /\ \A d \in Callers : call[d] = "prepare" => held[d] \in Msgs
  BY TypeParts DEF TypeInv, OtherTypes
<1>2. ASSUME NEW s \in Seq(Msgs)
      PROVE  /\ SeqSet(s) \subseteq Msgs
             /\ \A k \in Msgs : Count(k, s) # 0 <=> k \in SeqSet(s)
  <2>1. DOMAIN s = 1..Len(s) /\ \A i \in 1..Len(s) : s[i] \in Msgs
    BY LenProperties, ElementOfSeq
  <2>2. \A k \in Msgs : Count(k, s) = 0 <=> \A i \in 1..Len(s) : s[i] # k
    BY CountType
  <2>q. QED
    BY <2>1, <2>2 DEF SeqSet
<1>3. ASSUME NEW ms \in SUBSET Msgs, NEW how \in {"cleared", "dropped"}, Drops(ms, how),
             UNCHANGED <<call, held>>
      PROVE  DeliveryInv'
  <2>1. \A k \in Msgs \ ms : fate'[k] = fate[k]
    BY <1>3 DEF Drops, Ends
  <2>2. HeldStays
    BY <1>1, <1>3, <2>1 DEF HeldStays, Drops
  <2>q. QED
    BY <1>3, <2>2, DeliveryKinds, HeldStaysOnce DEF DeliveryInv
<1>4. CASE ClearQueue
  <2> DEFINE ms == SeqSet(steering) \cup SeqSet(followUps)
  <2>1. /\ ms \in SUBSET Msgs /\ \A m \in ms : fate[m] = "accepted"
    BY <1>1, <1>2, QueuedIsAccepted DEF DeliveryInv
  <2>2. /\ Ends(ms, "cleared") /\ steering' = <<>> /\ followUps' = <<>>
        /\ UNCHANGED <<transcript, inbox, call, held>>
    BY <1>4 DEF ClearQueue
  <2>3. ASSUME NEW k \in Msgs PROVE Places(k)' = IF k \in ms THEN 0 ELSE Places(k)
    <3>1. /\ Count(k, steering) \in Nat /\ Count(k, followUps) \in Nat
          /\ Count(k, inbox) \in Nat /\ Count(User(k), transcript) \in Nat
          /\ Count(k, <<>>) = 0
      BY CountsTyped, CountEmpty
    <3>2. Places(k)' = Count(k, inbox) + Count(User(k), transcript)
      BY <2>2, <3>1 DEF Places
    <3>3. CASE k \in ms
      <4>1. Places(k) = 1 /\ Count(k, steering) + Count(k, followUps) # 0
        BY <1>1, <1>2, <2>1, <3>1, <3>3, PlacesDelivered DEF DeliveryInv
      <4>q. QED
        BY <3>1, <3>2, <3>3, <4>1 DEF Places
    <3>4. CASE k \notin ms
      <4>1. Count(k, steering) = 0 /\ Count(k, followUps) = 0
        BY <1>1, <1>2, <3>4
      <4>q. QED
        BY <3>1, <3>2, <3>4, <4>1 DEF Places
    <3>q. QED
      BY <3>3, <3>4
  <2> HIDE DEF ms
  <2>4. Drops(ms, "cleared")
    BY <2>1, <2>2, <2>3 DEF Drops
  <2>q. QED
    BY <1>3, <2>1, <2>2, <2>4
<1>5. CASE RunThrows
  <2> DEFINE ms == SeqSet(inbox)
  <2>1. /\ ms \in SUBSET Msgs /\ \A m \in ms : fate[m] = "accepted"
    BY <1>1, <1>2, QueuedIsAccepted DEF DeliveryInv
  <2>2. /\ Ends(ms, "dropped") /\ inbox' = <<>>
        /\ UNCHANGED <<steering, followUps, call, held>>
    BY <1>5 DEF RunThrows, Throw
  <2>3. PICK stop \in Stops : transcript' = Append(transcript, Assistant(stop, 0))
    BY <1>5 DEF RunThrows, Throw, Stops
  <2>4. Assistant(stop, 0) \in Entry /\ Assistant(stop, 0).role = "assistant"
    BY <2>3, EntryTypes, AgentBounds
  <2>5. ASSUME NEW k \in Msgs PROVE Places(k)' = IF k \in ms THEN 0 ELSE Places(k)
    <3>1. /\ Count(k, steering) \in Nat /\ Count(k, followUps) \in Nat
          /\ Count(k, inbox) \in Nat /\ Count(User(k), transcript) \in Nat
          /\ Count(k, <<>>) = 0
      BY CountsTyped, CountEmpty
    <3>2. Assistant(stop, 0) # User(k)
      BY <2>4, EntryTypes
    <3>3. Count(User(k), transcript') = Count(User(k), transcript)
      BY <1>1, <2>3, <2>4, <3>1, <3>2, CountAppend
    <3>4. Places(k)' = Count(k, steering) + Count(k, followUps) + Count(User(k), transcript)
      BY <2>2, <3>1, <3>3 DEF Places
    <3>5. CASE k \in ms
      <4>1. Places(k) = 1 /\ Count(k, inbox) # 0
        BY <1>1, <1>2, <2>1, <3>5, PlacesDelivered DEF DeliveryInv
      <4>q. QED
        BY <3>1, <3>4, <3>5, <4>1 DEF Places
    <3>6. CASE k \notin ms
      <4>1. Count(k, inbox) = 0
        BY <1>1, <1>2, <3>6
      <4>q. QED
        BY <3>1, <3>4, <3>6, <4>1 DEF Places
    <3>q. QED
      BY <3>5, <3>6
  <2> HIDE DEF ms
  <2>6. Drops(ms, "dropped")
    BY <2>1, <2>2, <2>5 DEF Drops
  <2>q. QED
    BY <1>3, <2>1, <2>2, <2>6
<1>q. QED
  BY <1>4, <1>5

\* The other steps only move messages, and touch nothing that is prepared.
LEMMA MovesDelivery ==
  ASSUME TypeInv, DeliveryInv,
         \/ \E c \in Callers : Return(c) \/ RunRejects(c) \/ AfterRun(c) \/ Wake(c)
         \/ Abort \/ ModelReplies \/ SettleTool \/ Step
  PROVE  DeliveryInv'
<1> USE DEF queueVars, agentVars, loopVars, sessionVars
<1>1. /\ transcript \in Seq(Entry) /\ call \in [Callers -> Steps] /\ inbox \in Seq(Msgs)
  BY TypeParts DEF TypeInv, OtherTypes
<1>2. ASSUME Moves, HeldStays PROVE DeliveryInv'
  BY <1>2, DeliveryKinds, HeldStaysOnce DEF DeliveryInv
<1>3. ASSUME NEW c \in Callers, Return(c) \/ RunRejects(c) PROVE DeliveryInv'
  <2>1. /\ call[c] = "run" /\ pc \in {"end", "failed"} /\ inbox = <<>> /\ inbox' = <<>>
        /\ UNCHANGED <<steering, followUps, held, fate>> /\ transcript # <<>>
    BY <1>3 DEF Return, RunRejects, FinishRun, TypeInv
  <2>2. PICK step \in {"sleep", "post", "idle"} : call' = [call EXCEPT ![c] = step]
    BY <1>3 DEF Return, RunRejects, RetryLater, Goto
  <2>3. \/ transcript' = transcript
        \/ Last(transcript).role = "assistant" /\ transcript' = Front(transcript)
    BY <1>3 DEF Return, RunRejects, RetryLater, TypeInv
  <2>4. ASSUME NEW m \in Msgs PROVE Count(User(m), transcript') = Count(User(m), transcript)
    <3>1. CASE Last(transcript).role = "assistant" /\ transcript' = Front(transcript)
      <4>1. Last(transcript) # User(m)
        BY <3>1, EntryTypes
      <4>q. QED
        BY <1>1, <2>1, <3>1, <4>1, CountFront
    <3>q. QED
      BY <2>3, <3>1
  <2>5. Moves
    BY <2>1, <2>4 DEF Moves, Places
  <2>6. HeldStays
    BY <1>1, <2>1, <2>2 DEF HeldStays
  <2>q. QED
    BY <1>2, <2>5, <2>6
<1>4. ASSUME NEW c \in Callers, GoOn(c), call[c] \in {"post", "sleep"} PROVE DeliveryInv'
  <2>1. Moves
    BY <1>4, GoOnMoves
  <2>2. UNCHANGED <<held, fate>> /\ \E step \in {"run", "idle"} : call' = [call EXCEPT ![c] = step]
    BY <1>4 DEF GoOn, Goto
  <2>3. HeldStays
    BY <1>1, <1>4, <2>2 DEF HeldStays
  <2>q. QED
    BY <1>2, <2>1, <2>3
<1>5. ASSUME NEW c \in Callers, AfterRun(c) PROVE DeliveryInv'
  <2>1. CASE GoOn(c)
    BY <1>4, <1>5, <2>1 DEF AfterRun
  <2>2. CASE ~HasQueuedMessages
    <3>1. /\ Rests /\ UNCHANGED <<held, fate>> /\ call' = [call EXCEPT ![c] = "idle"]
      BY <1>5, <2>2 DEF AfterRun, Rests, Goto
    <3>2. Moves /\ HeldStays
      BY <1>1, <3>1, RestsPlaces DEF Moves, HeldStays
    <3>q. QED
      BY <1>2, <3>2
  <2>q. QED
    BY <1>5, <2>1, <2>2 DEF AfterRun
<1>6. ASSUME NEW c \in Callers, Wake(c) PROVE DeliveryInv'
  BY <1>4, <1>6 DEF Wake
<1>7. CASE Abort
  <2>1. /\ Rests /\ UNCHANGED <<held, fate>>
        /\ call' = call \/ call' = [call EXCEPT ![retrier] = "post"]
    BY <1>7 DEF Abort, Rests, Goto
  <2>2. Moves /\ HeldStays
    BY <1>1, <2>1, RestsPlaces DEF Moves, HeldStays
  <2>q. QED
    BY <1>2, <2>2
<1>8. CASE ModelReplies
  <2>1. PICK stop \in Stops, n \in 0..MaxCalls : ReplyEnds(stop, n)
    BY <1>8 DEF ModelReplies
  <2>2. /\ transcript' = Append(transcript, Assistant(stop, n))
        /\ UNCHANGED <<steering, followUps, inbox, call, held, fate>>
    BY <2>1 DEF ReplyEnds, Reply, Add
  <2>3. Assistant(stop, n) \in Entry /\ Assistant(stop, n).role = "assistant"
    BY <2>1, EntryTypes
  <2>4. ASSUME NEW m \in Msgs PROVE Count(User(m), transcript') = Count(User(m), transcript)
    <3>1. Assistant(stop, n) # User(m)
      BY <2>3, EntryTypes
    <3>2. Count(User(m), transcript) \in Nat
      BY CountsTyped
    <3>q. QED
      BY <1>1, <2>2, <2>3, <3>1, <3>2, CountAppend
  <2>5. Moves /\ HeldStays
    BY <2>2, <2>4 DEF Moves, Places, HeldStays
  <2>q. QED
    BY <1>2, <2>5
<1>9. CASE SettleTool
  <2>1. Rests /\ UNCHANGED <<call, held, fate>>
    BY <1>9 DEF SettleTool, Settle, Rests
  <2>2. Moves /\ HeldStays
    BY <2>1, RestsPlaces DEF Moves, HeldStays
  <2>q. QED
    BY <1>2, <2>2
<1>10. CASE Step
  <2>1. Moves /\ HeldStays
    BY <1>10, LoopMoves DEF Step, HeldStays
  <2>q. QED
    BY <1>2, <2>1
<1>q. QED
  BY <1>3, <1>5, <1>6, <1>7, <1>8, <1>9, <1>10

LEMMA DeliveryInit == Init => DeliveryInv
<1> SUFFICES ASSUME Init PROVE DeliveryInv
  OBVIOUS
<1>1. \A e : Count(e, <<>>) = 0
  BY CountEmpty
<1>2. \A m \in Msgs : Places(m) = 0 /\ fate[m] = "new"
  BY <1>1 DEF Init, AgentInit, Places
<1>3. DeliveredOnce
  BY <1>2, PlacesDelivered
<1>q. QED
  BY <1>3 DEF Init, DeliveryInv, HeldOnce

LEMMA DeliveryStep == TypeInv /\ DeliveryInv /\ [Next]_vars => DeliveryInv'
<1>1. ASSUME TypeInv, DeliveryInv, Next PROVE DeliveryInv'
  BY <1>1, PromptDelivery, PreparedDelivery, EndingDelivery, MovesDelivery DEF Next
<1>2. ASSUME TypeInv, DeliveryInv, UNCHANGED vars PROVE DeliveryInv'
  <2>1. Moves /\ HeldStays
    BY <1>2, RestsPlaces
    DEF vars, agentVars, loopVars, queueVars, sessionVars, Moves, HeldStays, Rests
  <2>q. QED
    BY <1>2, <2>1, DeliveryKinds, HeldStaysOnce DEF DeliveryInv
<1>q. QED
  BY <1>1, <1>2

\* An accepted message is in one place, once, and any other in none, however queues
\* are drained and whoever continues, retries, aborts or clears.
THEOREM AgentDeliversOnce == Spec => []DeliveredOnce
<1>1. DeliveryInv => DeliveredOnce
  BY DEF DeliveryInv
<1>q. QED
  BY <1>1, DeliveryInit, DeliveryStep, TypesAlways, PTL DEF Spec

-----------------------------------------------------------------------------
(* What is left in the queues                                               *)

\* A step of a run that goes on: the transcript may get an entry, a prompt if it is
\* the first one and no run threw.
RunGoes ==
  /\ pc # "idle" /\ pc' # "idle" /\ UNCHANGED call
  /\ \/ transcript' = transcript
     \/ \E e \in Entry : /\ transcript' = Append(transcript, e)
                         /\ transcript # <<>> \/ e.role = "user" \/ thrown' # 0
  /\ thrown' = thrown \/ thrown' # 0

RunBegins(c) ==
  /\ pc = "idle" /\ pc' # "idle" /\ call' = [call EXCEPT ![c] = "run"]
  /\ UNCHANGED <<transcript, thrown>>

\* Who has the run gives it up, and goes on to look at the queues unless it threw.
RunStops(c) ==
  /\ call[c] = "run" /\ pc # "idle" /\ pc' = "idle"
  /\ \E s \in {"post", "sleep", "idle"} :
       call' = [call EXCEPT ![c] = s] /\ (s = "idle" => thrown # 0)
  /\ transcript # <<>>
  /\ \/ transcript' = transcript
     \/ Last(transcript).role = "assistant" /\ transcript' = Front(transcript)
  /\ UNCHANGED <<steering, followUps, thrown>>

\* A call moves without the run; it stops looking at the queues only when they are
\* empty or somebody else runs.
CallMoves(c) ==
  /\ \E s \in Steps \ {"run"} :
       /\ call' = [call EXCEPT ![c] = s] /\ call[c] # "run"
       /\ \/ call[c] \notin {"post", "sleep"} \/ s = "post"
          \/ ~HasQueuedMessages \/ pc # "idle" \/ thrown # 0
  /\ UNCHANGED <<pc, transcript, steering, followUps, thrown>>

QueuesEmptied ==
  /\ ~HasQueuedMessages'
  /\ UNCHANGED <<pc, transcript, call, thrown>>

LEMMA StartKept ==
  ASSUME NEW t \in Seq(Entry), t # <<>>, t[1].role = "user"
  PROVE  /\ \A e \in Entry : Append(t, e)[1].role = "user"
         /\ Last(t).role = "assistant" => Front(t) # <<>> /\ Front(t)[1].role = "user"
<1>1. /\ Len(t) \in Nat \ {0} /\ Last(t) = t[Len(t)]
      /\ Front(t) \in Seq(Entry) /\ Len(Front(t)) = Len(t) - 1
      /\ \A i \in 1..(Len(t) - 1) : Front(t)[i] = t[i]
  BY FrontLast
<1>2. 1 \in 1..Len(t)
  BY <1>1
<1>3. \A e \in Entry : Append(t, e)[1] = t[1]
  BY <1>2, AppendProperties
<1>4. ASSUME Last(t).role = "assistant" PROVE Front(t) # <<>> /\ Front(t)[1] = t[1]
  <2>1. Len(t) # 1
    BY <1>1, <1>4
  <2>2. 1 \in 1..(Len(t) - 1) /\ Len(Front(t)) # 0
    BY <1>1, <2>1
  <2>q. QED
    BY <1>1, <2>2, EmptySeq
<1>q. QED
  BY <1>3, <1>4

LEMMA RunGoesQueue == ASSUME TypeInv, QueueInv, RunGoes PROVE QueueInv'
<1>1. transcript \in Seq(Entry) /\ call' = call
  BY TypeParts DEF TypeInv, RunGoes
<1>2. RunHasCaller'
  BY <1>1 DEF QueueInv, RunHasCaller, RunGoes
<1>3. PICK c \in Callers : call'[c] = "run"
  BY <1>1 DEF QueueInv, RunHasCaller, RunGoes
<1>4. ASSUME thrown' = 0, transcript' # <<>> PROVE transcript'[1].role = "user"
  <2>1. thrown = 0 /\ (transcript # <<>> => transcript[1].role = "user")
    BY <1>4 DEF RunGoes, QueueInv, QueueIsWatched
  <2>2. CASE transcript' = transcript
    BY <1>4, <2>1, <2>2
  <2>3. ASSUME NEW e \in Entry, transcript' = Append(transcript, e), transcript # <<>>
        PROVE  transcript'[1].role = "user"
    BY <1>1, <2>1, <2>3, StartKept
  <2>4. ASSUME NEW e \in Entry, transcript' = Append(transcript, e), transcript = <<>>,
               e.role = "user"
        PROVE  transcript'[1].role = "user"
    <3>1. <<>> \in Seq(Entry) /\ Len(<<>>) = 0
      BY EmptySeq
    <3>2. Append(<<>>, e)[Len(<<>>) + 1] = e
      BY <3>1, AppendProperties
    <3>q. QED
      BY <2>4, <3>1, <3>2
  <2>q. QED
    BY <1>4, <2>2, <2>3, <2>4 DEF RunGoes
<1>5. pc' # "idle"
  BY DEF RunGoes
<1>q. QED
  BY <1>2, <1>3, <1>4, <1>5 DEF QueueInv, QueueIsWatched

LEMMA RunBeginsQueue ==
  ASSUME TypeInv, QueueInv, NEW c \in Callers, RunBegins(c) PROVE QueueInv'
<1>1. /\ call'[c] = "run" /\ \A d \in Callers : d # c => call'[d] = call[d]
      /\ pc = "idle" /\ pc' # "idle" /\ UNCHANGED <<transcript, thrown>>
  BY DEF RunBegins, TypeInv, TypeOK
<1>2. RunHasCaller'
  BY <1>1 DEF QueueInv, RunHasCaller
<1>q. QED
  BY <1>1, <1>2 DEF QueueInv, QueueIsWatched

LEMMA RunStopsQueue ==
  ASSUME TypeInv, QueueInv, NEW c \in Callers, RunStops(c) PROVE QueueInv'
<1>1. PICK s \in {"post", "sleep", "idle"} :
        call' = [call EXCEPT ![c] = s] /\ (s = "idle" => thrown # 0)
  BY DEF RunStops
<1>2. call'[c] = s /\ \A d \in Callers : d # c => call'[d] = call[d]
  BY <1>1 DEF TypeInv, TypeOK
<1>3. /\ call[c] = "run" /\ pc # "idle" /\ pc' = "idle" /\ transcript # <<>>
      /\ UNCHANGED <<steering, followUps, thrown>>
  BY DEF RunStops
<1>4. RunHasCaller'
  BY <1>2, <1>3 DEF QueueInv, RunHasCaller
<1>5. ASSUME thrown' = 0 PROVE transcript' # <<>> /\ transcript'[1].role = "user"
  <2>1. transcript \in Seq(Entry) /\ transcript[1].role = "user"
    BY <1>3, <1>5, TypeParts DEF QueueInv, QueueIsWatched, TypeInv
  <2>q. QED
    BY <1>3, <2>1, StartKept DEF RunStops
<1>6. ASSUME thrown' = 0 PROVE call'[c] \in {"run", "post", "sleep"}
  BY <1>1, <1>2, <1>3, <1>6
<1>q. QED
  BY <1>4, <1>5, <1>6 DEF QueueInv, QueueIsWatched

LEMMA CallMovesQueue ==
  ASSUME TypeInv, QueueInv, NEW c \in Callers, CallMoves(c) PROVE QueueInv'
<1>1. PICK s \in Steps \ {"run"} :
        /\ call' = [call EXCEPT ![c] = s] /\ call[c] # "run"
        /\ \/ call[c] \notin {"post", "sleep"} \/ s = "post"
           \/ ~HasQueuedMessages \/ pc # "idle" \/ thrown # 0
  BY DEF CallMoves
<1>2. call'[c] = s /\ \A d \in Callers : d # c => call'[d] = call[d]
  BY <1>1 DEF TypeInv, TypeOK
<1>3. UNCHANGED <<pc, transcript, steering, followUps, thrown>>
  BY DEF CallMoves
<1>4. RunHasCaller'
  BY <1>1, <1>2, <1>3 DEF QueueInv, RunHasCaller
<1>5. HasQueuedMessages' <=> HasQueuedMessages
  BY <1>3 DEF HasQueuedMessages
<1>6. ASSUME thrown = 0, HasQueuedMessages
      PROVE  \E d \in Callers : call'[d] \in {"run", "post", "sleep"}
  <2>1. CASE pc # "idle"
    BY <1>4, <1>3, <2>1 DEF RunHasCaller
  <2>2. CASE s = "post"
    BY <1>2, <2>2
  <2>3. CASE call[c] \notin {"post", "sleep"}
    <3>1. PICK d \in Callers : call[d] \in {"run", "post", "sleep"}
      BY <1>6 DEF QueueInv, QueueIsWatched
    <3>2. d # c
      BY <1>1, <2>3, <3>1
    <3>q. QED
      BY <1>2, <3>1, <3>2
  <2>q. QED
    BY <1>1, <1>6, <2>1, <2>2, <2>3
<1>7. QueueIsWatched'
  BY <1>3, <1>5, <1>6 DEF QueueInv, QueueIsWatched
<1>q. QED
  BY <1>4, <1>7 DEF QueueInv

LEMMA QueuesEmptiedQueue == ASSUME QueueInv, QueuesEmptied PROVE QueueInv'
BY DEF QueueInv, RunHasCaller, QueueIsWatched, QueuesEmptied

\* Continuing starts a run, or there is nothing to continue with, or somebody runs.
LEMMA GoOnQueue ==
  ASSUME TypeInv, QueueInv, NEW c \in Callers, GoOn(c), call[c] \in {"post", "sleep"}
  PROVE  QueueInv'
<1>1. UNCHANGED <<transcript, thrown>>
  BY DEF GoOn
<1>2. CASE CannotContinue
  <2>1. /\ call' = [call EXCEPT ![c] = "idle"]
        /\ UNCHANGED <<pc, steering, followUps>>
    BY <1>2 DEF GoOn, Goto, queueVars
  <2>2. ~HasQueuedMessages \/ pc # "idle" \/ thrown # 0
    BY <1>2 DEF CannotContinue, HasQueuedMessages, QueueInv, QueueIsWatched
  <2>3. CallMoves(c)
    BY <1>1, <2>1, <2>2 DEF CallMoves, Steps
  <2>q. QED
    BY <2>3, CallMovesQueue
<1>3. CASE ~CannotContinue
  <2>1. RunBegins(c)
    BY <1>1, <1>3, ContinueTypes DEF RunBegins
  <2>q. QED
    BY <2>1, RunBeginsQueue
<1>q. QED
  BY <1>2, <1>3

LEMMA LoopQueue == ASSUME TypeInv, QueueInv, Step PROVE QueueInv'
<1>1. call' = call /\ transcript \in Seq(Entry) /\ inbox \in Seq(Msgs)
  BY TypeParts DEF Step, sessionVars, TypeInv, OtherTypes
<1>2. CASE EmitPrompt \/ Inject
  <2>1. /\ inbox # <<>> /\ transcript' = Append(transcript, User(Head(inbox)))
        /\ pc # "idle" /\ pc' = pc /\ thrown' = thrown
    BY <1>2 DEF EmitPrompt, Inject, Add
  <2>2. Head(inbox) \in Msgs
    BY <1>1, <2>1, HeadTailProperties
  <2>3. User(Head(inbox)) \in Entry /\ User(Head(inbox)).role = "user"
    BY <2>2, EntryTypes
  <2>4. RunGoes
    BY <1>1, <2>1, <2>3 DEF RunGoes
  <2>q. QED
    BY <2>4, RunGoesQueue
<1>3. CASE Report
  <2>1. /\ transcript' = Append(transcript, Result(batch.told + 1)) /\ transcript # <<>>
        /\ pc # "idle" /\ pc' = pc /\ thrown' = thrown
    BY <1>3 DEF Report, TypeInv
  <2>2. batch.told + 1 \in 1..MaxCalls
    BY <1>3, AgentBounds DEF TypeInv, TypeOK, BatchInOrder, Report, Answering
  <2>3. RunGoes
    BY <1>1, <2>1, <2>2, EntryTypes DEF RunGoes
  <2>q. QED
    BY <2>3, RunGoesQueue
<1>4. CASE FirstPoll \/ Ask \/ Prepare \/ NextSibling \/ Reported \/ NextTurn
  <2>1. pc # "idle" /\ transcript' = transcript /\ thrown' = thrown
    BY <1>4 DEF FirstPoll, Ask, Prepare, NextSibling, Reported, NextTurn
  <2>2. pc' # "idle"
    BY <1>4 DEF FirstPoll, Ask, Prepare, NextSibling, Reported, NextTurn
  <2>3. RunGoes
    BY <1>1, <2>1, <2>2 DEF RunGoes
  <2>q. QED
    BY <2>3, RunGoesQueue
<1>q. QED
  BY <1>2, <1>3, <1>4 DEF Step, LoopStep

LEMMA QueueNext == ASSUME TypeInv, QueueInv, Next PROVE QueueInv'
<1>1. ASSUME NEW c \in Callers, NEW m \in Msgs, PromptStreaming(c, m) PROVE QueueInv'
  BY <1>1, RunGoesQueue DEF PromptStreaming, RunGoes, loopVars
<1>2. ASSUME NEW c \in Callers, NEW m \in Msgs, PromptIdle(c, m) PROVE QueueInv'
  BY <1>2, CallMovesQueue DEF PromptIdle, CallMoves, Goto, Steps, agentVars, queueVars, loopVars
<1>3. ASSUME NEW c \in Callers, StartRun(c) PROVE QueueInv'
  <2>1. CASE RunPrompts(<<held[c]>>, FALSE) /\ Goto(c, "run")
    BY <1>3, <2>1, RunBeginsQueue DEF StartRun, RunPrompts, RunBegins, Goto
  <2>2. CASE Goto(c, "idle") /\ UNCHANGED <<context, inbox, skip, pc>>
    BY <1>3, <2>2, CallMovesQueue DEF StartRun, CallMoves, Goto, Steps, queueVars
  <2>q. QED
    BY <1>3, <2>1, <2>2 DEF StartRun
<1>4. ASSUME NEW c \in Callers, RefusePrompt(c) PROVE QueueInv'
  BY <1>4, CallMovesQueue DEF RefusePrompt, CallMoves, Goto, Steps, agentVars, queueVars, loopVars
<1>5. ASSUME NEW c \in Callers, Return(c) PROVE QueueInv'
  <2>1. /\ call[c] = "run" /\ pc # "idle" /\ pc' = "idle" /\ transcript # <<>>
        /\ UNCHANGED <<steering, followUps, thrown>>
    BY <1>5 DEF Return, FinishRun, queueVars, TypeInv
  <2>2. \E s \in {"post", "sleep", "idle"} :
          call' = [call EXCEPT ![c] = s] /\ (s = "idle" => thrown # 0)
    BY <1>5 DEF Return, RetryLater, Goto
  <2>3. \/ transcript' = transcript
        \/ Last(transcript).role = "assistant" /\ transcript' = Front(transcript)
    BY <1>5 DEF Return, RetryLater
  <2>q. QED
    BY <2>1, <2>2, <2>3, RunStopsQueue DEF RunStops
<1>6. ASSUME NEW c \in Callers, RunRejects(c) PROVE QueueInv'
  <2>1. /\ call[c] = "run" /\ pc = "failed" /\ pc' = "idle" /\ transcript # <<>>
        /\ UNCHANGED <<steering, followUps, thrown>>
    BY <1>6 DEF RunRejects, FinishRun, queueVars, TypeInv
  <2>2. call' = [call EXCEPT ![c] = "idle"] /\ thrown # 0
    BY <1>6, AgentBounds DEF RunRejects, Goto, TypeInv, TypeOK
  <2>3. \/ transcript' = transcript
        \/ Last(transcript).role = "assistant" /\ transcript' = Front(transcript)
    BY <1>6 DEF RunRejects, TypeInv
  <2>q. QED
    BY <2>1, <2>2, <2>3, RunStopsQueue DEF RunStops
<1>7. ASSUME NEW c \in Callers, AfterRun(c) PROVE QueueInv'
  <2>1. CASE GoOn(c)
    BY <1>7, <2>1, GoOnQueue DEF AfterRun
  <2>2. CASE ~HasQueuedMessages
    BY <1>7, <2>2, CallMovesQueue
    DEF AfterRun, CallMoves, Goto, Steps, agentVars, queueVars, loopVars
  <2>q. QED
    BY <1>7, <2>1, <2>2 DEF AfterRun
<1>8. ASSUME NEW c \in Callers, Wake(c) PROVE QueueInv'
  BY <1>8, GoOnQueue DEF Wake
<1>9. CASE Abort
  <2>1. UNCHANGED <<transcript, pc, steering, followUps, thrown>>
    BY <1>9 DEF Abort, queueVars, loopVars
  <2>2. CASE retrier = NoCaller
    BY <1>9, <2>1, <2>2, RunGoesQueue DEF Abort, RunGoes
  <2>3. CASE retrier # NoCaller
    <3>1. retrier \in Callers /\ call[retrier] = "sleep" /\ call' = [call EXCEPT ![retrier] = "post"]
      BY <1>9, <2>3 DEF Abort, Goto, TypeInv, TypeOK
    <3>2. CallMoves(retrier)
      BY <2>1, <3>1 DEF CallMoves, Steps
    <3>q. QED
      BY <3>1, <3>2, CallMovesQueue
  <2>q. QED
    BY <2>2, <2>3
<1>10. CASE ClearQueue
  BY <1>10, QueuesEmptiedQueue DEF ClearQueue, QueuesEmptied, HasQueuedMessages, loopVars
<1>11. CASE ModelReplies
  <2>1. PICK stop \in Stops, n \in 0..MaxCalls : ReplyEnds(stop, n)
    BY <1>11 DEF ModelReplies
  <2>2. /\ pc # "idle" /\ pc' # "idle" /\ transcript # <<>>
        /\ transcript' = Append(transcript, Assistant(stop, n))
        /\ UNCHANGED <<call, thrown>>
    BY <2>1 DEF ReplyEnds, Reply, Add, TypeInv
  <2>3. RunGoes
    BY <2>2, EntryTypes DEF RunGoes
  <2>q. QED
    BY <2>3, RunGoesQueue
<1>12. CASE SettleTool
  BY <1>12, RunGoesQueue DEF SettleTool, Settle, RunGoes, sessionVars
<1>13. CASE RunThrows
  <2>1. /\ pc # "idle" /\ pc' # "idle" /\ UNCHANGED call /\ thrown' = thrown + 1
        /\ transcript' = Append(transcript, Assistant(IF aborted THEN "aborted" ELSE "error", 0))
    BY <1>13 DEF RunThrows, Throw
  <2>2. thrown' # 0
    BY <2>1, AgentBounds DEF TypeInv, TypeOK
  <2>3. Assistant(IF aborted THEN "aborted" ELSE "error", 0) \in Entry
    BY EntryTypes, AgentBounds DEF Stops
  <2>4. RunGoes
    BY <2>1, <2>2, <2>3 DEF RunGoes
  <2>q. QED
    BY <2>4, RunGoesQueue
<1>14. CASE Step
  BY <1>14, LoopQueue
<1>q. QED
  BY <1>1, <1>2, <1>3, <1>4, <1>5, <1>6, <1>7, <1>8, <1>9, <1>10, <1>11, <1>12, <1>13, <1>14
  DEF Next

LEMMA QueueInit == Init => QueueInv
BY DEF Init, AgentInit, QueueInv, RunHasCaller, QueueIsWatched, HasQueuedMessages

LEMMA QueueStep == TypeInv /\ QueueInv /\ [Next]_vars => QueueInv'
<1>1. ASSUME TypeInv, QueueInv, UNCHANGED vars PROVE QueueInv'
  BY <1>1
  DEF vars, agentVars, loopVars, queueVars, sessionVars, QueueInv, RunHasCaller,
      QueueIsWatched, HasQueuedMessages
<1>q. QED
  BY <1>1, QueueNext

\* When every caller of a session has returned, nothing is left in its queues, unless
\* a run threw: whoever runs, retries or waits looks at them before it returns.
THEOREM AgentQueuesEmpty == Spec => []NothingLeftQueued
<1>1. QueueInv => NothingLeftQueued
  BY DEF QueueInv, QueueIsWatched, NothingLeftQueued
<1>q. QED
  BY <1>1, QueueInit, QueueStep, TypesAlways, PTL DEF Spec
=============================================================================

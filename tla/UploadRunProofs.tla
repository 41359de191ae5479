-------------------------- MODULE UploadRunProofs --------------------------
(* Why a run of the upload queue ends: it always has something it can go on    *)
(* with, and each of its steps brings it nearer to its end, for any number of  *)
(* entries, albums and workers, and any limits.                                *)
EXTENDS UploadQueueProofs, FiniteSetTheorems

\* The queue, and so every snapshot taken of it, holds finitely many entries.
Finite ==
    /\ IsFiniteSet(queued)
    /\ IsFiniteSet(toPresign) /\ IsFiniteSet(sending) /\ IsFiniteSet(todo)

RInv == IInv /\ Finite

-----------------------------------------------------------------------------
\* A finite set has a subset of every size up to its own: what cutting a chunk of
\* MAX_FILES_PER_PRESIGN off a longer list amounts to.
LEMMA SubsetOfSize ==
    ASSUME NEW S, IsFiniteSet(S), NEW n \in Nat, n <= Cardinality(S)
    PROVE  \E T \in SUBSET S : Cardinality(T) = n
<1>1. Cardinality(S) \in Nat /\ ExistsBijection(1..Cardinality(S), S)
  BY FS_CardinalityType
<1>2. PICK f \in Bijection(1..Cardinality(S), S) : TRUE
  BY <1>1 DEF ExistsBijection
<1>3. /\ f \in [1..Cardinality(S) -> S]
      /\ \A j, k \in 1..Cardinality(S) : f[j] = f[k] => j = k
  BY <1>2 DEF Bijection, Injection, IsInjective
<1>4. 1..n \subseteq 1..Cardinality(S)
  BY <1>1
<1> DEFINE T == {f[k] : k \in 1..n}
           g == [k \in 1..n |-> f[k]]
<1>5. T \in SUBSET S
  BY <1>3, <1>4
<1>6. g \in [1..n -> T] /\ \A t \in T : \E k \in 1..n : g[k] = t
  OBVIOUS
<1>7. \A j, k \in 1..n : g[j] = g[k] => j = k
  BY <1>3, <1>4
<1>8. g \in Bijection(1..n, T)
  BY <1>6, <1>7 DEF Bijection, Injection, Surjection, IsInjective
<1>9. Cardinality(T) = n
  <2>1. ExistsBijection(1..n, T)
    BY <1>8 DEF ExistsBijection
  <2> HIDE DEF T
  <2> QED BY <2>1, FS_CountingElements
<1> QED BY <1>5, <1>9

\* Whatever waits for a presign, a next chunk can be cut from it.
LEMMA SomeChunk ==
    ASSUME TypeOK, IsFiniteSet(toPresign), toPresign # {}
    PROVE  Chunks # {}
<1>1. PICK i \in toPresign : TRUE
  OBVIOUS
<1> DEFINE e == EventOf[i]
           waiting == {j \in toPresign : EventOf[j] = e}
<1>2. e \in Events
  BY QueueAssumption DEF TypeOK
<1>3. IsFiniteSet(waiting) /\ waiting # {}
  BY <1>1, FS_Subset
<1>4. Cardinality(waiting) \in Nat
  BY <1>3, FS_CardinalityType
<1>5. CASE Cardinality(waiting) < MAX_FILES_PER_PRESIGN
  <2>1. waiting \in Chunks
    BY <1>2, <1>3, <1>5 DEF Chunks
  <2> QED BY <2>1
<1>6. CASE MAX_FILES_PER_PRESIGN <= Cardinality(waiting)
  <2>1. MAX_FILES_PER_PRESIGN \in Nat \ {0}
    BY QueueAssumption
  <2>2. PICK c \in SUBSET waiting : Cardinality(c) = MAX_FILES_PER_PRESIGN
    BY <1>3, <1>6, <2>1, SubsetOfSize
  <2>3. c # {}
    BY <2>1, <2>2, FS_EmptySet
  <2>4. c \in Chunks
    BY <1>2, <2>2, <2>3 DEF Chunks
  <2> QED BY <2>4
<1> QED BY <1>4, <1>5, <1>6, QueueAssumption

-----------------------------------------------------------------------------
\* What a step adds to the queue and its snapshots comes from the queue, but for
\* the one entry of an Add.
LEMMA SnapshotsOfQueue ==
    ASSUME [Next]_vars
    PROVE  /\ queued' \subseteq queued \/ \E i : queued' = queued \cup {i}
           /\ toPresign' \subseteq toPresign \cup queued
           /\ sending' \subseteq sending \cup toPresign
           /\ todo' \subseteq todo \cup queued
<1>1. CASE RunStep
  BY <1>1
  DEF RunStep, SendChunk, Chunks, Granted, PresignFailed, BeginWork, TakeExpired, TakeToPut,
      TakeToComplete, PutOk, PutExpired, PutFailed, CompleteOk, CompleteFailed, EndRun,
      GoWait, GoRepresign, BackoffOver, BeginRound, Held, run, server
<1>2. CASE Outside
  BY <1>2
  DEF Outside, Add, Forget, Prune, RetryFailed, Run, Restart, Rescue, BeginRound, Held, run,
      server
<1>3. CASE UNCHANGED vars
  BY <1>3 DEF vars
<1> QED BY <1>1, <1>2, <1>3 DEF Next

LEMMA FiniteKeeps == Finite /\ [Next]_vars => Finite'
<1> SUFFICES ASSUME Finite, [Next]_vars PROVE Finite'
  OBVIOUS
<1>1. IsFiniteSet(queued')
  <2>1. CASE queued' \subseteq queued
    BY <2>1, FS_Subset DEF Finite
  <2>2. CASE \E i : queued' = queued \cup {i}
    BY <2>2, FS_AddElement DEF Finite
  <2> QED BY <2>1, <2>2, SnapshotsOfQueue
<1>2. /\ IsFiniteSet(toPresign \cup queued)
      /\ IsFiniteSet(sending \cup toPresign)
      /\ IsFiniteSet(todo \cup queued)
  BY FS_Union DEF Finite
<1>3. IsFiniteSet(toPresign') /\ IsFiniteSet(sending') /\ IsFiniteSet(todo')
  BY <1>2, SnapshotsOfQueue, FS_Subset
<1> QED BY <1>1, <1>3 DEF Finite

LEMMA RunInvariance == Spec => []RInv
<1>1. Init => RInv
  BY InitHolds, FS_EmptySet DEF RInv, Finite, Init
<1>2. RInv /\ [Next]_vars => RInv'
  BY NextKeeps, FiniteKeeps DEF RInv
<1> QED BY <1>1, <1>2, PTL DEF Spec

-----------------------------------------------------------------------------
LEMMA SomethingToDo ==
    ASSUME RInv
    PROVE  RunNeverStuck
<1> SUFFICES ASSUME running PROVE RunNeverStuck
  BY DEF RunNeverStuck
<1>1. pc \in {"presigning", "working", "waiting"}
  BY DEF RInv, IInv, TypeOK, Phases
<1>2. CASE pc = "presigning"
  BY <1>2, SomeChunk DEF RInv, IInv, Finite, RunNeverStuck
<1>3. CASE pc = "working"
  <2>1. CASE \E w \in Workers : stage[w] # "idle"
    BY <1>3, <2>1 DEF RunNeverStuck
  <2>2. CASE \A w \in Workers : stage[w] = "idle"
    <3>1. \A w \in Workers : work[w] = NoItem
      BY <2>2 DEF RInv, IInv, Phases
    <3>2. CASE todo = {} \/ paused
      BY <1>3, <3>1, <3>2 DEF RunNeverStuck, RoundOver
    <3>3. CASE todo # {} /\ ~paused
      <4>1. PICK w \in Workers, i \in Items : i \in todo
        BY <3>3, QueueAssumption DEF RInv, IInv, TypeOK
      <4>2. CanTake(w, i)
        BY <1>3, <3>1, <3>3, <4>1 DEF CanTake
      <4> QED BY <1>3, <4>2 DEF RunNeverStuck
    <3> QED BY <3>2, <3>3
  <2> QED BY <2>1, <2>2
<1>4. CASE pc = "waiting"
  BY <1>4 DEF RunNeverStuck
<1> QED BY <1>1, <1>2, <1>3, <1>4

\* A run is never left with nothing under way and nothing it can go on with.
THEOREM NeverStuck == Spec => []RunNeverStuck
BY RunInvariance, SomethingToDo, PTL

-----------------------------------------------------------------------------
LEMMA WorkersCounted ==
    /\ IsFiniteSet(Busy) /\ Cardinality(Busy) \in Nat
    /\ IsFiniteSet(Putting) /\ Cardinality(Putting) \in Nat
<1>1. Busy \in SUBSET Workers /\ Putting \in SUBSET Workers /\ IsFiniteSet(Workers)
  BY QueueAssumption DEF Busy, Putting
<1> QED BY <1>1, FS_Subset, FS_CardinalityType

LEMMA EntriesCounted ==
    ASSUME Finite
    PROVE  /\ Cardinality(toPresign) \in Nat /\ Cardinality(sending) \in Nat
           /\ Cardinality(todo) \in Nat
BY FS_CardinalityType DEF Finite

\* What a step takes off a set, its count loses.
LEMMA Fewer ==
    ASSUME NEW S, IsFiniteSet(S), NEW T \in SUBSET S
    PROVE  /\ Cardinality(S) \in Nat /\ Cardinality(T) \in Nat
           /\ Cardinality(S \ T) = Cardinality(S) - Cardinality(T)
           /\ T # {} => Cardinality(T) # 0
<1>1. IsFiniteSet(T)
  BY FS_Subset
<1>2. Cardinality(S \ T) = Cardinality(S) - Cardinality(S \cap T)
  BY FS_Difference
<1>3. S \cap T = T
  OBVIOUS
<1>4. T # {} => Cardinality(T) # 0
  BY <1>1, FS_EmptySet
<1>5. Cardinality(S) \in Nat /\ Cardinality(T) \in Nat
  BY <1>1, FS_CardinalityType
<1> QED BY <1>2, <1>3, <1>4, <1>5

LEMMA OneFewer ==
    ASSUME NEW S, IsFiniteSet(S), NEW x
    PROVE  /\ Cardinality(S) \in Nat /\ Cardinality(S \ {x}) \in Nat
           /\ Cardinality(S \ {x}) <= Cardinality(S)
           /\ x \in S => Cardinality(S \ {x}) = Cardinality(S) - 1
<1>1. Cardinality(S \ {x}) = IF x \in S THEN Cardinality(S) - 1 ELSE Cardinality(S)
  BY FS_RemoveElement
<1>2. Cardinality(S) \in Nat /\ Cardinality(S \ {x}) \in Nat
  BY FS_RemoveElement, FS_CardinalityType
<1> QED BY <1>1, <1>2

LEMMA OneMore ==
    ASSUME NEW S, IsFiniteSet(S), NEW x
    PROVE  /\ Cardinality(S) \in Nat /\ Cardinality(S \cup {x}) \in Nat
           /\ Cardinality(S \cup {x}) <= Cardinality(S) + 1
<1>1. Cardinality(S \cup {x}) = IF x \in S THEN Cardinality(S) ELSE Cardinality(S) + 1
  BY FS_AddElement
<1>2. Cardinality(S) \in Nat
  BY FS_CardinalityType
<1> QED BY <1>1, <1>2

-----------------------------------------------------------------------------
\* A step that leaves the round where it is and has fewer requests to hear of.
LEMMA NearerInRound ==
    ASSUME UNCHANGED <<represigns, retries, pc>>, RequestsLeft' < RequestsLeft
    PROVE  Nearer
BY DEF Nearer, RoundsLeft, PhasesLeft

\* A chunk's request counts less in flight than its entries did before it.
LEMMA SendChunkNears ==
    ASSUME Finite, SendChunk
    PROVE  Nearer
<1>1. PICK c \in SUBSET toPresign : c # {} /\ sending' = c /\ toPresign' = toPresign \ c
  BY DEF SendChunk, Chunks
<1>2. sending = {} /\ UNCHANGED <<represigns, retries, pc, todo, stage>>
  BY DEF SendChunk, run
<1>3. /\ Cardinality(toPresign') = Cardinality(toPresign) - Cardinality(c)
      /\ Cardinality(toPresign) \in Nat /\ Cardinality(c) \in Nat /\ Cardinality(c) # 0
  BY <1>1, Fewer DEF Finite
<1>4. Cardinality(sending) = 0 /\ Cardinality(sending') = Cardinality(c)
  BY <1>1, <1>2, FS_EmptySet
<1>5. UNCHANGED <<Cardinality(todo), Cardinality(Busy), Cardinality(Putting)>>
  BY <1>2 DEF Busy, Putting
<1>6. RequestsLeft' < RequestsLeft
  BY <1>3, <1>4, <1>5, WorkersCounted, EntriesCounted DEF RequestsLeft
<1> QED BY <1>2, <1>6, NearerInRound

\* Granted or refused, a chunk that was heard of is out of the way.
LEMMA ChunkAnswerNears ==
    ASSUME Finite, sending # {}, sending' = {}, toPresign' \subseteq toPresign,
           UNCHANGED <<represigns, retries, pc, todo, stage>>
    PROVE  Nearer
<1>1. /\ Cardinality(toPresign) \in Nat /\ Cardinality(toPresign') \in Nat
      /\ Cardinality(toPresign') <= Cardinality(toPresign)
  BY FS_Subset, FS_CardinalityType DEF Finite
<1>2. Cardinality(sending) # 0 /\ Cardinality(sending') = 0
  BY FS_EmptySet DEF Finite
<1>3. UNCHANGED <<Cardinality(todo), Cardinality(Busy), Cardinality(Putting)>>
  BY DEF Busy, Putting
<1>4. Cardinality(sending) \in Nat /\ Cardinality(todo) \in Nat
  BY EntriesCounted
<1>5. RequestsLeft' < RequestsLeft
  BY <1>1, <1>2, <1>3, <1>4, WorkersCounted DEF RequestsLeft
<1> QED BY <1>5, NearerInRound

\* A worker that takes an entry has at most two requests of it to hear of.
LEMMA TakeNears ==
    ASSUME TypeOK, Finite, NEW w \in Workers, NEW i \in todo, todo' = todo \ {i},
           NEW next, stage[w] = "idle", stage' = [stage EXCEPT ![w] = next],
           UNCHANGED <<represigns, retries, pc, toPresign, sending>>
    PROVE  Nearer
<1>1. Cardinality(todo) \in Nat /\ Cardinality(todo') = Cardinality(todo) - 1
  BY OneFewer DEF Finite
<1>2. Busy' = Busy \/ Busy' = Busy \cup {w}
  BY DEF Busy, TypeOK
<1>3. Cardinality(Busy') \in Nat /\ Cardinality(Busy') <= Cardinality(Busy) + 1
  <2>1. /\ Cardinality(Busy) \in Nat /\ Cardinality(Busy \cup {w}) \in Nat
        /\ Cardinality(Busy \cup {w}) <= Cardinality(Busy) + 1
    BY WorkersCounted, OneMore
  <2> QED BY <1>2, <2>1
<1>4. Putting' = Putting \/ Putting' = Putting \cup {w}
  BY DEF Putting, TypeOK
<1>5. Cardinality(Putting') \in Nat /\ Cardinality(Putting') <= Cardinality(Putting) + 1
  <2>1. /\ Cardinality(Putting) \in Nat /\ Cardinality(Putting \cup {w}) \in Nat
        /\ Cardinality(Putting \cup {w}) <= Cardinality(Putting) + 1
    BY WorkersCounted, OneMore
  <2> QED BY <1>4, <2>1
<1>6. UNCHANGED <<Cardinality(toPresign), Cardinality(sending)>>
  OBVIOUS
<1>7. RequestsLeft' < RequestsLeft
  BY <1>1, <1>3, <1>5, <1>6, WorkersCounted, EntriesCounted DEF RequestsLeft
<1> QED BY <1>7, NearerInRound

\* After a PUT there is at most the confirmation to hear of, after that nothing.
LEMMA AnswerNears ==
    ASSUME TypeOK, Finite, NEW w \in Workers, stage[w] # "idle",
           \/ stage' = [stage EXCEPT ![w] = "idle"]
           \/ stage[w] = "put" /\ stage' = [stage EXCEPT ![w] = "complete"],
           UNCHANGED <<represigns, retries, pc, toPresign, sending, todo>>
    PROVE  Nearer
<1>1. /\ \/ Busy' = Busy \ {w} /\ w \in Busy
         \/ Busy' = Busy /\ w \in Putting
      /\ Putting' = Putting \ {w}
  BY DEF Busy, Putting, TypeOK
<1>2. /\ Cardinality(Busy') \in Nat /\ Cardinality(Putting') \in Nat
      /\ Cardinality(Busy') + Cardinality(Putting') < Cardinality(Busy) + Cardinality(Putting)
  BY <1>1, WorkersCounted, OneFewer
<1>3. UNCHANGED <<Cardinality(toPresign), Cardinality(sending), Cardinality(todo)>>
  OBVIOUS
<1>4. RequestsLeft' < RequestsLeft
  BY <1>2, <1>3, WorkersCounted, EntriesCounted DEF RequestsLeft
<1> QED BY <1>4, NearerInRound

-----------------------------------------------------------------------------
\* The steps that leave one stretch of a round for the next.
LEMMA TurnNears ==
    ASSUME RInv, BeginWork \/ GoWait \/ GoRepresign \/ BackoffOver
    PROVE  Nearer
<1>1. /\ retries \in Nat /\ retries < MAX_ATTEMPTS /\ MAX_ATTEMPTS \in Nat
      /\ represigns \in Nat /\ represigns <= MAX_REPRESIGN_ROUNDS
      /\ MAX_REPRESIGN_ROUNDS \in Nat
  BY QueueAssumption DEF RInv, IInv, TypeOK
<1>2. CASE BeginWork
  BY <1>2 DEF BeginWork, Nearer, RoundsLeft, PhasesLeft
<1>3. CASE BackoffOver
  BY <1>3 DEF BackoffOver, BeginRound, Nearer, RoundsLeft, PhasesLeft
<1>4. CASE GoWait
  <2>1. /\ retries' = retries + 1
        /\ represigns' = represigns \/ represigns' = represigns + 1
    BY <1>4 DEF GoWait, Spun
  <2>2. RoundsLeft' < RoundsLeft
    BY <1>1, <2>1 DEF RoundsLeft
  <2> QED BY <2>2 DEF Nearer
<1>5. CASE GoRepresign
  <2>1. retries' = retries /\ represigns' = represigns + 1
    BY <1>5 DEF GoRepresign, Spun
  <2>2. RoundsLeft' < RoundsLeft
    BY <1>1, <2>1 DEF RoundsLeft
  <2> QED BY <2>2 DEF Nearer
<1> QED BY <1>2, <1>3, <1>4, <1>5

LEMMA RunStepNears ==
    ASSUME RInv, RunStep, running'
    PROVE  Nearer
<1>1. TypeOK /\ Finite
  BY DEF RInv, IInv
<1>2. CASE SendChunk
  BY <1>1, <1>2, SendChunkNears
<1>3. CASE Granted
  BY <1>1, <1>3, ChunkAnswerNears DEF Granted, run
<1>4. ASSUME NEW err \in Errors, PresignFailed(err) PROVE Nearer
  <2>1. toPresign' \subseteq toPresign
    BY <1>4 DEF PresignFailed
  <2> QED BY <1>1, <1>4, <2>1, ChunkAnswerNears DEF PresignFailed
<1>5. ASSUME NEW w \in Workers, NEW i \in Items,
             TakeExpired(w, i) \/ TakeToPut(w, i) \/ TakeToComplete(w, i)
      PROVE  Nearer
  <2>1. /\ i \in todo /\ todo' = todo \ {i} /\ stage[w] = "idle"
        /\ UNCHANGED <<represigns, retries, pc, toPresign, sending>>
    BY <1>5 DEF TakeExpired, TakeToPut, TakeToComplete, CanTake, RInv, IInv, Phases, run
  <2>2. PICK next : stage' = [stage EXCEPT ![w] = next]
    <3>1. CASE TakeExpired(w, i)
      <4>1. stage' = [stage EXCEPT ![w] = stage[w]]
        BY <1>1, <3>1 DEF TakeExpired, TypeOK
      <4> QED BY <4>1
    <3>2. CASE TakeToPut(w, i)
      BY <3>2 DEF TakeToPut
    <3>3. CASE TakeToComplete(w, i)
      BY <3>3 DEF TakeToComplete
    <3> QED BY <1>5, <3>1, <3>2, <3>3
  <2> QED BY <1>1, <2>1, <2>2, TakeNears
<1>6. ASSUME NEW w \in Workers, NEW err,
             \/ PutOk(w) \/ PutExpired(w) \/ CompleteOk(w)
             \/ PutFailed(w, err) \/ CompleteFailed(w, err)
      PROVE  Nearer
  <2>1. stage[w] # "idle"
    BY <1>6 DEF PutOk, PutExpired, PutFailed, CompleteOk, CompleteFailed
  <2>2. \/ stage' = [stage EXCEPT ![w] = "idle"]
        \/ stage[w] = "put" /\ stage' = [stage EXCEPT ![w] = "complete"]
    BY <1>6 DEF PutOk, PutExpired, PutFailed, CompleteOk, CompleteFailed, Free
  <2>3. UNCHANGED <<represigns, retries, pc, toPresign, sending, todo>>
    BY <1>6 DEF PutOk, PutExpired, PutFailed, CompleteOk, CompleteFailed, run
  <2> QED BY <1>1, <2>1, <2>2, <2>3, AnswerNears
<1>7. CASE BeginWork \/ GoWait \/ GoRepresign \/ BackoffOver
  BY <1>7, TurnNears
<1>8. ~EndRun
  BY DEF EndRun
<1> QED BY <1>2, <1>3, <1>4, <1>5, <1>6, <1>7, <1>8 DEF RunStep

\* What is done to the queue from outside leaves the run's own state alone.
LEMMA OutsideWaits ==
    ASSUME Outside, running, running'
    PROVE  UNCHANGED <<RoundsLeft, PhasesLeft, RequestsLeft>>
<1>1. UNCHANGED <<run, toPresign, sending, todo, stage>>
  BY DEF Outside, Add, Forget, Prune, RetryFailed, Run, Restart, Rescue
<1> QED BY <1>1 DEF run, RoundsLeft, PhasesLeft, RequestsLeft, Busy, Putting

\* Every step of a run brings it nearer to its end, and nothing puts the end off.
THEOREM GetsNearer == Spec => RunGetsNearer
<1>1. RInv /\ [Next]_vars =>
        [running /\ running' =>
            /\ RunStep => Nearer
            /\ Outside => UNCHANGED <<RoundsLeft, PhasesLeft, RequestsLeft>>]_vars
  BY RunStepNears, OutsideWaits
<1> QED BY <1>1, RunInvariance, PTL DEF Spec, RunGetsNearer
=============================================================================

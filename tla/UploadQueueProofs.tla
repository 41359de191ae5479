------------------------- MODULE UploadQueueProofs -------------------------
(* Safety of the upload queue for any number of entries, albums and workers,   *)
(* and any attempt, represign and chunk limits.                                *)
EXTENDS UploadQueue, TLAPS

\* Where run() is decides which of its snapshots may be non-empty.
Phases ==
    /\ running <=> pc # "idle"
    /\ pc # "presigning" => toPresign = {} /\ sending = {}
    /\ pc # "working" => todo = {}
    /\ paused => pc # "waiting" /\ toPresign = {}
    /\ \A w \in Workers : stage[w] # "idle" => pc = "working"
    /\ \A w \in Workers : work[w] = NoItem <=> stage[w] = "idle"

\* What a snapshot or a worker holds is still in the state it was taken in.
HeldStatus ==
    /\ \A i \in toPresign \cup sending : Status(i) = "pending"
    /\ \A i \in todo : Status(i) \in {"presigned", "uploaded"}
    /\ \A w \in Workers : stage[w] = "put" => Status(work[w]) = "presigned"
    /\ \A w \in Workers : stage[w] = "complete" => Status(work[w]) = "uploaded"

\* An entry the queue takes for uploaded has its bytes on the server's side.
Uploaded == \A i \in Items : Status(i) = "uploaded" => received[i] # "nothing"

IInv ==
    /\ TypeOK /\ Phases /\ HeldStatus /\ Uploaded
    /\ NoSharedWork /\ ExhaustedRests /\ NoEmptyRowLeft /\ DoneMeansStored

-----------------------------------------------------------------------------
\* A run begins within its bounds.
LEMMA NoRounds == 0 \in 0..MAX_REPRESIGN_ROUNDS /\ 0 \in 0..MAX_ATTEMPTS - 1
BY QueueAssumption

\* settle() spends at most one attempt and never leaves an entry to be tried again
\* with all of them spent.
LEMMA SettleType ==
    ASSUME NEW it \in QueueItem, it.attempts < MAX_ATTEMPTS, NEW err
    PROVE  /\ Settle(it, err) \in QueueItem
           /\ Settle(it, err).photoId = it.photoId
           /\ Settle(it, err).status \in {it.status, "stale", "failed", "pending"}
           /\ Settle(it, err).status \notin {"failed", "stale"} =>
                 Settle(it, err).attempts < MAX_ATTEMPTS
BY QueueAssumption DEF Settle, QueueItem, QueueItemStatus

\* The server's side only ever has more of an entry, and has what it is sent.
LEMMA ReceiveType ==
    ASSUME TypeOK, NEW what \in {"bytes", "confirmation"}, NEW is
    PROVE  /\ Receive(what, is) \in [Items -> {"nothing", "bytes", "confirmation"}]
           /\ \A i \in Items :
                 /\ received[i] # "nothing" => Receive(what, is)[i] # "nothing"
                 /\ received[i] = "confirmation" => Receive(what, is)[i] = "confirmation"
BY DEF TypeOK, Receive

\* The server opens at most one row per request, and none for an entry whose row
\* can still take its bytes.
LEMMA RowsType ==
    ASSUME TypeOK, NEW c
    PROVE  /\ RowsFor(c) \in [Items -> Nat]
           /\ \A i \in Items :
                 RowsFor(c)[i] = IF i \in c /\ (~items[i].photoId \/ i \in Full(c))
                                 THEN rows[i] + 1 ELSE rows[i]
BY DEF TypeOK, RowsFor

LEMMA AddKeeps ==
    ASSUME IInv, NEW i \in Items, Add(i)
    PROVE  IInv'
<1>1. TypeOK'
  BY QueueAssumption
  DEF IInv, TypeOK, Add, NewItem, run, server, QueueItem, Scopes, QueueItemStatus
<1>2. Phases'
  BY DEF IInv, TypeOK, Phases, Add, NewItem, run, server, QueueItem
<1>3. HeldStatus'
  BY DEF IInv, TypeOK, HeldStatus, Add, NewItem, run, server, Status, QueueItem
<1>4. Uploaded'
  BY DEF IInv, TypeOK, Uploaded, Add, NewItem, run, server, Status, QueueItem
<1>5. NoSharedWork'
  BY DEF IInv, TypeOK, NoSharedWork, Add, NewItem, run, server, QueueItem
<1>6. ExhaustedRests'
  BY QueueAssumption
  DEF IInv, TypeOK, ExhaustedRests, Add, NewItem, run, server, Status, QueueItem
<1>7. NoEmptyRowLeft'
  BY DEF IInv, TypeOK, NoEmptyRowLeft, Add, NewItem, run, server, QueueItem
<1>8. DoneMeansStored'
  BY DEF IInv, TypeOK, DoneMeansStored, Add, NewItem, run, server, Status, QueueItem
<1> QED BY <1>1, <1>2, <1>3, <1>4, <1>5, <1>6, <1>7, <1>8 DEF IInv

LEMMA ForgetKeeps ==
    ASSUME IInv, NEW source \in Sources, Forget(source)
    PROVE  IInv'
<1>1. TypeOK'
  BY QueueAssumption
  DEF IInv, TypeOK, Forget, run, server, QueueItem, Scopes, QueueItemStatus
<1>2. Phases'
  BY DEF IInv, TypeOK, Phases, Forget, run, server, QueueItem
<1>3. HeldStatus'
  BY DEF IInv, TypeOK, HeldStatus, Forget, run, server, Status, QueueItem
<1>4. Uploaded'
  BY DEF IInv, TypeOK, Uploaded, Forget, run, server, Status, QueueItem
<1>5. NoSharedWork'
  BY DEF IInv, TypeOK, NoSharedWork, Forget, run, server, QueueItem
<1>6. ExhaustedRests'
  BY QueueAssumption
  DEF IInv, TypeOK, ExhaustedRests, Forget, run, server, Status, QueueItem
<1>7. NoEmptyRowLeft'
  BY DEF IInv, TypeOK, NoEmptyRowLeft, Forget, run, server, QueueItem
<1>8. DoneMeansStored'
  BY DEF IInv, TypeOK, DoneMeansStored, Forget, run, server, Status, QueueItem
<1> QED BY <1>1, <1>2, <1>3, <1>4, <1>5, <1>6, <1>7, <1>8 DEF IInv

LEMMA PruneKeeps ==
    ASSUME IInv, Prune
    PROVE  IInv'
<1>1. TypeOK'
  BY QueueAssumption
  DEF IInv, TypeOK, Prune, Held, run, server, Status, QueueItem, Scopes,
     QueueItemStatus
<1>2. Phases'
  BY DEF IInv, TypeOK, Phases, Prune, Held, run, server, Status, QueueItem
<1>3. HeldStatus'
  BY DEF IInv, TypeOK, HeldStatus, Prune, Held, run, server, Status, QueueItem
<1>4. Uploaded'
  BY DEF IInv, TypeOK, Uploaded, Prune, Held, run, server, Status, QueueItem
<1>5. NoSharedWork'
  BY DEF IInv, TypeOK, NoSharedWork, Prune, Held, run, server, Status, QueueItem
<1>6. ExhaustedRests'
  BY QueueAssumption
  DEF IInv, TypeOK, ExhaustedRests, Prune, Held, run, server, Status, QueueItem
<1>7. NoEmptyRowLeft'
  BY DEF IInv, TypeOK, NoEmptyRowLeft, Prune, Held, run, server, Status, QueueItem
<1>8. DoneMeansStored'
  BY DEF IInv, TypeOK, DoneMeansStored, Prune, Held, run, server, Status, QueueItem
<1> QED BY <1>1, <1>2, <1>3, <1>4, <1>5, <1>6, <1>7, <1>8 DEF IInv

LEMMA RetryFailedKeeps ==
    ASSUME IInv, NEW s \in Scopes, RetryFailed(s)
    PROVE  IInv'
<1>1. /\ items' \in [Items -> QueueItem]
      /\ \A i \in Items :
            /\ items'[i].photoId = items[i].photoId
            /\ \/ items'[i] = items[i]
               \/ /\ Status(i) = "failed" /\ items'[i].status = "pending"
                  /\ items'[i].attempts = 0
  BY QueueAssumption
  DEF IInv, TypeOK, RetryFailed, Held, Status, NewItem, QueueItem, QueueItemStatus
<1>2. UNCHANGED <<queued, run, toPresign, sending, todo, work, stage, server>>
  BY DEF RetryFailed
<1>3. TypeOK'
  BY QueueAssumption, <1>1, <1>2
  DEF IInv, TypeOK, QueueItem, Scopes, QueueItemStatus, run, server, Status
<1>4. Phases'
  BY <1>1, <1>2
  DEF IInv, TypeOK, Phases, run, server, Status, QueueItem
<1>5. HeldStatus'
  BY <1>1, <1>2
  DEF IInv, TypeOK, Phases, HeldStatus, Status, run, server, QueueItem
<1>6. Uploaded'
  BY <1>1, <1>2
  DEF IInv, TypeOK, Uploaded, Status, run, server, QueueItem
<1>7. NoSharedWork'
  BY <1>1, <1>2
  DEF IInv, TypeOK, NoSharedWork, run, server, Status, QueueItem
<1>8. ExhaustedRests'
  BY QueueAssumption, <1>1, <1>2
  DEF IInv, TypeOK, ExhaustedRests, Status, run, server, QueueItem
<1>9. NoEmptyRowLeft'
  BY <1>1, <1>2
  DEF IInv, TypeOK, NoEmptyRowLeft, run, server, Status, QueueItem
<1>10. DoneMeansStored'
  BY <1>1, <1>2
  DEF IInv, TypeOK, DoneMeansStored, Status, run, server, QueueItem
<1> QED BY <1>3, <1>4, <1>5, <1>6, <1>7, <1>8, <1>9, <1>10 DEF IInv

LEMMA StartRunKeeps ==
    ASSUME IInv, NEW s \in Scopes, Run(s)
    PROVE  IInv'
<1>1. TypeOK'
  BY QueueAssumption, NoRounds
  DEF IInv, TypeOK, Phases, HeldStatus, Uploaded, NoSharedWork, ExhaustedRests,
     NoEmptyRowLeft, DoneMeansStored, Run, BeginRound, server, Held, Status,
     QueueItem, Scopes, QueueItemStatus
<1>2. Phases'
  BY DEF IInv, TypeOK, Phases, Run, BeginRound, server, Held, Status, QueueItem
<1>3. HeldStatus'
  BY DEF IInv, TypeOK, HeldStatus, Run, BeginRound, server, Held, Status, QueueItem
<1>4. Uploaded'
  BY DEF IInv, TypeOK, Uploaded, Run, BeginRound, server, Held, Status, QueueItem
<1>5. NoSharedWork'
  BY DEF IInv, TypeOK, Phases, NoSharedWork, Run, BeginRound, server, Held, Status,
     QueueItem
<1>6. ExhaustedRests'
  BY QueueAssumption
  DEF IInv, TypeOK, ExhaustedRests, Run, BeginRound, server, Held, Status, QueueItem
<1>7. NoEmptyRowLeft'
  BY DEF IInv, TypeOK, NoEmptyRowLeft, Run, BeginRound, server, Held, Status, QueueItem
<1>8. DoneMeansStored'
  BY DEF IInv, TypeOK, DoneMeansStored, Run, BeginRound, server, Held, Status, QueueItem
<1> QED BY <1>1, <1>2, <1>3, <1>4, <1>5, <1>6, <1>7, <1>8 DEF IInv

LEMMA SendChunkKeeps ==
    ASSUME IInv, SendChunk
    PROVE  IInv'
<1>1. TypeOK'
  BY QueueAssumption
  DEF IInv, TypeOK, SendChunk, Chunks, run, server, QueueItem, Scopes, QueueItemStatus
<1>2. Phases'
  BY DEF IInv, TypeOK, Phases, SendChunk, Chunks, run, server, QueueItem
<1>3. HeldStatus'
  BY DEF IInv, TypeOK, HeldStatus, SendChunk, Chunks, run, server, Status, QueueItem
<1>4. Uploaded'
  BY DEF IInv, TypeOK, Uploaded, SendChunk, Chunks, run, server, Status, QueueItem
<1>5. NoSharedWork'
  BY DEF IInv, TypeOK, NoSharedWork, SendChunk, Chunks, run, server, QueueItem
<1>6. ExhaustedRests'
  BY QueueAssumption
  DEF IInv, TypeOK, ExhaustedRests, SendChunk, Chunks, run, server, Status, QueueItem
<1>7. NoEmptyRowLeft'
  BY DEF IInv, TypeOK, NoEmptyRowLeft, SendChunk, Chunks, run, server, QueueItem
<1>8. DoneMeansStored'
  BY DEF IInv, TypeOK, DoneMeansStored, SendChunk, Chunks, run, server, Status, QueueItem
<1> QED BY <1>1, <1>2, <1>3, <1>4, <1>5, <1>6, <1>7, <1>8 DEF IInv

LEMMA GrantedKeeps ==
    ASSUME IInv, Granted
    PROVE  IInv'
<1>1. /\ items' \in [Items -> QueueItem]
      /\ \A i \in Items :
            /\ items'[i].attempts = items[i].attempts
            /\ i \in sending => items'[i].status = "presigned" /\ items'[i].photoId
            /\ i \notin sending => items'[i] = items[i]
  BY DEF IInv, TypeOK, Granted, QueueItem, QueueItemStatus
<1>2. /\ rows' \in [Items -> Nat]
      /\ \A i \in Items :
            rows'[i] = IF i \in sending /\ (~items[i].photoId \/ i \in Full(sending))
                         THEN rows[i] + 1 ELSE rows[i]
  BY RowsType DEF IInv, Granted
<1>f. /\ filled' \in [Items -> Nat]
      /\ \A i \in Items :
            filled'[i] = IF i \in Full(sending) THEN filled[i] + 1 ELSE filled[i]
      /\ received' \in [Items -> {"nothing", "bytes", "confirmation"}]
      /\ \A i \in Items : i \notin sending => received'[i] = received[i]
      /\ \A i \in Full(sending) : i \in sending /\ items[i].photoId
  <2>1. /\ filled \in [Items -> Nat]
        /\ received \in [Items -> {"nothing", "bytes", "confirmation"}]
    BY DEF IInv, TypeOK
  <2>2. /\ filled' = [i \in Items |-> IF i \in Full(sending) THEN filled[i] + 1 ELSE filled[i]]
        /\ received' = [i \in Items |-> IF i \in Full(sending) THEN "nothing" ELSE received[i]]
    BY DEF Granted
  <2>3. \A i \in Full(sending) : i \in sending /\ items[i].photoId
    BY DEF Full
  <2> QED BY <2>1, <2>2, <2>3
<1>3. /\ sending' = {}
      /\ UNCHANGED <<queued, run, toPresign, todo, work, stage, lost>>
  BY DEF Granted
<1>4. TypeOK'
  BY QueueAssumption, <1>1, <1>2, <1>f, <1>3
  DEF IInv, TypeOK, QueueItem, Scopes, QueueItemStatus, run, Status
<1>5. Phases'
  BY <1>1, <1>2, <1>f, <1>3
  DEF IInv, TypeOK, Phases, run, Status, QueueItem
<1>6. HeldStatus'
  BY <1>1, <1>2, <1>f, <1>3
  DEF IInv, TypeOK, Phases, HeldStatus, NoSharedWork, Status, run, QueueItem
<1>7. Uploaded'
  BY <1>1, <1>2, <1>f, <1>3
  DEF IInv, TypeOK, Uploaded, Status, run, QueueItem
<1>8. NoSharedWork'
  BY <1>1, <1>2, <1>f, <1>3
  DEF IInv, TypeOK, NoSharedWork, run, Status, QueueItem
<1>9. ExhaustedRests'
  BY QueueAssumption, <1>1, <1>2, <1>f, <1>3
  DEF IInv, TypeOK, Phases, HeldStatus, ExhaustedRests, Status, run, QueueItem
<1>10. NoEmptyRowLeft'
  BY <1>1, <1>2, <1>f, <1>3
  DEF IInv, TypeOK, NoEmptyRowLeft, run, Status, QueueItem
<1>11. DoneMeansStored'
  BY <1>1, <1>2, <1>f, <1>3
  DEF IInv, TypeOK, DoneMeansStored, Status, run, QueueItem
<1> QED BY <1>4, <1>5, <1>6, <1>7, <1>8, <1>9, <1>10, <1>11 DEF IInv

LEMMA PresignFailedKeeps ==
    ASSUME IInv, NEW err \in Errors, PresignFailed(err)
    PROVE  IInv'
<1>1. \A i \in sending : items[i] \in QueueItem /\ items[i].attempts < MAX_ATTEMPTS
  BY DEF IInv, TypeOK, HeldStatus, ExhaustedRests, Status
<1>2. /\ items' \in [Items -> QueueItem]
      /\ \A i \in Items :
            /\ i \notin sending => items'[i] = items[i]
            /\ i \in sending =>
                  /\ items'[i].photoId = items[i].photoId
                  /\ items'[i].status \in {"stale", "failed", "pending"}
                  /\ items'[i].status = "pending" => items'[i].attempts < MAX_ATTEMPTS
  <2>1. items' = [i \in Items |-> IF i \in sending THEN Settle(items[i], err) ELSE items[i]]
    BY DEF PresignFailed
  <2>2. \A i \in sending : Status(i) = "pending"
    BY DEF IInv, HeldStatus
  <2> QED BY <1>1, <2>1, <2>2, SettleType DEF IInv, TypeOK, Status
<1>3. /\ rows' \in [Items -> Nat] /\ lost' \in [Items -> Nat] /\ UNCHANGED filled
      /\ \A i \in Items : rows'[i] - lost'[i] = rows[i] - lost[i]
  <2>1. CASE UNCHANGED <<rows, lost, filled>>
    BY <2>1 DEF IInv, TypeOK
  <2>2. CASE LostAnswer
    BY <2>2, RowsType DEF IInv, TypeOK, LostAnswer
  <2> QED BY <2>1, <2>2 DEF PresignFailed
<1>4. /\ sending' = {} /\ paused' \in BOOLEAN /\ toPresign' \subseteq toPresign
      /\ sending # {} /\ (paused' => toPresign' = {})
      /\ UNCHANGED <<queued, running, needsRepresign, scope, pc, represigns, retries,
                     todo, work, stage, received>>
  BY DEF PresignFailed, IInv, TypeOK
<1>5. TypeOK'
  BY QueueAssumption, <1>2, <1>3, <1>4
  DEF IInv, TypeOK, QueueItem, Scopes, QueueItemStatus, Status
<1>6. Phases'
  BY <1>2, <1>3, <1>4
  DEF IInv, TypeOK, Phases, Status, QueueItem
<1>7. HeldStatus'
  BY <1>2, <1>3, <1>4
  DEF IInv, TypeOK, Phases, HeldStatus, NoSharedWork, Status, QueueItem
<1>8. Uploaded'
  BY <1>2, <1>3, <1>4
  DEF IInv, TypeOK, Uploaded, Status, QueueItem
<1>9. NoSharedWork'
  BY <1>2, <1>3, <1>4
  DEF IInv, TypeOK, NoSharedWork, Status, QueueItem
<1>10. ExhaustedRests'
  BY QueueAssumption, <1>2, <1>3, <1>4
  DEF IInv, TypeOK, ExhaustedRests, Status, QueueItem
<1>11. NoEmptyRowLeft'
  BY <1>2, <1>3, <1>4
  DEF IInv, TypeOK, Phases, HeldStatus, NoEmptyRowLeft, Status, QueueItem
<1>12. DoneMeansStored'
  BY <1>2, <1>3, <1>4
  DEF IInv, TypeOK, DoneMeansStored, Status, QueueItem
<1> QED BY <1>5, <1>6, <1>7, <1>8, <1>9, <1>10, <1>11, <1>12 DEF IInv

LEMMA BeginWorkKeeps ==
    ASSUME IInv, BeginWork
    PROVE  IInv'
<1>1. TypeOK'
  BY QueueAssumption
  DEF IInv, TypeOK, BeginWork, Held, server, Status, QueueItem, Scopes, QueueItemStatus
<1>2. Phases'
  BY DEF IInv, TypeOK, Phases, BeginWork, Held, server, Status, QueueItem
<1>3. HeldStatus'
  BY DEF IInv, TypeOK, HeldStatus, BeginWork, Held, server, Status, QueueItem
<1>4. Uploaded'
  BY DEF IInv, TypeOK, Uploaded, BeginWork, Held, server, Status, QueueItem
<1>5. NoSharedWork'
  BY DEF IInv, TypeOK, Phases, NoSharedWork, BeginWork, Held, server, Status, QueueItem
<1>6. ExhaustedRests'
  BY QueueAssumption
  DEF IInv, TypeOK, ExhaustedRests, BeginWork, Held, server, Status, QueueItem
<1>7. NoEmptyRowLeft'
  BY DEF IInv, TypeOK, NoEmptyRowLeft, BeginWork, Held, server, Status, QueueItem
<1>8. DoneMeansStored'
  BY DEF IInv, TypeOK, DoneMeansStored, BeginWork, Held, server, Status, QueueItem
<1> QED BY <1>1, <1>2, <1>3, <1>4, <1>5, <1>6, <1>7, <1>8 DEF IInv

LEMMA TakeExpiredKeeps ==
    ASSUME IInv, NEW w \in Workers, NEW i \in Items, TakeExpired(w, i)
    PROVE  IInv'
<1>1. TypeOK'
  BY QueueAssumption
  DEF IInv, TypeOK, TakeExpired, CanTake, Status, SendBack, server, QueueItem, Scopes,
     QueueItemStatus
<1>2. Phases'
  BY QueueAssumption
  DEF IInv, TypeOK, Phases, TakeExpired, CanTake, Status, SendBack, server, QueueItem
<1>3. HeldStatus'
  BY QueueAssumption
  DEF IInv, TypeOK, Phases, HeldStatus, NoSharedWork, TakeExpired, CanTake, Status,
     SendBack, server, QueueItem
<1>4. Uploaded'
  BY QueueAssumption
  DEF IInv, TypeOK, Uploaded, TakeExpired, CanTake, Status, SendBack, server, QueueItem
<1>5. NoSharedWork'
  BY QueueAssumption
  DEF IInv, TypeOK, NoSharedWork, TakeExpired, CanTake, Status, SendBack, server,
     QueueItem
<1>6. ExhaustedRests'
  BY QueueAssumption
  DEF IInv, TypeOK, Phases, HeldStatus, ExhaustedRests, TakeExpired, CanTake, Status,
     SendBack, server, QueueItem
<1>7. NoEmptyRowLeft'
  BY QueueAssumption
  DEF IInv, TypeOK, NoEmptyRowLeft, TakeExpired, CanTake, Status, SendBack, server,
     QueueItem
<1>8. DoneMeansStored'
  BY QueueAssumption
  DEF IInv, TypeOK, DoneMeansStored, TakeExpired, CanTake, Status, SendBack, server,
     QueueItem
<1> QED BY <1>1, <1>2, <1>3, <1>4, <1>5, <1>6, <1>7, <1>8 DEF IInv

LEMMA TakeToPutKeeps ==
    ASSUME IInv, NEW w \in Workers, NEW i \in Items, TakeToPut(w, i)
    PROVE  IInv'
<1>1. TypeOK'
  BY QueueAssumption
  DEF IInv, TypeOK, TakeToPut, CanTake, Status, run, server, QueueItem, Scopes,
     QueueItemStatus
<1>2. Phases'
  BY QueueAssumption
  DEF IInv, TypeOK, Phases, TakeToPut, CanTake, Status, run, server, QueueItem
<1>3. HeldStatus'
  BY QueueAssumption
  DEF IInv, TypeOK, HeldStatus, TakeToPut, CanTake, Status, run, server, QueueItem
<1>4. Uploaded'
  BY QueueAssumption
  DEF IInv, TypeOK, Uploaded, TakeToPut, CanTake, Status, run, server, QueueItem
<1>5. NoSharedWork'
  BY QueueAssumption
  DEF IInv, TypeOK, NoSharedWork, TakeToPut, CanTake, Status, run, server, QueueItem
<1>6. ExhaustedRests'
  BY QueueAssumption
  DEF IInv, TypeOK, ExhaustedRests, TakeToPut, CanTake, Status, run, server, QueueItem
<1>7. NoEmptyRowLeft'
  BY QueueAssumption
  DEF IInv, TypeOK, NoEmptyRowLeft, TakeToPut, CanTake, Status, run, server, QueueItem
<1>8. DoneMeansStored'
  BY QueueAssumption
  DEF IInv, TypeOK, DoneMeansStored, TakeToPut, CanTake, Status, run, server, QueueItem
<1> QED BY <1>1, <1>2, <1>3, <1>4, <1>5, <1>6, <1>7, <1>8 DEF IInv

LEMMA TakeToCompleteKeeps ==
    ASSUME IInv, NEW w \in Workers, NEW i \in Items, TakeToComplete(w, i)
    PROVE  IInv'
<1>1. TypeOK'
  BY QueueAssumption
  DEF IInv, TypeOK, TakeToComplete, CanTake, Status, run, server, QueueItem, Scopes,
     QueueItemStatus
<1>2. Phases'
  BY QueueAssumption
  DEF IInv, TypeOK, Phases, TakeToComplete, CanTake, Status, run, server, QueueItem
<1>3. HeldStatus'
  BY QueueAssumption
  DEF IInv, TypeOK, HeldStatus, TakeToComplete, CanTake, Status, run, server, QueueItem
<1>4. Uploaded'
  BY QueueAssumption
  DEF IInv, TypeOK, Uploaded, TakeToComplete, CanTake, Status, run, server, QueueItem
<1>5. NoSharedWork'
  BY QueueAssumption
  DEF IInv, TypeOK, NoSharedWork, TakeToComplete, CanTake, Status, run, server,
     QueueItem
<1>6. ExhaustedRests'
  BY QueueAssumption
  DEF IInv, TypeOK, ExhaustedRests, TakeToComplete, CanTake, Status, run, server,
     QueueItem
<1>7. NoEmptyRowLeft'
  BY QueueAssumption
  DEF IInv, TypeOK, NoEmptyRowLeft, TakeToComplete, CanTake, Status, run, server,
     QueueItem
<1>8. DoneMeansStored'
  BY QueueAssumption
  DEF IInv, TypeOK, DoneMeansStored, TakeToComplete, CanTake, Status, run, server,
     QueueItem
<1> QED BY <1>1, <1>2, <1>3, <1>4, <1>5, <1>6, <1>7, <1>8 DEF IInv

LEMMA PutOkKeeps ==
    ASSUME IInv, NEW w \in Workers, PutOk(w)
    PROVE  IInv'
<1>1. TypeOK'
  BY QueueAssumption
  DEF IInv, TypeOK, PutOk, Receive, run, QueueItem, Scopes, QueueItemStatus
<1>2. Phases'
  BY DEF IInv, TypeOK, Phases, PutOk, Receive, run, QueueItem
<1>3. HeldStatus'
  BY DEF IInv, TypeOK, Phases, HeldStatus, NoSharedWork, PutOk, Receive, run, Status,
     QueueItem
<1>4. Uploaded'
  BY DEF IInv, TypeOK, Uploaded, PutOk, Receive, run, Status, QueueItem
<1>5. NoSharedWork'
  BY DEF IInv, TypeOK, NoSharedWork, PutOk, Receive, run, QueueItem
<1>6. ExhaustedRests'
  BY QueueAssumption
  DEF IInv, TypeOK, Phases, HeldStatus, ExhaustedRests, PutOk, Receive, run, Status,
     QueueItem
<1>7. NoEmptyRowLeft'
  BY DEF IInv, TypeOK, NoEmptyRowLeft, PutOk, Receive, run, QueueItem
<1>8. DoneMeansStored'
  BY DEF IInv, TypeOK, DoneMeansStored, PutOk, Receive, run, Status, QueueItem
<1> QED BY <1>1, <1>2, <1>3, <1>4, <1>5, <1>6, <1>7, <1>8 DEF IInv

LEMMA PutExpiredKeeps ==
    ASSUME IInv, NEW w \in Workers, PutExpired(w)
    PROVE  IInv'
<1>1. TypeOK'
  BY QueueAssumption
  DEF IInv, TypeOK, PutExpired, SendBack, Free, server, QueueItem, Scopes,
     QueueItemStatus
<1>2. Phases'
  BY QueueAssumption
  DEF IInv, TypeOK, Phases, PutExpired, SendBack, Free, server, QueueItem
<1>3. HeldStatus'
  BY QueueAssumption
  DEF IInv, TypeOK, Phases, HeldStatus, NoSharedWork, PutExpired, SendBack, Free,
     server, Status, QueueItem
<1>4. Uploaded'
  BY QueueAssumption
  DEF IInv, TypeOK, Uploaded, PutExpired, SendBack, Free, server, Status, QueueItem
<1>5. NoSharedWork'
  BY QueueAssumption
  DEF IInv, TypeOK, NoSharedWork, PutExpired, SendBack, Free, server, QueueItem
<1>6. ExhaustedRests'
  BY QueueAssumption
  DEF IInv, TypeOK, Phases, HeldStatus, ExhaustedRests, PutExpired, SendBack, Free,
     server, Status, QueueItem
<1>7. NoEmptyRowLeft'
  BY QueueAssumption
  DEF IInv, TypeOK, NoEmptyRowLeft, PutExpired, SendBack, Free, server, QueueItem
<1>8. DoneMeansStored'
  BY QueueAssumption
  DEF IInv, TypeOK, DoneMeansStored, PutExpired, SendBack, Free, server, Status,
     QueueItem
<1> QED BY <1>1, <1>2, <1>3, <1>4, <1>5, <1>6, <1>7, <1>8 DEF IInv

LEMMA PutFailedKeeps ==
    ASSUME IInv, NEW w \in Workers, NEW err \in Errors \cup {SourceGone}, PutFailed(w, err)
    PROVE  IInv'
<1>1. /\ work[w] \in Items /\ items[work[w]] \in QueueItem
      /\ Status(work[w]) = "presigned" /\ items[work[w]].attempts < MAX_ATTEMPTS
  BY DEF PutFailed, IInv, TypeOK, Phases, HeldStatus, ExhaustedRests, Status
<1>2. /\ items' \in [Items -> QueueItem]
      /\ \A i \in Items : i # work[w] => items'[i] = items[i]
      /\ items'[work[w]].photoId = items[work[w]].photoId
      /\ items'[work[w]].status \in {"presigned", "stale", "failed", "pending"}
      /\ items'[work[w]].status \notin {"failed", "stale"} =>
            items'[work[w]].attempts < MAX_ATTEMPTS
  <2>1. items' = [items EXCEPT ![work[w]] = Settle(items[work[w]], err)]
    BY DEF PutFailed
  <2> QED BY <1>1, <2>1, SettleType DEF IInv, TypeOK, Status
<1>3. /\ received' \in [Items -> {"nothing", "bytes", "confirmation"}]
      /\ \A i \in Items :
            /\ received[i] # "nothing" => received'[i] # "nothing"
            /\ received[i] = "confirmation" => received'[i] = "confirmation"
  BY ReceiveType DEF PutFailed, IInv, TypeOK
<1>4. /\ stage[w] = "put" /\ paused' \in BOOLEAN
      /\ work' = [work EXCEPT ![w] = NoItem] /\ stage' = [stage EXCEPT ![w] = "idle"]
      /\ UNCHANGED <<queued, running, needsRepresign, scope, pc, represigns, retries,
                     toPresign, sending, todo, rows, lost, filled>>
  BY DEF PutFailed, Free, IInv, TypeOK
<1>5. TypeOK'
  BY QueueAssumption, <1>1, <1>2, <1>3, <1>4
  DEF IInv, TypeOK, QueueItem, Scopes, QueueItemStatus, Status
<1>6. Phases'
  BY QueueAssumption, <1>1, <1>2, <1>3, <1>4
  DEF IInv, TypeOK, Phases, Status, QueueItem
<1>7. HeldStatus'
  BY QueueAssumption, <1>1, <1>2, <1>3, <1>4
  DEF IInv, TypeOK, Phases, HeldStatus, NoSharedWork, Status, QueueItem
<1>8. Uploaded'
  BY QueueAssumption, <1>1, <1>2, <1>3, <1>4
  DEF IInv, TypeOK, Uploaded, Status, QueueItem
<1>9. NoSharedWork'
  BY QueueAssumption, <1>1, <1>2, <1>3, <1>4
  DEF IInv, TypeOK, NoSharedWork, Status, QueueItem
<1>10. ExhaustedRests'
  BY QueueAssumption, <1>1, <1>2, <1>3, <1>4
  DEF IInv, TypeOK, ExhaustedRests, Status, QueueItem
<1>11. NoEmptyRowLeft'
  BY QueueAssumption, <1>1, <1>2, <1>3, <1>4
  DEF IInv, TypeOK, NoEmptyRowLeft, Status, QueueItem
<1>12. DoneMeansStored'
  BY QueueAssumption, <1>1, <1>2, <1>3, <1>4
  DEF IInv, TypeOK, DoneMeansStored, Status, QueueItem
<1> QED BY <1>5, <1>6, <1>7, <1>8, <1>9, <1>10, <1>11, <1>12 DEF IInv

LEMMA CompleteOkKeeps ==
    ASSUME IInv, NEW w \in Workers, CompleteOk(w)
    PROVE  IInv'
<1>1. TypeOK'
  BY QueueAssumption
  DEF IInv, TypeOK, CompleteOk, Receive, Free, run, QueueItem, Scopes, QueueItemStatus
<1>2. Phases'
  BY QueueAssumption
  DEF IInv, TypeOK, Phases, CompleteOk, Receive, Free, run, QueueItem
<1>3. HeldStatus'
  BY QueueAssumption
  DEF IInv, TypeOK, Phases, HeldStatus, NoSharedWork, CompleteOk, Receive, Free, run,
     Status, QueueItem
<1>4. Uploaded'
  BY QueueAssumption
  DEF IInv, TypeOK, Uploaded, CompleteOk, Receive, Free, run, Status, QueueItem
<1>5. NoSharedWork'
  BY QueueAssumption
  DEF IInv, TypeOK, NoSharedWork, CompleteOk, Receive, Free, run, QueueItem
<1>6. ExhaustedRests'
  BY QueueAssumption
  DEF IInv, TypeOK, ExhaustedRests, CompleteOk, Receive, Free, run, Status, QueueItem
<1>7. NoEmptyRowLeft'
  BY QueueAssumption
  DEF IInv, TypeOK, NoEmptyRowLeft, CompleteOk, Receive, Free, run, QueueItem
<1>8. DoneMeansStored'
  BY QueueAssumption
  DEF IInv, TypeOK, Phases, HeldStatus, Uploaded, NoSharedWork, ExhaustedRests,
     NoEmptyRowLeft, DoneMeansStored, CompleteOk, Receive, Free, run, Status,
     QueueItem
<1> QED BY <1>1, <1>2, <1>3, <1>4, <1>5, <1>6, <1>7, <1>8 DEF IInv

LEMMA CompleteFailedKeeps ==
    ASSUME IInv, NEW w \in Workers, NEW err \in Errors, CompleteFailed(w, err)
    PROVE  IInv'
<1>1. /\ work[w] \in Items /\ items[work[w]] \in QueueItem
      /\ Status(work[w]) = "uploaded" /\ items[work[w]].attempts < MAX_ATTEMPTS
      /\ received[work[w]] # "nothing"
  BY DEF CompleteFailed, IInv, TypeOK, Phases, HeldStatus, ExhaustedRests, Uploaded, Status
<1>2. /\ items' \in [Items -> QueueItem]
      /\ \A i \in Items : i # work[w] => items'[i] = items[i]
      /\ items'[work[w]].photoId = items[work[w]].photoId
      /\ items'[work[w]].status \in {"uploaded", "stale", "failed"}
      /\ items'[work[w]].status = "uploaded" => items'[work[w]].attempts < MAX_ATTEMPTS
  <2> DEFINE it == Settle(items[work[w]], err)
  <2>1. items' = [items EXCEPT ![work[w]] = KeepUploaded(it)]
    BY DEF CompleteFailed
  <2>2. /\ it \in QueueItem /\ it.photoId = items[work[w]].photoId
        /\ it.status \in {"uploaded", "stale", "failed", "pending"}
        /\ it.status \notin {"failed", "stale"} => it.attempts < MAX_ATTEMPTS
    BY <1>1, SettleType DEF Status
  <2> HIDE DEF it
  <2>3. /\ KeepUploaded(it) \in QueueItem /\ KeepUploaded(it).photoId = it.photoId
        /\ KeepUploaded(it).attempts = it.attempts
        /\ KeepUploaded(it).status = IF it.status = "pending" THEN "uploaded" ELSE it.status
    BY <2>2 DEF KeepUploaded, QueueItem, QueueItemStatus
  <2> QED BY <1>1, <2>1, <2>2, <2>3 DEF IInv, TypeOK
<1>3. /\ received' \in [Items -> {"nothing", "bytes", "confirmation"}]
      /\ \A i \in Items :
            /\ received[i] # "nothing" => received'[i] # "nothing"
            /\ received[i] = "confirmation" => received'[i] = "confirmation"
  BY ReceiveType DEF CompleteFailed, IInv, TypeOK
<1>4. /\ stage[w] = "complete" /\ paused' \in BOOLEAN
      /\ work' = [work EXCEPT ![w] = NoItem] /\ stage' = [stage EXCEPT ![w] = "idle"]
      /\ UNCHANGED <<queued, running, needsRepresign, scope, pc, represigns, retries,
                     toPresign, sending, todo, rows, lost, filled>>
  BY DEF CompleteFailed, Free, IInv, TypeOK
<1>5. TypeOK'
  BY QueueAssumption, <1>1, <1>2, <1>3, <1>4
  DEF IInv, TypeOK, QueueItem, Scopes, QueueItemStatus, Status
<1>6. Phases'
  BY QueueAssumption, <1>1, <1>2, <1>3, <1>4
  DEF IInv, TypeOK, Phases, Status, QueueItem
<1>7. HeldStatus'
  <2>1. \A i \in toPresign \cup sending \cup todo : items'[i] = items[i]
    <3>1. toPresign \cup sending \cup todo \subseteq Items
      BY DEF IInv, TypeOK
    <3>2. work[w] \notin toPresign \cup sending \cup todo
      BY <1>1, <1>4 DEF IInv, Phases, NoSharedWork
    <3> QED BY <1>2, <3>1, <3>2
  <2>2. \A v \in Workers : stage'[v] # "idle" =>
           stage'[v] = stage[v] /\ work'[v] = work[v] /\ items'[work[v]] = items[work[v]]
    BY <1>1, <1>2, <1>4 DEF IInv, TypeOK, Phases, NoSharedWork
  <2> QED BY <2>1, <2>2, <1>4 DEF IInv, HeldStatus, Status
<1>8. Uploaded'
  BY QueueAssumption, <1>1, <1>2, <1>3, <1>4
  DEF IInv, TypeOK, Uploaded, Status, QueueItem
<1>9. NoSharedWork'
  BY QueueAssumption, <1>1, <1>2, <1>3, <1>4
  DEF IInv, TypeOK, NoSharedWork, Status, QueueItem
<1>10. ExhaustedRests'
  BY QueueAssumption, <1>1, <1>2, <1>3, <1>4
  DEF IInv, TypeOK, ExhaustedRests, Status, QueueItem
<1>11. NoEmptyRowLeft'
  BY QueueAssumption, <1>1, <1>2, <1>3, <1>4
  DEF IInv, TypeOK, NoEmptyRowLeft, Status, QueueItem
<1>12. DoneMeansStored'
  BY QueueAssumption, <1>1, <1>2, <1>3, <1>4
  DEF IInv, TypeOK, DoneMeansStored, Status, QueueItem
<1> QED BY <1>5, <1>6, <1>7, <1>8, <1>9, <1>10, <1>11, <1>12 DEF IInv

LEMMA EndRunKeeps ==
    ASSUME IInv, EndRun
    PROVE  IInv'
<1>1. TypeOK'
  BY QueueAssumption, NoRounds
  DEF IInv, TypeOK, Phases, HeldStatus, Uploaded, NoSharedWork, ExhaustedRests,
     NoEmptyRowLeft, DoneMeansStored, EndRun, RoundOver, server, QueueItem, Scopes,
     QueueItemStatus
<1>2. Phases'
  BY QueueAssumption
  DEF IInv, TypeOK, Phases, EndRun, RoundOver, server, QueueItem
<1>3. HeldStatus'
  BY QueueAssumption
  DEF IInv, TypeOK, HeldStatus, EndRun, RoundOver, server, Status, QueueItem
<1>4. Uploaded'
  BY QueueAssumption
  DEF IInv, TypeOK, Uploaded, EndRun, RoundOver, server, Status, QueueItem
<1>5. NoSharedWork'
  BY QueueAssumption
  DEF IInv, TypeOK, NoSharedWork, EndRun, RoundOver, server, QueueItem
<1>6. ExhaustedRests'
  BY QueueAssumption
  DEF IInv, TypeOK, ExhaustedRests, EndRun, RoundOver, server, Status, QueueItem
<1>7. NoEmptyRowLeft'
  BY QueueAssumption
  DEF IInv, TypeOK, NoEmptyRowLeft, EndRun, RoundOver, server, QueueItem
<1>8. DoneMeansStored'
  BY QueueAssumption
  DEF IInv, TypeOK, DoneMeansStored, EndRun, RoundOver, server, Status, QueueItem
<1> QED BY <1>1, <1>2, <1>3, <1>4, <1>5, <1>6, <1>7, <1>8 DEF IInv

LEMMA GoWaitKeeps ==
    ASSUME IInv, GoWait
    PROVE  IInv'
<1>1. TypeOK'
  BY QueueAssumption
  DEF IInv, TypeOK, GoWait, RoundOver, Spun, server, QueueItem, Scopes, QueueItemStatus
<1>2. Phases'
  BY QueueAssumption
  DEF IInv, TypeOK, Phases, GoWait, RoundOver, Spun, server, QueueItem
<1>3. HeldStatus'
  BY QueueAssumption
  DEF IInv, TypeOK, HeldStatus, GoWait, RoundOver, Spun, server, Status, QueueItem
<1>4. Uploaded'
  BY QueueAssumption
  DEF IInv, TypeOK, Uploaded, GoWait, RoundOver, Spun, server, Status, QueueItem
<1>5. NoSharedWork'
  BY QueueAssumption
  DEF IInv, TypeOK, NoSharedWork, GoWait, RoundOver, Spun, server, QueueItem
<1>6. ExhaustedRests'
  BY QueueAssumption
  DEF IInv, TypeOK, ExhaustedRests, GoWait, RoundOver, Spun, server, Status, QueueItem
<1>7. NoEmptyRowLeft'
  BY QueueAssumption
  DEF IInv, TypeOK, NoEmptyRowLeft, GoWait, RoundOver, Spun, server, QueueItem
<1>8. DoneMeansStored'
  BY QueueAssumption
  DEF IInv, TypeOK, DoneMeansStored, GoWait, RoundOver, Spun, server, Status, QueueItem
<1> QED BY <1>1, <1>2, <1>3, <1>4, <1>5, <1>6, <1>7, <1>8 DEF IInv

LEMMA GoRepresignKeeps ==
    ASSUME IInv, GoRepresign
    PROVE  IInv'
<1>1. represigns' \in 0..MAX_REPRESIGN_ROUNDS
  BY QueueAssumption DEF IInv, TypeOK, GoRepresign, Spun
<1>2. TypeOK'
  BY QueueAssumption, <1>1, NoRounds
  DEF IInv, TypeOK, Phases, HeldStatus, Uploaded, NoSharedWork, ExhaustedRests,
     NoEmptyRowLeft, DoneMeansStored, GoRepresign, RoundOver, BeginRound, server,
     Held, Status, QueueItem, Scopes, QueueItemStatus
<1>3. Phases'
  BY QueueAssumption, <1>1
  DEF IInv, TypeOK, Phases, HeldStatus, Uploaded, NoSharedWork, ExhaustedRests,
     NoEmptyRowLeft, DoneMeansStored, GoRepresign, RoundOver, BeginRound, server,
     Held, Status, QueueItem
<1>4. HeldStatus'
  BY QueueAssumption, <1>1
  DEF IInv, TypeOK, HeldStatus, GoRepresign, RoundOver, BeginRound, server, Held,
     Status, QueueItem
<1>5. Uploaded'
  BY QueueAssumption, <1>1
  DEF IInv, TypeOK, Uploaded, GoRepresign, RoundOver, BeginRound, server, Held,
     Status, QueueItem
<1>6. NoSharedWork'
  BY QueueAssumption, <1>1
  DEF IInv, TypeOK, Phases, HeldStatus, NoSharedWork, GoRepresign, RoundOver,
     BeginRound, server, Held, Status, QueueItem
<1>7. ExhaustedRests'
  BY QueueAssumption, <1>1
  DEF IInv, TypeOK, ExhaustedRests, GoRepresign, RoundOver, BeginRound, server, Held,
     Status, QueueItem
<1>8. NoEmptyRowLeft'
  BY QueueAssumption, <1>1
  DEF IInv, TypeOK, NoEmptyRowLeft, GoRepresign, RoundOver, BeginRound, server, Held,
     Status, QueueItem
<1>9. DoneMeansStored'
  BY QueueAssumption, <1>1
  DEF IInv, TypeOK, DoneMeansStored, GoRepresign, RoundOver, BeginRound, server, Held,
     Status, QueueItem
<1> QED BY <1>2, <1>3, <1>4, <1>5, <1>6, <1>7, <1>8, <1>9 DEF IInv

LEMMA BackoffOverKeeps ==
    ASSUME IInv, BackoffOver
    PROVE  IInv'
<1>1. TypeOK'
  BY QueueAssumption
  DEF IInv, TypeOK, BackoffOver, BeginRound, server, Held, Status, QueueItem, Scopes,
     QueueItemStatus
<1>2. Phases'
  BY DEF IInv, TypeOK, Phases, BackoffOver, BeginRound, server, Held, Status, QueueItem
<1>3. HeldStatus'
  BY DEF IInv, TypeOK, HeldStatus, BackoffOver, BeginRound, server, Held, Status,
     QueueItem
<1>4. Uploaded'
  BY DEF IInv, TypeOK, Uploaded, BackoffOver, BeginRound, server, Held, Status, QueueItem
<1>5. NoSharedWork'
  BY DEF IInv, TypeOK, Phases, NoSharedWork, BackoffOver, BeginRound, server, Held,
     Status, QueueItem
<1>6. ExhaustedRests'
  BY QueueAssumption
  DEF IInv, TypeOK, ExhaustedRests, BackoffOver, BeginRound, server, Held, Status,
     QueueItem
<1>7. NoEmptyRowLeft'
  BY DEF IInv, TypeOK, NoEmptyRowLeft, BackoffOver, BeginRound, server, Held, Status,
     QueueItem
<1>8. DoneMeansStored'
  BY DEF IInv, TypeOK, DoneMeansStored, BackoffOver, BeginRound, server, Held, Status,
     QueueItem
<1> QED BY <1>1, <1>2, <1>3, <1>4, <1>5, <1>6, <1>7, <1>8 DEF IInv

LEMMA RestartKeeps ==
    ASSUME IInv, NEW gone \in SUBSET queued, Restart(gone)
    PROVE  IInv'
<1>1. /\ items' \in [Items -> QueueItem]
      /\ \A i \in Items :
            /\ items'[i].photoId = items[i].photoId
            /\ items'[i].status \in {Status(i), "stale"}
            /\ items'[i].attempts = items[i].attempts
  BY DEF IInv, TypeOK, Restart, Status, QueueItem, QueueItemStatus
<1>2. /\ rows' \in [Items -> Nat] /\ lost' \in [Items -> Nat] /\ UNCHANGED filled
      /\ \A i \in Items : rows'[i] - lost'[i] = rows[i] - lost[i]
  <2>1. CASE UNCHANGED <<rows, lost, filled>>
    BY <2>1 DEF IInv, TypeOK
  <2>2. CASE LostAnswer
    BY <2>2, RowsType DEF IInv, TypeOK, LostAnswer
  <2> QED BY <2>1, <2>2 DEF Restart
<1>3. /\ received' \in [Items -> {"nothing", "bytes", "confirmation"}]
      /\ \A i \in Items :
            /\ received[i] # "nothing" => received'[i] # "nothing"
            /\ received[i] = "confirmation" => received'[i] = "confirmation"
  BY ReceiveType DEF Restart, IInv, TypeOK
<1>4. /\ queued' \subseteq Items
      /\ running' = FALSE /\ paused' = FALSE /\ needsRepresign' = FALSE
      /\ scope' = Everything /\ pc' = "idle" /\ represigns' = 0 /\ retries' = 0
      /\ toPresign' = {} /\ sending' = {} /\ todo' = {}
      /\ work' = [w \in Workers |-> NoItem] /\ stage' = [w \in Workers |-> "idle"]
  BY DEF Restart, IInv, TypeOK
<1>5. TypeOK'
  BY QueueAssumption, <1>1, <1>2, <1>3, <1>4, NoRounds
  DEF IInv, TypeOK, Phases, HeldStatus, Uploaded, NoSharedWork, ExhaustedRests,
     NoEmptyRowLeft, DoneMeansStored, QueueItem, Scopes, QueueItemStatus, Status
<1>6. Phases'
  BY QueueAssumption, <1>1, <1>2, <1>3, <1>4
  DEF IInv, TypeOK, Phases, Status, QueueItem
<1>7. HeldStatus'
  BY QueueAssumption, <1>1, <1>2, <1>3, <1>4
  DEF IInv, TypeOK, HeldStatus, Status, QueueItem
<1>8. Uploaded'
  BY QueueAssumption, <1>1, <1>2, <1>3, <1>4
  DEF IInv, TypeOK, Uploaded, Status, QueueItem
<1>9. NoSharedWork'
  BY QueueAssumption, <1>1, <1>2, <1>3, <1>4
  DEF IInv, TypeOK, NoSharedWork, Status, QueueItem
<1>10. ExhaustedRests'
  BY <1>1 DEF IInv, ExhaustedRests, Status
<1>11. NoEmptyRowLeft'
  <2>1. ASSUME NEW i \in Items
        PROVE  rows'[i] = lost'[i] + filled'[i] + (IF items'[i].photoId THEN 1 ELSE 0)
    <3>1. rows[i] = lost[i] + filled[i] + (IF items'[i].photoId THEN 1 ELSE 0)
      BY <1>1 DEF IInv, NoEmptyRowLeft
    <3>2. /\ rows[i] \in Nat /\ lost[i] \in Nat /\ filled[i] \in Nat
          /\ rows'[i] \in Nat /\ lost'[i] \in Nat
      BY <1>2 DEF IInv, TypeOK
    <3>3. rows'[i] - lost'[i] = rows[i] - lost[i] /\ filled'[i] = filled[i]
      BY <1>2
    <3>4. CASE items'[i].photoId
      BY <3>1, <3>2, <3>3, <3>4
    <3>5. CASE ~items'[i].photoId
      BY <3>1, <3>2, <3>3, <3>5
    <3> QED BY <3>4, <3>5
  <2> QED BY <2>1 DEF NoEmptyRowLeft
<1>12. DoneMeansStored'
  BY QueueAssumption, <1>1, <1>2, <1>3, <1>4
  DEF IInv, TypeOK, DoneMeansStored, Status, QueueItem
<1> QED BY <1>5, <1>6, <1>7, <1>8, <1>9, <1>10, <1>11, <1>12 DEF IInv

LEMMA RescueKeeps ==
    ASSUME IInv, NEW i \in Items, Rescue(i)
    PROVE  IInv'
<1>1. /\ received' \in [Items -> {"nothing", "bytes", "confirmation"}]
      /\ \A j \in Items : received[j] # "nothing" => received'[j] # "nothing"
      /\ \A j \in Items : received[j] = "confirmation" => received'[j] = "confirmation"
      /\ UNCHANGED <<queued, items, run, toPresign, sending, todo, work, stage, rows, lost,
                     filled>>
  BY DEF Rescue, IInv, TypeOK
<1>2. TypeOK'
  BY <1>1, QueueAssumption
  DEF IInv, TypeOK, run, QueueItem, Scopes, QueueItemStatus
<1>3. Phases' /\ HeldStatus' /\ NoSharedWork'
  BY <1>1 DEF IInv, Phases, HeldStatus, NoSharedWork, run, Status
<1>4. ExhaustedRests' /\ NoEmptyRowLeft'
  BY <1>1 DEF IInv, ExhaustedRests, NoEmptyRowLeft, Status
<1>5. Uploaded' /\ DoneMeansStored'
  BY <1>1 DEF IInv, Uploaded, DoneMeansStored, Status
<1> QED BY <1>2, <1>3, <1>4, <1>5 DEF IInv

-----------------------------------------------------------------------------
LEMMA InitHolds == Init => IInv
<1> SUFFICES ASSUME Init PROVE IInv
  OBVIOUS
<1>1. /\ NewItem \in QueueItem /\ NewItem.status = "pending"
      /\ NewItem.attempts = 0 /\ NewItem.photoId = FALSE
  BY QueueAssumption DEF NewItem, QueueItem, QueueItemStatus
<1>2. TypeOK
  BY <1>1, NoRounds DEF Init, TypeOK, Scopes
<1>3. Phases /\ HeldStatus /\ Uploaded /\ NoSharedWork
  BY <1>1 DEF Init, Phases, HeldStatus, Uploaded, NoSharedWork, Status
<1>4. ExhaustedRests /\ NoEmptyRowLeft /\ DoneMeansStored
  BY <1>1, QueueAssumption DEF Init, ExhaustedRests, NoEmptyRowLeft, DoneMeansStored, Status
<1> QED BY <1>2, <1>3, <1>4 DEF IInv

LEMMA StutterKeeps == IInv /\ UNCHANGED vars => IInv'
BY DEF vars, run, server, IInv, TypeOK, Phases, HeldStatus, Uploaded, NoSharedWork,
       ExhaustedRests, NoEmptyRowLeft, DoneMeansStored, Status

LEMMA NextKeeps == IInv /\ [Next]_vars => IInv'
<1> SUFFICES ASSUME IInv, [Next]_vars PROVE IInv'
  OBVIOUS
<1>1. CASE RunStep
  BY <1>1, SendChunkKeeps, GrantedKeeps, BeginWorkKeeps, PresignFailedKeeps,
     TakeExpiredKeeps, TakeToPutKeeps, TakeToCompleteKeeps, PutOkKeeps, PutExpiredKeeps,
     PutFailedKeeps, CompleteOkKeeps, CompleteFailedKeeps, EndRunKeeps, GoWaitKeeps,
     GoRepresignKeeps, BackoffOverKeeps DEF RunStep
<1>2. CASE Outside
  BY <1>2, AddKeeps, ForgetKeeps, PruneKeeps, RetryFailedKeeps, StartRunKeeps, RestartKeeps,
     RescueKeeps
  DEF Outside
<1>3. CASE UNCHANGED vars
  BY <1>3, StutterKeeps
<1> QED BY <1>1, <1>2, <1>3 DEF Next

LEMMA Invariance == Spec => []IInv
BY InitHolds, NextKeeps, PTL DEF Spec

\* Every variable of the queue keeps its type: attempts, rounds and retries included,
\* which is where a run that never ends would show.
THEOREM TypeCorrect == Spec => []TypeOK
BY Invariance, PTL DEF IInv

\* No entry is in two places of a run at once: in two of its lists, in a list and
\* with a worker, or with two workers.
THEOREM SharedWork == Spec => []NoSharedWork
BY Invariance, PTL DEF IInv

\* An entry with all of its attempts spent is not tried again by any run.
THEOREM Exhausted == Spec => []ExhaustedRests
BY Invariance, PTL DEF IInv

\* The server's rows for an entry are the one the queue names, those it never heard of
\* and those that hold their confirmed file: no attempt leaves an empty one behind.
THEOREM EmptyRows == Spec => []NoEmptyRowLeft
BY Invariance, PTL DEF IInv

\* "done" is never claimed for an upload the server did not confirm.
THEOREM DoneStored == Spec => []DoneMeansStored
BY Invariance, PTL DEF IInv

-----------------------------------------------------------------------------
LEMMA UploadedStays ==
    ASSUME IInv, [Next]_vars, NEW i \in Items, Status(i) = "uploaded"
    PROVE  Status(i)' \in {"uploaded", "done", "failed"}
<1> USE DEF Status
<1>1. ASSUME items' = items PROVE Status(i)' = "uploaded"
  BY <1>1
<1>2. ASSUME NEW s \in Scopes, RetryFailed(s) PROVE Status(i)' = "uploaded"
  BY <1>2 DEF RetryFailed, Held, IInv, TypeOK
<1>3. CASE Granted
  BY <1>3 DEF Granted, IInv, HeldStatus, TypeOK
<1>4. ASSUME NEW err \in Errors, PresignFailed(err) PROVE Status(i)' = "uploaded"
  BY <1>4 DEF PresignFailed, IInv, HeldStatus, TypeOK
<1>5. ASSUME NEW w \in Workers, NEW j \in Items, TakeExpired(w, j)
      PROVE  Status(i)' = "uploaded"
  BY <1>5 DEF TakeExpired, SendBack, IInv, TypeOK
<1>6. ASSUME NEW w \in Workers, PutOk(w) PROVE Status(i)' = "uploaded"
  BY <1>6 DEF PutOk, IInv, TypeOK, QueueItem
<1>7. ASSUME NEW w \in Workers, PutExpired(w) PROVE Status(i)' = "uploaded"
  BY <1>7 DEF PutExpired, SendBack, IInv, TypeOK, HeldStatus
<1>8. ASSUME NEW w \in Workers, NEW err, PutFailed(w, err) PROVE Status(i)' = "uploaded"
  BY <1>8 DEF PutFailed, IInv, TypeOK, HeldStatus
<1>9. ASSUME NEW w \in Workers, CompleteOk(w) PROVE Status(i)' \in {"uploaded", "done"}
  BY <1>9 DEF CompleteOk, IInv, TypeOK, QueueItem
<1>10. ASSUME NEW w \in Workers, NEW err \in Errors, CompleteFailed(w, err)
       PROVE  Status(i)' \in {"uploaded", "failed"}
  <2>1. CASE i # work[w]
    BY <2>1, <1>10 DEF CompleteFailed, IInv, TypeOK
  <2>2. CASE i = work[w]
    <3>1. items[i] \in QueueItem /\ items[i].attempts < MAX_ATTEMPTS
      BY DEF IInv, TypeOK, ExhaustedRests
    <3>2. items'[i] = KeepUploaded(Settle(items[i], err))
      BY <2>2, <1>10 DEF CompleteFailed, IInv, TypeOK
    <3>3. Settle(items[i], err).status \in {"uploaded", "failed", "pending"}
      BY <1>10, <3>1 DEF Settle, Errors, Offline, Refused, SourceGone
    <3>4. Settle(items[i], err) \in QueueItem
      BY <3>1, SettleType
    <3> QED BY <3>2, <3>3, <3>4 DEF KeepUploaded, QueueItem
  <2> QED BY <2>1, <2>2
<1>11. ASSUME NEW gone \in SUBSET queued, Restart(gone) PROVE Status(i)' = "uploaded"
  BY <1>11 DEF Restart, IInv, TypeOK
<1>12. CASE RunStep
  BY <1>12, <1>1, <1>3, <1>4, <1>5, <1>6, <1>7, <1>8, <1>9, <1>10
  DEF RunStep, SendChunk, BeginWork, TakeToPut, TakeToComplete, EndRun, GoWait,
      GoRepresign, BackoffOver
<1>13. CASE Outside
  BY <1>13, <1>1, <1>2, <1>11 DEF Outside, Add, Forget, Prune, Run, Rescue
<1> QED BY <1>1, <1>12, <1>13 DEF Next, vars

\* While the process lives, an entry whose bytes went up is next confirmed or given up
\* on: no failed confirmation makes it pending again.
THEOREM NotResent == Spec => StoredBytesNotResent
<1>1. IInv /\ [Next]_vars =>
        [\A i \in Items :
            Status(i) = "uploaded" => Status(i)' \in {"uploaded", "done", "failed"}]_vars
  BY UploadedStays
<1> QED BY <1>1, Invariance, PTL DEF Spec, StoredBytesNotResent

\* What each action of a paused run leaves in flight.
LEMMA PausedStep ==
    ASSUME IInv, [Next]_vars, running, paused, running'
    PROVE  /\ sending' \subseteq sending
           /\ \A w \in Workers : CarriesOn(w)
<1>1. ~SendChunk
  BY DEF SendChunk, Chunks, IInv, Phases
<1>2. ASSUME UNCHANGED <<work, stage>> PROVE \A w \in Workers : CarriesOn(w)
  BY <1>2 DEF CarriesOn
<1>3. ASSUME NEW w \in Workers, Free(w) PROVE \A v \in Workers : CarriesOn(v)
  BY <1>3 DEF Free, CarriesOn, IInv, TypeOK
<1>4. ASSUME NEW w \in Workers, PutOk(w)
      PROVE  sending' \subseteq sending /\ \A v \in Workers : CarriesOn(v)
  BY <1>4 DEF PutOk, CarriesOn, IInv, TypeOK
<1>5. ASSUME NEW w \in Workers,
             \/ PutExpired(w) \/ CompleteOk(w)
             \/ \E err \in Errors \cup {SourceGone} : PutFailed(w, err)
             \/ \E err \in Errors : CompleteFailed(w, err)
      PROVE  sending' \subseteq sending /\ \A v \in Workers : CarriesOn(v)
  BY <1>5, <1>3 DEF PutExpired, PutFailed, CompleteOk, CompleteFailed
<1>6. CASE RunStep
  BY <1>1, <1>2, <1>4, <1>5, <1>6
  DEF RunStep, Granted, PresignFailed, BeginWork, CanTake, TakeExpired, TakeToPut,
      TakeToComplete, EndRun, GoWait, GoRepresign, BackoffOver, BeginRound, IInv, TypeOK,
      Phases, run
<1>7. CASE Outside
  BY <1>2, <1>7 DEF Outside, Add, Forget, Prune, RetryFailed, Run, Restart, Rescue
<1>8. CASE UNCHANGED vars
  BY <1>2, <1>8 DEF vars
<1> QED BY <1>6, <1>7, <1>8 DEF Next

\* A run that has found no network takes up nothing more: no chunk is sent and no
\* worker takes an entry, though one may still confirm the bytes it has just sent.
THEOREM PausedRuns == Spec => PausedTakesNothingUp
<1>1. IInv /\ [Next]_vars =>
        [running /\ paused /\ running' =>
            /\ sending' \subseteq sending
            /\ \A w \in Workers : CarriesOn(w)]_vars
  BY PausedStep
<1> QED BY <1>1, Invariance, PTL DEF Spec, PausedTakesNothingUp
=============================================================================

---------------------------- MODULE IngestProofs ----------------------------
(* The safety of Ingest for any number of photographs, contents and requests.  *)
(*                                                                             *)
(* Two inductive invariants. IInv is kept by every step, whatever comes        *)
(* between a request's read and its write: what is visible was scanned, is     *)
(* shown once, and what was matched stays hidden. SInv is kept, beside IInv,   *)
(* when Prompt forbids anything to come between: it ties each job to the state *)
(* of its row and each content to what storage holds of it, and it is what     *)
(* makes Ingest an implementation of Album.                                    *)
EXTENDS Ingest, TLAPS

\* The object at a final key: the content itself, stripped.
Full(c) == [of |-> c, stripped |-> TRUE]

\* What a job knows by the point it has reached, whatever its row says by now.
JobHolds ==
    \A p \in Photos :
        /\ job[p] # NoJob => status[p] # "absent"
        /\ job[p].pc \notin {"idle", "get"} => job[p].bytes \in Contents
        /\ job[p].pc \in {"put", "derive", "commit", "clean"} => job[p].bytes \notin Bad
        /\ job[p].pc \in {"preserve", "record"} => hiddenAt[p]
        /\ job[p].pc = "record" => p \in preserved

\* A row is moved to a content once, at the commit, and only to one that passed.
RowMoved ==
    \A p \in Photos :
        /\ contentHash[p] # None =>
              /\ status[p] # "absent"
              /\ contentHash[p] \notin Bad
              /\ storageKey[p] = contentHash[p]
        /\ status[p] = "ready" => contentHash[p] # None

\* Whatever the scanner matched is hidden.
Matched ==
    \A p \in Photos :
        p \in preserved \cup incidents \/ status[p] = "quarantined" => hiddenAt[p]

\* What the unique index keeps.
OneLive ==
    \A p, q \in Photos :
        Live(p) /\ Live(q) /\ contentHash[p] = contentHash[q] /\ contentHash[p] # None
            => p = q

\* Kept by every step.
IInv == TypeOK /\ JobHolds /\ RowMoved /\ Matched /\ EvidenceFirst /\ OneLive

\* At most one request is under way, and what it read is still so.
Alone ==
    /\ \A r, s \in Requests : request[r] # Idle /\ request[s] # Idle => r = s
    /\ \A r \in Requests :
          request[r] # Idle =>
            /\ Draft(request[r].photo)
            /\ request[r].key = storageKey[request[r].photo]

\* A row that was never presigned has no history, and only a match hides one.
Untouched ==
    \A p \in Photos :
        /\ status[p] = "absent" => ~deletedAt[p]
        /\ hiddenAt[p] => status[p] = "quarantined"

\* The bytes are at the row's own upload key until the row is ready.
Placed ==
    \A p \in Photos :
        /\ contentHash[p] # None <=> status[p] = "ready"
        /\ contentHash[p] = None => storageKey[p] = p
        /\ url[p] \in {None, p}

\* A job and its row agree: nobody else has decided the row.
Working ==
    \A p \in Photos :
        job[p] # NoJob =>
            /\ job[p].key = p
            /\ status[p] = "ready" <=> job[p].pc = "clean"
            /\ hiddenAt[p] <=> job[p].pc \in {"preserve", "record"}

\* What a job has stored, and what a committed row links to, is there.
Stored ==
    \A p \in Photos :
        /\ job[p].pc = "derive" /\ job[p].bytes \notin Undecodable =>
              store[job[p].bytes] = Full(job[p].bytes)
        /\ job[p].pc = "commit" =>
              /\ job[p].bytes \in derived \ Undecodable
              /\ store[job[p].bytes] = Full(job[p].bytes)
        /\ contentHash[p] # None =>
              /\ contentHash[p] \in derived \ Undecodable
              /\ store[contentHash[p]] = Full(contentHash[p])

\* Kept beside IInv when requests are prompt.
SInv ==
    /\ Alone /\ Untouched /\ Placed /\ Working /\ Stored
    /\ FinalKeysAreScreened

-----------------------------------------------------------------------------
\* A request that acts is about a photograph of the album, and is over.
LEMMA ActsOn ==
    ASSUME TypeOK, NEW r \in Requests, NEW op \in Operations, Acts(r, op)
    PROVE  /\ request[r].photo \in Photos
           /\ request[r].key \in Keys
           /\ request' \in [Requests -> [op : Operations, photo : Photos, key : Keys]
                                            \cup {Idle}]
BY DEF TypeOK, Acts, Operations, Sweeps, Idle

\* A best-effort delete leaves every object as it is, or gone.
LEMMA Deleting ==
    ASSUME TypeOK, NEW key, Delete(key)
    PROVE  /\ store' \in [Keys -> Object \cup {NoObject}]
           /\ \A k \in Keys : store'[k] \in {store[k], NoObject}
BY DEF TypeOK, Delete, NoObject, Object

\* It can put nothing at a final key.
LEMMA DeletingScreens ==
    ASSUME TypeOK, FinalKeysAreScreened, NEW key, Delete(key)
    PROVE  FinalKeysAreScreened'
BY Deleting DEF FinalKeysAreScreened, Keys

\* No content gets a second live row when no row comes back to life.
LEMMA NoneRevived ==
    ASSUME OneLive, UNCHANGED contentHash, \A q \in Photos : Live(q)' => Live(q)
    PROVE  OneLive'
BY DEF OneLive

\* A new row keeps IInv.
LEMMA PresignKeeps ==
    ASSUME IInv, NEW p \in Photos, Presign(p)
    PROVE  IInv'
<1>1. TypeOK'
  BY IngestAssumption
  DEF IInv, TypeOK, Presign, Quiet, Grant, objects, Idle, NoObject, NoJob,
      Operations, Keys, Content, Object, Status
<1>2. JobHolds'
  BY IngestAssumption
  DEF IInv, TypeOK, JobHolds, Presign, Quiet, Grant, objects, Idle, NoObject, NoJob
<1>3. RowMoved'
  BY IngestAssumption
  DEF IInv, TypeOK, RowMoved, Presign, Quiet, Grant, objects, Idle, NoObject, NoJob
<1>4. Matched'
  BY IngestAssumption
  DEF IInv, TypeOK, Matched, Presign, Quiet, Grant, objects, Idle, NoObject, NoJob
<1>5. OneLive'
  BY IngestAssumption
  DEF IInv, TypeOK, OneLive, JobHolds, RowMoved, Presign, Quiet, Grant, objects,
      Idle, NoObject, NoJob, Live, Keys, Content, Object
<1>6. EvidenceFirst'
  BY DEF IInv, EvidenceFirst, Presign, Quiet, Grant, objects, Idle
<1> QED BY <1>1, <1>2, <1>3, <1>4, <1>5, <1>6 DEF IInv

\* A PUT by the uploader keeps IInv.
LEMMA PutKeeps ==
    ASSUME IInv, NEW p \in Photos, NEW c \in Contents, Put(p, c)
    PROVE  IInv'
<1>1. TypeOK'
  BY IngestAssumption
  DEF IInv, TypeOK, Put, Quiet, row, Idle, NoObject, NoJob, Operations, Keys,
      Content, Object, Status
<1>2. (JobHolds /\ RowMoved /\ Matched /\ EvidenceFirst /\ OneLive)'
  BY DEF IInv, JobHolds, RowMoved, Matched, EvidenceFirst, OneLive, NoJob, Live,
         Put, Quiet, row, Idle
<1> QED BY <1>1, <1>2 DEF IInv

\* A request that reads its row keeps IInv.
LEMMA ReadKeeps ==
    ASSUME IInv, NEW r \in Requests, NEW op \in Operations, NEW p \in Photos, Read(r, op, p)
    PROVE  IInv'
<1>1. TypeOK'
  BY IngestAssumption
  DEF IInv, TypeOK, Read, Quiet, Idle, Asks, row, objects, Draft, NoObject, NoJob,
      Operations, Keys, Content, Object, Status
<1>2. (JobHolds /\ RowMoved /\ Matched /\ EvidenceFirst /\ OneLive)'
  BY DEF IInv, JobHolds, RowMoved, Matched, EvidenceFirst, OneLive, NoJob, Live,
         Read, Quiet, Idle, Asks, row, objects, Draft
<1> QED BY <1>1, <1>2 DEF IInv

\* Confirming an upload keeps IInv.
LEMMA CompleteKeeps ==
    ASSUME IInv, NEW r \in Requests, Complete(r)
    PROVE  IInv'
<1>1. /\ request[r].photo \in Photos
      /\ request' \in [Requests -> [op : Operations, photo : Photos, key : Keys] \cup {Idle}]
  BY ActsOn DEF IInv, Complete, Operations
<1>2. TypeOK'
  <2>1. queue' \subseteq Photos
    BY <1>1 DEF IInv, TypeOK, Complete, Publish
  <2>2. status' \in [Photos -> Status] /\ bytesAt' \in [Photos -> BOOLEAN]
    BY <1>1 DEF IInv, TypeOK, Complete, Status
  <2> QED BY <1>1, <2>1, <2>2 DEF IInv, TypeOK, Complete, objects
<1>3. JobHolds'
  BY IngestAssumption
  DEF IInv, TypeOK, JobHolds, Complete, Acts, NoObject, Publish, objects, Idle,
      NoJob
<1>4. RowMoved'
  BY IngestAssumption
  DEF IInv, TypeOK, RowMoved, Complete, Acts, NoObject, Publish, objects, Idle,
      NoJob
<1>5. Matched'
  BY IngestAssumption
  DEF IInv, TypeOK, Matched, Complete, Acts, NoObject, Publish, objects, Idle, NoJob
<1>6. OneLive'
  BY IngestAssumption
  DEF IInv, TypeOK, OneLive, JobHolds, RowMoved, Complete, Acts, NoObject, Publish,
      objects, Idle, NoJob, Live, Keys, Content, Object
<1>7. EvidenceFirst'
  BY DEF IInv, EvidenceFirst, Complete, Acts, NoObject, Publish, objects, Idle
<1> QED BY <1>2, <1>3, <1>4, <1>5, <1>6, <1>7 DEF IInv

\* Trying a draft again keeps IInv.
LEMMA RetryKeeps ==
    ASSUME IInv, NEW r \in Requests, Retry(r)
    PROVE  IInv'
<1>1. /\ request[r].photo \in Photos
      /\ request' \in [Requests -> [op : Operations, photo : Photos, key : Keys] \cup {Idle}]
  BY ActsOn DEF IInv, Retry, Operations
<1>2. TypeOK'
  <2>1. queue' \subseteq Photos
    BY <1>1 DEF IInv, TypeOK, Retry, Publish
  <2>2. status' \in [Photos -> Status] /\ bytesAt' \in [Photos -> BOOLEAN]
    BY <1>1 DEF IInv, TypeOK, Retry, Status
  <2> QED BY <1>1, <2>1, <2>2 DEF IInv, TypeOK, Retry, objects
<1>3. JobHolds'
  BY IngestAssumption
  DEF IInv, TypeOK, JobHolds, Retry, Acts, NoObject, Publish, objects, Idle, NoJob
<1>4. RowMoved'
  BY IngestAssumption
  DEF IInv, TypeOK, RowMoved, Retry, Acts, NoObject, Publish, objects, Idle, NoJob
<1>5. Matched'
  BY IngestAssumption
  DEF IInv, TypeOK, Matched, Retry, Acts, NoObject, Publish, objects, Idle, NoJob
<1>6. OneLive'
  BY IngestAssumption
  DEF IInv, TypeOK, OneLive, JobHolds, RowMoved, Retry, Acts, NoObject, Publish,
      objects, Idle, NoJob, Live, Keys, Content, Object
<1>7. EvidenceFirst'
  BY DEF IInv, EvidenceFirst, Retry, Acts, NoObject, Publish, objects, Idle
<1> QED BY <1>2, <1>3, <1>4, <1>5, <1>6, <1>7 DEF IInv

\* Discarding a draft keeps IInv.
LEMMA DiscardKeeps ==
    ASSUME IInv, NEW r \in Requests, Discard(r)
    PROVE  IInv'
<1>1. TypeOK'
  <2>1. store' \in [Keys -> Object \cup {NoObject}]
    BY Deleting DEF IInv, Discard
  <2>2. request' \in [Requests -> [op : Operations, photo : Photos, key : Keys]
                                        \cup {Idle}]
    BY ActsOn DEF IInv, Discard, Operations
  <2>3. /\ status' \in [Photos -> Status]
        /\ bytesAt' \in [Photos -> BOOLEAN] /\ deletedAt' \in [Photos -> BOOLEAN]
    BY DEF IInv, TypeOK, Discard, Status
  <2> QED BY <2>1, <2>2, <2>3 DEF IInv, TypeOK, Discard
<1>2. JobHolds'
  BY IngestAssumption
  DEF IInv, TypeOK, JobHolds, Discard, Acts, Delete, Idle, NoObject, NoJob
<1>3. RowMoved'
  BY IngestAssumption
  DEF IInv, TypeOK, RowMoved, Discard, Acts, Delete, Idle, NoObject, NoJob
<1>4. Matched'
  BY IngestAssumption
  DEF IInv, TypeOK, Matched, Discard, Acts, Delete, Idle, NoObject, NoJob
<1>5. OneLive'
  <2>1. UNCHANGED contentHash /\ \A q \in Photos : Live(q)' => Live(q)
    BY DEF IInv, TypeOK, Discard, Live
  <2> QED BY <2>1, NoneRevived DEF IInv
<1>6. EvidenceFirst'
  BY DEF IInv, EvidenceFirst, Discard, Acts, Delete, Idle, NoObject
<1> QED BY <1>1, <1>2, <1>3, <1>4, <1>5, <1>6 DEF IInv

\* Taking a draft over for a new upload keeps IInv.
LEMMA ClaimKeeps ==
    ASSUME IInv, NEW r \in Requests, Claim(r)
    PROVE  IInv'
<1>1. TypeOK'
  BY IngestAssumption
  DEF IInv, TypeOK, Claim, Acts, Grant, objects, Idle, NoObject, NoJob, Operations,
      Keys, Content, Object, Status
<1>2. JobHolds'
  BY IngestAssumption
  DEF IInv, TypeOK, JobHolds, Claim, Acts, Grant, objects, Idle, NoObject, NoJob
<1>3. RowMoved'
  BY IngestAssumption
  DEF IInv, TypeOK, RowMoved, Claim, Acts, Grant, objects, Idle, NoObject, NoJob
<1>4. Matched'
  BY IngestAssumption
  DEF IInv, TypeOK, Matched, Claim, Acts, Grant, objects, Idle, NoObject, NoJob
<1>5. OneLive'
  BY IngestAssumption
  DEF IInv, TypeOK, OneLive, JobHolds, RowMoved, Claim, Acts, Grant, objects, Idle,
      NoObject, NoJob, Live, Keys, Content, Object
<1>6. EvidenceFirst'
  BY DEF IInv, EvidenceFirst, Claim, Acts, Grant, objects, Idle
<1> QED BY <1>1, <1>2, <1>3, <1>4, <1>5, <1>6 DEF IInv

\* The rescue of unconfirmed bytes keeps IInv.
LEMMA RescueKeeps ==
    ASSUME IInv, NEW r \in Requests, Rescue(r)
    PROVE  IInv'
<1>1. TypeOK'
  BY IngestAssumption
  DEF IInv, TypeOK, Rescue, Acts, NoObject, objects, Idle, NoJob, Operations, Keys,
      Content, Object, Status
<1>2. (JobHolds /\ RowMoved /\ Matched /\ EvidenceFirst /\ OneLive)'
  BY DEF IInv, JobHolds, RowMoved, Matched, EvidenceFirst, OneLive, NoJob, Live,
         Rescue, Acts, NoObject, objects, Idle
<1> QED BY <1>1, <1>2 DEF IInv

\* What the sweep does with a row keeps IInv.
LEMMA SweepKeeps ==
    ASSUME IInv, NEW r \in Requests, NEW op \in Sweeps, Sweep(r, op)
    PROVE  IInv'
<1>1. TypeOK'
  <2>1. store' \in [Keys -> Object \cup {NoObject}]
    BY Deleting DEF IInv, Sweep
  <2>2. request' \in [Requests -> [op : Operations, photo : Photos, key : Keys]
                                        \cup {Idle}]
    BY ActsOn DEF IInv, Sweep, Operations
  <2>3. /\ status' \in [Photos -> Status]
        /\ bytesAt' \in [Photos -> BOOLEAN] /\ deletedAt' \in [Photos -> BOOLEAN]
    BY DEF IInv, TypeOK, Sweep, Status
  <2> QED BY <2>1, <2>2, <2>3 DEF IInv, TypeOK, Sweep
<1>2. JobHolds'
  <2>1. \A p \in Photos : status[p] # "absent" => status'[p] # "absent"
    BY DEF IInv, TypeOK, Sweep
  <2> QED BY <2>1 DEF IInv, JobHolds, Sweep
<1>3. RowMoved'
  <2>1. \A p \in Photos : status'[p] \in {status[p], "failed"}
    BY DEF IInv, TypeOK, Sweep
  <2> QED BY <2>1 DEF IInv, RowMoved, Sweep
<1>4. Matched'
  <2>1. \A p \in Photos : status'[p] \in {status[p], "failed"}
    BY DEF IInv, TypeOK, Sweep
  <2> QED BY <2>1 DEF IInv, Matched, Sweep
<1>5. OneLive'
  <2>1. UNCHANGED contentHash
    BY DEF Sweep
  <2>2. \A q \in Photos : contentHash[q] # None => status[q] # "absent"
    BY DEF IInv, RowMoved
  <2>3. \A q \in Photos : deletedAt[q] => deletedAt'[q]
    BY DEF IInv, TypeOK, Sweep
  <2> QED BY <2>1, <2>2, <2>3 DEF IInv, OneLive, Live
<1>6. EvidenceFirst'
  BY DEF IInv, EvidenceFirst, Sweep
<1> QED BY <1>1, <1>2, <1>3, <1>4, <1>5, <1>6 DEF IInv

\* A request that dies keeps IInv.
LEMMA GiveUpKeeps ==
    ASSUME IInv, NEW r \in Requests, GiveUp(r)
    PROVE  IInv'
<1>1. TypeOK'
  BY IngestAssumption
  DEF IInv, TypeOK, GiveUp, Idle, row, objects, NoObject, NoJob, Operations, Keys,
      Content, Object, Status
<1>2. (JobHolds /\ RowMoved /\ Matched /\ EvidenceFirst /\ OneLive)'
  BY DEF IInv, JobHolds, RowMoved, Matched, EvidenceFirst, OneLive, NoJob, Live,
         GiveUp, Idle, row, objects
<1> QED BY <1>1, <1>2 DEF IInv

\* A week of waiting keeps IInv.
LEMMA WeekPassesKeeps ==
    ASSUME IInv, NEW p \in Photos, WeekPasses(p)
    PROVE  IInv'
<1>1. TypeOK'
  BY IngestAssumption
  DEF IInv, TypeOK, WeekPasses, objects, Idle, NoObject, NoJob, Operations, Keys,
      Content, Object, Status
<1>2. (JobHolds /\ RowMoved /\ Matched /\ EvidenceFirst /\ OneLive)'
  BY DEF IInv, JobHolds, RowMoved, Matched, EvidenceFirst, OneLive, NoJob, Live,
         WeekPasses, objects
<1> QED BY <1>1, <1>2 DEF IInv

\* The cron's resend keeps IInv.
LEMMA RequeueKeeps ==
    ASSUME IInv, NEW p \in Photos, Requeue(p)
    PROVE  IInv'
<1>1. TypeOK'
  BY IngestAssumption
  DEF IInv, TypeOK, Requeue, Quiet, Stranded, row, objects, Idle, NoObject, NoJob,
      Operations, Keys, Content, Object, Status
<1>2. (JobHolds /\ RowMoved /\ Matched /\ EvidenceFirst /\ OneLive)'
  BY DEF IInv, JobHolds, RowMoved, Matched, EvidenceFirst, OneLive, NoJob, Live,
         Requeue, Quiet, Stranded, row, objects, Idle
<1> QED BY <1>1, <1>2 DEF IInv

\* A lost message keeps IInv.
LEMMA LoseKeeps ==
    ASSUME IInv, NEW p \in Photos, Lose(p)
    PROVE  IInv'
<1>1. TypeOK'
  BY IngestAssumption
  DEF IInv, TypeOK, Lose, Quiet, row, objects, Idle, NoObject, NoJob, Operations,
      Keys, Content, Object, Status
<1>2. (JobHolds /\ RowMoved /\ Matched /\ EvidenceFirst /\ OneLive)'
  BY DEF IInv, JobHolds, RowMoved, Matched, EvidenceFirst, OneLive, NoJob, Live,
         Lose, Quiet, row, objects, Idle
<1> QED BY <1>1, <1>2 DEF IInv

\* A delivery that is taken keeps IInv.
LEMMA StartKeeps ==
    ASSUME IInv, NEW p \in Photos, Start(p)
    PROVE  IInv'
<1>1. TypeOK'
  BY IngestAssumption
  DEF IInv, TypeOK, Start, Taken, Processable, row, objects, Quiet, NoJob,
      InFlight, Idle, NoObject, Operations, Keys, Content, Object, Status
<1>2. JobHolds'
  BY IngestAssumption
  DEF IInv, TypeOK, JobHolds, Start, Taken, Processable, row, objects, Quiet,
      NoJob, InFlight, Idle, NoObject
<1>3. (RowMoved /\ Matched /\ EvidenceFirst /\ OneLive)'
  BY DEF IInv, RowMoved, Matched, EvidenceFirst, OneLive, Live, Start, Taken,
         Processable, row, objects, Quiet, NoJob, InFlight, Idle
<1> QED BY <1>1, <1>2, <1>3 DEF IInv

\* A delivery that is refused keeps IInv.
LEMMA RefuseKeeps ==
    ASSUME IInv, NEW p \in Photos, Refuse(p)
    PROVE  IInv'
<1>1. TypeOK'
  BY IngestAssumption
  DEF IInv, TypeOK, Refuse, Taken, Processable, row, objects, Quiet, NoJob,
      InFlight, Idle, NoObject, Operations, Keys, Content, Object, Status
<1>2. (JobHolds /\ RowMoved /\ Matched /\ EvidenceFirst /\ OneLive)'
  BY DEF IInv, JobHolds, RowMoved, Matched, EvidenceFirst, OneLive, NoJob, Live,
         Refuse, Taken, Processable, row, objects, Quiet, InFlight, Idle
<1> QED BY <1>1, <1>2 DEF IInv

\* Reading the bytes keeps IInv.
LEMMA GetKeeps ==
    ASSUME IInv, NEW p \in Photos, Get(p)
    PROVE  IInv'
<1>1. job[p].key \in Keys
  BY DEF IInv, TypeOK, Get, At, NoJob
<1>2. store[job[p].key].of \in Contents
  BY <1>1 DEF IInv, TypeOK, Get, Object
<1>3. TypeOK'
  BY IngestAssumption
  DEF IInv, TypeOK, Get, At, NoObject, row, objects, Quiet, Idle, NoJob,
      Operations, Keys, Content, Object, Status
<1>4. JobHolds'
  BY <1>2 DEF IInv, TypeOK, JobHolds, Get, At, NoJob, row, objects
<1>5. (RowMoved /\ Matched /\ EvidenceFirst /\ OneLive)'
  BY DEF IInv, RowMoved, Matched, EvidenceFirst, OneLive, Live, Get, At, NoObject,
         row, objects, Quiet, Idle
<1> QED BY <1>3, <1>4, <1>5 DEF IInv

\* Failing to read the bytes keeps IInv.
LEMMA GetFailsKeeps ==
    ASSUME IInv, NEW p \in Photos, GetFails(p)
    PROVE  IInv'
<1>1. TypeOK'
  BY IngestAssumption
  DEF IInv, TypeOK, GetFails, At, Fail, Quiet, End, Answered, Idle, NoJob,
      NoObject, Operations, Keys, Content, Object, Status
<1>2. JobHolds'
  BY IngestAssumption
  DEF IInv, TypeOK, JobHolds, GetFails, At, Fail, Quiet, End, Answered, Idle,
      NoJob, NoObject
<1>3. RowMoved'
  BY IngestAssumption
  DEF IInv, TypeOK, RowMoved, GetFails, At, Fail, Quiet, End, Answered, Idle,
      NoJob, NoObject
<1>4. Matched'
  BY IngestAssumption
  DEF IInv, TypeOK, Matched, GetFails, At, Fail, Quiet, End, Answered, Idle, NoJob,
      NoObject
<1>5. OneLive'
  BY IngestAssumption
  DEF IInv, TypeOK, OneLive, JobHolds, RowMoved, GetFails, At, Fail, Quiet, End,
      Answered, Idle, NoJob, NoObject, Live, Keys, Content, Object
<1>6. EvidenceFirst'
  BY DEF IInv, EvidenceFirst, GetFails, At, Fail, Quiet, End, Answered, Idle, NoJob
<1> QED BY <1>1, <1>2, <1>3, <1>4, <1>5, <1>6 DEF IInv

\* Finding the content in the album keeps IInv.
LEMMA DuplicateKeeps ==
    ASSUME IInv, NEW p \in Photos, Duplicate(p)
    PROVE  IInv'
<1>1. TypeOK'
  BY IngestAssumption
  DEF IInv, TypeOK, Duplicate, At, Twins, Delete, Goto, row, Quiet, Live, NoObject,
      Idle, NoJob, Operations, Keys, Content, Object, Status
<1>2. JobHolds'
  BY IngestAssumption
  DEF IInv, TypeOK, JobHolds, Duplicate, At, Twins, Delete, Goto, row, Quiet, Live,
      NoObject, Idle, NoJob
<1>3. (RowMoved /\ Matched /\ EvidenceFirst /\ OneLive)'
  BY DEF IInv, RowMoved, Matched, EvidenceFirst, OneLive, Live, Duplicate, At,
         Twins, Delete, Goto, row, Quiet, NoObject, Idle
<1> QED BY <1>1, <1>2, <1>3 DEF IInv

\* Removing a duplicate's row keeps IInv.
LEMMA TombstoneKeeps ==
    ASSUME IInv, NEW p \in Photos, Tombstone(p)
    PROVE  IInv'
<1>1. TypeOK'
  BY IngestAssumption
  DEF IInv, TypeOK, Tombstone, At, End, Answered, objects, Quiet, NoJob, Idle,
      NoObject, Operations, Keys, Content, Object, Status
<1>2. JobHolds'
  BY IngestAssumption
  DEF IInv, TypeOK, JobHolds, Tombstone, At, End, Answered, objects, Quiet, NoJob,
      Idle, NoObject
<1>3. RowMoved'
  BY IngestAssumption
  DEF IInv, TypeOK, RowMoved, Tombstone, At, End, Answered, objects, Quiet, NoJob,
      Idle, NoObject
<1>4. Matched'
  BY IngestAssumption
  DEF IInv, TypeOK, Matched, Tombstone, At, End, Answered, objects, Quiet, NoJob,
      Idle, NoObject
<1>5. OneLive'
  BY IngestAssumption
  DEF IInv, TypeOK, OneLive, Tombstone, At, End, Answered, objects, Quiet, NoJob,
      Idle, NoObject, Live
<1>6. EvidenceFirst'
  BY DEF IInv, EvidenceFirst, Tombstone, At, End, Answered, objects, Quiet, NoJob,
         Idle
<1> QED BY <1>1, <1>2, <1>3, <1>4, <1>5, <1>6 DEF IInv

\* Finding the content new keeps IInv.
LEMMA UniqueKeeps ==
    ASSUME IInv, NEW p \in Photos, Unique(p)
    PROVE  IInv'
<1>1. TypeOK'
  BY IngestAssumption
  DEF IInv, TypeOK, Unique, At, Twins, Goto, row, objects, Quiet, Live, Idle,
      NoObject, NoJob, Operations, Keys, Content, Object, Status
<1>2. JobHolds'
  BY IngestAssumption
  DEF IInv, TypeOK, JobHolds, Unique, At, Twins, Goto, row, objects, Quiet, Live,
      Idle, NoObject, NoJob
<1>3. (RowMoved /\ Matched /\ EvidenceFirst /\ OneLive)'
  BY DEF IInv, RowMoved, Matched, EvidenceFirst, OneLive, Live, Unique, At, Twins,
         Goto, row, objects, Quiet, Idle
<1> QED BY <1>1, <1>2, <1>3 DEF IInv

\* A scan that passes keeps IInv.
LEMMA PassKeeps ==
    ASSUME IInv, NEW p \in Photos, Pass(p)
    PROVE  IInv'
<1>1. TypeOK'
  BY IngestAssumption
  DEF IInv, TypeOK, Pass, At, Goto, row, objects, Quiet, Idle, NoObject, NoJob,
      Operations, Keys, Content, Object, Status
<1>2. JobHolds'
  BY IngestAssumption
  DEF IInv, TypeOK, JobHolds, Pass, At, Goto, row, objects, Quiet, Idle, NoObject,
      NoJob
<1>3. (RowMoved /\ Matched /\ EvidenceFirst /\ OneLive)'
  BY DEF IInv, RowMoved, Matched, EvidenceFirst, OneLive, Live, Pass, At, Goto,
         row, objects, Quiet, Idle
<1> QED BY <1>1, <1>2, <1>3 DEF IInv

\* A scan that matches keeps IInv.
LEMMA MatchKeeps ==
    ASSUME IInv, NEW p \in Photos, Match(p)
    PROVE  IInv'
<1>1. TypeOK'
  BY IngestAssumption
  DEF IInv, TypeOK, Match, At, Goto, objects, Quiet, Idle, NoObject, NoJob,
      Operations, Keys, Content, Object, Status
<1>2. JobHolds'
  BY IngestAssumption
  DEF IInv, TypeOK, JobHolds, Match, At, Goto, objects, Quiet, Idle, NoObject, NoJob
<1>3. RowMoved'
  BY IngestAssumption
  DEF IInv, TypeOK, RowMoved, Match, At, Goto, objects, Quiet, Idle, NoObject, NoJob
<1>4. Matched'
  BY IngestAssumption
  DEF IInv, TypeOK, Matched, Match, At, Goto, objects, Quiet, Idle, NoObject, NoJob
<1>5. OneLive'
  BY IngestAssumption
  DEF IInv, TypeOK, OneLive, JobHolds, RowMoved, Match, At, Goto, objects, Quiet,
      Idle, NoObject, NoJob, Live, Keys, Content, Object
<1>6. EvidenceFirst'
  BY DEF IInv, EvidenceFirst, Match, At, Goto, objects, Quiet, Idle
<1> QED BY <1>1, <1>2, <1>3, <1>4, <1>5, <1>6 DEF IInv

\* The copy to preserved/ keeps IInv.
LEMMA PreserveKeeps ==
    ASSUME IInv, NEW p \in Photos, Preserve(p)
    PROVE  IInv'
<1>1. TypeOK'
  BY IngestAssumption
  DEF IInv, TypeOK, Preserve, At, Goto, row, Quiet, Idle, NoObject, NoJob,
      Operations, Keys, Content, Object, Status
<1>2. JobHolds'
  BY IngestAssumption
  DEF IInv, TypeOK, JobHolds, Preserve, At, Goto, row, Quiet, Idle, NoObject, NoJob
<1>3. Matched'
  BY IngestAssumption
  DEF IInv, TypeOK, Matched, JobHolds, Preserve, At, Goto, row, Quiet, Idle,
      NoObject, NoJob
<1>4. EvidenceFirst'
  BY IngestAssumption
  DEF IInv, TypeOK, EvidenceFirst, Preserve, At, Goto, row, Quiet, Idle, NoObject,
      NoJob
<1>5. (RowMoved /\ OneLive)'
  BY DEF IInv, RowMoved, OneLive, Live, Preserve, At, Goto, row, Quiet, Idle
<1> QED BY <1>1, <1>2, <1>3, <1>4, <1>5 DEF IInv

\* The incident keeps IInv.
LEMMA RecordKeeps ==
    ASSUME IInv, NEW p \in Photos, Record(p)
    PROVE  IInv'
<1>1. TypeOK'
  BY IngestAssumption
  DEF IInv, TypeOK, Record, At, End, Answered, row, objects, Quiet, NoJob, Idle,
      NoObject, Operations, Keys, Content, Object, Status
<1>2. JobHolds'
  BY IngestAssumption
  DEF IInv, TypeOK, JobHolds, Record, At, End, Answered, row, objects, Quiet,
      NoJob, Idle, NoObject
<1>3. Matched'
  BY IngestAssumption
  DEF IInv, TypeOK, Matched, JobHolds, Record, At, End, Answered, row, objects,
      Quiet, NoJob, Idle, NoObject
<1>4. EvidenceFirst'
  BY IngestAssumption
  DEF IInv, TypeOK, EvidenceFirst, JobHolds, Record, At, End, Answered, row,
      objects, Quiet, NoJob, Idle, NoObject
<1>5. (RowMoved /\ OneLive)'
  BY DEF IInv, RowMoved, OneLive, Live, Record, At, End, Answered, row, objects,
         Quiet, NoJob, Idle
<1> QED BY <1>1, <1>2, <1>3, <1>4, <1>5 DEF IInv

\* Storing the stripped original keeps IInv.
LEMMA PutOriginalKeeps ==
    ASSUME IInv, NEW p \in Photos, PutOriginal(p)
    PROVE  IInv'
<1>1. TypeOK'
  BY IngestAssumption
  DEF IInv, TypeOK, JobHolds, PutOriginal, At, Original, Goto, row, Quiet, Idle,
      NoObject, NoJob, Operations, Keys, Content, Object, Status
<1>2. JobHolds'
  BY IngestAssumption
  DEF IInv, TypeOK, JobHolds, PutOriginal, At, Original, Goto, row, Quiet, Idle,
      NoObject, NoJob
<1>3. (RowMoved /\ Matched /\ EvidenceFirst /\ OneLive)'
  BY DEF IInv, RowMoved, Matched, EvidenceFirst, OneLive, Live, PutOriginal, At,
         Original, Goto, row, Quiet, Idle
<1> QED BY <1>1, <1>2, <1>3 DEF IInv

\* Storing the renditions keeps IInv.
LEMMA DeriveKeeps ==
    ASSUME IInv, NEW p \in Photos, Derive(p)
    PROVE  IInv'
<1>1. TypeOK'
  BY IngestAssumption
  DEF IInv, TypeOK, JobHolds, Derive, At, Goto, row, Quiet, Idle, NoObject, NoJob,
      Operations, Keys, Content, Object, Status
<1>2. JobHolds'
  BY IngestAssumption
  DEF IInv, TypeOK, JobHolds, Derive, At, Goto, row, Quiet, Idle, NoObject, NoJob
<1>3. (RowMoved /\ Matched /\ EvidenceFirst /\ OneLive)'
  BY DEF IInv, RowMoved, Matched, EvidenceFirst, OneLive, Live, Derive, At, Goto,
         row, Quiet, Idle
<1> QED BY <1>1, <1>2, <1>3 DEF IInv

\* Failing to decode keeps IInv.
LEMMA DecodeFailsKeeps ==
    ASSUME IInv, NEW p \in Photos, DecodeFails(p)
    PROVE  IInv'
<1>1. TypeOK'
  BY IngestAssumption
  DEF IInv, TypeOK, DecodeFails, At, Delete, Fail, Quiet, NoObject, End, Answered,
      Idle, NoJob, Operations, Keys, Content, Object, Status
<1>2. JobHolds'
  BY IngestAssumption
  DEF IInv, TypeOK, JobHolds, DecodeFails, At, Delete, Fail, Quiet, NoObject, End,
      Answered, Idle, NoJob
<1>3. RowMoved'
  BY IngestAssumption
  DEF IInv, TypeOK, RowMoved, DecodeFails, At, Delete, Fail, Quiet, NoObject, End,
      Answered, Idle, NoJob
<1>4. Matched'
  BY IngestAssumption
  DEF IInv, TypeOK, Matched, DecodeFails, At, Delete, Fail, Quiet, NoObject, End,
      Answered, Idle, NoJob
<1>5. OneLive'
  BY IngestAssumption
  DEF IInv, TypeOK, OneLive, JobHolds, RowMoved, DecodeFails, At, Delete, Fail,
      Quiet, NoObject, End, Answered, Idle, NoJob, Live, Keys, Content, Object
<1>6. EvidenceFirst'
  BY DEF IInv, EvidenceFirst, DecodeFails, At, Delete, Fail, Quiet, NoObject, End,
         Answered, Idle, NoJob
<1> QED BY <1>1, <1>2, <1>3, <1>4, <1>5, <1>6 DEF IInv

\* The commit keeps IInv.
LEMMA CommitKeeps ==
    ASSUME IInv, NEW p \in Photos, Commit(p)
    PROVE  IInv'
<1>1. TypeOK'
  BY IngestAssumption
  DEF IInv, TypeOK, JobHolds, Commit, At, Collides, Goto, objects, Quiet, Live,
      Twins, Idle, NoObject, NoJob, Operations, Keys, Content, Object, Status
<1>2. JobHolds'
  BY IngestAssumption
  DEF IInv, TypeOK, JobHolds, Commit, At, Collides, Goto, objects, Quiet, Live,
      Twins, Idle, NoObject, NoJob
<1>3. RowMoved'
  BY IngestAssumption
  DEF IInv, TypeOK, RowMoved, JobHolds, Commit, At, Collides, Goto, objects, Quiet,
      Live, Twins, Idle, NoObject, NoJob
<1>4. Matched'
  BY IngestAssumption
  DEF IInv, TypeOK, Matched, Commit, At, Collides, Goto, objects, Quiet, Live,
      Twins, Idle, NoObject, NoJob
<1>5. OneLive'
  <2>1. \A q \in Photos : Live(q)' <=> IF q = p THEN ~deletedAt[p] ELSE Live(q)
    BY DEF IInv, TypeOK, Commit, Live
  <2>2. \A q \in Photos : contentHash'[q] = IF q = p THEN job[p].bytes ELSE contentHash[q]
    BY DEF IInv, TypeOK, Commit
  <2>3. status[p] # "absent"
    BY DEF IInv, JobHolds, Commit, At, NoJob
  <2>4. \A q \in Photos \ {p} : Live(p) /\ Live(q) => contentHash[q] # job[p].bytes
    BY DEF Commit, Collides, Twins
  <2> QED BY <2>1, <2>2, <2>3, <2>4 DEF IInv, OneLive, Live
<1>6. EvidenceFirst'
  BY DEF IInv, EvidenceFirst, Commit, At, Collides, Goto, objects, Quiet, Live,
         Twins, Idle
<1> QED BY <1>1, <1>2, <1>3, <1>4, <1>5, <1>6 DEF IInv

\* A commit the index refuses keeps IInv.
LEMMA CollideKeeps ==
    ASSUME IInv, NEW p \in Photos, Collide(p)
    PROVE  IInv'
<1>1. TypeOK'
  BY IngestAssumption
  DEF IInv, TypeOK, Collide, At, Collides, End, row, objects, Quiet, Live, Twins,
      NoJob, Idle, NoObject, Operations, Keys, Content, Object, Status
<1>2. JobHolds'
  BY IngestAssumption
  DEF IInv, TypeOK, JobHolds, Collide, At, Collides, End, row, objects, Quiet,
      Live, Twins, NoJob, Idle, NoObject
<1>3. (RowMoved /\ Matched /\ EvidenceFirst /\ OneLive)'
  BY DEF IInv, RowMoved, Matched, EvidenceFirst, OneLive, Live, Collide, At,
         Collides, End, row, objects, Quiet, Twins, NoJob, Idle
<1> QED BY <1>1, <1>2, <1>3 DEF IInv

\* Cleaning up the upload key keeps IInv.
LEMMA CleanKeeps ==
    ASSUME IInv, NEW p \in Photos, Clean(p)
    PROVE  IInv'
<1>1. TypeOK'
  BY IngestAssumption
  DEF IInv, TypeOK, Clean, At, Delete, End, Answered, row, Quiet, NoObject, NoJob,
      Idle, Operations, Keys, Content, Object, Status
<1>2. JobHolds'
  BY IngestAssumption
  DEF IInv, TypeOK, JobHolds, Clean, At, Delete, End, Answered, row, Quiet,
      NoObject, NoJob, Idle
<1>3. (RowMoved /\ Matched /\ EvidenceFirst /\ OneLive)'
  BY DEF IInv, RowMoved, Matched, EvidenceFirst, OneLive, Live, Clean, At, Delete,
         End, Answered, row, Quiet, NoObject, NoJob, Idle
<1> QED BY <1>1, <1>2, <1>3 DEF IInv

\* A job that dies keeps IInv.
LEMMA DieKeeps ==
    ASSUME IInv, NEW p \in Photos, Die(p)
    PROVE  IInv'
<1>1. TypeOK'
  BY IngestAssumption
  DEF IInv, TypeOK, Die, Quiet, NoJob, End, row, objects, Idle, NoObject,
      Operations, Keys, Content, Object, Status
<1>2. JobHolds'
  BY IngestAssumption
  DEF IInv, TypeOK, JobHolds, Die, Quiet, NoJob, End, row, objects, Idle, NoObject
<1>3. (RowMoved /\ Matched /\ EvidenceFirst /\ OneLive)'
  BY DEF IInv, RowMoved, Matched, EvidenceFirst, OneLive, Live, Die, Quiet, NoJob,
         End, row, objects, Idle
<1> QED BY <1>1, <1>2, <1>3 DEF IInv

-----------------------------------------------------------------------------
\* Every step of the routes, the queue and the deriver keeps the invariant.
LEMMA StepKeeps ==
    ASSUME IInv, [Next]_vars
    PROVE  IInv'
<1>1. CASE \E p \in Photos : Step(p)
  BY <1>1, GetKeeps, GetFailsKeeps, DuplicateKeeps, TombstoneKeeps, UniqueKeeps,
     PassKeeps, MatchKeeps, PreserveKeeps, RecordKeeps, PutOriginalKeeps,
     DeriveKeeps, DecodeFailsKeeps, CommitKeeps, CollideKeeps, CleanKeeps
  DEF Step
<1>2. CASE \E r \in Requests : Act(r)
  BY <1>2, CompleteKeeps, RetryKeeps, DiscardKeeps, ClaimKeeps, RescueKeeps,
     SweepKeeps, GiveUpKeeps
  DEF Act
<1>3. CASE \E r \in Requests, op \in Operations, p \in Photos : Read(r, op, p)
  BY <1>3, ReadKeeps
<1>4. CASE \E p \in Photos, c \in Contents : Put(p, c)
  BY <1>4, PutKeeps
<1>5. CASE \E p \in Photos :
             \/ Presign(p) \/ WeekPasses(p) \/ Requeue(p) \/ Lose(p)
             \/ Start(p) \/ Refuse(p) \/ Die(p)
  BY <1>5, PresignKeeps, WeekPassesKeeps, RequeueKeeps, LoseKeeps, StartKeeps, RefuseKeeps,
     DieKeeps
<1>6. CASE UNCHANGED vars
  BY <1>6
  DEF IInv, TypeOK, JobHolds, RowMoved, Matched, EvidenceFirst, OneLive, Live, row,
         objects, vars
<1> QED BY <1>1, <1>2, <1>3, <1>4, <1>5, <1>6 DEF Next

\* An empty album satisfies it.
LEMMA InitKeeps == Init => IInv
BY IngestAssumption
DEF Init, IInv, TypeOK, JobHolds, RowMoved, Matched, EvidenceFirst, OneLive, Live,
    Keys, Content, Object, NoObject, Status, Idle, NoJob

\* The invariant holds of every state the system reaches.
THEOREM Invariance == Spec => []IInv
<1>1. Init => IInv
  BY InitKeeps
<1>2. IInv /\ [Next]_vars => IInv'
  BY StepKeeps
<1> QED BY <1>1, <1>2, PTL DEF Spec

\* Rows, objects, requests and jobs keep their types, for any number of photographs,
\* contents, requests and jobs, however late a request acts on what it read.
THEOREM TypeCorrect == Spec => []TypeOK
<1>1. IInv => TypeOK
  BY DEF IInv
<1> QED BY <1>1, Invariance, PTL

\* What anybody can list went through the scanner (pipeline.ts processPhoto).
THEOREM Scanned == Spec => []ShownWasScanned
<1>1. IInv => ShownWasScanned
  BY DEF IInv, TypeOK, RowMoved, ShownWasScanned, Visible, Content
<1> QED BY <1>1, Invariance, PTL

\* An album shows a content once (the unique index, and the lookup before it).
THEOREM Once == Spec => []ShownOnce
<1>1. IInv => ShownOnce
  BY DEF IInv, TypeOK, RowMoved, OneLive, ShownOnce, Visible, Live
<1> QED BY <1>1, Invariance, PTL

\* What the scanner matched stays hidden, whoever writes to its row afterwards
\* (pipeline.ts quarantine).
THEOREM Hidden == Spec => []MatchedStaysHidden
<1>1. IInv => MatchedStaysHidden
  BY DEF IInv, Matched, MatchedStaysHidden, Visible
<1> QED BY <1>1, Invariance, PTL

\* No incident without its preserved copy (pipeline.ts quarantine).
THEOREM Evidence == Spec => []EvidenceFirst
<1>1. IInv => EvidenceFirst
  BY DEF IInv
<1> QED BY <1>1, Invariance, PTL

-----------------------------------------------------------------------------
\* A job that has not matched its photograph is of a row nothing has hidden, and a
\* job that goes on from a match ends at its incident.
JobsVisible ==
    \A p \in Photos : job[p].pc \notin {"idle", "preserve", "record"} => ~hiddenAt[p]

LEMMA JobsVisibleKeeps ==
    ASSUME TypeOK, JobsVisible, [Next]_vars
    PROVE  JobsVisible'
<1> USE DEF JobsVisible, TypeOK
<1>1. ASSUME UNCHANGED <<hiddenAt, job>> PROVE JobsVisible'
  BY <1>1
<1>2. ASSUME NEW p \in Photos, End(p), UNCHANGED hiddenAt PROVE JobsVisible'
  BY <1>2 DEF End, NoJob
<1>3. ASSUME NEW p \in Photos, Start(p) PROVE JobsVisible'
  BY <1>3 DEF Start, Processable, row
<1>4. ASSUME NEW p \in Photos, Get(p) PROVE JobsVisible'
  BY <1>4 DEF Get, At, row
<1>5. ASSUME NEW p \in Photos, Match(p) PROVE JobsVisible'
  BY <1>5 DEF Match, Goto
<1>6. ASSUME NEW p \in Photos, NEW pc, job[p].pc \notin {"idle", "preserve", "record"},
             Goto(p, pc), UNCHANGED hiddenAt
      PROVE  JobsVisible'
  BY <1>6 DEF Goto
<1>7. ASSUME NEW p \in Photos, Preserve(p) PROVE JobsVisible'
  BY <1>7 DEF Preserve, Goto, row
<1>8. ASSUME NEW p \in Photos, Step(p) PROVE JobsVisible'
  <2>1. CASE Get(p) \/ Match(p) \/ Preserve(p)
    BY <2>1, <1>4, <1>5, <1>7
  <2>2. CASE GetFails(p) \/ Tombstone(p) \/ Record(p) \/ DecodeFails(p) \/ Collide(p) \/ Clean(p)
    BY <2>2, <1>2 DEF GetFails, Tombstone, Record, DecodeFails, Collide, Clean, Fail, row
  <2>3. CASE \/ Duplicate(p) \/ Unique(p) \/ Pass(p) \/ PutOriginal(p) \/ Derive(p)
             \/ Commit(p)
    BY <2>3, <1>6 DEF Duplicate, Unique, Pass, PutOriginal, Derive, Commit, At, row
  <2> QED BY <1>8, <2>1, <2>2, <2>3 DEF Step
<1>9. ASSUME NEW r \in Requests, Act(r) PROVE JobsVisible'
  BY <1>9, <1>1
  DEF Act, Complete, Retry, Discard, Claim, Rescue, GiveUp, Sweep, row
<1>10. ASSUME NEW p \in Photos,
              \/ Presign(p) \/ \E c \in Contents : Put(p, c)
              \/ WeekPasses(p) \/ Requeue(p) \/ Lose(p) \/ Refuse(p) \/ Die(p)
       PROVE  JobsVisible'
  BY <1>10, <1>1, <1>2 DEF Presign, WeekPasses, Put, Requeue, Lose, Refuse, Die, row
<1>11. ASSUME NEW r \in Requests, NEW op \in Operations, NEW p \in Photos, Read(r, op, p)
       PROVE  JobsVisible'
  BY <1>11, <1>1 DEF Read, row
<1>12. CASE UNCHANGED vars
  BY <1>12, <1>1 DEF vars, row
<1> QED BY <1>3, <1>8, <1>9, <1>10, <1>11, <1>12 DEF Next

\* What a job's step does to other rows, and to its own when the job is over.
LEMMA JobLeaves ==
    ASSUME TypeOK, JobsVisible, NEW q \in Photos, Step(q)
    PROVE  /\ \A p \in Photos \ {q} :
                 UNCHANGED <<job[p], hiddenAt[p]>> /\ (p \in incidents => p \in incidents')
           /\ job'[q] = NoJob => ~hiddenAt'[q] \/ q \in incidents'
<1> USE DEF JobsVisible, TypeOK
<1>1. CASE GetFails(q) \/ Tombstone(q) \/ DecodeFails(q) \/ Collide(q) \/ Clean(q)
  <2>1. job' = [job EXCEPT ![q] = NoJob] /\ UNCHANGED <<hiddenAt, incidents>>
    BY <1>1 DEF GetFails, Tombstone, DecodeFails, Collide, Clean, Fail, End, row
  <2>2. job[q].pc \in {"get", "tombstone", "derive", "commit", "clean"}
    BY <1>1 DEF GetFails, Tombstone, DecodeFails, Collide, Clean, At
  <2> QED BY <2>1, <2>2
<1>2. CASE Record(q)
  BY <1>2 DEF Record, End, row
<1>3. CASE Get(q)
  BY <1>3 DEF Get, NoJob, row
<1>4. CASE Match(q)
  BY <1>4 DEF Match, Goto, NoJob
<1>5. CASE \/ Duplicate(q) \/ Unique(q) \/ Pass(q) \/ Preserve(q)
           \/ PutOriginal(q) \/ Derive(q) \/ Commit(q)
  <2>1. UNCHANGED <<hiddenAt, incidents>>
    BY <1>5 DEF Duplicate, Unique, Pass, Preserve, PutOriginal, Derive, Commit, row
  <2>2. PICK pc \in {"tombstone", "scan", "put", "record", "derive", "commit", "clean"} :
           Goto(q, pc)
    BY <1>5 DEF Duplicate, Unique, Pass, Preserve, PutOriginal, Derive, Commit
  <2> QED BY <2>1, <2>2 DEF Goto, NoJob
<1> QED BY <1>1, <1>2, <1>3, <1>4, <1>5 DEF Step

LEMMA LostByDeath ==
    ASSUME TypeOK, JobsVisible, [Next]_vars, NEW p \in Photos, Unrecorded(p)'
    PROVE  Unrecorded(p) \/ Die(p)
<1> USE DEF Unrecorded
<1>1. ASSUME UNCHANGED <<hiddenAt, job, incidents>> PROVE Unrecorded(p)
  BY <1>1
<1>2. ASSUME NEW q \in Photos, Step(q) PROVE Unrecorded(p)
  BY <1>2, JobLeaves
<1>3. ASSUME NEW q \in Photos, Start(q) PROVE Unrecorded(p)
  BY <1>3 DEF Start, NoJob, row, TypeOK
<1>4. ASSUME NEW q \in Photos, Die(q) PROVE Unrecorded(p) \/ Die(p)
  BY <1>4 DEF Die, End, row, TypeOK
<1>5. ASSUME NEW r \in Requests, Act(r) PROVE Unrecorded(p)
  BY <1>5, <1>1
  DEF Act, Complete, Retry, Discard, Claim, Rescue, GiveUp, Sweep, row
<1>6. ASSUME NEW q \in Photos,
             \/ Presign(q) \/ \E c \in Contents : Put(q, c)
             \/ WeekPasses(q) \/ Requeue(q) \/ Lose(q) \/ Refuse(q)
      PROVE  Unrecorded(p)
  BY <1>6, <1>1 DEF Presign, WeekPasses, Put, Requeue, Lose, Refuse, row
<1>7. ASSUME NEW r \in Requests, NEW op \in Operations, NEW q \in Photos, Read(r, op, q)
      PROVE  Unrecorded(p)
  BY <1>7, <1>1 DEF Read, row
<1>8. CASE UNCHANGED vars
  BY <1>8, <1>1 DEF vars, row
<1> QED BY <1>2, <1>3, <1>4, <1>5, <1>6, <1>7, <1>8 DEF Next

\* Between a match and its incident only a death can come (pipeline.ts quarantine).
THEOREM LostMatches == Spec => MatchLostOnlyByDeath
<1>1. Init => JobsVisible
  BY DEF Init, JobsVisible, NoJob
<1>2. TypeOK /\ JobsVisible /\ [Next]_vars => JobsVisible'
  BY JobsVisibleKeeps
<1>3. TypeOK /\ JobsVisible /\ [Next]_vars =>
        [\A p \in Photos : Unrecorded(p)' => Unrecorded(p) \/ Die(p)]_vars
  BY LostByDeath
<1> QED BY <1>1, <1>2, <1>3, TypeCorrect, PTL DEF Spec, MatchLostOnlyByDeath

-----------------------------------------------------------------------------
(* From here on no other party writes a row between a request's read and its   *)
(* write: Prompt.                                                              *)

\* A new row keeps SInv.
LEMMA PresignPrompt ==
    ASSUME Prompt, IInv, SInv, NEW p \in Photos, Presign(p)
    PROVE  SInv'
<1>1. Alone'
  BY IngestAssumption
  DEF IInv, SInv, TypeOK, Alone, Working, Presign, Quiet, Grant, objects, Idle,
      NoObject, NoJob, Draft, Keys, Content, Object
<1>2. Untouched'
  BY IngestAssumption
  DEF IInv, SInv, TypeOK, Untouched, Working, Presign, Quiet, Grant, objects, Idle,
      NoObject, NoJob, Keys, Content, Object
<1>3. Placed'
  BY IngestAssumption
  DEF IInv, SInv, TypeOK, Placed, Working, Presign, Quiet, Grant, objects, Idle,
      NoObject, NoJob, Keys, Content, Object
<1>4. Working'
  BY IngestAssumption
  DEF IInv, SInv, TypeOK, Working, Presign, Quiet, Grant, objects, Idle, NoObject,
      NoJob, Keys, Content, Object
<1>5. (Stored /\ FinalKeysAreScreened)'
  BY DEF IInv, SInv, Stored, FinalKeysAreScreened, Full, Presign, Quiet, Grant,
         objects, Idle
<1> QED BY <1>1, <1>2, <1>3, <1>4, <1>5 DEF SInv

\* A PUT by the uploader keeps SInv.
LEMMA PutPrompt ==
    ASSUME Prompt, IInv, SInv, NEW p \in Photos, NEW c \in Contents, Put(p, c)
    PROVE  SInv'
<1>1. Stored'
  BY IngestAssumption
  DEF IInv, SInv, TypeOK, Stored, Working, Placed, Alone, Put, Quiet, row, Idle,
      NoObject, NoJob, Full, Draft, Keys, Content, Object
<1>2. FinalKeysAreScreened'
  <2>1. url[p] = p
    BY DEF SInv, Placed, Put
  <2>2. \A k \in Contents : store'[k] = store[k]
    BY <2>1, IngestAssumption DEF IInv, TypeOK, Put, Keys
  <2> QED BY <2>2 DEF SInv, FinalKeysAreScreened
<1>3. (Alone /\ Untouched /\ Placed /\ Working)'
  BY DEF IInv, SInv, Alone, Untouched, Placed, Working, Idle, Draft, NoJob,
         Put, Quiet, row
<1> QED BY <1>1, <1>2, <1>3 DEF SInv

\* A request that reads its row keeps SInv.
LEMMA ReadPrompt ==
    ASSUME Prompt, IInv, SInv, NEW r \in Requests, NEW op \in Operations, NEW p \in Photos, Read(r, op, p)
    PROVE  SInv'
<1>1. Alone'
  BY IngestAssumption
  DEF IInv, SInv, TypeOK, Alone, Untouched, Working, Read, Quiet, Idle, Asks, row,
      objects, Draft, Sweepable, NoObject, NoJob, Keys, Content, Object
<1>2. (Untouched /\ Placed /\ Working /\ Stored /\ FinalKeysAreScreened)'
  BY DEF IInv, SInv, Untouched, Placed, Working, Stored, FinalKeysAreScreened,
         NoJob, Full, Read, Quiet, Idle, Asks, row, objects, Draft
<1> QED BY <1>1, <1>2 DEF SInv

\* Confirming an upload keeps SInv.
LEMMA CompletePrompt ==
    ASSUME Prompt, IInv, SInv, NEW r \in Requests, Complete(r)
    PROVE  SInv'
<1>1. Alone'
  BY IngestAssumption
  DEF IInv, SInv, TypeOK, Alone, Working, Complete, Acts, NoObject, Publish,
      objects, Idle, NoJob, Draft, Keys, Content, Object
<1>2. Untouched'
  BY IngestAssumption
  DEF IInv, SInv, TypeOK, Untouched, Alone, Draft, Complete, Acts, NoObject, Publish,
      objects, Idle, NoJob, Keys, Content, Object
<1>3. Placed'
  BY IngestAssumption
  DEF IInv, SInv, TypeOK, Placed, Working, Alone, Complete, Acts, NoObject,
      Publish, objects, Idle, NoJob, Draft, Keys, Content, Object
<1>4. Working'
  BY IngestAssumption
  DEF IInv, SInv, TypeOK, Working, Placed, Alone, Complete, Acts, NoObject,
      Publish, objects, Idle, NoJob, Draft, Keys, Content, Object
<1>5. (Stored /\ FinalKeysAreScreened)'
  BY DEF IInv, SInv, Stored, FinalKeysAreScreened, Full, Complete, Acts, NoObject,
         Publish, objects, Idle
<1> QED BY <1>1, <1>2, <1>3, <1>4, <1>5 DEF SInv

\* Trying a draft again keeps SInv.
LEMMA RetryPrompt ==
    ASSUME Prompt, IInv, SInv, NEW r \in Requests, Retry(r)
    PROVE  SInv'
<1>1. Alone'
  BY IngestAssumption
  DEF IInv, SInv, TypeOK, Alone, Working, Retry, Acts, NoObject, Publish, objects,
      Idle, NoJob, Draft, Keys, Content, Object
<1>2. Untouched'
  BY IngestAssumption
  DEF IInv, SInv, TypeOK, Untouched, Alone, Draft, Retry, Acts, NoObject, Publish,
      objects, Idle, NoJob, Keys, Content, Object
<1>3. Placed'
  BY IngestAssumption
  DEF IInv, SInv, TypeOK, Placed, Working, Alone, Retry, Acts, NoObject, Publish,
      objects, Idle, NoJob, Draft, Keys, Content, Object
<1>4. Working'
  BY IngestAssumption
  DEF IInv, SInv, TypeOK, Working, Placed, Alone, Retry, Acts, NoObject, Publish,
      objects, Idle, NoJob, Draft, Keys, Content, Object
<1>5. (Stored /\ FinalKeysAreScreened)'
  BY DEF IInv, SInv, Stored, FinalKeysAreScreened, Full, Retry, Acts, NoObject,
         Publish, objects, Idle
<1> QED BY <1>1, <1>2, <1>3, <1>4, <1>5 DEF SInv

\* Discarding a draft keeps SInv.
LEMMA DiscardPrompt ==
    ASSUME Prompt, IInv, SInv, NEW r \in Requests, Discard(r)
    PROVE  SInv'
<1>1. Alone'
  BY IngestAssumption
  DEF IInv, SInv, TypeOK, Alone, Working, Discard, Acts, Delete, Idle, NoObject,
      NoJob, Draft, Keys, Content, Object
<1>2. Untouched'
  BY IngestAssumption
  DEF IInv, SInv, TypeOK, Untouched, Alone, Draft, Discard, Acts, Delete, Idle,
      NoObject, NoJob, Keys, Content, Object
<1>3. Placed'
  BY IngestAssumption
  DEF IInv, SInv, TypeOK, Placed, Working, Alone, Discard, Acts, Delete, Idle,
      NoObject, NoJob, Draft, Keys, Content, Object
<1>4. Working'
  BY IngestAssumption
  DEF IInv, SInv, TypeOK, Working, Placed, Alone, Discard, Acts, Delete, Idle,
      NoObject, NoJob, Draft, Keys, Content, Object
<1>5. Stored'
  BY IngestAssumption
  DEF IInv, SInv, TypeOK, Stored, JobHolds, RowMoved, Alone, Placed, Working,
      Discard, Acts, Delete, Idle, NoObject, NoJob, Full, Live, Draft, Keys,
      Content, Object
<1>6. FinalKeysAreScreened'
  BY DeletingScreens DEF IInv, SInv, Discard
<1> QED BY <1>1, <1>2, <1>3, <1>4, <1>5, <1>6 DEF SInv

\* Taking a draft over for a new upload keeps SInv.
LEMMA ClaimPrompt ==
    ASSUME Prompt, IInv, SInv, NEW r \in Requests, Claim(r)
    PROVE  SInv'
<1>1. Alone'
  BY IngestAssumption
  DEF IInv, SInv, TypeOK, Alone, Working, Claim, Acts, Grant, objects, Idle,
      NoObject, NoJob, Draft, Keys, Content, Object
<1>2. Untouched'
  BY IngestAssumption
  DEF IInv, SInv, TypeOK, Untouched, Alone, Draft, Claim, Acts, Grant, objects, Idle,
      NoObject, NoJob, Keys, Content, Object
<1>3. Placed'
  BY IngestAssumption
  DEF IInv, SInv, TypeOK, Placed, Working, Alone, Claim, Acts, Grant, objects,
      Idle, NoObject, NoJob, Draft, Keys, Content, Object
<1>4. Working'
  BY IngestAssumption
  DEF IInv, SInv, TypeOK, Working, Placed, Alone, Claim, Acts, Grant, objects,
      Idle, NoObject, NoJob, Draft, Keys, Content, Object
<1>5. (Stored /\ FinalKeysAreScreened)'
  BY DEF IInv, SInv, Stored, FinalKeysAreScreened, Full, Claim, Acts, Grant,
         objects, Idle
<1> QED BY <1>1, <1>2, <1>3, <1>4, <1>5 DEF SInv

\* The rescue of unconfirmed bytes keeps SInv.
LEMMA RescuePrompt ==
    ASSUME Prompt, IInv, SInv, NEW r \in Requests, Rescue(r)
    PROVE  SInv'
<1>1. Alone'
  BY IngestAssumption
  DEF IInv, SInv, TypeOK, Alone, Working, Rescue, Acts, NoObject, objects, Idle,
      NoJob, Draft, Keys, Content, Object
<1>2. (Untouched /\ Placed /\ Working /\ Stored /\ FinalKeysAreScreened)'
  BY DEF IInv, SInv, Untouched, Placed, Working, Stored, FinalKeysAreScreened,
         NoJob, Full, Rescue, Acts, NoObject, objects, Idle
<1> QED BY <1>1, <1>2 DEF SInv

\* What the sweep does with a row keeps SInv.
LEMMA SweepPrompt ==
    ASSUME Prompt, IInv, SInv, NEW r \in Requests, NEW op \in Sweeps, Sweep(r, op)
    PROVE  SInv'
<1>1. Alone'
  BY IngestAssumption
  DEF IInv, SInv, TypeOK, Alone, Working, Sweep, Acts, Delete, Idle, NoObject,
      NoJob, Draft, Keys, Content, Object, Sweeps
<1>2. Untouched'
  BY IngestAssumption
  DEF IInv, SInv, TypeOK, Untouched, Alone, Draft, Sweep, Acts, Delete, Idle,
      NoObject, NoJob, Keys, Content, Object, Sweeps
<1>3. Placed'
  BY IngestAssumption
  DEF IInv, SInv, TypeOK, Placed, Working, Alone, Sweep, Acts, Delete, Idle,
      NoObject, NoJob, Draft, Keys, Content, Object, Sweeps
<1>4. Working'
  BY IngestAssumption
  DEF IInv, SInv, TypeOK, Working, Placed, Alone, Sweep, Acts, Delete, Idle,
      NoObject, NoJob, Draft, Keys, Content, Object, Sweeps
<1>5. Stored'
  BY IngestAssumption
  DEF IInv, SInv, TypeOK, Stored, JobHolds, RowMoved, Alone, Placed, Working,
      Sweep, Acts, Delete, Idle, NoObject, NoJob, Full, Live, Draft, Keys, Content,
      Object, Sweeps
<1>6. FinalKeysAreScreened'
  BY DeletingScreens DEF IInv, SInv, Sweep
<1> QED BY <1>1, <1>2, <1>3, <1>4, <1>5, <1>6 DEF SInv

\* A request that dies keeps SInv.
LEMMA GiveUpPrompt ==
    ASSUME Prompt, IInv, SInv, NEW r \in Requests, GiveUp(r)
    PROVE  SInv'
<1>1. Alone'
  BY IngestAssumption
  DEF IInv, SInv, TypeOK, Alone, Working, GiveUp, Idle, row, objects, NoObject,
      NoJob, Draft, Keys, Content, Object
<1>2. (Untouched /\ Placed /\ Working /\ Stored /\ FinalKeysAreScreened)'
  BY DEF IInv, SInv, Untouched, Placed, Working, Stored, FinalKeysAreScreened,
         NoJob, Full, GiveUp, Idle, row, objects
<1> QED BY <1>1, <1>2 DEF SInv

\* A week of waiting keeps SInv.
LEMMA WeekPassesPrompt ==
    ASSUME Prompt, IInv, SInv, NEW p \in Photos, WeekPasses(p)
    PROVE  SInv'
<1>1. (Alone /\ Untouched /\ Placed /\ Working /\ Stored /\ FinalKeysAreScreened)'
  BY DEF IInv, SInv, Alone, Untouched, Placed, Working, Stored,
         FinalKeysAreScreened, Idle, Draft, NoJob, Full, WeekPasses, Quiet, objects
<1> QED BY <1>1 DEF SInv

\* The cron's resend keeps SInv.
LEMMA RequeuePrompt ==
    ASSUME Prompt, IInv, SInv, NEW p \in Photos, Requeue(p)
    PROVE  SInv'
<1>1. (Alone /\ Untouched /\ Placed /\ Working /\ Stored /\ FinalKeysAreScreened)'
  BY DEF IInv, SInv, Alone, Untouched, Placed, Working, Stored,
         FinalKeysAreScreened, Idle, Draft, NoJob, Full, Requeue, Quiet,
         Stranded, row, objects
<1> QED BY <1>1 DEF SInv

\* A lost message keeps SInv.
LEMMA LosePrompt ==
    ASSUME Prompt, IInv, SInv, NEW p \in Photos, Lose(p)
    PROVE  SInv'
<1>1. (Alone /\ Untouched /\ Placed /\ Working /\ Stored /\ FinalKeysAreScreened)'
  BY DEF IInv, SInv, Alone, Untouched, Placed, Working, Stored,
         FinalKeysAreScreened, Idle, Draft, NoJob, Full, Lose, Quiet, row,
         objects
<1> QED BY <1>1 DEF SInv

\* A delivery that is taken keeps SInv.
LEMMA StartPrompt ==
    ASSUME Prompt, IInv, SInv, NEW p \in Photos, Start(p)
    PROVE  SInv'
<1>1. Working'
  BY IngestAssumption
  DEF IInv, SInv, TypeOK, Working, Placed, Alone, Start, Taken, Processable, row,
      objects, Quiet, NoJob, InFlight, Idle, NoObject, Draft, Keys, Content,
      Object
<1>2. Stored'
  BY IngestAssumption
  DEF IInv, SInv, TypeOK, Stored, Working, Start, Taken, Processable, row, objects,
      Quiet, NoJob, InFlight, Idle, NoObject, Full, Keys, Content, Object
<1>3. (Alone /\ Untouched /\ Placed /\ FinalKeysAreScreened)'
  BY DEF IInv, SInv, Alone, Untouched, Placed, FinalKeysAreScreened, Idle, 
         Draft, Start, Taken, Processable, row, objects, Quiet, NoJob, InFlight
<1> QED BY <1>1, <1>2, <1>3 DEF SInv

\* A delivery that is refused keeps SInv.
LEMMA RefusePrompt ==
    ASSUME Prompt, IInv, SInv, NEW p \in Photos, Refuse(p)
    PROVE  SInv'
<1>1. (Alone /\ Untouched /\ Placed /\ Working /\ Stored /\ FinalKeysAreScreened)'
  BY DEF IInv, SInv, Alone, Untouched, Placed, Working, Stored,
         FinalKeysAreScreened, Idle, Draft, NoJob, Full, Refuse, Taken,
         Processable, row, objects, Quiet, InFlight
<1> QED BY <1>1 DEF SInv

\* Reading the bytes keeps SInv.
LEMMA GetPrompt ==
    ASSUME Prompt, IInv, SInv, NEW p \in Photos, Get(p)
    PROVE  SInv'
<1>1. Working'
  BY IngestAssumption
  DEF IInv, SInv, TypeOK, Working, Get, At, NoObject, row, objects, Quiet, Idle,
      NoJob, Keys, Content, Object
<1>2. Stored'
  BY IngestAssumption
  DEF IInv, SInv, TypeOK, Stored, Working, Get, At, NoObject, row, objects, Quiet,
      Idle, NoJob, Full, Keys, Content, Object
<1>3. (Alone /\ Untouched /\ Placed /\ FinalKeysAreScreened)'
  BY DEF IInv, SInv, Alone, Untouched, Placed, FinalKeysAreScreened, Idle, 
         Draft, Get, At, NoObject, row, objects, Quiet
<1> QED BY <1>1, <1>2, <1>3 DEF SInv

\* Failing to read the bytes keeps SInv.
LEMMA GetFailsPrompt ==
    ASSUME Prompt, IInv, SInv, NEW p \in Photos, GetFails(p)
    PROVE  SInv'
<1>1. Alone'
  BY IngestAssumption
  DEF IInv, SInv, TypeOK, Alone, Working, GetFails, At, Fail, Quiet, End, Answered,
      Idle, NoJob, NoObject, Draft, Keys, Content, Object
<1>2. Untouched'
  BY IngestAssumption
  DEF IInv, SInv, TypeOK, Untouched, Working, GetFails, At, Fail, Quiet, End,
      Answered, Idle, NoJob, NoObject, Keys, Content, Object
<1>3. Placed'
  BY IngestAssumption
  DEF IInv, SInv, TypeOK, Placed, Working, GetFails, At, Fail, Quiet, End,
      Answered, Idle, NoJob, NoObject, Keys, Content, Object
<1>4. Working'
  BY IngestAssumption
  DEF IInv, SInv, TypeOK, Working, GetFails, At, Fail, Quiet, End, Answered, Idle,
      NoJob, NoObject, Keys, Content, Object
<1>5. Stored'
  BY IngestAssumption
  DEF IInv, SInv, TypeOK, Stored, Working, GetFails, At, Fail, Quiet, End,
      Answered, Idle, NoJob, NoObject, Full, Keys, Content, Object
<1>6. FinalKeysAreScreened'
  BY DEF IInv, SInv, FinalKeysAreScreened, GetFails, At, Fail, Quiet, End,
         Answered, Idle, NoJob
<1> QED BY <1>1, <1>2, <1>3, <1>4, <1>5, <1>6 DEF SInv

\* Finding the content in the album keeps SInv.
LEMMA DuplicatePrompt ==
    ASSUME Prompt, IInv, SInv, NEW p \in Photos, Duplicate(p)
    PROVE  SInv'
<1>1. Working'
  BY IngestAssumption
  DEF IInv, SInv, TypeOK, Working, Duplicate, At, Twins, Delete, Goto, row, Quiet,
      Live, NoObject, Idle, NoJob, Keys, Content, Object
<1>2. Stored'
  BY IngestAssumption
  DEF IInv, SInv, TypeOK, Stored, Working, Placed, Alone, Untouched, JobHolds,
      Duplicate, At, Twins, Delete, Goto, row, Quiet, Live, NoObject, Idle, NoJob,
      Full, Draft, Keys, Content, Object
<1>3. FinalKeysAreScreened'
  BY DeletingScreens DEF IInv, SInv, Duplicate
<1>4. (Alone /\ Untouched /\ Placed)'
  BY DEF IInv, SInv, Alone, Untouched, Placed, Idle, Draft, Duplicate, At,
         Twins, Delete, Goto, row, Quiet, Live, NoObject
<1> QED BY <1>1, <1>2, <1>3, <1>4 DEF SInv

\* Removing a duplicate's row keeps SInv.
LEMMA TombstonePrompt ==
    ASSUME Prompt, IInv, SInv, NEW p \in Photos, Tombstone(p)
    PROVE  SInv'
<1>1. Alone'
  BY IngestAssumption
  DEF IInv, SInv, TypeOK, Alone, Working, Tombstone, At, End, Answered, objects,
      Quiet, NoJob, Idle, NoObject, Draft, Keys, Content, Object
<1>2. Untouched'
  BY IngestAssumption
  DEF IInv, SInv, TypeOK, Untouched, Working, Tombstone, At, End, Answered,
      objects, Quiet, NoJob, Idle, NoObject, Keys, Content, Object
<1>3. Placed'
  BY IngestAssumption
  DEF IInv, SInv, TypeOK, Placed, Working, Tombstone, At, End, Answered, objects,
      Quiet, NoJob, Idle, NoObject, Keys, Content, Object
<1>4. Working'
  BY IngestAssumption
  DEF IInv, SInv, TypeOK, Working, Tombstone, At, End, Answered, objects, Quiet,
      NoJob, Idle, NoObject, Keys, Content, Object
<1>5. Stored'
  BY IngestAssumption
  DEF IInv, SInv, TypeOK, Stored, Working, Tombstone, At, End, Answered, objects,
      Quiet, NoJob, Idle, NoObject, Full, Keys, Content, Object
<1>6. FinalKeysAreScreened'
  BY DEF IInv, SInv, FinalKeysAreScreened, Tombstone, At, End, Answered, objects,
         Quiet, NoJob, Idle
<1> QED BY <1>1, <1>2, <1>3, <1>4, <1>5, <1>6 DEF SInv

\* Finding the content new keeps SInv.
LEMMA UniquePrompt ==
    ASSUME Prompt, IInv, SInv, NEW p \in Photos, Unique(p)
    PROVE  SInv'
<1>1. Working'
  BY IngestAssumption
  DEF IInv, SInv, TypeOK, Working, Unique, At, Twins, Goto, row, objects, Quiet,
      Live, Idle, NoObject, NoJob, Keys, Content, Object
<1>2. Stored'
  BY IngestAssumption
  DEF IInv, SInv, TypeOK, Stored, Working, Unique, At, Twins, Goto, row, objects,
      Quiet, Live, Idle, NoObject, NoJob, Full, Keys, Content, Object
<1>3. (Alone /\ Untouched /\ Placed /\ FinalKeysAreScreened)'
  BY DEF IInv, SInv, Alone, Untouched, Placed, FinalKeysAreScreened, Idle, 
         Draft, Unique, At, Twins, Goto, row, objects, Quiet, Live
<1> QED BY <1>1, <1>2, <1>3 DEF SInv

\* A scan that passes keeps SInv.
LEMMA PassPrompt ==
    ASSUME Prompt, IInv, SInv, NEW p \in Photos, Pass(p)
    PROVE  SInv'
<1>1. Working'
  BY IngestAssumption
  DEF IInv, SInv, TypeOK, Working, Pass, At, Goto, row, objects, Quiet, Idle,
      NoObject, NoJob, Keys, Content, Object
<1>2. Stored'
  BY IngestAssumption
  DEF IInv, SInv, TypeOK, Stored, Working, Pass, At, Goto, row, objects, Quiet,
      Idle, NoObject, NoJob, Full, Keys, Content, Object
<1>3. (Alone /\ Untouched /\ Placed /\ FinalKeysAreScreened)'
  BY DEF IInv, SInv, Alone, Untouched, Placed, FinalKeysAreScreened, Idle, 
         Draft, Pass, At, Goto, row, objects, Quiet
<1> QED BY <1>1, <1>2, <1>3 DEF SInv

\* A scan that matches keeps SInv.
LEMMA MatchPrompt ==
    ASSUME Prompt, IInv, SInv, NEW p \in Photos, Match(p)
    PROVE  SInv'
<1>1. Alone'
  BY IngestAssumption
  DEF IInv, SInv, TypeOK, Alone, Working, Match, At, Goto, objects, Quiet, Idle,
      NoObject, NoJob, Draft, Keys, Content, Object
<1>2. Untouched'
  BY IngestAssumption
  DEF IInv, SInv, TypeOK, Untouched, Working, Match, At, Goto, objects, Quiet,
      Idle, NoObject, NoJob, Keys, Content, Object
<1>3. Placed'
  BY IngestAssumption
  DEF IInv, SInv, TypeOK, Placed, Working, Match, At, Goto, objects, Quiet, Idle,
      NoObject, NoJob, Keys, Content, Object
<1>4. Working'
  BY IngestAssumption
  DEF IInv, SInv, TypeOK, Working, Match, At, Goto, objects, Quiet, Idle, NoObject,
      NoJob, Keys, Content, Object
<1>5. Stored'
  BY IngestAssumption
  DEF IInv, SInv, TypeOK, Stored, Working, Match, At, Goto, objects, Quiet, Idle,
      NoObject, NoJob, Full, Keys, Content, Object
<1>6. FinalKeysAreScreened'
  BY DEF IInv, SInv, FinalKeysAreScreened, Match, At, Goto, objects, Quiet, Idle
<1> QED BY <1>1, <1>2, <1>3, <1>4, <1>5, <1>6 DEF SInv

\* The copy to preserved/ keeps SInv.
LEMMA PreservePrompt ==
    ASSUME Prompt, IInv, SInv, NEW p \in Photos, Preserve(p)
    PROVE  SInv'
<1>1. Working'
  BY IngestAssumption
  DEF IInv, SInv, TypeOK, Working, Preserve, At, Goto, row, Quiet, Idle, NoObject,
      NoJob, Keys, Content, Object
<1>2. Stored'
  BY IngestAssumption
  DEF IInv, SInv, TypeOK, Stored, Working, Preserve, At, Goto, row, Quiet, Idle,
      NoObject, NoJob, Full, Keys, Content, Object
<1>3. (Alone /\ Untouched /\ Placed /\ FinalKeysAreScreened)'
  BY DEF IInv, SInv, Alone, Untouched, Placed, FinalKeysAreScreened, Idle, 
         Draft, Preserve, At, Goto, row, Quiet
<1> QED BY <1>1, <1>2, <1>3 DEF SInv

\* The incident keeps SInv.
LEMMA RecordPrompt ==
    ASSUME Prompt, IInv, SInv, NEW p \in Photos, Record(p)
    PROVE  SInv'
<1>1. Working'
  BY IngestAssumption
  DEF IInv, SInv, TypeOK, Working, Record, At, End, Answered, row, objects, Quiet,
      NoJob, Idle, NoObject, Keys, Content, Object
<1>2. Stored'
  BY IngestAssumption
  DEF IInv, SInv, TypeOK, Stored, Working, Record, At, End, Answered, row, objects,
      Quiet, NoJob, Idle, NoObject, Full, Keys, Content, Object
<1>3. (Alone /\ Untouched /\ Placed /\ FinalKeysAreScreened)'
  BY DEF IInv, SInv, Alone, Untouched, Placed, FinalKeysAreScreened, Idle, 
         Draft, Record, At, End, Answered, row, objects, Quiet, NoJob
<1> QED BY <1>1, <1>2, <1>3 DEF SInv

\* Storing the stripped original keeps SInv.
LEMMA PutOriginalPrompt ==
    ASSUME Prompt, IInv, SInv, NEW p \in Photos, PutOriginal(p)
    PROVE  SInv'
<1>1. /\ job[p].bytes \in Contents \ Bad
      /\ \A k \in Keys :
            store'[k] = IF k = job[p].bytes THEN Full(job[p].bytes) ELSE store[k]
  BY DEF IInv, TypeOK, JobHolds, PutOriginal, At, Original, Full
<1>2. Working'
  BY IngestAssumption
  DEF IInv, SInv, TypeOK, Working, PutOriginal, At, Original, Goto, row, Quiet,
      Idle, NoObject, NoJob, Keys, Content, Object
<1>3. Stored'
  <2>1. \A q \in Photos : /\ q # p => job'[q] = job[q]
                          /\ job'[p].pc = "derive" /\ job'[p].bytes = job[p].bytes
    BY DEF IInv, TypeOK, PutOriginal, Goto
  <2>2. contentHash' = contentHash /\ derived' = derived
    BY DEF PutOriginal, row
  <2>3. \A q \in Photos : /\ job[q].pc \in {"derive", "commit"} => job[q].bytes \in Keys
                          /\ contentHash[q] # None => contentHash[q] \in Keys
    BY DEF IInv, TypeOK, JobHolds, Keys, Content
  <2> QED BY <1>1, <2>1, <2>2, <2>3 DEF SInv, Stored, Keys
<1>4. FinalKeysAreScreened'
  BY <1>1 DEF SInv, FinalKeysAreScreened, Full, Keys
<1>5. (Alone /\ Untouched /\ Placed)'
  BY DEF IInv, SInv, Alone, Untouched, Placed, Idle, Draft, PutOriginal, At,
         Original, Goto, row, Quiet
<1> QED BY <1>2, <1>3, <1>4, <1>5 DEF SInv

\* Storing the renditions keeps SInv.
LEMMA DerivePrompt ==
    ASSUME Prompt, IInv, SInv, NEW p \in Photos, Derive(p)
    PROVE  SInv'
<1>1. Working'
  BY IngestAssumption
  DEF IInv, SInv, TypeOK, Working, Derive, At, Goto, row, Quiet, Idle, NoObject,
      NoJob, Keys, Content, Object
<1>2. Stored'
  BY IngestAssumption
  DEF IInv, SInv, TypeOK, Stored, Working, Derive, At, Goto, row, Quiet, Idle,
      NoObject, NoJob, Full, Keys, Content, Object
<1>3. (Alone /\ Untouched /\ Placed /\ FinalKeysAreScreened)'
  BY DEF IInv, SInv, Alone, Untouched, Placed, FinalKeysAreScreened, Idle, 
         Draft, Derive, At, Goto, row, Quiet
<1> QED BY <1>1, <1>2, <1>3 DEF SInv

\* Failing to decode keeps SInv.
LEMMA DecodeFailsPrompt ==
    ASSUME Prompt, IInv, SInv, NEW p \in Photos, DecodeFails(p)
    PROVE  SInv'
<1>1. Alone'
  BY IngestAssumption
  DEF IInv, SInv, TypeOK, Alone, Working, DecodeFails, At, Delete, Fail, Quiet,
      NoObject, End, Answered, Idle, NoJob, Draft, Keys, Content, Object
<1>2. Untouched'
  BY IngestAssumption
  DEF IInv, SInv, TypeOK, Untouched, Working, DecodeFails, At, Delete, Fail, Quiet,
      NoObject, End, Answered, Idle, NoJob, Keys, Content, Object
<1>3. Placed'
  BY IngestAssumption
  DEF IInv, SInv, TypeOK, Placed, Working, DecodeFails, At, Delete, Fail, Quiet,
      NoObject, End, Answered, Idle, NoJob, Keys, Content, Object
<1>4. Working'
  BY IngestAssumption
  DEF IInv, SInv, TypeOK, Working, DecodeFails, At, Delete, Fail, Quiet, NoObject,
      End, Answered, Idle, NoJob, Keys, Content, Object
<1>5. Stored'
  BY IngestAssumption
  DEF IInv, SInv, TypeOK, Stored, Working, Placed, Alone, Untouched, JobHolds,
      DecodeFails, At, Delete, Fail, Quiet, NoObject, End, Answered, Idle, NoJob,
      Full, Draft, Keys, Content, Object
<1>6. FinalKeysAreScreened'
  BY DeletingScreens DEF IInv, SInv, DecodeFails
<1> QED BY <1>1, <1>2, <1>3, <1>4, <1>5, <1>6 DEF SInv

\* The commit keeps SInv.
LEMMA CommitPrompt ==
    ASSUME Prompt, IInv, SInv, NEW p \in Photos, Commit(p)
    PROVE  SInv'
<1>1. Alone'
  BY IngestAssumption
  DEF IInv, SInv, TypeOK, Alone, Working, Commit, At, Collides, Goto, objects,
      Quiet, Live, Twins, Idle, NoObject, NoJob, Draft, Keys, Content, Object
<1>2. Untouched'
  BY IngestAssumption
  DEF IInv, SInv, TypeOK, Untouched, Working, Commit, At, Collides, Goto, objects,
      Quiet, Live, Twins, Idle, NoObject, NoJob, Keys, Content, Object
<1>3. Placed'
  BY IngestAssumption
  DEF IInv, SInv, TypeOK, Placed, Working, Alone, Untouched, JobHolds, Commit, At,
      Collides, Goto, objects, Quiet, Live, Twins, Idle, NoObject, NoJob, 
         Draft, Keys, Content, Object
<1>4. Working'
  BY IngestAssumption
  DEF IInv, SInv, TypeOK, Working, Commit, At, Collides, Goto, objects, Quiet,
      Live, Twins, Idle, NoObject, NoJob, Keys, Content, Object
<1>5. Stored'
  <2>1. \A q \in Photos : /\ q # p => job'[q] = job[q] /\ contentHash'[q] = contentHash[q]
                          /\ job'[p].pc = "clean" /\ contentHash'[p] = job[p].bytes
    BY DEF IInv, TypeOK, Commit, Goto
  <2>2. store' = store /\ derived' = derived
    BY DEF Commit, objects
  <2>3. job[p].pc = "commit"
    BY DEF Commit, At
  <2> QED BY <2>1, <2>2, <2>3 DEF SInv, Stored
<1>6. FinalKeysAreScreened'
  BY DEF IInv, SInv, FinalKeysAreScreened, Commit, At, Collides, Goto, objects,
         Quiet, Live, Twins, Idle
<1> QED BY <1>1, <1>2, <1>3, <1>4, <1>5, <1>6 DEF SInv

\* A commit the index refuses keeps SInv.
LEMMA CollidePrompt ==
    ASSUME Prompt, IInv, SInv, NEW p \in Photos, Collide(p)
    PROVE  SInv'
<1>1. Working'
  BY IngestAssumption
  DEF IInv, SInv, TypeOK, Working, Collide, At, Collides, End, row, objects, Quiet,
      Live, Twins, NoJob, Idle, NoObject, Keys, Content, Object
<1>2. Stored'
  BY IngestAssumption
  DEF IInv, SInv, TypeOK, Stored, Working, Collide, At, Collides, End, row,
      objects, Quiet, Live, Twins, NoJob, Idle, NoObject, Full, Keys, Content,
      Object
<1>3. (Alone /\ Untouched /\ Placed /\ FinalKeysAreScreened)'
  BY DEF IInv, SInv, Alone, Untouched, Placed, FinalKeysAreScreened, Idle, 
         Draft, Collide, At, Collides, End, row, objects, Quiet, Live, Twins, NoJob
<1> QED BY <1>1, <1>2, <1>3 DEF SInv

\* Cleaning up the upload key keeps SInv.
LEMMA CleanPrompt ==
    ASSUME Prompt, IInv, SInv, NEW p \in Photos, Clean(p)
    PROVE  SInv'
<1>1. Working'
  BY IngestAssumption
  DEF IInv, SInv, TypeOK, Working, Clean, At, Delete, End, Answered, row, Quiet,
      NoObject, NoJob, Idle, Keys, Content, Object
<1>2. Stored'
  BY IngestAssumption
  DEF IInv, SInv, TypeOK, Stored, Working, Placed, Alone, Untouched, JobHolds,
      Clean, At, Delete, End, Answered, row, Quiet, NoObject, NoJob, Idle, Full,
      Draft, Keys, Content, Object
<1>3. FinalKeysAreScreened'
  <2>1. CASE UNCHANGED store
    BY <2>1 DEF SInv, FinalKeysAreScreened
  <2>2. CASE Delete(job[p].key)
    BY <2>2, DeletingScreens DEF IInv, SInv
  <2> QED BY <2>1, <2>2 DEF Clean
<1>4. (Alone /\ Untouched /\ Placed)'
  BY DEF IInv, SInv, Alone, Untouched, Placed, Idle, Draft, Clean, At,
         Delete, End, Answered, row, Quiet, NoObject, NoJob
<1> QED BY <1>1, <1>2, <1>3, <1>4 DEF SInv

\* A job that dies keeps SInv.
LEMMA DiePrompt ==
    ASSUME Prompt, IInv, SInv, NEW p \in Photos, Die(p)
    PROVE  SInv'
<1>1. Working'
  BY IngestAssumption
  DEF IInv, SInv, TypeOK, Working, Die, Quiet, NoJob, End, row, objects, Idle,
      NoObject, Keys, Content, Object
<1>2. Stored'
  BY IngestAssumption
  DEF IInv, SInv, TypeOK, Stored, Working, Die, Quiet, NoJob, End, row, objects,
      Idle, NoObject, Full, Keys, Content, Object
<1>3. (Alone /\ Untouched /\ Placed /\ FinalKeysAreScreened)'
  BY DEF IInv, SInv, Alone, Untouched, Placed, FinalKeysAreScreened, Idle, 
         Draft, Die, Quiet, NoJob, End, row, objects
<1> QED BY <1>1, <1>2, <1>3 DEF SInv

-----------------------------------------------------------------------------
\* Every step of a prompt system keeps what is known of jobs and storage.
LEMMA StepPrompt ==
    ASSUME Prompt, IInv, SInv, [Next]_vars
    PROVE  SInv'
<1>1. CASE \E p \in Photos : Step(p)
  BY <1>1, GetPrompt, GetFailsPrompt, DuplicatePrompt, TombstonePrompt,
     UniquePrompt, PassPrompt, MatchPrompt, PreservePrompt, RecordPrompt,
     PutOriginalPrompt, DerivePrompt, DecodeFailsPrompt, CommitPrompt,
     CollidePrompt, CleanPrompt
  DEF Step
<1>2. CASE \E r \in Requests : Act(r)
  BY <1>2, CompletePrompt, RetryPrompt, DiscardPrompt, ClaimPrompt, RescuePrompt,
     SweepPrompt, GiveUpPrompt
  DEF Act
<1>3. CASE \E r \in Requests, op \in Operations, p \in Photos : Read(r, op, p)
  BY <1>3, ReadPrompt
<1>4. CASE \E p \in Photos, c \in Contents : Put(p, c)
  BY <1>4, PutPrompt
<1>5. CASE \E p \in Photos :
             \/ Presign(p) \/ WeekPasses(p) \/ Requeue(p) \/ Lose(p)
             \/ Start(p) \/ Refuse(p) \/ Die(p)
  BY <1>5, PresignPrompt, WeekPassesPrompt, RequeuePrompt, LosePrompt, StartPrompt, RefusePrompt,
     DiePrompt
<1>6. CASE UNCHANGED vars
  BY <1>6
  DEF SInv, Alone, Draft, Untouched, Placed, Working, Stored,
         FinalKeysAreScreened, row, objects, vars
<1> QED BY <1>1, <1>2, <1>3, <1>4, <1>5, <1>6 DEF Next

\* So does an empty album, where nothing is stored.
LEMMA InitPrompt == Init => SInv
BY IngestAssumption
DEF Init, SInv, Alone, Untouched, Placed, Working, Stored, FinalKeysAreScreened,
    Keys, NoJob

\* What is stored, and where, in every state a prompt system reaches.
THEOREM PromptInvariance ==
    ASSUME Prompt
    PROVE  Spec => [](IInv /\ SInv)
<1>1. Init => IInv /\ SInv
  BY InitKeeps, InitPrompt
<1>2. IInv /\ SInv /\ [Next]_vars => (IInv /\ SInv)'
  BY StepKeeps, StepPrompt
<1> QED BY <1>1, <1>2, PTL DEF Spec

\* Only its own steps move a job that is under way.
LEMMA OwnSteps ==
    ASSUME IInv, Next, NEW p \in Photos, job[p] # NoJob, job'[p] # job[p]
    PROVE  Step(p) \/ Die(p)
<1>1. \A q \in Photos \ {p} : (Step(q) \/ Die(q) \/ Start(q)) => job'[p] = job[p]
  BY DEF IInv, TypeOK, Step, Get, GetFails, Duplicate, Tombstone, Unique, Pass, Match,
         Preserve, Record, PutOriginal, Derive, DecodeFails, Commit, Collide, Clean,
         Fail, Goto, End, Die, Start
<1>2. ~Start(p)
  BY DEF Start, Taken
<1>3. \A q \in Photos :
        /\ Presign(q) \/ WeekPasses(q) \/ Requeue(q) \/ Lose(q) \/ Refuse(q) => job' = job
        /\ \A c \in Contents : Put(q, c) => job' = job
  BY DEF Presign, WeekPasses, Requeue, Lose, Refuse, Put
<1>4. \A r \in Requests :
        /\ Act(r) => job' = job
        /\ \A op \in Operations, q \in Photos : Read(r, op, q) => job' = job
  BY DEF Act, Complete, Retry, Discard, Claim, Rescue, GiveUp, Sweep, Read
<1> QED BY <1>1, <1>2, <1>3, <1>4 DEF Next

\* Each step of a job is nearer its end, and the last one decides its photograph.
LEMMA StepDecides ==
    ASSUME Prompt, IInv, SInv, NEW p \in Photos, Step(p), ~Die(p), job[p] # NoJob
    PROVE  /\ StepsLeft[job'[p].pc] < StepsLeft[job[p].pc]
           /\ job'[p] = NoJob => ~Undecided(p)'
<1>1. ASSUME GetFails(p) \/ DecodeFails(p)
      PROVE  status'[p] = "failed" /\ job'[p] = NoJob /\ job[p].pc \in {"get", "derive"}
  BY <1>1 DEF IInv, TypeOK, GetFails, DecodeFails, Fail, End, At
<1>2. ASSUME Tombstone(p)
      PROVE  status'[p] = "removed" /\ job'[p] = NoJob /\ job[p].pc = "tombstone"
  BY <1>2 DEF IInv, TypeOK, Tombstone, End, At
<1>3. ASSUME Record(p)
      PROVE  hiddenAt'[p] /\ job'[p] = NoJob /\ job[p].pc = "record"
  BY <1>3 DEF IInv, TypeOK, JobHolds, Record, End, At, row
<1>4. ASSUME Clean(p)
      PROVE  status'[p] = "ready" /\ job'[p] = NoJob /\ job[p].pc = "clean"
  BY <1>4 DEF IInv, TypeOK, SInv, Working, Clean, End, At, row
<1>5. ~Collide(p)
  BY DEF Collide, Die, At, IInv, TypeOK
<1>6. ASSUME NEW to \in {"tombstone", "scan", "put", "preserve", "record", "derive",
                         "commit", "clean"},
             Goto(p, to)
      PROVE  job'[p].pc = to /\ job'[p] # NoJob
  BY <1>6 DEF IInv, TypeOK, Goto, NoJob
<1>7. CASE Get(p)
  <2>1. job[p].pc = "get" /\ job'[p].pc = "check"
    BY <1>7 DEF IInv, TypeOK, Get, At
  <2> QED BY <2>1 DEF StepsLeft, NoJob
<1>8. CASE Duplicate(p) \/ Unique(p)
  <2>1. job[p].pc = "check" /\ job'[p].pc \in {"tombstone", "scan"}
    BY <1>6, <1>8 DEF Duplicate, Unique, At
  <2> QED BY <2>1 DEF StepsLeft, NoJob
<1>9. CASE Pass(p) \/ Match(p)
  <2>1. job[p].pc = "scan" /\ job'[p].pc \in {"put", "preserve"}
    BY <1>6, <1>9 DEF Pass, Match, At
  <2> QED BY <2>1 DEF StepsLeft, NoJob
<1>10. CASE Preserve(p)
  <2>1. job[p].pc = "preserve" /\ job'[p].pc = "record"
    BY <1>6, <1>10 DEF Preserve, At
  <2> QED BY <2>1 DEF StepsLeft, NoJob
<1>11. CASE PutOriginal(p)
  <2>1. job[p].pc = "put" /\ job'[p].pc = "derive"
    BY <1>6, <1>11 DEF PutOriginal, At
  <2> QED BY <2>1 DEF StepsLeft, NoJob
<1>12. CASE Derive(p)
  <2>1. job[p].pc = "derive" /\ job'[p].pc = "commit"
    BY <1>6, <1>12 DEF Derive, At
  <2> QED BY <2>1 DEF StepsLeft, NoJob
<1>13. CASE Commit(p)
  <2>1. job[p].pc = "commit" /\ job'[p].pc = "clean"
    BY <1>6, <1>13 DEF Commit, At
  <2> QED BY <2>1 DEF StepsLeft, NoJob
<1>14. CASE GetFails(p) \/ DecodeFails(p) \/ Tombstone(p) \/ Record(p) \/ Clean(p)
  <2>1. /\ job'[p] = NoJob
        /\ job[p].pc \in {"get", "derive", "tombstone", "record", "clean"}
    BY <1>1, <1>2, <1>3, <1>4, <1>14
  <2>2. status'[p] \in {"failed", "removed", "ready"} \/ hiddenAt'[p]
    BY <1>1, <1>2, <1>3, <1>4, <1>14
  <2> QED BY <2>1, <2>2 DEF StepsLeft, NoJob, Undecided, Stranded
<1> QED
  BY <1>5, <1>7, <1>8, <1>9, <1>10, <1>11, <1>12, <1>13, <1>14 DEF Step

\* When requests are prompt a job that is not cut short decides its photograph in
\* a bounded number of steps, for any number of photographs and of jobs at once.
THEOREM Decide ==
    ASSUME Prompt
    PROVE  Spec => JobsDecide
<1>1. IInv /\ SInv /\ [Next]_vars =>
        [\A p \in Photos : job[p] # NoJob /\ job'[p] # job[p] =>
            \/ Die(p)
            \/ /\ StepsLeft[job'[p].pc] < StepsLeft[job[p].pc]
               /\ job'[p] = NoJob => ~Undecided(p)']_vars
  BY OwnSteps, StepDecides DEF vars
<1> QED BY <1>1, Invariance, PromptInvariance, PTL DEF Spec, JobsDecide

\* Whatever a listing links to is in storage, with its renditions.
THEOREM Servable ==
    ASSUME Prompt
    PROVE  Spec => []ShownIsServable
<1>1. IInv /\ SInv => ShownIsServable
  BY DEF IInv, SInv, RowMoved, Stored, ShownIsServable, Visible, Full
<1> QED BY <1>1, PromptInvariance, PTL

\* Nothing unstripped or matched is ever at a content's final key.
THEOREM Screened ==
    ASSUME Prompt
    PROVE  Spec => []FinalKeysAreScreened
<1>1. IInv /\ SInv => FinalKeysAreScreened
  BY DEF SInv
<1> QED BY <1>1, PromptInvariance, PTL

-----------------------------------------------------------------------------
(* Ingest implements Album.                                                    *)

\* The columns Album can see are not written.
SameRow(q) ==
    /\ status'[q] = status[q] /\ contentHash'[q] = contentHash[q]
    /\ deletedAt'[q] = deletedAt[q] /\ hiddenAt'[q] = hiddenAt[q]

\* What Album sees of a photograph stays.
SameEntry(q) == Entry(q)' = Entry(q) /\ Shows(q)' = Shows(q)

\* A row that is not written stands where it stood.
LEMMA RowEntry ==
    ASSUME NEW q \in Photos, SameRow(q)
    PROVE  SameEntry(q)
BY DEF SameRow, SameEntry, Entry, Shows, Live, Visible

\* Nothing moves: Album stutters.
LEMMA Stays ==
    ASSUME \A q \in Photos : SameEntry(q)
    PROVE  [AlbumPromise!Next]_(AlbumPromise!vars)
BY DEF SameEntry, AlbumPromise!vars

\* One photograph becomes a draft, or is held or dropped.
LEMMA Moves ==
    ASSUME NEW p \in Photos, \A q \in Photos \ {p} : SameEntry(q), Shows(p)' = Shows(p),
           \/ Entry(p) = "none" /\ Entry(p)' = "draft"
           \/ Entry(p) = "draft" /\ Entry(p)' \in {"held", "gone"}
    PROVE  AlbumPromise!Next
BY DEF SameEntry, AlbumPromise!Next, AlbumPromise!Start, AlbumPromise!Hold,
       AlbumPromise!Drop, AlbumPromise!Decide

\* One photograph is shown.
LEMMA IsShown ==
    ASSUME NEW p \in Photos, \A q \in Photos \ {p} : SameEntry(q),
           NEW c \in Contents \ Bad, \A q \in Photos : Shows(q) # c,
           Entry(p) = "draft", Entry(p)' = "shown", Shows(p)' = c
    PROVE  AlbumPromise!Next
BY DEF SameEntry, AlbumPromise!Next, AlbumPromise!Show, AlbumPromise!Decide

\* Where a job is while its photograph is undecided.
Deciding == {"get", "check", "scan", "put", "derive", "commit", "tombstone"}

\* A job that is still deciding works on a draft, or on a row given up since.
LEMMA DecidingIsDraft ==
    ASSUME IInv, SInv, NEW p \in Photos, job[p].pc \in Deciding
    PROVE  /\ status[p] \in Status \ {"absent", "ready"} /\ ~hiddenAt[p]
           /\ ~deletedAt[p] => Entry(p) = "draft"
           /\ Shows(p) = None
<1>1. job[p] # NoJob
  BY DEF NoJob, Deciding
<1>2. status[p] \in Status \ {"absent", "ready"} /\ ~hiddenAt[p]
  BY <1>1 DEF IInv, SInv, TypeOK, JobHolds, Working, Deciding
<1> QED BY <1>2 DEF Entry, Shows, Live, Visible

\* A request that is under way is about a draft.
LEMMA ActsOnDraft ==
    ASSUME SInv, NEW r \in Requests, request[r] # Idle
    PROVE  /\ Draft(request[r].photo)
           /\ Entry(request[r].photo) = "draft"
           /\ Shows(request[r].photo) = None
BY DEF SInv, Alone, Draft, Entry, Shows, Live, Visible

\* Confirming an upload is a step of Album, or none.
LEMMA CompleteMaps ==
    ASSUME IInv, SInv, NEW r \in Requests, Complete(r),
           NEW p \in Photos, p = request[r].photo
    PROVE  [AlbumPromise!Next]_(AlbumPromise!vars)
<1>1. request[r] # Idle
  BY DEF Complete, Acts, Idle
<1>2. Draft(p) /\ Entry(p) = "draft" /\ Shows(p) = None
  BY <1>1, ActsOnDraft
<1>3. \A q \in Photos \ {p} : SameRow(q)
  BY DEF Complete, SameRow, IInv, TypeOK
<1>4. \A q \in Photos \ {p} : SameEntry(q)
  BY <1>3, RowEntry
<1>5. status'[p] \in {"pending", "failed"} /\ ~deletedAt'[p] /\ ~hiddenAt'[p]
  BY <1>1, <1>2 DEF Complete, Draft, IInv, TypeOK
<1>6. SameEntry(p)
  BY <1>2, <1>5 DEF SameEntry, Entry, Shows, Live, Visible
<1> QED BY <1>4, <1>6, Stays

\* Trying a draft again is a step of Album, or none.
LEMMA RetryMaps ==
    ASSUME IInv, SInv, NEW r \in Requests, Retry(r),
           NEW p \in Photos, p = request[r].photo
    PROVE  [AlbumPromise!Next]_(AlbumPromise!vars)
<1>1. request[r] # Idle
  BY DEF Retry, Acts, Idle
<1>2. Draft(p) /\ Entry(p) = "draft" /\ Shows(p) = None
  BY <1>1, ActsOnDraft
<1>3. \A q \in Photos \ {p} : SameRow(q)
  BY DEF Retry, SameRow, IInv, TypeOK
<1>4. \A q \in Photos \ {p} : SameEntry(q)
  BY <1>3, RowEntry
<1>5. status'[p] \in {"pending", "failed"} /\ ~deletedAt'[p] /\ ~hiddenAt'[p]
  BY <1>1, <1>2 DEF Retry, Draft, IInv, TypeOK
<1>6. SameEntry(p)
  BY <1>2, <1>5 DEF SameEntry, Entry, Shows, Live, Visible
<1> QED BY <1>4, <1>6, Stays

\* Taking a draft over for a new upload is a step of Album, or none.
LEMMA ClaimMaps ==
    ASSUME IInv, SInv, NEW r \in Requests, Claim(r),
           NEW p \in Photos, p = request[r].photo
    PROVE  [AlbumPromise!Next]_(AlbumPromise!vars)
<1>1. request[r] # Idle
  BY DEF Claim, Acts, Idle
<1>2. Draft(p) /\ Entry(p) = "draft" /\ Shows(p) = None
  BY <1>1, ActsOnDraft
<1>3. \A q \in Photos \ {p} : SameRow(q)
  BY DEF Claim, SameRow, IInv, TypeOK
<1>4. \A q \in Photos \ {p} : SameEntry(q)
  BY <1>3, RowEntry
<1>5. status'[p] \in {"pending", "failed"} /\ ~deletedAt'[p] /\ ~hiddenAt'[p]
  BY <1>1, <1>2 DEF Claim, Draft, IInv, TypeOK
<1>6. SameEntry(p)
  BY <1>2, <1>5 DEF SameEntry, Entry, Shows, Live, Visible
<1> QED BY <1>4, <1>6, Stays

\* The rescue of unconfirmed bytes is a step of Album, or none.
LEMMA RescueMaps ==
    ASSUME IInv, SInv, NEW r \in Requests, Rescue(r),
           NEW p \in Photos, p = request[r].photo
    PROVE  [AlbumPromise!Next]_(AlbumPromise!vars)
<1>1. request[r] # Idle
  BY DEF Rescue, Acts, Idle
<1>2. Draft(p) /\ Entry(p) = "draft" /\ Shows(p) = None
  BY <1>1, ActsOnDraft
<1>3. \A q \in Photos \ {p} : SameRow(q)
  BY DEF Rescue, SameRow, IInv, TypeOK
<1>4. \A q \in Photos \ {p} : SameEntry(q)
  BY <1>3, RowEntry
<1>5. status'[p] \in {"pending", "failed"} /\ ~deletedAt'[p] /\ ~hiddenAt'[p]
  BY <1>1, <1>2 DEF Rescue, Draft, IInv, TypeOK
<1>6. SameEntry(p)
  BY <1>2, <1>5 DEF SameEntry, Entry, Shows, Live, Visible
<1> QED BY <1>4, <1>6, Stays

\* Discarding a draft is a step of Album, or none.
LEMMA DiscardMaps ==
    ASSUME IInv, SInv, NEW r \in Requests, Discard(r),
           NEW p \in Photos, p = request[r].photo
    PROVE  [AlbumPromise!Next]_(AlbumPromise!vars)
<1>1. request[r] # Idle
  BY DEF Discard, Acts, Idle
<1>2. Draft(p) /\ Entry(p) = "draft" /\ Shows(p) = None
  BY <1>1, ActsOnDraft
<1>3. \A q \in Photos \ {p} : SameRow(q)
  BY DEF Discard, SameRow, IInv, TypeOK
<1>4. \A q \in Photos \ {p} : SameEntry(q)
  BY <1>3, RowEntry
<1>5. CASE UNCHANGED <<status, deletedAt, bytesAt>>
  <2>1. SameRow(p)
    BY <1>5 DEF Discard, SameRow
  <2> QED BY <2>1, <1>1, <1>4, RowEntry, Stays
<1>6. CASE /\ status' = [status EXCEPT ![p] = "removed"]
           /\ deletedAt' = [deletedAt EXCEPT ![p] = TRUE]
  <2>1. status'[p] = "removed" /\ deletedAt'[p]
    BY <1>1, <1>6 DEF IInv, TypeOK
  <2>2. Entry(p)' = "gone" /\ Shows(p)' = None
    BY <2>1 DEF Entry, Shows, Live, Visible
  <2>3. AlbumPromise!Next
    BY <1>1, <1>2, <1>4, <2>2, Moves
  <2> QED BY <2>3
<1> QED BY <1>5, <1>6 DEF Discard

\* What the sweep does with a draft is a step of Album, or none.
LEMMA SweepMaps ==
    ASSUME IInv, SInv, NEW r \in Requests, NEW op \in Sweeps, Sweep(r, op),
           NEW p \in Photos, p = request[r].photo
    PROVE  [AlbumPromise!Next]_(AlbumPromise!vars)
<1>1. request[r] # Idle
  BY DEF Sweep, Acts, Idle, Sweeps
<1>2. Draft(p) /\ Entry(p) = "draft" /\ Shows(p) = None
  BY <1>1, ActsOnDraft
<1>3. \A q \in Photos \ {p} : SameRow(q)
  BY DEF Sweep, SameRow, IInv, TypeOK
<1>4. \A q \in Photos \ {p} : SameEntry(q)
  BY <1>3, RowEntry
<1>5. CASE UNCHANGED deletedAt
  <2>1. status'[p] \in {"pending", "failed"} /\ ~deletedAt'[p] /\ ~hiddenAt'[p]
    BY <1>2, <1>5 DEF Sweep, Draft, IInv, TypeOK
  <2>2. SameEntry(p)
    BY <1>2, <2>1 DEF SameEntry, Entry, Shows, Live, Visible
  <2> QED BY <1>4, <2>2, Stays
<1>6. CASE deletedAt' = [deletedAt EXCEPT ![p] = TRUE] /\ UNCHANGED status
  <2>1. status'[p] \in {"pending", "failed"} /\ deletedAt'[p]
    BY <1>2, <1>6 DEF Draft, IInv, TypeOK
  <2>2. Entry(p)' = "gone" /\ Shows(p)' = None
    BY <2>1 DEF Entry, Shows, Live, Visible
  <2>3. AlbumPromise!Next
    BY <1>2, <1>4, <2>2, Moves
  <2> QED BY <2>3
<1> QED BY <1>5, <1>6 DEF Sweep

\* Failing to read the bytes is a step of Album, or none.
LEMMA GetFailsMaps ==
    ASSUME IInv, SInv, NEW p \in Photos, GetFails(p)
    PROVE  [AlbumPromise!Next]_(AlbumPromise!vars)
<1>1. job[p].pc = "get" /\ job[p].pc \in Deciding
  BY DEF GetFails, At, Deciding
<1>2. /\ status[p] \in Status \ {"absent", "ready"} /\ ~hiddenAt[p]
      /\ ~deletedAt[p] => Entry(p) = "draft"
      /\ Shows(p) = None
  BY <1>1, DecidingIsDraft
<1>3. \A q \in Photos \ {p} : SameRow(q)
  BY DEF GetFails, SameRow, Fail, IInv, TypeOK
<1>4. \A q \in Photos \ {p} : SameEntry(q)
  BY <1>3, RowEntry
<1>5. status'[p] = "failed" /\ deletedAt'[p] = deletedAt[p] /\ ~hiddenAt'[p]
  BY <1>2 DEF GetFails, Fail, IInv, TypeOK
<1>6. SameEntry(p)
  BY <1>2, <1>5 DEF SameEntry, Entry, Shows, Live, Visible
<1> QED BY <1>4, <1>6, Stays

\* Failing to decode is a step of Album, or none.
LEMMA DecodeFailsMaps ==
    ASSUME IInv, SInv, NEW p \in Photos, DecodeFails(p)
    PROVE  [AlbumPromise!Next]_(AlbumPromise!vars)
<1>1. job[p].pc = "derive" /\ job[p].pc \in Deciding
  BY DEF DecodeFails, At, Deciding
<1>2. /\ status[p] \in Status \ {"absent", "ready"} /\ ~hiddenAt[p]
      /\ ~deletedAt[p] => Entry(p) = "draft"
      /\ Shows(p) = None
  BY <1>1, DecidingIsDraft
<1>3. \A q \in Photos \ {p} : SameRow(q)
  BY DEF DecodeFails, SameRow, Fail, IInv, TypeOK
<1>4. \A q \in Photos \ {p} : SameEntry(q)
  BY <1>3, RowEntry
<1>5. status'[p] = "failed" /\ deletedAt'[p] = deletedAt[p] /\ ~hiddenAt'[p]
  BY <1>2 DEF DecodeFails, Fail, IInv, TypeOK
<1>6. SameEntry(p)
  BY <1>2, <1>5 DEF SameEntry, Entry, Shows, Live, Visible
<1> QED BY <1>4, <1>6, Stays

\* Removing a duplicate's row is a step of Album, or none.
LEMMA TombstoneMaps ==
    ASSUME IInv, SInv, NEW p \in Photos, Tombstone(p)
    PROVE  [AlbumPromise!Next]_(AlbumPromise!vars)
<1>1. job[p].pc = "tombstone" /\ job[p].pc \in Deciding
  BY DEF Tombstone, At, Deciding
<1>2. /\ status[p] \in Status \ {"absent", "ready"} /\ ~hiddenAt[p]
      /\ ~deletedAt[p] => Entry(p) = "draft"
      /\ Shows(p) = None
  BY <1>1, DecidingIsDraft
<1>3. \A q \in Photos \ {p} : SameRow(q)
  BY DEF Tombstone, SameRow, IInv, TypeOK
<1>4. \A q \in Photos \ {p} : SameEntry(q)
  BY <1>3, RowEntry
<1>5. status'[p] = "removed" /\ deletedAt'[p]
  BY DEF Tombstone, IInv, TypeOK
<1>6. CASE deletedAt[p]
  <2>1. SameEntry(p)
    BY <1>2, <1>5, <1>6 DEF SameEntry, Entry, Shows, Live, Visible
  <2> QED BY <2>1, <1>4, Stays
<1>7. CASE ~deletedAt[p]
  <2>1. Entry(p)' = "gone" /\ Shows(p)' = None
    BY <1>5 DEF Entry, Shows, Live, Visible
  <2>2. AlbumPromise!Next
    BY <2>1, <1>2, <1>4, <1>7, Moves
  <2> QED BY <2>2
<1> QED BY <1>6, <1>7

\* A scan that matches is a step of Album, or none.
LEMMA MatchMaps ==
    ASSUME IInv, SInv, NEW p \in Photos, Match(p)
    PROVE  [AlbumPromise!Next]_(AlbumPromise!vars)
<1>1. job[p].pc = "scan" /\ job[p].pc \in Deciding
  BY DEF Match, At, Deciding
<1>2. /\ status[p] \in Status \ {"absent", "ready"} /\ ~hiddenAt[p]
      /\ ~deletedAt[p] => Entry(p) = "draft"
      /\ Shows(p) = None
  BY <1>1, DecidingIsDraft
<1>3. \A q \in Photos \ {p} : SameRow(q)
  BY DEF Match, SameRow, IInv, TypeOK
<1>4. \A q \in Photos \ {p} : SameEntry(q)
  BY <1>3, RowEntry
<1>5. status'[p] = "quarantined" /\ deletedAt'[p] = deletedAt[p] /\ hiddenAt'[p]
  BY DEF Match, IInv, TypeOK
<1>6. CASE deletedAt[p]
  <2>1. SameEntry(p)
    BY <1>2, <1>5, <1>6 DEF SameEntry, Entry, Shows, Live, Visible
  <2> QED BY <2>1, <1>4, Stays
<1>7. CASE ~deletedAt[p]
  <2>1. Entry(p)' = "held" /\ Shows(p)' = None
    BY <1>5, <1>7 DEF Entry, Shows, Live, Visible
  <2>2. AlbumPromise!Next
    BY <2>1, <1>2, <1>4, <1>7, Moves
  <2> QED BY <2>2
<1> QED BY <1>6, <1>7

\* The commit is a step of Album, or none.
LEMMA CommitMaps ==
    ASSUME IInv, SInv, NEW p \in Photos, Commit(p)
    PROVE  [AlbumPromise!Next]_(AlbumPromise!vars)
<1>1. job[p].pc = "commit" /\ job[p].pc \in Deciding
  BY DEF Commit, At, Deciding
<1>2. /\ status[p] \in Status \ {"absent", "ready"} /\ ~hiddenAt[p]
      /\ ~deletedAt[p] => Entry(p) = "draft"
      /\ Shows(p) = None
  BY <1>1, DecidingIsDraft
<1>3. \A q \in Photos \ {p} : SameRow(q)
  BY DEF Commit, SameRow, IInv, TypeOK
<1>4. \A q \in Photos \ {p} : SameEntry(q)
  BY <1>3, RowEntry
<1>5. /\ status'[p] = "ready" /\ deletedAt'[p] = deletedAt[p] /\ ~hiddenAt'[p]
      /\ contentHash'[p] = job[p].bytes
  BY <1>2 DEF Commit, IInv, TypeOK
<1>6. CASE deletedAt[p]
  <2>1. SameEntry(p)
    BY <1>2, <1>5, <1>6 DEF SameEntry, Entry, Shows, Live, Visible
  <2> QED BY <2>1, <1>4, Stays
<1>7. CASE ~deletedAt[p]
  <2> DEFINE c == job[p].bytes
  <2>1. c \in Contents \ Bad
    BY <1>1 DEF IInv, JobHolds
  <2>2. Twins(p) = {}
    BY <1>2, <1>7 DEF Commit, Collides, Live
  <2>3. \A q \in Photos \ {p} : Visible(q) => contentHash[q] # c
    BY <2>2 DEF Twins, Live, Visible
  <2>4. c # None
    BY <2>1, IngestAssumption
  <2>5. \A q \in Photos : Shows(q) # c
    BY <2>3, <2>4, <1>2 DEF Shows
  <2>6. Entry(p)' = "shown" /\ Shows(p)' = c
    BY <1>5, <1>7 DEF Entry, Shows, Live, Visible
  <2>7. AlbumPromise!Next
    BY <2>1, <2>5, <2>6, <1>2, <1>4, <1>7, IsShown
  <2> QED BY <2>7
<1> QED BY <1>6, <1>7

\* A new row is a step of Album, or none.
LEMMA PresignMaps ==
    ASSUME IInv, SInv, NEW p \in Photos, Presign(p)
    PROVE  [AlbumPromise!Next]_(AlbumPromise!vars)
<1>1. status[p] = "absent" /\ ~deletedAt[p] /\ ~hiddenAt[p]
  BY DEF Presign, SInv, Untouched
<1>2. status'[p] = "pending" /\ ~deletedAt'[p] /\ ~hiddenAt'[p]
  BY <1>1 DEF Presign, IInv, TypeOK
<1>3. \A q \in Photos \ {p} : SameRow(q)
  BY DEF Presign, SameRow, IInv, TypeOK
<1>4. \A q \in Photos \ {p} : SameEntry(q)
  BY <1>3, RowEntry
<1>5. Entry(p) = "none" /\ Entry(p)' = "draft" /\ Shows(p)' = Shows(p)
  BY <1>1, <1>2 DEF Entry, Shows, Live, Visible
<1>6. AlbumPromise!Next
  BY <1>4, <1>5, Moves
<1> QED BY <1>6

\* What writes no row is a stutter of Album.
LEMMA RowsKept ==
    ASSUME UNCHANGED row
    PROVE  [AlbumPromise!Next]_(AlbumPromise!vars)
<1>1. \A q \in Photos : SameRow(q)
  BY DEF row, SameRow
<1> QED BY <1>1, RowEntry, Stays

\* Every step that keeps the invariants is a step of Album, or none.
LEMMA StepMaps ==
    IInv /\ SInv /\ [Next]_vars => [AlbumPromise!Next]_(AlbumPromise!vars)
<1> SUFFICES ASSUME IInv, SInv, [Next]_vars
             PROVE  [AlbumPromise!Next]_(AlbumPromise!vars)
  OBVIOUS
<1>1. CASE UNCHANGED vars
  <2>1. UNCHANGED row
    BY <1>1 DEF vars
  <2> QED BY <2>1, RowsKept
<1>2. ASSUME NEW p \in Photos, Presign(p)
      PROVE  [AlbumPromise!Next]_(AlbumPromise!vars)
  BY <1>2, PresignMaps
<1>3. ASSUME NEW p \in Photos,
             \/ \E c \in Contents : Put(p, c)
             \/ Requeue(p) \/ Lose(p) \/ Start(p) \/ Refuse(p) \/ Die(p)
      PROVE  UNCHANGED row
  BY <1>3 DEF Put, Requeue, Lose, Start, Refuse, Die
<1>4. ASSUME NEW p \in Photos,
             \/ Get(p) \/ Duplicate(p) \/ Unique(p) \/ Pass(p) \/ Preserve(p)
             \/ Record(p) \/ PutOriginal(p) \/ Derive(p) \/ Collide(p) \/ Clean(p)
      PROVE  UNCHANGED row
  BY <1>4 DEF Get, Duplicate, Unique, Pass, Preserve, Record, PutOriginal, Derive,
              Collide, Clean
<1>5. ASSUME NEW p \in Photos,
             GetFails(p) \/ Tombstone(p) \/ Match(p) \/ DecodeFails(p) \/ Commit(p)
      PROVE  [AlbumPromise!Next]_(AlbumPromise!vars)
  BY <1>5, GetFailsMaps, TombstoneMaps, MatchMaps, DecodeFailsMaps, CommitMaps
<1>6. ASSUME NEW r \in Requests,
             GiveUp(r) \/ \E op \in Operations, p \in Photos : Read(r, op, p)
      PROVE  UNCHANGED row
  BY <1>6 DEF GiveUp, Read
<1>7. ASSUME NEW r \in Requests,
             \/ Complete(r) \/ Retry(r) \/ Discard(r) \/ Claim(r) \/ Rescue(r)
             \/ \E op \in Sweeps : Sweep(r, op)
      PROVE  [AlbumPromise!Next]_(AlbumPromise!vars)
  <2>1. request[r].photo \in Photos
    BY <1>7, ActsOn DEF IInv, Complete, Retry, Discard, Claim, Rescue, Sweep,
                        Operations
  <2>2. PICK p \in Photos : p = request[r].photo
    BY <2>1
  <2> QED BY <1>7, <2>2, CompleteMaps, RetryMaps, DiscardMaps, ClaimMaps, RescueMaps,
            SweepMaps
<1>8. ASSUME NEW p \in Photos, Step(p)
      PROVE  [AlbumPromise!Next]_(AlbumPromise!vars)
  BY <1>8, <1>4, <1>5, RowsKept DEF Step
<1>9. ASSUME NEW r \in Requests, Act(r)
      PROVE  [AlbumPromise!Next]_(AlbumPromise!vars)
  BY <1>9, <1>6, <1>7, RowsKept DEF Act
<1>10. ASSUME NEW p \in Photos, WeekPasses(p)
       PROVE  [AlbumPromise!Next]_(AlbumPromise!vars)
  <2>1. \A q \in Photos : SameRow(q)
    BY <1>10 DEF WeekPasses, SameRow
  <2> QED BY <2>1, RowEntry, Stays
<1> QED BY <1>1, <1>2, <1>3, <1>6, <1>8, <1>9, <1>10, RowsKept DEF Next

\* An empty album is one that has promised nothing yet.
LEMMA InitMaps == Init => AlbumPromise!Init
BY DEF Init, AlbumPromise!Init, Entry, Shows, Live, Visible

\* Ingest implements Album, whatever the number of photographs and requests.
THEOREM Implements ==
    ASSUME Prompt
    PROVE  Spec => ImplementsAlbum
<1>1. Init => AlbumPromise!Init
  BY InitMaps
<1>2. IInv /\ SInv /\ [Next]_vars => [AlbumPromise!Next]_(AlbumPromise!vars)
  BY StepMaps
<1> QED BY <1>1, <1>2, PromptInvariance, PTL DEF Spec, ImplementsAlbum, AlbumPromise!Spec
=============================================================================

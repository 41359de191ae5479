---------------------------- MODULE UploadQueue ----------------------------
(* The client upload queue of packages/upload/src/index.ts: one class shared   *)
(* by the web page and the phone, driven one run at a time by up to            *)
(* CONCURRENCY workers, resumable from the copy it last saved.                 *)
(*                                                                             *)
(* An element of Items is one queue entry object. Order in the array is left   *)
(* out: a round's chunks and its workable items are taken in any order.        *)
(* Everything between two awaits is one action.                                *)
EXTENDS Naturals, FiniteSets

CONSTANTS
    Items,                 \* queue entries that are ever created
    Sources,               \* what an entry uploads: an asset or a File
    Events,                \* albums
    SourceOf, EventOf,     \* the source and the album of each entry
    Workers,               \* the CONCURRENCY workers of a round
    MAX_ATTEMPTS,
    MAX_REPRESIGN_ROUNDS,
    MAX_FILES_PER_PRESIGN,
    MaxSpare,              \* bound: rows each entry leaves behind
    Everything,            \* the scope of an unscoped run
    NoItem                 \* what an idle worker holds

ASSUME QueueAssumption ==
    /\ SourceOf \in [Items -> Sources]
    /\ EventOf \in [Items -> Events]
    /\ MAX_ATTEMPTS \in Nat \ {0}
    /\ MAX_REPRESIGN_ROUNDS \in Nat
    /\ MAX_FILES_PER_PRESIGN \in Nat \ {0}
    /\ MaxSpare \in [Items -> Nat]
    /\ Workers # {} /\ IsFiniteSet(Workers)
    /\ Everything \notin Events
    /\ NoItem \notin Items

VARIABLES
    queued,        \* this.items: the entries the queue holds
    items,         \* each entry's status, attempts and whether it has a photoId
    running, paused, needsRepresign, scope,
    pc,            \* where run() is: idle, presigning, working or waiting
    represigns, retries,
    toPresign,     \* presignPending's snapshot, less the chunks already sent
    sending,       \* the chunk whose presign request is in flight
    todo,          \* the round's workable snapshot, less what workers took
    work,          \* the entry each worker is pushing
    stage,         \* and the request it is waiting on: put or complete
    received,      \* what the server side has of an entry, in the row it names
    rows,          \* photo rows the presign route opened for an entry
    lost,          \* history: those whose answer never became a photoId
    filled         \* history: those left behind with their confirmed file in them

run  == <<running, paused, needsRepresign, scope, pc, represigns, retries>>
server == <<received, rows, lost, filled>>
vars == <<queued, items, run, toPresign, sending, todo, work, stage, server>>

QueueItemStatus == {"pending", "presigned", "uploaded", "done", "failed", "stale"}
QueueItem == [status : QueueItemStatus, attempts : 0..MAX_ATTEMPTS, photoId : BOOLEAN]
NewItem == [status |-> "pending", attempts |-> 0, photoId |-> FALSE]
Scopes == Events \cup {Everything}

TypeOK ==
    /\ queued \subseteq Items
    /\ items \in [Items -> QueueItem]
    /\ running \in BOOLEAN /\ paused \in BOOLEAN /\ needsRepresign \in BOOLEAN
    /\ scope \in Scopes
    /\ pc \in {"idle", "presigning", "working", "waiting"}
    /\ represigns \in 0..MAX_REPRESIGN_ROUNDS
    /\ retries \in 0..MAX_ATTEMPTS - 1
    /\ toPresign \subseteq Items /\ sending \subseteq Items /\ todo \subseteq Items
    /\ work \in [Workers -> Items \cup {NoItem}]
    /\ stage \in [Workers -> {"idle", "put", "complete"}]
    /\ received \in [Items -> {"nothing", "bytes", "confirmation"}]
    /\ rows \in [Items -> Nat] /\ lost \in [Items -> Nat] /\ filled \in [Items -> Nat]

InScope(i, s) == s = Everything \/ EventOf[i] = s
Status(i) == items[i].status
Held(s) == {i \in queued : Status(i) = s}
MaySpare(i) == lost[i] + filled[i] < MaxSpare[i]

Init ==
    /\ queued = {} /\ items = [i \in Items |-> NewItem]
    /\ running = FALSE /\ paused = FALSE /\ needsRepresign = FALSE
    /\ scope = Everything /\ pc = "idle" /\ represigns = 0 /\ retries = 0
    /\ toPresign = {} /\ sending = {} /\ todo = {}
    /\ work = [w \in Workers |-> NoItem] /\ stage = [w \in Workers |-> "idle"]
    /\ received = [i \in Items |-> "nothing"]
    /\ rows = [i \in Items |-> 0] /\ lost = [i \in Items |-> 0]
    /\ filled = [i \in Items |-> 0]

-----------------------------------------------------------------------------
(* What a person or the screen around the queue does to it. The caller writes  *)
(* the queue down after each of these.                                         *)

\* An entry is a fresh object, so one that was ever sent is not added again.
Add(i) ==
    /\ items[i] = NewItem /\ rows[i] = 0 /\ lost[i] = 0 /\ filled[i] = 0
    /\ \A j \in queued : <<SourceOf[j], EventOf[j]>> # <<SourceOf[i], EventOf[i]>>
    /\ \A w \in Workers : work[w] # i
    /\ i \notin toPresign \cup sending \cup queued
    /\ queued' = queued \cup {i}
    /\ UNCHANGED <<items, run, toPresign, sending, todo, work, stage, server>>

\* A worker in the middle of pushing a forgotten entry carries on with it.
Forget(source) ==
    /\ \E i \in queued : SourceOf[i] = source
    /\ queued' = {i \in queued : SourceOf[i] # source}
    /\ UNCHANGED <<items, run, toPresign, sending, todo, work, stage, server>>

Prune ==
    /\ Held("done") # {}
    /\ queued' = queued \ Held("done")
    /\ UNCHANGED <<items, run, toPresign, sending, todo, work, stage, server>>

RetryFailed(s) ==
    LET woken == {i \in Held("failed") : InScope(i, s)} IN
    /\ woken # {}
    /\ \A i \in woken : received[i] = "confirmation" => MaySpare(i)
    /\ items' = [i \in Items |->
                    IF i \in woken
                    THEN [NewItem EXCEPT !.photoId = items[i].photoId]
                    ELSE items[i]]
    /\ UNCHANGED <<queued, run, toPresign, sending, todo, work, stage, server>>

-----------------------------------------------------------------------------
(* run(): rounds of presigning and pushing.                                    *)

\* The head of the round loop: presignPending reads what is pending now.
BeginRound(s) ==
    /\ needsRepresign' = FALSE
    /\ pc' = "presigning"
    /\ toPresign' = {i \in Held("pending") : InScope(i, s)}
    /\ sending' = {}

\* Mutant of Run: a second call while a run is going starts a second one.
RunTwice(s) ==
    /\ running' = TRUE /\ paused' = FALSE /\ scope' = s
    /\ represigns' = 0 /\ retries' = 0
    /\ BeginRound(s)
    /\ UNCHANGED <<queued, items, todo, work, stage, server>>

Run(s) ==
    /\ ~running
    /\ running' = TRUE /\ paused' = FALSE /\ scope' = s
    /\ represigns' = 0 /\ retries' = 0
    /\ BeginRound(s)
    /\ UNCHANGED <<queued, items, todo, work, stage, server>>

\* One chunk is one album's entries, at most MAX_FILES_PER_PRESIGN of them.
Chunks ==
    {c \in SUBSET toPresign :
        \E e \in Events :
            LET waiting == {i \in toPresign : EventOf[i] = e} IN
            /\ c \subseteq waiting /\ c # {}
            /\ \/ Cardinality(c) = MAX_FILES_PER_PRESIGN
               \/ c = waiting /\ Cardinality(c) < MAX_FILES_PER_PRESIGN}

SendChunk ==
    /\ pc = "presigning" /\ sending = {}
    /\ \E c \in Chunks : sending' = c /\ toPresign' = toPresign \ c
    /\ UNCHANGED <<queued, items, run, todo, work, stage, server>>

\* Mutant of RowsFor: the request does not say which row the entry already has.
RowsUnnamed(c) == [i \in Items |-> IF i \in c THEN rows[i] + 1 ELSE rows[i]]

\* claimDrafts: a row whose bytes are confirmed is the server's to finish, and is
\* not handed out again to the entry that names it.
Full(c) == {i \in c : items[i].photoId /\ received[i] = "confirmation"}

\* The route takes over the open draft an entry names, and opens a row for an entry
\* that names none or one that is full.
RowsFor(c) ==
    [i \in Items |-> IF i \in c /\ (~items[i].photoId \/ i \in Full(c)) THEN rows[i] + 1
                                                                      ELSE rows[i]]

\* The route grants every file of a request or refuses the whole of it.
Granted ==
    /\ sending # {}
    /\ items' = [i \in Items |->
                    IF i \in sending
                    THEN [items[i] EXCEPT !.status = "presigned", !.photoId = TRUE]
                    ELSE items[i]]
    /\ rows' = RowsFor(sending)
    /\ filled' = [i \in Items |-> IF i \in Full(sending) THEN filled[i] + 1 ELSE filled[i]]
    /\ received' = [i \in Items |-> IF i \in Full(sending) THEN "nothing" ELSE received[i]]
    /\ sending' = {}
    /\ UNCHANGED <<queued, run, toPresign, todo, work, stage, lost>>

Offline == "Offline"
SourceGone == "SourceGone"
Refused == "Refused"

\* Mutant of Settle: one attempt too many before giving up.
SettleLate(it, err) ==
    IF err = Offline THEN it
    ELSE [status |-> IF err = SourceGone THEN "stale"
                     ELSE IF it.attempts + 1 > MAX_ATTEMPTS THEN "failed" ELSE "pending",
          attempts |-> it.attempts + 1,
          photoId |-> it.photoId]

\* settle(): what an error does to the entry it happened to.
Settle(it, err) ==
    IF err = Offline THEN it
    ELSE [status |-> IF err = SourceGone THEN "stale"
                     ELSE IF it.attempts + 1 >= MAX_ATTEMPTS THEN "failed" ELSE "pending",
          attempts |-> it.attempts + 1,
          photoId |-> it.photoId]

\* The server opened the rows of the chunk in flight and the answer never came.
LostAnswer ==
    /\ \A i \in sending : MaySpare(i)
    /\ rows' = RowsFor(sending)
    /\ lost' = [i \in Items |-> lost[i] + (rows'[i] - rows[i])]
    /\ UNCHANGED filled

\* The catch of a chunk. The server may have opened the rows before the answer
\* was lost. Offline stops the presigning; any other error goes to the next chunk.
PresignFailed(err) ==
    /\ sending # {}
    /\ items' = [i \in Items |-> IF i \in sending THEN Settle(items[i], err) ELSE items[i]]
    /\ paused' = (paused \/ err = Offline)
    /\ toPresign' = IF paused' THEN {} ELSE toPresign
    /\ \/ UNCHANGED <<rows, lost, filled>>
       \/ LostAnswer
    /\ sending' = {}
    /\ UNCHANGED <<queued, running, needsRepresign, scope, pc, represigns, retries,
                   todo, work, stage, received>>

BeginWork ==
    /\ pc = "presigning" /\ toPresign = {} /\ sending = {}
    /\ pc' = "working"
    /\ todo' = {i \in Held("presigned") \cup Held("uploaded") : InScope(i, scope)}
    /\ UNCHANGED <<queued, items, running, paused, needsRepresign, scope, represigns,
                   retries, toPresign, sending, work, stage, server>>

-----------------------------------------------------------------------------
(* push(): one entry, by one worker.                                           *)

SendBack(i) == [items EXCEPT ![i].status = "pending"]

\* The server confirms only a photo whose bytes it finds in storage.
Receive(what, is) ==
    [i \in Items |->
        IF i \in is /\ (received[i] = "nothing") = (what = "bytes") THEN what ELSE received[i]]

Free(w) == /\ work' = [work EXCEPT ![w] = NoItem]
           /\ stage' = [stage EXCEPT ![w] = "idle"]

\* Mutant of CanTake: the other workers carry on into the same wall.
TakeRegardless(w, i) == pc = "working" /\ work[w] = NoItem /\ i \in todo

\* A worker takes the next entry unless another one found the network gone.
CanTake(w, i) == pc = "working" /\ ~paused /\ work[w] = NoItem /\ i \in todo

\* The grant is about to expire: back for a fresh one, with no attempt spent.
TakeExpired(w, i) ==
    /\ CanTake(w, i) /\ Status(i) # "uploaded"
    /\ todo' = todo \ {i}
    /\ items' = SendBack(i)
    /\ needsRepresign' = TRUE
    /\ UNCHANGED <<queued, running, paused, scope, pc, represigns, retries, toPresign,
                   sending, work, stage, server>>

TakeToPut(w, i) ==
    /\ CanTake(w, i) /\ Status(i) # "uploaded"
    /\ todo' = todo \ {i}
    /\ work' = [work EXCEPT ![w] = i] /\ stage' = [stage EXCEPT ![w] = "put"]
    /\ UNCHANGED <<queued, items, run, toPresign, sending, server>>

TakeToComplete(w, i) ==
    /\ CanTake(w, i) /\ Status(i) = "uploaded"
    /\ todo' = todo \ {i}
    /\ work' = [work EXCEPT ![w] = i] /\ stage' = [stage EXCEPT ![w] = "complete"]
    /\ UNCHANGED <<queued, items, run, toPresign, sending, server>>

\* Mutant of PutOk: the entry is done once its bytes are sent.
PutIsDone(w) ==
    /\ stage[w] = "put"
    /\ items' = [items EXCEPT ![work[w]].status = "done"]
    /\ received' = Receive("bytes", {work[w]})
    /\ Free(w)
    /\ UNCHANGED <<queued, run, toPresign, sending, todo, rows, lost, filled>>

\* The PUT went through: the worker goes on to confirm it.
PutOk(w) ==
    /\ stage[w] = "put"
    /\ items' = [items EXCEPT ![work[w]].status = "uploaded"]
    /\ stage' = [stage EXCEPT ![w] = "complete"]
    /\ received' = Receive("bytes", {work[w]})
    /\ UNCHANGED <<queued, run, toPresign, sending, todo, work, rows, lost, filled>>

\* Storage says the grant is over (GrantExpired).
PutExpired(w) ==
    /\ stage[w] = "put"
    /\ items' = SendBack(work[w])
    /\ needsRepresign' = TRUE
    /\ Free(w)
    /\ UNCHANGED <<queued, running, paused, scope, pc, represigns, retries, toPresign,
                   sending, todo, server>>

\* Any other failure of the PUT, which may have landed all the same.
PutFailed(w, err) ==
    /\ stage[w] = "put"
    /\ items' = [items EXCEPT ![work[w]] = Settle(@, err)]
    /\ paused' = (paused \/ err = Offline)
    /\ \/ UNCHANGED received
       \/ err # SourceGone /\ received' = Receive("bytes", {work[w]})
    /\ Free(w)
    /\ UNCHANGED <<queued, running, needsRepresign, scope, pc, represigns, retries,
                   toPresign, sending, todo, rows, lost, filled>>

CompleteOk(w) ==
    /\ stage[w] = "complete"
    /\ items' = [items EXCEPT ![work[w]].status = "done"]
    /\ received' = Receive("confirmation", {work[w]})
    /\ Free(w)
    /\ UNCHANGED <<queued, run, toPresign, sending, todo, rows, lost, filled>>

\* Mutant of KeepUploaded: the entry goes back to the start.
KeepNothing(it) == it

\* What a failed confirmation leaves: never pending, whose bytes would be sent again.
KeepUploaded(it) == IF it.status = "pending" THEN [it EXCEPT !.status = "uploaded"] ELSE it

CompleteFailed(w, err) ==
    /\ stage[w] = "complete"
    /\ items' = [items EXCEPT ![work[w]] = KeepUploaded(Settle(@, err))]
    /\ paused' = (paused \/ err = Offline)
    /\ \/ UNCHANGED received
       \/ received' = Receive("confirmation", {work[w]})
    /\ Free(w)
    /\ UNCHANGED <<queued, running, needsRepresign, scope, pc, represigns, retries,
                   toPresign, sending, todo, rows, lost, filled>>

-----------------------------------------------------------------------------
(* The tail of the round loop.                                                 *)

Retryable(s) ==
    {i \in Held("pending") \cup Held("uploaded") :
        /\ items[i].attempts > 0 /\ items[i].attempts < MAX_ATTEMPTS
        /\ InScope(i, s)}

\* Mutant of RoundOver: a round waits for every entry it set out with.
RoundAllTaken ==
    /\ pc = "working"
    /\ \A w \in Workers : work[w] = NoItem
    /\ todo = {}

RoundOver ==
    /\ pc = "working"
    /\ \A w \in Workers : work[w] = NoItem
    /\ todo = {} \/ paused

\* Mutant of Spun: going back for grants is never counted.
SpunFree == represigns

Spun == IF needsRepresign THEN represigns + 1 ELSE represigns

\* The four ways out of the loop: no network, too many rounds for fresh grants,
\* nothing left to try, too many retries. What the next run sets afresh is reset
\* here: between runs it only feeds the screen's wording (waitingFor).
EndRun ==
    /\ RoundOver
    /\ \/ paused
       \/ Spun > MAX_REPRESIGN_ROUNDS
       \/ ~needsRepresign /\ Retryable(scope) = {}
       \/ Retryable(scope) # {} /\ retries + 1 >= MAX_ATTEMPTS
    /\ running' = FALSE /\ pc' = "idle"
    /\ paused' = FALSE /\ needsRepresign' = FALSE /\ scope' = Everything
    /\ represigns' = 0 /\ retries' = 0 /\ todo' = {}
    /\ UNCHANGED <<queued, items, toPresign, sending, work, stage, server>>

\* Something failed with attempts to spare: wait out the backoff.
GoWait ==
    /\ RoundOver /\ ~paused /\ Spun <= MAX_REPRESIGN_ROUNDS
    /\ Retryable(scope) # {} /\ retries + 1 < MAX_ATTEMPTS
    /\ represigns' = Spun /\ retries' = retries + 1
    /\ pc' = "waiting"
    /\ UNCHANGED <<queued, items, running, paused, needsRepresign, scope, toPresign,
                   sending, todo, work, stage, server>>

\* Only stale grants: straight round for fresh ones.
GoRepresign ==
    /\ RoundOver /\ ~paused /\ needsRepresign /\ Spun <= MAX_REPRESIGN_ROUNDS
    /\ Retryable(scope) = {}
    /\ represigns' = Spun
    /\ BeginRound(scope)
    /\ UNCHANGED <<queued, items, running, paused, scope, retries, todo, work, stage,
                   server>>

BackoffOver ==
    /\ pc = "waiting"
    /\ BeginRound(scope)
    /\ UNCHANGED <<queued, items, running, paused, scope, represigns, retries, todo,
                   work, stage, server>>

-----------------------------------------------------------------------------
(* Time, and the process going away.                                           *)

\* The tab or the app dies, and a new queue is opened over what was saved. Every
\* transition is saved before the entry's next request, so what a crash can undo
\* is the transition an answer made and the save had not written: the same as
\* dying with the request in flight, which the server may still have carried out.
\* The web's restore() probes each File whose bytes are not in storage yet, and
\* one it cannot read (gone) is stale at once; with nothing outstanding it clears
\* the saved queue. The phone loads what it saved and checks nothing.
Restart(gone) ==
    /\ gone \subseteq {i \in queued : Status(i) \in {"pending", "presigned", "failed"}}
    /\ items' = [i \in Items |->
                    IF i \in gone THEN [items[i] EXCEPT !.status = "stale"] ELSE items[i]]
    /\ \/ UNCHANGED queued
       \/ queued \subseteq Held("done") \cup Held("stale") /\ queued' = {}
    /\ \/ UNCHANGED <<rows, lost, filled>>
       \/ LostAnswer
    /\ received' \in {received,
                     Receive("bytes", {work[w] : w \in {v \in Workers : stage[v] = "put"}}),
                     Receive("confirmation",
                             {work[w] : w \in {v \in Workers : stage[v] = "complete"}})}
    /\ running' = FALSE /\ paused' = FALSE /\ needsRepresign' = FALSE
    /\ scope' = Everything /\ pc' = "idle" /\ represigns' = 0 /\ retries' = 0
    /\ toPresign' = {} /\ sending' = {} /\ todo' = {}
    /\ work' = [w \in Workers |-> NoItem] /\ stage' = [w \in Workers |-> "idle"]

-----------------------------------------------------------------------------
\* rescueUnconfirmed: the hourly job finds the bytes of an upload nobody confirmed,
\* and confirms it, whatever the queue is doing with the entry.
Rescue(i) ==
    /\ received[i] = "bytes" /\ MaySpare(i)
    /\ received' = [received EXCEPT ![i] = "confirmation"]
    /\ UNCHANGED <<queued, items, run, toPresign, sending, todo, work, stage, rows, lost,
                   filled>>

Errors == {Offline, Refused}

RunStep ==
    \/ SendChunk \/ Granted \/ BeginWork
    \/ \E err \in Errors : PresignFailed(err)
    \/ \E w \in Workers, i \in Items :
          TakeExpired(w, i) \/ TakeToPut(w, i) \/ TakeToComplete(w, i)
    \/ \E w \in Workers :
          \/ PutOk(w) \/ PutExpired(w) \/ CompleteOk(w)
          \/ \E err \in Errors \cup {SourceGone} : PutFailed(w, err)
          \/ \E err \in Errors : CompleteFailed(w, err)
    \/ EndRun \/ GoWait \/ GoRepresign \/ BackoffOver

Outside ==
    \/ \E i \in Items : Add(i)
    \/ \E source \in Sources : Forget(source)
    \/ Prune
    \/ \E s \in Scopes : RetryFailed(s) \/ Run(s)
    \/ \E gone \in SUBSET queued : Restart(gone)
    \/ \E i \in Items : Rescue(i)

Next == RunStep \/ Outside

Spec == Init /\ [][Next]_vars

\* Every await of a run is answered or rejected, and the event loop goes on.
FairSpec == Spec /\ WF_vars(RunStep)

-----------------------------------------------------------------------------
(* What the queue promises.                                                    *)

\* An entry shown as done is one whose bytes are in storage and whose upload the
\* server confirmed, whatever requests failed or were cut off by a restart.
DoneMeansStored == \A i \in Items : Status(i) = "done" => received[i] = "confirmation"

\* No attempt leaves an empty row behind it. Besides the row an entry names, the
\* server has opened for it only those whose answer was lost, and those that hold
\* the file already, confirmed before the entry was given up on and tried again.
NoEmptyRowLeft ==
    \A i \in Items : rows[i] = lost[i] + filled[i] + (IF items[i].photoId THEN 1 ELSE 0)

\* No entry is in two places of a run at once: waiting for a presign, in the chunk
\* in flight, waiting for a worker, or held by one of the workers.
NoSharedWork ==
    /\ toPresign \cap sending = {}
    /\ (toPresign \cup sending) \cap todo = {}
    /\ \A v, w \in Workers :
         work[w] # NoItem =>
            /\ work[w] \notin toPresign \cup sending \cup todo
            /\ work[v] = work[w] => v = w

\* Nothing that has used its attempts up is still worked on: four tries are four
\* tries across rounds, runs and restarts.
ExhaustedRests ==
    \A i \in Items : Status(i) \in {"pending", "presigned", "uploaded"} =>
                        items[i].attempts < MAX_ATTEMPTS

\* While the process lives, an entry whose bytes went up is only confirmed or given
\* up on: a failed confirmation does not send it back to be uploaded again. One that
\* was given up on is, if somebody has it tried once more.
StoredBytesNotResent ==
    [][\A i \in Items :
        Status(i) = "uploaded" => Status(i)' \in {"uploaded", "done", "failed"}]_vars

\* A worker goes on with the entry it has, lets go of it, or confirms the bytes that
\* have just gone up.
CarriesOn(w) ==
    \/ work'[w] = NoItem /\ stage'[w] = "idle"
    \/ work'[w] = work[w] /\ stage'[w] = stage[w]
    \/ work'[w] = work[w] /\ stage[w] = "put" /\ stage'[w] = "complete"

\* Once one request of a run has found no network, the run takes up nothing more: it
\* sends no chunk and no worker takes an entry. The only request it may still start
\* confirms an upload that was on its way.
PausedTakesNothingUp ==
    [][running /\ paused /\ running' =>
        /\ sending' \subseteq sending
        /\ \A w \in Workers : CarriesOn(w)]_vars

\* How far a run is from its end: the rounds it may still begin, then where in its
\* round it stands, then the requests that round has left to hear of.
RoundsLeft == (MAX_ATTEMPTS - retries) + (MAX_REPRESIGN_ROUNDS - represigns)

PhasesLeft == CASE pc = "waiting" -> 3 [] pc = "presigning" -> 2
                [] pc = "working" -> 1 [] pc = "idle" -> 0

Busy == {w \in Workers : stage[w] # "idle"}
Putting == {w \in Workers : stage[w] = "put"}

RequestsLeft ==
    2 * Cardinality(toPresign) + Cardinality(sending) + 3 * Cardinality(todo)
    + Cardinality(Busy) + Cardinality(Putting)

Nearer ==
    \/ RoundsLeft' < RoundsLeft
    \/ RoundsLeft' = RoundsLeft /\ PhasesLeft' < PhasesLeft
    \/ RoundsLeft' = RoundsLeft /\ PhasesLeft' = PhasesLeft /\ RequestsLeft' < RequestsLeft

\* Whatever a run's requests are answered, each step brings it nearer to its end,
\* and nothing done to the queue meanwhile puts the end off: entries added,
\* forgotten or woken between two awaits, answers and backoffs in any order.
RunGetsNearer ==
    [][running /\ running' =>
        /\ RunStep => Nearer
        /\ Outside => UNCHANGED <<RoundsLeft, PhasesLeft, RequestsLeft>>]_vars

\* A run always has something under way or something it can go on with: a chunk to
\* send or to hear of, a worker that can take an entry or waits for an answer, a
\* round that is over and one of its ways out, a backoff.
RunNeverStuck ==
    running =>
        \/ pc = "waiting"
        \/ pc = "presigning" /\ (sending # {} \/ toPresign = {} \/ Chunks # {})
        \/ pc = "working" /\ \E w \in Workers :
              stage[w] # "idle" \/ \E i \in Items : CanTake(w, i)
        \/ RoundOver

\* A run ends, whatever the network, storage and clock answer it.
RunEnds == running ~> ~running

\* index.ts:591 calls the bound on retries "a backstop only: an item that reaches
\* MAX_ATTEMPTS becomes failed and stops being retryable, so `again` runs out
\* first": no run that has its network is ended by it with an entry still to try.
RetriesRunOut ==
    RoundOver /\ ~paused /\ Spun <= MAX_REPRESIGN_ROUNDS /\ Retryable(scope) # {}
        => retries + 1 < MAX_ATTEMPTS
=============================================================================

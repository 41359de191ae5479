------------------------------- MODULE Ingest -------------------------------
(* How a photograph gets into an album: the upload routes of apps/web, the     *)
(* object store the client puts its bytes in, the queue that wakes the deriver *)
(* and services/deriver, which strips, scans and derives each photograph.      *)
(*                                                                             *)
(* One album; a row of the photo table is an element of Photos and each column *)
(* the control depends on is a variable. Handlers are cut at every await       *)
(* another party can use: a web request reads its row and later acts on what   *)
(* it read, a deriver job is a sequence of steps. Time is left out: whatever   *)
(* the code does after a delay may happen at any moment.                       *)
EXTENDS Naturals, FiniteSets

CONSTANTS
    Photos,       \* photo rows that are ever presigned
    Contents,     \* what an original hashes to once stripped
    Bad,          \* contents the scanner matches
    Undecodable,  \* contents no derivative can be made from
    Requests,     \* web requests that can be under way at once
    Limit,        \* DERIVER_CONCURRENCY
    Prompt,       \* whether nothing happens between a request's read and its write
    None

ASSUME IngestAssumption ==
    /\ Bad \subseteq Contents /\ Undecodable \subseteq Contents
    /\ Photos \cap Contents = {}
    /\ None \notin Photos \cup Contents
    /\ Limit \in Nat \ {0}
    /\ Prompt \in BOOLEAN

VARIABLES
    status, bytesAt, storageKey, contentHash, deletedAt, hiddenAt, \* photo rows
    overdue,      \* rows whose bytesAt is more than a week back
    store,        \* objects, by key: a row's upload key or a content's final key
    derived,      \* contents whose renditions are in storage
    preserved,    \* rows with a copy at preserved/photo/<id>
    incidents,    \* rows with a safety_incident
    url,          \* external: the key the uploader holds a signed PUT for
    request,      \* what each web request read
    queue,        \* external: rows with an undelivered or unanswered message
    job           \* the deriver's job for each row, and what it read

row     == <<status, bytesAt, storageKey, contentHash, deletedAt, hiddenAt, overdue>>
objects == <<store, derived, preserved>>
vars    == <<row, objects, incidents, url, request, queue, job>>

Keys == Photos \cup Contents
Content == Contents \cup {None}
Object == [of : Contents, stripped : BOOLEAN]
NoObject == [of |-> None, stripped |-> FALSE]
Status == {"absent", "pending", "ready", "failed", "removed", "quarantined"}
Sweeps == {"abandon", "unload", "lapse"}
Operations == {"complete", "retry", "discard", "claim", "rescue"} \cup Sweeps
Idle == [op |-> "none", photo |-> None, key |-> None]
NoJob == [pc |-> "idle", key |-> None, bytes |-> None]

TypeOK ==
    /\ status \in [Photos -> Status]
    /\ bytesAt \in [Photos -> BOOLEAN] /\ overdue \subseteq Photos
    /\ storageKey \in [Photos -> Keys]
    /\ contentHash \in [Photos -> Content]
    /\ deletedAt \in [Photos -> BOOLEAN] /\ hiddenAt \in [Photos -> BOOLEAN]
    /\ store \in [Keys -> Object \cup {NoObject}]
    /\ derived \subseteq Contents
    /\ preserved \subseteq Photos /\ incidents \subseteq Photos
    /\ url \in [Photos -> Keys \cup {None}]
    /\ request \in [Requests ->
                      [op : Operations, photo : Photos, key : Keys] \cup {Idle}]
    /\ queue \subseteq Photos
    /\ job \in [Photos ->
                  [pc : {"get", "check", "scan", "put", "derive", "commit",
                         "clean", "tombstone", "preserve", "record"},
                   key : Keys, bytes : Content] \cup {NoJob}]

\* A row lives at its random upload key until the deriver moves it.
Init ==
    /\ status = [p \in Photos |-> "absent"]
    /\ bytesAt = [p \in Photos |-> FALSE] /\ overdue = {}
    /\ storageKey = [p \in Photos |-> p]
    /\ contentHash = [p \in Photos |-> None]
    /\ deletedAt = [p \in Photos |-> FALSE] /\ hiddenAt = [p \in Photos |-> FALSE]
    /\ store = [k \in Keys |-> NoObject]
    /\ derived = {} /\ preserved = {} /\ incidents = {}
    /\ url = [p \in Photos |-> None]
    /\ request = [r \in Requests |-> Idle]
    /\ queue = {} /\ job = [p \in Photos |-> NoJob]

Live(p) == status[p] # "absent" /\ ~deletedAt[p]
Visible(p) == status[p] = "ready" /\ ~deletedAt[p] /\ ~hiddenAt[p]
Draft(p) == status[p] \in {"pending", "failed"} /\ ~deletedAt[p] /\ ~hiddenAt[p]
Sweepable(p) == status[p] \in {"pending", "failed"} /\ ~deletedAt[p] /\ p \notin incidents
InFlight == {p \in Photos : job[p] # NoJob}

\* Whether anybody else may move while a request is between read and write.
Quiet == Prompt => \A r \in Requests : request[r] = Idle

\* Deletes in this code are best effort: .delete(key).catch(() => {}).
Delete(key) == store' \in {store, [store EXCEPT ![key] = NoObject]}

\* A message may be refused: the request answers 503, the cron counts it.
Publish(p) == queue' \in {queue, queue \cup {p}}

\* Delivery is at least once: another message may be left for the same row.
Answered(p) == queue' \in {queue, queue \ {p}}

-----------------------------------------------------------------------------
(* The uploader, the web routes, and the job that sweeps what was left behind.  *)

\* A URL that is lost on the way, or expires, is one that is never used again.
Grant(p) == url' = [url EXCEPT ![p] = storageKey[p]]

Presign(p) ==
    /\ Quiet
    /\ status[p] = "absent"
    /\ status' = [status EXCEPT ![p] = "pending"]
    /\ Grant(p)
    /\ UNCHANGED <<bytesAt, storageKey, contentHash, deletedAt, hiddenAt, overdue>>
    /\ UNCHANGED <<objects, incidents, request, queue, job>>

\* The signed URL can be used more than once.
Put(p, c) ==
    /\ Quiet
    /\ url[p] # None
    /\ store' = [store EXCEPT ![url[p]] = [of |-> c, stripped |-> FALSE]]
    /\ UNCHANGED <<row, derived, preserved, incidents, url, request, queue, job>>

\* Mutant of Asks: the state of the row is not looked at.
AsksAnyState(op, p) ==
    /\ Live(p) /\ ~hiddenAt[p]
    /\ op \in {"claim", "rescue"} => ~bytesAt[p]

\* The rows each operation goes on with. The sweep's are an upload that was never
\* confirmed, a failed one whose file is kept, and a failed one without a file.
Asks(op, p) ==
    /\ \/ op \notin Sweeps /\ Draft(p)
       \/ op \in Sweeps /\ Sweepable(p)
    /\ op \in {"complete", "rescue", "abandon"} => status[p] = "pending"
    /\ op \in {"unload", "lapse"} => status[p] = "failed"
    /\ op \in {"claim", "rescue", "abandon", "lapse"} => ~bytesAt[p]
    /\ op = "unload" => bytesAt[p]

Read(r, op, p) ==
    /\ Quiet
    /\ request[r] = Idle
    /\ Asks(op, p)
    /\ request' = [request EXCEPT ![r] = [op |-> op, photo |-> p, key |-> storageKey[p]]]
    /\ UNCHANGED <<row, objects, incidents, url, queue, job>>

\* The request acts on the row it read, with no condition on its state now.
Acts(r, op) ==
    /\ request[r].op = op
    /\ request' = [request EXCEPT ![r] = Idle]

Complete(r) ==
    LET p == request[r].photo IN
    /\ Acts(r, "complete")
    /\ \/ /\ store[request[r].key] = NoObject
          /\ status' = [status EXCEPT ![p] = "failed"]
          /\ UNCHANGED <<bytesAt, overdue, queue>>
       \/ /\ store[request[r].key] # NoObject
          /\ bytesAt' = [bytesAt EXCEPT ![p] = TRUE]
          /\ overdue' = overdue \ {p}
          /\ Publish(p)
          /\ UNCHANGED status
    /\ UNCHANGED <<storageKey, contentHash, deletedAt, hiddenAt, objects>>
    /\ UNCHANGED <<incidents, url, job>>

\* "Try again" on a draft. One still being sent is left as it is.
Retry(r) ==
    LET p == request[r].photo IN
    /\ Acts(r, "retry")
    /\ overdue' = overdue \ {p}
    /\ \/ /\ store[request[r].key] = NoObject
          /\ status' = [status EXCEPT ![p] = "failed"]
          /\ bytesAt' = [bytesAt EXCEPT ![p] = FALSE]
          /\ UNCHANGED queue
       \/ /\ store[request[r].key] # NoObject
          /\ status' = [status EXCEPT ![p] = "pending"]
          /\ bytesAt' = [bytesAt EXCEPT ![p] = TRUE]
          /\ Publish(p)
    /\ UNCHANGED <<storageKey, contentHash, deletedAt, hiddenAt, objects>>
    /\ UNCHANGED <<incidents, url, job>>

\* The object goes first; the request can die before the row does.
Discard(r) ==
    LET p == request[r].photo IN
    /\ Acts(r, "discard")
    /\ Delete(request[r].key)
    /\ \/ /\ status' = [status EXCEPT ![p] = "removed"]
          /\ deletedAt' = [deletedAt EXCEPT ![p] = TRUE]
          /\ bytesAt' = [bytesAt EXCEPT ![p] = FALSE]
          /\ overdue' = overdue \ {p}
       \/ UNCHANGED <<status, deletedAt, bytesAt, overdue>>
    /\ UNCHANGED <<storageKey, contentHash, hiddenAt, derived, preserved>>
    /\ UNCHANGED <<incidents, url, queue, job>>

\* A draft taken over by a new upload, which is signed for the row's key now.
Claim(r) ==
    LET p == request[r].photo IN
    /\ Acts(r, "claim")
    /\ status' = [status EXCEPT ![p] = "pending"]
    /\ bytesAt' = [bytesAt EXCEPT ![p] = FALSE] /\ overdue' = overdue \ {p}
    /\ Grant(p)
    /\ UNCHANGED <<storageKey, contentHash, deletedAt, hiddenAt, objects>>
    /\ UNCHANGED <<incidents, queue, job>>

\* The hourly look for bytes that arrived unconfirmed.
Rescue(r) ==
    LET p == request[r].photo IN
    /\ Acts(r, "rescue")
    /\ store[request[r].key] # NoObject
    /\ bytesAt' = [bytesAt EXCEPT ![p] = TRUE] /\ overdue' = overdue \ {p}
    /\ UNCHANGED <<status, storageKey, contentHash, deletedAt, hiddenAt, objects>>
    /\ UNCHANGED <<incidents, url, queue, job>>

\* sweepAbandoned, for one of the rows it selected: the object goes, then an
\* unconfirmed upload becomes a draft, a failed one is left without its file,
\* and a draft nobody came back for is let go; or the job dies in between.
Sweep(r, op) ==
    LET p == request[r].photo IN
    /\ Acts(r, op)
    /\ Delete(request[r].key)
    /\ \/ /\ op = "abandon"
          /\ status' = [status EXCEPT ![p] = "failed"]
          /\ UNCHANGED <<bytesAt, deletedAt, overdue>>
       \/ /\ op = "unload"
          /\ bytesAt' = [bytesAt EXCEPT ![p] = FALSE] /\ overdue' = overdue \ {p}
          /\ UNCHANGED <<status, deletedAt>>
       \/ /\ op = "lapse"
          /\ deletedAt' = [deletedAt EXCEPT ![p] = TRUE]
          /\ UNCHANGED <<status, bytesAt, overdue>>
       \/ UNCHANGED <<status, bytesAt, deletedAt, overdue>>
    /\ UNCHANGED <<storageKey, contentHash, hiddenAt, derived, preserved>>
    /\ UNCHANGED <<incidents, url, queue, job>>

\* A request that dies, finds its draft still being sent, or finds no bytes.
GiveUp(r) ==
    /\ request[r] # Idle
    /\ request' = [request EXCEPT ![r] = Idle]
    /\ UNCHANGED <<row, objects, incidents, url, queue, job>>

Act(r) ==
    \/ Complete(r) \/ Retry(r) \/ Discard(r) \/ Claim(r) \/ Rescue(r) \/ GiveUp(r)
    \/ \E op \in Sweeps : Sweep(r, op)

-----------------------------------------------------------------------------
(* The queue, and the crons that put lost messages back.                       *)

\* A confirmed upload waits for a week: the deriver is down, or the cron's page is
\* always full. Its messages have long run out of retries.
WeekPasses(p) ==
    /\ Quiet
    /\ status[p] = "pending" /\ bytesAt[p] /\ p \notin overdue \cup queue
    /\ job[p] = NoJob
    /\ overdue' = overdue \cup {p}
    /\ UNCHANGED <<status, bytesAt, storageKey, contentHash, deletedAt, hiddenAt>>
    /\ UNCHANGED <<objects, incidents, url, request, queue, job>>

\* strandedPhotos: confirmed, still pending, and not for more than a week.
Stranded(p) == status[p] = "pending" /\ ~deletedAt[p] /\ bytesAt[p] /\ p \notin overdue

\* Mutant of Requeue: the resend looks for uploads that were never confirmed.
RequeueUnconfirmed(p) ==
    /\ Quiet
    /\ status[p] = "pending" /\ ~deletedAt[p] /\ ~bytesAt[p]
    /\ queue' = queue \cup {p}
    /\ UNCHANGED <<row, objects, incidents, url, request, job>>

Requeue(p) ==
    /\ Quiet
    /\ Stranded(p)
    /\ queue' = queue \cup {p}
    /\ UNCHANGED <<row, objects, incidents, url, request, job>>

\* Retries run out, or the message is lost.
Lose(p) ==
    /\ Quiet
    /\ p \in queue
    /\ queue' = queue \ {p}
    /\ UNCHANGED <<row, objects, incidents, url, request, job>>

\* A delivery the deriver takes: not one it is working on, not over its limit.
Taken(p) ==
    /\ Quiet
    /\ p \in queue
    /\ job[p] = NoJob
    /\ Cardinality(InFlight) < Limit

Processable(p) == status[p] = "pending" /\ ~deletedAt[p] /\ ~hiddenAt[p]

Start(p) ==
    /\ Taken(p)
    /\ Processable(p)
    /\ job' = [job EXCEPT ![p] = [pc |-> "get", key |-> storageKey[p], bytes |-> None]]
    /\ UNCHANGED <<row, objects, incidents, url, request, queue>>

\* Already finished, or no longer waiting: answered without writing anything.
Refuse(p) ==
    /\ Taken(p)
    /\ ~Processable(p)
    /\ queue' = queue \ {p}
    /\ UNCHANGED <<row, objects, incidents, url, request, job>>

-----------------------------------------------------------------------------
(* processPhoto(), from one await to the next.                                 *)

At(p, pc) == Quiet /\ job[p].pc = pc
Goto(p, pc) == job' = [job EXCEPT ![p] = [pc |-> pc, key |-> job[p].key, bytes |-> job[p].bytes]]
End(p) == job' = [job EXCEPT ![p] = NoJob]

\* Mutant of Fail: the delivery is answered and the row left waiting.
FailQuietly(p) ==
    /\ End(p) /\ Answered(p)
    /\ UNCHANGED <<row, derived, preserved, incidents, url, request>>

\* fail(): whatever state the row is in by now.
Fail(p) ==
    /\ status' = [status EXCEPT ![p] = "failed"]
    /\ End(p) /\ Answered(p)
    /\ UNCHANGED <<bytesAt, storageKey, contentHash, deletedAt, hiddenAt, overdue>>
    /\ UNCHANGED <<derived, preserved, incidents, url, request>>

\* Mutant of Get: a missing object is not noticed.
GetAnything(p) ==
    /\ At(p, "get")
    /\ job' = [job EXCEPT ![p] = [pc |-> "check", key |-> job[p].key,
                                 bytes |-> store[job[p].key].of]]
    /\ UNCHANGED <<row, objects, incidents, url, request, queue>>

\* The bytes are read once; what is hashed, scanned and stored is that copy.
Get(p) ==
    LET object == store[job[p].key] IN
    /\ At(p, "get")
    /\ object # NoObject
    /\ job' = [job EXCEPT ![p] = [pc |-> "check", key |-> job[p].key, bytes |-> object.of]]
    /\ UNCHANGED <<row, objects, incidents, url, request, queue>>

\* No object, or its private metadata cannot be taken out of it.
GetFails(p) == At(p, "get") /\ Fail(p) /\ UNCHANGED store

Twins(p) == {q \in Photos \ {p} : Live(q) /\ contentHash[q] = job[p].bytes}

\* Mutant of Duplicate: deletes the object the other row keeps.
DuplicateDeletesBoth(p) ==
    /\ At(p, "check")
    /\ Twins(p) # {}
    /\ Delete(job[p].bytes)
    /\ Goto(p, "tombstone")
    /\ UNCHANGED <<row, derived, preserved, incidents, url, request, queue>>

\* First writer wins: the same photograph is in the album already.
Duplicate(p) ==
    /\ At(p, "check")
    /\ Twins(p) # {}
    /\ Delete(job[p].key)
    /\ Goto(p, "tombstone")
    /\ UNCHANGED <<row, derived, preserved, incidents, url, request, queue>>

Tombstone(p) ==
    /\ At(p, "tombstone")
    /\ status' = [status EXCEPT ![p] = "removed"]
    /\ deletedAt' = [deletedAt EXCEPT ![p] = TRUE]
    /\ End(p) /\ Answered(p)
    /\ UNCHANGED <<bytesAt, storageKey, contentHash, hiddenAt, overdue, objects>>
    /\ UNCHANGED <<incidents, url, request>>

Original(p) ==
    store' = [store EXCEPT ![job[p].bytes] = [of |-> job[p].bytes, stripped |-> TRUE]]

\* Mutant of Unique: the upload of the original is not held back for the scan.
UniqueEager(p) ==
    /\ At(p, "check")
    /\ Twins(p) = {}
    /\ Original(p)
    /\ Goto(p, "scan")
    /\ UNCHANGED <<row, derived, preserved, incidents, url, request, queue>>

Unique(p) ==
    /\ At(p, "check")
    /\ Twins(p) = {}
    /\ Goto(p, "scan")
    /\ UNCHANGED <<row, objects, incidents, url, request, queue>>

\* Mutant of Pass: a scanner that cannot be reached lets the photo through.
PassUnscanned(p) ==
    /\ At(p, "scan")
    /\ Goto(p, "put")
    /\ UNCHANGED <<row, objects, incidents, url, request, queue>>

Pass(p) ==
    /\ At(p, "scan")
    /\ job[p].bytes \notin Bad
    /\ Goto(p, "put")
    /\ UNCHANGED <<row, objects, incidents, url, request, queue>>

\* Mutant of Match: the row is quarantined but not hidden.
MatchShown(p) ==
    /\ At(p, "scan")
    /\ job[p].bytes \in Bad
    /\ status' = [status EXCEPT ![p] = "quarantined"]
    /\ Goto(p, "preserve")
    /\ UNCHANGED <<bytesAt, storageKey, contentHash, deletedAt, hiddenAt, overdue, objects>>
    /\ UNCHANGED <<incidents, url, request, queue>>

Match(p) ==
    /\ At(p, "scan")
    /\ job[p].bytes \in Bad
    /\ status' = [status EXCEPT ![p] = "quarantined"]
    /\ hiddenAt' = [hiddenAt EXCEPT ![p] = TRUE]
    /\ Goto(p, "preserve")
    /\ UNCHANGED <<bytesAt, storageKey, contentHash, deletedAt, overdue, objects>>
    /\ UNCHANGED <<incidents, url, request, queue>>

\* Mutant of Preserve: goes on to the incident without waiting for the copy.
PreserveLater(p) ==
    /\ At(p, "preserve")
    /\ preserved' \in {preserved, preserved \cup {p}}
    /\ Goto(p, "record")
    /\ UNCHANGED <<row, store, derived, incidents, url, request, queue>>

Preserve(p) ==
    /\ At(p, "preserve")
    /\ preserved' = preserved \cup {p}
    /\ Goto(p, "record")
    /\ UNCHANGED <<row, store, derived, incidents, url, request, queue>>

\* Mutant of Record: an insert that fails is swallowed.
RecordQuietly(p) ==
    /\ At(p, "record")
    /\ incidents' \in {incidents, incidents \cup {p}}
    /\ End(p) /\ Answered(p)
    /\ UNCHANGED <<row, objects, url, request>>

Record(p) ==
    /\ At(p, "record")
    /\ incidents' = incidents \cup {p}
    /\ End(p) /\ Answered(p)
    /\ UNCHANGED <<row, objects, url, request>>

\* The stripped original goes to its final key once the scan has passed.
PutOriginal(p) ==
    /\ At(p, "put")
    /\ Original(p)
    /\ Goto(p, "derive")
    /\ UNCHANGED <<row, derived, preserved, incidents, url, request, queue>>

Derive(p) ==
    /\ At(p, "derive")
    /\ job[p].bytes \notin Undecodable
    /\ derived' = derived \cup {job[p].bytes}
    /\ Goto(p, "commit")
    /\ UNCHANGED <<row, store, preserved, incidents, url, request, queue>>

DecodeFails(p) ==
    /\ At(p, "derive")
    /\ job[p].bytes \in Undecodable
    /\ Delete(job[p].bytes)
    /\ Fail(p)

\* Mutant of Collides: nothing refuses a second live row of the same content.
NeverCollides(p) == FALSE /\ p \in Photos

\* The unique index on live rows' (event, contentHash).
Collides(p) == Live(p) /\ Twins(p) # {}

Commit(p) ==
    /\ At(p, "commit")
    /\ ~Collides(p)
    /\ status' = [status EXCEPT ![p] = "ready"]
    /\ storageKey' = [storageKey EXCEPT ![p] = job[p].bytes]
    /\ contentHash' = [contentHash EXCEPT ![p] = job[p].bytes]
    /\ Goto(p, "clean")
    /\ UNCHANGED <<bytesAt, deletedAt, hiddenAt, overdue, objects>>
    /\ UNCHANGED <<incidents, url, request, queue>>

Clean(p) ==
    /\ At(p, "clean")
    /\ IF job[p].key # job[p].bytes THEN Delete(job[p].key) ELSE UNCHANGED store
    /\ End(p) /\ Answered(p)
    /\ UNCHANGED <<row, derived, preserved, incidents, url, request>>

\* The second of two jobs to commit a content: the index throws, nothing is
\* written, and the delivery that comes again finds the first.
Collide(p) ==
    /\ At(p, "commit")
    /\ Collides(p)
    /\ End(p)
    /\ UNCHANGED <<row, objects, incidents, url, request, queue>>

\* The process dies, storage or the database throws, or the scanner cannot be
\* reached: nothing more is written and the message is delivered again.
Die(p) ==
    /\ Quiet
    /\ job[p] # NoJob
    /\ End(p)
    /\ UNCHANGED <<row, objects, incidents, url, request, queue>>

Step(p) ==
    \/ Get(p) \/ GetFails(p)
    \/ Duplicate(p) \/ Tombstone(p) \/ Unique(p)
    \/ Pass(p) \/ Match(p) \/ Preserve(p) \/ Record(p)
    \/ PutOriginal(p) \/ Derive(p) \/ DecodeFails(p)
    \/ Commit(p) \/ Collide(p) \/ Clean(p)

-----------------------------------------------------------------------------
Next ==
    \/ \E p \in Photos :
        \/ Presign(p) \/ \E c \in Contents : Put(p, c)
        \/ WeekPasses(p) \/ Requeue(p) \/ Lose(p)
        \/ Start(p) \/ Refuse(p) \/ Step(p) \/ Die(p)
    \/ \E r \in Requests :
        \/ \E op \in Operations, p \in Photos : Read(r, op, p)
        \/ Act(r)

Spec == Init /\ [][Next]_vars

\* A death or a loss that is not the answer to a finished or colliding job.
Outage(p) == (Die(p) /\ ~Collide(p)) \/ (Lose(p) /\ ~Refuse(p))

\* Requests end, the cron runs every hour, a message that is kept is delivered
\* when the deriver has room, jobs move, and outages end: from some moment on no
\* job dies and no message runs out of retries.
Fairness ==
    /\ \A r \in Requests : WF_vars(Act(r))
    /\ \A p \in Photos : SF_vars(Requeue(p)) /\ SF_vars(Start(p)) /\ SF_vars(Step(p))
    /\ <>[][\A p \in Photos : ~Outage(p)]_vars

FairSpec == Spec /\ Fairness

-----------------------------------------------------------------------------
(* What must hold however requests, deliveries, deaths and retries interleave. *)

\* A photograph anyone can list went through the scanner: it is at the key of a
\* content the scanner did not match (pipeline.ts processPhoto, visibility.ts).
ShownWasScanned ==
    \A p \in Photos :
        Visible(p) => storageKey[p] = contentHash[p] /\ contentHash[p] \in Contents \ Bad

\* An album shows a content once, however many jobs raced to commit it: the
\* unique index refuses the second and the retry finds the first.
ShownOnce ==
    \A p, q \in Photos :
        Visible(p) /\ Visible(q) /\ contentHash[p] = contentHash[q] => p = q

\* No surface shows a row once the scanner has matched it, whatever a request or
\* a job that read the row before writes to it afterwards (pipeline.ts quarantine).
MatchedStaysHidden ==
    \A p \in Photos :
        p \in preserved \cup incidents \/ status[p] = "quarantined"
            => hiddenAt[p] /\ ~Visible(p)

\* An incident never points at a copy that was not made, at any point a death
\* may come (pipeline.ts quarantine: the copy is awaited before the insert).
EvidenceFirst == incidents \subseteq preserved

\* A match goes unrecorded only where a job dies between the steps of its
\* quarantine: no request, delivery or retry comes between a match and its incident
\* (pipeline.ts quarantine; see the finding about MatchIsRecorded).
Unrecorded(p) == hiddenAt[p] /\ job[p] = NoJob /\ p \notin incidents

MatchLostOnlyByDeath ==
    [][\A p \in Photos : Unrecorded(p)' => Unrecorded(p) \/ Die(p)]_vars

-----------------------------------------------------------------------------
(* What holds when no other party writes a row between a web request's read    *)
(* and its write: requests take milliseconds, a derive takes seconds.          *)

\* Everything a listing signs a link to can be served: the stripped original and
\* its renditions are in storage (image-worker fetch, pipeline.ts processPhoto).
ShownIsServable ==
    \A p \in Photos :
        Visible(p) =>
            /\ store[storageKey[p]] = [of |-> contentHash[p], stripped |-> TRUE]
            /\ contentHash[p] \in derived

\* "The stripped original must never land at its final key before that, or a
\* matched image would sit in storage outside the quarantine" (pipeline.ts:235).
FinalKeysAreScreened ==
    \A c \in Contents :
        store[c] # NoObject => store[c] = [of |-> c, stripped |-> TRUE] /\ c \notin Bad

\* Ingest implements Album: a draft is decided once and for all.
Entry(p) ==
    CASE status[p] = "absent" -> "none"
      [] status[p] # "absent" /\ deletedAt[p] -> "gone"
      [] Live(p) /\ hiddenAt[p] -> "held"
      [] Visible(p) -> "shown"
      [] OTHER -> "draft"

Shows(p) == IF Visible(p) THEN contentHash[p] ELSE None

AlbumPromise ==
    INSTANCE Album WITH
        NoContent <- None,
        entry <- [p \in Photos |-> Entry(p)],
        shows <- [p \in Photos |-> Shows(p)]

\* Every step of the routes, the queue and the deriver is a step of Album or no
\* step at all: nothing is shown twice, taken back or decided again.
ImplementsAlbum == AlbumPromise!Spec

\* A confirmed upload is decided in the end, whatever is lost on the way: it is
\* shown, failed, quarantined or removed, unless it has waited for a week, which is
\* as long as the cron looks for it (requeue-stranded, deriveBacklog.ts).
Undecided(p) == status[p] = "pending" /\ ~deletedAt[p] /\ bytesAt[p] /\ ~hiddenAt[p]
Settles == \A p \in Photos : Undecided(p) ~> ~Undecided(p) \/ p \in overdue

\* The half of it that needs no fairness: no step of a job but its death takes it
\* back, each is one of at most seven, and a job that ends has decided its photo,
\* whatever was requested between two of its steps; one that lost its content to
\* a twin's commit is cut short as by a death (pipeline.ts processPhoto).
StepsLeft ==
    [idle |-> 0, clean |-> 1, tombstone |-> 1, record |-> 1, commit |-> 2, preserve |-> 2,
     derive |-> 3, put |-> 4, scan |-> 5, check |-> 6, get |-> 7]

JobsDecide ==
    [][\A p \in Photos : job[p] # NoJob /\ job'[p] # job[p] =>
          \/ Die(p)
          \/ /\ StepsLeft[job'[p].pc] < StepsLeft[job[p].pc]
             /\ job'[p] = NoJob => ~Undecided(p)']_vars

-----------------------------------------------------------------------------
(* What the documents say and the code does not keep: see the findings.        *)

\* "This endpoint is safe to call again — it re-heads storage and rewrites the
\* same timestamp" (complete/route.ts): a second complete, acting on what it read
\* while the photograph was still waiting, takes back nothing that is shown by now.
CompleteAgainIsSafe ==
    [][\A r \in Requests, p \in Photos :
          /\ request[r].op = "complete" /\ request[r].photo = p
          /\ request'[r] = Idle /\ Visible(p)
          => Visible(p)']_vars

\* "A match quarantines the photo, copies the original to preserved/, records an
\* incident" (services/deriver/README.md): with no message left to deliver and
\* no job under way, every quarantined row has its incident.
MatchIsRecorded ==
    \A p \in Photos :
        status[p] = "quarantined" /\ p \notin queue /\ job[p] = NoJob => p \in incidents

=============================================================================

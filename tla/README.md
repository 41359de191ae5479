# Parea in TLA+

Parea is a service for shared photo albums ("rolls"): a person sends photographs
to an album from a browser or a phone, a deriver strips, scans and resizes each
of them, and everybody who holds the album's link sees them. This directory
models the parts of it that carry the program's own logic and are hard to test:

- how a photograph gets from a queue on somebody's device to an album, through
  retries, lost answers, crashes and a scanner that may say no;
- how it leaves the album again, by whom, and what is kept as evidence;
- how a person signs in, and how two actors who are one person are merged;
- who is in a group and its roll, and who runs them when somebody leaves.

## 1. The system

| Part | State | Operations | Hard behaviour |
|---|---|---|---|
| Client upload queue (`packages/upload`) | entries with a status and attempts; one run with its rounds | `add`, `forget`, `prune`, `retryFailed`, `run`; restart over the saved copy | parallel workers between awaits, offline, expired grants, lost answers, a closed tab |
| Queue clients (`apps/web/src/upload`, `useUploads.ts`, `apps/mobile/App.tsx`) | the saved queue | reopen, save, retry, forget | two copies of one queue |
| Upload API of the web app (`uploads`, `complete`, `draft` routes, `drafts.ts`) | photo rows | presign, complete, retry, discard, claim | read then write of a row others write |
| Derive queue and crons (`queue.ts`, `deriveBacklog.ts`, `requeue-stranded`) | messages | publish, resend, rescue | at-least-once delivery, lost messages |
| Deriver (`services/deriver`: `serve.ts`, `pipeline.ts`) | photo rows, objects, the in-flight set | one job per photo, from storage to `ready` | death between two awaits, two jobs with one content, a match |
| Scheduled jobs (`jobs.ts`) | rows and objects | sweep, purge, expire | deleting what somebody uses again |
| Removal and moderation (`removal.ts`, `revoke.ts`, reports, `safety.ts`, `admin.ts`) | rows, requests, incidents, revocation markers | withdraw, ask, answer, hide, report, escalate, file, release | decisions taken on what was read earlier, storage calls that follow a commit, objects shared by content |
| Image worker, signed URLs, zip | none | check, serve, stream | stale markers, 32-bit limits |
| Sign-in, sessions, merging (`accounts.ts`, `session.ts`, `sessions.ts`, `merge.ts`) | codes, accounts, actors, sessions, credentials | ask, prove, bind, merge, establish, revoke, suspend, delete | guesses at once, adoption against revocation, an actor merged under a request |
| Albums, groups, succession (`groups.ts`, `events.ts`, `succession.ts`, `access.ts`) | roles, removals, invitations, requests, seats, the host | join, invite, approve, remove, leave, hand over, close an account | the last host or admin leaving, a removal racing what it takes away |
| Access policy, rate limits | counters | authorize, consume | none beyond one statement |
| Messages, moments, reactions, cards, activity, notifications, pages | rows | single-statement writes, reads | none that another part depends on |

They interact as follows. The client queue *presigns* (the API inserts pending
rows, each at a random upload key, and signs a PUT for it), *puts* the bytes
straight into the object store, and *completes* (the API heads the object, sets
`bytesAt` and publishes a message). The queue delivers the message to the
deriver, which reads the object, strips it, hashes it, looks for another live
row with that hash, has it scanned, stores the stripped original and its
renditions under the content's own key, and commits the row as `ready` at that
key. Listings show rows that are `ready`, not hidden and not deleted, and sign
links to the content's objects. Crons resend messages for photographs that were
confirmed and never derived. From then on uploader, hosts, staff, reporters and
the daily jobs write to the same rows: they hide, remove, quarantine and purge,
and put or take away a *revocation marker*, named by content, which the image
worker looks for before it serves a signed link. A person is known by a session
of an actor; signing in binds the actor to an account, or merges it into the
actor the account has already. A roll has one host and may be in a group, whose
members are in the roll too and whose admins administer it.

What must hold, per part: the queue never calls a photograph done that the
server does not have, leaves no empty row behind but where an answer was lost,
and a run ends; the routes and the deriver between them decide every upload once,
show no content twice, and show nothing that was not scanned or that was matched;
what the deriver commits can be served, and what is shown loses its objects only
to a removed row of the same content; a removal or a quarantine is not undone by
a decision taken earlier, and a hold is kept; a code is used once and guessed at a
bounded number of times, and a sign-in that is answered works; a merge leaves
nothing on the actor it merged; nobody walks into a group for having looked at its
roll, or back into one they were taken out of; a group or a roll with people in it
has somebody who runs it, or gets somebody. Several of these do not hold in every
interleaving: each property says in its comment which races it leaves out, and
section 5 says what the code does in them.

`PROJECT.json` lists every part with what is and is not modelled, and the
hazards of the code at the lines where they bite.

## 2. Modules

| Module | Models |
|---|---|
| `UploadQueue` | `packages/upload/src/index.ts` and what of the client (`browser.ts` `restore`) and of the server it meets |
| `UploadQueueProofs` | theorems about `UploadQueue` for every value of its constants |
| `UploadRunProofs` | why a run of it ends, for every value of its constants |
| `Album` | abstract: what an album promises of the photographs sent to it |
| `Ingest` | the upload routes, the object store, the derive queue, its crons, `serve.ts` and `pipeline.ts`; implements `Album` |
| `IngestProofs` | theorems about `Ingest`, among them that it implements `Album` |
| `Takedown` | abstract: what taking photographs down promises |
| `Removal` | withdrawing, removal requests, auto-hide, reports, incidents and holds, the purge and the revocation markers; implements `Takedown` |
| `RemovalProofs` | theorems about `Removal`, among them that it implements `Takedown` |
| `SignIn`, `SignInProofs` | codes, accounts, merging and sessions, and theorems about them |
| `Rooms`, `RoomsProofs` | a group, a roll in it and who runs both, and theorems about them |
| `MC*` | constants for TLC |

### UploadQueue

The variables are the fields of the class (`items`, `running`, `paused`, `needsRepresign`,
`scope`) and what its code holds in local variables across awaits: the loop's counters, the
snapshot `presignPending` still has to send, the chunk in flight, the round's `workable` list,
and for each of the `CONCURRENCY` workers the entry it pushes and the request it waits on.
Every stretch of code between two awaits is one action: `SendChunk`, `Granted`/`PresignFailed`,
`TakeExpired`/`TakeToPut`/`TakeToComplete`, `PutOk`/`PutExpired`/`PutFailed`,
`CompleteOk`/`CompleteFailed`, and the tail of the round, `EndRun`/`GoWait`/`GoRepresign`.
`add`, `forget`, `prune` and `retryFailed` may be called at any moment. `Restart` is the
process dying with the queue reopened over what was saved. `received`, `rows`, `lost` and
`filled` say what the server side has had: they are what the properties are about. `RowsFor` is
what the presign route and `claimDrafts` do with an entry: the row it names is taken over while
its bytes are unconfirmed, and otherwise a new one is opened. A named row is confirmed by a
complete (whose answer may be lost, or which may fail to publish) or by the hourly cron
(`Rescue`), and an entry that is then presented again gets a second row, counted in `filled`.

Abstractions: the array's order is dropped (the entries of a list are a set,
taken in any order, which includes the code's); whether a grant has run out is
decided when it is looked at; each save belongs to the transition before it,
because the code awaits the save before the entry's next request and a death in
between is a death with the answer lost; a grant list shorter than the request
does not occur (the route grants all or refuses all); an entry that is added
naming an existing draft ("Choose again") is left out, and so is a draft that its owner
discards or that staff hide while the queue still names it; `paused` and `scope` are
reset when a run ends, where the code resets them when the next one starts.

### Album and Ingest

`Ingest` is one album. Each column of the photo table that control depends on is
a variable (`status`, `bytesAt`, `storageKey`, `contentHash`, `deletedAt`,
`hiddenAt`), the object store maps a key (a row's upload key or a content's
final key) to what is there, and a content is what a photograph's bytes hash to
once stripped. `Bad` are the contents the scanner matches and `Undecodable` those
no rendition can be made of.

A web request is cut in two, because nothing between its select and its update is a
transaction: `Read` takes the row into `request[r]`, and `Complete`, `Retry`, `Discard`,
`Claim`, `Rescue` or `Sweep` acts on what was read with exactly the conditions the code's
`where` has. `Sweep` is the daily `sweepAbandoned` for one of the rows it has selected: an
upload that was never confirmed becomes a draft (`abandon`), a failed one loses its file
(`unload`), and a draft without a file is let go (`lapse`); the day, the week and the month may
be over at any moment. A deriver job is one action per await of `processPhoto`: `Start`, `Get`,
`Duplicate`/`Tombstone`, `Unique`, `Pass`, or `Match`, `Preserve`, `Record`; `PutOriginal`,
`Derive`, `Commit`, `Clean`. `Die` ends a job at any of them: the process dies, storage or the
database throws, or the scanner is unavailable (503); the message stays. `Taken` is the
handler's `409` and `429`: one job per photograph, `Limit` jobs in all. Deletes are best effort
in the code (`.catch(() => {})`), so `Delete` may do nothing. `Publish` may be refused; a
delivered message may be delivered again (`Answered`); `Lose` is a message that ran out of
retries. The cron that resends (`Requeue`) looks back a week: `WeekPasses` puts a confirmed row
that still waits, with no message and no job, into `overdue`, out of its sight, until somebody
confirms it again.

`Prompt` is the one assumption that is not in the code: that no other party moves
between a request's read and its write. A request takes milliseconds and a
derive takes seconds, so this is how the system nearly always runs, and the code
does not enforce it. `ingest` and `ingest_live` assume it; `ingest_races` drops
it and shows what holds regardless; `ingest_complete_again` shows what does not. For
the sweep, `Prompt` means that nobody writes a selected row before the sweep comes to it.

`Album` knows nothing of rows, objects or jobs: a photograph is a draft until it
is decided, once, as shown, held or gone. `Ingest` maps its columns to that with
`Entry` and `Shows`, and `ImplementsAlbum` is the refinement.

Abstractions: time is left out, so what the code does after a delay may happen
at any moment and a signed URL that expires is one never used again; access
guards, caps and rate limits in front of the routes are left out (each only
refuses); a request's head and its update are one step, as are a failed decode's
two writes; decoding and matching are functions of the content; a scanner is
configured (without one the code scans nothing, which is `Bad = {}`); polling
mode (`pendingPhotoIds`), AVIF backfill and re-stripping are left out. What happens
to a photograph once an album shows it is the subject of `Removal`.

### Takedown and Removal

`Removal` begins where `Ingest` ends: `Commit` is a row that has become ready, and
`Hash` says which rows were made of the same picture, and so share an original, its
renditions and a revocation marker. A host's answer to a removal request
(`HostReads`, `HostClaims`, `HostActs`) and a child-safety report (`Report`, `Quarantine`,
`OpenIncident`) are cut between their statements. Staff read the row (`StaffReads`, into
`taking`) and then write it by id, in a READ COMMITTED transaction, whatever has become of it:
`TakeDown` or `Escalate`, or `StaffDies`. `FileIncident` and `ReleaseIncident` are one conditional
statement each. What a handler does to storage once its change is committed is put
in `owed` and done, or not, by `Storage`. The two jobs hold what they selected
(`hiding`, `purging`) while others move, and the purge deletes the objects of a row
(`PurgeObjects`) before the row (`PurgeRow`). With `Faulty`, any storage call may fail
and any handler or job die; a press that dies after it has claimed its request is kept
as `dead`, so that `ActionedIsDown` can tell what was left undone. `late` are the
incidents opened when the purge was already at their row, or its objects gone.

`Takedown` is the promise: hiding is reversible, a removal is not, nothing is purged
that was not taken down first, and a request is answered once.

Abstractions: thirty days (`Ripen`) and the end of a hold (`HoldEnds`) come only while no
handler is under way; a new row with a live twin is refused, as the pipeline does; who may
press is the access policy's and is not modelled; reports on messages, covers and people are
other rows; the epoch marker that revokes a whole album's links, the edge cache and the two
hours a signed link lives are left out, so `Served` is what the worker would answer to a link
to a rendition that is still valid (it serves the original, too, to links of kind `orig`).

### SignIn

Codes are named by the order they were asked for in. `Present`, `Claim`, `Spend` and
`Retire` are the four statements of `consumeCode`; `AccountExists` to `MergeActor` those of the
route and `bindAccount`; `CheckSuspended` to `StartSession` those of `establishSession`. A
request carries what it has read and the credential it was sent with. `AskCode` and
`StoreCode` are the beginning and the commit of `storeCode`'s transaction: two of
them may each miss the other's row. Everything else that gives or takes a
session (a guest's first contribution, trading an old credential, sign-out, the Devices
screen, expiry, suspension, deletion of the account) may come between any two steps.
`Suspend` is the insert: the transaction has read before that the actor was not merged, and a
merge may have committed since.
`merge.ts` moves every row that names an actor in one transaction; here that is
sessions, suspensions and pointers, which are what the other steps read. `stale` is a
history variable: something has been written with an actor that was merged after the
writer read it.

Abstractions: a code or an age proof may expire at any moment; an answer that is lost is
a device that does not use its credential; phone numbers, photographs and the other
tables a merge moves, handles, birth dates, passkeys (retired), the review address and
the recent-sign-in gate are left out.

### Rooms

One group and one private roll in it. `role`, `barred`, `asking` and `invited` are the
group's tables; `seat` is the participant row, `right` standing for its `admitted` flag;
`took` is who has something standing in the roll, which is what lets them into the group
by themselves. The reads a call starts with are one step, and each of its writes is
one: `Insert` and `Clear` are `addMember`, `Delete`, `Bar` and `Unseat` are `removeMember`.
A transaction (leaving, handing over, closing an account) is a step for what it reads and
one for its commit: each of two that overlap sees the other's rows as they were. A closing
reads whom the group and the roll would pass to (`Heirs`, `RollHeirs`) and writes it when it
commits (`CommitDeleteAccount`). Calls of one statement, or that only guard one, are one step.

Abstractions: whom `passOnRolls` and `crownGroups` choose by photographs added and
seniority is any of those they may choose; suspension and blocks, invitations and
requests to the roll by name and the co-host's camera are left out (a co-host stands as
somebody who took part); the group starts as its maker leaves it; taking the roll out
of its group is one step; what is written for somebody while their closing is under way goes
with the rest of what is theirs. `stale` and `kept` are history: what a call read has been
undone since, and whose flag a removal could not take.

## 3. Runs

| Run | Configuration | Shows |
|---|---|---|
| `upload_queue` | two files of two albums, two workers, `MAX_ATTEMPTS` 2, one re-presign round, chunks of two, one row each may leave behind | `DoneMeansStored`, `NoEmptyRowLeft`, `NoSharedWork`, `ExhaustedRests`, `StoredBytesNotResent`, `PausedTakesNothingUp`, `RunNeverStuck`, `RunGetsNearer`, and under fairness `RunEnds` |
| `upload_queue_backstop` | one file, the real `MAX_ATTEMPTS` 4 and `MAX_REPRESIGN_ROUNDS` 2 | `RetriesRunOut` fails: see findings |
| `ingest` | two uploads, a matched and an unmatched content, one request, two jobs at once, `Prompt` | `ShownOnce`, `ShownIsServable`, `FinalKeysAreScreened`, `ImplementsAlbum`, `JobsDecide` |
| `ingest_races` | one upload, three contents (good, matched, undecodable), two requests acting on stale reads | `ShownWasScanned`, `MatchedStaysHidden`, `EvidenceFirst`, `MatchLostOnlyByDeath` |
| `ingest_live` | two uploads of one content, one job at a time, fairness | `Settles` |
| `ingest_complete_again` | one upload, one request, stale reads | `CompleteAgainIsSafe` fails: see findings |
| `ingest_match_unrecorded` | one upload that may be matched | `MatchIsRecorded` fails: see findings |
| `removal` | two rows of one picture, one request, two presses, a report and an incident, any two handlers or jobs at once, failing storage and deaths | `ActionedIsDown`, `HoldKeepsEvidence`, `LosesToTwinOnly`, `IncidentIsHidden`, `ImplementsTakedown` |
| `removal_links` | the same, one handler at a time and nothing failing | `LinksFollowRows` fails: see findings |
| `removal_evidence` | the same, one handler at a time and nothing failing | `PurgeSparesEvidence` fails: see findings |
| `signin` | one address, a browser and a phone, two sign-ins at once, two actors, two sessions, two codes of two attempts | `CodeBudget`, `SettledIsDead`, `SignInWorks`, `NothingLeftBehind` |
| `rooms` | three people, two calls at once, three presses | `NobodyWalksIn`, `RemovalTakesRight`, `RollIsPassedOn`, `OnlyRacesOrphan`, and under fairness `RoomIsMended` |

Why the bounds are enough to be of use. In the queue the interesting cases are two workers at
one list, an entry that fails while another succeeds, a chunk of one album beside a chunk of
another, the last attempt and the last re-presign round, each followed by a restart: two
entries, two workers and limits of two and one reach all of them, and the theorems below hold
for any number. `MaxSpare` bounds how many rows an entry may leave behind (its presign's answer
lost, or its row confirmed before it is presented again), the only counter the code does not
bound; it is one for one of the two entries and none for the other, which is a lost answer or a
second row beside an entry that has neither. In `Ingest` every hazard is between at most two
rows (equal contents), at most two jobs, and at most two stale requests on one row; a third
content only adds another way to fail. Symmetry is used over rows or requests that are
interchangeable, and not in runs with liveness properties (a refinement and an action property
are safety, and say the same of interchangeable rows). In `Removal`, `Together` bounds how many
handlers and jobs are under way at once: every hazard of it is between two, and the theorems
hold for any number. Two rows of one picture reach every sharing of objects, and a row is alone
while the other is still to come. In `SignIn`, `MaxCodes` stands for the hourly limit on an
address, and `MaxPresses` counts what only a person's patience bounds: one press, expiry or
suspension among the steps of two sign-ins puts each of them between any two statements. Two
actors are one guest and one with the account, which is what a merge is about. In `Rooms`,
three presses are two calls that meet and what leads up to them, or a closing among them, over
every group three people can be in. These bounds limit only how often, never what; no theorem
below depends on them. Deadlock is not checked: a queue with nothing to do, an album whose
uploads are all decided, and people who have pressed their fill rightly stop.

Fairness. `RunEnds` assumes only `WF(RunStep)`: each await of a run is answered or rejected and
the event loop goes on; nothing is assumed of what the answers are, nor that anybody calls
anything. `Settles` assumes that requests end (`WF`), that the hourly resend, a delivery the
deriver has room for, and a job's next step happen if they are possible again and again (`SF`,
because a request under way, the in-flight limit or another job's death disables them in
between), and that outages end: from some moment on no job dies and no message runs out of
retries. The code's side of that is the cron's schedule, QStash's retries and the handler's
`finally`. Nothing bounds an outage, and the cron sends a row again for a week only, so
`Settles` promises a decision or that week. `RoomIsMended` assumes `WF(Open(p))` for each
person: a member with an account opens their group now and then, which is when `ensureAdmin`
runs; calls and presses are owed nothing, and may die or never come.

Every property of a passing run has a mutant of the code's definition in the same
module (named "Mutant of ...") under which TLC finds it violated.

## 4. Proofs

`UploadQueueProofs` proves for every set of entries, albums and workers and every value of the
limits (`QueueAssumption`: positive attempts and chunk size, natural bounds, finitely many
workers and at least one, as `CONCURRENCY` is 3) that the queue keeps its types and
`NoSharedWork`, `ExhaustedRests`, `NoEmptyRowLeft`, `DoneMeansStored`, and that every step
satisfies `StoredBytesNotResent` and `PausedTakesNothingUp`.

None of these is inductive alone. `IInv` adds what each phase of a run looks like
(`Phases`: nothing is being sent outside presigning, nobody works outside
working, a waiting run has no list; `HeldStatus`: an entry in the presign
snapshot is pending, one on the work list is presigned or uploaded, one at a
worker agrees with the worker's stage; `Uploaded`: an entry marked uploaded has
its bytes on the server). The argument is by action: one lemma per action
(`AddKeeps`, ..., `RestartKeeps`) with one step per conjunct, put together in
the lemma that every step keeps `IInv`. An entry reaches `done` only through a
complete whose answer arrived, so `DoneMeansStored` follows from where a
worker's stage may come from; `NoEmptyRowLeft` follows because the route opens a
row only for an entry that names none or one whose file is confirmed, and the queue
either stores the id or has lost the answer. `StoredBytesNotResent` and
`PausedTakesNothingUp` say no more than their names: a photograph that failed after its
bytes went up is sent again when somebody wakes it, and a paused worker still asks for
the confirmation of what it has just sent.

`UploadRunProofs` proves what `RunEnds` rests on, under the same assumption.
`NeverStuck`: as long as a run is going, it waits for an answer, can take an entry or
has a way out of its round. It needs that the snapshots a round works on are finite, and
that with `paused` set or the list exhausted the workers that are left idle end the
round. `GetsNearer`: each step of a run lowers a measure of naturals, ordered
lexicographically: the retry and re-presign rounds that are left, the phase of the
round, and the requests the round has still to hear of. Entries added, forgotten or
retried meanwhile leave the measure alone, because a round works on the list it
started with. A run could thus go on for ever only if its own next step were never taken,
and that is all `RunEnds` has from `WF(RunStep)`.

`IngestProofs` proves, for any number of photographs, contents and requests and any
`DERIVER_CONCURRENCY` (`IngestAssumption`: matched and undecodable contents are
contents, upload keys are not content keys, the limit is positive), in two layers:

- `IInv` needs no assumption on timing. `JobHolds` says what a job knows by the step it
  has reached (it holds bytes from the hash on, bytes that passed from the scan on,
  and a hidden row from the quarantine on), `RowMoved` that a row is moved to a
  content once and only to one that passed, `Matched` that whatever was matched is
  hidden, `OneLive` what the unique index keeps. `ShownWasScanned`, `ShownOnce`,
  `MatchedStaysHidden` and `EvidenceFirst` follow, so they hold with requests that act on
  stale reads. They hold because no upload route writes `contentHash`, `storageKey` or
  `hiddenAt`: a late request can move a row's status, and that is all.
- `SInv` is kept beside `IInv` when `Prompt` holds. `Alone` says what a request read is
  still so, `Placed` that bytes are at the upload key until the row is ready, `Working`
  that a job and its row agree, `Stored` that what a job has stored and a committed row
  links to is there. `ShownIsServable` and `FinalKeysAreScreened` follow, and the
  refinement: `StepMaps` takes each action to the step of `Album` it is (`Presign`
  starts, `Commit` shows, `Match` holds, `Tombstone` and `Discard` drop) or to none. The
  case that needs the invariant is `Commit`: the content it shows is shown by
  nobody else because the index found no live row of it, and the row is a draft
  because nobody else has decided it while the job was under way.

Two action properties say what becomes of a job. `LostMatches` (no assumption on timing):
between a match and its incident nothing but the job's death can come, so the finding
about `MatchIsRecorded` has that one cause and no interleaving is another. `Decide` (`Prompt`)
is the half of `Settles` that needs no fairness: a job takes at most seven steps,
none of them undone by a request, and unless it dies, or finds at its commit that a
twin was committed first, its photograph is decided when it ends. `Settles` adds that a
message is delivered and a job not cut short again and again.

The theorems that need `Prompt` state it as an assumption (`ASSUME Prompt PROVE ...`);
`ingest_complete_again` is the run that shows `ImplementsAlbum` would fail without it.

`RemovalProofs` proves, for any rows, contents, requests, presses, reports and incidents
(`RemovalAssumption`: each row has a content, at least one handler at a time), all four
invariants, `LosesToTwinOnly` and the refinement. The argument rests on one stable fact, that a
row which has left `ready` never returns to it: removed, quarantined and gone are each `Off`,
and no action leads back. `IInv` ties everything that is still to act on a row to rows that are
`Off`: the renditions owed to be dropped, the rows the purge has selected, the incidents; and
ties a press that has claimed to the answer its request has. Then what can still be shown loses
its objects only to a purge, or a storage call owed, of another row of its content
(`LostToTwin`); that it does then lose them is the code, not a gap of the model. And a decline
that comes late can unhide only a row that is still ready, which is why `IncidentIsHidden`
needs no look at what the press had read; and `ImplementsTakedown` holds although presses act
on old reads, because the claim is one conditional statement.

Two more theorems delimit the findings about `LinksFollowRows` and `PurgeSparesEvidence`,
by saying what does hold. `LinksFollow`, while storage answers and no process dies
(`ASSUME ~Faulty`): once no handler is under way, a content is served only if a row of it
is shown or a host declined a request about a row of it; its invariant `LinksInv`
follows each call that is owed, and the declined requests. So nothing but a decline gives
links out again. `UnsharedIsSpared`, with distinct contents for distinct rows: the purge
never deletes what an incident holds. So only the sharing of an object by
content endangers it. The runs `removal_links` and `removal_evidence` show that neither
hypothesis can be left out; `LinksFollowDecisions` itself is in no run.

`SignInProofs` proves, for any addresses, devices, requests, actors and sessions and
any positive number of attempts (`SignInAssumption`), the two invariants and the two
action properties. `IInv` adds `CodesOK` (a code that is outstanding has signed nobody in,
a settled one is not outstanding), `PeopleOK` (pointers lead to actors there are) and
`RequestsOK` (the row a request read is stored, the actor it goes on with was made, and it
merges two different ones): what a request may rely on between two awaits, none of it
saying that what was read is still true. `NothingLeftBehind` is inductive with those: while
`stale` is false, whoever a request writes for has not been merged since.

`RoomsProofs` proves, for any people and any number of calls, the invariant and the three
action properties about safety. `IInv` is `RemovalTakesRight` with `CallsOK`: as long as
nothing has undone what a call read, the person it lets in has an account and, if they
come by themselves, has taken part and is not barred, and whoever hands the roll on is its
host; nobody chooses themselves as heir. `OnlyRacesOrphan` lists the races by which a group
with an account in it loses its last admin, and says that there is no other: the heir of a
leaving or of a closing (`HeirKeepsRun`) leaves the group run if `crownGroups` would choose it
at the commit, so it takes a second call that commits between its read and that.
Each of the four properties leaves out a race the code has, by `kept`, `stale`, `Overtaken` or
`Orphans`; what is proved is that nothing else breaks what they say.
`MendingIsInReach` is the half of `RoomIsMended` that needs no fairness: in such a
group there is always a member whose opening it is mended by, and nobody's opening
leaves it so.

Only model-checked: `RunEnds`, `Settles` and `RoomIsMended`, which are liveness under
fairness. Of each the theorems above prove the part that is safety (`NeverStuck` and
`GetsNearer`, `Decide`, `MendingIsInReach`); what stays with TLC is that the steps they
speak of are taken, which needs `ENABLED` and the fairness. Nothing in any
model is recursive, so no proof rests on induction over data; the one induction is
over the size of finite sets, inside the library's theorems about them.

## 5. Findings

- **A second complete can take back a shown photograph** (`complete/route.ts:106`).
  The comment at line 153 calls the endpoint safe to call again. A complete that
  read the row as pending, and heads the upload key after the deriver has moved
  the photograph and deleted that key, writes `failed` over `ready`: the
  photograph leaves the album. The client retries a complete whose answer it
  did not get, so two of them do overlap with a derive. A condition
  `status = 'pending'` on the update would close it.
- **A match can be left unrecorded** (`pipeline.ts:450`). The deriver's README
  says a match is quarantined, copied, recorded and a human woken. The first
  write is the quarantine; if the process dies, or the copy or the insert throws,
  the redelivery refuses a row that is no longer pending, answers 489, and nobody
  is told.
- **The retry loop's backstop does run out first** (`packages/upload/src/index.ts:593`).
  The comment says an item runs out of attempts before the loop does. A round that
  only renews a grant counts too, once an attempt has failed: three failed presigns and one
  stale grant are four rounds, and the run ends with an entry pending, one of its four
  attempts left and the network there; the next run picks it up.

- **A decline gives links out again** (`reports/[id]/resolve/route.ts:113`). A host's
  "keep it" clears `hiddenAt` and deletes the revocation marker whatever the row is by
  then. If its uploader has deleted the photograph, before or after it was asked about, the
  links their delete took back work again until they expire; if a child-safety
  report quarantined it after the route read it, likewise. `keys.ts:116` says the marker is
  deleted again "when a hidden photo is unhidden". Restoring only where the update finds
  a row that is ready and not deleted would close it.
- **The purge can delete evidence** (`services/deriver/src/jobs.ts:315`). Holds are looked up
  by row and objects deleted by content. A photograph that was removed, uploaded again and
  then reported loses its original when the first row is purged, while the
  incident of the second is open. `schema.ts:1501` says objects under a hold are exempt.

Observations, which no run is about:

- A deletion by the sweep, too, may be decided on what was read earlier: the selection is
  up to 500 rows and each is written by id alone, so a row confirmed in between becomes
  `failed` and loses its file. It is the same shape as the first finding.
- `quarantine()` (`pipeline.ts:439`) and `quarantinePhoto()` (`safety.ts:207`) do not set
  `deletedAt`, although `jobs.ts:265` says a quarantined photograph "is also soft-deleted";
  so one whose incident was released is never purged, although `releaseIncident`'s comment
  in `admin.ts` says the purge job removes it on its usual schedule.
- An invitation that was accepted once stays in `group_invite` when its person is removed or
  leaves, and `inviteToGroup` (`groups.ts:1787`) inserts with `onConflictDoNothing`: they cannot
  be invited again, although `schema.ts:731` says an admin can still invite them back. An older
  invitation that is still open survives a removal, and accepting it undoes it.
- A photograph whose confirmation failed `MAX_ATTEMPTS` times, or whose row the hourly cron has
  confirmed meanwhile, is sent again when somebody retries it: `claimDrafts` refuses the named
  row, as its bytes are confirmed, and the route opens a second one. The deriver's duplicate
  check removes it when the first is shown.
- A row that has been confirmed and not derived for a week is not sent again
  (`deriveBacklog.ts:66`, whose comment says so); it waits until its uploader retries it.
- A photograph that was removed and uploaded again loses its renditions if the drop that
  the removal owes comes after, and its original and renditions when the first row is purged
  after thirty days (`jobs.ts:314`): both are named by content. Nothing deletes the revocation
  marker of the removal either, so the links of the new row are refused from the start.
- An incident opened while the purge is at its row loses the row and its objects (`late` in
  `Removal`): the purge looks for holds when it selects.
- Staff take a row down, or escalate it, by id after reading it: a quarantine that was
  committed in between becomes a removal, and the other way round. The links stay revoked.
- Two admins who leave or close their accounts at once, or one who leaves while the other
  closes, each see the other as admin and leave the group with none; the next member to open
  it makes one (`ensureAdmin`). Two closings at once can also pass the roll to each other's
  account, and leave it with a host who has none. A hand-over of the roll that was checked
  before another one, or before a closing, is carried out over it.
- A presign that has read that its uploader was not taken out of the group writes them as in
  the roll by right after the removal has cleared that flag (`uploads/route.ts:138`), and a
  joining that has read it inserts the member after the removal.
- A suspension that was decided before a merge committed stands on the merged actor, which
  signs nobody in, and not on the person (`adminPeople.ts:216`). Rows that a request with the
  merged actor inserts after `merge.ts` has moved that table stay with it.
- `addMember`'s two statements and `removeMember`'s first two, interleaved, can leave a
  member with a standing row in `group_removal`: in the group, but not in by right in its
  rolls, and barred once they leave.
- An approval or an acceptance that the closing of the account overtakes puts a closed
  account's guest actor back as a member, and `crownGroups` may choose it as admin, as it
  looks at no account. `RoomIsMended` is about groups in which somebody with an account
  is left.
- Two first sign-ins at once to one address: the second may find the account the first has
  just created and, as the first has linked no actor to it yet, find no canonical actor
  either (`accounts.ts:371`). Both then `link` their own, and no unique index on
  `actor.account_id` refuses it, so one account has two actors until a later sign-in merges
  one of them into the other.
- On the phone, "Try again" while a run is going is undone by the run's next save:
  `retryStuck` (`App.tsx:3174`) changes the saved queue, and the run saves its own copy.

## 6. Not modelled

Most of the repository's lines are screens (`apps/mobile`, the web app's components and
pages) and queries that list, search and count for them. They hold what a reader sees and
fetch it again; no state of the system depends on them, and they are why the map
covers a small share of all lines although it covers most of those that write what the
hazards are about. Beside these:

- pixels, EXIF and codecs, taken as outcomes; the zip format and URL signing, which are
  pure functions of bytes and sizes (the zip's boundaries lie at 2^32, past TLC's integers);
- notifications, mail and alerts: best effort, nothing depends on them;
- rate limits: one atomic statement per request; `authorize()` over links, codes and
  settings: a table over the facts of one request;
- messages, reactions, moments, tags, friendships: rows written by one statement that
  no other control depends on, but for having taken part, which is in `Rooms`;
- the jobs that expire and recycle: one statement each; AVIF backfill and re-stripping;
- the phone's second copy of the upload queue and the browser hook around a run, the
  cover owed to a roll; migrations, backup and configuration.

`PROJECT.json` lists every part with what is and is not modelled, and every hazard that no
property covers with the reason.

## 7. Running

    tlasany Ingest.tla
    tlc -workers 2 -config MCIngest.cfg MCIngest
    tlapm UploadQueueProofs.tla
    tlapm UploadRunProofs.tla
    tlapm IngestProofs.tla
    tlapm RemovalProofs.tla
    tlapm SignInProofs.tla
    tlapm RoomsProofs.tla

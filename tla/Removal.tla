------------------------------ MODULE Removal -------------------------------
(* How a photograph leaves an album: its uploader's delete, the removal        *)
(* request a host answers, the job that hides it when no host does, the        *)
(* child-safety report that quarantines it, what staff do about reports,       *)
(* flags and incidents, the purge that ends it, and the marker by which the    *)
(* image worker knows that a link is taken back.                               *)
(*                                                                             *)
(* One album. Rows that were uploaded from the same picture share a content    *)
(* and with it an original, its renditions and its revocation marker. Handlers *)
(* and transactions are cut between the read, the claim, the write and the     *)
(* storage calls that follow it; a press that dies once it has claimed keeps   *)
(* its record, so that a state still tells what was left undone. Thirty days   *)
(* and the end of a hold come only while nothing is under way.                 *)
EXTENDS Naturals, FiniteSets

CONSTANTS
    Photos,     \* photo rows
    Contents,   \* what originals hash to
    Hash,       \* the content of each row
    Asked,      \* removal requests: rows of report of that kind
    Hosts,      \* host presses that can be under way at once
    Reporters,  \* child-safety reports that can be under way at once
    Incidents,  \* rows of safety_incident
    Together,   \* bound: handlers and jobs that are under way at once
    Faulty,     \* whether storage calls fail and processes die
    None

ASSUME RemovalAssumption ==
    /\ Hash \in [Photos -> Contents]
    /\ None \notin Photos \cup Asked
    /\ Together \in Nat \ {0}
    /\ Faulty \in BOOLEAN

VARIABLES
    status, hiddenAt, deletedAt, \* photo rows
    ripe,       \* rows deleted longer than PURGE_GRACE_DAYS ago
    originals, renditions, \* objects, by content
    revoked,    \* contents with a revocation marker
    owed,       \* storage calls that follow a change already made
    request,    \* removal requests
    host,       \* a host's press: the request it read and the answer
    reporter,   \* a child-safety report: the row it read
    incident,   \* child-safety incidents
    late,       \* those the purge was already at when they were opened
    taking,     \* rows staff have read, to take them down or escalate them
    hiding,     \* requests the auto-hide job has selected
    purging, emptied \* rows the purge has selected; those without objects

row      == <<status, hiddenAt, deletedAt, ripe>>
objects  == <<originals, renditions, revoked>>
selected == <<taking, hiding, purging, emptied>>
vars ==
    <<row, objects, owed, request, host, reporter, incident, late, selected>>

Status == {"absent", "ready", "removed", "quarantined", "gone"}
Answers == {"actioned", "declined"}
Settled == {"open", "filed", "expired", "released"}
NoRequest == [photo |-> None, status |-> "none"]
NoPress == [pc |-> "idle", of |-> None, answer |-> "declined"]
NoReport == [pc |-> "idle", photo |-> None]
NoIncident == [photo |-> None, status |-> "none"]

TypeOK ==
    /\ status \in [Photos -> Status]
    /\ hiddenAt \in [Photos -> BOOLEAN] /\ deletedAt \in [Photos -> BOOLEAN]
    /\ ripe \in [Photos -> BOOLEAN]
    /\ originals \subseteq Contents /\ renditions \subseteq Contents
    /\ revoked \subseteq Contents
    /\ owed \subseteq [do : {"drop", "revoke", "restore"}, photo : Photos]
    /\ request \in [Asked -> [photo : Photos, status : {"open"} \cup Answers]
                            \cup {NoRequest}]
    /\ host \in [Hosts -> [pc : {"claim", "act", "dead"}, of : Asked, answer : Answers]
                            \cup {NoPress}]
    /\ reporter \in [Reporters -> [pc : {"hide", "open"}, photo : Photos] \cup
                                    {NoReport}]
    /\ incident \in [Incidents -> [photo : Photos, status : Settled] \cup {NoIncident}]
    /\ late \subseteq Incidents
    /\ taking \subseteq Photos /\ hiding \subseteq Asked
    /\ purging \subseteq Photos /\ emptied \subseteq purging

Init ==
    /\ status = [p \in Photos |-> "absent"]
    /\ hiddenAt = [p \in Photos |-> FALSE] /\ deletedAt = [p \in Photos |-> FALSE]
    /\ ripe = [p \in Photos |-> FALSE]
    /\ originals = {} /\ renditions = {} /\ revoked = {} /\ owed = {}
    /\ request = [q \in Asked |-> NoRequest]
    /\ host = [h \in Hosts |-> NoPress]
    /\ reporter = [s \in Reporters |-> NoReport]
    /\ incident = [i \in Incidents |-> NoIncident]
    /\ late = {} /\ taking = {} /\ hiding = {} /\ purging = {} /\ emptied = {}

-----------------------------------------------------------------------------
(* What the rows say.                                                          *)

Exists(p) == status[p] \notin {"absent", "gone"}
Live(p) == Exists(p) /\ ~deletedAt[p]
Visible(p) == status[p] = "ready" /\ ~deletedAt[p] /\ ~hiddenAt[p]
Off(p) == status[p] \in {"removed", "quarantined", "gone"}
Only(p) == \A o \in Photos \ {p} : Hash[o] = Hash[p] => status[o] = "absent"
Open(q) == request[q].status = "open" /\ Exists(request[q].photo)

\* A hold with no end date, before a report is filed, is open-ended.
Holds(i) == incident[i].status \in {"open", "filed"}

\* Mutant of Held: a hold with no end date is taken for one that has ended.
HeldOnceFiled(p) ==
    \E i \in Incidents : incident[i].photo = p /\ incident[i].status = "filed"

Held(p) == \E i \in Incidents : incident[i].photo = p /\ Holds(i)

\* external: what the image worker answers to anybody who holds a signed link.
Served(c) == c \in renditions /\ c \notin revoked

\* What is under way: presses, reports, staff, storage calls and the two jobs.
Presses == {h \in Hosts : host[h].pc \in {"claim", "act"}}
Reports == {s \in Reporters : reporter[s] # NoReport}
Room ==
    Cardinality(owed) + Cardinality(Presses) + Cardinality(Reports)
        + Cardinality(taking) + (IF hiding # {} THEN 1 ELSE 0)
        + (IF purging # {} THEN 1 ELSE 0) < Together
Quiet ==
    /\ owed = {} /\ Presses = {} /\ Reports = {}
    /\ taking = {} /\ hiding = {} /\ purging = {}

-----------------------------------------------------------------------------
(* Uploads and the storage calls that follow a change.                         *)

\* A second row with the same content only once the first is tombstoned.
Commit(p) ==
    /\ status[p] = "absent"
    /\ \A o \in Photos \ {p} : Hash[o] = Hash[p] => ~Live(o)
    /\ status' = [status EXCEPT ![p] = "ready"]
    /\ originals' = originals \cup {Hash[p]}
    /\ renditions' = renditions \cup {Hash[p]}
    /\ UNCHANGED <<hiddenAt, deletedAt, ripe, revoked, owed, request, host>>
    /\ UNCHANGED <<reporter, incident, late, selected>>

Owes(p, does) == owed' = owed \cup [do : does, photo : {p}]

\* Every storage call is best effort: a failure is logged and forgotten.
Try(old, new) == IF Faulty THEN {old, new} ELSE {new}

DropDerivatives(p) ==
    /\ renditions' \in Try(renditions, renditions \ {Hash[p]})
    /\ UNCHANGED revoked

RevokePhotoLinks(p) ==
    /\ revoked' \in Try(revoked, revoked \cup {Hash[p]})
    /\ UNCHANGED renditions

RestorePhotoLinks(p) ==
    /\ revoked' \in Try(revoked, revoked \ {Hash[p]})
    /\ UNCHANGED renditions

\* A process that dies before its call is one whose call fails.
Storage(e) ==
    /\ e \in owed
    /\ owed' = owed \ {e}
    /\ \/ e.do = "drop" /\ DropDerivatives(e.photo)
       \/ e.do = "revoke" /\ RevokePhotoLinks(e.photo)
       \/ e.do = "restore" /\ RestorePhotoLinks(e.photo)
    /\ UNCHANGED <<row, originals, request, host, reporter, incident, late, selected>>

-----------------------------------------------------------------------------
(* The row is removed: by its uploader, a host or staff.                       *)

\* Mutant of Removes: a removal hides the row, as the auto-hide does.
RemovesHides(p) ==
    /\ hiddenAt' = [hiddenAt EXCEPT ![p] = TRUE]
    /\ UNCHANGED <<status, deletedAt, ripe>>

Removes(p) ==
    /\ status' = [status EXCEPT ![p] = "removed"]
    /\ deletedAt' = [deletedAt EXCEPT ![p] = TRUE]
    /\ ripe' = [ripe EXCEPT ![p] = FALSE]
    /\ UNCHANGED hiddenAt

\* DELETE /api/photos/[id]: whatever its state; the clock starts again.
Withdraw(p) ==
    /\ Room
    /\ Exists(p)
    /\ Removes(p)
    /\ Owes(p, {"revoke"})
    /\ UNCHANGED <<objects, request, host, reporter, incident, late, selected>>

\* Staff on an abuse report or a classifier flag, in a transaction: a row that
\* is removed only closes the report, a quarantined one is under review.
StaffReads(p) ==
    /\ Room
    /\ status[p] = "ready" /\ p \notin taking
    /\ taking' = taking \cup {p}
    /\ UNCHANGED <<row, objects, owed, request, host, reporter, incident, late>>
    /\ UNCHANGED <<hiding, purging, emptied>>

\* By id, whatever has become of the row since it was read.
TakeDown(p) ==
    /\ p \in taking /\ taking' = taking \ {p}
    /\ IF Exists(p) THEN Removes(p) ELSE UNCHANGED row
    /\ Owes(p, {"drop", "revoke"})
    /\ UNCHANGED <<objects, request, host, reporter, incident, late>>
    /\ UNCHANGED <<hiding, purging, emptied>>

-----------------------------------------------------------------------------
(* Removal requests: asked by anybody who sees the album, answered by a host.  *)

\* The check for an open request and the insert are two statements: a second
\* open request is what two people asking at once leave behind.
Ask(q, p) ==
    /\ request[q] = NoRequest
    /\ Exists(p)
    /\ request' = [request EXCEPT ![q] = [photo |-> p, status |-> "open"]]
    /\ UNCHANGED <<row, objects, owed, host, reporter, incident, late, selected>>

\* An open request on a photo that is not held for child safety.
HostReads(h, q, a) ==
    /\ Room
    /\ host[h] = NoPress
    /\ Open(q) /\ status[request[q].photo] # "quarantined"
    /\ host' = [host EXCEPT ![h] = [pc |-> "claim", of |-> q, answer |-> a]]
    /\ UNCHANGED <<row, objects, owed, request, reporter, incident, late, selected>>

\* Mutant of HostClaims: the request is answered whatever its state is now.
HostClaimsAnyway(h) ==
    LET q == host[h].of IN
    /\ host[h].pc = "claim"
    /\ request' = [request EXCEPT ![q] =
                      [photo |-> request[q].photo, status |-> host[h].answer]]
    /\ host' = [host EXCEPT ![h] = [pc |-> "act", of |-> q, answer |-> host[h].answer]]
    /\ UNCHANGED <<row, objects, owed, reporter, incident, late, selected>>

\* Claimed before anything is done, so that two presses cannot both act.
HostClaims(h) ==
    LET q == host[h].of IN
    /\ host[h].pc = "claim"
    /\ \/ /\ Open(q)
          /\ request' = [request EXCEPT ![q] =
                           [photo |-> request[q].photo, status |-> host[h].answer]]
          /\ host' = [host EXCEPT ![h] = [pc |-> "act", of |-> q, answer |-> host[h].answer]]
       \/ /\ ~Open(q)
          /\ host' = [host EXCEPT ![h] = NoPress]
          /\ UNCHANGED request
    /\ UNCHANGED <<row, objects, owed, reporter, incident, late, selected>>

\* Acts on the photo it read, whatever has become of it; a row that is gone
\* is not updated, and its storage is answered for all the same.
HostActs(h) ==
    LET p == request[host[h].of].photo IN
    /\ host[h].pc = "act"
    /\ \/ /\ host[h].answer = "actioned"
          /\ IF Exists(p) THEN Removes(p) ELSE UNCHANGED row
          /\ Owes(p, {"drop", "revoke"})
       \/ /\ host[h].answer = "declined"
          /\ hiddenAt' = [hiddenAt EXCEPT ![p] = FALSE]
          /\ Owes(p, {"restore"})
          /\ UNCHANGED <<status, deletedAt, ripe>>
    /\ host' = [host EXCEPT ![h] = NoPress]
    /\ UNCHANGED <<objects, request, reporter, incident, late, selected>>

HostDies(h) ==
    /\ Faulty
    /\ \/ host[h].pc = "claim" /\ host' = [host EXCEPT ![h] = NoPress]
       \/ host[h].pc = "act" /\ host' = [host EXCEPT ![h] =
             [pc |-> "dead", of |-> host[h].of, answer |-> host[h].answer]]
    /\ UNCHANGED <<row, objects, owed, request, reporter, incident, late, selected>>

\* Any open request: the 48 hours may be over at any moment.
AutoHideSelects ==
    /\ Room
    /\ hiding = {}
    /\ hiding' \in SUBSET {q \in Asked : Open(q)} \ {{}}
    /\ UNCHANGED <<row, objects, owed, request, host, reporter, incident, late>>
    /\ UNCHANGED <<taking, purging, emptied>>

\* Mutant of AutoHide: the renditions go too, as for a removal.
AutoHideDrops(q) ==
    LET p == request[q].photo IN
    /\ q \in hiding /\ Exists(p) /\ ~hiddenAt[p]
    /\ hiding' = hiding \ {q}
    /\ hiddenAt' = [hiddenAt EXCEPT ![p] = TRUE]
    /\ Owes(p, {"drop", "revoke"})
    /\ UNCHANGED <<status, deletedAt, ripe, objects, request, host>>
    /\ UNCHANGED <<reporter, incident, late, taking, purging, emptied>>

\* One of the selected: the row is looked at again, its request is not.
AutoHide(q) ==
    LET p == request[q].photo IN
    /\ q \in hiding
    /\ hiding' = hiding \ {q}
    /\ IF Exists(p) /\ ~hiddenAt[p]
       THEN hiddenAt' = [hiddenAt EXCEPT ![p] = TRUE] /\ Owes(p, {"revoke"})
       ELSE UNCHANGED <<hiddenAt, owed>>
    /\ UNCHANGED <<status, deletedAt, ripe, objects, request, host>>
    /\ UNCHANGED <<reporter, incident, late, taking, purging, emptied>>

-----------------------------------------------------------------------------
(* Child safety: a report quarantines on receipt, an incident holds the row.   *)

Report(s, p) ==
    /\ Room
    /\ reporter[s] = NoReport
    /\ Exists(p) /\ status[p] # "quarantined"
    /\ reporter' = [reporter EXCEPT ![s] = [pc |-> "hide", photo |-> p]]
    /\ UNCHANGED <<row, objects, owed, request, host, incident, late, selected>>

\* Mutant of Quarantines: hidden as a removal request hides it, and no more.
QuarantinesHides(p) ==
    /\ hiddenAt' = [hiddenAt EXCEPT ![p] = TRUE]
    /\ UNCHANGED <<status, deletedAt, ripe>>

Quarantines(p) ==
    /\ status' = [status EXCEPT ![p] = "quarantined"]
    /\ hiddenAt' = [hiddenAt EXCEPT ![p] = TRUE]
    /\ UNCHANGED <<deletedAt, ripe>>

Quarantine(s) ==
    LET p == reporter[s].photo IN
    /\ reporter[s].pc = "hide"
    /\ IF Exists(p) THEN Quarantines(p) ELSE UNCHANGED row
    /\ reporter' = [reporter EXCEPT ![s] = [pc |-> "open", photo |-> p]]
    /\ UNCHANGED <<objects, owed, request, host, incident, late, selected>>

Opens(i, p) ==
    /\ incident[i] = NoIncident
    /\ incident' = [incident EXCEPT ![i] = [photo |-> p, status |-> "open"]]
    /\ late' = IF p \in purging \/ Hash[p] \notin originals THEN late \cup {i} ELSE late

\* The links are taken back, then the incident is inserted: not for a row
\* that has gone, whose foreign key fails.
OpenIncident(s, i) ==
    LET p == reporter[s].photo IN
    /\ reporter[s].pc = "open"
    /\ RevokePhotoLinks(p)
    /\ \/ Exists(p) /\ Opens(i, p)
       \/ ~Exists(p) /\ UNCHANGED <<incident, late>>
    /\ reporter' = [reporter EXCEPT ![s] = NoReport]
    /\ UNCHANGED <<row, originals, owed, request, host, selected>>

ReporterDies(s) ==
    /\ Faulty
    /\ reporter[s] # NoReport
    /\ reporter' = [reporter EXCEPT ![s] = NoReport]
    /\ UNCHANGED <<row, objects, owed, request, host, incident, late, selected>>

\* answerFlag, "escalate": the same in one transaction, of a photo that was
\* shown when it was read; the marker is written before it commits.
Escalate(p, i) ==
    /\ p \in taking /\ taking' = taking \ {p}
    /\ RevokePhotoLinks(p)
    /\ \/ Exists(p) /\ Quarantines(p) /\ Opens(i, p)
       \/ ~Exists(p) /\ UNCHANGED <<row, incident, late>>
    /\ UNCHANGED <<originals, owed, request, host, reporter>>
    /\ UNCHANGED <<hiding, purging, emptied>>

\* What the transaction wrote is undone; its marker, if it was at it, is not.
StaffDies(p) ==
    /\ Faulty
    /\ p \in taking /\ taking' = taking \ {p}
    /\ RevokePhotoLinks(p)
    /\ UNCHANGED <<row, originals, owed, request, host, reporter, incident, late>>
    /\ UNCHANGED <<hiding, purging, emptied>>

Settles(i, from, to) ==
    /\ incident[i].status = from
    /\ incident' = [incident EXCEPT ![i] =
                      [photo |-> incident[i].photo, status |-> to]]
    /\ UNCHANGED <<row, objects, owed, request, host, reporter, late, selected>>

\* Filing starts the clock of the hold; what was filed cannot be released.
FileIncident(i)    == Settles(i, "open", "filed")
ReleaseIncident(i) == Settles(i, "open", "released")
HoldEnds(i)        == Quiet /\ Settles(i, "filed", "expired")

-----------------------------------------------------------------------------
(* The purge.                                                                  *)

\* Thirty days pass.
Ripen(p) ==
    /\ Quiet
    /\ Exists(p) /\ deletedAt[p] /\ ~ripe[p]
    /\ ripe' = [ripe EXCEPT ![p] = TRUE]
    /\ UNCHANGED <<status, hiddenAt, deletedAt, objects, owed, request, host>>
    /\ UNCHANGED <<reporter, incident, late, selected>>

Purgeable == {p \in Photos : Exists(p) /\ deletedAt[p] /\ ripe[p] /\ ~Held(p)}

PurgeSelects ==
    /\ Room
    /\ purging = {} /\ Purgeable # {}
    /\ purging' = Purgeable
    /\ UNCHANGED <<row, objects, owed, request, host, reporter, incident, late>>
    /\ UNCHANGED <<taking, hiding, emptied>>

\* Objects first, each best effort; they are named by content.
PurgeObjects(p) ==
    /\ p \in purging \ emptied
    /\ emptied' = emptied \cup {p}
    /\ originals' \in Try(originals, originals \ {Hash[p]})
    /\ DropDerivatives(p)
    /\ UNCHANGED <<row, owed, request, host, reporter, incident, late>>
    /\ UNCHANGED <<taking, hiding, purging>>

\* Mutant of PurgeRow: the row stays among those whose objects are gone.
PurgeRowForgets(p) ==
    /\ p \in emptied
    /\ purging' = purging \ {p}
    /\ status' = [status EXCEPT ![p] = "gone"]
    /\ UNCHANGED <<hiddenAt, deletedAt, ripe, objects, owed, request, host>>
    /\ UNCHANGED <<reporter, incident, late, taking, hiding, emptied>>

\* Then the row, with the reports that refer to it.
PurgeRow(p) ==
    /\ p \in emptied
    /\ purging' = purging \ {p} /\ emptied' = emptied \ {p}
    /\ status' = [status EXCEPT ![p] = "gone"]
    /\ UNCHANGED <<hiddenAt, deletedAt, ripe, objects, owed, request, host>>
    /\ UNCHANGED <<reporter, incident, late, taking, hiding>>

\* A job that stops leaves the rest to its next run.
CronDies ==
    /\ Faulty
    /\ hiding # {} \/ purging # {}
    /\ hiding' = {} /\ purging' = {} /\ emptied' = {}
    /\ UNCHANGED <<row, objects, owed, request, host, reporter, incident, late, taking>>

-----------------------------------------------------------------------------
People ==
    \/ \E p \in Photos : Commit(p) \/ Withdraw(p) \/ StaffReads(p)
    \/ \E q \in Asked : \/ \E p \in Photos : Ask(q, p)
                        \/ \E h \in Hosts, a \in Answers : HostReads(h, q, a)
    \/ \E s \in Reporters, p \in Photos : Report(s, p)
    \/ \E i \in Incidents : FileIncident(i) \/ ReleaseIncident(i)

Handlers ==
    \/ \E e \in owed : Storage(e)
    \/ \E p \in Photos : \/ TakeDown(p) \/ StaffDies(p)
                         \/ \E i \in Incidents : Escalate(p, i)
    \/ \E h \in Hosts : HostClaims(h) \/ HostActs(h) \/ HostDies(h)
    \/ \E s \in Reporters : \/ Quarantine(s) \/ ReporterDies(s)
                            \/ \E i \in Incidents : OpenIncident(s, i)

Clock ==
    \/ \E i \in Incidents : HoldEnds(i)
    \/ \E p \in Photos : Ripen(p)

Jobs ==
    \/ AutoHideSelects \/ PurgeSelects \/ CronDies
    \/ \E q \in Asked : AutoHide(q)
    \/ \E p \in Photos : PurgeObjects(p) \/ PurgeRow(p)

Next == People \/ Handlers \/ Clock \/ Jobs

Spec == Init /\ [][Next]_vars

-----------------------------------------------------------------------------
(* Properties.                                                                 *)

\* The photograph as the album shows it.
Shown(p) ==
    IF status[p] = "absent" THEN "none"
    ELSE IF status[p] = "gone" THEN "gone"
    ELSE IF Visible(p) THEN "shown"
    ELSE IF status[p] = "ready" /\ ~deletedAt[p] THEN "hidden"
    ELSE "down"

Promise == INSTANCE Takedown
    WITH phase <- [p \in Photos |-> Shown(p)],
         answer <- [q \in Asked |-> request[q].status]

\* However uploader, hosts, staff, reporters and jobs interleave, a photo that
\* was taken down is never shown again, nothing is purged that is still shown
\* or hidden, and a request that was answered keeps its answer.
ImplementsTakedown == Promise!Spec

\* A removal a host agreed to has happened once no press is about to make it,
\* unless the process that claimed the request died before it did.
ActionedIsDown ==
    \A q \in Asked : request[q].status = "actioned" =>
        \/ Off(request[q].photo)
        \/ \E h \in Hosts : host[h].of = q /\ host[h].pc \in {"act", "dead"}

\* A row under a hold that has not ended is kept, unless the purge was already
\* at it when the incident was opened; and so is its original, while no
\* other row has the same content.
HoldKeepsEvidence ==
    \A i \in Incidents : Holds(i) /\ i \notin late =>
        LET p == incident[i].photo IN
        /\ Exists(p)
        /\ Only(p) => Hash[p] \in originals

\* A row that is shown, or hidden and can be shown again, loses its objects
\* only to another row of the same content that was taken down before: to its
\* purge or to a storage call owed for it, never to what was done to itself.
LosesToTwinOnly ==
    [][\A p \in Photos :
          /\ status[p] = "ready"
          /\ \/ Hash[p] \in originals \ originals'
             \/ Hash[p] \in renditions \ renditions'
          => \E o \in Photos \ {p} :
                /\ Hash[o] = Hash[p] /\ Off(o)
                /\ \/ o \in purging
                   \/ [do |-> "drop", photo |-> o] \in owed]_vars

\* Nothing an incident is about is shown, whatever a host's press that was
\* under way when it was opened does next.
IncidentIsHidden ==
    \A i \in Incidents : incident[i] # NoIncident => ~Visible(incident[i].photo)

\* What the comment on revokePhotoLinks says: when every storage call that was
\* owed has been made, a content no row of which is shown is not served.
LinksFollowRows ==
    Quiet => \A c \in Contents : Served(c) =>
                 \E p \in Photos : Hash[p] = c /\ Visible(p)

\* What the comment on purge says: no row's removal destroys what a hold keeps.
PurgeSparesEvidence ==
    \A i \in Incidents : Holds(i) /\ i \notin late =>
        Hash[incident[i].photo] \in originals
=============================================================================

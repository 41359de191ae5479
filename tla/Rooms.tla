------------------------------- MODULE Rooms -------------------------------
(* A group and a private roll that was rolled up into it: who is in each, who   *)
(* runs each, and how both pass on when people leave, are taken out, hand over  *)
(* or close their account.                                                      *)
(*                                                                             *)
(* The ways in and out of a group are several statements that no transaction    *)
(* holds together, so a call is cut where one of its writes may meet another    *)
(* call's; the reads a call starts with are one step. A transaction is a step   *)
(* for what it reads and one for its commit. Calls that are one statement, or   *)
(* that only guard one, are one step.                                           *)
EXTENDS Naturals, FiniteSets

CONSTANTS
    People,     \* actors, each with an account at first
    Reqs,       \* calls that can be under way at once
    MaxPresses, \* bound: presses in a behaviour
    Nobody

ASSUME RoomsAssumption == Nobody \notin People /\ MaxPresses \in Nat

VARIABLES
    role,       \* group_member.role of each, or none without a row
    barred,     \* who has a row in group_removal
    asking,     \* who has an open group_join_request
    invited,    \* status of their group_invite
    account,    \* actors with an account
    seat,       \* their event_participant row: out, in, or in by right (admitted)
    took,       \* who has something standing in the roll
    host,       \* event.created_by
    grouped,    \* event.group_id is the group's
    req,        \* calls under way
    presses,    \* presses so far
    kept        \* history: whose admitted flag a removal could not take

group == <<role, barred, asking, invited>>
roll  == <<seat, took, host, grouped>>
vars  == <<group, roll, account, req, presses, kept>>

Kinds == {"join", "approve", "accept", "remove", "leave", "handgroup", "handroll", "upload",
          "close"}
Stages == {"insert", "clear", "resolve", "delete", "bar", "unseat", "commit", "record",
           "admit", "depart", "close"}
Idle == [kind |-> "none", at |-> "idle", by |-> Nobody, whom |-> Nobody, heirs |-> {},
         stale |-> FALSE]
\* A call, who makes it, whom it is about, whom it may make the host, and
\* (history) whether what it read of them has been undone since.
Calls == [kind : Kinds, at : Stages, by : People, whom : People \cup {Nobody},
          heirs : SUBSET People, stale : BOOLEAN]

TypeOK ==
    /\ role \in [People -> {"none", "member", "admin"}]
    /\ barred \subseteq People /\ asking \subseteq People
    /\ invited \in [People -> {"none", "open", "answered"}]
    /\ account \subseteq People
    /\ seat \in [People -> {"out", "in", "right"}]
    /\ took \subseteq People
    /\ host \in People
    /\ grouped \in BOOLEAN
    /\ req \in [Reqs -> Calls \cup {Idle}]
    /\ presses \in 0 .. MaxPresses
    /\ kept \subseteq People

Members == {p \in People : role[p] # "none"}
Admins == {p \in People : role[p] = "admin"}

\* A group as its maker leaves it: they run it, some friends are in it, one of
\* them has made a roll in it that the others opened, and some have added to it.
Init ==
    /\ \E founder \in People, friends \in SUBSET People :
         role = [p \in People |-> IF p = founder THEN "admin"
                                 ELSE IF p \in friends THEN "member" ELSE "none"]
    /\ host \in Members
    /\ seat = [p \in People |-> IF role[p] = "none" THEN "out" ELSE "in"]
    /\ took \in SUBSET Members
    /\ barred = {} /\ asking = {}
    /\ invited = [p \in People |-> "none"]
    /\ account = People
    /\ grouped = TRUE
    /\ req = [r \in Reqs |-> Idle]
    /\ presses = 0 /\ kept = {}

-----------------------------------------------------------------------------
(* What the rows say.                                                          *)

\* What counts as taking part: having made the album, or added to it.
TookPart(p) == grouped /\ (p = host \/ p \in took)

\* Mutant of Participated: having opened the roll counts.
ParticipatedByLooking(p) ==
    /\ p \in account /\ p \notin barred
    /\ grouped /\ (p = host \/ seat[p] # "out")

Participated(p) == p \in account /\ p \notin barred /\ TookPart(p)

\* authorize, for somebody signed in: by the roll's row, or by its group's.
InRoll(p) == p = host \/ seat[p] # "out" \/ (grouped /\ role[p] # "none")
Administers(p) == p = host \/ (grouped /\ role[p] = "admin")

\* Mutant of Heirs: those who go are not left out of it.
HeirsOfAll(gone) ==
    IF Members \subseteq gone \/ Admins # {} THEN {Nobody} ELSE Members

\* Whom crownGroups may choose once the people in gone have no row any more:
\* somebody left in the group, when nobody left is its admin.
Heirs(gone) ==
    IF Members \subseteq gone \/ Admins \ gone # {} THEN {Nobody} ELSE Members \ gone

\* Mutant of RollHeirs: no heir is written as no host.
RollHeirsOrNobody(p) ==
    IF host # p THEN {}
    ELSE LET eligible == {h \in account \ {p} : seat[h] # "out"}
         IN  IF eligible = {} THEN {Nobody} ELSE eligible

\* Mutant of RollHeirs: the heir is chosen while the host still has an account.
RollHeirsTooSoon(p) ==
    IF host # p THEN {} ELSE {h \in account : h = p \/ seat[h] # "out"}

\* Whom passOnRolls may make the host when p, who has no account any more, is:
\* somebody with one who is in the roll, or p for want of anybody.
RollHeirs(p) ==
    IF host # p THEN {}
    ELSE LET eligible == {h \in account \ {p} : seat[h] # "out"}
         IN  IF eligible = {} THEN {p} ELSE eligible

-----------------------------------------------------------------------------
(* Calls.                                                                      *)

Call(kind, at, p, q) ==
    [kind |-> kind, at |-> at, by |-> p, whom |-> q, heirs |-> {}, stale |-> FALSE]
Go(c, stage) == [c EXCEPT !.at = stage]
Undone(c) == [c EXCEPT !.stale = TRUE]

Pressed == presses < MaxPresses /\ presses' = presses + 1
Starts(r, c) == req[r] = Idle /\ req' = [req EXCEPT ![r] = c]
Goes(r, stage) == req' = [req EXCEPT ![r] = Go(req[r], stage)]
Ends(r) == req' = [req EXCEPT ![r] = Idle]
Is(r, kind, stage) == req[r].kind = kind /\ req[r].at = stage

\* Calls that have read that p is not barred, and go by it.
TrustsIn(c, p) == c.kind \in {"join", "upload"} /\ c.whom = p
\* Calls that have read who hosts the roll, and hand it on.
HandsOn(c) == c.kind = "handroll"
\* Calls that have read that p took part.
JoinsAs(c, p) == c.kind = "join" /\ c.whom = p
Undoing(calls) == [q \in Reqs |-> IF q \in calls THEN Undone(req[q]) ELSE req[q]]

-----------------------------------------------------------------------------
(* Ways into the group.                                                        *)

Invite(a, p) ==
    /\ role[a] = "admin" /\ role[p] = "none" /\ p \in account
    /\ invited[p] = "none"
    /\ invited' = [invited EXCEPT ![p] = "open"]
    /\ UNCHANGED <<role, barred, asking, roll, account, req, kept>>
    /\ Pressed

AskToJoin(p) ==
    /\ p \in account /\ role[p] = "none" /\ ~Participated(p)
    /\ p \notin asking /\ asking' = asking \cup {p}
    /\ UNCHANGED <<role, barred, invited, roll, account, req, kept>>
    /\ Pressed

Join(r, p) ==
    /\ role[p] = "none" /\ Participated(p)
    /\ Starts(r, Call("join", "insert", p, p))
    /\ UNCHANGED <<group, roll, account, kept>>
    /\ Pressed

Approve(r, a, p) ==
    /\ a \in account /\ role[a] = "admin" /\ p \in asking
    /\ Starts(r, Call("approve", "insert", a, p))
    /\ UNCHANGED <<group, roll, account, kept>>
    /\ Pressed

Decline(a, p) ==
    /\ a \in account /\ role[a] = "admin" /\ p \in asking
    /\ asking' = asking \ {p}
    /\ UNCHANGED <<role, barred, invited, roll, account, req, kept>>
    /\ Pressed

Accept(r, p) ==
    /\ p \in account /\ invited[p] = "open"
    /\ invited' = [invited EXCEPT ![p] = "answered"]
    /\ Starts(r, Call("accept", "insert", p, p))
    /\ UNCHANGED <<role, barred, asking, roll, account, kept>>
    /\ Pressed

Refuse(p) ==
    /\ p \in account /\ invited[p] = "open"
    /\ invited' = [invited EXCEPT ![p] = "answered"]
    /\ UNCHANGED <<role, barred, asking, roll, account, req, kept>>
    /\ Pressed

\* addMember: the row, unless there is one, and then the removal.
Insert(r) ==
    LET p == req[r].whom
    IN  /\ req[r].at = "insert"
        /\ role' = [role EXCEPT ![p] = IF role[p] = "none" THEN "member" ELSE role[p]]
        /\ Goes(r, "clear")
        /\ UNCHANGED <<barred, asking, invited, roll, account, kept, presses>>

Clear(r) ==
    /\ req[r].at = "clear"
    /\ barred' = barred \ {req[r].whom}
    /\ IF req[r].kind = "approve" THEN Goes(r, "resolve") ELSE Ends(r)
    /\ UNCHANGED <<role, asking, invited, roll, account, kept, presses>>

Resolve(r) ==
    /\ req[r].at = "resolve"
    /\ asking' = asking \ {req[r].whom}
    /\ Ends(r)
    /\ UNCHANGED <<role, barred, invited, roll, account, kept, presses>>

-----------------------------------------------------------------------------
(* Ways out of it.                                                             *)

Remove(r, a, p) ==
    /\ a \in account /\ role[a] = "admin" /\ role[p] = "member"
    /\ Starts(r, Call("remove", "delete", a, p))
    /\ UNCHANGED <<group, roll, account, kept>>
    /\ Pressed

Delete(r) ==
    /\ Is(r, "remove", "delete")
    /\ role' = [role EXCEPT ![req[r].whom] = "none"]
    /\ Goes(r, "bar")
    /\ UNCHANGED <<barred, asking, invited, roll, account, kept, presses>>

Bar(r) ==
    LET p == req[r].whom
    IN  /\ Is(r, "remove", "bar")
        /\ barred' = barred \cup {p}
        /\ req' = [q \in Reqs |-> IF q = r THEN Go(req[r], "unseat")
                                  ELSE IF TrustsIn(req[q], p) THEN Undone(req[q])
                                  ELSE req[q]]
        /\ UNCHANGED <<role, asking, invited, roll, account, kept, presses>>

Unseat(r) ==
    LET p == req[r].whom
    IN  /\ Is(r, "remove", "unseat")
        /\ seat' = IF grouped /\ seat[p] = "right" THEN [seat EXCEPT ![p] = "in"] ELSE seat
        /\ Ends(r)
        /\ UNCHANGED <<group, took, host, grouped, account, kept, presses>>

\* leaveGroup deletes the row and looks for an admin before it commits: another
\* leaving that has not committed either is still seen as there.
Leave(r, p) ==
    /\ p \in account
    /\ \E h \in Heirs({p}) : Starts(r, Call("leave", "commit", p, h))
    /\ UNCHANGED <<group, roll, account, kept>>
    /\ Pressed

CommitLeave(r) ==
    /\ Is(r, "leave", "commit")
    /\ role' = [p \in People |-> IF p = req[r].by THEN "none"
                                 ELSE IF p = req[r].whom /\ role[p] # "none" THEN "admin"
                                 ELSE role[p]]
    /\ Ends(r)
    /\ UNCHANGED <<barred, asking, invited, roll, account, kept, presses>>

HandOverGroup(r, a, p) ==
    /\ a \in account /\ a # p /\ role[a] = "admin" /\ role[p] # "none"
    /\ Starts(r, Call("handgroup", "commit", a, p))
    /\ UNCHANGED <<group, roll, account, kept>>
    /\ Pressed

CommitHandOverGroup(r) ==
    /\ Is(r, "handgroup", "commit")
    /\ role' = [p \in People |-> IF role[p] = "none" THEN "none"
                                 ELSE IF p = req[r].by THEN "member"
                                 ELSE IF p = req[r].whom THEN "admin"
                                 ELSE role[p]]
    /\ Ends(r)
    /\ UNCHANGED <<barred, asking, invited, roll, account, kept, presses>>

\* Mutant of Open: the group is shown and not mended.
OpenUnmended(p) == p \in account /\ role[p] = "member" /\ UNCHANGED vars

\* A member who does not run the group opens it: ensureAdmin mends it.
Open(p) ==
    /\ p \in account /\ role[p] = "member"
    /\ \E h \in Heirs({}) \ {Nobody} : role' = [role EXCEPT ![h] = "admin"]
    /\ UNCHANGED <<barred, asking, invited, roll, account, req, kept, presses>>

-----------------------------------------------------------------------------
(* The roll.                                                                   *)

Visit(p) ==
    /\ p \in account /\ InRoll(p)
    /\ seat[p] = "out" /\ seat' = [seat EXCEPT ![p] = "in"]
    /\ UNCHANGED <<group, took, host, grouped, account, req, kept>>
    /\ Pressed

\* Something said, or a photograph that is shown; and its taking back.
Contribute(p) ==
    /\ p \in account /\ InRoll(p)
    /\ p \notin took /\ took' = took \cup {p}
    /\ UNCHANGED <<group, seat, host, grouped, account, req, kept>>
    /\ Pressed

TakeBack(p) ==
    /\ took' = took \ {p} /\ took' # took
    /\ req' = Undoing({q \in Reqs : JoinsAs(req[q], p) /\ p # host})
    /\ UNCHANGED <<group, seat, host, grouped, account, kept>>
    /\ Pressed

\* Mutant of Upload: in by right for adding to a roll in a group, whether taken
\* out of the group or not.
UploadEarns(r, p) ==
    /\ p \in account /\ InRoll(p)
    /\ Starts(r, Call("upload", IF grouped THEN "admit" ELSE "record", p, p))
    /\ UNCHANGED <<group, roll, account, kept>>
    /\ Pressed

\* The presign reads whether they were taken out, then writes their row.
Upload(r, p) ==
    /\ p \in account /\ InRoll(p)
    /\ Starts(r, Call("upload", IF grouped /\ p \notin barred THEN "admit" ELSE "record", p, p))
    /\ UNCHANGED <<group, roll, account, kept>>
    /\ Pressed

Record(r) ==
    LET p == req[r].whom
    IN  /\ req[r].kind = "upload"
        /\ seat' = [seat EXCEPT ![p] = IF req[r].at = "admit" THEN "right"
                                       ELSE IF seat[p] = "out" THEN "in" ELSE seat[p]]
        /\ kept' = IF req[r].stale THEN kept \cup {p} ELSE kept
        /\ Ends(r)
        /\ UNCHANGED <<group, took, host, grouped, account, presses>>

LeaveEvent(p) ==
    /\ p \in account /\ p # host
    /\ seat[p] # "out" /\ seat' = [seat EXCEPT ![p] = "out"]
    /\ UNCHANGED <<group, took, host, grouped, account, req, kept>>
    /\ Pressed

RemoveFromEvent(a, p) ==
    /\ a \in account /\ Administers(a)
    /\ p # host /\ ~(grouped /\ role[p] # "none")
    /\ seat[p] # "out" /\ seat' = [seat EXCEPT ![p] = "out"]
    /\ UNCHANGED <<group, took, host, grouped, account, req, kept>>
    /\ Pressed

TakeOutOfGroup(a) ==
    /\ a \in account /\ Administers(a) /\ grouped
    /\ grouped' = FALSE
    /\ seat' = [p \in People |-> IF role[p] # "none" THEN "right" ELSE seat[p]]
    /\ req' = Undoing({q \in Reqs : req[q].kind = "join"})
    /\ UNCHANGED <<group, took, host, account, kept>>
    /\ Pressed

HandOverRoll(r, a, p) ==
    /\ a \in account /\ a # p /\ host = a
    /\ p \in account /\ seat[p] # "out"
    /\ Starts(r, Call("handroll", "commit", a, p))
    /\ UNCHANGED <<group, roll, account, kept>>
    /\ Pressed

\* The giver stays in, as a co-host: that stands as having taken part.
CommitHandOverRoll(r) ==
    LET a == req[r].by
    IN  /\ Is(r, "handroll", "commit")
        /\ host' = req[r].whom
        /\ seat' = [seat EXCEPT ![a] = IF seat[a] = "out" THEN "in" ELSE seat[a]]
        /\ took' = took \cup {a}
        /\ req' = [q \in Reqs |-> IF q = r THEN Idle
                                  ELSE IF \/ HandsOn(req[q])
                                          \/ a # host /\ JoinsAs(req[q], host)
                                       THEN Undone(req[q])
                                  ELSE req[q]]
        /\ UNCHANGED <<group, grouped, account, kept, presses>>

-----------------------------------------------------------------------------
(* deleteAccount: their rows go, and what they ran passes on, in a transaction  *)
(* that another leaving or closing does not see until it commits. What is       *)
(* written for them meanwhile goes with the rest, but for a membership they did *)
(* not have. The row in group_removal stays, and so do their photographs.       *)

\* A second closing of theirs waits for the first, and then finds nothing.
DeleteAccount(r, p) ==
    /\ p \in account
    /\ \A q \in Reqs : ~(req[q].kind = "close" /\ req[q].by = p)
    /\ \/ /\ role[p] # "none"
          /\ \E h \in Heirs({p}) :
               Starts(r, [Call("close", "depart", p, h) EXCEPT !.heirs = RollHeirs(p)])
       \/ /\ role[p] = "none"
          /\ Starts(r, [Call("close", "close", p, Nobody) EXCEPT !.heirs = RollHeirs(p)])
    /\ UNCHANGED <<group, roll, account, kept>>
    /\ Pressed

CommitDeleteAccount(r) ==
    LET p == req[r].by
    IN  /\ req[r].kind = "close"
        /\ account' = account \ {p}
        /\ role' = [q \in People |-> IF role[q] = "none" \/ req[r].at # "depart" THEN role[q]
                                     ELSE IF q = p THEN "none"
                                     ELSE IF q = req[r].whom THEN "admin"
                                     ELSE role[q]]
        /\ host' \in IF req[r].heirs = {} THEN {host} ELSE req[r].heirs
        /\ seat' = [seat EXCEPT ![p] = "out"]
        /\ asking' = asking \ {p}
        /\ invited' = [invited EXCEPT ![p] = "none"]
        /\ req' = [q \in Reqs |-> IF q = r THEN Idle
                                  ELSE IF \/ p \in {req[q].by, req[q].whom}
                                          \/ host' # host /\ HandsOn(req[q])
                                          \/ host' # host /\ JoinsAs(req[q], host)
                                       THEN Undone(req[q])
                                  ELSE req[q]]
        /\ UNCHANGED <<barred, took, grouped, kept, presses>>

\* A call dies where it stands; one that is a transaction leaves nothing.
Dies(r) ==
    /\ req[r] # Idle
    /\ kept' = IF Is(r, "remove", "unseat") THEN kept \cup {req[r].whom} ELSE kept
    /\ Ends(r)
    /\ UNCHANGED <<group, roll, account, presses>>

-----------------------------------------------------------------------------
Serve(r) ==
    \/ Insert(r) \/ Clear(r) \/ Resolve(r)
    \/ Delete(r) \/ Bar(r) \/ Unseat(r)
    \/ CommitLeave(r) \/ CommitHandOverGroup(r) \/ CommitHandOverRoll(r)
    \/ CommitDeleteAccount(r) \/ Record(r) \/ Dies(r)

Calling(r, p) ==
    \/ Join(r, p) \/ Accept(r, p) \/ Leave(r, p) \/ Upload(r, p) \/ DeleteAccount(r, p)
    \/ \E q \in People : \/ Approve(r, p, q) \/ Remove(r, p, q)
                         \/ HandOverGroup(r, p, q) \/ HandOverRoll(r, p, q)

Pressing(p) ==
    \/ AskToJoin(p) \/ Refuse(p) \/ Open(p)
    \/ Visit(p) \/ Contribute(p) \/ TakeBack(p) \/ LeaveEvent(p) \/ TakeOutOfGroup(p)
    \/ \E q \in People : Invite(p, q) \/ Decline(p, q) \/ RemoveFromEvent(p, q)

Next ==
    \/ \E r \in Reqs : Serve(r) \/ \E p \in People : Calling(r, p)
    \/ \E p \in People : Pressing(p)

\* Somebody in a group goes on opening it now and then.
Fairness == \A p \in People : WF_vars(Open(p))
Spec == Init /\ [][Next]_vars /\ Fairness
-----------------------------------------------------------------------------
\* Nobody comes to be a member but somebody with an account whom an admin's
\* invitation or approval lets in, or who by themselves took part in the group's
\* roll and has not been taken out; unless that was so when the call read it and
\* was undone before it wrote. (addMember, participatedInGroup)
LetIn(r, p) ==
    /\ req[r].at = "insert" /\ req[r].whom = p
    /\ \/ req[r].stale
       \/ p \in account /\ (req[r].kind = "join" => p \notin barred /\ TookPart(p))
NobodyWalksIn ==
    [][\A p \in People : role[p] = "none" /\ role'[p] # "none"
                           => \E r \in Reqs : LetIn(r, p)]_vars

\* Whoever an admin took out of the group is not in its roll by right any more,
\* once the removal is through: an upload does not earn it again. What a presign
\* wrote that had read before the removal, and a removal that died before its last
\* statement, are the exceptions. (removeMember, the uploads route)
RemovalTakesRight ==
    \A p \in barred \ kept :
      grouped /\ seat[p] = "right" => \E r \in Reqs : Is(r, "remove", "unseat") /\ req[r].whom = p

\* The roll changes hands only by its host, by handing it over or by closing their
\* account, and goes to somebody with an account as long as anybody in it has one;
\* unless a hand-over was overtaken by a closing or another hand-over, or the roll
\* is not, when a closing commits, as it found it. (handOverRoll, passOnRolls)
Overtaken ==
    \E r \in Reqs :
        /\ req'[r] = Idle
        /\ \/ Is(r, "handroll", "commit") /\ req[r].stale
           \/ req[r].kind = "close" /\ req[r].heirs # RollHeirs(req[r].by)
HandedOver == \E r \in Reqs : Is(r, "handroll", "commit") /\ req[r].by = host
RollIsPassedOn ==
    [][\/ Overtaken
       \/ /\ host' # host => HandedOver \/ host \notin account'
          /\ host \in account /\ host' \notin account' => \A p \in account' : seat[p] = "out"]_vars

\* A group with people in it does not stay without an admin: however the last one
\* went, one of those left opens it and somebody is made admin. (A closed account
\* that an approval put back as a member cannot open anything.) (ensureAdmin)
Run == Admins # {} \/ Members \cap account = {}
RoomIsMended == ~Run ~> Run

\* Nobody has to wait for that but after a race: a group comes to be without an
\* admin only when the heir that a leaving or a closing chose is none it would
\* choose as it commits, when who is handed the group has gone, by the removal of
\* somebody made admin after the call had looked, or by a way in to a group where
\* nobody had an account. (crownGroups, handOverGroup, removeMember, addMember)
Orphans(r) ==
    LET p == req[r].whom
    IN  /\ req'[r] # req[r]
        /\ \/ /\ Is(r, "leave", "commit") \/ Is(r, "close", "depart")
              /\ p \notin Heirs({req[r].by})
           \/ Is(r, "handgroup", "commit") /\ role[p] = "none"
           \/ Is(r, "remove", "delete") /\ role[p] = "admin"
           \/ req[r].at = "insert" /\ Members \cap account = {}
OnlyRacesOrphan == [][Run /\ ~Run' => \E r \in Reqs : Orphans(r)]_vars
=============================================================================

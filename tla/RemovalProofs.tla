--------------------------- MODULE RemovalProofs ----------------------------
(* The safety of Removal for any number of rows, contents, presses, reports    *)
(* and incidents, however they interleave.                                     *)
(*                                                                             *)
(* The argument rests on one fact: a row that has left "ready" never returns   *)
(* to it (Off is stable). IInv ties everything that is still to act on a row,  *)
(* the storage calls that are owed, the rows the purge has selected and the    *)
(* incidents, to rows that are Off, and every press to the answer it claimed.  *)
EXTENDS Removal, TLAPS

\* What the columns say of one another, and staff read what was uploaded.
RowsOK ==
    \A p \in Photos :
        /\ status[p] = "absent" => ~hiddenAt[p] /\ ~deletedAt[p] /\ p \notin taking
        /\ deletedAt[p] => Off(p)

\* A request is about a row that was uploaded, and hiding is about a request.
RequestsOK ==
    \A q \in Asked :
        /\ request[q] # NoRequest => status[request[q].photo] # "absent"
        /\ q \in hiding => request[q] # NoRequest

\* A press read a request; one that claimed it gave it the answer it carries.
PressesOK ==
    \A h \in Hosts :
        /\ host[h] # NoPress => request[host[h].of] # NoRequest
        /\ host[h].pc \in {"act", "dead"} =>
              request[host[h].of].status = host[h].answer

\* Renditions are dropped only of a row that is off.
OwedOK == \A e \in owed : e.do = "drop" => Off(e.photo)

\* A report that has quarantined its row goes on to open an incident.
ReportersOK ==
    \A s \in Reporters : reporter[s] # NoReport =>
        /\ status[reporter[s].photo] # "absent"
        /\ reporter[s].pc = "open" => Off(reporter[s].photo)

\* The purge has selected only rows that are off.
PurgeOK == \A p \in purging : Off(p)

\* An incident is about a row that is off.
IncidentsOK ==
    \A i \in Incidents : incident[i] # NoIncident => Off(incident[i].photo)

\* The purge has not selected a row whose incident came in time.
HoldsOK ==
    \A i \in Incidents : Holds(i) /\ i \notin late =>
        LET p == incident[i].photo IN
        /\ status[p] # "gone" /\ p \notin purging
        /\ Only(p) => Hash[p] \in originals

\* Kept by every step.
IInv ==
    /\ TypeOK /\ RowsOK /\ RequestsOK /\ PressesOK /\ OwedOK /\ ReportersOK
    /\ PurgeOK /\ IncidentsOK /\ HoldsOK /\ ActionedIsDown

\* A new row keeps IInv.
LEMMA CommitKeeps ==
    ASSUME IInv, NEW p \in Photos, Commit(p)
    PROVE  IInv'
<1>1. TypeOK'
  <2>1. Hash[p] \in Contents
    BY RemovalAssumption
  <2>2. status' \in [Photos -> Status]
    BY DEF IInv, TypeOK, Commit, Status
  <2>3. originals' \subseteq Contents /\ renditions' \subseteq Contents
    BY <2>1 DEF IInv, TypeOK, Commit
  <2> QED BY <2>2, <2>3 DEF IInv, TypeOK, Commit, selected
<1>2. RowsOK'
  BY RemovalAssumption
  DEF IInv, TypeOK, RowsOK, Commit, Live, selected, Exists, Answers, NoRequest,
      NoPress, NoReport, NoIncident, Off
<1>3. RequestsOK'
  BY RemovalAssumption
  DEF IInv, TypeOK, RequestsOK, Commit, Live, selected, Exists, Answers, NoRequest,
      NoPress, NoReport, NoIncident
<1>4. OwedOK'
  BY RemovalAssumption
  DEF IInv, TypeOK, OwedOK, Commit, Live, selected, Exists, Answers, NoRequest,
      NoPress, NoReport, NoIncident, Off
<1>5. ReportersOK'
  BY RemovalAssumption
  DEF IInv, TypeOK, ReportersOK, Commit, Live, selected, Exists, Answers, NoRequest,
      NoPress, NoReport, NoIncident, Off
<1>6. PurgeOK'
  BY RemovalAssumption
  DEF IInv, TypeOK, PurgeOK, Commit, Live, selected, Exists, Answers, NoRequest,
      NoPress, NoReport, NoIncident, Off
<1>7. IncidentsOK'
  BY RemovalAssumption
  DEF IInv, TypeOK, IncidentsOK, Commit, Live, selected, Exists, Answers, NoRequest,
      NoPress, NoReport, NoIncident, Off
<1>8. HoldsOK'
  BY RemovalAssumption
  DEF IInv, TypeOK, HoldsOK, Commit, Live, selected, Exists, Answers, NoRequest,
      NoPress, NoReport, NoIncident, Holds, Only
<1>9. ActionedIsDown'
  BY RemovalAssumption
  DEF IInv, TypeOK, ActionedIsDown, Commit, Live, selected, Exists, Answers, NoRequest,
      NoPress, NoReport, NoIncident, Off
<1>10. PressesOK'
  BY DEF IInv, PressesOK, NoPress, NoRequest, Commit, Live, selected, Exists
<1> QED BY <1>1, <1>2, <1>3, <1>4, <1>5, <1>6, <1>7, <1>8, <1>9, <1>10 DEF IInv

\* The uploader's delete keeps IInv.
LEMMA WithdrawKeeps ==
    ASSUME IInv, NEW p \in Photos, Withdraw(p)
    PROVE  IInv'
<1>1. TypeOK'
  BY RemovalAssumption
  DEF IInv, TypeOK, Withdraw, Exists, Removes, Owes, objects, selected, Status,
      Answers, NoRequest, NoPress, NoReport, Settled, NoIncident
<1>2. RowsOK'
  BY RemovalAssumption
  DEF IInv, TypeOK, RowsOK, Withdraw, Exists, Removes, Owes, objects, selected,
      Answers, NoRequest, NoPress, NoReport, NoIncident, Off
<1>3. RequestsOK'
  BY RemovalAssumption
  DEF IInv, TypeOK, RequestsOK, Withdraw, Exists, Removes, Owes, objects, selected,
      Answers, NoRequest, NoPress, NoReport, NoIncident
<1>4. OwedOK'
  BY RemovalAssumption
  DEF IInv, TypeOK, OwedOK, Withdraw, Exists, Removes, Owes, objects, selected,
      Answers, NoRequest, NoPress, NoReport, NoIncident, Off
<1>5. ReportersOK'
  BY RemovalAssumption
  DEF IInv, TypeOK, ReportersOK, Withdraw, Exists, Removes, Owes, objects, selected,
      Answers, NoRequest, NoPress, NoReport, NoIncident, Off
<1>6. PurgeOK'
  BY RemovalAssumption
  DEF IInv, TypeOK, PurgeOK, Withdraw, Exists, Removes, Owes, objects, selected,
      Answers, NoRequest, NoPress, NoReport, NoIncident, Off
<1>7. IncidentsOK'
  BY RemovalAssumption
  DEF IInv, TypeOK, IncidentsOK, Withdraw, Exists, Removes, Owes, objects, selected,
      Answers, NoRequest, NoPress, NoReport, NoIncident, Off
<1>8. HoldsOK'
  BY RemovalAssumption
  DEF IInv, TypeOK, HoldsOK, Withdraw, Exists, Removes, Owes, objects, selected,
      Answers, NoRequest, NoPress, NoReport, NoIncident, Holds, Only
<1>9. ActionedIsDown'
  BY RemovalAssumption
  DEF IInv, TypeOK, ActionedIsDown, Withdraw, Exists, Removes, Owes, objects, selected,
      Answers, NoRequest, NoPress, NoReport, NoIncident, Off
<1>10. PressesOK'
  BY DEF IInv, PressesOK, NoPress, NoRequest, Withdraw, Exists, Removes, Owes,
         objects, selected
<1> QED BY <1>1, <1>2, <1>3, <1>4, <1>5, <1>6, <1>7, <1>8, <1>9, <1>10 DEF IInv

\* What staff read keeps IInv.
LEMMA StaffReadsKeeps ==
    ASSUME IInv, NEW p \in Photos, StaffReads(p)
    PROVE  IInv'
<1>1. TypeOK'
  BY RemovalAssumption DEF IInv, TypeOK, StaffReads, row, objects
<1>2. RowsOK'
  BY DEF IInv, RowsOK, TypeOK, StaffReads, row, Off
<1>3. (RequestsOK /\ PressesOK /\ OwedOK /\ ReportersOK /\ PurgeOK /\ IncidentsOK /\
      HoldsOK /\ ActionedIsDown)'
  BY DEF IInv, RequestsOK, PressesOK, OwedOK, ReportersOK, PurgeOK, IncidentsOK,
         HoldsOK, ActionedIsDown, Off, Only, Holds, StaffReads, row, objects
<1> QED BY <1>1, <1>2, <1>3 DEF IInv

\* A transaction of staff that dies keeps IInv.
LEMMA StaffDiesKeeps ==
    ASSUME IInv, NEW p \in Photos, StaffDies(p)
    PROVE  IInv'
<1>1. TypeOK'
  <2>1. revoked' \subseteq Contents
    BY RemovalAssumption DEF IInv, TypeOK, StaffDies, RevokePhotoLinks, Try
  <2> QED BY <2>1 DEF IInv, TypeOK, StaffDies, RevokePhotoLinks, row
<1>2. RowsOK'
  BY DEF IInv, RowsOK, TypeOK, StaffDies, row, Off
<1>3. (RequestsOK /\ PressesOK /\ OwedOK /\ ReportersOK /\ PurgeOK /\ IncidentsOK /\
      HoldsOK /\ ActionedIsDown)'
  BY DEF IInv, RequestsOK, PressesOK, OwedOK, ReportersOK, PurgeOK, IncidentsOK,
         HoldsOK, ActionedIsDown, Off, Only, Holds, StaffDies, row
<1> QED BY <1>1, <1>2, <1>3 DEF IInv

\* A take-down by staff keeps IInv.
LEMMA TakeDownKeeps ==
    ASSUME IInv, NEW p \in Photos, TakeDown(p)
    PROVE  IInv'
<1>1. TypeOK'
  BY RemovalAssumption
  DEF IInv, TypeOK, TakeDown, Exists, Removes, Owes, row, objects, Status,
      Answers, NoRequest, NoPress, NoReport, Settled, NoIncident
<1>2. RowsOK'
  BY RemovalAssumption
  DEF IInv, TypeOK, RowsOK, TakeDown, Exists, Removes, Owes, row, objects,
      Answers, NoRequest, NoPress, NoReport, NoIncident, Off
<1>3. RequestsOK'
  BY RemovalAssumption
  DEF IInv, TypeOK, RequestsOK, TakeDown, Exists, Removes, Owes, row, objects,
      Answers, NoRequest, NoPress, NoReport, NoIncident
<1>4. OwedOK'
  BY RemovalAssumption
  DEF IInv, TypeOK, OwedOK, RowsOK, Status, TakeDown, Exists, Removes, Owes, row,
      objects, Answers, NoRequest, NoPress, NoReport, NoIncident, Off
<1>5. ReportersOK'
  BY RemovalAssumption
  DEF IInv, TypeOK, ReportersOK, TakeDown, Exists, Removes, Owes, row, objects,
      Answers, NoRequest, NoPress, NoReport, NoIncident, Off
<1>6. PurgeOK'
  BY RemovalAssumption
  DEF IInv, TypeOK, PurgeOK, TakeDown, Exists, Removes, Owes, row, objects,
      Answers, NoRequest, NoPress, NoReport, NoIncident, Off
<1>7. IncidentsOK'
  BY RemovalAssumption
  DEF IInv, TypeOK, IncidentsOK, TakeDown, Exists, Removes, Owes, row, objects,
      Answers, NoRequest, NoPress, NoReport, NoIncident, Off
<1>8. HoldsOK'
  BY RemovalAssumption
  DEF IInv, TypeOK, HoldsOK, TakeDown, Exists, Removes, Owes, row, objects,
      Answers, NoRequest, NoPress, NoReport, NoIncident, Holds, Only
<1>9. ActionedIsDown'
  BY RemovalAssumption
  DEF IInv, TypeOK, ActionedIsDown, Status, TakeDown, Exists, Removes, Owes, row,
      objects, Answers, NoRequest, NoPress, NoReport, NoIncident, Off
<1>10. PressesOK'
  BY DEF IInv, PressesOK, NoPress, NoRequest, TakeDown, Exists, Removes, Owes,
         row, objects
<1> QED BY <1>1, <1>2, <1>3, <1>4, <1>5, <1>6, <1>7, <1>8, <1>9, <1>10 DEF IInv

\* A storage call keeps IInv.
LEMMA StorageKeeps ==
    ASSUME IInv, NEW e \in owed, Storage(e)
    PROVE  IInv'
<1>1. TypeOK'
  BY RemovalAssumption
  DEF IInv, TypeOK, Storage, DropDerivatives, RevokePhotoLinks, RestorePhotoLinks,
      row, selected, Try, Status, Answers, NoRequest, NoPress, NoReport, Settled,
      NoIncident
<1>2. OwedOK'
  BY RemovalAssumption
  DEF IInv, TypeOK, OwedOK, Storage, DropDerivatives, RevokePhotoLinks,
      RestorePhotoLinks, row, selected, Try, Answers, NoRequest, NoPress, NoReport,
      NoIncident, Off
<1>3. (RowsOK /\ RequestsOK /\ PressesOK /\ ReportersOK /\ PurgeOK /\ IncidentsOK /\ HoldsOK /\
      ActionedIsDown)'
  BY DEF IInv, RowsOK, RequestsOK, PressesOK, ReportersOK, PurgeOK, IncidentsOK,
         HoldsOK, ActionedIsDown, Off, NoRequest, NoPress, NoReport, NoIncident,
         Holds, Only, Storage, DropDerivatives, RevokePhotoLinks,
         RestorePhotoLinks, row, selected, Try
<1> QED BY <1>1, <1>2, <1>3 DEF IInv

\* A removal request keeps IInv.
LEMMA AskKeeps ==
    ASSUME IInv, NEW q \in Asked, NEW p \in Photos, Ask(q, p)
    PROVE  IInv'
<1>1. TypeOK'
  BY RemovalAssumption
  DEF IInv, TypeOK, Ask, NoRequest, Exists, row, objects, selected, Status, Answers,
      NoPress, NoReport, Settled, NoIncident
<1>2. RequestsOK'
  BY RemovalAssumption
  DEF IInv, TypeOK, RequestsOK, Ask, NoRequest, Exists, row, objects, selected,
      Answers, NoPress, NoReport, NoIncident
<1>3. PressesOK'
  BY RemovalAssumption
  DEF IInv, TypeOK, PressesOK, Ask, NoRequest, Exists, row, objects, selected, Answers,
      NoPress, NoReport, NoIncident
<1>4. ActionedIsDown'
  BY RemovalAssumption
  DEF IInv, TypeOK, ActionedIsDown, Ask, NoRequest, Exists, row, objects, selected,
      Answers, NoPress, NoReport, NoIncident, Off
<1>5. (RowsOK /\ OwedOK /\ ReportersOK /\ PurgeOK /\ IncidentsOK /\ HoldsOK)'
  BY DEF IInv, RowsOK, OwedOK, ReportersOK, PurgeOK, IncidentsOK, HoldsOK, Off,
         NoReport, NoIncident, Holds, Only, Ask, NoRequest, Exists, row, objects,
         selected
<1> QED BY <1>1, <1>2, <1>3, <1>4, <1>5 DEF IInv

\* A host's press keeps IInv.
LEMMA HostReadsKeeps ==
    ASSUME IInv, NEW h \in Hosts, NEW q \in Asked, NEW a \in Answers, HostReads(h, q, a)
    PROVE  IInv'
<1>1. TypeOK'
  BY RemovalAssumption
  DEF IInv, TypeOK, HostReads, NoPress, Open, row, objects, selected, Exists, Status,
      Answers, NoRequest, NoReport, Settled, NoIncident
<1>2. PressesOK'
  BY RemovalAssumption
  DEF IInv, TypeOK, PressesOK, HostReads, NoPress, Open, row, objects, selected,
      Exists, Answers, NoRequest, NoReport, NoIncident
<1>3. ActionedIsDown'
  BY RemovalAssumption
  DEF IInv, TypeOK, ActionedIsDown, HostReads, NoPress, Open, row, objects, selected,
      Exists, Answers, NoRequest, NoReport, NoIncident, Off
<1>4. (RowsOK /\ RequestsOK /\ OwedOK /\ ReportersOK /\ PurgeOK /\ IncidentsOK /\ HoldsOK)'
  BY DEF IInv, RowsOK, RequestsOK, OwedOK, ReportersOK, PurgeOK, IncidentsOK,
         HoldsOK, Off, NoRequest, NoReport, NoIncident, Holds, Only,
         HostReads, NoPress, Open, row, objects, selected, Exists
<1> QED BY <1>1, <1>2, <1>3, <1>4 DEF IInv

\* The claim keeps IInv.
LEMMA HostClaimsKeeps ==
    ASSUME IInv, NEW h \in Hosts, HostClaims(h)
    PROVE  IInv'
<1>1. TypeOK'
  BY RemovalAssumption
  DEF IInv, TypeOK, HostClaims, Open, NoPress, row, objects, selected, Exists, Status,
      Answers, NoRequest, NoReport, Settled, NoIncident
<1>2. RequestsOK'
  BY RemovalAssumption
  DEF IInv, TypeOK, RequestsOK, HostClaims, Open, NoPress, row, objects, selected,
      Exists, Answers, NoRequest, NoReport, NoIncident
<1>3. PressesOK'
  BY RemovalAssumption
  DEF IInv, TypeOK, PressesOK, HostClaims, Open, NoPress, row, objects, selected,
      Exists, Answers, NoRequest, NoReport, NoIncident
<1>4. ActionedIsDown'
  BY RemovalAssumption
  DEF IInv, TypeOK, ActionedIsDown, HostClaims, Open, NoPress, row, objects, selected,
      Exists, Answers, NoRequest, NoReport, NoIncident, Off
<1>5. (RowsOK /\ OwedOK /\ ReportersOK /\ PurgeOK /\ IncidentsOK /\ HoldsOK)'
  BY DEF IInv, RowsOK, OwedOK, ReportersOK, PurgeOK, IncidentsOK, HoldsOK, Off,
         NoReport, NoIncident, Holds, Only, HostClaims, Open, NoPress, row, objects,
         selected, Exists
<1> QED BY <1>1, <1>2, <1>3, <1>4, <1>5 DEF IInv

\* The host's answer keeps IInv.
LEMMA HostActsKeeps ==
    ASSUME IInv, NEW h \in Hosts, HostActs(h)
    PROVE  IInv'
<1>1. TypeOK'
  <2>1. request[host[h].of].photo \in Photos /\ host[h].of \in Asked
    BY DEF IInv, TypeOK, PressesOK, HostActs, NoPress, NoRequest
  <2>2. PICK p \in Photos : p = request[host[h].of].photo
    BY <2>1
  <2>3. /\ status' \in [Photos -> Status] /\ hiddenAt' \in [Photos -> BOOLEAN]
        /\ deletedAt' \in [Photos -> BOOLEAN] /\ ripe' \in [Photos -> BOOLEAN]
    BY <2>2 DEF IInv, TypeOK, HostActs, Removes, Status, row
  <2>4. owed' \subseteq [do : {"drop", "revoke", "restore"}, photo : Photos]
    BY <2>2 DEF IInv, TypeOK, HostActs, Owes
  <2>5. host' \in [Hosts -> [pc : {"claim", "act", "dead"}, of : Asked, answer : Answers]
                              \cup {NoPress}]
    BY DEF IInv, TypeOK, HostActs
  <2> QED BY <2>3, <2>4, <2>5 DEF IInv, TypeOK, HostActs, objects, selected
<1>2. RowsOK'
  BY RemovalAssumption
  DEF IInv, TypeOK, RowsOK, HostActs, Exists, Removes, row, Owes, NoPress, objects,
      selected, Answers, NoRequest, NoReport, NoIncident, Off
<1>3. RequestsOK'
  BY RemovalAssumption
  DEF IInv, TypeOK, RequestsOK, HostActs, Exists, Removes, row, Owes, NoPress,
      objects, selected, Answers, NoRequest, NoReport, NoIncident
<1>4. PressesOK'
  BY RemovalAssumption
  DEF IInv, TypeOK, PressesOK, HostActs, Exists, Removes, row, Owes, NoPress,
      objects, selected, Answers, NoRequest, NoReport, NoIncident
<1>5. OwedOK'
  BY RemovalAssumption
  DEF IInv, TypeOK, OwedOK, RequestsOK, PressesOK, HostActs, Exists, Removes, row,
      Owes, NoPress, objects, selected, Status, Answers, NoRequest, NoReport, Settled,
      NoIncident, Off
<1>6. ReportersOK'
  BY RemovalAssumption
  DEF IInv, TypeOK, ReportersOK, HostActs, Exists, Removes, row, Owes, NoPress,
      objects, selected, Answers, NoRequest, NoReport, NoIncident, Off
<1>7. PurgeOK'
  BY RemovalAssumption
  DEF IInv, TypeOK, PurgeOK, HostActs, Exists, Removes, row, Owes, NoPress,
      objects, selected, Answers, NoRequest, NoReport, NoIncident, Off
<1>8. IncidentsOK'
  BY RemovalAssumption
  DEF IInv, TypeOK, IncidentsOK, HostActs, Exists, Removes, row, Owes, NoPress,
      objects, selected, Answers, NoRequest, NoReport, NoIncident, Off
<1>9. HoldsOK'
  BY RemovalAssumption
  DEF IInv, TypeOK, HoldsOK, HostActs, Exists, Removes, row, Owes, NoPress,
      objects, selected, Answers, NoRequest, NoReport, NoIncident, Holds, Only
<1>10. ActionedIsDown'
  BY RemovalAssumption
  DEF IInv, TypeOK, ActionedIsDown, PressesOK, RequestsOK, RowsOK, HostActs,
      Exists, Removes, row, Owes, NoPress, objects, selected, Status, Answers,
      NoRequest, NoReport, Settled, NoIncident, Off
<1> QED BY <1>1, <1>2, <1>3, <1>4, <1>5, <1>6, <1>7, <1>8, <1>9, <1>10 DEF IInv

\* A press that dies keeps IInv.
LEMMA HostDiesKeeps ==
    ASSUME IInv, NEW h \in Hosts, HostDies(h)
    PROVE  IInv'
<1>1. TypeOK'
  BY RemovalAssumption
  DEF IInv, TypeOK, HostDies, NoPress, row, objects, selected, Status, Answers,
      NoRequest, NoReport, Settled, NoIncident
<1>2. PressesOK'
  BY RemovalAssumption
  DEF IInv, TypeOK, PressesOK, HostDies, NoPress, row, objects, selected, Answers,
      NoRequest, NoReport, NoIncident
<1>3. ActionedIsDown'
  BY RemovalAssumption
  DEF IInv, TypeOK, ActionedIsDown, HostDies, NoPress, row, objects, selected, Answers,
      NoRequest, NoReport, NoIncident, Off
<1>4. (RowsOK /\ RequestsOK /\ OwedOK /\ ReportersOK /\ PurgeOK /\ IncidentsOK /\ HoldsOK)'
  BY DEF IInv, RowsOK, RequestsOK, OwedOK, ReportersOK, PurgeOK, IncidentsOK,
         HoldsOK, Off, NoRequest, NoReport, NoIncident, Holds, Only,
         HostDies, NoPress, row, objects, selected
<1> QED BY <1>1, <1>2, <1>3, <1>4 DEF IInv

\* The auto-hide job's selection keeps IInv.
LEMMA AutoHideSelectsKeeps ==
    ASSUME IInv, AutoHideSelects
    PROVE  IInv'
<1>1. TypeOK'
  BY RemovalAssumption
  DEF IInv, TypeOK, AutoHideSelects, Open, row, objects, Exists, Status, Answers,
      NoRequest, NoPress, NoReport, Settled, NoIncident
<1>2. RequestsOK'
  BY RemovalAssumption
  DEF IInv, TypeOK, RequestsOK, AutoHideSelects, Open, row, objects, Exists,
      Answers, NoRequest, NoPress, NoReport, NoIncident
<1>3. (RowsOK /\ PressesOK /\ OwedOK /\ ReportersOK /\ PurgeOK /\ IncidentsOK /\ HoldsOK /\
      ActionedIsDown)'
  BY DEF IInv, RowsOK, PressesOK, OwedOK, ReportersOK, PurgeOK, IncidentsOK,
         HoldsOK, ActionedIsDown, Off, NoPress, NoRequest, NoReport,
         NoIncident, Holds, Only, AutoHideSelects, Open, row, objects, Exists
<1> QED BY <1>1, <1>2, <1>3 DEF IInv

\* Hiding keeps IInv.
LEMMA AutoHideKeeps ==
    ASSUME IInv, NEW q \in Asked, AutoHide(q)
    PROVE  IInv'
<1>1. TypeOK'
  <2>1. PICK p \in Photos : p = request[q].photo
    BY DEF IInv, TypeOK, RequestsOK, AutoHide, NoRequest
  <2>2. hiddenAt' \in [Photos -> BOOLEAN]
    BY <2>1 DEF IInv, TypeOK, AutoHide
  <2>3. owed' \subseteq [do : {"drop", "revoke", "restore"}, photo : Photos]
    BY <2>1 DEF IInv, TypeOK, AutoHide, Owes
  <2>4. hiding' \subseteq Asked
    BY DEF IInv, TypeOK, AutoHide
  <2> QED BY <2>2, <2>3, <2>4 DEF IInv, TypeOK, AutoHide, objects
<1>2. RowsOK'
  BY RemovalAssumption
  DEF IInv, TypeOK, RowsOK, AutoHide, Exists, Owes, objects, Answers, NoRequest,
      NoPress, NoReport, NoIncident, Off
<1>3. RequestsOK'
  BY RemovalAssumption
  DEF IInv, TypeOK, RequestsOK, AutoHide, Exists, Owes, objects, Answers,
      NoRequest, NoPress, NoReport, NoIncident
<1>4. OwedOK'
  BY RemovalAssumption
  DEF IInv, TypeOK, OwedOK, AutoHide, Exists, Owes, objects, Answers, NoRequest,
      NoPress, NoReport, NoIncident, Off
<1>5. (PressesOK /\ ReportersOK /\ PurgeOK /\ IncidentsOK /\ HoldsOK /\ ActionedIsDown)'
  BY DEF IInv, PressesOK, ReportersOK, PurgeOK, IncidentsOK, HoldsOK, ActionedIsDown,
         NoPress, NoRequest, NoReport, Off, NoIncident, Holds, Only, AutoHide, Exists,
         Owes, objects
<1> QED BY <1>1, <1>2, <1>3, <1>4, <1>5 DEF IInv

\* A child-safety report keeps IInv.
LEMMA ReportKeeps ==
    ASSUME IInv, NEW s \in Reporters, NEW p \in Photos, Report(s, p)
    PROVE  IInv'
<1>1. TypeOK'
  BY RemovalAssumption
  DEF IInv, TypeOK, Report, NoReport, Exists, row, objects, selected, Status, Answers,
      NoRequest, NoPress, Settled, NoIncident
<1>2. ReportersOK'
  BY RemovalAssumption
  DEF IInv, TypeOK, ReportersOK, Report, NoReport, Exists, row, objects, selected,
      Answers, NoRequest, NoPress, NoIncident, Off
<1>3. (RowsOK /\ RequestsOK /\ PressesOK /\ OwedOK /\ PurgeOK /\ IncidentsOK /\ HoldsOK /\
      ActionedIsDown)'
  BY DEF IInv, RowsOK, RequestsOK, PressesOK, OwedOK, PurgeOK, IncidentsOK,
         HoldsOK, ActionedIsDown, Off, NoRequest, NoPress, NoIncident,
         Holds, Only, Report, NoReport, Exists, row, objects, selected
<1> QED BY <1>1, <1>2, <1>3 DEF IInv

\* The quarantine keeps IInv.
LEMMA QuarantineKeeps ==
    ASSUME IInv, NEW s \in Reporters, Quarantine(s)
    PROVE  IInv'
<1>1. TypeOK'
  <2>1. PICK p \in Photos : p = reporter[s].photo
    BY DEF IInv, TypeOK, Quarantine, NoReport
  <2>2. status' \in [Photos -> Status] /\ hiddenAt' \in [Photos -> BOOLEAN]
    BY <2>1 DEF IInv, TypeOK, Quarantine, Quarantines, Status, row
  <2>3. deletedAt' = deletedAt /\ ripe' = ripe
    BY DEF Quarantine, Quarantines, row
  <2>4. reporter' \in [Reporters -> [pc : {"hide", "open"}, photo : Photos]
                                      \cup {NoReport}]
    BY <2>1 DEF IInv, TypeOK, Quarantine
  <2> QED BY <2>2, <2>3, <2>4 DEF IInv, TypeOK, Quarantine, objects, selected
<1>2. RowsOK'
  BY RemovalAssumption
  DEF IInv, TypeOK, RowsOK, Quarantine, Exists, Quarantines, row, objects, selected,
      Answers, NoRequest, NoPress, NoReport, NoIncident, Off
<1>3. RequestsOK'
  BY RemovalAssumption
  DEF IInv, TypeOK, RequestsOK, Quarantine, Exists, Quarantines, row, objects,
      selected, Answers, NoRequest, NoPress, NoReport, NoIncident
<1>4. OwedOK'
  BY RemovalAssumption
  DEF IInv, TypeOK, OwedOK, Quarantine, Exists, Quarantines, row, objects, selected,
      Answers, NoRequest, NoPress, NoReport, NoIncident, Off
<1>5. ReportersOK'
  BY RemovalAssumption
  DEF IInv, TypeOK, ReportersOK, Quarantine, Exists, Quarantines, row, objects,
      selected, Answers, NoRequest, NoPress, NoReport, NoIncident, Off
<1>6. PurgeOK'
  BY RemovalAssumption
  DEF IInv, TypeOK, PurgeOK, Quarantine, Exists, Quarantines, row, objects, selected,
      Answers, NoRequest, NoPress, NoReport, NoIncident, Off
<1>7. IncidentsOK'
  BY RemovalAssumption
  DEF IInv, TypeOK, IncidentsOK, Quarantine, Exists, Quarantines, row, objects,
      selected, Answers, NoRequest, NoPress, NoReport, NoIncident, Off
<1>8. HoldsOK'
  BY RemovalAssumption
  DEF IInv, TypeOK, HoldsOK, Quarantine, Exists, Quarantines, row, objects, selected,
      Answers, NoRequest, NoPress, NoReport, NoIncident, Holds, Only
<1>9. ActionedIsDown'
  BY RemovalAssumption
  DEF IInv, TypeOK, ActionedIsDown, Quarantine, Exists, Quarantines, row, objects,
      selected, Answers, NoRequest, NoPress, NoReport, NoIncident, Off
<1>10. PressesOK'
  BY DEF IInv, PressesOK, NoPress, NoRequest, Quarantine, Exists, Quarantines, row,
         objects, selected
<1> QED BY <1>1, <1>2, <1>3, <1>4, <1>5, <1>6, <1>7, <1>8, <1>9, <1>10 DEF IInv

\* The incident keeps IInv.
LEMMA OpenIncidentKeeps ==
    ASSUME IInv, NEW s \in Reporters, NEW i \in Incidents, OpenIncident(s, i)
    PROVE  IInv'
<1>1. TypeOK'
  BY RemovalAssumption
  DEF IInv, TypeOK, RowsOK, RequestsOK, PressesOK, OwedOK, ReportersOK, PurgeOK,
      IncidentsOK, HoldsOK, ActionedIsDown, OpenIncident,
      RevokePhotoLinks, Exists, Opens, NoReport, row, selected, Try, NoIncident,
      Status, Answers, NoRequest, NoPress, Settled, Off, Holds, Only
<1>2. ReportersOK'
  BY RemovalAssumption
  DEF IInv, TypeOK, ReportersOK, OpenIncident, RevokePhotoLinks, Exists, Opens,
      NoReport, row, selected, Try, NoIncident, Answers, NoRequest, NoPress, Off
<1>3. IncidentsOK'
  BY RemovalAssumption
  DEF IInv, TypeOK, IncidentsOK, ReportersOK, RowsOK, RequestsOK, PressesOK,
      OwedOK, PurgeOK, HoldsOK, ActionedIsDown, OpenIncident,
      RevokePhotoLinks, Exists, Opens, NoReport, row, selected, Try, NoIncident,
      Status, Answers, NoRequest, NoPress, Settled, Off, Holds, Only
<1>4. HoldsOK'
  BY RemovalAssumption
  DEF IInv, TypeOK, HoldsOK, PurgeOK, IncidentsOK, ReportersOK, RowsOK, RequestsOK,
      PressesOK, OwedOK, ActionedIsDown, OpenIncident, RevokePhotoLinks,
      Exists, Opens, NoReport, row, selected, Try, NoIncident, Status, Answers,
      NoRequest, NoPress, Settled, Holds, Only, Off
<1>5. (RowsOK /\ RequestsOK /\ PressesOK /\ OwedOK /\ PurgeOK /\ ActionedIsDown)'
  BY DEF IInv, RowsOK, RequestsOK, PressesOK, OwedOK, PurgeOK, ActionedIsDown, Off,
         NoRequest, NoPress, Only, OpenIncident, RevokePhotoLinks, Exists, Opens,
         NoReport, row, selected, Try, NoIncident
<1> QED BY <1>1, <1>2, <1>3, <1>4, <1>5 DEF IInv

\* A report that dies keeps IInv.
LEMMA ReporterDiesKeeps ==
    ASSUME IInv, NEW s \in Reporters, ReporterDies(s)
    PROVE  IInv'
<1>1. TypeOK'
  BY RemovalAssumption
  DEF IInv, TypeOK, ReporterDies, NoReport, row, objects, selected, Status, Answers,
      NoRequest, NoPress, Settled, NoIncident
<1>2. ReportersOK'
  BY RemovalAssumption
  DEF IInv, TypeOK, ReportersOK, ReporterDies, NoReport, row, objects, selected,
      Answers, NoRequest, NoPress, NoIncident, Off
<1>3. (RowsOK /\ RequestsOK /\ PressesOK /\ OwedOK /\ PurgeOK /\ IncidentsOK /\ HoldsOK /\
      ActionedIsDown)'
  BY DEF IInv, RowsOK, RequestsOK, PressesOK, OwedOK, PurgeOK, IncidentsOK,
         HoldsOK, ActionedIsDown, Off, NoRequest, NoPress, NoIncident,
         Holds, Only, ReporterDies, NoReport, row, objects, selected
<1> QED BY <1>1, <1>2, <1>3 DEF IInv

\* An escalated flag keeps IInv.
LEMMA EscalateKeeps ==
    ASSUME IInv, NEW p \in Photos, NEW i \in Incidents, Escalate(p, i)
    PROVE  IInv'
<1>1. TypeOK'
  <2>1. Hash[p] \in Contents
    BY RemovalAssumption
  <2>2. status' \in [Photos -> Status] /\ hiddenAt' \in [Photos -> BOOLEAN]
    BY DEF IInv, TypeOK, Escalate, Exists, row, Quarantines, Status
  <2>3. revoked' \subseteq Contents
    BY <2>1 DEF IInv, TypeOK, Escalate, RevokePhotoLinks, Try
  <2>4. /\ incident' \in [Incidents -> [photo : Photos, status : Settled] \cup {NoIncident}]
        /\ late' \subseteq Incidents
    BY DEF IInv, TypeOK, Escalate, Opens, Settled
  <2> QED
    BY <2>2, <2>3, <2>4
    DEF IInv, TypeOK, Escalate, Exists, row, Quarantines, RevokePhotoLinks
<1>2. RowsOK'
  BY RemovalAssumption
  DEF IInv, TypeOK, RowsOK, Escalate, Exists, row, Quarantines, RevokePhotoLinks, Opens,
      Try, NoIncident, Answers, NoRequest, NoPress, NoReport, Off
<1>3. RequestsOK'
  BY RemovalAssumption
  DEF IInv, TypeOK, RequestsOK, Escalate, Exists, row, Quarantines, RevokePhotoLinks,
      Opens, selected, Try, NoIncident, Answers, NoRequest, NoPress, NoReport
<1>4. OwedOK'
  BY RemovalAssumption
  DEF IInv, TypeOK, OwedOK, Escalate, Exists, row, Quarantines, RevokePhotoLinks, Opens,
      Try, NoIncident, Answers, NoRequest, NoPress, NoReport, Off
<1>5. ReportersOK'
  BY RemovalAssumption
  DEF IInv, TypeOK, ReportersOK, Escalate, Exists, row, Quarantines, RevokePhotoLinks,
      Opens, selected, Try, NoIncident, Answers, NoRequest, NoPress, NoReport, Off
<1>6. PurgeOK'
  BY RemovalAssumption
  DEF IInv, TypeOK, PurgeOK, Escalate, Exists, row, Quarantines, RevokePhotoLinks,
      Opens, Try, NoIncident, Answers, NoRequest, NoPress, NoReport, Off
<1>7. IncidentsOK'
  BY RemovalAssumption
  DEF IInv, TypeOK, IncidentsOK, Escalate, Exists, row, Quarantines, RevokePhotoLinks,
      Opens, selected, Try, NoIncident, Answers, NoRequest, NoPress, NoReport, Off
<1>8. HoldsOK'
  BY RemovalAssumption
  DEF IInv, TypeOK, HoldsOK, PurgeOK, IncidentsOK, ReportersOK, RowsOK, RequestsOK,
      PressesOK, OwedOK, ActionedIsDown, Escalate, Exists, row, Quarantines,
      RevokePhotoLinks, Opens, Try, NoIncident, Status, Answers, NoRequest,
      NoPress, NoReport, Settled, Holds, Only, Off
<1>9. ActionedIsDown'
  BY RemovalAssumption
  DEF IInv, TypeOK, ActionedIsDown, Escalate, Exists, row, Quarantines,
      RevokePhotoLinks, Opens, selected, Try, NoIncident, Answers, NoRequest, NoPress,
      NoReport, Off
<1>10. PressesOK'
  BY DEF IInv, PressesOK, NoPress, NoRequest, Escalate, Exists, row, Quarantines,
         RevokePhotoLinks, Opens, Try, NoIncident
<1> QED BY <1>1, <1>2, <1>3, <1>4, <1>5, <1>6, <1>7, <1>8, <1>9, <1>10 DEF IInv

\* Filing keeps IInv.
LEMMA FileIncidentKeeps ==
    ASSUME IInv, NEW i \in Incidents, FileIncident(i)
    PROVE  IInv'
<1>1. TypeOK'
  BY RemovalAssumption
  DEF IInv, TypeOK, FileIncident, Settles, row, objects, selected, Status, Answers,
      NoRequest, NoPress, NoReport, Settled, NoIncident
<1>2. IncidentsOK'
  BY RemovalAssumption
  DEF IInv, TypeOK, IncidentsOK, ReportersOK, RowsOK, RequestsOK, PressesOK,
      OwedOK, PurgeOK, HoldsOK, ActionedIsDown, FileIncident, Settles,
      row, objects, selected, Status, Answers, NoRequest, NoPress, NoReport, Settled,
      NoIncident, Off, Holds, Only
<1>3. HoldsOK'
  BY RemovalAssumption
  DEF IInv, TypeOK, HoldsOK, FileIncident, Settles, row, objects, selected, Answers,
      NoRequest, NoPress, NoReport, NoIncident, Holds, Only
<1>4. (RowsOK /\ RequestsOK /\ PressesOK /\ OwedOK /\ ReportersOK /\ PurgeOK /\
      ActionedIsDown)'
  BY DEF IInv, RowsOK, RequestsOK, PressesOK, OwedOK, ReportersOK, PurgeOK,
         ActionedIsDown, Off, NoRequest, NoPress, NoReport, Only,
         FileIncident, Settles, row, objects, selected
<1> QED BY <1>1, <1>2, <1>3, <1>4 DEF IInv

\* A release keeps IInv.
LEMMA ReleaseIncidentKeeps ==
    ASSUME IInv, NEW i \in Incidents, ReleaseIncident(i)
    PROVE  IInv'
<1>1. TypeOK'
  BY RemovalAssumption
  DEF IInv, TypeOK, ReleaseIncident, Settles, row, objects, selected, Status, Answers,
      NoRequest, NoPress, NoReport, Settled, NoIncident
<1>2. IncidentsOK'
  BY RemovalAssumption
  DEF IInv, TypeOK, IncidentsOK, ReportersOK, RowsOK, RequestsOK, PressesOK,
      OwedOK, PurgeOK, HoldsOK, ActionedIsDown, ReleaseIncident, Settles,
      row, objects, selected, Status, Answers, NoRequest, NoPress, NoReport, Settled,
      NoIncident, Off, Holds, Only
<1>3. HoldsOK'
  BY RemovalAssumption
  DEF IInv, TypeOK, HoldsOK, ReleaseIncident, Settles, row, objects, selected, Answers,
      NoRequest, NoPress, NoReport, NoIncident, Holds, Only
<1>4. (RowsOK /\ RequestsOK /\ PressesOK /\ OwedOK /\ ReportersOK /\ PurgeOK /\
      ActionedIsDown)'
  BY DEF IInv, RowsOK, RequestsOK, PressesOK, OwedOK, ReportersOK, PurgeOK,
         ActionedIsDown, Off, NoRequest, NoPress, NoReport, Only,
         ReleaseIncident, Settles, row, objects, selected
<1> QED BY <1>1, <1>2, <1>3, <1>4 DEF IInv

\* The end of a hold keeps IInv.
LEMMA HoldEndsKeeps ==
    ASSUME IInv, NEW i \in Incidents, HoldEnds(i)
    PROVE  IInv'
<1>1. TypeOK'
  BY RemovalAssumption
  DEF IInv, TypeOK, HoldEnds, Settles, row, objects, selected, Status, Answers,
      NoRequest, NoPress, NoReport, Settled, NoIncident
<1>2. IncidentsOK'
  BY RemovalAssumption
  DEF IInv, TypeOK, IncidentsOK, ReportersOK, RowsOK, RequestsOK, PressesOK,
      OwedOK, PurgeOK, HoldsOK, ActionedIsDown, HoldEnds, Settles, row,
      objects, selected, Status, Answers, NoRequest, NoPress, NoReport, Settled,
      NoIncident, Off, Holds, Only
<1>3. HoldsOK'
  BY RemovalAssumption
  DEF IInv, TypeOK, HoldsOK, HoldEnds, Settles, row, objects, selected, Answers,
      NoRequest, NoPress, NoReport, NoIncident, Holds, Only
<1>4. (RowsOK /\ RequestsOK /\ PressesOK /\ OwedOK /\ ReportersOK /\ PurgeOK /\
      ActionedIsDown)'
  BY DEF IInv, RowsOK, RequestsOK, PressesOK, OwedOK, ReportersOK, PurgeOK,
         ActionedIsDown, Off, NoRequest, NoPress, NoReport, Only,
         HoldEnds, Settles, row, objects, selected
<1> QED BY <1>1, <1>2, <1>3, <1>4 DEF IInv

\* The passing of thirty days keeps IInv.
LEMMA RipenKeeps ==
    ASSUME IInv, NEW p \in Photos, Ripen(p)
    PROVE  IInv'
<1>1. TypeOK'
  BY RemovalAssumption
  DEF IInv, TypeOK, Ripen, Exists, objects, selected, Status, Answers, NoRequest,
      NoPress, NoReport, Settled, NoIncident
<1>2. (RowsOK /\ RequestsOK /\ PressesOK /\ OwedOK /\ ReportersOK /\ PurgeOK /\ IncidentsOK /\
      HoldsOK /\ ActionedIsDown)'
  BY DEF IInv, RowsOK, RequestsOK, PressesOK, OwedOK, ReportersOK, PurgeOK,
         IncidentsOK, HoldsOK, ActionedIsDown, Off, NoRequest, NoPress,
         NoReport, NoIncident, Holds, Only, Ripen, Exists, objects, selected
<1> QED BY <1>1, <1>2 DEF IInv

\* The purge's selection keeps IInv.
LEMMA PurgeSelectsKeeps ==
    ASSUME IInv, PurgeSelects
    PROVE  IInv'
<1>1. TypeOK'
  BY RemovalAssumption
  DEF IInv, TypeOK, PurgeSelects, Purgeable, row, objects, Exists, Held, Holds,
      Status, Answers, NoRequest, NoPress, NoReport, Settled, NoIncident
<1>2. PurgeOK'
  BY RemovalAssumption
  DEF IInv, TypeOK, PurgeOK, RowsOK, PurgeSelects, Purgeable, row, objects, Exists,
      Held, Holds, Status, Answers, NoRequest, NoPress, NoReport, Settled,
      NoIncident, Off
<1>3. HoldsOK'
  BY RemovalAssumption
  DEF IInv, TypeOK, HoldsOK, PurgeSelects, Purgeable, row, objects, Exists, Held,
      Holds, Answers, NoRequest, NoPress, NoReport, NoIncident, Only
<1>4. (RowsOK /\ RequestsOK /\ PressesOK /\ OwedOK /\ ReportersOK /\ IncidentsOK /\
      ActionedIsDown)'
  BY DEF IInv, RowsOK, RequestsOK, PressesOK, OwedOK, ReportersOK, IncidentsOK,
         ActionedIsDown, Off, NoRequest, NoPress, NoReport, NoIncident,
         Only, PurgeSelects, Purgeable, row, objects, Exists, Held, Holds
<1> QED BY <1>1, <1>2, <1>3, <1>4 DEF IInv

\* The purge of the objects keeps IInv.
LEMMA PurgeObjectsKeeps ==
    ASSUME IInv, NEW p \in Photos, PurgeObjects(p)
    PROVE  IInv'
<1>1. TypeOK'
  BY RemovalAssumption
  DEF IInv, TypeOK, PurgeObjects, Try, DropDerivatives, row, Status, Answers,
      NoRequest, NoPress, NoReport, Settled, NoIncident
<1>2. HoldsOK'
  BY RemovalAssumption
  DEF IInv, TypeOK, HoldsOK, PurgeOK, IncidentsOK, ReportersOK, PurgeObjects, Try,
      DropDerivatives, row, Status, Answers, NoRequest, NoPress, NoReport, Settled,
      NoIncident, Holds, Only, Off
<1>3. (RowsOK /\ RequestsOK /\ PressesOK /\ OwedOK /\ ReportersOK /\ PurgeOK /\ IncidentsOK /\
      ActionedIsDown)'
  BY DEF IInv, RowsOK, RequestsOK, PressesOK, OwedOK, ReportersOK, PurgeOK,
         IncidentsOK, ActionedIsDown, Off, NoRequest, NoPress, NoReport,
         NoIncident, PurgeObjects, Try, DropDerivatives, row
<1> QED BY <1>1, <1>2, <1>3 DEF IInv

\* The purge of a row keeps IInv.
LEMMA PurgeRowKeeps ==
    ASSUME IInv, NEW p \in Photos, PurgeRow(p)
    PROVE  IInv'
<1>1. TypeOK'
  BY RemovalAssumption
  DEF IInv, TypeOK, PurgeRow, objects, Status, Answers, NoRequest, NoPress,
      NoReport, Settled, NoIncident
<1>2. RowsOK'
  BY RemovalAssumption
  DEF IInv, TypeOK, RowsOK, PurgeRow, objects, Answers, NoRequest, NoPress,
      NoReport, NoIncident, Off
<1>3. RequestsOK'
  BY RemovalAssumption
  DEF IInv, TypeOK, RequestsOK, PurgeRow, objects, Answers, NoRequest, NoPress,
      NoReport, NoIncident
<1>4. OwedOK'
  BY RemovalAssumption
  DEF IInv, TypeOK, OwedOK, PurgeRow, objects, Answers, NoRequest, NoPress,
      NoReport, NoIncident, Off
<1>5. ReportersOK'
  BY RemovalAssumption
  DEF IInv, TypeOK, ReportersOK, PurgeRow, objects, Answers, NoRequest, NoPress,
      NoReport, NoIncident, Off
<1>6. PurgeOK'
  BY RemovalAssumption
  DEF IInv, TypeOK, PurgeOK, PurgeRow, objects, Answers, NoRequest, NoPress,
      NoReport, NoIncident, Off
<1>7. IncidentsOK'
  BY RemovalAssumption
  DEF IInv, TypeOK, IncidentsOK, PurgeRow, objects, Answers, NoRequest, NoPress,
      NoReport, NoIncident, Off
<1>8. HoldsOK'
  BY RemovalAssumption
  DEF IInv, TypeOK, HoldsOK, PurgeRow, objects, Answers, NoRequest, NoPress,
      NoReport, NoIncident, Holds, Only
<1>9. ActionedIsDown'
  BY RemovalAssumption
  DEF IInv, TypeOK, ActionedIsDown, PurgeRow, objects, Answers, NoRequest, NoPress,
      NoReport, NoIncident, Off
<1>10. PressesOK'
  BY DEF IInv, PressesOK, NoPress, NoRequest, PurgeRow, objects
<1> QED BY <1>1, <1>2, <1>3, <1>4, <1>5, <1>6, <1>7, <1>8, <1>9, <1>10 DEF IInv

\* A job that stops keeps IInv.
LEMMA CronDiesKeeps ==
    ASSUME IInv, CronDies
    PROVE  IInv'
<1>1. TypeOK'
  BY RemovalAssumption
  DEF IInv, TypeOK, CronDies, row, objects, Status, Answers, NoRequest, NoPress,
      NoReport, Settled, NoIncident
<1>2. RequestsOK'
  BY RemovalAssumption
  DEF IInv, TypeOK, RequestsOK, CronDies, row, objects, Answers, NoRequest,
      NoPress, NoReport, NoIncident
<1>3. PurgeOK'
  BY RemovalAssumption
  DEF IInv, TypeOK, PurgeOK, CronDies, row, objects, Answers, NoRequest, NoPress,
      NoReport, NoIncident, Off
<1>4. HoldsOK'
  BY RemovalAssumption
  DEF IInv, TypeOK, HoldsOK, CronDies, row, objects, Answers, NoRequest, NoPress,
      NoReport, NoIncident, Holds, Only
<1>5. (RowsOK /\ PressesOK /\ OwedOK /\ ReportersOK /\ IncidentsOK /\ ActionedIsDown)'
  BY DEF IInv, RowsOK, PressesOK, OwedOK, ReportersOK, IncidentsOK, ActionedIsDown,
         Off, NoPress, NoRequest, NoReport, NoIncident, Only, CronDies, row, objects
<1> QED BY <1>1, <1>2, <1>3, <1>4, <1>5 DEF IInv


\* A step of anybody, or none, keeps IInv.
LEMMA StepKeeps == IInv /\ [Next]_vars => IInv'
<1> SUFFICES ASSUME IInv, [Next]_vars PROVE IInv'
  OBVIOUS
<1>1. CASE UNCHANGED vars
  BY <1>1
  DEF vars, row, objects, selected, IInv, TypeOK, RowsOK, RequestsOK, PressesOK, OwedOK,
      ReportersOK, PurgeOK, IncidentsOK, HoldsOK, ActionedIsDown, Off, Only,
      Holds
<1>2. CASE People
  BY <1>2, CommitKeeps, WithdrawKeeps, StaffReadsKeeps, AskKeeps, HostReadsKeeps,
     ReportKeeps, FileIncidentKeeps, ReleaseIncidentKeeps
  DEF People
<1>3. CASE Handlers
  BY <1>3, StorageKeeps, TakeDownKeeps, StaffDiesKeeps, EscalateKeeps, HostClaimsKeeps,
     HostActsKeeps, HostDiesKeeps, QuarantineKeeps, ReporterDiesKeeps,
     OpenIncidentKeeps
  DEF Handlers
<1>4. CASE Clock
  BY <1>4, HoldEndsKeeps, RipenKeeps DEF Clock
<1>5. CASE Jobs
  BY <1>5, AutoHideSelectsKeeps, PurgeSelectsKeeps, CronDiesKeeps, AutoHideKeeps,
     PurgeObjectsKeeps, PurgeRowKeeps
  DEF Jobs
<1> QED BY <1>1, <1>2, <1>3, <1>4, <1>5 DEF Next

\* IInv holds of an album nothing was uploaded to.
LEMMA InitKeeps == Init => IInv
BY DEF Init, IInv, TypeOK, RowsOK, RequestsOK, PressesOK, OwedOK, ReportersOK, PurgeOK,
       IncidentsOK, HoldsOK, ActionedIsDown, Off, Only, Holds, Status,
       NoRequest, NoPress, NoReport, NoIncident

\* Every reachable state satisfies IInv.
THEOREM Invariance == Spec => []IInv
<1>1. Init => IInv
  BY InitKeeps
<1>2. IInv /\ [Next]_vars => IInv'
  BY StepKeeps
<1> QED BY <1>1, <1>2, PTL DEF Spec

\* Every variable keeps its type.
THEOREM TypeCorrect == Spec => []TypeOK
<1>1. IInv => TypeOK
  BY DEF IInv
<1> QED BY <1>1, Invariance, PTL

\* A removal a host agreed to has happened, or its press is at it or died.
THEOREM ActionedGoesDown == Spec => []ActionedIsDown
<1>1. IInv => ActionedIsDown
  BY DEF IInv
<1> QED BY <1>1, Invariance, PTL

\* What an incident holds is kept, if the purge was not at it before.
THEOREM HoldKeeps == Spec => []HoldKeepsEvidence
<1>1. IInv => HoldKeepsEvidence
  <2> SUFFICES ASSUME IInv, NEW i \in Incidents, Holds(i), i \notin late
               PROVE  /\ Exists(incident[i].photo)
                      /\ Only(incident[i].photo) => Hash[incident[i].photo] \in originals
    BY DEF HoldKeepsEvidence
  <2>1. incident[i] # NoIncident
    BY DEF Holds, NoIncident
  <2> QED BY <2>1 DEF IInv, HoldsOK, IncidentsOK, Off, Exists
<1> QED BY <1>1, Invariance, PTL

\* What has lost its objects while it could be shown lost them to a twin.
THEOREM LostToTwin == Spec => LosesToTwinOnly
<1> DEFINE Loses(p) ==
             /\ status[p] = "ready"
             /\ \/ Hash[p] \in originals \ originals'
                \/ Hash[p] \in renditions \ renditions'
           ToTwin(p) ==
             \E o \in Photos \ {p} :
                /\ Hash[o] = Hash[p] /\ Off(o)
                /\ \/ o \in purging
                   \/ [do |-> "drop", photo |-> o] \in owed
<1>1. IInv /\ [Next]_vars => \A p \in Photos : Loses(p) => ToTwin(p)
  <2> SUFFICES ASSUME IInv, [Next]_vars, NEW p \in Photos, Loses(p)
               PROVE  ToTwin(p)
    OBVIOUS
  <2>1. ASSUME NEW o \in Photos, Off(o), Hash[o] = Hash[p],
               o \in purging \/ [do |-> "drop", photo |-> o] \in owed
        PROVE  ToTwin(p)
    <3>1. o # p
      BY <2>1 DEF Off
    <3> QED BY <2>1, <3>1
  <2>2. CASE \E o \in Photos : PurgeObjects(o)
    <3>1. PICK o \in Photos : PurgeObjects(o)
      BY <2>2
    <3>2. o \in purging /\ Off(o) /\ Hash[o] = Hash[p]
      BY <3>1 DEF PurgeObjects, DropDerivatives, Try, IInv, PurgeOK
    <3> QED BY <2>1, <3>2
  <2>3. CASE \E e \in owed : Storage(e)
    <3>1. PICK e \in owed : Storage(e)
      BY <2>3
    <3>2. e.do = "drop" /\ Hash[e.photo] = Hash[p]
      BY <3>1 DEF Storage, DropDerivatives, RevokePhotoLinks, RestorePhotoLinks, Try
    <3>3. e.photo \in Photos /\ Off(e.photo) /\ e = [do |-> "drop", photo |-> e.photo]
      BY <3>2 DEF IInv, TypeOK, OwedOK
    <3> QED BY <2>1, <3>2, <3>3
  <2>4. CASE \E o \in Photos : Commit(o)
    BY <2>4 DEF Commit
  <2>5. \/ originals' = originals /\ renditions' = renditions
        \/ \E o \in Photos : PurgeObjects(o) \/ Commit(o)
        \/ \E e \in owed : Storage(e)
    BY DEF vars, objects, Next, People, Handlers, Clock, Jobs, Withdraw, StaffReads,
           Ask, HostReads, Report, FileIncident, ReleaseIncident, HoldEnds, Settles,
           TakeDown, StaffDies, Escalate, RevokePhotoLinks, HostClaims, HostActs,
           HostDies, Quarantine, ReporterDies, OpenIncident, Ripen, AutoHideSelects,
           AutoHide, PurgeSelects, PurgeRow, CronDies
  <2> QED BY <2>2, <2>3, <2>4, <2>5
<1> QED BY <1>1, Invariance, PTL DEF Spec, LosesToTwinOnly

\* What an incident is about is not shown.
THEOREM IncidentHides == Spec => []IncidentIsHidden
<1>1. IInv => IncidentIsHidden
  BY DEF IInv, IncidentsOK, IncidentIsHidden, Off, Visible
<1> QED BY <1>1, Invariance, PTL

-----------------------------------------------------------------------------
(* Removal implements Takedown.                                                *)

\* Nothing the album shows of p is touched by a step.
SameRow(p) ==
    /\ status'[p] = status[p]
    /\ deletedAt'[p] = deletedAt[p]
    /\ hiddenAt'[p] = hiddenAt[p]

\* What a photograph may go through in one step.
Legal(from, to) ==
    \/ from = to
    \/ from = "none" /\ to = "shown"
    \/ from = "shown" /\ to = "hidden"
    \/ from = "hidden" /\ to = "shown"
    \/ from \in {"shown", "hidden"} /\ to = "down"
    \/ from = "down" /\ to = "gone"

\* What the album shows of a row depends on the row.
LEMMA RowShown ==
    ASSUME NEW p \in Photos, SameRow(p)
    PROVE  Shown(p)' = Shown(p)
BY DEF SameRow, Shown, Visible

\* A step that touches one row, legally, and no request is a step of Takedown.
LEMMA RowMaps ==
    ASSUME NEW p \in Photos, \A o \in Photos \ {p} : SameRow(o),
           request' = request, Legal(Shown(p), Shown(p)')
    PROVE  [Promise!Next]_(Promise!vars)
<1> DEFINE phase == [o \in Photos |-> Shown(o)]
           answer == [q \in Asked |-> request[q].status]
<1>1. answer' = answer
  OBVIOUS
<1>2. \A o \in Photos \ {p} : Shown(o)' = Shown(o)
  BY RowShown
<1>3. phase' = [phase EXCEPT ![p] = Shown(p)']
  BY <1>2
<1>4. phase[p] = Shown(p)
  OBVIOUS
<1> HIDE DEF phase, answer
<1>5. CASE Shown(p)' = Shown(p)
  <2>1. phase' = phase
    BY <1>2, <1>5 DEF phase
  <2> QED BY <1>1, <2>1 DEF Promise!vars, phase, answer
<1>6. CASE Shown(p) = "none" /\ Shown(p)' = "shown"
  <2>1. Promise!Show(p)
    BY <1>1, <1>3, <1>4, <1>6 DEF Promise!Show, Promise!Moves, phase, answer
  <2> QED BY <2>1 DEF Promise!Next
<1>7. CASE Shown(p) = "shown" /\ Shown(p)' = "hidden"
  <2>1. Promise!Hide(p)
    BY <1>1, <1>3, <1>4, <1>7 DEF Promise!Hide, Promise!Moves, phase, answer
  <2> QED BY <2>1 DEF Promise!Next
<1>8. CASE Shown(p) = "hidden" /\ Shown(p)' = "shown"
  <2>1. Promise!Unhide(p)
    BY <1>1, <1>3, <1>4, <1>8 DEF Promise!Unhide, Promise!Moves, phase, answer
  <2> QED BY <2>1 DEF Promise!Next
<1>9. CASE Shown(p) \in {"shown", "hidden"} /\ Shown(p)' = "down"
  <2>1. Promise!TakeDown(p)
    BY <1>1, <1>3, <1>4, <1>9 DEF Promise!TakeDown, Promise!Moves, phase, answer
  <2> QED BY <2>1 DEF Promise!Next
<1>10. CASE Shown(p) = "down" /\ Shown(p)' = "gone"
  <2>1. Promise!Purge(p)
    BY <1>1, <1>3, <1>4, <1>10 DEF Promise!Purge, Promise!Moves, phase, answer
  <2> QED BY <2>1 DEF Promise!Next
<1> QED BY <1>5, <1>6, <1>7, <1>8, <1>9, <1>10 DEF Legal

\* A step that writes no row and gives one request a legal status is one too.
LEMMA RequestMaps ==
    ASSUME NEW q \in Asked, UNCHANGED row,
           \A o \in Asked \ {q} : request'[o].status = request[o].status,
           \/ request[q].status = "none" /\ request'[q].status = "open"
           \/ request[q].status = "open" /\ request'[q].status \in Answers
    PROVE  [Promise!Next]_(Promise!vars)
<1> DEFINE phase == [o \in Photos |-> Shown(o)]
           answer == [o \in Asked |-> request[o].status]
<1>1. phase' = phase
  <2>1. \A o \in Photos : SameRow(o)
    BY DEF row, SameRow
  <2> QED BY <2>1, RowShown
<1>2. answer' = [answer EXCEPT ![q] = request'[q].status] /\ answer[q] = request[q].status
  OBVIOUS
<1> HIDE DEF phase, answer
<1>3. CASE request[q].status = "none" /\ request'[q].status = "open"
  <2>1. Promise!Ask(q)
    BY <1>1, <1>2, <1>3 DEF Promise!Ask, phase, answer
  <2> QED BY <2>1 DEF Promise!Next
<1>4. CASE request[q].status = "open" /\ request'[q].status \in Answers
  <2>1. PICK a \in Answers : a = request'[q].status
    BY <1>4
  <2>2. Promise!Reply(q, a)
    BY <1>1, <1>2, <1>4, <2>1 DEF Promise!Reply, phase, answer
  <2> QED BY <2>2 DEF Promise!Next, Answers
<1> QED BY <1>3, <1>4

\* What writes neither rows nor requests is a stutter.
LEMMA Stays ==
    ASSUME UNCHANGED row, request' = request
    PROVE  [Promise!Next]_(Promise!vars)
<1>1. \A o \in Photos : SameRow(o)
  BY DEF row, SameRow
<1>2. [o \in Photos |-> Shown(o)]' = [o \in Photos |-> Shown(o)]
  BY <1>1, RowShown
<1> QED BY <1>2 DEF Promise!vars

\* A new row is shown.
LEMMA CommitMaps ==
    ASSUME IInv, NEW p \in Photos, Commit(p)
    PROVE  [Promise!Next]_(Promise!vars)
<1>1. \A o \in Photos \ {p} : SameRow(o)
  BY DEF Commit, SameRow, IInv, TypeOK
<1>2. Shown(p) = "none" /\ Shown(p)' = "shown"
  BY DEF Commit, Shown, Visible, IInv, TypeOK, RowsOK
<1>3. request' = request
  BY DEF Commit
<1> QED BY <1>1, <1>2, <1>3, RowMaps DEF Legal

\* Setting a row removed takes it down, or leaves it down.
LEMMA RemovesMaps ==
    ASSUME IInv, NEW p \in Photos, Exists(p), Removes(p), request' = request
    PROVE  [Promise!Next]_(Promise!vars)
<1>1. \A o \in Photos \ {p} : SameRow(o)
  BY DEF Removes, SameRow, IInv, TypeOK
<1>2. Shown(p) \in {"shown", "hidden", "down"} /\ Shown(p)' = "down"
  BY DEF Removes, Exists, Shown, Visible, IInv, TypeOK, Status
<1> QED BY <1>1, <1>2, RowMaps DEF Legal

\* So does a quarantine.
LEMMA QuarantinesMaps ==
    ASSUME IInv, NEW p \in Photos, Exists(p), Quarantines(p), request' = request
    PROVE  [Promise!Next]_(Promise!vars)
<1>1. \A o \in Photos \ {p} : SameRow(o)
  BY DEF Quarantines, SameRow, IInv, TypeOK
<1>2. Shown(p) \in {"shown", "hidden", "down"} /\ Shown(p)' = "down"
  BY DEF Quarantines, Exists, Shown, Visible, IInv, TypeOK, Status
<1> QED BY <1>1, <1>2, RowMaps DEF Legal

\* A press takes its photo down, or shows it if it was only hidden.
LEMMA HostActsMaps ==
    ASSUME IInv, NEW h \in Hosts, HostActs(h)
    PROVE  [Promise!Next]_(Promise!vars)
<1>1. PICK p \in Photos : p = request[host[h].of].photo
  BY DEF IInv, TypeOK, PressesOK, HostActs, NoPress, NoRequest
<1>2. request' = request
  BY DEF HostActs
<1>3. CASE host[h].answer = "actioned"
  <2>1. (Exists(p) /\ Removes(p)) \/ UNCHANGED row
    BY <1>1, <1>3 DEF HostActs
  <2> QED BY <1>2, <2>1, RemovesMaps, Stays
<1>4. CASE host[h].answer = "declined"
  <2>1. /\ hiddenAt' = [hiddenAt EXCEPT ![p] = FALSE]
        /\ UNCHANGED <<status, deletedAt>>
    BY <1>1, <1>4 DEF HostActs
  <2>2. \A o \in Photos \ {p} : SameRow(o)
    BY <2>1 DEF SameRow, IInv, TypeOK
  <2>3. Shown(p)' = Shown(p) \/ (Shown(p) = "hidden" /\ Shown(p)' = "shown")
    BY <2>1 DEF Shown, Visible, IInv, TypeOK
  <2> QED BY <1>2, <2>2, <2>3, RowMaps DEF Legal
<1> QED BY <1>3, <1>4 DEF HostActs

\* The auto-hide hides what is shown, and leaves down what is down.
LEMMA AutoHideMaps ==
    ASSUME IInv, NEW q \in Asked, AutoHide(q)
    PROVE  [Promise!Next]_(Promise!vars)
<1>1. PICK p \in Photos : p = request[q].photo
  BY DEF IInv, TypeOK, RequestsOK, AutoHide, NoRequest
<1>2. request' = request /\ UNCHANGED <<status, deletedAt, ripe>>
  BY DEF AutoHide
<1>3. CASE hiddenAt' = hiddenAt
  BY <1>2, <1>3, Stays DEF row
<1>4. CASE Exists(p) /\ ~hiddenAt[p] /\ hiddenAt' = [hiddenAt EXCEPT ![p] = TRUE]
  <2>1. \A o \in Photos \ {p} : SameRow(o)
    BY <1>2, <1>4 DEF SameRow, IInv, TypeOK
  <2>2. Shown(p)' = Shown(p) \/ (Shown(p) = "shown" /\ Shown(p)' = "hidden")
    BY <1>2, <1>4 DEF Shown, Visible, Exists, IInv, TypeOK
  <2> QED BY <1>2, <2>1, <2>2, RowMaps DEF Legal
<1> QED BY <1>1, <1>3, <1>4 DEF AutoHide

\* The purge of a row ends what was down.
LEMMA PurgeRowMaps ==
    ASSUME IInv, NEW p \in Photos, PurgeRow(p)
    PROVE  [Promise!Next]_(Promise!vars)
<1>1. \A o \in Photos \ {p} : SameRow(o)
  BY DEF PurgeRow, SameRow, IInv, TypeOK
<1>2. Off(p)
  BY DEF PurgeRow, IInv, TypeOK, PurgeOK
<1>3. Shown(p) \in {"down", "gone"} /\ Shown(p)' = "gone"
  BY <1>2 DEF PurgeRow, Off, Shown, Visible, IInv, TypeOK
<1>4. request' = request
  BY DEF PurgeRow
<1> QED BY <1>1, <1>3, <1>4, RowMaps DEF Legal

\* A request that is made, and one that is claimed.
LEMMA RequestsMap ==
    ASSUME IInv, NEW q \in Asked,
           \/ \E p \in Photos : Ask(q, p)
           \/ \E h \in Hosts : HostClaims(h) /\ host[h].of = q
    PROVE  [Promise!Next]_(Promise!vars)
<1>1. CASE \E p \in Photos : Ask(q, p)
  <2>1. /\ UNCHANGED row
        /\ request[q].status = "none" /\ request'[q].status = "open"
        /\ \A o \in Asked \ {q} : request'[o].status = request[o].status
    BY <1>1 DEF Ask, NoRequest, IInv, TypeOK
  <2> QED BY <2>1, RequestMaps
<1>2. ASSUME NEW h \in Hosts, HostClaims(h), host[h].of = q
      PROVE  [Promise!Next]_(Promise!vars)
  <2>1. UNCHANGED row
    BY <1>2 DEF HostClaims
  <2>2. CASE request' = request
    BY <2>1, <2>2, Stays
  <2>3. CASE Open(q) /\ request' = [request EXCEPT ![q] =
                           [photo |-> request[q].photo, status |-> host[h].answer]]
    <3>1. host[h].answer \in Answers
      BY <1>2 DEF HostClaims, IInv, TypeOK, NoPress
    <3>2. /\ request[q].status = "open" /\ request'[q].status \in Answers
          /\ \A o \in Asked \ {q} : request'[o].status = request[o].status
      BY <2>3, <3>1 DEF Open, IInv, TypeOK
    <3> QED BY <2>1, <3>2, RequestMaps
  <2> QED BY <1>2, <2>2, <2>3 DEF HostClaims
<1> QED BY <1>1, <1>2

\* Every step that keeps IInv is a step of Takedown, or none.
LEMMA StepMaps == IInv /\ [Next]_vars => [Promise!Next]_(Promise!vars)
<1> SUFFICES ASSUME IInv, [Next]_vars PROVE [Promise!Next]_(Promise!vars)
  OBVIOUS
<1>1. CASE UNCHANGED vars
  BY <1>1, Stays DEF vars
<1>2. CASE People
  <2>1. ASSUME NEW p \in Photos, Withdraw(p)
        PROVE  Exists(p) /\ Removes(p) /\ request' = request
    BY <2>1 DEF Withdraw
  <2>2. ASSUME \/ \E h \in Hosts, q \in Asked, a \in Answers : HostReads(h, q, a)
               \/ \E s \in Reporters, p \in Photos : Report(s, p)
               \/ \E i \in Incidents : FileIncident(i) \/ ReleaseIncident(i)
               \/ \E p \in Photos : StaffReads(p)
        PROVE  UNCHANGED row /\ request' = request
    BY <2>2 DEF HostReads, Report, FileIncident, ReleaseIncident, Settles, StaffReads
  <2> QED
    BY <1>2, <2>1, <2>2, CommitMaps, RemovesMaps, RequestsMap, Stays DEF People
<1>3. CASE Handlers
  <2>1. ASSUME NEW s \in Reporters, Quarantine(s)
        PROVE  [Promise!Next]_(Promise!vars)
    <3>1. PICK p \in Photos : p = reporter[s].photo
      BY <2>1 DEF IInv, TypeOK, Quarantine, NoReport
    <3>2. request' = request /\ ((Exists(p) /\ Quarantines(p)) \/ UNCHANGED row)
      BY <2>1, <3>1 DEF Quarantine
    <3> QED BY <3>2, QuarantinesMaps, Stays
  <2>2. ASSUME NEW h \in Hosts, HostClaims(h)
        PROVE  [Promise!Next]_(Promise!vars)
    <3>1. host[h].of \in Asked
      BY <2>2 DEF IInv, TypeOK, HostClaims, NoPress
    <3> QED BY <2>2, <3>1, RequestsMap
  <2>3. ASSUME \/ \E e \in owed : Storage(e)
               \/ \E h \in Hosts : HostDies(h)
               \/ \E s \in Reporters :
                     ReporterDies(s) \/ \E i \in Incidents : OpenIncident(s, i)
               \/ \E p \in Photos : StaffDies(p)
        PROVE  UNCHANGED row /\ request' = request
    BY <2>3 DEF Storage, HostDies, ReporterDies, OpenIncident, StaffDies
  <2>4. ASSUME NEW p \in Photos, NEW i \in Incidents, Escalate(p, i)
        PROVE  [Promise!Next]_(Promise!vars)
    <3>1. /\ request' = request
          /\ (Exists(p) /\ Quarantines(p)) \/ UNCHANGED row
      BY <2>4 DEF Escalate
    <3> QED BY <3>1, QuarantinesMaps, Stays
  <2>5. ASSUME NEW p \in Photos, TakeDown(p)
        PROVE  [Promise!Next]_(Promise!vars)
    <3>1. /\ request' = request
          /\ (Exists(p) /\ Removes(p)) \/ UNCHANGED row
      BY <2>5 DEF TakeDown
    <3> QED BY <3>1, RemovesMaps, Stays
  <2> QED BY <1>3, <2>1, <2>2, <2>3, <2>4, <2>5, HostActsMaps, Stays DEF Handlers
<1>4. CASE Clock
  <2>1. UNCHANGED <<status, deletedAt, hiddenAt>> /\ request' = request
    BY <1>4 DEF Clock, HoldEnds, Settles, Ripen, row
  <2>2. [o \in Photos |-> Shown(o)]' = [o \in Photos |-> Shown(o)]
    BY <2>1, RowShown DEF SameRow
  <2> QED BY <2>1, <2>2 DEF Promise!vars
<1>5. CASE Jobs
  <2>1. ASSUME \/ AutoHideSelects \/ PurgeSelects \/ CronDies
               \/ \E p \in Photos : PurgeObjects(p)
        PROVE  UNCHANGED row /\ request' = request
    BY <2>1 DEF AutoHideSelects, PurgeSelects, CronDies, PurgeObjects
  <2> QED BY <1>5, <2>1, AutoHideMaps, PurgeRowMaps, Stays DEF Jobs
<1> QED BY <1>1, <1>2, <1>3, <1>4, <1>5 DEF Next

\* Nothing is promised of an album nothing was uploaded to.
LEMMA InitMaps == Init => Promise!Init
BY DEF Init, Promise!Init, Shown, NoRequest

\* Removal implements Takedown, however its handlers interleave and fail.
THEOREM Implements == Spec => ImplementsTakedown
<1>1. Init => Promise!Init
  BY InitMaps
<1>2. IInv /\ [Next]_vars => [Promise!Next]_(Promise!vars)
  BY StepMaps
<1> QED BY <1>1, <1>2, Invariance, PTL DEF Spec, ImplementsTakedown, Promise!Spec
-----------------------------------------------------------------------------
(* Links, while no storage call fails and no process dies.                     *)

\* Some host declined a request about a row of this content.
Declined(c) ==
    \E q \in Asked : request[q].status = "declined" /\ Hash[request[q].photo] = c

\* Why a link of this content works: a row is shown, a host declined a request,
\* or a call that takes the link back is still to be made.
Backed(c) ==
    \/ \E p \in Photos : Hash[p] = c /\ Visible(p)
    \/ Declined(c)
    \/ \E e \in owed : e.do = "revoke" /\ Hash[e.photo] = c
    \/ \E s \in Reporters : reporter[s].pc = "open" /\ Hash[reporter[s].photo] = c

\* Links are given back only for a request that was declined.
RestoresOK == \A e \in owed : e.do = "restore" => Declined(Hash[e.photo])

LinksInv == RestoresOK /\ \A c \in Contents : Served(c) => Backed(c)

\* When nothing is owed, a content is served only while a row of it is shown or
\* after a host declined a request about a row of it.
LinksFollowDecisions ==
    Quiet => \A c \in Contents : Served(c) =>
                 Declined(c) \/ \E p \in Photos : Hash[p] = c /\ Visible(p)

\* A request that was declined stays so.
LEMMA DeclinedStays ==
    ASSUME IInv, NEW c \in Contents, Declined(c), [Next]_vars
    PROVE  Declined(c)'
<1>1. PICK q \in Asked : request[q].status = "declined" /\ Hash[request[q].photo] = c
  BY DEF Declined
<1>2. request'[q] = request[q]
  <2>1. CASE request' = request
    BY <2>1
  <2>2. ASSUME NEW o \in Asked, NEW p \in Photos, Ask(o, p)
        PROVE  request'[q] = request[q]
    BY <1>1, <2>2 DEF Ask, NoRequest, IInv, TypeOK
  <2>3. ASSUME NEW h \in Hosts, HostClaims(h)
        PROVE  request'[q] = request[q]
    BY <1>1, <2>3 DEF HostClaims, Open, IInv, TypeOK
  <2>4. \/ request' = request
        \/ \E o \in Asked, p \in Photos : Ask(o, p)
        \/ \E h \in Hosts : HostClaims(h)
    BY DEF vars, Next, People, Handlers, Clock, Jobs, Commit, Withdraw, StaffReads,
           TakeDown, StaffDies, HostReads, Report, FileIncident, ReleaseIncident,
           HoldEnds, Settles, Escalate, Storage, HostActs, HostDies, Quarantine,
           ReporterDies, OpenIncident, Ripen, AutoHideSelects, PurgeSelects, CronDies,
           AutoHide, PurgeObjects, PurgeRow
  <2> QED BY <2>1, <2>2, <2>3, <2>4
<1> QED BY <1>1, <1>2 DEF Declined

\* A step that serves no new content, shows every row it found shown and keeps
\* what is owed keeps LinksInv.
LEMMA NothingTaken ==
    ASSUME IInv, LinksInv, [Next]_vars,
           \A p \in Photos : Visible(p) => Visible(p)',
           renditions' \subseteq renditions, revoked \subseteq revoked',
           owed' = owed, reporter' = reporter
    PROVE  LinksInv'
<1>1. RestoresOK'
  <2> SUFFICES ASSUME NEW e \in owed, e.do = "restore"
               PROVE  Declined(Hash[e.photo])'
    BY DEF RestoresOK
  <2>1. Hash[e.photo] \in Contents
    BY RemovalAssumption DEF IInv, TypeOK
  <2> QED BY <2>1, DeclinedStays DEF LinksInv, RestoresOK
<1>2. ASSUME NEW c \in Contents, Served(c)'
      PROVE  Backed(c)'
  <2>1. Backed(c)
    BY <1>2 DEF LinksInv, Served
  <2> QED BY <2>1, DeclinedStays DEF Backed
<1> QED BY <1>1, <1>2 DEF LinksInv

\* A step that takes one row's content down and owes the call that takes its
\* links back keeps LinksInv.
LEMMA TakenIsOwed ==
    ASSUME IInv, LinksInv, [Next]_vars, NEW p \in Photos, NEW does,
           "revoke" \in does, "restore" \notin does, Owes(p, does),
           \A o \in Photos \ {p} : Visible(o) => Visible(o)',
           renditions' = renditions, revoked' = revoked, reporter' = reporter
    PROVE  LinksInv'
<1>1. RestoresOK'
  <2> SUFFICES ASSUME NEW e \in owed, e.do = "restore"
               PROVE  Declined(Hash[e.photo])'
    BY DEF RestoresOK, Owes
  <2>1. Hash[e.photo] \in Contents
    BY RemovalAssumption DEF IInv, TypeOK
  <2> QED BY <2>1, DeclinedStays DEF LinksInv, RestoresOK
<1>2. ASSUME NEW c \in Contents, Served(c)'
      PROVE  Backed(c)'
  <2>1. Backed(c)
    BY <1>2 DEF LinksInv, Served
  <2>2. CASE Hash[p] = c
    <3>1. [do |-> "revoke", photo |-> p] \in owed'
      BY DEF Owes
    <3> QED BY <2>2, <3>1 DEF Backed
  <2>3. CASE Hash[p] # c
    BY <2>1, <2>3, DeclinedStays DEF Backed, Owes
  <2> QED BY <2>2, <2>3
<1> QED BY <1>1, <1>2 DEF LinksInv

\* A storage call that was owed, and is made, keeps LinksInv.
LEMMA StorageLinks ==
    ASSUME IInv, LinksInv, ~Faulty, [Next]_vars, NEW e \in owed, Storage(e)
    PROVE  LinksInv'
<1>1. Hash[e.photo] \in Contents
  BY RemovalAssumption DEF IInv, TypeOK
<1>2. RestoresOK'
  <2> SUFFICES ASSUME NEW o \in owed, o.do = "restore"
               PROVE  Declined(Hash[o.photo])'
    BY DEF RestoresOK, Storage
  <2>1. Hash[o.photo] \in Contents
    BY RemovalAssumption DEF IInv, TypeOK
  <2> QED BY <2>1, DeclinedStays DEF LinksInv, RestoresOK
<1>3. ASSUME NEW c \in Contents, Served(c)'
      PROVE  Backed(c)'
  <2>1. CASE Served(c) /\ ~(e.do = "revoke" /\ Hash[e.photo] = c)
    <3>1. Backed(c)
      BY <2>1 DEF LinksInv
    <3> QED BY <2>1, <3>1, DeclinedStays DEF Backed, Storage, Visible, row
  <2>2. CASE e.do = "revoke" /\ Hash[e.photo] = c
    BY <1>3, <2>2 DEF Storage, RevokePhotoLinks, Try, Served
  <2>3. CASE ~Served(c)
    <3>1. e.do = "restore" /\ Hash[e.photo] = c
      BY <1>3, <2>3
      DEF Storage, DropDerivatives, RevokePhotoLinks, RestorePhotoLinks, Try, Served
    <3> QED BY <1>1, <3>1, DeclinedStays DEF LinksInv, RestoresOK, Backed
  <2> QED BY <2>1, <2>2, <2>3
<1> QED BY <1>2, <1>3 DEF LinksInv

\* A new row is shown, and that is why its content is served.
LEMMA CommitLinks ==
    ASSUME IInv, LinksInv, [Next]_vars, NEW p \in Photos, Commit(p)
    PROVE  LinksInv'
<1>1. RestoresOK'
  <2> SUFFICES ASSUME NEW o \in owed, o.do = "restore"
               PROVE  Declined(Hash[o.photo])'
    BY DEF RestoresOK, Commit
  <2>1. Hash[o.photo] \in Contents
    BY RemovalAssumption DEF IInv, TypeOK
  <2> QED BY <2>1, DeclinedStays DEF LinksInv, RestoresOK
<1>2. Visible(p)' /\ \A o \in Photos : Visible(o) => Visible(o)'
  BY DEF Commit, Visible, IInv, TypeOK, RowsOK
<1>3. ASSUME NEW c \in Contents, Served(c)'
      PROVE  Backed(c)'
  <2>1. CASE c = Hash[p]
    BY <1>2, <2>1 DEF Backed
  <2>2. CASE c # Hash[p]
    <3>1. Backed(c)
      BY <1>3, <2>2 DEF LinksInv, Served, Commit
    <3> QED BY <1>2, <3>1, DeclinedStays DEF Backed, Commit
  <2> QED BY <2>1, <2>2
<1> QED BY <1>1, <1>3 DEF LinksInv

\* A press owes what follows from its answer.
LEMMA HostActsLinks ==
    ASSUME IInv, LinksInv, [Next]_vars, NEW h \in Hosts, HostActs(h)
    PROVE  LinksInv'
<1>1. PICK p \in Photos : p = request[host[h].of].photo
  BY DEF IInv, TypeOK, PressesOK, HostActs, NoPress, NoRequest
<1>2. host[h].of \in Asked /\ request[host[h].of].status = host[h].answer
  BY DEF IInv, TypeOK, PressesOK, HostActs, NoPress
<1>3. UNCHANGED <<renditions, revoked, reporter, request>>
  BY DEF HostActs, objects
<1>4. CASE host[h].answer = "actioned"
  <2>1. (Removes(p) \/ UNCHANGED row) /\ Owes(p, {"drop", "revoke"})
    BY <1>1, <1>4 DEF HostActs
  <2>2. \A o \in Photos \ {p} : Visible(o) => Visible(o)'
    BY <2>1 DEF Removes, row, Visible, IInv, TypeOK
  <2> QED BY <1>3, <2>1, <2>2, TakenIsOwed
<1>5. CASE host[h].answer = "declined"
  <2>1. /\ hiddenAt' = [hiddenAt EXCEPT ![p] = FALSE]
        /\ UNCHANGED <<status, deletedAt>>
        /\ Owes(p, {"restore"})
    BY <1>1, <1>5 DEF HostActs
  <2>2. \A o \in Photos : Visible(o) => Visible(o)'
    BY <2>1 DEF Visible, IInv, TypeOK
  <2>3. Hash[p] \in Contents /\ Declined(Hash[p])
    BY <1>1, <1>2, <1>5, RemovalAssumption DEF Declined
  <2>4. RestoresOK'
    <3> SUFFICES ASSUME NEW e \in owed', e.do = "restore"
                 PROVE  Declined(Hash[e.photo])'
      BY DEF RestoresOK
    <3>1. CASE e \in owed
      <4>1. Hash[e.photo] \in Contents
        BY <3>1, RemovalAssumption DEF IInv, TypeOK
      <4> QED BY <3>1, <4>1, DeclinedStays DEF LinksInv, RestoresOK
    <3>2. CASE e.photo = p
      BY <2>3, <3>2, DeclinedStays
    <3> QED BY <2>1, <3>1, <3>2 DEF Owes
  <2>5. ASSUME NEW c \in Contents, Served(c)'
        PROVE  Backed(c)'
    <3>1. Backed(c)
      BY <1>3, <2>5 DEF LinksInv, Served
    <3> QED BY <1>3, <2>1, <2>2, <3>1, DeclinedStays DEF Backed, Owes
  <2> QED BY <2>4, <2>5 DEF LinksInv
<1> QED BY <1>4, <1>5 DEF HostActs

\* A report hides its row, then takes its links back.
LEMMA ReportersLink ==
    ASSUME IInv, LinksInv, ~Faulty, [Next]_vars, NEW s \in Reporters,
           \/ \E p \in Photos : Report(s, p)
           \/ Quarantine(s)
           \/ \E i \in Incidents : OpenIncident(s, i)
    PROVE  LinksInv'
<1>1. owed' = owed /\ renditions' = renditions /\ revoked \subseteq revoked'
  BY DEF Report, Quarantine, OpenIncident, RevokePhotoLinks, Try, objects
<1>2. RestoresOK'
  <2> SUFFICES ASSUME NEW o \in owed, o.do = "restore"
               PROVE  Declined(Hash[o.photo])'
    BY <1>1 DEF RestoresOK
  <2>1. Hash[o.photo] \in Contents
    BY RemovalAssumption DEF IInv, TypeOK
  <2> QED BY <2>1, DeclinedStays DEF LinksInv, RestoresOK
<1>3. ASSUME NEW c \in Contents, Served(c)'
      PROVE  Backed(c)'
  <2>1. Backed(c)
    BY <1>1, <1>3 DEF LinksInv, Served
  <2>2. CASE \E p \in Photos : Report(s, p)
    <3>1. \A t \in Reporters : reporter[t].pc = "open" => reporter'[t] = reporter[t]
      BY <2>2 DEF Report, NoReport, IInv, TypeOK
    <3> QED BY <1>1, <2>1, <2>2, <3>1, DeclinedStays DEF Backed, Report, Visible, row
  <2>3. CASE Quarantine(s)
    <3>1. PICK p \in Photos : p = reporter[s].photo
      BY <2>3 DEF IInv, TypeOK, Quarantine, NoReport
    <3>2. /\ reporter'[s].pc = "open" /\ reporter'[s].photo = p
          /\ \A t \in Reporters : reporter[t].pc = "open" => reporter'[t] = reporter[t]
      BY <2>3, <3>1 DEF Quarantine, IInv, TypeOK
    <3>3. \A o \in Photos \ {p} : Visible(o) => Visible(o)'
      BY <2>3, <3>1 DEF Quarantine, Quarantines, Visible, row, IInv, TypeOK
    <3>4. CASE Hash[p] = c
      BY <3>2, <3>4 DEF Backed
    <3>5. CASE Hash[p] # c
      BY <1>1, <2>1, <3>2, <3>3, <3>5, DeclinedStays DEF Backed
    <3> QED BY <3>4, <3>5
  <2>4. CASE \E i \in Incidents : OpenIncident(s, i)
    <3>1. Hash[reporter[s].photo] \in revoked'
      BY <2>4 DEF OpenIncident, RevokePhotoLinks, Try
    <3>2. Hash[reporter[s].photo] # c
      BY <1>3, <3>1 DEF Served
    <3>3. \A t \in Reporters \ {s} : reporter'[t] = reporter[t]
      BY <2>4 DEF OpenIncident, IInv, TypeOK
    <3> QED
      BY <1>1, <2>1, <2>4, <3>2, <3>3, DeclinedStays
      DEF Backed, OpenIncident, Visible, row
  <2> QED BY <2>2, <2>3, <2>4
<1> QED BY <1>2, <1>3 DEF LinksInv

\* An escalation hides its row and takes its links back in one transaction.
LEMMA EscalateLinks ==
    ASSUME IInv, LinksInv, ~Faulty, [Next]_vars, NEW p \in Photos,
           NEW i \in Incidents, Escalate(p, i)
    PROVE  LinksInv'
<1>1. /\ owed' = owed /\ reporter' = reporter /\ renditions' = renditions
      /\ revoked' = revoked \cup {Hash[p]}
  BY DEF Escalate, RevokePhotoLinks, Try
<1>2. \A o \in Photos \ {p} : Visible(o) => Visible(o)'
  BY DEF Escalate, Quarantines, Visible, row, IInv, TypeOK
<1>3. RestoresOK'
  <2> SUFFICES ASSUME NEW o \in owed, o.do = "restore"
               PROVE  Declined(Hash[o.photo])'
    BY <1>1 DEF RestoresOK
  <2>1. Hash[o.photo] \in Contents
    BY RemovalAssumption DEF IInv, TypeOK
  <2> QED BY <2>1, DeclinedStays DEF LinksInv, RestoresOK
<1>4. ASSUME NEW c \in Contents, Served(c)'
      PROVE  Backed(c)'
  <2>1. Backed(c) /\ Hash[p] # c
    BY <1>1, <1>4 DEF LinksInv, Served
  <2> QED BY <1>1, <1>2, <2>1, DeclinedStays DEF Backed
<1> QED BY <1>3, <1>4 DEF LinksInv

\* Every step keeps LinksInv.
LEMMA StepLinks ==
    ASSUME ~Faulty
    PROVE  IInv /\ LinksInv /\ [Next]_vars => LinksInv'
<1> SUFFICES ASSUME IInv, LinksInv, [Next]_vars PROVE LinksInv'
  OBVIOUS
<1>1. CASE UNCHANGED vars
  BY <1>1, NothingTaken DEF vars, row, objects, Visible
<1>2. CASE People
  <2>1. ASSUME NEW p \in Photos, Withdraw(p)
        PROVE  LinksInv'
    <3>1. /\ UNCHANGED <<renditions, revoked, reporter>>
          /\ Removes(p) /\ Owes(p, {"revoke"})
      BY <2>1 DEF Withdraw, objects
    <3>2. \A o \in Photos \ {p} : Visible(o) => Visible(o)'
      BY <3>1 DEF Removes, Visible, IInv, TypeOK
    <3> QED BY <3>1, <3>2, TakenIsOwed
  <2>2. ASSUME \/ \E q \in Asked, p \in Photos : Ask(q, p)
               \/ \E h \in Hosts, q \in Asked, a \in Answers : HostReads(h, q, a)
               \/ \E i \in Incidents : FileIncident(i) \/ ReleaseIncident(i)
               \/ \E p \in Photos : StaffReads(p)
        PROVE  UNCHANGED <<row, objects, owed, reporter>>
    BY <2>2 DEF Ask, HostReads, FileIncident, ReleaseIncident, Settles, StaffReads
  <2>3. UNCHANGED <<row, objects, owed, reporter>> => LinksInv'
    BY NothingTaken DEF row, objects, Visible
  <2> QED
    BY <1>2, <2>1, <2>2, <2>3, CommitLinks, ReportersLink DEF People
<1>3. CASE Handlers
  <2>1. ASSUME NEW h \in Hosts, HostClaims(h) \/ HostDies(h)
        PROVE  LinksInv'
    BY <2>1, NothingTaken DEF HostClaims, HostDies, row, objects, Visible
  <2>2. ASSUME NEW p \in Photos, TakeDown(p)
        PROVE  LinksInv'
    <3>1. /\ UNCHANGED <<renditions, revoked, reporter>>
          /\ Owes(p, {"drop", "revoke"})
      BY <2>2 DEF TakeDown, objects
    <3>2. \A o \in Photos \ {p} : Visible(o) => Visible(o)'
      BY <2>2 DEF TakeDown, Removes, Visible, row, IInv, TypeOK
    <3> QED BY <3>1, <3>2, TakenIsOwed
  <2> QED
    BY <1>3, <2>1, <2>2, StorageLinks, HostActsLinks, EscalateLinks, ReportersLink
    DEF Handlers, ReporterDies, StaffDies
<1>4. CASE Clock
  BY <1>4, NothingTaken DEF Clock, HoldEnds, Settles, Ripen, row, objects, Visible
<1>5. CASE Jobs
  <2>1. ASSUME NEW q \in Asked, AutoHide(q)
        PROVE  LinksInv'
    <3>1. PICK p \in Photos : p = request[q].photo
      BY <2>1 DEF IInv, TypeOK, RequestsOK, AutoHide, NoRequest
    <3>2. UNCHANGED <<status, deletedAt, renditions, revoked, reporter>>
      BY <2>1 DEF AutoHide, objects
    <3>3. CASE UNCHANGED <<hiddenAt, owed>>
      BY <3>2, <3>3, NothingTaken DEF Visible
    <3>4. CASE hiddenAt' = [hiddenAt EXCEPT ![p] = TRUE] /\ Owes(p, {"revoke"})
      <4>1. \A o \in Photos \ {p} : Visible(o) => Visible(o)'
        BY <3>2, <3>4 DEF Visible, IInv, TypeOK
      <4> QED BY <3>2, <3>4, <4>1, TakenIsOwed
    <3> QED BY <2>1, <3>1, <3>3, <3>4 DEF AutoHide
  <2>2. ASSUME NEW p \in Photos, PurgeRow(p)
        PROVE  LinksInv'
    <3>1. \A o \in Photos : Visible(o) => Visible(o)'
      BY <2>2 DEF PurgeRow, Visible, Off, IInv, TypeOK, PurgeOK
    <3> QED BY <2>2, <3>1, NothingTaken DEF PurgeRow, objects
  <2>3. ASSUME NEW p \in Photos, PurgeObjects(p)
        PROVE  LinksInv'
    BY <2>3, NothingTaken DEF PurgeObjects, DropDerivatives, Try, row, Visible
  <2>4. ASSUME AutoHideSelects \/ PurgeSelects \/ CronDies
        PROVE  LinksInv'
    BY <2>4, NothingTaken DEF AutoHideSelects, PurgeSelects, CronDies, row, objects, Visible
  <2> QED BY <1>5, <2>1, <2>2, <2>3, <2>4 DEF Jobs
<1> QED BY <1>1, <1>2, <1>3, <1>4, <1>5 DEF Next

\* While storage answers and no process dies, only a declined request leaves a
\* content served that no row shows: this is all that LinksFollowRows misses.
THEOREM LinksFollow ==
    ASSUME ~Faulty
    PROVE  Spec => []LinksFollowDecisions
<1>1. Init => LinksInv
  BY DEF Init, LinksInv, RestoresOK, Served
<1>2. IInv /\ LinksInv /\ [Next]_vars => LinksInv'
  BY StepLinks
<1>3. IInv /\ LinksInv => LinksFollowDecisions
  <2> SUFFICES ASSUME LinksInv, Quiet, NEW c \in Contents, Served(c)
               PROVE  Declined(c) \/ \E p \in Photos : Hash[p] = c /\ Visible(p)
    BY DEF LinksFollowDecisions
  <2>1. owed = {} /\ \A s \in Reporters : reporter[s].pc # "open"
    BY DEF Quiet, Reports, NoReport
  <2> QED BY <2>1 DEF LinksInv, Backed
<1> QED BY <1>1, <1>2, <1>3, Invariance, PTL DEF Spec

-----------------------------------------------------------------------------
(* Evidence, while no two rows have the same content.                          *)

\* The purge destroys no evidence as long as nobody uploads a picture twice:
\* the shared original is all that PurgeSparesEvidence misses.
THEOREM UnsharedIsSpared ==
    ASSUME \A p, o \in Photos : Hash[p] = Hash[o] => p = o
    PROVE  Spec => []PurgeSparesEvidence
<1>1. IInv => PurgeSparesEvidence
  <2> SUFFICES ASSUME IInv, NEW i \in Incidents, Holds(i), i \notin late
               PROVE  Hash[incident[i].photo] \in originals
    BY DEF PurgeSparesEvidence
  <2>1. incident[i].photo \in Photos
    BY DEF IInv, TypeOK, Holds, NoIncident
  <2>2. Only(incident[i].photo)
    BY <2>1 DEF Only
  <2> QED BY <2>2 DEF IInv, HoldsOK
<1> QED BY <1>1, Invariance, PTL
=============================================================================

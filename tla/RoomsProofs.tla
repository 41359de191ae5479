---------------------------- MODULE RoomsProofs ----------------------------
(* The safety of Rooms for any number of people and of calls under way.         *)
(*                                                                             *)
(* IInv adds to RemovalTakesRight what a call may rely on between its reads and *)
(* its writes: as long as nothing undid what it read, whom it lets in has an    *)
(* account and, if they come by themselves, has taken part and is not barred;   *)
(* who hands the roll on is its host; and whom it admits by right is not        *)
(* barred. Who leaves, closes their account or hands the group over never       *)
(* chooses themselves.                                                          *)
EXTENDS Rooms, TLAPS

\* What a call may rely on, unless what it read was undone.
CallOK(c) ==
    /\ c \in Calls /\ c.kind \notin {"leave", "close"} => c.whom \in People
    /\ c.kind \in {"leave", "close", "handgroup"} => c.whom # c.by
    /\ \/ c.stale
       \/ /\ c.at = "insert" => c.whom \in account
          /\ c.at = "insert" /\ c.kind = "join" => c.whom \notin barred /\ TookPart(c.whom)
          /\ c.at = "admit" /\ c.kind = "upload" => c.whom \notin barred
          /\ c.kind = "handroll" => c.by = host /\ c.whom \in account
CallsOK ==
    /\ asking \subseteq account
    /\ \A r \in Reqs : CallOK(req[r])

\* Kept by every step.
IInv == TypeOK /\ CallsOK /\ RemovalTakesRight

\* A press is counted within its bound.
LEMMA PressedCounts ==
    ASSUME TypeOK, Pressed
    PROVE  presses' \in 0 .. MaxPresses
BY RoomsAssumption DEF TypeOK, Pressed

\* A call goes on as itself.
LEMMA GoIs ==
    ASSUME NEW c \in Calls, NEW stage \in Stages
    PROVE  /\ Go(c, stage) \in Calls /\ Go(c, stage).at = stage
           /\ Go(c, stage).kind = c.kind /\ Go(c, stage).whom = c.whom
           /\ Go(c, stage).by = c.by /\ Go(c, stage).stale = c.stale
BY DEF Go, Calls

\* A call whose reads are undone is the same call.
LEMMA UndoneIs ==
    ASSUME NEW c \in Calls
    PROVE  /\ Undone(c) \in Calls /\ Undone(c).stale
           /\ Undone(c).kind = c.kind /\ Undone(c).whom = c.whom
           /\ Undone(c).by = c.by /\ Undone(c).at = c.at
BY DEF Undone, Calls

\* What is under way is a call.
LEMMA Underway ==
    ASSUME TypeOK, NEW r \in Reqs, req[r].kind # "none"
    PROVE  req[r] \in Calls
BY DEF TypeOK, Idle

\* So are those under way when some of them are.
LEMMA UndoingIs ==
    ASSUME TypeOK, NEW calls \in SUBSET Reqs, \A q \in calls : req[q] # Idle,
           req' = Undoing(calls)
    PROVE  /\ req' \in [Reqs -> Calls \cup {Idle}]
           /\ \A q \in calls : req'[q].stale
           /\ \A q \in Reqs : /\ req'[q].kind = req[q].kind /\ req'[q].at = req[q].at
                              /\ req'[q].by = req[q].by /\ req'[q].whom = req[q].whom
                              /\ q \in calls \/ req'[q] = req[q]
<1>1. \A q \in calls : req[q] \in Calls
  BY DEF TypeOK
<1>2. \A q \in Reqs : req'[q] = IF q \in calls THEN Undone(req[q]) ELSE req[q]
  BY DEF Undoing
<1>3. req' \in [Reqs -> Calls \cup {Idle}]
  BY <1>1, UndoneIs DEF Undoing, TypeOK
<1> QED BY <1>1, <1>2, <1>3, UndoneIs

\* A call that starts from what holds may rely on it.
LEMMA StartsKeep ==
    ASSUME TypeOK, CallsOK, NEW r \in Reqs, NEW c \in Calls, CallOK(c), Starts(r, c),
           UNCHANGED <<barred, account, took, host, grouped>>, asking' = asking
    PROVE  req' \in [Reqs -> Calls \cup {Idle}] /\ CallsOK'
<1>1. req' = [req EXCEPT ![r] = c]
  BY DEF Starts
<1> QED BY <1>1 DEF TypeOK, CallsOK, CallOK, TookPart

\* One that goes on to write relies on no more than before.
LEMMA GoesKeep ==
    ASSUME TypeOK, CallsOK, NEW r \in Reqs, req[r] # Idle,
           NEW stage \in Stages \ {"insert", "admit"}, Goes(r, stage),
           barred' \subseteq barred, UNCHANGED <<account, took, host, grouped>>, asking' = asking
    PROVE  req' \in [Reqs -> Calls \cup {Idle}] /\ CallsOK'
<1> DEFINE c == Go(req[r], stage)
<1>1. req[r] \in Calls /\ CallOK(req[r])
  BY DEF TypeOK, CallsOK
<1>2. c \in Calls /\ CallOK(c)
  BY <1>1, GoIs DEF CallOK, TookPart
<1>3. req' = [req EXCEPT ![r] = c]
  BY DEF Goes
<1> HIDE DEF c
<1> QED BY <1>2, <1>3 DEF TypeOK, CallsOK, CallOK, TookPart

\* One that ends relies on nothing.
LEMMA EndsKeep ==
    ASSUME TypeOK, CallsOK, NEW r \in Reqs, Ends(r), asking' \subseteq asking,
           barred' \subseteq barred, UNCHANGED <<account, took, host, grouped>>
    PROVE  req' \in [Reqs -> Calls \cup {Idle}] /\ CallsOK'
<1>1. req' = [req EXCEPT ![r] = Idle]
  BY DEF Ends
<1>2. Idle \notin Calls /\ CallOK(Idle)
  BY DEF CallOK, TookPart, Idle, Calls, Kinds
<1>3. Idle.kind = "none" /\ Idle.at = "idle"
  BY DEF Idle
<1> QED BY <1>1, <1>2, <1>3 DEF TypeOK, CallsOK, CallOK, TookPart

\* An invitation keeps IInv.
LEMMA InviteKeeps ==
    ASSUME IInv, NEW a \in People, NEW p \in People, Invite(a, p)
    PROVE  IInv'
<1>1. presses' \in 0 .. MaxPresses
  BY PressedCounts DEF IInv, Invite
<1>2. TypeOK'
  BY RoomsAssumption, <1>1
  DEF IInv, TypeOK, Invite, roll, Idle
<1>3. (CallsOK /\ RemovalTakesRight)'
  BY DEF IInv, CallsOK, RemovalTakesRight, CallOK, TookPart, Is, Invite, roll
<1> QED BY <1>2, <1>3 DEF IInv

\* Asking to join keeps IInv.
LEMMA AskToJoinKeeps ==
    ASSUME IInv, NEW p \in People, AskToJoin(p)
    PROVE  IInv'
<1>1. presses' \in 0 .. MaxPresses
  BY PressedCounts DEF IInv, AskToJoin
<1>2. TypeOK'
  BY RoomsAssumption, <1>1
  DEF IInv, TypeOK, AskToJoin, roll, Idle
<1>3. CallsOK'
  BY RoomsAssumption, <1>1
  DEF IInv, TypeOK, CallsOK, AskToJoin, roll, Idle, CallOK, TookPart
<1>4. RemovalTakesRight'
  BY DEF IInv, RemovalTakesRight, Is, AskToJoin, roll
<1> QED BY <1>2, <1>3, <1>4 DEF IInv

\* The reads of a joining keeps IInv.
LEMMA JoinKeeps ==
    ASSUME IInv, NEW r \in Reqs, NEW p \in People, Join(r, p)
    PROVE  IInv'
<1>1. presses' \in 0 .. MaxPresses
  BY PressedCounts DEF IInv, Join
<1>2. req' \in [Reqs -> Calls \cup {Idle}] /\ CallsOK'
  <2> DEFINE c == Call("join", "insert", p, p)
  <2>1. c \in Calls /\ CallOK(c)
    BY DEF IInv, TypeOK, CallsOK, CallOK, TookPart, Call, Calls, Kinds, Stages, Join, Participated
  <2>2. Starts(r, c) /\ UNCHANGED <<barred, account, took, host, grouped>> /\ asking' = asking
    BY DEF Join, group, roll
  <2> QED BY <2>1, <2>2, StartsKeep DEF IInv
<1>3. TypeOK'
  BY RoomsAssumption, <1>1, <1>2
  DEF IInv, TypeOK, Join, Starts, Call, group, roll, Idle
<1>4. RemovalTakesRight'
  BY RoomsAssumption, <1>1, <1>2
  DEF IInv, TypeOK, RemovalTakesRight, Join, Starts, Call, group, roll, Idle, Is
<1> QED BY <1>1, <1>2, <1>3, <1>4 DEF IInv

\* The reads of an approval keeps IInv.
LEMMA ApproveKeeps ==
    ASSUME IInv, NEW r \in Reqs, NEW a \in People, NEW p \in People, Approve(r, a, p)
    PROVE  IInv'
<1>1. presses' \in 0 .. MaxPresses
  BY PressedCounts DEF IInv, Approve
<1>2. req' \in [Reqs -> Calls \cup {Idle}] /\ CallsOK'
  <2> DEFINE c == Call("approve", "insert", a, p)
  <2>1. c \in Calls /\ CallOK(c)
    BY DEF IInv, TypeOK, CallsOK, CallOK, TookPart, Call, Calls, Kinds, Stages, Approve
  <2>2. Starts(r, c) /\ UNCHANGED <<barred, account, took, host, grouped>> /\ asking' = asking
    BY DEF Approve, group, roll
  <2> QED BY <2>1, <2>2, StartsKeep DEF IInv
<1>3. TypeOK'
  BY RoomsAssumption, <1>1, <1>2
  DEF IInv, TypeOK, Approve, Starts, Call, group, roll, Idle
<1>4. RemovalTakesRight'
  BY RoomsAssumption, <1>1, <1>2
  DEF IInv, TypeOK, RemovalTakesRight, Approve, Starts, Call, group, roll, Idle, Is
<1> QED BY <1>1, <1>2, <1>3, <1>4 DEF IInv

\* A decline keeps IInv.
LEMMA DeclineKeeps ==
    ASSUME IInv, NEW a \in People, NEW p \in People, Decline(a, p)
    PROVE  IInv'
<1>1. presses' \in 0 .. MaxPresses
  BY PressedCounts DEF IInv, Decline
<1>2. TypeOK'
  BY RoomsAssumption, <1>1
  DEF IInv, TypeOK, Decline, roll, Idle
<1>3. CallsOK'
  BY RoomsAssumption, <1>1
  DEF IInv, TypeOK, CallsOK, Decline, roll, Idle, CallOK, TookPart
<1>4. RemovalTakesRight'
  BY DEF IInv, RemovalTakesRight, Is, Decline, roll
<1> QED BY <1>2, <1>3, <1>4 DEF IInv

\* An accepted invitation keeps IInv.
LEMMA AcceptKeeps ==
    ASSUME IInv, NEW r \in Reqs, NEW p \in People, Accept(r, p)
    PROVE  IInv'
<1>1. presses' \in 0 .. MaxPresses
  BY PressedCounts DEF IInv, Accept
<1>2. req' \in [Reqs -> Calls \cup {Idle}] /\ CallsOK'
  <2> DEFINE c == Call("accept", "insert", p, p)
  <2>1. c \in Calls /\ CallOK(c)
    BY DEF IInv, TypeOK, CallsOK, CallOK, TookPart, Call, Calls, Kinds, Stages, Accept
  <2>2. Starts(r, c) /\ UNCHANGED <<barred, account, took, host, grouped>> /\ asking' = asking
    BY DEF Accept, roll
  <2> QED BY <2>1, <2>2, StartsKeep DEF IInv
<1>3. TypeOK'
  BY RoomsAssumption, <1>1, <1>2
  DEF IInv, TypeOK, Accept, Starts, Call, roll, Idle
<1>4. RemovalTakesRight'
  BY RoomsAssumption, <1>1, <1>2
  DEF IInv, TypeOK, RemovalTakesRight, Accept, Starts, Call, roll, Idle, Is
<1> QED BY <1>1, <1>2, <1>3, <1>4 DEF IInv

\* A declined one keeps IInv.
LEMMA RefuseKeeps ==
    ASSUME IInv, NEW p \in People, Refuse(p)
    PROVE  IInv'
<1>1. presses' \in 0 .. MaxPresses
  BY PressedCounts DEF IInv, Refuse
<1>2. TypeOK'
  BY RoomsAssumption, <1>1
  DEF IInv, TypeOK, Refuse, roll, Idle
<1>3. (CallsOK /\ RemovalTakesRight)'
  BY DEF IInv, CallsOK, RemovalTakesRight, CallOK, TookPart, Is, Refuse, roll
<1> QED BY <1>2, <1>3 DEF IInv

\* The insert of a member keeps IInv.
LEMMA InsertKeeps ==
    ASSUME IInv, NEW r \in Reqs, Insert(r)
    PROVE  IInv'
<1>1. req' \in [Reqs -> Calls \cup {Idle}] /\ CallsOK'
  <2>1. Goes(r, "clear") /\ req[r] # Idle
    BY DEF Insert, Is, Idle
  <2>2. UNCHANGED <<barred, account, took, host, grouped>> /\ asking' = asking
    BY DEF Insert, roll
  <2> QED BY <2>1, <2>2, GoesKeep DEF IInv, Stages
<1>2. TypeOK'
  BY RoomsAssumption, <1>1
  DEF IInv, TypeOK, Insert, Goes, roll, Idle
<1>3. RemovalTakesRight'
  BY RoomsAssumption, <1>1
  DEF IInv, TypeOK, RemovalTakesRight, Insert, Goes, roll, Idle, Is
<1> QED BY <1>1, <1>2, <1>3 DEF IInv

\* The clearing of a removal keeps IInv.
LEMMA ClearKeeps ==
    ASSUME IInv, NEW r \in Reqs, Clear(r)
    PROVE  IInv'
<1>1. req' \in [Reqs -> Calls \cup {Idle}] /\ CallsOK'
  <2>1. (Goes(r, "resolve") \/ Ends(r)) /\ req[r] # Idle
    BY DEF Clear, Idle
  <2>2. barred' \subseteq barred /\ UNCHANGED <<asking, account, took, host, grouped>>
    BY DEF Clear, roll
  <2> QED BY <2>1, <2>2, GoesKeep, EndsKeep DEF IInv, Stages
<1>2. TypeOK'
  BY <1>1, RoomsAssumption DEF IInv, TypeOK, Clear, roll
<1>3. RemovalTakesRight'
  <2>1. \A q \in Reqs : Is(q, "remove", "unseat") => req'[q] = req[q]
    BY DEF Clear, Is, Goes, Ends, IInv, TypeOK
  <2> QED BY <2>1 DEF IInv, TypeOK, RemovalTakesRight, Is, Clear, roll
<1> QED BY <1>1, <1>2, <1>3 DEF IInv

\* The answer to a request keeps IInv.
LEMMA ResolveKeeps ==
    ASSUME IInv, NEW r \in Reqs, Resolve(r)
    PROVE  IInv'
<1>1. req' \in [Reqs -> Calls \cup {Idle}] /\ CallsOK'
  <2>1. Ends(r) /\ barred' = barred /\ asking' \subseteq asking
    BY DEF Resolve, group
  <2>2. UNCHANGED <<account, took, host, grouped>>
    BY DEF Resolve, roll
  <2> QED BY <2>1, <2>2, EndsKeep DEF IInv
<1>2. TypeOK'
  BY RoomsAssumption, <1>1
  DEF IInv, TypeOK, Resolve, Ends, roll, Idle
<1>3. RemovalTakesRight'
  BY RoomsAssumption, <1>1
  DEF IInv, TypeOK, RemovalTakesRight, Resolve, Ends, roll, Idle, Is
<1> QED BY <1>1, <1>2, <1>3 DEF IInv

\* The reads of a removal keeps IInv.
LEMMA RemoveKeeps ==
    ASSUME IInv, NEW r \in Reqs, NEW a \in People, NEW p \in People, Remove(r, a, p)
    PROVE  IInv'
<1>1. presses' \in 0 .. MaxPresses
  BY PressedCounts DEF IInv, Remove
<1>2. req' \in [Reqs -> Calls \cup {Idle}] /\ CallsOK'
  <2> DEFINE c == Call("remove", "delete", a, p)
  <2>1. c \in Calls /\ CallOK(c)
    BY DEF IInv, TypeOK, CallsOK, CallOK, TookPart, Call, Calls, Kinds, Stages, Remove
  <2>2. Starts(r, c) /\ UNCHANGED <<barred, account, took, host, grouped>> /\ asking' = asking
    BY DEF Remove, group, roll
  <2> QED BY <2>1, <2>2, StartsKeep DEF IInv
<1>3. TypeOK'
  BY RoomsAssumption, <1>1, <1>2
  DEF IInv, TypeOK, Remove, Starts, Call, group, roll, Idle
<1>4. RemovalTakesRight'
  BY RoomsAssumption, <1>1, <1>2
  DEF IInv, TypeOK, RemovalTakesRight, Remove, Starts, Call, group, roll, Idle, Is
<1> QED BY <1>1, <1>2, <1>3, <1>4 DEF IInv

\* The removal of a member keeps IInv.
LEMMA DeleteKeeps ==
    ASSUME IInv, NEW r \in Reqs, Delete(r)
    PROVE  IInv'
<1>1. req' \in [Reqs -> Calls \cup {Idle}] /\ CallsOK'
  <2>1. Goes(r, "bar") /\ req[r] # Idle
    BY DEF Delete, Is, Idle
  <2>2. UNCHANGED <<barred, account, took, host, grouped>> /\ asking' = asking
    BY DEF Delete, roll
  <2> QED BY <2>1, <2>2, GoesKeep DEF IInv, Stages
<1>2. TypeOK'
  BY RoomsAssumption, <1>1
  DEF IInv, TypeOK, Delete, Is, Goes, roll, Idle
<1>3. RemovalTakesRight'
  BY RoomsAssumption, <1>1
  DEF IInv, TypeOK, RemovalTakesRight, Delete, Is, Goes, roll, Idle
<1> QED BY <1>1, <1>2, <1>3 DEF IInv

\* The record of a removal keeps IInv.
LEMMA BarKeeps ==
    ASSUME IInv, NEW r \in Reqs, Bar(r)
    PROVE  IInv'
<1>1. req[r] \in Calls /\ req[r].whom \in People /\ req[r].kind = "remove"
  BY Underway DEF IInv, CallsOK, CallOK, TookPart, Bar, Is
<1>2. /\ req'[r] \in Calls /\ CallOK(req[r])'
      /\ req'[r].kind = "remove" /\ req'[r].at = "unseat" /\ req'[r].whom = req[r].whom
  <2>1. req'[r] = Go(req[r], "unseat")
    BY DEF Bar
  <2> QED BY <1>1, <2>1, GoIs DEF CallOK, TookPart, Stages
<1>3. ASSUME NEW q \in Reqs, q # r
      PROVE  /\ req'[q] \in Calls \cup {Idle} /\ CallOK(req[q])'
             /\ Is(q, "remove", "unseat") => req'[q] = req[q]
  <2>1. CallOK(req[q]) /\ req[q] \in Calls \cup {Idle}
    BY DEF IInv, TypeOK, CallsOK
  <2>2. barred' = barred \cup {req[r].whom} /\ UNCHANGED <<account, took, host, grouped>>
    BY DEF Bar, roll
  <2>3. CASE TrustsIn(req[q], req[r].whom)
    <3>1. req[q] \in Calls /\ req'[q] = Undone(req[q]) /\ req[q].kind # "remove"
      BY <1>3, <2>1, <2>3 DEF Bar, TrustsIn, Idle
    <3> QED BY <2>1, <3>1, UndoneIs DEF CallOK, TookPart, Is
  <2>4. CASE ~TrustsIn(req[q], req[r].whom)
    <3>1. req'[q] = req[q]
      BY <1>3, <2>4 DEF Bar
    <3>2. req[q].kind \in {"join", "upload"} => req[q].whom # req[r].whom
      BY <2>4 DEF TrustsIn
    <3> QED BY <2>1, <2>2, <3>1, <3>2 DEF CallOK, TookPart
  <2> QED BY <2>3, <2>4
<1>4. req' \in [Reqs -> Calls \cup {Idle}]
  BY <1>2, <1>3 DEF Bar
<1>5. TypeOK'
  BY <1>1, <1>4 DEF IInv, TypeOK, Bar, roll
<1>6. CallsOK'
  <2>1. asking' \subseteq account'
    BY DEF IInv, CallsOK, Bar, roll
  <2> QED BY <1>2, <1>3, <2>1 DEF CallsOK
<1>7. RemovalTakesRight'
  <2>1. \A q \in Reqs : Is(q, "remove", "unseat") => req'[q] = req[q]
    BY <1>3 DEF Bar, Is
  <2>2. barred' = barred \cup {req[r].whom} /\ UNCHANGED <<seat, grouped, kept>>
    BY DEF Bar, roll
  <2> QED BY <1>2, <2>1, <2>2 DEF IInv, RemovalTakesRight, Is
<1> QED BY <1>5, <1>6, <1>7 DEF IInv

\* The end of a right keeps IInv.
LEMMA UnseatKeeps ==
    ASSUME IInv, NEW r \in Reqs, Unseat(r)
    PROVE  IInv'
<1>1. req' \in [Reqs -> Calls \cup {Idle}] /\ CallsOK'
  <2>1. Ends(r) /\ barred' = barred /\ asking' \subseteq asking
    BY DEF Unseat, group
  <2>2. UNCHANGED <<account, took, host, grouped>>
    BY DEF Unseat, group
  <2> QED BY <2>1, <2>2, EndsKeep DEF IInv
<1>2. TypeOK'
  BY RoomsAssumption, <1>1
  DEF IInv, TypeOK, Unseat, Is, Ends, group, Idle
<1>3. RemovalTakesRight'
  BY RoomsAssumption, <1>1
  DEF IInv, TypeOK, RemovalTakesRight, Unseat, Is, Ends, group, Idle
<1> QED BY <1>1, <1>2, <1>3 DEF IInv

\* The reads of a leaving keeps IInv.
LEMMA LeaveKeeps ==
    ASSUME IInv, NEW r \in Reqs, NEW p \in People, Leave(r, p)
    PROVE  IInv'
<1>1. presses' \in 0 .. MaxPresses
  BY PressedCounts DEF IInv, Leave
<1>2. req' \in [Reqs -> Calls \cup {Idle}] /\ CallsOK'
  <2>1. PICK h \in Heirs({p}) : Starts(r, Call("leave", "commit", p, h))
    BY DEF Leave
  <2>2. h \in People \cup {Nobody} /\ h # p
    BY <2>1, RoomsAssumption DEF Heirs, Members
  <2> DEFINE c == Call("leave", "commit", p, h)
  <2>3. c \in Calls /\ CallOK(c)
    BY <2>2 DEF CallOK, TookPart, Call, Calls, Kinds, Stages
  <2>4. UNCHANGED <<barred, account, took, host, grouped>> /\ asking' = asking
    BY DEF Leave, group, roll
  <2> QED BY <2>1, <2>3, <2>4, StartsKeep DEF IInv
<1>3. TypeOK'
  BY RoomsAssumption, <1>1, <1>2
  DEF IInv, TypeOK, Leave, Heirs, Starts, Call, group, roll, Members, Admins, Idle
<1>4. RemovalTakesRight'
  BY RoomsAssumption, <1>1, <1>2
  DEF IInv, TypeOK, RemovalTakesRight, Leave, Heirs, Starts, Call, group, roll,
      Members, Admins, Idle, Is
<1> QED BY <1>1, <1>2, <1>3, <1>4 DEF IInv

\* The commit of a leaving keeps IInv.
LEMMA CommitLeaveKeeps ==
    ASSUME IInv, NEW r \in Reqs, CommitLeave(r)
    PROVE  IInv'
<1>1. req' \in [Reqs -> Calls \cup {Idle}] /\ CallsOK'
  <2>1. Ends(r) /\ barred' = barred /\ asking' \subseteq asking
    BY DEF CommitLeave, group
  <2>2. UNCHANGED <<account, took, host, grouped>>
    BY DEF CommitLeave, roll
  <2> QED BY <2>1, <2>2, EndsKeep DEF IInv
<1>2. TypeOK'
  BY RoomsAssumption, <1>1
  DEF IInv, TypeOK, CommitLeave, Is, Ends, roll, Idle
<1>3. RemovalTakesRight'
  BY RoomsAssumption, <1>1
  DEF IInv, TypeOK, RemovalTakesRight, CommitLeave, Is, Ends, roll, Idle
<1> QED BY <1>1, <1>2, <1>3 DEF IInv

\* The checks of a hand-over of the group keeps IInv.
LEMMA HandOverGroupKeeps ==
    ASSUME IInv, NEW r \in Reqs, NEW a \in People, NEW p \in People, HandOverGroup(r, a, p)
    PROVE  IInv'
<1>1. presses' \in 0 .. MaxPresses
  BY PressedCounts DEF IInv, HandOverGroup
<1>2. req' \in [Reqs -> Calls \cup {Idle}] /\ CallsOK'
  <2> DEFINE c == Call("handgroup", "commit", a, p)
  <2>1. c \in Calls /\ CallOK(c)
    BY DEF IInv, TypeOK, CallsOK, CallOK, TookPart, Call, Calls, Kinds, Stages, HandOverGroup
  <2>2. Starts(r, c) /\ UNCHANGED <<barred, account, took, host, grouped>> /\ asking' = asking
    BY DEF HandOverGroup, group, roll
  <2> QED BY <2>1, <2>2, StartsKeep DEF IInv
<1>3. TypeOK'
  BY RoomsAssumption, <1>1, <1>2
  DEF IInv, TypeOK, HandOverGroup, Starts, Call, group, roll, Idle
<1>4. RemovalTakesRight'
  BY RoomsAssumption, <1>1, <1>2
  DEF IInv, TypeOK, RemovalTakesRight, HandOverGroup, Starts, Call, group, roll,
      Idle, Is
<1> QED BY <1>1, <1>2, <1>3, <1>4 DEF IInv

\* Its commit keeps IInv.
LEMMA CommitHandOverGroupKeeps ==
    ASSUME IInv, NEW r \in Reqs, CommitHandOverGroup(r)
    PROVE  IInv'
<1>1. req' \in [Reqs -> Calls \cup {Idle}] /\ CallsOK'
  <2>1. Ends(r) /\ barred' = barred /\ asking' \subseteq asking
    BY DEF CommitHandOverGroup, group
  <2>2. UNCHANGED <<account, took, host, grouped>>
    BY DEF CommitHandOverGroup, roll
  <2> QED BY <2>1, <2>2, EndsKeep DEF IInv
<1>2. TypeOK'
  BY RoomsAssumption, <1>1
  DEF IInv, TypeOK, CommitHandOverGroup, Is, Ends, roll, Idle
<1>3. RemovalTakesRight'
  BY RoomsAssumption, <1>1
  DEF IInv, TypeOK, RemovalTakesRight, CommitHandOverGroup, Is, Ends, roll, Idle
<1> QED BY <1>1, <1>2, <1>3 DEF IInv

\* A mending keeps IInv.
LEMMA OpenKeeps ==
    ASSUME IInv, NEW p \in People, Open(p)
    PROVE  IInv'
<1>1. TypeOK'
  BY RoomsAssumption
  DEF IInv, TypeOK, Open, Heirs, roll, Members, Admins, Idle
<1>2. (CallsOK /\ RemovalTakesRight)'
  BY DEF IInv, CallsOK, RemovalTakesRight, CallOK, TookPart, Is, Open, Heirs, roll, Members,
         Admins
<1> QED BY <1>1, <1>2 DEF IInv

\* A visit keeps IInv.
LEMMA VisitKeeps ==
    ASSUME IInv, NEW p \in People, Visit(p)
    PROVE  IInv'
<1>1. presses' \in 0 .. MaxPresses
  BY PressedCounts DEF IInv, Visit
<1>2. TypeOK'
  BY RoomsAssumption, <1>1
  DEF IInv, TypeOK, Visit, group, Idle
<1>3. RemovalTakesRight'
  BY RoomsAssumption, <1>1
  DEF IInv, TypeOK, RemovalTakesRight, Visit, group, Idle, Is
<1>4. CallsOK'
  BY DEF IInv, CallsOK, CallOK, TookPart, Visit, group
<1> QED BY <1>2, <1>3, <1>4 DEF IInv

\* A contribution keeps IInv.
LEMMA ContributeKeeps ==
    ASSUME IInv, NEW p \in People, Contribute(p)
    PROVE  IInv'
<1>1. presses' \in 0 .. MaxPresses
  BY PressedCounts DEF IInv, Contribute
<1>2. TypeOK'
  BY RoomsAssumption, <1>1
  DEF IInv, TypeOK, Contribute, group, Idle
<1>3. CallsOK'
  <2>1. took \subseteq took' /\ UNCHANGED <<barred, asking, account, host, grouped, req>>
    BY DEF Contribute, group
  <2> QED BY <2>1 DEF IInv, CallsOK, CallOK, TookPart
<1>4. RemovalTakesRight'
  BY DEF IInv, RemovalTakesRight, Is, Contribute, group
<1> QED BY <1>2, <1>3, <1>4 DEF IInv

\* Its taking back keeps IInv: a joining of theirs has read what is no more,
\* unless they made the roll.
LEMMA TakeBackKeeps ==
    ASSUME IInv, NEW p \in People, TakeBack(p)
    PROVE  IInv'
<1> DEFINE calls == {q \in Reqs : JoinsAs(req[q], p) /\ p # host}
<1>1. presses' \in 0 .. MaxPresses
  BY PressedCounts DEF IInv, TakeBack
<1>2. /\ req' = Undoing(calls) /\ took' = took \ {p}
      /\ UNCHANGED <<role, barred, asking, invited, account, seat, host, grouped, kept>>
  BY DEF TakeBack, group
<1>3. \A q \in calls : req[q] # Idle
  BY DEF JoinsAs, Idle
<1>4. /\ req' \in [Reqs -> Calls \cup {Idle}]
      /\ \A q \in calls : req'[q].stale
      /\ \A q \in Reqs : /\ req'[q].kind = req[q].kind /\ req'[q].at = req[q].at
                         /\ req'[q].by = req[q].by /\ req'[q].whom = req[q].whom
                         /\ q \in calls \/ req'[q] = req[q]
  BY <1>2, <1>3, UndoingIs DEF IInv
<1>5. TypeOK'
  BY <1>1, <1>2, <1>4 DEF IInv, TypeOK
<1>6. ASSUME NEW q \in Reqs
      PROVE  CallOK(req[q])'
  <2>1. CallOK(req[q])
    BY DEF IInv, CallsOK
  <2>2. CASE q \in calls
    BY <1>4, <2>1, <2>2 DEF CallOK, JoinsAs
  <2>3. CASE q \notin calls
    BY <1>2, <1>4, <2>1, <2>3 DEF CallOK, TookPart, JoinsAs
  <2> QED BY <2>2, <2>3
<1>7. CallsOK'
  BY <1>2, <1>6 DEF IInv, CallsOK
<1>8. RemovalTakesRight'
  BY <1>2, <1>4 DEF IInv, RemovalTakesRight, Is
<1> QED BY <1>5, <1>7, <1>8 DEF IInv

\* The checks of a presign keeps IInv.
LEMMA UploadKeeps ==
    ASSUME IInv, NEW r \in Reqs, NEW p \in People, Upload(r, p)
    PROVE  IInv'
<1>1. presses' \in 0 .. MaxPresses
  BY PressedCounts DEF IInv, Upload
<1>2. req' \in [Reqs -> Calls \cup {Idle}] /\ CallsOK'
  <2> DEFINE c == Call("upload", IF grouped /\ p \notin barred THEN "admit" ELSE "record", p, p)
  <2>1. c \in Calls /\ CallOK(c)
    BY DEF IInv, TypeOK, CallsOK, CallOK, TookPart, Call, Calls, Kinds, Stages, Upload
  <2>2. Starts(r, c) /\ UNCHANGED <<barred, account, took, host, grouped>> /\ asking' = asking
    BY DEF Upload, group, roll
  <2> QED BY <2>1, <2>2, StartsKeep DEF IInv
<1>3. TypeOK'
  BY RoomsAssumption, <1>1, <1>2
  DEF IInv, TypeOK, Upload, Starts, Call, group, roll, Idle
<1>4. RemovalTakesRight'
  BY RoomsAssumption, <1>1, <1>2
  DEF IInv, TypeOK, RemovalTakesRight, Upload, Starts, Call, group, roll, Idle, Is
<1> QED BY <1>1, <1>2, <1>3, <1>4 DEF IInv

\* The row of a presign keeps IInv.
LEMMA RecordKeeps ==
    ASSUME IInv, NEW r \in Reqs, Record(r)
    PROVE  IInv'
<1>1. req' \in [Reqs -> Calls \cup {Idle}] /\ CallsOK'
  <2>1. Ends(r) /\ barred' = barred /\ asking' \subseteq asking
    BY DEF Record, group
  <2>2. UNCHANGED <<account, took, host, grouped>>
    BY DEF Record, group
  <2> QED BY <2>1, <2>2, EndsKeep DEF IInv
<1>2. req[r].whom \in People
  <2>1. req[r] # Idle /\ req[r].kind \notin {"leave", "close"}
    BY DEF Record, Is, Idle
  <2> QED BY <2>1 DEF IInv, TypeOK, CallsOK, CallOK, TookPart
<1>3. TypeOK'
  <2>1. seat' \in [People -> {"out", "in", "right"}]
    BY <1>2 DEF IInv, TypeOK, Record
  <2>2. kept' \subseteq People
    BY <1>2 DEF IInv, TypeOK, Record
  <2> QED BY <1>1, <2>1, <2>2 DEF IInv, TypeOK, Record, group
<1>4. RemovalTakesRight'
  <2>1. CallOK(req[r])
    BY DEF IInv, CallsOK
  <2>2. \A q \in Reqs : Is(q, "remove", "unseat") => req'[q] = req[q]
    BY DEF IInv, TypeOK, Record, Ends, Is
  <2>3. req[r].at = "admit" /\ ~req[r].stale => req[r].whom \notin barred
    BY <2>1 DEF CallOK, TookPart, Record
  <2>4. CASE req[r].stale
    BY <2>2, <2>4, <1>2 DEF IInv, TypeOK, RemovalTakesRight, Record, Is, group
  <2>5. CASE ~req[r].stale
    BY <2>2, <2>3, <2>5, <1>2 DEF IInv, TypeOK, RemovalTakesRight, Record, Is, group
  <2> QED BY <2>4, <2>5
<1> QED BY <1>1, <1>2, <1>3, <1>4 DEF IInv

\* Leaving the roll keeps IInv.
LEMMA LeaveEventKeeps ==
    ASSUME IInv, NEW p \in People, LeaveEvent(p)
    PROVE  IInv'
<1>1. presses' \in 0 .. MaxPresses
  BY PressedCounts DEF IInv, LeaveEvent
<1>2. TypeOK'
  BY RoomsAssumption, <1>1
  DEF IInv, TypeOK, LeaveEvent, group, Idle
<1>3. RemovalTakesRight'
  BY RoomsAssumption, <1>1
  DEF IInv, TypeOK, RemovalTakesRight, LeaveEvent, group, Idle, Is
<1>4. CallsOK'
  BY DEF IInv, CallsOK, CallOK, TookPart, LeaveEvent, group
<1> QED BY <1>2, <1>3, <1>4 DEF IInv

\* Being taken out of the roll keeps IInv.
LEMMA RemoveFromEventKeeps ==
    ASSUME IInv, NEW a \in People, NEW p \in People, RemoveFromEvent(a, p)
    PROVE  IInv'
<1>1. presses' \in 0 .. MaxPresses
  BY PressedCounts DEF IInv, RemoveFromEvent
<1>2. TypeOK'
  BY RoomsAssumption, <1>1
  DEF IInv, TypeOK, RemoveFromEvent, group, Idle
<1>3. RemovalTakesRight'
  BY RoomsAssumption, <1>1
  DEF IInv, TypeOK, RemovalTakesRight, RemoveFromEvent, group, Idle, Is
<1>4. CallsOK'
  BY DEF IInv, CallsOK, CallOK, TookPart, RemoveFromEvent, group
<1> QED BY <1>2, <1>3, <1>4 DEF IInv

\* The roll leaving its group keeps IInv: whoever was joining for having taken
\* part in it has read what is no more.
LEMMA TakeOutOfGroupKeeps ==
    ASSUME IInv, NEW a \in People, TakeOutOfGroup(a)
    PROVE  IInv'
<1> DEFINE calls == {q \in Reqs : req[q].kind = "join"}
<1>1. presses' \in 0 .. MaxPresses
  BY PressedCounts DEF IInv, TakeOutOfGroup
<1>2. /\ req' = Undoing(calls) /\ grouped' = FALSE
      /\ seat' = [p \in People |-> IF role[p] # "none" THEN "right" ELSE seat[p]]
      /\ UNCHANGED <<role, barred, asking, invited, account, took, host, kept>>
  BY DEF TakeOutOfGroup, group
<1>3. \A q \in calls : req[q] # Idle
  BY DEF Idle
<1>4. /\ req' \in [Reqs -> Calls \cup {Idle}]
      /\ \A q \in calls : req'[q].stale
      /\ \A q \in Reqs : /\ req'[q].kind = req[q].kind /\ req'[q].at = req[q].at
                         /\ req'[q].by = req[q].by /\ req'[q].whom = req[q].whom
                         /\ q \in calls \/ req'[q] = req[q]
  BY <1>2, <1>3, UndoingIs DEF IInv
<1>5. TypeOK'
  BY <1>1, <1>2, <1>4 DEF IInv, TypeOK
<1>6. ASSUME NEW q \in Reqs
      PROVE  CallOK(req[q])'
  <2>1. CallOK(req[q])
    BY DEF IInv, CallsOK
  <2>2. CASE q \in calls
    <3>1. req[q] \in Calls
      BY <1>3, <2>2 DEF IInv, TypeOK
    <3> QED BY <1>4, <2>1, <2>2, <3>1 DEF CallOK
  <2>3. CASE q \notin calls
    BY <1>2, <1>4, <2>1, <2>3 DEF CallOK
  <2> QED BY <2>2, <2>3
<1>7. CallsOK'
  BY <1>2, <1>6 DEF IInv, CallsOK
<1>8. RemovalTakesRight'
  <2>1. ~grouped'
    BY <1>2
  <2> QED BY <2>1 DEF RemovalTakesRight, Is
<1> QED BY <1>5, <1>7, <1>8 DEF IInv

\* The checks of a hand-over of the roll keeps IInv.
LEMMA HandOverRollKeeps ==
    ASSUME IInv, NEW r \in Reqs, NEW a \in People, NEW p \in People, HandOverRoll(r, a, p)
    PROVE  IInv'
<1>1. presses' \in 0 .. MaxPresses
  BY PressedCounts DEF IInv, HandOverRoll
<1>2. req' \in [Reqs -> Calls \cup {Idle}] /\ CallsOK'
  <2> DEFINE c == Call("handroll", "commit", a, p)
  <2>1. c \in Calls /\ CallOK(c)
    BY DEF IInv, TypeOK, CallsOK, CallOK, TookPart, Call, Calls, Kinds, Stages, HandOverRoll
  <2>2. Starts(r, c) /\ UNCHANGED <<barred, account, took, host, grouped>> /\ asking' = asking
    BY DEF HandOverRoll, group, roll
  <2> QED BY <2>1, <2>2, StartsKeep DEF IInv
<1>3. TypeOK'
  BY RoomsAssumption, <1>1, <1>2
  DEF IInv, TypeOK, HandOverRoll, Starts, Call, group, roll, Idle
<1>4. RemovalTakesRight'
  BY RoomsAssumption, <1>1, <1>2
  DEF IInv, TypeOK, RemovalTakesRight, HandOverRoll, Starts, Call, group, roll,
      Idle, Is
<1> QED BY <1>1, <1>2, <1>3, <1>4 DEF IInv

\* Its commit keeps IInv: the host it is taken from has taken part, if they gave it.
LEMMA CommitHandOverRollKeeps ==
    ASSUME IInv, NEW r \in Reqs, CommitHandOverRoll(r)
    PROVE  IInv'
<1> DEFINE a == req[r].by
<1>1. /\ req[r].kind = "handroll" /\ req[r].whom \in People /\ a \in People
      /\ took' = took \cup {a}
      /\ UNCHANGED <<barred, asking, account, grouped, kept>>
  BY Underway DEF IInv, CallsOK, CallOK, CommitHandOverRoll, Is, Calls, group
<1>2. ASSUME NEW q \in Reqs
      PROVE  /\ req'[q] \in Calls \cup {Idle} /\ CallOK(req[q])'
             /\ Is(q, "remove", "unseat") => req'[q] = req[q]
  <2> DEFINE marked == HandsOn(req[q]) \/ (a # host /\ JoinsAs(req[q], host))
  <2>1. CallOK(req[q]) /\ req[q] \in Calls \cup {Idle}
    BY DEF IInv, TypeOK, CallsOK
  <2>2. CASE q = r
    <3>1. req'[q] = Idle
      BY <2>2 DEF CommitHandOverRoll
    <3> QED BY <1>1, <2>2, <3>1 DEF CallOK, Idle, Calls, Kinds, Is
  <2>3. CASE q # r /\ marked
    <3>1. req[q].kind \in {"handroll", "join"}
      BY <2>3 DEF HandsOn, JoinsAs
    <3>2. req[q] \in Calls /\ req'[q] = Undone(req[q])
      BY <2>1, <2>3, <3>1 DEF CommitHandOverRoll, Idle
    <3> QED BY <1>1, <2>1, <3>1, <3>2, UndoneIs DEF CallOK, Is
  <2>4. CASE q # r /\ ~marked
    <3>1. req'[q] = req[q] /\ req[q].kind # "handroll"
      BY <2>4 DEF CommitHandOverRoll, HandsOn
    <3>2. req[q].kind = "join" /\ TookPart(req[q].whom) => TookPart(req[q].whom)'
      BY <1>1, <2>4, <3>1 DEF JoinsAs, TookPart
    <3> QED BY <1>1, <2>1, <3>1, <3>2 DEF CallOK
  <2> QED BY <2>2, <2>3, <2>4
<1>3. req' \in [Reqs -> Calls \cup {Idle}]
  BY <1>2 DEF CommitHandOverRoll
<1>4. TypeOK'
  BY <1>1, <1>3 DEF IInv, TypeOK, CommitHandOverRoll, group
<1>5. CallsOK'
  BY <1>1, <1>2 DEF IInv, CallsOK
<1>6. RemovalTakesRight'
  BY <1>1, <1>2 DEF IInv, TypeOK, RemovalTakesRight, CommitHandOverRoll, Is
<1> QED BY <1>4, <1>5, <1>6 DEF IInv

\* What the closing of an account reads keeps IInv.
LEMMA DeleteAccountKeeps ==
    ASSUME IInv, NEW r \in Reqs, NEW p \in People, DeleteAccount(r, p)
    PROVE  IInv'
<1>1. presses' \in 0 .. MaxPresses
  BY PressedCounts DEF IInv, DeleteAccount
<1>2. RollHeirs(p) \subseteq People
  BY DEF IInv, TypeOK, RollHeirs
<1>3. PICK stage \in {"depart", "close"}, h \in (People \cup {Nobody}) \ {p} :
        Starts(r, [Call("close", stage, p, h) EXCEPT !.heirs = RollHeirs(p)])
  <2>1. \A h \in Heirs({p}) : h \in (People \cup {Nobody}) \ {p}
    BY RoomsAssumption DEF Heirs, Members
  <2> QED BY <2>1, RoomsAssumption DEF DeleteAccount
<1> DEFINE c == [Call("close", stage, p, h) EXCEPT !.heirs = RollHeirs(p)]
<1>4. /\ c \in Calls /\ c.kind = "close" /\ c.at = stage
      /\ c.by = p /\ c.whom = h
  BY <1>2 DEF Call, Calls, Kinds, Stages
<1>5. CallOK(c)
  BY <1>3, <1>4 DEF CallOK
<1> HIDE DEF c
<1>6. /\ UNCHANGED <<barred, account, took, host, grouped>> /\ asking' = asking
      /\ Starts(r, c)
  BY <1>3 DEF DeleteAccount, group, roll, c
<1>7. req' \in [Reqs -> Calls \cup {Idle}] /\ CallsOK'
  BY <1>4, <1>5, <1>6, StartsKeep DEF IInv
<1>8. TypeOK'
  BY <1>1, <1>7 DEF IInv, TypeOK, DeleteAccount, group, roll
<1>9. RemovalTakesRight'
  <2>1. \A q \in Reqs : Is(q, "remove", "unseat") => req'[q] = req[q]
    BY <1>6 DEF IInv, TypeOK, Starts, Is, Idle
  <2> QED BY <2>1 DEF IInv, RemovalTakesRight, Is, DeleteAccount, group, roll
<1> QED BY <1>7, <1>8, <1>9 DEF IInv

\* Its commit keeps IInv.
LEMMA CommitDeleteAccountKeeps ==
    ASSUME IInv, NEW r \in Reqs, CommitDeleteAccount(r)
    PROVE  IInv'
<1> DEFINE p == req[r].by
<1>1. req[r] \in Calls /\ p \in People /\ req[r].kind = "close"
  BY Underway DEF IInv, CommitDeleteAccount, Calls
<1>2. /\ account' = account \ {p} /\ asking' = asking \ {p}
      /\ UNCHANGED <<barred, took, grouped, kept, presses>>
  BY DEF CommitDeleteAccount
<1>3. host' \in People
  BY <1>1 DEF IInv, TypeOK, Calls, CommitDeleteAccount
<1>4. ASSUME NEW q \in Reqs
      PROVE  /\ req'[q] \in Calls \cup {Idle} /\ CallOK(req[q])'
             /\ Is(q, "remove", "unseat")
                  => Is(q, "remove", "unseat")' /\ req'[q].whom = req[q].whom
  <2> DEFINE marked == \/ p \in {req[q].by, req[q].whom}
                       \/ host' # host /\ HandsOn(req[q])
                       \/ host' # host /\ JoinsAs(req[q], host)
  <2>1. CallOK(req[q]) /\ req[q] \in Calls \cup {Idle}
    BY DEF IInv, TypeOK, CallsOK
  <2>2. CASE q = r
    <3>1. req'[q] = Idle
      BY <2>2 DEF CommitDeleteAccount
    <3> QED BY <1>1, <2>2, <3>1 DEF CallOK, Idle, Calls, Kinds, Is
  <2>3. CASE q # r /\ marked
    <3>1. req'[q] = Undone(req[q])
      BY <2>3 DEF CommitDeleteAccount
    <3>2. req[q] # Idle
      BY <1>1, <2>3, RoomsAssumption DEF Idle, HandsOn, JoinsAs
    <3> QED BY <2>1, <3>1, <3>2, UndoneIs DEF CallOK, Is
  <2>4. CASE q # r /\ ~marked
    <3>1. req'[q] = req[q] /\ p \notin {req[q].by, req[q].whom}
      BY <2>4 DEF CommitDeleteAccount
    <3>2. req[q].kind = "handroll" => host' = host
      BY <2>4 DEF HandsOn
    <3>3. req[q].kind = "join" /\ TookPart(req[q].whom) => TookPart(req[q].whom)'
      BY <1>2, <2>4, <3>1 DEF JoinsAs, TookPart
    <3> QED BY <1>2, <2>1, <3>1, <3>2, <3>3 DEF CallOK, Is
  <2> QED BY <2>2, <2>3, <2>4
<1>5. req' \in [Reqs -> Calls \cup {Idle}]
  BY <1>4 DEF CommitDeleteAccount
<1>6. TypeOK'
  <2>1. role' \in [People -> {"none", "member", "admin"}]
    BY DEF IInv, TypeOK, CommitDeleteAccount
  <2>2. /\ seat' \in [People -> {"out", "in", "right"}]
        /\ invited' \in [People -> {"none", "open", "answered"}]
    BY DEF IInv, TypeOK, CommitDeleteAccount
  <2> QED BY <1>2, <1>3, <1>5, <2>1, <2>2 DEF IInv, TypeOK
<1>7. CallsOK'
  BY <1>2, <1>4 DEF IInv, CallsOK
<1>8. RemovalTakesRight'
  <2>1. seat' = [seat EXCEPT ![p] = "out"]
    BY DEF CommitDeleteAccount
  <2> QED BY <1>2, <1>4, <2>1 DEF IInv, TypeOK, RemovalTakesRight
<1> QED BY <1>6, <1>7, <1>8 DEF IInv

\* A death keeps IInv.
LEMMA DiesKeeps ==
    ASSUME IInv, NEW r \in Reqs, Dies(r)
    PROVE  IInv'
<1>1. req' \in [Reqs -> Calls \cup {Idle}] /\ CallsOK'
  <2>1. Ends(r) /\ barred' = barred /\ asking' \subseteq asking
    BY DEF Dies, group
  <2>2. UNCHANGED <<account, took, host, grouped>>
    BY DEF Dies, group, roll
  <2> QED BY <2>1, <2>2, EndsKeep DEF IInv
<1>2. TypeOK'
  <2>1. kept' \subseteq People
    <3>1. CASE Is(r, "remove", "unseat")
      BY <3>1 DEF IInv, TypeOK, CallsOK, CallOK, TookPart, Dies, Is, Idle
    <3> QED BY <3>1 DEF IInv, TypeOK, Dies
  <2> QED BY <1>1, <2>1 DEF IInv, TypeOK, Dies, group, roll
<1>3. RemovalTakesRight'
  BY RoomsAssumption, <1>1
  DEF IInv, TypeOK, RemovalTakesRight, Dies, Idle, Is, Ends, group, roll
<1> QED BY <1>1, <1>2, <1>3 DEF IInv

\* Nothing is decided while nothing changes.
LEMMA StutterKeeps ==
    ASSUME IInv, UNCHANGED vars
    PROVE  IInv'
BY DEF IInv, TypeOK, CallsOK, CallOK, TookPart, RemovalTakesRight, Is, vars, group, roll

\* Every step keeps IInv.
LEMMA StepKeeps ==
    ASSUME IInv, [Next]_vars
    PROVE  IInv'
<1>1. CASE UNCHANGED vars
  BY <1>1, StutterKeeps
<1>2. CASE \E r \in Reqs : Serve(r)
  BY <1>2, InsertKeeps, ClearKeeps, ResolveKeeps, DeleteKeeps, BarKeeps, UnseatKeeps,
     CommitLeaveKeeps, CommitHandOverGroupKeeps, CommitHandOverRollKeeps, RecordKeeps,
     CommitDeleteAccountKeeps, DiesKeeps DEF Serve
<1>3. CASE \E r \in Reqs, p \in People : Calling(r, p)
  BY <1>3, JoinKeeps, AcceptKeeps, LeaveKeeps, UploadKeeps, ApproveKeeps, RemoveKeeps,
     HandOverGroupKeeps, HandOverRollKeeps, DeleteAccountKeeps DEF Calling
<1>4. CASE \E p \in People : Pressing(p)
  BY <1>4, AskToJoinKeeps, RefuseKeeps, OpenKeeps, VisitKeeps,
     ContributeKeeps, TakeBackKeeps, LeaveEventKeeps, TakeOutOfGroupKeeps, InviteKeeps,
     DeclineKeeps, RemoveFromEventKeeps DEF Pressing
<1> QED BY <1>1, <1>2, <1>3, <1>4 DEF Next

\* The group starts with no call under way and nobody taken out.
LEMMA InitKeeps ==
    ASSUME Init
    PROVE  IInv
<1>1. presses \in 0 .. MaxPresses
  BY RoomsAssumption DEF Init
<1>2. TypeOK
  BY <1>1 DEF Init, TypeOK, Members
<1>3. CallsOK
  BY DEF Init, CallsOK, CallOK, TookPart, Idle, Calls, Kinds
<1> QED BY <1>2, <1>3 DEF IInv, Init, RemovalTakesRight

\* IInv is an invariant.
THEOREM Invariance == Spec => []IInv
BY InitKeeps, StepKeeps, PTL DEF Spec

\* Every variable keeps its type.
THEOREM TypeCorrect == Spec => []TypeOK
<1>1. IInv => TypeOK
  BY DEF IInv
<1> QED BY <1>1, Invariance, PTL

\* Whoever was taken out of the group is not in its roll by right.
THEOREM RemovalsTakeRight == Spec => []RemovalTakesRight
<1>1. IInv => RemovalTakesRight
  BY DEF IInv
<1> QED BY <1>1, Invariance, PTL

\* Only an insert makes somebody a member.
LEMMA OnlyInserts ==
    ASSUME IInv, Next, NEW p \in People, role[p] = "none", role'[p] # "none"
    PROVE  \E r \in Reqs : Insert(r) /\ req[r].whom = p
<1>1. \A r \in Reqs : \/ CommitLeave(r) \/ CommitHandOverGroup(r) \/ Delete(r)
                     \/ CommitDeleteAccount(r) => FALSE
  BY DEF IInv, TypeOK, CommitLeave, CommitHandOverGroup, Delete, CommitDeleteAccount
<1>2. \A q \in People : ~Open(q)
  BY RoomsAssumption DEF IInv, TypeOK, Open, Heirs, Members
<1>3. \A r \in Reqs : Insert(r) => req[r].whom = p
  BY DEF IInv, TypeOK, Insert
<1>4. \A r \in Reqs : Serve(r) => \/ Insert(r) \/ CommitLeave(r) \/ CommitHandOverGroup(r)
                                   \/ Delete(r) \/ CommitDeleteAccount(r) \/ role' = role
  BY DEF Serve, Clear, Resolve, Bar, Unseat, CommitHandOverRoll, Record, Dies, group
<1>5. \A r \in Reqs, q \in People : Calling(r, q) => role' = role
  BY DEF Calling, Join, Accept, Leave, Upload, Approve, Remove, HandOverGroup, HandOverRoll,
         DeleteAccount, group
<1>6. \A q \in People : Pressing(q) => Open(q) \/ role' = role
  BY DEF Pressing, AskToJoin, Refuse, Visit, Contribute, TakeBack, LeaveEvent,
         TakeOutOfGroup, Invite, Decline, RemoveFromEvent, group
<1> QED BY <1>1, <1>2, <1>3, <1>4, <1>5, <1>6 DEF Next

\* Nobody walks into a group.
THEOREM NobodyWalksInEver == Spec => NobodyWalksIn
<1>1. IInv /\ [Next]_vars =>
        [\A p \in People : role[p] = "none" /\ role'[p] # "none"
                             => \E r \in Reqs : LetIn(r, p)]_vars
  <2> SUFFICES ASSUME IInv, Next, NEW p \in People, role[p] = "none", role'[p] # "none"
               PROVE  \E r \in Reqs : LetIn(r, p)
    BY DEF vars
  <2>1. PICK r \in Reqs : Insert(r) /\ req[r].whom = p
    BY OnlyInserts
  <2>2. CallOK(req[r])
    BY DEF IInv, CallsOK
  <2> QED BY <2>1, <2>2 DEF LetIn, Insert, CallOK, TookPart
<1> QED BY <1>1, Invariance, PTL DEF Spec, NobodyWalksIn

\* The host changes by a hand-over or by a closing.
LEMMA HostChanges ==
    ASSUME IInv, Next,
           host' # host \/ (host \in account /\ host' \notin account')
    PROVE  \/ \E r \in Reqs : CommitHandOverRoll(r)
           \/ \E r \in Reqs : CommitDeleteAccount(r)
<1>1. \A r \in Reqs : Serve(r) => \/ CommitHandOverRoll(r) \/ CommitDeleteAccount(r)
                                  \/ UNCHANGED <<host, account>>
  BY DEF Serve, Insert, Clear, Resolve, Delete, Bar, Unseat, CommitLeave,
         CommitHandOverGroup, Record, Dies, roll
<1>2. \A r \in Reqs, q \in People : Calling(r, q) => UNCHANGED <<host, account>>
  BY DEF Calling, Join, Accept, Leave, Upload, Approve, Remove, HandOverGroup, HandOverRoll,
         DeleteAccount, roll
<1>3. \A q \in People : Pressing(q) => UNCHANGED <<host, account>>
  BY DEF Pressing, AskToJoin, Refuse, Open, Visit, Contribute, TakeBack, LeaveEvent,
         TakeOutOfGroup, Invite, Decline, RemoveFromEvent, roll
<1> QED BY <1>1, <1>2, <1>3 DEF Next

\* The roll passes from its host to somebody who can run it.
THEOREM RollsArePassedOn == Spec => RollIsPassedOn
<1> DEFINE Passed ==
      \/ Overtaken
      \/ /\ host' # host => HandedOver \/ host \notin account'
         /\ host \in account /\ host' \notin account' => \A p \in account' : seat[p] = "out"
<1>1. ASSUME IInv, NEW r \in Reqs, CommitHandOverRoll(r)
      PROVE  Passed
  <2>1. CallOK(req[r]) /\ req'[r] = Idle /\ host' = req[r].whom /\ account' = account
    BY <1>1 DEF IInv, TypeOK, CallsOK, CommitHandOverRoll
  <2>2. Is(r, "handroll", "commit") /\ req[r].kind = "handroll"
    BY <1>1 DEF CommitHandOverRoll, Is
  <2> QED BY <2>1, <2>2 DEF CallOK, TookPart, Overtaken, HandedOver
<1>2. ASSUME IInv, NEW r \in Reqs, CommitDeleteAccount(r)
      PROVE  Passed
  <2> DEFINE p == req[r].by
  <2>1. /\ req[r].kind = "close" /\ req'[r] = Idle /\ account' = account \ {p}
        /\ host' \in IF req[r].heirs = {} THEN {host} ELSE req[r].heirs
    BY <1>2 DEF CommitDeleteAccount, IInv, TypeOK
  <2>2. CASE req[r].heirs # RollHeirs(p)
    BY <2>1, <2>2 DEF Overtaken
  <2>3. CASE req[r].heirs = RollHeirs(p)
    <3>1. CASE host # p
      BY <2>1, <2>3, <3>1 DEF RollHeirs
    <3>2. CASE host = p
      <4>1. host' \in RollHeirs(p)
        BY <2>1, <2>3, <3>2 DEF RollHeirs
      <4> QED BY <2>1, <3>2, <4>1 DEF RollHeirs
    <3> QED BY <3>1, <3>2
  <2> QED BY <2>2, <2>3
<1>3. ASSUME IInv, Next
      PROVE  Passed
  BY <1>1, <1>2, <1>3, HostChanges
<1>4. IInv /\ [Next]_vars => [Passed]_vars
  BY <1>3
<1> QED BY <1>4, Invariance, PTL DEF Spec, RollIsPassedOn

-----------------------------------------------------------------------------
(* The group and its admin.                                                    *)

\* Only these write a role.
LEMMA RoleWriters ==
    ASSUME IInv, Next, role' # role
    PROVE  \/ \E r \in Reqs : \/ Insert(r) \/ Delete(r)
                              \/ CommitLeave(r) \/ CommitHandOverGroup(r)
                              \/ CommitDeleteAccount(r)
           \/ \E p \in People : Open(p)
<1>1. \A r \in Reqs : Serve(r) => \/ Insert(r) \/ CommitLeave(r) \/ CommitHandOverGroup(r)
                                   \/ Delete(r) \/ CommitDeleteAccount(r) \/ role' = role
  BY DEF Serve, Clear, Resolve, Bar, Unseat, CommitHandOverRoll, Record, Dies, group
<1>2. \A r \in Reqs, q \in People : Calling(r, q) => role' = role
  BY DEF Calling, Join, Accept, Leave, Upload, Approve, Remove, HandOverGroup, HandOverRoll,
         DeleteAccount, group
<1>3. \A q \in People : Pressing(q) => Open(q) \/ role' = role
  BY DEF Pressing, AskToJoin, Refuse, Visit, Contribute, TakeBack, LeaveEvent,
         TakeOutOfGroup, Invite, Decline, RemoveFromEvent, group
<1> QED BY <1>1, <1>2, <1>3 DEF Next

\* Only these close an account.
LEMMA AccountWriters ==
    ASSUME IInv, Next, account' # account
    PROVE  \E r \in Reqs : CommitDeleteAccount(r)
<1>1. \A r \in Reqs : Serve(r) => CommitDeleteAccount(r) \/ account' = account
  BY DEF Serve, Insert, Clear, Resolve, Delete, Bar, Unseat, CommitLeave,
         CommitHandOverGroup, CommitHandOverRoll, Record, Dies
<1>2. \A r \in Reqs, q \in People : Calling(r, q) => account' = account
  BY DEF Calling, Join, Accept, Leave, Upload, Approve, Remove, HandOverGroup, HandOverRoll,
         DeleteAccount
<1>3. \A q \in People : Pressing(q) => account' = account
  BY DEF Pressing, AskToJoin, Refuse, Open, Visit, Contribute, TakeBack, LeaveEvent,
         TakeOutOfGroup, Invite, Decline, RemoveFromEvent
<1> QED BY <1>1, <1>2, <1>3 DEF Next

\* Opening a group nobody runs gives it an admin.
LEMMA OpenMends ==
    ASSUME IInv, NEW p \in People, Open(p)
    PROVE  Run'
<1>1. PICK h \in Heirs({}) \ {Nobody} : role' = [role EXCEPT ![h] = "admin"]
  BY DEF Open
<1>2. h \in People
  BY DEF Heirs, Members
<1>3. role'[h] = "admin"
  BY <1>1, <1>2 DEF IInv, TypeOK
<1> QED BY <1>2, <1>3 DEF Run, Admins

\* Whoever goes leaves the group run, if the heir is one crownGroups would choose
\* as they go.
LEMMA HeirKeepsRun ==
    ASSUME IInv, NEW p \in People, NEW h \in Heirs({p}), role'[p] = "none",
           \A q \in People \ {p} :
             role'[q] = IF q = h /\ role[q] # "none" THEN "admin" ELSE role[q]
    PROVE  Run'
<1>1. CASE Admins \ {p} # {}
  <2>1. PICK a \in People \ {p} : role[a] = "admin"
    BY <1>1 DEF Admins
  <2>2. role'[a] = "admin"
    BY <2>1
  <2> QED BY <2>1, <2>2 DEF Run, Admins
<1>2. CASE Members \subseteq {p}
  <2>1. \A q \in People : role'[q] = "none"
    BY <1>2 DEF IInv, TypeOK, Members
  <2> QED BY <2>1 DEF Run, Members
<1>3. CASE Admins \ {p} = {} /\ ~(Members \subseteq {p})
  <2>1. h \in Members \ {p}
    BY <1>3 DEF Heirs
  <2>2. role'[h] = "admin"
    BY <2>1 DEF Members
  <2> QED BY <2>1, <2>2 DEF Run, Admins, Members
<1> QED BY <1>1, <1>2, <1>3

\* So does a closing; one that found no membership leaves the admins there are.
LEMMA CloseOrphans ==
    ASSUME IInv, Run, ~Run', NEW r \in Reqs, CommitDeleteAccount(r)
    PROVE  Orphans(r)
<1> DEFINE p == req[r].by  h == req[r].whom
<1>1. /\ req[r].kind = "close" /\ req[r] \in Calls /\ p \in People
      /\ req'[r] = Idle /\ account' = account \ {p}
  BY Underway DEF CommitDeleteAccount, IInv, TypeOK, Calls
<1>2. req'[r] # req[r]
  BY <1>1 DEF Idle
<1>3. role' = [q \in People |-> IF role[q] = "none" \/ req[r].at # "depart" THEN role[q]
                                ELSE IF q = p THEN "none"
                                ELSE IF q = h THEN "admin"
                                ELSE role[q]]
  BY DEF CommitDeleteAccount
<1>4. req[r].at = "depart"
  <2> SUFFICES ASSUME req[r].at # "depart"
               PROVE  FALSE
    OBVIOUS
  <2>1. Members' = Members /\ Admins' = Admins
    BY <1>3 DEF Members, Admins
  <2> QED BY <1>1, <2>1 DEF Run
<1>5. h \notin Heirs({p})
  BY <1>1, <1>3, <1>4, HeirKeepsRun, RoomsAssumption DEF IInv, TypeOK, Members
<1> QED BY <1>1, <1>2, <1>4, <1>5 DEF Orphans, Is

\* A way in leaves the group as it was run, if anybody in it had an account.
LEMMA InsertOrphans ==
    ASSUME IInv, Run, ~Run', NEW r \in Reqs, Insert(r)
    PROVE  Orphans(r)
<1>1. req[r].at = "insert" /\ account' = account /\ req[r] \in Calls
  BY DEF Insert, IInv, TypeOK, Idle
<1>2. req'[r] # req[r]
  <2>1. req'[r].at = "clear"
    BY <1>1, GoIs DEF Insert, Goes, IInv, TypeOK, Stages
  <2> QED BY <1>1, <2>1
<1>3. \A q \in People : role[q] = "admin" => role'[q] = "admin"
  BY DEF Insert, IInv, TypeOK
<1>4. Admins = {}
  BY <1>3 DEF Run, Admins
<1> QED BY <1>1, <1>2, <1>4 DEF Run, Orphans

\* A removal leaves it run, unless it takes out somebody made admin since.
LEMMA DeleteOrphans ==
    ASSUME IInv, Run, ~Run', NEW r \in Reqs, Delete(r)
    PROVE  Orphans(r)
<1>1. /\ Is(r, "remove", "delete") /\ req[r] \in Calls /\ account' = account
      /\ role' = [role EXCEPT ![req[r].whom] = "none"]
  BY Underway DEF Delete, Is, IInv
<1>2. req'[r] # req[r]
  <2>1. req'[r].at = "bar"
    BY <1>1, GoIs DEF Delete, Goes, IInv, TypeOK, Stages
  <2> QED BY <1>1, <2>1 DEF Is
<1>3. Members' \subseteq Members
  BY <1>1 DEF Members, IInv, TypeOK
<1>4. Admins # {}
  BY <1>1, <1>3 DEF Run
<1>5. PICK a \in People : role[a] = "admin"
  BY <1>4 DEF Admins
<1>6. role'[a] # "admin"
  BY DEF Run, Admins
<1>7. a = req[r].whom
  BY <1>1, <1>5, <1>6 DEF IInv, TypeOK
<1> QED BY <1>1, <1>2, <1>5, <1>7 DEF Orphans

\* A leaving leaves it run, if whom it chose it would choose again.
LEMMA LeaveOrphans ==
    ASSUME IInv, Run, ~Run', NEW r \in Reqs, CommitLeave(r)
    PROVE  Orphans(r)
<1> DEFINE p == req[r].by  h == req[r].whom
<1>1. Is(r, "leave", "commit") /\ req[r] \in Calls /\ account' = account
  BY Underway DEF CommitLeave, Is, IInv
<1>2. req'[r] # req[r]
  BY <1>1 DEF CommitLeave, Ends, Idle, Is, IInv, TypeOK
<1>3. role' = [q \in People |-> IF q = p THEN "none"
                                 ELSE IF q = h /\ role[q] # "none" THEN "admin"
                                 ELSE role[q]]
  BY DEF CommitLeave
<1>4. p \in People
  BY <1>1 DEF Calls
<1>5. h \notin Heirs({p})
  BY <1>3, <1>4, HeirKeepsRun, RoomsAssumption DEF IInv, TypeOK, Members
<1> QED BY <1>1, <1>2, <1>5 DEF Orphans

\* A hand-over leaves it run, if whom it chose is still there.
LEMMA HandOverOrphans ==
    ASSUME IInv, Run, ~Run', NEW r \in Reqs, CommitHandOverGroup(r)
    PROVE  Orphans(r)
<1> DEFINE p == req[r].by  h == req[r].whom
<1>1. Is(r, "handgroup", "commit") /\ req[r] \in Calls /\ account' = account
  BY Underway DEF CommitHandOverGroup, Is, IInv
<1>2. req'[r] # req[r]
  BY <1>1 DEF CommitHandOverGroup, Ends, Idle, Is, IInv, TypeOK
<1>3. h \in People /\ h # p
  BY <1>1 DEF IInv, CallsOK, CallOK, TookPart, Is
<1>4. CASE role[h] = "none"
  BY <1>1, <1>2, <1>4 DEF Orphans
<1>5. CASE role[h] # "none"
  <2>1. role'[h] = "admin"
    BY <1>3, <1>5 DEF CommitHandOverGroup
  <2> QED BY <1>3, <2>1 DEF Run, Admins
<1> QED BY <1>4, <1>5

\* A group comes to be without an admin only in the races Orphans names.
THEOREM OnlyRacesOrphanEver == Spec => OnlyRacesOrphan
<1>1. IInv /\ [Next]_vars =>
        [Run /\ ~Run' => \E r \in Reqs : Orphans(r)]_vars
  <2> SUFFICES ASSUME IInv, Next, Run, ~Run'
               PROVE  \E r \in Reqs : Orphans(r)
    BY DEF vars
  <2>1. role' # role \/ account' # account
    BY DEF Run, Admins, Members
  <2>2. \A p \in People : ~Open(p)
    BY OpenMends
  <2>3. \E r \in Reqs : \/ Insert(r) \/ Delete(r) \/ CommitLeave(r) \/ CommitHandOverGroup(r)
                       \/ CommitDeleteAccount(r)
    BY <2>1, <2>2, RoleWriters, AccountWriters
  <2> QED BY <2>3, InsertOrphans, DeleteOrphans, LeaveOrphans, HandOverOrphans, CloseOrphans
<1> QED BY <1>1, Invariance, PTL DEF Spec, OnlyRacesOrphan

\* Opening the group is open to this person, and would mend it.
MayMend(p) == p \in account /\ role[p] = "member" /\ Heirs({}) \ {Nobody} # {}

\* The safety half of RoomIsMended: a group nobody runs is never out of reach,
\* there is a member whose opening ensureAdmin mends; and whoever opens it, it
\* has an admin afterwards. What is left to TLC is that they do open it.
THEOREM MendingIsInReach ==
    Spec => /\ [](~Run => \E p \in People : MayMend(p))
            /\ [][\A p \in People : Open(p) => Run']_vars
<1>1. IInv => (~Run => \E p \in People : MayMend(p))
  <2> SUFFICES ASSUME IInv, Admins = {}, NEW p \in Members, p \in account
               PROVE  MayMend(p) /\ p \in People
    BY DEF Run
  <2>1. p \in People /\ role[p] = "member"
    BY DEF IInv, TypeOK, Members, Admins
  <2>2. p \in Heirs({}) \ {Nobody}
    BY <2>1, RoomsAssumption DEF Heirs
  <2> QED BY <2>1, <2>2 DEF MayMend
<1>2. IInv /\ [Next]_vars => [\A p \in People : Open(p) => Run']_vars
  BY OpenMends
<1> QED BY <1>1, <1>2, Invariance, PTL DEF Spec
=============================================================================

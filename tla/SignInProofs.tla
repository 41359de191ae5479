---------------------------- MODULE SignInProofs ----------------------------
(* The safety of SignIn for any number of addresses, devices, requests, actors  *)
(* and sessions, however the sign-ins interleave.                               *)
(*                                                                             *)
(* IInv adds to the properties what a request may rely on between two awaits:   *)
(* the row it read is stored, the actor it goes on with exists, and the actor   *)
(* it merges into is another one. None of them says that what was read is still *)
(* true: that is what `stale' records.                                          *)
EXTENDS SignIn, TLAPS

\* A code signs in only while it is outstanding, and settled is not outstanding.
CodesOK ==
    \A c \in Codes :
        /\ compared[c] = attempts[c] /\ attempts[c] <= MAX_CODE_ATTEMPTS
        /\ signed[c] <= 1
        /\ c \notin stored \/ c \in outstanding => signed[c] = 0
        /\ c \in settled => c \notin outstanding

\* What refers to an actor refers to one that was made.
PeopleOK ==
    /\ \A a \in Actors : into[a] # None => a \in made /\ into[a] \in made
    /\ \A d \in Devices : cred[d].actor \in made \cup {None}

\* What a request carries from one step to the next.
Bound == {"account", "create", "canonical", "link", "merge", "bound", "present", "adopt",
          "mint"}
RequestsOK ==
    /\ req \in [Reqs -> Carried \cup {Idle}]
    /\ \A r \in Reqs :
        /\ req[r].cred.actor \in made \cup {None}
        /\ req[r].at \in {"claim", "spend"} => req[r].row \in stored
        /\ req[r].at \in Bound => req[r].actor \in made
        /\ req[r].at = "merge" => req[r].into \in made /\ req[r].into # req[r].actor
        /\ req[r].at = "adopt" => req[r].cred.session \in Sessions

\* Kept by every step.
IInv == TypeOK /\ CodesOK /\ PeopleOK /\ RequestsOK /\ NothingLeftBehind

\* What is stored is a code.
LEMMA StoredCodes ==
    ASSUME TypeOK
    PROVE  stored \subseteq Codes
BY SignInAssumption DEF TypeOK, Codes

\* What only MaxPresses bounds is counted within it.
LEMMA PressedCounts ==
    ASSUME TypeOK, Pressed
    PROVE  presses' \in 0 .. MaxPresses
BY SignInAssumption DEF TypeOK, Pressed

\* The pointers of merged actors lead from actors to actors.
LEMMA HopMade ==
    ASSUME TypeOK, PeopleOK, NEW a \in made
    PROVE  Hop(a) \in made
BY DEF TypeOK, PeopleOK, Hop, Merged

\* A credential names an actor that was made, or none.
LEMMA NamesMade ==
    ASSUME TypeOK, PeopleOK, NEW c \in Creds, c.actor \in made \cup {None}
    PROVE  Names(c) \in made \cup {None} /\ Resolve(c) \in made \cup {None}
<1>1. c.actor # None => ResolveActor(c.actor) \in made
  BY HopMade DEF ResolveActor
<1>2. Names(c) \in made \cup {None}
  BY <1>1 DEF Names, TypeOK, Creds
<1> QED BY <1>2 DEF Resolve

\* A request that goes on keeps what it was sent with.
LEMMA GoKeeps ==
    ASSUME TypeOK, RequestsOK, NEW r \in Reqs, req[r] # Idle,
           NEW at \in Stages, NEW row \in Codes \cup {0},
           NEW actor \in Actors \cup {None}, NEW target \in Actors \cup {None},
           Go(r, at, row, actor, target), made \subseteq made', stored \subseteq stored',
           at \in {"claim", "spend"} => row \in stored',
           at \in Bound => actor \in made',
           at = "merge" => target \in made' /\ target # actor,
           at = "adopt" => req[r].cred.session \in Sessions
    PROVE  RequestsOK'
<1> DEFINE next == [at |-> at, dev |-> req[r].dev, cred |-> req[r].cred,
                    email |-> req[r].email, row |-> row,
                    actor |-> actor, into |-> target]
<1>1. req' = [req EXCEPT ![r] = next]
  BY DEF Go
<1>2. next \in Carried /\ next.cred = req[r].cred
  BY DEF RequestsOK, Carried
<1> QED BY <1>1, <1>2 DEF TypeOK, RequestsOK

\* One that is answered carries nothing.
LEMMA AnswerKeeps ==
    ASSUME TypeOK, RequestsOK, NEW r \in Reqs, Answer(r),
           made \subseteq made', stored \subseteq stored'
    PROVE  RequestsOK'
BY DEF TypeOK, RequestsOK, Answer, Idle, NoCred, Bound

\* Asking for a code keeps IInv.
LEMMA AskCodeKeeps ==
    ASSUME IInv, NEW e \in Emails, AskCode(e)
    PROVE  IInv'
<1>1. TypeOK'
  <2>1. asked + 1 \in Codes /\ asked' \in 0 .. MaxCodes /\ 1 .. asked \subseteq 1 .. asked'
    BY SignInAssumption DEF IInv, TypeOK, AskCode, Codes
  <2>2. outstanding \cap For(e) \in SUBSET Codes
    BY StoredCodes DEF IInv, TypeOK
  <2>3. address' \in [Codes -> Emails \cup {None}]
    BY <2>1 DEF IInv, TypeOK, AskCode
  <2>4. sees' \in [Codes -> SUBSET Codes]
    BY <2>1, <2>2 DEF IInv, TypeOK, AskCode
  <2>5. stored' \subseteq 1 .. asked'
    BY <2>1 DEF IInv, TypeOK, AskCode
  <2> QED
    BY <2>1, <2>3, <2>4, <2>5 DEF IInv, TypeOK, AskCode, past, people, sessions
<1>2. CodesOK'
  BY SignInAssumption
  DEF IInv, TypeOK, CodesOK, AskCode, For, past, people, sessions, Codes
<1>3. (PeopleOK /\ RequestsOK /\ NothingLeftBehind)'
  BY DEF IInv, PeopleOK, RequestsOK, NothingLeftBehind, Bound, Merged, AskCode,
         For, past, people, sessions
<1> QED BY <1>1, <1>2, <1>3 DEF IInv

\* The commit of a code keeps IInv.
LEMMA StoreCodeKeeps ==
    ASSUME IInv, NEW c \in Codes, StoreCode(c)
    PROVE  IInv'
<1>1. TypeOK'
  BY SignInAssumption
  DEF IInv, TypeOK, StoreCode, past, people, sessions, Codes
<1>2. CodesOK'
  BY SignInAssumption
  DEF IInv, TypeOK, CodesOK, StoreCode, past, people, sessions, Codes
<1>3. RequestsOK'
  BY SignInAssumption
  DEF IInv, TypeOK, RequestsOK, StoreCode, past, people, sessions, Codes, Bound
<1>4. (PeopleOK /\ NothingLeftBehind)'
  BY DEF IInv, PeopleOK, NothingLeftBehind, Merged, StoreCode, past, people,
         sessions
<1> QED BY <1>1, <1>2, <1>3, <1>4 DEF IInv

\* Reading the newest code keeps IInv.
LEMMA PresentKeeps ==
    ASSUME IInv, NEW r \in Reqs, NEW d \in Devices, NEW e \in Emails, NEW c \in Codes, Present(r, d, e, c)
    PROVE  IInv'
<1>1. RequestsOK'
  <2> DEFINE new == [at |-> "claim", dev |-> d, cred |-> cred[d], email |-> e,
                       row |-> c, actor |-> None, into |-> None]
  <2>2. cred[d] \in Creds /\ cred[d].actor \in made \cup {None}
    BY DEF IInv, TypeOK, PeopleOK
  <2>3. new \in Carried
    BY <2>2 DEF Carried, Stages, Codes
  <2>4. req' = [req EXCEPT ![r] = new] /\ made' = made /\ stored' = stored
    BY DEF Present, people, codes
  <2>5. c \in stored
    BY DEF IInv, TypeOK, Newest, Present
  <2> QED BY <2>2, <2>3, <2>4, <2>5 DEF IInv, TypeOK, RequestsOK, Bound
<1>2. req' \in [Reqs -> Carried \cup {Idle}]
  BY <1>1 DEF RequestsOK
<1>3. TypeOK'
  BY SignInAssumption, <1>2
  DEF IInv, TypeOK, CodesOK, PeopleOK, RequestsOK, NothingLeftBehind, Present,
      codes, past, people, sessions, Codes, Bound, Merged
<1>4. (CodesOK /\ PeopleOK /\ NothingLeftBehind)'
  BY DEF IInv, CodesOK, PeopleOK, NothingLeftBehind, Codes, Merged, Present, codes,
         past, people, sessions
<1> QED BY <1>1, <1>2, <1>3, <1>4 DEF IInv

\* Presenting an age proof keeps IInv.
LEMMA PresentProofKeeps ==
    ASSUME IInv, NEW r \in Reqs, NEW d \in Devices, NEW e \in Emails, PresentProof(r, d, e)
    PROVE  IInv'
<1>1. RequestsOK'
  <2> DEFINE new == [at |-> "proof", dev |-> d, cred |-> cred[d], email |-> e,
                       row |-> 0, actor |-> None, into |-> None]
  <2>2. cred[d] \in Creds /\ cred[d].actor \in made \cup {None}
    BY DEF IInv, TypeOK, PeopleOK
  <2>3. new \in Carried
    BY <2>2 DEF Carried, Stages, Codes
  <2>4. req' = [req EXCEPT ![r] = new] /\ made' = made /\ stored' = stored
    BY DEF PresentProof, people, codes
  <2> QED BY <2>2, <2>3, <2>4 DEF IInv, TypeOK, RequestsOK, Bound
<1>2. req' \in [Reqs -> Carried \cup {Idle}]
  BY <1>1 DEF RequestsOK
<1>3. TypeOK'
  BY SignInAssumption, <1>2
  DEF IInv, TypeOK, CodesOK, PeopleOK, RequestsOK, NothingLeftBehind, PresentProof,
      codes, past, people, sessions, Codes, Bound, Merged
<1>4. (CodesOK /\ PeopleOK /\ NothingLeftBehind)'
  BY DEF IInv, CodesOK, PeopleOK, NothingLeftBehind, Codes, Merged, PresentProof,
         codes, past, people, sessions
<1> QED BY <1>1, <1>2, <1>3, <1>4 DEF IInv

\* The claim of an attempt keeps IInv.
LEMMA ClaimKeeps ==
    ASSUME IInv, NEW r \in Reqs, Claim(r)
    PROVE  IInv'
<1>1. RequestsOK'
  <2>1. req[r] # Idle /\ made' = made /\ stored' = stored
    BY DEF Claim, Idle, people, codes
  <2>2. req[r].row \in stored /\ stored \subseteq Codes
    BY StoredCodes DEF IInv, RequestsOK, Claim
  <2>3. Answer(r) \/ Go(r, "spend", req[r].row, None, None)
    BY DEF Claim
  <2> QED BY <2>1, <2>2, <2>3, AnswerKeeps, GoKeeps DEF IInv, Stages, Bound
<1>2. req' \in [Reqs -> Carried \cup {Idle}]
  BY <1>1 DEF RequestsOK
<1>3. TypeOK'
  <2>1. req[r].row \in Codes
    BY StoredCodes DEF IInv, RequestsOK, Claim
  <2>2. attempts' \in [Codes -> Nat] /\ compared' \in [Codes -> Nat]
    BY <2>1 DEF IInv, TypeOK, Claim
  <2> QED BY <1>2, <2>2 DEF IInv, TypeOK, Claim, people, sessions
<1>4. CodesOK'
  BY SignInAssumption, <1>2
  DEF IInv, TypeOK, CodesOK, Claim, Claimable, people, sessions, Codes
<1>5. (PeopleOK /\ NothingLeftBehind)'
  BY DEF IInv, PeopleOK, NothingLeftBehind, Merged, Claim, Claimable, people,
         sessions
<1> QED BY <1>1, <1>2, <1>3, <1>4, <1>5 DEF IInv

\* A refused claim keeps IInv.
LEMMA ClaimRefusedKeeps ==
    ASSUME IInv, NEW r \in Reqs, ClaimRefused(r)
    PROVE  IInv'
<1>1. RequestsOK'
  <2>1. req[r] # Idle /\ made' = made /\ stored' = stored
    BY DEF ClaimRefused, Idle, people, codes
  <2> QED BY <2>1, AnswerKeeps DEF IInv, ClaimRefused
<1>2. req' \in [Reqs -> Carried \cup {Idle}]
  BY <1>1 DEF RequestsOK
<1>3. TypeOK'
  BY SignInAssumption, <1>2
  DEF IInv, TypeOK, CodesOK, PeopleOK, RequestsOK, NothingLeftBehind, ClaimRefused,
      codes, past, people, sessions, Codes, Bound, Merged
<1>4. (CodesOK /\ PeopleOK /\ NothingLeftBehind)'
  BY DEF IInv, CodesOK, PeopleOK, NothingLeftBehind, Codes, Merged, ClaimRefused,
         codes, past, people, sessions
<1> QED BY <1>1, <1>2, <1>3, <1>4 DEF IInv

\* Spending a code keeps IInv.
LEMMA SpendKeeps ==
    ASSUME IInv, NEW r \in Reqs, Spend(r)
    PROVE  IInv'
<1>1. RequestsOK'
  <2>1. req[r] # Idle /\ made' = made /\ stored' = stored
    BY DEF Spend, Idle, people, codes
  <2>2. Go(r, "retire", 0, None, None)
    BY DEF Spend
  <2> QED BY <2>1, <2>2, GoKeeps DEF IInv, Stages, Bound
<1>2. req' \in [Reqs -> Carried \cup {Idle}]
  BY <1>1 DEF RequestsOK
<1>3. TypeOK'
  <2>1. req[r].row \in Codes
    BY StoredCodes DEF IInv, RequestsOK, Spend
  <2>2. signed' \in [Codes -> Nat]
    BY <2>1 DEF IInv, TypeOK, Spend
  <2>3. outstanding' \subseteq stored' /\ settled' \subseteq stored'
    BY DEF IInv, TypeOK, Spend
  <2> QED BY <1>2, <2>2, <2>3 DEF IInv, TypeOK, Spend, people, sessions
<1>4. CodesOK'
  BY SignInAssumption, <1>2
  DEF IInv, TypeOK, CodesOK, Spend, Unspent, people, sessions, Codes
<1>5. (PeopleOK /\ NothingLeftBehind)'
  BY DEF IInv, PeopleOK, NothingLeftBehind, Merged, Spend, Unspent, people, sessions
<1> QED BY <1>1, <1>2, <1>3, <1>4, <1>5 DEF IInv

\* A code that was spent meanwhile keeps IInv.
LEMMA SpendLostKeeps ==
    ASSUME IInv, NEW r \in Reqs, SpendLost(r)
    PROVE  IInv'
<1>1. RequestsOK'
  <2>1. req[r] # Idle /\ made' = made /\ stored' = stored
    BY DEF SpendLost, Idle, people, codes
  <2> QED BY <2>1, AnswerKeeps DEF IInv, SpendLost
<1>2. req' \in [Reqs -> Carried \cup {Idle}]
  BY <1>1 DEF RequestsOK
<1>3. TypeOK'
  BY SignInAssumption, <1>2
  DEF IInv, TypeOK, CodesOK, PeopleOK, RequestsOK, NothingLeftBehind, SpendLost,
      Unspent, codes, past, people, sessions, Codes, Bound, Merged
<1>4. (CodesOK /\ PeopleOK /\ NothingLeftBehind)'
  BY DEF IInv, CodesOK, PeopleOK, NothingLeftBehind, Codes, Merged, SpendLost,
         Unspent, codes, past, people, sessions
<1> QED BY <1>1, <1>2, <1>3, <1>4 DEF IInv

\* The retiring of the rest keeps IInv.
LEMMA RetireKeeps ==
    ASSUME IInv, NEW r \in Reqs, Retire(r)
    PROVE  IInv'
<1>1. RequestsOK'
  <2>1. req[r] # Idle /\ made' = made /\ stored' = stored
    BY DEF Retire, Idle, people, codes
  <2>2. Go(r, "proven", 0, None, None)
    BY DEF Retire
  <2> QED BY <2>1, <2>2, GoKeeps DEF IInv, Stages, Bound
<1>2. req' \in [Reqs -> Carried \cup {Idle}]
  BY <1>1 DEF RequestsOK
<1>3. TypeOK'
  BY SignInAssumption, <1>2
  DEF IInv, TypeOK, CodesOK, PeopleOK, RequestsOK, NothingLeftBehind, Retire,
      Retires, For, people, sessions, Codes, Bound, Merged
<1>4. CodesOK'
  BY SignInAssumption, <1>2
  DEF IInv, TypeOK, CodesOK, Retire, Retires, For, people, sessions, Codes
<1>5. (PeopleOK /\ NothingLeftBehind)'
  BY DEF IInv, PeopleOK, NothingLeftBehind, Merged, Retire, Retires, For, people,
         sessions
<1> QED BY <1>1, <1>2, <1>3, <1>4, <1>5 DEF IInv

\* The age check keeps IInv.
LEMMA AccountExistsKeeps ==
    ASSUME IInv, NEW r \in Reqs, AccountExists(r)
    PROVE  IInv'
<1>1. RequestsOK'
  <2>1. req[r] # Idle /\ made' = made /\ stored' = stored
    BY DEF AccountExists, Idle, people, codes
  <2>2. Answer(r) \/ Go(r, "actor", 0, None, None)
    BY DEF AccountExists
  <2> QED BY <2>1, <2>2, AnswerKeeps, GoKeeps DEF IInv, Stages, Bound
<1>2. req' \in [Reqs -> Carried \cup {Idle}]
  BY <1>1 DEF RequestsOK
<1>3. TypeOK'
  <2>1. req[r].dev \in Devices /\ req[r].email \in Emails
    BY DEF IInv, TypeOK, AccountExists, Carried, Idle
  <2>2. proofs' \subseteq Devices \X Emails
    BY <2>1 DEF IInv, TypeOK, AccountExists
  <2> QED BY <1>2, <2>2 DEF IInv, TypeOK, AccountExists, codes, past, people, sessions
<1>4. (CodesOK /\ PeopleOK /\ NothingLeftBehind)'
  BY DEF IInv, CodesOK, PeopleOK, NothingLeftBehind, Codes, Merged, AccountExists,
         codes, past, people, sessions
<1> QED BY <1>1, <1>2, <1>3, <1>4 DEF IInv

\* Ensuring an actor keeps IInv.
LEMMA EnsureActorKeeps ==
    ASSUME IInv, NEW r \in Reqs, EnsureActor(r)
    PROVE  IInv'
<1>1. RequestsOK'
  <2>1. req[r] # Idle /\ stored' = stored
    BY DEF EnsureActor, Idle, codes
  <2>2. req[r].cred \in Creds /\ req[r].cred.actor \in made \cup {None}
    BY <2>1 DEF IInv, RequestsOK, Carried
  <2>3. Resolve(req[r].cred) \in made \cup {None}
    BY <2>2, NamesMade DEF IInv
  <2>4. PICK a \in Actors : Go(r, "account", 0, a, None) /\ a \in made' /\ made \subseteq made'
    BY <2>3 DEF IInv, TypeOK, EnsureActor, Insert
  <2> QED BY <2>1, <2>4, GoKeeps DEF IInv, Stages, Bound
<1>2. req' \in [Reqs -> Carried \cup {Idle}]
  BY <1>1 DEF RequestsOK
<1>3. TypeOK'
  <2>1. made \subseteq made' /\ made' \subseteq Actors
    BY DEF IInv, TypeOK, EnsureActor, Insert
  <2>2. cred' = cred \/ \E a \in made' :
            cred' = [cred EXCEPT ![req[r].dev] = [actor |-> a, session |-> None]]
    BY DEF IInv, TypeOK, EnsureActor, Insert
  <2>4. cred' \in [Devices -> Creds]
    <3>1. CASE cred' = cred
      BY <3>1 DEF IInv, TypeOK
    <3>2. CASE cred' # cred
      <4>1. PICK a \in made' :
                cred' = [cred EXCEPT ![req[r].dev] = [actor |-> a, session |-> None]]
        BY <2>2, <3>2
      <4>2. [actor |-> a, session |-> None] \in Creds
        BY <2>1, <4>1 DEF Creds
      <4> QED BY <4>1, <4>2 DEF IInv, TypeOK
    <3> QED BY <3>1, <3>2
  <2>5. owner' \in [Sessions -> made' \cup {None}] /\ suspended' \subseteq made'
    BY <2>1 DEF IInv, TypeOK, EnsureActor, sessions
  <2>6. live' \subseteq {s \in Sessions : owner'[s] \in made'}
    BY <2>1 DEF IInv, TypeOK, EnsureActor, sessions
  <2> QED
    BY <1>2, <2>1, <2>4, <2>5, <2>6 DEF IInv, TypeOK, EnsureActor, codes, past, sessions
<1>4. PeopleOK'
  <2>1. made \subseteq made' /\ made' \subseteq Actors
    BY DEF IInv, TypeOK, EnsureActor, Insert
  <2>2. cred' = cred \/ \E a \in made' :
            cred' = [cred EXCEPT ![req[r].dev] = [actor |-> a, session |-> None]]
    BY DEF IInv, TypeOK, EnsureActor, Insert
  <2>3. \A d \in Devices : cred'[d].actor \in made' \cup {None}
    <3>1. CASE cred' = cred
      BY <2>1, <3>1 DEF IInv, PeopleOK
    <3>2. CASE cred' # cred
      <4>1. PICK a \in made' :
                cred' = [cred EXCEPT ![req[r].dev] = [actor |-> a, session |-> None]]
        BY <2>2, <3>2
      <4>2. \A d \in Devices :
                cred'[d] = cred[d] \/ cred'[d] = [actor |-> a, session |-> None]
        BY <4>1 DEF IInv, TypeOK
      <4> QED BY <2>1, <4>1, <4>2 DEF IInv, PeopleOK
    <3> QED BY <3>1, <3>2
  <2> QED BY <2>1, <2>3 DEF IInv, PeopleOK, EnsureActor
<1>5. (CodesOK /\ NothingLeftBehind)'
  BY DEF IInv, CodesOK, NothingLeftBehind, Codes, Merged, EnsureActor, Insert,
         codes, past, sessions
<1> QED BY <1>1, <1>2, <1>3, <1>4, <1>5 DEF IInv

\* Looking for the account keeps IInv.
LEMMA FindAccountKeeps ==
    ASSUME IInv, NEW r \in Reqs, FindAccount(r)
    PROVE  IInv'
<1>1. RequestsOK'
  <2>1. req[r] # Idle /\ made' = made /\ stored' = stored
    BY DEF FindAccount, Idle, people, codes
  <2>2. req[r].actor \in made
    BY DEF IInv, RequestsOK, Bound, FindAccount
  <2>3. \/ Go(r, "canonical", 0, req[r].actor, None)
        \/ Go(r, "create", 0, req[r].actor, None)
    BY DEF FindAccount
  <2> QED BY <2>1, <2>2, <2>3, GoKeeps DEF IInv, TypeOK, Stages, Bound
<1>2. req' \in [Reqs -> Carried \cup {Idle}]
  BY <1>1 DEF RequestsOK
<1>3. TypeOK'
  BY SignInAssumption, <1>2
  DEF IInv, TypeOK, CodesOK, PeopleOK, RequestsOK, NothingLeftBehind, FindAccount,
      codes, past, people, sessions, Codes, Bound, Merged
<1>4. (CodesOK /\ PeopleOK /\ NothingLeftBehind)'
  BY DEF IInv, CodesOK, PeopleOK, NothingLeftBehind, Codes, Merged, FindAccount,
         codes, past, people, sessions
<1> QED BY <1>1, <1>2, <1>3, <1>4 DEF IInv

\* Creating the account keeps IInv.
LEMMA CreateAccountKeeps ==
    ASSUME IInv, NEW r \in Reqs, CreateAccount(r)
    PROVE  IInv'
<1>1. RequestsOK'
  <2>1. req[r] # Idle /\ made' = made /\ stored' = stored
    BY DEF CreateAccount, Idle, people, codes
  <2>2. req[r].actor \in made
    BY DEF IInv, RequestsOK, Bound, CreateAccount
  <2>3. Answer(r) \/ Go(r, "link", 0, req[r].actor, None)
    BY DEF CreateAccount
  <2> QED BY <2>1, <2>2, <2>3, AnswerKeeps, GoKeeps DEF IInv, TypeOK, Stages, Bound
<1>2. req' \in [Reqs -> Carried \cup {Idle}]
  BY <1>1 DEF RequestsOK
<1>3. TypeOK'
  <2>1. req[r].email \in Emails
    BY DEF IInv, TypeOK, CreateAccount, Carried, Idle
  <2>2. accounts' \subseteq Emails
    BY <2>1 DEF IInv, TypeOK, CreateAccount
  <2> QED BY <1>2, <2>2 DEF IInv, TypeOK, CreateAccount, codes, past, sessions
<1>4. (CodesOK /\ PeopleOK /\ NothingLeftBehind)'
  BY DEF IInv, CodesOK, PeopleOK, NothingLeftBehind, Codes, Merged, CreateAccount,
         codes, past, sessions
<1> QED BY <1>1, <1>2, <1>3, <1>4 DEF IInv

\* Looking for its actor keeps IInv.
LEMMA FindCanonicalKeeps ==
    ASSUME IInv, NEW r \in Reqs, FindCanonical(r)
    PROVE  IInv'
<1>1. RequestsOK'
  <2>1. req[r] # Idle /\ made' = made /\ stored' = stored
    BY DEF FindCanonical, Idle, people, codes
  <2>2. req[r].actor \in made
    BY DEF IInv, RequestsOK, Bound, FindCanonical
  <2>3. CASE \/ Go(r, "link", 0, req[r].actor, None)
             \/ Go(r, "bound", 0, req[r].actor, None)
    BY <2>1, <2>2, <2>3, GoKeeps DEF IInv, TypeOK, Stages, Bound
  <2>4. CASE \E a \in made : a # req[r].actor /\ Go(r, "merge", 0, req[r].actor, a)
    BY <2>1, <2>2, <2>4, GoKeeps DEF IInv, TypeOK, Stages, Bound
  <2> QED BY <2>3, <2>4 DEF FindCanonical, Canonical
<1>2. req' \in [Reqs -> Carried \cup {Idle}]
  BY <1>1 DEF RequestsOK
<1>3. TypeOK'
  BY SignInAssumption, <1>2
  DEF IInv, TypeOK, CodesOK, PeopleOK, RequestsOK, NothingLeftBehind,
      FindCanonical, codes, past, people, sessions, Codes, Bound, Merged
<1>4. (CodesOK /\ PeopleOK /\ NothingLeftBehind)'
  BY DEF IInv, CodesOK, PeopleOK, NothingLeftBehind, Codes, Merged, FindCanonical,
         codes, past, people, sessions
<1> QED BY <1>1, <1>2, <1>3, <1>4 DEF IInv

\* Linking keeps IInv.
LEMMA LinkKeeps ==
    ASSUME IInv, NEW r \in Reqs, Link(r)
    PROVE  IInv'
<1>1. RequestsOK'
  <2>1. req[r] # Idle /\ made' = made /\ stored' = stored
    BY DEF Link, Idle, people, codes
  <2>2. req[r].actor \in made
    BY DEF IInv, RequestsOK, Bound, Link
  <2>3. Answer(r) \/ Go(r, "bound", 0, req[r].actor, None)
    BY DEF Link
  <2> QED BY <2>1, <2>2, <2>3, AnswerKeeps, GoKeeps DEF IInv, TypeOK, Stages, Bound
<1>2. req' \in [Reqs -> Carried \cup {Idle}]
  BY <1>1 DEF RequestsOK
<1>3. TypeOK'
  BY SignInAssumption, <1>2
  DEF IInv, TypeOK, CodesOK, PeopleOK, RequestsOK, NothingLeftBehind, Link, Merged,
      codes, past, sessions, Codes, Bound
<1>4. NothingLeftBehind'
  BY SignInAssumption, <1>2
  DEF IInv, TypeOK, NothingLeftBehind, Link, Merged, codes, past, sessions, Codes
<1>5. (CodesOK /\ PeopleOK)'
  BY DEF IInv, CodesOK, PeopleOK, Codes, Link, Merged, codes, past, sessions
<1> QED BY <1>1, <1>2, <1>3, <1>4, <1>5 DEF IInv

\* Merging keeps IInv.
LEMMA MergeActorKeeps ==
    ASSUME IInv, NEW r \in Reqs, MergeActor(r)
    PROVE  IInv'
<1>1. RequestsOK'
  <2>1. req[r] # Idle /\ made' = made /\ stored' = stored
    BY DEF MergeActor, Idle, people, codes
  <2>2. req[r].into \in made
    BY DEF IInv, RequestsOK, MergeActor
  <2>3. Go(r, "bound", 0, req[r].into, None)
    BY DEF MergeActor
  <2> QED BY <2>1, <2>2, <2>3, GoKeeps DEF IInv, TypeOK, Stages, Bound
<1>2. req' \in [Reqs -> Carried \cup {Idle}]
  BY <1>1 DEF RequestsOK
<1>3. TypeOK'
  BY SignInAssumption, <1>2
  DEF IInv, TypeOK, CodesOK, PeopleOK, RequestsOK, NothingLeftBehind, MergeActor,
      Moved, Repointed, Merged, codes, past, Codes, Bound
<1>4. PeopleOK'
  BY SignInAssumption, <1>2
  DEF IInv, TypeOK, PeopleOK, RequestsOK, MergeActor, Moved, Repointed, Merged,
      codes, past, Codes, Bound
<1>5. NothingLeftBehind'
  <2>1. SUFFICES ASSUME ~stale'
                 PROVE  /\ \A s \in live' : into'[owner'[s]] = None
                        /\ \A a \in suspended' : into'[a] = None
                        /\ \A a \in Actors : into'[a] # None => into'[into'[a]] = None
    BY DEF NothingLeftBehind, Merged
  <2> DEFINE from == req[r].actor  to == req[r].into
  <2>2. from \in made /\ to \in made /\ to # from /\ made \subseteq Actors
    BY DEF IInv, TypeOK, RequestsOK, MergeActor, Bound
  <2>3. ~stale /\ into[from] = None /\ into[to] = None
    BY <2>1 DEF MergeActor, Merged
  <2>4. \A a \in Actors : into'[a] = IF a = from \/ (into[a] = from /\ a # to) THEN to ELSE into[a]
    BY DEF MergeActor, Repointed
  <2>5. \A a \in Actors : a # from /\ into[a] # from => into'[a] = into[a]
    BY <2>4
  <2>6. into'[to] = None
    BY <2>2, <2>3, <2>4, SignInAssumption
  <2>7. \A a \in Actors : into[a] = None /\ a # from => into'[a] = None
    BY <2>2, <2>5, SignInAssumption
  <2>8. \A s \in live' : into'[owner'[s]] = None
    <3>1. TAKE s \in live'
    <3>2. s \in live /\ s \in Sessions /\ owner[s] \in made /\ into[owner[s]] = None
      BY <2>3, <3>1 DEF IInv, TypeOK, NothingLeftBehind, Merged, MergeActor
    <3>3. owner'[s] = IF owner[s] = from THEN to ELSE owner[s]
      BY <3>2 DEF MergeActor, Moved
    <3> QED BY <2>2, <2>6, <2>7, <3>2, <3>3
  <2>9. \A a \in suspended' : into'[a] = None
    <3>1. TAKE a \in suspended'
    <3>2. a = to \/ (a \in suspended /\ a # from)
      BY <3>1 DEF MergeActor
    <3>3. a \in suspended => a \in Actors /\ into[a] = None
      BY <2>2, <2>3 DEF IInv, TypeOK, NothingLeftBehind, Merged
    <3> QED BY <2>6, <2>7, <3>2, <3>3
  <2>10. \A a \in Actors : into'[a] # None => into'[into'[a]] = None
    <3>1. TAKE a \in Actors
    <3>2. into'[a] = to \/ into'[a] = into[a]
      BY <2>4
    <3>3. CASE into'[a] = to
      BY <2>6, <3>3
    <3>4. CASE into'[a] # to /\ into'[a] = into[a] /\ into[a] # None
      <4>1. into[a] # from
        BY <2>3, <2>4, <3>4, SignInAssumption
      <4>2. into[a] \in Actors /\ into[into[a]] = None
        BY <2>2, <2>3, <3>4 DEF IInv, PeopleOK, NothingLeftBehind, Merged
      <4> QED BY <2>7, <3>4, <4>1, <4>2
    <3> QED BY <3>2, <3>3, <3>4
  <2> QED BY <2>8, <2>9, <2>10
<1>6. CodesOK'
  BY DEF IInv, CodesOK, Codes, MergeActor, Moved, Repointed, Merged, codes, past
<1> QED BY <1>1, <1>2, <1>3, <1>4, <1>5, <1>6 DEF IInv

\* The check for a suspension keeps IInv.
LEMMA CheckSuspendedKeeps ==
    ASSUME IInv, NEW r \in Reqs, CheckSuspended(r)
    PROVE  IInv'
<1>1. RequestsOK'
  <2>1. req[r] # Idle /\ made' = made /\ stored' = stored
    BY DEF CheckSuspended, Idle, people, codes
  <2>2. req[r].actor \in made
    BY DEF IInv, RequestsOK, Bound, CheckSuspended
  <2>3. Answer(r) \/ Go(r, "present", 0, req[r].actor, None)
    BY DEF CheckSuspended
  <2> QED BY <2>1, <2>2, <2>3, AnswerKeeps, GoKeeps DEF IInv, TypeOK, Stages, Bound
<1>2. req' \in [Reqs -> Carried \cup {Idle}]
  BY <1>1 DEF RequestsOK
<1>3. TypeOK'
  BY SignInAssumption, <1>2
  DEF IInv, TypeOK, CodesOK, PeopleOK, RequestsOK, NothingLeftBehind,
      CheckSuspended, codes, past, people, sessions, Codes, Bound, Merged
<1>4. (CodesOK /\ PeopleOK /\ NothingLeftBehind)'
  BY DEF IInv, CodesOK, PeopleOK, NothingLeftBehind, Codes, Merged, CheckSuspended,
         codes, past, people, sessions
<1> QED BY <1>1, <1>2, <1>3, <1>4 DEF IInv

\* Resolving the session keeps IInv.
LEMMA PresentSessionKeeps ==
    ASSUME IInv, NEW r \in Reqs, PresentSession(r)
    PROVE  IInv'
<1>1. RequestsOK'
  <2>1. req[r] # Idle /\ made' = made /\ stored' = stored
    BY DEF PresentSession, Idle, people, codes
  <2>2. req[r].actor \in made
    BY DEF IInv, RequestsOK, Bound, PresentSession
  <2>3. req[r].cred \in Creds
    BY <2>1 DEF IInv, RequestsOK, Carried
  <2>4. CASE req[r].cred.session # None /\ Resolve(req[r].cred) # None
    <3>1. Go(r, "adopt", 0, req[r].actor, None) /\ req[r].cred.session \in Sessions
      BY <2>3, <2>4 DEF PresentSession, Creds
    <3> QED BY <2>1, <2>2, <3>1, GoKeeps DEF IInv, TypeOK, Stages, Bound
  <2>5. CASE ~(req[r].cred.session # None /\ Resolve(req[r].cred) # None)
    <3>1. Go(r, "mint", 0, req[r].actor, None)
      BY <2>5 DEF PresentSession
    <3> QED BY <2>1, <2>2, <3>1, GoKeeps DEF IInv, TypeOK, Stages, Bound
  <2> QED BY <2>4, <2>5
<1>2. req' \in [Reqs -> Carried \cup {Idle}]
  BY <1>1 DEF RequestsOK
<1>3. TypeOK'
  BY SignInAssumption, <1>2
  DEF IInv, TypeOK, CodesOK, PeopleOK, RequestsOK, NothingLeftBehind,
      PresentSession, codes, past, people, sessions, Codes, Bound, Merged
<1>4. (CodesOK /\ PeopleOK /\ NothingLeftBehind)'
  BY DEF IInv, CodesOK, PeopleOK, NothingLeftBehind, Codes, Merged, PresentSession,
         codes, past, people, sessions
<1> QED BY <1>1, <1>2, <1>3, <1>4 DEF IInv

\* Adopting it keeps IInv.
LEMMA AdoptSessionKeeps ==
    ASSUME IInv, NEW r \in Reqs, AdoptSession(r)
    PROVE  IInv'
<1>1. RequestsOK'
  <2>1. req[r] # Idle /\ made' = made /\ stored' = stored
    BY DEF AdoptSession, Idle, people, codes
  <2>2. Answer(r)
    BY DEF AdoptSession, HandOut
  <2> QED BY <2>1, <2>2, AnswerKeeps DEF IInv
<1>2. req' \in [Reqs -> Carried \cup {Idle}]
  BY <1>1 DEF RequestsOK
<1>3. TypeOK'
  <2>1. req[r].actor \in made /\ req[r].dev \in Devices
    BY DEF IInv, TypeOK, RequestsOK, AdoptSession, Bound, Carried, Idle
  <2> DEFINE s == req[r].cred.session
  <2>2. s \in Sessions
    BY DEF IInv, RequestsOK, AdoptSession
  <2>3. owner' \in [Sessions -> made \cup {None}]
    BY <2>1, <2>2 DEF IInv, TypeOK, AdoptSession
  <2>4. live' \subseteq {t \in Sessions : owner'[t] \in made}
    BY <2>1, <2>2 DEF IInv, TypeOK, AdoptSession
  <2>5. [actor |-> req[r].actor, session |-> s] \in Creds
    BY <2>1, <2>2 DEF IInv, TypeOK, Creds
  <2>6. cred' \in [Devices -> Creds]
    BY <2>5 DEF IInv, TypeOK, AdoptSession, HandOut
  <2>7. stale' \in BOOLEAN
    BY DEF AdoptSession, HandOut
  <2> QED
    BY <1>2, <2>3, <2>4, <2>6, <2>7 DEF IInv, TypeOK, AdoptSession, codes, past, people
<1>4. PeopleOK'
  BY SignInAssumption, <1>2
  DEF IInv, TypeOK, PeopleOK, RequestsOK, AdoptSession, Adoptable, HandOut, codes,
      past, people, Merged, Codes, Bound
<1>5. NothingLeftBehind'
  BY SignInAssumption, <1>2
  DEF IInv, TypeOK, NothingLeftBehind, AdoptSession, Adoptable, HandOut, codes,
      past, people, Merged, Codes
<1>6. CodesOK'
  BY DEF IInv, CodesOK, Codes, AdoptSession, Adoptable, HandOut, codes, past,
         people, Merged
<1> QED BY <1>1, <1>2, <1>3, <1>4, <1>5, <1>6 DEF IInv

\* A session ended meanwhile keeps IInv.
LEMMA AdoptRefusedKeeps ==
    ASSUME IInv, NEW r \in Reqs, AdoptRefused(r)
    PROVE  IInv'
<1>1. RequestsOK'
  <2>1. req[r] # Idle /\ made' = made /\ stored' = stored
    BY DEF AdoptRefused, Idle, people, codes
  <2>2. req[r].actor \in made
    BY DEF IInv, RequestsOK, Bound, AdoptRefused
  <2>3. Go(r, "mint", 0, req[r].actor, None)
    BY DEF AdoptRefused
  <2> QED BY <2>1, <2>2, <2>3, GoKeeps DEF IInv, TypeOK, Stages, Bound
<1>2. req' \in [Reqs -> Carried \cup {Idle}]
  BY <1>1 DEF RequestsOK
<1>3. TypeOK'
  BY SignInAssumption, <1>2
  DEF IInv, TypeOK, CodesOK, PeopleOK, RequestsOK, NothingLeftBehind, AdoptRefused,
      Adoptable, codes, past, people, sessions, Codes, Bound, Merged
<1>4. (CodesOK /\ PeopleOK /\ NothingLeftBehind)'
  BY DEF IInv, CodesOK, PeopleOK, NothingLeftBehind, Codes, Merged, AdoptRefused,
         Adoptable, codes, past, people, sessions
<1> QED BY <1>1, <1>2, <1>3, <1>4 DEF IInv

\* A new session keeps IInv.
LEMMA StartSessionKeeps ==
    ASSUME IInv, NEW r \in Reqs, StartSession(r)
    PROVE  IInv'
<1>1. RequestsOK'
  <2>1. req[r] # Idle /\ made' = made /\ stored' = stored
    BY DEF StartSession, Idle, people, codes
  <2>2. Answer(r)
    BY DEF StartSession, HandOut
  <2> QED BY <2>1, <2>2, AnswerKeeps DEF IInv
<1>2. req' \in [Reqs -> Carried \cup {Idle}]
  BY <1>1 DEF RequestsOK
<1>3. TypeOK'
  <2>1. req[r].actor \in made /\ req[r].dev \in Devices
    BY DEF IInv, TypeOK, RequestsOK, StartSession, Bound, Carried, Idle
  <2>2. PICK s \in Sessions :
          /\ owner' = [owner EXCEPT ![s] = req[r].actor] /\ live' = live \cup {s}
          /\ HandOut(r, s)
    BY DEF StartSession
  <2>3. owner' \in [Sessions -> made \cup {None}]
    BY <2>1, <2>2 DEF IInv, TypeOK
  <2>4. live' \subseteq {t \in Sessions : owner'[t] \in made}
    BY <2>1, <2>2 DEF IInv, TypeOK
  <2>5. [actor |-> req[r].actor, session |-> s] \in Creds
    BY <2>1, <2>2 DEF IInv, TypeOK, Creds
  <2>6. cred' \in [Devices -> Creds]
    BY <2>2, <2>5 DEF IInv, TypeOK, HandOut
  <2>7. stale' \in BOOLEAN
    BY <2>2 DEF HandOut
  <2> QED
    BY <1>2, <2>3, <2>4, <2>6, <2>7 DEF IInv, TypeOK, StartSession, codes, past, people
<1>4. PeopleOK'
  BY SignInAssumption, <1>2
  DEF IInv, TypeOK, PeopleOK, RequestsOK, StartSession, HandOut, codes, past,
      people, Merged, Codes, Bound
<1>5. NothingLeftBehind'
  <2>1. PICK s \in Sessions :
          /\ owner' = [owner EXCEPT ![s] = req[r].actor] /\ live' = live \cup {s}
          /\ stale' = (stale \/ Merged(req[r].actor))
    BY DEF StartSession, HandOut
  <2> QED BY <2>1 DEF IInv, TypeOK, NothingLeftBehind, Merged, StartSession, people
<1>6. CodesOK'
  BY DEF IInv, CodesOK, Codes, StartSession, HandOut, codes, past, people, Merged
<1> QED BY <1>1, <1>2, <1>3, <1>4, <1>5, <1>6 DEF IInv

\* A death keeps IInv.
LEMMA DiesKeeps ==
    ASSUME IInv, NEW r \in Reqs, Dies(r)
    PROVE  IInv'
<1>1. RequestsOK'
  <2>1. req[r] # Idle /\ made' = made /\ stored' = stored
    BY DEF Dies, Idle, people, codes
  <2> QED BY <2>1, AnswerKeeps DEF IInv, Dies
<1>2. req' \in [Reqs -> Carried \cup {Idle}]
  BY <1>1 DEF RequestsOK
<1>3. TypeOK'
  BY SignInAssumption, <1>2
  DEF IInv, TypeOK, CodesOK, PeopleOK, RequestsOK, NothingLeftBehind, Dies, codes,
      past, people, sessions, Codes, Bound, Merged
<1>4. (CodesOK /\ PeopleOK /\ NothingLeftBehind)'
  BY DEF IInv, CodesOK, PeopleOK, NothingLeftBehind, Codes, Merged, Dies, codes,
         past, people, sessions
<1> QED BY <1>1, <1>2, <1>3, <1>4 DEF IInv

\* A first contribution keeps IInv.
LEMMA ContributeKeeps ==
    ASSUME IInv, NEW d \in Devices, Contribute(d)
    PROVE  IInv'
<1>1. PICK a \in Actors \ made, s \in Sessions :
        /\ made' = made \cup {a} /\ owner[s] = None
        /\ owner' = [owner EXCEPT ![s] = a] /\ live' = live \cup {s}
        /\ cred' = [cred EXCEPT ![d] = [actor |-> a, session |-> s]]
  BY DEF Contribute, Insert
<1>2. [actor |-> a, session |-> s] \in Creds
  BY DEF IInv, TypeOK, Creds
<1>3. TypeOK'
  BY SignInAssumption, <1>1, <1>2
  DEF IInv, TypeOK, Contribute, Insert, codes, past, Codes
<1>4. PeopleOK'
  BY SignInAssumption, <1>1, <1>2
  DEF IInv, TypeOK, PeopleOK, Contribute, Insert, codes, past, Codes
<1>5. RequestsOK'
  BY SignInAssumption, <1>1, <1>2
  DEF IInv, TypeOK, RequestsOK, Contribute, Insert, codes, past, Codes, Bound
<1>6. NothingLeftBehind'
  BY <1>1 DEF IInv, TypeOK, PeopleOK, NothingLeftBehind, Merged, Contribute
<1>7. CodesOK'
  BY DEF IInv, CodesOK, Codes, Contribute, Insert, codes, past
<1> QED BY <1>3, <1>4, <1>5, <1>6, <1>7 DEF IInv

\* A credential from before sessions keeps IInv.
LEMMA RegulariseKeeps ==
    ASSUME IInv, NEW d \in Devices, Regularise(d)
    PROVE  IInv'
<1>1. PICK a \in made, s \in Sessions :
        /\ owner[s] = None /\ owner' = [owner EXCEPT ![s] = a] /\ live' = live \cup {s}
        /\ cred' = [cred EXCEPT ![d] = [actor |-> a, session |-> s]]
        /\ stale' = (stale \/ Merged(a))
  <2>1. cred[d] \in Creds /\ cred[d].actor \in made \cup {None}
    BY DEF IInv, TypeOK, PeopleOK
  <2>2. Resolve(cred[d]) \in made
    BY <2>1, NamesMade DEF IInv, Regularise
  <2> QED BY <2>2 DEF Regularise
<1>2. [actor |-> a, session |-> s] \in Creds
  BY DEF IInv, TypeOK, Creds
<1>3. TypeOK'
  BY SignInAssumption, <1>1, <1>2
  DEF IInv, TypeOK, Regularise, Pressed, Merged, codes, past, people, Codes
<1>4. PeopleOK'
  BY SignInAssumption, <1>1, <1>2
  DEF IInv, TypeOK, PeopleOK, Regularise, Pressed, Merged, codes, past, people,
      Codes
<1>5. NothingLeftBehind'
  BY <1>1 DEF IInv, TypeOK, NothingLeftBehind, Merged, Regularise, people
<1>6. (CodesOK /\ RequestsOK)'
  BY DEF IInv, CodesOK, RequestsOK, Codes, Bound, Regularise, Pressed, Merged,
         codes, past, people
<1> QED BY <1>3, <1>4, <1>5, <1>6 DEF IInv

\* Signing out keeps IInv.
LEMMA SignOutKeeps ==
    ASSUME IInv, NEW d \in Devices, SignOut(d)
    PROVE  IInv'
<1>1. TypeOK'
  <2>1. NoCred \in Creds
    BY DEF NoCred, Creds
  <2>2. cred' \in [Devices -> Creds] /\ live' \subseteq live
    BY <2>1 DEF IInv, TypeOK, SignOut
  <2>3. presses' \in 0 .. MaxPresses
    BY PressedCounts DEF IInv, SignOut
  <2> QED BY <2>2, <2>3 DEF IInv, TypeOK, SignOut, codes, past, people
<1>2. PeopleOK'
  BY SignInAssumption
  DEF IInv, TypeOK, PeopleOK, SignOut, Pressed, NoCred, codes, past, people, Codes
<1>3. NothingLeftBehind'
  BY SignInAssumption
  DEF IInv, TypeOK, NothingLeftBehind, SignOut, Pressed, NoCred, codes, past,
      people, Codes, Merged
<1>4. (CodesOK /\ RequestsOK)'
  BY DEF IInv, CodesOK, RequestsOK, Codes, Bound, SignOut, Pressed, NoCred, codes,
         past, people
<1> QED BY <1>1, <1>2, <1>3, <1>4 DEF IInv

\* Signing out everywhere else keeps IInv.
LEMMA RevokeOthersKeeps ==
    ASSUME IInv, NEW d \in Devices, RevokeOthers(d)
    PROVE  IInv'
<1>1. TypeOK'
  BY SignInAssumption
  DEF IInv, TypeOK, RevokeOthers, Pressed, codes, past, people, Codes
<1>2. NothingLeftBehind'
  BY SignInAssumption
  DEF IInv, TypeOK, NothingLeftBehind, RevokeOthers, Pressed, codes, past, people,
      Codes, Merged
<1>3. (CodesOK /\ PeopleOK /\ RequestsOK)'
  BY DEF IInv, CodesOK, PeopleOK, RequestsOK, Codes, Bound, RevokeOthers, Pressed,
         codes, past, people
<1> QED BY <1>1, <1>2, <1>3 DEF IInv

\* Naming a device keeps IInv.
LEMMA ReadDeviceKeeps ==
    ASSUME IInv, NEW d \in Devices, ReadDevice(d)
    PROVE  IInv'
<1>1. TypeOK'
  <2>1. ending' \subseteq Sessions
    BY DEF IInv, TypeOK, ReadDevice, SessionsOf
  <2>2. presses' \in 0 .. MaxPresses
    BY PressedCounts DEF IInv, ReadDevice
  <2> QED BY <2>1, <2>2 DEF IInv, TypeOK, ReadDevice, codes, past, people, sessions
<1>2. (CodesOK /\ PeopleOK /\ RequestsOK /\ NothingLeftBehind)'
  BY DEF IInv, CodesOK, PeopleOK, RequestsOK, NothingLeftBehind, Codes, Bound,
         Merged, ReadDevice, Pressed, codes, past, people, sessions
<1> QED BY <1>1, <1>2 DEF IInv

\* Ending what was named keeps IInv.
LEMMA EndDeviceKeeps ==
    ASSUME IInv, EndDevice
    PROVE  IInv'
<1>1. TypeOK'
  BY SignInAssumption
  DEF IInv, TypeOK, EndDevice, codes, past, people, Codes
<1>2. NothingLeftBehind'
  BY SignInAssumption
  DEF IInv, TypeOK, NothingLeftBehind, EndDevice, codes, past, people, Codes, Merged
<1>3. (CodesOK /\ PeopleOK /\ RequestsOK)'
  BY DEF IInv, CodesOK, PeopleOK, RequestsOK, Codes, Bound, EndDevice, codes, past,
         people
<1> QED BY <1>1, <1>2, <1>3 DEF IInv

\* An expiry keeps IInv.
LEMMA SessionExpiresKeeps ==
    ASSUME IInv, NEW s \in Sessions, SessionExpires(s)
    PROVE  IInv'
<1>1. TypeOK'
  BY SignInAssumption
  DEF IInv, TypeOK, SessionExpires, Pressed, codes, past, people, Codes
<1>2. NothingLeftBehind'
  BY SignInAssumption
  DEF IInv, TypeOK, NothingLeftBehind, SessionExpires, Pressed, codes, past,
      people, Codes, Merged
<1>3. (CodesOK /\ PeopleOK /\ RequestsOK)'
  BY DEF IInv, CodesOK, PeopleOK, RequestsOK, Codes, Bound, SessionExpires,
         Pressed, codes, past, people
<1> QED BY <1>1, <1>2, <1>3 DEF IInv

\* A suspension keeps IInv.
LEMMA SuspendKeeps ==
    ASSUME IInv, NEW a \in Actors, Suspend(a)
    PROVE  IInv'
<1>1. TypeOK'
  BY SignInAssumption
  DEF IInv, TypeOK, Suspend, Pressed, Merged, codes, past, sessions, Codes
<1>2. NothingLeftBehind'
  BY SignInAssumption
  DEF IInv, TypeOK, NothingLeftBehind, Suspend, Pressed, Merged, codes, past,
      sessions, Codes
<1>3. (CodesOK /\ PeopleOK /\ RequestsOK)'
  BY DEF IInv, CodesOK, PeopleOK, RequestsOK, Codes, Bound, Suspend, Pressed,
         Merged, codes, past, sessions
<1> QED BY <1>1, <1>2, <1>3 DEF IInv

\* The end of a suspension keeps IInv.
LEMMA LiftSuspensionKeeps ==
    ASSUME IInv, NEW a \in Actors, LiftSuspension(a)
    PROVE  IInv'
<1>1. TypeOK'
  BY SignInAssumption
  DEF IInv, TypeOK, LiftSuspension, codes, past, sessions, Codes
<1>2. NothingLeftBehind'
  BY SignInAssumption
  DEF IInv, TypeOK, NothingLeftBehind, LiftSuspension, codes, past, sessions,
      Codes, Merged
<1>3. (CodesOK /\ PeopleOK /\ RequestsOK)'
  BY DEF IInv, CodesOK, PeopleOK, RequestsOK, Codes, Bound, LiftSuspension, codes,
         past, sessions
<1> QED BY <1>1, <1>2, <1>3 DEF IInv

\* The deletion of an account keeps IInv.
LEMMA DeleteAccountKeeps ==
    ASSUME IInv, NEW d \in Devices, DeleteAccount(d)
    PROVE  IInv'
<1>1. TypeOK'
  BY SignInAssumption
  DEF IInv, TypeOK, DeleteAccount, Pressed, codes, past, Codes
<1>2. NothingLeftBehind'
  BY SignInAssumption
  DEF IInv, TypeOK, NothingLeftBehind, DeleteAccount, Pressed, codes, past, Codes,
      Merged
<1>3. (CodesOK /\ PeopleOK /\ RequestsOK)'
  BY DEF IInv, CodesOK, PeopleOK, RequestsOK, Codes, Bound, DeleteAccount, Pressed,
         codes, past
<1> QED BY <1>1, <1>2, <1>3 DEF IInv

\* Nothing is decided while nothing changes.
LEMMA StutterKeeps ==
    ASSUME IInv, UNCHANGED vars
    PROVE  IInv'
BY DEF IInv, TypeOK, CodesOK, PeopleOK, RequestsOK, NothingLeftBehind, Bound, Merged,
       vars, codes, past, people, sessions

\* A step of a sign-in keeps IInv.
LEMMA RequestKeeps ==
    ASSUME IInv, NEW r \in Reqs,
           Prove(r) \/ Bind(r) \/ Establish(r) \/ Dies(r)
    PROVE  IInv'
<1>1. CASE Prove(r)
  BY <1>1, PresentKeeps, PresentProofKeeps, ClaimKeeps, ClaimRefusedKeeps, SpendKeeps,
     SpendLostKeeps, RetireKeeps DEF Prove
<1>2. CASE Bind(r)
  BY <1>2, AccountExistsKeeps, EnsureActorKeeps, FindAccountKeeps, CreateAccountKeeps,
     FindCanonicalKeeps, LinkKeeps, MergeActorKeeps DEF Bind
<1>3. CASE Establish(r)
  BY <1>3, CheckSuspendedKeeps, PresentSessionKeeps, AdoptSessionKeeps, AdoptRefusedKeeps,
     StartSessionKeeps DEF Establish
<1> QED BY <1>1, <1>2, <1>3, DiesKeeps

\* Every step keeps IInv.
LEMMA StepKeeps ==
    ASSUME IInv, [Next]_vars
    PROVE  IInv'
<1>1. CASE UNCHANGED vars
  BY <1>1, StutterKeeps
<1>2. CASE Code \/ EndDevice
  BY <1>2, AskCodeKeeps, StoreCodeKeeps, EndDeviceKeeps DEF Code
<1>3. CASE \E r \in Reqs : Prove(r) \/ Bind(r) \/ Establish(r) \/ Dies(r)
  BY <1>3, RequestKeeps
<1>4. CASE \E d \in Devices : Device(d)
  BY <1>4, ContributeKeeps, RegulariseKeeps, SignOutKeeps, RevokeOthersKeeps,
     ReadDeviceKeeps, DeleteAccountKeeps DEF Device
<1>5. CASE \E a \in Actors : Suspend(a) \/ LiftSuspension(a)
  BY <1>5, SuspendKeeps, LiftSuspensionKeeps
<1>6. CASE \E s \in Sessions : SessionExpires(s)
  BY <1>6, SessionExpiresKeeps
<1> QED BY <1>1, <1>2, <1>3, <1>4, <1>5, <1>6 DEF Next

\* The program starts with no rows and no requests.
LEMMA InitKeeps ==
    ASSUME Init
    PROVE  IInv
<1>1. NoCred \in Creds /\ NoCred.actor = None /\ Idle.cred = NoCred /\ Idle.at = "idle"
  BY DEF NoCred, Creds, Idle
<1>2. TypeOK
  <2>1. asked \in 0 .. MaxCodes /\ presses \in 0 .. MaxPresses
    BY SignInAssumption DEF Init
  <2>6. stored \subseteq 1 .. asked /\ outstanding \subseteq stored /\ settled \subseteq stored
    BY DEF Init
  <2>7. stale \in BOOLEAN
    BY Zenon DEF Init
  <2>2. /\ address \in [Codes -> Emails \cup {None}] /\ sees \in [Codes -> SUBSET Codes]
        /\ attempts \in [Codes -> Nat] /\ compared \in [Codes -> Nat]
        /\ signed \in [Codes -> Nat]
    BY DEF Init
  <2>3. /\ accounts \subseteq Emails /\ made \subseteq Actors /\ suspended \subseteq made
        /\ account \in [Actors -> Emails \cup {None}]
        /\ into \in [Actors -> Actors \cup {None}]
    BY DEF Init
  <2>4. /\ owner \in [Sessions -> made \cup {None}]
        /\ live \subseteq {s \in Sessions : owner[s] \in made}
        /\ proofs \subseteq Devices \X Emails /\ ending \subseteq Sessions
    BY DEF Init
  <2>5. cred \in [Devices -> Creds] /\ req \in [Reqs -> Carried \cup {Idle}]
    BY <1>1 DEF Init
  <2> QED BY <2>1, <2>2, <2>3, <2>4, <2>5, <2>6, <2>7 DEF TypeOK
<1>3. CodesOK
  BY SignInAssumption DEF Init, CodesOK, Codes
<1>4. PeopleOK /\ RequestsOK
  BY <1>1 DEF Init, PeopleOK, RequestsOK, Bound
<1>5. NothingLeftBehind
  BY DEF Init, NothingLeftBehind, Merged
<1> QED BY <1>2, <1>3, <1>4, <1>5 DEF IInv

\* The inductive invariant holds in every state the program reaches.
THEOREM Invariance == Spec => []IInv
<1>1. Init => IInv
  BY InitKeeps
<1>2. IInv /\ [Next]_vars => IInv'
  BY StepKeeps
<1> QED BY <1>1, <1>2, PTL DEF Spec

\* Every variable keeps its type: no session names an actor nobody made.
THEOREM TypeCorrect == Spec => []TypeOK
<1>1. IInv => TypeOK
  BY DEF IInv
<1> QED BY <1>1, Invariance, PTL

\* However many requests carry a code, it is compared MAX_CODE_ATTEMPTS times at
\* most and signs in at most once.
THEOREM CodesAreBudgeted == Spec => []CodeBudget
<1>1. IInv => CodeBudget
  BY DEF IInv, CodesOK, CodeBudget
<1> QED BY <1>1, Invariance, PTL

\* Without a write about an actor merged since it was read, merging leaves no live
\* session, no suspension and no chain of pointers behind.
THEOREM MergesLeaveNothing == Spec => []NothingLeftBehind
<1>1. IInv => NothingLeftBehind
  BY DEF IInv
<1> QED BY <1>1, Invariance, PTL

\* A code that was stored when its address was proved signs nobody in afterwards.
THEOREM SettledStaysDead == Spec => SettledIsDead
<1>1. ASSUME IInv, [Next]_vars
      PROVE  \A c \in settled : signed'[c] = signed[c]
  <2>1. CASE \E r \in Reqs : Spend(r)
    <3>1. PICK r \in Reqs : Spend(r)
      BY <2>1
    <3>2. \A c \in settled : c \in Codes /\ c # req[r].row
      BY <1>1, <3>1, StoredCodes DEF IInv, TypeOK, CodesOK, Spend, Unspent
    <3> QED BY <1>1, <3>1, <3>2 DEF IInv, TypeOK, Spend
  <2>2. CASE ~\E r \in Reqs : Spend(r)
    <3>1. signed' = signed
      BY <1>1, <2>2
      DEF Next, Code, Prove, Bind, Establish, Device, vars, past,
          AskCode, StoreCode, Present, PresentProof, Claim, ClaimRefused, SpendLost,
          Retire, AccountExists, EnsureActor, FindAccount, CreateAccount, FindCanonical,
          Link, MergeActor, CheckSuspended, PresentSession, AdoptSession, AdoptRefused,
          StartSession, Dies, Contribute, Regularise, SignOut, RevokeOthers, ReadDevice,
          EndDevice, SessionExpires, Suspend, LiftSuspension, DeleteAccount
    <3> QED BY <3>1
  <2> QED BY <2>1, <2>2
<1>2. IInv /\ [Next]_vars => [\A c \in settled : signed'[c] = signed[c]]_vars
  BY <1>1
<1> QED BY <1>2, Invariance, PTL DEF Spec, SettledIsDead
\* The answer to a sign-in leaves its device with a live session of the actor it was
\* bound to.
THEOREM SignInsWork == Spec => SignInWorks
<1> DEFINE Works == \A r \in Reqs :
        (req[r].at \in {"adopt", "mint"} /\ req'[r] = Idle /\ cred' # cred) =>
            /\ cred'[req[r].dev].session \in live'
            /\ owner'[cred'[req[r].dev].session] = req[r].actor
<1>1. ASSUME IInv, [Next]_vars
      PROVE  Works
  <2>1. SUFFICES ASSUME NEW r \in Reqs, req[r].at \in {"adopt", "mint"}, req'[r] = Idle,
                        cred' # cred
                 PROVE  /\ cred'[req[r].dev].session \in live'
                        /\ owner'[cred'[req[r].dev].session] = req[r].actor
    OBVIOUS
  <2>2. req[r] # Idle /\ req[r].dev \in Devices
    BY <1>1, <2>1 DEF IInv, TypeOK, Idle, Carried
  <2>3. CASE \E q \in Reqs : AdoptSession(q)
    <3>1. PICK q \in Reqs : AdoptSession(q)
      BY <2>3
    <3>2. q = r
      BY <1>1, <2>1, <2>2, <3>1 DEF IInv, TypeOK, AdoptSession, HandOut, Answer
    <3>3. req[r].cred.session \in live /\ live' = live /\ req[r].cred.session \in Sessions
      BY <1>1, <3>1, <3>2 DEF IInv, RequestsOK, AdoptSession, Adoptable
    <3>4. cred'[req[r].dev].session = req[r].cred.session
      BY <1>1, <2>2, <3>1, <3>2 DEF IInv, TypeOK, AdoptSession, HandOut
    <3>5. owner'[req[r].cred.session] = req[r].actor
      BY <1>1, <3>1, <3>2, <3>3 DEF IInv, TypeOK, AdoptSession
    <3> QED BY <3>3, <3>4, <3>5
  <2>4. CASE \E q \in Reqs : StartSession(q)
    <3>1. PICK q \in Reqs : StartSession(q)
      BY <2>4
    <3>2. q = r
      BY <1>1, <2>1, <2>2, <3>1 DEF IInv, TypeOK, StartSession, HandOut, Answer
    <3>3. PICK s \in Sessions :
            /\ owner' = [owner EXCEPT ![s] = req[r].actor] /\ live' = live \cup {s}
            /\ cred' = [cred EXCEPT ![req[r].dev] = [actor |-> req[r].actor, session |-> s]]
      BY <3>1, <3>2 DEF StartSession, HandOut
    <3> QED BY <1>1, <2>2, <3>3 DEF IInv, TypeOK
  <2>5. CASE \E q \in Reqs : EnsureActor(q)
    <3>1. PICK q \in Reqs : EnsureActor(q)
      BY <2>5
    <3>2. PICK a : Go(q, "account", 0, a, None)
      BY <3>1, Zenon DEF EnsureActor
    <3>3. req'[r] = req[r] \/ req'[r].at = "account"
      BY <1>1, <3>2 DEF IInv, TypeOK, Go
    <3> QED BY <2>1, <2>2, <3>3 DEF Idle
  <2>6. CASE ~\E q \in Reqs : AdoptSession(q) \/ StartSession(q) \/ EnsureActor(q)
    <3>1. cred' = cred \/ req' = req
      BY <1>1, <2>6
      DEF Next, Code, Prove, Bind, Establish, Device, vars, past,
          AskCode, StoreCode, Present, PresentProof, Claim, ClaimRefused, Spend, SpendLost,
          Retire, AccountExists, FindAccount, CreateAccount, FindCanonical,
          Link, MergeActor, CheckSuspended, PresentSession, AdoptRefused,
          Dies, Contribute, Regularise, SignOut, RevokeOthers, ReadDevice,
          EndDevice, SessionExpires, Suspend, LiftSuspension, DeleteAccount
    <3> QED BY <2>1, <2>2, <3>1
  <2> QED BY <2>3, <2>4, <2>5, <2>6
<1>2. IInv /\ [Next]_vars => [Works]_vars
  BY <1>1
<1> QED BY <1>2, Invariance, PTL DEF Spec, SignInWorks
=============================================================================

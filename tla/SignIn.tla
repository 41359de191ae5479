------------------------------- MODULE SignIn -------------------------------
(* Signing in: codes that are mailed and guessed at, the account an address     *)
(* is bound to, the merging of two actors who turn out to be one person, and    *)
(* the sessions by which a device is known until somebody ends them.            *)
(*                                                                             *)
(* A sign-in is cut where the code awaits the database: reading the code,       *)
(* claiming an attempt, spending it, retiring the rest, and then each read and  *)
(* write of the binding and of the session. Transactions and single statements  *)
(* are one step. A request keeps the credential it was sent with, although its  *)
(* device may get another one from a second request meanwhile.                  *)
EXTENDS Naturals, FiniteSets

CONSTANTS
    Emails,     \* addresses
    Devices,    \* browsers and phones
    Browsers,   \* those that keep a cookie: a phone keeps a token
    Reqs,       \* sign-in requests that can be under way at once
    Actors,     \* rows of actor
    Sessions,   \* rows of session
    MaxCodes,   \* bound: codes asked for (SIGN_IN_ADDRESS_LIMIT an hour)
    MaxPresses, \* bound: presses outside a sign-in, decisions by staff, expiries
    MAX_CODE_ATTEMPTS,
    None

ASSUME SignInAssumption ==
    /\ Browsers \subseteq Devices
    /\ None \notin Emails \cup Devices \cup Actors \cup Sessions
    /\ MaxCodes \in Nat /\ MaxPresses \in Nat /\ MAX_CODE_ATTEMPTS \in Nat \ {0}

VARIABLES
    asked,      \* codes asked for; a code is named by its created_at
    address,    \* what address each was asked for
    sees,       \* the rows that the asking of each found outstanding
    stored,     \* codes whose transaction has committed
    outstanding, \* those whose consumed_at is null
    attempts,   \* attempts of each
    compared, signed, \* history: guesses compared with a code, sign-ins by it
    settled,    \* history: codes stored when a sign-in to their address was proved
    accounts,   \* addresses with an account
    made,       \* actors there are
    account, into, \* account_id and merged_into_id of each
    suspended,  \* actors with a suspension that is not lifted
    owner, live, \* actor_id of a session; sessions not revoked
    cred,       \* what each device presents
    proofs,     \* devices that were given an age proof for an address
    ending,     \* sessions a press on the Devices screen has read
    req,        \* sign-in requests
    presses,    \* presses so far
    stale       \* history: something was written about an actor merged since read

codes    == <<asked, address, sees, stored, outstanding, attempts>>
past     == <<compared, signed, settled>>
people   == <<accounts, made, account, into, suspended>>
sessions == <<owner, live>>
vars     == <<codes, past, people, sessions, cred, proofs, ending, req, presses, stale>>

Codes == 1 .. MaxCodes
NoCred == [actor |-> None, session |-> None]
Creds == [actor : Actors \cup {None}, session : Sessions \cup {None}]
Stages == {"claim", "spend", "retire", "proven", "proof", "actor", "account",
           "create", "canonical", "link", "merge", "bound", "present", "adopt", "mint"}
Idle == [at |-> "idle", dev |-> None, cred |-> NoCred, email |-> None,
         row |-> 0, actor |-> None, into |-> None]
Carried == [at : Stages, dev : Devices, cred : Creds, email : Emails,
            row : Codes \cup {0},
            actor : Actors \cup {None}, into : Actors \cup {None}]

TypeOK ==
    /\ asked \in 0 .. MaxCodes
    /\ address \in [Codes -> Emails \cup {None}]
    /\ sees \in [Codes -> SUBSET Codes]
    /\ stored \subseteq 1 .. asked /\ outstanding \subseteq stored
    /\ attempts \in [Codes -> Nat]
    /\ compared \in [Codes -> Nat] /\ signed \in [Codes -> Nat]
    /\ settled \subseteq stored
    /\ accounts \subseteq Emails
    /\ made \subseteq Actors
    /\ account \in [Actors -> Emails \cup {None}]
    /\ into \in [Actors -> Actors \cup {None}]
    /\ suspended \subseteq made
    /\ owner \in [Sessions -> made \cup {None}]
    /\ live \subseteq {s \in Sessions : owner[s] \in made}
    /\ cred \in [Devices -> Creds]
    /\ proofs \subseteq Devices \X Emails
    /\ ending \subseteq Sessions
    /\ req \in [Reqs -> Carried \cup {Idle}]
    /\ presses \in 0 .. MaxPresses
    /\ stale \in BOOLEAN

Init ==
    /\ asked = 0 /\ stored = {} /\ outstanding = {}
    /\ address = [c \in Codes |-> None] /\ sees = [c \in Codes |-> {}]
    /\ attempts = [c \in Codes |-> 0]
    /\ compared = [c \in Codes |-> 0] /\ signed = [c \in Codes |-> 0] /\ settled = {}
    /\ accounts = {} /\ made = {} /\ suspended = {}
    /\ account = [a \in Actors |-> None] /\ into = [a \in Actors |-> None]
    /\ owner = [s \in Sessions |-> None] /\ live = {}
    /\ cred = [d \in Devices |-> NoCred]
    /\ proofs = {} /\ ending = {}
    /\ req = [r \in Reqs |-> Idle]
    /\ presses = 0 /\ stale = FALSE

-----------------------------------------------------------------------------
(* What the rows say.                                                          *)

For(e) == {c \in stored : address[c] = e}
Newest(c, e) ==
    /\ c \in outstanding /\ address[c] = e
    /\ \A o \in outstanding : address[o] = e => o <= c

Merged(a) == into[a] # None
Canonical(a, e) == a \in made /\ account[a] = e /\ ~Merged(a)
SessionsOf(a) == {s \in live : owner[s] = a}

Hop(a) == IF Merged(a) THEN into[a] ELSE a
ResolveActor(a) == Hop(Hop(Hop(Hop(a))))

\* The actor a credential names, or None: its session decides, if it has one.
Names(c) ==
    IF c.session # None THEN (IF c.session \in live THEN owner[c.session] ELSE None)
    ELSE IF c.actor # None THEN ResolveActor(c.actor) ELSE None
Resolve(c) == IF Names(c) \in suspended THEN None ELSE Names(c)
SignedIn(d) == Resolve(cred[d]) # None /\ account[Resolve(cred[d])] # None

-----------------------------------------------------------------------------
(* Asking for a code. The transaction retires what it finds outstanding and     *)
(* inserts a row; both are seen only once it commits.                           *)

AskCode(e) ==
    /\ asked < MaxCodes
    /\ asked' = asked + 1
    /\ address' = [address EXCEPT ![asked + 1] = e]
    /\ sees' = [sees EXCEPT ![asked + 1] = outstanding \cap For(e)]
    /\ UNCHANGED <<stored, outstanding, attempts>>
    /\ UNCHANGED <<past, people, sessions, cred, proofs, ending, req, stale, presses>>

StoreCode(c) ==
    /\ c \in 1 .. asked /\ c \notin stored
    /\ stored' = stored \cup {c}
    /\ outstanding' = (outstanding \ sees[c]) \cup {c}
    /\ sees' = [sees EXCEPT ![c] = {}]
    /\ UNCHANGED <<asked, address, attempts>>
    /\ UNCHANGED <<past, people, sessions, cred, proofs, ending, req, stale, presses>>

-----------------------------------------------------------------------------
(* Proving an address with a code.                                              *)

Go(r, at, row, actor, target) ==
    req' = [req EXCEPT ![r] = [at |-> at, dev |-> req[r].dev, cred |-> req[r].cred,
                               email |-> req[r].email, row |-> row,
                               actor |-> actor, into |-> target]]
Answer(r) == req' = [req EXCEPT ![r] = Idle]

\* The row read is the newest of the outstanding ones.
Present(r, d, e, c) ==
    /\ req[r] = Idle /\ Newest(c, e)
    /\ req' = [req EXCEPT ![r] = [at |-> "claim", dev |-> d, cred |-> cred[d], email |-> e,
                                  row |-> c, actor |-> None, into |-> None]]
    /\ UNCHANGED <<codes, past, people, sessions, cred, proofs, ending, stale, presses>>

Claimable(c) == c \in outstanding /\ attempts[c] < MAX_CODE_ATTEMPTS

\* Right or wrong, the guess is counted; only the right one goes on.
Claim(r) ==
    /\ req[r].at = "claim"
    /\ LET c == req[r].row IN
        /\ Claimable(c)
        /\ attempts' = [attempts EXCEPT ![c] = @ + 1]
        /\ compared' = [compared EXCEPT ![c] = @ + 1]
        /\ Go(r, "spend", c, None, None) \/ Answer(r)
    /\ UNCHANGED <<asked, address, sees, stored, outstanding, signed, settled>>
    /\ UNCHANGED <<people, sessions, cred, proofs, ending, stale, presses>>

\* Ten minutes are not counted: any code may have expired.
ClaimRefused(r) ==
    /\ req[r].at = "claim"
    /\ Answer(r)
    /\ UNCHANGED <<codes, past, people, sessions, cred, proofs, ending, stale, presses>>

\* Mutant of Unspent: the update asks for the id alone.
UnspentAnyway(c) == TRUE

\* Only the update that finds the row unconsumed signs anybody in.
Unspent(c) == c \in outstanding

Spend(r) ==
    /\ req[r].at = "spend" /\ Unspent(req[r].row)
    /\ outstanding' = outstanding \ {req[r].row}
    /\ signed' = [signed EXCEPT ![req[r].row] = @ + 1]
    /\ Go(r, "retire", 0, None, None)
    /\ UNCHANGED <<asked, address, sees, stored, attempts, compared, settled>>
    /\ UNCHANGED <<people, sessions, cred, proofs, ending, stale, presses>>

SpendLost(r) ==
    /\ req[r].at = "spend" /\ ~Unspent(req[r].row)
    /\ Answer(r)
    /\ UNCHANGED <<codes, past, people, sessions, cred, proofs, ending, stale, presses>>

\* Mutant of Retires: only the row that was read is consumed.
RetiresOne(e) == outstanding

Retires(e) == outstanding \ For(e)

Retire(r) ==
    /\ req[r].at = "retire"
    /\ outstanding' = Retires(req[r].email)
    /\ settled' = settled \cup For(req[r].email)
    /\ Go(r, "proven", 0, None, None)
    /\ UNCHANGED <<asked, address, sees, stored, attempts, compared, signed>>
    /\ UNCHANGED <<people, sessions, cred, proofs, ending, stale, presses>>

-----------------------------------------------------------------------------
(* Binding the device's actor to the account of the proved address.             *)

\* An age proof finishes making an account without a second code. One that has
\* expired is one that nobody presents.
PresentProof(r, d, e) ==
    /\ req[r] = Idle /\ <<d, e>> \in proofs
    /\ req' = [req EXCEPT ![r] = [at |-> "proof", dev |-> d, cred |-> cred[d], email |-> e,
                                  row |-> 0, actor |-> None, into |-> None]]
    /\ UNCHANGED <<codes, past, people, sessions, cred, proofs, ending, stale, presses>>

\* With an account: a proof, or a form that meant to create one, goes no further.
\* With none: either the date of birth came along, or a proof is handed out.
AccountExists(r) ==
    /\ req[r].at \in {"proven", "proof"}
    /\ IF req[r].email \in accounts
       THEN /\ \/ Answer(r)
               \/ req[r].at = "proven" /\ Go(r, "actor", 0, None, None)
            /\ UNCHANGED proofs
       ELSE \/ Go(r, "actor", 0, None, None) /\ UNCHANGED proofs
            \/ Answer(r) /\ proofs' = proofs \cup {<<req[r].dev, req[r].email>>}
    /\ UNCHANGED <<codes, past, people, sessions, cred, ending, stale, presses>>

\* Mutant of Insert: the id is returned and no row is made for it.
InsertNothing(a) == made

Insert(a) == made \cup {a}

EnsureActor(r) ==
    /\ req[r].at = "actor"
    /\ LET d == req[r].dev IN
        IF Resolve(req[r].cred) # None
        THEN /\ Go(r, "account", 0, Resolve(req[r].cred), None)
             /\ UNCHANGED <<made, cred>>
        ELSE \E a \in Actors \ made :
             /\ made' = Insert(a)
             /\ Go(r, "account", 0, a, None)
             /\ cred' = IF d \in Browsers
                        THEN [cred EXCEPT ![d] = [actor |-> a, session |-> None]] ELSE cred
    /\ UNCHANGED <<accounts, account, into, suspended>>
    /\ UNCHANGED <<codes, past, sessions, proofs, ending, stale, presses>>

FindAccount(r) ==
    /\ req[r].at = "account"
    /\ LET next == IF req[r].email \in accounts THEN "canonical" ELSE "create" IN
        Go(r, next, 0, req[r].actor, None)
    /\ UNCHANGED <<codes, past, people, sessions, cred, proofs, ending, stale, presses>>

\* account.email is unique: of two inserts one fails, and its request with it.
CreateAccount(r) ==
    /\ req[r].at = "create"
    /\ IF req[r].email \in accounts
       THEN Answer(r) /\ UNCHANGED accounts
       ELSE Go(r, "link", 0, req[r].actor, None) /\ accounts' = accounts \cup {req[r].email}
    /\ UNCHANGED <<made, account, into, suspended>>
    /\ UNCHANGED <<codes, past, sessions, cred, proofs, ending, stale, presses>>

FindCanonical(r) ==
    /\ req[r].at = "canonical"
    /\ LET e == req[r].email  mine == req[r].actor IN
        \/ /\ \A a \in Actors : ~Canonical(a, e)
           /\ Go(r, "link", 0, mine, None)
        \/ \E a \in Actors :
            /\ Canonical(a, e)
            /\ IF a = mine THEN Go(r, "bound", 0, mine, None) ELSE Go(r, "merge", 0, mine, a)
    /\ UNCHANGED <<codes, past, people, sessions, cred, proofs, ending, stale, presses>>

\* The account may be gone again, and then the foreign key refuses the update.
Link(r) ==
    /\ req[r].at = "link"
    /\ LET a == req[r].actor IN
        IF req[r].email \in accounts
        THEN /\ account' = [account EXCEPT ![a] = req[r].email]
             /\ stale' = (stale \/ Merged(a))
             /\ Go(r, "bound", 0, a, None)
        ELSE Answer(r) /\ UNCHANGED <<account, stale>>
    /\ UNCHANGED <<accounts, made, into, suspended>>
    /\ UNCHANGED <<codes, past, sessions, cred, proofs, ending, presses>>

\* Mutant of Moved: sessions are left out of the list of tables.
MovedNot(s, from, to) == owner[s]

\* mergeActor moves every row of `from', sessions and suspensions among them,
\* and lets whatever pointed at `from' point at `to'.
Moved(s, from, to) == IF owner[s] = from THEN to ELSE owner[s]
Repointed(a, from, to) ==
    IF a = from \/ (into[a] = from /\ a # to) THEN to ELSE into[a]

MergeActor(r) ==
    /\ req[r].at = "merge"
    /\ LET from == req[r].actor  to == req[r].into IN
        /\ owner' = [s \in Sessions |-> Moved(s, from, to)]
        /\ into' = [a \in Actors |-> Repointed(a, from, to)]
        /\ account' = [account EXCEPT ![from] = None]
        /\ suspended' = IF from \in suspended THEN (suspended \ {from}) \cup {to}
                        ELSE suspended
        /\ stale' = (stale \/ Merged(from) \/ Merged(to))
        /\ Go(r, "bound", 0, to, None)
    /\ UNCHANGED <<accounts, made, live>>
    /\ UNCHANGED <<codes, past, cred, proofs, ending, presses>>

-----------------------------------------------------------------------------
(* Establishing the session: the one the device came with, if it is still live. *)

CheckSuspended(r) ==
    /\ req[r].at = "bound"
    /\ IF req[r].actor \in suspended THEN Answer(r)
       ELSE Go(r, "present", 0, req[r].actor, None)
    /\ UNCHANGED <<codes, past, people, sessions, cred, proofs, ending, stale, presses>>

PresentSession(r) ==
    /\ req[r].at = "present"
    /\ LET c == req[r].cred
           kept == c.session # None /\ Resolve(c) # None IN
        Go(r, IF kept THEN "adopt" ELSE "mint", 0, req[r].actor, None)
    /\ UNCHANGED <<codes, past, people, sessions, cred, proofs, ending, stale, presses>>

\* Mutant of Adoptable: whatever the row has become since it was resolved.
AdoptableStill(s) == TRUE

\* Where revoked_at is null.
Adoptable(s) == s \in live

\* The answer hands the device the credential of its session.
HandOut(r, s) ==
    /\ cred' = [cred EXCEPT ![req[r].dev] = [actor |-> req[r].actor, session |-> s]]
    /\ stale' = (stale \/ Merged(req[r].actor))
    /\ Answer(r)

AdoptSession(r) ==
    /\ req[r].at = "adopt" /\ Adoptable(req[r].cred.session)
    /\ owner' = [owner EXCEPT ![req[r].cred.session] = req[r].actor]
    /\ HandOut(r, req[r].cred.session)
    /\ UNCHANGED <<codes, past, people, live, proofs, ending, presses>>

AdoptRefused(r) ==
    /\ req[r].at = "adopt" /\ ~Adoptable(req[r].cred.session)
    /\ Go(r, "mint", 0, req[r].actor, None)
    /\ UNCHANGED <<codes, past, people, sessions, cred, proofs, ending, stale, presses>>

StartSession(r) ==
    /\ req[r].at = "mint"
    /\ \E s \in Sessions :
        /\ owner[s] = None
        /\ owner' = [owner EXCEPT ![s] = req[r].actor]
        /\ live' = live \cup {s}
        /\ HandOut(r, s)
    /\ UNCHANGED <<codes, past, people, proofs, ending, presses>>

\* The instance dies, or an await throws, between two statements.
Dies(r) ==
    /\ req[r] # Idle
    /\ Answer(r)
    /\ UNCHANGED <<codes, past, people, sessions, cred, proofs, ending, stale, presses>>

-----------------------------------------------------------------------------
(* Everything else that gives or takes a session. Pressed counts what nothing    *)
(* but MaxPresses bounds.                                                       *)

Pressed == presses < MaxPresses /\ presses' = presses + 1

\* A first contribution without a credential that resolves: a guest.
Contribute(d) ==
    /\ Resolve(cred[d]) = None
    /\ \E a \in Actors \ made, s \in Sessions :
        /\ owner[s] = None
        /\ made' = Insert(a)
        /\ owner' = [owner EXCEPT ![s] = a] /\ live' = live \cup {s}
        /\ cred' = [cred EXCEPT ![d] = [actor |-> a, session |-> s]]
    /\ UNCHANGED <<accounts, account, into, suspended>>
    /\ UNCHANGED <<codes, past, proofs, ending, req, stale, presses>>

\* A credential from before there were sessions is traded for one with a session.
Regularise(d) ==
    /\ Pressed
    /\ cred[d].session = None /\ Resolve(cred[d]) # None
    /\ d \in Browsers => SignedIn(d)
    /\ LET a == Resolve(cred[d]) IN
        \E s \in Sessions :
        /\ owner[s] = None
        /\ owner' = [owner EXCEPT ![s] = a] /\ live' = live \cup {s}
        /\ cred' = [cred EXCEPT ![d] = [actor |-> a, session |-> s]]
        /\ stale' = (stale \/ Merged(a))
    /\ UNCHANGED <<codes, past, people, proofs, ending, req>>

SignOut(d) ==
    /\ Pressed
    /\ cred[d] # NoCred
    /\ live' = IF Resolve(cred[d]) # None THEN live \ {cred[d].session} ELSE live
    /\ cred' = [cred EXCEPT ![d] = NoCred]
    /\ UNCHANGED <<codes, past, people, owner, proofs, ending, req, stale>>

RevokeOthers(d) ==
    /\ Pressed
    /\ SignedIn(d) /\ cred[d].session # None
    /\ live' = live \ (SessionsOf(Resolve(cred[d])) \ {cred[d].session})
    /\ UNCHANGED <<codes, past, people, owner, cred, proofs, ending, req, stale>>

\* A row of the Devices screen: some of the person's other sessions, by id.
ReadDevice(d) ==
    /\ Pressed
    /\ SignedIn(d) /\ ending = {}
    /\ ending' \in SUBSET (SessionsOf(Resolve(cred[d])) \ {cred[d].session})
    /\ ending' # {}
    /\ UNCHANGED <<codes, past, people, sessions, cred, proofs, req, stale>>

EndDevice ==
    /\ ending # {}
    /\ live' = live \ ending /\ ending' = {}
    /\ UNCHANGED <<codes, past, people, owner, cred, proofs, req, stale, presses>>

\* Ninety days unused or a year in all, for somebody with an account.
SessionExpires(s) ==
    /\ Pressed
    /\ s \in live /\ account[owner[s]] # None
    /\ live' = live \ {s}
    /\ UNCHANGED <<codes, past, people, owner, cred, proofs, ending, req, stale>>

\* suspend refuses a merged actor, and then inserts. That is the step: whoever
\* was made was not merged at first, when the transaction may have read them, and
\* a merge may have committed since.
Suspend(a) ==
    /\ Pressed
    /\ a \in made \ suspended
    /\ suspended' = suspended \cup {a}
    /\ stale' = (stale \/ Merged(a))
    /\ UNCHANGED <<accounts, made, account, into>>
    /\ UNCHANGED <<codes, past, sessions, cred, proofs, ending, req>>

LiftSuspension(a) ==
    /\ a \in suspended
    /\ suspended' = suspended \ {a}
    /\ UNCHANGED <<accounts, made, account, into>>
    /\ UNCHANGED <<codes, past, sessions, cred, proofs, ending, req, stale, presses>>

\* Every actor of the account is a guest again and signed out everywhere.
DeleteAccount(d) ==
    /\ Pressed
    /\ SignedIn(d)
    /\ LET e == account[Resolve(cred[d])] IN
        /\ accounts' = accounts \ {e}
        /\ account' = [a \in Actors |-> IF account[a] = e THEN None ELSE account[a]]
        /\ live' = {s \in live : account[owner[s]] # e}
    /\ UNCHANGED <<made, into, suspended, owner>>
    /\ UNCHANGED <<codes, past, cred, proofs, ending, req, stale>>

-----------------------------------------------------------------------------
Code ==
    (\E e \in Emails : AskCode(e)) \/ \E c \in Codes : StoreCode(c)
Prove(r) ==
    \/ \E d \in Devices, e \in Emails :
        (\E c \in Codes : Present(r, d, e, c)) \/ PresentProof(r, d, e)
    \/ Claim(r) \/ ClaimRefused(r) \/ Spend(r) \/ SpendLost(r) \/ Retire(r)
Bind(r) ==
    \/ AccountExists(r) \/ EnsureActor(r) \/ FindAccount(r) \/ CreateAccount(r)
    \/ FindCanonical(r) \/ Link(r) \/ MergeActor(r)
Establish(r) ==
    \/ CheckSuspended(r) \/ PresentSession(r) \/ AdoptSession(r) \/ AdoptRefused(r)
    \/ StartSession(r)
Device(d) ==
    \/ Contribute(d) \/ Regularise(d) \/ SignOut(d) \/ RevokeOthers(d) \/ ReadDevice(d)
    \/ DeleteAccount(d)

Next ==
    \/ Code \/ EndDevice
    \/ \E r \in Reqs : Prove(r) \/ Bind(r) \/ Establish(r) \/ Dies(r)
    \/ \E d \in Devices : Device(d)
    \/ \E a \in Actors : Suspend(a) \/ LiftSuspension(a)
    \/ \E s \in Sessions : SessionExpires(s)

Spec == Init /\ [][Next]_vars

-----------------------------------------------------------------------------
(* What must hold.                                                              *)

\* A code is compared with at most MAX_CODE_ATTEMPTS guesses and signs in once,
\* however many requests carry it at the same moment.
CodeBudget == \A c \in Codes : compared[c] <= MAX_CODE_ATTEMPTS /\ signed[c] <= 1

\* A sign-in settles its address: no code that was stored when it was proved, not
\* even one of two askings that raced, or one a request has read and claimed
\* already, signs anybody in afterwards.
SettledIsDead == [][\A c \in settled : signed'[c] = signed[c]]_vars

\* A sign-in that is answered leaves its device with a live session of the actor
\* it was bound to, although that device may be signed out from elsewhere
\* between any two of its steps.
SignInWorks ==
    [][\A r \in Reqs :
        (req[r].at \in {"adopt", "mint"} /\ req'[r] = Idle /\ cred' # cred) =>
            /\ cred'[req[r].dev].session \in live'
            /\ owner'[cred'[req[r].dev].session] = req[r].actor]_vars

\* A merge leaves nothing behind: no live session names a merged actor, no
\* suspension is left on one, and a pointer leads to its survivor in one hop;
\* unless something was written with an actor that was merged after it was read.
NothingLeftBehind ==
    ~stale =>
        /\ \A s \in live : ~Merged(owner[s])
        /\ \A a \in suspended : ~Merged(a)
        /\ \A a \in Actors : Merged(a) => ~Merged(into[a])
=============================================================================

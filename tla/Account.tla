------------------------------ MODULE Account ------------------------------
(***************************************************************************)
(* An account lives twice: in the authentication service (email and        *)
(* password, what signing in checks) and as a record under users/ in the   *)
(* database (what the profile screen shows).  The sign-up screen creates   *)
(* the first and, in the callback, the second; the Update button of the    *)
(* profile screen asks the service for the changes and writes the record   *)
(* at once, without waiting for the answers.  The record goes through      *)
(* WriteQueue; the service and its answers are external.                   *)
(*                                                                         *)
(* Abstractions.  One device.  The names and the phone number of a record  *)
(* are left out.  A password field is a password and whether blanks        *)
(* surround it.  FIRUser runs its updates one after the other; the answer  *)
(* to an update comes in the step that grants it, and an answer that is    *)
(* lost is a step of its own.  Signing in is the step that completes it.   *)
(* The security rules are taken to let a signed-in user write any record,  *)
(* so a put that is sent again under another account is granted.           *)
(***************************************************************************)
EXTENDS Integers, Sequences, FiniteSets

CONSTANTS
    Users,       \* uids: what the service calls the accounts
    Emails, Passwords,
    Nothing,     \* no account, no record, no current user, no change
    MaxCalls,    \* bound on the sign-ups under way
    MaxSessions, \* bound on the sign-ins
    MaxPuts, MaxDisruptions  \* bounds, see WriteQueue

Texts == [pw : Passwords, padded : BOOLEAN]
AccountOf == [email : Emails, pw : Texts]
Profiles == [email : Emails, pw : Passwords]

ASSUME AccountAssumption ==
    /\ Nothing \notin Users \cup Emails \cup Texts \cup AccountOf \cup Profiles
    /\ MaxCalls \in Nat /\ MaxSessions \in Nat
    /\ MaxPuts \in Nat /\ MaxDisruptions \in Nat

VARIABLES store, outstandingPuts, wire, responses, connected, signedIn,
          putCounter, disruptions, lastPut, writers, refused, died, processed
VARIABLES
    accounts,  \* the service: email and password of each account
    user,      \* Auth.currentUser, kept over a restart
    mail,      \* its cached email
    session,   \* which FIRUser object it is
    updates,   \* calls of updateEmail and updatePassword without an answer
    creates,   \* calls of createUser whose callback has not run
    \* history, read by properties only
    unfinished,  \* accounts whose sign-up has not written their record
    astray,      \* accounts whose last update failed or raced another
    adrift       \* this session may have missed a change of the email

phone == "phone"

Q == INSTANCE WriteQueue WITH
        Devices <- {phone}, Paths <- Users, Values <- Profiles, None <- Nothing,
        Public <- {}, Batches <- Seq([path : Users, val : Profiles])

queueVars == <<store, outstandingPuts, wire, responses, connected, signedIn, putCounter,
              disruptions, lastPut, writers, refused, died, processed>>
userVars == <<user, mail, session, adrift>>
serviceVars == <<accounts, updates, creates, unfinished, astray>>
vars == <<queueVars, userVars, serviceVars>>

Change == [session : Nat, uid : Users, email : Emails \cup {Nothing}, pw : Texts \cup {Nothing}]
Create == [phase : {"sent", "made", "current"}, uid : Users \cup {Nothing},
           email : Emails, pw : Passwords]

TypeOK ==
    /\ Q!TypeOK
    /\ accounts \in [Users -> AccountOf \cup {Nothing}]
    /\ user \in Users \cup {Nothing} /\ mail \in Emails \cup {Nothing}
    /\ session \in Nat /\ adrift \in BOOLEAN
    /\ updates \in Seq(Change) /\ creates \subseteq Create
    /\ unfinished \subseteq Users /\ astray \subseteq Users

Typed(pw) == [pw |-> pw, padded |-> FALSE]

\* One account, signed in, whose record agrees with it.
Init ==
    /\ Q!Init
    /\ \E u \in Users, e \in Emails, pw \in Passwords :
        /\ accounts = [v \in Users |->
                         IF v = u THEN [email |-> e, pw |-> Typed(pw)] ELSE Nothing]
        /\ store = [v \in Users |-> IF v = u THEN [email |-> e, pw |-> pw] ELSE Nothing]
        /\ user = u /\ mail = e
    /\ session = 0 /\ adrift = FALSE
    /\ updates = <<>> /\ creates = {}
    /\ unfinished = {} /\ astray = {}

ChangesOf(u) == {i \in DOMAIN updates : updates[i].uid = u}

\* A bound: the callback of every account made will need a put.
PutsLeft == putCounter[phone] + Cardinality({c \in creates : c.uid # Nothing}) <= MaxPuts

\* The service accepts an email that no other account has.
Free(e, u) == \A v \in Users \ {u} : accounts[v] # Nothing => accounts[v].email # e

-----------------------------------------------------------------------------
(* The sign-up screen. *)

signUpButton(e, pw) ==
    /\ Cardinality(creates) < MaxCalls
    /\ creates' = creates \cup {[phase |-> "sent", uid |-> Nothing, email |-> e, pw |-> pw]}
    /\ UNCHANGED <<queueVars, userVars, accounts, updates, unfinished, astray>>

\* The service makes the account, or the call ends in an error alert.
createUser(c) ==
    /\ c.phase = "sent"
    /\ \/ /\ PutsLeft /\ Free(c.email, Nothing)
          /\ \E u \in Users :
                /\ accounts[u] = Nothing
                /\ accounts' = [accounts EXCEPT ![u] = [email |-> c.email, pw |-> Typed(c.pw)]]
                /\ creates' = (creates \ {c}) \cup {[c EXCEPT !.phase = "made", !.uid = u]}
                /\ unfinished' = unfinished \cup {u}
       \/ /\ creates' = creates \ {c}
          /\ UNCHANGED <<accounts, unfinished>>
    /\ UNCHANGED <<queueVars, userVars, updates, astray>>

\* The answer is lost: an error alert, but the account exists.
LoseAnswer(c) ==
    /\ c.phase = "made"
    /\ creates' = creates \ {c}
    /\ UNCHANGED <<queueVars, userVars, accounts, updates, unfinished, astray>>

\* updateCurrentUser: u becomes the current user as a new FIRUser object, and
\* the database connection gets its token.
Become(u) ==
    /\ user' = u
    /\ mail' = accounts[u].email
    /\ session' = session + 1
    /\ adrift' = (ChangesOf(u) # {})
    /\ IF signedIn[phone] THEN UNCHANGED queueVars ELSE Q!SignIn(phone)

Complete(c) ==
    /\ c.phase = "made"
    /\ Become(c.uid)
    /\ creates' = (creates \ {c}) \cup {[c EXCEPT !.phase = "current"]}
    /\ UNCHANGED <<accounts, updates, unfinished, astray>>

\* The record both screens write: the fields without blanks.
Trimmed(e, text) == [email |-> e, pw |-> text.pw]

setValue(u, e, text) == Q!Issue(phone, <<[path |-> u, val |-> Trimmed(e, text)]>>)

\* The callback of createUser, on the main queue.
Callback(c) ==
    /\ c.phase = "current"
    /\ setValue(c.uid, c.email, Typed(c.pw))
    /\ creates' = creates \ {c}
    /\ unfinished' = unfinished \ {c.uid}
    /\ UNCHANGED <<userVars, accounts, updates, astray>>

-----------------------------------------------------------------------------
(* The sign-in screen, the menu, the profile screen. *)

\* signIn with the fields without blanks: a password that has them never fits.
signinButton(u) ==
    /\ session < MaxSessions
    /\ accounts[u] # Nothing /\ ~accounts[u].pw.padded
    /\ Become(u)
    /\ UNCHANGED serviceVars

SignOut ==
    /\ Q!SignOut(phone)
    /\ user' = Nothing /\ mail' = Nothing
    /\ UNCHANGED <<session, adrift, serviceVars>>

\* The email is asked for only if it differs from the cached one; the mutant
\* has the comparison the wrong way round.
EmailChangeInverted(e) ==
    IF mail = e
    THEN <<[session |-> session, uid |-> user, email |-> e, pw |-> Nothing]>>
    ELSE <<>>
EmailChange(e) ==
    IF mail # e
    THEN <<[session |-> session, uid |-> user, email |-> e, pw |-> Nothing]>>
    ELSE <<>>

\* The cached email is the account's, and nothing else that changes the
\* account or its record is under way, save passwords queued before this one.
Alone ==
    /\ ~adrift
    /\ \A i \in ChangesOf(user) : updates[i].email = Nothing
    /\ \A c \in creates : c.uid # user

updateButton(e, text) ==
    /\ user # Nothing /\ PutsLeft
    /\ updates' = updates \o EmailChange(e)
                    \o <<[session |-> session, uid |-> user, email |-> Nothing, pw |-> text]>>
    /\ setValue(user, e, text)
    /\ astray' = IF Alone THEN astray \ {user} ELSE astray \cup {user}
    /\ unfinished' = IF Alone THEN unfinished \ {user} ELSE unfinished
    /\ UNCHANGED <<userVars, accounts, creates>>

Current(c) == user = c.uid /\ session = c.session

\* The cached email after a granted change; the mutant leaves it as it was.
MailKept(c) == mail
MailAfter(c) == IF c.email = Nothing THEN accounts[c.uid].email ELSE c.email

Applied(c) ==
    [accounts EXCEPT ![c.uid] =
        [email |-> IF c.email = Nothing THEN @.email ELSE c.email,
         pw |-> IF c.pw = Nothing THEN @.pw ELSE c.pw]]

Grant(c) ==
    /\ Free(MailAfter(c), c.uid)
    /\ accounts' = Applied(c)
    /\ mail' = IF Current(c) THEN MailAfter(c) ELSE mail
    /\ UNCHANGED <<adrift, astray>>

Refuse(c) ==
    /\ mail' = IF Current(c) THEN accounts[c.uid].email ELSE mail
    /\ astray' = astray \cup {c.uid}
    /\ UNCHANGED <<accounts, adrift>>

\* No answer arrives; the account may have changed all the same, and the cache
\* may have been refreshed before that.
Lose(c) ==
    /\ accounts' \in {accounts} \cup (IF Free(MailAfter(c), c.uid) THEN {Applied(c)} ELSE {})
    /\ mail' \in {mail, IF Current(c) THEN accounts[c.uid].email ELSE mail}
    /\ astray' = astray \cup {c.uid}
    /\ adrift' = (adrift \/ Current(c))

\* The oldest update of each FIRUser object; the mutant has no task queue.
Unqueued == DOMAIN updates
Oldest == {i \in DOMAIN updates : \A j \in 1..(i - 1) : updates[j].session # updates[i].session}

executeUserUpdate ==
    \E i \in Oldest :
        /\ updates' = SubSeq(updates, 1, i - 1) \o SubSeq(updates, i + 1, Len(updates))
        /\ Grant(updates[i]) \/ Refuse(updates[i]) \/ Lose(updates[i])
        /\ UNCHANGED <<queueVars, user, session, creates, unfinished>>

\* The calls die with the process; the current user is kept in the keychain.
Kill ==
    /\ Q!Kill(phone)
    /\ updates' = <<>> /\ creates' = {}
    /\ astray' = astray \cup {updates[i].uid : i \in DOMAIN updates}
    /\ UNCHANGED <<userVars, accounts, unfinished>>

Background == Q!Background /\ UNCHANGED <<userVars, serviceVars>>

CreateSteps == \E c \in creates : createUser(c) \/ Complete(c) \/ Callback(c)

Next ==
    \/ CreateSteps \/ executeUserUpdate \/ SignOut \/ Kill \/ Background
    \/ \E c \in creates : LoseAnswer(c)
    \/ \E u \in Users : signinButton(u)
    \/ \E e \in Emails, pw \in Passwords : signUpButton(e, pw)
    \/ \E e \in Emails, text \in Texts : updateButton(e, text)

Fairness == WF_vars(CreateSteps) /\ WF_vars(executeUserUpdate)
            /\ WF_vars(Q!Connect(phone) /\ UNCHANGED <<userVars, serviceVars>>)
            /\ WF_vars(Q!Answer(phone) /\ UNCHANGED <<userVars, serviceVars>>)
            /\ WF_vars(Q!Process(phone) /\ UNCHANGED <<userVars, serviceVars>>)

Spec == Init /\ [][Next]_vars
FairSpec == Spec /\ Fairness

-----------------------------------------------------------------------------
(* Properties. *)

Matches(u) ==
    store[u] # Nothing
        /\ store[u].email = accounts[u].email /\ store[u].pw = accounts[u].pw.pw

Excused(u) == accounts[u] = Nothing \/ u \in unfinished \cup astray \cup Q!spoiled

\* When nothing is under way for an account, its record holds the email and,
\* blanks aside, the password that the service checks, so what the profile
\* screen shows is what signs in.  Said of an account unless the put of a
\* record was refused or died, its sign-up never got to the record, or its
\* last update failed or met another one under way; a later Update that meets
\* none makes good for a failed update and for an unfinished sign-up.
ProfileMatchesAccount ==
    \A u \in Users :
        ChangesOf(u) = {} /\ ~Q!Pending(phone, u) /\ ~Excused(u) => Matches(u)

\* The cached email that decides whether an email change is asked for
\* (UserViewController.swift:84) is the account's at every tap that has no
\* change under way, in a session that lost no answer and did not begin
\* amid changes of an older session.
MailFresh ==
    user # Nothing /\ ~adrift
        /\ (\A i \in ChangesOf(user) : updates[i].email = Nothing)
            => mail = accounts[user].email

\* Record and account come to agree again after every sign-up and update.
ProfileArrives == \A u \in Users : []<>(Excused(u) \/ Matches(u))
=============================================================================

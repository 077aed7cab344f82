----------------------------- MODULE AccountProofs -----------------------------
(* Theorems about Account, for any users, emails, passwords and bounds.     *)
EXTENDS Account, SequenceTheorems, TLAPS

\* The theorems about the write pipeline, for the records of the accounts.
QP == INSTANCE WriteQueueProofs WITH
        Devices <- {phone}, Paths <- Users, Values <- Profiles, None <- Nothing,
        Public <- {}, Batches <- Seq([path : Users, val : Profiles])

\* The types of the account, apart from those of the pipeline.
ServiceTypes ==
    /\ accounts \in [Users -> AccountOf \cup {Nothing}]
    /\ user \in Users \cup {Nothing} /\ mail \in Emails \cup {Nothing}
    /\ session \in Nat /\ adrift \in BOOLEAN
    /\ updates \in Seq(Change) /\ creates \subseteq Create

\* The current user, the updates and the sign-ups are about accounts that are.
Known ==
    /\ user # Nothing => accounts[user] # Nothing
    /\ \A i \in 1..Len(updates) : accounts[updates[i].uid] # Nothing
    /\ \A c \in creates : c.phase # "sent" => c.uid \in Users /\ accounts[c.uid] # Nothing

\* The updates were asked for in this session or in an earlier one.  Unless
\* the session may have missed a change, all that are under way for its
\* account are its own, and the cached email is the account's.
Own ==
    /\ \A i \in 1..Len(updates) : updates[i].session <= session
    /\ user # Nothing /\ ~adrift =>
        /\ \A i \in 1..Len(updates) : updates[i].uid = user => updates[i].session = session
        /\ mail = accounts[user].email

IInv == ServiceTypes /\ Known /\ Own

-----------------------------------------------------------------------------
(* Sequences. *)

\* A sequence without its i-th element holds the other ones, in their order.
Without(s, i) == SubSeq(s, 1, i - 1) \o SubSeq(s, i + 1, Len(s))
Old(i, k) == IF k < i THEN k ELSE k + 1
LEMMA RemovedFacts ==
    ASSUME NEW S, NEW s \in Seq(S), NEW i \in 1..Len(s)
    PROVE  /\ Without(s, i) \in Seq(S) /\ Len(Without(s, i)) = Len(s) - 1
           /\ \A k \in 1..(Len(s) - 1) : Old(i, k) \in 1..Len(s) /\ Without(s, i)[k] = s[Old(i, k)]
<1> DEFINE a == SubSeq(s, 1, i - 1)
           b == SubSeq(s, i + 1, Len(s))
<1>1. Len(s) \in Nat /\ i \in Nat /\ \A j \in 1..Len(s) : s[j] \in S
  OBVIOUS
<1>2. /\ a \in Seq(S) /\ Len(a) = i - 1
      /\ \A k \in 1..(i - 1) : a[k] = s[k]
  BY <1>1
<1>3. /\ b \in Seq(S) /\ Len(b) = Len(s) - i
      /\ \A k \in 1..(Len(s) - i) : b[k] = s[i + k]
  BY <1>1
<1> HIDE DEF a, b
<1>4. /\ a \o b \in Seq(S) /\ Len(a \o b) = Len(s) - 1
      /\ \A k \in 1..Len(a \o b) : (a \o b)[k] = IF k <= Len(a) THEN a[k] ELSE b[k - Len(a)]
  <2>1. /\ a \o b \in Seq(S) /\ Len(a \o b) = Len(a) + Len(b)
        /\ \A k \in 1..Len(a) + Len(b) : (a \o b)[k] = IF k <= Len(a) THEN a[k] ELSE b[k - Len(a)]
    BY <1>2, <1>3, ConcatProperties
  <2>2. QED
    BY <1>1, <1>2, <1>3, <2>1
<1>5. ASSUME NEW k \in 1..Len(a \o b)
      PROVE  Old(i, k) \in 1..Len(s) /\ (a \o b)[k] = s[Old(i, k)]
  <2>1. CASE k < i
    BY <1>1, <1>2, <1>4, <2>1 DEF Old
  <2>2. CASE ~(k < i)
    <3>1. k - (i - 1) \in 1..(Len(s) - i) /\ i + (k - (i - 1)) = k + 1 /\ k + 1 \in 1..Len(s)
      BY <1>1, <1>4, <2>2
    <3>2. (a \o b)[k] = b[k - (i - 1)]
      BY <1>1, <1>2, <1>4, <2>2
    <3>4. b[k - (i - 1)] = s[i + (k - (i - 1))]
      BY <1>3, <3>1
    <3>3. QED
      BY <2>2, <3>1, <3>2, <3>4 DEF Old
  <2>3. QED
    BY <1>1, <2>1, <2>2
<1>6. QED
  BY <1>4, <1>5 DEF a, b, Without

\* What an Update asks for: the email if it is another one, then the password.
MailAsked(e) == [session |-> session, uid |-> user, email |-> e, pw |-> Nothing]
PasswordAsked(text) == [session |-> session, uid |-> user, email |-> Nothing, pw |-> text]
Asked(e, text) == updates \o EmailChange(e) \o <<PasswordAsked(text)>>

LEMMA AskedTypes ==
    ASSUME ServiceTypes, NEW e \in Emails, NEW text \in Texts, user # Nothing
    PROVE  MailAsked(e) \in Change /\ PasswordAsked(text) \in Change
BY DEF ServiceTypes, Change, MailAsked, PasswordAsked

Shape(e, text, asked, n) ==
    /\ asked \in Seq(Change) /\ n \in Nat
    /\ \A k \in 1..n : k \in 1..Len(asked) /\ asked[k] = updates[k]
    /\ asked[Len(asked)] = PasswordAsked(text)
    /\ IF mail = e
       THEN Len(asked) = n + 1
       ELSE Len(asked) = n + 2 /\ asked[n + 1] = MailAsked(e)

LEMMA AskedShape ==
    ASSUME ServiceTypes, NEW e \in Emails, NEW text \in Texts, user # Nothing
    PROVE  Shape(e, text, Asked(e, text), Len(updates))
<1> SUFFICES ASSUME NEW asked, asked = Asked(e, text), NEW n, n = Len(updates)
             PROVE  /\ asked \in Seq(Change) /\ n \in Nat
                    /\ \A k \in 1..n : k \in 1..Len(asked) /\ asked[k] = updates[k]
                    /\ asked[Len(asked)] = PasswordAsked(text)
                    /\ IF mail = e
                       THEN Len(asked) = n + 1
                       ELSE Len(asked) = n + 2 /\ asked[n + 1] = MailAsked(e)
  BY DEF Shape
<1> DEFINE c == MailAsked(e)
           w == PasswordAsked(text)
<1>1. c \in Change /\ w \in Change
  BY AskedTypes
<1>2. updates \in Seq(Change)
  BY DEF ServiceTypes
<1>3. EmailChange(e) = IF mail # e THEN <<c>> ELSE <<>>
  BY DEF EmailChange, MailAsked
<1>4. asked = updates \o EmailChange(e) \o <<w>>
  BY DEF Asked
<1> HIDE DEF c, w
<1>5. ASSUME NEW s \in Seq(Change)
      PROVE  /\ s \o <<w>> \in Seq(Change) /\ Len(s \o <<w>>) = Len(s) + 1
             /\ \A k \in 1..Len(s) : (s \o <<w>>)[k] = s[k]
             /\ (s \o <<w>>)[Len(s) + 1] = w
  BY <1>1
<1>6. CASE mail # e
  <2>1. /\ updates \o <<c>> \in Seq(Change) /\ Len(updates \o <<c>>) = Len(updates) + 1
        /\ \A k \in 1..Len(updates) : (updates \o <<c>>)[k] = updates[k]
        /\ (updates \o <<c>>)[Len(updates) + 1] = c
    BY <1>1, <1>2
  <2>2. PICK s \in Seq(Change) : s = updates \o <<c>>
    BY <2>1
  <2>3. asked = s \o <<w>>
    BY <1>3, <1>4, <1>6, <2>2
  <2>4. QED
    BY <1>2, <1>5, <1>6, <2>1, <2>2, <2>3 DEF c, w
<1>7. CASE mail = e
  <2>1. asked = updates \o <<w>>
    BY <1>2, <1>3, <1>4, <1>7
  <2>2. QED
    BY <1>2, <1>5, <1>7, <2>1 DEF w
<1>8. QED
  BY <1>6, <1>7

-----------------------------------------------------------------------------
(* The invariant. *)

LEMMA AccountInit == Init => IInv
<1> SUFFICES ASSUME Init PROVE IInv
  OBVIOUS
<1>1. PICK u \in Users, e \in Emails, pw \in Passwords :
        /\ accounts = [v \in Users |-> IF v = u THEN [email |-> e, pw |-> Typed(pw)] ELSE Nothing]
        /\ user = u /\ mail = e
  BY DEF Init
<1>2. [email |-> e, pw |-> Typed(pw)] \in AccountOf
  BY DEF AccountOf, Texts, Typed
<1>3. updates = <<>> /\ creates = {} /\ session = 0 /\ adrift = FALSE
  BY DEF Init
<1>4. ServiceTypes
  <2>1. accounts \in [Users -> AccountOf \cup {Nothing}]
    BY <1>1, <1>2
  <2>2. <<>> \in Seq(Change)
    OBVIOUS
  <2>3. QED
    BY <1>1, <1>3, <2>1, <2>2 DEF ServiceTypes
<1>5. accounts[user].email = mail /\ user \in Users
  BY <1>1
<1>6. QED
  BY <1>1, <1>2, <1>3, <1>4, <1>5, AccountAssumption DEF IInv, Known, Own

\* Steps of the pipeline, of the owner's sign-out and of the death of the
\* process leave accounts alone, and forget calls at most.
LEMMA ForgetStep ==
    ASSUME IInv, ServiceTypes', UNCHANGED <<accounts, session>>,
           updates' = updates \/ updates' = <<>>, creates' \subseteq creates,
           user' = Nothing \/ UNCHANGED <<user, mail, adrift>>
    PROVE  IInv'
<1>1. \A i \in 1..Len(updates') : i \in 1..Len(updates) /\ updates'[i] = updates[i]
  OBVIOUS
<1>2. Known'
  BY <1>1 DEF IInv, Known
<1>3. Own'
  BY <1>1 DEF IInv, Own
<1>4. QED
  BY <1>2, <1>3 DEF IInv

\* Somebody becomes the current user, as a new FIRUser object.
LEMMA BecomeStep ==
    ASSUME IInv, NEW u \in Users, accounts[u] # Nothing, Become(u),
           UNCHANGED <<accounts, updates>>, creates' \subseteq Create,
           \A c \in creates' : c.phase # "sent" => c.uid \in Users /\ accounts[c.uid] # Nothing
    PROVE  IInv'
<1>1. /\ user' = u /\ mail' = accounts[u].email /\ session' = session + 1
      /\ adrift' = (ChangesOf(u) # {})
  BY DEF Become
<1>2. ServiceTypes'
  <2>1. accounts[u] \in AccountOf
    BY DEF IInv, ServiceTypes
  <2>2. accounts[u].email \in Emails
    BY <2>1 DEF AccountOf
  <2>3. adrift' \in BOOLEAN
    BY <1>1
  <2>4. QED
    BY <1>1, <2>2, <2>3 DEF IInv, ServiceTypes
<1>3. Known'
  BY <1>1 DEF IInv, Known
<1>4. Own'
  <2>1. \A i \in 1..Len(updates) : updates[i].session \in Nat
    <3>1. \A i \in 1..Len(updates) : updates[i] \in Change
      BY DEF IInv, ServiceTypes
    <3>2. QED
      BY <3>1 DEF Change
  <2>2. \A i \in 1..Len(updates) : updates[i].session <= session + 1
    BY <2>1 DEF IInv, Own, ServiceTypes
  <2>3. ~adrift' => \A i \in 1..Len(updates) : updates[i].uid # u
    <3>1. DOMAIN updates = 1..Len(updates)
      BY DEF IInv, ServiceTypes
    <3>2. QED
      BY <1>1, <3>1 DEF ChangesOf
  <2>4. QED
    BY <1>1, <2>2, <2>3 DEF Own
<1>5. QED
  BY <1>2, <1>3, <1>4 DEF IInv

LEMMA CreateStep ==
    ASSUME IInv, NEW c \in creates, createUser(c)
    PROVE  IInv'
<1>1. /\ c \in Create /\ c.phase = "sent" /\ UNCHANGED <<user, mail, session, adrift, updates>>
  BY DEF IInv, ServiceTypes, createUser, userVars
<1>2. CASE creates' = creates \ {c} /\ UNCHANGED accounts
  <2>1. ServiceTypes'
    BY <1>1, <1>2 DEF IInv, ServiceTypes
  <2>2. QED
    BY <1>1, <1>2, <2>1, ForgetStep
<1>3. CASE \E u \in Users :
              /\ accounts[u] = Nothing
              /\ accounts' = [accounts EXCEPT ![u] = [email |-> c.email, pw |-> Typed(c.pw)]]
              /\ creates' = (creates \ {c}) \cup {[c EXCEPT !.phase = "made", !.uid = u]}
  <2>1. PICK u \in Users :
              /\ accounts[u] = Nothing
              /\ accounts' = [accounts EXCEPT ![u] = [email |-> c.email, pw |-> Typed(c.pw)]]
              /\ creates' = (creates \ {c}) \cup {[c EXCEPT !.phase = "made", !.uid = u]}
    BY <1>3
  <2>2. [email |-> c.email, pw |-> Typed(c.pw)] \in AccountOf
    BY <1>1 DEF Create, AccountOf, Texts, Typed
  <2>3. accounts \in [Users -> AccountOf \cup {Nothing}]
    BY DEF IInv, ServiceTypes
  <2>4. /\ accounts' \in [Users -> AccountOf \cup {Nothing}] /\ accounts'[u] # Nothing
        /\ \A v \in Users : accounts[v] # Nothing => accounts'[v] = accounts[v]
    BY <2>1, <2>2, <2>3, AccountAssumption
  <2>5. [c EXCEPT !.phase = "made", !.uid = u] \in Create /\ [c EXCEPT !.phase = "made", !.uid = u].uid = u
    BY <1>1 DEF Create
  <2>6. ServiceTypes'
    BY <1>1, <2>1, <2>4, <2>5 DEF IInv, ServiceTypes
  <2>7. \A i \in 1..Len(updates) : updates[i].uid \in Users
    <3>1. \A i \in 1..Len(updates) : updates[i] \in Change
      BY DEF IInv, ServiceTypes
    <3>2. QED
      BY <3>1 DEF Change
  <2>8. Known'
    BY <1>1, <2>1, <2>4, <2>5, <2>7, ZenonT(30) DEF IInv, ServiceTypes, Known
  <2>9. Own'
    BY <1>1, <2>4 DEF IInv, ServiceTypes, Known, Own
  <2>10. QED
    BY <2>6, <2>8, <2>9 DEF IInv
<1>4. QED
  BY <1>2, <1>3 DEF createUser

\* An Update asks the service, in the current session, for its own account.
LEMMA UpdateStep ==
    ASSUME IInv, NEW e \in Emails, NEW text \in Texts, updateButton(e, text)
    PROVE  IInv'
<1>1. /\ user # Nothing /\ UNCHANGED <<user, mail, session, adrift, accounts, creates>>
      /\ updates' = Asked(e, text)
  BY DEF updateButton, userVars, Asked, PasswordAsked
<1>2. /\ updates' \in Seq(Change)
      /\ \A k \in 1..Len(updates') :
            \/ updates'[k].session = session /\ updates'[k].uid = user
            \/ \E j \in 1..Len(updates) : updates'[k] = updates[j]
  <2>1. PICK asked, n : asked = Asked(e, text) /\ n = Len(updates)
    OBVIOUS
  <2>2. ServiceTypes
    BY DEF IInv
  <2>3. /\ asked \in Seq(Change) /\ n \in Nat /\ \A k \in 1..n : asked[k] = updates[k]
        /\ asked[Len(asked)] = PasswordAsked(text)
        /\ \A k \in 1..Len(asked) : k \in 1..n \/ k = Len(asked) \/ asked[k] = MailAsked(e)
    <3>1. /\ asked \in Seq(Change) /\ n \in Nat
          /\ \A k \in 1..n : asked[k] = updates[k]
          /\ asked[Len(asked)] = PasswordAsked(text)
          /\ IF mail = e
             THEN Len(asked) = n + 1
             ELSE Len(asked) = n + 2 /\ asked[n + 1] = MailAsked(e)
      <4>1. user # Nothing
        BY <1>1
      <4>2. Shape(e, text, Asked(e, text), Len(updates))
        BY <2>2, <4>1, AskedShape
      <4>3. QED
        BY <2>1, <4>2 DEF Shape
    <3>2. \A k \in 1..(n + 2) : k \in 1..n \/ k = n + 1 \/ k = n + 2
      BY <3>1
    <3>3. QED
      BY <3>1, <3>2
  <2>4. /\ PasswordAsked(text).session = session /\ PasswordAsked(text).uid = user
        /\ MailAsked(e).session = session /\ MailAsked(e).uid = user
    BY DEF PasswordAsked, MailAsked
  <2>5. QED
    BY <1>1, <2>1, <2>3, <2>4
<1>3. ServiceTypes'
  BY <1>1, <1>2 DEF IInv, ServiceTypes
<1>4. Known'
  BY <1>1, <1>2 DEF IInv, Known
<1>5. Own'
  <2>1. session \in Nat /\ session <= session
    BY DEF IInv, ServiceTypes
  <2>2. QED
    BY <1>1, <1>2, <2>1 DEF IInv, Own
<1>6. QED
  BY <1>3, <1>4, <1>5 DEF IInv

\* What the service does with the update c, and what becomes of the cache.
LEMMA AppliedFacts ==
    ASSUME IInv, NEW c \in Change, accounts[c.uid] # Nothing
    PROVE  /\ Applied(c) \in [Users -> AccountOf \cup {Nothing}]
           /\ MailAfter(c) \in Emails /\ accounts[c.uid].email \in Emails
           /\ Applied(c)[c.uid].email = MailAfter(c)
           /\ \A v \in Users : v # c.uid => Applied(c)[v] = accounts[v]
           /\ \A v \in Users : accounts[v] # Nothing => Applied(c)[v] # Nothing
<1> DEFINE A == accounts[c.uid]
           B == [email |-> IF c.email = Nothing THEN A.email ELSE c.email,
                 pw |-> IF c.pw = Nothing THEN A.pw ELSE c.pw]
<1>1. /\ accounts \in [Users -> AccountOf \cup {Nothing}] /\ c.uid \in Users
      /\ c.email \in Emails \cup {Nothing} /\ c.pw \in Texts \cup {Nothing}
  BY DEF IInv, ServiceTypes, Change
<1>2. A \in AccountOf
  BY <1>1
<1>3. B \in AccountOf
  BY <1>1, <1>2 DEF AccountOf
<1>4. Applied(c) = [accounts EXCEPT ![c.uid] = B]
  BY DEF Applied
<1>5. B.email = MailAfter(c) /\ MailAfter(c) \in Emails /\ A.email \in Emails
  BY <1>1, <1>2 DEF AccountOf, MailAfter
<1> HIDE DEF A, B
<1>6. QED
  BY <1>1, <1>3, <1>4, <1>5, AccountAssumption DEF A

\* An answer to an update, or its loss.
LEMMA AnswerStep ==
    ASSUME IInv, NEW i \in 1..Len(updates),
           updates' = Without(updates, i),
           Grant(updates[i]) \/ Refuse(updates[i]) \/ Lose(updates[i]),
           UNCHANGED <<user, session, creates>>
    PROVE  IInv'
<1> DEFINE c == updates[i]
<1>1. updates \in Seq(Change) /\ c \in Change /\ c.uid \in Users /\ accounts[c.uid] # Nothing
  <2>1. updates \in Seq(Change) /\ c \in Change
    BY DEF IInv, ServiceTypes
  <2>2. c.uid \in Users
    BY <2>1 DEF Change
  <2>3. QED
    BY <2>1, <2>2 DEF IInv, Known
<1>2. /\ updates' \in Seq(Change)
      /\ \A k \in 1..Len(updates') : \E j \in 1..Len(updates) : updates'[k] = updates[j]
  <2>1. /\ updates' \in Seq(Change) /\ Len(updates') = Len(updates) - 1
        /\ \A k \in 1..(Len(updates) - 1) : Old(i, k) \in 1..Len(updates) /\ updates'[k] = updates[Old(i, k)]
    BY <1>1, RemovedFacts
  <2>2. QED
    BY <2>1
<1>3. /\ Applied(c) \in [Users -> AccountOf \cup {Nothing}]
      /\ MailAfter(c) \in Emails /\ accounts[c.uid].email \in Emails
      /\ Applied(c)[c.uid].email = MailAfter(c)
      /\ \A v \in Users : v # c.uid => Applied(c)[v] = accounts[v]
      /\ \A v \in Users : accounts[v] # Nothing => Applied(c)[v] # Nothing
  BY <1>1, AppliedFacts
<1>4. /\ user \in Users \cup {Nothing} /\ mail \in Emails \cup {Nothing} /\ adrift \in BOOLEAN
      /\ accounts \in [Users -> AccountOf \cup {Nothing}]
      /\ user # Nothing /\ ~adrift => (c.uid = user => c.session = session) /\ mail = accounts[user].email
  BY DEF IInv, ServiceTypes, Own
<1> HIDE DEF c
<1>5. /\ accounts' = accounts \/ accounts' = Applied(c)
      /\ mail' \in {mail, MailAfter(c), accounts[c.uid].email}
      /\ adrift' \in BOOLEAN
      /\ user # Nothing /\ ~adrift' => ~adrift /\ mail' = accounts'[user].email
  <2>1. CASE Grant(c)
    BY <1>1, <1>3, <1>4, <2>1 DEF Grant, Current
  <2>2. CASE Refuse(c)
    BY <1>1, <1>3, <1>4, <2>2 DEF Refuse, Current
  <2>3. CASE Lose(c)
    <3>1. /\ accounts' = accounts \/ accounts' = Applied(c)
          /\ mail' = mail \/ mail' = accounts[c.uid].email
          /\ adrift' = (adrift \/ Current(c))
          /\ ~Current(c) => mail' = mail
      BY <2>3 DEF Lose
    <3>2. adrift' \in BOOLEAN
      BY <3>1
    <3>3. ASSUME user # Nothing, ~adrift'
          PROVE  ~adrift /\ mail' = accounts'[user].email
      BY <1>1, <1>3, <1>4, <3>1, <3>3 DEF Current
    <3>4. QED
      BY <3>1, <3>2, <3>3
  <2>4. QED
    BY <2>1, <2>2, <2>3 DEF c
<1>6. ServiceTypes'
  BY <1>2, <1>3, <1>4, <1>5 DEF IInv, ServiceTypes
<1>7. \A v \in Users : accounts[v] # Nothing => accounts'[v] # Nothing
  BY <1>3, <1>5
<1>8. Known'
  <2>1. \A k \in 1..Len(updates) : updates[k].uid \in Users
    <3>1. \A k \in 1..Len(updates) : updates[k] \in Change
      BY <1>1
    <3>2. QED
      BY <3>1 DEF Change
  <2>2. user' # Nothing => accounts'[user'] # Nothing
    <3>1. user # Nothing => user \in Users /\ accounts[user] # Nothing
      BY <1>4 DEF IInv, Known
    <3>2. QED
      BY <1>7, <3>1
  <2>3. \A k \in 1..Len(updates') : accounts'[updates'[k].uid] # Nothing
    <3>1. \A k \in 1..Len(updates) : accounts[updates[k].uid] # Nothing
      BY DEF IInv, Known
    <3>2. \A k \in 1..Len(updates) : accounts'[updates[k].uid] # Nothing
      BY <1>7, <2>1, <3>1
    <3>3. QED
      BY <1>2, <3>2
  <2>4. \A d \in creates' : d.phase # "sent" => d.uid \in Users /\ accounts'[d.uid] # Nothing
    BY <1>7 DEF IInv, Known
  <2>5. QED
    BY <2>2, <2>3, <2>4 DEF Known
<1>9. Own'
  BY <1>2, <1>5, SMTT(30) DEF IInv, Own
<1>10. QED
  BY <1>6, <1>8, <1>9 DEF IInv

LEMMA AccountStep == IInv /\ [Next]_vars => IInv'
<1> SUFFICES ASSUME IInv, [Next]_vars PROVE IInv'
  OBVIOUS
<1>1. ServiceTypes /\ DOMAIN updates = 1..Len(updates) /\ <<>> \in Seq(Change)
  BY DEF IInv, ServiceTypes
<1>2. ASSUME NEW c \in creates, createUser(c) PROVE IInv'
  BY <1>2, CreateStep
<1>3. ASSUME NEW c \in creates, Complete(c) PROVE IInv'
  <2>1. c \in Create /\ c.phase = "made" /\ c.uid \in Users /\ accounts[c.uid] # Nothing
    BY <1>1, <1>3 DEF Complete, IInv, ServiceTypes, Known
  <2>2. creates' = (creates \ {c}) \cup {[c EXCEPT !.phase = "current"]}
    BY <1>3 DEF Complete
  <2>3. [c EXCEPT !.phase = "current"] \in Create /\ [c EXCEPT !.phase = "current"].uid = c.uid
    BY <2>1 DEF Create
  <2>4. /\ creates' \subseteq Create
        /\ \A b \in creates' : b.phase # "sent" => b.uid \in Users /\ accounts[b.uid] # Nothing
    BY <1>1, <2>1, <2>2, <2>3 DEF IInv, Known, ServiceTypes
  <2>5. Become(c.uid) /\ UNCHANGED <<accounts, updates>>
    BY <1>3 DEF Complete
  <2>6. QED
    BY <2>1, <2>4, <2>5, BecomeStep
<1>4. ASSUME NEW u \in Users, signinButton(u) PROVE IInv'
  <2>1. accounts[u] # Nothing /\ Become(u) /\ UNCHANGED <<accounts, updates, creates>>
    BY <1>4 DEF signinButton, serviceVars
  <2>2. /\ creates' \subseteq Create
        /\ \A b \in creates' : b.phase # "sent" => b.uid \in Users /\ accounts[b.uid] # Nothing
    BY <2>1 DEF IInv, Known, ServiceTypes
  <2>3. QED
    BY <2>1, <2>2, BecomeStep
<1>5. ASSUME NEW c \in creates, Callback(c) \/ LoseAnswer(c) PROVE IInv'
  <2>1. UNCHANGED <<user, mail, session, adrift, accounts, updates>> /\ creates' = creates \ {c}
    BY <1>5 DEF Callback, LoseAnswer, userVars
  <2>2. ServiceTypes'
    BY <1>1, <2>1 DEF ServiceTypes
  <2>3. QED
    BY <2>1, <2>2, ForgetStep
<1>6. CASE executeUserUpdate
  <2>1. PICK i \in Oldest :
          /\ updates' = Without(updates, i)
          /\ Grant(updates[i]) \/ Refuse(updates[i]) \/ Lose(updates[i])
          /\ UNCHANGED <<user, session, creates>>
    BY <1>6 DEF executeUserUpdate, Without
  <2>2. i \in 1..Len(updates)
    BY <1>1 DEF Oldest
  <2>3. QED
    BY <2>1, <2>2, AnswerStep
<1>7. CASE SignOut
  <2>1. UNCHANGED <<accounts, session, adrift, updates, creates>> /\ user' = Nothing /\ mail' = Nothing
    BY <1>7 DEF SignOut, serviceVars
  <2>2. ServiceTypes'
    BY <1>1, <2>1 DEF ServiceTypes
  <2>3. QED
    BY <2>1, <2>2, ForgetStep
<1>8. CASE Kill
  <2>1. UNCHANGED <<user, mail, session, adrift, accounts>> /\ updates' = <<>> /\ creates' = {}
    BY <1>8 DEF Kill, userVars
  <2>2. ServiceTypes'
    BY <1>1, <2>1 DEF ServiceTypes
  <2>3. QED
    BY <2>1, <2>2, ForgetStep
<1>9. CASE Background \/ UNCHANGED vars
  <2>1. UNCHANGED <<user, mail, session, adrift, accounts, updates, creates>>
    BY <1>9 DEF Background, vars, userVars, serviceVars
  <2>2. ServiceTypes'
    BY <1>1, <2>1 DEF ServiceTypes
  <2>3. QED
    BY <2>1, <2>2, ForgetStep
<1>10. ASSUME NEW e \in Emails, NEW pw \in Passwords, signUpButton(e, pw) PROVE IInv'
  <2> DEFINE c == [phase |-> "sent", uid |-> Nothing, email |-> e, pw |-> pw]
  <2>1. UNCHANGED <<user, mail, session, adrift, accounts, updates>> /\ creates' = creates \cup {c}
    BY <1>10 DEF signUpButton, userVars
  <2>2. c \in Create /\ c.phase = "sent"
    BY DEF Create
  <2> HIDE DEF c
  <2>3. ServiceTypes'
    BY <1>1, <2>1, <2>2 DEF ServiceTypes
  <2>4. Known' /\ Own'
    BY <2>1, <2>2 DEF IInv, Known, Own
  <2>5. QED
    BY <2>3, <2>4 DEF IInv
<1>11. ASSUME NEW e \in Emails, NEW text \in Texts, updateButton(e, text) PROVE IInv'
  BY <1>11, UpdateStep
<1>12. QED
  BY <1>2, <1>3, <1>4, <1>5, <1>6, <1>7, <1>8, <1>9, <1>10, <1>11 DEF Next, CreateSteps

-----------------------------------------------------------------------------
(* The pipeline of the records. *)

\* The assumptions of WriteQueue hold here.
LEMMA QueueAssumptions ==
    /\ Nothing \notin Profiles
    /\ {} \subseteq Users
    /\ \A batch \in Seq([path : Users, val : Profiles]) : batch \in Seq(QP!Write)
    /\ MaxPuts \in Nat /\ MaxDisruptions \in Nat
<1>1. [path : Users, val : Profiles] \subseteq QP!Write
  BY DEF QP!Write
<1>2. ASSUME NEW A, NEW B, A \subseteq B, NEW batch \in Seq(A)
      PROVE  batch \in Seq(B)
  BY <1>2
<1>3. \A batch \in Seq([path : Users, val : Profiles]) : batch \in Seq(QP!Write)
  BY <1>1, <1>2
<1>4. QED
  BY <1>3, AccountAssumption

LEMMA QueueInit == QP!Init => QP!TypeOK /\ QP!Inv
BY QP!InitInv, QueueAssumptions, Zenon

LEMMA QueueStep == QP!TypeOK /\ QP!Inv /\ [QP!Next]_QP!queueVars => QP!TypeOK' /\ QP!Inv'
BY QP!InvStep, QueueAssumptions, Zenon

\* Both instances of the pipeline are the same.
LEMMA SameIssue == ASSUME NEW d, NEW batch PROVE Q!Issue(d, batch) <=> QP!Issue(d, batch)
BY DEF Q!Issue, QP!Issue, Q!PutsOf, QP!PutsOf, Q!RequestsOf, QP!RequestsOf,
       Q!PathsOf, QP!PathsOf, Q!LastOf, QP!LastOf

LEMMA SameKill == ASSUME NEW d PROVE Q!Kill(d) <=> QP!Kill(d)
BY DEF Q!Kill, QP!Kill, Q!history, QP!history

LEMMA SameSession ==
    ASSUME NEW d
    PROVE  (Q!SignIn(d) <=> QP!SignIn(d)) /\ (Q!SignOut(d) <=> QP!SignOut(d))
BY DEF Q!SignIn, QP!SignIn, Q!SignOut, QP!SignOut, Q!history, QP!history

LEMMA SameBackground == Q!Background <=> QP!Background
<1>1. ASSUME NEW d PROVE Q!Connect(d) <=> QP!Connect(d)
  BY DEF Q!Connect, QP!Connect, Q!RequestsOf, QP!RequestsOf, Q!Resent, QP!Resent,
         Q!history, QP!history
<1>2. ASSUME NEW d PROVE Q!Disconnect(d) <=> QP!Disconnect(d)
  BY DEF Q!Disconnect, QP!Disconnect, Q!history, QP!history
<1>3. ASSUME NEW d PROVE Q!Answer(d) <=> QP!Answer(d)
  BY DEF Q!Answer, QP!Answer, Q!SettledBy, QP!SettledBy, Q!history, QP!history
<1>4. ASSUME NEW d PROVE Q!Process(d) <=> QP!Process(d)
  BY DEF Q!Process, QP!Process, Q!Granted, QP!Granted, Q!deviceVars, QP!deviceVars
<1>5. QED
  BY <1>1, <1>2, <1>3, <1>4 DEF Q!Background, QP!Background

\* A record nobody has put is as it was.
Unwritten == \A u \in Users : writers[u] = {} => store[u] = lastPut[phone][u]

PipeInv == QP!TypeOK /\ QP!Inv /\ Unwritten

\* What the last put on the record of u was.
Last(u) == lastPut[phone][u]

LEMMA PipeStep ==
    ASSUME PipeInv, [QP!Next]_QP!queueVars
    PROVE  PipeInv'
<1>1. QP!TypeOK' /\ QP!Inv'
  BY QueueStep DEF PipeInv
<1>2. ASSUME NEW u \in Users, writers'[u] = {}
      PROVE  store'[u] = lastPut'[phone][u]
  <2>1. QP!TypeOK /\ phone \in {phone}
    BY DEF PipeInv
  <2>2. ASSUME NEW d \in {phone}, NEW batch \in Seq([path : Users, val : Profiles]), QP!Issue(d, batch)
        PROVE  store'[u] = lastPut'[phone][u]
    <3>1. u \notin QP!PathsOf(batch)
      BY <1>2, <2>2 DEF QP!Issue
    <3>2. writers[u] = {} /\ lastPut'[phone][u] = lastPut[phone][u] /\ store' = store
      BY <1>2, <2>1, <2>2, <3>1 DEF QP!Issue, QP!TypeOK
    <3>3. QED
      BY <3>2 DEF PipeInv, Unwritten
  <2>3. ASSUME NEW d \in {phone}, QP!Process(d)
        PROVE  store'[u] = lastPut'[phone][u]
    <3>1. PICK m \in wire[d] :
            /\ store' = IF QP!Granted(m) THEN [store EXCEPT ![m.put.path] = m.put.val] ELSE store
            /\ UNCHANGED <<writers, lastPut>>
      BY <2>3 DEF QP!Process
    <3>2. m.put \in outstandingPuts[d]
      BY <2>1 DEF PipeInv, QP!Inv, QP!DeviceInv, QP!Sent
    <3>3. d \in writers[m.put.path]
      BY <3>2 DEF PipeInv, QP!Inv, QP!DeviceInv, QP!Newest
    <3>4. m.put.path # u
      BY <1>2, <3>1, <3>3
    <3>5. store'[u] = store[u]
      BY <2>1, <3>1, <3>4 DEF QP!TypeOK
    <3>6. QED
      BY <1>2, <3>1, <3>5 DEF PipeInv, Unwritten
  <2>4. ASSUME UNCHANGED <<store, lastPut, writers>>
        PROVE  store'[u] = lastPut'[phone][u]
    BY <1>2, <2>4 DEF PipeInv, Unwritten
  <2>5. ASSUME NEW d \in {phone}, QP!Connect(d) \/ QP!Disconnect(d) \/ QP!Answer(d)
        PROVE  store'[u] = lastPut'[phone][u]
    BY <2>4, <2>5 DEF QP!Connect, QP!Disconnect, QP!Answer, QP!history
  <2>6. ASSUME NEW d \in {phone}, QP!Kill(d) \/ QP!SignIn(d) \/ QP!SignOut(d)
        PROVE  store'[u] = lastPut'[phone][u]
    BY <2>4, <2>6 DEF QP!Kill, QP!SignIn, QP!SignOut, QP!history
  <2>7. CASE UNCHANGED QP!queueVars
    BY <2>4, <2>7 DEF QP!queueVars, QP!history
  <2>8. QED
    BY <2>2, <2>3, <2>5, <2>6, <2>7 DEF QP!Next, QP!Background
<1>3. QED
  BY <1>1, <1>2 DEF PipeInv, Unwritten

\* A call of setValue is a step of the pipeline, and the record's last put.
LEMMA SetStep ==
    ASSUME QP!TypeOK, NEW u \in Users, NEW e \in Emails, NEW text \in Texts, setValue(u, e, text)
    PROVE  /\ [QP!Next]_QP!queueVars
           /\ Last(u)' = Trimmed(e, text)
           /\ \A v \in Users : v # u => Last(v)' = Last(v)
<1> DEFINE w == [path |-> u, val |-> Trimmed(e, text)]
           batch == <<w>>
<1>1. w \in [path : Users, val : Profiles] /\ w.path = u /\ w.val = Trimmed(e, text)
  BY DEF Trimmed, Profiles, Texts
<1> HIDE DEF w
<1>2. batch \in Seq([path : Users, val : Profiles]) /\ DOMAIN batch = {1} /\ batch[1] = w
  BY <1>1
<1>3. QP!Issue(phone, batch)
  BY SameIssue DEF setValue, w
<1> HIDE DEF batch
<1>4. QP!PathsOf(batch) = {u}
  BY <1>1, <1>2 DEF QP!PathsOf
<1>5. QP!LastOf(batch, u) = Trimmed(e, text)
  <2>1. {i \in DOMAIN batch : batch[i].path = u} = {1}
    BY <1>1, <1>2
  <2>2. (CHOOSE i \in {1} : \A j \in {1} : j <= i) = 1
    OBVIOUS
  <2>3. QED
    BY <1>1, <1>2, <2>1, <2>2 DEF QP!LastOf
<1>6. lastPut' = [lastPut EXCEPT ![phone] =
                    [pa \in Users |->
                        IF pa \in QP!PathsOf(batch) THEN QP!LastOf(batch, pa) ELSE @[pa]]]
  BY <1>3 DEF QP!Issue
<1>7. QED
  BY <1>2, <1>3, <1>4, <1>5, <1>6 DEF QP!TypeOK, QP!Next, Last

\* Any other step leaves the last puts as they were.
LEMMA OtherQueueSteps ==
    ASSUME UNCHANGED queueVars \/ Q!Background \/ Q!Kill(phone) \/ Q!SignIn(phone) \/ Q!SignOut(phone)
    PROVE  [QP!Next]_QP!queueVars /\ UNCHANGED lastPut
<1>1. CASE UNCHANGED queueVars
  BY <1>1 DEF queueVars, QP!queueVars, QP!deviceVars, QP!history
<1>2. CASE Q!Background
  <2>1. QP!Background
    BY <1>2, SameBackground
  <2>2. QED
    BY <2>1 DEF QP!Background, QP!Next, QP!Connect, QP!Disconnect, QP!Answer, QP!Process, QP!history
<1>3. CASE Q!Kill(phone)
  BY <1>3, SameKill DEF QP!Next, QP!Kill
<1>4. CASE Q!SignIn(phone) \/ Q!SignOut(phone)
  <2>1. QP!SignIn(phone) \/ QP!SignOut(phone)
    BY <1>4, SameSession
  <2>2. QED
    BY <2>1 DEF QP!Next, QP!SignIn, QP!SignOut, QP!history
<1>5. QED
  BY <1>1, <1>2, <1>3, <1>4

-----------------------------------------------------------------------------
(* The records. *)

\* The updates of a sequence s that are of the account u.
Of(s, u) == {i \in DOMAIN s : s[i].uid = u}

\* The profile p is what the account a of u will be once the updates s are
\* granted: those of u are of one session, at most one changes the email, and
\* the last of them sets the password.
Aim(s, u, p, a) ==
    /\ p # Nothing
    /\ \A i, j \in Of(s, u) : s[i].session = s[j].session
    /\ \A i \in Of(s, u) : s[i].email # Nothing => s[i].email = p.email
    /\ \A i, j \in Of(s, u) : s[i].email # Nothing /\ s[j].email # Nothing => i = j
    /\ (\A i \in Of(s, u) : s[i].email = Nothing) => a.email = p.email
    /\ \A i \in Of(s, u) : (\A j \in Of(s, u) : j <= i) => s[i].pw # Nothing /\ s[i].pw.pw = p.pw
    /\ Of(s, u) = {} => a.pw.pw = p.pw

Aimed(u) == Aim(updates, u, Last(u), accounts[u])

AllAimed ==
    \A u \in Users : accounts[u] # Nothing /\ u \notin unfinished \cup astray => Aimed(u)

\* A sign-up that has made its account is the only one to finish it, and the
\* account is what the callback will write, unless the owner has been quicker.
SigningUp ==
    \A c \in creates : c.phase # "sent" =>
        /\ c.uid \in unfinished
        /\ \A d \in creates : d.phase # "sent" /\ d.uid = c.uid => d = c
        /\ c.uid \notin astray =>
              /\ accounts[c.uid].email = c.email /\ accounts[c.uid].pw.pw = c.pw
              /\ Of(updates, c.uid) = {}

RecordInv == IInv /\ PipeInv /\ AllAimed /\ SigningUp

\* The updates of an account, when the i-th of s has left.
LEMMA RemovedOf ==
    ASSUME NEW s \in Seq(Change), NEW i \in 1..Len(s), NEW u,
           NEW t, t = Without(s, i)
    PROVE  /\ \A k \in Of(t, u) : Old(i, k) \in Of(s, u) /\ Old(i, k) # i /\ t[k] = s[Old(i, k)]
           /\ \A j \in Of(s, u) : j # i => \E k \in Of(t, u) : Old(i, k) = j
           /\ \A k, l \in Of(t, u) : (Old(i, k) <= Old(i, l) <=> k <= l) /\ (Old(i, k) = Old(i, l) => k = l)
           /\ Of(s, u) \subseteq Nat /\ Of(t, u) \subseteq Nat
<1>1. Len(s) \in Nat /\ i \in Nat /\ DOMAIN s = 1..Len(s)
  OBVIOUS
<1>2. /\ t \in Seq(Change) /\ Len(t) = Len(s) - 1
      /\ \A k \in 1..Len(t) : Old(i, k) \in 1..Len(s) /\ t[k] = s[Old(i, k)]
  BY RemovedFacts, ZenonT(30)
<1>3. DOMAIN t = 1..Len(t)
  BY <1>2
<1>4. \A k \in Nat : Old(i, k) # i
  BY <1>1 DEF Old
<1>5. \A k, l \in Nat : (Old(i, k) <= Old(i, l) <=> k <= l) /\ (Old(i, k) = Old(i, l) => k = l)
  BY <1>1 DEF Old
<1>6. ASSUME NEW j \in 1..Len(s), j # i
      PROVE  \E k \in 1..Len(t) : Old(i, k) = j
  <2>1. CASE j < i
    <3>1. j \in 1..Len(t) /\ Old(i, j) = j
      BY <1>1, <1>2, <2>1 DEF Old
    <3>2. QED
      BY <3>1
  <2>2. CASE j > i
    <3>1. j - 1 \in 1..Len(t) /\ Old(i, j - 1) = j
      BY <1>1, <1>2, <2>2 DEF Old
    <3>2. QED
      BY <3>1
  <2>3. QED
    BY <1>1, <1>6, <2>1, <2>2
<1>7. (\A k \in 1..Len(t) : k \in Nat) /\ (\A k \in 1..Len(s) : k \in Nat)
  OBVIOUS
<1>8. /\ Of(t, u) = {k \in 1..Len(t) : t[k].uid = u}
      /\ Of(s, u) = {k \in 1..Len(s) : s[k].uid = u}
  BY <1>1, <1>3 DEF Of
<1>9. QED
  BY <1>2, <1>4, <1>5, <1>6, <1>7, <1>8, ZenonT(30)

\* An answer to somebody else changes nothing for u.
LEMMA AimOther ==
    ASSUME NEW s \in Seq(Change), NEW i \in 1..Len(s), NEW u,
           NEW t, t = Without(s, i),
           s[i].uid # u, NEW p, NEW a, Aim(s, u, p, a)
    PROVE  Aim(t, u, p, a)
<1>1. /\ \A k \in Of(t, u) : Old(i, k) \in Of(s, u) /\ Old(i, k) # i /\ t[k] = s[Old(i, k)]
      /\ \A j \in Of(s, u) : j # i => \E k \in Of(t, u) : Old(i, k) = j
      /\ \A k, l \in Of(t, u) : (Old(i, k) <= Old(i, l) <=> k <= l) /\ (Old(i, k) = Old(i, l) => k = l)
  BY RemovedOf
<1>2. i \notin Of(s, u)
  BY DEF Of
<1>3. \A j \in Of(s, u) : \E k \in Of(t, u) : Old(i, k) = j
  BY <1>1, <1>2
<1>4. (\A k \in Of(t, u) : t[k].email = Nothing) => \A j \in Of(s, u) : s[j].email = Nothing
  BY <1>1, <1>3
<1>5. \A k \in Of(t, u) : (\A l \in Of(t, u) : l <= k) => \A j \in Of(s, u) : j <= Old(i, k)
  BY <1>1, <1>3
<1>6. Of(t, u) = {} => Of(s, u) = {}
  BY <1>3
<1>7. QED
  BY <1>1, <1>4, <1>5, <1>6 DEF Aim

\* The oldest update of u is granted.
LEMMA AimGranted ==
    ASSUME NEW s \in Seq(Change), NEW i \in 1..Len(s), NEW u,
           NEW t, t = Without(s, i),
           s[i].uid = u, \A j \in 1..(i - 1) : s[j].session # s[i].session,
           NEW p, NEW a, Aim(s, u, p, a),
           NEW b, b.email = IF s[i].email = Nothing THEN a.email ELSE s[i].email,
           b.pw = IF s[i].pw = Nothing THEN a.pw ELSE s[i].pw
    PROVE  Aim(t, u, p, b)
<1>1. /\ \A k \in Of(t, u) : Old(i, k) \in Of(s, u) /\ Old(i, k) # i /\ t[k] = s[Old(i, k)]
      /\ \A j \in Of(s, u) : j # i => \E k \in Of(t, u) : Old(i, k) = j
      /\ \A k, l \in Of(t, u) : (Old(i, k) <= Old(i, l) <=> k <= l) /\ (Old(i, k) = Old(i, l) => k = l)
      /\ Of(s, u) \subseteq Nat /\ Of(t, u) \subseteq Nat
  BY RemovedOf
<1>2. i \in Of(s, u) /\ i \in Nat /\ DOMAIN s = 1..Len(s)
  BY DEF Of
<1>3. \A j \in Of(s, u) : i <= j
  <2>1. SUFFICES ASSUME NEW j \in Of(s, u), ~(i <= j) PROVE FALSE
    OBVIOUS
  <2>2. j \in 1..(i - 1)
    BY <1>1, <1>2, <2>1 DEF Of
  <2>3. s[j].session = s[i].session
    BY <1>2, <2>1 DEF Aim
  <2>4. QED
    BY <2>2, <2>3
<1>4. (\A k \in Of(t, u) : t[k].email = Nothing) => b.email = p.email
  <2>1. SUFFICES ASSUME \A k \in Of(t, u) : t[k].email = Nothing
                 PROVE  b.email = p.email
    OBVIOUS
  <2>2. \A j \in Of(s, u) : j # i => s[j].email = Nothing
    BY <1>1, <2>1
  <2>3. QED
    BY <1>2, <2>2 DEF Aim
<1>5. \A k \in Of(t, u) : (\A l \in Of(t, u) : l <= k) => t[k].pw # Nothing /\ t[k].pw.pw = p.pw
  <2>1. SUFFICES ASSUME NEW k \in Of(t, u), \A l \in Of(t, u) : l <= k
                 PROVE  t[k].pw # Nothing /\ t[k].pw.pw = p.pw
    OBVIOUS
  <2>2. \A j \in Of(s, u) : j <= Old(i, k)
    BY <1>1, <1>3, <2>1
  <2>3. QED
    BY <1>1, <2>2 DEF Aim
<1>6. Of(t, u) = {} => b.pw.pw = p.pw
  <2>1. SUFFICES ASSUME Of(t, u) = {} PROVE b.pw.pw = p.pw
    OBVIOUS
  <2>2. \A j \in Of(s, u) : j = i /\ j <= i
    BY <1>1, <1>2, <2>1
  <2>3. s[i].pw # Nothing /\ s[i].pw.pw = p.pw
    BY <1>2, <2>2 DEF Aim
  <2>4. QED
    BY <2>3
<1>7. /\ p # Nothing
      /\ \A k, l \in Of(t, u) : t[k].session = t[l].session
      /\ \A k \in Of(t, u) : t[k].email # Nothing => t[k].email = p.email
      /\ \A k, l \in Of(t, u) : t[k].email # Nothing /\ t[l].email # Nothing => k = l
  <2>1. /\ p # Nothing
        /\ \A j, l \in Of(s, u) : s[j].session = s[l].session
        /\ \A j \in Of(s, u) : s[j].email # Nothing => s[j].email = p.email
        /\ \A j, l \in Of(s, u) : s[j].email # Nothing /\ s[l].email # Nothing => j = l
    BY DEF Aim
  <2>2. ASSUME NEW k \in Of(t, u), NEW l \in Of(t, u)
        PROVE  /\ t[k].session = t[l].session
               /\ t[k].email # Nothing => t[k].email = p.email
               /\ t[k].email # Nothing /\ t[l].email # Nothing => k = l
    <3>1. Old(i, k) \in Of(s, u) /\ t[k] = s[Old(i, k)]
      BY <1>1, <2>2
    <3>2. Old(i, l) \in Of(s, u) /\ t[l] = s[Old(i, l)]
      BY <1>1, <2>2
    <3>3. Old(i, k) = Old(i, l) => k = l
      BY <1>1, <2>2
    <3>4. QED
      BY <2>1, <3>1, <3>2, <3>3
  <2>3. QED
    BY <2>1, <2>2
<1>8. QED
  BY <1>4, <1>5, <1>6, <1>7 DEF Aim

\* An Update appended what it asks for: nothing changes for the others.
LEMMA AimAskedOther ==
    ASSUME NEW s \in Seq(Change), NEW t \in Seq(Change), NEW u, Len(s) <= Len(t),
           \A k \in 1..Len(s) : t[k] = s[k],
           \A k \in 1..Len(t) : k \notin 1..Len(s) => t[k].uid # u
    PROVE  Of(t, u) = Of(s, u) /\ \A p, a : Aim(s, u, p, a) => Aim(t, u, p, a)
<1>1. Len(s) \in Nat /\ Len(t) \in Nat /\ DOMAIN s = 1..Len(s) /\ DOMAIN t = 1..Len(t)
  OBVIOUS
<1>2. Of(t, u) = Of(s, u)
  BY <1>1 DEF Of
<1>3. \A k \in Of(s, u) : t[k] = s[k]
  BY <1>1 DEF Of
<1>4. QED
  BY <1>2, <1>3 DEF Aim

\* For the owner, who has nothing under way but passwords, it is the new aim.
AskedFor(s, n, t, m, u, x, p, a, c, w) ==
    /\ n \in Nat /\ DOMAIN s = 1..n
    /\ m \in Nat /\ DOMAIN t = 1..m
    /\ \A k \in 1..n : t[k] = s[k]
    /\ \A k \in Of(s, u) : s[k].email = Nothing /\ s[k].session = x
    /\ p # Nothing /\ p.email # Nothing
    /\ c.session = x /\ c.uid = u /\ c.email = p.email
    /\ w.session = x /\ w.uid = u /\ w.email = Nothing /\ w.pw # Nothing /\ w.pw.pw = p.pw
    /\ \/ a.email = p.email /\ m = n + 1
       \/ a.email # p.email /\ m = n + 2 /\ t[n + 1] = c
    /\ t[m] = w

LEMMA AimAskedOwn ==
    ASSUME NEW s, NEW n, NEW t, NEW m, NEW u, NEW x, NEW p, NEW a, NEW c, NEW w,
           AskedFor(s, n, t, m, u, x, p, a, c, w)
    PROVE  Aim(t, u, p, a)
<1> USE DEF AskedFor
<1>1. m \in Of(t, u) /\ n < m
  BY DEF Of
<1>2. ASSUME NEW k \in Of(t, u)
      PROVE  \/ t[k].email = Nothing /\ t[k].session = x
             \/ a.email # p.email /\ k = n + 1 /\ t[k].session = x /\ t[k].email = p.email
  <2>1. k \in 1..m /\ t[k].uid = u
    BY DEF Of
  <2>2. CASE k \in 1..n
    <3>1. k \in Of(s, u) /\ t[k] = s[k]
      BY <2>1, <2>2 DEF Of
    <3>2. QED
      BY <3>1
  <2>3. CASE k = m
    BY <2>3
  <2>4. CASE k \notin 1..n /\ k # m
    <3>1. k = n + 1 /\ m = n + 2
      BY <2>1, <2>4
    <3>2. a.email # p.email /\ t[k] = c
      BY <3>1
    <3>3. QED
      BY <3>1, <3>2
  <2>5. QED
    BY <2>2, <2>3, <2>4
<1>3. (\A i \in Of(t, u) : t[i].email = Nothing) => a.email = p.email
  <2>1. SUFFICES ASSUME a.email # p.email PROVE \E i \in Of(t, u) : t[i].email # Nothing
    OBVIOUS
  <2>2. m = n + 2 /\ t[n + 1] = c
    BY <2>1
  <2>3. n + 1 \in 1..m /\ t[n + 1].uid = u /\ t[n + 1].email # Nothing
    BY <2>2
  <2>4. n + 1 \in Of(t, u)
    BY <2>3 DEF Of
  <2>5. QED
    BY <2>3, <2>4
<1>4. \A i \in Of(t, u) : (\A j \in Of(t, u) : j <= i) => t[i] = w
  <2>1. SUFFICES ASSUME NEW i \in Of(t, u), \A j \in Of(t, u) : j <= i
                 PROVE  t[i] = w
    OBVIOUS
  <2>2. m <= i /\ i \in 1..m
    BY <1>1, <2>1 DEF Of
  <2>3. QED
    BY <2>2
<1>5. Of(t, u) # {}
  BY <1>1
<1>6. /\ \A i, j \in Of(t, u) : t[i].session = t[j].session
      /\ \A i \in Of(t, u) : t[i].email # Nothing => t[i].email = p.email
      /\ \A i, j \in Of(t, u) : t[i].email # Nothing /\ t[j].email # Nothing => i = j
  BY <1>2
<1>7. \A i \in Of(t, u) : (\A j \in Of(t, u) : j <= i) => t[i].pw # Nothing /\ t[i].pw.pw = p.pw
  BY <1>4
<1>8. QED
  BY <1>3, <1>5, <1>6, <1>7 DEF Aim

-----------------------------------------------------------------------------
(* Every step keeps the aim. *)

\* Steps that leave the updates, the accounts and the last puts alone.
LEMMA RecordStays ==
    ASSUME AllAimed, UNCHANGED <<updates, accounts, lastPut>>,
           unfinished \cup astray \subseteq unfinished' \cup astray'
    PROVE  AllAimed'
<1>1. \A u : Last(u)' = Last(u)
  BY DEF Last
<1>2. QED
  BY <1>1 DEF AllAimed, Aimed

\* A sign-up goes on, or away.
LEMMA SigningStays ==
    ASSUME SigningUp, UNCHANGED <<updates, accounts, unfinished, astray>>,
           \A c \in creates' : c.phase = "sent" \/ c \in creates
    PROVE  SigningUp'
BY DEF SigningUp

LEMMA RecordCreate ==
    ASSUME RecordInv, NEW c \in creates, createUser(c)
    PROVE  AllAimed' /\ SigningUp'
<1>1. /\ c.phase = "sent" /\ UNCHANGED <<lastPut, updates, astray>>
  BY DEF createUser, queueVars
<1>2. CASE creates' = creates \ {c} /\ UNCHANGED <<accounts, unfinished>>
  BY <1>1, <1>2, RecordStays, SigningStays DEF RecordInv
<1>3. CASE \E u \in Users :
              /\ accounts[u] = Nothing
              /\ accounts' = [accounts EXCEPT ![u] = [email |-> c.email, pw |-> Typed(c.pw)]]
              /\ creates' = (creates \ {c}) \cup {[c EXCEPT !.phase = "made", !.uid = u]}
              /\ unfinished' = unfinished \cup {u}
  <2>1. PICK u \in Users :
              /\ accounts[u] = Nothing
              /\ accounts' = [accounts EXCEPT ![u] = [email |-> c.email, pw |-> Typed(c.pw)]]
              /\ creates' = (creates \ {c}) \cup {[c EXCEPT !.phase = "made", !.uid = u]}
              /\ unfinished' = unfinished \cup {u}
    BY <1>3
  <2>2. accounts \in [Users -> AccountOf \cup {Nothing}] /\ c \in Create
    BY DEF RecordInv, IInv, ServiceTypes
  <2>3. /\ \A v \in Users : v # u => accounts'[v] = accounts[v]
        /\ accounts'[u].email = c.email /\ accounts'[u].pw.pw = c.pw
    BY <2>1, <2>2 DEF Typed
  <2>4. PICK b : b = [c EXCEPT !.phase = "made", !.uid = u]
    OBVIOUS
  <2>5. b.phase = "made" /\ b.uid = u /\ b.email = c.email /\ b.pw = c.pw
    BY <2>2, <2>4 DEF Create
  <2>6. \A d \in creates : d.phase # "sent" => d.uid \in Users /\ d.uid # u
    BY <2>1 DEF RecordInv, IInv, Known
  <2>7. Of(updates, u) = {}
    <3>1. DOMAIN updates = 1..Len(updates)
      BY DEF RecordInv, IInv, ServiceTypes
    <3>2. QED
      BY <2>1, <3>1 DEF RecordInv, IInv, Known, Of
  <2>8. AllAimed'
    <3>1. \A v : Last(v)' = Last(v)
      BY <1>1 DEF Last
    <3>2. \A v \in Users : v # u /\ Aimed(v) => Aimed(v)'
      BY <1>1, <2>3, <3>1 DEF Aimed
    <3>3. QED
      BY <1>1, <2>1, <2>3, <3>2 DEF RecordInv, AllAimed
  <2>9. SigningUp'
    <3>1. creates' = (creates \ {c}) \cup {b}
      BY <2>1, <2>4
    <3>2. QED
      BY <1>1, <2>1, <2>3, <2>5, <2>6, <2>7, <3>1 DEF RecordInv, SigningUp
  <2>10. QED
    BY <2>8, <2>9
<1>4. QED
  BY <1>2, <1>3 DEF createUser

LEMMA RecordComplete ==
    ASSUME RecordInv, NEW c \in creates, Complete(c)
    PROVE  AllAimed' /\ SigningUp'
<1>1. /\ c.phase = "made" /\ UNCHANGED <<accounts, updates, unfinished, astray>>
      /\ creates' = (creates \ {c}) \cup {[c EXCEPT !.phase = "current"]}
      /\ UNCHANGED queueVars \/ Q!SignIn(phone)
  BY DEF Complete, Become
<1>2. UNCHANGED lastPut
  BY <1>1, OtherQueueSteps
<1>3. PICK b : b = [c EXCEPT !.phase = "current"]
  OBVIOUS
<1>4. b.phase = "current" /\ b.uid = c.uid /\ b.email = c.email /\ b.pw = c.pw
  BY <1>3 DEF RecordInv, IInv, ServiceTypes, Create
<1>5. creates' = (creates \ {c}) \cup {b}
  BY <1>1, <1>3
<1>6. SigningUp'
  BY <1>1, <1>4, <1>5 DEF RecordInv, SigningUp
<1>7. QED
  BY <1>1, <1>2, <1>6, RecordStays DEF RecordInv

\* The callback of a sign-up writes the record of what the account is.
LEMMA RecordCallback ==
    ASSUME RecordInv, NEW c \in creates, Callback(c)
    PROVE  AllAimed' /\ SigningUp' /\ [QP!Next]_QP!queueVars
<1>1. /\ c.phase = "current" /\ c \in Create /\ c.uid \in Users
      /\ c.email \in Emails /\ c.pw \in Passwords
  BY DEF Callback, RecordInv, IInv, ServiceTypes, Known, Create
<1>2. /\ creates' = creates \ {c} /\ unfinished' = unfinished \ {c.uid}
      /\ UNCHANGED <<accounts, updates, astray>>
      /\ setValue(c.uid, c.email, Typed(c.pw))
  BY DEF Callback
<1>3. Typed(c.pw) \in Texts /\ Typed(c.pw).pw = c.pw
  BY <1>1 DEF Typed, Texts
<1>4. PICK p : p = Trimmed(c.email, Typed(c.pw))
  OBVIOUS
<1>5. p # Nothing /\ p.email = c.email /\ p.pw = c.pw
  BY <1>1, <1>3, <1>4, AccountAssumption DEF Trimmed, Profiles
<1>6. /\ [QP!Next]_QP!queueVars /\ Last(c.uid)' = p
      /\ \A v \in Users : v # c.uid => Last(v)' = Last(v)
  <2>1. QP!TypeOK
    BY DEF RecordInv, PipeInv
  <2>2. QED
    BY <1>1, <1>2, <1>3, <1>4, <2>1, SetStep
<1>7. ASSUME c.uid \notin astray PROVE Aimed(c.uid)'
  <2>1. /\ accounts[c.uid].email = c.email /\ accounts[c.uid].pw.pw = c.pw
        /\ Of(updates, c.uid) = {}
    BY <1>1, <1>7 DEF RecordInv, SigningUp
  <2>2. Aim(updates, c.uid, p, accounts[c.uid])
    BY <1>5, <2>1 DEF Aim
  <2>3. QED
    BY <1>2, <1>6, <2>2 DEF Aimed
<1>8. \A v \in Users : v # c.uid /\ Aimed(v) => Aimed(v)'
  BY <1>2, <1>6 DEF Aimed
<1>9. AllAimed'
  BY <1>2, <1>7, <1>8 DEF RecordInv, AllAimed
<1>10. SigningUp'
  BY <1>1, <1>2 DEF RecordInv, SigningUp
<1>11. QED
  BY <1>6, <1>9, <1>10

\* An Update writes the record of what its account is to become, unless it
\* cannot know.
LEMMA RecordUpdate ==
    ASSUME RecordInv, NEW e \in Emails, NEW text \in Texts, updateButton(e, text)
    PROVE  AllAimed' /\ SigningUp' /\ [QP!Next]_QP!queueVars
<1>1. PICK u \in Users :
        /\ u = user /\ u # Nothing /\ accounts[u] # Nothing
        /\ UNCHANGED <<accounts, creates>> /\ setValue(u, e, text)
        /\ astray' = IF Alone THEN astray \ {u} ELSE astray \cup {u}
        /\ unfinished' = IF Alone THEN unfinished \ {u} ELSE unfinished
        /\ updates' = Asked(e, text)
  BY DEF updateButton, RecordInv, IInv, ServiceTypes, Known, Asked, PasswordAsked
<1>2. PICK p : p = Trimmed(e, text)
  OBVIOUS
<1>3. /\ p # Nothing /\ p.email = e /\ p.pw = text.pw
      /\ e # Nothing /\ text # Nothing
  BY <1>2, AccountAssumption DEF Trimmed, Profiles, Texts
<1>4. /\ [QP!Next]_QP!queueVars /\ Last(u)' = p
      /\ \A v \in Users : v # u => Last(v)' = Last(v)
  <2>1. QP!TypeOK
    BY DEF RecordInv, PipeInv
  <2>2. QED
    BY <1>1, <1>2, <2>1, SetStep
<1>5a. PICK t, n : t = Asked(e, text) /\ n = Len(updates)
  OBVIOUS
<1>5b. PICK m : m = Len(t)
  OBVIOUS
<1>5. t = Asked(e, text) /\ n = Len(updates) /\ m = Len(t)
  BY <1>5a, <1>5b
<1>6. PICK c, w : c = MailAsked(e) /\ w = PasswordAsked(text)
  OBVIOUS
<1>7. /\ c.session = session /\ c.uid = u /\ c.email = e
      /\ w.session = session /\ w.uid = u /\ w.email = Nothing /\ w.pw = text
  BY <1>1, <1>6 DEF MailAsked, PasswordAsked
<1>8. /\ updates \in Seq(Change) /\ t \in Seq(Change) /\ n \in Nat
      /\ \A k \in 1..n : t[k] = updates[k]
      /\ t[m] = w
      /\ \/ mail = e /\ m = n + 1
         \/ mail # e /\ m = n + 2 /\ t[n + 1] = c
  <2>1. ServiceTypes
    BY DEF RecordInv, IInv
  <2>2. updates \in Seq(Change)
    BY <2>1 DEF ServiceTypes
  <2>3. user # Nothing
    BY <1>1
  <2>4. /\ t \in Seq(Change) /\ n \in Nat
        /\ \A k \in 1..n : k \in 1..Len(t) /\ t[k] = updates[k]
        /\ t[Len(t)] = PasswordAsked(text)
        /\ IF mail = e THEN Len(t) = n + 1 ELSE Len(t) = n + 2 /\ t[n + 1] = MailAsked(e)
    <3>1. Shape(e, text, Asked(e, text), Len(updates))
      BY <2>1, <2>3, AskedShape
    <3>2. Shape(e, text, t, n)
      BY <1>5a, <3>1
    <3>3. QED
      BY <3>2 DEF Shape
  <2>5. QED
    BY <1>5, <1>6, <2>2, <2>4
<1>9. DOMAIN updates = 1..n /\ DOMAIN t = 1..m /\ m \in Nat
  BY <1>5, <1>8
<1>10. ASSUME NEW v \in Users, v # u
       PROVE  Of(t, v) = Of(updates, v) /\ \A q, a : Aim(updates, v, q, a) => Aim(t, v, q, a)
  <2>1. ASSUME NEW k \in 1..m, k \notin 1..n PROVE t[k].uid # v
    <3>1. k = m \/ k = n + 1
      BY <1>8, <2>1
    <3>2. t[k] = w \/ t[k] = c
      BY <1>8, <3>1
    <3>3. QED
      BY <1>7, <1>10, <3>2
  <2>2. n <= m
    BY <1>8
  <2>3. QED
    BY <1>5, <1>8, <2>1, <2>2, AimAskedOther
<1>11. ASSUME Alone PROVE Aimed(u)'
  <2>1. ~adrift /\ \A i \in Of(updates, u) : updates[i].email = Nothing
    BY <1>1, <1>11 DEF Alone, ChangesOf, Of
  <2>2. mail = accounts[u].email /\ \A i \in Of(updates, u) : updates[i].session = session
    BY <1>1, <1>5, <1>9, <2>1 DEF RecordInv, IInv, Own, Of
  <2>3. Aim(t, u, p, accounts[u])
    <3>1. PICK a : a = accounts[u]
      OBVIOUS
    <3>2. \/ a.email = p.email /\ m = n + 1
          \/ a.email # p.email /\ m = n + 2 /\ t[n + 1] = c
      BY <1>3, <1>8, <2>2, <3>1
    <3>3. p # Nothing /\ p.email # Nothing /\ w.pw # Nothing /\ w.pw.pw = p.pw /\ c.email = p.email
      BY <1>3, <1>7
    <3>4. n \in Nat /\ t[m] = w /\ \A k \in 1..n : t[k] = updates[k]
      BY <1>8
    <3>5. PICK x : x = session
      OBVIOUS
    <3>6. Aim(t, u, p, a)
      <4>1. /\ n \in Nat /\ m \in Nat /\ DOMAIN updates = 1..n /\ DOMAIN t = 1..m
            /\ \A k \in 1..n : t[k] = updates[k]
        BY <1>9, <3>4
      <4>2. \A k \in Of(updates, u) : updates[k].email = Nothing /\ updates[k].session = x
        BY <2>1, <2>2, <3>5
      <4>3. /\ p # Nothing /\ p.email # Nothing
            /\ c.session = x /\ c.uid = u /\ c.email = p.email
            /\ w.session = x /\ w.uid = u /\ w.email = Nothing /\ w.pw # Nothing /\ w.pw.pw = p.pw
        BY <1>7, <3>3, <3>5
      <4>4. t[m] = w
        BY <3>4
      <4>5. QED
        <5>1. AskedFor(updates, n, t, m, u, x, p, a, c, w)
          BY <3>2, <4>1, <4>2, <4>3, <4>4 DEF AskedFor
        <5>2. QED
          BY <5>1, AimAskedOwn
    <3>7. QED
      BY <3>1, <3>6
  <2>4. QED
    BY <1>1, <1>4, <1>5, <2>3 DEF Aimed
<1>12. \A v \in Users : v # u /\ Aimed(v) => Aimed(v)'
  BY <1>1, <1>4, <1>5, <1>10 DEF Aimed
<1>13. AllAimed'
  BY <1>1, <1>11, <1>12 DEF RecordInv, AllAimed
<1>14. SigningUp'
  <2>1. \A d \in creates : d.phase # "sent" => d.uid \in Users
    BY DEF RecordInv, IInv, Known
  <2>2. \A v \in Users : v # u => Of(updates', v) = Of(updates, v)
    BY <1>1, <1>5, <1>10
  <2>3. Alone => \A d \in creates : d.uid # u
    BY <1>1 DEF Alone
  <2>4. QED
    BY <1>1, <2>1, <2>2, <2>3 DEF RecordInv, SigningUp
<1>15. QED
  BY <1>4, <1>13, <1>14

\* The answers to the updates bring the account to where its record is, or
\* lead it astray.
LEMMA RecordAnswer ==
    ASSUME RecordInv, executeUserUpdate
    PROVE  AllAimed' /\ SigningUp'
<1>1. PICK i \in Oldest :
        /\ updates' = Without(updates, i)
        /\ Grant(updates[i]) \/ Refuse(updates[i]) \/ Lose(updates[i])
        /\ UNCHANGED <<lastPut, creates, unfinished>>
  BY DEF executeUserUpdate, Without, queueVars
<1>2. PICK s, c, u : s = updates /\ c = updates[i] /\ u = updates[i].uid
  OBVIOUS
<1>3. PICK t : t = Without(s, i)
  OBVIOUS
<1>4. /\ s \in Seq(Change) /\ i \in 1..Len(s) /\ \A j \in 1..(i - 1) : s[j].session # s[i].session
      /\ accounts \in [Users -> AccountOf \cup {Nothing}]
  BY <1>1, <1>2 DEF Oldest, RecordInv, IInv, ServiceTypes
<1>5. c \in Change /\ u \in Users /\ c.uid = u /\ s[i] = c /\ accounts[u] # Nothing
  <2>1. c \in Change /\ c.uid = u /\ s[i] = c
    BY <1>2, <1>4
  <2>2. u \in Users
    BY <2>1 DEF Change
  <2>3. accounts[u] # Nothing
    BY <1>2, <1>4 DEF RecordInv, IInv, Known
  <2>4. QED
    BY <2>1, <2>2, <2>3
<1>6. \A v \in Users : v # u => Applied(c)[v] = accounts[v]
  BY <1>5, AppliedFacts DEF RecordInv
<1>7. /\ Applied(c)[u].email = IF c.email = Nothing THEN accounts[u].email ELSE c.email
      /\ Applied(c)[u].pw = IF c.pw = Nothing THEN accounts[u].pw ELSE c.pw
  BY <1>4, <1>5 DEF Applied
<1>8. /\ \A v \in Users : v # u => accounts'[v] = accounts[v] /\ (v \in astray' <=> v \in astray)
      /\ u \in astray' \/ (accounts' = Applied(c) /\ astray' = astray)
      /\ astray \subseteq astray'
  <2>1. CASE Grant(c)
    BY <1>6, <2>1 DEF Grant
  <2>2. CASE Refuse(c)
    BY <1>5, <2>2 DEF Refuse
  <2>3. CASE Lose(c)
    <3>1. (accounts' = accounts \/ accounts' = Applied(c)) /\ astray' = astray \cup {u}
      BY <1>5, <2>3 DEF Lose
    <3>2. QED
      BY <1>6, <3>1
  <2>4. QED
    BY <1>1, <1>2, <2>1, <2>2, <2>3
<1>9. \A v : Last(v)' = Last(v)
  BY <1>1 DEF Last
<1>10. ASSUME NEW v \in Users, v # u, Aimed(v)
       PROVE  Aimed(v)'
  <2>1. Aim(s, v, Last(v), accounts[v]) /\ s[i].uid # v
    BY <1>2, <1>5, <1>10 DEF Aimed
  <2>2. Aim(t, v, Last(v), accounts[v])
    BY <1>3, <1>4, <2>1, AimOther
  <2>3. QED
    BY <1>1, <1>2, <1>3, <1>8, <1>9, <1>10, <2>2 DEF Aimed
<1>11. ASSUME accounts' = Applied(c), Aimed(u)
       PROVE  Aimed(u)'
  <2>1. Aim(s, u, Last(u), accounts[u]) /\ s[i].uid = u
    BY <1>2, <1>5, <1>11 DEF Aimed
  <2>2. PICK p, a, b : p = Last(u) /\ a = accounts[u] /\ b = Applied(c)[u]
    OBVIOUS
  <2>3. /\ b.email = IF s[i].email = Nothing THEN a.email ELSE s[i].email
        /\ b.pw = IF s[i].pw = Nothing THEN a.pw ELSE s[i].pw
    BY <1>5, <1>7, <2>2
  <2>4. Aim(t, u, p, b)
    <3>1. Aim(s, u, p, a) /\ s[i].uid = u
      BY <2>1, <2>2
    <3>2. s \in Seq(Change) /\ i \in 1..Len(s) /\ \A j \in 1..(i - 1) : s[j].session # s[i].session
      BY <1>4
    <3>3. QED
      BY <1>3, <2>3, <3>1, <3>2, AimGranted
  <2>5. QED
    BY <1>1, <1>2, <1>3, <1>9, <1>11, <2>2, <2>4 DEF Aimed
<1>12. AllAimed'
  <2>1. SUFFICES ASSUME NEW v \in Users, accounts'[v] # Nothing, v \notin unfinished' \cup astray'
                 PROVE  Aimed(v)'
    BY DEF AllAimed
  <2>2. accounts[v] # Nothing
    BY <1>5, <1>8, <2>1
  <2>3. Aimed(v)
    BY <1>1, <1>8, <2>1, <2>2 DEF RecordInv, AllAimed
  <2>4. QED
    BY <1>8, <1>10, <1>11, <2>1, <2>3
<1>13. SigningUp'
  <2>1. SUFFICES ASSUME NEW d \in creates, d.phase # "sent", d.uid \notin astray'
                 PROVE  /\ accounts'[d.uid].email = d.email /\ accounts'[d.uid].pw.pw = d.pw
                        /\ Of(updates', d.uid) = {}
    BY <1>1 DEF RecordInv, SigningUp
  <2>2. /\ accounts[d.uid].email = d.email /\ accounts[d.uid].pw.pw = d.pw
        /\ Of(updates, d.uid) = {} /\ d.uid \in Users
    BY <1>8, <2>1 DEF RecordInv, SigningUp, IInv, Known
  <2>3. i \in Of(updates, u)
    BY <1>2, <1>4 DEF Of
  <2>4. d.uid # u
    BY <2>2, <2>3
  <2>5. Of(t, d.uid) = {}
    <3>1. \A k \in Of(t, d.uid) : Old(i, k) \in Of(s, d.uid)
      BY <1>3, <1>4, RemovedOf
    <3>2. QED
      BY <1>2, <2>2, <3>1
  <2>6. QED
    BY <1>1, <1>2, <1>3, <1>8, <2>2, <2>4, <2>5
<1>14. QED
  BY <1>12, <1>13

\* A death leaves astray whoever had an update under way.
LEMMA RecordKill ==
    ASSUME RecordInv, Kill
    PROVE  AllAimed' /\ SigningUp'
<1>1. /\ updates' = <<>> /\ creates' = {} /\ UNCHANGED <<accounts, unfinished>>
      /\ astray' = astray \cup {updates[i].uid : i \in DOMAIN updates}
      /\ Q!Kill(phone)
  BY DEF Kill
<1>2. UNCHANGED lastPut
  BY <1>1, OtherQueueSteps
<1>3. ASSUME NEW u \in Users, u \notin astray', Aimed(u)
      PROVE  Aimed(u)'
  <2>1. Of(updates, u) = {} /\ Of(<<>>, u) = {}
    BY <1>1, <1>3 DEF Of
  <2>2. Aim(<<>>, u, Last(u), accounts[u])
    BY <1>3, <2>1 DEF Aimed, Aim
  <2>3. QED
    BY <1>1, <1>2, <2>2 DEF Aimed, Last
<1>4. AllAimed'
  BY <1>1, <1>3 DEF RecordInv, AllAimed
<1>5. SigningUp'
  BY <1>1 DEF SigningUp
<1>6. QED
  BY <1>4, <1>5

LEMMA RecordStep ==
    ASSUME RecordInv, [Next]_vars
    PROVE  RecordInv'
<1>1. IInv'
  BY AccountStep DEF RecordInv
<1>2. ASSUME AllAimed' /\ SigningUp' /\ [QP!Next]_QP!queueVars
      PROVE  RecordInv'
  BY <1>1, <1>2, PipeStep DEF RecordInv
<1>3. ASSUME UNCHANGED queueVars \/ Q!Background \/ Q!Kill(phone) \/ Q!SignIn(phone) \/ Q!SignOut(phone)
      PROVE  [QP!Next]_QP!queueVars /\ UNCHANGED lastPut
  BY <1>3, OtherQueueSteps
<1>4. ASSUME NEW c \in creates, createUser(c) PROVE RecordInv'
  BY <1>2, <1>3, <1>4, RecordCreate DEF createUser
<1>5. ASSUME NEW c \in creates, Complete(c) PROVE RecordInv'
  <2>1. UNCHANGED queueVars \/ Q!SignIn(phone)
    BY <1>5 DEF Complete, Become
  <2>2. QED
    BY <1>2, <1>3, <1>5, <2>1, RecordComplete
<1>6. ASSUME NEW c \in creates, Callback(c) PROVE RecordInv'
  BY <1>2, <1>6, RecordCallback
<1>7. ASSUME NEW e \in Emails, NEW text \in Texts, updateButton(e, text) PROVE RecordInv'
  BY <1>2, <1>7, RecordUpdate
<1>8. CASE executeUserUpdate
  <2>1. UNCHANGED queueVars
    BY <1>8 DEF executeUserUpdate
  <2>2. QED
    BY <1>2, <1>3, <1>8, <2>1, RecordAnswer
<1>9. CASE Kill
  <2>1. Q!Kill(phone)
    BY <1>9 DEF Kill
  <2>2. QED
    BY <1>2, <1>3, <1>9, <2>1, RecordKill
<1>10. ASSUME UNCHANGED queueVars \/ Q!Background \/ Q!SignIn(phone) \/ Q!SignOut(phone),
              UNCHANGED <<accounts, updates, unfinished, astray>>,
              \A c \in creates' : c.phase = "sent" \/ c \in creates
       PROVE  RecordInv'
  <2>1. [QP!Next]_QP!queueVars /\ UNCHANGED lastPut
    BY <1>3, <1>10
  <2>2. AllAimed'
    BY <1>10, <2>1, RecordStays DEF RecordInv
  <2>3. SigningUp'
    BY <1>10, SigningStays DEF RecordInv
  <2>4. QED
    BY <1>2, <2>1, <2>2, <2>3
<1>11. ASSUME NEW c \in creates, LoseAnswer(c) PROVE RecordInv'
  BY <1>10, <1>11 DEF LoseAnswer
<1>12. ASSUME NEW u \in Users, signinButton(u) PROVE RecordInv'
  BY <1>10, <1>12 DEF signinButton, Become, serviceVars
<1>13. ASSUME NEW e \in Emails, NEW pw \in Passwords, signUpButton(e, pw) PROVE RecordInv'
  <2>1. /\ UNCHANGED <<queueVars, accounts, updates, unfinished, astray>>
        /\ creates' = creates \cup {[phase |-> "sent", uid |-> Nothing, email |-> e, pw |-> pw]}
    BY <1>13 DEF signUpButton
  <2>2. \A c \in creates' : c.phase = "sent" \/ c \in creates
    BY <2>1
  <2>3. QED
    BY <1>10, <2>1, <2>2
<1>14. CASE SignOut \/ Background \/ UNCHANGED vars
  BY <1>10, <1>14 DEF SignOut, Background, serviceVars, vars
<1>15. QED
  BY <1>4, <1>5, <1>6, <1>7, <1>8, <1>9, <1>11, <1>12, <1>13, <1>14 DEF Next, CreateSteps

LEMMA RecordInit == Init => RecordInv
<1> SUFFICES ASSUME Init PROVE RecordInv
  OBVIOUS
<1>1. Q!Init /\ updates = <<>> /\ creates = {} /\ unfinished = {} /\ astray = {}
  BY DEF Init
<1>2. QP!Init
  BY <1>1 DEF Q!Init, QP!Init
<1>3. PipeInv
  <2>1. QP!TypeOK /\ QP!Inv
    BY <1>2, QueueInit
  <2>2. lastPut = [d \in {phone} |-> store]
    BY <1>2 DEF QP!Init
  <2>3. QED
    BY <2>1, <2>2 DEF PipeInv, Unwritten
<1>4. AllAimed
  <2>1. PICK u \in Users, e \in Emails, pw \in Passwords :
          /\ accounts = [v \in Users |-> IF v = u THEN [email |-> e, pw |-> Typed(pw)] ELSE Nothing]
          /\ store = [v \in Users |-> IF v = u THEN [email |-> e, pw |-> pw] ELSE Nothing]
    BY DEF Init
  <2>2. \A v \in Users : Last(v) = store[v] /\ Of(updates, v) = {}
    BY <1>1, <1>2 DEF QP!Init, Last, Of
  <2>3. [email |-> e, pw |-> pw] # Nothing
    BY AccountAssumption DEF Profiles
  <2>4. SUFFICES ASSUME NEW v \in Users, accounts[v] # Nothing PROVE Aimed(v)
    BY DEF AllAimed
  <2>5. v = u
    BY <2>1, <2>4
  <2>6. /\ Last(v) = [email |-> e, pw |-> pw]
        /\ accounts[v].email = e /\ accounts[v].pw.pw = pw
    BY <2>1, <2>2, <2>5 DEF Typed
  <2>7. QED
    BY <2>2, <2>3, <2>6 DEF Aimed, Aim
<1>5. QED
  BY <1>1, <1>3, <1>4, AccountInit DEF RecordInv, SigningUp

-----------------------------------------------------------------------------
(* The theorems. *)

\* The invariant of the account holds throughout.
THEOREM AccountInvariant == Spec => []IInv
BY AccountInit, AccountStep, PTL DEF Spec

\* The cached email that decides whether an Update asks for a change of the
\* email is the account's (UserViewController.swift:84), for any number of
\* accounts, sign-ups, sessions and updates, however they are answered.
THEOREM CachedMailFresh == Spec => []MailFresh
<1>1. IInv => MailFresh
  BY DEF IInv, Own, MailFresh
<1>2. QED
  BY <1>1, AccountInvariant, PTL

\* When nothing is under way for an account, its record holds what signs in,
\* unless a put or an update failed or raced (see ProfileMatchesAccount): for
\* any number of accounts, sign-ups, sessions, updates and lost connections.
THEOREM ProfileIsAccount == Spec => []ProfileMatchesAccount
<1>1. RecordInv => ProfileMatchesAccount
  <2>1. SUFFICES ASSUME RecordInv, NEW u \in Users,
                        ChangesOf(u) = {}, ~Q!Pending(phone, u), ~Excused(u)
                 PROVE  Matches(u)
    BY DEF ProfileMatchesAccount
  <2>2. /\ Of(updates, u) = {} /\ ~QP!Pending(phone, u) /\ u \notin QP!spoiled
        /\ accounts[u] # Nothing /\ u \notin unfinished \cup astray
    BY <2>1 DEF ChangesOf, Of, Excused, Q!Pending, QP!Pending, Q!spoiled, QP!spoiled
  <2>3. store[u] = Last(u)
    <3>1. CASE writers[u] = {}
      BY <2>1, <3>1 DEF RecordInv, PipeInv, Unwritten, Last
    <3>2. CASE writers[u] # {}
      <4>1. PICK d \in writers[u] : QP!Unsettled(d, u) \/ store[u] = lastPut[d][u]
        BY <2>1, <2>2, <3>2 DEF RecordInv, PipeInv, QP!Inv, QP!Settled
      <4>2. d = phone
        BY <2>1, <4>1 DEF RecordInv, PipeInv, QP!TypeOK
      <4>3. ~QP!Unsettled(phone, u)
        BY <2>1, <2>2 DEF RecordInv, PipeInv, QP!Inv, QP!DeviceInv, QP!Sent, QP!Unsettled, QP!Pending
      <4>4. QED
        BY <4>1, <4>2, <4>3 DEF Last
    <3>3. QED
      BY <3>1, <3>2
  <2>4. Aim(updates, u, Last(u), accounts[u])
    BY <2>1, <2>2 DEF RecordInv, AllAimed, Aimed
  <2>5. QED
    BY <2>2, <2>3, <2>4 DEF Aim, Matches
<1>2. QED
  BY <1>1, RecordInit, RecordStep, PTL DEF Spec
=============================================================================

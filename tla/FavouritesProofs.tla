-------------------------- MODULE FavouritesProofs --------------------------
(* Theorems about Favourites, for any accounts, products and bounds.       *)
EXTENDS Favourites, FiniteSetTheorems, TLAPS

-----------------------------------------------------------------------------
(* Helpers. *)

\* SetToSeq lists every element of a finite set, and nothing else.
LEMMA Listed ==
    ASSUME NEW S, IsFiniteSet(S)
    PROVE  /\ K!SetToSeq(S) \in Seq(S)
           /\ \A x \in S : \E i \in 1..Len(K!SetToSeq(S)) : K!SetToSeq(S)[i] = x
<1> DEFINE n == Cardinality(S)
           Good(f) == f \in [1..n -> S] /\ K!IsInjective(f)
<1>1. n \in Nat /\ ExistsBijection(1..n, S)
  BY FS_CardinalityType
<1>2. \E f : Good(f)
  BY <1>1 DEF ExistsBijection, Bijection, Injection, Surjection, IsInjective, K!IsInjective
<1>3. K!SetToSeq(S) = CHOOSE f : Good(f)
  <2>1. K!Cardinality(S) = Cardinality(S)
    BY DEF K!Cardinality, Cardinality
  <2>2. QED
    BY <2>1 DEF K!SetToSeq
<1>4. Good(K!SetToSeq(S))
  BY <1>2, <1>3
<1> DEFINE f == K!SetToSeq(S)
<1>5. f \in [1..n -> S] /\ \A i, j \in 1..n : f[i] = f[j] => i = j
  BY <1>4 DEF K!IsInjective
<1> HIDE DEF f, n
<1>6. f \in Injection(1..n, S)
  BY <1>5 DEF Injection, IsInjective
<1>7. f \in Surjection(1..n, S)
  <2>1. IsFiniteSet(1..n) /\ Cardinality(1..n) = n
    BY <1>1, FS_Interval
  <2>2. QED
    BY <1>6, <2>1, FS_Injection DEF n
<1>8. \A x \in S : \E i \in 1..n : f[i] = x
  BY <1>7 DEF Surjection
<1>9. f \in Seq(S) /\ Len(f) = n
  BY <1>1, <1>5
<1>10. QED
  BY <1>8, <1>9 DEF f

-----------------------------------------------------------------------------
(* What is on its way from the database to the service's list. *)

\* A call of observe for u has not been carried out.
Waiting(u) == \E i \in 1..Len(registering) : registering[i] = u

\* The event of u's favourite p is in the queue.
Coming(u, p) == \E i \in 1..Len(mainQueue) : mainQueue[i].ref = u /\ mainQueue[i].key = p

\* The service hears, or will hear, of favourites of u that appear.
Watched(u) == observers[u] > 0 \/ Waiting(u)

\* The favourite p of u is not stored, or its event is still to come.
OnTheWay(u, p) == cached[u][p] = Absent \/ Waiting(u) \/ Coming(u, p)

\* observe keeps what is on its way and watches r.
LEMMA ObserveFacts ==
    ASSUME K!TypeOK, NEW r \in Users, K!Observe(r)
    PROVE  /\ K!TypeOK' /\ Watched(r)' /\ \A p \in Products : OnTheWay(r, p)'
           /\ UNCHANGED cached
<1>1. registering \in Seq(Users) /\ registering' = Append(registering, r)
  BY DEF K!TypeOK, K!Observe
<1>2. registering' \in Seq(Users) /\ Waiting(r)'
  BY <1>1 DEF Waiting
<1>3. QED
  BY <1>2 DEF K!TypeOK, K!Observe, Watched, OnTheWay

\* A registration raises the events of all children of its location.
LEMMA RegisterFacts ==
    ASSUME K!TypeOK, K!AddEventRegistration, NEW u \in Users
    PROVE  /\ K!TypeOK'
           /\ Watched(u) => Watched(u)'
           /\ \A p \in Products : OnTheWay(u, p) => OnTheWay(u, p)'
           /\ UNCHANGED cached
<1> DEFINE r == Head(registering)
           events == {K!ChildAdded(r, k, cached[r][k]) : k \in K!Children(r)}
           initial == K!SetToSeq(events)
<1>1. /\ registering # <<>> /\ registering \in Seq(Users) /\ mainQueue \in Seq(K!Event)
      /\ mainQueue' = mainQueue \o initial
      /\ observers' = [observers EXCEPT ![r] = IF @ < MaxObservers THEN @ + 1 ELSE @]
      /\ registering' = Tail(registering)
      /\ UNCHANGED <<cached, changes>>
  BY DEF K!TypeOK, K!AddEventRegistration
<1>2. /\ r \in Users /\ r = registering[1] /\ registering' \in Seq(Users)
      /\ Len(registering') = Len(registering) - 1
      /\ \A i \in 1..Len(registering') : registering'[i] = registering[i + 1]
  BY <1>1
<1>3. events \subseteq K!Event /\ IsFiniteSet(events)
  <2>1. IsFiniteSet(K!Children(r))
    BY FavouritesAssumption, FS_Subset DEF K!Children
  <2>2. IsFiniteSet(events)
    <3> DEFINE g == [k \in K!Children(r) |-> K!ChildAdded(r, k, cached[r][k])]
    <3>1. g \in Surjection(K!Children(r), events)
      BY DEF Surjection
    <3>2. QED
      BY <2>1, <3>1, FS_Surjection
  <2>3. \A k \in K!Children(r) : cached[r][k] = Stored
    BY <1>2 DEF K!TypeOK, K!Children
  <2>4. QED
    BY <1>2, <2>2, <2>3 DEF K!Event, K!ChildAdded, K!Children
<1>4. initial \in Seq(events) /\ \A x \in events : \E i \in 1..Len(initial) : initial[i] = x
  BY <1>3, Listed
<1>5. initial \in Seq(K!Event) /\ Len(initial) \in Nat
  BY <1>3, <1>4
<1> HIDE DEF initial, events, r
<1>6. /\ mainQueue' \in Seq(K!Event)
      /\ Len(mainQueue') = Len(mainQueue) + Len(initial)
      /\ \A i \in 1..Len(mainQueue) : mainQueue'[i] = mainQueue[i]
      /\ \A i \in 1..Len(initial) : mainQueue'[Len(mainQueue) + i] = initial[i]
  BY <1>1, <1>5
<1>7. observers' \in [Users -> 0..MaxObservers] /\ observers'[r] > 0
      /\ \A v \in Users : observers'[v] >= observers[v]
  BY <1>1, <1>2, FavouritesAssumption DEF K!TypeOK
<1>8. K!TypeOK'
  BY <1>1, <1>2, <1>6, <1>7 DEF K!TypeOK
<1>9. Waiting(u) => u = r \/ Waiting(u)'
  <2>1. ASSUME NEW i \in 1..Len(registering), registering[i] = u, i # 1
        PROVE  Waiting(u)'
    <3>1. i - 1 \in 1..Len(registering') /\ registering'[i - 1] = u
      BY <1>1, <1>2, <2>1
    <3>2. QED
      BY <3>1 DEF Waiting
  <2>2. QED
    BY <1>2, <2>1 DEF Waiting
<1>10. Watched(u) => Watched(u)'
  BY <1>7, <1>9 DEF Watched, K!TypeOK
<1>11. ASSUME NEW p \in Products, OnTheWay(u, p)
       PROVE  OnTheWay(u, p)'
  <2>1. Coming(u, p) => Coming(u, p)'
    BY <1>1, <1>5, <1>6 DEF Coming
  <2>2. ASSUME u = r, cached[u][p] # Absent
        PROVE  Coming(u, p)'
    <3>1. K!ChildAdded(r, p, cached[r][p]) \in events
      BY <2>2 DEF events, K!Children
    <3>2. PICK i \in 1..Len(initial) : initial[i] = K!ChildAdded(r, p, cached[r][p])
      BY <1>4, <3>1
    <3>3. Len(mainQueue) + i \in 1..Len(mainQueue')
      BY <1>1, <1>5, <1>6
    <3>4. mainQueue'[Len(mainQueue) + i].ref = u /\ mainQueue'[Len(mainQueue) + i].key = p
      BY <1>6, <2>2, <3>2 DEF K!ChildAdded
    <3>5. QED
      BY <3>3, <3>4 DEF Coming
  <2>3. QED
    BY <1>1, <1>9, <1>11, <2>1, <2>2 DEF OnTheWay
<1>12. QED
  BY <1>1, <1>8, <1>10, <1>11

\* A change of a watched location is heard of.
LEMMA ChangeFacts ==
    ASSUME K!TypeOK, NEW r \in Users, NEW k \in Products, NEW v \in {Stored, Absent},
           K!Change(r, k, v), NEW u \in Users
    PROVE  /\ K!TypeOK'
           /\ Watched(u) => Watched(u)' /\ \A p \in Products : OnTheWay(u, p) => OnTheWay(u, p)'
           /\ cached'[r][k] = v
<1> DEFINE events == [i \in 1..observers[r] |-> K!ChildAdded(r, k, v)]
<1>1. /\ changes' \in 0..MaxChanges
      /\ cached' = [cached EXCEPT ![r][k] = v]
      /\ mainQueue' = IF cached[r][k] = Absent THEN mainQueue \o events ELSE mainQueue
      /\ UNCHANGED <<observers, registering>>
      /\ cached[r][k] # v
  <2>1. changes \in 0..MaxChanges /\ changes < MaxChanges /\ changes' = changes + 1
    BY DEF K!TypeOK, K!Change
  <2>2. changes' \in 0..MaxChanges
    BY <2>1, FavouritesAssumption
  <2>3. QED
    BY <2>2 DEF K!Change
<1>2. observers[r] \in Nat /\ mainQueue \in Seq(K!Event) /\ cached' \in [Users -> [Products -> {Stored} \cup {Absent}]]
  BY <1>1 DEF K!TypeOK
<1>3. cached[r][k] = Absent => events \in Seq(K!Event) /\ Len(events) = observers[r]
  <2>1. cached[r][k] = Absent => K!ChildAdded(r, k, v) \in K!Event
    BY <1>1 DEF K!Event, K!ChildAdded
  <2>2. QED
    BY <1>2, <2>1, SMTT(30)
<1>4. \A i \in 1..observers[r] : events[i].ref = r /\ events[i].key = k
  BY DEF K!ChildAdded
<1> HIDE DEF events
<1>5. /\ mainQueue' \in Seq(K!Event)
      /\ \A i \in 1..Len(mainQueue) : i \in 1..Len(mainQueue') /\ mainQueue'[i] = mainQueue[i]
      /\ cached[r][k] = Absent => \A i \in 1..observers[r] :
            Len(mainQueue) + i \in 1..Len(mainQueue') /\ mainQueue'[Len(mainQueue) + i] = events[i]
  BY <1>1, <1>2, <1>3
<1>6. K!TypeOK'
  BY <1>1, <1>2, <1>5 DEF K!TypeOK
<1>7. Watched(u)' <=> Watched(u)
  BY <1>1 DEF Watched, Waiting
<1>8. ASSUME Watched(u), NEW p \in Products, OnTheWay(u, p)
      PROVE  OnTheWay(u, p)'
  <2>1. Coming(u, p) => Coming(u, p)'
    BY <1>5 DEF Coming
  <2>2. Waiting(u) => Waiting(u)'
    BY <1>1 DEF Waiting
  <2>3. ASSUME cached[u][p] = Absent, ~Waiting(u), cached'[u][p] # Absent
        PROVE  Coming(u, p)'
    <3>1. u = r /\ p = k
      BY <1>1, <2>3 DEF K!TypeOK
    <3>2. observers[r] > 0
      BY <1>8, <2>3, <3>1 DEF Watched
    <3>3. 1 \in 1..observers[r]
      BY <1>2, <3>2
    <3>4. /\ Len(mainQueue) + 1 \in 1..Len(mainQueue')
          /\ mainQueue'[Len(mainQueue) + 1].ref = u /\ mainQueue'[Len(mainQueue) + 1].key = p
      BY <1>4, <1>5, <2>3, <3>1, <3>3
    <3>5. QED
      BY <3>4 DEF Coming
  <2>4. QED
    BY <1>8, <2>1, <2>2, <2>3 DEF OnTheWay
<1>9. cached'[r][k] = v
  BY <1>1 DEF K!TypeOK
<1>10. QED
  BY <1>6, <1>7, <1>8, <1>9

\* A write of this device is a change, or none.
LEMMA WriteFacts ==
    ASSUME K!TypeOK, NEW r \in Users, NEW k \in Products, NEW v \in {Stored, Absent},
           Write(r, k, v)
    PROVE  /\ K!TypeOK'
           /\ Watched(r) => Watched(r)' /\ \A p \in Products : OnTheWay(r, p) => OnTheWay(r, p)'
           /\ cached'[r][k] = v
<1>1. CASE cached[r][k] = v
  <2>1. UNCHANGED listenerVars /\ cached'[r][k] = v
    BY <1>1 DEF Write, listenerVars
  <2>2. QED
    BY <2>1 DEF listenerVars, K!TypeOK, Watched, Waiting, OnTheWay, Coming
<1>2. CASE cached[r][k] # v
  BY <1>2, ChangeFacts DEF Write
<1>3. QED
  BY <1>1, <1>2

\* The oldest event leaves the queue, and no other.
LEMMA DeliverFacts ==
    ASSUME K!TypeOK, K!Deliver, NEW u \in Users
    PROVE  /\ K!TypeOK' /\ K!NextEvent.key \in Products
           /\ Watched(u) => Watched(u)'
           /\ \A p \in Products : OnTheWay(u, p) => OnTheWay(u, p)' \/ p = K!NextEvent.key
<1>1. /\ mainQueue # <<>> /\ mainQueue \in Seq(K!Event) /\ mainQueue' = Tail(mainQueue)
      /\ UNCHANGED <<cached, observers, registering, changes>>
  BY DEF K!TypeOK, K!Deliver
<1>2. /\ mainQueue' \in Seq(K!Event) /\ Len(mainQueue') = Len(mainQueue) - 1
      /\ \A i \in 1..Len(mainQueue') : mainQueue'[i] = mainQueue[i + 1]
      /\ mainQueue[1] \in K!Event
  BY <1>1
<1>3. K!TypeOK' /\ K!NextEvent.key \in Products
  BY <1>1, <1>2 DEF K!TypeOK, K!NextEvent, K!Event
<1>4. Watched(u) => Watched(u)'
  BY <1>1 DEF Watched, Waiting
<1>5. ASSUME NEW p \in Products, Coming(u, p), p # K!NextEvent.key
      PROVE  Coming(u, p)'
  <2>1. PICK i \in 1..Len(mainQueue) : mainQueue[i].ref = u /\ mainQueue[i].key = p
    BY <1>5 DEF Coming
  <2>2. i - 1 \in 1..Len(mainQueue') /\ mainQueue'[i - 1] = mainQueue[i]
    BY <1>1, <1>2, <1>5, <2>1 DEF K!NextEvent
  <2>3. QED
    BY <2>1, <2>2 DEF Coming
<1>6. QED
  BY <1>1, <1>3, <1>4, <1>5 DEF OnTheWay, Waiting

\* Revoking a listen leaves the other accounts as they are.
LEMMA RevokeFacts ==
    ASSUME K!TypeOK, NEW r \in Users, K!Revoke(r)
    PROVE  /\ K!TypeOK'
           /\ \A u \in Users \ {r} :
                /\ Watched(u) => Watched(u)'
                /\ \A p \in Products : OnTheWay(u, p) => OnTheWay(u, p)'
<1>1. /\ observers' = [observers EXCEPT ![r] = 0]
      /\ cached' = [cached EXCEPT ![r] = [k \in Products |-> Absent]]
      /\ UNCHANGED <<registering, mainQueue, changes>>
  BY DEF K!Revoke
<1>2. K!TypeOK'
  <2>1. 0 \in 0..MaxObservers
    BY FavouritesAssumption
  <2>2. QED
    BY <1>1, <2>1 DEF K!TypeOK
<1>3. QED
  BY <1>1, <1>2 DEF Watched, Waiting, OnTheWay, Coming, K!TypeOK

\* Steps that leave the listener alone keep what is on its way.
LEMMA IdleFacts ==
    ASSUME K!TypeOK, UNCHANGED listenerVars, NEW u
    PROVE  /\ K!TypeOK'
           /\ Watched(u) => Watched(u)'
           /\ \A p \in Products : OnTheWay(u, p) => OnTheWay(u, p)'
BY DEF listenerVars, K!TypeOK, Watched, Waiting, OnTheWay, Coming

-----------------------------------------------------------------------------
(* The invariant: the service watches the account a grid was loaded for,   *)
(* and what it has not listed is not stored or still on its way.           *)

ListInv ==
    loaded => /\ uid \in Users /\ Watched(uid)
              /\ \A p \in Products : p \in favourites \/ OnTheWay(uid, p)

IInv == TypeOK /\ ListInv /\ HeartNeverOverstates

LEMMA InitInv == Init => IInv
<1> SUFFICES ASSUME Init PROVE IInv
  OBVIOUS
<1>1. K!TypeOK
  <2>1. 0 \in 0..MaxObservers /\ 0 \in 0..MaxChanges
    BY FavouritesAssumption
  <2>2. <<>> \in Seq(Users) /\ <<>> \in Seq(K!Event)
    OBVIOUS
  <2>3. QED
    BY <2>1, <2>2 DEF Init, K!Init, K!TypeOK
<1>2. QED
  BY <1>1 DEF Init, IInv, TypeOK, Closed, ListInv, HeartNeverOverstates

\* The steps that change neither the account, the list nor the load.
LEMMA SameList ==
    ASSUME IInv, UNCHANGED <<uid, favourites, loaded>>,
           NEW u, u = uid,
           loaded => Watched(u)' /\ \A p \in Products : OnTheWay(u, p) => OnTheWay(u, p)'
    PROVE  ListInv'
<1>1. CASE loaded
  <2>1. u = uid' /\ uid \in Users /\ \A p \in Products : p \in favourites \/ OnTheWay(u, p)
    BY <1>1 DEF IInv, ListInv, OnTheWay, Waiting, Coming
  <2>2. Watched(uid)'
    BY <1>1, <2>1 DEF Watched, Waiting
  <2>3. ASSUME NEW p \in Products
        PROVE  (p \in favourites \/ OnTheWay(uid, p))'
    BY <1>1, <2>1 DEF OnTheWay, Waiting, Coming
  <2>4. QED
    BY <2>1, <2>2, <2>3 DEF ListInv
<1>2. CASE ~loaded
  BY <1>2 DEF ListInv
<1>3. QED
  BY <1>1, <1>2

\* The account a grid was loaded for is watched.
LEMMA LoadedWatched == ASSUME IInv, loaded, NEW u, u = uid PROVE u \in Users /\ Watched(u)
BY DEF IInv, ListInv, Watched, Waiting

LEMMA ChildAddedInv == IInv /\ childAdded => IInv'
<1> SUFFICES ASSUME IInv, childAdded PROVE IInv'
  OBVIOUS
<1>1. /\ K!Deliver /\ K!TypeOK /\ favourites' = favourites \cup {K!NextEvent.key}
      /\ UNCHANGED <<uid, hearts, detail, loaded, disturbed>>
  BY DEF childAdded, IInv, TypeOK, history
<1>2. K!TypeOK' /\ (Users # {} => K!NextEvent.key \in Products)
  <2>1. CASE Users = {}
    BY <1>1, <2>1 DEF K!Deliver, K!TypeOK, K!Event
  <2>2. CASE Users # {}
    BY <1>1, <2>2, DeliverFacts
  <2>3. QED
    BY <2>1, <2>2
<1>3. K!NextEvent.key \in Products
  <2>1. mainQueue # <<>> /\ mainQueue \in Seq(K!Event)
    BY <1>1 DEF K!Deliver, K!TypeOK
  <2>2. mainQueue[1] \in K!Event
    BY <2>1
  <2>3. QED
    BY <2>2 DEF K!Event, K!NextEvent
<1>4. TypeOK'
  BY <1>1, <1>2, <1>3 DEF IInv, TypeOK
<1>5. ListInv'
  <2> SUFFICES ASSUME loaded' PROVE ListInv'
    BY DEF ListInv
  <2>1. loaded /\ uid \in Users /\ Watched(uid)
    BY <1>1 DEF IInv, ListInv
  <2>2. Watched(uid) => Watched(uid)'
    BY <1>1, <2>1, DeliverFacts DEF Watched, Waiting
  <2>3. ASSUME NEW p \in Products
        PROVE  p \in favourites' \/ OnTheWay(uid, p)'
    <3>1. p \in favourites \/ OnTheWay(uid, p)
      BY <2>1 DEF IInv, ListInv
    <3>2. OnTheWay(uid, p) => OnTheWay(uid, p)' \/ p = K!NextEvent.key
      BY <1>1, <2>1, DeliverFacts DEF OnTheWay, Waiting, Coming
    <3>3. QED
      BY <1>1, <3>1, <3>2
  <2>4. QED
    BY <1>1, <2>1, <2>2, <2>3 DEF ListInv
<1>6. HeartNeverOverstates'
  BY <1>1 DEF IInv, HeartNeverOverstates
<1>7. QED
  BY <1>4, <1>5, <1>6 DEF IInv

LEMMA LogoutInv == IInv /\ logoutUser => IInv'
BY IdleFacts DEF IInv, TypeOK, logoutUser, ListInv, HeartNeverOverstates, listenerVars, K!TypeOK

LEMMA LoadGridInv == IInv /\ LoadGrid => IInv'
<1> SUFFICES ASSUME IInv, LoadGrid PROVE IInv'
  OBVIOUS
<1>1. /\ getCurrentUser /\ K!TypeOK /\ hearts' = [p \in Products |-> FALSE]
      /\ loaded' = (uid # NoUser) /\ UNCHANGED <<uid, favourites, detail, disturbed>>
  BY DEF LoadGrid, IInv, TypeOK
<1>2. HeartNeverOverstates'
  BY <1>1 DEF HeartNeverOverstates
<1>3. CASE uid = NoUser
  <2>1. K!TypeOK' /\ ~loaded'
    BY <1>1, <1>3 DEF getCurrentUser, listenerVars, K!TypeOK
  <2>2. QED
    BY <1>1, <1>2, <2>1 DEF IInv, TypeOK, ListInv
<1>4. CASE uid # NoUser
  <2>1. uid \in Users /\ K!Observe(uid)
    BY <1>1, <1>4 DEF getCurrentUser, IInv, TypeOK
  <2>2. K!TypeOK' /\ Watched(uid)' /\ \A p \in Products : OnTheWay(uid, p)'
    BY <1>1, <2>1, ObserveFacts DEF Watched, OnTheWay, Waiting, Coming
  <2>3. QED
    BY <1>1, <1>2, <2>1, <2>2 DEF IInv, TypeOK, ListInv
<1>5. QED
  BY <1>3, <1>4

LEMMA FavouriteButtonInv == IInv /\ FavouriteButton => IInv'
<1> SUFFICES ASSUME IInv, FavouriteButton PROVE IInv'
  OBVIOUS
<1>1. PICK p \in detail.on :
        /\ detail' = [detail EXCEPT !.selected = ~@, !.filled = detail.selected]
        /\ storeFavourite(p)
        /\ UNCHANGED <<uid, favourites, hearts, history>>
  BY DEF FavouriteButton
<1>2. p \in Products /\ K!TypeOK
  BY DEF IInv, TypeOK
<1>3. PICK u \in Users \cup {NoUser} : u = uid
  BY DEF IInv, TypeOK
<1>4. /\ K!TypeOK'
      /\ loaded => Watched(u)' /\ \A q \in Products : OnTheWay(u, q) => OnTheWay(u, q)'
  <2>1. CASE detail.selected /\ u # NoUser
    <3>1. u \in Users /\ Write(u, p, Stored)
      BY <1>1, <1>3, <2>1 DEF storeFavourite, Write, K!Change
    <3>2. QED
      BY <1>2, <1>3, <3>1, WriteFacts, LoadedWatched
  <2>2. CASE ~(detail.selected /\ u # NoUser)
    <3>1. UNCHANGED listenerVars
      BY <1>1, <1>3, <2>2 DEF storeFavourite
    <3>2. QED
      BY <1>2, <1>3, <3>1, IdleFacts, LoadedWatched
  <2>3. QED
    BY <2>1, <2>2
<1>5. TypeOK'
  BY <1>1, <1>4 DEF IInv, TypeOK, history
<1>6. ListInv'
  BY <1>1, <1>3, <1>4, SameList DEF history
<1>7. HeartNeverOverstates'
  BY <1>1 DEF IInv, HeartNeverOverstates, history
<1>8. QED
  BY <1>5, <1>6, <1>7 DEF IInv

\* Steps of the screens only, which draw hearts from the list or not at all.
LEMMA ScreenInv ==
    ASSUME IInv, UNCHANGED <<listenerVars, uid, favourites, loaded>>, disturbed' \in BOOLEAN,
           hearts' = hearts \/ \E p \in Products : hearts' = [hearts EXCEPT ![p] = p \in favourites],
           detail' \in [on : SUBSET Products, selected : BOOLEAN, filled : BOOLEAN]
    PROVE  IInv'
<1>1. K!TypeOK
  BY DEF IInv, TypeOK
<1>2. PICK u : u = uid
  OBVIOUS
<1>3. K!TypeOK' /\ (loaded => Watched(u)' /\ \A q \in Products : OnTheWay(u, q) => OnTheWay(u, q)')
  BY <1>1, <1>2, IdleFacts, LoadedWatched
<1>4. hearts' \in [Products -> BOOLEAN]
  <2>1. hearts \in [Products -> BOOLEAN]
    BY DEF IInv, TypeOK
  <2>2. ASSUME NEW p \in Products, hearts' = [hearts EXCEPT ![p] = p \in favourites]
        PROVE  hearts' \in [Products -> BOOLEAN]
    <3>1. (p \in favourites) \in BOOLEAN
      OBVIOUS
    <3>2. QED
      BY <2>1, <2>2, <3>1
  <2>3. QED
    BY <2>1, <2>2
<1>5. TypeOK'
  BY <1>3, <1>4 DEF IInv, TypeOK
<1>6. ListInv'
  BY <1>2, <1>3, SameList
<1>7. HeartNeverOverstates'
  BY DEF IInv, TypeOK, HeartNeverOverstates
<1>8. QED
  BY <1>5, <1>6, <1>7 DEF IInv

LEMMA CloseDetailInv == IInv /\ CloseDetail => IInv'
BY ScreenInv DEF CloseDetail, Closed, history, IInv, TypeOK

LEMMA ConfigureCellInv == ASSUME IInv, NEW p \in Products, configureCell(p) PROVE IInv'
<1>1. /\ detail' \in [on : SUBSET Products, selected : BOOLEAN, filled : BOOLEAN]
      /\ disturbed' \in BOOLEAN
  BY DEF configureCell, history, IInv, TypeOK
<1>2. QED
  BY <1>1, ScreenInv DEF configureCell, history

LEMMA OpenDetailInv ==
    ASSUME IInv, NEW p \in Products, NEW handed \in BOOLEAN, OpenDetail(p, handed),
           disturbed' \in BOOLEAN
    PROVE  IInv'
<1>1. detail' \in [on : SUBSET Products, selected : BOOLEAN, filled : BOOLEAN]
  BY DEF OpenDetail
<1>2. QED
  BY <1>1, ScreenInv DEF OpenDetail

LEMMA ProductFavoritedInv ==
    ASSUME IInv, NEW p \in Products, productFavorited(p)
    PROVE  IInv'
<1>1. /\ favoriteSelected(p) /\ uid # NoUser
      /\ hearts' = [hearts EXCEPT ![p] = p \in favourites']
      /\ disturbed' = (disturbed \/ ~K!Quiet \/ ~loaded)
      /\ UNCHANGED <<uid, detail, loaded>>
  BY DEF productFavorited, reloadItems
<1>2. PICK u \in Users : u = uid
  BY <1>1 DEF IInv, TypeOK
<1>3. PICK v \in {Stored, Absent} :
        /\ Write(u, p, v)
        /\ favourites' = IF v = Absent THEN favourites \ {p} ELSE favourites \cup {p}
  <2>1. CASE p \in favourites
    BY <1>1, <1>2, <2>1 DEF favoriteSelected, Write, K!Change, Stored, Absent
  <2>2. CASE p \notin favourites
    BY <1>1, <1>2, <2>2 DEF favoriteSelected, Write, K!Change, Stored, Absent
  <2>3. QED
    BY <2>1, <2>2
<1>4. /\ K!TypeOK' /\ cached'[u][p] = v
      /\ loaded => Watched(u)' /\ \A q \in Products : OnTheWay(u, q) => OnTheWay(u, q)'
  <2>1. K!TypeOK
    BY DEF IInv, TypeOK
  <2>2. QED
    BY <1>2, <1>3, <2>1, WriteFacts, LoadedWatched
<1>5. TypeOK'
  BY <1>1, <1>3, <1>4 DEF IInv, TypeOK
<1>6. ListInv'
  <2> SUFFICES ASSUME loaded' PROVE ListInv'
    BY DEF ListInv
  <2>1. loaded /\ u = uid' /\ \A q \in Products : q \in favourites \/ OnTheWay(u, q)
    BY <1>1, <1>2 DEF IInv, ListInv, OnTheWay, Waiting, Coming
  <2>2. ASSUME NEW q \in Products
        PROVE  q \in favourites' \/ OnTheWay(u, q)'
    <3>1. CASE q = p /\ v = Absent
      BY <1>4, <3>1 DEF OnTheWay
    <3>2. CASE ~(q = p /\ v = Absent)
      BY <1>3, <1>4, <2>1, <3>2
    <3>3. QED
      BY <3>1, <3>2
  <2>3. Watched(uid)'
    BY <1>4, <2>1 DEF Watched, Waiting
  <2>4. \A q \in Products : (q \in favourites \/ OnTheWay(uid, q))'
    BY <2>1, <2>2 DEF OnTheWay, Waiting, Coming
  <2>5. QED
    BY <2>1, <2>3, <2>4 DEF ListInv
<1>7. HeartNeverOverstates'
  BY <1>1, <1>3 DEF IInv, TypeOK, HeartNeverOverstates
<1>8. QED
  BY <1>5, <1>6, <1>7 DEF IInv

LEMMA SignInInv == ASSUME IInv, NEW u \in Users, SignIn(u) PROVE IInv'
<1>1. ~loaded'
  BY FavouritesAssumption DEF SignIn, IInv, ListInv
<1>2. K!TypeOK'
  BY DEF SignIn, IInv, TypeOK, listenerVars, K!TypeOK
<1>3. TypeOK'
  BY <1>2 DEF SignIn, IInv, TypeOK
<1>4. QED
  BY <1>1, <1>3 DEF IInv, ListInv, HeartNeverOverstates

LEMMA ServerNewsInv ==
    ASSUME IInv, NEW r \in Users, NEW p \in Products, NEW v \in {Stored, Absent},
           ServerNews(r, p, v)
    PROVE  IInv'
<1>1. K!Change(r, p, v) /\ K!TypeOK
  BY DEF ServerNews, IInv, TypeOK
<1>2. PICK u \in Users \cup {NoUser} : u = uid
  BY DEF IInv, TypeOK
<1>3. K!TypeOK'
  BY <1>1, ChangeFacts
<1>4. loaded => Watched(u)' /\ \A q \in Products : OnTheWay(u, q) => OnTheWay(u, q)'
  BY <1>1, <1>2, ChangeFacts, LoadedWatched
<1>5. TypeOK'
  BY <1>3 DEF ServerNews, IInv, TypeOK
<1>6. ListInv'
  BY <1>2, <1>4, SameList DEF ServerNews
<1>7. QED
  BY <1>5, <1>6 DEF IInv, ServerNews, HeartNeverOverstates

LEMMA RevokeInv == ASSUME IInv, NEW r \in Users, Revoke(r) PROVE IInv'
<1>1. K!Revoke(r) /\ K!TypeOK /\ loaded' = (loaded /\ r # uid)
  BY DEF Revoke, IInv, TypeOK
<1>2. PICK u \in Users \cup {NoUser} : u = uid
  BY DEF IInv, TypeOK
<1>3. K!TypeOK'
  BY <1>1, RevokeFacts
<1>4. TypeOK'
  BY <1>1, <1>3 DEF Revoke, IInv, TypeOK
<1>5. HeartNeverOverstates'
  BY <1>1 DEF Revoke, IInv, HeartNeverOverstates
<1>6. CASE r = uid
  <2>1. ~loaded'
    BY <1>1, <1>6
  <2>2. QED
    BY <1>4, <1>5, <2>1 DEF IInv, ListInv
<1>7. CASE r # uid
  <2>1. loaded => Watched(u)' /\ \A q \in Products : OnTheWay(u, q) => OnTheWay(u, q)'
    BY <1>1, <1>2, <1>7, RevokeFacts, LoadedWatched
  <2>2. UNCHANGED <<uid, favourites, loaded>>
    BY <1>1, <1>7 DEF Revoke, IInv, TypeOK
  <2>3. ListInv'
    BY <1>2, <2>1, <2>2, SameList
  <2>4. QED
    BY <1>4, <1>5, <2>3 DEF IInv
<1>8. QED
  BY <1>6, <1>7

LEMMA RegisterInv == IInv /\ Register => IInv'
<1> SUFFICES ASSUME IInv, Register PROVE IInv'
  OBVIOUS
<1>1. K!AddEventRegistration /\ K!TypeOK
  BY DEF Register, IInv, TypeOK
<1>2. PICK u \in Users \cup {NoUser} : u = uid
  BY DEF IInv, TypeOK
<1>3. K!TypeOK'
  <2>1. Users # {}
    BY <1>1 DEF K!AddEventRegistration, K!TypeOK
  <2>2. QED
    BY <1>1, <2>1, RegisterFacts
<1>4. loaded => Watched(u)' /\ \A q \in Products : OnTheWay(u, q) => OnTheWay(u, q)'
  BY <1>1, <1>2, RegisterFacts, LoadedWatched
<1>5. TypeOK'
  BY <1>3 DEF Register, IInv, TypeOK, history
<1>6. ListInv'
  BY <1>2, <1>4, SameList DEF Register, history
<1>7. QED
  BY <1>5, <1>6 DEF IInv, Register, HeartNeverOverstates, history

-----------------------------------------------------------------------------
(* The theorems. *)

LEMMA StepInv == IInv /\ [Next]_vars => IInv'
<1> SUFFICES ASSUME IInv, [Next]_vars PROVE IInv'
  OBVIOUS
<1>1. CASE childAdded
  BY <1>1, ChildAddedInv
<1>2. CASE logoutUser
  BY <1>2, LogoutInv
<1>3. CASE LoadGrid
  BY <1>3, LoadGridInv
<1>4. CASE FavouriteButton
  BY <1>4, FavouriteButtonInv
<1>5. CASE CloseDetail
  BY <1>5, CloseDetailInv
<1>6. CASE Register
  BY <1>6, RegisterInv
<1>7. ASSUME NEW p \in Products, configureCell(p) PROVE IInv'
  BY <1>7, ConfigureCellInv
<1>8. ASSUME NEW p \in Products, productFavorited(p) PROVE IInv'
  BY <1>8, ProductFavoritedInv
<1>9. ASSUME NEW p \in Products, OpenFromGrid(p) PROVE IInv'
  BY <1>9, OpenDetailInv DEF OpenFromGrid, IInv, TypeOK
<1>10. ASSUME NEW p \in Products, OpenFromFavourites(p) PROVE IInv'
  BY <1>10, OpenDetailInv DEF OpenFromFavourites
<1>11. ASSUME NEW p \in Products, NEW u \in Users, NEW v \in {Stored, Absent},
              ServerNews(u, p, v)
       PROVE  IInv'
  BY <1>11, ServerNewsInv
<1>12. ASSUME NEW u \in Users, SignIn(u) PROVE IInv'
  BY <1>12, SignInInv
<1>13. ASSUME NEW u \in Users, Revoke(u) PROVE IInv'
  BY <1>13, RevokeInv
<1>14. CASE UNCHANGED vars
  <2>1. /\ detail' \in [on : SUBSET Products, selected : BOOLEAN, filled : BOOLEAN]
        /\ disturbed' \in BOOLEAN
    BY <1>14 DEF vars, history, IInv, TypeOK
  <2>2. QED
    BY <1>14, <2>1, ScreenInv DEF vars, history
<1>15. QED
  BY <1>1, <1>2, <1>3, <1>4, <1>5, <1>6, <1>7, <1>8, <1>9, <1>10, <1>11, <1>12, <1>13, <1>14
  DEF Next

LEMMA AlwaysInv == Spec => []IInv
BY InitInv, StepInv, PTL DEF Spec

\* Every reachable state is of its type, for any accounts and products.
THEOREM FavouritesTypes == Spec => []TypeOK
<1>1. IInv => TypeOK
  BY DEF IInv
<1>2. QED
  BY <1>1, AlwaysInv, PTL

\* No stored favourite of the signed-in account is missing from the service's
\* list once the events have arrived: an account whose grid was loaded stays
\* watched (a revoked listen of its own unloads it), and what is stored and
\* not listed has its event in the queue or a registration to come.
THEOREM NoMiss == Spec => []NoneMissed
<1>1. IInv => NoneMissed
  BY DEF IInv, TypeOK, K!TypeOK, ListInv, NoneMissed, StoredFavourites, K!Children, K!Quiet,
         OnTheWay, Waiting, Coming
<1>2. QED
  BY <1>1, AlwaysInv, PTL

\* A filled heart of a loaded grid stands for a product of the list, however
\* long ago its cell was drawn: only a tap takes a product out of the list,
\* and it redraws that cell; signing out unloads the grid.
THEOREM HeartsHonest == Spec => []HeartNeverOverstates
<1>1. IInv => HeartNeverOverstates
  BY DEF IInv
<1>2. QED
  BY <1>1, AlwaysInv, PTL
-----------------------------------------------------------------------------
(* The list is not too long either, until something disturbs it.           *)

\* p is a stored favourite of the signed-in account.
Stands(p) == uid \in Users /\ cached[uid][p] = Stored

\* What is under way to the list is the signed-in account's, and stored.
OnlyOwn ==
    /\ \A i \in 1..Len(mainQueue) : mainQueue[i].ref = uid /\ Stands(mainQueue[i].key)
    /\ \A i \in 1..Len(registering) : registering[i] = uid

\* A detail screen shows one product; its filled heart is a stored favourite.
DetailExact ==
    /\ \A p, q \in detail.on : p = q
    /\ detail.filled => uid = NoUser \/ \A p \in detail.on : Stands(p)

ExactInv ==
    ~disturbed => OnlyOwn /\ (\A p \in favourites : Stands(p)) /\ DetailExact

LEMMA IdleOnly ==
    ASSUME UNCHANGED listenerVars, UNCHANGED uid
    PROVE  (OnlyOwn => OnlyOwn') /\ \A p \in Products : Stands(p) => Stands(p)'
BY DEF listenerVars, OnlyOwn, Stands

LEMMA ObserveOnly ==
    ASSUME K!TypeOK, uid \in Users, K!Observe(uid), UNCHANGED uid
    PROVE  (OnlyOwn => OnlyOwn') /\ \A p \in Products : Stands(p) => Stands(p)'
<1>1. /\ registering \in Seq(Users) /\ registering' = Append(registering, uid)
      /\ UNCHANGED <<cached, mainQueue>>
  BY DEF K!TypeOK, K!Observe
<1>2. \A i \in 1..Len(registering') :
        registering'[i] = uid \/ (i \in 1..Len(registering) /\ registering'[i] = registering[i])
  BY <1>1
<1>3. QED
  BY <1>1, <1>2 DEF OnlyOwn, Stands

\* Storing a favourite of the account; its event is the account's.
LEMMA StoreOnly ==
    ASSUME K!TypeOK, uid \in Users, NEW k \in Products, K!Change(uid, k, Stored), UNCHANGED uid
    PROVE  /\ OnlyOwn => OnlyOwn'
           /\ \A p \in Products : Stands(p) \/ p = k => Stands(p)'
<1> DEFINE events == [i \in 1..observers[uid] |-> K!ChildAdded(uid, k, Stored)]
<1>1. /\ cached' = [cached EXCEPT ![uid][k] = Stored]
      /\ mainQueue' = IF cached[uid][k] = Absent THEN mainQueue \o events ELSE mainQueue
      /\ UNCHANGED registering
  BY DEF K!Change
<1>2. /\ observers[uid] \in Nat /\ mainQueue \in Seq(K!Event)
      /\ cached \in [Users -> [Products -> {Stored, Absent}]]
      /\ \A i \in 1..Len(mainQueue) : mainQueue[i].key \in Products
  <2>1. \A e \in K!Event : e.key \in Products
    BY DEF K!Event
  <2>2. mainQueue \in Seq(K!Event) /\ observers \in [Users -> 0..MaxObservers]
    BY DEF K!TypeOK
  <2>3. observers[uid] \in 0..MaxObservers
    BY <2>2
  <2>4. cached \in [Users -> [Products -> {Stored, Absent}]]
    BY DEF K!TypeOK
  <2>5. QED
    BY <2>1, <2>2, <2>3, <2>4, FavouritesAssumption
<1>3. \A p \in Products : Stands(p) \/ p = k => Stands(p)'
  BY <1>1, <1>2 DEF Stands
<1>4. ASSUME OnlyOwn
      PROVE  OnlyOwn'
  <2>1. CASE cached[uid][k] # Absent
    BY <1>1, <1>2, <1>3, <1>4, <2>1 DEF OnlyOwn, Stands
  <2>2. CASE cached[uid][k] = Absent
    <3>1. /\ Len(events) = observers[uid]
          /\ \A i \in 1..observers[uid] : events[i].ref = uid /\ events[i].key = k
      BY <1>2 DEF K!ChildAdded
    <3>2. events \in Seq(K!Event)
      <4>1. K!ChildAdded(uid, k, Stored) \in K!Event
        BY DEF K!Event, K!ChildAdded
      <4>2. QED
        BY <1>2, <4>1
    <3> HIDE DEF events
    <3>3. mainQueue' = mainQueue \o events
      BY <1>1, <2>2
    <3>4. \A i \in 1..Len(mainQueue') :
            \/ i \in 1..Len(mainQueue) /\ mainQueue'[i] = mainQueue[i]
            \/ mainQueue'[i].ref = uid /\ mainQueue'[i].key = k
      <4>1. Len(mainQueue) \in Nat /\ Len(mainQueue') = Len(mainQueue) + observers[uid]
        <5>1. Len(mainQueue) \in Nat /\ Len(mainQueue \o events) = Len(mainQueue) + Len(events)
          BY <1>2, <3>2
        <5>2. QED
          BY <3>1, <3>3, <5>1
      <4>2. \A i \in 1..Len(mainQueue) : mainQueue'[i] = mainQueue[i]
        BY <1>2, <3>2, <3>3
      <4>3. \A i \in (Len(mainQueue) + 1)..(Len(mainQueue) + observers[uid]) :
                mainQueue'[i] = events[i - Len(mainQueue)] /\ i - Len(mainQueue) \in 1..observers[uid]
        BY <1>2, <3>1, <3>2, <3>3
      <4>4. \A i \in 1..(Len(mainQueue) + observers[uid]) :
                i \in 1..Len(mainQueue) \/ i \in (Len(mainQueue) + 1)..(Len(mainQueue) + observers[uid])
        BY <1>2, <4>1
      <4>5. QED
        BY <3>1, <4>1, <4>2, <4>3, <4>4
    <3>5. ASSUME NEW i \in 1..Len(mainQueue')
          PROVE  (mainQueue[i].ref = uid /\ Stands(mainQueue[i].key))'
      <4>1. CASE i \in 1..Len(mainQueue) /\ mainQueue'[i] = mainQueue[i]
        <5>1. PICK e \in Products : e = mainQueue[i].key
          BY <1>2, <4>1
        <5>2. mainQueue[i].ref = uid /\ Stands(e)
          BY <1>4, <4>1, <5>1 DEF OnlyOwn
        <5>3. Stands(e)'
          BY <1>3, <5>2
        <5>4. QED
          BY <4>1, <5>1, <5>2, <5>3 DEF Stands
      <4>2. CASE mainQueue'[i].ref = uid /\ mainQueue'[i].key = k
        BY <1>3, <4>2 DEF Stands
      <4>3. QED
        BY <3>4, <4>1, <4>2
    <3>6. QED
      BY <1>1, <1>4, <3>5 DEF OnlyOwn
  <2>3. QED
    BY <2>1, <2>2
<1>5. QED
  BY <1>3, <1>4

LEMMA WriteStored ==
    ASSUME K!TypeOK, uid \in Users, NEW k \in Products, Write(uid, k, Stored), UNCHANGED uid
    PROVE  /\ OnlyOwn => OnlyOwn'
           /\ \A p \in Products : Stands(p) \/ p = k => Stands(p)'
<1>1. CASE cached[uid][k] = Stored
  <2>1. UNCHANGED listenerVars /\ Stands(k)
    BY <1>1 DEF Write, Stands
  <2>2. QED
    BY <2>1, IdleOnly
<1>2. CASE cached[uid][k] # Stored
  BY <1>2, StoreOnly DEF Write
<1>3. QED
  BY <1>1, <1>2

\* Taking a favourite out while nothing is under way.
LEMMA WriteAbsent ==
    ASSUME K!TypeOK, K!Quiet, uid \in Users, NEW k \in Products, Write(uid, k, Absent),
           UNCHANGED uid
    PROVE  OnlyOwn' /\ \A p \in Products \ {k} : Stands(p) => Stands(p)'
<1>1. mainQueue' = <<>> /\ registering' = <<>>
  BY DEF Write, K!Change, listenerVars, K!Quiet
<1>2. cached' = [cached EXCEPT ![uid][k] = Absent] \/ cached' = cached
  BY DEF Write, K!Change, listenerVars
<1>3. \A p \in Products \ {k} : Stands(p) => Stands(p)'
  BY <1>2 DEF Stands, K!TypeOK
<1>4. QED
  BY <1>1, <1>3 DEF OnlyOwn

LEMMA DeliverOnly ==
    ASSUME K!TypeOK, K!Deliver, OnlyOwn, UNCHANGED uid
    PROVE  OnlyOwn' /\ Stands(K!NextEvent.key) /\ \A p : Stands(p)' <=> Stands(p)
<1>1. /\ mainQueue # <<>> /\ mainQueue \in Seq(K!Event) /\ mainQueue' = Tail(mainQueue)
      /\ UNCHANGED <<cached, registering>>
  BY DEF K!TypeOK, K!Deliver
<1>2. /\ \A i \in 1..Len(mainQueue') : i + 1 \in 1..Len(mainQueue) /\ mainQueue'[i] = mainQueue[i + 1]
      /\ 1 \in 1..Len(mainQueue)
  BY <1>1
<1>3. QED
  BY <1>1, <1>2 DEF OnlyOwn, Stands, K!NextEvent

LEMMA RegisterOnly ==
    ASSUME K!TypeOK, K!AddEventRegistration, OnlyOwn, UNCHANGED uid
    PROVE  OnlyOwn' /\ \A p : Stands(p)' <=> Stands(p)
<1> DEFINE r == Head(registering)
           events == {K!ChildAdded(r, k, cached[r][k]) : k \in K!Children(r)}
           initial == K!SetToSeq(events)
<1>1. /\ registering # <<>> /\ registering \in Seq(Users) /\ mainQueue \in Seq(K!Event)
      /\ mainQueue' = mainQueue \o initial /\ registering' = Tail(registering)
      /\ UNCHANGED cached
  BY DEF K!TypeOK, K!AddEventRegistration
<1>2. /\ r \in Users /\ r = registering[1] /\ 1 \in 1..Len(registering)
      /\ \A i \in 1..Len(registering') :
            i + 1 \in 1..Len(registering) /\ registering'[i] = registering[i + 1]
  BY <1>1
<1>3. r = uid /\ \A i \in 1..Len(registering') : registering'[i] = uid
  BY <1>2 DEF OnlyOwn
<1> HIDE DEF r
<1>4. events \subseteq K!Event /\ IsFiniteSet(events)
  <2>1. IsFiniteSet(K!Children(r))
    BY FavouritesAssumption, FS_Subset DEF K!Children
  <2> DEFINE g == [k \in K!Children(r) |-> K!ChildAdded(r, k, cached[r][k])]
  <2>2. g \in Surjection(K!Children(r), events)
    BY DEF Surjection
  <2>3. cached[r] \in [Products -> {Stored, Absent}]
    BY <1>2 DEF K!TypeOK
  <2>4. events \subseteq K!Event
    BY <1>2, <2>3 DEF K!ChildAdded, K!Children, K!Event
  <2>5. QED
    BY <2>1, <2>2, <2>4, FS_Surjection
<1>5. \A e \in events : e.ref = uid /\ Stands(e.key)
  <2>1. cached[r] \in [Products -> {Stored, Absent}]
    BY <1>2 DEF K!TypeOK
  <2>2. QED
    BY <1>2, <1>3, <2>1 DEF K!ChildAdded, K!Children, Stands
<1> HIDE DEF events
<1>6. initial \in Seq(events)
  BY <1>4, Listed
<1> HIDE DEF initial
<1>7. \A i \in 1..Len(mainQueue') :
        \/ i \in 1..Len(mainQueue) /\ mainQueue'[i] = mainQueue[i]
        \/ mainQueue'[i] \in events
  <2>1. /\ Len(mainQueue) \in Nat /\ Len(initial) \in Nat /\ initial \in Seq(K!Event)
        /\ Len(mainQueue') = Len(mainQueue) + Len(initial)
    BY <1>1, <1>4, <1>6
  <2>2. \A i \in 1..Len(mainQueue) : mainQueue'[i] = mainQueue[i]
    BY <1>1, <2>1
  <2>3. \A i \in (Len(mainQueue) + 1)..(Len(mainQueue) + Len(initial)) :
            mainQueue'[i] = initial[i - Len(mainQueue)] /\ i - Len(mainQueue) \in 1..Len(initial)
    BY <1>1, <2>1
  <2>4. \A i \in 1..(Len(mainQueue) + Len(initial)) :
            i \in 1..Len(mainQueue) \/ i \in (Len(mainQueue) + 1)..(Len(mainQueue) + Len(initial))
    BY <2>1
  <2>5. \A i \in 1..Len(initial) : initial[i] \in events
    BY <1>6
  <2>6. QED
    BY <2>1, <2>2, <2>3, <2>4, <2>5
<1>8. \A p : Stands(p)' <=> Stands(p)
  BY <1>1 DEF Stands
<1>9. \A i \in 1..Len(mainQueue') : (mainQueue[i].ref = uid /\ Stands(mainQueue[i].key))'
  BY <1>1, <1>5, <1>7 DEF OnlyOwn, Stands
<1>10. QED
  BY <1>3, <1>8, <1>9 DEF OnlyOwn

LEMMA RevokeOnly ==
    ASSUME K!TypeOK, NEW r \in Users, K!Revoke(r), r # uid, UNCHANGED uid
    PROVE  (OnlyOwn => OnlyOwn') /\ \A p : Stands(p)' <=> Stands(p)
<1>1. /\ cached' = [cached EXCEPT ![r] = [k \in Products |-> Absent]]
      /\ UNCHANGED <<registering, mainQueue>>
  BY DEF K!Revoke
<1>2. cached \in [Users -> [Products -> {Stored, Absent}]]
  BY DEF K!TypeOK
<1>3. uid \in Users => cached'[uid] = cached[uid]
  BY <1>1, <1>2
<1>4. QED
  BY <1>1, <1>3 DEF OnlyOwn, Stands

LEMMA ExactInit == Init => ExactInv
BY DEF Init, K!Init, Closed, ExactInv, OnlyOwn, DetailExact

\* The account, the list and the screen stay, and nothing stored is lost.
LEMMA SameExact ==
    ASSUME IInv, ExactInv, disturbed' = disturbed, UNCHANGED <<uid, favourites, detail>>,
           ~disturbed => OnlyOwn' /\ \A p \in Products : Stands(p) => Stands(p)'
    PROVE  ExactInv'
BY DEF ExactInv, DetailExact, IInv, TypeOK

LEMMA ExactStep == IInv /\ ExactInv /\ [Next]_vars => ExactInv'
<1> SUFFICES ASSUME IInv, ExactInv, [Next]_vars, ~disturbed' PROVE ExactInv'
  BY DEF ExactInv
<1>t. /\ K!TypeOK /\ favourites \subseteq Products /\ uid \in Users \cup {NoUser}
      /\ detail \in [on : SUBSET Products, selected : BOOLEAN, filled : BOOLEAN]
      /\ disturbed \in BOOLEAN
  BY DEF IInv, TypeOK
<1>1. CASE childAdded
  <2>1. /\ K!Deliver /\ favourites' = favourites \cup {K!NextEvent.key}
        /\ UNCHANGED <<uid, detail, disturbed>>
    BY <1>1 DEF childAdded, history
  <2>2. OnlyOwn /\ (\A p \in favourites : Stands(p)) /\ DetailExact
    BY <2>1 DEF ExactInv
  <2>3. OnlyOwn' /\ Stands(K!NextEvent.key) /\ \A p : Stands(p)' <=> Stands(p)
    BY <1>t, <2>1, <2>2, DeliverOnly
  <2>4. DetailExact'
    BY <2>1, <2>2, <2>3 DEF DetailExact
  <2>5. \A p \in favourites' : Stands(p)'
    BY <2>1, <2>2, <2>3
  <2>6. QED
    BY <2>3, <2>4, <2>5 DEF ExactInv
<1>2. CASE logoutUser
  <2>1. /\ uid' = NoUser /\ favourites' = {} /\ K!Quiet /\ UNCHANGED <<listenerVars, detail>>
        /\ detail = Closed
    BY <1>2 DEF logoutUser
  <2>2. mainQueue' = <<>> /\ registering' = <<>>
    BY <2>1 DEF K!Quiet, listenerVars
  <2>3. QED
    BY <2>1, <2>2 DEF ExactInv, OnlyOwn, DetailExact, Closed
<1>3. CASE LoadGrid
  <2>1. getCurrentUser /\ UNCHANGED <<uid, favourites, detail, disturbed>>
    BY <1>3 DEF LoadGrid
  <2>2. (OnlyOwn => OnlyOwn') /\ \A p \in Products : Stands(p) => Stands(p)'
    <3>1. CASE uid = NoUser
      BY <2>1, <3>1, IdleOnly DEF getCurrentUser
    <3>2. CASE uid # NoUser
      BY <1>t, <2>1, <3>2, ObserveOnly DEF getCurrentUser
    <3>3. QED
      BY <3>1, <3>2
  <2>3. QED
    BY <2>1, <2>2, SameExact DEF ExactInv
<1>4. CASE FavouriteButton
  <2>1. PICK q \in detail.on :
            /\ detail' = [detail EXCEPT !.selected = ~@, !.filled = detail.selected]
            /\ storeFavourite(q)
            /\ UNCHANGED <<uid, favourites, hearts, history>>
    BY <1>4 DEF FavouriteButton
  <2>2. /\ q \in Products /\ detail'.on = detail.on /\ detail'.filled = detail.selected
        /\ detail.on \subseteq Products
    BY <1>t, <2>1
  <2>3. OnlyOwn /\ (\A p \in favourites : Stands(p)) /\ DetailExact
    BY <2>1 DEF ExactInv, history
  <2>4. \A p \in detail.on : p = q
    BY <2>1, <2>3 DEF DetailExact
  <2>5. CASE detail.selected /\ uid # NoUser
    <3>1. uid \in Users /\ Write(uid, q, Stored)
      BY <1>t, <2>1, <2>5 DEF storeFavourite
    <3>2. OnlyOwn' /\ \A p \in Products : Stands(p) \/ p = q => Stands(p)'
      BY <1>t, <2>1, <2>2, <2>3, <3>1, WriteStored
    <3>3. DetailExact'
      BY <2>2, <2>4, <3>2 DEF DetailExact
    <3>4. \A p \in favourites' : Stands(p)'
      BY <1>t, <2>1, <2>3, <3>2
    <3>5. QED
      BY <3>2, <3>3, <3>4 DEF ExactInv
  <2>6. CASE ~(detail.selected /\ uid # NoUser)
    <3>1. UNCHANGED listenerVars
      BY <2>1, <2>6 DEF storeFavourite
    <3>2. OnlyOwn' /\ \A p \in Products : Stands(p) => Stands(p)'
      BY <2>1, <2>3, <3>1, IdleOnly
    <3>3. DetailExact'
      BY <2>1, <2>2, <2>3, <2>6 DEF DetailExact
    <3>4. \A p \in favourites' : Stands(p)'
      BY <1>t, <2>1, <2>3, <3>2
    <3>5. QED
      BY <3>2, <3>3, <3>4 DEF ExactInv
  <2>7. QED
    BY <2>5, <2>6
<1>5. CASE CloseDetail
  <2>1. detail' = Closed /\ UNCHANGED <<listenerVars, uid, favourites, disturbed>>
    BY <1>5 DEF CloseDetail, history
  <2>2. OnlyOwn' /\ \A p \in favourites' : Stands(p)'
    BY <1>t, <2>1, IdleOnly DEF ExactInv
  <2>3. DetailExact'
    BY <2>1 DEF DetailExact, Closed
  <2>4. QED
    BY <2>2, <2>3 DEF ExactInv
<1>6. CASE Register
  <2>1. K!AddEventRegistration /\ UNCHANGED <<uid, favourites, detail, disturbed>>
    BY <1>6 DEF Register, history
  <2>2. OnlyOwn => OnlyOwn' /\ \A p : Stands(p)' <=> Stands(p)
    BY <1>t, <2>1, RegisterOnly
  <2>3. QED
    BY <2>1, <2>2, SameExact DEF ExactInv
<1>7. ASSUME UNCHANGED <<listenerVars, uid, favourites, detail, disturbed>> PROVE ExactInv'
  BY <1>7, IdleOnly, SameExact DEF ExactInv
<1>8. ASSUME NEW p \in Products, configureCell(p) PROVE ExactInv'
  BY <1>7, <1>8 DEF configureCell, history
<1>9. ASSUME NEW p \in Products, productFavorited(p) PROVE ExactInv'
  <2>1. /\ favoriteSelected(p) /\ uid # NoUser
        /\ disturbed' = (disturbed \/ ~K!Quiet \/ ~loaded)
        /\ UNCHANGED <<uid, detail>> /\ detail = Closed
    BY <1>9 DEF productFavorited
  <2>2. K!Quiet /\ OnlyOwn /\ (\A q \in favourites : Stands(q)) /\ uid \in Users
    BY <1>t, <2>1 DEF ExactInv
  <2>3. DetailExact'
    BY <2>1 DEF DetailExact, Closed
  <2>4. CASE p \in favourites
    <3>1. favourites' = favourites \ {p} /\ Write(uid, p, Absent)
      BY <2>1, <2>4 DEF favoriteSelected
    <3>2. OnlyOwn' /\ \A q \in Products \ {p} : Stands(q) => Stands(q)'
      BY <1>t, <2>1, <2>2, <3>1, WriteAbsent
    <3>3. \A q \in favourites' : Stands(q)'
      BY <1>t, <2>2, <3>1, <3>2
    <3>4. QED
      BY <2>3, <3>2, <3>3 DEF ExactInv
  <2>5. CASE p \notin favourites
    <3>1. favourites' = favourites \cup {p} /\ Write(uid, p, Stored)
      BY <2>1, <2>5 DEF favoriteSelected
    <3>2. OnlyOwn' /\ \A q \in Products : Stands(q) \/ q = p => Stands(q)'
      BY <1>t, <2>1, <2>2, <3>1, WriteStored
    <3>3. \A q \in favourites' : Stands(q)'
      BY <1>t, <2>2, <3>1, <3>2
    <3>4. QED
      BY <2>3, <3>2, <3>3 DEF ExactInv
  <2>6. QED
    BY <2>4, <2>5
<1>10. ASSUME NEW p \in Products, OpenFromGrid(p) PROVE ExactInv'
  <2>1. /\ detail'.on = {p} /\ detail'.filled = (p \in favourites)
        /\ UNCHANGED <<listenerVars, uid, favourites, disturbed>>
    BY <1>10 DEF OpenFromGrid, OpenDetail
  <2>2. OnlyOwn' /\ \A q \in favourites' : Stands(q)'
    BY <1>t, <2>1, IdleOnly DEF ExactInv
  <2>3. DetailExact'
    BY <2>1, <2>2 DEF DetailExact
  <2>4. QED
    BY <2>2, <2>3 DEF ExactInv
<1>11. ASSUME NEW p \in Products, OpenFromFavourites(p) PROVE ExactInv'
  <2>1. /\ detail'.on = {p} /\ uid # NoUser
        /\ disturbed' = (disturbed \/ cached[uid][p] = Absent)
        /\ UNCHANGED <<listenerVars, uid, favourites>>
    BY <1>11 DEF OpenFromFavourites, OpenDetail
  <2>2. uid \in Users /\ ~disturbed /\ cached[uid][p] # Absent
    BY <1>t, <2>1
  <2>3. cached[uid][p] \in {Stored, Absent}
    BY <1>t, <2>2 DEF K!TypeOK
  <2>4. Stands(p)
    BY <2>2, <2>3 DEF Stands
  <2>5. OnlyOwn' /\ (\A q \in favourites' : Stands(q)') /\ Stands(p)'
    BY <1>t, <2>1, <2>2, <2>4, IdleOnly DEF ExactInv
  <2>6. DetailExact'
    BY <2>1, <2>5 DEF DetailExact
  <2>7. QED
    BY <2>5, <2>6 DEF ExactInv
<1>12. ASSUME NEW p \in Products, NEW r \in Users, NEW v \in {Stored, Absent}, ServerNews(r, p, v)
       PROVE  ExactInv'
  <2>1. /\ K!Change(r, p, v) /\ disturbed' = (disturbed \/ r # uid \/ v = Absent)
        /\ UNCHANGED <<uid, favourites, detail>>
    BY <1>12 DEF ServerNews
  <2>2. r = uid /\ v = Stored /\ ~disturbed
    BY <1>t, <2>1
  <2>3. uid \in Users /\ K!Change(uid, p, Stored)
    BY <2>1, <2>2
  <2>4. (OnlyOwn => OnlyOwn') /\ \A q \in Products : Stands(q) => Stands(q)'
    BY <1>t, <2>1, <2>3, StoreOnly
  <2>5. disturbed' = disturbed
    BY <1>t, <2>1, <2>2
  <2>6. QED
    BY <2>1, <2>2, <2>4, <2>5, SameExact DEF ExactInv
<1>13. ASSUME NEW r \in Users, SignIn(r) PROVE ExactInv'
  <2>1. /\ disturbed' = (disturbed \/ favourites # {} \/ ~K!Quiet) /\ uid' = r /\ detail = Closed
        /\ UNCHANGED <<listenerVars, favourites, detail>>
    BY <1>13 DEF SignIn
  <2>2. mainQueue' = <<>> /\ registering' = <<>> /\ favourites' = {}
    BY <2>1 DEF K!Quiet, listenerVars
  <2>3. QED
    BY <2>1, <2>2 DEF ExactInv, OnlyOwn, DetailExact, Closed
<1>14. ASSUME NEW r \in Users, Revoke(r) PROVE ExactInv'
  <2>1. K!Revoke(r) /\ r # uid /\ UNCHANGED <<uid, favourites, detail, disturbed>>
    BY <1>14, <1>t DEF Revoke
  <2>2. (OnlyOwn => OnlyOwn') /\ \A p : Stands(p)' <=> Stands(p)
    BY <1>t, <2>1, RevokeOnly
  <2>3. QED
    BY <2>1, <2>2, SameExact DEF ExactInv
<1>15. CASE UNCHANGED vars
  BY <1>7, <1>15 DEF vars, history
<1>16. QED
  BY <1>1, <1>2, <1>3, <1>4, <1>5, <1>6, <1>8, <1>9, <1>10, <1>11, <1>12, <1>13, <1>14, <1>15
  DEF Next

LEMMA AlwaysExact == Spec => [](IInv /\ ExactInv)
BY InitInv, StepInv, ExactInit, ExactStep, PTL DEF Spec

\* The service's list is exactly the stored favourites of the account until
\* something happens that the app does not handle: what reaches the list, by
\* an event or a tap, is the account's and stored at that moment, and a
\* favourite goes only by a tap, made while nothing is under way.
THEOREM ListExact == Spec => []FavouritesExact
<1>1. IInv /\ ExactInv => FavouritesExact
  <2> SUFFICES ASSUME IInv, ExactInv, loaded, ~disturbed, K!Quiet
               PROVE  favourites = StoredFavourites
    BY DEF FavouritesExact
  <2>1. StoredFavourites \subseteq favourites
    BY DEF IInv, TypeOK, K!TypeOK, ListInv, StoredFavourites, K!Children, K!Quiet,
           OnTheWay, Waiting, Coming
  <2>2. uid \in Users /\ uid # NoUser /\ favourites \subseteq Products
    BY FavouritesAssumption DEF IInv, TypeOK, ListInv
  <2>3. \A p \in favourites : cached[uid][p] = Stored
    BY DEF ExactInv, Stands
  <2>4. favourites \subseteq StoredFavourites
    BY <2>2, <2>3 DEF StoredFavourites, K!Children, Stored, Absent
  <2>5. QED
    BY <2>1, <2>4
<1>2. QED
  BY <1>1, AlwaysExact, PTL

\* A filled heart of the detail screen stands for a stored favourite: it is
\* filled from the list, or by the tap that stores the product.
THEOREM FilledStored == Spec => []FilledMeansStored
<1>1. IInv /\ ExactInv => FilledMeansStored
  <2> SUFFICES ASSUME IInv, ExactInv, loaded, ~disturbed, detail.filled
               PROVE  detail.on \subseteq StoredFavourites
    BY DEF FilledMeansStored
  <2>1. uid \in Users /\ uid # NoUser /\ detail.on \subseteq Products
    BY FavouritesAssumption DEF IInv, TypeOK, ListInv
  <2>2. \A p \in detail.on : cached[uid][p] = Stored
    BY <2>1 DEF ExactInv, DetailExact, Stands
  <2>3. QED
    BY <2>1, <2>2 DEF StoredFavourites, K!Children, Stored, Absent
<1>2. QED
  BY <1>1, AlwaysExact, PTL
=============================================================================

-------------------------- MODULE CartScreenProofs --------------------------
(* Theorems about CartScreen, for any accounts, products and bounds.       *)
EXTENDS CartScreen, FiniteSetTheorems, WellFoundedInduction, TLAPS

-----------------------------------------------------------------------------
(* Lists without repetition. *)

\* The sequence s lists the finite set S, each element once.
Enumerates(s, S) == ToSet(s) = S /\ Len(s) = Cardinality(S)

LEMMA ToSetIs ==
    ASSUME NEW s
    PROVE  ToSet(s) = {s[i] : i \in DOMAIN s} /\ P!ToSet(s) = ToSet(s)
BY DEF ToSet, P!ToSet

\* SetToSeq lists a finite set.
LEMMA Listed ==
    ASSUME NEW S, IsFiniteSet(S)
    PROVE  P!K!SetToSeq(S) \in Seq(S) /\ Enumerates(P!K!SetToSeq(S), S)
<1> DEFINE n == Cardinality(S)
           Good(f) == f \in [1..n -> S] /\ P!K!IsInjective(f)
<1>1. n \in Nat /\ ExistsBijection(1..n, S)
  BY FS_CardinalityType
<1>2. \E f : Good(f)
  BY <1>1 DEF ExistsBijection, Bijection, Injection, Surjection, IsInjective, P!K!IsInjective
<1>3. P!K!SetToSeq(S) = CHOOSE f : Good(f)
  <2>1. P!K!Cardinality(S) = Cardinality(S)
    BY DEF P!K!Cardinality, Cardinality
  <2>2. QED
    BY <2>1 DEF P!K!SetToSeq
<1>4. Good(P!K!SetToSeq(S))
  BY <1>2, <1>3
<1> DEFINE f == P!K!SetToSeq(S)
<1>5. f \in [1..n -> S] /\ \A i, j \in 1..n : f[i] = f[j] => i = j
  BY <1>4 DEF P!K!IsInjective
<1> HIDE DEF f, n
<1>6. f \in Injection(1..n, S)
  BY <1>5 DEF Injection, IsInjective
<1>7. f \in Surjection(1..n, S)
  <2>1. IsFiniteSet(1..n) /\ Cardinality(1..n) = n
    BY <1>1, FS_Interval
  <2>2. QED
    BY <1>6, <2>1, FS_Injection DEF n
<1>8. f \in Seq(S) /\ Len(f) = n /\ DOMAIN f = 1..n
  BY <1>1, <1>5
<1>9. {f[i] : i \in 1..n} = S
  BY <1>5, <1>7 DEF Surjection
<1>10. QED
  BY <1>8, <1>9, ToSetIs DEF f, n, Enumerates

-----------------------------------------------------------------------------
(* Sums over lists.  FoldLeft goes through the sets of indices; what is     *)
(* used of it is that its values on 1..k are the sums of the first k lines. *)

\* A nonempty set of naturals has a least element.
LEMMA Least ==
    ASSUME NEW S, S \subseteq Nat, S # {}
    PROVE  \E i \in S : \A j \in S : i <= j
<1>1. PICK i \in S : \A j \in S : ~(<<j, i>> \in OpToRel(<, Nat))
  BY NatLessThanWellFounded, WFMin
<1>2. \A j \in S : ~(j < i)
  BY <1>1 DEF OpToRel
<1>3. QED
  BY <1>2

LEMMA Greatest ==
    ASSUME NEW n \in Nat, NEW S, S \subseteq 1..n, S # {}
    PROVE  Max(S) \in S /\ \A j \in S : j <= Max(S)
<1> DEFINE T == {n - i : i \in S}
<1>1. \A i \in S : i \in 1..n /\ n - i \in Nat /\ n - i \in T
  OBVIOUS
<1>2. T \subseteq Nat /\ T # {}
  BY <1>1
<1>3. PICK x \in T : \A y \in T : x <= y
  BY <1>2, Least
<1>4. PICK i \in S : x = n - i
  OBVIOUS
<1>5. \A j \in S : i >= j
  BY <1>1, <1>3, <1>4
<1>6. Max(S) \in S /\ \A j \in S : Max(S) >= j
  BY <1>5 DEF Max
<1>7. QED
  BY <1>1, <1>6

\* h[k] is the sum of the first k values, up to n.
Sums(h, v, n) == h[0] = 0 /\ \A k \in 1..n : h[k] = h[k - 1] + v[k]

LEMMA SumsUnique ==
    ASSUME NEW n \in Nat, NEW h, NEW g, NEW v, NEW w, Sums(h, v, n), Sums(g, w, n),
           \A i \in 1..n : v[i] = w[i]
    PROVE  h[n] = g[n]
<1> DEFINE S == {k \in 0..n : h[k] # g[k]}
<1>1. CASE S = {}
  BY <1>1
<1>2. CASE S # {}
  <2>0. S \subseteq Nat
    OBVIOUS
  <2>1. PICK k \in S : \A j \in S : k <= j
    BY <1>2, <2>0, Least
  <2>2. k # 0
    BY DEF Sums
  <2>3. k \in 1..n /\ k - 1 \in 0..n /\ k - 1 \notin S
    BY <2>1, <2>2
  <2>4. h[k] = g[k]
    BY <2>3 DEF Sums
  <2>5. QED
    BY <2>4
<1>3. QED
  BY <1>1, <1>2

\* The function behind a fold that adds up the values v.
Folds(f, v, n) ==
    f = [s \in SUBSET (1..n) |-> IF s = {} THEN 0 ELSE f[s \ {Max(s)}] + v[Max(s)]]

LEMMA FoldsExtend ==
    ASSUME NEW n \in Nat, NEW v, NEW f, Folds(f, v, n)
    PROVE  \E g : Folds(g, v, n + 1)
<1> DEFINE g == [s \in SUBSET (1..(n + 1)) |->
                    IF n + 1 \in s THEN f[s \ {n + 1}] + v[n + 1] ELSE f[s]]
<1>1. f = [s \in SUBSET (1..n) |-> IF s = {} THEN 0 ELSE f[s \ {Max(s)}] + v[Max(s)]]
  BY DEF Folds
<1>2. ASSUME NEW s \in SUBSET (1..(n + 1))
      PROVE  g[s] = IF s = {} THEN 0 ELSE g[s \ {Max(s)}] + v[Max(s)]
  <2>1. CASE n + 1 \in s
    <3>0. n + 1 \in Nat /\ s \subseteq 1..(n + 1) /\ s # {}
      BY <2>1
    <3>1. Max(s) \in s /\ \A j \in s : j <= Max(s)
      BY <3>0, Greatest
    <3>2. Max(s) = n + 1
      <4>1. Max(s) \in 1..(n + 1) /\ n + 1 <= Max(s)
        BY <2>1, <3>0, <3>1
      <4>2. QED
        BY <4>1
    <3>3. s \ {n + 1} \in SUBSET (1..(n + 1)) /\ n + 1 \notin s \ {n + 1}
      OBVIOUS
    <3>4. g[s \ {n + 1}] = f[s \ {n + 1}]
      BY <3>3
    <3>5. QED
      BY <2>1, <3>2, <3>4
  <2>2. CASE n + 1 \notin s
    <3>1. s \in SUBSET (1..n)
      BY <2>2
    <3>2. CASE s = {}
      BY <1>1, <2>2, <3>1, <3>2
    <3>3. CASE s # {}
      <4>1. Max(s) \in s
        BY <3>1, <3>3, Greatest
      <4>2. s \ {Max(s)} \in SUBSET (1..(n + 1)) /\ n + 1 \notin s \ {Max(s)}
        BY <2>2
      <4>3. g[s \ {Max(s)}] = f[s \ {Max(s)}] /\ g[s] = f[s]
        BY <2>2, <4>2
      <4>4. f[s] = f[s \ {Max(s)}] + v[Max(s)]
        BY <1>1, <3>1, <3>3
      <4>5. QED
        BY <3>3, <4>3, <4>4
    <3>4. QED
      BY <3>2, <3>3
  <2>3. QED
    BY <2>1, <2>2
<1>3. g = [s \in SUBSET (1..(n + 1)) |-> IF s = {} THEN 0 ELSE g[s \ {Max(s)}] + v[Max(s)]]
  <2>1. g = [s \in SUBSET (1..(n + 1)) |-> g[s]]
    OBVIOUS
  <2> HIDE DEF g
  <2>2. QED
    BY <1>2, <2>1
<1>4. QED
  BY <1>3 DEF Folds

LEMMA FoldsExist ==
    ASSUME NEW n \in Nat, NEW v
    PROVE  \E f : Folds(f, v, n)
<1> DEFINE S == {k \in Nat : ~\E f : Folds(f, v, k)}
<1>1. CASE S = {}
  BY <1>1
<1>2. CASE S # {}
  <2>1. PICK k \in S : \A j \in S : k <= j
    BY <1>2, Least
  <2>2. CASE k = 0
    <3> DEFINE f == [s \in SUBSET (1..0) |-> 0]
    <3>1. Folds(f, v, 0)
      <4>1. \A s \in SUBSET (1..0) : s = {}
        OBVIOUS
      <4>2. QED
        BY <4>1 DEF Folds
    <3>2. QED
      BY <2>2, <3>1
  <2>3. CASE k # 0
    <3>1. k - 1 \in Nat /\ k - 1 \notin S
      BY <2>1, <2>3
    <3>2. PICK f : Folds(f, v, k - 1)
      BY <3>1
    <3>3. \E g : Folds(g, v, (k - 1) + 1)
      BY <3>1, <3>2, FoldsExtend
    <3>4. (k - 1) + 1 = k
      OBVIOUS
    <3>5. QED
      BY <3>3, <3>4
  <2>4. QED
    BY <2>2, <2>3
<1>3. QED
  BY <1>1, <1>2

\* The values of a fold on the initial segments are the partial sums.
LEMMA FoldsSum ==
    ASSUME NEW n \in Nat, NEW v, NEW f, Folds(f, v, n)
    PROVE  \E h : Sums(h, v, n) /\ h[n] = f[1..n]
<1> DEFINE h == [k \in 0..n |-> f[1..k]]
<1>1. f = [s \in SUBSET (1..n) |-> IF s = {} THEN 0 ELSE f[s \ {Max(s)}] + v[Max(s)]]
  BY DEF Folds
<1>2. h[0] = 0
  <2>1. 1..0 = {} /\ {} \in SUBSET (1..n) /\ 0 \in 0..n
    OBVIOUS
  <2>2. f[{}] = 0
    BY <1>1, <2>1
  <2>3. QED
    BY <2>1, <2>2
<1>3. ASSUME NEW k \in 1..n
      PROVE  h[k] = h[k - 1] + v[k]
  <2>1. k \in 1..k /\ 1..k \subseteq 1..n /\ 1..k # {} /\ k \in Nat
    OBVIOUS
  <2>2. Max(1..k) \in 1..k /\ \A j \in 1..k : j <= Max(1..k)
    BY <2>1, Greatest
  <2>3. Max(1..k) = k
    BY <2>1, <2>2
  <2>4. (1..k) \ {k} = 1..(k - 1)
    OBVIOUS
  <2>5. f[1..k] = f[(1..k) \ {Max(1..k)}] + v[Max(1..k)]
    BY <1>1, <2>1
  <2>6. h[k] = f[1..k] /\ h[k - 1] = f[1..(k - 1)]
    BY <2>1
  <2>7. QED
    BY <2>3, <2>4, <2>5, <2>6
<1>4. h[n] = f[1..n]
  OBVIOUS
<1> HIDE DEF h
<1>5. QED
  BY <1>2, <1>3, <1>4 DEF Sums

\* The sum of a list is the last of its partial sums.
LEMMA SumOfIs ==
    ASSUME NEW S, NEW list \in Seq(S)
    PROVE  \E h : /\ Sums(h, [i \in 1..Len(list) |-> list[i].val], Len(list))
                  /\ SumOf(list) = h[Len(list)]
<1> DEFINE n == Len(list)
           v == [i \in 1..n |-> list[i].val]
           Good(f) == f = [s \in SUBSET DOMAIN list |->
                             IF s = {} THEN 0 ELSE f[s \ {Max(s)}] + list[Max(s)].val]
<1>1. n \in Nat /\ DOMAIN list = 1..n
  OBVIOUS
<1>2. SumOf(list) = (CHOOSE f : Good(f))[DOMAIN list]
  BY DEF SumOf, FoldLeft, MapThenFoldSet
<1>3. \A f : Good(f) <=> Folds(f, v, n)
  <2>1. \A s \in SUBSET (1..n) : s # {} => Max(s) \in 1..n
    BY <1>1, Greatest
  <2>2. \A s \in SUBSET (1..n) : s # {} => v[Max(s)] = list[Max(s)].val
    BY <2>1
  <2> HIDE DEF v
  <2>3. QED
    BY <1>1, <2>2 DEF Folds
<1> HIDE DEF v
<1>4. \E f : Good(f)
  BY <1>1, <1>3, FoldsExist
<1>5. Good(CHOOSE f : Good(f))
  BY <1>4
<1> DEFINE f == CHOOSE f : Good(f)
<1>6. Folds(f, v, n)
  BY <1>3, <1>5
<1> HIDE DEF f, Good
<1>7. PICK h : Sums(h, v, n) /\ h[n] = f[1..n]
  BY <1>1, <1>6, FoldsSum
<1>8. SumOf(list) = h[n]
  BY <1>1, <1>2, <1>7 DEF f
<1>9. QED
  BY <1>7, <1>8 DEF v

LEMMA SumOfNone == SumOf(<<>>) = 0
<1>1. <<>> \in Seq(Nat) /\ Len(<<>>) = 0
  OBVIOUS
<1>2. PICK h : /\ Sums(h, [i \in 1..Len(<<>>) |-> <<>>[i].val], Len(<<>>))
               /\ SumOf(<<>>) = h[Len(<<>>)]
  BY <1>1, SumOfIs
<1>3. QED
  BY <1>1, <1>2 DEF Sums

\* A line at the end adds its value.
LEMMA SumOfAppend ==
    ASSUME NEW S, NEW list \in Seq(S), NEW e \in S
    PROVE  SumOf(Append(list, e)) = SumOf(list) + e.val
<1> DEFINE n == Len(list)
           longer == Append(list, e)
           v == [i \in 1..Len(list) |-> list[i].val]
           w == [i \in 1..Len(longer) |-> longer[i].val]
<1>1. /\ n \in Nat /\ longer \in Seq(S) /\ Len(longer) = n + 1
      /\ longer[n + 1] = e /\ \A i \in 1..n : longer[i] = list[i]
  OBVIOUS
<1>2. PICK h : Sums(h, v, n) /\ SumOf(list) = h[n]
  BY SumOfIs
<1>3. PICK g : Sums(g, w, n + 1) /\ SumOf(longer) = g[n + 1]
  BY <1>1, SumOfIs
<1>4. /\ \A i \in 1..n : v[i] = w[i]
      /\ w[n + 1] = e.val
  BY <1>1
<1> HIDE DEF v, w, longer
<1>5. Sums(g, w, n) /\ g[n + 1] = g[n] + w[n + 1]
  <2>1. n + 1 \in 1..(n + 1) /\ (n + 1) - 1 = n /\ 1..n \subseteq 1..(n + 1)
    BY <1>1
  <2>2. QED
    BY <1>3, <2>1 DEF Sums
<1>6. h[n] = g[n]
  BY <1>1, <1>2, <1>4, <1>5, SumsUnique
<1>7. QED
  BY <1>2, <1>3, <1>4, <1>5, <1>6 DEF longer

-----------------------------------------------------------------------------
(* The invariant: a clean list and what is on its way to it are together   *)
(* the records of the account, each of them once.                          *)

CleanInv ==
    clean =>
        IF uid = NoUser
        THEN registering = <<>> /\ mainQueue = <<>> /\ products = <<>>
        ELSE \/ registering = <<uid>> /\ mainQueue = <<>> /\ products = <<>>
             \/ registering = <<>> /\ Enumerates(products \o mainQueue, P!Records(uid))

IInv == TypeOK /\ ShownOrCleared /\ CleanInv

LEMMA ListenerInit == P!K!Init => P!K!TypeOK
<1>1. 0 \in 0..MaxObservers /\ 0 \in 0..MaxChanges
  BY CartScreenAssumption
<1>2. <<>> \in Seq(Users) /\ <<>> \in Seq(P!K!Event)
  OBVIOUS
<1>3. QED
  BY <1>1, <1>2 DEF P!K!Init, P!K!TypeOK

LEMMA InitInv == Init => IInv
<1> SUFFICES ASSUME Init PROVE IInv
  OBVIOUS
<1>1. <<>> \in Seq(P!Line)
  OBVIOUS
<1>2. TypeOK
  BY <1>1, ListenerInit DEF Init, TypeOK, P!Init, P!TypeOK
<1>3. ShownOrCleared
  BY DEF Init, P!Init, ShownOrCleared, P!ShownOrCleared
<1>4. CleanInv
  BY DEF Init, P!Init, CleanInv
<1>5. QED
  BY <1>2, <1>3, <1>4 DEF IInv

-----------------------------------------------------------------------------
(* The steps. *)

\* A tick empties the list; it is clean if nothing is on its way to it.
LEMMA TickStep ==
    ASSUME IInv, Tick
    PROVE  IInv'
<1>1. /\ products' = <<>> /\ clean' = P!K!Quiet /\ total' = 0
      /\ UNCHANGED <<uid, shown, label>> /\ P!fetchFavProducts
  BY DEF Tick, P!Tick, ResetTotal
<1>2. /\ IF uid # NoUser THEN registering' = Append(registering, uid) ELSE UNCHANGED registering
      /\ UNCHANGED <<cached, observers, mainQueue, changes>>
  BY <1>1 DEF P!fetchFavProducts, P!K!Observe, P!listenerVars
<1>3. P!K!TypeOK'
  <2>1. registering \in Seq(Users) /\ uid \in Users \cup {NoUser}
    BY DEF IInv, TypeOK, P!TypeOK, P!K!TypeOK
  <2>2. registering' \in Seq(Users)
    BY <1>2, <2>1
  <2>3. QED
    BY <1>2, <2>2 DEF IInv, TypeOK, P!TypeOK, P!K!TypeOK
<1>4. TypeOK'
  <2>1. <<>> \in Seq(P!Line)
    OBVIOUS
  <2>2. P!K!Quiet \in BOOLEAN
    BY DEF P!K!Quiet
  <2>3. QED
    BY <1>1, <1>3, <2>1, <2>2 DEF IInv, TypeOK, P!TypeOK
<1>5. CleanInv'
  <2>1. SUFFICES ASSUME P!K!Quiet PROVE CleanInv'
    BY <1>1 DEF CleanInv
  <2>2. registering = <<>> /\ mainQueue = <<>>
    BY <2>1 DEF P!K!Quiet
  <2>3. uid # NoUser => registering' = <<uid>>
    BY <1>2, <2>2
  <2>4. QED
    BY <1>1, <1>2, <2>2, <2>3 DEF CleanInv
<1>6. QED
  BY <1>1, <1>4, <1>5 DEF IInv, ShownOrCleared, P!ShownOrCleared

\* The initial events of a registration are the records, each once.
LEMMA RegisterStep ==
    ASSUME IInv, Register
    PROVE  IInv'
<1> DEFINE r == Head(registering)
           events == {P!K!ChildAdded(r, k, cached[r][k]) : k \in P!K!Children(r)}
           initial == P!K!SetToSeq(events)
<1>1. /\ registering # <<>> /\ registering \in Seq(Users) /\ mainQueue \in Seq(P!K!Event)
      /\ mainQueue' = mainQueue \o initial
      /\ observers' = [observers EXCEPT ![r] = IF @ < MaxObservers THEN @ + 1 ELSE @]
      /\ registering' = Tail(registering)
      /\ UNCHANGED <<cached, changes, uid, products, shown, clean, total, label>>
  BY DEF IInv, TypeOK, P!TypeOK, P!K!TypeOK, Register, P!Register, P!K!AddEventRegistration
<1>2. r \in Users /\ registering' \in Seq(Users)
  BY <1>1
<1>3. events \subseteq P!K!Event /\ IsFiniteSet(events)
  <2>1. IsFiniteSet(P!K!Children(r))
    BY CartScreenAssumption, FS_Subset DEF P!K!Children
  <2>2. IsFiniteSet(events)
    <3> DEFINE g == [k \in P!K!Children(r) |-> P!K!ChildAdded(r, k, cached[r][k])]
    <3>1. g \in Surjection(P!K!Children(r), events)
      BY DEF Surjection
    <3>2. QED
      BY <2>1, <3>1, FS_Surjection
  <2>3. \A k \in P!K!Children(r) : k \in Products /\ cached[r][k] \in SubTotals
    BY <1>2 DEF IInv, TypeOK, P!TypeOK, P!K!TypeOK, P!K!Children
  <2>4. QED
    BY <1>2, <2>2, <2>3 DEF P!K!Event, P!K!ChildAdded
<1>4. initial \in Seq(P!K!Event) /\ Enumerates(initial, events)
  <2>1. initial \in Seq(events) /\ Enumerates(initial, events)
    BY <1>3, Listed
  <2>2. QED
    BY <1>3, <2>1
<1>5. clean /\ uid # NoUser /\ registering = <<uid>> =>
        events = P!Records(uid) /\ registering' = <<>>
  BY <1>1 DEF P!Records
<1> HIDE DEF initial, events, r
<1>6. mainQueue' \in Seq(P!K!Event)
  BY <1>1, <1>4
<1>7. observers' \in [Users -> 0..MaxObservers]
  BY <1>1, <1>2, CartScreenAssumption DEF IInv, TypeOK, P!TypeOK, P!K!TypeOK
<1>8. TypeOK'
  BY <1>1, <1>2, <1>6, <1>7 DEF IInv, TypeOK, P!TypeOK, P!K!TypeOK
<1>9. CleanInv'
  <2>1. SUFFICES ASSUME clean PROVE CleanInv'
    BY <1>1 DEF CleanInv
  <2>2. uid # NoUser /\ registering = <<uid>> /\ mainQueue = <<>> /\ products = <<>>
    BY <1>1, <2>1 DEF IInv, CleanInv
  <2>3. (products \o mainQueue)' = initial
    BY <1>1, <1>4, <2>2
  <2>4. P!Records(uid)' = P!Records(uid)
    BY <1>1 DEF P!Records, P!K!Children
  <2>5. registering' = <<>> /\ Enumerates((products \o mainQueue)', P!Records(uid)')
    BY <1>4, <1>5, <2>1, <2>2, <2>3, <2>4
  <2>6. QED
    BY <1>1, <2>2, <2>5 DEF CleanInv
<1>10. QED
  BY <1>1, <1>8, <1>9 DEF IInv, ShownOrCleared, P!ShownOrCleared

\* An event moves from the queue to the list.
LEMMA EventStep ==
    ASSUME IInv, childAdded
    PROVE  IInv'
<1>1. /\ mainQueue # <<>> /\ mainQueue \in Seq(P!K!Event) /\ products \in Seq(P!Line)
      /\ mainQueue' = Tail(mainQueue) /\ products' = Append(products, mainQueue[1])
      /\ shown' = products' /\ total' = total + mainQueue[1].val /\ label' = total'
      /\ UNCHANGED <<cached, observers, registering, changes, uid, clean>>
  BY DEF IInv, TypeOK, P!TypeOK, P!K!TypeOK, childAdded, P!childAdded, P!K!Deliver,
         P!newProduct, P!reloadData, P!K!NextEvent, TotalWith
<1>2. mainQueue[1] \in P!Line /\ mainQueue[1].val \in Nat
  <2>1. mainQueue[1] \in P!K!Event
    BY <1>1
  <2>2. QED
    BY <2>1, CartScreenAssumption DEF P!K!Event, P!Line
<1>3. mainQueue' \in Seq(P!K!Event) /\ products' \in Seq(P!Line)
  BY <1>1, <1>2
<1>4. TypeOK'
  <2>1. P!TypeOK'
    BY <1>1, <1>3 DEF IInv, TypeOK, P!TypeOK, P!K!TypeOK
  <2>2. total \in Nat /\ total' = total + mainQueue[1].val /\ label' = total'
    BY <1>1 DEF IInv, TypeOK
  <2>3. total' \in Nat /\ label' \in Nat
    BY <1>2, <2>2
  <2>4. QED
    BY <2>1, <2>3 DEF TypeOK
<1>5. products' \o mainQueue' = products \o mainQueue
  BY <1>1
<1>6. CleanInv'
  <2>1. SUFFICES ASSUME clean PROVE CleanInv'
    BY <1>1 DEF CleanInv
  <2>2. uid # NoUser /\ registering = <<>> /\ Enumerates(products \o mainQueue, P!Records(uid))
    BY <1>1, <2>1 DEF IInv, CleanInv
  <2>3. P!Records(uid)' = P!Records(uid)
    BY <1>1 DEF P!Records, P!K!Children
  <2>4. QED
    BY <1>1, <1>5, <2>2, <2>3 DEF CleanInv
<1>7. QED
  BY <1>1, <1>4, <1>6 DEF IInv, ShownOrCleared, P!ShownOrCleared

\* What changes the records or the account leaves no list clean.
LEMMA Unclean ==
    ASSUME IInv, P!K!TypeOK', uid' \in Users \cup {NoUser}, clean' = FALSE,
           UNCHANGED <<products, shown, total, label>>
    PROVE  IInv'
BY DEF IInv, TypeOK, P!TypeOK, ShownOrCleared, P!ShownOrCleared, CleanInv

LEMMA ChangeStep ==
    ASSUME IInv, NEW u \in Users, NEW p \in Products, NEW v \in SubTotals \cup {Absent},
           P!RecordChange(u, p, v), UNCHANGED <<total, label>>
    PROVE  IInv'
<1> DEFINE events == [i \in 1..observers[u] |-> P!K!ChildAdded(u, p, v)]
<1>1. /\ P!K!TypeOK /\ changes < MaxChanges /\ changes' = changes + 1 /\ cached[u][p] # v
      /\ cached' = [cached EXCEPT ![u][p] = v]
      /\ mainQueue' = IF cached[u][p] = Absent THEN mainQueue \o events ELSE mainQueue
      /\ UNCHANGED <<observers, registering, uid, products, shown>> /\ clean' = FALSE
  BY DEF IInv, TypeOK, P!TypeOK, P!RecordChange, P!K!Change
<1>2. changes' \in 0..MaxChanges
  BY <1>1, CartScreenAssumption DEF P!K!TypeOK
<1>3. cached[u][p] = Absent => events \in Seq(P!K!Event)
  <2>1. cached[u][p] = Absent => P!K!ChildAdded(u, p, v) \in P!K!Event
    BY <1>1 DEF P!K!Event, P!K!ChildAdded
  <2>2. observers[u] \in Nat
    BY <1>1 DEF P!K!TypeOK
  <2>3. QED
    BY <2>1, <2>2
<1> HIDE DEF events
<1>4. mainQueue' \in Seq(P!K!Event)
  BY <1>1, <1>3 DEF P!K!TypeOK
<1>5. cached' \in [Users -> [Products -> SubTotals \cup {Absent}]]
  BY <1>1 DEF P!K!TypeOK
<1>6. P!K!TypeOK'
  BY <1>1, <1>2, <1>4, <1>5 DEF P!K!TypeOK
<1>7. QED
  BY <1>1, <1>6, Unclean DEF IInv, TypeOK, P!TypeOK

LEMMA RevokeStep ==
    ASSUME IInv, NEW u \in Users, Revoke(u)
    PROVE  IInv'
<1>1. /\ P!K!TypeOK
      /\ observers' = [observers EXCEPT ![u] = 0]
      /\ cached' = [cached EXCEPT ![u] = [k \in Products |-> Absent]]
      /\ UNCHANGED <<registering, mainQueue, changes, uid, products, shown, total, label>>
      /\ clean' = FALSE
  BY DEF IInv, TypeOK, P!TypeOK, Revoke, P!Revoke, P!K!Revoke
<1>2. 0 \in 0..MaxObservers
  BY CartScreenAssumption
<1>3. P!K!TypeOK'
  BY <1>1, <1>2 DEF P!K!TypeOK
<1>4. QED
  BY <1>1, <1>3, Unclean DEF IInv, TypeOK, P!TypeOK

LEMMA SessionStep ==
    ASSUME IInv, SignOut \/ \E u \in Users : SignIn(u)
    PROVE  IInv'
<1>1. /\ UNCHANGED <<cached, observers, registering, mainQueue, changes, products, shown, total, label>>
      /\ uid' \in Users \cup {NoUser} /\ clean' = FALSE
  BY DEF SignOut, SignIn, P!SignOut, P!SignIn, P!listenerVars
<1>2. P!K!TypeOK'
  BY <1>1 DEF IInv, TypeOK, P!TypeOK, P!K!TypeOK
<1>3. QED
  BY <1>1, <1>2, Unclean

LEMMA NextInv == IInv /\ [Next]_vars => IInv'
<1> SUFFICES ASSUME IInv, [Next]_vars PROVE IInv'
  OBVIOUS
<1>1. CASE Tick
  BY <1>1, TickStep
<1>2. CASE Register
  BY <1>2, RegisterStep
<1>3. CASE childAdded
  BY <1>3, EventStep
<1>4. CASE \E i \in DOMAIN shown : removeItem(i)
  <2>1. PICK i \in DOMAIN shown : removeItem(i)
    BY <1>4
  <2>2. uid \in Users /\ shown \in Seq(P!Line)
    BY <2>1 DEF IInv, TypeOK, P!TypeOK, removeItem
  <2>3. shown[i].key \in Products
    <3>1. shown[i] \in P!Line
      BY <2>2
    <3>2. QED
      BY <3>1 DEF P!Line
  <2>4. QED
    BY <2>1, <2>2, <2>3, ChangeStep DEF removeItem
<1>5. CASE \E u \in Users, p \in Products, s \in SubTotals \cup {Absent} : CartChange(u, p, s)
  BY <1>5, ChangeStep DEF CartChange
<1>6. CASE \E u \in Users : Revoke(u)
  BY <1>6, RevokeStep
<1>7. CASE SignOut \/ \E u \in Users : SignIn(u)
  BY <1>7, SessionStep
<1>8. CASE UNCHANGED vars
  BY <1>8 DEF vars, listVars, IInv, TypeOK, P!TypeOK, P!K!TypeOK, ShownOrCleared,
              P!ShownOrCleared, CleanInv, P!Records, P!K!Children
<1>9. QED
  BY <1>1, <1>2, <1>3, <1>4, <1>5, <1>6, <1>7, <1>8 DEF Next

LEMMA InitSum == Init => SubtotalMatches
BY SumOfNone DEF Init, P!Init, SubtotalMatches

\* The total is the sum of the list, the label that of the rows.
LEMMA SumStep == IInv /\ SubtotalMatches /\ [Next]_vars => SubtotalMatches'
<1> SUFFICES ASSUME IInv, SubtotalMatches, [Next]_vars
             PROVE  SubtotalMatches'
  OBVIOUS
<1>1. CASE Tick
  <2>1. products' = <<>> /\ total' = 0 /\ UNCHANGED <<shown, label>>
    BY <1>1 DEF Tick, P!Tick, ResetTotal
  <2>2. QED
    BY <2>1, SumOfNone DEF SubtotalMatches
<1>2. CASE childAdded
  <2>1. /\ mainQueue # <<>> /\ mainQueue \in Seq(P!K!Event) /\ products \in Seq(P!Line)
        /\ products' = Append(products, mainQueue[1]) /\ shown' = products'
        /\ total' = total + mainQueue[1].val /\ label' = total'
    BY <1>2 DEF IInv, TypeOK, P!TypeOK, P!K!TypeOK, childAdded, P!childAdded, P!K!Deliver,
                P!newProduct, P!reloadData, P!K!NextEvent, TotalWith
  <2>2. mainQueue[1] \in P!Line
    <3>1. mainQueue[1] \in P!K!Event
      BY <2>1
    <3>2. QED
      BY <3>1 DEF P!K!Event, P!Line
  <2>3. SumOf(Append(products, mainQueue[1])) = SumOf(products) + mainQueue[1].val
    BY <2>1, <2>2, SumOfAppend
  <2>4. total' = SumOf(products')
    BY <2>1, <2>3 DEF SubtotalMatches
  <2>5. QED
    BY <2>1, <2>4 DEF SubtotalMatches
<1>3. CASE UNCHANGED <<products, shown, total, label>>
  BY <1>3 DEF SubtotalMatches
<1>4. ASSUME \/ Register \/ SignOut
             \/ \E i \in DOMAIN shown : removeItem(i)
             \/ \E u \in Users :
                  \/ \E p \in Products, s \in SubTotals \cup {Absent} : CartChange(u, p, s)
                  \/ Revoke(u) \/ SignIn(u)
             \/ UNCHANGED vars
      PROVE  UNCHANGED <<products, shown, total, label>>
  BY <1>4 DEF Register, P!Register, SignOut, P!SignOut, removeItem, P!RecordChange, CartChange,
              Revoke, P!Revoke, SignIn, P!SignIn, vars, listVars
<1>5. QED
  BY <1>1, <1>2, <1>3, <1>4 DEF Next

\* A clean list with nothing on its way to it is the cart.
LEMMA InvExact == IInv => CleanListExact
<1>1. SUFFICES ASSUME IInv, clean, P!K!Quiet PROVE P!Lists(products, uid)
  BY DEF CleanListExact, P!CleanListExact
<1>2. registering = <<>> /\ mainQueue = <<>> /\ products \in Seq(P!Line)
  BY <1>1 DEF P!K!Quiet, IInv, TypeOK, P!TypeOK
<1>3. CASE uid = NoUser
  <2>1. products = <<>> /\ P!Records(uid) = {}
    BY <1>1, <1>3 DEF IInv, CleanInv, P!Records
  <2>2. P!ToSet(products) = {} /\ Len(products) = 0
    BY <2>1, ToSetIs
  <2>3. P!Cardinality({}) = 0
    BY FS_EmptySet DEF P!Cardinality, Cardinality
  <2>4. QED
    BY <2>1, <2>2, <2>3 DEF P!Lists
<1>4. CASE uid # NoUser
  <2>1. Enumerates(products \o mainQueue, P!Records(uid))
    BY <1>1, <1>2, <1>4 DEF IInv, CleanInv
  <2>2. products \o mainQueue = products
    BY <1>2
  <2>3. P!Cardinality(P!Records(uid)) = Cardinality(P!Records(uid))
    BY DEF P!Cardinality, Cardinality
  <2>4. QED
    BY <2>1, <2>2, <2>3, ToSetIs DEF P!Lists, Enumerates
<1>5. QED
  BY <1>3, <1>4

-----------------------------------------------------------------------------
(* The theorems. *)

\* The invariant holds throughout, for any number of accounts, products,
\* observers and waiting events, and a timer that waits or does not.
THEOREM ListInvariant == Spec => []IInv
BY InitInv, NextInv, PTL DEF Spec

\* Type correctness of the cart screen and of the listeners below it; the
\* total and the label never become negative or undefined.
THEOREM CartTypes == Spec => []TypeOK
<1>1. IInv => TypeOK
  BY DEF IInv
<1>2. QED
  BY <1>1, ListInvariant, PTL

\* A row of the collection view is the line of the list with its index, in
\* every state but those in which a tick has emptied the list: the only way
\* cellForItemAt can be out of range (CartViewController.swift:124).
THEOREM RowsIndexList == Spec => []ShownOrCleared
<1>1. IInv => ShownOrCleared
  BY DEF IInv
<1>2. QED
  BY <1>1, ListInvariant, PTL

\* Whatever the interleaving of ticks, late events and deletions, the total that
\* is handed to the shipping screen (CartViewController.swift:66-67) is the sum
\* of the list, for any number of lines.
THEOREM TotalIsTheSum == Spec => []SubtotalMatches
BY InitSum, SumStep, ListInvariant, PTL DEF Spec

\* A tick that finds nothing under way builds exactly the cart of the account
\* once its events have arrived, however many observers earlier ticks left.
THEOREM CleanListIsCart == Spec => []CleanListExact
BY InvExact, ListInvariant, PTL
=============================================================================

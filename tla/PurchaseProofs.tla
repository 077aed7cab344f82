--------------------------- MODULE PurchaseProofs ---------------------------
(* Theorems about Purchase, for any accounts, products, prices and bounds. *)
EXTENDS Purchase, FiniteSetTheorems, TLAPS

\* The theorems about the cart screen, for the cart screen of Purchase.
CP == INSTANCE CartScreenProofs WITH Prompt <- FALSE

\* The assumptions of CartScreen hold here.
LEMMA CartAssumptions ==
    /\ SubTotals \subseteq Nat \ {0}
    /\ NoUser \notin Users /\ CP!IsFiniteSet(Products)
    /\ FALSE \in BOOLEAN
    /\ MaxObservers \in Nat \ {0} /\ MaxQueue \in Nat /\ MaxChanges \in Nat
<1>1. ASSUME NEW s \in SubTotals PROVE s \in Nat \ {0}
  <2>1. PICK p \in Products, n \in 1..MaxCount : s = Price[p] * n
    BY DEF SubTotals
  <2>2. Price[p] \in Nat \ {0} /\ n \in Nat \ {0}
    BY PurchaseAssumption
  <2>3. \A x, y \in Nat \ {0} : x * y \in Nat \ {0}
    OBVIOUS
  <2>4. QED
    BY <2>1, <2>2, <2>3
<1>2. QED
  BY <1>1, PurchaseAssumption DEF IsFiniteSet, CP!IsFiniteSet

LEMMA CartInit == CP!Init => CP!IInv /\ CP!SubtotalMatches
BY CP!InitInv, CP!InitSum, CartAssumptions, Zenon

LEMMA CartStep ==
    CP!IInv /\ CP!SubtotalMatches /\ [CP!Next]_CP!vars => CP!IInv' /\ CP!SubtotalMatches'
BY CP!NextInv, CP!SumStep, CartAssumptions, Zenon

LEMMA CartUnclean ==
    CP!IInv /\ CP!P!K!TypeOK' /\ uid' \in Users \cup {NoUser} /\ clean' = FALSE
        /\ UNCHANGED <<products, shown, total, label>> => CP!IInv'
BY CP!Unclean, CartAssumptions, Zenon

LEMMA CartExact == CP!IInv => CP!CleanListExact
BY CP!InvExact, CartAssumptions, Zenon

-----------------------------------------------------------------------------
(* Sums over lists, continued: see CartScreenProofs. *)

LEMMA Least ==
    ASSUME NEW S, S \subseteq Nat, S # {}
    PROVE  \E i \in S : \A j \in S : i <= j
BY CP!Least, CartAssumptions, Zenon

LEMMA Greatest ==
    ASSUME NEW n \in Nat, NEW S, S \subseteq 1..n, S # {}
    PROVE  Max(S) \in S /\ \A j \in S : j <= Max(S)
<1>1. CP!Max(S) \in S /\ \A j \in S : j <= CP!Max(S)
  BY CP!Greatest, CartAssumptions, Zenon
<1>2. CP!Max(S) = Max(S)
  BY DEF CP!Max, Max
<1>3. QED
  BY <1>1, <1>2

LEMMA SumsExist ==
    ASSUME NEW n \in Nat, NEW v
    PROVE  \E h : CP!Sums(h, v, n)
BY CP!FoldsExist, CP!FoldsSum, CartAssumptions, Zenon

LEMMA SumsUnique ==
    ASSUME NEW n \in Nat, NEW h, NEW g, NEW v, NEW w, CP!Sums(h, v, n), CP!Sums(g, w, n),
           \A i \in 1..n : v[i] = w[i]
    PROVE  h[n] = g[n]
BY CP!SumsUnique, CartAssumptions, Zenon

\* Sums of naturals are naturals.
LEMMA SumsNat ==
    ASSUME NEW n \in Nat, NEW h, NEW v, CP!Sums(h, v, n), \A i \in 1..n : v[i] \in Nat
    PROVE  \A k \in 0..n : h[k] \in Nat
<1> DEFINE S == {k \in 0..n : h[k] \notin Nat}
<1>1. CASE S = {}
  BY <1>1
<1>2. CASE S # {}
  <2>0. S \subseteq Nat
    OBVIOUS
  <2>1. PICK k \in S : \A j \in S : k <= j
    BY <1>2, <2>0, Least
  <2>2. k # 0
    BY DEF CP!Sums
  <2>3. k \in 1..n /\ k - 1 \in 0..n /\ k - 1 \notin S
    BY <2>1, <2>2
  <2>4. h[k] = h[k - 1] + v[k] /\ h[k - 1] \in Nat /\ v[k] \in Nat
    BY <2>3 DEF CP!Sums
  <2>5. QED
    BY <2>4
<1>3. QED
  BY <1>1, <1>2

\* What is added to one of the values is added to the sum.
LEMMA SumsBump ==
    ASSUME NEW n \in Nat, NEW h, NEW g, NEW v, NEW w, NEW i \in 1..n, NEW d \in Nat,
           CP!Sums(h, v, n), CP!Sums(g, w, n), \A j \in 1..n : v[j] \in Nat,
           w[i] = v[i] + d, \A j \in 1..n : j # i => w[j] = v[j]
    PROVE  g[n] = h[n] + d
<1> DEFINE f == [k \in 0..n |-> IF k < i THEN h[k] ELSE h[k] + d]
<1>1. \A k \in 0..n : h[k] \in Nat
  BY SumsNat
<1>2. CP!Sums(f, w, n)
  <2>1. f[0] = 0
    BY DEF CP!Sums
  <2>2. ASSUME NEW k \in 1..n
        PROVE  f[k] = f[k - 1] + w[k]
    <3>1. h[k] = h[k - 1] + v[k] /\ k - 1 \in 0..n /\ k \in 0..n
      BY DEF CP!Sums
    <3>2. h[k] \in Nat /\ h[k - 1] \in Nat /\ v[k] \in Nat
      BY <1>1, <3>1
    <3>3. CASE k < i
      <4>1. w[k] = v[k] /\ f[k] = h[k] /\ f[k - 1] = h[k - 1]
        BY <3>1, <3>3
      <4>2. QED
        BY <3>1, <4>1
    <3>4. CASE k = i
      <4>1. w[k] = v[k] + d /\ f[k] = h[k] + d /\ f[k - 1] = h[k - 1]
        BY <3>1, <3>4
      <4>2. QED
        BY <3>1, <3>2, <4>1
    <3>5. CASE k > i
      <4>1. w[k] = v[k] /\ f[k] = h[k] + d /\ f[k - 1] = h[k - 1] + d
        BY <3>1, <3>5
      <4>2. QED
        BY <3>1, <3>2, <4>1
    <3>6. QED
      BY <3>3, <3>4, <3>5
  <2> HIDE DEF f
  <2>3. QED
    BY <2>1, <2>2 DEF CP!Sums
<1>3. f[n] = h[n] + d
  OBVIOUS
<1> HIDE DEF f
<1>4. f[n] = g[n]
  BY <1>2, SumsUnique
<1>5. QED
  BY <1>3, <1>4

\* What the records of a cart add up to.
CartTotal(cart) == FoldLeft(LAMBDA sum, p : sum + cart[p], 0, SetToSeq(Products))

\* SetToSeq lists the products, each once.
LEMMA ProductsListed ==
    LET s == SetToSeq(Products)
    IN  /\ s \in Seq(Products)
        /\ \A p \in Products : \E j \in 1..Len(s) : s[j] = p
        /\ \A i, j \in 1..Len(s) : s[i] = s[j] => i = j
<1> DEFINE s == SetToSeq(Products)
           n == Cardinality(Products)
           Good(f) == f \in [1..n -> Products] /\ IsInjective(f)
<1>1. n \in Nat /\ ExistsBijection(1..n, Products) /\ IsFiniteSet(Products)
  BY FS_CardinalityType, PurchaseAssumption
<1>2. \E f : Good(f)
  BY <1>1 DEF ExistsBijection, Bijection, Injection, Surjection, IsInjective
<1>3. s = CHOOSE f : Good(f)
  BY DEF SetToSeq
<1>4. Good(s)
  BY <1>2, <1>3
<1>5. s \in [1..n -> Products] /\ \A i, j \in 1..n : s[i] = s[j] => i = j
  BY <1>4 DEF IsInjective
<1> HIDE DEF s
<1>6. s \in Injection(1..n, Products)
  BY <1>5 DEF Injection, IsInjective
<1>7. s \in Surjection(1..n, Products)
  <2>1. IsFiniteSet(1..n) /\ Cardinality(1..n) = n
    BY <1>1, FS_Interval
  <2>2. QED
    BY <1>1, <1>6, <2>1, FS_Injection
<1> HIDE DEF n
<1>8. s \in Seq(Products) /\ Len(s) = n
  BY <1>1, <1>5
<1>9. QED
  BY <1>5, <1>7, <1>8 DEF s, Surjection

\* The total of a cart is the last of the partial sums of its records.
LEMMA CartTotalIs ==
    ASSUME NEW cart
    PROVE  LET s == SetToSeq(Products)
           IN  \E h : /\ CP!Sums(h, [j \in 1..Len(s) |-> cart[s[j]]], Len(s))
                      /\ CartTotal(cart) = h[Len(s)]
<1> DEFINE s == SetToSeq(Products)
           n == Len(s)
           v == [j \in 1..n |-> cart[s[j]]]
           Good(f) == f = [t \in SUBSET DOMAIN s |->
                             IF t = {} THEN 0 ELSE f[t \ {Max(t)}] + cart[s[Max(t)]]]
<1>1. n \in Nat /\ DOMAIN s = 1..n
  BY ProductsListed
<1>2. CartTotal(cart) = (CHOOSE f : Good(f))[DOMAIN s]
  BY DEF CartTotal, FoldLeft, MapThenFoldSet
<1> HIDE DEF s
<1>3. \A f : Good(f) <=> CP!Folds(f, v, n)
  <2>1. \A t \in SUBSET (1..n) : t # {} => Max(t) \in 1..n
    BY <1>1, Greatest
  <2>2. \A t \in SUBSET (1..n) : t # {} => v[Max(t)] = cart[s[Max(t)]]
    BY <2>1
  <2>3. \A t : CP!Max(t) = Max(t)
    BY DEF CP!Max, Max
  <2> HIDE DEF v
  <2>4. QED
    BY <1>1, <2>2, <2>3 DEF CP!Folds
<1> HIDE DEF v
<1>4. \E f : Good(f)
  <2>1. \E f : CP!Folds(f, v, n)
    BY <1>1, CP!FoldsExist, CartAssumptions, Zenon
  <2>2. QED
    BY <1>3, <2>1
<1>5. Good(CHOOSE f : Good(f))
  BY <1>4
<1> DEFINE f == CHOOSE f : Good(f)
<1>6. CP!Folds(f, v, n)
  BY <1>3, <1>5
<1> HIDE DEF f, Good
<1>7. PICK h : CP!Sums(h, v, n) /\ h[n] = f[1..n]
  BY <1>1, <1>6, CP!FoldsSum, CartAssumptions, Zenon
<1>8. CartTotal(cart) = h[n]
  BY <1>1, <1>2, <1>7 DEF f
<1>9. QED
  BY <1>7, <1>8 DEF v, s

\* The line of a product in the list of a cart.
RecordOf(u, cart, p) == CP!P!K!ChildAdded(u, p, cart[p])
RecordsOf(u, cart) == {RecordOf(u, cart, p) : p \in {q \in Products : cart[q] # Absent}}

\* In a list with the records of a cart, each once, a product has one line at most.
LEMMA ListIsInjective ==
    ASSUME NEW u, NEW cart, NEW list \in Seq(CP!P!Line),
           ToSet(list) = RecordsOf(u, cart), Len(list) = Cardinality(RecordsOf(u, cart))
    PROVE  /\ \A i \in 1..Len(list) : list[i] = RecordOf(u, cart, list[i].key)
                    /\ list[i].key \in Products /\ cart[list[i].key] # Absent
           /\ \A p \in Products : cart[p] # Absent => \E i \in 1..Len(list) : list[i].key = p
           /\ \A i, j \in 1..Len(list) : list[i].key = list[j].key => i = j
<1> DEFINE n == Len(list)
<1>1. n \in Nat /\ DOMAIN list = 1..n
  OBVIOUS
<1>2. {list[i] : i \in 1..n} = RecordsOf(u, cart)
  BY <1>1 DEF ToSet
<1>3. \A i \in 1..n : list[i] = RecordOf(u, cart, list[i].key)
                    /\ list[i].key \in Products /\ cart[list[i].key] # Absent
  <2>1. SUFFICES ASSUME NEW i \in 1..n
                 PROVE  list[i] = RecordOf(u, cart, list[i].key)
                          /\ list[i].key \in Products /\ cart[list[i].key] # Absent
    OBVIOUS
  <2>2. PICK p \in Products : cart[p] # Absent /\ list[i] = RecordOf(u, cart, p)
    BY <1>2 DEF RecordsOf
  <2>3. list[i].key = p
    BY <2>2 DEF RecordOf, CP!P!K!ChildAdded
  <2>4. QED
    BY <2>2, <2>3
<1>4. ASSUME NEW p \in Products, cart[p] # Absent
      PROVE  \E i \in 1..n : list[i].key = p
  <2>1. RecordOf(u, cart, p) \in RecordsOf(u, cart)
    BY <1>4 DEF RecordsOf
  <2>2. PICK i \in 1..n : list[i] = RecordOf(u, cart, p)
    BY <1>2, <2>1
  <2>3. QED
    BY <2>2 DEF RecordOf, CP!P!K!ChildAdded
<1>5. \A i, j \in 1..n : list[i] = list[j] => i = j
  <2>1. list \in Surjection(1..n, RecordsOf(u, cart))
    BY <1>1, <1>2 DEF Surjection
  <2>2. IsFiniteSet(1..n) /\ Cardinality(1..n) = n
    BY <1>1, FS_Interval
  <2>3. list \in Injection(1..n, RecordsOf(u, cart))
    BY <2>1, <2>2, FS_Surjection
  <2>4. QED
    BY <2>3 DEF Injection, IsInjective
<1>6. \A i, j \in 1..n : list[i].key = list[j].key => i = j
  BY <1>3, <1>5
<1>7. QED
  BY <1>3, <1>4, <1>6

\* Such a list adds up to the cart, in whatever order it is.
LEMMA ListTotal ==
    ASSUME NEW u, NEW cart \in [Products -> Nat], NEW list \in Seq(CP!P!Line),
           ToSet(list) = RecordsOf(u, cart), Len(list) = Cardinality(RecordsOf(u, cart))
    PROVE  CP!SumOf(list) = CartTotal(cart)
<1> DEFINE s == SetToSeq(Products)
           N == Len(s)
           n == Len(list)
           vals == [i \in 1..n |-> list[i].val]
           Done(k, j) == \E i \in 1..k : list[i].key = s[j]
           part(k) == [j \in 1..N |-> IF Done(k, j) THEN cart[s[j]] ELSE 0]
<1>1. /\ N \in Nat /\ \A j \in 1..N : s[j] \in Products
      /\ \A p \in Products : \E j \in 1..N : s[j] = p
      /\ \A i, j \in 1..N : s[i] = s[j] => i = j
  BY ProductsListed
<1>2. PICK h : CP!Sums(h, [j \in 1..N |-> cart[s[j]]], N) /\ CartTotal(cart) = h[N]
  BY CartTotalIs
<1> HIDE DEF s
<1>3. /\ n \in Nat
      /\ \A i \in 1..n : list[i].key \in Products /\ list[i].val = cart[list[i].key]
      /\ \A p \in Products : cart[p] # 0 => \E i \in 1..n : list[i].key = p
      /\ \A i, j \in 1..n : list[i].key = list[j].key => i = j
  <2>1. \A i \in 1..n : list[i] = RecordOf(u, cart, list[i].key) => list[i].val = cart[list[i].key]
    BY DEF RecordOf, CP!P!K!ChildAdded
  <2>2. QED
    BY <2>1, ListIsInjective DEF Absent
<1>4. PICK g : CP!Sums(g, vals, n) /\ CP!SumOf(list) = g[n]
  BY CP!SumOfIs, CartAssumptions, Zenon
<1>5. \A k \in 0..n : g[k] \in Nat
  <2>1. \A i \in 1..n : vals[i] \in Nat
    BY <1>3
  <2> HIDE DEF vals
  <2>2. QED
    BY <1>3, <1>4, <2>1, SumsNat
<1> HIDE DEF vals, N, n
<1> DEFINE Reached(k) == \E f : CP!Sums(f, part(k), N) /\ f[N] = g[k]
           S == {k \in 0..n : ~Reached(k)}
<1>6. n \notin S
  <2>1. CASE S = {}
    BY <2>1
  <2>2. CASE S # {}
    <3>0. S \subseteq Nat
      OBVIOUS
    <3>1. PICK k \in S : \A j \in S : k <= j
      BY <2>2, <3>0, Least
    <3>2. k # 0
      <4>1. PICK f : CP!Sums(f, part(0), N)
        BY <1>1, SumsExist
      <4>2. CP!Sums([i \in 0..N |-> 0], part(0), N)
        BY <1>1 DEF CP!Sums
      <4>3. f[N] = [i \in 0..N |-> 0][N]
        <5> HIDE DEF part
        <5>1. QED
          BY <1>1, <4>1, <4>2, SumsUnique
      <4>4. f[N] = g[0]
        BY <1>1, <1>4, <4>3 DEF CP!Sums
      <4>5. Reached(0)
        BY <4>1, <4>4
      <4>6. QED
        BY <3>1, <4>5
    <3>3. k \in 1..n /\ k - 1 \in 0..n /\ Reached(k - 1)
      <4> HIDE DEF Reached
      <4>1. QED
        BY <1>3, <3>1, <3>2
    <3>4. PICK f : CP!Sums(f, part(k - 1), N) /\ f[N] = g[k - 1]
      <4> HIDE DEF part
      <4>1. QED
        BY <3>3
    <3>5. PICK e : CP!Sums(e, part(k), N)
      BY <1>1, SumsExist
    <3>6. PICK j \in 1..N : s[j] = list[k].key
      BY <1>1, <1>3, <3>3
    <3> DEFINE d == cart[list[k].key]
    <3>7. d \in Nat /\ g[k] = g[k - 1] + d
      <4>1. g[k] = g[k - 1] + vals[k] /\ vals[k] = list[k].val
        BY <1>4, <3>3 DEF CP!Sums, vals
      <4>2. QED
        BY <1>3, <3>3, <4>1
    <3>8. part(k)[j] = part(k - 1)[j] + d
      <4>1. ~Done(k - 1, j)
        BY <1>3, <3>3, <3>6
      <4>2. Done(k, j)
        <5>1. k \in 1..k
          BY <3>3
        <5>2. QED
          BY <3>6, <5>1
      <4>3. QED
        BY <3>6, <3>7, <4>1, <4>2
    <3>9. \A i \in 1..N : i # j => part(k)[i] = part(k - 1)[i]
      <4>1. SUFFICES ASSUME NEW i \in 1..N, i # j PROVE Done(k, i) <=> Done(k - 1, i)
        OBVIOUS
      <4>2. list[k].key # s[i]
        BY <1>1, <3>6, <4>1
      <4>3. \A m \in 1..k : m = k \/ m \in 1..(k - 1)
        BY <3>3
      <4>4. 1..(k - 1) \subseteq 1..k
        BY <3>3
      <4>5. QED
        BY <4>2, <4>3, <4>4
    <3>10. \A i \in 1..N : part(k - 1)[i] \in Nat
      BY <1>1
    <3> HIDE DEF part, d, Reached
    <3>11. e[N] = f[N] + d
      <4>1. /\ N \in Nat /\ d \in Nat /\ CP!Sums(f, part(k - 1), N) /\ CP!Sums(e, part(k), N)
            /\ \A i \in 1..N : i # j => part(k)[i] = part(k - 1)[i]
        BY <1>1, <3>4, <3>5, <3>7, <3>9
      <4>2. QED
        BY <3>8, <3>10, <4>1, SumsBump, ZenonT(30)
    <3>12. e[N] = g[k]
      BY <3>4, <3>7, <3>11
    <3>13. Reached(k)
      BY <3>5, <3>12 DEF Reached
    <3>14. QED
      BY <3>1, <3>13
  <2>3. QED
    BY <2>1, <2>2
<1>7. PICK f : CP!Sums(f, part(n), N) /\ f[N] = g[n]
  <2>1. Reached(n)
    <3> HIDE DEF Reached
    <3>1. QED
      BY <1>3, <1>6
  <2> HIDE DEF part
  <2>2. QED
    BY <2>1
<1>8. \A j \in 1..N : part(n)[j] = [i \in 1..N |-> cart[s[i]]][j]
  BY <1>1, <1>3
<1> HIDE DEF part
<1>9. f[N] = h[N]
  BY <1>1, <1>2, <1>7, <1>8, SumsUnique
<1>10. QED
  BY <1>2, <1>4, <1>7, <1>9

-----------------------------------------------------------------------------
(* Both instances of the cart screen are the same. *)

LEMMA SameTypes ==
    /\ C!TypeOK <=> CP!TypeOK
    /\ C!Init <=> CP!Init
    /\ C!P!Line = CP!P!Line
    /\ C!P!K!Quiet <=> CP!P!K!Quiet
BY DEF C!TypeOK, CP!TypeOK, C!P!TypeOK, CP!P!TypeOK, C!P!K!TypeOK, CP!P!K!TypeOK,
       C!P!Line, CP!P!Line, C!P!K!Event, CP!P!K!Event,
       C!Init, CP!Init, C!P!Init, CP!P!Init, C!P!K!Init, CP!P!K!Init,
       C!P!K!Quiet, CP!P!K!Quiet, C!Absent, CP!Absent

LEMMA SameTypesNext == C!TypeOK' <=> CP!TypeOK'
BY SameTypes, PTL

LEMMA SameTick == C!Tick <=> CP!Tick
BY DEF C!Tick, CP!Tick, C!P!Tick, CP!P!Tick, C!ResetTotal, CP!ResetTotal,
       C!P!fetchFavProducts, CP!P!fetchFavProducts, C!P!listenerVars, CP!P!listenerVars,
       C!P!K!Observe, CP!P!K!Observe, C!P!K!Quiet, CP!P!K!Quiet

LEMMA SameEvent == C!childAdded <=> CP!childAdded
BY DEF C!childAdded, CP!childAdded, C!P!childAdded, CP!P!childAdded, C!P!K!Deliver, CP!P!K!Deliver,
       C!P!newProduct, CP!P!newProduct, C!P!reloadData, CP!P!reloadData,
       C!P!K!NextEvent, CP!P!K!NextEvent, C!TotalWith, CP!TotalWith

LEMMA SameRegister == C!Register <=> CP!Register
<1>1. ASSUME NEW S PROVE C!P!K!SetToSeq(S) = CP!P!K!SetToSeq(S)
  BY DEF C!P!K!SetToSeq, CP!P!K!SetToSeq, C!P!K!Cardinality, CP!P!K!Cardinality,
         C!P!K!IsInjective, CP!P!K!IsInjective
<1>2. \A r : {C!P!K!ChildAdded(r, k, cached[r][k]) : k \in C!P!K!Children(r)}
               = {CP!P!K!ChildAdded(r, k, cached[r][k]) : k \in CP!P!K!Children(r)}
  BY DEF C!P!K!Children, CP!P!K!Children, C!P!K!ChildAdded, CP!P!K!ChildAdded, C!Absent, CP!Absent
<1>3. QED
  BY <1>1, <1>2, ZenonT(30) DEF C!Register, CP!Register, C!P!Register, CP!P!Register,
       C!P!K!AddEventRegistration, CP!P!K!AddEventRegistration

LEMMA SameChange ==
    /\ \A u, p, s : C!CartChange(u, p, s) <=> CP!CartChange(u, p, s)
    /\ \A i : C!removeItem(i) <=> CP!removeItem(i)
BY DEF C!CartChange, CP!CartChange, C!removeItem, CP!removeItem,
       C!P!RecordChange, CP!P!RecordChange, C!P!K!Change, CP!P!K!Change,
       C!P!K!ChildAdded, CP!P!K!ChildAdded, C!Absent, CP!Absent

LEMMA SameSession ==
    /\ C!SignOut <=> CP!SignOut
    /\ \A u : (C!SignIn(u) <=> CP!SignIn(u)) /\ (C!Revoke(u) <=> CP!Revoke(u))
BY DEF C!SignOut, CP!SignOut, C!P!SignOut, CP!P!SignOut, C!P!listenerVars, CP!P!listenerVars,
       C!SignIn, CP!SignIn, C!P!SignIn, CP!P!SignIn,
       C!Revoke, CP!Revoke, C!P!Revoke, CP!P!Revoke, C!P!K!Revoke, CP!P!K!Revoke, C!Absent, CP!Absent

-----------------------------------------------------------------------------
(* The invariant. *)

\* A subtotal is that of a number of items the stepper can show.
Good(p, s) == \E n \in 1..MaxCount : s = n * Price[p]
AllGood(list) == \A i \in 1..Len(list) : Good(list[i].key, list[i].val)
GoodCart(cart) == \A p \in Products : cart[p] = Absent \/ Good(p, cart[p])
InRange ==
    /\ \A u \in Users : GoodCart(cached[u])
    /\ GoodCart(order)
    /\ AllGood(mainQueue) /\ AllGood(products) /\ AllGood(handed.list)

\* The rows and their label are the list and its total, or a tick has emptied both.
HandOver ==
    /\ \/ shown = products /\ label = total
       \/ products = <<>> /\ total = 0
    /\ handed = Nothing \/ handed = [list |-> seen.rows, total |-> seen.label]

\* While nothing disturbs it, what was handed over from a clean list is the cart.
FromCart ==
    /\ seen.cart = CartOf(uid)
    /\ CP!P!Lists(handed.list, uid)
    /\ handed.total = CP!SumOf(handed.list)
\* And once bought, it is what was ordered: PurchaseExact.
Bought == order = seen.cart /\ handed.total = CartTotal(order) /\ cached[uid] = EmptyCart
Steady == (steady = "handed" => FromCart) /\ (steady = "bought" => Bought)

IInv == CP!IInv /\ CP!SubtotalMatches /\ TypeOK /\ InRange /\ HandOver /\ Steady

LEMMA NothingTypes ==
    /\ Nothing \in [list : Seq(C!P!Line), total : Nat]
    /\ Unseen \in [rows : Seq(C!P!Line), label : Nat, cart : Cart]
    /\ EmptyCart \in Cart /\ AnyProduct \in Products
    /\ 1 \in 1..MaxCount
    /\ GoodCart(EmptyCart) /\ AllGood(<<>>) /\ Nothing.list = <<>>
<1>1. EmptyCart \in Cart
  BY DEF EmptyCart, Cart
<1>2. <<>> \in Seq(C!P!Line) /\ Len(<<>>) = 0
  OBVIOUS
<1>3. AnyProduct \in Products /\ 1 \in 1..MaxCount
  BY PurchaseAssumption DEF AnyProduct
<1>4. QED
  BY <1>1, <1>2, <1>3 DEF Nothing, Unseen, EmptyCart, GoodCart, AllGood

LEMMA PurchaseInit == Init => IInv
<1> SUFFICES ASSUME Init PROVE IInv
  OBVIOUS
<1>1. CP!IInv /\ CP!SubtotalMatches
  BY CartInit, SameTypes DEF Init
<1>2. TypeOK
  BY <1>1, SameTypes, NothingTypes DEF Init, TypeOK, Screens, CP!IInv
<1>3. /\ cached = [u \in Users |-> [p \in Products |-> Absent]]
      /\ mainQueue = <<>> /\ products = <<>> /\ shown = <<>> /\ total = 0 /\ label = 0
  BY DEF Init, C!Init, C!P!Init, C!P!K!Init, Absent, C!Absent
<1>4. InRange
  BY <1>3, NothingTypes DEF Init, InRange, GoodCart
<1>5. HandOver
  BY <1>3 DEF Init, HandOver
<1>6. Steady
  BY DEF Init, Steady
<1>7. QED
  BY <1>1, <1>2, <1>4, <1>5, <1>6 DEF IInv

-----------------------------------------------------------------------------
(* What the cart screen does meanwhile. *)

LEMMA InvTypes ==
    ASSUME IInv
    PROVE  /\ cached \in [Users -> [Products -> SubTotals \cup {Absent}]]
           /\ observers \in [Users -> Nat]
           /\ registering \in Seq(Users) /\ mainQueue \in Seq(CP!P!K!Event)
           /\ uid \in Users \cup {NoUser}
           /\ products \in Seq(CP!P!Line) /\ shown \in Seq(CP!P!Line)
           /\ total \in Nat /\ label \in Nat
BY DEF IInv, CP!IInv, CP!TypeOK, CP!P!TypeOK, CP!P!K!TypeOK, Absent, CP!Absent

\* Neither what the screens hold nor the cart is touched, or it is and the
\* purchase is no longer undisturbed.
LEMMA Meanwhile ==
    ASSUME IInv, [CP!Next]_CP!vars,
           UNCHANGED <<shopVars, handed, order, seen>>,
           \A u \in Users : GoodCart(cached[u])', AllGood(mainQueue)', AllGood(products)',
           (shown' = products' /\ label' = total') \/ (products' = <<>> /\ total' = 0),
           steady' = "no" \/ UNCHANGED <<steady, cached, uid>>
    PROVE  IInv'
<1>1. CP!IInv' /\ CP!SubtotalMatches'
  BY CartStep DEF IInv
<1>2. TypeOK'
  <2>1. C!TypeOK'
    BY <1>1, SameTypesNext DEF CP!IInv
  <2>2. steady' \in {"no", "handed", "bought"}
    BY DEF IInv, TypeOK
  <2>3. QED
    BY <2>1, <2>2 DEF IInv, TypeOK, shopVars, C!P!Line
<1>3. InRange'
  BY DEF IInv, InRange, GoodCart, AllGood
<1>4. HandOver'
  BY DEF IInv, HandOver
<1>5. Steady'
  <2>1. CASE steady' = "no"
    BY <2>1 DEF Steady
  <2>2. CASE UNCHANGED <<steady, cached, uid>>
    <3>1. CP!P!Lists(handed.list, uid) <=> CP!P!Lists(handed.list, uid)'
      BY <2>2 DEF CP!P!Lists, CP!P!Records, CP!P!K!Children
    <3>2. QED
      BY <2>2, <3>1 DEF IInv, Steady, FromCart, CartOf, Bought
  <2>3. QED
    BY <2>1, <2>2
<1>6. QED
  BY <1>1, <1>2, <1>3, <1>4, <1>5 DEF IInv

LEMMA TickStep ==
    ASSUME IInv, Tick
    PROVE  IInv'
<1>1. CP!Tick /\ UNCHANGED <<shopVars, handed, order, seen, steady>>
  BY SameTick DEF Tick, handVars
<1>2. /\ products' = <<>> /\ total' = 0
      /\ UNCHANGED <<cached, mainQueue, uid>>
  BY <1>1 DEF CP!Tick, CP!P!Tick, CP!ResetTotal, CP!P!fetchFavProducts, CP!P!K!Observe,
              CP!P!listenerVars
<1>3. CP!Next
  BY <1>1 DEF CP!Next
<1>4. AllGood(products)'
  BY <1>2, NothingTypes DEF AllGood
<1>5. (\A u \in Users : GoodCart(cached[u])') /\ AllGood(mainQueue)'
  BY <1>2 DEF IInv, InRange, GoodCart, AllGood
<1>6. QED
  BY <1>1, <1>2, <1>3, <1>4, <1>5, Meanwhile

LEMMA EventStep ==
    ASSUME IInv, childAdded
    PROVE  IInv'
<1>1. CP!childAdded /\ UNCHANGED <<shopVars, handed, order, seen, steady>>
  BY SameEvent DEF childAdded, handVars
<1>2. /\ mainQueue # <<>> /\ mainQueue' = Tail(mainQueue)
      /\ products' = Append(products, mainQueue[1])
      /\ shown' = products' /\ label' = total' /\ UNCHANGED <<cached, uid>>
  BY <1>1 DEF CP!childAdded, CP!P!childAdded, CP!P!K!Deliver, CP!P!K!NextEvent,
              CP!P!newProduct, CP!P!reloadData
<1>3. CP!Next
  BY <1>1 DEF CP!Next
<1>4. mainQueue \in Seq(CP!P!K!Event) /\ products \in Seq(CP!P!Line)
  BY InvTypes
<1>5. AllGood(mainQueue) /\ AllGood(products) /\ \A u \in Users : GoodCart(cached[u])
  BY DEF IInv, InRange
<1>6. AllGood(mainQueue')
  <2>1. Len(mainQueue') = Len(mainQueue) - 1
        /\ \A i \in 1..Len(mainQueue') : i + 1 \in 1..Len(mainQueue) /\ mainQueue'[i] = mainQueue[i + 1]
    BY <1>2, <1>4
  <2>2. QED
    BY <1>5, <2>1 DEF AllGood
<1>7. AllGood(products')
  <2>1. Len(products) \in Nat /\ Len(mainQueue) \in Nat \ {0}
    BY <1>2, <1>4
  <2>2. Len(products') = Len(products) + 1 /\ products'[Len(products) + 1] = mainQueue[1]
        /\ \A i \in 1..Len(products) : products'[i] = products[i]
    BY <1>2, <1>4
  <2>3. 1 \in 1..Len(mainQueue)
        /\ \A i \in 1..Len(products') : i \in 1..Len(products) \/ i = Len(products) + 1
    BY <2>1, <2>2
  <2>4. QED
    BY <1>5, <2>2, <2>3 DEF AllGood
<1>8. QED
  BY <1>1, <1>2, <1>3, <1>5, <1>6, <1>7, Meanwhile DEF GoodCart, AllGood

\* Joined lists of good lines are good.
LEMMA GoodJoined ==
    ASSUME NEW S, NEW T, NEW a \in Seq(S), NEW b \in Seq(T), AllGood(a), AllGood(b)
    PROVE  AllGood(a \o b)
<1>1. Len(a) \in Nat /\ Len(b) \in Nat /\ Len(a \o b) = Len(a) + Len(b)
  OBVIOUS
<1>2. ASSUME NEW i \in 1..Len(a \o b)
      PROVE  Good((a \o b)[i].key, (a \o b)[i].val)
  <2>1. CASE i <= Len(a)
    <3>1. i \in 1..Len(a) /\ (a \o b)[i] = a[i]
      BY <1>1, <2>1
    <3>2. QED
      BY <3>1 DEF AllGood
  <2>2. CASE i > Len(a)
    <3>1. i - Len(a) \in 1..Len(b) /\ (a \o b)[i] = b[i - Len(a)]
      BY <1>1, <2>2, SMTT(30)
    <3>2. QED
      BY <3>1 DEF AllGood
  <2>3. QED
    BY <1>1, <2>1, <2>2
<1>3. QED
  BY <1>2 DEF AllGood

LEMMA RegisterStep ==
    ASSUME IInv, Register
    PROVE  IInv'
<1>1. CP!Register /\ UNCHANGED <<shopVars, handed, order, seen, steady>>
  BY SameRegister DEF Register, handVars
<1> DEFINE r == Head(registering)
           events == {CP!P!K!ChildAdded(r, k, cached[r][k]) : k \in CP!P!K!Children(r)}
           initial == CP!P!K!SetToSeq(events)
<1>2. /\ registering # <<>> /\ mainQueue' = mainQueue \o initial
      /\ UNCHANGED <<cached, uid, products, shown, total, label>>
  BY <1>1 DEF CP!Register, CP!P!Register, CP!P!K!AddEventRegistration
<1>3. CP!Next
  BY <1>1 DEF CP!Next
<1>4. r \in Users /\ mainQueue \in Seq(CP!P!K!Event)
  BY <1>2, InvTypes
<1>5. AllGood(mainQueue) /\ AllGood(products) /\ \A u \in Users : GoodCart(cached[u])
  BY DEF IInv, InRange
<1>6. \A e \in events : Good(e.key, e.val)
  BY <1>4, <1>5 DEF CP!P!K!ChildAdded, CP!P!K!Children, GoodCart, Absent, CP!Absent
<1>7. initial \in Seq(events)
  <2>1. CP!IsFiniteSet(events)
    <3>1. IsFiniteSet(CP!P!K!Children(r))
      BY PurchaseAssumption, FS_Subset DEF CP!P!K!Children
    <3>2. IsFiniteSet(events)
      <4> DEFINE g == [k \in CP!P!K!Children(r) |-> CP!P!K!ChildAdded(r, k, cached[r][k])]
      <4>1. g \in Surjection(CP!P!K!Children(r), events)
        BY DEF Surjection
      <4>2. QED
        BY <3>1, <4>1, FS_Surjection
    <3>3. QED
      BY <3>2 DEF IsFiniteSet, CP!IsFiniteSet
  <2> HIDE DEF events
  <2>2. QED
    BY <2>1, CP!Listed, CartAssumptions, Zenon
<1>8. AllGood(initial)
  <2> HIDE DEF events, initial
  <2>1. \A i \in 1..Len(initial) : initial[i] \in events
    BY <1>7
  <2>2. QED
    BY <1>6, <2>1 DEF AllGood
<1>9. AllGood(mainQueue')
  <2> HIDE DEF events, initial
  <2>1. QED
    BY <1>2, <1>4, <1>5, <1>7, <1>8, GoodJoined
<1>10. QED
  BY <1>1, <1>2, <1>3, <1>5, <1>9, Meanwhile DEF IInv, HandOver, GoodCart, AllGood

\* A record of the cart is written or removed.
LEMMA ChangeStep ==
    ASSUME IInv, NEW u \in Users, NEW p \in Products, NEW v, v = Absent \/ Good(p, v),
           CP!CartChange(u, p, v), CP!Next,
           steady' = "no", UNCHANGED <<shopVars, handed, order, seen>>
    PROVE  IInv'
<1> DEFINE events == [i \in 1..observers[u] |-> CP!P!K!ChildAdded(u, p, v)]
<1>1. /\ cached[u][p] # v /\ cached' = [cached EXCEPT ![u][p] = v]
      /\ mainQueue' = IF cached[u][p] = Absent THEN mainQueue \o events ELSE mainQueue
      /\ UNCHANGED <<uid, products, shown, total, label>>
  BY DEF CP!CartChange, CP!P!RecordChange, CP!P!K!Change, Absent, CP!Absent
<1>2. /\ AllGood(mainQueue) /\ AllGood(products) /\ \A w \in Users : GoodCart(cached[w])
      /\ cached \in [Users -> [Products -> SubTotals \cup {Absent}]]
      /\ observers[u] \in Nat /\ mainQueue \in Seq(CP!P!K!Event)
  BY InvTypes DEF IInv, InRange
<1>3. \A w \in Users : GoodCart(cached'[w])
  BY <1>1, <1>2 DEF GoodCart
<1>4. AllGood(mainQueue')
  <2>1. CASE cached[u][p] = Absent
    <3>1. events \in Seq({CP!P!K!ChildAdded(u, p, v)}) /\ Len(events) = observers[u]
      BY <1>2
    <3>2. Good(p, v)
      BY <1>1, <2>1
    <3>3. AllGood(events)
      BY <3>1, <3>2 DEF AllGood, CP!P!K!ChildAdded
    <3> HIDE DEF events
    <3>4. QED
      BY <1>1, <1>2, <2>1, <3>1, <3>3, GoodJoined
  <2>2. CASE cached[u][p] # Absent
    BY <1>1, <1>2, <2>2
  <2>3. QED
    BY <2>1, <2>2
<1> HIDE DEF events
<1>5. QED
  BY <1>1, <1>2, <1>3, <1>4, Meanwhile DEF IInv, HandOver, GoodCart, AllGood

LEMMA RevokeStep ==
    ASSUME IInv, NEW u \in Users, Revoke(u)
    PROVE  IInv'
<1>1. CP!Revoke(u) /\ steady' = "no" /\ UNCHANGED <<shopVars, handed, order, seen>>
  BY SameSession DEF Revoke
<1>2. /\ cached' = [cached EXCEPT ![u] = [k \in Products |-> Absent]]
      /\ UNCHANGED <<mainQueue, uid, products, shown, total, label>>
  BY <1>1 DEF CP!Revoke, CP!P!Revoke, CP!P!K!Revoke, Absent, CP!Absent
<1>3. CP!Next
  BY <1>1 DEF CP!Next
<1>4. \A w \in Users : GoodCart(cached'[w])
  BY <1>2, InvTypes DEF IInv, InRange, GoodCart
<1>5. QED
  BY <1>1, <1>2, <1>3, <1>4, Meanwhile DEF IInv, InRange, HandOver, GoodCart, AllGood

LEMMA SessionStep ==
    ASSUME IInv, SignOut \/ \E u \in Users : SignIn(u)
    PROVE  IInv'
<1>1. /\ CP!SignOut \/ \E u \in Users : CP!SignIn(u)
      /\ steady' = "no" /\ UNCHANGED <<shopVars, handed, order, seen>>
  BY SameSession DEF SignOut, SignIn
<1>2. UNCHANGED <<cached, mainQueue, products, shown, total, label>>
  BY <1>1 DEF CP!SignOut, CP!P!SignOut, CP!SignIn, CP!P!SignIn, CP!P!listenerVars
<1>3. CP!Next
  BY <1>1 DEF CP!Next
<1>4. QED
  BY <1>1, <1>2, <1>3, Meanwhile DEF IInv, InRange, HandOver, GoodCart, AllGood

-----------------------------------------------------------------------------
(* What the owner does. *)

LEMMA GoodSubTotal ==
    ASSUME NEW p \in Products, NEW s, Good(p, s)
    PROVE  s \in SubTotals
<1>1. PICK n \in 1..MaxCount : s = n * Price[p]
  BY DEF Good
<1>2. n \in Nat /\ Price[p] \in Nat
  BY PurchaseAssumption
<1>3. \A x, y \in Nat : x * y = y * x
  OBVIOUS
<1>4. s = Price[p] * n
  BY <1>1, <1>2, <1>3
<1>5. QED
  BY <1>4 DEF SubTotals

\* A screen is opened or left: it holds nothing yet, or what it was handed.
LEMMA MoveStep ==
    ASSUME IInv, UNCHANGED cartVars, UNCHANGED handVars \/ NoHandOver,
           screen' \in Screens, product' \in Products, count' \in 1..MaxCount
    PROVE  IInv'
<1>1. CP!IInv' /\ CP!SubtotalMatches'
  <2>1. UNCHANGED CP!vars
    BY DEF cartVars, CP!vars, CP!listVars
  <2>2. QED
    BY <2>1, CartStep DEF IInv
<1>2. CASE UNCHANGED handVars
  <2>1. TypeOK'
    BY <1>1, <1>2, SameTypesNext DEF IInv, CP!IInv, TypeOK, handVars, C!P!Line
  <2>2. InRange' /\ HandOver'
    BY <1>2 DEF IInv, InRange, GoodCart, AllGood, HandOver, cartVars, handVars
  <2>3. Steady'
    <3>1. CP!P!Lists(handed.list, uid) <=> CP!P!Lists(handed.list, uid)'
      BY <1>2 DEF CP!P!Lists, CP!P!Records, CP!P!K!Children, cartVars, handVars
    <3>2. QED
      BY <1>2, <3>1 DEF IInv, Steady, FromCart, CartOf, Bought, cartVars, handVars
  <2>4. QED
    BY <1>1, <2>1, <2>2, <2>3 DEF IInv
<1>3. CASE NoHandOver
  <2>1. TypeOK'
    BY <1>1, <1>3, SameTypesNext, NothingTypes DEF CP!IInv, TypeOK, NoHandOver, C!P!Line
  <2>2. InRange' /\ HandOver'
    BY <1>3, NothingTypes DEF IInv, InRange, GoodCart, AllGood, HandOver, cartVars, NoHandOver
  <2>3. Steady'
    BY <1>3 DEF Steady, NoHandOver
  <2>4. QED
    BY <1>1, <2>1, <2>2, <2>3 DEF IInv
<1>4. QED
  BY <1>2, <1>3

LEMMA MovesStep ==
    ASSUME IInv,
           \/ minusButton \/ plusButton \/ OpenCart \/ ToPayment \/ Back
           \/ \E p \in Products : OpenDetail(p)
    PROVE  IInv'
<1>1. product \in Products /\ count \in 1..MaxCount /\ MaxCount \in Nat \ {0}
  BY PurchaseAssumption DEF IInv, TypeOK
<1>2. CASE minusButton \/ plusButton
  <2>1. Minus(count) \in 1..MaxCount /\ Plus(count) \in 1..MaxCount
    BY <1>1 DEF Minus, Plus
  <2>2. QED
    BY <1>1, <1>2, <2>1, MoveStep DEF minusButton, plusButton, IInv, TypeOK
<1>3. CASE OpenCart \/ ToPayment \/ Back \/ \E p \in Products : OpenDetail(p)
  BY <1>1, <1>3, MoveStep, NothingTypes DEF OpenCart, ToPayment, Back, OpenDetail, Go, NoDetail, Screens
<1>4. QED
  BY <1>2, <1>3

\* A quantity is put into the cart.
LEMMA CartButtonStep ==
    ASSUME IInv, CartButton
    PROVE  IInv'
<1> DEFINE s == count * Price[product]
<1>1. product \in Products /\ count \in 1..MaxCount
  BY DEF IInv, TypeOK
<1>2. Good(product, s)
  BY <1>1 DEF Good
<1>3. CASE uid # NoUser /\ cached[uid][product] # s
  <2>1. /\ CP!CartChange(uid, product, s) /\ steady' = "no"
        /\ UNCHANGED <<shopVars, handed, order, seen>>
    BY <1>3, SameChange DEF CartButton
  <2>2. uid \in Users
    BY <1>3, InvTypes
  <2>3. s \in SubTotals
    BY <1>1, <1>2, GoodSubTotal
  <2> HIDE DEF s
  <2>4. CP!Next
    BY <1>1, <2>1, <2>2, <2>3 DEF CP!Next
  <2>5. QED
    BY <1>1, <1>2, <2>1, <2>2, <2>4, ChangeStep
<1>4. CASE ~(uid # NoUser /\ cached[uid][product] # s)
  <2>1. UNCHANGED <<cartVars, handVars, shopVars>>
    BY <1>4 DEF CartButton, handVars
  <2>2. QED
    BY <2>1, MoveStep DEF shopVars, IInv, TypeOK
<1>5. QED
  BY <1>3, <1>4

\* The delete button, and the other devices.
LEMMA RemoveStep ==
    ASSUME IInv, NEW i \in DOMAIN shown, removeItem(i)
    PROVE  IInv'
<1>1. CP!removeItem(i) /\ steady' = "no" /\ UNCHANGED <<shopVars, handed, order, seen>>
  BY SameChange DEF removeItem
<1>2. CP!Next
  BY <1>1 DEF CP!Next
<1>3. uid \in Users /\ shown[i] \in CP!P!Line
  BY <1>1, InvTypes DEF CP!removeItem
<1>4. shown[i].key \in Products
  BY <1>3 DEF CP!P!Line
<1>5. CP!CartChange(uid, shown[i].key, Absent)
  BY <1>1 DEF CP!removeItem, CP!CartChange, Absent, CP!Absent
<1>6. QED
  BY <1>1, <1>2, <1>3, <1>4, <1>5, ChangeStep

LEMMA OtherStep ==
    ASSUME IInv, NEW u \in Users, NEW p \in Products, NEW n \in 0..MaxCount, OtherChange(u, p, n)
    PROVE  IInv'
<1> DEFINE s == n * Price[p]
<1>1. /\ CP!CartChange(u, p, s) /\ steady' = "no"
      /\ UNCHANGED <<shopVars, handed, order, seen>>
  BY SameChange DEF OtherChange
<1>2. s = Absent \/ Good(p, s)
  <2>1. CASE n = 0
    <3>1. Price[p] \in Nat
      BY PurchaseAssumption
    <3>2. QED
      BY <2>1, <3>1 DEF Absent
  <2>2. CASE n # 0
    <3>1. n \in 1..MaxCount
      BY <2>2, PurchaseAssumption
    <3>2. QED
      BY <3>1 DEF Good
  <2>3. QED
    BY <2>1, <2>2
<1> HIDE DEF s
<1>3. CP!Next
  <2>1. s \in SubTotals \cup {CP!Absent}
    BY <1>2, GoodSubTotal DEF Absent, CP!Absent
  <2>2. QED
    BY <1>1, <2>1 DEF CP!Next
<1>4. QED
  BY <1>1, <1>2, <1>3, ChangeStep

\* The hand-over: the list and its total, which are the rows and the label, or
\* nothing; after a tick that found nothing under way, the cart.
LEMMA BuyStep ==
    ASSUME IInv, BuyButton
    PROVE  IInv'
<1>1. /\ handed' = [list |-> products, total |-> total] /\ screen' = "shipping"
      /\ seen' = [rows |-> shown, label |-> label, cart |-> CartOf(uid)]
      /\ steady' = IF clean /\ CP!P!K!Quiet THEN "handed" ELSE "no"
      /\ UNCHANGED <<cartVars, product, count, order>>
  BY SameTypes DEF BuyButton, Go, Hand
<1>2. CP!IInv' /\ CP!SubtotalMatches'
  <2>1. UNCHANGED CP!vars
    BY <1>1 DEF cartVars, CP!vars, CP!listVars
  <2>2. QED
    BY <2>1, CartStep DEF IInv
<1>3. TypeOK'
  <2>1. C!TypeOK'
    BY <1>2, SameTypesNext DEF CP!IInv
  <2>2. CartOf(uid) \in Cart
    BY InvTypes, NothingTypes DEF CartOf, Cart
  <2>3. /\ handed' \in [list : Seq(CP!P!Line), total : Nat]
        /\ seen' \in [rows : Seq(CP!P!Line), label : Nat, cart : Cart]
    BY <1>1, <2>2, InvTypes
  <2>4. product \in Products /\ count \in 1..MaxCount /\ order \in Cart
    BY DEF IInv, TypeOK
  <2>5. QED
    BY <1>1, <2>1, <2>3, <2>4, SameTypes DEF TypeOK, Screens
<1>4. InRange'
  BY <1>1 DEF IInv, InRange, GoodCart, AllGood, cartVars
<1>5. HandOver'
  BY <1>1 DEF IInv, HandOver, cartVars, Nothing
<1>6. Steady'
  <2>1. CASE clean /\ CP!P!K!Quiet
    <3>1. CP!P!Lists(products, uid)
      BY <2>1, CartExact DEF IInv, CP!CleanListExact, CP!P!CleanListExact
    <3>2. CP!P!Lists(handed.list, uid)'
      BY <1>1, <3>1 DEF CP!P!Lists, CP!P!Records, CP!P!K!Children, cartVars
    <3>3. handed'.total = CP!SumOf(handed'.list)
      BY <1>1 DEF IInv, CP!SubtotalMatches
    <3>4. seen'.cart = CartOf(uid)'
      BY <1>1 DEF CartOf, cartVars
    <3>5. QED
      BY <1>1, <2>1, <3>2, <3>3, <3>4 DEF Steady, FromCart
  <2>2. CASE ~(clean /\ CP!P!K!Quiet)
    BY <1>1, <2>2 DEF Steady
  <2>3. QED
    BY <2>1, <2>2
<1>7. QED
  BY <1>2, <1>3, <1>4, <1>5, <1>6 DEF IInv

\* The line of an order on a product is a line of the list on that product.
LEMMA LineIsThere ==
    ASSUME NEW S, NEW list \in Seq(S), NEW p \in KeysOf(list)
    PROVE  \E i \in 1..Len(list) : list[i].key = p /\ LineOf(list, p) = list[i].val
<1> DEFINE on == {i \in 1..Len(list) : list[i].key = p}
<1>1. DOMAIN list = 1..Len(list) /\ Len(list) \in Nat
  OBVIOUS
<1>2. on # {} /\ on \subseteq 1..Len(list)
  BY <1>1 DEF KeysOf
<1>3. Max(on) \in on /\ \A j \in on : j <= Max(on)
  <2> HIDE DEF on
  <2>1. QED
    BY <1>1, <1>2, Greatest
<1> DEFINE Newest(i) == list[i].key = p /\ \A j \in DOMAIN list : list[j].key = p => j <= i
<1>4. \E i \in DOMAIN list : Newest(i)
  BY <1>1, <1>3
<1>5. LineOf(list, p) = list[CHOOSE i \in DOMAIN list : Newest(i)].val
  BY DEF LineOf
<1> HIDE DEF Newest
<1>6. PICK i \in DOMAIN list : Newest(i) /\ LineOf(list, p) = list[i].val
  BY <1>4, <1>5
<1>7. QED
  BY <1>1, <1>6 DEF Newest

\* What Button does for whoever is signed in: no observer hears of a removal.
LEMMA ButtonFacts ==
    ASSUME IInv, Button, uid # NoUser
    PROVE  /\ cached' = [cached EXCEPT ![uid] = Left(cached[uid], handed.list)]
           /\ UNCHANGED <<observers, registering, mainQueue, changes>>
           /\ order' = OrderOf(handed.list) /\ clean' = FALSE /\ screen' = "home"
           /\ steady' = IF steady = "handed" THEN "bought" ELSE "no"
           /\ UNCHANGED <<uid, products, shown, total, label, product, count, handed, seen>>
<1> DEFINE left == Left(cached[uid], handed.list)
           added == {C!P!K!ChildAdded(uid, k, left[k]) :
                       k \in {k \in Products : cached[uid][k] = C!Absent /\ left[k] # C!Absent}}
<1>1. /\ cached' = [cached EXCEPT ![uid] = left]
      /\ \E s \in C!P!K!SetToSeqs(added) : mainQueue' = mainQueue \o C!P!K!ToEach(s, observers[uid])
      /\ UNCHANGED <<observers, registering, changes>>
  BY DEF Button, C!P!K!Update
<1>2. added = {}
  BY DEF Left, Absent, C!Absent
<1>3. PICK s \in C!P!K!SetToSeqs({}) : mainQueue' = mainQueue \o C!P!K!ToEach(s, observers[uid])
  BY <1>1, <1>2
<1>4. s \in [1..0 -> {}]
  <2>1. C!P!K!Cardinality({}) = 0
    BY FS_EmptySet DEF C!P!K!Cardinality, Cardinality
  <2>2. QED
    BY <2>1 DEF C!P!K!SetToSeqs
<1>5. Len(s) = 0
  BY <1>4
<1>6. uid \in Users /\ observers[uid] \in Nat /\ mainQueue \in Seq(CP!P!K!Event)
  BY InvTypes
<1>7. C!P!K!ToEach(s, observers[uid]) = <<>>
  <2>1. Len(s) * observers[uid] = 0
    BY <1>5, <1>6
  <2>2. QED
    BY <2>1 DEF C!P!K!ToEach
<1>8. mainQueue' = mainQueue
  BY <1>3, <1>6, <1>7
<1>9. QED
  BY <1>1, <1>8 DEF Button, Go

\* The order of an undisturbed purchase is the cart, and empties it.
LEMMA OrderIsCart ==
    ASSUME IInv, uid # NoUser, FromCart
    PROVE  /\ OrderOf(handed.list) = cached[uid]
           /\ Left(cached[uid], handed.list) = EmptyCart
           /\ handed.total = CartTotal(cached[uid])
<1> DEFINE list == handed.list
           cart == cached[uid]
<1>1. uid \in Users /\ cart \in [Products -> SubTotals \cup {Absent}]
  BY InvTypes
<1>2. list \in Seq(CP!P!Line)
  BY SameTypes DEF IInv, TypeOK
<1>3. ToSet(list) = RecordsOf(uid, cart) /\ Len(list) = Cardinality(RecordsOf(uid, cart))
  <2>1. CP!P!Records(uid) = RecordsOf(uid, cart)
    BY DEF CP!P!Records, CP!P!K!Children, RecordsOf, RecordOf, Absent, CP!Absent
  <2>2. /\ CP!P!ToSet(list) = CP!P!Records(uid)
        /\ Len(list) = CP!P!Cardinality(CP!P!Records(uid))
    BY DEF FromCart, CP!P!Lists
  <2>3. CP!P!ToSet(list) = ToSet(list)
    BY DEF CP!P!ToSet, ToSet
  <2>4. CP!P!Cardinality(CP!P!Records(uid)) = Cardinality(CP!P!Records(uid))
    BY DEF CP!P!Cardinality, Cardinality
  <2>5. QED
    BY <2>1, <2>2, <2>3, <2>4
<1>4. CP!SumOf(list) = CartTotal(cart)
  <2>1. cart \in [Products -> Nat]
    <3>1. SubTotals \cup {Absent} \subseteq Nat
      BY CartAssumptions DEF Absent
    <3> HIDE DEF cart
    <3>2. QED
      BY <1>1, <3>1
  <2> HIDE DEF list, cart
  <2>2. QED
    BY <1>2, <1>3, <2>1, ListTotal
<1> HIDE DEF list, cart
<1>5. /\ \A i \in 1..Len(list) : list[i] = RecordOf(uid, cart, list[i].key)
      /\ \A p \in Products : cart[p] # Absent => \E i \in 1..Len(list) : list[i].key = p
  BY <1>2, <1>3, ListIsInjective
<1>6. DOMAIN list = 1..Len(list)
  BY <1>2
<1>7. ASSUME NEW p \in Products
      PROVE  OrderOf(list)[p] = cart[p] /\ Left(cart, list)[p] = Absent
  <2>1. CASE p \in KeysOf(list)
    <3>1. PICK i \in 1..Len(list) : list[i].key = p /\ LineOf(list, p) = list[i].val
      BY <1>2, <2>1, LineIsThere
    <3>2. list[i] = RecordOf(uid, cart, p)
      BY <1>5, <3>1
    <3>3. list[i].val = cart[p]
      BY <3>2 DEF RecordOf, CP!P!K!ChildAdded
    <3>4. QED
      BY <2>1, <3>1, <3>3 DEF OrderOf, Left
  <2>2. CASE p \notin KeysOf(list)
    <3>1. cart[p] = Absent
      BY <1>5, <1>6, <2>2 DEF KeysOf
    <3>2. QED
      BY <2>2, <3>1 DEF OrderOf, Left
  <2>3. QED
    BY <2>1, <2>2
<1>8. OrderOf(list) = cart
  BY <1>1, <1>7 DEF OrderOf, cart
<1>9. Left(cart, list) = EmptyCart
  BY <1>7 DEF Left, EmptyCart
<1>10. QED
  BY <1>4, <1>8, <1>9 DEF FromCart, list, cart

LEMMA ButtonStep ==
    ASSUME IInv, Button
    PROVE  IInv'
<1>1. CASE uid = NoUser
  <2>1. /\ UNCHANGED <<cartVars, product, count, handed, seen, order>>
        /\ steady' = "no" /\ screen' = "home"
    BY <1>1 DEF Button, Go, cartVars
  <2>2. UNCHANGED CP!vars
    BY <2>1 DEF cartVars, CP!vars, CP!listVars
  <2>3. CP!IInv' /\ CP!SubtotalMatches'
    BY <2>2, CartStep DEF IInv
  <2>4. TypeOK'
    BY <2>1, <2>3, SameTypesNext DEF IInv, CP!IInv, TypeOK, Screens, C!P!Line
  <2>5. InRange' /\ HandOver' /\ Steady'
    BY <2>1 DEF IInv, InRange, GoodCart, AllGood, HandOver, Steady, cartVars
  <2>6. QED
    BY <2>3, <2>4, <2>5 DEF IInv
<1>2. CASE uid # NoUser
  <2> DEFINE left == Left(cached[uid], handed.list)
  <2>1. /\ cached' = [cached EXCEPT ![uid] = left]
        /\ UNCHANGED <<observers, registering, mainQueue, changes>>
        /\ order' = OrderOf(handed.list) /\ clean' = FALSE /\ screen' = "home"
        /\ steady' = IF steady = "handed" THEN "bought" ELSE "no"
        /\ UNCHANGED <<uid, products, shown, total, label, product, count, handed, seen>>
    BY <1>2, ButtonFacts
  <2>2. /\ uid \in Users /\ cached \in [Users -> [Products -> SubTotals \cup {Absent}]]
        /\ handed.list \in Seq(CP!P!Line) /\ AllGood(handed.list) /\ GoodCart(cached[uid])
    BY <1>2, InvTypes, SameTypes DEF IInv, TypeOK, InRange
  <2>3. left \in [Products -> SubTotals \cup {Absent}] /\ GoodCart(left)
    BY <2>2 DEF Left, GoodCart
  <2>4. OrderOf(handed.list) \in Cart /\ GoodCart(OrderOf(handed.list))
    <3>1. ASSUME NEW p \in Products, p \in KeysOf(handed.list)
          PROVE  Good(p, LineOf(handed.list, p))
      <4>1. PICK i \in 1..Len(handed.list) :
              handed.list[i].key = p /\ LineOf(handed.list, p) = handed.list[i].val
        BY <2>2, <3>1, LineIsThere
      <4>2. QED
        BY <2>2, <4>1 DEF AllGood
    <3>2. \A p \in Products : p \in KeysOf(handed.list) => LineOf(handed.list, p) \in SubTotals
      BY <3>1, GoodSubTotal
    <3>3. QED
      BY <3>1, <3>2 DEF OrderOf, Cart, GoodCart
  <2> HIDE DEF left
  <2>5. CP!P!K!TypeOK'
    <3>1. cached' \in [Users -> [Products -> SubTotals \cup {Absent}]]
      BY <2>1, <2>2, <2>3
    <3>2. CP!P!K!TypeOK
      BY DEF IInv, CP!IInv, CP!TypeOK, CP!P!TypeOK
    <3>3. QED
      BY <2>1, <3>1, <3>2 DEF CP!P!K!TypeOK, Absent, CP!Absent
  <2>6. CP!IInv' /\ CP!SubtotalMatches'
    <3>1. CP!IInv'
      BY <2>1, <2>2, <2>5, CartUnclean DEF IInv
    <3>2. QED
      BY <2>1, <3>1 DEF IInv, CP!SubtotalMatches
  <2>7. TypeOK'
    <3>1. steady' \in {"no", "handed", "bought"}
      BY <2>1
    <3>2. QED
      BY <2>1, <2>4, <2>6, <3>1, SameTypesNext DEF IInv, CP!IInv, TypeOK, Screens, C!P!Line
  <2>8. InRange'
    <3>1. \A u \in Users : GoodCart(cached'[u])
      BY <2>1, <2>2, <2>3 DEF IInv, InRange
    <3>2. QED
      BY <2>1, <2>4, <3>1 DEF IInv, InRange, GoodCart, AllGood
  <2>9. HandOver'
    BY <2>1 DEF IInv, HandOver
  <2>10. Steady'
    <3>1. CASE steady # "handed"
      BY <2>1, <3>1 DEF Steady
    <3>2. CASE steady = "handed"
      <4>1. FromCart
        BY <3>2 DEF IInv, Steady
      <4>2. /\ OrderOf(handed.list) = cached[uid] /\ left = EmptyCart
            /\ handed.total = CartTotal(cached[uid])
        BY <1>2, <4>1, OrderIsCart DEF left
      <4>3. seen.cart = cached[uid]
        BY <1>2, <4>1 DEF FromCart, CartOf
      <4>4. order' = cached[uid] /\ cached'[uid'] = EmptyCart /\ seen'.cart = order'
        BY <2>1, <2>2, <4>2, <4>3
      <4>5. Bought'
        BY <2>1, <4>2, <4>4 DEF Bought
      <4>6. QED
        BY <2>1, <3>2, <4>5 DEF Steady
    <3>3. QED
      BY <3>1, <3>2
  <2>11. QED
    BY <2>6, <2>7, <2>8, <2>9, <2>10 DEF IInv
<1>3. QED
  BY <1>1, <1>2

LEMMA PurchaseStep == IInv /\ [Next]_vars => IInv'
<1> SUFFICES ASSUME IInv, [Next]_vars PROVE IInv'
  OBVIOUS
<1>1. CASE CartButton
  BY <1>1, CartButtonStep
<1>2. CASE \/ minusButton \/ plusButton \/ OpenCart \/ ToPayment \/ Back
           \/ \E p \in Products : OpenDetail(p)
  BY <1>2, MovesStep
<1>3. CASE BuyButton
  BY <1>3, BuyStep
<1>4. CASE Button
  BY <1>4, ButtonStep
<1>5. CASE Tick
  BY <1>5, TickStep
<1>6. CASE childAdded
  BY <1>6, EventStep
<1>7. CASE Register
  BY <1>7, RegisterStep
<1>8. CASE SignOut \/ \E u \in Users : SignIn(u)
  BY <1>8, SessionStep
<1>9. CASE \E i \in DOMAIN shown : removeItem(i)
  BY <1>9, RemoveStep
<1>10. CASE \E u \in Users, p \in Products, n \in 0..MaxCount : OtherChange(u, p, n)
  BY <1>10, OtherStep
<1>11. CASE \E u \in Users : Revoke(u)
  BY <1>11, RevokeStep
<1>12. CASE UNCHANGED vars
  <2>1. UNCHANGED cartVars /\ UNCHANGED handVars /\ UNCHANGED shopVars
    BY <1>12 DEF vars
  <2>2. QED
    BY <2>1, MoveStep DEF shopVars, IInv, TypeOK
<1>13. QED
  BY <1>1, <1>2, <1>3, <1>4, <1>5, <1>6, <1>7, <1>8, <1>9, <1>10, <1>11, <1>12 DEF Next

-----------------------------------------------------------------------------
(* The theorems. *)

\* The invariant holds throughout.
THEOREM PurchaseInvariant == Spec => []IInv
BY PurchaseInit, PurchaseStep, PTL DEF Spec

\* Type correctness of the screens, and of the cart screen among them: what is
\* handed on, ordered and seen is made of lines of the cart.
THEOREM PurchaseTypes == Spec => []TypeOK
<1>1. IInv => TypeOK
  BY DEF IInv
<1>2. QED
  BY <1>1, PurchaseInvariant, PTL

\* What prepare copies to the shipping screen (CartViewController.swift:60-69)
\* is what the owner saw when tapping Buy, list and sum, or nothing: never a
\* list that does not belong to its total.
THEOREM HandOverIsHonest == Spec => []HandsOverWhatIsShown
<1>1. IInv => HandsOverWhatIsShown
  BY DEF IInv, HandOver, HandsOverWhatIsShown
<1>2. QED
  BY <1>1, PurchaseInvariant, PTL

\* A purchase from a clean list that nothing disturbs orders the cart as it was
\* at the hand-over, for the total that was handed over, and leaves the cart
\* empty (PaymentViewController.swift:57-68), for any number of products.
THEOREM PurchaseIsExact == Spec => []PurchaseExact
<1>1. IInv => PurchaseExact
  BY DEF IInv, Steady, Bought, PurchaseExact, CartTotal
<1>2. QED
  BY <1>1, PurchaseInvariant, PTL

\* No record and no order line is of no or of too many items, for any prices
\* and any end of the stepper (ProductDetailViewController.swift).
THEOREM QuantitiesStayInRange == Spec => []QuantitiesInRange
<1>1. IInv => QuantitiesInRange
  BY DEF IInv, InRange, GoodCart, Good, QuantitiesInRange
<1>2. QED
  BY <1>1, PurchaseInvariant, PTL
=============================================================================

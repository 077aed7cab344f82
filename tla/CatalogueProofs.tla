-------------------------- MODULE CatalogueProofs --------------------------
(* Theorems about Catalogue, for any records, ids, prices and bounds.      *)
EXTENDS Catalogue, FiniteSetTheorems, WellFoundedInduction, TLAPS

Vals == [category : Categories, price : Prices]

-----------------------------------------------------------------------------
(* The invariant. *)

\* Prices only come from the catalogue.
Real(list) == \A id \in Ids : list[id] # Absent => [id |-> id, price |-> list[id]] \in was
PriceInv ==
    /\ \A k \in Records : cached[Shop][k] # Absent => ProductOf(k, cached[Shop][k]) \in was
    /\ \A j \in 1..Len(mainQueue) : ProductOf(mainQueue[j].key, mainQueue[j].val) \in was
    /\ \A i \in 1..Len(products) : products[i] \in was
    /\ Real(cart) /\ Real(stored)
    /\ detail = None \/ detail \in was

\* Records of the category that nobody has touched since they appeared.
Kept == Mine \ edited

\* f gives each record of S a row of its own, and the other records that count
\* have an event on its way.  While nothing is edited, there is no other row
\* and no other event.
Matched(S, f) ==
    /\ \A k \in S : f[k] \in DOMAIN products /\ products[f[k]] = ProductOf(k, cached[Shop][k])
    /\ \A k, l \in S : f[k] = f[l] => k = l
    /\ \A k \in Kept \ S : \E j \in 1..Len(mainQueue) :
          mainQueue[j] = K!ChildAdded(Shop, k, cached[Shop][k])
    /\ edited = {} =>
          /\ \A i \in DOMAIN products : \E k \in S : f[k] = i
          /\ \A j \in 1..Len(mainQueue) :
                /\ mainQueue[j].key \notin S
                /\ mainQueue[j].val = cached[Shop][mainQueue[j].key] /\ mainQueue[j].val # Absent
          /\ \A i, j \in 1..Len(mainQueue) : mainQueue[i].key = mainQueue[j].key => i = j

\* The grid observes the catalogue once.
Before == registering = <<>> /\ ~loaded
Between == registering = <<Shop>> /\ loaded
Nothing == observers[Shop] = 0 /\ products = <<>> /\ mainQueue = <<>>
After ==
    /\ registering = <<>> /\ loaded /\ observers[Shop] = 1
    /\ \E S, f : S \in SUBSET Kept /\ Matched(S, f)
RowsInv == (Before /\ Nothing) \/ (Between /\ Nothing) \/ After

IInv == TypeOK /\ FirstHeartHonest /\ PriceInv /\ RowsInv

LEMMA InvTypes ==
    ASSUME TypeOK
    PROVE  /\ cached \in [{Shop} -> [Records -> Vals \cup {Absent}]]
           /\ observers \in [{Shop} -> 0..1]
           /\ mainQueue \in Seq([ref : {Shop}, key : Records, val : Vals])
           /\ products \in Seq(Product) /\ hearts \in [DOMAIN products -> BOOLEAN]
           /\ DOMAIN products = 1..Len(products) /\ Len(products) \in Nat
           /\ Len(mainQueue) \in Nat
BY DEF TypeOK, K!TypeOK, K!Event, Vals

LEMMA ProductTypes ==
    ASSUME NEW k \in Records, NEW v \in Vals
    PROVE  ProductOf(k, v) \in Product
BY DEF ProductOf, Product, Ids, Vals

LEMMA CatalogueInit == Init => IInv
<1> SUFFICES ASSUME Init PROVE IInv
  OBVIOUS
<1>1. /\ cached = [r \in {Shop} |-> [k \in Records |-> Absent]]
      /\ observers = [r \in {Shop} |-> 0]
      /\ registering = <<>> /\ mainQueue = <<>> /\ changes = 0
  BY DEF Init, K!Init
<1>2. TypeOK
  <2>1. <<>> \in Seq(K!Event) /\ <<>> \in Seq(Product) /\ <<>> \in Seq({Shop})
    OBVIOUS
  <2>2. 0 \in 0..MaxChanges /\ 0 \in 0..1
    BY CatalogueAssumption
  <2>3. K!TypeOK
    BY <1>1, <2>1, <2>2 DEF K!TypeOK
  <2>4. <<>> \in [DOMAIN <<>> -> BOOLEAN]
    OBVIOUS
  <2>5. stored \in PriceList /\ cart \in PriceList
    BY DEF Init, PriceList
  <2>6. QED
    BY <2>1, <2>3, <2>4, <2>5 DEF Init, TypeOK
<1>3. FirstHeartHonest
  BY DEF Init, FirstHeartHonest
<1>4. PriceInv
  BY <1>1 DEF Init, PriceInv, Real
<1>5. RowsInv
  BY <1>1 DEF Init, RowsInv, Before, Nothing
<1>6. QED
  BY <1>2, <1>3, <1>4, <1>5 DEF IInv

-----------------------------------------------------------------------------
(* The rows. *)

\* The first row of a product is a row of it.
LEMMA FirstIs ==
    ASSUME TypeOK, NEW i \in DOMAIN products
    PROVE  /\ FirstIndex(products[i].id) \in DOMAIN products
           /\ products[FirstIndex(products[i].id)].id = products[i].id
<1> DEFINE id == products[i].id
           S == {j \in DOMAIN products : products[j].id = id}
           First(j) == products[j].id = id /\ \A m \in 1..(j - 1) : products[m].id # id
<1>1. DOMAIN products = 1..Len(products) /\ Len(products) \in Nat
  BY InvTypes
<1>2. S \subseteq Nat /\ S # {}
  BY <1>1
<1> HIDE DEF id
<1>3. \E m \in S : \A j \in S : m <= j
  <2>1. PICK m \in S : \A j \in S : ~(<<j, m>> \in OpToRel(<, Nat))
    BY <1>2, NatLessThanWellFounded, WFMin
  <2>2. \A j \in S : ~(j < m)
    BY <1>2, <2>1 DEF OpToRel
  <2>3. QED
    BY <1>2, <2>2
<1>4. PICK m \in S : \A j \in S : m <= j
  BY <1>3
<1>5. m \in DOMAIN products /\ First(m)
  <2>1. \A j \in 1..(m - 1) : j \in DOMAIN products /\ ~(m <= j)
    BY <1>1
  <2>2. QED
    BY <1>4, <2>1
<1>6. FirstIndex(id) = CHOOSE j \in DOMAIN products : First(j)
  BY DEF FirstIndex
<1> HIDE DEF First
<1>7. FirstIndex(id) \in DOMAIN products /\ First(FirstIndex(id))
  BY <1>5, <1>6
<1>8. QED
  BY <1>7 DEF First, id

\* Rows and what belongs to them stay as they are.
RowVars == <<cached, observers, registering, mainQueue, products, loaded, edited>>
LEMMA RowsStay ==
    ASSUME RowsInv, UNCHANGED RowVars
    PROVE  RowsInv'
<1>1. Kept' = Kept
  BY DEF RowVars, Kept, Mine
<1>2. \A S, f : Matched(S, f) => Matched(S, f)'
  BY <1>1 DEF Matched, RowVars
<1>3. (Before /\ Nothing)' <=> (Before /\ Nothing)
  BY DEF Before, Nothing, RowVars
<1>4. (Between /\ Nothing)' <=> (Between /\ Nothing)
  BY DEF Between, Nothing, RowVars
<1>5. After => After'
  BY <1>1, <1>2 DEF After, RowVars
<1>6. QED
  BY <1>3, <1>4, <1>5 DEF RowsInv

\* The hearts stay honest when nothing is drawn and no favourite goes.
LEMMA HeartsStay ==
    ASSUME FirstHeartHonest, UNCHANGED <<products, hearts>>, favourites \subseteq favourites'
    PROVE  FirstHeartHonest'
<1>1. \A id : FirstIndex(id)' = FirstIndex(id)
  BY DEF FirstIndex
<1>2. QED
  BY <1>1 DEF FirstHeartHonest

\* The grid asks for the catalogue.
LEMMA LoadStep ==
    ASSUME IInv, LoadGrid
    PROVE  IInv'
<1>1. /\ ~loaded /\ loaded' = TRUE /\ registering' = Append(registering, Shop)
      /\ UNCHANGED <<cached, observers, mainQueue, changes>>
      /\ UNCHANGED <<products, hearts, fields, favouriteVars, detail, cart, was, edited>>
  BY DEF LoadGrid, K!Observe
<1>2. registering = <<>> /\ Nothing
  BY <1>1 DEF IInv, RowsInv, Before, Between, After
<1>3. registering' = <<Shop>>
  BY <1>1, <1>2
<1>4. TypeOK'
  <2>1. registering' \in Seq({Shop})
    BY <1>3
  <2>2. QED
    BY <1>1, <2>1 DEF IInv, TypeOK, K!TypeOK, PriceList, favouriteVars, Product
<1>5. FirstHeartHonest' /\ PriceInv'
  BY <1>1, HeartsStay DEF IInv, PriceInv, Real, favouriteVars
<1>6. RowsInv'
  BY <1>1, <1>2, <1>3 DEF RowsInv, Between, Nothing
<1>7. QED
  BY <1>4, <1>5, <1>6 DEF IInv

\* There are finitely many events for the records there are.
LEMMA RecordEvents ==
    ASSUME NEW r
    PROVE  IsFiniteSet({K!ChildAdded(r, k, cached[r][k]) : k \in K!Children(r)})
<1> DEFINE S == K!Children(r)
           T == {K!ChildAdded(r, k, cached[r][k]) : k \in S}
           g == [k \in S |-> K!ChildAdded(r, k, cached[r][k])]
<1>1. IsFiniteSet(S)
  BY CatalogueAssumption, FS_Subset DEF K!Children
<1> HIDE DEF S
<1>2. g \in Surjection(S, T)
  BY DEF Surjection
<1>3. QED
  BY <1>1, <1>2, FS_Surjection DEF S

\* SetToSeq lists a finite set, each element once.
LEMMA Listed ==
    ASSUME NEW S, IsFiniteSet(S)
    PROVE  LET s == K!SetToSeq(S)
           IN  /\ s \in Seq(S)
               /\ \A x \in S : \E j \in 1..Len(s) : s[j] = x
               /\ \A i, j \in 1..Len(s) : s[i] = s[j] => i = j
<1> DEFINE s == K!SetToSeq(S)
           n == Cardinality(S)
           Good(f) == f \in [1..n -> S] /\ K!IsInjective(f)
<1>1. n \in Nat /\ ExistsBijection(1..n, S)
  BY FS_CardinalityType
<1>2. \E f : Good(f)
  BY <1>1 DEF ExistsBijection, Bijection, Injection, Surjection, IsInjective, K!IsInjective
<1>3. s = CHOOSE f : Good(f)
  <2>1. K!Cardinality(S) = Cardinality(S)
    BY DEF K!Cardinality, Cardinality
  <2>2. QED
    BY <2>1 DEF K!SetToSeq
<1>4. Good(s)
  BY <1>2, <1>3
<1>5. s \in [1..n -> S] /\ \A i, j \in 1..n : s[i] = s[j] => i = j
  BY <1>4 DEF K!IsInjective
<1> HIDE DEF s
<1>6. s \in Injection(1..n, S)
  BY <1>5 DEF Injection, IsInjective
<1>7. s \in Surjection(1..n, S)
  <2>1. IsFiniteSet(1..n) /\ Cardinality(1..n) = n
    BY <1>1, FS_Interval
  <2>2. QED
    BY <1>6, <2>1, FS_Injection
<1> HIDE DEF n
<1>8. s \in Seq(S) /\ Len(s) = n
  BY <1>1, <1>5
<1>9. QED
  BY <1>5, <1>7, <1>8 DEF s, Surjection

\* The initial events are the records, each once.
LEMMA RegisterStep ==
    ASSUME IInv, Register
    PROVE  IInv'
<1> DEFINE r == Head(registering)
           events == {K!ChildAdded(r, k, cached[r][k]) : k \in K!Children(r)}
           initial == K!SetToSeq(events)
<1>1. /\ registering # <<>> /\ mainQueue' = mainQueue \o initial
      /\ observers' = [observers EXCEPT ![r] = IF @ < 1 THEN @ + 1 ELSE @]
      /\ registering' = Tail(registering) /\ UNCHANGED <<cached, changes>>
      /\ UNCHANGED <<gridVars, favouriteVars, detail, cart, was, edited>>
  BY DEF Register, K!AddEventRegistration
<1>2. registering = <<Shop>> /\ loaded /\ Nothing
  BY <1>1 DEF IInv, RowsInv, Before, Between, After
<1>3. r = Shop /\ mainQueue = <<>> /\ products = <<>> /\ registering' = <<>>
  BY <1>1, <1>2 DEF Nothing
<1>4. observers'[Shop] = 1 /\ observers' \in [{Shop} -> 0..1]
  <2> HIDE DEF r
  <2>1. QED
    BY <1>1, <1>2, <1>3, InvTypes DEF IInv, Nothing
<1>5. /\ initial \in Seq(events)
      /\ \A x \in events : \E j \in 1..Len(initial) : initial[j] = x
      /\ \A i, j \in 1..Len(initial) : initial[i] = initial[j] => i = j
  <2>1. IsFiniteSet(events)
    BY RecordEvents
  <2> HIDE DEF events
  <2>2. QED
    BY <2>1, Listed
<1>5a. mainQueue' = initial
  <2> HIDE DEF events, r, initial
  <2>1. QED
    BY <1>1, <1>3, <1>5
<1>6. /\ events = {K!ChildAdded(Shop, k, cached[Shop][k]) : k \in K!Children(Shop)}
      /\ K!Children(Shop) = {k \in Records : cached[Shop][k] # Absent}
  BY <1>3 DEF K!Children
<1>7. \A j \in 1..Len(initial) :
        /\ initial[j].key \in Records
        /\ cached[Shop][initial[j].key] # Absent
        /\ initial[j] = K!ChildAdded(Shop, initial[j].key, cached[Shop][initial[j].key])
        /\ initial[j].val = cached[Shop][initial[j].key]
  <2> HIDE DEF events, initial, r
  <2>1. SUFFICES ASSUME NEW j \in 1..Len(initial)
                 PROVE  /\ initial[j].key \in Records
                        /\ cached[Shop][initial[j].key] # Absent
                        /\ initial[j] = K!ChildAdded(Shop, initial[j].key, cached[Shop][initial[j].key])
                        /\ initial[j].val = cached[Shop][initial[j].key]
    OBVIOUS
  <2>2. initial[j] \in events
    BY <1>5
  <2>3. PICK k \in Records : cached[Shop][k] # Absent
                              /\ initial[j] = K!ChildAdded(Shop, k, cached[Shop][k])
    BY <1>6, <2>2
  <2>4. initial[j].key = k /\ initial[j].val = cached[Shop][k]
    BY <2>3 DEF K!ChildAdded
  <2>5. QED
    BY <2>3, <2>4
<1>8. mainQueue' \in Seq(K!Event)
  <2>1. \A x \in events : x \in K!Event
    BY <1>6, InvTypes DEF IInv, K!Event, K!ChildAdded, Vals
  <2> HIDE DEF events, initial, r
  <2>2. QED
    BY <1>5, <1>5a, <2>1
<1>9. \A k \in Kept : \E j \in 1..Len(initial) :
        initial[j] = K!ChildAdded(Shop, k, cached[Shop][k])
  <2>1. SUFFICES ASSUME NEW k \in Kept
                 PROVE  \E j \in 1..Len(initial) : initial[j] = K!ChildAdded(Shop, k, cached[Shop][k])
    OBVIOUS
  <2>2. K!ChildAdded(Shop, k, cached[Shop][k]) \in events
    BY <1>6 DEF Kept, Mine
  <2> HIDE DEF events, initial, r
  <2>3. QED
    BY <1>5, <2>2
<1> HIDE DEF events, initial, r
<1>10. TypeOK'
  <2>1. registering' \in Seq({Shop})
    BY <1>3
  <2>2. K!TypeOK'
    BY <1>1, <1>4, <1>8, <2>1 DEF IInv, TypeOK, K!TypeOK
  <2>3. QED
    BY <1>1, <2>2 DEF IInv, TypeOK, PriceList, gridVars, favouriteVars, Product
<1>11. FirstHeartHonest'
  BY <1>1, HeartsStay DEF IInv, gridVars, favouriteVars
<1>12. PriceInv'
  BY <1>1, <1>3, <1>7, <1>5a DEF IInv, PriceInv, Real, gridVars, favouriteVars
<1>13. RowsInv'
  <2>1. Kept' = Kept
    BY <1>1 DEF Kept, Mine
  <2>2. \A i, j \in 1..Len(initial) : initial[i].key = initial[j].key => i = j
    <3>1. SUFFICES ASSUME NEW i \in 1..Len(initial), NEW j \in 1..Len(initial),
                          initial[i].key = initial[j].key
                   PROVE  i = j
      OBVIOUS
    <3>2. /\ initial[i] = K!ChildAdded(Shop, initial[i].key, cached[Shop][initial[i].key])
          /\ initial[j] = K!ChildAdded(Shop, initial[j].key, cached[Shop][initial[j].key])
      BY <1>7
    <3>3. initial[i] = initial[j]
      BY <3>1, <3>2
    <3>4. QED
      BY <1>5, <3>3
  <2>3. Matched({}, <<>>)'
    BY <1>1, <1>3, <1>7, <1>9, <1>5a, <2>1, <2>2 DEF Matched, gridVars
  <2>4. After'
    BY <1>1, <1>2, <1>3, <1>4, <2>1, <2>3 DEF After, gridVars
  <2>5. QED
    BY <2>4 DEF RowsInv
<1>14. QED
  BY <1>10, <1>11, <1>12, <1>13 DEF IInv

\* An event becomes a row, if it is of the category; every cell is drawn.
LEMMA EventStep ==
    ASSUME IInv, childAdded
    PROVE  IInv'
<1> DEFINE e == mainQueue[1]
<1>1. /\ mainQueue # <<>> /\ mainQueue' = Tail(mainQueue)
      /\ UNCHANGED <<cached, observers, registering, changes>>
      /\ products' = products \o NewRow(e)
      /\ hearts' = [i \in DOMAIN products' |-> products'[i].id \in favourites]
      /\ (products' = <<>> /\ UNCHANGED fields) \/ \E i \in DOMAIN products' : fields' = products'[i]
      /\ UNCHANGED <<loaded, favouriteVars, detail, cart, was, edited>>
  BY DEF childAdded, K!Deliver, K!NextEvent
<1>2. /\ mainQueue \in Seq(K!Event) /\ products \in Seq(Product) /\ Len(mainQueue) \in Nat \ {0}
      /\ Len(products) \in Nat /\ DOMAIN products = 1..Len(products)
      /\ e \in K!Event /\ e.key \in Records /\ e.val \in Vals
      /\ e = K!ChildAdded(Shop, e.key, e.val)
  <2>1. /\ mainQueue \in Seq(K!Event) /\ products \in Seq(Product) /\ Len(mainQueue) \in Nat \ {0}
        /\ Len(products) \in Nat /\ DOMAIN products = 1..Len(products)
    BY <1>1, InvTypes DEF IInv, K!Event, Vals
  <2>2. e \in K!Event
    BY <1>1, <2>1
  <2> HIDE DEF e
  <2>3. QED
    BY <2>1, <2>2 DEF K!Event, Vals, K!ChildAdded
<1> DEFINE row == ProductOf(e.key, e.val)
           mine == e.val.category = "mine"
<1>3. row \in Product /\ row \in was
  <2>1. 1 \in 1..Len(mainQueue)
    BY <1>2
  <2>2. QED
    BY <1>2, <2>1, ProductTypes DEF IInv, PriceInv
<1>4. products' = IF mine THEN Append(products, row) ELSE products
  <2>1. CASE mine
    <3>1. NewRow(e) = <<row>>
      BY <2>1 DEF NewRow
    <3>2. QED
      BY <1>1, <1>2, <1>3, <2>1, <3>1
  <2>2. CASE ~mine
    <3>1. NewRow(e) = <<>>
      BY <2>2 DEF NewRow
    <3>2. QED
      BY <1>1, <1>2, <2>2, <3>1
  <2>3. QED
    BY <2>1, <2>2
<1>5. /\ Len(mainQueue') = Len(mainQueue) - 1
      /\ \A j \in 1..Len(mainQueue') : j + 1 \in 1..Len(mainQueue) /\ mainQueue'[j] = mainQueue[j + 1]
      /\ \A j \in 1..Len(mainQueue) : j # 1 => j - 1 \in 1..Len(mainQueue') /\ mainQueue'[j - 1] = mainQueue[j]
  BY <1>1, <1>2
<1> HIDE DEF row, mine
<1>6. /\ products' \in Seq(Product) /\ DOMAIN products' = 1..Len(products')
      /\ \A i \in 1..Len(products) : i \in DOMAIN products' /\ products'[i] = products[i]
      /\ mine => Len(products) + 1 \in DOMAIN products' /\ products'[Len(products) + 1] = row
      /\ \A i \in DOMAIN products' : i \in 1..Len(products) \/ (mine /\ i = Len(products) + 1)
  BY <1>2, <1>3, <1>4
<1>7. TypeOK'
  <2>1. mainQueue' \in Seq(K!Event)
    BY <1>1, <1>2
  <2>2. K!TypeOK'
    BY <1>1, <2>1 DEF IInv, TypeOK, K!TypeOK
  <2>3. fields' \in Product \cup {None}
    BY <1>1, <1>6 DEF IInv, TypeOK
  <2>4. hearts' \in [DOMAIN products' -> BOOLEAN]
    BY <1>1
  <2>5. QED
    BY <1>1, <1>6, <2>2, <2>3, <2>4 DEF IInv, TypeOK, PriceList, favouriteVars, Product
<1>8. FirstHeartHonest'
  BY <1>1 DEF FirstHeartHonest, favouriteVars
<1>9. PriceInv'
  <2>1. \A i \in 1..Len(products') : products'[i] \in was
    BY <1>3, <1>6 DEF IInv, PriceInv
  <2>2. \A j \in 1..Len(mainQueue') : ProductOf(mainQueue'[j].key, mainQueue'[j].val) \in was
    BY <1>5 DEF IInv, PriceInv
  <2>3. QED
    BY <1>1, <2>1, <2>2 DEF IInv, PriceInv, Real, favouriteVars
<1>10. RowsInv'
  <2>1. After /\ Kept' = Kept
    BY <1>1 DEF IInv, RowsInv, Nothing, Kept, Mine
  <2>2. PICK S, f : S \in SUBSET Kept /\ Matched(S, f)
    BY <2>1 DEF After
  <2>3. CASE e.key \in Kept \ S /\ e.val = cached[Shop][e.key]
    <3>0. PICK T, g : /\ T = S \cup {e.key}
                      /\ g = [k \in T |-> IF k = e.key THEN Len(products) + 1 ELSE f[k]]
      OBVIOUS
    <3>1. mine
      BY <2>3 DEF Kept, Mine, mine
    <3>2. \A k \in S : g[k] = f[k]
      BY <2>3, <3>0
    <3>3. g[e.key] = Len(products) + 1 /\ T = S \cup {e.key}
      BY <3>0
    <3> HIDE DEF e
    <3>4. /\ \A k \in T : g[k] \in DOMAIN products' /\ products'[g[k]] = ProductOf(k, cached'[Shop][k])
          /\ \A k, l \in T : g[k] = g[l] => k = l
      <4>1. \A k \in S : g[k] \in 1..Len(products) /\ products[g[k]] = ProductOf(k, cached[Shop][k])
        BY <1>2, <2>2, <3>2 DEF Matched
      <4>2. \A k, l \in S : g[k] = g[l] => k = l
        BY <2>2, <3>2 DEF Matched
      <4>3. row = ProductOf(e.key, cached[Shop][e.key])
        BY <2>3 DEF row
      <4>4. QED
        BY <1>1, <1>2, <1>6, <3>1, <3>3, <4>1, <4>2, <4>3, SMTT(30)
    <3>5. \A k \in Kept \ T : \E j \in 1..Len(mainQueue') :
            mainQueue'[j] = K!ChildAdded(Shop, k, cached'[Shop][k])
      <4>1. SUFFICES ASSUME NEW k \in Kept \ T
                     PROVE  \E j \in 1..Len(mainQueue') :
                              mainQueue'[j] = K!ChildAdded(Shop, k, cached[Shop][k])
        BY <1>1
      <4>2. PICK j \in 1..Len(mainQueue) : mainQueue[j] = K!ChildAdded(Shop, k, cached[Shop][k])
        BY <2>2, <3>3, <4>1 DEF Matched
      <4>3. j # 1
        BY <3>3, <4>1, <4>2 DEF K!ChildAdded, e
      <4>4. QED
        BY <1>5, <4>2, <4>3
    <3>6. edited = {} =>
            /\ \A i \in DOMAIN products' : \E k \in T : g[k] = i
            /\ \A j \in 1..Len(mainQueue') :
                  /\ mainQueue'[j].key \notin T
                  /\ mainQueue'[j].val = cached[Shop][mainQueue'[j].key] /\ mainQueue'[j].val # Absent
            /\ \A i, j \in 1..Len(mainQueue') : mainQueue'[i].key = mainQueue'[j].key => i = j
      <4>1. SUFFICES ASSUME edited = {}
                     PROVE
            /\ \A i \in DOMAIN products' : \E k \in T : g[k] = i
            /\ \A j \in 1..Len(mainQueue') :
                  /\ mainQueue'[j].key \notin T
                  /\ mainQueue'[j].val = cached[Shop][mainQueue'[j].key] /\ mainQueue'[j].val # Absent
            /\ \A i, j \in 1..Len(mainQueue') : mainQueue'[i].key = mainQueue'[j].key => i = j
        OBVIOUS
      <4>2. /\ \A i \in 1..Len(products) : \E k \in S : f[k] = i
            /\ \A j \in 1..Len(mainQueue) :
                  /\ mainQueue[j].key \notin S
                  /\ mainQueue[j].val = cached[Shop][mainQueue[j].key] /\ mainQueue[j].val # Absent
            /\ \A i, j \in 1..Len(mainQueue) : mainQueue[i].key = mainQueue[j].key => i = j
        BY <1>2, <2>2, <4>1 DEF Matched
      <4>3. \A i \in DOMAIN products' : \E k \in T : g[k] = i
        BY <1>6, <3>2, <3>3, <4>2
      <4>4. 1 \in 1..Len(mainQueue) /\ \A j \in 1..Len(mainQueue') : j + 1 # 1
        BY <1>2
      <4>5. \A j \in 1..Len(mainQueue') : mainQueue'[j].key # e.key
        BY <1>5, <4>2, <4>4 DEF e
      <4>6. \A i, j \in 1..Len(mainQueue') : i + 1 = j + 1 => i = j
        OBVIOUS
      <4>7. \A i, j \in 1..Len(mainQueue') : mainQueue'[i].key = mainQueue'[j].key => i = j
        BY <1>5, <4>2, <4>6
      <4>8. QED
        BY <1>5, <3>3, <4>2, <4>3, <4>5, <4>7
    <3>7. Matched(T, g)'
      BY <1>1, <2>1, <3>4, <3>5, <3>6 DEF Matched
    <3>8. T \in SUBSET Kept'
      BY <2>1, <2>2, <2>3, <3>3
    <3>9. After'
      BY <1>1, <2>1, <3>7, <3>8 DEF After
    <3>10. QED
      BY <3>9 DEF RowsInv
  <2>4. CASE ~(e.key \in Kept \ S /\ e.val = cached[Shop][e.key])
    <3> HIDE DEF e
    <3>1. \A k \in S : f[k] \in DOMAIN products' /\ products'[f[k]] = ProductOf(k, cached[Shop][k])
      BY <1>2, <1>6, <2>2 DEF Matched
    <3>2. \A k \in Kept \ S : \E j \in 1..Len(mainQueue') :
            mainQueue'[j] = K!ChildAdded(Shop, k, cached[Shop][k])
      <4>1. SUFFICES ASSUME NEW k \in Kept \ S
                     PROVE  \E j \in 1..Len(mainQueue') :
                              mainQueue'[j] = K!ChildAdded(Shop, k, cached[Shop][k])
        OBVIOUS
      <4>2. PICK j \in 1..Len(mainQueue) : mainQueue[j] = K!ChildAdded(Shop, k, cached[Shop][k])
        BY <2>2, <4>1 DEF Matched
      <4>3. j # 1
        BY <2>4, <4>1, <4>2 DEF K!ChildAdded, e
      <4>4. QED
        BY <1>5, <4>2, <4>3
    <3>3. edited = {} =>
            /\ \A i \in DOMAIN products' : \E k \in S : f[k] = i
            /\ \A j \in 1..Len(mainQueue') :
                  /\ mainQueue'[j].key \notin S
                  /\ mainQueue'[j].val = cached[Shop][mainQueue'[j].key] /\ mainQueue'[j].val # Absent
            /\ \A i, j \in 1..Len(mainQueue') : mainQueue'[i].key = mainQueue'[j].key => i = j
      <4>1. SUFFICES ASSUME edited = {}
                     PROVE
            /\ \A i \in DOMAIN products' : \E k \in S : f[k] = i
            /\ \A j \in 1..Len(mainQueue') :
                  /\ mainQueue'[j].key \notin S
                  /\ mainQueue'[j].val = cached[Shop][mainQueue'[j].key] /\ mainQueue'[j].val # Absent
            /\ \A i, j \in 1..Len(mainQueue') : mainQueue'[i].key = mainQueue'[j].key => i = j
        OBVIOUS
      <4>2. /\ \A i \in 1..Len(products) : \E k \in S : f[k] = i
            /\ \A j \in 1..Len(mainQueue) :
                  /\ mainQueue[j].key \notin S
                  /\ mainQueue[j].val = cached[Shop][mainQueue[j].key] /\ mainQueue[j].val # Absent
            /\ \A i, j \in 1..Len(mainQueue) : mainQueue[i].key = mainQueue[j].key => i = j
        BY <1>2, <2>2, <4>1 DEF Matched
      <4>3. ~mine
        <5>1. 1 \in 1..Len(mainQueue)
          BY <1>2
        <5>2. e.key \notin S /\ e.val = cached[Shop][e.key] /\ e.val # Absent
          BY <4>2, <5>1 DEF e
        <5>3. e.key \notin Mine
          BY <2>4, <4>1, <5>2 DEF Kept
        <5>4. QED
          BY <1>2, <5>2, <5>3 DEF Mine, mine
      <4>4. \A i \in DOMAIN products' : \E k \in S : f[k] = i
        BY <1>6, <4>2, <4>3
      <4>5. \A i, j \in 1..Len(mainQueue') : i + 1 = j + 1 => i = j
        OBVIOUS
      <4>6. \A i, j \in 1..Len(mainQueue') : mainQueue'[i].key = mainQueue'[j].key => i = j
        BY <1>5, <4>2, <4>5
      <4>7. QED
        BY <1>5, <4>2, <4>4, <4>6
    <3>4. Matched(S, f)'
      BY <1>1, <2>1, <2>2, <3>1, <3>2, <3>3 DEF Matched
    <3>5. After'
      BY <1>1, <2>1, <2>2, <3>4 DEF After
    <3>6. QED
      BY <3>5 DEF RowsInv
  <2>5. QED
    BY <2>3, <2>4
<1>11. QED
  BY <1>7, <1>8, <1>9, <1>10 DEF IInv

-----------------------------------------------------------------------------
(* The taps, and the shop. *)

\* A cell is drawn again.
LEMMA CellStep ==
    ASSUME IInv, NEW i \in DOMAIN products, configureCell(i)
    PROVE  IInv'
<1>1. /\ hearts' = [hearts EXCEPT ![i] = products[i].id \in favourites]
      /\ fields' = products[i]
      /\ UNCHANGED <<cached, observers, registering, mainQueue, changes>>
      /\ UNCHANGED <<loaded, products, favouriteVars, detail, cart, was, edited>>
  BY DEF configureCell, listenerVars
<1>2. TypeOK'
  <2>1. products[i] \in Product /\ hearts \in [DOMAIN products -> BOOLEAN]
    BY InvTypes DEF IInv
  <2>2. hearts' \in [DOMAIN products' -> BOOLEAN]
    BY <1>1, <2>1
  <2>3. QED
    BY <1>1, <2>1, <2>2 DEF IInv, TypeOK, K!TypeOK, PriceList, favouriteVars, Product
<1>3. FirstHeartHonest'
  <2>1. \A id : FirstIndex(id)' = FirstIndex(id)
    BY <1>1 DEF FirstIndex
  <2>2. \A j \in DOMAIN products : hearts'[j] => j = i \/ hearts[j]
    BY <1>1, InvTypes DEF IInv
  <2>3. hearts'[i] <=> products[i].id \in favourites
    BY <1>1, InvTypes DEF IInv
  <2>4. QED
    BY <1>1, <2>1, <2>2, <2>3 DEF IInv, FirstHeartHonest, favouriteVars
<1>4. PriceInv'
  BY <1>1 DEF IInv, PriceInv, Real, favouriteVars
<1>5. RowsInv'
  BY <1>1, RowsStay DEF IInv, RowVars
<1>6. QED
  BY <1>2, <1>3, <1>4, <1>5 DEF IInv

\* A heart is tapped, and the first cell of the product is drawn.
LEMMA HeartStep ==
    ASSUME IInv, NEW i \in DOMAIN products, productFavorited(i)
    PROVE  IInv'
<1> DEFINE p == products[i]
           r == FirstIndex(p.id)
<1>1. /\ favoriteSelected(p)
      /\ hearts' = [hearts EXCEPT ![r] = products[r].id \in favourites']
      /\ fields' = products[r]
      /\ UNCHANGED <<cached, observers, registering, mainQueue, changes>>
      /\ UNCHANGED <<loaded, products, detail, cart, was, edited>>
  BY DEF productFavorited, ReloadedCell, listenerVars
<1>2. r \in DOMAIN products /\ products[r].id = p.id
  BY FirstIs DEF IInv
<1>3. p \in Product /\ products[r] \in Product /\ p.id \in Ids /\ p.price \in Prices
      /\ p = [id |-> p.id, price |-> p.price] /\ p \in was
  <2>1. products \in Seq(Product) /\ DOMAIN products = 1..Len(products)
    BY InvTypes DEF IInv
  <2>2. p \in Product /\ products[r] \in Product
    BY <1>2, <2>1
  <2>3. p \in was
    BY <2>1 DEF IInv, PriceInv
  <2> HIDE DEF p, r
  <2>4. QED
    BY <2>2, <2>3 DEF Product
<1>4. /\ favourites' = favourites \ {p.id} \/ favourites' = favourites \cup {p.id}
      /\ stored' = [stored EXCEPT ![p.id] = Absent] \/ stored' = [stored EXCEPT ![p.id] = p.price]
  BY <1>1 DEF favoriteSelected
<1> HIDE DEF p, r
<1>5. TypeOK'
  <2>1. favourites' \subseteq Ids /\ stored' \in PriceList
    BY <1>3, <1>4 DEF IInv, TypeOK, PriceList
  <2>2. hearts' \in [DOMAIN products' -> BOOLEAN]
    <3>1. hearts \in [DOMAIN products -> BOOLEAN] /\ products' = products
      BY <1>1, InvTypes DEF IInv
    <3>2. (products[r].id \in favourites') \in BOOLEAN
      OBVIOUS
    <3>3. QED
      BY <1>1, <3>1, <3>2
  <2>3. QED
    BY <1>1, <1>3, <2>1, <2>2 DEF IInv, TypeOK, K!TypeOK, PriceList, Product
<1>6. FirstHeartHonest'
  <2>1. \A id : FirstIndex(id)' = FirstIndex(id)
    BY <1>1 DEF FirstIndex
  <2>2. \A j \in DOMAIN products : j # r => hearts'[j] = hearts[j]
    BY <1>1, InvTypes DEF IInv
  <2>3. hearts'[r] <=> p.id \in favourites'
    BY <1>1, <1>2, InvTypes DEF IInv
  <2>4. SUFFICES ASSUME NEW j \in DOMAIN products, hearts'[j], j = FirstIndex(products[j].id)
                 PROVE  products[j].id \in favourites'
    BY <1>1, <2>1 DEF FirstHeartHonest
  <2>5. CASE products[j].id = p.id
    BY <2>3, <2>4, <2>5 DEF r
  <2>6. CASE products[j].id # p.id
    <3>1. j # r
      BY <1>2, <2>6
    <3>2. products[j].id \in favourites
      BY <2>2, <2>4, <3>1 DEF IInv, FirstHeartHonest
    <3>3. QED
      BY <1>4, <2>6, <3>2
  <2>7. QED
    BY <2>5, <2>6
<1>7. PriceInv'
  <2>1. Real(stored)'
    <3>1. SUFFICES ASSUME NEW id \in Ids, stored'[id] # Absent
                   PROVE  [id |-> id, price |-> stored'[id]] \in was
      BY <1>1 DEF Real
    <3>2. stored \in [Ids -> Prices \cup {Absent}]
      BY DEF IInv, TypeOK, PriceList
    <3>3. CASE id = p.id
      BY <1>3, <1>4, <3>1, <3>2, <3>3
    <3>4. CASE id # p.id
      <4>1. stored'[id] = stored[id]
        BY <1>4, <3>2, <3>4
      <4>2. QED
        BY <3>1, <4>1 DEF IInv, PriceInv, Real
    <3>5. QED
      BY <3>3, <3>4
  <2>2. QED
    BY <1>1, <2>1 DEF IInv, PriceInv, Real
<1>8. RowsInv'
  BY <1>1, RowsStay DEF IInv, RowVars
<1>9. QED
  BY <1>5, <1>6, <1>7, <1>8 DEF IInv

\* A row is tapped, and the detail screen opens with it.
LEMMA SelectStep ==
    ASSUME IInv, NEW i \in DOMAIN products, didSelectItemAt(i)
    PROVE  IInv'
<1>1. /\ fields' = products[i] /\ detail' = products[i]
      /\ UNCHANGED <<cached, observers, registering, mainQueue, changes>>
      /\ UNCHANGED <<loaded, products, hearts, favourites, stored, cart, was, edited>>
  BY DEF didSelectItemAt, Selected, listenerVars, favouriteVars
<1>2. products[i] \in Product /\ products[i] \in was
  BY InvTypes DEF IInv, PriceInv
<1>3. TypeOK'
  BY <1>1, <1>2 DEF IInv, TypeOK, K!TypeOK, PriceList, Product
<1>4. FirstHeartHonest'
  BY <1>1, HeartsStay DEF IInv
<1>5. PriceInv'
  BY <1>1, <1>2 DEF IInv, PriceInv, Real
<1>6. RowsInv'
  BY <1>1, RowsStay DEF IInv, RowVars
<1>7. QED
  BY <1>3, <1>4, <1>5, <1>6 DEF IInv

\* The steps of the detail and the favourites screen.
LEMMA DetailStep ==
    ASSUME IInv,
           \/ FavouriteButton \/ CartButton \/ CloseDetail
           \/ \E id \in Ids : OpenFavourite(id) \/ FavouriteHeard(id)
    PROVE  IInv'
<1>1. /\ UNCHANGED <<cached, observers, registering, mainQueue, changes>>
      /\ UNCHANGED <<loaded, products, hearts, fields, was, edited>>
  BY DEF FavouriteButton, CartButton, CloseDetail, OpenFavourite, FavouriteHeard,
         listenerVars, gridVars, favouriteVars
<1>2. RowsInv'
  BY <1>1, RowsStay DEF IInv, RowVars
<1>3. /\ stored \in [Ids -> Prices \cup {Absent}] /\ cart \in [Ids -> Prices \cup {Absent}]
      /\ detail \in Product \cup {None} /\ favourites \subseteq Ids
      /\ Real(stored) /\ Real(cart) /\ (detail = None \/ detail \in was)
  BY DEF IInv, TypeOK, PriceInv, PriceList
<1>4. detail # None => detail.id \in Ids /\ detail.price \in Prices
                        /\ detail = [id |-> detail.id, price |-> detail.price]
  BY <1>3 DEF Product
<1>5. SUFFICES /\ favourites \subseteq favourites' /\ favourites' \subseteq Ids
               /\ stored' \in PriceList /\ cart' \in PriceList
               /\ detail' \in Product \cup {None} /\ (detail' = None \/ detail' \in was)
               /\ Real(stored)' /\ Real(cart)'
  <2>1. ASSUME favourites' \subseteq Ids, stored' \in PriceList, cart' \in PriceList,
               detail' \in Product \cup {None}
        PROVE  TypeOK'
    BY <1>1, <2>1 DEF IInv, TypeOK, K!TypeOK, PriceList, Product
  <2>2. ASSUME detail' = None \/ detail' \in was, Real(stored)', Real(cart)'
        PROVE  PriceInv'
    BY <1>1, <2>2 DEF IInv, PriceInv
  <2>3. QED
    BY <1>1, <1>2, <1>5, <2>1, <2>2, HeartsStay DEF IInv
<1>6. CASE FavouriteButton
  <2>1. /\ detail # None /\ stored' = [stored EXCEPT ![detail.id] = detail.price]
        /\ UNCHANGED <<favourites, detail, cart>>
    BY <1>6 DEF FavouriteButton
  <2>2. Real(stored)'
    BY <1>1, <1>3, <1>4, <2>1 DEF Real
  <2>3. stored' \in PriceList
    BY <1>3, <1>4, <2>1 DEF PriceList
  <2>4. QED
    BY <1>1, <1>3, <2>1, <2>2, <2>3 DEF Real, PriceList, Product
<1>7. CASE CartButton
  <2>1. /\ detail # None /\ cart' = [cart EXCEPT ![detail.id] = detail.price]
        /\ UNCHANGED <<favourites, detail, stored>>
    BY <1>7 DEF CartButton, favouriteVars
  <2>2. Real(cart)'
    BY <1>1, <1>3, <1>4, <2>1 DEF Real
  <2>3. cart' \in PriceList
    BY <1>3, <1>4, <2>1 DEF PriceList
  <2>4. QED
    BY <1>1, <1>3, <2>1, <2>2, <2>3 DEF Real, PriceList, Product
<1>8. CASE CloseDetail
  BY <1>1, <1>3, <1>8 DEF CloseDetail, favouriteVars, Real, PriceList, Product
<1>9. ASSUME NEW id \in Ids, OpenFavourite(id) \/ FavouriteHeard(id)
      PROVE  /\ favourites \subseteq favourites' /\ favourites' \subseteq Ids
             /\ stored' \in PriceList /\ cart' \in PriceList
             /\ detail' \in Product \cup {None} /\ (detail' = None \/ detail' \in was)
             /\ Real(stored)' /\ Real(cart)'
  <2>1. UNCHANGED <<stored, cart>> /\ stored[id] # Absent
    BY <1>9 DEF OpenFavourite, FavouriteHeard, favouriteVars
  <2>2. Real(stored)' /\ Real(cart)'
    BY <1>1, <1>3, <2>1 DEF Real
  <2>3. stored' \in PriceList /\ cart' \in PriceList
    BY <1>3, <2>1 DEF PriceList
  <2>4. CASE OpenFavourite(id)
    <3>1. detail' = [id |-> id, price |-> stored[id]] /\ favourites' = favourites
      BY <2>4 DEF OpenFavourite, favouriteVars
    <3>2. detail' \in was
      BY <1>3, <2>1, <3>1 DEF Real
    <3>3. detail' \in Product
      BY <1>3, <2>1, <3>1 DEF Product
    <3>4. QED
      BY <1>3, <2>2, <2>3, <3>1, <3>2, <3>3
  <2>5. CASE FavouriteHeard(id)
    <3>1. favourites' = favourites \cup {id} /\ detail' = detail
      BY <2>5 DEF FavouriteHeard
    <3>2. QED
      BY <1>3, <2>2, <2>3, <3>1 DEF Product
  <2>6. QED
    BY <1>9, <2>4, <2>5
<1>10. QED
  BY <1>6, <1>7, <1>8, <1>9

\* The shop edits a record: one that appears has an event on its way, one that
\* was there no longer counts.
LEMMA EditStep ==
    ASSUME IInv, NEW k \in Records, NEW v \in Vals \cup {Absent}, EditRecord(k, v)
    PROVE  IInv'
<1> DEFINE e == K!ChildAdded(Shop, k, v)
           appears == cached[Shop][k] = Absent
<1>1. /\ cached[Shop][k] # v /\ changes < MaxChanges /\ changes' = changes + 1
      /\ cached' = [cached EXCEPT ![Shop][k] = v]
      /\ mainQueue' = IF appears THEN mainQueue \o [i \in 1..observers[Shop] |-> e] ELSE mainQueue
      /\ was' = IF v = Absent THEN was ELSE was \cup {ProductOf(k, v)}
      /\ edited' = IF appears THEN edited ELSE edited \cup {k}
      /\ UNCHANGED <<observers, registering>>
      /\ UNCHANGED <<loaded, products, hearts, fields, favourites, stored, detail, cart>>
  BY DEF EditRecord, K!Change, gridVars, favouriteVars
<1>2. /\ cached \in [{Shop} -> [Records -> Vals \cup {Absent}]] /\ observers[Shop] \in 0..1
      /\ mainQueue \in Seq(K!Event) /\ products \in Seq(Product)
      /\ Len(mainQueue) \in Nat /\ DOMAIN products = 1..Len(products)
  BY InvTypes DEF IInv, K!Event, Vals
<1>3. /\ cached'[Shop][k] = v
      /\ \A l \in Records : l # k => cached'[Shop][l] = cached[Shop][l]
      /\ cached' \in [{Shop} -> [Records -> Vals \cup {Absent}]]
  BY <1>1, <1>2
<1>4. appears => v # Absent /\ v \in Vals
  BY <1>1
<1>5. mainQueue' = IF appears /\ observers[Shop] = 1 THEN Append(mainQueue, e) ELSE mainQueue
  <2> HIDE DEF e, appears
  <2>1. CASE observers[Shop] = 0
    <3>1. [i \in 1..observers[Shop] |-> e] = <<>>
      BY <2>1
    <3>2. mainQueue \o <<>> = mainQueue
      BY <1>2
    <3>3. QED
      BY <1>1, <2>1, <3>1, <3>2
  <2>2. CASE observers[Shop] = 1
    <3>1. [i \in 1..observers[Shop] |-> e] = <<e>>
      BY <2>2
    <3>2. mainQueue \o <<e>> = Append(mainQueue, e)
      BY <1>2
    <3>3. QED
      BY <1>1, <2>2, <3>1, <3>2
  <2>3. QED
    BY <1>2, <2>1, <2>2
<1>6. appears => e \in K!Event /\ e.key = k /\ e.val = v
  BY <1>4 DEF K!Event, K!ChildAdded, Vals
<1>7. \A j \in 1..Len(mainQueue') :
        \/ j \in 1..Len(mainQueue) /\ mainQueue'[j] = mainQueue[j]
        \/ appears /\ j = Len(mainQueue) + 1 /\ mainQueue'[j] = e
  <2> HIDE DEF e, appears
  <2>1. QED
    BY <1>2, <1>5
<1>8. TypeOK'
  <2>1. changes' \in 0..MaxChanges
    BY <1>1, CatalogueAssumption DEF IInv, TypeOK, K!TypeOK
  <2>2. mainQueue' \in Seq(K!Event)
    BY <1>2, <1>5, <1>6
  <2>3. K!TypeOK'
    BY <1>1, <1>3, <2>1, <2>2 DEF IInv, TypeOK, K!TypeOK, Vals
  <2>4. was' \subseteq Product /\ edited' \subseteq Records
    BY <1>1, <1>4, ProductTypes DEF IInv, TypeOK
  <2>5. QED
    BY <1>1, <2>3, <2>4 DEF IInv, TypeOK, PriceList, Product
<1>9. FirstHeartHonest'
  BY <1>1, HeartsStay DEF IInv
<1>10. PriceInv'
  <2>1. was \subseteq was' /\ (v # Absent => ProductOf(k, v) \in was')
    BY <1>1
  <2>2. \A l \in Records : cached'[Shop][l] # Absent => ProductOf(l, cached'[Shop][l]) \in was'
    BY <1>3, <2>1 DEF IInv, PriceInv
  <2>3. \A j \in 1..Len(mainQueue') : ProductOf(mainQueue'[j].key, mainQueue'[j].val) \in was'
    <3> HIDE DEF e, appears
    <3>1. QED
      BY <1>4, <1>6, <1>7, <2>1 DEF IInv, PriceInv, appears
  <2>4. \A i \in 1..Len(products) : products[i] \in was'
    BY <2>1 DEF IInv, PriceInv
  <2>5. Real(cart)' /\ Real(stored)' /\ (detail' = None \/ detail' \in was')
    BY <1>1, <2>1 DEF IInv, PriceInv, Real
  <2>6. QED
    BY <1>1, <2>2, <2>3, <2>4, <2>5 DEF PriceInv
<1>11. RowsInv'
  <2>1. CASE Nothing /\ (Before \/ Between)
    BY <1>1, <1>5, <2>1 DEF RowsInv, Before, Between, Nothing
  <2>2. CASE After
    <3>1. PICK S, f : S \in SUBSET Kept /\ Matched(S, f)
      BY <2>2 DEF After
    <3>2. observers[Shop] = 1
      BY <2>2 DEF After
    <3>3. CASE appears
      <4>1. k \notin Mine /\ k \notin S
        BY <3>1, <3>3 DEF Kept, Mine
      <4>2. \A l \in Records : l # k => (l \in Kept' <=> l \in Kept)
        BY <1>1, <1>3, <3>3 DEF Kept, Mine
      <4>3. S \subseteq Records /\ S \subseteq Kept' /\ Kept' \subseteq Records
        BY <3>1, <4>1, <4>2 DEF Kept, Mine
      <4>4. mainQueue' = Append(mainQueue, e)
        BY <1>5, <3>2, <3>3
      <4>5. \A l \in S : f[l] \in DOMAIN products /\ products[f[l]] = ProductOf(l, cached'[Shop][l])
        BY <1>3, <3>1, <4>1, <4>3 DEF Matched
      <4>6. \A l \in Kept' \ S : \E j \in 1..Len(mainQueue') :
              mainQueue'[j] = K!ChildAdded(Shop, l, cached'[Shop][l])
        <5> HIDE DEF e, appears
        <5>1. Len(mainQueue) + 1 \in 1..Len(mainQueue') /\ mainQueue'[Len(mainQueue) + 1] = e
              /\ \A j \in 1..Len(mainQueue) : j \in 1..Len(mainQueue') /\ mainQueue'[j] = mainQueue[j]
          BY <1>2, <4>4
        <5>2. SUFFICES ASSUME NEW l \in Kept' \ S
                       PROVE  \E j \in 1..Len(mainQueue') :
                                mainQueue'[j] = K!ChildAdded(Shop, l, cached'[Shop][l])
          OBVIOUS
        <5>3. CASE l = k
          BY <1>3, <5>1, <5>3 DEF e
        <5>4. CASE l # k
          <6>1. l \in Kept \ S /\ cached'[Shop][l] = cached[Shop][l]
            BY <1>3, <4>2, <4>3, <5>2, <5>4
          <6>2. PICK j \in 1..Len(mainQueue) : mainQueue[j] = K!ChildAdded(Shop, l, cached[Shop][l])
            BY <3>1, <6>1 DEF Matched
          <6>3. QED
            BY <5>1, <6>1, <6>2
        <5>5. QED
          BY <5>3, <5>4
      <4>7. edited = {} =>
              /\ \A i \in DOMAIN products : \E l \in S : f[l] = i
              /\ \A j \in 1..Len(mainQueue') :
                    /\ mainQueue'[j].key \notin S
                    /\ mainQueue'[j].val = cached'[Shop][mainQueue'[j].key] /\ mainQueue'[j].val # Absent
              /\ \A i, j \in 1..Len(mainQueue') : mainQueue'[i].key = mainQueue'[j].key => i = j
        <5> SUFFICES ASSUME edited = {}
                     PROVE
              /\ \A i \in DOMAIN products : \E l \in S : f[l] = i
              /\ \A j \in 1..Len(mainQueue') :
                    /\ mainQueue'[j].key \notin S
                    /\ mainQueue'[j].val = cached'[Shop][mainQueue'[j].key] /\ mainQueue'[j].val # Absent
              /\ \A i, j \in 1..Len(mainQueue') : mainQueue'[i].key = mainQueue'[j].key => i = j
          OBVIOUS
        <5>1. /\ \A i \in DOMAIN products : \E l \in S : f[l] = i
              /\ \A j \in 1..Len(mainQueue) :
                    /\ mainQueue[j].key \notin S
                    /\ mainQueue[j].val = cached[Shop][mainQueue[j].key] /\ mainQueue[j].val # Absent
              /\ \A i, j \in 1..Len(mainQueue) : mainQueue[i].key = mainQueue[j].key => i = j
          BY <3>1 DEF Matched
        <5>2. \A j \in 1..Len(mainQueue) : mainQueue[j].key \in Records
          <6>1. \A j \in 1..Len(mainQueue) : mainQueue[j] \in K!Event
            BY <1>2
          <6>2. \A x \in K!Event : x.key \in Records
            BY DEF K!Event
          <6>3. QED
            BY <6>1, <6>2
        <5>3. \A j \in 1..Len(mainQueue) : mainQueue[j].key # k
          BY <3>3, <5>1
        <5>4. \A j \in 1..Len(mainQueue) : cached'[Shop][mainQueue[j].key] = mainQueue[j].val
          BY <1>3, <5>1, <5>2, <5>3
        <5>5. e.key = k /\ e.val = v /\ v # Absent
          BY <1>4, <1>6, <3>3
        <5> HIDE DEF e, appears
        <5>6. QED
          BY <1>3, <1>7, <4>1, <5>1, <5>3, <5>4, <5>5, SMTT(30)
      <4>8. Matched(S, f)'
        <5>1. products' = products /\ edited' = edited
          BY <1>1, <3>3
        <5>2. \A l, m \in S : f[l] = f[m] => l = m
          BY <3>1 DEF Matched
        <5> HIDE DEF e, appears
        <5>3. QED
          BY <4>5, <4>6, <4>7, <5>1, <5>2 DEF Matched
      <4>9. QED
        BY <1>1, <2>2, <4>3, <4>8 DEF RowsInv, After
    <3>4. CASE ~appears
      <4>0. PICK T : T = S \ {k}
        OBVIOUS
      <4>1. edited' = edited \cup {k} /\ mainQueue' = mainQueue
        BY <1>1, <3>4
      <4>2. Kept' = Kept \ {k}
        BY <1>3, <4>1 DEF Kept, Mine
      <4>3. \A l \in Kept' : cached'[Shop][l] = cached[Shop][l]
        BY <1>3, <4>2 DEF Kept, Mine
      <4>4. T \subseteq Kept' /\ T \subseteq S /\ Kept' \ T \subseteq Kept \ S
        BY <3>1, <4>0, <4>2
      <4>5. Matched(T, f)'
        <5>1. \A l \in T : f[l] \in DOMAIN products /\ products[f[l]] = ProductOf(l, cached'[Shop][l])
          BY <3>1, <4>3, <4>4 DEF Matched
        <5>2. \A l, m \in T : f[l] = f[m] => l = m
          BY <3>1, <4>4 DEF Matched
        <5>3. \A l \in Kept' \ T : \E j \in 1..Len(mainQueue) :
                mainQueue[j] = K!ChildAdded(Shop, l, cached'[Shop][l])
          BY <3>1, <4>3, <4>4 DEF Matched
        <5>4. edited' # {} /\ products' = products
          BY <1>1, <4>1
        <5>5. QED
          BY <4>1, <5>1, <5>2, <5>3, <5>4 DEF Matched
      <4>6. QED
        BY <1>1, <2>2, <4>4, <4>5 DEF RowsInv, After
    <3>5. QED
      BY <3>3, <3>4
  <2>3. QED
    BY <2>1, <2>2 DEF IInv, RowsInv
<1>12. QED
  BY <1>8, <1>9, <1>10, <1>11 DEF IInv

-----------------------------------------------------------------------------
(* The theorems. *)

LEMMA CatalogueStep == IInv /\ [Next]_vars => IInv'
<1> SUFFICES ASSUME IInv, [Next]_vars PROVE IInv'
  OBVIOUS
<1>1. CASE LoadGrid
  BY <1>1, LoadStep
<1>2. CASE childAdded
  BY <1>2, EventStep
<1>3. CASE FavouriteButton \/ CartButton \/ CloseDetail
  BY <1>3, DetailStep
<1>4. CASE Register
  BY <1>4, RegisterStep
<1>5. ASSUME NEW i \in DOMAIN products, configureCell(i) \/ productFavorited(i) \/ didSelectItemAt(i)
      PROVE  IInv'
  BY <1>5, CellStep, HeartStep, SelectStep
<1>6. ASSUME NEW id \in Ids, OpenFavourite(id) \/ FavouriteHeard(id)
      PROVE  IInv'
  BY <1>6, DetailStep
<1>7. ASSUME NEW k \in Records, NEW v \in [category : Categories, price : Prices] \cup {Absent},
             EditRecord(k, v)
      PROVE  IInv'
  BY <1>7, EditStep DEF Vals
<1>8. CASE UNCHANGED vars
  <2>1. /\ UNCHANGED <<cached, observers, registering, mainQueue, changes>>
        /\ UNCHANGED <<loaded, products, hearts, fields, favourites, stored, detail, cart, was, edited>>
    BY <1>8 DEF vars, listenerVars, gridVars, favouriteVars
  <2>2. TypeOK'
    BY <2>1 DEF IInv, TypeOK, K!TypeOK, PriceList, Product
  <2>3. PriceInv'
    BY <2>1 DEF IInv, PriceInv, Real
  <2>4. FirstHeartHonest' /\ RowsInv'
    BY <2>1, HeartsStay, RowsStay DEF IInv, RowVars
  <2>5. QED
    BY <2>2, <2>3, <2>4 DEF IInv
<1>9. QED
  BY <1>1, <1>2, <1>3, <1>4, <1>5, <1>6, <1>7, <1>8 DEF Next

\* The inductive invariant.
THEOREM CatalogueInvariant == Spec => []IInv
BY CatalogueInit, CatalogueStep, PTL DEF Spec

\* Every variable of the grid keeps its type.
THEOREM CatalogueTypes == Spec => []TypeOK
<1>1. IInv => TypeOK
  BY DEF IInv
<1>2. QED
  BY <1>1, CatalogueInvariant, PTL

\* The first row of a product never shows a filled heart that the favourites do
\* not bear out (productFavorited reloads that row, and no other).
THEOREM FirstHeartIsHonest == Spec => []FirstHeartHonest
<1>1. IInv => FirstHeartHonest
  BY DEF IInv
<1>2. QED
  BY <1>1, CatalogueInvariant, PTL

\* What is shown, kept or charged is a price the catalogue has had for the very
\* product, by whichever way it came to the detail screen.
THEOREM PricesAreReal == Spec => []PricesWereReal
<1>1. IInv => PricesWereReal
  BY DEF IInv, PriceInv, Real, PricesWereReal
<1>2. QED
  BY <1>1, CatalogueInvariant, PTL

\* Once the events have arrived, the untouched products of the category have a
\* row each, and no other row is there while the shop only adds.
THEOREM RowsAreExact == Spec => []RowsExact
<1>1. ASSUME IInv, loaded, K!Quiet
      PROVE  LET kept == Mine \ edited
                 Same(k) == {l \in kept : ProductOf(l, cached[Shop][l]) = ProductOf(k, cached[Shop][k])}
             IN  /\ \A k \in kept :
                       Cardinality(Rows(ProductOf(k, cached[Shop][k]))) >= Cardinality(Same(k))
                 /\ edited = {} => Len(products) = Cardinality(Mine)
  <2>1. After /\ mainQueue = <<>>
    BY <1>1 DEF IInv, RowsInv, Before, Between, K!Quiet
  <2>2. PICK S, f : S \in SUBSET Kept /\ Matched(S, f)
    BY <2>1 DEF After
  <2>3. S = Kept
    <3>1. 1..Len(mainQueue) = {}
      BY <2>1
    <3>2. \A k \in Kept \ S : \E j \in 1..Len(mainQueue) :
            mainQueue[j] = K!ChildAdded(Shop, k, cached[Shop][k])
      BY <2>2 DEF Matched
    <3>3. QED
      BY <2>2, <3>1, <3>2
  <2>4. Len(products) \in Nat /\ DOMAIN products = 1..Len(products)
    BY <1>1, InvTypes DEF IInv
  <2>5. IsFiniteSet(DOMAIN products) /\ Cardinality(DOMAIN products) = Len(products)
    <3>1. \A n \in Nat : IsFiniteSet(1..n) /\ Cardinality(1..n) = n
      <4>1. SUFFICES ASSUME NEW n \in Nat PROVE IsFiniteSet(1..n) /\ Cardinality(1..n) = n
        OBVIOUS
      <4>2. 1 \in Int /\ n \in Int /\ (IF 1 > n THEN 0 ELSE n - 1 + 1) = n
        OBVIOUS
      <4>3. IsFiniteSet(1..n) /\ Cardinality(1..n) = (IF 1 > n THEN 0 ELSE n - 1 + 1)
        BY <4>2, FS_Interval
      <4>4. QED
        BY <4>2, <4>3
    <3>2. QED
      BY <2>4, <3>1
  <2>6. ASSUME NEW k \in Kept,
               NEW A, A = {l \in Kept : ProductOf(l, cached[Shop][l]) = ProductOf(k, cached[Shop][k])}
        PROVE  Cardinality(Rows(ProductOf(k, cached[Shop][k]))) >= Cardinality(A)
    <3>1. PICK R : R = Rows(ProductOf(k, cached[Shop][k]))
      OBVIOUS
    <3>2. IsFiniteSet(R)
      BY <2>5, <3>1, FS_Subset DEF Rows
    <3>3. PICK g : g = [l \in A |-> f[l]]
      OBVIOUS
    <3>4. g \in [A -> R]
      BY <2>2, <2>3, <2>6, <3>1, <3>3 DEF Matched, Rows
    <3>5. \A l, m \in A : g[l] = g[m] => l = m
      BY <2>2, <2>3, <2>6, <3>3 DEF Matched
    <3>6. g \in Injection(A, R)
      BY <3>4, <3>5 DEF Injection, IsInjective
    <3>7. IsFiniteSet(A) /\ Cardinality(A) <= Cardinality(R)
      BY <3>2, <3>6, FS_Injection
    <3>8. Cardinality(A) \in Nat /\ Cardinality(R) \in Nat
      BY <3>2, <3>7, FS_CardinalityType
    <3>9. QED
      BY <3>1, <3>7, <3>8
  <2>7. ASSUME edited = {}
        PROVE  Len(products) = Cardinality(Mine)
    <3>1. Mine = S
      BY <2>3, <2>7 DEF Kept
    <3>2. PICK g : g = [l \in S |-> f[l]]
      OBVIOUS
    <3>3. g \in [S -> DOMAIN products]
      BY <2>2, <3>2 DEF Matched
    <3>4. \A l, m \in S : g[l] = g[m] => l = m
      BY <2>2, <3>2 DEF Matched
    <3>5. \A i \in DOMAIN products : \E l \in S : g[l] = i
      BY <2>2, <2>7, <3>2 DEF Matched
    <3>6. g \in Injection(S, DOMAIN products) /\ g \in Surjection(S, DOMAIN products)
      BY <3>3, <3>4, <3>5 DEF Injection, Surjection, IsInjective
    <3>7. Cardinality(S) = Cardinality(DOMAIN products)
      BY <2>5, <3>6, FS_Injection
    <3>8. QED
      BY <2>5, <3>1, <3>7
  <2>8. QED
    BY <2>6, <2>7 DEF Kept
<1>2. IInv => RowsExact
  BY <1>1 DEF RowsExact
<1>3. QED
  BY <1>2, CatalogueInvariant, PTL
=============================================================================

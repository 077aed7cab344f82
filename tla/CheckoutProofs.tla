--------------------------- MODULE CheckoutProofs ---------------------------
(* Theorems about Checkout, for any devices, products, orders and bounds.  *)
EXTENDS Checkout, TLAPS

\* The theorems about the write pipeline, for the pipeline of Checkout.
QP == INSTANCE WriteQueueProofs WITH
        Paths <- CartPaths \cup OrderPaths,
        Values <- Qty,
        None <- NoRecord,
        Public <- (IF SecuredCart THEN {} ELSE CartPaths)
                    \cup (IF SecuredOrders THEN {} ELSE OrderPaths),
        Batches <- Seq([path : CartPaths \cup OrderPaths, val : Qty \cup {NoRecord}])

-----------------------------------------------------------------------------
(* The pipeline. *)

\* The assumptions of WriteQueue hold here.
LEMMA QueueAssumptions ==
    /\ NoRecord \notin Qty
    /\ ((IF SecuredCart THEN {} ELSE CartPaths) \cup (IF SecuredOrders THEN {} ELSE OrderPaths))
          \subseteq CartPaths \cup OrderPaths
    /\ \A batch \in Seq([path : CartPaths \cup OrderPaths, val : Qty \cup {NoRecord}]) :
         batch \in Seq(QP!Write)
    /\ MaxPuts \in Nat /\ MaxDisruptions \in Nat
BY CheckoutAssumption DEF NoRecord, Qty, QP!Write

LEMMA QueueInit == QP!Init => QP!TypeOK /\ QP!Inv
BY QP!InitInv, QueueAssumptions, Zenon

LEMMA QueueStep == QP!TypeOK /\ QP!Inv /\ [QP!Next]_QP!queueVars => QP!TypeOK' /\ QP!Inv'
BY QP!InvStep, QueueAssumptions, Zenon

\* Both instances of the pipeline are the same.
LEMMA SameInit == (Q!Init <=> QP!Init) /\ (Q!TypeOK <=> QP!TypeOK)
BY DEF Q!Init, QP!Init, Q!TypeOK, QP!TypeOK, Q!Put, QP!Put, Q!Request, QP!Request,
       Q!Response, QP!Response

LEMMA SameIssue == ASSUME NEW d, NEW batch PROVE Q!Issue(d, batch) <=> QP!Issue(d, batch)
BY DEF Q!Issue, QP!Issue, Q!PutsOf, QP!PutsOf, Q!RequestsOf, QP!RequestsOf,
       Q!PathsOf, QP!PathsOf, Q!LastOf, QP!LastOf

LEMMA SameKill == ASSUME NEW d PROVE Q!Kill(d) <=> QP!Kill(d)
BY DEF Q!Kill, QP!Kill, Q!history, QP!history

LEMMA SameSession ==
    ASSUME NEW d
    PROVE  (Q!SignIn(d) <=> QP!SignIn(d)) /\ (Q!SignOut(d) <=> QP!SignOut(d))
BY DEF Q!SignIn, QP!SignIn, Q!SignOut, QP!SignOut, Q!history, QP!history

LEMMA SameBackground == Q!Background <=> QP!Background
<1>1. ASSUME NEW d PROVE Q!Connect(d) <=> QP!Connect(d)
  BY DEF Q!Connect, QP!Connect, Q!RequestsOf, QP!RequestsOf, Q!Resent, QP!Resent,
         Q!history, QP!history
<1>2. ASSUME NEW d PROVE Q!Disconnect(d) <=> QP!Disconnect(d)
  BY DEF Q!Disconnect, QP!Disconnect, Q!history, QP!history
<1>3. ASSUME NEW d PROVE Q!Answer(d) <=> QP!Answer(d)
  BY DEF Q!Answer, QP!Answer, Q!SettledBy, QP!SettledBy, Q!history, QP!history
<1>4. ASSUME NEW d PROVE Q!Process(d) <=> QP!Process(d)
  BY DEF Q!Process, QP!Process, Q!Granted, QP!Granted, Q!deviceVars, QP!deviceVars
<1>5. QED
  BY <1>1, <1>2, <1>3, <1>4 DEF Q!Background, QP!Background

\* A batch is issued under indices that no put had before.
LEMMA IssueFacts ==
    ASSUME QP!TypeOK, NEW d \in Devices,
           NEW batch \in Seq([path : CartPaths \cup OrderPaths, val : Qty \cup {NoRecord}]),
           QP!Issue(d, batch)
    PROVE  /\ outstandingPuts' = [outstandingPuts EXCEPT ![d] = @ \cup QP!PutsOf(d, batch)]
           /\ putCounter' = [putCounter EXCEPT ![d] = @ + Len(batch)]
           /\ UNCHANGED <<store, refused, processed>>
           /\ \A pt \in QP!PutsOf(d, batch) : \E j \in 1..Len(batch) :
                pt = [idx |-> putCounter[d] + j - 1, path |-> batch[j].path, val |-> batch[j].val]
           /\ \A j \in 1..Len(batch) :
                [idx |-> putCounter[d] + j - 1, path |-> batch[j].path, val |-> batch[j].val]
                    \in QP!PutsOf(d, batch)
<1>1. DOMAIN batch = 1..Len(batch)
  OBVIOUS
<1>2. QED
  BY <1>1 DEF QP!Issue, QP!PutsOf

-----------------------------------------------------------------------------
(* Paths and batches. *)

LEMMA PathFacts ==
    ASSUME NEW p, NEW q, NEW o, NEW n
    PROVE  /\ CartPath(p) # OrderPath(o, q)
           /\ CartPath(p) = CartPath(q) => p = q
           /\ OrderPath(o, p) = OrderPath(n, q) => o = n /\ p = q
BY DEF CartPath, OrderPath

\* The writes of a tap: the line of each product, then its removal.
LEMMA WritesFacts ==
    ASSUME NEW o \in Orders, NEW list \in Seq(Line)
    PROVE  /\ CheckoutWrites(o, list) \in
                Seq([path : CartPaths \cup OrderPaths, val : Qty \cup {NoRecord}])
           /\ Len(CheckoutWrites(o, list)) = 2 * Len(list)
           /\ \A i \in 1..Len(list) :
                /\ CheckoutWrites(o, list)[2 * i - 1] = Set(OrderPath(o, list[i].id), list[i].qty)
                /\ CheckoutWrites(o, list)[2 * i] = Remove(CartPath(list[i].id))
           /\ \A j \in 1..(2 * Len(list)) : \E i \in 1..Len(list) : j = 2 * i - 1 \/ j = 2 * i
<1> DEFINE n == Len(list)
           W == CheckoutWrites(o, list)
           Item(j) == LET l == list[(j + 1) \div 2]
                      IN  IF j % 2 = 1 THEN Set(OrderPath(o, l.id), l.qty) ELSE Remove(CartPath(l.id))
<1>1. n \in Nat /\ W = [j \in 1..(2 * n) |-> Item(j)]
  BY DEF CheckoutWrites
<1>2. \A j \in 1..(2 * n) : (j + 1) \div 2 \in 1..n /\ (j % 2 = 0 \/ j % 2 = 1)
  BY <1>1
<1>3. \A i \in 1..n : /\ 2 * i - 1 \in 1..(2 * n) /\ 2 * i \in 1..(2 * n)
                     /\ (2 * i - 1 + 1) \div 2 = i /\ (2 * i + 1) \div 2 = i
                     /\ (2 * i - 1) % 2 = 1 /\ (2 * i) % 2 = 0
  BY <1>1
<1>4. \A i \in 1..n : list[i] \in Line /\ list[i].id \in Products /\ list[i].qty \in Qty
  <2>1. \A i \in 1..n : list[i] \in Line
    BY <1>1
  <2>2. QED
    BY <2>1 DEF Line
<1>5. \A j \in 1..(2 * n) : Item(j) \in [path : CartPaths \cup OrderPaths, val : Qty \cup {NoRecord}]
  <2> SUFFICES ASSUME NEW j \in 1..(2 * n)
               PROVE  Item(j) \in [path : CartPaths \cup OrderPaths, val : Qty \cup {NoRecord}]
    OBVIOUS
  <2>1. PICK i \in 1..n : i = (j + 1) \div 2
    BY <1>2
  <2>2. OrderPath(o, list[i].id) \in OrderPaths /\ CartPath(list[i].id) \in CartPaths
    BY <1>4 DEF OrderPaths, CartPaths
  <2>3. QED
    BY <1>4, <2>1, <2>2 DEF Set, Remove
<1>6. \A i \in 1..n : /\ Item(2 * i - 1) = Set(OrderPath(o, list[i].id), list[i].qty)
                     /\ Item(2 * i) = Remove(CartPath(list[i].id))
  BY <1>3
<1> HIDE DEF Item
<1>7. W \in Seq([path : CartPaths \cup OrderPaths, val : Qty \cup {NoRecord}]) /\ Len(W) = 2 * n
  <2>1. 2 * n \in Nat
    BY <1>1
  <2>2. QED
    BY <1>1, <1>5, <2>1
<1>8. \A i \in 1..n : W[2 * i - 1] = Item(2 * i - 1) /\ W[2 * i] = Item(2 * i)
  BY <1>1, <1>3
<1>9. ASSUME NEW j \in 1..(2 * n)
      PROVE  \E i \in 1..n : j = 2 * i - 1 \/ j = 2 * i
  <2>1. (j + 1) \div 2 \in 1..n
    BY <1>2
  <2>2. j = 2 * ((j + 1) \div 2) - 1 \/ j = 2 * ((j + 1) \div 2)
    BY <1>1
  <2>3. QED
    BY <2>1, <2>2
<1>10. QED
  BY <1>6, <1>7, <1>8, <1>9

-----------------------------------------------------------------------------
(* The invariant: what the puts of a device have to do with the taps that  *)
(* issued them.                                                            *)

\* The order o was placed on d and has a line i.
HasLine(d, o, i) == d \in placed[o].by /\ i \in 1..Len(placed[o].lines)

\* The indices of the two puts of the line, and where it goes.
LineIdx(o, i) == placed[o].idx + 2 * i - 2
RemovalIdx(o, i) == placed[o].idx + 2 * i - 1
LinePath(o, i) == OrderPath(o, placed[o].lines[i].id)

\* The put with the index of the line is the put of the line; it stays
\* outstanding with the removal until it is processed; the removal is
\* processed after it; and once processed the line is stored, or refused.
LineInv(d, o, i) ==
    /\ \A pt \in outstandingPuts[d] : pt.idx = LineIdx(o, i) => pt.path = LinePath(o, i)
    /\ \A pt \in outstandingPuts[d] : pt.idx = RemovalIdx(o, i) =>
          \/ LineIdx(o, i) \in processed[d]
          \/ \E q \in outstandingPuts[d] : q.idx = LineIdx(o, i)
    /\ RemovalIdx(o, i) \in processed[d] => LineIdx(o, i) \in processed[d]
    /\ LineIdx(o, i) \in processed[d] =>
          store[LinePath(o, i)] # NoRecord \/ LinePath(o, i) \in refused

Lines ==
    \A d \in Devices, o \in Orders : \A i \in 1..Len(placed[o].lines) :
        HasLine(d, o, i) => LineInv(d, o, i)

\* The indices of an order have been given out.
Numbered ==
    \A d \in Devices, o \in Orders : d \in placed[o].by =>
        placed[o].idx + 2 * Len(placed[o].lines) <= putCounter[d]

\* What is removed is a product of the cart, by its owner or by a tap.
Reason(d, pt) ==
    \E p \in Products :
        /\ pt.path = CartPath(p)
        /\ \/ p \in deleted
           \/ \E o \in Orders : \E i \in 1..Len(placed[o].lines) :
                HasLine(d, o, i) /\ placed[o].lines[i].id = p /\ pt.idx = RemovalIdx(o, i)
Justified ==
    \A d \in Devices : \A pt \in outstandingPuts[d] : pt.val = NoRecord => Reason(d, pt)

IInv == QP!TypeOK /\ QP!Inv /\ TypeOK /\ Lines /\ Numbered /\ Justified

LEMMA LineTypes ==
    ASSUME TypeOK, NEW o \in Orders
    PROVE  /\ placed[o].lines \in Seq(Line) /\ placed[o].idx \in Nat
           /\ Len(placed[o].lines) \in Nat
           /\ \A i \in 1..Len(placed[o].lines) :
                placed[o].lines[i].id \in Products /\ LineIdx(o, i) \in Int /\ RemovalIdx(o, i) \in Int
<1>1. placed[o].lines \in Seq(Line) /\ placed[o].idx \in Nat
  BY DEF TypeOK
<1>2. Len(placed[o].lines) \in Nat /\ \A i \in 1..Len(placed[o].lines) : placed[o].lines[i] \in Line
  BY <1>1
<1>3. QED
  BY <1>1, <1>2 DEF Line, LineIdx, RemovalIdx

LEMMA CheckoutInit == Init => IInv
<1> SUFFICES ASSUME Init PROVE IInv
  OBVIOUS
<1>1. QP!Init /\ QP!TypeOK /\ QP!Inv
  BY QueueInit, SameInit DEF Init
<1>2. TypeOK
  <2>1. <<>> \in Seq(Line)
    OBVIOUS
  <2>2. Q!TypeOK
    BY <1>1, SameInit
  <2>3. QED
    BY <2>1, <2>2 DEF Init, TypeOK, NotPlaced
<1>3. \A o \in Orders : placed[o].by = {}
  BY DEF Init, NotPlaced
<1>4. \A d \in Devices : outstandingPuts[d] = {}
  BY <1>1 DEF QP!Init
<1>5. QED
  BY <1>1, <1>2, <1>3, <1>4 DEF IInv, Lines, HasLine, Numbered, Justified

-----------------------------------------------------------------------------
(* A handler that issues a batch. *)

\* What holds of the lines of earlier orders is not disturbed.
LEMMA IssueKeepsLines ==
    ASSUME IInv, NEW d \in Devices,
           NEW batch \in Seq([path : CartPaths \cup OrderPaths, val : Qty \cup {NoRecord}]),
           QP!Issue(d, batch),
           NEW e \in Devices, NEW o \in Orders, NEW i \in 1..Len(placed[o].lines),
           HasLine(e, o, i), placed'[o] = placed[o]
    PROVE  LineInv(e, o, i)'
<1>1. /\ LineInv(e, o, i) /\ RemovalIdx(o, i) < putCounter[e] /\ LineIdx(o, i) < putCounter[e]
      /\ LineIdx(o, i) \in Int /\ RemovalIdx(o, i) \in Int
  <2>1. placed[o].idx + 2 * Len(placed[o].lines) <= putCounter[e] /\ putCounter[e] \in Nat
    BY DEF IInv, Numbered, HasLine, QP!TypeOK
  <2>2. placed[o].idx \in Nat /\ Len(placed[o].lines) \in Nat
    BY LineTypes DEF IInv
  <2>3. LineInv(e, o, i)
    BY DEF IInv, Lines
  <2>4. QED
    BY <2>1, <2>2, <2>3, SMTT(30) DEF LineIdx, RemovalIdx
<1>2. /\ outstandingPuts' = [outstandingPuts EXCEPT ![d] = @ \cup QP!PutsOf(d, batch)]
      /\ UNCHANGED <<store, refused, processed>>
      /\ \A pt \in QP!PutsOf(d, batch) : \E j \in 1..Len(batch) : pt.idx = putCounter[d] + j - 1
  <2>1. QP!TypeOK
    BY DEF IInv
  <2>2. /\ outstandingPuts' = [outstandingPuts EXCEPT ![d] = @ \cup QP!PutsOf(d, batch)]
        /\ UNCHANGED <<store, refused, processed>>
    BY <2>1, IssueFacts
  <2>3. \A pt \in QP!PutsOf(d, batch) : \E j \in 1..Len(batch) :
            pt = [idx |-> putCounter[d] + j - 1, path |-> batch[j].path, val |-> batch[j].val]
    BY <2>1, IssueFacts
  <2>4. QED
    BY <2>2, <2>3
<1>3. \A pt \in outstandingPuts'[e] :
        pt.idx = LineIdx(o, i) \/ pt.idx = RemovalIdx(o, i) => pt \in outstandingPuts[e]
  <2>1. putCounter[d] \in Nat /\ outstandingPuts \in [Devices -> SUBSET QP!Put]
    BY DEF IInv, QP!TypeOK
  <2>2. \A pt \in QP!PutsOf(d, batch) : pt.idx \in Int /\ pt.idx >= putCounter[d]
    BY <1>2, <2>1
  <2>3. QED
    BY <1>1, <1>2, <2>1, <2>2
<1>4. /\ LineIdx(o, i)' = LineIdx(o, i) /\ RemovalIdx(o, i)' = RemovalIdx(o, i)
      /\ LinePath(o, i)' = LinePath(o, i)
  BY DEF LineIdx, RemovalIdx, LinePath
<1>5. outstandingPuts[e] \subseteq outstandingPuts'[e]
  BY <1>2 DEF IInv, QP!TypeOK
<1>6. QED
  BY <1>1, <1>2, <1>3, <1>4, <1>5 DEF LineInv

\* The puts that were there keep their reasons.
LEMMA ReasonsKept ==
    ASSUME TypeOK, NEW d \in Devices, NEW pt, Reason(d, pt), deleted \subseteq deleted',
           \A o \in Orders : placed[o].by # {} => placed'[o] = placed[o]
    PROVE  Reason(d, pt)'
<1>1. PICK p \in Products : /\ pt.path = CartPath(p)
                           /\ \/ p \in deleted
                              \/ \E o \in Orders : \E i \in 1..Len(placed[o].lines) :
                                    HasLine(d, o, i) /\ placed[o].lines[i].id = p
                                        /\ pt.idx = RemovalIdx(o, i)
  BY DEF Reason
<1>2. CASE p \in deleted
  BY <1>1, <1>2 DEF Reason
<1>3. CASE p \notin deleted
  <2>1. PICK o \in Orders : \E i \in 1..Len(placed[o].lines) :
            HasLine(d, o, i) /\ placed[o].lines[i].id = p /\ pt.idx = RemovalIdx(o, i)
    BY <1>1, <1>3
  <2>2. PICK i \in 1..Len(placed[o].lines) :
            HasLine(d, o, i) /\ placed[o].lines[i].id = p /\ pt.idx = RemovalIdx(o, i)
    BY <2>1
  <2>3. placed'[o] = placed[o]
    BY <2>2 DEF HasLine
  <2>4. /\ i \in 1..Len(placed'[o].lines) /\ HasLine(d, o, i)'
        /\ placed'[o].lines[i].id = p /\ pt.idx = RemovalIdx(o, i)'
    BY <2>2, <2>3 DEF HasLine, RemovalIdx
  <2>5. QED
    BY <1>1, <2>4 DEF Reason
<1>4. QED
  BY <1>2, <1>3

\* A handler that writes one record, or removes one that its owner deletes.
LEMMA SingleStep ==
    ASSUME IInv, NEW d \in Devices,
           NEW w \in [path : CartPaths \cup OrderPaths, val : Qty \cup {NoRecord}],
           QP!Issue(d, <<w>>), placed' = placed, deleted \subseteq deleted',
           w.val = NoRecord => \E p \in Products : w.path = CartPath(p) /\ p \in deleted'
    PROVE  Lines' /\ Numbered' /\ Justified'
<1>1. <<w>> \in Seq([path : CartPaths \cup OrderPaths, val : Qty \cup {NoRecord}]) /\ Len(<<w>>) = 1
      /\ <<w>>[1] = w
  OBVIOUS
<1>2. QP!TypeOK /\ TypeOK /\ putCounter \in [Devices -> Nat]
      /\ outstandingPuts \in [Devices -> SUBSET QP!Put]
  BY DEF IInv, QP!TypeOK
<1>3. /\ outstandingPuts' = [outstandingPuts EXCEPT ![d] = @ \cup QP!PutsOf(d, <<w>>)]
      /\ putCounter' = [putCounter EXCEPT ![d] = @ + 1]
  BY <1>1, <1>2, IssueFacts
<1>4. \A pt \in QP!PutsOf(d, <<w>>) : pt.path = w.path /\ pt.val = w.val
  <2>1. \A pt \in QP!PutsOf(d, <<w>>) : \E j \in 1..Len(<<w>>) :
            pt = [idx |-> putCounter[d] + j - 1, path |-> <<w>>[j].path, val |-> <<w>>[j].val]
    BY <1>1, <1>2, IssueFacts
  <2>2. QED
    BY <1>1, <2>1
<1>5. Lines'
  <2>1. ASSUME NEW e \in Devices, NEW o \in Orders, NEW i \in 1..Len(placed[o].lines), HasLine(e, o, i)
        PROVE  LineInv(e, o, i)'
    BY <1>1, <2>1, IssueKeepsLines
  <2>2. QED
    BY <2>1 DEF Lines, HasLine
<1>6. Numbered'
  <2>1. SUFFICES ASSUME NEW e \in Devices, NEW o \in Orders, e \in placed[o].by
                 PROVE  placed[o].idx + 2 * Len(placed[o].lines) <= putCounter'[e]
    BY DEF Numbered
  <2>2. placed[o].idx + 2 * Len(placed[o].lines) <= putCounter[e]
    BY <2>1 DEF IInv, Numbered
  <2>3. placed[o].idx \in Nat /\ Len(placed[o].lines) \in Nat
    BY <1>2, LineTypes
  <2>4. QED
    BY <1>2, <1>3, <2>2, <2>3
<1>7. Justified'
  <2>1. SUFFICES ASSUME NEW e \in Devices, NEW pt \in outstandingPuts'[e], pt.val = NoRecord
                 PROVE  Reason(e, pt)'
    BY DEF Justified
  <2>2. CASE pt \in outstandingPuts[e]
    <3>1. Reason(e, pt)
      BY <2>1, <2>2 DEF IInv, Justified
    <3>2. QED
      BY <1>2, <3>1, ReasonsKept
  <2>3. CASE pt \notin outstandingPuts[e]
    <3>1. pt \in QP!PutsOf(d, <<w>>)
      BY <1>2, <1>3, <2>1, <2>3
    <3>2. \E p \in Products : pt.path = CartPath(p) /\ p \in deleted'
      BY <1>4, <2>1, <3>1
    <3>3. QED
      BY <3>2 DEF Reason
  <2>4. QED
    BY <2>2, <2>3
<1>8. QED
  BY <1>5, <1>6, <1>7

\* The tap on the payment screen: the new order gets lines whose indices follow
\* each other, and its removals get their reasons.
LEMMA OrderStep ==
    ASSUME IInv, NEW d \in Devices, NEW o \in Orders, Fresh(o),
           QP!Issue(d, CheckoutWrites(o, products[d])),
           placed' = [placed EXCEPT ![o] = [by |-> {d}, lines |-> products[d], idx |-> putCounter[d]]],
           deleted' = deleted
    PROVE  Lines' /\ Numbered' /\ Justified'
<1> DEFINE list == products[d]
           W == CheckoutWrites(o, list)
           n == Len(list)
           PutAt(j) == [idx |-> putCounter[d] + j - 1, path |-> W[j].path, val |-> W[j].val]
<1>1. /\ QP!TypeOK /\ TypeOK /\ putCounter \in [Devices -> Nat] /\ placed \in [Orders -> [by : SUBSET Devices, lines : Seq(Line), idx : Nat]]
      /\ outstandingPuts \in [Devices -> SUBSET QP!Put] /\ list \in Seq(Line) /\ n \in Nat
      /\ processed \in [Devices -> SUBSET Nat]
  <2>1. QP!TypeOK /\ TypeOK /\ putCounter \in [Devices -> Nat] /\ processed \in [Devices -> SUBSET Nat]
        /\ outstandingPuts \in [Devices -> SUBSET QP!Put]
    BY DEF IInv, QP!TypeOK
  <2>2. list \in Seq(Line)
    BY <2>1 DEF TypeOK
  <2>3. placed \in [Orders -> [by : SUBSET Devices, lines : Seq(Line), idx : Nat]]
    BY <2>1 DEF TypeOK
  <2>4. QED
    BY <2>1, <2>2, <2>3
<1>2. /\ W \in Seq([path : CartPaths \cup OrderPaths, val : Qty \cup {NoRecord}]) /\ Len(W) = 2 * n
      /\ \A i \in 1..n : /\ W[2 * i - 1] = Set(OrderPath(o, list[i].id), list[i].qty)
                         /\ W[2 * i] = Remove(CartPath(list[i].id))
      /\ \A j \in 1..(2 * n) : \E i \in 1..n : j = 2 * i - 1 \/ j = 2 * i
  BY <1>1, WritesFacts
<1> HIDE DEF W
<1>3. QP!Issue(d, W)
  BY DEF W
<1>4. /\ outstandingPuts' = [outstandingPuts EXCEPT ![d] = @ \cup QP!PutsOf(d, W)]
      /\ putCounter' = [putCounter EXCEPT ![d] = @ + 2 * n]
      /\ UNCHANGED <<store, refused, processed>>
  BY <1>1, <1>2, <1>3, IssueFacts
<1>5. /\ \A pt \in QP!PutsOf(d, W) : \E j \in 1..(2 * n) : pt = PutAt(j)
      /\ \A j \in 1..(2 * n) : PutAt(j) \in QP!PutsOf(d, W)
  <2>1. /\ \A pt \in QP!PutsOf(d, W) : \E j \in 1..Len(W) :
                pt = [idx |-> putCounter[d] + j - 1, path |-> W[j].path, val |-> W[j].val]
        /\ \A j \in 1..Len(W) :
                [idx |-> putCounter[d] + j - 1, path |-> W[j].path, val |-> W[j].val]
                    \in QP!PutsOf(d, W)
    BY <1>1, <1>2, <1>3, IssueFacts
  <2>2. QED
    BY <1>2, <2>1
<1>6. /\ placed'[o].by = {d} /\ placed'[o].lines = list /\ placed'[o].idx = putCounter[d]
      /\ \A q \in Orders \ {o} : placed'[q] = placed[q]
      /\ placed[o].by = {}
  BY <1>1 DEF Fresh, NotPlaced
<1>7. \A i \in 1..n : /\ LineIdx(o, i)' = putCounter[d] + 2 * i - 2
                     /\ RemovalIdx(o, i)' = putCounter[d] + 2 * i - 1
                     /\ LinePath(o, i)' = OrderPath(o, list[i].id)
  BY <1>6 DEF LineIdx, RemovalIdx, LinePath
<1>8. /\ \A pt \in outstandingPuts[d] : pt.idx < putCounter[d] /\ pt.idx \in Nat
      /\ \A k \in processed[d] : k < putCounter[d]
  <2>1. QP!Indexed(d)
    BY DEF IInv, QP!Inv, QP!DeviceInv
  <2>2. \A pt \in outstandingPuts[d] : pt \in QP!Put
    BY <1>1
  <2>3. QED
    BY <2>1, <2>2 DEF QP!Indexed, QP!Put
<1>9. ASSUME NEW i \in 1..n
      PROVE  LineInv(d, o, i)'
  <2>1. i \in Nat /\ i >= 1 /\ putCounter[d] \in Nat
    BY <1>1
  <2>2. \A pt \in outstandingPuts'[d] : pt.idx = LineIdx(o, i)' => pt.path = LinePath(o, i)'
    <3> SUFFICES ASSUME NEW pt \in outstandingPuts'[d], pt.idx = putCounter[d] + 2 * i - 2
                 PROVE  pt.path = OrderPath(o, list[i].id)
      BY <1>7
    <3>1. pt \in QP!PutsOf(d, W)
      BY <1>1, <1>4, <1>8, <2>1
    <3>2. PICK j \in 1..(2 * n) : pt = PutAt(j)
      BY <1>5, <3>1
    <3>3. j = 2 * i - 1
      BY <2>1, <3>2
    <3>4. pt.path = W[2 * i - 1].path
      BY <3>2, <3>3
    <3>5. W[2 * i - 1] = Set(OrderPath(o, list[i].id), list[i].qty)
      BY <1>2, Zenon
    <3>6. QED
      BY <3>4, <3>5 DEF Set
  <2>3. \E q \in outstandingPuts'[d] : q.idx = LineIdx(o, i)'
    <3>1. 2 * i - 1 \in 1..(2 * n)
      BY <1>1
    <3>2. PutAt(2 * i - 1) \in outstandingPuts'[d]
      BY <1>1, <1>4, <1>5, <3>1
    <3>3. PutAt(2 * i - 1).idx = putCounter[d] + 2 * i - 2
      BY <2>1
    <3>4. QED
      BY <1>7, <3>2, <3>3
  <2>4. LineIdx(o, i)' \notin processed'[d] /\ RemovalIdx(o, i)' \notin processed'[d]
    BY <1>4, <1>7, <1>8, <2>1
  <2>5. QED
    BY <2>2, <2>3, <2>4 DEF LineInv
<1>10. Lines'
  <2>1. SUFFICES ASSUME NEW e \in Devices, NEW q \in Orders, NEW i \in 1..Len(placed'[q].lines),
                        HasLine(e, q, i)'
                 PROVE  LineInv(e, q, i)'
    BY DEF Lines
  <2>2. CASE q = o
    BY <1>6, <1>9, <2>1, <2>2 DEF HasLine
  <2>3. CASE q # o
    <3>1. placed'[q] = placed[q] /\ HasLine(e, q, i) /\ i \in 1..Len(placed[q].lines)
      BY <1>6, <2>1, <2>3 DEF HasLine
    <3>2. QED
      BY <1>2, <1>3, <3>1, IssueKeepsLines
  <2>4. QED
    BY <2>2, <2>3
<1>11. Numbered'
  <2>1. SUFFICES ASSUME NEW e \in Devices, NEW q \in Orders, e \in placed'[q].by
                 PROVE  placed'[q].idx + 2 * Len(placed'[q].lines) <= putCounter'[e]
    BY DEF Numbered
  <2>2. CASE q = o
    BY <1>1, <1>4, <1>6, <2>1, <2>2
  <2>3. CASE q # o
    <3>1. placed'[q] = placed[q] /\ placed[q].idx + 2 * Len(placed[q].lines) <= putCounter[e]
      BY <1>6, <2>1, <2>3 DEF IInv, Numbered
    <3>2. placed[q].idx \in Nat /\ Len(placed[q].lines) \in Nat
      BY <1>1, LineTypes
    <3>3. QED
      BY <1>1, <1>4, <3>1, <3>2
  <2>4. QED
    BY <2>2, <2>3
<1>12. Justified'
  <2>1. SUFFICES ASSUME NEW e \in Devices, NEW pt \in outstandingPuts'[e], pt.val = NoRecord
                 PROVE  Reason(e, pt)'
    BY DEF Justified
  <2>2. CASE pt \in outstandingPuts[e]
    <3>1. Reason(e, pt)
      BY <2>1, <2>2 DEF IInv, Justified
    <3>2. \A q \in Orders : placed[q].by # {} => placed'[q] = placed[q]
      BY <1>6
    <3>3. QED
      BY <1>1, <3>1, <3>2, ReasonsKept
  <2>3. CASE pt \notin outstandingPuts[e]
    <3>1. e = d /\ pt \in QP!PutsOf(d, W)
      BY <1>1, <1>4, <2>1, <2>3
    <3>2. PICK j \in 1..(2 * n) : pt = PutAt(j)
      BY <1>5, <3>1
    <3>3. PICK i \in 1..n : j = 2 * i - 1 \/ j = 2 * i
      BY <1>2
    <3>4. list[i].id \in Products /\ list[i].qty \in Qty
      <4>1. list[i] \in Line
        BY <1>1
      <4>2. QED
        BY <4>1 DEF Line
    <3>5. j = 2 * i
      <4>1. ASSUME j = 2 * i - 1
            PROVE  pt.val \in Qty
        <5>1. pt.val = W[2 * i - 1].val
          BY <3>2, <4>1
        <5>2. W[2 * i - 1] = Set(OrderPath(o, list[i].id), list[i].qty)
          BY <1>2, Zenon
        <5>3. QED
          BY <3>4, <5>1, <5>2 DEF Set
      <4>2. QED
        BY <2>1, <3>3, <4>1, QueueAssumptions
    <3>6. pt.path = CartPath(list[i].id) /\ pt.idx = putCounter[d] + 2 * i - 1
      <4>1. pt.path = W[2 * i].path /\ pt.idx = putCounter[d] + 2 * i - 1
        BY <3>2, <3>5
      <4>2. W[2 * i] = Remove(CartPath(list[i].id))
        BY <1>2, Zenon
      <4>3. QED
        BY <4>1, <4>2 DEF Remove
    <3>7. HasLine(d, o, i)' /\ placed'[o].lines[i].id = list[i].id /\ pt.idx = RemovalIdx(o, i)'
          /\ i \in 1..Len(placed'[o].lines)
      BY <1>6, <1>7, <3>6 DEF HasLine
    <3>8. QED
      BY <3>1, <3>4, <3>6, <3>7 DEF Reason
  <2>4. QED
    BY <2>2, <2>3
<1>13. QED
  BY <1>10, <1>11, <1>12

-----------------------------------------------------------------------------
(* The pipeline and the server. *)

\* Steps that neither issue, process nor settle a put.
LEMMA IdleStep ==
    ASSUME IInv, UNCHANGED <<store, refused, outstandingPuts, processed, putCounter, placed, deleted>>
    PROVE  Lines' /\ Numbered' /\ Justified'
<1>1. \A d \in Devices, o \in Orders : \A i \in 1..Len(placed[o].lines) :
        HasLine(d, o, i) => LineInv(d, o, i)'
  BY DEF IInv, Lines, LineInv, LineIdx, RemovalIdx, LinePath
<1>2. Lines'
  BY <1>1 DEF Lines, HasLine
<1>3. Numbered'
  BY DEF IInv, Numbered
<1>4. Justified'
  <2>1. SUFFICES ASSUME NEW d \in Devices, NEW pt \in outstandingPuts[d], pt.val = NoRecord
                 PROVE  Reason(d, pt)'
    BY DEF Justified
  <2>2. Reason(d, pt) /\ TypeOK
    BY <2>1 DEF IInv, Justified
  <2>3. QED
    BY <2>2, ReasonsKept
<1>5. QED
  BY <1>2, <1>3, <1>4

\* Puts that leave the dictionary have been processed, or all leave it.
LEMMA SettleStep ==
    ASSUME IInv, NEW d \in Devices, NEW left,
           outstandingPuts' = [outstandingPuts EXCEPT ![d] = left], left \subseteq outstandingPuts[d],
           left = {} \/ \A pt \in outstandingPuts[d] \ left : pt.idx \in processed[d],
           UNCHANGED <<store, refused, processed, putCounter, placed, deleted>>
    PROVE  Lines' /\ Numbered' /\ Justified'
<1>1. \A e \in Devices : outstandingPuts'[e] \subseteq outstandingPuts[e]
  BY DEF IInv, QP!TypeOK
<1>2. ASSUME NEW e \in Devices, NEW o \in Orders, NEW i \in 1..Len(placed[o].lines), HasLine(e, o, i)
      PROVE  LineInv(e, o, i)'
  <2>1. LineInv(e, o, i)
    BY <1>2 DEF IInv, Lines
  <2>2. /\ LineIdx(o, i)' = LineIdx(o, i) /\ RemovalIdx(o, i)' = RemovalIdx(o, i)
        /\ LinePath(o, i)' = LinePath(o, i)
    BY DEF LineIdx, RemovalIdx, LinePath
  <2>3. ASSUME NEW pt \in outstandingPuts'[e], pt.idx = RemovalIdx(o, i), LineIdx(o, i) \notin processed[e]
        PROVE  \E q \in outstandingPuts'[e] : q.idx = LineIdx(o, i)
    <3>1. PICK q \in outstandingPuts[e] : q.idx = LineIdx(o, i)
      BY <1>1, <2>1, <2>3 DEF LineInv
    <3>2. q \in outstandingPuts'[e]
      BY <2>3, <3>1 DEF IInv, QP!TypeOK
    <3>3. QED
      BY <3>1, <3>2
  <2>4. QED
    BY <1>1, <2>1, <2>2, <2>3 DEF LineInv
<1>3. Lines'
  BY <1>2 DEF Lines, HasLine
<1>4. Numbered'
  BY DEF IInv, Numbered
<1>5. Justified'
  <2>1. SUFFICES ASSUME NEW e \in Devices, NEW pt \in outstandingPuts'[e], pt.val = NoRecord
                 PROVE  Reason(e, pt)'
    BY DEF Justified
  <2>2. Reason(e, pt) /\ TypeOK
    BY <1>1, <2>1 DEF IInv, Justified
  <2>3. QED
    BY <2>2, ReasonsKept
<1>6. QED
  BY <1>3, <1>4, <1>5

\* What the server does with a request.
LEMMA ProcessFacts ==
    ASSUME IInv, NEW d \in Devices, QP!Process(d)
    PROVE  \E m \in wire[d] :
            /\ m.put \in outstandingPuts[d] /\ m.put.path \in CartPaths \cup OrderPaths
            /\ \A q \in outstandingPuts[d] : q.idx < m.put.idx => q.idx \in processed[d]
            /\ store' = IF QP!Granted(m) THEN [store EXCEPT ![m.put.path] = m.put.val] ELSE store
            /\ refused' = IF QP!Granted(m) THEN refused ELSE refused \cup {m.put.path}
            /\ processed' = [processed EXCEPT ![d] = @ \cup {m.put.idx}]
            /\ UNCHANGED <<outstandingPuts, putCounter>>
<1>1. PICK m \in wire[d] : QP!Process(d)!(m)
  BY DEF QP!Process
<1>2. /\ QP!Sent(d) /\ outstandingPuts \in [Devices -> SUBSET QP!Put]
      /\ connected \in [Devices -> BOOLEAN]
  BY DEF IInv, QP!Inv, QP!DeviceInv, QP!TypeOK
<1>3. m.put \in outstandingPuts[d] /\ m.put \in QP!Put
  BY <1>2 DEF QP!Sent
<1>4. connected[d]
  BY <1>2 DEF QP!Sent
<1>5. ASSUME NEW q \in outstandingPuts[d], q.idx < m.put.idx
      PROVE  q.idx \in processed[d]
  <2>1. q.idx \in Nat /\ m.put.idx \in Nat
    BY <1>2, <1>3 DEF QP!Put
  <2>2. ~ \E w \in wire[d] : w.put = q
    BY <1>1, <1>5, <2>1
  <2>3. PICK r \in responses[d] : r.put = q
    BY <1>2, <1>4, <2>2 DEF QP!Sent
  <2>4. QED
    BY <1>2, <2>3 DEF QP!Sent
<1>6. m.put.path \in CartPaths \cup OrderPaths
  BY <1>3 DEF QP!Put
<1>7. UNCHANGED <<outstandingPuts, putCounter>>
  BY <1>1 DEF QP!deviceVars
<1>8. QED
  BY <1>1, <1>3, <1>5, <1>6, <1>7

LEMMA ProcessStep ==
    ASSUME IInv, NEW d \in Devices, QP!Process(d), UNCHANGED <<placed, deleted>>
    PROVE  Lines' /\ Numbered' /\ Justified'
<1>1. PICK m \in wire[d] :
        /\ m.put \in outstandingPuts[d] /\ m.put.path \in CartPaths \cup OrderPaths
        /\ \A q \in outstandingPuts[d] : q.idx < m.put.idx => q.idx \in processed[d]
        /\ store' = IF QP!Granted(m) THEN [store EXCEPT ![m.put.path] = m.put.val] ELSE store
        /\ refused' = IF QP!Granted(m) THEN refused ELSE refused \cup {m.put.path}
        /\ processed' = [processed EXCEPT ![d] = @ \cup {m.put.idx}]
        /\ UNCHANGED <<outstandingPuts, putCounter>>
  BY ProcessFacts
<1>2. /\ store \in [CartPaths \cup OrderPaths -> Qty \cup {NoRecord}] /\ processed \in [Devices -> SUBSET Nat]
      /\ TypeOK
  BY DEF IInv, QP!TypeOK
<1>3. m.put.val = NoRecord => \E p \in Products : m.put.path = CartPath(p)
  BY <1>1 DEF IInv, Justified, Reason
<1>4. ASSUME NEW o, NEW p, store[OrderPath(o, p)] # NoRecord \/ OrderPath(o, p) \in refused
      PROVE  store'[OrderPath(o, p)] # NoRecord \/ OrderPath(o, p) \in refused'
  <2>1. CASE m.put.path = OrderPath(o, p)
    <3>1. m.put.val # NoRecord
      BY <1>3, <2>1, PathFacts
    <3>2. QED
      BY <1>1, <1>2, <2>1, <3>1
  <2>2. CASE m.put.path # OrderPath(o, p)
    BY <1>1, <1>2, <1>4, <2>2
  <2>3. QED
    BY <2>1, <2>2
<1>5. ASSUME NEW e \in Devices, NEW o \in Orders, NEW i \in 1..Len(placed[o].lines), HasLine(e, o, i)
      PROVE  LineInv(e, o, i)'
  <2>1. LineInv(e, o, i)
    BY <1>5 DEF IInv, Lines
  <2>2. /\ LineIdx(o, i)' = LineIdx(o, i) /\ RemovalIdx(o, i)' = RemovalIdx(o, i)
        /\ LinePath(o, i)' = LinePath(o, i)
        /\ LineIdx(o, i) \in Int /\ RemovalIdx(o, i) = LineIdx(o, i) + 1
    <3>1. placed[o].idx \in Nat /\ i \in Nat
      BY <1>2, LineTypes
    <3>2. QED
      BY <3>1 DEF LineIdx, RemovalIdx, LinePath
  <2>3. processed[e] \subseteq processed'[e]
    BY <1>1, <1>2
  <2>4. RemovalIdx(o, i) \in processed'[e] => LineIdx(o, i) \in processed'[e]
    <3>1. CASE RemovalIdx(o, i) \in processed[e]
      BY <2>1, <2>3, <3>1 DEF LineInv
    <3>2. CASE RemovalIdx(o, i) \notin processed[e] /\ RemovalIdx(o, i) \in processed'[e]
      <4>1. e = d /\ m.put.idx = RemovalIdx(o, i)
        BY <1>1, <1>2, <3>2
      <4>2. \/ LineIdx(o, i) \in processed[d]
            \/ \E q \in outstandingPuts[d] : q.idx = LineIdx(o, i)
        BY <1>1, <2>1, <4>1 DEF LineInv
      <4>3. \A q \in outstandingPuts[d] : q.idx = LineIdx(o, i) => q.idx \in processed[d]
        BY <1>1, <2>2, <4>1
      <4>4. QED
        BY <2>3, <4>1, <4>2, <4>3
    <3>3. QED
      BY <3>1, <3>2
  <2>5. LineIdx(o, i) \in processed'[e] =>
            store'[LinePath(o, i)] # NoRecord \/ LinePath(o, i) \in refused'
    <3>1. CASE LineIdx(o, i) \in processed[e]
      BY <1>4, <2>1, <3>1 DEF LineInv, LinePath
    <3>2. CASE LineIdx(o, i) \notin processed[e] /\ LineIdx(o, i) \in processed'[e]
      <4>1. e = d /\ m.put.idx = LineIdx(o, i)
        BY <1>1, <1>2, <3>2
      <4>2. m.put.path = LinePath(o, i)
        BY <1>1, <2>1, <4>1 DEF LineInv
      <4>3. m.put.val # NoRecord
        BY <1>3, <4>2, PathFacts DEF LinePath
      <4>4. QED
        BY <1>1, <1>2, <4>2, <4>3
    <3>3. QED
      BY <3>1, <3>2
  <2>6. QED
    BY <1>1, <2>1, <2>2, <2>3, <2>4, <2>5 DEF LineInv
<1>6. Lines'
  BY <1>5 DEF Lines, HasLine
<1>7. Numbered'
  BY <1>1 DEF IInv, Numbered
<1>8. Justified'
  <2>1. SUFFICES ASSUME NEW e \in Devices, NEW pt \in outstandingPuts[e], pt.val = NoRecord
                 PROVE  Reason(e, pt)'
    BY <1>1 DEF Justified
  <2>2. Reason(e, pt)
    BY <2>1 DEF IInv, Justified
  <2>3. QED
    BY <1>2, <2>2, ReasonsKept
<1>9. QED
  BY <1>6, <1>7, <1>8

-----------------------------------------------------------------------------
(* The screens. *)

\* The types of what Checkout adds to the pipeline.
Screens ==
    /\ screen \in [Devices -> {"shop", "payment", "alert", "home"}]
    /\ products \in [Devices -> Seq(Line)]
    /\ seen \in [Devices -> SUBSET Line]
    /\ deleted \subseteq Products
    /\ placed \in [Orders -> [by : SUBSET Devices, lines : Seq(Line), idx : Nat]]

LEMMA SameTypes == QP!TypeOK' /\ Screens' => TypeOK'
BY DEF Screens, TypeOK, Q!TypeOK, QP!TypeOK, Q!Put, QP!Put, Q!Request, QP!Request,
       Q!Response, QP!Response

\* What a step has to keep.
Kept == [QP!Next]_QP!queueVars /\ Screens' /\ Lines' /\ Numbered' /\ Justified'

LEMMA IssueIsNext ==
    ASSUME NEW d \in Devices,
           NEW batch \in Seq([path : CartPaths \cup OrderPaths, val : Qty \cup {NoRecord}]),
           QP!Issue(d, batch)
    PROVE  QP!Next
BY DEF QP!Next

LEMMA CartButtonStep ==
    ASSUME IInv, NEW d \in Devices, NEW l \in Line, CartButton(d, l)
    PROVE  Kept
<1> DEFINE w == Set(CartPath(l.id), l.qty)
<1>1. /\ QP!Issue(d, <<w>>) /\ seen' = [seen EXCEPT ![d] = @ \cup {l}]
      /\ UNCHANGED <<screen, products, deleted, placed>>
  BY SameIssue DEF CartButton
<1>2. /\ w \in [path : CartPaths \cup OrderPaths, val : Qty \cup {NoRecord}]
      /\ w.val # NoRecord
  BY QueueAssumptions DEF Line, Set, CartPaths
<1>3. Lines' /\ Numbered' /\ Justified'
  BY <1>1, <1>2, SingleStep
<1>4. <<w>> \in Seq([path : CartPaths \cup OrderPaths, val : Qty \cup {NoRecord}])
  BY <1>2
<1>5. QP!Next
  BY <1>1, <1>4, IssueIsNext
<1>6. Screens'
  BY <1>1 DEF IInv, TypeOK, Screens
<1>7. QED
  BY <1>3, <1>5, <1>6 DEF Kept

LEMMA RemoveItemStep ==
    ASSUME IInv, NEW d \in Devices, NEW l \in Line, removeItem(d, l)
    PROVE  Kept
<1> DEFINE w == Remove(CartPath(l.id))
<1>1. /\ QP!Issue(d, <<w>>) /\ deleted' = deleted \cup {l.id}
      /\ UNCHANGED <<screen, products, seen, placed>>
  BY SameIssue DEF removeItem, screenVars
<1>2. /\ w \in [path : CartPaths \cup OrderPaths, val : Qty \cup {NoRecord}]
      /\ w.path = CartPath(l.id) /\ l.id \in Products
  BY DEF Line, Remove, CartPaths
<1>3. Lines' /\ Numbered' /\ Justified'
  BY <1>1, <1>2, SingleStep
<1>4. <<w>> \in Seq([path : CartPaths \cup OrderPaths, val : Qty \cup {NoRecord}])
  BY <1>2
<1>5. QP!Next
  BY <1>1, <1>4, IssueIsNext
<1>6. Screens'
  BY <1>1, <1>2 DEF IInv, TypeOK, Screens
<1>7. QED
  BY <1>3, <1>5, <1>6 DEF Kept

\* Steps on the screens that write nothing.
LEMMA ScreenStep ==
    ASSUME IInv, UNCHANGED <<queueVars, placed, deleted>>, Screens'
    PROVE  Kept
<1>1. UNCHANGED QP!queueVars
  BY DEF queueVars, QP!queueVars, QP!deviceVars, QP!history
<1>2. Lines' /\ Numbered' /\ Justified'
  BY IdleStep DEF queueVars
<1>3. QED
  BY <1>1, <1>2 DEF Kept

LEMMA ButtonStep ==
    ASSUME IInv, NEW d \in Devices, Button(d)
    PROVE  Kept
<1>1. /\ screen' = [screen EXCEPT ![d] = "alert"] /\ UNCHANGED <<products, seen, deleted>>
      /\ Screens
  BY DEF Button, IInv, TypeOK, Screens
<1>2. CASE signedIn[d] /\ products[d] # <<>>
  <2>1. PICK o \in Orders :
            /\ Fresh(o) /\ Q!Issue(d, CheckoutWrites(o, products[d]))
            /\ placed' = [placed EXCEPT ![o] = [by |-> {d}, lines |-> products[d], idx |-> putCounter[d]]]
    BY <1>2 DEF Button
  <2>2. QP!Issue(d, CheckoutWrites(o, products[d])) /\ products[d] \in Seq(Line) /\ putCounter[d] \in Nat
    BY <2>1, SameIssue DEF IInv, TypeOK, QP!TypeOK
  <2>3. CheckoutWrites(o, products[d]) \in
            Seq([path : CartPaths \cup OrderPaths, val : Qty \cup {NoRecord}])
    BY <2>2, WritesFacts
  <2>4. QP!Next
    BY <2>2, <2>3, IssueIsNext
  <2>5. Lines' /\ Numbered' /\ Justified'
    BY <1>1, <2>1, <2>2, OrderStep
  <2>6. Screens'
    BY <1>1, <2>1, <2>2 DEF Screens
  <2>7. QED
    BY <2>4, <2>5, <2>6 DEF Kept
<1>3. CASE ~(signedIn[d] /\ products[d] # <<>>)
  <2>1. UNCHANGED <<queueVars, placed, deleted>>
    BY <1>3 DEF Button
  <2>2. Screens'
    BY <1>1, <2>1 DEF Screens
  <2>3. QED
    BY <2>1, <2>2, ScreenStep
<1>4. QED
  BY <1>2, <1>3

LEMMA MoveStep ==
    ASSUME IInv, NEW d \in Devices, CartEvent(d) \/ BuyButton(d) \/ GoBack(d) \/ goToHome(d)
    PROVE  Kept
<1>1. Screens /\ store \in [CartPaths \cup OrderPaths -> Qty \cup {NoRecord}]
  BY DEF IInv, TypeOK, Screens, QP!TypeOK
<1>2. CASE CartEvent(d)
  <2>1. PICK p \in Products :
            /\ store[CartPath(p)] # NoRecord
            /\ seen' = [seen EXCEPT ![d] = @ \cup {[id |-> p, qty |-> store[CartPath(p)]]}]
    BY <1>2 DEF CartEvent
  <2>2. [id |-> p, qty |-> store[CartPath(p)]] \in Line
    BY <1>1, <2>1 DEF Line, CartPaths
  <2>3. UNCHANGED <<queueVars, screen, products, deleted, placed>>
    BY <1>2 DEF CartEvent
  <2>4. Screens'
    BY <1>1, <2>1, <2>2, <2>3 DEF Screens
  <2>5. QED
    BY <2>3, <2>4, ScreenStep
<1>3. CASE BuyButton(d)
  <2>1. PICK list \in Lists(d) : products' = [products EXCEPT ![d] = list]
    BY <1>3 DEF BuyButton
  <2>2. PICK n \in 0..MaxLines : list \in [1..n -> seen[d]]
    BY <2>1 DEF Lists
  <2>3. list \in Seq(Line)
    <3>1. n \in Nat /\ seen[d] \subseteq Line
      BY <1>1, CheckoutAssumption DEF Screens
    <3>2. QED
      BY <2>2, <3>1
  <2>4. /\ screen' = [screen EXCEPT ![d] = "payment"]
        /\ UNCHANGED <<queueVars, seen, deleted, placed>>
    BY <1>3 DEF BuyButton
  <2>5. Screens'
    BY <1>1, <2>1, <2>3, <2>4 DEF Screens
  <2>6. QED
    BY <2>4, <2>5, ScreenStep
<1>4. CASE GoBack(d) \/ goToHome(d)
  <2>1. Screens' /\ UNCHANGED <<queueVars, deleted, placed>>
    BY <1>1, <1>4 DEF GoBack, goToHome, Screens
  <2>2. QED
    BY <2>1, ScreenStep
<1>5. QED
  BY <1>2, <1>3, <1>4

LEMMA KillStep ==
    ASSUME IInv, NEW d \in Devices, Kill(d)
    PROVE  Kept
<1>1. QP!Kill(d) /\ UNCHANGED <<deleted, placed>>
  BY SameKill DEF Kill
<1>2. /\ outstandingPuts' = [outstandingPuts EXCEPT ![d] = {}]
      /\ UNCHANGED <<store, refused, processed, putCounter, placed, deleted>>
  BY <1>1 DEF QP!Kill
<1>3. Lines' /\ Numbered' /\ Justified'
  <2> DEFINE left == {}
  <2>1. /\ outstandingPuts' = [outstandingPuts EXCEPT ![d] = left]
        /\ left \subseteq outstandingPuts[d] /\ left = {}
    BY <1>2
  <2> HIDE DEF left
  <2>2. QED
    BY <1>2, <2>1, SettleStep
<1>4. Screens'
  <2>1. <<>> \in Seq(Line)
    OBVIOUS
  <2>2. QED
    BY <2>1 DEF Kill, IInv, TypeOK, Screens
<1>5. QP!Next
  BY <1>1 DEF QP!Next
<1>6. QED
  BY <1>3, <1>4, <1>5 DEF Kept

LEMMA SessionStep ==
    ASSUME IInv, NEW d \in Devices, Session(d)
    PROVE  Kept
<1>1. (QP!SignIn(d) \/ QP!SignOut(d)) /\ UNCHANGED <<screenVars, deleted, placed>>
  BY SameSession DEF Session
<1>2. UNCHANGED <<store, refused, outstandingPuts, processed, putCounter>>
  BY <1>1 DEF QP!SignIn, QP!SignOut, QP!history
<1>3. Lines' /\ Numbered' /\ Justified'
  BY <1>1, <1>2, IdleStep
<1>4. Screens'
  BY <1>1 DEF screenVars, IInv, TypeOK, Screens
<1>5. QP!Next
  BY <1>1 DEF QP!Next
<1>6. QED
  BY <1>3, <1>4, <1>5 DEF Kept

LEMMA BackgroundStep ==
    ASSUME IInv, Background
    PROVE  Kept
<1>1. QP!Background /\ UNCHANGED <<screenVars, deleted, placed>>
  BY SameBackground DEF Background
<1>2. PICK d \in Devices : QP!Connect(d) \/ QP!Disconnect(d) \/ QP!Answer(d) \/ QP!Process(d)
  BY <1>1 DEF QP!Background
<1>3. QP!Connect(d) \/ QP!Disconnect(d) => Lines' /\ Numbered' /\ Justified'
  <2> SUFFICES ASSUME QP!Connect(d) \/ QP!Disconnect(d)
               PROVE  Lines' /\ Numbered' /\ Justified'
    OBVIOUS
  <2>1. UNCHANGED <<store, refused, outstandingPuts, processed, putCounter, placed, deleted>>
    BY <1>1 DEF QP!Connect, QP!Disconnect, QP!history
  <2>2. QED
    BY <2>1, IdleStep
<1>4. QP!Answer(d) => Lines' /\ Numbered' /\ Justified'
  <2> SUFFICES ASSUME QP!Answer(d) PROVE Lines' /\ Numbered' /\ Justified'
    OBVIOUS
  <2>1. PICK r \in responses[d] : QP!Answer(d)!(r)
    BY DEF QP!Answer
  <2>2. r.put.idx \in processed[d]
    BY DEF IInv, QP!Inv, QP!DeviceInv, QP!Sent
  <2> DEFINE left == outstandingPuts[d] \ {r.put}
  <2>3. /\ outstandingPuts' = [outstandingPuts EXCEPT ![d] = left]
        /\ UNCHANGED <<store, refused, processed, putCounter, placed, deleted>>
    BY <1>1, <2>1 DEF QP!SettledBy, QP!history
  <2>4. left \subseteq outstandingPuts[d]
        /\ \A pt \in outstandingPuts[d] \ left : pt.idx \in processed[d]
    BY <2>2
  <2> HIDE DEF left
  <2>5. QED
    BY <2>3, <2>4, SettleStep
<1>5. QP!Process(d) => Lines' /\ Numbered' /\ Justified'
  <2>1. UNCHANGED <<placed, deleted>>
    BY <1>1
  <2>2. QED
    BY <2>1, ProcessStep
<1>6. Lines' /\ Numbered' /\ Justified'
  BY <1>2, <1>3, <1>4, <1>5
<1>7. Screens'
  BY <1>1 DEF screenVars, IInv, TypeOK, Screens
<1>8. QP!Next
  BY <1>1 DEF QP!Next
<1>9. QED
  BY <1>6, <1>7, <1>8 DEF Kept

LEMMA CheckoutStep == IInv /\ [Next]_vars => IInv'
<1> SUFFICES ASSUME IInv, [Next]_vars PROVE IInv'
  OBVIOUS
<1>1. Kept
  <2>1. CASE Background
    BY <2>1, BackgroundStep
  <2>2. CASE \E d \in Devices, l \in Line : CartButton(d, l) \/ removeItem(d, l)
    BY <2>2, CartButtonStep, RemoveItemStep
  <2>3. CASE \E d \in Devices : CartEvent(d) \/ BuyButton(d) \/ GoBack(d) \/ goToHome(d)
    BY <2>3, MoveStep
  <2>4. CASE \E d \in Devices : Button(d)
    BY <2>4, ButtonStep
  <2>5. CASE \E d \in Devices : Kill(d)
    BY <2>5, KillStep
  <2>6. CASE \E d \in Devices : Session(d)
    BY <2>6, SessionStep
  <2>7. CASE UNCHANGED vars
    <3>1. UNCHANGED <<queueVars, placed, deleted>> /\ Screens'
      BY <2>7 DEF vars, screenVars, IInv, TypeOK, Screens
    <3>2. QED
      BY <3>1, ScreenStep
  <2>8. QED
    BY <2>1, <2>2, <2>3, <2>4, <2>5, <2>6, <2>7 DEF Next
<1>2. QP!TypeOK' /\ QP!Inv'
  BY <1>1, QueueStep DEF Kept, IInv
<1>3. QED
  BY <1>1, <1>2, SameTypes DEF Kept, IInv

-----------------------------------------------------------------------------
(* The theorems. *)

\* The invariant holds throughout, together with the one of the pipeline.
THEOREM CheckoutInvariant == Spec => []IInv
BY CheckoutInit, CheckoutStep, PTL DEF Spec

\* Type correctness of the screens and of the pipeline under them.
THEOREM CheckoutTypes == Spec => []TypeOK
<1>1. IInv => TypeOK
  BY DEF IInv
<1>2. QED
  BY <1>1, CheckoutInvariant, PTL

\* The removal of a product from the cart never takes effect before the order
\* line of the same tap (PaymentViewController.swift:65-66): for any number of
\* devices, cuts, deaths, sign-outs and resends the line is stored by then,
\* unless the server refused it.
THEOREM OrderComesFirst == Spec => []OrderFirst
<1>1. ASSUME IInv
      PROVE  OrderFirst
  <2>1. SUFFICES ASSUME NEW o \in Orders, NEW d \in placed[o].by, NEW i \in DOMAIN placed[o].lines,
                        placed[o].idx + 2 * i - 1 \in processed[d]
                 PROVE  \/ store[OrderPath(o, placed[o].lines[i].id)] # NoRecord
                        \/ OrderPath(o, placed[o].lines[i].id) \in refused
    BY DEF OrderFirst
  <2>2. d \in Devices /\ i \in 1..Len(placed[o].lines)
    BY <1>1 DEF IInv, TypeOK
  <2>3. LineInv(d, o, i)
    BY <1>1, <2>2 DEF IInv, Lines, HasLine
  <2>4. QED
    BY <2>1, <2>3 DEF LineInv, LinePath, LineIdx, RemovalIdx
<1>2. QED
  BY <1>1, CheckoutInvariant, PTL

-----------------------------------------------------------------------------
(* What the steps are for the owner of the cart and the orders.  *)

LEMMA LedgerInit == Init => L!Init
<1> SUFFICES ASSUME Init PROVE L!Init
  OBVIOUS
<1>1. PICK cart \in InitialCarts : \A p \in Products : store[CartPath(p)] = cart[p]
  BY DEF Init
<1>2. cart \in [Products -> 0..MaxQty]
  BY CheckoutAssumption
<1>3. \A o \in Orders, p \in Products : OrderPath(o, p) \notin refused
  BY DEF Init, Q!Init
<1>4. [p \in Products |-> store[CartPath(p)]] \in [Products -> 0..MaxQty]
  BY <1>1, <1>2
<1>5. deleted \cup {p \in Products : \E o \in Orders : OrderPath(o, p) \in refused} = {}
  BY <1>3 DEF Init
<1>6. \A o \in Orders, p \in Products : store[OrderPath(o, p)] = 0
  BY DEF Init, NoRecord
<1>7. QED
  BY <1>4, <1>5, <1>6 DEF L!Init

\* Steps that touch neither the server nor what the owner deleted.
LEMMA QuietStep ==
    ASSUME UNCHANGED <<store, refused, deleted>>
    PROVE  UNCHANGED L!ledgerVars
BY DEF L!ledgerVars

\* The owner deletes a product: from then on it may leave the cart.
LEMMA DeleteStep ==
    ASSUME NEW p \in Products, deleted' = deleted \cup {p}, UNCHANGED <<store, refused>>
    PROVE  L!Next
<1>1. L!Excuse(p)
  BY DEF L!Excuse
<1>2. QED
  BY <1>1 DEF L!Next

\* A removal is taken from the connection only when its product has a line in
\* an order, or may go.
LEMMA RemovalMayGo ==
    ASSUME IInv, NEW d \in Devices, NEW pt \in outstandingPuts[d], pt.val = NoRecord,
           \A q \in outstandingPuts[d] : q.idx < pt.idx => q.idx \in processed[d]
    PROVE  \E p \in Products :
            /\ pt.path = CartPath(p)
            /\ \/ p \in deleted
               \/ \E o \in Orders : store[OrderPath(o, p)] # NoRecord \/ OrderPath(o, p) \in refused
<1>1. Reason(d, pt)
  BY DEF IInv, Justified
<1>2. PICK p \in Products :
        /\ pt.path = CartPath(p)
        /\ \/ p \in deleted
           \/ \E o \in Orders : \E i \in 1..Len(placed[o].lines) :
                HasLine(d, o, i) /\ placed[o].lines[i].id = p /\ pt.idx = RemovalIdx(o, i)
  BY <1>1 DEF Reason
<1>3. CASE p \in deleted
  BY <1>2, <1>3
<1>4. CASE p \notin deleted
  <2>1. PICK o \in Orders : \E i \in 1..Len(placed[o].lines) :
            HasLine(d, o, i) /\ placed[o].lines[i].id = p /\ pt.idx = RemovalIdx(o, i)
    BY <1>2, <1>4
  <2>2. PICK i \in 1..Len(placed[o].lines) :
            HasLine(d, o, i) /\ placed[o].lines[i].id = p /\ pt.idx = RemovalIdx(o, i)
    BY <2>1
  <2>3. LineInv(d, o, i)
    BY <2>2 DEF IInv, Lines
  <2>4. LineIdx(o, i) < pt.idx
    <3>1. placed[o].idx \in Nat /\ i \in Nat
      BY LineTypes DEF IInv
    <3>2. QED
      BY <2>2, <3>1 DEF LineIdx, RemovalIdx
  <2>5. LineIdx(o, i) \in processed[d]
    BY <2>2, <2>3, <2>4 DEF LineInv
  <2>6. store[OrderPath(o, p)] # NoRecord \/ OrderPath(o, p) \in refused
    BY <2>2, <2>3, <2>5 DEF LineInv, LinePath
  <2>7. QED
    BY <1>2, <2>6
<1>5. QED
  BY <1>3, <1>4

\* A request taken by the server is a step of the ledger, or none.
LEMMA ProcessLedger ==
    ASSUME IInv, NEW d \in Devices, QP!Process(d), UNCHANGED deleted
    PROVE  [L!Next]_L!ledgerVars
<1>1. PICK m \in wire[d] :
        /\ m.put \in outstandingPuts[d] /\ m.put.path \in CartPaths \cup OrderPaths
        /\ \A q \in outstandingPuts[d] : q.idx < m.put.idx => q.idx \in processed[d]
        /\ store' = IF QP!Granted(m) THEN [store EXCEPT ![m.put.path] = m.put.val] ELSE store
        /\ refused' = IF QP!Granted(m) THEN refused ELSE refused \cup {m.put.path}
        /\ processed' = [processed EXCEPT ![d] = @ \cup {m.put.idx}]
        /\ UNCHANGED <<outstandingPuts, putCounter>>
  BY ProcessFacts
<1>2. /\ store \in [CartPaths \cup OrderPaths -> Qty \cup {NoRecord}]
      /\ m.put.val \in Qty \cup {NoRecord}
  BY <1>1 DEF IInv, QP!TypeOK, QP!Put
<1>3. CASE \E p \in Products : m.put.path = CartPath(p)
  <2>1. PICK p \in Products : m.put.path = CartPath(p)
    BY <1>3
  <2>2. CASE QP!Granted(m)
    <3>1. store' = [store EXCEPT ![CartPath(p)] = m.put.val] /\ refused' = refused
      BY <1>1, <2>1, <2>2
    <3>2. \A q \in Products : store'[CartPath(q)] = IF q = p THEN m.put.val ELSE store[CartPath(q)]
      <4>1. \A q \in Products : CartPath(q) \in CartPaths \cup OrderPaths
        BY DEF CartPaths
      <4>2. QED
        BY <1>2, <3>1, <4>1, PathFacts
    <3>3. \A o \in Orders, q \in Products : store'[OrderPath(o, q)] = store[OrderPath(o, q)]
      BY <1>2, <3>1, PathFacts
    <3>4. /\ [q \in Products |-> store'[CartPath(q)]]
               = [[q \in Products |-> store[CartPath(q)]] EXCEPT ![p] = m.put.val]
          /\ [o \in Orders |-> [q \in Products |-> store'[OrderPath(o, q)]]]
               = [o \in Orders |-> [q \in Products |-> store[OrderPath(o, q)]]]
      BY <3>2, <3>3
    <3>5. CASE m.put.val \in Qty
      <4>1. L!Choose(p, m.put.val)
        BY <3>1, <3>4 DEF L!Choose
      <4>2. QED
        BY <3>5, <4>1 DEF L!Next, L!Qty, Qty
    <3>6. CASE m.put.val = NoRecord
      <4>1. PICK q \in Products :
              /\ m.put.path = CartPath(q)
              /\ \/ q \in deleted
                 \/ \E o \in Orders : store[OrderPath(o, q)] # NoRecord \/ OrderPath(o, q) \in refused
        BY <1>1, <3>6, RemovalMayGo
      <4>2. q = p
        BY <2>1, <4>1, PathFacts
      <4>3. \/ p \in deleted \cup {r \in Products : \E o \in Orders : OrderPath(o, r) \in refused}
            \/ \E o \in Orders : [n \in Orders |-> [r \in Products |-> store[OrderPath(n, r)]]][o][p] # 0
        BY <4>1, <4>2 DEF NoRecord
      <4>4. L!Remove(p)
        BY <3>1, <3>4, <3>6, <4>3 DEF L!Remove, NoRecord
      <4>5. QED
        BY <4>4 DEF L!Next
    <3>7. QED
      BY <1>2, <3>5, <3>6
  <2>3. CASE ~QP!Granted(m)
    <3>1. store' = store /\ refused' = refused \cup {CartPath(p)}
      BY <1>1, <2>1, <2>3
    <3>2. \A o \in Orders, q \in Products : OrderPath(o, q) \in refused' <=> OrderPath(o, q) \in refused
      BY <3>1, PathFacts
    <3>3. QED
      BY <3>1, <3>2 DEF L!ledgerVars
  <2>4. QED
    BY <2>2, <2>3
<1>4. CASE \E o \in Orders, p \in Products : m.put.path = OrderPath(o, p)
  <2>1. PICK o \in Orders, p \in Products : m.put.path = OrderPath(o, p)
    BY <1>4
  <2>2. CASE QP!Granted(m)
    <3>1. store' = [store EXCEPT ![OrderPath(o, p)] = m.put.val] /\ refused' = refused
      BY <1>1, <2>1, <2>2
    <3>2. \A n \in Orders, q \in Products :
            store'[OrderPath(n, q)] = IF n = o /\ q = p THEN m.put.val ELSE store[OrderPath(n, q)]
      <4>1. \A n \in Orders, q \in Products : OrderPath(n, q) \in CartPaths \cup OrderPaths
        BY DEF OrderPaths
      <4>2. QED
        BY <1>2, <3>1, <4>1, PathFacts
    <3>3. \A q \in Products : store'[CartPath(q)] = store[CartPath(q)]
      BY <1>2, <3>1, PathFacts
    <3>4. /\ [q \in Products |-> store'[CartPath(q)]] = [q \in Products |-> store[CartPath(q)]]
          /\ [n \in Orders |-> [q \in Products |-> store'[OrderPath(n, q)]]]
               = [[n \in Orders |-> [q \in Products |-> store[OrderPath(n, q)]]]
                    EXCEPT ![o][p] = m.put.val]
      <4> DEFINE F == [n \in Orders |-> [q \in Products |-> store[OrderPath(n, q)]]]
                 G == [n \in Orders |-> [q \in Products |-> store'[OrderPath(n, q)]]]
      <4>1. [q \in Products |-> store'[CartPath(q)]] = [q \in Products |-> store[CartPath(q)]]
        BY <3>3
      <4>2. ASSUME NEW n \in Orders, n # o
            PROVE  G[n] = F[n]
        BY <3>2, <4>2
      <4>3. G[o] = [F[o] EXCEPT ![p] = m.put.val]
        BY <3>2
      <4>4. G = [n \in Orders |-> G[n]] /\ F = [n \in Orders |-> F[n]]
        OBVIOUS
      <4> HIDE DEF F, G
      <4>5. G = [F EXCEPT ![o] = [F[o] EXCEPT ![p] = m.put.val]]
        BY <4>2, <4>3, <4>4
      <4>6. QED
        BY <4>1, <4>5 DEF F, G
    <3>5. m.put.val \in Qty
      <4>1. ASSUME m.put.val = NoRecord PROVE FALSE
        <5>1. PICK q \in Products : m.put.path = CartPath(q)
          BY <1>1, <4>1, RemovalMayGo
        <5>2. QED
          BY <2>1, <5>1, PathFacts
      <4>2. QED
        BY <1>2, <4>1
    <3>6. L!Record(o, p, m.put.val)
      BY <3>1, <3>4 DEF L!Record
    <3>7. QED
      BY <3>5, <3>6 DEF L!Next, L!Qty, Qty
  <2>3. CASE ~QP!Granted(m)
    <3>1. store' = store /\ refused' = refused \cup {OrderPath(o, p)}
      BY <1>1, <2>1, <2>3
    <3>2. \A n \in Orders, q \in Products :
            OrderPath(n, q) \in refused' <=> OrderPath(n, q) \in refused \/ (n = o /\ q = p)
      BY <3>1, PathFacts
    <3>3. deleted' \cup {q \in Products : \E n \in Orders : OrderPath(n, q) \in refused'}
            = (deleted \cup {q \in Products : \E n \in Orders : OrderPath(n, q) \in refused}) \cup {p}
      BY <3>2
    <3>4. L!Excuse(p)
      BY <3>1, <3>3 DEF L!Excuse
    <3>5. QED
      BY <3>4 DEF L!Next
  <2>4. QED
    BY <2>2, <2>3
<1>5. QED
  BY <1>1, <1>3, <1>4 DEF CartPaths, OrderPaths

\* Every step of Checkout is a step of the ledger, or none.
LEMMA LedgerStep == IInv /\ [Next]_vars => [L!Next]_L!ledgerVars
<1> SUFFICES ASSUME IInv, [Next]_vars PROVE [L!Next]_L!ledgerVars
  OBVIOUS
<1>1. CASE Background
  <2>1. QP!Background /\ UNCHANGED deleted
    BY <1>1, SameBackground DEF Background
  <2>2. PICK d \in Devices : QP!Connect(d) \/ QP!Disconnect(d) \/ QP!Answer(d) \/ QP!Process(d)
    BY <2>1 DEF QP!Background
  <2>3. CASE QP!Connect(d) \/ QP!Disconnect(d) \/ QP!Answer(d)
    <3>1. UNCHANGED <<store, refused, deleted>>
      BY <2>1, <2>3 DEF QP!Connect, QP!Disconnect, QP!Answer, QP!history
    <3>2. QED
      BY <3>1, QuietStep
  <2>4. CASE QP!Process(d)
    BY <2>1, <2>4, ProcessLedger
  <2>5. QED
    BY <2>2, <2>3, <2>4
<1>2. ASSUME NEW d \in Devices, NEW l \in Line, CartButton(d, l)
      PROVE  [L!Next]_L!ledgerVars
  <2>1. UNCHANGED <<store, refused, deleted>>
    BY <1>2, SameIssue DEF CartButton, QP!Issue
  <2>2. QED
    BY <2>1, QuietStep
<1>3. ASSUME NEW d \in Devices, NEW l \in Line, removeItem(d, l)
      PROVE  [L!Next]_L!ledgerVars
  <2>1. UNCHANGED <<store, refused>> /\ deleted' = deleted \cup {l.id} /\ l.id \in Products
    BY <1>3, SameIssue DEF removeItem, QP!Issue, Line
  <2>2. QED
    BY <2>1, DeleteStep
<1>4. ASSUME NEW d \in Devices, Button(d)
      PROVE  [L!Next]_L!ledgerVars
  <2>1. UNCHANGED <<store, refused, deleted>>
    <3>1. UNCHANGED deleted
      BY <1>4 DEF Button
    <3>2. CASE signedIn[d] /\ products[d] # <<>>
      <4>1. PICK o \in Orders : Q!Issue(d, CheckoutWrites(o, products[d]))
        BY <1>4, <3>2 DEF Button
      <4>2. QED
        BY <3>1, <4>1, SameIssue DEF QP!Issue
    <3>3. CASE ~(signedIn[d] /\ products[d] # <<>>)
      BY <1>4, <3>1, <3>3 DEF Button, queueVars
    <3>4. QED
      BY <3>2, <3>3
  <2>2. QED
    BY <2>1, QuietStep
<1>5. ASSUME NEW d \in Devices, CartEvent(d) \/ BuyButton(d) \/ GoBack(d) \/ goToHome(d)
      PROVE  [L!Next]_L!ledgerVars
  <2>1. UNCHANGED <<store, refused, deleted>>
    BY <1>5 DEF CartEvent, BuyButton, GoBack, goToHome, queueVars
  <2>2. QED
    BY <2>1, QuietStep
<1>6. ASSUME NEW d \in Devices, Kill(d) \/ Session(d)
      PROVE  [L!Next]_L!ledgerVars
  <2>1. (QP!Kill(d) \/ QP!SignIn(d) \/ QP!SignOut(d)) /\ UNCHANGED deleted
    BY <1>6, SameKill, SameSession DEF Kill, Session
  <2>2. UNCHANGED <<store, refused, deleted>>
    BY <2>1 DEF QP!Kill, QP!SignIn, QP!SignOut, QP!history
  <2>3. QED
    BY <2>2, QuietStep
<1>7. CASE UNCHANGED vars
  <2>1. UNCHANGED <<store, refused, deleted>>
    BY <1>7 DEF vars, queueVars
  <2>2. QED
    BY <2>1, QuietStep
<1>8. QED
  BY <1>1, <1>2, <1>3, <1>4, <1>5, <1>6, <1>7 DEF Next

\* The screens, the pipeline and the server together keep what Ledger
\* promises: an order line once recorded stays, and a product leaves the cart
\* only when its owner deleted it or an order has it or was refused it
\* (PaymentViewController.swift:43-68, CartViewController.swift:71-80).
THEOREM KeepsLedger == Spec => ImplementsLedger
BY LedgerInit, LedgerStep, CheckoutInvariant, PTL DEF Spec, ImplementsLedger, L!Spec

-----------------------------------------------------------------------------
(* What an order holds.                                                   *)

\* What is written under an order: only the device of its tap has written
\* there, a path never written has no record and no line, and the last value
\* put there is the quantity of the list.
OrderPart(o, p) ==
    /\ writers[OrderPath(o, p)] \subseteq placed[o].by
    /\ writers[OrderPath(o, p)] = {} =>
        store[OrderPath(o, p)] = NoRecord /\ QtyIn(placed[o].lines, p) = NoRecord
    /\ \A d \in writers[OrderPath(o, p)] :
        lastPut[d][OrderPath(o, p)] = QtyIn(placed[o].lines, p)

OrdersInv == \A o \in Orders, p \in Products : OrderPart(o, p)

-----------------------------------------------------------------------------
(* The batch of a tap. *)

Batch == Seq([path : CartPaths \cup OrderPaths, val : Qty \cup {NoRecord}])

LEMMA LastOfBatch ==
    ASSUME NEW batch \in Batch, NEW pa \in QP!PathsOf(batch)
    PROVE  \E i \in DOMAIN batch :
              /\ batch[i].path = pa
              /\ \A j \in DOMAIN batch : batch[j].path = pa => j <= i
              /\ QP!LastOf(batch, pa) = batch[i].val
BY QP!LastOfBatch, QueueAssumptions, Zenon DEF Batch

\* The quantity of a product in a list is that of its last line.
LEMMA QtyFacts ==
    ASSUME NEW list \in Seq(Line), NEW p \in Products
    PROVE  /\ (\A i \in 1..Len(list) : list[i].id # p) => QtyIn(list, p) = NoRecord
           /\ \A i \in 1..Len(list) :
                list[i].id = p /\ (\A j \in 1..Len(list) : list[j].id = p => j <= i)
                    => QtyIn(list, p) = list[i].qty
<1> DEFINE on == {i \in DOMAIN list : list[i].id = p}
<1>1. DOMAIN list = 1..Len(list) /\ Len(list) \in Nat
  OBVIOUS
<1>2. ASSUME \A i \in 1..Len(list) : list[i].id # p
      PROVE  QtyIn(list, p) = NoRecord
  <2>1. on = {}
    BY <1>1, <1>2
  <2>2. QED
    BY <2>1 DEF QtyIn
<1>3. ASSUME NEW i \in 1..Len(list), list[i].id = p,
             \A j \in 1..Len(list) : list[j].id = p => j <= i
      PROVE  QtyIn(list, p) = list[i].qty
  <2>1. on # {}
    BY <1>1, <1>3
  <2>2. i \in on /\ \A j \in on : j <= i
    BY <1>1, <1>3
  <2>3. \A k \in on : (\A j \in on : j <= k) => k = i
    BY <1>1, <1>3
  <2>4. (CHOOSE k \in on : \A j \in on : j <= k) = i
    BY <2>2, <2>3
  <2>5. QED
    BY <2>1, <2>4 DEF QtyIn
<1>4. QED
  BY <1>2, <1>3

\* A tap writes under its own order only; what it last writes there is the
\* quantity of the list.
LEMMA TapFacts ==
    ASSUME NEW o \in Orders, NEW list \in Seq(Line)
    PROVE  /\ \A n \in Orders, q \in Products :
                n # o => OrderPath(n, q) \notin QP!PathsOf(CheckoutWrites(o, list))
           /\ \A p \in Products :
                IF OrderPath(o, p) \in QP!PathsOf(CheckoutWrites(o, list))
                THEN QP!LastOf(CheckoutWrites(o, list), OrderPath(o, p)) = QtyIn(list, p)
                ELSE QtyIn(list, p) = NoRecord
<1> DEFINE W == CheckoutWrites(o, list)
           n == Len(list)
<1>1. /\ W \in Batch /\ DOMAIN W = 1..(2 * n) /\ n \in Nat
      /\ \A i \in 1..n : /\ W[2 * i - 1] = Set(OrderPath(o, list[i].id), list[i].qty)
                        /\ W[2 * i] = Remove(CartPath(list[i].id))
      /\ \A j \in 1..(2 * n) : \E i \in 1..n : j = 2 * i - 1 \/ j = 2 * i
  <2>1. /\ W \in Batch /\ Len(W) = 2 * n /\ n \in Nat
        /\ \A i \in 1..n : /\ W[2 * i - 1] = Set(OrderPath(o, list[i].id), list[i].qty)
                          /\ W[2 * i] = Remove(CartPath(list[i].id))
        /\ \A j \in 1..(2 * n) : \E i \in 1..n : j = 2 * i - 1 \/ j = 2 * i
    <3>1. n \in Nat
      OBVIOUS
    <3>2. QED
      BY <3>1, WritesFacts, Zenon DEF Batch
  <2>2. DOMAIN W = 1..Len(W)
    BY <2>1 DEF Batch
  <2>3. QED
    BY <2>1, <2>2
<1> HIDE DEF W
<1>2. \A i \in 1..n : /\ W[2 * i - 1].path = OrderPath(o, list[i].id)
                     /\ W[2 * i - 1].val = list[i].qty
                     /\ W[2 * i].path = CartPath(list[i].id)
  <2>1. SUFFICES ASSUME NEW i \in 1..n
                 PROVE  /\ W[2 * i - 1].path = OrderPath(o, list[i].id)
                        /\ W[2 * i - 1].val = list[i].qty
                        /\ W[2 * i].path = CartPath(list[i].id)
    OBVIOUS
  <2>2. /\ W[2 * i - 1] = Set(OrderPath(o, list[i].id), list[i].qty)
        /\ W[2 * i] = Remove(CartPath(list[i].id))
    BY <1>1, Zenon
  <2>3. QED
    BY <2>2 DEF Set, Remove
<1>3. ASSUME NEW m \in Orders, NEW q \in Products, NEW j \in DOMAIN W, W[j].path = OrderPath(m, q)
      PROVE  m = o /\ \E i \in 1..n : j = 2 * i - 1 /\ list[i].id = q
  <2>1. PICK i \in 1..n : j = 2 * i - 1 \/ j = 2 * i
    BY <1>1
  <2>2. j # 2 * i
    <3>1. W[2 * i].path = CartPath(list[i].id)
      BY <1>2
    <3>2. CartPath(list[i].id) # OrderPath(m, q)
      BY PathFacts
    <3>3. QED
      BY <1>3, <3>1, <3>2
  <2>3. OrderPath(o, list[i].id) = OrderPath(m, q)
    BY <1>2, <1>3, <2>1, <2>2
  <2>4. o = m /\ list[i].id = q
    BY <2>3, PathFacts
  <2>5. QED
    BY <2>1, <2>2, <2>4
<1>4. ASSUME NEW m \in Orders, NEW q \in Products, m # o
      PROVE  OrderPath(m, q) \notin QP!PathsOf(W)
  BY <1>3, <1>4 DEF QP!PathsOf
<1>5. ASSUME NEW p \in Products, OrderPath(o, p) \in QP!PathsOf(W)
      PROVE  QP!LastOf(W, OrderPath(o, p)) = QtyIn(list, p)
  <2>1. PICK j \in DOMAIN W :
            /\ W[j].path = OrderPath(o, p)
            /\ \A k \in DOMAIN W : W[k].path = OrderPath(o, p) => k <= j
            /\ QP!LastOf(W, OrderPath(o, p)) = W[j].val
    BY <1>1, <1>5, LastOfBatch
  <2>2. PICK i \in 1..n : j = 2 * i - 1 /\ list[i].id = p
    BY <1>3, <2>1
  <2>3. ASSUME NEW k \in 1..n, list[k].id = p
        PROVE  k <= i
    <3>1. W[2 * k - 1].path = OrderPath(o, p) /\ 2 * k - 1 \in DOMAIN W
      BY <1>1, <1>2, <2>3
    <3>2. 2 * k - 1 <= 2 * i - 1
      BY <2>1, <2>2, <3>1
    <3>3. QED
      BY <3>2
  <2>4. QtyIn(list, p) = list[i].qty
    BY <2>2, <2>3, QtyFacts
  <2>5. QED
    BY <1>2, <2>1, <2>2, <2>4
<1>6. ASSUME NEW p \in Products, OrderPath(o, p) \notin QP!PathsOf(W)
      PROVE  QtyIn(list, p) = NoRecord
  <2>1. ASSUME NEW i \in 1..n
        PROVE  list[i].id # p
    <3>1. 2 * i - 1 \in DOMAIN W
      BY <1>1
    <3>2. W[2 * i - 1].path \in QP!PathsOf(W)
      BY <3>1 DEF QP!PathsOf
    <3>3. QED
      BY <1>2, <1>6, <3>2
  <2>2. QED
    BY <2>1, QtyFacts
<1>7. QED
  BY <1>4, <1>5, <1>6 DEF W

-----------------------------------------------------------------------------
(* The invariant. *)

LEMMA OrdersInit == Init => OrdersInv
<1> SUFFICES ASSUME Init, NEW o \in Orders, NEW p \in Products
             PROVE  OrderPart(o, p)
  BY DEF OrdersInv
<1>1. OrderPath(o, p) \in CartPaths \cup OrderPaths
  BY DEF OrderPaths
<1>2. writers[OrderPath(o, p)] = {}
  BY <1>1 DEF Init, Q!Init
<1>3. placed[o].lines = <<>>
  BY DEF Init, NotPlaced
<1>4. {i \in DOMAIN <<>> : <<>>[i].id = p} = {}
  OBVIOUS
<1>5. QtyIn(<<>>, p) = NoRecord
  BY <1>4 DEF QtyIn
<1>6. QED
  BY <1>2, <1>3, <1>5 DEF Init, OrderPart

\* Steps that write nothing and place nothing.
LEMMA OrdersIdle ==
    ASSUME OrdersInv, UNCHANGED <<store, writers, lastPut, placed>>
    PROVE  OrdersInv'
BY DEF OrdersInv, OrderPart

\* The screens write one record of the cart.
LEMMA OrdersSingle ==
    ASSUME IInv, OrdersInv, NEW d \in Devices, NEW w, NEW p \in Products, w.path = CartPath(p),
           QP!Issue(d, <<w>>), placed' = placed
    PROVE  OrdersInv'
<1>1. DOMAIN <<w>> = {1} /\ <<w>>[1] = w
  OBVIOUS
<1>2. QP!PathsOf(<<w>>) = {CartPath(p)}
  BY <1>1 DEF QP!PathsOf
<1>3. lastPut \in [Devices -> [CartPaths \cup OrderPaths -> Qty \cup {NoRecord}]]
  BY DEF IInv, QP!TypeOK
<1>4. SUFFICES ASSUME NEW o \in Orders, NEW q \in Products
               PROVE  OrderPart(o, q)'
  BY DEF OrdersInv
<1>5. OrderPath(o, q) \in CartPaths \cup OrderPaths /\ OrderPath(o, q) \notin QP!PathsOf(<<w>>)
  BY <1>2, PathFacts DEF OrderPaths
<1>6. /\ writers'[OrderPath(o, q)] = writers[OrderPath(o, q)] /\ store' = store
      /\ \A e \in Devices : lastPut'[e][OrderPath(o, q)] = lastPut[e][OrderPath(o, q)]
  BY <1>3, <1>5 DEF QP!Issue
<1>7. writers[OrderPath(o, q)] \subseteq Devices
  BY <1>5 DEF IInv, QP!TypeOK
<1>8. QED
  BY <1>6, <1>7 DEF OrdersInv, OrderPart

\* The button of the payment screen.
LEMMA OrdersTap ==
    ASSUME IInv, OrdersInv, NEW d \in Devices, NEW o \in Orders, Fresh(o),
           QP!Issue(d, CheckoutWrites(o, products[d])),
           placed' = [placed EXCEPT ![o] = [by |-> {d}, lines |-> products[d], idx |-> putCounter[d]]]
    PROVE  OrdersInv'
<1> DEFINE W == CheckoutWrites(o, products[d])
<1>1. products[d] \in Seq(Line) /\ placed \in [Orders -> [by : SUBSET Devices, lines : Seq(Line), idx : Nat]]
  BY DEF IInv, TypeOK
<1>2. /\ \A n \in Orders, q \in Products : n # o => OrderPath(n, q) \notin QP!PathsOf(W)
      /\ \A p \in Products :
            IF OrderPath(o, p) \in QP!PathsOf(W)
            THEN QP!LastOf(W, OrderPath(o, p)) = QtyIn(products[d], p)
            ELSE QtyIn(products[d], p) = NoRecord
  BY <1>1, TapFacts
<1> HIDE DEF W
<1>3. lastPut \in [Devices -> [CartPaths \cup OrderPaths -> Qty \cup {NoRecord}]]
  BY DEF IInv, QP!TypeOK
<1>4. /\ store' = store
      /\ \A pa \in CartPaths \cup OrderPaths :
            /\ writers'[pa] = IF pa \in QP!PathsOf(W) THEN writers[pa] \cup {d} ELSE writers[pa]
            /\ lastPut'[d][pa] = IF pa \in QP!PathsOf(W) THEN QP!LastOf(W, pa) ELSE lastPut[d][pa]
            /\ \A e \in Devices \ {d} : lastPut'[e][pa] = lastPut[e][pa]
  BY <1>3 DEF QP!Issue, W
<1>5. SUFFICES ASSUME NEW n \in Orders, NEW p \in Products
               PROVE  OrderPart(n, p)'
  BY DEF OrdersInv
<1>6. OrderPath(n, p) \in CartPaths \cup OrderPaths
  BY DEF OrderPaths
<1>7. writers[OrderPath(n, p)] \subseteq Devices /\ OrderPart(n, p)
  BY <1>6 DEF IInv, QP!TypeOK, OrdersInv
<1>8. CASE n # o
  <2>1. OrderPath(n, p) \notin QP!PathsOf(W) /\ placed'[n] = placed[n]
    BY <1>1, <1>2, <1>8
  <2>2. QED
    BY <1>4, <1>6, <1>7, <2>1 DEF OrderPart
<1>9. CASE n = o
  <2>1. writers[OrderPath(n, p)] = {}
    BY <1>7, <1>9 DEF OrderPart, Fresh, NotPlaced
  <2>2. placed'[n].by = {d} /\ placed'[n].lines = products[d]
    BY <1>1, <1>9
  <2>3. CASE OrderPath(n, p) \in QP!PathsOf(W)
    BY <1>2, <1>4, <1>6, <1>9, <2>1, <2>2, <2>3 DEF OrderPart
  <2>4. CASE OrderPath(n, p) \notin QP!PathsOf(W)
    BY <1>2, <1>4, <1>6, <1>7, <1>9, <2>1, <2>2, <2>4 DEF OrderPart
  <2>5. QED
    BY <2>3, <2>4
<1>10. QED
  BY <1>8, <1>9

\* The server writes only where a device has written.
LEMMA OrdersProcess ==
    ASSUME IInv, OrdersInv, NEW d \in Devices, QP!Process(d), UNCHANGED placed
    PROVE  OrdersInv'
<1>1. PICK m \in wire[d] :
        /\ m.put \in outstandingPuts[d]
        /\ store' = IF QP!Granted(m) THEN [store EXCEPT ![m.put.path] = m.put.val] ELSE store
  BY ProcessFacts
<1>2. UNCHANGED <<writers, lastPut>>
  BY DEF QP!Process
<1>3. writers[m.put.path] # {}
  BY <1>1 DEF IInv, QP!Inv, QP!DeviceInv, QP!Newest
<1>4. SUFFICES ASSUME NEW o \in Orders, NEW p \in Products
               PROVE  OrderPart(o, p)'
  BY DEF OrdersInv
<1>5. OrderPath(o, p) # m.put.path => store'[OrderPath(o, p)] = store[OrderPath(o, p)]
  BY <1>1
<1>6. QED
  BY <1>2, <1>3, <1>5 DEF OrdersInv, OrderPart

LEMMA OrdersStep == IInv /\ OrdersInv /\ [Next]_vars => OrdersInv'
<1> SUFFICES ASSUME IInv, OrdersInv, [Next]_vars PROVE OrdersInv'
  OBVIOUS
<1>1. CASE Background
  <2>1. QP!Background /\ UNCHANGED placed
    BY <1>1, SameBackground DEF Background
  <2>2. PICK d \in Devices : QP!Connect(d) \/ QP!Disconnect(d) \/ QP!Answer(d) \/ QP!Process(d)
    BY <2>1 DEF QP!Background
  <2>3. CASE QP!Connect(d) \/ QP!Disconnect(d) \/ QP!Answer(d)
    <3>1. UNCHANGED <<store, writers, lastPut, placed>>
      BY <2>1, <2>3 DEF QP!Connect, QP!Disconnect, QP!Answer, QP!history
    <3>2. QED
      BY <3>1, OrdersIdle
  <2>4. CASE QP!Process(d)
    BY <2>1, <2>4, OrdersProcess
  <2>5. QED
    BY <2>2, <2>3, <2>4
<1>2. ASSUME NEW d \in Devices, NEW l \in Line, CartButton(d, l) \/ removeItem(d, l)
      PROVE  OrdersInv'
  <2>1. l.id \in Products
    BY DEF Line
  <2>2. PICK w \in {Set(CartPath(l.id), l.qty), Remove(CartPath(l.id))} :
            QP!Issue(d, <<w>>) /\ placed' = placed
    BY <1>2, SameIssue DEF CartButton, removeItem
  <2>3. w.path = CartPath(l.id)
    BY <2>2 DEF Set, Remove
  <2>4. QED
    BY <2>1, <2>2, <2>3, OrdersSingle
<1>3. ASSUME NEW d \in Devices, Button(d)
      PROVE  OrdersInv'
  <2>1. CASE signedIn[d] /\ products[d] # <<>>
    <3>1. PICK o \in Orders :
              /\ Fresh(o) /\ Q!Issue(d, CheckoutWrites(o, products[d]))
              /\ placed' = [placed EXCEPT ![o] = [by |-> {d}, lines |-> products[d], idx |-> putCounter[d]]]
      BY <1>3, <2>1 DEF Button
    <3>2. QED
      BY <3>1, SameIssue, OrdersTap
  <2>2. CASE ~(signedIn[d] /\ products[d] # <<>>)
    <3>1. UNCHANGED <<store, writers, lastPut, placed>>
      BY <1>3, <2>2 DEF Button, queueVars
    <3>2. QED
      BY <3>1, OrdersIdle
  <2>3. QED
    BY <2>1, <2>2
<1>4. ASSUME NEW d \in Devices, CartEvent(d) \/ BuyButton(d) \/ GoBack(d) \/ goToHome(d)
      PROVE  OrdersInv'
  <2>1. UNCHANGED <<store, writers, lastPut, placed>>
    BY <1>4 DEF CartEvent, BuyButton, GoBack, goToHome, queueVars
  <2>2. QED
    BY <2>1, OrdersIdle
<1>5. ASSUME NEW d \in Devices, Kill(d) \/ Session(d)
      PROVE  OrdersInv'
  <2>1. (QP!Kill(d) \/ QP!SignIn(d) \/ QP!SignOut(d)) /\ UNCHANGED placed
    BY <1>5, SameKill, SameSession DEF Kill, Session
  <2>2. UNCHANGED <<store, writers, lastPut, placed>>
    BY <2>1 DEF QP!Kill, QP!SignIn, QP!SignOut, QP!history
  <2>3. QED
    BY <2>2, OrdersIdle
<1>6. CASE UNCHANGED vars
  <2>1. UNCHANGED <<store, writers, lastPut, placed>>
    BY <1>6 DEF vars, queueVars
  <2>2. QED
    BY <2>1, OrdersIdle
<1>7. QED
  BY <1>1, <1>2, <1>3, <1>4, <1>5, <1>6 DEF Next

-----------------------------------------------------------------------------
(* The theorem. *)

LEMMA QueueConverged == QP!TypeOK /\ QP!Inv => QP!Converged
BY QP!InvImplies, QueueAssumptions, Zenon

LEMMA InvGivesExact == IInv /\ OrdersInv => OrderExact
<1> SUFFICES ASSUME IInv, OrdersInv, NEW o \in Orders, NEW p \in Products,
                    OrderPath(o, p) \notin refused \cup died,
                    \A d \in placed[o].by : ~Q!Pending(d, OrderPath(o, p))
             PROVE  store[OrderPath(o, p)] = QtyIn(placed[o].lines, p)
  BY DEF OrderExact
<1>1. OrderPart(o, p) /\ OrderPath(o, p) \in CartPaths \cup OrderPaths
  BY DEF OrdersInv, OrderPaths
<1>2. CASE writers[OrderPath(o, p)] = {}
  BY <1>1, <1>2 DEF OrderPart
<1>3. CASE writers[OrderPath(o, p)] # {}
  <2>1. ASSUME NEW d \in Devices, QP!Pending(d, OrderPath(o, p))
        PROVE  FALSE
    <3>1. PICK pt \in outstandingPuts[d] : pt.path = OrderPath(o, p)
      BY <2>1 DEF QP!Pending
    <3>2. d \in writers[OrderPath(o, p)]
      BY <3>1 DEF IInv, QP!Inv, QP!DeviceInv, QP!Newest
    <3>3. d \in placed[o].by /\ Q!Pending(d, OrderPath(o, p))
      BY <1>1, <3>1, <3>2 DEF OrderPart, Q!Pending
    <3>4. QED
      BY <3>3
  <2>2. QP!Converged
    BY QueueConverged DEF IInv
  <2>3. \E d \in writers[OrderPath(o, p)] : store[OrderPath(o, p)] = lastPut[d][OrderPath(o, p)]
    BY <1>1, <1>3, <2>1, <2>2 DEF QP!Converged, QP!spoiled
  <2>4. QED
    BY <1>1, <2>3 DEF OrderPart
<1>4. QED
  BY <1>2, <1>3

\* At rest an order is the list of the one tap that placed it
\* (PaymentViewController.swift:57-68): whatever was cut and sent again, no
\* other tap or device adds to it, and what no tap placed does not exist.
THEOREM OrdersAreExact == Spec => []OrderExact
BY CheckoutInit, CheckoutStep, OrdersInit, OrdersStep, InvGivesExact, PTL DEF Spec

\* On a cart path the pipeline converges.
LEMMA InvGivesCart == IInv => CartConverges
<1> SUFFICES ASSUME IInv, NEW p \in Products,
                    CartPath(p) \notin refused \cup died, writers[CartPath(p)] # {},
                    \A d \in Devices : ~Q!Pending(d, CartPath(p))
             PROVE  \E d \in writers[CartPath(p)] : store[CartPath(p)] = lastPut[d][CartPath(p)]
  BY DEF CartConverges
<1>1. CartPath(p) \in CartPaths \cup OrderPaths
  BY DEF CartPaths
<1>2. \A d \in Devices : ~QP!Pending(d, CartPath(p))
  BY DEF Q!Pending, QP!Pending
<1>3. QP!Converged
  BY QueueConverged DEF IInv
<1>4. QED
  BY <1>1, <1>2, <1>3 DEF QP!Converged, QP!spoiled

\* Any number of devices may change one cart and check it out, through cuts and
\* resends: a product none of them has a write for under way is in the cart with
\* the quantity, or out of it, as the last cart write of one of them says.
THEOREM CartSettles == Spec => []CartConverges
BY CheckoutInit, CheckoutStep, InvGivesCart, PTL DEF Spec
=============================================================================

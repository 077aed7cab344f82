------------------------------ MODULE Checkout ------------------------------
(***************************************************************************)
(* From the cart to the order: the detail screen puts a product in the     *)
(* cart, the cart screen deletes it or hands its list to the shipping and  *)
(* payment screens, and the payment screen writes the order and empties    *)
(* the cart, one setValue and one removeValue per product.  The writes go  *)
(* through WriteQueue, so a cut, a death of the process, a sign-out and a  *)
(* second device can come between any two of them.                         *)
(*                                                                         *)
(* Abstractions.  The record of a product in the cart or in an order is    *)
(* its quantity (the subtotal is quantity times price, the other fields    *)
(* are copied); 0 is no record.  The list handed over is any sequence of   *)
(* lines the cart screen has been told of: its timer clears and rebuilds   *)
(* it every second, so it may be empty, partial, out of date, or hold a    *)
(* product twice.  The navigation stack is remembered down to the latest   *)
(* payment screen.                                                         *)
(***************************************************************************)
EXTENDS Integers, Sequences

CONSTANTS
    Devices, Products,
    Orders,     \* the identifiers generateVersionOneAkaTimeBasedUUID returns
    MaxQty,     \* bound on the quantity of a line
    InitialCarts,  \* what the account may have in its cart at first
    MaxLines,   \* bound on the length of the list handed to the payment screen
    SecuredCart, SecuredOrders,  \* whether the rules demand sign-in there
    MaxPuts, MaxDisruptions             \* bounds, see WriteQueue

ASSUME CheckoutAssumption ==
    /\ MaxQty \in Nat \ {0} /\ MaxLines \in Nat
    /\ MaxPuts \in Nat /\ MaxDisruptions \in Nat
    /\ InitialCarts \subseteq [Products -> 0..MaxQty]
    /\ SecuredCart \in BOOLEAN /\ SecuredOrders \in BOOLEAN

VARIABLES store, outstandingPuts, wire, responses, connected, signedIn,
          putCounter, disruptions, lastPut, writers, refused, died, processed
VARIABLES
    screen,     \* device: the screen on top
    products,   \* device: the list in the shipping and payment screens
    seen,       \* device: the cart lines the cart screen has been told of
    \* history, read by properties only
    deleted,    \* products deleted on the cart screen
    placed      \* the tap that wrote each order

Qty == 1..MaxQty
NoRecord == 0
Line == [id : Products, qty : Qty]

CartPath(p) == <<"cart", p>>
OrderPath(o, p) == <<"orders", o, p>>
CartPaths == {CartPath(p) : p \in Products}
OrderPaths == {OrderPath(o, p) : o \in Orders, p \in Products}

Q == INSTANCE WriteQueue WITH
        Paths <- CartPaths \cup OrderPaths,
        Values <- Qty,
        None <- NoRecord,
        Public <- (IF SecuredCart THEN {} ELSE CartPaths)
                    \cup (IF SecuredOrders THEN {} ELSE OrderPaths),
        Batches <- Seq([path : CartPaths \cup OrderPaths, val : Qty \cup {NoRecord}])

queueVars == <<store, outstandingPuts, wire, responses, connected, signedIn, putCounter,
              disruptions, lastPut, writers, refused, died, processed>>
screenVars == <<screen, products, seen>>
vars == <<queueVars, screenVars, deleted, placed>>

NotPlaced == [by |-> {}, lines |-> <<>>, idx |-> 0]

TypeOK ==
    /\ Q!TypeOK
    /\ screen \in [Devices -> {"shop", "payment", "alert", "home"}]
    /\ products \in [Devices -> Seq(Line)]
    /\ seen \in [Devices -> SUBSET Line]
    /\ deleted \subseteq Products
    /\ placed \in [Orders -> [by : SUBSET Devices, lines : Seq(Line), idx : Nat]]

Init ==
    /\ Q!Init
    /\ \E cart \in InitialCarts : \A p \in Products : store[CartPath(p)] = cart[p]
    /\ \A o \in Orders, p \in Products : store[OrderPath(o, p)] = NoRecord
    /\ screen = [d \in Devices |-> "shop"]
    /\ products = [d \in Devices |-> <<>>]
    /\ seen = [d \in Devices |-> {}]
    /\ deleted = {}
    /\ placed = [o \in Orders |-> NotPlaced]

-----------------------------------------------------------------------------
(* The screens. *)

\* "home" is the tab bar that OK pushes above the payment screen.
Shopping(d) == screen[d] \in {"shop", "home"}

Set(path, val) == [path |-> path, val |-> val]
Remove(path) == [path |-> path, val |-> NoRecord]

\* The cart button of the detail screen.  For a guest it only shows a toast.
CartButton(d, l) ==
    /\ Shopping(d) /\ signedIn[d]
    /\ Q!Issue(d, <<Set(CartPath(l.id), l.qty)>>)
    /\ seen' = [seen EXCEPT ![d] = @ \cup {l}]
    /\ UNCHANGED <<screen, products, deleted, placed>>

\* A childAdded event of the cart reaches the cart screen.
CartEvent(d) ==
    /\ connected[d] /\ signedIn[d]
    /\ \E p \in Products :
        /\ store[CartPath(p)] # NoRecord
        /\ seen' = [seen EXCEPT ![d] = @ \cup {[id |-> p, qty |-> store[CartPath(p)]]}]
    /\ UNCHANGED <<queueVars, screen, products, deleted, placed>>

\* The delete button of a line of the cart screen.
removeItem(d, l) ==
    /\ Shopping(d) /\ signedIn[d] /\ l \in seen[d]
    /\ Q!Issue(d, <<Remove(CartPath(l.id))>>)
    /\ deleted' = deleted \cup {l.id}
    /\ UNCHANGED <<screenVars, placed>>

Lists(d) == UNION {[1..n -> seen[d]] : n \in 0..MaxLines}

\* The list as it is at this moment goes to the shipping screen and, from
\* there, to the payment screen; the two are one screen here.
BuyButton(d) ==
    /\ Shopping(d)
    /\ screen' = [screen EXCEPT ![d] = "payment"]
    /\ \E list \in Lists(d) : products' = [products EXCEPT ![d] = list]
    /\ UNCHANGED <<queueVars, seen, deleted, placed>>

\* The back button of the navigation bar: out of the payment screen, and from
\* the home screen above it back to the payment screen and its old list.
GoBack(d) ==
    /\ \/ screen[d] = "payment" /\ screen' = [screen EXCEPT ![d] = "shop"]
       \/ screen[d] = "home" /\ screen' = [screen EXCEPT ![d] = "payment"]
    /\ UNCHANGED <<queueVars, products, seen, deleted, placed>>

\* The mutant of CheckoutWrites swaps the two writes.
RemoveFirst(o, list) ==
    [i \in 1..(2 * Len(list)) |->
        LET l == list[(i + 1) \div 2]
        IN  IF i % 2 = 0 THEN Set(OrderPath(o, l.id), l.qty) ELSE Remove(CartPath(l.id))]

\* For each product: the order line, then the removal from the cart.
CheckoutWrites(o, list) ==
    [i \in 1..(2 * Len(list)) |->
        LET l == list[(i + 1) \div 2]
        IN  IF i % 2 = 1 THEN Set(OrderPath(o, l.id), l.qty) ELSE Remove(CartPath(l.id))]

\* A time-based UUID that no tap has had; the mutant gives one out twice.
Repeated(o) == TRUE
Fresh(o) == placed[o] = NotPlaced

\* The button of the payment screen.  The alert says the order is placed
\* before any of it is sent, and also to a guest, who writes nothing.
Button(d) ==
    /\ screen[d] = "payment"
    /\ screen' = [screen EXCEPT ![d] = "alert"]
    /\ IF signedIn[d] /\ products[d] # <<>>
       THEN \E o \in Orders :
                /\ Fresh(o)
                /\ Q!Issue(d, CheckoutWrites(o, products[d]))
                /\ placed' = [placed EXCEPT ![o] =
                     [by |-> {d}, lines |-> products[d], idx |-> putCounter[d]]]
       ELSE UNCHANGED <<queueVars, placed>>
    /\ UNCHANGED <<products, seen, deleted>>

\* OK on the alert.
goToHome(d) ==
    /\ screen[d] = "alert"
    /\ screen' = [screen EXCEPT ![d] = "home"]
    /\ UNCHANGED <<queueVars, products, seen, deleted, placed>>

\* The process dies; the app starts again on the first tab.
Kill(d) ==
    /\ Q!Kill(d)
    /\ screen' = [screen EXCEPT ![d] = "shop"]
    /\ products' = [products EXCEPT ![d] = <<>>]
    /\ seen' = [seen EXCEPT ![d] = {}]
    /\ UNCHANGED <<deleted, placed>>

\* The sign-in screen and the Sign Out row of the menu.
Session(d) ==
    /\ Shopping(d)
    /\ Q!SignIn(d) \/ Q!SignOut(d)
    /\ UNCHANGED <<screenVars, deleted, placed>>

Background ==
    /\ Q!Background
    /\ UNCHANGED <<screenVars, deleted, placed>>

Next ==
    \/ Background
    \/ \E d \in Devices :
        \/ \E l \in Line : CartButton(d, l) \/ removeItem(d, l)
        \/ CartEvent(d) \/ BuyButton(d) \/ GoBack(d) \/ Button(d) \/ goToHome(d)
        \/ Kill(d) \/ Session(d)

Spec == Init /\ [][Next]_vars
FairSpec == Spec /\ Q!Fairness

-----------------------------------------------------------------------------
(* Properties. *)

Placed(o) == placed[o] # NotPlaced

\* A product is taken out of the cart by a tap only after the order of that
\* very tap holds it, unless the server refused the order line: the two
\* writes of PaymentViewController.swift:65-66 are separate requests, and a
\* cut, a death, a resend or another device can come between them.
OrderFirst ==
    \A o \in Orders : \A d \in placed[o].by, i \in DOMAIN placed[o].lines :
        LET path == OrderPath(o, placed[o].lines[i].id)
        IN  placed[o].idx + 2 * i - 1 \in processed[d]
                => store[path] # NoRecord \/ path \in refused

\* The quantity of p in a list: of its last line, if it is there twice.
QtyIn(list, p) ==
    LET on == {i \in DOMAIN list : list[i].id = p}
    IN  IF on = {} THEN NoRecord
        ELSE list[CHOOSE i \in on : \A j \in on : j <= i].qty

\* At rest an order is the list of the one tap that placed it: no second tap,
\* resend or other device adds to it, and what no tap placed does not exist.
OrderExact ==
    \A o \in Orders, p \in Products :
        LET path == OrderPath(o, p)
        IN  path \notin refused \cup died /\ (\A d \in placed[o].by : ~Q!Pending(d, path))
                => store[path] = QtyIn(placed[o].lines, p)

\* Two devices add to one cart, delete from it and check it out, at once and
\* through cuts and resends: at rest a product is in the cart with the quantity,
\* or out of it, as the last cart write of one of them says, so no answer to one
\* write and no order took away another (PaymentViewController.swift:64-66).
CartConverges ==
    \A p \in Products :
        LET path == CartPath(p)
        IN  path \notin refused \cup died /\ writers[path] # {}
            /\ (\A d \in Devices : ~Q!Pending(d, path))
                => \E d \in writers[path] : store[path] = lastPut[d][path]

\* Every line of a placed order gets to the server, unless the server refuses
\* it or the process dies first.
OrderArrives ==
    \A o \in Orders, p \in Products :
        QtyIn(placed[o].lines, p) # NoRecord
            ~> \/ store[OrderPath(o, p)] # NoRecord
               \/ OrderPath(o, p) \in refused \cup died

\* The cart and the orders keep what Ledger promises.
L == INSTANCE Ledger WITH
        cart <- [p \in Products |-> store[CartPath(p)]],
        orders <- [o \in Orders |-> [p \in Products |-> store[OrderPath(o, p)]]],
        excused <- deleted \cup {p \in Products : \E o \in Orders : OrderPath(o, p) \in refused}
ImplementsLedger == L!Spec
=============================================================================

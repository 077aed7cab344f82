------------------------------ MODULE Purchase ------------------------------
(***************************************************************************)
(* A purchase from end to end, as the main thread sees it: the detail      *)
(* screen puts a quantity of a product into the cart, the cart screen      *)
(* hands its list and its total to the shipping screen, that one hands the *)
(* list on, and the payment screen writes an order line and removes the    *)
(* cart record for each line of the list.  Meanwhile the timer of the cart *)
(* screen goes on clearing and refilling the list the hand-over is taken   *)
(* from, and other devices change the cart.                                *)
(*                                                                         *)
(* Abstractions.  Writes are visible to the device at once; their way to   *)
(* the server is the subject of WriteQueue and Checkout.  A cart record    *)
(* and an order line are their subtotal.  There is one cart screen; in the *)
(* app every visit makes one, and each behaves as this one.                *)
(***************************************************************************)
EXTENDS Integers, Sequences, FiniteSets, SequencesExt

CONSTANTS
    Users, Products, NoUser,
    Price,       \* of each product
    MaxCount,    \* what the stepper stops at
    MaxObservers, MaxQueue, MaxChanges  \* bounds, see Listener

ASSUME PurchaseAssumption ==
    /\ Price \in [Products -> Nat \ {0}] /\ Products # {}
    /\ MaxCount \in Nat \ {0}
    /\ NoUser \notin Users /\ IsFiniteSet(Products)
    /\ MaxObservers \in Nat \ {0} /\ MaxQueue \in Nat /\ MaxChanges \in Nat

VARIABLES cached, observers, registering, mainQueue, changes, uid, products, shown, clean,
          total, label
VARIABLES
    screen,    \* the screen on top
    product,   \* the product of the detail screen
    count,     \* its stepper
    handed,    \* what the shipping and payment screens were handed
    order,     \* the lines of the order just placed
    \* history, read by properties only
    seen,      \* rows, label and cart at the hand-over
    steady     \* how far a clean list that nothing has disturbed since has come

SubTotals == {Price[p] * n : p \in Products, n \in 1..MaxCount}
Absent == 0
C == INSTANCE CartScreen WITH Prompt <- FALSE

cartVars == <<cached, observers, registering, mainQueue, changes, uid, products, shown, clean,
              total, label>>
shopVars == <<screen, product, count>>
handVars == <<handed, order, seen, steady>>
vars == <<cartVars, shopVars, handVars>>

Screens == {"home", "detail", "cart", "shipping", "payment"}
Cart == [Products -> SubTotals \cup {Absent}]
EmptyCart == [p \in Products |-> Absent]
Nothing == [list |-> <<>>, total |-> 0]
Unseen == [rows |-> <<>>, label |-> 0, cart |-> EmptyCart]
AnyProduct == CHOOSE p \in Products : TRUE

TypeOK ==
    /\ C!TypeOK
    /\ screen \in Screens /\ product \in Products /\ count \in 1..MaxCount
    /\ handed \in [list : Seq(C!P!Line), total : Nat]
    /\ order \in Cart
    /\ seen \in [rows : Seq(C!P!Line), label : Nat, cart : Cart]
    /\ steady \in {"no", "handed", "bought"}

Init ==
    /\ C!Init
    /\ screen = "home" /\ product = AnyProduct /\ count = 1
    /\ handed = Nothing /\ order = EmptyCart /\ seen = Unseen
    /\ steady = "no"

Go(from, to) == screen \in from /\ screen' = to

\* A screen that is left is gone with what it holds.
NoDetail == product' = AnyProduct /\ count' = 1
NoHandOver == handed' = Nothing /\ seen' = Unseen /\ order' = EmptyCart /\ steady' = "no"

-----------------------------------------------------------------------------
(* The detail screen. *)

OpenDetail(p) ==
    /\ Go({"home"}, "detail")
    /\ product' = p /\ count' = 1
    /\ NoHandOver
    /\ UNCHANGED cartVars

\* The stepper; the mutant misses the end by one.
Minus(n) == IF n <= 1 THEN 1 ELSE n - 1
PlusPastEnd(n) == IF n > MaxCount THEN MaxCount ELSE n + 1
Plus(n) == IF n >= MaxCount THEN MaxCount ELSE n + 1

minusButton ==
    /\ screen = "detail"
    /\ count' = Minus(count)
    /\ UNCHANGED <<cartVars, screen, product, handVars>>
plusButton ==
    /\ screen = "detail"
    /\ count' = Plus(count)
    /\ UNCHANGED <<cartVars, screen, product, handVars>>

\* The record is overwritten with this visit's quantity, not added to.  A write
\* of what is there already changes nothing; a guest's tap writes nothing.
CartButton ==
    /\ screen = "detail"
    /\ LET s == count * Price[product]
       IN  IF uid # NoUser /\ cached[uid][product] # s
           THEN C!CartChange(uid, product, s) /\ steady' = "no"
           ELSE UNCHANGED <<cartVars, steady>>
    /\ UNCHANGED <<shopVars, handed, order, seen>>

-----------------------------------------------------------------------------
(* From the cart to the order. *)

OpenCart == Go({"home", "detail"}, "cart") /\ NoDetail /\ NoHandOver /\ UNCHANGED cartVars

CartOf(u) == IF u = NoUser THEN EmptyCart ELSE cached[u]

\* What prepare hands over; the mutant hands over the last list on screen.
HandShown == [list |-> shown, total |-> total]
Hand == [list |-> products, total |-> total]

\* BuyButton of the cart screen: prepare copies the list and the total.
BuyButton ==
    /\ Go({"cart"}, "shipping")
    /\ handed' = Hand
    /\ seen' = [rows |-> shown, label |-> label, cart |-> CartOf(uid)]
    /\ steady' = IF clean /\ C!P!K!Quiet THEN "handed" ELSE "no"
    /\ UNCHANGED <<cartVars, product, count, order>>

\* BuyButton of the shipping screen hands the list on.
ToPayment == Go({"shipping"}, "payment") /\ UNCHANGED <<cartVars, product, count, handVars>>

Back ==
    /\ \/ Go({"detail", "cart"}, "home") /\ UNCHANGED handVars
       \/ Go({"shipping"}, "cart") /\ NoHandOver
       \/ Go({"payment"}, "shipping") /\ UNCHANGED handVars
    /\ NoDetail
    /\ UNCHANGED cartVars

KeysOf(list) == {list[i].key : i \in DOMAIN list}

\* The lines of the order: children are named after the product, so the last
\* line of the list on a product is the one that stays.
LineOf(list, p) == list[CHOOSE i \in DOMAIN list :
                        list[i].key = p /\ \A j \in DOMAIN list : list[j].key = p => j <= i].val
OrderOf(list) == [p \in Products |-> IF p \in KeysOf(list) THEN LineOf(list, p) ELSE Absent]

\* What is left of a cart; the mutant removes the first line only.
LeftFirstOnly(cart, list) ==
    [p \in Products |-> IF list # <<>> /\ p = list[1].key THEN Absent ELSE cart[p]]
Left(cart, list) == [p \in Products |-> IF p \in KeysOf(list) THEN Absent ELSE cart[p]]

\* Button of the payment screen, for whoever is signed in now, and the alert's OK.
Button ==
    /\ Go({"payment"}, "home")
    /\ IF uid = NoUser
       THEN /\ UNCHANGED <<cached, observers, registering, mainQueue, changes, clean, order>>
            /\ steady' = "no"
       ELSE /\ order' = OrderOf(handed.list)
            /\ C!P!K!Update(uid, Left(cached[uid], handed.list))
            /\ clean' = FALSE
            /\ steady' = IF steady = "handed" THEN "bought" ELSE "no"
    /\ UNCHANGED <<uid, products, shown, total, label, product, count, handed, seen>>

-----------------------------------------------------------------------------
(* What goes on meanwhile. *)

Tick == C!Tick /\ UNCHANGED <<shopVars, handVars>>
childAdded == C!childAdded /\ UNCHANGED <<shopVars, handVars>>
Register == C!Register /\ UNCHANGED <<shopVars, handVars>>

removeItem(i) ==
    /\ screen = "cart"
    /\ C!removeItem(i)
    /\ steady' = "no"
    /\ UNCHANGED <<shopVars, handed, order, seen>>

\* Another device, or the server, changes the cart of an account.
OtherChange(u, p, n) ==
    /\ C!CartChange(u, p, n * Price[p])
    /\ steady' = "no"
    /\ UNCHANGED <<shopVars, handed, order, seen>>

Revoke(u) == C!Revoke(u) /\ steady' = "no" /\ UNCHANGED <<shopVars, handed, order, seen>>

\* Signing out and in: the menu is reached from the home screen.
SignOut == screen = "home" /\ C!SignOut /\ steady' = "no" /\ UNCHANGED <<shopVars, handed, order, seen>>
SignIn(u) == screen = "home" /\ C!SignIn(u) /\ steady' = "no" /\ UNCHANGED <<shopVars, handed, order, seen>>

Next ==
    \/ minusButton \/ plusButton \/ CartButton
    \/ OpenCart \/ BuyButton \/ ToPayment \/ Back \/ Button
    \/ Tick \/ childAdded \/ Register \/ SignOut
    \/ \E p \in Products : OpenDetail(p)
    \/ \E i \in DOMAIN shown : removeItem(i)
    \/ \E u \in Users :
        \/ \E p \in Products, n \in 0..MaxCount : OtherChange(u, p, n)
        \/ Revoke(u) \/ SignIn(u)

Spec == Init /\ [][Next]_vars

-----------------------------------------------------------------------------
(* Properties. *)

\* What goes to the shipping screen is what the owner saw when tapping Buy, list
\* and sum, or nothing at all, when the tap fell between a tick and its events.
\* It is never a list that does not belong to its total, although list, rows,
\* total and label are written by three different handlers.
HandsOverWhatIsShown ==
    screen \in {"shipping", "payment"} /\ handed # Nothing
        => handed = [list |-> seen.rows, total |-> seen.label]

\* A purchase from a clean list that nothing disturbs orders the cart as it was
\* at the hand-over, line by line, for the total the shipping screen showed, and
\* leaves the cart empty, whatever the timer did to the list in the meantime.
PurchaseExact ==
    steady = "bought" =>
        /\ order = seen.cart
        /\ handed.total = FoldLeft(LAMBDA sum, p : sum + order[p], 0, SetToSeq(Products))
        /\ cached[uid] = EmptyCart

\* No sequence of visits, steps, orders and re-additions makes a record or an
\* order line of no or of too many items.
QuantitiesInRange ==
    LET good(p, s) == s = Absent \/ \E n \in 1..MaxCount : s = n * Price[p]
    IN  \A p \in Products : good(p, order[p]) /\ \A u \in Users : good(p, cached[u][p])
=============================================================================

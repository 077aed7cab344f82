------------------------------- MODULE Ledger -------------------------------
(***************************************************************************)
(* What the cart and the orders of one account promise its owner, whatever *)
(* the devices, the connection and the server do in between: an order line *)
(* that has been recorded stays recorded, and a product leaves the cart    *)
(* only if the owner took it out or an order has it.                       *)
(***************************************************************************)
EXTENDS Integers

CONSTANTS Products, Orders, MaxQty

VARIABLES
    cart,     \* the quantity of each product in the cart, 0 when it is not there
    orders,   \* the quantity of each product in each order
    excused   \* products the owner deleted, or whose order the server refused

ledgerVars == <<cart, orders, excused>>

Qty == 1..MaxQty

Init ==
    /\ cart \in [Products -> 0..MaxQty]
    /\ orders = [o \in Orders |-> [p \in Products |-> 0]]
    /\ excused = {}

\* A product enters the cart, or its quantity changes.
Choose(p, q) ==
    /\ cart' = [cart EXCEPT ![p] = q]
    /\ UNCHANGED <<orders, excused>>

Record(o, p, q) ==
    /\ orders' = [orders EXCEPT ![o][p] = q]
    /\ UNCHANGED <<cart, excused>>

Excuse(p) ==
    /\ excused' = excused \cup {p}
    /\ UNCHANGED <<cart, orders>>

Remove(p) ==
    /\ p \in excused \/ \E o \in Orders : orders[o][p] # 0
    /\ cart' = [cart EXCEPT ![p] = 0]
    /\ UNCHANGED <<orders, excused>>

Next ==
    \E p \in Products :
        \/ \E q \in Qty : Choose(p, q)
        \/ \E o \in Orders, q \in Qty : Record(o, p, q)
        \/ Excuse(p)
        \/ Remove(p)

Spec == Init /\ [][Next]_ledgerVars
=============================================================================

----------------------------- MODULE CartScreen -----------------------------
(***************************************************************************)
(* The cart screen: a PolledList whose lines carry a subtotal.  A tick     *)
(* resets `total`, and every childAdded event adds the subtotal of its     *)
(* line to it and writes the label.                                        *)
(*                                                                         *)
(* Abstractions.  A record of the cart is its subtotal.  See PolledList.   *)
(***************************************************************************)
EXTENDS Integers, Sequences, FiniteSets, SequencesExt

CONSTANTS
    Users, Products,
    SubTotals,      \* subtotals of cart records
    NoUser, Prompt,
    MaxObservers, MaxQueue, MaxChanges  \* bounds, see Listener

ASSUME CartScreenAssumption ==
    /\ SubTotals \subseteq Nat \ {0}
    /\ NoUser \notin Users /\ IsFiniteSet(Products)
    /\ Prompt \in BOOLEAN
    /\ MaxObservers \in Nat \ {0} /\ MaxQueue \in Nat /\ MaxChanges \in Nat

VARIABLES cached, observers, registering, mainQueue, changes, uid, products, shown, clean
VARIABLES
    total,     \* the running subtotal
    label      \* the subtotal on the screen

Absent == 0
P == INSTANCE PolledList WITH Vals <- SubTotals

listVars == <<cached, observers, registering, mainQueue, changes, uid, products, shown, clean>>
vars == <<listVars, total, label>>

TypeOK == P!TypeOK /\ total \in Nat /\ label \in Nat

Init == P!Init /\ total = 0 /\ label = 0

\* The timer; fetchCartProducts resets the total, the mutant forgets it.
KeepTotal == UNCHANGED total
ResetTotal == total' = 0
Tick == P!Tick /\ ResetTotal /\ UNCHANGED label

\* The callback of one event; the mutant of the sum has the wrong sign.
TotalWithout(val) == total - val
TotalWith(val) == total + val
childAdded ==
    /\ P!childAdded
    /\ total' = TotalWith(P!K!NextEvent.val)
    /\ label' = total'

\* The delete button of a cell removes the record of the product the cell was
\* configured with, from the cart of whoever is signed in.
removeItem(i) ==
    /\ uid # NoUser
    /\ P!RecordChange(uid, shown[i].key, Absent)
    /\ UNCHANGED <<total, label>>

\* Anything else that changes a cart: the detail screen, the payment screen,
\* another device, the answer of the server.
CartChange(u, p, s) == P!RecordChange(u, p, s) /\ UNCHANGED <<total, label>>

Revoke(u) == P!Revoke(u) /\ UNCHANGED <<total, label>>
SignOut == P!SignOut /\ UNCHANGED <<total, label>>
SignIn(u) == P!SignIn(u) /\ UNCHANGED <<total, label>>
Register == P!Register /\ UNCHANGED <<total, label>>

Next ==
    \/ Tick \/ childAdded \/ Register \/ SignOut
    \/ \E i \in DOMAIN shown : removeItem(i)
    \/ \E u \in Users :
        \/ \E p \in Products, s \in SubTotals \cup {Absent} : CartChange(u, p, s)
        \/ Revoke(u) \/ SignIn(u)

Spec == Init /\ [][Next]_vars

-----------------------------------------------------------------------------
(* Properties. *)

SumOf(list) == FoldLeft(LAMBDA sum, line : sum + line.val, 0, list)

\* Whatever the interleaving of ticks, late events and deletions, the running
\* total is the sum of the list, so whenever BuyButton hands the two to the
\* shipping screen (prepare, CartViewController.swift:66-67) they agree, and the
\* label is the sum of the lines on the screen.
SubtotalMatches ==
    /\ total = SumOf(products)
    /\ label = SumOf(shown)

\* The rows index the list and a clean list is the cart, see PolledList; here
\* with a timer that does not wait for what it started before.
ShownOrCleared == P!ShownOrCleared
CleanListExact == P!CleanListExact
=============================================================================

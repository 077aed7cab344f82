----------------------------- MODULE PolledList -----------------------------
(***************************************************************************)
(* The list of the favourites screen, and the part of the cart screen that *)
(* is the same (CartScreen adds its total).  A timer that is never         *)
(* invalidated clears the list every second and observes the records of    *)
(* the signed-in account once more; every childAdded event appends a line  *)
(* and redraws.  The observers of earlier seconds, and those of an account *)
(* that has signed out, stay registered.                                   *)
(*                                                                         *)
(* Abstractions.  The screen is never deallocated (its timer's closure     *)
(* holds it), so its timer is not tied to its being visible.  Prompt says  *)
(* whether the main thread and the SDK finish what a tick started before   *)
(* the next one.                                                           *)
(***************************************************************************)
EXTENDS Integers, Sequences, FiniteSets, SequencesExt

CONSTANTS
    Users, Products,
    Vals, Absent,   \* what a record holds, and no record
    NoUser, Prompt,
    MaxObservers, MaxQueue, MaxChanges  \* bounds, see Listener

ASSUME PolledListAssumption ==
    /\ NoUser \notin Users /\ IsFiniteSet(Products)
    /\ Absent \notin Vals
    /\ Prompt \in BOOLEAN
    /\ MaxObservers \in Nat \ {0} /\ MaxQueue \in Nat /\ MaxChanges \in Nat

VARIABLES cached, observers, registering, mainQueue, changes
VARIABLES
    uid,       \* the signed-in account
    products,  \* the list
    shown,     \* the list as the collection view last reloaded it
    \* history, read by properties only
    clean      \* nothing but the last tick's observer has touched the list

K == INSTANCE Listener WITH Refs <- Users, Keys <- Products

listenerVars == <<cached, observers, registering, mainQueue, changes>>
vars == <<listenerVars, uid, products, shown, clean>>

Line == [ref : Users, key : Products, val : Vals]

TypeOK ==
    /\ K!TypeOK
    /\ uid \in Users \cup {NoUser}
    /\ products \in Seq(Line) /\ shown \in Seq(Line)
    /\ clean \in BOOLEAN

Init ==
    /\ K!Init
    /\ uid \in Users \cup {NoUser}
    /\ products = <<>> /\ shown = <<>>
    /\ clean = FALSE

\* observe on the records of the account, with a mutant that does it only once.
ObserveOnce ==
    IF uid # NoUser /\ observers[uid] = 0 THEN K!Observe(uid) ELSE UNCHANGED listenerVars
fetchFavProducts == IF uid # NoUser THEN K!Observe(uid) ELSE UNCHANGED listenerVars

\* The timer.  The mutant adds to the list it finds.
TickKeepsList ==
    /\ Prompt => K!Quiet
    /\ fetchFavProducts
    /\ clean' = K!Quiet
    /\ UNCHANGED <<uid, products, shown>>
Tick ==
    /\ Prompt => K!Quiet
    /\ products' = <<>>
    /\ fetchFavProducts
    /\ clean' = K!Quiet
    /\ UNCHANGED <<uid, shown>>

\* The mutant forgets to redraw.
NoReload == UNCHANGED shown
reloadData == shown' = products'

\* The line made of an event.
newProduct(event) == event

\* The callback of one event.
childAdded ==
    /\ K!Deliver
    /\ products' = Append(products, newProduct(K!NextEvent))
    /\ reloadData
    /\ UNCHANGED <<uid, clean>>

\* What changes the records: the other screens, another device, the server.
RecordChange(u, p, v) ==
    /\ K!Change(u, p, v)
    /\ clean' = FALSE
    /\ UNCHANGED <<uid, products, shown>>

\* The server revokes the listen of an account that has signed out, and perhaps
\* in again since.
Revoke(u) ==
    /\ K!Revoke(u)
    /\ clean' = FALSE
    /\ UNCHANGED <<uid, products, shown>>

\* Sign Out of the menu, and the sign-in screen.
SignOut ==
    /\ uid # NoUser
    /\ uid' = NoUser
    /\ clean' = FALSE
    /\ UNCHANGED <<listenerVars, products, shown>>

SignIn(u) ==
    /\ uid = NoUser
    /\ uid' = u
    /\ clean' = FALSE
    /\ UNCHANGED <<listenerVars, products, shown>>

Register == K!AddEventRegistration /\ UNCHANGED <<uid, products, shown, clean>>

Next ==
    \/ Tick \/ childAdded \/ Register \/ SignOut
    \/ \E u \in Users :
        \/ \E p \in Products, v \in Vals \cup {Absent} : RecordChange(u, p, v)
        \/ Revoke(u) \/ SignIn(u)

Spec == Init /\ [][Next]_vars
FairSpec == Spec /\ WF_vars(Tick) /\ WF_vars(childAdded) /\ WF_vars(Register)

-----------------------------------------------------------------------------
(* Properties. *)

\* A row of the collection view is read from `products` by its index when it
\* is drawn (cellForItemAt), tapped (didSelectItemAt) or reloaded after a tap
\* on its heart (productFavorited): it is the row of the last reload, in every
\* state but one, a tick that has emptied the list and not been answered.
ShownOrCleared == shown = products \/ products = <<>>

\* The records of u.
Records(u) ==
    IF u = NoUser THEN {}
    ELSE {K!ChildAdded(u, p, cached[u][p]) : p \in K!Children(u)}

Lists(list, u) == ToSet(list) = Records(u) /\ Len(list) = Cardinality(Records(u))

\* A tick that finds nothing under way, followed by no change of the records
\* and of the account, builds exactly the list of the signed-in account: no
\* duplicate and no line of another account, however many observers the
\* earlier ticks and accounts have left behind.
CleanListExact == clean /\ K!Quiet => Lists(products, uid)

\* If the account stays signed in and the main thread keeps up with the timer,
\* the list keeps coming back to the records, whatever wrong list it held.
ListRecovers == \A u \in Users \cup {NoUser} : <>[](uid = u) => []<>Lists(products, u)

\* The same of the screen, but only for an account that has records: the last
\* record's removal causes no event, so nothing reloads the collection view,
\* and the line stays on the screen.
ScreenRecovers ==
    \A u \in Users : <>[](uid = u) => []<>(Lists(shown, u) \/ Records(u) = {})
=============================================================================

----------------------------- MODULE Favourites -----------------------------
(***************************************************************************)
(* The favourites of the signed-in account: the global UserService, the    *)
(* hearts of the product grids and the heart of the detail screen.  The    *)
(* service observes favourite/<uid> again each time a grid is loaded, and  *)
(* the observers survive logoutUser; taps on a heart change the service's  *)
(* list at once and the database later.                                    *)
(*                                                                         *)
(* Abstractions.  The service's array is only ever searched, appended to   *)
(* and purged of all copies of a product, so it is the set of its          *)
(* products.  The three grids show disjoint categories and share `hearts`. *)
(* A stored favourite is a child with the one value Stored.  A guest's tap *)
(* on a grid heart unwraps a nil uid and ends the program; it is left out. *)
(***************************************************************************)
EXTENDS Integers, Sequences, FiniteSets, SequencesExt

CONSTANTS
    Users, Products, NoUser,
    DefaultProduct,                     \* the product a detail screen is created with
    MaxObservers, MaxQueue, MaxChanges  \* bounds, see Listener

ASSUME FavouritesAssumption ==
    /\ NoUser \notin Users
    /\ DefaultProduct \in Products
    /\ IsFiniteSet(Products)
    /\ MaxObservers \in Nat \ {0} /\ MaxQueue \in Nat /\ MaxChanges \in Nat

VARIABLES cached, observers, registering, mainQueue, changes
VARIABLES
    uid,         \* the signed-in account
    favourites,  \* UserService.favourites
    hearts,      \* which cells of the grid were drawn with a filled heart
    detail,      \* the detail screen
    \* history, read by properties only
    loaded,      \* a grid observes since the account signed in
    disturbed    \* something happened that FavouritesExact excepts

Stored == "stored"
Absent == "absent"
K == INSTANCE Listener WITH Refs <- Users, Keys <- Products, Vals <- {Stored}

listenerVars == <<cached, observers, registering, mainQueue, changes>>
history == <<loaded, disturbed>>
vars == <<listenerVars, uid, favourites, hearts, detail, history>>

\* The detail screen: its product, the button's isSelected and its image.
Closed == [on |-> {}, selected |-> FALSE, filled |-> FALSE]

TypeOK ==
    /\ K!TypeOK
    /\ uid \in Users \cup {NoUser}
    /\ favourites \subseteq Products
    /\ hearts \in [Products -> BOOLEAN]
    /\ detail \in [on : SUBSET Products, selected : BOOLEAN, filled : BOOLEAN]
    /\ loaded \in BOOLEAN /\ disturbed \in BOOLEAN

Init ==
    /\ K!Init
    /\ uid \in Users \cup {NoUser}
    /\ favourites = {}
    /\ hearts = [p \in Products |-> FALSE]
    /\ detail = Closed
    /\ loaded = FALSE /\ disturbed = FALSE

\* setValue or removeValue on favourite/<u>/<p>; the mutant stores the uid.
WriteUid(u, p, v) == IF v = Absent THEN UNCHANGED listenerVars ELSE K!Change(u, p, u)
Write(u, p, v) ==
    IF cached[u][p] = v THEN UNCHANGED listenerVars ELSE K!Change(u, p, v)

-----------------------------------------------------------------------------
(* UserService. *)

\* getCurrentUser, from viewDidLoad of a grid; the mutant observes only once.
ObserveOnce ==
    IF uid = NoUser \/ observers[uid] > 0 THEN UNCHANGED listenerVars ELSE K!Observe(uid)
getCurrentUser ==
    IF uid = NoUser THEN UNCHANGED listenerVars ELSE K!Observe(uid)

\* The callback of the favourites' observers.
childAdded ==
    /\ K!Deliver
    /\ favourites' = favourites \cup {K!NextEvent.key}
    /\ UNCHANGED <<uid, hearts, detail, history>>

\* The mutant leaves a removed favourite in the list.
NeverPurged(p) ==
    /\ favourites' = favourites \cup {p}
    /\ Write(uid, p, IF p \in favourites THEN Absent ELSE Stored)
favoriteSelected(p) ==
    IF p \in favourites
    THEN favourites' = favourites \ {p} /\ Write(uid, p, Absent)
    ELSE favourites' = favourites \cup {p} /\ Write(uid, p, Stored)

\* Sign Out of the menu: the observers stay.
logoutUser ==
    /\ uid # NoUser /\ detail = Closed
    /\ uid' = NoUser
    /\ favourites' = {}
    /\ loaded' = FALSE
    /\ disturbed' = (disturbed \/ ~K!Quiet)
    /\ UNCHANGED <<listenerVars, hearts, detail>>

-----------------------------------------------------------------------------
(* The screens. *)

\* A grid is created: its cells are drawn later, as the products arrive.
LoadGrid ==
    /\ detail = Closed
    /\ getCurrentUser
    /\ hearts' = [p \in Products |-> FALSE]
    /\ loaded' = (uid # NoUser)
    /\ UNCHANGED <<uid, favourites, detail, disturbed>>

\* configureCell, on a catalogue event or on scrolling.
configureCell(p) ==
    /\ hearts' = [hearts EXCEPT ![p] = p \in favourites]
    /\ UNCHANGED <<listenerVars, uid, favourites, detail, history>>

\* reloadItems of the cell of p; the mutant draws it before the service changes.
ReloadedTooEarly(p) == hearts' = [hearts EXCEPT ![p] = p \in favourites]
reloadItems(p) == hearts' = [hearts EXCEPT ![p] = p \in favourites']

\* A tap on the heart of a cell.
productFavorited(p) ==
    /\ uid # NoUser /\ detail = Closed
    /\ favoriteSelected(p)
    /\ reloadItems(p)
    /\ disturbed' = (disturbed \/ ~K!Quiet \/ ~loaded)
    /\ UNCHANGED <<uid, detail, loaded>>

\* A product is opened from a grid, which hands it over, or from the
\* favourites screen, whose prepare leaves the default product in place.
OpenDetail(p, handed) ==
    /\ detail = Closed
    /\ LET product == IF handed THEN p ELSE DefaultProduct
           is == product \in favourites
       IN  detail' = [on |-> {p}, selected |-> is, filled |-> is]
    /\ UNCHANGED <<listenerVars, uid, favourites, hearts, loaded>>

OpenFromGrid(p) == OpenDetail(p, TRUE) /\ UNCHANGED disturbed

\* The favourites screen lists the stored favourites of the account, and at
\* times others, see PolledList.
OpenFromFavourites(p) ==
    /\ uid # NoUser
    /\ OpenDetail(p, FALSE)
    /\ disturbed' = (disturbed \/ cached[uid][p] = Absent)

\* The product is stored when the heart becomes unselected; the mutant stores
\* only what the service's list already holds.
StoreKnown(p) ==
    IF detail.selected /\ uid # NoUser /\ p \in favourites
    THEN Write(uid, p, Stored) ELSE UNCHANGED listenerVars
storeFavourite(p) ==
    IF detail.selected /\ uid # NoUser THEN Write(uid, p, Stored) ELSE UNCHANGED listenerVars

\* The heart of the detail screen.
FavouriteButton ==
    \E p \in detail.on :
        /\ detail' = [detail EXCEPT !.selected = ~@, !.filled = detail.selected]
        /\ storeFavourite(p)
        /\ UNCHANGED <<uid, favourites, hearts, history>>

CloseDetail ==
    /\ detail # Closed
    /\ detail' = Closed
    /\ UNCHANGED <<listenerVars, uid, favourites, hearts, history>>

SignIn(u) ==
    /\ uid = NoUser /\ detail = Closed
    /\ uid' = u
    /\ disturbed' = (disturbed \/ favourites # {} \/ ~K!Quiet)
    /\ UNCHANGED <<listenerVars, favourites, hearts, detail, loaded>>

\* News of the server: what another device of the account stored or removed,
\* what the SDK had not loaded yet, a put that was refused.
ServerNews(u, p, v) ==
    /\ K!Change(u, p, v)
    /\ disturbed' = (disturbed \/ u # uid \/ v = Absent)
    /\ UNCHANGED <<uid, favourites, hearts, detail, loaded>>

\* The server revokes the listen of an account that signed out; when the news
\* arrives the account may be signed in again, and its list is not fed any more
\* until the next grid observes.
Revoke(u) ==
    /\ K!Revoke(u)
    /\ loaded' = (loaded /\ u # uid)
    /\ disturbed' = (disturbed \/ u = uid)
    /\ UNCHANGED <<uid, favourites, hearts, detail>>

Register ==
    /\ K!AddEventRegistration
    /\ UNCHANGED <<uid, favourites, hearts, detail, history>>

Next ==
    \/ childAdded \/ logoutUser \/ LoadGrid \/ FavouriteButton \/ CloseDetail \/ Register
    \/ \E p \in Products :
        \/ configureCell(p) \/ productFavorited(p)
        \/ OpenFromGrid(p) \/ OpenFromFavourites(p)
        \/ \E u \in Users, v \in {Stored, Absent} : ServerNews(u, p, v)
    \/ \E u \in Users : SignIn(u) \/ Revoke(u)

Spec == Init /\ [][Next]_vars
FairSpec == Spec /\ WF_vars(childAdded) /\ WF_vars(Register)

-----------------------------------------------------------------------------
(* Properties. *)

StoredFavourites == IF uid = NoUser THEN {} ELSE K!Children(uid)

\* No stored favourite is missing from the service's list once the events of
\* the account have arrived, whatever taps, other devices and earlier
\* accounts did to the list in between.  (The list may hold more: a removal
\* by another device is not heard of, a late event brings back what a tap
\* removed, and observers of an earlier account go on appending.)
NoneMissed == loaded /\ K!Quiet => StoredFavourites \subseteq favourites

\* The list is exact as long as nothing happened that the app does not
\* handle: a removal by the server or another device, a change of another
\* account that is still observed, a tap, a sign-out or a sign-in while
\* events are on their way, a revoked listen of the account itself, a tap on a
\* line of the favourites screen that is stored no longer.
FavouritesExact == loaded /\ ~disturbed /\ K!Quiet => favourites = StoredFavourites

\* In a grid loaded for the account a filled heart never overstates: its
\* product is in the list, although the cell may have been drawn long ago.
HeartNeverOverstates == loaded => \A p \in Products : hearts[p] => p \in favourites

\* A filled heart on the detail screen of a signed-in account stands for a
\* stored favourite.  (An empty one says nothing: the first tap on the heart
\* of a product that is not a favourite stores nothing.)
FilledMeansStored ==
    ~disturbed /\ K!Quiet /\ loaded /\ detail.filled => detail.on \subseteq StoredFavourites

\* A favourite that stays stored gets into the list for good.
FavouriteArrives ==
    \A u \in Users, p \in Products :
        <>[](uid = u /\ loaded /\ cached[u][p] = Stored) => <>[](p \in favourites)
=============================================================================

----------------------------- MODULE Catalogue -----------------------------
(***************************************************************************)
(* A product grid and where its rows go.  The grid observes the catalogue  *)
(* once, appends a row for each product of its category that appears, and  *)
(* never hears of an edit or a removal.  A row's price travels on: into    *)
(* the detail screen, from there into the cart and into the favourites,    *)
(* and from the favourites screen back into the detail screen.  Products   *)
(* are equal when their ids are, and a record without a productId has the  *)
(* id 0, so several rows may be one product to the favourites, and a tap   *)
(* on a heart redraws the first of them only.                              *)
(*                                                                         *)
(* Abstractions.  One grid: the three differ in the category, and each has *)
(* its own rows and observer.  One account, signed in; the stored          *)
(* favourites are what the device sees, and the rows of the favourites     *)
(* screen are the subject of PolledList.  A product is its id and price.   *)
(* The quantity in the cart is in Purchase.  Only the catalogue's shop     *)
(* edits the catalogue; that is external.                                  *)
(***************************************************************************)
EXTENDS Integers, Sequences, FiniteSets, SequencesExt

CONSTANTS
    Records,      \* children of the catalogue
    Id,           \* productId of each, 0 without one
    Prices,
    Absent,
    MaxQueue, MaxChanges  \* bounds, see Listener

ASSUME CatalogueAssumption ==
    /\ IsFiniteSet(Records)
    /\ Id \in [Records -> Nat]
    /\ Prices \subseteq Nat
    /\ MaxQueue \in Nat /\ MaxChanges \in Nat

VARIABLES cached, observers, registering, mainQueue, changes
VARIABLES
    loaded,      \* the grid's viewDidLoad has run
    products,    \* its rows
    hearts,      \* which of its cells were drawn with a filled heart
    fields,      \* its name, id, price...: the product last drawn or selected
    favourites,  \* ids in UserService.favourites
    stored,      \* price in the favourite record of each id
    detail,      \* product of the detail screen
    cart,        \* price in the cart record of each id
    \* history, read by properties only
    was,         \* products as the catalogue has had them
    edited       \* records the shop has edited or removed

Shop == "Products"
Categories == {"mine", "other"}
K == INSTANCE Listener WITH
        Refs <- {Shop}, Keys <- Records, Vals <- [category : Categories, price : Prices],
        MaxObservers <- 1

listenerVars == <<cached, observers, registering, mainQueue, changes>>
gridVars == <<loaded, products, hearts, fields>>
favouriteVars == <<favourites, stored>>
vars == <<listenerVars, gridVars, favouriteVars, detail, cart, was, edited>>

Ids == {Id[k] : k \in Records}
Product == [id : Ids, price : Prices]
ProductOf(k, v) == [id |-> Id[k], price |-> v.price]
PriceList == [Ids -> Prices \cup {Absent}]
None == <<>>

TypeOK ==
    /\ K!TypeOK
    /\ loaded \in BOOLEAN
    /\ products \in Seq(Product)
    /\ hearts \in [DOMAIN products -> BOOLEAN]
    /\ fields \in Product \cup {None} /\ detail \in Product \cup {None}
    /\ favourites \subseteq Ids
    /\ stored \in PriceList /\ cart \in PriceList
    /\ was \subseteq Product /\ edited \subseteq Records

Init ==
    /\ K!Init
    /\ loaded = FALSE
    /\ products = <<>> /\ hearts = <<>> /\ fields = None
    /\ favourites = {}
    /\ stored = [id \in Ids |-> Absent] /\ cart = [id \in Ids |-> Absent]
    /\ detail = None
    /\ was = {} /\ edited = {}

-----------------------------------------------------------------------------
(* The grid. *)

\* viewDidLoad, fetchProducts
LoadGrid ==
    /\ ~loaded
    /\ loaded' = TRUE
    /\ K!Observe(Shop)
    /\ UNCHANGED <<products, hearts, fields, favouriteVars, detail, cart, was, edited>>

\* The rows an event adds; the mutant does not look at the category.
AnyRow(event) == <<ProductOf(event.key, event.val)>>
NewRow(event) ==
    IF event.val.category = "mine" THEN <<ProductOf(event.key, event.val)>> ELSE <<>>

\* reloadData draws the cells of all rows; cellForItemAt leaves the product of
\* the cell it has drawn last in the fields (not so in the flower grid).
childAdded ==
    /\ K!Deliver
    /\ products' = products \o NewRow(K!NextEvent)
    /\ hearts' = [i \in DOMAIN products' |-> products'[i].id \in favourites]
    /\ \/ products' = <<>> /\ UNCHANGED fields
       \/ \E i \in DOMAIN products' : fields' = products'[i]
    /\ UNCHANGED <<loaded, favouriteVars, detail, cart, was, edited>>

\* A cell is drawn again on scrolling.
configureCell(i) ==
    /\ hearts' = [hearts EXCEPT ![i] = products[i].id \in favourites]
    /\ fields' = products[i]
    /\ UNCHANGED <<listenerVars, loaded, products, favouriteVars, detail, cart, was, edited>>

FirstIndex(id) == CHOOSE i \in DOMAIN products :
    products[i].id = id /\ \A j \in 1..(i - 1) : products[j].id # id

\* productFavorited draws the first cell of the product again; the mutant draws
\* the cell that was tapped.
TappedCell(i) == i
ReloadedCell(i) == FirstIndex(products[i].id)

favoriteSelected(p) ==
    IF p.id \in favourites
    THEN favourites' = favourites \ {p.id} /\ stored' = [stored EXCEPT ![p.id] = Absent]
    ELSE favourites' = favourites \cup {p.id} /\ stored' = [stored EXCEPT ![p.id] = p.price]

\* A tap on the heart of a cell.
productFavorited(i) ==
    /\ detail = None
    /\ favoriteSelected(products[i])
    /\ LET r == ReloadedCell(i)
       IN  /\ hearts' = [hearts EXCEPT ![r] = products[r].id \in favourites']
           /\ fields' = products[r]
    /\ UNCHANGED <<listenerVars, loaded, products, detail, cart, was, edited>>

\* What prepare hands over after a tap on row i: didSelectItemAt has just set
\* the fields.  The mutant sets the id only.
SelectedId(i) == [fields EXCEPT !.id = products[i].id]
Selected(i) == products[i]

didSelectItemAt(i) ==
    /\ detail = None
    /\ fields' = Selected(i)
    /\ detail' = fields'
    /\ UNCHANGED <<listenerVars, loaded, products, hearts, favouriteVars, cart, was, edited>>

-----------------------------------------------------------------------------
(* Where the rows go. *)

\* A tap on a row of the favourites screen.
OpenFavourite(id) ==
    /\ detail = None /\ stored[id] # Absent
    /\ detail' = [id |-> id, price |-> stored[id]]
    /\ UNCHANGED <<listenerVars, gridVars, favouriteVars, cart, was, edited>>

\* The heart of the detail screen stores the product; the service's list gets
\* it by FavouriteHeard.
FavouriteButton ==
    /\ detail # None
    /\ stored' = [stored EXCEPT ![detail.id] = detail.price]
    /\ UNCHANGED <<listenerVars, gridVars, favourites, detail, cart, was, edited>>

\* The callback of the service for a favourite that has appeared.
FavouriteHeard(id) ==
    /\ stored[id] # Absent
    /\ favourites' = favourites \cup {id}
    /\ UNCHANGED <<listenerVars, gridVars, stored, detail, cart, was, edited>>

CartButton ==
    /\ detail # None
    /\ cart' = [cart EXCEPT ![detail.id] = detail.price]
    /\ UNCHANGED <<listenerVars, gridVars, favouriteVars, detail, was, edited>>

CloseDetail ==
    /\ detail # None
    /\ detail' = None
    /\ UNCHANGED <<listenerVars, gridVars, favouriteVars, cart, was, edited>>

-----------------------------------------------------------------------------
(* The shop and the client library. *)

EditRecord(k, v) ==
    /\ K!Change(Shop, k, v)
    /\ was' = IF v = Absent THEN was ELSE was \cup {ProductOf(k, v)}
    /\ edited' = IF cached[Shop][k] = Absent THEN edited ELSE edited \cup {k}
    /\ UNCHANGED <<gridVars, favouriteVars, detail, cart>>

Register ==
    /\ K!AddEventRegistration
    /\ UNCHANGED <<gridVars, favouriteVars, detail, cart, was, edited>>

Next ==
    \/ LoadGrid \/ childAdded \/ FavouriteButton \/ CartButton \/ CloseDetail \/ Register
    \/ \E i \in DOMAIN products : configureCell(i) \/ productFavorited(i) \/ didSelectItemAt(i)
    \/ \E id \in Ids : OpenFavourite(id) \/ FavouriteHeard(id)
    \/ \E k \in Records, v \in [category : Categories, price : Prices] \cup {Absent} : EditRecord(k, v)

Spec == Init /\ [][Next]_vars

-----------------------------------------------------------------------------
(* Properties. *)

Mine == {k \in Records : cached[Shop][k] # Absent /\ cached[Shop][k].category = "mine"}
Rows(p) == {i \in DOMAIN products : products[i] = p}

\* Once the events have arrived, each product of the category that the shop has
\* not touched since it was listed has a row of its own, with its price, and
\* while the shop only adds products there is no other row.  (A product that
\* is edited keeps its old row, one that is moved into the category gets none,
\* one that is removed and put back gets a second.)
RowsExact ==
    loaded /\ K!Quiet =>
        LET kept == Mine \ edited
            Same(k) == {l \in kept : ProductOf(l, cached[Shop][l]) = ProductOf(k, cached[Shop][k])}
        IN  /\ \A k \in kept :
                  Cardinality(Rows(ProductOf(k, cached[Shop][k]))) >= Cardinality(Same(k))
            /\ edited = {} => Len(products) = Cardinality(Mine)

\* The first row of a product never shows a filled heart that the list does not
\* bear out, whichever of the rows of the product is tapped.  (A later row
\* may, until it is drawn again.)
FirstHeartHonest ==
    \A i \in DOMAIN products :
        hearts[i] /\ i = FirstIndex(products[i].id) => products[i].id \in favourites

\* No price is made up on the way: what the detail screen shows, the favourites
\* keep and the cart is charged is a price the catalogue has had for the very
\* product, though maybe no longer, never that of another product that was
\* drawn in between.
PricesWereReal ==
    LET Listed(list) == {[id |-> id, price |-> list[id]] : id \in {i \in Ids : list[i] # Absent}}
    IN  Listed(cart) \cup Listed(stored) \cup ({detail} \ {None}) \subseteq was
=============================================================================

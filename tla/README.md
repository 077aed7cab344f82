# FlowerGiftApp in TLA+

FlowerGiftApp is an iOS shop for flowers and gifts. It has no server of its own:
every screen talks to the Firebase Realtime Database through the client library
under `Pods/FirebaseDatabase`, and to Firebase Authentication. The modules here
model the app's screens together with the parts of the client library they rely
on, because what can go wrong in the app lies between the two: writes that wait
for a connection, events that arrive after the state they belong to is gone,
observers that are never removed.

Paths below are relative to `src/FlowerGiftApp/FlowerGiftApp/`; `SDK/` stands for
`src/FlowerGiftApp/Pods/FirebaseDatabase/FirebaseDatabase/Sources/`.

## The system

| Part | State | Operations | What makes it correct |
|---|---|---|---|
| Write pipeline (`SDK/Core/FPersistentConnection.m`, `FRepo.m`) | `outstandingPuts`, `putCounter`, `connectionState`, `authToken` | `set`, `putInternal`, `sendPut` and its callback, `restoreState`, `onDisconnect`, `refreshAuthToken` | puts of a device take effect in order; sending them again does no lasting harm; none waits forever |
| Child listeners (`SDK/Core/FSyncTree.m`, `FSyncPoint.m`, `View/`) | views with their registrations and cached children; the queue of callbacks | `addEventRegistration`, initial events, events of changes, `onListenRevoked` | an observer hears of each child that appears while it is registered |
| Sync tree (`SDK/Core/FSyncTree.m`, `FWriteTree.m`, `View/FViewProcessor.m`, `FPersistentConnection.m`) | `allWrites`, `visibleWrites`, the server and the event snapshot of a view, `unackedListensCount`, `putsToAck` | user and server overwrites, acknowledgement and reversal of a write, complete, resent and refused listens, answers that wait for a listen | the view is the last news of the server with the pending writes on top; own writes do not flicker; no news is lost |
| Cart screen (`Controller/CartViewController.swift`) | `products`, `total`, the collection view, a timer | tick, `fetchCartProducts` and its callback, `removeItem`, `BuyButton` | the list is the cart; the total is the sum of the list; the rows on screen index the list |
| Shipping and payment (`ShippingViewController.swift`, `PaymentViewController.swift`) | the list handed over | `Button`: order line and removal per product, alert, segue home | no product leaves the cart without its order line; one tap, one order |
| Product detail (`ProductDetailViewController.swift`) | `count`, `product`, the heart | cart button, heart, stepper | a filled heart is a stored favourite; quantities stay in range |
| `UserService` (`Services/UserServices.swift`) | `favourites`, listeners that are never removed | `getCurrentUser`, `favoriteSelected`, `logoutUser` | the list is the stored favourites of the signed-in account |
| Grids (`Gift-`, `Flower-`, `CustomizeViewController.swift`, `View/ProductCell.swift`) | `products`, the cells | load, filter by category, draw a cell, tap on a heart, open a product | a row is a product of the category; a heart does not claim what the list does not hold; no price is made up between grid, detail screen, favourites and cart |
| Favourites screen (`FavouriteViewController.swift`) | a second list driven by a timer | as the cart screen, without deletion | as the cart screen |
| Account (`SignUp-`, `SignIn-`, `UserViewController.swift`, `MenuViewController.swift`) | the signed-in user, `users/<uid>`, form fields | sign-up, sign-in, profile load and update, sign-out | the profile and the account agree |
| Orders screen (`OrdersViewController.swift`) | one constant record | a value observer that prints | - |

**How they interact.** Screens write with `setValue`/`removeValue` (never waiting
for the answer) and read through `observe(.childAdded)`. A write is visible to the
device's own observers at once and to the others when the server has it. Screens
hand values to each other in `prepare(for:)`. `UserService` is a global. The main
thread runs handlers, timers and callbacks one at a time; the library has a queue
of its own; so the steps that interleave are: one handler, one callback, one
registration, one message of the connection.

**What is hard.** The write pipeline keeps unanswered puts and sends them again
after a lost connection, in memory only. The payment screen writes two things per
product that belong together. Events queued before a timer tick, a tap or a
sign-out arrive after it. No observer is ever removed. `PROJECT.json` lists each
hazard at its line with the properties that would notice it.

## Modules

| Module | Models | State and actions |
|---|---|---|
| `WriteQueue` | the write pipeline of each device, the connection, the server | `outstandingPuts`, `putCounter`, `connected`, `signedIn` as in the code; `wire` and `responses` for the connection; `store` for the server. `Issue` is `set` with `putInternal`; `Connect` is `restoreAuth` and `restoreState`; `Answer` is the callback of `sendPut`; `Disconnect` is `onDisconnect`; `Kill` the death of the process |
| `SyncTree` | how the client of one device computes what its observers see of a location | an instance `Q` of `WriteQueue`; `tree` holds the write tree and the view (`applyUserOverwrite`, `applyServerOverwrite`, `ackUserWrite`, `revertUserWrite`, `applyListenComplete` are operators on it, named as in the code); `authenticating`, `unackedListens`, `putsToAck`, `acking` as in `FPersistentConnection`, `staleListens` for the listens under way whose observers are gone; `inbox`, `listensSent`, `serving` for the connection and the server. `restoreAuth`, `Authenticated` and `AuthFailed` are the steps of `ConnectionStateAuthenticating`. One action per message, call and step of the library's queue. It implements `Listener!Spec` (`ImplementsListener`) |
| `Ledger` | nothing of the code: what cart and orders promise the owner | `Choose`, `Record`, `Excuse`, `Remove` |
| `Checkout` | detail, cart, shipping and payment screens as writers | an instance `Q` of `WriteQueue`, and per device the screen on top, the list handed over and the lines the cart screen knows. Every handler issues the batch of puts the code issues |
| `Listener` | `childAdded` observers, as the screens may rely on them | `cached` (children the library shows), `observers`, `registering`, `mainQueue`. The screens' modules use its operations one by one; `Spec`, with `Update` and `Forget`, is the promise that `SyncTree` is shown to keep |
| `PolledList` | the list of the favourites screen, and what the cart screen has in common with it | an instance `K` of `Listener`; `products` and `shown` (the rows of the last reload); `Tick` is the timer, `childAdded` the callback; `RecordChange`, `Revoke`, `SignOut`, `SignIn` are what other screens, devices and the menu do |
| `CartScreen` | the cart screen | an instance `P` of `PolledList`, with `total` and `label`; `removeItem` is the delete button of a cell |
| `Purchase` | stepper, cart screen, shipping and payment screens as the main thread sees them | an instance `C` of `CartScreen`, the screen on top, the stepper, what was handed over and what was ordered; `BuyButton` is `prepare`, `Button` the payment with its alert |
| `Catalogue` | a product grid and where its rows go | an instance `K` of `Listener` for the catalogue; rows, hearts, the fields `prepare` reads, `UserService.favourites`, the prices in favourites and cart |
| `Favourites` | `UserService`, hearts of grids and detail screen | an instance `K` of `Listener`; one action per handler |
| `Account` | sign-up, sign-in, sign-out and profile screens, `Auth.currentUser` and the authentication service | an instance `Q` of `WriteQueue` for the records under `users/`; `accounts` for the service; `user`, `mail`, `session` for the current `FIRUser` object and its cached email; `updates` and `creates` for the calls without an answer. `createUser`, `Complete` and `Callback` are the three steps of a sign-up; `updateButton` is the Update handler; `executeUserUpdate` answers the oldest update of a `FIRUser` object (its serial task queue): granted, refused or lost |
| `WriteQueueProofs`, `CheckoutProofs`, `CartScreenProofs`, `PurchaseProofs`, `CatalogueProofs`, `FavouritesProofs`, `AccountProofs`, `SyncTreeProofs` | - | theorems; see below |
| `MC*` | instances for TLC | definitions of constants and symmetry sets |

In each module the comment at the head lists the abstractions. The ones that matter:

- A request on the wire is a member of a set and the server takes the least index,
  which is the order of one connection. A request that was in flight when the
  connection was cut is dropped; the case "processed, answer lost" is the same
  steps in another order.
- Authentication messages travel with the puts, so each request carries whether it
  was sent under a token. Security rules are not in the repository; which paths a
  signed-out client may write is a constant (`Public`, `SecuredCart`,
  `SecuredOrders`).
- `connected` of `WriteQueue` is `ConnectionStateConnected`, in which puts are sent. The
  state before it, in which the token is checked, is no state of a put; `SyncTree` has it
  (`authenticating`), because the SDK's `connected` (`FPersistentConnection.m:328-331`), by
  which listens are sent, is true there.
- `Checkout` hands over any sequence of lines the cart screen has been told of.
  What lists the screen really builds is the subject of `PolledList` and `CartScreen`,
  and `Purchase` composes them with the payment screen, without the pipeline.
- `SyncTree` has one location, which is what a screen observes, and the default query, so
  one view. The server is external: it sends the news of a put before its answer, and
  refuses or revokes a listen only when nobody is signed in. The answers that waited for
  a listen are used one by one (`ackPuts`) while the library's queue does nothing else
  (`acking`). The answer to a listen always brings the whole location; the server may
  leave it out when the hash the client sends says that nothing changed, which shows the
  same.
- A location first observed while the token is checked has its listen sent at once (`FPersistentConnection.m:225`)
  and again by `restoreState` (`:1121-1126`), so `unackedListens` reaches two, and more when
  the server refuses the first and the location is observed again. The server answers
  them in their order; an answer to a listen that has been removed since is counted and
  nothing else (`ReceiveStale`, `:927-936`).
- `Catalogue` has one grid; the three differ in their category. Two of its records share
  the id 0, as records without a `productId` do.
- Several observers of a location are counted, not named: they get equal events.
- A record is its quantity (`Checkout`), its subtotal (`CartScreen`, `Purchase`), its id and price (`Catalogue`), the one
  value `Stored` (`Favourites`; `PolledList` takes any values), or an email and a password (`Account`).
- A password field is a password and whether blanks surround it: sign-up, sign-in and
  the record drop the blanks, `updatePassword` does not.
- History variables (`lastPut`, `writers`, `refused`, `died`, `processed`,
  `deleted`, `placed`, `clean`, `disturbed`, `seen` and `steady` of `Purchase`, `was`,
  `edited`, `foreign`, `abandoned`, `unfinished`, `astray`, `adrift`) are read by properties only.

Next to some definitions stand *mutants*: the same definition with a plausible
bug. No specification uses them; `PROJECT.json` says which property notices which.

## What the runs check

| Run | Question | Answer |
|---|---|---|
| `queue` (1 device, 2 paths, 4 puts, 2 disruptions) | Do cuts, deaths, refusals and resends disturb the order of puts or what an idle path holds? Does every put get an answer? | `InOrder`, `Converged`, `AllAnswered` hold |
| `sync` (2 paths, 2 own puts, 1 disruption; one of the paths is public) | Do the incremental updates of write tree and view, in any order with cuts, listens sent once or twice, refused and revoked, and deferred answers, show what they should? Does the client keep what `Listener` promises the screens? | `WritesAccounted`, `VisibleWritesExact`, `EventSnapExact` hold, `SyncTree` implements `Listener` |
| `sync_cuts` (1 path, 2 own puts, 1 write of another device, 2 disruptions) | Do own writes and others' news survive connections that are lost one after the other, some with the token still unchecked? Does anything wait for what will not come? Are the listens under way counted right? Does a view that stays come to rest at what the server stores? | `TypeOK`, `OwnWritesStay`, `AtRestExact`, `NoneStranded`, `ViewConverges` hold |
| `checkout` (1 device, 2 products, 2 orders, 2 lines, 4 puts, 2 disruptions; orders need sign-in, the cart does not) | Can a product leave the cart without its order line? Do two taps mix? | `OrderFirst`, `OrderExact` hold and `Checkout` implements `Ledger` |
| `checkout_devices` (2 devices, 1 product, 2 orders, 2 puts each, 1 disruption) | Two devices check one cart out at once, or one changes it while the other's writes are under way or sent again: where does the cart end, and do the orders arrive? | `CartConverges`, `OrderArrives` hold |
| `list` (2 accounts, 2 products, 2 observers told apart, 3 changes; ticks wait for what they started) | Do list and screen come back to the records, whatever was wrong before? | `ListRecovers`; `ScreenRecovers` for an account that has records |
| `cart` (2 accounts, 2 products, 3 changes; ticks do not wait) | Do total, list and rows agree under leaked observers, late events and deletions? | `SubtotalMatches`, `ShownOrCleared`, `CleanListExact` hold |
| `purchase` (1 account, 2 products of different prices, quantities 1 and 2, 2 changes) | Is what is handed over what was on the screen? Is an undisturbed purchase exactly the cart? | `HandsOverWhatIsShown`, `PurchaseExact`, `QuantitiesInRange` hold |
| `favourites` (2 accounts, 2 products, 2 changes) | Do list, hearts and store agree? Does a stored favourite get into the list? | `NoneMissed`, `FavouritesExact`, `HeartNeverOverstates`, `FilledMeansStored`, `FavouriteArrives` hold |
| `catalogue` (3 records, 2 of them with the same id, 2 prices, 4 changes) | Do rows, hearts and prices stay true to the catalogue while the shop edits it? | `RowsExact`, `FirstHeartHonest`, `PricesWereReal` hold |
| `account` (2 accounts, 2 emails, 1 password, 1 sign-up at a time, 1 sign-in, 2 puts, 2 disruptions) | Does the record agree with the account after sign-ups and updates whose answers are refused, late or lost? | `ProfileMatchesAccount`, `MailFresh` hold |
| `account_passwords` (1 account, 2 passwords, 1 sign-in, 3 puts, 1 disruption) | The same for passwords set from two sessions; do record and account come to agree? | `ProfileMatchesAccount`, `ProfileArrives` hold |

Each module defines a type invariant. It is a property of a run for `SyncTree` (whose
invariant contains that of `WriteQueue`), `CartScreen` (which contains that of
`PolledList`) and `Favourites`, and proved for these and for `WriteQueue`, `Checkout`,
`Purchase` and `Catalogue`.

The properties say what is true of the code, exceptions included; the exceptions
are worth knowing:

- *Checkout.* With rules that secure orders but not the cart, a sign-out before the
  resend makes the server refuse an order line and accept the removal of the same
  product. `OrderFirst` and `Ledger` excuse exactly that, through `refused`. The
  alert says "Order placed successfully" before anything is sent, to a guest, and
  for an empty list; an order that dies with its process leaves the cart as it was.
- *Cart and favourites screen.* A list built while events are on their way may hold a
  line twice or lines of another account until a clean tick. An emptied list is never
  redrawn. Right after a tick the collection view has more rows than the list; on the
  favourites screen a tap on such a row indexes an empty array and ends the program.
- *Purchase.* The list handed over may be empty, when the tap on Buy falls between a tick
  and its events, and may hold a product twice; then the total on the shipping screen
  counts it twice, while the order has one line for it, the last. The order is placed for
  whoever is signed in at the tap.
- *Catalogue.* A grid hears of new products only: an edited price is not heard of, a product
  moved into the category gets no row, one that is removed and put back gets a second. So
  the price that goes into cart and favourites may be out of date, but it was the
  product's. Of several rows of one product a tap on a heart redraws the first.
- *Sync tree.* A view that is not loaded shows only writes without an answer; an own write
  stays on the screen once the view is complete, unless the server refused it or another
  device wrote there.
- *Own writes.* An answer that waits for a listen may be left without one: the listen is
  refused, its observers go with it, and the connection is cut before an answer to another
  listen comes (it takes a second listen under way for the answer to have waited on).
  The put is not sent again and no listen of the next connection sets the answer
  free, so its write stays in the write tree. A later put on the same path is then
  answered at once, and when the location is observed again the older write is shown over the
  newer, until that listen is answered. `OwnWritesStay` and `NoneStranded` except such
  paths (`abandoned`) and nothing else.
- *Favourites.* The list may hold more than the store after a removal by another
  device, a tap while events are queued, a sign-out, or a revoked listen of the account
  itself (sent while it was signed out, and arriving after it has signed in again). A row of the favourites screen
  that is out of date opens a product that is not stored. An empty heart on the
  detail screen says nothing.
- *Account.* An Update writes the record before the service has answered and ignores
  a refusal, so record and account differ until the next Update that meets no other
  one. Changing the email and changing it back before the first answer ends with the
  first email in the account and the second in the record, because the second Update
  compares with the old cached email. A lost answer of `createUser` leaves an account
  without a record. A password updated with blanks around it cannot sign in, since
  the sign-in screen drops them.

**Bounds.** `MaxPuts` bounds the put indices of a device, `MaxDisruptions` the
cuts, deaths and sign-outs together, `MaxLines` the list, `MaxQty` the quantities,
`MaxObservers` the observers of a location that are told apart, `MaxQueue` the
callbacks waiting when `observe` is called, `MaxChanges` the changes of the
children, `MaxForeign` the writes of other devices, `MaxCount` what the stepper stops at.
Two disruptions give every pair (cut while a resend is under way,
sign-out then cut, death after a cut); four puts give a checkout of two lines, two of
one, or a re-addition and a checkout of one; two observers give duplicates; three changes
give add, remove, add. `MaxCalls` bounds the sign-ups under way (a second one with the same
fields would be the same call) and `MaxSessions` the sign-ins, each of which makes a
`FIRUser` object: one is enough for an update of the old object to meet one of the
new. In `sync`, two own puts give a write that shadows another or meets one on the
other path, and one disruption gives a sign-out, a refused token, or a cut between a put,
its news, its answer and the listen; the answers that wait and the put that is sent again
are then there together. In `sync_cuts` the one path is the one that matters, the puts
shadow each other, one foreign write gives news under an own write, and the second
disruption comes to a connection on which answers of the first still wait. In
`checkout_devices` two puts on each device are a checkout each, at once or one after the
other, or a line put back or deleted by one device around the checkout of the other.
`queue` has one device: what several do to one path is `CartConverges`, and
`StoreConverges` below for any number. In `catalogue`, four changes are three
additions and an edit, or a removal and a re-addition. Where theorems speak of a
property the proofs remove the bounds.

**Deadlock.** `WriteQueue`, `Checkout`, `SyncTree` and `Catalogue` stop when their bounds
are used up and nothing is under way, so deadlock is not checked there. `PolledList`,
`CartScreen`, `Purchase`, `Favourites` and `Account` have a timer or a screen that can
always move; deadlock is checked.

**Fairness.** `Connect` (in `SyncTree`: `restoreAuth` and `Authenticated`): the library
schedules a reconnect after every loss (`tryScheduleReconnect`) for as long as the app runs,
with one exception, which the liveness properties leave out: after the server has killed a
connection (`onKill`, `FPersistentConnection.m:427-433`) it does not try again. `Process` and `Answer`: the
server and the network serve an open connection; disruptions are bounded, which is
the assumption that a connection is not cut forever. `Tick`: a repeating timer.
`childAdded` and `Register`: dispatch queues run what they hold; in `SyncTree` this is
said of what leaves a queue (`Taken`, `Registered`, `Acked`, and for the server `Processed` and
`Served`), which is the same while disruptions are bounded.
`CreateSteps` and `executeUserUpdate`: a request to the authentication service ends in
an answer or in a time-out, which the client reports as an error. Handlers of the
owner have no fairness. `ListRecovers` and `ScreenRecovers` also assume that what a
tick started is finished before the next (`Prompt`): with a main thread that is
always a second behind the list need never be right.

## What is proved

The proofs remove the bounds of the runs: constants are any values that meet the named
assumptions. Each safety property is proved from an inductive invariant, which TLC has
checked on the instances first.

`WriteQueueProofs` proves, for all devices, paths, values, batches, rules and
bounds, from the assumptions `NoneAssumption`, `PublicAssumption`,
`BatchesAssumption` (a batch is a finite sequence of writes) and
`BoundsAssumption`:

- `QueueTypes`: `Spec => []TypeOK`
- `PutsInOrder`: `Spec => []InOrder`
- `StoreConverges`: `Spec => []Converged`
- `QueueForgetsNone`: `Spec => []NoneForgotten`
- `QueueInv`: `Spec => [](TypeOK /\ Inv)`, on which the others rest.

`InOrder` and `Converged` are not inductive. The invariant adds, per device:
`Indexed` (an index names one put and is below `putCounter`), `Once` (a put is on
the connection once), `Sent` (while connected, every outstanding put is on the wire
or among the answers, and answers are to older puts than requests; while not, the
connection is empty), `Newest` (the newest outstanding put on a path carries the
last value put there). Across devices, `Settled` says that some writer of a path
either still has it to be processed (`Unsettled`) or its last value is what the
store holds. The crux is `Process`: if the request taken is the last one on its path, every
other outstanding put on the path has an answer and so is older, so the value written
is the newest. The proofs go action by action (`IssueStep` to `ProcessStep`, with
`Untouched` for the devices that stand by), then `DeviceStep`, `SettledStep`.

`FavouritesProofs` proves, for all accounts, products (a finite set) and bounds, from
`FavouritesAssumption`:

- `FavouritesTypes`: `Spec => []TypeOK`
- `NoMiss`: `Spec => []NoneMissed`
- `HeartsHonest`: `Spec => []HeartNeverOverstates`
- `ListExact`: `Spec => []FavouritesExact`
- `FilledStored`: `Spec => []FilledMeansStored`

`NoneMissed` is not inductive: it speaks of quiet states only. The invariant `ListInv`
says what holds in between: once a grid was loaded, the account is *watched* (it has an
observer, or a call of `observe` not yet carried out; a revoked listen of its own unloads
it), and each product is in the list,
or not stored, or *on its way* (a registration that will report it, or an event in the
queue). Watching matters when a favourite appears; a registration matters because its
initial events list all children (`Listed`, about the sequence of a finite set). What
the listener does to these facts is stated once per operation of `Listener`
(`ObserveFacts` to `RevokeFacts`), and then there is one lemma per action.

The other half of `FavouritesExact`, and `FilledMeansStored`, need `ExactInv`: while nothing
disturbed the list, whatever is under way to it is the signed-in account's and stored
(`OnlyOwn`), as is all that is listed, and the detail screen shows one product, whose heart,
if filled, is stored. A favourite then goes only by a tap, made while nothing is under way.

`CheckoutProofs` proves, for all devices, products, orders, initial carts, rules and bounds,
from `CheckoutAssumption`:

- `OrderComesFirst`: `Spec => []OrderFirst`
- `KeepsLedger`: `Spec => ImplementsLedger`, the refinement of `Ledger`
- `OrdersAreExact`: `Spec => []OrderExact`
- `CartSettles`: `Spec => []CartConverges`, for any number of devices that check out at once
- `CheckoutTypes`, `CheckoutInvariant`: types and the inductive invariant.

They build on the pipeline's theorems, instantiated with the paths of cart and orders (`QP`).
The invariant relates puts to taps. `LineInv`: a put with the index of an order line is the
put of that line; while the removal of the same line is outstanding, the line's put is
outstanding too or has been processed; the removal is processed after it; and a processed
line is stored or was refused. `Justified`: a removal that is outstanding removes from the
cart what its owner deleted, or is the removal of a line. `Numbered`: the indices of a
placed order have been given out. `Process` is the crux: the server takes the oldest
request, so when it takes a removal, the put of its line has been processed
(`RemovalMayGo`), which is both `OrderFirst` and the guard of `Ledger`'s `Remove`. `OrdersInv`
adds who has written under an order and with which last value, and `OrderExact` follows
with `Converged` of the pipeline, as does `CartConverges`.

`CartScreenProofs` proves, for all accounts, products (a finite set), subtotals, bounds, and
timers that wait or do not, from `CartScreenAssumption`:

- `CartTypes`: `Spec => []TypeOK`
- `RowsIndexList`: `Spec => []ShownOrCleared`
- `CleanListIsCart`: `Spec => []CleanListExact`
- `TotalIsTheSum`: `Spec => []SubtotalMatches`.

`CleanListExact` speaks of quiet states; its strengthening `CleanInv` says of a clean list
that the registration of the last tick is the only one and nothing else is under way, or
that the list followed by the events in the queue is the cart, each record once.
`SubtotalMatches` is about a sum over a list, and no theorem of induction over data can be
used here. The proof goes around it: `FoldLeft` is a recursive function on the partial sums,
whose value at the least index where a claim fails is that of the index before it, where
the claim holds; that there is a least index is a fact about sets of numbers.

`PurchaseProofs` proves, for all accounts, products (a finite set, not empty), prices and
bounds, from `PurchaseAssumption`:

- `PurchaseTypes`: `Spec => []TypeOK`
- `HandOverIsHonest`: `Spec => []HandsOverWhatIsShown`
- `PurchaseIsExact`: `Spec => []PurchaseExact`
- `QuantitiesStayInRange`: `Spec => []QuantitiesInRange`.

The cart screen's invariant holds here too, since each step of `Purchase` is one of
`CartScreen` or leaves it alone. Three parts are added. `InRange`: wherever a subtotal is -
record, event, row, hand-over, order - it is that of a number of items the stepper can set.
`HandOver`: rows and label are the list and its total, or a tick has emptied both; what
the next screen has is what the owner saw. `Steady`: while nothing disturbs the purchase,
the list handed over is the cart of that moment (`FromCart`), and once bought that is what
was ordered (`Bought`). That the total does not depend on the order in which the records
arrived is `ListTotal`, a second claim about sums that is proved at the least index.

`CatalogueProofs` proves, for all records, ids (several records may share one), prices and
bounds, from `CatalogueAssumption`:

- `CatalogueTypes`: `Spec => []TypeOK`
- `FirstHeartIsHonest`: `Spec => []FirstHeartHonest`
- `PricesAreReal`: `Spec => []PricesWereReal`
- `RowsAreExact`: `Spec => []RowsExact`.

`RowsExact` counts rows and records; its strengthening `RowsInv` has an injection in place of the
count (`Matched`): each untouched record has a row of its own or an event on its way, and
while nothing was edited there is no other row or event. `PriceInv` follows a price on each
of its ways to the detail screen.

`AccountProofs` proves, for all accounts, emails, passwords and bounds, from
`AccountAssumption`:

- `CachedMailFresh`: `Spec => []MailFresh`
- `ProfileIsAccount`: `Spec => []ProfileMatchesAccount`.

The invariant says that all updates concern accounts that exist (`Known`), and that a
session which neither lost an answer nor began amid changes has only its own updates under
way and the account's email in its cache (`Own`). `ProfileMatchesAccount` relates the record
in the database to the account at the service, and both are behind: the record by the puts
that are outstanding, the account by the updates that are. So `AllAimed` speaks of where
they are going: the last put on a record is what the account will be once its updates are
granted (`Aim`). When both pipelines have run dry, `Converged` of the write pipeline gives
the rest.

`SyncTreeProofs` proves, for any paths (a finite set), values, rules and bounds, from
`SyncTreeAssumption`:

- `SyncTypes`: `Spec => []TypeOK`
- `SyncWritesAccounted`: `Spec => []WritesAccounted`
- `SyncVisibleExact`: `Spec => []VisibleWritesExact`
- `SyncEventSnapExact`: `Spec => []EventSnapExact`
- `SyncImplementsListener`: `Spec => ImplementsListener`, the refinement of `Listener`
- `SyncAtRestExact`: `Spec => []AtRestExact`
- `SyncOwnWritesStay`: `Spec => []OwnWritesStay`
- `SyncStrandsNone`: `Spec => []NoneStranded`.

The crux of the first four is that a write is taken out of the write tree only when it is the oldest there.
Taking out the oldest either leaves what is visible alone (a later write shadows it) or
uncovers exactly its path (`LayerTail`), and the view is then corrected on that path only
(`AckFirst`, `RevertFirst`); the client need not look at the other writes. That it is always
the oldest is an invariant in three parts. `OrderInv`: answers that were put off are to
older puts than those outstanding, in order, and together they are the pending writes.
`ListenInv`: each unanswered listen is on its way to the server or its answer on the way
back, the answers come in the order of the listens, and those without observers first;
from it, a view on an open connection that is not complete has a listen of its own to wait
for. `AckInv`: answers wait only while a listen is unanswered or the connection is cut, or
are abandoned, and then there is no view, or it waits for a listen too; they are used up before
anything else happens. So when an answer is used at once, the view, if there is one, is
complete and no other answer waits. Of the pipeline
the proof uses the theorems of `WriteQueueProofs` (`PipeStep`, `AnswerPipe`, `ProcessPipe`).

`SyncImplementsListener` follows from the same invariant. The refinement mapping shows the screens the view, or, while there
is none, the pending writes. Each operation on a view that stays is an `Update`
(`RaisedUpdate`), a refused or revoked listen is a `Forget` (`DroppedSeen`), the rest of the
connection and the server is not seen. The screens' modules, which build on `Listener`,
thus rest on a proved promise of the client.

`AtRestExact` and `OwnWritesStay` relate the view to the store, and what connects them is
the messages under way. `KnownInv` says what these tell. While the server sends its news,
for each path either no message in the inbox speaks of it and the view has what is stored,
or the last message that does speak of it tells what is stored (`Heard`). Messages carry no
put, so `Fits` says which answer is to which put: some function gives the answers in the
inbox the responses of the pipeline in the order of their puts, and news of a path that
only this device writes comes before the answer to a put on it. Once the server has stopped
sending, `Heard` holds except for paths whose change is answered after the message that says
so (`Late`), unless that message is followed by the answer to a later listen (`Closed` says
it is not). All this is said of a view whose listens the server has all taken (`Sees`): one
still to be taken brings the whole location anyway. `AtRestExact` is `Heard` of an empty inbox.

`OwnWritesStay` needs more, all in `PathInv`: what is visible of the pending writes is the
last put, but for abandoned answers (`VisibleInv`), each put that is outstanding or whose
answer waits (`Expected`) is a pending write (`IssuedInv`), a view on an open connection has its
listen open, on its way or ended in the inbox with no answer to a later one behind (`EndsLast`),
and a whole location comes before the answer to its listen (`OpenInv`); and a path that only this device wrote
stores its last put or has a put the server is still to process (`StoreInv`, which is
`SettledPath` of the pipeline's proofs). Together they give `AtLast`: on such a path without
a pending write, if no listen is under way, the view knows the last put. This is the moment
at which an answer uncovers the news; that answers are put off while a listen is under way is
what makes it hold. `ViewInv`, the invariant proper, extends this to the times in which a
listen is under way. `WriteKinds` and `StepKinds` sort the steps, for all three proofs.

`NoneStranded` follows from `AckInv`, `ListenInv` and `OpenInv`.

Only model-checked: liveness (`AllAnswered`, `ViewConverges` and the other `<>` properties of
the runs), since fairness and ENABLED are beyond the prover. What makes the first two true
is proved, though: on an open connection no put is forgotten (`NoneForgotten`), and no answer
and no view waits for a message that will not come (`NoneStranded`); left to TLC is that
the server, the queues and the reconnect timer, which are fair, get to the end of what is
under way. Every safety property of a run is proved.

## Plan

Done, each with its proofs: the write pipeline, the checkout with `Ledger`, the sync tree
as an implementation of the listeners, the cart screen's list, the purchase from the stepper
to the order, the grids, the favourites, the account.

Left, in this order:

1. `SyncTree` with a second location, to have the listens of two screens sent again
   together, and its theorems for any set of locations.
2. The hazards without a property: the profile load that overwrites what its owner types,
   and the password that an update takes with its blanks.

## Not modelled

Layout, images, segues without state, the tax on the shipping label (computed for the
label and thrown away), the Xcode templates. The orders screen shows one constant record
and prints what it reads. The load of the profile into the text fields is left out, since
an update may carry any text anyway.

Of the database client: transactions, merges, `onDisconnect` writes, queries with filters
or orders, views of nested locations, disk persistence, value events, removal of
observers. The app uses none of them.

The other pods (`gRPC`, `BoringSSL`, `leveldb`, `abseil`, Firestore, Core, ...) are third-party
code that the app links. They make up nearly all the C and C++ of the repository, and no
screen reaches them (`UserServices.swift` imports Firestore and calls nothing of it): the Realtime Database client is Objective-C with its own web socket,
and its persistence layer, the only user of `leveldb`, is never switched on. Nothing the app
does depends on a property of that code that could be stated here.

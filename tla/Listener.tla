------------------------------ MODULE Listener ------------------------------
(***************************************************************************)
(* How the children of a database location reach a screen.  A screen calls *)
(* observe(.childAdded); the SDK's own queue registers the callback later, *)
(* and from then on the callback is one of the observers of the location:  *)
(* it gets an event for every child the SDK has at that moment and one for *)
(* every child that appears afterwards.  Events are dispatched one by one  *)
(* to the main queue, which runs them in order.  A changed or a removed    *)
(* child is an event of another kind, which no screen of the app asks for, *)
(* and no screen ever removes its observers.                               *)
(*                                                                         *)
(* Abstractions.  `cached` is what the SDK shows for the location: the     *)
(* server's children with the puts of this device on top, so Change stands *)
(* for a put of a screen, for news of the server, and for a put that was   *)
(* refused and taken back.  Observers of one location get the same events, *)
(* so they are counted, up to MaxObservers.                                *)
(*                                                                         *)
(* The modules of the screens use the single operations.  Spec, at the     *)
(* end, is what the library promises by them: SyncTree, which models how   *)
(* it computes `cached`, implements it.                                    *)
(***************************************************************************)
EXTENDS Integers, Sequences, SequencesExt

CONSTANTS
    Refs,          \* locations, such as the cart of each account
    Keys,          \* names of children
    Vals,          \* values of children
    Absent,        \* no child
    MaxObservers,  \* observers of a location that are told apart
    MaxQueue,      \* bound on the events waiting when observe is called
    MaxChanges     \* bound on the changes of the children

VARIABLES
    cached,       \* SDK: the children of each location
    observers,    \* SDK: how many observers each location has
    registering,  \* SDK: calls of observe not yet carried out
    mainQueue,    \* events waiting for the main thread
    changes       \* changes so far

listenerVars == <<cached, observers, registering, mainQueue, changes>>

Event == [ref : Refs, key : Keys, val : Vals]

TypeOK ==
    /\ cached \in [Refs -> [Keys -> Vals \cup {Absent}]]
    /\ observers \in [Refs -> 0..MaxObservers]
    /\ registering \in Seq(Refs)
    /\ mainQueue \in Seq(Event)
    /\ changes \in 0..MaxChanges

Init ==
    /\ cached = [r \in Refs |-> [k \in Keys |-> Absent]]
    /\ observers = [r \in Refs |-> 0]
    /\ registering = <<>>
    /\ mainQueue = <<>>
    /\ changes = 0

ChildAdded(r, k, v) == [ref |-> r, key |-> k, val |-> v]
Children(r) == {k \in Keys : cached[r][k] # Absent}

\* The app calls observe(.childAdded).
Observe(r) ==
    /\ Len(mainQueue) + Len(registering) <= MaxQueue
    /\ registering' = Append(registering, r)
    /\ UNCHANGED <<cached, observers, mainQueue, changes>>

\* The SDK adds the oldest registration and raises its initial events.
AddEventRegistration ==
    /\ registering # <<>>
    /\ LET r == Head(registering)
           initial == SetToSeq({ChildAdded(r, k, cached[r][k]) : k \in Children(r)})
       IN  /\ mainQueue' = mainQueue \o initial
           /\ observers' = [observers EXCEPT ![r] = IF @ < MaxObservers THEN @ + 1 ELSE @]
    /\ registering' = Tail(registering)
    /\ UNCHANGED <<cached, changes>>

\* A child appears, changes or goes; each observer hears of one that appears.
Change(r, k, v) ==
    /\ changes < MaxChanges
    /\ cached[r][k] # v
    /\ changes' = changes + 1
    /\ cached' = [cached EXCEPT ![r][k] = v]
    /\ mainQueue' = IF cached[r][k] = Absent
                    THEN mainQueue \o [i \in 1..observers[r] |-> ChildAdded(r, k, v)]
                    ELSE mainQueue
    /\ UNCHANGED <<observers, registering>>

\* The server revokes a listen nobody signed in may have: the SDK drops its
\* observers and forgets the children, whoever is signed in by then.
Revoke(r) ==
    /\ observers[r] > 0
    /\ observers' = [observers EXCEPT ![r] = 0]
    /\ cached' = [cached EXCEPT ![r] = [k \in Keys |-> Absent]]
    /\ UNCHANGED <<registering, mainQueue, changes>>

\* Each event once for each of n observers.
ToEach(events, n) == [i \in 1..(Len(events) * n) |-> events[1 + (i - 1) \div n]]

\* Any number of children appear, change or go in one operation of the SDK, and
\* the observers hear, once each, of the children that appear and of no other.
Update(r, children) ==
    LET added == {ChildAdded(r, k, children[k]) :
                    k \in {k \in Keys : cached[r][k] = Absent /\ children[k] # Absent}}
    IN  /\ cached' = [cached EXCEPT ![r] = children]
        /\ \E order \in SetToSeqs(added) :
            mainQueue' = mainQueue \o ToEach(order, observers[r])
        /\ UNCHANGED <<observers, registering, changes>>

\* A revoked listen while puts of this device wait: their children stay.
Forget(r, left) ==
    /\ observers[r] > 0
    /\ \A k \in Keys : left[k] \in {cached[r][k], Absent}
    /\ observers' = [observers EXCEPT ![r] = 0]
    /\ cached' = [cached EXCEPT ![r] = left]
    /\ UNCHANGED <<registering, mainQueue, changes>>

\* The main thread runs the callback of the oldest event.
NextEvent == mainQueue[1]
Deliver ==
    /\ mainQueue # <<>>
    /\ mainQueue' = Tail(mainQueue)
    /\ UNCHANGED <<cached, observers, registering, changes>>

\* Nothing is on its way from the database to the screen.
Quiet == mainQueue = <<>> /\ registering = <<>>

Next ==
    \/ AddEventRegistration \/ Deliver
    \/ \E r \in Refs :
        \/ Observe(r)
        \/ \E children \in [Keys -> Vals \cup {Absent}] : Update(r, children) \/ Forget(r, children)

Spec == Init /\ [][Next]_listenerVars
=============================================================================

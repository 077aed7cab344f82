------------------------------ MODULE SyncTree ------------------------------
(***************************************************************************)
(* How the Realtime Database client of one device computes what its        *)
(* observers see of a location: the last news of the server with the       *)
(* puts of the device on top.  A put is recorded in the write tree and     *)
(* shown at once; its answer removes it, which uncovers the server's news; *)
(* a listen sent again after a lost connection is answered with the whole  *)
(* location, and answers to puts wait until it is, or an own put the       *)
(* server has would vanish from the screen for a moment.                   *)
(*                                                                         *)
(* A connection opens in two steps when there is an auth token: in         *)
(* ConnectionStateAuthenticating puts wait, but a listen is sent at once,  *)
(* and sent a second time by restoreState when the token is accepted.  So  *)
(* a location may have two listens under way, and when the server ends the *)
(* first the answer to the second finds no observer, or other ones.        *)
(*                                                                         *)
(* Abstractions.  One location, whose children are the Paths of            *)
(* WriteQueue; the app only writes whole children of what it observes.     *)
(* The only query is the default one, so there is one view, and it exists  *)
(* while it has observers (observers[Ref] > 0), which is also when the     *)
(* query is in `listens`.  The write id of a put is its put index: both    *)
(* counters advance once per set.  The death of the process is left out,   *)
(* since all of this state dies with it.                                   *)
(*                                                                         *)
(* External, from how the client relies on it: the server sends the news   *)
(* of a put before its answer, answers listens in their order but in no    *)
(* order with the puts, and refuses or revokes a listen only when no one   *)
(* is signed in.  Its answer to the token is the first thing a client      *)
(* receives on a connection, so no order of events is lost by letting it   *)
(* take the listens once the client has that answer.  Other devices are    *)
(* the action ForeignPut.                                                  *)
(***************************************************************************)
EXTENDS Integers, Sequences, FiniteSets, SequencesExt

CONSTANTS
    Device, Ref,
    Paths, Values, None, Public,
    MaxPuts, MaxDisruptions,  \* bounds, see WriteQueue
    MaxObservers, MaxQueue,   \* bounds, see Listener
    MaxForeign                \* bound on the writes of other devices

ASSUME SyncTreeAssumption ==
    /\ None \notin Values /\ Public \subseteq Paths /\ IsFiniteSet(Paths)
    /\ MaxPuts \in Nat /\ MaxDisruptions \in Nat /\ MaxForeign \in Nat
    /\ MaxObservers \in Nat \ {0} /\ MaxQueue \in Nat

VARIABLES store, outstandingPuts, wire, responses, connected, signedIn,
          putCounter, disruptions, lastPut, writers, refused, died, processed
VARIABLES
    tree,            \* SDK: the write tree and the view of the location
    authenticating,  \* SDK: connectionState is Authenticating
    observers,       \* SDK: how many observers the location has
    registering,     \* SDK: calls of observe not yet carried out
    mainQueue,       \* events waiting for the main thread
    unackedListens,  \* SDK: listens sent on this connection and not answered
    staleListens,    \* SDK: how many of them, the oldest, have lost their observers
    putsToAck,       \* SDK: answers to puts that wait for a listen
    acking,          \* SDK: its queue is busy with the answers that waited
    listensSent,     \* connection: listens the server has not taken
    inbox,           \* connection: messages of the server, oldest first
    serving,         \* server: sends this connection the news of the location
    foreign,         \* history: paths other devices have written
    foreignPuts,     \* their writes so far
    abandoned        \* history: paths of answers no listen was left to set free

Q == INSTANCE WriteQueue WITH
        Devices <- {Device}, Batches <- {<<w>> : w \in [path : Paths, val : Values \cup {None}]}

queueVars == <<store, outstandingPuts, wire, responses, connected, signedIn, putCounter,
              disruptions, lastPut, writers, refused, died, processed>>
deviceQueueVars == <<outstandingPuts, wire, responses, connected, signedIn, putCounter,
                     disruptions, lastPut, writers, refused, died, processed>>
screenVars == <<observers, registering, mainQueue>>
listenVars == <<authenticating, unackedListens, staleListens, listensSent, serving>>
foreignVars == <<foreign, foreignPuts>>
ackVars == <<putsToAck, acking, abandoned>>
vars == <<queueVars, tree, screenVars, listenVars, ackVars, inbox, foreignVars>>

Node == [Paths -> Values \cup {None}]
EmptyNode == [pa \in Paths |-> None]

\* visibleWrites is a compound write: a value for some of the paths.
CompoundWrite == UNION {[S -> Values \cup {None}] : S \in SUBSET Paths}
Tree == [allWrites : Seq(Q!Put), visibleWrites : CompoundWrite,
         viewed : BOOLEAN, serverSnap : Node, complete : BOOLEAN, eventSnap : Node]

Message ==
    [type : {"data"}, path : Paths, val : Values \cup {None}]
        \cup [type : {"node"}, node : Node]
        \cup [type : {"listen"}, ok : BOOLEAN]
        \cup [type : {"revoke", "answer"}]

Event == [ref : {Ref}, key : Paths, val : Values]

TypeOK ==
    /\ Q!TypeOK
    /\ tree \in Tree
    /\ observers \in [{Ref} -> 0..MaxObservers]
    /\ registering \in Seq({Ref})
    /\ mainQueue \in Seq(Event)
    /\ authenticating \in BOOLEAN
    /\ unackedListens \in Nat /\ staleListens \in Nat
    /\ putsToAck \in Seq(Q!Response) /\ acking \in BOOLEAN /\ abandoned \subseteq Paths
    /\ listensSent \in Nat /\ serving \in BOOLEAN
    /\ inbox \in Seq(Message)
    /\ foreign \subseteq Paths /\ foreignPuts \in 0..MaxForeign

Init ==
    /\ Q!Init
    /\ tree = [allWrites |-> <<>>, visibleWrites |-> <<>>, viewed |-> FALSE,
               serverSnap |-> EmptyNode, complete |-> FALSE, eventSnap |-> EmptyNode]
    /\ observers = [r \in {Ref} |-> 0]
    /\ registering = <<>> /\ mainQueue = <<>>
    /\ authenticating = FALSE /\ unackedListens = 0 /\ staleListens = 0
    /\ putsToAck = <<>> /\ acking = FALSE /\ abandoned = {}
    /\ listensSent = 0 /\ serving = FALSE /\ inbox = <<>>
    /\ foreign = {} /\ foreignPuts = 0

-----------------------------------------------------------------------------
(* The write tree. *)

Apply(compound, node) ==
    [pa \in Paths |-> IF pa \in DOMAIN compound THEN compound[pa] ELSE node[pa]]

\* resetTree: the writes in order, the later over the earlier, so the last one
\* on each path.
WritesOn(writes, pa) == {i \in DOMAIN writes : writes[i].path = pa}
LayerTree(writes) ==
    [pa \in {writes[i].path : i \in DOMAIN writes} |->
        writes[CHOOSE i \in WritesOn(writes, pa) : \A j \in WritesOn(writes, pa) : j <= i].val]

With(compound, pa, v) ==
    [q \in DOMAIN compound \cup {pa} |-> IF q = pa THEN v ELSE compound[q]]
Without(compound, pa) == [q \in DOMAIN compound \ {pa} |-> compound[q]]

IndexOf(writes, id) == CHOOSE i \in DOMAIN writes : writes[i].idx = id

\* A write is shadowed by a later one on its path, and overlaps an earlier one.
Shadowed(writes, i) == \E j \in DOMAIN writes : j > i /\ writes[j].path = writes[i].path
Overlaps(writes, i) == \E j \in DOMAIN writes : j < i /\ writes[j].path = writes[i].path

\* What is visible without the i-th write; the mutant forgets that a later
\* write may be on the same path.
VisibleLessPath(t, i) == Without(t.visibleWrites, t.allWrites[i].path)
VisibleWithout(t, i) ==
    IF Shadowed(t.allWrites, i) THEN t.visibleWrites
    ELSE IF Overlaps(t.allWrites, i) THEN LayerTree(RemoveAt(t.allWrites, i))
    ELSE Without(t.visibleWrites, t.allWrites[i].path)

removeWriteId(t, i) ==
    [t EXCEPT !.allWrites = RemoveAt(@, i), !.visibleWrites = VisibleWithout(t, i)]

-----------------------------------------------------------------------------
(* The view: operations on a tree. *)

applyUserOverwrite(t, pt) ==
    [t EXCEPT !.allWrites = Append(@, pt),
              !.visibleWrites = With(@, pt.path, pt.val),
              !.eventSnap[pt.path] = IF t.viewed THEN pt.val ELSE @]

\* News of one child.  A write of the device on it goes on hiding it.  Of the
\* mutants one drops news that is hidden, the other shows it all the same.
OverwriteUnlessHidden(t, pa, v) ==
    IF pa \in DOMAIN t.visibleWrites THEN t
    ELSE [t EXCEPT !.serverSnap[pa] = v, !.eventSnap[pa] = v]
OverwriteShown(t, pa, v) == [t EXCEPT !.serverSnap[pa] = v, !.eventSnap[pa] = v]
applyServerOverwrite(t, pa, v) ==
    [t EXCEPT !.serverSnap[pa] = v,
              !.eventSnap[pa] = IF pa \in DOMAIN t.visibleWrites THEN @ ELSE v]

\* News of the whole location.
applyServerNode(t, node) ==
    [t EXCEPT !.serverSnap = node, !.complete = TRUE, !.eventSnap = Apply(t.visibleWrites, node)]

applyListenComplete(t) ==
    [t EXCEPT !.complete = TRUE, !.eventSnap = Apply(t.visibleWrites, t.serverSnap)]

\* A write that was granted: the child is shown as the server has it, if that
\* is known and no other write hides it.
ackUserWrite(t, i) ==
    LET pa == t.allWrites[i].path
        u  == removeWriteId(t, i)
        known == t.complete \/ t.serverSnap[pa] # None
    IN  IF t.viewed /\ ~Shadowed(t.allWrites, i) /\ pa \notin DOMAIN u.visibleWrites /\ known
        THEN applyServerOverwrite(u, pa, u.serverSnap[pa])
        ELSE u

\* A write that was refused is taken back; the mutant leaves it on the screen.
KeepRefused(t, i) == removeWriteId(t, i)
revertUserWrite(t, i) ==
    LET pa == t.allWrites[i].path
        u  == removeWriteId(t, i)
    IN  IF t.viewed /\ ~Shadowed(t.allWrites, i) /\ pa \notin DOMAIN u.visibleWrites
        THEN [u EXCEPT !.eventSnap[pa] = u.serverSnap[pa]]
        ELSE u

ackWrite(t, r) ==
    LET i == IndexOf(t.allWrites, r.put.idx)
    IN  IF r.ok THEN ackUserWrite(t, i) ELSE revertUserWrite(t, i)

\* The listen is gone, and with it the view; the writes stay.
dropView(t) ==
    [t EXCEPT !.viewed = FALSE, !.serverSnap = EmptyNode, !.complete = FALSE,
              !.eventSnap = EmptyNode]

\* A new view starts from the writes alone.
createView(t) == [t EXCEPT !.viewed = TRUE, !.eventSnap = Apply(t.visibleWrites, EmptyNode)]

-----------------------------------------------------------------------------
(* Events. *)

ChildAdded(pa, v) == [ref |-> Ref, key |-> pa, val |-> v]
Children(node) == {pa \in Paths : node[pa] # None}

\* Each event goes once to each observer.
Each(added) ==
    [i \in 1..(Len(added) * observers[Ref]) |-> added[1 + (i - 1) \div observers[Ref]]]

\* updateFullNode and updateChildIn compare the old children with the new; the
\* mutant reports every child of a whole location.
EventsOfAll(old, new) ==
    Each(SetToSeq({ChildAdded(pa, new[pa]) : pa \in Children(new)}))
EventsOf(old, new) ==
    Each(SetToSeq({ChildAdded(pa, new[pa]) : pa \in Children(new) \ Children(old)}))

\* The tree after an operation, and the events it raises.
Raise(new) ==
    /\ tree' = new
    /\ mainQueue' = mainQueue \o EventsOf(tree.eventSnap, new.eventSnap)

-----------------------------------------------------------------------------
(* The app and the SDK. *)

\* setValue or removeValue on a child of the location.
set(w) ==
    /\ Q!Issue(Device, <<w>>)
    /\ Raise(applyUserOverwrite(tree, [idx |-> putCounter[Device], path |-> w.path, val |-> w.val]))
    /\ UNCHANGED <<observers, registering, listenVars, ackVars, inbox, foreignVars>>

\* observe(.childAdded)
Observe ==
    /\ Len(mainQueue) + Len(registering) <= MaxQueue
    /\ registering' = Append(registering, Ref)
    /\ UNCHANGED <<queueVars, tree, observers, mainQueue, listenVars, ackVars, inbox, foreignVars>>

\* A listen is sent in both states of an open connection.
Opened == connected[Device] \/ authenticating

\* The mutant takes one location to have one listen under way.
SendOnce == unackedListens' = 1 /\ listensSent' = listensSent + 1
sendListen == unackedListens' = unackedListens + 1 /\ listensSent' = listensSent + 1

\* The first registration makes the view and sends the listen.
addEventRegistration ==
    /\ registering # <<>>
    /\ registering' = Tail(registering)
    /\ observers' = [observers EXCEPT ![Ref] = IF @ < MaxObservers THEN @ + 1 ELSE @]
    /\ tree' = IF tree.viewed THEN tree ELSE createView(tree)
    /\ mainQueue' = mainQueue \o
        SetToSeq({ChildAdded(pa, tree'.eventSnap[pa]) : pa \in Children(tree'.eventSnap)})
    /\ IF Opened /\ ~tree.viewed THEN sendListen ELSE UNCHANGED <<unackedListens, listensSent>>
    /\ UNCHANGED <<queueVars, authenticating, staleListens, serving, ackVars, inbox, foreignVars>>

\* Every listen is sent, also one that was sent while the token was checked,
\* then the puts.
restoreState ==
    /\ Q!Connect(Device)
    /\ IF tree.viewed THEN sendListen ELSE UNCHANGED <<unackedListens, listensSent>>
    /\ UNCHANGED <<tree, screenVars, staleListens, serving, ackVars, inbox, foreignVars>>

\* onReady: with a token it is checked first.
restoreAuth ==
    /\ ~connected[Device] /\ ~authenticating
    /\ IF signedIn[Device]
       THEN /\ authenticating' = TRUE
            /\ UNCHANGED <<queueVars, tree, screenVars, unackedListens, staleListens,
                           listensSent, serving, ackVars, inbox, foreignVars>>
       ELSE restoreState /\ UNCHANGED authenticating

\* The callback of sendAuth.
Authenticated ==
    /\ authenticating
    /\ authenticating' = FALSE
    /\ restoreState

\* onDisconnect forgets the listens under way, not the answers that wait for
\* them: their puts have left outstandingPuts and are not sent again.  With no
\* observer left the next connection sends no listen, and they stay.
ForgetAnswers == putsToAck' = <<>>
KeepAnswers == UNCHANGED putsToAck
onDisconnect ==
    /\ authenticating' = FALSE
    /\ unackedListens' = 0 /\ staleListens' = 0
    /\ listensSent' = 0 /\ serving' = FALSE /\ inbox' = <<>>
    /\ KeepAnswers
    /\ abandoned' = IF tree.viewed THEN abandoned
                    ELSE abandoned \cup {putsToAck[i].put.path : i \in DOMAIN putsToAck}
    /\ UNCHANGED <<tree, screenVars, acking, foreignVars>>

Disconnect == Q!Disconnect(Device) /\ onDisconnect

\* The connection is cut, or the token refused, before restoreState.
AuthFailed ==
    /\ authenticating
    /\ disruptions < MaxDisruptions
    /\ disruptions' = disruptions + 1
    /\ UNCHANGED <<store, outstandingPuts, wire, responses, connected, signedIn, putCounter,
                   lastPut, writers, refused, died, processed>>
    /\ onDisconnect

SignIn == Q!SignIn(Device) /\ UNCHANGED <<tree, screenVars, listenVars, ackVars, inbox, foreignVars>>
SignOut == Q!SignOut(Device) /\ UNCHANGED <<tree, screenVars, listenVars, ackVars, inbox, foreignVars>>

Receives(type) == inbox # <<>> /\ Head(inbox).type = type

\* onDataUpdate of a child, and of the location; without a view it is ignored.
ReceiveData ==
    /\ Receives("data")
    /\ inbox' = Tail(inbox)
    /\ Raise(IF tree.viewed THEN applyServerOverwrite(tree, Head(inbox).path, Head(inbox).val)
             ELSE tree)
    /\ UNCHANGED <<queueVars, observers, registering, listenVars, ackVars, foreignVars>>

ReceiveNode ==
    /\ Receives("node")
    /\ inbox' = Tail(inbox)
    /\ Raise(IF tree.viewed THEN applyServerNode(tree, Head(inbox).node) ELSE tree)
    /\ UNCHANGED <<queueVars, observers, registering, listenVars, ackVars, foreignVars>>

\* Every answer to a listen is counted; with the last of them the answers that
\* waited are used next.
CountAnswer ==
    /\ unackedListens' = unackedListens - 1
    /\ acking' = (unackedListens' = 0 /\ putsToAck # <<>>)

\* The view goes, and the listens left under way have lost their observers.
Drop(left) ==
    /\ Raise(dropView(tree))
    /\ observers' = [observers EXCEPT ![Ref] = 0]
    /\ staleListens' = left

\* The answer to the listen.
ReceiveListen ==
    /\ Receives("listen")
    /\ staleListens = 0
    /\ inbox' = Tail(inbox)
    /\ CountAnswer
    /\ IF Head(inbox).ok
       THEN Raise(applyListenComplete(tree)) /\ UNCHANGED <<observers, staleListens>>
       ELSE Drop(unackedListens - 1)
    /\ UNCHANGED <<queueVars, registering, authenticating, listensSent, serving,
                   putsToAck, abandoned, foreignVars>>

\* The answer to a listen that has been removed since, and perhaps made again.
ReceiveStale ==
    /\ Receives("listen")
    /\ staleListens > 0
    /\ inbox' = Tail(inbox)
    /\ CountAnswer
    /\ staleListens' = staleListens - 1
    /\ UNCHANGED <<queueVars, tree, screenVars, authenticating, listensSent, serving,
                   putsToAck, abandoned, foreignVars>>

\* One turn of the loop; the SDK's queue does nothing else until it is through.
ackPuts ==
    /\ acking
    /\ Raise(ackWrite(tree, Head(putsToAck)))
    /\ putsToAck' = Tail(putsToAck)
    /\ acking' = (Tail(putsToAck) # <<>>)
    /\ UNCHANGED <<queueVars, observers, registering, listenVars, inbox, abandoned, foreignVars>>

\* onListenRevoked
ReceiveRevoke ==
    /\ Receives("revoke")
    /\ inbox' = Tail(inbox)
    /\ Drop(unackedListens)
    /\ UNCHANGED <<queueVars, registering, authenticating, unackedListens, listensSent, serving,
                   ackVars, foreignVars>>

OldestResponse ==
    CHOOSE r \in responses[Device] : \A q \in responses[Device] : r.put.idx <= q.put.idx

\* Whether an answer waits for a listen; of the mutants one lets none wait, the
\* other all that come while the location is not loaded.
NeverDeferred == FALSE
DeferredUnloaded == ~tree.complete
Deferred == unackedListens > 0

\* The callback of sendPut.
ReceiveAnswer ==
    /\ Receives("answer")
    /\ inbox' = Tail(inbox)
    /\ Q!Answer(Device)
    /\ IF Deferred
       THEN putsToAck' = Append(putsToAck, OldestResponse) /\ UNCHANGED <<tree, mainQueue>>
       ELSE Raise(ackWrite(tree, OldestResponse)) /\ UNCHANGED putsToAck
    /\ UNCHANGED <<observers, registering, listenVars, acking, abandoned, foreignVars>>

Receive ==
    \/ ReceiveData \/ ReceiveNode \/ ReceiveListen \/ ReceiveStale
    \/ ReceiveRevoke \/ ReceiveAnswer

\* The main thread runs the callback of the oldest event.
Deliver ==
    /\ mainQueue # <<>>
    /\ mainQueue' = Tail(mainQueue)
    /\ UNCHANGED <<queueVars, tree, observers, registering, listenVars, ackVars, inbox, foreignVars>>

-----------------------------------------------------------------------------
(* The server. *)

Data(pa, v) == [type |-> "data", path |-> pa, val |-> v]
NewsOf(pa, v) == IF serving THEN <<Data(pa, v)>> ELSE <<>>

OldestRequest ==
    CHOOSE m \in wire[Device] : \A n \in wire[Device] : m.put.idx <= n.put.idx

\* A put of the device: its news, then its answer.
Process ==
    /\ Q!Process(Device)
    /\ LET m == OldestRequest
           news == IF Q!Granted(m) THEN NewsOf(m.put.path, m.put.val) ELSE <<>>
       IN  inbox' = inbox \o news \o <<[type |-> "answer"]>>
    /\ UNCHANGED <<tree, screenVars, listenVars, ackVars, foreignVars>>

\* A listen: the whole location, then the answer, or a refusal.
TakeListen(ok) ==
    /\ connected[Device] /\ listensSent > 0
    /\ ok \/ ~signedIn[Device]
    /\ listensSent' = listensSent - 1
    /\ serving' = ok
    /\ inbox' = inbox \o (IF ok THEN <<[type |-> "node", node |-> store]>> ELSE <<>>)
                      \o <<[type |-> "listen", ok |-> ok]>>
    /\ UNCHANGED <<queueVars, tree, screenVars, authenticating, unackedListens, staleListens,
                   ackVars, foreignVars>>

RevokeListen ==
    /\ serving /\ ~signedIn[Device]
    /\ serving' = FALSE
    /\ inbox' = Append(inbox, [type |-> "revoke"])
    /\ UNCHANGED <<queueVars, tree, screenVars, authenticating, unackedListens, staleListens,
                   listensSent, ackVars, foreignVars>>

\* Another device writes.
ForeignPut(pa, v) ==
    /\ foreignPuts < MaxForeign
    /\ foreignPuts' = foreignPuts + 1
    /\ foreign' = foreign \cup {pa}
    /\ store' = [store EXCEPT ![pa] = v]
    /\ inbox' = inbox \o NewsOf(pa, v)
    /\ UNCHANGED <<deviceQueueVars, tree, screenVars, listenVars, ackVars>>

\* What runs on the SDK's queue; the main thread, the server and other devices
\* do not wait for it.
OnQueue ==
    \/ addEventRegistration \/ restoreAuth \/ Authenticated \/ AuthFailed \/ Disconnect
    \/ SignIn \/ SignOut \/ Receive
    \/ \E pa \in Paths, v \in Values \cup {None} : set([path |-> pa, val |-> v])

Next ==
    \/ ackPuts
    \/ ~acking /\ OnQueue
    \/ Observe \/ Deliver \/ Process \/ RevokeListen
    \/ \E ok \in BOOLEAN : TakeListen(ok)
    \/ \E pa \in Paths, v \in Values \cup {None} : v # store[pa] /\ ForeignPut(pa, v)

Spec == Init /\ [][Next]_vars

\* The reconnect timer and the server keep going, and so does the SDK's queue.
\* Fairness of queues and of the server is put by what leaves them, which
\* spares TLC the effect: a registration leaves `registering` by being carried
\* out; a message leaves the inbox by being received, a request the wire by being
\* processed and a listen by being answered, or with their connection, which is
\* cut a bounded number of times.
Taken == inbox # <<>> /\ inbox' = Tail(inbox)
Registered == registering # <<>> /\ registering' = Tail(registering)
Acked == acking /\ putsToAck' = Tail(putsToAck)
Processed == wire[Device] # {} /\ wire' = [wire EXCEPT ![Device] = @ \ {OldestRequest}]
Served == connected[Device] /\ listensSent > 0 /\ listensSent' = listensSent - 1
Fairness ==
    /\ WF_<<connected, authenticating>>(~acking /\ (restoreAuth \/ Authenticated))
    /\ WF_wire(Processed) /\ WF_listensSent(Served)
    /\ WF_inbox(Taken) /\ WF_registering(Registered) /\ WF_putsToAck(Acked)
FairSpec == Spec /\ Fairness

-----------------------------------------------------------------------------
(* Properties. *)

\* Each write in the write tree waits for exactly one thing: the answer to its
\* put or the listen its answer waits for.  They are in the order of their
\* ids, so no answer takes away a write that an older one still hides.
WritesAccounted ==
    LET awaited == {pt.idx : pt \in outstandingPuts[Device]}
        deferred == {putsToAck[i].put.idx : i \in DOMAIN putsToAck}
        writes == tree.allWrites
    IN  /\ {writes[i].idx : i \in DOMAIN writes} = awaited \cup deferred
        /\ Len(writes) = Cardinality(outstandingPuts[Device]) + Len(putsToAck)
        /\ \A i, j \in DOMAIN writes : i < j => writes[i].idx < writes[j].idx

\* The compound write, which is kept up to date write by write, is what the
\* writes give when layered from the first (FWriteTree.m:142-196).
VisibleWritesExact == tree.visibleWrites = LayerTree(tree.allWrites)

\* The view, kept up to date by five kinds of operation in any order, shows
\* the last news of the server with the pending writes on top.
EventSnapExact ==
    tree.viewed => tree.eventSnap = Apply(LayerTree(tree.allWrites), tree.serverSnap)

\* An own write stays on the screen: from the call on, through its answer, lost
\* connections, resends and the listens after them, the view shows the last
\* value this device put on a path, unless the server refused a put there or
\* another device wrote there.  (A view that is not loaded shows only writes
\* without an answer.)  An abandoned answer keeps its put in the write tree, on
\* top of the news of later puts, until the location is listened to again.
OwnWritesStay ==
    tree.viewed => \A pa \in Paths \ (refused \cup foreign \cup abandoned) :
        writers[pa] # {} /\ (tree.complete \/ pa \in DOMAIN tree.visibleWrites)
            => tree.eventSnap[pa] = lastPut[Device][pa]

\* No news is lost, hidden as it may have been when it came, and a refused put
\* leaves no trace: when nothing is pending or under way, the view is what the
\* server stores.
AtRestExact ==
    /\ tree.viewed /\ serving /\ unackedListens = 0
    /\ inbox = <<>> /\ tree.allWrites = <<>>
    => tree.eventSnap = store

\* On an open connection nothing waits for what will not come.  Answers that
\* were put off, be it on an earlier connection, are being used, or a listen is
\* on its way to the server or its answer on the way back, which is the only
\* thing that sets them free (FPersistentConnection.m:393, 743); only answers
\* abandoned with their last observer do wait.  And a view gets the server's
\* news, or soon will, or is about to learn that it does not.
NoneStranded ==
    connected[Device] =>
        /\ (\E i \in DOMAIN putsToAck : putsToAck[i].put.path \notin abandoned) =>
              acking \/ listensSent > 0 \/ \E i \in DOMAIN inbox : inbox[i].type = "listen"
        /\ tree.viewed =>
              \/ serving \/ listensSent > 0
              \/ \E i \in DOMAIN inbox : inbox[i].type \in {"listen", "revoke"}

K == INSTANCE Listener WITH
        Refs <- {Ref}, Keys <- Paths, Vals <- Values, Absent <- None,
        MaxChanges <- 0, changes <- 0,
        cached <- [r \in {Ref} |->
                    IF tree.viewed THEN tree.eventSnap ELSE Apply(tree.visibleWrites, EmptyNode)]

\* To the screens the client is the simple listener: children that appear are
\* reported once to each observer, whatever puts, news, resent listens and
\* deferred answers made them appear.
ImplementsListener == K!Spec

\* A location that stays observed is in the end shown as the server stores it.
ViewConverges == <>[]tree.viewed => <>[](tree.eventSnap = store)
=============================================================================

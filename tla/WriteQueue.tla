----------------------------- MODULE WriteQueue -----------------------------
(***************************************************************************)
(* How a setValue or a removeValue of the app reaches the Realtime         *)
(* Database.  Every screen that writes (detail, cart, payment, profile)    *)
(* goes through this pipeline: the call returns at once, the SDK keeps the *)
(* put in the dictionary outstandingPuts under the next put index, sends   *)
(* it if the device is connected, drops it when the answer arrives, and    *)
(* on reconnection sends again every put that is still in the dictionary,  *)
(* in index order.  The dictionary is in memory only (the app never        *)
(* enables persistence), so the death of the process loses it.             *)
(*                                                                         *)
(* Abstractions.  A put is an index, a path and a value; removeValue is a  *)
(* put of None.  One connection carries its requests in order, so a        *)
(* request that has not been processed is a member of the set `wire` and   *)
(* the server takes the one of least index.  An authentication message     *)
(* travels in the same order as the puts: instead of a message, each       *)
(* request carries the authentication that was in force when it was sent.  *)
(* A request in flight when the connection is cut is lost; that the server *)
(* processed it and only the answer was lost is the other order of the two *)
(* steps.  The token of a new connection is checked before puts are sent,  *)
(* so `connected` is ConnectionStateConnected, and what is lost before it  *)
(* is no connection here (SyncTree has that state).  After a loss the SDK  *)
(* connects again unless the server killed the connection, which is left   *)
(* out.  The server and its security rules are external.                   *)
(***************************************************************************)
EXTENDS Integers, Sequences

CONSTANTS
    Devices,    \* installations of the app signed in to one account
    Paths,      \* leaves of the database the app writes
    Values,     \* what it writes there
    None,       \* no node at the path
    Batches,    \* the sequences of writes one handler makes
    Public,     \* paths the security rules let a signed-out client write
    MaxPuts,    \* bound on the put indices of a device
    MaxDisruptions  \* bound on lost connections, process deaths and sign-outs

ASSUME NoneAssumption == None \notin Values
ASSUME PublicAssumption == Public \subseteq Paths

Write == [path : Paths, val : Values \cup {None}]
ASSUME BatchesAssumption == \A batch \in Batches : batch \in Seq(Write)
ASSUME BoundsAssumption == MaxPuts \in Nat /\ MaxDisruptions \in Nat

VARIABLES
    store,            \* server: the value at each path
    outstandingPuts,  \* device: puts without an answer
    wire,             \* connection: requests sent and not processed
    responses,        \* connection: answers not yet received
    connected,        \* device: connectionState is Connected
    signedIn,         \* device: there is an auth token
    putCounter,       \* device: the next put index
    disruptions,      \* lost connections, deaths and sign-outs so far
    \* history, read by properties only
    lastPut,          \* the value a device last put on each path
    writers,          \* the devices that issued a put on each path
    refused,          \* paths with a put that the server refused
    died,             \* paths with a put that died with its process
    processed         \* device: indices of the puts the server processed

deviceVars == <<outstandingPuts, connected, signedIn, putCounter>>
history == <<lastPut, writers, refused, died, processed>>
queueVars == <<store, wire, responses, disruptions, deviceVars, history>>

Put == [idx : Nat, path : Paths, val : Values \cup {None}]
Request == [put : Put, auth : BOOLEAN]
Response == [put : Put, ok : BOOLEAN]

TypeOK ==
    /\ store \in [Paths -> Values \cup {None}]
    /\ outstandingPuts \in [Devices -> SUBSET Put]
    /\ wire \in [Devices -> SUBSET Request]
    /\ responses \in [Devices -> SUBSET Response]
    /\ connected \in [Devices -> BOOLEAN]
    /\ signedIn \in [Devices -> BOOLEAN]
    /\ putCounter \in [Devices -> Nat]
    /\ disruptions \in 0..MaxDisruptions
    /\ lastPut \in [Devices -> [Paths -> Values \cup {None}]]
    /\ writers \in [Paths -> SUBSET Devices]
    /\ refused \subseteq Paths /\ died \subseteq Paths
    /\ processed \in [Devices -> SUBSET Nat]

Init ==
    /\ store \in [Paths -> Values \cup {None}]
    /\ outstandingPuts = [d \in Devices |-> {}]
    /\ wire = [d \in Devices |-> {}]
    /\ responses = [d \in Devices |-> {}]
    /\ connected = [d \in Devices |-> FALSE]
    /\ signedIn = [d \in Devices |-> TRUE]
    /\ putCounter = [d \in Devices |-> 1]
    /\ disruptions = 0
    /\ lastPut = [d \in Devices |-> store]
    /\ writers = [pa \in Paths |-> {}]
    /\ refused = {} /\ died = {}
    /\ processed = [d \in Devices |-> {}]

-----------------------------------------------------------------------------
(* The device. *)

\* The puts of a batch take consecutive indices.
PutsOf(d, batch) ==
    {[idx |-> putCounter[d] + i - 1, path |-> batch[i].path, val |-> batch[i].val] :
        i \in DOMAIN batch}

RequestsOf(d, puts) == {[put |-> pt, auth |-> signedIn[d]] : pt \in puts}

\* The last write of a batch on a path is the one that stays.
LastOf(batch, pa) ==
    LET on == {i \in DOMAIN batch : batch[i].path = pa}
    IN  batch[CHOOSE i \in on : \A j \in on : j <= i].val

PathsOf(batch) == {batch[i].path : i \in DOMAIN batch}

\* setValue / removeValue, once per write of the batch.
Issue(d, batch) ==
    /\ putCounter[d] + Len(batch) <= MaxPuts + 1
    /\ outstandingPuts' = [outstandingPuts EXCEPT ![d] = @ \cup PutsOf(d, batch)]
    /\ putCounter' = [putCounter EXCEPT ![d] = @ + Len(batch)]
    /\ wire' = [wire EXCEPT ![d] =
                  IF connected[d] THEN @ \cup RequestsOf(d, PutsOf(d, batch)) ELSE @]
    /\ lastPut' = [lastPut EXCEPT ![d] =
                    [pa \in Paths |->
                        IF pa \in PathsOf(batch) THEN LastOf(batch, pa) ELSE @[pa]]]
    /\ writers' = [pa \in Paths |->
                     IF pa \in PathsOf(batch) THEN writers[pa] \cup {d} ELSE writers[pa]]
    /\ UNCHANGED <<store, responses, connected, signedIn, disruptions, refused, died, processed>>

\* The puts restoreState sends, and mutants that miss the first key or all.
ResentButFirst(d) == {pt \in outstandingPuts[d] : \E q \in outstandingPuts[d] : q.idx < pt.idx}
ResentNone(d) == {}
Resent(d) == outstandingPuts[d]

\* restoreState: every outstanding put is sent again, under the current token.
Connect(d) ==
    /\ ~connected[d]
    /\ connected' = [connected EXCEPT ![d] = TRUE]
    /\ wire' = [wire EXCEPT ![d] = RequestsOf(d, Resent(d))]
    /\ UNCHANGED <<store, outstandingPuts, responses, signedIn, putCounter, disruptions, history>>

\* onDisconnect keeps the puts; what was on the connection is gone.
Disconnect(d) ==
    /\ connected[d]
    /\ disruptions < MaxDisruptions
    /\ disruptions' = disruptions + 1
    /\ connected' = [connected EXCEPT ![d] = FALSE]
    /\ wire' = [wire EXCEPT ![d] = {}]
    /\ responses' = [responses EXCEPT ![d] = {}]
    /\ UNCHANGED <<store, outstandingPuts, signedIn, putCounter, history>>

\* The puts an answer r settles, and a mutant that keys them by path.
SettledByPath(d, r) == {pt \in outstandingPuts[d] : pt.path = r.put.path}
SettledBy(d, r) == {r.put}

\* The answer to a put: it leaves the dictionary, granted or refused.
Answer(d) ==
    \E r \in responses[d] :
        /\ \A q \in responses[d] : r.put.idx <= q.put.idx
        /\ responses' = [responses EXCEPT ![d] = @ \ {r}]
        /\ outstandingPuts' = [outstandingPuts EXCEPT ![d] = @ \ SettledBy(d, r)]
        /\ UNCHANGED <<store, wire, connected, signedIn, putCounter, disruptions, history>>

\* The process dies: the puts it had no answer for die with it.
Kill(d) ==
    /\ disruptions < MaxDisruptions
    /\ disruptions' = disruptions + 1
    /\ connected' = [connected EXCEPT ![d] = FALSE]
    /\ wire' = [wire EXCEPT ![d] = {}]
    /\ responses' = [responses EXCEPT ![d] = {}]
    /\ outstandingPuts' = [outstandingPuts EXCEPT ![d] = {}]
    /\ died' = died \cup {pt.path : pt \in outstandingPuts[d]}
    /\ UNCHANGED <<store, signedIn, putCounter, lastPut, writers, refused, processed>>

\* refreshAuthToken with a token, and with none.
SignIn(d) ==
    /\ ~signedIn[d]
    /\ signedIn' = [signedIn EXCEPT ![d] = TRUE]
    /\ UNCHANGED <<store, outstandingPuts, wire, responses, connected, putCounter, disruptions, history>>

SignOut(d) ==
    /\ signedIn[d]
    /\ disruptions < MaxDisruptions
    /\ disruptions' = disruptions + 1
    /\ signedIn' = [signedIn EXCEPT ![d] = FALSE]
    /\ UNCHANGED <<store, outstandingPuts, wire, responses, connected, putCounter, history>>

-----------------------------------------------------------------------------
(* The server. *)

Granted(m) == m.auth \/ m.put.path \in Public

\* The server processes the oldest request of a connection.
Process(d) ==
    \E m \in wire[d] :
        /\ \A n \in wire[d] : m.put.idx <= n.put.idx
        /\ wire' = [wire EXCEPT ![d] = @ \ {m}]
        /\ responses' = [responses EXCEPT ![d] = @ \cup {[put |-> m.put, ok |-> Granted(m)]}]
        /\ store' = IF Granted(m) THEN [store EXCEPT ![m.put.path] = m.put.val] ELSE store
        /\ refused' = IF Granted(m) THEN refused ELSE refused \cup {m.put.path}
        /\ processed' = [processed EXCEPT ![d] = @ \cup {m.put.idx}]
        /\ UNCHANGED <<deviceVars, disruptions, lastPut, writers, died>>

\* What happens without a handler of the app.
Background ==
    \E d \in Devices :
        Connect(d) \/ Disconnect(d) \/ Answer(d) \/ Process(d)

Next ==
    \/ Background
    \/ \E d \in Devices :
        \/ \E batch \in Batches : Issue(d, batch)
        \/ Kill(d) \/ SignIn(d) \/ SignOut(d)

\* The reconnect timer keeps retrying, the server keeps answering.
Fairness ==
    \A d \in Devices :
        WF_connected(Connect(d)) /\ WF_responses(Answer(d)) /\ WF_wire(Process(d))

Spec == Init /\ [][Next]_queueVars
FairSpec == Spec /\ Fairness

-----------------------------------------------------------------------------
(* Properties. *)

spoiled == refused \cup died

\* Cuts and resends do not let a put overtake an older one: when the server
\* has processed a put, it has processed all the puts of that device which
\* were issued before it and are still outstanding (restoreState sends them
\* in index order, FPersistentConnection.m:1128-1133).
Ordered(d) ==
    \A i \in processed[d], pt \in outstandingPuts[d] :
        pt.idx < i => pt.idx \in processed[d]
InOrder == \A d \in Devices : Ordered(d)

Pending(d, pa) == \E pt \in outstandingPuts[d] : pt.path = pa

\* Sending puts again does no lasting harm: once no device has a put
\* outstanding on a path, the path holds the last value that some device put
\* there, not one of the older values the resends brought back meanwhile.
\* Nothing is said of a path with a refused put or a put that died.
Converged ==
    \A pa \in Paths \ spoiled :
        writers[pa] # {} /\ (\A d \in Devices : ~Pending(d, pa))
            => \E d \in writers[pa] : store[pa] = lastPut[d][pa]

\* On an open connection a put waits for nothing but the server: whatever was
\* cut, answered or made while there was no connection, each outstanding put is
\* on its way as a request or its answer is on the way back.  Nothing but
\* putInternal and restoreState ever sends it (FPersistentConnection.m:816,
\* 1128-1133), so one that both had missed would wait for the next cut.
OnTheWay(d, pt) ==
    (\E m \in wire[d] : m.put = pt) \/ (\E r \in responses[d] : r.put = pt)
NoneForgotten ==
    \A d \in Devices : connected[d] => \A pt \in outstandingPuts[d] : OnTheWay(d, pt)

\* With a connection that is cut finitely often, no put waits forever.
AllAnswered == \A d \in Devices : []<>(outstandingPuts[d] = {})

-----------------------------------------------------------------------------
(* The inductive invariant behind InOrder and Converged. *)

\* An index names one put, and no put has an index yet to be given.
Indexed(d) ==
    /\ \A pt \in outstandingPuts[d] : pt.idx < putCounter[d]
    /\ \A p, q \in outstandingPuts[d] : p.idx = q.idx => p = q
    /\ \A i \in processed[d] : i < putCounter[d]

\* A put is on the connection once.
Once(d) ==
    /\ \A m, n \in wire[d] : m.put = n.put => m = n
    /\ \A r, q \in responses[d] : r.put = q.put => r = q

\* While connected, every outstanding put is on the connection, as a request
\* or as an answer, and the answers are to the older puts.
Sent(d) ==
    /\ \A m \in wire[d] : m.put \in outstandingPuts[d]
    /\ \A r \in responses[d] : r.put \in outstandingPuts[d] /\ r.put.idx \in processed[d]
    /\ \A m \in wire[d], r \in responses[d] : r.put.idx < m.put.idx
    /\ connected[d] => \A pt \in outstandingPuts[d] :
                          \/ \E m \in wire[d] : m.put = pt
                          \/ \E r \in responses[d] : r.put = pt
    /\ ~connected[d] => wire[d] = {} /\ responses[d] = {}

\* The newest outstanding put on a path carries the last value put there.
Newest(d) ==
    \A pt \in outstandingPuts[d] :
        /\ d \in writers[pt.path]
        /\ (\A q \in outstandingPuts[d] : q.path = pt.path => q.idx <= pt.idx)
              => pt.val = lastPut[d][pt.path]

DeviceInv(d) == Indexed(d) /\ Once(d) /\ Sent(d) /\ Ordered(d) /\ Newest(d)

\* The server still has to process a put of d on pa, for the first time or again.
Unsettled(d, pa) ==
    IF connected[d] THEN \E m \in wire[d] : m.put.path = pa ELSE Pending(d, pa)

Settled ==
    \A pa \in Paths \ spoiled :
        writers[pa] # {} => \E d \in writers[pa] :
            Unsettled(d, pa) \/ store[pa] = lastPut[d][pa]

Inv == (\A d \in Devices : DeviceInv(d)) /\ Settled
=============================================================================

-------------------------- MODULE WriteQueueProofs --------------------------
(* Theorems about WriteQueue, for any devices, paths, values and bounds.   *)
EXTENDS WriteQueue, WellFoundedInduction, TLAPS

-----------------------------------------------------------------------------
(* Helpers. *)

\* A nonempty set of numbers up to n has a greatest element.
LEMMA Greatest ==
    ASSUME NEW n \in Nat, NEW S \in SUBSET (1..n), S # {}
    PROVE  \E i \in S : \A j \in S : j <= i
<1> DEFINE T == {n - i : i \in S}
<1>1. T \subseteq Nat /\ T # {}
  <2>1. \A i \in S : i \in 1..n
    OBVIOUS
  <2>2. \A i \in S : n - i \in Nat
    BY <2>1
  <2>3. T \subseteq Nat
    BY <2>2
  <2>4. PICK i \in S : TRUE
    OBVIOUS
  <2>5. n - i \in T
    BY <2>4
  <2>6. QED
    BY <2>3, <2>5
<1>2. PICK x \in T : \A y \in T : ~(<<y, x>> \in OpToRel(<, Nat))
  BY <1>1, NatLessThanWellFounded, WFMin
<1>3. \A y \in T : ~(y < x)
  BY <1>1, <1>2 DEF OpToRel
<1>4. PICK i \in S : x = n - i
  OBVIOUS
<1>5. ASSUME NEW j \in S
      PROVE  j <= i
  <2>1. n - j \in T
    OBVIOUS
  <2>2. ~(n - j < n - i)
    BY <1>3, <1>4, <2>1
  <2>3. QED
    BY <2>2
<1>6. QED
  BY <1>5

\* What a batch of the model is.
LEMMA BatchType ==
    ASSUME NEW batch \in Batches
    PROVE  /\ Len(batch) \in Nat
           /\ DOMAIN batch = 1..Len(batch)
           /\ \A i \in DOMAIN batch : batch[i].path \in Paths /\ batch[i].val \in Values \cup {None}
<1>1. batch \in Seq(Write)
  BY BatchesAssumption
<1>2. Len(batch) \in Nat /\ DOMAIN batch = 1..Len(batch) /\ \A i \in DOMAIN batch : batch[i] \in Write
  BY <1>1
<1>3. QED
  BY <1>2 DEF Write

\* The last write of a batch on a path it writes.
LEMMA LastOfBatch ==
    ASSUME NEW batch \in Batches, NEW pa \in PathsOf(batch)
    PROVE  \E i \in DOMAIN batch :
              /\ batch[i].path = pa
              /\ \A j \in DOMAIN batch : batch[j].path = pa => j <= i
              /\ LastOf(batch, pa) = batch[i].val
<1> DEFINE on == {i \in DOMAIN batch : batch[i].path = pa}
<1>1. on \in SUBSET (1..Len(batch)) /\ on # {} /\ Len(batch) \in Nat
  BY BatchType DEF PathsOf
<1>2. \E i \in on : \A j \in on : j <= i
  BY <1>1, Greatest
<1> DEFINE last == CHOOSE i \in on : \A j \in on : j <= i
<1>3. last \in on /\ \A j \in on : j <= last
  BY <1>2
<1>4. LastOf(batch, pa) = batch[last].val
  BY DEF LastOf
<1> HIDE DEF last
<1>5. QED
  BY <1>3, <1>4

\* A batch becomes well-formed puts, with distinct indices from putCounter on.
LEMMA PutsOfType ==
    ASSUME TypeOK, NEW d \in Devices, NEW batch \in Batches
    PROVE  /\ PutsOf(d, batch) \subseteq Put
           /\ \A pt \in PutsOf(d, batch) : putCounter[d] <= pt.idx /\ pt.idx < putCounter[d] + Len(batch)
           /\ \A p, q \in PutsOf(d, batch) : p.idx = q.idx => p = q
           /\ RequestsOf(d, PutsOf(d, batch)) \subseteq Request
<1>1. putCounter[d] \in Nat /\ signedIn[d] \in BOOLEAN
  BY DEF TypeOK
<1>2. PutsOf(d, batch) \subseteq Put
  BY <1>1, BatchType DEF PutsOf, Put
<1>3. \A pt \in PutsOf(d, batch) : putCounter[d] <= pt.idx /\ pt.idx < putCounter[d] + Len(batch)
  BY <1>1, BatchType DEF PutsOf
<1>4. \A p, q \in PutsOf(d, batch) : p.idx = q.idx => p = q
  <2> SUFFICES ASSUME NEW i \in DOMAIN batch, NEW j \in DOMAIN batch,
                      putCounter[d] + i - 1 = putCounter[d] + j - 1
               PROVE  i = j
    BY DEF PutsOf
  <2> QED
    BY <1>1, BatchType
<1>5. QED
  BY <1>1, <1>2, <1>3, <1>4 DEF RequestsOf, Request

-----------------------------------------------------------------------------
(* Type correctness. *)

\* Every step of the pipeline keeps the types of its state.
LEMMA TypeStep == TypeOK /\ [Next]_queueVars => TypeOK'
<1> SUFFICES ASSUME TypeOK, [Next]_queueVars
             PROVE  TypeOK'
  OBVIOUS
<1> USE BoundsAssumption
<1>1. ASSUME NEW d \in Devices, NEW batch \in Batches, Issue(d, batch)
      PROVE  TypeOK'
  <2>1. outstandingPuts' \in [Devices -> SUBSET Put]
    BY <1>1, PutsOfType DEF TypeOK, Issue
  <2>2. wire' \in [Devices -> SUBSET Request]
    BY <1>1, PutsOfType DEF TypeOK, Issue
  <2>3. putCounter' \in [Devices -> Nat]
    BY <1>1, BatchType DEF TypeOK, Issue
  <2>4. lastPut' \in [Devices -> [Paths -> Values \cup {None}]]
    <3>1. \A pa \in PathsOf(batch) : LastOf(batch, pa) \in Values \cup {None}
      BY LastOfBatch, BatchType
    <3>2. QED
      BY <1>1, <3>1 DEF TypeOK, Issue
  <2>5. writers' \in [Paths -> SUBSET Devices]
    BY <1>1 DEF TypeOK, Issue
  <2>6. QED
    BY <1>1, <2>1, <2>2, <2>3, <2>4, <2>5 DEF TypeOK, Issue
<1>2. ASSUME NEW d \in Devices, Connect(d)
      PROVE  TypeOK'
  <2>1. RequestsOf(d, outstandingPuts[d]) \subseteq Request
    BY DEF TypeOK, RequestsOf, Request
  <2>2. QED
    BY <1>2, <2>1 DEF TypeOK, Connect, Resent, history
<1>3. ASSUME NEW d \in Devices, Disconnect(d)
      PROVE  TypeOK'
  BY <1>3 DEF TypeOK, Disconnect, history
<1>4. ASSUME NEW d \in Devices, Answer(d)
      PROVE  TypeOK'
  BY <1>4 DEF TypeOK, Answer, SettledBy, history
<1>5. ASSUME NEW d \in Devices, Kill(d)
      PROVE  TypeOK'
  <2>1. {pt.path : pt \in outstandingPuts[d]} \subseteq Paths
    BY DEF TypeOK, Put
  <2>2. QED
    BY <1>5, <2>1 DEF TypeOK, Kill
<1>6. ASSUME NEW d \in Devices, SignIn(d) \/ SignOut(d)
      PROVE  TypeOK'
  <2>1. CASE SignIn(d)
    BY <2>1 DEF TypeOK, SignIn, history
  <2>2. CASE SignOut(d)
    BY <2>2 DEF TypeOK, SignOut, history
  <2>3. QED
    BY <1>6, <2>1, <2>2
<1>7. ASSUME NEW d \in Devices, Process(d)
      PROVE  TypeOK'
  <2>1. PICK m \in wire[d] : Process(d)!(m)
    BY <1>7 DEF Process
  <2>2. m \in Request /\ m.put \in Put
    BY DEF TypeOK, Request
  <2>3. m.put.idx \in Nat /\ m.put.path \in Paths /\ m.put.val \in Values \cup {None}
    BY <2>2 DEF Put
  <2>4. Granted(m) \in BOOLEAN
    BY <2>2 DEF Granted, Request
  <2>5. [put |-> m.put, ok |-> Granted(m)] \in Response
    BY <2>2, <2>4 DEF Response
  <2>6. responses' \in [Devices -> SUBSET Response]
    BY <2>1, <2>5 DEF TypeOK
  <2>7. store' \in [Paths -> Values \cup {None}] /\ refused' \subseteq Paths
    BY <2>1, <2>3 DEF TypeOK
  <2>8. processed' \in [Devices -> SUBSET Nat] /\ wire' \in [Devices -> SUBSET Request]
    BY <2>1, <2>3 DEF TypeOK
  <2>9. QED
    BY <2>1, <2>6, <2>7, <2>8 DEF TypeOK, deviceVars
<1>8. CASE UNCHANGED queueVars
  BY <1>8 DEF TypeOK, queueVars, deviceVars, history
<1>9. QED
  BY <1>1, <1>2, <1>3, <1>4, <1>5, <1>6, <1>7, <1>8 DEF Next, Background
-----------------------------------------------------------------------------
(* The inductive invariant. *)

USE DEF Put, Request, Response

\* A device whose own state does not change keeps its part of the invariant.
LEMMA Untouched ==
    ASSUME TypeOK, NEW d \in Devices, DeviceInv(d),
           outstandingPuts'[d] = outstandingPuts[d], wire'[d] = wire[d],
           responses'[d] = responses[d], connected'[d] = connected[d],
           putCounter'[d] = putCounter[d], processed'[d] = processed[d],
           lastPut'[d] = lastPut[d],
           \A pa \in Paths : writers[pa] \subseteq writers'[pa]
    PROVE  DeviceInv(d)'
<1>1. Indexed(d)' /\ Once(d)' /\ Sent(d)' /\ Ordered(d)'
  BY DEF DeviceInv, Indexed, Once, Sent, Ordered
<1>2. Newest(d)'
  <2>1. \A pt \in outstandingPuts[d] : pt.path \in Paths
    BY DEF TypeOK
  <2>2. QED
    BY <2>1 DEF DeviceInv, Newest
<1>3. QED
  BY <1>1, <1>2 DEF DeviceInv

\* The device that issues a batch keeps its part of the invariant.
LEMMA IssueStep ==
    ASSUME TypeOK, NEW d \in Devices, DeviceInv(d), NEW batch \in Batches, Issue(d, batch)
    PROVE  DeviceInv(d)'
<1> DEFINE new == PutsOf(d, batch)
<1>1. /\ outstandingPuts'[d] = outstandingPuts[d] \cup new
      /\ wire'[d] = IF connected[d] THEN wire[d] \cup RequestsOf(d, new) ELSE wire[d]
      /\ putCounter'[d] = putCounter[d] + Len(batch)
      /\ responses' = responses /\ connected' = connected /\ processed' = processed
  BY DEF Issue, TypeOK
<1>2. /\ \A pt \in new : pt \in Put /\ putCounter[d] <= pt.idx /\ pt.idx < putCounter[d] + Len(batch)
      /\ \A p, q \in new : p.idx = q.idx => p = q
      /\ putCounter[d] \in Nat /\ Len(batch) \in Nat
      /\ outstandingPuts[d] \subseteq Put /\ processed[d] \subseteq Nat
  BY PutsOfType, BatchType DEF TypeOK
<1>3. \A pt \in outstandingPuts[d] : pt.idx < putCounter[d]
  BY DEF DeviceInv, Indexed
<1> HIDE DEF new
<1>4. Indexed(d)'
  BY <1>1, <1>2 DEF DeviceInv, Indexed
<1>5. Once(d)' /\ Sent(d)'
  <2>1. CASE ~connected[d]
    BY <2>1, <1>1 DEF DeviceInv, Once, Sent
  <2>2. CASE connected[d]
    <3>1. wire'[d] = wire[d] \cup RequestsOf(d, new)
      BY <2>2, <1>1
    <3>2. \A m \in RequestsOf(d, new) : m.put \in new /\ m = [put |-> m.put, auth |-> signedIn[d]]
      BY DEF RequestsOf
    <3>3. ASSUME NEW pt \in new
          PROVE  \E m \in RequestsOf(d, new) : m.put = pt
      <4>1. [put |-> pt, auth |-> signedIn[d]] \in RequestsOf(d, new)
        BY DEF RequestsOf
      <4>2. QED
        BY <4>1
    <3>4. \A m \in wire[d] : m.put \notin new
      BY <1>2, <1>3 DEF DeviceInv, Sent
    <3>5. Once(d)'
      BY <1>1, <3>1, <3>2, <3>4 DEF DeviceInv, Once
    <3>6. \A m \in wire'[d] : m.put \in outstandingPuts'[d]
      BY <1>1, <3>1, <3>2 DEF DeviceInv, Sent
    <3>7. \A m \in wire'[d], r \in responses'[d] : r.put.idx < m.put.idx
      <4>1. \A m \in RequestsOf(d, new), r \in responses[d] : r.put.idx < m.put.idx
        BY <1>2, <1>3, <3>2 DEF DeviceInv, Sent
      <4>2. QED
        BY <4>1, <1>1, <3>1 DEF DeviceInv, Sent
    <3>8. \A pt \in outstandingPuts'[d] :
             \/ \E m \in wire'[d] : m.put = pt
             \/ \E r \in responses'[d] : r.put = pt
      BY <2>2, <1>1, <3>1, <3>3 DEF DeviceInv, Sent
    <3>9. QED
      BY <2>2, <1>1, <3>5, <3>6, <3>7, <3>8 DEF DeviceInv, Sent
  <2>3. QED
    BY <2>1, <2>2 DEF TypeOK
<1>6. Ordered(d)'
  BY <1>1, <1>2 DEF DeviceInv, Ordered, Indexed
<1>7. Newest(d)'
  <2>1. \A pa \in Paths : /\ writers[pa] \subseteq writers'[pa]
                          /\ pa \in PathsOf(batch) => d \in writers'[pa]
                          /\ lastPut'[d][pa] = IF pa \in PathsOf(batch) THEN LastOf(batch, pa) ELSE lastPut[d][pa]
    BY DEF Issue, TypeOK
  <2>2. ASSUME NEW pt \in outstandingPuts'[d]
        PROVE  /\ d \in writers'[pt.path]
               /\ (\A q \in outstandingPuts'[d] : q.path = pt.path => q.idx <= pt.idx)
                     => pt.val = lastPut'[d][pt.path]
    <3>1. CASE pt.path \in PathsOf(batch)
      <4>1. PICK i \in DOMAIN batch :
                   /\ batch[i].path = pt.path
                   /\ \A j \in DOMAIN batch : batch[j].path = pt.path => j <= i
                   /\ LastOf(batch, pt.path) = batch[i].val
        BY <3>1, LastOfBatch
      <4> DEFINE last == [idx |-> putCounter[d] + i - 1, path |-> batch[i].path, val |-> batch[i].val]
      <4>2. last \in new /\ last.path = pt.path /\ last.val = LastOf(batch, pt.path)
        BY <4>1 DEF PutsOf, new
      <4>3. pt.path \in Paths
        BY <1>1, <1>2
      <4>4. ASSUME \A q \in outstandingPuts'[d] : q.path = pt.path => q.idx <= pt.idx
            PROVE  pt = last
        <5>1. last.idx <= pt.idx
          BY <4>2, <4>4, <1>1
        <5>2. pt \in new
          BY <5>1, <4>2, <1>1, <1>2, <1>3
        <5>3. PICK j \in DOMAIN batch : pt = [idx |-> putCounter[d] + j - 1, path |-> batch[j].path, val |-> batch[j].val]
          BY <5>2 DEF PutsOf, new
        <5>4. j <= i /\ i \in Nat /\ j \in Nat
          BY <5>3, <4>1, BatchType
        <5>5. pt.idx = last.idx
          BY <5>1, <5>3, <5>4, <1>2
        <5>6. QED
          BY <5>5, <5>2, <4>2, <1>2
      <4>5. d \in writers'[pt.path] /\ lastPut'[d][pt.path] = LastOf(batch, pt.path)
        BY <2>1, <3>1, <4>3
      <4>6. QED
        BY <4>2, <4>4, <4>5
    <3>2. CASE pt.path \notin PathsOf(batch)
      <4>1. pt \notin new
        BY <3>2 DEF new, PutsOf, PathsOf
      <4>2. pt \in outstandingPuts[d] /\ pt.path \in Paths
        BY <4>1, <1>1, <1>2
      <4>3. d \in writers'[pt.path] /\ lastPut'[d][pt.path] = lastPut[d][pt.path]
        BY <2>1, <3>2, <4>2 DEF DeviceInv, Newest
      <4>4. QED
        BY <4>2, <4>3, <1>1 DEF DeviceInv, Newest
    <3>3. QED
      BY <3>1, <3>2
  <2>3. QED
    BY <2>2 DEF Newest
<1>8. QED
  BY <1>4, <1>5, <1>6, <1>7 DEF DeviceInv

\* So does the device that connects and sends its puts again.
LEMMA ConnectStep ==
    ASSUME TypeOK, NEW d \in Devices, DeviceInv(d), Connect(d)
    PROVE  DeviceInv(d)'
<1> DEFINE sent == RequestsOf(d, outstandingPuts[d])
<1>1. /\ ~connected[d] /\ connected'[d]
      /\ wire'[d] = sent
      /\ outstandingPuts' = outstandingPuts /\ responses' = responses
      /\ putCounter' = putCounter /\ processed' = processed
      /\ writers' = writers /\ lastPut' = lastPut
  BY DEF Connect, Resent, TypeOK, history
<1>2. \A m \in sent : m.put \in outstandingPuts[d] /\ m = [put |-> m.put, auth |-> signedIn[d]]
  BY DEF RequestsOf
<1>3. ASSUME NEW pt \in outstandingPuts[d]
      PROVE  \E m \in sent : m.put = pt
  <2>1. [put |-> pt, auth |-> signedIn[d]] \in sent
    BY DEF RequestsOf
  <2>2. QED
    BY <2>1
<1>4. responses[d] = {}
  BY <1>1 DEF DeviceInv, Sent
<1> HIDE DEF sent
<1>5. Indexed(d)' /\ Ordered(d)' /\ Newest(d)'
  BY <1>1 DEF DeviceInv, Indexed, Ordered, Newest
<1>6. Once(d)' /\ Sent(d)'
  BY <1>1, <1>2, <1>3, <1>4 DEF Once, Sent
<1>7. QED
  BY <1>5, <1>6 DEF DeviceInv

\* So does the device whose connection is cut or whose process dies.
LEMMA CutStep ==
    ASSUME TypeOK, NEW d \in Devices, DeviceInv(d), Disconnect(d) \/ Kill(d)
    PROVE  DeviceInv(d)'
<1>1. /\ ~connected'[d] /\ wire'[d] = {} /\ responses'[d] = {}
      /\ outstandingPuts'[d] \subseteq outstandingPuts[d]
      /\ outstandingPuts'[d] = outstandingPuts[d] \/ outstandingPuts'[d] = {}
      /\ putCounter' = putCounter /\ processed' = processed
      /\ writers' = writers /\ lastPut' = lastPut
  BY DEF Disconnect, Kill, TypeOK, history
<1>2. Indexed(d)' /\ Once(d)' /\ Sent(d)' /\ Ordered(d)'
  BY <1>1 DEF DeviceInv, Indexed, Once, Sent, Ordered
<1>3. Newest(d)'
  BY <1>1 DEF DeviceInv, Newest
<1>4. QED
  BY <1>2, <1>3 DEF DeviceInv

\* So does the device that receives an answer.
LEMMA AnswerStep ==
    ASSUME TypeOK, NEW d \in Devices, DeviceInv(d), Answer(d)
    PROVE  DeviceInv(d)'
<1>1. PICK r \in responses[d] : Answer(d)!(r)
  BY DEF Answer
<1>2. /\ responses'[d] = responses[d] \ {r}
      /\ outstandingPuts'[d] = outstandingPuts[d] \ {r.put}
      /\ wire' = wire /\ connected' = connected
      /\ putCounter' = putCounter /\ processed' = processed
      /\ writers' = writers /\ lastPut' = lastPut
  BY <1>1 DEF SettledBy, TypeOK, history
<1>3. outstandingPuts[d] \subseteq Put /\ r.put \in Put /\ connected[d]
  BY DEF TypeOK, DeviceInv, Sent
<1>4. Indexed(d)' /\ Once(d)' /\ Ordered(d)'
  BY <1>2 DEF DeviceInv, Indexed, Once, Ordered
<1>5. Sent(d)'
  <2>1. \A m \in wire[d] : m.put # r.put
    BY <1>3 DEF DeviceInv, Sent
  <2>2. \A q \in responses[d] \ {r} : q.put # r.put
    BY DEF DeviceInv, Once
  <2>3. QED
    BY <1>2, <1>3, <2>1, <2>2 DEF DeviceInv, Sent
<1>6. Newest(d)'
  \* The put that leaves is the oldest one, so it was not hiding a newer one.
  <2>1. \A pt \in outstandingPuts[d] : pt # r.put => r.put.idx < pt.idx
    <3>1. ASSUME NEW pt \in outstandingPuts[d], pt # r.put
          PROVE  r.put.idx <= pt.idx
      <4>1. CASE \E m \in wire[d] : m.put = pt
        BY <4>1, <1>3 DEF DeviceInv, Sent
      <4>2. CASE \E q \in responses[d] : q.put = pt
        BY <4>2, <1>1
      <4>3. QED
        BY <4>1, <4>2, <1>3 DEF DeviceInv, Sent
    <3>2. r.put \in outstandingPuts[d]
      BY DEF DeviceInv, Sent
    <3>3. QED
      BY <3>1, <3>2, <1>3 DEF DeviceInv, Indexed
  <2>2. \A pt \in outstandingPuts'[d] :
          (\A q \in outstandingPuts'[d] : q.path = pt.path => q.idx <= pt.idx)
            => (\A q \in outstandingPuts[d] : q.path = pt.path => q.idx <= pt.idx)
    BY <1>2, <1>3, <2>1
  <2>3. QED
    BY <1>2, <2>2 DEF DeviceInv, Newest
<1>7. QED
  BY <1>4, <1>5, <1>6 DEF DeviceInv

\* So does the device one of whose puts the server processes.
LEMMA ProcessStep ==
    ASSUME TypeOK, NEW d \in Devices, DeviceInv(d), Process(d)
    PROVE  DeviceInv(d)'
<1>1. PICK m \in wire[d] : Process(d)!(m)
  BY DEF Process
<1> DEFINE answer == [put |-> m.put, ok |-> Granted(m)]
<1>2. /\ wire'[d] = wire[d] \ {m}
      /\ responses'[d] = responses[d] \cup {answer}
      /\ processed'[d] = processed[d] \cup {m.put.idx}
      /\ outstandingPuts' = outstandingPuts /\ connected' = connected
      /\ putCounter' = putCounter /\ writers' = writers /\ lastPut' = lastPut
  BY <1>1 DEF TypeOK, deviceVars
<1>3. answer.put = m.put
  OBVIOUS
<1>4. /\ outstandingPuts[d] \subseteq Put /\ processed[d] \subseteq Nat
      /\ m.put \in outstandingPuts[d] /\ connected[d]
      /\ \A n \in wire[d] : n.put \in outstandingPuts[d]
  BY DEF TypeOK, DeviceInv, Sent
<1> HIDE DEF answer
<1>5. Indexed(d)' /\ Newest(d)'
  BY <1>2, <1>4 DEF DeviceInv, Indexed, Newest
<1>6. Once(d)'
  BY <1>2, <1>3, <1>4 DEF DeviceInv, Once, Sent
<1>7. Sent(d)'
  <2>1. \A n \in wire[d] \ {m} : m.put.idx < n.put.idx
    <3>1. ASSUME NEW n \in wire[d] \ {m}
          PROVE  m.put.idx < n.put.idx
      <4>1. n.put # m.put
        BY DEF DeviceInv, Once
      <4>2. n.put.idx # m.put.idx
        BY <4>1, <1>4 DEF DeviceInv, Indexed
      <4>3. m.put.idx <= n.put.idx
        BY <1>1
      <4>4. QED
        BY <4>2, <4>3, <1>4
    <3>2. QED
      BY <3>1
  <2>2. \A n \in wire'[d], r \in responses'[d] : r.put.idx < n.put.idx
    BY <2>1, <1>2, <1>3 DEF DeviceInv, Sent
  <2>3. \A pt \in outstandingPuts'[d] :
           \/ \E n \in wire'[d] : n.put = pt
           \/ \E r \in responses'[d] : r.put = pt
    BY <1>2, <1>3, <1>4 DEF DeviceInv, Sent
  <2>4. QED
    BY <2>2, <2>3, <1>2, <1>3, <1>4 DEF DeviceInv, Sent
<1>8. Ordered(d)'
  \* The request is the oldest one, so all older puts have been answered.
  <2>1. ASSUME NEW pt \in outstandingPuts[d], pt.idx < m.put.idx
        PROVE  pt.idx \in processed[d]
    <3>1. ~ \E n \in wire[d] : n.put = pt
      BY <2>1, <1>1, <1>4
    <3>2. QED
      BY <3>1, <1>4 DEF DeviceInv, Sent
  <2>2. QED
    BY <2>1, <1>2 DEF DeviceInv, Ordered
<1>9. QED
  BY <1>5, <1>6, <1>7, <1>8 DEF DeviceInv

\* Every device keeps its part of the invariant in every step.
LEMMA DeviceStep ==
    ASSUME TypeOK, \A d \in Devices : DeviceInv(d), [Next]_queueVars, NEW e \in Devices
    PROVE  DeviceInv(e)'
<1>1. ASSUME NEW d \in Devices, NEW batch \in Batches, Issue(d, batch)
      PROVE  DeviceInv(e)'
  <2>1. CASE d = e
    BY <2>1, <1>1, IssueStep
  <2>2. CASE d # e
    BY <2>2, <1>1, Untouched DEF Issue, TypeOK
  <2>3. QED
    BY <2>1, <2>2
<1>2. ASSUME NEW d \in Devices, Connect(d)
      PROVE  DeviceInv(e)'
  <2>1. CASE d = e
    BY <2>1, <1>2, ConnectStep
  <2>2. CASE d # e
    BY <2>2, <1>2, Untouched DEF Connect, Resent, TypeOK, history
  <2>3. QED
    BY <2>1, <2>2
<1>3. ASSUME NEW d \in Devices, Disconnect(d) \/ Kill(d)
      PROVE  DeviceInv(e)'
  <2>1. CASE d = e
    BY <2>1, <1>3, CutStep
  <2>2. CASE d # e
    BY <2>2, <1>3, Untouched DEF Disconnect, Kill, TypeOK, history
  <2>3. QED
    BY <2>1, <2>2
<1>4. ASSUME NEW d \in Devices, Answer(d)
      PROVE  DeviceInv(e)'
  <2>1. CASE d = e
    BY <2>1, <1>4, AnswerStep
  <2>2. CASE d # e
    BY <2>2, <1>4, Untouched DEF Answer, SettledBy, TypeOK, history
  <2>3. QED
    BY <2>1, <2>2
<1>5. ASSUME NEW d \in Devices, SignIn(d) \/ SignOut(d)
      PROVE  DeviceInv(e)'
  BY <1>5, Untouched DEF SignIn, SignOut, history
<1>6. ASSUME NEW d \in Devices, Process(d)
      PROVE  DeviceInv(e)'
  <2>1. CASE d = e
    BY <2>1, <1>6, ProcessStep
  <2>2. CASE d # e
    BY <2>2, <1>6, Untouched DEF Process, TypeOK, deviceVars
  <2>3. QED
    BY <2>1, <2>2
<1>7. CASE UNCHANGED queueVars
  BY <1>7, Untouched DEF queueVars, deviceVars, history
<1>8. QED
  BY <1>1, <1>2, <1>3, <1>4, <1>5, <1>6, <1>7 DEF Next, Background

\* A path that is unsettled or holds the last value of one of its writers
\* stays so.
LEMMA SettledPath ==
    ASSUME TypeOK, \A d \in Devices : DeviceInv(d), [Next]_queueVars,
           NEW pa \in Paths, pa \notin spoiled', writers'[pa] # {},
           writers[pa] # {} /\ pa \notin spoiled =>
               \E e \in writers[pa] : Unsettled(e, pa) \/ store[pa] = lastPut[e][pa]
    PROVE  \E e \in writers'[pa] : Unsettled(e, pa)' \/ store'[pa] = lastPut'[e][pa]
<1> USE DEF spoiled
<1> DEFINE Good == \E e \in writers'[pa] : Unsettled(e, pa)' \/ store'[pa] = lastPut'[e][pa]
<1>1. ASSUME writers[pa] # {}, pa \notin spoiled
      PROVE  \E e \in writers[pa] : Unsettled(e, pa) \/ store[pa] = lastPut[e][pa]
  BY <1>1
<1>2. ASSUME NEW d \in Devices, NEW batch \in Batches, Issue(d, batch)
      PROVE  Good
  <2>1. CASE pa \in PathsOf(batch)
    <3>1. d \in writers'[pa]
      BY <2>1, <1>2 DEF Issue, TypeOK
    <3>2. PICK i \in DOMAIN batch : batch[i].path = pa
      BY <2>1 DEF PathsOf
    <3> DEFINE pt == [idx |-> putCounter[d] + i - 1, path |-> batch[i].path, val |-> batch[i].val]
    <3>3. pt \in PutsOf(d, batch) /\ pt.path = pa
      BY <3>2 DEF PutsOf
    <3> HIDE DEF pt
    <3>4. pt \in outstandingPuts'[d]
      BY <3>3, <1>2 DEF Issue, TypeOK
    <3>5. connected[d] => [put |-> pt, auth |-> signedIn[d]] \in wire'[d]
      BY <3>3, <1>2 DEF Issue, TypeOK, RequestsOf
    <3>6. connected' = connected
      BY <1>2 DEF Issue
    <3>7. Unsettled(d, pa)'
      BY <3>3, <3>4, <3>5, <3>6 DEF Unsettled, Pending
    <3>8. QED
      BY <3>1, <3>7
  <2>2. CASE pa \notin PathsOf(batch)
    <3>1. writers'[pa] = writers[pa] /\ refused' = refused /\ died' = died /\ store' = store /\ connected' = connected
      BY <2>2, <1>2 DEF Issue, TypeOK
    <3>2. \A e \in Devices : /\ lastPut'[e][pa] = lastPut[e][pa]
                             /\ wire[e] \subseteq wire'[e]
                             /\ outstandingPuts[e] \subseteq outstandingPuts'[e]
      BY <2>2, <1>2 DEF Issue, TypeOK
    <3>3. PICK e \in writers[pa] : Unsettled(e, pa) \/ store[pa] = lastPut[e][pa]
      BY <1>1, <3>1
    <3>4. e \in Devices
      BY DEF TypeOK
    <3>5. Unsettled(e, pa) => Unsettled(e, pa)'
      BY <3>1, <3>2, <3>4 DEF Unsettled, Pending
    <3>6. QED
      BY <3>1, <3>2, <3>3, <3>4, <3>5
  <2>3. QED
    BY <2>1, <2>2
<1>3. ASSUME NEW d \in Devices, Connect(d)
      PROVE  Good
  <2>1. /\ writers' = writers /\ refused' = refused /\ died' = died /\ store' = store /\ lastPut' = lastPut
        /\ outstandingPuts' = outstandingPuts
        /\ \A e \in Devices : e # d => wire'[e] = wire[e] /\ connected'[e] = connected[e]
        /\ ~connected[d] /\ connected'[d] /\ wire'[d] = RequestsOf(d, outstandingPuts[d])
    BY <1>3 DEF Connect, Resent, TypeOK, history
  <2>2. PICK e \in writers[pa] : Unsettled(e, pa) \/ store[pa] = lastPut[e][pa]
    BY <1>1, <2>1
  <2>3. e \in Devices
    BY DEF TypeOK
  <2>4. \A pt \in outstandingPuts[d] : [put |-> pt, auth |-> signedIn[d]] \in wire'[d]
    BY <2>1 DEF RequestsOf
  <2>5. Unsettled(e, pa) => Unsettled(e, pa)'
    <3>1. CASE e = d
      BY <3>1, <2>1, <2>4 DEF Unsettled, Pending
    <3>2. CASE e # d
      BY <3>2, <2>1, <2>3 DEF Unsettled, Pending
    <3>3. QED
      BY <3>1, <3>2
  <2>6. QED
    BY <2>1, <2>2, <2>5
<1>4. ASSUME NEW d \in Devices, Disconnect(d)
      PROVE  Good
  <2>1. /\ writers' = writers /\ refused' = refused /\ died' = died /\ store' = store /\ lastPut' = lastPut
        /\ outstandingPuts' = outstandingPuts
        /\ \A e \in Devices : e # d => wire'[e] = wire[e] /\ connected'[e] = connected[e]
        /\ connected[d] /\ ~connected'[d]
    BY <1>4 DEF Disconnect, TypeOK, history
  <2>2. PICK e \in writers[pa] : Unsettled(e, pa) \/ store[pa] = lastPut[e][pa]
    BY <1>1, <2>1
  <2>3. e \in Devices
    BY DEF TypeOK
  <2>4. \A m \in wire[d] : m.put \in outstandingPuts[d]
    BY DEF DeviceInv, Sent
  <2>5. Unsettled(e, pa) => Unsettled(e, pa)'
    BY <2>1, <2>3, <2>4 DEF Unsettled, Pending
  <2>6. QED
    BY <2>1, <2>2, <2>5
<1>5. ASSUME NEW d \in Devices, Answer(d)
      PROVE  Good
  <2>1. /\ writers' = writers /\ refused' = refused /\ died' = died /\ store' = store /\ lastPut' = lastPut
        /\ wire' = wire /\ connected' = connected
        /\ \A e \in Devices : e # d => outstandingPuts'[e] = outstandingPuts[e]
    BY <1>5 DEF Answer, SettledBy, TypeOK, history
  <2>2. connected[d]
    BY <1>5 DEF Answer, SettledBy, DeviceInv, Sent
  <2>3. PICK e \in writers[pa] : Unsettled(e, pa) \/ store[pa] = lastPut[e][pa]
    BY <1>1, <2>1
  <2>4. e \in Devices
    BY DEF TypeOK
  <2>5. Unsettled(e, pa) => Unsettled(e, pa)'
    BY <2>1, <2>2, <2>4 DEF Unsettled, Pending
  <2>6. QED
    BY <2>1, <2>3, <2>5
<1>6. ASSUME NEW d \in Devices, Kill(d)
      PROVE  Good
  <2>1. /\ writers' = writers /\ store' = store /\ lastPut' = lastPut
        /\ refused' = refused /\ died' = died \cup {pt.path : pt \in outstandingPuts[d]}
        /\ \A e \in Devices : e # d => /\ wire'[e] = wire[e] /\ connected'[e] = connected[e]
                                       /\ outstandingPuts'[e] = outstandingPuts[e]
    BY <1>6 DEF Kill, TypeOK
  <2>2. PICK e \in writers[pa] : Unsettled(e, pa) \/ store[pa] = lastPut[e][pa]
    BY <1>1, <2>1
  <2>3. e \in Devices
    BY DEF TypeOK
  <2>4. ~Unsettled(d, pa)
    <3>1. \A pt \in outstandingPuts[d] : pt.path # pa
      BY <2>1
    <3>2. \A m \in wire[d] : m.put \in outstandingPuts[d]
      BY DEF DeviceInv, Sent
    <3>3. QED
      BY <3>1, <3>2 DEF Unsettled, Pending
  <2>5. Unsettled(e, pa) => Unsettled(e, pa)'
    BY <2>1, <2>3, <2>4 DEF Unsettled, Pending
  <2>6. QED
    BY <2>1, <2>2, <2>5
<1>7. ASSUME NEW d \in Devices, SignIn(d) \/ SignOut(d)
      PROVE  Good
  BY <1>1, <1>7 DEF SignIn, SignOut, history, Unsettled, Pending
<1>8. ASSUME NEW d \in Devices, Process(d)
      PROVE  Good
  <2>1. PICK m \in wire[d] : Process(d)!(m)
    BY <1>8 DEF Process
  <2>2. /\ writers' = writers /\ lastPut' = lastPut /\ connected' = connected
        /\ outstandingPuts' = outstandingPuts
        /\ wire'[d] = wire[d] \ {m}
        /\ \A e \in Devices : e # d => wire'[e] = wire[e]
        /\ refused' = (IF Granted(m) THEN refused ELSE refused \cup {m.put.path}) /\ died' = died
        /\ store' = IF Granted(m) THEN [store EXCEPT ![m.put.path] = m.put.val] ELSE store
    BY <2>1 DEF TypeOK, deviceVars
  <2>3. m.put \in outstandingPuts[d] /\ connected[d] /\ outstandingPuts[d] \subseteq Put
    BY DEF DeviceInv, Sent, TypeOK
  <2>4. CASE m.put.path # pa
    <3>1. store'[pa] = store[pa] /\ pa \notin spoiled
      BY <2>2, <2>4 DEF TypeOK
    <3>2. PICK e \in writers[pa] : Unsettled(e, pa) \/ store[pa] = lastPut[e][pa]
      BY <1>1, <2>2, <3>1
    <3>3. e \in Devices
      BY DEF TypeOK
    <3>4. Unsettled(e, pa) => Unsettled(e, pa)'
      <4>1. CASE e = d
        BY <4>1, <2>2, <2>3, <2>4 DEF Unsettled, Pending
      <4>2. CASE e # d
        BY <4>2, <2>2, <3>3 DEF Unsettled, Pending
      <4>3. QED
        BY <4>1, <4>2
    <3>5. QED
      BY <2>2, <3>1, <3>2, <3>4
  <2>5. CASE m.put.path = pa
    <3>1. Granted(m)
      BY <2>2, <2>5
    <3>2. store'[pa] = m.put.val
      BY <2>2, <2>5, <3>1 DEF TypeOK
    <3>3. d \in writers'[pa]
      BY <2>2, <2>3, <2>5 DEF DeviceInv, Newest
    <3>4. CASE \E n \in wire'[d] : n.put.path = pa
      BY <2>2, <2>3, <3>3, <3>4 DEF Unsettled
    <3>5. CASE ~ \E n \in wire'[d] : n.put.path = pa
      \* It was the last request on the path, so it carried the newest put.
      <4>1. ASSUME NEW q \in outstandingPuts[d], q.path = pa
            PROVE  q.idx <= m.put.idx
        <5>1. CASE \E n \in wire[d] : n.put = q
          BY <5>1, <4>1, <3>5, <2>2, <2>3
        <5>2. CASE \E r \in responses[d] : r.put = q
          <6>1. q.idx < m.put.idx
            BY <5>2 DEF DeviceInv, Sent
          <6>2. QED
            BY <6>1, <2>3
        <5>3. QED
          BY <5>1, <5>2, <2>3 DEF DeviceInv, Sent
      <4>2. m.put.val = lastPut[d][pa]
        BY <4>1, <2>3, <2>5 DEF DeviceInv, Newest
      <4>3. QED
        BY <4>2, <2>2, <3>2, <3>3
    <3>6. QED
      BY <3>4, <3>5
  <2>6. QED
    BY <2>4, <2>5
<1>9. CASE UNCHANGED queueVars
  BY <1>1, <1>9 DEF queueVars, deviceVars, history, Unsettled, Pending
<1>10. QED
  BY <1>2, <1>3, <1>4, <1>5, <1>6, <1>7, <1>8, <1>9 DEF Next, Background

LEMMA SettledStep == TypeOK /\ Inv /\ [Next]_queueVars => Settled'
<1> SUFFICES ASSUME TypeOK, Inv, [Next]_queueVars,
                    NEW pa \in Paths, pa \notin spoiled', writers'[pa] # {}
             PROVE  \E e \in writers'[pa] : Unsettled(e, pa)' \/ store'[pa] = lastPut'[e][pa]
  BY DEF Settled, spoiled
<1>1. writers[pa] # {} /\ pa \notin spoiled =>
        \E e \in writers[pa] : Unsettled(e, pa) \/ store[pa] = lastPut[e][pa]
  BY DEF Inv, Settled
<1>2. \A d \in Devices : DeviceInv(d)
  BY DEF Inv
<1>3. QED
  BY <1>1, <1>2, SettledPath

-----------------------------------------------------------------------------
(* The theorems. *)

\* The invariant holds in the initial states.
LEMMA InitInv == Init => TypeOK /\ Inv
<1> SUFFICES ASSUME Init
             PROVE  TypeOK /\ Inv
  OBVIOUS
<1>1. TypeOK
  BY BoundsAssumption DEF Init, TypeOK
<1>2. ASSUME NEW d \in Devices
      PROVE  DeviceInv(d)
  BY DEF Init, DeviceInv, Indexed, Once, Sent, Ordered, Newest
<1>3. Settled
  BY DEF Init, Settled
<1>4. QED
  BY <1>1, <1>2, <1>3 DEF Inv

\* Every step keeps it.
LEMMA InvStep == TypeOK /\ Inv /\ [Next]_queueVars => TypeOK' /\ Inv'
  BY TypeStep, DeviceStep, SettledStep DEF Inv

\* It is stronger than the two safety properties of the pipeline.
LEMMA InvImplies == TypeOK /\ Inv => InOrder /\ Converged
<1> SUFFICES ASSUME TypeOK, Inv
             PROVE  InOrder /\ Converged
  OBVIOUS
<1>1. InOrder
  BY DEF Inv, DeviceInv, InOrder
<1>2. ASSUME NEW pa \in Paths \ spoiled, writers[pa] # {},
             \A d \in Devices : ~Pending(d, pa)
      PROVE  \E d \in writers[pa] : store[pa] = lastPut[d][pa]
  <2>1. PICK d \in writers[pa] : Unsettled(d, pa) \/ store[pa] = lastPut[d][pa]
    BY <1>2 DEF Inv, Settled
  <2>2. d \in Devices
    BY DEF TypeOK
  <2>3. ~Unsettled(d, pa)
    BY <1>2, <2>2 DEF Inv, DeviceInv, Sent, Unsettled, Pending
  <2>4. QED
    BY <2>1, <2>3
<1>3. QED
  BY <1>1, <1>2 DEF Converged

\* The pipeline keeps its inductive invariant, with the types, in every state.
THEOREM QueueInv == Spec => [](TypeOK /\ Inv)
<1>1. QED
  BY InitInv, InvStep, PTL DEF Spec

\* The state of the pipeline has its declared types in every state.
THEOREM QueueTypes == Spec => []TypeOK
<1>1. QED
  BY QueueInv, PTL

\* No cut, resend, refusal or death of a process lets a put overtake an
\* older one of the same device (putInternal, restoreState, onDisconnect).
THEOREM PutsInOrder == Spec => []InOrder
<1>1. QED
  BY QueueInv, InvImplies, PTL

\* On an open connection each outstanding put is a request under way or has its
\* answer under way: neither putInternal nor restoreState misses one.
THEOREM QueueForgetsNone == Spec => []NoneForgotten
<1>1. TypeOK /\ Inv => NoneForgotten
  BY DEF Inv, DeviceInv, Sent, NoneForgotten, OnTheWay
<1>2. QED
  BY <1>1, QueueInv, PTL

\* A path where nothing is outstanding holds the last put of one of the
\* devices that wrote it, however often the puts were sent again.
THEOREM StoreConverges == Spec => []Converged
<1>1. QED
  BY QueueInv, InvImplies, PTL
=============================================================================

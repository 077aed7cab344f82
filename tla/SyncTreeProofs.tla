--------------------------- MODULE SyncTreeProofs ---------------------------
(* Theorems about SyncTree, for any paths, values, rules and bounds.       *)
EXTENDS SyncTree, FiniteSetTheorems, SequenceTheorems, TLAPS

\* The theorems about the write pipeline, for the pipeline of SyncTree.
QP == INSTANCE WriteQueueProofs WITH
        Devices <- {Device}, Batches <- {<<w>> : w \in [path : Paths, val : Values \cup {None}]}

\* The assumptions of WriteQueue hold here.
LEMMA QueueAssumptions ==
    /\ None \notin Values /\ Public \subseteq Paths
    /\ \A batch \in {<<w>> : w \in [path : Paths, val : Values \cup {None}]} :
         batch \in Seq(QP!Write)
    /\ MaxPuts \in Nat /\ MaxDisruptions \in Nat
<1>1. \A w \in QP!Write : <<w>> \in Seq(QP!Write)
  OBVIOUS
<1>2. \A batch \in {<<w>> : w \in [path : Paths, val : Values \cup {None}]} : batch \in Seq(QP!Write)
  BY <1>1 DEF QP!Write
<1>3. QED
  BY <1>2, SyncTreeAssumption

-----------------------------------------------------------------------------
(* Layered writes. *)

\* What the layers are: on each path the last write.

LEMMA LayerFacts ==
    ASSUME NEW w \in Seq(Q!Put)
    PROVE  /\ DOMAIN LayerTree(w) = {w[i].path : i \in DOMAIN w}
           /\ LayerTree(w) = [pa \in DOMAIN LayerTree(w) |-> LayerTree(w)[pa]]
           /\ LayerTree(w) \in CompoundWrite
           /\ \A i \in DOMAIN w : ~Shadowed(w, i) => LayerTree(w)[w[i].path] = w[i].val
           /\ \A pa \in DOMAIN LayerTree(w) :
                \E i \in DOMAIN w : w[i].path = pa /\ ~Shadowed(w, i)
<1> DEFINE n == Len(w)
           P == {w[i].path : i \in DOMAIN w}
           LastOn(pa, i) == i \in WritesOn(w, pa) /\ \A j \in WritesOn(w, pa) : j <= i
           At(pa) == CHOOSE i \in WritesOn(w, pa) : \A j \in WritesOn(w, pa) : j <= i
<1>1. /\ n \in Nat /\ DOMAIN w = 1..n
      /\ \A i \in DOMAIN w : w[i].path \in Paths /\ w[i].val \in Values \cup {None}
  <2>1. n \in Nat /\ DOMAIN w = 1..n /\ \A i \in 1..n : w[i] \in Q!Put
    OBVIOUS
  <2>2. QED
    BY <2>1 DEF Q!Put
<1>2. \A pa \in P : \E i : LastOn(pa, i)
  <2> SUFFICES ASSUME NEW pa \in P
               PROVE  \E i : LastOn(pa, i)
    OBVIOUS
  <2>1. WritesOn(w, pa) \in SUBSET (1..n) /\ WritesOn(w, pa) # {}
    BY <1>1 DEF WritesOn
  <2>2. QED
    BY <1>1, <2>1, QueueAssumptions, QP!Greatest, Zenon
<1>3. \A pa \in P : LastOn(pa, At(pa))
  BY <1>2
<1>4. LayerTree(w) = [pa \in P |-> w[At(pa)].val]
  BY DEF LayerTree
<1>5. \A pa, i : LastOn(pa, i) <=> i \in DOMAIN w /\ w[i].path = pa /\ ~Shadowed(w, i)
  BY <1>1 DEF WritesOn, Shadowed
<1> HIDE DEF At
<1>6. \A i \in DOMAIN w : ~Shadowed(w, i) => At(w[i].path) = i
  <2> SUFFICES ASSUME NEW i \in DOMAIN w, ~Shadowed(w, i)
               PROVE  At(w[i].path) = i
    OBVIOUS
  <2>1. LastOn(w[i].path, i)
    BY <1>5
  <2>p. w[i].path \in P
    OBVIOUS
  <2>q. LastOn(w[i].path, At(w[i].path))
    BY <1>3, <2>p
  <2>2. At(w[i].path) <= i /\ i <= At(w[i].path)
    BY <2>1, <2>q
  <2>3. i \in Int /\ At(w[i].path) \in Int
    BY <1>1, <2>1, <2>q DEF WritesOn
  <2>4. QED
    BY <2>2, <2>3
<1> HIDE DEF LastOn
<1>7. LayerTree(w) \in [P -> Values \cup {None}] /\ P \subseteq Paths
  BY <1>1, <1>3, <1>4, <1>5
<1>8. LayerTree(w) \in CompoundWrite
  BY <1>7 DEF CompoundWrite
<1>9. DOMAIN LayerTree(w) = P
  BY <1>4
<1>10. LayerTree(w) = [pa \in P |-> LayerTree(w)[pa]]
  BY <1>4
<1>11. ASSUME NEW i \in DOMAIN w, ~Shadowed(w, i)
       PROVE  LayerTree(w)[w[i].path] = w[i].val
  <2>1. w[i].path \in P
    OBVIOUS
  <2>2. LayerTree(w)[w[i].path] = w[At(w[i].path)].val
    BY <1>4, <2>1
  <2>3. QED
    BY <1>6, <1>11, <2>2
<1>12. ASSUME NEW pa \in P
       PROVE  \E i \in DOMAIN w : w[i].path = pa /\ ~Shadowed(w, i)
  <2>1. LastOn(pa, At(pa))
    BY <1>3
  <2>2. At(pa) \in DOMAIN w /\ w[At(pa)].path = pa /\ ~Shadowed(w, At(pa))
    BY <1>5, <2>1
  <2>3. QED
    BY <2>2
<1> HIDE DEF P
<1>13. QED
  BY <1>8, <1>9, <1>10, <1>11, <1>12 DEF P

\* A further write comes on top.
LEMMA LayerAppend ==
    ASSUME NEW w \in Seq(Q!Put), NEW pt \in Q!Put
    PROVE  LayerTree(Append(w, pt)) = With(LayerTree(w), pt.path, pt.val)
<1> DEFINE u == Append(w, pt)
           n == Len(w)
<1>1. /\ n \in Nat /\ DOMAIN w = 1..n /\ DOMAIN u = 1..(n + 1) /\ u \in Seq(Q!Put)
      /\ u[n + 1] = pt /\ \A i \in 1..n : u[i] = w[i]
  OBVIOUS
<1> HIDE DEF u, n
<1>w. /\ DOMAIN LayerTree(w) = {w[i].path : i \in DOMAIN w}
      /\ \A pa \in DOMAIN LayerTree(w) : \E i \in DOMAIN w : w[i].path = pa /\ ~Shadowed(w, i)
      /\ \A i \in DOMAIN w : ~Shadowed(w, i) => LayerTree(w)[w[i].path] = w[i].val
  BY LayerFacts
<1>u. /\ DOMAIN LayerTree(u) = {u[i].path : i \in DOMAIN u}
      /\ LayerTree(u) = [pa \in DOMAIN LayerTree(u) |-> LayerTree(u)[pa]]
      /\ \A i \in DOMAIN u : ~Shadowed(u, i) => LayerTree(u)[u[i].path] = u[i].val
  BY <1>1, LayerFacts
<1>2. {u[i].path : i \in DOMAIN u} = {w[i].path : i \in DOMAIN w} \cup {pt.path}
  <2>1. \A i \in 1..(n + 1) : i \in 1..n \/ i = n + 1
    BY <1>1
  <2>2. 1..n \subseteq 1..(n + 1) /\ n + 1 \in 1..(n + 1)
    BY <1>1
  <2>3. QED
    BY <1>1, <2>1, <2>2
<1>3. DOMAIN LayerTree(u) = DOMAIN LayerTree(w) \cup {pt.path}
  BY <1>2, <1>w, <1>u
<1>4. LayerTree(u)[pt.path] = pt.val
  <2>1. n + 1 \in DOMAIN u /\ ~Shadowed(u, n + 1)
    BY <1>1 DEF Shadowed
  <2>2. QED
    BY <1>1, <2>1, <1>u
<1>5. ASSUME NEW pa \in DOMAIN LayerTree(w), pa # pt.path
      PROVE  LayerTree(u)[pa] = LayerTree(w)[pa]
  <2>1. PICK i \in DOMAIN w : w[i].path = pa /\ ~Shadowed(w, i)
    BY <1>w
  <2>2. i \in DOMAIN u /\ u[i] = w[i] /\ ~Shadowed(u, i)
    BY <1>1, <1>5, <2>1 DEF Shadowed
  <2>3. QED
    BY <2>1, <2>2, <1>w, <1>u
<1>6. QED
  BY <1>3, <1>4, <1>5, <1>u DEF With, u

\* The oldest write is taken off: what it hides stays hidden, what it shows goes.
LEMMA LayerTail ==
    ASSUME NEW w \in Seq(Q!Put), w # <<>>
    PROVE  /\ RemoveAt(w, 1) = Tail(w) /\ ~Overlaps(w, 1)
           /\ Shadowed(w, 1) => LayerTree(Tail(w)) = LayerTree(w)
           /\ ~Shadowed(w, 1) => LayerTree(Tail(w)) = Without(LayerTree(w), w[1].path)
<1> DEFINE u == Tail(w)
           n == Len(w)
<1>1. /\ n \in Nat /\ n >= 1 /\ DOMAIN w = 1..n /\ DOMAIN u = 1..(n - 1) /\ u \in Seq(Q!Put)
      /\ \A i \in 1..(n - 1) : u[i] = w[i + 1]
  OBVIOUS
<1>2. RemoveAt(w, 1) = Tail(w)
  <2>1. SubSeq(w, 1, 1 - 1) = <<>> /\ SubSeq(w, 1 + 1, n) = Tail(w)
    BY <1>1
  <2>2. QED
    BY <2>1 DEF RemoveAt
<1>3. ~Overlaps(w, 1)
  BY <1>1 DEF Overlaps
<1> HIDE DEF u, n
<1>w. /\ DOMAIN LayerTree(w) = {w[i].path : i \in DOMAIN w}
      /\ LayerTree(w) = [pa \in DOMAIN LayerTree(w) |-> LayerTree(w)[pa]]
      /\ \A pa \in DOMAIN LayerTree(w) : \E i \in DOMAIN w : w[i].path = pa /\ ~Shadowed(w, i)
      /\ \A i \in DOMAIN w : ~Shadowed(w, i) => LayerTree(w)[w[i].path] = w[i].val
  BY LayerFacts
<1>u. /\ DOMAIN LayerTree(u) = {u[i].path : i \in DOMAIN u}
      /\ LayerTree(u) = [pa \in DOMAIN LayerTree(u) |-> LayerTree(u)[pa]]
      /\ \A i \in DOMAIN u : ~Shadowed(u, i) => LayerTree(u)[u[i].path] = u[i].val
  BY <1>1, LayerFacts
<1>4. \A i \in 2..n : i - 1 \in DOMAIN u /\ i \in DOMAIN w /\ u[i - 1] = w[i]
                     /\ (Shadowed(u, i - 1) => Shadowed(w, i))
  <2>1. \A i \in 2..n : i - 1 \in 1..(n - 1) /\ i \in 1..n /\ (i - 1) + 1 = i
    BY <1>1
  <2>2. \A i \in 2..n : u[i - 1] = w[i]
    BY <1>1, <2>1
  <2>3. ASSUME NEW i \in 2..n, NEW j \in DOMAIN u, j > i - 1, u[j].path = u[i - 1].path
        PROVE  Shadowed(w, i)
    <3>1. j + 1 \in DOMAIN w /\ j + 1 > i /\ w[j + 1].path = w[i].path
      BY <1>1, <2>2, <2>3, SMTT(30)
    <3>2. QED
      BY <3>1 DEF Shadowed
  <2>4. QED
    BY <1>1, <2>1, <2>2, <2>3 DEF Shadowed
<1>5. \A i \in 1..(n - 1) : i + 1 \in DOMAIN w /\ i + 1 \in 2..n
  BY <1>1
<1>6. \A i \in DOMAIN w : i = 1 \/ i \in 2..n
  BY <1>1
<1>7. DOMAIN LayerTree(u) \subseteq DOMAIN LayerTree(w)
  BY <1>1, <1>5, <1>w, <1>u
<1>8. ASSUME NEW pa \in DOMAIN LayerTree(w), pa # w[1].path \/ Shadowed(w, 1)
      PROVE  pa \in DOMAIN LayerTree(u) /\ LayerTree(u)[pa] = LayerTree(w)[pa]
  <2>1. PICK i \in DOMAIN w : w[i].path = pa /\ ~Shadowed(w, i)
    BY <1>w
  <2>2. i \in 2..n
    BY <1>6, <1>8, <2>1
  <2>3. i - 1 \in DOMAIN u /\ u[i - 1] = w[i] /\ ~Shadowed(u, i - 1)
    BY <1>4, <2>1, <2>2
  <2>4. QED
    BY <2>1, <2>3, <1>w, <1>u
<1>9. ASSUME ~Shadowed(w, 1)
      PROVE  w[1].path \notin DOMAIN LayerTree(u)
  <2>1. \A i \in 1..(n - 1) : w[i + 1].path # w[1].path
    BY <1>1, <1>5, <1>9 DEF Shadowed
  <2>2. QED
    BY <1>1, <2>1, <1>u
<1>10. ASSUME Shadowed(w, 1)
       PROVE  LayerTree(u) = LayerTree(w)
  BY <1>7, <1>8, <1>10, <1>w, <1>u
<1>11. ASSUME ~Shadowed(w, 1)
       PROVE  LayerTree(u) = Without(LayerTree(w), w[1].path)
  <2>1. DOMAIN LayerTree(u) = DOMAIN LayerTree(w) \ {w[1].path}
    BY <1>7, <1>8, <1>9, <1>11
  <2>2. LayerTree(u) = [q \in DOMAIN LayerTree(u) |-> LayerTree(w)[q]]
    BY <1>8, <2>1, <1>u
  <2>3. QED
    BY <2>1, <2>2 DEF Without
<1>12. QED
  BY <1>2, <1>3, <1>10, <1>11 DEF u

\* A sequence without its k-th element.
LEMMA RemoveFacts ==
    ASSUME NEW S, NEW s \in Seq(S), NEW k \in DOMAIN s
    PROVE  LET u == RemoveAt(s, k)
           IN  /\ u \in Seq(S) /\ Len(s) \in Nat /\ k \in Nat /\ DOMAIN s = 1..Len(s)
               /\ Len(u) = Len(s) - 1 /\ DOMAIN u = 1..(Len(s) - 1)
               /\ \A i \in DOMAIN u :
                    u[i] = IF i < k THEN s[i] ELSE s[i + 1]
<1> DEFINE a == SubSeq(s, 1, k - 1)
           b == SubSeq(s, k + 1, Len(s))
<1>1. Len(s) \in Nat /\ k \in 1..Len(s) /\ DOMAIN s = 1..Len(s)
  OBVIOUS
<1>2. /\ a \in Seq(S) /\ Len(a) = k - 1
      /\ \A i \in 1..(k - 1) : a[i] = s[i]
  BY <1>1
<1>3. /\ b \in Seq(S) /\ Len(b) = Len(s) - k
      /\ \A i \in 1..(Len(s) - k) : b[i] = s[k + i]
  BY <1>1
<1>4. RemoveAt(s, k) = a \o b
  BY DEF RemoveAt
<1> HIDE DEF a, b
<1>5. /\ a \o b \in Seq(S) /\ Len(a \o b) = Len(s) - 1
      /\ DOMAIN (a \o b) = 1..(Len(s) - 1)
  <2>1. a \o b \in Seq(S) /\ Len(a \o b) = Len(a) + Len(b)
    BY <1>2, <1>3, ConcatProperties, Zenon
  <2>2. (k - 1) + (Len(s) - k) = Len(s) - 1
    BY <1>1
  <2>3. DOMAIN (a \o b) = 1..Len(a \o b)
    BY <2>1
  <2>4. QED
    BY <1>2, <1>3, <2>1, <2>2, <2>3
<1>6. ASSUME NEW i \in 1..(Len(s) - 1)
      PROVE  (a \o b)[i] = IF i < k THEN s[i] ELSE s[i + 1]
  <2>1. CASE i < k
    BY <1>1, <1>2, <1>3, <2>1
  <2>2. CASE ~(i < k)
    <3>1. i - (k - 1) \in 1..(Len(s) - k) /\ k + (i - (k - 1)) = i + 1
      BY <1>1, <2>2
    <3>2. (a \o b)[i] = b[i - (k - 1)]
      BY <1>1, <1>2, <1>3, <2>2
    <3>3. QED
      BY <1>3, <2>2, <3>1, <3>2
  <2>3. QED
    BY <2>1, <2>2
<1> DEFINE u == a \o b
<1>7. /\ u \in Seq(S) /\ Len(u) = Len(s) - 1 /\ DOMAIN u = 1..(Len(s) - 1)
      /\ \A i \in 1..(Len(s) - 1) : u[i] = IF i < k THEN s[i] ELSE s[i + 1]
  BY <1>5, <1>6
<1>8. RemoveAt(s, k) = u
  BY <1>4
<1> HIDE DEF u
<1>9. \A i \in DOMAIN u : u[i] = IF i < k THEN s[i] ELSE s[i + 1]
  BY <1>7
<1>10. k \in Nat
  BY <1>1
<1>11. QED
  BY <1>1, <1>7, <1>8, <1>9, <1>10, Zenon

\* The same from the side of the whole sequence.
LEMMA RemoveKeeps ==
    ASSUME NEW S, NEW s \in Seq(S), NEW k \in DOMAIN s
    PROVE  LET u == RemoveAt(s, k)
           IN  \A i \in DOMAIN s :
                 /\ i < k => i \in DOMAIN u /\ u[i] = s[i]
                 /\ i > k => i - 1 \in DOMAIN u /\ u[i - 1] = s[i]
<1> DEFINE u == RemoveAt(s, k)
<1>1. /\ Len(s) \in Nat /\ k \in Nat /\ DOMAIN s = 1..Len(s)
      /\ DOMAIN u = 1..(Len(s) - 1)
      /\ \A i \in DOMAIN u : u[i] = IF i < k THEN s[i] ELSE s[i + 1]
  BY RemoveFacts
<1> HIDE DEF u
<1>2. ASSUME NEW i \in DOMAIN s, i < k
      PROVE  i \in DOMAIN u /\ u[i] = s[i]
  BY <1>1, <1>2
<1>3. ASSUME NEW i \in DOMAIN s, i > k
      PROVE  i - 1 \in DOMAIN u /\ u[i - 1] = s[i]
  <2>1. i - 1 \in 1..(Len(s) - 1) /\ ~(i - 1 < k) /\ (i - 1) + 1 = i
    BY <1>1, <1>3
  <2>2. QED
    BY <1>1, <2>1
<1>4. QED
  BY <1>2, <1>3 DEF u

\* Any write is taken off: other paths show what they did, and so does its own
\* if a later write is there; if no other write is there, it shows nothing.
LEMMA LayerRemove ==
    ASSUME NEW w \in Seq(Q!Put), NEW k \in DOMAIN w
    PROVE  LET u == RemoveAt(w, k)
           IN  /\ u \in Seq(Q!Put)
               /\ DOMAIN LayerTree(u) \subseteq DOMAIN LayerTree(w)
               /\ \A pa \in DOMAIN LayerTree(w) :
                    pa # w[k].path \/ Shadowed(w, k)
                    => pa \in DOMAIN LayerTree(u) /\ LayerTree(u)[pa] = LayerTree(w)[pa]
               /\ Shadowed(w, k) => LayerTree(u) = LayerTree(w)
               /\ ~Shadowed(w, k) /\ ~Overlaps(w, k)
                    => LayerTree(u) = Without(LayerTree(w), w[k].path)
<1> DEFINE u == RemoveAt(w, k)
           n == Len(w)
<1>1. /\ n \in Nat /\ k \in Nat /\ DOMAIN w = 1..n /\ DOMAIN u = 1..(n - 1) /\ u \in Seq(Q!Put)
      /\ \A i \in DOMAIN u : u[i] = IF i < k THEN w[i] ELSE w[i + 1]
  BY RemoveFacts
<1>k. \A i \in DOMAIN w :
        /\ i < k => i \in DOMAIN u /\ u[i] = w[i]
        /\ i > k => i - 1 \in DOMAIN u /\ u[i - 1] = w[i]
  BY RemoveKeeps
<1> HIDE DEF u, n
<1>w. /\ DOMAIN LayerTree(w) = {w[i].path : i \in DOMAIN w}
      /\ LayerTree(w) = [pa \in DOMAIN LayerTree(w) |-> LayerTree(w)[pa]]
      /\ \A pa \in DOMAIN LayerTree(w) : \E i \in DOMAIN w : w[i].path = pa /\ ~Shadowed(w, i)
      /\ \A i \in DOMAIN w : ~Shadowed(w, i) => LayerTree(w)[w[i].path] = w[i].val
  BY LayerFacts
<1>u. /\ DOMAIN LayerTree(u) = {u[i].path : i \in DOMAIN u}
      /\ LayerTree(u) = [pa \in DOMAIN LayerTree(u) |-> LayerTree(u)[pa]]
      /\ \A i \in DOMAIN u : ~Shadowed(u, i) => LayerTree(u)[u[i].path] = u[i].val
  BY <1>1, LayerFacts
<1>2. \A i \in DOMAIN u : \E j \in DOMAIN w : j # k /\ (j = i \/ j = i + 1) /\ (i < k => j = i)
                                           /\ (~(i < k) => j = i + 1) /\ w[j] = u[i]
  <2>1. ASSUME NEW i \in DOMAIN u, i < k
        PROVE  i \in DOMAIN w /\ i # k /\ w[i] = u[i]
    BY <1>1, <2>1
  <2>2. ASSUME NEW i \in DOMAIN u, ~(i < k)
        PROVE  i + 1 \in DOMAIN w /\ i + 1 # k /\ w[i + 1] = u[i]
    BY <1>1, <2>2
  <2>3. QED
    BY <2>1, <2>2
<1>3. DOMAIN LayerTree(u) \subseteq DOMAIN LayerTree(w)
  BY <1>2, <1>w, <1>u
<1>4. ASSUME NEW i \in DOMAIN w, i # k, ~Shadowed(w, i)
      PROVE  \E j \in DOMAIN u : u[j] = w[i] /\ ~Shadowed(u, j)
  <2>1. CASE i < k
    <3>1. i \in DOMAIN u /\ u[i] = w[i]
      BY <1>k, <2>1
    <3>2. ASSUME NEW j \in DOMAIN u, j > i, u[j].path = u[i].path
          PROVE  FALSE
      <4>1. \E l \in DOMAIN w : l > i /\ w[l] = u[j]
        BY <1>1, <1>2, <3>2
      <4>2. QED
        BY <1>4, <3>1, <3>2, <4>1 DEF Shadowed
    <3>3. QED
      BY <3>1, <3>2 DEF Shadowed
  <2>2. CASE i > k
    <3>1. i - 1 \in DOMAIN u /\ u[i - 1] = w[i]
      BY <1>k, <2>2
    <3>2. ASSUME NEW j \in DOMAIN u, j > i - 1, u[j].path = u[i - 1].path
          PROVE  FALSE
      <4>1. \E l \in DOMAIN w : l > i /\ w[l] = u[j]
        BY <1>1, <1>2, <2>2, <3>2
      <4>2. QED
        BY <1>4, <3>1, <3>2, <4>1 DEF Shadowed
    <3>3. QED
      BY <3>1, <3>2 DEF Shadowed
  <2>3. QED
    BY <1>1, <1>4, <2>1, <2>2
<1>5. ASSUME NEW pa \in DOMAIN LayerTree(w), pa # w[k].path \/ Shadowed(w, k)
      PROVE  pa \in DOMAIN LayerTree(u) /\ LayerTree(u)[pa] = LayerTree(w)[pa]
  <2>1. PICK i \in DOMAIN w : w[i].path = pa /\ ~Shadowed(w, i)
    BY <1>w
  <2>2. i # k
    BY <1>5, <2>1
  <2>3. PICK j \in DOMAIN u : u[j] = w[i] /\ ~Shadowed(u, j)
    BY <1>4, <2>1, <2>2
  <2>4. QED
    BY <2>1, <2>3, <1>w, <1>u
<1>6. ASSUME Shadowed(w, k)
      PROVE  LayerTree(u) = LayerTree(w)
  BY <1>3, <1>5, <1>6, <1>w, <1>u
<1>7. ASSUME ~Shadowed(w, k), ~Overlaps(w, k)
      PROVE  LayerTree(u) = Without(LayerTree(w), w[k].path)
  <2>1. \A j \in DOMAIN w : j # k => w[j].path # w[k].path
    BY <1>1, <1>7 DEF Shadowed, Overlaps
  <2>2. w[k].path \notin DOMAIN LayerTree(u)
    BY <1>2, <1>u, <2>1
  <2>3. DOMAIN LayerTree(u) = DOMAIN LayerTree(w) \ {w[k].path}
    BY <1>3, <1>5, <2>2
  <2>4. LayerTree(u) = [q \in DOMAIN LayerTree(u) |-> LayerTree(w)[q]]
    BY <1>5, <2>3, <1>u
  <2>5. QED
    BY <2>3, <2>4 DEF Without
<1>8. QED
  BY <1>1, <1>3, <1>5, <1>6, <1>7 DEF u

-----------------------------------------------------------------------------
(* Operations on the tree. *)

\* Write tree and view say what they should: VisibleWritesExact and
\* EventSnapExact of a tree, and a view that is gone holds nothing.
Sound(t) ==
    /\ t.visibleWrites = LayerTree(t.allWrites)
    /\ t.viewed => t.eventSnap = Apply(t.visibleWrites, t.serverSnap)
    /\ ~t.viewed => t.serverSnap = EmptyNode /\ t.eventSnap = EmptyNode

LEMMA TreeFields ==
    ASSUME NEW t \in Tree
    PROVE  /\ t.allWrites \in Seq(Q!Put) /\ t.visibleWrites \in CompoundWrite
           /\ t.viewed \in BOOLEAN /\ t.complete \in BOOLEAN
           /\ t.serverSnap \in Node /\ t.eventSnap \in Node
           /\ t = [allWrites |-> t.allWrites, visibleWrites |-> t.visibleWrites,
                   viewed |-> t.viewed, serverSnap |-> t.serverSnap,
                   complete |-> t.complete, eventSnap |-> t.eventSnap]
BY DEF Tree

\* Other writes in the same view.
LEMMA TreeWrites ==
    ASSUME NEW t \in Tree, NEW w, NEW f
    PROVE  [t EXCEPT !.allWrites = w, !.visibleWrites = f]
            = [allWrites |-> w, visibleWrites |-> f, viewed |-> t.viewed,
               serverSnap |-> t.serverSnap, complete |-> t.complete, eventSnap |-> t.eventSnap]
<1> DEFINE v == [t EXCEPT !.allWrites = w]
           x == [v EXCEPT !.visibleWrites = f]
<1>1. DOMAIN t = {"allWrites", "visibleWrites", "viewed", "serverSnap", "complete", "eventSnap"}
  BY TreeFields
<1>2. v = [k \in DOMAIN t |-> IF k = "allWrites" THEN w ELSE t[k]]
  OBVIOUS
<1>3. x = [k \in DOMAIN t |-> IF k = "visibleWrites" THEN f ELSE v[k]]
  BY <1>2
<1>4. x = [allWrites |-> w, visibleWrites |-> f, viewed |-> t.viewed,
           serverSnap |-> t.serverSnap, complete |-> t.complete, eventSnap |-> t.eventSnap]
  BY <1>1, <1>2, <1>3
<1>5. QED
  BY <1>4

\* Another tree of the same form.
LEMMA TreeForm ==
    ASSUME NEW w \in Seq(Q!Put), NEW f \in CompoundWrite, NEW viewed \in BOOLEAN,
           NEW snap \in Node, NEW complete \in BOOLEAN, NEW shown \in Node
    PROVE  [allWrites |-> w, visibleWrites |-> f, viewed |-> viewed,
            serverSnap |-> snap, complete |-> complete, eventSnap |-> shown] \in Tree
BY DEF Tree

LEMMA CompoundFacts ==
    ASSUME NEW f \in CompoundWrite
    PROVE  /\ DOMAIN f \subseteq Paths
           /\ \A pa \in DOMAIN f : f[pa] \in Values \cup {None}
<1>1. PICK S \in SUBSET Paths : f \in [S -> Values \cup {None}]
  BY DEF CompoundWrite
<1>2. QED
  BY <1>1

LEMMA ApplyType ==
    ASSUME NEW f \in CompoundWrite, NEW node \in Node
    PROVE  Apply(f, node) \in Node
BY CompoundFacts DEF Apply, Node

LEMMA EmptyType == EmptyNode \in Node
BY DEF EmptyNode, Node

LEMMA UserOverwrite ==
    ASSUME NEW t \in Tree, Sound(t), NEW pt \in Q!Put
    PROVE  LET u == applyUserOverwrite(t, pt)
           IN  /\ u \in Tree /\ Sound(u)
               /\ u.allWrites = Append(t.allWrites, pt)
               /\ u.viewed = t.viewed /\ u.complete = t.complete
<1> DEFINE w == Append(t.allWrites, pt)
           f == With(t.visibleWrites, pt.path, pt.val)
           e == [t.eventSnap EXCEPT ![pt.path] = IF t.viewed THEN pt.val ELSE t.eventSnap[pt.path]]
           u == [allWrites |-> w, visibleWrites |-> f, viewed |-> t.viewed,
                 serverSnap |-> t.serverSnap, complete |-> t.complete, eventSnap |-> e]
<1>1. pt.path \in Paths /\ pt.val \in Values \cup {None}
  BY DEF Q!Put
<1>t. /\ t.allWrites \in Seq(Q!Put) /\ t.visibleWrites \in CompoundWrite
      /\ t.viewed \in BOOLEAN /\ t.complete \in BOOLEAN
      /\ t.serverSnap \in Node /\ t.eventSnap \in Node
  BY TreeFields
<1>2. applyUserOverwrite(t, pt) = u
  <2>1. applyUserOverwrite(t, pt) = [t EXCEPT !.allWrites = w, !.visibleWrites = f, !.eventSnap = e]
    BY TreeFields DEF applyUserOverwrite
  <2> HIDE DEF w, f, e
  <2>2. QED
    BY <2>1, TreeFields
<1>3. f = LayerTree(w)
  BY <1>t, LayerAppend DEF Sound
<1>4. w \in Seq(Q!Put) /\ f \in CompoundWrite
  <2>1. w \in Seq(Q!Put)
    BY <1>t
  <2>2. QED
    BY <2>1, <1>3, LayerFacts
<1>5. e \in Node
  BY <1>1, <1>t DEF Node
<1>6. ASSUME t.viewed
      PROVE  e = Apply(f, t.serverSnap)
  <2>1. t.eventSnap = Apply(t.visibleWrites, t.serverSnap)
    BY <1>6 DEF Sound
  <2>2. e = [pa \in Paths |-> IF pa = pt.path THEN pt.val ELSE t.eventSnap[pa]]
    BY <1>1, <1>t, <1>6 DEF Node
  <2>3. QED
    BY <2>1, <2>2 DEF Apply, With
<1>7. ASSUME ~t.viewed
      PROVE  e = EmptyNode /\ t.serverSnap = EmptyNode
  BY <1>1, <1>7 DEF Sound, EmptyNode
<1> HIDE DEF w, f, e
<1>8. u \in Tree
  BY <1>t, <1>4, <1>5, TreeForm
<1>9. QED
  BY <1>2, <1>3, <1>6, <1>7, <1>8 DEF Sound, w

\* A tree after news of a path, field by field.
Overwrites(t, pa, v) ==
    [allWrites |-> t.allWrites, visibleWrites |-> t.visibleWrites, viewed |-> t.viewed,
     serverSnap |-> [t.serverSnap EXCEPT ![pa] = v], complete |-> t.complete,
     eventSnap |-> [t.eventSnap EXCEPT ![pa] =
                       IF pa \in DOMAIN t.visibleWrites THEN t.eventSnap[pa] ELSE v]]
LEMMA OverwriteForm ==
    ASSUME NEW t \in Tree, NEW pa, NEW v
    PROVE  applyServerOverwrite(t, pa, v) = Overwrites(t, pa, v)
<1> DEFINE s == [t.serverSnap EXCEPT ![pa] = v]
           e == [t.eventSnap EXCEPT ![pa] = IF pa \in DOMAIN t.visibleWrites THEN t.eventSnap[pa] ELSE v]
<1>1. applyServerOverwrite(t, pa, v) = [t EXCEPT !.serverSnap = s, !.eventSnap = e]
  BY TreeFields DEF applyServerOverwrite
<1>2. Overwrites(t, pa, v)
        = [allWrites |-> t.allWrites, visibleWrites |-> t.visibleWrites, viewed |-> t.viewed,
           serverSnap |-> s, complete |-> t.complete, eventSnap |-> e]
  BY DEF Overwrites
<1> HIDE DEF s, e
<1>3. QED
  BY <1>1, <1>2, TreeFields

LEMMA ServerOverwrite ==
    ASSUME NEW t \in Tree, Sound(t), t.viewed, NEW pa \in Paths, NEW v \in Values \cup {None}
    PROVE  LET u == applyServerOverwrite(t, pa, v)
           IN  /\ u \in Tree /\ Sound(u)
               /\ u.allWrites = t.allWrites /\ u.viewed = t.viewed /\ u.complete = t.complete
<1> DEFINE s == [t.serverSnap EXCEPT ![pa] = v]
           e == [t.eventSnap EXCEPT ![pa] = IF pa \in DOMAIN t.visibleWrites THEN t.eventSnap[pa] ELSE v]
           u == [allWrites |-> t.allWrites, visibleWrites |-> t.visibleWrites, viewed |-> t.viewed,
                 serverSnap |-> s, complete |-> t.complete, eventSnap |-> e]
<1>t. /\ t.allWrites \in Seq(Q!Put) /\ t.visibleWrites \in CompoundWrite
      /\ t.viewed \in BOOLEAN /\ t.complete \in BOOLEAN
      /\ t.serverSnap \in Node /\ t.eventSnap \in Node
  BY TreeFields
<1>1. applyServerOverwrite(t, pa, v) = u
  BY OverwriteForm DEF Overwrites
<1>2. s \in Node /\ e \in Node
  BY <1>t DEF Node
<1>3. e = Apply(t.visibleWrites, s)
  <2>1. t.eventSnap = Apply(t.visibleWrites, t.serverSnap)
    BY DEF Sound
  <2>2. /\ s = [q \in Paths |-> IF q = pa THEN v ELSE t.serverSnap[q]]
        /\ e = [q \in Paths |-> IF q = pa /\ pa \notin DOMAIN t.visibleWrites THEN v
                                ELSE t.eventSnap[q]]
    BY <1>t DEF Node
  <2>3. QED
    BY <2>1, <2>2 DEF Apply
<1> HIDE DEF s, e
<1>4. u \in Tree
  BY <1>t, <1>2, TreeForm
<1>5. QED
  BY <1>1, <1>3, <1>4 DEF Sound

\* The whole location, and the answer to the listen.
LEMMA ServerNode ==
    ASSUME NEW t \in Tree, Sound(t), t.viewed, NEW node \in Node
    PROVE  LET u == applyServerNode(t, node)
           IN  /\ u \in Tree /\ Sound(u)
               /\ u.allWrites = t.allWrites /\ u.viewed = t.viewed /\ u.complete
BY TreeFields, TreeForm, ApplyType, EmptyType DEF Sound, Tree, applyServerNode

LEMMA ListenComplete ==
    ASSUME NEW t \in Tree, Sound(t), t.viewed
    PROVE  LET u == applyListenComplete(t)
           IN  /\ u \in Tree /\ Sound(u)
               /\ u.allWrites = t.allWrites /\ u.viewed = t.viewed /\ u.complete
BY TreeFields, TreeForm, ApplyType, EmptyType DEF Sound, Tree, applyListenComplete

LEMMA DropView ==
    ASSUME NEW t \in Tree, Sound(t)
    PROVE  LET u == dropView(t)
           IN  /\ u \in Tree /\ Sound(u)
               /\ u.allWrites = t.allWrites /\ ~u.viewed /\ ~u.complete /\ u.visibleWrites = t.visibleWrites
               /\ u.eventSnap = EmptyNode
BY TreeFields, TreeForm, ApplyType, EmptyType DEF Sound, Tree, dropView

LEMMA CreateView ==
    ASSUME NEW t \in Tree, Sound(t), ~t.viewed
    PROVE  LET u == createView(t)
           IN  /\ u \in Tree /\ Sound(u)
               /\ u.allWrites = t.allWrites /\ u.viewed /\ u.complete = t.complete
               /\ u.eventSnap = Apply(t.visibleWrites, EmptyNode)
BY TreeFields, TreeForm, ApplyType, EmptyType DEF Sound, Tree, createView

\* Taking the oldest write out of the write tree.
LEMMA RemoveFirstWrite ==
    ASSUME NEW t \in Tree, Sound(t), t.allWrites # <<>>
    PROVE  LET u == removeWriteId(t, 1)
           IN  /\ u \in Tree
               /\ u.allWrites = Tail(t.allWrites) /\ u.visibleWrites = LayerTree(Tail(t.allWrites))
               /\ u.viewed = t.viewed /\ u.complete = t.complete
               /\ u.serverSnap = t.serverSnap /\ u.eventSnap = t.eventSnap
<1> DEFINE w == Tail(t.allWrites)
           f == LayerTree(w)
           u == [allWrites |-> w, visibleWrites |-> f, viewed |-> t.viewed,
                 serverSnap |-> t.serverSnap, complete |-> t.complete, eventSnap |-> t.eventSnap]
<1>1. t.allWrites \in Seq(Q!Put) /\ w \in Seq(Q!Put)
  BY TreeFields
<1>2. RemoveAt(t.allWrites, 1) = w /\ VisibleWithout(t, 1) = f
  BY <1>1, LayerTail DEF VisibleWithout, Sound
<1>3. removeWriteId(t, 1) = [t EXCEPT !.allWrites = w, !.visibleWrites = f]
  BY <1>2 DEF removeWriteId
<1>4. f \in CompoundWrite
  BY <1>1, LayerFacts
<1> HIDE DEF w, f
<1>5. removeWriteId(t, 1) = u
  BY <1>3, TreeFields
<1>6. u \in Tree
  BY <1>1, <1>4, TreeFields, TreeForm
<1>7. /\ u.allWrites = w /\ u.visibleWrites = f /\ u.viewed = t.viewed
      /\ u.complete = t.complete /\ u.serverSnap = t.serverSnap /\ u.eventSnap = t.eventSnap
  OBVIOUS
<1> HIDE DEF u
<1>8. QED
  BY <1>5, <1>6, <1>7 DEF w, f

\* After it the view is as it should be, but for the path of the write.
LEMMA UncoveredPath ==
    ASSUME NEW t \in Tree, Sound(t), t.viewed, t.allWrites # <<>>
    PROVE  LET w  == Tail(t.allWrites)
               pa == t.allWrites[1].path
           IN  /\ pa \in Paths
               /\ \A q \in Paths \ {pa} : t.eventSnap[q] = Apply(LayerTree(w), t.serverSnap)[q]
               /\ Shadowed(t.allWrites, 1) => t.eventSnap = Apply(LayerTree(w), t.serverSnap)
               /\ ~Shadowed(t.allWrites, 1) => pa \notin DOMAIN LayerTree(w)
<1> DEFINE w == Tail(t.allWrites)
           pa == t.allWrites[1].path
<1>1. t.allWrites \in Seq(Q!Put) /\ t.allWrites[1] \in Q!Put
  BY TreeFields
<1>2. pa \in Paths
  BY <1>1 DEF Q!Put
<1>3. /\ t.visibleWrites = LayerTree(t.allWrites)
      /\ t.eventSnap = Apply(t.visibleWrites, t.serverSnap)
  BY DEF Sound
<1>4. /\ Shadowed(t.allWrites, 1) => LayerTree(w) = LayerTree(t.allWrites)
      /\ ~Shadowed(t.allWrites, 1) => LayerTree(w) = Without(LayerTree(t.allWrites), pa)
  BY <1>1, LayerTail
<1> HIDE DEF w, pa
<1>5. CASE Shadowed(t.allWrites, 1)
  BY <1>2, <1>3, <1>4, <1>5 DEF w, pa
<1>6. CASE ~Shadowed(t.allWrites, 1)
  <2>1. pa \notin DOMAIN LayerTree(w)
    BY <1>4, <1>6 DEF Without
  <2>2. ASSUME NEW q \in Paths \ {pa}
        PROVE  t.eventSnap[q] = Apply(LayerTree(w), t.serverSnap)[q]
    BY <1>3, <1>4, <1>6 DEF Apply, Without
  <2>3. QED
    BY <1>2, <1>6, <2>1, <2>2 DEF w, pa
<1>7. QED
  BY <1>5, <1>6

\* The oldest write is granted, or refused; a view that is shown is complete.
LEMMA AckFirst ==
    ASSUME NEW t \in Tree, Sound(t), t.allWrites # <<>>, t.viewed => t.complete
    PROVE  LET u == ackUserWrite(t, 1)
           IN  /\ u \in Tree /\ Sound(u)
               /\ u.allWrites = Tail(t.allWrites)
               /\ u.viewed = t.viewed /\ u.complete = t.complete
<1> DEFINE u == removeWriteId(t, 1)
           pa == t.allWrites[1].path
<1>1. /\ u \in Tree
      /\ u.allWrites = Tail(t.allWrites) /\ u.visibleWrites = LayerTree(Tail(t.allWrites))
      /\ u.viewed = t.viewed /\ u.complete = t.complete
      /\ u.serverSnap = t.serverSnap /\ u.eventSnap = t.eventSnap
  BY RemoveFirstWrite
<1> HIDE DEF u
<1>2. CASE ~t.viewed
  BY <1>1, <1>2 DEF Sound, ackUserWrite, u
<1>3. CASE t.viewed /\ Shadowed(t.allWrites, 1)
  <2>1. u.eventSnap = Apply(u.visibleWrites, u.serverSnap)
    BY <1>1, <1>3, UncoveredPath
  <2>2. QED
    BY <1>1, <1>3, <2>1 DEF Sound, ackUserWrite, u
<1>4. CASE t.viewed /\ ~Shadowed(t.allWrites, 1)
  <2> DEFINE e == [u.eventSnap EXCEPT ![pa] = u.serverSnap[pa]]
             s == [u.serverSnap EXCEPT ![pa] = u.serverSnap[pa]]
             x == [allWrites |-> u.allWrites, visibleWrites |-> u.visibleWrites, viewed |-> u.viewed,
                   serverSnap |-> s, complete |-> u.complete, eventSnap |-> e]
  <2>1. /\ pa \in Paths /\ pa \notin DOMAIN u.visibleWrites
        /\ \A q \in Paths \ {pa} : t.eventSnap[q] = Apply(u.visibleWrites, t.serverSnap)[q]
    BY <1>1, <1>4, UncoveredPath
  <2>t. /\ u.allWrites \in Seq(Q!Put) /\ u.visibleWrites \in CompoundWrite
        /\ u.viewed \in BOOLEAN /\ u.complete \in BOOLEAN
        /\ u.serverSnap \in Node /\ u.eventSnap \in Node
    BY <1>1, TreeFields
  <2>2. ackUserWrite(t, 1) = applyServerOverwrite(u, pa, u.serverSnap[pa])
    BY <1>1, <1>4, <2>1 DEF ackUserWrite, u
  <2>3. applyServerOverwrite(u, pa, u.serverSnap[pa]) = x
    <3>1. applyServerOverwrite(u, pa, u.serverSnap[pa]) = Overwrites(u, pa, u.serverSnap[pa])
      BY <1>1, OverwriteForm
    <3>2. Overwrites(u, pa, u.serverSnap[pa]) = x
      BY <2>1 DEF Overwrites
    <3>3. QED
      BY <3>1, <3>2
  <2>4. s = u.serverSnap /\ e \in Node
    BY <2>1, <2>t DEF Node
  <2>5. e = Apply(u.visibleWrites, u.serverSnap)
    BY <1>1, <2>1, <2>t DEF Apply, Node
  <2> HIDE DEF s, e
  <2>6. x \in Tree
    BY <2>t, <2>4, TreeForm
  <2>7. x.viewed /\ Sound(x) /\ x.allWrites = u.allWrites /\ x.viewed = u.viewed /\ x.complete = u.complete
    BY <1>1, <1>4, <2>4, <2>5 DEF Sound
  <2> HIDE DEF x
  <2>8. QED
    BY <1>1, <2>2, <2>3, <2>6, <2>7
<1>5. QED
  BY <1>2, <1>3, <1>4

LEMMA RevertFirst ==
    ASSUME NEW t \in Tree, Sound(t), t.allWrites # <<>>
    PROVE  LET u == revertUserWrite(t, 1)
           IN  /\ u \in Tree /\ Sound(u)
               /\ u.allWrites = Tail(t.allWrites)
               /\ u.viewed = t.viewed /\ u.complete = t.complete
<1> DEFINE u == removeWriteId(t, 1)
           pa == t.allWrites[1].path
<1>1. /\ u \in Tree
      /\ u.allWrites = Tail(t.allWrites) /\ u.visibleWrites = LayerTree(Tail(t.allWrites))
      /\ u.viewed = t.viewed /\ u.complete = t.complete
      /\ u.serverSnap = t.serverSnap /\ u.eventSnap = t.eventSnap
  BY RemoveFirstWrite
<1> HIDE DEF u
<1>2. CASE ~t.viewed
  BY <1>1, <1>2 DEF Sound, revertUserWrite, u
<1>3. CASE t.viewed /\ Shadowed(t.allWrites, 1)
  <2>1. u.eventSnap = Apply(u.visibleWrites, u.serverSnap)
    BY <1>1, <1>3, UncoveredPath
  <2>2. QED
    BY <1>1, <1>3, <2>1 DEF Sound, revertUserWrite, u
<1>4. CASE t.viewed /\ ~Shadowed(t.allWrites, 1)
  <2> DEFINE e == [u.eventSnap EXCEPT ![pa] = u.serverSnap[pa]]
             x == [allWrites |-> u.allWrites, visibleWrites |-> u.visibleWrites, viewed |-> u.viewed,
                   serverSnap |-> u.serverSnap, complete |-> u.complete, eventSnap |-> e]
  <2>1. /\ pa \in Paths /\ pa \notin DOMAIN u.visibleWrites
        /\ \A q \in Paths \ {pa} : t.eventSnap[q] = Apply(u.visibleWrites, t.serverSnap)[q]
    BY <1>1, <1>4, UncoveredPath
  <2>t. /\ u.allWrites \in Seq(Q!Put) /\ u.visibleWrites \in CompoundWrite
        /\ u.viewed \in BOOLEAN /\ u.complete \in BOOLEAN
        /\ u.serverSnap \in Node /\ u.eventSnap \in Node
    BY <1>1, TreeFields
  <2>2. revertUserWrite(t, 1) = [u EXCEPT !.eventSnap = e]
    BY <1>1, <1>4, <2>1, TreeFields DEF revertUserWrite, u
  <2>3. e \in Node
    BY <2>1, <2>t DEF Node
  <2>4. e = Apply(u.visibleWrites, u.serverSnap)
    BY <1>1, <2>1, <2>t DEF Apply, Node
  <2> HIDE DEF e
  <2>5. revertUserWrite(t, 1) = x
    BY <1>1, <2>2, TreeFields
  <2>6. x \in Tree
    BY <2>t, <2>3, TreeForm
  <2>7. x.viewed /\ Sound(x) /\ x.allWrites = u.allWrites /\ x.viewed = u.viewed /\ x.complete = u.complete
    BY <1>1, <1>4, <2>4 DEF Sound
  <2> HIDE DEF x
  <2>8. QED
    BY <1>1, <2>5, <2>6, <2>7
<1>5. QED
  BY <1>2, <1>3, <1>4

\* Without a view, taking any write out is all an answer does.
LEMMA AckUnseen ==
    ASSUME NEW t \in Tree, Sound(t), ~t.viewed, NEW k \in DOMAIN t.allWrites
    PROVE  LET u == removeWriteId(t, k)
           IN  /\ u \in Tree /\ Sound(u)
               /\ ackUserWrite(t, k) = u /\ revertUserWrite(t, k) = u
               /\ u.allWrites = RemoveAt(t.allWrites, k)
               /\ u.viewed = t.viewed /\ u.complete = t.complete
               /\ u.serverSnap = t.serverSnap /\ u.eventSnap = t.eventSnap
<1> DEFINE w == RemoveAt(t.allWrites, k)
           f == LayerTree(w)
           u == [allWrites |-> w, visibleWrites |-> f, viewed |-> t.viewed,
                 serverSnap |-> t.serverSnap, complete |-> t.complete, eventSnap |-> t.eventSnap]
<1>1. t.allWrites \in Seq(Q!Put) /\ w \in Seq(Q!Put)
  BY TreeFields, LayerRemove
<1>2. VisibleWithout(t, k) = f
  <2>1. CASE Shadowed(t.allWrites, k)
    BY <1>1, <2>1, LayerRemove DEF VisibleWithout, Sound
  <2>2. CASE ~Shadowed(t.allWrites, k) /\ Overlaps(t.allWrites, k)
    BY <2>2 DEF VisibleWithout
  <2>3. CASE ~Shadowed(t.allWrites, k) /\ ~Overlaps(t.allWrites, k)
    BY <1>1, <2>3, LayerRemove DEF VisibleWithout, Sound
  <2>4. QED
    BY <2>1, <2>2, <2>3
<1>3. removeWriteId(t, k) = [t EXCEPT !.allWrites = w, !.visibleWrites = f]
  BY <1>2 DEF removeWriteId
<1>4. f \in CompoundWrite
  BY <1>1, LayerFacts
<1>o. ackUserWrite(t, k) = removeWriteId(t, k) /\ revertUserWrite(t, k) = removeWriteId(t, k)
  BY DEF ackUserWrite, revertUserWrite
<1>d. f = LayerTree(w)
  OBVIOUS
<1>v. w = RemoveAt(t.allWrites, k)
  OBVIOUS
<1> HIDE DEF w, f
<1>5. removeWriteId(t, k) = u
  BY <1>3, TreeWrites
<1>6. u \in Tree
  BY <1>1, <1>4, TreeFields, TreeForm
<1>7. /\ u.allWrites = w /\ u.visibleWrites = f /\ u.viewed = t.viewed
      /\ u.complete = t.complete /\ u.serverSnap = t.serverSnap /\ u.eventSnap = t.eventSnap
  OBVIOUS
<1> HIDE DEF u
<1>8. Sound(u)
  BY <1>7, <1>d DEF Sound
<1>9. QED
  BY <1>o, <1>5, <1>6, <1>7, <1>8, <1>v

-----------------------------------------------------------------------------
(* Sequences and events. *)

LEMMA TailFacts ==
    ASSUME NEW S, NEW s \in Seq(S), s # <<>>
    PROVE  /\ Tail(s) \in Seq(S) /\ Head(s) = s[1] /\ s[1] \in S /\ 1 \in DOMAIN s
           /\ Len(s) \in Nat /\ DOMAIN s = 1..Len(s) /\ Len(Tail(s)) = Len(s) - 1
           /\ \A i \in DOMAIN Tail(s) :
                i + 1 \in DOMAIN s /\ i \in Nat /\ i > 0 /\ Tail(s)[i] = s[i + 1]
OBVIOUS

LEMMA ConcatFacts ==
    ASSUME NEW S, NEW s \in Seq(S), NEW t \in Seq(S)
    PROVE  /\ s \o t \in Seq(S)
           /\ \A i \in DOMAIN s : i \in DOMAIN (s \o t) /\ (s \o t)[i] = s[i]
           /\ \A i \in DOMAIN (s \o t) :
                \/ i \in DOMAIN s /\ (s \o t)[i] = s[i]
                \/ /\ i - Len(s) \in DOMAIN t /\ (s \o t)[i] = t[i - Len(s)]
                   /\ \A j \in DOMAIN s : j < i
<1>1. DOMAIN s = 1..Len(s) /\ DOMAIN t = 1..Len(t) /\ Len(s) \in Nat /\ Len(t) \in Nat
  OBVIOUS
<1>2. s \o t \in Seq(S) /\ Len(s \o t) = Len(s) + Len(t)
  OBVIOUS
<1>3. DOMAIN (s \o t) = 1..(Len(s) + Len(t))
  BY <1>1, <1>2
<1>4. \A i \in 1..Len(s) : (s \o t)[i] = s[i]
  BY <1>1
<1>5. \A i \in (Len(s) + 1)..(Len(s) + Len(t)) : (s \o t)[i] = t[i - Len(s)]
  BY <1>1
<1>6. \A i \in 1..(Len(s) + Len(t)) : i \in 1..Len(s) \/ i \in (Len(s) + 1)..(Len(s) + Len(t))
  BY <1>1
<1>7. \A i \in (Len(s) + 1)..(Len(s) + Len(t)) : i - Len(s) \in 1..Len(t) /\ \A j \in 1..Len(s) : j < i
  BY <1>1
<1>8. QED
  BY <1>1, <1>2, <1>3, <1>4, <1>5, <1>6, <1>7

LEMMA ConcatTwo ==
    ASSUME NEW S, NEW s \in Seq(S), NEW x \in S, NEW y \in S
    PROVE  (s \o <<x>>) \o <<y>> = s \o <<x, y>>
<1> DEFINE b == <<x>>
           c == <<y>>
<1>1. b \in Seq(S) /\ c \in Seq(S)
  OBVIOUS
<1>2. b \o c = <<x, y>>
  <2>1. Len(b) = 1 /\ Len(c) = 1 /\ b[1] = x /\ c[1] = y
    OBVIOUS
  <2> HIDE DEF b, c
  <2>a. /\ b \o c \in Seq(S) /\ Len(b \o c) = Len(b) + Len(c)
        /\ \A i \in 1 .. Len(b) + Len(c) :
                (b \o c)[i] = IF i <= Len(b) THEN b[i] ELSE c[i - Len(b)]
    BY <1>1, ConcatProperties, Zenon
  <2>2. Len(b \o c) = 2 /\ b \o c \in Seq(S)
    BY <2>1, <2>a
  <2>3. (b \o c)[1] = x
    BY <2>1, <2>a
  <2>4. (b \o c)[2] = y
    BY <2>1, <2>a
  <2>5. <<x, y>> \in Seq(S) /\ Len(<<x, y>>) = 2
    OBVIOUS
  <2> DEFINE p == b \o c
             q == <<x, y>>
  <2>6. p \in Seq(S) /\ q \in Seq(S) /\ Len(p) = Len(q) /\ Len(p) = 2
    BY <2>2, <2>5
  <2>7. p[1] = q[1] /\ p[2] = q[2]
    BY <2>3, <2>4
  <2> HIDE DEF p, q
  <2>8. \A i \in 1..Len(p) : p[i] = q[i]
    BY <2>6, <2>7
  <2>9. QED
    BY <2>6, <2>8, SeqEqual DEF p, q
<1> HIDE DEF b, c
<1>3. (s \o b) \o c = s \o (b \o c)
  BY <1>1
<1>4. QED
  BY <1>2, <1>3 DEF b, c

LEMMA AppendFacts ==
    ASSUME NEW S, NEW s \in Seq(S), NEW e \in S
    PROVE  /\ Append(s, e) \in Seq(S) /\ Len(s) \in Nat /\ Len(Append(s, e)) = Len(s) + 1
           /\ DOMAIN s = 1..Len(s)
           /\ \A i \in DOMAIN s : i \in DOMAIN Append(s, e) /\ Append(s, e)[i] = s[i]
           /\ Len(s) + 1 \in DOMAIN Append(s, e) /\ Append(s, e)[Len(s) + 1] = e
           /\ \A i \in DOMAIN Append(s, e) : i \in DOMAIN s \/ i = Len(s) + 1
<1>1. DOMAIN s = 1..Len(s) /\ Len(s) \in Nat /\ Append(s, e) \in Seq(S) /\ Len(Append(s, e)) = Len(s) + 1
  OBVIOUS
<1>2. DOMAIN Append(s, e) = 1..(Len(s) + 1)
  BY <1>1
<1>3. \A i \in 1..(Len(s) + 1) : i \in 1..Len(s) \/ i = Len(s) + 1
  BY <1>1
<1>4. \A i \in 1..Len(s) : Append(s, e)[i] = s[i] /\ i \in 1..(Len(s) + 1)
  BY <1>1
<1>5. Append(s, e)[Len(s) + 1] = e
  BY <1>1
<1>6. QED
  BY <1>1, <1>2, <1>3, <1>4, <1>5

\* SetToSeq lists every element of a finite set once.
LEMMA Listed ==
    ASSUME NEW S, IsFiniteSet(S)
    PROVE  SetToSeq(S) \in Seq(S) /\ SetToSeq(S) \in SetToSeqs(S)
<1> DEFINE n == Cardinality(S)
           Good(f) == f \in [1..n -> S] /\ IsInjective(f)
<1>1. n \in Nat /\ ExistsBijection(1..n, S)
  BY FS_CardinalityType
<1>2. \E f : Good(f)
  BY <1>1 DEF ExistsBijection, Bijection, Injection, Surjection, IsInjective
<1>3. Good(SetToSeq(S))
  BY <1>2 DEF SetToSeq
<1> DEFINE f == SetToSeq(S)
<1>4. f \in [1..n -> S] /\ \A i, j \in 1..n : f[i] = f[j] => i = j
  BY <1>3 DEF IsInjective
<1> HIDE DEF f
<1>5. f \in SetToSeqs(S)
  BY <1>4 DEF SetToSeqs
<1> HIDE DEF n
<1>6. f \in Seq(S)
  BY <1>1, <1>4
<1>7. QED
  BY <1>5, <1>6 DEF f

LEMMA EventsType ==
    ASSUME NEW T \in SUBSET Paths, NEW node \in Node, \A pa \in T : node[pa] # None
    PROVE  LET S == {ChildAdded(pa, node[pa]) : pa \in T}
           IN  IsFiniteSet(S) /\ SetToSeq(S) \in Seq(Event) /\ SetToSeq(S) \in SetToSeqs(S)
<1> DEFINE S == {ChildAdded(pa, node[pa]) : pa \in T}
<1>1. IsFiniteSet(T)
  BY SyncTreeAssumption, FS_Subset
<1>2. IsFiniteSet(S)
  <2> DEFINE g == [pa \in T |-> ChildAdded(pa, node[pa])]
  <2>1. g \in Surjection(T, S)
    BY DEF Surjection
  <2>2. QED
    BY <1>1, <2>1, FS_Surjection
<1>3. S \subseteq Event
  BY DEF ChildAdded, Event, Node
<1> HIDE DEF S
<1>4. SetToSeq(S) \in Seq(S) /\ SetToSeq(S) \in SetToSeqs(S)
  BY <1>2, Listed
<1>5. SetToSeq(S) \in Seq(Event)
  BY <1>3, <1>4
<1>6. QED
  BY <1>2, <1>4, <1>5 DEF S

LEMMA EachType ==
    ASSUME observers[Ref] \in Nat, NEW added \in Seq(Event)
    PROVE  Each(added) \in Seq(Event)
<1> DEFINE n == observers[Ref]
           L == Len(added)
<1>1. L \in Nat /\ \A i \in 1..L : added[i] \in Event
  OBVIOUS
<1> HIDE DEF n, L
<1>2. n \in Nat /\ L * n \in Nat
  BY <1>1 DEF n
<1>3. ASSUME NEW i \in 1..(L * n)
      PROVE  1 + (i - 1) \div n \in 1..L
  <2>1. n # 0
    BY <1>1, <1>2
  <2>2. n > 0
    BY <1>2, <2>1
  <2> DEFINE q == (i - 1) \div n
  <2>3. q \in Int /\ n * q <= i - 1 /\ i - 1 < n * q + n
    BY <1>2, <2>2
  <2>4. QED
    BY <1>1, <1>2, <2>2, <2>3
<1>4. [i \in 1..(L * n) |-> added[1 + (i - 1) \div n]] \in Seq(Event)
  BY <1>1, <1>2, <1>3
<1>5. QED
  BY <1>4 DEF Each, n, L

\* The events an operation raises.
LEMMA RaisedType ==
    ASSUME TypeOK, NEW old \in Node, NEW new \in Node
    PROVE  mainQueue \o EventsOf(old, new) \in Seq(Event)
<1>1. observers[Ref] \in Nat /\ mainQueue \in Seq(Event)
  BY SyncTreeAssumption DEF TypeOK
<1>2. Children(new) \ Children(old) \in SUBSET Paths
      /\ \A pa \in Children(new) \ Children(old) : new[pa] # None
  BY DEF Children
<1>3. SetToSeq({ChildAdded(pa, new[pa]) : pa \in Children(new) \ Children(old)}) \in Seq(Event)
  BY <1>2, EventsType
<1>4. EventsOf(old, new) \in Seq(Event)
  BY <1>1, <1>3, EachType DEF EventsOf
<1>5. QED
  BY <1>1, <1>4

-----------------------------------------------------------------------------
(* The pipeline. *)

\* Both instances of the pipeline are the same.
LEMMA SameTypes == (Q!Init <=> QP!Init) /\ (Q!TypeOK <=> QP!TypeOK) /\ Q!Put = QP!Put
BY DEF Q!Init, QP!Init, Q!TypeOK, QP!TypeOK, Q!Put, QP!Put, Q!Request, QP!Request,
       Q!Response, QP!Response

LEMMA SameIssue == ASSUME NEW d, NEW batch PROVE Q!Issue(d, batch) <=> QP!Issue(d, batch)
BY DEF Q!Issue, QP!Issue, Q!PutsOf, QP!PutsOf, Q!RequestsOf, QP!RequestsOf,
       Q!PathsOf, QP!PathsOf, Q!LastOf, QP!LastOf

LEMMA SameSession ==
    ASSUME NEW d
    PROVE  (Q!SignIn(d) <=> QP!SignIn(d)) /\ (Q!SignOut(d) <=> QP!SignOut(d))
BY DEF Q!SignIn, QP!SignIn, Q!SignOut, QP!SignOut, Q!history, QP!history

LEMMA SameConnection ==
    ASSUME NEW d
    PROVE  /\ Q!Connect(d) <=> QP!Connect(d)
           /\ Q!Disconnect(d) <=> QP!Disconnect(d)
BY DEF Q!Connect, QP!Connect, Q!RequestsOf, QP!RequestsOf, Q!Resent, QP!Resent,
       Q!Disconnect, QP!Disconnect, Q!history, QP!history

LEMMA SameServer ==
    ASSUME NEW d
    PROVE  (Q!Answer(d) <=> QP!Answer(d)) /\ (Q!Process(d) <=> QP!Process(d))
BY DEF Q!Answer, QP!Answer, Q!SettledBy, QP!SettledBy, Q!Process, QP!Process,
       Q!Granted, QP!Granted, Q!deviceVars, QP!deviceVars, Q!history, QP!history

\* What holds of the pipeline: its types and the invariant of the device, which
\* says nothing of the store that other devices write too.
PipeInv == Q!TypeOK /\ QP!DeviceInv(Device)

LEMMA PipeStep ==
    ASSUME PipeInv, QP!Next
    PROVE  PipeInv'
<1>1. QP!TypeOK
  BY SameTypes DEF PipeInv
<1>2. QP!TypeOK'
  BY <1>1, QueueAssumptions, QP!TypeStep, Zenon
<1>3. \A d \in {Device} : QP!DeviceInv(d)
  BY DEF PipeInv
<1>4. Device \in {Device}
  OBVIOUS
<1>5. QP!DeviceInv(Device)'
  BY <1>1, <1>3, <1>4, QueueAssumptions, QP!DeviceStep, Zenon
<1>6. Q!TypeOK' <=> QP!TypeOK'
  BY DEF Q!TypeOK, QP!TypeOK, Q!Put, QP!Put, Q!Request, QP!Request, Q!Response, QP!Response
<1>7. QED
  BY <1>2, <1>5, <1>6 DEF PipeInv

\* The pipeline stands by while the store is written by another device.
LEMMA PipeStands ==
    ASSUME PipeInv, UNCHANGED deviceQueueVars, store' \in Node
    PROVE  PipeInv'
<1>1. QP!TypeOK /\ QP!DeviceInv(Device) /\ Device \in {Device}
  BY SameTypes DEF PipeInv
<1>2. QP!DeviceInv(Device)'
  BY <1>1, QueueAssumptions, QP!Untouched, Zenon DEF deviceQueueVars
<1>3. Q!TypeOK'
  BY DEF PipeInv, Q!TypeOK, deviceQueueVars, Node
<1>4. QED
  BY <1>2, <1>3 DEF PipeInv

\* A connection that fails before the puts are sent is no matter of theirs.
LEMMA PipeUnready ==
    ASSUME PipeInv, AuthFailed
    PROVE  PipeInv'
<1>1. QP!TypeOK /\ QP!DeviceInv(Device) /\ Device \in {Device}
  BY SameTypes DEF PipeInv
<1>2. QP!DeviceInv(Device)'
  <2>1. UNCHANGED <<outstandingPuts, wire, responses, connected, putCounter, processed, lastPut,
                    writers>>
    BY DEF AuthFailed
  <2>2. QED
    BY <1>1, <2>1, QueueAssumptions, QP!Untouched, Zenon
<1>3. Q!TypeOK'
  <2>1. disruptions' \in 0..MaxDisruptions
    BY SyncTreeAssumption DEF AuthFailed, PipeInv, Q!TypeOK
  <2>2. QED
    BY <2>1 DEF AuthFailed, PipeInv, Q!TypeOK
<1>4. QED
  BY <1>2, <1>3 DEF PipeInv

\* A put is issued under a new index.
LEMMA SetPipe ==
    ASSUME PipeInv, NEW w \in [path : Paths, val : Values \cup {None}], Q!Issue(Device, <<w>>)
    PROVE  LET pt == [idx |-> putCounter[Device], path |-> w.path, val |-> w.val]
           IN  /\ pt \in Q!Put /\ PipeInv' /\ putCounter[Device] \in Nat
               /\ outstandingPuts'[Device] = outstandingPuts[Device] \cup {pt}
               /\ putCounter'[Device] = putCounter[Device] + 1
               /\ \A q \in outstandingPuts[Device] : q.idx < putCounter[Device] /\ q.idx \in Nat
               /\ UNCHANGED <<store, connected, signedIn>>
<1> DEFINE pt == [idx |-> putCounter[Device], path |-> w.path, val |-> w.val]
           batch == <<w>>
<1>1. putCounter[Device] \in Nat /\ outstandingPuts[Device] \in SUBSET Q!Put
  BY DEF PipeInv, Q!TypeOK
<1>2. pt \in Q!Put
  BY <1>1 DEF Q!Put
<1>3. \A q \in outstandingPuts[Device] : q.idx < putCounter[Device] /\ q.idx \in Nat
  BY <1>1 DEF PipeInv, QP!DeviceInv, QP!Indexed, Q!Put
<1>4. Q!PutsOf(Device, batch) = {pt}
  <2>1. DOMAIN batch = {1} /\ batch[1] = w
    OBVIOUS
  <2>2. putCounter[Device] + 1 - 1 = putCounter[Device]
    BY <1>1
  <2> HIDE DEF batch
  <2>3. QED
    BY <2>1, <2>2 DEF Q!PutsOf
<1>5. Len(batch) = 1
  OBVIOUS
<1>6. /\ outstandingPuts' = [outstandingPuts EXCEPT ![Device] = @ \cup Q!PutsOf(Device, batch)]
      /\ putCounter' = [putCounter EXCEPT ![Device] = @ + Len(batch)]
      /\ UNCHANGED <<store, connected, signedIn>>
  BY DEF Q!Issue
<1>7. Device \in DOMAIN outstandingPuts /\ Device \in DOMAIN putCounter
  BY DEF PipeInv, Q!TypeOK
<1> HIDE DEF pt
<1>8. /\ outstandingPuts'[Device] = outstandingPuts[Device] \cup {pt}
      /\ putCounter'[Device] = putCounter[Device] + 1
  BY <1>4, <1>5, <1>6, <1>7
<1>9. QP!Next
  BY SameIssue DEF QP!Next
<1>10. PipeInv'
  BY <1>9, PipeStep
<1>11. QED
  BY <1>1, <1>2, <1>3, <1>6, <1>8, <1>10 DEF pt

\* The oldest response settles the oldest outstanding put.
LEMMA AnswerPipe ==
    ASSUME PipeInv, Q!Answer(Device)
    PROVE  LET r == OldestResponse
           IN  /\ r \in Q!Response /\ PipeInv'
               /\ r.put \in outstandingPuts[Device] /\ connected[Device]
               /\ outstandingPuts'[Device] = outstandingPuts[Device] \ {r.put}
               /\ \A pt \in outstandingPuts[Device] \ {r.put} : r.put.idx < pt.idx
               /\ \A pt \in outstandingPuts[Device] : pt.idx \in Nat /\ pt.idx < putCounter[Device]
               /\ UNCHANGED <<store, connected, signedIn, putCounter>>
<1>1. PICK r \in responses[Device] : Q!Answer(Device)!(r)
  BY DEF Q!Answer
<1>2. /\ outstandingPuts[Device] \in SUBSET Q!Put /\ responses[Device] \in SUBSET Q!Response
      /\ Device \in DOMAIN outstandingPuts
  BY DEF PipeInv, Q!TypeOK
<1>3. QP!Sent(Device) /\ QP!Indexed(Device) /\ QP!Once(Device)
  BY DEF PipeInv, QP!DeviceInv
<1>4. /\ \A q \in responses[Device] : q.put \in outstandingPuts[Device] /\ q.put.idx \in Nat
      /\ \A pt \in outstandingPuts[Device] : pt.idx \in Nat /\ pt.idx < putCounter[Device]
  BY <1>2, <1>3 DEF QP!Sent, QP!Indexed, Q!Put
<1>5. connected[Device]
  BY <1>1, <1>3 DEF QP!Sent
<1>6. \A pt \in outstandingPuts[Device] \ {r.put} : r.put.idx < pt.idx
  <2> SUFFICES ASSUME NEW pt \in outstandingPuts[Device] \ {r.put}
               PROVE  r.put.idx < pt.idx
    OBVIOUS
  <2>1. CASE \E m \in wire[Device] : m.put = pt
    BY <2>1, <1>3 DEF QP!Sent
  <2>2. CASE \E q \in responses[Device] : q.put = pt
    <3>1. r.put.idx <= pt.idx
      BY <2>2, <1>1
    <3>2. r.put.idx # pt.idx
      BY <1>3, <1>4 DEF QP!Indexed
    <3>3. QED
      BY <3>1, <3>2, <1>4
  <2>3. QED
    BY <2>1, <2>2, <1>3, <1>5 DEF QP!Sent
<1>7. \A q \in responses[Device] : (\A p \in responses[Device] : q.put.idx <= p.put.idx) => q = r
  <2> SUFFICES ASSUME NEW q \in responses[Device], \A p \in responses[Device] : q.put.idx <= p.put.idx
               PROVE  q = r
    OBVIOUS
  <2>1. q.put.idx <= r.put.idx /\ r.put.idx <= q.put.idx
    BY <1>1
  <2>2. q.put.idx = r.put.idx
    BY <2>1, <1>4
  <2>3. q.put = r.put
    BY <2>2, <1>3, <1>4 DEF QP!Indexed
  <2>4. QED
    BY <2>3, <1>3 DEF QP!Once
<1>8. OldestResponse = r
  <2>1. \A p \in responses[Device] : r.put.idx <= p.put.idx
    BY <1>1
  <2>2. QED
    BY <2>1, <1>7 DEF OldestResponse
<1>9. /\ outstandingPuts'[Device] = outstandingPuts[Device] \ {r.put}
      /\ UNCHANGED <<store, connected, signedIn, putCounter>>
  BY <1>1, <1>2 DEF Q!SettledBy
<1>10. PipeInv'
  <2>1. QP!Next
    BY SameServer DEF QP!Next, QP!Background
  <2>2. QED
    BY <2>1, PipeStep
<1>11. QED
  BY <1>2, <1>4, <1>5, <1>6, <1>8, <1>9, <1>10

\* The server takes the oldest request of an open connection.
LEMMA ProcessPipe ==
    ASSUME PipeInv, Q!Process(Device)
    PROVE  /\ OldestRequest \in Q!Request /\ PipeInv' /\ connected[Device]
           /\ UNCHANGED <<outstandingPuts, connected, signedIn, putCounter>>
<1>1. PICK m \in wire[Device] : Q!Process(Device)!(m)
  BY DEF Q!Process
<1>2. wire[Device] \in SUBSET Q!Request
  BY DEF PipeInv, Q!TypeOK
<1>3. OldestRequest \in wire[Device]
  <2>1. \A n \in wire[Device] : m.put.idx <= n.put.idx
    BY <1>1
  <2>2. QED
    BY <2>1 DEF OldestRequest
<1>4. connected[Device]
  BY <1>1 DEF PipeInv, QP!DeviceInv, QP!Sent
<1>5. UNCHANGED <<outstandingPuts, connected, signedIn, putCounter>>
  BY <1>1 DEF Q!deviceVars
<1>6. QP!Next
  BY SameServer DEF QP!Next, QP!Background
<1>7. QED
  BY <1>2, <1>3, <1>4, <1>5, <1>6, PipeStep

-----------------------------------------------------------------------------
(* The inductive invariant. *)

\* The answers that wait came in order, and are to older puts than those
\* outstanding.  So answers are used in the order of the puts.
OrderInv ==
    /\ IsFiniteSet(outstandingPuts[Device])
    /\ WritesAccounted
    /\ \A i, j \in DOMAIN putsToAck : i < j => putsToAck[i].put.idx < putsToAck[j].put.idx
    /\ \A i \in DOMAIN putsToAck : putsToAck[i].put.idx < putCounter[Device]
    /\ \A i \in DOMAIN putsToAck, pt \in outstandingPuts[Device] : putsToAck[i].put.idx < pt.idx

\* A message after which the server sends no more news.
Ends(m) == m.type = "revoke" \/ (m.type = "listen" /\ ~m.ok)

Listens(s) == {i \in DOMAIN s : s[i].type = "listen"}

\* The server sends the whole location before it grants a listen.
Paired(s) == \A j \in Listens(s) : s[j].ok /\ j > 1 => s[j - 1].type = "node"

\* What is under way about the listens.  Each unanswered one is on its way to
\* the server or its answer is on the way back; the answers come in the order
\* of the listens, so those without observers come first.  A view on an open
\* connection has the whole location or a listen of its own to wait for; it has
\* the location by the time its listen is granted.
ListenInv ==
    /\ unackedListens = listensSent + Cardinality(Listens(inbox))
    /\ staleListens <= unackedListens
    /\ ~tree.viewed => staleListens = unackedListens /\ ~tree.complete
    /\ ~(connected[Device] /\ authenticating)
    /\ ~connected[Device] => inbox = <<>> /\ ~serving /\ staleListens = 0
    /\ ~connected[Device] /\ ~authenticating => listensSent = 0
    /\ tree.viewed /\ connected[Device] =>
            staleListens < unackedListens \/ (tree.complete /\ unackedListens = 0)
    /\ tree.viewed <=> observers[Ref] > 0
    /\ Paired(inbox)
    /\ inbox # <<>> /\ inbox[1].type = "listen" /\ inbox[1].ok /\ staleListens = 0 => tree.complete

\* Answers wait for a listen, or are being used, or were abandoned; then there
\* is no view, or it waits as well.  While they are used the view, if any, is
\* complete.
AckInv ==
    /\ acking => /\ putsToAck # <<>> /\ unackedListens = 0 /\ connected[Device]
                 /\ tree.viewed => tree.complete
    /\ \A i \in DOMAIN putsToAck :
            \/ putsToAck[i].put.path \in abandoned
            \/ acking \/ unackedListens > 0 \/ (~connected[Device] /\ tree.viewed)
    /\ connected[Device] /\ tree.viewed /\ putsToAck # <<>> => acking \/ unackedListens > 0

IInv == TypeOK /\ PipeInv /\ OrderInv /\ Sound(tree) /\ ListenInv /\ AckInv

Awaited == {pt.idx : pt \in outstandingPuts[Device]}
DeferredIds == {putsToAck[i].put.idx : i \in DOMAIN putsToAck}
Increasing(w) == \A i, j \in DOMAIN w : i < j => w[i].idx < w[j].idx
Ids(w) == {w[i].idx : i \in DOMAIN w}

LEMMA AccountedIs ==
    WritesAccounted <=>
        /\ Ids(tree.allWrites) = Awaited \cup DeferredIds
        /\ Len(tree.allWrites) = Cardinality(outstandingPuts[Device]) + Len(putsToAck)
        /\ Increasing(tree.allWrites)
BY DEF WritesAccounted, Awaited, DeferredIds, Increasing, Ids

LEMMA AccountedNext ==
    WritesAccounted' <=>
        /\ Ids(tree'.allWrites) = Awaited' \cup DeferredIds'
        /\ Len(tree'.allWrites) = Cardinality(outstandingPuts'[Device]) + Len(putsToAck')
        /\ Increasing(tree'.allWrites)
BY DEF WritesAccounted, Awaited, DeferredIds, Increasing, Ids

LEMMA OrderTypes ==
    ASSUME TypeOK
    PROVE  /\ outstandingPuts[Device] \in SUBSET Q!Put
           /\ \A pt \in outstandingPuts[Device] : pt.idx \in Nat
           /\ putCounter[Device] \in Nat
           /\ putsToAck \in Seq(Q!Response)
           /\ \A i \in DOMAIN putsToAck : putsToAck[i] \in Q!Response /\ putsToAck[i].put.idx \in Nat
           /\ tree \in Tree /\ tree.allWrites \in Seq(Q!Put)
           /\ \A i \in DOMAIN tree.allWrites : tree.allWrites[i].idx \in Nat
<1>1. /\ outstandingPuts[Device] \in SUBSET Q!Put /\ putCounter[Device] \in Nat
      /\ putsToAck \in Seq(Q!Response) /\ tree \in Tree
  BY DEF TypeOK, Q!TypeOK
<1>2. \A pt \in outstandingPuts[Device] : pt.idx \in Nat
  BY <1>1 DEF Q!Put
<1>3. \A i \in DOMAIN putsToAck : putsToAck[i] \in Q!Response
  BY <1>1
<1>4. \A i \in DOMAIN putsToAck : putsToAck[i].put.idx \in Nat
  BY <1>3 DEF Q!Response, Q!Put
<1>5. tree.allWrites \in Seq(Q!Put)
  BY <1>1, TreeFields
<1>6. \A i \in DOMAIN tree.allWrites : tree.allWrites[i] \in Q!Put
  BY <1>5
<1>7. QED
  BY <1>1, <1>2, <1>3, <1>4, <1>5, <1>6 DEF Q!Put

\* The write of least id is the first, and it goes.
LEMMA FirstWrite ==
    ASSUME NEW w \in Seq(Q!Put), Increasing(w), NEW id \in Ids(w), \A x \in Ids(w) : id <= x
    PROVE  /\ w # <<>> /\ IndexOf(w, id) = 1 /\ Tail(w) \in Seq(Q!Put)
           /\ Ids(Tail(w)) = Ids(w) \ {id} /\ Increasing(Tail(w))
           /\ Len(w) \in Nat /\ Len(Tail(w)) = Len(w) - 1
<1>1. PICK k \in DOMAIN w : w[k].idx = id
  BY DEF Ids
<1>2. w # <<>>
  BY <1>1
<1>3. /\ Tail(w) \in Seq(Q!Put) /\ 1 \in DOMAIN w
      /\ Len(w) \in Nat /\ DOMAIN w = 1..Len(w) /\ Len(Tail(w)) = Len(w) - 1
      /\ \A i \in DOMAIN Tail(w) : i + 1 \in DOMAIN w /\ i \in Nat /\ i > 0 /\ Tail(w)[i] = w[i + 1]
  BY <1>2, TailFacts
<1>4. \A i \in DOMAIN w : w[i].idx \in Nat
  <2>1. \A i \in DOMAIN w : w[i] \in Q!Put
    OBVIOUS
  <2>2. QED
    BY <2>1 DEF Q!Put
<1>5. \A i \in DOMAIN w : id <= w[i].idx
  BY DEF Ids
<1>6. k = 1
  <2>1. k \in 1..Len(w)
    BY <1>1, <1>3
  <2>2. k > 1 => w[1].idx < w[k].idx
    BY <1>1, <1>3 DEF Increasing
  <2>3. QED
    BY <1>1, <1>3, <1>4, <1>5, <2>1, <2>2
<1>7. \A i \in DOMAIN w : i # 1 => w[i].idx # id
  BY <1>1, <1>3, <1>4, <1>6 DEF Increasing
<1>8. IndexOf(w, id) = 1
  BY <1>1, <1>6, <1>7 DEF IndexOf
<1>9. Increasing(Tail(w))
  BY <1>3 DEF Increasing
<1>10. Ids(Tail(w)) = Ids(w) \ {id}
  <2>1. ASSUME NEW x \in Ids(Tail(w))
        PROVE  x \in Ids(w) \ {id}
    <3>1. PICK i \in DOMAIN Tail(w) : x = Tail(w)[i].idx
      BY DEF Ids
    <3>2. i + 1 \in DOMAIN w /\ i + 1 # 1 /\ x = w[i + 1].idx
      BY <1>3, <3>1
    <3>3. QED
      BY <1>7, <3>2 DEF Ids
  <2>2. ASSUME NEW x \in Ids(w) \ {id}
        PROVE  x \in Ids(Tail(w))
    <3>1. PICK i \in DOMAIN w : x = w[i].idx
      BY DEF Ids
    <3>2. i # 1
      BY <1>1, <1>6, <3>1
    <3>3. i - 1 \in 1..(Len(w) - 1) /\ (i - 1) + 1 = i
      BY <1>3, <3>1, <3>2
    <3>4. DOMAIN Tail(w) = 1..(Len(w) - 1)
      BY <1>3
    <3>5. i - 1 \in DOMAIN Tail(w) /\ Tail(w)[i - 1] = w[i]
      BY <1>3, <3>3, <3>4
    <3>6. QED
      BY <3>1, <3>5 DEF Ids
  <2>3. QED
    BY <2>1, <2>2
<1>11. QED
  BY <1>2, <1>3, <1>8, <1>9, <1>10

\* The write with an id, wherever it is.
LEMMA WriteAt ==
    ASSUME NEW w \in Seq(Q!Put), Increasing(w), NEW id \in Ids(w)
    PROVE  LET k == IndexOf(w, id)
               u == RemoveAt(w, k)
           IN  /\ k \in DOMAIN w /\ w[k].idx = id
               /\ Ids(u) = Ids(w) \ {id} /\ Increasing(u)
               /\ Len(w) \in Nat /\ Len(u) = Len(w) - 1
<1> DEFINE k == IndexOf(w, id)
           u == RemoveAt(w, k)
<1>1. \E i \in DOMAIN w : w[i].idx = id
  BY DEF Ids
<1>2. k \in DOMAIN w /\ w[k].idx = id
  BY <1>1 DEF IndexOf
<1> HIDE DEF k
<1>3. /\ Len(w) \in Nat /\ k \in Nat /\ DOMAIN w = 1..Len(w)
      /\ Len(u) = Len(w) - 1 /\ DOMAIN u = 1..(Len(w) - 1)
      /\ \A i \in DOMAIN u : u[i] = IF i < k THEN w[i] ELSE w[i + 1]
  BY <1>2, RemoveFacts
<1>r. \A i \in DOMAIN w :
        /\ i < k => i \in DOMAIN u /\ u[i] = w[i]
        /\ i > k => i - 1 \in DOMAIN u /\ u[i - 1] = w[i]
  BY <1>2, RemoveKeeps
<1> HIDE DEF u
<1>4. \A i \in DOMAIN w : w[i].idx \in Nat
  <2>1. \A i \in DOMAIN w : w[i] \in Q!Put
    OBVIOUS
  <2>2. QED
    BY <2>1 DEF Q!Put
<1>5. \A i \in DOMAIN w : i # k => w[i].idx # id
  <2>1. ASSUME NEW i \in DOMAIN w, i < k
        PROVE  w[i].idx # id
    <3>1. w[i].idx < w[k].idx
      BY <1>2, <2>1 DEF Increasing
    <3>2. QED
      BY <1>2, <1>4, <3>1
  <2>2. ASSUME NEW i \in DOMAIN w, k < i
        PROVE  w[i].idx # id
    <3>1. w[k].idx < w[i].idx
      BY <1>2, <2>2 DEF Increasing
    <3>2. QED
      BY <1>2, <1>4, <3>1
  <2>3. QED
    BY <1>3, <2>1, <2>2
<1>6. ASSUME NEW i \in DOMAIN u
      PROVE  \E j \in DOMAIN w : j # k /\ u[i] = w[j] /\ j = IF i < k THEN i ELSE i + 1
  <2>1. CASE i < k
    BY <1>2, <1>3, <2>1
  <2>2. CASE ~(i < k)
    <3>1. i + 1 \in DOMAIN w /\ i + 1 # k
      BY <1>2, <1>3, <2>2
    <3>2. QED
      BY <1>3, <2>2, <3>1
  <2>3. QED
    BY <2>1, <2>2
<1>7. Increasing(u)
  <2> SUFFICES ASSUME NEW i \in DOMAIN u, NEW j \in DOMAIN u, i < j
               PROVE  u[i].idx < u[j].idx
    BY DEF Increasing
  <2>1. PICK a \in DOMAIN w : u[i] = w[a] /\ a = IF i < k THEN i ELSE i + 1
    BY <1>6
  <2>2. PICK b \in DOMAIN w : u[j] = w[b] /\ b = IF j < k THEN j ELSE j + 1
    BY <1>6
  <2>3. a < b
    BY <1>3, <2>1, <2>2
  <2>4. QED
    BY <2>1, <2>2, <2>3 DEF Increasing
<1>8. Ids(u) = Ids(w) \ {id}
  <2>1. Ids(u) \subseteq Ids(w) \ {id}
    BY <1>5, <1>6 DEF Ids
  <2>2. ASSUME NEW x \in Ids(w) \ {id}
        PROVE  x \in Ids(u)
    <3>1. PICK i \in DOMAIN w : x = w[i].idx
      BY DEF Ids
    <3>2. i < k \/ i > k
      BY <1>2, <1>3, <3>1
    <3>3. QED
      BY <1>r, <3>1, <3>2 DEF Ids
  <2>3. QED
    BY <2>1, <2>2
<1>9. QED
  BY <1>2, <1>3, <1>7, <1>8 DEF k, u

\* Nothing of it changes.
LEMMA OrderKept ==
    ASSUME OrderInv, outstandingPuts' = outstandingPuts, putCounter' = putCounter,
           putsToAck' = putsToAck, tree'.allWrites = tree.allWrites
    PROVE  OrderInv'
<1>1. Awaited' = Awaited /\ DeferredIds' = DeferredIds
  BY DEF Awaited, DeferredIds
<1>2. WritesAccounted'
  <2> DEFINE w == tree.allWrites
             u == tree'.allWrites
  <2>1. /\ Ids(w) = Awaited \cup DeferredIds /\ Increasing(w)
        /\ Len(w) = Cardinality(outstandingPuts[Device]) + Len(putsToAck)
    BY AccountedIs DEF OrderInv
  <2>2. u = w
    OBVIOUS
  <2> HIDE DEF w, u
  <2>3. /\ Ids(u) = Awaited' \cup DeferredIds' /\ Increasing(u)
        /\ Len(u) = Cardinality(outstandingPuts'[Device]) + Len(putsToAck')
    BY <1>1, <2>1, <2>2
  <2>4. QED
    BY <2>3, AccountedNext DEF u
<1>3. QED
  BY <1>2 DEF OrderInv

\* A put is issued.
LEMMA OrderSet ==
    ASSUME TypeOK, OrderInv, NEW pt \in Q!Put, pt.idx = putCounter[Device],
           \A q \in outstandingPuts[Device] : q.idx < putCounter[Device],
           outstandingPuts'[Device] = outstandingPuts[Device] \cup {pt},
           putCounter'[Device] = putCounter[Device] + 1,
           putsToAck' = putsToAck, tree'.allWrites = Append(tree.allWrites, pt)
    PROVE  OrderInv'
<1> DEFINE w == tree.allWrites
           u == tree'.allWrites
           k == putCounter[Device]
<1>t. /\ k \in Nat /\ w \in Seq(Q!Put)
      /\ \A i \in DOMAIN w : w[i].idx \in Nat
      /\ \A q \in outstandingPuts[Device] : q.idx \in Nat
      /\ \A i \in DOMAIN putsToAck : putsToAck[i].put.idx \in Nat
  BY OrderTypes
<1>1. /\ Len(w) \in Nat /\ Len(u) = Len(w) + 1 /\ DOMAIN w = 1..Len(w)
      /\ \A i \in DOMAIN w : i \in DOMAIN u /\ u[i] = w[i]
      /\ Len(w) + 1 \in DOMAIN u /\ u[Len(w) + 1] = pt
      /\ \A i \in DOMAIN u : i \in DOMAIN w \/ i = Len(w) + 1
  BY <1>t, AppendFacts
<1> HIDE DEF w, u
<1>2. /\ Ids(w) = Awaited \cup DeferredIds /\ Increasing(w)
      /\ Len(w) = Cardinality(outstandingPuts[Device]) + Len(putsToAck)
  BY AccountedIs DEF OrderInv, w
<1>3. \A i \in DOMAIN w : w[i].idx < k
  <2>1. \A x \in Awaited \cup DeferredIds : x < k
    BY DEF Awaited, DeferredIds, OrderInv
  <2>2. QED
    BY <1>2, <2>1 DEF Ids
<1>4. Ids(u) = Ids(w) \cup {k} /\ Awaited' = Awaited \cup {k} /\ DeferredIds' = DeferredIds
  <2>1. Ids(u) = Ids(w) \cup {k}
    BY <1>1 DEF Ids
  <2>2. QED
    BY <2>1 DEF Awaited, DeferredIds
<1>5. Increasing(u)
  <2> SUFFICES ASSUME NEW i \in DOMAIN u, NEW j \in DOMAIN u, i < j
               PROVE  u[i].idx < u[j].idx
    BY DEF Increasing
  <2>1. i \in DOMAIN w
    BY <1>1
  <2>2. CASE j \in DOMAIN w
    BY <1>1, <1>2, <2>1, <2>2 DEF Increasing
  <2>3. CASE j = Len(w) + 1
    BY <1>1, <1>3, <2>1, <2>3
  <2>4. QED
    BY <1>1, <2>2, <2>3
<1>6. /\ IsFiniteSet(outstandingPuts'[Device])
      /\ Cardinality(outstandingPuts'[Device]) = Cardinality(outstandingPuts[Device]) + 1
  <2>1. pt \notin outstandingPuts[Device] /\ IsFiniteSet(outstandingPuts[Device])
    BY <1>t DEF OrderInv
  <2>2. QED
    BY <2>1, FS_AddElement
<1>7. WritesAccounted'
  <2>1. Cardinality(outstandingPuts[Device]) \in Nat /\ Len(putsToAck) \in Nat
    BY FS_CardinalityType, OrderTypes DEF OrderInv
  <2>2. Len(u) = Cardinality(outstandingPuts'[Device]) + Len(putsToAck')
    BY <1>1, <1>2, <1>6, <2>1
  <2>3. Ids(u) = Awaited' \cup DeferredIds'
    BY <1>2, <1>4
  <2>4. QED
    BY <1>5, <2>2, <2>3, AccountedNext DEF u
<1>8. QED
  BY <1>6, <1>7, <1>t DEF OrderInv

\* The answer to the oldest put is put off.
LEMMA OrderDefer ==
    ASSUME TypeOK, OrderInv, NEW r \in Q!Response, r.put \in outstandingPuts[Device],
           \A pt \in outstandingPuts[Device] \ {r.put} : r.put.idx < pt.idx,
           r.put.idx < putCounter[Device],
           outstandingPuts'[Device] = outstandingPuts[Device] \ {r.put},
           putCounter' = putCounter,
           putsToAck' = Append(putsToAck, r), tree'.allWrites = tree.allWrites
    PROVE  OrderInv'
<1> DEFINE n == Len(putsToAck)
<1>t. /\ putCounter[Device] \in Nat
      /\ \A q \in outstandingPuts[Device] : q.idx \in Nat
      /\ \A i \in DOMAIN putsToAck : putsToAck[i].put.idx \in Nat
      /\ putsToAck \in Seq(Q!Response)
  BY OrderTypes
<1>1. /\ n \in Nat /\ Len(putsToAck') = n + 1 /\ DOMAIN putsToAck = 1..n
      /\ \A i \in DOMAIN putsToAck : i \in DOMAIN putsToAck' /\ putsToAck'[i] = putsToAck[i]
      /\ n + 1 \in DOMAIN putsToAck' /\ putsToAck'[n + 1] = r
      /\ \A i \in DOMAIN putsToAck' : i \in DOMAIN putsToAck \/ i = n + 1
  BY <1>t, AppendFacts
<1> HIDE DEF n
<1>2. /\ \A i, j \in DOMAIN putsToAck' : i < j => putsToAck'[i].put.idx < putsToAck'[j].put.idx
      /\ \A i \in DOMAIN putsToAck' : putsToAck'[i].put.idx < putCounter'[Device]
      /\ \A i \in DOMAIN putsToAck', pt \in outstandingPuts'[Device] : putsToAck'[i].put.idx < pt.idx
  BY <1>t, <1>1 DEF OrderInv
<1>3. Awaited' \cup DeferredIds' = Awaited \cup DeferredIds
  <2>1. DeferredIds' = DeferredIds \cup {r.put.idx}
    BY <1>1 DEF DeferredIds
  <2>2. Awaited = Awaited' \cup {r.put.idx}
    BY DEF Awaited
  <2>3. QED
    BY <2>1, <2>2
<1>4. /\ IsFiniteSet(outstandingPuts'[Device])
      /\ Cardinality(outstandingPuts'[Device]) = Cardinality(outstandingPuts[Device]) - 1
  BY FS_RemoveElement DEF OrderInv
<1>5. WritesAccounted'
  <2>1. Cardinality(outstandingPuts[Device]) \in Nat
    BY FS_CardinalityType DEF OrderInv
  <2>2. Cardinality(outstandingPuts'[Device]) + Len(putsToAck')
            = Cardinality(outstandingPuts[Device]) + Len(putsToAck)
    BY <1>1, <1>4, <2>1 DEF n
  <2>3. /\ Ids(tree.allWrites) = Awaited \cup DeferredIds /\ Increasing(tree.allWrites)
        /\ Len(tree.allWrites) = Cardinality(outstandingPuts[Device]) + Len(putsToAck)
    BY AccountedIs DEF OrderInv
  <2>4. QED
    BY <1>3, <2>2, <2>3, AccountedNext
<1>6. QED
  BY <1>2, <1>4, <1>5 DEF OrderInv

\* The answer to the oldest put is used at once: no other waits.
LEMMA OrderDirect ==
    ASSUME TypeOK, OrderInv, NEW r \in Q!Response, r.put \in outstandingPuts[Device],
           \A pt \in outstandingPuts[Device] \ {r.put} : r.put.idx < pt.idx, putsToAck = <<>>
    PROVE  /\ tree.allWrites # <<>> /\ IndexOf(tree.allWrites, r.put.idx) = 1
           /\ /\ outstandingPuts'[Device] = outstandingPuts[Device] \ {r.put}
              /\ putCounter' = putCounter /\ putsToAck' = putsToAck
              /\ tree'.allWrites = Tail(tree.allWrites)
              => OrderInv'
<1> DEFINE w == tree.allWrites
<1>t. /\ w \in Seq(Q!Put) /\ \A q \in outstandingPuts[Device] : q.idx \in Nat
  BY OrderTypes
<1>1. /\ Ids(w) = Awaited /\ Increasing(w) /\ Len(w) = Cardinality(outstandingPuts[Device]) + 0
  <2>1. DeferredIds = {} /\ Len(putsToAck) = 0
    BY DEF DeferredIds
  <2>2. WritesAccounted
    BY DEF OrderInv
  <2>3. QED
    BY <2>1, <2>2, AccountedIs
<1>2. r.put.idx \in Ids(w) /\ \A x \in Ids(w) : r.put.idx <= x
  BY <1>t, <1>1 DEF Awaited
<1>3. /\ w # <<>> /\ IndexOf(w, r.put.idx) = 1
      /\ Ids(Tail(w)) = Ids(w) \ {r.put.idx} /\ Increasing(Tail(w))
      /\ Len(w) \in Nat /\ Len(Tail(w)) = Len(w) - 1
  BY <1>t, <1>1, <1>2, FirstWrite
<1> HIDE DEF w
<1>4. ASSUME outstandingPuts'[Device] = outstandingPuts[Device] \ {r.put},
             putCounter' = putCounter, putsToAck' = putsToAck,
             tree'.allWrites = Tail(w)
      PROVE  OrderInv'
  <2>1. Awaited' = Awaited \ {r.put.idx}
    BY <1>t, <1>4 DEF Awaited
  <2>2. DeferredIds' = {}
    BY <1>4 DEF DeferredIds
  <2>3. /\ IsFiniteSet(outstandingPuts'[Device])
        /\ Cardinality(outstandingPuts'[Device]) = Cardinality(outstandingPuts[Device]) - 1
    BY <1>4, FS_RemoveElement DEF OrderInv
  <2>4. Cardinality(outstandingPuts[Device]) \in Nat
    BY FS_CardinalityType DEF OrderInv
  <2>5. Len(tree'.allWrites) = Cardinality(outstandingPuts'[Device]) + Len(putsToAck')
    BY <1>1, <1>3, <1>4, <2>3, <2>4
  <2>6. Ids(tree'.allWrites) = Awaited' \cup DeferredIds'
    BY <1>1, <1>3, <1>4, <2>1, <2>2
  <2>7. Increasing(tree'.allWrites)
    BY <1>3, <1>4
  <2>8. WritesAccounted'
    BY <2>5, <2>6, <2>7, AccountedNext
  <2>9. QED
    BY <1>4, <2>3, <2>8 DEF OrderInv
<1>5. QED
  BY <1>3, <1>4 DEF w

\* It is used while older answers wait for a listen no one makes.
LEMMA OrderTaken ==
    ASSUME TypeOK, OrderInv, NEW r \in Q!Response, r.put \in outstandingPuts[Device],
           \A pt \in outstandingPuts[Device] \ {r.put} : r.put.idx < pt.idx
    PROVE  LET k == IndexOf(tree.allWrites, r.put.idx)
           IN  /\ k \in DOMAIN tree.allWrites /\ tree.allWrites[k].idx = r.put.idx
               /\ /\ outstandingPuts'[Device] = outstandingPuts[Device] \ {r.put}
                  /\ putCounter' = putCounter /\ putsToAck' = putsToAck
                  /\ tree'.allWrites = RemoveAt(tree.allWrites, k)
                  => OrderInv'
<1> DEFINE w == tree.allWrites
           k == IndexOf(w, r.put.idx)
<1>t. /\ w \in Seq(Q!Put) /\ \A q \in outstandingPuts[Device] : q.idx \in Nat
      /\ \A i \in DOMAIN putsToAck : putsToAck[i].put.idx \in Nat
      /\ putsToAck \in Seq(Q!Response)
  BY OrderTypes
<1>1. /\ Ids(w) = Awaited \cup DeferredIds /\ Increasing(w)
      /\ Len(w) = Cardinality(outstandingPuts[Device]) + Len(putsToAck)
  <2>1. WritesAccounted
    BY DEF OrderInv
  <2>2. QED
    BY <2>1, AccountedIs
<1>2. r.put.idx \in Ids(w) /\ r.put.idx \in Nat
  BY <1>t, <1>1 DEF Awaited
<1>3. /\ k \in DOMAIN w /\ w[k].idx = r.put.idx
      /\ Ids(RemoveAt(w, k)) = Ids(w) \ {r.put.idx} /\ Increasing(RemoveAt(w, k))
      /\ Len(w) \in Nat /\ Len(RemoveAt(w, k)) = Len(w) - 1
  BY <1>t, <1>1, <1>2, WriteAt
<1>n. r.put.idx \notin DeferredIds
  BY <1>t, <1>2 DEF OrderInv, DeferredIds
<1> HIDE DEF w, k
<1>4. ASSUME outstandingPuts'[Device] = outstandingPuts[Device] \ {r.put},
             putCounter' = putCounter, putsToAck' = putsToAck,
             tree'.allWrites = RemoveAt(w, k)
      PROVE  OrderInv'
  <2>1. Awaited' = Awaited \ {r.put.idx}
    BY <1>t, <1>4 DEF Awaited
  <2>2. DeferredIds' = DeferredIds
    BY <1>4 DEF DeferredIds
  <2>3. /\ IsFiniteSet(outstandingPuts'[Device])
        /\ Cardinality(outstandingPuts'[Device]) = Cardinality(outstandingPuts[Device]) - 1
    BY <1>4, FS_RemoveElement DEF OrderInv
  <2>4. Cardinality(outstandingPuts[Device]) \in Nat /\ Len(putsToAck) \in Nat
    BY <1>t, FS_CardinalityType DEF OrderInv
  <2>5. Len(tree'.allWrites) = Cardinality(outstandingPuts'[Device]) + Len(putsToAck')
    BY <1>1, <1>3, <1>4, <2>3, <2>4
  <2>6. Ids(tree'.allWrites) = Awaited' \cup DeferredIds'
    BY <1>1, <1>3, <1>4, <1>n, <2>1, <2>2
  <2>7. Increasing(tree'.allWrites)
    BY <1>3, <1>4
  <2>8. WritesAccounted'
    BY <2>5, <2>6, <2>7, AccountedNext
  <2>9. QED
    BY <1>4, <2>3, <2>8 DEF OrderInv
<1>5. QED
  BY <1>3, <1>4 DEF w, k

\* The oldest of the answers that waited is used.
LEMMA OrderUse ==
    ASSUME TypeOK, OrderInv, putsToAck # <<>>
    PROVE  /\ tree.allWrites # <<>> /\ IndexOf(tree.allWrites, Head(putsToAck).put.idx) = 1
           /\ /\ outstandingPuts' = outstandingPuts /\ putCounter' = putCounter
              /\ putsToAck' = Tail(putsToAck) /\ tree'.allWrites = Tail(tree.allWrites)
              => OrderInv'
<1> DEFINE w == tree.allWrites
           s == putsToAck
           id == Head(s).put.idx
<1>t. /\ w \in Seq(Q!Put) /\ \A q \in outstandingPuts[Device] : q.idx \in Nat
      /\ s \in Seq(Q!Response) /\ \A i \in DOMAIN s : s[i].put.idx \in Nat
  BY OrderTypes
<1>1. /\ Tail(s) \in Seq(Q!Response) /\ Head(s) = s[1] /\ 1 \in DOMAIN s
      /\ Len(s) \in Nat /\ DOMAIN s = 1..Len(s) /\ Len(Tail(s)) = Len(s) - 1
      /\ \A i \in DOMAIN Tail(s) : i + 1 \in DOMAIN s /\ i \in Nat /\ i > 0 /\ Tail(s)[i] = s[i + 1]
  BY <1>t, TailFacts
<1>2. /\ Ids(w) = Awaited \cup DeferredIds /\ Increasing(w)
      /\ Len(w) = Cardinality(outstandingPuts[Device]) + Len(s)
  BY AccountedIs DEF OrderInv
<1>3. /\ \A i, j \in DOMAIN s : i < j => s[i].put.idx < s[j].put.idx
      /\ \A i \in DOMAIN s, pt \in outstandingPuts[Device] : s[i].put.idx < pt.idx
      /\ \A i \in DOMAIN s : s[i].put.idx < putCounter[Device]
  BY DEF OrderInv
<1>4. id \in DeferredIds /\ id = s[1].put.idx /\ id \in Nat
  BY <1>t, <1>1 DEF DeferredIds
<1> HIDE DEF w, s, id
<1>5. \A i \in DOMAIN s : i # 1 => id < s[i].put.idx
  BY <1>1, <1>3, <1>4
<1>6. \A x \in Awaited : id < x
  BY <1>1, <1>3, <1>4 DEF Awaited
<1>7. id \in Ids(w) /\ \A x \in Ids(w) : id <= x
  <2>1. \A x \in DeferredIds : id <= x
    BY <1>t, <1>4, <1>5, SMTT(30) DEF DeferredIds, s
  <2>2. \A x \in Awaited : x \in Nat
    BY <1>t DEF Awaited
  <2>3. \A x \in Awaited : id <= x
    BY <1>4, <1>6, <2>2
  <2>4. QED
    BY <1>2, <1>4, <2>1, <2>3
<1>8. /\ w # <<>> /\ IndexOf(w, id) = 1
      /\ Ids(Tail(w)) = Ids(w) \ {id} /\ Increasing(Tail(w))
      /\ Len(w) \in Nat /\ Len(Tail(w)) = Len(w) - 1
  BY <1>t, <1>2, <1>7, FirstWrite
<1>9. ASSUME outstandingPuts' = outstandingPuts, putCounter' = putCounter,
             putsToAck' = Tail(s), tree'.allWrites = Tail(w)
      PROVE  OrderInv'
  <2>a. Awaited' = Awaited
    BY <1>9 DEF Awaited
  <2>b. ~(id < id)
    BY <1>4
  <2>1. Awaited' = Awaited /\ id \notin Awaited
    BY <1>6, <2>a, <2>b
  <2>2. DeferredIds' = DeferredIds \ {id}
    <3>1. ASSUME NEW x \in DeferredIds'
          PROVE  x \in DeferredIds \ {id}
      <4>1. PICK i \in DOMAIN Tail(s) : x = Tail(s)[i].put.idx
        BY <1>9 DEF DeferredIds
      <4>2. i + 1 \in DOMAIN s /\ i + 1 # 1 /\ x = s[i + 1].put.idx
        BY <1>1, <4>1
      <4>3. QED
        BY <1>t, <1>4, <1>5, <4>2, SMTT(30) DEF DeferredIds, s
    <3>2. ASSUME NEW x \in DeferredIds \ {id}
          PROVE  x \in DeferredIds'
      <4>1. PICK i \in DOMAIN s : x = s[i].put.idx
        BY DEF DeferredIds, s
      <4>2. i # 1
        BY <1>4, <4>1
      <4>3. i - 1 \in 1..(Len(s) - 1) /\ (i - 1) + 1 = i
        BY <1>1, <4>1, <4>2
      <4>4. DOMAIN Tail(s) = 1..(Len(s) - 1)
        BY <1>1
      <4>5. i - 1 \in DOMAIN Tail(s) /\ Tail(s)[i - 1] = s[i]
        BY <1>1, <4>3, <4>4
      <4>6. QED
        BY <1>9, <4>1, <4>5 DEF DeferredIds
    <3>3. QED
      BY <3>1, <3>2
  <2>3. /\ \A i, j \in DOMAIN putsToAck' : i < j => putsToAck'[i].put.idx < putsToAck'[j].put.idx
        /\ \A i \in DOMAIN putsToAck' : putsToAck'[i].put.idx < putCounter'[Device]
        /\ \A i \in DOMAIN putsToAck', pt \in outstandingPuts'[Device] : putsToAck'[i].put.idx < pt.idx
    BY <1>1, <1>3, <1>9, SMTT(30)
  <2>4. Cardinality(outstandingPuts[Device]) \in Nat
    BY FS_CardinalityType DEF OrderInv
  <2>5. Len(tree'.allWrites) = Cardinality(outstandingPuts'[Device]) + Len(putsToAck')
    BY <1>1, <1>2, <1>8, <1>9, <2>4
  <2>6. Ids(tree'.allWrites) = Awaited' \cup DeferredIds'
    BY <1>2, <1>8, <1>9, <2>1, <2>2
  <2>7. Increasing(tree'.allWrites)
    BY <1>8, <1>9
  <2>8. WritesAccounted'
    BY <2>5, <2>6, <2>7, AccountedNext
  <2>9. QED
    BY <1>9, <2>3, <2>8 DEF OrderInv
<1>10. QED
  BY <1>8, <1>9 DEF w, s, id

-----------------------------------------------------------------------------
(* Messages and the listen. *)

LEMMA MessageFacts ==
    ASSUME NEW m \in Message
    PROVE  /\ m.type \in {"data", "node", "listen", "revoke", "answer"}
           /\ m.type = "data" => m.path \in Paths /\ m.val \in Values \cup {None}
           /\ m.type = "node" => m.node \in Node
           /\ m.type = "listen" => m.ok \in BOOLEAN
<1>1. CASE m \in [type : {"data"}, path : Paths, val : Values \cup {None}]
  BY <1>1
<1>2. CASE m \in [type : {"node"}, node : Node]
  BY <1>2
<1>3. CASE m \in [type : {"listen"}, ok : BOOLEAN]
  BY <1>3
<1>4. CASE m \in [type : {"revoke", "answer"}]
  BY <1>4
<1>5. QED
  BY <1>1, <1>2, <1>3, <1>4 DEF Message

LEMMA MessageType ==
    /\ \A pa \in Paths, v \in Values \cup {None} : Data(pa, v) \in Message
    /\ \A node \in Node : [type |-> "node", node |-> node] \in Message
    /\ \A ok \in BOOLEAN : [type |-> "listen", ok |-> ok] \in Message
    /\ [type |-> "revoke"] \in Message /\ [type |-> "answer"] \in Message
BY DEF Message, Data

LEMMA ListenTypes ==
    ASSUME TypeOK
    PROVE  /\ inbox \in Seq(Message) /\ \A i \in DOMAIN inbox : inbox[i] \in Message
           /\ Len(inbox) \in Nat /\ DOMAIN inbox = 1..Len(inbox)
           /\ observers[Ref] \in Nat /\ observers[Ref] <= MaxObservers
           /\ unackedListens \in Nat /\ staleListens \in Nat /\ listensSent \in Nat
           /\ serving \in BOOLEAN /\ authenticating \in BOOLEAN /\ acking \in BOOLEAN
           /\ connected[Device] \in BOOLEAN
           /\ tree.viewed \in BOOLEAN /\ tree.complete \in BOOLEAN
<1>1. inbox \in Seq(Message) /\ observers[Ref] \in 0..MaxObservers
  BY DEF TypeOK
<1>2. tree.viewed \in BOOLEAN /\ tree.complete \in BOOLEAN
  BY TreeFields DEF TypeOK
<1>3. connected[Device] \in BOOLEAN
  BY DEF TypeOK, Q!TypeOK
<1>4. QED
  BY <1>1, <1>2, <1>3, SyncTreeAssumption DEF TypeOK

\* The answers to listens in what is left of the inbox.
LEMMA ListensTail ==
    ASSUME NEW s \in Seq(Message), s # <<>>, Paired(s)
    PROVE  /\ Paired(Tail(s)) /\ Cardinality(Listens(Tail(s))) \in Nat
           /\ Cardinality(Listens(s)) =
                Cardinality(Listens(Tail(s))) + IF s[1].type = "listen" THEN 1 ELSE 0
           /\ Tail(s) # <<>> /\ Tail(s)[1].type = "listen" /\ Tail(s)[1].ok => s[1].type = "node"
<1> DEFINE u == Tail(s)
           rest == Listens(s) \ {1}
<1>1. /\ u \in Seq(Message) /\ 1 \in DOMAIN s /\ Len(s) \in Nat /\ DOMAIN s = 1..Len(s)
      /\ Len(u) = Len(s) - 1 /\ DOMAIN u = 1..(Len(s) - 1)
      /\ \A i \in DOMAIN u : i + 1 \in DOMAIN s /\ i \in Nat /\ i > 0 /\ u[i] = s[i + 1]
  BY TailFacts
<1>e. u # <<>> => 1 \in DOMAIN u
  BY <1>1
<1> HIDE DEF u
<1>2. \A i \in DOMAIN u : i \in Listens(u) <=> i + 1 \in rest
  BY <1>1 DEF Listens
<1>3. \A k \in rest : k - 1 \in DOMAIN u /\ (k - 1) + 1 = k /\ k \in Nat
  BY <1>1 DEF Listens
<1>4. IsFiniteSet(Listens(s)) /\ IsFiniteSet(rest) /\ IsFiniteSet(Listens(u))
  <2>1. IsFiniteSet(1..Len(s)) /\ IsFiniteSet(1..(Len(s) - 1))
    BY <1>1, FS_Interval
  <2>2. Listens(s) \subseteq 1..Len(s) /\ rest \subseteq 1..Len(s) /\ Listens(u) \subseteq 1..(Len(s) - 1)
    BY <1>1 DEF Listens
  <2>3. QED
    BY <2>1, <2>2, FS_Subset
<1>5. Cardinality(rest) = Cardinality(Listens(u))
  <2> DEFINE f == [k \in rest |-> k - 1]
  <2>1. f \in [rest -> Listens(u)]
    BY <1>2, <1>3
  <2>2. \A k, l \in rest : f[k] = f[l] => k = l
    BY <1>3
  <2>3. \A i \in Listens(u) : i + 1 \in rest /\ f[i + 1] = i
    BY <1>1, <1>2 DEF Listens
  <2> HIDE DEF f
  <2>4. f \in Bijection(rest, Listens(u))
    BY <2>1, <2>2, <2>3 DEF Bijection, Injection, Surjection, IsInjective
  <2>5. ExistsBijection(rest, Listens(u))
    BY <2>4 DEF ExistsBijection
  <2>6. QED
    BY <1>4, <2>5, FS_Bijection
<1>6. Cardinality(Listens(s)) = Cardinality(rest) + IF s[1].type = "listen" THEN 1 ELSE 0
  <2>1. CASE s[1].type = "listen"
    <3>1. 1 \in Listens(s)
      BY <1>1, <2>1 DEF Listens
    <3>2. Cardinality(rest) = Cardinality(Listens(s)) - 1 /\ Cardinality(Listens(s)) \in Nat
      BY <1>4, <3>1, FS_RemoveElement, FS_CardinalityType
    <3>3. QED
      BY <2>1, <3>2
  <2>2. CASE s[1].type # "listen"
    <3>1. rest = Listens(s)
      BY <2>2 DEF Listens
    <3>2. Cardinality(rest) \in Nat
      BY <1>4, FS_CardinalityType
    <3>3. Cardinality(rest) = Cardinality(rest) + 0
      BY <3>2
    <3>4. Cardinality(Listens(s)) = Cardinality(rest)
      BY <3>1
    <3> HIDE DEF rest
    <3>5. QED
      BY <2>2, <3>3, <3>4
  <2>3. QED
    BY <2>1, <2>2
<1>7. Cardinality(Listens(u)) \in Nat
  BY <1>4, FS_CardinalityType
<1>8. ASSUME NEW j \in Listens(u), u[j].ok
      PROVE  s[j].type = "node" /\ (j > 1 => u[j - 1] = s[j])
  <2>0. j \in DOMAIN u
    BY DEF Listens
  <2>a. j \in Nat /\ j > 0 /\ u[j] = s[j + 1]
    BY <1>1, <2>0
  <2>b. j + 1 \in Listens(s)
    BY <1>2, <2>0
  <2>1. j \in DOMAIN u /\ j + 1 \in Listens(s) /\ s[j + 1].ok /\ j + 1 > 1 /\ (j + 1) - 1 = j
    BY <1>8, <2>0, <2>a, <2>b
  <2>2. s[j].type = "node"
    BY <2>1 DEF Paired
  <2>3. j > 1 => j - 1 \in DOMAIN u /\ (j - 1) + 1 = j
    BY <1>1, <2>1
  <2>4. QED
    BY <1>1, <2>2, <2>3
<1>9. Paired(u)
  BY <1>8 DEF Paired
<1>10. u # <<>> /\ u[1].type = "listen" /\ u[1].ok => s[1].type = "node"
  BY <1>e, <1>8 DEF Listens
<1>11. QED
  BY <1>5, <1>6, <1>7, <1>9, <1>10 DEF u

LEMMA ListensCount == ASSUME NEW s \in Seq(Message) PROVE Cardinality(Listens(s)) \in Nat
<1>1. DOMAIN s = 1..Len(s) /\ Len(s) \in Nat
  OBVIOUS
<1>2. IsFiniteSet(1..Len(s)) /\ Listens(s) \subseteq 1..Len(s)
  BY <1>1, FS_Interval DEF Listens
<1>3. QED
  BY <1>2, FS_Subset, FS_CardinalityType

\* Messages that are not about the listen are added.
LEMMA ListensMore ==
    ASSUME NEW s \in Seq(Message), NEW t \in Seq(Message), Paired(s),
           \A i \in DOMAIN t : t[i].type # "listen"
    PROVE  /\ Paired(s \o t) /\ Listens(s \o t) = Listens(s)
           /\ s \o t # <<>> /\ (s \o t)[1].type = "listen" => s # <<>> /\ (s \o t)[1] = s[1]
<1>1. /\ \A i \in DOMAIN s : i \in DOMAIN (s \o t) /\ (s \o t)[i] = s[i]
      /\ \A i \in DOMAIN (s \o t) :
            \/ i \in DOMAIN s /\ (s \o t)[i] = s[i]
            \/ i - Len(s) \in DOMAIN t /\ (s \o t)[i] = t[i - Len(s)]
      /\ s \o t \in Seq(Message)
  BY ConcatFacts
<1>2. DOMAIN s = 1..Len(s) /\ Len(s) \in Nat
  OBVIOUS
<1>3. s \o t # <<>> => 1 \in DOMAIN (s \o t)
  BY <1>1
<1> DEFINE u == s \o t
<1> HIDE DEF u
<1>4. Listens(u) = Listens(s)
  BY <1>1 DEF Listens, u
<1>5. Paired(u)
  <2> SUFFICES ASSUME NEW j \in Listens(s), u[j].ok, j > 1
               PROVE  u[j - 1].type = "node"
    BY <1>4 DEF Paired
  <2>1. j \in DOMAIN s /\ j - 1 \in DOMAIN s
    BY <1>2 DEF Listens
  <2>2. u[j] = s[j] /\ u[j - 1] = s[j - 1]
    BY <1>1, <2>1 DEF u
  <2>3. QED
    BY <2>2 DEF Paired
<1>6. u # <<>> /\ u[1].type = "listen" => 1 \in DOMAIN s /\ u[1] = s[1]
  BY <1>1, <1>3 DEF u
<1>7. QED
  BY <1>4, <1>5, <1>6 DEF u

LEMMA ListenSame ==
    ASSUME ListenInv, UNCHANGED <<inbox, listenVars, observers>>,
           connected'[Device] = connected[Device], tree'.viewed = tree.viewed,
           tree.complete => tree'.complete, ~tree.viewed => ~tree'.complete
    PROVE  ListenInv'
BY DEF ListenInv, Paired, Listens, listenVars

\* A message that says nothing of the listen is received.
LEMMA ListenTail ==
    ASSUME TypeOK, ListenInv, inbox # <<>>, Head(inbox).type # "listen",
           inbox' = Tail(inbox), UNCHANGED <<listenVars, observers>>,
           connected'[Device] = connected[Device], tree'.viewed = tree.viewed,
           tree.complete => tree'.complete, ~tree.viewed => ~tree'.complete,
           Head(inbox).type = "node" /\ tree.viewed => tree'.complete
    PROVE  ListenInv'
<1> DEFINE new == Tail(inbox)
<1>1. /\ Head(inbox) = inbox[1] /\ inbox \in Seq(Message)
  BY ListenTypes, TailFacts
<1>2. /\ Paired(new) /\ Cardinality(Listens(inbox)) = Cardinality(Listens(new)) + 0
      /\ Cardinality(Listens(new)) \in Nat
      /\ new # <<>> /\ new[1].type = "listen" /\ new[1].ok => inbox[1].type = "node"
  BY <1>1, ListensTail DEF ListenInv
<1> HIDE DEF new
<1>3. unackedListens = listensSent + Cardinality(Listens(new))
  BY <1>2 DEF ListenInv
<1>4. connected[Device]
  BY DEF ListenInv
<1>5. ASSUME new # <<>>, new[1].type = "listen", new[1].ok, staleListens = 0
      PROVE  tree'.complete
  <2>1. Cardinality(Listens(new)) > 0
    <3>1. 1 \in Listens(new) /\ IsFiniteSet(Listens(new))
      <4>1. new \in Seq(Message)
        BY <1>1, TailFacts DEF new
      <4>2. DOMAIN new = 1..Len(new) /\ Len(new) \in Nat /\ 1 \in DOMAIN new
        BY <1>5, <4>1
      <4>3. Listens(new) \subseteq 1..Len(new) /\ IsFiniteSet(1..Len(new))
        BY <4>2, FS_Interval DEF Listens
      <4>4. QED
        BY <1>5, <4>2, <4>3, FS_Subset DEF Listens
    <3>2. Cardinality(Listens(new)) # 0
      BY <3>1, FS_EmptySet
    <3>3. QED
      BY <1>2, <3>2
  <2>2. unackedListens > 0
    BY <1>2, <1>3, <2>1, ListenTypes
  <2>3. tree.viewed
    BY <1>5, <2>2 DEF ListenInv
  <2>4. QED
    BY <1>1, <1>2, <1>5, <2>3
<1>6. new = inbox'
  BY DEF new
<1>7. QED
  BY <1>2, <1>3, <1>4, <1>5, <1>6 DEF ListenInv, listenVars

\* The server sends news and answers.
LEMMA ListenAppend ==
    ASSUME TypeOK, ListenInv, connected[Device], NEW s \in Seq(Message), inbox' = inbox \o s,
           \A i \in DOMAIN s : s[i].type # "listen",
           UNCHANGED <<authenticating, unackedListens, staleListens, listensSent, observers, tree>>,
           connected'[Device] = connected[Device]
    PROVE  ListenInv' /\ inbox' \in Seq(Message)
<1> DEFINE new == inbox \o s
<1>1. inbox \in Seq(Message) /\ new \in Seq(Message)
  BY ListenTypes, ConcatFacts
<1>2. /\ Paired(new) /\ Listens(new) = Listens(inbox)
      /\ new # <<>> /\ new[1].type = "listen" => inbox # <<>> /\ new[1] = inbox[1]
  BY <1>1, ListensMore DEF ListenInv
<1>3. new = inbox'
  OBVIOUS
<1> HIDE DEF new
<1>4. QED
  BY <1>1, <1>2, <1>3 DEF ListenInv

-----------------------------------------------------------------------------
(* The steps. *)

LEMMA InitInv == Init => IInv
<1> SUFFICES ASSUME Init
             PROVE  IInv
  OBVIOUS
<1>1. PipeInv
  <2>1. QP!Init
    BY SameTypes DEF Init
  <2>2. QP!TypeOK /\ QP!Inv
    BY <2>1, QueueAssumptions, QP!InitInv, Zenon
  <2>3. QED
    BY <2>2, SameTypes DEF PipeInv, QP!Inv
<1> DEFINE t0 == [allWrites |-> <<>>, visibleWrites |-> <<>>, viewed |-> FALSE,
                  serverSnap |-> EmptyNode, complete |-> FALSE, eventSnap |-> EmptyNode]
<1>2. LayerTree(<<>>) = <<>>
  BY DEF LayerTree
<1>3. t0 \in Tree /\ Sound(t0)
  <2>1. <<>> \in Seq(Q!Put)
    OBVIOUS
  <2>2. <<>> \in CompoundWrite
    BY <1>2, <2>1, LayerFacts
  <2>3. t0 \in Tree
    BY <2>1, <2>2, EmptyType, TreeForm
  <2>4. QED
    BY <1>2, <2>3 DEF Sound
<1>4. TypeOK
  <2>1. 0 \in 0..MaxObservers /\ 0 \in 0..MaxForeign
    BY SyncTreeAssumption
  <2>2. tree \in Tree /\ Q!TypeOK
    BY <1>1, <1>3 DEF Init, PipeInv
  <2>3. observers \in [{Ref} -> 0..MaxObservers]
    BY <2>1 DEF Init
  <2>4. /\ registering \in Seq({Ref}) /\ mainQueue \in Seq(Event)
        /\ putsToAck \in Seq(Q!Response) /\ inbox \in Seq(Message)
    BY DEF Init
  <2>5. /\ unackedListens = 0 /\ staleListens = 0 /\ listensSent = 0
        /\ acking = FALSE /\ authenticating = FALSE /\ abandoned = {}
        /\ serving = FALSE /\ foreign = {} /\ foreignPuts = 0
    BY DEF Init
  <2> HIDE DEF t0
  <2>6. /\ unackedListens \in Nat /\ staleListens \in Nat /\ listensSent \in Nat
        /\ foreignPuts \in 0..MaxForeign
    BY <2>1, <2>5
  <2>7. /\ acking \in BOOLEAN /\ authenticating \in BOOLEAN /\ abandoned \subseteq Paths
        /\ serving \in BOOLEAN /\ foreign \subseteq Paths
    BY <2>5
  <2>8. QED
    BY <2>2, <2>3, <2>4, <2>6, <2>7 DEF TypeOK
<1>5. outstandingPuts[Device] = {}
  BY DEF Init, Q!Init
<1>6. OrderInv
  <2>1. tree.allWrites = <<>> /\ putsToAck = <<>>
    BY DEF Init
  <2>2. IsFiniteSet({}) /\ Cardinality({}) = 0
    BY FS_EmptySet
  <2>3. WritesAccounted
    BY <1>5, <2>1, <2>2 DEF WritesAccounted
  <2>4. QED
    BY <1>5, <2>1, <2>2, <2>3 DEF OrderInv
<1>7. ListenInv
  <2>1. Listens(<<>>) = {} /\ Paired(<<>>)
    BY DEF Listens, Paired
  <2>2. Cardinality(Listens(inbox)) = 0 /\ Paired(inbox)
    BY <2>1, FS_EmptySet DEF Init
  <2>3. ~connected[Device] /\ ~(observers[Ref] > 0) /\ ~tree.viewed /\ ~tree.complete
    BY DEF Init, Q!Init
  <2>4. unackedListens = 0 /\ staleListens = 0 /\ listensSent = 0 /\ inbox = <<>> /\ ~serving
    BY DEF Init
  <2>5. QED
    BY <2>2, <2>3, <2>4 DEF ListenInv
<1>a. AckInv
  <2>1. putsToAck = <<>> /\ ~acking
    BY DEF Init
  <2>2. QED
    BY <2>1 DEF AckInv
<1>8. QED
  BY <1>1, <1>3, <1>4, <1>6, <1>7, <1>a DEF Init, IInv

LEMMA SetInv ==
    ASSUME IInv, NEW w \in [path : Paths, val : Values \cup {None}], set(w)
    PROVE  IInv'
<1> DEFINE pt == [idx |-> putCounter[Device], path |-> w.path, val |-> w.val]
<1>1. /\ tree' = applyUserOverwrite(tree, pt)
      /\ mainQueue' = mainQueue \o EventsOf(tree.eventSnap, tree'.eventSnap)
      /\ UNCHANGED <<observers, registering, listenVars, ackVars, inbox, foreign, foreignPuts>>
  BY DEF set, Raise, foreignVars
<1>2. /\ pt \in Q!Put /\ PipeInv' /\ putCounter[Device] \in Nat
      /\ outstandingPuts'[Device] = outstandingPuts[Device] \cup {pt}
      /\ putCounter'[Device] = putCounter[Device] + 1
      /\ \A q \in outstandingPuts[Device] : q.idx < putCounter[Device] /\ q.idx \in Nat
      /\ UNCHANGED <<store, connected, signedIn>>
  BY SetPipe DEF IInv, set
<1>3. pt.idx = putCounter[Device]
  OBVIOUS
<1> HIDE DEF pt
<1>4. tree \in Tree /\ Sound(tree) /\ tree.eventSnap \in Node
  BY TreeFields DEF IInv, TypeOK
<1>5. /\ tree' \in Tree /\ Sound(tree')
      /\ tree'.allWrites = Append(tree.allWrites, pt)
      /\ tree'.viewed = tree.viewed /\ tree'.complete = tree.complete
  BY <1>1, <1>2, <1>4, UserOverwrite
<1>6. TypeOK'
  <2>1. tree'.eventSnap \in Node
    BY <1>5, TreeFields
  <2>2. mainQueue' \in Seq(Event)
    BY <1>1, <1>4, <2>1, RaisedType DEF IInv
  <2>3. QED
    BY <1>1, <1>2, <1>5, <2>2 DEF IInv, TypeOK, PipeInv, listenVars, ackVars
<1>7. OrderInv'
  BY <1>1, <1>2, <1>3, <1>5, OrderSet DEF IInv, ackVars
<1>8. ListenInv' /\ AckInv'
  <2>1. ListenInv'
    <3>1. ~tree.viewed => ~tree.complete
      BY DEF IInv, ListenInv
    <3>2. QED
      BY <1>1, <1>2, <1>5, <3>1, ListenSame DEF IInv
  <2>2. AckInv'
    BY <1>1, <1>2, <1>5 DEF IInv, AckInv, listenVars, ackVars
  <2>3. QED
    BY <2>1, <2>2
<1>9. QED
  BY <1>2, <1>5, <1>6, <1>7, <1>8 DEF IInv

\* Steps that leave the tree, the pipeline and the listen alone.
LEMMA IdleInv ==
    ASSUME IInv, UNCHANGED <<queueVars, tree, observers, listenVars,
                             ackVars, inbox, foreign, foreignPuts>>,
           registering' \in Seq({Ref}), mainQueue' \in Seq(Event)
    PROVE  IInv'
<1>1. PipeInv'
  <2>1. store' \in Node
    BY DEF IInv, PipeInv, Q!TypeOK, queueVars, Node
  <2>2. QED
    BY <2>1, PipeStands DEF IInv, queueVars, deviceQueueVars
<1>2. OrderInv'
  BY OrderKept DEF IInv, queueVars, ackVars
<1>3. ListenInv' /\ AckInv'
  <2>1. ~tree.viewed => ~tree.complete
    BY DEF IInv, ListenInv
  <2>2. ListenInv'
    BY <2>1, ListenSame DEF IInv, queueVars
  <2>3. AckInv'
    BY DEF IInv, AckInv, queueVars, listenVars, ackVars
  <2>4. QED
    BY <2>2, <2>3
<1>4. TypeOK'
  BY <1>1 DEF IInv, TypeOK, PipeInv, listenVars, ackVars
<1>5. QED
  BY <1>1, <1>2, <1>3, <1>4 DEF IInv

LEMMA ObserveInv == IInv /\ Observe => IInv'
<1> SUFFICES ASSUME IInv, Observe
             PROVE  IInv'
  OBVIOUS
<1>1. registering' \in Seq({Ref}) /\ mainQueue' \in Seq(Event)
  BY DEF Observe, IInv, TypeOK
<1>2. QED
  BY <1>1, IdleInv DEF Observe, foreignVars

LEMMA DeliverInv == IInv /\ Deliver => IInv'
<1> SUFFICES ASSUME IInv, Deliver
             PROVE  IInv'
  OBVIOUS
<1>1. registering' \in Seq({Ref}) /\ mainQueue' \in Seq(Event)
  BY DEF Deliver, IInv, TypeOK
<1>2. QED
  BY <1>1, IdleInv DEF Deliver, foreignVars

LEMMA StutterInv == IInv /\ UNCHANGED vars => IInv'
<1> SUFFICES ASSUME IInv, UNCHANGED vars
             PROVE  IInv'
  OBVIOUS
<1>1. registering' \in Seq({Ref}) /\ mainQueue' \in Seq(Event)
  BY DEF vars, screenVars, IInv, TypeOK
<1>2. QED
  BY <1>1, IdleInv DEF vars, screenVars, foreignVars

LEMMA RegisterInv == IInv /\ ~acking /\ addEventRegistration => IInv'
<1> SUFFICES ASSUME IInv, ~acking, addEventRegistration
             PROVE  IInv'
  OBVIOUS
<1>t. /\ inbox \in Seq(Message)
      /\ observers[Ref] \in Nat /\ observers[Ref] <= MaxObservers
      /\ unackedListens \in Nat /\ staleListens \in Nat /\ listensSent \in Nat
      /\ connected[Device] \in BOOLEAN
      /\ tree.viewed \in BOOLEAN /\ tree.complete \in BOOLEAN
  BY ListenTypes DEF IInv
<1>1. /\ UNCHANGED <<queueVars, authenticating, staleListens, serving, ackVars, inbox,
                     foreign, foreignPuts>>
      /\ tree' = IF tree.viewed THEN tree ELSE createView(tree)
      /\ observers' = [observers EXCEPT ![Ref] = IF @ < MaxObservers THEN @ + 1 ELSE @]
      /\ registering' = Tail(registering) /\ registering # <<>>
      /\ mainQueue' = mainQueue \o
            SetToSeq({ChildAdded(pa, tree'.eventSnap[pa]) : pa \in Children(tree'.eventSnap)})
      /\ connected' = connected
  BY DEF addEventRegistration, foreignVars, queueVars
<1>2. /\ tree' \in Tree /\ Sound(tree') /\ tree'.viewed
      /\ tree'.allWrites = tree.allWrites /\ tree'.complete = tree.complete
  <2>1. tree \in Tree /\ Sound(tree)
    BY DEF IInv, TypeOK
  <2>2. QED
    BY <1>1, <1>t, <2>1, CreateView
<1>3. /\ observers' \in [{Ref} -> 0..MaxObservers] /\ observers'[Ref] > 0
  <2>1. observers \in [{Ref} -> 0..MaxObservers] /\ MaxObservers \in Nat \ {0}
    BY SyncTreeAssumption DEF IInv, TypeOK
  <2>2. QED
    BY <1>1, <1>t, <2>1
<1>4. mainQueue' \in Seq(Event) /\ registering' \in Seq({Ref})
  <2>1. Children(tree'.eventSnap) \in SUBSET Paths /\ tree'.eventSnap \in Node
        /\ \A pa \in Children(tree'.eventSnap) : tree'.eventSnap[pa] # None
    BY <1>2, TreeFields DEF Children
  <2>2. SetToSeq({ChildAdded(pa, tree'.eventSnap[pa]) : pa \in Children(tree'.eventSnap)}) \in Seq(Event)
    BY <2>1, EventsType
  <2>3. mainQueue \in Seq(Event) /\ registering \in Seq({Ref})
    BY DEF IInv, TypeOK
  <2>4. QED
    BY <1>1, <2>2, <2>3
<1>5. PipeInv'
  <2>1. store' \in Node
    BY <1>1 DEF IInv, PipeInv, Q!TypeOK, queueVars, Node
  <2>2. QED
    BY <1>1, <2>1, PipeStands DEF IInv, queueVars, deviceQueueVars
<1>6. OrderInv'
  BY <1>1, <1>2, OrderKept DEF IInv, queueVars, ackVars
<1>7. CASE tree.viewed \/ ~Opened
  <2>1. UNCHANGED <<unackedListens, listensSent>>
    BY <1>7, <1>t DEF addEventRegistration
  <2>2. ListenInv'
    <3>1. ~tree.viewed => ~connected[Device]
      BY <1>7 DEF Opened
    <3>2. connected' = connected /\ UNCHANGED <<authenticating, staleListens, serving, inbox>>
      BY <1>1
    <3>3. tree'.viewed /\ observers'[Ref] > 0 /\ tree'.complete = tree.complete
      BY <1>2, <1>3
    <3>4. QED
      BY <2>1, <3>1, <3>2, <3>3 DEF IInv, ListenInv
  <2>3. AckInv'
    <3>1. UNCHANGED <<putsToAck, acking, abandoned, connected, unackedListens>>
      BY <1>1, <2>1 DEF ackVars
    <3>2. tree'.viewed /\ tree'.complete = tree.complete /\ (tree.viewed \/ ~connected[Device])
      BY <1>2, <1>7 DEF Opened
    <3>3. QED
      BY <3>1, <3>2 DEF IInv, AckInv
  <2>4. TypeOK'
    BY <1>1, <1>2, <1>3, <1>4, <1>5, <2>1 DEF IInv, TypeOK, PipeInv, ackVars
  <2>5. QED
    BY <1>2, <1>5, <1>6, <2>2, <2>3, <2>4 DEF IInv
<1>8. CASE ~tree.viewed /\ Opened
  \* What is left of earlier listens has no observer.
  <2>1. unackedListens' = unackedListens + 1 /\ listensSent' = listensSent + 1
    BY <1>8 DEF addEventRegistration, sendListen
  <2>2. staleListens = unackedListens
    BY <1>8 DEF IInv, ListenInv
  <2>3. ListenInv'
    <3>1. connected' = connected /\ UNCHANGED <<authenticating, staleListens, serving, inbox>>
      BY <1>1
    <3>2. tree'.viewed /\ observers'[Ref] > 0 /\ tree'.complete = tree.complete
      BY <1>2, <1>3
    <3>3. unackedListens = listensSent + Cardinality(Listens(inbox))
      BY DEF IInv, ListenInv
    <3>4. Cardinality(Listens(inbox)) \in Nat
      BY <1>t, ListensCount
    <3>5. unackedListens' = listensSent' + Cardinality(Listens(inbox))
      BY <1>t, <2>1, <3>3, <3>4
    <3>6. staleListens < unackedListens'
      BY <1>t, <2>1, <2>2
    <3>7. ~connected[Device] => inbox = <<>> /\ ~serving /\ staleListens = 0 /\ authenticating
      BY <1>8 DEF IInv, ListenInv, Opened
    <3>8. ~(inbox # <<>> /\ inbox[1].type = "listen" /\ staleListens = 0)
      <4>1. ASSUME inbox # <<>>, inbox[1].type = "listen", staleListens = 0
            PROVE  FALSE
        <5>1. Cardinality(Listens(inbox)) = Cardinality(Listens(Tail(inbox))) + 1
              /\ Cardinality(Listens(Tail(inbox))) \in Nat
          BY <1>t, <4>1, ListensTail DEF IInv, ListenInv
        <5>2. QED
          BY <1>t, <2>2, <3>3, <4>1, <5>1
      <4>2. QED
        BY <4>1
    <3>9. Paired(inbox) /\ ~(connected[Device] /\ authenticating)
      BY DEF IInv, ListenInv
    <3>10. QED
      BY <1>t, <2>1, <3>1, <3>2, <3>5, <3>6, <3>7, <3>8, <3>9 DEF ListenInv
  <2>4. AckInv'
    <3>1. UNCHANGED <<putsToAck, acking, abandoned>> /\ unackedListens' > 0
      BY <1>1, <1>t, <2>1 DEF ackVars
    <3>2. QED
      BY <3>1 DEF AckInv
  <2>5. TypeOK'
    <3>1. unackedListens' \in Nat /\ listensSent' \in Nat
      BY <1>t, <2>1
    <3>2. QED
      BY <1>1, <1>2, <1>3, <1>4, <1>5, <3>1 DEF IInv, TypeOK, PipeInv, ackVars
  <2>6. QED
    BY <1>2, <1>5, <1>6, <2>3, <2>4, <2>5 DEF IInv
<1>9. QED
  BY <1>7, <1>8, <1>t

\* The token is to be checked: nothing else happens yet.
LEMMA TokenInv ==
    ASSUME IInv, ~connected[Device], authenticating',
           UNCHANGED <<queueVars, tree, screenVars, unackedListens, staleListens,
                       listensSent, serving, ackVars, inbox, foreignVars>>
    PROVE  IInv'
<1>1. PipeInv'
  <2>1. store' \in Node
    BY DEF IInv, PipeInv, Q!TypeOK, queueVars, Node
  <2>2. QED
    BY <2>1, PipeStands DEF IInv, queueVars, deviceQueueVars
<1>2. OrderInv'
  BY OrderKept DEF IInv, queueVars, ackVars
<1>3. ListenInv'
  <2>1. connected' = connected /\ observers' = observers
    BY DEF queueVars, screenVars
  <2>2. QED
    BY <2>1 DEF IInv, ListenInv
<1>4. AckInv'
  BY DEF IInv, AckInv, queueVars, ackVars
<1>5. TypeOK'
  <2>1. authenticating' \in BOOLEAN
    OBVIOUS
  <2>2. QED
    BY <1>1, <2>1 DEF IInv, TypeOK, PipeInv, screenVars, ackVars, foreignVars
<1>6. QED
  BY <1>1, <1>2, <1>3, <1>4, <1>5 DEF IInv

\* The connection is ready: a view has its listen sent, perhaps once more.
LEMMA RestoreInv ==
    ASSUME IInv, ~acking, restoreState, authenticating' = FALSE
    PROVE  IInv'
<1>t. /\ inbox \in Seq(Message)
      /\ unackedListens \in Nat /\ staleListens \in Nat /\ listensSent \in Nat
      /\ tree.viewed \in BOOLEAN /\ tree.complete \in BOOLEAN
  BY ListenTypes DEF IInv
<1>1. PipeInv'
  <2>1. QP!Next
    BY SameConnection DEF restoreState, QP!Next, QP!Background
  <2>2. QED
    BY <2>1, PipeStep DEF IInv
<1>2. /\ ~connected[Device] /\ connected'[Device]
      /\ UNCHANGED <<outstandingPuts, putCounter>>
      /\ UNCHANGED <<tree, observers, registering, mainQueue, staleListens, serving, putsToAck,
                     acking, abandoned, inbox, foreign, foreignPuts>>
  BY DEF restoreState, Q!Connect, screenVars, ackVars, foreignVars, IInv, PipeInv, Q!TypeOK
<1>3. /\ tree.viewed => unackedListens' = unackedListens + 1 /\ listensSent' = listensSent + 1
      /\ ~tree.viewed => unackedListens' = unackedListens /\ listensSent' = listensSent
  BY <1>t DEF restoreState, sendListen
<1>4. unackedListens' \in Nat /\ listensSent' \in Nat
  BY <1>t, <1>3
<1>5. OrderInv'
  BY <1>2, OrderKept DEF IInv
<1>6. /\ unackedListens = listensSent + Cardinality(Listens(inbox)) /\ inbox = <<>>
      /\ ~serving /\ staleListens = 0 /\ (~tree.viewed => unackedListens = 0 /\ ~tree.complete)
      /\ Paired(inbox) /\ (tree.viewed <=> observers[Ref] > 0)
  BY <1>2 DEF IInv, ListenInv
<1>7. ListenInv'
  <2>1. Cardinality(Listens(inbox)) \in Nat
    BY <1>t, ListensCount
  <2>2. unackedListens' = listensSent' + Cardinality(Listens(inbox))
    BY <1>t, <1>3, <1>6, <2>1
  <2>3. /\ staleListens <= unackedListens' /\ (tree.viewed => staleListens < unackedListens')
        /\ (~tree.viewed => staleListens = unackedListens')
    BY <1>t, <1>3, <1>6
  <2>4. QED
    BY <1>2, <1>6, <2>2, <2>3 DEF ListenInv
<1>8. AckInv'
  <2>1. tree.viewed => unackedListens' > 0
    BY <1>t, <1>3
  <2>2. \A i \in DOMAIN putsToAck : putsToAck[i].put.path \in abandoned \/ tree.viewed
    BY <1>2, <1>6, <1>t DEF IInv, AckInv
  <2>3. QED
    BY <1>2, <2>1, <2>2 DEF AckInv
<1>9. TypeOK'
  <2>1. authenticating' \in BOOLEAN
    OBVIOUS
  <2>2. QED
    BY <1>1, <1>2, <1>4, <2>1 DEF IInv, TypeOK, PipeInv
<1>10. QED
  BY <1>1, <1>2, <1>5, <1>7, <1>8, <1>9 DEF IInv, Sound

LEMMA ConnectInv == IInv /\ ~acking /\ (restoreAuth \/ Authenticated) => IInv'
<1> SUFFICES ASSUME IInv, ~acking, restoreAuth \/ Authenticated
             PROVE  IInv'
  OBVIOUS
<1>1. CASE Authenticated
  BY <1>1, RestoreInv DEF Authenticated
<1>2. CASE restoreAuth /\ signedIn[Device]
  <2>1. ~connected[Device] /\ authenticating'
    BY <1>2 DEF restoreAuth
  <2>2. UNCHANGED <<queueVars, tree, screenVars, unackedListens, staleListens,
                    listensSent, serving, ackVars, inbox, foreignVars>>
    BY <1>2 DEF restoreAuth
  <2>3. QED
    BY <2>1, <2>2, TokenInv
<1>3. CASE restoreAuth /\ ~signedIn[Device]
  <2>1. restoreState /\ authenticating' = authenticating /\ ~authenticating
    BY <1>3 DEF restoreAuth
  <2>2. authenticating' = FALSE
    BY <2>1 DEF IInv, TypeOK
  <2>3. QED
    BY <2>1, <2>2, RestoreInv
<1>4. QED
  BY <1>1, <1>2, <1>3

\* The end of a connection, ready or not.
LEMMA CutInv ==
    ASSUME IInv, ~acking, onDisconnect, PipeInv', ~connected'[Device],
           UNCHANGED <<outstandingPuts, putCounter>>
    PROVE  IInv'
<1>1. /\ UNCHANGED <<tree, observers, registering, mainQueue, putsToAck, acking, foreign, foreignPuts>>
      /\ authenticating' = FALSE /\ unackedListens' = 0 /\ staleListens' = 0
      /\ listensSent' = 0 /\ serving' = FALSE /\ inbox' = <<>>
      /\ abandoned' = IF tree.viewed THEN abandoned
                      ELSE abandoned \cup {putsToAck[i].put.path : i \in DOMAIN putsToAck}
  BY DEF onDisconnect, KeepAnswers, screenVars, foreignVars
<1>2. OrderInv'
  BY <1>1, OrderKept DEF IInv
<1>3. ListenInv'
  <2>1. Listens(<<>>) = {} /\ Paired(<<>>)
    BY DEF Listens, Paired
  <2>2. Cardinality(Listens(inbox')) = 0 /\ Paired(inbox')
    BY <1>1, <2>1, FS_EmptySet
  <2>3. (~tree.viewed => ~tree.complete) /\ (tree.viewed <=> observers[Ref] > 0)
    BY DEF IInv, ListenInv
  <2>4. QED
    BY <1>1, <2>2, <2>3 DEF ListenInv
<1>4. AckInv'
  <2>1. \A i \in DOMAIN putsToAck : tree.viewed \/ putsToAck[i].put.path \in abandoned'
    BY <1>1
  <2>2. QED
    BY <1>1, <2>1 DEF AckInv
<1>5. TypeOK'
  <2>1. inbox' \in Seq(Message)
    BY <1>1
  <2>2. /\ unackedListens' \in Nat /\ staleListens' \in Nat /\ listensSent' \in Nat
        /\ authenticating' \in BOOLEAN /\ serving' \in BOOLEAN
    BY <1>1
  <2>3. abandoned' \subseteq Paths
    <3>1. \A i \in DOMAIN putsToAck : putsToAck[i].put.path \in Paths
      BY OrderTypes DEF IInv, Q!Response, Q!Put
    <3>2. abandoned \subseteq Paths
      BY DEF IInv, TypeOK
    <3>3. QED
      BY <1>1, <3>1, <3>2
  <2>4. QED
    BY <1>1, <2>1, <2>2, <2>3 DEF IInv, TypeOK, PipeInv
<1>6. QED
  BY <1>1, <1>2, <1>3, <1>4, <1>5 DEF IInv, Sound

LEMMA DisconnectInv == IInv /\ ~acking /\ (Disconnect \/ AuthFailed) => IInv'
<1> SUFFICES ASSUME IInv, ~acking, Disconnect \/ AuthFailed
             PROVE  IInv'
  OBVIOUS
<1>1. CASE Disconnect
  <2>1. PipeInv'
    <3>1. QP!Next
      BY <1>1, SameConnection DEF Disconnect, QP!Next, QP!Background
    <3>2. QED
      BY <3>1, PipeStep DEF IInv
  <2>2. ~connected'[Device] /\ UNCHANGED <<outstandingPuts, putCounter>>
    BY <1>1 DEF Disconnect, Q!Disconnect, IInv, PipeInv, Q!TypeOK
  <2>3. QED
    BY <1>1, <2>1, <2>2, CutInv DEF Disconnect
<1>2. CASE AuthFailed
  <2>1. PipeInv'
    BY <1>2, PipeUnready DEF IInv
  <2>2. ~connected'[Device]
    BY <1>2 DEF AuthFailed, IInv, ListenInv
  <2>3. onDisconnect /\ UNCHANGED <<outstandingPuts, putCounter>>
    BY <1>2 DEF AuthFailed
  <2>4. QED
    BY <2>1, <2>2, <2>3, CutInv
<1>3. QED
  BY <1>1, <1>2

LEMMA SessionInv == IInv /\ (SignIn \/ SignOut) => IInv'
<1> SUFFICES ASSUME IInv, SignIn \/ SignOut
             PROVE  IInv'
  OBVIOUS
<1>1. PipeInv'
  <2>1. QP!Next
    BY SameSession DEF SignIn, SignOut, QP!Next
  <2>2. QED
    BY <2>1, PipeStep DEF IInv
<1>2. UNCHANGED <<outstandingPuts, putCounter, connected, tree, observers, registering, mainQueue,
                  listenVars, ackVars, inbox,
                  foreign, foreignPuts>>
  BY DEF SignIn, SignOut, Q!SignIn, Q!SignOut, screenVars, foreignVars
<1>3. OrderInv' /\ ListenInv' /\ AckInv'
  <2>1. ~tree.viewed => ~tree.complete
    BY DEF IInv, ListenInv
  <2>2. OrderInv'
    BY <1>2, OrderKept DEF IInv, ackVars
  <2>3. ListenInv'
    BY <1>2, <2>1, ListenSame DEF IInv
  <2>4. AckInv'
    BY <1>2 DEF IInv, AckInv, listenVars, ackVars
  <2>5. QED
    BY <2>2, <2>3, <2>4
<1>4. TypeOK'
  BY <1>1, <1>2 DEF IInv, TypeOK, PipeInv, listenVars, ackVars
<1>5. QED
  BY <1>1, <1>2, <1>3, <1>4 DEF IInv

\* News of a child or of the whole location.
LEMMA StoreKept ==
    ASSUME IInv, UNCHANGED queueVars
    PROVE  PipeInv'
<1>1. store' \in Node
  BY DEF IInv, PipeInv, Q!TypeOK, queueVars, Node
<1>2. QED
  BY <1>1, PipeStands DEF IInv, queueVars, deviceQueueVars

LEMMA NewsInv ==
    ASSUME IInv, ~acking, inbox # <<>>, Head(inbox).type \in {"data", "node"},
           inbox' = Tail(inbox), inbox' \in Seq(Message),
           tree' \in Tree, Sound(tree'), tree.eventSnap \in Node,
           tree'.allWrites = tree.allWrites, tree'.viewed = tree.viewed,
           tree.complete => tree'.complete, ~tree.viewed => ~tree'.complete,
           Head(inbox).type = "node" /\ tree.viewed => tree'.complete,
           mainQueue' = mainQueue \o EventsOf(tree.eventSnap, tree'.eventSnap),
           UNCHANGED <<queueVars, observers, registering, listenVars, ackVars, foreign, foreignPuts>>
    PROVE  IInv'
<1>1. PipeInv' /\ OrderInv'
  BY StoreKept, OrderKept DEF IInv, queueVars, ackVars
<1>2. ListenInv'
  BY ListenTail DEF IInv, queueVars
<1>3. AckInv'
  BY DEF IInv, AckInv, queueVars, listenVars, ackVars
<1>4. mainQueue' \in Seq(Event)
  BY TreeFields, RaisedType DEF IInv
<1>5. TypeOK'
  BY <1>1, <1>4 DEF IInv, TypeOK, PipeInv, listenVars, ackVars
<1>6. QED
  BY <1>1, <1>2, <1>3, <1>5 DEF IInv

\* The news of the server about a child.
LEMMA DataInv == IInv /\ ~acking /\ ReceiveData => IInv'
<1> SUFFICES ASSUME IInv, ~acking, ReceiveData
             PROVE  IInv'
  OBVIOUS
<1> DEFINE m == Head(inbox)
<1>1. /\ inbox # <<>> /\ m.type = "data" /\ inbox' = Tail(inbox)
      /\ tree' = IF tree.viewed THEN applyServerOverwrite(tree, m.path, m.val) ELSE tree
      /\ mainQueue' = mainQueue \o EventsOf(tree.eventSnap, tree'.eventSnap)
      /\ UNCHANGED <<queueVars, observers, registering, listenVars, ackVars, foreign, foreignPuts>>
  BY DEF ReceiveData, Receives, Raise, foreignVars
<1>2. m \in Message /\ 1 \in DOMAIN inbox /\ m = inbox[1] /\ inbox' \in Seq(Message)
  BY <1>1, ListenTypes, TailFacts DEF IInv
<1>3. m.path \in Paths /\ m.val \in Values \cup {None}
  BY <1>1, <1>2, MessageFacts
<1>4. /\ tree \in Tree /\ Sound(tree) /\ tree.eventSnap \in Node
      /\ ~tree.viewed => ~tree.complete
  BY TreeFields DEF IInv, TypeOK, ListenInv
<1> HIDE DEF m
<1>5. /\ tree' \in Tree /\ Sound(tree') /\ tree'.allWrites = tree.allWrites
      /\ tree'.viewed = tree.viewed /\ (tree.complete => tree'.complete)
      /\ (~tree.viewed => ~tree'.complete)
  <2>1. CASE tree.viewed
    <3>1. tree' = applyServerOverwrite(tree, m.path, m.val)
      BY <1>1, <2>1
    <3>2. QED
      BY <1>3, <1>4, <2>1, <3>1, ServerOverwrite
  <2>2. CASE ~tree.viewed
    BY <1>1, <1>4, <2>2
  <2>3. QED
    BY <2>1, <2>2
<1>6. m.type \in {"data", "node"} /\ m.type # "node"
  BY <1>1
<1>7. QED
  BY <1>1, <1>2, <1>4, <1>5, <1>6, NewsInv DEF m

LEMMA NodeInv == IInv /\ ~acking /\ ReceiveNode => IInv'
<1> SUFFICES ASSUME IInv, ~acking, ReceiveNode
             PROVE  IInv'
  OBVIOUS
<1> DEFINE m == Head(inbox)
<1>1. /\ inbox # <<>> /\ m.type = "node" /\ inbox' = Tail(inbox)
      /\ tree' = IF tree.viewed THEN applyServerNode(tree, m.node) ELSE tree
      /\ mainQueue' = mainQueue \o EventsOf(tree.eventSnap, tree'.eventSnap)
      /\ UNCHANGED <<queueVars, observers, registering, listenVars, ackVars, foreign, foreignPuts>>
  BY DEF ReceiveNode, Receives, Raise, foreignVars
<1>2. m \in Message /\ 1 \in DOMAIN inbox /\ m = inbox[1] /\ inbox' \in Seq(Message)
  BY <1>1, ListenTypes, TailFacts DEF IInv
<1>3. m.node \in Node
  BY <1>1, <1>2, MessageFacts
<1>4. /\ tree \in Tree /\ Sound(tree) /\ tree.eventSnap \in Node
      /\ ~tree.viewed => ~tree.complete
  BY TreeFields DEF IInv, TypeOK, ListenInv
<1> HIDE DEF m
<1>5. /\ tree' \in Tree /\ Sound(tree') /\ tree'.allWrites = tree.allWrites
      /\ tree'.viewed = tree.viewed /\ (tree.complete => tree'.complete)
      /\ (~tree.viewed => ~tree'.complete) /\ (tree.viewed => tree'.complete)
  <2>1. CASE tree.viewed
    <3>1. tree' = applyServerNode(tree, m.node)
      BY <1>1, <2>1
    <3>2. QED
      BY <1>3, <1>4, <2>1, <3>1, ServerNode
  <2>2. CASE ~tree.viewed
    BY <1>1, <1>4, <2>2
  <2>3. QED
    BY <2>1, <2>2
<1>6. m.type \in {"data", "node"}
  BY <1>1
<1>7. QED
  BY <1>1, <1>2, <1>4, <1>5, <1>6, NewsInv DEF m

\* An answer to a listen is counted.
LEMMA CountFacts ==
    ASSUME IInv, inbox # <<>>, inbox[1].type = "listen", inbox' = Tail(inbox),
           listensSent' = listensSent, CountAnswer
    PROVE  /\ unackedListens' = unackedListens - 1 /\ unackedListens' \in Nat /\ unackedListens > 0
           /\ (unackedListens' = 0 \/ unackedListens' > 0)
           /\ (acking' <=> unackedListens' = 0 /\ putsToAck # <<>>) /\ acking' \in BOOLEAN
           /\ unackedListens' = listensSent + Cardinality(Listens(inbox'))
           /\ Paired(inbox')
           /\ inbox' # <<>> /\ inbox'[1].type = "listen" => ~inbox'[1].ok
<1>t. inbox \in Seq(Message) /\ unackedListens \in Nat /\ listensSent \in Nat
  BY ListenTypes DEF IInv
<1> DEFINE new == Tail(inbox)
<1>1. /\ Paired(new) /\ Cardinality(Listens(new)) \in Nat
      /\ Cardinality(Listens(inbox)) =
            Cardinality(Listens(new)) + IF inbox[1].type = "listen" THEN 1 ELSE 0
      /\ new # <<>> /\ new[1].type = "listen" /\ new[1].ok => inbox[1].type = "node"
  BY <1>t, ListensTail DEF IInv, ListenInv
<1>2. unackedListens = listensSent + Cardinality(Listens(inbox))
  BY DEF IInv, ListenInv
<1>3. Cardinality(Listens(inbox)) = Cardinality(Listens(new)) + 1
  BY <1>1
<1>4. new = inbox'
  OBVIOUS
<1> HIDE DEF new
<1>5. unackedListens' = unackedListens - 1 /\ (acking' <=> unackedListens' = 0 /\ putsToAck # <<>>) /\ acking' \in BOOLEAN
  BY DEF CountAnswer
<1>6. unackedListens - 1 = listensSent + Cardinality(Listens(new)) /\ unackedListens > 0
      /\ (unackedListens - 1 = 0 \/ unackedListens - 1 > 0)
  BY <1>t, <1>1, <1>2, <1>3
<1>7. \A x : x = "listen" => x # "node"
  OBVIOUS
<1>8. QED
  BY <1>t, <1>1, <1>4, <1>5, <1>6, <1>7

\* The answer to a listen that has its observers.
LEMMA ReceiveListenInv == IInv /\ ~acking /\ ReceiveListen => IInv'
<1> SUFFICES ASSUME IInv, ~acking, ReceiveListen
             PROVE  IInv'
  OBVIOUS
<1> DEFINE m == Head(inbox)
<1>1. /\ inbox # <<>> /\ m.type = "listen" /\ inbox' = Tail(inbox) /\ staleListens = 0
      /\ tree' = IF m.ok THEN applyListenComplete(tree) ELSE dropView(tree)
      /\ mainQueue' = mainQueue \o EventsOf(tree.eventSnap, tree'.eventSnap)
      /\ observers' = IF m.ok THEN observers ELSE [observers EXCEPT ![Ref] = 0]
      /\ staleListens' = IF m.ok THEN staleListens ELSE unackedListens - 1
      /\ UNCHANGED <<queueVars, registering, authenticating, listensSent, serving, putsToAck,
                     abandoned, foreign, foreignPuts>>
  BY DEF ReceiveListen, Receives, Drop, Raise, foreignVars
<1>2. /\ m \in Message /\ 1 \in DOMAIN inbox /\ m = inbox[1] /\ inbox' \in Seq(Message)
  BY <1>1, ListenTypes, TailFacts DEF IInv
<1>3. m.ok \in BOOLEAN
  BY <1>1, <1>2, MessageFacts
<1>4. inbox[1].type = "listen"
  BY <1>1, <1>2
<1>5. /\ unackedListens' = unackedListens - 1 /\ unackedListens' \in Nat /\ unackedListens > 0
      /\ (unackedListens' = 0 \/ unackedListens' > 0)
      /\ (acking' <=> unackedListens' = 0 /\ putsToAck # <<>>) /\ acking' \in BOOLEAN
      /\ unackedListens' = listensSent + Cardinality(Listens(inbox'))
      /\ Paired(inbox')
      /\ inbox' # <<>> /\ inbox'[1].type = "listen" => ~inbox'[1].ok
  BY <1>1, <1>4, CountFacts DEF ReceiveListen
<1>6. /\ tree \in Tree /\ Sound(tree) /\ tree.eventSnap \in Node
      /\ tree.viewed /\ connected[Device] /\ (m.ok => tree.complete)
  <2>1. tree.viewed
    BY <1>1, <1>5 DEF IInv, ListenInv
  <2>2. m.ok => tree.complete
    BY <1>1, <1>2, <1>4 DEF IInv, ListenInv
  <2>3. QED
    BY <1>1, <2>1, <2>2, TreeFields DEF IInv, TypeOK, ListenInv
<1> HIDE DEF m
<1>8. /\ tree' \in Tree /\ Sound(tree') /\ tree'.allWrites = tree.allWrites
      /\ (m.ok => tree'.viewed /\ tree'.complete) /\ (~m.ok => ~tree'.viewed /\ ~tree'.complete)
  <2>1. CASE m.ok
    <3>1. tree' = applyListenComplete(tree)
      BY <1>1, <2>1
    <3>2. QED
      BY <1>6, <2>1, <3>1, ListenComplete
  <2>2. CASE ~m.ok
    <3>1. tree' = dropView(tree)
      BY <1>1, <2>2
    <3>2. QED
      BY <1>6, <2>2, <3>1, DropView
  <2>3. QED
    BY <2>1, <2>2
<1>9. /\ observers' \in [{Ref} -> 0..MaxObservers]
      /\ tree'.viewed <=> observers'[Ref] > 0
  <2>1. observers \in [{Ref} -> 0..MaxObservers] /\ 0 \in 0..MaxObservers
    BY SyncTreeAssumption DEF IInv, TypeOK
  <2>2. observers[Ref] > 0
    BY <1>6 DEF IInv, ListenInv
  <2>3. ~(0 > 0)
    OBVIOUS
  <2>4. CASE m.ok
    BY <1>1, <1>8, <2>1, <2>2, <2>4
  <2>5. CASE ~m.ok
    BY <1>1, <1>8, <2>1, <2>3, <2>5
  <2>6. QED
    BY <1>3, <2>4, <2>5
<1>c. connected'[Device] = connected[Device]
  BY <1>1 DEF queueVars
<1>11. ListenInv'
  <2>1. ~(connected[Device] /\ authenticating)
    BY DEF IInv, ListenInv
  <2>2. CASE m.ok
    <3>1. staleListens' = 0 /\ tree'.viewed /\ tree'.complete
      BY <1>1, <1>8, <2>2
    <3>2. staleListens' <= unackedListens' /\ (staleListens' < unackedListens' \/ unackedListens' = 0)
      <4>1. staleListens' = 0 /\ 0 <= unackedListens'
        BY <1>5, <3>1
      <4>2. QED
        BY <1>5, <4>1
    <3>3. QED
      BY <1>1, <1>5, <1>6, <1>9, <1>c, <2>1, <3>1, <3>2 DEF ListenInv
  <2>3. CASE ~m.ok
    <3>1. staleListens' = unackedListens' /\ ~tree'.viewed /\ ~tree'.complete
      BY <1>1, <1>5, <1>8, <2>3
    <3>2. staleListens' <= unackedListens'
      BY <1>5, <3>1
    <3>3. QED
      BY <1>1, <1>5, <1>6, <1>9, <1>c, <2>1, <3>1, <3>2 DEF ListenInv
  <2>4. QED
    BY <1>3, <2>2, <2>3
<1>12. AckInv'
  <2>1. ~acking' => putsToAck' = <<>> \/ unackedListens' > 0
    BY <1>1, <1>5
  <2>2. acking' => putsToAck' # <<>> /\ unackedListens' = 0 /\ (tree'.viewed => tree'.complete)
    BY <1>1, <1>3, <1>5, <1>8
  <2>3. QED
    BY <1>6, <1>c, <2>1, <2>2 DEF AckInv
<1>13. PipeInv' /\ OrderInv'
  BY <1>1, <1>8, StoreKept, OrderKept DEF IInv, queueVars
<1>14. TypeOK'
  <2>1. mainQueue' \in Seq(Event)
    BY <1>1, <1>6, <1>8, TreeFields, RaisedType DEF IInv
  <2>2. unackedListens' \in Nat /\ staleListens' \in Nat
    <3>1. staleListens' = 0 \/ staleListens' = unackedListens'
      BY <1>1, <1>3, <1>5
    <3>2. QED
      BY <1>5, <3>1
  <2>3. acking' \in BOOLEAN
    BY <1>5
  <2>4. QED
    BY <1>1, <1>2, <1>8, <1>9, <1>13, <2>1, <2>2, <2>3 DEF IInv, TypeOK, PipeInv
<1>15. QED
  BY <1>8, <1>11, <1>12, <1>13, <1>14 DEF IInv

\* The answer to a listen without observers.
LEMMA StaleInv == IInv /\ ~acking /\ ReceiveStale => IInv'
<1> SUFFICES ASSUME IInv, ~acking, ReceiveStale
             PROVE  IInv'
  OBVIOUS
<1>t. staleListens \in Nat /\ unackedListens \in Nat
  BY ListenTypes DEF IInv
<1>1. /\ inbox # <<>> /\ Head(inbox).type = "listen" /\ inbox' = Tail(inbox)
      /\ staleListens > 0 /\ staleListens' = staleListens - 1
      /\ UNCHANGED <<queueVars, tree, observers, registering, mainQueue, authenticating,
                     listensSent, serving, putsToAck, abandoned, foreign, foreignPuts>>
  BY DEF ReceiveStale, Receives, screenVars, foreignVars
<1>2. inbox' \in Seq(Message) /\ inbox[1].type = "listen"
  BY <1>1, ListenTypes, TailFacts DEF IInv
<1>3. /\ unackedListens' = unackedListens - 1 /\ unackedListens' \in Nat /\ unackedListens > 0
      /\ (unackedListens' = 0 \/ unackedListens' > 0)
      /\ (acking' <=> unackedListens' = 0 /\ putsToAck # <<>>) /\ acking' \in BOOLEAN
      /\ unackedListens' = listensSent + Cardinality(Listens(inbox'))
      /\ Paired(inbox')
      /\ inbox' # <<>> /\ inbox'[1].type = "listen" => ~inbox'[1].ok
  BY <1>1, <1>2, CountFacts DEF ReceiveStale
<1>4. connected[Device] /\ connected' = connected
  BY <1>1 DEF IInv, ListenInv, queueVars
<1>5. /\ staleListens' \in Nat /\ staleListens' <= unackedListens'
      /\ staleListens = unackedListens => staleListens' = unackedListens'
      /\ staleListens < unackedListens => staleListens' < unackedListens'
  BY <1>t, <1>1, <1>3 DEF IInv, ListenInv
<1>6. /\ tree.viewed => staleListens < unackedListens
      /\ ~tree.viewed => staleListens = unackedListens /\ ~tree.complete
      /\ ~(connected[Device] /\ authenticating)
      /\ tree.viewed <=> observers[Ref] > 0
  BY <1>3, <1>4 DEF IInv, ListenInv
<1>7. ListenInv'
  BY <1>1, <1>3, <1>4, <1>5, <1>6 DEF ListenInv
<1>8. tree.viewed => unackedListens' > 0
  BY <1>3, <1>5, <1>6
<1>9. AckInv'
  <2>1. ~acking' => putsToAck' = <<>> \/ unackedListens' > 0
    BY <1>1, <1>3
  <2>2. acking' => putsToAck' # <<>> /\ unackedListens' = 0 /\ ~tree'.viewed
    BY <1>1, <1>3, <1>8
  <2>3. QED
    BY <1>4, <2>1, <2>2 DEF AckInv
<1>10. PipeInv' /\ OrderInv'
  BY <1>1, StoreKept, OrderKept DEF IInv, queueVars
<1>11. TypeOK'
  <2>1. acking' \in BOOLEAN
    BY <1>3
  <2>2. QED
    BY <1>1, <1>2, <1>3, <1>5, <1>10, <2>1 DEF IInv, TypeOK, PipeInv
<1>12. QED
  BY <1>1, <1>7, <1>9, <1>10, <1>11 DEF IInv, Sound

LEMMA RevokeInv == IInv /\ ~acking /\ ReceiveRevoke => IInv'
<1> SUFFICES ASSUME IInv, ~acking, ReceiveRevoke
             PROVE  IInv'
  OBVIOUS
<1>t. inbox \in Seq(Message) /\ staleListens \in Nat /\ unackedListens \in Nat
  BY ListenTypes DEF IInv
<1>1. /\ inbox # <<>> /\ Head(inbox).type = "revoke" /\ inbox' = Tail(inbox)
      /\ tree' = dropView(tree) /\ observers' = [observers EXCEPT ![Ref] = 0]
      /\ mainQueue' = mainQueue \o EventsOf(tree.eventSnap, tree'.eventSnap)
      /\ staleListens' = unackedListens
      /\ UNCHANGED <<queueVars, registering, authenticating, unackedListens, listensSent, serving,
                     putsToAck, acking, abandoned, foreign, foreignPuts>>
  BY DEF ReceiveRevoke, Receives, Drop, Raise, ackVars, foreignVars
<1>2. /\ inbox' \in Seq(Message) /\ inbox[1].type = "revoke"
  BY <1>1, ListenTypes, TailFacts DEF IInv
<1>3. /\ tree \in Tree /\ Sound(tree) /\ tree.eventSnap \in Node /\ connected[Device]
  BY <1>1, TreeFields DEF IInv, TypeOK, ListenInv
<1>4. /\ tree' \in Tree /\ Sound(tree') /\ tree'.allWrites = tree.allWrites
      /\ ~tree'.viewed /\ ~tree'.complete
  BY <1>1, <1>3, DropView
<1>5. observers' \in [{Ref} -> 0..MaxObservers] /\ ~(observers'[Ref] > 0)
  <2>1. observers \in [{Ref} -> 0..MaxObservers] /\ 0 \in 0..MaxObservers
    BY SyncTreeAssumption DEF IInv, TypeOK
  <2>2. QED
    BY <1>1, <2>1
<1> DEFINE new == Tail(inbox)
<1>6. /\ Paired(new) /\ Cardinality(Listens(inbox)) = Cardinality(Listens(new)) + 0
      /\ Cardinality(Listens(new)) \in Nat
      /\ ~(new # <<>> /\ new[1].type = "listen" /\ new[1].ok)
  BY <1>t, <1>1, <1>2, ListensTail DEF IInv, ListenInv
<1>7. new = inbox'
  BY <1>1
<1> HIDE DEF new
<1>8. unackedListens = listensSent + Cardinality(Listens(new))
  BY <1>6 DEF IInv, ListenInv
<1>c. connected' = connected
  BY <1>1 DEF queueVars
<1>9. ListenInv'
  <2>1. ~(connected[Device] /\ authenticating) /\ unackedListens <= unackedListens
    BY <1>t DEF IInv, ListenInv
  <2>2. QED
    BY <1>1, <1>3, <1>4, <1>5, <1>6, <1>7, <1>8, <1>c, <2>1 DEF ListenInv
<1>10. AckInv'
  BY <1>1, <1>3, <1>4, <1>c DEF IInv, AckInv
<1>11. PipeInv' /\ OrderInv'
  BY <1>1, <1>4, StoreKept, OrderKept DEF IInv, queueVars
<1>12. TypeOK'
  <2>1. mainQueue' \in Seq(Event)
    BY <1>1, <1>3, <1>4, TreeFields, RaisedType DEF IInv
  <2>2. staleListens' \in Nat
    BY <1>t, <1>1
  <2>3. QED
    BY <1>1, <1>2, <1>4, <1>5, <1>11, <2>1, <2>2 DEF IInv, TypeOK, PipeInv
<1>13. QED
  BY <1>4, <1>9, <1>10, <1>11, <1>12 DEF IInv

\* The write of an answer is the oldest of the write tree when it is used.
LEMMA AckWriteFirst ==
    ASSUME NEW t \in Tree, Sound(t), t.allWrites # <<>>, t.viewed => t.complete,
           NEW r \in Q!Response, IndexOf(t.allWrites, r.put.idx) = 1
    PROVE  LET u == ackWrite(t, r)
           IN  /\ u \in Tree /\ Sound(u)
               /\ u.allWrites = Tail(t.allWrites)
               /\ u.viewed = t.viewed /\ u.complete = t.complete
<1>1. CASE r.ok
  <2>1. ackWrite(t, r) = ackUserWrite(t, 1)
    BY <1>1 DEF ackWrite
  <2>2. QED
    BY <2>1, AckFirst
<1>2. CASE ~r.ok
  <2>1. ackWrite(t, r) = revertUserWrite(t, 1)
    BY <1>2 DEF ackWrite
  <2>2. QED
    BY <2>1, RevertFirst
<1>3. QED
  BY <1>1, <1>2

\* Without a view it need not be the oldest: older answers may be abandoned.
LEMMA AckWriteUnseen ==
    ASSUME NEW t \in Tree, Sound(t), ~t.viewed, NEW r \in Q!Response,
           IndexOf(t.allWrites, r.put.idx) \in DOMAIN t.allWrites
    PROVE  LET u == ackWrite(t, r)
           IN  /\ u \in Tree /\ Sound(u)
               /\ u.allWrites = RemoveAt(t.allWrites, IndexOf(t.allWrites, r.put.idx))
               /\ u.viewed = t.viewed /\ u.complete = t.complete
               /\ u.serverSnap = t.serverSnap /\ u.eventSnap = t.eventSnap
<1> DEFINE k == IndexOf(t.allWrites, r.put.idx)
<1>1. ackWrite(t, r) = ackUserWrite(t, k) \/ ackWrite(t, r) = revertUserWrite(t, k)
  BY DEF ackWrite
<1>2. k \in DOMAIN t.allWrites
  OBVIOUS
<1> HIDE DEF k
<1>3. QED
  BY <1>1, <1>2, AckUnseen DEF k

\* With a listen under way the answer is put off; else it is used at once, and
\* then there is no view, or it is complete and no other answer waits.
LEMMA AnswerInv == IInv /\ ~acking /\ ReceiveAnswer => IInv'
<1> SUFFICES ASSUME IInv, ~acking, ReceiveAnswer
             PROVE  IInv'
  OBVIOUS
<1> DEFINE r == OldestResponse
<1>1. /\ inbox # <<>> /\ Head(inbox).type = "answer" /\ inbox' = Tail(inbox)
      /\ Q!Answer(Device)
      /\ UNCHANGED <<observers, registering, listenVars, acking, abandoned, foreign, foreignPuts>>
  BY DEF ReceiveAnswer, Receives, foreignVars
<1>2. /\ r \in Q!Response /\ PipeInv'
      /\ r.put \in outstandingPuts[Device] /\ connected[Device]
      /\ outstandingPuts'[Device] = outstandingPuts[Device] \ {r.put}
      /\ \A pt \in outstandingPuts[Device] \ {r.put} : r.put.idx < pt.idx
      /\ \A pt \in outstandingPuts[Device] : pt.idx \in Nat /\ pt.idx < putCounter[Device]
      /\ UNCHANGED <<store, connected, signedIn, putCounter>>
  BY <1>1, AnswerPipe DEF IInv
<1> HIDE DEF r
<1>3. inbox' \in Seq(Message)
  BY <1>1, ListenTypes, TailFacts DEF IInv
<1>4. /\ tree \in Tree /\ Sound(tree) /\ tree.eventSnap \in Node /\ unackedListens \in Nat
      /\ ~tree.viewed => ~tree.complete
  BY TreeFields DEF IInv, TypeOK, ListenInv
<1>5. CASE Deferred
  <2>1. putsToAck' = Append(putsToAck, r) /\ UNCHANGED <<tree, mainQueue>> /\ unackedListens > 0
    BY <1>5 DEF ReceiveAnswer, r, Deferred
  <2>2. OrderInv'
    BY <1>2, <2>1, OrderDefer DEF IInv
  <2>3. ListenInv'
    BY <1>1, <1>2, <1>4, <2>1, ListenTail DEF IInv
  <2>4. AckInv'
    BY <1>1, <2>1 DEF AckInv, listenVars
  <2>5. putsToAck' \in Seq(Q!Response)
    BY <1>2, <2>1, OrderTypes DEF IInv
  <2>6. TypeOK'
    BY <1>1, <1>2, <1>3, <2>1, <2>5 DEF IInv, TypeOK, PipeInv, listenVars
  <2>7. QED
    BY <1>2, <2>1, <2>2, <2>3, <2>4, <2>6 DEF IInv, Sound
<1>6. CASE ~Deferred
  <2>1. /\ tree' = ackWrite(tree, r) /\ putsToAck' = putsToAck /\ unackedListens = 0
        /\ mainQueue' = mainQueue \o EventsOf(tree.eventSnap, tree'.eventSnap)
    BY <1>4, <1>6 DEF ReceiveAnswer, r, Deferred, Raise
  <2>2. tree.viewed => tree.complete /\ putsToAck = <<>>
    <3>1. ~(staleListens < 0) /\ ~(unackedListens > 0)
      BY <2>1, ListenTypes DEF IInv
    <3>2. QED
      BY <1>2, <2>1, <3>1 DEF IInv, ListenInv, AckInv
  <2>3. /\ tree' \in Tree /\ Sound(tree') /\ OrderInv'
        /\ tree'.viewed = tree.viewed /\ tree'.complete = tree.complete
    <3>1. CASE tree.viewed
      <4>1. putsToAck = <<>> /\ tree.complete
        BY <2>2, <3>1
      <4>2. tree.allWrites # <<>> /\ IndexOf(tree.allWrites, r.put.idx) = 1
        BY <1>2, <4>1, OrderDirect DEF IInv
      <4>3. /\ tree' \in Tree /\ Sound(tree') /\ tree'.allWrites = Tail(tree.allWrites)
            /\ tree'.viewed = tree.viewed /\ tree'.complete = tree.complete
        BY <1>2, <1>4, <2>1, <4>1, <4>2, AckWriteFirst
      <4>4. OrderInv'
        BY <1>2, <2>1, <4>1, <4>3, OrderDirect DEF IInv
      <4>5. QED
        BY <4>3, <4>4
    <3>2. CASE ~tree.viewed
      <4>1. IndexOf(tree.allWrites, r.put.idx) \in DOMAIN tree.allWrites
        BY <1>2, OrderTaken DEF IInv
      <4>2. /\ tree' \in Tree /\ Sound(tree')
            /\ tree'.allWrites = RemoveAt(tree.allWrites, IndexOf(tree.allWrites, r.put.idx))
            /\ tree'.viewed = tree.viewed /\ tree'.complete = tree.complete
        BY <1>2, <1>4, <2>1, <3>2, <4>1, AckWriteUnseen
      <4>3. OrderInv'
        BY <1>2, <2>1, <4>2, OrderTaken DEF IInv
      <4>4. QED
        BY <4>2, <4>3
    <3>3. QED
      BY <3>1, <3>2
  <2>4. ListenInv'
    BY <1>1, <1>2, <1>4, <2>3, ListenTail DEF IInv
  <2>5. AckInv'
    BY <1>1, <1>2, <2>1, <2>2, <2>3 DEF IInv, AckInv, listenVars
  <2>6. mainQueue' \in Seq(Event)
    BY <1>4, <2>1, <2>3, TreeFields, RaisedType DEF IInv
  <2>7. TypeOK'
    BY <1>1, <1>2, <1>3, <2>1, <2>3, <2>6 DEF IInv, TypeOK, PipeInv, listenVars
  <2>8. QED
    BY <1>2, <2>3, <2>4, <2>5, <2>7 DEF IInv
<1>7. QED
  BY <1>5, <1>6

\* The oldest of the answers that waited.
LEMMA AckPutsInv == IInv /\ ackPuts => IInv'
<1> SUFFICES ASSUME IInv, ackPuts
             PROVE  IInv'
  OBVIOUS
<1> DEFINE r == Head(putsToAck)
<1>1. /\ acking /\ tree' = ackWrite(tree, r) /\ putsToAck' = Tail(putsToAck)
      /\ mainQueue' = mainQueue \o EventsOf(tree.eventSnap, tree'.eventSnap)
      /\ acking' = (Tail(putsToAck) # <<>>)
      /\ UNCHANGED <<queueVars, observers, registering, listenVars, abandoned,
                     inbox, foreign, foreignPuts>>
  BY DEF ackPuts, Raise, foreignVars
<1>2. putsToAck # <<>> /\ unackedListens = 0 /\ (tree.viewed => tree.complete)
      /\ connected[Device] /\ (~tree.viewed => ~tree.complete)
  BY <1>1 DEF IInv, AckInv, ListenInv
<1>3. r \in Q!Response /\ putsToAck' \in Seq(Q!Response)
  BY <1>1, <1>2, OrderTypes, TailFacts DEF IInv
<1>4. tree \in Tree /\ Sound(tree) /\ tree.eventSnap \in Node
  BY TreeFields DEF IInv, TypeOK
<1>5. tree.allWrites # <<>> /\ IndexOf(tree.allWrites, r.put.idx) = 1
  BY <1>2, OrderUse DEF IInv
<1> HIDE DEF r
<1>6. /\ tree' \in Tree /\ Sound(tree') /\ tree'.allWrites = Tail(tree.allWrites)
      /\ tree'.viewed = tree.viewed /\ tree'.complete = tree.complete
  BY <1>1, <1>2, <1>3, <1>4, <1>5, AckWriteFirst
<1>7. OrderInv'
  BY <1>1, <1>2, <1>6, OrderUse DEF IInv, queueVars
<1>8. ListenInv' /\ PipeInv'
  BY <1>1, <1>2, <1>6, ListenSame, StoreKept DEF IInv, queueVars
<1>9. AckInv'
  <2>1. acking' \/ putsToAck' = <<>>
    BY <1>1
  <2>2. acking' => putsToAck' # <<>> /\ unackedListens' = 0 /\ connected'[Device]
    BY <1>1, <1>2 DEF queueVars, listenVars
  <2>3. QED
    BY <1>1, <1>2, <1>6, <2>1, <2>2 DEF AckInv
<1>10. mainQueue' \in Seq(Event)
  BY <1>1, <1>4, <1>6, TreeFields, RaisedType DEF IInv
<1>11. acking' \in BOOLEAN
  BY <1>1
<1>12. TypeOK'
  BY <1>1, <1>3, <1>6, <1>8, <1>10, <1>11 DEF IInv, TypeOK, PipeInv, listenVars
<1>13. QED
  BY <1>6, <1>7, <1>8, <1>9, <1>12 DEF IInv

\* The server: a put of this device, and one of another.
LEMMA NewsType ==
    ASSUME TypeOK, NEW pa \in Paths, NEW v \in Values \cup {None}
    PROVE  /\ NewsOf(pa, v) \in Seq(Message)
           /\ \A i \in DOMAIN NewsOf(pa, v) : NewsOf(pa, v)[i].type = "data" /\ serving
<1>1. Data(pa, v) \in Message /\ Data(pa, v).type = "data"
  BY MessageType DEF Data
<1>2. CASE serving
  <2>1. NewsOf(pa, v) = <<Data(pa, v)>>
    BY <1>2 DEF NewsOf
  <2> HIDE DEF Data
  <2>2. QED
    BY <1>1, <1>2, <2>1
<1>3. CASE ~serving
  <2>1. NewsOf(pa, v) = <<>>
    BY <1>3 DEF NewsOf
  <2>2. QED
    BY <2>1
<1>4. QED
  BY <1>2, <1>3

LEMMA ServedInv ==
    ASSUME IInv, NEW s \in Seq(Message), inbox' = inbox \o s, connected[Device] \/ s = <<>>,
           \A i \in DOMAIN s : s[i].type # "listen",
           PipeInv', foreign' \subseteq Paths, foreignPuts' \in 0..MaxForeign, serving' \in BOOLEAN,
           serving' => serving,
           UNCHANGED <<outstandingPuts, putCounter, connected, tree, observers, registering,
                       mainQueue, authenticating, unackedListens, staleListens, listensSent,
                       ackVars>>
    PROVE  IInv'
<1>1. ListenInv' /\ inbox' \in Seq(Message)
  <2>1. CASE connected[Device]
    BY <2>1, ListenAppend DEF IInv
  <2>2. CASE ~connected[Device]
    <3>1. inbox \in Seq(Message)
      BY ListenTypes DEF IInv
    <3>2. inbox' = inbox
      BY <2>2, <3>1
    <3>3. ~serving /\ ~serving'
      BY <2>2 DEF IInv, ListenInv
    <3>4. QED
      BY <3>1, <3>2, <3>3 DEF IInv, ListenInv
  <2>3. QED
    BY <2>1, <2>2
<1>2. OrderInv' /\ AckInv'
  BY OrderKept DEF IInv, AckInv, ackVars
<1>3. TypeOK'
  BY <1>1 DEF IInv, TypeOK, PipeInv, ackVars
<1>4. QED
  BY <1>1, <1>2, <1>3 DEF IInv, Sound

LEMMA ProcessInv == IInv /\ Process => IInv'
<1> SUFFICES ASSUME IInv, Process
             PROVE  IInv'
  OBVIOUS
<1> DEFINE m == OldestRequest
           news == IF Q!Granted(m) THEN NewsOf(m.put.path, m.put.val) ELSE <<>>
           s == news \o <<[type |-> "answer"]>>
<1>1. /\ Q!Process(Device) /\ inbox' = inbox \o news \o <<[type |-> "answer"]>>
      /\ UNCHANGED <<tree, observers, registering, mainQueue, listenVars, ackVars,
                     foreign, foreignPuts>>
  BY DEF Process, screenVars, foreignVars
<1>2. /\ m \in Q!Request /\ PipeInv' /\ connected[Device]
      /\ UNCHANGED <<outstandingPuts, connected, signedIn, putCounter>>
  BY <1>1, ProcessPipe DEF IInv
<1>3. m.put.path \in Paths /\ m.put.val \in Values \cup {None}
  BY <1>2 DEF Q!Request, Q!Put
<1>4. news \in Seq(Message) /\ \A i \in DOMAIN news : news[i].type # "listen"
  <2>1. CASE Q!Granted(m)
    BY <1>3, <2>1, NewsType DEF IInv
  <2>2. CASE ~Q!Granted(m)
    BY <2>2
  <2>3. QED
    BY <2>1, <2>2
<1> HIDE DEF news, m
<1>5. /\ s \in Seq(Message)
      /\ \A i \in DOMAIN s : s[i].type # "listen"
  <2> DEFINE a == <<[type |-> "answer"]>>
  <2>1. a \in Seq(Message) /\ \A i \in DOMAIN a : a[i].type # "listen"
    BY MessageType
  <2> HIDE DEF a
  <2>2. QED
    BY <1>4, <2>1, ConcatFacts DEF a
<1>6. inbox' = inbox \o s
  <2> DEFINE a == <<[type |-> "answer"]>>
  <2>1. a \in Seq(Message) /\ inbox \in Seq(Message)
    BY MessageType DEF IInv, TypeOK
  <2>2. inbox' = (inbox \o news) \o a
    BY <1>1
  <2> HIDE DEF a
  <2>3. (inbox \o news) \o a = inbox \o (news \o a)
    BY <1>4, <2>1
  <2>4. QED
    BY <2>2, <2>3 DEF a
<1> HIDE DEF s
<1>7. /\ foreign' \subseteq Paths /\ foreignPuts' \in 0..MaxForeign
      /\ serving' \in BOOLEAN /\ (serving' => serving)
  BY <1>1 DEF IInv, TypeOK, listenVars
<1>8. UNCHANGED <<authenticating, unackedListens, staleListens, listensSent>>
  BY <1>1 DEF listenVars
<1>9. QED
  BY <1>1, <1>2, <1>5, <1>6, <1>7, <1>8, ServedInv

LEMMA ForeignInv ==
    ASSUME IInv, NEW pa \in Paths, NEW v \in Values \cup {None}, ForeignPut(pa, v)
    PROVE  IInv'
<1>1. /\ foreignPuts < MaxForeign /\ foreignPuts' = foreignPuts + 1
      /\ foreign' = foreign \cup {pa} /\ store' = [store EXCEPT ![pa] = v]
      /\ inbox' = inbox \o NewsOf(pa, v)
      /\ UNCHANGED <<outstandingPuts, wire, responses, connected, signedIn, putCounter,
                     disruptions, lastPut, writers, refused, died, processed>>
      /\ UNCHANGED <<tree, observers, registering, mainQueue, listenVars, ackVars>>
  BY DEF ForeignPut, deviceQueueVars, screenVars
<1>2. PipeInv'
  <2>1. store' \in Node
    BY <1>1 DEF IInv, PipeInv, Q!TypeOK, Node
  <2>2. QED
    BY <1>1, <2>1, PipeStands DEF IInv, deviceQueueVars
<1>3. foreign' \subseteq Paths /\ foreignPuts' \in 0..MaxForeign
  <2>1. MaxForeign \in Nat /\ foreignPuts \in 0..MaxForeign /\ foreign \subseteq Paths
    BY SyncTreeAssumption DEF IInv, TypeOK
  <2>2. QED
    BY <1>1, <2>1
<1>4. /\ NewsOf(pa, v) \in Seq(Message)
      /\ \A i \in DOMAIN NewsOf(pa, v) : NewsOf(pa, v)[i].type # "listen"
      /\ connected[Device] \/ NewsOf(pa, v) = <<>>
  <2>1. connected[Device] \/ ~serving
    BY DEF IInv, ListenInv
  <2>2. QED
    BY <2>1, NewsType DEF IInv, NewsOf
<1>5. serving' \in BOOLEAN /\ serving' = serving
  BY <1>1 DEF IInv, TypeOK, listenVars
<1>6. UNCHANGED <<authenticating, unackedListens, staleListens, listensSent>>
  BY <1>1 DEF listenVars
<1>7. QED
  BY <1>1, <1>2, <1>3, <1>4, <1>5, <1>6, ServedInv

\* The server takes a listen.
LEMMA TakeListenInv ==
    ASSUME IInv, NEW ok \in BOOLEAN, TakeListen(ok)
    PROVE  IInv'
<1> DEFINE whole == [type |-> "node", node |-> store]
           a == [type |-> "listen", ok |-> ok]
           s == IF ok THEN <<whole, a>> ELSE <<a>>
<1>t. /\ inbox \in Seq(Message) /\ store \in Node
      /\ unackedListens \in Nat /\ listensSent \in Nat
  BY ListenTypes DEF IInv, TypeOK, Q!TypeOK, Node
<1>m. whole \in Message /\ a \in Message
  BY <1>t, MessageType
<1>1. /\ connected[Device] /\ listensSent > 0 /\ listensSent' = listensSent - 1 /\ serving' = ok
      /\ inbox' = inbox \o (IF ok THEN <<whole>> ELSE <<>>) \o <<a>>
      /\ UNCHANGED <<queueVars, tree, observers, registering, mainQueue, authenticating,
                     unackedListens, staleListens, ackVars, foreign, foreignPuts>>
  BY DEF TakeListen, screenVars, foreignVars
<1>2. /\ s \in Seq(Message) /\ a.type = "listen" /\ a.ok = ok /\ whole.type = "node"
      /\ ok => Len(s) = 2 /\ s[1] = whole /\ s[2] = a /\ DOMAIN s = 1..2
      /\ ~ok => Len(s) = 1 /\ s[1] = a /\ DOMAIN s = 1..1
  <2> HIDE DEF whole, a
  <2>1. s \in Seq(Message) /\ (ok => Len(s) = 2 /\ s[1] = whole /\ s[2] = a /\ DOMAIN s = 1..2)
        /\ (~ok => Len(s) = 1 /\ s[1] = a /\ DOMAIN s = 1..1)
    BY <1>m
  <2>2. QED
    BY <2>1 DEF whole, a
<1> HIDE DEF whole, a
<1>3. inbox' = inbox \o s
  <2>1. CASE ok
    <3>1. inbox' = (inbox \o <<whole>>) \o <<a>>
      BY <1>1, <2>1
    <3>2. (inbox \o <<whole>>) \o <<a>> = inbox \o <<whole, a>>
      BY <1>t, <1>m, ConcatTwo
    <3>3. QED
      BY <2>1, <3>1, <3>2
  <2>2. CASE ~ok
    <3>1. inbox' = (inbox \o <<>>) \o <<a>>
      BY <1>1, <2>2
    <3>2. inbox \o <<>> = inbox
      BY <1>t
    <3>3. QED
      BY <2>2, <3>1, <3>2
  <2>3. QED
    BY <2>1, <2>2
<1> DEFINE n == Len(inbox)
           last == n + Len(s)
<1>5. /\ n \in Nat /\ DOMAIN inbox = 1..n /\ inbox' \in Seq(Message)
      /\ DOMAIN inbox' = 1..last /\ last \in Nat /\ last >= n + 1
      /\ \A i \in 1..n : inbox'[i] = inbox[i]
      /\ inbox'[last] = a
      /\ \A i \in 1..last : i > n /\ i # last => ok /\ inbox'[i] = whole
  <2>1. /\ n \in Nat /\ DOMAIN inbox = 1..n /\ Len(s) \in 1..2
        /\ inbox \o s \in Seq(Message) /\ Len(inbox \o s) = n + Len(s)
        /\ \A i \in 1..n : (inbox \o s)[i] = inbox[i]
        /\ \A i \in (n + 1)..(n + Len(s)) : (inbox \o s)[i] = s[i - n]
    BY <1>t, <1>2
  <2> DEFINE l == Len(s)
  <2>a. l \in Nat /\ l >= 1 /\ last = n + l /\ Len(inbox \o s) = last
    BY <2>1
  <2> HIDE DEF s, n, l
  <2>2. DOMAIN (inbox \o s) = 1..last /\ last \in Nat /\ last >= n + 1
    <3>1. DOMAIN (inbox \o s) = 1..Len(inbox \o s)
      BY <2>1
    <3>2. n + l \in Nat /\ n + l >= n + 1
      BY <2>1, <2>a
    <3>3. QED
      BY <2>a, <3>1, <3>2
  <2>3. (inbox \o s)[last] = a
    <3>1. last \in (n + 1)..(n + Len(s)) /\ last - n = Len(s)
      <4>1. n + l \in (n + 1)..(n + l) /\ (n + l) - n = l
        BY <2>1, <2>a
      <4>2. QED
        BY <2>a, <4>1 DEF l
    <3>2. s[Len(s)] = a
      BY <1>2
    <3>3. QED
      BY <2>1, <3>1, <3>2
  <2>4. ASSUME NEW i \in 1..last, i > n, i # last
        PROVE  ok /\ (inbox \o s)[i] = whole
    <3>1. i \in (n + 1)..(n + Len(s)) /\ i - n \in 1..Len(s) /\ i - n # Len(s)
      BY <2>1, <2>4
    <3>2. Len(s) = 2 /\ i - n = 1 /\ ok
      BY <1>2, <2>1, <3>1, SMTT(30)
    <3>3. QED
      BY <1>2, <2>1, <3>1, <3>2
  <2>5. QED
    BY <1>3, <2>1, <2>2, <2>3, <2>4
<1> HIDE DEF n, last, s
<1>6. /\ last \in DOMAIN inbox' /\ last \notin DOMAIN inbox
      /\ \A i \in DOMAIN inbox : i \in DOMAIN inbox' /\ inbox'[i] = inbox[i]
      /\ \A i \in DOMAIN inbox' :
            \/ i \in DOMAIN inbox
            \/ inbox'[i].type = "node"
            \/ i = last
  BY <1>2, <1>5
<1>7. Listens(inbox') = Listens(inbox) \cup {last} /\ last \notin Listens(inbox)
  BY <1>2, <1>5, <1>6 DEF Listens
<1>8. /\ Cardinality(Listens(inbox')) = Cardinality(Listens(inbox)) + 1
      /\ Cardinality(Listens(inbox)) \in Nat
  <2>1. IsFiniteSet(Listens(inbox))
    <3>1. Listens(inbox) \subseteq 1..n /\ IsFiniteSet(1..n)
      BY <1>5, FS_Interval DEF Listens
    <3>2. QED
      BY <3>1, FS_Subset
  <2>2. QED
    BY <1>7, <2>1, FS_AddElement, FS_CardinalityType
<1>9. unackedListens = listensSent' + Cardinality(Listens(inbox')) /\ listensSent' \in Nat
  <2>1. unackedListens = listensSent + Cardinality(Listens(inbox))
    BY DEF IInv, ListenInv
  <2> DEFINE c == Cardinality(Listens(inbox))
             d == Cardinality(Listens(inbox'))
  <2>2. d = c + 1 /\ c \in Nat /\ unackedListens = listensSent + c
    BY <1>8, <2>1
  <2> HIDE DEF c, d
  <2>3. listensSent - 1 \in Nat /\ unackedListens = (listensSent - 1) + d
    BY <1>t, <1>1, <2>2
  <2>4. QED
    BY <1>1, <2>3 DEF d
<1>10. Paired(inbox')
  <2> SUFFICES ASSUME NEW j \in Listens(inbox'), inbox'[j].ok, j > 1
               PROVE  inbox'[j - 1].type = "node"
    BY DEF Paired
  <2>1. CASE j \in Listens(inbox)
    <3>1. j - 1 \in DOMAIN inbox /\ j \in DOMAIN inbox
      BY <1>5, <2>1 DEF Listens
    <3>2. inbox'[j - 1] = inbox[j - 1] /\ inbox'[j] = inbox[j]
      BY <1>6, <3>1
    <3>3. QED
      BY <2>1, <3>2 DEF IInv, ListenInv, Paired
  <2>2. CASE j = last
    <3>1. ok
      BY <1>2, <1>5, <2>2
    <3>2. last = n + 2 /\ n + 1 \in 1..last /\ n + 1 > n /\ n + 1 # last
      <4>1. Len(s) = 2
        BY <1>2, <3>1
      <4>2. last = n + 2
        BY <4>1 DEF last
      <4>3. QED
        BY <1>5, <4>2
    <3>3. j - 1 = n + 1
      BY <1>5, <2>2, <3>2
    <3>4. QED
      BY <1>2, <1>5, <3>2, <3>3
  <2>3. QED
    BY <1>7, <2>1, <2>2
<1>11. inbox' # <<>> /\ inbox'[1].type = "listen" /\ inbox'[1].ok
        => inbox # <<>> /\ inbox'[1] = inbox[1]
  <2>1. CASE inbox = <<>>
    <3>1. n = 0 /\ 1 \in 1..last /\ 1 > n
      BY <1>5, <2>1 DEF n
    <3>2. 1 = last => ~ok
      BY <1>2, <1>5, <3>1 DEF last
    <3>3. 1 # last => inbox'[1] = whole
      BY <1>5, <3>1
    <3>4. 1 = last => inbox'[1] = a
      BY <1>5
    <3>5. QED
      BY <1>2, <3>2, <3>3, <3>4
  <2>2. CASE inbox # <<>>
    <3>1. 1 \in DOMAIN inbox
      BY <1>t, <2>2
    <3>2. QED
      BY <1>6, <2>2, <3>1
  <2>3. QED
    BY <2>1, <2>2
<1>c. connected' = connected
  BY <1>1 DEF queueVars
<1>12. ListenInv'
  <2>1. UNCHANGED <<tree, observers, authenticating, unackedListens, staleListens>>
    BY <1>1
  <2>2. /\ staleListens <= unackedListens
        /\ ~tree.viewed => staleListens = unackedListens /\ ~tree.complete
        /\ ~authenticating
        /\ tree.viewed => staleListens < unackedListens \/ (tree.complete /\ unackedListens = 0)
        /\ tree.viewed <=> observers[Ref] > 0
        /\ inbox # <<>> /\ inbox[1].type = "listen" /\ inbox[1].ok /\ staleListens = 0
            => tree.complete
    BY <1>1 DEF IInv, ListenInv
  <2>3. inbox' # <<>> /\ inbox'[1].type = "listen" /\ inbox'[1].ok /\ staleListens = 0
            => tree.complete
    BY <1>11, <2>2
  <2>4. connected'[Device]
    BY <1>1, <1>c
  <2> HIDE DEF n, last
  <2>5. QED
    BY <1>9, <1>10, <2>1, <2>2, <2>3, <2>4 DEF ListenInv
<1>13. AckInv'
  BY <1>1, <1>c DEF IInv, AckInv, ackVars
<1>14. PipeInv' /\ OrderInv'
  BY <1>1, StoreKept, OrderKept DEF IInv, queueVars, ackVars
<1>15. TypeOK'
  BY <1>1, <1>5, <1>9, <1>14 DEF IInv, TypeOK, PipeInv, ackVars
<1>16. QED
  BY <1>1, <1>12, <1>13, <1>14, <1>15 DEF IInv, Sound

LEMMA RevokeListenInv == IInv /\ RevokeListen => IInv'
<1> SUFFICES ASSUME IInv, RevokeListen
             PROVE  IInv'
  OBVIOUS
<1> DEFINE a == [type |-> "revoke"]
           s == <<a>>
<1>1. /\ serving /\ serving' = FALSE /\ inbox' = Append(inbox, a)
      /\ UNCHANGED <<queueVars, tree, observers, registering, mainQueue, authenticating,
                     unackedListens, staleListens, listensSent, ackVars, foreign, foreignPuts>>
  BY DEF RevokeListen, screenVars, foreignVars
<1>2. a \in Message /\ a.type # "listen" /\ inbox \in Seq(Message)
  BY MessageType DEF IInv, TypeOK
<1> HIDE DEF a
<1>3. s \in Seq(Message) /\ \A i \in DOMAIN s : s[i].type # "listen"
  BY <1>2
<1>4. inbox' = inbox \o s
  BY <1>1, <1>2
<1> HIDE DEF s
<1>5. connected[Device] /\ serving' \in BOOLEAN
  BY <1>1 DEF IInv, ListenInv
<1>6. PipeInv'
  BY <1>1, StoreKept
<1>7. foreign' \subseteq Paths /\ foreignPuts' \in 0..MaxForeign
  BY <1>1 DEF IInv, TypeOK
<1>8. UNCHANGED <<outstandingPuts, putCounter, connected>>
  BY <1>1 DEF queueVars
<1>9. QED
  BY <1>1, <1>3, <1>4, <1>5, <1>6, <1>7, <1>8, ServedInv

-----------------------------------------------------------------------------
(* The theorems. *)

LEMMA NextInv == IInv /\ [Next]_vars => IInv'
<1> SUFFICES ASSUME IInv, [Next]_vars
             PROVE  IInv'
  OBVIOUS
<1>1. CASE ackPuts
  BY <1>1, AckPutsInv
<1>2. CASE ~acking /\ OnQueue
  <2>1. CASE addEventRegistration
    BY <1>2, <2>1, RegisterInv
  <2>2. CASE restoreAuth \/ Authenticated \/ AuthFailed \/ Disconnect
    BY <1>2, <2>2, ConnectInv, DisconnectInv
  <2>3. CASE SignIn \/ SignOut
    BY <2>3, SessionInv
  <2>4. CASE Receive
    BY <1>2, <2>4, DataInv, NodeInv, ReceiveListenInv, StaleInv, RevokeInv, AnswerInv
       DEF Receive
  <2>5. CASE \E pa \in Paths, v \in Values \cup {None} : set([path |-> pa, val |-> v])
    BY <2>5, SetInv
  <2>6. QED
    BY <1>2, <2>1, <2>2, <2>3, <2>4, <2>5 DEF OnQueue
<1>3. CASE Observe \/ Deliver \/ Process \/ RevokeListen
  BY <1>3, ObserveInv, DeliverInv, ProcessInv, RevokeListenInv
<1>4. CASE \E ok \in BOOLEAN : TakeListen(ok)
  BY <1>4, TakeListenInv
<1>5. CASE \E pa \in Paths, v \in Values \cup {None} : v # store[pa] /\ ForeignPut(pa, v)
  BY <1>5, ForeignInv
<1>6. CASE UNCHANGED vars
  BY <1>6, StutterInv
<1>7. QED
  BY <1>1, <1>2, <1>3, <1>4, <1>5, <1>6 DEF Next

LEMMA AlwaysInv == Spec => []IInv
<1>1. Init => IInv
  BY InitInv
<1>2. IInv /\ [Next]_vars => IInv'
  BY NextInv
<1>3. QED
  BY <1>1, <1>2, PTL DEF Spec

\* The variables of the client, the connection and the server keep their types.
THEOREM SyncTypes == Spec => []TypeOK
<1>1. IInv => TypeOK
  BY DEF IInv
<1>2. QED
  BY <1>1, AlwaysInv, PTL

\* Each write of the write tree waits for one answer, its put's or one that was
\* put off, and the writes are in order: no sequence of sets, answers, lost
\* connections and resent listens leaves a write that nothing will remove.
THEOREM SyncWritesAccounted == Spec => []WritesAccounted
<1>1. IInv => WritesAccounted
  BY DEF IInv, OrderInv
<1>2. QED
  BY <1>1, AlwaysInv, PTL

\* The compound write that FWriteTree keeps up to date write by write is the
\* layering of all pending writes.
THEOREM SyncVisibleExact == Spec => []VisibleWritesExact
<1>1. IInv => VisibleWritesExact
  BY DEF IInv, Sound, VisibleWritesExact
<1>2. QED
  BY <1>1, AlwaysInv, PTL

\* What the observers were told is the server's last news with the pending
\* writes on top, whichever operation last touched the view.
THEOREM SyncEventSnapExact == Spec => []EventSnapExact
<1>1. IInv => EventSnapExact
  BY DEF IInv, Sound, EventSnapExact
<1>2. QED
  BY <1>1, AlwaysInv, PTL

-----------------------------------------------------------------------------
(* The client is, to the screens, the listener of Listener.               *)

\* What the screens could be told of the location: the view, and while there
\* is none, the pending writes.
Shown == IF tree.viewed THEN tree.eventSnap ELSE Apply(tree.visibleWrites, EmptyNode)

LEMMA ShownType ==
    ASSUME tree \in Tree
    PROVE  Shown \in Node
BY TreeFields, ApplyType, EmptyType DEF Shown

\* The screens see nothing of most steps of the connection and the server.
LEMMA Unseen ==
    ASSUME UNCHANGED <<tree, observers, registering, mainQueue>>
    PROVE  UNCHANGED K!listenerVars
BY DEF K!listenerVars

\* Each event once to each observer.
LEMMA EachIs == \A s : Each(s) = K!ToEach(s, observers[Ref])
BY DEF Each, K!ToEach

LEMMA NoObserver ==
    ASSUME observers[Ref] = 0, NEW s \in Seq(Event)
    PROVE  Each(s) = <<>>
<1>1. Len(s) \in Nat
  OBVIOUS
<1>2. Len(s) * 0 = 0
  BY <1>1
<1>3. QED
  BY <1>2 DEF Each

\* Both instances of the community modules are the same.
LEMMA SameListing == \A S : K!SetToSeqs(S) = SetToSeqs(S) /\ K!SetToSeq(S) = SetToSeq(S)
<1>1. \A S : K!Cardinality(S) = Cardinality(S)
  BY DEF K!Cardinality, Cardinality
<1>2. \A S : K!SetToSeqs(S) = SetToSeqs(S)
  BY <1>1 DEF K!SetToSeqs, SetToSeqs
<1>3. \A S : K!SetToSeq(S) = SetToSeq(S)
  BY <1>1 DEF K!SetToSeq, SetToSeq, K!IsInjective, IsInjective
<1>4. QED
  BY <1>2, <1>3

\* Update, for the one location there is.
LEMMA UpdateIs ==
    ASSUME NEW new,
           NEW added, added = {K!ChildAdded(Ref, k, new[k]) :
                                k \in {k \in Paths : Shown[k] = None /\ new[k] # None}},
           NEW order \in SetToSeqs(added),
           mainQueue' = mainQueue \o K!ToEach(order, observers[Ref]),
           Shown' = new, UNCHANGED <<observers, registering>>
    PROVE  K!Update(Ref, new)
<1> DEFINE c == [r \in {Ref} |-> IF tree.viewed THEN tree.eventSnap
                                 ELSE Apply(tree.visibleWrites, EmptyNode)]
<1>1. c[Ref] = Shown
  BY DEF Shown
<1>2. c' = [c EXCEPT ![Ref] = new]
  BY DEF Shown
<1>3. order \in K!SetToSeqs(added)
  BY SameListing
<1> HIDE DEF c
<1>4. added = {K!ChildAdded(Ref, k, new[k]) : k \in {k \in Paths : c[Ref][k] = None /\ new[k] # None}}
  BY <1>1
<1>5. \E o \in K!SetToSeqs({K!ChildAdded(Ref, k, new[k]) :
                k \in {k \in Paths : c[Ref][k] = None /\ new[k] # None}}) :
        mainQueue' = mainQueue \o K!ToEach(o, observers[Ref])
  BY <1>3, <1>4
<1>6. QED
  BY <1>2, <1>5 DEF K!Update, c

\* An operation on the tree under a view that stays is an update: the screens
\* are told of exactly the children that appear.
LEMMA RaisedUpdate ==
    ASSUME IInv, tree' \in Tree, tree'.viewed = tree.viewed,
           ~tree.viewed => tree'.eventSnap = EmptyNode,
           mainQueue' = mainQueue \o EventsOf(tree.eventSnap, tree'.eventSnap),
           UNCHANGED <<observers, registering>>
    PROVE  K!Next
<1> DEFINE new == Shown'
           added == {ChildAdded(pa, new[pa]) : pa \in Children(new) \ Children(Shown)}
           order == SetToSeq(added)
<1>1. /\ tree \in Tree /\ Sound(tree) /\ Shown \in Node /\ new \in Node
      /\ tree.eventSnap \in Node /\ tree'.eventSnap \in Node
      /\ tree.viewed \in BOOLEAN
  <2>1. tree \in Tree /\ Sound(tree)
    BY DEF IInv, TypeOK
  <2>2. Shown' \in Node
    BY TreeFields, ApplyType, EmptyType DEF Shown
  <2>3. QED
    BY <2>1, <2>2, TreeFields, ShownType
<1>2. order \in Seq(Event) /\ order \in SetToSeqs(added)
  <2>1. Children(new) \ Children(Shown) \in SUBSET Paths
        /\ \A pa \in Children(new) \ Children(Shown) : new[pa] # None
    BY DEF Children
  <2> HIDE DEF new
  <2>2. QED
    BY <1>1, <2>1, EventsType
<1>3. mainQueue' = mainQueue \o K!ToEach(order, observers[Ref])
  <2>1. CASE tree.viewed
    <3>1. Shown = tree.eventSnap /\ new = tree'.eventSnap
      BY <2>1 DEF Shown
    <3>2. EventsOf(tree.eventSnap, tree'.eventSnap) = Each(order)
      BY <3>1 DEF EventsOf
    <3>3. QED
      BY <3>2, EachIs
  <2>2. CASE ~tree.viewed
    <3>1. observers[Ref] = 0
      BY <2>2, ListenTypes DEF IInv, ListenInv
    <3>2. Each(order) = <<>>
      BY <1>2, <3>1, NoObserver
    <3>3. EventsOf(tree.eventSnap, tree'.eventSnap) = <<>>
      <4> DEFINE S == {ChildAdded(pa, tree'.eventSnap[pa]) :
                        pa \in Children(tree'.eventSnap) \ Children(tree.eventSnap)}
      <4>1. Children(tree'.eventSnap) \ Children(tree.eventSnap) \in SUBSET Paths
            /\ \A pa \in Children(tree'.eventSnap) \ Children(tree.eventSnap) : tree'.eventSnap[pa] # None
        BY DEF Children
      <4>2. SetToSeq(S) \in Seq(Event)
        BY <1>1, <4>1, EventsType
      <4>3. QED
        BY <3>1, <4>2, NoObserver DEF EventsOf
    <3>4. K!ToEach(order, observers[Ref]) = <<>>
      BY <3>2, EachIs
    <3>5. QED
      BY <3>3, <3>4
  <2>3. QED
    BY <1>1, <2>1, <2>2
<1>4. added = {K!ChildAdded(Ref, k, new[k]) :
                k \in {k \in Paths : Shown[k] = None /\ new[k] # None}}
  <2>1. Children(new) \ Children(Shown) = {k \in Paths : Shown[k] = None /\ new[k] # None}
    BY DEF Children
  <2> HIDE DEF new
  <2>2. QED
    BY <2>1 DEF ChildAdded, K!ChildAdded
<1>5. K!Update(Ref, new)
  <2>1. Shown' = new
    OBVIOUS
  <2> HIDE DEF order, added, new
  <2>2. QED
    BY <1>2, <1>3, <1>4, <2>1, UpdateIs
<1>6. new \in [Paths -> Values \cup {None}]
  BY <1>1 DEF Node
<1> HIDE DEF new
<1>7. QED
  BY <1>5, <1>6 DEF K!Next

LEMMA SetSeen ==
    ASSUME IInv, NEW w \in [path : Paths, val : Values \cup {None}], set(w)
    PROVE  K!Next
<1> DEFINE pt == [idx |-> putCounter[Device], path |-> w.path, val |-> w.val]
<1>1. /\ tree' = applyUserOverwrite(tree, pt)
      /\ mainQueue' = mainQueue \o EventsOf(tree.eventSnap, tree'.eventSnap)
      /\ UNCHANGED <<observers, registering>>
  BY DEF set, Raise
<1>2. pt \in Q!Put
  BY SetPipe DEF IInv, set
<1> HIDE DEF pt
<1>3. tree \in Tree /\ Sound(tree)
  BY DEF IInv, TypeOK
<1>4. tree' \in Tree /\ Sound(tree') /\ tree'.viewed = tree.viewed
  BY <1>1, <1>2, <1>3, UserOverwrite
<1>5. QED
  BY <1>1, <1>4, RaisedUpdate DEF Sound

LEMMA RegisterSeen == IInv /\ addEventRegistration => K!Next
<1> SUFFICES ASSUME IInv, addEventRegistration
             PROVE  K!Next
  OBVIOUS
<1>1. /\ registering # <<>> /\ registering' = Tail(registering)
      /\ observers' = [observers EXCEPT ![Ref] = IF @ < MaxObservers THEN @ + 1 ELSE @]
      /\ tree' = IF tree.viewed THEN tree ELSE createView(tree)
      /\ mainQueue' = mainQueue \o
            SetToSeq({ChildAdded(pa, tree'.eventSnap[pa]) : pa \in Children(tree'.eventSnap)})
  BY DEF addEventRegistration
<1>2. tree'.eventSnap = Shown /\ Shown' = Shown
  <2>1. tree \in Tree /\ Sound(tree) /\ tree.viewed \in BOOLEAN
    BY TreeFields DEF IInv, TypeOK
  <2>2. CASE tree.viewed
    BY <1>1, <2>2 DEF Shown
  <2>3. CASE ~tree.viewed
    BY <1>1, <2>1, <2>3, CreateView DEF Shown
  <2>4. QED
    BY <2>1, <2>2, <2>3
<1>3. Head(registering) = Ref
  BY <1>1 DEF IInv, TypeOK
<1> DEFINE c == [r \in {Ref} |-> IF tree.viewed THEN tree.eventSnap
                                 ELSE Apply(tree.visibleWrites, EmptyNode)]
<1>4. c[Ref] = Shown /\ c' = c
  BY <1>2 DEF Shown
<1>5. K!Children(Ref) = Children(Shown)
  BY <1>4 DEF K!Children, Children
<1>6. {K!ChildAdded(Ref, k, c[Ref][k]) : k \in K!Children(Ref)}
        = {ChildAdded(pa, tree'.eventSnap[pa]) : pa \in Children(tree'.eventSnap)}
  BY <1>2, <1>4, <1>5 DEF K!ChildAdded, ChildAdded
<1>7. mainQueue' = mainQueue \o
        K!SetToSeq({K!ChildAdded(Ref, k, c[Ref][k]) : k \in K!Children(Ref)})
  BY <1>1, <1>6, SameListing
<1> HIDE DEF c
<1>8. K!AddEventRegistration
  BY <1>1, <1>3, <1>4, <1>7 DEF K!AddEventRegistration, c
<1>9. QED
  BY <1>8 DEF K!Next

\* The view goes: the screens keep what this device wrote itself, and hear of
\* nothing any more.
LEMMA DroppedSeen ==
    ASSUME IInv, tree.viewed, tree' = dropView(tree),
           observers' = [observers EXCEPT ![Ref] = 0],
           UNCHANGED <<registering, mainQueue>>
    PROVE  K!Next
<1>1. tree \in Tree /\ Sound(tree) /\ tree.visibleWrites \in CompoundWrite
  BY TreeFields DEF IInv, TypeOK
<1>2. ~tree'.viewed /\ tree'.visibleWrites = tree.visibleWrites
  BY <1>1, DropView
<1>3. Shown' = Apply(tree.visibleWrites, EmptyNode)
  BY <1>2 DEF Shown
<1>4. Shown = Apply(tree.visibleWrites, tree.serverSnap)
  BY <1>1 DEF Shown, Sound
<1>5. Shown' \in Node
  BY <1>1, <1>3, ApplyType, EmptyType
<1>6. \A k \in Paths : Shown'[k] \in {Shown[k], None}
  BY <1>3, <1>4 DEF Apply, EmptyNode
<1>7. observers[Ref] > 0
  BY DEF IInv, ListenInv
<1> DEFINE c == [r \in {Ref} |-> IF tree.viewed THEN tree.eventSnap
                                 ELSE Apply(tree.visibleWrites, EmptyNode)]
           left == Shown'
<1>8. c[Ref] = Shown /\ c' = [c EXCEPT ![Ref] = left]
  BY DEF Shown
<1>9. left \in [Paths -> Values \cup {None}] /\ \A k \in Paths : left[k] \in {c[Ref][k], None}
  BY <1>5, <1>6, <1>8 DEF Node
<1> HIDE DEF c, left
<1>10. K!Forget(Ref, left)
  BY <1>7, <1>8, <1>9 DEF K!Forget, c
<1>11. QED
  BY <1>9, <1>10 DEF K!Next

LEMMA NothingRaised ==
    ASSUME IInv, NEW old
    PROVE  EventsOf(old, EmptyNode) = <<>>
<1>1. {ChildAdded(pa, EmptyNode[pa]) : pa \in Children(EmptyNode) \ Children(old)} = {}
  BY DEF Children, EmptyNode
<1>2. SetToSeq({}) \in Seq({})
  BY FS_EmptySet, Listed
<1>3. SetToSeq({}) = <<>>
  BY <1>2
<1>4. EventsOf(old, EmptyNode) = Each(<<>>)
  BY <1>1, <1>3 DEF EventsOf
<1>5. Len(<<>>) * observers[Ref] = 0
  BY ListenTypes DEF IInv
<1>6. QED
  BY <1>4, <1>5 DEF Each

\* There is a view exactly while there are observers.
LEMMA ViewKept ==
    ASSUME IInv, IInv', UNCHANGED observers
    PROVE  tree'.viewed = tree.viewed
<1>1. (tree.viewed <=> observers[Ref] > 0) /\ (tree'.viewed <=> observers'[Ref] > 0)
  BY DEF IInv, ListenInv
<1>2. tree.viewed \in BOOLEAN /\ tree'.viewed \in BOOLEAN
  BY TreeFields DEF IInv, TypeOK
<1>3. QED
  BY <1>1, <1>2

LEMMA ReceiveSeen ==
    ASSUME IInv, IInv', ~acking, Receive
    PROVE  K!Next \/ UNCHANGED K!listenerVars
<1>1. /\ tree \in Tree /\ Sound(tree) /\ tree' \in Tree /\ Sound(tree')
      /\ mainQueue \in Seq(Event)
      /\ observers \in [{Ref} -> 0..MaxObservers]
  BY DEF IInv, TypeOK
<1>2. inbox # <<>> => Head(inbox) = inbox[1] /\ 1 \in DOMAIN inbox
  BY ListenTypes, TailFacts DEF IInv
<1>3. CASE \/ ReceiveData \/ ReceiveNode \/ (ReceiveListen /\ Head(inbox).ok)
           \/ (ReceiveAnswer /\ ~Deferred)
  <2>1. /\ mainQueue' = mainQueue \o EventsOf(tree.eventSnap, tree'.eventSnap)
        /\ UNCHANGED <<observers, registering>>
    BY <1>3 DEF ReceiveData, ReceiveNode, ReceiveListen, ReceiveAnswer, Raise
  <2>2. tree'.viewed = tree.viewed
    BY <2>1, ViewKept
  <2>3. QED
    BY <1>1, <2>1, <2>2, RaisedUpdate DEF Sound
<1>4. CASE (ReceiveListen /\ ~Head(inbox).ok) \/ ReceiveRevoke
  <2>1. /\ tree' = dropView(tree)
        /\ mainQueue' = mainQueue \o EventsOf(tree.eventSnap, tree'.eventSnap)
        /\ observers' = [observers EXCEPT ![Ref] = 0] /\ UNCHANGED registering
    BY <1>4 DEF ReceiveListen, ReceiveRevoke, Drop, Raise
  <2>2. tree'.eventSnap = EmptyNode /\ ~tree'.viewed
    BY <1>1, <2>1, DropView
  <2>3. CASE tree.viewed
    <3>1. mainQueue' = mainQueue \o <<>>
      BY <2>1, <2>2, NothingRaised
    <3>2. mainQueue' = mainQueue
      BY <1>1, <3>1
    <3>3. QED
      BY <2>1, <2>3, <3>2, DroppedSeen
  <2>4. CASE ~tree.viewed
    <3>1. observers[Ref] = 0
      BY <2>4, ListenTypes DEF IInv, ListenInv
    <3>2. observers' = observers
      BY <1>1, <2>1, <3>1
    <3>3. tree'.viewed = tree.viewed
      BY <3>2, ViewKept
    <3>4. QED
      BY <1>1, <2>1, <2>2, <3>2, <3>3, RaisedUpdate
  <2>5. QED
    BY <2>3, <2>4
<1>5. CASE ReceiveStale \/ (ReceiveAnswer /\ Deferred)
  <2>1. UNCHANGED <<tree, observers, registering, mainQueue>>
    BY <1>5 DEF ReceiveStale, ReceiveAnswer, screenVars
  <2>2. QED
    BY <2>1, Unseen
<1>6. QED
  BY <1>3, <1>4, <1>5 DEF Receive

LEMMA AckSeen ==
    ASSUME IInv, IInv', ackPuts
    PROVE  K!Next
<1>1. tree' \in Tree /\ Sound(tree') /\ tree \in Tree /\ Sound(tree)
  BY DEF IInv, TypeOK
<1>2. /\ mainQueue' = mainQueue \o EventsOf(tree.eventSnap, tree'.eventSnap)
      /\ UNCHANGED <<observers, registering>>
  BY DEF ackPuts, Raise
<1>3. tree'.viewed = tree.viewed
  BY <1>2, ViewKept
<1>4. QED
  BY <1>1, <1>2, <1>3, RaisedUpdate DEF Sound

LEMMA QueueSeen ==
    ASSUME IInv, Observe \/ Deliver
    PROVE  K!Next
<1> DEFINE c == [r \in {Ref} |-> IF tree.viewed THEN tree.eventSnap
                                 ELSE Apply(tree.visibleWrites, EmptyNode)]
<1>1. CASE Observe
  <2>1. /\ Len(mainQueue) + Len(registering) <= MaxQueue
        /\ registering' = Append(registering, Ref)
        /\ UNCHANGED <<tree, observers, mainQueue>>
    BY <1>1 DEF Observe
  <2>2. UNCHANGED c
    BY <2>1
  <2>3. K!Observe(Ref)
    BY <2>1, <2>2 DEF K!Observe
  <2>4. QED
    BY <2>3 DEF K!Next
<1>2. CASE Deliver
  <2>1. /\ mainQueue # <<>> /\ mainQueue' = Tail(mainQueue)
        /\ UNCHANGED <<tree, observers, registering>>
    BY <1>2 DEF Deliver
  <2>2. UNCHANGED c
    BY <2>1
  <2>3. K!Deliver
    BY <2>1, <2>2 DEF K!Deliver
  <2>4. QED
    BY <2>3 DEF K!Next
<1>3. QED
  BY <1>1, <1>2

LEMMA InitSeen == Init => K!Init
<1> SUFFICES ASSUME Init
             PROVE  K!Init
  OBVIOUS
<1>1. ~tree.viewed /\ tree.visibleWrites = <<>>
  BY DEF Init
<1>2. Apply(<<>>, EmptyNode) = EmptyNode
  BY DEF Apply, EmptyNode
<1>3. [r \in {Ref} |-> IF tree.viewed THEN tree.eventSnap
                       ELSE Apply(tree.visibleWrites, EmptyNode)]
        = [r \in {Ref} |-> [k \in Paths |-> None]]
  BY <1>1, <1>2 DEF EmptyNode
<1>4. observers = [r \in {Ref} |-> 0] /\ registering = <<>> /\ mainQueue = <<>>
  BY DEF Init
<1>5. QED
  BY <1>3, <1>4 DEF K!Init

LEMMA StepSeen ==
    ASSUME IInv, IInv', [Next]_vars
    PROVE  [K!Next]_(K!listenerVars)
<1>1. CASE ackPuts
  BY <1>1, AckSeen
<1>2. CASE ~acking /\ OnQueue
  <2>1. CASE addEventRegistration
    BY <2>1, RegisterSeen
  <2>2. CASE restoreAuth \/ Authenticated \/ AuthFailed \/ Disconnect \/ SignIn \/ SignOut
    <3>1. UNCHANGED <<tree, observers, registering, mainQueue>>
      BY <2>2 DEF restoreAuth, Authenticated, restoreState, AuthFailed, Disconnect, onDisconnect,
           SignIn, SignOut, screenVars
    <3>2. QED
      BY <3>1, Unseen
  <2>3. CASE Receive
    BY <1>2, <2>3, ReceiveSeen
  <2>4. CASE \E pa \in Paths, v \in Values \cup {None} : set([path |-> pa, val |-> v])
    BY <2>4, SetSeen
  <2>5. QED
    BY <1>2, <2>1, <2>2, <2>3, <2>4 DEF OnQueue
<1>3. CASE Observe \/ Deliver
  BY <1>3, QueueSeen
<1>4. CASE \/ Process \/ RevokeListen \/ UNCHANGED vars
           \/ \E ok \in BOOLEAN : TakeListen(ok)
           \/ \E pa \in Paths, v \in Values \cup {None} : v # store[pa] /\ ForeignPut(pa, v)
  <2>1. UNCHANGED <<tree, observers, registering, mainQueue>>
    BY <1>4 DEF Process, RevokeListen, TakeListen, ForeignPut, vars, screenVars
  <2>2. QED
    BY <2>1, Unseen
<1>5. QED
  BY <1>1, <1>2, <1>3, <1>4 DEF Next

\* To the screens the client is the simple listener: whatever puts, news, cut
\* connections, resent listens and answers that were put off do to the view,
\* each child that appears is told once to each observer, and no other is.
THEOREM SyncImplementsListener == Spec => ImplementsListener
<1>1. Init => K!Init
  BY InitSeen
<1>2. IInv /\ IInv' /\ [Next]_vars => [K!Next]_(K!listenerVars)
  BY StepSeen
<1>3. Spec => K!Spec
  BY <1>1, <1>2, AlwaysInv, PTL DEF Spec, K!Spec
<1>4. QED
  BY <1>3 DEF ImplementsListener

-----------------------------------------------------------------------------
(* What the operations do to the pending writes and the news of the view.  *)

SameWrites(u, t) == u.allWrites = t.allWrites /\ u.visibleWrites = t.visibleWrites

LEMMA OverwriteSnap ==
    ASSUME NEW t \in Tree, NEW pa \in Paths, NEW v \in Values \cup {None}
    PROVE  LET u == applyServerOverwrite(t, pa, v)
           IN  /\ u.serverSnap = [t.serverSnap EXCEPT ![pa] = v] /\ SameWrites(u, t)
               /\ u.viewed = t.viewed /\ u.complete = t.complete
BY TreeFields DEF applyServerOverwrite, SameWrites

LEMMA UserSnap ==
    ASSUME NEW t \in Tree, NEW pt \in Q!Put
    PROVE  LET u == applyUserOverwrite(t, pt)
           IN  /\ u.serverSnap = t.serverSnap /\ u.allWrites = Append(t.allWrites, pt)
               /\ u.visibleWrites = With(t.visibleWrites, pt.path, pt.val)
               /\ u.viewed = t.viewed /\ u.complete = t.complete
BY TreeFields DEF applyUserOverwrite

LEMMA NodeSnap ==
    ASSUME NEW t \in Tree, NEW node \in Node
    PROVE  LET u == applyServerNode(t, node)
           IN  /\ u.serverSnap = node /\ SameWrites(u, t)
               /\ u.viewed = t.viewed /\ u.complete = TRUE
BY TreeFields DEF applyServerNode, SameWrites

LEMMA SnapFacts ==
    ASSUME NEW t \in Tree
    PROVE  /\ LET u == applyListenComplete(t)
              IN  /\ u.serverSnap = t.serverSnap /\ SameWrites(u, t)
                  /\ u.viewed = t.viewed /\ u.complete = TRUE
           /\ LET u == createView(t)
              IN  /\ u.serverSnap = t.serverSnap /\ SameWrites(u, t)
                  /\ u.viewed = TRUE /\ u.complete = t.complete
           /\ LET u == dropView(t)
              IN  SameWrites(u, t) /\ u.viewed = FALSE /\ u.complete = FALSE
BY TreeFields DEF applyListenComplete, createView, dropView, SameWrites

\* An answer tells nothing of the store.
LEMMA AckSnap ==
    ASSUME NEW t \in Tree, Sound(t), t.allWrites # <<>>,
           NEW r \in Q!Response, IndexOf(t.allWrites, r.put.idx) = 1
    PROVE  ackWrite(t, r).serverSnap = t.serverSnap
<1> DEFINE u == removeWriteId(t, 1)
           pa == t.allWrites[1].path
<1>1. u \in Tree /\ u.serverSnap = t.serverSnap /\ u.serverSnap \in Node
  BY RemoveFirstWrite, TreeFields
<1>2. pa \in Paths
  <2>1. t.allWrites[1] \in Q!Put
    BY TreeFields, TailFacts
  <2>2. QED
    BY <2>1 DEF Q!Put
<1>3. u.serverSnap[pa] \in Values \cup {None}
  BY <1>1, <1>2 DEF Node
<1>4. applyServerOverwrite(u, pa, u.serverSnap[pa]).serverSnap = t.serverSnap
  <2> HIDE DEF u, pa
  <2>1. applyServerOverwrite(u, pa, u.serverSnap[pa]).serverSnap = [u.serverSnap EXCEPT ![pa] = u.serverSnap[pa]]
    BY <1>1, <1>2, <1>3, OverwriteSnap
  <2>2. QED
    BY <1>1, <2>1 DEF Node
<1>5. [u EXCEPT !.eventSnap[pa] = u.serverSnap[pa]].serverSnap = t.serverSnap
  BY <1>1, TreeFields
<1>6. ackUserWrite(t, 1).serverSnap = t.serverSnap
  BY <1>1, <1>4 DEF ackUserWrite
<1>7. revertUserWrite(t, 1).serverSnap = t.serverSnap
  BY <1>1, <1>5 DEF revertUserWrite
<1>8. QED
  BY <1>6, <1>7 DEF ackWrite

\* The types those steps are about.
LEMMA InboxTypes ==
    ASSUME IInv
    PROVE  /\ inbox \in Seq(Message) /\ responses[Device] \in SUBSET Q!Response
           /\ serving \in BOOLEAN /\ store \in Node /\ tree \in Tree
BY DEF IInv, TypeOK, Q!TypeOK, Node

-----------------------------------------------------------------------------
(* What a step does to the pending writes.                                 *)

\* The puts that have an answer to come or to use: each is a pending write.
Expected == outstandingPuts[Device] \cup {putsToAck[j].put : j \in DOMAIN putsToAck}
IssuedInv == \A pt \in Expected : \E i \in DOMAIN tree.allWrites : tree.allWrites[i] = pt

\* A put pt is issued.
Issues(pt) ==
    /\ pt \in Q!Put
    /\ tree'.allWrites = Append(tree.allWrites, pt)
    /\ tree'.visibleWrites = With(tree.visibleWrites, pt.path, pt.val)
    /\ Expected' = Expected \cup {pt}
    /\ lastPut'[Device] = [pa \in Paths |-> IF pa = pt.path THEN pt.val ELSE lastPut[Device][pa]]
    /\ \A pa \in Paths \ {pt.path} : writers'[pa] = writers[pa]
    /\ tree'.serverSnap = tree.serverSnap
    /\ tree'.viewed = tree.viewed /\ tree'.complete = tree.complete
    /\ UNCHANGED <<inbox, refused, foreign, abandoned>>

\* An answer is used; older writes, if any, are of answers that were abandoned.
Acks ==
    /\ connected[Device]
    /\ \E k \in DOMAIN tree.allWrites :
          /\ tree'.allWrites = RemoveAt(tree.allWrites, k)
          /\ tree'.visibleWrites = LayerTree(RemoveAt(tree.allWrites, k))
          /\ \A i \in DOMAIN tree.allWrites : i < k => tree.allWrites[i].path \in abandoned
          /\ \A pt \in Expected' : pt \in Expected /\ pt # tree.allWrites[k]
    /\ unackedListens' = 0
    /\ tree'.viewed = tree.viewed /\ tree'.complete = tree.complete
    /\ tree'.serverSnap = tree.serverSnap
    /\ connected' = connected
    /\ UNCHANGED <<lastPut, writers, refused, foreign, abandoned, serving, listensSent>>

\* The pending writes are left alone.
Leaves ==
    /\ SameWrites(tree', tree)
    /\ Expected' \subseteq Expected
    /\ UNCHANGED <<lastPut, writers>>
    /\ refused \subseteq refused' /\ foreign \subseteq foreign' /\ abandoned \subseteq abandoned'

\* A call of setValue or removeValue issues its put.
LEMMA SetIssues ==
    ASSUME IInv, NEW w \in [path : Paths, val : Values \cup {None}], set(w)
    PROVE  /\ Issues([idx |-> putCounter[Device], path |-> w.path, val |-> w.val])
           /\ UNCHANGED <<connected, serving, listensSent, acking, died>>
<1> DEFINE pt == [idx |-> putCounter[Device], path |-> w.path, val |-> w.val]
           batch == <<w>>
<1>1. /\ Q!Issue(Device, batch) /\ tree' = applyUserOverwrite(tree, pt)
      /\ UNCHANGED <<inbox, foreign, serving, listensSent, acking, putsToAck, abandoned>>
  BY DEF set, Raise, listenVars, ackVars, foreignVars
<1>2. /\ pt \in Q!Put /\ outstandingPuts'[Device] = outstandingPuts[Device] \cup {pt}
      /\ connected' = connected
  BY <1>1, SetPipe DEF IInv
<1>3. tree \in Tree
  BY DEF IInv, TypeOK
<1>4. DOMAIN batch = {1} /\ batch[1] = w
  OBVIOUS
<1>5. pt.path = w.path /\ pt.val = w.val
  OBVIOUS
<1> HIDE DEF pt, batch
<1>6. /\ tree'.allWrites = Append(tree.allWrites, pt)
      /\ tree'.visibleWrites = With(tree.visibleWrites, pt.path, pt.val)
      /\ tree'.serverSnap = tree.serverSnap
      /\ tree'.viewed = tree.viewed /\ tree'.complete = tree.complete
  BY <1>1, <1>2, <1>3, UserSnap
<1>7. Q!PathsOf(batch) = {w.path} /\ Q!LastOf(batch, w.path) = w.val
  BY <1>4 DEF Q!PathsOf, Q!LastOf
<1>8. /\ lastPut' = [lastPut EXCEPT ![Device] =
                        [pa \in Paths |-> IF pa \in Q!PathsOf(batch) THEN Q!LastOf(batch, pa) ELSE @[pa]]]
      /\ writers' = [pa \in Paths |-> IF pa \in Q!PathsOf(batch) THEN writers[pa] \cup {Device}
                                      ELSE writers[pa]]
      /\ UNCHANGED <<refused, died>>
  BY <1>1 DEF Q!Issue
<1>9. Device \in DOMAIN lastPut
  BY DEF IInv, TypeOK, Q!TypeOK
<1>10. lastPut'[Device] = [pa \in Paths |-> IF pa = w.path THEN w.val ELSE lastPut[Device][pa]]
  BY <1>7, <1>8, <1>9
<1>11. \A pa \in Paths \ {w.path} : writers'[pa] = writers[pa]
  BY <1>7, <1>8
<1>12. /\ lastPut'[Device] = [pa \in Paths |-> IF pa = pt.path THEN pt.val ELSE lastPut[Device][pa]]
       /\ \A pa \in Paths \ {pt.path} : writers'[pa] = writers[pa]
  BY <1>5, <1>10, <1>11
<1>14. UNCHANGED <<refused, inbox, foreign, abandoned>>
  BY <1>1, <1>8
<1>16. Expected' = Expected \cup {pt}
  BY <1>1, <1>2 DEF Expected
<1>15. Issues(pt)
  BY <1>2, <1>6, <1>12, <1>14, <1>16 DEF Issues
<1>13. QED
  BY <1>1, <1>2, <1>8, <1>15 DEF pt

\* The write that goes belongs to the answer, and to no other.
LEMMA AckActs ==
    ASSUME NEW r, NEW k \in DOMAIN tree.allWrites, tree.allWrites[k].idx = r.put.idx,
           tree'.allWrites = RemoveAt(tree.allWrites, k), Sound(tree'),
           tree'.viewed = tree.viewed, tree'.complete = tree.complete,
           tree'.serverSnap = tree.serverSnap,
           \A pt \in Expected' : pt \in Expected /\ pt.idx # r.put.idx,
           \A i \in DOMAIN tree.allWrites : i < k => tree.allWrites[i].path \in abandoned,
           unackedListens' = 0, connected[Device],
           UNCHANGED <<connected, lastPut, writers, refused, foreign, abandoned, serving, listensSent>>
    PROVE  Acks
BY DEF Acks, Sound

LEMMA AckPutsActs ==
    ASSUME IInv, ackPuts
    PROVE  Acks
<1> DEFINE r == Head(putsToAck)
           w == tree.allWrites
<1>1. /\ acking /\ tree' = ackWrite(tree, r) /\ putsToAck' = Tail(putsToAck)
      /\ UNCHANGED <<connected, lastPut, writers, refused, foreign, abandoned, serving, listensSent,
                     outstandingPuts, unackedListens>>
  BY DEF ackPuts, Raise, queueVars, listenVars, foreignVars
<1>2. /\ putsToAck # <<>> /\ unackedListens = 0 /\ (tree.viewed => tree.complete)
      /\ connected[Device]
  BY <1>1 DEF IInv, AckInv
<1>t. tree \in Tree /\ Sound(tree) /\ w \in Seq(Q!Put) /\ putsToAck \in Seq(Q!Response)
  BY OrderTypes DEF IInv
<1>3. /\ r \in Q!Response /\ r = putsToAck[1] /\ 1 \in DOMAIN putsToAck
      /\ \A j \in DOMAIN Tail(putsToAck) :
            j + 1 \in DOMAIN putsToAck /\ j + 1 > 1 /\ Tail(putsToAck)[j] = putsToAck[j + 1]
  BY <1>2, <1>t, TailFacts
<1>4. w # <<>> /\ IndexOf(w, r.put.idx) = 1
  BY <1>2, OrderUse DEF IInv
<1> HIDE DEF r
<1>5. \A pt \in outstandingPuts[Device] : r.put.idx < pt.idx /\ pt.idx \in Nat
  BY <1>3, OrderTypes DEF IInv, OrderInv
<1>6. \A j \in DOMAIN Tail(putsToAck) :
         /\ Tail(putsToAck)[j].put \in Expected
         /\ r.put.idx < Tail(putsToAck)[j].put.idx /\ Tail(putsToAck)[j].put.idx \in Nat
  BY <1>3, OrderTypes DEF IInv, OrderInv, Expected
<1>n. r.put.idx \in Nat
  BY <1>3 DEF Q!Response, Q!Put
<1>7. \A pt \in Expected' : pt \in Expected /\ pt.idx # r.put.idx
  BY <1>1, <1>5, <1>6, <1>n DEF Expected
<1>8. 1 \in DOMAIN w /\ w[1].idx = r.put.idx
  <2>1. \E i \in DOMAIN w : w[i].idx = r.put.idx
    BY <1>3 DEF IInv, OrderInv, WritesAccounted
  <2>2. QED
    BY <1>4, <2>1 DEF IndexOf
<1>9. /\ tree'.allWrites = RemoveAt(w, 1) /\ Sound(tree')
      /\ tree'.viewed = tree.viewed /\ tree'.complete = tree.complete
      /\ tree'.serverSnap = tree.serverSnap
  BY <1>1, <1>2, <1>3, <1>4, <1>t, AckWriteFirst, AckSnap, LayerTail
<1>10. \A i \in DOMAIN w : ~(i < 1)
  BY <1>t
<1> HIDE DEF w
<1>11. QED
  BY <1>1, <1>2, <1>7, <1>8, <1>9, <1>10, AckActs DEF w

\* Writes older than one whose answer is used at once have lost their answers.
LEMMA OlderAbandoned ==
    ASSUME IInv, IssuedInv, ~acking, unackedListens = 0, connected[Device],
           NEW r \in Q!Response, r.put \in outstandingPuts[Device],
           \A pt \in outstandingPuts[Device] \ {r.put} : r.put.idx < pt.idx,
           NEW k \in DOMAIN tree.allWrites, tree.allWrites[k].idx = r.put.idx,
           NEW i \in DOMAIN tree.allWrites, i < k
    PROVE  tree.allWrites[i].path \in abandoned
<1> DEFINE w == tree.allWrites
<1>1. /\ \A n \in DOMAIN w : w[n].idx \in Nat /\ n \in Nat
      /\ \A pt \in outstandingPuts[Device] : pt.idx \in Nat
  BY OrderTypes DEF IInv
<1>2. \A m, n \in DOMAIN w : m < n => w[m].idx < w[n].idx
  BY DEF IInv, OrderInv, WritesAccounted
<1>3. w[i].idx < r.put.idx
  BY <1>2
<1>4. w[i].idx \in {pt.idx : pt \in outstandingPuts[Device]} \cup DeferredIds
  BY DEF IInv, OrderInv, WritesAccounted, DeferredIds
<1>5. ~ \E pt \in outstandingPuts[Device] : pt.idx = w[i].idx
  <2>1. ASSUME NEW pt \in outstandingPuts[Device], pt.idx = w[i].idx
        PROVE  FALSE
    <3>1. CASE pt = r.put
      BY <1>1, <1>3, <2>1, <3>1
    <3>2. CASE pt # r.put
      BY <1>1, <1>3, <2>1, <3>2
    <3>3. QED
      BY <3>1, <3>2
  <2>2. QED
    BY <2>1
<1>6. PICK j \in DOMAIN putsToAck : putsToAck[j].put.idx = w[i].idx
  BY <1>4, <1>5 DEF DeferredIds
<1>7. PICK n \in DOMAIN w : w[n] = putsToAck[j].put
  BY DEF IssuedInv, Expected
<1>8. n = i
  BY <1>1, <1>2, <1>6, <1>7
<1>9. putsToAck[j].put.path \in abandoned
  BY DEF IInv, AckInv
<1>10. QED
  BY <1>7, <1>8, <1>9

\* An answer is used at once or put off.
LEMMA AnswerActs ==
    ASSUME IInv, IssuedInv, ~acking, ReceiveAnswer
    PROVE  Acks \/ (Leaves /\ tree' = tree /\ inbox' = Tail(inbox) /\ connected' = connected
                        /\ UNCHANGED <<refused, foreign, serving, listensSent>>)
<1> DEFINE r == OldestResponse
<1>1. /\ inbox # <<>> /\ Head(inbox).type = "answer" /\ inbox' = Tail(inbox)
      /\ Q!Answer(Device)
      /\ UNCHANGED <<unackedListens, serving, listensSent, foreign, abandoned>>
  BY DEF ReceiveAnswer, Receives, listenVars, foreignVars
<1>2. /\ r \in Q!Response /\ r.put \in outstandingPuts[Device] /\ connected[Device]
      /\ outstandingPuts'[Device] = outstandingPuts[Device] \ {r.put}
      /\ \A pt \in outstandingPuts[Device] \ {r.put} : r.put.idx < pt.idx
      /\ connected' = connected
  BY <1>1, AnswerPipe DEF IInv
<1>3. UNCHANGED <<lastPut, writers, refused>>
  BY <1>1 DEF Q!Answer, Q!history
<1>n. /\ r.put.idx \in Nat /\ putsToAck \in Seq(Q!Response)
      /\ \A pt \in outstandingPuts[Device] : pt.idx \in Nat
      /\ \A j \in DOMAIN putsToAck : putsToAck[j].put.idx \in Nat
  BY <1>2, OrderTypes DEF IInv, Q!Response, Q!Put
<1> HIDE DEF r
<1>5. CASE Deferred
  <2>1. tree' = tree /\ putsToAck' = Append(putsToAck, r)
    BY <1>5 DEF ReceiveAnswer, r
  <2>2. {putsToAck'[j].put : j \in DOMAIN putsToAck'}
            \subseteq {putsToAck[j].put : j \in DOMAIN putsToAck} \cup {r.put}
    BY <1>2, <1>n, <2>1, AppendFacts
  <2>3. Expected' \subseteq Expected
    BY <1>2, <2>2 DEF Expected
  <2>4. QED
    BY <1>1, <1>2, <1>3, <2>1, <2>3 DEF Leaves, SameWrites
<1>6. CASE ~Deferred
  <2>1. tree' = ackWrite(tree, r) /\ unackedListens = 0 /\ putsToAck' = putsToAck
    BY <1>6, ListenTypes DEF ReceiveAnswer, r, Deferred, Raise, IInv
  <2> DEFINE k == IndexOf(tree.allWrites, r.put.idx)
  <2>2. k \in DOMAIN tree.allWrites /\ tree.allWrites[k].idx = r.put.idx
    BY <1>2, OrderTaken DEF IInv
  <2>t. tree \in Tree /\ Sound(tree) /\ tree.allWrites \in Seq(Q!Put)
    BY OrderTypes DEF IInv
  <2>3. /\ tree'.allWrites = RemoveAt(tree.allWrites, k) /\ Sound(tree')
        /\ tree'.viewed = tree.viewed /\ tree'.complete = tree.complete
        /\ tree'.serverSnap = tree.serverSnap
    <3>1. CASE tree.viewed
      <4>1. putsToAck = <<>> /\ tree.complete
        <5>1. ~(staleListens < 0) /\ ~(unackedListens > 0)
          BY <2>1, ListenTypes DEF IInv
        <5>2. QED
          BY <1>2, <2>1, <3>1, <5>1 DEF IInv, ListenInv, AckInv
      <4>2. tree.allWrites # <<>> /\ k = 1
        BY <1>2, <4>1, OrderDirect DEF IInv
      <4>3. QED
        BY <1>2, <2>1, <2>t, <4>1, <4>2, AckWriteFirst, AckSnap, LayerTail
    <3>2. CASE ~tree.viewed
      BY <1>2, <2>1, <2>2, <2>t, <3>2, AckWriteUnseen
    <3>3. QED
      BY <3>1, <3>2
  <2>4. \A pt \in Expected' : pt \in Expected /\ pt.idx # r.put.idx
    <3>1. \A j \in DOMAIN putsToAck : putsToAck[j].put.idx < r.put.idx
      BY <1>2 DEF IInv, OrderInv
    <3>2. QED
      BY <1>2, <1>n, <2>1, <3>1 DEF Expected
  <2> HIDE DEF k
  <2>5. \A i \in DOMAIN tree.allWrites : i < k => tree.allWrites[i].path \in abandoned
    BY <1>2, <2>1, <2>2, OlderAbandoned
  <2>6. QED
    BY <1>1, <1>2, <1>3, <2>1, <2>2, <2>3, <2>4, <2>5, AckActs
<1>7. QED
  BY <1>5, <1>6

\* Every step is of one of these kinds.
LEMMA WriteKinds ==
    ASSUME IInv, IssuedInv, [Next]_vars
    PROVE  Acks \/ (\E pt : Issues(pt)) \/ Leaves
<1>t. tree \in Tree
  BY InboxTypes
<1>c. SameWrites(createView(tree), tree)
  BY <1>t, SnapFacts
<1>l. SameWrites(applyListenComplete(tree), tree)
  BY <1>t, SnapFacts
<1>d. SameWrites(dropView(tree), tree)
  BY <1>t, SnapFacts
<1>o. tree.viewed \in BOOLEAN
  BY <1>t, TreeFields
<1> USE DEF Leaves, SameWrites, Expected
<1>1. CASE ackPuts
  BY <1>1, AckPutsActs
<1>2. CASE ~acking /\ OnQueue
  <2>1. CASE addEventRegistration
    <3>1. tree' = tree \/ tree' = createView(tree)
      BY <2>1 DEF addEventRegistration
    <3>2. SameWrites(tree', tree)
      BY <1>c, <3>1
    <3>3. QED
      BY <2>1, <3>2 DEF addEventRegistration, queueVars, ackVars, foreignVars
  <2>2. CASE restoreAuth \/ Authenticated
    BY <2>2 DEF restoreAuth, Authenticated, restoreState, Q!Connect, Q!history, queueVars, ackVars,
         foreignVars
  <2>3. CASE Disconnect \/ AuthFailed
    <3>1. UNCHANGED <<tree, putsToAck, foreign>> /\ abandoned \subseteq abandoned'
      BY <2>3 DEF Disconnect, AuthFailed, onDisconnect, KeepAnswers, foreignVars
    <3>2. UNCHANGED <<outstandingPuts, lastPut, writers, refused>>
      BY <2>3 DEF Disconnect, AuthFailed, Q!Disconnect, Q!history
    <3>3. QED
      BY <3>1, <3>2
  <2>4. CASE SignIn \/ SignOut
    BY <2>4 DEF SignIn, SignOut, Q!SignIn, Q!SignOut, Q!history, ackVars, foreignVars
  <2>5. CASE ReceiveData
    <3>1. /\ inbox # <<>> /\ Head(inbox).type = "data"
          /\ tree' = IF tree.viewed
                     THEN applyServerOverwrite(tree, Head(inbox).path, Head(inbox).val) ELSE tree
          /\ UNCHANGED <<outstandingPuts, putsToAck, lastPut, writers, refused, foreign, abandoned>>
      BY <2>5 DEF ReceiveData, Receives, Raise, queueVars, ackVars, foreignVars
    <3>2. Head(inbox) \in Message
      BY <3>1, InboxTypes, TailFacts
    <3>3. Head(inbox).path \in Paths /\ Head(inbox).val \in Values \cup {None}
      BY <3>1, <3>2, MessageFacts
    <3>4. SameWrites(tree', tree)
      BY <1>t, <3>1, <3>3, OverwriteSnap
    <3>5. QED
      BY <3>1, <3>4
  <2>6. CASE ReceiveNode
    <3>1. /\ inbox # <<>> /\ Head(inbox).type = "node"
          /\ tree' = IF tree.viewed THEN applyServerNode(tree, Head(inbox).node) ELSE tree
          /\ UNCHANGED <<outstandingPuts, putsToAck, lastPut, writers, refused, foreign, abandoned>>
      BY <2>6 DEF ReceiveNode, Receives, Raise, queueVars, ackVars, foreignVars
    <3>2. Head(inbox) \in Message
      BY <3>1, InboxTypes, TailFacts
    <3>3. Head(inbox).node \in Node
      BY <3>1, <3>2, MessageFacts
    <3>4. SameWrites(tree', tree)
      BY <1>t, <3>1, <3>3, NodeSnap
    <3>5. QED
      BY <3>1, <3>4
  <2>7. CASE ReceiveListen \/ ReceiveStale
    <3>1. /\ tree' = tree \/ tree' = applyListenComplete(tree) \/ tree' = dropView(tree)
          /\ UNCHANGED <<outstandingPuts, putsToAck, lastPut, writers, refused, foreign, abandoned>>
      BY <2>7 DEF ReceiveListen, ReceiveStale, Drop, Raise, queueVars, foreignVars
    <3>2. SameWrites(tree', tree)
      BY <1>d, <1>l, <3>1
    <3>3. QED
      BY <3>1, <3>2
  <2>8. CASE ReceiveRevoke
    <3>1. /\ tree' = dropView(tree)
          /\ UNCHANGED <<outstandingPuts, putsToAck, lastPut, writers, refused, foreign, abandoned>>
      BY <2>8 DEF ReceiveRevoke, Drop, Raise, queueVars, ackVars, foreignVars
    <3>2. SameWrites(tree', tree)
      BY <1>d, <3>1
    <3>3. QED
      BY <3>1, <3>2
  <2>9. CASE ReceiveAnswer
    BY <1>2, <2>9, AnswerActs
  <2>10. CASE \E pa \in Paths, v \in Values \cup {None} : set([path |-> pa, val |-> v])
    <3>1. PICK w \in [path : Paths, val : Values \cup {None}] : set(w)
      BY <2>10
    <3>2. Issues([idx |-> putCounter[Device], path |-> w.path, val |-> w.val])
      BY <3>1, SetIssues
    <3>3. PICK p : p = [idx |-> putCounter[Device], path |-> w.path, val |-> w.val]
      OBVIOUS
    <3>4. Issues(p)
      BY <3>2, <3>3 DEF Issues
    <3>5. \E pt : Issues(pt)
      BY <3>4, Zenon
    <3>6. QED
      BY <3>5
  <2>11. QED
    BY <1>2, <2>1, <2>2, <2>3, <2>4, <2>5, <2>6, <2>7, <2>8, <2>9, <2>10 DEF OnQueue, Receive
<1>3. CASE Observe \/ Deliver
  BY <1>3 DEF Observe, Deliver, queueVars, ackVars, foreignVars
<1>4. CASE Process
  BY <1>4 DEF Process, Q!Process, Q!deviceVars, ackVars, foreignVars
<1>5. CASE RevokeListen \/ \E ok \in BOOLEAN : TakeListen(ok)
  BY <1>5 DEF RevokeListen, TakeListen, queueVars, ackVars, foreignVars
<1>6. CASE \E pa \in Paths, v \in Values \cup {None} : v # store[pa] /\ ForeignPut(pa, v)
  BY <1>6 DEF ForeignPut, deviceQueueVars, ackVars
<1>7. CASE UNCHANGED vars
  BY <1>7 DEF vars, queueVars, ackVars, foreignVars
<1>8. QED
  BY <1>1, <1>2, <1>3, <1>4, <1>5, <1>6, <1>7 DEF Next

-----------------------------------------------------------------------------
(* What a step does to the listen and the view.                            *)

\* The listen and the connection, the view: left as they are.
Stays == UNCHANGED <<serving, listensSent, died>> /\ connected'[Device] = connected[Device]
SameView ==
    /\ tree'.viewed = tree.viewed /\ tree'.complete = tree.complete
    /\ tree'.serverSnap = tree.serverSnap

\* Neither the view nor the connection is concerned.
Quiet == Stays /\ SameView /\ inbox' = inbox

\* The view is created.
Opens ==
    /\ ~tree.viewed /\ tree'.complete = tree.complete
    /\ connected[Device] => listensSent' > 0
    /\ UNCHANGED <<inbox, serving, died>> /\ connected'[Device] = connected[Device]

\* The listen is sent again.
Reconnects ==
    /\ ~connected[Device] /\ SameView /\ (tree.viewed => listensSent' > 0)
    /\ UNCHANGED <<inbox, serving, died>>

\* The connection is lost.
Cut == SameView /\ inbox' = <<>> /\ ~connected'[Device] /\ died' = died

\* Messages that tell what the server stores on a path, and what they tell.
Tells(m, pa) == m.type = "node" \/ (m.type = "data" /\ m.path = pa)
Told(m, pa) == IF m.type = "node" THEN m.node[pa] ELSE m.val

\* A message is received.  If the view is still there, and was before, it has
\* learnt what the message tells; a listen refused then was not its own, which
\* is still under way.
Takes ==
    /\ Stays /\ inbox # <<>> /\ inbox' = Tail(inbox)
    /\ tree'.viewed =>
          /\ tree.viewed /\ inbox[1].type # "revoke"
          /\ Ends(inbox[1]) => listensSent > 0 \/ \E i \in DOMAIN inbox' : inbox'[i].type = "listen"
          /\ tree'.complete => tree.complete \/ inbox[1].type = "node"
          /\ \A pa \in Paths : tree'.serverSnap[pa] =
                IF Tells(inbox[1], pa) THEN Told(inbox[1], pa) ELSE tree.serverSnap[pa]

\* The server sends news of a path or an answer.
Sends ==
    /\ Stays /\ SameView
    /\ \E s \in Seq(Message) :
          /\ inbox' = inbox \o s
          /\ \A i \in DOMAIN s : s[i].type \in {"answer", "data"}

LEMMA ReceiveTakes ==
    ASSUME IInv, IssuedInv, ~acking, Receive
    PROVE  Takes
<1>1. /\ inbox \in Seq(Message) /\ tree \in Tree /\ tree.serverSnap \in Node
      /\ tree.allWrites \in Seq(Q!Put) /\ Sound(tree) /\ tree.viewed \in BOOLEAN
  BY InboxTypes, TreeFields DEF IInv
<1>2. inbox # <<>> /\ inbox' = Tail(inbox) /\ Head(inbox) = inbox[1] /\ inbox[1] \in Message
  BY <1>1, TailFacts DEF Receive, ReceiveData, ReceiveNode, ReceiveListen, ReceiveStale,
       ReceiveRevoke, ReceiveAnswer, Receives
<1> DEFINE m == inbox[1]
<1> HIDE DEF m
<1>3. CASE ReceiveData
  <2>1. /\ m.type = "data" /\ Stays
        /\ tree' = IF tree.viewed THEN applyServerOverwrite(tree, m.path, m.val) ELSE tree
    BY <1>2, <1>3 DEF ReceiveData, Receives, Raise, listenVars, queueVars, m, Stays
  <2>2. m.path \in Paths /\ m.val \in Values \cup {None}
    BY <1>2, <2>1, MessageFacts DEF m
  <2>3. tree.viewed => /\ tree'.serverSnap = [tree.serverSnap EXCEPT ![m.path] = m.val]
                       /\ tree'.complete = tree.complete
    BY <1>1, <2>1, <2>2, OverwriteSnap
  <2>4. tree.viewed => \A pa \in Paths : tree'.serverSnap[pa] = IF Tells(m, pa) THEN Told(m, pa)
                                                                ELSE tree.serverSnap[pa]
    BY <1>1, <2>1, <2>3 DEF Node, Tells, Told
  <2>5. ~Ends(m) /\ (tree'.viewed => tree.viewed)
    BY <2>1 DEF Ends
  <2>6. QED
    BY <1>2, <2>1, <2>3, <2>4, <2>5 DEF Takes, m
<1>4. CASE ReceiveNode
  <2>1. /\ m.type = "node" /\ Stays
        /\ tree' = IF tree.viewed THEN applyServerNode(tree, m.node) ELSE tree
    BY <1>2, <1>4 DEF ReceiveNode, Receives, Raise, listenVars, queueVars, m, Stays
  <2>2. m.node \in Node
    BY <1>2, <2>1, MessageFacts DEF m
  <2>3. tree.viewed => tree'.serverSnap = m.node
    BY <1>1, <2>1, <2>2, NodeSnap
  <2>4. tree.viewed => \A pa \in Paths : tree'.serverSnap[pa] = IF Tells(m, pa) THEN Told(m, pa)
                                                                ELSE tree.serverSnap[pa]
    BY <2>1, <2>3 DEF Tells, Told
  <2>5. ~Ends(m) /\ (tree'.viewed => tree.viewed)
    BY <2>1 DEF Ends
  <2>6. QED
    BY <1>2, <2>1, <2>3, <2>4, <2>5 DEF Takes, m
<1>5. CASE ReceiveListen
  <2>1. /\ m.type = "listen" /\ Stays /\ staleListens = 0
        /\ tree' = IF m.ok THEN applyListenComplete(tree) ELSE dropView(tree)
    BY <1>2, <1>5 DEF ReceiveListen, Receives, Drop, Raise, queueVars, m, Stays
  <2>2. \A pa : ~Tells(m, pa)
    BY <2>1 DEF Tells
  <2>3. CASE m.ok
    <3>1. tree'.serverSnap = tree.serverSnap /\ tree'.viewed = tree.viewed
      BY <1>1, <2>1, <2>3, SnapFacts
    <3>2. tree.complete
      BY <1>2, <2>1, <2>3 DEF IInv, ListenInv, m
    <3>3. ~Ends(m)
      BY <2>1, <2>3 DEF Ends
    <3>4. QED
      BY <1>2, <2>1, <2>2, <3>1, <3>2, <3>3 DEF Takes, m
  <2>4. CASE ~m.ok
    <3>1. ~tree'.viewed
      BY <1>1, <2>1, <2>4, SnapFacts
    <3>2. QED
      BY <1>2, <2>1, <3>1 DEF Takes
  <2>5. QED
    BY <2>3, <2>4
<1>6. CASE ReceiveStale
  <2>1. m.type = "listen" /\ Stays /\ staleListens > 0 /\ tree' = tree /\ CountAnswer
    BY <1>2, <1>6 DEF ReceiveStale, Receives, queueVars, m, Stays
  <2>2. \A pa : ~Tells(m, pa)
    BY <2>1 DEF Tells
  <2>3. ASSUME tree.viewed, ~(listensSent > 0)
        PROVE  \E i \in DOMAIN inbox' : inbox'[i].type = "listen"
    <3>1. /\ unackedListens > 0 /\ unackedListens' = unackedListens - 1
          /\ unackedListens' = listensSent + Cardinality(Listens(inbox'))
      BY <1>2, <2>1, CountFacts DEF Stays, m
    <3>2. staleListens < unackedListens
      BY <1>2, <2>3, <3>1, ListenTypes DEF IInv, ListenInv
    <3>3. unackedListens' # 0 /\ listensSent = 0
      BY <2>1, <2>3, <3>1, <3>2, ListenTypes DEF IInv
    <3>4. Cardinality(Listens(inbox')) # 0
      <4>1. inbox' \in Seq(Message)
        BY <1>1, <1>2, TailFacts
      <4>2. Cardinality(Listens(inbox')) \in Nat
        BY <4>1, ListensCount
      <4>3. unackedListens' = 0 + Cardinality(Listens(inbox'))
        BY <3>1, <3>3
      <4>4. unackedListens' = Cardinality(Listens(inbox'))
        BY <4>2, <4>3
      <4>5. QED
        BY <3>3, <4>4
    <3>5. Listens(inbox') # {}
      BY <3>4, FS_EmptySet
    <3>6. QED
      BY <3>5 DEF Listens
  <2>4. QED
    BY <1>2, <2>1, <2>2, <2>3 DEF Takes, m
<1>7. CASE ReceiveRevoke
  <2>1. tree' = dropView(tree) /\ Stays
    BY <1>7 DEF ReceiveRevoke, Drop, Raise, queueVars, Stays
  <2>2. ~tree'.viewed
    BY <1>1, <2>1, SnapFacts
  <2>3. QED
    BY <1>2, <2>1, <2>2 DEF Takes
<1>8. CASE ReceiveAnswer
  <2>1. m.type = "answer" /\ UNCHANGED <<serving, listensSent, died>>
    BY <1>2, <1>8 DEF ReceiveAnswer, Receives, listenVars, Q!Answer, Q!history, m
  <2>2. connected' = connected /\ SameView
    BY <1>8, AnswerActs DEF Acks, SameView
  <2>3. ~Ends(m) /\ \A pa : ~Tells(m, pa)
    BY <2>1 DEF Ends, Tells
  <2>4. QED
    BY <1>2, <2>1, <2>2, <2>3 DEF Takes, Stays, SameView, m
<1>9. QED
  BY <1>3, <1>4, <1>5, <1>6, <1>7, <1>8 DEF Receive

\* Every step is of one of these kinds.
LEMMA StepKinds ==
    ASSUME IInv, IssuedInv, [Next]_vars
    PROVE  \/ Quiet \/ Opens \/ Reconnects \/ Cut \/ Takes \/ Sends
           \/ RevokeListen \/ \E ok \in BOOLEAN : TakeListen(ok)
<1>t. tree \in Tree /\ inbox \in Seq(Message) /\ store \in Node
  BY InboxTypes
<1>1. CASE ackPuts
  <2>1. Acks /\ UNCHANGED <<inbox, died>>
    BY <1>1, AckPutsActs DEF ackPuts, queueVars
  <2>2. QED
    BY <1>1, <2>1 DEF Acks, Quiet, Stays, SameView
<1>2. CASE ~acking /\ OnQueue
  <2>1. CASE addEventRegistration
    <3>1. /\ tree' = IF tree.viewed THEN tree ELSE createView(tree)
          /\ UNCHANGED <<inbox, serving, died, connected>>
          /\ IF Opened /\ ~tree.viewed THEN listensSent' = listensSent + 1
             ELSE listensSent' = listensSent
      BY <2>1 DEF addEventRegistration, sendListen, queueVars
    <3>2. CASE tree.viewed
      BY <3>1, <3>2 DEF Quiet, Stays, SameView
    <3>3. CASE ~tree.viewed
      <4>1. tree'.complete = tree.complete
        BY <1>t, <3>1, <3>3, SnapFacts
      <4>2. connected[Device] => listensSent' > 0
        BY <3>1, <3>3, ListenTypes DEF IInv, Opened
      <4>3. QED
        BY <3>1, <3>3, <4>1, <4>2 DEF Opens
    <3>4. QED
      BY <3>2, <3>3
  <2>2. CASE restoreAuth \/ Authenticated
    <3>1. CASE restoreState
      <4>1. ~connected[Device] /\ UNCHANGED <<tree, inbox, serving, died>>
        BY <3>1 DEF restoreState, Q!Connect, Q!history
      <4>2. tree.viewed => listensSent' > 0
        BY <3>1, ListenTypes DEF restoreState, sendListen, IInv
      <4>3. QED
        BY <4>1, <4>2 DEF Reconnects, SameView
    <3>2. CASE ~restoreState
      BY <2>2, <3>2 DEF restoreAuth, Authenticated, queueVars, Quiet, Stays, SameView
    <3>3. QED
      BY <3>1, <3>2
  <2>3. CASE Disconnect \/ AuthFailed
    <3>1. tree' = tree /\ inbox' = <<>>
      BY <2>3 DEF Disconnect, AuthFailed, onDisconnect
    <3>2. died' = died
      BY <2>3 DEF Disconnect, AuthFailed, Q!Disconnect, Q!history
    <3>3. ~connected'[Device]
      <4>1. Device \in DOMAIN connected
        BY DEF IInv, TypeOK, Q!TypeOK
      <4>2. CASE Disconnect
        BY <4>1, <4>2 DEF Disconnect, Q!Disconnect
      <4>3. CASE AuthFailed
        BY <4>3 DEF AuthFailed, IInv, ListenInv
      <4>4. QED
        BY <2>3, <4>2, <4>3
    <3>4. QED
      BY <3>1, <3>2, <3>3 DEF Cut, SameView
  <2>4. CASE SignIn \/ SignOut
    BY <2>4 DEF SignIn, SignOut, Q!SignIn, Q!SignOut, Q!history, listenVars,
         Quiet, Stays, SameView
  <2>5. CASE Receive
    BY <1>2, <2>5, ReceiveTakes
  <2>6. CASE \E pa \in Paths, v \in Values \cup {None} : set([path |-> pa, val |-> v])
    <3>1. PICK w \in [path : Paths, val : Values \cup {None}] : set(w)
      BY <2>6
    <3>2. QED
      BY <3>1, SetIssues DEF Issues, Quiet, Stays, SameView
  <2>7. QED
    BY <1>2, <2>1, <2>2, <2>3, <2>4, <2>5, <2>6 DEF OnQueue
<1>3. CASE Observe \/ Deliver
  BY <1>3 DEF Observe, Deliver, queueVars, listenVars, Quiet, Stays, SameView
<1>4. CASE Process
  <2> DEFINE m == OldestRequest
             news == IF Q!Granted(m) THEN NewsOf(m.put.path, m.put.val) ELSE <<>>
             a == <<[type |-> "answer"]>>
  <2>1. /\ Q!Process(Device) /\ inbox' = inbox \o news \o a
        /\ UNCHANGED <<tree, serving, listensSent>>
    BY <1>4 DEF Process, listenVars
  <2>2. connected' = connected /\ died' = died
    BY <2>1 DEF Q!Process, Q!deviceVars
  <2>3. m \in Q!Request
    BY <2>1, ProcessPipe DEF IInv
  <2>4. m.put.path \in Paths /\ m.put.val \in Values \cup {None}
    BY <2>3 DEF Q!Request, Q!Put
  <2> HIDE DEF m
  <2>5. news \in Seq(Message) /\ \A i \in DOMAIN news : news[i].type = "data"
    BY <2>4, NewsType DEF IInv
  <2>6. a \in Seq(Message) /\ \A i \in DOMAIN a : a[i].type = "answer"
    BY MessageType
  <2> HIDE DEF news, a
  <2>7. /\ inbox' = inbox \o (news \o a) /\ news \o a \in Seq(Message)
        /\ \A i \in DOMAIN (news \o a) : (news \o a)[i].type \in {"answer", "data"}
    <3>1. inbox \o news \o a = inbox \o (news \o a)
      BY <1>t, <2>5, <2>6
    <3>2. QED
      BY <2>1, <2>5, <2>6, <3>1, ConcatFacts
  <2>8. QED
    BY <2>1, <2>2, <2>7 DEF Sends, Stays, SameView
<1>5. CASE RevokeListen \/ \E ok \in BOOLEAN : TakeListen(ok)
  BY <1>5
<1>6. ASSUME NEW pa \in Paths, NEW v \in Values \cup {None}, ForeignPut(pa, v)
      PROVE  Sends
  <2>1. /\ inbox' = inbox \o NewsOf(pa, v)
        /\ UNCHANGED <<tree, serving, listensSent, connected, died>>
    BY <1>6 DEF ForeignPut, deviceQueueVars, listenVars
  <2>2. /\ NewsOf(pa, v) \in Seq(Message)
        /\ \A i \in DOMAIN NewsOf(pa, v) : NewsOf(pa, v)[i].type = "data"
    BY NewsType DEF IInv
  <2>3. QED
    BY <2>1, <2>2 DEF Sends, Stays, SameView
<1>7. CASE UNCHANGED vars
  BY <1>7 DEF vars, queueVars, listenVars, Quiet, Stays, SameView
<1>8. QED
  BY <1>1, <1>2, <1>3, <1>4, <1>5, <1>6, <1>7 DEF Next

-----------------------------------------------------------------------------
(* What the server has told of its store: AtRestExact.                     *)

Silent(s, pa) == \A i \in DOMAIN s : ~Tells(s[i], pa)

\* Whoever knows x of the path will know y when s is received.
Heard(s, pa, x, y) ==
    \/ x = y /\ Silent(s, pa)
    \/ \E i \in DOMAIN s :
          /\ Tells(s[i], pa) /\ Told(s[i], pa) = y
          /\ \A j \in DOMAIN s : j > i => ~Tells(s[j], pa)

LEMMA HeardTail ==
    ASSUME NEW s \in Seq(Message), s # <<>>, NEW pa, NEW x, NEW y, Heard(s, pa, x, y)
    PROVE  Heard(Tail(s), pa, IF Tells(s[1], pa) THEN Told(s[1], pa) ELSE x, y)
<1>1. /\ 1 \in DOMAIN s /\ DOMAIN s = 1..Len(s) /\ Len(s) \in Nat
      /\ DOMAIN Tail(s) = 1..Len(s) - 1
      /\ \A i \in DOMAIN Tail(s) : i + 1 \in DOMAIN s /\ i \in Nat /\ i > 0 /\ Tail(s)[i] = s[i + 1]
  BY TailFacts
<1>2. CASE x = y /\ Silent(s, pa)
  <2>1. ~Tells(s[1], pa) /\ Silent(Tail(s), pa)
    BY <1>1, <1>2 DEF Silent
  <2>2. QED
    BY <1>2, <2>1 DEF Heard
<1>3. ASSUME NEW i \in DOMAIN s, Tells(s[i], pa), Told(s[i], pa) = y,
             \A j \in DOMAIN s : j > i => ~Tells(s[j], pa)
      PROVE  Heard(Tail(s), pa, IF Tells(s[1], pa) THEN Told(s[1], pa) ELSE x, y)
  <2>1. CASE i = 1
    <3>1. Silent(Tail(s), pa)
      BY <1>1, <1>3, <2>1 DEF Silent
    <3>2. QED
      BY <1>3, <2>1, <3>1 DEF Heard
  <2>2. CASE i # 1
    <3>1. i - 1 \in DOMAIN Tail(s) /\ Tail(s)[i - 1] = s[i]
      BY <1>1, <2>2
    <3>2. \A j \in DOMAIN Tail(s) : j > i - 1 => ~Tells(Tail(s)[j], pa)
      BY <1>1, <1>3
    <3>3. QED
      BY <1>3, <3>1, <3>2 DEF Heard
  <2>3. QED
    BY <2>1, <2>2
<1>4. QED
  BY <1>2, <1>3 DEF Heard

LEMMA HeardAppend ==
    ASSUME NEW s \in Seq(Message), NEW m \in Message, NEW pa, NEW x, NEW y
    PROVE  /\ Heard(s, pa, x, y) /\ ~Tells(m, pa) => Heard(Append(s, m), pa, x, y)
           /\ Tells(m, pa) /\ Told(m, pa) = y => Heard(Append(s, m), pa, x, y)
<1> DEFINE u == Append(s, m)
<1>1. /\ DOMAIN s = 1..Len(s) /\ Len(s) \in Nat /\ DOMAIN u = 1..Len(s) + 1
      /\ \A i \in DOMAIN s : i \in DOMAIN u /\ u[i] = s[i]
      /\ u[Len(s) + 1] = m /\ Len(s) + 1 \in DOMAIN u
  BY AppendFacts
<1> HIDE DEF u
<1>2. ASSUME Heard(s, pa, x, y), ~Tells(m, pa)
      PROVE  Heard(u, pa, x, y)
  <2>1. CASE x = y /\ Silent(s, pa)
    <3>1. Silent(u, pa)
      BY <1>1, <1>2, <2>1 DEF Silent
    <3>2. QED
      BY <2>1, <3>1 DEF Heard
  <2>2. ASSUME NEW i \in DOMAIN s, Tells(s[i], pa), Told(s[i], pa) = y,
               \A j \in DOMAIN s : j > i => ~Tells(s[j], pa)
        PROVE  Heard(u, pa, x, y)
    <3>1. \A j \in DOMAIN u : j > i => ~Tells(u[j], pa)
      BY <1>1, <1>2, <2>2
    <3>2. QED
      BY <1>1, <2>2, <3>1 DEF Heard
  <2>3. QED
    BY <1>2, <2>1, <2>2 DEF Heard
<1>3. ASSUME Tells(m, pa), Told(m, pa) = y
      PROVE  Heard(u, pa, x, y)
  <2>1. \A j \in DOMAIN u : ~(j > Len(s) + 1)
    BY <1>1
  <2>2. QED
    BY <1>1, <1>3, <2>1 DEF Heard
<1>4. QED
  BY <1>2, <1>3 DEF u

-----------------------------------------------------------------------------
(* Which response each answer under way carries.                           *)

Answers(s) == {i \in DOMAIN s : s[i].type = "answer"}

\* f gives the answers of s the responses R, in the order of their puts.  News
\* of a path that no other device wrote (fg: those they wrote) comes before
\* the answer to a put on that path.
Fits(f, s, R, fg) ==
    /\ f \in [Answers(s) -> R]
    /\ \A i, j \in Answers(s) : i < j => f[i].put.idx < f[j].put.idx
    /\ \A r \in R : \E i \in Answers(s) : f[i] = r
    /\ \A i \in DOMAIN s : s[i].type = "data" /\ s[i].path \notin fg =>
          \E j \in Answers(s) : j > i /\ f[j].put.path = s[i].path

\* The store on pa changed after the server had stopped sending news, so the
\* answer to that put comes after the message that says so.
Late(f, s, pa) ==
    \E i \in DOMAIN s, j \in Answers(s) :
        s[i].type = "revoke" /\ j > i /\ f[j].put.path = pa

\* A further message that is not an answer, and no news of this device.
LEMMA FitsAppend ==
    ASSUME NEW s \in Seq(Message), NEW R, NEW fg, NEW f, Fits(f, s, R, fg),
           NEW m \in Message, m.type # "answer",
           NEW fg2, fg \subseteq fg2, m.type = "data" => m.path \in fg2
    PROVE  Fits(f, Append(s, m), R, fg2)
<1> DEFINE u == Append(s, m)
<1>1. /\ DOMAIN u = DOMAIN s \cup {Len(s) + 1}
      /\ \A i \in DOMAIN s : u[i] = s[i]
      /\ u[Len(s) + 1] = m
  BY AppendFacts
<1> HIDE DEF u
<1>2. Answers(u) = Answers(s)
  BY <1>1 DEF Answers
<1>3. ASSUME NEW i \in DOMAIN u, u[i].type = "data", u[i].path \notin fg2
      PROVE  \E j \in Answers(s) : j > i /\ f[j].put.path = u[i].path
  <2>1. i \in DOMAIN s /\ u[i] = s[i] /\ s[i].path \notin fg
    BY <1>1, <1>3
  <2>2. QED
    BY <1>3, <2>1 DEF Fits
<1>4. QED
  BY <1>2, <1>3 DEF Fits, u

\* f with the response r for a further answer m.
Extended(f, s, m, r) == [i \in Answers(Append(s, m)) |-> IF i \in DOMAIN s THEN f[i] ELSE r]

\* The answer to a put that is newer than those answered before.
LEMMA FitsAnswer ==
    ASSUME NEW s \in Seq(Message), NEW R \in SUBSET Q!Response, NEW fg, NEW r \in Q!Response,
           NEW f, Fits(f, s, R, fg \cup {r.put.path}),
           \A q \in R : q.put.idx < r.put.idx,
           NEW m \in Message, m.type = "answer"
    PROVE  /\ Fits(Extended(f, s, m, r), Append(s, m), R \cup {r}, fg)
           /\ \A pa : Late(f, s, pa) => Late(Extended(f, s, m, r), Append(s, m), pa)
           /\ (\E i \in DOMAIN s : s[i].type = "revoke")
                => Late(Extended(f, s, m, r), Append(s, m), r.put.path)
<1> DEFINE u == Append(s, m)
           n == Len(s) + 1
           g == Extended(f, s, m, r)
<1>g. g = [i \in Answers(u) |-> IF i \in DOMAIN s THEN f[i] ELSE r]
  BY DEF Extended
<1>1. /\ DOMAIN u = DOMAIN s \cup {n} /\ DOMAIN s = 1..Len(s) /\ Len(s) \in Nat
      /\ \A i \in DOMAIN s : u[i] = s[i]
      /\ u[n] = m
  BY <1>g, AppendFacts
<1>2. n \notin DOMAIN s /\ n \in Nat /\ \A i \in DOMAIN s : i < n
  BY <1>1
<1> HIDE DEF u, n, g
<1>3. Answers(u) = Answers(s) \cup {n} /\ n \notin Answers(s) /\ Answers(s) \subseteq DOMAIN s
  BY <1>1, <1>2, <1>g DEF Answers
<1>4. /\ \A i \in Answers(s) : i \in Answers(u) /\ g[i] = f[i] /\ f[i] \in R /\ i < n /\ i \in Nat
      /\ n \in Answers(u) /\ g[n] = r
  BY <1>1, <1>2, <1>3, <1>g DEF Fits
<1>5. g \in [Answers(u) -> R \cup {r}]
  BY <1>3, <1>4, <1>g
<1>6. ASSUME NEW i \in Answers(u), NEW j \in Answers(u), i < j
      PROVE  g[i].put.idx < g[j].put.idx
  <2>1. i \in Answers(s)
    BY <1>2, <1>3, <1>4, <1>6
  <2>2. CASE j \in Answers(s)
    BY <1>4, <1>6, <1>g, <2>1, <2>2 DEF Fits
  <2>3. CASE j = n
    BY <1>4, <1>g, <2>1, <2>3
  <2>4. QED
    BY <1>3, <2>2, <2>3
<1>7. \A q \in R \cup {r} : \E i \in Answers(u) : g[i] = q
  BY <1>4, <1>g DEF Fits
<1>8. ASSUME NEW i \in DOMAIN u, u[i].type = "data", u[i].path \notin fg
      PROVE  \E j \in Answers(u) : j > i /\ g[j].put.path = u[i].path
  <2>1. i \in DOMAIN s /\ u[i] = s[i]
    BY <1>1, <1>8, <1>g
  <2>2. CASE s[i].path = r.put.path
    BY <1>2, <1>4, <2>1, <2>2
  <2>3. CASE s[i].path # r.put.path
    <3>1. PICK j \in Answers(s) : j > i /\ f[j].put.path = s[i].path
      BY <1>8, <1>g, <2>1, <2>3 DEF Fits
    <3>2. QED
      BY <1>4, <2>1, <3>1
  <2>4. QED
    BY <2>2, <2>3
<1>9. Fits(g, u, R \cup {r}, fg)
  BY <1>5, <1>6, <1>7, <1>8 DEF Fits
<1>10. ASSUME NEW pa, Late(f, s, pa)
       PROVE  Late(g, u, pa)
  BY <1>1, <1>4, <1>10 DEF Late
<1>11. ASSUME NEW i \in DOMAIN s, s[i].type = "revoke"
       PROVE  Late(g, u, r.put.path)
  BY <1>1, <1>2, <1>4, <1>11 DEF Late
<1>12. QED
  BY <1>9, <1>10, <1>11 DEF u, g

\* f when the first message of s is received; an answer is to the oldest put.
Oldest(r, R) == \A q \in R : r.put.idx <= q.put.idx
Later(f, s) == [i \in Answers(Tail(s)) |-> f[i + 1]]

LEMMA FitsTail ==
    ASSUME NEW s \in Seq(Message), s # <<>>, NEW R \in SUBSET Q!Response, NEW fg,
           NEW f, Fits(f, s, R, fg)
    PROVE  /\ s[1].type # "answer" => Fits(Later(f, s), Tail(s), R, fg)
           /\ s[1].type = "answer" => \A r \in R :
                 Oldest(r, R) => Fits(Later(f, s), Tail(s), R \ {r}, fg)
           /\ \A pa : s[1].type # "revoke" /\ Late(f, s, pa) => Late(Later(f, s), Tail(s), pa)
<1> DEFINE u == Tail(s)
           g == Later(f, s)
<1>1. /\ 1 \in DOMAIN s /\ DOMAIN s = 1..Len(s) /\ Len(s) \in Nat
      /\ DOMAIN u = 1..Len(s) - 1
      /\ \A i \in DOMAIN u : i + 1 \in DOMAIN s /\ i \in Nat /\ i > 0 /\ u[i] = s[i + 1]
  BY TailFacts
<1>2. /\ \A i \in Answers(u) : i + 1 \in Answers(s) /\ g[i] = f[i + 1] /\ i \in Nat /\ i > 0
      /\ \A i \in Answers(s) : i # 1 => i - 1 \in Answers(u) /\ g[i - 1] = f[i] /\ i \in Nat /\ i > 1
  <2>1. \A i \in DOMAIN s : i # 1 => i - 1 \in DOMAIN u /\ u[i - 1] = s[i] /\ i \in Nat /\ i > 1
                                     /\ (i - 1) + 1 = i
    BY <1>1
  <2>2. \A i \in Answers(s) : i # 1 => i - 1 \in Answers(u) /\ i \in Nat /\ i > 1 /\ (i - 1) + 1 = i
    BY <2>1 DEF Answers
  <2>3. QED
    BY <1>1, <2>2 DEF Answers, Later
<1>3. g = [i \in Answers(u) |-> g[i]]
  BY DEF Later
<1>r. \A r \in Q!Response : r.put.idx \in Nat
  BY DEF Q!Response, Q!Put
<1>4. \A i \in Answers(s) : f[i] \in R /\ f[i] \in Q!Response /\ f[i].put.idx \in Nat
  BY <1>r DEF Fits
<1> HIDE DEF u, g
<1>5. ASSUME NEW i \in Answers(u), NEW j \in Answers(u), i < j
      PROVE  g[i].put.idx < g[j].put.idx
  <2>1. i + 1 \in Answers(s) /\ j + 1 \in Answers(s) /\ i + 1 < j + 1
    BY <1>2, <1>5
  <2>2. f[i + 1].put.idx < f[j + 1].put.idx
    BY <2>1 DEF Fits
  <2>3. QED
    BY <1>2, <2>2
<1>6. ASSUME NEW i \in DOMAIN u, u[i].type = "data", u[i].path \notin fg
      PROVE  \E j \in Answers(u) : j > i /\ g[j].put.path = u[i].path
  <2>1. PICK j \in Answers(s) : j > i + 1 /\ f[j].put.path = s[i + 1].path
    BY <1>1, <1>6 DEF Fits
  <2>2. j # 1 /\ j - 1 > i
    BY <1>1, <2>1, <1>2 DEF Answers
  <2>3. QED
    BY <1>1, <1>2, <2>1, <2>2
<1>7. ASSUME s[1].type # "answer"
      PROVE  Fits(g, u, R, fg)
  <2>1. 1 \notin Answers(s)
    BY <1>7 DEF Answers
  <2>2. g \in [Answers(u) -> R]
    BY <1>2, <1>3, <1>4
  <2>3. ASSUME NEW r \in R PROVE \E i \in Answers(u) : g[i] = r
    <3>1. PICK i \in Answers(s) : f[i] = r
      BY DEF Fits
    <3>2. QED
      BY <1>2, <2>1, <3>1
  <2>4. QED
    BY <1>5, <1>6, <2>2, <2>3 DEF Fits
<1>8. ASSUME s[1].type = "answer"
      PROVE  \A r \in R : Oldest(r, R) => Fits(g, u, R \ {r}, fg)
  <2>1. 1 \in Answers(s) /\ f[1] \in R /\ f[1].put.idx \in Nat
    BY <1>1, <1>4, <1>8 DEF Answers
  <2>2. \A i \in Answers(s) : i # 1 => f[1].put.idx < f[i].put.idx
    BY <1>2, <2>1 DEF Fits
  <2>3. ASSUME NEW q \in R
        PROVE  f[1].put.idx <= q.put.idx /\ (q.put.idx <= f[1].put.idx => q = f[1])
    <3>1. PICK i \in Answers(s) : f[i] = q
      BY DEF Fits
    <3>2. q.put.idx \in Nat
      BY <1>4, <3>1
    <3>3. CASE i = 1
      BY <2>1, <3>1, <3>3
    <3>4. CASE i # 1
      BY <2>1, <2>2, <3>1, <3>2, <3>4
    <3>5. QED
      BY <3>3, <3>4
  <2>4. \A i \in Answers(u) : g[i] \in R /\ g[i] # f[1]
    <3>1. ASSUME NEW i \in Answers(u) PROVE g[i] \in R /\ g[i] # f[1]
      <4>1. i + 1 \in Answers(s) /\ i + 1 # 1 /\ g[i] = f[i + 1]
        BY <1>2
      <4>2. f[1].put.idx < f[i + 1].put.idx /\ f[i + 1] \in R
        BY <4>1, <2>2, <1>4
      <4>3. QED
        BY <4>1, <4>2, <2>1
    <3>2. QED
      BY <3>1
  <2>5. g \in [Answers(u) -> R \ {f[1]}]
    BY <1>3, <2>4
  <2>6. ASSUME NEW r \in R \ {f[1]} PROVE \E i \in Answers(u) : g[i] = r
    <3>1. PICK i \in Answers(s) : f[i] = r
      BY DEF Fits
    <3>2. QED
      BY <1>2, <3>1
  <2>7. Fits(g, u, R \ {f[1]}, fg)
    BY <1>5, <1>6, <2>5, <2>6 DEF Fits
  <2>8. \A r \in R : Oldest(r, R) => r = f[1]
    BY <2>1, <2>3 DEF Oldest
  <2>9. QED
    BY <2>7, <2>8
<1>9. ASSUME NEW pa, s[1].type # "revoke", Late(f, s, pa)
      PROVE  Late(g, u, pa)
  <2>1. PICK i \in DOMAIN s, j \in Answers(s) : s[i].type = "revoke" /\ j > i /\ f[j].put.path = pa
    BY <1>9 DEF Late
  <2>2. i # 1 /\ i - 1 \in DOMAIN u /\ u[i - 1] = s[i]
    <3>1. i # 1
      BY <1>9, <2>1
    <3>2. i - 1 \in DOMAIN u /\ (i - 1) + 1 = i
      BY <1>1, <3>1
    <3>3. QED
      BY <1>1, <3>1, <3>2
  <2>3. j # 1 /\ j - 1 > i - 1
    BY <1>1, <2>1, <2>2 DEF Answers
  <2>4. j - 1 \in Answers(u) /\ g[j - 1] = f[j]
    BY <1>2, <2>3
  <2>5. QED
    BY <2>1, <2>2, <2>3, <2>4 DEF Late
<1>10. QED
  BY <1>7, <1>8, <1>9 DEF u, g

LEMMA ConcatOne ==
    ASSUME NEW S, NEW s \in Seq(S), NEW m \in S
    PROVE  s \o <<m>> = Append(s, m) /\ s \o <<>> = s
OBVIOUS

LEMMA AppendTypes ==
    ASSUME NEW s \in Seq(Message), NEW m \in Message
    PROVE  \A i \in DOMAIN Append(s, m) : Append(s, m)[i].type # m.type
              => i \in DOMAIN s /\ Append(s, m)[i] = s[i]
BY AppendFacts

\* The server has ended the listen, and no answer to a later one is under way.
Closed(s) ==
    \E i \in DOMAIN s : s[i].type = "revoke" /\ \A j \in DOMAIN s : j > i => s[j].type # "listen"

LEMMA ClosedAppend ==
    ASSUME NEW s \in Seq(Message), NEW m \in Message, Closed(Append(s, m))
    PROVE  m.type # "listen" /\ (m.type # "revoke" => Closed(s))
<1> DEFINE u == Append(s, m)
           n == Len(s) + 1
<1>1. /\ DOMAIN u = DOMAIN s \cup {n} /\ DOMAIN s = 1..Len(s) /\ Len(s) \in Nat
      /\ \A i \in DOMAIN s : u[i] = s[i]
      /\ u[n] = m
  BY AppendFacts
<1>2. PICK i \in DOMAIN u :
         u[i].type = "revoke" /\ \A j \in DOMAIN u : j > i => u[j].type # "listen"
  BY DEF Closed
<1> HIDE DEF u, n
<1>3. n \in DOMAIN u /\ \A j \in DOMAIN s : j < n
  BY <1>1 DEF n
<1>4. CASE i = n
  BY <1>1, <1>2, <1>4
<1>5. CASE i \in DOMAIN s
  <2>1. m.type # "listen"
    BY <1>1, <1>2, <1>3, <1>5
  <2>2. Closed(s)
    BY <1>1, <1>2, <1>5 DEF Closed
  <2>3. QED
    BY <2>1, <2>2
<1>6. QED
  BY <1>1, <1>2, <1>4, <1>5

LEMMA ClosedTail ==
    ASSUME NEW s \in Seq(Message), s # <<>>, Closed(Tail(s))
    PROVE  Closed(s)
<1> DEFINE u == Tail(s)
<1>1. /\ 1 \in DOMAIN s /\ DOMAIN s = 1..Len(s) /\ Len(s) \in Nat
      /\ DOMAIN u = 1..Len(s) - 1
      /\ \A i \in DOMAIN u : i + 1 \in DOMAIN s /\ i \in Nat /\ i > 0 /\ u[i] = s[i + 1]
  BY TailFacts
<1>2. PICK i \in DOMAIN u :
         u[i].type = "revoke" /\ \A j \in DOMAIN u : j > i => u[j].type # "listen"
  BY DEF Closed
<1> HIDE DEF u
<1>3. i + 1 \in DOMAIN s /\ s[i + 1].type = "revoke"
  BY <1>1, <1>2
<1>4. ASSUME NEW j \in DOMAIN s, j > i + 1
      PROVE  s[j].type # "listen"
  <2>1. j - 1 \in DOMAIN u /\ (j - 1) + 1 = j /\ j - 1 > i
    BY <1>1, <1>2, <1>4
  <2>2. u[j - 1] = s[j]
    BY <1>1, <2>1
  <2>3. QED
    BY <1>2, <2>1, <2>2
<1>5. QED
  BY <1>3, <1>4 DEF Closed

\* Answers under way come with f in their order.  A view that no listen still to
\* be taken will tell everything (sees) has heard of all that is stored, or will
\* with the messages under way, while the server sends its news; when the server
\* has ended the listen, of all but what this device changed since then.
Known(f, s, R, fg, srv, sees, snap, st) ==
    /\ Fits(f, s, R, fg)
    /\ sees /\ srv => \A pa \in Paths : Heard(s, pa, snap[pa], st[pa])
    /\ sees /\ Closed(s) =>
          \A pa \in Paths \ fg : Heard(s, pa, snap[pa], st[pa]) \/ Late(f, s, pa)

Sees == tree.viewed /\ listensSent = 0
KnownInv == \E f :
    Known(f, inbox, responses[Device], foreign, serving, Sees, tree.serverSnap, store)

\* The server answers the put of r: it has written it, if granted, and sent the
\* news of it, if it serves the listen, before the answer m.
AnswersPut(f, s, R, fg, srv, sees, snap, st, r, granted, data, st2, news, m) ==
    /\ s \in Seq(Message) /\ R \in SUBSET Q!Response /\ srv \in BOOLEAN
    /\ st \in Node /\ Known(f, s, R, fg, srv, sees, snap, st)
    /\ r \in Q!Response /\ \A q \in R : q.put.idx < r.put.idx
    /\ granted \in BOOLEAN /\ data \in Message /\ data = Data(r.put.path, r.put.val)
    /\ st2 = IF granted THEN [st EXCEPT ![r.put.path] = r.put.val] ELSE st
    /\ news = IF granted /\ srv THEN Append(s, data) ELSE s
    /\ m \in Message /\ m.type = "answer"

LEMMA KnownAnswered ==
    ASSUME NEW f, NEW s, NEW R, NEW fg, NEW srv, NEW sees, NEW snap, NEW st, NEW r, NEW granted,
           NEW data, NEW st2, NEW news, NEW m,
           AnswersPut(f, s, R, fg, srv, sees, snap, st, r, granted, data, st2, news, m)
    PROVE  \E g : Known(g, Append(news, m), R \cup {r}, fg, srv, sees, snap, st2)
<1> /\ s \in Seq(Message) /\ R \in SUBSET Q!Response /\ srv \in BOOLEAN
    /\ st \in Node /\ Known(f, s, R, fg, srv, sees, snap, st)
    /\ r \in Q!Response /\ \A q \in R : q.put.idx < r.put.idx
    /\ granted \in BOOLEAN /\ data \in Message /\ data = Data(r.put.path, r.put.val)
    /\ st2 = IF granted THEN [st EXCEPT ![r.put.path] = r.put.val] ELSE st
    /\ news = IF granted /\ srv THEN Append(s, data) ELSE s
    /\ m \in Message /\ m.type = "answer"
  BY DEF AnswersPut
<1> DEFINE p == r.put.path
<1>1. /\ news \in Seq(Message) /\ p \in Paths
      /\ data.type = "data" /\ data.path = p /\ data.val = r.put.val
  BY AppendFacts DEF Q!Response, Q!Put, Data
<1> HIDE DEF p
<1>2. Fits(f, news, R, fg \cup {p})
  <2>1. CASE granted /\ srv
    BY <1>1, <2>1, FitsAppend DEF Known
  <2>2. CASE ~(granted /\ srv)
    BY <2>2 DEF Known, Fits
  <2>3. QED
    BY <2>1, <2>2
<1> DEFINE g == Extended(f, news, m, r)
<1>3. /\ Fits(g, Append(news, m), R \cup {r}, fg)
      /\ \A pa : Late(f, news, pa) => Late(g, Append(news, m), pa)
      /\ (\E i \in DOMAIN news : news[i].type = "revoke") => Late(g, Append(news, m), p)
  BY <1>1, <1>2, FitsAnswer DEF p
<1> HIDE DEF g
<1>4. \A pa, x : ~Tells(m, pa) /\ (Tells(data, pa) <=> pa = p) /\ Told(data, p) = r.put.val
  BY <1>1 DEF Tells, Told
<1>5. ASSUME srv, sees, NEW pa \in Paths
      PROVE  Heard(Append(news, m), pa, snap[pa], st2[pa])
  <2>1. Heard(s, pa, snap[pa], st[pa])
    BY <1>5 DEF Known
  <2>2. Heard(news, pa, snap[pa], st2[pa])
    <3>1. CASE granted /\ pa = p
      <4>1. st2[pa] = r.put.val /\ news = Append(s, data)
        BY <1>1, <1>5, <3>1 DEF Node, p
      <4>2. QED
        BY <1>4, <3>1, <4>1, HeardAppend
    <3>2. CASE granted /\ pa # p
      <4>1. st2[pa] = st[pa] /\ news = Append(s, data)
        BY <1>1, <1>5, <3>2 DEF Node, p
      <4>2. QED
        BY <1>4, <2>1, <3>2, <4>1, HeardAppend
    <3>3. CASE ~granted
      BY <2>1, <3>3
    <3>4. QED
      BY <3>1, <3>2, <3>3
  <2>3. QED
    BY <1>1, <1>4, <2>2, HeardAppend
<1>6. ASSUME sees, Closed(Append(news, m)), NEW pa \in Paths \ fg
      PROVE  Heard(Append(news, m), pa, snap[pa], st2[pa]) \/ Late(g, Append(news, m), pa)
  <2>1. CASE srv
    BY <1>5, <1>6, <2>1
  <2>2. CASE ~srv
    <3>1. news = s
      BY <2>2
    <3>2. Closed(s) /\ \E i \in DOMAIN s : s[i].type = "revoke"
      <4>1. Closed(s)
        BY <1>1, <1>6, <3>1, ClosedAppend
      <4>2. QED
        BY <4>1 DEF Closed
    <3>3. CASE pa = p
      BY <1>3, <3>1, <3>2, <3>3
    <3>4. CASE pa # p
      <4>1. st2[pa] = st[pa]
        BY <3>4 DEF Node, p
      <4>2. Heard(s, pa, snap[pa], st[pa]) \/ Late(f, s, pa)
        BY <1>6, <3>2 DEF Known
      <4>3. CASE Heard(s, pa, snap[pa], st[pa])
        BY <1>1, <1>4, <3>1, <4>1, <4>3, HeardAppend
      <4>4. CASE Late(f, s, pa)
        BY <1>3, <3>1, <4>4
      <4>5. QED
        BY <4>2, <4>3, <4>4
    <3>5. QED
      BY <3>3, <3>4
  <2>3. QED
    BY <2>1, <2>2
<1>7. Known(g, Append(news, m), R \cup {r}, fg, srv, sees, snap, st2)
  BY <1>3, <1>5, <1>6 DEF Known
<1>8. QED
  BY <1>7

\* Another device writes v on p.
Overwritten(s, srv, st, p, v, news, st2) ==
    /\ news = IF srv THEN Append(s, Data(p, v)) ELSE s
    /\ st2 = [st EXCEPT ![p] = v]

LEMMA KnownForeign ==
    ASSUME NEW s \in Seq(Message), NEW R, NEW fg, NEW srv \in BOOLEAN, NEW sees,
           NEW snap, NEW st \in Node, NEW f, Known(f, s, R, fg, srv, sees, snap, st),
           NEW p \in Paths, NEW v \in Values \cup {None}, NEW news, NEW st2,
           Overwritten(s, srv, st, p, v, news, st2)
    PROVE  Known(f, news, R, fg \cup {p}, srv, sees, snap, st2)
<1>d. PICK data \in Message : data = Data(p, v)
  BY MessageType
<1>n. news = (IF srv THEN Append(s, data) ELSE s) /\ st2 = [st EXCEPT ![p] = v]
  BY <1>d DEF Overwritten
<1>1. /\ data.type = "data" /\ data.path = p /\ data.val = v
      /\ \A pa : (Tells(data, pa) <=> pa = p) /\ Told(data, p) = v
  BY <1>d DEF Data, Tells, Told
<1>2. Fits(f, news, R, fg \cup {p})
  <2>1. CASE srv
    BY <1>1, <1>n, <2>1, FitsAppend DEF Known
  <2>2. CASE ~srv
    BY <1>n, <2>2 DEF Known, Fits
  <2>3. QED
    BY <2>1, <2>2
<1>3. ASSUME NEW pa \in Paths, Heard(s, pa, snap[pa], st[pa]), pa # p
      PROVE  Heard(news, pa, snap[pa], st2[pa])
  <2>1. st2[pa] = st[pa]
    BY <1>3, <1>n DEF Node
  <2>2. QED
    BY <1>1, <1>3, <1>n, <2>1, HeardAppend
<1>4. ASSUME srv, sees, NEW pa \in Paths
      PROVE  Heard(news, pa, snap[pa], st2[pa])
  <2>1. CASE pa = p
    <3>1. st2[pa] = v
      BY <1>n, <2>1 DEF Node
    <3>2. QED
      BY <1>1, <1>4, <1>n, <2>1, <3>1, HeardAppend
  <2>2. QED
    BY <1>3, <1>4, <2>1 DEF Known
<1>5. ASSUME sees, Closed(news), NEW pa \in Paths \ (fg \cup {p})
      PROVE  Heard(news, pa, snap[pa], st2[pa]) \/ Late(f, news, pa)
  <2>1. CASE srv
    BY <1>4, <1>5, <2>1
  <2>2. CASE ~srv
    BY <1>3, <1>5, <1>n, <2>2 DEF Known
  <2>3. QED
    BY <2>1, <2>2
<1>6. QED
  BY <1>2, <1>4, <1>5 DEF Known

\* The server takes the listen, and tells everything if it grants it.
LEMMA KnownListened ==
    ASSUME NEW s \in Seq(Message), NEW R, NEW fg, NEW ok \in BOOLEAN, NEW sees,
           NEW snap, NEW st \in Node, NEW f, Fits(f, s, R, fg),
           NEW whole \in Message, whole = [type |-> "node", node |-> st],
           NEW news, news = IF ok THEN Append(s, whole) ELSE s,
           NEW m \in Message, m.type = "listen"
    PROVE  Known(f, Append(news, m), R, fg, ok, sees, snap, st)
<1>1. /\ whole.type = "node" /\ \A pa : Tells(whole, pa) /\ Told(whole, pa) = st[pa]
      /\ \A pa : ~Tells(m, pa)
      /\ news \in Seq(Message)
  BY AppendFacts DEF Tells, Told
<1>2. Fits(f, news, R, fg)
  BY <1>1, FitsAppend
<1>3. Fits(f, Append(news, m), R, fg)
  BY <1>1, <1>2, FitsAppend
<1>4. ASSUME ok, NEW pa \in Paths
      PROVE  Heard(Append(news, m), pa, snap[pa], st[pa])
  <2>1. Heard(news, pa, snap[pa], st[pa])
    BY <1>1, <1>4, HeardAppend
  <2>2. QED
    BY <1>1, <2>1, HeardAppend
<1>5. ~Closed(Append(news, m))
  BY <1>1, ClosedAppend
<1>6. QED
  BY <1>3, <1>4, <1>5 DEF Known

\* The server stops sending its news.
LEMMA KnownRevoked ==
    ASSUME NEW s \in Seq(Message), NEW R, NEW fg, NEW sees,
           NEW snap, NEW st, NEW f, Known(f, s, R, fg, TRUE, sees, snap, st),
           NEW m \in Message, m.type = "revoke"
    PROVE  Known(f, Append(s, m), R, fg, FALSE, sees, snap, st)
<1>1. Fits(f, Append(s, m), R, fg)
  BY FitsAppend DEF Known
<1>2. sees => \A pa \in Paths : Heard(Append(s, m), pa, snap[pa], st[pa])
  BY HeardAppend DEF Known, Tells
<1>3. QED
  BY <1>1, <1>2 DEF Known

\* The first message is received, and the view knows what it tells.
Learns(snap2, snap, s) ==
    \A pa \in Paths : snap2[pa] = IF Tells(s[1], pa) THEN Told(s[1], pa) ELSE snap[pa]
LEMMA KnownTail ==
    ASSUME NEW s \in Seq(Message), s # <<>>, NEW R \in SUBSET Q!Response, NEW fg,
           NEW srv \in BOOLEAN, NEW sees, NEW snap, NEW st, NEW f,
           Known(f, s, R, fg, srv, sees, snap, st),
           NEW sees2, NEW snap2,
           sees2 => sees /\ s[1].type # "revoke" /\ Learns(snap2, snap, s)
    PROVE  /\ s[1].type # "answer" => Known(Later(f, s), Tail(s), R, fg, srv, sees2, snap2, st)
           /\ s[1].type = "answer" => \A r \in R :
                 Oldest(r, R) => Known(Later(f, s), Tail(s), R \ {r}, fg, srv, sees2, snap2, st)
<1>1. /\ s[1].type # "answer" => Fits(Later(f, s), Tail(s), R, fg)
      /\ s[1].type = "answer" => \A r \in R : Oldest(r, R) => Fits(Later(f, s), Tail(s), R \ {r}, fg)
      /\ \A pa : s[1].type # "revoke" /\ Late(f, s, pa) => Late(Later(f, s), Tail(s), pa)
  BY FitsTail DEF Known
<1>2. ASSUME sees2, NEW pa \in Paths, Heard(s, pa, snap[pa], st[pa])
      PROVE  Heard(Tail(s), pa, snap2[pa], st[pa])
  BY <1>2, HeardTail DEF Learns
<1>3. sees2 /\ srv => \A pa \in Paths : Heard(Tail(s), pa, snap2[pa], st[pa])
  BY <1>2 DEF Known
<1>4. ASSUME sees2, Closed(Tail(s)), NEW pa \in Paths \ fg
      PROVE  Heard(Tail(s), pa, snap2[pa], st[pa]) \/ Late(Later(f, s), Tail(s), pa)
  <2>1. Closed(s)
    BY <1>4, ClosedTail
  <2>2. Heard(s, pa, snap[pa], st[pa]) \/ Late(f, s, pa)
    BY <1>4, <2>1 DEF Known
  <2>3. QED
    BY <1>1, <1>2, <1>4, <2>2
<1>5. QED
  BY <1>1, <1>3, <1>4 DEF Known

-----------------------------------------------------------------------------
(* The steps keep KnownInv.                                                *)

\* The server's answer joins those under way: it is to the newest of their puts.
LEMMA ProcessFacts ==
    ASSUME PipeInv, Q!Process(Device)
    PROVE  LET m == OldestRequest
           IN  /\ m \in Q!Request
               /\ responses'[Device] = responses[Device] \cup {[put |-> m.put, ok |-> Q!Granted(m)]}
               /\ store' = IF Q!Granted(m) THEN [store EXCEPT ![m.put.path] = m.put.val] ELSE store
               /\ \A q \in responses[Device] : q.put.idx < m.put.idx
<1>1. PICK m \in wire[Device] : Q!Process(Device)!(m)
  BY DEF Q!Process
<1>2. /\ wire[Device] \in SUBSET Q!Request /\ Device \in DOMAIN responses
      /\ QP!Sent(Device) /\ QP!Indexed(Device) /\ QP!Once(Device)
      /\ outstandingPuts[Device] \in SUBSET Q!Put
  BY DEF PipeInv, Q!TypeOK, QP!DeviceInv
<1>3. \A n \in wire[Device] : n.put \in outstandingPuts[Device] /\ n.put.idx \in Nat
  BY <1>2 DEF QP!Sent, Q!Put
<1>4. \A n \in wire[Device] : (\A k \in wire[Device] : n.put.idx <= k.put.idx) => n = m
  <2> SUFFICES ASSUME NEW n \in wire[Device], \A k \in wire[Device] : n.put.idx <= k.put.idx
               PROVE  n = m
    OBVIOUS
  <2>1. n.put.idx <= m.put.idx /\ m.put.idx <= n.put.idx
    BY <1>1
  <2>2. n.put.idx = m.put.idx
    BY <1>3, <2>1
  <2>3. n.put = m.put
    BY <1>2, <1>3, <2>2 DEF QP!Indexed
  <2>4. QED
    BY <1>2, <2>3 DEF QP!Once
<1>5. OldestRequest = m
  <2>1. \A n \in wire[Device] : m.put.idx <= n.put.idx
    BY <1>1
  <2>2. QED
    BY <1>4, <2>1 DEF OldestRequest
<1>6. responses'[Device] = responses[Device] \cup {[put |-> m.put, ok |-> Q!Granted(m)]}
  BY <1>1, <1>2
<1>7. \A q \in responses[Device] : q.put.idx < m.put.idx
  BY <1>2 DEF QP!Sent
<1>8. store' = IF Q!Granted(m) THEN [store EXCEPT ![m.put.path] = m.put.val] ELSE store
  BY <1>1
<1>9. QED
  BY <1>2, <1>5, <1>6, <1>7, <1>8

LEMMA KnownInit == Init => KnownInv
<1> SUFFICES ASSUME Init PROVE KnownInv
  OBVIOUS
<1>1. inbox = <<>> /\ responses[Device] = {} /\ ~serving
  BY DEF Init, Q!Init
<1>2. DOMAIN inbox = {} /\ Answers(inbox) = {}
  BY <1>1 DEF Answers
<1>3. [i \in {} |-> i] \in [{} -> {}]
  OBVIOUS
<1>4. Known([i \in {} |-> i], inbox, responses[Device], foreign, serving, Sees, tree.serverSnap, store)
  BY <1>1, <1>2, <1>3 DEF Known, Fits, Closed
<1>5. QED
  BY <1>4 DEF KnownInv

\* Most steps have nothing to do with it: the view knows no more is to be heard,
\* or there is nothing under way.
LEMMA KnownKept ==
    ASSUME KnownInv, UNCHANGED <<inbox, foreign>>, responses'[Device] = responses[Device],
           \/ Sees' => Sees /\ UNCHANGED <<serving, store>> /\ tree'.serverSnap = tree.serverSnap
           \/ ~serving' /\ inbox' = <<>>
    PROVE  KnownInv'
<1>1. PICK f : Known(f, inbox, responses[Device], foreign, serving, Sees, tree.serverSnap, store)
  BY DEF KnownInv
<1>2. inbox' = <<>> => ~Closed(inbox')
  BY DEF Closed
<1>3. Known(f, inbox', responses'[Device], foreign', serving', Sees', tree'.serverSnap, store')
  BY <1>1, <1>2 DEF Known
<1>4. QED
  BY <1>3 DEF KnownInv

\* A message is received.
LEMMA KnownReceived ==
    ASSUME IInv, KnownInv, inbox # <<>>, inbox' = Tail(inbox),
           UNCHANGED <<serving, listensSent, store, foreign>>,
           tree'.viewed => tree.viewed /\ inbox[1].type # "revoke"
                           /\ Learns(tree'.serverSnap, tree.serverSnap, inbox),
           IF inbox[1].type = "answer"
           THEN \E r \in responses[Device] :
                   /\ \A q \in responses[Device] : r.put.idx <= q.put.idx
                   /\ responses'[Device] = responses[Device] \ {r}
           ELSE responses'[Device] = responses[Device]
    PROVE  KnownInv'
<1>1. PICK f : Known(f, inbox, responses[Device], foreign, serving, Sees, tree.serverSnap, store)
  BY DEF KnownInv
<1>2. /\ inbox \in Seq(Message) /\ responses[Device] \in SUBSET Q!Response
      /\ serving \in BOOLEAN
  BY InboxTypes
<1>s. PICK s, R, fg, srv, sees, snap, st :
        /\ s = inbox /\ R = responses[Device] /\ fg = foreign /\ srv = serving
        /\ sees = Sees /\ snap = tree.serverSnap /\ st = store
  OBVIOUS
<1>5. PICK snap2, sees2 : snap2 = tree'.serverSnap /\ sees2 = Sees'
  OBVIOUS
<1>6. /\ s \in Seq(Message) /\ s # <<>> /\ R \in SUBSET Q!Response /\ srv \in BOOLEAN
      /\ Known(f, s, R, fg, srv, sees, snap, st)
      /\ sees2 => sees /\ s[1].type # "revoke" /\ Learns(snap2, snap, s)
  <2>1. sees2 => sees /\ s[1].type # "revoke" /\ Learns(snap2, snap, s)
    BY <1>s, <1>5 DEF Sees
  <2>2. Known(f, s, R, fg, srv, sees, snap, st)
    BY <1>1, <1>s
  <2>3. QED
    BY <1>2, <1>s, <2>1, <2>2
<1>7. CASE inbox[1].type = "answer"
  <2>1. PICK r \in responses[Device] :
           /\ \A q \in responses[Device] : r.put.idx <= q.put.idx
           /\ responses'[Device] = responses[Device] \ {r}
    BY <1>7
  <2>2. r \in R /\ Oldest(r, R) /\ s[1].type = "answer"
    BY <1>7, <1>s, <2>1 DEF Oldest
  <2>4. Known(Later(f, s), Tail(s), R \ {r}, fg, srv, sees2, snap2, st)
    BY <1>6, <2>2, KnownTail
  <2>5. QED
    BY <1>5, <1>s, <2>1, <2>4 DEF KnownInv
<1>8. CASE inbox[1].type # "answer"
  <2>1. s[1].type # "answer"
    BY <1>8, <1>s
  <2>2. Known(Later(f, s), Tail(s), R, fg, srv, sees2, snap2, st)
    BY <1>6, <2>1, KnownTail
  <2>3. QED
    BY <1>5, <1>8, <1>s, <2>2 DEF KnownInv
<1>9. QED
  BY <1>7, <1>8

LEMMA KnownProcess ==
    ASSUME IInv, KnownInv, Process
    PROVE  KnownInv'
<1> DEFINE m == OldestRequest
           r == [put |-> m.put, ok |-> Q!Granted(m)]
           data == Data(m.put.path, m.put.val)
           granted == Q!Granted(m)
           answer == [type |-> "answer"]
           news == IF granted /\ serving THEN Append(inbox, data) ELSE inbox
<1>1. PICK f : Known(f, inbox, responses[Device], foreign, serving, Sees, tree.serverSnap, store)
  BY DEF KnownInv
<1>2. /\ inbox \in Seq(Message) /\ responses[Device] \in SUBSET Q!Response
      /\ serving \in BOOLEAN /\ store \in Node
  BY InboxTypes
<1>3. /\ Q!Process(Device) /\ Sees' = Sees
      /\ inbox' = inbox \o (IF granted THEN NewsOf(m.put.path, m.put.val) ELSE <<>>) \o <<answer>>
      /\ UNCHANGED <<tree, serving, foreign>>
  BY DEF Process, listenVars, foreignVars, Sees
<1>4. /\ m \in Q!Request
      /\ responses'[Device] = responses[Device] \cup {r}
      /\ store' = IF granted THEN [store EXCEPT ![m.put.path] = m.put.val] ELSE store
      /\ \A q \in responses[Device] : q.put.idx < m.put.idx
  BY <1>3, ProcessFacts DEF IInv
<1>5. /\ granted \in BOOLEAN /\ m.put \in Q!Put /\ m.put.path \in Paths
      /\ m.put.val \in Values \cup {None}
  BY <1>4 DEF Q!Request, Q!Put, Q!Granted
<1>6. r \in Q!Response /\ r.put = m.put
  BY <1>5 DEF Q!Response
<1>7. data \in Message /\ answer \in Message /\ answer.type = "answer"
  BY <1>5, MessageType
<1> HIDE DEF r, m, granted, answer
<1>8. inbox' = Append(news, answer)
  <2>1. inbox \o (IF granted THEN NewsOf(m.put.path, m.put.val) ELSE <<>>) = news
    BY <1>2, <1>7, ConcatOne DEF NewsOf
  <2>2. news \in Seq(Message)
    BY <1>2, <1>7
  <2>3. QED
    BY <1>3, <1>7, <2>1, <2>2, ConcatOne, ZenonT(30)
<1>9. PICK st2 : st2 = IF granted THEN [store EXCEPT ![r.put.path] = r.put.val] ELSE store
  OBVIOUS
<1>10. PICK n : n = news
  OBVIOUS
<1>11. PICK d : d = data
  OBVIOUS
<1>12. /\ n = IF granted /\ serving THEN Append(inbox, d) ELSE inbox
       /\ d = Data(r.put.path, r.put.val) /\ d \in Message
  BY <1>6, <1>7, <1>10, <1>11
<1>13. \A q \in responses[Device] : q.put.idx < r.put.idx
  BY <1>4, <1>6
<1> HIDE DEF news, data
<1>14. \E g : Known(g, Append(n, answer), responses[Device] \cup {r}, foreign, serving,
                    Sees, tree.serverSnap, st2)
  <2>1. AnswersPut(f, inbox, responses[Device], foreign, serving, Sees, tree.serverSnap, store,
                r, granted, d, st2, n, answer)
    BY <1>1, <1>2, <1>5, <1>6, <1>7, <1>9, <1>12, <1>13 DEF AnswersPut
  <2>2. QED
    BY <2>1, KnownAnswered
<1>15. store' = st2
  BY <1>4, <1>6, <1>9
<1>16. QED
  BY <1>3, <1>4, <1>8, <1>10, <1>14, <1>15 DEF KnownInv

LEMMA KnownForeignPut ==
    ASSUME IInv, KnownInv, NEW pa \in Paths, NEW v \in Values \cup {None}, ForeignPut(pa, v)
    PROVE  KnownInv'
<1>1. PICK f : Known(f, inbox, responses[Device], foreign, serving, Sees, tree.serverSnap, store)
  BY DEF KnownInv
<1>2. inbox \in Seq(Message) /\ serving \in BOOLEAN /\ store \in Node
  BY InboxTypes
<1>3. /\ inbox' = inbox \o NewsOf(pa, v) /\ store' = [store EXCEPT ![pa] = v]
      /\ foreign' = foreign \cup {pa}
      /\ UNCHANGED <<tree, serving, listensSent, responses>>
  BY DEF ForeignPut, deviceQueueVars, listenVars
<1>4. PICK n, st2 : Overwritten(inbox, serving, store, pa, v, n, st2)
  BY DEF Overwritten
<1>5. Data(pa, v) \in Message
  BY MessageType
<1>6. inbox' = n /\ store' = st2
  BY <1>2, <1>3, <1>4, <1>5, ConcatOne DEF NewsOf, Overwritten
<1>7. Known(f, n, responses[Device], foreign \cup {pa}, serving, Sees, tree.serverSnap, st2)
  <2>1. PICK s, R, fg, srv, sees, snap, st :
          /\ s = inbox /\ R = responses[Device] /\ fg = foreign /\ srv = serving
          /\ sees = Sees /\ snap = tree.serverSnap /\ st = store
    OBVIOUS
  <2>2. /\ s \in Seq(Message) /\ srv \in BOOLEAN /\ st \in Node
        /\ Known(f, s, R, fg, srv, sees, snap, st)
        /\ Overwritten(s, srv, st, pa, v, n, st2)
    BY <1>1, <1>2, <1>4, <2>1
  <2>3. Known(f, n, R, fg \cup {pa}, srv, sees, snap, st2)
    BY <2>2, KnownForeign
  <2>4. QED
    BY <2>1, <2>3
<1>8. QED
  BY <1>3, <1>6, <1>7 DEF KnownInv, Sees

LEMMA KnownTakeListen ==
    ASSUME IInv, KnownInv, NEW ok \in BOOLEAN, TakeListen(ok)
    PROVE  KnownInv'
<1>1. PICK f : Known(f, inbox, responses[Device], foreign, serving, Sees, tree.serverSnap, store)
  BY DEF KnownInv
<1>2. inbox \in Seq(Message) /\ store \in Node
  BY InboxTypes
<1> DEFINE whole == [type |-> "node", node |-> store]
           a == [type |-> "listen", ok |-> ok]
<1>3. /\ serving' = ok
      /\ inbox' = inbox \o (IF ok THEN <<whole>> ELSE <<>>) \o <<a>>
      /\ UNCHANGED <<tree, store, responses, foreign>>
  BY DEF TakeListen, queueVars, foreignVars
<1>4. whole \in Message /\ a \in Message /\ a.type = "listen"
  BY <1>2, MessageType
<1>6. PICK w, n, m : /\ w = whole /\ n = (IF ok THEN Append(inbox, w) ELSE inbox) /\ m = a
  OBVIOUS
<1>7. w = [type |-> "node", node |-> store] /\ w \in Message /\ m \in Message /\ m.type = "listen"
  BY <1>4, <1>6
<1>8. inbox' = Append(n, m)
  <2> HIDE DEF whole, a
  <2>1. inbox \o (IF ok THEN <<whole>> ELSE <<>>) = n /\ n \in Seq(Message)
    BY <1>2, <1>4, <1>6, ConcatOne, AppendFacts
  <2>2. QED
    BY <1>3, <1>4, <1>6, <2>1, ConcatOne, ZenonT(30)
<1>9. Fits(f, inbox, responses[Device], foreign)
  BY <1>1 DEF Known
<1> HIDE DEF whole, a
<1>5. PICK sees : sees = Sees'
  OBVIOUS
<1>10. Known(f, Append(n, m), responses[Device], foreign, ok, sees, tree.serverSnap, store)
  BY <1>2, <1>6, <1>7, <1>9, KnownListened
<1>11. QED
  BY <1>3, <1>5, <1>8, <1>10 DEF KnownInv

LEMMA KnownRevokeListen ==
    ASSUME IInv, KnownInv, RevokeListen
    PROVE  KnownInv'
<1>1. PICK f : Known(f, inbox, responses[Device], foreign, serving, Sees, tree.serverSnap, store)
  BY DEF KnownInv
<1> DEFINE m == [type |-> "revoke"]
<1>2. /\ serving /\ serving' = FALSE /\ inbox' = Append(inbox, m)
      /\ UNCHANGED <<tree, listensSent, store, responses, foreign>>
  BY DEF RevokeListen, queueVars, foreignVars
<1>3. inbox \in Seq(Message) /\ m \in Message /\ m.type = "revoke"
  BY InboxTypes, MessageType
<1> HIDE DEF m
<1>4. Known(f, inbox, responses[Device], foreign, TRUE, Sees, tree.serverSnap, store)
  BY <1>1, <1>2 DEF Known
<1>5. Known(f, Append(inbox, m), responses[Device], foreign, FALSE, Sees, tree.serverSnap, store)
  BY <1>3, <1>4, KnownRevoked
<1>6. QED
  BY <1>2, <1>5 DEF KnownInv, Sees

LEMMA KnownDisconnect ==
    ASSUME IInv, Disconnect
    PROVE  KnownInv'
<1>1. inbox' = <<>> /\ serving' = FALSE /\ responses'[Device] = {}
  <2>1. Device \in DOMAIN responses
    BY DEF IInv, TypeOK, Q!TypeOK
  <2>2. QED
    BY <2>1 DEF Disconnect, onDisconnect, Q!Disconnect
<1>2. Answers(<<>>) = {} /\ DOMAIN <<>> = {}
  BY DEF Answers
<1>3. [i \in {} |-> i] \in [{} -> {}]
  OBVIOUS
<1>4. \A fg, sees, snap, st : Known([i \in {} |-> i], <<>>, {}, fg, FALSE, sees, snap, st)
  BY <1>2, <1>3 DEF Known, Fits, Closed
<1>5. QED
  BY <1>1, <1>4 DEF KnownInv

\* News is taken into the view; the other messages tell nothing of the store.
LEMMA KnownReceive ==
    ASSUME IInv, IssuedInv, KnownInv, ~acking, Receive
    PROVE  KnownInv'
<1>1. /\ inbox # <<>> /\ inbox' = Tail(inbox) /\ UNCHANGED <<serving, listensSent>>
      /\ tree'.viewed => tree.viewed /\ inbox[1].type # "revoke"
                         /\ Learns(tree'.serverSnap, tree.serverSnap, inbox)
  BY ReceiveTakes DEF Takes, Stays, Learns
<1>2. Head(inbox) = inbox[1]
  BY <1>1, InboxTypes, TailFacts
<1>3. CASE ReceiveAnswer
  <2>1. inbox[1].type = "answer" /\ Q!Answer(Device) /\ foreign' = foreign
    BY <1>2, <1>3 DEF ReceiveAnswer, Receives, foreignVars
  <2>2. Device \in DOMAIN responses
    BY DEF IInv, TypeOK, Q!TypeOK
  <2>3. store' = store /\ \E r \in responses[Device] :
           /\ \A q \in responses[Device] : r.put.idx <= q.put.idx
           /\ responses'[Device] = responses[Device] \ {r}
    BY <2>1, <2>2 DEF Q!Answer
  <2>4. QED
    BY <1>1, <2>1, <2>3, KnownReceived
<1>4. CASE ReceiveData \/ ReceiveNode \/ ReceiveListen \/ ReceiveStale \/ ReceiveRevoke
  <2>1. inbox[1].type # "answer" /\ UNCHANGED <<store, responses, foreign>>
    BY <1>2, <1>4 DEF ReceiveData, ReceiveNode, ReceiveListen, ReceiveStale, ReceiveRevoke,
         Receives, queueVars, foreignVars
  <2>2. QED
    BY <1>1, <2>1, KnownReceived
<1>5. QED
  BY <1>3, <1>4 DEF Receive

LEMMA KnownStep ==
    ASSUME IInv, IssuedInv, KnownInv, [Next]_vars
    PROVE  KnownInv'
<1>1. CASE ackPuts
  <2>1. /\ tree'.serverSnap = tree.serverSnap /\ tree'.viewed = tree.viewed
        /\ listensSent' = listensSent
    BY <1>1, AckPutsActs DEF Acks
  <2>2. UNCHANGED <<inbox, foreign, responses, serving, store>>
    BY <1>1 DEF ackPuts, listenVars, foreignVars, queueVars
  <2>3. QED
    BY <2>1, <2>2, KnownKept DEF Sees
<1>2. CASE ~acking /\ OnQueue
  <2>1. CASE addEventRegistration
    <3>1. UNCHANGED <<inbox, foreign, responses, serving, store>>
      BY <2>1 DEF addEventRegistration, foreignVars, queueVars
    <3>2. CASE tree.viewed
      <4>1. UNCHANGED <<tree, listensSent>>
        BY <2>1, <3>2 DEF addEventRegistration
      <4>2. QED
        BY <3>1, <4>1, KnownKept DEF Sees
    <3>3. CASE ~tree.viewed /\ Opened
      <4>1. listensSent' = listensSent + 1 /\ listensSent \in Nat
        BY <2>1, <3>3, ListenTypes DEF addEventRegistration, sendListen, IInv
      <4>2. ~Sees'
        BY <4>1 DEF Sees
      <4>3. QED
        BY <3>1, <4>2, KnownKept
    <3>4. CASE ~Opened
      <4>1. ~serving' /\ inbox' = <<>>
        BY <3>1, <3>4 DEF Opened, IInv, ListenInv
      <4>2. QED
        BY <3>1, <4>1, KnownKept
    <3>5. QED
      BY <3>2, <3>3, <3>4
  <2>2. CASE restoreAuth \/ Authenticated \/ AuthFailed
    <3>1. ~connected[Device]
      BY <2>2 DEF restoreAuth, Authenticated, AuthFailed, IInv, ListenInv
    <3>2. inbox = <<>> /\ ~serving
      BY <3>1 DEF IInv, ListenInv
    <3>3. UNCHANGED <<responses, foreign>> /\ inbox' = <<>> /\ ~serving'
      BY <2>2, <3>2 DEF restoreAuth, Authenticated, restoreState, AuthFailed, onDisconnect, Q!Connect,
           queueVars, foreignVars
    <3>4. QED
      BY <3>2, <3>3, KnownKept
  <2>3. CASE Disconnect
    BY <2>3, KnownDisconnect
  <2>4. CASE SignIn \/ SignOut
    <3>1. UNCHANGED <<inbox, foreign, responses, serving, store, tree, listensSent>>
      BY <2>4 DEF SignIn, SignOut, Q!SignIn, Q!SignOut, listenVars, foreignVars
    <3>2. QED
      BY <3>1, KnownKept DEF Sees
  <2>5. CASE Receive
    BY <1>2, <2>5, KnownReceive
  <2>6. CASE \E pa \in Paths, v \in Values \cup {None} : set([path |-> pa, val |-> v])
    <3>1. PICK w \in [path : Paths, val : Values \cup {None}] : set(w)
      BY <2>6
    <3>2. /\ tree'.serverSnap = tree.serverSnap /\ tree'.viewed = tree.viewed
          /\ UNCHANGED <<inbox, serving, listensSent, foreign>>
      BY <3>1, SetIssues DEF Issues
    <3>3. UNCHANGED <<store, responses>>
      BY <3>1 DEF set, Q!Issue
    <3>4. QED
      BY <3>2, <3>3, KnownKept DEF Sees
  <2>7. QED
    BY <1>2, <2>1, <2>2, <2>3, <2>4, <2>5, <2>6 DEF OnQueue
<1>3. CASE Observe \/ Deliver \/ UNCHANGED vars
  <2>1. UNCHANGED <<inbox, foreign, responses, serving, store, tree, listensSent>>
    BY <1>3 DEF Observe, Deliver, queueVars, listenVars, foreignVars, vars
  <2>2. QED
    BY <2>1, KnownKept DEF Sees
<1>4. CASE Process \/ RevokeListen
  BY <1>4, KnownProcess, KnownRevokeListen
<1>5. CASE \E ok \in BOOLEAN : TakeListen(ok)
  BY <1>5, KnownTakeListen
<1>6. CASE \E pa \in Paths, v \in Values \cup {None} : v # store[pa] /\ ForeignPut(pa, v)
  BY <1>6, KnownForeignPut
<1>8. QED
  BY <1>1, <1>2, <1>3, <1>4, <1>5, <1>6 DEF Next

\* Each put with an answer to come goes on being a pending write.
LEMMA IssuedStep ==
    ASSUME IInv, IssuedInv, [Next]_vars
    PROVE  IssuedInv'
<1>1. tree.allWrites \in Seq(Q!Put)
  BY InboxTypes, TreeFields
<1>2. CASE Acks
  <2> SUFFICES ASSUME NEW pt \in Expected'
               PROVE  \E i \in DOMAIN tree'.allWrites : tree'.allWrites[i] = pt
    BY DEF IssuedInv
  <2>1. PICK k \in DOMAIN tree.allWrites :
           /\ tree'.allWrites = RemoveAt(tree.allWrites, k)
           /\ \A p \in Expected' : p \in Expected /\ p # tree.allWrites[k]
    BY <1>2 DEF Acks
  <2>2. PICK i \in DOMAIN tree.allWrites : tree.allWrites[i] = pt
    BY <2>1 DEF IssuedInv
  <2>3. i < k \/ i > k
    <3>1. i # k
      BY <2>1, <2>2
    <3>2. i \in Nat /\ k \in Nat
      BY <1>1
    <3>3. QED
      BY <3>1, <3>2
  <2>4. QED
    BY <1>1, <2>1, <2>2, <2>3, RemoveKeeps
<1>3. ASSUME NEW p, Issues(p)
      PROVE  IssuedInv'
  <2> SUFFICES ASSUME NEW pt \in Expected'
               PROVE  \E i \in DOMAIN tree'.allWrites : tree'.allWrites[i] = pt
    BY DEF IssuedInv
  <2>1. /\ p \in Q!Put /\ tree'.allWrites = Append(tree.allWrites, p)
        /\ pt \in Expected \/ pt = p
    BY <1>3 DEF Issues
  <2>2. CASE pt = p
    BY <1>1, <2>1, <2>2, AppendFacts
  <2>3. CASE pt \in Expected
    <3>1. PICK i \in DOMAIN tree.allWrites : tree.allWrites[i] = pt
      BY <2>3 DEF IssuedInv
    <3>2. i \in DOMAIN Append(tree.allWrites, p) /\ Append(tree.allWrites, p)[i] = tree.allWrites[i]
      BY <1>1, <2>1, AppendFacts
    <3>3. QED
      BY <2>1, <3>1, <3>2
  <2>4. QED
    BY <2>1, <2>2, <2>3
<1>4. CASE Leaves
  BY <1>4 DEF Leaves, SameWrites, IssuedInv
<1>5. QED
  BY <1>2, <1>3, <1>4, WriteKinds

LEMMA InitIssued == Init => IssuedInv
<1> SUFFICES ASSUME Init PROVE IssuedInv
  OBVIOUS
<1>1. outstandingPuts[Device] = {} /\ putsToAck = <<>>
  BY DEF Init, Q!Init
<1>2. Expected = {}
  BY <1>1 DEF Expected
<1>3. QED
  BY <1>2 DEF IssuedInv

LEMMA AlwaysKnown == Spec => [](IInv /\ IssuedInv /\ KnownInv)
<1>1. Init => IInv /\ IssuedInv /\ KnownInv
  BY InitInv, InitIssued, KnownInit
<1>2. IInv /\ IssuedInv /\ KnownInv /\ [Next]_vars => (IInv /\ IssuedInv /\ KnownInv)'
  BY NextInv, IssuedStep, KnownStep
<1>3. QED
  BY <1>1, <1>2, PTL DEF Spec

\* No listen to be answered: none to be taken, and no answer under way.
LEMMA AllTaken ==
    ASSUME IInv, unackedListens = 0
    PROVE  listensSent = 0 /\ \A i \in DOMAIN inbox : inbox[i].type # "listen"
<1>0. inbox \in Seq(Message) /\ listensSent \in Nat /\ DOMAIN inbox = 1..Len(inbox)
      /\ Len(inbox) \in Nat
  BY ListenTypes DEF IInv
<1>f. IsFiniteSet(Listens(inbox))
  <2>1. IsFiniteSet(1..Len(inbox)) /\ Listens(inbox) \subseteq 1..Len(inbox)
    BY <1>0, FS_Interval DEF Listens
  <2>2. QED
    BY <2>1, FS_Subset
<1>1. Cardinality(Listens(inbox)) \in Nat
  BY <1>0, ListensCount
<1>2. 0 = listensSent + Cardinality(Listens(inbox))
  BY DEF IInv, ListenInv
<1>3. listensSent = 0 /\ Cardinality(Listens(inbox)) = 0
  BY <1>0, <1>1, <1>2
<1>4. Listens(inbox) = {}
  BY <1>3, <1>f, FS_EmptySet
<1>5. QED
  BY <1>3, <1>4 DEF Listens

\* No news is lost: hidden by pending writes, or come before the answer to the
\* listen, it is in the view when nothing is pending or under way, and a refused
\* put has left no trace (FWriteTree.m, FPersistentConnection.m onDataUpdate).
THEOREM SyncAtRestExact == Spec => []AtRestExact
<1>1. ASSUME IInv, KnownInv, tree.viewed, serving, unackedListens = 0, inbox = <<>>, tree.allWrites = <<>>
      PROVE  tree.eventSnap = store
  <2>1. /\ tree \in Tree /\ tree.serverSnap \in Node /\ store \in Node /\ Sound(tree)
    BY <1>1, InboxTypes, TreeFields DEF IInv
  <2>0. Sees
    BY <1>1, AllTaken DEF Sees
  <2>2. \A pa \in Paths : Heard(inbox, pa, tree.serverSnap[pa], store[pa])
    BY <1>1, <2>0 DEF KnownInv, Known
  <2>3. \A pa \in Paths : tree.serverSnap[pa] = store[pa]
    BY <1>1, <2>2 DEF Heard
  <2>4. tree.serverSnap = store
    BY <2>1, <2>3 DEF Node
  <2>5. DOMAIN tree.visibleWrites = {}
    BY <1>1, <2>1 DEF Sound, LayerTree
  <2>6. Apply(tree.visibleWrites, tree.serverSnap) = tree.serverSnap
    BY <2>1, <2>5 DEF Apply, Node
  <2>7. QED
    BY <2>1, <2>4, <2>6 DEF Sound
<1>2. IInv /\ IssuedInv /\ KnownInv => AtRestExact
  BY <1>1 DEF AtRestExact
<1>3. QED
  BY <1>2, AlwaysKnown, PTL

-----------------------------------------------------------------------------
(* An own write stays on the screen: OwnWritesStay.                        *)

\* What is visible is the last put, unless an answer was abandoned.
VisibleInv == \A pa \in DOMAIN tree.visibleWrites \ abandoned :
                 tree.visibleWrites[pa] = lastPut[Device][pa]

LEMMA VisibleStep ==
    ASSUME IInv, IssuedInv, VisibleInv, [Next]_vars
    PROVE  VisibleInv'
<1> DEFINE w == tree.allWrites
<1>1. /\ w \in Seq(Q!Put) /\ tree.visibleWrites = LayerTree(w)
      /\ tree.visibleWrites \in CompoundWrite
  BY InboxTypes, TreeFields DEF IInv, Sound
<1>2. CASE Acks
  <2>1. PICK k \in DOMAIN w :
           /\ tree'.visibleWrites = LayerTree(RemoveAt(w, k))
           /\ \A i \in DOMAIN w : i < k => w[i].path \in abandoned
    BY <1>2 DEF Acks
  <2>2. UNCHANGED <<lastPut, abandoned>>
    BY <1>2 DEF Acks
  <2> HIDE DEF w
  <2>3. ASSUME NEW pa \in DOMAIN LayerTree(RemoveAt(w, k)), pa \notin abandoned
        PROVE  pa \in DOMAIN LayerTree(w) /\ LayerTree(RemoveAt(w, k))[pa] = LayerTree(w)[pa]
    <3>1. pa \in DOMAIN LayerTree(w)
      BY <1>1, LayerRemove
    <3>2. CASE pa # w[k].path \/ Shadowed(w, k)
      BY <1>1, <3>1, <3>2, LayerRemove
    <3>3. CASE pa = w[k].path /\ ~Shadowed(w, k)
      <4>1. ~Overlaps(w, k)
        BY <2>1, <2>3, <3>3 DEF Overlaps
      <4>2. LayerTree(RemoveAt(w, k)) = Without(LayerTree(w), w[k].path)
        BY <1>1, <3>3, <4>1, LayerRemove
      <4>3. QED
        BY <2>3, <3>3, <4>2 DEF Without
    <3>4. QED
      BY <3>2, <3>3
  <2>4. QED
    BY <1>1, <2>1, <2>2, <2>3 DEF VisibleInv
<1>3. ASSUME NEW p, Issues(p)
      PROVE  VisibleInv'
  <2>1. /\ p \in Q!Put /\ tree'.visibleWrites = With(tree.visibleWrites, p.path, p.val)
        /\ lastPut'[Device] = [pa \in Paths |-> IF pa = p.path THEN p.val ELSE lastPut[Device][pa]]
        /\ abandoned' = abandoned
    BY <1>3 DEF Issues
  <2>2. p.path \in Paths /\ DOMAIN tree.visibleWrites \subseteq Paths
    BY <1>1, <2>1 DEF Q!Put, CompoundWrite
  <2>3. QED
    BY <2>1, <2>2 DEF VisibleInv, With
<1>4. CASE Leaves
  BY <1>4 DEF Leaves, SameWrites, VisibleInv
<1>5. QED
  BY <1>2, <1>3, <1>4, WriteKinds

-----------------------------------------------------------------------------
(* The listen of a view.                                                   *)

\* A listen is ended, and no answer to a later one is under way.
EndsLast(s) ==
    \E i \in DOMAIN s : Ends(s[i]) /\ \A j \in DOMAIN s : j > i => s[j].type # "listen"

\* A view has its listen open, on its way, or ended by a message under way, after
\* which no other listen is answered; a whole location comes before the answer
\* to its listen.
OpenInv ==
    /\ tree.viewed /\ connected[Device] /\ ~serving /\ listensSent = 0 => EndsLast(inbox)
    /\ \A i \in DOMAIN inbox : inbox[i].type = "node" =>
          \E j \in DOMAIN inbox : j > i /\ inbox[j].type = "listen"
    /\ died = {}

\* More messages change nothing of it.
LEMMA OpenMore ==
    ASSUME OpenInv, NEW s \in Seq(Message), inbox \in Seq(Message), inbox' = inbox \o s,
           \A i \in DOMAIN s : s[i].type = "node" =>
              \E j \in DOMAIN s : j > i /\ s[j].type = "listen",
           \/ /\ serving' = serving /\ listensSent' = listensSent
              /\ \A i \in DOMAIN s : s[i].type # "listen"
           \/ serving'
           \/ DOMAIN s = {1} /\ Ends(s[1]),
           SameView, connected'[Device] = connected[Device], died' = died
    PROVE  OpenInv'
<1> DEFINE u == inbox \o s
           n == Len(inbox)
<1>1. /\ DOMAIN inbox = 1..n /\ DOMAIN s = 1..Len(s) /\ n \in Nat /\ Len(s) \in Nat
      /\ DOMAIN u = 1..n + Len(s)
      /\ \A i \in 1..n : u[i] = inbox[i]
      /\ \A i \in 1..Len(s) : u[n + i] = s[i]
  OBVIOUS
<1> HIDE DEF u, n
<1>2. /\ \A i \in DOMAIN inbox : i \in DOMAIN u /\ u[i] = inbox[i]
      /\ \A i \in DOMAIN s : n + i \in DOMAIN u /\ u[n + i] = s[i]
      /\ \A i \in DOMAIN u : i \in DOMAIN inbox \/ (i - n \in DOMAIN s /\ u[i] = s[i - n] /\ i \in Nat)
  <2>1. ASSUME NEW i \in DOMAIN u, i \notin DOMAIN inbox
        PROVE  i - n \in DOMAIN s /\ u[i] = s[i - n] /\ i \in Nat
    <3>1. i - n \in 1..Len(s) /\ n + (i - n) = i /\ i \in Nat
      BY <1>1, <2>1
    <3>2. QED
      BY <1>1, <3>1
  <2>2. QED
    BY <1>1, <2>1
<1>3. inbox' = u
  BY DEF u
<1>4. \A i \in DOMAIN u : u[i].type = "node" => \E j \in DOMAIN u : j > i /\ u[j].type = "listen"
  <2>1. ASSUME NEW i \in DOMAIN inbox, inbox[i].type = "node"
        PROVE  \E j \in DOMAIN u : j > i /\ u[j].type = "listen"
    BY <1>2, <2>1, SMTT(30) DEF OpenInv
  <2>2. ASSUME NEW i \in DOMAIN u, i - n \in DOMAIN s, u[i] = s[i - n], i \in Nat, u[i].type = "node"
        PROVE  \E j \in DOMAIN u : j > i /\ u[j].type = "listen"
    <3>1. PICK j \in DOMAIN s : j > i - n /\ s[j].type = "listen"
      BY <2>2
    <3>2. n + j > i
      BY <1>1, <2>2, <3>1
    <3>3. QED
      BY <1>2, <3>1, <3>2
  <2>3. QED
    BY <1>2, <2>1, <2>2
<1>5. ASSUME tree.viewed, connected[Device], ~serving', listensSent' = 0
      PROVE  EndsLast(u)
  <2>1. CASE /\ serving' = serving /\ listensSent' = listensSent
             /\ \A i \in DOMAIN s : s[i].type # "listen"
    <3>1. PICK i \in DOMAIN inbox :
             Ends(inbox[i]) /\ \A j \in DOMAIN inbox : j > i => inbox[j].type # "listen"
      BY <1>5, <2>1 DEF OpenInv, EndsLast
    <3>2. \A j \in DOMAIN u : j > i => u[j].type # "listen"
      BY <1>2, <2>1, <3>1
    <3>3. QED
      BY <1>2, <3>1, <3>2 DEF EndsLast
  <2>2. CASE DOMAIN s = {1} /\ Ends(s[1])
    <3>1. n + 1 \in DOMAIN u /\ Ends(u[n + 1])
      BY <1>2, <2>2
    <3>2. \A j \in DOMAIN u : ~(j > n + 1)
      <4>1. Len(s) = 1
        <5>1. 1 \in 1..Len(s) /\ \A j \in 1..Len(s) : j = 1
          BY <1>1, <2>2
        <5>2. Len(s) \in 1..Len(s)
          BY <1>1, <5>1
        <5>3. QED
          BY <5>1, <5>2
      <4>2. QED
        BY <1>1, <4>1
    <3>3. QED
      BY <3>1, <3>2 DEF EndsLast
  <2>3. QED
    BY <1>5, <2>1, <2>2
<1>6. QED
  BY <1>3, <1>4, <1>5 DEF OpenInv, SameView

LEMMA OpenTaken ==
    ASSUME IInv, OpenInv, Takes
    PROVE  OpenInv'
<1> DEFINE u == Tail(inbox)
<1>1. /\ inbox # <<>> /\ inbox' = u /\ Stays /\ 1 \in DOMAIN inbox /\ DOMAIN inbox = 1..Len(inbox)
      /\ Len(inbox) \in Nat /\ DOMAIN u = 1..Len(inbox) - 1
      /\ \A i \in DOMAIN u : i + 1 \in DOMAIN inbox /\ i \in Nat /\ i > 0 /\ u[i] = inbox[i + 1]
  BY InboxTypes, TailFacts DEF Takes
<1> HIDE DEF u
<1>2. \A i \in DOMAIN inbox : i # 1 => i - 1 \in DOMAIN u /\ (i - 1) + 1 = i /\ u[i - 1] = inbox[i] /\ i \in Nat
  BY <1>1
<1>3. ASSUME tree'.viewed, connected[Device], ~serving, listensSent = 0
      PROVE  EndsLast(u)
  <2>0. tree.viewed
    BY <1>3 DEF Takes
  <2>1. PICK i \in DOMAIN inbox :
           Ends(inbox[i]) /\ \A j \in DOMAIN inbox : j > i => inbox[j].type # "listen"
    BY <1>3, <2>0 DEF OpenInv, EndsLast
  <2>2. i # 1
    <3>1. ASSUME i = 1
          PROVE  FALSE
      <4>1. PICK j \in DOMAIN inbox' : inbox'[j].type = "listen"
        BY <1>3, <2>1, <3>1 DEF Takes
      <4>2. j + 1 \in DOMAIN inbox /\ inbox[j + 1].type = "listen" /\ j + 1 > 1
        BY <1>1, <4>1
      <4>3. QED
        BY <2>1, <3>1, <4>2
    <3>2. QED
      BY <3>1
  <2>3. i - 1 \in DOMAIN u /\ Ends(u[i - 1]) /\ (i - 1) + 1 = i
    BY <1>2, <2>1, <2>2
  <2>4. \A j \in DOMAIN u : j > i - 1 => u[j].type # "listen"
    BY <1>1, <1>2, <2>1, <2>2
  <2>5. QED
    BY <2>3, <2>4 DEF EndsLast
<1>4. ASSUME NEW i \in DOMAIN u, u[i].type = "node"
      PROVE  \E j \in DOMAIN u : j > i /\ u[j].type = "listen"
  <2>1. PICK j \in DOMAIN inbox : j > i + 1 /\ inbox[j].type = "listen"
    BY <1>1, <1>4 DEF OpenInv
  <2>2. j - 1 > i /\ j # 1
    BY <1>1, <2>1
  <2>3. QED
    BY <1>2, <2>1, <2>2
<1>5. QED
  BY <1>1, <1>3, <1>4 DEF OpenInv, Stays

LEMMA OpenStep ==
    ASSUME IInv, IssuedInv, OpenInv, [Next]_vars
    PROVE  OpenInv'
<1>1. CASE Quiet
  BY <1>1 DEF Quiet, Stays, SameView, OpenInv
<1>2. CASE Opens
  BY <1>2 DEF Opens, OpenInv
<1>3. CASE Reconnects
  BY <1>3 DEF Reconnects, SameView, OpenInv
<1>4. CASE Cut
  <2>1. DOMAIN inbox' = {}
    BY <1>4 DEF Cut
  <2>2. QED
    BY <1>4, <2>1 DEF Cut, SameView, OpenInv
<1>5. CASE Takes
  BY <1>5, OpenTaken
<1>6. CASE Sends
  <2>1. PICK s \in Seq(Message) :
          /\ inbox' = inbox \o s
          /\ \A i \in DOMAIN s : s[i].type \in {"answer", "data"}
    BY <1>6 DEF Sends
  <2>2. QED
    <3>1. \A i \in DOMAIN s : s[i].type \notin {"node", "listen"}
      BY <2>1
    <3>2. QED
      BY <1>6, <2>1, <3>1, InboxTypes, OpenMore DEF Sends, Stays
<1>7. CASE RevokeListen
  <2> DEFINE s == <<[type |-> "revoke"]>>
  <2>1. /\ inbox' = Append(inbox, [type |-> "revoke"])
        /\ UNCHANGED <<tree, connected, died>>
    BY <1>7 DEF RevokeListen, queueVars
  <2>2. /\ s \in Seq(Message) /\ DOMAIN s = {1} /\ s[1].type = "revoke"
        /\ inbox' = inbox \o s
    BY <2>1, MessageType, InboxTypes, ConcatOne
  <2> HIDE DEF s
  <2>3. QED
    BY <2>1, <2>2, InboxTypes, OpenMore DEF SameView, Ends
<1>8. ASSUME NEW ok \in BOOLEAN, TakeListen(ok)
      PROVE  OpenInv'
  <2> DEFINE a == [type |-> "listen", ok |-> ok]
             whole == [type |-> "node", node |-> store]
             s == IF ok THEN <<whole, a>> ELSE <<a>>
  <2>1. /\ inbox' = inbox \o (IF ok THEN <<whole>> ELSE <<>>) \o <<a>> /\ serving' = ok
        /\ UNCHANGED <<tree, connected, died>>
    BY <1>8 DEF TakeListen, queueVars
  <2>2. a \in Message /\ whole \in Message /\ inbox \in Seq(Message)
    BY InboxTypes, MessageType
  <2>3. inbox' = inbox \o s /\ s \in Seq(Message)
    <3> HIDE DEF a, whole
    <3>1. CASE ok
      <4>1. (inbox \o <<whole>>) \o <<a>> = inbox \o <<whole, a>>
        BY <2>2, ConcatTwo
      <4>2. <<whole, a>> \in Seq(Message)
        BY <2>2
      <4>3. QED
        BY <2>1, <3>1, <4>1, <4>2
    <3>2. CASE ~ok
      <4>1. inbox \o <<>> = inbox
        BY <2>2, ConcatOne
      <4>2. s = <<a>> /\ s \in Seq(Message)
        BY <2>2, <3>2
      <4>3. QED
        BY <2>1, <3>2, <4>1, <4>2
    <3>3. QED
      BY <3>1, <3>2
  <2>4. \A i \in DOMAIN s : s[i].type = "node" => \E j \in DOMAIN s : j > i /\ s[j].type = "listen"
    <3>1. a.type = "listen" /\ whole.type = "node"
      OBVIOUS
    <3> HIDE DEF a, whole
    <3>2. CASE ok
      <4>1. DOMAIN s = {1, 2} /\ s[2] = a
        BY <3>2
      <4>2. s[2].type = "listen" /\ 2 \in DOMAIN s
        BY <3>1, <4>1
      <4>3. \A i \in DOMAIN s : s[i].type = "node" => i = 1
        BY <4>1, <4>2
      <4>4. QED
        BY <4>2, <4>3
    <3>3. CASE ~ok
      <4>1. DOMAIN s = {1} /\ s[1] = a
        BY <3>3
      <4>2. QED
        BY <3>1, <4>1
    <3>4. QED
      BY <3>2, <3>3
  <2>5. serving' \/ (DOMAIN s = {1} /\ Ends(s[1]))
    <3>1. CASE ~ok
      <4>1. DOMAIN s = {1} /\ s[1] = a
        BY <3>1
      <4>2. Ends(a)
        BY <3>1 DEF Ends
      <4>3. QED
        BY <4>1, <4>2
    <3>2. QED
      BY <2>1, <3>1
  <2> HIDE DEF s
  <2>6. QED
    BY <2>1, <2>2, <2>3, <2>4, <2>5, OpenMore DEF SameView
<1>9. QED
  BY <1>1, <1>2, <1>3, <1>4, <1>5, <1>6, <1>7, <1>8, StepKinds

-----------------------------------------------------------------------------
(* The store: it has the last put, or gets it.                             *)

\* Paths this device wrote, no other device did, and no put was refused on.
Own == {pa \in Paths \ (refused \cup foreign) : writers[pa] # {}}

\* Their last put is stored, or the server still has a put on them to process.
StoreInv == \A pa \in Own : QP!Unsettled(Device, pa) \/ store[pa] = lastPut[Device][pa]

\* What the pipeline does; only other devices change the store besides.
LEMMA PipeOrForeign ==
    ASSUME IInv, [Next]_vars
    PROVE  \/ [QP!Next]_(QP!queueVars) /\ foreign' = foreign
           \/ AuthFailed
           \/ \E pa \in Paths, v \in Values \cup {None} : ForeignPut(pa, v)
<1> USE DEF QP!queueVars, QP!deviceVars, QP!history
<1>1. CASE ackPuts
  BY <1>1 DEF ackPuts, queueVars, foreignVars
<1>2. CASE ~acking /\ OnQueue
  <2>1. CASE addEventRegistration
    BY <2>1 DEF addEventRegistration, queueVars, foreignVars
  <2>2. CASE restoreAuth \/ Authenticated
    <3>1. CASE restoreState
      BY <3>1, SameConnection DEF restoreState, foreignVars, QP!Next, QP!Background
    <3>2. CASE ~restoreState
      BY <2>2, <3>2 DEF restoreAuth, Authenticated, queueVars, foreignVars
    <3>3. QED
      BY <3>1, <3>2
  <2>3. CASE Disconnect
    BY <2>3, SameConnection DEF Disconnect, onDisconnect, foreignVars, QP!Next, QP!Background
  <2>4. CASE SignIn \/ SignOut
    BY <2>4, SameSession DEF SignIn, SignOut, foreignVars, QP!Next
  <2>5. CASE ReceiveData \/ ReceiveNode \/ ReceiveListen \/ ReceiveStale \/ ReceiveRevoke
    BY <2>5 DEF ReceiveData, ReceiveNode, ReceiveListen, ReceiveStale, ReceiveRevoke, queueVars,
         foreignVars
  <2>6. CASE ReceiveAnswer
    BY <2>6, SameServer DEF ReceiveAnswer, foreignVars, QP!Next, QP!Background
  <2>7. CASE \E pa \in Paths, v \in Values \cup {None} : set([path |-> pa, val |-> v])
    <3>1. PICK w \in [path : Paths, val : Values \cup {None}] : set(w)
      BY <2>7
    <3>2. QP!Issue(Device, <<w>>) /\ foreign' = foreign
      BY <3>1, SameIssue DEF set, foreignVars
    <3>3. QED
      BY <3>2 DEF QP!Next
  <2>8. QED
    BY <1>2, <2>1, <2>2, <2>3, <2>4, <2>5, <2>6, <2>7 DEF OnQueue, Receive
<1>3. CASE Observe \/ Deliver
  BY <1>3 DEF Observe, Deliver, queueVars, foreignVars
<1>4. CASE Process
  BY <1>4, SameServer DEF Process, foreignVars, QP!Next, QP!Background
<1>5. CASE RevokeListen \/ \E ok \in BOOLEAN : TakeListen(ok)
  BY <1>5 DEF RevokeListen, TakeListen, queueVars, foreignVars
<1>6. CASE \E pa \in Paths, v \in Values \cup {None} : v # store[pa] /\ ForeignPut(pa, v)
  BY <1>6
<1>7. CASE UNCHANGED vars
  BY <1>7 DEF vars, queueVars, foreignVars
<1>8. QED
  BY <1>1, <1>2, <1>3, <1>4, <1>5, <1>6, <1>7 DEF Next

LEMMA StoreStep ==
    ASSUME IInv, IssuedInv, OpenInv, StoreInv, [Next]_vars
    PROVE  StoreInv'
<1> SUFFICES ASSUME NEW pa \in Own'
             PROVE  QP!Unsettled(Device, pa)' \/ store'[pa] = lastPut'[Device][pa]
  BY DEF StoreInv
<1>0. pa \in Paths /\ pa \notin refused' /\ pa \notin foreign' /\ writers'[pa] # {}
  BY DEF Own
<1>1. CASE [QP!Next]_(QP!queueVars) /\ foreign' = foreign
  <2>1. QP!TypeOK /\ \A d \in {Device} : QP!DeviceInv(d)
    BY SameTypes DEF IInv, PipeInv
  <2>2. died = {} /\ died' = {}
    BY OpenStep DEF OpenInv
  <2>3. pa \notin QP!spoiled'
    BY <1>0, <2>2 DEF QP!spoiled
  <2>4. writers[pa] # {} /\ pa \notin QP!spoiled =>
            \E e \in writers[pa] : QP!Unsettled(e, pa) \/ store[pa] = lastPut[e][pa]
    <3>1. ASSUME writers[pa] # {}, pa \notin refused
          PROVE  Device \in writers[pa] /\ (QP!Unsettled(Device, pa) \/ store[pa] = lastPut[Device][pa])
      <4>1. writers[pa] \subseteq {Device}
        BY <1>0, <2>1 DEF QP!TypeOK
      <4>2. pa \in Own
        BY <1>0, <1>1, <3>1 DEF Own
      <4>3. QED
        BY <3>1, <4>1, <4>2 DEF StoreInv
    <3>2. QED
      BY <3>1 DEF QP!spoiled
  <2>5. \E e \in writers'[pa] : QP!Unsettled(e, pa)' \/ store'[pa] = lastPut'[e][pa]
    BY <1>0, <1>1, <2>1, <2>3, <2>4, QueueAssumptions, QP!SettledPath, Zenon
  <2>6. writers'[pa] \subseteq {Device}
    <3>1. IInv'
      BY NextInv
    <3>2. QED
      BY <1>0, <3>1 DEF IInv, TypeOK, Q!TypeOK
  <2>7. QED
    BY <2>5, <2>6
<1>2. ASSUME NEW p \in Paths, NEW v \in Values \cup {None}, ForeignPut(p, v)
      PROVE  QP!Unsettled(Device, pa)' \/ store'[pa] = lastPut'[Device][pa]
  <2>1. /\ foreign' = foreign \cup {p} /\ store' = [store EXCEPT ![p] = v]
        /\ UNCHANGED <<outstandingPuts, wire, connected, lastPut, writers, refused>>
    BY <1>2 DEF ForeignPut, deviceQueueVars
  <2>2. pa \in Own /\ store'[pa] = store[pa]
    BY <1>0, <2>1, InboxTypes DEF Own, Node
  <2>3. QP!Unsettled(Device, pa)' <=> QP!Unsettled(Device, pa)
    BY <2>1 DEF QP!Unsettled, QP!Pending
  <2>4. QED
    BY <2>1, <2>2, <2>3 DEF StoreInv
<1>3. CASE AuthFailed
  <2>1. UNCHANGED <<foreign, store, outstandingPuts, wire, connected, lastPut, writers, refused>>
    BY <1>3 DEF AuthFailed, onDisconnect, foreignVars
  <2>2. pa \in Own
    BY <1>0, <2>1 DEF Own
  <2>3. QP!Unsettled(Device, pa)' <=> QP!Unsettled(Device, pa)
    BY <2>1 DEF QP!Unsettled, QP!Pending
  <2>4. QED
    BY <2>1, <2>2, <2>3 DEF StoreInv
<1>4. QED
  BY <1>1, <1>2, <1>3, PipeOrForeign

-----------------------------------------------------------------------------
(* Nothing of the device is under way on a path without a pending write.   *)

\* All of it together.
PathInv == IInv /\ KnownInv /\ IssuedInv /\ VisibleInv /\ OpenInv /\ StoreInv

\* The path of a put without an answer has a pending write.
LEMMA OutstandingVisible ==
    ASSUME IInv, IssuedInv, NEW pt \in outstandingPuts[Device]
    PROVE  pt.path \in DOMAIN tree.visibleWrites
<1>1. PICK i \in DOMAIN tree.allWrites : tree.allWrites[i] = pt
  BY DEF IssuedInv, Expected
<1>2. tree.allWrites \in Seq(Q!Put) /\ tree.visibleWrites = LayerTree(tree.allWrites)
  BY InboxTypes, TreeFields DEF IInv, Sound
<1>3. DOMAIN LayerTree(tree.allWrites) = {tree.allWrites[j].path : j \in DOMAIN tree.allWrites}
  BY <1>2, LayerFacts
<1>4. QED
  BY <1>1, <1>2, <1>3

\* Without one, the server stores the last put.
LEMMA SettledStore ==
    ASSUME IInv, IssuedInv, StoreInv, NEW pa \in Own, pa \notin DOMAIN tree.visibleWrites
    PROVE  store[pa] = lastPut[Device][pa]
<1>1. \A m \in wire[Device] : m.put \in outstandingPuts[Device]
  BY DEF IInv, PipeInv, QP!DeviceInv, QP!Sent
<1>2. ~QP!Unsettled(Device, pa)
  BY <1>1, OutstandingVisible DEF QP!Unsettled, QP!Pending
<1>3. QED
  BY <1>2 DEF StoreInv

\* An answer, and so news, of the device is on a path with a pending write.
LEMMA AnsweredVisible ==
    ASSUME IInv, IssuedInv, NEW f, Fits(f, inbox, responses[Device], foreign)
    PROVE  /\ \A j \in Answers(inbox) : f[j].put.path \in DOMAIN tree.visibleWrites
           /\ \A i \in DOMAIN inbox : inbox[i].type = "data" /\ inbox[i].path \notin foreign =>
                 inbox[i].path \in DOMAIN tree.visibleWrites
           /\ \A pa : Late(f, inbox, pa) => pa \in DOMAIN tree.visibleWrites
<1>1. \A r \in responses[Device] : r.put \in outstandingPuts[Device]
  BY DEF IInv, PipeInv, QP!DeviceInv, QP!Sent
<1>2. \A j \in Answers(inbox) : f[j].put.path \in DOMAIN tree.visibleWrites
  BY <1>1, OutstandingVisible DEF Fits
<1>3. \A i \in DOMAIN inbox : inbox[i].type = "data" /\ inbox[i].path \notin foreign =>
          inbox[i].path \in DOMAIN tree.visibleWrites
  BY <1>2 DEF Fits
<1>4. \A pa : Late(f, inbox, pa) => pa \in DOMAIN tree.visibleWrites
  BY <1>2 DEF Late
<1>5. QED
  BY <1>2, <1>3, <1>4

\* Without a listen under way, the view knows the last put on such a path.
AtLast ==
    unackedListens = 0 => \A pa \in Own \ DOMAIN tree.visibleWrites :
        /\ tree.viewed /\ connected[Device] => tree.serverSnap[pa] = lastPut[Device][pa]
        /\ \A i \in DOMAIN inbox : inbox[i].type # "node"

LEMMA KnownAtLast ==
    ASSUME PathInv
    PROVE  AtLast
<1> USE DEF PathInv
<1> SUFFICES ASSUME unackedListens = 0, NEW pa \in Own, pa \notin DOMAIN tree.visibleWrites
             PROVE  /\ tree.viewed /\ connected[Device] => tree.serverSnap[pa] = lastPut[Device][pa]
                    /\ \A i \in DOMAIN inbox : inbox[i].type # "node"
  BY DEF AtLast
<1>1. listensSent = 0 /\ \A i \in DOMAIN inbox : inbox[i].type # "listen"
  BY AllTaken
<1>2. \A i \in DOMAIN inbox : inbox[i].type # "node"
  BY <1>1 DEF OpenInv
<1>3. ASSUME tree.viewed, connected[Device]
      PROVE  tree.serverSnap[pa] = lastPut[Device][pa]
  <2>1. PICK f : Known(f, inbox, responses[Device], foreign, serving, Sees, tree.serverSnap, store)
    BY DEF KnownInv
  <2>2. pa \in Paths /\ pa \notin foreign
    BY DEF Own
  <2>3. ~Late(f, inbox, pa) /\ \A i \in DOMAIN inbox : ~Tells(inbox[i], pa)
    BY <1>2, <2>1, <2>2, AnsweredVisible DEF Known, Tells
  <2>4. Sees /\ (serving \/ Closed(inbox))
    BY <1>1, <1>3 DEF OpenInv, EndsLast, Ends, Sees, Closed
  <2>5. Heard(inbox, pa, tree.serverSnap[pa], store[pa])
    BY <2>1, <2>2, <2>3, <2>4 DEF Known
  <2>6. tree.serverSnap[pa] = store[pa]
    BY <2>3, <2>5 DEF Heard
  <2>7. QED
    BY <2>6, SettledStore
<1>4. QED
  BY <1>2, <1>3

\* What the view knows of such a path, or hears with a whole location, is the
\* last put.
Right(pa) ==
    /\ tree.viewed /\ tree.complete => tree.serverSnap[pa] = lastPut[Device][pa]
    /\ \A i \in DOMAIN inbox : inbox[i].type = "node" => inbox[i].node[pa] = lastPut[Device][pa]

ViewInv == \A pa \in Own \ DOMAIN tree.visibleWrites : Right(pa)

LEMMA RightTaken ==
    ASSUME PathInv, Takes, NEW pa \in Own, NEW x, Right(pa), x = lastPut[Device][pa],
           pa \notin DOMAIN tree.visibleWrites, lastPut'[Device][pa] = x
    PROVE  Right(pa)'
<1>1. /\ inbox # <<>> /\ inbox' = Tail(inbox) /\ 1 \in DOMAIN inbox
      /\ \A i \in DOMAIN inbox' : i + 1 \in DOMAIN inbox /\ inbox'[i] = inbox[i + 1]
  BY InboxTypes, TailFacts DEF Takes, PathInv
<1>2. \A i \in DOMAIN inbox' : inbox'[i].type = "node" => inbox'[i].node[pa] = x
  BY <1>1 DEF Right
<1>3. pa \in Paths /\ pa \notin foreign
  BY DEF Own
<1>4. CASE ~tree'.viewed
  BY <1>2, <1>4 DEF Right
<1>5. CASE tree'.viewed
  <2>1. /\ tree.viewed
        /\ tree'.complete => tree.complete \/ inbox[1].type = "node"
        /\ tree'.serverSnap[pa] = IF Tells(inbox[1], pa) THEN Told(inbox[1], pa)
                                  ELSE tree.serverSnap[pa]
    BY <1>3, <1>5 DEF Takes
  <2>2. Tells(inbox[1], pa) => inbox[1].type = "node"
    <3>1. PICK f : Known(f, inbox, responses[Device], foreign, serving, Sees, tree.serverSnap, store)
      BY DEF PathInv, KnownInv
    <3>2. QED
      BY <1>1, <1>3, <3>1, AnsweredVisible DEF Tells, Known, PathInv
  <2>3. inbox[1].type = "node" => Told(inbox[1], pa) = x /\ Tells(inbox[1], pa)
    BY <1>1 DEF Right, Told, Tells
  <2>4. tree'.complete => tree'.serverSnap[pa] = x
    BY <2>1, <2>2, <2>3 DEF Right
  <2>5. QED
    BY <1>2, <2>4 DEF Right
<1>6. QED
  BY <1>4, <1>5

LEMMA ViewStep ==
    ASSUME PathInv, AtLast', ViewInv, [Next]_vars
    PROVE  ViewInv'
<1> USE DEF PathInv
<1> SUFFICES ASSUME NEW pa \in Own', pa \notin DOMAIN tree'.visibleWrites
             PROVE  Right(pa)'
  BY DEF ViewInv
<1>0. pa \in Paths /\ pa \notin refused' /\ pa \notin foreign' /\ writers'[pa] # {}
  BY DEF Own
<1>t. inbox \in Seq(Message) /\ store \in Node
  BY InboxTypes
<1>1. CASE Acks
  <2>1. unackedListens' = 0 /\ connected'[Device]
    BY <1>1 DEF Acks
  <2>2. QED
    BY <2>1 DEF AtLast, Right
<1>2. CASE (\E pt : Issues(pt)) \/ Leaves
  <2>1. pa \in Own /\ pa \notin DOMAIN tree.visibleWrites /\ lastPut'[Device][pa] = lastPut[Device][pa]
    <3>1. ASSUME NEW pt, Issues(pt)
          PROVE  pa \in Own /\ pa \notin DOMAIN tree.visibleWrites
                 /\ lastPut'[Device][pa] = lastPut[Device][pa]
      <4>1. pa # pt.path /\ pa \notin DOMAIN tree.visibleWrites
        BY <3>1 DEF Issues, With
      <4>2. QED
        BY <1>0, <3>1, <4>1 DEF Issues, Own
    <3>2. CASE Leaves
      BY <1>0, <3>2 DEF Leaves, SameWrites, Own
    <3>3. QED
      BY <1>2, <3>1, <3>2
  <2>2. Right(pa)
    BY <2>1 DEF ViewInv
  <2>3. CASE Quiet \/ Reconnects
    BY <2>1, <2>2, <2>3 DEF Quiet, Reconnects, SameView, Right
  <2>4. CASE Opens
    BY <2>1, <2>2, <2>4 DEF Opens, IInv, ListenInv, Right
  <2>5. CASE Cut
    <3>1. DOMAIN inbox' = {}
      BY <2>5 DEF Cut
    <3>2. QED
      BY <2>1, <2>2, <2>5, <3>1 DEF Cut, SameView, Right
  <2>6. CASE Takes
    BY <2>1, <2>2, <2>6, RightTaken
  <2>7. CASE Sends
    <3>1. PICK s \in Seq(Message) :
            /\ inbox' = inbox \o s
            /\ \A i \in DOMAIN s : s[i].type \in {"answer", "data"}
      BY <2>7 DEF Sends
    <3>2. \A i \in DOMAIN inbox' : inbox'[i].type = "node" => i \in DOMAIN inbox /\ inbox'[i] = inbox[i]
      <4>1. \A i \in DOMAIN (inbox \o s) :
               \/ i \in DOMAIN inbox /\ (inbox \o s)[i] = inbox[i]
               \/ i - Len(inbox) \in DOMAIN s /\ (inbox \o s)[i] = s[i - Len(inbox)]
        BY <1>t, ConcatFacts
      <4>2. \A i \in DOMAIN inbox' :
               (i \in DOMAIN inbox /\ inbox'[i] = inbox[i]) \/ inbox'[i].type \in {"answer", "data"}
        BY <3>1, <4>1
      <4>3. QED
        BY <4>2
    <3>3. QED
      BY <2>1, <2>2, <2>7, <3>2 DEF Sends, SameView, Right
  <2>8. CASE RevokeListen
    <3>1. inbox' = Append(inbox, [type |-> "revoke"]) /\ tree' = tree
      BY <2>8 DEF RevokeListen
    <3>2. \A i \in DOMAIN inbox' : inbox'[i].type = "node" => i \in DOMAIN inbox /\ inbox'[i] = inbox[i]
      BY <1>t, <3>1, MessageType, AppendTypes
    <3>3. QED
      BY <2>1, <2>2, <3>1, <3>2 DEF Right
  <2>9. ASSUME NEW ok \in BOOLEAN, TakeListen(ok)
        PROVE  Right(pa)'
    <3> DEFINE a == [type |-> "listen", ok |-> ok]
               whole == [type |-> "node", node |-> store]
    <3>1. inbox' = inbox \o (IF ok THEN <<whole>> ELSE <<>>) \o <<a>> /\ tree' = tree
      BY <2>9 DEF TakeListen
    <3>2. /\ a \in Message /\ whole \in Message /\ a.type = "listen" /\ whole.node = store
          /\ whole.type = "node"
      BY <1>t, MessageType
    <3> HIDE DEF a, whole
    <3>3. PICK u \in Seq(Message) : /\ u = (IF ok THEN Append(inbox, whole) ELSE inbox)
                                    /\ inbox' = Append(u, a)
      <4>1. PICK u : u = (IF ok THEN Append(inbox, whole) ELSE inbox)
        OBVIOUS
      <4>2. u \in Seq(Message) /\ inbox \o (IF ok THEN <<whole>> ELSE <<>>) = u
        BY <1>t, <3>2, <4>1, ConcatOne, AppendFacts
      <4>3. u \o <<a>> = Append(u, a)
        BY <3>2, <4>2, ConcatOne
      <4>4. QED
        BY <3>1, <4>1, <4>2, <4>3
    <3>4. \A i \in DOMAIN u : u[i] = whole \/ (i \in DOMAIN inbox /\ u[i] = inbox[i])
      BY <1>t, <3>2, <3>3, AppendFacts
    <3>5. \A i \in DOMAIN inbox' : inbox'[i].type = "node" => i \in DOMAIN u /\ inbox'[i] = u[i]
      BY <3>2, <3>3, AppendTypes
    <3>6. store[pa] = lastPut[Device][pa]
      BY <2>1, SettledStore
    <3>7. \A i \in DOMAIN inbox' : inbox'[i].type = "node" => inbox'[i].node[pa] = lastPut[Device][pa]
      BY <2>2, <3>2, <3>4, <3>5, <3>6 DEF Right
    <3>8. QED
      BY <2>1, <2>2, <3>1, <3>7 DEF Right
  <2>10. QED
    BY <2>3, <2>4, <2>5, <2>6, <2>7, <2>8, <2>9, StepKinds
<1>3. QED
  BY <1>1, <1>2, WriteKinds

LEMMA InitPath == Init => PathInv /\ ViewInv
<1> SUFFICES ASSUME Init PROVE PathInv /\ ViewInv
  OBVIOUS
<1>1. IInv /\ IssuedInv /\ KnownInv
  BY InitInv, InitIssued, KnownInit
<1>2. /\ \A pa \in Paths : writers[pa] = {}
      /\ died = {}
      /\ inbox = <<>> /\ ~tree.viewed
      /\ tree.visibleWrites = <<>>
  BY DEF Init, Q!Init
<1>3. DOMAIN inbox = {} /\ DOMAIN tree.visibleWrites = {}
  BY <1>2
<1>4. Own = {}
  BY <1>2 DEF Own
<1>5. VisibleInv /\ OpenInv /\ StoreInv /\ ViewInv
  BY <1>2, <1>3, <1>4 DEF VisibleInv, OpenInv, StoreInv, ViewInv
<1>6. QED
  BY <1>1, <1>5 DEF PathInv

LEMMA PathStep == PathInv /\ [Next]_vars => PathInv'
<1>1. ASSUME PathInv, [Next]_vars
      PROVE  PathInv'
  <2>1. IInv /\ KnownInv /\ IssuedInv /\ VisibleInv /\ OpenInv /\ StoreInv
    BY <1>1 DEF PathInv
  <2>2. IInv' /\ KnownInv'
    BY <1>1, <2>1, NextInv, KnownStep
  <2>3. IssuedInv' /\ VisibleInv'
    BY <1>1, <2>1, IssuedStep, VisibleStep
  <2>4. OpenInv' /\ StoreInv'
    BY <1>1, <2>1, OpenStep, StoreStep
  <2>5. QED
    BY <2>2, <2>3, <2>4 DEF PathInv
<1>2. QED
  BY <1>1

\* An own write stays on the screen through its answer, lost connections,
\* resends and the listens after them (FPersistentConnection.m:519-533, which
\* lets answers to puts wait while a listen is under way).
THEOREM SyncOwnWritesStay == Spec => []OwnWritesStay
<1>1. ASSUME PathInv, ViewInv, tree.viewed, NEW pa \in Paths \ (refused \cup foreign \cup abandoned),
             writers[pa] # {}, tree.complete \/ pa \in DOMAIN tree.visibleWrites
      PROVE  tree.eventSnap[pa] = lastPut[Device][pa]
  <2>1. tree.eventSnap = Apply(tree.visibleWrites, tree.serverSnap)
    BY <1>1 DEF PathInv, IInv, Sound
  <2>2. CASE pa \in DOMAIN tree.visibleWrites
    BY <1>1, <2>1, <2>2 DEF Apply, PathInv, VisibleInv
  <2>3. CASE pa \notin DOMAIN tree.visibleWrites
    <3>1. tree.serverSnap[pa] = lastPut[Device][pa]
      BY <1>1, <2>3 DEF ViewInv, Right, Own
    <3>2. QED
      BY <2>1, <2>3, <3>1 DEF Apply
  <2>4. QED
    BY <2>2, <2>3
<1>2. PathInv /\ ViewInv => OwnWritesStay
  BY <1>1 DEF OwnWritesStay
<1>3. PathInv => AtLast
  BY KnownAtLast
<1>4. Init => PathInv /\ ViewInv
  BY InitPath
<1>5. PathInv /\ [Next]_vars => PathInv'
  BY PathStep
<1>6. PathInv /\ AtLast' /\ ViewInv /\ [Next]_vars => ViewInv'
  BY ViewStep
<1>7. QED
  BY <1>2, <1>3, <1>4, <1>5, <1>6, PTL DEF Spec

\* On an open connection no put-off answer and no view waits for a message that
\* nobody will send, on whichever connection it began to wait.
THEOREM SyncStrandsNone == Spec => []NoneStranded
<1>1. ASSUME IInv, OpenInv, connected[Device]
      PROVE  NoneStranded
  <2>1. ASSUME NEW k \in DOMAIN putsToAck, putsToAck[k].put.path \notin abandoned
        PROVE  acking \/ listensSent > 0 \/ \E i \in DOMAIN inbox : inbox[i].type = "listen"
    <3>1. acking \/ unackedListens > 0
      BY <1>1, <2>1 DEF IInv, AckInv
    <3>2. ASSUME unackedListens > 0, ~(listensSent > 0)
          PROVE  \E i \in DOMAIN inbox : inbox[i].type = "listen"
      <4>1. listensSent = 0 /\ unackedListens = listensSent + Cardinality(Listens(inbox))
        BY <1>1, <3>2, ListenTypes DEF IInv, ListenInv
      <4>2. Cardinality(Listens(inbox)) # 0
        BY <3>2, <4>1
      <4>3. Listens(inbox) # {}
        BY <4>2, FS_EmptySet
      <4>4. QED
        BY <4>3 DEF Listens
    <3>3. QED
      BY <3>1, <3>2
  <2>2. ASSUME tree.viewed, ~serving, ~(listensSent > 0)
        PROVE  \E i \in DOMAIN inbox : inbox[i].type \in {"listen", "revoke"}
    <3>0. listensSent = 0
      BY <1>1, <2>2, ListenTypes DEF IInv
    <3>1. PICK i \in DOMAIN inbox : Ends(inbox[i])
      BY <1>1, <2>2, <3>0 DEF OpenInv, EndsLast
    <3>2. QED
      BY <3>1 DEF Ends
  <2>3. QED
    BY <2>1, <2>2 DEF NoneStranded
<1>2. PathInv => NoneStranded
  BY <1>1 DEF PathInv, NoneStranded
<1>3. Init => PathInv
  BY InitPath
<1>4. PathInv /\ [Next]_vars => PathInv'
  BY PathStep
<1>5. QED
  BY <1>2, <1>3, <1>4, PTL DEF Spec
=============================================================================

--------------------------- MODULE ThreadsProofs ---------------------------
(***************************************************************************)
(* Safety of the threads package for every number of threads and whatever  *)
(* identifiers clients pass, once exit_array holds Nil everywhere          *)
(* (ExitFill = Nil; with ExitFill = 0 the properties are false, see the    *)
(* run cold_reap).                                                         *)
(***************************************************************************)
EXTENDS MCScheduler, Counting, SequenceTheorems

-----------------------------------------------------------------------------
(* What the pointer operations of ThreadList do to a well-formed queue:    *)
(* LinkAtTail and Enqueue add one thread, Unlink takes one out, and the    *)
(* queue stays well formed.  The threads in a queue are the least set      *)
(* closed under its links, so these facts need no induction: to bound the  *)
(* new queue from above one shows a closed set, and from below one turns   *)
(* any set closed under the new links into one closed under the old.       *)

LEMMA ListedClosed ==
    ASSUME NEW q \in List
    PROVE  /\ Listed(q) \subseteq Tid
           /\ Closed(q, Listed(q))
<1>1. Listed(q) \subseteq Tid
  BY DEF Listed
<1>2. q.head # Nil => q.head \in Listed(q)
  BY DEF Listed, Closed, List, Link
<1>3. ASSUME NEW t \in Listed(q), q.next[t] # Nil
      PROVE  q.next[t] \in Listed(q)
  <2>1. t \in Tid /\ q.next[t] \in Tid
    BY <1>1, <1>3 DEF List, Link
  <2>2. ASSUME NEW S \in SUBSET Tid, Closed(q, S)
        PROVE  q.next[t] \in S
    BY <1>3, <2>2 DEF Listed, Closed
  <2>. QED
    BY <2>1, <2>2 DEF Listed
<1>. QED
  BY <1>1, <1>2, <1>3 DEF Closed

LEMMA ListedLeast ==
    ASSUME NEW q \in List, NEW S \in SUBSET Tid, Closed(q, S)
    PROVE  Listed(q) \subseteq S
BY DEF Listed

(* An empty queue holds nobody; a thread in the queue means it has a head. *)
LEMMA ListedEmpty ==
    ASSUME NEW q \in List, WellFormed(q)
    PROVE  /\ q.head = Nil => Listed(q) = {}
           /\ q.head # Nil => q.head \in Listed(q) /\ q.tail \in Listed(q)
           /\ Empty(q) <=> q.head = Nil
           /\ Empty(q) <=> Listed(q) = {}
<1>1. q.head = Nil => Listed(q) = {}
  <2>. SUFFICES ASSUME q.head = Nil PROVE Listed(q) = {}
    OBVIOUS
  <2>1. Closed(q, {})
    BY DEF Closed
  <2>. QED
    BY <2>1, ListedLeast
<1>2. q.head # Nil => q.head \in Listed(q) /\ q.tail \in Listed(q)
  BY ListedClosed DEF Closed, WellFormed
<1>. QED
  BY <1>1, <1>2 DEF Empty, WellFormed

(* Every thread in the queue but the head has one that points to it. *)
LEMMA PredFact ==
    ASSUME NEW q \in List, WellFormed(q), NEW w \in Listed(q), w # q.head
    PROVE  /\ Pred(q, w) \in Listed(q)
           /\ Pred(q, w) # w
           /\ q.next[Pred(q, w)] = w
<1>. DEFINE S == Listed(q) \ {w}
<1>1. S \in SUBSET Tid /\ ~Closed(q, S)
  BY ListedClosed, ListedLeast
<1>2. \E t \in S : q.next[t] = w
  BY <1>1, ListedClosed DEF Closed
<1>3. \A t \in Listed(q) : q.next[t] = w => t # w
  <2>. SUFFICES ASSUME q.next[w] = w PROVE FALSE
    OBVIOUS
  <2>. QED
    BY <1>2 DEF WellFormed
<1>. QED
  BY <1>2, <1>3 DEF Pred

(***************************************************************************)
(* LinkAtTail puts a thread that is not in the queue, and whose own link   *)
(* is clear, behind the tail.  thread_create depends on it: it does not    *)
(* clear the link of the identifier it hands out.                          *)
(***************************************************************************)
LEMMA LinkAtTailFacts ==
    ASSUME NEW q \in List, WellFormed(q), NEW t \in Tid, t \notin Listed(q)
    PROVE  /\ LinkAtTail(q, t) \in List
           /\ WellFormed(LinkAtTail(q, t))
           /\ Listed(LinkAtTail(q, t)) = Listed(q) \cup {t}
<1>. DEFINE r == LinkAtTail(q, t)
<1>0. t # Nil /\ q.next[t] = Nil
  BY DEF Tid, Nil, WellFormed
<1>1. CASE Empty(q)
  <2>1. r = [head |-> t, tail |-> t, next |-> [q.next EXCEPT ![t] = Nil]]
    BY <1>1 DEF LinkAtTail
  <2>2. r \in List
    BY <2>1 DEF List, Link
  <2>3. Listed(q) = {} /\ \A u \in Tid : q.next[u] = Nil
    BY <1>1, ListedEmpty DEF WellFormed
  <2>4. r.head = t /\ r.tail = t /\ \A u \in Tid : r.next[u] = Nil
    BY <2>1, <2>3 DEF List
  <2>5. Listed(r) = {t}
    <3>1. Closed(r, {t})
      BY <2>4 DEF Closed
    <3>2. Listed(r) \subseteq {t}
      BY <3>1, <2>2, ListedLeast
    <3>3. t \in Listed(r)
      BY <2>2, <2>4, <1>0, ListedClosed DEF Closed
    <3>. QED
      BY <3>2, <3>3
  <2>. QED
    BY <2>2, <2>3, <2>4, <2>5, <1>0 DEF WellFormed
<1>2. CASE ~Empty(q)
  <2>1. r = [head |-> q.head, tail |-> t, next |-> [q.next EXCEPT ![q.tail] = t]]
    BY <1>2 DEF LinkAtTail
  <2>2. /\ q.head # Nil /\ q.head \in Listed(q)
        /\ q.tail \in Listed(q) /\ q.tail \in Tid
        /\ Listed(q) \subseteq Tid
        /\ q.tail # t /\ q.head # t
        /\ q.next[q.tail] = Nil
    BY <1>2, ListedEmpty, ListedClosed DEF WellFormed
  <2>3. r \in List
    BY <2>1, <2>2 DEF List, Link
  <2>4. /\ r.head = q.head /\ r.tail = t
        /\ r.next[q.tail] = t
        /\ \A u \in Tid : u # q.tail => r.next[u] = q.next[u]
    BY <2>1, <2>2 DEF List
  <2>5. Listed(r) \subseteq Listed(q) \cup {t}
    <3>1. Closed(r, Listed(q) \cup {t})
      BY <2>2, <2>4, <1>0, ListedClosed DEF Closed
    <3>. QED
      BY <3>1, <2>2, <2>3, ListedLeast
  <2>6. Listed(q) \subseteq Listed(r)
    <3>1. Listed(r) \subseteq Tid /\ Closed(r, Listed(r))
      BY <2>3, ListedClosed
    <3>2. Closed(q, Listed(r))
      BY <3>1, <2>2, <2>4 DEF Closed
    <3>. QED
      BY <3>1, <3>2, ListedLeast
  <2>7. t \in Listed(r)
    BY <2>2, <2>3, <2>4, <2>6, <1>0, ListedClosed DEF Closed
  <2>8. Listed(r) = Listed(q) \cup {t}
    BY <2>5, <2>6, <2>7
  <2>9. WellFormed(r)
    <3>1. \A u \in Listed(r) : r.next[u] = Nil <=> u = r.tail
      BY <2>2, <2>4, <2>8, <1>0 DEF WellFormed
    <3>2. \A u \in Listed(r) : r.next[u] # r.head
      BY <2>2, <2>4, <2>8, <1>0 DEF WellFormed
    <3>3. \A u \in Listed(q) : q.next[u] # t
      BY <2>2, <1>0, ListedClosed DEF Closed
    <3>4. \A u, v \in Listed(r) : r.next[u] = r.next[v] => u = v
      <4>1. \A u \in Listed(r) : u = t \/ u = q.tail \/ (u \in Listed(q) /\ u # q.tail)
        BY <2>8
      <4>2. \A u \in Listed(q) : u # q.tail => r.next[u] = q.next[u] /\ q.next[u] # Nil
        BY <2>2, <2>4 DEF WellFormed
      <4>3. r.next[t] = Nil /\ r.next[q.tail] = t
        BY <2>2, <2>4, <1>0
      <4>. QED
        BY <4>1, <4>2, <4>3, <3>3, <1>0 DEF WellFormed
    <3>5. \A u \in Tid \ Listed(r) : r.next[u] = Nil
      BY <2>2, <2>4, <2>8 DEF WellFormed
    <3>. QED
      BY <2>2, <2>4, <2>7, <1>0, <3>1, <3>2, <3>4, <3>5 DEF WellFormed
  <2>. QED
    BY <2>3, <2>8, <2>9
<1>. QED
  BY <1>1, <1>2

(* Enqueue also clears the link, which is clear already. *)
LEMMA EnqueueFacts ==
    ASSUME NEW q \in List, WellFormed(q), NEW t \in Tid, t \notin Listed(q)
    PROVE  /\ Enqueue(q, t) = LinkAtTail(q, t)
           /\ Enqueue(q, t) \in List
           /\ WellFormed(Enqueue(q, t))
           /\ Listed(Enqueue(q, t)) = Listed(q) \cup {t}
<1>. DEFINE r == LinkAtTail(q, t)
<1>1. r \in List
  BY LinkAtTailFacts
<1>2. r.next[t] = Nil
  BY ListedEmpty DEF LinkAtTail, List, WellFormed
<1>3. Enqueue(q, t) = r
  BY <1>1, <1>2 DEF Enqueue, List
<1>. QED
  BY <1>3, LinkAtTailFacts

(***************************************************************************)
(* Unlink takes out the thread it is given and no other, from whatever     *)
(* place in the queue, and clears its link.                                *)
(***************************************************************************)
LEMMA UnlinkFacts ==
    ASSUME NEW q \in List, WellFormed(q), NEW w \in Listed(q)
    PROVE  /\ Unlink(q, w) \in List
           /\ WellFormed(Unlink(q, w))
           /\ Listed(Unlink(q, w)) = Listed(q) \ {w}
<1>. DEFINE r == Unlink(q, w)
            p == Pred(q, w)
<1>0. /\ q.head # Nil /\ q.head \in Listed(q) /\ q.tail \in Listed(q)
      /\ q.head \in Tid /\ q.tail \in Tid /\ w \in Tid /\ w # Nil
      /\ Listed(q) \subseteq Tid
      /\ Closed(q, Listed(q))
  BY ListedEmpty, ListedClosed DEF Tid, Nil
<1>1. CASE q.head = q.tail
  <2>1. Listed(q) = {q.head}
    <3>1. Closed(q, {q.head})
      BY <1>0, <1>1 DEF Closed, WellFormed
    <3>. QED
      BY <3>1, <1>0, ListedLeast
  <2>2. r = [head |-> Nil, tail |-> Nil, next |-> [q.next EXCEPT ![w] = Nil]]
    BY <1>1 DEF Unlink
  <2>3. r \in List
    BY <2>2, <1>0 DEF List, Link
  <2>4. r.head = Nil /\ r.tail = Nil /\ \A u \in Tid : r.next[u] = Nil
    BY <2>1, <2>2 DEF WellFormed, List
  <2>5. Listed(r) = {}
    <3>1. Closed(r, {})
      BY <2>4 DEF Closed
    <3>. QED
      BY <3>1, <2>3, ListedLeast
  <2>. QED
    BY <2>1, <2>3, <2>4, <2>5 DEF WellFormed
<1>2. CASE q.head # q.tail /\ w = q.head
  <2>1. p = w
    BY <1>2 DEF Pred
  <2>2. r = [head |-> q.next[w], tail |-> q.tail, next |-> [q.next EXCEPT ![w] = Nil]]
    BY <1>2, <2>1, <1>0 DEF Unlink, List
  <2>3. q.next[w] # Nil /\ q.next[w] \in Listed(q)
    BY <1>0, <1>2 DEF WellFormed, Closed
  <2>4. r \in List
    BY <2>2, <2>3, <1>0 DEF List, Link
  <2>5. /\ r.head = q.next[w] /\ r.tail = q.tail /\ r.next[w] = Nil
        /\ \A u \in Tid : u # w => r.next[u] = q.next[u]
    BY <2>2, <1>0 DEF List
  <2>6. \A u \in Listed(q) : q.next[u] # w
    BY <1>0, <1>2 DEF WellFormed
  <2>7. Listed(r) \subseteq Listed(q) \ {w}
    <3>1. Closed(r, Listed(q) \ {w})
      BY <1>0, <2>3, <2>5, <2>6 DEF Closed
    <3>. QED
      BY <3>1, <1>0, <2>4, ListedLeast
  <2>8. Listed(q) \subseteq Listed(r) \cup {w}
    <3>1. Listed(r) \subseteq Tid /\ Closed(r, Listed(r))
      BY <2>4, ListedClosed
    <3>2. Closed(q, Listed(r) \cup {w})
      BY <3>1, <1>2, <2>3, <2>5 DEF Closed
    <3>. QED
      BY <3>1, <3>2, <1>0, ListedLeast
  <2>9. Listed(r) = Listed(q) \ {w}
    BY <2>7, <2>8
  <2>10. WellFormed(r)
    <3>1. r.head # Nil /\ r.tail # Nil /\ r.tail \in Listed(r)
      BY <1>0, <1>2, <2>3, <2>5, <2>9 DEF Tid, Nil
    <3>2. \A u \in Listed(r) : r.next[u] = Nil <=> u = r.tail
      BY <1>0, <2>5, <2>9 DEF WellFormed
    <3>3. \A u \in Listed(r) : r.next[u] # r.head
      BY <1>0, <2>3, <2>5, <2>9 DEF WellFormed
    <3>4. \A u, v \in Listed(r) : r.next[u] = r.next[v] => u = v
      BY <1>0, <2>5, <2>9 DEF WellFormed
    <3>5. \A u \in Tid \ Listed(r) : r.next[u] = Nil
      BY <1>0, <2>5, <2>9 DEF WellFormed
    <3>. QED
      BY <3>1, <3>2, <3>3, <3>4, <3>5 DEF WellFormed
  <2>. QED
    BY <2>4, <2>9, <2>10
<1>3. CASE q.head # q.tail /\ w # q.head
  <2>1. p \in Listed(q) /\ p \in Tid /\ p # w /\ p # Nil /\ q.next[p] = w
    BY <1>0, <1>3, PredFact DEF Tid, Nil
  <2>2. r = [head |-> q.head, tail |-> IF w = q.tail THEN p ELSE q.tail,
             next |-> [q.next EXCEPT ![p] = q.next[w], ![w] = Nil]]
    BY <1>3 DEF Unlink
  <2>3. r \in List
    BY <2>1, <2>2, <1>0 DEF List, Link
  <2>4. /\ r.head = q.head
        /\ r.tail = IF w = q.tail THEN p ELSE q.tail
        /\ r.next[w] = Nil /\ r.next[p] = q.next[w]
        /\ \A u \in Tid : u # w /\ u # p => r.next[u] = q.next[u]
    BY <2>1, <2>2, <1>0 DEF List
  <2>5. \A u \in Listed(q) : u # p => q.next[u] # w
    BY <2>1 DEF WellFormed
  <2>6. q.next[w] # w
    BY <2>1, <2>5
  <2>7. Listed(r) \subseteq Listed(q) \ {w}
    <3>1. Closed(r, Listed(q) \ {w})
      BY <1>0, <1>3, <2>1, <2>4, <2>5, <2>6 DEF Closed
    <3>. QED
      BY <3>1, <1>0, <2>3, ListedLeast
  <2>8. Listed(r) \subseteq Tid /\ Closed(r, Listed(r))
    BY <2>3, ListedClosed
  <2>9. p \in Listed(r)
    (* otherwise w could not be reached in q without passing p *)
    <3>. SUFFICES ASSUME p \notin Listed(r) PROVE FALSE
      OBVIOUS
    <3>1. Closed(q, Listed(r))
      BY <1>0, <1>3, <2>4, <2>5, <2>7, <2>8 DEF Closed
    <3>2. Listed(q) \subseteq Listed(r)
      BY <3>1, <2>8, ListedLeast
    <3>. QED
      BY <3>2, <2>1
  <2>10. Listed(q) \subseteq Listed(r) \cup {w}
    <3>1. Closed(q, Listed(r) \cup {w})
      BY <1>0, <1>3, <2>1, <2>4, <2>8, <2>9 DEF Closed
    <3>. QED
      BY <3>1, <2>8, <1>0, ListedLeast
  <2>11. Listed(r) = Listed(q) \ {w}
    BY <2>7, <2>10
  <2>12. WellFormed(r)
    <3>1. r.head # Nil /\ r.tail # Nil /\ r.tail \in Listed(r)
      BY <1>0, <2>1, <2>4, <2>11 DEF Tid, Nil
    <3>2. \A u \in Listed(r) : r.next[u] = Nil <=> u = r.tail
      BY <1>0, <2>1, <2>4, <2>11 DEF WellFormed
    <3>3. \A u \in Listed(r) : r.next[u] # r.head
      BY <1>0, <2>1, <2>4, <2>11 DEF WellFormed
    <3>4. \A u, v \in Listed(r) : r.next[u] = r.next[v] => u = v
      <4>1. \A u \in Listed(r) : u # p => r.next[u] = q.next[u]
        BY <1>0, <2>4, <2>11
      <4>2. \A u \in Listed(r) : u # p => q.next[u] # q.next[w]
        BY <2>11 DEF WellFormed
      <4>. QED
        BY <4>1, <4>2, <2>4, <2>11 DEF WellFormed
    <3>5. \A u \in Tid \ Listed(r) : r.next[u] = Nil
      BY <1>0, <2>1, <2>4, <2>11 DEF WellFormed
    <3>. QED
      BY <3>1, <3>2, <3>3, <3>4, <3>5 DEF WellFormed
  <2>. QED
    BY <2>3, <2>11, <2>12
<1>. QED
  BY <1>1, <1>2, <1>3

(* A queue whose head is its tail holds one thread. *)
LEMMA ListedOne ==
    ASSUME NEW q \in List, WellFormed(q), q.head # Nil, q.head = q.tail
    PROVE  Listed(q) = {q.head}
<1>1. q.head \in Listed(q) /\ q.head \in Tid
  BY ListedEmpty, ListedClosed
<1>2. Closed(q, {q.head})
  BY <1>1 DEF Closed, WellFormed
<1>. QED
  BY <1>1, <1>2, ListedLeast

LEMMA EmptyListFacts == EmptyList \in List /\ WellFormed(EmptyList) /\ Listed(EmptyList) = {}
<1>1. EmptyList \in List
  BY DEF EmptyList, List, Link
<1>2. Closed(EmptyList, {})
  BY DEF Closed, EmptyList
<1>3. Listed(EmptyList) = {}
  BY <1>1, <1>2, ListedLeast
<1>. QED
  BY <1>1, <1>3 DEF WellFormed, EmptyList

-----------------------------------------------------------------------------
(***************************************************************************)
(* The order of a queue.  Chain(q, s) says that the links of q lead        *)
(* through the threads of the sequence s.  Then s is what Walk finds; this *)
(* needs induction along the links, for which the least number with a      *)
(* property is enough.                                                     *)
(***************************************************************************)
Chain(q, s) ==
    /\ s \in Seq(Tid)
    /\ \A i, j \in 1 .. Len(s) : s[i] = s[j] => i = j
    /\ q.head = IF s = <<>> THEN Nil ELSE s[1]
    /\ q.tail = IF s = <<>> THEN Nil ELSE s[Len(s)]
    /\ \A i \in 1 .. Len(s) : q.next[s[i]] = IF i = Len(s) THEN Nil ELSE s[i + 1]

Follow(q, g) == [k \in 0 .. MaxThreads |->
                   IF k = 0 THEN q.head
                   ELSE IF g[k - 1] = Nil THEN Nil ELSE q.next[g[k - 1]]]
Listing(s) == [k \in 0 .. MaxThreads |-> IF k < Len(s) THEN s[k + 1] ELSE Nil]

LEMMA ReachedFacts ==
    ASSUME NEW q \in List, NEW s, Chain(q, s), Len(s) <= MaxThreads
    PROVE  \A k \in 0 .. MaxThreads : Reached(q)[k] = IF k < Len(s) THEN s[k + 1] ELSE Nil
<1>0. MaxThreads \in Nat
  BY MaxThreadsAssumption
<1>1. s \in Seq(Tid) /\ Len(s) \in Nat /\ \A i \in 1 .. Len(s) : s[i] \in Tid /\ s[i] # Nil
  <2>1. s \in Seq(Tid)
    BY DEF Chain
  <2>2. Len(s) \in Nat /\ \A i \in 1 .. Len(s) : s[i] \in Tid
    BY <2>1
  <2>3. \A t \in Tid : t # Nil
    BY <1>0 DEF Tid, Nil
  <2>. QED
    BY <2>1, <2>2, <2>3
<1>2. \A k \in 0 .. MaxThreads : Listing(s)[k] = IF k < Len(s) THEN s[k + 1] ELSE Nil
  BY DEF Listing
<1>3. Listing(s) \in [0 .. MaxThreads -> Link]
  BY <1>0, <1>1 DEF Listing, Link
<1>4. Listing(s) = Follow(q, Listing(s))
  <2>. DEFINE f == Listing(s)
  <2>1. ASSUME NEW k \in 0 .. MaxThreads
        PROVE  f[k] = IF k = 0 THEN q.head
                      ELSE IF f[k - 1] = Nil THEN Nil ELSE q.next[f[k - 1]]
    <3>1. CASE k = 0
      BY <1>0, <1>1, <1>2, <3>1 DEF Chain
    <3>2. CASE k # 0
      <4>1. k - 1 \in 0 .. MaxThreads
        BY <1>0, <3>2
      <4>2. f[k - 1] = IF k - 1 < Len(s) THEN s[k] ELSE Nil
        BY <1>0, <1>2, <4>1
      <4>3. CASE k < Len(s)
        BY <1>0, <1>1, <1>2, <3>2, <4>2, <4>3 DEF Chain
      <4>4. CASE k = Len(s)
        BY <1>0, <1>1, <1>2, <3>2, <4>2, <4>4 DEF Chain
      <4>5. CASE k > Len(s)
        BY <1>0, <1>1, <1>2, <3>2, <4>2, <4>5 DEF Chain
      <4>. QED
        BY <1>1, <4>3, <4>4, <4>5
    <3>. QED
      BY <3>1, <3>2
  <2>. HIDE DEF f
  <2>2. \A k \in 0 .. MaxThreads : Follow(q, f)[k] = f[k]
    BY <2>1 DEF Follow
  <2>3. Follow(q, f) \in [0 .. MaxThreads -> Link]
    BY <2>1, <1>3 DEF Follow, f
  <2>4. f \in [0 .. MaxThreads -> Link]
    BY <1>3 DEF f
  <2>5. \A k \in 0 .. MaxThreads : f[k] = Follow(q, f)[k]
    BY <2>2
  <2>. DEFINE h == Follow(q, f)
              D == 0 .. MaxThreads
  <2>. HIDE DEF h, D
  <2>6. h \in [D -> Link] /\ f \in [D -> Link] /\ \A k \in D : f[k] = h[k]
    BY <2>3, <2>4, <2>5 DEF h, D
  <2>7. f = h
    BY <2>6
  <2>. QED
    BY <2>7 DEF f, h
<1>5. Reached(q) = CHOOSE g : g = Follow(q, g)
  BY Zenon DEF Reached, Follow
<1>6. Reached(q) = Follow(q, Reached(q))
  BY <1>4, <1>5, Zenon
<1>. DEFINE g == Reached(q)
<1>. HIDE DEF g
<1>7. \A k \in 0 .. MaxThreads :
         g[k] = IF k = 0 THEN q.head
                ELSE IF g[k - 1] = Nil THEN Nil ELSE q.next[g[k - 1]]
  <2>1. \A k \in 0 .. MaxThreads :
           Follow(q, g)[k] = IF k = 0 THEN q.head
                             ELSE IF g[k - 1] = Nil THEN Nil ELSE q.next[g[k - 1]]
    BY DEF Follow
  <2>2. g = Follow(q, g)
    BY <1>6 DEF g
  <2>. QED
    BY <2>1, <2>2, Zenon
<1>8. \A k \in 0 .. MaxThreads : g[k] = Listing(s)[k]
  <2>. DEFINE f == Listing(s)
              D == {k \in 0 .. MaxThreads : g[k] # f[k]}
  <2>. SUFFICES ASSUME D # {} PROVE FALSE
    OBVIOUS
  <2>0. D \in SUBSET Nat
    BY <1>0
  <2>1. PICK k \in D : \A m \in D : k <= m
    <3>. HIDE DEF D
    <3>. QED
      BY <2>0, LeastNat
  <2>2. \A m \in 0 .. MaxThreads :
           f[m] = IF m = 0 THEN q.head
                  ELSE IF f[m - 1] = Nil THEN Nil ELSE q.next[f[m - 1]]
    <3>1. \A m \in 0 .. MaxThreads :
             Follow(q, f)[m] = IF m = 0 THEN q.head
                               ELSE IF f[m - 1] = Nil THEN Nil ELSE q.next[f[m - 1]]
      BY DEF Follow
    <3>. QED
      BY <1>4, <3>1, Zenon
  <2>. HIDE DEF f
  <2>3. k # 0
    BY <1>0, <1>7, <2>1, <2>2
  <2>4. k - 1 \in 0 .. MaxThreads /\ k - 1 \notin D
    BY <1>0, <2>1, <2>3
  <2>5. g[k - 1] = f[k - 1]
    BY <2>4
  <2>. QED
    BY <1>7, <2>1, <2>2, <2>3, <2>5
<1>. QED
  BY <1>2, <1>8 DEF g

LEMMA ChainElements ==
    ASSUME NEW q \in List, NEW s, Chain(q, s)
    PROVE  /\ Len(s) \in Nat
           /\ s \in Seq(Tid)
           /\ \A i \in 1 .. Len(s) : s[i] \in Tid /\ s[i] # Nil
           /\ Len(s) <= MaxThreads
<1>1. s \in Seq(Tid) /\ Len(s) \in Nat /\ \A i \in 1 .. Len(s) : s[i] \in Tid
  BY DEF Chain
<1>2. MaxThreads \in Nat \ {0} /\ \A t \in Tid : t # Nil
  BY MaxThreadsAssumption DEF Tid, Nil
<1>3. s \in Injection(1 .. Len(s), Tid)
  <2>1. s \in [1 .. Len(s) -> Tid]
    BY <1>1
  <2>2. \A i, j \in 1 .. Len(s) : s[i] = s[j] => i = j
    BY <1>1 DEF Chain
  <2>. QED
    BY <2>1, <2>2 DEF Injection, IsInjective
<1>4. IsFiniteSet(Tid) /\ Cardinality(Tid) = MaxThreads
  BY <1>2, FS_Interval DEF Tid
<1>5. Cardinality(1 .. Len(s)) = Len(s)
  <2>. DEFINE n == Len(s)
  <2>1. n \in Int /\ 1 \in Int /\ n \in Nat
    BY <1>1
  <2>. HIDE DEF n
  <2>2. Cardinality(1 .. n) = IF 1 > n THEN 0 ELSE n - 1 + 1
    BY <2>1, FS_Interval
  <2>3. (IF 1 > n THEN 0 ELSE n - 1 + 1) = n
    BY <2>1
  <2>. QED
    BY <2>2, <2>3 DEF n
<1>. QED
  BY <1>1, <1>2, <1>3, <1>4, <1>5, FS_Injection

LEMMA WalkFollows ==
    ASSUME NEW q \in List, NEW s, Chain(q, s)
    PROVE  Walk(q) = s
<1>. DEFINE stops == {k \in 0 .. MaxThreads : Reached(q)[k] = Nil}
            len == IF stops = {} THEN MaxThreads
                   ELSE CHOOSE k \in stops : \A j \in stops : k <= j
<1>1. /\ Len(s) \in Nat /\ Len(s) <= MaxThreads /\ MaxThreads \in Nat
      /\ s \in Seq(Tid) /\ \A i \in 1 .. Len(s) : s[i] # Nil
  BY ChainElements, MaxThreadsAssumption
<1>2. \A k \in 0 .. MaxThreads : Reached(q)[k] = IF k < Len(s) THEN s[k + 1] ELSE Nil
  BY <1>1, ReachedFacts
<1>3. stops = Len(s) .. MaxThreads
  BY <1>1, <1>2
<1>4. len = Len(s)
  BY <1>1, <1>3
<1>5. Walk(q) = [k \in 1 .. len |-> Reached(q)[k - 1]]
  BY DEF Walk
<1>. HIDE DEF len
<1>6. Walk(q) = [k \in 1 .. Len(s) |-> s[k]]
  BY <1>1, <1>2, <1>4, <1>5
<1>. QED
  BY <1>1, <1>6

LEMMA ChainListed ==
    ASSUME NEW q \in List, NEW s, Chain(q, s)
    PROVE  Listed(q) = {s[i] : i \in 1 .. Len(s)}
<1>. DEFINE S == {s[i] : i \in 1 .. Len(s)}
<1>1. Len(s) \in Nat /\ s \in Seq(Tid) /\ \A i \in 1 .. Len(s) : s[i] \in Tid /\ s[i] # Nil
  BY ChainElements
<1>2. Listed(q) \subseteq S
  <2>1. Closed(q, S)
    BY <1>1 DEF Chain, Closed
  <2>. QED
    BY <1>1, <2>1, ListedLeast
<1>3. \A i \in 1 .. Len(s) : s[i] \in Listed(q)
  <2>. DEFINE D == {i \in 1 .. Len(s) : s[i] \notin Listed(q)}
  <2>. SUFFICES ASSUME D # {} PROVE FALSE
    OBVIOUS
  <2>0. D \in SUBSET Nat
    BY <1>1
  <2>1. PICK i \in D : \A j \in D : i <= j
    <3>. HIDE DEF D
    <3>. QED
      BY <2>0, LeastNat
  <2>2. i # 1
    BY <1>1, <2>1, ListedClosed DEF Chain, Closed
  <2>3. i - 1 \in 1 .. Len(s) /\ s[i - 1] \in Listed(q)
    BY <1>1, <2>1, <2>2
  <2>4. q.next[s[i - 1]] = s[i] /\ s[i] # Nil
    BY <1>1, <2>1, <2>2, <2>3 DEF Chain
  <2>5. s[i] \in Listed(q)
    BY <2>3, <2>4, ListedClosed DEF Closed
  <2>. QED
    BY <2>1, <2>5
<1>. QED
  BY <1>2, <1>3

LEMMA ChainEmpty ==
    ASSUME NEW q \in List
    PROVE  /\ Empty(q) => Chain(q, <<>>)
           /\ \A s : Chain(q, s) => (Empty(q) <=> s = <<>>)
<1>1. \A t \in Tid : t # Nil
  BY MaxThreadsAssumption DEF Tid, Nil
<1>2. Empty(q) => Chain(q, <<>>)
  BY DEF Empty, Chain
<1>3. ASSUME NEW s, Chain(q, s)
      PROVE  Empty(q) <=> s = <<>>
  <2>1. s # <<>> => 1 \in 1 .. Len(s) /\ s[1] \in Tid
    BY <1>3, ChainElements
  <2>. QED
    BY <1>1, <1>3, <2>1 DEF Chain, Empty
<1>. QED
  BY <1>2, <1>3

(* A queue r that differs from q by the thread t behind its tail. *)
LEMMA ChainAppend ==
    ASSUME NEW q \in List, NEW s, Chain(q, s),
           NEW t \in Tid, t \notin Listed(q), NEW r,
           r.head = IF Empty(q) THEN t ELSE q.head,
           r.tail = t,
           \A u \in Tid : r.next[u] = IF u = t THEN Nil
                                      ELSE IF u = q.tail THEN t ELSE q.next[u]
    PROVE  Chain(r, Append(s, t))
<1>. DEFINE z == Append(s, t)
            n == Len(s)
<1>1. n \in Nat /\ s \in Seq(Tid) /\ \A i \in 1 .. n : s[i] \in Tid /\ s[i] # Nil /\ s[i] # t
  BY ChainElements, ChainListed
<1>2. /\ z \in Seq(Tid) /\ Len(z) = n + 1 /\ z # <<>>
      /\ \A i \in 1 .. n : z[i] = s[i]
      /\ z[n + 1] = t
  BY <1>1, AppendProperties
<1>. HIDE DEF z
<1>3. \A i, j \in 1 .. Len(z) : z[i] = z[j] => i = j
  BY <1>1, <1>2 DEF Chain
<1>4. r.head = z[1]
  <2>1. CASE s = <<>>
    BY <1>2, <2>1, ChainEmpty
  <2>2. CASE s # <<>>
    <3>1. 1 \in 1 .. n
      BY <1>1, <2>2
    <3>. QED
      BY <1>2, <2>2, <3>1, ChainEmpty DEF Chain
  <2>. QED
    BY <2>1, <2>2
<1>5. ASSUME NEW i \in 1 .. Len(z)
      PROVE  r.next[z[i]] = IF i = Len(z) THEN Nil ELSE z[i + 1]
  <2>1. CASE i = n + 1
    BY <1>1, <1>2, <2>1
  <2>2. CASE i \in 1 .. n
    <3>1. z[i] = s[i] /\ s[i] \in Tid /\ s[i] # t /\ i # n + 1 /\ i + 1 \in 1 .. n + 1
      BY <1>1, <1>2, <2>2
    <3>2. CASE i = n
      <4>1. s[i] = q.tail
        BY <1>1, <2>2, <3>2 DEF Chain
      <4>. QED
        BY <1>1, <1>2, <3>1, <3>2, <4>1
    <3>3. CASE i # n
      <4>1. i + 1 \in 1 .. n /\ z[i + 1] = s[i + 1]
        BY <1>1, <1>2, <2>2, <3>3
      <4>2. s[i] # q.tail
        BY <1>1, <2>2, <3>3 DEF Chain
      <4>3. q.next[s[i]] = s[i + 1]
        BY <2>2, <3>3 DEF Chain
      <4>. QED
        BY <1>2, <3>1, <4>1, <4>2, <4>3
    <3>. QED
      BY <3>2, <3>3
  <2>. QED
    BY <1>1, <1>2, <2>1, <2>2
<1>6. r.tail = z[Len(z)]
  BY <1>2
<1>. QED
  BY <1>2, <1>3, <1>4, <1>5, <1>6 DEF Chain, z

LEMMA ChainEnqueue ==
    ASSUME NEW q \in List, NEW s, Chain(q, s), NEW t \in Tid, t \notin Listed(q)
    PROVE  /\ Chain(Enqueue(q, t), Append(s, t))
           /\ q.next[t] = Nil => Chain(LinkAtTail(q, t), Append(s, t))
<1>1. q.tail \in Link /\ q.next \in [Tid -> Link] /\ \A u \in Tid : u # Nil
  BY MaxThreadsAssumption DEF List, Tid, Nil
<1>2. CASE Empty(q)
  BY <1>1, <1>2, ChainAppend DEF Enqueue, LinkAtTail, Empty
<1>3. CASE ~Empty(q)
  <2>1. q.tail \in Tid /\ q.tail # t
    <3>1. s # <<>> /\ Len(s) \in 1 .. Len(s) /\ q.tail = s[Len(s)]
      BY <1>3, ChainEmpty, ChainElements DEF Chain
    <3>. QED
      BY <3>1, ChainElements, ChainListed
  <2>. QED
    BY <1>1, <1>3, <2>1, ChainAppend DEF Enqueue, LinkAtTail
<1>. QED
  BY <1>2, <1>3

(* The sequence s without its i-th element. *)
Without(s, i) == SubSeq(s, 1, i - 1) \o SubSeq(s, i + 1, Len(s))

LEMMA WithoutFacts ==
    ASSUME NEW S, NEW s \in Seq(S), NEW i \in 1 .. Len(s)
    PROVE  /\ Without(s, i) \in Seq(S)
           /\ Len(Without(s, i)) = Len(s) - 1
           /\ \A k \in 1 .. Len(s) - 1 :
                 Without(s, i)[k] = IF k < i THEN s[k] ELSE s[k + 1]
           /\ i = 1 => Without(s, i) = Tail(s)
<1>. DEFINE n == Len(s)
            a == SubSeq(s, 1, i - 1)
            b == SubSeq(s, i + 1, n)
<1>0. n \in Nat /\ i \in 1 .. n /\ \A j \in 1 .. n : s[j] \in S
  BY LenProperties
<1>1. a \in Seq(S) /\ Len(a) = i - 1 /\ \A k \in 1 .. i - 1 : a[k] = s[k]
  BY <1>0, SubSeqProperties
<1>2. b \in Seq(S) /\ Len(b) = n - i /\ \A k \in 1 .. n - i : b[k] = s[i + k]
  BY <1>0, SubSeqProperties
<1>3. Without(s, i) = a \o b
  BY DEF Without
<1>. HIDE DEF a, b
<1>. DEFINE z == a \o b
<1>4. /\ z \in Seq(S) /\ Len(z) = Len(a) + Len(b)
      /\ \A k \in 1 .. Len(a) + Len(b) : z[k] = IF k <= Len(a) THEN a[k] ELSE b[k - Len(a)]
  <2>1. a \in Seq(S) /\ b \in Seq(S)
    BY <1>1, <1>2
  <2>. QED
    BY <2>1, ConcatProperties, Zenon
<1>. HIDE DEF z
<1>5. Len(z) = n - 1
  BY <1>0, <1>1, <1>2, <1>4
<1>7. ASSUME NEW k \in 1 .. n - 1
      PROVE  z[k] = IF k < i THEN s[k] ELSE s[k + 1]
  <2>1. z[k] = IF k <= i - 1 THEN a[k] ELSE b[k - (i - 1)]
    BY <1>0, <1>1, <1>2, <1>4
  <2>2. CASE k < i
    <3>1. k \in 1 .. i - 1
      BY <1>0, <2>2
    <3>. QED
      BY <1>1, <2>1, <2>2, <3>1
  <2>3. CASE k >= i
    <3>1. k - (i - 1) \in 1 .. n - i /\ i + (k - (i - 1)) = k + 1 /\ ~(k <= i - 1) /\ ~(k < i)
      BY <1>0, <2>3
    <3>. QED
      BY <1>2, <2>1, <3>1
  <2>. QED
    BY <1>0, <2>2, <2>3
<1>6. ASSUME i = 1 PROVE z = Tail(s)
  <2>1. s # <<>>
    BY <1>0
  <2>2. Tail(s) \in Seq(S) /\ Len(Tail(s)) = n - 1 /\ \A k \in 1 .. n - 1 : Tail(s)[k] = s[k + 1]
    BY <2>1, HeadTailProperties
  <2>3. \A k \in 1 .. n - 1 : z[k] = Tail(s)[k]
    <3>1. \A k \in 1 .. n - 1 : ~(k < 1)
      BY <1>0
    <3>. QED
      BY <1>6, <1>7, <2>2, <3>1
  <2>. QED
    BY <1>4, <1>5, <2>2, <2>3, SeqEqual
<1>. QED
  BY <1>3, <1>4, <1>5, <1>6, <1>7 DEF z

(* The thread in front of the i-th. *)
LEMMA ChainPred ==
    ASSUME NEW q \in List, NEW s, Chain(q, s), WellFormed(q),
           NEW i \in 2 .. Len(s)
    PROVE  Pred(q, s[i]) = s[i - 1] /\ s[i] # q.head
<1>. DEFINE w == s[i]
            n == Len(s)
<1>0. n \in Nat /\ i \in 1 .. n /\ i - 1 \in 1 .. n /\ i > 1 /\ \A j \in 1 .. n : s[j] \in Tid
  BY ChainElements
<1>1. w # q.head
  BY <1>0 DEF Chain
<1>2. w \in Listed(q) /\ s[i - 1] \in Listed(q)
  BY <1>0, ChainListed
<1>3. Pred(q, w) \in Listed(q) /\ q.next[Pred(q, w)] = w
  BY <1>1, <1>2, PredFact
<1>4. q.next[s[i - 1]] = w
  BY <1>0 DEF Chain
<1>. HIDE DEF w
<1>5. Pred(q, w) = s[i - 1]
  BY <1>2, <1>3, <1>4 DEF WellFormed
<1>. QED
  BY <1>1, <1>5 DEF w

LEMMA ChainUnlink ==
    ASSUME NEW q \in List, NEW s, Chain(q, s), WellFormed(q), NEW i \in 1 .. Len(s)
    PROVE  Chain(Unlink(q, s[i]), Without(s, i))
<1>. DEFINE n == Len(s)
            w == s[i]
            p == Pred(q, w)
            r == Unlink(q, w)
            z == Without(s, i)
<1>0. /\ n \in Nat /\ s \in Seq(Tid) /\ i \in 1 .. n /\ 1 \in 1 .. n /\ n \in 1 .. n
      /\ \A j \in 1 .. n : s[j] \in Tid /\ s[j] # Nil
  BY ChainElements
<1>1. /\ z \in Seq(Tid) /\ Len(z) = n - 1
      /\ \A k \in 1 .. n - 1 : z[k] = IF k < i THEN s[k] ELSE s[k + 1]
  BY <1>0, WithoutFacts
<1>2. /\ q.head = s[1] /\ q.tail = s[n]
      /\ \A j, k \in 1 .. n : s[j] = s[k] => j = k
      /\ \A k \in 1 .. n : q.next[s[k]] = IF k = n THEN Nil ELSE s[k + 1]
      /\ q.next \in [Tid -> Link]
  BY <1>0 DEF Chain, List
<1>3. p = IF i = 1 THEN w ELSE s[i - 1]
  <2>1. CASE i = 1
    BY <1>2, <2>1 DEF Pred
  <2>2. CASE i # 1
    BY <1>0, <2>2, ChainPred
  <2>. QED
    BY <2>1, <2>2
<1>4. p \in Tid /\ w \in Tid
  BY <1>0, <1>3
<1>. HIDE DEF p, z, w
<1>5. \A k \in 1 .. n - 1 : z[k] # w
  BY <1>0, <1>1, <1>2 DEF w
<1>6. \A j, k \in 1 .. n - 1 : z[j] = z[k] => j = k
  BY <1>0, <1>1, <1>2
<1>7. CASE n = 1
  <2>1. q.head = q.tail /\ z = <<>>
    BY <1>1, <1>2, <1>7, EmptySeq
  <2>2. Empty(r)
    BY <2>1 DEF Unlink, Empty
  <2>3. Chain(r, <<>>)
    BY <2>2 DEF Empty, Chain
  <2>. QED
    BY <2>1, <2>3 DEF z, w
<1>8. CASE n # 1
  <2>1. q.head # q.tail
    BY <1>0, <1>2, <1>8
  <2>2. /\ r.head = IF w = q.head THEN q.next[w] ELSE q.head
        /\ r.tail = IF w = q.tail THEN p ELSE q.tail
        /\ r.next = [q.next EXCEPT ![p] = q.next[w], ![w] = Nil]
    BY <2>1 DEF Unlink, p
  <2>. HIDE DEF r
  <2>3. z # <<>>
    BY <1>0, <1>1, <1>8
  <2>4. r.head = z[1]
    <3>1. CASE i = 1
      BY <1>0, <1>1, <1>2, <1>8, <2>2, <3>1 DEF w
    <3>2. CASE i # 1
      BY <1>0, <1>1, <1>2, <1>8, <2>2, <3>2 DEF w
    <3>. QED
      BY <3>1, <3>2
  <2>5. r.tail = z[n - 1]
    <3>1. CASE i = n
      BY <1>0, <1>1, <1>2, <1>3, <1>8, <2>2, <3>1 DEF w
    <3>2. CASE i # n
      BY <1>0, <1>1, <1>2, <1>8, <2>2, <3>2 DEF w
    <3>. QED
      BY <3>1, <3>2
  <2>6. ASSUME NEW k \in 1 .. n - 1
        PROVE  r.next[z[k]] = IF k = n - 1 THEN Nil ELSE z[k + 1]
    <3>0. z[k] \in Tid /\ z[k] # w
      BY <1>0, <1>1, <1>5
    <3>1. r.next[z[k]] = IF z[k] = p THEN q.next[w] ELSE q.next[z[k]]
      BY <1>2, <1>4, <2>2, <3>0
    <3>2. CASE k < i - 1
      <4>1. /\ k \in 1 .. n /\ k + 1 \in 1 .. n /\ k # n /\ k # n - 1 /\ i - 1 \in 1 .. n
            /\ k + 1 \in 1 .. n - 1 /\ k < i /\ k + 1 < i /\ i # 1
        BY <1>0, <3>2
      <4>2. z[k] = s[k] /\ z[k + 1] = s[k + 1] /\ z[k] # p
        BY <1>1, <1>2, <1>3, <3>2, <4>1
      <4>. QED
        BY <1>2, <3>1, <4>1, <4>2
    <3>3. CASE k = i - 1
      <4>1. z[k] = p
        BY <1>0, <1>1, <1>3, <3>3
      <4>2. q.next[w] = IF i = n THEN Nil ELSE s[i + 1]
        BY <1>2 DEF w
      <4>3. i # n => z[k + 1] = s[i + 1]
        BY <1>0, <1>1, <3>3
      <4>. QED
        BY <1>0, <3>1, <3>3, <4>1, <4>2, <4>3
    <3>4. CASE k >= i
      <4>1. k + 1 \in 1 .. n /\ z[k] = s[k + 1] /\ (k # n - 1 => z[k + 1] = s[k + 2])
        BY <1>0, <1>1, <3>4
      <4>2. z[k] # p
        BY <1>0, <1>2, <1>3, <3>4, <4>1 DEF w
      <4>3. q.next[s[k + 1]] = IF k + 1 = n THEN Nil ELSE s[k + 2]
        BY <1>0, <1>2, <4>1
      <4>. QED
        BY <1>0, <3>1, <4>1, <4>2, <4>3
    <3>5. k < i - 1 \/ k = i - 1 \/ k >= i
      BY <1>0
    <3>. QED
      BY <3>2, <3>3, <3>4, <3>5
  <2>7. Chain(r, z)
    BY <1>1, <1>6, <2>3, <2>4, <2>5, <2>6 DEF Chain
  <2>. QED
    BY <2>7 DEF r, w, z
<1>. QED
  BY <1>7, <1>8

(* A chain whose queue loses a link outside it is the same chain. *)
LEMMA ChainSame ==
    ASSUME NEW q \in List, NEW s, Chain(q, s), NEW r,
           r.head = q.head, r.tail = q.tail,
           \A t \in Listed(q) : r.next[t] = q.next[t]
    PROVE  Chain(r, s)
<1>1. \A i \in 1 .. Len(s) : s[i] \in Listed(q)
  BY ChainListed
<1>2. \A i \in 1 .. Len(s) : r.next[s[i]] = q.next[s[i]]
  BY <1>1
<1>. QED
  BY <1>2 DEF Chain

-----------------------------------------------------------------------------
(* What users of a queue need to know of its sequence. *)

(* The sequence is determined by the links. *)
LEMMA OrderedBy ==
    ASSUME NEW q \in List, NEW s, Chain(q, s)
    PROVE  Walk(q) = s /\ Chain(q, Walk(q))
BY WalkFollows

LEMMA ChainQueue ==
    ASSUME NEW q \in List, NEW s, Chain(q, s)
    PROVE  /\ s \in Seq(Tid)
           /\ {s[i] : i \in DOMAIN s} = Listed(q)
           /\ s = <<>> <=> Empty(q)
           /\ ~Empty(q) => Head(s) = q.head /\ q.head \in Listed(q)
<1>1. /\ s \in Seq(Tid) /\ Len(s) \in Nat /\ DOMAIN s = 1 .. Len(s)
      /\ Listed(q) = {s[i] : i \in 1 .. Len(s)}
  BY ChainElements, ChainListed
<1>2. s = <<>> <=> Empty(q)
  BY ChainEmpty
<1>3. s # <<>> => q.head = s[1]
  BY DEF Chain
<1>4. ASSUME s # <<>> PROVE Head(s) = q.head /\ q.head \in Listed(q)
  <2>1. 1 \in 1 .. Len(s)
    BY <1>1, <1>4
  <2>. QED
    BY <1>1, <1>3, <1>4, <2>1
<1>. QED
  BY <1>1, <1>2, <1>4

(* Taking a thread out, wherever it stands. *)
LEMMA ChainRemove ==
    ASSUME NEW q \in List, WellFormed(q), NEW s, Chain(q, s), NEW w \in Listed(q)
    PROVE  /\ Chain(Unlink(q, w), Without(s, CHOOSE i \in DOMAIN s : s[i] = w))
           /\ Unlink(q, w) \in List
           /\ Listed(Unlink(q, w)) = Listed(q) \ {w}
           /\ w = q.head => Chain(Unlink(q, w), Tail(s))
<1>1. /\ s \in Seq(Tid) /\ Len(s) \in Nat /\ DOMAIN s = 1 .. Len(s)
      /\ Listed(q) = {s[i] : i \in 1 .. Len(s)}
  BY ChainElements, ChainListed
<1>2. PICK i \in 1 .. Len(s) : s[i] = w
  BY <1>1
<1>3. (CHOOSE j \in DOMAIN s : s[j] = w) = i
  BY <1>1, <1>2 DEF Chain
<1>4. Chain(Unlink(q, w), Without(s, i))
  BY <1>2, ChainUnlink
<1>5. w = q.head => i = 1
  <2>1. s # <<>> /\ 1 \in 1 .. Len(s)
    BY <1>1, <1>2
  <2>2. q.head = s[1]
    BY <2>1 DEF Chain
  <2>3. \A j \in 1 .. Len(s) : s[i] = s[j] => i = j
    BY <1>2 DEF Chain
  <2>. QED
    BY <1>2, <2>1, <2>2, <2>3
<1>6. i = 1 => Without(s, i) = Tail(s)
  BY <1>1, WithoutFacts
<1>. QED
  BY <1>3, <1>4, <1>5, <1>6, UnlinkFacts

-----------------------------------------------------------------------------

(***************************************************************************)
(* The inductive invariant.  The properties alone are not inductive: that  *)
(* the reaping frees exited threads only, and that one call of it is       *)
(* enough, depends on exit_array using its first entry alone, and on that  *)
(* entry being empty whenever a thread may exit, which is in client code.  *)
(***************************************************************************)
ExitArrayShape ==
    /\ \A i \in Tid \ {0} : exit_array[i] = Nil
    /\ pc[current_thread] \in {"user", "halt"} => exit_array[0] = Nil
    /\ \A t \in Tid : pc[t] = "exit" => thread_state[t] = EXIT

IInv == TypeOK /\ ReadyListIntact /\ OnePlace /\ StacksOwned /\ ExitArrayShape

LEMMA TidFacts == 0 \in Tid /\ Tid \subseteq Int /\ \A t \in Tid : t # Nil /\ t >= 0
BY MaxThreadsAssumption DEF Tid, Nil

(* With that shape, the zombies and the threads clean_exit_array reaps are *)
(* the thread in entry 0.                                                  *)
LEMMA ExitArrayFacts ==
    ASSUME IInv
    PROVE  /\ Zombies = {t \in Tid : exit_array[0] = t}
           /\ Reaped = Zombies
           /\ \A i \in Tid : InUse(i) \/ exit_array[i] = Nil
           /\ \A i \in Tid : exit_array[0] = Nil => (FirstFree(i) <=> i = 0)
<1>1. Zombies = {t \in Tid : exit_array[0] = t}
  BY TidFacts DEF Zombies, IInv, ExitArrayShape
<1>2. \A i \in Tid : InUse(i) => exit_array[i] # Nil /\ exit_array[0] # Nil
  BY TidFacts DEF InUse, Tid
<1>3. InUse(0) <=> exit_array[0] # Nil
  BY DEF InUse
<1>4. \A i \in Tid : InUse(i) => i = 0
  BY <1>2 DEF IInv, ExitArrayShape
<1>5. Reaped = Zombies
  BY <1>1, <1>3, <1>4, TidFacts DEF Reaped, IInv, TypeOK, Link
<1>6. \A i \in Tid : InUse(i) \/ exit_array[i] = Nil
  BY <1>3, TidFacts DEF IInv, ExitArrayShape
<1>7. ASSUME NEW i \in Tid, exit_array[0] = Nil
      PROVE  FirstFree(i) <=> i = 0
  <2>1. CASE i = 0
    BY <1>7, <2>1 DEF FirstFree
  <2>2. CASE i # 0
    <3>1. 0 \in 0 .. (i - 1)
      BY <2>2, TidFacts
    <3>. QED
      BY <1>7, <2>2, <3>1 DEF FirstFree
  <2>. QED
    BY <2>1, <2>2
<1>. QED
  BY <1>1, <1>5, <1>6, <1>7

(* Giving the processor to a thread of the ready queue and putting the     *)
(* caller at its end.                                                      *)
LEMMA SwitchQueue ==
    ASSUME IInv, NEW w \in Listed(ready)
    PROVE  LET q == Enqueue(Unlink(ready, w), current_thread)
           IN  /\ q \in List
               /\ WellFormed(q)
               /\ Listed(q) = (Listed(ready) \ {w}) \cup {current_thread}
<1>. DEFINE u == Unlink(ready, w)
<1>1. ready \in List /\ WellFormed(ready) /\ current_thread \in Tid
  BY DEF IInv, TypeOK, ReadyListIntact
<1>2. u \in List /\ WellFormed(u) /\ Listed(u) = Listed(ready) \ {w}
  BY <1>1, UnlinkFacts
<1>3. current_thread \notin Listed(u)
  BY <1>1, <1>2 DEF IInv, OnePlace
<1>. QED
  BY <1>1, <1>2, <1>3, EnqueueFacts

LEMMA InitInv == ASSUME ExitFill = Nil, Init PROVE IInv
<1>1. TypeOK
  BY TidFacts DEF Init, TypeOK, List, EmptyList, Link, PCs, Results
<1>2. Listed(ready) = {}
  <2>1. Closed(EmptyList, {}) /\ EmptyList \in List
    BY DEF Closed, EmptyList, List, Link
  <2>. QED
    BY <2>1, ListedLeast DEF Init
<1>3. ReadyListIntact
  BY <1>2, TidFacts DEF Init, ReadyListIntact, WellFormed, EmptyList
<1>4. \A i \in Tid : exit_array[i] = Nil
  BY DEF Init
<1>5. ExitArrayShape
  BY <1>4, TidFacts DEF ExitArrayShape, Init
<1>6. Zombies = {}
  BY <1>4, TidFacts DEF Zombies
<1>7. OnePlace
  BY <1>2, <1>6, TidFacts DEF Init, OnePlace
<1>8. StacksOwned
  BY TidFacts DEF Init, StacksOwned
<1>. QED
  BY <1>1, <1>3, <1>5, <1>7, <1>8 DEF IInv

-----------------------------------------------------------------------------
(* One lemma per step of the package. *)

LEMMA SwitchInv ==
    ASSUME IInv, Running, NEW w \in Listed(ready), SwitchTo(w), ret' \in Results
    PROVE  IInv'
<1>1. /\ ready' \in List /\ WellFormed(ready')
      /\ Listed(ready') = (Listed(ready) \ {w}) \cup {current_thread}
  BY SwitchQueue DEF SwitchTo
<1>2. w \in Tid /\ w # current_thread /\ current_thread \in Tid
  BY ListedClosed DEF IInv, TypeOK, OnePlace
<1>3. TypeOK'
  BY <1>1, <1>2 DEF IInv, TypeOK, SwitchTo, PCs
<1>4. ReadyListIntact'
  BY <1>1 DEF ReadyListIntact
<1>5. Zombies' = Zombies
  BY DEF Zombies, SwitchTo
<1>6. OnePlace'
  BY <1>1, <1>2, <1>5 DEF IInv, TypeOK, OnePlace, SwitchTo, Running
<1>7. StacksOwned'
  BY <1>2 DEF IInv, TypeOK, OnePlace, StacksOwned, SwitchTo, Running
<1>8. ExitArrayShape'
  BY <1>2 DEF IInv, TypeOK, ExitArrayShape, SwitchTo, Running
<1>. QED
  BY <1>3, <1>4, <1>6, <1>7, <1>8 DEF IInv

LEMMA CreateInv ==
    ASSUME IInv, thread_create
    PROVE  IInv'
<1>1. CASE UNCHANGED <<thread_state, has_stack, ready, pc>> /\ ret' \in Results
  BY <1>1 DEF IInv, thread_create, TypeOK, ReadyListIntact, OnePlace, StacksOwned,
              ExitArrayShape, Zombies
<1>2. ASSUME NEW t \in Tid,
             Available(t),
             thread_state' = [thread_state EXCEPT ![t] = READY],
             has_stack' = [has_stack EXCEPT ![t] = TRUE],
             ready' = LinkAtTail(ready, t),
             pc' = [pc EXCEPT ![t] = "stub"],
             ret' = "ok"
      PROVE  IInv'
  <2>1. UNCHANGED <<exit_array, current_thread>> /\ Running
    BY DEF thread_create
  <2>2. t # 0 /\ pc[t] = "free"
    <3>1. t # 0 /\ (~has_stack[t] \/ thread_state[t] = NONE_STATE)
      BY <1>2 DEF Available
    <3>. QED
      BY <3>1 DEF IInv, StacksOwned, READY, EXIT, NONE_STATE
  <2>3. t # current_thread /\ t \notin Listed(ready) /\ current_thread \in Tid
    BY <1>2, <2>2 DEF IInv, TypeOK, OnePlace
  <2>4. /\ ready' \in List /\ WellFormed(ready')
        /\ Listed(ready') = Listed(ready) \cup {t}
    BY <1>2, <2>3, LinkAtTailFacts DEF IInv, TypeOK, ReadyListIntact
  <2>5. TypeOK'
    BY <1>2, <2>1, <2>4 DEF IInv, TypeOK, PCs, Results
  <2>6. Zombies' = Zombies
    BY <2>1 DEF Zombies
  <2>7. OnePlace'
    BY <1>2, <2>1, <2>2, <2>3, <2>4, <2>6 DEF IInv, TypeOK, OnePlace
  <2>8. StacksOwned'
    BY <1>2, <2>1, <2>2 DEF IInv, TypeOK, StacksOwned
  <2>9. ExitArrayShape'
    BY <1>2, <2>1, <2>3 DEF IInv, TypeOK, ExitArrayShape
  <2>. QED
    BY <2>4, <2>5, <2>7, <2>8, <2>9 DEF IInv, ReadyListIntact
<1>. QED
  BY <1>1, <1>2 DEF thread_create, Results

LEMMA YieldInv ==
    ASSUME IInv, NEW want \in WantTids, thread_yield(want)
    PROVE  IInv'
<1>1. CASE /\ UNCHANGED <<thread_state, has_stack, ready, exit_array, current_thread, pc>>
           /\ ret' \in Results
  BY <1>1 DEF IInv, TypeOK, ReadyListIntact, OnePlace, StacksOwned, ExitArrayShape, Zombies
<1>2. CASE CanRun(want) /\ ret' = "ok"
           /\ SwitchTo(IF want = THREAD_ANY THEN ready.head ELSE want)
  <2>1. (IF want = THREAD_ANY THEN ready.head ELSE want) \in Listed(ready)
    BY <1>2, ListedEmpty DEF CanRun, IInv, TypeOK, ReadyListIntact
  <2>. QED
    BY <1>2, <2>1, SwitchInv DEF thread_yield, Results
<1>. QED
  BY <1>1, <1>2 DEF thread_yield, Results

LEMMA HandlerInv ==
    ASSUME IInv, interrupt_handler
    PROVE  IInv'
<1>1. ready.head \in Listed(ready)
  BY ListedEmpty DEF interrupt_handler, IInv, TypeOK, ReadyListIntact
<1>2. ret' \in Results
  BY DEF interrupt_handler, IInv, TypeOK
<1>. QED
  BY <1>1, <1>2, SwitchInv DEF interrupt_handler

LEMMA ExitInv ==
    ASSUME IInv, Running, ~Empty(ready), ExitTo(ready.head)
    PROVE  IInv'
<1>. DEFINE w == ready.head
            c == current_thread
<1>1. w \in Listed(ready) /\ w \in Tid /\ w # c /\ c \in Tid
  BY ListedEmpty, ListedClosed DEF IInv, TypeOK, ReadyListIntact, OnePlace
<1>2. /\ ready' \in List /\ WellFormed(ready')
      /\ Listed(ready') = Listed(ready) \ {w}
  BY <1>1, UnlinkFacts DEF ExitTo, IInv, TypeOK, ReadyListIntact
<1>3. exit_array' = [i \in Tid |-> IF i = 0 THEN c ELSE exit_array[i]]
  BY ExitArrayFacts DEF ExitTo, PutInExitArray, IInv, ExitArrayShape, Running
<1>4. exit_array[0] = Nil
  BY DEF IInv, ExitArrayShape, Running
<1>5. TypeOK'
  BY <1>1, <1>2, <1>3 DEF ExitTo, IInv, TypeOK, PCs, Link
<1>6. /\ Zombies = {}
      /\ Zombies' = {c}
  <2>1. \A i \in Tid : exit_array'[i] = IF i = 0 THEN c ELSE Nil
    BY <1>3 DEF IInv, ExitArrayShape
  <2>. QED
    BY <2>1, <1>1, <1>4, TidFacts DEF Zombies, IInv, ExitArrayShape
<1>7. pc' = [pc EXCEPT ![c] = "exit"] /\ current_thread' = w
  BY DEF ExitTo
<1>8. OnePlace'
  BY <1>1, <1>2, <1>6, <1>7 DEF IInv, TypeOK, OnePlace
<1>9. StacksOwned'
  <2>1. /\ has_stack' = has_stack
        /\ thread_state' = [thread_state EXCEPT ![c] = EXIT]
        /\ pc[c] = "user"
    BY DEF ExitTo, Running
  <2>. QED
    BY <1>1, <1>7, <2>1 DEF IInv, TypeOK, StacksOwned
<1>10. ExitArrayShape'
  <2>1. \A t \in Tid : pc'[t] = "exit" => thread_state'[t] = EXIT
    BY <1>1, <1>7 DEF ExitTo, IInv, TypeOK, ExitArrayShape
  <2>. QED
    BY <1>1, <1>3, <1>7, <2>1 DEF IInv, TypeOK, OnePlace, ExitArrayShape
<1>. QED
  BY <1>2, <1>5, <1>8, <1>9, <1>10 DEF IInv, ReadyListIntact

LEMMA StubReturnInv ==
    ASSUME IInv, thread_stub_return
    PROVE  IInv'
<1>1. CASE ~Empty(ready) /\ ExitTo(ready.head)
  BY <1>1, ExitInv DEF thread_stub_return
<1>2. CASE /\ Empty(ready)
           /\ ret' = "none"
           /\ pc' = [pc EXCEPT ![current_thread] = "halt"]
           /\ UNCHANGED <<thread_state, has_stack, ready, exit_array, current_thread>>
  <2>1. pc[current_thread] = "user"
    BY DEF thread_stub_return, Running
  <2>2. Zombies' = Zombies
    BY <1>2 DEF Zombies
  <2>3. OnePlace' /\ StacksOwned' /\ ExitArrayShape'
    BY <1>2, <2>1, <2>2 DEF IInv, TypeOK, OnePlace, StacksOwned, ExitArrayShape
  <2>. QED
    BY <1>2, <2>3 DEF IInv, TypeOK, ReadyListIntact, PCs, Results
<1>. QED
  BY <1>1, <1>2 DEF thread_stub_return

LEMMA KillInv ==
    ASSUME IInv, NEW tid \in KillTids, thread_kill(tid)
    PROVE  IInv'
<1>1. CASE ~Killable(tid)
  <2>1. ret' \in Results
    BY <1>1 DEF thread_kill, KillRefused, Results
  <2>. QED
    BY <1>1, <2>1 DEF thread_kill, IInv, TypeOK, ReadyListIntact, OnePlace, StacksOwned,
                      ExitArrayShape, Zombies
<1>2. CASE Killable(tid)
  <2>1. /\ tid \in Tid /\ tid # current_thread /\ tid \in Listed(ready)
        /\ KillReady(tid)
        /\ current_thread \in Tid
    BY <1>2 DEF thread_kill, Killable, IInv, TypeOK
  <2>2. /\ ready' \in List /\ WellFormed(ready')
        /\ Listed(ready') = Listed(ready) \ {tid}
    BY <2>1, UnlinkFacts DEF KillReady, IInv, TypeOK, ReadyListIntact
  <2>3. TypeOK'
    BY <2>1, <2>2 DEF KillReady, IInv, TypeOK, PCs, Results
  <2>4. Zombies' = Zombies
    BY <2>1 DEF KillReady, Zombies
  <2>5. pc[tid] # "exit"
    BY <2>1 DEF IInv, OnePlace
  <2>6. OnePlace'
    BY <2>1, <2>2, <2>4, <2>5 DEF KillReady, IInv, TypeOK, OnePlace
  <2>7. StacksOwned'
    BY <2>1 DEF KillReady, IInv, TypeOK, StacksOwned
  <2>8. ExitArrayShape'
    BY <2>1 DEF KillReady, IInv, TypeOK, ExitArrayShape
  <2>. QED
    BY <2>2, <2>3, <2>6, <2>7, <2>8 DEF IInv, ReadyListIntact
<1>. QED
  BY <1>1, <1>2

(* The reaping clears links that are clear already. *)
LEMMA ResumeReady ==
    ASSUME IInv, Resume
    PROVE  ready' = ready
<1>1. ready \in List /\ \A t \in Reaped : t \in Tid /\ t \notin Listed(ready)
  BY ExitArrayFacts DEF IInv, TypeOK, OnePlace, Zombies
<1>2. \A t \in Reaped : ready.next[t] = Nil
  BY <1>1 DEF IInv, ReadyListIntact, WellFormed
<1>3. [t \in Tid |-> IF t \in Reaped THEN Nil ELSE ready.next[t]] = ready.next
  BY <1>1, <1>2 DEF List
<1>. QED
  BY <1>1, <1>3 DEF Resume, clean_exit_array, List

LEMMA ResumeInv ==
    ASSUME IInv, Resume
    PROVE  IInv'
<1>. DEFINE c == current_thread
<1>1. ready' = ready /\ current_thread' = c /\ ret' = ret /\ c \in Tid
  BY ResumeReady DEF Resume, IInv, TypeOK
<1>2. \A i \in Tid : exit_array'[i] = Nil
  BY ExitArrayFacts DEF Resume, clean_exit_array
<1>3. Reaped = {t \in Tid : pc[t] = "exit"}
  BY ExitArrayFacts DEF IInv, OnePlace, Zombies
<1>4. \A t \in Tid : pc'[t] = IF t = c THEN "user"
                               ELSE IF pc[t] = "exit" THEN "free" ELSE pc[t]
  BY <1>3 DEF Resume
<1>5. pc[c] \in {"stub", "yield"}
  BY DEF Resume
<1>6. /\ pc' \in [Tid -> PCs]
      /\ exit_array' \in [Tid -> Link]
      /\ has_stack' \in [Tid -> BOOLEAN]
      /\ thread_state' \in [Tid -> {EXIT, READY, NONE_STATE}]
  BY DEF Resume, clean_exit_array, IInv, TypeOK, PCs, Link
<1>7. TypeOK'
  BY <1>1, <1>6 DEF IInv, TypeOK
<1>8. ReadyListIntact'
  BY <1>1 DEF IInv, ReadyListIntact
<1>9. Zombies' = {}
  BY <1>2, TidFacts DEF Zombies
<1>10. OnePlace'
  BY <1>1, <1>4, <1>5, <1>9 DEF IInv, TypeOK, OnePlace
<1>11. StacksOwned'
  <2>1. \A t \in Tid : /\ has_stack'[t] = (pc[t] # "exit" /\ has_stack[t])
                       /\ thread_state'[t] = IF pc[t] = "exit" THEN NONE_STATE
                                             ELSE thread_state[t]
    BY <1>3 DEF Resume, clean_exit_array
  <2>. QED
    BY <1>1, <1>4, <1>5, <2>1 DEF IInv, TypeOK, StacksOwned
<1>12. ExitArrayShape'
  BY <1>2, <1>4, TidFacts DEF ExitArrayShape
<1>. QED
  BY <1>7, <1>8, <1>10, <1>11, <1>12 DEF IInv

LEMMA NextInv == ASSUME IInv, [Next]_vars PROVE IInv'
<1>1. CASE thread_create
  BY <1>1, CreateInv
<1>2. CASE \E want \in WantTids : thread_yield(want)
  BY <1>2, YieldInv
<1>3. CASE thread_exit
  <2>1. CASE ~Empty(ready) /\ ExitTo(ready.head)
    BY <1>3, <2>1, ExitInv DEF thread_exit
  <2>2. CASE /\ ret' = "none"
             /\ UNCHANGED <<thread_state, has_stack, ready, exit_array, current_thread, pc>>
    BY <2>2 DEF IInv, TypeOK, ReadyListIntact, OnePlace, StacksOwned, ExitArrayShape,
                Zombies, Results
  <2>. QED
    BY <1>3, <2>1, <2>2 DEF thread_exit
<1>4. CASE thread_stub_return
  BY <1>4, StubReturnInv
<1>5. CASE \E tid \in KillTids : thread_kill(tid)
  BY <1>5, KillInv
<1>6. CASE interrupt_handler
  BY <1>6, HandlerInv
<1>7. CASE Resume
  BY <1>7, ResumeInv
<1>8. CASE UNCHANGED vars
  BY <1>8 DEF vars, IInv, TypeOK, ReadyListIntact, OnePlace, StacksOwned, ExitArrayShape,
              Zombies
<1>. QED
  BY <1>1, <1>2, <1>3, <1>4, <1>5, <1>6, <1>7, <1>8 DEF Next, Halted

THEOREM Invariance == ASSUME ExitFill = Nil PROVE Spec => []IInv
<1>1. Init => IInv
  BY InitInv
<1>2. IInv /\ [Next]_vars => IInv'
  BY NextInv
<1>. QED
  BY <1>1, <1>2, PTL DEF Spec

-----------------------------------------------------------------------------
(* The results. *)

(* The variables keep their types, through every call with any arguments. *)
THEOREM TypeCorrect == ASSUME ExitFill = Nil PROVE Spec => []TypeOK
<1>1. IInv => TypeOK
  BY DEF IInv
<1>. QED
  BY <1>1, Invariance, PTL

(* The ready queue of thread.c is never broken, whatever the order in      *)
(* which threads are created, run by name, preempted, exit and are killed. *)
THEOREM ReadyQueueSafe == ASSUME ExitFill = Nil PROVE Spec => []ReadyListIntact
<1>1. IInv => ReadyListIntact
  BY DEF IInv
<1>. QED
  BY <1>1, Invariance, PTL

(* No thread is lost or in two places. *)
THEOREM ThreadsInOnePlace == ASSUME ExitFill = Nil PROVE Spec => []OnePlace
<1>1. IInv => OnePlace
  BY DEF IInv
<1>. QED
  BY <1>1, Invariance, PTL

(* No stack is freed under a thread that will run again, none is leaked. *)
THEOREM StacksSafe == ASSUME ExitFill = Nil PROVE Spec => []StacksOwned
<1>1. IInv => StacksOwned
  BY DEF IInv
<1>. QED
  BY <1>1, Invariance, PTL

(* Client code runs only after the exited threads have been reaped. *)
THEOREM ReapingInTime == ASSUME ExitFill = Nil PROVE Spec => []ReapedBeforeUser
<1>1. ASSUME IInv PROVE ReapedBeforeUser
  <2>1. Zombies = {t \in Tid : exit_array[0] = t}
    BY <1>1, ExitArrayFacts
  <2>2. Running => Zombies = {}
    BY <1>1, <2>1, TidFacts DEF IInv, ExitArrayShape, Running
  <2>3. CASE exit_array[0] \in Tid
    <3>1. Zombies = {exit_array[0]}
      BY <2>1, <2>3
    <3>2. Cardinality(Zombies) = 1
      BY <3>1, FS_Singleton
    <3>. QED
      BY <2>2, <3>2 DEF ReapedBeforeUser
  <2>4. CASE exit_array[0] \notin Tid
    <3>1. Cardinality(Zombies) = 0
      BY <2>1, <2>4, FS_EmptySet
    <3>. QED
      BY <2>2, <3>1 DEF ReapedBeforeUser
  <2>. QED
    BY <2>3, <2>4
<1>. QED
  BY <1>1, Invariance, PTL

(* A thread that exited or was killed never gets the processor again under *)
(* that identifier before thread_create gives it out anew.                 *)
THEOREM ExitedNeverRun == ASSUME ExitFill = Nil PROVE Spec => OnlySuspendedRun
<1>. DEFINE A == current_thread' # current_thread =>
                     /\ pc[current_thread'] \in {"stub", "yield"}
                     /\ current_thread' \in Listed(ready)
                     /\ current_thread' \notin Listed(ready')
<1>1. ASSUME IInv, IInv', [Next]_vars PROVE [A]_vars
  <2>. SUFFICES ASSUME current_thread' # current_thread PROVE A
    BY DEF vars
  <2>1. current_thread' \in Tid /\ current_thread' \notin Listed(ready')
    BY <1>1 DEF IInv, TypeOK, OnePlace
  <2>2. \/ \E want \in WantTids : thread_yield(want)
        \/ interrupt_handler
        \/ ~Empty(ready) /\ ExitTo(ready.head)
    BY <1>1 DEF Next, thread_create, thread_exit, thread_stub_return, thread_kill, KillReady,
                Resume, Halted, vars
  <2>3. current_thread' \in Listed(ready)
    <3>1. ~Empty(ready) => ready.head \in Listed(ready)
      BY <1>1, ListedEmpty DEF IInv, TypeOK, ReadyListIntact
    <3>2. CASE \E want \in WantTids : thread_yield(want)
      BY <3>1, <3>2 DEF thread_yield, CanRun, SwitchTo
    <3>3. CASE interrupt_handler
      BY <3>1, <3>3 DEF interrupt_handler, SwitchTo
    <3>4. CASE ~Empty(ready) /\ ExitTo(ready.head)
      BY <3>1, <3>4 DEF ExitTo
    <3>. QED
      BY <2>2, <3>2, <3>3, <3>4
  <2>4. pc[current_thread'] \in {"stub", "yield"}
    BY <1>1, <2>1, <2>3 DEF IInv, OnePlace
  <2>. QED
    BY <2>1, <2>3, <2>4
<1>2. Spec => [][A]_vars
  BY <1>1, Invariance, PTL DEF Spec
<1>. QED
  BY <1>2 DEF OnlySuspendedRun

(* Reaping touches exited threads only. *)
THEOREM ReapingSafe == ASSUME ExitFill = Nil PROVE Spec => ReapsOnlyExited
<1>. DEFINE A == Resume => \A t \in Tid : thread_state[t] # EXIT =>
                     /\ ready'.next[t] = ready.next[t]
                     /\ has_stack'[t] = has_stack[t]
                     /\ thread_state'[t] = thread_state[t]
<1>1. ASSUME IInv, [Next]_vars PROVE [A]_vars
  <2>. SUFFICES ASSUME Resume, NEW t \in Tid, thread_state[t] # EXIT
                PROVE  /\ ready'.next[t] = ready.next[t]
                       /\ has_stack'[t] = has_stack[t]
                       /\ thread_state'[t] = thread_state[t]
    OBVIOUS
  <2>1. ready' = ready
    BY <1>1, ResumeReady
  <2>2. t \notin Reaped
    BY <1>1, ExitArrayFacts DEF IInv, OnePlace, ExitArrayShape
  <2>. QED
    BY <1>1, <2>1, <2>2 DEF Resume, clean_exit_array, IInv, TypeOK
<1>2. Spec => [][A]_vars
  BY <1>1, Invariance, PTL DEF Spec
<1>. QED
  BY <1>2 DEF ReapsOnlyExited

-----------------------------------------------------------------------------
(***************************************************************************)
(* The package implements Scheduler: the links of thread.c carry out a     *)
(* first-in first-out queue, and every call has one of the outcomes        *)
(* thread.h gives it.                                                      *)
(***************************************************************************)

(* The invariant says which threads the ready queue has; here also their   *)
(* order matters.                                                          *)
Ordered == Chain(ready, Walk(ready))
SInv    == IInv /\ Ordered

LEMMA AbstractQueue ==
    ASSUME SInv
    PROVE  /\ ready \in List
           /\ Sched!ToSet(Walk(ready)) = Listed(ready)
           /\ Walk(ready) \in Seq(Tid)
           /\ Walk(ready) = <<>> <=> Empty(ready)
           /\ ~Empty(ready) => /\ Head(Walk(ready)) = ready.head
                               /\ ready.head \in Listed(ready)
BY ChainQueue DEF Sched!ToSet, SInv, IInv, TypeOK, Ordered

LEMMA UnlinkOrder ==
    ASSUME SInv, NEW w \in Listed(ready)
    PROVE  LET r == Unlink(ready, w)
           IN  /\ r \in List /\ Chain(r, Sched!Remove1(w))
               /\ Listed(r) = Listed(ready) \ {w}
               /\ w = ready.head => Chain(r, Tail(Walk(ready)))
<1>1. ready \in List /\ WellFormed(ready) /\ Chain(ready, Walk(ready))
  BY DEF SInv, IInv, TypeOK, Ordered, ReadyListIntact
<1>2. Sched!Remove1(w) =
          Without(Walk(ready), CHOOSE i \in DOMAIN Walk(ready) : Walk(ready)[i] = w)
  BY Zenon DEF Sched!Remove1, Sched!RemoveAt, Without
<1>. QED
  BY <1>1, <1>2, ChainRemove

-----------------------------------------------------------------------------
(* The order is kept, and each step of the package is one of Scheduler. *)

LEMMA SwitchSimulated ==
    ASSUME SInv, NEW w \in Listed(ready), SwitchTo(w), Zombies' = Zombies,
           pc[current_thread] = "user"
    PROVE  Ordered' /\ Sched!Switch(w)
<1>. DEFINE u == Unlink(ready, w)
            z == Append(Sched!Remove1(w), current_thread)
<1>1. u \in List /\ Chain(u, Sched!Remove1(w)) /\ Listed(u) = Listed(ready) \ {w}
  BY UnlinkOrder
<1>2. current_thread \in Tid /\ current_thread \notin Listed(u)
  BY <1>1 DEF SInv, IInv, TypeOK, OnePlace
<1>3. ready' \in List
  BY SwitchQueue DEF SwitchTo, SInv
<1>4. Chain(ready', z)
  BY <1>1, <1>2, ChainEnqueue DEF SwitchTo
<1>5. Walk(ready') = z /\ Chain(ready', Walk(ready'))
  BY <1>3, <1>4, OrderedBy
<1>6. pc'[w] # "halt" /\ pc[current_thread] # "halt" /\ current_thread' = w
  <2>1. w \in Tid /\ w # current_thread
    BY ListedClosed DEF SInv, IInv, TypeOK, OnePlace
  <2>. QED
    BY <2>1 DEF SInv, IInv, TypeOK, OnePlace, SwitchTo
<1>. QED
  BY <1>5, <1>6 DEF Ordered, Sched!Switch

LEMMA CreateSimulated ==
    ASSUME SInv, thread_create
    PROVE  Ordered' /\ Sched!Create
<1>1. Sched!InUse = {t \in Tid : pc[t] # "free"}
  <2>1. Sched!InUse = {current_thread} \cup Listed(ready) \cup Zombies
    BY AbstractQueue DEF Sched!InUse
  <2>2. ASSUME NEW t \in Tid
        PROVE  pc[t] # "free" <=> t \in {current_thread} \cup Listed(ready) \cup Zombies
    BY <2>2 DEF SInv, IInv, OnePlace
  <2>3. {current_thread} \cup Listed(ready) \cup Zombies \subseteq Tid
    BY ListedClosed DEF SInv, IInv, TypeOK, Zombies
  <2>. QED
    BY <2>1, <2>2, <2>3
<1>2. \A t \in Tid : Available(t) <=> t # 0 /\ pc[t] = "free"
  BY DEF SInv, IInv, StacksOwned, Available, READY, EXIT, NONE_STATE
<1>3. Zombies' = Zombies /\ Sched!Tid = Tid
  BY DEF thread_create, Zombies, Sched!Tid, Tid
<1>4. CASE UNCHANGED <<ready, pc>> /\ ret' \in {"nomore", "nomemory"}
  <2>1. Ordered'
    BY <1>4 DEF SInv, Ordered
  <2>2. CASE (\A t \in Tid : ~Available(t)) /\ ret' = "nomore"
    <3>1. Tid \ {0} \subseteq Sched!InUse
      BY <1>1, <1>2, <2>2
    <3>. QED
      BY <1>3, <1>4, <2>1, <2>2, <3>1 DEF thread_create, Sched!Create
  <2>3. CASE (\E t \in Tid : Available(t)) /\ ret' = "nomemory"
    <3>1. ~(Tid \ {0} \subseteq Sched!InUse)
      BY <1>1, <1>2, <2>3
    <3>. QED
      BY <1>3, <1>4, <2>1, <2>3, <3>1 DEF thread_create, Sched!Create
  <2>. QED
    BY <1>4, <2>2, <2>3 DEF thread_create
<1>5. ASSUME NEW t \in Tid, Available(t), ready' = LinkAtTail(ready, t),
             pc' = [pc EXCEPT ![t] = "stub"], ret' = "ok"
      PROVE  Ordered' /\ Sched!Create
  <2>1. t \notin Listed(ready) /\ t # current_thread /\ ready.next[t] = Nil /\ t # 0 /\ pc[t] = "free"
    BY <1>2, <1>5 DEF SInv, IInv, OnePlace, ReadyListIntact, WellFormed
  <2>2. ready \in List /\ Chain(ready, Walk(ready)) /\ WellFormed(ready)
    BY DEF SInv, IInv, TypeOK, Ordered, ReadyListIntact
  <2>3. Chain(ready', Append(Walk(ready), t)) /\ ready' \in List
    BY <1>5, <2>1, <2>2, ChainEnqueue, LinkAtTailFacts
  <2>4. Walk(ready') = Append(Walk(ready), t) /\ Ordered'
    BY <2>3, OrderedBy DEF Ordered
  <2>5. t \in Sched!Tid \ ({0} \cup Sched!InUse)
    BY <1>1, <1>3, <2>1
  <2>6. current_thread' = current_thread /\ pc'[current_thread] = pc[current_thread]
    BY <1>5, <2>1 DEF thread_create, SInv, IInv, TypeOK
  <2>. QED
    BY <1>3, <1>5, <2>4, <2>5, <2>6 DEF Sched!Create
<1>6. \/ UNCHANGED <<ready, pc>> /\ ret' \in {"nomore", "nomemory"}
      \/ \E t \in Tid : /\ Available(t) /\ ready' = LinkAtTail(ready, t)
                        /\ pc' = [pc EXCEPT ![t] = "stub"] /\ ret' = "ok"
  BY DEF thread_create
<1>. QED
  BY <1>4, <1>5, <1>6

(* Nothing waits to be reaped while client code runs. *)
LEMMA RunningFacts ==
    ASSUME SInv, Running
    PROVE  /\ Zombies = {} /\ exit_array[0] = Nil
           /\ pc[current_thread] = "user" /\ current_thread \in Tid
           /\ \A t \in Tid \ {0} : thread_state[t] # EXIT
<1>1. exit_array[0] = Nil /\ pc[current_thread] = "user" /\ current_thread \in Tid
  BY DEF SInv, IInv, TypeOK, ExitArrayShape, Running
<1>2. Zombies = {}
  BY <1>1, ExitArrayFacts, TidFacts DEF SInv
<1>3. \A t \in Tid \ {0} : thread_state[t] # EXIT
  BY <1>2 DEF SInv, IInv, StacksOwned, OnePlace, EXIT, READY, NONE_STATE
<1>. QED
  BY <1>1, <1>2, <1>3

LEMMA YieldSimulated ==
    ASSUME SInv, NEW want \in WantTids, thread_yield(want)
    PROVE  Ordered' /\ Sched!Yield(want) /\ Zombies' = Zombies
<1>1. pc[current_thread] = "user" /\ current_thread \in Tid
  BY RunningFacts DEF thread_yield
<1>2. Zombies' = Zombies
  BY DEF Zombies, thread_yield, SwitchTo
<1>. DEFINE codes == want \in {THREAD_SELF, current_thread}
            who   == IF want = THREAD_ANY THEN ready.head ELSE want
<1>3. CASE UNCHANGED <<ready, current_thread, pc>> /\ codes /\ ret' = "ok"
  BY <1>2, <1>3 DEF Sched!Yield, SInv, Ordered, THREAD_SELF, Sched!THREAD_SELF
<1>4. CASE /\ UNCHANGED <<ready, current_thread, pc>> /\ ~codes /\ ~CanRun(want)
           /\ ret' = IF want = THREAD_ANY THEN "none" ELSE "invalid"
  <2>1. Ordered'
    BY <1>4 DEF SInv, Ordered
  <2>2. CASE want = THREAD_ANY
    <3>1. Walk(ready) = <<>>
      BY <1>4, <2>2, AbstractQueue DEF CanRun
    <3>. QED
      BY <1>2, <1>4, <2>1, <2>2, <3>1 DEF Sched!Yield, THREAD_ANY, Sched!THREAD_ANY
  <2>3. CASE want # THREAD_ANY
    <3>1. want \notin Sched!ToSet(Walk(ready))
      BY <1>4, <2>3, AbstractQueue DEF CanRun
    <3>. QED
      BY <1>2, <1>4, <2>1, <2>3, <3>1
         DEF Sched!Yield, THREAD_ANY, THREAD_SELF, Sched!THREAD_ANY, Sched!THREAD_SELF
  <2>. QED
    BY <2>2, <2>3
<1>5. CASE ~codes /\ CanRun(want) /\ ret' = "ok" /\ SwitchTo(who)
  <2>1. who \in Listed(ready)
    BY <1>5, AbstractQueue DEF CanRun
  <2>2. Ordered' /\ Sched!Switch(who)
    BY <1>1, <1>2, <1>5, <2>1, SwitchSimulated
  <2>3. CASE want = THREAD_ANY
    <3>1. Walk(ready) # <<>> /\ who = Head(Walk(ready))
      BY <1>5, <2>3, AbstractQueue DEF CanRun
    <3>. QED
      BY <1>2, <1>5, <2>2, <2>3, <3>1 DEF Sched!Yield, THREAD_ANY, Sched!THREAD_ANY
  <2>4. CASE want # THREAD_ANY
    <3>1. want \in Sched!ToSet(Walk(ready)) /\ who = want
      BY <2>1, <2>4, AbstractQueue
    <3>. QED
      BY <1>2, <1>5, <2>2, <3>1 DEF Sched!Yield
  <2>. QED
    BY <2>3, <2>4
<1>. QED
  BY <1>3, <1>4, <1>5 DEF thread_yield

LEMMA PreemptSimulated ==
    ASSUME SInv, interrupt_handler
    PROVE  Ordered' /\ Sched!Preempt /\ Zombies' = Zombies
<1>1. pc[current_thread] = "user" /\ ready.head \in Listed(ready)
  BY RunningFacts, AbstractQueue DEF interrupt_handler
<1>2. Zombies' = Zombies
  BY DEF Zombies, interrupt_handler, SwitchTo
<1>3. Ordered' /\ Sched!Switch(ready.head)
  BY <1>1, <1>2, SwitchSimulated DEF interrupt_handler
<1>4. Walk(ready) # <<>> /\ ready.head = Head(Walk(ready))
  BY AbstractQueue DEF interrupt_handler
<1>. QED
  BY <1>2, <1>3, <1>4 DEF interrupt_handler, Sched!Preempt

LEMMA ExitSimulated ==
    ASSUME SInv, thread_exit \/ thread_stub_return
    PROVE  Ordered' /\ Sched!Exit
<1>0. Zombies = {} /\ exit_array[0] = Nil /\ pc[current_thread] = "user" /\ current_thread \in Tid
  BY RunningFacts DEF thread_exit, thread_stub_return
<1>1. CASE ~Empty(ready) /\ ExitTo(ready.head)
  <2>. DEFINE w == ready.head
  <2>1. /\ ready \in List /\ w \in Listed(ready)
        /\ Walk(ready) # <<>> /\ w = Head(Walk(ready))
    BY <1>1, AbstractQueue
  <2>2. ready' \in List /\ Chain(ready', Tail(Walk(ready)))
    BY <1>1, <2>1, UnlinkOrder DEF ExitTo
  <2>3. Walk(ready') = Tail(Walk(ready)) /\ Ordered'
    BY <2>2, OrderedBy DEF Ordered
  <2>4. Zombies' = {current_thread}
    <3>1. exit_array' = [i \in Tid |-> IF i = 0 THEN current_thread ELSE exit_array[i]]
      BY <1>0, <1>1, ExitArrayFacts DEF SInv, ExitTo, PutInExitArray
    <3>2. \A i \in Tid \ {0} : exit_array[i] = Nil
      BY DEF SInv, IInv, ExitArrayShape
    <3>. QED
      BY <1>0, <3>1, <3>2, TidFacts DEF Zombies
  <2>5. pc'[w] # "halt" /\ current_thread' = w
    BY <1>1, <2>1, ListedClosed DEF ExitTo, SInv, IInv, TypeOK, OnePlace
  <2>. QED
    BY <1>0, <1>1, <2>1, <2>3, <2>4, <2>5 DEF Sched!Exit, ExitTo
<1>2. CASE Empty(ready) /\ ret' = "none" /\ UNCHANGED <<ready, exit_array, current_thread>>
  <2>1. Walk(ready) = <<>> /\ Ordered' /\ Zombies' = Zombies
    BY <1>2, AbstractQueue DEF SInv, Ordered, Zombies
  <2>. QED
    BY <1>2, <2>1 DEF Sched!Exit
<1>. QED
  BY <1>1, <1>2 DEF thread_exit, thread_stub_return

LEMMA KillSimulated ==
    ASSUME SInv, NEW tid \in KillTids, thread_kill(tid)
    PROVE  Ordered' /\ Sched!Kill(tid) /\ Zombies' = Zombies
<1>0. /\ pc[current_thread] = "user" /\ current_thread \in Tid
      /\ \A t \in Tid \ {0} : thread_state[t] # EXIT
  BY RunningFacts DEF thread_kill
<1>1. Zombies' = Zombies
  BY DEF Zombies, thread_kill, KillReady
<1>2. CASE Killable(tid) /\ KillReady(tid)
  <2>1. tid \in Listed(ready) /\ tid # current_thread /\ tid \in Tid
    BY <1>2 DEF Killable
  <2>2. ready' \in List /\ Chain(ready', Sched!Remove1(tid))
    BY <1>2, <2>1, UnlinkOrder DEF KillReady
  <2>3. Walk(ready') = Sched!Remove1(tid) /\ Ordered'
    BY <2>2, OrderedBy DEF Ordered
  <2>4. tid \in Sched!ToSet(Walk(ready))
    BY <2>1, AbstractQueue
  <2>5. current_thread' = current_thread /\ pc'[current_thread] = pc[current_thread]
    BY <1>0, <1>2, <2>1 DEF KillReady, SInv, IInv, TypeOK
  <2>. QED
    BY <1>1, <1>2, <2>3, <2>4, <2>5 DEF Sched!Kill, KillReady
<1>3. CASE /\ ~Killable(tid) /\ ret' \in KillRefused(tid)
           /\ UNCHANGED <<ready, current_thread, pc>>
  <2>1. Ordered'
    BY <1>3 DEF SInv, Ordered
  <2>2. CASE OutsideArray(tid) \/ tid = 0
    <3>1. tid \in KillsOtherwise
      BY <2>2 DEF KillsOtherwise
    <3>2. ret' \in {"ok", "invalid"}
      BY <1>3 DEF KillRefused
    <3>. QED
      BY <1>1, <1>3, <2>1, <3>1, <3>2 DEF Sched!Kill
  <2>3. CASE ~OutsideArray(tid) /\ tid # 0
    <3>1. ret' = "invalid"
      BY <1>0, <1>3, <2>3 DEF KillRefused
    <3>2. tid \notin Listed(ready)
      BY <1>3, <2>3, ListedClosed
         DEF Killable, SInv, IInv, TypeOK, OnePlace, StacksOwned, READY, EXIT, NONE_STATE
    <3>3. tid \notin Sched!ToSet(Walk(ready))
      BY <3>2, AbstractQueue
    <3>. QED
      BY <1>1, <1>3, <2>1, <3>1, <3>3 DEF Sched!Kill
  <2>. QED
    BY <2>2, <2>3
<1>. QED
  BY <1>2, <1>3 DEF thread_kill

LEMMA ReapSimulated ==
    ASSUME SInv, Resume
    PROVE  Ordered' /\ (Sched!Reap \/ UNCHANGED Sched!vars)
<1>1. ready' = ready /\ current_thread' = current_thread /\ ret' = ret
  BY ResumeReady DEF Resume, SInv
<1>2. Zombies' = {}
  <2>1. \A i \in Tid : exit_array'[i] = Nil
    BY ExitArrayFacts DEF SInv, Resume, clean_exit_array
  <2>. QED
    BY <2>1, TidFacts DEF Zombies
<1>3. pc[current_thread] # "halt" /\ pc'[current_thread] # "halt"
  BY DEF Resume, SInv, IInv, TypeOK
<1>4. Ordered'
  BY <1>1 DEF SInv, Ordered
<1>. QED
  BY <1>1, <1>2, <1>3, <1>4 DEF Sched!Reap, Sched!vars

LEMMA InitSimulated ==
    ASSUME ExitFill = Nil, Init
    PROVE  Ordered /\ Sched!Init
<1>1. Chain(ready, <<>>)
  BY EmptyListFacts, ChainEmpty DEF Init, Empty, EmptyList
<1>2. Walk(ready) = <<>> /\ Ordered
  BY <1>1, EmptyListFacts, OrderedBy DEF Init, Ordered
<1>3. Zombies = {}
  BY TidFacts DEF Init, Zombies
<1>. QED
  BY <1>2, <1>3, TidFacts DEF Init, Sched!Init

LEMMA StepSimulated ==
    ASSUME SInv, Next
    PROVE  Ordered' /\ (Sched!Next \/ UNCHANGED Sched!vars)
<1>1. ASSUME thread_create
      PROVE  Ordered' /\ Sched!Next
  <2>1. Ordered' /\ Sched!Create /\ Zombies = {} /\ pc[current_thread] = "user"
    BY <1>1, CreateSimulated, RunningFacts DEF thread_create
  <2>. QED
    BY <2>1 DEF Sched!Next, Sched!Call
<1>2. ASSUME NEW want \in WantTids, thread_yield(want)
      PROVE  Ordered' /\ Sched!Next
  <2>1. Ordered' /\ Sched!Yield(want) /\ Zombies = {} /\ pc[current_thread] = "user"
    BY <1>2, YieldSimulated, RunningFacts DEF thread_yield
  <2>. QED
    BY <2>1 DEF Sched!Next, Sched!Call
<1>3. ASSUME thread_exit \/ thread_stub_return
      PROVE  Ordered' /\ Sched!Next
  <2>1. Ordered' /\ Sched!Exit /\ Zombies = {} /\ pc[current_thread] = "user"
    BY <1>3, ExitSimulated, RunningFacts DEF thread_exit, thread_stub_return
  <2>. QED
    BY <2>1 DEF Sched!Next, Sched!Call
<1>4. ASSUME NEW tid \in KillTids, thread_kill(tid)
      PROVE  Ordered' /\ Sched!Next
  <2>1. Ordered' /\ Sched!Kill(tid) /\ Zombies = {} /\ pc[current_thread] = "user"
    BY <1>4, KillSimulated, RunningFacts DEF thread_kill
  <2>. QED
    BY <2>1 DEF Sched!Next, Sched!Call
<1>5. ASSUME interrupt_handler
      PROVE  Ordered' /\ Sched!Next
  <2>1. Ordered' /\ Sched!Preempt /\ Zombies = {} /\ pc[current_thread] = "user"
    BY <1>5, PreemptSimulated, RunningFacts DEF interrupt_handler
  <2>. QED
    BY <2>1 DEF Sched!Next, Sched!Call
<1>6. ASSUME Resume
      PROVE  Ordered' /\ (Sched!Next \/ UNCHANGED Sched!vars)
  <2>1. pc[current_thread] # "halt"
    BY <1>6 DEF Resume
  <2>. QED
    BY <1>6, <2>1, ReapSimulated DEF Sched!Next
<1>7. ASSUME Halted
      PROVE  Ordered' /\ UNCHANGED Sched!vars
  BY <1>7 DEF Halted, vars, SInv, Ordered, Sched!vars, Zombies
<1>. QED
  BY <1>1, <1>2, <1>3, <1>4, <1>5, <1>6, <1>7 DEF Next

(* The threads package of threads/thread.c, with the timer, does what      *)
(* thread.h says: seen through the sequence of threads the ready queue     *)
(* stands for, every step is a call of Scheduler with one of its promised  *)
(* outcomes, a reaping, or nothing.  Directed yields and kills take their  *)
(* thread out of the middle of the links and leave the others in order.    *)
THEOREM ThreadsImplementScheduler ==
    ASSUME ExitFill = Nil PROVE Spec => ImplementsScheduler
<1>1. Init => SInv /\ Sched!Init
  BY InitInv, InitSimulated DEF SInv
<1>2. SInv /\ [Next]_vars => SInv' /\ [Sched!Next]_(Sched!vars)
  <2>. SUFFICES ASSUME SInv, [Next]_vars PROVE SInv' /\ [Sched!Next]_(Sched!vars)
    OBVIOUS
  <2>1. IInv'
    BY NextInv DEF SInv
  <2>2. CASE Next
    BY <2>1, <2>2, StepSimulated DEF SInv
  <2>3. CASE UNCHANGED vars
    <3>1. Ordered' /\ UNCHANGED Sched!vars
      BY <2>3 DEF vars, SInv, Ordered, Sched!vars, Zombies
    <3>. QED
      BY <2>1, <3>1 DEF SInv
  <2>. QED
    BY <2>2, <2>3
<1>. QED
  BY <1>1, <1>2, PTL DEF Spec, Sched!Spec, ImplementsScheduler
=============================================================================

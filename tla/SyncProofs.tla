----------------------------- MODULE SyncProofs -----------------------------
(***************************************************************************)
(* Safety of the wait queues, the lock and the condition variable for      *)
(* every number of threads, whatever identifiers clients pass and whatever *)
(* is in the memory of a new lock or condition variable.  What is said of  *)
(* the queues needs only that clients destroy nothing that is in use; what *)
(* is said of the lock needs the other rules of Sync, too.                 *)
(***************************************************************************)
EXTENDS MCMonitor, ThreadsProofs

-----------------------------------------------------------------------------
(* Waking everybody links one queue behind another.                        *)

LEMMA SpliceFacts ==
    ASSUME NEW r \in List, WellFormed(r),
           NEW q \in List, WellFormed(q),
           Listed(r) \cap Listed(q) = {}
    PROVE  /\ Splice(r, q) \in List
           /\ WellFormed(Splice(r, q))
           /\ Listed(Splice(r, q)) = Listed(r) \cup Listed(q)
<1>. DEFINE s == Splice(r, q)
<1>0. \A t \in Tid : t # Nil
  BY DEF Tid, Nil
<1>1. CASE Empty(q)
  BY <1>1, ListedEmpty DEF Splice
<1>2. CASE ~Empty(q) /\ Empty(r)
  <2>1. /\ s.head = q.head /\ s.tail = q.tail
        /\ s = [head |-> q.head, tail |-> q.tail,
                next |-> [t \in Tid |-> IF t \in Listed(q) THEN q.next[t]
                                        ELSE IF t = r.tail THEN q.head
                                        ELSE r.next[t]]]
    BY <1>2 DEF Splice, Waiting
  <2>2. r.tail = Nil /\ \A t \in Tid : r.next[t] = Nil
    BY <1>2, ListedEmpty DEF Empty, WellFormed
  <2>3. \A t \in Tid \ Listed(q) : q.next[t] = Nil
    BY DEF WellFormed
  <2>4. [t \in Tid |-> IF t \in Listed(q) THEN q.next[t]
                       ELSE IF t = r.tail THEN q.head
                       ELSE r.next[t]] = q.next
    BY <2>2, <2>3, <1>0 DEF List
  <2>5. s = q
    BY <2>1, <2>4 DEF List
  <2>. QED
    BY <1>2, <2>5, ListedEmpty
<1>3. CASE ~Empty(q) /\ ~Empty(r)
  <2>1. s = [head |-> r.head, tail |-> q.tail,
             next |-> [t \in Tid |-> IF t \in Listed(q) THEN q.next[t]
                                     ELSE IF t = r.tail THEN q.head
                                     ELSE r.next[t]]]
    BY <1>3 DEF Splice, Waiting
  <2>2. /\ r.head # Nil /\ r.head \in Listed(r) /\ r.tail \in Listed(r)
        /\ q.head # Nil /\ q.head \in Listed(q) /\ q.tail \in Listed(q)
        /\ Listed(r) \subseteq Tid /\ Listed(q) \subseteq Tid
        /\ Closed(r, Listed(r)) /\ Closed(q, Listed(q))
    BY <1>3, ListedEmpty, ListedClosed
  <2>3. s \in List
    BY <2>1, <2>2 DEF List, Link
  <2>4. /\ s.head = r.head /\ s.tail = q.tail
        /\ \A t \in Listed(q) : s.next[t] = q.next[t]
        /\ s.next[r.tail] = q.head
        /\ \A t \in Tid \ Listed(q) : t # r.tail => s.next[t] = r.next[t]
    BY <2>1, <2>2
  <2>5. /\ r.next[r.tail] = Nil
        /\ \A t \in Tid \ Listed(r) : r.next[t] = Nil
        /\ \A t \in Tid \ Listed(q) : q.next[t] = Nil
    BY <2>2 DEF WellFormed
  <2>6. Listed(s) \subseteq Listed(r) \cup Listed(q)
    <3>1. Closed(s, Listed(r) \cup Listed(q))
      BY <2>2, <2>4 DEF Closed
    <3>. QED
      BY <3>1, <2>2, <2>3, ListedLeast
  <2>7. Listed(s) \subseteq Tid /\ Closed(s, Listed(s))
    BY <2>3, ListedClosed
  <2>8. Listed(r) \subseteq Listed(s)
    <3>1. Closed(r, Listed(s))
      BY <2>2, <2>4, <2>5, <2>7 DEF Closed
    <3>. QED
      BY <3>1, <2>7, ListedLeast
  <2>9. Listed(q) \subseteq Listed(s)
    <3>1. q.head \in Listed(s)
      BY <2>2, <2>4, <2>7, <2>8 DEF Closed
    <3>2. Closed(q, Listed(s))
      BY <3>1, <2>4, <2>5, <2>7 DEF Closed
    <3>. QED
      BY <3>2, <2>7, ListedLeast
  <2>10. Listed(s) = Listed(r) \cup Listed(q)
    BY <2>6, <2>8, <2>9
  <2>11. WellFormed(s)
    <3>1. \A t \in Listed(s) : s.next[t] = Nil <=> t = s.tail
      BY <2>2, <2>4, <2>10 DEF WellFormed
    <3>2. \A t \in Listed(s) : s.next[t] # s.head
      BY <2>2, <2>4, <2>10 DEF WellFormed, Closed
    <3>3. ASSUME NEW t \in Listed(s), NEW u \in Listed(s), s.next[t] = s.next[u]
          PROVE  t = u
      <4>1. \A v \in Listed(q) : q.next[v] # q.head
        BY <2>2 DEF WellFormed
      <4>2. \A v \in Listed(r) : r.next[v] # q.head
        BY <2>2 DEF Closed
      <4>3. \A v \in Listed(r), w \in Listed(q) : r.next[v] = q.next[w] => r.next[v] = Nil
        BY <2>2 DEF Closed
      <4>4. \A v \in Listed(r) : v # r.tail => r.next[v] # Nil
        BY DEF WellFormed
      <4>5. CASE t \in Listed(q) /\ u \in Listed(q)
        BY <4>5, <3>3, <2>4 DEF WellFormed
      <4>6. CASE t \in Listed(r) /\ u \in Listed(r)
        BY <4>2, <4>6, <3>3, <2>2, <2>4 DEF WellFormed
      <4>7. CASE t \in Listed(r) /\ u \in Listed(q)
        BY <4>1, <4>3, <4>4, <4>7, <3>3, <2>2, <2>4
      <4>8. CASE t \in Listed(q) /\ u \in Listed(r)
        BY <4>1, <4>3, <4>4, <4>8, <3>3, <2>2, <2>4
      <4>. QED
        BY <4>5, <4>6, <4>7, <4>8, <2>10
    <3>4. \A t \in Tid \ Listed(s) : s.next[t] = Nil
      BY <2>2, <2>4, <2>5, <2>10
    <3>. QED
      BY <3>1, <3>2, <3>3, <3>4, <2>2, <2>4, <2>10, <1>0 DEF WellFormed
  <2>. QED
    BY <2>3, <2>10, <2>11
<1>. QED
  BY <1>1, <1>2, <1>3

(* thread_wakeup(queue, 0) takes the head out, as long as another thread   *)
(* waits behind it.                                                        *)
LEMMA AdvanceFacts ==
    ASSUME NEW q \in List, WellFormed(q), ~Empty(q), q.head # q.tail
    PROVE  /\ q.head \in Listed(q)
           /\ WaitAdvance(q) = Unlink(q, q.head)
           /\ WaitAdvance(q) \in List
           /\ WellFormed(WaitAdvance(q))
           /\ Listed(WaitAdvance(q)) = Listed(q) \ {q.head}
<1>1. q.head # Nil /\ q.head \in Listed(q) /\ q.head \in Tid
  BY ListedEmpty, ListedClosed
<1>2. Pred(q, q.head) = q.head
  BY DEF Pred
<1>3. WaitAdvance(q) = Unlink(q, q.head)
  <2>1. WaitAdvance(q) = [head |-> q.next[q.head], tail |-> q.tail,
                          next |-> [q.next EXCEPT ![q.head] = Nil]]
    BY DEF WaitAdvance
  <2>2. Unlink(q, q.head) = [head |-> q.next[q.head], tail |-> q.tail,
                             next |-> [q.next EXCEPT ![q.head] = Nil]]
    BY <1>1, <1>2 DEF Unlink, List
  <2>. QED
    BY <2>1, <2>2
<1>. QED
  BY <1>1, <1>3, UnlinkFacts

LEMMA ZeroedFacts == Zeroed \in List /\ ~Empty(Zeroed)
BY TidFacts, EmptyListFacts DEF Zeroed, EmptyList, List, Link, Empty, Nil

-----------------------------------------------------------------------------
(***************************************************************************)
(* The inductive invariant.  Beside the wait queues it says where each pc  *)
(* may be found (Placed), what Threads says of stacks and of exit_array,   *)
(* where "acquire" is one more place with the signal blocked, and of the   *)
(* lock: that one which is not allocated is free and nobody is inside a    *)
(* call that uses it, and that nobody sleeps on a free one.  Who holds the *)
(* lock is another matter (HolderShape): the queues do not depend on it.   *)
(***************************************************************************)
Suspended == {"stub", "yield", "sleep", "acquire_sleep", "cv_sleep"}
Wanting   == {"acquire", "acquire_sleep", "cv_sleep"}

Placed ==
    /\ current_thread \notin Listed(ready)
    /\ pc[current_thread] \notin {"exit", "free"}
    /\ \A t \in Listed(ready) : pc[t] \in Suspended
    /\ \A t \in Tid \ {current_thread} : pc[t] \in {"stub", "yield"} => t \in Listed(ready)
    /\ \A t \in Tid \ {current_thread} : pc[t] \notin {"user", "acquire", "halt"}

SyncExitArrayShape ==
    /\ \A i \in Tid \ {0} : exit_array[i] = Nil
    /\ pc[current_thread] \in {"user", "halt", "acquire"} => exit_array[0] = Nil
    /\ \A t \in Tid : pc[t] = "exit" <=> exit_array[0] = t

LockShape ==
    /\ "lock" \notin live => l = 0 /\ \A t \in Tid : pc[t] \notin Wanting
    /\ l = 0 => Asleep("lock") = {}

SyncIInv == SyncTypeOK /\ WaitersIntact /\ Placed /\ StacksOwned /\ SyncExitArrayShape /\ LockShape

(* Clients destroy a wait queue when nobody sleeps in it and the lock when *)
(* nobody is inside a call that uses it.                                   *)
DestroyRules == {"destroy_empty", "destroy_idle"} \subseteq Rules

(* All that clients may be asked to keep to. *)
EveryRule == {"owner", "acquire_once", "holder_stays", "destroy_empty", "destroy_idle"}

LEMMA SleepNames ==
    /\ SleepPC["bare"] = "sleep" /\ SleepPC["lock"] = "acquire_sleep"
    /\ SleepPC["cv"] = "cv_sleep"
    /\ \A k \in Queues : SleepPC[k] \in {"sleep", "acquire_sleep", "cv_sleep"}
    /\ \A j, k \in Queues : SleepPC[j] = SleepPC[k] => j = k
BY DEF SleepPC, Queues

(* The queues are chains that have no thread in common. *)
LEMMA QueueFacts ==
    ASSUME SyncIInv
    PROVE  /\ ready \in List /\ WellFormed(ready) /\ Listed(ready) \subseteq Tid
           /\ current_thread \in Tid /\ current_thread \notin Listed(ready)
           /\ live \subseteq Queues /\ Sound \subseteq Queues
           /\ \A k \in Queues : wq[k] \in List
           /\ \A k \in Sound : /\ WellFormed(wq[k]) /\ Listed(wq[k]) = Asleep(k)
                               /\ Listed(ready) \cap Listed(wq[k]) = {}
                               /\ current_thread \notin Listed(wq[k])
           /\ Empty(ready) <=> Listed(ready) = {}
           /\ ~Empty(ready) => ready.head \in Listed(ready)
           /\ \A k \in Sound : Empty(wq[k]) <=> Asleep(k) = {}
<1>1. /\ ready \in List /\ WellFormed(ready) /\ current_thread \in Tid
      /\ current_thread \notin Listed(ready) /\ live \subseteq Queues /\ Sound \subseteq Queues
      /\ \A k \in Queues : wq[k] \in List
  BY DEF SyncIInv, SyncTypeOK, WaitersIntact, ReadyListIntact, Placed, Sound
<1>2. \A k \in Sound : WellFormed(wq[k]) /\ Listed(wq[k]) = Asleep(k)
  BY <1>1 DEF SyncIInv, WaitersIntact, Waiting
<1>3. \A k \in Sound : /\ Listed(ready) \cap Asleep(k) = {}
                       /\ current_thread \notin Asleep(k)
  BY DEF Asleep
<1>. QED
  BY <1>1, <1>2, <1>3, ListedClosed, ListedEmpty

(* With that shape, the zombies and the threads clean_exit_array reaps are *)
(* the thread in entry 0.                                                  *)
LEMMA SyncExitArrayFacts ==
    ASSUME SyncIInv
    PROVE  /\ Zombies = {t \in Tid : pc[t] = "exit"}
           /\ Reaped = Zombies
           /\ \A i \in Tid : InUse(i) \/ exit_array[i] = Nil
           /\ \A i \in Tid : exit_array[0] = Nil => (FirstFree(i) <=> i = 0)
<1>1. Zombies = {t \in Tid : exit_array[0] = t}
  BY TidFacts DEF Zombies, SyncIInv, SyncExitArrayShape
<1>2. \A i \in Tid : InUse(i) => exit_array[i] # Nil /\ exit_array[0] # Nil
  BY TidFacts DEF InUse, Tid
<1>3. InUse(0) <=> exit_array[0] # Nil
  BY DEF InUse
<1>4. \A i \in Tid : InUse(i) => i = 0
  BY <1>2 DEF SyncIInv, SyncExitArrayShape
<1>5. Reaped = Zombies
  BY <1>1, <1>3, <1>4, TidFacts DEF Reaped, SyncIInv, SyncTypeOK, Link
<1>6. \A i \in Tid : InUse(i) \/ exit_array[i] = Nil
  BY <1>3, TidFacts DEF SyncIInv, SyncExitArrayShape
<1>7. ASSUME NEW i \in Tid, exit_array[0] = Nil
      PROVE  FirstFree(i) <=> i = 0
  <2>1. CASE i = 0
    BY <1>7, <2>1 DEF FirstFree
  <2>2. CASE i # 0
    <3>1. 0 \in 0 .. (i - 1)
      BY <2>2, TidFacts
    <3>. QED
      BY <1>7, <2>2, <3>1 DEF FirstFree
  <2>. QED
    BY <2>1, <2>2
<1>8. Zombies = {t \in Tid : pc[t] = "exit"}
  BY <1>1 DEF SyncIInv, SyncExitArrayShape
<1>. QED
  BY <1>5, <1>6, <1>7, <1>8

LEMMA SyncInitInv == ASSUME ExitFill = Nil, SyncInit PROVE SyncIInv
<1>. USE DEF SyncInit, Init
<1>1. SyncTypeOK
  BY TidFacts, EmptyListFacts DEF SyncTypeOK, Link, SyncPCs, PCs, Results, Queues
<1>2. Listed(ready) = {} /\ WellFormed(ready)
  BY EmptyListFacts
<1>3. \A k \in Queues : Asleep(k) = {}
  <2>1. \A t \in Tid : pc[t] \in {"user", "free"}
    OBVIOUS
  <2>. QED
    BY <2>1, SleepNames DEF Asleep
<1>4. WaitersIntact
  BY <1>2, <1>3 DEF WaitersIntact, ReadyListIntact, Sound
<1>5. Placed
  BY <1>2, TidFacts DEF Placed
<1>6. StacksOwned
  BY TidFacts DEF StacksOwned
<1>7. SyncExitArrayShape
  BY TidFacts DEF SyncExitArrayShape
<1>8. LockShape
  BY <1>3, TidFacts DEF LockShape, Queues, Wanting
<1>. QED
  BY <1>1, <1>4, <1>5, <1>6, <1>7, <1>8 DEF SyncIInv

-----------------------------------------------------------------------------
(* The calls of Threads.                                                   *)

(* What is left of the wait queues and the lock when a step touches none   *)
(* of them and moves no sleeper.                                           *)
LEMMA Untouched ==
    ASSUME SyncIInv, UNCHANGED syncVars,
           WellFormed(ready'),
           \A k \in Queues : Asleep(k)' = Asleep(k),
           \A t \in Tid : pc'[t] \in Wanting => pc[t] \in Wanting
    PROVE  WaitersIntact' /\ LockShape'
<1>1. wq' = wq /\ live' = live /\ spoiled' = spoiled /\ l' = l /\ Sound' = Sound
  BY DEF syncVars, Sound
<1>2. WaitersIntact'
  BY <1>1 DEF SyncIInv, WaitersIntact, ReadyListIntact
<1>3. LockShape'
  BY <1>1 DEF SyncIInv, LockShape, Queues
<1>. QED
  BY <1>2, <1>3

(* A step that leaves all alone but wild. *)
LEMMA NothingMoves ==
    ASSUME SyncIInv, UNCHANGED <<vars, wq, l, live, spoiled>>,
           acquired_thread_id' \in Link, holding' \subseteq Tid, wild' \in BOOLEAN
    PROVE  SyncIInv'
<1>1. Sound' = Sound /\ \A k \in Queues : Asleep(k)' = Asleep(k)
  BY DEF Sound, Asleep, vars
<1>2. WaitersIntact'
  BY <1>1 DEF SyncIInv, WaitersIntact, ReadyListIntact, vars
<1>3. LockShape'
  BY <1>1 DEF SyncIInv, LockShape, Queues, vars
<1>4. SyncTypeOK' /\ Placed' /\ StacksOwned' /\ SyncExitArrayShape'
  BY DEF SyncIInv, SyncTypeOK, Placed, StacksOwned, SyncExitArrayShape, vars
<1>. QED
  BY <1>2, <1>3, <1>4 DEF SyncIInv

LEMMA GoesWildInv ==
    ASSUME SyncIInv, GoesWild
    PROVE  SyncIInv'
BY NothingMoves DEF GoesWild, SyncIInv, SyncTypeOK

LEMMA SyncSwitchInv ==
    ASSUME SyncIInv, Running, NEW w \in Listed(ready), SwitchTo(w), ret' \in Results,
           UNCHANGED syncVars
    PROVE  SyncIInv'
<1>. DEFINE u == Unlink(ready, w)
            c == current_thread
<1>1. /\ ready \in List /\ WellFormed(ready) /\ c \in Tid /\ w \in Tid /\ w # c
      /\ c \notin Listed(ready)
  BY QueueFacts
<1>2. u \in List /\ WellFormed(u) /\ Listed(u) = Listed(ready) \ {w}
  BY <1>1, UnlinkFacts
<1>3. /\ ready' \in List /\ WellFormed(ready')
      /\ Listed(ready') = (Listed(ready) \ {w}) \cup {c}
  BY <1>1, <1>2, EnqueueFacts DEF SwitchTo
<1>4. /\ pc' = [pc EXCEPT ![c] = "yield"] /\ pc[c] = "user"
      /\ current_thread' = w
      /\ thread_state' = thread_state /\ has_stack' = has_stack /\ exit_array' = exit_array
      /\ pc \in [Tid -> SyncPCs]
  BY DEF SwitchTo, Running, SyncIInv, SyncTypeOK
<1>5. SyncTypeOK'
  BY <1>1, <1>3, <1>4 DEF SyncIInv, SyncTypeOK, SyncPCs, PCs, syncVars
<1>6. Placed'
  BY <1>1, <1>3, <1>4 DEF SyncIInv, Placed, Suspended
<1>7. StacksOwned'
  BY <1>4 DEF SyncIInv, StacksOwned
<1>8. SyncExitArrayShape'
  BY <1>1, <1>4 DEF SyncIInv, SyncExitArrayShape, Placed, Suspended
<1>9. \A k \in Queues : Asleep(k)' = Asleep(k)
  BY <1>1, <1>3, <1>4, SleepNames DEF Asleep
<1>10. \A t \in Tid : pc'[t] \in Wanting => pc[t] \in Wanting
  BY <1>4 DEF Wanting
<1>. QED
  BY <1>3, <1>5, <1>6, <1>7, <1>8, <1>9, <1>10, Untouched DEF SyncIInv

LEMMA SyncCreateInv ==
    ASSUME SyncIInv, thread_create, UNCHANGED syncVars
    PROVE  SyncIInv'
<1>1. CASE UNCHANGED <<thread_state, has_stack, ready, pc>> /\ ret' \in Results
  BY <1>1 DEF SyncIInv, thread_create, SyncTypeOK, WaitersIntact, ReadyListIntact, Placed,
              StacksOwned, SyncExitArrayShape, LockShape, Asleep, Sound, syncVars
<1>2. ASSUME NEW t \in Tid,
             Available(t),
             thread_state' = [thread_state EXCEPT ![t] = READY],
             has_stack' = [has_stack EXCEPT ![t] = TRUE],
             ready' = LinkAtTail(ready, t),
             pc' = [pc EXCEPT ![t] = "stub"],
             ret' = "ok"
      PROVE  SyncIInv'
  <2>1. UNCHANGED <<exit_array, current_thread>> /\ Running
    BY DEF thread_create
  <2>2. t # 0 /\ pc[t] = "free"
    <3>1. t # 0 /\ (~has_stack[t] \/ thread_state[t] = NONE_STATE)
      BY <1>2 DEF Available
    <3>. QED
      BY <3>1 DEF SyncIInv, StacksOwned, READY, EXIT, NONE_STATE
  <2>3. t # current_thread /\ t \notin Listed(ready)
    BY <1>2, <2>2 DEF SyncIInv, Placed, Suspended
  <2>4. /\ ready' \in List /\ WellFormed(ready')
        /\ Listed(ready') = Listed(ready) \cup {t}
    BY <1>2, <2>3, QueueFacts, LinkAtTailFacts
  <2>5. SyncTypeOK'
    BY <1>2, <2>1, <2>4 DEF SyncIInv, SyncTypeOK, SyncPCs, PCs, Results, syncVars
  <2>6. pc \in [Tid -> SyncPCs]
    BY DEF SyncIInv, SyncTypeOK
  <2>7. Placed'
    BY <1>2, <2>1, <2>3, <2>4, <2>6, QueueFacts DEF SyncIInv, Placed, Suspended
  <2>8. StacksOwned'
    BY <1>2, <2>1, <2>2 DEF SyncIInv, SyncTypeOK, StacksOwned
  <2>9. SyncExitArrayShape'
    BY <1>2, <2>1, <2>2, <2>3, <2>6 DEF SyncIInv, SyncExitArrayShape
  <2>10. \A k \in Queues : Asleep(k)' = Asleep(k)
    BY <1>2, <2>1, <2>2, <2>4, <2>6, SleepNames DEF Asleep
  <2>11. \A u \in Tid : pc'[u] \in Wanting => pc[u] \in Wanting
    BY <1>2, <2>6 DEF Wanting
  <2>. QED
    BY <2>4, <2>5, <2>7, <2>8, <2>9, <2>10, <2>11, Untouched DEF SyncIInv
<1>. QED
  BY <1>1, <1>2 DEF thread_create, Results

LEMMA SyncYieldInv ==
    ASSUME SyncIInv, NEW want \in WantTids, thread_yield(want), UNCHANGED syncVars
    PROVE  SyncIInv'
<1>1. CASE /\ UNCHANGED <<thread_state, has_stack, ready, exit_array, current_thread, pc>>
           /\ ret' \in Results
  BY <1>1 DEF SyncIInv, SyncTypeOK, WaitersIntact, ReadyListIntact, Placed, StacksOwned,
              SyncExitArrayShape, LockShape, Asleep, Sound, syncVars
<1>2. CASE CanRun(want) /\ ret' = "ok"
           /\ SwitchTo(IF want = THREAD_ANY THEN ready.head ELSE want)
  <2>1. (IF want = THREAD_ANY THEN ready.head ELSE want) \in Listed(ready)
    BY <1>2, QueueFacts DEF CanRun
  <2>. QED
    BY <1>2, <2>1, SyncSwitchInv DEF thread_yield, Results
<1>. QED
  BY <1>1, <1>2 DEF thread_yield, Results

LEMMA SyncHandlerInv ==
    ASSUME SyncIInv, interrupt_handler, UNCHANGED syncVars
    PROVE  SyncIInv'
<1>1. ready.head \in Listed(ready)
  BY QueueFacts DEF interrupt_handler
<1>2. ret' \in Results
  BY DEF interrupt_handler, SyncIInv, SyncTypeOK
<1>. QED
  BY <1>1, <1>2, SyncSwitchInv DEF interrupt_handler

LEMMA SyncExitInv ==
    ASSUME SyncIInv, Running, ~Empty(ready), ExitTo(ready.head), UNCHANGED syncVars
    PROVE  SyncIInv'
<1>. DEFINE w == ready.head
            c == current_thread
<1>1. w \in Listed(ready) /\ w \in Tid /\ w # c /\ c \in Tid /\ c \notin Listed(ready)
  BY QueueFacts
<1>2. /\ ready' \in List /\ WellFormed(ready')
      /\ Listed(ready') = Listed(ready) \ {w}
  BY <1>1, QueueFacts, UnlinkFacts DEF ExitTo
<1>3. exit_array[0] = Nil
  BY DEF SyncIInv, SyncExitArrayShape, Running
<1>4. exit_array' = [i \in Tid |-> IF i = 0 THEN c ELSE exit_array[i]]
  BY <1>3, SyncExitArrayFacts DEF ExitTo, PutInExitArray
<1>5. /\ pc' = [pc EXCEPT ![c] = "exit"] /\ pc[c] = "user"
      /\ current_thread' = w
      /\ thread_state' = [thread_state EXCEPT ![c] = EXIT] /\ has_stack' = has_stack
      /\ pc \in [Tid -> SyncPCs]
  BY DEF ExitTo, Running, SyncIInv, SyncTypeOK
<1>6. SyncTypeOK'
  BY <1>1, <1>2, <1>4, <1>5 DEF ExitTo, SyncIInv, SyncTypeOK, SyncPCs, PCs, Link, syncVars
<1>7. Placed'
  BY <1>1, <1>2, <1>5 DEF SyncIInv, Placed, Suspended
<1>8. StacksOwned'
  BY <1>1, <1>5 DEF SyncIInv, SyncTypeOK, StacksOwned
<1>9. SyncExitArrayShape'
  <2>1. \A t \in Tid : pc[t] # "exit"
    BY <1>3, TidFacts DEF SyncIInv, SyncExitArrayShape
  <2>2. pc'[w] \notin {"user", "halt", "acquire"}
    BY <1>1, <1>5 DEF SyncIInv, Placed, Suspended
  <2>. QED
    BY <1>1, <1>4, <1>5, <2>1, <2>2, TidFacts DEF SyncIInv, SyncExitArrayShape
<1>10. \A k \in Queues : Asleep(k)' = Asleep(k)
  BY <1>1, <1>2, <1>5, SleepNames DEF Asleep
<1>11. \A t \in Tid : pc'[t] \in Wanting => pc[t] \in Wanting
  BY <1>5 DEF Wanting
<1>. QED
  BY <1>2, <1>6, <1>7, <1>8, <1>9, <1>10, <1>11, Untouched DEF SyncIInv

LEMMA SyncStubReturnInv ==
    ASSUME SyncIInv, thread_stub_return, UNCHANGED syncVars
    PROVE  SyncIInv'
<1>1. CASE ~Empty(ready) /\ ExitTo(ready.head)
  BY <1>1, SyncExitInv DEF thread_stub_return
<1>2. CASE /\ Empty(ready)
           /\ ret' = "none"
           /\ pc' = [pc EXCEPT ![current_thread] = "halt"]
           /\ UNCHANGED <<thread_state, has_stack, ready, exit_array, current_thread>>
  <2>1. pc[current_thread] = "user" /\ pc \in [Tid -> SyncPCs] /\ current_thread \in Tid
    BY DEF thread_stub_return, Running, SyncIInv, SyncTypeOK
  <2>2. Placed' /\ StacksOwned' /\ SyncExitArrayShape'
    BY <1>2, <2>1 DEF SyncIInv, Placed, StacksOwned, SyncExitArrayShape
  <2>3. SyncTypeOK'
    BY <1>2, <2>1 DEF SyncIInv, SyncTypeOK, SyncPCs, PCs, Results, syncVars
  <2>4. \A k \in Queues : Asleep(k)' = Asleep(k)
    BY <1>2, <2>1, SleepNames DEF Asleep
  <2>5. \A t \in Tid : pc'[t] \in Wanting => pc[t] \in Wanting
    BY <1>2, <2>1 DEF Wanting
  <2>7. WellFormed(ready')
    BY <1>2, QueueFacts
  <2>. QED
    BY <2>2, <2>3, <2>4, <2>5, <2>7, Untouched DEF SyncIInv
<1>. QED
  BY <1>1, <1>2 DEF thread_stub_return

LEMMA ExitCallInv ==
    ASSUME SyncIInv, thread_exit, UNCHANGED syncVars
    PROVE  SyncIInv'
<1>1. CASE ~Empty(ready) /\ ExitTo(ready.head)
  BY <1>1, SyncExitInv DEF thread_exit
<1>2. CASE /\ ret' = "none"
           /\ UNCHANGED <<thread_state, has_stack, ready, exit_array, current_thread, pc>>
  BY <1>2 DEF SyncIInv, SyncTypeOK, WaitersIntact, ReadyListIntact, Placed, StacksOwned,
              SyncExitArrayShape, LockShape, Asleep, Sound, syncVars, Results
<1>. QED
  BY <1>1, <1>2 DEF thread_exit

LEMMA SyncKillInv ==
    ASSUME SyncIInv, NEW tid \in KillTids, thread_kill(tid), UNCHANGED syncVars
    PROVE  SyncIInv'
<1>1. CASE ~Killable(tid)
  <2>1. ret' \in Results
    BY <1>1 DEF thread_kill, KillRefused, Results
  <2>. QED
    BY <1>1, <2>1 DEF thread_kill, SyncIInv, SyncTypeOK, WaitersIntact, ReadyListIntact, Placed,
                      StacksOwned, SyncExitArrayShape, LockShape, Asleep, Sound, syncVars
<1>2. CASE Killable(tid)
  <2>1. /\ tid \in Tid /\ tid # current_thread /\ tid \in Listed(ready)
        /\ KillReady(tid)
    BY <1>2 DEF thread_kill, Killable
  <2>2. /\ ready' \in List /\ WellFormed(ready')
        /\ Listed(ready') = Listed(ready) \ {tid}
    BY <2>1, QueueFacts, UnlinkFacts DEF KillReady
  <2>3. /\ pc' = [pc EXCEPT ![tid] = "free"] /\ pc \in [Tid -> SyncPCs]
        /\ current_thread' = current_thread /\ exit_array' = exit_array
        /\ pc[tid] \in Suspended /\ current_thread \in Tid
    BY <2>1 DEF KillReady, SyncIInv, SyncTypeOK, Placed
  <2>4. SyncTypeOK'
    BY <2>1, <2>2, <2>3 DEF KillReady, SyncIInv, SyncTypeOK, SyncPCs, PCs, Results, syncVars
  <2>5. Placed'
    BY <2>1, <2>2, <2>3 DEF SyncIInv, Placed
  <2>6. StacksOwned'
    BY <2>1 DEF KillReady, SyncIInv, SyncTypeOK, StacksOwned
  <2>7. SyncExitArrayShape'
    BY <2>1, <2>3 DEF SyncIInv, SyncExitArrayShape, Suspended
  <2>8. \A k \in Queues : Asleep(k)' = Asleep(k)
    BY <2>1, <2>2, <2>3, SleepNames DEF Asleep
  <2>9. \A t \in Tid : pc'[t] \in Wanting => pc[t] \in Wanting
    BY <2>3 DEF Wanting
  <2>. QED
    BY <2>2, <2>4, <2>5, <2>6, <2>7, <2>8, <2>9, Untouched DEF SyncIInv
<1>. QED
  BY <1>1, <1>2

(* A thread that was given the processor reaps the thread that exited, if  *)
(* one did: its link is clear already, so the ready queue stays as it is.  *)
LEMMA ReapReady ==
    ASSUME SyncIInv, clean_exit_array
    PROVE  ready' = ready
<1>1. ready \in List /\ \A t \in Reaped : t \in Tid /\ t \notin Listed(ready)
  BY SyncExitArrayFacts, QueueFacts DEF SyncIInv, Placed, Suspended
<1>2. \A t \in Reaped : ready.next[t] = Nil
  BY <1>1, QueueFacts DEF WellFormed
<1>3. [t \in Tid |-> IF t \in Reaped THEN Nil ELSE ready.next[t]] = ready.next
  BY <1>1, <1>2 DEF List
<1>. QED
  BY <1>1, <1>3 DEF clean_exit_array, List

LEMMA GoesOnInv ==
    ASSUME SyncIInv, clean_exit_array, UNCHANGED <<current_thread, ret, syncVars>>,
           pc[current_thread] \in Suspended,
           NEW p \in {"user", "acquire"},
           p = "acquire" => pc[current_thread] \in Wanting,
           pc' = [t \in Tid |-> IF t = current_thread THEN p
                               ELSE IF t \in Reaped /\ pc[t] = "exit" THEN "free"
                               ELSE pc[t]]
    PROVE  SyncIInv'
<1>. DEFINE c == current_thread
<1>1. ready' = ready /\ current_thread' = c /\ ret' = ret /\ c \in Tid
  BY ReapReady DEF SyncIInv, SyncTypeOK
<1>2. \A i \in Tid : exit_array'[i] = Nil
  BY SyncExitArrayFacts DEF clean_exit_array
<1>3. Reaped = {t \in Tid : pc[t] = "exit"}
  BY SyncExitArrayFacts
<1>4. \A t \in Tid : pc'[t] = IF t = c THEN p
                               ELSE IF pc[t] = "exit" THEN "free" ELSE pc[t]
  BY <1>3
<1>5. /\ pc' \in [Tid -> SyncPCs]
      /\ exit_array' \in [Tid -> Link]
      /\ has_stack' \in [Tid -> BOOLEAN]
      /\ thread_state' \in [Tid -> {EXIT, READY, NONE_STATE}]
  BY DEF clean_exit_array, SyncIInv, SyncTypeOK, SyncPCs, PCs, Link
<1>6. SyncTypeOK'
  BY <1>1, <1>5 DEF SyncIInv, SyncTypeOK, syncVars
<1>7. Placed'
  BY <1>1, <1>4, QueueFacts DEF SyncIInv, Placed, Suspended
<1>8. StacksOwned'
  <2>1. \A t \in Tid : /\ has_stack'[t] = (pc[t] # "exit" /\ has_stack[t])
                       /\ thread_state'[t] = IF pc[t] = "exit" THEN NONE_STATE
                                             ELSE thread_state[t]
    BY <1>3 DEF clean_exit_array
  <2>. QED
    BY <1>1, <1>4, <2>1 DEF SyncIInv, SyncTypeOK, StacksOwned, Suspended
<1>9. SyncExitArrayShape'
  BY <1>2, <1>4, TidFacts DEF SyncExitArrayShape
<1>10. \A k \in Queues : Asleep(k)' = Asleep(k)
  BY <1>1, <1>4, SleepNames DEF Asleep
<1>11. \A t \in Tid : pc'[t] \in Wanting => pc[t] \in Wanting
  BY <1>4 DEF Wanting
<1>. QED
  BY <1>1, <1>6, <1>7, <1>8, <1>9, <1>10, <1>11, QueueFacts, Untouched DEF SyncIInv

LEMMA SyncResumeInv ==
    ASSUME SyncIInv, Resume, UNCHANGED syncVars
    PROVE  SyncIInv'
BY GoesOnInv DEF Resume, Suspended

LEMMA SleepReturnInv ==
    ASSUME SyncIInv, sleep_return
    PROVE  SyncIInv'
<1>. DEFINE p == IF pc[current_thread] = "sleep" THEN "user" ELSE "acquire"
<1>1. pc' = [t \in Tid |-> IF t = current_thread THEN p
                          ELSE IF t \in Reaped /\ pc[t] = "exit" THEN "free"
                          ELSE pc[t]]
  BY DEF sleep_return
<1>2. pc[current_thread] \in Suspended /\ (p = "acquire" => pc[current_thread] \in Wanting)
  BY DEF sleep_return, Suspended, Wanting
<1>3. p \in {"user", "acquire"}
  OBVIOUS
<1>. HIDE DEF p
<1>. QED
  BY <1>1, <1>2, <1>3, GoesOnInv DEF sleep_return

-----------------------------------------------------------------------------
(* Creation and destruction of the wait queues and their owners.           *)

(* Queue k comes into use or goes out of use while nobody sleeps in it.    *)
LEMMA ObjectInv ==
    ASSUME SyncIInv, UNCHANGED vars, NEW k \in Queues,
           Asleep(k) = {},
           live' \in SUBSET Queues, spoiled' \in SUBSET live',
           \A j \in Queues : j # k => (j \in Sound' <=> j \in Sound) /\ wq'[j] = wq[j],
           wq' \in [Queues -> List],
           k \in Sound' => wq'[k] = EmptyList,
           l' \in {0, 1}, acquired_thread_id' \in Link, holding' = holding, wild' = wild
    PROVE  /\ WaitersIntact' /\ Placed' /\ StacksOwned' /\ SyncExitArrayShape' /\ SyncTypeOK'
           /\ \A j \in Queues : Asleep(j)' = Asleep(j)
<1>1. \A j \in Queues : Asleep(j)' = Asleep(j)
  BY DEF vars, Asleep
<1>2. WaitersIntact'
  BY <1>1, EmptyListFacts DEF SyncIInv, WaitersIntact, ReadyListIntact, vars, Waiting
<1>3. Placed' /\ StacksOwned' /\ SyncExitArrayShape'
  BY DEF vars, SyncIInv, Placed, StacksOwned, SyncExitArrayShape
<1>4. SyncTypeOK'
  BY DEF vars, SyncIInv, SyncTypeOK
<1>. QED
  BY <1>1, <1>2, <1>3, <1>4

LEMMA BareInv ==
    ASSUME SyncIInv, DestroyRules, wait_queue_create \/ wait_queue_destroy
    PROVE  SyncIInv'
<1>1. Asleep("bare") = {} /\ "bare" \in Queues /\ "lock" \in Queues
  BY DEF wait_queue_create, wait_queue_destroy, MayDestroyBare, DestroyRules,
         Queues, SyncIInv, WaitersIntact, Sound
<1>2. /\ UNCHANGED <<vars, l, acquired_thread_id, holding, wild>>
      /\ l \in {0, 1} /\ acquired_thread_id \in Link
      /\ wq \in [Queues -> List] /\ live \in SUBSET Queues /\ spoiled \in SUBSET live
      /\ "lock" \in live' <=> "lock" \in live
  BY DEF wait_queue_create, wait_queue_destroy, SyncIInv, SyncTypeOK
<1>3. /\ live' \in SUBSET Queues /\ spoiled' \in SUBSET live'
      /\ wq' = [wq EXCEPT !["bare"] = EmptyList]
      /\ \A j \in Queues : j # "bare" => (j \in Sound' <=> j \in Sound)
  BY <1>1, <1>2 DEF wait_queue_create, wait_queue_destroy, Sound
<1>4. /\ wq' \in [Queues -> List] /\ wq'["bare"] = EmptyList
      /\ \A j \in Queues : j # "bare" => wq'[j] = wq[j]
  BY <1>1, <1>2, <1>3, EmptyListFacts
<1>5. /\ WaitersIntact' /\ Placed' /\ StacksOwned' /\ SyncExitArrayShape' /\ SyncTypeOK'
      /\ \A j \in Queues : Asleep(j)' = Asleep(j)
  BY <1>1, <1>2, <1>3, <1>4, ObjectInv
<1>6. LockShape'
  BY <1>1, <1>2, <1>5 DEF SyncIInv, LockShape, vars
<1>. QED
  BY <1>5, <1>6 DEF SyncIInv

(* Whatever malloc's memory holds, the new queue is empty or spoiled. *)
LEMMA MallocedFacts ==
    ASSUME NEW k \in Queues, wq \in [Queues -> List], spoiled \subseteq live,
           k \notin live, Malloced(k), live' = live \cup {k}
    PROVE  /\ wq' \in [Queues -> List] /\ \A j \in Queues : j # k => wq'[j] = wq[j]
           /\ spoiled' \in SUBSET live'
           /\ \A j \in Queues : j # k => (j \in Sound' <=> j \in Sound)
           /\ k \in Sound' => wq'[k] = EmptyList
<1>1. PICK q \in {EmptyList, Zeroed} : /\ wq' = [wq EXCEPT ![k] = q]
                                      /\ spoiled' = IF Empty(q) THEN spoiled ELSE spoiled \cup {k}
  BY DEF Malloced
<1>2. q \in List /\ (q # EmptyList => ~Empty(q))
  BY ZeroedFacts, EmptyListFacts
<1>. QED
  BY <1>1, <1>2 DEF Sound

LEMMA LockObjectInv ==
    ASSUME SyncIInv, DestroyRules, lock_create \/ lock_destroy
    PROVE  SyncIInv'
<1>1. (\A t \in Tid : pc[t] \notin Wanting) /\ l' = 0
  <2>1. CASE lock_create
    BY <2>1 DEF lock_create, SyncIInv, LockShape
  <2>2. CASE lock_destroy
    BY <2>2 DEF lock_destroy, MayDestroyLock, DestroyRules, Wanting
  <2>. QED
    BY <2>1, <2>2
<1>2. Asleep("lock") = {} /\ "lock" \in Queues
  BY <1>1, SleepNames DEF Asleep, Wanting, Queues
<1>3. /\ UNCHANGED <<vars, holding, wild>>
      /\ l' \in {0, 1} /\ acquired_thread_id' \in Link
      /\ wq \in [Queues -> List] /\ live \in SUBSET Queues /\ spoiled \in SUBSET live
  BY <1>1 DEF lock_create, lock_destroy, SyncIInv, SyncTypeOK, Link
<1>4. /\ live' \in SUBSET Queues /\ wq' \in [Queues -> List] /\ spoiled' \in SUBSET live'
      /\ \A j \in Queues : j # "lock" => (j \in Sound' <=> j \in Sound) /\ wq'[j] = wq[j]
      /\ "lock" \in Sound' => wq'["lock"] = EmptyList
  <2>1. CASE lock_create
    BY <1>2, <1>3, <2>1, MallocedFacts DEF lock_create
  <2>2. CASE lock_destroy
    BY <1>2, <1>3, <2>2, EmptyListFacts DEF lock_destroy, Sound
  <2>. QED
    BY <2>1, <2>2
<1>5. /\ WaitersIntact' /\ Placed' /\ StacksOwned' /\ SyncExitArrayShape' /\ SyncTypeOK'
      /\ \A j \in Queues : Asleep(j)' = Asleep(j)
  BY <1>2, <1>3, <1>4, ObjectInv
<1>6. LockShape'
  BY <1>1, <1>2, <1>3, <1>5 DEF LockShape, vars
<1>. QED
  BY <1>5, <1>6 DEF SyncIInv

LEMMA CvObjectInv ==
    ASSUME SyncIInv, cv_create \/ cv_destroy
    PROVE  SyncIInv'
<1>1. Asleep("cv") = {} /\ "cv" \in Queues /\ "lock" \in Queues
  <2>1. "cv" \notin Sound => Asleep("cv") = {}
    BY DEF SyncIInv, WaitersIntact, Queues
  <2>2. cv_create => "cv" \notin Sound
    BY DEF cv_create, Sound
  <2>3. cv_destroy /\ "cv" \in Sound => Asleep("cv") = {}
    BY QueueFacts DEF cv_destroy
  <2>. QED
    BY <2>1, <2>2, <2>3 DEF Queues
<1>2. /\ UNCHANGED <<vars, l, acquired_thread_id, holding, wild>>
      /\ l \in {0, 1} /\ acquired_thread_id \in Link
      /\ wq \in [Queues -> List] /\ live \in SUBSET Queues /\ spoiled \in SUBSET live
      /\ "lock" \in live' <=> "lock" \in live
  BY DEF cv_create, cv_destroy, SyncIInv, SyncTypeOK
<1>3. /\ live' \in SUBSET Queues /\ wq' \in [Queues -> List] /\ spoiled' \in SUBSET live'
      /\ \A j \in Queues : j # "cv" => (j \in Sound' <=> j \in Sound) /\ wq'[j] = wq[j]
      /\ "cv" \in Sound' => wq'["cv"] = EmptyList
  <2>1. CASE cv_create
    BY <1>1, <1>2, <2>1, MallocedFacts DEF cv_create
  <2>2. CASE cv_destroy
    BY <1>1, <1>2, <2>2 DEF cv_destroy, Sound
  <2>. QED
    BY <2>1, <2>2
<1>4. /\ WaitersIntact' /\ Placed' /\ StacksOwned' /\ SyncExitArrayShape' /\ SyncTypeOK'
      /\ \A j \in Queues : Asleep(j)' = Asleep(j)
  BY <1>1, <1>2, <1>3, ObjectInv
<1>5. LockShape'
  BY <1>1, <1>2, <1>4 DEF SyncIInv, LockShape, vars
<1>. QED
  BY <1>4, <1>5 DEF SyncIInv

-----------------------------------------------------------------------------
(* Sleeping and waking.                                                    *)

(* The threads that sleep in the queues of K, and the wait queues after    *)
(* the running thread has gone to sleep in k and those in K are woken.     *)
Sleepers(K) == UNION {Asleep(j) : j \in K}
Blocked(k, K) ==
    [j \in Queues |-> IF j = k THEN WaitAppend(wq[j], current_thread)
                     ELSE IF j \in K THEN EmptyList ELSE wq[j]]

(* The running thread goes to sleep in queue k and the thread at the head  *)
(* of r runs; r is the ready queue with the threads of the queues in woken *)
(* behind it, which is what cv_wait makes of it before it sleeps.          *)
LEMMA BlockInv ==
    ASSUME SyncIInv, pc[current_thread] \in {"user", "acquire"},
           NEW k \in Sound, NEW woken \in SUBSET (Sound \ {k}),
           NEW r \in List, WellFormed(r), ~Empty(r),
           Listed(r) = Listed(ready) \cup Sleepers(woken),
           wq' = Blocked(k, woken),
           ready' = Unlink(r, r.head),
           current_thread' = r.head,
           pc' = [pc EXCEPT ![current_thread] = SleepPC[k]],
           UNCHANGED <<threadVars, live, spoiled, wild>>
    PROVE  /\ WaitersIntact' /\ Placed' /\ StacksOwned' /\ SyncExitArrayShape'
           /\ \A j \in Queues : Asleep(j)' = IF j = k THEN Asleep(j) \cup {current_thread}
                                             ELSE IF j \in woken THEN {} ELSE Asleep(j)
           /\ {current_thread'} \cup Listed(ready') = Listed(r)
           /\ (/\ ret' \in Results /\ l' \in {0, 1}
               /\ acquired_thread_id' \in Link /\ holding' \subseteq Tid) => SyncTypeOK'
<1>. DEFINE c == current_thread
            h == r.head
<1>1. /\ c \in Tid /\ c \notin Listed(ready) /\ Listed(ready) \subseteq Tid /\ k \in Queues
      /\ Sound \subseteq Queues /\ c \notin Listed(wq[k]) /\ Sound' = Sound
      /\ pc \in [Tid -> SyncPCs] /\ pc[c] \in {"user", "acquire"}
  BY QueueFacts DEF SyncIInv, SyncTypeOK, Sound
<1>. USE DEF Sleepers, Blocked
<1>2. \A j \in woken : /\ Asleep(j) \subseteq Tid /\ c \notin Asleep(j)
                       /\ \A t \in Asleep(j) : pc[t] = SleepPC[j] /\ t \notin Listed(ready)
  BY DEF Asleep
<1>3. h \in Listed(r) /\ h \in Tid /\ h # c /\ Listed(r) \subseteq Tid /\ c \notin Listed(r)
  BY <1>1, <1>2, ListedEmpty
<1>4. ready' \in List /\ WellFormed(ready') /\ Listed(ready') = Listed(r) \ {h}
  BY <1>3, UnlinkFacts
<1>5. /\ WaitAppend(wq[k], c) \in List /\ WellFormed(WaitAppend(wq[k], c))
      /\ Listed(WaitAppend(wq[k], c)) = Listed(wq[k]) \cup {c}
  BY <1>1, QueueFacts, EnqueueFacts DEF WaitAppend
<1>6. ASSUME NEW j \in Queues
      PROVE  Asleep(j)' = IF j = k THEN Asleep(j) \cup {c}
                          ELSE IF j \in woken THEN {} ELSE Asleep(j)
  <2>1. Asleep(j)' = {t \in Tid : pc'[t] = SleepPC[j] /\ t \notin Listed(r)}
    BY <1>3, <1>4 DEF Asleep
  <2>2. \A t \in Tid : t # c => pc'[t] = pc[t]
    BY <1>1
  <2>3. pc'[c] = SleepPC[j] <=> j = k
    BY <1>1, SleepNames
  <2>4. \A t \in Asleep(j) : t \in Listed(r) <=> j \in woken
    BY <1>1, <1>2, SleepNames DEF Asleep
  <2>5. \A t \in Tid \ {c} : pc[t] = SleepPC[j] /\ t \notin Listed(r) => t \in Asleep(j)
    BY DEF Asleep
  <2>6. \A t \in Asleep(j) : t \in Tid \ {c} /\ pc[t] = SleepPC[j]
    BY DEF Asleep
  <2>. QED
    BY <1>1, <1>3, <2>1, <2>2, <2>3, <2>4, <2>5, <2>6
<1>7. WaitersIntact'
  <2>1. \A j \in Sound : Waiting(wq'[j]) = Asleep(j)' /\ WellFormed(wq'[j])
    BY <1>1, <1>5, <1>6, QueueFacts, EmptyListFacts DEF Waiting
  <2>2. \A j \in Queues \ Sound : Asleep(j)' = {}
    BY <1>6 DEF SyncIInv, WaitersIntact
  <2>. QED
    BY <1>1, <1>4, <2>1, <2>2 DEF WaitersIntact, ReadyListIntact
<1>8. \A t \in Listed(r) : pc[t] \in Suspended
  BY <1>1, <1>2, SleepNames DEF SyncIInv, Placed, Suspended
<1>9. Placed'
  <2>1. \A t \in Listed(r) : pc'[t] \in Suspended
    BY <1>1, <1>3, <1>8
  <2>2. \A t \in Tid \ {h} : pc'[t] \in {"stub", "yield"} => t \in Listed(ready')
    BY <1>1, <1>3, <1>4, SleepNames DEF SyncIInv, Placed
  <2>3. \A t \in Tid \ {h} : pc'[t] \notin {"user", "acquire", "halt"}
    BY <1>1, <1>3, SleepNames DEF SyncIInv, Placed
  <2>. QED
    BY <1>3, <1>4, <2>1, <2>2, <2>3 DEF Placed, Suspended
<1>10. StacksOwned'
  BY <1>1, SleepNames DEF SyncIInv, StacksOwned, threadVars
<1>11. SyncExitArrayShape'
  BY <1>1, <1>3, <1>8, SleepNames DEF SyncIInv, SyncExitArrayShape, threadVars, Suspended
<1>12. (/\ ret' \in Results /\ l' \in {0, 1}
        /\ acquired_thread_id' \in Link /\ holding' \subseteq Tid) => SyncTypeOK'
  BY <1>1, <1>3, <1>4, <1>5, SleepNames, EmptyListFacts
     DEF SyncIInv, SyncTypeOK, SyncPCs, threadVars
<1>. QED
  BY <1>3, <1>4, <1>6, <1>7, <1>9, <1>10, <1>11, <1>12

(* The threads in W go from queue k to the ready queue.                    *)
LEMMA WokenInv ==
    ASSUME SyncIInv, NEW k \in Sound, NEW W \in SUBSET Listed(wq[k]), NEW q \in List,
           \/ /\ WellFormed(q) /\ Listed(q) = Listed(wq[k]) \ W
              /\ spoiled' = spoiled
           \/ W = Listed(wq[k]) /\ spoiled' = spoiled \cup {k},
           wq' = [wq EXCEPT ![k] = q],
           ready' \in List, WellFormed(ready'), Listed(ready') = Listed(ready) \cup W,
           UNCHANGED <<threadVars, current_thread, pc, live, wild>>
    PROVE  /\ WaitersIntact' /\ Placed' /\ StacksOwned' /\ SyncExitArrayShape'
           /\ Asleep(k)' = Asleep(k) \ W
           /\ \A j \in Queues \ {k} : Asleep(j)' = Asleep(j)
           /\ (/\ ret' \in Results /\ l' \in {0, 1}
               /\ acquired_thread_id' \in Link /\ holding' \subseteq Tid) => SyncTypeOK'
<1>1. k \in Queues /\ Sound \subseteq Queues /\ wq \in [Queues -> List]
      /\ Listed(wq[k]) = Asleep(k) /\ k \in live
  BY QueueFacts DEF SyncIInv, SyncTypeOK, Sound
<1>2. \A t \in W : t \in Tid /\ t # current_thread /\ pc[t] = SleepPC[k]
  BY <1>1 DEF Asleep
<1>3. Asleep(k)' = Asleep(k) \ W
  BY <1>1 DEF Asleep
<1>4. \A j \in Queues \ {k} : Asleep(j)' = Asleep(j)
  BY <1>1, <1>2, SleepNames DEF Asleep
<1>5. WaitersIntact'
  <2>1. \A j \in Queues \ {k} : (j \in Sound' <=> j \in Sound) /\ wq'[j] = wq[j]
    BY <1>1 DEF Sound
  <2>2. ASSUME NEW j \in Queues \ {k}
        PROVE  /\ j \in Sound' => Waiting(wq'[j]) = Asleep(j)' /\ WellFormed(wq'[j])
               /\ j \notin Sound' => Asleep(j)' = {}
    BY <1>4, <2>1 DEF SyncIInv, WaitersIntact
  <2>3. /\ k \in Sound' => Waiting(wq'[k]) = Asleep(k)' /\ WellFormed(wq'[k])
        /\ k \notin Sound' => Asleep(k)' = {}
    BY <1>1, <1>3 DEF Sound, Waiting
  <2>. QED
    BY <2>2, <2>3 DEF WaitersIntact, ReadyListIntact
<1>6. Placed'
  BY <1>1, <1>2, SleepNames DEF SyncIInv, Placed, Suspended
<1>7. StacksOwned' /\ SyncExitArrayShape'
  BY DEF SyncIInv, StacksOwned, SyncExitArrayShape, threadVars
<1>8. (/\ ret' \in Results /\ l' \in {0, 1}
       /\ acquired_thread_id' \in Link /\ holding' \subseteq Tid) => SyncTypeOK'
  BY <1>1 DEF SyncIInv, SyncTypeOK, threadVars
<1>. QED
  BY <1>3, <1>4, <1>5, <1>6, <1>7, <1>8

LEMMA WakeOneFacts ==
    ASSUME SyncIInv, NEW k \in Sound, WakeOne(k), ret' \in Results,
           UNCHANGED <<threadVars, current_thread, pc, live, l, acquired_thread_id, holding, wild>>
    PROVE  SyncIInv'
<1>1. /\ l \in {0, 1} /\ acquired_thread_id \in Link /\ holding \subseteq Tid
      /\ k \in Queues /\ wq \in [Queues -> List]
  BY QueueFacts DEF SyncIInv, SyncTypeOK
<1>2. CASE Empty(wq[k])
  BY <1>2 DEF WakeOne, SyncIInv, SyncTypeOK, WaitersIntact, ReadyListIntact, Placed, StacksOwned,
              SyncExitArrayShape, LockShape, Asleep, Sound, threadVars
<1>3. CASE ~Empty(wq[k])
  <2>. DEFINE q == WaitAdvance(wq[k])
              W == {wq[k].head}
  <2>1. /\ wq' = [wq EXCEPT ![k] = q]
        /\ ready' = Enqueue(ready, wq[k].head)
        /\ spoiled' = IF wq[k].head = wq[k].tail THEN spoiled \cup {k} ELSE spoiled
    BY <1>3 DEF WakeOne
  <2>2. /\ wq[k] \in List /\ WellFormed(wq[k]) /\ wq[k].head \in Listed(wq[k])
        /\ Listed(wq[k]) = Asleep(k) /\ wq[k].head \in Tid /\ wq[k].head \notin Listed(ready)
    BY <1>1, <1>3, QueueFacts, ListedEmpty, ListedClosed
  <2>3. /\ q \in List
        /\ \/ WellFormed(q) /\ Listed(q) = Listed(wq[k]) \ W /\ spoiled' = spoiled
           \/ W = Listed(wq[k]) /\ spoiled' = spoiled \cup {k}
    <3>1. CASE wq[k].head = wq[k].tail
      <4>1. Listed(wq[k]) = W /\ q = Zeroed
        BY <2>2, <3>1, ListedOne, TidFacts DEF WaitAdvance
      <4>. QED
        BY <2>1, <3>1, <4>1, ZeroedFacts
    <3>2. CASE wq[k].head # wq[k].tail
      BY <1>3, <2>1, <2>2, <3>2, AdvanceFacts
    <3>. QED
      BY <3>1, <3>2
  <2>4. /\ ready' \in List /\ WellFormed(ready')
        /\ Listed(ready') = Listed(ready) \cup W
    BY <2>1, <2>2, QueueFacts, EnqueueFacts
  <2>5. W \in SUBSET Listed(wq[k]) /\ wq' = [wq EXCEPT ![k] = q]
    BY <2>1, <2>2
  <2>. HIDE DEF q, W
  <2>6. /\ WaitersIntact' /\ Placed' /\ StacksOwned' /\ SyncExitArrayShape' /\ SyncTypeOK'
        /\ Asleep(k)' = Asleep(k) \ W /\ \A j \in Queues \ {k} : Asleep(j)' = Asleep(j)
    BY <1>1, <2>3, <2>4, <2>5, WokenInv
  <2>7. l = 0 => Asleep("lock")' = {}
    BY <1>1, <2>6 DEF SyncIInv, LockShape, Queues
  <2>8. LockShape'
    BY <2>7 DEF SyncIInv, LockShape
  <2>. QED
    BY <2>6, <2>8 DEF SyncIInv
<1>. QED
  BY <1>2, <1>3

LEMMA WakeAllFacts ==
    ASSUME SyncIInv, NEW k \in Sound, WakeAll(k),
           UNCHANGED <<threadVars, current_thread, pc, live, wild>>
    PROVE  /\ WaitersIntact' /\ Placed' /\ StacksOwned' /\ SyncExitArrayShape'
           /\ Asleep(k)' = {}
           /\ \A j \in Queues \ {k} : Asleep(j)' = Asleep(j)
           /\ Listed(ready') = Listed(ready) \cup Asleep(k)
           /\ (/\ ret' \in Results /\ l' \in {0, 1}
               /\ acquired_thread_id' \in Link /\ holding' \subseteq Tid) => SyncTypeOK'
<1>1. /\ ready' \in List /\ WellFormed(ready')
      /\ Listed(ready') = Listed(ready) \cup Listed(wq[k])
  BY QueueFacts, SpliceFacts DEF WakeAll
<1>. DEFINE W == Listed(wq[k])
<1>2. wq' = [wq EXCEPT ![k] = EmptyList] /\ spoiled' = spoiled
  BY DEF WakeAll
<1>3. W = Asleep(k) /\ W \in SUBSET Listed(wq[k])
  BY QueueFacts
<1>4. /\ EmptyList \in List /\ WellFormed(EmptyList) /\ Listed(EmptyList) = Listed(wq[k]) \ W
      /\ Listed(ready') = Listed(ready) \cup W
  BY <1>1, EmptyListFacts
<1>. HIDE DEF W
<1>5. /\ WaitersIntact' /\ Placed' /\ StacksOwned' /\ SyncExitArrayShape'
      /\ Asleep(k)' = Asleep(k) \ W
      /\ \A j \in Queues \ {k} : Asleep(j)' = Asleep(j)
      /\ (/\ ret' \in Results /\ l' \in {0, 1}
          /\ acquired_thread_id' \in Link /\ holding' \subseteq Tid) => SyncTypeOK'
  BY <1>1, <1>2, <1>3, <1>4, WokenInv
<1>. QED
  BY <1>3, <1>4, <1>5

LEMMA WakeupInv ==
    ASSUME SyncIInv, thread_wakeup
    PROVE  SyncIInv'
<1>1. CASE "bare" \in spoiled /\ GoesWild
  BY <1>1, GoesWildInv
<1>2. CASE "bare" \in Sound /\ (WakeOne("bare") \/ WakeAll("bare")) /\ ret' = "ok" /\ wild' = wild
  <2>1. /\ "bare" \in Sound /\ ret' \in Results
        /\ UNCHANGED <<threadVars, current_thread, pc, live, l, acquired_thread_id, holding, wild>>
        /\ l \in {0, 1} /\ acquired_thread_id \in Link /\ holding \subseteq Tid
    BY <1>2 DEF thread_wakeup, Results, SyncIInv, SyncTypeOK
  <2>2. CASE WakeOne("bare")
    BY <2>1, <2>2, WakeOneFacts
  <2>3. CASE WakeAll("bare")
    <3>1. /\ WaitersIntact' /\ Placed' /\ StacksOwned' /\ SyncExitArrayShape' /\ SyncTypeOK'
          /\ Asleep("lock")' = Asleep("lock")
      BY <2>1, <2>3, WakeAllFacts DEF Queues
    <3>2. LockShape'
      BY <2>1, <3>1 DEF SyncIInv, LockShape
    <3>. QED
      BY <3>1, <3>2 DEF SyncIInv
  <2>. QED
    BY <1>2, <2>2, <2>3
<1>. QED
  BY <1>1, <1>2 DEF thread_wakeup

LEMMA SignalInv ==
    ASSUME SyncIInv, cv_signal
    PROVE  SyncIInv'
<1>1. ret' \in Results
  BY DEF cv_signal, SyncIInv, SyncTypeOK
<1>. QED
  BY <1>1, WakeOneFacts, GoesWildInv DEF cv_signal

LEMMA BroadcastInv ==
    ASSUME SyncIInv, cv_broadcast
    PROVE  SyncIInv'
<1>1. CASE "cv" \in Sound /\ WakeAll("cv") /\ wild' = wild
  <2>1. /\ "cv" \in Sound /\ ret' \in Results /\ WakeAll("cv")
        /\ UNCHANGED <<threadVars, current_thread, pc, live, l, acquired_thread_id, holding, wild>>
        /\ l \in {0, 1} /\ acquired_thread_id \in Link /\ holding \subseteq Tid
    BY <1>1 DEF cv_broadcast, SyncIInv, SyncTypeOK
  <2>2. /\ WaitersIntact' /\ Placed' /\ StacksOwned' /\ SyncExitArrayShape' /\ SyncTypeOK'
        /\ Asleep("lock")' = Asleep("lock")
    BY <2>1, WakeAllFacts DEF Queues
  <2>3. LockShape'
    BY <2>1, <2>2 DEF SyncIInv, LockShape
  <2>. QED
    BY <2>2, <2>3 DEF SyncIInv
<1>2. CASE GoesWild
  BY <1>2, GoesWildInv
<1>. QED
  BY <1>1, <1>2 DEF cv_broadcast

LEMMA ReleaseInv ==
    ASSUME SyncIInv, lock_release
    PROVE  SyncIInv'
<1>1. CASE "lock" \in Sound /\ WakeAll("lock") /\ l' = 0 /\ acquired_thread_id' = Nil
           /\ holding' = holding \ {current_thread} /\ wild' = wild
  <2>1. /\ "lock" \in live /\ ret' \in Results /\ holding' \subseteq Tid
        /\ UNCHANGED <<threadVars, current_thread, pc, live, wild>>
        /\ l' \in {0, 1} /\ acquired_thread_id' \in Link
    BY <1>1 DEF lock_release, SyncIInv, SyncTypeOK, Link
  <2>2. /\ WaitersIntact' /\ Placed' /\ StacksOwned' /\ SyncExitArrayShape' /\ SyncTypeOK'
        /\ Asleep("lock")' = {}
    BY <1>1, <2>1, WakeAllFacts
  <2>3. LockShape'
    BY <1>1, <2>1, <2>2 DEF LockShape
  <2>. QED
    BY <2>2, <2>3 DEF SyncIInv
<1>2. CASE GoesWild
  BY <1>2, GoesWildInv
<1>. QED
  BY <1>1, <1>2 DEF lock_release

(* A thread that sleeps in a queue of which no thread is woken.            *)
LEMMA SleepFacts ==
    ASSUME SyncIInv, pc[current_thread] \in {"user", "acquire"}, NEW k \in Sound,
           ~Empty(ready), SleepOn(k, ready), UNCHANGED <<threadVars, live, spoiled, wild>>
    PROVE  /\ WaitersIntact' /\ Placed' /\ StacksOwned' /\ SyncExitArrayShape'
           /\ \A j \in Queues \ {k} : Asleep(j)' = Asleep(j)
           /\ {current_thread'} \cup Listed(ready') = Listed(ready)
           /\ (/\ ret' \in Results /\ l' \in {0, 1}
               /\ acquired_thread_id' \in Link /\ holding' \subseteq Tid) => SyncTypeOK'
<1>1. wq \in [Queues -> List] /\ k \in Queues
  BY QueueFacts DEF SyncIInv, SyncTypeOK
<1>2. wq' = Blocked(k, {})
  BY <1>1 DEF SleepOn, Blocked
<1>3. /\ ready' = Unlink(ready, ready.head) /\ current_thread' = ready.head
      /\ pc' = [pc EXCEPT ![current_thread] = SleepPC[k]]
  BY DEF SleepOn
<1>4. Listed(ready) = Listed(ready) \cup Sleepers({})
  BY DEF Sleepers
<1>5. /\ WaitersIntact' /\ Placed' /\ StacksOwned' /\ SyncExitArrayShape'
      /\ \A j \in Queues : Asleep(j)' = IF j = k THEN Asleep(j) \cup {current_thread}
                                        ELSE IF j \in {} THEN {} ELSE Asleep(j)
      /\ {current_thread'} \cup Listed(ready') = Listed(ready)
      /\ (/\ ret' \in Results /\ l' \in {0, 1}
          /\ acquired_thread_id' \in Link /\ holding' \subseteq Tid) => SyncTypeOK'
  BY <1>2, <1>3, <1>4, QueueFacts, BlockInv
<1>. QED
  BY <1>5

LEMMA SleepInv ==
    ASSUME SyncIInv, thread_sleep
    PROVE  SyncIInv'
<1>1. /\ UNCHANGED <<threadVars, l, acquired_thread_id, live, holding, spoiled>>
      /\ pc[current_thread] = "user"
      /\ l \in {0, 1} /\ acquired_thread_id \in Link /\ holding \subseteq Tid
      /\ ret' \in Results
  BY DEF thread_sleep, Running, SyncIInv, SyncTypeOK, Results, GoesWild, vars
<1>2. CASE UNCHANGED <<ready, current_thread, pc, wq, wild>>
  BY <1>1, <1>2 DEF SyncIInv, SyncTypeOK, WaitersIntact, ReadyListIntact, Placed, StacksOwned,
                    SyncExitArrayShape, LockShape, Asleep, Sound, threadVars
<1>3. CASE "bare" \in Sound /\ ~Empty(ready) /\ SleepOn("bare", ready) /\ UNCHANGED wild
  <2>1. /\ WaitersIntact' /\ Placed' /\ StacksOwned' /\ SyncExitArrayShape' /\ SyncTypeOK'
        /\ Asleep("lock")' = Asleep("lock")
    BY <1>1, <1>3, SleepFacts DEF Queues
  <2>2. \A t \in Tid : pc'[t] \in Wanting => pc[t] \in Wanting
    BY <1>3, SleepNames DEF SleepOn, Wanting, SyncIInv, SyncTypeOK
  <2>3. LockShape'
    BY <1>1, <2>1, <2>2 DEF SyncIInv, LockShape
  <2>. QED
    BY <2>1, <2>3 DEF SyncIInv
<1>4. CASE GoesWild
  BY <1>4, GoesWildInv
<1>. QED
  BY <1>2, <1>3, <1>4 DEF thread_sleep

LEMMA AcquireInv ==
    ASSUME SyncIInv, lock_acquire
    PROVE  SyncIInv'
<1>1. /\ UNCHANGED <<threadVars, ready, current_thread, ret, syncVars>>
      /\ pc[current_thread] = "user" /\ "lock" \in live
      /\ pc' = [pc EXCEPT ![current_thread] = "acquire"]
      /\ pc \in [Tid -> SyncPCs] /\ current_thread \in Tid
  BY DEF lock_acquire, Running, SyncIInv, SyncTypeOK
<1>2. \A k \in Queues : Asleep(k)' = Asleep(k)
  BY <1>1, SleepNames DEF Asleep
<1>3. SyncTypeOK' /\ Placed' /\ StacksOwned' /\ SyncExitArrayShape'
  BY <1>1 DEF SyncIInv, SyncTypeOK, SyncPCs, Placed, StacksOwned, SyncExitArrayShape, threadVars,
              syncVars
<1>4. WaitersIntact'
  BY <1>1, <1>2 DEF SyncIInv, WaitersIntact, ReadyListIntact, Sound, syncVars
<1>5. LockShape'
  BY <1>1, <1>2 DEF SyncIInv, LockShape, syncVars, Queues
<1>. QED
  BY <1>3, <1>4, <1>5 DEF SyncIInv

LEMMA LoopInv ==
    ASSUME SyncIInv, lock_acquire_loop
    PROVE  SyncIInv'
<1>1. /\ UNCHANGED <<threadVars, ret, live, spoiled>>
      /\ pc[current_thread] = "acquire" /\ current_thread \in Tid
      /\ pc \in [Tid -> SyncPCs] /\ ret \in Results
      /\ l \in {0, 1} /\ acquired_thread_id \in Link /\ holding \subseteq Tid
  BY DEF lock_acquire_loop, SyncIInv, SyncTypeOK
<1>2. "lock" \in live
  BY <1>1 DEF SyncIInv, LockShape, Wanting
<1>3. CASE /\ l = 0 /\ l' = 1
           /\ acquired_thread_id' = current_thread
           /\ holding' = holding \cup {current_thread}
           /\ pc' = [pc EXCEPT ![current_thread] = "user"]
           /\ UNCHANGED <<ready, current_thread, wq, wild>>
  <2>1. holding' \subseteq Tid
    BY <1>1, <1>3
  <2>2. \A k \in Queues : Asleep(k)' = Asleep(k)
    BY <1>1, <1>3, SleepNames DEF Asleep
  <2>3. SyncTypeOK' /\ Placed' /\ StacksOwned' /\ SyncExitArrayShape'
    BY <1>1, <1>3, <2>1 DEF SyncIInv, SyncTypeOK, SyncPCs, PCs, Link, Placed, StacksOwned,
                            SyncExitArrayShape, threadVars
  <2>4. WaitersIntact'
    BY <1>1, <1>3, <2>2 DEF SyncIInv, WaitersIntact, ReadyListIntact, Sound
  <2>5. LockShape'
    BY <1>1, <1>2, <1>3 DEF LockShape
  <2>. QED
    BY <2>3, <2>4, <2>5 DEF SyncIInv
<1>4. CASE /\ l = 1 /\ ~Empty(ready) /\ "lock" \in Sound /\ SleepOn("lock", ready)
           /\ UNCHANGED <<l, acquired_thread_id, holding, wild>>
  <2>1. /\ WaitersIntact' /\ Placed' /\ StacksOwned' /\ SyncExitArrayShape' /\ SyncTypeOK'
    BY <1>1, <1>4, SleepFacts
  <2>2. LockShape'
    BY <1>1, <1>2, <1>4 DEF LockShape
  <2>. QED
    BY <2>1, <2>2 DEF SyncIInv
<1>5. CASE GoesWild
  BY <1>5, GoesWildInv
<1>. QED
  BY <1>3, <1>4, <1>5 DEF lock_acquire_loop

LEMMA WaitInv ==
    ASSUME SyncIInv, cv_wait
    PROVE  SyncIInv'
<1>. DEFINE r == Splice(ready, wq["lock"])
            c == current_thread
<1>1. /\ "lock" \in live /\ "cv" \in live /\ pc[c] = "user" /\ c \in Tid
      /\ pc \in [Tid -> SyncPCs] /\ wq \in [Queues -> List]
      /\ UNCHANGED <<threadVars, ret, live, spoiled>> /\ ret \in Results /\ l = 1
      /\ holding \subseteq Tid
  BY DEF cv_wait, Running, SyncIInv, SyncTypeOK
<1>2. "lock" \in Sound => /\ r \in List /\ WellFormed(r)
                          /\ Listed(r) = Listed(ready) \cup Asleep("lock")
  BY QueueFacts, SpliceFacts
<1>3. CASE /\ {"lock", "cv"} \subseteq Sound
           /\ ~Empty(r)
           /\ wq' = [wq EXCEPT !["lock"] = EmptyList, !["cv"] = WaitAppend(@, c)]
           /\ ready' = Unlink(r, r.head)
           /\ current_thread' = r.head
           /\ pc' = [pc EXCEPT ![c] = "cv_sleep"]
           /\ l' = 0 /\ acquired_thread_id' = Nil /\ holding' = holding \ {c}
           /\ UNCHANGED wild
  <2>. DEFINE W == {"lock"}
  <2>0. holding' \subseteq Tid /\ l' \in {0, 1} /\ acquired_thread_id' \in Link /\ ret' \in Results
    BY <1>1, <1>3 DEF Link
  <2>1. wq' = Blocked("cv", W)
    BY <1>1, <1>3 DEF Blocked
  <2>2. /\ r \in List /\ WellFormed(r) /\ ~Empty(r)
        /\ Listed(r) = Listed(ready) \cup Sleepers(W)
    BY <1>2, <1>3 DEF Sleepers
  <2>3. pc' = [pc EXCEPT ![c] = SleepPC["cv"]] /\ W \in SUBSET (Sound \ {"cv"}) /\ "cv" \in Sound
    BY <1>3, SleepNames
  <2>4. pc[c] \in {"user", "acquire"}
    BY <1>1
  <2>5. UNCHANGED <<threadVars, live, spoiled, wild>>
    BY <1>1, <1>3
  <2>. HIDE DEF r, W
  <2>6. /\ WaitersIntact' /\ Placed' /\ StacksOwned' /\ SyncExitArrayShape'
        /\ \A j \in Queues : Asleep(j)' = IF j = "cv" THEN Asleep(j) \cup {c}
                                          ELSE IF j \in W THEN {} ELSE Asleep(j)
        /\ (/\ ret' \in Results /\ l' \in {0, 1}
            /\ acquired_thread_id' \in Link /\ holding' \subseteq Tid) => SyncTypeOK'
    BY <1>3, <2>1, <2>2, <2>3, <2>4, <2>5, BlockInv
  <2>7. Asleep("lock")' = {} /\ SyncTypeOK'
    BY <2>0, <2>6 DEF Queues, W
  <2>8. LockShape'
    BY <1>1, <2>7 DEF LockShape
  <2>. QED
    BY <2>6, <2>7, <2>8 DEF SyncIInv
<1>4. CASE /\ "lock" \in Sound
           /\ Empty(r)
           /\ pc' = [pc EXCEPT ![c] = "acquire"]
           /\ l' = 0 /\ acquired_thread_id' = Nil /\ holding' = holding \ {c}
           /\ UNCHANGED <<ready, current_thread, wq, wild>>
  <2>0. holding' \subseteq Tid /\ acquired_thread_id' \in Link
    BY <1>1, <1>4 DEF Link
  <2>1. Asleep("lock") = {}
    BY <1>2, <1>4, ListedEmpty
  <2>2. \A k \in Queues : Asleep(k)' = Asleep(k)
    BY <1>1, <1>4, SleepNames DEF Asleep
  <2>3. SyncTypeOK' /\ Placed' /\ StacksOwned' /\ SyncExitArrayShape'
    BY <1>1, <1>4, <2>0 DEF SyncIInv, SyncTypeOK, SyncPCs, Placed, StacksOwned,
                            SyncExitArrayShape, threadVars
  <2>4. WaitersIntact'
    BY <1>1, <1>4, <2>2 DEF SyncIInv, WaitersIntact, ReadyListIntact, Sound
  <2>5. LockShape'
    BY <1>1, <2>1, <2>2 DEF LockShape, Queues
  <2>. QED
    BY <2>3, <2>4, <2>5 DEF SyncIInv
<1>5. CASE GoesWild
  BY <1>5, GoesWildInv
<1>. QED
  BY <1>3, <1>4, <1>5 DEF cv_wait

-----------------------------------------------------------------------------
LEMMA ThreadStepInv ==
    ASSUME SyncIInv, ThreadStep
    PROVE  SyncIInv'
<1>. USE DEF ThreadStep
<1>1. UNCHANGED syncVars
  OBVIOUS
<1>2. CASE thread_create
  BY <1>1, <1>2, SyncCreateInv
<1>3. CASE \E want \in WantTids : thread_yield(want)
  BY <1>1, <1>3, SyncYieldInv
<1>4. CASE thread_exit
  BY <1>1, <1>4, ExitCallInv
<1>5. CASE thread_stub_return
  BY <1>1, <1>5, SyncStubReturnInv
<1>6. CASE \E tid \in KillTids : thread_kill(tid)
  BY <1>1, <1>6, SyncKillInv
<1>7. CASE interrupt_handler
  BY <1>1, <1>7, SyncHandlerInv
<1>8. CASE Resume
  BY <1>1, <1>8, SyncResumeInv
<1>9. CASE Halted
  BY <1>1, <1>9, NothingMoves DEF Halted, syncVars, SyncIInv, SyncTypeOK
<1>. QED
  BY <1>2, <1>3, <1>4, <1>5, <1>6, <1>7, <1>8, <1>9

LEMMA SyncNextInv ==
    ASSUME SyncIInv, DestroyRules, [SyncNext]_allVars
    PROVE  SyncIInv'
<1>1. CASE ThreadStep
  BY <1>1, ThreadStepInv
<1>2. CASE SyncStep
  BY <1>2, BareInv, LockObjectInv, CvObjectInv, SleepInv, WakeupInv, AcquireInv, LoopInv,
     ReleaseInv, WaitInv, SignalInv, BroadcastInv, SleepReturnInv DEF SyncStep
<1>3. CASE UNCHANGED allVars
  BY <1>3, NothingMoves DEF allVars, syncVars, SyncIInv, SyncTypeOK
<1>. QED
  BY <1>1, <1>2, <1>3 DEF SyncNext, Stopped

-----------------------------------------------------------------------------
(* Who holds the lock, for clients that keep all the rules: the thread in  *)
(* acquired_thread_id and no other, and it is in client code or switched   *)
(* out of it, so it can run.                                               *)
HolderShape ==
    /\ "lock" \notin live => holding = {}
    /\ "lock" \in live => holding = IF l = 1 THEN {acquired_thread_id} ELSE {}
    /\ l = 1 => acquired_thread_id \in Tid /\ pc[acquired_thread_id] \in {"user", "yield"}

(* The thread that has the lock, if one has. *)
LEMMA HolderFacts ==
    ASSUME SyncIInv, HolderShape
    PROVE  /\ l = 1 => /\ holding = {acquired_thread_id} /\ acquired_thread_id \in Tid
                       /\ "lock" \in live
                       /\ pc[acquired_thread_id] \in {"user", "yield"}
                       /\ acquired_thread_id \in {current_thread} \cup Listed(ready)
           /\ l # 1 => holding = {} /\ l = 0
BY DEF SyncIInv, LockShape, SyncTypeOK, HolderShape, Placed

(* With the rules of the clients it is the holder that calls lock_release  *)
(* and the calls of the condition variable.                                *)
LEMMA CallerHolds ==
    ASSUME SyncIInv, HolderShape, Rules = EveryRule, MayUseLock, l = 1
    PROVE  holding = {current_thread} /\ acquired_thread_id = current_thread
BY HolderFacts DEF MayUseLock, EveryRule

(* A step that leaves the lock and the thread that holds it alone. *)
LEMMA SameHolder ==
    ASSUME SyncIInv, HolderShape, UNCHANGED <<l, acquired_thread_id, holding>>,
           "lock" \in live' <=> "lock" \in live,
           \A t \in holding : pc[t] \in {"user", "yield"} => pc'[t] \in {"user", "yield"}
    PROVE  HolderShape'
BY HolderFacts DEF HolderShape

(* The calls of Threads: a holder is switched out or goes on, and neither  *)
(* exits nor is killed.                                                    *)
LEMMA ThreadStepHolder ==
    ASSUME SyncIInv, HolderShape, Rules = EveryRule, ThreadStep
    PROVE  HolderShape'
<1>1. UNCHANGED <<l, acquired_thread_id, holding, live>>
  BY DEF ThreadStep, syncVars
<1>. SUFFICES ASSUME NEW t \in holding, pc[t] \in {"user", "yield"}
              PROVE  pc'[t] \in {"user", "yield"}
  BY <1>1, SameHolder
<1>2. t \in Tid /\ pc \in [Tid -> SyncPCs] /\ current_thread \in Tid
  BY DEF SyncIInv, SyncTypeOK
<1>3. CASE thread_create
  <2>1. CASE UNCHANGED pc
    BY <2>1
  <2>2. ASSUME NEW u \in Tid, Available(u), pc' = [pc EXCEPT ![u] = "stub"]
        PROVE  pc'[t] \in {"user", "yield"}
    <3>1. pc[u] = "free"
      BY <2>2 DEF Available, SyncIInv, StacksOwned, READY, EXIT, NONE_STATE
    <3>. QED
      BY <1>2, <2>2, <3>1
  <2>. QED
    BY <1>3, <2>1, <2>2 DEF thread_create
<1>4. CASE interrupt_handler \/ \E want \in WantTids : thread_yield(want)
  BY <1>2, <1>4 DEF interrupt_handler, thread_yield, SwitchTo
<1>5. CASE MayStop(current_thread) /\ (thread_exit \/ thread_stub_return)
  <2>1. t # current_thread
    BY <1>5 DEF MayStop, EveryRule
  <2>. QED
    BY <1>2, <1>5, <2>1 DEF thread_exit, thread_stub_return, ExitTo
<1>6. CASE \E tid \in KillTids : MayStop(tid) /\ thread_kill(tid)
  BY <1>2, <1>6 DEF MayStop, EveryRule, thread_kill, KillReady
<1>7. CASE Resume
  BY <1>2, <1>7 DEF Resume
<1>8. CASE Halted
  BY <1>8 DEF Halted, vars
<1>. QED
  BY <1>3, <1>4, <1>5, <1>6, <1>7, <1>8 DEF ThreadStep

LEMMA SyncStepHolder ==
    ASSUME SyncIInv, HolderShape, Rules = EveryRule, SyncStep
    PROVE  HolderShape'
<1>0. pc \in [Tid -> SyncPCs] /\ current_thread \in Tid /\ holding \subseteq Tid
  BY DEF SyncIInv, SyncTypeOK
<1>1. CASE wait_queue_create \/ wait_queue_destroy \/ cv_create \/ cv_destroy
  BY <1>1, SameHolder DEF wait_queue_create, wait_queue_destroy, cv_create, cv_destroy, vars
<1>2. CASE lock_create \/ lock_destroy
  BY <1>2, HolderFacts DEF lock_create, lock_destroy, HolderShape, SyncIInv, LockShape
<1>3. CASE thread_sleep
  <2>1. current_thread \notin holding
    BY <1>3 DEF thread_sleep, MayStop, EveryRule
  <2>. QED
    BY <1>0, <1>3, <2>1, SameHolder DEF thread_sleep, SleepOn, GoesWild, vars
<1>4. CASE thread_wakeup \/ cv_signal \/ cv_broadcast
  BY <1>4, SameHolder DEF thread_wakeup, cv_signal, cv_broadcast
<1>5. CASE lock_acquire
  <2>1. current_thread \notin holding
    BY <1>5 DEF lock_acquire, MayAcquire, EveryRule
  <2>. QED
    BY <1>0, <1>5, <2>1, SameHolder DEF lock_acquire, syncVars
<1>6. CASE lock_acquire_loop
  <2>1. pc[current_thread] = "acquire" /\ live' = live /\ "lock" \in live
    BY <1>0, <1>6 DEF lock_acquire_loop, SyncIInv, LockShape, Wanting
  <2>2. CASE /\ l = 0 /\ l' = 1
             /\ acquired_thread_id' = current_thread
             /\ holding' = holding \cup {current_thread}
             /\ pc' = [pc EXCEPT ![current_thread] = "user"]
    BY <1>0, <2>1, <2>2, HolderFacts DEF HolderShape
  <2>3. CASE SleepOn("lock", ready) /\ UNCHANGED <<l, acquired_thread_id, holding>>
    BY <1>0, <2>1, <2>3, SameHolder DEF SleepOn
  <2>4. CASE GoesWild
    BY <2>4, SameHolder DEF GoesWild, vars
  <2>. QED
    BY <1>6, <2>2, <2>3, <2>4 DEF lock_acquire_loop
<1>7. CASE lock_release \/ cv_wait
  <2>1. holding = {current_thread} /\ live' = live /\ "lock" \in live
    BY <1>7, CallerHolds DEF lock_release, cv_wait
  <2>2. CASE l' = 0 /\ holding' = holding \ {current_thread}
    BY <2>1, <2>2 DEF HolderShape
  <2>3. CASE GoesWild
    BY <2>3, SameHolder DEF GoesWild, vars
  <2>. QED
    BY <1>7, <2>2, <2>3 DEF lock_release, cv_wait
<1>8. CASE sleep_return
  BY <1>0, <1>8, SameHolder DEF sleep_return, syncVars
<1>. QED
  BY <1>1, <1>2, <1>3, <1>4, <1>5, <1>6, <1>7, <1>8 DEF SyncStep

LEMMA HolderInit == ASSUME SyncInit PROVE HolderShape
BY DEF SyncInit, HolderShape

LEMMA HolderNext ==
    ASSUME SyncIInv, HolderShape, Rules = EveryRule, [SyncNext]_allVars
    PROVE  HolderShape'
<1>1. CASE UNCHANGED allVars
  BY <1>1 DEF allVars, syncVars, vars, HolderShape
<1>. QED
  BY <1>1, ThreadStepHolder, SyncStepHolder DEF SyncNext, Stopped

-----------------------------------------------------------------------------
(* The theorems, once exit_array has been through a reaping (ExitFill =    *)
(* Nil, see Threads).  Those about the queues ask of the clients only      *)
(* that they destroy nothing that is in use; those about the lock ask them *)
(* to keep every rule, of which thread.h:132 wants the package to check    *)
(* the first (owner) and thread.c:893 does not.                            *)

THEOREM SyncInvariance ==
    ASSUME ExitFill = Nil, DestroyRules
    PROVE  SyncSpec => []SyncIInv
<1>1. SyncInit => SyncIInv
  BY SyncInitInv
<1>2. SyncIInv /\ [SyncNext]_allVars => SyncIInv'
  BY SyncNextInv
<1>. QED
  BY <1>1, <1>2, PTL DEF SyncSpec

(* The same with the holder of the lock. *)
LEMMA HolderInvariance ==
    ASSUME ExitFill = Nil, Rules = EveryRule
    PROVE  SyncSpec => [](SyncIInv /\ HolderShape)
<1>1. SyncInit => SyncIInv /\ HolderShape
  BY SyncInitInv, HolderInit
<1>2. DestroyRules
  BY DEF DestroyRules, EveryRule
<1>3. (SyncIInv /\ HolderShape) /\ [SyncNext]_allVars => (SyncIInv /\ HolderShape)'
  BY <1>2, SyncNextInv, HolderNext
<1>. QED
  BY <1>1, <1>3, PTL DEF SyncSpec

(* Every variable keeps its type, through every call that blocks: the      *)
(* heads, the tails and the links are always thread identifiers or -1.     *)
THEOREM SyncTypeCorrect ==
    ASSUME ExitFill = Nil, DestroyRules
    PROVE  SyncSpec => []SyncTypeOK
<1>1. SyncIInv => SyncTypeOK
  BY DEF SyncIInv
<1>. QED
  BY <1>1, SyncInvariance, PTL

(* thread_wakeup, lock_release and cv_broadcast never lose a waiter and    *)
(* never wake a thread that does not sleep in the queue: the wait queue    *)
(* holds exactly the threads that sleep in it, as one chain from its head  *)
(* to its tail.                                                            *)
THEOREM NoWaiterLost ==
    ASSUME ExitFill = Nil, DestroyRules
    PROVE  SyncSpec => []WaitersIntact
<1>1. SyncIInv => WaitersIntact
  BY DEF SyncIInv
<1>. QED
  BY <1>1, SyncInvariance, PTL

(* No thread is in two queues at a time, which is why one link per thread  *)
(* and kind of queue is enough, and none that is suspended is in no queue. *)
THEOREM OneQueuePerThread ==
    ASSUME ExitFill = Nil, DestroyRules
    PROVE  SyncSpec => []SyncOnePlace
<1>1. ASSUME SyncIInv PROVE SyncOnePlace
  <2>. SUFFICES ASSUME NEW t \in Tid
                PROVE  LET suspended == pc[t] \in {"stub", "yield", "sleep", "acquire_sleep",
                                                   "cv_sleep"}
                           asleep    == \E k \in Sound : t \in Waiting(wq[k])
                       IN /\ t = current_thread => /\ t \notin Listed(ready) /\ ~asleep
                                                   /\ pc[t] \notin {"exit", "free"}
                          /\ t # current_thread =>
                                (t \in Listed(ready) \/ asleep <=> suspended)
                          /\ t \in Listed(ready) => ~asleep
                          /\ \A j, k \in Sound :
                                t \in Waiting(wq[j]) /\ t \in Waiting(wq[k]) => j = k
                          /\ t \in Zombies <=> pc[t] = "exit"
    BY DEF SyncOnePlace
  <2>1. \A k \in Sound : k \in Queues /\ (t \in Waiting(wq[k]) <=> t \in Asleep(k))
    BY <1>1, QueueFacts DEF Waiting
  <2>2. \A k \in Queues : t \in Asleep(k) => k \in Sound
    BY <1>1 DEF SyncIInv, WaitersIntact
  <2>3. pc[t] \in {"sleep", "acquire_sleep", "cv_sleep"} <=>
            \E k \in Queues : pc[t] = SleepPC[k]
    BY SleepNames DEF Queues
  <2>4. t \in Zombies <=> pc[t] = "exit"
    BY <1>1, SyncExitArrayFacts
  <2>5. \A k \in Sound : t \in Asleep(k) => t # current_thread /\ t \notin Listed(ready)
    BY DEF Asleep
  <2>6. ASSUME t # current_thread
        PROVE  (t \in Listed(ready) \/ \E k \in Sound : t \in Asleep(k)) <=>
                 pc[t] \in Suspended
    <3>1. CASE t \in Listed(ready)
      BY <1>1, <3>1 DEF SyncIInv, Placed
    <3>2. CASE t \notin Listed(ready)
      <4>1. \A k \in Queues : t \in Asleep(k) <=> pc[t] = SleepPC[k]
        BY <2>6, <3>2 DEF Asleep
      <4>2. pc[t] \notin {"stub", "yield"}
        BY <1>1, <2>6, <3>2 DEF SyncIInv, Placed
      <4>. QED
        BY <2>1, <2>2, <2>3, <3>2, <4>1, <4>2 DEF Suspended
    <3>. QED
      BY <3>1, <3>2
  <2>7. \A j, k \in Sound : t \in Asleep(j) /\ t \in Asleep(k) => j = k
    BY <2>1, SleepNames DEF Asleep
  <2>. QED
    BY <1>1, <2>1, <2>4, <2>5, <2>6, <2>7 DEF SyncIInv, Placed, Suspended
<1>. QED
  BY <1>1, SyncInvariance, PTL

(* lock_acquire and cv_wait never let two threads through: a woken waiter  *)
(* goes back to the `while' of lock_acquire and tests lock->l again.       *)
THEOREM LockExclusive ==
    ASSUME ExitFill = Nil, Rules = EveryRule
    PROVE  SyncSpec => []MutualExclusion
<1>1. SyncIInv /\ HolderShape => MutualExclusion
  BY DEF HolderShape, MutualExclusion
<1>. QED
  BY <1>1, HolderInvariance, PTL

(* Nobody is left asleep on a free lock: lock_release and cv_wait wake all *)
(* of its waiters, and the signal is blocked from the test of lock->l to   *)
(* the sleep.                                                              *)
THEOREM NoLostRelease ==
    ASSUME ExitFill = Nil, DestroyRules
    PROVE  SyncSpec => []NoSleepOnFreeLock
<1>1. SyncIInv => NoSleepOnFreeLock
  BY DEF SyncIInv, LockShape, NoSleepOnFreeLock
<1>. QED
  BY <1>1, SyncInvariance, PTL

(* lock_acquire never spins with the signal blocked: whenever it finds the *)
(* lock taken, the holder is in the ready queue and thread_sleep has       *)
(* somebody to switch to.                                                  *)
THEOREM NoSpin ==
    ASSUME ExitFill = Nil, Rules = EveryRule
    PROVE  SyncSpec => []HolderRunnable
<1>1. ASSUME SyncIInv, HolderShape PROVE HolderRunnable
  <2>1. l = 1 => acquired_thread_id = current_thread \/ acquired_thread_id \in Listed(ready)
    BY <1>1, HolderFacts
  <2>2. pc[current_thread] = "acquire" /\ l = 1 => acquired_thread_id # current_thread
    BY <1>1, HolderFacts
  <2>3. Listed(ready) # {} => ~Empty(ready)
    BY <1>1, QueueFacts
  <2>. QED
    BY <2>1, <2>2, <2>3 DEF HolderRunnable
<1>. QED
  BY <1>1, HolderInvariance, PTL

-----------------------------------------------------------------------------
(***************************************************************************)
(* The wait queues, the lock and the condition variable implement Monitor, *)
(* when clients keep all the rules of Sync: each queue of thread.c carries *)
(* out a first-in first-out queue, also where one is spliced behind        *)
(* another.                                                                *)
(***************************************************************************)

(* Waking everybody puts one sequence behind the other.                    *)

LEMMA SpliceOrder ==
    ASSUME NEW r \in List, NEW s, Chain(r, s),
           NEW q \in List, NEW u, Chain(q, u),
           Listed(r) \cap Listed(q) = {}
    PROVE  Chain(Splice(r, q), s \o u)
<1>. DEFINE p == Splice(r, q)
            m == Len(s)
            n == Len(u)
            z == s \o u
<1>1. /\ s \in Seq(Tid) /\ m \in Nat /\ \A i \in 1 .. m : s[i] \in Tid /\ s[i] # Nil
      /\ u \in Seq(Tid) /\ n \in Nat /\ \A i \in 1 .. n : u[i] \in Tid /\ u[i] # Nil
      /\ Listed(r) = {s[i] : i \in 1 .. m} /\ Listed(q) = {u[i] : i \in 1 .. n}
  BY ChainElements, ChainListed
<1>2. /\ s = <<>> <=> Empty(r)
      /\ u = <<>> <=> Empty(q)
      /\ s = <<>> <=> m = 0
      /\ u = <<>> <=> n = 0
  BY <1>1, ChainEmpty
<1>3. CASE u = <<>>
  <2>1. s \o u = s /\ p = r
    BY <1>1, <1>2, <1>3, ConcatEmptySeq DEF Splice
  <2>. QED
    BY <2>1
<1>4. CASE u # <<>>
  <2>1. /\ p.head = IF s = <<>> THEN q.head ELSE r.head
        /\ p.tail = q.tail
        /\ \A t \in Tid : p.next[t] = IF t \in Listed(q) THEN q.next[t]
                                      ELSE IF t = r.tail THEN q.head
                                      ELSE r.next[t]
    BY <1>2, <1>4 DEF Splice, Waiting
  <2>2. /\ z \in Seq(Tid) /\ Len(z) = m + n
        /\ \A i \in 1 .. m + n : z[i] = IF i <= m THEN s[i] ELSE u[i - m]
    <3>1. s \in Seq(Tid) /\ u \in Seq(Tid)
      BY <1>1
    <3>. QED
      BY <3>1, ConcatProperties, Zenon
  <2>. HIDE DEF p, z
  <2>3. /\ \A i, j \in 1 .. m : s[i] = s[j] => i = j
        /\ \A i, j \in 1 .. n : u[i] = u[j] => i = j
        /\ \A i \in 1 .. m, j \in 1 .. n : s[i] # u[j]
    <3>1. \A i \in 1 .. m : s[i] \in Listed(r)
      BY <1>1
    <3>2. \A j \in 1 .. n : u[j] \in Listed(q)
      BY <1>1
    <3>3. \A i \in 1 .. m, j \in 1 .. n : s[i] # u[j]
      BY <3>1, <3>2
    <3>. QED
      BY <3>3 DEF Chain
  <2>4. /\ q.head = u[1] /\ q.tail = u[n] /\ n > 0
        /\ \A i \in 1 .. n : q.next[u[i]] = IF i = n THEN Nil ELSE u[i + 1]
    BY <1>1, <1>2, <1>4 DEF Chain
  <2>5. /\ s # <<>> => r.head = s[1] /\ r.tail = s[m] /\ m > 0
        /\ s = <<>> => m = 0
        /\ \A i \in 1 .. m : r.next[s[i]] = IF i = m THEN Nil ELSE s[i + 1]
    BY <1>1, <1>2 DEF Chain
  <2>6. \A i, j \in 1 .. m + n : z[i] = z[j] => i = j
    <3>. SUFFICES ASSUME NEW i \in 1 .. m + n, NEW j \in 1 .. m + n, z[i] = z[j]
                  PROVE  i = j
      OBVIOUS
    <3>1. CASE i <= m /\ j <= m
      BY <1>1, <2>2, <2>3, <3>1
    <3>2. CASE ~(i <= m) /\ ~(j <= m)
      <4>1. i - m \in 1 .. n /\ j - m \in 1 .. n
        BY <1>1, <3>2
      <4>. QED
        BY <1>1, <2>2, <2>3, <3>2, <4>1
    <3>3. CASE i <= m /\ ~(j <= m)
      <4>1. i \in 1 .. m /\ j - m \in 1 .. n
        BY <1>1, <3>3
      <4>. QED
        BY <2>2, <2>3, <3>3, <4>1
    <3>4. CASE ~(i <= m) /\ j <= m
      <4>1. i - m \in 1 .. n /\ j \in 1 .. m
        BY <1>1, <3>4
      <4>. QED
        BY <2>2, <2>3, <3>4, <4>1
    <3>. QED
      BY <3>1, <3>2, <3>3, <3>4
  <2>7. p.head = z[1]
    BY <1>1, <2>1, <2>2, <2>4, <2>5
  <2>8. p.tail = z[m + n]
    BY <1>1, <2>1, <2>2, <2>4
  <2>9. ASSUME NEW i \in 1 .. m + n
        PROVE  p.next[z[i]] = IF i = m + n THEN Nil ELSE z[i + 1]
    <3>1. CASE i <= m
      <4>1. i \in 1 .. m /\ i # m + n /\ i + 1 \in 1 .. m + n /\ m > 0
        BY <1>1, <2>4, <3>1
      <4>2. z[i] = s[i] /\ s[i] \in Tid /\ s[i] \notin Listed(q) /\ r.tail = s[m]
        BY <1>1, <2>2, <2>3, <2>5, <3>1, <4>1
      <4>3. CASE i = m
        <5>1. z[i + 1] = u[1]
          BY <1>1, <2>2, <4>1, <4>3
        <5>. QED
          BY <2>1, <2>4, <4>1, <4>2, <4>3, <5>1
      <4>4. CASE i # m
        <5>1. i + 1 \in 1 .. m /\ z[i + 1] = s[i + 1] /\ m \in 1 .. m
          BY <1>1, <2>2, <4>1, <4>4
        <5>2. s[i] # r.tail
          BY <2>3, <4>1, <4>2, <4>4, <5>1
        <5>. QED
          BY <2>1, <2>5, <4>1, <4>2, <4>4, <5>1, <5>2
      <4>. QED
        BY <4>3, <4>4
    <3>2. CASE ~(i <= m)
      <4>1. i - m \in 1 .. n /\ (i = m + n <=> i - m = n)
        BY <1>1, <3>2
      <4>2. z[i] = u[i - m] /\ z[i] \in Tid /\ z[i] \in Listed(q)
        BY <1>1, <2>2, <3>2, <4>1
      <4>3. p.next[z[i]] = IF i - m = n THEN Nil ELSE u[(i - m) + 1]
        BY <2>1, <2>4, <4>1, <4>2
      <4>4. i # m + n => z[i + 1] = u[(i - m) + 1]
        BY <1>1, <2>2, <3>2
      <4>. QED
        BY <4>1, <4>3, <4>4
    <3>. QED
      BY <3>1, <3>2
  <2>10. z # <<>>
    BY <1>1, <2>2, <2>4
  <2>11. Chain(p, z)
    BY <2>2, <2>6, <2>7, <2>8, <2>9, <2>10 DEF Chain
  <2>. QED
    BY <2>11 DEF p, z
<1>. QED
  BY <1>3, <1>4

-----------------------------------------------------------------------------
(***************************************************************************)
(* SyncIInv says which threads a queue holds; here also their order        *)
(* matters.                                                                *)
(***************************************************************************)
SyncOrdered ==
    /\ Chain(ready, Walk(ready))
    /\ \A k \in Sound : Chain(wq[k], Walk(wq[k]))

MInv == SyncIInv /\ SyncOrdered

(* The variables of Monitor as functions of those of Sync. *)
Waiters  == [k \in Queues |-> Order(k)]
Sleeping == {t \in Tid : \E k \in Sound : t \in Waiting(wq[k])}
Wanters  == {t \in Tid : pc[t] \in Wanting}
Owner    == IF l = 1 THEN acquired_thread_id ELSE Nil

LEMMA AbstractQueues ==
    ASSUME MInv
    PROVE  /\ ready \in List /\ WellFormed(ready)
           /\ Mon!ToSet(Walk(ready)) = Listed(ready)
           /\ Walk(ready) \in Seq(Tid)
           /\ Walk(ready) = <<>> <=> Empty(ready)
           /\ ~Empty(ready) => /\ Head(Walk(ready)) = ready.head
                               /\ ready.head \in Listed(ready)
           /\ \A k \in Queues : Order(k) \in Seq(Tid)
           /\ \A k \in Sound : /\ Order(k) = Walk(wq[k])
                               /\ Mon!ToSet(Order(k)) = Listed(wq[k])
                               /\ Order(k) = <<>> <=> Empty(wq[k])
                               /\ ~Empty(wq[k]) => /\ Head(Order(k)) = wq[k].head
                                                   /\ wq[k].head \in Listed(wq[k])
<1>1. /\ ready \in List /\ WellFormed(ready) /\ Sound \subseteq Queues
      /\ \A k \in Sound : wq[k] \in List
  BY QueueFacts DEF MInv
<1>2. /\ Mon!ToSet(Walk(ready)) = Listed(ready)
      /\ Walk(ready) \in Seq(Tid)
      /\ Walk(ready) = <<>> <=> Empty(ready)
      /\ ~Empty(ready) => /\ Head(Walk(ready)) = ready.head
                          /\ ready.head \in Listed(ready)
  BY <1>1, ChainQueue DEF Mon!ToSet, MInv, SyncOrdered
<1>3. ASSUME NEW k \in Sound
      PROVE  /\ Order(k) = Walk(wq[k])
             /\ Order(k) \in Seq(Tid)
             /\ Mon!ToSet(Order(k)) = Listed(wq[k])
             /\ Order(k) = <<>> <=> Empty(wq[k])
             /\ ~Empty(wq[k]) => /\ Head(Order(k)) = wq[k].head
                                 /\ wq[k].head \in Listed(wq[k])
  <2>1. Order(k) = Walk(wq[k])
    BY DEF Order
  <2>2. wq[k] \in List /\ Chain(wq[k], Walk(wq[k]))
    BY <1>1 DEF MInv, SyncOrdered
  <2>. QED
    BY <2>1, <2>2, ChainQueue DEF Mon!ToSet
<1>4. \A k \in Queues : k \notin Sound => Order(k) \in Seq(Tid)
  BY EmptySeq DEF Order
<1>. QED
  BY <1>1, <1>2, <1>3, <1>4

(* Monitor keeps the threads that wait as a set, too. *)
LEMMA SleepingFact ==
    ASSUME MInv
    PROVE  Sleeping = UNION {Mon!ToSet(Waiters[k]) : k \in Queues}
<1>1. \A k \in Queues : k \in Sound => Mon!ToSet(Waiters[k]) = Listed(wq[k])
  BY AbstractQueues DEF Waiters
<1>2. \A k \in Queues : k \notin Sound => Mon!ToSet(Waiters[k]) = {}
  BY DEF Waiters, Order, Mon!ToSet
<1>3. Sound \subseteq Queues /\ \A k \in Sound : Listed(wq[k]) \subseteq Tid
  BY QueueFacts, ListedClosed DEF MInv
<1>. QED
  BY <1>1, <1>2, <1>3 DEF Sleeping, Waiting

LEMMA SleepingAfter ==
    MInv' => Sleeping' = UNION {Mon!ToSet(Waiters'[k]) : k \in Queues}
<1>1. MInv => Sleeping = UNION {Mon!ToSet(Waiters[k]) : k \in Queues}
  BY SleepingFact
<1>2. MInv' => (Sleeping = UNION {Mon!ToSet(Waiters[k]) : k \in Queues})'
  BY <1>1, PTL
<1>. QED
  BY <1>2

LEMMA SyncUnlinkOrder ==
    ASSUME MInv, NEW w \in Listed(ready)
    PROVE  LET r == Unlink(ready, w)
           IN  /\ r \in List /\ Chain(r, Mon!Remove1(w))
               /\ Listed(r) = Listed(ready) \ {w}
               /\ w = ready.head => Chain(r, Tail(Walk(ready)))
<1>1. ready \in List /\ WellFormed(ready) /\ Chain(ready, Walk(ready))
  BY QueueFacts DEF MInv, SyncOrdered
<1>2. Mon!Remove1(w) =
          Without(Walk(ready), CHOOSE i \in DOMAIN Walk(ready) : Walk(ready)[i] = w)
  BY Zenon DEF Mon!Remove1, Mon!RemoveAt, Without
<1>. QED
  BY <1>1, <1>2, ChainRemove

(* Nothing waits to be reaped, and nobody sleeps on its own processor,     *)
(* while client code or lock_acquire runs.                                 *)
LEMMA SyncRunningFacts ==
    ASSUME MInv, pc[current_thread] \in {"user", "acquire"}
    PROVE  /\ Zombies = {} /\ exit_array[0] = Nil /\ current_thread \in Tid
           /\ \A t \in Tid \ {0} : thread_state[t] # EXIT
           /\ current_thread \in Wanters <=> pc[current_thread] = "acquire"
<1>1. exit_array[0] = Nil /\ current_thread \in Tid
  BY DEF MInv, SyncIInv, SyncTypeOK, SyncExitArrayShape
<1>2. Zombies = {} /\ \A t \in Tid : pc[t] # "exit"
  BY <1>1, SyncExitArrayFacts, TidFacts DEF MInv, SyncIInv, SyncExitArrayShape
<1>3. \A t \in Tid \ {0} : thread_state[t] # EXIT
  BY <1>2 DEF MInv, SyncIInv, StacksOwned, EXIT, READY, NONE_STATE
<1>. QED
  BY <1>1, <1>2, <1>3 DEF Wanters, Wanting

-----------------------------------------------------------------------------
(* The calls of Threads.  They touch neither the wait queues nor the lock. *)

LEMMA QueuesKept ==
    ASSUME MInv, UNCHANGED syncVars, Chain(ready', Walk(ready'))
    PROVE  SyncOrdered'
BY DEF MInv, SyncOrdered, Sound, syncVars

LEMMA SameWaiters ==
    ASSUME UNCHANGED <<wq, live, spoiled>>
    PROVE  Waiters' = Waiters /\ Sleeping' = Sleeping
BY DEF Waiters, Sleeping, Order, Sound

(* A killed thread is the only one that can stop wanting the lock.         *)
LEMMA CallScheduled ==
    ASSUME MInv, Running, UNCHANGED syncVars, Mon!Call, SyncOrdered', ready' \in List,
           NEW lost \in SUBSET Listed(ready),
           Wanters' = Wanters \ lost,
           lost \cap Listed(ready') = {}, current_thread' \notin lost
    PROVE  Mon!Scheduling
<1>1. Mon!ToSet(Walk(ready)) = Listed(ready)
  BY AbstractQueues
<1>2. Mon!ToSet(Walk(ready')) = Listed(ready')
  BY ChainQueue DEF Mon!ToSet, SyncOrdered
<1>3. Zombies = {} /\ current_thread \notin Wanters /\ pc[current_thread] # "halt"
  BY SyncRunningFacts DEF Running
<1>4. Waiters' = Waiters /\ Sleeping' = Sleeping /\ Owner' = Owner
  BY SameWaiters DEF syncVars, Owner
<1>5. Mon!Next
  BY <1>3, <1>4 DEF Mon!Next, Sleeping
<1>6. Wanters \ Wanters' \subseteq
         Mon!ToSet(Walk(ready)) \ (Mon!ToSet(Walk(ready')) \cup {current_thread'})
  BY <1>1, <1>2
<1>. QED
  BY <1>3, <1>4, <1>5, <1>6
     DEF Mon!Scheduling, Waiters, Owner, Wanters, Wanting

LEMMA SyncSwitchSimulated ==
    ASSUME MInv, NEW w \in Listed(ready), SwitchTo(w), UNCHANGED syncVars, Running
    PROVE  /\ SyncOrdered' /\ ready' \in List /\ Wanters' = Wanters
           /\ Zombies' = Zombies
           /\ Mon!Switch(w)
<1>. DEFINE u == Unlink(ready, w)
            z == Append(Mon!Remove1(w), current_thread)
<1>0. Zombies' = Zombies /\ pc[current_thread] = "user"
  BY DEF Zombies, SwitchTo, Running
<1>1. /\ u \in List /\ Chain(u, Mon!Remove1(w)) /\ Listed(u) = Listed(ready) \ {w}
      /\ WellFormed(u)
  BY SyncUnlinkOrder, UnlinkFacts, AbstractQueues
<1>2. current_thread \in Tid /\ current_thread \notin Listed(u)
  BY <1>1, QueueFacts DEF MInv
<1>3. ready' \in List
  BY <1>1, <1>2, EnqueueFacts DEF SwitchTo
<1>4. Chain(ready', z)
  BY <1>1, <1>2, ChainEnqueue DEF SwitchTo
<1>5. Walk(ready') = z /\ Chain(ready', Walk(ready'))
  BY <1>3, <1>4, OrderedBy
<1>6. pc'[w] # "halt" /\ pc[current_thread] # "halt" /\ current_thread' = w
  BY <1>0, QueueFacts DEF MInv, SyncIInv, SyncTypeOK, Placed, Suspended, SwitchTo
<1>7. Wanters' = Wanters
  BY <1>0, <1>2 DEF Wanters, Wanting, SwitchTo, MInv, SyncIInv, SyncTypeOK
<1>8. Mon!Switch(w)
  BY <1>0, <1>5, <1>6 DEF Mon!Switch
<1>. QED
  BY <1>0, <1>3, <1>5, <1>7, <1>8, QueuesKept

LEMMA SyncCreateSimulated ==
    ASSUME MInv, thread_create, UNCHANGED syncVars
    PROVE  SyncOrdered' /\ Mon!Scheduling
<1>1. Mon!InUse = {t \in Tid : pc[t] # "free"}
  <2>1. Mon!InUse = {current_thread} \cup Listed(ready) \cup Zombies \cup Sleeping
    BY AbstractQueues DEF Mon!InUse, Sleeping
  <2>2. ASSUME NEW t \in Tid
        PROVE  pc[t] # "free" <=> t \in {current_thread} \cup Listed(ready) \cup Zombies \cup Sleeping
    <3>1. t \in Zombies <=> pc[t] = "exit"
      BY SyncExitArrayFacts DEF MInv
    <3>2. t \in Sleeping <=> \E k \in Sound : t \in Asleep(k)
      BY QueueFacts DEF Sleeping, Waiting, MInv
    <3>3. (\E k \in Sound : t \in Asleep(k)) <=>
             /\ pc[t] \in {"sleep", "acquire_sleep", "cv_sleep"}
             /\ t # current_thread /\ t \notin Listed(ready)
      <4>1. \A k \in Queues : k \notin Sound => Asleep(k) = {}
        BY DEF MInv, SyncIInv, WaitersIntact
      <4>2. Sound \subseteq Queues
        BY QueueFacts DEF MInv
      <4>. QED
        BY <4>1, <4>2, SleepNames DEF Asleep, Queues
    <3>4. pc[t] \in SyncPCs
      BY DEF MInv, SyncIInv, SyncTypeOK
    <3>. QED
      BY <3>1, <3>2, <3>3, <3>4 DEF MInv, SyncIInv, Placed, Suspended, SyncPCs, PCs
  <2>3. {current_thread} \cup Listed(ready) \cup Zombies \cup Sleeping \subseteq Tid
    BY QueueFacts DEF MInv, Zombies, Sleeping
  <2>. QED
    BY <2>1, <2>2, <2>3
<1>2. \A t \in Tid : Available(t) <=> t # 0 /\ pc[t] = "free"
  BY DEF MInv, SyncIInv, StacksOwned, Available, READY, EXIT, NONE_STATE
<1>3. /\ Zombies' = Zombies /\ Mon!Tid = Tid /\ pc[current_thread] = "user"
      /\ UNCHANGED <<exit_array, current_thread>>
  BY DEF thread_create, Zombies, Mon!Tid, Tid, Running
<1>4. CASE UNCHANGED <<ready, pc>> /\ ret' \in {"nomore", "nomemory"}
  <2>1. SyncOrdered'
    BY <1>4, QueuesKept DEF MInv, SyncOrdered
  <2>2. Mon!Create
    <3>2. CASE (\A t \in Tid : ~Available(t)) /\ ret' = "nomore"
      <4>1. Tid \ {0} \subseteq Mon!InUse
        BY <1>1, <1>2, <3>2
      <4>. QED
        BY <1>3, <1>4, <3>2, <4>1 DEF Mon!Create
    <3>3. CASE (\E t \in Tid : Available(t)) /\ ret' = "nomemory"
      <4>1. ~(Tid \ {0} \subseteq Mon!InUse)
        BY <1>1, <1>2, <3>3
      <4>. QED
        BY <1>3, <1>4, <3>3, <4>1 DEF Mon!Create
    <3>. QED
      BY <1>4, <3>2, <3>3 DEF thread_create
  <2>3. Wanters' = Wanters \ {}
    BY <1>4 DEF Wanters
  <2>4. Mon!Call /\ Running /\ ready' \in List
    BY <1>4, <2>2, AbstractQueues DEF Mon!Call, thread_create
  <2>. QED
    BY <2>1, <2>3, <2>4, CallScheduled
<1>5. ASSUME NEW t \in Tid, Available(t), ready' = LinkAtTail(ready, t),
             pc' = [pc EXCEPT ![t] = "stub"], ret' = "ok"
      PROVE  SyncOrdered' /\ Mon!Scheduling
  <2>1. t \notin Listed(ready) /\ t # current_thread /\ ready.next[t] = Nil /\ t # 0 /\ pc[t] = "free"
    BY <1>2, <1>5, AbstractQueues DEF MInv, SyncIInv, Placed, Suspended, WellFormed
  <2>2. ready \in List /\ Chain(ready, Walk(ready)) /\ WellFormed(ready)
    BY AbstractQueues DEF MInv, SyncOrdered
  <2>3. Chain(ready', Append(Walk(ready), t)) /\ ready' \in List
    BY <1>5, <2>1, <2>2, ChainEnqueue, LinkAtTailFacts
  <2>4. Walk(ready') = Append(Walk(ready), t) /\ SyncOrdered'
    BY <2>3, OrderedBy, QueuesKept
  <2>5. t \in Mon!Tid \ ({0} \cup Mon!InUse)
    BY <1>1, <1>3, <2>1
  <2>6. pc'[current_thread] = pc[current_thread] /\ pc \in [Tid -> SyncPCs]
    BY <1>5, <2>1, QueueFacts DEF MInv, SyncIInv, SyncTypeOK
  <2>7. Mon!Call
    BY <1>3, <1>5, <2>4, <2>5, <2>6 DEF Mon!Create, Mon!Call
  <2>8. Wanters' = Wanters \ {}
    BY <1>5, <2>1, <2>6 DEF Wanters, Wanting
  <2>. QED
    BY <1>3, <2>3, <2>4, <2>7, <2>8, CallScheduled DEF Running
<1>6. \/ UNCHANGED <<ready, pc>> /\ ret' \in {"nomore", "nomemory"}
      \/ \E t \in Tid : /\ Available(t) /\ ready' = LinkAtTail(ready, t)
                        /\ pc' = [pc EXCEPT ![t] = "stub"] /\ ret' = "ok"
  BY DEF thread_create
<1>. QED
  BY <1>4, <1>5, <1>6

LEMMA SyncYieldSimulated ==
    ASSUME MInv, NEW want \in WantTids, thread_yield(want), UNCHANGED syncVars
    PROVE  SyncOrdered' /\ Mon!Scheduling
<1>1. Running /\ Zombies' = Zombies /\ pc[current_thread] = "user"
  BY DEF thread_yield, SwitchTo, Zombies, Running
<1>. DEFINE codes == want \in {THREAD_SELF, current_thread}
            who   == IF want = THREAD_ANY THEN ready.head ELSE want
<1>2. CASE /\ UNCHANGED <<ready, current_thread, pc>>
           /\ \/ codes /\ ret' = "ok"
              \/ /\ ~codes /\ ~CanRun(want)
                 /\ ret' = IF want = THREAD_ANY THEN "none" ELSE "invalid"
  <2>1. SyncOrdered' /\ Wanters' = Wanters \ {} /\ ready' \in List
    BY <1>2, QueuesKept, AbstractQueues DEF MInv, SyncOrdered, Wanters
  <2>2. CASE codes /\ ret' = "ok"
    <3>1. Mon!Yield(want)
      BY <1>1, <1>2, <2>2 DEF Mon!Yield, THREAD_SELF, Mon!THREAD_SELF
    <3>. QED
      BY <1>1, <2>1, <3>1, CallScheduled DEF Mon!Call
  <2>3. CASE want = THREAD_ANY /\ Empty(ready) /\ ret' = "none"
    <3>1. Walk(ready) = <<>>
      BY <2>3, AbstractQueues
    <3>2. Mon!Yield(want)
      BY <1>1, <1>2, <2>3, <3>1 DEF Mon!Yield, THREAD_ANY, Mon!THREAD_ANY
    <3>. QED
      BY <1>1, <2>1, <3>2, CallScheduled DEF Mon!Call
  <2>4. CASE /\ want # THREAD_ANY /\ ~codes /\ want \notin Listed(ready)
             /\ ret' = "invalid"
    <3>1. want \notin Mon!ToSet(Walk(ready))
      BY <2>4, AbstractQueues
    <3>2. Mon!Yield(want)
      BY <1>1, <1>2, <2>4, <3>1
         DEF Mon!Yield, THREAD_ANY, THREAD_SELF, Mon!THREAD_ANY, Mon!THREAD_SELF
    <3>. QED
      BY <1>1, <2>1, <3>2, CallScheduled DEF Mon!Call
  <2>. QED
    BY <1>2, <2>2, <2>3, <2>4 DEF CanRun
<1>3. CASE ~codes /\ CanRun(want) /\ ret' = "ok" /\ SwitchTo(who)
  <2>1. who \in Listed(ready)
    BY <1>3, AbstractQueues DEF CanRun
  <2>2. /\ SyncOrdered' /\ ready' \in List /\ Wanters' = Wanters \ {}
        /\ Mon!Switch(who)
    BY <1>1, <1>3, <2>1, SyncSwitchSimulated
  <2>3. CASE want = THREAD_ANY
    <3>1. Walk(ready) # <<>> /\ who = Head(Walk(ready))
      BY <1>3, <2>3, AbstractQueues DEF CanRun
    <3>2. Mon!Yield(want)
      BY <1>3, <2>2, <2>3, <3>1 DEF Mon!Yield, THREAD_ANY, Mon!THREAD_ANY
    <3>. QED
      BY <1>1, <2>2, <3>2, CallScheduled DEF Mon!Call
  <2>4. CASE want # THREAD_ANY
    <3>1. want \in Mon!ToSet(Walk(ready)) /\ who = want
      BY <2>1, <2>4, AbstractQueues
    <3>2. Mon!Yield(want)
      BY <1>3, <2>2, <3>1 DEF Mon!Yield
    <3>. QED
      BY <1>1, <2>2, <3>2, CallScheduled DEF Mon!Call
  <2>. QED
    BY <2>3, <2>4
<1>. QED
  BY <1>2, <1>3 DEF thread_yield

LEMMA SyncPreemptSimulated ==
    ASSUME MInv, interrupt_handler, UNCHANGED syncVars
    PROVE  SyncOrdered' /\ Mon!Scheduling
<1>1. /\ Running /\ ready.head \in Listed(ready)
      /\ Walk(ready) # <<>> /\ ready.head = Head(Walk(ready))
  BY AbstractQueues DEF interrupt_handler
<1>2. /\ SyncOrdered' /\ ready' \in List /\ Wanters' = Wanters \ {}
      /\ Mon!Switch(ready.head)
  BY <1>1, SyncSwitchSimulated DEF interrupt_handler
<1>3. Mon!Preempt
  BY <1>1, <1>2 DEF interrupt_handler, Mon!Preempt
<1>. QED
  BY <1>1, <1>2, <1>3, CallScheduled DEF Mon!Call

LEMMA SyncExitSimulated ==
    ASSUME MInv, thread_exit \/ thread_stub_return, UNCHANGED syncVars
    PROVE  SyncOrdered' /\ Mon!Scheduling
<1>0. /\ Zombies = {} /\ exit_array[0] = Nil
      /\ pc[current_thread] = "user" /\ current_thread \in Tid
      /\ pc \in [Tid -> SyncPCs] /\ Running
  BY SyncRunningFacts DEF thread_exit, thread_stub_return, Running, MInv, SyncIInv, SyncTypeOK
<1>1. CASE ~Empty(ready) /\ ExitTo(ready.head)
  <2>. DEFINE w == ready.head
  <2>1. /\ ready \in List /\ w \in Listed(ready)
        /\ Walk(ready) # <<>> /\ w = Head(Walk(ready))
    BY <1>1, AbstractQueues
  <2>2. ready' \in List /\ Chain(ready', Tail(Walk(ready)))
    BY <1>1, <2>1, SyncUnlinkOrder DEF ExitTo
  <2>3. Walk(ready') = Tail(Walk(ready)) /\ SyncOrdered'
    BY <2>2, OrderedBy, QueuesKept
  <2>4. Zombies' = {current_thread}
    <3>1. exit_array' = [i \in Tid |-> IF i = 0 THEN current_thread ELSE exit_array[i]]
      BY <1>0, <1>1, SyncExitArrayFacts DEF MInv, ExitTo, PutInExitArray
    <3>2. \A i \in Tid \ {0} : exit_array[i] = Nil
      BY DEF MInv, SyncIInv, SyncExitArrayShape
    <3>. QED
      BY <1>0, <3>1, <3>2, TidFacts DEF Zombies
  <2>5. pc'[w] # "halt" /\ current_thread' = w
    BY <1>0, <1>1, <2>1, QueueFacts DEF ExitTo, MInv, SyncIInv, Placed, Suspended
  <2>6. Wanters' = Wanters \ {}
    BY <1>0, <1>1 DEF Wanters, Wanting, ExitTo
  <2>7. Mon!Exit
    BY <1>0, <1>1, <2>1, <2>3, <2>4, <2>5 DEF Mon!Exit, ExitTo
  <2>. QED
    BY <1>0, <2>2, <2>3, <2>6, <2>7, CallScheduled DEF Mon!Call
<1>2. CASE /\ Empty(ready) /\ ret' = "none" /\ UNCHANGED <<ready, exit_array, current_thread>>
           /\ (UNCHANGED pc \/ pc' = [pc EXCEPT ![current_thread] = "halt"])
  <2>1. Walk(ready) = <<>> /\ SyncOrdered' /\ Zombies' = Zombies /\ ready' \in List
    BY <1>2, AbstractQueues, QueuesKept DEF MInv, SyncOrdered, Zombies
  <2>2. Wanters' = Wanters \ {}
    BY <1>0, <1>2 DEF Wanters, Wanting
  <2>3. Mon!Exit
    BY <1>2, <2>1 DEF Mon!Exit
  <2>. QED
    BY <1>0, <2>1, <2>2, <2>3, CallScheduled DEF Mon!Call
<1>. QED
  BY <1>1, <1>2 DEF thread_exit, thread_stub_return

LEMMA SyncKillSimulated ==
    ASSUME MInv, NEW tid \in KillTids, thread_kill(tid), UNCHANGED syncVars
    PROVE  SyncOrdered' /\ Mon!Scheduling
<1>0. /\ pc[current_thread] = "user" /\ current_thread \in Tid /\ Running
      /\ \A t \in Tid \ {0} : thread_state[t] # EXIT
      /\ pc \in [Tid -> SyncPCs]
  BY SyncRunningFacts DEF thread_kill, Running, MInv, SyncIInv, SyncTypeOK
<1>1. Zombies' = Zombies
  BY DEF Zombies, thread_kill, KillReady
<1>2. CASE Killable(tid) /\ KillReady(tid)
  <2>1. tid \in Listed(ready) /\ tid # current_thread /\ tid \in Tid
    BY <1>2 DEF Killable
  <2>2. /\ ready' \in List /\ Chain(ready', Mon!Remove1(tid))
        /\ Listed(ready') = Listed(ready) \ {tid}
    BY <1>2, <2>1, SyncUnlinkOrder DEF KillReady
  <2>3. Walk(ready') = Mon!Remove1(tid) /\ SyncOrdered'
    BY <2>2, OrderedBy, QueuesKept
  <2>4. tid \in Mon!ToSet(Walk(ready))
    BY <2>1, AbstractQueues
  <2>5. current_thread' = current_thread /\ pc'[current_thread] = pc[current_thread]
    BY <1>0, <1>2, <2>1 DEF KillReady
  <2>6. Mon!Kill(tid)
    BY <1>1, <1>2, <2>3, <2>4, <2>5 DEF Mon!Kill, KillReady
  <2>7. Wanters' = Wanters \ {tid}
    BY <1>0, <1>2, <2>1 DEF Wanters, Wanting, KillReady
  <2>. QED
    BY <1>0, <2>1, <2>2, <2>3, <2>5, <2>6, <2>7, CallScheduled DEF Mon!Call
<1>3. CASE /\ ~Killable(tid) /\ ret' \in KillRefused(tid)
           /\ UNCHANGED <<ready, current_thread, pc>>
  <2>1. SyncOrdered' /\ Wanters' = Wanters \ {} /\ ready' \in List
    BY <1>3, QueuesKept, AbstractQueues DEF MInv, SyncOrdered, Wanters
  <2>2. Mon!Kill(tid)
    <3>1. CASE OutsideArray(tid) \/ tid = 0
      <4>1. tid \in KillsOtherwise
        BY <3>1 DEF KillsOtherwise
      <4>2. ret' \in {"ok", "invalid"}
        BY <1>3 DEF KillRefused
      <4>. QED
        BY <1>1, <1>3, <4>1, <4>2 DEF Mon!Kill
    <3>2. CASE ~OutsideArray(tid) /\ tid # 0
      <4>1. ret' = "invalid"
        BY <1>0, <1>3, <3>2 DEF KillRefused
      <4>2. tid \notin Listed(ready)
        BY <1>3, <3>2, QueueFacts
           DEF Killable, MInv, SyncIInv, Placed, Suspended, StacksOwned, READY, EXIT, NONE_STATE
      <4>3. tid \notin Mon!ToSet(Walk(ready))
        BY <4>2, AbstractQueues
      <4>. QED
        BY <1>1, <1>3, <4>1, <4>3 DEF Mon!Kill
    <3>. QED
      BY <3>1, <3>2
  <2>. QED
    BY <1>0, <1>3, <2>1, <2>2, CallScheduled DEF Mon!Call
<1>. QED
  BY <1>2, <1>3 DEF thread_kill

(* A thread that goes on after a reaping; a woken one still wants what it  *)
(* wanted.                                                                 *)
LEMMA GoesOnSimulated ==
    ASSUME MInv, (Resume /\ UNCHANGED syncVars) \/ sleep_return
    PROVE  SyncOrdered' /\ (Mon!Scheduling \/ UNCHANGED <<Mon!vars, Mon!monitorVars>>)
<1>1. /\ clean_exit_array /\ UNCHANGED <<current_thread, ret, syncVars>>
      /\ pc[current_thread] # "halt" /\ pc'[current_thread] # "halt"
      /\ current_thread \in Tid
  BY QueueFacts DEF Resume, sleep_return, MInv
<1>2. ready' = ready
  BY <1>1, ReapReady DEF MInv
<1>3. Zombies' = {}
  <2>1. \A i \in Tid : exit_array'[i] = Nil
    BY <1>1, SyncExitArrayFacts DEF MInv, clean_exit_array
  <2>. QED
    BY <2>1, TidFacts DEF Zombies
<1>4. Wanters' = Wanters
  <2>1. \A t \in Tid : pc'[t] \in Wanting <=> pc[t] \in Wanting
    BY DEF Resume, sleep_return, Wanting
  <2>. QED
    BY <2>1 DEF Wanters
<1>5. SyncOrdered'
  BY <1>1, <1>2, QueuesKept DEF MInv, SyncOrdered
<1>6. Waiters' = Waiters /\ Sleeping' = Sleeping /\ Owner' = Owner
  BY <1>1, SameWaiters DEF syncVars, Owner
<1>7. CASE Zombies = {}
  <2>1. UNCHANGED Mon!vars
    BY <1>1, <1>2, <1>3, <1>6, <1>7 DEF Mon!vars, Sleeping
  <2>2. UNCHANGED Mon!monitorVars
    BY <1>4, <1>6 DEF Mon!monitorVars, Waiters, Wanters, Wanting, Owner
  <2>. QED
    BY <1>5, <2>1, <2>2
<1>8. CASE Zombies # {}
  <2>1. Mon!Reap
    BY <1>1, <1>2, <1>3, <1>8 DEF Mon!Reap
  <2>2. Mon!Next
    BY <1>1, <1>6, <2>1 DEF Mon!Next, Sleeping
  <2>3. Mon!Scheduling
    BY <1>3, <1>4, <1>6, <1>8, <2>2 DEF Mon!Scheduling, Waiters, Wanters, Wanting, Owner
  <2>. QED
    BY <1>5, <2>3
<1>. QED
  BY <1>7, <1>8

LEMMA ThreadStepSimulated ==
    ASSUME MInv, ThreadStep
    PROVE  SyncOrdered' /\ (Mon!Scheduling \/ UNCHANGED <<Mon!vars, Mon!monitorVars>>)
<1>1. ASSUME Halted, UNCHANGED syncVars
      PROVE  SyncOrdered' /\ UNCHANGED <<Mon!vars, Mon!monitorVars>>
  <2>1. UNCHANGED <<vars, syncVars>>
    BY <1>1 DEF Halted
  <2>2. Waiters' = Waiters /\ Sleeping' = Sleeping
    BY <2>1, SameWaiters DEF syncVars
  <2>3. SyncOrdered'
    BY <2>1, QueuesKept DEF vars, MInv, SyncOrdered
  <2>. QED
    BY <2>1, <2>2, <2>3
       DEF vars, syncVars, Mon!vars, Mon!monitorVars, Zombies, Sleeping, Waiters
<1>. QED
  BY <1>1, SyncCreateSimulated, SyncYieldSimulated, SyncExitSimulated, SyncKillSimulated, SyncPreemptSimulated,
     GoesOnSimulated DEF ThreadStep

(* A call that comes to use a spoiled queue is where the model stops; so   *)
(* far nothing has happened.                                               *)
LEMMA WildUnseen ==
    ASSUME MInv, UNCHANGED <<vars, wq, l, acquired_thread_id, live, spoiled>>
    PROVE  SyncOrdered' /\ UNCHANGED <<Mon!vars, Mon!monitorVars>>
<1>1. Waiters' = Waiters /\ Sleeping' = Sleeping
  BY SameWaiters
<1>2. SyncOrdered'
  BY DEF vars, MInv, SyncOrdered, Sound
<1>. QED
  BY <1>1, <1>2 DEF vars, Mon!vars, Mon!monitorVars, Zombies, Sleeping, Waiters

-----------------------------------------------------------------------------
(* Creation and destruction.  Monitor has its queues from the start, and   *)
(* an empty one comes and goes unseen.                                     *)

LEMMA EmptyOrder == Chain(EmptyList, <<>>) /\ Walk(EmptyList) = <<>>
BY EmptyListFacts, ChainEmpty, OrderedBy DEF Empty, EmptyList

LEMMA ObjectUnseen ==
    ASSUME MInv, UNCHANGED vars, NEW k \in Queues,
           Asleep(k) = {},
           Sound' \subseteq Queues,
           \A j \in Queues : j # k => (j \in Sound' <=> j \in Sound) /\ wq'[j] = wq[j],
           k \in Sound' => wq'[k] = EmptyList,
           Owner' = Owner
    PROVE  SyncOrdered' /\ UNCHANGED <<Mon!vars, Mon!monitorVars>>
<1>1. ready' = ready /\ Sound \subseteq Queues
  BY QueueFacts DEF vars, MInv
<1>2. SyncOrdered'
  <2>1. \A j \in Sound' : Chain(wq'[j], Walk(wq'[j]))
    BY EmptyOrder DEF MInv, SyncOrdered
  <2>. QED
    BY <1>1, <2>1 DEF MInv, SyncOrdered
<1>3. Order(k) = <<>>
  <2>1. CASE k \in Sound
    BY <2>1, QueueFacts, AbstractQueues DEF MInv
  <2>. QED
    BY <2>1 DEF Order
<1>4. Order(k)' = <<>>
  BY EmptyOrder DEF Order
<1>5. \A j \in Queues : j # k => Order(j)' = Order(j)
  BY DEF Order
<1>6. Waiters' = Waiters
  BY <1>3, <1>4, <1>5 DEF Waiters
<1>7. Sleeping' = Sleeping
  <2>1. k \in Sound => Listed(wq[k]) = {}
    BY QueueFacts DEF MInv
  <2>2. k \in Sound' => Listed(wq'[k]) = {}
    BY EmptyListFacts
  <2>3. \A t : (\E j \in Sound : t \in Listed(wq[j])) <=> (\E j \in Sound' : t \in Listed(wq'[j]))
    BY <1>1, <2>1, <2>2
  <2>. QED
    BY <2>3 DEF Sleeping, Waiting
<1>8. Wanters' = Wanters /\ Zombies' = Zombies
  BY DEF vars, Wanters, Zombies
<1>. QED
  BY <1>2, <1>6, <1>7, <1>8
     DEF vars, Mon!vars, Mon!monitorVars, Waiters, Sleeping, Wanters, Wanting, Owner

LEMMA ObjectsSimulated ==
    ASSUME MInv, DestroyRules,
           \/ wait_queue_create \/ wait_queue_destroy
           \/ lock_create \/ lock_destroy
           \/ cv_create \/ cv_destroy
    PROVE  SyncOrdered' /\ UNCHANGED <<Mon!vars, Mon!monitorVars>>
<1>0. /\ live \subseteq Queues /\ wq \in [Queues -> List] /\ {"bare", "lock", "cv"} \subseteq Queues
      /\ spoiled \subseteq live /\ EmptyList \in List
  BY QueueFacts, EmptyListFacts DEF MInv, SyncIInv, SyncTypeOK, Queues
<1>1. CASE wait_queue_create \/ wait_queue_destroy
  <2>1. Asleep("bare") = {}
    BY <1>0, <1>1 DEF wait_queue_create, wait_queue_destroy, MayDestroyBare, DestroyRules,
                      MInv, SyncIInv, WaitersIntact, Sound
  <2>2. /\ Sound' \subseteq Queues /\ ("bare" \in Sound' => wq'["bare"] = EmptyList)
        /\ \A j \in Queues : j # "bare" => (j \in Sound' <=> j \in Sound) /\ wq'[j] = wq[j]
        /\ UNCHANGED vars /\ Owner' = Owner
    BY <1>0, <1>1 DEF wait_queue_create, wait_queue_destroy, Owner, Sound
  <2>. QED
    BY <1>0, <2>1, <2>2, ObjectUnseen
<1>2. CASE lock_create \/ lock_destroy
  <2>1. (\A t \in Tid : pc[t] \notin Wanting) /\ l' = 0 /\ l = 0
    <3>1. CASE lock_create
      BY <3>1 DEF lock_create, MInv, SyncIInv, LockShape
    <3>2. CASE lock_destroy
      BY <3>2 DEF lock_destroy, MayDestroyLock, DestroyRules, Wanting
    <3>. QED
      BY <1>2, <3>1, <3>2
  <2>2. Asleep("lock") = {} /\ Owner' = Owner
    BY <2>1, SleepNames DEF Asleep, Wanting, Owner
  <2>3. /\ Sound' \subseteq Queues /\ ("lock" \in Sound' => wq'["lock"] = EmptyList)
        /\ \A j \in Queues : j # "lock" => (j \in Sound' <=> j \in Sound) /\ wq'[j] = wq[j]
        /\ UNCHANGED vars
    <3>1. CASE lock_create
      BY <1>0, <3>1, MallocedFacts DEF lock_create, Sound
    <3>2. CASE lock_destroy
      BY <1>0, <3>2 DEF lock_destroy, Sound
    <3>. QED
      BY <1>2, <3>1, <3>2
  <2>. QED
    BY <1>0, <2>2, <2>3, ObjectUnseen
<1>3. CASE cv_create \/ cv_destroy
  <2>1. Asleep("cv") = {}
    <3>1. "cv" \notin Sound => Asleep("cv") = {}
      BY <1>0 DEF MInv, SyncIInv, WaitersIntact
    <3>2. cv_create => "cv" \notin Sound
      BY DEF cv_create, Sound
    <3>3. cv_destroy /\ "cv" \in Sound => Asleep("cv") = {}
      BY QueueFacts DEF cv_destroy, MInv
    <3>. QED
      BY <1>3, <3>1, <3>2, <3>3
  <2>2. /\ Sound' \subseteq Queues /\ ("cv" \in Sound' => wq'["cv"] = EmptyList)
        /\ \A j \in Queues : j # "cv" => (j \in Sound' <=> j \in Sound) /\ wq'[j] = wq[j]
        /\ UNCHANGED vars /\ Owner' = Owner
    <3>1. CASE cv_create
      BY <1>0, <3>1, MallocedFacts DEF cv_create, Sound, Owner
    <3>2. CASE cv_destroy
      BY <1>0, <3>2 DEF cv_destroy, Sound, Owner
    <3>. QED
      BY <1>3, <3>1, <3>2
  <2>. QED
    BY <1>0, <2>1, <2>2, ObjectUnseen
<1>. QED
  BY <1>1, <1>2, <1>3

-----------------------------------------------------------------------------
(* Sleeping and waking. *)

(* Monitor's record of who sleeps follows its queues. *)
LEMMA CallBlocks ==
    ASSUME MInv, SyncIInv', SyncOrdered',
           pc[current_thread] \in {"user", "acquire"},
           UNCHANGED exit_array, pc'[current_thread'] # "halt",
           \/ current_thread \notin Wanters /\ Mon!SleepCall
           \/ Mon!LockCall
           \/ Mon!Acquire
    PROVE  Mon!Blocking
<1>1. Zombies = {} /\ Zombies' = Zombies
  BY SyncRunningFacts DEF Zombies
<1>2. Sleeping' = UNION {Mon!ToSet(Waiters'[k]) : k \in Queues}
  BY SleepingAfter DEF MInv
<1>. QED
  BY <1>1, <1>2 DEF Mon!Blocking, Waiters, Sleeping, Wanters, Wanting

LEMMA WaitersStep ==
    ASSUME MInv, NEW k \in Sound, NEW q, wq' = [wq EXCEPT ![k] = q],
           \A j \in Queues \ {k} : j \in Sound' <=> j \in Sound
    PROVE  Waiters' = [Waiters EXCEPT ![k] = IF k \in Sound' THEN Walk(q) ELSE <<>>]
<1>1. k \in Queues /\ wq'[k] = q
  BY QueueFacts DEF MInv, SyncIInv, SyncTypeOK
<1>2. Order(k)' = IF k \in Sound' THEN Walk(q) ELSE <<>>
  BY <1>1 DEF Order
<1>3. \A j \in Queues : j # k => Order(j)' = Order(j)
  BY DEF Order, MInv, SyncIInv, SyncTypeOK
<1>. QED
  BY <1>1, <1>2, <1>3 DEF Waiters

(* Whether the queue that lost its first thread is in order or spoiled, it *)
(* stands for the rest of the sequence.                                    *)
LEMMA WakeOneSimulated ==
    ASSUME MInv, NEW k \in Sound, WakeOne(k), live' = live
    PROVE  SyncOrdered' /\ Mon!WakeFirst(k)
<1>0. k \in Queues /\ wq \in [Queues -> List] /\ Sound \subseteq Queues /\ k \in live
  BY QueueFacts DEF MInv, SyncIInv, SyncTypeOK, Sound
<1>1. CASE Empty(wq[k])
  <2>1. UNCHANGED <<ready, wq, live, spoiled>>
    BY <1>1 DEF WakeOne
  <2>2. Waiters[k] = <<>> /\ Waiters' = Waiters
    BY <1>0, <1>1, <2>1, AbstractQueues, SameWaiters DEF Waiters
  <2>. QED
    BY <2>1, <2>2 DEF MInv, SyncOrdered, Mon!WakeFirst, Waiters, Sound
<1>2. CASE ~Empty(wq[k])
  <2>. DEFINE q == wq[k]
              h == wq[k].head
              s == WaitAdvance(q)
  <2>1. /\ wq' = [wq EXCEPT ![k] = s] /\ ready' = Enqueue(ready, h)
        /\ spoiled' = IF h = q.tail THEN spoiled \cup {k} ELSE spoiled
    BY <1>2 DEF WakeOne
  <2>2. /\ (k \in Sound' <=> h # q.tail)
        /\ \A j \in Queues \ {k} : j \in Sound' <=> j \in Sound
        /\ Sound' \subseteq Sound
    BY <2>1 DEF Sound
  <2>3. /\ q \in List /\ WellFormed(q) /\ Chain(q, Order(k)) /\ Order(k) = Walk(q)
        /\ h = Head(Order(k)) /\ Order(k) # <<>> /\ h \in Listed(q)
    BY <1>0, <1>2, QueueFacts, AbstractQueues DEF MInv, SyncOrdered
  <2>4. Chain(Unlink(q, h), Tail(Order(k))) /\ Unlink(q, h) \in List
        /\ Listed(Unlink(q, h)) = Listed(q) \ {h}
    BY <2>3, ChainRemove, UnlinkFacts
  <2>5. h # q.tail => Walk(s) = Tail(Order(k)) /\ Chain(s, Walk(s))
    <3>1. h # q.tail => s = Unlink(q, h)
      BY <1>2, <2>3, AdvanceFacts
    <3>. QED
      BY <2>4, <3>1, OrderedBy
  <2>6. ASSUME h = q.tail PROVE Tail(Order(k)) = <<>>
    <3>. DEFINE u == Unlink(q, h)
                v == Tail(Order(k))
    <3>1. h \in Tid /\ h # Nil
      BY <2>3, ListedClosed, TidFacts
    <3>2. Listed(q) = {h}
      BY <2>3, <2>6, <3>1, ListedOne
    <3>3. u \in List /\ WellFormed(u) /\ Listed(u) = {} /\ Chain(u, v)
      BY <2>3, <2>4, <3>2, UnlinkFacts
    <3>. HIDE DEF u, v
    <3>4. Empty(u)
      BY <3>3, ListedEmpty
    <3>5. v = <<>>
      BY <3>3, <3>4, ChainEmpty
    <3>. QED
      BY <3>5 DEF v
  <2>8. h \in Tid /\ h \notin Listed(ready) /\ ready \in List /\ Chain(ready, Walk(ready))
        /\ WellFormed(ready)
    BY <2>3, QueueFacts, ListedClosed DEF MInv, SyncOrdered
  <2>10. Walk(ready') = Append(Walk(ready), h) /\ Chain(ready', Walk(ready'))
    <3>1. Chain(ready', Append(Walk(ready), h)) /\ ready' \in List
      BY <2>1, <2>8, ChainEnqueue, EnqueueFacts
    <3>. QED
      BY <3>1, OrderedBy
  <2>. HIDE DEF s
  <2>11. SyncOrdered'
    BY <1>0, <2>1, <2>2, <2>5, <2>10 DEF MInv, SyncOrdered
  <2>12. Waiters' = [Waiters EXCEPT ![k] = Tail(@)] /\ Waiters[k] = Order(k)
    <3>1. Waiters' = [Waiters EXCEPT ![k] = IF k \in Sound' THEN Walk(s) ELSE <<>>]
      BY <2>1, <2>2, WaitersStep
    <3>2. Waiters[k] = Order(k)
      BY <1>0 DEF Waiters
    <3>3. (IF k \in Sound' THEN Walk(s) ELSE <<>>) = Tail(Order(k))
      BY <2>2, <2>5, <2>6
    <3>. QED
      BY <3>1, <3>2, <3>3
  <2>13. Mon!WakeFirst(k)
    BY <2>3, <2>10, <2>12 DEF Mon!WakeFirst, Waiters
  <2>. QED
    BY <2>11, <2>13
<1>. QED
  BY <1>1, <1>2

LEMMA WakeAllSimulated ==
    ASSUME MInv, NEW k \in Sound, WakeAll(k), live' = live
    PROVE  SyncOrdered' /\ Mon!WakeEverybody(k)
<1>0. /\ k \in Queues /\ wq \in [Queues -> List] /\ Sound \subseteq Queues
      /\ wq[k] \in List /\ WellFormed(wq[k]) /\ Chain(wq[k], Order(k))
      /\ ready \in List /\ WellFormed(ready) /\ Chain(ready, Walk(ready))
      /\ Listed(ready) \cap Listed(wq[k]) = {}
  BY QueueFacts, AbstractQueues DEF MInv, SyncIInv, SyncTypeOK, SyncOrdered
<1>1. /\ ready' = Splice(ready, wq[k]) /\ wq' = [wq EXCEPT ![k] = EmptyList]
      /\ Sound' = Sound
  BY DEF WakeAll, Sound
<1>2. Chain(ready', Walk(ready) \o Order(k)) /\ ready' \in List
  BY <1>0, <1>1, SpliceOrder, SpliceFacts
<1>3. Walk(ready') = Walk(ready) \o Order(k) /\ Chain(ready', Walk(ready'))
  BY <1>2, OrderedBy
<1>4. Waiters' = [Waiters EXCEPT ![k] = <<>>] /\ Waiters[k] = Order(k)
  BY <1>0, <1>1, WaitersStep, EmptyOrder DEF Waiters
<1>5. SyncOrdered'
  BY <1>0, <1>1, <1>3, EmptyOrder DEF MInv, SyncOrdered
<1>6. Mon!WakeEverybody(k)
  BY <1>3, <1>4 DEF Mon!WakeEverybody, Waiters
<1>. QED
  BY <1>5, <1>6

(* The running thread goes to sleep in queue k, the first of r runs. *)
LEMMA BlockOrder ==
    ASSUME MInv, NEW k \in Sound, NEW r \in List, WellFormed(r), ~Empty(r),
           NEW z, Chain(r, z),
           ready' = Unlink(r, r.head), current_thread' = r.head
    PROVE  LET q == WaitAppend(wq[k], current_thread)
           IN  /\ z # <<>> /\ current_thread' = Head(z) /\ current_thread' \in Listed(r)
               /\ Walk(ready') = Tail(z) /\ Chain(ready', Walk(ready'))
               /\ Walk(q) = Append(Order(k), current_thread) /\ Chain(q, Walk(q))
<1>1. z # <<>> /\ r.head = Head(z) /\ r.head \in Listed(r)
  BY ChainQueue
<1>2. Chain(ready', Tail(z)) /\ ready' \in List
  BY <1>1, ChainRemove
<1>3. Walk(ready') = Tail(z) /\ Chain(ready', Walk(ready'))
  BY <1>2, OrderedBy
<1>4. /\ wq[k] \in List /\ WellFormed(wq[k]) /\ Chain(wq[k], Order(k))
      /\ current_thread \in Tid /\ current_thread \notin Listed(wq[k])
  BY QueueFacts, AbstractQueues DEF MInv, SyncOrdered
<1>5. /\ Chain(WaitAppend(wq[k], current_thread), Append(Order(k), current_thread))
      /\ WaitAppend(wq[k], current_thread) \in List
  BY <1>4, ChainEnqueue, EnqueueFacts DEF WaitAppend
<1>. QED
  BY <1>1, <1>3, <1>5, OrderedBy

LEMMA SleepSimulated ==
    ASSUME MInv, SyncIInv', thread_sleep, ~GoesWild
    PROVE  SyncOrdered' /\ Mon!Blocking
<1>1. /\ pc[current_thread] = "user" /\ current_thread \in Tid
      /\ UNCHANGED <<threadVars, l, acquired_thread_id, live, holding, spoiled>> /\ Sound' = Sound
      /\ pc \in [Tid -> SyncPCs] /\ wq \in [Queues -> List]
      /\ current_thread \notin Wanters
  BY DEF thread_sleep, Running, Sound, MInv, SyncIInv, SyncTypeOK, Wanters, Wanting
<1>2. exit_array' = exit_array /\ Owner' = Owner
  BY <1>1 DEF threadVars, Owner
<1>3. CASE /\ UNCHANGED <<ready, current_thread, pc, wq>>
           /\ ret' = "invalid" \/ (Empty(ready) /\ ret' = "none")
  <2>1. SyncOrdered' /\ Waiters' = Waiters /\ Wanters' = Wanters
    BY <1>1, <1>3, SameWaiters DEF MInv, SyncOrdered, Wanters
  <2>2. Mon!SleepInvalid \/ Mon!Sleep("bare")
    BY <1>2, <1>3, <2>1, AbstractQueues
       DEF Mon!SleepInvalid, Mon!Sleep, Mon!monitorVars, Waiters, Wanters, Wanting, Owner
  <2>3. pc'[current_thread'] # "halt"
    BY <1>1, <1>3
  <2>. QED
    BY <1>1, <1>2, <2>1, <2>2, <2>3, CallBlocks DEF Mon!SleepCall
<1>4. CASE "bare" \in Sound /\ ~Empty(ready) /\ ret' = "ok" /\ SleepOn("bare", ready)
  <2>. DEFINE q == WaitAppend(wq["bare"], current_thread)
  <2>1. /\ ready' = Unlink(ready, ready.head) /\ current_thread' = ready.head
        /\ wq' = [wq EXCEPT !["bare"] = q]
        /\ pc' = [pc EXCEPT ![current_thread] = "sleep"]
    BY <1>4, SleepNames DEF SleepOn
  <2>2. ready \in List /\ WellFormed(ready) /\ Chain(ready, Walk(ready))
    BY AbstractQueues DEF MInv, SyncOrdered
  <2>3. /\ Walk(ready) # <<>> /\ current_thread' = Head(Walk(ready))
        /\ current_thread' \in Listed(ready)
        /\ Walk(ready') = Tail(Walk(ready)) /\ Chain(ready', Walk(ready'))
        /\ Walk(q) = Append(Order("bare"), current_thread) /\ Chain(q, Walk(q))
    BY <1>4, <2>1, <2>2, BlockOrder
  <2>. HIDE DEF q
  <2>4. SyncOrdered'
    BY <1>1, <2>1, <2>3, QueueFacts DEF MInv, SyncOrdered
  <2>5. Waiters' = [Waiters EXCEPT !["bare"] = Append(@, current_thread)]
    BY <1>1, <1>4, <2>1, <2>3, WaitersStep, QueueFacts DEF Waiters, MInv
  <2>6. Wanters' = Wanters
    BY <1>1, <2>1 DEF Wanters, Wanting
  <2>7. pc'[current_thread'] # "halt"
    BY <1>1, <2>1, <2>3, QueueFacts DEF MInv, SyncIInv, Placed, Suspended
  <2>8. Mon!Sleep("bare")
    BY <1>2, <1>4, <2>3, <2>5, <2>6
       DEF Mon!Sleep, Mon!SleepAfter, Waiters, Wanters, Wanting, Owner
  <2>. QED
    BY <1>1, <1>2, <2>4, <2>7, <2>8, CallBlocks DEF Mon!SleepCall
<1>. QED
  BY <1>3, <1>4 DEF thread_sleep

LEMMA WakeupSimulated ==
    ASSUME MInv, SyncIInv', thread_wakeup, ~GoesWild
    PROVE  SyncOrdered' /\ Mon!Blocking
<1>1. /\ pc[current_thread] = "user" /\ "bare" \in Sound /\ live' = live
      /\ UNCHANGED <<exit_array, current_thread, pc, l, acquired_thread_id>>
      /\ WakeOne("bare") \/ WakeAll("bare")
      /\ ret' = "ok"
  BY DEF thread_wakeup, Running, threadVars
<1>2. SyncOrdered' /\ (Mon!WakeFirst("bare") \/ Mon!WakeEverybody("bare"))
  BY <1>1, WakeOneSimulated, WakeAllSimulated
<1>3. Mon!SleepCall
  BY <1>1, <1>2 DEF Mon!SleepCall, Mon!Wakeup
<1>4. current_thread \notin Wanters
  BY <1>1 DEF Wanters, Wanting
<1>. QED
  BY <1>1, <1>2, <1>3, <1>4, CallBlocks

LEMMA AcquireSimulated ==
    ASSUME MInv, SyncIInv', lock_acquire
    PROVE  SyncOrdered' /\ Mon!Blocking
<1>1. /\ pc[current_thread] = "user" /\ current_thread \in Tid
      /\ UNCHANGED <<threadVars, ready, current_thread, ret, syncVars>>
      /\ pc \in [Tid -> SyncPCs]
      /\ pc' = [pc EXCEPT ![current_thread] = "acquire"]
  BY DEF lock_acquire, Running, MInv, SyncIInv, SyncTypeOK
<1>2. SyncOrdered' /\ Waiters' = Waiters /\ Owner' = Owner /\ exit_array' = exit_array
  BY <1>1, SameWaiters DEF MInv, SyncOrdered, Sound, syncVars, threadVars, Owner
<1>3. Wanters' = Wanters \cup {current_thread} /\ current_thread \notin Wanters
  BY <1>1 DEF Wanters, Wanting
<1>4. Mon!LockCall
  BY <1>1, <1>2, <1>3 DEF Mon!LockCall, Mon!Want, Waiters, Wanters, Wanting, Owner
<1>5. pc'[current_thread'] # "halt"
  BY <1>1
<1>. QED
  BY <1>1, <1>2, <1>4, <1>5, CallBlocks

LEMMA LoopSimulated ==
    ASSUME MInv, HolderShape, SyncIInv', lock_acquire_loop, ~GoesWild
    PROVE  SyncOrdered' /\ Mon!Blocking
<1>1. /\ pc[current_thread] = "acquire" /\ current_thread \in Tid
      /\ UNCHANGED <<threadVars, ret, live, spoiled>> /\ Sound' = Sound /\ exit_array' = exit_array
      /\ pc \in [Tid -> SyncPCs] /\ wq \in [Queues -> List]
      /\ current_thread \in Wanters
  BY DEF lock_acquire_loop, Sound, MInv, SyncIInv, SyncTypeOK, LockShape, Wanters, Wanting, threadVars
<1>2. CASE /\ l = 0 /\ l' = 1
           /\ acquired_thread_id' = current_thread
           /\ pc' = [pc EXCEPT ![current_thread] = "user"]
           /\ UNCHANGED <<ready, current_thread, wq>>
  <2>1. SyncOrdered' /\ Waiters' = Waiters
    BY <1>1, <1>2, SameWaiters DEF MInv, SyncOrdered
  <2>2. Owner = Nil /\ Owner' = current_thread /\ Wanters' = Wanters \ {current_thread}
    BY <1>1, <1>2 DEF Owner, Wanters, Wanting
  <2>3. Mon!Acquire
    BY <1>1, <1>2, <2>1, <2>2 DEF Mon!Acquire, Waiters, Wanters, Wanting, Owner
  <2>4. pc'[current_thread'] # "halt"
    BY <1>1, <1>2
  <2>. QED
    BY <1>1, <2>1, <2>3, <2>4, CallBlocks
<1>3. CASE /\ l = 1 /\ ~Empty(ready) /\ "lock" \in Sound /\ SleepOn("lock", ready)
           /\ UNCHANGED <<l, acquired_thread_id, holding>>
  <2>. DEFINE q == WaitAppend(wq["lock"], current_thread)
  <2>1. /\ ready' = Unlink(ready, ready.head) /\ current_thread' = ready.head
        /\ wq' = [wq EXCEPT !["lock"] = q]
        /\ pc' = [pc EXCEPT ![current_thread] = "acquire_sleep"]
    BY <1>3, SleepNames DEF SleepOn
  <2>2. ready \in List /\ WellFormed(ready) /\ Chain(ready, Walk(ready))
    BY AbstractQueues DEF MInv, SyncOrdered
  <2>3. /\ Walk(ready) # <<>> /\ current_thread' = Head(Walk(ready))
        /\ current_thread' \in Listed(ready)
        /\ Walk(ready') = Tail(Walk(ready)) /\ Chain(ready', Walk(ready'))
        /\ Walk(q) = Append(Order("lock"), current_thread) /\ Chain(q, Walk(q))
    BY <1>1, <1>3, <2>1, <2>2, BlockOrder
  <2>. HIDE DEF q
  <2>4. SyncOrdered'
    BY <1>1, <2>1, <2>3, QueueFacts DEF MInv, SyncOrdered
  <2>5. Waiters' = [Waiters EXCEPT !["lock"] = Append(@, current_thread)]
    BY <1>1, <1>3, <2>1, <2>3, WaitersStep, QueueFacts DEF Waiters, MInv
  <2>6. Wanters' = Wanters
    BY <1>1, <2>1 DEF Wanters, Wanting
  <2>7. pc'[current_thread'] # "halt"
    BY <1>1, <2>1, <2>3, QueueFacts DEF MInv, SyncIInv, Placed, Suspended
  <2>8. Owner # Nil /\ Owner' = Owner
    BY <1>3, HolderFacts, TidFacts DEF Owner, MInv
  <2>9. Mon!SleepAfter("lock", Walk(ready))
    BY <2>3, <2>5 DEF Mon!SleepAfter, Waiters
  <2>10. Mon!Acquire
    BY <1>1, <2>6, <2>8, <2>9 DEF Mon!Acquire, Waiters, Wanters, Wanting, Owner
  <2>. QED
    BY <1>1, <2>4, <2>7, <2>10, CallBlocks
<1>. QED
  BY <1>2, <1>3 DEF lock_acquire_loop

LEMMA ReleaseSimulated ==
    ASSUME MInv, HolderShape, SyncIInv', Rules = EveryRule, lock_release, ~GoesWild
    PROVE  SyncOrdered' /\ Mon!Blocking
<1>1. /\ pc[current_thread] = "user" /\ "lock" \in Sound /\ live' = live
      /\ UNCHANGED <<exit_array, current_thread, pc, ret>>
      /\ WakeAll("lock") /\ l = 1 /\ l' = 0
  BY DEF lock_release, Running, threadVars
<1>2. Owner = current_thread /\ Owner' = Nil
  BY <1>1, CallerHolds DEF Owner, MInv, lock_release
<1>3. SyncOrdered' /\ Mon!WakeEverybody("lock")
  BY <1>1, WakeAllSimulated
<1>4. Wanters' = Wanters /\ current_thread \notin Wanters
  BY <1>1 DEF Wanters, Wanting
<1>5. Mon!LockCall
  BY <1>1, <1>2, <1>3, <1>4 DEF Mon!LockCall, Mon!Release, Wanters, Wanting, Owner
<1>. QED
  BY <1>1, <1>3, <1>5, CallBlocks

LEMMA NotifySimulated ==
    ASSUME MInv, HolderShape, SyncIInv', Rules = EveryRule, cv_signal \/ cv_broadcast, ~GoesWild
    PROVE  SyncOrdered' /\ Mon!Blocking
<1>1. /\ pc[current_thread] = "user" /\ "cv" \in Sound /\ live' = live
      /\ UNCHANGED <<exit_array, current_thread, pc, ret, l, acquired_thread_id>>
      /\ WakeOne("cv") \/ WakeAll("cv")
      /\ l = 1 /\ MayUseLock
  BY DEF cv_signal, cv_broadcast, Running, threadVars
<1>2. Owner = current_thread /\ Owner' = Owner
  BY <1>1, CallerHolds DEF Owner, MInv
<1>3. SyncOrdered' /\ (Mon!WakeFirst("cv") \/ Mon!WakeEverybody("cv"))
  BY <1>1, WakeOneSimulated, WakeAllSimulated
<1>4. Wanters' = Wanters /\ current_thread \notin Wanters
  BY <1>1 DEF Wanters, Wanting
<1>5. Mon!LockCall
  BY <1>1, <1>2, <1>3, <1>4 DEF Mon!LockCall, Mon!Notify, Wanters, Wanting, Owner
<1>. QED
  BY <1>1, <1>3, <1>5, CallBlocks

LEMMA WaitSimulated ==
    ASSUME MInv, HolderShape, SyncIInv', Rules = EveryRule, cv_wait, ~GoesWild
    PROVE  SyncOrdered' /\ Mon!Blocking
<1>. DEFINE r == Splice(ready, wq["lock"])
            z == Walk(ready) \o Order("lock")
            c == current_thread
<1>1. /\ pc[c] = "user" /\ c \in Tid /\ "lock" \in Sound
      /\ UNCHANGED <<threadVars, ret, live, spoiled>> /\ Sound' = Sound /\ exit_array' = exit_array
      /\ pc \in [Tid -> SyncPCs] /\ wq \in [Queues -> List] /\ Sound \subseteq Queues
      /\ l = 1 /\ l' = 0
  BY QueueFacts DEF cv_wait, Running, Sound, MInv, SyncIInv, SyncTypeOK, threadVars
<1>2. Owner = c /\ Owner' = Nil
  BY <1>1, CallerHolds DEF Owner, MInv, cv_wait
<1>3. /\ ready \in List /\ WellFormed(ready) /\ Chain(ready, Walk(ready))
      /\ wq["lock"] \in List /\ WellFormed(wq["lock"]) /\ Chain(wq["lock"], Order("lock"))
      /\ Listed(ready) \cap Listed(wq["lock"]) = {}
  BY <1>1, QueueFacts, AbstractQueues DEF MInv, SyncOrdered
<1>4. r \in List /\ WellFormed(r) /\ Listed(r) = Listed(ready) \cup Listed(wq["lock"])
  BY <1>3, SpliceFacts
<1>5. Chain(r, z)
  BY <1>3, SpliceOrder
<1>6. c \notin Wanters
  BY <1>1 DEF Wanters, Wanting
<1>7. CASE /\ ~Empty(r) /\ "cv" \in Sound
           /\ wq' = [wq EXCEPT !["lock"] = EmptyList, !["cv"] = WaitAppend(@, c)]
           /\ ready' = Unlink(r, r.head)
           /\ current_thread' = r.head
           /\ pc' = [pc EXCEPT ![c] = "cv_sleep"]
  <2>. DEFINE q == WaitAppend(wq["cv"], c)
  <2>1. wq' = [[wq EXCEPT !["lock"] = EmptyList] EXCEPT !["cv"] = q]
    BY <1>1, <1>7
  <2>2. /\ z # <<>> /\ current_thread' = Head(z) /\ current_thread' \in Listed(r)
        /\ Walk(ready') = Tail(z) /\ Chain(ready', Walk(ready'))
        /\ Walk(q) = Append(Order("cv"), c) /\ Chain(q, Walk(q))
    <3>. HIDE DEF r, z
    <3>. QED
      BY <1>1, <1>4, <1>5, <1>7, BlockOrder
  <2>. HIDE DEF q, r, z
  <2>3. SyncOrdered'
    BY <1>1, <2>1, <2>2, EmptyOrder DEF MInv, SyncOrdered
  <2>4. Waiters' = [Waiters EXCEPT !["lock"] = <<>>, !["cv"] = Append(@, c)]
    <3>1. Order("lock")' = <<>> /\ Order("cv")' = Append(Order("cv"), c)
      BY <1>1, <1>7, <2>1, <2>2, EmptyOrder DEF Order
    <3>2. \A k \in Queues : k \notin {"lock", "cv"} => Order(k)' = Order(k)
      BY <1>1, <2>1 DEF Order
    <3>. QED
      BY <1>1, <3>1, <3>2 DEF Waiters
  <2>5. Wanters' = Wanters \cup {c}
    BY <1>1, <1>7 DEF Wanters, Wanting
  <2>6. pc'[current_thread'] # "halt"
    <3>1. \A t \in Listed(wq["lock"]) : pc[t] = "acquire_sleep"
      BY <1>1, QueueFacts, SleepNames DEF MInv, Asleep
    <3>2. \A t \in Listed(ready) : pc[t] \in Suspended
      BY DEF MInv, SyncIInv, Placed
    <3>. QED
      BY <1>1, <1>4, <1>7, <2>2, <3>1, <3>2 DEF Suspended
  <2>7. Mon!CvWait
    BY <1>1, <1>2, <2>2, <2>4, <2>5 DEF Mon!CvWait, Waiters, Wanters, Wanting, Owner, z
  <2>. QED
    BY <1>1, <1>6, <2>3, <2>6, <2>7, CallBlocks DEF Mon!LockCall, Wanters, Wanting
<1>8. CASE /\ Empty(r)
           /\ pc' = [pc EXCEPT ![c] = "acquire"]
           /\ UNCHANGED <<ready, current_thread, wq>>
  <2>1. z = <<>>
    <3>. HIDE DEF r, z
    <3>. QED
      BY <1>4, <1>5, <1>8, ChainEmpty
  <2>2. SyncOrdered' /\ Waiters' = Waiters
    BY <1>1, <1>8, SameWaiters DEF MInv, SyncOrdered
  <2>3. Wanters' = Wanters \cup {c}
    BY <1>1, <1>8 DEF Wanters, Wanting
  <2>4. pc'[current_thread'] # "halt"
    BY <1>1, <1>8
  <2>5. Mon!CvWait
    BY <1>1, <1>2, <1>8, <2>1, <2>2, <2>3
       DEF Mon!CvWait, Waiters, Wanters, Wanting, Owner
  <2>. QED
    BY <1>1, <1>6, <2>2, <2>4, <2>5, CallBlocks DEF Mon!LockCall, Wanters, Wanting
<1>. QED
  BY <1>7, <1>8 DEF cv_wait

-----------------------------------------------------------------------------
LEMMA SyncInitSimulated ==
    ASSUME ExitFill = Nil, SyncInit
    PROVE  SyncOrdered /\ Mon!MonitorInit
<1>1. Walk(ready) = <<>> /\ SyncOrdered
  BY EmptyOrder DEF SyncInit, Init, SyncOrdered, Sound
<1>2. Zombies = {} /\ Sleeping = {} /\ Wanters = {} /\ Owner = Nil
  BY TidFacts DEF SyncInit, Init, Zombies, Sleeping, Sound, Wanters, Wanting, Owner
<1>3. Waiters = [k \in Queues |-> <<>>]
  BY DEF SyncInit, Waiters, Order, Sound
<1>4. Mon!Init
  BY <1>1, <1>2, TidFacts DEF SyncInit, Init, Mon!Init, Sleeping
<1>. QED
  BY <1>1, <1>2, <1>3, <1>4 DEF Mon!MonitorInit, Waiters, Wanters, Wanting, Owner

LEMMA SyncStepSimulated ==
    ASSUME MInv, HolderShape, SyncIInv', Rules = EveryRule, ThreadStep \/ SyncStep
    PROVE  SyncOrdered' /\ [Mon!MonitorNext]_<<Mon!vars, Mon!monitorVars>>
<1>1. CASE ThreadStep \/ sleep_return
  BY <1>1, ThreadStepSimulated, GoesOnSimulated DEF Mon!MonitorNext
<1>2. CASE \/ wait_queue_create \/ wait_queue_destroy
           \/ lock_create \/ lock_destroy
           \/ cv_create \/ cv_destroy
  <2>1. DestroyRules
    BY DEF DestroyRules, EveryRule
  <2>. QED
    BY <1>2, <2>1, ObjectsSimulated
<1>3. CASE GoesWild
  BY <1>3, WildUnseen DEF GoesWild
<1>4. CASE ~GoesWild /\ \/ thread_sleep \/ thread_wakeup
                        \/ lock_acquire \/ lock_acquire_loop \/ lock_release
                        \/ cv_wait \/ cv_signal \/ cv_broadcast
  <2>1. SyncOrdered' /\ Mon!Blocking
    BY <1>4, SleepSimulated, WakeupSimulated, AcquireSimulated, LoopSimulated,
       ReleaseSimulated, WaitSimulated, NotifySimulated
  <2>. QED
    BY <2>1 DEF Mon!MonitorNext
<1>. QED
  BY <1>1, <1>2, <1>3, <1>4 DEF SyncStep

(* The wait queues, the lock and the condition variable do what thread.h   *)
(* says of them, for clients that keep the rules of Sync and up to the     *)
(* first use of a queue that lock_create or cv_create did not initialise   *)
(* or that thread_wakeup left without its last thread.  Seen through the   *)
(* sequences that the ready queue and the wait queues stand for, every     *)
(* step is one of Monitor: sleepers are woken in the order they came, a    *)
(* release puts all who sleep for the lock behind the ready queue in that  *)
(* order, cv_wait gives the lock up and goes to sleep in one step, and a   *)
(* thread comes to have the lock only when nobody has it.                  *)
THEOREM SyncImplementsMonitor ==
    ASSUME ExitFill = Nil, Rules = EveryRule
    PROVE  SyncSpec => ImplementsMonitor
<1>. DEFINE HInv == MInv /\ HolderShape
<1>1. SyncInit => HInv /\ Mon!MonitorInit
  BY SyncInitInv, SyncInitSimulated, HolderInit DEF MInv
<1>2. HInv /\ [SyncNext]_allVars
        => HInv' /\ [Mon!MonitorNext]_<<Mon!vars, Mon!monitorVars>>
  <2>. SUFFICES ASSUME MInv, HolderShape, [SyncNext]_allVars
                PROVE  MInv' /\ HolderShape' /\ [Mon!MonitorNext]_<<Mon!vars, Mon!monitorVars>>
    OBVIOUS
  <2>0. DestroyRules
    BY DEF DestroyRules, EveryRule
  <2>1. SyncIInv' /\ HolderShape'
    BY <2>0, SyncNextInv, HolderNext DEF MInv
  <2>2. CASE ThreadStep \/ SyncStep
    BY <2>1, <2>2, SyncStepSimulated DEF MInv
  <2>3. CASE UNCHANGED allVars
    <3>1. UNCHANGED <<vars, wq, l, acquired_thread_id, live, spoiled>>
      BY <2>3 DEF allVars, syncVars
    <3>2. SyncOrdered' /\ UNCHANGED <<Mon!vars, Mon!monitorVars>>
      BY <3>1, WildUnseen
    <3>. QED
      BY <2>1, <3>2 DEF MInv
  <2>. QED
    BY <2>2, <2>3 DEF SyncNext, Stopped
<1>. QED
  BY <1>1, <1>2, PTL DEF SyncSpec, Mon!MonitorSpec, ImplementsMonitor
=============================================================================

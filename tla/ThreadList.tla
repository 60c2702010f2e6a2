----------------------------- MODULE ThreadList -----------------------------
(***************************************************************************)
(* The queues of threads/thread.c.  A thread waits in at most one of them, *)
(* so a queue is not a sequence of cells but a head, a tail and one link   *)
(* per thread: `next_ready' in the thread's control block for the ready    *)
(* queue, `Wait_queue[tid].next_thread_id' for a wait queue.  This module  *)
(* has the pointer operations the C code performs on such a queue, and the *)
(* predicate WellFormed under which they behave as a queue should.         *)
(*                                                                         *)
(* A queue q is a record [head, tail, next]; Nil is the -1 of the C code.  *)
(***************************************************************************)
EXTENDS Integers

CONSTANT MaxThreads          \* THREAD_MAX_THREADS

ASSUME MaxThreadsAssumption == MaxThreads \in Nat \ {0}

Tid == 0 .. (MaxThreads - 1)
Nil == -1
Link == Tid \cup {Nil}

List == [head : Link, tail : Link, next : [Tid -> Link]]

Empty(q) == q.head = Nil /\ q.tail = Nil

EmptyList == [head |-> Nil, tail |-> Nil, next |-> [t \in Tid |-> Nil]]

-----------------------------------------------------------------------------
(* What a traversal from the head can reach.                               *)

(* S contains the head and everything the links lead to from S.            *)
Closed(q, S) ==
    /\ q.head # Nil => q.head \in S
    /\ \A t \in S : q.next[t] # Nil => q.next[t] \in S

(* The threads the queue holds: the least closed set.                      *)
Listed(q) == {t \in Tid : \A S \in SUBSET Tid : Closed(q, S) => t \in S}

(* The thread the search loops leave in pre_thread_id when they stop at w. *)
Pred(q, w) ==
    IF w = q.head THEN w ELSE CHOOSE t \in Listed(q) : q.next[t] = w

(* The links are one chain that starts at head and stops at tail, and the  *)
(* links of threads outside the queue have been cleared.                   *)
WellFormed(q) ==
    /\ q.head = Nil <=> q.tail = Nil
    /\ q.head # Nil => q.tail \in Listed(q)
    /\ \A t \in Listed(q) : q.next[t] = Nil <=> t = q.tail
    /\ \A t \in Listed(q) : q.next[t] # q.head \/ q.head = Nil
    /\ \A t, u \in Listed(q) : q.next[t] = q.next[u] => t = u
    /\ \A t \in Tid \ Listed(q) : q.next[t] = Nil

-----------------------------------------------------------------------------
(* The pointer operations.                                                 *)

(* thread_create links a new thread behind the tail and relies on its own  *)
(* link being clear, which it only sets when the queue is empty.           *)
LinkAtTail(q, t) ==
    IF Empty(q)
    THEN [head |-> t, tail |-> t, next |-> [q.next EXCEPT ![t] = Nil]]
    ELSE [head |-> q.head, tail |-> t, next |-> [q.next EXCEPT ![q.tail] = t]]

(* thread_yield and thread_wakeup do the same and clear the link.          *)
Enqueue(q, t) ==
    LET r == LinkAtTail(q, t) IN [r EXCEPT !.next[t] = Nil]

(* Faulty variants of Unlink: the link of w is not cleared; the tail moves *)
(* also when w is in the middle.                                           *)
UnlinkKeepsLink(q, w) ==
    LET p == Pred(q, w)
    IN  IF q.head = q.tail THEN EmptyList
        ELSE [head |-> IF w = q.head THEN q.next[w] ELSE q.head,
              tail |-> IF w = q.tail THEN p ELSE q.tail,
              next |-> [q.next EXCEPT ![p] = q.next[w]]]

UnlinkMovesTail(q, w) ==
    LET p == Pred(q, w)
    IN  IF q.head = q.tail THEN EmptyList
        ELSE [head |-> IF w = q.head THEN q.next[w] ELSE q.head,
              tail |-> IF w = q.head THEN q.tail ELSE p,
              next |-> [q.next EXCEPT ![p] = q.next[w], ![w] = Nil]]

(* Taking w out: from the head, from the end or from the middle.  A queue  *)
(* of one thread becomes empty.                                            *)
Unlink(q, w) ==
    LET p == Pred(q, w)
    IN  IF q.head = q.tail
        THEN [head |-> Nil, tail |-> Nil, next |-> [q.next EXCEPT ![w] = Nil]]
        ELSE [head |-> IF w = q.head THEN q.next[w] ELSE q.head,
              tail |-> IF w = q.tail THEN p ELSE q.tail,
              next |-> [q.next EXCEPT ![p] = q.next[w], ![w] = Nil]]

-----------------------------------------------------------------------------
(* The queue as a sequence: Walk(q)[k] is the k-th thread from the head.   *)
(* A list that has become cyclic is cut at MaxThreads.                     *)
Reached(q) ==
    LET at[k \in 0 .. MaxThreads] ==
            IF k = 0 THEN q.head
            ELSE IF at[k - 1] = Nil THEN Nil ELSE q.next[at[k - 1]]
    IN  at

Walk(q) ==
    LET stops == {k \in 0 .. MaxThreads : Reached(q)[k] = Nil}
        len   == IF stops = {} THEN MaxThreads
                 ELSE CHOOSE k \in stops : \A j \in stops : k <= j
    IN  [k \in 1 .. len |-> Reached(q)[k - 1]]
=============================================================================

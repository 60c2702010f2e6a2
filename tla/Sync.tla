-------------------------------- MODULE Sync --------------------------------
(***************************************************************************)
(* The blocking part of threads/thread.c on top of Threads: wait queues    *)
(* (thread_sleep, thread_wakeup), the blocking lock and the condition      *)
(* variable, each with its wait queue.  There is one object of each kind;  *)
(* a wait queue is named after its owner, "bare" being the one that        *)
(* clients use directly.                                                   *)
(*                                                                         *)
(* The calls run with the timer signal blocked.  lock_acquire and cv_wait  *)
(* have more than one step because they switch threads inside: pc is       *)
(*   "sleep", "acquire_sleep", "cv_sleep"  in thread_sleep, called by the  *)
(*             client, by lock_acquire, by cv_wait; the thread is asleep   *)
(*             or, once woken, in the ready queue                          *)
(*   "acquire" at the `while (lock->l == 1)' of lock_acquire, the signal   *)
(*             still blocked                                               *)
(*                                                                         *)
(* Two places of the code leave a wait queue that is not empty although    *)
(* nobody sleeps in it: lock_create and cv_create, which do not initialise *)
(* theirs, and thread_wakeup(queue, 0) when it wakes the last thread.      *)
(* Such a queue is in spoiled.  What happens when a call comes to use it   *)
(* depends on what memory holds (a thread that does not sleep is put in    *)
(* the ready queue, a link is written outside Wait_queue[]): the model     *)
(* stops there, with wild.                                                 *)
(***************************************************************************)
EXTENDS Threads

CONSTANTS
    Used,          \* the objects that clients create, a subset of Queues
    Rules          \* what clients observe, see "The clients"

ASSUME UsedAssumption == Used \subseteq {"bare", "lock", "cv"}
ASSUME RulesAssumption ==
    Rules \subseteq {"owner", "acquire_once", "holder_stays", "destroy_empty", "destroy_idle"}

Queues == {"bare", "lock", "cv"}
SleepPC == [bare |-> "sleep", lock |-> "acquire_sleep", cv |-> "cv_sleep"]
SyncPCs == PCs \cup {"sleep", "acquire_sleep", "cv_sleep", "acquire"}

VARIABLES
    wq,                    \* the three wait queues: head, tail, Wait_queue[].next_thread_id
    l,                     \* lock->l
    acquired_thread_id,    \* lock->acquired_thread_id
    live,                  \* the objects that are allocated
    holding,               \* threads that have acquired the lock and not released it:
                           \* what the clients know, no variable of the program
    spoiled,               \* the allocated queues that hold what nobody put there
    wild                   \* a call has used one of those

syncVars == <<wq, l, acquired_thread_id, live, holding, spoiled, wild>>
allVars == <<vars, syncVars>>
threadVars == <<thread_state, has_stack, exit_array>>

SyncInit ==
    /\ Init
    /\ wq = [k \in Queues |-> EmptyList]
    /\ l = 0
    /\ acquired_thread_id = Nil
    /\ live = {}
    /\ holding = {}
    /\ spoiled = {}
    /\ wild = FALSE

-----------------------------------------------------------------------------
(* Wait queues.  The code leaves old links in Wait_queue[] when it wakes   *)
(* threads and never initialises them; here a link exists only between two *)
(* waiting threads, and reading one that does not gives anything.          *)

Waiting(q) == Listed(q)

(* What a spoiled queue holds is never used; memory full of zeros stands   *)
(* for all of it: thread 0 at the head and at the tail.                    *)
Zeroed == [EmptyList EXCEPT !.head = 0, !.tail = 0]

(* The queues that are what they should be. *)
Sound == live \ spoiled

(* The threads that sleep in queue k: they entered thread_sleep and are    *)
(* neither in the ready queue nor running.                                 *)
Asleep(k) == {t \in Tid : /\ pc[t] = SleepPC[k]
                          /\ t # current_thread
                          /\ t \notin Listed(ready)}

(* thread_sleep puts the caller at the end. *)
WaitAppend(q, t) == Enqueue(q, t)

(* thread_wakeup(queue, 0) follows the link of the head also when the head *)
(* is the last thread.  That link says nothing and the thread stays the    *)
(* tail: the queue does not become empty but spoiled (see Zeroed).         *)
WaitAdvance(q) ==
    IF q.head = q.tail THEN Zeroed
    ELSE [head |-> q.next[q.head], tail |-> q.tail, next |-> [q.next EXCEPT ![q.head] = Nil]]

(* Faulty variant of Splice: the tail of r keeps its link. *)
SpliceUnlinked(r, q) ==
    IF Empty(q) THEN r
    ELSE [head |-> IF Empty(r) THEN q.head ELSE r.head,
          tail |-> q.tail,
          next |-> [t \in Tid |-> IF t \in Waiting(q) THEN q.next[t] ELSE r.next[t]]]

(* thread_wakeup(queue, 1) enqueues the waiting threads one by one, which  *)
(* links the whole chain from head to tail behind the ready queue r.       *)
Splice(r, q) ==
    IF Empty(q) THEN r
    ELSE [head |-> IF Empty(r) THEN q.head ELSE r.head,
          tail |-> q.tail,
          next |-> [t \in Tid |-> IF t \in Waiting(q) THEN q.next[t]
                                  ELSE IF t = r.tail THEN q.head
                                  ELSE r.next[t]]]

(* Faulty variant of SleepOn: the next thread stays in the ready queue. *)
SleepOnKeepsNext(k, r) ==
    /\ wq' = [wq EXCEPT ![k] = WaitAppend(@, current_thread)]
    /\ ready' = r
    /\ current_thread' = r.head
    /\ pc' = [pc EXCEPT ![current_thread] = SleepPC[k]]

(* thread_sleep behind its early returns, for a ready queue r.             *)
SleepOn(k, r) ==
    /\ wq' = [wq EXCEPT ![k] = WaitAppend(@, current_thread)]
    /\ ready' = Unlink(r, r.head)
    /\ current_thread' = r.head
    /\ pc' = [pc EXCEPT ![current_thread] = SleepPC[k]]

(* A call reads or writes a queue that is not what it should be. *)
GoesWild ==
    /\ wild' = TRUE
    /\ UNCHANGED <<vars, wq, l, acquired_thread_id, live, holding, spoiled>>

-----------------------------------------------------------------------------
(* The clients.  Each rule is one thread.c does not enforce; a run names   *)
(* the rules it assumes.  thread.h:98, 132, 143, 149 and 153 ask the       *)
(* package itself to check destroy_empty and owner; the code does not, see *)
(* thread.c:653, 893 and the calls of the condition variable.              *)
(*   owner          only the thread that holds the lock calls lock_release,*)
(*                  cv_wait, cv_signal and cv_broadcast                    *)
(*   acquire_once   the holder does not acquire the lock again             *)
(*   holder_stays   the holder neither exits, sleeps on another queue nor  *)
(*                  is killed                                              *)
(*   destroy_empty  a wait queue is destroyed when nobody sleeps in it     *)
(*   destroy_idle   the lock is destroyed when no thread is inside a call  *)
(*                  that still uses it                                     *)
MayUseLock    == "owner" \in Rules => current_thread \in holding
MayAcquire    == "acquire_once" \in Rules => current_thread \notin holding
MayStop(t)    == "holder_stays" \in Rules => t \notin holding
MayDestroyBare == "destroy_empty" \in Rules => Asleep("bare") = {}
MayDestroyLock == "destroy_idle" \in Rules =>
                    \A t \in Tid : pc[t] \notin {"acquire", "acquire_sleep", "cv_sleep"}

-----------------------------------------------------------------------------
(* Creation and destruction.  wait_queue_create makes the queue empty;     *)
(* lock_create and cv_create leave in it what malloc's memory held: that   *)
(* of an empty queue, or anything else.  What freed memory holds does not  *)
(* matter, it is an empty queue here.                                      *)

wait_queue_create ==
    /\ Running /\ "bare" \in Used \ live
    /\ live' = live \cup {"bare"}
    /\ wq' = [wq EXCEPT !["bare"] = EmptyList]
    /\ UNCHANGED <<vars, l, acquired_thread_id, holding, spoiled, wild>>

wait_queue_destroy ==
    /\ Running /\ "bare" \in live /\ MayDestroyBare
    /\ live' = live \ {"bare"}
    /\ spoiled' = spoiled \ {"bare"}
    /\ wq' = [wq EXCEPT !["bare"] = EmptyList]
    /\ UNCHANGED <<vars, l, acquired_thread_id, holding, wild>>

Malloced(k) ==
    \E q \in {EmptyList, Zeroed} :
        /\ wq' = [wq EXCEPT ![k] = q]
        /\ spoiled' = IF Empty(q) THEN spoiled ELSE spoiled \cup {k}

lock_create ==
    /\ Running /\ "lock" \in Used \ live
    /\ live' = live \cup {"lock"}
    /\ Malloced("lock")
    /\ l' = 0
    /\ acquired_thread_id' = Nil
    /\ UNCHANGED <<vars, holding, wild>>

lock_destroy ==
    /\ Running /\ "lock" \in live /\ MayDestroyLock
    /\ l = 0
    /\ live' = live \ {"lock"}
    /\ spoiled' = spoiled \ {"lock"}
    /\ wq' = [wq EXCEPT !["lock"] = EmptyList]
    /\ UNCHANGED <<vars, l, acquired_thread_id, holding, wild>>

cv_create ==
    /\ Running /\ "cv" \in Used \ live
    /\ live' = live \cup {"cv"}
    /\ Malloced("cv")
    /\ UNCHANGED <<vars, l, acquired_thread_id, holding, wild>>

(* A spoiled queue does not look empty: the condition variable stays. *)
cv_destroy ==
    /\ Running /\ "cv" \in live
    /\ Empty(wq["cv"])
    /\ live' = live \ {"cv"}
    /\ spoiled' = spoiled \ {"cv"}
    /\ UNCHANGED <<vars, wq, l, acquired_thread_id, holding, wild>>

-----------------------------------------------------------------------------
(* thread_sleep and thread_wakeup.  A client without a queue passes NULL.  *)

thread_sleep ==
    /\ Running
    /\ MayStop(current_thread)
    /\ \/ /\ "bare" \notin live
          /\ ret' = "invalid"
          /\ UNCHANGED <<ready, current_thread, pc, wq, wild>>
       \/ /\ "bare" \in live
          /\ Empty(ready)
          /\ ret' = "none"
          /\ UNCHANGED <<ready, current_thread, pc, wq, wild>>
       \/ /\ "bare" \in Sound
          /\ ~Empty(ready)
          /\ ret' = "ok"
          /\ SleepOn("bare", ready)
          /\ UNCHANGED wild
       \/ /\ "bare" \in spoiled
          /\ ~Empty(ready)
          /\ GoesWild
    /\ UNCHANGED <<threadVars, l, acquired_thread_id, live, holding, spoiled>>

(* The queue operations of thread_wakeup.  One that wakes the last thread  *)
(* leaves it as the tail and reads its link, which says nothing, as the    *)
(* new head.                                                               *)
WakeOne(k) ==
    IF Empty(wq[k]) THEN UNCHANGED <<ready, wq, spoiled>>
    ELSE /\ ready' = Enqueue(ready, wq[k].head)
         /\ wq' = [wq EXCEPT ![k] = WaitAdvance(@)]
         /\ spoiled' = IF wq[k].head = wq[k].tail THEN spoiled \cup {k} ELSE spoiled

WakeAll(k) ==
    /\ ready' = Splice(ready, wq[k])
    /\ wq' = [wq EXCEPT ![k] = EmptyList]
    /\ UNCHANGED spoiled

thread_wakeup ==
    /\ Running /\ "bare" \in live
    /\ \/ /\ "bare" \in Sound
          /\ WakeOne("bare") \/ WakeAll("bare")
          /\ ret' = "ok"
          /\ UNCHANGED wild
       \/ "bare" \in spoiled /\ GoesWild
    /\ UNCHANGED <<threadVars, current_thread, pc, l, acquired_thread_id, live, holding>>

-----------------------------------------------------------------------------
(* The lock. *)

(* A call of lock_acquire comes to its loop. *)
lock_acquire ==
    /\ Running /\ "lock" \in live /\ MayAcquire
    /\ pc' = [pc EXCEPT ![current_thread] = "acquire"]
    /\ UNCHANGED <<threadVars, ready, current_thread, ret, syncVars>>

(* The loop: take the lock if it is free, sleep in its queue if another    *)
(* thread can run, and otherwise go round for ever (no step).              *)
lock_acquire_loop ==
    /\ pc[current_thread] = "acquire"
    /\ \/ /\ l = 0
          /\ l' = 1
          /\ acquired_thread_id' = current_thread
          /\ holding' = holding \cup {current_thread}
          /\ pc' = [pc EXCEPT ![current_thread] = "user"]
          /\ UNCHANGED <<ready, current_thread, wq, wild>>
       \/ /\ l = 1
          /\ ~Empty(ready)
          /\ "lock" \in Sound
          /\ SleepOn("lock", ready)
          /\ UNCHANGED <<l, acquired_thread_id, holding, wild>>
       \/ /\ l = 1
          /\ ~Empty(ready)
          /\ "lock" \in spoiled
          /\ GoesWild
    /\ UNCHANGED <<threadVars, ret, live, spoiled>>

(* Faulty variant: a release wakes the first waiter only. *)
ReleaseWakesOne ==
    /\ Running /\ "lock" \in Sound /\ MayUseLock
    /\ l = 1
    /\ IF Empty(wq["lock"]) THEN UNCHANGED <<ready, wq>>
       ELSE /\ ready' = Enqueue(ready, wq["lock"].head)
            /\ wq' = [wq EXCEPT !["lock"] = Unlink(@, @.head)]
    /\ l' = 0
    /\ acquired_thread_id' = Nil
    /\ holding' = holding \ {current_thread}
    /\ UNCHANGED <<threadVars, current_thread, pc, ret, live, spoiled, wild>>

(* Nothing happens when the lock is free.  The caller is not compared with *)
(* the holder.                                                             *)
lock_release ==
    /\ Running /\ "lock" \in live /\ MayUseLock
    /\ l = 1
    /\ \/ /\ "lock" \in Sound
          /\ WakeAll("lock")
          /\ l' = 0
          /\ acquired_thread_id' = Nil
          /\ holding' = holding \ {current_thread}
          /\ UNCHANGED wild
       \/ "lock" \in spoiled /\ GoesWild
    /\ UNCHANGED <<threadVars, current_thread, pc, ret, live>>

-----------------------------------------------------------------------------
(* The condition variable.  Its calls do nothing when the lock is free.    *)

(* Faulty variants: the caller sleeps also when nobody can run; it keeps   *)
(* the lock; it frees the lock and wakes nobody.                           *)
CvWaitAlone ==
    /\ Running /\ {"lock", "cv"} \subseteq Sound /\ MayUseLock
    /\ l = 1
    /\ l' = 0
    /\ acquired_thread_id' = Nil
    /\ holding' = holding \ {current_thread}
    /\ LET r == Splice(ready, wq["lock"])
       IN /\ wq' = [wq EXCEPT !["lock"] = EmptyList,
                              !["cv"] = WaitAppend(@, current_thread)]
          /\ ready' = Unlink(r, r.head)
          /\ current_thread' = r.head
          /\ pc' = [pc EXCEPT ![current_thread] = "cv_sleep"]
    /\ UNCHANGED <<threadVars, ret, live, spoiled, wild>>

CvWaitKeepsLock ==
    /\ Running /\ {"lock", "cv"} \subseteq Sound /\ MayUseLock
    /\ l = 1
    /\ ~Empty(ready)
    /\ SleepOn("cv", ready)
    /\ UNCHANGED <<threadVars, ret, l, acquired_thread_id, live, holding, spoiled, wild>>

CvWaitWakesNobody ==
    /\ Running /\ {"lock", "cv"} \subseteq Sound /\ MayUseLock
    /\ l = 1
    /\ ~Empty(ready)
    /\ l' = 0
    /\ acquired_thread_id' = Nil
    /\ holding' = holding \ {current_thread}
    /\ SleepOn("cv", ready)
    /\ UNCHANGED <<threadVars, ret, live, spoiled, wild>>

(* cv_wait releases the lock, waking its waiters, and sleeps; if even then *)
(* nobody else can run, thread_sleep returns before it looks at the queue  *)
(* and the lock is taken back.                                             *)
cv_wait ==
    /\ Running /\ {"lock", "cv"} \subseteq live /\ MayUseLock
    /\ l = 1
    /\ LET r == Splice(ready, wq["lock"])
       IN \/ /\ {"lock", "cv"} \subseteq Sound
             /\ ~Empty(r)
             /\ wq' = [wq EXCEPT !["lock"] = EmptyList,
                                 !["cv"] = WaitAppend(@, current_thread)]
             /\ ready' = Unlink(r, r.head)
             /\ current_thread' = r.head
             /\ pc' = [pc EXCEPT ![current_thread] = "cv_sleep"]
             /\ l' = 0
             /\ acquired_thread_id' = Nil
             /\ holding' = holding \ {current_thread}
             /\ UNCHANGED wild
          \/ /\ "lock" \in Sound
             /\ Empty(r)
             /\ pc' = [pc EXCEPT ![current_thread] = "acquire"]
             /\ l' = 0
             /\ acquired_thread_id' = Nil
             /\ holding' = holding \ {current_thread}
             /\ UNCHANGED <<ready, current_thread, wq, wild>>
          \/ /\ "lock" \in spoiled \/ ("cv" \in spoiled /\ ~Empty(r))
             /\ GoesWild
    /\ UNCHANGED <<threadVars, ret, live, spoiled>>

cv_signal ==
    /\ Running /\ {"lock", "cv"} \subseteq live /\ MayUseLock
    /\ l = 1
    /\ \/ "cv" \in Sound /\ WakeOne("cv") /\ UNCHANGED wild
       \/ "cv" \in spoiled /\ GoesWild
    /\ UNCHANGED <<threadVars, current_thread, pc, ret, l, acquired_thread_id, live, holding>>

cv_broadcast ==
    /\ Running /\ {"lock", "cv"} \subseteq live /\ MayUseLock
    /\ l = 1
    /\ \/ "cv" \in Sound /\ WakeAll("cv") /\ UNCHANGED wild
       \/ "cv" \in spoiled /\ GoesWild
    /\ UNCHANGED <<threadVars, current_thread, pc, ret, l, acquired_thread_id, live, holding>>

-----------------------------------------------------------------------------
(* Faulty variants: a woken thread takes the lock without testing it again *)
(* (`if' for `while'); cv_wait returns without the lock.                   *)
ReturnWithoutTest ==
    /\ pc[current_thread] \in {"sleep", "acquire_sleep", "cv_sleep"}
    /\ clean_exit_array
    /\ pc' = [t \in Tid |-> IF t = current_thread THEN "user"
                            ELSE IF t \in Reaped /\ pc[t] = "exit" THEN "free"
                            ELSE pc[t]]
    /\ IF pc[current_thread] = "sleep" THEN UNCHANGED <<l, acquired_thread_id, holding>>
       ELSE /\ l' = 1
            /\ acquired_thread_id' = current_thread
            /\ holding' = holding \cup {current_thread}
    /\ UNCHANGED <<current_thread, ret, wq, live, spoiled, wild>>

ReturnWithoutLock ==
    /\ pc[current_thread] \in {"sleep", "acquire_sleep", "cv_sleep"}
    /\ clean_exit_array
    /\ pc' = [t \in Tid |->
                IF t = current_thread
                THEN IF pc[t] = "acquire_sleep" THEN "acquire" ELSE "user"
                ELSE IF t \in Reaped /\ pc[t] = "exit" THEN "free"
                ELSE pc[t]]
    /\ UNCHANGED <<current_thread, ret, syncVars>>

(* A woken thread that was given the processor: thread_sleep reaps the     *)
(* exited threads and returns to its caller.                               *)
sleep_return ==
    /\ pc[current_thread] \in {"sleep", "acquire_sleep", "cv_sleep"}
    /\ clean_exit_array
    /\ pc' = [t \in Tid |->
                IF t = current_thread
                THEN IF pc[t] = "sleep" THEN "user" ELSE "acquire"
                ELSE IF t \in Reaped /\ pc[t] = "exit" THEN "free"
                ELSE pc[t]]
    /\ UNCHANGED <<current_thread, ret, syncVars>>

(* The calls of Threads, of which only exit and kill can stop the holder.  *)
ThreadStep ==
    /\ \/ thread_create
       \/ \E want \in WantTids : thread_yield(want)
       \/ MayStop(current_thread) /\ (thread_exit \/ thread_stub_return)
       \/ \E tid \in KillTids : MayStop(tid) /\ thread_kill(tid)
       \/ interrupt_handler
       \/ Resume
       \/ Halted
    /\ UNCHANGED syncVars

SyncStep ==
    \/ wait_queue_create \/ wait_queue_destroy
    \/ lock_create \/ lock_destroy
    \/ cv_create \/ cv_destroy
    \/ thread_sleep \/ thread_wakeup
    \/ lock_acquire \/ lock_acquire_loop \/ lock_release
    \/ cv_wait \/ cv_signal \/ cv_broadcast
    \/ sleep_return

Stopped == wild /\ UNCHANGED allVars

SyncNext == (~wild /\ (ThreadStep \/ SyncStep)) \/ Stopped
SyncSpec == SyncInit /\ [][SyncNext]_allVars

GoesOn ==
    \/ Resume /\ UNCHANGED syncVars
    \/ sleep_return
    \/ lock_acquire_loop

(* The timer and the resumptions as in Threads.  A thread in lock_acquire  *)
(* goes on.  The holder of a lock releases it some time, as the clients in *)
(* test_thread.c do.                                                       *)
SyncFairSpec ==
    /\ SyncSpec
    /\ WF_allVars(~wild /\ GoesOn)
    /\ SF_allVars(~wild /\ interrupt_handler /\ UNCHANGED syncVars)
    /\ \A t \in Tid : SF_allVars(~wild /\ current_thread = t /\ lock_release)

-----------------------------------------------------------------------------
(* Properties. *)

SyncTypeOK ==
    /\ thread_state \in [Tid -> {EXIT, READY, NONE_STATE}]
    /\ has_stack \in [Tid -> BOOLEAN]
    /\ ready \in List
    /\ exit_array \in [Tid -> Link]
    /\ current_thread \in Tid
    /\ pc \in [Tid -> SyncPCs]
    /\ ret \in Results
    /\ wq \in [Queues -> List]
    /\ l \in {0, 1}
    /\ acquired_thread_id \in Link
    /\ live \subseteq Queues
    /\ holding \subseteq Tid
    /\ spoiled \subseteq live
    /\ wild \in BOOLEAN

(* The ready queue is a chain that ends at its tail, and so is every wait  *)
(* queue but those that lock_create, cv_create or the waking of the last   *)
(* thread have left spoiled, through every splice of one queue behind      *)
(* another.  It holds exactly the threads that sleep in it: no waiter is   *)
(* lost and no thread that does not sleep there will be woken from it.     *)
(* A spoiled queue never has a sleeper: nobody was lost in it when it came *)
(* to be so, and the first who would sleep in it is a step to wild.        *)
WaitersIntact ==
    /\ ReadyListIntact
    /\ \A k \in Queues :
          /\ k \in Sound => Waiting(wq[k]) = Asleep(k) /\ WellFormed(wq[k])
          /\ k \notin Sound => Asleep(k) = {}

(* OnePlace, with the wait queues that are not spoiled as places. *)
SyncOnePlace ==
    \A t \in Tid :
        LET suspended == pc[t] \in {"stub", "yield", "sleep", "acquire_sleep", "cv_sleep"}
            asleep    == \E k \in Sound : t \in Waiting(wq[k])
        IN /\ t = current_thread => t \notin Listed(ready) /\ ~asleep /\ pc[t] \notin {"exit", "free"}
           /\ t # current_thread => (t \in Listed(ready) \/ asleep <=> suspended)
           /\ t \in Listed(ready) => ~asleep
           /\ \A j, k \in Sound :
                 t \in Waiting(wq[j]) /\ t \in Waiting(wq[k]) => j = k
           /\ t \in Zombies <=> pc[t] = "exit"

(* At most one thread has acquired the lock and not released it, the lock  *)
(* knows which, and it is free exactly when there is none.                 *)
MutualExclusion ==
    "lock" \in live => holding = IF l = 1 THEN {acquired_thread_id} ELSE {}

(* Nobody sleeps on a free lock: a release cannot slip in between the test *)
(* of lock->l and the sleep, and no release forgets a waiter.              *)
NoSleepOnFreeLock == "lock" \in live /\ l = 0 => Asleep("lock") = {}

(* While the lock is held its holder can run: it is running or in the      *)
(* ready queue, so the loop of lock_acquire always finds another thread to *)
(* switch to and never spins with the timer signal blocked.                *)
HolderRunnable ==
    /\ l = 1 => acquired_thread_id = current_thread \/ acquired_thread_id \in Listed(ready)
    /\ pc[current_thread] = "acquire" /\ l = 1 => ~Empty(ready)

(* thread.h:112 on thread_wakeup: "wake up one or more threads that are    *)
(* suspended in the wait queue".  The thread it would take next is one.    *)
WakesSuspended ==
    \A k \in live : ~Empty(wq[k]) => wq[k].head \in Asleep(k)

(* A thread that sleeps for the lock is woken, unless some call uses a     *)
(* spoiled queue before: the holder is never kept from running, and its    *)
(* release, or its cv_wait, wakes everybody.                               *)
LockWaiterWoken ==
    \A t \in Tid : t \in Asleep("lock") ~> t \notin Asleep("lock") \/ wild
=============================================================================

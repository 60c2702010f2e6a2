------------------------------ MODULE Monitor ------------------------------
(***************************************************************************)
(* What threads/thread.h promises of wait queues, the lock and the         *)
(* condition variable: first-in first-out queues of threads that sleep,    *)
(* and one owner of the lock.  The processor is shared as in Scheduler.    *)
(* Sync implements it for clients that keep its rules.                     *)
(***************************************************************************)
EXTENDS Scheduler

CONSTANTS
    Queues,      \* names of the wait queues; "lock" and "cv" are among them
    NoOwner

VARIABLES
    waiting,     \* the threads that sleep, for each queue
    wanting,     \* threads inside lock_acquire: woken or not yet asleep
    owner        \* the thread that has the lock, or NoOwner

monitorVars == <<waiting, wanting, owner>>

MonitorInit ==
    /\ Init
    /\ waiting = [k \in Queues |-> <<>>]
    /\ wanting = {}
    /\ owner = NoOwner

(* The running thread joins the end of queue k, the first of q runs. *)
SleepAfter(k, q) ==
    /\ q # <<>>
    /\ waiting' = [waiting EXCEPT ![k] = Append(@, running)]
    /\ running' = Head(q)
    /\ queue' = Tail(q)

(* thread_sleep.  THREAD_NONE: nobody else can run. *)
Sleep(k) ==
    \/ /\ SleepAfter(k, queue)
       /\ ret' = "ok"
       /\ UNCHANGED <<wanting, owner>>
    \/ /\ queue = <<>>
       /\ ret' = "none"
       /\ UNCHANGED <<running, queue, monitorVars>>

SleepInvalid ==
    /\ ret' = "invalid"
    /\ UNCHANGED <<running, queue, monitorVars>>

(* "Wake up threads in FIFO order": one, the first, or all. *)
WakeFirst(k) ==
    IF waiting[k] = <<>> THEN UNCHANGED <<queue, waiting>>
    ELSE /\ queue' = Append(queue, Head(waiting[k]))
         /\ waiting' = [waiting EXCEPT ![k] = Tail(@)]

WakeEverybody(k) ==
    /\ queue' = queue \o waiting[k]
    /\ waiting' = [waiting EXCEPT ![k] = <<>>]

Wakeup(k) ==
    /\ WakeFirst(k) \/ WakeEverybody(k)
    /\ UNCHANGED <<running, wanting, owner>>

(* "threads should be suspended until they can acquire the lock". *)
Want ==
    /\ wanting' = wanting \cup {running}
    /\ UNCHANGED <<running, queue, waiting, owner, ret>>

Acquire ==
    /\ running \in wanting
    /\ \/ /\ owner = NoOwner
          /\ owner' = running
          /\ wanting' = wanting \ {running}
          /\ UNCHANGED <<running, queue, waiting>>
       \/ /\ owner # NoOwner
          /\ SleepAfter("lock", queue)
          /\ UNCHANGED <<wanting, owner>>
    /\ UNCHANGED ret

(* "wakeup all threads that are waiting to acquire the lock". *)
Release ==
    /\ owner = running
    /\ owner' = NoOwner
    /\ WakeEverybody("lock")
    /\ UNCHANGED <<running, wanting, ret>>

(* "you will need to release the lock before waiting, and reacquire it     *)
(* before returning": the caller is among those who want it from now on.   *)
CvWait ==
    /\ owner = running
    /\ owner' = NoOwner
    /\ wanting' = wanting \cup {running}
    /\ LET q == queue \o waiting["lock"]
       IN \/ /\ q # <<>>
             /\ waiting' = [waiting EXCEPT !["lock"] = <<>>,
                                           !["cv"] = Append(@, running)]
             /\ running' = Head(q)
             /\ queue' = Tail(q)
          \/ /\ q = <<>>
             /\ UNCHANGED <<running, queue, waiting>>
    /\ UNCHANGED ret

(* cv_signal, cv_broadcast: only the owner wakes threads from the cv. *)
Notify ==
    /\ owner = running
    /\ WakeFirst("cv") \/ WakeEverybody("cv")
    /\ UNCHANGED <<running, wanting, owner, ret>>

SleepCall == \/ SleepInvalid
             \/ Sleep("bare")
             \/ Wakeup("bare") /\ ret' = "ok"

LockCall == running \notin wanting /\ (Want \/ Release \/ CvWait \/ Notify)

Blocking ==
    /\ ~halted /\ zombies = {}
    /\ \/ running \notin wanting /\ SleepCall
       \/ LockCall
       \/ Acquire
    /\ asleep' = UNION {ToSet(waiting'[k]) : k \in Queues}
    /\ UNCHANGED <<zombies, halted>>

(* A thread that is not running may be killed, also one that wants the     *)
(* lock; the owner never is.                                               *)
Scheduling ==
    /\ Next
    /\ running \notin wanting \/ zombies # zombies'
    /\ UNCHANGED <<waiting, owner>>
    /\ wanting' \in SUBSET wanting
    /\ wanting \ wanting' \subseteq ToSet(queue) \ (ToSet(queue') \cup {running'})

MonitorNext == Scheduling \/ Blocking
MonitorSpec == MonitorInit /\ [][MonitorNext]_<<vars, monitorVars>>
=============================================================================

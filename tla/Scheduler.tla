----------------------------- MODULE Scheduler -----------------------------
(***************************************************************************)
(* What threads/thread.h promises of the threads package: one thread runs, *)
(* the available others wait in a first-in first-out queue, a call either  *)
(* succeeds or leaves everything as it was and says why.  There are no     *)
(* links, control blocks or stacks here.  Threads implements it; Monitor   *)
(* adds the calls that make threads wait.                                  *)
(***************************************************************************)
EXTENDS Integers, Sequences, SequencesExt

CONSTANTS
    MaxThreads, WantTids, KillTids,
    Unpromised      \* those of KillTids for which thread_kill may refuse
                    \* and answer as it likes

THREAD_ANY  == -1
THREAD_SELF == -2
Tid == 0 .. (MaxThreads - 1)

VARIABLES
    running,      \* the thread that has the processor
    queue,        \* the ready queue
    zombies,      \* threads that exited and whose identifier is not free yet
    asleep,       \* threads that wait for something else than the processor
    halted,       \* the last thread has returned and the process has exited
    ret           \* the result of the last call

vars == <<running, queue, zombies, asleep, halted, ret>>

InUse == {running} \cup ToSet(queue) \cup zombies \cup asleep
Remove1(t) == RemoveAt(queue, CHOOSE i \in DOMAIN queue : queue[i] = t)

Init ==
    /\ running = 0
    /\ queue = <<>>
    /\ zombies = {}
    /\ asleep = {}
    /\ halted = FALSE
    /\ ret = "ok"

(* THREAD_NOMORE: no more threads can be created.  THREAD_NOMEMORY: no     *)
(* memory for a stack.  The identifier of the main thread is not reused.   *)
Create ==
    /\ \/ /\ Tid \ {0} \subseteq InUse
          /\ ret' = "nomore"
          /\ UNCHANGED queue
       \/ /\ ~(Tid \ {0} \subseteq InUse)
          /\ ret' = "nomemory"
          /\ UNCHANGED queue
       \/ \E t \in Tid \ ({0} \cup InUse) :
          /\ queue' = Append(queue, t)
          /\ ret' = "ok"
    /\ UNCHANGED <<running, zombies, halted>>

(* The caller goes to the end of the queue, w runs. *)
Switch(w) ==
    /\ queue' = Append(Remove1(w), running)
    /\ running' = w
    /\ UNCHANGED <<zombies, halted>>

(* THREAD_NONE: nothing but the caller can run.  THREAD_INVALID: the       *)
(* thread asked for cannot.                                                *)
Yield(want) ==
    \/ /\ want \in {THREAD_SELF, running}
       /\ ret' = "ok"
       /\ UNCHANGED <<running, queue, zombies, halted>>
    \/ /\ want = THREAD_ANY
       /\ queue = <<>>
       /\ ret' = "none"
       /\ UNCHANGED <<running, queue, zombies, halted>>
    \/ /\ want = THREAD_ANY
       /\ queue # <<>>
       /\ Switch(Head(queue))
       /\ ret' = "ok"
    \/ /\ want \notin {THREAD_ANY, THREAD_SELF, running} \cup ToSet(queue)
       /\ ret' = "invalid"
       /\ UNCHANGED <<running, queue, zombies, halted>>
    \/ /\ want \in ToSet(queue)
       /\ Switch(want)
       /\ ret' = "ok"

Preempt ==
    /\ queue # <<>>
    /\ Switch(Head(queue))
    /\ UNCHANGED ret

(* "this function should not return (unless it fails)"; THREAD_NONE: this  *)
(* is the last thread in the system.                                       *)
Exit ==
    \/ /\ queue # <<>>
       /\ zombies' = zombies \cup {running}
       /\ running' = Head(queue)
       /\ queue' = Tail(queue)
       /\ UNCHANGED <<halted, ret>>
    \/ /\ queue = <<>>
       /\ ret' = "none"
       /\ halted' \in BOOLEAN
       /\ UNCHANGED <<running, queue, zombies>>

Kill(tid) ==
    \/ /\ tid \in ToSet(queue)
       /\ queue' = Remove1(tid)
       /\ ret' = "ok"
       /\ UNCHANGED <<running, zombies, halted>>
    \/ /\ tid \notin ToSet(queue)
       /\ ret' = "invalid"
       /\ UNCHANGED <<running, queue, zombies, halted>>
    \/ /\ tid \in Unpromised
       /\ ret' \in {"ok", "invalid"}
       /\ UNCHANGED <<running, queue, zombies, halted>>

(* "In the future, a new thread should be able to reuse this thread's      *)
(* identifier": exited threads are taken away before the next thread's own *)
(* code runs.                                                              *)
Reap ==
    /\ zombies # {}
    /\ zombies' = {}
    /\ UNCHANGED <<running, queue, halted, ret>>

Call ==
    \/ Create
    \/ \E want \in WantTids : Yield(want)
    \/ Preempt
    \/ Exit
    \/ \E tid \in KillTids : Kill(tid)

Next == ~halted /\ (Reap \/ (zombies = {} /\ Call)) /\ UNCHANGED asleep

Spec == Init /\ [][Next]_vars
=============================================================================

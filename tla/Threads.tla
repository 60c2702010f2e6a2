------------------------------ MODULE Threads ------------------------------
(***************************************************************************)
(* The user-level threads package of threads/thread.c with the timer       *)
(* preemption of threads/interrupt.c.                                      *)
(*                                                                         *)
(* Every call of the package runs with the timer signal blocked, so it is  *)
(* one step up to the setcontext() that gives the processor to another     *)
(* thread.  What the other thread then does before it unblocks the signal  *)
(* (reap the exited threads, return to its own code) is a second step, and *)
(* nothing can come between the two.  pc[t] says where thread t stands:    *)
(*   "user"   in client code, the signal unblocked                         *)
(*   "stub"   created and not yet run: it will start in thread_stub        *)
(*   "yield"  in thread_yield, switched out                                *)
(*   "exit"   in thread_exit, switched out for good                        *)
(*   "free"   the identifier is not in use                                 *)
(*   "halt"   the process has called exit(0)                               *)
(* ret is the result of the last call of the package, where OK stands for  *)
(* the results that thread_ret_ok accepts (tid >= 0).                      *)
(***************************************************************************)
EXTENDS ThreadList, FiniteSets

CONSTANTS
    ExitFill,     \* what exit_array holds at the start, see Init
    WantTids,     \* arguments clients give to thread_yield
    KillTids      \* arguments clients give to thread_kill

ASSUME ExitFillAssumption == ExitFill \in {Nil, 0}
ASSUME ArgumentsAssumption == WantTids \subseteq Int /\ KillTids \subseteq Int

(* The control codes of thread.h and the states of thread.c. *)
THREAD_ANY  == -1
THREAD_SELF == -2
EXIT       == 2
READY      == 1
NONE_STATE == -1

Results == {"ok", "invalid", "none", "nomore", "nomemory"}
PCs     == {"user", "stub", "yield", "exit", "free", "halt"}

VARIABLES
    thread_state,    \* thread_array[t].thread_state
    has_stack,       \* ~ thread_array[t].stack_ptr_to_NULL
    ready,           \* ready_queue_head_id, ready_queue_tail_id, next_ready
    exit_array,
    current_thread,
    pc,
    ret

vars == <<thread_state, has_stack, ready, exit_array, current_thread, pc, ret>>

(***************************************************************************)
(* After thread_init only thread 0, the main thread, exists.  Its state    *)
(* stays NONE_STATE and it has no stack of its own.  `exit_array[N] =      *)
(* {-1}' sets entry 0 and leaves zero in the others: ExitFill = 0 is the   *)
(* process at its start, ExitFill = Nil the same state once the array has  *)
(* been through one reaping, which leaves Nil everywhere.                  *)
(***************************************************************************)
Init ==
    /\ thread_state = [t \in Tid |-> NONE_STATE]
    /\ has_stack = [t \in Tid |-> FALSE]
    /\ ready = EmptyList
    /\ exit_array = [i \in Tid |-> IF i = 0 THEN Nil ELSE ExitFill]
    /\ current_thread = 0
    /\ pc = [t \in Tid |-> IF t = 0 THEN "user" ELSE "free"]
    /\ ret = "ok"

Running == pc[current_thread] = "user"

-----------------------------------------------------------------------------
(* The exited threads that wait to be reaped.                              *)

(* Faulty variant of InUse: the loop starts at 1. *)
InUseFromOne(i) == i # 0 /\ \A j \in 1 .. i : exit_array[j] # Nil

(* The entries the loop of clean_exit_array visits before its break. *)
InUse(i) == \A j \in 0 .. i : exit_array[j] # Nil
Reaped == {exit_array[i] : i \in {j \in Tid : InUse(j)}}

(* Faulty variant: the entries are not cleared. *)
CleanKeepsEntries ==
    /\ ready' = [ready EXCEPT !.next =
                    [t \in Tid |-> IF t \in Reaped THEN Nil ELSE ready.next[t]]]
    /\ has_stack' = [t \in Tid |-> t \notin Reaped /\ has_stack[t]]
    /\ thread_state' =
         [t \in Tid |-> IF t \in Reaped THEN NONE_STATE ELSE thread_state[t]]
    /\ UNCHANGED exit_array

clean_exit_array ==
    /\ ready' = [ready EXCEPT !.next =
                    [t \in Tid |-> IF t \in Reaped THEN Nil ELSE ready.next[t]]]
    /\ has_stack' = [t \in Tid |-> t \notin Reaped /\ has_stack[t]]
    /\ thread_state' =
         [t \in Tid |-> IF t \in Reaped THEN NONE_STATE ELSE thread_state[t]]
    /\ exit_array' = [i \in Tid |-> IF InUse(i) THEN Nil ELSE exit_array[i]]

(* thread_yield puts an exiting caller in the first entry that is free. *)
FirstFree(i) == exit_array[i] = Nil /\ \A j \in 0 .. (i - 1) : exit_array[j] # Nil
PutInExitArray(t) ==
    exit_array' = [i \in Tid |-> IF FirstFree(i) THEN t ELSE exit_array[i]]

-----------------------------------------------------------------------------
(* thread_create: the lowest identifier other than 0 that is available. *)
Available(t) == t # 0 /\ (~has_stack[t] \/ thread_state[t] = NONE_STATE)

thread_create ==
    /\ Running
    /\ \/ /\ \A t \in Tid : ~Available(t)
          /\ ret' = "nomore"
          /\ UNCHANGED <<thread_state, has_stack, ready, pc>>
       \/ /\ \E t \in Tid : Available(t)      \* malloc fails
          /\ ret' = "nomemory"
          /\ UNCHANGED <<thread_state, has_stack, ready, pc>>
       \/ \E t \in Tid :
          /\ Available(t)
          /\ \A u \in Tid : u < t => ~Available(u)
          /\ thread_state' = [thread_state EXCEPT ![t] = READY]
          /\ has_stack' = [has_stack EXCEPT ![t] = TRUE]
          /\ ready' = LinkAtTail(ready, t)
          /\ pc' = [pc EXCEPT ![t] = "stub"]
          /\ ret' = "ok"
    /\ UNCHANGED <<exit_array, current_thread>>

(* Faulty variant: the head leaves the queue also when w is another one. *)
SwitchToDropsHead(w) ==
    /\ ready' = Enqueue(Unlink(ready, ready.head), current_thread)
    /\ current_thread' = w
    /\ pc' = [pc EXCEPT ![current_thread] = "yield"]
    /\ UNCHANGED <<thread_state, has_stack, exit_array>>

(* The part of thread_yield behind its early returns, for a caller that is *)
(* not exiting: w leaves the ready queue, the caller goes to its end.      *)
SwitchTo(w) ==
    /\ ready' = Enqueue(Unlink(ready, w), current_thread)
    /\ current_thread' = w
    /\ pc' = [pc EXCEPT ![current_thread] = "yield"]
    /\ UNCHANGED <<thread_state, has_stack, exit_array>>

(* Whether thread_yield can run what it is asked to run.  An identifier    *)
(* outside Tid is never in the ready queue.                                *)
CanRun(want) == IF want = THREAD_ANY THEN ~Empty(ready) ELSE want \in Listed(ready)

thread_yield(want) ==
    /\ Running
    /\ \/ /\ want \in {THREAD_SELF, current_thread}
          /\ ret' = "ok"
          /\ UNCHANGED <<thread_state, has_stack, ready, exit_array, current_thread, pc>>
       \/ /\ want \notin {THREAD_SELF, current_thread}
          /\ ~CanRun(want)
          /\ ret' = IF want = THREAD_ANY THEN "none" ELSE "invalid"
          /\ UNCHANGED <<thread_state, has_stack, ready, exit_array, current_thread, pc>>
       \/ /\ want \notin {THREAD_SELF, current_thread}
          /\ CanRun(want)
          /\ ret' = "ok"
          /\ SwitchTo(IF want = THREAD_ANY THEN ready.head ELSE want)

(* Faulty variant: the youngest thread in the queue runs next. *)
InterruptToTail ==
    /\ Running
    /\ ~Empty(ready)
    /\ SwitchTo(ready.tail)
    /\ UNCHANGED ret

(* The timer signal: thread_yield(THREAD_ANY) in the middle of client      *)
(* code, its result dropped.  With an empty ready queue it does nothing.   *)
interrupt_handler ==
    /\ Running
    /\ ~Empty(ready)
    /\ SwitchTo(ready.head)
    /\ UNCHANGED ret

(* Faulty variant: the head is read after it has moved on. *)
ExitToSecond(w) ==
    /\ thread_state' = [thread_state EXCEPT ![current_thread] = EXIT]
    /\ PutInExitArray(current_thread)
    /\ ready' = Unlink(ready, w)
    /\ current_thread' = ready.next[w]
    /\ pc' = [pc EXCEPT ![current_thread] = "exit"]
    /\ UNCHANGED <<has_stack, ret>>

(* thread_exit with another thread to run: the caller is put in            *)
(* exit_array, and the thread at the head runs next and reaps it.          *)
ExitTo(w) ==
    /\ thread_state' = [thread_state EXCEPT ![current_thread] = EXIT]
    /\ PutInExitArray(current_thread)
    /\ ready' = Unlink(ready, w)
    /\ current_thread' = w
    /\ pc' = [pc EXCEPT ![current_thread] = "exit"]
    /\ UNCHANGED <<has_stack, ret>>

thread_exit ==
    /\ Running
    /\ \/ /\ ~Empty(ready)
          /\ ExitTo(ready.head)
       \/ /\ Empty(ready)
          /\ ret' = "none"
          /\ UNCHANGED <<thread_state, has_stack, ready, exit_array, current_thread, pc>>

(* thread_main returns to thread_stub, which exits the thread, or the      *)
(* process when thread_exit comes back with THREAD_NONE.                   *)
thread_stub_return ==
    /\ Running
    /\ current_thread # 0
    /\ \/ /\ ~Empty(ready)
          /\ ExitTo(ready.head)
       \/ /\ Empty(ready)
          /\ ret' = "none"
          /\ pc' = [pc EXCEPT ![current_thread] = "halt"]
          /\ UNCHANGED <<thread_state, has_stack, ready, exit_array, current_thread>>

(* Faulty variant: the stack of the victim is not freed. *)
KillKeepsStack(tid) ==
    /\ ready' = Unlink(ready, tid)
    /\ thread_state' = [thread_state EXCEPT ![tid] = NONE_STATE]
    /\ pc' = [pc EXCEPT ![tid] = "free"]
    /\ ret' = "ok"
    /\ UNCHANGED <<has_stack, exit_array, current_thread>>

(* thread_kill frees a thread found in the ready queue.                    *)
KillReady(tid) ==
    /\ ready' = Unlink(ready, tid)
    /\ has_stack' = [has_stack EXCEPT ![tid] = FALSE]
    /\ thread_state' = [thread_state EXCEPT ![tid] = NONE_STATE]
    /\ pc' = [pc EXCEPT ![tid] = "free"]
    /\ ret' = "ok"
    /\ UNCHANGED <<exit_array, current_thread>>

(* What thread_kill answers when it kills nobody.  Its range check lets     *)
(* identifiers through for which thread_array[tid] is memory outside the   *)
(* array, and the answer is what that memory makes of it.                  *)
OutsideArray(tid) == tid \in (-7 .. MaxThreads) \ (Tid \cup {THREAD_SELF})
KillRefused(tid) ==
    CASE OutsideArray(tid) -> {"ok", "invalid"}
      [] tid \in Tid \ {current_thread} /\ thread_state[tid] = EXIT -> {"ok"}
      [] OTHER -> {"invalid"}

Killable(tid) ==
    /\ tid \in Tid \ {current_thread}
    /\ thread_state[tid] = READY
    /\ tid \in Listed(ready)

thread_kill(tid) ==
    /\ Running
    /\ \/ /\ Killable(tid)
          /\ KillReady(tid)
       \/ /\ ~Killable(tid)
          /\ ret' \in KillRefused(tid)
          /\ UNCHANGED <<thread_state, has_stack, ready, exit_array, current_thread, pc>>

(* The thread that was given the processor: thread_stub before it calls    *)
(* thread_main, or thread_yield behind the context switch.                 *)
Resume ==
    /\ pc[current_thread] \in {"stub", "yield"}
    /\ clean_exit_array
    /\ pc' = [t \in Tid |-> IF t = current_thread THEN "user"
                            ELSE IF t \in Reaped /\ pc[t] = "exit" THEN "free"
                            ELSE pc[t]]
    /\ UNCHANGED <<current_thread, ret>>

Halted ==
    /\ pc[current_thread] = "halt"
    /\ UNCHANGED vars

-----------------------------------------------------------------------------
Next ==
    \/ thread_create
    \/ \E want \in WantTids : thread_yield(want)
    \/ thread_exit
    \/ thread_stub_return
    \/ \E tid \in KillTids : thread_kill(tid)
    \/ interrupt_handler
    \/ Resume
    \/ Halted

Spec == Init /\ [][Next]_vars

(* A resumed thread goes on by itself.  The timer is armed again by every  *)
(* handler and stays pending while the signal is blocked, so a thread that *)
(* keeps calling the package is interrupted between two calls: strong      *)
(* fairness.                                                               *)
FairSpec == Spec /\ WF_vars(Resume) /\ SF_vars(interrupt_handler)

-----------------------------------------------------------------------------
(* Properties.                                                             *)

TypeOK ==
    /\ thread_state \in [Tid -> {EXIT, READY, NONE_STATE}]
    /\ has_stack \in [Tid -> BOOLEAN]
    /\ ready \in List
    /\ exit_array \in [Tid -> Link]
    /\ current_thread \in Tid
    /\ pc \in [Tid -> PCs]
    /\ ret \in Results

(* Exited threads that are still in exit_array. *)
Zombies == {t \in Tid : \E i \in Tid : exit_array[i] = t}

(* The ready queue is one chain from head to tail, through every call of   *)
(* thread_create, thread_yield, thread_exit and thread_kill, wherever in   *)
(* the queue the thread they take out stands.                              *)
ReadyListIntact == WellFormed(ready)

(* Every thread is in exactly one place: running, in the ready queue,      *)
(* exited and waiting in exit_array, or not in use.  Its pc is the one of  *)
(* that place, so a thread taken from the ready queue has a context to     *)
(* resume and an identifier thread_create hands out is really unused.      *)
OnePlace ==
    \A t \in Tid :
        /\ t = current_thread => pc[t] \in {"user", "stub", "yield", "halt"}
        /\ t # current_thread => pc[t] \in {"stub", "yield", "exit", "free"}
        /\ t # current_thread => (t \in Listed(ready) <=> pc[t] \in {"stub", "yield"})
        /\ t = current_thread => t \notin Listed(ready)
        /\ t \in Zombies <=> pc[t] = "exit"

(* Stacks: every thread that can run again has the stack thread_create     *)
(* allocated (a running thread never frees its own, nobody frees that of a *)
(* suspended one), and an identifier that is not in use holds none (no     *)
(* leak by exit or kill).  thread_state agrees.                            *)
StacksOwned ==
    \A t \in Tid \ {0} :
        /\ has_stack[t] <=> pc[t] # "free"
        /\ thread_state[t] = CASE pc[t] = "free" -> NONE_STATE
                               [] pc[t] = "exit" -> EXIT
                               [] OTHER -> READY

(* When client code runs, no exited thread is left over: whatever ran last *)
(* was reaped by the thread that followed it, so at most one waits.        *)
ReapedBeforeUser ==
    /\ Running => Zombies = {}
    /\ Cardinality(Zombies) <= 1

(* Only a thread that waits suspended in the ready queue is given the      *)
(* processor: one that exited or was killed does not run any further.      *)
OnlySuspendedRun ==
    [][current_thread' # current_thread =>
          /\ pc[current_thread'] \in {"stub", "yield"}
          /\ current_thread' \in Listed(ready)
          /\ current_thread' \notin Listed(ready')]_vars

(* clean_exit_array reaps exited threads and nobody else ("clean all exit  *)
(* state threads in exit queue", thread.c:46): it changes no control block *)
(* of a thread that did not exit.                                          *)
ReapsOnlyExited ==
    [][Resume => \A t \in Tid : thread_state[t] # EXIT =>
          /\ ready'.next[t] = ready.next[t]
          /\ has_stack'[t] = has_stack[t]
          /\ thread_state'[t] = thread_state[t]]_vars

(* A thread in the ready queue gets to run, or is killed, whatever the     *)
(* others do: preemption makes a thread that never yields harmless and     *)
(* directed yields do not overtake for ever.                               *)
ReadyRuns ==
    \A t \in Tid : t \in Listed(ready) ~> t \notin Listed(ready)

(* An exited thread's identifier becomes available again. *)
ExitedReaped ==
    \A t \in Tid : pc[t] = "exit" ~> pc[t] = "free"
=============================================================================

---------------------------- MODULE MCScheduler ----------------------------
(* The threads package implements Scheduler: the sequence its ready queue  *)
(* stands for is the walk along next_ready from ready_queue_head_id.       *)
EXTENDS MCThreads

Sched == INSTANCE Scheduler WITH
            running <- current_thread,
            queue   <- Walk(ready),
            zombies <- Zombies,
            asleep  <- {},
            halted  <- pc[current_thread] = "halt",
            Unpromised <- KillsOtherwise

(* Every step of thread.c and interrupt.c is a step of the scheduler that  *)
(* thread.h describes, or one that changes nothing there.                  *)
ImplementsScheduler == Sched!Spec
=============================================================================

----------------------------- MODULE MCMonitor -----------------------------
(* Sync implements Monitor: every queue is the walk along its links, a     *)
(* spoiled one, in which nobody sleeps, is empty.                          *)
EXTENDS MCSync

Order(k) == IF k \in Sound THEN Walk(wq[k]) ELSE <<>>

Mon == INSTANCE Monitor WITH
          running <- current_thread,
          queue   <- Walk(ready),
          zombies <- Zombies,
          asleep  <- {t \in Tid : \E k \in Sound : t \in Waiting(wq[k])},
          halted  <- pc[current_thread] = "halt",
          waiting <- [k \in Queues |-> Order(k)],
          wanting <- {t \in Tid : pc[t] \in {"acquire", "acquire_sleep", "cv_sleep"}},
          owner   <- IF l = 1 THEN acquired_thread_id ELSE Nil,
          NoOwner <- Nil,
          Unpromised <- KillsOtherwise

(* Every step of the lock, the condition variable and the wait queues, up  *)
(* to the first use of a spoiled queue, is one thread.h describes:         *)
(* sleepers are woken in the order they came, a release wakes all and only *)
(* those who want the lock, cv_wait returns with the lock, nobody passes   *)
(* from wanting the lock to having it while another has it.                *)
ImplementsMonitor == Mon!MonitorSpec
=============================================================================

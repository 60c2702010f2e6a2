----------------------------- MODULE MCThreads -----------------------------
(* TLC instances of Threads: the arguments given to thread_yield and       *)
(* thread_kill are every identifier, the control codes and one number      *)
(* beyond each end of the range the code accepts.                          *)
EXTENDS Threads

MCWantTids == Tid \cup {THREAD_ANY, THREAD_SELF, -8, MaxThreads, MaxThreads + 1}
MCKillTids == MCWantTids

(* Where thread_kill departs from thread.h:78-86: it refuses thread 0      *)
(* always, and lets numbers outside the array through.                     *)
KillsOtherwise == {tid \in KillTids : tid = 0 \/ OutsideArray(tid)}
=============================================================================

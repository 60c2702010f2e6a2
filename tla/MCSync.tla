------------------------------- MODULE MCSync -------------------------------
(* TLC instances of Sync.  Clients yield to any thread, and kill the ones  *)
(* MCThreads names.                                                        *)
EXTENDS Sync, MCScheduler

AnyTid == {THREAD_ANY}
AllObjects == Queues
BareObjects == {"bare"}
AllRules == {"owner", "acquire_once", "holder_stays", "destroy_empty", "destroy_idle"}
=============================================================================

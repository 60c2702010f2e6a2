--------------------------- MODULE RequestBuffer ---------------------------
(***************************************************************************)
(* The bounded buffer of webserver/server_thread.c.  The main thread       *)
(* accepts connections and puts them in a ring (server_request), worker    *)
(* threads take them out and serve them (thread_init).  All accesses to    *)
(* the ring are made with sv->lock held, so what a thread does between     *)
(* getting the mutex and giving it up, by unlocking it or by waiting on a  *)
(* condition variable, is one step.  Mutex and condition variables are     *)
(* those of POSIX: a signal wakes one waiter if there is one, a woken      *)
(* thread gets the mutex again some time later, and a waiter may wake      *)
(* without a signal.                                                       *)
(*                                                                         *)
(* Connections are numbered in the order of accept().  pc is               *)
(*   main thread: "accept"   in accept(), or without a connection in hand  *)
(*                "put"      in server_request, before getting sv->lock    *)
(*                "full"     waiting on sv->full                           *)
(*   a worker:    "take"     before getting sv->lock                       *)
(*                "empty"    waiting on sv->empty                          *)
(*                "serve"    in do_server_request                          *)
(***************************************************************************)
EXTENDS Integers, FiniteSets

CONSTANTS
    Workers,         \* the nr_threads worker threads
    MaxRequests,     \* max_requests
    Connections      \* how many connections arrive: a bound for TLC

ASSUME WorkersAssumption     == IsFiniteSet(Workers) /\ Workers # {}
ASSUME MaxRequestsAssumption == MaxRequests \in Nat
ASSUME ConnectionsAssumption == Connections \in Nat

Size == MaxRequests + 1       \* the ring has one slot that stays free
Slots == 0 .. MaxRequests
Connfds == 0 .. Connections   \* 0: an uninitialised slot

VARIABLES
    buf, in, out,     \* the ring
    main,             \* pc of the main thread
    pc,               \* pc of each worker
    accepted,         \* connections accepted so far; the last one is in hand
                      \* while main is "put" or "full"
    serving           \* serving[w]: the connection worker w has taken last

vars == <<buf, in, out, main, pc, accepted, serving>>

Init ==
    /\ buf = [i \in Slots |-> 0]
    /\ in = 0
    /\ out = 0
    /\ main = "accept"
    /\ pc = [w \in Workers |-> "take"]
    /\ accepted = 0
    /\ serving = [w \in Workers |-> 0]

Occupied == (in - out + Size) % Size
Full  == Occupied = MaxRequests
Vacant == in = out

-----------------------------------------------------------------------------
(* POSIX condition variables. *)

SignalEmpty ==
    \/ \E w \in Workers : pc[w] = "empty" /\ pc' = [pc EXCEPT ![w] = "take"]
    \/ (\A w \in Workers : pc[w] # "empty") /\ pc' = pc

SpuriousWakeup ==
    \/ /\ main = "full"
       /\ main' = "put"
       /\ UNCHANGED pc
    \/ /\ \E w \in Workers : pc[w] = "empty" /\ pc' = [pc EXCEPT ![w] = "take"]
       /\ UNCHANGED main

-----------------------------------------------------------------------------
(* The main thread. *)

accept ==
    /\ main = "accept"
    /\ accepted < Connections
    /\ accepted' = accepted + 1
    /\ main' = "put"
    /\ UNCHANGED <<buf, in, out, pc, serving>>

(* Faulty variants: the index is not wrapped; it is advanced before the    *)
(* store; before the test of the empty ring.                               *)
PutWithoutWrap ==
    /\ main = "put" /\ ~Full
    /\ buf' = [buf EXCEPT ![in] = accepted]
    /\ IF Vacant THEN SignalEmpty ELSE pc' = pc
    /\ in' = in + 1
    /\ main' = "accept"
    /\ UNCHANGED <<out, accepted, serving>>

PutBehind ==
    /\ main = "put" /\ ~Full
    /\ buf' = [buf EXCEPT ![(in + 1) % Size] = accepted]
    /\ IF Vacant THEN SignalEmpty ELSE pc' = pc
    /\ in' = (in + 1) % Size
    /\ main' = "accept"
    /\ UNCHANGED <<out, accepted, serving>>

PutWithoutSignal ==
    /\ main = "put" /\ ~Full
    /\ buf' = [buf EXCEPT ![in] = accepted]
    /\ in' = (in + 1) % Size
    /\ main' = "accept"
    /\ UNCHANGED <<out, accepted, serving, pc>>

(* server_request from the test of its loop: wait, or put and signal if    *)
(* the ring was empty.                                                     *)
server_request ==
    /\ main = "put"
    /\ \/ /\ Full
          /\ main' = "full"
          /\ UNCHANGED <<buf, in, pc>>
       \/ /\ ~Full
          /\ buf' = [buf EXCEPT ![in] = accepted]
          /\ IF Vacant THEN SignalEmpty ELSE pc' = pc
          /\ in' = (in + 1) % Size
          /\ main' = "accept"
    /\ UNCHANGED <<out, accepted, serving>>

-----------------------------------------------------------------------------
(* A worker. *)

(* Faulty variants: out is advanced before the test of the full ring;      *)
(* before the load.                                                        *)
TakeWithoutSignal(w) ==
    /\ pc[w] = "take" /\ ~Vacant
    /\ serving' = [serving EXCEPT ![w] = buf[out]]
    /\ out' = (out + 1) % Size
    /\ pc' = [pc EXCEPT ![w] = "serve"]
    /\ UNCHANGED <<buf, in, main, accepted>>

TakeBehind(w) ==
    /\ pc[w] = "take" /\ ~Vacant
    /\ serving' = [serving EXCEPT ![w] = buf[(out + 1) % Size]]
    /\ main' = IF Full /\ main = "full" THEN "put" ELSE main
    /\ out' = (out + 1) % Size
    /\ pc' = [pc EXCEPT ![w] = "serve"]
    /\ UNCHANGED <<buf, in, accepted>>

(* thread_init from the test of its inner loop: wait, or take and signal   *)
(* if the ring was full.                                                   *)
thread_init(w) ==
    /\ pc[w] = "take"
    /\ \/ /\ Vacant
          /\ pc' = [pc EXCEPT ![w] = "empty"]
          /\ UNCHANGED <<out, serving, main>>
       \/ /\ ~Vacant
          /\ serving' = [serving EXCEPT ![w] = buf[out]]
          /\ main' = IF Full /\ main = "full" THEN "put" ELSE main
          /\ out' = (out + 1) % Size
          /\ pc' = [pc EXCEPT ![w] = "serve"]
    /\ UNCHANGED <<buf, in, accepted>>

(* do_server_request returns and the worker goes round. *)
served(w) ==
    /\ pc[w] = "serve"
    /\ pc' = [pc EXCEPT ![w] = "take"]
    /\ UNCHANGED <<buf, in, out, main, accepted, serving>>

(* All connections of the bound have been served. *)
Idle ==
    /\ main = "accept" /\ accepted = Connections
    /\ Vacant
    /\ \A w \in Workers : pc[w] = "empty"
    /\ UNCHANGED vars

-----------------------------------------------------------------------------
Next ==
    \/ accept
    \/ server_request
    \/ \E w \in Workers : thread_init(w)
    \/ \E w \in Workers : served(w)
    \/ SpuriousWakeup /\ UNCHANGED <<buf, in, out, accepted, serving>>
    \/ Idle

Spec == Init /\ [][Next]_vars

(* A thread outside a wait makes progress: it gets the mutex in the end    *)
(* and do_server_request returns.                                          *)
FairSpec ==
    /\ Spec
    /\ WF_vars(server_request)
    /\ \A w \in Workers : WF_vars(thread_init(w)) /\ WF_vars(served(w))

-----------------------------------------------------------------------------
(* Properties. *)

TypeOK ==
    /\ buf \in [Slots -> Connfds]
    /\ in \in Slots /\ out \in Slots
    /\ main \in {"accept", "put", "full"}
    /\ pc \in [Workers -> {"take", "empty", "serve"}]
    /\ accepted \in Connfds
    /\ serving \in [Workers -> Connfds]

(* The number of connections handed over, and the number taken out.        *)
Handed == IF main = "accept" THEN accepted ELSE accepted - 1
Taken  == Handed - Occupied

(* The ring holds the connections that were handed over and not taken, in  *)
(* order: none is overwritten before it is taken, none is taken twice.     *)
RingHoldsPending ==
    /\ Occupied <= Handed
    /\ \A i \in 0 .. (Occupied - 1) : buf[(out + i) % Size] = Taken + i + 1

(* Two workers never serve one connection, and together they have taken    *)
(* exactly the connections that left the ring.                             *)
ServedOnce ==
    /\ \A v, w \in Workers : v # w /\ serving[v] = serving[w] => serving[v] = 0
    /\ \A w \in Workers : serving[w] <= Taken
    /\ Taken > 0 => \E w \in Workers : serving[w] = Taken

(* Signalling sv->empty only when the ring was empty loses no connection:  *)
(* while one is in the ring, some worker is awake.                         *)
SomebodyAwake == ~Vacant => \E w \in Workers : pc[w] # "empty"

(* Signalling sv->full only when the ring was full never leaves the main   *)
(* thread asleep beside a free slot.                                       *)
MainNotForgotten == main = "full" => Full

(* server_thread.c:510 "Save the relevant info in a buffer and have one of *)
(* the worker threads do the work": every connection that is accepted is   *)
(* taken by a worker in the end.                                           *)
EveryConnectionTaken ==
    \A c \in 1 .. Connections : accepted = c ~> Taken >= c
=============================================================================

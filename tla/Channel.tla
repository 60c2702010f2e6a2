------------------------------ MODULE Channel ------------------------------
(***************************************************************************)
(* What the request buffer promises: a first-in first-out channel with     *)
(* room for Capacity connections.  Sending waits while it is full, and     *)
(* receiving while it is empty; every connection is received once.         *)
(***************************************************************************)
EXTENDS Integers, Sequences

CONSTANTS Capacity, Receivers, Connections

VARIABLES
    channel,      \* the connections in it
    sent,         \* how many were sent; they are numbered
    received      \* received[r]: what receiver r got last

vars == <<channel, sent, received>>

Init ==
    /\ channel = <<>>
    /\ sent = 0
    /\ received = [r \in Receivers |-> 0]

Send ==
    /\ Len(channel) < Capacity
    /\ sent < Connections
    /\ sent' = sent + 1
    /\ channel' = Append(channel, sent')
    /\ UNCHANGED received

Receive(r) ==
    /\ channel # <<>>
    /\ received' = [received EXCEPT ![r] = Head(channel)]
    /\ channel' = Tail(channel)
    /\ UNCHANGED sent

Next == Send \/ \E r \in Receivers : Receive(r)

Safety == Init /\ [][Next]_vars

(* What is sent is received as long as somebody receives.                  *)
Spec == Safety /\ WF_vars(\E r \in Receivers : Receive(r))
=============================================================================

------------------------------ MODULE Exchange ------------------------------
(***************************************************************************)
(* What the server promises the program client.c: who connects and asks    *)
(* for a file that can be read gets that file, whole, and every other      *)
(* request ends with the client noticing that it was refused.  A client    *)
(* may go away before that.                                                *)
(***************************************************************************)
EXTENDS Integers

CONSTANTS
    Requests,
    Answer(_)       \* the content a request asks for, or Refused

Refused == <<"refused">>

VARIABLES
    asked,          \* the request of the client that is connected, or {}
    answer          \* what the last client got, or {}

vars == <<asked, answer>>

Init == asked = {} /\ answer = {}

Ask ==
    /\ asked = {}
    /\ asked' \in {{r} : r \in Requests}
    /\ answer' = {}

Conclude ==
    /\ asked # {}
    /\ answer' = {Answer(r) : r \in asked}
    /\ asked' = {}

GoAway ==
    /\ asked # {}
    /\ asked' = {}
    /\ UNCHANGED answer

Next == Ask \/ Conclude \/ GoAway

Safety == Init /\ [][Next]_vars
Spec == Safety /\ WF_vars(Conclude)
=============================================================================

-------------------------- MODULE MCRequestBuffer --------------------------
(* TLC instances of RequestBuffer, and the channel it implements: the ring *)
(* read from out to in.                                                    *)
EXTENDS RequestBuffer

Chan == INSTANCE Channel WITH
           Capacity  <- MaxRequests,
           Receivers <- Workers,
           channel   <- [i \in 1 .. Occupied |-> buf[(out + i - 1) % Size]],
           sent      <- Handed,
           received  <- serving

(* The ring with its two condition variables is a bounded channel, in      *)
(* which a connection that is in the channel is received in the end.       *)
ImplementsChannel == Chan!Spec
=============================================================================

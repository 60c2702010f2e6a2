------------------------------ MODULE LRUCache ------------------------------
(***************************************************************************)
(* What the file cache promises: the entries in the order of their last    *)
(* use, within the capacity.  Room for a new entry is made by dropping     *)
(* entries in that order, except those that are being sent.                *)
(***************************************************************************)
EXTENDS Integers, Sequences, FiniteSets, SequencesExt, FiniteSetsExt

CONSTANTS Files, Capacity

VARIABLES
    used,        \* the files, the one used last at the end
    size,        \* the size of what is cached of a file, 0 if nothing is
    senders      \* how many send it

vars == <<used, size, senders>>

(* What the entries at these positions take. *)
Bytes(positions) == MapThenSumSet(LAMBDA i : size[used[i]], positions)
Room(gone, n) == n <= Capacity - Bytes(DOMAIN used \ gone)

(* The entries that are left when those at the positions gone are dropped. *)
Kept(gone) ==
    LET left   == DOMAIN used \ gone
        nth(k) == CHOOSE i \in left : Cardinality({j \in left : j < i}) = k - 1
    IN  [k \in 1 .. Cardinality(left) |-> used[nth(k)]]

Init ==
    /\ used = <<>>
    /\ size = [f \in Files |-> 0]
    /\ senders = [f \in Files |-> 0]

Touch(f) ==
    /\ f \in ToSet(used)
    /\ used' = Append(RemoveFirst(used, f), f)
    /\ UNCHANGED <<size, senders>>

StartSending(f) ==
    /\ f \in ToSet(used)
    /\ senders' = [senders EXCEPT ![f] = @ + 1]
    /\ UNCHANGED <<used, size>>

StopSending(f) ==
    /\ senders[f] > 0
    /\ senders' = [senders EXCEPT ![f] = @ - 1]
    /\ UNCHANGED <<used, size>>

(* What goes is not being sent, and was used before all that stays and is  *)
(* not being sent.  Without the last of it there would not be room.        *)
MayDrop(gone, n) ==
    LET idle(i) == senders[used[i]] = 0
    IN  \A i \in gone :
            /\ idle(i) /\ \A j \in 1 .. (i - 1) : idle(j) => j \in gone
            /\ (\A j \in gone : j <= i) => ~Room(gone \ {i}, n)

(* Whether f comes in at last is not promised: an eviction of everything   *)
(* makes room and answers that it did not.                                 *)
Load(f, n) ==
    /\ UNCHANGED senders
    /\ f \notin ToSet(used)
    /\ \E gone \in SUBSET (DOMAIN used) :
          LET left == [g \in Files |-> IF \E i \in gone : used[i] = g THEN 0 ELSE size[g]]
          IN  /\ MayDrop(gone, n)
              /\ \/ /\ used' = Append(Kept(gone), f)
                    /\ size' = [left EXCEPT ![f] = n]
                    /\ Room(gone, n)
                 \/ /\ used' = Kept(gone)
                    /\ size' = left

Next ==
    \E f \in Files :
        \/ Touch(f) \/ StartSending(f) \/ StopSending(f)
        \/ \E n \in 0 .. Capacity : Load(f, n)

Spec == Init /\ [][Next]_vars
=============================================================================

----------------------------- MODULE MCFileCache -----------------------------
(* TLC instances of FileCache.  The three small files a, b and c fill the  *)
(* cache; big takes the room of two of them, and giant does not fit.       *)
EXTENDS FileCache, TLC

CONSTANTS a, b, c, big, giant

WithBig   == {a, b, c, big}
WithGiant == WithBig \cup {giant}
MCFileSize == [f \in Files |-> IF f = giant THEN 4 ELSE IF f = big THEN 2 ELSE 1]

(* Each name has a row of its own, or a and b share one. *)
OwnRows   == [f \in Files |-> IF f = a THEN 1 ELSE IF f = b THEN 2 ELSE 3]
SharedRow == [f \in Files |-> IF f \in {a, b} THEN 1 ELSE IF f = c THEN 2 ELSE 3]

(* The threads are alike, and so are the files a and b in SharedRow. *)
Alike == Permutations(Workers) \cup Permutations({a, b})

Cache == INSTANCE LRUCache WITH
            Capacity <- MaxCacheSize,
            used     <- lru,
            senders  <- reference_count

(* The table, the list and the eviction loop keep the promise of LRUCache: *)
(* what is evicted is what was used least recently and is not being sent,  *)
(* and no more than needed.                                                *)
ImplementsLRUCache == Cache!Spec
=============================================================================

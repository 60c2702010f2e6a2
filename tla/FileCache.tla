------------------------------ MODULE FileCache ------------------------------
(***************************************************************************)
(* The file cache of webserver/server_thread.c: a chained hash table, a    *)
(* list of the entries in the order they were used last, the number of     *)
(* threads that are sending each entry, and the threads that serve         *)
(* requests from it (do_server_request).                                   *)
(*                                                                         *)
(* All accesses are made with my_wc->cache_lock held, so each critical     *)
(* section is one step.  pc[w] says where thread w stands:                 *)
(*   "idle"     between two requests                                       *)
(*   "lookup"   before the first critical section                          *)
(*   "hit"      has unlocked, with the address of the cached file_data     *)
(*   "send"     sending cached data, with a reference to the entry         *)
(*   "miss"     reading the file, and sending it                           *)
(*   "insert"   before the critical section that caches what it has read   *)
(*                                                                         *)
(* An entry is named by its file.  wild is raised when a step follows a    *)
(* pointer to freed memory, or NULL, and finds there what it cannot use;   *)
(* the process may then do anything and the model stops.  One such read is *)
(* not counted: `iter = iter->next' (306) right after free(iter), which    *)
(* still finds the old value, as nothing is allocated in between and       *)
(* free() of glibc writes to the first two words of a chunk only.          *)
(***************************************************************************)
EXTENDS Integers, Sequences, FiniteSets, SequencesExt, FiniteSetsExt

CONSTANTS
    Workers,
    Files,
    FileSize,        \* FileSize[f]: the size of file f
    Row,             \* Row[f]: the hash of its name, an index of hashtable
    MaxCacheSize,    \* max_cache_size
    ReadsFail        \* whether request_readfile may fail

ASSUME SizesAssumption == FileSize \in [Files -> Nat] /\ MaxCacheSize \in Nat
ASSUME ReadsFailAssumption == ReadsFail \in BOOLEAN
ASSUME WorkersAssumption == IsFiniteSet(Workers)

Rows == {Row[f] : f \in Files}
Freed == "freed"     \* in a chain: a component that has been freed
NoFile == "none"

ASSUME NamesAssumption == Freed \notin Files /\ NoFile \notin Files

VARIABLES
    hashtable,       \* the chain of each row, from hashtable[row].next
    lru,             \* the list from head to tail
    tail_dangles,    \* tail->next points to an entry that has been freed
    size,            \* file_size of the cached data
    occupied,        \* occupied_cache_size
    reference_count,
    pc,
    request,         \* the file worker w has been asked for
    read,            \* the size of what it has read
    stale,           \* the file_data of w's lookup_address has been freed
    wild

cache == <<hashtable, lru, tail_dangles, size, occupied>>
vars == <<cache, reference_count, pc, request, read, stale, wild>>

Init ==
    /\ hashtable = [r \in Rows |-> <<>>]
    /\ lru = <<>>
    /\ tail_dangles = FALSE
    /\ size = [f \in Files |-> 0]
    /\ occupied = 0
    /\ reference_count = [f \in Files |-> 0]
    /\ pc = [w \in Workers |-> "idle"]
    /\ request = [w \in Workers |-> NoFile]
    /\ read = [w \in Workers |-> 0]
    /\ stale = [w \in Workers |-> FALSE]
    /\ wild = FALSE

Chain(f) == hashtable[Row[f]]
Damaged(chain) == \E i \in DOMAIN chain : chain[i] = Freed
Cached(f) == f \in ToSet(Chain(f))

-----------------------------------------------------------------------------
(* evict_LRU_hash, with several entries in the list.  Its loop goes from   *)
(* the head and evicts entries without references as long as room is       *)
(* missing.  Evicting the head lets it go on.  Evicting an entry further   *)
(* down ends it: one in the middle because its link is cleared first, the  *)
(* tail because nothing follows.                                           *)

FreedBy(positions) == MapThenSumSet(LAMBDA i : size[lru[i]], positions)
Used(n) == FreedBy(1 .. n)

(* Faulty variant of Enough: one byte too strict. *)
EnoughAndMore(required, freed) == required < MaxCacheSize - occupied + freed
Enough(required, freed) == required <= MaxCacheSize - occupied + freed

(* Faulty variant of Unused: references are not looked at. *)
UnusedOrNot(i) == lru[i] \in Files
Unused(i) == reference_count[lru[i]] = 0

(* How many entries go from the head. *)
HeadsEvicted(required) ==
    CHOOSE n \in 0 .. Len(lru) :
        /\ \A i \in 1 .. n : Unused(i) /\ ~Enough(required, Used(i - 1))
        /\ \/ n = Len(lru)
           \/ ~Unused(n + 1)
           \/ Enough(required, Used(n))

(* The position of the entry that goes afterwards, if there is one. *)
EvictedBelow(required) ==
    LET n    == HeadsEvicted(required)
        rest == {i \in (n + 1) .. Len(lru) : Unused(i)}
    IN  IF Enough(required, Used(n)) \/ rest = {} THEN {} ELSE {Min(rest)}

(* The loop ends with room, and not at the end of the list. *)
Evicted(required) == (1 .. HeadsEvicted(required)) \cup EvictedBelow(required)
LeavesRoom(required) ==
    /\ EvictedBelow(required) = {}
    /\ HeadsEvicted(required) < Len(lru)
    /\ Enough(required, Used(HeadsEvicted(required)))

(* What evict_LRU_hash(required) evicts and answers.  The only entry of a  *)
(* list goes if nobody refers to it.                                       *)
Eviction(required) ==
    CASE lru = <<>>    -> [gone |-> {}, ok |-> FALSE]
      [] Len(lru) = 1  -> [gone |-> {i \in {1} : Unused(i)}, ok |-> Unused(1)]
      [] Len(lru) > 1  -> [gone |-> Evicted(required), ok |-> LeavesRoom(required)]

(* hash_delete: the only component of a row empties it.  The first of      *)
(* several is freed but the row goes on pointing to it.                    *)
HashDelete(table, f) ==
    LET chain == table[Row[f]]
    IN  [table EXCEPT ![Row[f]] =
            IF chain = <<f>> THEN <<>>
            ELSE IF Head(chain) = f THEN <<Freed>> \o Tail(chain)
            ELSE RemoveFirst(chain, f)]

TableWithout(files) == FoldLeft(HashDelete, hashtable, files)

(* Whether evicting these files one by one meets a row that points to a    *)
(* freed component, or print_LRU goes beyond the tail to a freed entry.    *)
EvictsWildly(files) ==
    \/ Len(lru) > 1 /\ tail_dangles
    \/ \E k \in DOMAIN files :
          Damaged(TableWithout(SubSeq(files, 1, k - 1))[Row[files[k]]])

(* The entries at these positions, from head to tail. *)
Position(positions, k) ==
    CHOOSE i \in positions : Cardinality({j \in positions : j < i}) = k - 1
At(positions) == [k \in 1 .. Cardinality(positions) |-> lru[Position(positions, k)]]

-----------------------------------------------------------------------------
(* hashtable_insert, after an eviction if room is missing.  An eviction    *)
(* that answers false may have evicted entries nevertheless; nothing is    *)
(* inserted then.                                                          *)

MissesRoom(n) == n <= MaxCacheSize /\ n > MaxCacheSize - occupied

InsertsWildly(f, n) ==
    LET e    == Eviction(n)
        gone == At(e.gone)
    IN  /\ MissesRoom(n)
        /\ EvictsWildly(gone) \/ (e.ok /\ Damaged(TableWithout(gone)[Row[f]]))

(* Faulty variant of OccupiedBy: evictions are not accounted for. *)
OccupiedByAll(positions) == occupied

(* occupied_cache_size after the eviction of all but these positions. *)
OccupiedBy(positions) ==
    IF Len(lru) = 1 /\ positions = {} THEN 0
    ELSE occupied - FreedBy(DOMAIN lru \ positions)

(* The list and the table keep the entries at these positions, and get f   *)
(* with n bytes if insert is TRUE.                                         *)
Keep(positions, insert, f, n) ==
    LET gone  == At(DOMAIN lru \ positions)
        kept  == At(positions)
        table == TableWithout(gone)
        new   == IF insert THEN <<f>> ELSE <<>>
    IN  /\ hashtable' = [table EXCEPT ![Row[f]] = @ \o new]
        /\ lru' = kept \o new
        /\ size' = [g \in Files |-> IF insert /\ g = f THEN n
                                    ELSE IF g \in ToSet(gone) THEN 0 ELSE size[g]]
        /\ occupied' = OccupiedBy(positions) + (IF insert THEN n ELSE 0)
        /\ tail_dangles' = (/\ ~insert /\ kept # <<>>
                            /\ tail_dangles \/ Len(lru) \notin positions)
        /\ stale' = [w \in Workers |->
                        stale[w] \/ (pc[w] = "hit" /\ request[w] \in ToSet(gone))]

hashtable_insert(f, n) ==
    \/ /\ n > MaxCacheSize
       /\ UNCHANGED <<cache, stale>>
    \/ /\ n <= MaxCacheSize - occupied
       /\ Keep(DOMAIN lru, TRUE, f, n)
    \/ /\ MissesRoom(n)
       /\ LET e == Eviction(n) IN Keep(DOMAIN lru \ e.gone, e.ok, f, n)

(* set_LRU moves an entry to the tail. *)
set_LRU(f) ==
    IF Last(lru) = f THEN UNCHANGED <<lru, tail_dangles>>
    ELSE /\ lru' = Append(RemoveFirst(lru, f), f)
         /\ tail_dangles' = FALSE

-----------------------------------------------------------------------------
(* do_server_request, step by step.                                        *)

GoTo(w, where) == pc' = [pc EXCEPT ![w] = where]
Finish(w) ==
    /\ GoTo(w, "idle")
    /\ request' = [request EXCEPT ![w] = NoFile]
    /\ read' = [read EXCEPT ![w] = 0]

request_init(w) ==
    /\ pc[w] = "idle"
    /\ \E f \in Files : request' = [request EXCEPT ![w] = f]
    /\ GoTo(w, IF MaxCacheSize > 0 THEN "lookup" ELSE "miss")
    /\ UNCHANGED <<cache, reference_count, read, stale>>

cache_lookup(w) ==
    LET f == request[w] IN
    /\ pc[w] = "lookup"
    /\ ~Damaged(Chain(f))
    /\ \/ /\ Cached(f)
          /\ set_LRU(f)
          /\ GoTo(w, "hit")
       \/ /\ ~Cached(f)
          /\ GoTo(w, "miss")
          /\ UNCHANGED <<lru, tail_dangles>>
    /\ UNCHANGED <<hashtable, size, occupied, reference_count, request, read, stale>>

(* Faulty variant: the reference is not counted. *)
FindWithoutCount(w) ==
    /\ pc[w] = "hit" /\ ~stale[w]
    /\ GoTo(w, "send")
    /\ UNCHANGED <<cache, reference_count, request, read, stale>>

(* find_LRU and the reference to the entry. *)
find_LRU(w) ==
    /\ pc[w] = "hit"
    /\ ~stale[w]
    /\ reference_count' = [reference_count EXCEPT ![request[w]] = @ + 1]
    /\ GoTo(w, "send")
    /\ UNCHANGED <<cache, request, read, stale>>

request_sendfile(w) ==
    /\ pc[w] = "send"
    /\ reference_count' = [reference_count EXCEPT ![request[w]] = @ - 1]
    /\ Finish(w)
    /\ UNCHANGED <<cache, stale>>

(* request_readfile leaves the size 0 when it fails; the caller goes on.   *)
request_readfile(w) ==
    /\ pc[w] = "miss"
    /\ IF MaxCacheSize > 0
       THEN /\ \E n \in {FileSize[request[w]]} \cup {0 : x \in {ReadsFail} \cap {TRUE}} :
                  read' = [read EXCEPT ![w] = n]
            /\ GoTo(w, "insert")
            /\ UNCHANGED request
       ELSE Finish(w)
    /\ UNCHANGED <<cache, reference_count, stale>>

(* Faulty variant: no second lookup. *)
InsertAnyway(w) ==
    LET f == request[w] IN
    /\ pc[w] = "insert"
    /\ ~Damaged(Chain(f)) /\ ~InsertsWildly(f, read[w])
    /\ hashtable_insert(f, read[w])
    /\ Finish(w)
    /\ UNCHANGED reference_count

(* The second lookup, and the insertion unless another thread has made it. *)
insert(w) ==
    LET f == request[w] IN
    /\ pc[w] = "insert"
    /\ ~Damaged(Chain(f))
    /\ \/ Cached(f) /\ UNCHANGED <<cache, stale>>
       \/ /\ ~Cached(f)
          /\ ~InsertsWildly(f, read[w])
          /\ hashtable_insert(f, read[w])
    /\ Finish(w)
    /\ UNCHANGED reference_count

(* A step that needs memory which has been freed. *)
NeedsFreed(w) ==
    LET f == request[w] IN
    \/ pc[w] \in {"lookup", "insert"} /\ Damaged(Chain(f))
    \/ pc[w] = "hit" /\ stale[w]
    \/ pc[w] = "insert" /\ ~Cached(f) /\ InsertsWildly(f, read[w])

GoesWild ==
    /\ \E w \in Workers : NeedsFreed(w)
    /\ wild' = TRUE
    /\ UNCHANGED <<cache, reference_count, pc, request, read, stale>>

Step(w) ==
    \/ request_init(w) \/ cache_lookup(w) \/ find_LRU(w) \/ request_sendfile(w)
    \/ request_readfile(w) \/ insert(w)

Next ==
    \/ ~wild /\ (\E w \in Workers : Step(w)) /\ UNCHANGED wild
    \/ ~wild /\ GoesWild
    \/ wild /\ UNCHANGED vars

Spec == Init /\ [][Next]_vars

-----------------------------------------------------------------------------
(* Properties.                                                             *)

TypeOK ==
    /\ hashtable \in [Rows -> Seq(Files \cup {Freed})]
    /\ lru \in Seq(Files)
    /\ tail_dangles \in BOOLEAN
    /\ size \in [Files -> Nat] /\ occupied \in Nat
    /\ reference_count \in [Files -> 0 .. Cardinality(Workers)]
    /\ pc \in [Workers -> {"idle", "lookup", "hit", "send", "miss", "insert"}]
    /\ request \in [Workers -> Files \cup {NoFile}]
    /\ read \in [Workers -> Nat]
    /\ stale \in [Workers -> BOOLEAN] /\ wild \in BOOLEAN

(* The list and the table hold the same entries, each file once and in its *)
(* row, whatever was inserted, moved and evicted: two threads that miss    *)
(* the same file do not cache it twice.                                    *)
ListAndTableAgree ==
    /\ \A i, j \in DOMAIN lru : lru[i] = lru[j] => i = j
    /\ \A f \in Files : Cached(f) <=> f \in ToSet(lru)
    /\ \A r \in Rows : \A i, j \in DOMAIN hashtable[r] :
          /\ hashtable[r][i] = hashtable[r][j] => i = j
          /\ hashtable[r][i] # Freed => Row[hashtable[r][i]] = r

(* occupied_cache_size is what the entries take and within the limit.      *)
OccupiedExact ==
    /\ occupied = FreedBy(DOMAIN lru)
    /\ occupied <= MaxCacheSize

(* reference_count counts the threads that send the entry, and such an     *)
(* entry is never evicted.                                                 *)
SentStaysCached ==
    \A f \in Files :
        LET senders == {w \in Workers : pc[w] = "send" /\ request[w] = f}
        IN  /\ reference_count[f] = Cardinality(senders)
            /\ senders # {} => f \in ToSet(lru)

(* Comment at server_thread.c:329, in find_LRU: "assume calling on this    *)
(* function based on the definite existence of data".  Between the lookup  *)
(* and find_LRU the lock is free, so another thread may evict the entry.   *)
HitStaysCached ==
    \A w \in Workers : pc[w] = "hit" => ~stale[w] /\ Cached(request[w])

(* Comment at server_thread.c:289: "must be able to find the data if it    *)
(* exist in LRU link list".                                                *)
ListedIsFound == \A i \in DOMAIN lru : ~Damaged(Chain(lru[i]))
=============================================================================

------------------------------ MODULE BlockMap ------------------------------
(***************************************************************************)
(* How fs/read_write.c maps the blocks of files and directories to blocks  *)
(* of the device: direct, indirect and doubly indirect pointers in the     *)
(* inode (fs/inode.c), blocks taken from and given back to the block       *)
(* freemap (fs/super.c, fs/bitmap.c).                                      *)
(*                                                                         *)
(* Offsets and sizes are counted in blocks.  A write is one step: testfs   *)
(* runs one command at a time.  Inside it the operators pass on a record   *)
(*   in    the inode                used  the block freemap                *)
(*   ptr, con   the device          got   the block last found or          *)
(*   next  the next block to write        allocated, NoBlock for -ENOSPC   *)
(*   total total_number             fate                                   *)
(*                                                                         *)
(* fate is "ok" until the program                                          *)
(*   "abort"  fails an assertion: the bit of a block that is freed is set  *)
(*            (bitmap.c:123), a removed inode has no blocks left           *)
(*            (inode.c:224)                                                *)
(*   "torn"   has no space left for the first data block behind a new      *)
(*            doubly indirect block, which it then forgets, and frees the  *)
(*            indirect block instead (read_write.c:294)                    *)
(*   "wild"   goes on with block MAX_FILE_SIZE, beyond its arrays          *)
(* and the model stops there.                                              *)
(***************************************************************************)
EXTENDS Integers, FiniteSets, Sequences, FiniteSetsExt

CONSTANTS
    Files,                \* inodes, of files or directories
    NR_DIRECT_BLOCKS,
    NR_INDIRECT_BLOCKS,   \* pointers in a block
    MaxFsBlocks,          \* sb.max_fs_blocks
    MaxLength             \* how many blocks a write covers at most

ASSUME BlockMapAssumption ==
    /\ IsFiniteSet(Files)
    /\ NR_DIRECT_BLOCKS \in Nat \ {0}
    /\ NR_INDIRECT_BLOCKS \in Nat \ {0}
    /\ MaxFsBlocks \in Nat
    /\ MaxLength \in Nat

MAX_FILE_SIZE ==
    NR_DIRECT_BLOCKS + NR_INDIRECT_BLOCKS + NR_INDIRECT_BLOCKS * NR_INDIRECT_BLOCKS

Direct    == 0 .. (NR_DIRECT_BLOCKS - 1)
Slots     == 0 .. (NR_INDIRECT_BLOCKS - 1)
Blocks    == 1 .. MaxFsBlocks     \* numbered from data_blocks_start
NoBlock   == 0
ZeroBlock == [i \in Slots |-> NoBlock]
Zeros     == <<>>                 \* contents of a block that is all zeros
NewInode  == [i_block_nr |-> [k \in Direct |-> NoBlock], i_indirect |-> NoBlock,
              i_dindirect |-> NoBlock, block_count |-> 0, i_size |-> 0]

VARIABLES
    inode,
    block_freemap,    \* the blocks whose bit is set
    pointers,         \* each block of the device, read as an array of pointers
    contents,         \* and as data: <<f, k>> if block k of f was written there last
    fate,
    written           \* the blocks of each file that have been written:
                      \* what the users know, no variable of the program

vars == <<inode, block_freemap, pointers, contents, fate, written>>

Init ==
    /\ inode = [f \in Files |-> NewInode]
    /\ block_freemap = {}
    /\ pointers = [b \in Blocks |-> ZeroBlock]
    /\ contents = [b \in Blocks |-> Zeros]
    /\ fate = "ok"
    /\ written = [f \in Files |-> {}]

Load(f, k) == [in |-> inode[f], used |-> block_freemap, ptr |-> pointers, con |-> contents,
               got |-> NoBlock, next |-> k, total |-> 0, fate |-> fate]

(* for (k = first; k <= last; k++) S = Body(S, k) *)
For(Body(_, _), S, first, last) ==
    LET after[k \in (first - 1) .. last] == IF k < first THEN S ELSE Body(after[k - 1], k)
    IN  IF last < first THEN S ELSE after[last]

Store(f, S) ==
    /\ inode' = [inode EXCEPT ![f] = S.in]
    /\ block_freemap' = S.used
    /\ pointers' = S.ptr
    /\ contents' = S.con
    /\ fate' = S.fate

-----------------------------------------------------------------------------
(* The freemap.  used_block_count is the number of bits that are set. *)

(* Block b is marked, counted in the inode and handed out. *)
Take(S, b) == [S EXCEPT !.used = @ \cup {b}, !.in.block_count = @ + 1, !.got = b]

testfs_alloc_block_for_inode(S) ==
    IF Cardinality(S.used) >= MaxFsBlocks THEN [S EXCEPT !.got = NoBlock]
    ELSE Take(S, Min(Blocks \ S.used))

testfs_free_block(S, b) ==
    [S EXCEPT !.used = @ \ {b}, !.ptr[b] = ZeroBlock, !.con[b] = Zeros,
              !.fate = IF b \in S.used THEN @ ELSE "abort"]

(* Faulty variant: block_count goes down by two. *)
FreeCountsTwice(S, b) ==
    IF b = NoBlock THEN S ELSE [testfs_free_block(S, b) EXCEPT !.in.block_count = @ - 2]

testfs_free_block_from_inode(S, b) ==
    IF b = NoBlock THEN S ELSE [testfs_free_block(S, b) EXCEPT !.in.block_count = @ - 1]

-----------------------------------------------------------------------------
(* Finding a block.  A missing pointer leads to a block of zeros. *)

Follow(S, b, i) == IF b = NoBlock THEN NoBlock ELSE S.ptr[b][i]

(* The entry of block k in the third layer, and the pointer to that layer. *)
Beyond(k) == k - NR_DIRECT_BLOCKS - NR_INDIRECT_BLOCKS
LayerThreeBlock(k)   == Beyond(k) \div NR_INDIRECT_BLOCKS
LayerThreePointer(k) == Beyond(k) % NR_INDIRECT_BLOCKS

testfs_read_block(S, k) ==
    CASE k \in Direct    -> S.in.i_block_nr[k]
      [] k \notin Direct /\ Beyond(k) < 0
                         -> Follow(S, S.in.i_indirect, k - NR_DIRECT_BLOCKS)
      [] Beyond(k) >= 0  -> Follow(S, Follow(S, S.in.i_dindirect, LayerThreeBlock(k)),
                                   LayerThreePointer(k))

-----------------------------------------------------------------------------
(* Allocating a block that is not there, with the blocks that lead to it.  *)
(* When the space does not suffice the pointer blocks are given back.      *)

AllocateDirect(S, k) ==
    LET A == testfs_alloc_block_for_inode(S)
    IN  [A EXCEPT !.in.i_block_nr[k] = A.got]

(* Faulty variant of AllocateIndirect: i_indirect is not reset. *)
IndirectDangles(S, k) ==
    LET fresh == S.in.i_indirect = NoBlock
        A == IF fresh THEN testfs_alloc_block_for_inode(S) ELSE S
        B == IF fresh THEN [A EXCEPT !.in.i_indirect = A.got] ELSE A
        C == testfs_alloc_block_for_inode(B)
    IN  CASE B.in.i_indirect = NoBlock -> B
          [] B.in.i_indirect # NoBlock /\ C.got # NoBlock ->
               [C EXCEPT !.ptr[C.in.i_indirect][k - NR_DIRECT_BLOCKS] = C.got]
          [] B.in.i_indirect # NoBlock /\ C.got = NoBlock ->
               IF fresh THEN testfs_free_block_from_inode(C, C.in.i_indirect) ELSE C

AllocateIndirect(S, k) ==
    LET fresh == S.in.i_indirect = NoBlock
        A == IF fresh THEN testfs_alloc_block_for_inode(S) ELSE S
        B == IF fresh THEN [A EXCEPT !.in.i_indirect = A.got] ELSE A
        C == testfs_alloc_block_for_inode(B)
    IN  CASE B.in.i_indirect = NoBlock -> B
          [] B.in.i_indirect # NoBlock /\ C.got # NoBlock ->
               [C EXCEPT !.ptr[C.in.i_indirect][k - NR_DIRECT_BLOCKS] = C.got]
          [] B.in.i_indirect # NoBlock /\ C.got = NoBlock ->
               IF fresh
               THEN [testfs_free_block_from_inode(C, C.in.i_indirect)
                       EXCEPT !.in.i_indirect = NoBlock]
               ELSE C

(* With a new doubly indirect block there are two ways to fail.  Without a *)
(* block for the third layer the function returns at once and keeps it;    *)
(* without one for the data it frees i_indirect where i_dindirect is meant.*)
AllocateDouble(S, k) ==
    LET fresh == S.in.i_dindirect = NoBlock
        row  == LayerThreeBlock(k)
        A    == IF fresh THEN testfs_alloc_block_for_inode(S) ELSE S
        B    == IF fresh THEN [A EXCEPT !.in.i_dindirect = A.got] ELSE A
        top  == B.in.i_dindirect
        freshThree == Follow(B, top, row) = NoBlock
        C    == IF top # NoBlock /\ freshThree THEN testfs_alloc_block_for_inode(B) ELSE B
        D    == IF top # NoBlock /\ freshThree THEN [C EXCEPT !.ptr[top][row] = C.got] ELSE C
        leaf == Follow(D, top, row)
        F    == testfs_alloc_block_for_inode(D)
        G    == IF freshThree
                THEN [testfs_free_block_from_inode(F, leaf) EXCEPT !.ptr[top][row] = NoBlock]
                ELSE F
    IN  CASE top = NoBlock -> B
          [] top # NoBlock /\ leaf = NoBlock -> D
          [] leaf # NoBlock /\ F.got # NoBlock ->
               [F EXCEPT !.ptr[leaf][LayerThreePointer(k)] = F.got]
          [] leaf # NoBlock /\ F.got = NoBlock ->
               IF fresh
               THEN [testfs_free_block_from_inode(G, G.in.i_indirect)
                       EXCEPT !.in.i_dindirect = NoBlock, !.fate = "torn"]
               ELSE G

testfs_allocate_block(S, k) ==
    LET b == testfs_read_block(S, k)
    IN  CASE b # NoBlock -> [S EXCEPT !.got = b]
          [] b = NoBlock /\ k \in Direct -> AllocateDirect(S, k)
          [] b = NoBlock /\ k \notin Direct /\ Beyond(k) < 0 -> AllocateIndirect(S, k)
          [] b = NoBlock /\ Beyond(k) >= 0 -> AllocateDouble(S, k)

-----------------------------------------------------------------------------
(* Writing.  Block k is written when all the blocks before it have been. *)

WriteBlock(f, S, k) ==
    LET A == testfs_allocate_block(S, k)
    IN  CASE S.next # k -> S
          [] S.next = k /\ A.got = NoBlock -> A
          [] S.next = k /\ A.got # NoBlock ->
               [A EXCEPT !.con[A.got] = <<f, k>>, !.next = k + 1]

(* Faulty variant: the size is set to the end of the write. *)
SizeOfWrite(i_size, start, n, next) ==
    IF next = start + n THEN next
    ELSE IF next = start /\ n > 1 THEN i_size ELSE MAX_FILE_SIZE

(* i_size after a write of n blocks from block start that came up to block *)
(* next: the largest size there is if it failed, except if it failed on    *)
(* the first of several blocks.                                            *)
SizeAfter(i_size, start, n, next) ==
    CASE next = start + n                          -> Max({i_size, next})
      [] next # start + n /\ next = start /\ n > 1 -> i_size
      [] next # start + n /\ ~(next = start /\ n > 1) -> MAX_FILE_SIZE

(* Only the first and the last block are compared with MAX_FILE_SIZE. *)
testfs_write_data(f, start, n) ==
    LET last == Min({start + n, MAX_FILE_SIZE}) - 1
        S    == For(LAMBDA T, k : WriteBlock(f, T, k), Load(f, start), start, last)
        beyond == S.next = MAX_FILE_SIZE /\ S.next < start + n - 1
    IN  /\ fate = "ok"
        /\ Store(f, [S EXCEPT !.in.i_size = SizeAfter(@, start, n, S.next),
                              !.fate = IF beyond THEN "wild" ELSE @])
        /\ written' = [written EXCEPT ![f] = @ \cup start .. (S.next - 1)]

-----------------------------------------------------------------------------
(* Removing.  e is the number of blocks the size asks for.  In the doubly  *)
(* indirect part the loops stop when they have freed that many, blocks of  *)
(* the third layer included.                                               *)

FreeDirect(S, e) ==
    For(LAMBDA T, k : [testfs_free_block_from_inode(T, T.in.i_block_nr[k])
                         EXCEPT !.in.i_block_nr[k] = NoBlock],
        S, 0, Min({e, NR_DIRECT_BLOCKS}) - 1)

FreeIndirect(S, e) ==
    LET top == S.in.i_indirect
        T == For(LAMBDA U, k : testfs_free_block_from_inode(U, S.ptr[top][k]),
                 S, 0, Min({e, NR_INDIRECT_BLOCKS}) - 1)
    IN  IF top = NoBlock THEN S
        ELSE [testfs_free_block_from_inode(T, top) EXCEPT !.in.i_indirect = NoBlock]

FreeCounted(S, b) == [testfs_free_block_from_inode(S, b) EXCEPT !.total = @ + 1]

(* Faulty variant of FreeLayerThree: the third layer itself is kept. *)
FreeKeepsLayerThree(S, leaf, e) ==
    For(LAMBDA T, j : IF T.total < e /\ T.ptr[leaf][j] # NoBlock
                      THEN FreeCounted(T, T.ptr[leaf][j]) ELSE T,
        S, 0, NR_INDIRECT_BLOCKS - 1)

FreeLayerThree(S, leaf, e) ==
    LET T == For(LAMBDA U, j : IF U.total < e /\ S.ptr[leaf][j] # NoBlock
                               THEN FreeCounted(U, S.ptr[leaf][j]) ELSE U,
                 S, 0, NR_INDIRECT_BLOCKS - 1)
    IN  FreeCounted(T, leaf)

FreeDouble(S, e) ==
    LET top == S.in.i_dindirect
        T == For(LAMBDA U, i : IF U.total < e /\ S.ptr[top][i] # NoBlock
                               THEN FreeLayerThree(U, S.ptr[top][i], e) ELSE U,
                 S, 0, NR_INDIRECT_BLOCKS - 1)
    IN  IF e < 0 \/ top = NoBlock THEN S
        ELSE [testfs_free_block_from_inode(T, top) EXCEPT !.in.i_dindirect = NoBlock]

testfs_free_blocks(S) ==
    LET e == S.in.i_size
        T == FreeDirect(S, e)
        U == FreeIndirect(T, e - NR_DIRECT_BLOCKS)
    IN  FreeDouble(U, Beyond(e))

testfs_remove_inode(f) ==
    LET S == testfs_free_blocks(Load(f, 0))
    IN  /\ fate = "ok"
        /\ IF S.in.block_count = 0 /\ S.fate = "ok"
           THEN /\ Store(f, [S EXCEPT !.in = NewInode])
                /\ written' = [written EXCEPT ![f] = {}]
           ELSE /\ fate' = "abort"
                /\ UNCHANGED <<inode, block_freemap, pointers, contents, written>>

Next ==
    \/ \E f \in Files, start \in 0 .. (MAX_FILE_SIZE - 1), n \in 1 .. MaxLength :
          testfs_write_data(f, start, n)
    \/ \E f \in Files : testfs_remove_inode(f)
    \/ fate # "ok" /\ UNCHANGED vars

Spec == Init /\ [][Next]_vars

-----------------------------------------------------------------------------
(* Properties.                                                             *)

TypeOK ==
    /\ inode \in [Files ->
         [i_block_nr : [Direct -> Blocks \cup {NoBlock}], i_indirect : Blocks \cup {NoBlock},
          i_dindirect : Blocks \cup {NoBlock}, block_count : 0 .. MaxFsBlocks,
          i_size : 0 .. MAX_FILE_SIZE]]
    /\ block_freemap \subseteq Blocks
    /\ pointers \in [Blocks -> [Slots -> Blocks \cup {NoBlock}]]
    /\ contents \in [Blocks -> {Zeros} \cup (Files \X (0 .. (MAX_FILE_SIZE - 1)))]
    /\ fate \in {"ok", "abort", "torn", "wild"}
    /\ written \in [Files -> SUBSET (0 .. (MAX_FILE_SIZE - 1))]

(* All the pointers of a file, with the place each stands in. *)
Places(f) ==
    LET S == Load(f, 0)
    IN  {p \in {<<"data", k, testfs_read_block(S, k)>> : k \in 0 .. (MAX_FILE_SIZE - 1)}
            \cup {<<"three", i, Follow(S, S.in.i_dindirect, i)>> : i \in Slots}
            \cup {<<"indirect", 0, S.in.i_indirect>>, <<"dindirect", 0, S.in.i_dindirect>>} :
          p[3] # NoBlock}
Owned(f) == {p[3] : p \in Places(f)}

(* Every block that is allocated is pointed to from exactly one place of   *)
(* one file, nothing points to a free block, and block_count counts the    *)
(* blocks of the file: no block leaks and none is shared, whatever was     *)
(* written, failed for lack of space and was removed, as long as no write  *)
(* comes to read_write.c:294.  The one that does leaves exactly this       *)
(* behind: the blocks of one file, its new doubly indirect block among     *)
(* them, stay allocated although nothing points to them any more, and the  *)
(* file goes on pointing to its indirect block, which has been freed; that *)
(* is the only free block that is pointed to, and still none is shared.    *)
BlocksOwnedOnce ==
    LET owned == UNION {Owned(f) : f \in Files}
    IN  /\ fate \in {"ok", "torn"} =>
              Cardinality(owned) = MapThenSumSet(LAMBDA f : Cardinality(Places(f)), Files)
        /\ fate = "ok" =>
              /\ block_freemap = owned
              /\ \A f \in Files : inode[f].block_count = Cardinality(Places(f))
        /\ fate = "torn" =>
              /\ block_freemap \ owned # {}
              /\ \E f \in Files : owned \ block_freemap = {inode[f].i_indirect} \ {NoBlock}

(* A block reads as what was last written to it, and as zeros if nothing   *)
(* was; the size covers it.                                                *)
ReadsBack ==
    fate = "ok" => \A f \in Files, k \in 0 .. (MAX_FILE_SIZE - 1) :
        LET b == testfs_read_block(Load(f, 0), k)
        IN  IF k \in written[f] THEN b # NoBlock /\ contents[b] = <<f, k>> /\ k < inode[f].i_size
            ELSE b = NoBlock

(* read_write.c:260: the first block behind a new doubly indirect one did  *)
(* not find room, and the file keeps that block, empty.                    *)
EmptyDouble(f) ==
    inode[f].i_dindirect # NoBlock /\ pointers[inode[f].i_dindirect] = ZeroBlock

(* The removal of a file that needs at most one block of the third layer   *)
(* succeeds but in one case: a write to it has failed at read_write.c:260, *)
(* and its size does not reach the doubly indirect part, so that           *)
(* testfs_free_blocks passes the empty block over and inode.c:224 fails.   *)
RemovesSmallFiles ==
    [][\A f \in Files :
         testfs_remove_inode(f) /\ ~ (\E k \in written[f] : Beyond(k) >= NR_INDIRECT_BLOCKS) =>
            (fate' = "abort" <=> EmptyDouble(f) /\ Beyond(inode[f].i_size) < 0)]_vars

(* inode.c:224 in testfs_remove_inode: "assert(in->in.block_count == 0)". *)
AllBlocksFreed == fate # "abort"
=============================================================================

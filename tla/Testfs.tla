------------------------------- MODULE Testfs -------------------------------
(***************************************************************************)
(* The commands of fs/testfs.c on the tree of directories: directory       *)
(* entries (fs/dir.c), in-memory inodes with their reference counts and    *)
(* dirty flags (fs/inode.c), inodes on disk, the freemap of inodes and the *)
(* counters of the super block (fs/super.c).                               *)
(*                                                                         *)
(* A command is one step, and the sequence of writes to the device it      *)
(* makes: write_blocks puts each of them there before the next one is      *)
(* made.  A crash of the program leaves the first of them on the device,   *)
(* where the next start of testfs finds them; there is no recovery.        *)
(*                                                                         *)
(* Entries of a directory are numbered from 1, and EntriesPerBlock of them *)
(* fill a block exactly: an entry that crosses into the next block is not  *)
(* modelled, as testfs_read_data copies too much when it reads one         *)
(* (read_write.c:168).  How blocks hang on an inode is the matter of       *)
(* BlockMap, and so are removals that fail.                                *)
(*                                                                         *)
(* fate is "ok" until an assertion fails; the model stops then.            *)
(*   dir.c:29       a directory entry has a name                           *)
(*   inode.c:166    an inode is clean when a reference is given back       *)
(*   inode.c:43     no inode is in memory at the end                       *)
(* It also stops, as "stale", when inode.c:211 takes over what a removal   *)
(* that a crash cut short has left in a free inode, with blocks that may   *)
(* be those of another file by then.                                       *)
(***************************************************************************)
EXTENDS Integers, FiniteSets, Sequences, FiniteSetsExt, SequencesExt

CONSTANTS
    MaxInodes,          \* NR_INODE_BLOCKS * INODES_PER_BLOCK
    FreemapBits,        \* those of the freemap of inodes
    MaxFsBlocks,        \* sb.max_fs_blocks
    EntriesPerBlock,
    Names,
    NameLength,         \* d_name_len of each name
    MaxListed,          \* how often files are given to ls, at most
    MaxCrashes          \* how often the program crashes, at most

Inodes  == 0 .. (MaxInodes - 1)
Bits    == 0 .. (FreemapBits - 1)
Root    == 0
Dots    == {".", ".."}
INVALID_INODE_NR == -1
Huge    == -1      \* the size a failed write leaves, that of the largest file
NoInode == [i_type |-> "I_NONE", size |-> 0, block_count |-> 0]

ASSUME TestfsAssumption ==
    /\ MaxInodes \in Nat \ {0} /\ MaxFsBlocks \in Nat \ {0}
    /\ FreemapBits \in Nat /\ FreemapBits >= MaxInodes
    /\ EntriesPerBlock \in Nat /\ EntriesPerBlock >= 2
    /\ Dots \subseteq Names /\ NameLength \in [Names -> Nat]
    /\ MaxListed \in Nat /\ MaxCrashes \in Nat

VARIABLES
    disk,                \* the device, a record of
                         \*   inode             the inodes, the size of a directory
                         \*                     in entries
                         \*   entries           those in the blocks of each directory
                         \*   inode_freemap     the inodes marked in it
                         \*   block_freemap     how many blocks are marked in it
                         \*   used_inode_count, used_block_count
                         \*                     the super block
                         \* the last four are the same in memory
    inode,               \* in memory, NoInode if there is none
    i_count,
    dirty,               \* i_flags & I_FLAGS_DIRTY
    cur_dir,
    fate,
    listed,              \* references that ls did not give back: a count kept
    crashes              \* by the model, no variable of the program, as is
                         \* the number of crashes

(* The fields of disk, and what the super block of the program says. *)
entries == disk.entries
inode_freemap == disk.inode_freemap
used_inode_count == disk.used_inode_count
used_block_count == disk.used_block_count

vars == <<disk, inode, i_count, dirty, cur_dir, fate, listed, crashes>>
memory == <<inode, i_count, dirty, cur_dir, listed>>

RootInode == [i_type |-> "I_DIR", size |-> 2, block_count |-> 1]

(* What mktestfs leaves, as main of testfs reads it. *)
Init ==
    /\ disk = [inode |-> [n \in Inodes |-> IF n = Root THEN RootInode ELSE NoInode],
               entries |-> [n \in Inodes |->
                              IF n = Root THEN <<<<".", Root>>, <<"..", Root>>>> ELSE <<>>],
               inode_freemap |-> {Root}, block_freemap |-> 1,
               used_inode_count |-> 1, used_block_count |-> 1]
    /\ inode = [n \in Inodes |-> IF n = Root THEN RootInode ELSE NoInode]
    /\ i_count = [n \in Inodes |-> IF n = Root THEN 1 ELSE 0]
    /\ dirty = [n \in Inodes |-> FALSE]
    /\ cur_dir = Root
    /\ fate = "ok"
    /\ listed = [n \in Inodes |-> 0]
    /\ crashes = 0

-----------------------------------------------------------------------------
(* The device. *)

(* A write puts a value in a field of disk, and the last one stays. *)
Put(field, value) == <<[field |-> field, value |-> value]>>

After(writes) ==
    [field \in DOMAIN disk |->
        LET at == {k \in DOMAIN writes : writes[k].field = field}
        IN  IF at = {} THEN disk[field] ELSE writes[Max(at)].value]

(* The next start of testfs reads the device: the super block with its     *)
(* freemaps and the root.  Entries beyond the size of a directory, or in   *)
(* blocks its inode does not have, are not there for it.                   *)
Readable(d) ==
    [d EXCEPT !.entries = [n \in Inodes |->
        IF d.inode[n].size = Huge THEN @[n]
        ELSE SubSeq(@[n], 1, Min({Len(@[n]), d.inode[n].size}))]]

testfs_init_super_block(d) ==
    /\ disk' = Readable(d)
    /\ i_count' = [n \in Inodes |-> IF n = Root THEN 1 ELSE 0]
    /\ inode' = [n \in Inodes |-> IF n = Root THEN d.inode[n] ELSE NoInode]
    /\ dirty' = [n \in Inodes |-> FALSE]
    /\ cur_dir' = Root

(* The program is killed in the middle of these writes. *)
Crash(writes) ==
    /\ crashes < MaxCrashes
    /\ \E k \in 1 .. (Len(writes) - 1) : testfs_init_super_block(After(SubSeq(writes, 1, k)))
    /\ crashes' = crashes + 1
    /\ listed' = [n \in Inodes |-> 0]
    /\ UNCHANGED fate

(* testfs_get_inode_freemap, testfs_put_inode_freemap, and testfs_alloc_   *)
(* block and testfs_free_block for the i-th block a command takes or frees:*)
(* the freemap, then the super block with its counter.                     *)
GetInode(n) == Put("inode_freemap", inode_freemap \cup {n})
               \o Put("used_inode_count", used_inode_count + 1)
PutInode(n, used) == Put("inode_freemap", inode_freemap \ {n})
                     \o Put("used_inode_count", used)
AllocBlock(i) == Put("block_freemap", disk.block_freemap + i)
                 \o Put("used_block_count", used_block_count + i)
FreeBlock(i) == AllocBlock(-i)

(* The first k blocks a command takes, or frees, one after the other.      *)
AllocBlocks(k) == [w \in 1 .. 2 * k |-> AllocBlock((w + 1) \div 2)[2 - (w % 2)]]
FreeBlocks(k)  == [w \in 1 .. 2 * k |-> FreeBlock((w + 1) \div 2)[2 - (w % 2)]]
-----------------------------------------------------------------------------
(* Entries. *)

Live(e)   == e[2] # INVALID_INODE_NR
Found(d, name) == \E p \in DOMAIN entries[d] : Live(entries[d][p]) /\ entries[d][p][1] = name
Position(d, name) ==
    CHOOSE p \in DOMAIN entries[d] : Live(entries[d][p]) /\ entries[d][p][1] = name
Named(name) == entries[cur_dir][Position(cur_dir, name)][2]

(* testfs_get_inode: from memory if it is there, else from disk. *)
Inode(n) == IF i_count[n] > 0 THEN inode[n] ELSE disk.inode[n]
IsDir(n) == Inode(n).i_type = "I_DIR"
Children(d) == {entries[d][p][2] : p \in {q \in DOMAIN entries[d] :
                   Live(entries[d][q]) /\ entries[d][q][1] \notin Dots}}

(* Reading to the end of a directory whose size is Huge comes to an entry  *)
(* without a name.                                                         *)
Endless(d) == Inode(d).size = Huge

(* testfs_add_dirent takes the first invalid entry with a name of the same *)
(* length, or the end of the directory.                                    *)
Reusable(d, name) ==
    {p \in DOMAIN entries[d] :
        ~Live(entries[d][p]) /\ NameLength[entries[d][p][1]] = NameLength[name]}
Place(d, name) ==
    IF Reusable(d, name) # {} THEN Min(Reusable(d, name)) ELSE Len(entries[d]) + 1
BlocksFor(d, p) == IF p > EntriesPerBlock * Inode(d).block_count THEN 1 ELSE 0
PutEntry(d, p, e) == IF p > Len(entries[d]) THEN Append(entries[d], e)
                     ELSE [entries[d] EXCEPT ![p] = e]

-----------------------------------------------------------------------------
(* Every command looks a name up in the current directory, which fails an  *)
(* assertion if the name is not there and the directory Endless, or works  *)
(* on the entry it has found.                                              *)

Stop(how) ==
    /\ fate' = how
    /\ UNCHANGED <<memory, disk, crashes>>
Abort == Stop("abort")

LookupAborts ==
    /\ fate = "ok" /\ Endless(cur_dir)
    /\ \E name \in Names : ~Found(cur_dir, name)
    /\ Abort

(* All the writes of a command are made. *)
Writes(writes) == disk' = After(writes) /\ UNCHANGED <<i_count, cur_dir, listed, fate, crashes>>

(* Faulty variant of Room: the last block counts twice. *)
RoomForOneMore(n) == used_block_count + n <= MaxFsBlocks + 1
Room(n) == used_block_count + n <= MaxFsBlocks

(* testfs_sync_inode, for the current directory and another inode, of      *)
(* which the one has this value in memory as well, and so has the other if *)
(* it is there.                                                            *)
SyncDir(parent) == Put("inode", [disk.inode EXCEPT ![cur_dir] = parent])
SyncBoth(n, child, parent) ==
    Put("inode", [disk.inode EXCEPT ![n] = child, ![cur_dir] = parent])
InMemory(n, child, parent) ==
    /\ inode' = [inode EXCEPT ![n] = IF i_count[n] > 0 THEN child ELSE NoInode,
                              ![cur_dir] = parent]
    /\ dirty' = [dirty EXCEPT ![cur_dir] = FALSE]

(* testfs_create_empty_dir with the block it takes, and testfs_remove_     *)
(* inode of what has been made.                                            *)
OwnEntries(n) == <<<<".", n>>, <<"..", cur_dir>>>>
MakeEmptyDir(n) ==
    AllocBlock(1) \o Put("entries", [entries EXCEPT ![n] = <<Head(OwnEntries(n))>>])
                  \o Put("entries", [entries EXCEPT ![n] = OwnEntries(n)])
UnmakeInode(n) ==
    Put("entries", entries) \o AllocBlock(0) \o PutInode(n, used_inode_count)

(* testfs_create_file_or_dir with everything it needs; a directory takes a *)
(* block for its own two entries.                                          *)
Create(n, type, name) ==
    LET p == Place(cur_dir, name)
        own == IF type = "I_DIR" THEN 1 ELSE 0
        more == BlocksFor(cur_dir, p)
        child == [i_type |-> type, size |-> 2 * own, block_count |-> own]
        parent == [Inode(cur_dir) EXCEPT !.size = Max({@, p}), !.block_count = @ + more]
        writes ==
            GetInode(n) \o (IF own = 1 THEN MakeEmptyDir(n) ELSE <<>>)
            \o (IF more = 1 THEN AllocBlock(own + 1) ELSE <<>>)
            \o Put("entries", [entries EXCEPT
                     ![n] = IF own = 1 THEN OwnEntries(n) ELSE <<>>,
                     ![cur_dir] = PutEntry(cur_dir, p, <<name, n>>)])
            \o SyncDir(parent) \o SyncBoth(n, child, parent)
    IN  /\ Room(own + more)
        /\ \/ Writes(writes) /\ InMemory(n, child, parent)
           \/ Crash(writes)

(* The new directory or the entry does not fit: the new inode is removed   *)
(* again.  A failed write of the entry has set the size of the directory,  *)
(* which is not synchronized.                                              *)
CreateFails(n, type, name) ==
    LET own  == IF type = "I_DIR" THEN 1 ELSE 0
        more == BlocksFor(cur_dir, Place(cur_dir, name))
        writes == GetInode(n) \o (IF own = 1 /\ Room(1) THEN MakeEmptyDir(n) ELSE <<>>)
                  \o UnmakeInode(n)
    IN  /\ ~Room(own + more)
        /\ \/ /\ Writes(writes)
              /\ IF Room(own)
                 THEN /\ inode' = [inode EXCEPT ![cur_dir].size = Huge]
                      /\ dirty' = [dirty EXCEPT ![cur_dir] = TRUE]
                 ELSE UNCHANGED <<inode, dirty>>
           \/ Crash(writes)

(* The first free bit is that of no inode, and is given back. *)
CreateTooMany(n) ==
    LET writes == GetInode(n) \o PutInode(n, used_inode_count)
    IN  \/ Writes(writes) /\ UNCHANGED <<inode, dirty>>
        \/ Crash(writes)

(* Without a free bit, or if the name exists, nothing changes. *)
cmd_create(type, name) ==
    /\ fate = "ok"
    /\ ~Found(cur_dir, name) /\ ~Endless(cur_dir)
    /\ inode_freemap # Bits
    /\ LET n == Min(Bits \ inode_freemap)
       IN  \/ n \notin Inodes /\ CreateTooMany(n)
           \/ n \in Inodes /\ Inode(n) # NoInode /\ Stop("stale")
           \/ /\ n \in Inodes /\ Inode(n) = NoInode
              /\ Create(n, type, name) \/ CreateFails(n, type, name)

-----------------------------------------------------------------------------
(* Faulty variant of Removable. *)
RemovableAlways(n) == n \in Inodes

(* testfs_remove_dirent_allowed *)
Removable(n) == ~IsDir(n) \/ Children(n) = {}

(* testfs_remove_dirent writes the entry.  testfs_remove_inode zeroes and  *)
(* frees the blocks one by one, which are two writes each, frees the       *)
(* inode, and writes it.                                                   *)
Invalid(name) ==
    [entries EXCEPT ![cur_dir][Position(cur_dir, name)][2] = INVALID_INODE_NR]
FreeContents(n, others) ==
    Put("entries", [others EXCEPT ![n] = <<>>]) \o FreeBlocks(Inode(n).block_count)
RemoveInode(n) ==
    PutInode(n, used_inode_count - 1) \o Put("inode", [disk.inode EXCEPT ![n] = NoInode])

(* Faulty variants: the blocks stay in use; the inode is freed before the  *)
(* entry is invalid; so are the blocks.                                    *)
RemoveKeepsBlocks(n, name) ==
    Put("entries", Invalid(name)) \o RemoveInode(n) \o SyncBoth(n, NoInode, inode[cur_dir])
RemoveInodeFirst(n, name) ==
    RemoveInode(n) \o Put("entries", Invalid(name)) \o FreeContents(n, Invalid(name))
    \o SyncBoth(n, NoInode, inode[cur_dir])
RemoveBlocksFirst(n, name) ==
    FreeContents(n, entries) \o Put("entries", Invalid(name)) \o RemoveInode(n)
    \o SyncBoth(n, NoInode, inode[cur_dir])

Removal(n, name) ==
    Put("entries", Invalid(name)) \o FreeContents(n, Invalid(name)) \o RemoveInode(n)
    \o SyncBoth(n, NoInode, inode[cur_dir])

(* The entry becomes invalid, the inode is removed with its blocks, and    *)
(* the current directory synchronized.                                     *)
cmd_rm(name) ==
    LET n == Named(name)
    IN  /\ fate = "ok" /\ name \notin Dots /\ Found(cur_dir, name)
        /\ Removable(n)
        /\ \/ IsDir(n) /\ Endless(n) /\ Abort
           \/ /\ ~(IsDir(n) /\ Endless(n))
              /\ \/ Writes(Removal(n, name)) /\ InMemory(n, NoInode, inode[cur_dir])
                 \/ Crash(Removal(n, name))

(* Faulty variant: the directory that is left keeps its reference. *)
CdKeepsReference(name) ==
    LET n == Named(name)
    IN  /\ fate = "ok" /\ Found(cur_dir, name) /\ IsDir(n)
        /\ i_count' = [i_count EXCEPT ![n] = @ + 1]
        /\ inode' = [inode EXCEPT ![n] = Inode(n)]
        /\ cur_dir' = n
        /\ UNCHANGED <<disk, dirty, listed, fate, crashes>>

(* The new directory is referenced before the old one is given back. *)
cmd_cd(name) ==
    LET n     == Named(name)
        count == [[i_count EXCEPT ![n] = @ + 1] EXCEPT ![cur_dir] = @ - 1]
    IN  /\ fate = "ok" /\ Found(cur_dir, name) /\ IsDir(n)
        /\ IF dirty[cur_dir] THEN Abort
           ELSE /\ i_count' = count
                /\ inode' = [[inode EXCEPT ![n] = Inode(n)]
                               EXCEPT ![cur_dir] = IF count[cur_dir] > 0 THEN @ ELSE NoInode]
                /\ cur_dir' = n
                /\ UNCHANGED <<disk, dirty, listed, fate, crashes>>

(* The directories lsr lists, of which ls lists the first. *)
Below(d) ==
    LET level[i \in 0 .. MaxInodes] ==
            IF i = 0 THEN {d}
            ELSE LET above == level[i - 1]
                 IN  above \cup {n \in UNION {Children(e) : e \in above} : IsDir(n)}
    IN  level[MaxInodes]

(* ls and lsr reference every inode they come across and give it back. *)
ListAborts(directories) ==
    \E d \in directories :
        \/ Endless(d) \/ dirty[d]
        \/ \E p \in DOMAIN entries[d] : Live(entries[d][p]) /\ dirty[entries[d][p][2]]

(* The reference to a file is not given back. *)
cmd_ls(name, recursive) ==
    LET n == Named(name)
    IN  /\ fate = "ok" /\ Found(cur_dir, name)
        /\ \/ /\ ~IsDir(n) /\ MapThenSumSet(LAMBDA k : listed[k], Inodes) < MaxListed
              /\ i_count' = [i_count EXCEPT ![n] = @ + 1]
              /\ listed' = [listed EXCEPT ![n] = @ + 1]
              /\ inode' = [inode EXCEPT ![n] = Inode(n)]
              /\ UNCHANGED <<disk, dirty, cur_dir, fate, crashes>>
           \/ /\ IsDir(n)
              /\ ListAborts(IF recursive THEN Below(n) ELSE {n})
              /\ Abort

(* stat, read and write reference the inode they have found and give it    *)
(* back.                                                                   *)
PutAborts(name) ==
    /\ fate = "ok" /\ Found(cur_dir, name) /\ dirty[Named(name)]
    /\ Abort

(* A write to a file that takes k blocks, one after the other, before the  *)
(* inode is synchronized; it may have failed for want of another.  Writes  *)
(* that take none change the size of the file only.                        *)
cmd_write(name) ==
    \E k \in 1 .. (MaxFsBlocks - used_block_count) :
        LET n == Named(name)
            x == [Inode(n) EXCEPT !.block_count = @ + k]
            writes == AllocBlocks(k) \o Put("inode", [disk.inode EXCEPT ![n] = x])
        IN  /\ fate = "ok" /\ Found(cur_dir, name) /\ ~IsDir(n)
            /\ \/ /\ Writes(writes)
                  /\ inode' = [inode EXCEPT ![n] = IF i_count[n] > 0 THEN x ELSE @]
                  /\ UNCHANGED dirty
               \/ Crash(writes)

(* The end of testfs, and its next start on the same device. *)
cmd_quit ==
    /\ fate = "ok"
    /\ IF dirty[cur_dir] \/ \E n \in Inodes : i_count[n] > (IF n = cur_dir THEN 1 ELSE 0)
       THEN Abort
       ELSE testfs_init_super_block(disk) /\ UNCHANGED <<listed, fate, crashes>>

Next ==
    \/ \E name \in Names, type \in {"I_FILE", "I_DIR"} : cmd_create(type, name)
    \/ \E name \in Names :
          \/ cmd_rm(name) \/ cmd_cd(name) \/ cmd_write(name) \/ PutAborts(name)
          \/ \E recursive \in BOOLEAN : cmd_ls(name, recursive)
    \/ LookupAborts
    \/ cmd_quit
    \/ fate # "ok" /\ UNCHANGED vars

Spec == Init /\ [][Next]_vars

-----------------------------------------------------------------------------
(* Properties.                                                             *)

InodeType == [i_type : {"I_NONE", "I_FILE", "I_DIR"}, size : Nat \cup {Huge},
              block_count : 0 .. MaxFsBlocks]

TypeOK ==
    /\ disk.inode \in [Inodes -> InodeType] /\ inode \in [Inodes -> InodeType]
    /\ i_count \in [Inodes -> Nat] /\ dirty \in [Inodes -> BOOLEAN]
    /\ entries \in [Inodes -> Seq(Names \X (Inodes \cup {INVALID_INODE_NR}))]
    /\ inode_freemap \subseteq Bits
    /\ used_inode_count \in 0 .. (FreemapBits + MaxCrashes)
    /\ used_block_count \in 0 .. MaxFsBlocks
    /\ disk.block_freemap \in 0 .. (MaxFsBlocks + MaxCrashes)
    /\ crashes \in 0 .. MaxCrashes
    /\ cur_dir \in Inodes
    /\ fate \in {"ok", "abort", "stale"}
    /\ listed \in [Inodes -> 0 .. MaxListed]

Directories == {n \in Inodes : disk.inode[n].i_type = "I_DIR"}
Entry(d, n) == {p \in DOMAIN entries[d] : entries[d][p][2] = n /\ entries[d][p][1] \notin Dots}
InUse == {Root} \cup UNION {Children(d) : d \in Below(Root)}
Blocks(inodes) == MapThenSumSet(LAMBDA n : disk.inode[n].block_count, inodes)
Leftover == {n \in Inodes \ inode_freemap : disk.inode[n] # NoInode}

(* As long as nothing has crashed, the inodes in use form a tree under the *)
(* root, on disk: each of the others has one entry, in the directory its   *)
(* own `..' leads to if it is one, every entry leads to an inode in use,   *)
(* and no name stands twice in a directory.  So pwd finds its way up, and  *)
(* the current directory is never removed.                                 *)
TreeIntact == crashes = 0 =>
    /\ inode_freemap = {n \in Inodes : disk.inode[n].i_type # "I_NONE"}
    /\ Below(Root) = Directories /\ cur_dir \in Directories
    /\ \A n \in inode_freemap \ {Root} :
          \E d \in Directories :
              /\ Cardinality(Entry(d, n)) = 1
              /\ \A e \in Directories \ {d} : Entry(e, n) = {}
              /\ n \in Directories => entries[n][2] = <<"..", d>>
    /\ \A d \in Directories :
          /\ entries[d][1] = <<".", d>>
          /\ \A p, q \in DOMAIN entries[d] :
                /\ Live(entries[d][p]) => entries[d][p][2] \in inode_freemap
                /\ Live(entries[d][p]) /\ Live(entries[d][q])
                   /\ entries[d][p][1] = entries[d][q][1] => p = q

(* The references are those of the current directory and those ls lost;    *)
(* what is in memory is on disk too, except the size of the current        *)
(* directory after an entry did not fit.                                   *)
MemoryAgrees ==
    \A n \in Inodes :
        /\ i_count[n] = listed[n] + (IF n = cur_dir THEN 1 ELSE 0)
        /\ dirty[n] => n = cur_dir /\ inode[n].size = Huge
        /\ i_count[n] > 0 =>
              inode[n] = IF dirty[n] THEN [disk.inode[n] EXCEPT !.size = Huge] ELSE disk.inode[n]

(* The counters fsstat prints are exact as long as nothing has crashed:    *)
(* also after commands that failed halfway and gave back what they had     *)
(* taken.                                                                  *)
CountersExact == crashes = 0 =>
    /\ used_inode_count = Cardinality(inode_freemap)
    /\ used_block_count = Blocks(Inodes) /\ disk.block_freemap = used_block_count
    /\ \A d \in Directories :
          LET full == EntriesPerBlock * disk.inode[d].block_count
          IN  full - EntriesPerBlock < Len(entries[d]) /\ Len(entries[d]) <= full

(* The order in which a command writes to the device (dir.c:220 the entry, *)
(* then the inodes; dir.c:172 and inode.c:226 the entry, then the freemap  *)
(* and the inode) never gives an inode to two entries, wherever a crash    *)
(* cuts it: whatever an entry in the tree leads to is marked in the        *)
(* freemap, and no two entries lead to the same inode.  This is about      *)
(* inodes and not about their blocks, and it ends where a create takes one *)
(* of the inodes below (fate is "stale" then).                             *)
EntriesLeadToInodes ==
    /\ InUse \subseteq inode_freemap
    /\ \A n \in InUse \ {Root} :
          Cardinality(UNION {{d} \X Entry(d, n) : d \in Below(Root)}) = 1

(* The counters of the super block are never behind what is in use, and    *)
(* each crash puts them off by one at most (super.c:208, 219, 235, 250: a  *)
(* freemap is written before its counter), so that the assertions that     *)
(* they are positive (super.c:220, 251) hold whatever is removed next.     *)
(* That is so until a create takes over a free inode that still has its    *)
(* old contents, with a block_count nothing stands behind any more: a      *)
(* crash leaves one of those at most, when it cuts a removal between       *)
(* inode.c:227 and 228, and inode.c:211 stops the model at the first.      *)
CountersCover ==
    /\ Cardinality(Leftover) <= crashes
    /\ Cardinality(InUse) <= used_inode_count
    /\ Blocks(InUse) <= Min({used_block_count, disk.block_freemap})
    /\ used_inode_count - Cardinality(inode_freemap) \in (-crashes) .. crashes
    /\ used_block_count - disk.block_freemap \in (-crashes) .. crashes
=============================================================================

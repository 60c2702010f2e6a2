--------------------------- MODULE BlockMapProofs ---------------------------
(***************************************************************************)
(* Proofs about BlockMap, for every number of files, direct blocks,        *)
(* pointers in a block and blocks of the device.                           *)
(***************************************************************************)
EXTENDS BlockMap, Counting

(* The states a write or a removal goes through.                           *)
Cells  == Blocks \cup {NoBlock}
Data   == 0 .. (MAX_FILE_SIZE - 1)
Fates  == {"ok", "abort", "torn", "wild"}
Device == [Blocks -> [Slots -> Cells]]
InodeState == [i_block_nr : [Direct -> Cells], i_indirect : Cells, i_dindirect : Cells,
               block_count : Int, i_size : Int]
State == [in : InodeState, used : SUBSET Blocks, ptr : Device,
          con : [Blocks -> {Zeros} \cup (Files \X Data)],
          got : Cells, next : Int, total : Int, fate : Fates]

(* The places of a file a pointer can stand in, and what stands there.     *)
Spots == ({"data"} \X Data) \cup ({"three"} \X Slots) \cup {<<"indirect", 0>>, <<"dindirect", 0>>}

Via(ptr, b, i) == IF b = NoBlock THEN NoBlock ELSE ptr[b][i]
Datum(in, ptr, k) ==
    CASE k \in Direct -> in.i_block_nr[k]
      [] k \notin Direct /\ Beyond(k) < 0 -> Via(ptr, in.i_indirect, k - NR_DIRECT_BLOCKS)
      [] Beyond(k) >= 0 -> Via(ptr, Via(ptr, in.i_dindirect, LayerThreeBlock(k)),
                               LayerThreePointer(k))
At(in, ptr, sp) ==
    CASE sp[1] = "data"      -> Datum(in, ptr, sp[2])
      [] sp[1] = "three"     -> Via(ptr, in.i_dindirect, sp[2])
      [] sp[1] = "indirect"  -> in.i_indirect
      [] sp[1] = "dindirect" -> in.i_dindirect
Own(ino, ptr) == [g \in Files |-> [sp \in Spots |-> At(ino[g], ptr, sp)]]

(* The blocks in use are those pointed to, each from one place only.       *)
Fits(own, used) ==
    /\ \A g, h \in Files : \A sp, sq \in Spots :
          own[g][sp] = own[h][sq] /\ own[g][sp] # NoBlock => g = h /\ sp = sq
    /\ \A b \in Blocks : b \in used <=> \E g \in Files : \E sp \in Spots : own[g][sp] = b
Filled(row) == {sp \in Spots : row[sp] # NoBlock}
Clean(used, ptr) == \A b \in Blocks \ used : ptr[b] = ZeroBlock
(* No block of the third layer is empty.                                   *)
Leafy(own) ==
    \A g \in Files : \A r \in Slots :
        own[g][<<"three", r>>] # NoBlock =>
            \E k \in Data : Beyond(k) >= 0 /\ LayerThreeBlock(k) = r /\ own[g][<<"data", k>>] # NoBlock
(* What was written is there.                                              *)
Holds(own, con, wr) ==
    \A g \in Files : \A k \in Data :
        /\ k \in wr[g] => own[g][<<"data", k>>] # NoBlock /\ con[own[g][<<"data", k>>]] = <<g, k>>
        /\ k \notin wr[g] => own[g][<<"data", k>>] = NoBlock

(* What is left when a doubly indirect block was forgotten: no block in    *)
(* two places, a block in use that stands nowhere, and no free block but   *)
(* the indirect block of one file, if it has one, that stands anywhere.    *)
Alone(own) ==
    \A g, h \in Files : \A sp, sq \in Spots :
        own[g][sp] = own[h][sq] /\ own[g][sp] # NoBlock => g = h /\ sp = sq
Stands(own, b) == \E g \in Files : \E sp \in Spots : own[g][sp] = b
Tattered(own, used, f) ==
    /\ Alone(own)
    /\ \E d \in used : ~Stands(own, d)
    /\ \A b \in Blocks : b \notin used /\ Stands(own, b) <=> b = own[f][<<"indirect", 0>>]

IInv ==
    /\ TypeOK
    /\ fate = "torn" => \E f \in Files : Tattered(Own(inode, pointers), block_freemap, f)
    /\ fate = "ok" =>
          LET own == Own(inode, pointers)
          IN  /\ Fits(own, block_freemap)
              /\ Clean(block_freemap, pointers)
              /\ Leafy(own)
              /\ Holds(own, contents, written)
              /\ \A f \in Files : inode[f].block_count = Cardinality(Filled(own[f]))
              /\ \A f \in Files : \A k \in written[f] : k < inode[f].i_size

-----------------------------------------------------------------------------
(* Numbers.                                                                *)

LEMMA LeastOf ==
    ASSUME NEW S \in SUBSET Nat, S # {}
    PROVE  Min(S) \in S
<1>1. \E x \in S : \A y \in S : x =< y
  BY LeastNat
<1>. QED
  BY <1>1, Zenon DEF Min

LEMMA LeastOfTwo ==
    ASSUME NEW a \in Int, NEW b \in Int
    PROVE  Min({a, b}) = IF a <= b THEN a ELSE b
<1>1. \A x \in {a, b} : (\A y \in {a, b} : x <= y) <=> x = IF a <= b THEN a ELSE b
  OBVIOUS
<1>2. (IF a <= b THEN a ELSE b) \in {a, b}
  OBVIOUS
<1>. DEFINE m == IF a <= b THEN a ELSE b
<1>. HIDE DEF m
<1>3. (CHOOSE x \in {a, b} : \A y \in {a, b} : x <= y) = m
  BY <1>1, <1>2 DEF m
<1>. QED
  BY <1>3 DEF Min, m

LEMMA MostOfTwo ==
    ASSUME NEW a \in Int, NEW b \in Int
    PROVE  Max({a, b}) = IF a >= b THEN a ELSE b
<1>1. \A x \in {a, b} : (\A y \in {a, b} : x >= y) <=> x = IF a >= b THEN a ELSE b
  OBVIOUS
<1>2. (IF a >= b THEN a ELSE b) \in {a, b}
  OBVIOUS
<1>. DEFINE m == IF a >= b THEN a ELSE b
<1>. HIDE DEF m
<1>3. (CHOOSE x \in {a, b} : \A y \in {a, b} : x >= y) = m
  BY <1>1, <1>2 DEF m
<1>. QED
  BY <1>3 DEF Max, m

LEMMA ProductGrows ==
    ASSUME NEW n \in Nat, NEW a \in Int, NEW b \in Int, a >= b
    PROVE  n * a >= n * b
  OBVIOUS

LEMMA Division ==
    ASSUME NEW a \in Nat, NEW n \in Nat \ {0}
    PROVE  a \div n \in Nat /\ a % n \in 0 .. (n - 1) /\ a = n * (a \div n) + (a % n)
  OBVIOUS

(* A number below n * n has two digits.                                    *)
LEMMA FirstDigit ==
    ASSUME NEW r \in Nat, NEW n \in Nat \ {0}, NEW c \in 0 .. (n - 1), n * r + c < n * n
    PROVE  r < n
<1>. SUFFICES ASSUME r >= n PROVE FALSE
  OBVIOUS
<1>. DEFINE x == n * r
            y == n * n
<1>1. x \in Int /\ y \in Int /\ x >= y /\ x + c < y
  BY ProductGrows
<1>. HIDE DEF x, y
<1>. QED
  BY <1>1

LEMMA LessDigit ==
    ASSUME NEW n \in Nat \ {0}, NEW r \in Int, NEW s \in Int,
           NEW c \in 0 .. (n - 1), NEW d \in 0 .. (n - 1), n * r + c = n * s + d
    PROVE  ~(r > s)
<1>. SUFFICES ASSUME r > s PROVE FALSE
  OBVIOUS
<1>. DEFINE x == n * r
            y == n * s
<1>1. n * r >= n * (s + 1)
  BY ProductGrows
<1>2. n * (s + 1) = n * s + n
  OBVIOUS
<1>3. x \in Int /\ y \in Int /\ x >= y + n /\ x + c = y + d
  BY <1>1, <1>2
<1>. HIDE DEF x, y
<1>. QED
  BY <1>3

LEMMA Digits ==
    ASSUME NEW n \in Nat \ {0}, NEW r \in Int, NEW s \in Int,
           NEW c \in 0 .. (n - 1), NEW d \in 0 .. (n - 1), n * r + c = n * s + d
    PROVE  r = s /\ c = d
<1>1. r = s
  BY LessDigit
<1>2. n * r \in Int
  OBVIOUS
<1>. QED
  BY <1>1, <1>2

LEMMA Sizes ==
    /\ NR_DIRECT_BLOCKS \in Nat \ {0}
    /\ NR_INDIRECT_BLOCKS \in Nat \ {0}
    /\ MAX_FILE_SIZE \in Nat
    /\ MAX_FILE_SIZE > NR_DIRECT_BLOCKS
    /\ MaxFsBlocks \in Nat
    /\ MaxLength \in Nat
    /\ IsFiniteSet(Files)
    /\ \A k \in Int : Beyond(k) \in Int /\ Beyond(k) = k - NR_DIRECT_BLOCKS - NR_INDIRECT_BLOCKS
<1>1. NR_INDIRECT_BLOCKS * NR_INDIRECT_BLOCKS \in Nat
  BY BlockMapAssumption
<1>. DEFINE x == NR_INDIRECT_BLOCKS * NR_INDIRECT_BLOCKS
<1>2. x \in Nat /\ MAX_FILE_SIZE = NR_DIRECT_BLOCKS + NR_INDIRECT_BLOCKS + x
  BY <1>1 DEF MAX_FILE_SIZE
<1>. HIDE DEF x
<1>. QED
  BY <1>2, BlockMapAssumption DEF Beyond

(* The three parts of a file.                                              *)
LEMMA Layers ==
    ASSUME NEW k \in Data
    PROVE  /\ k \in Nat
           /\ k \notin Direct /\ Beyond(k) < 0 => k - NR_DIRECT_BLOCKS \in Slots
           /\ Beyond(k) >= 0 =>
                 /\ k \notin Direct
                 /\ LayerThreeBlock(k) \in Slots
                 /\ LayerThreePointer(k) \in Slots
                 /\ Beyond(k) = NR_INDIRECT_BLOCKS * LayerThreeBlock(k) + LayerThreePointer(k)
<1>1. k \in Nat /\ k < MAX_FILE_SIZE
  BY Sizes DEF Data
<1>2. k \notin Direct /\ Beyond(k) < 0 => k - NR_DIRECT_BLOCKS \in Slots
  BY <1>1, Sizes DEF Direct, Slots
<1>3. ASSUME Beyond(k) >= 0
      PROVE  /\ k \notin Direct
             /\ LayerThreeBlock(k) \in Slots
             /\ LayerThreePointer(k) \in Slots
             /\ Beyond(k) = NR_INDIRECT_BLOCKS * LayerThreeBlock(k) + LayerThreePointer(k)
  <2>. DEFINE a == Beyond(k)
              n == NR_INDIRECT_BLOCKS
              r == LayerThreeBlock(k)
              c == LayerThreePointer(k)
              x == n * n
  <2>1. a \in Nat /\ n \in Nat \ {0} /\ k \notin Direct
    BY <1>1, <1>3, Sizes DEF Direct
  <2>2. r = a \div n /\ c = a % n
    BY DEF LayerThreeBlock, LayerThreePointer
  <2>3. r \in Nat /\ c \in 0 .. (n - 1) /\ a = n * r + c
    BY <2>1, <2>2, Division
  <2>4. a < n * n
    <3>1. x \in Int /\ MAX_FILE_SIZE = NR_DIRECT_BLOCKS + NR_INDIRECT_BLOCKS + x
      BY Sizes DEF MAX_FILE_SIZE
    <3>. HIDE DEF x
    <3>2. a < x
      BY <1>1, <3>1, Sizes
    <3>. QED
      BY <3>2 DEF x
  <2>5. r < n
    <3>. HIDE DEF n, r, c, a
    <3>1. n * r + c < n * n
      BY <2>3, <2>4
    <3>. QED
      BY <2>1, <2>3, <3>1, FirstDigit
  <2>. QED
    BY <2>1, <2>3, <2>5 DEF Slots
<1>. QED
  BY <1>1, <1>2, <1>3

LEMMA SameLayers ==
    ASSUME NEW k \in Data, NEW j \in Data, Beyond(k) >= 0, Beyond(j) >= 0,
           LayerThreeBlock(k) = LayerThreeBlock(j), LayerThreePointer(k) = LayerThreePointer(j)
    PROVE  k = j
<1>1. Beyond(k) = Beyond(j)
  BY Layers
<1>. QED
  BY <1>1, Layers, Sizes

(* Each pointer of the third layer is the one of a block of the file.      *)
LEMMA BehindLayers ==
    ASSUME NEW r \in Slots, NEW c \in Slots
    PROVE  \E k \in Data : Beyond(k) >= 0 /\ LayerThreeBlock(k) = r /\ LayerThreePointer(k) = c
<1>. DEFINE n == NR_INDIRECT_BLOCKS
            a == n * r + c
            k == a + NR_DIRECT_BLOCKS + NR_INDIRECT_BLOCKS
<1>1. n \in Nat \ {0} /\ r \in 0 .. (n - 1) /\ c \in 0 .. (n - 1)
  BY Sizes DEF Slots
<1>2. a \in Nat /\ a < n * n
  <2>1. n * (n - 1) >= n * r
    BY <1>1, ProductGrows
  <2>2. n * (n - 1) = n * n - n /\ n * n \in Int /\ n * r \in Nat
    BY <1>1
  <2>. DEFINE x == n * n
              y == n * r
  <2>3. x \in Int /\ y \in Nat /\ x - n >= y /\ a = y + c
    BY <2>1, <2>2
  <2>. HIDE DEF x, y, a
  <2>4. a \in Nat /\ a < x
    BY <1>1, <2>3
  <2>. QED
    BY <2>4 DEF x
<1>. DEFINE x == n * n
<1>3. x \in Int /\ MAX_FILE_SIZE = NR_DIRECT_BLOCKS + NR_INDIRECT_BLOCKS + x /\ a < x
  BY <1>1, <1>2 DEF MAX_FILE_SIZE
<1>. HIDE DEF x, a
<1>4. k \in Data /\ Beyond(k) = a
  BY <1>2, <1>3, Sizes DEF Data
<1>5. r = a \div n /\ c = a % n
  <2>. DEFINE q == a \div n
              m == a % n
  <2>1. q \in Nat /\ m \in 0 .. (n - 1) /\ a = n * q + m
    BY <1>1, <1>2, Division
  <2>2. a = n * r + c
    BY DEF a
  <2>. HIDE DEF q, m
  <2>3. n * r + c = n * q + m /\ r \in Int /\ q \in Int
    BY <1>1, <2>1, <2>2
  <2>4. r = q /\ c = m
    BY <1>1, <2>1, <2>3, Digits
  <2>. QED
    BY <2>4 DEF q, m
<1>. HIDE DEF k
<1>. QED
  BY <1>2, <1>4, <1>5 DEF LayerThreeBlock, LayerThreePointer

-----------------------------------------------------------------------------
(* Loops.  The functions For takes the last value of exist, and a property *)
(* that each round preserves holds at the end.                             *)

Rounds(body, S, first, last, f) ==
    [k \in (first - 1) .. last |-> IF k < first THEN S ELSE body[<<f[k - 1], k>>]]

IsBody(T, first, last, body) == body \in [T \X (first .. last) -> T]

LEMMA RoundsExist ==
    ASSUME NEW T, NEW first \in Int, NEW last \in Int, NEW S \in T,
           NEW body, IsBody(T, first, last, body)
    PROVE  \E f \in [(first - 1) .. last -> T] : f = Rounds(body, S, first, last, f)
<1>. DEFINE N == {n \in Nat : first - 1 + n <= last =>
                     \E f \in [(first - 1) .. (first - 1 + n) -> T] :
                        f = Rounds(body, S, first, first - 1 + n, f)}
<1>1. 0 \in N
  <2>. DEFINE f == [k \in (first - 1) .. (first - 1) |-> S]
  <2>1. f \in [(first - 1) .. (first - 1 + 0) -> T]
    OBVIOUS
  <2>2. f = Rounds(body, S, first, first - 1 + 0, f)
    BY DEF Rounds
  <2>. QED
    BY <2>1, <2>2
<1>2. ASSUME NEW n \in Nat, n \in N
      PROVE  n + 1 \in N
  <2>. DEFINE m == first - 1 + n
  <2>. SUFFICES ASSUME m + 1 <= last
                PROVE  \E f \in [(first - 1) .. (m + 1) -> T] : f = Rounds(body, S, first, m + 1, f)
    OBVIOUS
  <2>0. m \in Int /\ m + 1 \in first .. last /\ m >= first - 1 /\ first - 1 + (n + 1) = m + 1
    OBVIOUS
  <2>1. PICK f \in [(first - 1) .. m -> T] : f = Rounds(body, S, first, m, f)
    BY <1>2, <2>0
  <2>. HIDE DEF m
  <2>. DEFINE g == [k \in (first - 1) .. (m + 1) |->
                      IF k = m + 1 THEN body[<<f[m], k>>] ELSE f[k]]
  <2>2. \A k \in (first - 1) .. m : f[k] = IF k < first THEN S ELSE body[<<f[k - 1], k>>]
    <3>1. \A k \in (first - 1) .. m : Rounds(body, S, first, m, f)[k] =
             IF k < first THEN S ELSE body[<<f[k - 1], k>>]
      BY DEF Rounds
    <3>. QED
      BY <2>1, <3>1
  <2>3. g \in [(first - 1) .. (m + 1) -> T]
    BY <2>0, <2>1 DEF IsBody
  <2>4. \A k \in (first - 1) .. (m + 1) : g[k] = IF k < first THEN S ELSE body[<<g[k - 1], k>>]
    <3>. TAKE k \in (first - 1) .. (m + 1)
    <3>1. CASE k = m + 1
      <4>1. k - 1 = m /\ ~(k < first) /\ g[m] = f[m]
        BY <2>0, <3>1
      <4>. QED
        BY <3>1, <4>1
    <3>2. CASE k # m + 1
      <4>1. k \in (first - 1) .. m /\ g[k] = f[k]
        BY <2>0, <3>2
      <4>2. ~(k < first) => g[k - 1] = f[k - 1]
        BY <2>0, <3>2
      <4>. QED
        BY <2>2, <4>1, <4>2
    <3>. QED
      BY <3>1, <3>2
  <2>. HIDE DEF g
  <2>5. g = Rounds(body, S, first, m + 1, g)
    <3>1. g = [k \in (first - 1) .. (m + 1) |-> g[k]]
      BY <2>3
    <3>. QED
      BY <2>4, <3>1 DEF Rounds
  <2>. QED
    BY <2>3, <2>5
<1>. HIDE DEF N
<1>3. \A n \in Nat : n \in N
  BY <1>1, <1>2, AllNat
<1>4. CASE first - 1 <= last
  <2>1. last - (first - 1) \in Nat /\ first - 1 + (last - (first - 1)) = last
    BY <1>4
  <2>. DEFINE n == last - (first - 1)
  <2>2. n \in Nat /\ n \in N /\ first - 1 + n = last
    BY <1>3, <2>1
  <2>. HIDE DEF n
  <2>3. \E f \in [(first - 1) .. (first - 1 + n) -> T] :
           f = Rounds(body, S, first, first - 1 + n, f)
    BY <2>2 DEF N
  <2>. QED
    BY <2>2, <2>3
<1>5. CASE ~(first - 1 <= last)
  <2>. DEFINE f == [k \in (first - 1) .. last |-> S]
  <2>1. f \in [(first - 1) .. last -> T]
    OBVIOUS
  <2>2. \A k \in (first - 1) .. last : FALSE
    BY <1>5
  <2>3. f = Rounds(body, S, first, last, f)
    BY <2>2 DEF Rounds
  <2>. QED
    BY <2>1, <2>3
<1>. QED
  BY <1>4, <1>5

LEMMA RoundsKeep ==
    ASSUME NEW first \in Int, NEW last \in Int, first <= last, NEW g, NEW Q,
           <<g[first - 1], first - 1>> \in Q,
           \A k \in first .. last : <<g[k - 1], k - 1>> \in Q => <<g[k], k>> \in Q
    PROVE  <<g[last], last>> \in Q
<1>. DEFINE N == {n \in Nat : first - 1 + n <= last => <<g[first - 1 + n], first - 1 + n>> \in Q}
<1>1. 0 \in N
  OBVIOUS
<1>2. ASSUME NEW n \in Nat, n \in N
      PROVE  n + 1 \in N
  <2>. SUFFICES ASSUME first + n <= last PROVE <<g[first + n], first + n>> \in Q
    OBVIOUS
  <2>. DEFINE k == first + n
  <2>1. k \in first .. last /\ k - 1 = first - 1 + n /\ first - 1 + n <= last
    OBVIOUS
  <2>2. <<g[k - 1], k - 1>> \in Q
    BY <1>2, <2>1
  <2>. QED
    BY <2>1, <2>2
<1>. HIDE DEF N
<1>3. \A n \in Nat : n \in N
  BY <1>1, <1>2, AllNat
<1>4. last - (first - 1) \in Nat /\ first - 1 + (last - (first - 1)) = last
  OBVIOUS
<1>5. last - (first - 1) \in N
  BY <1>3, <1>4
<1>. QED
  BY <1>4, <1>5 DEF N

-----------------------------------------------------------------------------
(* What the places of the files hold, and how that changes when one        *)
(* pointer is set.                                                         *)

Inos == [Files -> InodeState]
Owns == [Files -> [Spots -> Cells]]
Linked(own, f, sp, b, new) ==
    \A g \in Files : \A sq \in Spots :
        new[g][sq] = IF g = f /\ sq = sp THEN b ELSE own[g][sq]
Same(in, new) ==
    new.i_block_nr = in.i_block_nr /\ new.i_indirect = in.i_indirect /\ new.i_dindirect = in.i_dindirect

LEMMA SpotCases ==
    ASSUME NEW sp \in Spots
    PROVE  \/ \E k \in Data : sp = <<"data", k>>
           \/ \E r \in Slots : sp = <<"three", r>>
           \/ sp = <<"indirect", 0>>
           \/ sp = <<"dindirect", 0>>
  BY DEF Spots

LEMMA SpotsAre ==
    /\ \A k \in Data : <<"data", k>> \in Spots
    /\ \A r \in Slots : <<"three", r>> \in Spots
    /\ <<"indirect", 0>> \in Spots
    /\ <<"dindirect", 0>> \in Spots
  BY DEF Spots

LEMMA SpotsFinite == IsFiniteSet(Spots)
<1>1. IsFiniteSet(Data) /\ IsFiniteSet(Slots)
  <2>. DEFINE m == MAX_FILE_SIZE - 1
              n == NR_INDIRECT_BLOCKS - 1
  <2>1. m \in Int /\ n \in Int
    BY Sizes
  <2>. HIDE DEF m, n
  <2>2. IsFiniteSet(0 .. m) /\ IsFiniteSet(0 .. n)
    BY <2>1, FS_Interval
  <2>. QED
    BY <2>2 DEF m, n, Data, Slots
<1>2. IsFiniteSet({"data"}) /\ IsFiniteSet({"three"})
  BY FS_Singleton
<1>3. IsFiniteSet({"data"} \X Data) /\ IsFiniteSet({"three"} \X Slots)
  BY <1>1, <1>2, FS_Product
<1>4. IsFiniteSet(({"data"} \X Data) \cup ({"three"} \X Slots))
  BY <1>3, FS_Union
<1>5. IsFiniteSet({<<"indirect", 0>>, <<"dindirect", 0>>})
  <2>1. {<<"indirect", 0>>, <<"dindirect", 0>>} = {<<"indirect", 0>>} \cup {<<"dindirect", 0>>}
    OBVIOUS
  <2>2. IsFiniteSet({<<"indirect", 0>>}) /\ IsFiniteSet({<<"dindirect", 0>>})
    BY FS_Singleton
  <2>3. IsFiniteSet({<<"indirect", 0>>} \cup {<<"dindirect", 0>>})
    BY <2>2, FS_Union
  <2>. QED
    BY <2>1, <2>3
<1>. DEFINE A == ({"data"} \X Data) \cup ({"three"} \X Slots)
            B == {<<"indirect", 0>>, <<"dindirect", 0>>}
<1>6. Spots = A \cup B
  BY DEF Spots
<1>. HIDE DEF A, B
<1>. QED
  BY <1>4, <1>5, <1>6, FS_Union DEF A, B

LEMMA AtIs ==
    ASSUME NEW in, NEW ptr
    PROVE  /\ \A k : At(in, ptr, <<"data", k>>) = Datum(in, ptr, k)
           /\ \A r : At(in, ptr, <<"three", r>>) = Via(ptr, in.i_dindirect, r)
           /\ At(in, ptr, <<"indirect", 0>>) = in.i_indirect
           /\ At(in, ptr, <<"dindirect", 0>>) = in.i_dindirect
  BY DEF At

LEMMA ViaType ==
    ASSUME NEW ptr \in Device, NEW b \in Cells, NEW i \in Slots
    PROVE  Via(ptr, b, i) \in Cells
  BY DEF Via, Device, Cells

(* The pointer a block of a file is found by.                              *)
LEMMA DatumIs ==
    ASSUME NEW in, NEW ptr, NEW k \in Data
    PROVE  /\ k \in Direct => Datum(in, ptr, k) = in.i_block_nr[k]
           /\ k \notin Direct /\ Beyond(k) < 0 =>
                 Datum(in, ptr, k) = Via(ptr, in.i_indirect, k - NR_DIRECT_BLOCKS)
           /\ Beyond(k) >= 0 =>
                 Datum(in, ptr, k) = Via(ptr, Via(ptr, in.i_dindirect, LayerThreeBlock(k)),
                                         LayerThreePointer(k))
           /\ k \in Direct \/ (k \notin Direct /\ Beyond(k) < 0) \/ Beyond(k) >= 0
<1>1. Beyond(k) >= 0 => k \notin Direct
  BY Layers
<1>2. Beyond(k) \in Int
  BY Layers, Sizes
<1>. QED
  BY <1>1, <1>2 DEF Datum

LEMMA DatumType ==
    ASSUME NEW in \in InodeState, NEW ptr \in Device, NEW k \in Data
    PROVE  Datum(in, ptr, k) \in Cells
<1>1. CASE k \in Direct
  BY <1>1, DatumIs DEF InodeState
<1>2. CASE k \notin Direct /\ Beyond(k) < 0
  <2>1. k - NR_DIRECT_BLOCKS \in Slots /\ in.i_indirect \in Cells
    BY <1>2, Layers DEF InodeState
  <2>. QED
    BY <1>2, <2>1, DatumIs, ViaType
<1>3. CASE Beyond(k) >= 0
  <2>1. LayerThreeBlock(k) \in Slots /\ LayerThreePointer(k) \in Slots /\ in.i_dindirect \in Cells
    BY <1>3, Layers DEF InodeState
  <2>. QED
    BY <1>3, <2>1, DatumIs, ViaType
<1>. QED
  BY <1>1, <1>2, <1>3, DatumIs

LEMMA AtType ==
    ASSUME NEW in \in InodeState, NEW ptr \in Device, NEW sp \in Spots
    PROVE  At(in, ptr, sp) \in Cells
<1>1. in.i_indirect \in Cells /\ in.i_dindirect \in Cells
  BY DEF InodeState
<1>2. CASE \E k \in Data : sp = <<"data", k>>
  <2>1. PICK k \in Data : sp = <<"data", k>>
    BY <1>2
  <2>2. At(in, ptr, sp) = Datum(in, ptr, k)
    BY <2>1, AtIs
  <2>. QED
    BY <2>2, DatumType
<1>3. CASE \E r \in Slots : sp = <<"three", r>>
  <2>1. PICK r \in Slots : sp = <<"three", r>>
    BY <1>3
  <2>2. At(in, ptr, sp) = Via(ptr, in.i_dindirect, r)
    BY <2>1, AtIs
  <2>. QED
    BY <1>1, <2>2, ViaType
<1>4. CASE sp = <<"indirect", 0>>
  BY <1>1, <1>4, AtIs, Zenon
<1>5. CASE sp = <<"dindirect", 0>>
  BY <1>1, <1>5, AtIs, Zenon
<1>. QED
  BY <1>2, <1>3, <1>4, <1>5, SpotCases, Zenon

LEMMA OwnType ==
    ASSUME NEW ino \in Inos, NEW ptr \in Device
    PROVE  /\ Own(ino, ptr) \in Owns
           /\ \A g \in Files : \A sp \in Spots : Own(ino, ptr)[g][sp] = At(ino[g], ptr, sp)
  BY AtType DEF Own, Owns, Inos

LEMMA SameOwn ==
    ASSUME NEW in, NEW new, NEW ptr, Same(in, new), NEW sp \in Spots
    PROVE  At(new, ptr, sp) = At(in, ptr, sp)
  BY DEF At, Datum, Same

LEMMA FitsLink ==
    ASSUME NEW own \in Owns, NEW new \in Owns, NEW used \in SUBSET Blocks, Fits(own, used),
           NEW b \in Blocks \ used, NEW f \in Files, NEW sp \in Spots, own[f][sp] = NoBlock,
           Linked(own, f, sp, b, new)
    PROVE  Fits(new, used \cup {b})
<1>1. \A g \in Files : \A sq \in Spots : own[g][sq] # b
  BY DEF Fits
<1>2. b # NoBlock
  BY DEF Blocks, NoBlock
<1>3. ASSUME NEW g \in Files, NEW h \in Files, NEW sq \in Spots, NEW sr \in Spots,
             new[g][sq] = new[h][sr], new[g][sq] # NoBlock
      PROVE  g = h /\ sq = sr
  <2>1. CASE g = f /\ sq = sp
    <3>1. new[h][sr] = b
      BY <1>3, <2>1 DEF Linked
    <3>2. h = f /\ sr = sp
      BY <1>1, <3>1 DEF Linked
    <3>. QED
      BY <2>1, <3>2
  <2>2. CASE h = f /\ sr = sp
    <3>1. new[g][sq] = b
      BY <1>3, <2>2 DEF Linked
    <3>2. g = f /\ sq = sp
      BY <1>1, <3>1 DEF Linked
    <3>. QED
      BY <2>2, <3>2
  <2>3. CASE ~(g = f /\ sq = sp) /\ ~(h = f /\ sr = sp)
    <3>1. new[g][sq] = own[g][sq] /\ new[h][sr] = own[h][sr]
      BY <2>3 DEF Linked
    <3>2. own[g][sq] = own[h][sr] /\ own[g][sq] # NoBlock
      BY <1>3, <3>1
    <3>3. \A i, j \in Files : \A s, t \in Spots :
             own[i][s] = own[j][t] /\ own[i][s] # NoBlock => i = j /\ s = t
      BY DEF Fits
    <3>. QED
      BY <3>2, <3>3
  <2>. QED
    BY <2>1, <2>2, <2>3
<1>4. ASSUME NEW c \in Blocks
      PROVE  c \in used \cup {b} <=> \E g \in Files : \E sq \in Spots : new[g][sq] = c
  <2>1. CASE c = b
    <3>1. new[f][sp] = b
      BY DEF Linked
    <3>. QED
      BY <2>1, <3>1
  <2>2. CASE c # b
    <3>1. \A g \in Files : \A sq \in Spots : new[g][sq] = c <=> own[g][sq] = c
      <4>1. c # NoBlock
        BY DEF Blocks, NoBlock
      <4>. QED
        BY <2>2, <4>1 DEF Linked
    <3>2. c \in used <=> \E g \in Files : \E sq \in Spots : own[g][sq] = c
      BY DEF Fits
    <3>. QED
      BY <2>2, <3>1, <3>2
  <2>. QED
    BY <2>1, <2>2
<1>. QED
  BY <1>3, <1>4 DEF Fits

LEMMA FilledFinite ==
    \A row : IsFiniteSet(Filled(row)) /\ Cardinality(Filled(row)) \in Nat
<1>. TAKE row
<1>1. Filled(row) \in SUBSET Spots
  BY DEF Filled
<1>2. IsFiniteSet(Filled(row))
  BY <1>1, SpotsFinite, FS_Subset
<1>. QED
  BY <1>2, FS_CardinalityType

LEMMA FilledLink ==
    ASSUME NEW own \in Owns, NEW new \in Owns, NEW b \in Blocks, NEW f \in Files,
           NEW sp \in Spots, own[f][sp] = NoBlock, Linked(own, f, sp, b, new)
    PROVE  Cardinality(Filled(new[f])) = Cardinality(Filled(own[f])) + 1
<1>1. Filled(new[f]) = Filled(own[f]) \cup {sp} /\ sp \notin Filled(own[f])
  BY DEF Filled, Linked, Blocks, NoBlock
<1>2. IsFiniteSet(Filled(own[f]))
  BY FilledFinite
<1>. QED
  BY <1>1, <1>2, FS_AddElement

LEMMA FilledSame ==
    ASSUME NEW own, NEW new, NEW g \in Files,
           \A sp \in Spots : new[g][sp] = own[g][sp]
    PROVE  Filled(new[g]) = Filled(own[g])
  BY DEF Filled

(* One lemma for each pointer a new block is linked to.                    *)

LEMMA Parts ==
    ASSUME NEW ino, NEW ptr, NEW g \in Files
    PROVE  /\ Own(ino, ptr)[g][<<"indirect", 0>>] = ino[g].i_indirect
           /\ Own(ino, ptr)[g][<<"dindirect", 0>>] = ino[g].i_dindirect
           /\ \A r \in Slots : Own(ino, ptr)[g][<<"three", r>>] = Via(ptr, ino[g].i_dindirect, r)
           /\ \A k \in Data : Own(ino, ptr)[g][<<"data", k>>] = Datum(ino[g], ptr, k)
           /\ \A sp \in Spots : Own(ino, ptr)[g][sp] = At(ino[g], ptr, sp)
<1>1. \A sp \in Spots : Own(ino, ptr)[g][sp] = At(ino[g], ptr, sp)
  BY DEF Own
<1>. QED
  BY <1>1, AtIs, SpotsAre

(* A block stands in one place.                                            *)
LEMMA OnePlace ==
    ASSUME NEW own, NEW used, Fits(own, used), NEW g \in Files, NEW h \in Files,
           NEW sp \in Spots, NEW sq \in Spots, own[g][sp] = own[h][sq], own[g][sp] # NoBlock
    PROVE  g = h /\ sp = sq
<1>1. \A i, j \in Files : \A s, t \in Spots :
         own[i][s] = own[j][t] /\ own[i][s] # NoBlock => i = j /\ s = t
  BY DEF Fits
<1>. QED
  BY <1>1

LEMMA DirectData == \A k \in Direct : k \in Data
  BY Sizes DEF Direct, Data

LEMMA LinkDirect ==
    ASSUME NEW ino \in Inos, NEW new \in Inos, NEW ptr \in Device, NEW f \in Files,
           \A g \in Files \ {f} : new[g] = ino[g], NEW k \in Direct, NEW b,
           new[f].i_block_nr = [ino[f].i_block_nr EXCEPT ![k] = b],
           new[f].i_indirect = ino[f].i_indirect, new[f].i_dindirect = ino[f].i_dindirect
    PROVE  Linked(Own(ino, ptr), f, <<"data", k>>, b, Own(new, ptr))
<1>. SUFFICES ASSUME NEW g \in Files, NEW sp \in Spots
              PROVE  Own(new, ptr)[g][sp] =
                        IF g = f /\ sp = <<"data", k>> THEN b ELSE Own(ino, ptr)[g][sp]
  BY DEF Linked
<1>1. CASE g # f
  BY <1>1, Parts
<1>2. CASE g = f
  <2>1. ASSUME NEW j \in Data, sp = <<"data", j>>
        PROVE  Own(new, ptr)[f][sp] = IF j = k THEN b ELSE Own(ino, ptr)[f][sp]
    <3>1. ino[f].i_block_nr \in [Direct -> Cells]
      BY DEF Inos, InodeState
    <3>2. j \in Direct => new[f].i_block_nr[j] = IF j = k THEN b ELSE ino[f].i_block_nr[j]
      BY <3>1
    <3>3. Own(new, ptr)[f][sp] = Datum(new[f], ptr, j) /\ Own(ino, ptr)[f][sp] = Datum(ino[f], ptr, j)
      BY <2>1, Parts
    <3>4. CASE j \in Direct
      <4>1. Datum(new[f], ptr, j) = new[f].i_block_nr[j] /\ Datum(ino[f], ptr, j) = ino[f].i_block_nr[j]
        <5>1. \A in : Datum(in, ptr, j) = in.i_block_nr[j]
          <6>1. ~(Beyond(j) >= 0)
            BY <3>4, Layers
          <6>. QED
            BY <3>4, <6>1 DEF Datum
        <5>. QED
          BY <5>1, Zenon
      <4>2. new[f].i_block_nr[j] = IF j = k THEN b ELSE ino[f].i_block_nr[j]
        BY <3>2, <3>4
      <4>. QED
        BY <3>3, <4>1, <4>2, Zenon
    <3>5. CASE j \notin Direct /\ Beyond(j) < 0
      BY <3>3, <3>5, DatumIs
    <3>6. CASE Beyond(j) >= 0
      <4>1. j \notin Direct
        BY <3>6, Layers
      <4>. QED
        BY <3>3, <3>6, <4>1, DatumIs
    <3>. QED
      BY <3>4, <3>5, <3>6, DatumIs
  <2>2. ASSUME \A j \in Data : sp # <<"data", j>>
        PROVE  Own(new, ptr)[f][sp] = Own(ino, ptr)[f][sp]
    BY <2>2, SpotCases, Parts
  <2>3. k \in Data
    BY DirectData
  <2>. QED
    BY <1>2, <2>1, <2>2, <2>3
<1>. QED
  BY <1>1, <1>2

LEMMA LinkIndirect ==
    ASSUME NEW ino \in Inos, NEW new \in Inos, NEW ptr \in Device, NEW f \in Files,
           \A g \in Files \ {f} : new[g] = ino[g],
           NEW b \in Blocks, ptr[b] = ZeroBlock, ino[f].i_indirect = NoBlock,
           new[f].i_block_nr = ino[f].i_block_nr,
           new[f].i_indirect = b, new[f].i_dindirect = ino[f].i_dindirect
    PROVE  Linked(Own(ino, ptr), f, <<"indirect", 0>>, b, Own(new, ptr))
<1>. SUFFICES ASSUME NEW g \in Files, NEW sp \in Spots
              PROVE  Own(new, ptr)[g][sp] =
                        IF g = f /\ sp = <<"indirect", 0>> THEN b ELSE Own(ino, ptr)[g][sp]
  BY DEF Linked
<1>1. CASE g # f
  BY <1>1, Parts
<1>2. CASE g = f
  <2>1. ASSUME NEW j \in Data, sp = <<"data", j>>
        PROVE  Own(new, ptr)[f][sp] = Own(ino, ptr)[f][sp]
    <3>1. Own(new, ptr)[f][sp] = Datum(new[f], ptr, j) /\ Own(ino, ptr)[f][sp] = Datum(ino[f], ptr, j)
      BY <2>1, Parts
    <3>2. CASE j \notin Direct /\ Beyond(j) < 0
      <4>1. j - NR_DIRECT_BLOCKS \in Slots
        BY <3>2, Layers
      <4>2. Via(ptr, b, j - NR_DIRECT_BLOCKS) = NoBlock
        BY <4>1 DEF Via, ZeroBlock
      <4>3. Via(ptr, NoBlock, j - NR_DIRECT_BLOCKS) = NoBlock
        BY DEF Via
      <4>. QED
        BY <3>1, <3>2, <4>2, <4>3, DatumIs
    <3>3. CASE j \in Direct \/ Beyond(j) >= 0
      BY <3>1, <3>3, DatumIs
    <3>. QED
      BY <3>2, <3>3, DatumIs
  <2>2. CASE \E r \in Slots : sp = <<"three", r>>
    BY <1>2, <2>2, Parts
  <2>3. CASE sp = <<"indirect", 0>> \/ sp = <<"dindirect", 0>>
    BY <1>2, <2>3, Parts
  <2>. QED
    BY <1>2, <2>1, <2>2, <2>3, SpotCases
<1>. QED
  BY <1>1, <1>2

LEMMA LinkDouble ==
    ASSUME NEW ino \in Inos, NEW new \in Inos, NEW ptr \in Device, NEW f \in Files,
           \A g \in Files \ {f} : new[g] = ino[g],
           NEW b \in Blocks, ptr[b] = ZeroBlock, ino[f].i_dindirect = NoBlock,
           new[f].i_block_nr = ino[f].i_block_nr,
           new[f].i_indirect = ino[f].i_indirect, new[f].i_dindirect = b
    PROVE  Linked(Own(ino, ptr), f, <<"dindirect", 0>>, b, Own(new, ptr))
<1>. SUFFICES ASSUME NEW g \in Files, NEW sp \in Spots
              PROVE  Own(new, ptr)[g][sp] =
                        IF g = f /\ sp = <<"dindirect", 0>> THEN b ELSE Own(ino, ptr)[g][sp]
  BY DEF Linked
<1>0. \A r \in Slots : Via(ptr, b, r) = NoBlock /\ Via(ptr, NoBlock, r) = NoBlock
  BY DEF Via, ZeroBlock
<1>1. CASE g # f
  BY <1>1, Parts
<1>2. CASE g = f
  <2>1. ASSUME NEW j \in Data, sp = <<"data", j>>
        PROVE  Own(new, ptr)[f][sp] = Own(ino, ptr)[f][sp]
    <3>1. Own(new, ptr)[f][sp] = Datum(new[f], ptr, j) /\ Own(ino, ptr)[f][sp] = Datum(ino[f], ptr, j)
      BY <2>1, Parts
    <3>2. CASE Beyond(j) >= 0
      <4>1. LayerThreeBlock(j) \in Slots
        BY <3>2, Layers
      <4>2. Via(ptr, b, LayerThreeBlock(j)) = Via(ptr, NoBlock, LayerThreeBlock(j))
        BY <1>0, <4>1
      <4>. QED
        BY <3>1, <3>2, <4>2, DatumIs
    <3>3. CASE j \in Direct \/ (j \notin Direct /\ Beyond(j) < 0)
      BY <3>1, <3>3, DatumIs
    <3>. QED
      BY <3>2, <3>3, DatumIs
  <2>2. CASE \E r \in Slots : sp = <<"three", r>>
    <3>1. PICK r \in Slots : sp = <<"three", r>>
      BY <2>2
    <3>2. Own(new, ptr)[f][sp] = Via(ptr, b, r) /\ Own(ino, ptr)[f][sp] = Via(ptr, NoBlock, r)
      BY <3>1, Parts
    <3>. QED
      BY <1>0, <1>2, <3>1, <3>2
  <2>3. CASE sp = <<"indirect", 0>> \/ sp = <<"dindirect", 0>>
    BY <1>2, <2>3, Parts
  <2>. QED
    BY <1>2, <2>1, <2>2, <2>3, SpotCases
<1>. QED
  BY <1>1, <1>2

LEMMA ViaElsewhere ==
    ASSUME NEW ptr \in Device, NEW new \in Device, NEW top \in Blocks,
           \A c \in Blocks \ {top} : new[c] = ptr[c],
           NEW c \in Cells, c # top, NEW i
    PROVE  Via(new, c, i) = Via(ptr, c, i)
  BY DEF Via, Cells

LEMMA LinkInIndirect ==
    ASSUME NEW ino \in Inos, NEW ptr \in Device, NEW new \in Device, NEW f \in Files,
           NEW used, Fits(Own(ino, ptr), used), NEW top \in Blocks, top = ino[f].i_indirect,
           NEW k \in Data, k \notin Direct, Beyond(k) < 0, NEW b,
           \A c \in Blocks \ {top} : new[c] = ptr[c],
           new[top] = [ptr[top] EXCEPT ![k - NR_DIRECT_BLOCKS] = b]
    PROVE  Linked(Own(ino, ptr), f, <<"data", k>>, b, Own(ino, new))
<1>. DEFINE own == Own(ino, ptr)
<1>. SUFFICES ASSUME NEW g \in Files, NEW sp \in Spots
              PROVE  Own(ino, new)[g][sp] =
                        IF g = f /\ sp = <<"data", k>> THEN b ELSE Own(ino, ptr)[g][sp]
  BY DEF Linked
<1>1. ino[g].i_indirect \in Cells /\ ino[g].i_dindirect \in Cells /\ top # NoBlock
  BY DEF Inos, InodeState, Blocks, NoBlock
<1>2. own[f][<<"indirect", 0>>] = top
  BY Parts
<1>3. \A sq \in Spots : own[g][sq] = top => g = f /\ sq = <<"indirect", 0>>
  BY <1>1, <1>2, OnePlace, SpotsAre
<1>4. ino[g].i_dindirect # top
  BY <1>3, Parts, SpotsAre
<1>5. \A r \in Slots : Via(new, ino[g].i_dindirect, r) = Via(ptr, ino[g].i_dindirect, r)
  BY <1>1, <1>4, ViaElsewhere
<1>6. \A r \in Slots : Via(ptr, ino[g].i_dindirect, r) # top /\ Via(ptr, ino[g].i_dindirect, r) \in Cells
  <2>. TAKE r \in Slots
  <2>1. own[g][<<"three", r>>] = Via(ptr, ino[g].i_dindirect, r) /\ <<"three", r>> \in Spots
    BY Parts, SpotsAre
  <2>2. <<"three", r>> # <<"indirect", 0>>
    OBVIOUS
  <2>3. Via(ptr, ino[g].i_dindirect, r) \in Cells
    BY <1>1, ViaType
  <2>. QED
    BY <1>3, <2>1, <2>2, <2>3
<1>7. ASSUME NEW j \in Data, sp = <<"data", j>>
      PROVE  Own(ino, new)[g][sp] = IF g = f /\ j = k THEN b ELSE Own(ino, ptr)[g][sp]
  <2>1. Own(ino, new)[g][sp] = Datum(ino[g], new, j) /\ Own(ino, ptr)[g][sp] = Datum(ino[g], ptr, j)
    BY <1>7, Parts
  <2>2. CASE j \in Direct
    BY <2>1, <2>2, DatumIs
  <2>3. CASE Beyond(j) >= 0
    <3>1. LayerThreeBlock(j) \in Slots
      BY <2>3, Layers
    <3>. DEFINE d == Via(ptr, ino[g].i_dindirect, LayerThreeBlock(j))
    <3>2. d = Via(new, ino[g].i_dindirect, LayerThreeBlock(j)) /\ d # top /\ d \in Cells
      BY <1>5, <1>6, <3>1
    <3>. HIDE DEF d
    <3>3. Via(new, d, LayerThreePointer(j)) = Via(ptr, d, LayerThreePointer(j))
      BY <3>2, ViaElsewhere
    <3>4. Datum(ino[g], new, j) = Via(new, d, LayerThreePointer(j))
      BY <2>3, <3>2, DatumIs
    <3>5. Datum(ino[g], ptr, j) = Via(ptr, d, LayerThreePointer(j))
      BY <2>3, DatumIs DEF d
    <3>6. j # k
      BY <2>3, Layers, Sizes
    <3>. QED
      BY <2>1, <3>3, <3>4, <3>5, <3>6
  <2>4. CASE j \notin Direct /\ Beyond(j) < 0
    <3>1. j - NR_DIRECT_BLOCKS \in Slots /\ k - NR_DIRECT_BLOCKS \in Slots
          /\ (j - NR_DIRECT_BLOCKS = k - NR_DIRECT_BLOCKS <=> j = k)
      BY <2>4, Layers, Sizes
    <3>. DEFINE i == j - NR_DIRECT_BLOCKS
                l == k - NR_DIRECT_BLOCKS
                c == ino[g].i_indirect
    <3>2. Datum(ino[g], new, j) = Via(new, c, i) /\ Datum(ino[g], ptr, j) = Via(ptr, c, i)
      BY <2>4, DatumIs
    <3>3. i \in Slots /\ l \in Slots /\ (i = l <=> j = k)
      BY <3>1
    <3>4. new[top] = [ptr[top] EXCEPT ![l] = b]
      OBVIOUS
    <3>. HIDE DEF i, l
    <3>5. CASE g = f
      <4>1. Via(new, c, i) = new[top][i] /\ Via(ptr, c, i) = ptr[top][i]
        BY <1>1, <3>5 DEF Via
      <4>2. ptr[top] \in [Slots -> Cells]
        BY DEF Device
      <4>3. new[top][i] = IF i = l THEN b ELSE ptr[top][i]
        BY <3>3, <3>4, <4>2
      <4>. QED
        BY <2>1, <3>2, <3>3, <3>5, <4>1, <4>3
    <3>6. CASE g # f
      <4>1. c # top
        BY <1>3, <3>6, Parts, SpotsAre
      <4>2. Via(new, c, i) = Via(ptr, c, i)
        BY <1>1, <4>1, ViaElsewhere
      <4>. QED
        BY <2>1, <3>2, <3>6, <4>2
    <3>. QED
      BY <3>5, <3>6
  <2>. QED
    BY <2>2, <2>3, <2>4, DatumIs
<1>8. ASSUME NEW r \in Slots, sp = <<"three", r>>
      PROVE  Own(ino, new)[g][sp] = Own(ino, ptr)[g][sp]
  BY <1>5, <1>8, Parts
<1>9. CASE sp = <<"indirect", 0>> \/ sp = <<"dindirect", 0>>
  BY <1>9, Parts
<1>. QED
  BY <1>7, <1>8, <1>9, SpotCases

LEMMA LinkThree ==
    ASSUME NEW ino \in Inos, NEW ptr \in Device, NEW new \in Device, NEW f \in Files,
           NEW used, Fits(Own(ino, ptr), used), NEW top \in Blocks, top = ino[f].i_dindirect,
           NEW r \in Slots, ptr[top][r] = NoBlock, NEW b \in Blocks, b # top, ptr[b] = ZeroBlock,
           \A c \in Blocks \ {top} : new[c] = ptr[c],
           new[top] = [ptr[top] EXCEPT ![r] = b]
    PROVE  Linked(Own(ino, ptr), f, <<"three", r>>, b, Own(ino, new))
<1>. DEFINE own == Own(ino, ptr)
<1>. SUFFICES ASSUME NEW g \in Files, NEW sp \in Spots
              PROVE  Own(ino, new)[g][sp] =
                        IF g = f /\ sp = <<"three", r>> THEN b ELSE Own(ino, ptr)[g][sp]
  BY DEF Linked
<1>1. ino[g].i_indirect \in Cells /\ ino[g].i_dindirect \in Cells /\ top # NoBlock
  BY DEF Inos, InodeState, Blocks, NoBlock
<1>2. own[f][<<"dindirect", 0>>] = top
  BY Parts
<1>3. \A sq \in Spots : own[g][sq] = top => g = f /\ sq = <<"dindirect", 0>>
  BY <1>1, <1>2, OnePlace, SpotsAre
<1>4. ino[g].i_indirect # top /\ (ino[g].i_dindirect = top <=> g = f)
  BY <1>3, Parts, SpotsAre
<1>5. \A i \in Slots : Via(new, ino[g].i_indirect, i) = Via(ptr, ino[g].i_indirect, i)
  BY <1>1, <1>4, ViaElsewhere
<1>6. \A s \in Slots : Via(ptr, ino[g].i_dindirect, s) # top /\ Via(ptr, ino[g].i_dindirect, s) \in Cells
  <2>. TAKE s \in Slots
  <2>1. own[g][<<"three", s>>] = Via(ptr, ino[g].i_dindirect, s) /\ <<"three", s>> \in Spots
    BY Parts, SpotsAre
  <2>2. <<"three", s>> # <<"dindirect", 0>>
    OBVIOUS
  <2>3. Via(ptr, ino[g].i_dindirect, s) \in Cells
    BY <1>1, ViaType
  <2>. QED
    BY <1>3, <2>1, <2>2, <2>3
<1>7. \A s \in Slots : Via(new, ino[g].i_dindirect, s) =
         IF g = f /\ s = r THEN b ELSE Via(ptr, ino[g].i_dindirect, s)
  <2>. TAKE s \in Slots
  <2>1. CASE g = f
    <3>1. Via(new, ino[g].i_dindirect, s) = new[top][s] /\ Via(ptr, ino[g].i_dindirect, s) = ptr[top][s]
      BY <1>1, <2>1 DEF Via
    <3>2. ptr[top] \in [Slots -> Cells]
      BY DEF Device
    <3>. QED
      BY <2>1, <3>1, <3>2
  <2>2. CASE g # f
    BY <1>1, <1>4, <2>2, ViaElsewhere
  <2>. QED
    BY <2>1, <2>2
<1>8. ASSUME NEW j \in Data, sp = <<"data", j>>
      PROVE  Own(ino, new)[g][sp] = Own(ino, ptr)[g][sp]
  <2>1. Own(ino, new)[g][sp] = Datum(ino[g], new, j) /\ Own(ino, ptr)[g][sp] = Datum(ino[g], ptr, j)
    BY <1>8, Parts
  <2>2. CASE j \in Direct
    BY <2>1, <2>2, DatumIs
  <2>3. CASE j \notin Direct /\ Beyond(j) < 0
    <3>1. j - NR_DIRECT_BLOCKS \in Slots
      BY <2>3, Layers
    <3>. QED
      BY <1>5, <2>1, <2>3, <3>1, DatumIs
  <2>4. CASE Beyond(j) >= 0
    <3>1. LayerThreeBlock(j) \in Slots /\ LayerThreePointer(j) \in Slots
      BY <2>4, Layers
    <3>. DEFINE d == Via(ptr, ino[g].i_dindirect, LayerThreeBlock(j))
                e == Via(new, ino[g].i_dindirect, LayerThreeBlock(j))
    <3>2. Datum(ino[g], new, j) = Via(new, e, LayerThreePointer(j))
          /\ Datum(ino[g], ptr, j) = Via(ptr, d, LayerThreePointer(j))
      BY <2>4, DatumIs
    <3>3. d # top /\ d \in Cells /\ e = IF g = f /\ LayerThreeBlock(j) = r THEN b ELSE d
      BY <1>6, <1>7, <3>1
    <3>4. g = f /\ LayerThreeBlock(j) = r => d = NoBlock
      BY <1>1 DEF Via
    <3>. HIDE DEF d, e
    <3>5. CASE g = f /\ LayerThreeBlock(j) = r
      <4>1. Via(new, b, LayerThreePointer(j)) = Via(ptr, b, LayerThreePointer(j)) /\ b # NoBlock
        BY DEF Via, Blocks, NoBlock
      <4>2. Via(ptr, b, LayerThreePointer(j)) = NoBlock
        BY <3>1 DEF Via, ZeroBlock
      <4>3. Via(ptr, NoBlock, LayerThreePointer(j)) = NoBlock
        BY DEF Via
      <4>. QED
        BY <2>1, <3>2, <3>3, <3>4, <3>5, <4>1, <4>2, <4>3
    <3>6. CASE ~(g = f /\ LayerThreeBlock(j) = r)
      <4>1. e = d
        BY <3>3, <3>6
      <4>2. Via(new, d, LayerThreePointer(j)) = Via(ptr, d, LayerThreePointer(j))
        BY <3>3, ViaElsewhere
      <4>. QED
        BY <2>1, <3>2, <4>1, <4>2
    <3>. QED
      BY <3>5, <3>6
  <2>. QED
    BY <2>2, <2>3, <2>4, DatumIs
<1>9. ASSUME NEW s \in Slots, sp = <<"three", s>>
      PROVE  Own(ino, new)[g][sp] = IF g = f /\ s = r THEN b ELSE Own(ino, ptr)[g][sp]
  BY <1>7, <1>9, Parts
<1>10. CASE sp = <<"indirect", 0>> \/ sp = <<"dindirect", 0>>
  BY <1>10, Parts
<1>. QED
  BY <1>8, <1>9, <1>10, SpotCases

LEMMA LinkLeaf ==
    ASSUME NEW ino \in Inos, NEW ptr \in Device, NEW new \in Device, NEW f \in Files,
           NEW used, Fits(Own(ino, ptr), used), NEW k \in Data, Beyond(k) >= 0,
           NEW leaf \in Blocks, leaf = Via(ptr, ino[f].i_dindirect, LayerThreeBlock(k)), NEW b,
           \A c \in Blocks \ {leaf} : new[c] = ptr[c],
           new[leaf] = [ptr[leaf] EXCEPT ![LayerThreePointer(k)] = b]
    PROVE  Linked(Own(ino, ptr), f, <<"data", k>>, b, Own(ino, new))
<1>. DEFINE own == Own(ino, ptr)
            r == LayerThreeBlock(k)
            m == LayerThreePointer(k)
<1>. SUFFICES ASSUME NEW g \in Files, NEW sp \in Spots
              PROVE  Own(ino, new)[g][sp] =
                        IF g = f /\ sp = <<"data", k>> THEN b ELSE Own(ino, ptr)[g][sp]
  BY DEF Linked
<1>0. r \in Slots /\ m \in Slots
  BY Layers
<1>1. ino[g].i_indirect \in Cells /\ ino[g].i_dindirect \in Cells /\ leaf # NoBlock
  BY DEF Inos, InodeState, Blocks, NoBlock
<1>2. own[f][<<"three", r>>] = leaf
  BY <1>0, Parts
<1>3. \A sq \in Spots : own[g][sq] = leaf => g = f /\ sq = <<"three", r>>
  BY <1>0, <1>1, <1>2, OnePlace, SpotsAre
<1>4. ino[g].i_indirect # leaf /\ ino[g].i_dindirect # leaf
  BY <1>3, Parts, SpotsAre
<1>5. \A i \in Slots : Via(new, ino[g].i_indirect, i) = Via(ptr, ino[g].i_indirect, i)
                       /\ Via(new, ino[g].i_dindirect, i) = Via(ptr, ino[g].i_dindirect, i)
  BY <1>1, <1>4, ViaElsewhere
<1>6. \A s \in Slots : Via(ptr, ino[g].i_dindirect, s) \in Cells
                       /\ (Via(ptr, ino[g].i_dindirect, s) = leaf <=> g = f /\ s = r)
  <2>. TAKE s \in Slots
  <2>1. own[g][<<"three", s>>] = Via(ptr, ino[g].i_dindirect, s) /\ <<"three", s>> \in Spots
    BY Parts, SpotsAre
  <2>2. Via(ptr, ino[g].i_dindirect, s) \in Cells
    BY <1>1, ViaType
  <2>3. own[g][<<"three", s>>] = leaf => g = f /\ s = r
    <3>1. <<"three", s>> = <<"three", r>> => s = r
      OBVIOUS
    <3>. QED
      BY <1>3, <2>1, <3>1
  <2>4. g = f /\ s = r => own[g][<<"three", s>>] = leaf
    BY <1>2
  <2>. HIDE DEF own, r
  <2>. QED
    BY <2>1, <2>2, <2>3, <2>4
<1>7. ASSUME NEW j \in Data, sp = <<"data", j>>
      PROVE  Own(ino, new)[g][sp] = IF g = f /\ j = k THEN b ELSE Own(ino, ptr)[g][sp]
  <2>1. Own(ino, new)[g][sp] = Datum(ino[g], new, j) /\ Own(ino, ptr)[g][sp] = Datum(ino[g], ptr, j)
    BY <1>7, Parts
  <2>2. CASE j \in Direct
    <3>1. k \notin Direct
      BY Layers
    <3>. QED
      BY <2>1, <2>2, <3>1, DatumIs
  <2>3. CASE j \notin Direct /\ Beyond(j) < 0
    <3>1. j - NR_DIRECT_BLOCKS \in Slots /\ j # k
      BY <2>3, Layers, Sizes
    <3>. QED
      BY <1>5, <2>1, <2>3, <3>1, DatumIs
  <2>4. CASE Beyond(j) >= 0
    <3>. DEFINE s == LayerThreeBlock(j)
                n == LayerThreePointer(j)
                d == Via(ptr, ino[g].i_dindirect, s)
    <3>1. s \in Slots /\ n \in Slots
      BY <2>4, Layers
    <3>2. Datum(ino[g], new, j) = Via(new, Via(new, ino[g].i_dindirect, s), n)
          /\ Datum(ino[g], ptr, j) = Via(ptr, d, n)
      BY <2>4, DatumIs
    <3>3. Via(new, ino[g].i_dindirect, s) = d /\ d \in Cells /\ (d = leaf <=> g = f /\ s = r)
      BY <1>5, <1>6, <3>1
    <3>4. s = r /\ n = m => j = k
      BY <2>4, SameLayers
    <3>. HIDE DEF d, s, n, r, m
    <3>5. CASE g = f /\ s = r
      <4>1. Via(new, d, n) = new[leaf][n] /\ Via(ptr, d, n) = ptr[leaf][n]
        BY <1>1, <3>3, <3>5 DEF Via
      <4>2. ptr[leaf] \in [Slots -> Cells] /\ new[leaf] = [ptr[leaf] EXCEPT ![m] = b]
        BY DEF Device, m
      <4>3. new[leaf][n] = IF n = m THEN b ELSE ptr[leaf][n]
        BY <3>1, <4>2
      <4>4. j = k => n = m
        BY DEF n, m
      <4>. QED
        BY <2>1, <3>2, <3>3, <3>4, <3>5, <4>1, <4>3, <4>4
    <3>6. CASE ~(g = f /\ s = r)
      <4>1. j = k => s = r
        BY DEF s, r
      <4>2. Via(new, d, n) = Via(ptr, d, n)
        BY <3>3, <3>6, ViaElsewhere
      <4>. QED
        BY <2>1, <3>2, <3>3, <3>6, <4>1, <4>2
    <3>. QED
      BY <3>5, <3>6
  <2>. QED
    BY <2>2, <2>3, <2>4, DatumIs
<1>8. ASSUME NEW s \in Slots, sp = <<"three", s>>
      PROVE  Own(ino, new)[g][sp] = Own(ino, ptr)[g][sp]
  BY <1>5, <1>8, Parts
<1>9. CASE sp = <<"indirect", 0>> \/ sp = <<"dindirect", 0>>
  BY <1>9, Parts
<1>. QED
  BY <1>7, <1>8, <1>9, SpotCases

-----------------------------------------------------------------------------
(* Taking and giving back a block.                                         *)

LEMMA BlocksFinite ==
    /\ IsFiniteSet(Blocks) /\ Cardinality(Blocks) = MaxFsBlocks
    /\ \A B \in SUBSET Blocks :
          IsFiniteSet(B) /\ Cardinality(B) \in Nat /\ Cardinality(B) <= MaxFsBlocks
<1>1. IsFiniteSet(Blocks) /\ Cardinality(Blocks) = MaxFsBlocks
  <2>. DEFINE m == MaxFsBlocks
  <2>1. m \in Nat
    BY Sizes
  <2>. HIDE DEF m
  <2>2. IsFiniteSet(1 .. m) /\ Cardinality(1 .. m) = m
    BY <2>1, FS_Interval
  <2>. QED
    BY <2>2 DEF m, Blocks
<1>2. \A B \in SUBSET Blocks : IsFiniteSet(B) /\ Cardinality(B) <= Cardinality(Blocks)
  BY <1>1, FS_Subset
<1>. QED
  BY <1>1, <1>2, FS_CardinalityType

LEMMA StateFields ==
    ASSUME NEW S \in State
    PROVE  /\ S.in \in InodeState /\ S.used \in SUBSET Blocks /\ S.ptr \in Device
           /\ S.con \in [Blocks -> {Zeros} \cup (Files \X Data)] /\ S.got \in Cells
           /\ S.next \in Int /\ S.total \in Int /\ S.fate \in Fates
           /\ S.in.i_block_nr \in [Direct -> Cells] /\ S.in.i_indirect \in Cells
           /\ S.in.i_dindirect \in Cells /\ S.in.block_count \in Int /\ S.in.i_size \in Int
           /\ \A b \in Blocks : S.ptr[b] \in [Slots -> Cells]
  BY DEF State, InodeState, Device

(* What an allocation leaves alone.                                        *)
Keeps(S, A) ==
    /\ A \in State /\ A.con = S.con /\ A.next = S.next /\ A.total = S.total
    /\ A.fate = S.fate /\ A.in.i_size = S.in.i_size

LEMMA Alloc ==
    ASSUME NEW S \in State, NEW A, A = testfs_alloc_block_for_inode(S)
    PROVE  /\ Keeps(S, A) /\ A.ptr = S.ptr /\ Same(S.in, A.in)
           /\ A.got = NoBlock => A.used = S.used /\ A.in = S.in
           /\ A.got # NoBlock =>
                 /\ A.got \in Blocks \ S.used /\ A.used = S.used \cup {A.got}
                 /\ A.in.block_count = S.in.block_count + 1
<1>1. CASE Cardinality(S.used) >= MaxFsBlocks
  <2>1. A = [S EXCEPT !.got = NoBlock]
    BY <1>1, Zenon DEF testfs_alloc_block_for_inode
  <2>. QED
    BY <2>1 DEF Keeps, State, Cells, Same
<1>2. CASE ~(Cardinality(S.used) >= MaxFsBlocks)
  <2>. DEFINE b == Min(Blocks \ S.used)
  <2>1. S.used \in SUBSET Blocks /\ S.in \in InodeState
    BY StateFields
  <2>2. Blocks \ S.used # {}
    <3>1. S.used # Blocks
      BY <1>2, BlocksFinite, Sizes
    <3>. QED
      BY <2>1, <3>1
  <2>3. b \in Blocks \ S.used
    <3>. DEFINE B == Blocks \ S.used
    <3>1. B \in SUBSET Nat /\ B # {}
      BY <2>2 DEF Blocks
    <3>. HIDE DEF B
    <3>2. Min(B) \in B
      BY <3>1, LeastOf
    <3>. QED
      BY <3>2 DEF B
  <2>4. A = [S EXCEPT !.used = @ \cup {b}, !.in.block_count = @ + 1, !.got = b]
    <3>1. A = Take(S, b)
      BY <1>2, Zenon DEF testfs_alloc_block_for_inode
    <3>. QED
      BY <3>1, Zenon DEF Take
  <2>. HIDE DEF b
  <2>5. b # NoBlock /\ b \in Cells
    BY <2>3 DEF Blocks, NoBlock, Cells
  <2>6. /\ A.con = S.con /\ A.next = S.next /\ A.total = S.total /\ A.fate = S.fate
        /\ A.ptr = S.ptr /\ A.in = [S.in EXCEPT !.block_count = @ + 1]
        /\ A.got = b /\ A.used = S.used \cup {b}
    BY <2>4 DEF State
  <2>7. /\ A.in \in InodeState /\ Same(S.in, A.in) /\ A.in.i_size = S.in.i_size
        /\ A.in.block_count = S.in.block_count + 1
    BY <2>1, <2>6 DEF InodeState, Same
  <2>8. A.used \in SUBSET Blocks
    BY <2>1, <2>3, <2>6
  <2>9. A \in State
    BY <2>4, <2>5, <2>6, <2>7, <2>8 DEF State
  <2>. QED
    BY <2>3, <2>5, <2>6, <2>7, <2>9 DEF Keeps
<1>. QED
  BY <1>1, <1>2

LEMMA Release ==
    ASSUME NEW S \in State, NEW b \in Blocks, NEW A, A = testfs_free_block(S, b)
    PROVE  /\ A \in State /\ A.got = S.got /\ A.next = S.next /\ A.total = S.total
           /\ A.in = S.in /\ A.used = S.used \ {b}
           /\ A.ptr = [S.ptr EXCEPT ![b] = ZeroBlock] /\ A.con = [S.con EXCEPT ![b] = Zeros]
           /\ A.fate = IF b \in S.used THEN S.fate ELSE "abort"
<1>1. A = [S EXCEPT !.used = @ \ {b}, !.ptr[b] = ZeroBlock, !.con[b] = Zeros,
                    !.fate = IF b \in S.used THEN @ ELSE "abort"]
  BY Zenon DEF testfs_free_block
<1>2. /\ A.got = S.got /\ A.next = S.next /\ A.total = S.total
      /\ A.in = S.in /\ A.used = S.used \ {b}
      /\ A.ptr = [S.ptr EXCEPT ![b] = ZeroBlock] /\ A.con = [S.con EXCEPT ![b] = Zeros]
      /\ A.fate = IF b \in S.used THEN S.fate ELSE "abort"
  BY <1>1 DEF State
<1>3. ZeroBlock \in [Slots -> Cells]
  BY DEF ZeroBlock, Cells
<1>4. S.ptr \in Device /\ S.con \in [Blocks -> {Zeros} \cup (Files \X Data)]
      /\ S.used \in SUBSET Blocks /\ S.fate \in Fates
  BY StateFields
<1>5. A.ptr \in Device /\ A.con \in [Blocks -> {Zeros} \cup (Files \X Data)]
  BY <1>2, <1>3, <1>4 DEF Device
<1>6. A.used \in SUBSET Blocks /\ A.fate \in Fates
  BY <1>2, <1>4 DEF Fates
<1>7. A \in State
  <2>1. A = [in |-> A.in, used |-> A.used, ptr |-> A.ptr, con |-> A.con, got |-> A.got,
             next |-> A.next, total |-> A.total, fate |-> A.fate]
    BY <1>1 DEF State
  <2>2. S.in \in InodeState /\ S.got \in Cells /\ S.next \in Int /\ S.total \in Int
    BY StateFields
  <2>. QED
    BY <1>2, <1>5, <1>6, <2>1, <2>2 DEF State
<1>. QED
  BY <1>2, <1>7

Freed(S, b, A) ==
    /\ A \in State /\ A.got = S.got /\ A.next = S.next /\ A.total = S.total
    /\ Same(S.in, A.in) /\ A.in.i_size = S.in.i_size
    /\ b = NoBlock => A = S
    /\ b # NoBlock =>
          /\ b \in Blocks /\ A.used = S.used \ {b}
          /\ A.ptr = [S.ptr EXCEPT ![b] = ZeroBlock] /\ A.con = [S.con EXCEPT ![b] = Zeros]
          /\ A.in = [S.in EXCEPT !.block_count = @ - 1]
          /\ A.in.block_count = S.in.block_count - 1
          /\ A.fate = IF b \in S.used THEN S.fate ELSE "abort"

LEMMA Free ==
    ASSUME NEW S \in State, NEW b \in Cells, NEW A, A = testfs_free_block_from_inode(S, b)
    PROVE  Freed(S, b, A)
<1>1. CASE b = NoBlock
  <2>1. A = S
    BY <1>1, Zenon DEF testfs_free_block_from_inode
  <2>. QED
    BY <1>1, <2>1 DEF Same, Freed
<1>2. CASE b # NoBlock
  <2>. DEFINE T == testfs_free_block(S, b)
  <2>1. A = [T EXCEPT !.in.block_count = @ - 1]
    BY <1>2, Zenon DEF testfs_free_block_from_inode
  <2>2. b \in Blocks
    BY <1>2 DEF Cells
  <2>3. /\ T \in State /\ T.got = S.got /\ T.next = S.next /\ T.total = S.total
        /\ T.in = S.in /\ T.used = S.used \ {b}
        /\ T.ptr = [S.ptr EXCEPT ![b] = ZeroBlock] /\ T.con = [S.con EXCEPT ![b] = Zeros]
        /\ T.fate = IF b \in S.used THEN S.fate ELSE "abort"
    BY <2>2, Release
  <2>. HIDE DEF T
  <2>4. /\ A.con = T.con /\ A.next = T.next /\ A.total = T.total /\ A.fate = T.fate
        /\ A.ptr = T.ptr /\ A.got = T.got /\ A.used = T.used
        /\ A.in = [T.in EXCEPT !.block_count = @ - 1]
    BY <2>1, <2>3 DEF State
  <2>5. A.in \in InodeState /\ Same(T.in, A.in) /\ A.in.i_size = T.in.i_size
        /\ A.in.block_count = T.in.block_count - 1
    <3>1. T.in \in InodeState
      BY <2>3, StateFields
    <3>. QED
      BY <2>4, <3>1 DEF InodeState, Same
  <2>6. A \in State
    BY <2>1, <2>3, <2>4, <2>5 DEF State
  <2>. QED
    BY <1>2, <2>2, <2>3, <2>4, <2>5, <2>6 DEF Freed
<1>. QED
  BY <1>1, <1>2

-----------------------------------------------------------------------------
(* What holds of a state while a write goes on: ino are the inodes when it *)
(* began.                                                                  *)

With(ino, f, S)  == [ino EXCEPT ![f] = S.in]
OwnOf(ino, f, S) == Own(With(ino, f, S), S.ptr)
Good(ino, f, S) ==
    /\ Fits(OwnOf(ino, f, S), S.used)
    /\ Clean(S.used, S.ptr)
    /\ S.in.block_count = Cardinality(Filled(OwnOf(ino, f, S)[f]))

(* A is S with one more block, or with none more.                          *)
Grown(ino, f, S, A, sp) ==
    /\ Keeps(S, A)
    /\ Good(ino, f, A)
    /\ S.used \subseteq A.used
    /\ Linked(OwnOf(ino, f, S), f, sp, A.got, OwnOf(ino, f, A))

LEMMA InosWith ==
    ASSUME NEW ino \in Inos, NEW f \in Files, NEW S \in State
    PROVE  /\ With(ino, f, S) \in Inos
           /\ With(ino, f, S)[f] = S.in
           /\ \A g \in Files \ {f} : With(ino, f, S)[g] = ino[g]
  BY StateFields DEF Inos, With

LEMMA InosOfTwo ==
    ASSUME NEW ino \in Inos, NEW f \in Files, NEW S \in State, NEW A \in State
    PROVE  /\ With(ino, f, S) \in Inos /\ With(ino, f, A) \in Inos
           /\ With(ino, f, S)[f] = S.in /\ With(ino, f, A)[f] = A.in
           /\ \A g \in Files \ {f} : With(ino, f, A)[g] = With(ino, f, S)[g]
  BY InosWith

LEMMA OwnOfType ==
    ASSUME NEW ino \in Inos, NEW f \in Files, NEW S \in State
    PROVE  OwnOf(ino, f, S) \in Owns
  BY InosWith, StateFields, OwnType DEF OwnOf

LEMMA CountBound ==
    ASSUME NEW own \in Owns, NEW used \in SUBSET Blocks, Fits(own, used), NEW f \in Files
    PROVE  Cardinality(Filled(own[f])) \in 0 .. MaxFsBlocks
<1>. DEFINE P == Filled(own[f])
            h == [sp \in P |-> own[f][sp]]
<1>1. \A sp \in P : sp \in Spots /\ own[f][sp] \in Blocks
  BY DEF Filled, Owns, Cells
<1>2. h \in Injection(P, Blocks)
  <2>1. h \in [P -> Blocks]
    BY <1>1
  <2>2. \A sp, sq \in P : h[sp] = h[sq] => sp = sq
    <3>1. \A sp \in P : own[f][sp] # NoBlock
      BY DEF Filled
    <3>2. \A sp, sq \in Spots : own[f][sp] = own[f][sq] /\ own[f][sp] # NoBlock => sp = sq
      BY OnePlace
    <3>. QED
      BY <1>1, <3>1, <3>2
  <2>. HIDE DEF h, P
  <2>. QED
    BY <2>1, <2>2 DEF Injection, IsInjective
<1>. HIDE DEF P, h
<1>3. IsFiniteSet(P) /\ Cardinality(P) <= Cardinality(Blocks)
  BY <1>2, BlocksFinite, FS_Injection
<1>4. Cardinality(P) \in Nat
  BY <1>3, FS_CardinalityType
<1>. QED
  BY <1>3, <1>4, BlocksFinite, Sizes DEF P

LEMMA GoodCount ==
    ASSUME NEW ino \in Inos, NEW f \in Files, NEW S \in State, Good(ino, f, S)
    PROVE  S.in.block_count \in 0 .. MaxFsBlocks
  BY OwnOfType, StateFields, CountBound DEF Good

LEMMA GoodLink ==
    ASSUME NEW ino \in Inos, NEW f \in Files, NEW S \in State, NEW A \in State,
           Good(ino, f, S), NEW sp \in Spots, OwnOf(ino, f, S)[f][sp] = NoBlock,
           NEW b \in Blocks \ S.used, A.used = S.used \cup {b},
           A.in.block_count = S.in.block_count + 1,
           \A c \in Blocks \ A.used : A.ptr[c] = S.ptr[c],
           Linked(OwnOf(ino, f, S), f, sp, b, OwnOf(ino, f, A))
    PROVE  Good(ino, f, A)
<1>1. OwnOf(ino, f, S) \in Owns /\ OwnOf(ino, f, A) \in Owns /\ S.used \in SUBSET Blocks
  BY OwnOfType, StateFields
<1>2. Fits(OwnOf(ino, f, A), A.used)
  BY <1>1, FitsLink DEF Good
<1>3. Clean(A.used, A.ptr)
  BY DEF Good, Clean
<1>4. Cardinality(Filled(OwnOf(ino, f, A)[f])) = Cardinality(Filled(OwnOf(ino, f, S)[f])) + 1
  BY <1>1, FilledLink
<1>. QED
  BY <1>2, <1>3, <1>4 DEF Good

LEMMA OwnOfSame ==
    ASSUME NEW ino \in Inos, NEW f \in Files, NEW S \in State, NEW A \in State,
           Same(S.in, A.in), A.ptr = S.ptr
    PROVE  OwnOf(ino, f, A) = OwnOf(ino, f, S)
<1>. DEFINE old == With(ino, f, S)
            new == With(ino, f, A)
<1>1. \A g \in Files : Same(old[g], new[g])
  BY InosWith DEF Same
<1>2. \A g \in Files : \A sp \in Spots : At(new[g], A.ptr, sp) = At(old[g], S.ptr, sp)
  BY <1>1, SameOwn
<1>. HIDE DEF old, new
<1>3. Own(new, A.ptr) = Own(old, S.ptr)
  BY <1>2 DEF Own
<1>. QED
  BY <1>3 DEF OwnOf, old, new

LEMMA GoodSame ==
    ASSUME NEW ino \in Inos, NEW f \in Files, NEW S \in State, NEW A \in State,
           Good(ino, f, S), Same(S.in, A.in), A.ptr = S.ptr, A.used = S.used,
           A.in.block_count = S.in.block_count
    PROVE  Good(ino, f, A)
<1>1. OwnOf(ino, f, A) = OwnOf(ino, f, S)
  BY OwnOfSame
<1>. QED
  BY <1>1 DEF Good

LEMMA GrownNone ==
    ASSUME NEW ino \in Inos, NEW f \in Files, NEW S \in State, Good(ino, f, S), NEW A, Keeps(S, A),
           A.got = NoBlock, A.used = S.used, A.ptr = S.ptr, Same(S.in, A.in),
           A.in.block_count = S.in.block_count,
           NEW sp \in Spots, OwnOf(ino, f, S)[f][sp] = NoBlock
    PROVE  Grown(ino, f, S, A, sp)
<1>1. A \in State
  BY DEF Keeps
<1>2. OwnOf(ino, f, A) = OwnOf(ino, f, S) /\ Good(ino, f, A)
  BY <1>1, OwnOfSame, GoodSame
<1>3. Linked(OwnOf(ino, f, S), f, sp, A.got, OwnOf(ino, f, A))
  BY <1>2 DEF Linked
<1>. QED
  BY <1>2, <1>3 DEF Grown

LEMMA GrownOne ==
    ASSUME NEW ino \in Inos, NEW f \in Files, NEW S \in State, Good(ino, f, S), NEW A, Keeps(S, A),
           A.got \in Blocks \ S.used, A.used = S.used \cup {A.got},
           A.in.block_count = S.in.block_count + 1,
           \A c \in Blocks \ A.used : A.ptr[c] = S.ptr[c],
           NEW sp \in Spots, OwnOf(ino, f, S)[f][sp] = NoBlock,
           Linked(OwnOf(ino, f, S), f, sp, A.got, OwnOf(ino, f, A))
    PROVE  Grown(ino, f, S, A, sp)
<1>1. A \in State
  BY DEF Keeps
<1>2. Good(ino, f, A)
  BY <1>1, GoodLink
<1>. QED
  BY <1>2 DEF Grown

(* The places of the file that is written, by what its inode holds.        *)
LEMMA OwnParts ==
    ASSUME NEW ino \in Inos, NEW f \in Files, NEW S \in State
    PROVE  LET own == OwnOf(ino, f, S)[f]
           IN  /\ own[<<"indirect", 0>>] = S.in.i_indirect
               /\ own[<<"dindirect", 0>>] = S.in.i_dindirect
               /\ \A r \in Slots : own[<<"three", r>>] = Via(S.ptr, S.in.i_dindirect, r)
               /\ \A k \in Data : own[<<"data", k>>] = Datum(S.in, S.ptr, k)
<1>. DEFINE new == With(ino, f, S)
<1>1. new[f] = S.in
  BY InosWith
<1>. HIDE DEF new
<1>2. /\ Own(new, S.ptr)[f][<<"indirect", 0>>] = S.in.i_indirect
      /\ Own(new, S.ptr)[f][<<"dindirect", 0>>] = S.in.i_dindirect
      /\ \A r \in Slots : Own(new, S.ptr)[f][<<"three", r>>] = Via(S.ptr, S.in.i_dindirect, r)
      /\ \A k \in Data : Own(new, S.ptr)[f][<<"data", k>>] = Datum(S.in, S.ptr, k)
  BY <1>1, Parts
<1>3. OwnOf(ino, f, S) = Own(new, S.ptr)
  BY DEF OwnOf, new
<1>. QED
  BY <1>2, <1>3

LEMMA InUse ==
    ASSUME NEW ino \in Inos, NEW f \in Files, NEW S \in State, Good(ino, f, S), NEW g \in Files,
           NEW sp \in Spots, OwnOf(ino, f, S)[g][sp] # NoBlock
    PROVE  OwnOf(ino, f, S)[g][sp] \in S.used
<1>1. OwnOf(ino, f, S)[g][sp] \in Blocks
  BY OwnOfType DEF Owns, Cells
<1>. QED
  BY <1>1 DEF Good, Fits

LEMMA GrowDirect ==
    ASSUME NEW ino \in Inos, NEW f \in Files, NEW S \in State, Good(ino, f, S),
           NEW k \in Direct, S.in.i_block_nr[k] = NoBlock, NEW A, A = AllocateDirect(S, k)
    PROVE  Grown(ino, f, S, A, <<"data", k>>)
<1>. DEFINE T == testfs_alloc_block_for_inode(S)
            sp == <<"data", k>>
<1>1. A = [T EXCEPT !.in.i_block_nr[k] = T.got]
  BY Zenon DEF AllocateDirect
<1>2. /\ Keeps(S, T) /\ T.ptr = S.ptr /\ Same(S.in, T.in)
      /\ T.got = NoBlock => T.used = S.used /\ T.in = S.in
      /\ T.got # NoBlock =>
            /\ T.got \in Blocks \ S.used /\ T.used = S.used \cup {T.got}
            /\ T.in.block_count = S.in.block_count + 1
  BY Alloc
<1>. HIDE DEF T
<1>3. k \in Data /\ sp \in Spots /\ OwnOf(ino, f, S)[f][sp] = NoBlock
  <2>1. k \in Data
    BY DirectData
  <2>2. Datum(S.in, S.ptr, k) = S.in.i_block_nr[k]
    BY <2>1, DatumIs
  <2>. QED
    BY <2>1, <2>2, OwnParts, SpotsAre
<1>4. T \in State /\ T.in \in InodeState /\ T.got \in Cells
  BY <1>2, StateFields DEF Keeps
<1>5. /\ A.con = T.con /\ A.next = T.next /\ A.total = T.total /\ A.fate = T.fate
      /\ A.ptr = T.ptr /\ A.got = T.got /\ A.used = T.used
      /\ A.in = [T.in EXCEPT !.i_block_nr = [@ EXCEPT ![k] = T.got]]
  BY <1>1, <1>4 DEF State
<1>6. /\ A.in \in InodeState /\ A.in.i_size = T.in.i_size /\ A.in.block_count = T.in.block_count
      /\ A.in.i_block_nr = [T.in.i_block_nr EXCEPT ![k] = T.got]
      /\ A.in.i_indirect = T.in.i_indirect /\ A.in.i_dindirect = T.in.i_dindirect
  BY <1>4, <1>5 DEF InodeState
<1>7. A \in State
  BY <1>1, <1>4, <1>5, <1>6 DEF State
<1>8. Keeps(S, A)
  BY <1>2, <1>5, <1>6, <1>7 DEF Keeps
<1>9. CASE T.got = NoBlock
  <2>1. A.in.i_block_nr = S.in.i_block_nr
    <3>1. S.in.i_block_nr \in [Direct -> Cells] /\ T.in.i_block_nr = S.in.i_block_nr
      BY <1>2, StateFields DEF Same
    <3>. QED
      BY <1>6, <1>9, <3>1
  <2>2. Same(S.in, A.in) /\ A.in.block_count = S.in.block_count
    BY <1>2, <1>6, <1>9, <2>1 DEF Same
  <2>. QED
    BY <1>2, <1>3, <1>5, <1>8, <1>9, <2>2, GrownNone
<1>10. CASE T.got # NoBlock
  <2>1. /\ A.in.i_block_nr = [S.in.i_block_nr EXCEPT ![k] = T.got]
        /\ A.in.i_indirect = S.in.i_indirect /\ A.in.i_dindirect = S.in.i_dindirect
    BY <1>2, <1>6 DEF Same
  <2>2. Linked(OwnOf(ino, f, S), f, sp, T.got, OwnOf(ino, f, A))
    <3>. DEFINE old == With(ino, f, S)
                new == With(ino, f, A)
    <3>0. /\ old \in Inos /\ old[f] = S.in
          /\ \A g \in Files \ {f} : old[g] = ino[g]
      BY InosWith
    <3>5. /\ new \in Inos /\ new[f] = A.in
          /\ \A g \in Files \ {f} : new[g] = ino[g]
      BY <1>7, InosWith
    <3>1. old \in Inos /\ new \in Inos /\ old[f] = S.in /\ new[f] = A.in
          /\ \A g \in Files \ {f} : new[g] = old[g]
      BY <3>0, <3>5, Zenon
    <3>2. OwnOf(ino, f, S) = Own(old, S.ptr) /\ OwnOf(ino, f, A) = Own(new, S.ptr)
      BY <1>2, <1>5 DEF OwnOf
    <3>. HIDE DEF old, new
    <3>3. S.ptr \in Device
      BY StateFields
    <3>4. Linked(Own(old, S.ptr), f, <<"data", k>>, T.got, Own(new, S.ptr))
      BY <2>1, <3>1, <3>3, LinkDirect
    <3>. QED
      BY <3>2, <3>4
  <2>3. A.got \in Blocks \ S.used /\ A.used = S.used \cup {A.got}
        /\ A.in.block_count = S.in.block_count + 1 /\ A.ptr = S.ptr
    BY <1>2, <1>5, <1>6, <1>10
  <2>. QED
    BY <1>3, <1>5, <1>8, <2>2, <2>3, GrownOne
<1>. QED
  BY <1>9, <1>10

(* A new indirect block.                                                   *)
Indirected(T) == [T EXCEPT !.in.i_indirect = T.got]
LEMMA LinkedIndirect ==
    ASSUME NEW ino \in Inos, NEW f \in Files, NEW S \in State, NEW A \in State, Good(ino, f, S),
           A.ptr = S.ptr, S.in.i_indirect = NoBlock, NEW b \in Blocks \ S.used,
           A.in.i_block_nr = S.in.i_block_nr, A.in.i_indirect = b, A.in.i_dindirect = S.in.i_dindirect
    PROVE  Linked(OwnOf(ino, f, S), f, <<"indirect", 0>>, b, OwnOf(ino, f, A))
<1>. DEFINE old == With(ino, f, S)
            new == With(ino, f, A)
<1>1. old \in Inos /\ new \in Inos /\ old[f] = S.in /\ new[f] = A.in
      /\ \A g \in Files \ {f} : new[g] = old[g]
  BY InosOfTwo
<1>2. OwnOf(ino, f, S) = Own(old, S.ptr) /\ OwnOf(ino, f, A) = Own(new, S.ptr)
  BY DEF OwnOf
<1>. HIDE DEF old, new
<1>3. S.ptr \in Device
  BY StateFields
<1>4. b \in Blocks /\ S.ptr[b] = ZeroBlock
  BY DEF Good, Clean
<1>5. Linked(Own(old, S.ptr), f, <<"indirect", 0>>, b, Own(new, S.ptr))
  BY <1>1, <1>3, <1>4, LinkIndirect
<1>. QED
  BY <1>2, <1>5

LEMMA GrowIndirect ==
    ASSUME NEW ino \in Inos, NEW f \in Files, NEW S \in State, Good(ino, f, S),
           S.in.i_indirect = NoBlock, NEW T, T = testfs_alloc_block_for_inode(S),
           NEW A, A = Indirected(T)
    PROVE  /\ Grown(ino, f, S, A, <<"indirect", 0>>)
           /\ A.in.i_indirect = A.got /\ A.ptr = S.ptr
           /\ A.in.i_block_nr = S.in.i_block_nr /\ A.in.i_dindirect = S.in.i_dindirect
           /\ A.got = NoBlock => A.used = S.used /\ A.in.block_count = S.in.block_count
           /\ A.got # NoBlock => /\ A.got \in Blocks \ S.used /\ A.used = S.used \cup {A.got}
                                 /\ A.in.block_count = S.in.block_count + 1
<1>. DEFINE sp == <<"indirect", 0>>
<1>2. /\ Keeps(S, T) /\ T.ptr = S.ptr /\ Same(S.in, T.in)
      /\ T.got = NoBlock => T.used = S.used /\ T.in = S.in
      /\ T.got # NoBlock =>
            /\ T.got \in Blocks \ S.used /\ T.used = S.used \cup {T.got}
            /\ T.in.block_count = S.in.block_count + 1
  BY Alloc
<1>3. sp \in Spots /\ OwnOf(ino, f, S)[f][sp] = NoBlock
  BY OwnParts, SpotsAre
<1>4. T \in State /\ T.in \in InodeState /\ T.got \in Cells
  BY <1>2, StateFields DEF Keeps
<1>5. /\ A.con = T.con /\ A.next = T.next /\ A.total = T.total /\ A.fate = T.fate
      /\ A.ptr = T.ptr /\ A.got = T.got /\ A.used = T.used
      /\ A.in = [T.in EXCEPT !.i_indirect = T.got]
  BY <1>4 DEF State, Indirected
<1>6. /\ A.in \in InodeState /\ A.in.i_size = T.in.i_size /\ A.in.block_count = T.in.block_count
      /\ A.in.i_block_nr = T.in.i_block_nr
      /\ A.in.i_indirect = T.got /\ A.in.i_dindirect = T.in.i_dindirect
  BY <1>4, <1>5 DEF InodeState
<1>7. A \in State
  BY <1>4, <1>5, <1>6 DEF State, Indirected
<1>8. Keeps(S, A)
  BY <1>2, <1>5, <1>6, <1>7 DEF Keeps
<1>9. CASE T.got = NoBlock
  <2>1. Same(S.in, A.in) /\ A.in.block_count = S.in.block_count
    BY <1>2, <1>6, <1>9 DEF Same
  <2>2. Grown(ino, f, S, A, <<"indirect", 0>>)
    BY <1>2, <1>3, <1>5, <1>8, <1>9, <2>1, GrownNone
  <2>. QED
    BY <1>2, <1>5, <1>6, <1>9, <2>1, <2>2 DEF Same
<1>10. CASE T.got # NoBlock
  <2>1. /\ A.in.i_block_nr = S.in.i_block_nr
        /\ A.in.i_indirect = T.got /\ A.in.i_dindirect = S.in.i_dindirect
    BY <1>2, <1>6 DEF Same
  <2>2. Linked(OwnOf(ino, f, S), f, sp, T.got, OwnOf(ino, f, A))
    BY <1>2, <1>5, <1>7, <1>10, <2>1, LinkedIndirect
  <2>3. A.got \in Blocks \ S.used /\ A.used = S.used \cup {A.got}
        /\ A.in.block_count = S.in.block_count + 1 /\ A.ptr = S.ptr
    BY <1>2, <1>5, <1>6, <1>10
  <2>4. Grown(ino, f, S, A, <<"indirect", 0>>)
    BY <1>3, <1>5, <1>8, <2>2, <2>3, GrownOne
  <2>. QED
    BY <1>5, <1>10, <2>1, <2>3, <2>4
<1>. QED
  BY <1>9, <1>10

(* A new doubly indirect block.                                            *)
Doubled(T) == [T EXCEPT !.in.i_dindirect = T.got]
LEMMA LinkedDouble ==
    ASSUME NEW ino \in Inos, NEW f \in Files, NEW S \in State, NEW A \in State, Good(ino, f, S),
           A.ptr = S.ptr, S.in.i_dindirect = NoBlock, NEW b \in Blocks \ S.used,
           A.in.i_block_nr = S.in.i_block_nr, A.in.i_dindirect = b, A.in.i_indirect = S.in.i_indirect
    PROVE  Linked(OwnOf(ino, f, S), f, <<"dindirect", 0>>, b, OwnOf(ino, f, A))
<1>. DEFINE old == With(ino, f, S)
            new == With(ino, f, A)
<1>1. old \in Inos /\ new \in Inos /\ old[f] = S.in /\ new[f] = A.in
      /\ \A g \in Files \ {f} : new[g] = old[g]
  BY InosOfTwo
<1>2. OwnOf(ino, f, S) = Own(old, S.ptr) /\ OwnOf(ino, f, A) = Own(new, S.ptr)
  BY DEF OwnOf
<1>. HIDE DEF old, new
<1>3. S.ptr \in Device
  BY StateFields
<1>4. b \in Blocks /\ S.ptr[b] = ZeroBlock
  BY DEF Good, Clean
<1>5. Linked(Own(old, S.ptr), f, <<"dindirect", 0>>, b, Own(new, S.ptr))
  BY <1>1, <1>3, <1>4, LinkDouble
<1>. QED
  BY <1>2, <1>5

LEMMA GrowDouble ==
    ASSUME NEW ino \in Inos, NEW f \in Files, NEW S \in State, Good(ino, f, S),
           S.in.i_dindirect = NoBlock, NEW T, T = testfs_alloc_block_for_inode(S),
           NEW A, A = Doubled(T)
    PROVE  /\ Grown(ino, f, S, A, <<"dindirect", 0>>)
           /\ A.in.i_dindirect = A.got /\ A.ptr = S.ptr
           /\ A.in.i_block_nr = S.in.i_block_nr /\ A.in.i_indirect = S.in.i_indirect
           /\ A.got = NoBlock => A.used = S.used /\ A.in.block_count = S.in.block_count
           /\ A.got # NoBlock => /\ A.got \in Blocks \ S.used /\ A.used = S.used \cup {A.got}
                                 /\ A.in.block_count = S.in.block_count + 1
<1>. DEFINE sp == <<"dindirect", 0>>
<1>2. /\ Keeps(S, T) /\ T.ptr = S.ptr /\ Same(S.in, T.in)
      /\ T.got = NoBlock => T.used = S.used /\ T.in = S.in
      /\ T.got # NoBlock =>
            /\ T.got \in Blocks \ S.used /\ T.used = S.used \cup {T.got}
            /\ T.in.block_count = S.in.block_count + 1
  BY Alloc
<1>3. sp \in Spots /\ OwnOf(ino, f, S)[f][sp] = NoBlock
  BY OwnParts, SpotsAre
<1>4. T \in State /\ T.in \in InodeState /\ T.got \in Cells
  BY <1>2, StateFields DEF Keeps
<1>5. /\ A.con = T.con /\ A.next = T.next /\ A.total = T.total /\ A.fate = T.fate
      /\ A.ptr = T.ptr /\ A.got = T.got /\ A.used = T.used
      /\ A.in = [T.in EXCEPT !.i_dindirect = T.got]
  BY <1>4 DEF State, Doubled
<1>6. /\ A.in \in InodeState /\ A.in.i_size = T.in.i_size /\ A.in.block_count = T.in.block_count
      /\ A.in.i_block_nr = T.in.i_block_nr
      /\ A.in.i_indirect = T.in.i_indirect /\ A.in.i_dindirect = T.got
  BY <1>4, <1>5 DEF InodeState
<1>7. A \in State
  BY <1>4, <1>5, <1>6 DEF State, Doubled
<1>8. Keeps(S, A)
  BY <1>2, <1>5, <1>6, <1>7 DEF Keeps
<1>9. CASE T.got = NoBlock
  <2>1. Same(S.in, A.in) /\ A.in.block_count = S.in.block_count
    BY <1>2, <1>6, <1>9 DEF Same
  <2>2. Grown(ino, f, S, A, <<"dindirect", 0>>)
    BY <1>2, <1>3, <1>5, <1>8, <1>9, <2>1, GrownNone
  <2>. QED
    BY <1>2, <1>5, <1>6, <1>9, <2>1, <2>2 DEF Same
<1>10. CASE T.got # NoBlock
  <2>1. /\ A.in.i_block_nr = S.in.i_block_nr
        /\ A.in.i_indirect = S.in.i_indirect /\ A.in.i_dindirect = T.got
    BY <1>2, <1>6 DEF Same
  <2>2. Linked(OwnOf(ino, f, S), f, sp, T.got, OwnOf(ino, f, A))
    BY <1>2, <1>5, <1>7, <1>10, <2>1, LinkedDouble
  <2>3. A.got \in Blocks \ S.used /\ A.used = S.used \cup {A.got}
        /\ A.in.block_count = S.in.block_count + 1 /\ A.ptr = S.ptr
    BY <1>2, <1>5, <1>6, <1>10
  <2>4. Grown(ino, f, S, A, <<"dindirect", 0>>)
    BY <1>3, <1>5, <1>8, <2>2, <2>3, GrownOne
  <2>. QED
    BY <1>5, <1>10, <2>1, <2>3, <2>4
<1>. QED
  BY <1>9, <1>10

(* A pointer in a block of the device is set.                              *)
Pointing(T, top, i, b) == [T EXCEPT !.ptr[top][i] = b]
Points(ptr, new, top, i, b) ==
    /\ new \in Device
    /\ \A c \in Blocks \ {top} : new[c] = ptr[c]
    /\ new[top] = [ptr[top] EXCEPT ![i] = b]

LEMMA SetPointer ==
    ASSUME NEW T \in State, NEW b \in Cells, NEW top \in Blocks, NEW i \in Slots,
           NEW A, A = Pointing(T, top, i, b)
    PROVE  /\ A \in State /\ A.in = T.in /\ A.used = T.used /\ A.con = T.con /\ A.got = T.got
           /\ A.next = T.next /\ A.total = T.total /\ A.fate = T.fate
           /\ Points(T.ptr, A.ptr, top, i, b)
<1>. DEFINE row == [T.ptr[top] EXCEPT ![i] = b]
            new == [T.ptr EXCEPT ![top] = row]
<1>1. T.ptr \in Device /\ T.ptr[top] \in [Slots -> Cells]
  BY StateFields
<1>2. row \in [Slots -> Cells]
  BY <1>1
<1>3. A = [T EXCEPT !.ptr = new]
  BY <1>1 DEF Pointing, Device
<1>. HIDE DEF row
<1>4. new \in Device /\ new[top] = row /\ \A c \in Blocks \ {top} : new[c] = T.ptr[c]
  BY <1>1, <1>2 DEF Device
<1>. HIDE DEF new
<1>5. /\ A \in State /\ A.in = T.in /\ A.used = T.used /\ A.con = T.con /\ A.got = T.got
      /\ A.next = T.next /\ A.total = T.total /\ A.fate = T.fate /\ A.ptr = new
  BY <1>3, <1>4 DEF State
<1>. QED
  BY <1>4, <1>5 DEF Points, row

(* The pointer to a block behind another one, that a new block is linked   *)
(* to.                                                                     *)
Behind(S, top, i, sp, f, ino) ==
    /\ top \in S.used /\ i \in Slots /\ sp \in Spots
    /\ S.ptr[top][i] = NoBlock /\ OwnOf(ino, f, S)[f][sp] = NoBlock
    /\ \A n : \A b \in Blocks \ S.used :
          Points(S.ptr, n, top, i, b) =>
             Linked(OwnOf(ino, f, S), f, sp, b, Own(With(ino, f, S), n))

GrownBehind(S, A, top, i) ==
    /\ Same(S.in, A.in)
    /\ A.got # NoBlock => A.in.block_count = S.in.block_count + 1
    /\ A.got # NoBlock => A.got \in Blocks \ S.used /\ A.used = S.used \cup {A.got}
    /\ A.got = NoBlock => A.used = S.used /\ A.ptr = S.ptr /\ A.in.block_count = S.in.block_count
    /\ Points(S.ptr, A.ptr, top, i, A.got)

LEMMA GrowBehind ==
    ASSUME NEW ino \in Inos, NEW f \in Files, NEW S \in State, Good(ino, f, S),
           NEW T, T = testfs_alloc_block_for_inode(S), NEW top, NEW i, NEW sp,
           Behind(S, top, i, sp, f, ino), NEW A, A = Pointing(T, top, i, T.got)
    PROVE  Grown(ino, f, S, A, sp) /\ GrownBehind(S, A, top, i)
<1>1. /\ Keeps(S, T) /\ T.ptr = S.ptr /\ Same(S.in, T.in)
      /\ T.got = NoBlock => T.used = S.used /\ T.in = S.in
      /\ T.got # NoBlock =>
            /\ T.got \in Blocks \ S.used /\ T.used = S.used \cup {T.got}
            /\ T.in.block_count = S.in.block_count + 1
  BY Alloc
<1>2. T \in State /\ T.got \in Cells
  BY <1>1, StateFields DEF Keeps
<1>3. top \in Blocks /\ top \in S.used /\ i \in Slots /\ sp \in Spots /\ S.ptr[top][i] = NoBlock
      /\ OwnOf(ino, f, S)[f][sp] = NoBlock
  BY StateFields DEF Behind
<1>4. /\ A \in State /\ A.in = T.in /\ A.used = T.used /\ A.con = T.con /\ A.got = T.got
      /\ A.next = T.next /\ A.total = T.total /\ A.fate = T.fate
      /\ Points(T.ptr, A.ptr, top, i, T.got)
  BY <1>2, <1>3, SetPointer
<1>5. Keeps(S, A) /\ Same(S.in, A.in)
  BY <1>1, <1>4 DEF Keeps, Same
<1>6. S.ptr \in Device /\ S.ptr[top] \in [Slots -> Cells]
  BY <1>3, StateFields
<1>7. Points(S.ptr, A.ptr, top, i, A.got)
  BY <1>1, <1>4
<1>8. CASE T.got = NoBlock
  <2>1. A.ptr[top] = S.ptr[top]
    <3>1. [S.ptr[top] EXCEPT ![i] = NoBlock] = S.ptr[top]
      BY <1>3, <1>6
    <3>2. A.ptr[top] = [S.ptr[top] EXCEPT ![i] = NoBlock]
      BY <1>4, <1>7, <1>8 DEF Points
    <3>. QED
      BY <3>1, <3>2
  <2>2. A.ptr = S.ptr
    <3>1. \A c \in Blocks : A.ptr[c] = S.ptr[c]
      BY <1>7, <2>1 DEF Points
    <3>2. A.ptr \in Device
      BY <1>7 DEF Points
    <3>. QED
      BY <1>6, <3>1, <3>2 DEF Device
  <2>3. A.in.block_count = S.in.block_count /\ A.used = S.used /\ A.got = NoBlock
    BY <1>1, <1>4, <1>8
  <2>4. Grown(ino, f, S, A, sp)
    BY <1>3, <1>5, <2>2, <2>3, GrownNone
  <2>. QED
    BY <1>5, <1>7, <2>2, <2>3, <2>4 DEF GrownBehind
<1>9. CASE T.got # NoBlock
  <2>1. A.got \in Blocks \ S.used /\ A.used = S.used \cup {A.got}
        /\ A.in.block_count = S.in.block_count + 1 /\ A.got # NoBlock
    BY <1>1, <1>4, <1>9
  <2>2. Linked(OwnOf(ino, f, S), f, sp, A.got, Own(With(ino, f, S), A.ptr))
    BY <1>7, <2>1 DEF Behind
  <2>3. OwnOf(ino, f, A) = Own(With(ino, f, S), A.ptr)
    <3>. DEFINE B == [S EXCEPT !.ptr = A.ptr]
    <3>0. A.ptr \in Device
      BY <1>4, StateFields
    <3>1. B \in State /\ B.in = S.in /\ B.ptr = A.ptr
      BY <3>0 DEF State
    <3>. HIDE DEF B
    <3>2. OwnOf(ino, f, A) = OwnOf(ino, f, B)
      BY <1>4, <1>5, <3>1, OwnOfSame
    <3>3. OwnOf(ino, f, B) = Own(With(ino, f, S), A.ptr)
      BY <3>1 DEF OwnOf, With
    <3>. QED
      BY <3>2, <3>3
  <2>4. \A c \in Blocks \ A.used : A.ptr[c] = S.ptr[c]
    BY <1>3, <1>7, <2>1 DEF Points
  <2>5. Grown(ino, f, S, A, sp)
    BY <1>3, <1>5, <2>1, <2>2, <2>3, <2>4, GrownOne
  <2>. QED
    BY <1>5, <1>7, <2>1, <2>5 DEF GrownBehind
<1>. QED
  BY <1>8, <1>9

LEMMA OwnOfGood ==
    ASSUME NEW ino \in Inos, NEW f \in Files, NEW S \in State, Good(ino, f, S)
    PROVE  /\ With(ino, f, S) \in Inos /\ With(ino, f, S)[f] = S.in /\ S.ptr \in Device
           /\ OwnOf(ino, f, S) = Own(With(ino, f, S), S.ptr)
           /\ Fits(Own(With(ino, f, S), S.ptr), S.used)
           /\ S.used \in SUBSET Blocks
  BY InosWith, StateFields DEF OwnOf, Good

LEMMA BehindIndirect ==
    ASSUME NEW ino \in Inos, NEW f \in Files, NEW S \in State, Good(ino, f, S),
           NEW k \in Data, k \notin Direct, Beyond(k) < 0, S.in.i_indirect # NoBlock,
           Datum(S.in, S.ptr, k) = NoBlock
    PROVE  Behind(S, S.in.i_indirect, k - NR_DIRECT_BLOCKS, <<"data", k>>, f, ino)
<1>. DEFINE top == S.in.i_indirect
            i == k - NR_DIRECT_BLOCKS
            sp == <<"data", k>>
            w == With(ino, f, S)
            ptr == S.ptr
<1>1. i \in Slots /\ sp \in Spots
  BY Layers, SpotsAre
<1>2. top \in S.used /\ top \in Blocks /\ OwnOf(ino, f, S)[f][sp] = NoBlock
  <2>1. OwnOf(ino, f, S)[f][<<"indirect", 0>>] = top /\ OwnOf(ino, f, S)[f][sp] = NoBlock
    BY OwnParts
  <2>. QED
    BY <2>1, SpotsAre, InUse, StateFields
<1>3. S.ptr[top][i] = NoBlock
  <2>1. Datum(S.in, S.ptr, k) = Via(S.ptr, top, i)
    BY DatumIs
  <2>. QED
    BY <2>1 DEF Via
<1>4. /\ w \in Inos /\ ptr \in Device /\ Fits(Own(w, ptr), S.used) /\ top = w[f].i_indirect
      /\ OwnOf(ino, f, S) = Own(w, ptr)
  BY OwnOfGood
<1>. HIDE DEF top, sp, w, ptr
<1>5. ASSUME NEW n, NEW b \in Blocks \ S.used, Points(ptr, n, top, i, b)
      PROVE  Linked(Own(w, ptr), f, sp, b, Own(w, n))
  <2>1. /\ n \in Device
        /\ \A c \in Blocks \ {top} : n[c] = ptr[c]
        /\ n[top] = [ptr[top] EXCEPT ![k - NR_DIRECT_BLOCKS] = b]
    BY <1>5 DEF Points
  <2>2. Linked(Own(w, ptr), f, <<"data", k>>, b, Own(w, n))
    BY <1>2, <1>4, <2>1, LinkInIndirect
  <2>. QED
    BY <2>2 DEF sp
<1>6. Behind(S, top, i, sp, f, ino)
  BY <1>1, <1>2, <1>3, <1>4, <1>5 DEF Behind, w, ptr
<1>. QED
  BY <1>6 DEF top, sp

LEMMA BehindDouble ==
    ASSUME NEW ino \in Inos, NEW f \in Files, NEW S \in State, Good(ino, f, S),
           NEW r \in Slots, S.in.i_dindirect # NoBlock, S.ptr[S.in.i_dindirect][r] = NoBlock
    PROVE  Behind(S, S.in.i_dindirect, r, <<"three", r>>, f, ino)
<1>. DEFINE top == S.in.i_dindirect
            sp == <<"three", r>>
            w == With(ino, f, S)
            ptr == S.ptr
<1>2. top \in S.used /\ top \in Blocks /\ OwnOf(ino, f, S)[f][sp] = NoBlock /\ sp \in Spots
  <2>1. OwnOf(ino, f, S)[f][<<"dindirect", 0>>] = top /\ OwnOf(ino, f, S)[f][sp] = Via(S.ptr, top, r)
    BY OwnParts
  <2>2. Via(S.ptr, top, r) = NoBlock
    BY DEF Via
  <2>. QED
    BY <2>1, <2>2, SpotsAre, InUse, StateFields
<1>4. /\ w \in Inos /\ ptr \in Device /\ Fits(Own(w, ptr), S.used) /\ top = w[f].i_dindirect
      /\ OwnOf(ino, f, S) = Own(w, ptr)
  BY OwnOfGood
<1>3. ptr[top][r] = NoBlock /\ \A b \in Blocks \ S.used : ptr[b] = ZeroBlock /\ b # top
  BY <1>2 DEF Good, Clean
<1>. HIDE DEF top, sp, w, ptr
<1>5. ASSUME NEW n, NEW b \in Blocks \ S.used, Points(ptr, n, top, r, b)
      PROVE  Linked(Own(w, ptr), f, sp, b, Own(w, n))
  <2>1. /\ n \in Device
        /\ \A c \in Blocks \ {top} : n[c] = ptr[c]
        /\ n[top] = [ptr[top] EXCEPT ![r] = b]
    BY <1>5 DEF Points
  <2>2. b \in Blocks /\ b # top /\ ptr[b] = ZeroBlock
    BY <1>3
  <2>3. Linked(Own(w, ptr), f, <<"three", r>>, b, Own(w, n))
    BY <1>2, <1>3, <1>4, <2>1, <2>2, LinkThree
  <2>. QED
    BY <2>3 DEF sp
<1>6. Behind(S, top, r, sp, f, ino)
  BY <1>2, <1>3, <1>4, <1>5 DEF Behind, w, ptr
<1>. QED
  BY <1>6 DEF top, sp

LEMMA BehindThree ==
    ASSUME NEW ino \in Inos, NEW f \in Files, NEW S \in State, Good(ino, f, S),
           NEW k \in Data, Beyond(k) >= 0,
           NEW leaf, leaf = Via(S.ptr, S.in.i_dindirect, LayerThreeBlock(k)), leaf # NoBlock,
           Datum(S.in, S.ptr, k) = NoBlock
    PROVE  Behind(S, leaf, LayerThreePointer(k), <<"data", k>>, f, ino)
<1>. DEFINE i == LayerThreePointer(k)
            sp == <<"data", k>>
            w == With(ino, f, S)
            ptr == S.ptr
<1>1. i \in Slots /\ LayerThreeBlock(k) \in Slots
      /\ sp \in Spots /\ OwnOf(ino, f, S)[f][sp] = NoBlock
  BY Layers, SpotsAre, OwnParts
<1>2. leaf \in S.used /\ leaf \in Blocks
  <2>1. OwnOf(ino, f, S)[f][<<"three", LayerThreeBlock(k)>>] = leaf
    BY <1>1, OwnParts
  <2>2. <<"three", LayerThreeBlock(k)>> \in Spots
    BY <1>1, SpotsAre
  <2>. QED
    BY <2>1, <2>2, InUse, StateFields
<1>3. S.ptr[leaf][i] = NoBlock
  <2>1. Datum(S.in, S.ptr, k) = Via(S.ptr, leaf, i)
    BY DatumIs
  <2>. QED
    BY <2>1 DEF Via
<1>4. /\ w \in Inos /\ ptr \in Device /\ Fits(Own(w, ptr), S.used)
      /\ leaf = Via(ptr, w[f].i_dindirect, LayerThreeBlock(k))
      /\ OwnOf(ino, f, S) = Own(w, ptr)
  BY OwnOfGood
<1>. HIDE DEF sp, w, ptr
<1>5. ASSUME NEW n, NEW b \in Blocks \ S.used, Points(ptr, n, leaf, i, b)
      PROVE  Linked(Own(w, ptr), f, sp, b, Own(w, n))
  <2>1. /\ n \in Device
        /\ \A c \in Blocks \ {leaf} : n[c] = ptr[c]
        /\ n[leaf] = [ptr[leaf] EXCEPT ![LayerThreePointer(k)] = b]
    BY <1>5 DEF Points
  <2>2. Linked(Own(w, ptr), f, <<"data", k>>, b, Own(w, n))
    BY <1>2, <1>4, <2>1, LinkLeaf
  <2>. QED
    BY <2>2 DEF sp
<1>6. Behind(S, leaf, i, sp, f, ino)
  BY <1>1, <1>2, <1>3, <1>4, <1>5 DEF Behind, w, ptr
<1>. QED
  BY <1>6 DEF sp

-----------------------------------------------------------------------------
(* What testfs_allocate_block leaves behind.                               *)

(* The other files are as they were.                                       *)
Elsewhere(ino, f, S, A) ==
    \A g \in Files \ {f} : \A sp \in Spots : OwnOf(ino, f, A)[g][sp] = OwnOf(ino, f, S)[g][sp]

(* Block k of f is A.got, the other blocks are where they were; a block of *)
(* the third layer comes only with a block behind it.                      *)
Served(ino, f, S, A, k) ==
    /\ A \in State /\ A.next = S.next /\ A.in.i_size = S.in.i_size /\ A.fate = S.fate
    /\ Good(ino, f, A)
    /\ Elsewhere(ino, f, S, A)
    /\ \A b \in S.used : A.con[b] = S.con[b]
    /\ S.used \subseteq A.used
    /\ \A g \in Files : \A j \in Data :
          OwnOf(ino, f, A)[g][<<"data", j>>] =
             IF g = f /\ j = k THEN A.got ELSE OwnOf(ino, f, S)[g][<<"data", j>>]
    /\ \A g \in Files : \A r \in Slots :
          OwnOf(ino, f, A)[g][<<"three", r>>] # NoBlock =>
             \/ OwnOf(ino, f, S)[g][<<"three", r>>] # NoBlock
             \/ g = f /\ Beyond(k) >= 0 /\ r = LayerThreeBlock(k) /\ A.got # NoBlock

(* The doubly indirect block was forgotten.                                *)
Torn(ino, f, S, A) ==
    /\ Tattered(OwnOf(ino, f, A), A.used, f)
    /\ A \in State /\ A.next = S.next /\ A.in.i_size = S.in.i_size /\ A.fate = "torn"
    /\ A.got = NoBlock /\ A.in.block_count \in 0 .. MaxFsBlocks

LEMMA ServedGrown ==
    ASSUME NEW ino \in Inos, NEW f \in Files, NEW S \in State, NEW A, NEW k \in Data,
           Grown(ino, f, S, A, <<"data", k>>)
    PROVE  Served(ino, f, S, A, k)
<1>1. \A g \in Files : \A j \in Data :
         OwnOf(ino, f, A)[g][<<"data", j>>] =
            IF g = f /\ j = k THEN A.got ELSE OwnOf(ino, f, S)[g][<<"data", j>>]
  <2>. TAKE g \in Files
  <2>. TAKE j \in Data
  <2>1. <<"data", j>> \in Spots /\ (<<"data", j>> = <<"data", k>> <=> j = k)
    BY SpotsAre
  <2>. QED
    BY <2>1 DEF Grown, Linked
<1>2. \A g \in Files : \A r \in Slots :
         OwnOf(ino, f, A)[g][<<"three", r>>] = OwnOf(ino, f, S)[g][<<"three", r>>]
  <2>. TAKE g \in Files
  <2>. TAKE r \in Slots
  <2>1. <<"three", r>> \in Spots /\ <<"three", r>> # <<"data", k>>
    BY SpotsAre
  <2>. QED
    BY <2>1 DEF Grown, Linked
<1>3. Elsewhere(ino, f, S, A)
  BY DEF Grown, Linked, Elsewhere
<1>. QED
  BY <1>1, <1>2, <1>3 DEF Served, Grown, Keeps

(* All is as it was: no block was found.                                   *)
Restored(S, A) ==
    /\ A \in State /\ A.next = S.next /\ A.in.i_size = S.in.i_size /\ A.fate = S.fate
    /\ \A b \in S.used : A.con[b] = S.con[b]
    /\ Same(S.in, A.in) /\ A.ptr = S.ptr /\ A.used = S.used /\ A.got = NoBlock
    /\ A.in.block_count = S.in.block_count

LEMMA ServedSame ==
    ASSUME NEW ino \in Inos, NEW f \in Files, NEW S \in State, Good(ino, f, S), NEW A,
           NEW k \in Data, OwnOf(ino, f, S)[f][<<"data", k>>] = NoBlock, Restored(S, A)
    PROVE  Served(ino, f, S, A, k)
<1>1. OwnOf(ino, f, A) = OwnOf(ino, f, S) /\ Good(ino, f, A)
  BY OwnOfSame, GoodSame DEF Restored
<1>. QED
  BY <1>1 DEF Served, Restored, Elsewhere

LEMMA NoneTaken ==
    ASSUME NEW S \in State, NEW A, A = testfs_alloc_block_for_inode(S), A.got = NoBlock
    PROVE  Restored(S, A) /\ A \in State /\ A.used = S.used /\ A.in = S.in /\ Keeps(S, A) /\ A.ptr = S.ptr
<1>1. /\ Keeps(S, A) /\ A.ptr = S.ptr /\ Same(S.in, A.in)
      /\ A.used = S.used /\ A.in = S.in
  BY Alloc
<1>. QED
  BY <1>1 DEF Restored, Keeps

(* The blocks that lead to block k, then block k.                          *)
LEMMA ServedAfter ==
    ASSUME NEW ino \in Inos, NEW f \in Files, NEW S \in State, NEW B, NEW A, NEW k \in Data, NEW sp,
           Grown(ino, f, S, B, sp), Served(ino, f, B, A, k),
           \/ sp = <<"indirect", 0>>
           \/ sp = <<"dindirect", 0>>
           \/ sp = <<"three", LayerThreeBlock(k)>> /\ Beyond(k) >= 0 /\ A.got # NoBlock
    PROVE  Served(ino, f, S, A, k)
<1>1. \A g \in Files : \A j \in Data :
         OwnOf(ino, f, B)[g][<<"data", j>>] = OwnOf(ino, f, S)[g][<<"data", j>>]
  <2>. TAKE g \in Files
  <2>. TAKE j \in Data
  <2>1. <<"data", j>> \in Spots /\ <<"data", j>> # sp
    BY SpotsAre
  <2>. QED
    BY <2>1 DEF Grown, Linked
<1>2. ASSUME NEW g \in Files, NEW r \in Slots, OwnOf(ino, f, A)[g][<<"three", r>>] # NoBlock
      PROVE  \/ OwnOf(ino, f, S)[g][<<"three", r>>] # NoBlock
             \/ g = f /\ Beyond(k) >= 0 /\ r = LayerThreeBlock(k) /\ A.got # NoBlock
  <2>1. CASE OwnOf(ino, f, B)[g][<<"three", r>>] # NoBlock
    <3>1. <<"three", r>> \in Spots
      BY SpotsAre
    <3>2. CASE g = f /\ <<"three", r>> = sp
      <4>1. r = LayerThreeBlock(k) /\ Beyond(k) >= 0 /\ A.got # NoBlock
        BY <3>2
      <4>. QED
        BY <3>2, <4>1
    <3>3. CASE ~(g = f /\ <<"three", r>> = sp)
      <4>1. OwnOf(ino, f, B)[g][<<"three", r>>] = OwnOf(ino, f, S)[g][<<"three", r>>]
        BY <3>1, <3>3 DEF Grown, Linked
      <4>. QED
        BY <2>1, <4>1
    <3>. QED
      BY <3>2, <3>3
  <2>2. CASE ~(OwnOf(ino, f, B)[g][<<"three", r>>] # NoBlock)
    BY <1>2, <2>2 DEF Served
  <2>. QED
    BY <2>1, <2>2
<1>3. /\ A \in State /\ A.next = S.next /\ A.in.i_size = S.in.i_size /\ A.fate = S.fate
      /\ Good(ino, f, A) /\ S.used \subseteq A.used
      /\ \A b \in S.used : A.con[b] = S.con[b]
  BY DEF Served, Grown, Keeps
<1>4. \A g \in Files : \A j \in Data :
         OwnOf(ino, f, A)[g][<<"data", j>>] =
            IF g = f /\ j = k THEN A.got ELSE OwnOf(ino, f, S)[g][<<"data", j>>]
  BY <1>1 DEF Served
<1>5. Elsewhere(ino, f, S, A)
  <2>1. Elsewhere(ino, f, S, B)
    BY DEF Grown, Linked, Elsewhere
  <2>. QED
    BY <2>1 DEF Served, Elsewhere
<1>. QED
  BY <1>2, <1>3, <1>4, <1>5 DEF Served

(* Where the block stands that is to be found.                             *)
LEMMA DatumOwn ==
    ASSUME NEW ino \in Inos, NEW f \in Files, NEW S \in State, NEW B \in State, NEW k \in Data, NEW sp, NEW b,
           Linked(OwnOf(ino, f, S), f, sp, b, OwnOf(ino, f, B)), sp # <<"data", k>>,
           Datum(S.in, S.ptr, k) = NoBlock
    PROVE  Datum(B.in, B.ptr, k) = NoBlock
<1>1. OwnOf(ino, f, B)[f][<<"data", k>>] = OwnOf(ino, f, S)[f][<<"data", k>>]
  BY SpotsAre DEF Linked
<1>. QED
  BY <1>1, OwnParts

LEMMA ServeDirect ==
    ASSUME NEW ino \in Inos, NEW f \in Files, NEW S \in State, Good(ino, f, S),
           NEW k \in Data, k \in Direct, Datum(S.in, S.ptr, k) = NoBlock, NEW A, A = AllocateDirect(S, k)
    PROVE  Served(ino, f, S, A, k)
<1>1. S.in.i_block_nr[k] = NoBlock
  BY DatumIs
<1>2. Grown(ino, f, S, A, <<"data", k>>)
  BY <1>1, GrowDirect
<1>. QED
  BY <1>2, ServedGrown

(* The block is taken that an indirect block is to point to.               *)
LEMMA ServeInIndirect ==
    ASSUME NEW ino \in Inos, NEW f \in Files, NEW B \in State, Good(ino, f, B),
           NEW k \in Data, k \notin Direct, Beyond(k) < 0, Datum(B.in, B.ptr, k) = NoBlock,
           B.in.i_indirect # NoBlock, NEW C, C = testfs_alloc_block_for_inode(B),
           NEW A, A = Pointing(C, B.in.i_indirect, k - NR_DIRECT_BLOCKS, C.got)
    PROVE  Served(ino, f, B, A, k)
<1>1. Behind(B, B.in.i_indirect, k - NR_DIRECT_BLOCKS, <<"data", k>>, f, ino)
  BY BehindIndirect
<1>2. Grown(ino, f, B, A, <<"data", k>>)
  BY <1>1, GrowBehind
<1>. QED
  BY <1>2, ServedGrown

(* A block that was taken is given back.                                   *)
Undone(S, C, b, A) ==
    /\ A \in State /\ A.got = C.got /\ A.next = C.next /\ A.total = C.total
    /\ Same(C.in, A.in) /\ A.in.i_size = C.in.i_size
    /\ A.used = S.used /\ A.fate = C.fate
    /\ A.in.block_count = C.in.block_count - 1
    /\ \A c \in S.used : A.con[c] = C.con[c]
    /\ A.ptr[b] = S.ptr[b] /\ \A c \in Blocks \ {b} : A.ptr[c] = C.ptr[c]

LEMMA Undo ==
    ASSUME NEW ino \in Inos, NEW f \in Files, NEW S \in State, Good(ino, f, S),
           NEW C \in State, NEW b \in Blocks \ S.used,
           C.used = S.used \cup {b}, NEW A, A = testfs_free_block_from_inode(C, b)
    PROVE  Undone(S, C, b, A)
<1>1. b \in Cells /\ b \in Blocks /\ b # NoBlock /\ b \in C.used
  BY DEF Cells, Blocks, NoBlock
<1>2. /\ A \in State /\ A.got = C.got /\ A.next = C.next /\ A.total = C.total
      /\ Same(C.in, A.in) /\ A.in.i_size = C.in.i_size
      /\ A.used = C.used \ {b}
      /\ A.ptr = [C.ptr EXCEPT ![b] = ZeroBlock] /\ A.con = [C.con EXCEPT ![b] = Zeros]
      /\ A.in = [C.in EXCEPT !.block_count = @ - 1]
      /\ A.in.block_count = C.in.block_count - 1
      /\ A.fate = C.fate
  BY <1>1, Free DEF Freed
<1>3. A.used = S.used
  BY <1>2
<1>4. C.ptr \in Device /\ C.con \in [Blocks -> {Zeros} \cup (Files \X Data)] /\ S.used \in SUBSET Blocks
  BY StateFields
<1>5. S.ptr[b] = ZeroBlock
  BY DEF Good, Clean
<1>6. \A c \in S.used : A.con[c] = C.con[c]
  BY <1>2, <1>4
<1>7. A.ptr[b] = S.ptr[b] /\ \A c \in Blocks \ {b} : A.ptr[c] = C.ptr[c]
  BY <1>2, <1>4, <1>5 DEF Device
<1>. QED
  BY <1>2, <1>3, <1>6, <1>7 DEF Undone

LEMMA ServeIndirect ==
    ASSUME NEW ino \in Inos, NEW f \in Files, NEW S \in State, Good(ino, f, S),
           NEW k \in Data, k \notin Direct, Beyond(k) < 0, Datum(S.in, S.ptr, k) = NoBlock,
           NEW A, A = AllocateIndirect(S, k)
    PROVE  Served(ino, f, S, A, k)
<1>. DEFINE fresh == S.in.i_indirect = NoBlock
            T == IF fresh THEN testfs_alloc_block_for_inode(S) ELSE S
            B == IF fresh THEN Indirected(T) ELSE T
            C == testfs_alloc_block_for_inode(B)
            D == testfs_free_block_from_inode(C, C.in.i_indirect)
<1>1. /\ B.in.i_indirect = NoBlock => A = B
      /\ B.in.i_indirect # NoBlock /\ C.got # NoBlock =>
            A = Pointing(C, C.in.i_indirect, k - NR_DIRECT_BLOCKS, C.got)
      /\ B.in.i_indirect # NoBlock /\ C.got = NoBlock /\ fresh =>
            A = [D EXCEPT !.in.i_indirect = NoBlock]
      /\ B.in.i_indirect # NoBlock /\ C.got = NoBlock /\ ~fresh => A = C
  BY Zenon DEF AllocateIndirect, Pointing, Indirected
<1>2. ASSUME NEW U \in State, Good(ino, f, U), Datum(U.in, U.ptr, k) = NoBlock,
             U.in.i_indirect # NoBlock, NEW V, V = testfs_alloc_block_for_inode(U), V.got # NoBlock,
             NEW W, W = Pointing(V, V.in.i_indirect, k - NR_DIRECT_BLOCKS, V.got)
      PROVE  Served(ino, f, U, W, k)
  <2>1. V.in.i_indirect = U.in.i_indirect
    BY <1>2, Alloc DEF Same
  <2>2. W = Pointing(V, U.in.i_indirect, k - NR_DIRECT_BLOCKS, V.got)
    BY <1>2, <2>1
  <2>. QED
    BY <1>2, <2>2, ServeInIndirect
<1>3. OwnOf(ino, f, S)[f][<<"data", k>>] = NoBlock
  BY OwnParts
<1>4. CASE ~fresh
  <2>1. B = S
    BY <1>4
  <2>. HIDE DEF B
  <2>2. CASE C.got # NoBlock
    <3>. HIDE DEF C
    <3>1. C = testfs_alloc_block_for_inode(S)
      BY <2>1 DEF C
    <3>2. A = Pointing(C, C.in.i_indirect, k - NR_DIRECT_BLOCKS, C.got)
      BY <1>1, <1>4, <2>1, <2>2
    <3>. QED
      BY <1>2, <1>4, <2>2, <3>1, <3>2
  <2>3. CASE C.got = NoBlock
    <3>1. A = C
      BY <1>1, <1>4, <2>1, <2>3
    <3>. HIDE DEF C, D
    <3>2. C = testfs_alloc_block_for_inode(S)
      BY <2>1 DEF C
    <3>3. Restored(S, C)
      BY <2>3, <3>2, NoneTaken
    <3>. QED
      BY <1>3, <3>1, <3>3, ServedSame
  <2>. QED
    BY <2>2, <2>3
<1>5. CASE fresh
  <2>1. T = testfs_alloc_block_for_inode(S) /\ B = Indirected(T)
    BY <1>5
  <2>. HIDE DEF T, B
  <2>2. /\ Grown(ino, f, S, B, <<"indirect", 0>>)
        /\ B.in.i_indirect = B.got /\ B.ptr = S.ptr
        /\ B.in.i_block_nr = S.in.i_block_nr /\ B.in.i_dindirect = S.in.i_dindirect
        /\ B.got = NoBlock => B.used = S.used /\ B.in.block_count = S.in.block_count
        /\ B.got # NoBlock => /\ B.got \in Blocks \ S.used /\ B.used = S.used \cup {B.got}
                              /\ B.in.block_count = S.in.block_count + 1
    BY <1>5, <2>1, GrowIndirect
  <2>3. B \in State /\ Good(ino, f, B) /\ Keeps(S, B)
    BY <2>2 DEF Grown, Keeps
  <2>4. Datum(B.in, B.ptr, k) = NoBlock
    <3>1. <<"indirect", 0>> # <<"data", k>>
      OBVIOUS
    <3>2. Linked(OwnOf(ino, f, S), f, <<"indirect", 0>>, B.got, OwnOf(ino, f, B))
      BY <2>2 DEF Grown
    <3>. QED
      BY <2>3, <3>1, <3>2, DatumOwn
  <2>5. CASE B.got = NoBlock
    <3>1. A = B
      BY <1>1, <2>2, <2>5
    <3>2. Same(S.in, B.in)
      BY <1>5, <2>2, <2>5 DEF Same
    <3>3. Restored(S, B)
      BY <2>2, <2>3, <2>5, <3>2 DEF Restored, Keeps
    <3>. QED
      BY <1>3, <3>1, <3>3, ServedSame
  <2>6. CASE B.got # NoBlock /\ C.got # NoBlock
    <3>1. A = Pointing(C, C.in.i_indirect, k - NR_DIRECT_BLOCKS, C.got)
      BY <1>1, <2>2, <2>6
    <3>2. C = testfs_alloc_block_for_inode(B)
      OBVIOUS
    <3>. HIDE DEF C, D
    <3>3. Served(ino, f, B, A, k)
      BY <1>2, <2>2, <2>3, <2>4, <2>6, <3>1, <3>2
    <3>. QED
      BY <2>2, <3>3, ServedAfter
  <2>7. CASE B.got # NoBlock /\ C.got = NoBlock
    <3>1. A = [D EXCEPT !.in.i_indirect = NoBlock]
      BY <1>1, <1>5, <2>2, <2>7
    <3>2. C = testfs_alloc_block_for_inode(B)
      OBVIOUS
    <3>3. D = testfs_free_block_from_inode(C, C.in.i_indirect)
      OBVIOUS
    <3>. HIDE DEF C, D
    <3>4. Keeps(B, C) /\ C.ptr = B.ptr /\ C.used = B.used /\ C.in = B.in
      BY <2>3, <2>7, <3>2, Alloc
    <3>5. C \in State /\ C.in.i_indirect = B.got /\ B.got \in Blocks \ S.used /\ C.used = S.used \cup {B.got}
      BY <2>2, <2>7, <3>4 DEF Keeps
    <3>6. D = testfs_free_block_from_inode(C, B.got)
      BY <3>3, <3>5
    <3>. HIDE <3>3
    <3>16. Undone(S, C, B.got, D)
      BY <3>5, <3>6, Undo, Zenon
    <3>7. /\ D \in State /\ D.got = C.got /\ D.next = C.next /\ D.total = C.total
          /\ Same(C.in, D.in) /\ D.in.i_size = C.in.i_size
          /\ D.used = S.used /\ D.fate = C.fate
          /\ D.in.block_count = C.in.block_count - 1
          /\ \A c \in S.used : D.con[c] = C.con[c]
          /\ D.ptr[B.got] = S.ptr[B.got] /\ \A c \in Blocks \ {B.got} : D.ptr[c] = C.ptr[c]
      BY <3>16 DEF Undone
    <3>8. /\ A.got = D.got /\ A.next = D.next /\ A.used = D.used /\ A.fate = D.fate /\ A.con = D.con
          /\ A.ptr = D.ptr /\ A.in = [D.in EXCEPT !.i_indirect = NoBlock]
      BY <3>1, <3>7 DEF State
    <3>9. /\ A.in \in InodeState /\ A.in.i_indirect = NoBlock /\ A.in.i_dindirect = D.in.i_dindirect
          /\ A.in.i_block_nr = D.in.i_block_nr /\ A.in.block_count = D.in.block_count
          /\ A.in.i_size = D.in.i_size
      <4>1. D.in \in InodeState
        BY <3>7, StateFields
      <4>. QED
        BY <3>8, <4>1 DEF InodeState, Cells
    <3>10. A \in State
      BY <3>1, <3>7, <3>8, <3>9 DEF State
    <3>11. Same(S.in, A.in)
      BY <1>5, <2>2, <3>4, <3>7, <3>9 DEF Same
    <3>12. A.ptr = S.ptr
      <4>1. A.ptr \in Device /\ S.ptr \in Device
        BY <3>10, StateFields
      <4>2. \A c \in Blocks : A.ptr[c] = S.ptr[c]
        BY <2>2, <3>4, <3>7, <3>8
      <4>. QED
        BY <4>1, <4>2 DEF Device
    <3>13. A.in.block_count = S.in.block_count
      <4>1. S.in.block_count \in Int
        BY StateFields
      <4>. QED
        BY <2>2, <2>7, <3>4, <3>7, <3>9, <4>1
    <3>14. /\ A.next = S.next /\ A.in.i_size = S.in.i_size /\ A.fate = S.fate /\ A.got = NoBlock
           /\ A.used = S.used
      BY <2>3, <2>7, <3>4, <3>7, <3>8, <3>9 DEF Keeps
    <3>15. \A b \in S.used : A.con[b] = S.con[b]
      BY <2>3, <3>4, <3>7, <3>8 DEF Keeps
    <3>. QED
      <4>1. Restored(S, A)
        BY <3>10, <3>11, <3>12, <3>13, <3>14, <3>15 DEF Restored
      <4>. QED
        BY <1>3, <4>1, ServedSame
  <2>. QED
    BY <2>5, <2>6, <2>7
<1>. QED
  BY <1>4, <1>5

(* The blocks behind the doubly indirect one: a block of the third layer   *)
(* if there is none, the block behind it, and the way back.                *)
LayerThree(B, k) ==
    LET top == B.in.i_dindirect
        row == LayerThreeBlock(k)
        C   == testfs_alloc_block_for_inode(B)
    IN  IF Via(B.ptr, top, row) = NoBlock THEN Pointing(C, top, row, C.got) ELSE B
Leaf(B, k) == Via(LayerThree(B, k).ptr, B.in.i_dindirect, LayerThreeBlock(k))
Last(B, k) == testfs_alloc_block_for_inode(LayerThree(B, k))
Back(B, k) ==
    LET top == B.in.i_dindirect
        row == LayerThreeBlock(k)
    IN  IF Via(B.ptr, top, row) = NoBlock
        THEN Pointing(testfs_free_block_from_inode(Last(B, k), Leaf(B, k)), top, row, NoBlock)
        ELSE Last(B, k)

LEMMA TakeThree ==
    ASSUME NEW ino \in Inos, NEW f \in Files, NEW B \in State, Good(ino, f, B),
           NEW k \in Data, Beyond(k) >= 0, Datum(B.in, B.ptr, k) = NoBlock, B.in.i_dindirect # NoBlock,
           Via(B.ptr, B.in.i_dindirect, LayerThreeBlock(k)) = NoBlock,
           NEW D, D = LayerThree(B, k)
    PROVE  /\ Grown(ino, f, B, D, <<"three", LayerThreeBlock(k)>>)
           /\ GrownBehind(B, D, B.in.i_dindirect, LayerThreeBlock(k))
           /\ Leaf(B, k) = D.got
<1>. DEFINE top == B.in.i_dindirect
            row == LayerThreeBlock(k)
            C == testfs_alloc_block_for_inode(B)
<1>1. D = Pointing(C, top, row, C.got)
  BY Zenon DEF LayerThree
<1>2. row \in Slots
  BY Layers
<1>3. B.ptr[top][row] = NoBlock
  BY DEF Via
<1>4. Behind(B, top, row, <<"three", row>>, f, ino)
  BY <1>2, <1>3, BehindDouble
<1>5. C = testfs_alloc_block_for_inode(B)
  OBVIOUS
<1>6. Leaf(B, k) = Via(D.ptr, top, row)
  BY DEF Leaf
<1>. HIDE DEF top, row, C
<1>7. Grown(ino, f, B, D, <<"three", row>>) /\ GrownBehind(B, D, top, row)
  BY <1>1, <1>4, <1>5, GrowBehind
<1>8. Leaf(B, k) = D.got
  <2>1. B.ptr[top] \in [Slots -> Cells] /\ D.ptr[top] = [B.ptr[top] EXCEPT ![row] = D.got]
    <3>1. top \in Blocks
      BY <1>4, StateFields DEF Behind
    <3>. QED
      BY <1>7, <3>1, StateFields DEF GrownBehind, Points
  <2>2. D.ptr[top][row] = D.got
    BY <1>2, <2>1
  <2>3. top # NoBlock
    BY DEF top
  <2>. QED
    BY <1>6, <2>2, <2>3 DEF Via
<1>. QED
  BY <1>7, <1>8 DEF top, row

(* The block behind a block of the third layer.                            *)
LEMMA ServeLeaf ==
    ASSUME NEW ino \in Inos, NEW f \in Files, NEW D \in State, Good(ino, f, D),
           NEW k \in Data, Beyond(k) >= 0, Datum(D.in, D.ptr, k) = NoBlock,
           NEW leaf, leaf = Via(D.ptr, D.in.i_dindirect, LayerThreeBlock(k)), leaf # NoBlock,
           NEW F, F = testfs_alloc_block_for_inode(D),
           NEW A, A = Pointing(F, leaf, LayerThreePointer(k), F.got)
    PROVE  Served(ino, f, D, A, k) /\ A.got = F.got
<1>1. Behind(D, leaf, LayerThreePointer(k), <<"data", k>>, f, ino)
  BY BehindThree
<1>. DEFINE i == LayerThreePointer(k)
<1>2. A = Pointing(F, leaf, i, F.got) /\ Behind(D, leaf, i, <<"data", k>>, f, ino)
  BY <1>1
<1>3. A.got = F.got
  <2>1. F \in State /\ F.got \in Cells
    BY Alloc, StateFields DEF Keeps
  <2>2. leaf \in Blocks /\ i \in Slots
    BY <1>2, StateFields DEF Behind
  <2>. HIDE DEF i
  <2>. QED
    BY <1>2, <2>1, <2>2, SetPointer
<1>. HIDE DEF i
<1>4. Grown(ino, f, D, A, <<"data", k>>)
  BY <1>2, GrowBehind
<1>. QED
  BY <1>3, <1>4, ServedGrown

(* The block of the third layer is given back.                             *)
LEMMA GiveBack ==
    ASSUME NEW ino \in Inos, NEW f \in Files, NEW B \in State, Good(ino, f, B), NEW D \in State,
           NEW top \in Blocks, NEW row \in Slots, B.ptr[top][row] = NoBlock, top \in B.used,
           Keeps(B, D), GrownBehind(B, D, top, row), D.got # NoBlock,
           NEW F, F = testfs_alloc_block_for_inode(D), F.got = NoBlock,
           NEW H, H = testfs_free_block_from_inode(F, D.got),
           NEW G, G = Pointing(H, top, row, NoBlock)
    PROVE  Restored(B, G)
<1>1. /\ Same(B.in, D.in) /\ D.in.block_count = B.in.block_count + 1
      /\ D.got \in Blocks \ B.used /\ D.used = B.used \cup {D.got}
      /\ Points(B.ptr, D.ptr, top, row, D.got)
  BY DEF GrownBehind
<1>2. Keeps(D, F) /\ F \in State /\ F.ptr = D.ptr /\ F.used = D.used /\ F.in = D.in
  BY NoneTaken
<1>3. Undone(B, F, D.got, H)
  <2>. DEFINE b == D.got
  <2>1. b \in Blocks \ B.used /\ F.used = B.used \cup {b} /\ H = testfs_free_block_from_inode(F, b)
    BY <1>1, <1>2
  <2>. HIDE DEF b
  <2>2. Undone(B, F, b, H)
    BY <1>2, <2>1, Undo
  <2>. QED
    BY <2>2 DEF b
<1>4. H \in State
  BY <1>3 DEF Undone
<1>5. /\ G \in State /\ G.in = H.in /\ G.used = H.used /\ G.con = H.con /\ G.got = H.got
      /\ G.next = H.next /\ G.total = H.total /\ G.fate = H.fate
      /\ Points(H.ptr, G.ptr, top, row, NoBlock)
  <2>1. NoBlock \in Cells
    BY DEF Cells
  <2>. QED
    BY <1>4, <2>1, SetPointer
<1>6. G.ptr = B.ptr
  <2>1. B.ptr \in Device /\ B.ptr[top] \in [Slots -> Cells] /\ G.ptr \in Device
    BY <1>5, StateFields
  <2>2. \A c \in Blocks : c # top => G.ptr[c] = B.ptr[c]
    <3>. TAKE c \in Blocks
    <3>. HAVE c # top
    <3>1. G.ptr[c] = H.ptr[c] /\ D.ptr[c] = B.ptr[c]
      BY <1>1, <1>5 DEF Points
    <3>2. CASE c = D.got
      BY <1>3, <3>1, <3>2 DEF Undone
    <3>3. CASE c # D.got
      BY <1>2, <1>3, <3>1, <3>3 DEF Undone
    <3>. QED
      BY <3>2, <3>3
  <2>3. G.ptr[top] = B.ptr[top]
    <3>1. top # D.got
      BY <1>1
    <3>2. H.ptr[top] = [B.ptr[top] EXCEPT ![row] = D.got]
      BY <1>1, <1>2, <1>3, <3>1 DEF Undone, Points
    <3>3. G.ptr[top] = [H.ptr[top] EXCEPT ![row] = NoBlock]
      BY <1>5 DEF Points
    <3>. QED
      BY <2>1, <3>2, <3>3
  <2>. QED
    BY <2>1, <2>2, <2>3 DEF Device
<1>7. Same(B.in, G.in) /\ G.used = B.used /\ G.got = NoBlock
  BY <1>1, <1>2, <1>3, <1>5 DEF Same, Undone
<1>8. G.in.block_count = B.in.block_count
  <2>1. B.in.block_count \in Int
    BY StateFields
  <2>2. G.in.block_count = D.in.block_count - 1
    BY <1>2, <1>3, <1>5 DEF Undone
  <2>. QED
    BY <1>1, <2>1, <2>2
<1>9. G.next = B.next /\ G.in.i_size = B.in.i_size /\ G.fate = B.fate
  BY <1>2, <1>3, <1>5 DEF Undone, Keeps
<1>10. \A b \in B.used : G.con[b] = B.con[b]
  BY <1>2, <1>3, <1>5 DEF Undone, Keeps
<1>. QED
  BY <1>5, <1>6, <1>7, <1>8, <1>9, <1>10 DEF Restored

LEMMA ServeThree ==
    ASSUME NEW ino \in Inos, NEW f \in Files, NEW B \in State, Good(ino, f, B),
           NEW k \in Data, Beyond(k) >= 0, Datum(B.in, B.ptr, k) = NoBlock, B.in.i_dindirect # NoBlock
    PROVE  /\ Leaf(B, k) = NoBlock => Served(ino, f, B, LayerThree(B, k), k)
           /\ Leaf(B, k) # NoBlock /\ Last(B, k).got # NoBlock =>
                 Served(ino, f, B, Pointing(Last(B, k), Leaf(B, k), LayerThreePointer(k), Last(B, k).got), k)
           /\ Leaf(B, k) # NoBlock /\ Last(B, k).got = NoBlock => Restored(B, Back(B, k))
<1>. DEFINE top == B.in.i_dindirect
            row == LayerThreeBlock(k)
            D == LayerThree(B, k)
            leaf == Leaf(B, k)
            F == Last(B, k)
            A == Pointing(F, leaf, LayerThreePointer(k), F.got)
            G == Back(B, k)
            H == testfs_free_block_from_inode(F, leaf)
<1>1. /\ leaf = Via(D.ptr, top, row)
      /\ F = testfs_alloc_block_for_inode(D)
  BY DEF Leaf, Last
<1>2. /\ Via(B.ptr, top, row) = NoBlock => G = Pointing(H, top, row, NoBlock)
      /\ Via(B.ptr, top, row) # NoBlock => G = F /\ D = B
  BY Zenon DEF Back, LayerThree
<1>3. OwnOf(ino, f, B)[f][<<"data", k>>] = NoBlock
  BY OwnParts
<1>4. row \in Slots
  BY Layers
<1>5. CASE Via(B.ptr, top, row) # NoBlock
  <2>1. D = B /\ G = F /\ leaf # NoBlock
    BY <1>1, <1>2, <1>5
  <2>. HIDE DEF D, F, leaf, A, G
  <2>2. F.got # NoBlock => Served(ino, f, B, A, k)
    <3>1. A = Pointing(F, leaf, LayerThreePointer(k), F.got)
      BY DEF A
    <3>2. leaf = Via(B.ptr, B.in.i_dindirect, LayerThreeBlock(k)) /\ F = testfs_alloc_block_for_inode(B)
      BY <1>1, <2>1
    <3>. QED
      BY <2>1, <3>1, <3>2, ServeLeaf
  <2>3. F.got = NoBlock => Restored(B, G)
    BY <1>1, <2>1, NoneTaken
  <2>. QED
    BY <2>1, <2>2, <2>3 DEF A, D, leaf, F, G
<1>6. CASE Via(B.ptr, top, row) = NoBlock
  <2>1. /\ Grown(ino, f, B, D, <<"three", row>>) /\ GrownBehind(B, D, top, row) /\ leaf = D.got
    <3>1. D = LayerThree(B, k)
      OBVIOUS
    <3>. HIDE DEF D
    <3>. QED
      BY <1>6, <3>1, TakeThree
  <2>2. G = Pointing(H, top, row, NoBlock) /\ H = testfs_free_block_from_inode(F, leaf)
    BY <1>2, <1>6
  <2>. HIDE DEF D, F, leaf, A, G, H
  <2>3. D \in State /\ Good(ino, f, D) /\ Keeps(B, D)
    BY <2>1 DEF Grown, Keeps
  <2>4. top \in B.used /\ top \in Blocks
    <3>1. OwnOf(ino, f, B)[f][<<"dindirect", 0>>] = top
      BY OwnParts
    <3>. QED
      BY <3>1, SpotsAre, InUse, StateFields
  <2>5. B.ptr[top][row] = NoBlock
    BY <1>6 DEF Via
  <2>6. leaf = NoBlock => Served(ino, f, B, D, k)
    <3>1. leaf = NoBlock => Restored(B, D)
      BY <2>1, <2>3 DEF GrownBehind, Keeps, Restored
    <3>. QED
      BY <1>3, <3>1, ServedSame
  <2>7. leaf # NoBlock /\ F.got # NoBlock => Served(ino, f, B, A, k)
    <3>. HAVE leaf # NoBlock /\ F.got # NoBlock
    <3>1. A = Pointing(F, leaf, LayerThreePointer(k), F.got)
      BY DEF A
    <3>2. D.in.i_dindirect = top
      BY <2>1 DEF GrownBehind, Same
    <3>3. Datum(D.in, D.ptr, k) = NoBlock
      <4>1. <<"three", row>> # <<"data", k>>
        OBVIOUS
      <4>2. Linked(OwnOf(ino, f, B), f, <<"three", row>>, D.got, OwnOf(ino, f, D))
        BY <2>1 DEF Grown
      <4>. QED
        BY <2>3, <4>1, <4>2, DatumOwn
    <3>4. leaf = Via(D.ptr, D.in.i_dindirect, LayerThreeBlock(k))
      BY <1>1, <3>2
    <3>5. Served(ino, f, D, A, k) /\ A.got = F.got
      BY <1>1, <2>3, <3>1, <3>3, <3>4, ServeLeaf
    <3>. QED
      BY <2>1, <3>5, ServedAfter
  <2>8. leaf # NoBlock /\ F.got = NoBlock => Restored(B, G)
    <3>. HAVE leaf # NoBlock /\ F.got = NoBlock
    <3>1. H = testfs_free_block_from_inode(F, D.got)
      BY <2>1, <2>2
    <3>. QED
      BY <1>1, <1>4, <2>1, <2>2, <2>3, <2>4, <2>5, <3>1, GiveBack
  <2>. QED
    BY <2>6, <2>7, <2>8 DEF A, D, leaf, F, G
<1>. QED
  BY <1>5, <1>6

(* The case the code gets wrong.                                           *)
Tearing(G) ==
    [testfs_free_block_from_inode(G, G.in.i_indirect) EXCEPT !.in.i_dindirect = NoBlock, !.fate = "torn"]

(* Pointers that are taken away leave the others where they were.          *)
LEMMA Shrunk ==
    ASSUME NEW in \in InodeState, NEW new \in InodeState, NEW ptr \in Device, NEW tpr \in Device,
           \A b \in Blocks : tpr[b] \in {ptr[b], ZeroBlock},
           new.i_block_nr = in.i_block_nr,
           new.i_indirect \in {in.i_indirect, NoBlock}, new.i_dindirect \in {in.i_dindirect, NoBlock},
           NEW sp \in Spots
    PROVE  At(new, tpr, sp) \in {At(in, ptr, sp), NoBlock}
<1>1. ASSUME NEW b \in Cells, NEW c, c \in {b, NoBlock}, NEW i \in Slots
      PROVE  Via(tpr, c, i) \in {Via(ptr, b, i), NoBlock}
  <2>1. CASE c = NoBlock
    BY <2>1 DEF Via
  <2>2. CASE c # NoBlock
    <3>1. c = b /\ b \in Blocks
      BY <1>1, <2>2 DEF Cells
    <3>2. tpr[b] = ptr[b] \/ tpr[b][i] = NoBlock
      BY <3>1 DEF ZeroBlock
    <3>. QED
      BY <2>2, <3>1, <3>2 DEF Via
  <2>. QED
    BY <2>1, <2>2
<1>2. in.i_indirect \in Cells /\ in.i_dindirect \in Cells
  BY DEF InodeState
<1>3. CASE \E k \in Data : sp = <<"data", k>>
  <2>1. PICK k \in Data : sp = <<"data", k>>
    BY <1>3
  <2>2. At(new, tpr, sp) = Datum(new, tpr, k) /\ At(in, ptr, sp) = Datum(in, ptr, k)
    BY <2>1, AtIs
  <2>3. CASE k \in Direct
    BY <2>2, <2>3, DatumIs
  <2>4. CASE k \notin Direct /\ Beyond(k) < 0
    <3>1. k - NR_DIRECT_BLOCKS \in Slots
      BY <2>4, Layers
    <3>2. /\ Datum(in, ptr, k) = Via(ptr, in.i_indirect, k - NR_DIRECT_BLOCKS)
          /\ Datum(new, tpr, k) = Via(tpr, new.i_indirect, k - NR_DIRECT_BLOCKS)
      BY <2>4, DatumIs
    <3>. QED
      BY <1>1, <1>2, <2>2, <3>1, <3>2
  <2>5. CASE Beyond(k) >= 0
    <3>. DEFINE r == LayerThreeBlock(k)
                c == LayerThreePointer(k)
                b == Via(ptr, in.i_dindirect, r)
                d == Via(tpr, new.i_dindirect, r)
    <3>1. r \in Slots /\ c \in Slots
      BY <2>5, Layers
    <3>2. Datum(in, ptr, k) = Via(ptr, b, c) /\ Datum(new, tpr, k) = Via(tpr, d, c)
      BY <2>5, DatumIs
    <3>. HIDE DEF r, c
    <3>3. b \in Cells /\ d \in {b, NoBlock}
      BY <1>1, <1>2, <3>1, ViaType
    <3>. HIDE DEF b, d
    <3>4. Via(tpr, d, c) \in {Via(ptr, b, c), NoBlock}
      BY <1>1, <3>1, <3>3
    <3>. QED
      BY <2>2, <3>2, <3>4
  <2>. QED
    BY <2>3, <2>4, <2>5, DatumIs
<1>4. CASE \E r \in Slots : sp = <<"three", r>>
  <2>1. PICK r \in Slots : sp = <<"three", r>>
    BY <1>4
  <2>2. At(new, tpr, sp) = Via(tpr, new.i_dindirect, r) /\ At(in, ptr, sp) = Via(ptr, in.i_dindirect, r)
    BY <2>1, AtIs
  <2>. QED
    BY <1>1, <1>2, <2>2
<1>5. CASE sp = <<"indirect", 0>>
  <2>1. At(new, tpr, sp) = new.i_indirect /\ At(in, ptr, sp) = in.i_indirect
    BY <1>5, AtIs, Zenon
  <2>. QED
    BY <2>1
<1>6. CASE sp = <<"dindirect", 0>>
  <2>1. At(new, tpr, sp) = new.i_dindirect /\ At(in, ptr, sp) = in.i_dindirect
    BY <1>6, AtIs, Zenon
  <2>. QED
    BY <2>1
<1>. QED
  BY <1>3, <1>4, <1>5, <1>6, SpotCases

LEMMA ShrunkOwn ==
    ASSUME NEW ino \in Inos, NEW f \in Files, NEW S \in State, NEW A \in State,
           \A b \in Blocks : A.ptr[b] \in {S.ptr[b], ZeroBlock},
           A.in.i_block_nr = S.in.i_block_nr,
           A.in.i_indirect = S.in.i_indirect, A.in.i_dindirect = NoBlock,
           NEW g \in Files, NEW sp \in Spots
    PROVE  OwnOf(ino, f, A)[g][sp] \in {OwnOf(ino, f, S)[g][sp], NoBlock}
<1>. DEFINE old == With(ino, f, S)
            new == With(ino, f, A)
<1>1. /\ old \in Inos /\ new \in Inos /\ old[f] = S.in /\ new[f] = A.in
      /\ \A h \in Files \ {f} : new[h] = old[h]
  BY InosOfTwo
<1>. HIDE DEF old, new
<1>2. /\ old[g] \in InodeState /\ new[g] \in InodeState
      /\ new[g].i_block_nr = old[g].i_block_nr
      /\ new[g].i_indirect \in {old[g].i_indirect, NoBlock}
      /\ new[g].i_dindirect \in {old[g].i_dindirect, NoBlock}
  BY <1>1 DEF Inos
<1>3. S.ptr \in Device /\ A.ptr \in Device
  BY StateFields
<1>4. At(new[g], A.ptr, sp) \in {At(old[g], S.ptr, sp), NoBlock}
  BY <1>2, <1>3, Shrunk
<1>5. /\ Own(new, A.ptr)[g][sp] = At(new[g], A.ptr, sp)
      /\ Own(old, S.ptr)[g][sp] = At(old[g], S.ptr, sp)
  BY Parts
<1>. QED
  BY <1>4, <1>5 DEF OwnOf, old, new

(* The doubly indirect block is forgotten, the indirect block freed.       *)
LEMMA TatteredIs ==
    ASSUME NEW ino \in Inos, NEW f \in Files, NEW G \in State, Good(ino, f, G),
           G.in.i_dindirect # NoBlock, NEW A \in State,
           A.used = G.used \ {G.in.i_indirect}, A.in.i_indirect = G.in.i_indirect,
           A.in.i_block_nr = G.in.i_block_nr, A.in.i_dindirect = NoBlock,
           \A b \in Blocks : A.ptr[b] \in {G.ptr[b], ZeroBlock}
    PROVE  Tattered(OwnOf(ino, f, A), A.used, f)
<1>. DEFINE old == OwnOf(ino, f, G)
            new == OwnOf(ino, f, A)
            ind == <<"indirect", 0>>
            din == <<"dindirect", 0>>
<1>1. \A g \in Files : \A sp \in Spots : new[g][sp] \in {old[g][sp], NoBlock}
  BY ShrunkOwn
<1>2. /\ old[f][ind] = G.in.i_indirect /\ new[f][ind] = G.in.i_indirect
      /\ old[f][din] = G.in.i_dindirect /\ new[f][din] = NoBlock
  BY OwnParts
<1>3. ind \in Spots /\ din \in Spots /\ ind # din
  BY SpotsAre
<1>4. Fits(old, G.used) /\ G.used \subseteq Blocks /\ old \in Owns
  BY StateFields, OwnOfType DEF Good
<1>. HIDE DEF old, new, ind, din
<1>5. \A g, h \in Files : \A sp, sq \in Spots :
         old[g][sp] = old[h][sq] /\ old[g][sp] # NoBlock => g = h /\ sp = sq
  BY <1>4 DEF Fits
<1>6. \A b \in Blocks : b \in G.used <=> Stands(old, b)
  BY <1>4 DEF Fits, Stands
<1>7. Alone(new)
  BY <1>1, <1>5 DEF Alone
<1>8. ASSUME NEW b \in Blocks, Stands(new, b)
      PROVE  \E g \in Files : \E sp \in Spots : new[g][sp] = b /\ old[g][sp] = b
  <2>1. b # NoBlock
    BY DEF Blocks, NoBlock
  <2>. QED
    BY <1>1, <1>8, <2>1 DEF Stands
<1>9. \E d \in A.used : ~Stands(new, d)
  <2>. DEFINE d == old[f][din]
  <2>1. d # NoBlock /\ d \in Blocks /\ d = old[f][din]
    BY <1>2, <1>3, <1>4 DEF Owns, Cells
  <2>. HIDE DEF d
  <2>2. d \in G.used /\ d # old[f][ind]
    BY <1>3, <1>5, <1>6, <2>1 DEF Stands
  <2>3. ~Stands(new, d)
    <3>1. ASSUME NEW g \in Files, NEW sp \in Spots, new[g][sp] = d, old[g][sp] = d
          PROVE  FALSE
      <4>1. g = f /\ sp = din
        BY <1>3, <1>5, <2>1, <3>1
      <4>. QED
        BY <1>2, <2>1, <3>1, <4>1
    <3>. QED
      BY <1>8, <2>1, <3>1
  <2>. QED
    BY <1>2, <2>2, <2>3
<1>10. ASSUME NEW b \in Blocks
       PROVE  b \notin A.used /\ Stands(new, b) <=> b = new[f][ind]
  <2>1. ASSUME b \notin A.used, Stands(new, b) PROVE b = new[f][ind]
    <3>1. Stands(old, b)
      BY <1>8, <2>1 DEF Stands
    <3>. QED
      BY <1>2, <1>6, <2>1, <3>1
  <2>2. ASSUME b = new[f][ind] PROVE b \notin A.used /\ Stands(new, b)
    BY <1>2, <1>3, <2>2 DEF Stands
  <2>. QED
    BY <2>1, <2>2
<1>. QED
  BY <1>7, <1>9, <1>10 DEF Tattered, new, ind

LEMMA Tear ==
    ASSUME NEW ino \in Inos, NEW f \in Files, NEW G \in State, Good(ino, f, G),
           G.in.i_dindirect # NoBlock,
           G.got = NoBlock, G.in.block_count \in 1 .. MaxFsBlocks,
           NEW A, A = Tearing(G)
    PROVE  Torn(ino, f, G, A)
<1>. DEFINE H == testfs_free_block_from_inode(G, G.in.i_indirect)
<1>1. G.in.i_indirect \in Cells
  BY StateFields
<1>2. /\ H \in State /\ H.got = G.got /\ H.next = G.next /\ H.in.i_size = G.in.i_size
      /\ \/ H.in.block_count = G.in.block_count
         \/ H.in.block_count = G.in.block_count - 1
      /\ Same(G.in, H.in) /\ H.used = G.used \ {G.in.i_indirect}
      /\ \A b \in Blocks : H.ptr[b] \in {G.ptr[b], ZeroBlock}
  <2>. DEFINE b == G.in.i_indirect
  <2>1. H = testfs_free_block_from_inode(G, b) /\ b \in Cells
    BY <1>1
  <2>. HIDE DEF H, b
  <2>2. /\ H \in State /\ H.got = G.got /\ H.next = G.next /\ H.in.i_size = G.in.i_size
        /\ b = NoBlock => H = G
        /\ b # NoBlock => H.in.block_count = G.in.block_count - 1
        /\ Same(G.in, H.in)
        /\ b # NoBlock => H.used = G.used \ {b} /\ H.ptr = [G.ptr EXCEPT ![b] = ZeroBlock]
    <3>1. Freed(G, b, H)
      BY <2>1, Free
    <3>. QED
      BY <3>1 DEF Freed
  <2>3. G.used \in SUBSET Blocks /\ G.ptr \in Device
    BY StateFields
  <2>4. H.used = G.used \ {b}
    <3>1. b = NoBlock => G.used \ {b} = G.used
      BY <2>3 DEF Blocks, NoBlock
    <3>. QED
      BY <2>2, <3>1
  <2>5. \A c \in Blocks : H.ptr[c] \in {G.ptr[c], ZeroBlock}
    BY <2>2, <2>3 DEF Device
  <2>6. H.in.block_count = G.in.block_count \/ H.in.block_count = G.in.block_count - 1
    BY <2>2
  <2>. QED
    BY <2>2, <2>4, <2>5, <2>6 DEF b
<1>3. A = [H EXCEPT !.in.i_dindirect = NoBlock, !.fate = "torn"]
  BY DEF Tearing
<1>. HIDE DEF H
<1>4. /\ A.used = H.used /\ A.ptr = H.ptr /\ A.con = H.con /\ A.got = H.got /\ A.next = H.next
      /\ A.total = H.total /\ A.fate = "torn" /\ A.in = [H.in EXCEPT !.i_dindirect = NoBlock]
  BY <1>2, <1>3 DEF State
<1>5. /\ A.in \in InodeState /\ A.in.i_size = H.in.i_size /\ A.in.block_count = H.in.block_count
      /\ A.in.i_block_nr = H.in.i_block_nr /\ A.in.i_indirect = H.in.i_indirect
      /\ A.in.i_dindirect = NoBlock
  <2>1. H.in \in InodeState
    BY <1>2, StateFields
  <2>. QED
    BY <1>4, <2>1 DEF InodeState, Cells
<1>6. A \in State
  BY <1>2, <1>3, <1>4, <1>5 DEF State, Fates
<1>7. A.in.block_count \in 0 .. MaxFsBlocks
  <2>. DEFINE n == G.in.block_count
              m == A.in.block_count
  <2>1. n \in 1 .. MaxFsBlocks /\ (m = n \/ m = n - 1)
    BY <1>2, <1>5
  <2>. HIDE DEF n, m
  <2>2. m \in 0 .. MaxFsBlocks
    BY <2>1, Sizes
  <2>. QED
    BY <2>2 DEF m
<1>8. /\ A.used = G.used \ {G.in.i_indirect} /\ A.in.i_indirect = G.in.i_indirect
      /\ A.in.i_block_nr = G.in.i_block_nr /\ \A b \in Blocks : A.ptr[b] \in {G.ptr[b], ZeroBlock}
  BY <1>2, <1>4, <1>5 DEF Same
<1>9. Tattered(OwnOf(ino, f, A), A.used, f)
  BY <1>5, <1>6, <1>8, TatteredIs
<1>. QED
  BY <1>2, <1>4, <1>5, <1>6, <1>7, <1>9 DEF Torn

LEMMA DoubleIs ==
    ASSUME NEW S, NEW k, NEW B,
           B = IF S.in.i_dindirect = NoBlock THEN Doubled(testfs_alloc_block_for_inode(S)) ELSE S,
           NEW A, A = AllocateDouble(S, k)
    PROVE  /\ B.in.i_dindirect = NoBlock => A = B
           /\ B.in.i_dindirect # NoBlock =>
                 /\ Leaf(B, k) = NoBlock => A = LayerThree(B, k)
                 /\ Leaf(B, k) # NoBlock /\ Last(B, k).got # NoBlock =>
                       A = Pointing(Last(B, k), Leaf(B, k), LayerThreePointer(k), Last(B, k).got)
                 /\ Leaf(B, k) # NoBlock /\ Last(B, k).got = NoBlock =>
                       A = IF S.in.i_dindirect = NoBlock THEN Tearing(Back(B, k)) ELSE Back(B, k)
<1>. DEFINE fresh == S.in.i_dindirect = NoBlock
            row  == LayerThreeBlock(k)
            T    == IF fresh THEN testfs_alloc_block_for_inode(S) ELSE S
            U    == IF fresh THEN [T EXCEPT !.in.i_dindirect = T.got] ELSE T
            top  == U.in.i_dindirect
            freshThree == Follow(U, top, row) = NoBlock
            C    == IF top # NoBlock /\ freshThree THEN testfs_alloc_block_for_inode(U) ELSE U
            D    == IF top # NoBlock /\ freshThree THEN [C EXCEPT !.ptr[top][row] = C.got] ELSE C
            leaf == Follow(D, top, row)
            F    == testfs_alloc_block_for_inode(D)
            G    == IF freshThree
                    THEN [testfs_free_block_from_inode(F, leaf) EXCEPT !.ptr[top][row] = NoBlock]
                    ELSE F
<1>1. /\ top = NoBlock => A = U
      /\ top # NoBlock /\ leaf = NoBlock => A = D
      /\ top # NoBlock /\ leaf # NoBlock /\ F.got # NoBlock =>
            A = Pointing(F, leaf, LayerThreePointer(k), F.got)
      /\ top # NoBlock /\ leaf # NoBlock /\ F.got = NoBlock /\ fresh => A = Tearing(G)
      /\ top # NoBlock /\ leaf # NoBlock /\ F.got = NoBlock /\ ~fresh => A = G
  <2>1. A = CASE top = NoBlock -> U
              [] top # NoBlock /\ leaf = NoBlock -> D
              [] leaf # NoBlock /\ F.got # NoBlock -> Pointing(F, leaf, LayerThreePointer(k), F.got)
              [] leaf # NoBlock /\ F.got = NoBlock -> IF fresh THEN Tearing(G) ELSE G
    BY Zenon DEF AllocateDouble, Pointing, Tearing
  <2>2. leaf # NoBlock => top # NoBlock
    BY DEF Follow
  <2>. HIDE DEF U, leaf, D, F, G, fresh
  <2>. QED
    BY <2>1, <2>2
<1>2. U = B
  BY DEF Doubled
<1>. HIDE DEF U
<1>3. top # NoBlock => D = LayerThree(B, k) /\ leaf = Leaf(B, k)
  <2>. HAVE top # NoBlock
  <2>1. freshThree <=> Via(B.ptr, B.in.i_dindirect, row) = NoBlock
    BY <1>2 DEF Follow, Via
  <2>2. D = LayerThree(B, k)
    <3>1. CASE freshThree
      <4>1. D = Pointing(testfs_alloc_block_for_inode(B), B.in.i_dindirect, row,
                         testfs_alloc_block_for_inode(B).got)
        BY <1>2, <3>1, Zenon DEF Pointing
      <4>2. LayerThree(B, k) = Pointing(testfs_alloc_block_for_inode(B), B.in.i_dindirect, row,
                                        testfs_alloc_block_for_inode(B).got)
        BY <2>1, <3>1, Zenon DEF LayerThree
      <4>. QED
        BY <4>1, <4>2
    <3>2. CASE ~freshThree
      BY <1>2, <2>1, <3>2, Zenon DEF LayerThree
    <3>. QED
      BY <3>1, <3>2
  <2>. HIDE DEF D
  <2>3. leaf = Leaf(B, k)
    BY <1>2, <2>2 DEF Leaf, Follow, Via
  <2>. QED
    BY <2>2, <2>3
<1>. HIDE DEF D, C
<1>4. top # NoBlock => F = Last(B, k)
  BY <1>3, Zenon DEF Last
<1>5. top # NoBlock => G = Back(B, k)
  <2>. HAVE top # NoBlock
  <2>1. freshThree <=> Via(B.ptr, B.in.i_dindirect, row) = NoBlock
    BY <1>2 DEF Follow, Via
  <2>2. leaf = Leaf(B, k) /\ F = Last(B, k)
    BY <1>3, <1>4
  <2>. HIDE DEF leaf, F
  <2>3. CASE freshThree
    <3>1. G = Pointing(testfs_free_block_from_inode(Last(B, k), Leaf(B, k)), B.in.i_dindirect, row, NoBlock)
      BY <1>2, <2>2, <2>3, Zenon DEF Pointing
    <3>2. Back(B, k) = Pointing(testfs_free_block_from_inode(Last(B, k), Leaf(B, k)), B.in.i_dindirect, row, NoBlock)
      BY <2>1, <2>3, Zenon DEF Back
    <3>. QED
      BY <3>1, <3>2
  <2>4. CASE ~freshThree
    BY <2>1, <2>2, <2>4, Zenon DEF Back
  <2>. QED
    BY <2>3, <2>4
<1>. HIDE DEF F, G, leaf
<1>6. top = B.in.i_dindirect
  BY <1>2
<1>. HIDE DEF top
<1>7. CASE top = NoBlock
  BY <1>1, <1>2, <1>6, <1>7
<1>8. CASE top # NoBlock
  <2>1. D = LayerThree(B, k) /\ leaf = Leaf(B, k) /\ F = Last(B, k) /\ G = Back(B, k)
    BY <1>3, <1>4, <1>5, <1>8
  <2>2. CASE leaf = NoBlock
    <3>1. A = D
      BY <1>1, <1>8, <2>2
    <3>. QED
      BY <1>6, <1>8, <2>1, <2>2, <3>1
  <2>3. CASE leaf # NoBlock /\ F.got # NoBlock
    <3>1. A = Pointing(F, leaf, LayerThreePointer(k), F.got)
      BY <1>1, <1>8, <2>3
    <3>. QED
      BY <1>6, <1>8, <2>1, <2>3, <3>1
  <2>4. CASE leaf # NoBlock /\ F.got = NoBlock
    <3>1. A = IF fresh THEN Tearing(G) ELSE G
      BY <1>1, <1>8, <2>4
    <3>. QED
      BY <1>6, <1>8, <2>1, <2>4, <3>1
  <2>. QED
    BY <2>2, <2>3, <2>4
<1>. QED
  BY <1>7, <1>8

LEMMA ServeDouble ==
    ASSUME NEW ino \in Inos, NEW f \in Files, NEW S \in State, Good(ino, f, S),
           NEW k \in Data, Beyond(k) >= 0, Datum(S.in, S.ptr, k) = NoBlock,
           NEW A, A = AllocateDouble(S, k)
    PROVE  Served(ino, f, S, A, k) \/ Torn(ino, f, S, A)
<1>. DEFINE fresh == S.in.i_dindirect = NoBlock
            T == testfs_alloc_block_for_inode(S)
            B == IF fresh THEN Doubled(T) ELSE S
            V == Pointing(Last(B, k), Leaf(B, k), LayerThreePointer(k), Last(B, k).got)
            D == LayerThree(B, k)
            G == Back(B, k)
<1>1. /\ B.in.i_dindirect = NoBlock => A = B
      /\ B.in.i_dindirect # NoBlock =>
            /\ Leaf(B, k) = NoBlock => A = D
            /\ Leaf(B, k) # NoBlock /\ Last(B, k).got # NoBlock => A = V
            /\ Leaf(B, k) # NoBlock /\ Last(B, k).got = NoBlock =>
                  A = IF fresh THEN Tearing(G) ELSE G
  <2>1. B = IF S.in.i_dindirect = NoBlock THEN Doubled(testfs_alloc_block_for_inode(S)) ELSE S
    OBVIOUS
  <2>. HIDE DEF B
  <2>. QED
    BY <2>1, DoubleIs
<1>2. ASSUME B \in State, Good(ino, f, B), Datum(B.in, B.ptr, k) = NoBlock, B.in.i_dindirect # NoBlock
      PROVE  /\ Leaf(B, k) = NoBlock => Served(ino, f, B, D, k)
             /\ Leaf(B, k) # NoBlock /\ Last(B, k).got # NoBlock => Served(ino, f, B, V, k)
             /\ Leaf(B, k) # NoBlock /\ Last(B, k).got = NoBlock => Restored(B, G)
  <2>. HIDE DEF B
  <2>. QED
    BY <1>2, ServeThree, Zenon
<1>3. OwnOf(ino, f, S)[f][<<"data", k>>] = NoBlock
  BY OwnParts
<1>4. CASE ~fresh
  <2>1. B = S
    BY <1>4
  <2>. HIDE DEF B, V, D, G
  <2>2. /\ Leaf(B, k) = NoBlock => Served(ino, f, B, D, k)
        /\ Leaf(B, k) # NoBlock /\ Last(B, k).got # NoBlock => Served(ino, f, B, V, k)
        /\ Leaf(B, k) # NoBlock /\ Last(B, k).got = NoBlock => Restored(B, G)
    BY <1>2, <1>4, <2>1
  <2>3. Leaf(B, k) # NoBlock /\ Last(B, k).got = NoBlock => Served(ino, f, S, G, k)
    BY <1>3, <2>1, <2>2, ServedSame
  <2>. QED
    BY <1>1, <1>4, <2>1, <2>2, <2>3
<1>5. CASE fresh
  <2>1. B = Doubled(T) /\ T = testfs_alloc_block_for_inode(S)
    BY <1>5
  <2>. HIDE DEF T, B, V, D, G
  <2>2. /\ Grown(ino, f, S, B, <<"dindirect", 0>>)
        /\ B.in.i_dindirect = B.got /\ B.ptr = S.ptr
        /\ B.in.i_block_nr = S.in.i_block_nr /\ B.in.i_indirect = S.in.i_indirect
        /\ B.got = NoBlock => B.used = S.used /\ B.in.block_count = S.in.block_count
        /\ B.got # NoBlock => /\ B.got \in Blocks \ S.used /\ B.used = S.used \cup {B.got}
                              /\ B.in.block_count = S.in.block_count + 1
    BY <1>5, <2>1, GrowDouble
  <2>3. B \in State /\ Good(ino, f, B) /\ Keeps(S, B)
    BY <2>2 DEF Grown, Keeps
  <2>4. Datum(B.in, B.ptr, k) = NoBlock
    <3>1. <<"dindirect", 0>> # <<"data", k>>
      OBVIOUS
    <3>2. Linked(OwnOf(ino, f, S), f, <<"dindirect", 0>>, B.got, OwnOf(ino, f, B))
      BY <2>2 DEF Grown
    <3>. QED
      BY <2>3, <3>1, <3>2, DatumOwn
  <2>5. CASE B.got = NoBlock
    <3>1. A = B
      BY <1>1, <2>2, <2>5
    <3>2. Same(S.in, B.in)
      BY <1>5, <2>2, <2>5 DEF Same
    <3>3. Restored(S, B)
      BY <2>2, <2>3, <2>5, <3>2 DEF Restored, Keeps
    <3>. QED
      BY <1>3, <3>1, <3>3, ServedSame
  <2>6. CASE B.got # NoBlock
    <3>1. B.in.i_dindirect # NoBlock
      BY <2>2, <2>6
    <3>2. /\ Leaf(B, k) = NoBlock => Served(ino, f, B, D, k)
          /\ Leaf(B, k) # NoBlock /\ Last(B, k).got # NoBlock => Served(ino, f, B, V, k)
          /\ Leaf(B, k) # NoBlock /\ Last(B, k).got = NoBlock => Restored(B, G)
      BY <1>2, <2>3, <2>4, <3>1
    <3>3. CASE ~(Leaf(B, k) # NoBlock /\ Last(B, k).got = NoBlock)
      <4>1. Served(ino, f, B, A, k)
        BY <1>1, <3>1, <3>2, <3>3
      <4>. QED
        BY <2>2, <4>1, ServedAfter
    <3>4. CASE Leaf(B, k) # NoBlock /\ Last(B, k).got = NoBlock
      <4>1. A = Tearing(G) /\ Restored(B, G)
        BY <1>1, <1>5, <3>1, <3>2, <3>4
      <4>2. G \in State /\ G.got = NoBlock /\ G.in.block_count \in 1 .. MaxFsBlocks
        <5>1. B.in.block_count \in 0 .. MaxFsBlocks /\ B.in.block_count = S.in.block_count + 1
          BY <2>2, <2>3, <2>6, GoodCount
        <5>2. S.in.block_count \in 0 .. MaxFsBlocks
          BY GoodCount
        <5>3. G \in State /\ G.got = NoBlock /\ G.in.block_count = B.in.block_count
          BY <4>1 DEF Restored
        <5>4. B.in.block_count \in 1 .. MaxFsBlocks
          BY <5>1, <5>2, Sizes
        <5>. QED
          BY <5>3, <5>4
      <4>5. Good(ino, f, G) /\ G.in.i_dindirect # NoBlock
        <5>1. Same(B.in, G.in) /\ G.ptr = B.ptr /\ G.used = B.used /\ G.in.block_count = B.in.block_count
          BY <4>1 DEF Restored
        <5>2. Good(ino, f, G)
          BY <2>3, <4>2, <5>1, GoodSame
        <5>. QED
          BY <3>1, <5>1, <5>2 DEF Same
      <4>3. Torn(ino, f, G, A)
        BY <4>1, <4>2, <4>5, Tear
      <4>4. Torn(ino, f, S, A)
        BY <2>3, <4>1, <4>3 DEF Torn, Restored, Keeps
      <4>. QED
        BY <4>4
    <3>. QED
      BY <3>3, <3>4
  <2>. QED
    BY <2>5, <2>6
<1>. QED
  BY <1>4, <1>5

LEMMA ReadIs ==
    ASSUME NEW S, NEW k \in Data
    PROVE  testfs_read_block(S, k) = Datum(S.in, S.ptr, k)
<1>1. \A b, i : Follow(S, b, i) = Via(S.ptr, b, i)
  BY DEF Follow, Via
<1>2. CASE k \in Direct
  <2>1. ~(Beyond(k) >= 0)
    BY <1>2, Layers
  <2>. QED
    BY <1>2, <2>1 DEF testfs_read_block, Datum
<1>3. CASE k \notin Direct /\ Beyond(k) < 0
  <2>1. ~(Beyond(k) >= 0)
    BY <1>3, Layers, Sizes
  <2>. QED
    BY <1>1, <1>3, <2>1 DEF testfs_read_block, Datum
<1>4. CASE Beyond(k) >= 0
  <2>1. k \notin Direct /\ ~(Beyond(k) < 0)
    BY <1>4, Layers, Sizes
  <2>. QED
    BY <1>1, <1>4, <2>1 DEF testfs_read_block, Datum
<1>. QED
  BY <1>2, <1>3, <1>4, DatumIs

(* testfs_allocate_block finds the block, or gives it a place, or fails.   *)
LEMMA Serve ==
    ASSUME NEW ino \in Inos, NEW f \in Files, NEW S \in State, Good(ino, f, S), NEW k \in Data,
           NEW A, A = testfs_allocate_block(S, k)
    PROVE  /\ Served(ino, f, S, A, k) \/ Torn(ino, f, S, A)
           /\ Datum(S.in, S.ptr, k) \in {NoBlock, A.got}
<1>. DEFINE b == Datum(S.in, S.ptr, k)
<1>1. /\ b # NoBlock => A = [S EXCEPT !.got = b]
      /\ b = NoBlock /\ k \in Direct => A = AllocateDirect(S, k)
      /\ b = NoBlock /\ k \notin Direct /\ Beyond(k) < 0 => A = AllocateIndirect(S, k)
      /\ b = NoBlock /\ Beyond(k) >= 0 => A = AllocateDouble(S, k)
  <2>1. A = CASE b # NoBlock -> [S EXCEPT !.got = b]
              [] b = NoBlock /\ k \in Direct -> AllocateDirect(S, k)
              [] b = NoBlock /\ k \notin Direct /\ Beyond(k) < 0 -> AllocateIndirect(S, k)
              [] b = NoBlock /\ Beyond(k) >= 0 -> AllocateDouble(S, k)
    BY ReadIs, Zenon DEF testfs_allocate_block
  <2>2. Beyond(k) >= 0 => k \notin Direct /\ ~(Beyond(k) < 0)
    BY Layers, Sizes
  <2>. HIDE DEF b
  <2>. QED
    BY <2>1, <2>2
<1>2. CASE b # NoBlock
  <2>1. b \in Cells /\ OwnOf(ino, f, S)[f][<<"data", k>>] = b
    BY DatumType, StateFields, OwnParts
  <2>2. A = [S EXCEPT !.got = b]
    BY <1>1, <1>2
  <2>. HIDE DEF b
  <2>3. /\ A \in State /\ A.in = S.in /\ A.used = S.used /\ A.ptr = S.ptr /\ A.con = S.con
        /\ A.next = S.next /\ A.fate = S.fate /\ A.got = b
    BY <2>1, <2>2 DEF State
  <2>4. OwnOf(ino, f, A) = OwnOf(ino, f, S) /\ Good(ino, f, A)
    BY <2>3, OwnOfSame, GoodSame DEF Same
  <2>. QED
    BY <2>1, <2>3, <2>4 DEF Served, Elsewhere, b
<1>3. CASE b = NoBlock
  <2>1. k \in Direct => Served(ino, f, S, A, k)
    BY <1>1, <1>3, ServeDirect
  <2>2. k \notin Direct /\ Beyond(k) < 0 => Served(ino, f, S, A, k)
    BY <1>1, <1>3, ServeIndirect
  <2>3. Beyond(k) >= 0 => Served(ino, f, S, A, k) \/ Torn(ino, f, S, A)
    BY <1>1, <1>3, ServeDouble
  <2>. QED
    BY <1>3, <2>1, <2>2, <2>3, DatumIs
<1>. QED
  BY <1>2, <1>3

-----------------------------------------------------------------------------
(* A write: what holds when block k is dealt with.  wr are the blocks that *)
(* were written before, size is i_size and was where the blocks of the     *)
(* files stood then.                                                       *)

Wrote(wr, f, start, next) == [wr EXCEPT ![f] = @ \cup start .. (next - 1)]

Stage(ino, f, was, wr, start, size, T, k) ==
    /\ T \in State /\ T.next \in start .. (k + 1) /\ T.in.i_size = size
    /\ T.fate \in {"ok", "torn"}
    /\ T.fate = "torn" => /\ T.next <= k /\ T.in.block_count \in 0 .. MaxFsBlocks
                          /\ Tattered(OwnOf(ino, f, T), T.used, f)
    /\ T.fate = "ok" =>
          /\ Good(ino, f, T)
          /\ \A g \in Files \ {f} : \A sp \in Spots : OwnOf(ino, f, T)[g][sp] = was[g][sp]
          /\ Leafy(OwnOf(ino, f, T))
          /\ Holds(OwnOf(ino, f, T), T.con, Wrote(wr, f, start, T.next))

LEMMA WrittenBlocks ==
    ASSUME NEW wr \in [Files -> SUBSET Data], NEW f \in Files, NEW start \in Data, NEW k \in Data,
           start <= k
    PROVE  /\ \A g \in Files \ {f} : Wrote(wr, f, start, k + 1)[g] = wr[g] /\ Wrote(wr, f, start, k)[g] = wr[g]
           /\ Wrote(wr, f, start, k + 1)[f] = Wrote(wr, f, start, k)[f] \cup {k}
<1>1. start \in Nat /\ k \in Nat
  BY Layers
<1>2. start .. (k + 1 - 1) = (start .. (k - 1)) \cup {k}
  BY <1>1
<1>. QED
  BY <1>2 DEF Wrote

(* Block k found no place, or is there.                                    *)
LEMMA NotWritten ==
    ASSUME NEW ino \in Inos, NEW f \in Files, NEW T \in State, NEW k \in Data, NEW A, NEW w,
           Served(ino, f, T, A, k), A.got = NoBlock, Datum(T.in, T.ptr, k) = NoBlock,
           Good(ino, f, T), Leafy(OwnOf(ino, f, T)), Holds(OwnOf(ino, f, T), T.con, w)
    PROVE  Leafy(OwnOf(ino, f, A)) /\ Holds(OwnOf(ino, f, A), A.con, w)
<1>. DEFINE old == OwnOf(ino, f, T)
            new == OwnOf(ino, f, A)
<1>1. \A g \in Files : \A j \in Data : new[g][<<"data", j>>] = old[g][<<"data", j>>]
  <2>1. old[f][<<"data", k>>] = NoBlock
    BY OwnParts
  <2>. QED
    BY <2>1 DEF Served
<1>2. \A g \in Files : \A r \in Slots : new[g][<<"three", r>>] # NoBlock => old[g][<<"three", r>>] # NoBlock
  BY DEF Served
<1>3. \A g \in Files : \A j \in Data :
         old[g][<<"data", j>>] # NoBlock => A.con[old[g][<<"data", j>>]] = T.con[old[g][<<"data", j>>]]
  BY SpotsAre, InUse DEF Served
<1>. HIDE DEF old, new
<1>4. Leafy(new)
  <2>. SUFFICES ASSUME NEW g \in Files, NEW r \in Slots, new[g][<<"three", r>>] # NoBlock
                PROVE  \E j \in Data : Beyond(j) >= 0 /\ LayerThreeBlock(j) = r /\ new[g][<<"data", j>>] # NoBlock
    BY DEF Leafy
  <2>1. PICK j \in Data : Beyond(j) >= 0 /\ LayerThreeBlock(j) = r /\ old[g][<<"data", j>>] # NoBlock
    BY <1>2 DEF Leafy, old
  <2>2. new[g][<<"data", j>>] # NoBlock
    BY <1>1, <2>1
  <2>. QED
    BY <2>1, <2>2
<1>5. Holds(new, A.con, w)
  <2>. SUFFICES ASSUME NEW g \in Files, NEW j \in Data
                PROVE  /\ j \in w[g] => new[g][<<"data", j>>] # NoBlock /\ A.con[new[g][<<"data", j>>]] = <<g, j>>
                       /\ j \notin w[g] => new[g][<<"data", j>>] = NoBlock
    BY DEF Holds
  <2>. DEFINE b == old[g][<<"data", j>>]
  <2>1. new[g][<<"data", j>>] = b
    BY <1>1
  <2>2. /\ j \in w[g] => b # NoBlock /\ T.con[b] = <<g, j>>
        /\ j \notin w[g] => b = NoBlock
    BY DEF Holds, old
  <2>3. b # NoBlock => A.con[b] = T.con[b]
    BY <1>3
  <2>. HIDE DEF b
  <2>. QED
    BY <2>1, <2>2, <2>3
<1>. QED
  BY <1>4, <1>5 DEF new

(* Block k is written.                                                     *)
LEMMA WrittenNow ==
    ASSUME NEW ino \in Inos, NEW f \in Files, NEW T \in State, NEW k \in Data, NEW A,
           NEW w \in [Files -> SUBSET Data], NEW v \in [Files -> SUBSET Data],
           \A g \in Files \ {f} : v[g] = w[g], v[f] = w[f] \cup {k},
           Served(ino, f, T, A, k), A.got # NoBlock,
           Good(ino, f, T), Leafy(OwnOf(ino, f, T)), Holds(OwnOf(ino, f, T), T.con, w),
           NEW con, con = [A.con EXCEPT ![A.got] = <<f, k>>]
    PROVE  Leafy(OwnOf(ino, f, A)) /\ Holds(OwnOf(ino, f, A), con, v)
<1>. DEFINE old == OwnOf(ino, f, T)
            new == OwnOf(ino, f, A)
<1>1. A \in State /\ A.con \in [Blocks -> {Zeros} \cup (Files \X Data)] /\ A.got \in Blocks
      /\ Good(ino, f, A)
  BY StateFields DEF Served, Cells
<1>2. \A g \in Files : \A j \in Data :
         new[g][<<"data", j>>] = IF g = f /\ j = k THEN A.got ELSE old[g][<<"data", j>>]
  BY DEF Served
<1>3. \A g \in Files : \A r \in Slots :
         new[g][<<"three", r>>] # NoBlock =>
            old[g][<<"three", r>>] # NoBlock \/ (g = f /\ Beyond(k) >= 0 /\ r = LayerThreeBlock(k))
  BY DEF Served
<1>4. \A g \in Files : \A j \in Data :
         old[g][<<"data", j>>] # NoBlock => A.con[old[g][<<"data", j>>]] = T.con[old[g][<<"data", j>>]]
  BY SpotsAre, InUse DEF Served
<1>5. \A g \in Files : \A j \in Data :
         new[g][<<"data", j>>] = A.got => g = f /\ j = k
  <2>. TAKE g \in Files
  <2>. TAKE j \in Data
  <2>. HAVE new[g][<<"data", j>>] = A.got
  <2>1. new[f][<<"data", k>>] = A.got
    BY <1>2
  <2>2. \A h, i \in Files : \A sp, sq \in Spots :
           new[h][sp] = new[i][sq] /\ new[h][sp] # NoBlock => h = i /\ sp = sq
    BY <1>1 DEF Good, Fits
  <2>3. g = f /\ <<"data", j>> = <<"data", k>>
    BY <2>1, <2>2, SpotsAre
  <2>. QED
    BY <2>3
<1>. HIDE DEF old, new
<1>6. Leafy(new)
  <2>. SUFFICES ASSUME NEW g \in Files, NEW r \in Slots, new[g][<<"three", r>>] # NoBlock
                PROVE  \E j \in Data : Beyond(j) >= 0 /\ LayerThreeBlock(j) = r /\ new[g][<<"data", j>>] # NoBlock
    BY DEF Leafy
  <2>1. CASE old[g][<<"three", r>>] # NoBlock
    <3>1. PICK j \in Data : Beyond(j) >= 0 /\ LayerThreeBlock(j) = r /\ old[g][<<"data", j>>] # NoBlock
      BY <2>1 DEF Leafy, old
    <3>2. new[g][<<"data", j>>] # NoBlock
      BY <1>2, <3>1
    <3>. QED
      BY <3>1, <3>2
  <2>2. CASE g = f /\ Beyond(k) >= 0 /\ r = LayerThreeBlock(k)
    <3>1. new[g][<<"data", k>>] # NoBlock
      BY <1>2, <2>2
    <3>. QED
      BY <2>2, <3>1
  <2>. QED
    BY <1>3, <2>1, <2>2
<1>7. Holds(new, con, v)
  <2>. SUFFICES ASSUME NEW g \in Files, NEW j \in Data
                PROVE  /\ j \in v[g] => new[g][<<"data", j>>] # NoBlock /\ con[new[g][<<"data", j>>]] = <<g, j>>
                       /\ j \notin v[g] => new[g][<<"data", j>>] = NoBlock
    BY DEF Holds
  <2>1. CASE g = f /\ j = k
    <3>1. new[g][<<"data", j>>] = A.got /\ con[A.got] = <<f, k>> /\ j \in v[g]
      BY <1>1, <1>2, <2>1
    <3>. QED
      BY <2>1, <3>1
  <2>2. CASE ~(g = f /\ j = k)
    <3>. DEFINE b == old[g][<<"data", j>>]
    <3>1. new[g][<<"data", j>>] = b /\ b # A.got
      BY <1>2, <1>5, <2>2
    <3>2. j \in v[g] <=> j \in w[g]
      BY <2>2
    <3>3. /\ j \in w[g] => b # NoBlock /\ T.con[b] = <<g, j>>
          /\ j \notin w[g] => b = NoBlock
      BY DEF Holds, old
    <3>4. b # NoBlock => A.con[b] = T.con[b]
      BY <1>4
    <3>5. con[b] = A.con[b]
      BY <1>1, <3>1
    <3>. HIDE DEF b
    <3>. QED
      BY <3>1, <3>2, <3>3, <3>4, <3>5
  <2>. QED
    BY <2>1, <2>2
<1>. QED
  BY <1>6, <1>7 DEF new

LEMMA WroteType ==
    ASSUME NEW wr \in [Files -> SUBSET Data], NEW f \in Files, NEW start \in Data, NEW n \in Int,
           n <= MAX_FILE_SIZE
    PROVE  Wrote(wr, f, start, n) \in [Files -> SUBSET Data]
<1>1. start .. (n - 1) \subseteq Data
  BY Layers, Sizes DEF Data
<1>. QED
  BY <1>1 DEF Wrote

LEMMA OneBlock ==
    ASSUME NEW ino \in Inos, NEW f \in Files, NEW was, NEW wr \in [Files -> SUBSET Data],
           NEW start \in Data, NEW size, NEW k \in Data, start <= k,
           NEW T, Stage(ino, f, was, wr, start, size, T, k - 1), NEW R, R = WriteBlock(f, T, k)
    PROVE  Stage(ino, f, was, wr, start, size, R, k)
<1>. DEFINE A == testfs_allocate_block(T, k)
<1>1. /\ T.next # k => R = T
      /\ T.next = k /\ A.got = NoBlock => R = A
      /\ T.next = k /\ A.got # NoBlock => R = [A EXCEPT !.con[A.got] = <<f, k>>, !.next = k + 1]
  <2>1. R = CASE T.next # k -> T
              [] T.next = k /\ A.got = NoBlock -> A
              [] T.next = k /\ A.got # NoBlock -> [A EXCEPT !.con[A.got] = <<f, k>>, !.next = k + 1]
    BY Zenon DEF WriteBlock
  <2>. HIDE DEF A
  <2>. QED
    BY <2>1
<1>2. start \in Nat /\ k \in Nat /\ T \in State /\ T.next \in Int /\ T.next \in start .. k
  BY Layers, StateFields DEF Stage
<1>3. CASE T.next # k
  <2>1. R = T
    BY <1>1, <1>3
  <2>2. T.next \in start .. (k + 1) /\ T.next <= k
    BY <1>2
  <2>. QED
    BY <2>1, <2>2 DEF Stage
<1>4. CASE T.next = k
  <2>1. T.fate = "ok"
    BY <1>2, <1>4 DEF Stage
  <2>2. /\ Good(ino, f, T) /\ Leafy(OwnOf(ino, f, T))
        /\ Holds(OwnOf(ino, f, T), T.con, Wrote(wr, f, start, k)) /\ T.in.i_size = size
    BY <1>4, <2>1 DEF Stage
  <2>3. /\ Served(ino, f, T, A, k) \/ Torn(ino, f, T, A)
        /\ Datum(T.in, T.ptr, k) \in {NoBlock, A.got}
    BY <1>2, <2>2, Serve
  <2>. HIDE DEF A
  <2>7. \A g \in Files \ {f} : \A sp \in Spots : OwnOf(ino, f, T)[g][sp] = was[g][sp]
    BY <2>1 DEF Stage
  <2>4. CASE Torn(ino, f, T, A)
    <3>1. R = A /\ R.next = k /\ R.next \in start .. (k + 1)
      BY <1>1, <1>2, <1>4, <2>4 DEF Torn
    <3>. QED
      BY <1>2, <2>2, <2>4, <3>1 DEF Stage, Torn
  <2>5. CASE Served(ino, f, T, A, k) /\ A.got = NoBlock
    <3>1. R = A /\ R.next = k /\ R.next \in start .. (k + 1)
      BY <1>1, <1>2, <1>4, <2>5 DEF Served
    <3>2. Datum(T.in, T.ptr, k) = NoBlock
      BY <2>3, <2>5
    <3>3. Leafy(OwnOf(ino, f, A)) /\ Holds(OwnOf(ino, f, A), A.con, Wrote(wr, f, start, k))
      BY <1>2, <2>2, <2>5, <3>2, NotWritten
    <3>4. A \in State /\ A.in.i_size = size /\ A.fate = "ok" /\ Good(ino, f, A)
      BY <2>1, <2>2, <2>5 DEF Served
    <3>5. \A g \in Files \ {f} : \A sp \in Spots : OwnOf(ino, f, A)[g][sp] = was[g][sp]
      BY <2>5, <2>7 DEF Served, Elsewhere
    <3>. QED
      BY <1>2, <3>1, <3>3, <3>4, <3>5 DEF Stage
  <2>6. CASE Served(ino, f, T, A, k) /\ A.got # NoBlock
    <3>. DEFINE con == [A.con EXCEPT ![A.got] = <<f, k>>]
                w == Wrote(wr, f, start, k)
                v == Wrote(wr, f, start, k + 1)
    <3>1. R = [A EXCEPT !.con = con, !.next = k + 1]
      BY <1>1, <1>4, <2>6, Zenon
    <3>2. A \in State /\ A.in.i_size = size /\ A.fate = "ok" /\ Good(ino, f, A) /\ A.got \in Blocks
      BY <2>1, <2>2, <2>6, StateFields DEF Served, Cells
    <3>3. con \in [Blocks -> {Zeros} \cup (Files \X Data)]
      BY <3>2, StateFields
    <3>13. con = [A.con EXCEPT ![A.got] = <<f, k>>]
      OBVIOUS
    <3>4. w \in [Files -> SUBSET Data] /\ v \in [Files -> SUBSET Data]
      <4>1. k + 1 \in Int /\ k + 1 <= MAX_FILE_SIZE /\ k <= MAX_FILE_SIZE /\ k \in Int
        BY Sizes DEF Data
      <4>. QED
        BY <4>1, WroteType
    <3>5. (\A g \in Files \ {f} : v[g] = w[g]) /\ v[f] = w[f] \cup {k}
      BY WrittenBlocks
    <3>6. Holds(OwnOf(ino, f, T), T.con, w)
      BY <2>2
    <3>. HIDE DEF con, w, v
    <3>7. Leafy(OwnOf(ino, f, A)) /\ Holds(OwnOf(ino, f, A), con, v)
      BY <1>2, <2>2, <2>6, <3>13, <3>4, <3>5, <3>6, WrittenNow
    <3>8. /\ R.in = A.in /\ R.used = A.used /\ R.ptr = A.ptr /\ R.fate = A.fate
          /\ R.con = con /\ R.next = k + 1
      BY <3>1, <3>2 DEF State
    <3>9. R \in State
      <4>1. R = [in |-> A.in, used |-> A.used, ptr |-> A.ptr, con |-> con, got |-> A.got,
                 next |-> k + 1, total |-> A.total, fate |-> A.fate]
        BY <3>1, <3>2 DEF State
      <4>2. k + 1 \in Int
        BY <1>2
      <4>3. A.in \in InodeState /\ A.used \in SUBSET Blocks /\ A.ptr \in Device /\ A.got \in Cells
            /\ A.total \in Int /\ A.fate \in Fates
        BY <3>2, StateFields
      <4>. HIDE <3>1
      <4>. QED
        BY <3>3, <4>1, <4>2, <4>3 DEF State
    <3>10. OwnOf(ino, f, R) = OwnOf(ino, f, A) /\ Good(ino, f, R)
      BY <3>2, <3>8, <3>9, OwnOfSame, GoodSame DEF Same
    <3>11. R.next \in start .. (k + 1)
      BY <1>2, <3>8
    <3>12. Holds(OwnOf(ino, f, R), R.con, Wrote(wr, f, start, R.next))
      BY <3>7, <3>8, <3>10 DEF v
    <3>14. \A g \in Files \ {f} : \A sp \in Spots : OwnOf(ino, f, R)[g][sp] = was[g][sp]
      BY <2>6, <2>7, <3>10 DEF Served, Elsewhere
    <3>. QED
      BY <3>2, <3>7, <3>8, <3>9, <3>10, <3>11, <3>12, <3>14 DEF Stage
  <2>. QED
    BY <2>3, <2>4, <2>5, <2>6
<1>. QED
  BY <1>3, <1>4

(* The function that For takes the last value of, for a body that keeps Q. *)
Turns(St, first, last, Q, body) ==
    \A k \in first .. last : \A T \in St :
       <<T, k - 1>> \in Q => body[<<T, k>>] \in St /\ <<body[<<T, k>>], k>> \in Q

LEMMA Loop ==
    ASSUME NEW St, NEW first \in Int, NEW last \in Int, NEW S \in St, NEW Q,
           <<S, first - 1>> \in Q, NEW body, Turns(St, first, last, Q, body)
    PROVE  \E g : /\ g = Rounds(body, S, first, last, g)
                  /\ \A k \in first .. last : g[k - 1] \in St /\ <<g[k - 1], k - 1>> \in Q
<1>. DEFINE kept == [p \in St \X (first .. last) |->
                       IF <<p[1], p[2] - 1>> \in Q THEN body[p] ELSE p[1]]
<1>1. \A T \in St : \A k \in first .. last :
         kept[<<T, k>>] = IF <<T, k - 1>> \in Q THEN body[<<T, k>>] ELSE T
  OBVIOUS
<1>2. IsBody(St, first, last, kept)
  <2>1. \A T \in St : \A k \in first .. last : kept[<<T, k>>] \in St
    BY <1>1 DEF Turns
  <2>2. \A p \in St \X (first .. last) : kept[p] \in St
    <3>. HIDE DEF kept
    <3>. TAKE p \in St \X (first .. last)
    <3>1. PICK T \in St, k \in first .. last : p = <<T, k>>
      OBVIOUS
    <3>. QED
      BY <2>1, <3>1
  <2>. QED
    BY <2>2 DEF IsBody
<1>. HIDE DEF kept
<1>3. PICK g \in [(first - 1) .. last -> St] : g = Rounds(kept, S, first, last, g)
  BY <1>2, RoundsExist
<1>4. \A k \in (first - 1) .. last : g[k] = IF k < first THEN S ELSE kept[<<g[k - 1], k>>]
  <2>1. \A k \in (first - 1) .. last : Rounds(kept, S, first, last, g)[k] =
           IF k < first THEN S ELSE kept[<<g[k - 1], k>>]
    BY DEF Rounds
  <2>. QED
    BY <1>3, <2>1
<1>5. \A k \in first .. last : g[k - 1] \in St
  <2>. TAKE k \in first .. last
  <2>. DEFINE l == k - 1
  <2>1. l \in (first - 1) .. last
    OBVIOUS
  <2>. HIDE DEF l
  <2>2. g[l] \in St
    BY <1>3, <2>1
  <2>. QED
    BY <2>2 DEF l
<1>6. ASSUME NEW m \in first .. last
      PROVE  <<g[m - 1], m - 1>> \in Q
  <2>1. CASE m = first
    <3>1. first - 1 \in (first - 1) .. last /\ first - 1 < first
      BY <2>1
    <3>2. g[first - 1] = S
      BY <1>4, <3>1
    <3>. QED
      BY <2>1, <3>2
  <2>2. CASE m # first
    <3>. DEFINE l == m - 1
    <3>1. l \in Int /\ first <= l /\ l <= last /\ g[first - 1] = S
      <4>1. first - 1 \in (first - 1) .. last /\ first - 1 < first
        BY <2>2
      <4>2. g[first - 1] = S
        BY <1>4, <4>1
      <4>. QED
        BY <2>2, <4>2
    <3>2. \A k \in first .. l : <<g[k - 1], k - 1>> \in Q => <<g[k], k>> \in Q
      <4>. TAKE k \in first .. l
      <4>. HAVE <<g[k - 1], k - 1>> \in Q
      <4>1. k \in first .. last /\ g[k - 1] \in St /\ g[k] = kept[<<g[k - 1], k>>]
        BY <1>4, <1>5, <3>1
      <4>2. g[k] = body[<<g[k - 1], k>>]
        BY <1>1, <4>1
      <4>. QED
        BY <4>1, <4>2 DEF Turns
    <3>. HIDE DEF l
    <3>3. <<g[first - 1], first - 1>> \in Q
      BY <3>1
    <3>4. <<g[l], l>> \in Q
      BY <3>1, <3>2, <3>3, RoundsKeep
    <3>. QED
      BY <3>4 DEF l
  <2>. QED
    BY <2>1, <2>2
<1>7. g = Rounds(body, S, first, last, g)
  <2>1. \A k \in (first - 1) .. last : g[k] = IF k < first THEN S ELSE body[<<g[k - 1], k>>]
    <3>. TAKE k \in (first - 1) .. last
    <3>1. CASE k < first
      BY <1>4, <3>1
    <3>2. CASE ~(k < first)
      <4>1. k \in first .. last
        BY <3>2
      <4>2. g[k] = kept[<<g[k - 1], k>>]
        BY <1>4, <3>2
      <4>. QED
        BY <1>1, <1>5, <1>6, <3>2, <4>1, <4>2
    <3>. QED
      BY <3>1, <3>2
  <2>2. g = [k \in (first - 1) .. last |-> g[k]]
    BY <1>3
  <2>. QED
    BY <2>1, <2>2 DEF Rounds
<1>. QED
  BY <1>5, <1>6, <1>7

WriteRun(f, S, start, last) == For(LAMBDA T, k : WriteBlock(f, T, k), S, start, last)

LEMMA WriteLoop ==
    ASSUME NEW ino \in Inos, NEW f \in Files, NEW was, NEW wr \in [Files -> SUBSET Data],
           NEW start \in Data, NEW size, NEW last \in Data, start <= last,
           NEW S, Stage(ino, f, was, wr, start, size, S, start - 1),
           NEW R, R = WriteRun(f, S, start, last)
    PROVE  Stage(ino, f, was, wr, start, size, R, last)
<1>. DEFINE Q == {p \in State \X Int : Stage(ino, f, was, wr, start, size, p[1], p[2])}
            body == [p \in State \X (start .. last) |-> WriteBlock(f, p[1], p[2])]
            after == CHOOSE g : g = [k \in (start - 1) .. last |->
                                       IF k < start THEN S ELSE WriteBlock(f, g[k - 1], k)]
<1>1. R = IF last < start THEN S ELSE after[last]
  BY Zenon DEF For, WriteRun
<1>2. start \in Nat /\ last \in Nat /\ last < MAX_FILE_SIZE
  BY Layers, Sizes DEF Data
<1>3. \A T, k : <<T, k>> \in Q <=> T \in State /\ k \in Int /\ Stage(ino, f, was, wr, start, size, T, k)
  OBVIOUS
<1>4. \A T \in State : \A k \in start .. last : body[<<T, k>>] = WriteBlock(f, T, k)
  OBVIOUS
<1>. HIDE DEF Q, body
<1>5. ASSUME NEW k \in start .. last, NEW T, <<T, k - 1>> \in Q
      PROVE  WriteBlock(f, T, k) \in State /\ <<WriteBlock(f, T, k), k>> \in Q
  <2>1. k \in Data /\ k \in Int
    BY <1>2, Sizes DEF Data
  <2>2. Stage(ino, f, was, wr, start, size, T, k - 1)
    BY <1>3, <1>5
  <2>. DEFINE U == WriteBlock(f, T, k)
  <2>3. U = WriteBlock(f, T, k)
    OBVIOUS
  <2>. HIDE DEF U
  <2>4. Stage(ino, f, was, wr, start, size, U, k)
    BY <1>2, <2>1, <2>2, <2>3, OneBlock
  <2>5. U \in State
    BY <2>4 DEF Stage
  <2>. QED
    BY <1>3, <2>1, <2>3, <2>4, <2>5
<1>6. Turns(State, start, last, Q, body)
  <2>. SUFFICES ASSUME NEW k \in start .. last, NEW T \in State, <<T, k - 1>> \in Q
                PROVE  body[<<T, k>>] \in State /\ <<body[<<T, k>>], k>> \in Q
    BY DEF Turns
  <2>. QED
    BY <1>4, <1>5
<1>7. S \in State /\ <<S, start - 1>> \in Q
  <2>1. S \in State
    BY DEF Stage
  <2>. QED
    BY <1>2, <1>3, <2>1
<1>15. start \in Int /\ last \in Int
  BY <1>2
<1>8. PICK g : /\ g = Rounds(body, S, start, last, g)
               /\ \A k \in start .. last : g[k - 1] \in State /\ <<g[k - 1], k - 1>> \in Q
  BY <1>6, <1>7, <1>15, Loop
<1>9. g = [k \in (start - 1) .. last |-> IF k < start THEN S ELSE WriteBlock(f, g[k - 1], k)]
  <2>1. \A k \in (start - 1) .. last : ~(k < start) => body[<<g[k - 1], k>>] = WriteBlock(f, g[k - 1], k)
    <3>. TAKE k \in (start - 1) .. last
    <3>. HAVE ~(k < start)
    <3>1. k \in start .. last
      BY <1>2
    <3>. QED
      BY <1>4, <1>8, <3>1
  <2>2. Rounds(body, S, start, last, g) =
           [k \in (start - 1) .. last |-> IF k < start THEN S ELSE body[<<g[k - 1], k>>]]
    BY DEF Rounds
  <2>3. [k \in (start - 1) .. last |-> IF k < start THEN S ELSE body[<<g[k - 1], k>>]]
        = [k \in (start - 1) .. last |-> IF k < start THEN S ELSE WriteBlock(f, g[k - 1], k)]
    BY <2>1
  <2>. QED
    BY <1>8, <2>2, <2>3
<1>10. after = [k \in (start - 1) .. last |-> IF k < start THEN S ELSE WriteBlock(f, after[k - 1], k)]
  BY <1>9, Zenon
<1>. HIDE DEF after
<1>11. /\ after[start - 1] = S
       /\ \A k \in start .. last : after[k] = WriteBlock(f, after[k - 1], k)
  <2>1. \A k \in (start - 1) .. last : after[k] = IF k < start THEN S ELSE WriteBlock(f, after[k - 1], k)
    <3>. DEFINE h == [k \in (start - 1) .. last |-> IF k < start THEN S ELSE WriteBlock(f, after[k - 1], k)]
    <3>1. \A k \in (start - 1) .. last : h[k] = IF k < start THEN S ELSE WriteBlock(f, after[k - 1], k)
      OBVIOUS
    <3>2. after = h
      BY <1>10
    <3>. HIDE DEF h
    <3>. QED
      BY <3>1, <3>2
  <2>2. start - 1 \in (start - 1) .. last /\ start - 1 < start
    BY <1>2
  <2>3. \A k \in start .. last : k \in (start - 1) .. last /\ ~(k < start)
    BY <1>2
  <2>. QED
    BY <2>1, <2>2, <2>3
<1>12. \A k \in start .. last : <<after[k - 1], k - 1>> \in Q => <<after[k], k>> \in Q
  BY <1>5, <1>11
<1>13. <<after[last], last>> \in Q
  <2>1. <<after[start - 1], start - 1>> \in Q
    BY <1>7, <1>11
  <2>. QED
    BY <1>2, <1>12, <2>1, RoundsKeep
<1>14. Stage(ino, f, was, wr, start, size, after[last], last)
  BY <1>3, <1>13
<1>. QED
  BY <1>1, <1>2, <1>14

LEMMA TypeIs ==
    ASSUME TypeOK
    PROVE  /\ inode \in Inos /\ block_freemap \in SUBSET Blocks /\ pointers \in Device
           /\ contents \in [Blocks -> {Zeros} \cup (Files \X Data)] /\ fate \in Fates
           /\ written \in [Files -> SUBSET Data]
           /\ \A g \in Files : inode[g].block_count \in 0 .. MaxFsBlocks /\ inode[g].i_size \in 0 .. MAX_FILE_SIZE
<1>1. \A in : in \in [i_block_nr : [Direct -> Cells], i_indirect : Cells, i_dindirect : Cells,
                      block_count : 0 .. MaxFsBlocks, i_size : 0 .. MAX_FILE_SIZE]
              => /\ in \in InodeState
                 /\ in.block_count \in 0 .. MaxFsBlocks /\ in.i_size \in 0 .. MAX_FILE_SIZE
  BY DEF InodeState
<1>2. inode \in [Files -> [i_block_nr : [Direct -> Cells], i_indirect : Cells, i_dindirect : Cells,
                      block_count : 0 .. MaxFsBlocks, i_size : 0 .. MAX_FILE_SIZE]]
  BY DEF TypeOK, Cells
<1>3. inode \in Inos /\ \A g \in Files : inode[g].block_count \in 0 .. MaxFsBlocks /\ inode[g].i_size \in 0 .. MAX_FILE_SIZE
  BY <1>1, <1>2 DEF Inos
<1>. QED
  BY <1>3 DEF TypeOK, Cells, Device, Data, Fates

(* What a command begins with.                                             *)
LEMMA LoadIs ==
    ASSUME TypeOK, NEW f \in Files, NEW k \in Int, NEW L, L = Load(f, k)
    PROVE  /\ L \in State /\ L.in = inode[f] /\ L.used = block_freemap /\ L.ptr = pointers
           /\ L.con = contents /\ L.got = NoBlock /\ L.next = k /\ L.total = 0 /\ L.fate = fate
           /\ With(inode, f, L) = inode /\ OwnOf(inode, f, L) = Own(inode, pointers)
<1>1. L = [in |-> inode[f], used |-> block_freemap, ptr |-> pointers, con |-> contents,
           got |-> NoBlock, next |-> k, total |-> 0, fate |-> fate]
  BY DEF Load
<1>2. /\ inode \in Inos /\ block_freemap \in SUBSET Blocks /\ pointers \in Device
      /\ contents \in [Blocks -> {Zeros} \cup (Files \X Data)] /\ fate \in Fates
  BY TypeIs
<1>3. L \in State
  <2>1. inode[f] \in InodeState
    BY <1>2 DEF Inos
  <2>. QED
    BY <1>1, <1>2, <2>1 DEF State, Cells
<1>4. With(inode, f, L) = inode
  <2>1. L.in = inode[f]
    BY <1>1
  <2>. QED
    BY <1>2, <2>1 DEF With, Inos
<1>. QED
  BY <1>1, <1>3, <1>4 DEF OwnOf

LEMMA LastIs ==
    ASSUME NEW start \in Data, NEW n \in 1 .. MaxLength, NEW last,
           last = Min({start + n, MAX_FILE_SIZE}) - 1
    PROVE  last \in Data /\ start <= last /\ last + 1 <= start + n /\ last + 1 <= MAX_FILE_SIZE
<1>1. start \in Nat /\ start < MAX_FILE_SIZE /\ MAX_FILE_SIZE \in Nat /\ n \in Int /\ n >= 1
  BY Layers, Sizes DEF Data
<1>. DEFINE a == start + n
            b == MAX_FILE_SIZE
<1>2. a \in Int /\ b \in Int /\ last = Min({a, b}) - 1
  BY <1>1
<1>3. Min({a, b}) = IF a <= b THEN a ELSE b
  BY <1>2, LeastOfTwo
<1>. HIDE DEF b
<1>4. last = (IF a <= b THEN a ELSE b) - 1
  BY <1>2, <1>3
<1>5. b \in Nat /\ start < b
  BY <1>1 DEF b
<1>6. last \in Int /\ 0 <= last /\ last <= b - 1 /\ start <= last /\ last + 1 <= start + n /\ last + 1 <= b
  BY <1>1, <1>4, <1>5
<1>. QED
  BY <1>6 DEF Data, b

LEMMA AfterWrite ==
    ASSUME IInv, fate = "ok", NEW f \in Files, NEW start \in Data, NEW n \in 1 .. MaxLength,
           NEW last, last = Min({start + n, MAX_FILE_SIZE}) - 1,
           NEW S, S = WriteRun(f, Load(f, start), start, last)
    PROVE  Stage(inode, f, Own(inode, pointers), written, start, inode[f].i_size, S, last)
<1>. DEFINE L == Load(f, start)
<1>1. L = Load(f, start) /\ S = WriteRun(f, L, start, last)
  OBVIOUS
<1>. HIDE DEF L
<1>2. last \in Data /\ start <= last
  BY LastIs
<1>3. TypeOK
  BY DEF IInv
<1>4. start \in Int
  BY Layers
<1>5. /\ L \in State /\ L.in = inode[f] /\ L.used = block_freemap /\ L.ptr = pointers
      /\ L.con = contents /\ L.got = NoBlock /\ L.next = start /\ L.total = 0 /\ L.fate = fate
      /\ With(inode, f, L) = inode /\ OwnOf(inode, f, L) = Own(inode, pointers)
  BY <1>1, <1>3, <1>4, LoadIs
<1>6. inode \in Inos /\ written \in [Files -> SUBSET Data]
  BY <1>3, TypeIs
<1>7. Wrote(written, f, start, L.next) = written
  <2>1. start .. (L.next - 1) = {}
    BY <1>4, <1>5
  <2>. QED
    BY <1>6, <2>1 DEF Wrote
<1>8. /\ Fits(Own(inode, pointers), block_freemap)
      /\ Clean(block_freemap, pointers)
      /\ Leafy(Own(inode, pointers))
      /\ Holds(Own(inode, pointers), contents, written)
      /\ inode[f].block_count = Cardinality(Filled(Own(inode, pointers)[f]))
  BY DEF IInv
<1>9. Good(inode, f, L)
  BY <1>5, <1>8 DEF Good
<1>10. L.next \in start .. (start - 1 + 1)
  BY <1>4, <1>5
<1>11. Stage(inode, f, Own(inode, pointers), written, start, inode[f].i_size, L, start - 1)
  BY <1>5, <1>7, <1>8, <1>9, <1>10 DEF Stage
<1>. QED
  BY <1>1, <1>2, <1>6, <1>11, WriteLoop

LEMMA SizeIs ==
    ASSUME NEW size \in 0 .. MAX_FILE_SIZE, NEW start \in Data, NEW n \in 1 .. MaxLength,
           NEW next \in Int, start <= next, next <= start + n, next <= MAX_FILE_SIZE
    PROVE  /\ SizeAfter(size, start, n, next) \in 0 .. MAX_FILE_SIZE
           /\ SizeAfter(size, start, n, next) >= size
           /\ SizeAfter(size, start, n, next) >= next \/ next = start
<1>. DEFINE b == MAX_FILE_SIZE
            r == SizeAfter(size, start, n, next)
            m == Max({size, next})
<1>1. start \in Nat /\ b \in Nat /\ n \in Int /\ n >= 1 /\ size \in 0 .. b /\ next <= b
  BY Layers, Sizes
<1>2. m = IF size >= next THEN size ELSE next
  BY <1>1, MostOfTwo
<1>3. /\ next = start + n => r = m
      /\ next # start + n /\ next = start /\ n > 1 => r = size
      /\ next # start + n /\ ~(next = start /\ n > 1) => r = b
  <2>1. r = CASE next = start + n -> m
              [] next # start + n /\ next = start /\ n > 1 -> size
              [] next # start + n /\ ~(next = start /\ n > 1) -> b
    BY Zenon DEF SizeAfter
  <2>. HIDE DEF r, m, b
  <2>. QED
    BY <2>1
<1>. HIDE DEF m, r, b
<1>4. r \in 0 .. b /\ r >= size /\ (r >= next \/ next = start)
  BY <1>1, <1>2, <1>3
<1>. QED
  BY <1>4 DEF r, b

(* The inode table after a write: S is what the loop left, R has the size. *)
LEMMA StoredType ==
    ASSUME TypeOK, NEW f \in Files, NEW R \in State, R.in.block_count \in 0 .. MaxFsBlocks,
           R.in.i_size \in 0 .. MAX_FILE_SIZE
    PROVE  [inode EXCEPT ![f] = R.in] \in [Files ->
             [i_block_nr : [Direct -> Blocks \cup {NoBlock}], i_indirect : Blocks \cup {NoBlock},
              i_dindirect : Blocks \cup {NoBlock}, block_count : 0 .. MaxFsBlocks,
              i_size : 0 .. MAX_FILE_SIZE]]
<1>. DEFINE I == [i_block_nr : [Direct -> Blocks \cup {NoBlock}], i_indirect : Blocks \cup {NoBlock},
                  i_dindirect : Blocks \cup {NoBlock}, block_count : 0 .. MaxFsBlocks,
                  i_size : 0 .. MAX_FILE_SIZE]
<1>1. R.in \in I
  <2>1. R.in \in InodeState
    BY StateFields
  <2>. QED
    BY <2>1 DEF InodeState, Cells
<1>2. inode \in [Files -> I]
  BY DEF TypeOK
<1>. HIDE DEF I
<1>3. [inode EXCEPT ![f] = R.in] \in [Files -> I]
  BY <1>1, <1>2
<1>. QED
  BY <1>3 DEF I

LEMMA WriteKeeps ==
    ASSUME IInv, NEW f \in Files, NEW start \in Data, NEW n \in 1 .. MaxLength,
           testfs_write_data(f, start, n)
    PROVE  IInv'
<1>. DEFINE last == Min({start + n, MAX_FILE_SIZE}) - 1
            S == WriteRun(f, Load(f, start), start, last)
            size == SizeAfter(S.in.i_size, start, n, S.next)
            beyond == S.next = MAX_FILE_SIZE /\ S.next < start + n - 1
            R == [S EXCEPT !.in.i_size = size, !.fate = IF beyond THEN "wild" ELSE @]
<1>1. /\ fate = "ok"
      /\ inode' = [inode EXCEPT ![f] = R.in] /\ block_freemap' = R.used /\ pointers' = R.ptr
      /\ contents' = R.con /\ fate' = R.fate
      /\ written' = [written EXCEPT ![f] = @ \cup start .. (S.next - 1)]
  BY Zenon DEF testfs_write_data, Store, WriteRun
<1>2. last \in Data /\ start <= last /\ last + 1 <= start + n /\ last + 1 <= MAX_FILE_SIZE
  <2>1. last = Min({start + n, MAX_FILE_SIZE}) - 1
    OBVIOUS
  <2>. HIDE DEF last
  <2>. QED
    BY <2>1, LastIs
<1>3. Stage(inode, f, Own(inode, pointers), written, start, inode[f].i_size, S, last)
  <2>1. last = Min({start + n, MAX_FILE_SIZE}) - 1 /\ S = WriteRun(f, Load(f, start), start, last)
    OBVIOUS
  <2>. HIDE DEF last, S
  <2>. QED
    BY <1>1, <2>1, AfterWrite
<1>. HIDE DEF S
<1>4. TypeOK
  BY DEF IInv
<1>5. /\ inode \in Inos /\ written \in [Files -> SUBSET Data]
      /\ inode[f].i_size \in 0 .. MAX_FILE_SIZE /\ inode[f].i_size \in Int
  BY <1>4, TypeIs
<1>6. /\ S \in State /\ S.in.i_size = inode[f].i_size /\ S.fate \in {"ok", "torn"}
      /\ S.next \in Int /\ start <= S.next /\ S.next <= last + 1
      /\ S.in.block_count \in 0 .. MaxFsBlocks
      /\ S.fate = "torn" => Tattered(OwnOf(inode, f, S), S.used, f)
      /\ S.fate = "ok" => /\ Good(inode, f, S)
                          /\ \A g \in Files \ {f} : \A sp \in Spots :
                                OwnOf(inode, f, S)[g][sp] = Own(inode, pointers)[g][sp]
                          /\ Leafy(OwnOf(inode, f, S))
                          /\ Holds(OwnOf(inode, f, S), S.con, Wrote(written, f, start, S.next))
  <2>1. /\ S \in State /\ S.next \in start .. (last + 1) /\ S.in.i_size = inode[f].i_size
        /\ S.fate \in {"ok", "torn"}
        /\ S.fate = "torn" => /\ S.in.block_count \in 0 .. MaxFsBlocks
                              /\ Tattered(OwnOf(inode, f, S), S.used, f)
        /\ S.fate = "ok" =>
              /\ Good(inode, f, S)
              /\ \A g \in Files \ {f} : \A sp \in Spots :
                    OwnOf(inode, f, S)[g][sp] = Own(inode, pointers)[g][sp]
              /\ Leafy(OwnOf(inode, f, S))
              /\ Holds(OwnOf(inode, f, S), S.con, Wrote(written, f, start, S.next))
    BY <1>3 DEF Stage
  <2>2. S.fate = "ok" => S.in.block_count \in 0 .. MaxFsBlocks
    BY <1>5, <2>1, GoodCount
  <2>3. S.next \in Int /\ start <= S.next /\ S.next <= last + 1
    BY <1>2, <2>1, Layers
  <2>. QED
    BY <2>1, <2>2, <2>3
<1>7. S.next <= start + n /\ S.next <= MAX_FILE_SIZE
  <2>1. start \in Int /\ last \in Int /\ n \in Int /\ MAX_FILE_SIZE \in Int
    BY <1>2, Layers, Sizes
  <2>. HIDE DEF last
  <2>. QED
    BY <1>2, <1>6, <2>1
<1>. HIDE DEF last
<1>8. /\ size \in 0 .. MAX_FILE_SIZE /\ size >= inode[f].i_size
      /\ size >= S.next \/ S.next = start
  BY <1>5, <1>6, <1>7, SizeIs
<1>. HIDE DEF size, beyond
<1>9. /\ R.used = S.used /\ R.ptr = S.ptr /\ R.con = S.con
      /\ R.fate = (IF beyond THEN "wild" ELSE S.fate)
      /\ R.in = [S.in EXCEPT !.i_size = size] /\ R.got = S.got /\ R.next = S.next /\ R.total = S.total
  BY <1>6 DEF State
<1>10. /\ R.in \in InodeState /\ Same(S.in, R.in) /\ R.in.i_size = size
       /\ R.in.block_count = S.in.block_count
  <2>1. S.in \in InodeState /\ size \in Int
    BY <1>6, <1>8, StateFields
  <2>. QED
    BY <1>9, <2>1 DEF InodeState, Same
<1>11. R \in State
  <2>. DEFINE in1 == [S.in EXCEPT !.i_size = size]
              fate1 == IF beyond THEN "wild" ELSE S.fate
              T == [S EXCEPT !.in = in1]
  <2>5. R = [T EXCEPT !.fate = IF beyond THEN "wild" ELSE @]
    BY Zenon
  <2>6. T = [in |-> in1, used |-> S.used, ptr |-> S.ptr, con |-> S.con,
             got |-> S.got, next |-> S.next, total |-> S.total, fate |-> S.fate]
    <3>. HIDE DEF in1
    <3>. QED
      BY <1>6 DEF State
  <2>. HIDE DEF R, T, in1, beyond
  <2>1. R = [in |-> in1, used |-> S.used, ptr |-> S.ptr, con |-> S.con,
             got |-> S.got, next |-> S.next, total |-> S.total, fate |-> fate1]
    BY <2>5, <2>6
  <2>2. R.fate \in Fates
    BY <1>6, <1>9 DEF Fates
  <2>. HIDE DEF R
  <2>3. R = [in |-> R.in, used |-> S.used, ptr |-> S.ptr, con |-> S.con,
             got |-> S.got, next |-> S.next, total |-> S.total, fate |-> R.fate]
    BY <2>1
  <2>4. /\ R.in \in InodeState /\ S.used \in SUBSET Blocks /\ S.ptr \in Device
        /\ S.con \in [Blocks -> {Zeros} \cup (Files \X Data)]
        /\ S.got \in Cells /\ S.next \in Int /\ S.total \in Int
    BY <1>6, <1>10, StateFields
  <2>. HIDE <2>1
  <2>. QED
    BY <2>2, <2>3, <2>4 DEF State
<1>. HIDE DEF R
<1>12. written' = Wrote(written, f, start, S.next) /\ written' \in [Files -> SUBSET Data]
  <2>1. written' = Wrote(written, f, start, S.next)
    BY <1>1, Zenon DEF Wrote
  <2>. QED
    BY <1>5, <1>6, <1>7, <2>1, WroteType
<1>13. TypeOK'
  <2>1. inode' \in [Files ->
         [i_block_nr : [Direct -> Blocks \cup {NoBlock}], i_indirect : Blocks \cup {NoBlock},
          i_dindirect : Blocks \cup {NoBlock}, block_count : 0 .. MaxFsBlocks,
          i_size : 0 .. MAX_FILE_SIZE]]
    BY <1>1, <1>4, <1>6, <1>8, <1>10, <1>11, StoredType
  <2>2. /\ block_freemap' \subseteq Blocks
        /\ pointers' \in [Blocks -> [Slots -> Blocks \cup {NoBlock}]]
        /\ contents' \in [Blocks -> {Zeros} \cup (Files \X (0 .. (MAX_FILE_SIZE - 1)))]
        /\ fate' \in {"ok", "abort", "torn", "wild"}
    BY <1>1, <1>11, StateFields DEF Device, Cells, Data, Fates
  <2>. QED
    BY <1>12, <2>1, <2>2 DEF TypeOK, Data
<1>15. inode' = With(inode, f, R)
  BY <1>1 DEF With
<1>16. Own(inode', pointers') = OwnOf(inode, f, S)
  <2>1. OwnOf(inode, f, R) = OwnOf(inode, f, S)
    BY <1>5, <1>6, <1>9, <1>10, <1>11, OwnOfSame
  <2>. QED
    BY <1>1, <1>15, <2>1 DEF OwnOf
<1>17. ASSUME fate' = "torn"
       PROVE  Tattered(Own(inode', pointers'), block_freemap', f)
  <2>1. S.fate = "torn"
    BY <1>1, <1>9, <1>17
  <2>. QED
    BY <1>1, <1>6, <1>9, <1>16, <2>1
<1>14. ASSUME fate' = "ok"
       PROVE  /\ Fits(Own(inode', pointers'), block_freemap')
              /\ Clean(block_freemap', pointers')
              /\ Leafy(Own(inode', pointers'))
              /\ Holds(Own(inode', pointers'), contents', written')
              /\ \A g \in Files : inode'[g].block_count = Cardinality(Filled(Own(inode', pointers')[g]))
              /\ \A g \in Files : \A k \in written'[g] : k < inode'[g].i_size
  <2>1. S.fate = "ok"
    BY <1>1, <1>9, <1>14
  <2>3. Own(inode', pointers') = OwnOf(inode, f, S)
    BY <1>16
  <2>4. /\ Fits(OwnOf(inode, f, S), S.used)
        /\ Clean(S.used, S.ptr)
        /\ S.in.block_count = Cardinality(Filled(OwnOf(inode, f, S)[f]))
        /\ Leafy(OwnOf(inode, f, S))
        /\ Holds(OwnOf(inode, f, S), S.con, Wrote(written, f, start, S.next))
    BY <1>6, <2>1 DEF Good
  <2>5. \A g \in Files : inode'[g] = IF g = f THEN R.in ELSE inode[g]
    BY <1>1, <1>5 DEF Inos
  <2>6. ASSUME NEW g \in Files
        PROVE  inode'[g].block_count = Cardinality(Filled(OwnOf(inode, f, S)[g]))
    <3>1. CASE g = f
      BY <1>10, <2>4, <2>5, <3>1
    <3>2. CASE g # f
      <4>1. Filled(OwnOf(inode, f, S)[g]) = Filled(Own(inode, pointers)[g])
        <5>1. \A sp \in Spots : OwnOf(inode, f, S)[g][sp] = Own(inode, pointers)[g][sp]
          BY <1>6, <2>1, <3>2
        <5>. QED
          BY <5>1, FilledSame
      <4>2. inode[g].block_count = Cardinality(Filled(Own(inode, pointers)[g]))
        BY <1>1 DEF IInv
      <4>. QED
        BY <2>5, <3>2, <4>1, <4>2
    <3>. QED
      BY <3>1, <3>2
  <2>7. ASSUME NEW g \in Files, NEW k \in written'[g]
        PROVE  k < inode'[g].i_size
    <3>1. \A h \in Files : \A j \in written[h] : j < inode[h].i_size
      BY <1>1 DEF IInv
    <3>2. CASE g # f
      <4>1. written'[g] = written[g] /\ inode'[g] = inode[g]
        BY <1>1, <1>5, <2>5, <3>2
      <4>. QED
        BY <2>7, <3>1, <4>1
    <3>3. CASE g = f
      <4>1. written'[f] = written[f] \cup start .. (S.next - 1) /\ inode'[f].i_size = size
        BY <1>1, <1>5, <1>10, <2>5
      <4>2. \A j \in written[f] : j \in Int /\ j < inode[f].i_size
        BY <1>5, <3>1, Layers
      <4>3. start \in Int /\ size \in Int
        BY <1>8, Layers
      <4>4. CASE k \in written[f]
        BY <1>5, <1>8, <3>3, <4>1, <4>2, <4>3, <4>4
      <4>5. CASE k \in start .. (S.next - 1)
        BY <1>6, <1>8, <3>3, <4>1, <4>3, <4>5
      <4>. QED
        BY <2>7, <3>3, <4>1, <4>4, <4>5
    <3>. QED
      BY <3>2, <3>3
  <2>. QED
    BY <1>1, <1>9, <1>12, <2>3, <2>4, <2>6, <2>7
<1>. QED
  BY <1>13, <1>14, <1>17 DEF IInv

-----------------------------------------------------------------------------
(* Removing.  L is the state in the beginning, row are the blocks of the   *)
(* file then, P the places whose blocks have been freed.                   *)

Gone(row, P) == {row[sp] : sp \in P}
Removed(L, row, P, T) ==
    /\ T \in State /\ P \in SUBSET Spots /\ T.fate = "ok"
    /\ T.used = L.used \ Gone(row, P)
    /\ \A b \in Blocks : b \in Gone(row, P) => T.ptr[b] = ZeroBlock
    /\ \A b \in Blocks : b \notin Gone(row, P) => T.ptr[b] = L.ptr[b] /\ T.con[b] = L.con[b]
    /\ T.in.block_count = L.in.block_count - Cardinality(P \cap Filled(row))

(* The blocks of the file are in use and each stands in one place.         *)
Rooted(L, row) ==
    /\ L \in State /\ L.fate = "ok" /\ Clean(L.used, L.ptr) /\ row \in [Spots -> Cells]
    /\ \A sp \in Spots : row[sp] # NoBlock => row[sp] \in L.used
    /\ \A sp, sq \in Spots : row[sp] = row[sq] /\ row[sp] # NoBlock => sp = sq
    /\ row[<<"indirect", 0>>] = L.in.i_indirect
    /\ row[<<"dindirect", 0>>] = L.in.i_dindirect
    /\ \A r \in Slots : row[<<"three", r>>] = Via(L.ptr, L.in.i_dindirect, r)
    /\ \A k \in Data : row[<<"data", k>>] = Datum(L.in, L.ptr, k)

LEMMA GoneMore ==
    ASSUME NEW row, NEW P, NEW sp
    PROVE  Gone(row, P \cup {sp}) = Gone(row, P) \cup {row[sp]}
  BY DEF Gone

LEMMA NotGone ==
    ASSUME NEW L, NEW row, Rooted(L, row), NEW P \in SUBSET Spots, NEW sp \in Spots, sp \notin P,
           row[sp] # NoBlock
    PROVE  row[sp] \notin Gone(row, P) /\ row[sp] \in Blocks
<1>1. \A sq \in Spots : row[sq] = row[sp] => sp = sq
  BY DEF Rooted
<1>2. row[sp] \in Blocks
  BY DEF Rooted, Cells
<1>. QED
  BY <1>1, <1>2 DEF Gone

(* One more block: the same inode, the same place on the device.           *)
RemovedOne(L, row, P, sp, T, A) ==
    /\ Removed(L, row, P \cup {sp}, A) /\ Same(T.in, A.in) /\ A.total = T.total
    /\ A.in.i_size = T.in.i_size

LEMMA RemoveOne ==
    ASSUME NEW L, NEW row, Rooted(L, row), NEW P, NEW T, Removed(L, row, P, T),
           NEW sp \in Spots, sp \notin P, NEW A, A = testfs_free_block_from_inode(T, row[sp])
    PROVE  RemovedOne(L, row, P, sp, T, A)
<1>. DEFINE b == row[sp]
<1>1. /\ T \in State /\ P \in SUBSET Spots /\ b \in Cells /\ A = testfs_free_block_from_inode(T, b)
      /\ T.fate = "ok" /\ L \in State
      /\ Gone(row, P \cup {sp}) = Gone(row, P) \cup {b}
      /\ P \cup {sp} \in SUBSET Spots
  BY GoneMore DEF Removed, Rooted
<1>2. Freed(T, b, A)
  <2>. HIDE DEF b
  <2>. QED
    BY <1>1, Free
<1>3. CASE b = NoBlock
  <2>1. A = T
    BY <1>2, <1>3 DEF Freed
  <2>2. (P \cup {sp}) \cap Filled(row) = P \cap Filled(row)
    BY <1>3 DEF Filled
  <2>3. \A c \in Blocks : c \in Gone(row, P \cup {sp}) <=> c \in Gone(row, P)
    BY <1>1, <1>3 DEF Blocks, NoBlock
  <2>4. L.used \ Gone(row, P \cup {sp}) = L.used \ Gone(row, P)
    <3>1. L.used \in SUBSET Blocks
      BY <1>1, StateFields
    <3>. QED
      BY <2>3, <3>1
  <2>. HIDE DEF b
  <2>5. Removed(L, row, P \cup {sp}, T)
    BY <1>1, <2>2, <2>3, <2>4 DEF Removed
  <2>. QED
    BY <2>1, <2>5 DEF RemovedOne, Same
<1>4. CASE b # NoBlock
  <2>1. b \notin Gone(row, P) /\ b \in Blocks /\ b \in L.used
    <3>1. row[sp] \notin Gone(row, P) /\ row[sp] \in Blocks
      BY <1>1, <1>4, NotGone
    <3>. QED
      BY <1>4, <3>1 DEF Rooted
  <2>2. b \in T.used
    BY <2>1 DEF Removed
  <2>3. /\ A \in State /\ A.total = T.total /\ Same(T.in, A.in) /\ A.in.i_size = T.in.i_size
        /\ A.used = T.used \ {b} /\ A.fate = "ok"
        /\ A.in.block_count = T.in.block_count - 1
        /\ A.ptr = [T.ptr EXCEPT ![b] = ZeroBlock] /\ A.con = [T.con EXCEPT ![b] = Zeros]
    BY <1>1, <1>2, <1>4, <2>2 DEF Freed
  <2>4. A.used = L.used \ Gone(row, P \cup {sp})
    BY <1>1, <2>3 DEF Removed
  <2>5. Cardinality((P \cup {sp}) \cap Filled(row)) = Cardinality(P \cap Filled(row)) + 1
    <3>1. (P \cup {sp}) \cap Filled(row) = (P \cap Filled(row)) \cup {sp} /\ sp \notin P \cap Filled(row)
      BY <1>4 DEF Filled
    <3>2. IsFiniteSet(P \cap Filled(row))
      BY FilledFinite, FS_Intersection
    <3>. QED
      BY <3>1, <3>2, FS_AddElement
  <2>6. A.in.block_count = L.in.block_count - Cardinality((P \cup {sp}) \cap Filled(row))
    <3>1. Cardinality(P \cap Filled(row)) \in Nat
      BY FilledFinite, FS_Intersection, FS_CardinalityType
    <3>2. L.in.block_count \in Int /\ T.in.block_count = L.in.block_count - Cardinality(P \cap Filled(row))
      BY <1>1, StateFields DEF Removed
    <3>. QED
      BY <2>3, <2>5, <3>1, <3>2
  <2>7. T.ptr \in Device /\ T.con \in [Blocks -> {Zeros} \cup (Files \X Data)]
    BY <1>1, StateFields
  <2>. HIDE DEF b
  <2>8. /\ A.ptr[b] = ZeroBlock
        /\ \A c \in Blocks : c # b => A.ptr[c] = T.ptr[c] /\ A.con[c] = T.con[c]
    BY <2>1, <2>3, <2>7 DEF Device
  <2>9. \A c \in Blocks : c \in Gone(row, P \cup {sp}) => A.ptr[c] = ZeroBlock
    BY <1>1, <2>8 DEF Removed
  <2>10. \A c \in Blocks : c \notin Gone(row, P \cup {sp}) => A.ptr[c] = L.ptr[c] /\ A.con[c] = L.con[c]
    BY <1>1, <2>8 DEF Removed
  <2>11. Removed(L, row, P \cup {sp}, A)
    BY <1>1, <2>3, <2>4, <2>6, <2>9, <2>10 DEF Removed
  <2>. QED
    BY <2>3, <2>11 DEF RemovedOne
<1>. QED
  BY <1>3, <1>4

(* A state that differs in what the device does not hold.                  *)
LEMMA RemovedSame ==
    ASSUME NEW L, NEW row, NEW P, NEW T, Removed(L, row, P, T), NEW A \in State,
           A.fate = T.fate, A.used = T.used, A.ptr = T.ptr, A.con = T.con,
           A.in.block_count = T.in.block_count
    PROVE  Removed(L, row, P, A)
  BY DEF Removed

(* Pointers of the inode that are reset.                                   *)
CutDirect(T, k)  == [T EXCEPT !.in.i_block_nr[k] = NoBlock]
CutIndirect(T)   == [T EXCEPT !.in.i_indirect = NoBlock]
CutDindirect(T)  == [T EXCEPT !.in.i_dindirect = NoBlock]
Counted(T)       == [T EXCEPT !.total = @ + 1]
Alike(T, A) ==
    /\ A \in State /\ A.fate = T.fate /\ A.used = T.used /\ A.ptr = T.ptr /\ A.con = T.con
    /\ A.in.block_count = T.in.block_count /\ A.in.i_size = T.in.i_size

LEMMA CutsDirect ==
    ASSUME NEW T \in State, NEW k \in Direct, NEW A, A = CutDirect(T, k)
    PROVE  /\ Alike(T, A) /\ A.total = T.total
           /\ A.in.i_indirect = T.in.i_indirect /\ A.in.i_dindirect = T.in.i_dindirect
           /\ \A j \in Direct : j # k => A.in.i_block_nr[j] = T.in.i_block_nr[j]
<1>1. A = [T EXCEPT !.in = [T.in EXCEPT !.i_block_nr = [T.in.i_block_nr EXCEPT ![k] = NoBlock]]]
  BY Zenon DEF CutDirect
<1>. DEFINE nr == [T.in.i_block_nr EXCEPT ![k] = NoBlock]
            in == [T.in EXCEPT !.i_block_nr = nr]
<1>2. T.in \in InodeState /\ T.in.i_block_nr \in [Direct -> Cells]
  BY StateFields
<1>3. nr \in [Direct -> Cells] /\ \A j \in Direct : j # k => nr[j] = T.in.i_block_nr[j]
  BY <1>2 DEF Cells
<1>. HIDE DEF nr
<1>4. /\ in \in InodeState /\ in.i_block_nr = nr /\ in.i_indirect = T.in.i_indirect
      /\ in.i_dindirect = T.in.i_dindirect /\ in.block_count = T.in.block_count /\ in.i_size = T.in.i_size
  BY <1>2, <1>3 DEF InodeState
<1>5. A = [T EXCEPT !.in = in]
  BY <1>1 DEF nr
<1>. HIDE DEF in
<1>6. /\ A \in State /\ A.fate = T.fate /\ A.used = T.used /\ A.ptr = T.ptr /\ A.con = T.con
      /\ A.total = T.total /\ A.in = in
  BY <1>4, <1>5 DEF State
<1>. QED
  BY <1>3, <1>4, <1>6 DEF Alike

LEMMA CutsIndirect ==
    ASSUME NEW T \in State, NEW A, A = CutIndirect(T)
    PROVE  /\ Alike(T, A) /\ A.total = T.total
           /\ A.in.i_block_nr = T.in.i_block_nr /\ A.in.i_dindirect = T.in.i_dindirect
<1>. DEFINE in == [T.in EXCEPT !.i_indirect = NoBlock]
<1>1. A = [T EXCEPT !.in = in]
  BY Zenon DEF CutIndirect
<1>2. T.in \in InodeState
  BY StateFields
<1>3. /\ in \in InodeState /\ in.i_block_nr = T.in.i_block_nr
      /\ in.i_dindirect = T.in.i_dindirect /\ in.block_count = T.in.block_count /\ in.i_size = T.in.i_size
  BY <1>2 DEF InodeState, Cells
<1>. HIDE DEF in
<1>4. /\ A \in State /\ A.fate = T.fate /\ A.used = T.used /\ A.ptr = T.ptr /\ A.con = T.con
      /\ A.total = T.total /\ A.in = in
  BY <1>1, <1>3 DEF State
<1>. QED
  BY <1>3, <1>4 DEF Alike

LEMMA CutsDindirect ==
    ASSUME NEW T \in State, NEW A, A = CutDindirect(T)
    PROVE  Alike(T, A)
<1>. DEFINE in == [T.in EXCEPT !.i_dindirect = NoBlock]
<1>1. A = [T EXCEPT !.in = in]
  BY Zenon DEF CutDindirect
<1>2. T.in \in InodeState
  BY StateFields
<1>3. in \in InodeState /\ in.block_count = T.in.block_count /\ in.i_size = T.in.i_size
  BY <1>2 DEF InodeState, Cells
<1>. HIDE DEF in
<1>4. /\ A \in State /\ A.fate = T.fate /\ A.used = T.used /\ A.ptr = T.ptr /\ A.con = T.con
      /\ A.in = in
  BY <1>1, <1>3 DEF State
<1>. QED
  BY <1>3, <1>4 DEF Alike

LEMMA CountIs ==
    ASSUME NEW T \in State, NEW A, A = Counted(T)
    PROVE  Alike(T, A) /\ A.in = T.in /\ A.total = T.total + 1
<1>1. T.total \in Int
  BY StateFields
<1>2. A = [T EXCEPT !.total = T.total + 1]
  BY DEF Counted
<1>3. /\ A \in State /\ A.fate = T.fate /\ A.used = T.used /\ A.ptr = T.ptr /\ A.con = T.con
      /\ A.in = T.in /\ A.total = T.total + 1
  BY <1>1, <1>2 DEF State
<1>. QED
  BY <1>3 DEF Alike

-----------------------------------------------------------------------------
(* The loops of a removal, one turn at a time.                             *)

Ran(g, St, body, S, last, Q) ==
    /\ g = Rounds(body, S, 0, last, g)
    /\ \A k \in 0 .. last : g[k - 1] \in St /\ <<g[k - 1], k - 1>> \in Q

LEMMA LoopZero ==
    ASSUME NEW St, NEW last \in Int, NEW S \in St, NEW Q, <<S, 0 - 1>> \in Q,
           NEW body, Turns(St, 0, last, Q, body)
    PROVE  \E g : Ran(g, St, body, S, last, Q)
<1>. DEFINE z == 0
<1>1. z \in Int /\ <<S, z - 1>> \in Q /\ Turns(St, z, last, Q, body)
  OBVIOUS
<1>. HIDE DEF z
<1>2. \E g : /\ g = Rounds(body, S, z, last, g)
             /\ \A k \in z .. last : g[k - 1] \in St /\ <<g[k - 1], k - 1>> \in Q
  BY <1>1, Loop
<1>. QED
  BY <1>2 DEF z, Ran

LEMMA KeepZero ==
    ASSUME NEW last \in Int, 0 <= last, NEW g, NEW Q, <<g[0 - 1], 0 - 1>> \in Q,
           \A k \in 0 .. last : <<g[k - 1], k - 1>> \in Q => <<g[k], k>> \in Q
    PROVE  <<g[last], last>> \in Q
<1>. DEFINE z == 0
<1>1. /\ z \in Int /\ z <= last /\ <<g[z - 1], z - 1>> \in Q
      /\ \A k \in z .. last : <<g[k - 1], k - 1>> \in Q => <<g[k], k>> \in Q
  OBVIOUS
<1>. HIDE DEF z
<1>. QED
  BY <1>1, RoundsKeep

DataSpots(a, b)  == {<<"data", k>> : k \in a .. b}
DirectTurn(T, k) == CutDirect(testfs_free_block_from_inode(T, T.in.i_block_nr[k]), k)
DirectRun(S, last) == For(DirectTurn, S, 0, last)

(* The direct blocks up to k have gone.                                    *)
DirectCut(L, row, T, k) ==
    /\ Removed(L, row, DataSpots(0, k), T) /\ T.total = L.total
    /\ T.in.i_indirect = L.in.i_indirect /\ T.in.i_dindirect = L.in.i_dindirect
    /\ \A j \in Direct : j > k => T.in.i_block_nr[j] = L.in.i_block_nr[j]

LEMMA SpotsGrow ==
    ASSUME NEW a \in Int, NEW k \in Int, a <= k
    PROVE  /\ DataSpots(a, k) = DataSpots(a, k - 1) \cup {<<"data", k>>}
           /\ <<"data", k>> \notin DataSpots(a, k - 1)
<1>1. a .. k = (a .. (k - 1)) \cup {k} /\ k \notin a .. (k - 1)
  OBVIOUS
<1>. QED
  BY <1>1 DEF DataSpots

LEMMA SpotsNone ==
    ASSUME NEW a \in Int
    PROVE  DataSpots(a, a - 1) = {}
<1>1. a .. (a - 1) = {}
  OBVIOUS
<1>. QED
  BY <1>1 DEF DataSpots

LEMMA DirectOnce ==
    ASSUME NEW L, NEW row, Rooted(L, row), NEW k \in Direct, NEW T, DirectCut(L, row, T, k - 1),
           NEW A, A = DirectTurn(T, k)
    PROVE  A \in State /\ DirectCut(L, row, A, k)
<1>. DEFINE b == T.in.i_block_nr[k]
            U == testfs_free_block_from_inode(T, b)
            sp == <<"data", k>>
<1>1. k \in Int /\ k >= 0 /\ k \in Data
  BY Sizes DEF Direct, Data
<1>2. b = row[sp]
  <2>1. row[sp] = L.in.i_block_nr[k]
    BY <1>1, DatumIs DEF Rooted
  <2>. QED
    BY <1>1, <2>1 DEF DirectCut
<1>3. sp \in Spots
  BY <1>1, SpotsAre
<1>4. DataSpots(0, k) = DataSpots(0, k - 1) \cup {sp} /\ sp \notin DataSpots(0, k - 1)
  BY <1>1, SpotsGrow
<1>5. A = CutDirect(U, k)
  BY Zenon DEF DirectTurn
<1>6. U = testfs_free_block_from_inode(T, row[sp]) /\ Removed(L, row, DataSpots(0, k - 1), T)
  BY <1>2 DEF DirectCut
<1>. HIDE DEF U, sp, b
<1>7. RemovedOne(L, row, DataSpots(0, k - 1), sp, T, U)
  BY <1>3, <1>4, <1>6, RemoveOne
<1>8. Removed(L, row, DataSpots(0, k), U) /\ Same(T.in, U.in) /\ U.total = T.total
  BY <1>4, <1>7 DEF RemovedOne
<1>9. U \in State
  BY <1>8 DEF Removed
<1>10. /\ Alike(U, A) /\ A.total = U.total
       /\ A.in.i_indirect = U.in.i_indirect /\ A.in.i_dindirect = U.in.i_dindirect
       /\ \A j \in Direct : j # k => A.in.i_block_nr[j] = U.in.i_block_nr[j]
  BY <1>5, <1>9, CutsDirect
<1>11. Removed(L, row, DataSpots(0, k), A)
  BY <1>8, <1>10, RemovedSame DEF Alike
<1>12. \A j \in Direct : j > k => A.in.i_block_nr[j] = L.in.i_block_nr[j]
  <2>. TAKE j \in Direct
  <2>. HAVE j > k
  <2>1. j \in Int /\ j > k - 1 /\ j # k
    BY <1>1 DEF Direct
  <2>. QED
    BY <1>8, <1>10, <2>1 DEF DirectCut, Same
<1>. QED
  BY <1>8, <1>10, <1>11, <1>12 DEF DirectCut, Alike, Same

(* The loop over the direct blocks.                                        *)
LEMMA DirectLoop ==
    ASSUME NEW L, NEW row, Rooted(L, row),
           NEW last \in Int, 0 <= last, last < NR_DIRECT_BLOCKS,
           NEW S, DirectCut(L, row, S, 0 - 1), NEW R, R = DirectRun(S, last)
    PROVE  DirectCut(L, row, R, last)
<1>. DEFINE Q == {p \in State \X Int : DirectCut(L, row, p[1], p[2])}
            body == [p \in State \X (0 .. last) |-> DirectTurn(p[1], p[2])]
            after == CHOOSE g : g = [k \in (0 - 1) .. last |->
                                       IF k < 0 THEN S ELSE DirectTurn(g[k - 1], k)]
<1>1. R = IF last < 0 THEN S ELSE after[last]
  BY Zenon DEF For, DirectRun
<1>3. \A T, k : <<T, k>> \in Q <=> T \in State /\ k \in Int /\ DirectCut(L, row, T, k)
  OBVIOUS
<1>4. \A T \in State : \A k \in 0 .. last : body[<<T, k>>] = DirectTurn(T, k)
  OBVIOUS
<1>. HIDE DEF Q, body
<1>5. ASSUME NEW k \in 0 .. last, NEW T, <<T, k - 1>> \in Q
      PROVE  DirectTurn(T, k) \in State /\ <<DirectTurn(T, k), k>> \in Q
  <2>1. k \in Int /\ k >= 0 /\ k <= last
    OBVIOUS
  <2>2. DirectCut(L, row, T, k - 1)
    BY <1>3, <1>5
  <2>. DEFINE U == DirectTurn(T, k)
  <2>3. U = DirectTurn(T, k)
    OBVIOUS
  <2>. HIDE DEF U
  <2>4. U \in State /\ DirectCut(L, row, U, k)
    <3>1. k \in Direct
      BY <2>1, Sizes DEF Direct
    <3>. QED
      BY <2>2, <2>3, <3>1, DirectOnce
  <2>. QED
    BY <1>3, <2>1, <2>3, <2>4
<1>6. Turns(State, 0, last, Q, body)
  <2>. SUFFICES ASSUME NEW k \in 0 .. last, NEW T \in State, <<T, k - 1>> \in Q
                PROVE  body[<<T, k>>] \in State /\ <<body[<<T, k>>], k>> \in Q
    BY DEF Turns
  <2>. QED
    BY <1>4, <1>5
<1>7. S \in State /\ <<S, 0 - 1>> \in Q
  <2>1. S \in State
    BY DEF DirectCut, Removed
  <2>2. 0 - 1 \in Int /\ DirectCut(L, row, S, 0 - 1)
    OBVIOUS
  <2>. QED
    BY <1>3, <2>1, <2>2
<1>2. 0 \in Int /\ last \in Int
  OBVIOUS
<1>14. \E g : Ran(g, State, body, S, last, Q)
  BY ONLY <1>2, <1>6, <1>7, LoopZero
<1>8. PICK g : /\ g = Rounds(body, S, 0, last, g)
               /\ \A k \in 0 .. last : g[k - 1] \in State /\ <<g[k - 1], k - 1>> \in Q
  BY <1>14, Zenon DEF Ran
<1>9. g = [k \in (0 - 1) .. last |-> IF k < 0 THEN S ELSE DirectTurn(g[k - 1], k)]
  <2>1. \A k \in (0 - 1) .. last : ~(k < 0) => body[<<g[k - 1], k>>] = DirectTurn(g[k - 1], k)
    <3>. TAKE k \in (0 - 1) .. last
    <3>. HAVE ~(k < 0)
    <3>1. k \in 0 .. last
      OBVIOUS
    <3>. QED
      BY <1>4, <1>8, <3>1
  <2>2. Rounds(body, S, 0, last, g) =
           [k \in (0 - 1) .. last |-> IF k < 0 THEN S ELSE body[<<g[k - 1], k>>]]
    BY DEF Rounds
  <2>3. [k \in (0 - 1) .. last |-> IF k < 0 THEN S ELSE body[<<g[k - 1], k>>]]
        = [k \in (0 - 1) .. last |-> IF k < 0 THEN S ELSE DirectTurn(g[k - 1], k)]
    BY <2>1
  <2>. QED
    BY <1>8, <2>2, <2>3
<1>10. after = [k \in (0 - 1) .. last |-> IF k < 0 THEN S ELSE DirectTurn(after[k - 1], k)]
  BY <1>9, Zenon
<1>. HIDE DEF after
<1>11. /\ after[0 - 1] = S
       /\ \A k \in 0 .. last : after[k] = DirectTurn(after[k - 1], k)
  <2>1. \A k \in (0 - 1) .. last : after[k] = IF k < 0 THEN S ELSE DirectTurn(after[k - 1], k)
    <3>. DEFINE h == [k \in (0 - 1) .. last |-> IF k < 0 THEN S ELSE DirectTurn(after[k - 1], k)]
    <3>1. \A k \in (0 - 1) .. last : h[k] = IF k < 0 THEN S ELSE DirectTurn(after[k - 1], k)
      OBVIOUS
    <3>2. after = h
      BY <1>10
    <3>. HIDE DEF h
    <3>. QED
      BY <3>1, <3>2
  <2>2. 0 - 1 \in (0 - 1) .. last /\ 0 - 1 < 0
    OBVIOUS
  <2>3. \A k \in 0 .. last : k \in (0 - 1) .. last /\ ~(k < 0)
    OBVIOUS
  <2>. QED
    BY <2>1, <2>2, <2>3
<1>12. \A k \in 0 .. last : <<after[k - 1], k - 1>> \in Q => <<after[k], k>> \in Q
  BY <1>5, <1>11
<1>13. <<after[last], last>> \in Q
  <2>1. <<after[0 - 1], 0 - 1>> \in Q
    BY <1>7, <1>11
  <2>. QED
    BY <1>12, <2>1, KeepZero
<1>. QED
  BY <1>1, <1>3, <1>13

(* What FreeDirect leaves: the blocks that the size covers have gone.      *)
LEMMA DirectGone ==
    ASSUME NEW L, NEW row, Rooted(L, row), NEW e \in Nat, NEW S, S = FreeDirect(L, e)
    PROVE  \E last \in Int :
              /\ -1 <= last /\ last < NR_DIRECT_BLOCKS
              /\ last = e - 1 \/ (last = NR_DIRECT_BLOCKS - 1 /\ last < e)
              /\ DirectCut(L, row, S, last)
<1>. DEFINE n == NR_DIRECT_BLOCKS
            last == Min({e, n}) - 1
<1>1. n \in Nat /\ n > 0 /\ Min({e, n}) = IF e <= n THEN e ELSE n
  BY Sizes, LeastOfTwo
<1>2. last \in Int /\ -1 <= last /\ last < n /\ (last = e - 1 \/ (last = n - 1 /\ last < e))
  BY <1>1
<1>3. S = DirectRun(L, last)
  BY Zenon DEF FreeDirect, DirectRun, DirectTurn, CutDirect, For
<1>. HIDE DEF last, n
<1>4. DirectCut(L, row, L, 0 - 1)
  <2>1. DataSpots(0, 0 - 1) = {}
    BY SpotsNone
  <2>2. Removed(L, row, {}, L)
    <3>1. Cardinality({} \cap Filled(row)) = 0
      BY FS_EmptySet
    <3>2. L.in.block_count \in Int /\ L \in State
      BY StateFields DEF Rooted
    <3>. QED
      BY <3>1, <3>2 DEF Removed, Rooted, Gone
  <2>. QED
    BY <2>1, <2>2 DEF DirectCut
<1>5. CASE last < 0
  <2>1. last = 0 - 1
    BY <1>2, <1>5
  <2>2. S = L
    BY <1>3, <1>5, Zenon DEF DirectRun, For
  <2>. QED
    BY <1>2, <1>4, <2>1, <2>2 DEF n
<1>6. CASE ~(last < 0)
  <2>1. DirectCut(L, row, S, last)
    BY <1>2, <1>3, <1>4, <1>6, DirectLoop DEF n
  <2>. QED
    BY <1>2, <2>1 DEF n
<1>. QED
  BY <1>5, <1>6

-----------------------------------------------------------------------------
(* The indirect block and the blocks behind it.                            *)

IndirectTurn(V, top, T, j) == testfs_free_block_from_inode(T, V.ptr[top][j])
IndirectRun(V, top, S, last) ==
    For(LAMBDA U, k : testfs_free_block_from_inode(U, V.ptr[top][k]), S, 0, last)
IndirectCut(L, row, P, T, j) ==
    /\ Removed(L, row, P \cup DataSpots(NR_DIRECT_BLOCKS, NR_DIRECT_BLOCKS + j), T)
    /\ T.total = L.total /\ T.in.i_dindirect = L.in.i_dindirect

(* The places up to the doubly indirect block.                             *)
Early == {sp \in Spots : sp = <<"indirect", 0>> \/ \E k \in Data : sp = <<"data", k>> /\ Beyond(k) < 0}
Reached(V, L, top) == top = L.in.i_indirect /\ top \in Blocks /\ V.ptr[top] = L.ptr[top]

LEMMA Pairs ==
    /\ \A a, b, c, d : <<a, b>> = <<c, d>> <=> a = c /\ b = d
    /\ \A a, b, k : <<"data", k>> \in DataSpots(a, b) <=> k \in a .. b
    /\ \A a, b, sp : sp \in DataSpots(a, b) <=> \E k \in a .. b : sp = <<"data", k>>
  BY DEF DataSpots

LEMMA IndirectOnce ==
    ASSUME NEW L, NEW row, Rooted(L, row), NEW l \in Int, l < NR_DIRECT_BLOCKS,
           NEW V, NEW top, Reached(V, L, top), NEW j \in Slots, NEW T,
           IndirectCut(L, row, DataSpots(0, l), T, j - 1), NEW A, A = IndirectTurn(V, top, T, j)
    PROVE  A \in State /\ IndirectCut(L, row, DataSpots(0, l), A, j)
<1>. DEFINE n == NR_DIRECT_BLOCKS
            k == n + j
            b == V.ptr[top][j]
            sp == <<"data", k>>
            P == DataSpots(0, l) \cup DataSpots(n, n + (j - 1))
<1>1. /\ n \in Nat /\ j \in Int /\ j >= 0 /\ j < NR_INDIRECT_BLOCKS /\ k \in Int /\ k \in Data
      /\ k \notin Direct /\ Beyond(k) < 0 /\ k - n = j
  <2>. DEFINE x == NR_INDIRECT_BLOCKS * NR_INDIRECT_BLOCKS
  <2>1. x \in Nat /\ MAX_FILE_SIZE = NR_DIRECT_BLOCKS + NR_INDIRECT_BLOCKS + x
    BY Sizes DEF MAX_FILE_SIZE
  <2>. HIDE DEF x
  <2>2. j \in Int /\ j >= 0 /\ j < NR_INDIRECT_BLOCKS
    BY Sizes DEF Slots
  <2>. QED
    BY <2>1, <2>2, Sizes DEF Data, Direct
<1>2. b = row[sp]
  <2>1. row[sp] = Via(L.ptr, L.in.i_indirect, j)
    BY <1>1, DatumIs DEF Rooted
  <2>. QED
    BY <2>1 DEF Reached, Via, Blocks, NoBlock
<1>3. sp \in Spots
  BY <1>1, SpotsAre
<1>4. /\ DataSpots(n, n + j) = DataSpots(n, n + (j - 1)) \cup {sp}
      /\ sp \notin DataSpots(n, n + (j - 1))
  <2>1. k \in Int /\ n <= k /\ k - 1 = n + (j - 1) /\ n \in Int
    BY <1>1
  <2>2. /\ DataSpots(n, k) = DataSpots(n, k - 1) \cup {sp}
        /\ sp \notin DataSpots(n, k - 1)
    BY <2>1, SpotsGrow
  <2>. QED
    BY <2>1, <2>2
<1>5. sp \notin DataSpots(0, l)
  <2>1. k \notin 0 .. l
    BY <1>1
  <2>. QED
    BY <2>1, Pairs
<1>6. A = testfs_free_block_from_inode(T, row[sp])
  BY <1>2, Zenon DEF IndirectTurn
<1>7. Removed(L, row, P, T)
  BY DEF IndirectCut
<1>8. sp \notin P /\ P \cup {sp} = DataSpots(0, l) \cup DataSpots(n, n + j)
  BY <1>4, <1>5
<1>. HIDE DEF sp, b, P, k
<1>9. RemovedOne(L, row, P, sp, T, A)
  BY <1>3, <1>6, <1>7, <1>8, RemoveOne
<1>. QED
  BY <1>8, <1>9 DEF RemovedOne, IndirectCut, Removed, Same

(* The loop over the blocks behind the indirect block.                     *)
LEMMA IndirectLoop ==
    ASSUME NEW L, NEW row, Rooted(L, row), NEW l \in Int, l < NR_DIRECT_BLOCKS,
           NEW V, NEW top, Reached(V, L, top),
           NEW last \in Int, 0 <= last, last < NR_INDIRECT_BLOCKS,
           NEW S, IndirectCut(L, row, DataSpots(0, l), S, 0 - 1), NEW R, R = IndirectRun(V, top, S, last)
    PROVE  IndirectCut(L, row, DataSpots(0, l), R, last)
<1>. DEFINE Q == {p \in State \X Int : IndirectCut(L, row, DataSpots(0, l), p[1], p[2])}
            body == [p \in State \X (0 .. last) |-> IndirectTurn(V, top, p[1], p[2])]
            after == CHOOSE g : g = [k \in (0 - 1) .. last |->
                                       IF k < 0 THEN S ELSE IndirectTurn(V, top, g[k - 1], k)]
<1>1. R = IF last < 0 THEN S ELSE after[last]
  BY Zenon DEF For, IndirectRun, IndirectTurn
<1>3. \A T, k : <<T, k>> \in Q <=> T \in State /\ k \in Int /\ IndirectCut(L, row, DataSpots(0, l), T, k)
  OBVIOUS
<1>4. \A T \in State : \A k \in 0 .. last : body[<<T, k>>] = IndirectTurn(V, top, T, k)
  OBVIOUS
<1>. HIDE DEF Q, body
<1>5. ASSUME NEW k \in 0 .. last, NEW T, <<T, k - 1>> \in Q
      PROVE  IndirectTurn(V, top, T, k) \in State /\ <<IndirectTurn(V, top, T, k), k>> \in Q
  <2>1. k \in Int /\ k >= 0 /\ k <= last
    OBVIOUS
  <2>2. IndirectCut(L, row, DataSpots(0, l), T, k - 1)
    BY <1>3, <1>5
  <2>. DEFINE U == IndirectTurn(V, top, T, k)
  <2>3. U = IndirectTurn(V, top, T, k)
    OBVIOUS
  <2>. HIDE DEF U
  <2>4. U \in State /\ IndirectCut(L, row, DataSpots(0, l), U, k)
    <3>1. k \in Slots
      BY <2>1, Sizes DEF Slots
    <3>. QED
      BY <2>2, <2>3, <3>1, IndirectOnce
  <2>. QED
    BY <1>3, <2>1, <2>3, <2>4
<1>6. Turns(State, 0, last, Q, body)
  <2>. SUFFICES ASSUME NEW k \in 0 .. last, NEW T \in State, <<T, k - 1>> \in Q
                PROVE  body[<<T, k>>] \in State /\ <<body[<<T, k>>], k>> \in Q
    BY DEF Turns
  <2>. QED
    BY <1>4, <1>5
<1>7. S \in State /\ <<S, 0 - 1>> \in Q
  <2>1. S \in State
    BY DEF IndirectCut, Removed
  <2>2. 0 - 1 \in Int /\ IndirectCut(L, row, DataSpots(0, l), S, 0 - 1)
    OBVIOUS
  <2>. QED
    BY <1>3, <2>1, <2>2
<1>2. 0 \in Int /\ last \in Int
  OBVIOUS
<1>14. \E g : Ran(g, State, body, S, last, Q)
  BY ONLY <1>2, <1>6, <1>7, LoopZero
<1>8. PICK g : /\ g = Rounds(body, S, 0, last, g)
               /\ \A k \in 0 .. last : g[k - 1] \in State /\ <<g[k - 1], k - 1>> \in Q
  BY <1>14, Zenon DEF Ran
<1>9. g = [k \in (0 - 1) .. last |-> IF k < 0 THEN S ELSE IndirectTurn(V, top, g[k - 1], k)]
  <2>1. \A k \in (0 - 1) .. last : ~(k < 0) => body[<<g[k - 1], k>>] = IndirectTurn(V, top, g[k - 1], k)
    <3>. TAKE k \in (0 - 1) .. last
    <3>. HAVE ~(k < 0)
    <3>1. k \in 0 .. last
      OBVIOUS
    <3>. QED
      BY <1>4, <1>8, <3>1
  <2>2. Rounds(body, S, 0, last, g) =
           [k \in (0 - 1) .. last |-> IF k < 0 THEN S ELSE body[<<g[k - 1], k>>]]
    BY DEF Rounds
  <2>3. [k \in (0 - 1) .. last |-> IF k < 0 THEN S ELSE body[<<g[k - 1], k>>]]
        = [k \in (0 - 1) .. last |-> IF k < 0 THEN S ELSE IndirectTurn(V, top, g[k - 1], k)]
    BY <2>1
  <2>. QED
    BY <1>8, <2>2, <2>3
<1>10. after = [k \in (0 - 1) .. last |-> IF k < 0 THEN S ELSE IndirectTurn(V, top, after[k - 1], k)]
  BY <1>9, Zenon
<1>. HIDE DEF after
<1>11. /\ after[0 - 1] = S
       /\ \A k \in 0 .. last : after[k] = IndirectTurn(V, top, after[k - 1], k)
  <2>1. \A k \in (0 - 1) .. last : after[k] = IF k < 0 THEN S ELSE IndirectTurn(V, top, after[k - 1], k)
    <3>. DEFINE h == [k \in (0 - 1) .. last |-> IF k < 0 THEN S ELSE IndirectTurn(V, top, after[k - 1], k)]
    <3>1. \A k \in (0 - 1) .. last : h[k] = IF k < 0 THEN S ELSE IndirectTurn(V, top, after[k - 1], k)
      OBVIOUS
    <3>2. after = h
      BY <1>10
    <3>. HIDE DEF h
    <3>. QED
      BY <3>1, <3>2
  <2>2. 0 - 1 \in (0 - 1) .. last /\ 0 - 1 < 0
    OBVIOUS
  <2>3. \A k \in 0 .. last : k \in (0 - 1) .. last /\ ~(k < 0)
    OBVIOUS
  <2>. QED
    BY <2>1, <2>2, <2>3
<1>12. \A k \in 0 .. last : <<after[k - 1], k - 1>> \in Q => <<after[k], k>> \in Q
  BY <1>5, <1>11
<1>13. <<after[last], last>> \in Q
  <2>1. <<after[0 - 1], 0 - 1>> \in Q
    BY <1>7, <1>11
  <2>. QED
    BY <1>12, <2>1, KeepZero
<1>. QED
  BY <1>1, <1>3, <1>13

(* What the two first parts of a removal leave: P has gone, and a block of *)
(* the two parts that has not is one the size does not cover.              *)
EarlyGone(L, row, e, P, T) ==
    /\ Removed(L, row, P, T) /\ P \subseteq Early
    /\ T.total = L.total /\ T.in.i_dindirect = L.in.i_dindirect
    /\ \A sp \in Early \cap Filled(row) :
          sp \in P \/ \E k \in Data : sp = <<"data", k>> /\ k >= e

LEMMA EarlyCases ==
    ASSUME NEW sp \in Early
    PROVE  \/ sp = <<"indirect", 0>>
           \/ \E k \in Data : sp = <<"data", k>> /\ k < NR_DIRECT_BLOCKS + NR_INDIRECT_BLOCKS /\ k >= 0
<1>1. \A k \in Data : Beyond(k) < 0 => k < NR_DIRECT_BLOCKS + NR_INDIRECT_BLOCKS /\ k >= 0
  BY Layers, Sizes
<1>. QED
  BY <1>1 DEF Early

LEMMA EarlyNone ==
    ASSUME NEW L, NEW row, Rooted(L, row), NEW e \in Nat, NEW last \in Int,
           -1 <= last, last < NR_DIRECT_BLOCKS,
           last = e - 1 \/ (last = NR_DIRECT_BLOCKS - 1 /\ last < e),
           NEW S, DirectCut(L, row, S, last), L.in.i_indirect = NoBlock
    PROVE  EarlyGone(L, row, e, DataSpots(0, last), S)
<1>1. ASSUME NEW sp \in Early \cap Filled(row)
      PROVE  sp \in DataSpots(0, last) \/ \E k \in Data : sp = <<"data", k>> /\ k >= e
  <2>1. row[sp] # NoBlock
    BY DEF Filled
  <2>2. sp # <<"indirect", 0>>
    BY <2>1 DEF Rooted
  <2>3. PICK k \in Data : sp = <<"data", k>> /\ k < NR_DIRECT_BLOCKS + NR_INDIRECT_BLOCKS /\ k >= 0
    BY <2>2, EarlyCases
  <2>4. k \in Direct
    <3>1. row[sp] = Datum(L.in, L.ptr, k)
      BY <2>3 DEF Rooted
    <3>2. k \in Int /\ Beyond(k) < 0
      BY <2>3, Layers, Sizes
    <3>. QED
      BY <2>1, <3>1, <3>2, DatumIs DEF Via
  <2>5. k \in Int /\ k < NR_DIRECT_BLOCKS
    BY Sizes, <2>4 DEF Direct
  <2>6. k <= last \/ k >= e
    BY <2>5, Sizes
  <2>7. k \in 0 .. last => sp \in DataSpots(0, last)
    BY <2>3, Pairs
  <2>. QED
    BY <2>3, <2>5, <2>6, <2>7
<1>2. DataSpots(0, last) \subseteq Early
  <2>1. \A k \in 0 .. last : k \in Data /\ Beyond(k) < 0
    BY Sizes DEF Data
  <2>. QED
    BY <2>1, Pairs, SpotsAre DEF Early
<1>. QED
  BY <1>1, <1>2 DEF EarlyGone, DirectCut

LEMMA EarlyAll ==
    ASSUME NEW L, NEW row, Rooted(L, row), NEW e \in Nat, NEW last \in Int,
           -1 <= last, last < NR_DIRECT_BLOCKS,
           last = e - 1 \/ (last = NR_DIRECT_BLOCKS - 1 /\ last < e),
           NEW m \in Int, -1 <= m, m < NR_INDIRECT_BLOCKS,
           m >= e - NR_DIRECT_BLOCKS - 1 \/ m = NR_INDIRECT_BLOCKS - 1,
           NEW P, P = DataSpots(0, last) \cup DataSpots(NR_DIRECT_BLOCKS, NR_DIRECT_BLOCKS + m)
    PROVE  /\ P \cup {<<"indirect", 0>>} \subseteq Early
           /\ <<"indirect", 0>> \notin P
           /\ \A sp \in Early \cap Filled(row) :
                 sp \in P \cup {<<"indirect", 0>>} \/ \E k \in Data : sp = <<"data", k>> /\ k >= e
<1>. DEFINE n == NR_DIRECT_BLOCKS
<1>1. ASSUME NEW sp \in Early \cap Filled(row)
      PROVE  sp \in P \cup {<<"indirect", 0>>} \/ \E k \in Data : sp = <<"data", k>> /\ k >= e
  <2>1. CASE sp # <<"indirect", 0>>
    <3>1. PICK k \in Data : sp = <<"data", k>> /\ k < NR_DIRECT_BLOCKS + NR_INDIRECT_BLOCKS /\ k >= 0
      BY <2>1, EarlyCases
    <3>2. k \in Int
      BY Layers
    <3>3. k >= e \/ k \in 0 .. last \/ k \in n .. (n + m)
      BY <3>1, <3>2, Sizes
    <3>4. k \in 0 .. last \/ k \in n .. (n + m) => sp \in P
      BY <3>1, Pairs
    <3>. QED
      BY <3>1, <3>3, <3>4
  <2>. QED
    BY <2>1
<1>2. P \subseteq Early
  <2>1. \A k \in 0 .. last : k \in Data /\ Beyond(k) < 0
    BY Sizes DEF Data
  <2>2. \A k \in n .. (n + m) : k \in Data /\ Beyond(k) < 0
    <3>. DEFINE x == NR_INDIRECT_BLOCKS * NR_INDIRECT_BLOCKS
    <3>1. x \in Nat /\ MAX_FILE_SIZE = NR_DIRECT_BLOCKS + NR_INDIRECT_BLOCKS + x
      BY Sizes DEF MAX_FILE_SIZE
    <3>. HIDE DEF x
    <3>. QED
      BY <3>1, Sizes DEF Data
  <2>. QED
    BY <2>1, <2>2, Pairs, SpotsAre DEF Early
<1>3. <<"indirect", 0>> \notin P
  <2>1. "data" # "indirect"
    OBVIOUS
  <2>. QED
    BY <2>1, Pairs
<1>. QED
  BY <1>1, <1>2, <1>3, SpotsAre DEF Early

LEMMA IndirectGone ==
    ASSUME NEW L, NEW row, Rooted(L, row), NEW e \in Nat,
           NEW S, S = FreeDirect(L, e), NEW A, A = FreeIndirect(S, e - NR_DIRECT_BLOCKS)
    PROVE  \E P \in SUBSET Spots : EarlyGone(L, row, e, P, A)
<1>. DEFINE n == NR_DIRECT_BLOCKS
            c == e - n
            i == NR_INDIRECT_BLOCKS
            m == Min({c, i}) - 1
            top == S.in.i_indirect
            T == IndirectRun(S, top, S, m)
            U == testfs_free_block_from_inode(T, top)
<1>1. PICK last \in Int :
              /\ -1 <= last /\ last < n
              /\ last = e - 1 \/ (last = n - 1 /\ last < e)
              /\ DirectCut(L, row, S, last)
  BY DirectGone
<1>2. A = IF top = NoBlock THEN S ELSE CutIndirect(U)
  BY Zenon DEF FreeIndirect, IndirectRun, CutIndirect, For
<1>3. m \in Int /\ m < i /\ (m = c - 1 \/ m = i - 1) /\ n \in Nat /\ i \in Nat /\ i > 0 /\ c \in Int
  <2>1. c \in Int /\ i \in Int /\ n \in Nat /\ i > 0 /\ i \in Nat
    BY Sizes
  <2>. HIDE DEF c, i
  <2>2. Min({c, i}) = IF c <= i THEN c ELSE i
    BY <2>1, LeastOfTwo
  <2>. QED
    BY <2>1, <2>2
<1>. HIDE DEF m
<1>4. top = L.in.i_indirect
  BY <1>1 DEF DirectCut
<1>5. CASE top = NoBlock
  <2>1. A = S
    BY <1>2, <1>5
  <2>2. EarlyGone(L, row, e, DataSpots(0, last), S)
    BY <1>1, <1>4, <1>5, EarlyNone
  <2>3. DataSpots(0, last) \in SUBSET Spots
    BY <1>1 DEF DirectCut, Removed
  <2>. QED
    BY <2>1, <2>2, <2>3
<1>6. CASE top # NoBlock
  <2>. DEFINE P0 == DataSpots(0, last)
              sp == <<"indirect", 0>>
              d == IF m < 0 THEN -1 ELSE m
              P == P0 \cup DataSpots(n, n + d)
  <2>1. sp \in Spots /\ row[sp] = top
    BY <1>4, SpotsAre DEF Rooted
  <2>2. Removed(L, row, P0, S)
    BY <1>1 DEF DirectCut
  <2>3. Reached(S, L, top)
    <3>1. sp \notin P0
      BY "data" # "indirect", Pairs
    <3>2. P0 \in SUBSET Spots
      BY <2>2 DEF Removed
    <3>3. row[sp] \notin Gone(row, P0) /\ row[sp] \in Blocks
      BY <1>6, <2>1, <3>1, <3>2, NotGone
    <3>. QED
      BY <1>4, <2>1, <2>2, <3>3 DEF Reached, Removed
  <2>4. d \in Int /\ -1 <= d /\ d < i /\ (d >= c - 1 \/ d = i - 1)
    BY <1>3
  <2>5. IndirectCut(L, row, P0, S, 0 - 1)
    <3>1. DataSpots(n, n - 1) = {} /\ n + (0 - 1) = n - 1
      BY <1>3, SpotsNone
    <3>2. P0 \cup DataSpots(n, n + (0 - 1)) = P0
      BY <3>1
    <3>. QED
      BY <1>1, <2>2, <3>2 DEF IndirectCut, DirectCut
  <2>6. IndirectCut(L, row, P0, T, d)
    <3>1. CASE m < 0
      <4>1. T = S
        BY <3>1, Zenon DEF IndirectRun, For
      <4>2. d = 0 - 1
        BY <3>1
      <4>. QED
        BY <2>5, <4>1, <4>2
    <3>2. CASE ~(m < 0)
      <4>1. T = IndirectRun(S, top, S, m) /\ d = m /\ 0 <= m
        BY <1>3, <3>2
      <4>. HIDE DEF T
      <4>. QED
        BY <1>1, <1>3, <2>3, <2>5, <4>1, IndirectLoop
    <3>. QED
      BY <3>1, <3>2
  <2>. HIDE DEF T
  <2>7. /\ P \cup {sp} \subseteq Early /\ sp \notin P
        /\ \A sq \in Early \cap Filled(row) :
              sq \in P \cup {sp} \/ \E k \in Data : sq = <<"data", k>> /\ k >= e
    <3>1. d >= e - n - 1 \/ d = i - 1
      BY <1>3, <2>4
    <3>2. P = DataSpots(0, last) \cup DataSpots(n, n + d)
      OBVIOUS
    <3>. HIDE DEF d, P
    <3>. QED
      BY <1>1, <2>4, <3>1, <3>2, EarlyAll
  <2>8. Removed(L, row, P, T) /\ T.total = L.total /\ T.in.i_dindirect = L.in.i_dindirect
    BY <2>6 DEF IndirectCut
  <2>. HIDE DEF P
  <2>9. RemovedOne(L, row, P, sp, T, U)
    <3>1. U = testfs_free_block_from_inode(T, row[sp])
      BY <2>1
    <3>. HIDE DEF U, sp
    <3>. QED
      BY <2>1, <2>7, <2>8, <3>1, RemoveOne
  <2>. HIDE DEF U, sp
  <2>10. /\ Removed(L, row, P \cup {sp}, U) /\ U.total = L.total
         /\ U.in.i_dindirect = L.in.i_dindirect /\ U \in State
    BY <2>8, <2>9 DEF RemovedOne, Same, Removed
  <2>11. A = CutIndirect(U)
    BY <1>2, <1>6
  <2>12. Alike(U, A) /\ A.total = U.total /\ A.in.i_dindirect = U.in.i_dindirect
    BY <2>10, <2>11, CutsIndirect
  <2>13. Removed(L, row, P \cup {sp}, A)
    BY <2>10, <2>12, RemovedSame DEF Alike
  <2>14. EarlyGone(L, row, e, P \cup {sp}, A)
    BY <2>7, <2>10, <2>12, <2>13 DEF EarlyGone
  <2>. QED
    BY <2>13, <2>14 DEF Removed
<1>. QED
  BY <1>5, <1>6

-----------------------------------------------------------------------------
(* The blocks behind one entry of the doubly indirect block, a row.  t is  *)
(* the number of blocks counted before.                                    *)

LeafTurn(V, leaf, e, T, j) ==
    IF T.total < e /\ V.ptr[leaf][j] # NoBlock
    THEN Counted(testfs_free_block_from_inode(T, V.ptr[leaf][j])) ELSE T
LeafRun(V, leaf, e, S, last) ==
    For(LAMBDA U, j : IF U.total < e /\ V.ptr[leaf][j] # NoBlock
                      THEN FreeCounted(U, V.ptr[leaf][j]) ELSE U, S, 0, last)

InRow(k, i) == k \in Data /\ Beyond(k) >= 0 /\ LayerThreeBlock(k) = i
Leaves(i, j) == {sp \in Spots : \E k \in Data :
                    sp = <<"data", k>> /\ InRow(k, i) /\ LayerThreePointer(k) <= j}
(* A block of the row that comes early enough is in X.                     *)
Covered(row, e, i, t, j, X) ==
    \A k \in Data : InRow(k, i) /\ LayerThreePointer(k) <= j /\ t + LayerThreePointer(k) < e
                    /\ row[<<"data", k>>] # NoBlock => <<"data", k>> \in X
LeafPart(L, row, e, P, i, t, T, j, X) ==
    /\ X \in SUBSET Leaves(i, j) /\ Removed(L, row, P \cup X, T) /\ Covered(row, e, i, t, j, X)
LeafCut(L, row, e, P, i, t, T, j) ==
    /\ T \in State /\ T.total <= t + j + 1
    /\ \E X \in SUBSET Spots : LeafPart(L, row, e, P, i, t, T, j, X)

(* leaf is the block of row i, P holds nothing of the row.                 *)
RowReached(V, L, row, leaf, i) ==
    leaf = row[<<"three", i>>] /\ leaf \in Blocks /\ V.ptr[leaf] = L.ptr[leaf]
Apart(P, i) == P \in SUBSET Spots /\ \A k \in Data : InRow(k, i) => <<"data", k>> \notin P

LEMMA LeafIs ==
    ASSUME NEW L, NEW row, Rooted(L, row), NEW i \in Slots, NEW V, NEW leaf,
           RowReached(V, L, row, leaf, i), NEW k \in Data, InRow(k, i)
    PROVE  V.ptr[leaf][LayerThreePointer(k)] = row[<<"data", k>>]
<1>1. row[<<"data", k>>] = Via(L.ptr, Via(L.ptr, L.in.i_dindirect, i), LayerThreePointer(k))
  BY DatumIs DEF Rooted, InRow
<1>2. Via(L.ptr, L.in.i_dindirect, i) = leaf
  BY DEF Rooted, RowReached
<1>. QED
  BY <1>1, <1>2 DEF Via, RowReached, Blocks, NoBlock

LEMMA LeavesGrow ==
    ASSUME NEW i \in Slots, NEW j \in Slots, NEW k \in Data, InRow(k, i), LayerThreePointer(k) = j
    PROVE  /\ Leaves(i, j - 1) \subseteq Leaves(i, j) /\ <<"data", k>> \in Leaves(i, j)
           /\ <<"data", k>> \notin Leaves(i, j - 1)
           /\ \A h \in Data : InRow(h, i) /\ LayerThreePointer(h) <= j =>
                 h = k \/ LayerThreePointer(h) <= j - 1
<1>1. j \in Int
  BY DEF Slots
<1>2. \A h \in Data : InRow(h, i) => LayerThreePointer(h) \in Int
  BY Layers DEF InRow, Slots
<1>3. Leaves(i, j - 1) \subseteq Leaves(i, j)
  <2>1. \A h \in Data : InRow(h, i) /\ LayerThreePointer(h) <= j - 1 => LayerThreePointer(h) <= j
    BY <1>1, <1>2
  <2>. QED
    BY <2>1 DEF Leaves
<1>4. <<"data", k>> \in Leaves(i, j)
  BY <1>1, SpotsAre DEF Leaves
<1>5. <<"data", k>> \notin Leaves(i, j - 1)
  BY <1>1, Pairs DEF Leaves
<1>6. \A h \in Data : InRow(h, i) /\ LayerThreePointer(h) <= j =>
         h = k \/ LayerThreePointer(h) <= j - 1
  <2>. TAKE h \in Data
  <2>. HAVE InRow(h, i) /\ LayerThreePointer(h) <= j
  <2>1. LayerThreePointer(h) = j => h = k
    BY SameLayers DEF InRow
  <2>2. LayerThreePointer(h) \in Int
    BY <1>2
  <2>. QED
    BY <1>1, <2>1, <2>2
<1>. QED
  BY <1>3, <1>4, <1>5, <1>6

LEMMA LeafOnce ==
    ASSUME NEW L, NEW row, Rooted(L, row), NEW e \in Int, NEW t \in Int, NEW i \in Slots,
           NEW P, Apart(P, i), NEW V, NEW leaf, RowReached(V, L, row, leaf, i),
           NEW j \in Slots, NEW T, LeafCut(L, row, e, P, i, t, T, j - 1),
           NEW A, A = LeafTurn(V, leaf, e, T, j)
    PROVE  A \in State /\ LeafCut(L, row, e, P, i, t, A, j)
<1>1. PICK k \in Data : InRow(k, i) /\ LayerThreePointer(k) = j
  BY BehindLayers DEF InRow
<1>. DEFINE sp == <<"data", k>>
            b == V.ptr[leaf][j]
            U == testfs_free_block_from_inode(T, b)
<1>2. b = row[sp] /\ sp \in Spots
  BY <1>1, LeafIs, SpotsAre
<1>3. PICK X \in SUBSET Spots : LeafPart(L, row, e, P, i, t, T, j - 1, X)
  BY DEF LeafCut
<1>4. /\ X \in SUBSET Leaves(i, j - 1) /\ Removed(L, row, P \cup X, T)
      /\ Covered(row, e, i, t, j - 1, X)
      /\ T \in State /\ T.total \in Int /\ T.total <= t + (j - 1) + 1
  BY <1>3, StateFields DEF LeafPart, LeafCut
<1>5. j \in Int
  BY DEF Slots
<1>6. /\ Leaves(i, j - 1) \subseteq Leaves(i, j) /\ sp \in Leaves(i, j)
      /\ sp \notin Leaves(i, j - 1)
      /\ \A h \in Data : InRow(h, i) /\ LayerThreePointer(h) <= j =>
            h = k \/ LayerThreePointer(h) <= j - 1
  BY <1>1, LeavesGrow
<1>7. A = IF T.total < e /\ b # NoBlock THEN Counted(U) ELSE T
  BY Zenon DEF LeafTurn
<1>8. sp \notin P \cup X
  BY <1>1, <1>4, <1>6 DEF Apart
<1>9. U = testfs_free_block_from_inode(T, row[sp])
  BY <1>2
<1>. HIDE DEF U, b, sp
<1>10. CASE T.total < e /\ b # NoBlock
  <2>. DEFINE Y == X \cup {sp}
              PX == P \cup X
  <2>1. PX \cup {sp} = P \cup Y
    OBVIOUS
  <2>2. RemovedOne(L, row, PX, sp, T, U)
    <3>1. Removed(L, row, PX, T) /\ sp \notin PX
      BY <1>4, <1>8
    <3>. HIDE DEF PX
    <3>. QED
      BY <1>2, <1>9, <3>1, RemoveOne
  <2>. HIDE DEF PX
  <2>3. Removed(L, row, P \cup Y, U) /\ U.total = T.total /\ U \in State
    BY <2>1, <2>2 DEF RemovedOne, Removed
  <2>4. A = Counted(U)
    BY <1>7, <1>10
  <2>5. Alike(U, A) /\ A.total = U.total + 1
    BY <2>3, <2>4, CountIs
  <2>6. Removed(L, row, P \cup Y, A) /\ A \in State
    BY <2>3, <2>5, RemovedSame DEF Alike
  <2>7. A.total <= t + j + 1
    BY <1>4, <1>5, <2>3, <2>5
  <2>8. Covered(row, e, i, t, j, Y)
    <3>1. ASSUME NEW h \in Data, InRow(h, i), LayerThreePointer(h) <= j,
                 t + LayerThreePointer(h) < e, row[<<"data", h>>] # NoBlock
          PROVE  <<"data", h>> \in Y
      <4>1. h = k => <<"data", h>> = sp
        BY DEF sp
      <4>2. h = k \/ LayerThreePointer(h) <= j - 1
        BY <1>6, <3>1
      <4>3. LayerThreePointer(h) <= j - 1 => <<"data", h>> \in X
        BY <1>4, <3>1 DEF Covered
      <4>. QED
        BY <4>1, <4>2, <4>3
    <3>. HIDE DEF Y
    <3>. QED
      BY <3>1 DEF Covered
  <2>9. Y \in SUBSET Leaves(i, j) /\ Y \in SUBSET Spots
    BY <1>2, <1>4, <1>6
  <2>. HIDE DEF Y
  <2>. QED
    BY <2>6, <2>7, <2>8, <2>9 DEF LeafCut, LeafPart
<1>11. CASE ~(T.total < e /\ b # NoBlock)
  <2>1. A = T
    BY <1>7, <1>11
  <2>2. Covered(row, e, i, t, j, X)
    <3>1. ASSUME NEW h \in Data, InRow(h, i), LayerThreePointer(h) <= j,
                 t + LayerThreePointer(h) < e, row[<<"data", h>>] # NoBlock
          PROVE  <<"data", h>> \in X
      <4>1. h # k
        <5>. SUFFICES ASSUME h = k PROVE FALSE
          OBVIOUS
        <5>1. t + j < e /\ b # NoBlock
          BY <1>1, <1>2, <3>1 DEF sp
        <5>2. T.total < e
          BY <1>4, <1>5, <5>1
        <5>. QED
          BY <1>11, <5>1, <5>2
      <4>2. LayerThreePointer(h) <= j - 1
        BY <1>6, <3>1, <4>1
      <4>. QED
        BY <1>4, <3>1, <4>2 DEF Covered
    <3>. QED
      BY <3>1 DEF Covered
  <2>3. X \in SUBSET Leaves(i, j)
    BY <1>4, <1>6
  <2>4. T.total <= t + j + 1
    BY <1>4, <1>5
  <2>. QED
    BY <1>4, <2>1, <2>2, <2>3, <2>4 DEF LeafCut, LeafPart
<1>. QED
  BY <1>10, <1>11

(* The loop over the blocks of a row.                                      *)
LEMMA LeafLoop ==
    ASSUME NEW L, NEW row, Rooted(L, row), NEW e \in Int, NEW t \in Int, NEW i \in Slots,
           NEW P, Apart(P, i), NEW V, NEW leaf, RowReached(V, L, row, leaf, i),
           NEW last \in Int, 0 <= last, last < NR_INDIRECT_BLOCKS,
           NEW S, LeafCut(L, row, e, P, i, t, S, 0 - 1), NEW R, R = LeafRun(V, leaf, e, S, last)
    PROVE  LeafCut(L, row, e, P, i, t, R, last)
<1>. DEFINE Q == {p \in State \X Int : LeafCut(L, row, e, P, i, t, p[1], p[2])}
            body == [p \in State \X (0 .. last) |-> LeafTurn(V, leaf, e, p[1], p[2])]
            after == CHOOSE g : g = [k \in (0 - 1) .. last |->
                                       IF k < 0 THEN S ELSE LeafTurn(V, leaf, e, g[k - 1], k)]
<1>1. R = IF last < 0 THEN S ELSE after[last]
  BY Zenon DEF For, LeafRun, LeafTurn, FreeCounted, Counted
<1>3. \A T, k : <<T, k>> \in Q <=> T \in State /\ k \in Int /\ LeafCut(L, row, e, P, i, t, T, k)
  OBVIOUS
<1>4. \A T \in State : \A k \in 0 .. last : body[<<T, k>>] = LeafTurn(V, leaf, e, T, k)
  OBVIOUS
<1>. HIDE DEF Q, body
<1>5. ASSUME NEW k \in 0 .. last, NEW T, <<T, k - 1>> \in Q
      PROVE  LeafTurn(V, leaf, e, T, k) \in State /\ <<LeafTurn(V, leaf, e, T, k), k>> \in Q
  <2>1. k \in Int /\ k >= 0 /\ k <= last
    OBVIOUS
  <2>2. LeafCut(L, row, e, P, i, t, T, k - 1)
    BY <1>3, <1>5
  <2>. DEFINE U == LeafTurn(V, leaf, e, T, k)
  <2>3. U = LeafTurn(V, leaf, e, T, k)
    OBVIOUS
  <2>. HIDE DEF U
  <2>4. U \in State /\ LeafCut(L, row, e, P, i, t, U, k)
    <3>1. k \in Slots
      BY <2>1, Sizes DEF Slots
    <3>. QED
      BY <2>2, <2>3, <3>1, LeafOnce
  <2>. QED
    BY <1>3, <2>1, <2>3, <2>4
<1>6. Turns(State, 0, last, Q, body)
  <2>. SUFFICES ASSUME NEW k \in 0 .. last, NEW T \in State, <<T, k - 1>> \in Q
                PROVE  body[<<T, k>>] \in State /\ <<body[<<T, k>>], k>> \in Q
    BY DEF Turns
  <2>. QED
    BY <1>4, <1>5
<1>7. S \in State /\ <<S, 0 - 1>> \in Q
  <2>1. S \in State
    BY DEF LeafCut
  <2>2. 0 - 1 \in Int /\ LeafCut(L, row, e, P, i, t, S, 0 - 1)
    OBVIOUS
  <2>. QED
    BY <1>3, <2>1, <2>2
<1>2. 0 \in Int /\ last \in Int
  OBVIOUS
<1>14. \E g : Ran(g, State, body, S, last, Q)
  BY ONLY <1>2, <1>6, <1>7, LoopZero
<1>8. PICK g : /\ g = Rounds(body, S, 0, last, g)
               /\ \A k \in 0 .. last : g[k - 1] \in State /\ <<g[k - 1], k - 1>> \in Q
  BY <1>14, Zenon DEF Ran
<1>9. g = [k \in (0 - 1) .. last |-> IF k < 0 THEN S ELSE LeafTurn(V, leaf, e, g[k - 1], k)]
  <2>1. \A k \in (0 - 1) .. last : ~(k < 0) => body[<<g[k - 1], k>>] = LeafTurn(V, leaf, e, g[k - 1], k)
    <3>. TAKE k \in (0 - 1) .. last
    <3>. HAVE ~(k < 0)
    <3>1. k \in 0 .. last
      OBVIOUS
    <3>. QED
      BY <1>4, <1>8, <3>1
  <2>2. Rounds(body, S, 0, last, g) =
           [k \in (0 - 1) .. last |-> IF k < 0 THEN S ELSE body[<<g[k - 1], k>>]]
    BY DEF Rounds
  <2>3. [k \in (0 - 1) .. last |-> IF k < 0 THEN S ELSE body[<<g[k - 1], k>>]]
        = [k \in (0 - 1) .. last |-> IF k < 0 THEN S ELSE LeafTurn(V, leaf, e, g[k - 1], k)]
    BY <2>1
  <2>. QED
    BY <1>8, <2>2, <2>3
<1>10. after = [k \in (0 - 1) .. last |-> IF k < 0 THEN S ELSE LeafTurn(V, leaf, e, after[k - 1], k)]
  BY <1>9, Zenon
<1>. HIDE DEF after
<1>11. /\ after[0 - 1] = S
       /\ \A k \in 0 .. last : after[k] = LeafTurn(V, leaf, e, after[k - 1], k)
  <2>1. \A k \in (0 - 1) .. last : after[k] = IF k < 0 THEN S ELSE LeafTurn(V, leaf, e, after[k - 1], k)
    <3>. DEFINE h == [k \in (0 - 1) .. last |-> IF k < 0 THEN S ELSE LeafTurn(V, leaf, e, after[k - 1], k)]
    <3>1. \A k \in (0 - 1) .. last : h[k] = IF k < 0 THEN S ELSE LeafTurn(V, leaf, e, after[k - 1], k)
      OBVIOUS
    <3>2. after = h
      BY <1>10
    <3>. HIDE DEF h
    <3>. QED
      BY <3>1, <3>2
  <2>2. 0 - 1 \in (0 - 1) .. last /\ 0 - 1 < 0
    OBVIOUS
  <2>3. \A k \in 0 .. last : k \in (0 - 1) .. last /\ ~(k < 0)
    OBVIOUS
  <2>. QED
    BY <2>1, <2>2, <2>3
<1>12. \A k \in 0 .. last : <<after[k - 1], k - 1>> \in Q => <<after[k], k>> \in Q
  BY <1>5, <1>11
<1>13. <<after[last], last>> \in Q
  <2>1. <<after[0 - 1], 0 - 1>> \in Q
    BY <1>7, <1>11
  <2>. QED
    BY <1>12, <2>1, KeepZero
<1>. QED
  BY <1>1, <1>3, <1>13

RowOf(i) == {sp \in Spots : sp = <<"three", i>> \/ \E k \in Data : sp = <<"data", k>> /\ InRow(k, i)}
RowPart(L, row, e, P, i, t, A, X) ==
    /\ X \in SUBSET RowOf(i) /\ <<"three", i>> \in X /\ Removed(L, row, P \cup X, A)
    /\ Covered(row, e, i, t, NR_INDIRECT_BLOCKS - 1, X)

LEMMA RowGone ==
    ASSUME NEW L, NEW row, Rooted(L, row), NEW e \in Int, NEW i \in Slots,
           NEW P, Apart(P, i), <<"three", i>> \notin P, NEW V, Removed(L, row, P, V),
           NEW leaf, leaf = row[<<"three", i>>], leaf # NoBlock,
           NEW A, A = FreeLayerThree(V, leaf, e)
    PROVE  A \in State /\ \E X \in SUBSET Spots : RowPart(L, row, e, P, i, V.total, A, X)
<1>. DEFINE n == NR_INDIRECT_BLOCKS - 1
            T == LeafRun(V, leaf, e, V, n)
            U == testfs_free_block_from_inode(T, leaf)
            sp == <<"three", i>>
            t == V.total
<1>1. A = Counted(U)
  BY Zenon DEF FreeLayerThree, FreeCounted, LeafRun, Counted
<1>2. sp \in Spots /\ V \in State /\ t \in Int /\ n \in Int /\ 0 <= n /\ n < NR_INDIRECT_BLOCKS
      /\ P \in SUBSET Spots
  BY SpotsAre, StateFields, Sizes DEF Removed
<1>3. RowReached(V, L, row, leaf, i)
  <2>1. leaf \in Blocks /\ leaf \notin Gone(row, P)
    BY <1>2, NotGone
  <2>. QED
    BY <2>1 DEF RowReached, Removed
<1>4. LeafCut(L, row, e, P, i, t, V, 0 - 1)
  <2>1. Leaves(i, 0 - 1) = {} /\ \A k \in Data : InRow(k, i) => ~(LayerThreePointer(k) <= 0 - 1)
    <3>1. \A k \in Data : InRow(k, i) => ~(LayerThreePointer(k) <= 0 - 1)
      BY Layers DEF InRow, Slots
    <3>. QED
      BY <3>1 DEF Leaves
  <2>2. Covered(row, e, i, t, 0 - 1, {})
    BY <2>1 DEF Covered
  <2>3. P \cup {} = P
    OBVIOUS
  <2>4. LeafPart(L, row, e, P, i, t, V, 0 - 1, {})
    BY <2>2, <2>3 DEF LeafPart
  <2>5. t <= t + (0 - 1) + 1
    BY <1>2
  <2>. QED
    BY <1>2, <2>4, <2>5 DEF LeafCut
<1>5. LeafCut(L, row, e, P, i, t, T, n)
  <2>1. T = LeafRun(V, leaf, e, V, n)
    OBVIOUS
  <2>. HIDE DEF T, n, t
  <2>. QED
    BY <1>2, <1>3, <1>4, <2>1, LeafLoop
<1>. HIDE DEF T
<1>6. PICK X \in SUBSET Spots : LeafPart(L, row, e, P, i, t, T, n, X)
  BY <1>5 DEF LeafCut
<1>. DEFINE PX == P \cup X
            Y == X \cup {sp}
<1>7. /\ X \in SUBSET Leaves(i, n) /\ Removed(L, row, PX, T) /\ Covered(row, e, i, t, n, X)
  BY <1>6 DEF LeafPart
<1>8. PX \cup {sp} = P \cup Y /\ sp \notin PX
  <2>1. sp \notin Leaves(i, n)
    BY Pairs, "three" # "data" DEF Leaves
  <2>. QED
    BY <1>7, <2>1
<1>9. RemovedOne(L, row, PX, sp, T, U)
  <2>1. U = testfs_free_block_from_inode(T, row[sp])
    OBVIOUS
  <2>. HIDE DEF U, PX, sp
  <2>. QED
    BY <1>2, <1>7, <1>8, <2>1, RemoveOne
<1>. HIDE DEF U, PX
<1>10. Removed(L, row, P \cup Y, U) /\ U \in State
  BY <1>8, <1>9 DEF RemovedOne, Removed
<1>11. Alike(U, A)
  BY <1>1, <1>10, CountIs
<1>12. Removed(L, row, P \cup Y, A) /\ A \in State
  BY <1>10, <1>11, RemovedSame DEF Alike
<1>13. Covered(row, e, i, t, n, Y)
  BY <1>7 DEF Covered
<1>14. Y \in SUBSET RowOf(i) /\ sp \in Y /\ Y \in SUBSET Spots
  <2>1. Leaves(i, n) \subseteq RowOf(i) /\ sp \in RowOf(i)
    BY <1>2 DEF Leaves, RowOf
  <2>. QED
    BY <1>2, <1>7, <2>1
<1>15. RowPart(L, row, e, P, i, t, A, Y)
  <2>. HIDE DEF Y
  <2>. QED
    BY <1>12, <1>13, <1>14 DEF RowPart
<1>. QED
  BY <1>12, <1>14, <1>15

-----------------------------------------------------------------------------
(* The doubly indirect block and its rows.                                 *)

RowTurn(V, top, e, T, i) ==
    IF T.total < e /\ V.ptr[top][i] # NoBlock THEN FreeLayerThree(T, V.ptr[top][i], e) ELSE T
RowRun(V, top, e, S, last) ==
    For(LAMBDA U, i : IF U.total < e /\ V.ptr[top][i] # NoBlock
                      THEN FreeLayerThree(U, V.ptr[top][i], e) ELSE U, S, 0, last)

Rows(i) == {sp \in Spots : \E r \in 0 .. i : sp \in RowOf(r)}
(* The first row goes as far as the size covers it.                        *)
FirstRow(row, e, X) ==
    0 < e /\ row[<<"three", 0>>] # NoBlock =>
       <<"three", 0>> \in X /\ Covered(row, e, 0, 0, NR_INDIRECT_BLOCKS - 1, X)
RowsPart(L, row, e, P, T, i, X) ==
    /\ X \in SUBSET Rows(i) /\ Removed(L, row, P \cup X, T)
    /\ i < 0 => T.total = 0
    /\ i >= 0 => FirstRow(row, e, X)
RowsCut(L, row, e, P, T, i) ==
    T \in State /\ \E X \in SUBSET Spots : RowsPart(L, row, e, P, T, i, X)
DoubleReached(V, L, top) == top = L.in.i_dindirect /\ top \in Blocks /\ V.ptr[top] = L.ptr[top]

LEMMA RowsApart ==
    ASSUME NEW i \in Slots, NEW P, P \subseteq Early, P \in SUBSET Spots,
           NEW X \in SUBSET Rows(i - 1)
    PROVE  Apart(P \cup X, i) /\ <<"three", i>> \notin P \cup X
<1>1. i \in Int
  BY DEF Slots
<1>2. ASSUME NEW k \in Data, InRow(k, i)
      PROVE  <<"data", k>> \notin P /\ <<"data", k>> \notin X
  <2>1. <<"data", k>> \notin Early
    <3>1. "data" # "indirect" /\ Beyond(k) \in Int /\ Beyond(k) >= 0
      BY <1>2, Layers, Sizes DEF InRow
    <3>. QED
      BY <3>1, Pairs DEF Early
  <2>2. <<"data", k>> \notin Rows(i - 1)
    <3>1. \A r \in 0 .. (i - 1) : <<"data", k>> \notin RowOf(r)
      <4>. TAKE r \in 0 .. (i - 1)
      <4>1. r # i
        BY <1>1
      <4>2. "data" # "three"
        OBVIOUS
      <4>. QED
        BY <1>2, <4>1, <4>2, Pairs DEF RowOf, InRow
    <3>. QED
      BY <3>1 DEF Rows
  <2>. QED
    BY <2>1, <2>2
<1>3. <<"three", i>> \notin P
  <2>1. "three" # "indirect" /\ "three" # "data"
    OBVIOUS
  <2>. QED
    BY <2>1, Pairs DEF Early
<1>4. <<"three", i>> \notin X
  <2>1. \A r \in 0 .. (i - 1) : <<"three", i>> \notin RowOf(r)
    <3>. TAKE r \in 0 .. (i - 1)
    <3>1. r # i
      BY <1>1
    <3>2. "data" # "three"
      OBVIOUS
    <3>. QED
      BY <3>1, <3>2, Pairs DEF RowOf
  <2>. QED
    BY <2>1 DEF Rows
<1>5. X \in SUBSET Spots
  BY DEF Rows
<1>. QED
  BY <1>2, <1>3, <1>4, <1>5 DEF Apart

LEMMA RowsGrow ==
    ASSUME NEW i \in Slots
    PROVE  Rows(i - 1) \subseteq Rows(i) /\ RowOf(i) \subseteq Rows(i)
<1>1. i \in Int /\ i >= 0
  BY Sizes DEF Slots
<1>2. 0 .. (i - 1) \subseteq 0 .. i /\ i \in 0 .. i
  BY <1>1
<1>. QED
  BY <1>2 DEF Rows, RowOf

LEMMA RowOnce ==
    ASSUME NEW L, NEW row, Rooted(L, row), NEW e \in Int,
           NEW P, P \subseteq Early, P \in SUBSET Spots, NEW V, NEW top, DoubleReached(V, L, top),
           NEW i \in Slots, NEW T, RowsCut(L, row, e, P, T, i - 1),
           NEW A, A = RowTurn(V, top, e, T, i)
    PROVE  A \in State /\ RowsCut(L, row, e, P, A, i)
<1>. DEFINE leaf == V.ptr[top][i]
            sp == <<"three", i>>
            n == NR_INDIRECT_BLOCKS - 1
<1>1. PICK X \in SUBSET Spots : RowsPart(L, row, e, P, T, i - 1, X)
  BY DEF RowsCut
<1>. DEFINE PX == P \cup X
<1>2. /\ X \in SUBSET Rows(i - 1) /\ Removed(L, row, PX, T) /\ T \in State /\ T.total \in Int
      /\ i - 1 < 0 => T.total = 0
      /\ i - 1 >= 0 => FirstRow(row, e, X)
  BY <1>1, StateFields DEF RowsPart, RowsCut
<1>3. leaf = row[sp] /\ sp \in Spots
  <2>1. row[sp] = Via(L.ptr, L.in.i_dindirect, i)
    BY DEF Rooted
  <2>. QED
    BY <2>1, SpotsAre DEF DoubleReached, Via, Blocks, NoBlock
<1>4. Apart(PX, i) /\ sp \notin PX
  BY <1>2, RowsApart
<1>5. i \in Int /\ i >= 0 /\ Rows(i - 1) \subseteq Rows(i) /\ RowOf(i) \subseteq Rows(i)
  BY RowsGrow, Sizes DEF Slots
<1>6. A = IF T.total < e /\ leaf # NoBlock THEN FreeLayerThree(T, leaf, e) ELSE T
  BY Zenon DEF RowTurn
<1>. HIDE DEF leaf
<1>7. CASE T.total < e /\ leaf # NoBlock
  <2>1. A = FreeLayerThree(T, leaf, e)
    BY <1>6, <1>7
  <2>. HIDE DEF PX
  <2>2. A \in State /\ \E Y \in SUBSET Spots : RowPart(L, row, e, PX, i, T.total, A, Y)
    BY <1>2, <1>3, <1>4, <1>7, <2>1, RowGone
  <2>3. PICK Y \in SUBSET Spots : RowPart(L, row, e, PX, i, T.total, A, Y)
    BY <2>2
  <2>4. /\ Y \in SUBSET RowOf(i) /\ sp \in Y /\ Removed(L, row, PX \cup Y, A)
        /\ Covered(row, e, i, T.total, n, Y)
    BY <2>3 DEF RowPart
  <2>. DEFINE Z == X \cup Y
  <2>5. PX \cup Y = P \cup Z
    BY DEF PX
  <2>6. Z \in SUBSET Rows(i) /\ Z \in SUBSET Spots
    BY <1>2, <1>5, <2>4
  <2>7. FirstRow(row, e, Z)
    <3>1. CASE i = 0
      <4>1. T.total = 0
        BY <1>2, <3>1
      <4>2. sp \in Z /\ Covered(row, e, 0, 0, n, Y)
        BY <2>4, <3>1, <4>1
      <4>3. Covered(row, e, 0, 0, n, Z)
        BY <4>2 DEF Covered
      <4>. HIDE DEF Z
      <4>. QED
        BY <3>1, <4>2, <4>3 DEF FirstRow
    <3>2. CASE i # 0
      <4>1. FirstRow(row, e, X)
        BY <1>2, <1>5, <3>2
      <4>. QED
        BY <4>1 DEF FirstRow, Covered
    <3>. QED
      BY <3>1, <3>2
  <2>8. RowsPart(L, row, e, P, A, i, Z)
    <3>. HIDE DEF Z
    <3>1. ~(i < 0)
      BY <1>5
    <3>. QED
      BY <2>4, <2>5, <2>6, <2>7, <3>1 DEF RowsPart
  <2>. QED
    BY <2>2, <2>6, <2>8 DEF RowsCut
<1>8. CASE ~(T.total < e /\ leaf # NoBlock)
  <2>1. A = T
    BY <1>6, <1>8
  <2>2. FirstRow(row, e, X)
    <3>1. CASE i = 0
      <4>1. T.total = 0
        BY <1>2, <3>1
      <4>. QED
        BY <1>3, <1>8, <3>1, <4>1 DEF FirstRow
    <3>2. CASE i # 0
      BY <1>2, <1>5, <3>2
    <3>. QED
      BY <3>1, <3>2
  <2>3. RowsPart(L, row, e, P, A, i, X)
    <3>1. ~(i < 0) /\ X \in SUBSET Rows(i)
      BY <1>2, <1>5
    <3>. QED
      BY <1>2, <2>1, <2>2, <3>1 DEF RowsPart
  <2>. QED
    BY <1>2, <2>1, <2>3 DEF RowsCut
<1>. QED
  BY <1>7, <1>8

(* The loop over the rows.                                                 *)
LEMMA RowLoop ==
    ASSUME NEW L, NEW row, Rooted(L, row), NEW e \in Int,
           NEW P, P \subseteq Early, P \in SUBSET Spots, NEW V, NEW top, DoubleReached(V, L, top),
           NEW last \in Int, 0 <= last, last < NR_INDIRECT_BLOCKS,
           NEW S, RowsCut(L, row, e, P, S, 0 - 1), NEW R, R = RowRun(V, top, e, S, last)
    PROVE  RowsCut(L, row, e, P, R, last)
<1>. DEFINE Q == {p \in State \X Int : RowsCut(L, row, e, P, p[1], p[2])}
            body == [p \in State \X (0 .. last) |-> RowTurn(V, top, e, p[1], p[2])]
            after == CHOOSE g : g = [k \in (0 - 1) .. last |->
                                       IF k < 0 THEN S ELSE RowTurn(V, top, e, g[k - 1], k)]
<1>1. R = IF last < 0 THEN S ELSE after[last]
  BY Zenon DEF For, RowRun, RowTurn
<1>3. \A T, k : <<T, k>> \in Q <=> T \in State /\ k \in Int /\ RowsCut(L, row, e, P, T, k)
  OBVIOUS
<1>4. \A T \in State : \A k \in 0 .. last : body[<<T, k>>] = RowTurn(V, top, e, T, k)
  OBVIOUS
<1>. HIDE DEF Q, body
<1>5. ASSUME NEW k \in 0 .. last, NEW T, <<T, k - 1>> \in Q
      PROVE  RowTurn(V, top, e, T, k) \in State /\ <<RowTurn(V, top, e, T, k), k>> \in Q
  <2>1. k \in Int /\ k >= 0 /\ k <= last
    OBVIOUS
  <2>2. RowsCut(L, row, e, P, T, k - 1)
    BY <1>3, <1>5
  <2>. DEFINE U == RowTurn(V, top, e, T, k)
  <2>3. U = RowTurn(V, top, e, T, k)
    OBVIOUS
  <2>. HIDE DEF U
  <2>4. U \in State /\ RowsCut(L, row, e, P, U, k)
    <3>1. k \in Slots
      BY <2>1, Sizes DEF Slots
    <3>. QED
      BY <2>2, <2>3, <3>1, RowOnce
  <2>. QED
    BY <1>3, <2>1, <2>3, <2>4
<1>6. Turns(State, 0, last, Q, body)
  <2>. SUFFICES ASSUME NEW k \in 0 .. last, NEW T \in State, <<T, k - 1>> \in Q
                PROVE  body[<<T, k>>] \in State /\ <<body[<<T, k>>], k>> \in Q
    BY DEF Turns
  <2>. QED
    BY <1>4, <1>5
<1>7. S \in State /\ <<S, 0 - 1>> \in Q
  <2>1. S \in State
    BY DEF RowsCut
  <2>2. 0 - 1 \in Int /\ RowsCut(L, row, e, P, S, 0 - 1)
    OBVIOUS
  <2>. QED
    BY <1>3, <2>1, <2>2
<1>2. 0 \in Int /\ last \in Int
  OBVIOUS
<1>14. \E g : Ran(g, State, body, S, last, Q)
  BY ONLY <1>2, <1>6, <1>7, LoopZero
<1>8. PICK g : /\ g = Rounds(body, S, 0, last, g)
               /\ \A k \in 0 .. last : g[k - 1] \in State /\ <<g[k - 1], k - 1>> \in Q
  BY <1>14, Zenon DEF Ran
<1>9. g = [k \in (0 - 1) .. last |-> IF k < 0 THEN S ELSE RowTurn(V, top, e, g[k - 1], k)]
  <2>1. \A k \in (0 - 1) .. last : ~(k < 0) => body[<<g[k - 1], k>>] = RowTurn(V, top, e, g[k - 1], k)
    <3>. TAKE k \in (0 - 1) .. last
    <3>. HAVE ~(k < 0)
    <3>1. k \in 0 .. last
      OBVIOUS
    <3>. QED
      BY <1>4, <1>8, <3>1
  <2>2. Rounds(body, S, 0, last, g) =
           [k \in (0 - 1) .. last |-> IF k < 0 THEN S ELSE body[<<g[k - 1], k>>]]
    BY DEF Rounds
  <2>3. [k \in (0 - 1) .. last |-> IF k < 0 THEN S ELSE body[<<g[k - 1], k>>]]
        = [k \in (0 - 1) .. last |-> IF k < 0 THEN S ELSE RowTurn(V, top, e, g[k - 1], k)]
    BY <2>1
  <2>. QED
    BY <1>8, <2>2, <2>3
<1>10. after = [k \in (0 - 1) .. last |-> IF k < 0 THEN S ELSE RowTurn(V, top, e, after[k - 1], k)]
  BY <1>9, Zenon
<1>. HIDE DEF after
<1>11. /\ after[0 - 1] = S
       /\ \A k \in 0 .. last : after[k] = RowTurn(V, top, e, after[k - 1], k)
  <2>1. \A k \in (0 - 1) .. last : after[k] = IF k < 0 THEN S ELSE RowTurn(V, top, e, after[k - 1], k)
    <3>. DEFINE h == [k \in (0 - 1) .. last |-> IF k < 0 THEN S ELSE RowTurn(V, top, e, after[k - 1], k)]
    <3>1. \A k \in (0 - 1) .. last : h[k] = IF k < 0 THEN S ELSE RowTurn(V, top, e, after[k - 1], k)
      OBVIOUS
    <3>2. after = h
      BY <1>10
    <3>. HIDE DEF h
    <3>. QED
      BY <3>1, <3>2
  <2>2. 0 - 1 \in (0 - 1) .. last /\ 0 - 1 < 0
    OBVIOUS
  <2>3. \A k \in 0 .. last : k \in (0 - 1) .. last /\ ~(k < 0)
    OBVIOUS
  <2>. QED
    BY <2>1, <2>2, <2>3
<1>12. \A k \in 0 .. last : <<after[k - 1], k - 1>> \in Q => <<after[k], k>> \in Q
  BY <1>5, <1>11
<1>13. <<after[last], last>> \in Q
  <2>1. <<after[0 - 1], 0 - 1>> \in Q
    BY <1>7, <1>11
  <2>. QED
    BY <1>12, <2>1, KeepZero
<1>. QED
  BY <1>1, <1>3, <1>13

(* What a removal leaves.                                                  *)
AllGone(L, row, e, Z, A) ==
    /\ Removed(L, row, Z, A)
    /\ Beyond(e) >= 0 /\ row[<<"dindirect", 0>>] # NoBlock => <<"dindirect", 0>> \in Z
    /\ Beyond(e) < 0 => <<"dindirect", 0>> \notin Z
    /\ \A sp \in Early \cap Filled(row) :
          sp \in Z \/ \E k \in Data : sp = <<"data", k>> /\ k >= e
    /\ 0 < Beyond(e) /\ row[<<"three", 0>>] # NoBlock =>
          <<"dindirect", 0>> \in Z /\ FirstRow(row, Beyond(e), Z)

LEMMA DoubleGone ==
    ASSUME NEW L, NEW row, Rooted(L, row), L.total = 0, NEW e \in Nat,
           NEW P \in SUBSET Spots, NEW S, EarlyGone(L, row, e, P, S),
           NEW A, A = FreeDouble(S, Beyond(e))
    PROVE  \E Z \in SUBSET Spots : AllGone(L, row, e, Z, A)
<1>. DEFINE d == Beyond(e)
            n == NR_INDIRECT_BLOCKS - 1
            top == S.in.i_dindirect
            T == RowRun(S, top, d, S, n)
            U == testfs_free_block_from_inode(T, top)
            sp == <<"dindirect", 0>>
<1>1. A = IF d < 0 \/ top = NoBlock THEN S ELSE CutDindirect(U)
  BY Zenon DEF FreeDouble, RowRun, CutDindirect, For
<1>2. /\ Removed(L, row, P, S) /\ P \subseteq Early /\ S.total = 0 /\ S \in State
      /\ top = L.in.i_dindirect
      /\ \A sq \in Early \cap Filled(row) :
            sq \in P \/ \E k \in Data : sq = <<"data", k>> /\ k >= e
  BY DEF EarlyGone, Removed
<1>3. d \in Int /\ n \in Int /\ 0 <= n /\ n < NR_INDIRECT_BLOCKS
  BY Sizes
<1>. HIDE DEF d, n
<1>4. CASE d < 0 \/ top = NoBlock
  <2>1. A = S
    BY <1>1, <1>4
  <2>2. ~(0 < d /\ row[<<"three", 0>>] # NoBlock)
    <3>1. 0 \in Slots
      BY Sizes DEF Slots
    <3>2. row[<<"three", 0>>] = Via(L.ptr, L.in.i_dindirect, 0)
      BY <3>1 DEF Rooted
    <3>. QED
      BY <1>2, <1>3, <1>4, <3>2 DEF Via
  <2>4. sp \notin P /\ (d >= 0 => row[sp] = NoBlock)
    <3>1. sp \notin Early
      BY "dindirect" # "indirect", "dindirect" # "data", Pairs DEF Early
    <3>2. row[sp] = top
      BY <1>2 DEF Rooted
    <3>. QED
      BY <1>2, <1>3, <1>4, <3>1, <3>2
  <2>3. AllGone(L, row, e, P, A)
    BY <1>2, <2>1, <2>2, <2>4 DEF AllGone, d
  <2>. QED
    BY <2>3
<1>5. CASE ~(d < 0 \/ top = NoBlock)
  <2>1. sp \in Spots /\ row[sp] = top
    BY <1>2, SpotsAre DEF Rooted
  <2>2. sp \notin Early
    BY "dindirect" # "indirect", "dindirect" # "data", Pairs DEF Early
  <2>3. DoubleReached(S, L, top)
    <3>1. row[sp] \notin Gone(row, P) /\ row[sp] \in Blocks
      BY <1>2, <1>5, <2>1, <2>2, NotGone
    <3>. QED
      BY <1>2, <2>1, <3>1 DEF DoubleReached, Removed
  <2>4. RowsCut(L, row, d, P, S, 0 - 1)
    <3>1. P \cup {} = P /\ {} \in SUBSET Rows(0 - 1) /\ 0 - 1 < 0 /\ ~(0 - 1 >= 0)
      OBVIOUS
    <3>2. RowsPart(L, row, d, P, S, 0 - 1, {})
      BY <1>2, <3>1 DEF RowsPart
    <3>. QED
      BY <1>2, <3>2 DEF RowsCut
  <2>5. RowsCut(L, row, d, P, T, n)
    <3>1. T = RowRun(S, top, d, S, n)
      OBVIOUS
    <3>. HIDE DEF T, top
    <3>. QED
      BY <1>2, <1>3, <2>3, <2>4, <3>1, RowLoop
  <2>. HIDE DEF T
  <2>6. PICK X \in SUBSET Spots : RowsPart(L, row, d, P, T, n, X)
    BY <2>5 DEF RowsCut
  <2>. DEFINE PX == P \cup X
  <2>7. X \in SUBSET Rows(n) /\ Removed(L, row, PX, T) /\ FirstRow(row, d, X)
    BY <1>3, <2>6 DEF RowsPart
  <2>8. sp \notin PX
    <3>1. sp \notin Rows(n)
      BY "dindirect" # "three", "dindirect" # "data", Pairs DEF Rows, RowOf
    <3>. QED
      BY <1>2, <2>2, <2>7, <3>1
  <2>9. RemovedOne(L, row, PX, sp, T, U)
    <3>1. U = testfs_free_block_from_inode(T, row[sp])
      BY <2>1
    <3>. HIDE DEF U, PX, sp
    <3>. QED
      BY <2>1, <2>7, <2>8, <3>1, RemoveOne
  <2>. HIDE DEF U
  <2>. DEFINE Z == PX \cup {sp}
  <2>10. Removed(L, row, Z, U) /\ U \in State
    BY <2>9 DEF RemovedOne, Removed
  <2>11. Alike(U, A)
    BY <1>1, <1>5, <2>10, CutsDindirect
  <2>12. Removed(L, row, Z, A)
    BY <2>10, <2>11, RemovedSame DEF Alike
  <2>13. FirstRow(row, d, Z)
    <3>1. X \subseteq Z
      OBVIOUS
    <3>. HIDE DEF Z
    <3>. QED
      BY <2>7, <3>1 DEF FirstRow, Covered
  <2>14. P \subseteq Z /\ sp \in Z /\ Z \in SUBSET Spots
    BY <2>1
  <2>. HIDE DEF Z
  <2>16. ~(d < 0)
    BY <1>5
  <2>15. AllGone(L, row, e, Z, A)
    BY <1>2, <2>12, <2>13, <2>14, <2>16 DEF AllGone, d
  <2>. QED
    BY <2>14, <2>15
<1>. QED
  BY <1>4, <1>5

LEMMA FreeAll ==
    ASSUME NEW L, NEW row, Rooted(L, row), L.total = 0, L.in.i_size \in Nat,
           NEW A, A = testfs_free_blocks(L)
    PROVE  \E Z \in SUBSET Spots : AllGone(L, row, L.in.i_size, Z, A)
<1>. DEFINE e == L.in.i_size
            S == FreeDirect(L, e)
            T == FreeIndirect(S, e - NR_DIRECT_BLOCKS)
<1>1. A = FreeDouble(T, Beyond(e))
  BY Zenon DEF testfs_free_blocks
<1>2. \E P \in SUBSET Spots : EarlyGone(L, row, e, P, T)
  <2>1. S = FreeDirect(L, e) /\ T = FreeIndirect(S, e - NR_DIRECT_BLOCKS) /\ e \in Nat
    OBVIOUS
  <2>. HIDE DEF S, T, e
  <2>. QED
    BY <2>1, IndirectGone
<1>. HIDE DEF T
<1>3. PICK P \in SUBSET Spots : EarlyGone(L, row, e, P, T)
  BY <1>2
<1>4. e \in Nat
  OBVIOUS
<1>. HIDE DEF e
<1>5. \E Z \in SUBSET Spots : AllGone(L, row, e, Z, A)
  BY <1>1, <1>3, <1>4, DoubleGone
<1>. QED
  BY <1>5 DEF e

-----------------------------------------------------------------------------
(* A removed file: it owns no block, and the others own what they did.     *)

Emptied(own, f, new) ==
    \A g \in Files : \A sp \in Spots : new[g][sp] = IF g = f THEN NoBlock ELSE own[g][sp]

LEMMA NewIs ==
    ASSUME NEW ptr
    PROVE  NewInode \in InodeState /\ \A sp \in Spots : At(NewInode, ptr, sp) = NoBlock
<1>1. NewInode \in InodeState
  BY DEF NewInode, InodeState, Cells
<1>2. /\ NewInode.i_indirect = NoBlock /\ NewInode.i_dindirect = NoBlock
      /\ \A k \in Direct : NewInode.i_block_nr[k] = NoBlock
  BY DEF NewInode
<1>3. \A i : Via(ptr, NoBlock, i) = NoBlock
  BY DEF Via
<1>. DEFINE new == NewInode
<1>. HIDE DEF new
<1>4. ASSUME NEW sp \in Spots
      PROVE  At(NewInode, ptr, sp) = NoBlock
  <2>1. CASE \E k \in Data : sp = <<"data", k>>
    <3>1. PICK k \in Data : sp = <<"data", k>>
      BY <2>1
    <3>2. At(NewInode, ptr, sp) = Datum(NewInode, ptr, k)
      BY <3>1, AtIs
    <3>3. Datum(NewInode, ptr, k) = NoBlock
      BY <1>2, <1>3, DatumIs
    <3>. QED
      BY <3>2, <3>3
  <2>2. CASE \E r \in Slots : sp = <<"three", r>>
    <3>1. PICK r \in Slots : sp = <<"three", r>>
      BY <2>2
    <3>2. At(NewInode, ptr, sp) = Via(ptr, NewInode.i_dindirect, r)
      BY <3>1, AtIs
    <3>. QED
      BY <1>2, <1>3, <3>2
  <2>3. CASE sp = <<"indirect", 0>>
    BY <1>2, <2>3, AtIs, Zenon
  <2>4. CASE sp = <<"dindirect", 0>>
    BY <1>2, <2>4, AtIs, Zenon
  <2>. QED
    BY <2>1, <2>2, <2>3, <2>4, SpotCases, Zenon
<1>. QED
  BY <1>1, <1>4

(* Pointers that are not written lead to the same blocks.                  *)
LEMMA AtKept ==
    ASSUME NEW in \in InodeState, NEW ptr \in Device, NEW new,
           \A sp \in Spots : At(in, ptr, sp) # NoBlock => new[At(in, ptr, sp)] = ptr[At(in, ptr, sp)],
           NEW sp \in Spots
    PROVE  At(in, new, sp) = At(in, ptr, sp)
<1>1. ASSUME NEW sq \in Spots, NEW i
      PROVE  Via(new, At(in, ptr, sq), i) = Via(ptr, At(in, ptr, sq), i)
  BY DEF Via
<1>2. /\ At(in, ptr, <<"indirect", 0>>) = in.i_indirect
      /\ At(in, ptr, <<"dindirect", 0>>) = in.i_dindirect
      /\ \A r \in Slots : At(in, ptr, <<"three", r>>) = Via(ptr, in.i_dindirect, r)
  BY AtIs
<1>3. /\ \A i : Via(new, in.i_indirect, i) = Via(ptr, in.i_indirect, i)
      /\ \A i : Via(new, in.i_dindirect, i) = Via(ptr, in.i_dindirect, i)
      /\ \A r \in Slots : \A i : Via(new, Via(ptr, in.i_dindirect, r), i)
                                 = Via(ptr, Via(ptr, in.i_dindirect, r), i)
  BY <1>1, <1>2, SpotsAre
<1>4. CASE \E k \in Data : sp = <<"data", k>>
  <2>1. PICK k \in Data : sp = <<"data", k>>
    BY <1>4
  <2>2. At(in, new, sp) = Datum(in, new, k) /\ At(in, ptr, sp) = Datum(in, ptr, k)
    BY <2>1, AtIs
  <2>3. CASE k \in Direct
    BY <2>2, <2>3, DatumIs
  <2>4. CASE k \notin Direct /\ Beyond(k) < 0
    BY <1>3, <2>2, <2>4, DatumIs
  <2>5. CASE Beyond(k) >= 0
    <3>1. LayerThreeBlock(k) \in Slots
      BY <2>5, Layers
    <3>2. Datum(in, new, k) = Via(new, Via(new, in.i_dindirect, LayerThreeBlock(k)), LayerThreePointer(k))
      BY <2>5, DatumIs
    <3>3. Datum(in, ptr, k) = Via(ptr, Via(ptr, in.i_dindirect, LayerThreeBlock(k)), LayerThreePointer(k))
      BY <2>5, DatumIs
    <3>. QED
      BY <1>3, <2>2, <3>1, <3>2, <3>3
  <2>. QED
    BY <2>3, <2>4, <2>5, DatumIs
<1>5. CASE \E r \in Slots : sp = <<"three", r>>
  <2>1. PICK r \in Slots : sp = <<"three", r>>
    BY <1>5
  <2>2. At(in, new, sp) = Via(new, in.i_dindirect, r) /\ At(in, ptr, sp) = Via(ptr, in.i_dindirect, r)
    BY <2>1, AtIs
  <2>. QED
    BY <1>3, <2>2
<1>6. CASE sp = <<"indirect", 0>>
  BY <1>6, AtIs, Zenon
<1>7. CASE sp = <<"dindirect", 0>>
  BY <1>7, AtIs, Zenon
<1>. QED
  BY <1>4, <1>5, <1>6, <1>7, SpotCases, Zenon

LEMMA FitsEmptied ==
    ASSUME NEW own \in Owns, NEW new \in Owns, NEW used \in SUBSET Blocks, Fits(own, used),
           NEW f \in Files, NEW Z \in SUBSET Spots, Filled(own[f]) \subseteq Z, Emptied(own, f, new)
    PROVE  Fits(new, used \ Gone(own[f], Z))
<1>1. \A g, h \in Files : \A sp, sq \in Spots :
         own[g][sp] = own[h][sq] /\ own[g][sp] # NoBlock => g = h /\ sp = sq
  BY DEF Fits
<1>2. ASSUME NEW g \in Files, NEW h \in Files, NEW sp \in Spots, NEW sq \in Spots,
             new[g][sp] = new[h][sq], new[g][sp] # NoBlock
      PROVE  g = h /\ sp = sq
  <2>1. own[g][sp] = new[g][sp] /\ own[h][sq] = new[h][sq]
    BY <1>2 DEF Emptied
  <2>. QED
    BY <1>1, <1>2, <2>1
<1>3. ASSUME NEW b \in Blocks
      PROVE  b \in used \ Gone(own[f], Z) <=> \E g \in Files : \E sp \in Spots : new[g][sp] = b
  <2>0. b # NoBlock
    BY DEF Blocks, NoBlock
  <2>1. ASSUME b \in used \ Gone(own[f], Z)
        PROVE  \E g \in Files : \E sp \in Spots : new[g][sp] = b
    <3>1. PICK g \in Files, sp \in Spots : own[g][sp] = b
      BY <2>1 DEF Fits
    <3>2. g # f
      <4>. SUFFICES ASSUME g = f PROVE FALSE
        OBVIOUS
      <4>1. sp \in Z
        BY <2>0, <3>1 DEF Filled
      <4>. QED
        BY <2>1, <3>1, <4>1 DEF Gone
    <3>. QED
      BY <3>1, <3>2 DEF Emptied
  <2>2. ASSUME NEW g \in Files, NEW sp \in Spots, new[g][sp] = b
        PROVE  b \in used \ Gone(own[f], Z)
    <3>1. g # f /\ own[g][sp] = b
      BY <2>0, <2>2 DEF Emptied
    <3>2. b \in used
      BY <3>1 DEF Fits
    <3>3. b \notin Gone(own[f], Z)
      <4>1. \A sq \in Z : own[f][sq] # b
        BY <1>1, <2>0, <3>1
      <4>. QED
        BY <4>1 DEF Gone
    <3>. QED
      BY <3>2, <3>3
  <2>. QED
    BY <2>1, <2>2
<1>. QED
  BY <1>2, <1>3 DEF Fits

LEMMA NoneFilled ==
    ASSUME NEW row, \A sp \in Spots : row[sp] = NoBlock
    PROVE  Filled(row) = {} /\ Cardinality(Filled(row)) = 0
<1>1. Filled(row) = {}
  BY DEF Filled
<1>. QED
  BY <1>1, FS_EmptySet

(* All of the blocks have gone when none is counted any more.              *)
LEMMA AllOfThem ==
    ASSUME NEW L, NEW row, NEW Z, NEW T, Removed(L, row, Z, T), T.in.block_count = 0,
           L.in.block_count = Cardinality(Filled(row))
    PROVE  Filled(row) \subseteq Z
<1>. DEFINE F == Filled(row)
            G == Z \cap F
<1>1. IsFiniteSet(F) /\ Cardinality(F) \in Nat
  BY FilledFinite
<1>2. G \subseteq F
  OBVIOUS
<1>3. 0 = Cardinality(F) - Cardinality(G)
  BY DEF Removed
<1>. HIDE DEF G, F
<1>4. Cardinality(G) \in Nat
  BY <1>1, <1>2, FS_Subset, FS_CardinalityType
<1>5. Cardinality(G) = Cardinality(F)
  BY <1>1, <1>3, <1>4
<1>6. G = F
  BY <1>1, <1>2, <1>5, FS_Subset
<1>. QED
  BY <1>6 DEF G, F

LEMMA RootedIs ==
    ASSUME IInv, fate = "ok", NEW f \in Files, NEW L, L = Load(f, 0)
    PROVE  /\ Rooted(L, Own(inode, pointers)[f]) /\ L.total = 0 /\ L.in.i_size \in Nat
           /\ L.in.block_count = Cardinality(Filled(Own(inode, pointers)[f]))
<1>. DEFINE row == Own(inode, pointers)[f]
<1>1. TypeOK /\ Fits(Own(inode, pointers), block_freemap) /\ Clean(block_freemap, pointers)
      /\ inode[f].block_count = Cardinality(Filled(row))
  BY DEF IInv
<1>2. /\ L \in State /\ L.in = inode[f] /\ L.used = block_freemap /\ L.ptr = pointers
      /\ L.total = 0 /\ L.fate = fate
  BY <1>1, LoadIs
<1>3. inode \in Inos /\ pointers \in Device /\ inode[f].i_size \in 0 .. MAX_FILE_SIZE
  BY <1>1, TypeIs
<1>4. Own(inode, pointers) \in Owns
  BY <1>3, OwnType
<1>5. /\ row[<<"indirect", 0>>] = L.in.i_indirect
      /\ row[<<"dindirect", 0>>] = L.in.i_dindirect
      /\ \A r \in Slots : row[<<"three", r>>] = Via(L.ptr, L.in.i_dindirect, r)
      /\ \A k \in Data : row[<<"data", k>>] = Datum(L.in, L.ptr, k)
  BY <1>2, <1>3, Parts
<1>6. row \in [Spots -> Cells]
  BY <1>4 DEF Owns
<1>7. /\ \A sp \in Spots : row[sp] # NoBlock => row[sp] \in block_freemap
      /\ \A sp, sq \in Spots : row[sp] = row[sq] /\ row[sp] # NoBlock => sp = sq
  BY <1>1, <1>6 DEF Fits, Cells
<1>8. L.in.i_size \in Nat
  BY <1>2, <1>3, Sizes
<1>. QED
  BY <1>1, <1>2, <1>5, <1>6, <1>7, <1>8 DEF Rooted

(* The device after a removal, for the files that stay.                    *)
Stay(own, f, S) ==
    \A g \in Files \ {f} : \A sp \in Spots :
        /\ At(inode[g], S.ptr, sp) = own[g][sp]
        /\ own[g][sp] # NoBlock => S.con[own[g][sp]] = contents[own[g][sp]]

LEMMA OthersStay ==
    ASSUME IInv, fate = "ok", NEW f \in Files, NEW L, L = Load(f, 0), NEW Z, NEW S,
           Removed(L, Own(inode, pointers)[f], Z, S)
    PROVE  Stay(Own(inode, pointers), f, S)
<1>. SUFFICES ASSUME NEW g \in Files \ {f}, NEW sp \in Spots
              PROVE  /\ At(inode[g], S.ptr, sp) = Own(inode, pointers)[g][sp]
                     /\ Own(inode, pointers)[g][sp] # NoBlock =>
                           S.con[Own(inode, pointers)[g][sp]] = contents[Own(inode, pointers)[g][sp]]
  BY DEF Stay
<1>. DEFINE own == Own(inode, pointers)
<1>1. TypeOK /\ Fits(own, block_freemap)
  BY DEF IInv
<1>2. L.ptr = pointers /\ L.con = contents
  BY <1>1, LoadIs
<1>3. inode \in Inos /\ pointers \in Device /\ inode[g] \in InodeState
  BY <1>1, TypeIs DEF Inos
<1>4. own \in Owns /\ \A sq \in Spots : own[g][sq] = At(inode[g], pointers, sq)
  BY <1>3, OwnType
<1>. HIDE DEF own
<1>5. Removed(L, own[f], Z, S) /\ Z \in SUBSET Spots
  BY DEF own, Removed
<1>6. ASSUME NEW sq \in Spots, own[g][sq] # NoBlock
      PROVE  S.ptr[own[g][sq]] = pointers[own[g][sq]] /\ S.con[own[g][sq]] = contents[own[g][sq]]
  <2>1. own[g][sq] \notin Gone(own[f], Z)
    <3>1. \A sr \in Spots : own[g][sq] # own[f][sr]
      BY <1>1, <1>6 DEF Fits
    <3>. QED
      BY <1>5, <3>1 DEF Gone
  <2>2. own[g][sq] \in Blocks
    BY <1>4, <1>6 DEF Owns, Cells
  <2>. QED
    BY <1>2, <1>5, <2>1, <2>2 DEF Removed
<1>7. At(inode[g], S.ptr, sp) = At(inode[g], pointers, sp)
  <2>1. \A sq \in Spots : At(inode[g], pointers, sq) # NoBlock =>
           S.ptr[At(inode[g], pointers, sq)] = pointers[At(inode[g], pointers, sq)]
    BY <1>4, <1>6
  <2>. QED
    BY <1>3, <2>1, AtKept
<1>. QED
  BY <1>4, <1>6, <1>7 DEF own

LEMMA RemovalKeeps ==
    ASSUME IInv, fate = "ok", NEW f \in Files, NEW S, S = testfs_free_blocks(Load(f, 0)),
           S.in.block_count = 0, Store(f, [S EXCEPT !.in = NewInode]),
           written' = [written EXCEPT ![f] = {}]
    PROVE  IInv'
<1>. DEFINE L == Load(f, 0)
            own == Own(inode, pointers)
            row == own[f]
            R == [S EXCEPT !.in = NewInode]
            new == Own(inode', pointers')
<1>1. /\ inode' = [inode EXCEPT ![f] = R.in] /\ block_freemap' = R.used /\ pointers' = R.ptr
      /\ contents' = R.con /\ fate' = R.fate
  BY Zenon DEF Store
<1>2. Rooted(L, row) /\ L.total = 0 /\ L.in.i_size \in Nat /\ L.in.block_count = Cardinality(Filled(row))
  BY RootedIs
<1>3. /\ TypeOK /\ Fits(own, block_freemap) /\ Clean(block_freemap, pointers) /\ Leafy(own)
      /\ Holds(own, contents, written)
      /\ \A g \in Files : inode[g].block_count = Cardinality(Filled(own[g]))
      /\ \A g \in Files : \A k \in written[g] : k < inode[g].i_size
  BY DEF IInv
<1>4. /\ inode \in Inos /\ block_freemap \in SUBSET Blocks /\ pointers \in Device
      /\ written \in [Files -> SUBSET Data]
  BY <1>3, TypeIs
<1>5. L \in State /\ L.used = block_freemap /\ L.ptr = pointers /\ L.con = contents
  BY <1>3, LoadIs
<1>6. PICK Z \in SUBSET Spots : Removed(L, row, Z, S)
  <2>1. S = testfs_free_blocks(L)
    OBVIOUS
  <2>. HIDE DEF L, row
  <2>2. \E Z \in SUBSET Spots : AllGone(L, row, L.in.i_size, Z, S)
    BY <1>2, <2>1, FreeAll
  <2>. QED
    BY <2>2 DEF AllGone
<1>7. L = Load(f, 0) /\ row = Own(inode, pointers)[f]
  OBVIOUS
<1>. HIDE DEF L
<1>8. \A g \in Files \ {f} : \A sp \in Spots :
         /\ At(inode[g], S.ptr, sp) = own[g][sp]
         /\ own[g][sp] # NoBlock => S.con[own[g][sp]] = contents[own[g][sp]]
  <2>1. Stay(Own(inode, pointers), f, S)
    BY <1>6, <1>7, OthersStay
  <2>. QED
    BY <2>1, Zenon DEF Stay
<1>. HIDE DEF row
<1>9. Filled(row) \subseteq Z
  BY <1>2, <1>6, AllOfThem
<1>10. /\ S \in State /\ S.fate = "ok" /\ S.used = block_freemap \ Gone(row, Z)
       /\ \A b \in Blocks : b \in Gone(row, Z) => S.ptr[b] = ZeroBlock
       /\ \A b \in Blocks : b \notin Gone(row, Z) => S.ptr[b] = pointers[b]
  BY <1>5, <1>6 DEF Removed
<1>11. NewInode \in InodeState /\ NewInode.block_count = 0 /\ NewInode.i_size = 0
  BY NewIs DEF NewInode
<1>12. /\ R.in = NewInode /\ R.used = S.used /\ R.ptr = S.ptr /\ R.con = S.con /\ R.fate = S.fate
       /\ R \in State
  <2>. DEFINE in == NewInode
  <2>1. in \in InodeState /\ R = [S EXCEPT !.in = in]
    BY <1>11
  <2>. HIDE DEF in, R
  <2>2. /\ R.in = in /\ R.used = S.used /\ R.ptr = S.ptr /\ R.con = S.con /\ R.fate = S.fate
        /\ R \in State
    BY <1>10, <2>1 DEF State
  <2>. QED
    BY <2>2 DEF in
<1>. HIDE DEF R
<1>13. \A g \in Files : inode'[g] = IF g = f THEN NewInode ELSE inode[g]
  BY <1>1, <1>4, <1>12 DEF Inos
<1>14. inode' \in Inos /\ pointers' \in Device
  <2>1. S.ptr \in Device
    BY <1>10, StateFields
  <2>. QED
    BY <1>1, <1>4, <1>11, <1>12, <2>1 DEF Inos
<1>15. new \in Owns /\ \A g \in Files : \A sp \in Spots : new[g][sp] = At(inode'[g], pointers', sp)
  BY <1>14, OwnType
<1>16. own \in Owns
  BY <1>4, OwnType
<1>. HIDE DEF new, own
<1>17. Emptied(own, f, new)
  <2>1. ASSUME NEW g \in Files, NEW sp \in Spots
        PROVE  new[g][sp] = IF g = f THEN NoBlock ELSE own[g][sp]
    <3>1. CASE g = f
      BY <1>13, <1>15, <3>1, NewIs
    <3>2. CASE g # f
      <4>1. new[g][sp] = At(inode[g], S.ptr, sp)
        BY <1>1, <1>12, <1>13, <1>15, <3>2
      <4>2. g \in Files \ {f}
        BY <3>2
      <4>. QED
        BY <1>8, <3>2, <4>1, <4>2
    <3>. QED
      BY <3>1, <3>2
  <2>. QED
    BY <2>1 DEF Emptied
<1>18. written' \in [Files -> SUBSET Data] /\ \A g \in Files : written'[g] = IF g = f THEN {} ELSE written[g]
  BY <1>4
<1>19. TypeOK'
  <2>1. inode' \in [Files ->
         [i_block_nr : [Direct -> Blocks \cup {NoBlock}], i_indirect : Blocks \cup {NoBlock},
          i_dindirect : Blocks \cup {NoBlock}, block_count : 0 .. MaxFsBlocks,
          i_size : 0 .. MAX_FILE_SIZE]]
    <3>1. R.in.block_count \in 0 .. MaxFsBlocks /\ R.in.i_size \in 0 .. MAX_FILE_SIZE
      BY <1>11, <1>12, Sizes
    <3>. QED
      BY <1>1, <1>3, <1>12, <3>1, StoredType
  <2>2. /\ block_freemap' \subseteq Blocks
        /\ pointers' \in [Blocks -> [Slots -> Blocks \cup {NoBlock}]]
        /\ contents' \in [Blocks -> {Zeros} \cup (Files \X (0 .. (MAX_FILE_SIZE - 1)))]
        /\ fate' \in {"ok", "abort", "torn", "wild"}
    BY <1>1, <1>12, StateFields DEF Device, Cells, Data, Fates
  <2>. QED
    BY <1>18, <2>1, <2>2 DEF TypeOK, Data
<1>20. Fits(new, block_freemap')
  <2>1. row = own[f]
    BY DEF row
  <2>2. Filled(own[f]) \subseteq Z /\ Fits(own, block_freemap)
    BY <1>3, <1>9, <2>1
  <2>3. Fits(new, block_freemap \ Gone(own[f], Z))
    BY ONLY <1>4, <1>15, <1>16, <1>17, <2>2, FitsEmptied
  <2>. QED
    BY <1>1, <1>10, <1>12, <2>1, <2>3
<1>21. Clean(block_freemap', pointers')
  <2>1. \A b \in Blocks \ S.used : S.ptr[b] = ZeroBlock
    BY <1>3, <1>10 DEF Clean
  <2>. QED
    BY <1>1, <1>12, <2>1 DEF Clean
<1>22. Leafy(new)
  <2>. SUFFICES ASSUME NEW g \in Files, NEW r \in Slots, new[g][<<"three", r>>] # NoBlock
                PROVE  \E k \in Data : /\ Beyond(k) >= 0 /\ LayerThreeBlock(k) = r
                                       /\ new[g][<<"data", k>>] # NoBlock
    BY DEF Leafy
  <2>1. <<"three", r>> \in Spots /\ \A k \in Data : <<"data", k>> \in Spots
    BY SpotsAre
  <2>2. g # f /\ own[g][<<"three", r>>] # NoBlock
    BY <1>17, <2>1 DEF Emptied
  <2>3. PICK k \in Data : /\ Beyond(k) >= 0 /\ LayerThreeBlock(k) = r
                          /\ own[g][<<"data", k>>] # NoBlock
    BY <1>3, <2>2 DEF Leafy
  <2>4. new[g][<<"data", k>>] = own[g][<<"data", k>>]
    BY <1>17, <2>1, <2>2 DEF Emptied
  <2>. QED
    BY <2>3, <2>4
<1>23. Holds(new, contents', written')
  <2>. SUFFICES ASSUME NEW g \in Files, NEW k \in Data
                PROVE  /\ k \in written'[g] => /\ new[g][<<"data", k>>] # NoBlock
                                               /\ contents'[new[g][<<"data", k>>]] = <<g, k>>
                       /\ k \notin written'[g] => new[g][<<"data", k>>] = NoBlock
    BY DEF Holds
  <2>. DEFINE sp == <<"data", k>>
  <2>1. sp \in Spots
    BY SpotsAre
  <2>2. new[g][sp] = IF g = f THEN NoBlock ELSE own[g][sp]
    BY <1>17, <2>1 DEF Emptied
  <2>3. /\ k \in written[g] => own[g][sp] # NoBlock /\ contents[own[g][sp]] = <<g, k>>
        /\ k \notin written[g] => own[g][sp] = NoBlock
    BY <1>3 DEF Holds
  <2>. HIDE DEF sp
  <2>4. CASE g = f
    BY <1>18, <2>2, <2>4 DEF sp
  <2>5. CASE g # f
    <3>1. g \in Files \ {f}
      BY <2>5
    <3>2. own[g][sp] # NoBlock => contents'[own[g][sp]] = contents[own[g][sp]]
      BY <1>1, <1>8, <1>12, <2>1, <3>1
    <3>. QED
      BY <1>18, <2>2, <2>3, <2>5, <3>2 DEF sp
  <2>. QED
    BY <2>4, <2>5
<1>24. ASSUME NEW g \in Files
       PROVE  inode'[g].block_count = Cardinality(Filled(new[g]))
  <2>1. CASE g = f
    <3>1. \A sp \in Spots : new[g][sp] = NoBlock
      BY <1>17, <2>1 DEF Emptied
    <3>. QED
      BY <1>11, <1>13, <2>1, <3>1, NoneFilled
  <2>2. CASE g # f
    <3>1. \A sp \in Spots : new[g][sp] = own[g][sp]
      BY <1>17, <2>2 DEF Emptied
    <3>2. Filled(new[g]) = Filled(own[g])
      BY <3>1, FilledSame
    <3>. QED
      BY <1>3, <1>13, <2>2, <3>2
  <2>. QED
    BY <2>1, <2>2
<1>25. \A g \in Files : \A k \in written'[g] : k < inode'[g].i_size
  BY <1>3, <1>13, <1>18
<1>26. fate' # "torn"
  BY <1>1, <1>10, <1>12
<1>. QED
  BY <1>19, <1>20, <1>21, <1>22, <1>23, <1>24, <1>25, <1>26 DEF IInv, new

LEMMA RemoveKeeps ==
    ASSUME IInv, NEW f \in Files, testfs_remove_inode(f)
    PROVE  IInv'
<1>. DEFINE S == testfs_free_blocks(Load(f, 0))
<1>1. /\ fate = "ok"
      /\ IF S.in.block_count = 0 /\ S.fate = "ok"
         THEN /\ Store(f, [S EXCEPT !.in = NewInode])
              /\ written' = [written EXCEPT ![f] = {}]
         ELSE /\ fate' = "abort"
              /\ UNCHANGED <<inode, block_freemap, pointers, contents, written>>
  BY Zenon DEF testfs_remove_inode
<1>. HIDE DEF S
<1>2. CASE S.in.block_count = 0 /\ S.fate = "ok"
  <2>1. Store(f, [S EXCEPT !.in = NewInode]) /\ written' = [written EXCEPT ![f] = {}]
    BY <1>1, <1>2
  <2>2. S = testfs_free_blocks(Load(f, 0))
    BY DEF S
  <2>. QED
    BY <1>1, <1>2, <2>1, <2>2, RemovalKeeps
<1>3. CASE ~(S.in.block_count = 0 /\ S.fate = "ok")
  BY <1>1, <1>3 DEF IInv, TypeOK
<1>. QED
  BY <1>2, <1>3

-----------------------------------------------------------------------------
(* The invariant.                                                          *)

LEMMA InitIInv == Init => IInv
<1>. SUFFICES ASSUME Init PROVE IInv
  OBVIOUS
<1>. DEFINE own == Own(inode, pointers)
<1>1. /\ inode = [f \in Files |-> NewInode] /\ block_freemap = {}
      /\ pointers = [b \in Blocks |-> ZeroBlock] /\ contents = [b \in Blocks |-> Zeros]
      /\ fate = "ok" /\ written = [f \in Files |-> {}]
  BY DEF Init
<1>2. /\ \A f \in Files : inode[f] = NewInode /\ written[f] = {}
      /\ \A b \in Blocks : pointers[b] = ZeroBlock
  BY <1>1
<1>3. TypeOK
  <2>. DEFINE I == [i_block_nr : [Direct -> Blocks \cup {NoBlock}], i_indirect : Blocks \cup {NoBlock},
                    i_dindirect : Blocks \cup {NoBlock}, block_count : 0 .. MaxFsBlocks,
                    i_size : 0 .. MAX_FILE_SIZE]
  <2>1. NewInode \in I
    BY Sizes DEF NewInode
  <2>. HIDE DEF I
  <2>2. inode \in [Files -> I]
    BY <1>1, <2>1
  <2>3. pointers \in [Blocks -> [Slots -> Blocks \cup {NoBlock}]]
    <3>1. ZeroBlock \in [Slots -> Blocks \cup {NoBlock}]
      BY DEF ZeroBlock
    <3>. QED
      BY <1>1, <3>1
  <2>4. /\ block_freemap \subseteq Blocks /\ fate \in {"ok", "abort", "torn", "wild"}
        /\ contents \in [Blocks -> {Zeros} \cup (Files \X (0 .. (MAX_FILE_SIZE - 1)))]
        /\ written \in [Files -> SUBSET (0 .. (MAX_FILE_SIZE - 1))]
    BY <1>1
  <2>. QED
    BY <2>2, <2>3, <2>4 DEF TypeOK, I
<1>4. \A g \in Files : \A sp \in Spots : own[g][sp] = NoBlock
  <2>1. inode \in Inos /\ pointers \in Device
    BY <1>3, TypeIs
  <2>2. \A g \in Files : \A sp \in Spots : own[g][sp] = At(inode[g], pointers, sp)
    BY <2>1, OwnType
  <2>. HIDE DEF own
  <2>. QED
    BY <1>2, <2>2, NewIs
<1>. HIDE DEF own
<1>5. \A k \in Data : <<"data", k>> \in Spots
  BY SpotsAre
<1>6. \A r \in Slots : <<"three", r>> \in Spots
  BY SpotsAre
<1>7. Fits(own, block_freemap)
  BY <1>1, <1>4 DEF Fits, Blocks, NoBlock
<1>8. Clean(block_freemap, pointers)
  BY <1>2 DEF Clean
<1>9. Leafy(own)
  BY <1>4, <1>6 DEF Leafy
<1>10. Holds(own, contents, written)
  BY <1>2, <1>4, <1>5 DEF Holds
<1>11. \A f \in Files : inode[f].block_count = Cardinality(Filled(own[f]))
  <2>. TAKE f \in Files
  <2>1. inode[f].block_count = 0
    BY <1>2 DEF NewInode
  <2>2. Cardinality(Filled(own[f])) = 0
    BY <1>4, NoneFilled
  <2>. QED
    BY <2>1, <2>2
<1>12. \A f \in Files : \A k \in written[f] : k < inode[f].i_size
  BY <1>2
<1>. QED
  BY <1>1, <1>3, <1>7, <1>8, <1>9, <1>10, <1>11, <1>12 DEF IInv, own

LEMMA NextIInv == IInv /\ [Next]_vars => IInv'
<1>. SUFFICES ASSUME IInv, [Next]_vars PROVE IInv'
  OBVIOUS
<1>1. ASSUME NEW f \in Files, NEW start \in 0 .. (MAX_FILE_SIZE - 1), NEW n \in 1 .. MaxLength,
             testfs_write_data(f, start, n)
      PROVE  IInv'
  <2>1. start \in Data
    BY DEF Data
  <2>. QED
    BY <1>1, <2>1, WriteKeeps
<1>2. ASSUME NEW f \in Files, testfs_remove_inode(f)
      PROVE  IInv'
  BY <1>2, RemoveKeeps
<1>3. CASE UNCHANGED vars
  BY <1>3 DEF vars, IInv, TypeOK
<1>. QED
  BY <1>1, <1>2, <1>3 DEF Next

LEMMA Invariance == Spec => []IInv
BY InitIInv, NextIInv, PTL DEF Spec

-----------------------------------------------------------------------------
(* The properties.                                                         *)

(* The inodes, the freemap and the device stay what they are declared to   *)
(* be: block_count of an inode never falls below zero or exceeds the       *)
(* device, however often blocks are taken back when the space runs out.    *)
THEOREM TypeCorrect == Spec => []TypeOK
<1>1. IInv => TypeOK
  BY DEF IInv
<1>. QED
  BY <1>1, Invariance, PTL

(* Places, of the specification, are the spots that are filled.            *)
LEMMA PlacesAre ==
    ASSUME TypeOK, NEW f \in Files, NEW row, row = Own(inode, pointers)[f]
    PROVE  /\ Owned(f) = {row[sp] : sp \in Filled(row)}
           /\ IsFiniteSet(Owned(f))
           /\ Cardinality(Places(f)) = Cardinality(Filled(row))
<1>. DEFINE L == Load(f, 0)
            name == [sp \in Filled(row) |-> <<sp[1], sp[2], row[sp]>>]
            all == {<<"data", k, testfs_read_block(L, k)>> : k \in 0 .. (MAX_FILE_SIZE - 1)}
                   \cup {<<"three", i, Follow(L, L.in.i_dindirect, i)>> : i \in Slots}
                   \cup {<<"indirect", 0, L.in.i_indirect>>, <<"dindirect", 0, L.in.i_dindirect>>}
<1>1. L.in = inode[f] /\ L.ptr = pointers
  BY LoadIs
<1>2. Places(f) = {p \in all : p[3] # NoBlock}
  BY DEF Places
<1>. HIDE DEF L
<1>3. /\ row[<<"indirect", 0>>] = L.in.i_indirect
      /\ row[<<"dindirect", 0>>] = L.in.i_dindirect
      /\ \A r \in Slots : row[<<"three", r>>] = Follow(L, L.in.i_dindirect, r)
      /\ \A k \in Data : row[<<"data", k>>] = testfs_read_block(L, k)
  <2>0. /\ row[<<"indirect", 0>>] = inode[f].i_indirect
        /\ row[<<"dindirect", 0>>] = inode[f].i_dindirect
        /\ \A r \in Slots : row[<<"three", r>>] = Via(pointers, inode[f].i_dindirect, r)
        /\ \A k \in Data : row[<<"data", k>>] = Datum(inode[f], pointers, k)
    <3>1. /\ Own(inode, pointers)[f][<<"indirect", 0>>] = inode[f].i_indirect
          /\ Own(inode, pointers)[f][<<"dindirect", 0>>] = inode[f].i_dindirect
          /\ \A r \in Slots : Own(inode, pointers)[f][<<"three", r>>]
                              = Via(pointers, inode[f].i_dindirect, r)
          /\ \A k \in Data : Own(inode, pointers)[f][<<"data", k>>] = Datum(inode[f], pointers, k)
      BY Parts
    <3>. QED
      BY <3>1
  <2>1. \A r \in Slots : row[<<"three", r>>] = Via(L.ptr, L.in.i_dindirect, r)
    BY <1>1, <2>0
  <2>2. \A k \in Data : row[<<"data", k>>] = Datum(L.in, L.ptr, k)
    BY <1>1, <2>0
  <2>3. \A i : Follow(L, L.in.i_dindirect, i) = Via(L.ptr, L.in.i_dindirect, i)
    BY DEF Follow, Via
  <2>4. row[<<"indirect", 0>>] = L.in.i_indirect /\ row[<<"dindirect", 0>>] = L.in.i_dindirect
    BY <1>1, <2>0
  <2>. QED
    BY <2>1, <2>2, <2>3, <2>4, ReadIs
<1>4. all = {<<sp[1], sp[2], row[sp]>> : sp \in Spots}
  <2>1. ASSUME NEW p \in all
        PROVE  \E sp \in Spots : p = <<sp[1], sp[2], row[sp]>>
    <3>1. CASE \E k \in Data : p = <<"data", k, testfs_read_block(L, k)>>
      <4>1. PICK k \in Data : p = <<"data", k, testfs_read_block(L, k)>>
        BY <3>1
      <4>. DEFINE sp == <<"data", k>>
      <4>2. sp \in Spots /\ sp[1] = "data" /\ sp[2] = k /\ row[sp] = testfs_read_block(L, k)
        BY <1>3, SpotsAre
      <4>. QED
        BY <4>1, <4>2
    <3>2. CASE \E i \in Slots : p = <<"three", i, Follow(L, L.in.i_dindirect, i)>>
      <4>1. PICK i \in Slots : p = <<"three", i, Follow(L, L.in.i_dindirect, i)>>
        BY <3>2
      <4>. DEFINE sp == <<"three", i>>
      <4>2. sp \in Spots /\ sp[1] = "three" /\ sp[2] = i /\ row[sp] = Follow(L, L.in.i_dindirect, i)
        BY <1>3, SpotsAre
      <4>. QED
        BY <4>1, <4>2
    <3>3. CASE p = <<"indirect", 0, L.in.i_indirect>>
      <4>. DEFINE sp == <<"indirect", 0>>
      <4>1. sp \in Spots /\ sp[1] = "indirect" /\ sp[2] = 0 /\ row[sp] = L.in.i_indirect
        BY <1>3, SpotsAre
      <4>. QED
        BY <3>3, <4>1
    <3>4. CASE p = <<"dindirect", 0, L.in.i_dindirect>>
      <4>. DEFINE sp == <<"dindirect", 0>>
      <4>1. sp \in Spots /\ sp[1] = "dindirect" /\ sp[2] = 0 /\ row[sp] = L.in.i_dindirect
        BY <1>3, SpotsAre
      <4>. QED
        BY <3>4, <4>1
    <3>. QED
      BY <3>1, <3>2, <3>3, <3>4 DEF Data
  <2>2. ASSUME NEW sp \in Spots
        PROVE  <<sp[1], sp[2], row[sp]>> \in all
    <3>1. CASE \E k \in Data : sp = <<"data", k>>
      BY <1>3, <3>1 DEF Data
    <3>2. CASE \E r \in Slots : sp = <<"three", r>>
      BY <1>3, <3>2
    <3>3. CASE sp = <<"indirect", 0>>
      BY <1>3, <3>3
    <3>4. CASE sp = <<"dindirect", 0>>
      BY <1>3, <3>4
    <3>. QED
      BY <3>1, <3>2, <3>3, <3>4, SpotCases
  <2>. HIDE DEF all
  <2>. QED
    BY <2>1, <2>2
<1>. HIDE DEF all
<1>5. Places(f) = {<<sp[1], sp[2], row[sp]>> : sp \in Filled(row)}
  <2>1. \A sp : <<sp[1], sp[2], row[sp]>>[3] = row[sp]
    OBVIOUS
  <2>. QED
    BY <1>2, <1>4, <2>1 DEF Filled
<1>6. IsFiniteSet(Filled(row)) /\ Filled(row) \subseteq Spots
  BY FilledFinite DEF Filled
<1>7. name \in Bijection(Filled(row), Places(f))
  <2>1. \A sp \in Filled(row) : name[sp] = <<sp[1], sp[2], row[sp]>> /\ sp = <<sp[1], sp[2]>>
    <3>1. \A sp \in Spots : sp = <<sp[1], sp[2]>>
      BY DEF Spots
    <3>. QED
      BY <1>6, <3>1
  <2>2. name \in [Filled(row) -> Places(f)]
    BY <1>5
  <2>. HIDE DEF name
  <2>3. \A sp, sq \in Filled(row) : name[sp] = name[sq] => sp = sq
    <3>. TAKE sp, sq \in Filled(row)
    <3>. HAVE name[sp] = name[sq]
    <3>1. <<sp[1], sp[2], row[sp]>> = <<sq[1], sq[2], row[sq]>>
      BY <2>1
    <3>2. sp[1] = sq[1] /\ sp[2] = sq[2]
      BY <3>1
    <3>. QED
      BY <2>1, <3>2
  <2>4. \A p \in Places(f) : \E sp \in Filled(row) : name[sp] = p
    BY <1>5, <2>1
  <2>. QED
    BY <2>2, <2>3, <2>4 DEF Bijection, Injection, Surjection, IsInjective
<1>8. Cardinality(Places(f)) = Cardinality(Filled(row))
  <2>. HIDE DEF name
  <2>1. ExistsBijection(Filled(row), Places(f))
    BY <1>7 DEF ExistsBijection
  <2>. QED
    BY <1>6, <2>1, FS_Bijection
<1>9. Owned(f) = {row[sp] : sp \in Filled(row)}
  <2>1. \A sp : <<sp[1], sp[2], row[sp]>>[3] = row[sp]
    OBVIOUS
  <2>2. \A b : b \in Owned(f) <=> \E p \in Places(f) : p[3] = b
    BY DEF Owned
  <2>3. \A p : p \in Places(f) <=> \E sp \in Filled(row) : p = <<sp[1], sp[2], row[sp]>>
    BY <1>5
  <2>4. \A b : b \in Owned(f) <=> \E sp \in Filled(row) : row[sp] = b
    <3>1. \A b : \A p \in Places(f) : p[3] = b => \E sp \in Filled(row) : row[sp] = b
      BY <2>1, <2>3
    <3>2. \A sp \in Filled(row) : \E p \in Places(f) : p[3] = row[sp]
      BY <2>1, <2>3
    <3>. QED
      BY <2>2, <3>1, <3>2
  <2>. QED
    BY <2>4
<1>10. IsFiniteSet(Owned(f))
  <2>1. [sp \in Filled(row) |-> row[sp]] \in Surjection(Filled(row), Owned(f))
    BY <1>9 DEF Surjection
  <2>. QED
    BY <1>6, <2>1, FS_Surjection
<1>. QED
  BY <1>8, <1>9, <1>10

(* The blocks of different places are different.                           *)
LEMMA OwnedCount ==
    ASSUME NEW F, IsFiniteSet(F), NEW row, \A sp, sq \in F : row[sp] = row[sq] => sp = sq,
           NEW B, B = {row[sp] : sp \in F}
    PROVE  Cardinality(B) = Cardinality(F)
<1>. DEFINE block == [sp \in F |-> row[sp]]
<1>1. /\ block \in [F -> B]
      /\ \A sp, sq \in F : block[sp] = block[sq] => sp = sq
      /\ \A b \in B : \E sp \in F : block[sp] = b
  OBVIOUS
<1>. HIDE DEF block
<1>2. block \in Bijection(F, B)
  BY <1>1 DEF Bijection, Injection, Surjection, IsInjective
<1>3. ExistsBijection(F, B)
  BY <1>2 DEF ExistsBijection
<1>. QED
  BY <1>3, FS_Bijection

(* The sum over the files, by one step of the fold.                        *)
Adding(g) == [s \in SUBSET Files |->
                IF s = {} THEN 0
                ELSE LET f == CHOOSE f \in s : TRUE IN Cardinality(Places(f)) + g[s \ {f}]]

LEMMA SumIs ==
    ASSUME NEW w, w = [f \in Files |-> Cardinality(Places(f))], w \in [Files -> Nat]
    PROVE  MapThenSumSet(LAMBDA f : Cardinality(Places(f)), Files) = Total(w, Files)
<1>. DEFINE h == [s \in SUBSET Files |-> Total(w, s)]
            g == CHOOSE r : r = Adding(r)
<1>1. IsFiniteSet(Files)
  BY BlockMapAssumption
<1>2. \A r : Adding(r) = Summing(r, w, Files)
  <2>. SUFFICES ASSUME NEW r, NEW s \in SUBSET Files
                PROVE  Adding(r)[s] = Summing(r, w, Files)[s]
    BY DEF Adding, Summing
  <2>1. s # {} => (CHOOSE f \in s : TRUE) \in Files
    OBVIOUS
  <2>. QED
    BY <2>1 DEF Adding, Summing
<1>3. h = Adding(h)
  <2>. HIDE DEF h
  <2>1. h = [s \in SUBSET Files |-> Total(w, s)]
    BY DEF h
  <2>2. h = Summing(h, w, Files)
    BY <1>1, <2>1, TotalSums
  <2>. QED
    BY <1>2, <2>2
<1>4. g = Adding(g)
  BY <1>3, Zenon
<1>5. MapThenSumSet(LAMBDA f : Cardinality(Places(f)), Files) = g[Files]
  BY Zenon DEF MapThenSumSet, MapThenFoldSet, Adding
<1>. HIDE DEF g
<1>6. g[Files] = Total(w, Files)
  <2>1. g = Summing(g, w, Files)
    BY <1>2, <1>4
  <2>. QED
    BY <1>1, <2>1, SumsTotal
<1>. QED
  BY <1>5, <1>6

(* When no block is in two places, there are as many as there are places.  *)
LEMMA Unshared ==
    ASSUME TypeOK, NEW own, own = Own(inode, pointers), Alone(own)
    PROVE  LET owned == UNION {Owned(f) : f \in Files}
           IN  /\ Cardinality(owned) = MapThenSumSet(LAMBDA f : Cardinality(Places(f)), Files)
               /\ \A b : b \in owned <=> b \in Blocks /\ Stands(own, b)
               /\ \A f \in Files : Cardinality(Places(f)) = Cardinality(Filled(own[f]))
<1>. DEFINE owned == UNION {Owned(f) : f \in Files}
            A == [f \in Files |-> Owned(f)]
            w == [f \in Files |-> Cardinality(Places(f))]
<1>2. own \in Owns
  <2>1. inode \in Inos /\ pointers \in Device
    BY TypeIs
  <2>. QED
    BY <2>1, OwnType
<1>3. \A f \in Files : /\ Owned(f) = {own[f][sp] : sp \in Filled(own[f])}
                       /\ IsFiniteSet(Owned(f))
                       /\ Cardinality(Places(f)) = Cardinality(Filled(own[f]))
  BY PlacesAre
<1>4. \A f \in Files : \A b : b \in Owned(f) <=> \E sp \in Filled(own[f]) : b = own[f][sp]
  BY <1>3
<1>5. ASSUME NEW b
      PROVE  b \in owned <=> b \in Blocks /\ Stands(own, b)
  <2>1. ASSUME b \in Blocks, Stands(own, b)
        PROVE  b \in owned
    <3>1. b # NoBlock
      BY <2>1 DEF Blocks, NoBlock
    <3>2. PICK f \in Files, sp \in Spots : own[f][sp] = b
      BY <2>1 DEF Stands
    <3>3. b \in Owned(f)
      BY <1>4, <3>1, <3>2 DEF Filled
    <3>. QED
      BY <3>3
  <2>2. ASSUME NEW f \in Files, b \in Owned(f)
        PROVE  b \in Blocks /\ Stands(own, b)
    <3>1. PICK sp \in Filled(own[f]) : b = own[f][sp]
      BY <1>4, <2>2
    <3>2. sp \in Spots /\ b # NoBlock
      BY <3>1 DEF Filled
    <3>3. b \in Blocks
      BY <1>2, <3>1, <3>2 DEF Owns, Cells
    <3>. QED
      BY <3>1, <3>2, <3>3 DEF Stands
  <2>3. b \in owned <=> \E f \in Files : b \in Owned(f)
    OBVIOUS
  <2>. HIDE DEF owned
  <2>. QED
    BY <2>1, <2>2, <2>3
<1>7. \A f, g \in Files : f # g => Owned(f) \cap Owned(g) = {}
  <2>. SUFFICES ASSUME NEW f \in Files, NEW g \in Files, NEW b, b \in Owned(f), b \in Owned(g)
                PROVE  f = g
    OBVIOUS
  <2>1. PICK sp \in Filled(own[f]) : b = own[f][sp]
    BY <1>4
  <2>2. PICK sq \in Filled(own[g]) : b = own[g][sq]
    BY <1>4
  <2>3. sp \in Spots /\ sq \in Spots /\ own[f][sp] = own[g][sq] /\ own[f][sp] # NoBlock
    BY <2>1, <2>2 DEF Filled
  <2>. QED
    BY <2>3 DEF Alone
<1>8. \A f \in Files : Cardinality(Owned(f)) = Cardinality(Places(f))
  <2>. TAKE f \in Files
  <2>1. IsFiniteSet(Filled(own[f]))
    BY FilledFinite
  <2>2. \A sp, sq \in Filled(own[f]) : own[f][sp] = own[f][sq] => sp = sq
    BY DEF Alone, Filled
  <2>. QED
    BY <1>3, <2>1, <2>2, OwnedCount
<1>9. w = [f \in Files |-> Cardinality(A[f])]
  BY <1>8
<1>10. IsFiniteSet(Files) /\ Separate(A, Files)
  BY <1>3, <1>7, BlockMapAssumption DEF Separate
<1>11. owned = UNION {A[f] : f \in Files}
  OBVIOUS
<1>12. w = [f \in Files |-> Cardinality(Places(f))]
  OBVIOUS
<1>. HIDE DEF A, w, owned
<1>13. w \in [Files -> Nat] /\ Total(w, Files) = Cardinality(owned)
  BY ONLY <1>9, <1>10, <1>11, TotalUnion
<1>14. MapThenSumSet(LAMBDA f : Cardinality(Places(f)), Files) = Total(w, Files)
  BY <1>12, <1>13, SumIs
<1>15. Cardinality(owned) = MapThenSumSet(LAMBDA f : Cardinality(Places(f)), Files)
  BY <1>13, <1>14
<1>16. \A f \in Files : Cardinality(Places(f)) = Cardinality(Filled(own[f]))
  BY <1>3
<1>. QED
  BY <1>5, <1>15, <1>16 DEF owned

(* Every block that is allocated is pointed to from exactly one place of   *)
(* one file, nothing points to a free block, and block_count counts the    *)
(* blocks of the file, until a write comes to read_write.c:294.  What that *)
(* write leaves behind is exactly this: blocks that are allocated and that *)
(* nothing points to, one file that points to its indirect block, which is *)
(* free, and still no block that two places point to.                      *)
THEOREM OwnedOnce == Spec => []BlocksOwnedOnce
<1>1. ASSUME IInv, fate = "ok", NEW owned, owned = UNION {Owned(f) : f \in Files}
      PROVE  /\ block_freemap = owned
             /\ Cardinality(owned) = MapThenSumSet(LAMBDA f : Cardinality(Places(f)), Files)
             /\ \A f \in Files : inode[f].block_count = Cardinality(Places(f))
  <2>. DEFINE own == Own(inode, pointers)
  <2>1. TypeOK /\ Fits(own, block_freemap)
        /\ \A f \in Files : inode[f].block_count = Cardinality(Filled(own[f]))
    BY <1>1 DEF IInv
  <2>2. block_freemap \subseteq Blocks
    BY <2>1, TypeIs
  <2>. HIDE DEF own
  <2>3. Alone(own) /\ \A b \in Blocks : b \in block_freemap <=> Stands(own, b)
    BY <2>1 DEF Fits, Alone, Stands
  <2>4. /\ Cardinality(owned) = MapThenSumSet(LAMBDA f : Cardinality(Places(f)), Files)
        /\ \A b : b \in owned <=> b \in Blocks /\ Stands(own, b)
        /\ \A f \in Files : Cardinality(Places(f)) = Cardinality(Filled(own[f]))
    BY <1>1, <2>1, <2>3, Unshared DEF own
  <2>5. block_freemap = owned
    BY <2>2, <2>3, <2>4
  <2>. QED
    BY <2>1, <2>4, <2>5
<1>2. ASSUME IInv, fate = "torn", NEW owned, owned = UNION {Owned(f) : f \in Files}
      PROVE  /\ Cardinality(owned) = MapThenSumSet(LAMBDA f : Cardinality(Places(f)), Files)
             /\ block_freemap \ owned # {}
             /\ \E f \in Files : owned \ block_freemap = {inode[f].i_indirect} \ {NoBlock}
  <2>. DEFINE own == Own(inode, pointers)
  <2>1. TypeOK /\ \E f \in Files : Tattered(own, block_freemap, f)
    BY <1>2 DEF IInv
  <2>2. PICK f \in Files : Tattered(own, block_freemap, f)
    BY <2>1
  <2>3. /\ own[f][<<"indirect", 0>>] = inode[f].i_indirect
        /\ inode[f].i_indirect \in Cells /\ block_freemap \subseteq Blocks
    <3>1. inode \in Inos /\ block_freemap \in SUBSET Blocks
      BY <2>1, TypeIs
    <3>2. inode[f].i_indirect \in Cells
      BY <3>1 DEF Inos, InodeState
    <3>. QED
      BY <3>1, <3>2, Parts
  <2>4. Alone(own) /\ own = Own(inode, pointers)
    BY <2>2 DEF Tattered
  <2>. HIDE DEF own
  <2>5. /\ Cardinality(owned) = MapThenSumSet(LAMBDA g : Cardinality(Places(g)), Files)
        /\ \A b : b \in owned <=> b \in Blocks /\ Stands(own, b)
    BY <1>2, <2>1, <2>4, Unshared
  <2>6. block_freemap \ owned # {}
    BY <2>2, <2>5 DEF Tattered
  <2>7. \A b \in Blocks : b \notin block_freemap /\ Stands(own, b) <=> b = inode[f].i_indirect
    BY <2>2, <2>3 DEF Tattered
  <2>8. owned \ block_freemap = {inode[f].i_indirect} \ {NoBlock}
    <3>1. \A b \in Blocks : b # NoBlock
      BY DEF Blocks, NoBlock
    <3>2. inode[f].i_indirect # NoBlock => inode[f].i_indirect \in Blocks
      BY <2>3 DEF Cells
    <3>. QED
      BY <2>5, <2>7, <3>1, <3>2
  <2>. QED
    BY <2>5, <2>6, <2>8
<1>3. IInv => BlocksOwnedOnce
  BY <1>1, <1>2 DEF BlocksOwnedOnce
<1>. QED
  BY <1>3, Invariance, PTL

(* A block reads as what was last written to it, and as zeros if nothing   *)
(* was; the size covers it.                                                *)
THEOREM ReadsWhatWasWritten == Spec => []ReadsBack
<1>1. ASSUME IInv, fate = "ok", NEW f \in Files, NEW k \in Data,
             NEW b, b = testfs_read_block(Load(f, 0), k)
      PROVE  IF k \in written[f] THEN b # NoBlock /\ contents[b] = <<f, k>> /\ k < inode[f].i_size
             ELSE b = NoBlock
  <2>. DEFINE own == Own(inode, pointers)
              L == Load(f, 0)
  <2>1. TypeOK /\ Holds(own, contents, written) /\ \A j \in written[f] : j < inode[f].i_size
    BY <1>1 DEF IInv
  <2>2. L.in = inode[f] /\ L.ptr = pointers
    BY <2>1, LoadIs
  <2>. HIDE DEF L
  <2>3. b = Datum(inode[f], pointers, k)
    BY <1>1, <2>2, ReadIs DEF L
  <2>4. own[f][<<"data", k>>] = Datum(inode[f], pointers, k)
    BY Parts
  <2>. HIDE DEF own
  <2>. QED
    BY <2>1, <2>3, <2>4 DEF Holds
<1>2. IInv => ReadsBack
  BY <1>1 DEF ReadsBack, Data
<1>. QED
  BY <1>2, Invariance, PTL

(* The places of a file that needs at most one row of the third layer.     *)
Small(row, e) ==
    /\ \A k \in Data : row[<<"data", k>>] # NoBlock => k < e /\ Beyond(k) < NR_INDIRECT_BLOCKS
    /\ \A r \in Slots : row[<<"three", r>>] # NoBlock =>
          \E k \in Data : InRow(k, r) /\ row[<<"data", k>>] # NoBlock
    /\ \A k \in Data : Beyond(k) >= 0 /\ row[<<"data", k>>] # NoBlock =>
          row[<<"three", LayerThreeBlock(k)>>] # NoBlock
    /\ row[<<"dindirect", 0>>] # NoBlock =>
          Beyond(e) >= 0 \/ \E k \in Data : Beyond(k) >= 0 /\ row[<<"data", k>>] # NoBlock

(* All of them are freed.                                                  *)
LEMMA SmallGone ==
    ASSUME NEW L, NEW row, NEW e \in Nat, NEW Z, NEW A, AllGone(L, row, e, Z, A), Small(row, e)
    PROVE  Filled(row) \subseteq Z
<1>1. ASSUME NEW k \in Data, Beyond(k) >= 0, row[<<"data", k>>] # NoBlock
      PROVE  /\ LayerThreeBlock(k) = 0 /\ LayerThreePointer(k) < Beyond(e) /\ 0 < Beyond(e)
             /\ LayerThreePointer(k) <= NR_INDIRECT_BLOCKS - 1 /\ LayerThreePointer(k) \in Int
             /\ row[<<"three", 0>>] # NoBlock
  <2>. DEFINE n == NR_INDIRECT_BLOCKS
              r == LayerThreeBlock(k)
              c == LayerThreePointer(k)
  <2>1. /\ n \in Nat \ {0} /\ r \in Slots /\ c \in Slots /\ Beyond(k) = n * r + c
    BY <1>1, Layers, Sizes
  <2>2. Beyond(k) < n /\ k < e /\ row[<<"three", r>>] # NoBlock
    BY <1>1 DEF Small
  <2>3. Beyond(k) < Beyond(e) /\ Beyond(k) \in Int /\ Beyond(e) \in Int
    BY <2>2, Layers, Sizes
  <2>4. r \in Nat /\ c \in 0 .. (n - 1) /\ 0 \in 0 .. (n - 1)
    BY <2>1 DEF Slots
  <2>5. Beyond(k) \in 0 .. (n - 1) /\ Beyond(k) = n * 0 + Beyond(k)
    BY <1>1, <2>1, <2>2, <2>3
  <2>. DEFINE d == Beyond(k)
  <2>6. n * r + c = n * 0 + d /\ d \in 0 .. (n - 1)
    BY <2>1, <2>5
  <2>. HIDE DEF n, r, c, d
  <2>7. r = 0 /\ c = d
    BY <2>1, <2>4, <2>6, Digits
  <2>8. LayerThreePointer(k) = Beyond(k) /\ LayerThreeBlock(k) = 0
    BY <2>7 DEF r, c, d
  <2>. QED
    BY <1>1, <2>2, <2>3, <2>5, <2>8 DEF r, n
<1>2. ASSUME NEW k \in Data, Beyond(k) >= 0, row[<<"data", k>>] # NoBlock
      PROVE  <<"dindirect", 0>> \in Z /\ FirstRow(row, Beyond(e), Z)
  BY <1>1, <1>2 DEF AllGone
<1>. SUFFICES ASSUME NEW sp \in Spots, row[sp] # NoBlock
              PROVE  sp \in Z
  BY DEF Filled
<1>3. ASSUME NEW k \in Data, sp = <<"data", k>>
      PROVE  sp \in Z
  <2>1. CASE Beyond(k) >= 0
    <3>1. InRow(k, 0) /\ FirstRow(row, Beyond(e), Z)
      BY <1>1, <1>2, <1>3, <2>1 DEF InRow
    <3>2. Covered(row, Beyond(e), 0, 0, NR_INDIRECT_BLOCKS - 1, Z)
      BY <1>1, <1>3, <2>1, <3>1 DEF FirstRow
    <3>3. 0 + LayerThreePointer(k) < Beyond(e) /\ LayerThreePointer(k) <= NR_INDIRECT_BLOCKS - 1
      BY <1>1, <1>3, <2>1
    <3>. QED
      BY <1>3, <3>1, <3>2, <3>3 DEF Covered
  <2>2. CASE ~(Beyond(k) >= 0)
    <3>1. Beyond(k) < 0
      BY <2>2, Layers, Sizes
    <3>2. sp \in Early \cap Filled(row)
      BY <1>3, <3>1 DEF Early, Filled
    <3>3. k < e /\ k \in Int
      BY <1>3, Layers DEF Small
    <3>4. sp \in Z \/ \E j \in Data : sp = <<"data", j>> /\ j >= e
      BY <3>2 DEF AllGone
    <3>. QED
      BY <1>3, <3>3, <3>4
  <2>. QED
    BY <2>1, <2>2
<1>4. ASSUME NEW r \in Slots, sp = <<"three", r>>
      PROVE  sp \in Z
  <2>1. PICK k \in Data : InRow(k, r) /\ row[<<"data", k>>] # NoBlock
    BY <1>4 DEF Small
  <2>2. Beyond(k) >= 0 /\ LayerThreeBlock(k) = r
    BY <2>1 DEF InRow
  <2>3. r = 0 /\ 0 < Beyond(e) /\ row[<<"three", 0>>] # NoBlock /\ FirstRow(row, Beyond(e), Z)
    BY <1>1, <1>2, <2>1, <2>2
  <2>. QED
    BY <1>4, <2>3 DEF FirstRow
<1>5. CASE sp = <<"indirect", 0>>
  <2>1. sp \in Early \cap Filled(row)
    BY <1>5 DEF Early, Filled
  <2>2. sp \in Z \/ \E j \in Data : sp = <<"data", j>> /\ j >= e
    BY <2>1 DEF AllGone
  <2>. QED
    BY <1>5, <2>2
<1>6. CASE sp = <<"dindirect", 0>>
  <2>1. CASE Beyond(e) >= 0
    BY <1>6, <2>1 DEF AllGone
  <2>2. CASE \E k \in Data : Beyond(k) >= 0 /\ row[<<"data", k>>] # NoBlock
    BY <1>2, <1>6, <2>2
  <2>. QED
    BY <1>6, <2>1, <2>2 DEF Small
<1>. QED
  BY <1>3, <1>4, <1>5, <1>6, SpotCases

(* A file without a block behind the first row of the third layer is such  *)
(* a file, unless its doubly indirect block is empty and its size does not *)
(* reach there.                                                            *)
LEMMA SmallIs ==
    ASSUME IInv, fate = "ok", NEW f \in Files, ~(EmptyDouble(f) /\ Beyond(inode[f].i_size) < 0),
           ~ \E k \in written[f] : Beyond(k) >= NR_INDIRECT_BLOCKS
    PROVE  Small(Own(inode, pointers)[f], inode[f].i_size)
<1>. DEFINE own == Own(inode, pointers)
            row == own[f]
            e == inode[f].i_size
<1>1. TypeOK /\ Leafy(own) /\ Holds(own, contents, written) /\ \A k \in written[f] : k < e
  BY DEF IInv
<1>2. inode \in Inos /\ pointers \in Device /\ own \in Owns
  <2>1. inode \in Inos /\ pointers \in Device
    BY <1>1, TypeIs
  <2>. QED
    BY <2>1, OwnType
<1>3. /\ own[f][<<"dindirect", 0>>] = inode[f].i_dindirect
      /\ \A r \in Slots : own[f][<<"three", r>>] = Via(pointers, inode[f].i_dindirect, r)
      /\ \A k \in Data : own[f][<<"data", k>>] = Datum(inode[f], pointers, k)
  BY Parts
<1>4. inode[f].i_dindirect \in Cells
  BY <1>2 DEF Inos, InodeState
<1>. HIDE DEF own, e
<1>5. ASSUME NEW k \in Data, row[<<"data", k>>] # NoBlock
      PROVE  k < e /\ Beyond(k) < NR_INDIRECT_BLOCKS
  <2>1. k \in written[f]
    BY <1>1, <1>5 DEF Holds
  <2>2. ~(Beyond(k) >= NR_INDIRECT_BLOCKS) /\ k < e
    BY <1>1, <2>1
  <2>3. Beyond(k) \in Int /\ NR_INDIRECT_BLOCKS \in Int
    BY Layers, Sizes
  <2>. QED
    BY <2>2, <2>3
<1>6. ASSUME NEW r \in Slots, row[<<"three", r>>] # NoBlock
      PROVE  \E k \in Data : InRow(k, r) /\ row[<<"data", k>>] # NoBlock
  BY <1>1, <1>6 DEF Leafy, InRow
<1>7. ASSUME NEW k \in Data, Beyond(k) >= 0, row[<<"data", k>>] # NoBlock
      PROVE  row[<<"three", LayerThreeBlock(k)>>] # NoBlock
  <2>1. LayerThreeBlock(k) \in Slots
    BY <1>7, Layers
  <2>2. row[<<"data", k>>] = Via(pointers, Via(pointers, inode[f].i_dindirect, LayerThreeBlock(k)),
                                 LayerThreePointer(k))
    BY <1>3, <1>7, DatumIs
  <2>3. row[<<"data", k>>] = Via(pointers, row[<<"three", LayerThreeBlock(k)>>], LayerThreePointer(k))
    BY <1>3, <2>1, <2>2
  <2>. QED
    BY <1>7, <2>3 DEF Via
<1>9. Beyond(e) \in Int /\ e = inode[f].i_size
  <2>1. e \in 0 .. MAX_FILE_SIZE
    BY <1>1, TypeIs DEF e
  <2>. QED
    BY <2>1, Sizes DEF e
<1>8. ASSUME row[<<"dindirect", 0>>] # NoBlock, ~(Beyond(e) >= 0)
      PROVE  \E k \in Data : Beyond(k) >= 0 /\ row[<<"data", k>>] # NoBlock
  <2>. DEFINE top == inode[f].i_dindirect
  <2>1. top # NoBlock /\ top \in Blocks
    BY <1>3, <1>4, <1>8 DEF Cells
  <2>2. pointers[top] # ZeroBlock /\ pointers[top] \in [Slots -> Cells]
    BY <1>2, <1>8, <1>9, <2>1 DEF EmptyDouble, Device
  <2>3. PICK r \in Slots : pointers[top][r] # NoBlock
    BY <2>2 DEF ZeroBlock
  <2>4. row[<<"three", r>>] # NoBlock
    BY <1>3, <2>1, <2>3 DEF Via
  <2>. QED
    BY <1>6, <2>4 DEF InRow
<1>. QED
  BY <1>5, <1>6, <1>7, <1>8 DEF Small, own, e

(* What testfs_remove_inode leaves of the file, and when it fails.         *)
LEMMA RemovedAs ==
    ASSUME IInv, NEW f \in Files, testfs_remove_inode(f), NEW row, row = Own(inode, pointers)[f]
    PROVE  /\ fate = "ok" /\ fate' \in {"ok", "abort"}
           /\ Filled(row) \subseteq Spots
           /\ \E L, Z, S : AllGone(L, row, inode[f].i_size, Z, S)
                           /\ Z \in SUBSET Spots
                           /\ (fate' = "ok" <=> Z \cap Filled(row) = Filled(row))
<1>. DEFINE L == Load(f, 0)
            S == testfs_free_blocks(L)
            R == [S EXCEPT !.in = NewInode]
<1>1. /\ fate = "ok"
      /\ S.in.block_count = 0 /\ S.fate = "ok" => Store(f, R)
      /\ ~(S.in.block_count = 0 /\ S.fate = "ok") => fate' = "abort"
  BY Zenon DEF testfs_remove_inode
<1>2. Store(f, R) => fate' = R.fate
  BY Zenon DEF Store
<1>3. S = testfs_free_blocks(L) /\ L = Load(f, 0)
  OBVIOUS
<1>4. R = [S EXCEPT !.in = NewInode]
  OBVIOUS
<1>. HIDE DEF S, L, R
<1>5. /\ Rooted(L, row) /\ L.total = 0 /\ L.in.i_size \in Nat
      /\ L.in.block_count = Cardinality(Filled(row)) /\ L.in = inode[f]
  <2>1. TypeOK
    BY DEF IInv
  <2>. QED
    BY <1>1, <1>3, <2>1, RootedIs, LoadIs
<1>7. PICK Z \in SUBSET Spots : AllGone(L, row, L.in.i_size, Z, S)
  BY <1>3, <1>5, FreeAll
<1>9. S \in State /\ S.fate = "ok"
      /\ S.in.block_count = L.in.block_count - Cardinality(Z \cap Filled(row))
  BY <1>7 DEF AllGone, Removed
<1>10. S.in.block_count = 0 <=> Z \cap Filled(row) = Filled(row)
  <2>. DEFINE X == Z \cap Filled(row)
              Y == Filled(row)
              n == Cardinality(Y)
              m == Cardinality(X)
  <2>1. IsFiniteSet(Y) /\ n \in Nat
    BY FilledFinite
  <2>2. X \subseteq Y
    OBVIOUS
  <2>3. L.in.block_count = n /\ S.in.block_count = L.in.block_count - m
    BY <1>5, <1>9
  <2>. HIDE DEF X, Y
  <2>4. IsFiniteSet(X) /\ m <= n /\ (m = n => X = Y)
    BY <2>1, <2>2, FS_Subset
  <2>5. m \in Nat
    BY <2>4, FS_CardinalityType
  <2>6. X = Y => m = n
    OBVIOUS
  <2>. HIDE DEF n, m
  <2>7. S.in.block_count = 0 <=> X = Y
    BY <2>1, <2>3, <2>4, <2>5, <2>6
  <2>. QED
    BY <2>7 DEF X, Y
<1>11. R.fate = S.fate
  <2>. DEFINE in == NewInode
  <2>. HIDE DEF in
  <2>1. R = [S EXCEPT !.in = in]
    BY <1>4 DEF in
  <2>. QED
    BY <1>9, <2>1 DEF State
<1>12. fate' \in {"ok", "abort"} /\ (fate' = "ok" <=> Z \cap Filled(row) = Filled(row))
  BY <1>1, <1>2, <1>9, <1>10, <1>11
<1>13. Filled(row) \subseteq Spots
  BY DEF Filled
<1>. QED
  BY <1>1, <1>5, <1>7, <1>12, <1>13

(* testfs_remove_inode fails its assertion on a small file only when the   *)
(* empty doubly indirect block is passed over, and then it does.           *)
LEMMA SmallRemoved ==
    ASSUME IInv, NEW f \in Files, testfs_remove_inode(f),
           ~ \E k \in written[f] : Beyond(k) >= NR_INDIRECT_BLOCKS
    PROVE  fate' = "abort" <=> EmptyDouble(f) /\ Beyond(inode[f].i_size) < 0
<1>. DEFINE row == Own(inode, pointers)[f]
            e == inode[f].i_size
            sp == <<"dindirect", 0>>
<1>1. TypeOK /\ e \in Nat
  <2>1. TypeOK
    BY DEF IInv
  <2>2. e \in 0 .. MAX_FILE_SIZE
    BY <2>1, TypeIs
  <2>. QED
    BY <2>1, <2>2, Sizes
<1>2. row[sp] = inode[f].i_dindirect /\ sp \in Spots /\ row = Own(inode, pointers)[f]
  BY Parts, SpotsAre
<1>. HIDE DEF row, sp, e
<1>3. PICK L, Z, S : /\ AllGone(L, row, e, Z, S) /\ Z \in SUBSET Spots
                     /\ fate = "ok" /\ fate' \in {"ok", "abort"}
                     /\ (fate' = "ok" <=> Z \cap Filled(row) = Filled(row))
  BY <1>2, RemovedAs DEF e
<1>4. ASSUME EmptyDouble(f), Beyond(e) < 0
      PROVE  fate' = "abort"
  <2>1. sp \in Filled(row)
    BY <1>2, <1>4 DEF EmptyDouble, Filled
  <2>2. sp \notin Z
    BY <1>3, <1>4 DEF AllGone, sp
  <2>. QED
    BY <1>3, <2>1, <2>2
<1>5. ASSUME ~(EmptyDouble(f) /\ Beyond(e) < 0)
      PROVE  fate' = "ok"
  <2>1. Small(row, e)
    BY <1>2, <1>3, <1>5, SmallIs DEF e
  <2>2. Filled(row) \subseteq Z
    BY <1>1, <1>3, <2>1, SmallGone
  <2>. QED
    BY <1>3, <2>2
<1>. QED
  BY <1>3, <1>4, <1>5 DEF e

(* The removal of a file that needs at most one block of the third layer   *)
(* succeeds, unless a write to it failed at read_write.c:260 and its size  *)
(* does not reach the empty doubly indirect block that this write left;    *)
(* then inode.c:224 does fail.                                             *)
THEOREM SmallFilesRemoved == Spec => RemovesSmallFiles
<1>1. IInv => [\A f \in Files :
                 testfs_remove_inode(f) /\ ~ (\E k \in written[f] : Beyond(k) >= NR_INDIRECT_BLOCKS) =>
                    (fate' = "abort" <=> EmptyDouble(f) /\ Beyond(inode[f].i_size) < 0)]_vars
  BY SmallRemoved
<1>. QED
  BY <1>1, Invariance, PTL DEF RemovesSmallFiles
=============================================================================

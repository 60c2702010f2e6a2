---------------------------- MODULE TestfsProofs ----------------------------
(***************************************************************************)
(* Proofs about Testfs, for every number of inodes and blocks, whatever    *)
(* names there are, and however often the program crashes.                 *)
(***************************************************************************)
EXTENDS Testfs, Counting

(* What is in the directories of a device, told by its entries E and       *)
(* inodes I: the directories the root leads to, as a least set, and the    *)
(* inodes their entries lead to.                                           *)
Leads(E, d, p) == p \in DOMAIN E[d] /\ Live(E[d][p]) /\ E[d][p][1] \notin Dots
Kids(E, d) == {E[d][p][2] : p \in {q \in DOMAIN E[d] : Live(E[d][q]) /\ E[d][q][1] \notin Dots}}
Dirs(I) == {n \in Inodes : I[n].i_type = "I_DIR"}
Closed(E, I, X) == Root \in X /\ \A e \in X : Kids(E, e) \cap Dirs(I) \subseteq X
Tree(E, I) == {n \in Inodes : \A X \in SUBSET Inodes : Closed(E, I, X) => n \in X}
Using(E, X) == {Root} \cup UNION {Kids(E, d) : d \in X}

(* Every directory begins with the entries for itself and for the one it   *)
(* is in, has a name once, and each inode has one entry that is not a dot. *)
Dotted(E, d, X) ==
    /\ Len(E[d]) >= 2 /\ E[d][1] = <<".", d>> /\ E[d][2][1] = ".." /\ E[d][2][2] \in X
    /\ IF d = Root THEN E[d][2][2] = Root ELSE d \in Kids(E, E[d][2][2])
OnceNamed(E, d) ==
    \A p, q \in DOMAIN E[d] : Live(E[d][p]) /\ Live(E[d][q]) /\ E[d][p][1] = E[d][q][1] => p = q
OnceLed(E, X) ==
    \A d, e \in X : \A p \in DOMAIN E[d] : \A q \in DOMAIN E[e] :
        Leads(E, d, p) /\ Leads(E, e, q) /\ E[d][p][2] = E[e][q][2] => d = e /\ p = q
Readably(E, I, d) == I[d].size = Huge \/ Len(E[d]) <= I[d].size

Shape(E, I, X) ==
    /\ I[Root].i_type = "I_DIR"
    /\ \A d \in X : Dotted(E, d, X) /\ OnceNamed(E, d) /\ Readably(E, I, d) /\ Root \notin Kids(E, d)
    /\ OnceLed(E, X)

(* The freemaps and counters cover what is used, and lag behind each other *)
(* by the number of crashes at most; so many free inodes at most still     *)
(* have their old contents.                                                *)
Sizes(I) == [n \in Inodes |-> I[n].block_count]
Left(I, F) == {n \in Inodes \ F : I[n] # NoInode}
Few(I, F, c) == Cardinality(Left(I, F)) <= c
Cover(d, U, c) ==
    /\ U \in SUBSET Inodes /\ Few(d.inode, d.inode_freemap, c)
    /\ U \subseteq d.inode_freemap /\ Cardinality(U) <= d.used_inode_count
    /\ Total(Sizes(d.inode), U) <= d.used_block_count
    /\ Total(Sizes(d.inode), U) <= d.block_freemap
    /\ d.used_block_count <= MaxFsBlocks
    /\ d.used_inode_count - Cardinality(d.inode_freemap) \in (-c) .. c
    /\ d.used_block_count - d.block_freemap \in (-c) .. c

(* What a crash makes false.                                               *)
Exact(d, X) ==
    /\ d.inode_freemap = Using(d.entries, X)
    /\ \A n \in Inodes \ d.inode_freemap : d.inode[n] = NoInode
    /\ \A n \in d.inode_freemap : d.inode[n].i_type # "I_NONE"
    /\ Dirs(d.inode) = X
    /\ d.used_block_count = Total(Sizes(d.inode), d.inode_freemap)
    /\ \A e \in X : LET full == EntriesPerBlock * d.inode[e].block_count
                    IN  full - EntriesPerBlock < Len(d.entries[e]) /\ Len(d.entries[e]) <= full

Entries == [Inodes -> Seq(Names \X (Inodes \cup {INVALID_INODE_NR}))]
Device == [inode : [Inodes -> InodeType], entries : Entries, inode_freemap : SUBSET Bits,
           block_freemap : Int, used_inode_count : Int, used_block_count : Int]

Good(d, c) ==
    LET X == Tree(d.entries, d.inode)
    IN  /\ d \in Device
        /\ Shape(d.entries, d.inode, X)
        /\ Cover(d, Using(d.entries, X), c)

Memory ==
    /\ inode \in [Inodes -> InodeType] /\ i_count \in [Inodes -> Nat]
    /\ dirty \in [Inodes -> BOOLEAN] /\ listed \in [Inodes -> 0 .. MaxListed]
    /\ fate \in {"ok", "abort", "stale"} /\ crashes \in 0 .. MaxCrashes
    /\ cur_dir \in Tree(entries, disk.inode)
    /\ MemoryAgrees

IInv ==
    /\ Memory
    /\ Good(disk, crashes)
    /\ crashes = 0 => Exact(disk, Tree(entries, disk.inode))

-----------------------------------------------------------------------------
(* Numbers.                                                                *)

LEMMA LeastOf ==
    ASSUME NEW S \in SUBSET Nat, S # {}
    PROVE  Min(S) \in S
<1>1. \E x \in S : \A y \in S : x =< y
  BY LeastNat
<1>. QED
  BY <1>1, Zenon DEF Min

LEMMA LeastOfTwo ==
    ASSUME NEW a \in Int, NEW b \in Int
    PROVE  Min({a, b}) = IF a <= b THEN a ELSE b
<1>1. \A x \in {a, b} : (\A y \in {a, b} : x <= y) <=> x = IF a <= b THEN a ELSE b
  OBVIOUS
<1>2. (IF a <= b THEN a ELSE b) \in {a, b}
  OBVIOUS
<1>. DEFINE m == IF a <= b THEN a ELSE b
<1>. HIDE DEF m
<1>3. (CHOOSE x \in {a, b} : \A y \in {a, b} : x <= y) = m
  BY <1>1, <1>2 DEF m
<1>. QED
  BY <1>3 DEF Min, m

LEMMA MostOfTwo ==
    ASSUME NEW a \in Int, NEW b \in Int
    PROVE  Max({a, b}) = IF a >= b THEN a ELSE b
<1>1. \A x \in {a, b} : (\A y \in {a, b} : x >= y) <=> x = IF a >= b THEN a ELSE b
  OBVIOUS
<1>2. (IF a >= b THEN a ELSE b) \in {a, b}
  OBVIOUS
<1>. DEFINE m == IF a >= b THEN a ELSE b
<1>. HIDE DEF m
<1>3. (CHOOSE x \in {a, b} : \A y \in {a, b} : x >= y) = m
  BY <1>1, <1>2 DEF m
<1>. QED
  BY <1>3 DEF Max, m

LEMMA MostOf ==
    ASSUME NEW n \in Nat, NEW S \in SUBSET (1 .. n), S # {}
    PROVE  Max(S) \in S /\ \A y \in S : Max(S) >= y
<1>. DEFINE R == {n - x : x \in S}
<1>1. R \in SUBSET Nat /\ R # {}
  OBVIOUS
<1>2. PICK r \in R : \A y \in R : r <= y
  <2>. HIDE DEF R
  <2>. QED
    BY <1>1, LeastNat
<1>3. PICK x \in S : r = n - x
  BY <1>2
<1>4. \A y \in S : x >= y
  <2>. TAKE y \in S
  <2>1. n - y \in R
    OBVIOUS
  <2>2. r <= n - y
    BY <1>2, <2>1
  <2>. QED
    BY <1>3, <2>2
<1>5. \E z \in S : \A y \in S : z >= y
  BY <1>3, <1>4
<1>. QED
  BY <1>5, Zenon DEF Max

LEMMA MostIs ==
    ASSUME NEW n \in Nat, NEW S \in SUBSET (1 .. n), NEW m \in S, \A y \in S : m >= y
    PROVE  Max(S) = m
<1>1. Max(S) \in S /\ \A y \in S : Max(S) >= y
  BY MostOf
<1>0. \A x \in S : x \in Int
  OBVIOUS
<1>2. Max(S) \in Int /\ m \in Int
  BY <1>0, <1>1
<1>3. m >= Max(S) /\ Max(S) >= m
  BY <1>1
<1>. HIDE <1>1
<1>. QED
  BY <1>2, <1>3

-----------------------------------------------------------------------------
(* What the first k writes leave of d.  A sequence of writes is one whose  *)
(* elements are in some set.                                               *)

Until(d, s, k) ==
    [field \in DOMAIN d |->
        LET at == {i \in 1 .. k : s[i].field = field}
        IN  IF at = {} THEN d[field] ELSE s[Max(at)].value]
Over(d, s) == Until(d, s, Len(s))
Stages(d, s) == {Until(d, s, k) : k \in 0 .. Len(s)}
Writing(s) == \E S : s \in Seq(S)

LEMMA WritingFacts ==
    /\ \A f, v : Writing(Put(f, v)) /\ Len(Put(f, v)) = 1
                 /\ Put(f, v)[1] = [field |-> f, value |-> v]
    /\ Writing(<<>>) /\ Len(<<>>) = 0
    /\ \A s : Writing(s) => Len(s) \in Nat /\ DOMAIN s = 1 .. Len(s)
<1>1. \A f, v : Writing(Put(f, v)) /\ Len(Put(f, v)) = 1
                 /\ Put(f, v)[1] = [field |-> f, value |-> v]
  <2>. TAKE f, v
  <2>1. Put(f, v) \in Seq({[field |-> f, value |-> v]})
    BY DEF Put
  <2>. QED
    BY <2>1 DEF Writing, Put
<1>2. Writing(<<>>) /\ Len(<<>>) = 0
  BY DEF Writing
<1>. QED
  BY <1>1, <1>2 DEF Writing

LEMMA WritingConcat ==
    ASSUME NEW s, NEW t, Writing(s), Writing(t)
    PROVE  /\ Writing(s \o t) /\ Len(s \o t) = Len(s) + Len(t)
           /\ \A i \in 1 .. Len(s) : (s \o t)[i] = s[i]
           /\ \A i \in 1 .. Len(t) : (s \o t)[Len(s) + i] = t[i]
<1>1. PICK S : s \in Seq(S)
  BY DEF Writing
<1>2. PICK T : t \in Seq(T)
  BY DEF Writing
<1>3. s \in Seq(S \cup T) /\ t \in Seq(S \cup T)
  BY <1>1, <1>2
<1>. QED
  BY <1>3 DEF Writing

LEMMA WritingPrefix ==
    ASSUME NEW s, Writing(s), NEW k \in 0 .. Len(s)
    PROVE  Writing(SubSeq(s, 1, k)) /\ Len(SubSeq(s, 1, k)) = k
           /\ \A i \in 1 .. k : SubSeq(s, 1, k)[i] = s[i]
<1>1. PICK S : s \in Seq(S)
  BY DEF Writing
<1>2. SubSeq(s, 1, k) \in Seq(S)
  BY <1>1
<1>. QED
  BY <1>1, <1>2 DEF Writing

LEMMA AfterIs ==
    ASSUME NEW s, Writing(s)
    PROVE  /\ After(s) = Over(disk, s)
           /\ \A k \in 1 .. (Len(s) - 1) : After(SubSeq(s, 1, k)) \in Stages(disk, s)
<1>1. ASSUME NEW u, Writing(u)
      PROVE  After(u) = Over(disk, u)
  BY <1>1, WritingFacts DEF After, Over, Until
<1>2. ASSUME NEW k \in 1 .. (Len(s) - 1)
      PROVE  After(SubSeq(s, 1, k)) \in Stages(disk, s)
  <2>. DEFINE u == SubSeq(s, 1, k)
  <2>0. Len(s) \in Nat /\ k \in 0 .. Len(s)
    BY WritingFacts
  <2>1. Writing(u) /\ Len(u) = k /\ \A i \in 1 .. k : u[i] = s[i]
    BY <2>0, WritingPrefix
  <2>. HIDE DEF u
  <2>2. After(u) = Until(disk, u, k)
    BY <1>1, <2>1 DEF Over
  <2>3. Until(disk, u, k) = Until(disk, s, k)
    <3>1. ASSUME NEW f
          PROVE  {i \in 1 .. k : u[i].field = f} = {i \in 1 .. k : s[i].field = f}
      BY <2>1
    <3>2. ASSUME NEW f, {i \in 1 .. k : s[i].field = f} # {}
          PROVE  u[Max({i \in 1 .. k : s[i].field = f})].value
                   = s[Max({i \in 1 .. k : s[i].field = f})].value
      <4>1. Max({i \in 1 .. k : s[i].field = f}) \in 1 .. k
        <5>. DEFINE B == {i \in 1 .. k : s[i].field = f}
        <5>1. B \in SUBSET (1 .. k) /\ B # {} /\ k \in Nat
          BY <2>0, <3>2
        <5>. HIDE DEF B
        <5>2. Max(B) \in B
          BY <5>1, MostOf
        <5>3. Max(B) \in 1 .. k
          BY <5>1, <5>2
        <5>. QED
          BY <5>3 DEF B
      <4>. QED
        BY <2>1, <4>1
    <3>. QED
      BY <3>1, <3>2 DEF Until
  <2>. QED
    BY <2>0, <2>2, <2>3 DEF Stages, u
<1>. QED
  BY <1>1, <1>2

LEMMA UntilConcat ==
    ASSUME NEW d, NEW s, NEW t, Writing(s), Writing(t)
    PROVE  /\ \A k \in 0 .. Len(s) : Until(d, s \o t, k) = Until(d, s, k)
           /\ \A j \in 0 .. Len(t) : Until(d, s \o t, Len(s) + j) = Until(Over(d, s), t, j)
<1>. DEFINE u == s \o t
            n == Len(s)
<1>1. /\ n \in Nat /\ Len(t) \in Nat
      /\ \A i \in 1 .. n : u[i] = s[i]
      /\ \A i \in 1 .. Len(t) : u[n + i] = t[i]
  BY WritingFacts, WritingConcat
<1>. DEFINE at(v, m, f) == {i \in 1 .. m : v[i].field = f}
<1>. HIDE DEF u
<1>2. ASSUME NEW k \in 0 .. n
      PROVE  Until(d, u, k) = Until(d, s, k)
  <2>. SUFFICES ASSUME NEW f
                PROVE  /\ at(u, k, f) = at(s, k, f)
                       /\ at(s, k, f) # {} => u[Max(at(s, k, f))] = s[Max(at(s, k, f))]
    BY Zenon DEF Until
  <2>1. at(u, k, f) = at(s, k, f)
    BY <1>1
  <2>2. ASSUME at(s, k, f) # {}
        PROVE  Max(at(s, k, f)) \in 1 .. n
    <3>. DEFINE B == at(s, k, f)
    <3>1. B \in SUBSET (1 .. k) /\ B # {} /\ k \in Nat
      BY <1>1, <2>2
    <3>. HIDE DEF B
    <3>2. Max(B) \in B
      BY <3>1, MostOf
    <3>3. Max(B) \in 1 .. k
      BY <3>1, <3>2
    <3>. QED
      BY <1>1, <3>3 DEF B
  <2>. QED
    BY <1>1, <2>1, <2>2
<1>3. ASSUME NEW j \in 0 .. Len(t)
      PROVE  Until(d, u, n + j) = Until(Over(d, s), t, j)
  <2>. SUFFICES ASSUME NEW f \in DOMAIN d
                PROVE  (IF at(u, n + j, f) = {} THEN d[f] ELSE u[Max(at(u, n + j, f))].value)
                         = IF at(t, j, f) = {} THEN Over(d, s)[f] ELSE t[Max(at(t, j, f))].value
    <3>1. DOMAIN Over(d, s) = DOMAIN d
      BY DEF Over, Until
    <3>. QED
      BY <3>1, Zenon DEF Until
  <2>1. j \in Nat /\ n + j \in Nat
    BY <1>1
  <2>2. at(u, n + j, f) = at(s, n, f) \cup {n + i : i \in at(t, j, f)}
    <3>1. \A i \in at(u, n + j, f) : i \in at(s, n, f) \/ i - n \in at(t, j, f)
      <4>. TAKE i \in at(u, n + j, f)
      <4>1. CASE i <= n
        BY <1>1, <4>1
      <4>2. CASE i > n
        <5>1. i - n \in 1 .. Len(t) /\ i - n \in 1 .. j /\ n + (i - n) = i
          BY <1>1, <2>1, <4>2
        <5>. QED
          BY <1>1, <5>1
      <4>. QED
        BY <1>1, <2>1, <4>1, <4>2
    <3>2. \A i \in at(s, n, f) : i \in at(u, n + j, f)
      BY <1>1, <2>1
    <3>3. \A i \in at(t, j, f) : n + i \in at(u, n + j, f)
      <4>. TAKE i \in at(t, j, f)
      <4>1. i \in 1 .. Len(t) /\ n + i \in 1 .. (n + j) /\ t[i].field = f
        BY <1>1, <2>1
      <4>2. u[n + i] = t[i]
        BY <1>1, <4>1
      <4>. QED
        BY <4>1, <4>2
    <3>4. \A i \in at(u, n + j, f) : i - n \in at(t, j, f) => \E k \in at(t, j, f) : i = n + k
      <4>. TAKE i \in at(u, n + j, f)
      <4>1. i = n + (i - n)
        BY <1>1, <2>1
      <4>. QED
        BY <4>1
    <3>. HIDE DEF at
    <3>. QED
      BY <3>1, <3>2, <3>3, <3>4
  <2>3. CASE at(t, j, f) = {}
    <3>1. at(u, n + j, f) = at(s, n, f)
      BY <2>2, <2>3
    <3>2. at(s, n, f) # {} => Max(at(s, n, f)) \in 1 .. n
      <4>. DEFINE B == at(s, n, f)
      <4>. SUFFICES ASSUME B # {} PROVE Max(B) \in 1 .. n
        OBVIOUS
      <4>1. B \in SUBSET (1 .. n)
        OBVIOUS
      <4>. HIDE DEF B
      <4>. QED
        BY <1>1, <4>1, MostOf
    <3>3. Over(d, s)[f] = IF at(s, n, f) = {} THEN d[f] ELSE s[Max(at(s, n, f))].value
      BY DEF Over, Until
    <3>. HIDE DEF at
    <3>. QED
      BY <1>1, <2>3, <3>1, <3>2, <3>3
  <2>4. CASE at(t, j, f) # {}
    <3>. DEFINE B == at(t, j, f)
                m == Max(B)
                C == at(u, n + j, f)
    <3>1. B \in SUBSET (1 .. j) /\ B # {}
      BY <2>4
    <3>2. C \in SUBSET (1 .. (n + j))
      OBVIOUS
    <3>3. C = at(s, n, f) \cup {n + i : i \in B} /\ \A i \in at(s, n, f) : i \in 1 .. n
      BY <2>2
    <3>. HIDE DEF B, C, at
    <3>4. m \in B /\ \A i \in B : m >= i
      BY <2>1, <3>1, MostOf
    <3>5. m \in 1 .. j /\ \A i \in B : i \in 1 .. j
      BY <3>1, <3>4
    <3>. HIDE DEF m
    <3>6. n + m \in C /\ \A i \in C : n + m >= i
      BY <1>1, <2>1, <3>3, <3>4, <3>5
    <3>7. Max(C) = n + m
      BY <2>1, <3>2, <3>6, MostIs
    <3>8. u[n + m] = t[m]
      BY <1>1, <2>1, <3>5
    <3>. QED
      BY <2>4, <3>6, <3>7, <3>8 DEF m, B, C
  <2>. QED
    BY <2>3, <2>4
<1>. QED
  BY <1>2, <1>3 DEF u

LEMMA OverConcat ==
    ASSUME NEW d, NEW s, NEW t, Writing(s), Writing(t)
    PROVE  Over(d, s \o t) = Over(Over(d, s), t)
<1>1. Len(s \o t) = Len(s) + Len(t) /\ Len(t) \in Nat
  BY WritingFacts, WritingConcat
<1>2. Len(t) \in 0 .. Len(t)
  BY <1>1
<1>3. Until(d, s \o t, Len(s) + Len(t)) = Until(Over(d, s), t, Len(t))
  BY <1>2, UntilConcat
<1>. QED
  BY <1>1, <1>3 DEF Over

LEMMA StagesConcat ==
    ASSUME NEW d, NEW s, NEW t, Writing(s), Writing(t), NEW x \in Stages(d, s \o t)
    PROVE  x \in Stages(d, s) \/ x \in Stages(Over(d, s), t)
<1>1. Len(s \o t) = Len(s) + Len(t) /\ Len(t) \in Nat /\ Len(s) \in Nat
  BY WritingFacts, WritingConcat
<1>2. PICK k \in 0 .. (Len(s) + Len(t)) : x = Until(d, s \o t, k)
  BY <1>1 DEF Stages
<1>3. CASE k <= Len(s)
  <2>1. k \in 0 .. Len(s)
    BY <1>1, <1>3
  <2>. QED
    BY <1>2, <2>1, UntilConcat DEF Stages
<1>4. CASE k > Len(s)
  <2>1. k - Len(s) \in 0 .. Len(t) /\ Len(s) + (k - Len(s)) = k
    BY <1>1, <1>4
  <2>2. Until(d, s \o t, Len(s) + (k - Len(s))) = Until(Over(d, s), t, k - Len(s))
    BY <2>1, UntilConcat
  <2>. QED
    BY <1>2, <2>1, <2>2 DEF Stages
<1>. QED
  BY <1>1, <1>3, <1>4

LEMMA NoWrites ==
    ASSUME NEW d, d = [f \in DOMAIN d |-> d[f]]
    PROVE  Over(d, <<>>) = d /\ Stages(d, <<>>) = {d}
<1>1. Until(d, <<>>, 0) = d
  BY DEF Until
<1>2. Len(<<>>) = 0
  OBVIOUS
<1>. QED
  BY <1>1, <1>2 DEF Over, Stages

LEMMA OneWrite ==
    ASSUME NEW d, d = [f \in DOMAIN d |-> d[f]], NEW f, NEW v
    PROVE  /\ Over(d, Put(f, v)) = [d EXCEPT ![f] = v]
           /\ Stages(d, Put(f, v)) = {d, [d EXCEPT ![f] = v]}
<1>. DEFINE s == Put(f, v)
<1>0. Len(s) = 1 /\ s[1].field = f /\ s[1].value = v
  <2>1. Len(s) = 1 /\ s[1] = [field |-> f, value |-> v]
    BY WritingFacts
  <2>. HIDE DEF s
  <2>. QED
    BY <2>1
<1>. HIDE DEF s
<1>1. Until(d, s, 0) = d
  BY DEF Until
<1>2. Until(d, s, 1) = [d EXCEPT ![f] = v]
  <2>. DEFINE at(g) == {i \in 1 .. 1 : s[i].field = g}
  <2>1. at(f) = {1} /\ \A g : g # f => at(g) = {}
    BY <1>0
  <2>2. Max({1}) = 1
    <3>1. {1} \in SUBSET (1 .. 1) /\ 1 \in Nat /\ 1 \in {1} /\ \A y \in {1} : 1 >= y
      OBVIOUS
    <3>. QED
      BY <3>1, MostIs
  <2>3. Until(d, s, 1) = [g \in DOMAIN d |-> IF at(g) = {} THEN d[g] ELSE s[Max(at(g))].value]
    BY DEF Until
  <2>. HIDE DEF at
  <2>4. \A g : (IF at(g) = {} THEN d[g] ELSE s[Max(at(g))].value) = IF g = f THEN v ELSE d[g]
    BY <1>0, <2>1, <2>2
  <2>. QED
    BY <2>3, <2>4
<1>3. 0 .. 1 = {0, 1}
  OBVIOUS
<1>. QED
  BY <1>0, <1>1, <1>2, <1>3 DEF Over, Stages, s

-----------------------------------------------------------------------------
(* A device is a record, and a write changes one field of it.              *)
Fields == {"inode", "entries", "inode_freemap", "block_freemap", "used_inode_count",
           "used_block_count"}
Rec(d) == DOMAIN d = Fields /\ d = [f \in DOMAIN d |-> d[f]]

LEMMA DeviceIs ==
    ASSUME NEW d
    PROVE  d \in Device <=>
             /\ Rec(d)
             /\ d.inode \in [Inodes -> InodeType] /\ d.entries \in Entries
             /\ d.inode_freemap \in SUBSET Bits
             /\ d.block_freemap \in Int /\ d.used_inode_count \in Int /\ d.used_block_count \in Int
<1>1. d \in Device => Rec(d)
  <2>. SUFFICES ASSUME d \in Device PROVE Rec(d)
    OBVIOUS
  <2>1. d = [inode |-> d.inode, entries |-> d.entries, inode_freemap |-> d.inode_freemap,
             block_freemap |-> d.block_freemap, used_inode_count |-> d.used_inode_count,
             used_block_count |-> d.used_block_count]
    BY DEF Device
  <2>2. DOMAIN d = Fields
    BY <2>1 DEF Fields
  <2>3. d = [f \in DOMAIN d |-> d[f]]
    BY <2>1, <2>2 DEF Fields
  <2>. QED
    BY <2>2, <2>3 DEF Rec
<1>2. ASSUME Rec(d), d.inode \in [Inodes -> InodeType], d.entries \in Entries,
             d.inode_freemap \in SUBSET Bits,
             d.block_freemap \in Int, d.used_inode_count \in Int, d.used_block_count \in Int
      PROVE  d \in Device
  <2>1. d = [inode |-> d.inode, entries |-> d.entries, inode_freemap |-> d.inode_freemap,
             block_freemap |-> d.block_freemap, used_inode_count |-> d.used_inode_count,
             used_block_count |-> d.used_block_count]
    BY <1>2 DEF Rec, Fields
  <2>. QED
    BY <1>2, <2>1 DEF Device
<1>3. d \in Device =>
         /\ d.inode \in [Inodes -> InodeType] /\ d.entries \in Entries
         /\ d.inode_freemap \in SUBSET Bits
         /\ d.block_freemap \in Int /\ d.used_inode_count \in Int /\ d.used_block_count \in Int
  BY DEF Device
<1>. QED
  BY <1>1, <1>2, <1>3

LEMMA WriteInode ==
    ASSUME NEW d, Rec(d), NEW v, NEW x, x = [d EXCEPT !["inode"] = v]
    PROVE  /\ Rec(x) /\ x.inode = v /\ x.entries = d.entries
           /\ x.inode_freemap = d.inode_freemap /\ x.used_inode_count = d.used_inode_count
           /\ x.block_freemap = d.block_freemap /\ x.used_block_count = d.used_block_count
BY DEF Rec, Fields

-----------------------------------------------------------------------------
(* The least set of directories.                                           *)

LEMMA RootIs == Root \in Inodes /\ INVALID_INODE_NR \notin Inodes /\ IsFiniteSet(Inodes)
<1>1. IsFiniteSet(0 .. (MaxInodes - 1))
  BY TestfsAssumption, FS_Interval
<1>. QED
  BY <1>1, TestfsAssumption DEF Root, Inodes, INVALID_INODE_NR

LEMMA KidsIs ==
    ASSUME NEW E, NEW d, NEW m
    PROVE  m \in Kids(E, d) <=> \E p : Leads(E, d, p) /\ E[d][p][2] = m
BY DEF Kids, Leads

LEMMA TreeClosed ==
    ASSUME NEW E, NEW I
    PROVE  /\ Tree(E, I) \subseteq Inodes
           /\ Closed(E, I, Tree(E, I))
           /\ \A X \in SUBSET Inodes : Closed(E, I, X) => Tree(E, I) \subseteq X
           /\ \A n \in Tree(E, I) : n = Root \/ n \in Dirs(I)
<1>1. Root \in Tree(E, I)
  BY RootIs DEF Tree, Closed
<1>2. ASSUME NEW e \in Tree(E, I), NEW m \in Kids(E, e) \cap Dirs(I)
      PROVE  m \in Tree(E, I)
  <2>1. m \in Inodes
    BY DEF Dirs
  <2>2. \A X \in SUBSET Inodes : Closed(E, I, X) => e \in X
    BY DEF Tree
  <2>3. ASSUME NEW X \in SUBSET Inodes, Closed(E, I, X)
        PROVE  m \in X
    BY <2>2, <2>3 DEF Closed
  <2>. QED
    BY <2>1, <2>3 DEF Tree
<1>3. \A X \in SUBSET Inodes : Closed(E, I, X) => Tree(E, I) \subseteq X
  BY DEF Tree
<1>4. {Root} \cup Dirs(I) \in SUBSET Inodes /\ Closed(E, I, {Root} \cup Dirs(I))
  BY RootIs DEF Dirs, Closed
<1>5. Tree(E, I) \subseteq {Root} \cup Dirs(I)
  BY <1>3, <1>4
<1>6. Tree(E, I) \subseteq Inodes
  BY DEF Tree
<1>7. Closed(E, I, Tree(E, I))
  BY <1>1, <1>2 DEF Closed
<1>. QED
  BY <1>3, <1>5, <1>6, <1>7

LEMMA TreeSame ==
    ASSUME NEW E, NEW I, NEW F, NEW J, NEW X, X = Tree(E, I),
           \A e \in X : Kids(F, e) \cap Dirs(J) = Kids(E, e) \cap Dirs(I)
    PROVE  Tree(F, J) = X
<1>1. X \in SUBSET Inodes /\ Closed(E, I, X)
  BY TreeClosed
<1>2. Closed(F, J, X)
  BY <1>1 DEF Closed
<1>3. Tree(F, J) \subseteq X /\ Closed(F, J, Tree(F, J))
  BY <1>1, <1>2, TreeClosed
<1>4. Closed(E, I, Tree(F, J))
  BY <1>3 DEF Closed
<1>5. X \subseteq Tree(F, J)
  BY <1>1, <1>3, <1>4, TreeClosed
<1>. QED
  BY <1>3, <1>5

LEMMA TreeGrows ==
    ASSUME NEW E, NEW I, NEW F, NEW J, NEW X, X = Tree(E, I),
           NEW c \in X, NEW n \in Inodes, n \notin X,
           \A e \in X \ {c} : Kids(F, e) \cap Dirs(J) = Kids(E, e) \cap Dirs(I),
           Kids(F, c) \cap Dirs(J) = (Kids(E, c) \cap Dirs(I)) \cup {n},
           Kids(F, n) \cap Dirs(J) = {}
    PROVE  Tree(F, J) = X \cup {n}
<1>1. X \in SUBSET Inodes /\ Closed(E, I, X)
  BY TreeClosed
<1>. DEFINE Y == Tree(F, J)
<1>2. Closed(F, J, X \cup {n}) /\ X \cup {n} \in SUBSET Inodes
  BY <1>1 DEF Closed
<1>3. Y \subseteq X \cup {n} /\ Closed(F, J, Y)
  BY <1>1, <1>2, TreeClosed
<1>. HIDE DEF Y
<1>4. Closed(E, I, Y \cap X)
  <2>1. Root \in Y \cap X
    BY <1>1, <1>3 DEF Closed
  <2>2. ASSUME NEW e \in Y \cap X, NEW m \in Kids(E, e) \cap Dirs(I)
        PROVE  m \in Y \cap X
    <3>1. m \in X
      BY <1>1 DEF Closed
    <3>2. m \in Kids(F, e) \cap Dirs(J)
      OBVIOUS
    <3>. QED
      BY <1>3, <3>1, <3>2 DEF Closed
  <2>. QED
    BY <2>1, <2>2 DEF Closed
<1>5. X \subseteq Y \cap X
  <2>1. Y \cap X \in SUBSET Inodes
    BY <1>1
  <2>. QED
    BY <1>4, <2>1, TreeClosed
<1>6. n \in Y
  BY <1>3, <1>5 DEF Closed
<1>. QED
  BY <1>3, <1>5, <1>6 DEF Y

LEMMA TreeShrinks ==
    ASSUME NEW E, NEW I, NEW F, NEW J, NEW X, X = Tree(E, I),
           NEW c \in X, NEW n, n # c, n # Root,
           \A e \in X \ {c, n} : /\ Kids(F, e) \cap Dirs(J) = Kids(E, e) \cap Dirs(I)
                                 /\ n \notin Kids(E, e),
           Kids(F, c) \cap Dirs(J) = (Kids(E, c) \cap Dirs(I)) \ {n},
           n \in X => Kids(E, n) = {}
    PROVE  Tree(F, J) = X \ {n}
<1>1. X \in SUBSET Inodes /\ Closed(E, I, X)
  BY TreeClosed
<1>. DEFINE Y == Tree(F, J)
<1>2. Closed(F, J, X \ {n}) /\ X \ {n} \in SUBSET Inodes
  BY <1>1 DEF Closed
<1>3. Y \subseteq X \ {n} /\ Closed(F, J, Y)
  BY <1>1, <1>2, TreeClosed
<1>. HIDE DEF Y
<1>4. CASE n \in X
  <2>1. Closed(E, I, Y \cup {n})
    <3>1. \A e \in Y : Kids(E, e) \cap Dirs(I) \subseteq Y \cup {n}
      BY <1>3 DEF Closed
    <3>. QED
      BY <1>3, <1>4, <3>1 DEF Closed
  <2>2. Y \cup {n} \in SUBSET Inodes
    BY <1>1, <1>3, <1>4
  <2>3. X \subseteq Y \cup {n}
    BY <2>1, <2>2, TreeClosed
  <2>. QED
    BY <1>3, <2>3 DEF Y
<1>5. CASE n \notin X
  <2>1. Closed(E, I, Y)
    <3>1. ASSUME NEW e \in Y, NEW m \in Kids(E, e) \cap Dirs(I)
          PROVE  m \in Y
      <4>1. e \in X /\ m \in X /\ m # n
        BY <1>1, <1>3, <1>5 DEF Closed
      <4>2. m \in Kids(F, e) \cap Dirs(J)
        BY <1>5, <4>1
      <4>. QED
        BY <1>3, <4>2 DEF Closed
    <3>. QED
      BY <1>3, <3>1 DEF Closed
  <2>2. Y \in SUBSET Inodes
    BY <1>1, <1>3
  <2>3. X \subseteq Y
    BY <2>1, <2>2, TreeClosed
  <2>. QED
    BY <1>3, <1>5, <2>3 DEF Y
<1>. QED
  BY <1>4, <1>5

-----------------------------------------------------------------------------
(* How the directories change: not at all, by an entry more, or by an      *)
(* entry less.                                                             *)

Agree(I, J, U) == \A n \in U : n \in Dirs(I) <=> n \in Dirs(J)

LEMMA UsingIs ==
    ASSUME NEW E, NEW I, NEW X, X = Tree(E, I), Shape(E, I, X)
    PROVE  /\ X \subseteq Using(E, X)
           /\ \A d \in X : \A m \in Kids(E, d) : m \in Using(E, X) /\ m # Root
           /\ \A m \in Using(E, X) : m = Root \/ \E d \in X : m \in Kids(E, d)
           /\ \A m \in Using(E, X) \cap Dirs(I) : m \in X
           /\ Root \in X /\ X \in SUBSET Inodes
<1>1. Closed(E, I, X) /\ X \in SUBSET Inodes
  BY TreeClosed
<1>2. \A d \in X : Dotted(E, d, X) /\ Root \notin Kids(E, d)
  BY DEF Shape
<1>3. \A d \in X : d = Root \/ \E e \in X : d \in Kids(E, e)
  BY <1>2 DEF Dotted
<1>. QED
  BY <1>1, <1>2, <1>3 DEF Using, Closed

LEMMA ShapeSame ==
    ASSUME NEW E, NEW I, NEW F, NEW J, NEW X, X = Tree(E, I), Shape(E, I, X),
           \A e \in X : F[e] = E[e] /\ Readably(F, J, e),
           Agree(I, J, Using(E, X))
    PROVE  Tree(F, J) = X /\ Using(F, X) = Using(E, X) /\ Shape(F, J, X)
<1>1. \A e \in X : Kids(F, e) = Kids(E, e)
  BY DEF Kids
<1>2. \A e \in X : \A m \in Kids(E, e) : m \in Using(E, X)
  BY DEF Using
<1>3. \A e \in X : Kids(F, e) \cap Dirs(J) = Kids(E, e) \cap Dirs(I)
  BY <1>1, <1>2 DEF Agree
<1>4. Tree(F, J) = X
  BY <1>3, TreeSame
<1>5. Using(F, X) = Using(E, X)
  BY <1>1 DEF Using
<1>6. Root \in Dirs(I) /\ Root \in Using(E, X)
  BY RootIs DEF Shape, Dirs, Using
<1>7. J[Root].i_type = "I_DIR"
  BY <1>6 DEF Agree, Dirs
<1>8. \A d \in X : Dotted(F, d, X) /\ OnceNamed(F, d) /\ Root \notin Kids(F, d)
  <2>. TAKE d \in X
  <2>1. Dotted(E, d, X) /\ OnceNamed(E, d) /\ Root \notin Kids(E, d) /\ F[d] = E[d]
    BY DEF Shape
  <2>2. OnceNamed(F, d)
    BY <2>1 DEF OnceNamed
  <2>3. Dotted(F, d, X)
    BY <1>1, <2>1 DEF Dotted
  <2>. QED
    BY <1>1, <2>1, <2>2, <2>3
<1>9. OnceLed(F, X)
  <2>1. OnceLed(E, X)
    BY DEF Shape
  <2>. QED
    BY <2>1 DEF OnceLed, Leads
<1>. QED
  BY <1>4, <1>5, <1>7, <1>8, <1>9 DEF Shape

(* An entry for n is put at place p of directory c.                        *)
Added(E, F, c, p, name, n) ==
    /\ Len(E[c]) <= Len(F[c]) /\ DOMAIN E[c] \subseteq DOMAIN F[c] /\ p \in DOMAIN F[c]
    /\ F[c][p] = <<name, n>> /\ name \notin Dots
    /\ p \in DOMAIN E[c] => ~Live(E[c][p])
    /\ \A q \in DOMAIN F[c] \ {p} : q \in DOMAIN E[c] /\ F[c][q] = E[c][q]
    /\ \A q \in DOMAIN E[c] : Live(E[c][q]) => E[c][q][1] # name

LEMMA AddedLeads ==
    ASSUME NEW E, NEW F, NEW c, NEW p, NEW name, NEW n, Added(E, F, c, p, name, n), n # INVALID_INODE_NR
    PROVE  /\ \A q : Leads(F, c, q) <=> q = p \/ (q # p /\ Leads(E, c, q))
           /\ ~Leads(E, c, p)
           /\ \A q : Leads(E, c, q) => F[c][q] = E[c][q]
           /\ Kids(F, c) = Kids(E, c) \cup {n}
<1>1. \A q : Leads(F, c, q) <=> q = p \/ (q # p /\ Leads(E, c, q))
  BY DEF Added, Leads, Live
<1>2. ~Leads(E, c, p) /\ \A q : Leads(E, c, q) => F[c][q] = E[c][q]
  BY DEF Added, Leads
<1>3. F[c][p][2] = n
  BY DEF Added
<1>4. \A m : m \in Kids(F, c) <=> m \in Kids(E, c) \cup {n}
  BY <1>1, <1>2, <1>3, KidsIs
<1>. QED
  BY <1>1, <1>2, <1>4

Elsewhere(E, F, S) == \A e \in S : F[e] = E[e]

GrownBy(E, I, F, X, Y, c, n, p, name) ==
    /\ X = Tree(E, I) /\ Shape(E, I, X) /\ c \in X /\ n \in Inodes /\ n \notin Using(E, X)
    /\ Added(E, F, c, p, name, n) /\ X \subseteq Y /\ Y \subseteq X \cup {n}
    /\ Elsewhere(E, F, X \ {c}) /\ Len(F[c]) >= 2 /\ {1, 2} \subseteq DOMAIN E[c]
Grown(E, F, X, Y, n) ==
    /\ Using(F, X) = Using(E, X) \cup {n}
    /\ \A d \in X : Dotted(F, d, Y) /\ OnceNamed(F, d) /\ Root \notin Kids(F, d)
    /\ OnceLed(F, X)

LEMMA AddedShape ==
    ASSUME NEW E, NEW I, NEW F, NEW X, NEW Y, NEW c, NEW n, NEW p, NEW name,
           GrownBy(E, I, F, X, Y, c, n, p, name)
    PROVE  Grown(E, F, X, Y, n)
<1>. /\ X = Tree(E, I) /\ Shape(E, I, X) /\ c \in X /\ n \in Inodes /\ n \notin Using(E, X)
     /\ Added(E, F, c, p, name, n) /\ X \subseteq Y /\ Y \subseteq X \cup {n}
     /\ Elsewhere(E, F, X \ {c}) /\ Len(F[c]) >= 2 /\ {1, 2} \subseteq DOMAIN E[c]
  BY DEF GrownBy
<1>0. n # INVALID_INODE_NR /\ n # Root /\ \A d \in X : n \notin Kids(E, d)
  BY RootIs DEF Using
<1>5. \A e \in X \ {c} : F[e] = E[e] /\ Kids(F, e) = Kids(E, e)
  BY DEF Kids, Elsewhere
<1>1. /\ \A q : Leads(F, c, q) <=> q = p \/ (q # p /\ Leads(E, c, q))
      /\ ~Leads(E, c, p)
      /\ \A q : Leads(E, c, q) => F[c][q] = E[c][q]
      /\ Kids(F, c) = Kids(E, c) \cup {n}
  BY <1>0, AddedLeads
<1>2. Using(F, X) = Using(E, X) \cup {n}
  BY <1>1, <1>5 DEF Using
<1>3. ASSUME NEW d \in X
      PROVE  Dotted(F, d, Y) /\ OnceNamed(F, d) /\ Root \notin Kids(F, d)
  <2>1. Dotted(E, d, X) /\ OnceNamed(E, d) /\ Root \notin Kids(E, d)
    BY DEF Shape
  <2>2. Root \notin Kids(F, d) /\ \A e \in X : Kids(E, e) \subseteq Kids(F, e)
    BY <1>0, <1>1, <1>5, <2>1
  <2>3. CASE d # c
    <3>1. F[d] = E[d]
      BY <1>5, <2>3
    <3>2. OnceNamed(F, d)
      BY <2>1, <3>1 DEF OnceNamed
    <3>. QED
      BY <2>1, <2>2, <3>1, <3>2 DEF Dotted
  <2>4. CASE d = c
    <3>1. OnceNamed(F, c)
      <4>. SUFFICES ASSUME NEW q \in DOMAIN F[c], NEW r \in DOMAIN F[c],
                           Live(F[c][q]), Live(F[c][r]), F[c][q][1] = F[c][r][1]
                    PROVE  q = r
        BY DEF OnceNamed
      <4>1. \A s \in DOMAIN F[c] \ {p} : s \in DOMAIN E[c] /\ F[c][s] = E[c][s]
        BY DEF Added
      <4>2. F[c][p][1] = name /\ \A s \in DOMAIN E[c] : Live(E[c][s]) => E[c][s][1] # name
        BY DEF Added
      <4>3. CASE q # p /\ r # p
        BY <2>1, <2>4, <4>1, <4>3 DEF OnceNamed
      <4>4. CASE q = p \/ r = p
        BY <4>1, <4>2, <4>4
      <4>. QED
        BY <4>3, <4>4
    <3>2. 1 # p /\ 2 # p
      <4>1. E[c][1] = <<".", c>> /\ E[c][2][1] = ".."
        BY <2>1, <2>4 DEF Dotted
      <4>2. E[c][2][2] \in X /\ c \in X
        BY <2>1, <2>4 DEF Dotted
      <4>3. X \subseteq Inodes
        BY TreeClosed
      <4>4. Live(E[c][1]) /\ Live(E[c][2])
        BY <4>1, <4>2, <4>3, RootIs DEF Live
      <4>. QED
        BY <4>4 DEF Added
    <3>3. F[c][1] = E[c][1] /\ F[c][2] = E[c][2]
      BY <3>2 DEF Added
    <3>. QED
      BY <2>1, <2>2, <2>4, <3>1, <3>3 DEF Dotted
  <2>. QED
    BY <2>3, <2>4
<1>4. OnceLed(F, X)
  <2>1. OnceLed(E, X)
    BY DEF Shape
  <2>2. \A d \in X \ {c} : \A q : (Leads(F, d, q) <=> Leads(E, d, q)) /\ F[d] = E[d]
    BY <1>5 DEF Leads
  <2>3. F[c][p][2] = n
    BY DEF Added
  <2>. SUFFICES ASSUME NEW d \in X, NEW e \in X, NEW q \in DOMAIN F[d], NEW r \in DOMAIN F[e],
                       Leads(F, d, q), Leads(F, e, r), F[d][q][2] = F[e][r][2]
                PROVE  d = e /\ q = r
    BY DEF OnceLed
  <2>4. \A f \in X : \A s : Leads(F, f, s) /\ ~(f = c /\ s = p) =>
              Leads(E, f, s) /\ F[f][s][2] = E[f][s][2] /\ F[f][s][2] # n
    <3>. TAKE f \in X
    <3>. TAKE s
    <3>. SUFFICES ASSUME Leads(F, f, s), ~(f = c /\ s = p)
                  PROVE  Leads(E, f, s) /\ F[f][s][2] = E[f][s][2] /\ F[f][s][2] # n
      OBVIOUS
    <3>1. Leads(E, f, s) /\ F[f][s] = E[f][s]
      BY <1>1, <2>2
    <3>2. E[f][s][2] \in Kids(E, f)
      BY <3>1, KidsIs
    <3>. QED
      BY <1>0, <3>1, <3>2
  <2>5. CASE ~(d = c /\ q = p) /\ ~(e = c /\ r = p)
    <3>1. Leads(E, d, q) /\ Leads(E, e, r) /\ E[d][q][2] = E[e][r][2]
      BY <2>4, <2>5
    <3>2. q \in DOMAIN E[d] /\ r \in DOMAIN E[e]
      BY <3>1 DEF Leads
    <3>. QED
      BY <2>1, <3>1, <3>2 DEF OnceLed
  <2>6. CASE (d = c /\ q = p) \/ (e = c /\ r = p)
    BY <2>3, <2>4, <2>6
  <2>. QED
    BY <2>5, <2>6
<1>. QED
  BY <1>2, <1>3, <1>4 DEF Grown

LEMMA FileAdded ==
    ASSUME NEW E, NEW I, NEW F, NEW J, NEW X, X = Tree(E, I), Shape(E, I, X), E \in Entries,
           F \in Entries, NEW c \in X, NEW n \in Inodes, n \notin Using(E, X), NEW p, NEW name,
           Added(E, F, c, p, name, n), \A e \in X \ {c} : F[e] = E[e],
           \A e \in X : Readably(F, J, e), Agree(I, J, Using(E, X)), n \notin Dirs(J)
    PROVE  Tree(F, J) = X /\ Using(F, X) = Using(E, X) \cup {n} /\ Shape(F, J, X)
<1>0. X \subseteq Inodes /\ Len(E[c]) \in Nat /\ Len(F[c]) \in Nat /\ Len(E[c]) >= 2
      /\ DOMAIN E[c] = 1 .. Len(E[c])
  <2>1. X \subseteq Inodes
    BY TreeClosed
  <2>2. Len(E[c]) >= 2
    BY DEF Shape, Dotted
  <2>. QED
    BY <2>1, <2>2 DEF Entries
<1>1. Len(F[c]) >= 2 /\ {1, 2} \subseteq DOMAIN E[c]
  BY <1>0 DEF Added
<1>2. \A e \in X \ {c} : F[e] = E[e] /\ Kids(F, e) = Kids(E, e)
  BY DEF Kids
<1>3. /\ Using(F, X) = Using(E, X) \cup {n}
      /\ \A d \in X : Dotted(F, d, X) /\ OnceNamed(F, d) /\ Root \notin Kids(F, d)
      /\ OnceLed(F, X)
  <2>1. X \subseteq X /\ X \subseteq X \cup {n} /\ Elsewhere(E, F, X \ {c})
    BY DEF Elsewhere
  <2>2. GrownBy(E, I, F, X, X, c, n, p, name)
    BY <1>0, <1>1, <2>1 DEF GrownBy
  <2>3. Grown(E, F, X, X, n)
    BY <2>2, AddedShape
  <2>. QED
    BY <2>3 DEF Grown
<1>4. Kids(F, c) = Kids(E, c) \cup {n}
  <2>1. n # INVALID_INODE_NR
    BY RootIs
  <2>. QED
    BY <2>1, AddedLeads
<1>5. \A e \in X : \A m \in Kids(E, e) : m \in Dirs(I) <=> m \in Dirs(J)
  BY DEF Using, Agree
<1>6. \A e \in X : Kids(F, e) \cap Dirs(J) = Kids(E, e) \cap Dirs(I)
  BY <1>2, <1>4, <1>5
<1>7. Tree(F, J) = X
  BY <1>6, TreeSame
<1>8. J[Root].i_type = "I_DIR"
  BY RootIs DEF Shape, Dirs, Using, Agree
<1>. QED
  BY <1>3, <1>7, <1>8 DEF Shape

LEMMA DirectoryAdded ==
    ASSUME NEW E, NEW I, NEW F, NEW J, NEW X, X = Tree(E, I), Shape(E, I, X), E \in Entries,
           F \in Entries, NEW c \in X, NEW n \in Inodes, n \notin Using(E, X), NEW p, NEW name,
           Added(E, F, c, p, name, n), \A e \in X \ {c} : F[e] = E[e],
           \A e \in X \cup {n} : Readably(F, J, e), Agree(I, J, Using(E, X)), n \in Dirs(J),
           F[n] = <<<<".", n>>, <<"..", c>>>>
    PROVE  /\ Tree(F, J) = X \cup {n} /\ Using(F, X \cup {n}) = Using(E, X) \cup {n}
           /\ Shape(F, J, X \cup {n})
<1>0. X \subseteq Inodes /\ Len(E[c]) \in Nat /\ Len(F[c]) \in Nat /\ Len(E[c]) >= 2
      /\ DOMAIN E[c] = 1 .. Len(E[c]) /\ n \notin X
  <2>1. X \subseteq Inodes
    BY TreeClosed
  <2>2. Len(E[c]) >= 2
    BY DEF Shape, Dotted
  <2>3. n \notin X
    BY UsingIs
  <2>. QED
    BY <2>1, <2>2, <2>3 DEF Entries
<1>1. Len(F[c]) >= 2 /\ {1, 2} \subseteq DOMAIN E[c]
  BY <1>0 DEF Added
<1>2. \A e \in X \ {c} : F[e] = E[e] /\ Kids(F, e) = Kids(E, e)
  BY DEF Kids
<1>. DEFINE Y == X \cup {n}
<1>3. /\ Using(F, X) = Using(E, X) \cup {n}
      /\ \A d \in X : Dotted(F, d, Y) /\ OnceNamed(F, d) /\ Root \notin Kids(F, d)
      /\ OnceLed(F, X)
  <2>1. X \subseteq Y /\ Y \subseteq X \cup {n} /\ Elsewhere(E, F, X \ {c})
    BY DEF Elsewhere
  <2>. HIDE DEF Y
  <2>2. GrownBy(E, I, F, X, Y, c, n, p, name)
    BY <1>0, <1>1, <2>1 DEF GrownBy
  <2>3. Grown(E, F, X, Y, n)
    BY <2>2, AddedShape
  <2>. QED
    BY <2>3 DEF Grown
<1>4. Kids(F, c) = Kids(E, c) \cup {n}
  <2>1. n # INVALID_INODE_NR
    BY RootIs
  <2>. QED
    BY <2>1, AddedLeads
<1>5. \A e \in X : \A m \in Kids(E, e) : m \in Dirs(I) <=> m \in Dirs(J)
  BY DEF Using, Agree
<1>6. Kids(F, n) = {} /\ \A q : ~Leads(F, n, q)
  <2>1. \A q \in DOMAIN F[n] : F[n][q][1] \in Dots
    BY DEF Dots
  <2>. QED
    BY <2>1 DEF Kids, Leads
<1>7. Tree(F, J) = Y
  <2>1. \A e \in X \ {c} : Kids(F, e) \cap Dirs(J) = Kids(E, e) \cap Dirs(I)
    BY <1>2, <1>5
  <2>2. Kids(F, c) \cap Dirs(J) = (Kids(E, c) \cap Dirs(I)) \cup {n}
    BY <1>4, <1>5
  <2>. QED
    BY <1>0, <1>6, <2>1, <2>2, TreeGrows
<1>8. J[Root].i_type = "I_DIR"
  BY RootIs DEF Shape, Dirs, Using, Agree
<1>9. Using(F, Y) = Using(E, X) \cup {n}
  BY <1>3, <1>6 DEF Using
<1>10. Dotted(F, n, Y) /\ OnceNamed(F, n) /\ Root \notin Kids(F, n)
  <2>1. Len(F[n]) = 2 /\ DOMAIN F[n] = {1, 2} /\ F[n][1] = <<".", n>> /\ F[n][2] = <<"..", c>>
    OBVIOUS
  <2>2. OnceNamed(F, n)
    BY <2>1 DEF OnceNamed
  <2>3. n \in Kids(F, c)
    BY <1>4
  <2>4. n # Root
    BY DEF Using
  <2>. QED
    BY <1>6, <2>1, <2>2, <2>3, <2>4 DEF Dotted
<1>11. OnceLed(F, Y)
  BY <1>3, <1>6 DEF OnceLed
<1>. QED
  BY <1>3, <1>7, <1>8, <1>9, <1>10, <1>11 DEF Shape

(* The entry at place p of directory c becomes invalid.                    *)
DropsAt(E, I, F, J, X, Y, c, p, n) ==
    /\ Y = X \ {n} /\ X = Tree(E, I) /\ Shape(E, I, X) /\ E \in Entries /\ F \in Entries /\ c \in X
    /\ Leads(E, c, p) /\ n = E[c][p][2] /\ (n \in Dirs(I) => Kids(E, n) = {})
    /\ F[c] = [E[c] EXCEPT ![p] = [@ EXCEPT ![2] = INVALID_INODE_NR]]
    /\ \A e \in X \ {c, n} : F[e] = E[e]
    /\ \A e \in X \ {n} : Readably(F, J, e)
    /\ Agree(I, J, Using(E, X) \ {n})

LEMMA Dropped ==
    ASSUME NEW E, NEW I, NEW F, NEW J, NEW X, NEW Y, NEW c, NEW p, NEW n,
           DropsAt(E, I, F, J, X, Y, c, p, n)
    PROVE  Tree(F, J) = Y /\ Using(F, Y) = Using(E, X) \ {n} /\ Shape(F, J, Y)
<1>. /\ Y = X \ {n} /\ X = Tree(E, I) /\ Shape(E, I, X) /\ E \in Entries /\ F \in Entries /\ c \in X
     /\ Leads(E, c, p) /\ n = E[c][p][2] /\ (n \in Dirs(I) => Kids(E, n) = {})
     /\ F[c] = [E[c] EXCEPT ![p] = [@ EXCEPT ![2] = INVALID_INODE_NR]]
     /\ \A e \in X \ {c, n} : F[e] = E[e]
     /\ \A e \in X \ {n} : Readably(F, J, e)
     /\ Agree(I, J, Using(E, X) \ {n})
  BY DEF DropsAt
<1>0. X \subseteq Inodes /\ Root \in X /\ E[c] \in Seq(Names \X (Inodes \cup {INVALID_INODE_NR}))
      /\ p \in DOMAIN E[c]
  BY TreeClosed DEF Entries, Leads, Closed
<1>1. n \in Kids(E, c) /\ n # Root /\ n \in Using(E, X) /\ n # c
  <2>1. n \in Kids(E, c)
    BY KidsIs
  <2>2. n # Root /\ n \in Using(E, X)
    BY <2>1, UsingIs
  <2>3. c # Root => c \in Dirs(I)
    BY TreeClosed
  <2>. QED
    BY <2>1, <2>2, <2>3
<1>2. n \in X => Kids(E, n) = {}
  BY <1>1, TreeClosed
<1>3. \A q : Leads(F, c, q) <=> Leads(E, c, q) /\ q # p
  <2>1. /\ DOMAIN F[c] = DOMAIN E[c] /\ Len(F[c]) = Len(E[c])
        /\ \A q \in DOMAIN E[c] \ {p} : F[c][q] = E[c][q]
        /\ F[c][p][2] = INVALID_INODE_NR
    <3>1. E[c][p] \in Names \X (Inodes \cup {INVALID_INODE_NR})
      BY <1>0
    <3>. QED
      BY <1>0, <3>1
  <2>. QED
    BY <1>0, <2>1 DEF Leads, Live
<1>4. /\ DOMAIN F[c] = DOMAIN E[c] /\ Len(F[c]) = Len(E[c])
      /\ \A q \in DOMAIN E[c] \ {p} : F[c][q] = E[c][q]
      /\ ~Live(F[c][p])
  <2>1. E[c][p] \in Names \X (Inodes \cup {INVALID_INODE_NR})
    BY <1>0
  <2>. QED
    BY <1>0, <2>1 DEF Live
<1>5. \A d \in X : \A q : Leads(E, d, q) /\ E[d][q][2] = n => d = c /\ q = p
  <2>1. OnceLed(E, X)
    BY DEF Shape
  <2>. QED
    BY <2>1 DEF OnceLed, Leads
<1>6. Kids(F, c) = Kids(E, c) \ {n} /\ \A e \in X \ {c} : n \notin Kids(E, e)
  <2>1. \A m : m \in Kids(F, c) <=> m \in Kids(E, c) \ {n}
    <3>. TAKE m
    <3>1. m \in Kids(F, c) <=> \E q : Leads(E, c, q) /\ q # p /\ E[c][q][2] = m
      BY <1>3, <1>4, KidsIs DEF Leads
    <3>2. m \in Kids(E, c) <=> \E q : Leads(E, c, q) /\ E[c][q][2] = m
      BY KidsIs
    <3>. QED
      BY <1>5, <3>1, <3>2
  <2>2. \A e \in X \ {c} : n \notin Kids(E, e)
    BY <1>5, KidsIs
  <2>. QED
    BY <2>1, <2>2
<1>7. \A e \in X \ {c, n} : Kids(F, e) = Kids(E, e)
  BY DEF Kids
<1>8. \A e \in X : \A m \in Kids(E, e) \ {n} : m \in Dirs(I) <=> m \in Dirs(J)
  BY DEF Using, Agree
<1>9. Tree(F, J) = Y
  <2>1. \A e \in X \ {c, n} : /\ Kids(F, e) \cap Dirs(J) = Kids(E, e) \cap Dirs(I)
                              /\ n \notin Kids(E, e)
    BY <1>6, <1>7, <1>8
  <2>2. Kids(F, c) \cap Dirs(J) = (Kids(E, c) \cap Dirs(I)) \ {n}
    BY <1>6, <1>8
  <2>. QED
    BY <1>1, <1>2, <2>1, <2>2, TreeShrinks
<1>10. Using(F, Y) = Using(E, X) \ {n}
  BY <1>1, <1>2, <1>6, <1>7 DEF Using
<1>11. J[Root].i_type = "I_DIR"
  BY <1>1, RootIs DEF Shape, Dirs, Using, Agree
<1>12. ASSUME NEW d \in Y
       PROVE  Dotted(F, d, Y) /\ OnceNamed(F, d) /\ Root \notin Kids(F, d)
  <2>1. Dotted(E, d, X) /\ OnceNamed(E, d) /\ Root \notin Kids(E, d) /\ d \in X /\ d # n
    BY DEF Shape
  <2>2. /\ E[d][2][2] \in X
        /\ IF d = Root THEN E[d][2][2] = Root ELSE d \in Kids(E, E[d][2][2])
    BY <2>1 DEF Dotted
  <2>3. /\ E[d][2][2] \in Y
        /\ IF d = Root THEN E[d][2][2] = Root ELSE d \in Kids(F, E[d][2][2])
    <3>1. CASE d = Root
      BY <1>0, <1>1, <2>2, <3>1
    <3>2. CASE d # Root
      <4>1. E[d][2][2] # n
        BY <1>2, <2>2, <3>2
      <4>2. CASE E[d][2][2] = c
        BY <1>6, <2>1, <2>2, <3>2, <4>1, <4>2
      <4>3. CASE E[d][2][2] # c
        BY <1>7, <2>2, <3>2, <4>1, <4>3
      <4>. QED
        BY <4>2, <4>3
    <3>. QED
      BY <3>1, <3>2
  <2>4. Root \notin Kids(F, d)
    BY <1>6, <1>7, <2>1
  <2>5. CASE d = c
    <3>1. Len(E[c]) >= 2 /\ E[c][1] = <<".", c>> /\ E[c][2][1] = ".."
      BY <2>1, <2>5 DEF Dotted
    <3>2. 1 # p /\ 2 # p
      BY <3>1 DEF Leads, Dots
    <3>3. 1 \in DOMAIN E[c] /\ 2 \in DOMAIN E[c]
      BY <1>0, <3>1
    <3>4. F[c][1] = E[c][1] /\ F[c][2] = E[c][2] /\ Len(F[c]) >= 2
      BY <1>4, <3>1, <3>2, <3>3
    <3>5. OnceNamed(F, c)
      BY <1>4, <2>1, <2>5 DEF OnceNamed
    <3>. QED
      BY <2>3, <2>4, <2>5, <3>1, <3>4, <3>5 DEF Dotted
  <2>6. CASE d # c
    <3>1. F[d] = E[d]
      BY <2>1, <2>6
    <3>2. OnceNamed(F, d)
      BY <2>1, <3>1 DEF OnceNamed
    <3>. QED
      BY <2>1, <2>3, <2>4, <3>1, <3>2 DEF Dotted
  <2>. QED
    BY <2>5, <2>6
<1>13. OnceLed(F, Y)
  <2>1. OnceLed(E, X)
    BY DEF Shape
  <2>2. \A d \in Y : \A q : Leads(F, d, q) => Leads(E, d, q) /\ F[d][q] = E[d][q]
    <3>. TAKE d \in Y
    <3>. TAKE q
    <3>1. CASE d = c
      BY <1>3, <1>4, <3>1 DEF Leads
    <3>2. CASE d # c
      <4>1. F[d] = E[d]
        BY <3>2
      <4>. QED
        BY <4>1 DEF Leads
    <3>. QED
      BY <3>1, <3>2
  <2>. QED
    BY <2>1, <2>2 DEF OnceLed, Leads
<1>. QED
  BY <1>1, <1>9, <1>10, <1>11, <1>12, <1>13 DEF Shape

-----------------------------------------------------------------------------
(* The devices a sequence of writes leads over, one write at a time.       *)
Dev(I, E, F, u, b, m) ==
    [inode |-> I, entries |-> E, inode_freemap |-> F, used_inode_count |-> u,
     block_freemap |-> b, used_block_count |-> m]
Doing(d, s, S, y) == Writing(s) /\ Over(d, s) = y /\ Stages(d, s) \subseteq S

LEMMA DevIs ==
    /\ \A I, E, F, u, b, m :
          /\ Dev(I, E, F, u, b, m).inode = I /\ Dev(I, E, F, u, b, m).entries = E
          /\ Dev(I, E, F, u, b, m).inode_freemap = F /\ Dev(I, E, F, u, b, m).used_inode_count = u
          /\ Dev(I, E, F, u, b, m).block_freemap = b /\ Dev(I, E, F, u, b, m).used_block_count = m
    /\ \A d \in Device : d = Dev(d.inode, d.entries, d.inode_freemap, d.used_inode_count,
                                 d.block_freemap, d.used_block_count)
BY DEF Dev, Device

LEMMA DoingThen ==
    ASSUME NEW d, NEW s, NEW S, NEW y, NEW t, NEW T, NEW z, Doing(d, s, S, y), Doing(y, t, T, z)
    PROVE  Doing(d, s \o t, S \cup T, z)
<1>1. Writing(s) /\ Writing(t) /\ Over(d, s) = y /\ Over(y, t) = z
      /\ Stages(d, s) \subseteq S /\ Stages(y, t) \subseteq T
  BY DEF Doing
<1>2. Writing(s \o t)
  BY <1>1, WritingConcat
<1>3. Over(d, s \o t) = z
  BY <1>1, OverConcat
<1>4. \A x \in Stages(d, s \o t) : x \in Stages(d, s) \/ x \in Stages(y, t)
  BY <1>1, StagesConcat
<1>. QED
  BY <1>1, <1>2, <1>3, <1>4 DEF Doing

LEMMA DoingNothing ==
    ASSUME NEW I, NEW E, NEW F, NEW u, NEW b, NEW m
    PROVE  Doing(Dev(I, E, F, u, b, m), <<>>, {Dev(I, E, F, u, b, m)}, Dev(I, E, F, u, b, m))
<1>. DEFINE d == Dev(I, E, F, u, b, m)
<1>1. d = [f \in DOMAIN d |-> d[f]]
  BY DEF Dev
<1>. HIDE DEF d
<1>2. Over(d, <<>>) = d /\ Stages(d, <<>>) = {d} /\ Writing(<<>>)
  BY <1>1, NoWrites, WritingFacts
<1>. QED
  BY <1>2 DEF Doing, d

LEMMA DoingPut ==
    ASSUME NEW I, NEW E, NEW F, NEW u, NEW b, NEW m, NEW v
    PROVE  LET d == Dev(I, E, F, u, b, m)
           IN  /\ Doing(d, Put("inode", v), {d, Dev(v, E, F, u, b, m)}, Dev(v, E, F, u, b, m))
               /\ Doing(d, Put("entries", v), {d, Dev(I, v, F, u, b, m)}, Dev(I, v, F, u, b, m))
               /\ Doing(d, Put("inode_freemap", v), {d, Dev(I, E, v, u, b, m)}, Dev(I, E, v, u, b, m))
               /\ Doing(d, Put("used_inode_count", v), {d, Dev(I, E, F, v, b, m)},
                        Dev(I, E, F, v, b, m))
               /\ Doing(d, Put("block_freemap", v), {d, Dev(I, E, F, u, v, m)}, Dev(I, E, F, u, v, m))
               /\ Doing(d, Put("used_block_count", v), {d, Dev(I, E, F, u, b, v)},
                        Dev(I, E, F, u, b, v))
<1>. DEFINE d == Dev(I, E, F, u, b, m)
<1>1. d = [f \in DOMAIN d |-> d[f]]
  BY DEF Dev
<1>2. d = Dev(I, E, F, u, b, m)
  OBVIOUS
<1>. HIDE DEF d
<1>3. ASSUME NEW f
      PROVE  Doing(d, Put(f, v), {d, [d EXCEPT ![f] = v]}, [d EXCEPT ![f] = v])
  <2>1. Over(d, Put(f, v)) = [d EXCEPT ![f] = v]
        /\ Stages(d, Put(f, v)) = {d, [d EXCEPT ![f] = v]}
    BY <1>1, OneWrite
  <2>. QED
    BY <2>1, WritingFacts DEF Doing
<1>4. Doing(d, Put("inode", v), {d, Dev(v, E, F, u, b, m)}, Dev(v, E, F, u, b, m))
  <2>1. [d EXCEPT !["inode"] = v] = Dev(v, E, F, u, b, m)
    BY <1>2 DEF Dev
  <2>. QED
    BY <1>3, <2>1
<1>5. Doing(d, Put("entries", v), {d, Dev(I, v, F, u, b, m)}, Dev(I, v, F, u, b, m))
  <2>1. [d EXCEPT !["entries"] = v] = Dev(I, v, F, u, b, m)
    BY <1>2 DEF Dev
  <2>. QED
    BY <1>3, <2>1
<1>6. Doing(d, Put("inode_freemap", v), {d, Dev(I, E, v, u, b, m)}, Dev(I, E, v, u, b, m))
  <2>1. [d EXCEPT !["inode_freemap"] = v] = Dev(I, E, v, u, b, m)
    BY <1>2 DEF Dev
  <2>. QED
    BY <1>3, <2>1
<1>7. Doing(d, Put("used_inode_count", v), {d, Dev(I, E, F, v, b, m)}, Dev(I, E, F, v, b, m))
  <2>1. [d EXCEPT !["used_inode_count"] = v] = Dev(I, E, F, v, b, m)
    BY <1>2 DEF Dev
  <2>. QED
    BY <1>3, <2>1
<1>8. Doing(d, Put("block_freemap", v), {d, Dev(I, E, F, u, v, m)}, Dev(I, E, F, u, v, m))
  <2>1. [d EXCEPT !["block_freemap"] = v] = Dev(I, E, F, u, v, m)
    BY <1>2 DEF Dev
  <2>. QED
    BY <1>3, <2>1
<1>9. Doing(d, Put("used_block_count", v), {d, Dev(I, E, F, u, b, v)}, Dev(I, E, F, u, b, v))
  <2>1. [d EXCEPT !["used_block_count"] = v] = Dev(I, E, F, u, b, v)
    BY <1>2 DEF Dev
  <2>. QED
    BY <1>3, <2>1
<1>. QED
  BY <1>4, <1>5, <1>6, <1>7, <1>8, <1>9 DEF d

(* A freemap and its counter.                                              *)
LEMMA DoingPairs ==
    ASSUME NEW I, NEW E, NEW F, NEW u, NEW b, NEW m, NEW v, NEW w
    PROVE  LET d == Dev(I, E, F, u, b, m)
           IN  /\ Doing(d, Put("inode_freemap", v) \o Put("used_inode_count", w),
                        {d, Dev(I, E, v, u, b, m), Dev(I, E, v, w, b, m)}, Dev(I, E, v, w, b, m))
               /\ Doing(d, Put("block_freemap", v) \o Put("used_block_count", w),
                        {d, Dev(I, E, F, u, v, m), Dev(I, E, F, u, v, w)}, Dev(I, E, F, u, v, w))
<1>. DEFINE d == Dev(I, E, F, u, b, m)
            d1 == Dev(I, E, v, u, b, m)
            d2 == Dev(I, E, v, w, b, m)
            e1 == Dev(I, E, F, u, v, m)
            e2 == Dev(I, E, F, u, v, w)
            f == Put("inode_freemap", v)
            g == Put("used_inode_count", w)
            h == Put("block_freemap", v)
            k == Put("used_block_count", w)
<1>1. Doing(d, f, {d, d1}, d1) /\ Doing(d1, g, {d1, d2}, d2)
      /\ Doing(d, h, {d, e1}, e1) /\ Doing(e1, k, {e1, e2}, e2)
  BY DoingPut
<1>. HIDE DEF d, d1, d2, e1, e2, f, g, h, k
<1>2. Doing(d, f \o g, {d, d1} \cup {d1, d2}, d2) /\ Doing(d, h \o k, {d, e1} \cup {e1, e2}, e2)
  BY <1>1, DoingThen
<1>3. {d, d1} \cup {d1, d2} = {d, d1, d2} /\ {d, e1} \cup {e1, e2} = {d, e1, e2}
  OBVIOUS
<1>. QED
  BY <1>2, <1>3 DEF d, d1, d2, e1, e2, f, g, h, k

-----------------------------------------------------------------------------
(* What the next start reads, and when it is good.                         *)
Cut(E, I) ==
    [n \in Inodes |-> IF I[n].size = Huge THEN E[n]
                      ELSE SubSeq(E[n], 1, Min({Len(E[n]), I[n].size}))]

LEMMA ReadableIs ==
    ASSUME NEW I, NEW E, NEW F, NEW u, NEW b, NEW m
    PROVE  Readable(Dev(I, E, F, u, b, m)) = Dev(I, Cut(E, I), F, u, b, m)
<1>. DEFINE d == Dev(I, E, F, u, b, m)
            v == Cut(E, I)
<1>1. d.inode = I /\ d.entries = E
  BY DevIs
<1>2. [d EXCEPT !["entries"] = v] = Dev(I, v, F, u, b, m)
  <2>. HIDE DEF v
  <2>. QED
    BY DEF Dev
<1>. HIDE DEF d
<1>3. Readable(d) = [d EXCEPT !["entries"] = v]
  BY <1>1 DEF Readable, Cut
<1>. QED
  BY <1>2, <1>3 DEF d

Cutting(E, I, e) ==
    /\ Cut(E, I)[e] \in Seq(Names \X (Inodes \cup {INVALID_INODE_NR}))
    /\ Readably(Cut(E, I), I, e)
    /\ Readably(E, I, e) => Cut(E, I)[e] = E[e]
    /\ ~Readably(E, I, e) => /\ Len(Cut(E, I)[e]) = I[e].size
                             /\ \A q \in 1 .. I[e].size : Cut(E, I)[e][q] = E[e][q]

LEMMA CutIs ==
    ASSUME NEW I \in [Inodes -> InodeType], NEW E \in Entries, NEW e \in Inodes
    PROVE  Cutting(E, I, e)
<1>. DEFINE s == E[e]
            z == I[e].size
            T == Names \X (Inodes \cup {INVALID_INODE_NR})
<1>1. s \in Seq(T) /\ Len(s) \in Nat /\ z \in Nat \cup {Huge} /\ -1 \notin Nat
  BY DEF Entries, InodeType
<1>2. Cut(E, I)[e] = IF z = Huge THEN s ELSE SubSeq(s, 1, Min({Len(s), z}))
  BY DEF Cut
<1>3. Readably(E, I, e) <=> z = Huge \/ Len(s) <= z
  BY DEF Readably
<1>4. Readably(Cut(E, I), I, e) <=> z = Huge \/ Len(Cut(E, I)[e]) <= z
  BY DEF Readably
<1>. HIDE DEF s, z, T
<1>5. CASE z = Huge
  BY <1>1, <1>2, <1>3, <1>4, <1>5 DEF Cutting, s, z, T
<1>6. CASE z # Huge
  <2>1. z \in Nat
    BY <1>1, <1>6
  <2>2. Min({Len(s), z}) = IF Len(s) <= z THEN Len(s) ELSE z
    BY <1>1, <2>1, LeastOfTwo
  <2>3. CASE Len(s) <= z
    <3>1. Cut(E, I)[e] = s
      <4>1. SubSeq(s, 1, Len(s)) = s
        BY <1>1
      <4>. QED
        BY <1>2, <1>6, <2>2, <2>3, <4>1
    <3>. QED
      BY <1>1, <1>3, <1>4, <2>3, <3>1 DEF Cutting, s, z, T
  <2>4. CASE ~(Len(s) <= z)
    <3>1. Cut(E, I)[e] = SubSeq(s, 1, z)
      BY <1>2, <1>6, <2>2, <2>4
    <3>2. /\ SubSeq(s, 1, z) \in Seq(T) /\ Len(SubSeq(s, 1, z)) = z
          /\ \A q \in 1 .. z : SubSeq(s, 1, z)[q] = s[q]
      BY <1>1, <2>1, <2>4
    <3>3. z <= z
      BY <2>1
    <3>. QED
      BY <1>1, <1>3, <1>4, <1>6, <2>4, <3>1, <3>2, <3>3 DEF Cutting, s, z, T
  <2>. QED
    BY <2>3, <2>4
<1>. QED
  BY <1>5, <1>6

LEMMA CutEntries ==
    ASSUME NEW I \in [Inodes -> InodeType], NEW E \in Entries
    PROVE  Cut(E, I) \in Entries
<1>1. \A e \in Inodes : Cut(E, I)[e] \in Seq(Names \X (Inodes \cup {INVALID_INODE_NR}))
  BY CutIs DEF Cutting
<1>2. Cut(E, I) = [e \in Inodes |-> Cut(E, I)[e]]
  BY DEF Cut
<1>. QED
  BY <1>1, <1>2, Zenon DEF Entries

Books(I, F, u, b, m, U, c) ==
    /\ U \in SUBSET Inodes /\ Few(I, F, c)
    /\ U \subseteq F /\ Cardinality(U) <= u /\ Total(Sizes(I), U) <= m /\ Total(Sizes(I), U) <= b
    /\ m <= MaxFsBlocks /\ u - Cardinality(F) \in (-c) .. c /\ m - b \in (-c) .. c
Typed(I, E, F, u, b, m) ==
    /\ I \in [Inodes -> InodeType] /\ E \in Entries /\ F \in SUBSET Bits
    /\ u \in Int /\ b \in Int /\ m \in Int

LEMMA GoodIs ==
    ASSUME NEW I, NEW E, NEW F, NEW u, NEW b, NEW m, NEW c
    PROVE  Good(Dev(I, E, F, u, b, m), c) <=>
             /\ Typed(I, E, F, u, b, m) /\ Shape(E, I, Tree(E, I))
             /\ Books(I, F, u, b, m, Using(E, Tree(E, I)), c)
<1>1. Dev(I, E, F, u, b, m) \in Device <=> Typed(I, E, F, u, b, m)
  BY DEF Device, Typed, Dev
<1>2. \A U : Cover(Dev(I, E, F, u, b, m), U, c) <=> Books(I, F, u, b, m, U, c)
  BY DevIs DEF Cover, Books
<1>. QED
  BY <1>1, <1>2, DevIs DEF Good

LEMMA SizesAre ==
    ASSUME NEW I \in [Inodes -> InodeType]
    PROVE  /\ Sizes(I) \in [Inodes -> Nat] /\ \A n \in Inodes : Sizes(I)[n] = I[n].block_count
           /\ \A U \in SUBSET Inodes : IsFiniteSet(U) /\ Total(Sizes(I), U) \in Nat
                                       /\ Cardinality(U) \in Nat
<1>1. Sizes(I) \in [Inodes -> Nat] /\ \A n \in Inodes : Sizes(I)[n] = I[n].block_count
  BY TestfsAssumption DEF Sizes, InodeType
<1>2. ASSUME NEW U \in SUBSET Inodes
      PROVE  IsFiniteSet(U) /\ Total(Sizes(I), U) \in Nat /\ Cardinality(U) \in Nat
  <2>1. IsFiniteSet(U)
    BY RootIs, FS_Subset
  <2>. QED
    BY <1>1, <2>1, TotalFinite, FS_CardinalityType
<1>. QED
  BY <1>1, <1>2

(* The blocks of U when one of its inodes changes, or it has one more, or  *)
(* one less.                                                               *)
LEMMA SizesChange ==
    ASSUME NEW I \in [Inodes -> InodeType], NEW J \in [Inodes -> InodeType],
           NEW U \in SUBSET Inodes, NEW c \in U,
           \A e \in U \ {c} : J[e].block_count = I[e].block_count
    PROVE  Total(Sizes(J), U) = Total(Sizes(I), U) + J[c].block_count - I[c].block_count
<1>1. IsFiniteSet(U) /\ U \ {c} \in SUBSET Inodes
  BY SizesAre
<1>2. /\ Total(Sizes(J), U) = Sizes(J)[c] + Total(Sizes(J), U \ {c})
      /\ Total(Sizes(I), U) = Sizes(I)[c] + Total(Sizes(I), U \ {c})
  BY <1>1, SizesAre, TotalAdd
<1>3. Total(Sizes(J), U \ {c}) = Total(Sizes(I), U \ {c})
  <2>1. \A e \in U \ {c} : Sizes(J)[e] = Sizes(I)[e]
    BY SizesAre
  <2>. QED
    BY <2>1, TotalSame
<1>4. /\ Sizes(J)[c] = J[c].block_count /\ Sizes(I)[c] = I[c].block_count
      /\ Sizes(J)[c] \in Nat /\ Sizes(I)[c] \in Nat /\ Total(Sizes(I), U \ {c}) \in Nat
  BY <1>1, SizesAre
<1>. HIDE DEF Total
<1>. QED
  BY <1>2, <1>3, <1>4

LEMMA SizesMore ==
    ASSUME NEW I \in [Inodes -> InodeType], NEW U \in SUBSET Inodes, NEW n \in Inodes, n \notin U
    PROVE  /\ Total(Sizes(I), U \cup {n}) = Total(Sizes(I), U) + I[n].block_count
           /\ Cardinality(U \cup {n}) = Cardinality(U) + 1
<1>1. IsFiniteSet(U) /\ Sizes(I) \in [Inodes -> Nat] /\ Sizes(I)[n] = I[n].block_count
  BY SizesAre
<1>2. Total(Sizes(I), U \cup {n}) = Total(Sizes(I), U) + Sizes(I)[n]
  BY <1>1, TotalWith
<1>3. Cardinality(U \cup {n}) = Cardinality(U) + 1
  BY <1>1, FS_AddElement
<1>. QED
  BY <1>1, <1>2, <1>3

LEMMA SizesLess ==
    ASSUME NEW I \in [Inodes -> InodeType], NEW U \in SUBSET Inodes, NEW n \in U
    PROVE  /\ Total(Sizes(I), U) = Total(Sizes(I), U \ {n}) + I[n].block_count
           /\ Cardinality(U) = Cardinality(U \ {n}) + 1
           /\ I[n].block_count <= Total(Sizes(I), U)
<1>1. U \ {n} \in SUBSET Inodes /\ n \in Inodes /\ n \notin U \ {n} /\ (U \ {n}) \cup {n} = U
  OBVIOUS
<1>2. /\ Total(Sizes(I), (U \ {n}) \cup {n}) = Total(Sizes(I), U \ {n}) + I[n].block_count
      /\ Cardinality((U \ {n}) \cup {n}) = Cardinality(U \ {n}) + 1
  BY <1>1, SizesMore
<1>3. Total(Sizes(I), U \ {n}) \in Nat /\ I[n].block_count \in Nat
  BY <1>1, SizesAre DEF InodeType
<1>4. /\ Total(Sizes(I), U) = Total(Sizes(I), U \ {n}) + I[n].block_count
      /\ Cardinality(U) = Cardinality(U \ {n}) + 1
  BY <1>1, <1>2
<1>5. \A t \in Nat, k \in Nat : k <= t + k
  OBVIOUS
<1>6. I[n].block_count <= Total(Sizes(I), U \ {n}) + I[n].block_count
  BY <1>3, <1>5
<1>. QED
  BY <1>4, <1>6

LEMMA SizesSame ==
    ASSUME NEW I, NEW J, NEW U \in SUBSET Inodes,
           \A e \in U : J[e].block_count = I[e].block_count
    PROVE  Total(Sizes(J), U) = Total(Sizes(I), U)
<1>1. \A e \in U : Sizes(J)[e] = Sizes(I)[e]
  BY DEF Sizes
<1>. QED
  BY <1>1, TotalSame

(* Marked bits, and free inodes with old contents.                         *)
LEMMA BitsAre ==
    /\ Inodes \subseteq Bits /\ IsFiniteSet(Bits) /\ Cardinality(Bits) = FreemapBits
    /\ FreemapBits \in Nat
    /\ \A F \in SUBSET Bits :
          /\ IsFiniteSet(F) /\ Cardinality(F) \in Nat /\ Cardinality(F) <= FreemapBits
          /\ \A n \in Bits \ F : Cardinality(F \cup {n}) = Cardinality(F) + 1
          /\ \A n \in F : Cardinality(F) = Cardinality(F \ {n}) + 1
<1>1. FreemapBits \in Nat /\ MaxInodes \in Nat /\ FreemapBits >= MaxInodes
  BY TestfsAssumption
<1>2. Inodes \subseteq Bits
  BY <1>1 DEF Inodes, Bits
<1>3. IsFiniteSet(Bits) /\ Cardinality(Bits) = FreemapBits
  <2>1. 0 \in Int /\ FreemapBits - 1 \in Int
    BY <1>1
  <2>2. IsFiniteSet(0 .. (FreemapBits - 1))
        /\ Cardinality(0 .. (FreemapBits - 1)) =
             IF 0 > FreemapBits - 1 THEN 0 ELSE FreemapBits - 1 - 0 + 1
    BY <2>1, FS_Interval
  <2>. QED
    BY <1>1, <2>2 DEF Bits
<1>4. ASSUME NEW F \in SUBSET Bits
      PROVE  /\ IsFiniteSet(F) /\ Cardinality(F) \in Nat /\ Cardinality(F) <= FreemapBits
             /\ \A n \in Bits \ F : Cardinality(F \cup {n}) = Cardinality(F) + 1
             /\ \A n \in F : Cardinality(F) = Cardinality(F \ {n}) + 1
  <2>1. IsFiniteSet(F) /\ Cardinality(F) <= Cardinality(Bits)
    BY <1>3, FS_Subset
  <2>2. Cardinality(F) \in Nat
    BY <2>1, FS_CardinalityType
  <2>3. \A n \in Bits \ F : Cardinality(F \cup {n}) = Cardinality(F) + 1
    BY <2>1, FS_AddElement
  <2>4. \A n \in F : Cardinality(F) = Cardinality(F \ {n}) + 1
    <3>. TAKE n \in F
    <3>1. Cardinality(F \ {n}) = Cardinality(F) - 1
      BY <2>1, FS_RemoveElement
    <3>. QED
      BY <2>2, <3>1
  <2>. QED
    BY <1>3, <2>1, <2>2, <2>3, <2>4
<1>. QED
  BY <1>1, <1>2, <1>3, <1>4

LEMMA FewLess ==
    ASSUME NEW I, NEW J, NEW F, NEW H, NEW c \in Int, NEW k \in Int, c <= k,
           Few(I, F, c), Left(J, H) \subseteq Left(I, F)
    PROVE  Few(J, H, k)
<1>1. IsFiniteSet(Left(I, F))
  BY RootIs, FS_Subset DEF Left
<1>2. IsFiniteSet(Left(J, H)) /\ Cardinality(Left(J, H)) <= Cardinality(Left(I, F))
  BY <1>1, FS_Subset
<1>3. Cardinality(Left(I, F)) \in Nat /\ Cardinality(Left(J, H)) \in Nat
  BY <1>1, <1>2, FS_CardinalityType
<1>. QED
  BY <1>2, <1>3 DEF Few

LEMMA FewMore ==
    ASSUME NEW I, NEW F, NEW H, NEW c \in Int, NEW n,
           Few(I, F, c), Left(I, H) \subseteq Left(I, F) \cup {n}
    PROVE  Few(I, H, c + 1)
<1>. DEFINE L == Left(I, F)
            M == Left(I, F) \cup {n}
<1>1. IsFiniteSet(L)
  BY RootIs, FS_Subset DEF Left
<1>2. IsFiniteSet(M) /\ Cardinality(L) \in Nat /\ Cardinality(M) \in Nat
      /\ Cardinality(M) <= Cardinality(L) + 1
  <2>. HIDE DEF L
  <2>1. IsFiniteSet(L \cup {n})
        /\ Cardinality(L \cup {n}) = IF n \in L THEN Cardinality(L) ELSE Cardinality(L) + 1
    BY <1>1, FS_AddElement
  <2>2. Cardinality(L) \in Nat /\ Cardinality(L \cup {n}) \in Nat
    BY <1>1, <2>1, FS_CardinalityType
  <2>3. M = L \cup {n}
    BY DEF L
  <2>. QED
    BY <2>1, <2>2, <2>3
<1>. HIDE DEF M
<1>3. Left(I, H) \subseteq M
  BY DEF M
<1>4. Cardinality(Left(I, H)) <= Cardinality(M) /\ IsFiniteSet(Left(I, H))
  BY <1>2, <1>3, FS_Subset
<1>5. Cardinality(Left(I, H)) \in Nat
  BY <1>4, FS_CardinalityType
<1>. QED
  BY <1>2, <1>4, <1>5 DEF Few, L
-----------------------------------------------------------------------------
(* A sequence of writes that may be cut short anywhere.                    *)
Safely(d, s, y, k) == \E S : Doing(d, s, S, y) /\ \A x \in S : Good(Readable(x), k)

LEMMA SafelyThen ==
    ASSUME NEW d, NEW s, NEW y, NEW t, NEW z, NEW k, Safely(d, s, y, k), Safely(y, t, z, k)
    PROVE  Safely(d, s \o t, z, k)
<1>1. PICK S : Doing(d, s, S, y) /\ \A x \in S : Good(Readable(x), k)
  BY DEF Safely
<1>2. PICK T : Doing(y, t, T, z) /\ \A x \in T : Good(Readable(x), k)
  BY DEF Safely
<1>3. Doing(d, s \o t, S \cup T, z)
  BY <1>1, <1>2, DoingThen
<1>4. \A x \in S \cup T : Good(Readable(x), k)
  BY <1>1, <1>2
<1>. QED
  BY <1>3, <1>4 DEF Safely

LEMMA SafelyNothing ==
    ASSUME NEW I, NEW E, NEW F, NEW u, NEW b, NEW m, NEW k, Good(Readable(Dev(I, E, F, u, b, m)), k)
    PROVE  Safely(Dev(I, E, F, u, b, m), <<>>, Dev(I, E, F, u, b, m), k)
<1>. DEFINE d == Dev(I, E, F, u, b, m)
<1>1. Doing(d, <<>>, {d}, d)
  BY DoingNothing
<1>. HIDE DEF d
<1>2. \A x \in {d} : Good(Readable(x), k)
  BY DEF d
<1>. QED
  BY <1>1, <1>2 DEF Safely, d

LEMMA SafelyPut ==
    ASSUME NEW I, NEW E, NEW F, NEW u, NEW b, NEW m, NEW k, NEW v,
           Good(Readable(Dev(I, E, F, u, b, m)), k)
    PROVE  LET d == Dev(I, E, F, u, b, m)
           IN  /\ Good(Readable(Dev(v, E, F, u, b, m)), k)
                    => Safely(d, Put("inode", v), Dev(v, E, F, u, b, m), k)
               /\ Good(Readable(Dev(I, v, F, u, b, m)), k)
                    => Safely(d, Put("entries", v), Dev(I, v, F, u, b, m), k)
<1>. DEFINE d == Dev(I, E, F, u, b, m)
            x == Dev(v, E, F, u, b, m)
            y == Dev(I, v, F, u, b, m)
<1>1. Doing(d, Put("inode", v), {d, x}, x) /\ Doing(d, Put("entries", v), {d, y}, y)
  BY DoingPut
<1>2. Good(Readable(d), k)
  OBVIOUS
<1>. HIDE DEF d, x, y
<1>3. /\ Good(Readable(x), k) => Safely(d, Put("inode", v), x, k)
      /\ Good(Readable(y), k) => Safely(d, Put("entries", v), y, k)
  BY <1>1, <1>2 DEF Safely
<1>. QED
  BY <1>3 DEF d, x, y

LEMMA SafelyPairs ==
    ASSUME NEW I, NEW E, NEW F, NEW u, NEW b, NEW m, NEW k, NEW v, NEW w,
           Good(Readable(Dev(I, E, F, u, b, m)), k)
    PROVE  LET d == Dev(I, E, F, u, b, m)
           IN  /\ Good(Readable(Dev(I, E, v, u, b, m)), k) /\ Good(Readable(Dev(I, E, v, w, b, m)), k)
                    => Safely(d, Put("inode_freemap", v) \o Put("used_inode_count", w),
                              Dev(I, E, v, w, b, m), k)
               /\ Good(Readable(Dev(I, E, F, u, v, m)), k) /\ Good(Readable(Dev(I, E, F, u, v, w)), k)
                    => Safely(d, Put("block_freemap", v) \o Put("used_block_count", w),
                              Dev(I, E, F, u, v, w), k)
<1>. DEFINE d == Dev(I, E, F, u, b, m)
            x == Dev(I, E, v, u, b, m)
            y == Dev(I, E, v, w, b, m)
            x2 == Dev(I, E, F, u, v, m)
            y2 == Dev(I, E, F, u, v, w)
            f == Put("inode_freemap", v) \o Put("used_inode_count", w)
            g == Put("block_freemap", v) \o Put("used_block_count", w)
<1>1. Doing(d, f, {d, x, y}, y) /\ Doing(d, g, {d, x2, y2}, y2)
  BY DoingPairs
<1>2. Good(Readable(d), k)
  OBVIOUS
<1>. HIDE DEF d, x, y, x2, y2, f, g
<1>3. /\ Good(Readable(x), k) /\ Good(Readable(y), k) => Safely(d, f, y, k)
      /\ Good(Readable(x2), k) /\ Good(Readable(y2), k) => Safely(d, g, y2, k)
  BY <1>1, <1>2 DEF Safely
<1>. QED
  BY <1>3 DEF d, x, y, x2, y2, f, g

(* The same directories, whatever the books say.                           *)
LEMMA KeepsSame ==
    ASSUME NEW I, NEW E, NEW F, NEW u, NEW b, NEW m, NEW c, Good(Dev(I, E, F, u, b, m), c),
           NEW X, X = Tree(E, I),
           NEW J, NEW G, NEW H, NEW v, NEW p, NEW q, NEW k, Typed(J, G, H, v, p, q),
           Agree(I, J, Using(E, X)), \A e \in X : G[e] = E[e] /\ Readably(G, J, e),
           Books(J, H, v, p, q, Using(E, X), k)
    PROVE  Good(Dev(J, G, H, v, p, q), k) /\ Tree(G, J) = X /\ Using(G, X) = Using(E, X)
<1>1. Shape(E, I, X)
  BY GoodIs
<1>2. Tree(G, J) = X /\ Using(G, X) = Using(E, X) /\ Shape(G, J, X)
  BY <1>1, ShapeSame
<1>. QED
  BY <1>2, GoodIs

(* Before the entry of a new inode n is written, and after it could not be.*)
Early(I, E, F, u, b, m, n, G, H, v, p, q) ==
    /\ G \in Entries /\ Elsewhere(E, G, Inodes \ {n}) /\ H \in {F, F \cup {n}}
    /\ v \in {u, u + 1} /\ p \in Int /\ q \in Int /\ b <= p /\ m <= q
    /\ q <= MaxFsBlocks /\ (q - p) - (m - b) \in (-1) .. 1

LEMMA EarlyGood ==
    ASSUME NEW I, NEW E, NEW F, NEW u, NEW b, NEW m, NEW c \in Nat, Good(Dev(I, E, F, u, b, m), c),
           NEW n \in Bits \ F, NEW G, NEW H, NEW v, NEW p, NEW q,
           Early(I, E, F, u, b, m, n, G, H, v, p, q)
    PROVE  Good(Readable(Dev(I, G, H, v, p, q)), c + 1)
<1>. DEFINE X == Tree(E, I)
            U == Using(E, X)
<1>1. Typed(I, E, F, u, b, m) /\ Shape(E, I, X) /\ Books(I, F, u, b, m, U, c)
  BY GoodIs
<1>2. X \subseteq U /\ U \subseteq F /\ X \subseteq Inodes
  <2>1. X \subseteq U
    BY <1>1, UsingIs
  <2>2. U \subseteq F
    BY <1>1 DEF Books
  <2>. QED
    BY <2>1, <2>2, TreeClosed
<1>3. \A e \in X : e # n /\ G[e] = E[e] /\ Readably(E, I, e)
  BY <1>1, <1>2 DEF Early, Elsewhere, Shape
<1>4. \A e \in X : Cut(G, I)[e] = E[e] /\ Readably(Cut(G, I), I, e)
  <2>. TAKE e \in X
  <2>1. Cutting(G, I, e) /\ G[e] = E[e] /\ Readably(E, I, e)
    BY <1>1, <1>2, <1>3, CutIs DEF Early, Typed
  <2>2. Readably(G, I, e)
    BY <2>1 DEF Readably
  <2>. QED
    BY <2>1, <2>2 DEF Cutting
<1>5. Typed(I, Cut(G, I), H, v, p, q)
  BY <1>1, CutEntries DEF Typed, Early
<1>6. Books(I, H, v, p, q, U, c + 1)
  <2>1. Cardinality(F) \in Nat /\ Cardinality(F \cup {n}) = Cardinality(F) + 1 /\ Cardinality(U) \in Nat
        /\ Total(Sizes(I), U) \in Nat
    BY <1>1, <1>2, SizesAre, BitsAre DEF Typed, Books
  <2>2. U \subseteq H /\ Cardinality(H) \in {Cardinality(F), Cardinality(F) + 1}
    BY <1>2, <2>1 DEF Early
  <2>. HIDE DEF U, X
  <2>3. Cardinality(U) <= u /\ Total(Sizes(I), U) <= m /\ Total(Sizes(I), U) <= b
        /\ u - Cardinality(F) \in (-c) .. c /\ m - b \in (-c) .. c
        /\ u \in Int /\ b \in Int /\ m \in Int
    BY <1>1 DEF Books, Typed
  <2>4. v \in {u, u + 1} /\ p \in Int /\ q \in Int /\ b <= p /\ m <= q
        /\ q <= MaxFsBlocks /\ (q - p) - (m - b) \in (-1) .. 1
    BY DEF Early
  <2>5. v - Cardinality(H) \in (-(c + 1)) .. (c + 1)
    BY <2>1, <2>2, <2>3, <2>4
  <2>6. q - p \in (-(c + 1)) .. (c + 1) /\ Total(Sizes(I), U) <= q /\ Total(Sizes(I), U) <= p
        /\ Cardinality(U) <= v
    BY <2>1, <2>3, <2>4
  <2>7. U \in SUBSET Inodes /\ Few(I, H, c + 1)
    <3>1. U \in SUBSET Inodes /\ Few(I, F, c) /\ c <= c + 1
      BY <1>1 DEF Books
    <3>2. Left(I, H) \subseteq Left(I, F)
      BY DEF Left, Early
    <3>. QED
      BY <3>1, <3>2, FewLess
  <2>. QED
    BY <2>2, <2>4, <2>5, <2>6, <2>7 DEF Books
<1>7. Agree(I, I, U)
  BY DEF Agree
<1>. HIDE DEF U
<1>8. Good(Dev(I, Cut(G, I), H, v, p, q), c + 1)
  BY <1>4, <1>5, <1>6, <1>7, KeepsSame DEF U
<1>. QED
  BY <1>8, ReadableIs

-----------------------------------------------------------------------------
(* The writes of the commands, from a disk that is good.                   *)
OnDisk(I, E, F, u, b, m) == disk = Dev(I, E, F, u, b, m) /\ Good(disk, crashes) /\ crashes \in Nat

LEMMA TheDisk ==
    ASSUME NEW I, NEW E, NEW F, NEW u, NEW b, NEW m, OnDisk(I, E, F, u, b, m)
    PROVE  /\ disk.inode = I /\ disk.entries = E /\ disk.inode_freemap = F /\ disk.block_freemap = b
           /\ disk.used_inode_count = u /\ disk.used_block_count = m
           /\ entries = E /\ inode_freemap = F /\ used_inode_count = u /\ used_block_count = m
           /\ Typed(I, E, F, u, b, m) /\ Shape(E, I, Tree(E, I)) /\ m <= MaxFsBlocks
           /\ Books(I, F, u, b, m, Using(E, Tree(E, I)), crashes)
           /\ Good(Dev(I, E, F, u, b, m), crashes) /\ crashes \in Nat
<1>1. Good(Dev(I, E, F, u, b, m), crashes) /\ crashes \in Nat
  BY DEF OnDisk
<1>2. disk = Dev(I, E, F, u, b, m)
  BY DEF OnDisk
<1>3. /\ disk.inode = I /\ disk.entries = E /\ disk.inode_freemap = F /\ disk.block_freemap = b
      /\ disk.used_inode_count = u /\ disk.used_block_count = m
  BY <1>2, DevIs
<1>. QED
  BY <1>1, <1>3, GoodIs DEF entries, inode_freemap, used_inode_count, used_block_count, Books

(* The freemap of blocks and its counter while nothing else changes.       *)
LEMMA BlockPair ==
    ASSUME NEW I, NEW E, NEW F, NEW u, NEW b, NEW m, OnDisk(I, E, F, u, b, m),
           NEW J, NEW G, NEW H, NEW v, NEW p, NEW q, NEW i, NEW k,
           Good(Readable(Dev(J, G, H, v, p, q)), k),
           Good(Readable(Dev(J, G, H, v, b + i, q)), k),
           Good(Readable(Dev(J, G, H, v, b + i, m + i)), k)
    PROVE  Safely(Dev(J, G, H, v, p, q), AllocBlock(i), Dev(J, G, H, v, b + i, m + i), k)
<1>1. AllocBlock(i) = Put("block_freemap", b + i) \o Put("used_block_count", m + i)
  BY TheDisk DEF AllocBlock
<1>. QED
  BY <1>1, SafelyPairs

(* testfs_get_inode_freemap, and testfs_create_empty_dir if own = 1.       *)
OwnIf(E, n, own) == IF own = 1 THEN [E EXCEPT ![n] = OwnEntries(n)] ELSE E

LEMMA OwnEntriesAre ==
    ASSUME NEW E \in Entries, NEW n \in Inodes, cur_dir \in Inodes
    PROVE  /\ [E EXCEPT ![n] = <<Head(OwnEntries(n))>>] \in Entries
           /\ [E EXCEPT ![n] = OwnEntries(n)] \in Entries
           /\ Elsewhere(E, [E EXCEPT ![n] = <<Head(OwnEntries(n))>>], Inodes \ {n})
           /\ Elsewhere(E, [E EXCEPT ![n] = OwnEntries(n)], Inodes \ {n})
           /\ Elsewhere(E, E, Inodes \ {n})
<1>. DEFINE T == Names \X (Inodes \cup {INVALID_INODE_NR})
<1>1. OwnEntries(n) \in Seq(T) /\ <<Head(OwnEntries(n))>> \in Seq(T)
  <2>1. <<".", n>> \in T /\ <<"..", cur_dir>> \in T
    BY TestfsAssumption DEF Dots
  <2>2. OwnEntries(n) = <<<<".", n>>, <<"..", cur_dir>>>> /\ Head(OwnEntries(n)) = <<".", n>>
    BY DEF OwnEntries
  <2>. HIDE DEF T
  <2>. QED
    BY <2>1, <2>2
<1>. HIDE DEF T
<1>2. \A s \in Seq(T) : [E EXCEPT ![n] = s] \in Entries /\ Elsewhere(E, [E EXCEPT ![n] = s], Inodes \ {n})
  BY DEF Entries, Elsewhere, T
<1>3. Elsewhere(E, E, Inodes \ {n})
  BY DEF Elsewhere
<1>. QED
  BY <1>1, <1>2, <1>3

LEMMA TakesInode ==
    ASSUME NEW I, NEW E, NEW F, NEW u, NEW b, NEW m, OnDisk(I, E, F, u, b, m), cur_dir \in Inodes,
           NEW n \in Inodes \ F, NEW own \in {0, 1}, m + own <= MaxFsBlocks
    PROVE  Safely(disk, GetInode(n) \o (IF own = 1 THEN MakeEmptyDir(n) ELSE <<>>),
                  Dev(I, OwnIf(E, n, own), F \cup {n}, u + 1, b + own, m + own), crashes + 1)
<1>. DEFINE k == crashes + 1
            H == F \cup {n}
            v == u + 1
<1>1. /\ u \in Int /\ b \in Int /\ m \in Int /\ crashes \in Nat /\ E \in Entries /\ m <= MaxFsBlocks
      /\ Good(Dev(I, E, F, u, b, m), crashes)
  BY TheDisk DEF Typed
<1>2. \A G, h, w, p, q : Early(I, E, F, u, b, m, n, G, h, w, p, q)
                           => Good(Readable(Dev(I, G, h, w, p, q)), k)
  BY <1>1, EarlyGood, BitsAre
<1>. DEFINE E1 == [E EXCEPT ![n] = <<Head(OwnEntries(n))>>]
            E2 == [E EXCEPT ![n] = OwnEntries(n)]
<1>3. E1 \in Entries /\ E2 \in Entries /\ Elsewhere(E, E1, Inodes \ {n})
      /\ Elsewhere(E, E2, Inodes \ {n}) /\ Elsewhere(E, E, Inodes \ {n})
  BY <1>1, OwnEntriesAre
<1>. HIDE DEF E1, E2, H, v
<1>4. /\ Early(I, E, F, u, b, m, n, E, F, u, b, m) /\ Early(I, E, F, u, b, m, n, E, H, u, b, m)
      /\ Early(I, E, F, u, b, m, n, E, H, v, b, m)
      /\ own = 1 => /\ Early(I, E, F, u, b, m, n, E, H, v, b + 1, m)
                    /\ Early(I, E, F, u, b, m, n, E, H, v, b + 1, m + 1)
                    /\ Early(I, E, F, u, b, m, n, E1, H, v, b + 1, m + 1)
                    /\ Early(I, E, F, u, b, m, n, E2, H, v, b + 1, m + 1)
  BY <1>1, <1>3 DEF Early, H, v
<1>5. /\ Good(Readable(Dev(I, E, F, u, b, m)), k) /\ Good(Readable(Dev(I, E, H, u, b, m)), k)
      /\ Good(Readable(Dev(I, E, H, v, b, m)), k)
      /\ own = 1 => /\ Good(Readable(Dev(I, E, H, v, b + 1, m)), k)
                    /\ Good(Readable(Dev(I, E, H, v, b + 1, m + 1)), k)
                    /\ Good(Readable(Dev(I, E1, H, v, b + 1, m + 1)), k)
                    /\ Good(Readable(Dev(I, E2, H, v, b + 1, m + 1)), k)
  BY <1>2, <1>4
<1>6. Safely(disk, GetInode(n), Dev(I, E, H, v, b, m), k)
  <2>1. GetInode(n) = Put("inode_freemap", H) \o Put("used_inode_count", v)
    <3>1. inode_freemap = F /\ used_inode_count = u
      BY TheDisk
    <3>. QED
      BY <3>1, Zenon DEF GetInode, H, v
  <2>2. disk = Dev(I, E, F, u, b, m)
    BY DEF OnDisk
  <2>. HIDE DEF k
  <2>. QED
    BY <1>5, <2>1, <2>2, SafelyPairs
<1>7. CASE own = 1
  <2>1. Safely(Dev(I, E, H, v, b, m), AllocBlock(1), Dev(I, E, H, v, b + 1, m + 1), k)
    BY <1>5, <1>7, BlockPair
  <2>2. Safely(Dev(I, E, H, v, b + 1, m + 1), Put("entries", E1), Dev(I, E1, H, v, b + 1, m + 1), k)
    BY <1>5, <1>7, SafelyPut
  <2>3. Safely(Dev(I, E1, H, v, b + 1, m + 1), Put("entries", E2), Dev(I, E2, H, v, b + 1, m + 1), k)
    BY <1>5, <1>7, SafelyPut
  <2>4. MakeEmptyDir(n) = AllocBlock(1) \o Put("entries", E1) \o Put("entries", E2)
    BY TheDisk DEF MakeEmptyDir, E1, E2
  <2>. HIDE DEF k
  <2>5. Safely(Dev(I, E, H, v, b, m), MakeEmptyDir(n), Dev(I, E2, H, v, b + 1, m + 1), k)
    BY <2>1, <2>2, <2>3, <2>4, SafelyThen
  <2>6. Safely(disk, GetInode(n) \o MakeEmptyDir(n), Dev(I, E2, H, v, b + 1, m + 1), k)
    BY <1>6, <2>5, SafelyThen
  <2>. QED
    BY <1>7, <2>6 DEF k, OwnIf, E2, H, v
<1>8. CASE own = 0
  <2>. HIDE DEF k
  <2>1. Safely(Dev(I, E, H, v, b, m), <<>>, Dev(I, E, H, v, b, m), k)
    BY <1>5, SafelyNothing
  <2>2. Safely(disk, GetInode(n) \o <<>>, Dev(I, E, H, v, b, m), k)
    BY <1>6, <2>1, SafelyThen
  <2>3. b + own = b /\ m + own = m
    BY <1>1, <1>8
  <2>. QED
    BY <1>8, <2>2, <2>3 DEF k, OwnIf, H, v
<1>. QED
  BY <1>7, <1>8

(* Up to testfs_remove_inode after the entry or the directory did not fit. *)
LEMMA GivesInodeBack ==
    ASSUME NEW I, NEW E, NEW F, NEW u, NEW b, NEW m, OnDisk(I, E, F, u, b, m), cur_dir \in Inodes,
           NEW n \in Inodes \ F, NEW own \in {0, 1}, m + own <= MaxFsBlocks
    PROVE  Safely(disk, GetInode(n) \o (IF own = 1 THEN MakeEmptyDir(n) ELSE <<>>) \o UnmakeInode(n),
                  disk, crashes + 1)
<1>. DEFINE k == crashes + 1
            H == F \cup {n}
            v == u + 1
            G == OwnIf(E, n, own)
<1>1. /\ u \in Int /\ b \in Int /\ m \in Int /\ crashes \in Nat /\ E \in Entries /\ m <= MaxFsBlocks
      /\ Good(Dev(I, E, F, u, b, m), crashes)
  BY TheDisk DEF Typed
<1>2. \A X, h, w, p, q : Early(I, E, F, u, b, m, n, X, h, w, p, q)
                           => Good(Readable(Dev(I, X, h, w, p, q)), k)
  BY <1>1, EarlyGood, BitsAre
<1>3. G \in Entries /\ Elsewhere(E, G, Inodes \ {n}) /\ Elsewhere(E, E, Inodes \ {n})
  BY <1>1, OwnEntriesAre DEF OwnIf
<1>4. Safely(disk, GetInode(n) \o (IF own = 1 THEN MakeEmptyDir(n) ELSE <<>>),
             Dev(I, G, H, v, b + own, m + own), k)
  BY TakesInode
<1>. HIDE DEF H, v, G
<1>5. /\ Early(I, E, F, u, b, m, n, G, H, v, b + own, m + own)
      /\ Early(I, E, F, u, b, m, n, E, H, v, b + own, m + own)
      /\ Early(I, E, F, u, b, m, n, E, H, v, b, m + own)
      /\ Early(I, E, F, u, b, m, n, E, H, v, b, m)
      /\ Early(I, E, F, u, b, m, n, E, F, v, b, m)
      /\ Early(I, E, F, u, b, m, n, E, F, u, b, m)
  BY <1>1, <1>3 DEF Early, H, v
<1>6. /\ Good(Readable(Dev(I, G, H, v, b + own, m + own)), k)
      /\ Good(Readable(Dev(I, E, H, v, b + own, m + own)), k)
      /\ Good(Readable(Dev(I, E, H, v, b, m + own)), k)
      /\ Good(Readable(Dev(I, E, H, v, b, m)), k)
      /\ Good(Readable(Dev(I, E, F, v, b, m)), k)
      /\ Good(Readable(Dev(I, E, F, u, b, m)), k)
  BY <1>2, <1>5
<1>. HIDE DEF k
<1>7. Safely(Dev(I, G, H, v, b + own, m + own), Put("entries", E),
             Dev(I, E, H, v, b + own, m + own), k)
  BY <1>6, SafelyPut
<1>8. Safely(Dev(I, E, H, v, b + own, m + own), AllocBlock(0), Dev(I, E, H, v, b, m), k)
  <2>1. b + 0 = b /\ m + 0 = m
    BY <1>1
  <2>2. Safely(Dev(I, E, H, v, b + own, m + own), AllocBlock(0), Dev(I, E, H, v, b + 0, m + 0), k)
    BY <1>6, <2>1, BlockPair
  <2>. QED
    BY <2>1, <2>2
<1>9. Safely(Dev(I, E, H, v, b, m), PutInode(n, u), Dev(I, E, F, u, b, m), k)
  <2>1. PutInode(n, u) = Put("inode_freemap", F) \o Put("used_inode_count", u)
    BY TheDisk DEF PutInode
  <2>. QED
    BY <1>6, <2>1, SafelyPairs
<1>10. UnmakeInode(n) = Put("entries", E) \o AllocBlock(0) \o PutInode(n, u)
  BY TheDisk DEF UnmakeInode
<1>11. Safely(Dev(I, G, H, v, b + own, m + own), UnmakeInode(n), Dev(I, E, F, u, b, m), k)
  BY <1>7, <1>8, <1>9, <1>10, SafelyThen
<1>12. disk = Dev(I, E, F, u, b, m)
  BY DEF OnDisk
<1>. QED
  BY <1>4, <1>11, <1>12, SafelyThen DEF k

(* A bit of the freemap that is no inode's is taken and given back.        *)
LEMMA BitGivenBack ==
    ASSUME NEW I, NEW E, NEW F, NEW u, NEW b, NEW m, OnDisk(I, E, F, u, b, m), NEW n \in Bits \ F
    PROVE  Safely(disk, GetInode(n) \o PutInode(n, u), disk, crashes + 1)
<1>. DEFINE k == crashes + 1
            H == F \cup {n}
            v == u + 1
<1>1. /\ u \in Int /\ b \in Int /\ m \in Int /\ crashes \in Nat /\ E \in Entries /\ m <= MaxFsBlocks
      /\ Good(Dev(I, E, F, u, b, m), crashes)
  BY TheDisk DEF Typed
<1>2. \A h, w : Early(I, E, F, u, b, m, n, E, h, w, b, m) => Good(Readable(Dev(I, E, h, w, b, m)), k)
  BY <1>1, EarlyGood
<1>3. Elsewhere(E, E, Inodes \ {n})
  BY DEF Elsewhere
<1>. HIDE DEF H, v
<1>4. /\ Early(I, E, F, u, b, m, n, E, F, u, b, m) /\ Early(I, E, F, u, b, m, n, E, H, u, b, m)
      /\ Early(I, E, F, u, b, m, n, E, H, v, b, m) /\ Early(I, E, F, u, b, m, n, E, F, v, b, m)
  BY <1>1, <1>3 DEF Early, H, v
<1>5. /\ Good(Readable(Dev(I, E, F, u, b, m)), k) /\ Good(Readable(Dev(I, E, H, u, b, m)), k)
      /\ Good(Readable(Dev(I, E, H, v, b, m)), k) /\ Good(Readable(Dev(I, E, F, v, b, m)), k)
  BY <1>2, <1>4
<1>6. /\ GetInode(n) = Put("inode_freemap", H) \o Put("used_inode_count", v)
      /\ PutInode(n, u) = Put("inode_freemap", F) \o Put("used_inode_count", u)
  <2>1. inode_freemap = F /\ used_inode_count = u
    BY TheDisk
  <2>. QED
    BY <2>1, Zenon DEF GetInode, PutInode, H, v
<1>7. disk = Dev(I, E, F, u, b, m)
  BY DEF OnDisk
<1>. HIDE DEF k
<1>8. Safely(Dev(I, E, F, u, b, m), GetInode(n), Dev(I, E, H, v, b, m), k)
  BY <1>5, <1>6, SafelyPairs
<1>9. Safely(Dev(I, E, H, v, b, m), PutInode(n, u), Dev(I, E, F, u, b, m), k)
  BY <1>5, <1>6, SafelyPairs
<1>. QED
  BY <1>7, <1>8, <1>9, SafelyThen DEF k
-----------------------------------------------------------------------------
(* A new entry.                                                            *)
TheEntries == Seq(Names \X (Inodes \cup {INVALID_INODE_NR}))

LEMMA PlaceIs ==
    ASSUME entries \in Entries, NEW c \in Inodes, NEW name \in Names
    PROVE  LET p == Place(c, name)
           IN  /\ p \in 1 .. (Len(entries[c]) + 1)
               /\ p \in DOMAIN entries[c] => ~Live(entries[c][p])
<1>. DEFINE p == Place(c, name)
            R == Reusable(c, name)
            s == entries[c]
<1>0. s \in TheEntries /\ Len(s) \in Nat /\ DOMAIN s = 1 .. Len(s)
  BY DEF Entries, TheEntries
<1>1. \A r \in R : r \in DOMAIN s /\ ~Live(s[r])
  BY DEF Reusable
<1>2. p = IF R # {} THEN Min(R) ELSE Len(s) + 1
  BY DEF Place
<1>. HIDE DEF p, R, s
<1>3. CASE R = {}
  BY <1>0, <1>2, <1>3 DEF p, s
<1>4. CASE R # {}
  <2>1. R \in SUBSET Nat
    BY <1>0, <1>1
  <2>2. Min(R) \in R
    BY <1>4, <2>1, LeastOf
  <2>. QED
    BY <1>0, <1>1, <1>2, <1>4, <2>2 DEF p, s
<1>. QED
  BY <1>3, <1>4

LEMMA PutEntryIs ==
    ASSUME entries \in Entries, NEW c \in Inodes, NEW p \in 1 .. (Len(entries[c]) + 1),
           NEW e \in Names \X (Inodes \cup {INVALID_INODE_NR})
    PROVE  /\ PutEntry(c, p, e) \in TheEntries
           /\ Len(PutEntry(c, p, e)) = IF p > Len(entries[c]) THEN p ELSE Len(entries[c])
           /\ PutEntry(c, p, e)[p] = e
           /\ \A q \in DOMAIN PutEntry(c, p, e) \ {p} :
                 q \in DOMAIN entries[c] /\ PutEntry(c, p, e)[q] = entries[c][q]
<1>. DEFINE s == entries[c]
            t == PutEntry(c, p, e)
            T == Names \X (Inodes \cup {INVALID_INODE_NR})
<1>0. s \in Seq(T) /\ Len(s) \in Nat /\ DOMAIN s = 1 .. Len(s) /\ p \in 1 .. (Len(s) + 1) /\ e \in T
  BY DEF Entries
<1>1. t = IF p > Len(s) THEN Append(s, e) ELSE [s EXCEPT ![p] = e]
  BY DEF PutEntry
<1>. HIDE DEF s, t, T
<1>2. t \in Seq(T) /\ Len(t) = (IF p > Len(s) THEN p ELSE Len(s)) /\ t[p] = e
      /\ \A q \in DOMAIN t \ {p} : q \in DOMAIN s /\ t[q] = s[q]
  <2>1. CASE p > Len(s)
    BY <1>0, <1>1, <2>1
  <2>2. CASE ~(p > Len(s))
    BY <1>0, <1>1, <2>2
  <2>. QED
    BY <2>1, <2>2
<1>. QED
  BY <1>2 DEF s, t, T, TheEntries

Creating(I, E, F, u, b, m, n, name, p) ==
    /\ OnDisk(I, E, F, u, b, m) /\ cur_dir \in Tree(E, I)
    /\ n \in Inodes \ F /\ I[n] = NoInode
    /\ Inode(cur_dir) = I[cur_dir] /\ I[cur_dir].size # Huge
    /\ name \in Names /\ ~Found(cur_dir, name) /\ p = Place(cur_dir, name)
With(E, n, s, p, name) == [E EXCEPT ![n] = s, ![cur_dir] = PutEntry(cur_dir, p, <<name, n>>)]
Larger(a, b) == IF a >= b THEN a ELSE b

LEMMA WithIs ==
    ASSUME NEW I, NEW E, NEW F, NEW u, NEW b, NEW m, NEW n, NEW name, NEW p,
           Creating(I, E, F, u, b, m, n, name, p), NEW s \in TheEntries,
           NEW G, G = With(E, n, s, p, name)
    PROVE  /\ G \in Entries /\ Added(E, G, cur_dir, p, name, n) /\ G[n] = s
           /\ \A e \in Inodes \ {cur_dir, n} : G[e] = E[e]
           /\ Len(E[cur_dir]) \in Nat /\ p \in 1 .. (Len(E[cur_dir]) + 1)
           /\ Len(G[cur_dir]) = Larger(p, Len(E[cur_dir]))
           /\ n # cur_dir /\ n \notin Using(E, Tree(E, I)) /\ n # Root
           /\ I[cur_dir].size \in Nat /\ Len(E[cur_dir]) <= I[cur_dir].size
           /\ I[cur_dir].i_type = "I_DIR" /\ Tree(E, I) \subseteq Inodes \ {n}
<1>. DEFINE X == Tree(E, I)
            U == Using(E, X)
            c == cur_dir
<1>1. /\ OnDisk(I, E, F, u, b, m) /\ c \in X /\ n \in Inodes \ F /\ I[n] = NoInode
      /\ I[c].size # Huge /\ name \in Names /\ ~Found(c, name) /\ p = Place(c, name)
  BY DEF Creating
<1>2. /\ entries = E /\ Typed(I, E, F, u, b, m) /\ Shape(E, I, X) /\ U \subseteq F
  BY <1>1, TheDisk DEF Books
<1>3. X \subseteq U /\ X \subseteq Inodes /\ Root \in X
  BY <1>2, UsingIs
<1>4. n # c /\ n \notin U /\ n # Root /\ X \subseteq Inodes \ {n} /\ c \in Inodes /\ n \in Inodes
  BY <1>1, <1>2, <1>3
<1>5. E \in Entries /\ I \in [Inodes -> InodeType]
  BY <1>2 DEF Typed
<1>6. p \in 1 .. (Len(E[c]) + 1) /\ (p \in DOMAIN E[c] => ~Live(E[c][p]))
  BY <1>1, <1>2, <1>4, <1>5, PlaceIs
<1>. DEFINE t == PutEntry(c, p, <<name, n>>)
<1>7. /\ t \in TheEntries /\ Len(t) = (IF p > Len(E[c]) THEN p ELSE Len(E[c])) /\ t[p] = <<name, n>>
      /\ \A q \in DOMAIN t \ {p} : q \in DOMAIN E[c] /\ t[q] = E[c][q]
  <2>1. <<name, n>> \in Names \X (Inodes \cup {INVALID_INODE_NR})
    BY <1>1, <1>4
  <2>. QED
    BY <1>2, <1>4, <1>5, <1>6, <2>1, PutEntryIs
<1>8. Len(E[c]) \in Nat /\ DOMAIN E[c] = 1 .. Len(E[c]) /\ DOMAIN t = 1 .. Len(t) /\ E[c] \in TheEntries
  BY <1>4, <1>5, <1>7 DEF Entries, TheEntries
<1>9. G = [E EXCEPT ![n] = s, ![c] = t]
  BY DEF With
<1>. HIDE DEF t
<1>10. G[n] = s /\ G[c] = t /\ \A e \in Inodes \ {c, n} : G[e] = E[e]
  BY <1>4, <1>5, <1>9 DEF Entries
<1>11. G \in Entries
  BY <1>4, <1>5, <1>7, <1>9 DEF Entries, TheEntries
<1>12. Len(t) = Larger(p, Len(E[c])) /\ Len(E[c]) <= Len(t) /\ DOMAIN E[c] \subseteq DOMAIN t
       /\ p \in DOMAIN t
  BY <1>6, <1>7, <1>8 DEF Larger
<1>13. Dotted(E, c, X) /\ Readably(E, I, c)
  BY <1>1, <1>2 DEF Shape
<1>14. \A q \in DOMAIN E[c] : Live(E[c][q]) => E[c][q][1] # name
  BY <1>1, <1>2 DEF Found
<1>15. name \notin Dots
  <2>1. {1, 2} \subseteq DOMAIN E[c] /\ E[c][1] = <<".", c>> /\ E[c][2][1] = ".." /\ E[c][2][2] \in X
    BY <1>8, <1>13 DEF Dotted
  <2>2. Live(E[c][1]) /\ Live(E[c][2])
    BY <1>3, <1>4, <2>1, RootIs DEF Live
  <2>. QED
    BY <1>14, <2>1, <2>2 DEF Dots
<1>16. Added(E, G, c, p, name, n)
  BY <1>6, <1>7, <1>10, <1>12, <1>14, <1>15 DEF Added
<1>17. I[c].size \in Nat /\ Len(E[c]) <= I[c].size
  BY <1>1, <1>4, <1>5, <1>13 DEF Readably, InodeType
<1>18. I[c].i_type = "I_DIR"
  BY <1>1, <1>2, TreeClosed DEF Shape, Dirs
<1>. QED
  BY <1>4, <1>6, <1>8, <1>10, <1>11, <1>12, <1>16, <1>17, <1>18

(* The books behind what a new inode takes, w blocks with those for the    *)
(* entry.                                                                  *)
Grows(I, J, F, U, n, d, w) ==
    /\ J \in [Inodes -> InodeType] /\ d \in U
    /\ \A e \in U \ {d} : J[e].block_count = I[e].block_count
    /\ \A e \in Inodes \ (F \cup {n}) : J[e] = I[e]
    /\ J[d].block_count + J[n].block_count - I[d].block_count <= w

LEMMA BooksMore ==
    ASSUME NEW I, NEW E, NEW F, NEW u, NEW b, NEW m, Typed(I, E, F, u, b, m),
           NEW U, NEW c \in Nat, Books(I, F, u, b, m, U, c), NEW n \in Inodes \ F,
           NEW w \in Nat, m + w <= MaxFsBlocks
    PROVE  /\ Books(I, F \cup {n}, u + 1, b + w, m + w, U, c)
           /\ \A J, d : Grows(I, J, F, U, n, d, w)
                 => Books(J, F \cup {n}, u + 1, b + w, m + w, U \cup {n}, c)
<1>1. /\ U \in SUBSET Inodes /\ F \in SUBSET Bits /\ n \notin U /\ I \in [Inodes -> InodeType]
      /\ u \in Int /\ b \in Int /\ m \in Int
  BY DEF Typed, Books
<1>2. /\ Cardinality(F) \in Nat /\ Cardinality(F \cup {n}) = Cardinality(F) + 1
      /\ Cardinality(U) \in Nat /\ Cardinality(U \cup {n}) = Cardinality(U) + 1
  BY <1>1, SizesAre, SizesMore, BitsAre
<1>3. /\ U \subseteq F /\ Cardinality(U) <= u /\ Total(Sizes(I), U) <= m /\ Total(Sizes(I), U) <= b
      /\ u - Cardinality(F) \in (-c) .. c /\ m - b \in (-c) .. c
  BY DEF Books
<1>4. (u + 1) - Cardinality(F \cup {n}) \in (-c) .. c /\ (m + w) - (b + w) \in (-c) .. c
  BY <1>1, <1>2, <1>3
<1>5. Total(Sizes(I), U) \in Nat
  BY <1>1, SizesAre
<1>9. /\ Few(I, F \cup {n}, c)
      /\ \A J : (\A e \in Inodes \ (F \cup {n}) : J[e] = I[e]) => Few(J, F \cup {n}, c)
  <2>1. Few(I, F, c)
    BY DEF Books
  <2>2. ASSUME NEW J, \A e \in Inodes \ (F \cup {n}) : J[e] = I[e]
        PROVE  Left(J, F \cup {n}) \subseteq Left(I, F)
    BY <2>2 DEF Left
  <2>3. Left(I, F \cup {n}) \subseteq Left(I, F)
    BY DEF Left
  <2>. QED
    BY <2>1, <2>2, <2>3, FewLess
<1>. DEFINE H == F \cup {n}
            v == u + 1
            p == b + w
            q == m + w
<1>8. U \subseteq H /\ U \cup {n} \subseteq H /\ Few(I, H, c) /\ v - Cardinality(H) \in (-c) .. c
      /\ q - p \in (-c) .. c /\ q <= MaxFsBlocks
  <2>1. U \subseteq H /\ U \cup {n} \subseteq H
    BY <1>3
  <2>. QED
    BY <1>4, <1>9, <2>1
<1>6. Books(I, F \cup {n}, u + 1, b + w, m + w, U, c)
  <2>1. Cardinality(U) <= u + 1 /\ Total(Sizes(I), U) <= m + w /\ Total(Sizes(I), U) <= b + w
    BY <1>1, <1>2, <1>3, <1>5
  <2>. QED
    <3>. HIDE DEF H, v, p, q
    <3>1. Books(I, H, v, p, q, U, c)
      BY <1>1, <1>8, <2>1 DEF Books, v, p, q
    <3>. QED
      BY <3>1 DEF H, v, p, q
<1>7. ASSUME NEW J \in [Inodes -> InodeType], NEW d \in U,
             \A e \in U \ {d} : J[e].block_count = I[e].block_count,
             \A e \in Inodes \ (F \cup {n}) : J[e] = I[e],
             J[d].block_count + J[n].block_count - I[d].block_count <= w
      PROVE  Books(J, F \cup {n}, u + 1, b + w, m + w, U \cup {n}, c)
  <2>1. Total(Sizes(J), U) = Total(Sizes(I), U) + J[d].block_count - I[d].block_count
    BY <1>1, <1>7, SizesChange
  <2>2. Total(Sizes(J), U \cup {n}) = Total(Sizes(J), U) + J[n].block_count
    BY <1>1, SizesMore
  <2>3. J[d].block_count \in Nat /\ J[n].block_count \in Nat /\ I[d].block_count \in Nat
    BY <1>1, TestfsAssumption DEF InodeType
  <2>4. Total(Sizes(J), U \cup {n}) <= Total(Sizes(I), U) + w
    BY <1>5, <1>7, <2>1, <2>2, <2>3
  <2>5. Total(Sizes(J), U \cup {n}) \in Nat
    BY <1>1, SizesAre
  <2>6. /\ Total(Sizes(J), U \cup {n}) <= m + w /\ Total(Sizes(J), U \cup {n}) <= b + w
        /\ Cardinality(U \cup {n}) <= u + 1
    BY <1>1, <1>2, <1>3, <1>5, <2>4, <2>5
  <2>. QED
    <3>. DEFINE V == U \cup {n}
    <3>1. /\ V \subseteq H /\ Cardinality(V) <= v /\ Total(Sizes(J), V) <= q /\ Total(Sizes(J), V) <= p
          /\ V \in SUBSET Inodes /\ Few(J, H, c)
      BY <1>1, <1>7, <1>8, <1>9, <2>6
    <3>. HIDE DEF H, v, p, q, V
    <3>2. Books(J, H, v, p, q, V, c)
      BY <1>8, <3>1 DEF Books
    <3>. QED
      BY <3>2 DEF H, v, p, q, V
<1>. QED
  BY <1>6, <1>7 DEF Grows

(* The entry is there to read, for a file or for a directory of its own.   *)
NewInode(I, E, n, K, J) ==
    \/ J[n].i_type # "I_DIR"
    \/ J[n].i_type = "I_DIR" /\ K[n] = OwnEntries(n) /\ Readably(K, J, n)
NewTree(I, E, n, J) == IF J[n].i_type = "I_DIR" THEN Tree(E, I) \cup {n} ELSE Tree(E, I)

LEMMA KeepsAdded ==
    ASSUME NEW I, NEW E, NEW F, NEW u, NEW b, NEW m, NEW n, NEW name, NEW p,
           Creating(I, E, F, u, b, m, n, name, p),
           NEW w \in Nat, m + w <= MaxFsBlocks,
           NEW J \in [Inodes -> InodeType], NEW K \in Entries,
           Added(E, K, cur_dir, p, name, n), \A e \in Tree(E, I) \ {cur_dir} : K[e] = E[e],
           \A e \in Inodes \ {cur_dir, n} : J[e] = I[e], J[cur_dir].i_type = "I_DIR",
           Readably(K, J, cur_dir), NewInode(I, E, n, K, J),
           J[cur_dir].block_count + J[n].block_count - I[cur_dir].block_count <= w
    PROVE  /\ Good(Dev(J, K, F \cup {n}, u + 1, b + w, m + w), crashes)
           /\ Tree(K, J) = NewTree(I, E, n, J)
           /\ Using(K, Tree(K, J)) = Using(E, Tree(E, I)) \cup {n}
<1>. DEFINE X == Tree(E, I)
            U == Using(E, X)
            c == cur_dir
            Y == NewTree(I, E, n, J)
<1>0. OnDisk(I, E, F, u, b, m) /\ c \in X /\ n \in Inodes \ F
  BY DEF Creating
<1>1. /\ Typed(I, E, F, u, b, m) /\ Shape(E, I, X) /\ Books(I, F, u, b, m, U, crashes)
      /\ crashes \in Nat /\ E \in Entries /\ u \in Int /\ b \in Int /\ m \in Int
      /\ F \in SUBSET Bits
  BY <1>0, TheDisk DEF Typed
<1>2. X \subseteq U /\ U \subseteq F /\ X \subseteq Inodes /\ U \subseteq Inodes
  <2>1. X \subseteq U /\ X \subseteq Inodes
    BY <1>1, UsingIs
  <2>. QED
    BY <1>1, <2>1 DEF Books
<1>3. n \in Inodes /\ n \notin U /\ n # c /\ c \in U /\ c \in Dirs(I) /\ c \in Dirs(J)
  <2>1. c \in Dirs(I)
    BY <1>0, <1>1, <1>2, TreeClosed DEF Shape, Dirs
  <2>. QED
    BY <1>0, <1>2, <2>1 DEF Dirs
<1>4. Agree(I, J, U)
  <2>. SUFFICES ASSUME NEW e \in U
                PROVE  e \in Dirs(I) <=> e \in Dirs(J)
    BY DEF Agree
  <2>1. CASE e = c
    BY <1>3, <2>1
  <2>2. CASE e # c
    <3>1. e \in Inodes \ {c, n}
      BY <1>1, <1>2, <1>3, <2>2
    <3>. QED
      BY <3>1 DEF Dirs
  <2>. QED
    BY <2>1, <2>2
<1>5. \A e \in X : Readably(K, J, e)
  <2>. TAKE e \in X
  <2>1. CASE e = c
    BY <2>1
  <2>2. CASE e # c
    <3>1. Readably(E, I, e) /\ K[e] = E[e] /\ J[e] = I[e]
      BY <1>1, <1>2, <1>3, <2>2 DEF Shape
    <3>. QED
      BY <3>1 DEF Readably
  <2>. QED
    BY <2>1, <2>2
<1>6. Books(J, F \cup {n}, u + 1, b + w, m + w, U \cup {n}, crashes)
  <2>1. \A e \in U \ {c} : J[e].block_count = I[e].block_count
    BY <1>1, <1>2, <1>3
  <2>2. \A e \in Inodes \ (F \cup {n}) : J[e] = I[e]
    BY <1>2, <1>3
  <2>3. Grows(I, J, F, U, n, c, w)
    BY <1>3, <2>1, <2>2 DEF Grows
  <2>. HIDE DEF U, c
  <2>. QED
    BY <1>0, <1>1, <1>3, <2>3, BooksMore DEF c
<1>7. Typed(J, K, F \cup {n}, u + 1, b + w, m + w)
  BY <1>0, <1>1, BitsAre DEF Typed
<1>8. Tree(K, J) = Y /\ Using(K, Y) = U \cup {n} /\ Shape(K, J, Y)
  <2>1. CASE J[n].i_type # "I_DIR"
    <3>1. n \notin Dirs(J) /\ Y = X
      BY <2>1 DEF Dirs, NewTree
    <3>2. Tree(K, J) = X /\ Using(K, X) = U \cup {n} /\ Shape(K, J, X)
      BY <1>0, <1>1, <1>3, <1>4, <1>5, <3>1, FileAdded
    <3>. QED
      BY <3>1, <3>2
  <2>2. CASE J[n].i_type = "I_DIR"
    <3>1. n \in Dirs(J) /\ Y = X \cup {n} /\ K[n] = <<<<".", n>>, <<"..", c>>>> /\ Readably(K, J, n)
      BY <1>3, <2>2 DEF Dirs, NewTree, NewInode, OwnEntries
    <3>2. \A e \in X \cup {n} : Readably(K, J, e)
      BY <1>5, <3>1
    <3>3. /\ Tree(K, J) = X \cup {n} /\ Using(K, X \cup {n}) = U \cup {n}
          /\ Shape(K, J, X \cup {n})
      BY <1>0, <1>1, <1>3, <1>4, <3>1, <3>2, DirectoryAdded
    <3>. QED
      BY <3>1, <3>3
  <2>. QED
    BY <2>1, <2>2
<1>. DEFINE H == F \cup {n}
            v == u + 1
            q == b + w
            r == m + w
            V == U \cup {n}
<1>9. Typed(J, K, H, v, q, r) /\ Books(J, H, v, q, r, V, crashes) /\ Using(K, Y) = V
  BY <1>6, <1>7, <1>8
<1>. HIDE DEF H, v, q, r, V, Y
<1>10. Good(Dev(J, K, H, v, q, r), crashes)
  BY <1>8, <1>9, GoodIs
<1>. QED
  BY <1>8, <1>9, <1>10 DEF H, v, q, r, V, Y

LEMMA GoodMore ==
    ASSUME NEW I, NEW E, NEW F, NEW u, NEW b, NEW m, NEW c \in Nat, Good(Dev(I, E, F, u, b, m), c)
    PROVE  Good(Dev(I, E, F, u, b, m), c + 1)
<1>. DEFINE U == Using(E, Tree(E, I))
            T == Total(Sizes(I), U)
<1>1. Typed(I, E, F, u, b, m) /\ Shape(E, I, Tree(E, I)) /\ Books(I, F, u, b, m, U, c)
  BY GoodIs
<1>2. Cardinality(F) \in Nat /\ u \in Int /\ b \in Int /\ m \in Int
  BY <1>1, BitsAre DEF Typed
<1>. HIDE DEF U
<1>3. u - Cardinality(F) \in (-(c + 1)) .. (c + 1) /\ m - b \in (-(c + 1)) .. (c + 1)
  BY <1>1, <1>2 DEF Books
<1>5. Few(I, F, c + 1)
  <2>1. Few(I, F, c) /\ c <= c + 1 /\ Left(I, F) \subseteq Left(I, F)
    BY <1>1 DEF Books
  <2>. QED
    BY <2>1, FewLess
<1>4. Books(I, F, u, b, m, U, c + 1)
  BY <1>1, <1>3, <1>5 DEF Books
<1>. QED
  BY <1>1, <1>4, GoodIs DEF U

(* An entry that is there to read leaves the device good, as it is and as  *)
(* the next start reads it.                                                *)
Shows(I, E, n, G, J, w) ==
    /\ J \in [Inodes -> InodeType]
    /\ \A e \in Inodes \ {cur_dir, n} : J[e] = I[e]
    /\ J[cur_dir].i_type = "I_DIR" /\ Readably(G, J, cur_dir) /\ NewInode(I, E, n, G, J)
    /\ J[cur_dir].block_count + J[n].block_count - I[cur_dir].block_count <= w

Seen(I, E, n, G, J, y) ==
    /\ Good(y, crashes) /\ Tree(G, J) = NewTree(I, E, n, J)
    /\ Using(G, Tree(G, J)) = Using(E, Tree(E, I)) \cup {n}
    /\ Good(Readable(y), crashes + 1)

LEMMA Shown ==
    ASSUME NEW I, NEW E, NEW F, NEW u, NEW b, NEW m, NEW n, NEW name, NEW p,
           Creating(I, E, F, u, b, m, n, name, p), NEW s \in TheEntries,
           NEW G, G = With(E, n, s, p, name), NEW w \in Nat, m + w <= MaxFsBlocks,
           NEW J, Shows(I, E, n, G, J, w)
    PROVE  Seen(I, E, n, G, J, Dev(J, G, F \cup {n}, u + 1, b + w, m + w))
<1>. DEFINE X == Tree(E, I)
            c == cur_dir
            K == Cut(G, J)
<1>1. /\ G \in Entries /\ Added(E, G, c, p, name, n) /\ n # c /\ X \subseteq Inodes \ {n}
      /\ \A e \in Inodes \ {c, n} : G[e] = E[e]
  BY WithIs
<1>2. /\ J \in [Inodes -> InodeType] /\ \A e \in Inodes \ {c, n} : J[e] = I[e]
      /\ J[c].i_type = "I_DIR" /\ Readably(G, J, c) /\ NewInode(I, E, n, G, J)
      /\ J[c].block_count + J[n].block_count - I[c].block_count <= w
  BY DEF Shows
<1>3. OnDisk(I, E, F, u, b, m) /\ c \in X /\ n \in Inodes
  BY DEF Creating
<1>4. \A e \in X \ {c} : G[e] = E[e] /\ Readably(G, J, e)
  <2>. TAKE e \in X \ {c}
  <2>1. Readably(E, I, e)
    BY <1>3, TheDisk DEF Shape
  <2>2. G[e] = E[e] /\ J[e] = I[e]
    BY <1>1, <1>2
  <2>. QED
    BY <2>1, <2>2 DEF Readably
<1>5. /\ Good(Dev(J, G, F \cup {n}, u + 1, b + w, m + w), crashes)
      /\ Tree(G, J) = NewTree(I, E, n, J)
      /\ Using(G, Tree(G, J)) = Using(E, Tree(E, I)) \cup {n}
  <2>1. \A e \in X \ {c} : G[e] = E[e]
    BY <1>4
  <2>. QED
    BY <1>1, <1>2, <2>1, KeepsAdded
<1>6. K \in Entries /\ \A e \in Inodes : Cutting(G, J, e)
  BY <1>1, <1>2, CutIs, CutEntries
<1>. HIDE DEF K
<1>7. \A e \in Inodes : Readably(G, J, e) => K[e] = G[e] /\ Readably(K, J, e)
  BY <1>6 DEF Cutting, K
<1>8. c \in Inodes /\ K[c] = G[c] /\ Readably(K, J, c)
  BY <1>1, <1>2, <1>3, <1>7
<1>9. Added(E, K, c, p, name, n)
  BY <1>1, <1>8 DEF Added
<1>10. \A e \in X \ {c} : K[e] = E[e]
  BY <1>1, <1>4, <1>7
<1>11. NewInode(I, E, n, K, J)
  BY <1>2, <1>3, <1>7 DEF NewInode
<1>12. Good(Dev(J, K, F \cup {n}, u + 1, b + w, m + w), crashes)
  BY <1>2, <1>6, <1>8, <1>9, <1>10, <1>11, KeepsAdded
<1>13. crashes \in Nat
  BY <1>3, TheDisk
<1>14. Good(Dev(J, K, F \cup {n}, u + 1, b + w, m + w), crashes + 1)
  BY <1>12, <1>13, GoodMore
<1>. QED
  BY <1>5, <1>14, ReadableIs DEF K, Seen

(* The entry is written and the size of the directory is not: the next     *)
(* start reads it or not.                                                  *)
LEMMA Unsized ==
    ASSUME NEW I, NEW E, NEW F, NEW u, NEW b, NEW m, NEW n, NEW name, NEW p,
           Creating(I, E, F, u, b, m, n, name, p), NEW s \in TheEntries,
           NEW G, G = With(E, n, s, p, name), NEW w \in Nat, m + w <= MaxFsBlocks
    PROVE  Good(Readable(Dev(I, G, F \cup {n}, u + 1, b + w, m + w)), crashes + 1)
<1>. DEFINE X == Tree(E, I)
            U == Using(E, X)
            c == cur_dir
            K == Cut(G, I)
<1>1. /\ G \in Entries /\ Added(E, G, c, p, name, n) /\ n # c /\ X \subseteq Inodes \ {n}
      /\ \A e \in Inodes \ {c, n} : G[e] = E[e]
      /\ Len(E[c]) \in Nat /\ p \in 1 .. (Len(E[c]) + 1)
      /\ Len(G[c]) = Larger(p, Len(E[c])) /\ I[c].size \in Nat /\ Len(E[c]) <= I[c].size
      /\ I[c].i_type = "I_DIR"
  BY WithIs
<1>2. OnDisk(I, E, F, u, b, m) /\ c \in X /\ n \in Inodes \ F /\ I[n] = NoInode /\ I[c].size # Huge
  BY DEF Creating
<1>3. /\ Typed(I, E, F, u, b, m) /\ Shape(E, I, X) /\ Books(I, F, u, b, m, U, crashes)
      /\ crashes \in Nat /\ I \in [Inodes -> InodeType] /\ E \in Entries /\ F \in SUBSET Bits
      /\ u \in Int /\ b \in Int /\ m \in Int /\ Good(Dev(I, E, F, u, b, m), crashes)
  BY <1>2, TheDisk DEF Typed
<1>4. CASE Readably(G, I, c)
  <2>1. I[n].i_type # "I_DIR" /\ I[n].block_count = 0
    BY <1>2 DEF NoInode
  <2>2. I[c].block_count \in Nat
    BY <1>1, <1>2, <1>3, TestfsAssumption DEF InodeType
  <2>3. I[c].block_count + I[n].block_count - I[c].block_count <= w
    BY <2>1, <2>2
  <2>4. Shows(I, E, n, G, I, w)
    BY <1>1, <1>3, <1>4, <2>1, <2>3 DEF Shows, NewInode
  <2>. QED
    BY <2>4, Shown DEF Seen
<1>5. CASE ~Readably(G, I, c)
  <2>1. I[c].size = Len(E[c]) /\ Len(G[c]) = Len(E[c]) + 1 /\ p = Len(E[c]) + 1
    BY <1>1, <1>2, <1>5 DEF Readably, Larger
  <2>2. K \in Entries /\ \A e \in Inodes : Cutting(G, I, e)
    BY <1>1, <1>3, CutIs, CutEntries
  <2>3. c \in Inodes
    BY <1>1, <1>2
  <2>. HIDE DEF K
  <2>4. K[c] = E[c]
    <3>1. /\ Len(K[c]) = Len(E[c]) /\ \A q \in 1 .. Len(E[c]) : K[c][q] = G[c][q]
          /\ K[c] \in Seq(Names \X (Inodes \cup {INVALID_INODE_NR}))
          /\ E[c] \in Seq(Names \X (Inodes \cup {INVALID_INODE_NR}))
      BY <1>3, <1>5, <2>1, <2>2, <2>3 DEF Cutting, K, Entries
    <3>2. DOMAIN G[c] = 1 .. (Len(E[c]) + 1)
      BY <1>1, <2>1, <2>3 DEF Entries
    <3>3. \A q \in 1 .. Len(E[c]) : q \in DOMAIN G[c] \ {p}
      BY <1>1, <2>1, <3>2
    <3>4. \A q \in 1 .. Len(E[c]) : G[c][q] = E[c][q]
      BY <1>1, <3>3 DEF Added
    <3>. DEFINE r == K[c]
                t == E[c]
    <3>5. \E T : r \in Seq(T) /\ t \in Seq(T)
      BY <3>1
    <3>6. Len(r) = Len(t) /\ \A q \in 1 .. Len(t) : r[q] = t[q]
      BY <3>1, <3>4
    <3>. HIDE DEF r, t
    <3>7. r = t
      BY <3>5, <3>6
    <3>. QED
      BY <3>7 DEF r, t
  <2>5. \A e \in X : K[e] = E[e]
    <3>. TAKE e \in X
    <3>1. CASE e = c
      BY <2>4, <3>1
    <3>2. CASE e # c
      <4>1. G[e] = E[e] /\ Readably(E, I, e) /\ Cutting(G, I, e)
        BY <1>1, <1>3, <2>2, <3>2 DEF Shape
      <4>2. Readably(G, I, e)
        BY <4>1 DEF Readably
      <4>. QED
        BY <4>1, <4>2 DEF Cutting, K
    <3>. QED
      BY <3>1, <3>2
  <2>6. \A e \in X : Readably(K, I, e)
    BY <1>3, <2>5 DEF Shape, Readably
  <2>. HIDE DEF U
  <2>7. Books(I, F \cup {n}, u + 1, b + w, m + w, U, crashes)
    BY <1>2, <1>3, BooksMore
  <2>8. Typed(I, K, F \cup {n}, u + 1, b + w, m + w) /\ Agree(I, I, U)
    BY <1>2, <1>3, <2>2, BitsAre DEF Typed, Agree
  <2>9. Good(Dev(I, K, F \cup {n}, u + 1, b + w, m + w), crashes)
    BY <1>3, <2>5, <2>6, <2>7, <2>8, KeepsSame DEF U
  <2>10. Good(Dev(I, K, F \cup {n}, u + 1, b + w, m + w), crashes + 1)
    BY <1>3, <2>9, GoodMore
  <2>. QED
    BY <2>10, ReadableIs DEF K
<1>. QED
  BY <1>4, <1>5

(* testfs_create_file_or_dir.                                              *)
Child(type, own) == [i_type |-> type, size |-> 2 * own, block_count |-> own]
Parent(r, p, more) == [r EXCEPT !.size = Max({@, p}), !.block_count = @ + more]
OwnOnly(n, own) == IF own = 1 THEN OwnEntries(n) ELSE <<>>
OneSynced(I, r) == [I EXCEPT ![cur_dir] = r]
BothSynced(I, n, x, r) == [I EXCEPT ![n] = x, ![cur_dir] = r]

LEMMA ParentIs ==
    ASSUME NEW r \in InodeType, r.size # Huge, NEW p \in Nat, NEW more \in Nat,
           r.block_count + more <= MaxFsBlocks
    PROVE  /\ Parent(r, p, more) \in InodeType /\ Parent(r, p, more).i_type = r.i_type
           /\ Parent(r, p, more).size = Larger(r.size, p)
           /\ Parent(r, p, more).block_count = r.block_count + more
<1>1. r.size \in Nat /\ r.block_count \in Nat
  BY TestfsAssumption DEF InodeType
<1>2. Max({r.size, p}) = Larger(r.size, p) /\ Larger(r.size, p) \in Nat
  <2>1. r.size \in Int /\ p \in Int
    BY <1>1
  <2>. QED
    BY <1>1, <2>1, MostOfTwo DEF Larger
<1>. DEFINE z == Max({r.size, p})
<1>3. Parent(r, p, more) = [r EXCEPT !.size = z, !.block_count = r.block_count + more]
  BY DEF Parent, InodeType
<1>4. z \in Nat /\ z = Larger(r.size, p)
  BY <1>2
<1>. HIDE DEF z
<1>5. r.block_count + more \in 0 .. MaxFsBlocks
  BY <1>1, TestfsAssumption
<1>. DEFINE k == r.block_count + more
<1>. HIDE DEF k
<1>6. Parent(r, p, more) = [r EXCEPT !.size = z, !.block_count = k] /\ k \in 0 .. MaxFsBlocks
  BY <1>3, <1>5 DEF k
<1>. QED
  BY <1>4, <1>6 DEF InodeType, k

CreateWrites(n, own, more, p, name, type, parent) ==
    GetInode(n) \o (IF own = 1 THEN MakeEmptyDir(n) ELSE <<>>)
    \o (IF more = 1 THEN AllocBlock(own + 1) ELSE <<>>)
    \o Put("entries", With(disk.entries, n, OwnOnly(n, own), p, name))
    \o Put("inode", OneSynced(disk.inode, parent))
    \o Put("inode", BothSynced(disk.inode, n, Child(type, own), parent))

Creates(I, E, F, u, b, m, n, name, p, own, more, type, parent, J, G) ==
    /\ Creating(I, E, F, u, b, m, n, name, p)
    /\ own \in {0, 1} /\ more \in {0, 1} /\ m + (own + more) <= MaxFsBlocks
    /\ type \in {"I_FILE", "I_DIR"} /\ (own = 1 <=> type = "I_DIR")
    /\ parent = Parent(I[cur_dir], p, more) /\ J = BothSynced(I, n, Child(type, own), parent)
    /\ G = With(E, n, OwnOnly(n, own), p, name)

Makings(I, E, n, name, p, own, more, type, parent, J, G, y) ==
    /\ Safely(disk, CreateWrites(n, own, more, p, name, type, parent), y, crashes + 1)
    /\ Good(y, crashes) /\ Tree(G, J) = NewTree(I, E, n, J)
    /\ Using(G, Tree(G, J)) = Using(E, Tree(E, I)) \cup {n}
    /\ J \in [Inodes -> InodeType] /\ parent \in InodeType /\ J[n] = Child(type, own)
    /\ J[cur_dir] = parent /\ \A e \in Inodes \ {cur_dir, n} : J[e] = I[e]

LEMMA Created ==
    ASSUME NEW I, NEW E, NEW F, NEW u, NEW b, NEW m, NEW n, NEW name, NEW p, NEW own, NEW more,
           NEW type, NEW parent, NEW J, NEW G,
           Creates(I, E, F, u, b, m, n, name, p, own, more, type, parent, J, G),
           NEW y, y = Dev(J, G, F \cup {n}, u + 1, b + (own + more), m + (own + more))
    PROVE  Makings(I, E, n, name, p, own, more, type, parent, J, G, y)
<1>. /\ Creating(I, E, F, u, b, m, n, name, p)
     /\ own \in {0, 1} /\ more \in {0, 1} /\ m + (own + more) <= MaxFsBlocks
     /\ type \in {"I_FILE", "I_DIR"} /\ (own = 1 <=> type = "I_DIR")
     /\ parent = Parent(I[cur_dir], p, more) /\ J = BothSynced(I, n, Child(type, own), parent)
     /\ G = With(E, n, OwnOnly(n, own), p, name)
  BY DEF Creates
<1>. DEFINE X == Tree(E, I)
            U == Using(E, X)
            c == cur_dir
            w == own + more
            s == OwnOnly(n, own)
            k == crashes + 1
            H == F \cup {n}
            v == u + 1
            J1 == OneSynced(I, parent)
            x == Child(type, own)
<1>1. OnDisk(I, E, F, u, b, m) /\ c \in X /\ n \in Inodes \ F /\ I[n] = NoInode /\ I[c].size # Huge
  BY DEF Creating
<1>2. /\ Typed(I, E, F, u, b, m) /\ Shape(E, I, X) /\ Books(I, F, u, b, m, U, crashes)
      /\ crashes \in Nat /\ I \in [Inodes -> InodeType] /\ E \in Entries /\ F \in SUBSET Bits
      /\ u \in Int /\ b \in Int /\ m \in Int /\ Good(Dev(I, E, F, u, b, m), crashes)
      /\ disk.inode = I /\ disk.entries = E
  BY <1>1, TheDisk DEF Typed
<1>3. c \in U /\ c \in Inodes /\ U \subseteq Inodes /\ U \subseteq F
  BY <1>1, <1>2, UsingIs DEF Books
<1>4. s \in TheEntries
  <2>1. <<".", n>> \in Names \X (Inodes \cup {INVALID_INODE_NR})
        /\ <<"..", c>> \in Names \X (Inodes \cup {INVALID_INODE_NR})
    BY <1>1, <1>3, TestfsAssumption DEF Dots
  <2>2. OwnEntries(n) \in TheEntries /\ <<>> \in TheEntries
    BY <2>1 DEF OwnEntries, TheEntries
  <2>. QED
    BY <2>2, Zenon DEF OwnOnly
<1>5. /\ G \in Entries /\ \A e \in Inodes \ {c, n} : G[e] = E[e] /\ G[n] = s
      /\ n # c /\ Len(E[c]) \in Nat /\ p \in 1 .. (Len(E[c]) + 1)
      /\ Len(G[c]) = Larger(p, Len(E[c])) /\ I[c].size \in Nat /\ Len(E[c]) <= I[c].size
      /\ I[c].i_type = "I_DIR" /\ G[n] = s
  BY <1>4, WithIs
<1>6. I[c].block_count \in Nat /\ I[c].block_count <= m
  <2>1. I[c].block_count <= Total(Sizes(I), U)
    BY <1>2, <1>3, SizesLess
  <2>2. Total(Sizes(I), U) <= m /\ Total(Sizes(I), U) \in Nat
    BY <1>2, <1>3, SizesAre DEF Books
  <2>3. I[c].block_count \in Nat
    BY <1>2, <1>3, TestfsAssumption DEF InodeType
  <2>. QED
    BY <1>2, <2>1, <2>2, <2>3
<1>7. /\ parent \in InodeType /\ parent.i_type = "I_DIR" /\ parent.size = Larger(I[c].size, p)
      /\ parent.block_count = I[c].block_count + more
  <2>1. I[c] \in InodeType /\ p \in Nat /\ more \in Nat /\ I[c].block_count + more <= MaxFsBlocks
    BY <1>2, <1>3, <1>5, <1>6, TestfsAssumption
  <2>. QED
    BY <1>1, <1>5, <2>1, ParentIs
<1>8. x \in InodeType /\ x.i_type = type /\ x.size = 2 * own /\ x.block_count = own
  <2>1. own \in 0 .. MaxFsBlocks /\ 2 * own \in Nat
    BY TestfsAssumption
  <2>. QED
    BY <2>1 DEF Child, InodeType
<1>9. /\ J \in [Inodes -> InodeType] /\ J[n] = x /\ J[c] = parent
      /\ \A e \in Inodes \ {c, n} : J[e] = I[e]
      /\ J1 \in [Inodes -> InodeType] /\ J1[n] = NoInode /\ J1[c] = parent
      /\ \A e \in Inodes \ {c, n} : J1[e] = I[e]
  <2>. HIDE DEF x
  <2>1. n \in Inodes /\ c \in Inodes /\ n # c /\ x \in InodeType /\ parent \in InodeType
        /\ I \in [Inodes -> InodeType] /\ I[n] = NoInode
    BY <1>1, <1>2, <1>3, <1>5, <1>7, <1>8
  <2>2. J = [I EXCEPT ![n] = x, ![c] = parent] /\ J1 = [I EXCEPT ![c] = parent]
    BY DEF BothSynced, OneSynced, x
  <2>. HIDE DEF J1
  <2>. QED
    BY ONLY <2>1, <2>2
<1>. HIDE DEF x, J1, s, X, U
<1>10. Len(G[c]) <= Larger(I[c].size, p)
  BY <1>5 DEF Larger
<1>11. Shows(I, E, n, G, J, w) /\ Shows(I, E, n, G, J1, w)
  <2>1. Readably(G, J, c) /\ Readably(G, J1, c)
    BY <1>7, <1>9, <1>10 DEF Readably
  <2>2. NewInode(I, E, n, G, J)
    <3>1. CASE own = 0
      BY <1>8, <1>9, <3>1 DEF NewInode
    <3>2. CASE own = 1
      <4>1. G[n] = OwnEntries(n) /\ Len(OwnEntries(n)) = 2
        BY <1>5, <3>2 DEF s, OwnOnly, OwnEntries
      <4>2. J[n].i_type = "I_DIR" /\ J[n].size = 2
        BY <1>8, <1>9, <3>2
      <4>3. Readably(G, J, n)
        BY <4>1, <4>2 DEF Readably
      <4>. QED
        BY <4>1, <4>2, <4>3 DEF NewInode
    <3>. QED
      BY <3>1, <3>2
  <2>3. NewInode(I, E, n, G, J1)
    BY <1>9 DEF NewInode, NoInode
  <2>4. J1[n].block_count = 0 /\ J[n].block_count = own
    BY <1>8, <1>9 DEF NoInode
  <2>5. /\ J[c].block_count + J[n].block_count - I[c].block_count <= w
        /\ J1[c].block_count + J1[n].block_count - I[c].block_count <= w
    BY <1>6, <1>7, <1>9, <2>4
  <2>. QED
    BY <1>7, <1>9, <2>1, <2>2, <2>3, <2>5 DEF Shows
<1>12. w \in Nat /\ m + w <= MaxFsBlocks /\ m + own <= MaxFsBlocks
  BY <1>2, TestfsAssumption
<1>13. /\ Good(Dev(J, G, H, v, b + w, m + w), crashes)
       /\ Tree(G, J) = NewTree(I, E, n, J)
       /\ Using(G, Tree(G, J)) = Using(E, Tree(E, I)) \cup {n}
       /\ Good(Readable(Dev(J, G, H, v, b + w, m + w)), k)
       /\ Good(Readable(Dev(J1, G, H, v, b + w, m + w)), k)
       /\ Good(Readable(Dev(I, G, H, v, b + w, m + w)), k)
  <2>1. G = With(E, n, s, p, name)
    BY DEF s
  <2>. HIDE DEF w
  <2>2. /\ Good(Dev(J, G, H, v, b + w, m + w), crashes)
        /\ Tree(G, J) = NewTree(I, E, n, J)
        /\ Using(G, Tree(G, J)) = Using(E, Tree(E, I)) \cup {n}
        /\ Good(Readable(Dev(J, G, H, v, b + w, m + w)), k)
    <3>1. Creating(I, E, F, u, b, m, n, name, p) /\ Shows(I, E, n, G, J, w)
      BY <1>11
    <3>2. Seen(I, E, n, G, J, Dev(J, G, F \cup {n}, u + 1, b + w, m + w))
      BY ONLY <1>4, <1>12, <2>1, <3>1, Shown
    <3>. QED
      BY <3>2 DEF Seen
  <2>3. /\ Good(Dev(J1, G, H, v, b + w, m + w), crashes)
        /\ Tree(G, J1) = NewTree(I, E, n, J1)
        /\ Using(G, Tree(G, J1)) = Using(E, Tree(E, I)) \cup {n}
        /\ Good(Readable(Dev(J1, G, H, v, b + w, m + w)), k)
    <3>1. Creating(I, E, F, u, b, m, n, name, p) /\ Shows(I, E, n, G, J1, w)
      BY <1>11
    <3>2. Seen(I, E, n, G, J1, Dev(J1, G, F \cup {n}, u + 1, b + w, m + w))
      BY ONLY <1>4, <1>12, <2>1, <3>1, Shown
    <3>. QED
      BY <3>2 DEF Seen
  <2>4. Good(Readable(Dev(I, G, H, v, b + w, m + w)), k)
    BY <1>4, <1>12, <2>1, Unsized
  <2>. QED
    BY <2>2, <2>3, <2>4
<1>. DEFINE E2 == OwnIf(E, n, own)
<1>14. /\ Good(Readable(Dev(I, E2, H, v, b + own, m + own)), k)
       /\ Good(Readable(Dev(I, E2, H, v, b + w, m + own)), k)
       /\ Good(Readable(Dev(I, E2, H, v, b + w, m + w)), k)
  <2>1. E2 \in Entries /\ Elsewhere(E, E2, Inodes \ {n})
    BY <1>1, <1>2, <1>3, OwnEntriesAre DEF OwnIf
  <2>. HIDE DEF E2
  <2>2. /\ Early(I, E, F, u, b, m, n, E2, H, v, b + own, m + own)
        /\ Early(I, E, F, u, b, m, n, E2, H, v, b + w, m + own)
        /\ Early(I, E, F, u, b, m, n, E2, H, v, b + w, m + w)
    <3>1. own \in {0, 1} /\ more \in {0, 1} /\ m \in Int /\ b \in Int /\ MaxFsBlocks \in Nat
      BY <1>2, TestfsAssumption
    <3>2. \A i, j \in {own, w} : j <= i => /\ b + i \in Int /\ m + j \in Int
                                          /\ b <= b + i /\ m <= m + j /\ m + j <= MaxFsBlocks
                                          /\ ((m + j) - (b + i)) - (m - b) \in (-1) .. 1
      BY ONLY <1>12, <3>1
    <3>3. own <= own /\ own <= w /\ w <= w /\ own \in {own, w} /\ w \in {own, w}
      BY ONLY <3>1
    <3>4. H \in {F, F \cup {n}} /\ v \in {u, u + 1}
      OBVIOUS
    <3>. HIDE DEF w, H, v
    <3>. QED
      BY ONLY <2>1, <3>2, <3>3, <3>4 DEF Early
  <2>. QED
    BY <1>1, <1>2, <2>2, EarlyGood, BitsAre
<1>15. Safely(disk, GetInode(n) \o (IF own = 1 THEN MakeEmptyDir(n) ELSE <<>>),
              Dev(I, E2, H, v, b + own, m + own), k)
  BY <1>1, <1>3, <1>12, TakesInode
<1>16. Safely(Dev(I, E2, H, v, b + own, m + own), IF more = 1 THEN AllocBlock(own + 1) ELSE <<>>,
              Dev(I, E2, H, v, b + w, m + w), k)
  <2>. HIDE DEF k, H, v, E2
  <2>1. CASE more = 1
    <3>1. w = own + 1
      BY <2>1
    <3>. HIDE DEF w
    <3>2. Safely(Dev(I, E2, H, v, b + own, m + own), AllocBlock(w), Dev(I, E2, H, v, b + w, m + w), k)
      BY <1>1, <1>14, BlockPair
    <3>. QED
      BY <2>1, <3>1, <3>2
  <2>2. CASE more = 0
    <3>1. w = own
      BY <2>2
    <3>. HIDE DEF w
    <3>2. Safely(Dev(I, E2, H, v, b + own, m + own), <<>>, Dev(I, E2, H, v, b + own, m + own), k)
      BY <1>14, SafelyNothing
    <3>. QED
      BY <2>2, <3>1, <3>2
  <2>. QED
    BY <2>1, <2>2
<1>. HIDE DEF k, H, v, E2, w
<1>17. /\ Safely(Dev(I, E2, H, v, b + w, m + w), Put("entries", G), Dev(I, G, H, v, b + w, m + w), k)
       /\ Safely(Dev(I, G, H, v, b + w, m + w), Put("inode", J1), Dev(J1, G, H, v, b + w, m + w), k)
       /\ Safely(Dev(J1, G, H, v, b + w, m + w), Put("inode", J), Dev(J, G, H, v, b + w, m + w), k)
  BY <1>13, <1>14, SafelyPut
<1>18. CreateWrites(n, own, more, p, name, type, parent) =
         GetInode(n) \o (IF own = 1 THEN MakeEmptyDir(n) ELSE <<>>)
         \o (IF more = 1 THEN AllocBlock(own + 1) ELSE <<>>)
         \o Put("entries", G) \o Put("inode", J1) \o Put("inode", J)
  BY <1>2 DEF CreateWrites, J1
<1>. DEFINE a1 == GetInode(n) \o (IF own = 1 THEN MakeEmptyDir(n) ELSE <<>>)
            a2 == IF more = 1 THEN AllocBlock(own + 1) ELSE <<>>
<1>19. Safely(disk, a1 \o a2 \o Put("entries", G) \o Put("inode", J1) \o Put("inode", J),
              Dev(J, G, H, v, b + w, m + w), k)
  <2>1. Safely(disk, a1, Dev(I, E2, H, v, b + own, m + own), k)
    BY <1>15
  <2>2. Safely(Dev(I, E2, H, v, b + own, m + own), a2, Dev(I, E2, H, v, b + w, m + w), k)
    BY <1>16
  <2>. HIDE DEF a1, a2
  <2>3. Safely(disk, a1 \o a2, Dev(I, E2, H, v, b + w, m + w), k)
    BY <2>1, <2>2, SafelyThen
  <2>4. Safely(disk, a1 \o a2 \o Put("entries", G), Dev(I, G, H, v, b + w, m + w), k)
    BY <1>17, <2>3, SafelyThen
  <2>5. Safely(disk, a1 \o a2 \o Put("entries", G) \o Put("inode", J1),
               Dev(J1, G, H, v, b + w, m + w), k)
    BY <1>17, <2>4, SafelyThen
  <2>. QED
    BY <1>17, <2>5, SafelyThen
<1>20. Safely(disk, CreateWrites(n, own, more, p, name, type, parent),
              Dev(J, G, H, v, b + w, m + w), k)
  BY <1>18, <1>19
<1>. QED
  BY <1>7, <1>9, <1>13, <1>20 DEF k, H, v, w, x, Makings

-----------------------------------------------------------------------------
(* A sequence of pairs of writes, of the freemap of blocks and then of its *)
(* counter: what they say after the i-th pair is in bs and ms.             *)
Marked(p, b, m) ==
    /\ p[1] = [field |-> "block_freemap", value |-> b]
    /\ p[2] = [field |-> "used_block_count", value |-> m]
Pairs(s, k, bs, ms) ==
    /\ Writing(s) /\ Len(s) = 2 * k
    /\ \A q \in 0 .. (k - 1) :
          /\ s[2 * q + 1] = [field |-> "block_freemap", value |-> bs[q + 1]]
          /\ s[2 * q + 2] = [field |-> "used_block_count", value |-> ms[q + 1]]

LEMMA Halves ==
    ASSUME NEW w \in Nat
    PROVE  /\ \E q \in Nat : w = 2 * q \/ w = 2 * q + 1
           /\ \A q \in Nat : /\ w = 2 * q => (w + 1) \div 2 = q /\ w % 2 = 0
                             /\ w = 2 * q + 1 => (w + 1) \div 2 = q + 1 /\ w % 2 = 1
<1>1. w \div 2 \in Nat /\ (w = 2 * (w \div 2) \/ w = 2 * (w \div 2) + 1)
  OBVIOUS
<1>2. \E q \in Nat : w = 2 * q \/ w = 2 * q + 1
  BY <1>1
<1>3. ASSUME NEW q \in Nat
      PROVE  /\ w = 2 * q => (w + 1) \div 2 = q /\ w % 2 = 0
             /\ w = 2 * q + 1 => (w + 1) \div 2 = q + 1 /\ w % 2 = 1
  OBVIOUS
<1>. QED
  BY <1>2, <1>3

LEMMA PairsOf ==
    ASSUME NEW k \in Nat, NEW s, NEW f, NEW bs, NEW ms,
           s = [w \in 1 .. 2 * k |-> f[(w + 1) \div 2][2 - (w % 2)]],
           \A i \in 1 .. k : Marked(f[i], bs[i], ms[i])
    PROVE  Pairs(s, k, bs, ms)
<1>1. Writing(s) /\ Len(s) = 2 * k
  <2>. DEFINE g(w) == f[(w + 1) \div 2][2 - (w % 2)]
  <2>1. s = [w \in 1 .. 2 * k |-> g(w)]
    OBVIOUS
  <2>. HIDE DEF g
  <2>2. s \in Seq({g(w) : w \in 1 .. 2 * k}) /\ Len(s) = 2 * k
    BY ONLY <2>1, k \in Nat
  <2>. QED
    BY <2>2 DEF Writing
<1>2. ASSUME NEW q \in 0 .. (k - 1)
      PROVE  /\ s[2 * q + 1] = [field |-> "block_freemap", value |-> bs[q + 1]]
             /\ s[2 * q + 2] = [field |-> "used_block_count", value |-> ms[q + 1]]
  <2>1. /\ 2 * q + 1 \in 1 .. 2 * k /\ 2 * q + 2 \in 1 .. 2 * k /\ q \in Nat /\ q + 1 \in 1 .. k
        /\ 2 * q + 1 \in Nat /\ 2 * q + 2 \in Nat /\ q + 1 \in Nat
    BY ONLY k \in Nat, q \in 0 .. (k - 1)
  <2>2. s[2 * q + 1] = f[q + 1][1]
    <3>1. ((2 * q + 1) + 1) \div 2 = q + 1 /\ (2 * q + 1) % 2 = 1
      BY <2>1, Halves
    <3>2. s[2 * q + 1] = f[((2 * q + 1) + 1) \div 2][2 - ((2 * q + 1) % 2)]
      BY <2>1, Zenon
    <3>3. 2 - 1 = 1
      OBVIOUS
    <3>. QED
      BY ONLY <3>1, <3>2, <3>3, Zenon
  <2>3. s[2 * q + 2] = f[q + 1][2]
    <3>1. ((2 * q + 2) + 1) \div 2 = q + 1 /\ (2 * q + 2) % 2 = 0
      <4>1. 2 * q + 2 = 2 * (q + 1)
        BY <2>1
      <4>. QED
        BY <2>1, <4>1, Halves
    <3>2. s[2 * q + 2] = f[((2 * q + 2) + 1) \div 2][2 - ((2 * q + 2) % 2)]
      BY <2>1, Zenon
    <3>3. 2 - 0 = 2
      OBVIOUS
    <3>. QED
      BY ONLY <3>1, <3>2, <3>3, Zenon
  <2>4. Marked(f[q + 1], bs[q + 1], ms[q + 1])
    BY <2>1
  <2>. QED
    BY <2>2, <2>3, <2>4 DEF Marked
<1>. QED
  BY <1>1, <1>2 DEF Pairs

(* The blocks that a command takes, and those it frees.                    *)
Rising(b, k)  == [i \in 0 .. k |-> b + i]
Falling(b, k) == [i \in 0 .. k |-> b - i]
LEMMA PairsAre ==
    ASSUME NEW I, NEW E, NEW F, NEW u, NEW b, NEW m, OnDisk(I, E, F, u, b, m), NEW k \in Nat
    PROVE  /\ Pairs(AllocBlocks(k), k, Rising(b, k), Rising(m, k))
           /\ Pairs(FreeBlocks(k), k, Falling(b, k), Falling(m, k))
<1>1. disk.block_freemap = b /\ used_block_count = m /\ b \in Int /\ m \in Int
  BY TheDisk DEF Typed
<1>2. ASSUME NEW i \in Int
      PROVE  Marked(AllocBlock(i), b + i, m + i)
  <2>. DEFINE f == Put("block_freemap", b + i)
              g == Put("used_block_count", m + i)
  <2>1. AllocBlock(i) = f \o g
    BY <1>1 DEF AllocBlock
  <2>2. /\ Writing(f) /\ Len(f) = 1 /\ f[1] = [field |-> "block_freemap", value |-> b + i]
        /\ Writing(g) /\ Len(g) = 1 /\ g[1] = [field |-> "used_block_count", value |-> m + i]
    BY WritingFacts
  <2>. HIDE DEF f, g
  <2>3. (\A j \in 1 .. 1 : (f \o g)[j] = f[j]) /\ (\A j \in 1 .. 1 : (f \o g)[1 + j] = g[j])
    BY <2>2, WritingConcat
  <2>4. (f \o g)[1] = f[1] /\ (f \o g)[1 + 1] = g[1]
    <3>1. 1 \in 1 .. 1
      OBVIOUS
    <3>. QED
      BY ONLY <2>3, <3>1
  <2>5. 1 + 1 = 2
    OBVIOUS
  <2>. QED
    BY ONLY <2>1, <2>2, <2>4, <2>5 DEF Marked
<1>3. ASSUME NEW i \in Int
      PROVE  Marked(FreeBlock(i), b - i, m - i)
  <2>1. -i \in Int /\ b + (-i) = b - i /\ m + (-i) = m - i
    BY <1>1
  <2>2. Marked(AllocBlock(-i), b + (-i), m + (-i))
    BY <1>2, <2>1
  <2>. QED
    BY <2>1, <2>2 DEF FreeBlock
<1>4. \A w \in 1 .. 2 * k : (w + 1) \div 2 \in 1 .. k
  OBVIOUS
<1>5. Pairs(AllocBlocks(k), k, Rising(b, k), Rising(m, k))
  <2>. DEFINE f == [i \in 1 .. k |-> AllocBlock(i)]
              bs == Rising(b, k)
              ms == Rising(m, k)
  <2>1. \A i \in 1 .. k : f[i] = AllocBlock(i) /\ bs[i] = b + i /\ ms[i] = m + i /\ i \in Int
    BY DEF Rising
  <2>2. AllocBlocks(k) = [w \in 1 .. 2 * k |-> f[(w + 1) \div 2][2 - (w % 2)]]
    <3>1. \A w \in 1 .. 2 * k : f[(w + 1) \div 2] = AllocBlock((w + 1) \div 2)
      BY <1>4, <2>1
    <3>. HIDE DEF f
    <3>. QED
      BY <3>1 DEF AllocBlocks
  <2>3. \A i \in 1 .. k : Marked(f[i], bs[i], ms[i])
    BY <1>2, <2>1
  <2>. HIDE DEF f, bs, ms
  <2>4. Pairs(AllocBlocks(k), k, bs, ms)
    BY <2>2, <2>3, PairsOf
  <2>. QED
    BY <2>4 DEF bs, ms
<1>6. Pairs(FreeBlocks(k), k, Falling(b, k), Falling(m, k))
  <2>. DEFINE f == [i \in 1 .. k |-> FreeBlock(i)]
              bs == Falling(b, k)
              ms == Falling(m, k)
  <2>1. \A i \in 1 .. k : f[i] = FreeBlock(i) /\ bs[i] = b - i /\ ms[i] = m - i /\ i \in Int
    BY DEF Falling
  <2>2. FreeBlocks(k) = [w \in 1 .. 2 * k |-> f[(w + 1) \div 2][2 - (w % 2)]]
    <3>1. \A w \in 1 .. 2 * k : f[(w + 1) \div 2] = FreeBlock((w + 1) \div 2)
      BY <1>4, <2>1
    <3>. HIDE DEF f
    <3>. QED
      BY <3>1 DEF FreeBlocks
  <2>3. \A i \in 1 .. k : Marked(f[i], bs[i], ms[i])
    BY <1>3, <2>1
  <2>. HIDE DEF f, bs, ms
  <2>4. Pairs(FreeBlocks(k), k, bs, ms)
    BY <2>2, <2>3, PairsOf
  <2>. QED
    BY <2>4 DEF bs, ms
<1>. QED
  BY <1>5, <1>6

(* What the writes leave: behind 2q of them q pairs, one more marks the    *)
(* next.                                                                   *)
Staged(d, s, k, J, G, H, v, bs, ms) ==
    /\ \A q \in 0 .. k : Until(d, s, 2 * q) = Dev(J, G, H, v, bs[q], ms[q])
    /\ \A q \in 0 .. (k - 1) : Until(d, s, 2 * q + 1) = Dev(J, G, H, v, bs[q + 1], ms[q])

LEMMA PairStages ==
    ASSUME NEW s, NEW k \in Nat, NEW bs, NEW ms, Pairs(s, k, bs, ms),
           NEW J, NEW G, NEW H, NEW v
    PROVE  Staged(Dev(J, G, H, v, bs[0], ms[0]), s, k, J, G, H, v, bs, ms)
<1>. DEFINE d == Dev(J, G, H, v, bs[0], ms[0])
            at(w, f) == {i \in 1 .. w : s[i].field = f}
<1>2. \A q \in 0 .. (k - 1) :
         /\ s[2 * q + 1].field = "block_freemap" /\ s[2 * q + 1].value = bs[q + 1]
         /\ s[2 * q + 2].field = "used_block_count" /\ s[2 * q + 2].value = ms[q + 1]
  <2>. TAKE q \in 0 .. (k - 1)
  <2>1. /\ s[2 * q + 1] = [field |-> "block_freemap", value |-> bs[q + 1]]
        /\ s[2 * q + 2] = [field |-> "used_block_count", value |-> ms[q + 1]]
    BY DEF Pairs
  <2>. QED
    BY <2>1
<1>3. \A i \in 1 .. 2 * k : \E q \in 0 .. (k - 1) : i = 2 * q + 1 \/ i = 2 * q + 2
  <2>. TAKE i \in 1 .. 2 * k
  <2>1. PICK q \in Nat : i - 1 = 2 * q \/ i - 1 = 2 * q + 1
    <3>1. i - 1 \in Nat
      OBVIOUS
    <3>. QED
      BY <3>1, Halves
  <2>2. q \in 0 .. (k - 1) /\ (i = 2 * q + 1 \/ i = 2 * q + 2)
    BY <2>1
  <2>. QED
    BY <2>2
<1>4. ASSUME NEW w \in 0 .. 2 * k, NEW f, f # "block_freemap", f # "used_block_count"
      PROVE  at(w, f) = {}
  <2>. SUFFICES ASSUME NEW i \in 1 .. w, s[i].field = f
                PROVE  FALSE
    OBVIOUS
  <2>1. i \in 1 .. 2 * k
    OBVIOUS
  <2>2. PICK q \in 0 .. (k - 1) : i = 2 * q + 1 \/ i = 2 * q + 2
    BY <1>3, <2>1
  <2>. QED
    BY <1>2, <1>4, <2>2
<1>5. ASSUME NEW w \in 0 .. 2 * k, NEW q \in 0 .. (k - 1), w = 2 * q + 1 \/ w = 2 * q + 2
      PROVE  at(w, "block_freemap") # {} /\ s[Max(at(w, "block_freemap"))].value = bs[q + 1]
  <2>. DEFINE B == at(w, "block_freemap")
  <2>1. 2 * q + 1 \in B
    BY <1>2, <1>5
  <2>2. \A i \in B : 2 * q + 1 >= i
    <3>. TAKE i \in B
    <3>1. i \in 1 .. 2 * k /\ i <= w /\ s[i].field = "block_freemap"
      OBVIOUS
    <3>2. PICK r \in 0 .. (k - 1) : i = 2 * r + 1 \/ i = 2 * r + 2
      BY <1>3, <3>1
    <3>3. i = 2 * r + 1
      BY <1>2, <3>1, <3>2
    <3>. QED
      BY <1>5, <3>1, <3>3
  <2>3. B \in SUBSET (1 .. w) /\ w \in Nat
    OBVIOUS
  <2>. HIDE DEF B
  <2>4. Max(B) = 2 * q + 1
    BY <2>1, <2>2, <2>3, MostIs
  <2>. QED
    BY <1>2, <2>1, <2>4 DEF B
<1>6. ASSUME NEW w \in 0 .. 2 * k, NEW q \in 0 .. (k - 1), w = 2 * q + 2 \/ w = 2 * q + 3
      PROVE  at(w, "used_block_count") # {} /\ s[Max(at(w, "used_block_count"))].value = ms[q + 1]
  <2>. DEFINE B == at(w, "used_block_count")
  <2>1. 2 * q + 2 \in B
    BY <1>2, <1>6
  <2>2. \A i \in B : 2 * q + 2 >= i
    <3>. TAKE i \in B
    <3>1. i \in 1 .. 2 * k /\ i <= w /\ s[i].field = "used_block_count"
      OBVIOUS
    <3>2. PICK r \in 0 .. (k - 1) : i = 2 * r + 1 \/ i = 2 * r + 2
      BY <1>3, <3>1
    <3>3. i = 2 * r + 2
      BY <1>2, <3>1, <3>2
    <3>. QED
      BY <1>6, <3>1, <3>3
  <2>3. B \in SUBSET (1 .. w) /\ w \in Nat
    OBVIOUS
  <2>. HIDE DEF B
  <2>4. Max(B) = 2 * q + 2
    BY <2>1, <2>2, <2>3, MostIs
  <2>. QED
    BY <1>2, <2>1, <2>4 DEF B
<1>7. /\ at(0, "block_freemap") = {} /\ at(0, "used_block_count") = {}
      /\ k > 0 => at(1, "used_block_count") = {}
  <2>1. k > 0 => s[1].field = "block_freemap"
    <3>1. k > 0 => 0 \in 0 .. (k - 1) /\ 2 * 0 + 1 = 1
      OBVIOUS
    <3>. QED
      BY <1>2, <3>1
  <2>2. 1 .. 0 = {} /\ 1 .. 1 = {1}
    OBVIOUS
  <2>. QED
    BY <2>1, <2>2
<1>. DEFINE value(w, f) == IF at(w, f) = {} THEN d[f] ELSE s[Max(at(w, f))].value
<1>8. ASSUME NEW w \in 0 .. 2 * k
      PROVE  Until(d, s, w) = Dev(J, G, H, v, value(w, "block_freemap"), value(w, "used_block_count"))
  <2>1. Until(d, s, w) = [f \in DOMAIN d |-> value(w, f)]
    BY DEF Until
  <2>2. /\ DOMAIN d = Fields /\ d["inode"] = J /\ d["entries"] = G /\ d["inode_freemap"] = H
        /\ d["used_inode_count"] = v
    BY DEF Dev, Fields
  <2>3. /\ value(w, "inode") = J /\ value(w, "entries") = G /\ value(w, "inode_freemap") = H
        /\ value(w, "used_inode_count") = v
    BY <1>4, <2>2
  <2>. DEFINE x == value(w, "block_freemap")
              y == value(w, "used_block_count")
  <2>4. x = value(w, "block_freemap") /\ y = value(w, "used_block_count")
    OBVIOUS
  <2>. HIDE DEF value, x, y, d
  <2>. QED
    BY <2>1, <2>2, <2>3, <2>4 DEF Dev, Fields
<1>9. ASSUME NEW q \in 0 .. k
      PROVE  Until(d, s, 2 * q) = Dev(J, G, H, v, bs[q], ms[q])
  <2>1. d["block_freemap"] = bs[0] /\ d["used_block_count"] = ms[0]
    BY DEF Dev
  <2>2. 2 * q \in 0 .. 2 * k
    OBVIOUS
  <2>. HIDE DEF at, d
  <2>3. CASE q = 0
    <3>1. value(2 * q, "block_freemap") = bs[q] /\ value(2 * q, "used_block_count") = ms[q]
      BY <1>7, <2>1, <2>3
    <3>. QED
      BY <1>8, <2>2, <3>1
  <2>4. CASE q # 0
    <3>1. q - 1 \in 0 .. (k - 1) /\ 2 * q = 2 * (q - 1) + 2 /\ (q - 1) + 1 = q
      BY <2>4
    <3>2. value(2 * q, "block_freemap") = bs[q] /\ value(2 * q, "used_block_count") = ms[q]
      BY <1>5, <1>6, <2>2, <3>1
    <3>. QED
      BY <1>8, <2>2, <3>2
  <2>. QED
    BY <2>3, <2>4
<1>10. ASSUME NEW q \in 0 .. (k - 1)
       PROVE  Until(d, s, 2 * q + 1) = Dev(J, G, H, v, bs[q + 1], ms[q])
  <2>1. d["block_freemap"] = bs[0] /\ d["used_block_count"] = ms[0]
    BY DEF Dev
  <2>2. 2 * q + 1 \in 0 .. 2 * k /\ k > 0
    OBVIOUS
  <2>. HIDE DEF at, d
  <2>3. value(2 * q + 1, "block_freemap") = bs[q + 1]
    BY <1>5, <2>2
  <2>4. value(2 * q + 1, "used_block_count") = ms[q]
    <3>1. CASE q = 0
      BY <1>7, <2>1, <2>2, <3>1
    <3>2. CASE q # 0
      <4>1. q - 1 \in 0 .. (k - 1) /\ 2 * q + 1 = 2 * (q - 1) + 3 /\ (q - 1) + 1 = q
        BY <3>2
      <4>. QED
        BY <1>6, <2>2, <4>1
    <3>. QED
      BY <3>1, <3>2
  <2>. QED
    BY <1>8, <2>2, <2>3, <2>4
<1>. QED
  BY <1>9, <1>10 DEF Staged

LEMMA PairsSafely ==
    ASSUME NEW s, NEW k \in Nat, NEW bs, NEW ms, Pairs(s, k, bs, ms),
           NEW J, NEW G, NEW H, NEW v, NEW z,
           \A i, j \in 0 .. k :
               i = j \/ i = j + 1 => Good(Readable(Dev(J, G, H, v, bs[i], ms[j])), z)
    PROVE  Safely(Dev(J, G, H, v, bs[0], ms[0]), s, Dev(J, G, H, v, bs[k], ms[k]), z)
<1>. DEFINE d == Dev(J, G, H, v, bs[0], ms[0])
            S == Stages(d, s)
<1>1. /\ \A q \in 0 .. k : Until(d, s, 2 * q) = Dev(J, G, H, v, bs[q], ms[q])
      /\ \A q \in 0 .. (k - 1) : Until(d, s, 2 * q + 1) = Dev(J, G, H, v, bs[q + 1], ms[q])
  <2>1. Staged(d, s, k, J, G, H, v, bs, ms)
    BY PairStages
  <2>. HIDE DEF d
  <2>. QED
    BY <2>1 DEF Staged
<1>2. Writing(s) /\ Len(s) = 2 * k
  BY DEF Pairs
<1>. HIDE DEF d
<1>3. Over(d, s) = Dev(J, G, H, v, bs[k], ms[k])
  BY <1>1, <1>2 DEF Over
<1>4. ASSUME NEW x \in S
      PROVE  Good(Readable(x), z)
  <2>1. PICK w \in 0 .. 2 * k : x = Until(d, s, w)
    BY <1>2 DEF Stages
  <2>2. PICK q \in Nat : w = 2 * q \/ w = 2 * q + 1
    <3>1. w \in Nat
      OBVIOUS
    <3>. QED
      BY <3>1, Halves
  <2>3. CASE w = 2 * q
    <3>1. q \in 0 .. k
      BY <2>2, <2>3
    <3>. QED
      BY <1>1, <2>1, <2>3, <3>1
  <2>4. CASE w = 2 * q + 1
    <3>1. q \in 0 .. (k - 1) /\ q \in 0 .. k /\ q + 1 \in 0 .. k
      BY <2>2, <2>4
    <3>2. x = Dev(J, G, H, v, bs[q + 1], ms[q])
      BY <1>1, <2>1, <2>4, <3>1
    <3>. QED
      BY <3>1, <3>2
  <2>. QED
    BY <2>2, <2>3, <2>4
<1>. HIDE DEF S
<1>5. Stages(d, s) \subseteq S
  BY DEF S
<1>. QED
  BY <1>2, <1>3, <1>4, <1>5 DEF Safely, Doing, d

(* Blocks that are taken, or freed, one by one.                            *)
LEMMA BlocksSafely ==
    ASSUME NEW I, NEW E, NEW F, NEW u, NEW b, NEW m, OnDisk(I, E, F, u, b, m), NEW k \in Nat,
           NEW J, NEW G, NEW H, NEW v, NEW z
    PROVE  /\ (\A i, j \in 0 .. k :
                  i = j \/ i = j + 1 => Good(Readable(Dev(J, G, H, v, b + i, m + j)), z))
               => Safely(Dev(J, G, H, v, b, m), AllocBlocks(k), Dev(J, G, H, v, b + k, m + k), z)
           /\ (\A i, j \in 0 .. k :
                  i = j \/ i = j + 1 => Good(Readable(Dev(J, G, H, v, b - i, m - j)), z))
               => Safely(Dev(J, G, H, v, b, m), FreeBlocks(k), Dev(J, G, H, v, b - k, m - k), z)
<1>1. b \in Int /\ m \in Int /\ b + 0 = b /\ m + 0 = m /\ b - 0 = b /\ m - 0 = m
      /\ 0 \in 0 .. k /\ k \in 0 .. k
  BY TheDisk DEF Typed
<1>2. ASSUME \A i, j \in 0 .. k :
                i = j \/ i = j + 1 => Good(Readable(Dev(J, G, H, v, b + i, m + j)), z)
      PROVE  Safely(Dev(J, G, H, v, b, m), AllocBlocks(k), Dev(J, G, H, v, b + k, m + k), z)
  <2>. DEFINE bs == Rising(b, k)
              ms == Rising(m, k)
  <2>1. Pairs(AllocBlocks(k), k, bs, ms)
    BY PairsAre
  <2>2. \A i \in 0 .. k : bs[i] = b + i /\ ms[i] = m + i
    BY DEF Rising
  <2>. HIDE DEF bs, ms
  <2>3. \A i, j \in 0 .. k :
            i = j \/ i = j + 1 => Good(Readable(Dev(J, G, H, v, bs[i], ms[j])), z)
    BY <1>2, <2>2
  <2>4. Safely(Dev(J, G, H, v, bs[0], ms[0]), AllocBlocks(k), Dev(J, G, H, v, bs[k], ms[k]), z)
    BY <2>1, <2>3, PairsSafely
  <2>. QED
    BY <1>1, <2>2, <2>4
<1>3. ASSUME \A i, j \in 0 .. k :
                i = j \/ i = j + 1 => Good(Readable(Dev(J, G, H, v, b - i, m - j)), z)
      PROVE  Safely(Dev(J, G, H, v, b, m), FreeBlocks(k), Dev(J, G, H, v, b - k, m - k), z)
  <2>. DEFINE bs == Falling(b, k)
              ms == Falling(m, k)
  <2>1. Pairs(FreeBlocks(k), k, bs, ms)
    BY PairsAre
  <2>2. \A i \in 0 .. k : bs[i] = b - i /\ ms[i] = m - i
    BY DEF Falling
  <2>. HIDE DEF bs, ms
  <2>3. \A i, j \in 0 .. k :
            i = j \/ i = j + 1 => Good(Readable(Dev(J, G, H, v, bs[i], ms[j])), z)
    BY <1>3, <2>2
  <2>4. Safely(Dev(J, G, H, v, bs[0], ms[0]), FreeBlocks(k), Dev(J, G, H, v, bs[k], ms[k]), z)
    BY <2>1, <2>3, PairsSafely
  <2>. QED
    BY <1>1, <2>2, <2>4
<1>. QED
  BY <1>2, <1>3

-----------------------------------------------------------------------------
(* The same device, read again.                                            *)
LEMMA KeepsAsIs ==
    ASSUME NEW I, NEW E, NEW F, NEW u, NEW b, NEW m, NEW c, Good(Dev(I, E, F, u, b, m), c)
    PROVE  /\ Good(Readable(Dev(I, E, F, u, b, m)), c)
           /\ Tree(Cut(E, I), I) = Tree(E, I)
           /\ Using(Cut(E, I), Tree(E, I)) = Using(E, Tree(E, I))
           /\ \A e \in Tree(E, I) : Cut(E, I)[e] = E[e]
<1>. DEFINE X == Tree(E, I)
            K == Cut(E, I)
<1>1. Typed(I, E, F, u, b, m) /\ Shape(E, I, X) /\ Books(I, F, u, b, m, Using(E, X), c)
      /\ X \subseteq Inodes
  BY GoodIs, TreeClosed
<1>2. I \in [Inodes -> InodeType] /\ E \in Entries
  BY <1>1 DEF Typed
<1>3. \A e \in Inodes : Cutting(E, I, e)
  BY <1>2, CutIs
<1>4. K \in Entries
  BY <1>2, CutEntries
<1>. HIDE DEF K
<1>5. \A e \in X : K[e] = E[e] /\ Readably(K, I, e)
  BY <1>1, <1>3 DEF Cutting, Shape, K
<1>6. Typed(I, K, F, u, b, m) /\ Agree(I, I, Using(E, X))
  BY <1>1, <1>4 DEF Typed, Agree
<1>7. Good(Dev(I, K, F, u, b, m), c) /\ Tree(K, I) = X /\ Using(K, X) = Using(E, X)
  BY <1>1, <1>5, <1>6, KeepsSame
<1>. QED
  BY <1>5, <1>7, ReadableIs DEF K

-----------------------------------------------------------------------------
(* An entry less.                                                          *)
Unled(s, p) == [s EXCEPT ![p] = [@ EXCEPT ![2] = INVALID_INODE_NR]]

Removing(I, E, F, u, b, m, n, name, p) ==
    /\ OnDisk(I, E, F, u, b, m) /\ cur_dir \in Tree(E, I) /\ name \notin Dots
    /\ Found(cur_dir, name) /\ n = Named(name) /\ p = Position(cur_dir, name)
    /\ Inode(n).block_count = I[n].block_count /\ (n \in Dirs(I) => Kids(E, n) = {})

LEMMA FoundIs ==
    ASSUME NEW name, Found(cur_dir, name)
    PROVE  LET p == Position(cur_dir, name)
           IN  /\ p \in DOMAIN entries[cur_dir] /\ Live(entries[cur_dir][p])
               /\ entries[cur_dir][p][1] = name /\ entries[cur_dir][p][2] = Named(name)
<1>1. \E p \in DOMAIN entries[cur_dir] : Live(entries[cur_dir][p]) /\ entries[cur_dir][p][1] = name
  BY DEF Found
<1>2. LET p == Position(cur_dir, name)
      IN  p \in DOMAIN entries[cur_dir] /\ Live(entries[cur_dir][p]) /\ entries[cur_dir][p][1] = name
  BY <1>1, Zenon DEF Position
<1>. QED
  BY <1>2 DEF Named

(* What the removal leaves of the directories and of inodes but n.         *)
Less(I, E, n, p, J, K) ==
    /\ J \in [Inodes -> InodeType] /\ K \in Entries
    /\ K[cur_dir] = Unled(E[cur_dir], p) /\ \A e \in Tree(E, I) \ {cur_dir, n} : K[e] = E[e]
    /\ \A e \in Inodes \ {n} : /\ J[e].i_type = I[e].i_type /\ J[e].block_count = I[e].block_count
                               /\ J[e].size \in {I[e].size, Huge}
    /\ \A e \in Inodes \ {cur_dir, n} : J[e] = I[e]

LEMMA RemovingIs ==
    ASSUME NEW I, NEW E, NEW F, NEW u, NEW b, NEW m, NEW n, NEW name, NEW p,
           Removing(I, E, F, u, b, m, n, name, p)
    PROVE  /\ Leads(E, cur_dir, p) /\ n = E[cur_dir][p][2] /\ n \in Using(E, Tree(E, I))
           /\ n # Root /\ n # cur_dir /\ n \in Inodes /\ n \in F /\ cur_dir \in Inodes
           /\ cur_dir \in F
           /\ Unled(E[cur_dir], p) \in TheEntries /\ p \in DOMAIN E[cur_dir]
<1>. DEFINE X == Tree(E, I)
            U == Using(E, X)
            c == cur_dir
<1>1. OnDisk(I, E, F, u, b, m) /\ c \in X /\ name \notin Dots /\ Found(c, name)
      /\ n = Named(name) /\ p = Position(c, name) /\ (n \in Dirs(I) => Kids(E, n) = {})
  BY DEF Removing
<1>2. /\ Typed(I, E, F, u, b, m) /\ Shape(E, I, X) /\ Books(I, F, u, b, m, U, crashes) /\ entries = E
  BY <1>1, TheDisk
<1>3. Leads(E, c, p) /\ n = E[c][p][2] /\ p \in DOMAIN E[c] /\ E[c][p][2] # INVALID_INODE_NR
  BY <1>1, <1>2, FoundIs DEF Leads, Live
<1>4. n \in Kids(E, c)
  BY <1>3, KidsIs
<1>5. n \in U /\ n # Root /\ U \subseteq F /\ U \in SUBSET Inodes /\ c \in Inodes /\ c \in U
  BY <1>1, <1>2, <1>4, UsingIs DEF Books, Typed
<1>6. n # c
  <2>1. c = Root \/ c \in Dirs(I)
    BY <1>1, TreeClosed
  <2>. QED
    BY <1>1, <1>4, <1>5, <2>1
<1>7. Unled(E[c], p) \in TheEntries
  <2>1. E[c] \in TheEntries /\ E[c][p] \in Names \X (Inodes \cup {INVALID_INODE_NR})
    BY <1>2, <1>3, <1>5 DEF Typed, Entries, TheEntries
  <2>. DEFINE s == E[c]
              T == Names \X (Inodes \cup {INVALID_INODE_NR})
              e == [s[p] EXCEPT ![2] = INVALID_INODE_NR]
  <2>2. e \in T
    BY <2>1
  <2>3. s \in Seq(T) /\ p \in DOMAIN s
    BY <1>3, <2>1 DEF TheEntries
  <2>4. Unled(s, p) = [s EXCEPT ![p] = e]
    BY DEF Unled
  <2>. HIDE DEF e, s, T
  <2>5. [s EXCEPT ![p] = e] \in Seq(T)
    BY <2>2, <2>3
  <2>. QED
    BY <2>4, <2>5 DEF s, T, TheEntries
<1>. QED
  BY <1>3, <1>5, <1>6, <1>7

Without(I, E, n, Y, V) == Y = Tree(E, I) \ {n} /\ V = Using(E, Tree(E, I)) \ {n}

LEMMA KeepsDropped ==
    ASSUME NEW I, NEW E, NEW F, NEW u, NEW b, NEW m, NEW n, NEW name, NEW p,
           Removing(I, E, F, u, b, m, n, name, p), NEW J, NEW K, Less(I, E, n, p, J, K),
           NEW Y, NEW V, Without(I, E, n, Y, V),
           NEW H, NEW v, NEW r, NEW q, NEW z, Typed(J, K, H, v, r, q), Books(J, H, v, r, q, V, z)
    PROVE  /\ Good(Dev(J, K, H, v, r, q), z) /\ Tree(K, J) = Y /\ Using(K, Y) = V
           /\ Good(Readable(Dev(J, K, H, v, r, q)), z)
<1>. DEFINE X == Tree(E, I)
            U == Using(E, X)
            c == cur_dir
            L == Cut(K, J)
<1>0. Y = X \ {n} /\ V = U \ {n}
  BY DEF Without
<1>1. OnDisk(I, E, F, u, b, m) /\ c \in X /\ (n \in Dirs(I) => Kids(E, n) = {})
  BY DEF Removing
<1>2. Shape(E, I, X) /\ E \in Entries /\ U \subseteq Inodes /\ X \subseteq Inodes /\ X \subseteq U
  <2>1. Typed(I, E, F, u, b, m) /\ Shape(E, I, X) /\ U \in SUBSET Inodes
    BY <1>1, TheDisk DEF Books
  <2>. QED
    BY <2>1, UsingIs DEF Typed
<1>3. Leads(E, c, p) /\ n = E[c][p][2] /\ n \in U /\ n # Root /\ n # c /\ n \in Inodes /\ c \in Inodes
      /\ p \in DOMAIN E[c]
  BY RemovingIs
<1>4. /\ J \in [Inodes -> InodeType] /\ K \in Entries /\ K[c] = Unled(E[c], p)
      /\ \A e \in X \ {c, n} : K[e] = E[e]
      /\ \A e \in Inodes \ {n} : J[e].i_type = I[e].i_type /\ J[e].size \in {I[e].size, Huge}
  BY DEF Less
<1>5. Agree(I, J, U \ {n})
  BY <1>2, <1>4 DEF Agree, Dirs
<1>6. \A e \in X \ {n} : Readably(K, J, e)
  <2>. TAKE e \in X \ {n}
  <2>1. Readably(E, I, e) /\ J[e].size \in {I[e].size, Huge}
    BY <1>2, <1>4 DEF Shape
  <2>2. Len(K[e]) = Len(E[e])
    <3>1. CASE e = c
      <4>1. E[c] \in Seq(Names \X (Inodes \cup {INVALID_INODE_NR}))
        BY <1>2, <1>3 DEF Entries
      <4>. DEFINE s == E[c]
                  x == [s[p] EXCEPT ![2] = INVALID_INODE_NR]
      <4>2. Unled(s, p) = [s EXCEPT ![p] = x]
        BY DEF Unled
      <4>3. Len([s EXCEPT ![p] = x]) = Len(s)
        <5>. HIDE DEF x
        <5>. QED
          BY <1>3, <4>1
      <4>. QED
        BY <1>4, <3>1, <4>2, <4>3
    <3>2. CASE e # c
      BY <1>4, <3>2
    <3>. QED
      BY <3>1, <3>2
  <2>. QED
    BY <2>1, <2>2 DEF Readably
<1>7. \A e \in Inodes : Cutting(K, J, e)
  BY <1>4, CutIs
<1>8. L \in Entries
  BY <1>4, CutEntries
<1>. HIDE DEF L
<1>9. \A e \in Inodes : Readably(K, J, e) => L[e] = K[e] /\ Readably(L, J, e)
  BY <1>7 DEF Cutting, L
<1>10. \A e \in X \ {n} : L[e] = K[e] /\ Readably(L, J, e)
  BY <1>2, <1>6, <1>9
<1>11. L[c] = K[c] /\ \A e \in X \ {c, n} : L[e] = E[e]
  BY <1>1, <1>3, <1>4, <1>10
<1>12. /\ Tree(K, J) = Y /\ Using(K, Y) = V /\ Shape(K, J, Y)
  <2>1. K[c] = [E[c] EXCEPT ![p] = [@ EXCEPT ![2] = INVALID_INODE_NR]]
    BY <1>4 DEF Unled
  <2>2. DropsAt(E, I, K, J, X, Y, c, p, n)
    BY <1>0, <1>1, <1>2, <1>3, <1>4, <1>5, <1>6, <2>1 DEF DropsAt
  <2>. QED
    BY <1>0, <2>2, Dropped
<1>13. /\ Tree(L, J) = Y /\ Using(L, Y) = V /\ Shape(L, J, Y)
  <2>1. L[c] = [E[c] EXCEPT ![p] = [@ EXCEPT ![2] = INVALID_INODE_NR]]
    BY <1>4, <1>11 DEF Unled
  <2>2. \A e \in X \ {n} : Readably(L, J, e)
    BY <1>10
  <2>3. DropsAt(E, I, L, J, X, Y, c, p, n)
    BY <1>0, <1>1, <1>2, <1>3, <1>5, <1>8, <1>11, <2>1, <2>2 DEF DropsAt
  <2>. QED
    BY <1>0, <2>3, Dropped
<1>14. Typed(J, L, H, v, r, q)
  BY <1>8 DEF Typed
<1>15. Good(Dev(J, K, H, v, r, q), z) /\ Good(Dev(J, L, H, v, r, q), z)
  BY <1>12, <1>13, <1>14, GoodIs
<1>. QED
  BY <1>12, <1>15, ReadableIs DEF L

LessBooks(J, F, u, b, m, V, n, k, c) ==
    /\ k \in Nat
    /\ \A i, j \in 0 .. k, H \in {F, F \ {n}}, v \in {u, u - 1} :
          i = j \/ i = j + 1 => Books(J, H, v, b - i, m - j, V, c + 1)
    /\ J[n] = NoInode => Books(J, F \ {n}, u - 1, b - k, m - k, V, c)
Shrinks(I, J, F, U, n) ==
    /\ J \in [Inodes -> InodeType] /\ \A e \in U \ {n} : J[e].block_count = I[e].block_count
    /\ \A e \in Inodes \ F : J[e] = I[e]

LEMMA BooksLess ==
    ASSUME NEW I, NEW E, NEW F, NEW u, NEW b, NEW m, Typed(I, E, F, u, b, m),
           NEW U, NEW c \in Nat, Books(I, F, u, b, m, U, c), NEW n \in U,
           NEW J, Shrinks(I, J, F, U, n),
           NEW k, k = I[n].block_count, NEW V, V = U \ {n}
    PROVE  LessBooks(J, F, u, b, m, V, n, k, c)
<1>1. /\ U \in SUBSET Inodes /\ F \in SUBSET Bits /\ n \in F /\ n \in Inodes
      /\ I \in [Inodes -> InodeType] /\ u \in Int /\ b \in Int /\ m \in Int /\ U \subseteq F
  BY DEF Typed, Books
<1>0. /\ J \in [Inodes -> InodeType] /\ \A e \in U \ {n} : J[e].block_count = I[e].block_count
      /\ \A e \in Inodes \ F : J[e] = I[e]
  BY DEF Shrinks
<1>. DEFINE t == Total(Sizes(J), V)
            x == Cardinality(F)
            y == Cardinality(U)
<1>2. Total(Sizes(J), V) = Total(Sizes(I), V)
  <2>1. V \in SUBSET Inodes
    BY <1>1
  <2>. QED
    BY <1>0, <2>1, SizesSame
<1>3. Total(Sizes(I), U) = t + k /\ y = Cardinality(V) + 1 /\ x = Cardinality(F \ {n}) + 1
  <2>1. /\ Total(Sizes(I), U) = Total(Sizes(I), V) + I[n].block_count
        /\ Cardinality(U) = Cardinality(V) + 1
    BY <1>1, SizesLess
  <2>2. Cardinality(F) = Cardinality(F \ {n}) + 1
    BY <1>1, BitsAre
  <2>. QED
    BY <1>2, <2>1, <2>2
<1>4. t \in Nat /\ k \in Nat /\ Cardinality(V) \in Nat /\ Cardinality(F \ {n}) \in Nat
  <2>1. V \in SUBSET Inodes /\ F \ {n} \in SUBSET Bits
    BY <1>1
  <2>2. k \in Nat
    BY <1>1, TestfsAssumption DEF InodeType
  <2>. QED
    BY <1>0, <2>1, <2>2, SizesAre, BitsAre
<1>5. /\ y <= u /\ t + k <= m /\ t + k <= b /\ m <= MaxFsBlocks
      /\ u - x \in (-c) .. c /\ m - b \in (-c) .. c
  BY <1>3 DEF Books
<1>6. V \subseteq F \ {n} /\ V \subseteq F /\ V \in SUBSET Inodes
  BY <1>1
<1>10. /\ Few(J, F, c + 1) /\ Few(J, F \ {n}, c + 1)
       /\ J[n] = NoInode => Few(J, F \ {n}, c)
  <2>1. Few(I, F, c) /\ c \in Int
    BY DEF Books
  <2>2. Left(J, F) \subseteq Left(I, F)
    BY <1>0 DEF Left
  <2>3. Left(J, F \ {n}) \subseteq Left(J, F) \cup {n}
    BY DEF Left
  <2>4. Few(J, F, c) /\ c <= c
    BY <2>1, <2>2, FewLess
  <2>5. Few(J, F, c + 1)
    BY <2>1, <2>2, FewLess
  <2>6. Few(J, F \ {n}, c + 1)
    BY <2>1, <2>3, <2>4, FewMore
  <2>7. J[n] = NoInode => Left(J, F \ {n}) \subseteq Left(J, F)
    BY DEF Left
  <2>8. J[n] = NoInode => Few(J, F \ {n}, c)
    BY <2>1, <2>4, <2>7, FewLess
  <2>. QED
    BY <2>5, <2>6, <2>8
<1>. DEFINE f == Cardinality(F \ {n})
            z == Cardinality(V)
<1>. HIDE DEF t, x, y, f, z
<1>7. x = f + 1 /\ y = z + 1 /\ f \in Nat /\ z \in Nat
  BY <1>3, <1>4 DEF f, z
<1>8. ASSUME NEW i \in 0 .. k, NEW j \in 0 .. k, NEW H \in {F, F \ {n}}, NEW v \in {u, u - 1},
             i = j \/ i = j + 1
      PROVE  Books(J, H, v, b - i, m - j, V, c + 1)
  <2>1. Cardinality(H) \in {x, f}
    BY DEF x, f
  <2>2. v - Cardinality(H) \in (-(c + 1)) .. (c + 1) /\ z <= v
    BY <1>1, <1>5, <1>7, <2>1
  <2>3. (m - j) - (b - i) \in (-(c + 1)) .. (c + 1) /\ m - j <= MaxFsBlocks
        /\ t <= m - j /\ t <= b - i
    BY <1>1, <1>4, <1>5, <1>8, TestfsAssumption
  <2>. QED
    BY <1>6, <1>10, <2>2, <2>3 DEF Books, t, z
<1>9. ASSUME J[n] = NoInode
      PROVE  Books(J, F \ {n}, u - 1, b - k, m - k, V, c)
  <2>1. (u - 1) - f \in (-c) .. c /\ z <= u - 1
    BY <1>1, <1>5, <1>7
  <2>2. (m - k) - (b - k) \in (-c) .. c /\ m - k <= MaxFsBlocks /\ t <= m - k /\ t <= b - k
    BY <1>1, <1>4, <1>5, TestfsAssumption
  <2>. QED
    BY <1>6, <1>9, <1>10, <2>1, <2>2 DEF Books, t, z, f
<1>. QED
  BY <1>4, <1>8, <1>9 DEF LessBooks

LEMMA NestedExcept ==
    ASSUME NEW f, NEW a, NEW b, NEW v
    PROVE  [f EXCEPT ![a][b][2] = v] = [f EXCEPT ![a] = [f[a] EXCEPT ![b] = [f[a][b] EXCEPT ![2] = v]]]
OBVIOUS

Removes(I, E, F, u, b, m, n, name, p, r, J, G, k) ==
    /\ Removing(I, E, F, u, b, m, n, name, p)
    /\ r = inode[cur_dir] /\ r \in InodeType /\ r.i_type = I[cur_dir].i_type
    /\ r.block_count = I[cur_dir].block_count /\ r.size \in {I[cur_dir].size, Huge}
    /\ J = BothSynced(I, n, NoInode, r) /\ k = I[n].block_count
    /\ G = [E EXCEPT ![cur_dir] = Unled(E[cur_dir], p), ![n] = <<>>]
Removals(I, E, n, name, p, r, J, G, y) ==
    /\ Safely(disk, Removal(n, name), y, crashes + 1) /\ Good(y, crashes)
    /\ Tree(G, J) = Tree(E, I) \ {n} /\ Using(G, Tree(G, J)) = Using(E, Tree(E, I)) \ {n}
    /\ J \in [Inodes -> InodeType] /\ J[n] = NoInode /\ J[cur_dir] = r
    /\ \A e \in Inodes \ {cur_dir, n} : J[e] = I[e] /\ G[e] = E[e]
    /\ G[cur_dir] = Unled(E[cur_dir], p)

LEMMA Removed ==
    ASSUME NEW I, NEW E, NEW F, NEW u, NEW b, NEW m, NEW n, NEW name, NEW p, NEW r, NEW J, NEW G,
           NEW k, Removes(I, E, F, u, b, m, n, name, p, r, J, G, k),
           NEW y, y = Dev(J, G, F \ {n}, u - 1, b - k, m - k)
    PROVE  Removals(I, E, n, name, p, r, J, G, y)
<1>. /\ Removing(I, E, F, u, b, m, n, name, p)
     /\ r = inode[cur_dir] /\ r \in InodeType /\ r.i_type = I[cur_dir].i_type
     /\ r.block_count = I[cur_dir].block_count /\ r.size \in {I[cur_dir].size, Huge}
     /\ J = BothSynced(I, n, NoInode, r) /\ k = I[n].block_count
     /\ G = [E EXCEPT ![cur_dir] = Unled(E[cur_dir], p), ![n] = <<>>]
  BY DEF Removes
<1>. DEFINE X == Tree(E, I)
            U == Using(E, X)
            c == cur_dir
            z == crashes + 1
            H == F \ {n}
            V == U \ {n}
            Y == X \ {n}
            J1 == [I EXCEPT ![n] = NoInode]
            E1 == [E EXCEPT ![c] = Unled(E[c], p)]
<1>1. OnDisk(I, E, F, u, b, m) /\ c \in X /\ p = Position(c, name) /\ Inode(n).block_count = k
  BY DEF Removing
<1>2. /\ Typed(I, E, F, u, b, m) /\ Shape(E, I, X) /\ Books(I, F, u, b, m, U, crashes)
      /\ crashes \in Nat /\ I \in [Inodes -> InodeType] /\ E \in Entries /\ F \in SUBSET Bits
      /\ u \in Int /\ b \in Int /\ m \in Int /\ Good(disk, crashes)
      /\ disk = Dev(I, E, F, u, b, m)
      /\ disk.inode = I /\ entries = E /\ used_inode_count = u /\ inode_freemap = F
  BY <1>1, TheDisk DEF Typed, OnDisk
<1>3. /\ n \in U /\ n # Root /\ n # c /\ n \in Inodes /\ n \in F /\ c \in Inodes
      /\ c \in F /\ Unled(E[c], p) \in TheEntries /\ p \in DOMAIN E[c] /\ X \subseteq Inodes
      /\ U \subseteq Inodes
  BY <1>2, RemovingIs, TreeClosed DEF Books
<1>4. NoInode \in InodeType
  BY TestfsAssumption DEF NoInode, InodeType
<1>5. /\ J \in [Inodes -> InodeType] /\ J1 \in [Inodes -> InodeType]
      /\ J[n] = NoInode /\ J[c] = r /\ J1[n] = NoInode
      /\ \A e \in Inodes \ {c, n} : J[e] = I[e]
      /\ \A e \in Inodes \ {n} : J1[e] = I[e]
  <2>1. J = [I EXCEPT ![n] = NoInode, ![c] = r]
    BY DEF BothSynced
  <2>. QED
    BY <1>2, <1>3, <1>4, <2>1
<1>6. /\ E1 \in Entries /\ G \in Entries /\ E1[c] = Unled(E[c], p) /\ G[c] = Unled(E[c], p)
      /\ \A e \in Inodes \ {c} : E1[e] = E[e]
      /\ \A e \in Inodes \ {c, n} : G[e] = E[e]
      /\ G = [E1 EXCEPT ![n] = <<>>]
  <2>. DEFINE s == Unled(E[c], p)
  <2>1. s \in Seq(Names \X (Inodes \cup {INVALID_INODE_NR}))
        /\ <<>> \in Seq(Names \X (Inodes \cup {INVALID_INODE_NR}))
    BY <1>3 DEF TheEntries
  <2>2. G = [E EXCEPT ![c] = s, ![n] = <<>>] /\ E1 = [E EXCEPT ![c] = s]
    OBVIOUS
  <2>. HIDE DEF s, E1
  <2>. QED
    BY <1>2, <1>3, <2>1, <2>2 DEF Entries, s
<1>7. /\ Less(I, E, n, p, I, E1) /\ Less(I, E, n, p, I, G) /\ Less(I, E, n, p, J1, G)
      /\ Less(I, E, n, p, J, G)
  <2>1. /\ \A e \in X \ {c, n} : E1[e] = E[e] /\ G[e] = E[e]
    BY <1>3, <1>6
  <2>2. \A e \in Inodes \ {n} : /\ J[e].i_type = I[e].i_type /\ J[e].block_count = I[e].block_count
                                /\ J[e].size \in {I[e].size, Huge}
    <3>. TAKE e \in Inodes \ {n}
    <3>1. CASE e = c
      BY <1>5, <3>1
    <3>2. CASE e # c
      BY <1>5, <3>2
    <3>. QED
      BY <3>1, <3>2
  <2>. HIDE DEF J1, E1
  <2>. QED
    BY <1>2, <1>5, <1>6, <2>1, <2>2 DEF Less
<1>. HIDE DEF J1, E1
<1>8. k \in Nat
      /\ \A L : Shrinks(I, L, F, U, n) => LessBooks(L, F, u, b, m, V, n, k, crashes)
  <2>. HIDE DEF U
  <2>1. k \in Nat
    BY <1>2, <1>3, TestfsAssumption DEF InodeType
  <2>2. ASSUME NEW L, Shrinks(I, L, F, U, n)
        PROVE  LessBooks(L, F, u, b, m, V, n, k, crashes)
    <3>1. V = U \ {n}
      OBVIOUS
    <3>. HIDE DEF V
    <3>. QED
      BY <1>2, <1>3, <2>2, <3>1, BooksLess
  <2>. QED
    BY <2>1, <2>2
<1>9. ASSUME NEW L \in [Inodes -> InodeType], NEW K \in Entries, Less(I, E, n, p, L, K)
      PROVE  /\ \A i, j \in 0 .. k, h \in {F, F \ {n}}, v \in {u, u - 1} :
                   i = j \/ i = j + 1 => Good(Readable(Dev(L, K, h, v, b - i, m - j)), z)
             /\ L[n] = NoInode => Good(Dev(L, K, H, u - 1, b - k, m - k), crashes)
             /\ Tree(K, L) = Y /\ Using(K, Y) = V
  <2>1. Shrinks(I, L, F, U, n)
    <3>1. \A e \in Inodes \ F : e \in Inodes \ {c, n}
      BY <1>3
    <3>. QED
      BY <1>3, <1>9, <3>1 DEF Less, Shrinks
  <2>2. ASSUME NEW i \in 0 .. k, NEW j \in 0 .. k, NEW h \in {F, F \ {n}}, NEW v \in {u, u - 1},
               i = j \/ i = j + 1
        PROVE  Good(Readable(Dev(L, K, h, v, b - i, m - j)), z)
    <3>. DEFINE bi == b - i
                mj == m - j
    <3>1. Books(L, h, v, bi, mj, V, z)
      <4>1. LessBooks(L, F, u, b, m, V, n, k, crashes)
        BY <1>8, <2>1
      <4>. HIDE DEF V
      <4>. QED
        BY ONLY <2>2, <4>1 DEF LessBooks, z
    <3>2. Typed(L, K, h, v, bi, mj)
      BY <1>2, <1>8 DEF Typed
    <3>3. Without(I, E, n, Y, V)
      BY DEF Without
    <3>. HIDE DEF bi, mj, z, Y, V
    <3>4. Good(Readable(Dev(L, K, h, v, bi, mj)), z)
      BY ONLY Removing(I, E, F, u, b, m, n, name, p), Less(I, E, n, p, L, K), <3>1, <3>2, <3>3,
              KeepsDropped
    <3>. QED
      BY <3>4 DEF bi, mj
  <2>3. /\ L[n] = NoInode => Good(Dev(L, K, H, u - 1, b - k, m - k), crashes)
        /\ Tree(K, L) = Y /\ Using(K, Y) = V
    <3>. DEFINE v == u - 1
                bi == b - k
                mj == m - k
    <3>1. Books(L, H, v, bi, mj, V, z) /\ (L[n] = NoInode => Books(L, H, v, bi, mj, V, crashes))
      <4>1. k \in 0 .. k
        BY <1>8
      <4>. QED
        BY <1>8, <2>1, <4>1 DEF LessBooks
    <3>2. Typed(L, K, H, v, bi, mj)
      BY <1>2, <1>8 DEF Typed
    <3>. HIDE DEF bi, mj, v, H
    <3>3. Without(I, E, n, Y, V)
      BY DEF Without
    <3>. HIDE DEF Y, V, z
    <3>4. (L[n] = NoInode => Good(Dev(L, K, H, v, bi, mj), crashes)) /\ Tree(K, L) = Y /\ Using(K, Y) = V
      BY ONLY Removing(I, E, F, u, b, m, n, name, p), Less(I, E, n, p, L, K), <3>1, <3>2, <3>3,
              KeepsDropped
    <3>. QED
      BY <3>4 DEF bi, mj, v
  <2>. QED
    BY <2>2, <2>3
<1>10. 0 \in 0 .. k /\ k \in 0 .. k /\ b - 0 = b /\ m - 0 = m
  BY <1>2, <1>8
<1>11. /\ Good(Readable(Dev(I, E1, F, u, b, m)), z)
       /\ \A i, j \in 0 .. k : i = j \/ i = j + 1 => Good(Readable(Dev(I, G, F, u, b - i, m - j)), z)
       /\ Good(Readable(Dev(I, G, H, u, b - k, m - k)), z)
       /\ Good(Readable(Dev(I, G, H, u - 1, b - k, m - k)), z)
       /\ Good(Readable(Dev(J1, G, H, u - 1, b - k, m - k)), z)
       /\ Good(Readable(Dev(J, G, H, u - 1, b - k, m - k)), z)
       /\ Good(Dev(J, G, H, u - 1, b - k, m - k), crashes)
       /\ Tree(G, J) = Y /\ Using(G, Y) = V
  <2>. HIDE DEF z, X, U, V, Y
  <2>1. Good(Readable(Dev(I, E1, F, u, b - 0, m - 0)), z)
    BY <1>2, <1>6, <1>7, <1>9, <1>10
  <2>2. \A i, j \in 0 .. k : i = j \/ i = j + 1 => Good(Readable(Dev(I, G, F, u, b - i, m - j)), z)
    BY <1>2, <1>6, <1>7, <1>9
  <2>3. /\ Good(Readable(Dev(I, G, H, u, b - k, m - k)), z)
        /\ Good(Readable(Dev(I, G, H, u - 1, b - k, m - k)), z)
    BY <1>2, <1>6, <1>7, <1>9, <1>10
  <2>4. Good(Readable(Dev(J1, G, H, u - 1, b - k, m - k)), z)
    BY <1>5, <1>6, <1>7, <1>9, <1>10
  <2>5. /\ Good(Readable(Dev(J, G, H, u - 1, b - k, m - k)), z)
        /\ Good(Dev(J, G, H, u - 1, b - k, m - k), crashes)
        /\ Tree(G, J) = Y /\ Using(G, Y) = V
    BY <1>5, <1>6, <1>7, <1>9, <1>10
  <2>. QED
    BY <1>10, <2>1, <2>2, <2>3, <2>4, <2>5
<1>12. Good(Readable(Dev(I, E, F, u, b, m)), z) /\ Good(Readable(Dev(I, G, F, u, b, m)), z)
  <2>1. Good(Dev(I, E, F, u, b, m), crashes + 1)
    BY <1>2, GoodMore
  <2>2. Good(Readable(Dev(I, E, F, u, b, m)), z)
    BY <2>1, KeepsAsIs
  <2>. QED
    BY <1>10, <1>11, <2>2
<1>. DEFINE v == u - 1
            bk == b - k
            mk == m - k
            s1 == Put("entries", E1)
            s2 == Put("entries", G)
            s3 == FreeBlocks(k)
            s4 == PutInode(n, u - 1)
            s5 == Put("inode", J1)
            s6 == Put("inode", J)
<1>13. Removal(n, name) = s1 \o (s2 \o s3) \o (s4 \o s5) \o s6
  <2>1. Invalid(name) = E1
    <3>. DEFINE e == entries
                i == Position(c, name)
                w == INVALID_INODE_NR
    <3>1. Invalid(name) = [e EXCEPT ![c][i][2] = w]
      BY Zenon DEF Invalid
    <3>2. /\ Unled(e[c], i) = [e[c] EXCEPT ![i] = [e[c][i] EXCEPT ![2] = w]]
          /\ e = E /\ i = p
      BY <1>1, <1>2 DEF Unled
    <3>. HIDE DEF e, i, w
    <3>3. Invalid(name) = [e EXCEPT ![c] = Unled(e[c], i)]
      BY <3>1, <3>2, NestedExcept
    <3>. QED
      BY <3>2, <3>3 DEF E1
  <2>2. FreeContents(n, E1) = s2 \o s3
    BY <1>1, <1>6 DEF FreeContents
  <2>3. RemoveInode(n) = s4 \o s5
    BY <1>2 DEF RemoveInode, J1
  <2>4. SyncBoth(n, NoInode, inode[cur_dir]) = s6
    BY <1>2 DEF SyncBoth, BothSynced
  <2>. HIDE DEF s1, s2, s3, s4, s5, s6
  <2>. QED
    BY <2>1, <2>2, <2>3, <2>4 DEF Removal, s1
<1>14. /\ Safely(disk, s1, Dev(I, E1, F, u, b, m), z)
       /\ Safely(Dev(I, E1, F, u, b, m), s2, Dev(I, G, F, u, b, m), z)
       /\ Safely(Dev(I, G, F, u, b, m), s3, Dev(I, G, F, u, bk, mk), z)
       /\ Safely(Dev(I, G, F, u, bk, mk), s4, Dev(I, G, H, v, bk, mk), z)
       /\ Safely(Dev(I, G, H, v, bk, mk), s5, Dev(J1, G, H, v, bk, mk), z)
       /\ Safely(Dev(J1, G, H, v, bk, mk), s6, Dev(J, G, H, v, bk, mk), z)
  <2>. HIDE DEF z
  <2>1. Safely(disk, s1, Dev(I, E1, F, u, b, m), z)
    BY <1>2, <1>11, <1>12, SafelyPut
  <2>2. Safely(Dev(I, E1, F, u, b, m), s2, Dev(I, G, F, u, b, m), z)
    BY <1>11, <1>12, SafelyPut
  <2>3. Safely(Dev(I, G, F, u, b, m), s3, Dev(I, G, F, u, bk, mk), z)
    BY <1>1, <1>8, <1>11, BlocksSafely
  <2>. HIDE DEF H
  <2>4. Good(Readable(Dev(I, G, F, u, bk, mk)), z)
    BY <1>8, <1>10, <1>11
  <2>5. s4 = Put("inode_freemap", H) \o Put("used_inode_count", v)
    BY <1>2 DEF PutInode, H
  <2>. HIDE DEF bk, mk, v, s4
  <2>6. Safely(Dev(I, G, F, u, bk, mk), s4, Dev(I, G, H, v, bk, mk), z)
    <3>1. Good(Readable(Dev(I, G, H, u, bk, mk)), z) /\ Good(Readable(Dev(I, G, H, v, bk, mk)), z)
      BY <1>11 DEF bk, mk, v
    <3>. QED
      BY <2>4, <2>5, <3>1, SafelyPairs
  <2>7. /\ Good(Readable(Dev(I, G, H, v, bk, mk)), z) /\ Good(Readable(Dev(J1, G, H, v, bk, mk)), z)
        /\ Good(Readable(Dev(J, G, H, v, bk, mk)), z)
    BY <1>11 DEF bk, mk, v
  <2>8. /\ Safely(Dev(I, G, H, v, bk, mk), s5, Dev(J1, G, H, v, bk, mk), z)
        /\ Safely(Dev(J1, G, H, v, bk, mk), s6, Dev(J, G, H, v, bk, mk), z)
    BY <2>7, SafelyPut
  <2>. QED
    BY <2>1, <2>2, <2>3, <2>6, <2>8
<1>15. Safely(disk, s1 \o (s2 \o s3) \o (s4 \o s5) \o s6, Dev(J, G, H, v, bk, mk), z)
  <2>. HIDE DEF s1, s2, s3, s4, s5, s6, H, v, bk, mk, z
  <2>1. Safely(Dev(I, E1, F, u, b, m), s2 \o s3, Dev(I, G, F, u, bk, mk), z)
    BY <1>14, SafelyThen
  <2>2. Safely(Dev(I, G, F, u, bk, mk), s4 \o s5, Dev(J1, G, H, v, bk, mk), z)
    BY <1>14, SafelyThen
  <2>3. Safely(disk, s1 \o (s2 \o s3), Dev(I, G, F, u, bk, mk), z)
    BY <1>14, <2>1, SafelyThen
  <2>4. Safely(disk, s1 \o (s2 \o s3) \o (s4 \o s5), Dev(J1, G, H, v, bk, mk), z)
    BY <2>2, <2>3, SafelyThen
  <2>. QED
    BY <1>14, <2>4, SafelyThen
<1>16. Safely(disk, Removal(n, name), Dev(J, G, H, v, bk, mk), z)
  <2>. HIDE DEF s1, s2, s3, s4, s5, s6, H, v, bk, mk, z
  <2>. QED
    BY <1>13, <1>15
<1>. QED
  BY <1>5, <1>6, <1>11, <1>16 DEF Removals
-----------------------------------------------------------------------------
(* What a name in the current directory stands for.                        *)
LEMMA NamedIs ==
    ASSUME NEW I, NEW E, NEW F, NEW u, NEW b, NEW m, OnDisk(I, E, F, u, b, m),
           cur_dir \in Tree(E, I), NEW name, Found(cur_dir, name)
    PROVE  /\ Named(name) \in Using(E, Tree(E, I)) /\ Named(name) \in Inodes
           /\ cur_dir \in Dirs(I) /\ cur_dir \in Inodes
           /\ Named(name) \in Dirs(I) => Named(name) \in Tree(E, I)
<1>. DEFINE X == Tree(E, I)
            U == Using(E, X)
            c == cur_dir
            p == Position(c, name)
            n == Named(name)
<1>1. /\ entries = E /\ Shape(E, I, X) /\ Typed(I, E, F, u, b, m)
      /\ Books(I, F, u, b, m, U, crashes)
  BY TheDisk
<1>2. U \subseteq Inodes /\ X \subseteq Inodes /\ X \subseteq U /\ c \in X
  BY <1>1, UsingIs DEF Typed, Books
<1>3. p \in DOMAIN E[c] /\ Live(E[c][p]) /\ E[c][p][1] = name /\ E[c][p][2] = n
  BY <1>1, FoundIs
<1>4. Dotted(E, c, X) /\ OnceNamed(E, c)
  BY <1>1, <1>2 DEF Shape
<1>5. \A d \in X : d \in Dirs(I)
  BY <1>1, <1>2, TreeClosed, RootIs DEF Shape, Dirs
<1>6. n \in U
  <2>1. CASE name \notin Dots
    <3>1. n \in Kids(E, c)
      BY <1>3, <2>1 DEF Kids
    <3>. QED
      BY <1>2, <3>1 DEF Using
  <2>2. CASE name \in Dots
    <3>1. 1 \in DOMAIN E[c] /\ 2 \in DOMAIN E[c]
      <4>1. E[c] \in Seq(Names \X (Inodes \cup {INVALID_INODE_NR}))
        BY <1>1, <1>2 DEF Typed, Entries
      <4>2. Len(E[c]) >= 2
        BY <1>4 DEF Dotted
      <4>. QED
        BY <4>1, <4>2
    <3>2. E[c][1][1] = "." /\ E[c][1][2] = c /\ E[c][2][1] = ".." /\ E[c][2][2] \in X
      BY <1>4 DEF Dotted
    <3>3. Live(E[c][1]) /\ Live(E[c][2])
      BY <1>2, <3>2, RootIs DEF Live
    <3>4. p = 1 \/ p = 2
      BY <1>3, <1>4, <2>2, <3>1, <3>2, <3>3 DEF OnceNamed, Dots
    <3>. QED
      BY <1>2, <1>3, <3>2, <3>4
  <2>. QED
    BY <2>1, <2>2
<1>7. n \in Dirs(I) => n \in X
  BY <1>1, <1>6, UsingIs
<1>. QED
  BY <1>2, <1>5, <1>6, <1>7

(* A file that takes k blocks more.                                        *)
LEMMA Written ==
    ASSUME NEW I, NEW E, NEW F, NEW u, NEW b, NEW m, OnDisk(I, E, F, u, b, m),
           NEW X, X = Tree(E, I), NEW n \in Using(E, X), n \notin Dirs(I),
           NEW k \in Nat, m + k <= MaxFsBlocks, NEW x, x = [I[n] EXCEPT !.block_count = @ + k], NEW J, J = [I EXCEPT ![n] = x]
    PROVE  LET y == Dev(J, E, F, u, b + k, m + k)
           IN  /\ Safely(disk, AllocBlocks(k) \o Put("inode", J), y, crashes + 1) /\ Good(y, crashes)
               /\ Tree(E, J) = X /\ Using(E, X) = Using(E, Tree(E, J))
               /\ J \in [Inodes -> InodeType] /\ J[n] = x /\ x \in InodeType
               /\ \A e \in Inodes \ {n} : J[e] = I[e]
               /\ x.i_type = I[n].i_type /\ x.size = I[n].size
               /\ x.block_count = I[n].block_count + k
<1>. DEFINE U == Using(E, X)
            z == crashes + 1
            b1 == b + k
            m1 == m + k
<1>1. /\ Typed(I, E, F, u, b, m) /\ Shape(E, I, X) /\ Books(I, F, u, b, m, U, crashes)
      /\ crashes \in Nat /\ I \in [Inodes -> InodeType] /\ E \in Entries /\ F \in SUBSET Bits
      /\ u \in Int /\ b \in Int /\ m \in Int /\ Good(Dev(I, E, F, u, b, m), crashes)
      /\ disk = Dev(I, E, F, u, b, m)
  BY TheDisk DEF Typed, OnDisk
<1>2. U \subseteq F /\ X \subseteq U /\ n \in Inodes /\ U \in SUBSET Inodes /\ n \in F /\ Few(I, F, crashes)
  BY <1>1, UsingIs DEF Books
<1>3. I[n].block_count \in Nat /\ Total(Sizes(I), U) \in Nat /\ I[n].block_count <= Total(Sizes(I), U)
      /\ Cardinality(U) \in Nat /\ Cardinality(F) \in Nat
  BY <1>1, <1>2, SizesAre, SizesLess, BitsAre, TestfsAssumption DEF InodeType
<1>4. /\ Cardinality(U) <= u /\ Total(Sizes(I), U) <= m /\ Total(Sizes(I), U) <= b
      /\ m <= MaxFsBlocks /\ u - Cardinality(F) \in (-crashes) .. crashes
      /\ m - b \in (-crashes) .. crashes
  BY <1>1 DEF Books
<1>. HIDE DEF U, z
<1>5. /\ x \in InodeType /\ x.i_type = I[n].i_type /\ x.size = I[n].size
      /\ x.block_count = I[n].block_count + k
  <2>. DEFINE h == I[n].block_count + k
  <2>1. h \in 0 .. MaxFsBlocks
    BY <1>1, <1>3, <1>4, TestfsAssumption
  <2>2. I[n] \in InodeType
    BY <1>1, <1>2
  <2>3. x = [I[n] EXCEPT !.block_count = h]
    BY <2>2 DEF InodeType
  <2>. HIDE DEF h
  <2>4. x \in InodeType /\ x.i_type = I[n].i_type /\ x.size = I[n].size /\ x.block_count = h
    BY <2>1, <2>2, <2>3 DEF InodeType
  <2>. QED
    BY <2>4 DEF h
<1>6. J \in [Inodes -> InodeType] /\ J[n] = x /\ \A e \in Inodes \ {n} : J[e] = I[e]
  BY <1>1, <1>2, <1>5
<1>7. Total(Sizes(J), U) = Total(Sizes(I), U) + k
  <2>1. \A e \in U \ {n} : J[e].block_count = I[e].block_count
    BY <1>2, <1>6
  <2>2. n \in U
    BY DEF U
  <2>3. Total(Sizes(J), U) = Total(Sizes(I), U) + J[n].block_count - I[n].block_count
    BY ONLY <1>1, <1>2, <1>6, <2>1, <2>2, SizesChange
  <2>4. J[n].block_count = I[n].block_count + k
    BY <1>5, <1>6
  <2>. QED
    BY <1>3, <2>3, <2>4
<1>8. /\ \A i, j \in 0 .. k : i = j \/ i = j + 1 => Books(I, F, u, b + i, m + j, U, z)
      /\ Books(J, F, u, b1, m1, U, crashes)
  <2>. DEFINE t == Total(Sizes(I), U)
              f == Cardinality(F)
  <2>1. Few(I, F, z) /\ Few(J, F, crashes)
    <3>1. Left(J, F) \subseteq Left(I, F)
      BY <1>2, <1>6 DEF Left
    <3>2. crashes \in Int /\ crashes <= crashes /\ z \in Int /\ crashes <= z
      BY <1>1 DEF z
    <3>3. Few(J, F, crashes)
      BY ONLY <1>2, <3>1, <3>2, FewLess
    <3>4. Left(I, F) \subseteq Left(I, F)
      OBVIOUS
    <3>5. Few(I, F, z)
      BY ONLY <1>2, <3>2, <3>4, FewLess
    <3>. QED
      BY <3>3, <3>5
  <2>2. t \in Nat /\ t <= m /\ t <= b /\ f \in Nat /\ u - f \in (-crashes) .. crashes
    BY <1>3, <1>4
  <2>. HIDE DEF t, f
  <2>3. ASSUME NEW i \in 0 .. k, NEW j \in 0 .. k, i = j \/ i = j + 1
        PROVE  Books(I, F, u, b + i, m + j, U, z)
    <3>1. /\ u - f \in (-z) .. z /\ (m + j) - (b + i) \in (-z) .. z
          /\ t <= m + j /\ t <= b + i /\ m + j <= MaxFsBlocks
      BY <1>1, <1>4, <2>2, <2>3, TestfsAssumption DEF z
    <3>. QED
      BY <1>2, <1>4, <2>1, <3>1 DEF Books, t, f
  <2>4. Books(J, F, u, b1, m1, U, crashes)
    <3>1. m1 - b1 \in (-crashes) .. crashes /\ t + k <= m1 /\ t + k <= b1 /\ m1 <= MaxFsBlocks
      BY <1>1, <1>4, <2>2, TestfsAssumption
    <3>. HIDE DEF b1, m1
    <3>. QED
      BY <1>2, <1>4, <1>7, <2>1, <3>1 DEF Books, t
  <2>. QED
    BY <2>3, <2>4
<1>9. /\ \A i, j \in 0 .. k : Typed(I, E, F, u, b + i, m + j)
      /\ Typed(J, E, F, u, b1, m1)
  BY <1>1, <1>6 DEF Typed
<1>10. Agree(I, I, U) /\ Agree(I, J, U)
  <2>1. \A e \in Inodes : e \in Dirs(I) <=> e \in Dirs(J)
    <3>. TAKE e \in Inodes
    <3>1. CASE e = n
      BY <1>5, <1>6, <3>1 DEF Dirs
    <3>2. CASE e # n
      BY <1>6, <3>2 DEF Dirs
    <3>. QED
      BY <3>1, <3>2
  <2>. QED
    BY <1>2, <2>1 DEF Agree
<1>11. /\ \A e \in X : E[e] = E[e] /\ Readably(E, I, e)
       /\ \A e \in X : E[e] = E[e] /\ Readably(E, J, e)
  <2>1. \A e \in X : Readably(E, I, e) /\ e \in Inodes
    BY <1>1, <1>2 DEF Shape
  <2>2. ASSUME NEW e \in X
        PROVE  Readably(E, J, e)
    <3>1. J[e].size = I[e].size
      <4>1. CASE e = n
        BY <1>5, <1>6, <4>1
      <4>2. CASE e # n
        BY <1>6, <2>1, <4>2
      <4>. QED
        BY <4>1, <4>2
    <3>. QED
      BY <2>1, <3>1 DEF Readably
  <2>. QED
    BY <2>1, <2>2
<1>. HIDE DEF b1, m1
<1>12. /\ Good(Dev(J, E, F, u, b1, m1), crashes) /\ Tree(E, J) = X
  <2>1. Books(J, F, u, b1, m1, Using(E, X), crashes) /\ Agree(I, J, Using(E, X))
    BY <1>8, <1>10 DEF U
  <2>. QED
    BY ONLY X = Tree(E, I), <1>1, <1>9, <1>11, <2>1, KeepsSame
<1>13. ASSUME NEW i \in 0 .. k, NEW j \in 0 .. k, i = j \/ i = j + 1
       PROVE  Good(Readable(Dev(I, E, F, u, b + i, m + j)), z)
  <2>. DEFINE bi == b + i
              mj == m + j
  <2>1. Books(I, F, u, bi, mj, Using(E, X), z) /\ Agree(I, I, Using(E, X))
    BY <1>8, <1>10, <1>13 DEF U
  <2>2. Typed(I, E, F, u, bi, mj)
    BY <1>9
  <2>. HIDE DEF bi, mj
  <2>3. Good(Dev(I, E, F, u, bi, mj), z)
    BY ONLY X = Tree(E, I), <1>1, <1>11, <2>1, <2>2, KeepsSame
  <2>4. Good(Readable(Dev(I, E, F, u, bi, mj)), z)
    BY ONLY <2>3, KeepsAsIs
  <2>. QED
    BY <2>4 DEF bi, mj
<1>14. Good(Dev(J, E, F, u, b1, m1), z)
  BY <1>1, <1>12, GoodMore DEF z
<1>15. Good(Readable(Dev(I, E, F, u, b1, m1)), z) /\ Good(Readable(Dev(J, E, F, u, b1, m1)), z)
  <2>1. k \in 0 .. k
    OBVIOUS
  <2>. QED
    BY <1>13, <1>14, <2>1, KeepsAsIs DEF b1, m1
<1>16. Safely(disk, AllocBlocks(k), Dev(I, E, F, u, b1, m1), z)
  <2>1. Safely(Dev(I, E, F, u, b, m), AllocBlocks(k), Dev(I, E, F, u, b + k, m + k), z)
    BY <1>13, BlocksSafely
  <2>. QED
    BY <1>1, <2>1 DEF b1, m1
<1>17. Safely(Dev(I, E, F, u, b1, m1), Put("inode", J), Dev(J, E, F, u, b1, m1), z)
  BY <1>15, SafelyPut
<1>18. Safely(disk, AllocBlocks(k) \o Put("inode", J), Dev(J, E, F, u, b1, m1), z)
  BY <1>16, <1>17, SafelyThen
<1>. QED
  BY <1>5, <1>6, <1>12, <1>18 DEF b1, m1, z

-----------------------------------------------------------------------------
(* What the steps do with a sequence of writes.                            *)
LEMMA WritesIs ==
    ASSUME NEW s, NEW y, NEW k, Safely(disk, s, y, k), Writes(s)
    PROVE  /\ disk' = y
           /\ UNCHANGED <<i_count, cur_dir, listed, fate, crashes>>
<1>1. PICK S : Doing(disk, s, S, y)
  BY DEF Safely
<1>2. After(s) = y
  BY <1>1, AfterIs DEF Doing
<1>. QED
  BY <1>2 DEF Writes

LEMMA CrashIs ==
    ASSUME NEW s, NEW y, crashes \in Nat, Safely(disk, s, y, crashes + 1), Crash(s)
    PROVE  /\ \E d : Good(Readable(d), crashes + 1) /\ testfs_init_super_block(d)
           /\ crashes' = crashes + 1 /\ crashes < MaxCrashes /\ fate' = fate
           /\ listed' = [n \in Inodes |-> 0]
<1>1. PICK S : Doing(disk, s, S, y) /\ \A x \in S : Good(Readable(x), crashes + 1)
  BY DEF Safely
<1>2. PICK k \in 1 .. (Len(s) - 1) : testfs_init_super_block(After(SubSeq(s, 1, k)))
  BY DEF Crash
<1>3. After(SubSeq(s, 1, k)) \in Stages(disk, s)
  BY <1>1, <1>2, AfterIs DEF Doing
<1>4. Good(Readable(After(SubSeq(s, 1, k))), crashes + 1)
  BY <1>1, <1>3 DEF Doing
<1>. QED
  BY <1>2, <1>4 DEF Crash
-----------------------------------------------------------------------------
(* The two sums the module takes.                                          *)
Adding(g, w, S) == [s \in SUBSET S |->
                      IF s = {} THEN 0
                      ELSE LET x == CHOOSE x \in s : TRUE IN w[x] + g[s \ {x}]]

LEMMA AddingIs ==
    ASSUME NEW P, NEW S \in SUBSET P, IsFiniteSet(S), NEW w \in [P -> Nat]
    PROVE  (\E h : h = Adding(h, w, S)) /\ \A g : g = Adding(g, w, S) => g[S] = Total(w, S)
<1>. DEFINE v == [x \in S |-> w[x]]
            h == [s \in SUBSET S |-> Total(v, s)]
<1>1. v \in [S -> Nat] /\ \A x \in S : v[x] = w[x]
  OBVIOUS
<1>2. \A f : Adding(f, w, S) = Summing(f, v, S)
  <2>. SUFFICES ASSUME NEW f, NEW s \in SUBSET S
                PROVE  Adding(f, w, S)[s] = Summing(f, v, S)[s]
    BY DEF Adding, Summing
  <2>1. s # {} => (CHOOSE x \in s : TRUE) \in S
    OBVIOUS
  <2>. QED
    BY <2>1 DEF Adding, Summing
<1>3. h = Adding(h, w, S)
  <2>. HIDE DEF v, h
  <2>1. h = [s \in SUBSET S |-> Total(v, s)]
    BY DEF h
  <2>2. h = Summing(h, v, S)
    BY <1>1, <2>1, TotalSums
  <2>. QED
    BY <1>2, <2>2
<1>. HIDE DEF v, h
<1>4. ASSUME NEW g, g = Adding(g, w, S)
      PROVE  g[S] = Total(w, S)
  <2>1. g[S] = Total(v, S)
    BY <1>1, <1>2, <1>4, SumsTotal
  <2>2. Total(v, S) = Total(w, S)
    BY <1>1, TotalSame
  <2>. QED
    BY <2>1, <2>2
<1>. QED
  BY <1>3, <1>4

LEMMA ListedIs ==
    ASSUME listed \in [Inodes -> Nat]
    PROVE  MapThenSumSet(LAMBDA k : listed[k], Inodes) = Total(listed, Inodes)
<1>. DEFINE g == CHOOSE f : f = Adding(f, listed, Inodes)
<1>1. MapThenSumSet(LAMBDA k : listed[k], Inodes) = g[Inodes]
  BY Zenon DEF MapThenSumSet, MapThenFoldSet, Adding
<1>2. Inodes \in SUBSET Inodes /\ IsFiniteSet(Inodes)
  BY RootIs
<1>3. /\ \E h : h = Adding(h, listed, Inodes)
      /\ \A h : h = Adding(h, listed, Inodes) => h[Inodes] = Total(listed, Inodes)
  BY <1>2, AddingIs
<1>4. g = Adding(g, listed, Inodes)
  BY <1>3, Zenon
<1>. HIDE DEF g
<1>. QED
  BY <1>1, <1>3, <1>4

AddingBlocks(g, S) == [s \in SUBSET S |->
                         IF s = {} THEN 0
                         ELSE LET x == CHOOSE x \in s : TRUE
                              IN disk.inode[x].block_count + g[s \ {x}]]

LEMMA BlocksAre ==
    ASSUME disk.inode \in [Inodes -> InodeType], NEW S \in SUBSET Inodes
    PROVE  Blocks(S) = Total(Sizes(disk.inode), S)
<1>. DEFINE w == Sizes(disk.inode)
            g == CHOOSE f : f = AddingBlocks(f, S)
<1>1. w \in [Inodes -> Nat] /\ IsFiniteSet(S) /\ \A n \in Inodes : w[n] = disk.inode[n].block_count
  BY SizesAre
<1>. HIDE DEF w
<1>2. \A f : AddingBlocks(f, S) = Adding(f, w, S)
  <2>. SUFFICES ASSUME NEW f, NEW s \in SUBSET S
                PROVE  AddingBlocks(f, S)[s] = Adding(f, w, S)[s]
    BY DEF Adding, AddingBlocks
  <2>1. s # {} => (CHOOSE x \in s : TRUE) \in Inodes
    OBVIOUS
  <2>. QED
    BY <1>1, <2>1 DEF Adding, AddingBlocks
<1>3. /\ \E h : h = Adding(h, w, S)
      /\ \A h : h = Adding(h, w, S) => h[S] = Total(w, S)
  BY <1>1, AddingIs
<1>4. \E h : h = AddingBlocks(h, S)
  BY <1>2, <1>3
<1>5. g = AddingBlocks(g, S)
  BY <1>4, Zenon
<1>6. Blocks(S) = g[S]
  BY Zenon DEF Blocks, MapThenSumSet, MapThenFoldSet, AddingBlocks
<1>. HIDE DEF g
<1>7. g[S] = Total(w, S)
  BY <1>2, <1>3, <1>5
<1>. QED
  BY <1>6, <1>7 DEF w

(* A sum is no less than what it adds up, and zeros do not count.          *)
LEMMA OneOfTotal ==
    ASSUME NEW P, IsFiniteSet(P), NEW w \in [P -> Nat], NEW x \in P
    PROVE  w[x] <= Total(w, P) /\ Total(w, P) \in Nat
<1>1. P \in SUBSET P /\ P \ {x} \in SUBSET P /\ IsFiniteSet(P \ {x})
  BY FS_Subset
<1>2. Total(w, P) = w[x] + Total(w, P \ {x}) /\ Total(w, P \ {x}) \in Nat /\ w[x] \in Nat
      /\ Total(w, P) \in Nat
  BY <1>1, TotalAdd, TotalFinite
<1>. QED
  BY <1>2

LEMMA Unmarked ==
    ASSUME NEW I \in [Inodes -> InodeType], NEW F \in SUBSET Inodes,
           \A n \in Inodes \ F : I[n] = NoInode
    PROVE  Total(Sizes(I), Inodes) = Total(Sizes(I), F)
<1>1. \A n \in Inodes \ F : Sizes(I)[n] = 0
  BY SizesAre DEF NoInode
<1>2. Units(Sizes(I), Inodes) = Units(Sizes(I), F)
  BY <1>1 DEF Units
<1>. QED
  BY <1>2 DEF Total
-----------------------------------------------------------------------------
(* What the invariant says of the inodes a command works with.             *)
Told(n) ==
    /\ Inode(n) \in InodeType /\ Inode(n).i_type = disk.inode[n].i_type
    /\ Inode(n).block_count = disk.inode[n].block_count
    /\ Inode(n).size \in {disk.inode[n].size, Huge}
    /\ IsDir(n) <=> n \in Dirs(disk.inode)
    /\ n # cur_dir \/ ~dirty[n] => Inode(n) = disk.inode[n]
    /\ n # cur_dir => ~dirty[n]
    /\ ~Endless(n) => ~dirty[n]

Standing ==
    /\ OnDisk(disk.inode, entries, inode_freemap, used_inode_count, disk.block_freemap,
              used_block_count)
    /\ cur_dir \in Tree(entries, disk.inode) /\ cur_dir \in Inodes /\ cur_dir \in Dirs(disk.inode)
    /\ i_count[cur_dir] > 0 /\ Inode(cur_dir) = inode[cur_dir]
    /\ \A n \in Inodes : Told(n)
    /\ crashes \in 0 .. MaxCrashes /\ disk.inode \in [Inodes -> InodeType] /\ entries \in Entries
    /\ Shape(entries, disk.inode, Tree(entries, disk.inode))

LEMMA Stands ==
    ASSUME IInv
    PROVE  Standing
<1>1. Memory /\ Good(disk, crashes)
  BY DEF IInv
<1>2. disk \in Device /\ Shape(entries, disk.inode, Tree(entries, disk.inode))
  BY <1>1 DEF Good, entries
<1>3. crashes \in 0 .. MaxCrashes /\ crashes \in Nat
  BY <1>1, TestfsAssumption DEF Memory
<1>4. OnDisk(disk.inode, entries, inode_freemap, used_inode_count, disk.block_freemap,
             used_block_count)
  BY <1>1, <1>2, <1>3, DevIs DEF OnDisk, entries, inode_freemap, used_inode_count, used_block_count
<1>5. /\ cur_dir \in Tree(entries, disk.inode) /\ MemoryAgrees
      /\ inode \in [Inodes -> InodeType] /\ i_count \in [Inodes -> Nat]
      /\ dirty \in [Inodes -> BOOLEAN] /\ listed \in [Inodes -> 0 .. MaxListed]
  BY <1>1 DEF Memory
<1>6. disk.inode \in [Inodes -> InodeType] /\ entries \in Entries
  BY <1>4, TheDisk DEF Typed
<1>7. cur_dir \in Inodes /\ cur_dir \in Dirs(disk.inode)
  BY <1>2, <1>5, TreeClosed, RootIs DEF Shape, Dirs
<1>8. \A n \in Inodes : listed[n] \in Nat /\ i_count[n] \in Nat
  BY <1>5, TestfsAssumption
<1>9. /\ \A n \in Inodes : /\ i_count[n] = listed[n] + (IF n = cur_dir THEN 1 ELSE 0)
                           /\ dirty[n] => n = cur_dir /\ inode[n].size = Huge
                           /\ i_count[n] > 0 => inode[n] = IF dirty[n]
                                THEN [disk.inode[n] EXCEPT !.size = Huge] ELSE disk.inode[n]
  BY <1>5 DEF MemoryAgrees
<1>10. i_count[cur_dir] > 0
  <2>1. i_count[cur_dir] = listed[cur_dir] + (IF cur_dir = cur_dir THEN 1 ELSE 0)
    BY <1>7, <1>9
  <2>2. i_count[cur_dir] = listed[cur_dir] + 1 /\ listed[cur_dir] \in Nat
    BY <1>7, <1>8, <2>1
  <2>. QED
    BY ONLY <2>2
<1>11. ASSUME NEW n \in Inodes
       PROVE  Told(n)
  <2>. DEFINE r == disk.inode[n]
              t == [r EXCEPT !.size = Huge]
  <2>1. r \in InodeType
    BY <1>6
  <2>2. t \in InodeType /\ t.i_type = r.i_type /\ t.block_count = r.block_count /\ t.size = Huge
    BY <2>1 DEF InodeType
  <2>3. Inode(n) = IF i_count[n] > 0 THEN (IF dirty[n] THEN t ELSE r) ELSE r
    BY <1>9 DEF Inode
  <2>4. dirty[n] => n = cur_dir /\ i_count[n] > 0
    BY <1>9, <1>10
  <2>5. IsDir(n) <=> Inode(n).i_type = "I_DIR"
    BY DEF IsDir
  <2>6. Endless(n) <=> Inode(n).size = Huge
    BY DEF Endless
  <2>7. n \in Dirs(disk.inode) <=> r.i_type = "I_DIR"
    BY DEF Dirs
  <2>. HIDE DEF t
  <2>. QED
    BY <2>1, <2>2, <2>3, <2>4, <2>5, <2>6, <2>7 DEF Told
<1>12. Inode(cur_dir) = inode[cur_dir]
  BY <1>10 DEF Inode
<1>. QED
  BY <1>2, <1>3, <1>4, <1>5, <1>6, <1>7, <1>10, <1>11, <1>12 DEF Standing

(* Nothing but the memory changes, or nothing at all.                      *)
LEMMA Starts ==
    ASSUME NEW d, NEW k \in 0 .. MaxCrashes, Good(Readable(d), k), testfs_init_super_block(d),
           crashes' = k, fate' \in {"ok", "abort", "stale"},
           listed' \in [Inodes -> 0 .. MaxListed], \A n \in Inodes : listed'[n] = 0,
           d.inode \in [Inodes -> InodeType]
    PROVE  Memory' /\ Good(disk, crashes)'
<1>. DEFINE x == Readable(d)
<1>1. /\ disk' = x /\ i_count' = [n \in Inodes |-> IF n = Root THEN 1 ELSE 0]
      /\ inode' = [n \in Inodes |-> IF n = Root THEN d.inode[n] ELSE NoInode]
      /\ dirty' = [n \in Inodes |-> FALSE] /\ cur_dir' = Root
  BY DEF testfs_init_super_block
<1>2. x.inode = d.inode
  BY DEF Readable
<1>. HIDE DEF x
<1>3. Good(disk', crashes')
  BY <1>1 DEF x
<1>4. Root \in Tree(x.entries, x.inode)
  BY TreeClosed DEF Closed
<1>5. NoInode \in InodeType /\ Root \in Inodes
  BY TestfsAssumption, RootIs DEF NoInode, InodeType
<1>6. inode' \in [Inodes -> InodeType] /\ i_count' \in [Inodes -> Nat]
      /\ dirty' \in [Inodes -> BOOLEAN]
  BY <1>1, <1>5
<1>7. MemoryAgrees'
  BY <1>1, <1>2, <1>5 DEF MemoryAgrees
<1>8. cur_dir' \in Tree(entries', disk.inode')
  BY <1>1, <1>4 DEF entries
<1>. QED
  BY <1>1, <1>3, <1>6, <1>7, <1>8 DEF Memory
-----------------------------------------------------------------------------
(* What no crash has made false.                                           *)
Filled(E, I, e) ==
    /\ EntriesPerBlock * I[e].block_count - EntriesPerBlock < Len(E[e])
    /\ Len(E[e]) <= EntriesPerBlock * I[e].block_count
Precise(I, E, F, m, X) ==
    /\ F = Using(E, X) /\ Dirs(I) = X /\ m = Total(Sizes(I), F)
    /\ \A e \in Inodes \ F : I[e] = NoInode
    /\ \A e \in F : I[e].i_type # "I_NONE"
    /\ \A e \in X : Filled(E, I, e)

LEMMA ExactIs ==
    ASSUME NEW I, NEW E, NEW F, NEW u, NEW b, NEW m, NEW X
    PROVE  Exact(Dev(I, E, F, u, b, m), X) <=> Precise(I, E, F, m, X)
BY DevIs DEF Exact, Precise, Filled

Makes(I, E, J, G, n, p, own, more, type) ==
    /\ J \in [Inodes -> InodeType] /\ J[n] = Child(type, own)
    /\ J[cur_dir].i_type = "I_DIR" /\ J[cur_dir].block_count = I[cur_dir].block_count + more
    /\ \A e \in Inodes \ {cur_dir, n} : J[e] = I[e] /\ G[e] = E[e]
    /\ Len(G[cur_dir]) = Larger(p, Len(E[cur_dir])) /\ G[n] = OwnOnly(n, own)
    /\ more = IF p > EntriesPerBlock * I[cur_dir].block_count THEN 1 ELSE 0
    /\ own = IF type = "I_DIR" THEN 1 ELSE 0
    /\ type \in {"I_FILE", "I_DIR"}

LEMMA PreciseMore ==
    ASSUME NEW I, NEW E, NEW F, NEW u, NEW b, NEW m, NEW n, NEW name, NEW p,
           Creating(I, E, F, u, b, m, n, name, p), NEW X, X = Tree(E, I), Precise(I, E, F, m, X),
           NEW J, NEW G, NEW own, NEW more, NEW type, Makes(I, E, J, G, n, p, own, more, type),
           p \in 1 .. (Len(E[cur_dir]) + 1), NEW Y, Y = NewTree(I, E, n, J),
           NEW H, H = F \cup {n}, Using(G, Y) = H
    PROVE  Precise(J, G, H, m + (own + more), Y)
<1>. DEFINE c == cur_dir
<1>1. /\ OnDisk(I, E, F, u, b, m) /\ c \in X /\ n \in Inodes \ F
  BY DEF Creating
<1>2. /\ I \in [Inodes -> InodeType] /\ E \in Entries /\ F \in SUBSET Inodes /\ m \in Int
      /\ Shape(E, I, X) /\ n \in Inodes
  BY <1>1, TheDisk DEF Typed, Books, Precise, Creating
<1>3. /\ F = Using(E, X) /\ Dirs(I) = X /\ m = Total(Sizes(I), F)
      /\ \A e \in Inodes \ F : I[e] = NoInode
      /\ \A e \in F : I[e].i_type # "I_NONE"
      /\ \A e \in X : Filled(E, I, e)
  BY DEF Precise
<1>4. X \subseteq F /\ X \subseteq Inodes /\ n # c /\ n \notin X /\ c \in F /\ c \in Inodes
  BY <1>1, <1>2, <1>3, UsingIs
<1>5. /\ J \in [Inodes -> InodeType] /\ J[n] = Child(type, own)
      /\ J[c].i_type = "I_DIR" /\ J[c].block_count = I[c].block_count + more
      /\ \A e \in Inodes \ {c, n} : J[e] = I[e] /\ G[e] = E[e]
      /\ Len(G[c]) = Larger(p, Len(E[c])) /\ G[n] = OwnOnly(n, own)
      /\ more = IF p > EntriesPerBlock * I[c].block_count THEN 1 ELSE 0
      /\ own = IF type = "I_DIR" THEN 1 ELSE 0
      /\ type \in {"I_FILE", "I_DIR"}
  BY DEF Makes
<1>6. J[n].i_type = type /\ J[n].block_count = own
  BY <1>5 DEF Child
<1>7. Y = IF type = "I_DIR" THEN X \cup {n} ELSE X
  BY <1>6 DEF NewTree
<1>8. Dirs(J) = Y
  <2>1. \A e \in Inodes : e \in Dirs(J) <=> e \in Y
    <3>. TAKE e \in Inodes
    <3>1. CASE e = n
      BY <1>4, <1>5, <1>6, <1>7, <3>1 DEF Dirs
    <3>2. CASE e = c
      BY <1>1, <1>4, <1>5, <1>7, <3>2 DEF Dirs
    <3>3. CASE e # n /\ e # c
      BY <1>3, <1>5, <1>7, <3>3 DEF Dirs
    <3>. QED
      BY <3>1, <3>2, <3>3
  <2>2. Y \subseteq Inodes /\ Dirs(J) \subseteq Inodes
    BY <1>1, <1>4, <1>7 DEF Dirs
  <2>. QED
    BY <2>1, <2>2
<1>9. m + (own + more) = Total(Sizes(J), H)
  <2>1. Total(Sizes(J), H) = Total(Sizes(J), F) + J[n].block_count
    <3>1. n \in Inodes /\ n \notin F /\ F \in SUBSET Inodes /\ J \in [Inodes -> InodeType]
      BY <1>1, <1>2, <1>5
    <3>2. Total(Sizes(J), F \cup {n}) = Total(Sizes(J), F) + J[n].block_count
      BY ONLY <3>1, SizesMore
    <3>. QED
      BY <3>2
  <2>2. \A e \in F \ {c} : J[e].block_count = I[e].block_count
    BY <1>1, <1>2, <1>5
  <2>3. Total(Sizes(J), F) = Total(Sizes(I), F) + J[c].block_count - I[c].block_count
    BY <1>2, <1>4, <1>5, <2>2, SizesChange
  <2>4. I[c].block_count \in Nat /\ J[c].block_count = I[c].block_count + more
        /\ more \in {0, 1} /\ own \in {0, 1}
    BY <1>2, <1>4, <1>5, TestfsAssumption DEF InodeType
  <2>. QED
    BY ONLY <1>2, <1>3, <1>6, <2>1, <2>3, <2>4
<1>10. \A e \in Inodes \ H : J[e] = NoInode
  BY <1>3, <1>4, <1>5
<1>11. \A e \in H : J[e].i_type # "I_NONE"
  <2>. TAKE e \in H
  <2>1. CASE e = n
    BY <1>5, <1>6, <2>1
  <2>2. CASE e = c
    BY <1>5, <2>2
  <2>3. CASE e # n /\ e # c
    BY <1>2, <1>3, <1>5, <2>3
  <2>. QED
    BY <2>1, <2>2, <2>3
<1>12. ASSUME NEW e \in Y
       PROVE  Filled(G, J, e)
  <2>0. EntriesPerBlock \in Nat /\ EntriesPerBlock >= 2
    BY TestfsAssumption
  <2>1. CASE e = n
    <3>1. type = "I_DIR" /\ own = 1
      BY <1>4, <1>5, <1>7, <2>1
    <3>2. Len(G[n]) = 2
      BY <1>5, <3>1 DEF OwnOnly, OwnEntries
    <3>3. J[n].block_count = 1
      BY <1>6, <3>1
    <3>. QED
      BY <2>0, <2>1, <3>2, <3>3 DEF Filled
  <2>2. CASE e = c
    <3>. DEFINE k == I[c].block_count
                l == Len(E[c])
                B == EntriesPerBlock
                q == B * k
    <3>1. Filled(E, I, c)
      BY <1>1, <1>3
    <3>2. k \in Nat /\ l \in Nat /\ B \in Nat /\ B >= 2
      BY <1>2, <1>4, <2>0, TestfsAssumption DEF InodeType, Entries
    <3>3. q \in Nat /\ B * (k + 1) = q + B
      BY <3>2
    <3>4. q - B < l /\ l <= q
      BY <3>1 DEF Filled
    <3>5. p \in 1 .. (l + 1) /\ Len(G[c]) = IF p >= l THEN p ELSE l
      BY <1>5 DEF Larger
    <3>6. J[c].block_count = IF p > q THEN k + 1 ELSE k
      <4>1. J[c].block_count = k + (IF p > q THEN 1 ELSE 0)
        BY <1>5
      <4>. HIDE DEF k, q
      <4>2. k \in Nat
        BY <3>2
      <4>. QED
        BY <4>1, <4>2
    <3>7. B * J[c].block_count = IF p > q THEN q + B ELSE q
      BY <3>3, <3>6
    <3>. DEFINE x == B * J[c].block_count
                z == Len(G[c])
    <3>8. x = (IF p > q THEN q + B ELSE q) /\ z = IF p >= l THEN p ELSE l
      BY <3>5, <3>7
    <3>9. Filled(G, J, c) <=> x - B < z /\ z <= x
      BY DEF Filled
    <3>. HIDE DEF k, l, B, q, x, z
    <3>10. x - B < z /\ z <= x
      BY ONLY <3>2, <3>3, <3>4, <3>5, <3>8
    <3>. QED
      BY <2>2, <3>9, <3>10
  <2>3. CASE e # n /\ e # c
    <3>1. e \in X /\ e \in Inodes
      BY <1>4, <1>7, <2>3
    <3>. QED
      BY <1>3, <1>5, <2>3, <3>1 DEF Filled
  <2>. QED
    BY <2>1, <2>2, <2>3
<1>. QED
  BY <1>8, <1>9, <1>10, <1>11, <1>12 DEF Precise

(* An inode less.                                                          *)
Unmakes(I, E, J, G, n, p) ==
    /\ J \in [Inodes -> InodeType] /\ J[n] = NoInode /\ G[cur_dir] = Unled(E[cur_dir], p)
    /\ J[cur_dir].i_type = I[cur_dir].i_type /\ J[cur_dir].block_count = I[cur_dir].block_count
    /\ \A e \in Inodes \ {cur_dir, n} : J[e] = I[e] /\ G[e] = E[e]

LEMMA PreciseLess ==
    ASSUME NEW I, NEW E, NEW F, NEW u, NEW b, NEW m, NEW n, NEW name, NEW p,
           Removing(I, E, F, u, b, m, n, name, p), NEW X, X = Tree(E, I), Precise(I, E, F, m, X),
           NEW J, NEW G, Unmakes(I, E, J, G, n, p),
           NEW Y, Y = X \ {n}, NEW H, H = F \ {n}, Using(G, Y) = H
    PROVE  Precise(J, G, H, m - I[n].block_count, Y)
<1>. DEFINE c == cur_dir
<1>1. /\ OnDisk(I, E, F, u, b, m) /\ c \in X
  BY DEF Removing
<1>2. /\ I \in [Inodes -> InodeType] /\ E \in Entries /\ F \in SUBSET Inodes /\ m \in Int
      /\ Shape(E, I, X) /\ X \subseteq Inodes
  BY <1>1, TheDisk, TreeClosed DEF Typed, Books, Precise
<1>3. /\ F = Using(E, X) /\ Dirs(I) = X /\ m = Total(Sizes(I), F)
      /\ \A e \in Inodes \ F : I[e] = NoInode
      /\ \A e \in F : I[e].i_type # "I_NONE"
      /\ \A e \in X : Filled(E, I, e)
  BY DEF Precise
<1>4. n # c /\ n \in F /\ n \in Inodes /\ c \in Inodes /\ p \in DOMAIN E[c] /\ X \subseteq F
  BY <1>2, <1>3, RemovingIs, UsingIs
<1>5. /\ J \in [Inodes -> InodeType] /\ J[n] = NoInode /\ G[c] = Unled(E[c], p)
      /\ J[c].i_type = I[c].i_type /\ J[c].block_count = I[c].block_count
      /\ \A e \in Inodes \ {c, n} : J[e] = I[e] /\ G[e] = E[e]
  BY DEF Unmakes
<1>6. \A e \in Inodes \ {n} : /\ J[e].i_type = I[e].i_type /\ J[e].block_count = I[e].block_count
                              /\ Len(G[e]) = Len(E[e])
  <2>. TAKE e \in Inodes \ {n}
  <2>1. CASE e = c
    <3>1. E[c] \in Seq(Names \X (Inodes \cup {INVALID_INODE_NR}))
      BY <1>2, <1>4 DEF Entries
    <3>. DEFINE s == E[c]
                x == [s[p] EXCEPT ![2] = INVALID_INODE_NR]
    <3>2. Unled(s, p) = [s EXCEPT ![p] = x]
      BY DEF Unled
    <3>3. Len([s EXCEPT ![p] = x]) = Len(s)
      <4>. HIDE DEF x
      <4>. QED
        BY <1>4, <3>1
    <3>. QED
      BY <1>5, <2>1, <3>2, <3>3
  <2>2. CASE e # c
    BY <1>5, <2>2
  <2>. QED
    BY <2>1, <2>2
<1>7. Dirs(J) = Y
  <2>1. \A e \in Inodes : e \in Dirs(J) <=> e \in Y
    <3>. TAKE e \in Inodes
    <3>1. CASE e = n
      BY <1>5, <3>1 DEF Dirs, NoInode
    <3>2. CASE e # n
      BY <1>3, <1>6, <3>2 DEF Dirs
    <3>. QED
      BY <3>1, <3>2
  <2>2. Y \subseteq Inodes /\ Dirs(J) \subseteq Inodes
    BY <1>2 DEF Dirs
  <2>. QED
    BY <2>1, <2>2
<1>8. m - I[n].block_count = Total(Sizes(J), H)
  <2>1. Total(Sizes(I), F) = Total(Sizes(I), H) + I[n].block_count
    BY <1>2, <1>4, SizesLess
  <2>2. H \in SUBSET Inodes /\ \A e \in H : J[e].block_count = I[e].block_count
    BY <1>2, <1>6
  <2>3. Total(Sizes(J), H) = Total(Sizes(I), H)
    BY <2>2, SizesSame
  <2>4. Total(Sizes(I), H) \in Nat /\ I[n].block_count \in Nat
    BY <1>2, <1>4, <2>2, SizesAre, TestfsAssumption DEF InodeType
  <2>. QED
    BY ONLY <1>3, <2>1, <2>3, <2>4
<1>9. \A e \in Inodes \ H : J[e] = NoInode
  BY <1>1, <1>3, <1>4, <1>5
<1>10. \A e \in H : J[e].i_type # "I_NONE"
  BY <1>2, <1>3, <1>6
<1>11. \A e \in Y : Filled(G, J, e)
  BY <1>2, <1>3, <1>6 DEF Filled
<1>. QED
  BY <1>7, <1>8, <1>9, <1>10, <1>11 DEF Precise

(* Blocks more, in a file.                                                 *)
LEMMA PreciseWritten ==
    ASSUME NEW I, NEW E, NEW F, NEW u, NEW b, NEW m, Typed(I, E, F, u, b, m),
           NEW X, X \subseteq Inodes, Precise(I, E, F, m, X), F \subseteq Inodes, NEW k \in Nat,
           NEW n \in F, n \notin X, NEW J \in [Inodes -> InodeType],
           \A e \in Inodes \ {n} : J[e] = I[e],
           J[n].i_type = I[n].i_type, J[n].block_count = I[n].block_count + k
    PROVE  Precise(J, E, F, m + k, X)
<1>1. /\ I \in [Inodes -> InodeType] /\ F \in SUBSET Inodes /\ m \in Int
  BY DEF Typed
<1>2. /\ F = Using(E, X) /\ Dirs(I) = X /\ m = Total(Sizes(I), F)
      /\ \A e \in Inodes \ F : I[e] = NoInode
      /\ \A e \in F : I[e].i_type # "I_NONE"
      /\ \A e \in X : Filled(E, I, e)
  BY DEF Precise
<1>3. \A e \in Inodes : J[e].i_type = I[e].i_type /\ (e # n => J[e] = I[e])
  OBVIOUS
<1>4. Dirs(J) = X
  BY <1>2, <1>3 DEF Dirs
<1>5. m + k = Total(Sizes(J), F)
  <2>1. \A e \in F \ {n} : J[e].block_count = I[e].block_count
    BY <1>1
  <2>2. Total(Sizes(J), F) = Total(Sizes(I), F) + J[n].block_count - I[n].block_count
    BY <1>1, <2>1, SizesChange
  <2>3. I[n].block_count \in Nat
    BY <1>1, TestfsAssumption DEF InodeType
  <2>. QED
    BY <1>1, <1>2, <2>2, <2>3
<1>6. \A e \in Inodes \ F : J[e] = NoInode
  BY <1>2, <1>3
<1>7. \A e \in F : J[e].i_type # "I_NONE"
  BY <1>1, <1>2, <1>3
<1>8. \A e \in X : Filled(E, J, e)
  <2>. TAKE e \in X
  <2>1. J[e] = I[e] /\ Filled(E, I, e)
    BY <1>2
  <2>. QED
    BY <2>1 DEF Filled
<1>. QED
  BY <1>2, <1>4, <1>5, <1>6, <1>7, <1>8 DEF Precise

(* The same device, read again.                                            *)
LEMMA PreciseAgain ==
    ASSUME NEW I, NEW E, NEW F, NEW m, NEW X, Precise(I, E, F, m, X), NEW G,
           \A e \in X : G[e] = E[e], Using(G, X) = Using(E, X)
    PROVE  Precise(I, G, F, m, X)
BY DEF Precise, Filled
-----------------------------------------------------------------------------
(* The steps.                                                              *)
Agrees(n) ==
    /\ i_count[n] = listed[n] + (IF n = cur_dir THEN 1 ELSE 0)
    /\ dirty[n] => n = cur_dir /\ inode[n].size = Huge
    /\ i_count[n] > 0 =>
          inode[n] = IF dirty[n] THEN [disk.inode[n] EXCEPT !.size = Huge] ELSE disk.inode[n]

LEMMA MemoryIs ==
    Memory <=>
    /\ inode \in [Inodes -> InodeType] /\ i_count \in [Inodes -> Nat]
    /\ dirty \in [Inodes -> BOOLEAN] /\ listed \in [Inodes -> 0 .. MaxListed]
    /\ fate \in {"ok", "abort", "stale"} /\ crashes \in 0 .. MaxCrashes
    /\ cur_dir \in Tree(entries, disk.inode) /\ \A n \in Inodes : Agrees(n)
BY DEF Memory, MemoryAgrees, Agrees

LEMMA SameDisk ==
    ASSUME IInv, UNCHANGED <<disk, crashes>>, Memory'
    PROVE  IInv'
BY DEF IInv, entries

LEMMA Stopping ==
    ASSUME IInv, NEW how \in {"abort", "stale"}, Stop(how)
    PROVE  IInv'
<1>1. /\ UNCHANGED <<disk, crashes>> /\ UNCHANGED <<inode, i_count, dirty, cur_dir, listed>>
      /\ fate' \in {"ok", "abort", "stale"}
  BY DEF Stop, memory
<1>2. Memory'
  BY <1>1 DEF IInv, Memory, MemoryAgrees, entries
<1>. QED
  BY <1>1, <1>2, SameDisk

LEMMA Crashing ==
    ASSUME IInv, NEW s, NEW y, Safely(disk, s, y, crashes + 1), Crash(s)
    PROVE  IInv'
<1>1. crashes \in 0 .. MaxCrashes /\ crashes \in Nat /\ MaxListed \in Nat /\ MaxCrashes \in Nat
      /\ fate \in {"ok", "abort", "stale"}
  BY TestfsAssumption DEF IInv, Memory
<1>2. /\ \E d : Good(Readable(d), crashes + 1) /\ testfs_init_super_block(d)
      /\ crashes' = crashes + 1 /\ crashes < MaxCrashes /\ fate' = fate
      /\ listed' = [n \in Inodes |-> 0]
  BY <1>1, CrashIs
<1>3. PICK d : Good(Readable(d), crashes + 1) /\ testfs_init_super_block(d)
  BY <1>2
<1>. DEFINE k == crashes + 1
<1>4. k \in 0 .. MaxCrashes /\ k > 0
  BY <1>1, <1>2
<1>5. d.inode \in [Inodes -> InodeType]
  <2>1. Readable(d).inode \in [Inodes -> InodeType]
    BY <1>3 DEF Good, Device
  <2>2. Readable(d).inode = d.inode
    BY DEF Readable
  <2>. QED
    BY <2>1, <2>2
<1>6. Good(Readable(d), k) /\ crashes' = k
  BY <1>2, <1>3
<1>7. /\ listed' \in [Inodes -> 0 .. MaxListed] /\ \A n \in Inodes : listed'[n] = 0
      /\ fate' \in {"ok", "abort", "stale"}
  BY <1>1, <1>2
<1>. HIDE DEF k
<1>8. Memory' /\ Good(disk, crashes)'
  BY ONLY <1>3, <1>4, <1>5, <1>6, <1>7, Starts
<1>9. crashes' # 0
  BY <1>4, <1>6
<1>. QED
  BY <1>8, <1>9 DEF IInv

(* What testfs_sync_inode leaves in memory.                                *)
LEMMA Synced ==
    ASSUME IInv, NEW n \in Inodes, n # cur_dir, NEW child \in InodeType, NEW parent \in InodeType,
           InMemory(n, child, parent), UNCHANGED <<i_count, cur_dir, listed, fate, crashes>>,
           disk'.inode[n] = child, disk'.inode[cur_dir] = parent,
           \A e \in Inodes \ {cur_dir, n} : disk'.inode[e] = disk.inode[e],
           cur_dir \in Tree(disk'.entries, disk'.inode)
    PROVE  Memory'
<1>1. Standing
  BY Stands
<1>2. cur_dir \in Inodes
  BY <1>1 DEF Standing
<1>3. /\ inode \in [Inodes -> InodeType] /\ i_count \in [Inodes -> Nat]
      /\ dirty \in [Inodes -> BOOLEAN] /\ listed \in [Inodes -> 0 .. MaxListed]
      /\ fate \in {"ok", "abort", "stale"} /\ crashes \in 0 .. MaxCrashes
      /\ \A e \in Inodes : Agrees(e)
  BY MemoryIs DEF IInv
<1>4. NoInode \in InodeType
  BY TestfsAssumption DEF NoInode, InodeType
<1>. DEFINE x == IF i_count[n] > 0 THEN child ELSE NoInode
<1>5. /\ inode' = [inode EXCEPT ![n] = x, ![cur_dir] = parent]
      /\ dirty' = [dirty EXCEPT ![cur_dir] = FALSE] /\ x \in InodeType
  BY <1>4 DEF InMemory
<1>6. i_count[n] > 0 => x = child
  OBVIOUS
<1>. HIDE DEF x
<1>7. /\ inode' \in [Inodes -> InodeType] /\ dirty' \in [Inodes -> BOOLEAN]
      /\ inode'[n] = x /\ inode'[cur_dir] = parent /\ ~dirty'[cur_dir]
      /\ \A e \in Inodes \ {cur_dir, n} : inode'[e] = inode[e]
      /\ \A e \in Inodes \ {cur_dir} : dirty'[e] = dirty[e]
  BY <1>2, <1>3, <1>5
<1>8. ASSUME NEW e \in Inodes
      PROVE  Agrees(e)'
  <2>1. Agrees(e)
    BY <1>3
  <2>2. i_count'[e] = listed'[e] + (IF e = cur_dir' THEN 1 ELSE 0)
    BY <2>1 DEF Agrees
  <2>3. ~dirty'[e]
    BY <1>7, <2>1 DEF Agrees
  <2>4. i_count'[e] > 0 => inode'[e] = disk'.inode[e]
    <3>1. CASE e = n
      BY <1>6, <1>7, <3>1
    <3>2. CASE e = cur_dir
      BY <1>7, <3>2
    <3>3. CASE e # n /\ e # cur_dir
      BY <1>7, <2>1, <3>3 DEF Agrees
    <3>. QED
      BY <3>1, <3>2, <3>3
  <2>. QED
    BY <2>2, <2>3, <2>4 DEF Agrees
<1>9. cur_dir' \in Tree(entries', disk'.inode)
  BY DEF entries
<1>10. /\ i_count' \in [Inodes -> Nat] /\ listed' \in [Inodes -> 0 .. MaxListed]
       /\ fate' \in {"ok", "abort", "stale"} /\ crashes' \in 0 .. MaxCrashes
  BY <1>3
<1>11. MemoryAgrees'
  BY <1>8, Zenon DEF MemoryAgrees, Agrees
<1>. QED
  BY <1>7, <1>9, <1>10, <1>11 DEF Memory
LEMMA FreeInode ==
    ASSUME inode_freemap # Bits, inode_freemap \in SUBSET Bits
    PROVE  Min(Bits \ inode_freemap) \in Bits \ inode_freemap
<1>1. Bits \ inode_freemap \in SUBSET Nat
  BY TestfsAssumption DEF Bits
<1>2. Bits \ inode_freemap # {}
  OBVIOUS
<1>. QED
  BY ONLY <1>1, <1>2, LeastOf

(* The steps of testfs_create_file_or_dir start from Creating.             *)
LEMMA CreatingIs ==
    ASSUME IInv, NEW name \in Names, ~Found(cur_dir, name), ~Endless(cur_dir),
           NEW n \in Inodes \ inode_freemap, Inode(n) = NoInode
    PROVE  /\ Creating(disk.inode, entries, inode_freemap, used_inode_count, disk.block_freemap,
                       used_block_count, n, name, Place(cur_dir, name))
           /\ Inode(cur_dir) = disk.inode[cur_dir] /\ n # cur_dir /\ ~dirty[cur_dir]
           /\ Place(cur_dir, name) \in 1 .. (Len(entries[cur_dir]) + 1)
<1>. DEFINE I == disk.inode
            E == entries
            F == inode_freemap
            u == used_inode_count
            b == disk.block_freemap
            m == used_block_count
            c == cur_dir
            p == Place(c, name)
            X == Tree(E, I)
<1>1. Standing
  BY Stands
<1>2. OnDisk(I, E, F, u, b, m) /\ c \in X /\ c \in Inodes /\ Told(c) /\ Told(n) /\ E \in Entries
      /\ Shape(E, I, X)
  BY <1>1 DEF Standing
<1>3. Using(E, X) \subseteq F
  BY <1>2, TheDisk DEF Books
<1>4. n # c
  BY <1>2, <1>3, UsingIs
<1>5. Inode(n) = I[n] /\ ~dirty[c] /\ Inode(c) = I[c]
  BY <1>2, <1>4 DEF Told
<1>6. I[c].size # Huge
  BY <1>5 DEF Endless
<1>7. p \in 1 .. (Len(E[c]) + 1)
  BY <1>2, PlaceIs
<1>. QED
  BY <1>2, <1>4, <1>5, <1>6, <1>7 DEF Creating

LEMMA CreateSteps ==
    ASSUME IInv, NEW name \in Names, NEW type \in {"I_FILE", "I_DIR"},
           ~Found(cur_dir, name), ~Endless(cur_dir),
           NEW n \in Inodes \ inode_freemap, Inode(n) = NoInode, Create(n, type, name)
    PROVE  IInv'
<1>. DEFINE I == disk.inode
            E == entries
            F == inode_freemap
            u == used_inode_count
            b == disk.block_freemap
            m == used_block_count
            c == cur_dir
            p == Place(c, name)
            X == Tree(E, I)
            own == IF type = "I_DIR" THEN 1 ELSE 0
            more == BlocksFor(c, p)
            parent == Parent(I[c], p, more)
            child == Child(type, own)
            J == BothSynced(I, n, child, parent)
            G == With(E, n, OwnOnly(n, own), p, name)
            w == CreateWrites(n, own, more, p, name, type, parent)
<1>1. /\ Creating(I, E, F, u, b, m, n, name, p) /\ Inode(c) = I[c] /\ n # c /\ ~dirty[c]
      /\ p \in 1 .. (Len(E[c]) + 1)
  BY CreatingIs
<1>2. Standing /\ OnDisk(I, E, F, u, b, m) /\ c \in X /\ c \in Inodes /\ n \in Inodes
      /\ crashes \in 0 .. MaxCrashes
  BY Stands DEF Standing
<1>3. /\ Room(own + more)
      /\ \/ Writes(w) /\ InMemory(n, child, parent)
         \/ Crash(w)
  <2>1. LET q == Place(cur_dir, name)
            o == IF type = "I_DIR" THEN 1 ELSE 0
            mo == BlocksFor(cur_dir, q)
            ch == Child(type, o)
            pa == Parent(Inode(cur_dir), q, mo)
            ws == CreateWrites(n, o, mo, q, name, type, pa)
        IN  /\ Room(o + mo)
            /\ \/ Writes(ws) /\ InMemory(n, ch, pa)
               \/ Crash(ws)
    BY Zenon DEF Create, CreateWrites, With, OwnOnly, SyncDir, SyncBoth, OneSynced, BothSynced, Child,
                 Parent, entries
  <2>. QED
    BY <1>1, <2>1
<1>4. own \in {0, 1} /\ more \in {0, 1} /\ (own = 1 <=> type = "I_DIR")
      /\ m + (own + more) <= MaxFsBlocks /\ type \in {"I_FILE", "I_DIR"}
  BY <1>3 DEF BlocksFor, Room
<1>5. more = IF p > EntriesPerBlock * I[c].block_count THEN 1 ELSE 0
  BY <1>1 DEF BlocksFor
<1>. HIDE DEF more, own, p, parent, child, J, G, w
<1>6. parent = Parent(I[c], p, more) /\ J = BothSynced(I, n, Child(type, own), parent)
      /\ G = With(E, n, OwnOnly(n, own), p, name)
  BY DEF parent, J, G, child
<1>. DEFINE y == Dev(J, G, F \cup {n}, u + 1, b + (own + more), m + (own + more))
<1>7. /\ Safely(disk, w, y, crashes + 1)
      /\ Good(y, crashes) /\ Tree(G, J) = NewTree(I, E, n, J)
      /\ Using(G, Tree(G, J)) = Using(E, Tree(E, I)) \cup {n}
      /\ J \in [Inodes -> InodeType] /\ parent \in InodeType /\ J[n] = child
      /\ J[c] = parent /\ \A e \in Inodes \ {c, n} : J[e] = I[e]
  <2>1. Creates(I, E, F, u, b, m, n, name, p, own, more, type, parent, J, G)
    BY <1>1, <1>4, <1>6 DEF Creates
  <2>2. y = Dev(J, G, F \cup {n}, u + 1, b + (own + more), m + (own + more))
    OBVIOUS
  <2>. HIDE DEF y
  <2>3. Makings(I, E, n, name, p, own, more, type, parent, J, G, y)
    BY ONLY <2>1, <2>2, Created
  <2>. QED
    BY <2>3 DEF w, child, Makings
<1>8. CASE Crash(w)
  BY <1>7, <1>8, Crashing
<1>9. CASE Writes(w) /\ InMemory(n, child, parent)
  <2>1. disk' = y /\ UNCHANGED <<i_count, cur_dir, listed, fate, crashes>>
    BY <1>7, <1>9, WritesIs
  <2>2. disk'.inode = J /\ disk'.entries = G /\ entries' = G
    BY <2>1, DevIs DEF entries
  <2>3. X \subseteq Tree(G, J)
    BY <1>7 DEF NewTree
  <2>4. child \in InodeType
    BY <1>2, <1>7
  <2>. HIDE DEF y
  <2>5. Memory'
    <3>1. cur_dir \in Tree(disk'.entries, disk'.inode)
      BY <1>2, <2>2, <2>3
    <3>2. /\ disk'.inode[n] = child /\ disk'.inode[cur_dir] = parent
          /\ \A e \in Inodes \ {cur_dir, n} : disk'.inode[e] = disk.inode[e]
      BY <1>7, <2>2
    <3>. QED
      BY <1>1, <1>2, <1>7, <1>9, <2>1, <2>4, <3>1, <3>2, Synced
  <2>6. Good(disk, crashes)'
    BY <1>7, <2>1
  <2>7. ASSUME crashes = 0
        PROVE  Exact(y, Tree(G, J))
    <3>1. Precise(I, E, F, m, X)
      <4>1. Exact(disk, X)
        BY <2>7 DEF IInv
      <4>. QED
        BY <1>2, <4>1, ExactIs DEF OnDisk
    <3>2. Using(E, X) = F
      BY <3>1 DEF Precise
    <3>3. Makes(I, E, J, G, n, p, own, more, type)
      <4>1. /\ \A e \in Inodes \ {c, n} : G[e] = E[e]
            /\ Len(G[c]) = Larger(p, Len(E[c])) /\ G[n] = OwnOnly(n, own)
            /\ I[c].i_type = "I_DIR" /\ I[c].size \in Nat
        <5>1. OwnOnly(n, own) \in TheEntries
          <6>1. <<".", n>> \in Names \X (Inodes \cup {INVALID_INODE_NR})
                /\ <<"..", c>> \in Names \X (Inodes \cup {INVALID_INODE_NR})
            BY <1>2, TestfsAssumption DEF Dots
          <6>2. OwnEntries(n) \in TheEntries /\ <<>> \in TheEntries
            BY <6>1 DEF OwnEntries, TheEntries
          <6>. QED
            BY <6>2, Zenon DEF OwnOnly
        <5>. QED
          BY <1>1, <1>6, <5>1, WithIs
      <4>2. parent.i_type = "I_DIR" /\ parent.block_count = I[c].block_count + more
        <5>1. I[c] \in InodeType
          BY <1>2 DEF Standing
        <5>. QED
          BY <1>6, <4>1, <5>1 DEF Parent, InodeType
      <4>3. own = IF type = "I_DIR" THEN 1 ELSE 0
        BY DEF own
      <4>4. J[n] = Child(type, own)
        BY <1>7 DEF child
      <4>. QED
        BY <1>5, <1>7, <4>1, <4>2, <4>3, <4>4 DEF Makes
    <3>. DEFINE Y == Tree(G, J)
                H == F \cup {n}
                v == u + 1
                b1 == b + (own + more)
                m1 == m + (own + more)
    <3>4. Y = NewTree(I, E, n, J) /\ Using(G, Y) = H /\ H = F \cup {n} /\ p \in 1 .. (Len(E[c]) + 1)
      BY <1>1, <1>7, <3>2 DEF p
    <3>5. y = Dev(J, G, H, v, b1, m1)
      BY DEF y
    <3>. HIDE DEF Y, H, v, b1, X
    <3>6. Precise(J, G, H, m1, Y)
      BY <1>1, <3>1, <3>3, <3>4, PreciseMore DEF X
    <3>. HIDE DEF m1
    <3>7. Exact(y, Y)
      BY <3>5, <3>6, ExactIs
    <3>. QED
      BY <3>7 DEF Y
  <2>8. crashes' = 0 => Exact(disk', Tree(entries', disk'.inode))
    BY <2>1, <2>2, <2>7
  <2>. QED
    BY <2>5, <2>6, <2>8 DEF IInv
<1>. QED
  BY <1>3, <1>8, <1>9 DEF w
LEMMA CreateFailsSteps ==
    ASSUME IInv, NEW name \in Names, NEW type \in {"I_FILE", "I_DIR"},
           ~Found(cur_dir, name), ~Endless(cur_dir),
           NEW n \in Inodes \ inode_freemap, Inode(n) = NoInode, CreateFails(n, type, name)
    PROVE  IInv'
<1>. DEFINE I == disk.inode
            E == entries
            F == inode_freemap
            u == used_inode_count
            b == disk.block_freemap
            m == used_block_count
            c == cur_dir
            own == IF type = "I_DIR" THEN 1 ELSE 0
            o == IF own = 1 /\ Room(1) THEN 1 ELSE 0
            w == GetInode(n) \o (IF o = 1 THEN MakeEmptyDir(n) ELSE <<>>) \o UnmakeInode(n)
<1>1. ~dirty[c] /\ Inode(c) = I[c]
  BY CreatingIs
<1>2. /\ OnDisk(I, E, F, u, b, m) /\ c \in Tree(E, I) /\ c \in Inodes
      /\ i_count[c] > 0 /\ Inode(c) = inode[c] /\ I \in [Inodes -> InodeType]
  BY Stands DEF Standing
<1>3. \/ /\ Writes(w)
         /\ \/ /\ inode' = [inode EXCEPT ![c].size = Huge]
               /\ dirty' = [dirty EXCEPT ![c] = TRUE]
            \/ UNCHANGED <<inode, dirty>>
      \/ Crash(w)
  <2>1. o = 1 <=> own = 1 /\ Room(1)
    OBVIOUS
  <2>. HIDE DEF o
  <2>2. \/ /\ Writes(w)
           /\ IF Room(own)
              THEN inode' = [inode EXCEPT ![c].size = Huge] /\ dirty' = [dirty EXCEPT ![c] = TRUE]
              ELSE UNCHANGED <<inode, dirty>>
        \/ Crash(w)
    BY <2>1, Zenon DEF CreateFails
  <2>. QED
    BY <2>2
<1>4. o \in {0, 1} /\ m + o <= MaxFsBlocks
  <2>1. m <= MaxFsBlocks /\ m \in Int
    BY <1>2, TheDisk DEF Typed
  <2>2. CASE Room(1)
    BY <2>1, <2>2, TestfsAssumption DEF Room
  <2>3. CASE ~Room(1)
    BY <2>1, <2>3, TestfsAssumption
  <2>. QED
    BY <2>2, <2>3
<1>. HIDE DEF o, own
<1>5. Safely(disk, w, disk, crashes + 1)
  BY <1>2, <1>4, GivesInodeBack
<1>. HIDE DEF w
<1>6. CASE Crash(w)
  BY <1>5, <1>6, Crashing
<1>7. CASE Writes(w)
  <2>1. disk' = disk /\ UNCHANGED <<i_count, cur_dir, listed, fate, crashes>>
    BY <1>5, <1>7, WritesIs
  <2>2. CASE UNCHANGED <<inode, dirty>>
    <3>1. Memory'
      BY <2>1, <2>2 DEF IInv, Memory, MemoryAgrees, entries
    <3>. QED
      BY <2>1, <3>1, SameDisk
  <2>3. CASE inode' = [inode EXCEPT ![c].size = Huge] /\ dirty' = [dirty EXCEPT ![c] = TRUE]
    <3>1. /\ inode \in [Inodes -> InodeType] /\ i_count \in [Inodes -> Nat]
          /\ dirty \in [Inodes -> BOOLEAN] /\ listed \in [Inodes -> 0 .. MaxListed]
          /\ fate \in {"ok", "abort", "stale"} /\ crashes \in 0 .. MaxCrashes
          /\ \A e \in Inodes : Agrees(e)
      BY MemoryIs DEF IInv
    <3>. DEFINE x == [inode[c] EXCEPT !.size = Huge]
    <3>2. x \in InodeType /\ x.size = Huge /\ x = [I[c] EXCEPT !.size = Huge]
      BY <1>1, <1>2, <3>1 DEF InodeType
    <3>3. inode' = [inode EXCEPT ![c] = x]
      BY <2>3
    <3>. HIDE DEF x
    <3>4. /\ inode' \in [Inodes -> InodeType] /\ dirty' \in [Inodes -> BOOLEAN]
          /\ inode'[c] = x /\ dirty'[c]
          /\ \A e \in Inodes \ {c} : inode'[e] = inode[e] /\ dirty'[e] = dirty[e]
      BY <1>2, <2>3, <3>1, <3>2, <3>3
    <3>5. ASSUME NEW e \in Inodes
          PROVE  Agrees(e)'
      <4>1. Agrees(e)
        BY <3>1
      <4>2. CASE e = c
        <5>1. i_count'[e] = listed'[e] + (IF e = cur_dir' THEN 1 ELSE 0)
          BY <2>1, <4>1 DEF Agrees
        <5>2. dirty'[e] /\ e = cur_dir' /\ inode'[e].size = Huge
          BY <2>1, <3>2, <3>4, <4>2
        <5>3. inode'[e] = [disk'.inode[e] EXCEPT !.size = Huge]
          BY <2>1, <3>2, <3>4, <4>2
        <5>. QED
          BY <5>1, <5>2, <5>3 DEF Agrees
      <4>3. CASE e # c
        BY <2>1, <3>4, <4>1, <4>3 DEF Agrees
      <4>. QED
        BY <4>2, <4>3
    <3>6. MemoryAgrees'
      BY <3>5, Zenon DEF MemoryAgrees, Agrees
    <3>7. cur_dir' \in Tree(entries', disk'.inode)
      BY <1>2, <2>1 DEF entries
    <3>8. Memory'
      BY <2>1, <3>1, <3>4, <3>6, <3>7 DEF Memory
    <3>. QED
      BY <2>1, <3>8, SameDisk
  <2>. QED
    BY <1>3, <1>6, <1>7, <2>2, <2>3
<1>. QED
  BY <1>3, <1>6, <1>7

(* The first free bit is not that of an inode.                             *)
LEMMA CreateTooManySteps ==
    ASSUME IInv, NEW n \in Bits \ inode_freemap, CreateTooMany(n)
    PROVE  IInv'
<1>. DEFINE w == GetInode(n) \o PutInode(n, used_inode_count)
<1>1. OnDisk(disk.inode, entries, inode_freemap, used_inode_count, disk.block_freemap,
             used_block_count)
  BY Stands DEF Standing
<1>2. Safely(disk, w, disk, crashes + 1)
  BY <1>1, BitGivenBack
<1>3. (Writes(w) /\ UNCHANGED <<inode, dirty>>) \/ Crash(w)
  BY Zenon DEF CreateTooMany
<1>. HIDE DEF w
<1>4. CASE Crash(w)
  BY <1>2, <1>4, Crashing
<1>5. CASE Writes(w) /\ UNCHANGED <<inode, dirty>>
  <2>1. disk' = disk /\ UNCHANGED <<i_count, cur_dir, listed, fate, crashes>>
    BY <1>2, <1>5, WritesIs
  <2>2. Memory'
    BY <1>5, <2>1 DEF IInv, Memory, MemoryAgrees, entries
  <2>. QED
    BY <2>1, <2>2, SameDisk
<1>. QED
  BY <1>3, <1>4, <1>5

LEMMA CreateCommand ==
    ASSUME IInv, NEW name \in Names, NEW type \in {"I_FILE", "I_DIR"}, cmd_create(type, name)
    PROVE  IInv'
<1>. DEFINE n == Min(Bits \ inode_freemap)
<1>1. /\ ~Found(cur_dir, name) /\ ~Endless(cur_dir) /\ inode_freemap # Bits
      /\ \/ CreateTooMany(n)
         \/ Stop("stale")
         \/ /\ n \in Inodes /\ Inode(n) = NoInode
            /\ Create(n, type, name) \/ CreateFails(n, type, name)
  BY Zenon DEF cmd_create
<1>2. n \in Bits \ inode_freemap
  <2>1. inode_freemap \in SUBSET Bits
    BY Stands, TheDisk DEF Standing, Typed
  <2>. QED
    BY <1>1, <2>1, FreeInode
<1>. HIDE DEF n
<1>3. CASE n \in Inodes /\ Inode(n) = NoInode /\ (Create(n, type, name) \/ CreateFails(n, type, name))
  <2>1. n \in Inodes \ inode_freemap
    BY <1>2, <1>3
  <2>. QED
    BY <1>1, <1>3, <2>1, CreateSteps, CreateFailsSteps
<1>. QED
  BY <1>1, <1>2, <1>3, CreateTooManySteps, Stopping
LEMMA RemoveCommand ==
    ASSUME IInv, NEW name \in Names, cmd_rm(name)
    PROVE  IInv'
<1>. DEFINE I == disk.inode
            E == entries
            F == inode_freemap
            u == used_inode_count
            b == disk.block_freemap
            m == used_block_count
            c == cur_dir
            n == Named(name)
            p == Position(c, name)
            X == Tree(E, I)
            r == inode[c]
            J == BothSynced(I, n, NoInode, r)
            G == [E EXCEPT ![c] = Unled(E[c], p), ![n] = <<>>]
            k == I[n].block_count
            w == Removal(n, name)
<1>1. /\ fate = "ok" /\ name \notin Dots /\ Found(c, name) /\ Removable(n)
      /\ \/ Abort
         \/ Writes(w) /\ InMemory(n, NoInode, r)
         \/ Crash(w)
  BY Zenon DEF cmd_rm
<1>2. /\ OnDisk(I, E, F, u, b, m) /\ c \in X /\ c \in Inodes /\ Told(c) /\ Inode(c) = r
      /\ I \in [Inodes -> InodeType] /\ \A e \in Inodes : Told(e)
  BY Stands DEF Standing
<1>3. n \in Inodes
  BY <1>1, <1>2, NamedIs
<1>4. Removing(I, E, F, u, b, m, n, name, p)
  <2>1. Told(n)
    BY <1>2, <1>3
  <2>2. n \in Dirs(I) => Kids(E, n) = {}
    <3>1. Children(n) = Kids(E, n)
      BY DEF Children, Kids
    <3>. QED
      BY <1>1, <2>1, <3>1 DEF Removable, Told
  <2>3. Inode(n).block_count = I[n].block_count
    BY <2>1 DEF Told
  <2>. QED
    BY <1>1, <1>2, <2>2, <2>3 DEF Removing
<1>5. /\ r \in InodeType /\ r.i_type = I[c].i_type /\ r.block_count = I[c].block_count
      /\ r.size \in {I[c].size, Huge}
  BY <1>2 DEF Told
<1>6. J = BothSynced(I, n, NoInode, r) /\ G = [E EXCEPT ![c] = Unled(E[c], p), ![n] = <<>>]
      /\ k = I[n].block_count /\ r = inode[cur_dir]
  OBVIOUS
<1>7. n # c /\ n \in F
  BY <1>4, RemovingIs
<1>. HIDE DEF J, G, r, n, p, k
<1>. DEFINE y == Dev(J, G, F \ {n}, u - 1, b - k, m - k)
<1>8. /\ Safely(disk, w, y, crashes + 1) /\ Good(y, crashes)
      /\ Tree(G, J) = X \ {n} /\ Using(G, Tree(G, J)) = Using(E, X) \ {n}
      /\ J \in [Inodes -> InodeType] /\ J[n] = NoInode /\ J[c] = r
      /\ \A e \in Inodes \ {c, n} : J[e] = I[e] /\ G[e] = E[e]
      /\ G[c] = Unled(E[c], p)
  <2>1. Removes(I, E, F, u, b, m, n, name, p, r, J, G, k)
    BY <1>4, <1>5, <1>6 DEF Removes
  <2>2. y = Dev(J, G, F \ {n}, u - 1, b - k, m - k)
    OBVIOUS
  <2>. HIDE DEF y, w
  <2>3. Removals(I, E, n, name, p, r, J, G, y)
    BY ONLY <2>1, <2>2, Removed
  <2>. QED
    BY <2>3 DEF Removals, w
<1>. HIDE DEF w
<1>9. CASE Abort
  BY <1>9, Stopping DEF Abort
<1>10. CASE Crash(w)
  BY <1>8, <1>10, Crashing
<1>11. CASE Writes(w) /\ InMemory(n, NoInode, r)
  <2>1. disk' = y /\ UNCHANGED <<i_count, cur_dir, listed, fate, crashes>>
    BY <1>8, <1>11, WritesIs
  <2>2. disk'.inode = J /\ disk'.entries = G /\ entries' = G
    BY <2>1, DevIs DEF entries
  <2>. HIDE DEF y
  <2>3. NoInode \in InodeType
    BY TestfsAssumption DEF NoInode, InodeType
  <2>4. Memory'
    <3>1. cur_dir \in Tree(disk'.entries, disk'.inode)
      BY <1>2, <1>7, <1>8, <2>2
    <3>2. /\ disk'.inode[n] = NoInode /\ disk'.inode[cur_dir] = r
          /\ \A e \in Inodes \ {cur_dir, n} : disk'.inode[e] = disk.inode[e]
      BY <1>8, <2>2
    <3>. QED
      BY <1>3, <1>5, <1>7, <1>11, <2>1, <2>3, <3>1, <3>2, Synced
  <2>5. Good(disk, crashes)'
    BY <1>8, <2>1
  <2>6. ASSUME crashes = 0
        PROVE  Exact(y, Tree(G, J))
    <3>1. Precise(I, E, F, m, X)
      <4>1. Exact(disk, X)
        BY <2>6 DEF IInv
      <4>. QED
        BY <1>2, <4>1, ExactIs DEF OnDisk
    <3>2. Using(E, X) = F
      BY <3>1 DEF Precise
    <3>3. Unmakes(I, E, J, G, n, p)
      BY <1>5, <1>8 DEF Unmakes
    <3>. DEFINE Y == Tree(G, J)
                H == F \ {n}
                v == u - 1
                b1 == b - k
                m1 == m - k
    <3>4. Y = X \ {n} /\ H = F \ {n} /\ Using(G, Y) = H /\ X = Tree(E, I)
      BY <1>8, <3>2
    <3>5. y = Dev(J, G, H, v, b1, m1) /\ m1 = m - I[n].block_count
      BY <1>6 DEF y
    <3>. HIDE DEF Y, H, v, b1, X, m1
    <3>6. Precise(J, G, H, m1, Y)
      BY ONLY <1>4, <3>1, <3>3, <3>4, <3>5, PreciseLess
    <3>7. Exact(y, Y)
      BY <3>5, <3>6, ExactIs
    <3>. QED
      BY <3>7 DEF Y
  <2>7. crashes' = 0 => Exact(disk', Tree(entries', disk'.inode))
    BY <2>1, <2>2, <2>6
  <2>. QED
    BY <2>4, <2>5, <2>7 DEF IInv
<1>. QED
  BY <1>1, <1>9, <1>10, <1>11 DEF w, n, r
LEMMA CdCommand ==
    ASSUME IInv, NEW name \in Names, cmd_cd(name)
    PROVE  IInv'
<1>. DEFINE n == Named(name)
            c == cur_dir
            count == [[i_count EXCEPT ![n] = @ + 1] EXCEPT ![c] = @ - 1]
<1>1. /\ Found(c, name) /\ IsDir(n)
      /\ \/ Abort
         \/ /\ ~dirty[c]
            /\ i_count' = count
            /\ inode' = [[inode EXCEPT ![n] = Inode(n)]
                           EXCEPT ![c] = IF count[c] > 0 THEN @ ELSE NoInode]
            /\ cur_dir' = n
            /\ UNCHANGED <<disk, dirty, listed, fate, crashes>>
  BY Zenon DEF cmd_cd
<1>. HIDE DEF n
<1>2. CASE Abort
  BY <1>2, Stopping DEF Abort
<1>3. CASE /\ ~dirty[c]
           /\ i_count' = count
           /\ inode' = [[inode EXCEPT ![n] = Inode(n)]
                          EXCEPT ![c] = IF count[c] > 0 THEN @ ELSE NoInode]
           /\ cur_dir' = n
           /\ UNCHANGED <<disk, dirty, listed, fate, crashes>>
  <2>1. /\ c \in Inodes /\ i_count[c] > 0 /\ \A e \in Inodes : Told(e)
        /\ OnDisk(disk.inode, entries, inode_freemap, used_inode_count, disk.block_freemap,
                  used_block_count) /\ c \in Tree(entries, disk.inode)
    BY Stands DEF Standing
  <2>2. n \in Inodes /\ (n \in Dirs(disk.inode) => n \in Tree(entries, disk.inode))
    BY <1>1, <2>1, NamedIs DEF n
  <2>3. Inode(n) \in InodeType /\ Inode(n) = disk.inode[n] /\ n \in Tree(entries, disk.inode)
    BY <1>1, <1>3, <2>1, <2>2 DEF Told
  <2>4. /\ inode \in [Inodes -> InodeType] /\ i_count \in [Inodes -> Nat]
        /\ dirty \in [Inodes -> BOOLEAN] /\ listed \in [Inodes -> 0 .. MaxListed]
        /\ fate \in {"ok", "abort", "stale"} /\ crashes \in 0 .. MaxCrashes
        /\ \A e \in Inodes : Agrees(e)
    BY MemoryIs DEF IInv
  <2>5. \A e \in Inodes : ~dirty[e]
    BY <1>3, <2>4 DEF Agrees
  <2>6. NoInode \in InodeType
    BY TestfsAssumption DEF NoInode, InodeType
  <2>. DEFINE ic == [i_count EXCEPT ![n] = @ + 1]
              in == [inode EXCEPT ![n] = Inode(n)]
              x == IF count[c] > 0 THEN in[c] ELSE NoInode
  <2>7. /\ ic \in [Inodes -> Nat] /\ ic[n] = i_count[n] + 1 /\ ic[c] > 0
        /\ \A e \in Inodes \ {n} : ic[e] = i_count[e]
    BY <2>1, <2>2, <2>4
  <2>8. in \in [Inodes -> InodeType] /\ in[n] = disk.inode[n]
        /\ \A e \in Inodes \ {n} : in[e] = inode[e]
    BY <2>2, <2>3, <2>4
  <2>9. count = [ic EXCEPT ![c] = ic[c] - 1]
    OBVIOUS
  <2>10. inode' = [in EXCEPT ![c] = x]
    BY <1>3
  <2>. HIDE DEF ic, in, x, count
  <2>11. /\ count \in [Inodes -> Nat] /\ count[c] = ic[c] - 1
         /\ \A e \in Inodes \ {c} : count[e] = ic[e]
    BY <2>1, <2>7, <2>9
  <2>12. x \in InodeType /\ x = IF count[c] > 0 THEN in[c] ELSE NoInode
    BY <2>1, <2>6, <2>8 DEF x
  <2>13. /\ inode' \in [Inodes -> InodeType] /\ inode'[c] = x
         /\ \A e \in Inodes \ {c} : inode'[e] = in[e]
    BY <2>1, <2>8, <2>10, <2>12
  <2>14. ASSUME NEW e \in Inodes
         PROVE  Agrees(e)'
    <3>1. /\ i_count[e] = listed[e] + (IF e = c THEN 1 ELSE 0)
          /\ i_count[e] > 0 => inode[e] = disk.inode[e]
      BY <2>4, <2>5 DEF Agrees
    <3>2. listed[e] \in Nat /\ i_count[e] \in Nat
      BY <2>4, TestfsAssumption
    <3>3. count[e] = listed[e] + (IF e = n THEN 1 ELSE 0)
      <4>1. CASE e = c /\ e = n
        BY <2>7, <2>11, <3>1, <3>2, <4>1
      <4>2. CASE e = c /\ e # n
        BY <2>7, <2>11, <3>1, <3>2, <4>2
      <4>3. CASE e # c /\ e = n
        BY <2>7, <2>11, <3>1, <3>2, <4>3
      <4>4. CASE e # c /\ e # n
        BY <2>7, <2>11, <3>1, <3>2, <4>4
      <4>. QED
        BY <4>1, <4>2, <4>3, <4>4
    <3>4. count[e] > 0 => inode'[e] = disk.inode[e]
      <4>1. CASE e = n
        <5>1. in[e] = disk.inode[e]
          BY <2>8, <4>1
        <5>. QED
          BY <2>12, <2>13, <5>1
      <4>2. CASE e # n /\ e = c
        <5>1. in[e] = inode[e] /\ inode[e] = disk.inode[e]
          BY <2>1, <2>8, <3>1, <4>2
        <5>. QED
          BY <2>12, <2>13, <4>2, <5>1
      <4>3. CASE e # n /\ e # c
        BY <2>7, <2>8, <2>11, <2>13, <3>1, <4>3
      <4>. QED
        BY <4>1, <4>2, <4>3
    <3>5. i_count' = count /\ listed' = listed /\ cur_dir' = n /\ dirty' = dirty /\ disk' = disk
      BY <1>3
    <3>6. ~dirty'[e]
      BY <2>5, <3>5
    <3>. QED
      BY <3>3, <3>4, <3>5, <3>6 DEF Agrees
  <2>15. MemoryAgrees'
    BY <2>14, Zenon DEF MemoryAgrees, Agrees
  <2>16. cur_dir' \in Tree(entries', disk'.inode)
    BY <1>3, <2>3 DEF entries
  <2>17. i_count' \in [Inodes -> Nat]
    BY <1>3, <2>11
  <2>18. Memory'
    BY <1>3, <2>4, <2>13, <2>15, <2>16, <2>17 DEF Memory
  <2>. QED
    BY <1>3, <2>18, SameDisk
<1>. QED
  BY <1>1, <1>2, <1>3

LEMMA WriteCommand ==
    ASSUME IInv, NEW name \in Names, cmd_write(name)
    PROVE  IInv'
<1>0. PICK k \in 1 .. (MaxFsBlocks - used_block_count) :
        LET h == Named(name)
            z == [Inode(h) EXCEPT !.block_count = @ + k]
            v == AllocBlocks(k) \o Put("inode", [disk.inode EXCEPT ![h] = z])
        IN  /\ fate = "ok" /\ Found(cur_dir, name) /\ ~IsDir(h)
            /\ \/ /\ Writes(v)
                  /\ inode' = [inode EXCEPT ![h] = IF i_count[h] > 0 THEN z ELSE @]
                  /\ UNCHANGED dirty
               \/ Crash(v)
  BY Zenon DEF cmd_write
<1>. DEFINE I == disk.inode
            E == entries
            F == inode_freemap
            u == used_inode_count
            b == disk.block_freemap
            m == used_block_count
            c == cur_dir
            n == Named(name)
            X == Tree(E, I)
            x == [I[n] EXCEPT !.block_count = @ + k]
            J == [I EXCEPT ![n] = x]
            w == AllocBlocks(k) \o Put("inode", J)
            y == Dev(J, E, F, u, b + k, m + k)
<1>1. /\ OnDisk(I, E, F, u, b, m) /\ c \in X /\ c \in Inodes /\ c \in Dirs(I)
      /\ I \in [Inodes -> InodeType] /\ \A e \in Inodes : Told(e)
      /\ Shape(E, I, X) /\ X \subseteq Inodes /\ Root \in X
  BY Stands, TreeClosed DEF Standing, Closed
<1>2. Found(c, name) /\ ~IsDir(n)
  BY <1>0, Zenon
<1>3. n \in Using(E, X) /\ n \in Inodes
  BY <1>1, <1>2, NamedIs
<1>4. n # c /\ Inode(n) = I[n] /\ n \notin Dirs(I) /\ ~dirty[n]
  BY <1>1, <1>2, <1>3 DEF Told
<1>5. n \notin X
  BY <1>1, <1>4, TreeClosed, RootIs DEF Shape, Dirs
<1>6. \/ Writes(w) /\ inode' = [inode EXCEPT ![n] = IF i_count[n] > 0 THEN x ELSE @]
         /\ UNCHANGED dirty
      \/ Crash(w)
  <2>1. LET z == [Inode(n) EXCEPT !.block_count = @ + k]
            v == AllocBlocks(k) \o Put("inode", [disk.inode EXCEPT ![n] = z])
        IN  \/ Writes(v) /\ inode' = [inode EXCEPT ![n] = IF i_count[n] > 0 THEN z ELSE @]
               /\ UNCHANGED dirty
            \/ Crash(v)
    BY <1>0, Zenon
  <2>. QED
    BY <1>4, <2>1
<1>7. k \in Nat /\ m + k <= MaxFsBlocks
  <2>1. m \in Int /\ MaxFsBlocks \in Nat
    BY <1>1, TheDisk, TestfsAssumption DEF Typed
  <2>. QED
    BY <2>1
<1>. HIDE DEF n
<1>8. /\ Safely(disk, w, y, crashes + 1) /\ Good(y, crashes)
      /\ Tree(E, J) = X /\ Using(E, X) = Using(E, Tree(E, J))
      /\ J \in [Inodes -> InodeType] /\ J[n] = x /\ x \in InodeType
      /\ \A e \in Inodes \ {n} : J[e] = I[e]
      /\ x.i_type = I[n].i_type /\ x.size = I[n].size
      /\ x.block_count = I[n].block_count + k
  <2>1. x = [I[n] EXCEPT !.block_count = @ + k] /\ J = [I EXCEPT ![n] = x] /\ X = Tree(E, I)
    OBVIOUS
  <2>. HIDE DEF x, J, X
  <2>. QED
    BY ONLY <1>1, <1>3, <1>4, <1>7, <2>1, Written
<1>. HIDE DEF x, J, w
<1>9. CASE Crash(w)
  BY <1>8, <1>9, Crashing
<1>10. CASE Writes(w) /\ inode' = [inode EXCEPT ![n] = IF i_count[n] > 0 THEN x ELSE @]
            /\ UNCHANGED dirty
  <2>1. disk' = y /\ UNCHANGED <<i_count, cur_dir, listed, fate, crashes>>
    BY <1>8, <1>10, WritesIs
  <2>2. disk'.inode = J /\ disk'.entries = E /\ entries' = E
    BY <2>1, DevIs DEF entries
  <2>. HIDE DEF y
  <2>3. /\ inode \in [Inodes -> InodeType] /\ i_count \in [Inodes -> Nat]
        /\ dirty \in [Inodes -> BOOLEAN] /\ listed \in [Inodes -> 0 .. MaxListed]
        /\ fate \in {"ok", "abort", "stale"} /\ crashes \in 0 .. MaxCrashes
        /\ \A e \in Inodes : Agrees(e)
    BY MemoryIs DEF IInv
  <2>. DEFINE z == IF i_count[n] > 0 THEN x ELSE inode[n]
  <2>4. z \in InodeType /\ (i_count[n] > 0 => z = x)
    BY <1>3, <1>8, <2>3
  <2>5. inode' = [inode EXCEPT ![n] = z]
    BY <1>10
  <2>. HIDE DEF z
  <2>6. /\ inode' \in [Inodes -> InodeType] /\ inode'[n] = z
        /\ \A e \in Inodes \ {n} : inode'[e] = inode[e]
    BY <1>3, <2>3, <2>4, <2>5
  <2>7. ASSUME NEW e \in Inodes
        PROVE  Agrees(e)'
    <3>1. Agrees(e) /\ dirty' = dirty
      BY <1>10, <2>3
    <3>2. CASE e = n
      <4>1. i_count'[e] > 0 => inode'[e] = disk'.inode[e]
        BY <1>8, <2>1, <2>2, <2>4, <2>6, <3>2
      <4>2. ~dirty'[e]
        BY <1>4, <3>1, <3>2
      <4>3. i_count'[e] = listed'[e] + (IF e = cur_dir' THEN 1 ELSE 0)
        BY <2>1, <3>1 DEF Agrees
      <4>. QED
        BY <4>1, <4>2, <4>3 DEF Agrees
    <3>3. CASE e # n
      <4>1. inode'[e] = inode[e] /\ disk'.inode[e] = disk.inode[e]
        BY <1>8, <2>2, <2>6, <3>3
      <4>. QED
        BY <2>1, <3>1, <4>1 DEF Agrees
    <3>. QED
      BY <3>2, <3>3
  <2>8. MemoryAgrees'
    BY <2>7, Zenon DEF MemoryAgrees, Agrees
  <2>9. cur_dir' \in Tree(entries', disk'.inode)
    BY <1>1, <1>8, <2>1, <2>2
  <2>10. Memory'
    BY <1>10, <2>1, <2>3, <2>6, <2>8, <2>9 DEF Memory
  <2>11. Good(disk, crashes)'
    BY <1>8, <2>1
  <2>12. ASSUME crashes = 0
         PROVE  Exact(y, X)
    <3>1. Precise(I, E, F, m, X)
      <4>1. Exact(disk, X)
        BY <2>12 DEF IInv
      <4>. QED
        BY <1>1, <4>1, ExactIs DEF OnDisk
    <3>2. Typed(I, E, F, u, b, m) /\ n \in F /\ F \subseteq Inodes
      BY <1>1, <1>3, <3>1, TheDisk DEF Books, Precise
    <3>3. J[n].i_type = I[n].i_type /\ J[n].block_count = I[n].block_count + k
      BY <1>8
    <3>. HIDE DEF X
    <3>4. Precise(J, E, F, m + k, X)
      BY ONLY <1>1, <1>5, <1>7, <1>8, <3>1, <3>2, <3>3, PreciseWritten
    <3>. QED
      BY <3>4, ExactIs DEF y
  <2>13. crashes' = 0 => Exact(disk', Tree(entries', disk'.inode))
    BY <1>8, <2>1, <2>2, <2>12
  <2>. QED
    BY <2>10, <2>11, <2>13 DEF IInv
<1>. QED
  BY <1>6, <1>9, <1>10
LEMMA ListCommand ==
    ASSUME IInv, NEW name \in Names, NEW recursive \in BOOLEAN, cmd_ls(name, recursive)
    PROVE  IInv'
<1>. DEFINE n == Named(name)
            c == cur_dir
            sum == MapThenSumSet(LAMBDA k : listed[k], Inodes)
<1>1. /\ Found(c, name)
      /\ \/ /\ ~IsDir(n) /\ sum < MaxListed
            /\ i_count' = [i_count EXCEPT ![n] = @ + 1]
            /\ listed' = [listed EXCEPT ![n] = @ + 1]
            /\ inode' = [inode EXCEPT ![n] = Inode(n)]
            /\ UNCHANGED <<disk, dirty, cur_dir, fate, crashes>>
         \/ Abort
  BY Zenon DEF cmd_ls
<1>2. CASE Abort
  BY <1>2, Stopping DEF Abort
<1>. HIDE DEF n, sum
<1>3. CASE /\ ~IsDir(n) /\ sum < MaxListed
           /\ i_count' = [i_count EXCEPT ![n] = @ + 1]
           /\ listed' = [listed EXCEPT ![n] = @ + 1]
           /\ inode' = [inode EXCEPT ![n] = Inode(n)]
           /\ UNCHANGED <<disk, dirty, cur_dir, fate, crashes>>
  <2>1. /\ c \in Inodes /\ c \in Dirs(disk.inode) /\ \A e \in Inodes : Told(e)
        /\ OnDisk(disk.inode, entries, inode_freemap, used_inode_count, disk.block_freemap,
                  used_block_count) /\ c \in Tree(entries, disk.inode)
    BY Stands DEF Standing
  <2>2. n \in Inodes
    BY <1>1, <2>1, NamedIs DEF n
  <2>3. Inode(n) \in InodeType /\ Inode(n) = disk.inode[n] /\ n # c
    BY <1>3, <2>1, <2>2 DEF Told
  <2>4. /\ inode \in [Inodes -> InodeType] /\ i_count \in [Inodes -> Nat]
        /\ dirty \in [Inodes -> BOOLEAN] /\ listed \in [Inodes -> 0 .. MaxListed]
        /\ fate \in {"ok", "abort", "stale"} /\ crashes \in 0 .. MaxCrashes
        /\ cur_dir \in Tree(entries, disk.inode)
        /\ \A e \in Inodes : Agrees(e)
    BY MemoryIs DEF IInv
  <2>5. listed[n] + 1 \in 0 .. MaxListed
    <3>1. listed \in [Inodes -> Nat] /\ MaxListed \in Nat
      BY <2>4, TestfsAssumption
    <3>2. sum = Total(listed, Inodes)
      BY <3>1, ListedIs DEF sum
    <3>3. listed[n] <= Total(listed, Inodes) /\ Total(listed, Inodes) \in Nat /\ listed[n] \in Nat
      BY <2>2, <3>1, RootIs, OneOfTotal
    <3>. QED
      BY <1>3, <3>1, <3>2, <3>3
  <2>. DEFINE z == Inode(n)
  <2>6. inode' = [inode EXCEPT ![n] = z] /\ z \in InodeType /\ z = disk.inode[n]
    BY <1>3, <2>3
  <2>. HIDE DEF z
  <2>7. /\ inode' \in [Inodes -> InodeType] /\ inode'[n] = z
        /\ \A e \in Inodes \ {n} : inode'[e] = inode[e]
    BY <2>2, <2>4, <2>6
  <2>8. /\ i_count' \in [Inodes -> Nat] /\ i_count'[n] = i_count[n] + 1
        /\ \A e \in Inodes \ {n} : i_count'[e] = i_count[e]
    BY <1>3, <2>2, <2>4
  <2>9. /\ listed' \in [Inodes -> 0 .. MaxListed] /\ listed'[n] = listed[n] + 1
        /\ \A e \in Inodes \ {n} : listed'[e] = listed[e]
    BY <1>3, <2>2, <2>4, <2>5
  <2>10. ASSUME NEW e \in Inodes
         PROVE  Agrees(e)'
    <3>1. Agrees(e) /\ dirty' = dirty /\ cur_dir' = cur_dir /\ disk' = disk
      BY <1>3, <2>4
    <3>2. CASE e = n
      <4>1. inode'[e] = disk'.inode[e]
        BY <2>6, <2>7, <3>1, <3>2
      <4>2. ~dirty'[e]
        BY <2>3, <3>1, <3>2 DEF Agrees
      <4>3. i_count'[e] = listed'[e] + (IF e = cur_dir' THEN 1 ELSE 0)
        <5>1. i_count[n] = listed[n] + 0 /\ listed[n] \in Nat
          BY <2>2, <2>3, <2>4, <3>1, <3>2, TestfsAssumption DEF Agrees
        <5>. QED
          BY <2>3, <2>8, <2>9, <3>1, <3>2, <5>1
      <4>. QED
        BY <4>1, <4>2, <4>3 DEF Agrees
    <3>3. CASE e # n
      <4>1. inode'[e] = inode[e] /\ i_count'[e] = i_count[e] /\ listed'[e] = listed[e]
        BY <2>7, <2>8, <2>9, <3>3
      <4>. QED
        BY <3>1, <4>1 DEF Agrees
    <3>. QED
      BY <3>2, <3>3
  <2>11. MemoryAgrees'
    BY <2>10, Zenon DEF MemoryAgrees, Agrees
  <2>12. cur_dir' \in Tree(entries', disk'.inode)
    BY <1>3, <2>4 DEF entries
  <2>13. Memory'
    BY <1>3, <2>4, <2>7, <2>8, <2>9, <2>11, <2>12 DEF Memory
  <2>. QED
    BY <1>3, <2>13, SameDisk
<1>. QED
  BY <1>1, <1>2, <1>3

LEMMA QuitCommand ==
    ASSUME IInv, cmd_quit
    PROVE  IInv'
<1>. DEFINE I == disk.inode
            E == entries
            F == inode_freemap
            u == used_inode_count
            b == disk.block_freemap
            m == used_block_count
            X == Tree(E, I)
            K == Cut(E, I)
<1>1. \/ Abort
      \/ /\ \A n \in Inodes : ~(i_count[n] > (IF n = cur_dir THEN 1 ELSE 0))
         /\ testfs_init_super_block(disk) /\ UNCHANGED <<listed, fate, crashes>>
  BY Zenon DEF cmd_quit
<1>2. CASE Abort
  BY <1>2, Stopping DEF Abort
<1>3. CASE /\ \A n \in Inodes : ~(i_count[n] > (IF n = cur_dir THEN 1 ELSE 0))
           /\ testfs_init_super_block(disk) /\ UNCHANGED <<listed, fate, crashes>>
  <2>1. /\ OnDisk(I, E, F, u, b, m) /\ I \in [Inodes -> InodeType] /\ crashes \in 0 .. MaxCrashes
        /\ disk = Dev(I, E, F, u, b, m)
    BY Stands DEF Standing, OnDisk
  <2>2. /\ i_count \in [Inodes -> Nat] /\ listed \in [Inodes -> 0 .. MaxListed]
        /\ fate \in {"ok", "abort", "stale"} /\ \A e \in Inodes : Agrees(e)
    BY MemoryIs DEF IInv
  <2>3. \A n \in Inodes : listed'[n] = 0
    <3>. TAKE n \in Inodes
    <3>1. listed[n] \in Nat /\ i_count[n] = listed[n] + (IF n = cur_dir THEN 1 ELSE 0)
          /\ ~(i_count[n] > (IF n = cur_dir THEN 1 ELSE 0))
      <4>1. Agrees(n) /\ listed[n] \in Nat
        BY <2>2, TestfsAssumption
      <4>2. ~(i_count[n] > (IF n = cur_dir THEN 1 ELSE 0))
        BY <1>3
      <4>. QED
        BY <4>1, <4>2, Zenon DEF Agrees
    <3>2. listed[n] = 0
      BY ONLY <3>1
    <3>. QED
      BY <1>3, <3>2
  <2>4. Good(Dev(I, E, F, u, b, m), crashes)
    BY <2>1 DEF OnDisk
  <2>5. /\ Good(Readable(disk), crashes) /\ Tree(K, I) = X /\ Using(K, X) = Using(E, X)
        /\ \A e \in X : K[e] = E[e]
    BY <2>1, <2>4, KeepsAsIs
  <2>6. Readable(disk) = Dev(I, K, F, u, b, m)
    BY <2>1, ReadableIs
  <2>7. /\ crashes' = crashes /\ fate' \in {"ok", "abort", "stale"}
        /\ listed' \in [Inodes -> 0 .. MaxListed] /\ disk' = Readable(disk)
    BY <1>3, <2>2 DEF testfs_init_super_block
  <2>. HIDE DEF K, X
  <2>8. Memory' /\ Good(disk, crashes)'
    <3>. DEFINE k == crashes
                d == disk
    <3>1. /\ k \in 0 .. MaxCrashes /\ Good(Readable(d), k) /\ crashes' = k
          /\ testfs_init_super_block(d) /\ d.inode \in [Inodes -> InodeType]
      BY <1>3, <2>1, <2>5, <2>7
    <3>. HIDE DEF k, d
    <3>. QED
      BY ONLY <2>3, <2>7, <3>1, Starts
  <2>9. disk'.inode = I /\ disk'.entries = K /\ entries' = K
    BY <2>6, <2>7, DevIs DEF entries
  <2>10. ASSUME crashes = 0
         PROVE  Exact(disk', X)
    <3>1. Precise(I, E, F, m, X)
      <4>1. Exact(disk, X)
        BY <2>10 DEF IInv, X
      <4>. QED
        BY <2>1, <4>1, ExactIs
    <3>2. Precise(I, K, F, m, X)
      BY ONLY <2>5, <3>1, PreciseAgain
    <3>. QED
      BY <2>6, <2>7, <3>2, ExactIs
  <2>11. crashes' = 0 => Exact(disk', Tree(entries', disk'.inode))
    BY <2>5, <2>7, <2>9, <2>10
  <2>. QED
    BY <2>8, <2>11 DEF IInv
<1>. QED
  BY <1>1, <1>2, <1>3

LEMMA NextKeeps ==
    ASSUME IInv, [Next]_vars
    PROVE  IInv'
<1>1. ASSUME NEW name \in Names, NEW type \in {"I_FILE", "I_DIR"}, cmd_create(type, name)
      PROVE  IInv'
  BY <1>1, CreateCommand
<1>2. ASSUME NEW name \in Names,
             \/ cmd_rm(name) \/ cmd_cd(name) \/ cmd_write(name) \/ PutAborts(name)
             \/ \E recursive \in BOOLEAN : cmd_ls(name, recursive)
      PROVE  IInv'
  <2>1. PutAborts(name) => Abort
    BY Zenon DEF PutAborts
  <2>2. Abort => IInv'
    BY Stopping DEF Abort
  <2>. QED
    BY <1>2, <2>1, <2>2, RemoveCommand, CdCommand, WriteCommand, ListCommand
<1>3. CASE LookupAborts
  <2>1. Abort
    BY <1>3, Zenon DEF LookupAborts
  <2>. QED
    BY <2>1, Stopping DEF Abort
<1>4. CASE cmd_quit
  BY <1>4, QuitCommand
<1>5. CASE UNCHANGED vars
  <2>1. UNCHANGED <<disk, inode, i_count, dirty, cur_dir, fate, listed, crashes>>
    BY <1>5 DEF vars
  <2>2. Memory'
    BY <2>1 DEF IInv, Memory, MemoryAgrees, entries
  <2>. QED
    BY <2>1, <2>2, SameDisk
<1>. QED
  BY <1>1, <1>2, <1>3, <1>4, <1>5, Zenon DEF Next
LEMMA InitKeeps ==
    ASSUME Init
    PROVE  IInv
<1>. DEFINE I == [n \in Inodes |-> IF n = Root THEN RootInode ELSE NoInode]
            s == <<<<".", Root>>, <<"..", Root>>>>
            E == [n \in Inodes |-> IF n = Root THEN s ELSE <<>>]
            F == {Root}
            X == {Root}
            T == Names \X (Inodes \cup {INVALID_INODE_NR})
<1>1. /\ disk = Dev(I, E, F, 1, 1, 1)
      /\ inode = I /\ i_count = [n \in Inodes |-> IF n = Root THEN 1 ELSE 0]
      /\ dirty = [n \in Inodes |-> FALSE] /\ cur_dir = Root /\ fate = "ok"
      /\ listed = [n \in Inodes |-> 0] /\ crashes = 0
  BY Zenon DEF Init, Dev
<1>2. Root \in Inodes /\ IsFiniteSet(Inodes)
  BY RootIs
<1>3. RootInode \in InodeType /\ NoInode \in InodeType /\ RootInode.i_type = "I_DIR"
      /\ RootInode.size = 2 /\ RootInode.block_count = 1
      /\ NoInode.i_type = "I_NONE" /\ NoInode.block_count = 0
  BY TestfsAssumption DEF RootInode, NoInode, InodeType
<1>4. I \in [Inodes -> InodeType] /\ I[Root] = RootInode /\ \A n \in Inodes \ {Root} : I[n] = NoInode
  BY <1>2, <1>3
<1>5. /\ Len(s) = 2 /\ s[1] = <<".", Root>> /\ s[2] = <<"..", Root>> /\ DOMAIN s = {1, 2}
      /\ s[1][1] = "." /\ s[2][1] = ".." /\ s[2][2] = Root
  <2>1. 1 .. 2 = {1, 2}
    OBVIOUS
  <2>. QED
    BY <2>1
<1>6. s \in Seq(T)
  <2>1. <<".", Root>> \in T /\ <<"..", Root>> \in T
    BY <1>2, TestfsAssumption DEF Dots
  <2>. QED
    BY <2>1
<1>. HIDE DEF s, T
<1>7. E \in Entries /\ E[Root] = s
  <2>1. <<>> \in Seq(T)
    OBVIOUS
  <2>. QED
    BY <1>2, <1>6, <2>1 DEF Entries, T
<1>. HIDE DEF I, E
<1>8. Kids(E, Root) = {}
  <2>1. \A q \in DOMAIN E[Root] : E[Root][q][1] \in Dots
    BY <1>5, <1>7 DEF Dots
  <2>. QED
    BY <2>1 DEF Kids
<1>9. Tree(E, I) = X
  <2>1. Closed(E, I, X) /\ X \in SUBSET Inodes
    BY <1>2, <1>8 DEF Closed
  <2>2. Tree(E, I) \subseteq X /\ Root \in Tree(E, I)
    BY <2>1, TreeClosed DEF Closed
  <2>. QED
    BY <2>2
<1>10. Using(E, X) = F
  BY <1>8 DEF Using
<1>11. Shape(E, I, X)
  <2>1. I[Root].i_type = "I_DIR" /\ I[Root].size = 2
    BY <1>3, <1>4
  <2>2. Dotted(E, Root, X)
    BY <1>5, <1>7 DEF Dotted
  <2>3. OnceNamed(E, Root)
    BY <1>5, <1>7 DEF OnceNamed
  <2>4. Readably(E, I, Root)
    BY <1>5, <1>7, <2>1 DEF Readably
  <2>5. \A p : ~Leads(E, Root, p)
    BY <1>5, <1>7 DEF Leads, Dots
  <2>6. OnceLed(E, X)
    BY <2>5 DEF OnceLed
  <2>. QED
    BY <1>8, <2>1, <2>2, <2>3, <2>4, <2>6 DEF Shape
<1>12. Cardinality(F) = 1 /\ Total(Sizes(I), F) = 1 /\ Total(Sizes(I), F) \in Nat
  <2>1. Cardinality(F) = 1
    BY FS_Singleton
  <2>2. F \ {Root} = {} /\ F \in SUBSET Inodes /\ Root \in F
    BY <1>2
  <2>3. Total(Sizes(I), F) = Total(Sizes(I), F \ {Root}) + I[Root].block_count
    BY <1>4, <2>2, SizesLess
  <2>4. Total(Sizes(I), F \ {Root}) = 0
    BY <2>2, TotalEmpty
  <2>. QED
    BY <1>3, <1>4, <2>1, <2>3, <2>4
<1>13. Books(I, F, 1, 1, 1, F, 0)
  <2>1. F \in SUBSET Inodes /\ Left(I, F) = {}
    BY <1>2, <1>4 DEF Left
  <2>2. Few(I, F, 0)
    BY <2>1, FS_EmptySet DEF Few
  <2>. QED
    BY <1>12, <2>1, <2>2, TestfsAssumption DEF Books
<1>14. Typed(I, E, F, 1, 1, 1)
  BY <1>2, <1>4, <1>7, BitsAre DEF Typed
<1>15. Good(Dev(I, E, F, 1, 1, 1), 0)
  BY <1>9, <1>10, <1>11, <1>13, <1>14, GoodIs
<1>16. Precise(I, E, F, 1, X)
  <2>1. Dirs(I) = X
    BY <1>2, <1>3, <1>4 DEF Dirs
  <2>2. \A e \in X : Filled(E, I, e)
    <3>1. Len(E[Root]) = 2 /\ I[Root].block_count = 1
      BY <1>3, <1>4, <1>5, <1>7
    <3>2. EntriesPerBlock * I[Root].block_count = EntriesPerBlock /\ EntriesPerBlock \in Nat
          /\ EntriesPerBlock >= 2
      BY <3>1, TestfsAssumption
    <3>3. Filled(E, I, Root)
      BY <3>1, <3>2 DEF Filled
    <3>. QED
      BY <3>3
  <2>. QED
    BY <1>3, <1>4, <1>10, <1>12, <2>1, <2>2 DEF Precise
<1>17. Exact(Dev(I, E, F, 1, 1, 1), X)
  BY <1>16, ExactIs
<1>18. disk.inode = I /\ entries = E
  BY <1>1, DevIs DEF entries
<1>19. MemoryAgrees
  BY <1>1, <1>2, <1>18 DEF MemoryAgrees
<1>20. Memory
  <2>1. 0 \in 0 .. MaxListed /\ 0 \in 0 .. MaxCrashes
    BY TestfsAssumption
  <2>2. /\ inode \in [Inodes -> InodeType] /\ i_count \in [Inodes -> Nat]
        /\ dirty \in [Inodes -> BOOLEAN] /\ listed \in [Inodes -> 0 .. MaxListed]
    BY <1>1, <1>4, <2>1
  <2>. QED
    BY <1>1, <1>9, <1>18, <1>19, <2>1, <2>2 DEF Memory
<1>. QED
  BY <1>1, <1>9, <1>15, <1>17, <1>18, <1>20 DEF IInv

(* The invariant the theorems follow from.                                 *)
THEOREM Invariance == Spec => []IInv
<1>1. Init => IInv
  BY InitKeeps
<1>2. IInv /\ [Next]_vars => IInv'
  BY NextKeeps
<1>. QED
  BY <1>1, <1>2, PTL DEF Spec
-----------------------------------------------------------------------------
(* Going down from the root as often as there are inodes finds the whole   *)
(* tree.                                                                   *)
Up(A) == A \cup {n \in UNION {Children(e) : e \in A} : IsDir(n)}
Leveling(f) == [i \in 0 .. MaxInodes |-> IF i = 0 THEN {Root} ELSE Up(f[i - 1])]

LEMMA LevelsUpTo ==
    ASSUME NEW N \in Nat
    PROVE  \E h : \A i \in 0 .. N : h[i] = IF i = 0 THEN {Root} ELSE Up(h[i - 1])
<1>. DEFINE S == {k \in Nat : \E h : \A i \in 0 .. k : h[i] = IF i = 0 THEN {Root} ELSE Up(h[i - 1])}
<1>1. 0 \in S
  <2>. DEFINE h == [i \in 0 .. 0 |-> {Root}]
  <2>1. \A i \in 0 .. 0 : i = 0 /\ h[i] = {Root}
    OBVIOUS
  <2>. HIDE DEF h
  <2>2. \A i \in 0 .. 0 : h[i] = IF i = 0 THEN {Root} ELSE Up(h[i - 1])
    BY <2>1
  <2>. QED
    BY <2>2
<1>2. ASSUME NEW k \in Nat, k \in S
      PROVE  k + 1 \in S
  <2>1. PICK h : \A i \in 0 .. k : h[i] = IF i = 0 THEN {Root} ELSE Up(h[i - 1])
    BY <1>2
  <2>. DEFINE a == Up(h[k])
              g == [i \in 0 .. (k + 1) |-> IF i <= k THEN h[i] ELSE a]
  <2>2. (\A i \in 0 .. k : g[i] = h[i]) /\ g[k + 1] = a
    <3>. HIDE DEF a
    <3>. QED
      OBVIOUS
  <2>. HIDE DEF g
  <2>3. ASSUME NEW i \in 0 .. (k + 1)
        PROVE  g[i] = IF i = 0 THEN {Root} ELSE Up(g[i - 1])
    <3>1. CASE i = 0
      <4>1. i \in 0 .. k
        BY <3>1
      <4>. QED
        BY <2>1, <2>2, <3>1, <4>1
    <3>2. CASE i # 0 /\ i <= k
      <4>1. i \in 0 .. k /\ i - 1 \in 0 .. k
        BY <3>2
      <4>. QED
        BY <2>1, <2>2, <3>2, <4>1
    <3>3. CASE i = k + 1
      <4>1. i # 0 /\ i - 1 = k /\ k \in 0 .. k
        BY <3>3
      <4>. QED
        BY <2>2, <3>3, <4>1
    <3>. QED
      BY <3>1, <3>2, <3>3
  <2>. QED
    BY <2>3
<1>. HIDE DEF S
<1>3. N \in S
  BY <1>1, <1>2, AllNat
<1>. QED
  BY <1>3 DEF S

LEMMA LevelsExist == \E f : f = Leveling(f)
<1>1. MaxInodes \in Nat
  BY TestfsAssumption
<1>2. PICK h : \A i \in 0 .. MaxInodes : h[i] = IF i = 0 THEN {Root} ELSE Up(h[i - 1])
  BY <1>1, LevelsUpTo
<1>. DEFINE f == [i \in 0 .. MaxInodes |-> h[i]]
<1>3. ASSUME NEW i \in 0 .. MaxInodes
      PROVE  f[i] = IF i = 0 THEN {Root} ELSE Up(f[i - 1])
  <2>1. CASE i = 0
    BY <1>2, <2>1
  <2>2. CASE i # 0
    <3>1. i - 1 \in 0 .. MaxInodes
      BY <1>1, <2>2
    <3>2. f[i - 1] = h[i - 1] /\ f[i] = h[i]
      BY <3>1
    <3>. HIDE DEF f
    <3>. QED
      BY <1>2, <2>2, <3>2
  <2>. QED
    BY <2>1, <2>2
<1>4. f = [i \in 0 .. MaxInodes |-> f[i]]
  OBVIOUS
<1>. HIDE DEF f
<1>5. f = Leveling(f)
  BY <1>3, <1>4 DEF Leveling
<1>. QED
  BY <1>5

LEMMA MoreOf ==
    ASSUME NEW S \in SUBSET Inodes, NEW R \in SUBSET S, R # S
    PROVE  Cardinality(R) \in Nat /\ Cardinality(S) \in Nat /\ Cardinality(R) < Cardinality(S)
<1>1. IsFiniteSet(S)
  BY RootIs, FS_Subset
<1>. QED
  BY <1>1, FS_Subset, FS_CardinalityType

LEMMA InodesAre ==
    /\ Cardinality(Inodes) = MaxInodes
    /\ \A S \in SUBSET Inodes : Cardinality(S) \in Nat /\ Cardinality(S) <= MaxInodes
<1>1. MaxInodes \in Nat /\ 0 \in Int /\ MaxInodes - 1 \in Int
  BY TestfsAssumption
<1>2. Cardinality(Inodes) = MaxInodes
  <2>1. Cardinality(0 .. (MaxInodes - 1)) = IF 0 > MaxInodes - 1 THEN 0 ELSE MaxInodes - 1 - 0 + 1
    BY <1>1, FS_Interval
  <2>. QED
    BY <1>1, <2>1, TestfsAssumption DEF Inodes
<1>3. \A S \in SUBSET Inodes : Cardinality(S) \in Nat /\ Cardinality(S) <= Cardinality(Inodes)
  BY RootIs, FS_Subset, FS_CardinalityType
<1>. QED
  BY <1>2, <1>3

LEMMA BelowIs ==
    ASSUME Standing
    PROVE  Below(Root) = Tree(entries, disk.inode)
<1>. DEFINE E == entries
            I == disk.inode
            X == Tree(E, I)
            L == CHOOSE f : f = Leveling(f)
            N == MaxInodes
<1>1. Below(Root) = L[N]
  BY Zenon DEF Below, Leveling, Up
<1>2. L = Leveling(L)
  BY LevelsExist, Zenon
<1>. HIDE DEF L
<1>3. N \in Nat /\ N > 0
  BY TestfsAssumption
<1>4. L[0] = {Root} /\ \A i \in Nat : i + 1 <= N => L[i + 1] = Up(L[i])
  <2>1. 0 \in 0 .. N
    BY <1>3
  <2>2. L[0] = {Root}
    BY <1>2, <2>1 DEF Leveling
  <2>3. ASSUME NEW i \in Nat, i + 1 <= N
        PROVE  L[i + 1] = Up(L[i])
    <3>1. i + 1 \in 0 .. N /\ i + 1 # 0 /\ (i + 1) - 1 = i
      BY <1>3, <2>3
    <3>2. L[i + 1] = IF i + 1 = 0 THEN {Root} ELSE Up(L[(i + 1) - 1])
      BY <1>2, <3>1 DEF Leveling
    <3>. QED
      BY <3>1, <3>2
  <2>. QED
    BY <2>2, <2>3
<1>5. /\ Shape(E, I, X) /\ X \subseteq Inodes /\ Closed(E, I, X) /\ Root \in X
      /\ \A e \in X : \A m \in Kids(E, e) : m \in Inodes
      /\ \A n \in Inodes : IsDir(n) <=> n \in Dirs(I)
      /\ \A e : Children(e) = Kids(E, e)
  <2>1. /\ OnDisk(I, E, inode_freemap, used_inode_count, disk.block_freemap, used_block_count)
        /\ \A n \in Inodes : Told(n)
    BY DEF Standing
  <2>2. Shape(E, I, X) /\ Using(E, X) \subseteq Inodes
    BY <2>1, TheDisk DEF Books, Typed
  <2>3. \A e \in X : \A m \in Kids(E, e) : m \in Inodes
    BY <2>2, UsingIs
  <2>4. \A n \in Inodes : IsDir(n) <=> n \in Dirs(I)
    BY <2>1 DEF Told
  <2>5. \A e : Children(e) = Kids(E, e)
    BY DEF Children, Kids
  <2>. QED
    BY <2>2, <2>3, <2>4, <2>5, TreeClosed DEF Closed
<1>6. ASSUME NEW A \in SUBSET X
      PROVE  /\ Up(A) \in SUBSET X /\ A \subseteq Up(A)
             /\ Root \in A /\ Up(A) = A => Closed(E, I, A)
  <2>1. ASSUME NEW n \in Up(A)
        PROVE  n \in X
    <3>1. CASE n \in A
      BY <3>1
    <3>2. CASE n \notin A
      <4>1. PICK e \in A : n \in Kids(E, e) /\ IsDir(n)
        BY <1>5, <2>1, <3>2 DEF Up
      <4>2. e \in X /\ n \in Dirs(I)
        BY <1>5, <4>1
      <4>. QED
        BY <1>5, <4>1, <4>2 DEF Closed
    <3>. QED
      BY <3>1, <3>2
  <2>2. ASSUME Root \in A, Up(A) = A
        PROVE  Closed(E, I, A)
    <3>1. ASSUME NEW e \in A, NEW n \in Kids(E, e) \cap Dirs(I)
          PROVE  n \in A
      <4>1. n \in Children(e) /\ IsDir(n)
        BY <1>5, <3>1
      <4>2. n \in Up(A)
        BY <4>1 DEF Up
      <4>. QED
        BY <2>2, <4>2
    <3>. QED
      BY <2>2, <3>1 DEF Closed
  <2>. QED
    BY <2>1, <2>2 DEF Up
<1>. HIDE DEF X
<1>. DEFINE P(i) == /\ L[i] \in SUBSET X /\ Root \in L[i]
                    /\ Up(L[i]) = L[i] \/ Cardinality(L[i]) > i
            S == {i \in Nat : i <= N => P(i)}
<1>7. 0 \in S
  <2>1. Cardinality({Root}) = 1
    BY FS_Singleton
  <2>2. L[0] = {Root} /\ Root \in X
    BY <1>4, <1>5
  <2>3. L[0] \in SUBSET X /\ Root \in L[0]
    BY ONLY <2>2
  <2>4. Cardinality(L[0]) > 0
    BY ONLY <2>1, <2>2
  <2>. QED
    BY ONLY <2>3, <2>4
<1>8. ASSUME NEW i \in Nat, i \in S
      PROVE  i + 1 \in S
  <2>. SUFFICES ASSUME i + 1 <= N
                PROVE  P(i + 1)
    OBVIOUS
  <2>. DEFINE A == L[i]
              B == L[i + 1]
  <2>1. P(i) /\ B = Up(A)
    BY <1>3, <1>4, <1>8
  <2>. HIDE DEF A, B
  <2>2. A \in SUBSET X /\ Root \in A /\ (Up(A) = A \/ Cardinality(A) > i)
    BY <2>1 DEF A
  <2>3. B \in SUBSET X /\ Root \in B /\ A \subseteq B
    BY <1>6, <2>1, <2>2
  <2>4. CASE Up(A) = A
    BY <2>1, <2>3, <2>4 DEF B
  <2>5. CASE Up(A) # A
    <3>1. Cardinality(A) \in Nat /\ Cardinality(B) \in Nat /\ Cardinality(A) < Cardinality(B)
      <4>1. A # B /\ B \in SUBSET Inodes /\ A \in SUBSET B
        BY <1>5, <2>1, <2>3, <2>5
      <4>. QED
        BY ONLY <4>1, MoreOf
    <3>2. Cardinality(B) > i + 1
      BY <2>2, <2>5, <3>1
    <3>. QED
      BY <2>3, <3>2 DEF B
  <2>. QED
    BY <2>4, <2>5
<1>. HIDE DEF S, P
<1>9. N \in S
  BY <1>3, <1>7, <1>8, AllNat
<1>10. L[N] \in SUBSET X /\ Root \in L[N] /\ (Up(L[N]) = L[N] \/ Cardinality(L[N]) > N)
  BY <1>3, <1>9 DEF S, P
<1>11. Cardinality(L[N]) \in Nat /\ Cardinality(L[N]) <= N
  BY <1>5, <1>10, InodesAre
<1>12. Closed(E, I, L[N])
  BY <1>3, <1>6, <1>10, <1>11
<1>13. X \subseteq L[N]
  BY <1>5, <1>10, <1>12, TreeClosed DEF X
<1>. QED
  BY <1>1, <1>10, <1>13 DEF X

-----------------------------------------------------------------------------
(* The properties of Testfs, from the invariant.                           *)

LEMMA BooksAre ==
    ASSUME Standing
    PROVE  /\ Typed(disk.inode, entries, inode_freemap, used_inode_count, disk.block_freemap,
                    used_block_count)
           /\ Books(disk.inode, inode_freemap, used_inode_count, disk.block_freemap,
                    used_block_count, InUse, crashes)
           /\ InUse = Using(entries, Tree(entries, disk.inode))
           /\ Below(Root) = Tree(entries, disk.inode)
           /\ used_block_count <= MaxFsBlocks
           /\ InUse \in SUBSET Inodes /\ inode_freemap \in SUBSET Bits
           /\ crashes \in Nat /\ crashes <= MaxCrashes
<1>1. OnDisk(disk.inode, entries, inode_freemap, used_inode_count, disk.block_freemap,
             used_block_count)
  BY DEF Standing
<1>2. /\ Typed(disk.inode, entries, inode_freemap, used_inode_count, disk.block_freemap,
               used_block_count)
      /\ Books(disk.inode, inode_freemap, used_inode_count, disk.block_freemap,
               used_block_count, Using(entries, Tree(entries, disk.inode)), crashes)
      /\ used_block_count <= MaxFsBlocks
  BY <1>1, TheDisk
<1>3. Below(Root) = Tree(entries, disk.inode)
  BY BelowIs
<1>4. \A d : Children(d) = Kids(entries, d)
  BY DEF Children, Kids
<1>5. InUse = Using(entries, Tree(entries, disk.inode))
  BY <1>3, <1>4 DEF InUse, Using
<1>6. inode_freemap \in SUBSET Bits
  BY <1>2 DEF Typed
<1>7. InUse \in SUBSET Inodes
  BY <1>2, <1>5, <1>6 DEF Books
<1>8. crashes \in Nat /\ crashes <= MaxCrashes
  BY TestfsAssumption DEF Standing
<1>. QED
  BY <1>2, <1>3, <1>5, <1>6, <1>7, <1>8

LEMMA CoverTold ==
    ASSUME Standing
    PROVE  CountersCover
<1>1. /\ Books(disk.inode, inode_freemap, used_inode_count, disk.block_freemap,
               used_block_count, InUse, crashes)
      /\ InUse \in SUBSET Inodes /\ used_block_count \in Int /\ disk.block_freemap \in Int
      /\ disk.inode \in [Inodes -> InodeType]
  BY BooksAre DEF Typed
<1>2. Blocks(InUse) = Total(Sizes(disk.inode), InUse)
  BY <1>1, BlocksAre
<1>3. Blocks(InUse) <= used_block_count /\ Blocks(InUse) <= disk.block_freemap
  BY <1>1, <1>2 DEF Books
<1>4. Blocks(InUse) <= Min({used_block_count, disk.block_freemap})
  BY <1>1, <1>3, LeastOfTwo
<1>5. /\ Cardinality(InUse) <= used_inode_count
      /\ used_inode_count - Cardinality(inode_freemap) \in (-crashes) .. crashes
      /\ used_block_count - disk.block_freemap \in (-crashes) .. crashes
  BY <1>1 DEF Books
<1>6. Cardinality(Leftover) <= crashes
  <2>1. Leftover = Left(disk.inode, inode_freemap)
    BY DEF Leftover, Left
  <2>. QED
    BY <1>1, <2>1 DEF Books, Few
<1>. QED
  BY <1>4, <1>5, <1>6 DEF CountersCover

LEMMA TypeTold ==
    ASSUME IInv
    PROVE  TypeOK
<1>1. Standing /\ Memory
  BY Stands DEF IInv
<1>. DEFINE F == inode_freemap
            u == used_inode_count
            m == used_block_count
            b == disk.block_freemap
            U == InUse
            c == crashes
            t == Total(Sizes(disk.inode), U)
<1>2. /\ Typed(disk.inode, entries, F, u, b, m) /\ Books(disk.inode, F, u, b, m, U, c)
      /\ m <= MaxFsBlocks /\ U \in SUBSET Inodes /\ F \in SUBSET Bits
      /\ c \in Nat /\ c <= MaxCrashes
  BY <1>1, BooksAre
<1>3. disk.inode \in [Inodes -> InodeType] /\ entries \in Entries /\ u \in Int /\ b \in Int /\ m \in Int
  BY <1>2 DEF Typed
<1>4. /\ Cardinality(U) <= u /\ t <= m /\ t <= b
      /\ u - Cardinality(F) \in (-c) .. c /\ m - b \in (-c) .. c
  BY <1>2 DEF Books
<1>5. Cardinality(U) \in Nat /\ Cardinality(F) \in Nat /\ Cardinality(F) <= FreemapBits
  BY <1>2, InodesAre, BitsAre
<1>6. t \in Nat
  BY <1>2, <1>3, SizesAre
<1>. HIDE DEF F, u, m, b, U, c, t
<1>7. FreemapBits \in Nat /\ MaxFsBlocks \in Nat /\ MaxCrashes \in Nat
  BY TestfsAssumption
<1>8. u \in 0 .. (FreemapBits + MaxCrashes)
  BY <1>2, <1>3, <1>4, <1>5, <1>7
<1>9. m \in 0 .. MaxFsBlocks
  BY <1>2, <1>3, <1>4, <1>6
<1>10. b \in 0 .. (MaxFsBlocks + MaxCrashes)
  BY <1>2, <1>3, <1>4, <1>6, <1>7
<1>11. cur_dir \in Inodes
  BY <1>1 DEF Standing
<1>12. /\ inode \in [Inodes -> InodeType] /\ i_count \in [Inodes -> Nat]
       /\ dirty \in [Inodes -> BOOLEAN] /\ listed \in [Inodes -> 0 .. MaxListed]
       /\ fate \in {"ok", "abort", "stale"} /\ crashes \in 0 .. MaxCrashes
  BY <1>1 DEF Memory
<1>13. entries \in [Inodes -> Seq(Names \X (Inodes \cup {INVALID_INODE_NR}))]
  BY <1>3 DEF Entries
<1>14. F \subseteq Bits
  BY <1>2
<1>. QED
  BY <1>3, <1>8, <1>9, <1>10, <1>11, <1>12, <1>13, <1>14, Zenon DEF TypeOK, F, u, m, b

(* An inode in use has one entry, in one directory. *)
LEMMA OneEntry ==
    ASSUME Standing, NEW n \in InUse, n # Root
    PROVE  \E d \in Tree(entries, disk.inode) : \E p \in DOMAIN entries[d] :
              /\ Entry(d, n) = {p} /\ n \in Kids(entries, d) /\ Leads(entries, d, p)
              /\ \A e \in Tree(entries, disk.inode) \ {d} : Entry(e, n) = {}
<1>. DEFINE X == Tree(entries, disk.inode)
<1>1. Shape(entries, disk.inode, X)
  BY DEF Standing
<1>2. InUse = Using(entries, X) /\ n \in Inodes
  BY BooksAre
<1>3. OnceLed(entries, X)
  BY <1>1 DEF Shape
<1>4. PICK d \in X : n \in Kids(entries, d)
  BY <1>1, <1>2, UsingIs
<1>5. PICK p : Leads(entries, d, p) /\ entries[d][p][2] = n
  BY <1>4, KidsIs
<1>6. n # INVALID_INODE_NR
  BY <1>2, RootIs
<1>. HIDE DEF X
<1>7. \A e, q : q \in Entry(e, n) <=> Leads(entries, e, q) /\ entries[e][q][2] = n
  BY <1>6 DEF Entry, Leads, Live
<1>8. ASSUME NEW e \in X, NEW q, q \in Entry(e, n)
      PROVE  e = d /\ q = p
  <2>1. Leads(entries, e, q) /\ entries[e][q][2] = n
    BY <1>7, <1>8
  <2>2. q \in DOMAIN entries[e] /\ p \in DOMAIN entries[d]
    BY <1>5, <2>1 DEF Leads
  <2>. QED
    BY <1>3, <1>4, <1>5, <2>1, <2>2 DEF OnceLed
<1>9. p \in Entry(d, n) /\ p \in DOMAIN entries[d]
  BY <1>5, <1>7 DEF Leads
<1>10. Entry(d, n) = {p}
  BY <1>4, <1>8, <1>9
<1>11. \A e \in X \ {d} : Entry(e, n) = {}
  BY <1>8
<1>. QED
  BY <1>4, <1>5, <1>9, <1>10, <1>11 DEF X

LEMMA EntriesTold ==
    ASSUME Standing
    PROVE  EntriesLeadToInodes
<1>. DEFINE X == Tree(entries, disk.inode)
<1>1. InUse \subseteq inode_freemap /\ Below(Root) = X
  BY BooksAre DEF Books
<1>2. ASSUME NEW n \in InUse \ {Root}
      PROVE  Cardinality(UNION {{d} \X Entry(d, n) : d \in X}) = 1
  <2>1. PICK d \in X : \E p \in DOMAIN entries[d] :
           Entry(d, n) = {p} /\ \A e \in X \ {d} : Entry(e, n) = {}
    BY OneEntry
  <2>2. PICK p : Entry(d, n) = {p} /\ \A e \in X \ {d} : Entry(e, n) = {}
    BY <2>1
  <2>. HIDE DEF X
  <2>3. UNION {{e} \X Entry(e, n) : e \in X} = {<<d, p>>}
    <3>1. ASSUME NEW z \in UNION {{e} \X Entry(e, n) : e \in X}
          PROVE  z = <<d, p>>
      <4>1. PICK e \in X : z \in {e} \X Entry(e, n)
        BY <3>1
      <4>2. e = d
        BY <2>2, <4>1
      <4>. QED
        BY <2>2, <4>1, <4>2
    <3>2. <<d, p>> \in {d} \X Entry(d, n)
      BY <2>2
    <3>. QED
      BY <2>1, <3>1, <3>2
  <2>. QED
    BY <2>3, FS_Singleton
<1>. QED
  BY <1>1, <1>2 DEF EntriesLeadToInodes

(* As long as nothing has crashed. *)
LEMMA PreciseIs ==
    ASSUME IInv, crashes = 0
    PROVE  Precise(disk.inode, entries, inode_freemap, used_block_count,
                   Tree(entries, disk.inode))
<1>1. Standing /\ Exact(disk, Tree(entries, disk.inode))
  BY Stands DEF IInv
<1>2. disk = Dev(disk.inode, entries, inode_freemap, used_inode_count, disk.block_freemap,
                 used_block_count)
  BY <1>1 DEF Standing, OnDisk
<1>3. Exact(Dev(disk.inode, entries, inode_freemap, used_inode_count, disk.block_freemap,
                used_block_count), Tree(entries, disk.inode))
  BY <1>1, <1>2, Zenon
<1>. QED
  BY <1>3, ExactIs

LEMMA DirectoriesAre == Directories = Dirs(disk.inode)
BY DEF Directories, Dirs

LEMMA ExactTold ==
    ASSUME IInv
    PROVE  CountersExact
<1>. SUFFICES ASSUME crashes = 0
              PROVE  /\ used_inode_count = Cardinality(inode_freemap)
                     /\ used_block_count = Blocks(Inodes) /\ disk.block_freemap = used_block_count
                     /\ \A d \in Directories :
                           LET full == EntriesPerBlock * disk.inode[d].block_count
                           IN  full - EntriesPerBlock < Len(entries[d]) /\ Len(entries[d]) <= full
  BY DEF CountersExact
<1>. DEFINE X == Tree(entries, disk.inode)
<1>1. Standing
  BY Stands
<1>2. Precise(disk.inode, entries, inode_freemap, used_block_count, X)
  BY PreciseIs
<1>3. /\ Books(disk.inode, inode_freemap, used_inode_count, disk.block_freemap,
               used_block_count, InUse, crashes)
      /\ inode_freemap \in SUBSET Inodes
      /\ used_block_count \in Int /\ disk.block_freemap \in Int /\ used_inode_count \in Int
      /\ disk.inode \in [Inodes -> InodeType]
  BY <1>1, <1>2, BooksAre DEF Typed, Precise
<1>4. /\ used_inode_count - Cardinality(inode_freemap) \in (-0) .. 0
      /\ used_block_count - disk.block_freemap \in (-0) .. 0
  BY <1>3 DEF Books
<1>5. Cardinality(inode_freemap) \in Nat
  BY <1>3, InodesAre
<1>6. used_inode_count = Cardinality(inode_freemap) /\ disk.block_freemap = used_block_count
  BY <1>3, <1>4, <1>5
<1>7. \A n \in Inodes \ inode_freemap : disk.inode[n] = NoInode
  BY <1>2 DEF Precise
<1>8. Blocks(Inodes) = Total(Sizes(disk.inode), Inodes)
  BY <1>3, BlocksAre
<1>9. Total(Sizes(disk.inode), Inodes) = Total(Sizes(disk.inode), inode_freemap)
  BY <1>3, <1>7, Unmarked
<1>10. used_block_count = Total(Sizes(disk.inode), inode_freemap)
  BY <1>2 DEF Precise
<1>11. ASSUME NEW d \in Directories
       PROVE  Filled(entries, disk.inode, d)
  BY <1>2, <1>11, DirectoriesAre DEF Precise
<1>. QED
  BY <1>6, <1>8, <1>9, <1>10, <1>11 DEF Filled

(* The entries of a directory in the tree. *)
LEMMA EntriesAre ==
    ASSUME Standing, NEW d \in Tree(entries, disk.inode)
    PROVE  /\ entries[d][1] = <<".", d>>
           /\ entries[d][2][1] = ".." /\ entries[d][2][2] \in Tree(entries, disk.inode)
           /\ entries[d][2] = <<"..", entries[d][2][2]>>
           /\ OnceNamed(entries, d)
           /\ IF d = Root THEN entries[d][2][2] = Root ELSE d \in Kids(entries, entries[d][2][2])
           /\ \A p \in DOMAIN entries[d] :
                 Live(entries[d][p]) => entries[d][p][2] \in InUse
<1>. DEFINE X == Tree(entries, disk.inode)
            s == entries[d]
<1>1. Shape(entries, disk.inode, X) /\ entries \in Entries
  BY DEF Standing
<1>2. Dotted(entries, d, X) /\ OnceNamed(entries, d)
  BY <1>1 DEF Shape
<1>3. InUse = Using(entries, X) /\ InUse \in SUBSET Inodes
  BY BooksAre
<1>4. X \subseteq InUse /\ X \subseteq Inodes /\ \A m \in Kids(entries, d) : m \in InUse
  BY <1>1, <1>3, UsingIs
<1>5. /\ Len(s) >= 2 /\ s[1] = <<".", d>> /\ s[2][1] = ".." /\ s[2][2] \in X
      /\ IF d = Root THEN s[2][2] = Root ELSE d \in Kids(entries, s[2][2])
  BY <1>2 DEF Dotted
<1>6. s \in Seq(Names \X (Inodes \cup {INVALID_INODE_NR})) /\ d \in X /\ d \in Inodes
  BY <1>1, <1>4 DEF Entries
<1>7. DOMAIN s = 1 .. Len(s) /\ Len(s) \in Nat
  BY <1>6
<1>8. s[2] = <<s[2][1], s[2][2]>>
  <2>1. 2 \in 1 .. Len(s)
    BY <1>5, <1>7
  <2>2. s[2] \in Names \X (Inodes \cup {INVALID_INODE_NR})
    BY <1>6, <2>1
  <2>. QED
    BY <2>2
<1>9. ASSUME NEW p \in DOMAIN s, Live(s[p])
      PROVE  s[p][2] \in InUse
  <2>1. CASE s[p][1] \notin Dots
    <3>1. Leads(entries, d, p)
      BY <1>9, <2>1 DEF Leads
    <3>2. s[p][2] \in Kids(entries, d)
      BY <3>1, KidsIs
    <3>. QED
      BY <1>4, <3>2
  <2>2. CASE s[p][1] \in Dots
    <3>1. 1 \in DOMAIN s /\ 2 \in DOMAIN s
      BY <1>5, <1>7
    <3>2. s[1][1] = "." /\ s[1][2] = d /\ d \in InUse /\ s[2][2] \in InUse
      BY <1>4, <1>5, <1>6
    <3>3. Live(s[1]) /\ Live(s[2])
      BY <1>3, <3>2, RootIs DEF Live
    <3>4. p = 1 \/ p = 2
      BY <1>2, <1>5, <1>9, <2>2, <3>1, <3>2, <3>3 DEF OnceNamed, Dots
    <3>. QED
      BY <3>2, <3>4
  <2>. QED
    BY <2>1, <2>2
<1>. QED
  BY <1>2, <1>5, <1>8, <1>9

LEMMA TreeTold ==
    ASSUME IInv
    PROVE  TreeIntact
<1>. SUFFICES ASSUME crashes = 0
              PROVE  TreeIntact
  BY DEF TreeIntact
<1>. DEFINE X == Tree(entries, disk.inode)
<1>1. Standing
  BY Stands
<1>2. Precise(disk.inode, entries, inode_freemap, used_block_count, X)
  BY PreciseIs
<1>3. /\ InUse = Using(entries, X) /\ Below(Root) = X
      /\ inode_freemap \in SUBSET Inodes
      /\ disk.inode \in [Inodes -> InodeType]
  BY <1>1, <1>2, BooksAre DEF Typed, Precise
<1>4. /\ inode_freemap = InUse /\ Directories = X
      /\ \A n \in Inodes \ inode_freemap : disk.inode[n] = NoInode
      /\ \A n \in inode_freemap : disk.inode[n].i_type # "I_NONE"
  BY <1>2, <1>3, DirectoriesAre DEF Precise
<1>5. inode_freemap = {n \in Inodes : disk.inode[n].i_type # "I_NONE"}
  BY <1>3, <1>4 DEF NoInode
<1>6. cur_dir \in Directories
  BY <1>1, <1>4 DEF Standing
<1>7. Root \in X
  BY TreeClosed DEF Closed
<1>. HIDE DEF X
<1>8. ASSUME NEW n \in inode_freemap \ {Root}
      PROVE  \E d \in Directories :
                /\ Cardinality(Entry(d, n)) = 1
                /\ \A e \in Directories \ {d} : Entry(e, n) = {}
                /\ n \in Directories => entries[n][2] = <<"..", d>>
  <2>1. n \in InUse /\ n # Root
    BY <1>4
  <2>2. PICK d \in X : \E p \in DOMAIN entries[d] :
           /\ Entry(d, n) = {p} /\ n \in Kids(entries, d) /\ Leads(entries, d, p)
           /\ \A e \in X \ {d} : Entry(e, n) = {}
    BY <1>1, <2>1, OneEntry DEF X
  <2>3. PICK p : Entry(d, n) = {p} /\ \A e \in X \ {d} : Entry(e, n) = {}
    BY <2>2
  <2>4. Cardinality(Entry(d, n)) = 1
    BY <2>3, FS_Singleton
  <2>5. ASSUME n \in X
        PROVE  entries[n][2] = <<"..", d>>
    <3>. DEFINE e == entries[n][2][2]
    <3>1. e \in X /\ n \in Kids(entries, e) /\ entries[n][2] = <<"..", e>>
      BY <1>1, <2>1, <2>5, EntriesAre DEF X
    <3>. HIDE DEF e
    <3>2. PICK q : Leads(entries, e, q) /\ entries[e][q][2] = n
      BY <3>1, KidsIs
    <3>3. q \in Entry(e, n)
      BY <3>2 DEF Leads, Entry
    <3>4. e = d
      BY <2>3, <3>1, <3>3
    <3>. QED
      BY <3>1, <3>4
  <2>. QED
    BY <1>4, <2>3, <2>4, <2>5
<1>9. ASSUME NEW d \in Directories
      PROVE  /\ entries[d][1] = <<".", d>>
             /\ \A p, q \in DOMAIN entries[d] :
                   /\ Live(entries[d][p]) => entries[d][p][2] \in inode_freemap
                   /\ Live(entries[d][p]) /\ Live(entries[d][q])
                      /\ entries[d][p][1] = entries[d][q][1] => p = q
  <2>1. /\ entries[d][1] = <<".", d>> /\ OnceNamed(entries, d)
        /\ \A p \in DOMAIN entries[d] : Live(entries[d][p]) => entries[d][p][2] \in InUse
    BY <1>1, <1>4, <1>9, EntriesAre DEF X
  <2>. QED
    BY <1>4, <2>1 DEF OnceNamed
<1>10. Below(Root) = Directories
  BY <1>3, <1>4
<1>. QED
  BY <1>5, <1>6, <1>8, <1>9, <1>10 DEF TreeIntact

LEMMA MemoryTold ==
    ASSUME IInv
    PROVE  MemoryAgrees
BY DEF IInv, Memory

(* The types of the variables and the bounds of the counters: none of the  *)
(* super block's goes below zero (super.c:220, 251), and only a crash      *)
(* between a freemap and its counter (super.c:208, 219, 235, 250) takes    *)
(* one beyond what there is.                                               *)
THEOREM TypeCorrect == Spec => []TypeOK
BY Invariance, TypeTold, PTL

(* Whatever the commands do (testfs.c, dir.c, inode.c), until a crash the  *)
(* directories are the tree under the root, in which every inode in use    *)
(* but the root has one entry, `..' leads up, and no name stands twice.    *)
THEOREM TreeStaysIntact == Spec => []TreeIntact
BY Invariance, TreeTold, PTL

(* References and dirty flags (inode.c:127, 166) are those of the current  *)
(* directory and of the files ls lost, and memory says what the disk says. *)
THEOREM MemoryStaysRight == Spec => []MemoryAgrees
BY Invariance, MemoryTold, PTL

(* Until a crash, the counters of the super block (super.c:200, 228) are   *)
(* exact, and a directory has the blocks its entries take and no more.     *)
THEOREM CountersStayExact == Spec => []CountersExact
BY Invariance, ExactTold, PTL

(* Cut short at any write, a command leaves a device on which every inode  *)
(* an entry leads to is marked, and has no other entry (dir.c:172, 220).   *)
(* This says nothing of blocks, and it is proved up to the first create    *)
(* that takes an inode a cut removal left with its old contents            *)
(* (inode.c:211; fate is "stale" then).                                    *)
THEOREM EntriesAlwaysLead == Spec => []EntriesLeadToInodes
<1>1. IInv => EntriesLeadToInodes
  BY Stands, EntriesTold
<1>. QED
  BY <1>1, Invariance, PTL

(* The counters cover what is in use, a crash puts them off by one at      *)
(* most, and leaves one free inode with its old contents at most.  This is *)
(* proved up to the first create that takes such an inode (inode.c:211),   *)
(* which brings a block_count back that no block stands behind.            *)
THEOREM CountersAlwaysCover == Spec => []CountersCover
<1>1. IInv => CountersCover
  BY Stands, CoverTold
<1>. QED
  BY <1>1, Invariance, PTL
=============================================================================

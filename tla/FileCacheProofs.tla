-------------------------- MODULE FileCacheProofs --------------------------
(***************************************************************************)
(* Safety of the file cache for all files, sizes and hashes, any number of *)
(* threads and any capacity.                                               *)
(***************************************************************************)
EXTENDS MCFileCache, Counting, SequenceTheorems

-----------------------------------------------------------------------------
(* The list.  When the file f takes size[f] bytes, the files F take        *)
(* Total(size, F).                                                         *)

ListOK == /\ lru \in Seq(Files) /\ size \in [Files -> Nat]
          /\ \A i, j \in DOMAIN lru : lru[i] = lru[j] => i = j

LEMMA ListFacts ==
    ASSUME lru \in Seq(Files)
    PROVE  /\ Len(lru) \in Nat /\ DOMAIN lru = 1 .. Len(lru)
           /\ \A i \in DOMAIN lru : lru[i] \in Files
           /\ IsFiniteSet(DOMAIN lru) /\ Cardinality(DOMAIN lru) = Len(lru)
           /\ \A P \in SUBSET (DOMAIN lru) :
                 /\ IsFiniteSet(P) /\ IsFiniteSet({lru[i] : i \in P})
                 /\ {lru[i] : i \in P} \in SUBSET Files
<1>1. Len(lru) \in Nat /\ DOMAIN lru = 1 .. Len(lru) /\ \A i \in DOMAIN lru : lru[i] \in Files
  BY LenProperties
<1>2. IsFiniteSet(DOMAIN lru) /\ Cardinality(DOMAIN lru) = Len(lru)
  <2>. DEFINE n == Len(lru)
  <2>. HIDE DEF n
  <2>1. n \in Nat => IsFiniteSet(1 .. n) /\ Cardinality(1 .. n) = n
    BY FS_Interval
  <2>. QED
    BY <1>1, <2>1 DEF n
<1>3. ASSUME NEW P \in SUBSET (DOMAIN lru)
      PROVE  IsFiniteSet(P) /\ IsFiniteSet({lru[i] : i \in P})
  <2>1. IsFiniteSet(P)
    BY <1>2, FS_Subset
  <2>2. [i \in P |-> lru[i]] \in Surjection(P, {lru[i] : i \in P})
    BY DEF Surjection
  <2>. QED
    BY <2>1, <2>2, FS_Surjection
<1>. QED
  BY <1>1, <1>2, <1>3

(* FreedBy adds up the sizes in any order. *)
Freeing(g, P) == [s \in SUBSET P |->
                    IF s = {} THEN 0
                    ELSE LET x == CHOOSE x \in s : TRUE IN size[lru[x]] + g[s \ {x}]]

LEMMA FreedByContent ==
    ASSUME ListOK, NEW P \in SUBSET (DOMAIN lru)
    PROVE  /\ FreedBy(P) = Total(size, {lru[i] : i \in P})
           /\ FreedBy(P) \in Nat
<1>. DEFINE F(s) == {lru[i] : i \in s}
            taken(s) == Total(size, F(s))
            h == [s \in SUBSET P |-> taken(s)]
<1>1. /\ lru \in Seq(Files) /\ size \in [Files -> Nat]
      /\ \A i, j \in P : lru[i] = lru[j] => i = j
      /\ \A i \in P : lru[i] \in Files
      /\ \A s \in SUBSET P : IsFiniteSet(s) /\ IsFiniteSet(F(s)) /\ F(s) \in SUBSET Files
  BY ListFacts DEF ListOK
<1>2. \A s \in SUBSET P : taken(s) \in Nat
  BY <1>1, TotalFinite
<1>3. ASSUME NEW s \in SUBSET P, NEW x \in s
      PROVE  taken(s) = size[lru[x]] + taken(s \ {x})
  <2>1. F(s) = F(s \ {x}) \cup {lru[x]} /\ lru[x] \notin F(s \ {x})
    BY <1>1
  <2>2. /\ F(s \ {x}) \in SUBSET Files /\ IsFiniteSet(F(s \ {x})) /\ lru[x] \in Files
        /\ taken(s \ {x}) \in Nat /\ size[lru[x]] \in Nat
    BY <1>1, <1>2
  <2>3. taken(s) = taken(s \ {x}) + size[lru[x]]
    <3>. DEFINE E == F(s \ {x})
    <3>. HIDE DEF E
    <3>1. E \in SUBSET Files /\ IsFiniteSet(E) /\ lru[x] \in Files /\ lru[x] \notin E
      BY <2>1, <2>2 DEF E
    <3>2. Total(size, E \cup {lru[x]}) = Total(size, E) + size[lru[x]]
      BY <1>1, <3>1, TotalWith
    <3>. QED
      BY <2>1, <3>2 DEF E
  <2>. QED
    BY <2>2, <2>3
<1>4. taken({}) = 0
  <2>1. F({}) = {}
    OBVIOUS
  <2>. QED
    BY <2>1, TotalEmpty
<1>. HIDE DEF taken
<1>5. h = Freeing(h, P)
  <2>1. \A s \in SUBSET P : s # {} => (CHOOSE x \in s : TRUE) \in s
    OBVIOUS
  <2>2. \A s \in SUBSET P : h[s] = Freeing(h, P)[s]
    BY <1>3, <1>4, <2>1 DEF Freeing
  <2>. QED
    BY <2>2 DEF Freeing
<1>. DEFINE g == CHOOSE f : f = Freeing(f, P)
<1>6. FreedBy(P) = g[P]
  BY Zenon DEF FreedBy, MapThenSumSet, MapThenFoldSet, Freeing
<1>7. g = Freeing(g, P)
  BY <1>5, Zenon
<1>. HIDE DEF g
<1>8. \A s \in SUBSET P :
         g[s] = IF s = {} THEN 0
                ELSE LET x == CHOOSE x \in s : TRUE IN size[lru[x]] + g[s \ {x}]
  <2>1. \A s \in SUBSET P :
           Freeing(g, P)[s] = IF s = {} THEN 0
                              ELSE LET x == CHOOSE x \in s : TRUE
                                   IN size[lru[x]] + g[s \ {x}]
    BY DEF Freeing
  <2>. QED
    BY <1>7, <2>1, Zenon
<1>9. g[P] = taken(P)
  <2>. DEFINE N == {n \in Nat : \A s \in SUBSET P : Cardinality(s) = n => g[s] = taken(s)}
  <2>1. 0 \in N
    BY <1>1, <1>4, <1>8, FS_EmptySet
  <2>2. ASSUME NEW n \in Nat, n \in N
        PROVE  n + 1 \in N
    <3>. SUFFICES ASSUME NEW s \in SUBSET P, Cardinality(s) = n + 1
                  PROVE  g[s] = taken(s)
      OBVIOUS
    <3>. DEFINE x == CHOOSE x \in s : TRUE
    <3>1. s # {} /\ x \in s
      BY FS_EmptySet
    <3>. HIDE DEF x
    <3>2. s \ {x} \in SUBSET P /\ Cardinality(s \ {x}) = n
      <4>1. IsFiniteSet(s)
        BY <1>1
      <4>2. Cardinality(s \ {x}) = Cardinality(s) - 1
        BY <3>1, <4>1, FS_RemoveElement
      <4>. QED
        BY <4>2
    <3>3. g[s \ {x}] = taken(s \ {x})
      BY <2>2, <3>2
    <3>4. taken(s) = size[lru[x]] + taken(s \ {x})
      BY <1>3, <3>1
    <3>5. g[s] = size[lru[x]] + g[s \ {x}]
      BY <1>8, <3>1 DEF x
    <3>. QED
      BY <3>3, <3>4, <3>5
  <2>. HIDE DEF N
  <2>3. \A n \in Nat : n \in N
    BY <2>1, <2>2, AllNat
  <2>4. Cardinality(P) \in Nat
    BY <1>1, FS_CardinalityType
  <2>. QED
    BY <2>3, <2>4 DEF N
<1>. QED
  BY <1>2, <1>6, <1>9 DEF taken

-----------------------------------------------------------------------------
(* Entries taken out of a sequence, and entries picked from the list.      *)

(* A sequence without its component at k. *)
LEMMA Shifted ==
    ASSUME NEW n \in Nat, NEW k \in 1 .. n, NEW s, NEW r,
           \A i, j \in 1 .. n : s[i] = s[j] => i = j,
           \A i \in 1 .. (n - 1) : r[i] = IF i < k THEN s[i] ELSE s[i + 1]
    PROVE  /\ \A i, j \in 1 .. (n - 1) : r[i] = r[j] => i = j
           /\ \A i \in 1 .. (n - 1) : \E j \in 1 .. n : j # k /\ r[i] = s[j]
           /\ \A j \in 1 .. n : j # k => \E i \in 1 .. (n - 1) : r[i] = s[j]
<1>. DEFINE p == [i \in 1 .. (n - 1) |-> IF i < k THEN i ELSE i + 1]
<1>1. \A i \in 1 .. (n - 1) : p[i] \in 1 .. n /\ p[i] # k
  OBVIOUS
<1>2. \A i, j \in 1 .. (n - 1) : p[i] = p[j] => i = j
  OBVIOUS
<1>3. \A i \in 1 .. (n - 1) : r[i] = s[p[i]]
  OBVIOUS
<1>4. \A i \in 1 .. n : i # k => \E j \in 1 .. (n - 1) : p[j] = i
  <2>. SUFFICES ASSUME NEW i \in 1 .. n, i # k
                PROVE  \E j \in 1 .. (n - 1) : p[j] = i
    OBVIOUS
  <2>1. CASE i < k
    BY <2>1
  <2>2. CASE i > k
    <3>1. i - 1 \in 1 .. (n - 1) /\ p[i - 1] = i
      BY <2>2
    <3>. QED
      BY <3>1
  <2>. QED
    BY <2>1, <2>2
<1>. HIDE DEF p
<1>5. \A i, j \in 1 .. (n - 1) : r[i] = r[j] => i = j
  BY <1>1, <1>2, <1>3
<1>6. \A i \in 1 .. (n - 1) : \E j \in 1 .. n : j # k /\ r[i] = s[j]
  BY <1>1, <1>3
<1>7. \A j \in 1 .. n : j # k => \E i \in 1 .. (n - 1) : r[i] = s[j]
  BY <1>3, <1>4
<1>. QED
  BY <1>5, <1>6, <1>7

LEMMA RemoveFirstFacts ==
    ASSUME NEW T, NEW s \in Seq(T), NEW f \in ToSet(s),
           \A i, j \in DOMAIN s : s[i] = s[j] => i = j
    PROVE  /\ RemoveFirst(s, f) \in Seq(T)
           /\ Len(RemoveFirst(s, f)) = Len(s) - 1
           /\ \A i, j \in DOMAIN RemoveFirst(s, f) :
                 RemoveFirst(s, f)[i] = RemoveFirst(s, f)[j] => i = j
           /\ ToSet(RemoveFirst(s, f)) = ToSet(s) \ {f}
           /\ \A k \in DOMAIN s : s[k] = f =>
                 RemoveFirst(s, f) = SubSeq(s, 1, k - 1) \o SubSeq(s, k + 1, Len(s))
<1>1. PICK n \in Nat : n = Len(s)
  BY LenProperties
<1>2. DOMAIN s = 1 .. n /\ \A i \in 1 .. n : s[i] \in T
  BY <1>1, LenProperties
<1>3. PICK k \in 1 .. n : s[k] = f
  BY <1>2 DEF ToSet
<1>4. {i \in 1 .. Len(s) : s[i] = f} = {k}
  BY <1>1, <1>2, <1>3
<1>5. Min({k}) = k
  BY <1>3 DEF Min
<1>. DEFINE p == SubSeq(s, 1, k - 1)
            q == SubSeq(s, k + 1, n)
            r == p \o q
<1>6. RemoveFirst(s, f) = r
  BY <1>1, <1>3, <1>4, <1>5 DEF RemoveFirst, SelectInSeq, RemoveAt
<1>7. /\ p \in Seq(T) /\ Len(p) = k - 1
      /\ \A i \in 1 .. (k - 1) : p[i] = s[i]
  <2>1. \A i \in 1 .. (k - 1) : s[i] \in T /\ 1 + i - 1 = i
    BY <1>2, <1>3
  <2>2. Len(p) = IF 1 <= k - 1 THEN (k - 1) - 1 + 1 ELSE 0
    BY <1>3, <2>1, SubSeqProperties
  <2>3. Len(p) = k - 1
    BY <1>3, <2>2
  <2>. QED
    BY <1>3, <2>1, <2>3, SubSeqProperties
<1>8. /\ q \in Seq(T) /\ Len(q) = n - k
      /\ \A i \in 1 .. (n - k) : q[i] = s[k + 1 + i - 1]
  <2>1. \A i \in (k + 1) .. n : s[i] \in T
    BY <1>2, <1>3
  <2>2. /\ q \in Seq(T)
        /\ Len(q) = IF k + 1 <= n THEN n - (k + 1) + 1 ELSE 0
        /\ \A i \in 1 .. (n - (k + 1) + 1) : q[i] = s[k + 1 + i - 1]
    BY <1>3, <2>1, SubSeqProperties
  <2>3. Len(q) = n - k
    BY <1>3, <2>2
  <2>4. 1 .. (n - (k + 1) + 1) = 1 .. (n - k)
    BY <1>3
  <2>. QED
    BY <2>2, <2>3, <2>4
<1>. HIDE DEF p, q
<1>9. /\ r \in Seq(T) /\ Len(r) = Len(p) + Len(q)
      /\ \A i \in 1 .. (Len(p) + Len(q)) :
            r[i] = IF i <= Len(p) THEN p[i] ELSE q[i - Len(p)]
  BY <1>7, <1>8, ConcatProperties
<1>. HIDE DEF r
<1>10. Len(p) + Len(q) = n - 1
  BY <1>3, <1>7, <1>8
<1>11. \A i \in 1 .. (n - 1) : r[i] = IF i < k THEN s[i] ELSE s[i + 1]
  <2>. SUFFICES ASSUME NEW i \in 1 .. (n - 1)
                PROVE  r[i] = IF i < k THEN s[i] ELSE s[i + 1]
    OBVIOUS
  <2>1. r[i] = IF i <= k - 1 THEN p[i] ELSE q[i - (k - 1)]
    BY <1>7, <1>9, <1>10
  <2>2. CASE i < k
    BY <1>3, <1>7, <2>1, <2>2
  <2>3. CASE i >= k
    <3>1. i - (k - 1) \in 1 .. (n - k) /\ k + 1 + (i - (k - 1)) - 1 = i + 1
      BY <1>3, <2>3
    <3>2. q[i - (k - 1)] = s[i + 1]
      BY <1>8, <3>1
    <3>. QED
      BY <1>3, <2>1, <2>3, <3>2
  <2>4. i < k \/ i >= k
    BY <1>3
  <2>. QED
    BY <2>2, <2>3, <2>4
<1>12. Len(r) = n - 1 /\ DOMAIN r = 1 .. (n - 1)
  BY <1>9, <1>10, LenProperties
<1>13. \A i, j \in 1 .. n : s[i] = s[j] => i = j
  BY <1>2
<1>14. /\ \A i, j \in 1 .. (n - 1) : r[i] = r[j] => i = j
       /\ \A i \in 1 .. (n - 1) : \E j \in 1 .. n : j # k /\ r[i] = s[j]
       /\ \A j \in 1 .. n : j # k => \E i \in 1 .. (n - 1) : r[i] = s[j]
  BY <1>11, <1>13, Shifted
<1>15. ToSet(r) = ToSet(s) \ {f}
  <2>1. \A j \in 1 .. n : s[j] = f => j = k
    BY <1>3, <1>13
  <2>2. /\ \A x : x \in ToSet(s) <=> \E i \in 1 .. n : s[i] = x
        /\ \A x : x \in ToSet(r) <=> \E i \in 1 .. (n - 1) : r[i] = x
    <3>1. \A t, x : x \in ToSet(t) <=> \E i \in DOMAIN t : t[i] = x
      BY DEF ToSet
    <3>2. DOMAIN s = 1 .. n /\ DOMAIN r = 1 .. (n - 1)
      BY <1>2, <1>12
    <3>3. \A x : x \in ToSet(s) <=> \E i \in 1 .. n : s[i] = x
      BY <3>1, <3>2
    <3>4. \A x : x \in ToSet(r) <=> \E i \in 1 .. (n - 1) : r[i] = x
      BY <3>1, <3>2
    <3>. QED
      BY <3>3, <3>4
  <2>3. \A x : x \in ToSet(r) => x \in ToSet(s) /\ x # f
    <3>. SUFFICES ASSUME NEW x, x \in ToSet(r) PROVE x \in ToSet(s) /\ x # f
      OBVIOUS
    <3>1. PICK i \in 1 .. (n - 1) : r[i] = x
      BY <2>2
    <3>2. PICK j \in 1 .. n : j # k /\ x = s[j]
      BY <1>14, <3>1
    <3>. QED
      BY <2>1, <2>2, <3>2
  <2>4. \A x : x \in ToSet(s) /\ x # f => x \in ToSet(r)
    BY <1>3, <1>14, <2>2, Zenon
  <2>. QED
    BY <2>3, <2>4
<1>16. \A j \in DOMAIN s : s[j] = f => j = k
  BY <1>2, <1>3, <1>13
<1>17. RemoveFirst(s, f) = SubSeq(s, 1, k - 1) \o SubSeq(s, k + 1, Len(s))
  BY <1>1, <1>6 DEF p, q, r
<1>. QED
  BY <1>1, <1>6, <1>9, <1>12, <1>14, <1>15, <1>16, <1>17

LEMMA ToSetOf ==
    ASSUME NEW s, NEW n, DOMAIN s = 1 .. n, NEW x
    PROVE  x \in ToSet(s) <=> \E i \in 1 .. n : s[i] = x
BY DEF ToSet

LEMMA AppendFacts ==
    ASSUME NEW T, NEW s \in Seq(T), NEW f \in T, f \notin ToSet(s),
           \A i, j \in DOMAIN s : s[i] = s[j] => i = j
    PROVE  /\ s \o <<f>> \in Seq(T)
           /\ \A i, j \in DOMAIN (s \o <<f>>) : (s \o <<f>>)[i] = (s \o <<f>>)[j] => i = j
           /\ ToSet(s \o <<f>>) = ToSet(s) \cup {f}
<1>. DEFINE h == <<f>>
            longer == s \o h
<1>1. PICK n \in Nat : n = Len(s) /\ DOMAIN s = 1 .. n
  BY LenProperties
<1>2. h \in Seq(T) /\ Len(h) = 1 /\ h[1] = f
  OBVIOUS
<1>. HIDE DEF h
<1>3. /\ longer \in Seq(T) /\ Len(longer) = Len(s) + Len(h)
      /\ \A i \in 1 .. (Len(s) + Len(h)) : longer[i] = IF i <= Len(s) THEN s[i] ELSE h[i - Len(s)]
  BY <1>2, ConcatProperties
<1>. HIDE DEF longer
<1>4. DOMAIN longer = 1 .. (n + 1)
  <2>1. Len(longer) = n + 1
    BY <1>1, <1>2, <1>3
  <2>. QED
    BY <1>3, <2>1, LenProperties
<1>5. \A i \in 1 .. (n + 1) : longer[i] = IF i <= n THEN s[i] ELSE f
  <2>. SUFFICES ASSUME NEW i \in 1 .. (n + 1) PROVE longer[i] = IF i <= n THEN s[i] ELSE f
    OBVIOUS
  <2>1. longer[i] = IF i <= n THEN s[i] ELSE h[i - n]
    BY <1>1, <1>2, <1>3
  <2>2. ~(i <= n) => i - n = 1
    OBVIOUS
  <2>. QED
    BY <1>2, <2>1, <2>2
<1>6. \A g : g \in ToSet(s) <=> \E i \in 1 .. n : s[i] = g
  BY <1>1, ToSetOf
<1>7. \A i, j \in 1 .. (n + 1) : longer[i] = longer[j] => i = j
  <2>1. /\ \A i, j \in 1 .. n : s[i] = s[j] => i = j
        /\ \A i \in 1 .. n : s[i] # f
    BY <1>1, <1>6
  <2>. QED
    BY <1>5, <2>1
<1>8. \A g : g \in ToSet(longer) <=> g \in ToSet(s) \/ g = f
  <2>. SUFFICES ASSUME NEW g
                PROVE  g \in ToSet(longer) <=> g \in ToSet(s) \/ g = f
    OBVIOUS
  <2>1. g \in ToSet(longer) <=> \E i \in 1 .. (n + 1) : longer[i] = g
    BY <1>4, ToSetOf
  <2>2. \A i \in 1 .. n : i \in 1 .. (n + 1) /\ longer[i] = s[i]
    BY <1>5
  <2>3. n + 1 \in 1 .. (n + 1) /\ longer[n + 1] = f
    BY <1>5
  <2>4. \A i \in 1 .. (n + 1) : i \in 1 .. n \/ i = n + 1
    OBVIOUS
  <2>. QED
    BY <1>6, <2>1, <2>2, <2>3, <2>4
<1>9. ToSet(longer) = ToSet(s) \cup {f}
  BY <1>8
<1>. QED
  BY <1>3, <1>4, <1>7, <1>9 DEF longer, h

LEMMA PositionFacts ==
    ASSUME NEW n \in Nat, NEW P \in SUBSET (1 .. n)
    PROVE  /\ Cardinality(P) \in Nat
           /\ \A k \in 1 .. Cardinality(P) : Position(P, k) \in P
           /\ \A k, m \in 1 .. Cardinality(P) : Position(P, k) = Position(P, m) => k = m
           /\ \A i \in P : \E k \in 1 .. Cardinality(P) : Position(P, k) = i
<1>. DEFINE below(i) == {j \in P : j < i}
            count == Cardinality(P)
            rank == [i \in P |-> Cardinality(below(i)) + 1]
<1>1. IsFiniteSet(P) /\ count \in Nat
  <2>1. IsFiniteSet(1 .. n)
    BY FS_Interval
  <2>. QED
    BY <2>1, FS_Subset, FS_CardinalityType
<1>2. \A i \in P : IsFiniteSet(below(i)) /\ Cardinality(below(i)) \in Nat
  BY <1>1, FS_Subset, FS_CardinalityType
<1>3. ASSUME NEW i \in P, NEW S \in SUBSET P, below(i) \cup {i} \subseteq S
      PROVE  Cardinality(below(i)) + 1 <= Cardinality(S)
  <2>1. i \notin below(i)
    OBVIOUS
  <2>. DEFINE before == below(i)
  <2>2. IsFiniteSet(before) /\ Cardinality(before) \in Nat
    BY <1>2
  <2>. HIDE DEF before
  <2>3. Cardinality(before \cup {i}) = Cardinality(before) + 1
    BY <2>1, <2>2, FS_AddElement DEF before
  <2>4. IsFiniteSet(S) /\ before \cup {i} \subseteq S
    BY <1>1, <1>3, FS_Subset DEF before
  <2>5. Cardinality(before \cup {i}) <= Cardinality(S)
    BY <2>4, FS_Subset
  <2>. QED
    BY <2>3, <2>5 DEF before
<1>4. \A i \in P : rank[i] \in 1 .. count
  <2>. SUFFICES ASSUME NEW i \in P PROVE rank[i] \in 1 .. count
    OBVIOUS
  <2>1. Cardinality(below(i)) + 1 <= count
    BY <1>3
  <2>2. Cardinality(below(i)) \in Nat
    BY <1>2
  <2>. HIDE DEF below, count
  <2>. QED
    BY <1>1, <2>1, <2>2
<1>5. \A i, j \in P : i < j => rank[i] < rank[j]
  <2>. SUFFICES ASSUME NEW i \in P, NEW j \in P, i < j PROVE rank[i] < rank[j]
    OBVIOUS
  <2>1. below(i) \cup {i} \subseteq below(j)
    <3>1. \A m \in P : m < i => m < j
      OBVIOUS
    <3>. QED
      BY <3>1
  <2>2. Cardinality(below(i)) + 1 <= Cardinality(below(j))
    BY <1>3, <2>1
  <2>3. Cardinality(below(i)) \in Nat /\ Cardinality(below(j)) \in Nat
    BY <1>2
  <2>. HIDE DEF below
  <2>. QED
    BY <2>2, <2>3
<1>. HIDE DEF rank, count
<1>6. \A i, j \in P : rank[i] = rank[j] => i = j
  BY <1>1, <1>4, <1>5
<1>7. rank \in Injection(P, 1 .. count)
  <2>1. rank \in [P -> 1 .. count]
    BY <1>4 DEF rank
  <2>. QED
    BY <1>6, <2>1 DEF Injection, IsInjective
<1>8. IsFiniteSet(1 .. count) /\ Cardinality(1 .. count) = count
  BY <1>1, FS_Interval
<1>9. rank \in Surjection(P, 1 .. count)
  <2>1. Cardinality(P) = Cardinality(1 .. count)
    BY <1>8 DEF count
  <2>. QED
    BY <1>7, <1>8, <2>1, FS_Injection
<1>10. \A k \in 1 .. count : \E i \in P : rank[i] = k
  BY <1>9 DEF Surjection
<1>11. \A k \in 1 .. count : Position(P, k) \in P /\ rank[Position(P, k)] = k
  <2>. SUFFICES ASSUME NEW k \in 1 .. count
                PROVE  Position(P, k) \in P /\ rank[Position(P, k)] = k
    OBVIOUS
  <2>1. \A i \in P : Cardinality(below(i)) = k - 1 <=> rank[i] = k
    <3>. SUFFICES ASSUME NEW i \in P
                  PROVE  Cardinality(below(i)) = k - 1 <=> rank[i] = k
      OBVIOUS
    <3>1. rank[i] = Cardinality(below(i)) + 1 /\ Cardinality(below(i)) \in Nat
      BY <1>2 DEF rank
    <3>. HIDE DEF below
    <3>. QED
      BY <1>1, <3>1
  <2>2. \E i \in P : Cardinality(below(i)) = k - 1
    BY <1>10, <2>1
  <2>3. Position(P, k) \in P /\ Cardinality(below(Position(P, k))) = k - 1
    BY <2>2, Zenon DEF Position
  <2>. QED
    BY <2>1, <2>3
<1>. QED
  BY <1>1, <1>4, <1>6, <1>11 DEF count

LEMMA AtFacts ==
    ASSUME ListOK, NEW P \in SUBSET (DOMAIN lru)
    PROVE  /\ At(P) \in Seq(Files) /\ Cardinality(P) \in Nat
           /\ Len(At(P)) = Cardinality(P) /\ DOMAIN At(P) = 1 .. Cardinality(P)
           /\ \A i, j \in DOMAIN At(P) : At(P)[i] = At(P)[j] => i = j
           /\ ToSet(At(P)) = {lru[i] : i \in P}
           /\ P = {} => At(P) = <<>>
<1>. DEFINE count == Cardinality(P)
<1>1. /\ Len(lru) \in Nat /\ P \in SUBSET (1 .. Len(lru))
      /\ \A i \in P : lru[i] \in Files
      /\ \A i, j \in P : lru[i] = lru[j] => i = j
  BY ListFacts DEF ListOK
<1>2. /\ count \in Nat
      /\ \A k \in 1 .. count : Position(P, k) \in P
      /\ \A k, m \in 1 .. count : Position(P, k) = Position(P, m) => k = m
      /\ \A i \in P : \E k \in 1 .. count : Position(P, k) = i
  BY <1>1, PositionFacts
<1>3. P = {} => count = 0
  BY FS_EmptySet
<1>4. At(P) = [k \in 1 .. count |-> lru[Position(P, k)]]
  BY DEF At
<1>. HIDE DEF count
<1>5. At(P) \in Seq(Files) /\ Len(At(P)) = count /\ DOMAIN At(P) = 1 .. count
  BY <1>1, <1>2, <1>4
<1>6. \A i, j \in 1 .. count : At(P)[i] = At(P)[j] => i = j
  BY <1>1, <1>2, <1>4
<1>7. ToSet(At(P)) = {lru[i] : i \in P}
  BY <1>2, <1>4, <1>5 DEF ToSet
<1>8. P = {} => At(P) = <<>>
  BY <1>3, <1>5, EmptySeq
<1>. QED
  BY <1>2, <1>5, <1>6, <1>7, <1>8 DEF count

-----------------------------------------------------------------------------
(* TableWithout deletes one file after the other.                          *)

Deleting(g, files) ==
    [s \in SUBSET (DOMAIN files) |->
        IF s = {} THEN hashtable
        ELSE LET x == CHOOSE x \in s : \A y \in s : x >= y
             IN  HashDelete(g[s \ {x}], files[x])]

LEMMA TableIsDeleting ==
    \A files : TableWithout(files) = (CHOOSE g : g = Deleting(g, files))[DOMAIN files]
BY Zenon DEF TableWithout, FoldLeft, MapThenFoldSet, Max, Deleting

LEMMA DeletingExists ==
    ASSUME NEW m \in Nat, NEW files, DOMAIN files = 1 .. m
    PROVE  \E g : g = Deleting(g, files)
<1>. DEFINE D == DOMAIN files
            Small(k) == {t \in SUBSET D : Cardinality(t) <= k}
            Top(s) == CHOOSE x \in s : \A y \in s : x >= y
            Del(g, k) == [s \in Small(k) |->
                            IF s = {} THEN hashtable
                            ELSE HashDelete(g[s \ {Top(s)}], files[Top(s)])]
            N == {k \in Nat : \E g : g = Del(g, k)}
<1>1. /\ IsFiniteSet(D) /\ Cardinality(D) = m
      /\ \A s \in SUBSET D : IsFiniteSet(s) /\ Cardinality(s) \in Nat /\ Cardinality(s) <= m
  <2>1. IsFiniteSet(1 .. m) /\ Cardinality(1 .. m) = m
    BY FS_Interval
  <2>2. IsFiniteSet(D) /\ Cardinality(D) = m
    BY <2>1
  <2>. HIDE DEF D
  <2>3. \A s \in SUBSET D : IsFiniteSet(s) /\ Cardinality(s) <= m
    BY <2>2, FS_Subset
  <2>. QED
    BY <2>2, <2>3, FS_CardinalityType
<1>2. \A s \in SUBSET D : s # {} => Top(s) \in s
  <2>. SUFFICES ASSUME NEW s \in SUBSET D, s # {} PROVE Top(s) \in s
    OBVIOUS
  <2>1. PICK d \in {m - x : x \in s} : \A e \in {m - x : x \in s} : d <= e
    <3>1. {m - x : x \in s} \in SUBSET Nat /\ {m - x : x \in s} # {}
      OBVIOUS
    <3>. QED
      BY <3>1, LeastNat
  <2>2. PICK x \in s : d = m - x
    BY <2>1
  <2>3. \A y \in s : m - x <= m - y
    BY <2>1, <2>2
  <2>4. \A y \in s : x >= y
    BY <2>3
  <2>. QED
    BY <2>4
<1>. HIDE DEF D, Top
<1>3. 0 \in N
  <2>1. \A s \in Small(0) : s = {}
    BY <1>1, FS_EmptySet
  <2>2. LET g == [s \in Small(0) |-> hashtable] IN g = Del(g, 0)
    BY <2>1
  <2>. QED
    BY <2>2
<1>4. ASSUME NEW k \in Nat, k \in N
      PROVE  k + 1 \in N
  <2>1. PICK g : g = Del(g, k)
    BY <1>4
  <2>. DEFINE h == Del(g, k + 1)
  <2>2. ASSUME NEW s \in Small(k + 1), s # {}
        PROVE  g[s \ {Top(s)}] = h[s \ {Top(s)}]
    <3>1. Top(s) \in s /\ IsFiniteSet(s) /\ Cardinality(s) \in Nat /\ Cardinality(s) <= k + 1
      BY <1>1, <1>2, <2>2
    <3>2. Cardinality(s \ {Top(s)}) = Cardinality(s) - 1
      BY <3>1, FS_RemoveElement
    <3>3. Cardinality(s \ {Top(s)}) <= k
      BY <3>1, <3>2
    <3>4. s \ {Top(s)} \in Small(k) /\ s \ {Top(s)} \in Small(k + 1)
      <4>1. s \ {Top(s)} \in SUBSET D
        OBVIOUS
      <4>2. Cardinality(s \ {Top(s)}) <= k + 1
        BY <3>1, <3>2
      <4>. QED
        BY <3>3, <4>1, <4>2
    <3>. DEFINE t == s \ {Top(s)}
    <3>5. g[t] = Del(g, k)[t]
      BY <2>1
    <3>6. t \in Small(k) /\ t \in Small(k + 1)
      BY <3>4
    <3>. HIDE DEF t, Small
    <3>7. g[t] = h[t]
      BY <3>5, <3>6
    <3>. QED
      BY <3>7 DEF t
  <2>. HIDE DEF Small
  <2>3. h = Del(h, k + 1)
    <3>1. \A s \in Small(k + 1) : s # {} => h[s \ {Top(s)}] = g[s \ {Top(s)}]
      BY <2>2
    <3>2. \A s \in Small(k + 1) : Del(g, k + 1)[s] = Del(h, k + 1)[s]
      <4>. HIDE DEF h
      <4>. QED
        BY <3>1
    <3>3. Del(g, k + 1) = Del(h, k + 1)
      <4>. HIDE DEF h
      <4>. QED
        BY <3>2
    <3>. QED
      BY <3>3
  <2>. HIDE DEF Del, h
  <2>4. \E f : f = Del(f, k + 1)
    BY <2>3
  <2>. QED
    BY <2>4
<1>. HIDE DEF N
<1>5. m \in N
  BY <1>3, <1>4, AllNat
<1>6. PICK g : g = Del(g, m)
  BY <1>5 DEF N
<1>7. Small(m) = SUBSET D
  BY <1>1
<1>8. g = Deleting(g, files)
  <2>. HIDE DEF Small
  <2>. QED
    BY <1>6, <1>7 DEF Deleting, D, Top
<1>. QED
  BY <1>8

(* g[1 .. j] is the table after j deletions. *)
TableAfterEach(g, files, m) ==
    /\ g[1 .. 0] = hashtable
    /\ \A j \in 1 .. m : g[1 .. j] = HashDelete(g[1 .. (j - 1)], files[j])

LEMMA Deletions ==
    ASSUME NEW m \in Nat, NEW files, DOMAIN files = 1 .. m
    PROVE  \E g : TableWithout(files) = g[1 .. m] /\ TableAfterEach(g, files, m)
<1>. DEFINE g == CHOOSE g : g = Deleting(g, files)
<1>1. g = Deleting(g, files)
  BY DeletingExists, Zenon
<1>2. TableWithout(files) = g[1 .. m]
  BY TableIsDeleting
<1>. HIDE DEF g
<1>3. \A s \in SUBSET (DOMAIN files) :
         g[s] = IF s = {} THEN hashtable
                ELSE LET x == CHOOSE x \in s : \A y \in s : x >= y
                     IN  HashDelete(g[s \ {x}], files[x])
  <2>1. \A s \in SUBSET (DOMAIN files) :
           Deleting(g, files)[s] = IF s = {} THEN hashtable
                                   ELSE LET x == CHOOSE x \in s : \A y \in s : x >= y
                                        IN  HashDelete(g[s \ {x}], files[x])
    BY DEF Deleting
  <2>. QED
    BY <1>1, <2>1, Zenon
<1>4. g[1 .. 0] = hashtable
  <2>1. 1 .. 0 = {}
    OBVIOUS
  <2>. QED
    BY <1>3, <2>1
<1>5. ASSUME NEW j \in 1 .. m
      PROVE  g[1 .. j] = HashDelete(g[1 .. (j - 1)], files[j])
  <2>1. 1 .. j \in SUBSET (DOMAIN files) /\ 1 .. j # {} /\ (1 .. j) \ {j} = 1 .. (j - 1)
    <3>1. 1 .. j \subseteq 1 .. m /\ j \in 1 .. j
      OBVIOUS
    <3>2. (1 .. j) \ {j} = 1 .. (j - 1)
      OBVIOUS
    <3>. QED
      BY <3>1, <3>2
  <2>2. (CHOOSE x \in 1 .. j : \A y \in 1 .. j : x >= y) = j
    <3>1. j \in 1 .. j /\ \A y \in 1 .. j : j >= y
      OBVIOUS
    <3>2. \A x \in 1 .. j : (\A y \in 1 .. j : x >= y) => x = j
      BY <3>1
    <3>. QED
      BY <3>1, <3>2
  <2>. QED
    BY <1>3, <2>1, <2>2, Zenon
<1>. QED
  BY <1>2, <1>4, <1>5 DEF TableAfterEach

LEMMA TablesWithout ==
    ASSUME NEW files \in Seq(Files)
    PROVE  /\ TableWithout(<<>>) = hashtable
           /\ TableWithout(files) = TableWithout(SubSeq(files, 1, Len(files)))
           /\ \A k \in 1 .. Len(files) :
                 TableWithout(SubSeq(files, 1, k))
                   = HashDelete(TableWithout(SubSeq(files, 1, k - 1)), files[k])
<1>1. TableWithout(<<>>) = hashtable
  <2>1. DOMAIN <<>> = 1 .. 0
    OBVIOUS
  <2>2. PICK g : TableWithout(<<>>) = g[1 .. 0] /\ TableAfterEach(g, <<>>, 0)
    BY <2>1, Deletions
  <2>. QED
    BY <2>2 DEF TableAfterEach
<1>2. PICK n \in Nat : n = Len(files)
  BY LenProperties
<1>3. ASSUME NEW k \in 1 .. n
      PROVE  TableWithout(SubSeq(files, 1, k))
               = HashDelete(TableWithout(SubSeq(files, 1, k - 1)), files[k])
  <2>. DEFINE p == SubSeq(files, 1, k)
              q == SubSeq(files, 1, k - 1)
  <2>1. /\ DOMAIN p = 1 .. k /\ \A i \in 1 .. k : p[i] = files[i]
        /\ DOMAIN q = 1 .. (k - 1) /\ \A i \in 1 .. (k - 1) : q[i] = files[i]
    BY <1>2 DEF SubSeq
  <2>. HIDE DEF p, q
  <2>2. k \in Nat /\ k - 1 \in Nat
    OBVIOUS
  <2>3. PICK g : TableWithout(p) = g[1 .. k] /\ TableAfterEach(g, p, k)
    BY <2>1, <2>2, Deletions
  <2>4. PICK h : TableWithout(q) = h[1 .. (k - 1)] /\ TableAfterEach(h, q, k - 1)
    BY <2>1, <2>2, Deletions
  <2>. DEFINE N == {j \in Nat : j <= k - 1 => g[1 .. j] = h[1 .. j]}
  <2>5. 0 \in N
    BY <2>3, <2>4 DEF TableAfterEach
  <2>6. ASSUME NEW j \in Nat, j \in N
        PROVE  j + 1 \in N
    <3>. SUFFICES ASSUME j + 1 <= k - 1
                  PROVE  g[1 .. (j + 1)] = h[1 .. (j + 1)]
      OBVIOUS
    <3>1. j + 1 \in 1 .. k /\ j + 1 \in 1 .. (k - 1) /\ (j + 1) - 1 = j
      OBVIOUS
    <3>2. p[j + 1] = q[j + 1]
      BY <2>1, <3>1
    <3>3. g[1 .. j] = h[1 .. j]
      BY <2>6
    <3>. QED
      BY <2>3, <2>4, <3>1, <3>2, <3>3 DEF TableAfterEach
  <2>. HIDE DEF N
  <2>7. k - 1 \in N
    BY <2>2, <2>5, <2>6, AllNat
  <2>8. g[1 .. (k - 1)] = h[1 .. (k - 1)]
    BY <2>2, <2>7 DEF N
  <2>9. k \in 1 .. k /\ p[k] = files[k]
    BY <2>1
  <2>. QED
    BY <2>3, <2>4, <2>8, <2>9 DEF p, q, TableAfterEach
<1>4. SubSeq(files, 1, Len(files)) = files
  BY SubSeqFull
<1>. QED
  BY <1>1, <1>2, <1>3, <1>4

-----------------------------------------------------------------------------
(* A table that holds the files F, each once and in its row.               *)

RowOK(chain, r) ==
    /\ chain \in Seq(Files \cup {Freed})
    /\ \A i, j \in DOMAIN chain : chain[i] = chain[j] => i = j
    /\ \A i \in DOMAIN chain : chain[i] # Freed => Row[chain[i]] = r

Sound(table, F) ==
    /\ table \in [Rows -> Seq(Files \cup {Freed})]
    /\ \A r \in Rows : RowOK(table[r], r)
    /\ \A f \in Files : f \in ToSet(table[Row[f]]) <=> f \in F

(* The chain that hash_delete leaves. *)
ChainWithout(chain, f) ==
    IF chain = <<f>> THEN <<>>
    ELSE IF Head(chain) = f THEN <<Freed>> \o Tail(chain)
    ELSE RemoveFirst(chain, f)

LEMMA ChainWithoutFacts ==
    ASSUME NEW r, NEW chain, RowOK(chain, r), ~Damaged(chain),
           NEW f \in Files, f \in ToSet(chain)
    PROVE  /\ RowOK(ChainWithout(chain, f), r)
           /\ \A g \in Files : g \in ToSet(ChainWithout(chain, f))
                                 <=> g \in ToSet(chain) /\ g # f
<1>. DEFINE T == Files \cup {Freed}
<1>1. PICK n \in Nat : n = Len(chain) /\ DOMAIN chain = 1 .. n
  BY LenProperties DEF RowOK
<1>2. /\ chain \in Seq(T)
      /\ \A i, j \in 1 .. n : chain[i] = chain[j] => i = j
      /\ \A i \in 1 .. n : chain[i] \in T /\ chain[i] # Freed /\ Row[chain[i]] = r
  BY <1>1, ElementOfSeq DEF RowOK, Damaged
<1>3. PICK k \in 1 .. n : chain[k] = f
  BY <1>1, ToSetOf
<1>4. chain # <<>> /\ Head(chain) = chain[1] /\ 1 \in 1 .. n
  <2>1. n # 0
    BY <1>3
  <2>. QED
    BY <1>1, <1>2, <2>1, EmptySeq
<1>5. CASE chain = <<f>>
  <2>1. ChainWithout(chain, f) = <<>>
    BY <1>5 DEF ChainWithout
  <2>2. DOMAIN <<>> = {} /\ ToSet(<<>>) = {}
    BY DEF ToSet
  <2>3. RowOK(<<>>, r)
    BY <2>2, EmptySeq DEF RowOK
  <2>4. \A g \in Files : g \in ToSet(chain) => g = f
    BY <1>5 DEF ToSet
  <2>. QED
    BY <2>1, <2>2, <2>3, <2>4
<1>6. CASE chain # <<f>> /\ Head(chain) = f
  <2>. DEFINE t == Tail(chain)
              left == <<Freed>> \o t
  <2>1. ChainWithout(chain, f) = left
    BY <1>6 DEF ChainWithout
  <2>2. t \in Seq(T) /\ Len(t) = n - 1 /\ \A i \in 1 .. (n - 1) : t[i] = chain[i + 1]
    BY <1>1, <1>2, <1>4, HeadTailProperties
  <2>3. <<Freed>> \in Seq(T) /\ Len(<<Freed>>) = 1 /\ <<Freed>>[1] = Freed
    OBVIOUS
  <2>. HIDE DEF t, T
  <2>. DEFINE h == <<Freed>>
  <2>. HIDE DEF h
  <2>4. /\ left \in Seq(T) /\ Len(left) = Len(h) + Len(t)
        /\ \A i \in 1 .. (Len(h) + Len(t)) :
              left[i] = IF i <= Len(h) THEN h[i] ELSE t[i - Len(h)]
    BY <2>2, <2>3, ConcatProperties DEF h
  <2>. HIDE DEF left
  <2>5. Len(left) = n /\ DOMAIN left = 1 .. n
    <3>1. Len(left) = n
      BY <1>1, <2>2, <2>3, <2>4 DEF h
    <3>. QED
      BY <2>4, <3>1, LenProperties
  <2>6. \A i \in 1 .. n : left[i] = IF i = 1 THEN Freed ELSE chain[i]
    <3>. SUFFICES ASSUME NEW i \in 1 .. n PROVE left[i] = IF i = 1 THEN Freed ELSE chain[i]
      OBVIOUS
    <3>1. left[i] = IF i <= 1 THEN h[i] ELSE t[i - 1]
      BY <2>2, <2>3, <2>4 DEF h
    <3>2. CASE i = 1
      BY <2>3, <3>1, <3>2 DEF h
    <3>3. CASE i # 1
      <4>1. i - 1 \in 1 .. (n - 1) /\ (i - 1) + 1 = i /\ ~(i <= 1)
        BY <3>3
      <4>. QED
        BY <2>2, <3>1, <3>3, <4>1
    <3>. QED
      BY <3>2, <3>3
  <2>7. RowOK(left, r)
    <3>1. \A i, j \in 1 .. n : left[i] = left[j] => i = j
      BY <1>2, <2>6
    <3>2. \A i \in 1 .. n : left[i] # Freed => Row[left[i]] = r
      BY <1>2, <2>6
    <3>. QED
      BY <2>4, <2>5, <3>1, <3>2 DEF RowOK, T
  <2>8. ASSUME NEW g \in Files
        PROVE  g \in ToSet(left) <=> g \in ToSet(chain) /\ g # f
    <3>1. g \in ToSet(left) <=> \E i \in 1 .. n : left[i] = g
      BY <2>5, ToSetOf
    <3>2. g \in ToSet(chain) <=> \E i \in 1 .. n : chain[i] = g
      BY <1>1, ToSetOf
    <3>3. g # Freed
      BY NamesAssumption
    <3>4. chain[1] = f
      BY <1>4, <1>6
    <3>5. \A i \in 1 .. n : left[i] = g <=> chain[i] = g /\ g # f
      BY <1>2, <1>4, <2>6, <3>3, <3>4
    <3>. QED
      BY <3>1, <3>2, <3>5
  <2>. QED
    BY <2>1, <2>7, <2>8
<1>7. CASE chain # <<f>> /\ Head(chain) # f
  <2>. DEFINE left == RemoveFirst(chain, f)
  <2>1. ChainWithout(chain, f) = left
    BY <1>7 DEF ChainWithout
  <2>2. \A i, j \in DOMAIN chain : chain[i] = chain[j] => i = j
    BY DEF RowOK
  <2>3. /\ left \in Seq(T)
        /\ \A i, j \in DOMAIN left : left[i] = left[j] => i = j
        /\ ToSet(left) = ToSet(chain) \ {f}
    BY <1>2, <2>2, RemoveFirstFacts
  <2>. HIDE DEF left
  <2>4. \A i \in DOMAIN left : left[i] \in ToSet(chain)
    BY <2>3 DEF ToSet
  <2>5. \A i \in DOMAIN left : Row[left[i]] = r
    BY <1>1, <1>2, <2>4, ToSetOf
  <2>6. RowOK(left, r)
    BY <2>3, <2>5 DEF RowOK
  <2>. QED
    BY <2>1, <2>3, <2>6
<1>. QED
  BY <1>5, <1>6, <1>7

LEMMA HashDeleteSound ==
    ASSUME NEW table, NEW F \in SUBSET Files, Sound(table, F),
           NEW f \in F, ~Damaged(table[Row[f]])
    PROVE  Sound(HashDelete(table, f), F \ {f})
<1>. DEFINE chain == table[Row[f]]
            left == ChainWithout(chain, f)
<1>1. f \in Files /\ Row[f] \in Rows /\ f \in ToSet(chain) /\ RowOK(chain, Row[f])
  BY DEF Sound, Rows
<1>2. HashDelete(table, f) = [table EXCEPT ![Row[f]] = left]
  BY DEF HashDelete, ChainWithout
<1>3. /\ RowOK(left, Row[f])
      /\ \A g \in Files : g \in ToSet(left) <=> g \in ToSet(chain) /\ g # f
  BY <1>1, ChainWithoutFacts
<1>. HIDE DEF left
<1>. DEFINE new == [table EXCEPT ![Row[f]] = left]
<1>4. left \in Seq(Files \cup {Freed})
  BY <1>3 DEF RowOK
<1>5. new \in [Rows -> Seq(Files \cup {Freed})]
  BY <1>4 DEF Sound
<1>6. \A r \in Rows : new[r] = IF r = Row[f] THEN left ELSE table[r]
  BY DEF Sound
<1>. HIDE DEF new
<1>7. \A r \in Rows : RowOK(new[r], r)
  BY <1>3, <1>6 DEF Sound
<1>8. \A g \in Files : g \in ToSet(new[Row[g]]) <=> g \in F \ {f}
  <2>. SUFFICES ASSUME NEW g \in Files
                PROVE  g \in ToSet(new[Row[g]]) <=> g \in F /\ g # f
    OBVIOUS
  <2>1. Row[g] \in Rows /\ (g \in ToSet(table[Row[g]]) <=> g \in F)
    BY DEF Sound, Rows
  <2>2. CASE Row[g] = Row[f]
    BY <1>3, <1>6, <2>1, <2>2
  <2>3. CASE Row[g] # Row[f]
    BY <1>6, <2>1, <2>3
  <2>. QED
    BY <2>2, <2>3
<1>9. Sound(new, F \ {f})
  BY <1>5, <1>7, <1>8 DEF Sound
<1>. QED
  BY <1>2, <1>9 DEF new

LEMMA InsertionSound ==
    ASSUME NEW table, NEW F \in SUBSET Files, Sound(table, F), NEW f \in Files \ F
    PROVE  Sound([table EXCEPT ![Row[f]] = @ \o <<f>>], F \cup {f})
<1>. DEFINE T == Files \cup {Freed}
            chain == table[Row[f]]
            longer == chain \o <<f>>
            new == [table EXCEPT ![Row[f]] = longer]
<1>1. Row[f] \in Rows /\ f \notin ToSet(chain) /\ RowOK(chain, Row[f]) /\ f \in T
  BY DEF Sound, Rows
<1>2. /\ chain \in Seq(T)
      /\ \A i, j \in DOMAIN chain : chain[i] = chain[j] => i = j
  BY <1>1 DEF RowOK
<1>. HIDE DEF T, chain
<1>3. /\ longer \in Seq(T)
      /\ \A i, j \in DOMAIN longer : longer[i] = longer[j] => i = j
      /\ ToSet(longer) = ToSet(chain) \cup {f}
  BY <1>1, <1>2, AppendFacts
<1>. HIDE DEF longer
<1>4. RowOK(longer, Row[f])
  <2>1. \A i \in DOMAIN longer : longer[i] \in ToSet(chain) \/ longer[i] = f
    <3>1. \A i \in DOMAIN longer : longer[i] \in ToSet(longer)
      BY DEF ToSet
    <3>. QED
      BY <1>3, <3>1
  <2>2. \A g \in ToSet(chain) : g # Freed => Row[g] = Row[f]
    BY <1>1 DEF RowOK, ToSet
  <2>3. \A i \in DOMAIN longer : longer[i] # Freed => Row[longer[i]] = Row[f]
    BY <2>1, <2>2
  <2>. QED
    BY <1>3, <2>3 DEF RowOK, T
<1>5. table \in [Rows -> Seq(T)]
  BY DEF Sound, T
<1>6. new \in [Rows -> Seq(T)] /\ \A r \in Rows : new[r] = IF r = Row[f] THEN longer ELSE table[r]
  BY <1>3, <1>5
<1>7. new = [table EXCEPT ![Row[f]] = @ \o <<f>>]
  BY DEF longer, chain
<1>. HIDE DEF new
<1>8. \A r \in Rows : RowOK(new[r], r)
  BY <1>4, <1>6 DEF Sound
<1>9. \A g \in Files : g \in ToSet(new[Row[g]]) <=> g \in F \cup {f}
  <2>. SUFFICES ASSUME NEW g \in Files
                PROVE  g \in ToSet(new[Row[g]]) <=> g \in F \/ g = f
    OBVIOUS
  <2>1. Row[g] \in Rows /\ (g \in ToSet(table[Row[g]]) <=> g \in F)
    BY DEF Sound, Rows
  <2>2. CASE Row[g] = Row[f]
    BY <1>3, <1>6, <2>1, <2>2 DEF chain
  <2>3. CASE Row[g] # Row[f]
    BY <1>6, <2>1, <2>3
  <2>. QED
    BY <2>2, <2>3
<1>10. Sound(new, F \cup {f})
  BY <1>6, <1>8, <1>9 DEF Sound, T
<1>. QED
  BY <1>7, <1>10

-----------------------------------------------------------------------------
(* Evictions. *)

LEMMA EvictionSound ==
    ASSUME NEW F \in SUBSET Files, Sound(hashtable, F),
           NEW files \in Seq(Files), ToSet(files) \subseteq F,
           \A i, j \in DOMAIN files : files[i] = files[j] => i = j,
           ~EvictsWildly(files)
    PROVE  Sound(TableWithout(files), F \ ToSet(files))
<1>1. PICK n \in Nat : n = Len(files) /\ DOMAIN files = 1 .. n
  BY LenProperties
<1>. DEFINE table(k) == TableWithout(SubSeq(files, 1, k))
            left(k) == F \ {files[i] : i \in 1 .. k}
            N == {k \in Nat : k <= n => Sound(table(k), left(k))}
<1>2. \A k \in 1 .. n : /\ ~Damaged(table(k - 1)[Row[files[k]]])
                        /\ table(k) = HashDelete(table(k - 1), files[k])
  BY <1>1, TablesWithout DEF EvictsWildly
<1>3. \A k \in 1 .. n : files[k] \in left(k - 1) /\ left(k) = left(k - 1) \ {files[k]}
  <2>. SUFFICES ASSUME NEW k \in 1 .. n
                PROVE  files[k] \in left(k - 1) /\ left(k) = left(k - 1) \ {files[k]}
    OBVIOUS
  <2>1. \A i \in 1 .. n : files[i] \in F
    BY <1>1 DEF ToSet
  <2>2. \A i \in 1 .. (k - 1) : i \in 1 .. n /\ i # k
    OBVIOUS
  <2>3. \A i \in 1 .. k : i = k \/ i \in 1 .. (k - 1)
    OBVIOUS
  <2>4. \A i \in 1 .. (k - 1) : i \in 1 .. k
    OBVIOUS
  <2>5. k \in 1 .. k
    OBVIOUS
  <2>6. \A i \in 1 .. (k - 1) : files[i] # files[k]
    BY <1>1, <2>2
  <2>. QED
    BY <2>1, <2>3, <2>4, <2>5, <2>6
<1>. HIDE DEF table, left
<1>4. 0 \in N
  <2>1. SubSeq(files, 1, 0) = <<>>
    BY SubSeqEmpty
  <2>2. table(0) = hashtable
    BY <2>1, TablesWithout DEF table
  <2>3. left(0) = F
    BY DEF left
  <2>. QED
    BY <2>2, <2>3
<1>5. ASSUME NEW k \in Nat, k \in N
      PROVE  k + 1 \in N
  <2>. SUFFICES ASSUME k + 1 <= n PROVE Sound(table(k + 1), left(k + 1))
    OBVIOUS
  <2>1. k + 1 \in 1 .. n /\ (k + 1) - 1 = k
    OBVIOUS
  <2>2. Sound(table(k), left(k))
    BY <1>5
  <2>3. /\ ~Damaged(table(k)[Row[files[k + 1]]])
        /\ table(k + 1) = HashDelete(table(k), files[k + 1])
        /\ files[k + 1] \in left(k) /\ left(k + 1) = left(k) \ {files[k + 1]}
    BY <1>2, <1>3, <2>1
  <2>4. left(k) \in SUBSET Files
    BY DEF left
  <2>. QED
    BY <2>2, <2>3, <2>4, HashDeleteSound
<1>. HIDE DEF N
<1>6. n \in N
  BY <1>4, <1>5, AllNat
<1>7. Sound(table(n), left(n))
  BY <1>6 DEF N
<1>8. table(n) = TableWithout(files)
  BY <1>1, SubSeqFull DEF table
<1>9. left(n) = F \ ToSet(files)
  BY <1>1 DEF left, ToSet
<1>. QED
  BY <1>7, <1>8, <1>9

LEMMA HeadsFacts ==
    ASSUME ListOK, NEW required
    PROVE  /\ HeadsEvicted(required) \in 0 .. Len(lru)
           /\ \A i \in 1 .. HeadsEvicted(required) :
                 Unused(i) /\ ~Enough(required, Used(i - 1))
<1>. DEFINE Stops(n) == n = Len(lru) \/ ~Unused(n + 1) \/ Enough(required, Used(n))
            S == {n \in 0 .. Len(lru) : Stops(n)}
            Goes(n) == \A i \in 1 .. n : Unused(i) /\ ~Enough(required, Used(i - 1))
<1>1. Len(lru) \in Nat
  BY ListFacts DEF ListOK
<1>2. PICK n \in S : \A m \in S : n <= m
  <2>1. S \in SUBSET Nat /\ Len(lru) \in S
    BY <1>1
  <2>. HIDE DEF S
  <2>. QED
    BY <2>1, LeastNat
<1>3. Goes(n)
  <2>. SUFFICES ASSUME NEW i \in 1 .. n PROVE Unused(i) /\ ~Enough(required, Used(i - 1))
    OBVIOUS
  <2>1. i - 1 \in 0 .. Len(lru) /\ ~(n <= i - 1) /\ (i - 1) + 1 = i
    BY <1>1
  <2>2. ~Stops(i - 1)
    BY <1>2, <2>1
  <2>. QED
    BY <2>1, <2>2
<1>4. \E m \in 0 .. Len(lru) : Goes(m) /\ Stops(m)
  BY <1>2, <1>3
<1>. DEFINE h == CHOOSE m \in 0 .. Len(lru) : Goes(m) /\ Stops(m)
<1>5. h \in 0 .. Len(lru) /\ Goes(h)
  BY <1>4, Zenon
<1>6. HeadsEvicted(required) = h
  BY Zenon DEF HeadsEvicted
<1>. QED
  BY <1>5, <1>6

LEMMA BelowFacts ==
    ASSUME ListOK, NEW required, NEW m \in EvictedBelow(required)
    PROVE  LET h == HeadsEvicted(required)
           IN  /\ m \in (h + 1) .. Len(lru) /\ Unused(m)
               /\ \A j \in (h + 1) .. (m - 1) : ~Unused(j)
               /\ EvictedBelow(required) = {m}
               /\ ~Enough(required, Used(h))
<1>. DEFINE h == HeadsEvicted(required)
            rest == {i \in (h + 1) .. Len(lru) : Unused(i)}
<1>1. Len(lru) \in Nat /\ h \in 0 .. Len(lru)
  BY ListFacts, HeadsFacts DEF ListOK
<1>2. ~Enough(required, Used(h)) /\ rest # {} /\ EvictedBelow(required) = {Min(rest)}
  BY DEF EvictedBelow
<1>3. \E x \in rest : \A y \in rest : x <= y
  <2>1. rest \in SUBSET Nat
    BY <1>1
  <2>. HIDE DEF rest
  <2>. QED
    BY <1>2, <2>1, LeastNat
<1>4. m \in rest /\ \A y \in rest : m <= y
  <2>. HIDE DEF rest
  <2>1. Min(rest) \in rest /\ \A y \in rest : Min(rest) <= y
    BY <1>3, Zenon DEF Min
  <2>. QED
    BY <1>2, <2>1
<1>5. \A j \in (h + 1) .. (m - 1) : ~Unused(j)
  <2>. SUFFICES ASSUME NEW j \in (h + 1) .. (m - 1), Unused(j) PROVE FALSE
    OBVIOUS
  <2>1. j \in rest
    BY <1>1, <1>4
  <2>. QED
    BY <1>1, <1>4, <2>1
<1>. QED
  BY <1>2, <1>4, <1>5

LEMMA EvictionFacts ==
    ASSUME ListOK, NEW required
    PROVE  LET e == Eviction(required)
           IN  /\ e.gone \in SUBSET (DOMAIN lru) /\ e.ok \in BOOLEAN
               /\ \A i \in e.gone : Unused(i)
               /\ e.ok => \/ Len(lru) = 1 /\ e.gone = DOMAIN lru
                          \/ Enough(required, FreedBy(e.gone))
<1>1. /\ lru \in Seq(Files) /\ Len(lru) \in Nat /\ DOMAIN lru = 1 .. Len(lru)
  BY ListFacts DEF ListOK
<1>2. CASE lru = <<>>
  <2>1. Eviction(required) = [gone |-> {}, ok |-> FALSE]
    BY <1>2 DEF Eviction
  <2>. QED
    BY <2>1
<1>3. CASE Len(lru) = 1
  <2>1. lru # <<>>
    BY <1>3
  <2>2. Eviction(required) = [gone |-> {i \in {1} : Unused(i)}, ok |-> Unused(1)]
    BY <1>3, <2>1 DEF Eviction
  <2>3. DOMAIN lru = {1}
    BY <1>1, <1>3
  <2>4. Unused(1) \in BOOLEAN
    BY DEF Unused
  <2>. QED
    BY <1>3, <2>2, <2>3, <2>4
<1>4. CASE Len(lru) > 1
  <2>. DEFINE h == HeadsEvicted(required)
              low == EvictedBelow(required)
  <2>1. lru # <<>> /\ Len(lru) # 1
    BY <1>1, <1>4
  <2>2. Eviction(required) = [gone |-> (1 .. h) \cup low, ok |-> LeavesRoom(required)]
    BY <1>4, <2>1 DEF Eviction, Evicted
  <2>3. h \in 0 .. Len(lru) /\ \A i \in 1 .. h : Unused(i)
    BY HeadsFacts
  <2>4. \A i \in low : i \in 1 .. Len(lru) /\ Unused(i)
    BY <1>1, <2>3, BelowFacts
  <2>5. LeavesRoom(required) \in BOOLEAN
    BY DEF LeavesRoom
  <2>6. LeavesRoom(required) => low = {} /\ Enough(required, FreedBy(1 .. h))
    BY DEF LeavesRoom, Used
  <2>. HIDE DEF h, low
  <2>7. (1 .. h) \cup low \in SUBSET (DOMAIN lru)
    BY <1>1, <2>3, <2>4
  <2>8. low = {} => (1 .. h) \cup low = 1 .. h
    OBVIOUS
  <2>. DEFINE g == (1 .. h) \cup low
              ok == LeavesRoom(required)
  <2>9. Eviction(required).gone = g /\ Eviction(required).ok = ok
    BY <2>2
  <2>10. \A i \in g : Unused(i)
    BY <2>3, <2>4
  <2>11. ok => Enough(required, FreedBy(g))
    BY <2>6, <2>8
  <2>12. g \in SUBSET (DOMAIN lru) /\ ok \in BOOLEAN
    BY <2>5, <2>7
  <2>. HIDE DEF g, ok
  <2>. QED
    BY <2>9, <2>10, <2>11, <2>12
<1>5. Len(lru) = 0 => lru = <<>>
  BY <1>1, EmptySeq
<1>. QED
  BY <1>1, <1>2, <1>3, <1>4, <1>5

-----------------------------------------------------------------------------
(* What holds of the cache whatever the threads do. *)

CacheInv ==
    /\ ListOK
    /\ tail_dangles \in BOOLEAN
    /\ Sound(hashtable, ToSet(lru))
    /\ occupied = Total(size, ToSet(lru))
    /\ occupied <= MaxCacheSize

LEMMA OccupiedByContent ==
    ASSUME CacheInv, NEW P \in SUBSET (DOMAIN lru)
    PROVE  OccupiedBy(P) = Total(size, {lru[i] : i \in P})
<1>. DEFINE K == {lru[i] : i \in P}
            G == {lru[i] : i \in DOMAIN lru \ P}
<1>1. ListOK /\ lru \in Seq(Files) /\ size \in [Files -> Nat]
  BY DEF CacheInv, ListOK
<1>2. /\ K \in SUBSET Files /\ IsFiniteSet(K)
      /\ G \in SUBSET Files /\ IsFiniteSet(G)
  BY <1>1, ListFacts
<1>3. K \cap G = {} /\ ToSet(lru) = K \cup G
  BY <1>1 DEF ListOK, ToSet
<1>4. FreedBy(DOMAIN lru \ P) = Total(size, G)
  BY <1>1, FreedByContent
<1>5. P = {} => K = {}
  OBVIOUS
<1>. HIDE DEF K, G
<1>6. Total(size, K \cup G)
        = Total(size, K) + Total(size, G)
  BY <1>1, <1>2, <1>3, TotalSum
<1>7. Total(size, K) \in Nat /\ Total(size, G) \in Nat
  BY <1>1, <1>2, TotalFinite
<1>8. occupied = Total(size, K) + Total(size, G)
  BY <1>3, <1>6 DEF CacheInv
<1>9. OccupiedBy(P) = Total(size, K)
  <2>1. CASE Len(lru) = 1 /\ P = {}
    BY <1>5, <2>1, TotalEmpty DEF OccupiedBy
  <2>2. CASE ~(Len(lru) = 1 /\ P = {})
    <3>1. OccupiedBy(P) = occupied - FreedBy(DOMAIN lru \ P)
      BY <2>2 DEF OccupiedBy
    <3>. QED
      BY <1>4, <1>7, <1>8, <3>1
  <2>. QED
    BY <2>1, <2>2
<1>. QED
  BY <1>9 DEF K

LEMMA KeepFacts ==
    ASSUME CacheInv, NEW P \in SUBSET (DOMAIN lru), NEW added \in BOOLEAN,
           NEW f \in Files, NEW n \in Nat, Keep(P, added, f, n),
           Sound(TableWithout(At(DOMAIN lru \ P)), {lru[i] : i \in P}),
           added => f \notin ToSet(lru) /\ OccupiedBy(P) + n <= MaxCacheSize
    PROVE  /\ CacheInv'
           /\ ToSet(lru') = {lru[i] : i \in P} \cup (IF added THEN {f} ELSE {})
<1>. DEFINE K == {lru[i] : i \in P}
            G == {lru[i] : i \in DOMAIN lru \ P}
            gone == At(DOMAIN lru \ P)
            kept == At(P)
            table == TableWithout(gone)
<1>1. ListOK /\ lru \in Seq(Files) /\ size \in [Files -> Nat]
  BY DEF CacheInv, ListOK
<1>2. /\ K \in SUBSET Files /\ IsFiniteSet(K) /\ K \cap G = {} /\ ToSet(lru) = K \cup G
  <2>1. K \in SUBSET Files /\ IsFiniteSet(K)
    BY <1>1, ListFacts
  <2>. QED
    BY <1>1, <2>1 DEF ListOK, ToSet
<1>3. /\ kept \in Seq(Files) /\ ToSet(kept) = K
      /\ \A i, j \in DOMAIN kept : kept[i] = kept[j] => i = j
      /\ ToSet(gone) = G
  BY <1>1, AtFacts
<1>4. OccupiedBy(P) = Total(size, K) /\ Total(size, K) \in Nat
  <2>. HIDE DEF K
  <2>1. Total(size, K) \in Nat
    BY <1>1, <1>2, TotalFinite
  <2>. QED
    BY <2>1, OccupiedByContent DEF K
<1>5. Sound(table, K)
  OBVIOUS
<1>. HIDE DEF K, G, gone, kept, table
<1>6. /\ hashtable' = [table EXCEPT ![Row[f]] = @ \o (IF added THEN <<f>> ELSE <<>>)]
      /\ lru' = kept \o (IF added THEN <<f>> ELSE <<>>)
      /\ size' = [g \in Files |-> IF added /\ g = f THEN n
                                  ELSE IF g \in ToSet(gone) THEN 0 ELSE size[g]]
      /\ occupied' = OccupiedBy(P) + (IF added THEN n ELSE 0)
      /\ tail_dangles' \in BOOLEAN
  <2>1. tail_dangles \in BOOLEAN
    BY DEF CacheInv
  <2>. QED
    BY <2>1 DEF Keep, table, gone, kept
<1>7. /\ size' \in [Files -> Nat]
      /\ \A g \in K : g # f => size'[g] = size[g]
      /\ ~added => \A g \in K : size'[g] = size[g]
      /\ added => size'[f] = n
  BY <1>1, <1>2, <1>3, <1>6
<1>8. occupied <= MaxCacheSize /\ MaxCacheSize \in Nat /\ Total(size, K) <= occupied
  <2>1. occupied = Total(size, ToSet(lru)) /\ occupied <= MaxCacheSize
    BY DEF CacheInv
  <2>2. G \in SUBSET Files /\ IsFiniteSet(G)
    BY <1>1, ListFacts DEF G
  <2>3. /\ Total(size, G) \in Nat
        /\ occupied = Total(size, K) + Total(size, G)
    <3>1. Total(size, K \cup G)
            = Total(size, K) + Total(size, G)
      BY <1>1, <1>2, <2>2, TotalSum
    <3>2. Total(size, G) \in Nat
      BY <1>1, <2>2, TotalFinite
    <3>. QED
      BY <1>2, <2>1, <3>1, <3>2
  <2>. QED
    BY <1>4, <2>1, <2>3, SizesAssumption
<1>9. CASE added
  <2>1. f \notin K
    BY <1>2, <1>9
  <2>2. /\ hashtable' = [table EXCEPT ![Row[f]] = @ \o <<f>>]
        /\ lru' = kept \o <<f>>
        /\ occupied' = OccupiedBy(P) + n
    BY <1>6, <1>9
  <2>3. Sound(hashtable', K \cup {f})
    BY <1>2, <1>5, <2>1, <2>2, InsertionSound
  <2>4. /\ lru' \in Seq(Files) /\ ToSet(lru') = K \cup {f}
        /\ \A i, j \in DOMAIN lru' : lru'[i] = lru'[j] => i = j
    BY <1>3, <2>1, <2>2, AppendFacts
  <2>5. Total(size', K) = Total(size, K)
    <3>1. \A g \in K : size'[g] = size[g]
      BY <1>7, <2>1
    <3>. QED
      BY <3>1, TotalSame
  <2>6. Total(size', K \cup {f}) = Total(size', K) + size'[f]
    BY <1>2, <1>7, <2>1, TotalWith
  <2>7. occupied' = Total(size', ToSet(lru')) /\ occupied' <= MaxCacheSize
    BY <1>4, <1>7, <1>9, <2>2, <2>4, <2>5, <2>6
  <2>8. CacheInv'
    BY <1>6, <1>7, <2>3, <2>4, <2>7 DEF CacheInv, ListOK
  <2>. QED
    BY <1>9, <2>4, <2>8 DEF K
<1>10. CASE ~added
  <2>1. /\ hashtable' = [table EXCEPT ![Row[f]] = @ \o <<>>]
        /\ lru' = kept \o <<>>
        /\ occupied' = OccupiedBy(P) + 0
    BY <1>6, <1>10
  <2>2. lru' = kept
    BY <1>3, <2>1, ConcatEmptySeq
  <2>3. hashtable' = table
    <3>1. table \in [Rows -> Seq(Files \cup {Freed})] /\ Row[f] \in Rows
      BY <1>5 DEF Sound, Rows
    <3>2. table[Row[f]] \o <<>> = table[Row[f]]
      BY <3>1, ConcatEmptySeq
    <3>. QED
      BY <2>1, <3>1, <3>2
  <2>4. Total(size', K) = Total(size, K)
    BY <1>7, <1>10, TotalSame
  <2>5. occupied' = Total(size', ToSet(lru')) /\ occupied' <= MaxCacheSize
    <3>1. ToSet(lru') = K
      BY <1>3, <2>2
    <3>2. occupied' = Total(size, K) /\ occupied' <= occupied
      BY <1>4, <1>8, <2>1
    <3>3. occupied' <= MaxCacheSize
      <4>1. occupied' \in Nat /\ occupied \in Nat
        <5>1. ToSet(lru) \in SUBSET Files /\ IsFiniteSet(ToSet(lru))
          BY <1>1, ListFacts DEF ToSet
        <5>2. occupied \in Nat
          BY <1>1, <5>1, TotalFinite DEF CacheInv
        <5>. QED
          BY <1>4, <3>2, <5>2
      <4>. QED
        BY <1>8, <3>2, <4>1
    <3>. QED
      BY <2>4, <3>1, <3>2, <3>3
  <2>6. CacheInv'
    BY <1>3, <1>5, <1>6, <1>7, <2>2, <2>3, <2>5 DEF CacheInv, ListOK
  <2>. QED
    BY <1>3, <1>10, <2>2, <2>6 DEF K
<1>. QED
  BY <1>9, <1>10

(* set_LRU only reorders the list. *)
LEMMA SetLRUFacts ==
    ASSUME CacheInv, NEW f \in ToSet(lru), set_LRU(f), UNCHANGED <<hashtable, size, occupied>>
    PROVE  CacheInv' /\ ToSet(lru') = ToSet(lru)
<1>1. /\ lru \in Seq(Files) /\ size \in [Files -> Nat] /\ f \in Files
      /\ \A i, j \in DOMAIN lru : lru[i] = lru[j] => i = j
  BY ListFacts DEF CacheInv, ListOK, ToSet
<1>2. CASE UNCHANGED <<lru, tail_dangles>>
  BY <1>2 DEF CacheInv, ListOK
<1>3. CASE lru' = Append(RemoveFirst(lru, f), f) /\ tail_dangles' = FALSE
  <2>. DEFINE rest == RemoveFirst(lru, f)
  <2>1. /\ rest \in Seq(Files) /\ ToSet(rest) = ToSet(lru) \ {f}
        /\ \A i, j \in DOMAIN rest : rest[i] = rest[j] => i = j
    BY <1>1, RemoveFirstFacts
  <2>. HIDE DEF rest
  <2>2. lru' = rest \o <<f>>
    BY <1>1, <1>3, <2>1, AppendIsConcat DEF rest
  <2>3. f \notin ToSet(rest)
    BY <2>1
  <2>4. /\ lru' \in Seq(Files) /\ ToSet(lru') = ToSet(rest) \cup {f}
        /\ \A i, j \in DOMAIN lru' : lru'[i] = lru'[j] => i = j
    BY <1>1, <2>1, <2>2, <2>3, AppendFacts
  <2>5. ToSet(lru') = ToSet(lru)
    BY <2>1, <2>4
  <2>6. CacheInv'
    BY <1>3, <2>4, <2>5 DEF CacheInv, ListOK
  <2>. QED
    BY <2>5, <2>6
<1>. QED
  BY <1>2, <1>3 DEF set_LRU

(* An insertion loses no entry that is in use, and every thread that has   *)
(* just found an entry which goes learns of it.                            *)
Lost(g) == /\ reference_count[g] = 0
           /\ \A w \in Workers : pc[w] = "hit" /\ request[w] = g => stale'[w]

LEMMA InsertFacts ==
    ASSUME CacheInv, NEW f \in Files \ ToSet(lru), NEW n \in Nat,
           stale \in [Workers -> BOOLEAN],
           hashtable_insert(f, n), ~InsertsWildly(f, n)
    PROVE  /\ CacheInv'
           /\ stale' \in [Workers -> BOOLEAN] /\ \A w \in Workers : stale[w] => stale'[w]
           /\ \A g \in ToSet(lru) : g \in ToSet(lru') \/ Lost(g)
<1>1. /\ ListOK /\ lru \in Seq(Files) /\ size \in [Files -> Nat]
      /\ ToSet(lru) = {lru[i] : i \in DOMAIN lru} /\ ToSet(lru) \in SUBSET Files
      /\ Sound(hashtable, ToSet(lru)) /\ occupied <= MaxCacheSize
      /\ IsFiniteSet(ToSet(lru))
  BY ListFacts DEF CacheInv, ListOK, ToSet
<1>2. occupied \in Nat /\ MaxCacheSize \in Nat
  BY <1>1, TotalFinite, SizesAssumption DEF CacheInv
<1>3. CASE UNCHANGED <<cache, stale>>
  BY <1>3 DEF CacheInv, ListOK, cache
<1>4. CASE n <= MaxCacheSize - occupied /\ Keep(DOMAIN lru, TRUE, f, n)
  <2>1. DOMAIN lru \ DOMAIN lru = {} /\ At({}) = <<>>
    BY <1>1, AtFacts
  <2>2. TableWithout(<<>>) = hashtable
    <3>1. <<>> \in Seq(Files)
      BY EmptySeq
    <3>. QED
      BY <3>1, TablesWithout
  <2>3. Sound(TableWithout(At(DOMAIN lru \ DOMAIN lru)), {lru[i] : i \in DOMAIN lru})
    BY <1>1, <2>1, <2>2
  <2>4. OccupiedBy(DOMAIN lru) = occupied
    BY <1>1, OccupiedByContent DEF CacheInv
  <2>5. OccupiedBy(DOMAIN lru) + n <= MaxCacheSize
    BY <1>2, <1>4, <2>4
  <2>6. DOMAIN lru \in SUBSET (DOMAIN lru) /\ TRUE \in BOOLEAN /\ f \in Files /\ f \notin ToSet(lru)
    OBVIOUS
  <2>7. /\ CacheInv'
        /\ ToSet(lru') = {lru[i] : i \in DOMAIN lru} \cup (IF TRUE THEN {f} ELSE {})
    BY <1>4, <2>3, <2>5, <2>6, KeepFacts
  <2>8. stale' \in [Workers -> BOOLEAN] /\ \A w \in Workers : stale[w] => stale'[w]
    BY <1>4 DEF Keep
  <2>. QED
    BY <1>1, <2>7, <2>8
<1>5. CASE MissesRoom(n) /\ LET e == Eviction(n) IN Keep(DOMAIN lru \ e.gone, e.ok, f, n)
  <2>. DEFINE e == Eviction(n)
              G == e.gone
              P == DOMAIN lru \ G
              ok == e.ok
              K == {lru[i] : i \in P}
              files == At(G)
  <2>1. /\ G \in SUBSET (DOMAIN lru) /\ ok \in BOOLEAN
        /\ \A i \in G : Unused(i)
        /\ ok => (Len(lru) = 1 /\ G = DOMAIN lru) \/ Enough(n, FreedBy(G))
    BY <1>1, EvictionFacts
  <2>2. /\ n <= MaxCacheSize
        /\ Keep(P, ok, f, n)
        /\ ~EvictsWildly(files)
    BY <1>5 DEF MissesRoom, InsertsWildly
  <2>. HIDE DEF e, G, ok
  <2>3. DOMAIN lru \ P = G /\ P \in SUBSET (DOMAIN lru)
    BY <2>1
  <2>4. /\ files \in Seq(Files) /\ ToSet(files) = {lru[i] : i \in G}
        /\ \A i, j \in DOMAIN files : files[i] = files[j] => i = j
    BY <1>1, <2>1, AtFacts
  <2>. HIDE DEF files
  <2>5. ToSet(files) \subseteq ToSet(lru) /\ K = ToSet(lru) \ ToSet(files)
    BY <1>1, <2>1, <2>4 DEF ListOK
  <2>6. Sound(TableWithout(files), K)
    <3>. DEFINE L == ToSet(lru)
    <3>1. /\ L \in SUBSET Files /\ Sound(hashtable, L)
          /\ files \in Seq(Files) /\ ToSet(files) \subseteq L
          /\ \A i, j \in DOMAIN files : files[i] = files[j] => i = j
          /\ ~EvictsWildly(files)
      BY <1>1, <2>2, <2>4, <2>5
    <3>2. K = L \ ToSet(files)
      BY <2>5
    <3>. HIDE DEF L, K
    <3>3. Sound(TableWithout(files), L \ ToSet(files))
      BY <3>1, EvictionSound
    <3>. QED
      BY <3>2, <3>3
  <2>7. ok => OccupiedBy(P) + n <= MaxCacheSize
    <3>. SUFFICES ASSUME ok PROVE OccupiedBy(P) + n <= MaxCacheSize
      OBVIOUS
    <3>1. CASE Len(lru) = 1 /\ P = {}
      <4>1. OccupiedBy(P) = 0
        BY <3>1 DEF OccupiedBy
      <4>. QED
        BY <1>2, <2>2, <4>1
    <3>2. CASE ~(Len(lru) = 1 /\ P = {})
      <4>1. OccupiedBy(P) = occupied - FreedBy(G)
        BY <2>3, <3>2 DEF OccupiedBy
      <4>2. n <= MaxCacheSize - occupied + FreedBy(G)
        <5>1. ~(Len(lru) = 1 /\ G = DOMAIN lru)
          BY <3>2
        <5>. QED
          BY <2>1, <5>1 DEF Enough
      <4>3. FreedBy(G) \in Nat
        BY <1>1, <2>1, FreedByContent
      <4>. QED
        BY <1>2, <4>1, <4>2, <4>3
    <3>. QED
      BY <3>1, <3>2
  <2>8. Sound(TableWithout(At(DOMAIN lru \ P)), {lru[i] : i \in P})
    BY <2>3, <2>6 DEF files
  <2>9. \A g \in ToSet(files) : reference_count[g] = 0
    BY <2>1, <2>4 DEF Unused
  <2>10. stale' = [w \in Workers |->
                     stale[w] \/ (pc[w] = "hit" /\ request[w] \in ToSet(files))]
    BY <2>2, <2>3 DEF Keep, files
  <2>. HIDE DEF P
  <2>11. CacheInv' /\ ToSet(lru') = K \cup (IF ok THEN {f} ELSE {})
    BY <2>1, <2>2, <2>3, <2>7, <2>8, KeepFacts
  <2>. HIDE DEF K
  <2>12. \A g \in ToSet(lru) : g \in K \/ g \in ToSet(files)
    BY <2>5
  <2>13. \A g \in ToSet(files) : Lost(g)
    BY <2>9, <2>10 DEF Lost
  <2>14. stale' \in [Workers -> BOOLEAN] /\ \A w \in Workers : stale[w] => stale'[w]
    BY <2>10
  <2>. QED
    BY <2>11, <2>12, <2>13, <2>14
<1>. QED
  BY <1>3, <1>4, <1>5 DEF hashtable_insert

-----------------------------------------------------------------------------
(* The invariant. *)

Senders(f) == {w \in Workers : pc[w] = "send" /\ request[w] = f}

ThreadsTyped ==
    /\ reference_count \in [Files -> Nat]
    /\ pc \in [Workers -> {"idle", "lookup", "hit", "send", "miss", "insert"}]
    /\ request \in [Workers -> Files \cup {NoFile}]
    /\ read \in [Workers -> Nat]
    /\ stale \in [Workers -> BOOLEAN] /\ wild \in BOOLEAN

(* A thread that serves a request knows its file. *)
Asked == \A w \in Workers : pc[w] # "idle" => request[w] \in Files

(* What a thread has found is there, or the thread has a freed address.    *)
HitOrStale == \A w \in Workers : pc[w] = "hit" => stale[w] \/ request[w] \in ToSet(lru)

Counted == \A f \in Files : /\ reference_count[f] = Cardinality(Senders(f))
                            /\ Senders(f) # {} => f \in ToSet(lru)

ThreadsInv == ThreadsTyped /\ Asked /\ HitOrStale /\ Counted

IInv == CacheInv /\ ThreadsInv

(* Senders of the other files are as before when w starts or ends sending. *)
LEMMA SendersStep ==
    ASSUME ThreadsInv, NEW w \in Workers, NEW where, GoTo(w, where),
           \A v \in Workers \ {w} : request'[v] = request[v],
           NEW f
    PROVE  Senders(f)' = IF where = "send" /\ request'[w] = f
                         THEN Senders(f) \cup {w} ELSE Senders(f) \ {w}
<1>1. \A v \in Workers : pc'[v] = IF v = w THEN where ELSE pc[v]
  BY DEF ThreadsInv, ThreadsTyped, GoTo
<1>2. \A v \in Workers : v \in Senders(f)' <=> IF v = w THEN where = "send" /\ request'[w] = f
                                               ELSE v \in Senders(f)
  BY <1>1 DEF Senders
<1>3. Senders(f)' \subseteq Workers /\ Senders(f) \subseteq Workers
  BY DEF Senders
<1>. QED
  BY <1>2, <1>3

(* A step that leaves no thread sending, or found, that was not. *)
LEMMA SameSenders ==
    ASSUME ThreadsInv, NEW w \in Workers, NEW where, GoTo(w, where),
           \A v \in Workers \ {w} : request'[v] = request[v],
           pc[w] # "send", where # "send"
    PROVE  \A f : Senders(f)' = Senders(f)
<1>. SUFFICES ASSUME NEW f PROVE Senders(f)' = Senders(f)
  OBVIOUS
<1>1. Senders(f)' = Senders(f) \ {w}
  BY SendersStep
<1>2. w \notin Senders(f)
  BY DEF Senders
<1>. QED
  BY <1>1, <1>2

LEMMA InitIInv == Init => IInv
<1>. SUFFICES ASSUME Init PROVE IInv
  OBVIOUS
<1>1. ToSet(<<>>) = {} /\ DOMAIN <<>> = {}
  BY DEF ToSet
<1>2. ListOK
  BY <1>1, EmptySeq DEF ListOK, Init
<1>3. \A r \in Rows : RowOK(<<>>, r)
  BY <1>1, EmptySeq DEF RowOK
<1>4. Sound(hashtable, ToSet(lru))
  <2>1. \A f \in Files : Row[f] \in Rows
    BY DEF Rows
  <2>2. hashtable = [r \in Rows |-> <<>>] /\ lru = <<>>
    BY DEF Init
  <2>3. hashtable \in [Rows -> Seq(Files \cup {Freed})]
    BY <2>2, EmptySeq
  <2>4. \A f \in Files : f \notin ToSet(hashtable[Row[f]])
    BY <1>1, <2>1, <2>2
  <2>5. \A r \in Rows : RowOK(hashtable[r], r)
    BY <1>3, <2>2
  <2>. QED
    BY <1>1, <2>2, <2>3, <2>4, <2>5 DEF Sound
<1>5. occupied = Total(size, ToSet(lru)) /\ occupied <= MaxCacheSize
  <2>1. lru = <<>> /\ occupied = 0
    BY DEF Init
  <2>2. Total(size, {}) = 0
    BY TotalEmpty
  <2>3. ToSet(lru) = {}
    BY <1>1, <2>1
  <2>4. 0 <= MaxCacheSize
    BY SizesAssumption
  <2>. QED
    BY <2>1, <2>2, <2>3, <2>4
<1>6. CacheInv
  BY <1>2, <1>4, <1>5 DEF CacheInv, Init
<1>7. ThreadsTyped /\ Asked /\ HitOrStale
  BY DEF Init, ThreadsTyped, Asked, HitOrStale
<1>8. Counted
  <2>1. \A f : Senders(f) = {}
    BY DEF Senders, Init
  <2>. QED
    BY <2>1, FS_EmptySet DEF Counted, Init
<1>. QED
  BY <1>6, <1>7, <1>8 DEF IInv, ThreadsInv

-----------------------------------------------------------------------------
(* One lemma per step of do_server_request. *)

LEMMA SameCache ==
    ASSUME CacheInv, UNCHANGED cache
    PROVE  CacheInv' /\ ToSet(lru') = ToSet(lru)
BY DEF CacheInv, ListOK, cache

LEMMA request_initKeeps ==
    ASSUME IInv, NEW w \in Workers, request_init(w), UNCHANGED wild
    PROVE  IInv'
<1>. USE DEF IInv, ThreadsInv
<1>1. PICK f \in Files : request' = [request EXCEPT ![w] = f]
  BY DEF request_init
<1>2. PICK where \in {"lookup", "miss"} : GoTo(w, where)
  BY DEF request_init
<1>3. /\ pc[w] = "idle" /\ UNCHANGED <<cache, reference_count, read, stale, wild>>
      /\ pc' = [pc EXCEPT ![w] = where]
  BY <1>2 DEF request_init, GoTo
<1>4. CacheInv' /\ ToSet(lru') = ToSet(lru)
  BY <1>3, SameCache
<1>5. ThreadsTyped'
  BY <1>1, <1>3 DEF ThreadsTyped
<1>6. Asked' /\ HitOrStale'
  BY <1>1, <1>3, <1>4 DEF ThreadsTyped, Asked, HitOrStale
<1>7. \A g : Senders(g)' = Senders(g)
  <2>1. \A v \in Workers \ {w} : request'[v] = request[v]
    BY <1>1 DEF ThreadsTyped
  <2>. QED
    BY <1>2, <1>3, <2>1, SameSenders
<1>8. Counted'
  BY <1>3, <1>4, <1>7 DEF Counted
<1>. QED
  BY <1>4, <1>5, <1>6, <1>8

LEMMA cache_lookupKeeps ==
    ASSUME IInv, NEW w \in Workers, cache_lookup(w), UNCHANGED wild
    PROVE  IInv'
<1>. USE DEF IInv, ThreadsInv
<1>. DEFINE f == request[w]
<1>1. /\ pc[w] = "lookup" /\ f \in Files
      /\ UNCHANGED <<hashtable, size, occupied, reference_count, request, read, stale, wild>>
  BY DEF cache_lookup, Asked
<1>2. PICK where \in {"hit", "miss"} :
        /\ GoTo(w, where)
        /\ where = "hit" => Cached(f) /\ set_LRU(f)
        /\ where = "miss" => UNCHANGED <<lru, tail_dangles>>
  BY DEF cache_lookup
<1>3. Cached(f) => f \in ToSet(lru)
  BY <1>1 DEF Cached, Chain, CacheInv, Sound
<1>4. CacheInv' /\ ToSet(lru') = ToSet(lru)
  <2>1. CASE where = "hit"
    BY <1>1, <1>2, <1>3, <2>1, SetLRUFacts
  <2>2. CASE where = "miss"
    BY <1>1, <1>2, <2>2, SameCache DEF cache
  <2>. QED
    BY <2>1, <2>2
<1>5. pc' = [pc EXCEPT ![w] = where]
  BY <1>2 DEF GoTo
<1>6. ThreadsTyped'
  BY <1>1, <1>5 DEF ThreadsTyped
<1>7. Asked'
  BY <1>1, <1>5 DEF ThreadsTyped, Asked
<1>8. HitOrStale'
  BY <1>1, <1>2, <1>3, <1>4, <1>5 DEF ThreadsTyped, HitOrStale
<1>9. \A g : Senders(g)' = Senders(g)
  BY <1>1, <1>2, SameSenders
<1>10. Counted'
  BY <1>1, <1>4, <1>9 DEF Counted
<1>. QED
  BY <1>4, <1>6, <1>7, <1>8, <1>10

LEMMA SendersFinite == \A f : IsFiniteSet(Senders(f)) /\ Cardinality(Senders(f)) \in Nat
                                /\ Cardinality(Senders(f)) <= Cardinality(Workers)
<1>1. \A f : Senders(f) \in SUBSET Workers
  BY DEF Senders
<1>. QED
  BY <1>1, WorkersAssumption, FS_Subset, FS_CardinalityType

LEMMA find_LRUKeeps ==
    ASSUME IInv, NEW w \in Workers, find_LRU(w), UNCHANGED wild
    PROVE  IInv'
<1>. USE DEF IInv, ThreadsInv
<1>. DEFINE f == request[w]
<1>1. /\ pc[w] = "hit" /\ ~stale[w] /\ f \in Files /\ f \in ToSet(lru)
      /\ UNCHANGED <<cache, request, read, stale, wild>>
      /\ GoTo(w, "send") /\ pc' = [pc EXCEPT ![w] = "send"]
      /\ reference_count' = [reference_count EXCEPT ![f] = @ + 1]
  BY DEF find_LRU, Asked, HitOrStale, GoTo
<1>2. CacheInv' /\ ToSet(lru') = ToSet(lru)
  BY <1>1, SameCache
<1>3. ThreadsTyped'
  BY <1>1 DEF ThreadsTyped
<1>4. Asked' /\ HitOrStale'
  BY <1>1, <1>2 DEF ThreadsTyped, Asked, HitOrStale
<1>5. \A g : Senders(g)' = IF f = g THEN Senders(g) \cup {w} ELSE Senders(g) \ {w}
  BY <1>1, SendersStep
<1>6. \A g : w \notin Senders(g)
  BY <1>1 DEF Senders
<1>7. ASSUME NEW g \in Files
      PROVE  /\ reference_count'[g] = Cardinality(Senders(g)')
             /\ Senders(g)' # {} => g \in ToSet(lru')
  <2>1. reference_count[g] = Cardinality(Senders(g)) /\ (Senders(g) # {} => g \in ToSet(lru))
    BY DEF Counted
  <2>2. CASE g = f
    <3>1. Senders(g)' = Senders(g) \cup {w}
      BY <1>5, <2>2
    <3>2. Cardinality(Senders(g) \cup {w}) = Cardinality(Senders(g)) + 1
      BY <1>6, SendersFinite, FS_AddElement
    <3>3. reference_count'[g] = reference_count[g] + 1
      BY <1>1, <2>2 DEF ThreadsTyped
    <3>. QED
      BY <1>1, <1>2, <2>1, <2>2, <3>1, <3>2, <3>3
  <2>3. CASE g # f
    <3>1. Senders(g)' = Senders(g)
      BY <1>5, <1>6, <2>3
    <3>2. reference_count'[g] = reference_count[g]
      BY <1>1, <2>3 DEF ThreadsTyped
    <3>. QED
      BY <1>2, <2>1, <3>1, <3>2
  <2>. QED
    BY <2>2, <2>3
<1>8. Counted'
  BY <1>7 DEF Counted
<1>. QED
  BY <1>2, <1>3, <1>4, <1>8

LEMMA FinishFacts ==
    ASSUME ThreadsInv, NEW w \in Workers, Finish(w)
    PROVE  /\ GoTo(w, "idle") /\ pc' = [pc EXCEPT ![w] = "idle"]
           /\ request' = [request EXCEPT ![w] = NoFile] /\ read' = [read EXCEPT ![w] = 0]
           /\ \A v \in Workers \ {w} : request'[v] = request[v] /\ pc'[v] = pc[v]
           /\ pc'[w] = "idle" /\ request'[w] = NoFile
BY DEF Finish, GoTo, ThreadsInv, ThreadsTyped

LEMMA request_sendfileKeeps ==
    ASSUME IInv, NEW w \in Workers, request_sendfile(w), UNCHANGED wild
    PROVE  IInv'
<1>. USE DEF IInv, ThreadsInv
<1>. DEFINE f == request[w]
<1>1. /\ pc[w] = "send" /\ f \in Files /\ UNCHANGED <<cache, stale, wild>> /\ Finish(w)
      /\ reference_count' = [reference_count EXCEPT ![f] = @ - 1]
  BY DEF request_sendfile, Asked
<1>2. CacheInv' /\ ToSet(lru') = ToSet(lru)
  BY <1>1, SameCache
<1>3. /\ GoTo(w, "idle") /\ pc' = [pc EXCEPT ![w] = "idle"]
      /\ request' = [request EXCEPT ![w] = NoFile] /\ read' = [read EXCEPT ![w] = 0]
      /\ \A v \in Workers \ {w} : request'[v] = request[v] /\ pc'[v] = pc[v]
      /\ pc'[w] = "idle"
  BY <1>1, FinishFacts
<1>4. Asked' /\ HitOrStale'
  BY <1>1, <1>2, <1>3 DEF Asked, HitOrStale
<1>5. \A g : Senders(g)' = Senders(g) \ {w}
  BY <1>3, SendersStep
<1>6. \A g : w \in Senders(g) <=> g = f
  BY <1>1 DEF Senders
<1>7. ASSUME NEW g \in Files
      PROVE  /\ reference_count'[g] \in Nat
             /\ reference_count'[g] = Cardinality(Senders(g)')
             /\ Senders(g)' # {} => g \in ToSet(lru')
  <2>1. reference_count[g] = Cardinality(Senders(g)) /\ (Senders(g) # {} => g \in ToSet(lru))
    BY DEF Counted
  <2>2. CASE g = f
    <3>1. Cardinality(Senders(g) \ {w}) = Cardinality(Senders(g)) - 1
      BY <1>6, <2>2, SendersFinite, FS_RemoveElement
    <3>2. reference_count'[g] = reference_count[g] - 1
      BY <1>1, <2>2 DEF ThreadsTyped
    <3>3. reference_count'[g] = Cardinality(Senders(g)')
      BY <1>5, <2>1, <3>1, <3>2
    <3>4. Cardinality(Senders(g)') \in Nat
      <4>1. IsFiniteSet(Senders(g) \ {w})
        BY SendersFinite, FS_RemoveElement
      <4>2. Cardinality(Senders(g) \ {w}) \in Nat
        BY <4>1, FS_CardinalityType
      <4>. QED
        BY <1>5, <4>2
    <3>. QED
      BY <1>2, <1>5, <2>1, <3>3, <3>4
  <2>3. CASE g # f
    <3>1. Senders(g)' = Senders(g)
      BY <1>5, <1>6, <2>3
    <3>2. reference_count'[g] = reference_count[g] /\ reference_count[g] \in Nat
      BY <1>1, <2>3 DEF ThreadsTyped
    <3>. QED
      BY <1>2, <2>1, <3>1, <3>2
  <2>. QED
    BY <2>2, <2>3
<1>8. reference_count' \in [Files -> Nat]
  <2>1. reference_count' \in [Files -> Int]
    BY <1>1 DEF ThreadsTyped
  <2>. QED
    BY <1>7, <2>1
<1>9. ThreadsTyped'
  BY <1>1, <1>3, <1>8 DEF ThreadsTyped
<1>10. Counted'
  BY <1>7 DEF Counted
<1>. QED
  BY <1>2, <1>4, <1>9, <1>10

LEMMA request_readfileKeeps ==
    ASSUME IInv, NEW w \in Workers, request_readfile(w), UNCHANGED wild
    PROVE  IInv'
<1>. USE DEF IInv, ThreadsInv
<1>1. pc[w] = "miss" /\ UNCHANGED <<cache, reference_count, stale, wild>>
  BY DEF request_readfile
<1>2. CacheInv' /\ ToSet(lru') = ToSet(lru)
  BY <1>1, SameCache
<1>3. request[w] \in Files
  BY <1>1 DEF Asked
<1>4. PICK where \in {"idle", "insert"} :
        /\ GoTo(w, where) /\ pc' = [pc EXCEPT ![w] = where]
        /\ \A v \in Workers \ {w} : request'[v] = request[v] /\ pc'[v] = pc[v]
        /\ pc'[w] = where
        /\ request' \in [Workers -> Files \cup {NoFile}]
        /\ read' \in [Workers -> Nat]
        /\ where = "insert" => request'[w] = request[w]
  <2>1. CASE MaxCacheSize > 0
    <3>1. /\ \E n \in Nat : read' = [read EXCEPT ![w] = n]
          /\ GoTo(w, "insert") /\ UNCHANGED request
      <4>1. FileSize[request[w]] \in Nat
        BY <1>3, SizesAssumption
      <4>. QED
        BY <2>1, <4>1 DEF request_readfile
    <3>. QED
      BY <3>1 DEF GoTo, ThreadsTyped
  <2>2. CASE ~(MaxCacheSize > 0)
    <3>1. Finish(w)
      BY <2>2 DEF request_readfile
    <3>2. /\ GoTo(w, "idle") /\ pc' = [pc EXCEPT ![w] = "idle"]
          /\ \A v \in Workers \ {w} : request'[v] = request[v] /\ pc'[v] = pc[v]
          /\ pc'[w] = "idle"
      BY <3>1, FinishFacts
    <3>3. /\ request' \in [Workers -> Files \cup {NoFile}]
          /\ read' \in [Workers -> Nat]
      BY <3>1 DEF Finish, ThreadsTyped
    <3>. QED
      BY <3>2, <3>3
  <2>. QED
    BY <2>1, <2>2
<1>5. ThreadsTyped'
  BY <1>1, <1>4 DEF ThreadsTyped
<1>6. Asked'
  BY <1>3, <1>4 DEF Asked
<1>7. HitOrStale'
  BY <1>1, <1>2, <1>4 DEF HitOrStale
<1>8. \A g : Senders(g)' = Senders(g)
  BY <1>1, <1>4, SameSenders
<1>9. Counted'
  BY <1>1, <1>2, <1>8 DEF Counted
<1>. QED
  BY <1>2, <1>5, <1>6, <1>7, <1>9

LEMMA insertKeeps ==
    ASSUME IInv, NEW w \in Workers, insert(w), UNCHANGED wild
    PROVE  IInv'
<1>. USE DEF IInv, ThreadsInv
<1>. DEFINE f == request[w]
            n == read[w]
<1>1. /\ pc[w] = "insert" /\ f \in Files /\ n \in Nat
      /\ Finish(w) /\ UNCHANGED <<reference_count, wild>>
  BY DEF insert, Asked, ThreadsTyped
<1>2. Cached(f) <=> f \in ToSet(lru)
  BY <1>1 DEF Cached, Chain, CacheInv, Sound
<1>3. /\ CacheInv'
      /\ stale' \in [Workers -> BOOLEAN] /\ \A v \in Workers : stale[v] => stale'[v]
      /\ \A g \in ToSet(lru) : g \in ToSet(lru') \/ Lost(g)
  <2>1. stale \in [Workers -> BOOLEAN]
    BY DEF ThreadsTyped
  <2>2. CASE UNCHANGED <<cache, stale>>
    BY <2>1, <2>2, SameCache
  <2>3. CASE ~Cached(f) /\ ~InsertsWildly(f, n) /\ hashtable_insert(f, n)
    <3>1. f \in Files \ ToSet(lru)
      BY <1>1, <1>2, <2>3
    <3>. QED
      BY <1>1, <2>1, <2>3, <3>1, InsertFacts
  <2>. QED
    BY <2>2, <2>3 DEF insert
<1>4. /\ GoTo(w, "idle") /\ pc' = [pc EXCEPT ![w] = "idle"]
      /\ request' = [request EXCEPT ![w] = NoFile] /\ read' = [read EXCEPT ![w] = 0]
      /\ \A v \in Workers \ {w} : request'[v] = request[v] /\ pc'[v] = pc[v]
      /\ pc'[w] = "idle"
  BY <1>1, FinishFacts
<1>5. ThreadsTyped'
  BY <1>1, <1>3, <1>4 DEF ThreadsTyped
<1>6. Asked'
  BY <1>4 DEF Asked
<1>7. HitOrStale'
  <2>. SUFFICES ASSUME NEW v \in Workers, pc'[v] = "hit"
                PROVE  stale'[v] \/ request'[v] \in ToSet(lru')
    BY DEF HitOrStale
  <2>1. v # w
    BY <1>4
  <2>2. pc[v] = "hit" /\ request'[v] = request[v]
    BY <1>4, <2>1
  <2>3. stale[v] \/ request[v] \in ToSet(lru)
    BY <2>2 DEF HitOrStale
  <2>. QED
    BY <1>3, <2>2, <2>3 DEF Lost
<1>8. \A g : Senders(g)' = Senders(g)
  BY <1>1, <1>4, SameSenders
<1>9. Counted'
  <2>. SUFFICES ASSUME NEW g \in Files
                PROVE  /\ reference_count'[g] = Cardinality(Senders(g)')
                       /\ Senders(g)' # {} => g \in ToSet(lru')
    BY DEF Counted
  <2>1. /\ reference_count'[g] = Cardinality(Senders(g)')
        /\ Senders(g)' # {} => g \in ToSet(lru)
        /\ reference_count[g] = Cardinality(Senders(g)')
    BY <1>1, <1>8 DEF Counted
  <2>2. Senders(g)' # {} => reference_count[g] # 0
    <3>1. IsFiniteSet(Senders(g)')
      BY <1>8, SendersFinite
    <3>. QED
      BY <2>1, <3>1, FS_EmptySet
  <2>. QED
    BY <1>3, <2>1, <2>2 DEF Lost
<1>. QED
  BY <1>3, <1>5, <1>6, <1>7, <1>9

LEMMA StutterKeeps == IInv /\ UNCHANGED <<cache, reference_count, pc, request, read, stale>>
                           /\ wild' \in BOOLEAN => IInv'
<1>. SUFFICES ASSUME IInv, wild' \in BOOLEAN,
                     UNCHANGED <<cache, reference_count, pc, request, read, stale>>
              PROVE  IInv'
  OBVIOUS
<1>. USE DEF IInv, ThreadsInv
<1>1. CacheInv' /\ ToSet(lru') = ToSet(lru)
  BY SameCache
<1>2. ThreadsTyped' /\ Asked'
  BY DEF ThreadsTyped, Asked
<1>3. HitOrStale' /\ Counted'
  BY <1>1 DEF HitOrStale, Counted, Senders
<1>. QED
  BY <1>1, <1>2, <1>3

LEMMA NextIInv == IInv /\ [Next]_vars => IInv'
<1>. SUFFICES ASSUME IInv, [Next]_vars PROVE IInv'
  OBVIOUS
<1>1. ASSUME NEW w \in Workers, Step(w), UNCHANGED wild
      PROVE  IInv'
  BY <1>1, request_initKeeps, cache_lookupKeeps, find_LRUKeeps, request_sendfileKeeps,
     request_readfileKeeps, insertKeeps DEF Step
<1>2. CASE GoesWild
  BY <1>2, StutterKeeps DEF GoesWild
<1>3. CASE UNCHANGED vars
  <2>1. wild' \in BOOLEAN
    BY <1>3 DEF IInv, ThreadsInv, ThreadsTyped, vars
  <2>. QED
    BY <1>3, <2>1, StutterKeeps DEF vars
<1>. QED
  BY <1>1, <1>2, <1>3 DEF Next

(* The invariant of the cache and its threads, from which the properties   *)
(* below follow.                                                           *)
THEOREM Invariance == Spec => []IInv
BY InitIInv, NextIInv, PTL DEF Spec

-----------------------------------------------------------------------------
(* The properties. *)

(* Every part of the state is as declared, and no entry has more           *)
(* references than there are threads: find_LRU and request_sendfile count  *)
(* up and down in turn.                                                    *)
THEOREM TypeCorrect == Spec => []TypeOK
<1>1. IInv => TypeOK
  <2>. SUFFICES ASSUME IInv PROVE TypeOK
    OBVIOUS
  <2>. USE DEF IInv, ThreadsInv
  <2>1. /\ hashtable \in [Rows -> Seq(Files \cup {Freed})]
        /\ lru \in Seq(Files) /\ tail_dangles \in BOOLEAN /\ size \in [Files -> Nat]
    BY DEF CacheInv, ListOK, Sound
  <2>2. occupied \in Nat
    <3>1. ToSet(lru) \in SUBSET Files /\ IsFiniteSet(ToSet(lru))
      BY <2>1, ListFacts DEF ToSet
    <3>. QED
      BY <2>1, <3>1, TotalFinite DEF CacheInv
  <2>3. reference_count \in [Files -> 0 .. Cardinality(Workers)]
    <3>1. \A f \in Files : reference_count[f] \in Nat /\ reference_count[f] <= Cardinality(Workers)
      BY SendersFinite DEF Counted
    <3>2. Cardinality(Workers) \in Nat
      BY WorkersAssumption, FS_CardinalityType
    <3>. QED
      BY <3>1, <3>2 DEF ThreadsTyped
  <2>. QED
    BY <2>1, <2>2, <2>3 DEF TypeOK, ThreadsTyped
<1>. QED
  BY <1>1, Invariance, PTL

(* The hash table and the list hold the same entries, each file once and   *)
(* in the row of its name, whatever hashtable_insert, set_LRU, hash_delete *)
(* and evict_LRU_hash have done, for any table and any number of threads.  *)
THEOREM TableAndListAgree == Spec => []ListAndTableAgree
<1>1. IInv => ListAndTableAgree
  <2>. SUFFICES ASSUME IInv PROVE ListAndTableAgree
    OBVIOUS
  <2>1. \A i, j \in DOMAIN lru : lru[i] = lru[j] => i = j
    BY DEF IInv, CacheInv, ListOK
  <2>2. \A f \in Files : Cached(f) <=> f \in ToSet(lru)
    BY DEF IInv, CacheInv, Sound, Cached, Chain
  <2>3. \A r \in Rows : \A i, j \in DOMAIN hashtable[r] :
           /\ hashtable[r][i] = hashtable[r][j] => i = j
           /\ hashtable[r][i] # Freed => Row[hashtable[r][i]] = r
    BY DEF IInv, CacheInv, Sound, RowOK
  <2>. QED
    BY <2>1, <2>2, <2>3 DEF ListAndTableAgree
<1>. QED
  BY <1>1, Invariance, PTL

(* occupied_cache_size is the sum of the file sizes in the list after any  *)
(* insertions and evictions, the ones that fail half way included, and     *)
(* never more than max_cache_size.                                         *)
THEOREM CapacityKept == Spec => []OccupiedExact
<1>1. IInv => OccupiedExact
  <2>. SUFFICES ASSUME IInv PROVE OccupiedExact
    OBVIOUS
  <2>1. ListOK
    BY DEF IInv, CacheInv
  <2>2. ToSet(lru) = {lru[i] : i \in DOMAIN lru}
    BY DEF ToSet
  <2>3. FreedBy(DOMAIN lru) = Total(size, ToSet(lru))
    BY <2>1, <2>2, FreedByContent
  <2>. QED
    BY <2>3 DEF OccupiedExact, IInv, CacheInv
<1>. QED
  BY <1>1, Invariance, PTL

(* What a thread sends in request_sendfile stays in the cache until it is  *)
(* done, and reference_count counts exactly the threads that send.         *)
THEOREM NoEvictionWhileSending == Spec => []SentStaysCached
<1>1. IInv => SentStaysCached
  BY DEF IInv, ThreadsInv, Counted, SentStaysCached, Senders
<1>. QED
  BY <1>1, Invariance, PTL

-----------------------------------------------------------------------------
(* The refinement of LRUCache. *)

(* Moving the last entry to the end leaves the list as it is. *)
LEMMA LastMoved ==
    ASSUME ListOK, NEW f \in ToSet(lru), Last(lru) = f
    PROVE  Append(RemoveFirst(lru, f), f) = lru
<1>1. /\ lru \in Seq(Files) /\ f \in Files
      /\ \A i, j \in DOMAIN lru : lru[i] = lru[j] => i = j
  BY ListFacts DEF ListOK, ToSet
<1>2. PICK n \in Nat : n = Len(lru) /\ DOMAIN lru = 1 .. n
  BY <1>1, LenProperties
<1>3. n \in DOMAIN lru /\ lru[n] = f
  <2>1. \E i \in 1 .. n : lru[i] = f
    BY <1>2, ToSetOf
  <2>. QED
    BY <1>2, <2>1 DEF Last
<1>4. RemoveFirst(lru, f) = SubSeq(lru, 1, n - 1) \o SubSeq(lru, n + 1, n)
  BY <1>1, <1>2, <1>3, RemoveFirstFacts
<1>. DEFINE p == SubSeq(lru, 1, n - 1)
<1>5. n \in 1 .. n /\ 1 \in 1 .. n
  BY <1>2, <1>3
<1>6. p \in Seq(Files)
  <2>1. \A i \in 1 .. (n - 1) : lru[i] \in Files
    BY <1>1, <1>2, ElementOfSeq
  <2>2. 1 \in Int /\ n - 1 \in Int
    OBVIOUS
  <2>. QED
    BY <2>1, <2>2, SubSeqProperties
<1>7. lru = p \o <<f>>
  <2>1. SubSeq(lru, 1, n) = p \o <<lru[n]>>
    BY <1>1, <1>2, <1>5, SubSeqRecursiveSecond
  <2>2. SubSeq(lru, 1, n) = lru
    BY <1>1, <1>2, SubSeqFull
  <2>. QED
    BY <1>3, <2>1, <2>2
<1>8. SubSeq(lru, n + 1, n) = <<>>
  BY SubSeqEmpty
<1>. HIDE DEF p
<1>9. RemoveFirst(lru, f) = p
  <2>1. RemoveFirst(lru, f) = p \o <<>>
    BY <1>4, <1>8 DEF p
  <2>. QED
    BY <1>6, <2>1, ConcatEmptySeq
<1>. QED
  BY <1>1, <1>6, <1>7, <1>9, AppendIsConcat

LEMMA RoomIsEnough ==
    ASSUME CacheInv, NEW G \in SUBSET (DOMAIN lru), NEW n \in Nat
    PROVE  Cache!Room(G, n) <=> Enough(n, FreedBy(G))
<1>. DEFINE K == {lru[i] : i \in DOMAIN lru \ G}
            F == {lru[i] : i \in G}
<1>1. ListOK /\ lru \in Seq(Files) /\ size \in [Files -> Nat]
  BY DEF CacheInv, ListOK
<1>2. /\ K \in SUBSET Files /\ IsFiniteSet(K)
      /\ F \in SUBSET Files /\ IsFiniteSet(F)
  BY <1>1, ListFacts
<1>3. K \cap F = {} /\ ToSet(lru) = K \cup F
  BY <1>1 DEF ListOK, ToSet
<1>4. /\ FreedBy(G) = Total(size, F) /\ FreedBy(G) \in Nat
      /\ FreedBy(DOMAIN lru \ G) = Total(size, K) /\ FreedBy(DOMAIN lru \ G) \in Nat
  BY <1>1, FreedByContent
<1>. HIDE DEF K, F
<1>5. Total(size, K \cup F)
        = Total(size, K) + Total(size, F)
  BY <1>1, <1>2, <1>3, TotalSum
<1>6. occupied = FreedBy(DOMAIN lru \ G) + FreedBy(G)
  BY <1>3, <1>4, <1>5 DEF CacheInv
<1>7. Cache!Bytes(DOMAIN lru \ G) = FreedBy(DOMAIN lru \ G)
  BY Zenon DEF Cache!Bytes, FreedBy, MapThenSumSet, MapThenFoldSet,
               Cache!MapThenSumSet, Cache!MapThenFoldSet
<1>8. Cache!Room(G, n) <=> n <= MaxCacheSize - FreedBy(DOMAIN lru \ G)
  BY <1>7 DEF Cache!Room
<1>9. MaxCacheSize \in Nat
  BY SizesAssumption
<1>. QED
  BY <1>4, <1>6, <1>8, <1>9 DEF Enough

LEMMA NothingFreed == ListOK => FreedBy({}) = 0
<1>. SUFFICES ASSUME ListOK PROVE FreedBy({}) = 0
  OBVIOUS
<1>1. {} \in SUBSET (DOMAIN lru) /\ {lru[i] : i \in {}} = {}
  OBVIOUS
<1>2. FreedBy({}) = Total(size, {})
  BY <1>1, FreedByContent
<1>. QED
  BY <1>2, TotalEmpty

(* The loop drops no more than it must, and in the order of use. *)
LEMMA EvictionOrder ==
    ASSUME CacheInv, NEW n \in Nat, MissesRoom(n)
    PROVE  Cache!MayDrop(Eviction(n).gone, n)
<1>. DEFINE G == Eviction(n).gone
            h == HeadsEvicted(n)
            low == EvictedBelow(n)
<1>1. /\ ListOK /\ lru \in Seq(Files) /\ Len(lru) \in Nat /\ DOMAIN lru = 1 .. Len(lru)
  BY ListFacts DEF CacheInv, ListOK
<1>2. occupied \in Nat /\ MaxCacheSize \in Nat /\ n > MaxCacheSize - occupied
  <2>1. ToSet(lru) \in SUBSET Files /\ IsFiniteSet(ToSet(lru)) /\ size \in [Files -> Nat]
    BY <1>1, ListFacts DEF ToSet, ListOK
  <2>. QED
    BY <2>1, TotalFinite, SizesAssumption DEF CacheInv, MissesRoom
<1>. SUFFICES ASSUME NEW i \in G
              PROVE  /\ Unused(i)
                     /\ \A j \in 1 .. (i - 1) : Unused(j) => j \in G
                     /\ (\A j \in G : j <= i) => ~Cache!Room(G \ {i}, n)
  BY DEF Cache!MayDrop, Unused
<1>3. /\ G \in SUBSET (DOMAIN lru) /\ Unused(i)
  BY <1>1, EvictionFacts
<1>4. \A Q \in SUBSET (DOMAIN lru) : Cache!Room(Q, n) <=> Enough(n, FreedBy(Q))
  BY RoomIsEnough
<1>5. CASE lru = <<>>
  <2>1. Eviction(n) = [gone |-> {}, ok |-> FALSE]
    BY <1>5 DEF Eviction
  <2>. QED
    BY <2>1
<1>6. CASE Len(lru) = 1
  <2>1. lru # <<>>
    BY <1>6
  <2>2. Eviction(n) = [gone |-> {j \in {1} : Unused(j)}, ok |-> Unused(1)]
    BY <1>6, <2>1 DEF Eviction
  <2>3. i = 1 /\ G \ {i} = {}
    BY <2>2
  <2>4. ~Enough(n, FreedBy({}))
    BY <1>1, <1>2, NothingFreed DEF Enough
  <2>5. ~Cache!Room({}, n)
    BY <1>4, <2>4
  <2>. QED
    BY <1>3, <2>3, <2>5
<1>7. CASE Len(lru) > 1
  <2>1. lru # <<>> /\ Len(lru) # 1
    <3>. DEFINE len == Len(lru)
    <3>1. len \in Nat /\ len > 1
      BY <1>1, <1>7
    <3>2. lru = <<>> => len = 0
      OBVIOUS
    <3>. HIDE DEF len
    <3>3. len # 0 /\ len # 1
      BY <3>1
    <3>. QED
      BY <3>2, <3>3 DEF len
  <2>2. G = (1 .. h) \cup low
    BY <1>7, <2>1 DEF Eviction, Evicted
  <2>3. h \in 0 .. Len(lru) /\ \A j \in 1 .. h : Unused(j) /\ ~Enough(n, FreedBy(1 .. (j - 1)))
    BY <1>1, HeadsFacts DEF Used
  <2>4. ASSUME NEW m \in low
        PROVE  /\ m \in (h + 1) .. Len(lru) /\ low = {m} /\ ~Enough(n, FreedBy(1 .. h))
               /\ \A j \in (h + 1) .. (m - 1) : ~Unused(j)
    BY <1>1, BelowFacts DEF Used
  <2>. HIDE DEF h, low, G
  <2>5. CASE i \in 1 .. h
    <3>1. \A j \in 1 .. (i - 1) : j \in G
      BY <2>2, <2>3, <2>5
    <3>2. ASSUME \A j \in G : j <= i
          PROVE  ~Cache!Room(G \ {i}, n)
      <4>1. low = {}
        <5>. SUFFICES ASSUME NEW m \in low PROVE FALSE
          OBVIOUS
        <5>1. m \in (h + 1) .. Len(lru) /\ m <= i
          BY <2>2, <2>4, <3>2
        <5>. QED
          BY <1>1, <2>3, <2>5, <5>1
      <4>2. h \in G
        BY <2>2, <2>3, <2>5
      <4>3. i = h
        BY <2>3, <2>5, <3>2, <4>2
      <4>4. G \ {i} = 1 .. (i - 1)
        <5>1. (1 .. h) \ {h} = 1 .. (h - 1)
          BY <2>3
        <5>. QED
          BY <2>2, <4>1, <4>3, <5>1
      <4>5. ~Enough(n, FreedBy(1 .. (i - 1)))
        BY <2>3, <2>5
      <4>6. 1 .. (i - 1) \in SUBSET (DOMAIN lru)
        BY <1>1, <2>3, <2>5
      <4>. QED
        BY <1>4, <4>4, <4>5, <4>6
    <3>. QED
      BY <1>3, <3>1, <3>2
  <2>6. CASE i \in low
    <3>1. /\ i \in (h + 1) .. Len(lru) /\ low = {i} /\ ~Enough(n, FreedBy(1 .. h))
          /\ \A j \in (h + 1) .. (i - 1) : ~Unused(j)
      BY <2>4, <2>6
    <3>2. ASSUME NEW j \in 1 .. (i - 1), Unused(j)
          PROVE  j \in G
      <4>1. j \notin (h + 1) .. (i - 1)
        BY <3>1, <3>2
      <4>2. j \in 1 .. h
        BY <1>1, <2>3, <3>1, <4>1
      <4>. QED
        BY <2>2, <4>2
    <3>3. G \ {i} = 1 .. h
      BY <1>1, <2>2, <2>3, <3>1
    <3>4. 1 .. h \in SUBSET (DOMAIN lru)
      BY <1>1, <2>3
    <3>5. ~Cache!Room(G \ {i}, n)
      BY <1>4, <3>1, <3>3, <3>4
    <3>. QED
      BY <1>3, <3>2, <3>5
  <2>. QED
    BY <2>2, <2>5, <2>6
<1>8. Len(lru) = 0 => lru = <<>>
  BY <1>1, EmptySeq
<1>. QED
  BY <1>1, <1>5, <1>6, <1>7, <1>8

(* The promise in terms of the operators of FileCache. *)
LEMMA AbstractOperators ==
    /\ \A s, x : Cache!RemoveFirst(s, x) = RemoveFirst(s, x)
    /\ \A s : Cache!ToSet(s) = ToSet(s)
    /\ \A G : Cache!Kept(G) = At(DOMAIN lru \ G)
<1>1. \A s, x : Cache!RemoveFirst(s, x) = RemoveFirst(s, x)
  BY Zenon DEF Cache!RemoveFirst, RemoveFirst, Cache!RemoveAt, RemoveAt,
               Cache!SelectInSeq, SelectInSeq, Cache!Min, Min
<1>2. \A s : Cache!ToSet(s) = ToSet(s)
  BY DEF Cache!ToSet, ToSet
<1>3. \A G : Cache!Kept(G) = At(DOMAIN lru \ G)
  BY Zenon DEF Cache!Kept, At, Position, Cache!Cardinality, Cardinality
<1>. QED
  BY <1>1, <1>2, <1>3

LEMMA TouchSimulated ==
    ASSUME CacheInv, NEW f \in ToSet(lru), set_LRU(f), UNCHANGED <<size, reference_count>>
    PROVE  Cache!Touch(f)
<1>1. lru' = Append(RemoveFirst(lru, f), f)
  <2>1. CASE Last(lru) = f /\ UNCHANGED <<lru, tail_dangles>>
    <3>1. ListOK
      BY DEF CacheInv
    <3>. QED
      BY <2>1, <3>1, LastMoved
  <2>2. CASE lru' = Append(RemoveFirst(lru, f), f)
    BY <2>2
  <2>. QED
    BY <2>1, <2>2 DEF set_LRU
<1>. QED
  BY <1>1, AbstractOperators DEF Cache!Touch

LEMMA InsertSimulated ==
    ASSUME CacheInv, NEW f \in Files \ ToSet(lru), NEW n \in Nat,
           hashtable_insert(f, n), UNCHANGED reference_count
    PROVE  Cache!Next \/ UNCHANGED Cache!vars
<1>1. /\ ListOK /\ lru \in Seq(Files) /\ size \in [Files -> Nat]
      /\ ToSet(lru) = {lru[i] : i \in DOMAIN lru}
      /\ \A i, j \in DOMAIN lru : lru[i] = lru[j] => i = j
      /\ ToSet(lru) \in SUBSET Files /\ IsFiniteSet(ToSet(lru))
      /\ occupied = Total(size, ToSet(lru)) /\ occupied <= MaxCacheSize
  BY ListFacts DEF CacheInv, ListOK, ToSet
<1>2. occupied \in Nat /\ MaxCacheSize \in Nat
  BY <1>1, TotalFinite, SizesAssumption
<1>3. ASSUME NEW G \in SUBSET (DOMAIN lru), NEW added \in BOOLEAN,
             Keep(DOMAIN lru \ G, added, f, n),
             n <= MaxCacheSize, Cache!MayDrop(G, n), added => Cache!Room(G, n)
      PROVE  Cache!Next
  <2>. DEFINE P == DOMAIN lru \ G
              files == At(G)
              left == [g \in Files |-> IF \E i \in G : lru[i] = g THEN 0 ELSE size[g]]
  <2>1. DOMAIN lru \ P = G /\ P \in SUBSET (DOMAIN lru)
    OBVIOUS
  <2>2. ToSet(files) = {lru[i] : i \in G}
    BY <1>1, AtFacts
  <2>3. At(P) \in Seq(Files)
    BY <1>1, <2>1, AtFacts
  <2>4. /\ lru' = At(P) \o (IF added THEN <<f>> ELSE <<>>)
        /\ size' = [g \in Files |-> IF added /\ g = f THEN n
                                    ELSE IF g \in ToSet(files) THEN 0 ELSE size[g]]
    BY <1>3, <2>1 DEF Keep
  <2>5. Cache!Kept(G) = At(P)
    BY AbstractOperators
  <2>6. \A g : g \in ToSet(files) <=> \E i \in G : lru[i] = g
    BY <2>2
  <2>. HIDE DEF files, P
  <2>7. CASE added
    <3>1. lru' = Append(Cache!Kept(G), f)
      BY <2>3, <2>4, <2>5, <2>7, AppendIsConcat
    <3>2. size' = [left EXCEPT ![f] = n]
      BY <2>4, <2>6, <2>7
    <3>. QED
      BY <1>2, <1>3, <2>7, <3>1, <3>2, AbstractOperators DEF Cache!Next, Cache!Load
  <2>8. CASE ~added
    <3>1. lru' = Cache!Kept(G)
      BY <2>3, <2>4, <2>5, <2>8, ConcatEmptySeq
    <3>2. size' = left
      BY <2>4, <2>6, <2>8
    <3>. QED
      BY <1>2, <1>3, <3>1, <3>2, AbstractOperators DEF Cache!Next, Cache!Load
  <2>. QED
    BY <2>7, <2>8
<1>4. CASE UNCHANGED <<cache, stale>>
  BY <1>4 DEF cache, Cache!vars
<1>5. CASE n <= MaxCacheSize - occupied /\ Keep(DOMAIN lru, TRUE, f, n)
  <2>1. DOMAIN lru \ {} = DOMAIN lru /\ {} \in SUBSET (DOMAIN lru)
    OBVIOUS
  <2>2. n <= MaxCacheSize
    BY <1>2, <1>5
  <2>3. Cache!MayDrop({}, n)
    BY DEF Cache!MayDrop
  <2>4. Cache!Room({}, n)
    <3>1. Enough(n, FreedBy({}))
      BY <1>1, <1>2, <1>5, NothingFreed DEF Enough
    <3>. QED
      BY <2>1, <3>1, RoomIsEnough
  <2>. QED
    BY <1>3, <1>5, <2>1, <2>2, <2>3, <2>4
<1>6. CASE MissesRoom(n) /\ LET e == Eviction(n) IN Keep(DOMAIN lru \ e.gone, e.ok, f, n)
  <2>. DEFINE G == Eviction(n).gone
              ok == Eviction(n).ok
  <2>1. /\ G \in SUBSET (DOMAIN lru) /\ ok \in BOOLEAN
        /\ ok => (Len(lru) = 1 /\ G = DOMAIN lru) \/ Enough(n, FreedBy(G))
    BY <1>1, EvictionFacts
  <2>2. Cache!MayDrop(G, n)
    BY <1>6, EvictionOrder
  <2>3. n <= MaxCacheSize /\ Keep(DOMAIN lru \ G, ok, f, n)
    BY <1>6 DEF MissesRoom
  <2>. HIDE DEF G, ok
  <2>4. ok => Cache!Room(G, n)
    <3>1. CASE G = DOMAIN lru
      <4>1. Enough(n, FreedBy(G))
        <5>1. FreedBy(DOMAIN lru) = Total(size, ToSet(lru))
          BY <1>1, FreedByContent
        <5>. QED
          BY <1>1, <1>2, <2>3, <3>1, <5>1 DEF Enough
      <4>. QED
        BY <2>1, <4>1, RoomIsEnough
    <3>2. CASE G # DOMAIN lru
      BY <2>1, <3>2, RoomIsEnough
    <3>. QED
      BY <3>1, <3>2
  <2>. QED
    BY <1>3, <2>1, <2>2, <2>3, <2>4
<1>. QED
  BY <1>4, <1>5, <1>6 DEF hashtable_insert

LEMMA StepSimulated ==
    ASSUME IInv, NEW w \in Workers, Step(w)
    PROVE  Cache!Next \/ UNCHANGED Cache!vars
<1>. USE DEF IInv, ThreadsInv
<1>. DEFINE f == request[w]
<1>1. pc[w] # "idle" => f \in Files /\ (Cached(f) <=> f \in ToSet(lru))
  BY DEF Asked, Cached, Chain, CacheInv, Sound
<1>2. CASE request_init(w)
  BY <1>2 DEF request_init, cache, Cache!vars
<1>3. CASE cache_lookup(w)
  <2>1. CASE Cached(f) /\ set_LRU(f)
    <3>1. f \in ToSet(lru) /\ f \in Files /\ UNCHANGED <<size, reference_count>>
      BY <1>1, <1>3, <2>1 DEF cache_lookup
    <3>2. Cache!Touch(f)
      BY <2>1, <3>1, TouchSimulated
    <3>. QED
      BY <3>1, <3>2 DEF Cache!Next
  <2>2. CASE UNCHANGED <<lru, tail_dangles>>
    BY <1>3, <2>2 DEF cache_lookup, Cache!vars
  <2>. QED
    BY <1>3, <2>1, <2>2 DEF cache_lookup
<1>4. CASE find_LRU(w)
  <2>1. f \in ToSet(lru) /\ f \in Files
    BY <1>1, <1>4 DEF find_LRU, HitOrStale
  <2>2. Cache!StartSending(f)
    BY <1>4, <2>1, AbstractOperators DEF find_LRU, cache, Cache!StartSending
  <2>. QED
    BY <2>1, <2>2 DEF Cache!Next
<1>5. CASE request_sendfile(w)
  <2>1. f \in Files /\ w \in Senders(f)
    BY <1>1, <1>5 DEF request_sendfile, Senders
  <2>2. reference_count[f] > 0
    <3>1. reference_count[f] = Cardinality(Senders(f)) /\ reference_count[f] \in Nat
      BY <2>1 DEF Counted, ThreadsTyped
    <3>2. Cardinality(Senders(f)) # 0
      BY <2>1, SendersFinite, FS_EmptySet
    <3>. QED
      BY <3>1, <3>2
  <2>3. Cache!StopSending(f)
    BY <1>5, <2>2 DEF request_sendfile, cache, Cache!StopSending
  <2>. QED
    BY <2>1, <2>3 DEF Cache!Next
<1>6. CASE request_readfile(w)
  BY <1>6 DEF request_readfile, cache, Cache!vars
<1>7. CASE insert(w)
  <2>1. f \in Files /\ read[w] \in Nat /\ UNCHANGED reference_count
    BY <1>1, <1>7 DEF insert, ThreadsTyped
  <2>2. CASE UNCHANGED <<cache, stale>>
    BY <2>1, <2>2 DEF cache, Cache!vars
  <2>3. CASE ~Cached(f) /\ hashtable_insert(f, read[w])
    <3>1. f \in Files \ ToSet(lru)
      BY <1>1, <1>7, <2>1, <2>3 DEF insert
    <3>. QED
      BY <2>1, <2>3, <3>1, InsertSimulated
  <2>. QED
    BY <1>7, <2>2, <2>3 DEF insert
<1>. QED
  BY <1>2, <1>3, <1>4, <1>5, <1>6, <1>7 DEF Step

(* The hash table, the list and the eviction loop carry out the steps of   *)
(* a cache that drops what was used least recently and is not being sent,  *)
(* no more than it must, and is never over its capacity: evict_LRU_hash    *)
(* stops where it should whichever entries are referenced.                 *)
THEOREM FileCacheIsLRUCache == Spec => ImplementsLRUCache
<1>1. Init => Cache!Init
  BY DEF Init, Cache!Init
<1>2. IInv /\ [Next]_vars => [Cache!Next]_(Cache!vars)
  <2>. SUFFICES ASSUME IInv, [Next]_vars PROVE [Cache!Next]_(Cache!vars)
    OBVIOUS
  <2>1. ASSUME NEW w \in Workers, Step(w) PROVE Cache!Next \/ UNCHANGED Cache!vars
    BY <2>1, StepSimulated
  <2>2. CASE GoesWild
    BY <2>2 DEF GoesWild, cache, Cache!vars
  <2>3. CASE UNCHANGED vars
    BY <2>3 DEF vars, cache, Cache!vars
  <2>. QED
    BY <2>1, <2>2, <2>3 DEF Next
<1>. QED
  BY <1>1, <1>2, Invariance, PTL DEF Spec, Cache!Spec, ImplementsLRUCache
=============================================================================

------------------------------ MODULE Counting ------------------------------
(***************************************************************************)
(* Facts about numbers and sums that the proofs share.  Induction over the *)
(* numbers is stated of sets of numbers, and a sum over a finite set is    *)
(* the size of a set: of the units that are added up.                      *)
(***************************************************************************)
EXTENDS Integers, FiniteSets, FiniteSetTheorems, WellFoundedInduction, TLAPS

LEMMA LeastNat ==
    ASSUME NEW S \in SUBSET Nat, S # {}
    PROVE  \E n \in S : \A m \in S : n <= m
<1>. DEFINE R == OpToRel(<, Nat)
<1>1. IsWellFoundedOn(R, Nat)
  BY NatLessThanWellFounded
<1>2. PICK n \in S : \A m \in S : ~(<<m, n>> \in R)
  BY <1>1, WFMin, Zenon
<1>3. \A m \in S : ~(m < n)
  BY <1>2 DEF OpToRel
<1>. HIDE DEF R
<1>4. \A m \in S : n <= m
  BY <1>3
<1>. QED
  BY <1>4

LEMMA AllNat ==
    ASSUME NEW S, 0 \in S, \A n \in Nat : n \in S => n + 1 \in S
    PROVE  \A n \in Nat : n \in S
<1>. DEFINE D == {n \in Nat : n \notin S}
<1>. SUFFICES ASSUME D # {} PROVE FALSE
  OBVIOUS
<1>1. PICK n \in D : \A m \in D : n <= m
  <2>1. D \in SUBSET Nat
    OBVIOUS
  <2>. HIDE DEF D
  <2>. QED
    BY <2>1, LeastNat
<1>2. n \in Nat /\ n # 0
  BY <1>1
<1>3. n - 1 \in Nat /\ n - 1 \notin D
  BY <1>1, <1>2
<1>4. (n - 1) + 1 \in S
  BY <1>2, <1>3
<1>. QED
  BY <1>1, <1>2, <1>4

-----------------------------------------------------------------------------
(* The units of w over F, and how many they are.                           *)

Units(w, F) == UNION {{x} \X (1 .. w[x]) : x \in F}
Total(w, F) == Cardinality(Units(w, F))

LEMMA OneTotal ==
    ASSUME NEW n \in Nat, NEW x
    PROVE  IsFiniteSet({x} \X (1 .. n)) /\ Cardinality({x} \X (1 .. n)) = n
<1>1. IsFiniteSet(1 .. n) /\ Cardinality(1 .. n) = n
  BY FS_Interval
<1>2. IsFiniteSet({x}) /\ Cardinality({x}) = 1
  BY FS_Singleton
<1>3. Cardinality({x} \X (1 .. n)) = 1 * n /\ IsFiniteSet({x} \X (1 .. n))
  BY <1>1, <1>2, FS_Product
<1>. QED
  BY <1>3

LEMMA TotalFinite ==
    ASSUME NEW P, NEW w \in [P -> Nat], NEW F \in SUBSET P, IsFiniteSet(F)
    PROVE  IsFiniteSet(Units(w, F)) /\ Total(w, F) \in Nat
<1>. DEFINE S == {{x} \X (1 .. w[x]) : x \in F}
            m == [x \in F |-> {x} \X (1 .. w[x])]
<1>1. m \in Surjection(F, S)
  BY DEF Surjection
<1>2. IsFiniteSet(S)
  BY <1>1, FS_Surjection
<1>3. \A T \in S : IsFiniteSet(T)
  BY OneTotal
<1>. HIDE DEF S
<1>4. IsFiniteSet(UNION S)
  BY <1>2, <1>3, FS_UNION
<1>. QED
  BY <1>4, FS_CardinalityType DEF Units, Total, S

LEMMA TotalEmpty == \A w : Total(w, {}) = 0
<1>1. \A w : Units(w, {}) = {}
  BY DEF Units
<1>. QED
  BY <1>1, FS_EmptySet DEF Total

LEMMA TotalAdd ==
    ASSUME NEW P, NEW w \in [P -> Nat], NEW F \in SUBSET P, IsFiniteSet(F), NEW x \in F
    PROVE  Total(w, F) = w[x] + Total(w, F \ {x})
<1>. DEFINE A == Units(w, F \ {x})
            B == {x} \X (1 .. w[x])
<1>0. IsFiniteSet(F \ {x}) /\ w[x] \in Nat
  BY FS_RemoveElement
<1>1. Units(w, F) = A \cup B /\ A \cap B = {}
  BY DEF Units
<1>2. IsFiniteSet(A) /\ Cardinality(A) \in Nat
  BY <1>0, TotalFinite DEF Total
<1>3. IsFiniteSet(B) /\ Cardinality(B) = w[x]
  BY <1>0, OneTotal
<1>4. Cardinality({}) = 0
  BY FS_EmptySet
<1>5. Total(w, F \ {x}) = Cardinality(A)
  BY DEF Total
<1>. HIDE DEF A, B
<1>6. Cardinality(A \cup B) = Cardinality(A) + Cardinality(B) - Cardinality(A \cap B)
  BY <1>2, <1>3, FS_Union
<1>7. Cardinality(A \cup B) = w[x] + Cardinality(A)
  <2>1. Cardinality(A \cap B) = 0
    BY <1>1, <1>4
  <2>. QED
    BY <1>0, <1>2, <1>3, <1>6, <2>1
<1>8. Total(w, F) = Cardinality(A \cup B)
  BY <1>1 DEF Total
<1>. QED
  BY <1>5, <1>7, <1>8

LEMMA TotalWith ==
    ASSUME NEW P, NEW w \in [P -> Nat], NEW F \in SUBSET P, IsFiniteSet(F),
           NEW x \in P, x \notin F
    PROVE  Total(w, F \cup {x}) = Total(w, F) + w[x]
<1>1. F \cup {x} \in SUBSET P /\ IsFiniteSet(F \cup {x}) /\ (F \cup {x}) \ {x} = F
  BY FS_AddElement
<1>2. Total(w, F \cup {x}) = w[x] + Total(w, (F \cup {x}) \ {x})
  <2>. DEFINE G == F \cup {x}
  <2>1. G \in SUBSET P /\ IsFiniteSet(G) /\ x \in G
    BY <1>1
  <2>. HIDE DEF G
  <2>2. Total(w, G) = w[x] + Total(w, G \ {x})
    BY <2>1, TotalAdd
  <2>. QED
    BY <2>2 DEF G
<1>3. Total(w, F) \in Nat /\ w[x] \in Nat
  BY TotalFinite
<1>4. Total(w, F \cup {x}) = w[x] + Total(w, F)
  BY <1>1, <1>2, Zenon
<1>. QED
  BY <1>3, <1>4

LEMMA TotalSum ==
    ASSUME NEW P, NEW w \in [P -> Nat], NEW F \in SUBSET P, IsFiniteSet(F),
           NEW G \in SUBSET P, IsFiniteSet(G), F \cap G = {}
    PROVE  Total(w, F \cup G) = Total(w, F) + Total(w, G)
<1>. DEFINE A == Units(w, F)
            B == Units(w, G)
<1>1. Units(w, F \cup G) = A \cup B /\ A \cap B = {}
  BY DEF Units
<1>2. IsFiniteSet(A) /\ IsFiniteSet(B) /\ Total(w, F) \in Nat /\ Total(w, G) \in Nat
  BY TotalFinite
<1>3. Total(w, F) = Cardinality(A) /\ Total(w, G) = Cardinality(B)
      /\ Total(w, F \cup G) = Cardinality(A \cup B)
  BY <1>1 DEF Total
<1>. HIDE DEF A, B
<1>4. Cardinality(A \cup B) = Cardinality(A) + Cardinality(B) - Cardinality(A \cap B)
  BY <1>2, FS_Union
<1>5. Cardinality(A \cap B) = 0
  BY <1>1, FS_EmptySet
<1>. QED
  BY <1>2, <1>3, <1>4, <1>5

LEMMA TotalSame ==
    ASSUME NEW v, NEW w, NEW F, \A x \in F : v[x] = w[x]
    PROVE  Total(v, F) = Total(w, F)
<1>1. Units(v, F) = Units(w, F)
  BY DEF Units
<1>. QED
  BY <1>1 DEF Total

-----------------------------------------------------------------------------
(* The folds of the library are functions g = Summing(g, w, P), defined by *)
(* recursion over the subsets of P.  There is one, and it adds up w.       *)

Summing(g, w, P) == [s \in SUBSET P |->
                       IF s = {} THEN 0
                       ELSE LET x == CHOOSE x \in s : TRUE IN w[x] + g[s \ {x}]]

LEMMA TotalSums ==
    ASSUME NEW P, IsFiniteSet(P), NEW w \in [P -> Nat],
           NEW h, h = [s \in SUBSET P |-> Total(w, s)]
    PROVE  h = Summing(h, w, P)
<1>1. \A s \in SUBSET P : IsFiniteSet(s) /\ (s # {} => (CHOOSE x \in s : TRUE) \in s)
  BY FS_Subset
<1>2. ASSUME NEW s \in SUBSET P, s # {}
      PROVE  LET x == CHOOSE x \in s : TRUE IN Total(w, s) = w[x] + Total(w, s \ {x})
  <2>1. IsFiniteSet(s) /\ (CHOOSE x \in s : TRUE) \in s
    BY <1>1, <1>2, Zenon
  <2>2. \A x \in s : Total(w, s) = w[x] + Total(w, s \ {x})
    BY <2>1, TotalAdd
  <2>. QED
    BY <2>1, <2>2, Zenon
<1>3. \A s \in SUBSET P : s \ {CHOOSE x \in s : TRUE} \in SUBSET P
  OBVIOUS
<1>4. \A s \in SUBSET P : h[s] = Summing(h, w, P)[s]
  BY <1>2, <1>3, TotalEmpty DEF Summing
<1>. QED
  BY <1>4 DEF Summing

LEMMA SumsTotal ==
    ASSUME NEW P, IsFiniteSet(P), NEW w \in [P -> Nat], NEW g, g = Summing(g, w, P)
    PROVE  g[P] = Total(w, P)
<1>1. \A s \in SUBSET P :
         g[s] = IF s = {} THEN 0
                ELSE LET x == CHOOSE x \in s : TRUE IN w[x] + g[s \ {x}]
  <2>1. \A s \in SUBSET P :
           Summing(g, w, P)[s] = IF s = {} THEN 0
                                 ELSE LET x == CHOOSE x \in s : TRUE IN w[x] + g[s \ {x}]
    BY DEF Summing
  <2>. QED
    BY <2>1
<1>. DEFINE N == {n \in Nat : \A s \in SUBSET P : Cardinality(s) = n => g[s] = Total(w, s)}
<1>2. 0 \in N
  BY <1>1, TotalEmpty, FS_EmptySet, FS_Subset
<1>3. ASSUME NEW n \in Nat, n \in N
      PROVE  n + 1 \in N
  <2>. SUFFICES ASSUME NEW s \in SUBSET P, Cardinality(s) = n + 1
                PROVE  g[s] = Total(w, s)
    OBVIOUS
  <2>. DEFINE x == CHOOSE x \in s : TRUE
  <2>1. s # {} /\ x \in s
    BY FS_EmptySet
  <2>. HIDE DEF x
  <2>2. IsFiniteSet(s)
    BY FS_Subset
  <2>3. s \ {x} \in SUBSET P /\ Cardinality(s \ {x}) = n
    <3>1. Cardinality(s \ {x}) = Cardinality(s) - 1
      BY <2>1, <2>2, FS_RemoveElement
    <3>. QED
      BY <3>1
  <2>4. g[s \ {x}] = Total(w, s \ {x})
    BY <1>3, <2>3
  <2>5. Total(w, s) = w[x] + Total(w, s \ {x})
    BY <2>1, <2>2, TotalAdd
  <2>6. g[s] = w[x] + g[s \ {x}]
    BY <1>1, <2>1 DEF x
  <2>. QED
    BY <2>4, <2>5, <2>6
<1>. HIDE DEF N
<1>4. \A n \in Nat : n \in N
  BY <1>2, <1>3, AllNat
<1>5. Cardinality(P) \in Nat
  BY FS_CardinalityType
<1>. QED
  BY <1>4, <1>5 DEF N

(* What a bijection b from S onto R is, element by element.                *)
Matches(b, S, R) ==
    /\ \A n \in S : b[n] \in R
    /\ \A m, n \in S : b[m] = b[n] => m = n
    /\ \A a \in R : \E n \in S : b[n] = a

LEMMA BijectionMatches ==
    ASSUME NEW S, NEW R, NEW b \in Bijection(S, R)
    PROVE  Matches(b, S, R)
BY DEF Matches, Bijection, Injection, Surjection, IsInjective

(* The size of a union of sets that are disjoint is the sum of their sizes. *)
Separate(A, P) ==
    \A x \in P : IsFiniteSet(A[x]) /\ \A y \in P : x # y => A[x] \cap A[y] = {}

LEMMA TotalUnion ==
    ASSUME NEW P, NEW A, IsFiniteSet(P), Separate(A, P), NEW w, w = [x \in P |-> Cardinality(A[x])],
           NEW V, V = UNION {A[x] : x \in P}
    PROVE  w \in [P -> Nat] /\ Total(w, P) = Cardinality(V)
<1>0. /\ \A x \in P : IsFiniteSet(A[x])
      /\ \A x, y \in P : x # y => A[x] \cap A[y] = {}
  BY DEF Separate
<1>1. \A x \in P : w[x] \in Nat /\ \E b : b \in Bijection(1 .. w[x], A[x])
  <2>. SUFFICES ASSUME NEW x \in P
                PROVE  w[x] \in Nat /\ \E b : b \in Bijection(1 .. w[x], A[x])
    OBVIOUS
  <2>1. w[x] = Cardinality(A[x]) /\ IsFiniteSet(A[x])
    BY <1>0
  <2>2. Cardinality(A[x]) \in Nat /\ ExistsBijection(1 .. Cardinality(A[x]), A[x])
    BY <2>1, FS_CardinalityType
  <2>. QED
    BY <2>1, <2>2, Zenon DEF ExistsBijection
<1>2. w \in [P -> Nat]
  BY <1>1
<1>. DEFINE beta == [x \in P |-> CHOOSE b : b \in Bijection(1 .. w[x], A[x])]
            U == Units(w, P)
            g == [u \in U |-> beta[u[1]][u[2]]]
<1>3. \A x \in P : beta[x] \in Bijection(1 .. w[x], A[x])
  <2>. TAKE x \in P
  <2>1. beta[x] = CHOOSE b : b \in Bijection(1 .. w[x], A[x])
    OBVIOUS
  <2>. HIDE DEF beta
  <2>. QED
    BY <1>1, <2>1, Zenon
<1>. HIDE DEF beta
<1>4. \A x \in P : /\ \A n \in 1 .. w[x] : beta[x][n] \in A[x]
                   /\ \A m, n \in 1 .. w[x] : beta[x][m] = beta[x][n] => m = n
                   /\ \A a \in A[x] : \E n \in 1 .. w[x] : beta[x][n] = a
  <2>. TAKE x \in P
  <2>1. beta[x] \in Bijection(1 .. w[x], A[x])
    BY <1>3
  <2>2. Matches(beta[x], 1 .. w[x], A[x])
    BY <2>1, BijectionMatches
  <2>. QED
    BY <2>2 DEF Matches
<1>5. /\ \A x \in P : \A n \in 1 .. w[x] : <<x, n>> \in U
      /\ \A u \in U : \E x \in P : \E n \in 1 .. w[x] : u = <<x, n>>
  BY DEF Units
<1>. HIDE DEF U
<1>6. \A x \in P : \A n \in 1 .. w[x] : g[<<x, n>>] = beta[x][n]
  BY <1>5
<1>7. \A u \in U : g[u] \in V
  <2>. TAKE u \in U
  <2>1. PICK x \in P : \E n \in 1 .. w[x] : u = <<x, n>>
    BY <1>5
  <2>2. PICK n \in 1 .. w[x] : u = <<x, n>>
    BY <2>1
  <2>3. g[u] \in A[x]
    BY <1>4, <1>6, <2>2
  <2>. QED
    BY <2>3
<1>8. \A u, v \in U : g[u] = g[v] => u = v
  <2>. TAKE u, v \in U
  <2>. HAVE g[u] = g[v]
  <2>1. PICK x \in P : \E n \in 1 .. w[x] : u = <<x, n>>
    BY <1>5
  <2>2. PICK n \in 1 .. w[x] : u = <<x, n>>
    BY <2>1
  <2>3. PICK y \in P : \E m \in 1 .. w[y] : v = <<y, m>>
    BY <1>5
  <2>4. PICK m \in 1 .. w[y] : v = <<y, m>>
    BY <2>3
  <2>5. g[u] \in A[x] /\ g[v] \in A[y] /\ g[u] = beta[x][n] /\ g[v] = beta[y][m]
    BY <1>4, <1>6, <2>2, <2>4
  <2>. HIDE DEF g
  <2>6. x = y
    BY <1>0, <2>5
  <2>. QED
    BY <1>4, <2>2, <2>4, <2>5, <2>6
<1>9. \A a \in V : \E u \in U : g[u] = a
  <2>. TAKE a \in V
  <2>1. PICK x \in P : a \in A[x]
    OBVIOUS
  <2>2. PICK n \in 1 .. w[x] : beta[x][n] = a
    BY <1>4, <2>1
  <2>3. <<x, n>> \in U /\ g[<<x, n>>] = a
    BY <1>5, <1>6, <2>2
  <2>. QED
    BY <2>3
<1>10. ExistsBijection(U, V)
  <2>1. g \in [U -> V]
    BY <1>7
  <2>. HIDE DEF g
  <2>2. g \in Bijection(U, V)
    BY <1>8, <1>9, <2>1 DEF Bijection, Injection, Surjection, IsInjective
  <2>. QED
    BY <2>2 DEF ExistsBijection
<1>11. IsFiniteSet(U)
  <2>1. P \in SUBSET P
    OBVIOUS
  <2>. QED
    BY <1>2, <2>1, TotalFinite DEF U
<1>12. Cardinality(V) = Cardinality(U)
  BY <1>10, <1>11, FS_Bijection
<1>. QED
  BY <1>2, <1>12 DEF U, Total
=============================================================================

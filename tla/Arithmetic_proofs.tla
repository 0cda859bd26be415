------------------------- MODULE Arithmetic_proofs -------------------------
(***************************************************************************)
(* What the proofs of several components rest on: remainders, least and    *)
(* largest elements, and the laws of the sums of ByteSums.                 *)
(***************************************************************************)
EXTENDS ByteSums, FiniteSetTheorems, FunctionTheorems, WellFoundedInduction, TLAPS

-----------------------------------------------------------------------------
(* Remainders.                                                             *)
LEMMA DivMod ==
  ASSUME NEW a \in Int, NEW n \in Nat \ {0}
  PROVE  a = n * (a \div n) + (a % n) /\ a \div n \in Int /\ a % n \in 0 .. n - 1
  OBVIOUS

(* The same with names for the quotient and the remainder.                 *)
LEMMA Quotient ==
  ASSUME NEW a \in Int, NEW n \in Nat \ {0}
  PROVE  \E q \in Int : \E m \in 0 .. n - 1 : a % n = m /\ a = n * q + m
<1>. DEFINE q == a \div n
            m == a % n
<1>1. a = n * q + m /\ q \in Int /\ m \in 0 .. n - 1
  BY DivMod
<1>. HIDE DEF q
<1>2. m = a % n
  OBVIOUS
<1>. HIDE DEF m
<1>. QED BY <1>1, <1>2

(* The only multiple of n less than n away from zero is zero.              *)
LEMMA SmallMultiple ==
  ASSUME NEW k \in Int, NEW n \in Nat \ {0}, -n < n * k, n * k < n PROVE k = 0
<1>1. CASE k >= 1
  <2>1. n * k >= n
    BY <1>1
  <2>. QED BY <2>1
<1>2. CASE k <= -1
  <2>1. n * k <= -n
    BY <1>2
  <2>. QED BY <2>1
<1>. QED BY <1>1, <1>2

(* Two numbers less than n apart differ modulo n.                          *)
LEMMA SameResidue ==
  ASSUME NEW a \in Int, NEW b \in Int, NEW n \in Nat \ {0},
         -n < b - a, b - a < n, a % n = b % n
  PROVE  a = b
<1>1. PICK q \in Int, m \in 0 .. n - 1 : a % n = m /\ a = n * q + m
  BY Quotient
<1>2. PICK p \in Int, l \in 0 .. n - 1 : b % n = l /\ b = n * p + l
  BY Quotient
<1>3. n * (p - q) = b - a
  <2>1. l = m
    BY <1>1, <1>2
  <2>. QED BY <1>1, <1>2, <2>1
<1>4. p - q = 0
  BY <1>3, SmallMultiple
<1>. QED BY <1>3, <1>4

(* The remainder of a multiple of n and a small number is that number.     *)
LEMMA ResidueOf ==
  ASSUME NEW r \in Int, NEW k \in Int, NEW n \in Nat \ {0}, r \in 0 .. n - 1
  PROVE  (n * k + r) % n = r
<1>. DEFINE a == n * k + r
<1>1. a \in Int
  OBVIOUS
<1>2. a = n * (a \div n) + (a % n) /\ a \div n \in Int /\ a % n \in 0 .. n - 1
  BY <1>1, DivMod
<1>. HIDE DEF a
<1>3. PICK q \in Int, m \in 0 .. n - 1 : q = a \div n /\ m = a % n /\ a = n * q + m
  BY <1>2
<1>4. n * (q - k) = r - m
  BY <1>3 DEF a
<1>5. q - k = 0
  BY <1>4, SmallMultiple
<1>. QED BY <1>3, <1>4, <1>5 DEF a

(* Going round: the remainder of the next number, and of one n before.     *)
LEMMA NextResidue ==
  ASSUME NEW a \in Nat, NEW n \in Nat \ {0} PROVE ((a % n) + 1) % n = (a + 1) % n
<1>0. a \in Int
  OBVIOUS
<1>1. PICK q \in Int, m \in 0 .. n - 1 : a % n = m /\ a = n * q + m
  BY <1>0, Quotient
<1>2. CASE m + 1 < n
  <2>1. (m + 1) % n = m + 1
    BY <1>2
  <2>0. m + 1 \in 0 .. n - 1 /\ m + 1 \in Int
    BY <1>2
  <2>2. (n * q + (m + 1)) % n = m + 1
    BY <2>0, ResidueOf
  <2>3. n * q + (m + 1) = a + 1
    BY <1>1
  <2>. QED BY <1>1, <2>1, <2>2, <2>3
<1>3. CASE m + 1 = n
  <2>1. (n * 1 + 0) % n = 0
    BY ResidueOf
  <2>2. (n * (q + 1) + 0) % n = 0
    BY ResidueOf
  <2>3. n * (q + 1) + 0 = a + 1
    BY <1>1, <1>3
  <2>. QED BY <1>1, <1>3, <2>1, <2>2, <2>3
<1>. QED BY <1>2, <1>3

LEMMA WholeTurn ==
  ASSUME NEW a \in Int, NEW n \in Nat \ {0} PROVE (a - n) % n = a % n
<1>1. PICK q \in Int, m \in 0 .. n - 1 : a % n = m /\ a = n * q + m
  BY Quotient
<1>2. (n * (q - 1) + m) % n = m
  <2>1. q - 1 \in Int /\ m \in Int
    OBVIOUS
  <2>. QED BY <2>1, ResidueOf
<1>3. n * (q - 1) + m = a - n
  BY <1>1
<1>. QED BY <1>1, <1>2, <1>3

LEMMA SmallModulo == ASSUME NEW n \in Nat \ {0}, NEW a \in 0 .. n - 1 PROVE a % n = a
  OBVIOUS

(* The remainder of a number in the first and in the second n is known.    *)
LEMMA OnceAround == ASSUME NEW n \in Nat \ {0}, NEW a \in n .. 2 * n - 1 PROVE a % n = a - n
<1>1. PICK k \in Int, m \in 0 .. n - 1 : a % n = m /\ a = n * k + m
  BY DivMod
<1>2. n * k > 0 /\ n * k < 2 * n
  BY <1>1
<1>3. k >= 2 => n * k >= 2 * n
  OBVIOUS
<1>4. k <= 0 => n * k <= 0
  OBVIOUS
<1>5. k = 1
  BY <1>2, <1>3, <1>4
<1>. QED BY <1>1, <1>5

(* Adding n does not change the remainder by n.                            *)
LEMMA ShiftedModulo == ASSUME NEW n \in Nat \ {0}, NEW a \in Int, NEW k \in Int
                       PROVE (a + n * k) % n = a % n
<1>. DEFINE b == a + n * k
<1>1. n * k \in Int /\ b \in Int
  OBVIOUS
<1>2. PICK c \in Int, l \in 0 .. n - 1 : a % n = l /\ a = n * c + l
  BY DivMod
<1>3. PICK d \in Int, m \in 0 .. n - 1 : b % n = m /\ b = n * d + m
  BY <1>1, DivMod
<1>. DEFINE e == c + k - d
<1>4. n * e = n * c + n * k - n * d
  OBVIOUS
<1>5. n * c \in Int /\ n * d \in Int /\ n * e \in Int
  OBVIOUS
<1>6. n * e = m - l
  BY <1>1, <1>2, <1>3, <1>4, <1>5
<1>7. e \in Int /\ -n < n * e /\ n * e < n
  BY <1>6
<1>. HIDE DEF e
<1>8. e >= 1 => n * e >= n
  BY <1>7
<1>9. e <= -1 => n * e <= -n
  BY <1>7
<1>10. e = 0
  BY <1>7, <1>8, <1>9
<1>. QED BY <1>2, <1>3, <1>6, <1>10

-----------------------------------------------------------------------------
(* Least and largest elements.                                             *)
LEMMA LeastExists ==
  ASSUME NEW S \in SUBSET Nat, S # {}
  PROVE  \E i \in S : \A j \in S : i <= j
<1>1. PICK r \in S : \A s \in S : ~(<<s, r>> \in OpToRel(<, Nat))
  BY WFMin, NatLessThanWellFounded
<1>2. \A s, t \in Nat : s < t => <<s, t>> \in OpToRel(<, Nat)
  BY DEF OpToRel
<1>3. \A s \in S : ~(s < r)
  BY <1>1, <1>2
<1>. QED BY <1>3

(* A function into the naturals is least somewhere.                        *)
LEMMA LeastAt ==
  ASSUME NEW S, S # {}, NEW f \in [S -> Nat]
  PROVE  \E x \in S : \A y \in S : f[x] <= f[y]
<1>. DEFINE T == {f[x] : x \in S}
<1>1. T \in SUBSET Nat /\ T # {}
  OBVIOUS
<1>2. PICK t \in T : \A s \in T : t <= s
  <2>. HIDE DEF T
  <2>. QED BY <1>1, LeastExists
<1>3. PICK x \in S : t = f[x]
  OBVIOUS
<1>4. \A y \in S : f[x] <= f[y]
  BY <1>2, <1>3
<1>. QED BY <1>4

(* A finite set of naturals that is not empty has a largest element: the   *)
(* one with the fewest above it.                                           *)
LEMMA LargestExists ==
  ASSUME NEW S \in SUBSET Nat, S # {}, IsFiniteSet(S)
  PROVE  \E g \in S : \A h \in S : h <= g
<1>. DEFINE Above(g) == {h \in S : h > g}
            above == [g \in S |-> Cardinality(Above(g))]
<1>1. \A g \in S : IsFiniteSet(Above(g)) /\ Cardinality(Above(g)) \in Nat
  BY FS_Subset, FS_CardinalityType
<1>2. PICK g \in S : \A h \in S : above[g] <= above[h]
  <2>1. above \in [S -> Nat]
    BY <1>1
  <2>. HIDE DEF above
  <2>. QED BY <2>1, LeastAt
<1>3. ASSUME NEW h \in S, h > g PROVE FALSE
  <2>1. h \in Above(g) /\ h \notin Above(h)
    BY <1>3
  <2>3. Above(h) \subseteq Above(g)
    <3>1. \A x \in S : x > h => x > g
      BY <1>3
    <3>. QED BY <3>1
  <2>2. Cardinality(Above(h)) < Cardinality(Above(g))
    <3>. DEFINE A == Above(h)
                B == Above(g)
    <3>1. IsFiniteSet(B) /\ A \in SUBSET B /\ A # B
      BY <1>1, <2>1, <2>3
    <3>2. Cardinality(A) \in Nat /\ Cardinality(B) \in Nat
      BY <1>1
    <3>. HIDE DEF A, B
    <3>3. Cardinality(A) < Cardinality(B)
      BY <3>1, <3>2, FS_Subset
    <3>. QED BY <3>3 DEF A, B
  <2>. QED BY <1>1, <1>2, <2>2
<1>. QED BY <1>3

-----------------------------------------------------------------------------
(* Laws of SumOf, from the library's theorems on finite sets.              *)

(* One argument's units number exactly its value.                          *)
LEMMA UnitsOfOne ==
  ASSUME NEW d, NEW n \in Nat
  PROVE  /\ IsFiniteSet({d} \X (1 .. n))
         /\ Cardinality({d} \X (1 .. n)) = n
<1>1. IsFiniteSet({d}) /\ Cardinality({d}) = 1
  BY FS_Singleton
<1>2. IsFiniteSet(1 .. n) /\ Cardinality(1 .. n) = n
  BY FS_Interval
<1>3. /\ IsFiniteSet({d} \X (1 .. n))
      /\ Cardinality({d} \X (1 .. n)) = Cardinality({d}) * Cardinality(1 .. n)
  BY <1>1, <1>2, FS_Product
<1> QED
  BY <1>1, <1>2, <1>3

(* The units of a function with a finite domain are finitely many, so its  *)
(* sum is a natural number.                                                *)
LEMMA SumIsNat ==
  ASSUME NEW D, IsFiniteSet(D), NEW f \in [D -> Nat]
  PROVE  IsFiniteSet(Units(f)) /\ SumOf(f) \in Nat
<1> DEFINE g == [d \in D |-> {d} \X (1 .. f[d])]
           T == { {d} \X (1 .. f[d]) : d \in D }
<1>1. g \in Surjection(D, T)
  BY DEF Surjection
<1>2. IsFiniteSet(T)
  BY <1>1, FS_Surjection
<1>3. ASSUME NEW d \in D PROVE IsFiniteSet({d} \X (1 .. f[d]))
  BY UnitsOfOne
<1>4. IsFiniteSet(UNION T)
  <2>1. \A t \in T : IsFiniteSet(t)
    BY <1>3
  <2> HIDE DEF T
  <2> QED BY <1>2, <2>1, FS_UNION
<1>5. Units(f) = UNION T
  BY DEF Units
<1> QED
  BY <1>4, <1>5, FS_CardinalityType DEF SumOf

(* The units of f that are not units of its argument d.                    *)
UnitsBut(f, d) == {u \in Units(f) : u[1] # d}

(* A sum splits into one argument's value and the rest.                    *)
LEMMA SumSplit ==
  ASSUME NEW D, IsFiniteSet(D), NEW f \in [D -> Nat], NEW d \in D
  PROVE  /\ SumOf(f) = f[d] + Cardinality(UnitsBut(f, d))
         /\ Cardinality(UnitsBut(f, d)) \in Nat
<1> DEFINE One == {d} \X (1 .. f[d])
<1>1. IsFiniteSet(One) /\ Cardinality(One) = f[d] /\ f[d] \in Nat
  BY UnitsOfOne
<1>2. IsFiniteSet(UnitsBut(f, d)) /\ Cardinality(UnitsBut(f, d)) \in Nat
  BY SumIsNat, FS_Subset, FS_CardinalityType DEF UnitsBut
<1>3. Units(f) = One \cup UnitsBut(f, d)
  BY DEF Units, UnitsBut
<1>4. One \cap UnitsBut(f, d) = {}
  BY DEF UnitsBut
<1> HIDE DEF One
<1>5. Cardinality(One \cup UnitsBut(f, d)) = Cardinality(One) + Cardinality(UnitsBut(f, d))
  BY <1>1, <1>2, <1>4, FS_Union, FS_EmptySet
<1> QED
  BY <1>1, <1>2, <1>3, <1>5 DEF SumOf

(* Changing one argument changes the sum by the difference of its values.  *)
LEMMA SumChange ==
  ASSUME NEW D, IsFiniteSet(D), NEW f \in [D -> Nat], NEW g \in [D -> Nat],
         NEW d \in D, \A e \in D \ {d} : g[e] = f[e]
  PROVE  SumOf(g) = SumOf(f) - f[d] + g[d]
<1>1. UnitsBut(g, d) = UnitsBut(f, d)
  BY DEF Units, UnitsBut
<1>2. /\ SumOf(f) = f[d] + Cardinality(UnitsBut(f, d))
      /\ Cardinality(UnitsBut(f, d)) \in Nat
  BY SumSplit
<1>3. SumOf(g) = g[d] + Cardinality(UnitsBut(g, d))
  BY SumSplit
<1>4. f[d] \in Nat /\ g[d] \in Nat
  OBVIOUS
<1> QED
  BY <1>1, <1>2, <1>3, <1>4

(* No value exceeds the sum.                                               *)
LEMMA SumAtLeast ==
  ASSUME NEW D, IsFiniteSet(D), NEW f \in [D -> Nat], NEW d \in D
  PROVE  f[d] <= SumOf(f)
<1>1. /\ SumOf(f) = f[d] + Cardinality(UnitsBut(f, d))
      /\ Cardinality(UnitsBut(f, d)) \in Nat
  BY SumSplit
<1> QED
  BY <1>1

(* Pointwise larger functions have larger sums.                            *)
LEMMA SumMonotone ==
  ASSUME NEW D, IsFiniteSet(D), NEW f \in [D -> Nat], NEW g \in [D -> Nat],
         \A d \in D : f[d] <= g[d]
  PROVE  SumOf(f) <= SumOf(g)
<1>1. Units(f) \subseteq Units(g)
  BY DEF Units
<1>2. IsFiniteSet(Units(g))
  BY SumIsNat
<1> QED
  BY <1>1, <1>2, FS_Subset DEF SumOf

(* A function below the sum of two has a sum below the sum of theirs.      *)
LEMMA SumOfTwo ==
  ASSUME NEW D, IsFiniteSet(D), NEW f \in [D -> Nat], NEW g \in [D -> Nat], NEW h \in [D -> Nat],
         \A d \in D : h[d] <= f[d] + g[d]
  PROVE  SumOf(h) <= SumOf(f) + SumOf(g)
<1>. DEFINE behind == [u \in Units(g) |-> <<u[1], f[u[1]] + u[2]>>]
            moved == {behind[u] : u \in Units(g)}
<1>1. \A d \in D : \A k \in 1 .. g[d] : <<d, k>> \in Units(g)
  BY DEF Units
<1>2. \A d \in D : \A k \in 1 .. f[d] : <<d, k>> \in Units(f)
  BY DEF Units
<1>3. ASSUME NEW u \in Units(h) PROVE u \in Units(f) \cup moved
  <2>1. PICK d \in D : u \in {d} \X (1 .. h[d])
    BY DEF Units
  <2>2. PICK k \in 1 .. h[d] : u = <<d, k>>
    BY <2>1
  <2>3. k \in Nat /\ k > 0 /\ f[d] \in Nat /\ g[d] \in Nat /\ k <= f[d] + g[d]
    BY <2>2
  <2>4. CASE k <= f[d]
    BY <1>2, <2>2, <2>3, <2>4
  <2>5. CASE k > f[d]
    <3>1. k - f[d] \in 1 .. g[d] /\ f[d] + (k - f[d]) = k
      BY <2>3, <2>5
    <3>2. <<d, k - f[d]>> \in Units(g)
      BY <1>1, <3>1
    <3>3. behind[<<d, k - f[d]>>] = u
      BY <2>2, <3>1, <3>2
    <3>. QED BY <3>2, <3>3
  <2>. QED BY <2>3, <2>4, <2>5
<1>4. behind \in Surjection(Units(g), moved)
  BY DEF Surjection
<1>. HIDE DEF behind, moved
<1>5. /\ IsFiniteSet(Units(f)) /\ IsFiniteSet(Units(g))
      /\ SumOf(f) \in Nat /\ SumOf(g) \in Nat /\ SumOf(h) \in Nat
  BY SumIsNat
<1>6. IsFiniteSet(moved) /\ Cardinality(moved) <= SumOf(g)
  BY <1>4, <1>5, FS_Surjection DEF SumOf
<1>7. /\ IsFiniteSet(Units(f) \cup moved)
      /\ Cardinality(Units(f) \cup moved)
           = Cardinality(Units(f)) + Cardinality(moved) - Cardinality(Units(f) \cap moved)
  BY <1>5, <1>6, FS_Union
<1>8. Cardinality(Units(h)) <= Cardinality(Units(f) \cup moved)
  BY <1>3, <1>7, FS_Subset
<1>9. /\ Cardinality(Units(f) \cap moved) \in Nat
      /\ Cardinality(moved) \in Nat
  <2>1. IsFiniteSet(Units(f) \cap moved)
    BY <1>6, FS_Subset
  <2>. QED BY <2>1, <1>6, FS_CardinalityType
<1>. QED BY <1>5, <1>6, <1>7, <1>8, <1>9 DEF SumOf

(* The sum of zeroes is zero.                                              *)
LEMMA SumZero ==
  ASSUME NEW D, NEW f \in [D -> Nat], \A d \in D : f[d] = 0
  PROVE  SumOf(f) = 0
<1>1. Units(f) = {}
  BY DEF Units
<1> QED
  BY <1>1, FS_EmptySet DEF SumOf

(* A sum does not change when the arguments with a value are renamed.      *)
LEMMA SumRenamed ==
  ASSUME NEW D, NEW E, IsFiniteSet(E), NEW f \in [D -> Nat], NEW g \in [E -> Nat], NEW r \in [D -> E],
         \A c, d \in D : f[c] > 0 /\ f[d] > 0 /\ r[c] = r[d] => c = d,
         \A d \in D : f[d] > 0 => g[r[d]] = f[d],
         \A e \in E : g[e] > 0 => \E d \in D : r[d] = e /\ f[d] = g[e]
  PROVE  SumOf(f) = SumOf(g)
<1>. DEFINE m == [u \in Units(f) |-> <<r[u[1]], u[2]>>]
<1>1. \A u \in Units(f) : /\ u = <<u[1], u[2]>> /\ u[1] \in D /\ u[2] \in 1 .. f[u[1]]
                          /\ f[u[1]] > 0
  BY DEF Units
<1>2. \A d \in D : \A k \in 1 .. f[d] : <<d, k>> \in Units(f)
  BY DEF Units
<1>3. \A u \in Units(g) : /\ u = <<u[1], u[2]>> /\ u[1] \in E /\ u[2] \in 1 .. g[u[1]]
                          /\ g[u[1]] > 0
  BY DEF Units
<1>4. \A e \in E : \A k \in 1 .. g[e] : <<e, k>> \in Units(g)
  BY DEF Units
<1>5. m \in [Units(f) -> Units(g)]
  <2>1. \A u \in Units(f) : r[u[1]] \in E /\ g[r[u[1]]] = f[u[1]]
    BY <1>1
  <2>2. \A u \in Units(f) : <<r[u[1]], u[2]>> \in Units(g)
    BY <1>1, <1>4, <2>1
  <2>. QED BY <2>2
<1>6. ASSUME NEW u \in Units(f), NEW v \in Units(f), m[u] = m[v] PROVE u = v
  <2>1. r[u[1]] = r[v[1]] /\ u[2] = v[2]
    BY <1>6
  <2>2. u[1] = v[1]
    BY <1>1, <2>1
  <2>. QED BY <1>1, <2>1, <2>2
<1>7. ASSUME NEW u \in Units(g) PROVE \E v \in Units(f) : m[v] = u
  <2>1. PICK d \in D : r[d] = u[1] /\ f[d] = g[u[1]]
    BY <1>3
  <2>2. <<d, u[2]>> \in Units(f)
    BY <1>2, <1>3, <2>1
  <2>. QED BY <1>3, <2>1, <2>2
<1>8. m \in Surjection(Units(f), Units(g)) /\ m \in Injection(Units(f), Units(g))
  <2>. HIDE DEF m
  <2>. QED BY <1>5, <1>6, <1>7 DEF Surjection, Injection, IsInjective
<1>9. IsFiniteSet(Units(g))
  BY SumIsNat
<1>. HIDE DEF m
<1>. QED BY <1>8, <1>9, FS_Injection DEF SumOf
=============================================================================

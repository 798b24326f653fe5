----------------------------- MODULE Induction -----------------------------
(***************************************************************************)
(* Induction in a form the provers can use: over a set of numbers instead  *)
(* of an operator; and what follows from it for finite sets of numbers,    *)
(* for functions defined by recursion, and for sums over finite sets.      *)
(***************************************************************************)
EXTENDS Naturals, FiniteSetTheorems, WellFoundedInduction, TLAPS

(* Every set of natural numbers has a least element.                       *)
LEMMA LeastNat ==
  ASSUME NEW T, T \subseteq Nat, T # {}
  PROVE  \E m \in T : \A n \in T : m <= n
<1>1. PICK m \in T : \A n \in T : <<n, m>> \notin OpToRel(<, Nat)
  BY WFMin, NatLessThanWellFounded, Zenon
<1>2. \A n \in T : ~(n < m)
  BY <1>1, Zenon DEF OpToRel
<1> QED
  BY <1>2

(* A set that has 0 and the successors of its numbers has every number.    *)
LEMMA Induct ==
  ASSUME NEW S, 0 \in S, \A n \in Nat : n \in S => n + 1 \in S
  PROVE  \A n \in Nat : n \in S
<1> SUFFICES ASSUME Nat \ S # {} PROVE FALSE
  OBVIOUS
<1>1. PICK m \in Nat \ S : \A n \in Nat \ S : m <= n
  BY LeastNat
<1>2. m - 1 \in Nat /\ m - 1 < m
  BY <1>1
<1> QED
  BY <1>1, <1>2

(* A finite set of numbers has a greatest element.                         *)
LEMMA GreatestNat ==
  ASSUME NEW S \in SUBSET Nat, IsFiniteSet(S), S # {}
  PROVE  \E m \in S : \A n \in S : n <= m
<1> DEFINE Bounded(A) == \E m \in A : \A n \in A : n <= m
           Sizes == {k \in Nat : \A A \in SUBSET S : Cardinality(A) = k /\ A # {} => Bounded(A)}
<1>1. 0 \in Sizes
  BY FS_EmptySet, FS_Subset
<1>2. ASSUME NEW k \in Nat, k \in Sizes PROVE k + 1 \in Sizes
  <2> SUFFICES ASSUME NEW A \in SUBSET S, Cardinality(A) = k + 1, A # {} PROVE Bounded(A)
    OBVIOUS
  <2>1. PICK x \in A : TRUE
    OBVIOUS
  <2> DEFINE B == A \ {x}
  <2>2. B \in SUBSET S /\ Cardinality(B) = k
    <3>1. IsFiniteSet(A)
      BY FS_Subset
    <3>2. Cardinality(B) = Cardinality(A) - 1
      BY <3>1, <2>1, FS_RemoveElement
    <3> QED
      BY <3>2
  <2>3. CASE B = {}
    BY <2>1, <2>3
  <2>4. CASE B # {}
    <3>1. PICK m \in B : \A n \in B : n <= m
      BY <2>2, <2>4, <1>2
    <3>2. CASE x <= m
      BY <3>1, <3>2
    <3>3. CASE m < x
      BY <3>1, <3>3, <2>1
    <3> QED
      BY <3>2, <3>3, <3>1, <2>1
  <2> QED
    BY <2>3, <2>4
<1>3. \A k \in Nat : k \in Sizes
  <2> HIDE DEF Sizes
  <2> QED
    BY <1>1, <1>2, Induct
<1>4. Cardinality(S) \in Nat
  BY FS_CardinalityType
<1> QED
  BY <1>3, <1>4

(* What a function makes of a finite set is finite.                        *)
LEMMA ImageIsFinite ==
  ASSUME NEW A, IsFiniteSet(A), NEW h
  PROVE  IsFiniteSet({h[x] : x \in A})
<1> DEFINE g == [x \in A |-> h[x]]
           B == {h[x] : x \in A}
<1>1. g \in Surjection(A, B)
  BY DEF Surjection
<1> HIDE DEF g, B
<1>2. IsFiniteSet(B)
  BY <1>1, FS_Surjection
<1> QED BY <1>2 DEF B

(* The values that next reaches from a, one number after the other.        *)
Follows(g, n, a, next) == g[0] = a /\ \A k \in 1..n : g[k] = next[k][g[k - 1]]

LEMMA Recursion ==
  ASSUME NEW n \in Nat, NEW T, NEW a \in T, NEW next \in [1..n -> [T -> T]]
  PROVE  \E g \in [0..n -> T] : Follows(g, n, a, next)
<1> DEFINE S == {m \in Nat : m <= n =>
                   \E g \in [0..m -> T] : Follows(g, m, a, next)}
<1>1. 0 \in S
  <2> DEFINE g == [k \in 0..0 |-> a]
  <2>1. g \in [0..0 -> T] /\ Follows(g, 0, a, next)
    BY DEF Follows
  <2> QED BY <2>1
<1>2. ASSUME NEW m \in Nat, m \in S PROVE m + 1 \in S
  <2> SUFFICES ASSUME m + 1 <= n
               PROVE  \E g \in [0..(m + 1) -> T] : Follows(g, m + 1, a, next)
    OBVIOUS
  <2>1. PICK f \in [0..m -> T] : Follows(f, m, a, next)
    BY <1>2
  <2> DEFINE x == next[m + 1][f[m]]
             g == [k \in 0..(m + 1) |-> IF k = m + 1 THEN x ELSE f[k]]
  <2>2. x \in T
    <3>1. m + 1 \in 1..n /\ m \in 0..m
      OBVIOUS
    <3>2. f[m] \in T
      BY <3>1
    <3>3. next[m + 1] \in [T -> T]
      BY <3>1
    <3> QED BY <3>2, <3>3
  <2>3. g \in [0..(m + 1) -> T]
    BY <2>2
  <2>4. \A k \in 0..m : g[k] = f[k]
    <3> HIDE DEF x
    <3> QED OBVIOUS
  <2>5. g[m + 1] = x
    <3> HIDE DEF x
    <3> QED OBVIOUS
  <2> HIDE DEF g
  <2>6. g[0] = a
    BY <2>1, <2>4 DEF Follows
  <2>7. ASSUME NEW k \in 1..(m + 1) PROVE g[k] = next[k][g[k - 1]]
    <3>1. k - 1 \in 0..m /\ (k = m + 1 => k - 1 = m) /\ (k # m + 1 => k \in 0..m /\ k \in 1..m)
      OBVIOUS
    <3>2. g[k - 1] = f[k - 1]
      BY <2>4, <3>1
    <3> QED BY <2>1, <2>4, <2>5, <3>1, <3>2 DEF Follows
  <2> QED BY <2>3, <2>6, <2>7 DEF Follows
<1> HIDE DEF S
<1>3. n \in S
  BY <1>1, <1>2, Induct
<1> QED
  BY <1>3 DEF S

-----------------------------------------------------------------------------
(* Sums over finite sets, as the community modules define them: a fold     *)
(* that takes an element of its choice after the other.                    *)

(* g has the sum of every set of A with at most n elements.                *)
Pick(s) == CHOOSE x \in s : TRUE
Small(A, n) == {s \in SUBSET A : Cardinality(s) <= n}
SumTable(g, f, A, n) ==
  g = [s \in Small(A, n) |-> IF s = {} THEN 0 ELSE f[Pick(s)] + g[s \ {Pick(s)}]]

LEMMA PickIsIn == ASSUME NEW s, s # {} PROVE Pick(s) \in s
BY DEF Pick

LEMMA SmallLess ==
  ASSUME NEW A, IsFiniteSet(A), NEW s \in SUBSET A, NEW x \in s
  PROVE  /\ Cardinality(s) \in Nat /\ Cardinality(s \ {x}) \in Nat
         /\ Cardinality(s \ {x}) = Cardinality(s) - 1 /\ s \ {x} \in SUBSET A
<1>1. IsFiniteSet(s)
  BY FS_Subset
<1>2. Cardinality(s) \in Nat /\ Cardinality(s \ {x}) = Cardinality(s) - 1 /\ IsFiniteSet(s \ {x})
  BY <1>1, FS_RemoveElement, FS_CardinalityType
<1>3. Cardinality(s \ {x}) \in Nat
  BY <1>2, FS_CardinalityType
<1> QED BY <1>2, <1>3

(* Such a function exists, for any size. *)
LEMMA SumsExist ==
  ASSUME NEW f, NEW A, IsFiniteSet(A)
  PROVE  \A n \in Nat : \E g : SumTable(g, f, A, n)
<1> DEFINE T == {n \in Nat : \E g : SumTable(g, f, A, n)}
<1>1. 0 \in T
  <2> DEFINE g == [s \in Small(A, 0) |-> 0]
  <2>1. ASSUME NEW s \in Small(A, 0) PROVE s = {}
    <3>1. IsFiniteSet(s) /\ Cardinality(s) <= 0
      BY FS_Subset DEF Small
    <3> QED BY <3>1, FS_CardinalityType, FS_EmptySet
  <2>2. g = [s \in Small(A, 0) |-> IF s = {} THEN 0 ELSE f[Pick(s)] + g[s \ {Pick(s)}]]
    BY <2>1
  <2> HIDE DEF g
  <2> QED BY <2>2 DEF SumTable
<1>2. ASSUME NEW n \in Nat, n \in T PROVE n + 1 \in T
  <2>1. PICK g : SumTable(g, f, A, n)
    BY <1>2
  <2> DEFINE h == [s \in Small(A, n + 1) |-> IF s = {} THEN 0 ELSE f[Pick(s)] + g[s \ {Pick(s)}]]
  <2>2. ASSUME NEW s \in Small(A, n) PROVE s \in Small(A, n + 1) /\ h[s] = g[s]
    <3>1. s \in Small(A, n + 1)
      <4>1. Cardinality(s) \in Nat
        BY FS_Subset, FS_CardinalityType DEF Small
      <4> QED BY <4>1 DEF Small
    <3>2. g[s] = IF s = {} THEN 0 ELSE f[Pick(s)] + g[s \ {Pick(s)}]
      BY <2>1 DEF SumTable
    <3> QED BY <3>1, <3>2
  <2>3. ASSUME NEW s \in Small(A, n + 1), s # {} PROVE s \ {Pick(s)} \in Small(A, n)
    <3>1. Pick(s) \in s /\ s \in SUBSET A /\ Cardinality(s) <= n + 1
      BY <2>3, PickIsIn DEF Small
    <3> QED BY <3>1, SmallLess DEF Small
  <2>4. ASSUME NEW s \in Small(A, n + 1)
        PROVE  h[s] = IF s = {} THEN 0 ELSE f[Pick(s)] + h[s \ {Pick(s)}]
    <3>1. h[s] = IF s = {} THEN 0 ELSE f[Pick(s)] + g[s \ {Pick(s)}]
      OBVIOUS
    <3> HIDE DEF h
    <3> QED BY <3>1, <2>2, <2>3
  <2>5. h = [s \in Small(A, n + 1) |-> h[s]]
    OBVIOUS
  <2> HIDE DEF h
  <2>6. SumTable(h, f, A, n + 1)
    BY <2>4, <2>5 DEF SumTable
  <2> QED BY <2>6
<1> HIDE DEF T
<1>3. \A n \in Nat : n \in T
  BY <1>1, <1>2, Induct
<1> QED BY <1>3 DEF T

(* What the fold of the community modules chooses is one of them. *)
SumOf(f, A) == CHOOSE g : g = [s \in SUBSET A |-> IF s = {} THEN 0 ELSE f[Pick(s)] + g[s \ {Pick(s)}]]

LEMMA SumOfIs ==
  ASSUME NEW f, NEW A, IsFiniteSet(A)
  PROVE  /\ SumFunctionOnSet(f, A) = SumOf(f, A)[A]
         /\ \A s \in SUBSET A :
              SumOf(f, A)[s] = IF s = {} THEN 0 ELSE f[Pick(s)] + SumOf(f, A)[s \ {Pick(s)}]
<1>1. SumFunctionOnSet(f, A) = SumOf(f, A)[A]
  BY DEF SumFunctionOnSet, FoldFunctionOnSet, MapThenFoldSet, SumOf, Pick
<1>2. PICK n \in Nat : Cardinality(A) = n
  BY FS_CardinalityType
<1>3. ASSUME NEW s \in SUBSET A PROVE s \in Small(A, n)
  BY <1>2, FS_Subset DEF Small
<1>4. Small(A, n) = SUBSET A
  BY <1>3 DEF Small
<1>5. PICK g : SumTable(g, f, A, n)
  BY SumsExist
<1>6. g = [s \in SUBSET A |-> IF s = {} THEN 0 ELSE f[Pick(s)] + g[s \ {Pick(s)}]]
  BY <1>4, <1>5 DEF SumTable
<1>7. SumOf(f, A) = [s \in SUBSET A |-> IF s = {} THEN 0 ELSE f[Pick(s)] + SumOf(f, A)[s \ {Pick(s)}]]
  BY <1>6 DEF SumOf
<1> QED BY <1>1, <1>7

(* The sum of a part does not depend on the whole. *)
LEMMA SumOfPart ==
  ASSUME NEW f, NEW A, IsFiniteSet(A), NEW B \in SUBSET A
  PROVE  \A s \in SUBSET B : SumOf(f, B)[s] = SumOf(f, A)[s]
<1>0. IsFiniteSet(B)
  BY FS_Subset
<1> DEFINE T == {n \in Nat : \A s \in Small(B, n) : SumOf(f, B)[s] = SumOf(f, A)[s]}
<1>a. ASSUME NEW s \in SUBSET B
      PROVE  /\ SumOf(f, B)[s] = IF s = {} THEN 0 ELSE f[Pick(s)] + SumOf(f, B)[s \ {Pick(s)}]
             /\ SumOf(f, A)[s] = IF s = {} THEN 0 ELSE f[Pick(s)] + SumOf(f, A)[s \ {Pick(s)}]
  <2>1. s \in SUBSET A
    OBVIOUS
  <2> QED BY <1>0, <2>1, SumOfIs
<1>1. 0 \in T
  <2>1. ASSUME NEW s \in Small(B, 0) PROVE s = {}
    <3>1. IsFiniteSet(s) /\ Cardinality(s) <= 0
      BY <1>0, FS_Subset DEF Small
    <3> QED BY <3>1, FS_CardinalityType, FS_EmptySet
  <2>2. SumOf(f, B)[{}] = SumOf(f, A)[{}]
    BY <1>a
  <2> QED BY <2>1, <2>2
<1>2. ASSUME NEW n \in Nat, n \in T PROVE n + 1 \in T
  <2> SUFFICES ASSUME NEW s \in Small(B, n + 1), s # {} PROVE SumOf(f, B)[s] = SumOf(f, A)[s]
    BY <1>a DEF Small
  <2>1. Pick(s) \in s /\ s \in SUBSET B /\ Cardinality(s) <= n + 1
    BY PickIsIn DEF Small
  <2>2. s \ {Pick(s)} \in Small(B, n)
    BY <1>0, <2>1, SmallLess DEF Small
  <2>3. SumOf(f, B)[s \ {Pick(s)}] = SumOf(f, A)[s \ {Pick(s)}]
    BY <1>2, <2>2
  <2> QED BY <1>a, <2>1, <2>3
<1> HIDE DEF T
<1>3. \A n \in Nat : n \in T
  BY <1>1, <1>2, Induct
<1>4. ASSUME NEW s \in SUBSET B PROVE \E n \in Nat : s \in Small(B, n)
  <2>1. Cardinality(s) \in Nat
    BY <1>0, FS_Subset, FS_CardinalityType
  <2> QED BY <2>1 DEF Small
<1> QED BY <1>3, <1>4 DEF T

LEMMA SumEmpty == ASSUME NEW f PROVE SumFunctionOnSet(f, {}) = 0
BY SumOfIs, FS_EmptySet

LEMMA SumStep ==
  ASSUME NEW f, NEW A, IsFiniteSet(A), A # {}
  PROVE  /\ Pick(A) \in A
         /\ SumFunctionOnSet(f, A) = f[Pick(A)] + SumFunctionOnSet(f, A \ {Pick(A)})
<1> DEFINE B == A \ {Pick(A)}
<1>1. IsFiniteSet(B) /\ B \in SUBSET A
  BY FS_Subset
<1>2. SumFunctionOnSet(f, B) = SumOf(f, B)[B]
  BY <1>1, SumOfIs
<1>3. SumOf(f, B)[B] = SumOf(f, A)[B]
  BY <1>1, SumOfPart
<1>4. SumFunctionOnSet(f, A) = SumOf(f, A)[A] /\ SumOf(f, A)[A] = f[Pick(A)] + SumOf(f, A)[B]
  BY SumOfIs
<1> QED BY <1>2, <1>3, <1>4, PickIsIn

(* What holds of a finite set when it does of all sets with one element    *)
(* less, holds of every finite set.                                        *)
LEMMA FiniteSteps ==
  ASSUME NEW A, IsFiniteSet(A), NEW P, {} \in P,
         \A B \in SUBSET A : (\A x \in B : B \ {x} \in P) => B \in P
  PROVE  A \in P
<1> DEFINE T == {n \in Nat : Small(A, n) \subseteq P}
<1>1. 0 \in T
  <2>1. ASSUME NEW s \in Small(A, 0) PROVE s = {}
    <3>1. IsFiniteSet(s) /\ Cardinality(s) <= 0
      BY FS_Subset DEF Small
    <3> QED BY <3>1, FS_CardinalityType, FS_EmptySet
  <2> QED BY <2>1
<1>2. ASSUME NEW n \in Nat, n \in T PROVE n + 1 \in T
  <2> SUFFICES ASSUME NEW s \in Small(A, n + 1), s # {} PROVE s \in P
    OBVIOUS
  <2>1. s \in SUBSET A /\ Cardinality(s) <= n + 1
    BY DEF Small
  <2>2. ASSUME NEW x \in s PROVE s \ {x} \in Small(A, n)
    BY <2>1, SmallLess DEF Small
  <2> QED BY <1>2, <2>1, <2>2
<1> HIDE DEF T
<1>3. \A n \in Nat : n \in T
  BY <1>1, <1>2, Induct
<1>4. PICK n \in Nat : Cardinality(A) = n
  BY FS_CardinalityType
<1>5. A \in Small(A, n)
  BY <1>4 DEF Small
<1> QED BY <1>3, <1>5 DEF T

(* A sum of numbers is a number. *)
LEMMA SumType ==
  ASSUME NEW f, NEW A, IsFiniteSet(A), \A x \in A : f[x] \in Nat
  PROVE  SumFunctionOnSet(f, A) \in Nat
<1> DEFINE P == {B \in SUBSET A : SumFunctionOnSet(f, B) \in Nat}
<1>1. {} \in P
  BY SumEmpty
<1>2. ASSUME NEW B \in SUBSET A, B # {}, \A x \in B : B \ {x} \in P PROVE B \in P
  <2>1. IsFiniteSet(B)
    BY FS_Subset
  <2>2. Pick(B) \in B /\ SumFunctionOnSet(f, B) = f[Pick(B)] + SumFunctionOnSet(f, B \ {Pick(B)})
    BY <1>2, <2>1, SumStep
  <2>3. SumFunctionOnSet(f, B \ {Pick(B)}) \in Nat
    BY <1>2, <2>2
  <2> QED BY <2>2, <2>3
<1>3. \A B \in SUBSET A : (\A x \in B : B \ {x} \in P) => B \in P
  BY <1>1, <1>2
<1> HIDE DEF P
<1>4. A \in P
  BY <1>1, <1>3, FiniteSteps
<1> QED BY <1>4 DEF P

(* Any element can be taken out first. *)
LEMMA SumPick ==
  ASSUME NEW f, NEW A, IsFiniteSet(A), \A x \in A : f[x] \in Nat, NEW y \in A
  PROVE  SumFunctionOnSet(f, A) = f[y] + SumFunctionOnSet(f, A \ {y})
<1> DEFINE P == {B \in SUBSET A : \A z \in B : SumFunctionOnSet(f, B) = f[z] + SumFunctionOnSet(f, B \ {z})}
<1>1. {} \in P
  OBVIOUS
<1>2. ASSUME NEW B \in SUBSET A, NEW z \in B, \A x \in B : B \ {x} \in P
      PROVE  SumFunctionOnSet(f, B) = f[z] + SumFunctionOnSet(f, B \ {z})
  <2> DEFINE p == Pick(B)
  <2>1. IsFiniteSet(B)
    BY FS_Subset
  <2>2. p \in B /\ SumFunctionOnSet(f, B) = f[p] + SumFunctionOnSet(f, B \ {p})
    BY <2>1, SumStep
  <2> HIDE DEF p
  <2> SUFFICES ASSUME z # p PROVE SumFunctionOnSet(f, B) = f[z] + SumFunctionOnSet(f, B \ {z})
    BY <2>2
  <2>3. SumFunctionOnSet(f, B \ {p}) = f[z] + SumFunctionOnSet(f, (B \ {p}) \ {z})
    BY <1>2, <2>2
  <2>4. SumFunctionOnSet(f, B \ {z}) = f[p] + SumFunctionOnSet(f, (B \ {z}) \ {p})
    BY <1>2, <2>2
  <2>5. (B \ {p}) \ {z} = (B \ {z}) \ {p}
    OBVIOUS
  <2> DEFINE s == SumFunctionOnSet(f, (B \ {z}) \ {p})
  <2>6. s \in Nat
    <3>1. IsFiniteSet((B \ {z}) \ {p})
      BY <2>1, FS_Subset
    <3> QED BY <3>1, SumType
  <2>7. SumFunctionOnSet(f, B \ {p}) = f[z] + s /\ SumFunctionOnSet(f, B \ {z}) = f[p] + s
    BY <2>3, <2>4, <2>5
  <2>8. f[z] \in Nat /\ f[p] \in Nat
    BY <2>2
  <2> HIDE DEF s
  <2> QED BY <2>2, <2>6, <2>7, <2>8
<1>3. \A B \in SUBSET A : (\A x \in B : B \ {x} \in P) => B \in P
  BY <1>2
<1> HIDE DEF P
<1>4. A \in P
  BY <1>1, <1>3, FiniteSteps
<1> QED BY <1>4 DEF P

(* Equal terms have equal sums. *)
LEMMA SumEqual ==
  ASSUME NEW f, NEW g, NEW A, IsFiniteSet(A), \A x \in A : f[x] = g[x]
  PROVE  SumFunctionOnSet(f, A) = SumFunctionOnSet(g, A)
<1> DEFINE P == {B \in SUBSET A : SumFunctionOnSet(f, B) = SumFunctionOnSet(g, B)}
<1>1. {} \in P
  BY SumEmpty
<1>2. ASSUME NEW B \in SUBSET A, B # {}, \A x \in B : B \ {x} \in P PROVE B \in P
  <2>1. IsFiniteSet(B)
    BY FS_Subset
  <2>2. /\ Pick(B) \in B
        /\ SumFunctionOnSet(f, B) = f[Pick(B)] + SumFunctionOnSet(f, B \ {Pick(B)})
        /\ SumFunctionOnSet(g, B) = g[Pick(B)] + SumFunctionOnSet(g, B \ {Pick(B)})
    BY <1>2, <2>1, SumStep
  <2> QED BY <1>2, <2>2
<1>3. \A B \in SUBSET A : (\A x \in B : B \ {x} \in P) => B \in P
  BY <1>1, <1>2
<1> HIDE DEF P
<1>4. A \in P
  BY <1>1, <1>3, FiniteSteps
<1> QED BY <1>4 DEF P

(* Less in every term is less in the sum. *)
LEMMA SumLess ==
  ASSUME NEW f, NEW g, NEW A, IsFiniteSet(A),
         \A x \in A : f[x] \in Nat /\ g[x] \in Nat /\ f[x] <= g[x]
  PROVE  SumFunctionOnSet(f, A) <= SumFunctionOnSet(g, A)
<1> DEFINE P == {B \in SUBSET A : SumFunctionOnSet(f, B) <= SumFunctionOnSet(g, B)}
<1>1. {} \in P
  BY SumEmpty
<1>2. ASSUME NEW B \in SUBSET A, B # {}, \A x \in B : B \ {x} \in P PROVE B \in P
  <2> DEFINE C == B \ {Pick(B)}
  <2>1. IsFiniteSet(B) /\ IsFiniteSet(C)
    BY FS_Subset
  <2>2. /\ Pick(B) \in B
        /\ SumFunctionOnSet(f, B) = f[Pick(B)] + SumFunctionOnSet(f, C)
        /\ SumFunctionOnSet(g, B) = g[Pick(B)] + SumFunctionOnSet(g, C)
    BY <1>2, <2>1, SumStep
  <2>3. SumFunctionOnSet(f, C) <= SumFunctionOnSet(g, C)
    BY <1>2, <2>2
  <2>4. SumFunctionOnSet(f, C) \in Nat /\ SumFunctionOnSet(g, C) \in Nat
    BY <2>1, SumType
  <2>5. f[Pick(B)] \in Nat /\ g[Pick(B)] \in Nat /\ f[Pick(B)] <= g[Pick(B)]
    BY <2>2
  <2> QED BY <2>2, <2>3, <2>4, <2>5
<1>3. \A B \in SUBSET A : (\A x \in B : B \ {x} \in P) => B \in P
  BY <1>1, <1>2
<1> HIDE DEF P
<1>4. A \in P
  BY <1>1, <1>3, FiniteSteps
<1> QED BY <1>4 DEF P

(* Terms that are 0 can be left out. *)
LEMMA SumZeros ==
  ASSUME NEW f, NEW A, IsFiniteSet(A), \A x \in A : f[x] \in Nat,
         NEW B \in SUBSET A, \A x \in A \ B : f[x] = 0
  PROVE  SumFunctionOnSet(f, A) = SumFunctionOnSet(f, B)
<1> DEFINE P == {C \in SUBSET A : SumFunctionOnSet(f, C) = SumFunctionOnSet(f, B \cap C)}
<1>1. {} \in P
  OBVIOUS
<1>2. ASSUME NEW C \in SUBSET A, C # {}, \A x \in C : C \ {x} \in P PROVE C \in P
  <2> DEFINE p == Pick(C)
             D == C \ {p}
  <2>1. IsFiniteSet(C) /\ IsFiniteSet(D) /\ IsFiniteSet(B \cap C)
    BY FS_Subset
  <2>2. p \in C /\ SumFunctionOnSet(f, C) = f[p] + SumFunctionOnSet(f, D)
    BY <1>2, <2>1, SumStep
  <2>3. SumFunctionOnSet(f, D) = SumFunctionOnSet(f, B \cap D) /\ SumFunctionOnSet(f, D) \in Nat
    BY <1>2, <2>1, <2>2, SumType
  <2>4. CASE p \in B
    <3>1. p \in B \cap C /\ (B \cap C) \ {p} = B \cap D
      BY <2>2, <2>4
    <3>2. SumFunctionOnSet(f, B \cap C) = f[p] + SumFunctionOnSet(f, (B \cap C) \ {p})
      BY <2>1, <3>1, SumPick
    <3> QED BY <2>2, <2>3, <3>1, <3>2
  <2>5. CASE p \notin B
    <3>1. B \cap C = B \cap D /\ f[p] = 0
      BY <2>2, <2>5
    <3>2. SumFunctionOnSet(f, C) = SumFunctionOnSet(f, D)
      <4> HIDE DEF p, D
      <4> QED BY <2>2, <2>3, <3>1
    <3>3. SumFunctionOnSet(f, B \cap C) = SumFunctionOnSet(f, B \cap D)
      BY <3>1
    <3> QED BY <2>3, <3>2, <3>3
  <2> QED BY <2>4, <2>5
<1>3. \A C \in SUBSET A : (\A x \in C : C \ {x} \in P) => C \in P
  BY <1>1, <1>2
<1>4. B \cap A = B
  OBVIOUS
<1> HIDE DEF P
<1>5. A \in P
  BY <1>1, <1>3, FiniteSteps
<1> QED BY <1>4, <1>5 DEF P

(* A set can be added up group by group: h has the group of each element.  *)
LEMMA SumGroups ==
  ASSUME NEW f, NEW A, IsFiniteSet(A), \A x \in A : f[x] \in Nat,
         NEW K, IsFiniteSet(K), NEW h, \A x \in A : h[x] \in K
  PROVE  SumFunctionOnSet(f, A)
           = SumFunctionOnSet([k \in K |-> SumFunctionOnSet(f, {x \in A : h[x] = k})], K)
<1> DEFINE G(B, k) == {x \in B : h[x] = k}
           F(B) == [k \in K |-> SumFunctionOnSet(f, G(B, k))]
           P == {B \in SUBSET A : SumFunctionOnSet(f, B) = SumFunctionOnSet(F(B), K)}
<1>a. ASSUME NEW B \in SUBSET A, NEW k \in K
      PROVE  F(B)[k] = SumFunctionOnSet(f, G(B, k)) /\ F(B)[k] \in Nat /\ IsFiniteSet(G(B, k))
  <2>1. IsFiniteSet(G(B, k)) /\ G(B, k) \subseteq A
    BY FS_Subset
  <2> QED BY <2>1, SumType
<1>1. {} \in P
  <2>1. ASSUME NEW k \in K PROVE F({})[k] = 0
    <3>1. G({}, k) = {}
      OBVIOUS
    <3> QED BY <3>1, SumEmpty
  <2>2. \A k \in K : F({})[k] \in Nat
    BY <2>1
  <2> HIDE DEF F
  <2>3. SumFunctionOnSet(F({}), K) = SumFunctionOnSet(F({}), {})
    BY <2>1, <2>2, SumZeros
  <2> QED BY <2>3, SumEmpty
<1>2. ASSUME NEW B \in SUBSET A, B # {}, \A x \in B : B \ {x} \in P PROVE B \in P
  <2> DEFINE p == Pick(B)
             C == B \ {p}
             q == h[p]
  <2>1. IsFiniteSet(B) /\ IsFiniteSet(C) /\ C \in SUBSET A /\ IsFiniteSet(K \ {q})
    BY FS_Subset
  <2>2. p \in B /\ SumFunctionOnSet(f, B) = f[p] + SumFunctionOnSet(f, C)
    BY <1>2, <2>1, SumStep
  <2>3. SumFunctionOnSet(f, C) = SumFunctionOnSet(F(C), K)
    BY <1>2, <2>2
  <2>4. q \in K
    BY <2>2
  <2>5. F(B)[q] = f[p] + F(C)[q]
    <3>1. p \in G(B, q) /\ G(C, q) = G(B, q) \ {p}
      BY <2>2
    <3>2. SumFunctionOnSet(f, G(B, q)) = f[p] + SumFunctionOnSet(f, G(B, q) \ {p})
      <4> DEFINE E == G(B, q)
      <4>1. IsFiniteSet(E) /\ p \in E /\ \A x \in E : f[x] \in Nat
        BY <1>a, <2>4, <3>1
      <4> HIDE DEF E, p
      <4>2. SumFunctionOnSet(f, E) = f[p] + SumFunctionOnSet(f, E \ {p})
        BY <4>1, SumPick
      <4> QED BY <4>2 DEF E
    <3> QED BY <3>1, <3>2, <2>4
  <2>6. ASSUME NEW k \in K \ {q} PROVE F(B)[k] = F(C)[k]
    <3>1. G(B, k) = G(C, k)
      BY <2>6
    <3> QED BY <3>1
  <2>7. \A k \in K : F(B)[k] \in Nat /\ F(C)[k] \in Nat
    BY <1>a, <2>1
  <2>8. f[p] \in Nat
    BY <2>2
  <2> DEFINE b == F(B)
             c == F(C)
  <2> HIDE DEF F, q, C, p, b, c
  <2>9. SumFunctionOnSet(b, K \ {q}) = SumFunctionOnSet(c, K \ {q})
    BY <2>1, <2>6, SumEqual DEF b, c
  <2>10. SumFunctionOnSet(b, K) = b[q] + SumFunctionOnSet(b, K \ {q})
    BY <2>4, <2>7, SumPick DEF b
  <2>11. SumFunctionOnSet(c, K) = c[q] + SumFunctionOnSet(c, K \ {q})
    BY <2>4, <2>7, SumPick DEF c
  <2>12. SumFunctionOnSet(c, K \ {q}) \in Nat
    BY <2>1, <2>7, SumType DEF c
  <2>13. b[q] = f[p] + c[q] /\ c[q] \in Nat
    BY <2>4, <2>5, <2>7 DEF b, c
  <2>14. SumFunctionOnSet(f, B) = f[p] + SumFunctionOnSet(c, K)
    BY <2>2, <2>3 DEF c
  <2>15. SumFunctionOnSet(f, B) = SumFunctionOnSet(b, K)
    BY <2>8, <2>9, <2>10, <2>11, <2>12, <2>13, <2>14
  <2> QED BY <2>15 DEF b
<1>3. \A B \in SUBSET A : (\A x \in B : B \ {x} \in P) => B \in P
  BY <1>1, <1>2
<1> HIDE DEF P
<1>4. A \in P
  BY <1>1, <1>3, FiniteSteps
<1> QED BY <1>4 DEF P

(* A set has as many elements as its groups together. *)
LEMMA SumOnes ==
  ASSUME NEW A, IsFiniteSet(A), NEW f, \A x \in A : f[x] = 1
  PROVE  SumFunctionOnSet(f, A) = Cardinality(A)
<1> DEFINE P == {B \in SUBSET A : SumFunctionOnSet(f, B) = Cardinality(B)}
<1>1. {} \in P
  BY SumEmpty, FS_EmptySet
<1>2. ASSUME NEW B \in SUBSET A, B # {}, \A x \in B : B \ {x} \in P PROVE B \in P
  <2>1. IsFiniteSet(B)
    BY FS_Subset
  <2>2. Pick(B) \in B /\ SumFunctionOnSet(f, B) = f[Pick(B)] + SumFunctionOnSet(f, B \ {Pick(B)})
    BY <1>2, <2>1, SumStep
  <2>3. SumFunctionOnSet(f, B \ {Pick(B)}) = Cardinality(B \ {Pick(B)})
    BY <1>2, <2>2
  <2>4. Cardinality(B) \in Nat /\ Cardinality(B \ {Pick(B)}) = Cardinality(B) - 1
    BY <2>1, <2>2, SmallLess
  <2> QED BY <2>2, <2>3, <2>4
<1>3. \A B \in SUBSET A : (\A x \in B : B \ {x} \in P) => B \in P
  BY <1>1, <1>2
<1> HIDE DEF P
<1>4. A \in P
  BY <1>1, <1>3, FiniteSteps
<1> QED BY <1>4 DEF P

LEMMA CountGroups ==
  ASSUME NEW A, IsFiniteSet(A), NEW K, IsFiniteSet(K), NEW h, \A x \in A : h[x] \in K
  PROVE  Cardinality(A) = SumFunctionOnSet([k \in K |-> Cardinality({x \in A : h[x] = k})], K)
<1> DEFINE f == [x \in A |-> 1]
           g == [k \in K |-> SumFunctionOnSet(f, {x \in A : h[x] = k})]
           c == [k \in K |-> Cardinality({x \in A : h[x] = k})]
<1>1. Cardinality(A) = SumFunctionOnSet(f, A)
  BY SumOnes
<1>2. SumFunctionOnSet(f, A) = SumFunctionOnSet(g, K)
  BY SumGroups
<1>3. ASSUME NEW k \in K PROVE g[k] = c[k]
  <2> DEFINE B == {x \in A : h[x] = k}
  <2>1. IsFiniteSet(B) /\ \A x \in B : f[x] = 1
    BY FS_Subset
  <2> HIDE DEF f, B
  <2>2. SumFunctionOnSet(f, B) = Cardinality(B)
    BY <2>1, SumOnes
  <2> QED BY <2>2 DEF B
<1> HIDE DEF f, g, c
<1>4. SumFunctionOnSet(g, K) = SumFunctionOnSet(c, K)
  BY <1>3, SumEqual
<1> QED BY <1>1, <1>2, <1>4 DEF c

(* Numbers of at most 1 sum up to no more than there are of them. *)
LEMMA SumAtMost ==
  ASSUME NEW A, IsFiniteSet(A), NEW f, \A x \in A : f[x] \in {0, 1}
  PROVE  SumFunctionOnSet(f, A) \in 0..Cardinality(A)
<1> DEFINE g == [x \in A |-> 1]
<1>1. \A x \in A : f[x] \in Nat /\ g[x] \in Nat /\ f[x] <= g[x] /\ g[x] = 1
  OBVIOUS
<1> HIDE DEF g
<1>2. SumFunctionOnSet(g, A) = Cardinality(A) /\ SumFunctionOnSet(f, A) <= SumFunctionOnSet(g, A)
  BY <1>1, SumOnes, SumLess
<1>3. SumFunctionOnSet(f, A) \in Nat /\ Cardinality(A) \in Nat
  BY <1>1, SumType, FS_CardinalityType
<1> QED BY <1>2, <1>3

(* A part sums up to no more than the whole. *)
LEMMA SumPart ==
  ASSUME NEW f, NEW A, IsFiniteSet(A), \A x \in A : f[x] \in Nat, NEW B \in SUBSET A
  PROVE  SumFunctionOnSet(f, B) \in Nat /\ SumFunctionOnSet(f, B) <= SumFunctionOnSet(f, A)
<1> DEFINE g == [x \in A |-> IF x \in B THEN f[x] ELSE 0]
<1>1. \A x \in A : g[x] \in Nat /\ f[x] \in Nat /\ g[x] <= f[x]
  OBVIOUS
<1>2. (\A x \in B : g[x] = f[x]) /\ \A x \in A \ B : g[x] = 0
  OBVIOUS
<1>3. IsFiniteSet(B)
  BY FS_Subset
<1> HIDE DEF g
<1>4. SumFunctionOnSet(g, A) <= SumFunctionOnSet(f, A)
  BY <1>1, SumLess
<1>5. SumFunctionOnSet(g, A) = SumFunctionOnSet(g, B)
  BY <1>1, <1>2, SumZeros
<1>6. SumFunctionOnSet(g, B) = SumFunctionOnSet(f, B)
  BY <1>2, <1>3, SumEqual
<1> QED BY <1>3, <1>4, <1>5, <1>6, SumType

(* A sum is that of a part and of the rest. *)
LEMMA SumSplit ==
  ASSUME NEW f, NEW A, IsFiniteSet(A), \A x \in A : f[x] \in Nat, NEW B \in SUBSET A
  PROVE  SumFunctionOnSet(f, A) = SumFunctionOnSet(f, B) + SumFunctionOnSet(f, A \ B)
<1> DEFINE K == {0, 1}
           h == [x \in A |-> IF x \in B THEN 0 ELSE 1]
           t == [k \in K |-> SumFunctionOnSet(f, {x \in A : h[x] = k})]
<1>1. IsFiniteSet(K) /\ K \ {0} = {1} /\ IsFiniteSet({1}) /\ {1} \ {1} = {}
  <2>1. IsFiniteSet({0}) /\ IsFiniteSet({1}) /\ K = {0} \cup {1}
    BY FS_Singleton
  <2>2. IsFiniteSet({0} \cup {1})
    BY <2>1, FS_Union
  <2>3. K \ {0} = {1} /\ {1} \ {1} = {}
    OBVIOUS
  <2> QED BY <2>1, <2>2, <2>3
<1>2. SumFunctionOnSet(f, A) = SumFunctionOnSet(t, K)
  <2>1. \A x \in A : h[x] \in K
    OBVIOUS
  <2> HIDE DEF K, h
  <2> QED BY <1>1, <2>1, SumGroups
<1>3. {x \in A : h[x] = 0} = B /\ {x \in A : h[x] = 1} = A \ B
  OBVIOUS
<1>4. t[0] = SumFunctionOnSet(f, B) /\ t[1] = SumFunctionOnSet(f, A \ B)
  BY <1>3
<1>5. t[0] \in Nat /\ t[1] \in Nat
  <2>1. IsFiniteSet(B) /\ IsFiniteSet(A \ B)
    BY FS_Subset
  <2> QED BY <1>4, <2>1, SumType
<1> HIDE DEF t, h
<1>6. SumFunctionOnSet(t, K) = t[0] + SumFunctionOnSet(t, K \ {0})
  BY <1>1, <1>5, SumPick
<1> DEFINE O == {1}
<1>7. IsFiniteSet(O) /\ 1 \in O /\ (\A k \in O : t[k] \in Nat) /\ O \ {1} = {}
  BY <1>1, <1>5
<1> HIDE DEF O
<1>8. SumFunctionOnSet(t, O) = t[1] + SumFunctionOnSet(t, O \ {1})
  BY <1>7, SumPick
<1>9. SumFunctionOnSet(t, O) = t[1]
  BY <1>5, <1>7, <1>8, SumEmpty
<1> QED BY <1>1, <1>2, <1>4, <1>6, <1>9 DEF O

(* A sum does not depend on the names of its terms. *)
LEMMA SumRename ==
  ASSUME NEW f, NEW A, IsFiniteSet(A), \A x \in A : f[x] \in Nat,
         NEW K, IsFiniteSet(K), NEW g, NEW h, \A x \in A : h[x] \in K /\ g[h[x]] = f[x],
         \A k \in K : \E x \in A : h[x] = k, \A x, y \in A : h[x] = h[y] => x = y
  PROVE  SumFunctionOnSet(f, A) = SumFunctionOnSet(g, K)
<1> DEFINE t == [k \in K |-> SumFunctionOnSet(f, {x \in A : h[x] = k})]
<1>1. SumFunctionOnSet(f, A) = SumFunctionOnSet(t, K)
  BY SumGroups
<1>2. ASSUME NEW k \in K PROVE t[k] = g[k]
  <2>1. PICK x \in A : h[x] = k
    OBVIOUS
  <2>2. {y \in A : h[y] = k} = {x}
    BY <2>1
  <2>3. IsFiniteSet({x}) /\ {x} \ {x} = {}
    BY FS_Singleton
  <2>4. SumFunctionOnSet(f, {x}) = f[x] + SumFunctionOnSet(f, {})
    <3> DEFINE X == {x}
    <3>1. IsFiniteSet(X) /\ x \in X /\ (\A y \in X : f[y] \in Nat) /\ X \ {x} = {}
      BY <2>3
    <3> HIDE DEF X
    <3>2. SumFunctionOnSet(f, X) = f[x] + SumFunctionOnSet(f, X \ {x})
      BY <3>1, SumPick
    <3> QED BY <3>1, <3>2 DEF X
  <2>5. SumFunctionOnSet(f, {x}) = f[x]
    BY <2>3, <2>4, SumEmpty
  <2> QED BY <2>1, <2>2, <2>5
<1> HIDE DEF t
<1>3. SumFunctionOnSet(t, K) = SumFunctionOnSet(g, K)
  BY <1>2, SumEqual
<1> QED BY <1>1, <1>3

(* Sets that name each other's elements have as many of them. *)
LEMMA CountRename ==
  ASSUME NEW A, IsFiniteSet(A), NEW K, NEW h, \A x \in A : h[x] \in K,
         \A k \in K : \E x \in A : h[x] = k, \A x, y \in A : h[x] = h[y] => x = y
  PROVE  IsFiniteSet(K) /\ Cardinality(A) = Cardinality(K)
<1> DEFINE g == [x \in A |-> h[x]]
<1>1. g \in Bijection(A, K)
  BY DEF Bijection, Injection, Surjection, IsInjective
<1> HIDE DEF g
<1>2. ExistsBijection(A, K)
  BY <1>1 DEF ExistsBijection
<1> QED BY <1>2, FS_Bijection

(* The elements of a group; sums and counts group by group, under any      *)
(* name of the numbers of the groups.                                      *)
Among(A, h, k) == {x \in A : h[x] = k}

LEMMA SumByGroup ==
  ASSUME NEW f, NEW A, IsFiniteSet(A), \A x \in A : f[x] \in Nat,
         NEW K, IsFiniteSet(K), NEW h, \A x \in A : h[x] \in K,
         NEW g, \A k \in K : g[k] = SumFunctionOnSet(f, Among(A, h, k))
  PROVE  SumFunctionOnSet(f, A) = SumFunctionOnSet(g, K)
<1> DEFINE t == [k \in K |-> SumFunctionOnSet(f, {x \in A : h[x] = k})]
<1>1. SumFunctionOnSet(f, A) = SumFunctionOnSet(t, K)
  BY SumGroups
<1>2. \A k \in K : t[k] = g[k]
  BY DEF Among
<1> HIDE DEF t
<1>3. SumFunctionOnSet(t, K) = SumFunctionOnSet(g, K)
  BY <1>2, SumEqual
<1> QED BY <1>1, <1>3

LEMMA CountByGroup ==
  ASSUME NEW A, IsFiniteSet(A), NEW K, IsFiniteSet(K), NEW h, \A x \in A : h[x] \in K,
         NEW g, \A k \in K : g[k] = Cardinality(Among(A, h, k))
  PROVE  Cardinality(A) = SumFunctionOnSet(g, K)
<1> DEFINE t == [k \in K |-> Cardinality({x \in A : h[x] = k})]
<1>1. Cardinality(A) = SumFunctionOnSet(t, K)
  BY CountGroups
<1>2. \A k \in K : t[k] = g[k]
  BY DEF Among
<1> HIDE DEF t
<1>3. SumFunctionOnSet(t, K) = SumFunctionOnSet(g, K)
  BY <1>2, SumEqual
<1> QED BY <1>1, <1>3

(* A sum named row by row. *)
LEMMA SumOver == ASSUME NEW f, NEW K, DOMAIN f = K PROVE SumFunction(f) = SumFunctionOnSet(f, K)
BY DEF SumFunction

=============================================================================

----------------------------- MODULE ScoringProofs -----------------------------
(***************************************************************************)
(* Proofs about Scoring.  The first section is about sums over a finite    *)
(* set, which the community modules define by a recursive function on its  *)
(* subsets; each fact is shown on a smallest subset it could fail for.     *)
(***************************************************************************)
EXTENDS Scoring, FiniteSetTheorems, WellFoundedInduction, TLAPS

-----------------------------------------------------------------------------
(* Sums                                                                    *)

Choice(s) == CHOOSE x \in s : TRUE
SumsBy(f, g, s) == IF s = {} THEN 0 ELSE f[Choice(s)] + g[s \ {Choice(s)}]
IsSum(f, g, S) == \A s \in SUBSET S : g[s] = SumsBy(f, g, s)

(* Of a collection of subsets of a finite set one holds no other.          *)
LEMMA SmallestSubset ==
  ASSUME NEW S, IsFiniteSet(S), NEW B \in SUBSET SUBSET S, B # {}
  PROVE  \E s \in B : \A t \in B : t \subseteq s => t = s
PROOF
<1>1. IsWellFoundedOn(StrictSubsetOrdering(S), SUBSET S)
  BY FS_StrictSubsetOrderingWellFounded, FS_FiniteSubsetsOfFinite
<1>2. PICK s \in B : \A t \in B : ~ (<<t, s>> \in StrictSubsetOrdering(S))
  BY <1>1, WFMin
<1>3. ASSUME NEW t \in B, t \subseteq s, t # s PROVE FALSE
  BY <1>2, <1>3 DEF StrictSubsetOrdering
<1> QED BY <1>2, <1>3

(* Of a set of natural numbers one is the least.                           *)
LEMMA LeastNatural ==
  ASSUME NEW A \in SUBSET Nat, A # {}
  PROVE  \E n \in A : \A m \in A : n <= m
PROOF
<1>1. PICK n \in A : \A m \in A : ~ (<<m, n>> \in OpToRel(<, Nat))
  BY NatLessThanWellFounded, WFMin
<1>2. ASSUME NEW m \in A, m < n PROVE FALSE
  BY <1>1, <1>2 DEF OpToRel
<1> QED BY <1>2

(* A set of natural numbers with 0 and all successors has them all.        *)
LEMMA AllNaturals ==
  ASSUME NEW A \in SUBSET Nat, 0 \in A, \A n \in A : n + 1 \in A
  PROVE  A = Nat
PROOF
<1> SUFFICES ASSUME Nat \ A # {} PROVE FALSE
  OBVIOUS
<1>1. PICK n \in Nat \ A : \A m \in Nat \ A : n <= m
  BY LeastNatural
<1>2. n - 1 \in Nat /\ (n - 1) + 1 = n
  BY <1>1
<1>3. n - 1 \in A
  BY <1>1, <1>2
<1> QED BY <1>1, <1>2, <1>3

(* The recursion of a sum has a solution.                                  *)
LEMMA SumDefined ==
  ASSUME NEW f, NEW S, IsFiniteSet(S)
  PROVE  \E g : g = [s \in SUBSET S |-> SumsBy(f, g, s)]
PROOF
<1> DEFINE Small(n) == {s \in SUBSET S : Cardinality(s) <= n}
           Solved == {n \in Nat : \E g : g = [s \in Small(n) |-> SumsBy(f, g, s)]}
<1>1. \A s \in SUBSET S : IsFiniteSet(s) /\ Cardinality(s) \in Nat
  BY FS_Subset, FS_CardinalityType
<1>2. ASSUME NEW n \in Solved, NEW m \in Nat, m = n + 1
      PROVE  m \in Solved
  <2>1. PICK g : g = [s \in Small(n) |-> SumsBy(f, g, s)]
    BY <1>2
  <2> DEFINE h == [s \in Small(m) |-> SumsBy(f, g, s)]
  <2>2. \A s \in Small(n) : s \in Small(m) /\ h[s] = g[s]
    <3> SUFFICES ASSUME NEW s \in Small(n) PROVE s \in Small(m) /\ h[s] = g[s]
      OBVIOUS
    <3>1. s \in Small(m)
      BY <1>1, <1>2
    <3>2. g[s] = SumsBy(f, g, s)
      BY <2>1
    <3> QED BY <3>1, <3>2
  <2>3. \A s \in Small(m) : SumsBy(f, g, s) = SumsBy(f, h, s)
    <3> SUFFICES ASSUME NEW s \in Small(m), s # {}
                 PROVE  g[s \ {Choice(s)}] = h[s \ {Choice(s)}]
      BY DEF SumsBy
    <3>1. Choice(s) \in s
      BY DEF Choice
    <3>2. Cardinality(s \ {Choice(s)}) = Cardinality(s) - 1
      BY <1>1, <3>1, FS_RemoveElement
    <3>3. s \ {Choice(s)} \in Small(n)
      BY <1>1, <1>2, <3>2
    <3> QED BY <2>2, <3>3
  <2>4. h = [s \in Small(m) |-> SumsBy(f, h, s)]
    BY <2>3
  <2> QED BY <2>4
<1>3. 0 \in Solved
  <2> DEFINE h == [s \in Small(0) |-> 0]
  <2>1. \A s \in Small(0) : s = {}
    BY <1>1, FS_EmptySet
  <2>2. h = [s \in Small(0) |-> SumsBy(f, h, s)]
    BY <2>1 DEF SumsBy
  <2> QED BY <2>2
<1>4. Solved = Nat
  <2>1. Solved \in SUBSET Nat
    OBVIOUS
  <2> HIDE DEF Solved
  <2>2. \A n \in Solved : n + 1 \in Solved
    BY <1>2, <2>1
  <2> QED BY <1>3, <2>1, <2>2, AllNaturals
<1>5. Small(Cardinality(S)) = SUBSET S
  BY FS_Subset
<1>6. Cardinality(S) \in Nat
  BY FS_CardinalityType
<1>7. Cardinality(S) \in Solved
  BY <1>4, <1>6
<1> HIDE DEF Small
<1> QED BY <1>5, <1>7

(* And only one: on the subsets of a subset, the same one.                 *)
LEMMA SumUnique ==
  ASSUME NEW f, NEW S, IsFiniteSet(S), NEW T \in SUBSET S,
         NEW g, IsSum(f, g, S), NEW h, IsSum(f, h, T)
  PROVE  \A s \in SUBSET T : g[s] = h[s]
PROOF
<1> DEFINE Wrong == {s \in SUBSET T : g[s] # h[s]}
<1> SUFFICES ASSUME Wrong # {} PROVE FALSE
  OBVIOUS
<1>1. IsFiniteSet(T)
  BY FS_Subset
<1>2. PICK s \in Wrong : \A t \in Wrong : t \subseteq s => t = s
  <2>1. Wrong \in SUBSET SUBSET T
    OBVIOUS
  <2> HIDE DEF Wrong
  <2> QED BY <1>1, <2>1, SmallestSubset
<1>3. g[s] = SumsBy(f, g, s) /\ h[s] = SumsBy(f, h, s)
  BY DEF IsSum
<1>4. s # {} /\ g[s \ {Choice(s)}] # h[s \ {Choice(s)}]
  BY <1>2, <1>3 DEF SumsBy
<1>5. Choice(s) \in s
  BY <1>4 DEF Choice
<1>6. s \ {Choice(s)} \in Wrong /\ s \ {Choice(s)} # s
  BY <1>2, <1>4, <1>5
<1> QED BY <1>2, <1>6

(* The sum of nothing is 0, and any other is one of its terms and the sum  *)
(* of the rest.                                                            *)
LEMMA SumUnfolded ==
  ASSUME NEW f, NEW S, IsFiniteSet(S)
  PROVE  SumFunctionOnSet(f, S) =
           IF S = {} THEN 0
           ELSE f[Choice(S)] + SumFunctionOnSet(f, S \ {Choice(S)})
PROOF
<1> DEFINE Sums(T) == CHOOSE g : g = [s \in SUBSET T |-> SumsBy(f, g, s)]
           R == S \ {Choice(S)}
<1>1. \A T : SumFunctionOnSet(f, T) = Sums(T)[T]
  BY DEF SumFunctionOnSet, FoldFunctionOnSet, MapThenFoldSet, SumsBy, Choice
<1>2. IsFiniteSet(R)
  BY FS_Subset
<1>3. IsSum(f, Sums(S), S)
  <2>1. \E g : g = [s \in SUBSET S |-> SumsBy(f, g, s)]
    BY SumDefined
  <2>2. Sums(S) = [s \in SUBSET S |-> SumsBy(f, Sums(S), s)]
    BY <2>1
  <2> HIDE DEF Sums
  <2> QED BY <2>2 DEF IsSum
<1>4. IsSum(f, Sums(R), R)
  <2>1. \E g : g = [s \in SUBSET R |-> SumsBy(f, g, s)]
    BY <1>2, SumDefined
  <2>2. Sums(R) = [s \in SUBSET R |-> SumsBy(f, Sums(R), s)]
    BY <2>1
  <2> HIDE DEF Sums
  <2> QED BY <2>2 DEF IsSum
<1> HIDE DEF Sums
<1>5. Sums(S)[R] = Sums(R)[R]
  <2>1. R \in SUBSET S /\ R \in SUBSET R
    OBVIOUS
  <2> HIDE DEF R
  <2> QED BY <1>3, <1>4, <2>1, SumUnique
<1>6. Sums(S)[S] = SumsBy(f, Sums(S), S)
  BY <1>3 DEF IsSum
<1> QED BY <1>1, <1>5, <1>6 DEF SumsBy

(* A sum is any of its terms and the sum of the rest.                      *)
LEMMA SumPick ==
  ASSUME NEW f, NEW S, IsFiniteSet(S), \A y \in S : f[y] \in Int
  PROVE  /\ SumFunctionOnSet(f, S) \in Int
         /\ \A x \in S : SumFunctionOnSet(f, S) = f[x] + SumFunctionOnSet(f, S \ {x})
PROOF
<1> DEFINE Sum(s) == SumFunctionOnSet(f, s)
           Wrong == {s \in SUBSET S : ~ /\ Sum(s) \in Int
                                        /\ \A x \in s : Sum(s) = f[x] + Sum(s \ {x})}
<1>1. \A s \in SUBSET S : IsFiniteSet(s)
  BY FS_Subset
<1>2. \A s \in SUBSET S :
        Sum(s) = IF s = {} THEN 0 ELSE f[Choice(s)] + Sum(s \ {Choice(s)})
  BY <1>1, SumUnfolded
<1> HIDE DEF Sum
<1> SUFFICES ASSUME Wrong # {} PROVE FALSE
  <2> S \in SUBSET S
    OBVIOUS
  <2> QED BY DEF Sum
<1>3. PICK s \in Wrong : \A t \in Wrong : t \subseteq s => t = s
  <2>1. Wrong \in SUBSET SUBSET S
    OBVIOUS
  <2> HIDE DEF Wrong
  <2> QED BY <2>1, SmallestSubset
<1> DEFINE c == Choice(s)
<1>4. \A t \in SUBSET s : t # s =>
        Sum(t) \in Int /\ \A x \in t : Sum(t) = f[x] + Sum(t \ {x})
  BY <1>3
<1>5. s # {}
  <2>1. Sum({}) = 0
    BY <1>2
  <2>2. ASSUME s = {} PROVE s \notin Wrong
    BY <2>1, <2>2
  <2> QED BY <2>2
<1>6. c \in s
  BY <1>5 DEF Choice
<1>7. Sum(s) = f[c] + Sum(s \ {c}) /\ Sum(s \ {c}) \in Int /\ f[c] \in Int
  BY <1>2, <1>4, <1>5, <1>6
<1>8. Sum(s) \in Int
  BY <1>7
<1>9. ASSUME NEW x \in s PROVE Sum(s) = f[x] + Sum(s \ {x})
  <2>1. CASE x = c
    BY <1>7, <2>1
  <2>2. CASE x # c
    <3> DEFINE r == s \ {c, x}
    <3>1. /\ s \ {c} \in SUBSET s /\ s \ {c} # s /\ x \in s \ {c}
          /\ s \ {x} \in SUBSET s /\ s \ {x} # s /\ c \in s \ {x}
          /\ r \in SUBSET s /\ r # s
          /\ (s \ {c}) \ {x} = r /\ (s \ {x}) \ {c} = r
      BY <1>6, <2>2
    <3>2. Sum(s \ {c}) = f[x] + Sum(r)
      BY <1>4, <3>1
    <3>3. Sum(s \ {x}) = f[c] + Sum(r)
      BY <1>4, <3>1
    <3>4. f[x] \in Int /\ Sum(r) \in Int
      BY <1>4, <3>1
    <3> HIDE DEF r, c
    <3> QED BY <1>7, <3>2, <3>3, <3>4
  <2> QED BY <2>1, <2>2
<1> QED BY <1>3, <1>8, <1>9

(* Where each term is bounded by a multiple of a weight, so is the sum.    *)
LEMMA SumBounds ==
  ASSUME NEW S, IsFiniteSet(S), NEW lo \in Int, NEW hi \in Int, NEW m, NEW w,
         \A x \in S : /\ m[x] \in Int /\ w[x] \in Int
                      /\ lo * w[x] <= m[x] /\ m[x] <= hi * w[x]
  PROVE  /\ lo * SumFunctionOnSet(w, S) <= SumFunctionOnSet(m, S)
         /\ SumFunctionOnSet(m, S) <= hi * SumFunctionOnSet(w, S)
PROOF
<1> DEFINE M(s) == SumFunctionOnSet(m, s)
           W(s) == SumFunctionOnSet(w, s)
           Wrong == {s \in SUBSET S : ~ (lo * W(s) <= M(s) /\ M(s) <= hi * W(s))}
<1>1. \A s \in SUBSET S : /\ M(s) \in Int /\ \A x \in s : M(s) = m[x] + M(s \ {x})
                          /\ W(s) \in Int /\ \A x \in s : W(s) = w[x] + W(s \ {x})
  BY FS_Subset, SumPick
<1>2. M({}) = 0 /\ W({}) = 0
  BY FS_EmptySet, SumUnfolded
<1> HIDE DEF M, W
<1> SUFFICES ASSUME Wrong # {} PROVE FALSE
  <2> S \in SUBSET S
    OBVIOUS
  <2> QED BY DEF M, W
<1>3. PICK s \in Wrong : \A t \in Wrong : t \subseteq s => t = s
  <2>1. Wrong \in SUBSET SUBSET S
    OBVIOUS
  <2> HIDE DEF Wrong
  <2> QED BY <2>1, SmallestSubset
<1>4. PICK x \in s : TRUE
  <2>1. s # {}
    <3>1. ASSUME s = {} PROVE s \notin Wrong
      BY <1>2, <3>1
    <3> QED BY <3>1
  <2> QED BY <2>1
<1> DEFINE r == s \ {x}
<1>5. r \in SUBSET S /\ r \subseteq s /\ r # s
  BY <1>3, <1>4
<1>6. lo * W(r) <= M(r) /\ M(r) <= hi * W(r)
  BY <1>3, <1>5
<1>7. M(s) = m[x] + M(r) /\ W(s) = w[x] + W(r)
  BY <1>1, <1>3, <1>4
<1>8. /\ m[x] \in Int /\ w[x] \in Int /\ M(r) \in Int /\ W(r) \in Int
      /\ lo * w[x] <= m[x] /\ m[x] <= hi * w[x]
  BY <1>1, <1>3, <1>4, <1>5
<1> HIDE DEF r
<1>9. lo * W(s) <= M(s) /\ M(s) <= hi * W(s)
  BY <1>6, <1>7, <1>8
<1> QED BY <1>3, <1>9

(* A sum over more, of terms no smaller and none of them negative where    *)
(* the other has none, is no smaller.                                      *)
LEMMA SumMonotone ==
  ASSUME NEW S, IsFiniteSet(S), NEW D \in SUBSET S, NEW f, NEW g,
         \A x \in D : f[x] \in Int /\ f[x] <= g[x],
         \A x \in S : g[x] \in Int,
         \A x \in S \ D : 0 <= g[x]
  PROVE  SumFunctionOnSet(f, D) <= SumFunctionOnSet(g, S)
PROOF
<1> DEFINE F(s) == SumFunctionOnSet(f, s)
           G(s) == SumFunctionOnSet(g, s)
           Wrong == {s \in SUBSET S : ~ (F(s \cap D) <= G(s))}
<1>1. \A s \in SUBSET S : G(s) \in Int /\ \A x \in s : G(s) = g[x] + G(s \ {x})
  BY FS_Subset, SumPick
<1>2. \A s \in SUBSET D : F(s) \in Int /\ \A x \in s : F(s) = f[x] + F(s \ {x})
  <2> SUFFICES ASSUME NEW s \in SUBSET D
               PROVE  F(s) \in Int /\ \A x \in s : F(s) = f[x] + F(s \ {x})
    OBVIOUS
  <2>1. IsFiniteSet(s)
    BY FS_Subset
  <2> QED BY <2>1, SumPick
<1>3. F({}) = 0 /\ G({}) = 0
  BY FS_EmptySet, SumUnfolded
<1> HIDE DEF F, G
<1> SUFFICES ASSUME Wrong # {} PROVE FALSE
  <2> S \in SUBSET S /\ S \cap D = D
    OBVIOUS
  <2> QED BY DEF F, G
<1>4. PICK s \in Wrong : \A t \in Wrong : t \subseteq s => t = s
  <2>1. Wrong \in SUBSET SUBSET S
    OBVIOUS
  <2> HIDE DEF Wrong
  <2> QED BY <2>1, SmallestSubset
<1>5. PICK x \in s : TRUE
  <2>1. {} \cap D = {}
    OBVIOUS
  <2>2. s # {}
    <3>1. ASSUME s = {} PROVE s \notin Wrong
      BY <1>3, <2>1, <3>1
    <3> QED BY <3>1
  <2> QED BY <2>2
<1> DEFINE r == s \ {x}
<1>6. r \in SUBSET S /\ r \subseteq s /\ r # s
  BY <1>4, <1>5
<1>7. F(r \cap D) <= G(r)
  BY <1>4, <1>6
<1>8. /\ G(s) = g[x] + G(r) /\ G(r) \in Int /\ g[x] \in Int
      /\ F(r \cap D) \in Int /\ F(s \cap D) \in Int
  BY <1>1, <1>2, <1>4, <1>5, <1>6
<1>9. CASE x \in D
  <2>1. (s \cap D) \ {x} = r \cap D
    OBVIOUS
  <2>2. F(s \cap D) = f[x] + F(r \cap D)
    BY <1>2, <1>5, <1>9, <2>1
  <2>3. f[x] \in Int /\ f[x] <= g[x]
    BY <1>9
  <2> HIDE DEF r
  <2> QED BY <1>4, <1>7, <1>8, <2>2, <2>3
<1>10. CASE x \notin D
  <2>1. s \cap D = r \cap D
    BY <1>10
  <2>2. 0 <= g[x]
    BY <1>4, <1>10
  <2> HIDE DEF r
  <2>3. F(s \cap D) <= G(s)
    BY <1>7, <1>8, <2>1, <2>2
  <2> QED BY <1>4, <2>3
<1> QED BY <1>9, <1>10

(* A sum over a set is the sum over a part of it and that over the rest.   *)
LEMMA SumSplit ==
  ASSUME NEW f, NEW S, IsFiniteSet(S), \A x \in S : f[x] \in Int, NEW D \in SUBSET S
  PROVE  SumFunctionOnSet(f, S) = SumFunctionOnSet(f, D) + SumFunctionOnSet(f, S \ D)
PROOF
<1> DEFINE F(s) == SumFunctionOnSet(f, s)
           Wrong == {s \in SUBSET S : F(s) # F(s \cap D) + F(s \ D)}
<1>1. \A s \in SUBSET S : F(s) \in Int /\ \A x \in s : F(s) = f[x] + F(s \ {x})
  BY FS_Subset, SumPick
<1>2. F({}) = 0
  BY FS_EmptySet, SumUnfolded
<1> HIDE DEF F
<1> SUFFICES ASSUME Wrong # {} PROVE FALSE
  <2> S \in SUBSET S /\ S \cap D = D
    OBVIOUS
  <2> QED BY DEF F
<1>3. PICK s \in Wrong : \A t \in Wrong : t \subseteq s => t = s
  <2>1. Wrong \in SUBSET SUBSET S
    OBVIOUS
  <2> HIDE DEF Wrong
  <2> QED BY <2>1, SmallestSubset
<1>4. PICK x \in s : TRUE
  <2>1. {} \cap D = {} /\ {} \ D = {}
    OBVIOUS
  <2>2. s # {}
    <3>1. ASSUME s = {} PROVE s \notin Wrong
      BY <1>2, <2>1, <3>1
    <3> QED BY <3>1
  <2> QED BY <2>2
<1> DEFINE r == s \ {x}
<1>5. r \in SUBSET S /\ r \subseteq s /\ r # s
  BY <1>3, <1>4
<1>6. F(r) = F(r \cap D) + F(r \ D)
  BY <1>3, <1>5
<1>7. /\ F(s) = f[x] + F(r) /\ f[x] \in Int
      /\ F(r \cap D) \in Int /\ F(r \ D) \in Int
  BY <1>1, <1>3, <1>4, <1>5
<1>8. CASE x \in D
  <2>1. /\ s \cap D \in SUBSET S /\ x \in s \cap D /\ (s \cap D) \ {x} = r \cap D
        /\ s \ D = r \ D
    BY <1>3, <1>4, <1>8
  <2>2. F(s \cap D) = f[x] + F(r \cap D)
    BY <1>1, <2>1
  <2>3. F(s \ D) = F(r \ D)
    BY <2>1
  <2>4. F(s) = F(s \cap D) + F(s \ D)
    <3> HIDE DEF r
    <3> QED BY <1>6, <1>7, <2>2, <2>3
  <2> QED BY <1>3, <2>4
<1>9. CASE x \notin D
  <2>1. /\ s \ D \in SUBSET S /\ x \in s \ D /\ (s \ D) \ {x} = r \ D
        /\ s \cap D = r \cap D
    BY <1>3, <1>4, <1>9
  <2>2. F(s \ D) = f[x] + F(r \ D)
    BY <1>1, <2>1
  <2>3. F(s \cap D) = F(r \cap D)
    BY <2>1
  <2>4. F(s) = F(s \cap D) + F(s \ D)
    <3> HIDE DEF r
    <3> QED BY <1>6, <1>7, <2>2, <2>3
  <2> QED BY <1>3, <2>4
<1> QED BY <1>8, <1>9

-----------------------------------------------------------------------------
(* Means                                                                   *)

(* The product with a natural number keeps the order.                      *)
LEMMA TimesMonotone ==
  ASSUME NEW a \in Int, NEW b \in Int, a <= b, NEW w \in Nat
  PROVE  a * w <= b * w
PROOF
<1>1. (b - a) * w >= 0
  OBVIOUS
<1>2. (b - a) * w = b * w - a * w
  OBVIOUS
<1> QED BY <1>1, <1>2

(* The whole part of a quotient.                                           *)
LEMMA Division ==
  ASSUME NEW n \in Int, NEW d \in Nat \ {0}
  PROVE  /\ n \div d \in Int
         /\ d * (n \div d) <= n /\ n < d * (n \div d) + d
PROOF OBVIOUS

(* Rounding a quotient stays within whole bounds of it ...                 *)
LEMMA QuantizeWithin ==
  ASSUME NEW n \in Int, NEW d \in Nat \ {0}, NEW lo \in Int, NEW hi \in Int,
         lo * d <= n, n <= hi * d
  PROVE  Quantize(n, d) \in Int /\ lo <= Quantize(n, d) /\ Quantize(n, d) <= hi
PROOF
<1> DEFINE q == (2 * n + d) \div (2 * d)
<1>1. q \in Int /\ 2 * d * q <= 2 * n + d /\ 2 * n + d < 2 * d * q + 2 * d
  <2>1. 2 * n + d \in Int /\ 2 * d \in Nat \ {0}
    OBVIOUS
  <2> QED BY <2>1, Division, Zenon
<1> HIDE DEF q
<1>2. lo <= q
  <2> SUFFICES ASSUME q + 1 <= lo PROVE FALSE
    BY <1>1
  <2>1. (q + 1) * d <= lo * d
    BY <1>1, TimesMonotone
  <2>2. (q + 1) * d = d * q + d /\ 2 * d * q = 2 * (d * q) /\ d * q \in Int /\ lo * d \in Int
    BY <1>1
  <2> QED BY <1>1, <2>1, <2>2
<1>3. q <= hi
  <2> SUFFICES ASSUME hi + 1 <= q PROVE FALSE
    BY <1>1
  <2>1. (hi + 1) * d <= q * d
    BY <1>1, TimesMonotone
  <2>2. (hi + 1) * d = hi * d + d /\ 2 * d * q = 2 * (q * d) /\ q * d \in Int /\ hi * d \in Int
    BY <1>1
  <2> QED BY <1>1, <2>1, <2>2
<1> QED BY <1>1, <1>2, <1>3 DEF Quantize, q

(* ... and keeps the order of the dividends.                               *)
LEMMA QuantizeMonotone ==
  ASSUME NEW n \in Int, NEW m \in Int, n <= m, NEW d \in Nat \ {0}
  PROVE  Quantize(n, d) <= Quantize(m, d)
PROOF
<1> DEFINE q == (2 * n + d) \div (2 * d)
           r == (2 * m + d) \div (2 * d)
<1>1. /\ q \in Int /\ 2 * d * q <= 2 * n + d /\ 2 * n + d < 2 * d * q + 2 * d
      /\ r \in Int /\ 2 * d * r <= 2 * m + d /\ 2 * m + d < 2 * d * r + 2 * d
  <2>1. 2 * n + d \in Int /\ 2 * m + d \in Int /\ 2 * d \in Nat \ {0}
    OBVIOUS
  <2> QED BY <2>1, Division, Zenon
<1> HIDE DEF q, r
<1>2. q <= r
  <2> SUFFICES ASSUME r + 1 <= q PROVE FALSE
    BY <1>1
  <2>1. (r + 1) * d <= q * d
    BY <1>1, TimesMonotone
  <2>2. /\ (r + 1) * d = r * d + d /\ 2 * d * q = 2 * (q * d) /\ 2 * d * r = 2 * (r * d)
        /\ q * d \in Int /\ r * d \in Int
    BY <1>1
  <2> QED BY <1>1, <2>1, <2>2
<1> QED BY <1>2 DEF Quantize, q, r

(* Weights that are not negative add up to no negative weight, and to none *)
(* only where each is none.                                                *)
LEMMA WeightAddsUp ==
  ASSUME NEW S, IsFiniteSet(S), NEW w, \A x \in S : w[x] \in Nat
  PROVE  /\ WeightOf(w, S) \in Nat
         /\ WeightOf(w, S) = 0 <=> \A x \in S : w[x] = 0
PROOF
<1>1. \A T \in SUBSET S : SumFunctionOnSet(w, T) \in Nat
  <2> SUFFICES ASSUME NEW T \in SUBSET S PROVE SumFunctionOnSet(w, T) \in Nat
    OBVIOUS
  <2>1. IsFiniteSet(T)
    BY FS_Subset
  <2>2. \A x \in T : /\ w[x] \in Int /\ w[x] \in Int
                     /\ 0 * w[x] <= w[x] /\ w[x] <= 1 * w[x]
    OBVIOUS
  <2>3. SumFunctionOnSet(w, T) \in Int
    BY <2>1, SumPick
  <2>4. 0 * SumFunctionOnSet(w, T) <= SumFunctionOnSet(w, T)
    BY <2>1, <2>2, 0 \in Int, 1 \in Int, SumBounds, Zenon
  <2> QED BY <2>3, <2>4
<1>2. \A x \in S : SumFunctionOnSet(w, S) = w[x] + SumFunctionOnSet(w, S \ {x})
  BY SumPick
<1>3. \A x \in S : SumFunctionOnSet(w, S \ {x}) \in Nat
  BY <1>1
<1>4. S = {} => SumFunctionOnSet(w, S) = 0
  BY SumUnfolded
<1>5. (\A x \in S : w[x] = 0) => SumFunctionOnSet(w, S) = 0
  <2> SUFFICES ASSUME \A x \in S : w[x] = 0
               PROVE  SumFunctionOnSet(w, S) = 0
    OBVIOUS
  <2>1. \A x \in S : /\ w[x] \in Int /\ w[x] \in Int
                     /\ 0 * w[x] <= w[x] /\ w[x] <= 0 * w[x]
    OBVIOUS
  <2>2. SumFunctionOnSet(w, S) <= 0 * SumFunctionOnSet(w, S)
    BY <2>1, 0 \in Int, SumBounds, Zenon
  <2>3. SumFunctionOnSet(w, S) \in Nat
    BY <1>1
  <2> QED BY <2>2, <2>3
<1>6. SumFunctionOnSet(w, S) \in Nat
  <2> S \in SUBSET S
    OBVIOUS
  <2> QED BY <1>1
<1>7. ASSUME NEW x \in S, SumFunctionOnSet(w, S) = 0
      PROVE  w[x] = 0
  <2>1. SumFunctionOnSet(w, S) = w[x] + SumFunctionOnSet(w, S \ {x})
    BY <1>2
  <2>2. SumFunctionOnSet(w, S \ {x}) \in Nat /\ w[x] \in Nat
    BY <1>3
  <2> QED BY <1>7, <2>1, <2>2
<1> QED BY <1>5, <1>6, <1>7 DEF WeightOf

(* A weighted mean lies between any bounds of the values that weigh        *)
(* something.                                                              *)
LEMMA MeanWithin ==
  ASSUME NEW m, IsFiniteSet(DOMAIN m), NEW w,
         \A x \in DOMAIN m : m[x] \in Int /\ w[x] \in Nat,
         WeightOf(w, DOMAIN m) # 0, NEW lo \in Int, NEW hi \in Int,
         \A x \in DOMAIN m : w[x] # 0 => lo <= m[x] /\ m[x] <= hi
  PROVE  Mean(m, w) \in Int /\ lo <= Mean(m, w) /\ Mean(m, w) <= hi
PROOF
<1> DEFINE S == DOMAIN m
           t == [x \in S |-> m[x] * w[x]]
<1>1. \A x \in S : /\ t[x] \in Int /\ w[x] \in Int
                   /\ lo * w[x] <= t[x] /\ t[x] <= hi * w[x]
  <2> SUFFICES ASSUME NEW x \in S
               PROVE  /\ t[x] \in Int /\ w[x] \in Int
                      /\ lo * w[x] <= t[x] /\ t[x] <= hi * w[x]
    OBVIOUS
  <2>1. t[x] = m[x] * w[x] /\ m[x] \in Int /\ w[x] \in Nat
    OBVIOUS
  <2>2. CASE w[x] = 0
    <3>1. lo * 0 = 0 /\ hi * 0 = 0 /\ m[x] * 0 = 0
      BY <2>1
    <3> QED BY <2>1, <2>2, <3>1
  <2>3. CASE w[x] # 0
    <3>1. lo <= m[x] /\ m[x] <= hi
      BY <2>3
    <3>2. lo * w[x] <= m[x] * w[x] /\ m[x] * w[x] <= hi * w[x]
      BY <2>1, <3>1, TimesMonotone
    <3> QED BY <2>1, <3>2
  <2> QED BY <2>2, <2>3
<1>2. WeightOf(w, S) \in Nat \ {0}
  BY WeightAddsUp
<1>3. Weighed(m, w) = SumFunctionOnSet(t, S) /\ WeightOf(w, S) = SumFunctionOnSet(w, S)
  BY DEF Weighed, WeightOf, SumFunction
<1> HIDE DEF t
<1>4. SumFunctionOnSet(t, S) \in Int
  BY <1>1, SumPick
<1>5. /\ lo * SumFunctionOnSet(w, S) <= SumFunctionOnSet(t, S)
      /\ SumFunctionOnSet(t, S) <= hi * SumFunctionOnSet(w, S)
  BY <1>1, SumBounds
<1> QED BY <1>2, <1>3, <1>4, <1>5, QuantizeWithin DEF Mean

(* Rounding keeps the order of two quotients.                              *)
LEMMA QuantizeOrder ==
  ASSUME NEW n \in Int, NEW d \in Nat \ {0}, NEW m \in Int, NEW e \in Nat \ {0},
         n * e <= m * d
  PROVE  Quantize(n, d) <= Quantize(m, e)
PROOF
<1> DEFINE q == (2 * n + d) \div (2 * d)
           r == (2 * m + e) \div (2 * e)
<1>1. /\ q \in Int /\ 2 * d * q <= 2 * n + d
      /\ r \in Int /\ 2 * m + e < 2 * e * r + 2 * e
  <2>1. /\ 2 * n + d \in Int /\ 2 * d \in Nat \ {0}
        /\ 2 * m + e \in Int /\ 2 * e \in Nat \ {0}
    OBVIOUS
  <2> QED BY <2>1, Division, Zenon
<1> HIDE DEF q, r
<1>2. q <= r
  <2> SUFFICES ASSUME r + 1 <= q PROVE FALSE
    BY <1>1
  <2> DEFINE de == d * e  a == n * e  b == m * d  c == de * r
  <2>1. de \in Nat \ {0} /\ a \in Int /\ b \in Int /\ c \in Int /\ a <= b
    BY <1>1
  <2>2. (r + 1) * de <= q * de
    BY <1>1, <2>1, TimesMonotone
  <2>3. (2 * d * q) * e <= (2 * n + d) * e
    <3>1. 2 * d * q \in Int /\ 2 * n + d \in Int /\ e \in Nat
      BY <1>1
    <3> QED BY <1>1, <3>1, TimesMonotone
  <2>4. (2 * d * q) * e = 2 * (q * de) /\ (2 * n + d) * e = 2 * a + de
    BY <1>1
  <2>5. (2 * m + e + 1) * d <= (2 * e * r + 2 * e) * d
    <3>1. /\ 2 * m + e + 1 \in Int /\ 2 * e * r + 2 * e \in Int /\ d \in Nat
          /\ 2 * m + e + 1 <= 2 * e * r + 2 * e
      BY <1>1
    <3> QED BY <3>1, TimesMonotone
  <2>6. /\ (2 * m + e + 1) * d = 2 * b + de + d
        /\ (2 * e * r + 2 * e) * d = 2 * c + 2 * de
        /\ (r + 1) * de = c + de /\ q * de \in Int
    BY <1>1
  <2> HIDE DEF de, a, b, c
  <2> QED BY <2>1, <2>2, <2>3, <2>4, <2>5, <2>6
<1> QED BY <1>2 DEF Quantize, q, r

(* Quotients of sums, of which one lost v at lo, gained n at hi, and has   *)
(* more in what both have, where it is not below lo nor the other above hi.*)
LEMMA QuotientsOrder ==
  ASSUME NEW lo \in Nat, NEW hi \in Nat, lo <= hi,
         NEW a \in Int, NEW b \in Int, a <= b,
         NEW c \in Nat, NEW v \in Nat, NEW n \in Nat,
         a <= hi * c, lo * c <= b
  PROVE  (a + lo * v) * (c + n) <= (b + hi * n) * (c + v)
PROOF
<1>1. a * c <= b * c /\ a * n <= (hi * c) * n /\ (lo * c) * v <= b * v
  <2>1. hi * c \in Int /\ lo * c \in Int
    OBVIOUS
  <2> QED BY <2>1, TimesMonotone
<1>2. lo * (v * n) <= hi * (v * n)
  <2>1. v * n \in Nat
    OBVIOUS
  <2> QED BY <2>1, TimesMonotone
<1> DEFINE l == lo * v  h == hi * n
<1>3. l \in Int /\ h \in Int
  OBVIOUS
<1>4. /\ (a + l) * (c + n) = a * c + a * n + l * c + l * n
      /\ (b + h) * (c + v) = b * c + b * v + h * c + h * v
  <2> HIDE DEF l, h
  <2> QED BY <1>3
<1>5. /\ l * c = (lo * c) * v /\ l * n = lo * (v * n)
      /\ h * c = (hi * c) * n /\ h * v = hi * (v * n)
  OBVIOUS
<1>6. /\ a * c \in Int /\ a * n \in Int /\ l * c \in Int /\ l * n \in Int
      /\ b * c \in Int /\ b * v \in Int /\ h * c \in Int /\ h * v \in Int
  BY <1>3
<1> DEFINE ac == a * c  an == a * n  lc == l * c  ln == l * n
           bc == b * c  bv == b * v  hc == h * c  hv == h * v
<1>7. ac <= bc /\ an <= hc /\ lc <= bv /\ ln <= hv
  BY <1>1, <1>2, <1>5, Zenon
<1>8. ac + an + lc + ln <= bc + bv + hc + hv
  <2> HIDE DEF ac, an, lc, ln, bc, bv, hc, hv
  <2>1. /\ ac \in Int /\ an \in Int /\ lc \in Int /\ ln \in Int
        /\ bc \in Int /\ bv \in Int /\ hc \in Int /\ hv \in Int
    BY <1>6 DEF ac, an, lc, ln, bc, bv, hc, hv
  <2> QED BY <1>7, <2>1
<1> QED BY <1>4, <1>8, Zenon

(* A mean does not fall when its terms rise, terms leave that no other is  *)
(* below on average, and terms join that none was above.                   *)
LEMMA MeanOrder ==
  ASSUME NEW f, NEW g, NEW w, IsFiniteSet(DOMAIN f), IsFiniteSet(DOMAIN g),
         \A x \in DOMAIN f \cup DOMAIN g : w[x] \in Nat,
         WeightOf(w, DOMAIN f) # 0, WeightOf(w, DOMAIN g) # 0,
         NEW lo \in Nat, NEW hi \in Nat, lo <= hi,
         \A x \in DOMAIN f : f[x] \in Nat /\ f[x] <= hi,
         \A x \in DOMAIN g : g[x] \in Nat,
         \A x \in DOMAIN f \cap DOMAIN g : f[x] <= g[x],
         \A x \in DOMAIN f \ DOMAIN g : f[x] = lo,
         \A x \in DOMAIN g \ DOMAIN f : g[x] = hi,
         lo * WeightOf(w, DOMAIN f \cap DOMAIN g)
           <= SumFunctionOnSet([x \in DOMAIN g |-> g[x] * w[x]], DOMAIN f \cap DOMAIN g)
  PROVE  Mean(f, w) <= Mean(g, w)
PROOF
<1> DEFINE A == DOMAIN f  B == DOMAIN g  C == A \cap B
           V == A \ C  N == B \ C
           F == [x \in A |-> f[x] * w[x]]  G == [x \in B |-> g[x] * w[x]]
           W(s) == SumFunctionOnSet(w, s)
<1>1. /\ IsFiniteSet(C) /\ IsFiniteSet(V) /\ IsFiniteSet(N)
      /\ C \in SUBSET A /\ C \in SUBSET B /\ V \in SUBSET A /\ N \in SUBSET B
      /\ V = A \ B /\ N = B \ A
  BY FS_Subset
<1>2. \A x \in A \cup B : w[x] \in Nat /\ w[x] \in Int
  OBVIOUS
<1>3. /\ \A x \in A : F[x] = f[x] * w[x] /\ F[x] \in Int
      /\ \A x \in B : G[x] = g[x] * w[x] /\ G[x] \in Int
  <2>1. \A x \in A : f[x] * w[x] \in Int
    BY <1>2
  <2>2. \A x \in B : g[x] * w[x] \in Int
    BY <1>2
  <2> QED BY <2>1, <2>2
<1>4. /\ Mean(f, w) = Quantize(SumFunctionOnSet(F, A), W(A))
      /\ Mean(g, w) = Quantize(SumFunctionOnSet(G, B), W(B))
  BY DEF Mean, Weighed, WeightOf, SumFunction
<1>5. lo * W(C) <= SumFunctionOnSet(G, C)
  BY DEF WeightOf
<1>6. /\ W(A) \in Nat \ {0} /\ W(B) \in Nat \ {0}
      /\ W(C) \in Nat /\ W(V) \in Nat /\ W(N) \in Nat
  <2>1. \A S \in {A, B, C, V, N} : IsFiniteSet(S) /\ \A x \in S : w[x] \in Nat
    <3> HIDE DEF C, V, N
    <3> QED BY <1>1, <1>2
  <2>2. \A S \in {A, B, C, V, N} : WeightOf(w, S) \in Nat
    <3> HIDE DEF A, B, C, V, N
    <3> QED BY <2>1, WeightAddsUp
  <2> QED BY <2>2 DEF WeightOf
<1> DEFINE a == SumFunctionOnSet(F, C)  b == SumFunctionOnSet(G, C)
<1> HIDE DEF A, B, C, V, N, F, G
<1>7. /\ SumFunctionOnSet(F, A) = a + SumFunctionOnSet(F, V)
      /\ SumFunctionOnSet(G, B) = b + SumFunctionOnSet(G, N)
      /\ W(A) = W(C) + W(V) /\ W(B) = W(C) + W(N)
  <2>1. V = A \ C /\ N = B \ C /\ IsFiniteSet(A) /\ IsFiniteSet(B)
    BY DEF A, B, V, N
  <2>2. /\ SumFunctionOnSet(F, A) = a + SumFunctionOnSet(F, A \ C)
        /\ W(A) = W(C) + W(A \ C)
    BY <1>1, <1>2, <1>3, <2>1, SumSplit
  <2>3. /\ SumFunctionOnSet(G, B) = b + SumFunctionOnSet(G, B \ C)
        /\ W(B) = W(C) + W(B \ C)
    BY <1>1, <1>2, <1>3, <2>1, SumSplit
  <2> QED BY <2>1, <2>2, <2>3, Zenon
<1>8. SumFunctionOnSet(F, V) = lo * W(V)
  <2>1. \A x \in V : /\ F[x] \in Int /\ w[x] \in Int
                     /\ lo * w[x] <= F[x] /\ F[x] <= lo * w[x]
    <3> SUFFICES ASSUME NEW x \in V
                 PROVE  /\ F[x] \in Int /\ w[x] \in Int
                        /\ lo * w[x] <= F[x] /\ F[x] <= lo * w[x]
      OBVIOUS
    <3>1. x \in A /\ f[x] = lo
      BY <1>1 DEF A, B
    <3> QED BY <1>2, <1>3, <3>1
  <2>2. /\ lo * W(V) <= SumFunctionOnSet(F, V) /\ SumFunctionOnSet(F, V) <= lo * W(V)
        /\ SumFunctionOnSet(F, V) \in Int
    <3>1. lo \in Int
      OBVIOUS
    <3> QED BY <1>1, <2>1, <3>1, SumBounds, SumPick
  <2> HIDE DEF W
  <2> QED BY <1>6, <2>2
<1>9. SumFunctionOnSet(G, N) = hi * W(N)
  <2>1. \A x \in N : /\ G[x] \in Int /\ w[x] \in Int
                     /\ hi * w[x] <= G[x] /\ G[x] <= hi * w[x]
    <3> SUFFICES ASSUME NEW x \in N
                 PROVE  /\ G[x] \in Int /\ w[x] \in Int
                        /\ hi * w[x] <= G[x] /\ G[x] <= hi * w[x]
      OBVIOUS
    <3>1. x \in B /\ g[x] = hi
      BY <1>1 DEF A, B
    <3> QED BY <1>2, <1>3, <3>1
  <2>2. /\ hi * W(N) <= SumFunctionOnSet(G, N) /\ SumFunctionOnSet(G, N) <= hi * W(N)
        /\ SumFunctionOnSet(G, N) \in Int
    <3>1. hi \in Int
      OBVIOUS
    <3> QED BY <1>1, <2>1, <3>1, SumBounds, SumPick
  <2> HIDE DEF W
  <2> QED BY <1>6, <2>2
<1>10. a \in Int /\ b \in Int /\ a <= b /\ a <= hi * W(C)
  <2>1. \A x \in C : /\ F[x] \in Int /\ G[x] \in Int /\ w[x] \in Int /\ F[x] <= G[x]
                     /\ 0 * w[x] <= F[x] /\ F[x] <= hi * w[x]
    <3> SUFFICES ASSUME NEW x \in C
                 PROVE  /\ F[x] \in Int /\ G[x] \in Int /\ w[x] \in Int /\ F[x] <= G[x]
                        /\ 0 * w[x] <= F[x] /\ F[x] <= hi * w[x]
      OBVIOUS
    <3>1. /\ x \in A /\ x \in B /\ f[x] \in Nat /\ g[x] \in Nat
          /\ f[x] <= g[x] /\ f[x] <= hi /\ 0 <= f[x]
      BY <1>1 DEF A, B, C
    <3>2. /\ f[x] * w[x] <= g[x] * w[x] /\ f[x] * w[x] <= hi * w[x]
          /\ 0 * w[x] <= f[x] * w[x]
      BY <1>2, <3>1, TimesMonotone
    <3> QED BY <1>2, <1>3, <3>1, <3>2
  <2>2. a \in Int /\ b \in Int
    BY <1>1, <2>1, SumPick
  <2>3. a <= b
    <3>1. C \in SUBSET C /\ C \ C = {}
      OBVIOUS
    <3> QED BY <1>1, <2>1, <3>1, SumMonotone
  <2>4. a <= hi * W(C)
    <3>1. 0 \in Int /\ hi \in Int
      OBVIOUS
    <3> QED BY <1>1, <2>1, <3>1, SumBounds, Zenon
  <2> QED BY <2>2, <2>3, <2>4
<1> DEFINE c == W(C)  v == W(V)  n == W(N)
<1>11. (a + lo * v) * (c + n) <= (b + hi * n) * (c + v)
  <2> HIDE DEF a, b, W
  <2>1. c \in Nat /\ v \in Nat /\ n \in Nat /\ lo * c <= b /\ a <= hi * c
    BY <1>5, <1>6, <1>10 DEF b
  <2> HIDE DEF c, v, n
  <2> QED BY <1>10, <2>1, QuotientsOrder
<1>12. Quantize(a + lo * v, c + v) <= Quantize(b + hi * n, c + n)
  <2>1. c + v \in Nat \ {0} /\ c + n \in Nat \ {0} /\ v \in Nat /\ n \in Nat
    BY <1>6, <1>7
  <2> HIDE DEF a, b, c, v, n
  <2>2. a + lo * v \in Int /\ b + hi * n \in Int
    BY <1>10, <2>1
  <2> QED BY <1>11, <2>1, <2>2, QuantizeOrder
<1> QED BY <1>4, <1>7, <1>8, <1>9, <1>12, Zenon

-----------------------------------------------------------------------------
(* Analyzers                                                               *)

Result == [available : BOOLEAN, score : 0..Full, confidence : 0..Full]

(* What makes a result.                                                    *)
LEMMA Results ==
  /\ Full \in Nat /\ NoResult \in Result
  /\ \A s, c : s \in Nat /\ s <= Full /\ c \in Nat /\ c <= Full => Available(s, c) \in Result
  /\ ~ NoResult.available
  /\ \A s, c : Available(s, c).available /\ Available(s, c).score = s
PROOF
<1>1. Full \in Nat
  BY DEF Full
<1> QED BY <1>1 DEF Available, NoResult, Result

(* There are finitely many analyzers and categories.                       *)
LEMMA FiniteSuite == IsFiniteSet(Suite) /\ IsFiniteSet(Categories)
PROOF
<1>1. \A S, x : IsFiniteSet(S) => IsFiniteSet(S \cup {x})
  BY FS_AddElement
<1>2. IsFiniteSet({})
  BY FS_EmptySet
<1>3. IsFiniteSet(CheckAnalyzers)
  <2>1. IsFiniteSet((((((({} \cup {"lint_results"}) \cup {"complexity_delta"})
          \cup {"duplication_delta"}) \cup {"function_size_delta"})
          \cup {"security_scanner_findings"}) \cup {"ci_check_status"}))
    BY <1>1, <1>2, Zenon
  <2> QED BY <2>1 DEF CheckAnalyzers
<1>4. IsFiniteSet(FileAnalyzers)
  <2>1. IsFiniteSet(((({} \cup {"diff_size_concentration"}) \cup {"test_file_changes"})
          \cup {"documentation_changes"}) \cup {"dependency_changes"})
    BY <1>1, <1>2, Zenon
  <2> QED BY <2>1 DEF FileAnalyzers
<1>5. IsFiniteSet(Suite)
  BY <1>3, <1>4, ScoringAssumption, FS_Union DEF Suite
<1>6. IsFiniteSet(Categories)
  <2>1. IsFiniteSet(((((((({} \cup {"correctness"}) \cup {"tests"}) \cup {"maintainability"})
          \cup {"security"}) \cup {"documentation"}) \cup {"architecture"})
          \cup {"change_risk"}))
    BY <1>1, <1>2, Zenon
  <2> QED BY <2>1 DEF Categories
<1> QED BY <1>5, <1>6

(* Lines are counted in natural numbers.                                   *)
LEMMA LinesNat ==
  ASSUME NEW files \in SUBSET File, IsFiniteSet(files)
  PROVE  Added(files) \in Nat /\ Deleted(files) \in Nat
PROOF
<1>1. \A w : (\A f \in files : w[f] \in Nat) => SumFunctionOnSet(w, files) \in Nat
  BY WeightAddsUp DEF WeightOf
<1> DEFINE a == [f \in files |-> f.additions]
           d == [f \in files |-> f.deletions]
<1>2. /\ \A f \in files : a[f] \in Nat
      /\ \A f \in files : d[f] \in Nat
  BY DEF File
<1>3. DOMAIN a = files /\ DOMAIN d = files
  OBVIOUS
<1>4. Added(files) = SumFunctionOnSet(a, files) /\ Deleted(files) = SumFunctionOnSet(d, files)
  BY DEF Added, Deleted, SumFunction
<1> HIDE DEF a, d
<1> QED BY <1>1, <1>2, <1>4

(* Every analyzer gives a score of at most 100 points, and a confidence of *)
(* at most 1; the size of a diff gives at most 95 points, on every head.   *)
LEMMA DiffSizeTyped ==
  ASSUME NEW files
  PROVE  LET r == DiffSize(files) IN r \in Result /\ r.available /\ r.score <= 9500
PROOF
<1> DEFINE volume(total) == CASE total <= 50 -> 9500 [] total <= 200 -> 8500
                  [] total <= 500 -> 7000 [] total <= 1000 -> 5000
                  [] total <= 2500 -> 3000 [] OTHER -> 1500
           concentration(largest, total) == CASE 5 * largest > 4 * total -> 3000
                         [] 2 * largest > total -> 1500 [] OTHER -> 0
           breadth == IF Cardinality(files) > 50 THEN 1000 ELSE 0
<1>1. \A t : volume(t) \in Nat /\ volume(t) <= 9500
  OBVIOUS
<1>2. \A l, t : concentration(l, t) \in Nat
  OBVIOUS
<1>3. breadth \in Nat
  OBVIOUS
<1> DEFINE total == Added(files) + Deleted(files)
           largest == Max({0} \cup {f.additions + f.deletions : f \in files})
           score == Greater(0, volume(total) - concentration(largest, total) - breadth)
<1>4. DiffSize(files) = Available(score, 9800)
  BY DEF DiffSize
<1>5. /\ volume(total) \in Nat /\ volume(total) <= 9500
      /\ concentration(largest, total) \in Nat /\ breadth \in Nat
  <2> HIDE DEF volume, concentration, breadth, total, largest
  <2> QED BY <1>1, <1>2, <1>3
<1>6. score \in Nat /\ score <= 9500 /\ score <= Full /\ 9800 <= Full
  <2> HIDE DEF volume, concentration, breadth, total, largest
  <2> QED BY <1>5 DEF Greater, Full
<1> HIDE DEF score
<1> QED BY <1>4, <1>6, Results

(* The tests of a change are worth 20 to 95 points, of a change of code.   *)
LEMMA TestFileChangesTyped ==
  ASSUME NEW files \in SUBSET File, IsFiniteSet(files)
  PROVE  LET r == TestFileChanges(files)
         IN r \in Result /\ (r.available => 2000 <= r.score /\ r.score <= 9500)
PROOF
<1> DEFINE code == With(files, "code")
           tests == With(files, "test")
           c == Greater(1, Added(code \ tests))
           t == Greater(1, Added(tests))
           ratio == Lesser(35 * c * t, 50 * Added(tests) * t)
           deleted == Lesser(20 * c * t, 20 * Deleted(tests) * c)
           n == 100 * (55 * c * t + ratio - deleted)
<1>1. /\ tests \in SUBSET File /\ IsFiniteSet(tests)
      /\ code \ tests \in SUBSET File /\ IsFiniteSet(code \ tests)
  BY FS_Subset DEF With
<1>2. Added(tests) \in Nat /\ Deleted(tests) \in Nat /\ Added(code \ tests) \in Nat
  BY <1>1, LinesNat
<1>3. c \in Nat \ {0} /\ t \in Nat \ {0}
  BY <1>2 DEF Greater
<1> DEFINE Points(i, j, a, b) ==
             Quantize(100 * (55 * i * j + Lesser(35 * i * j, 50 * a * j)
                               - Lesser(20 * i * j, 20 * b * i)), i * j)
<1>4. ASSUME NEW i \in Nat \ {0}, NEW j \in Nat \ {0}, NEW a \in Nat, NEW b \in Nat
      PROVE  Points(i, j, a, b) \in Int /\ 3500 <= Points(i, j, a, b)
  <2> DEFINE d == i * j  r == 50 * a * j  e == 20 * b * i
             k == 100 * (55 * d + Lesser(35 * d, r) - Lesser(20 * d, e))
  <2> PICK lo \in Int, hi \in Int : lo = 3500 /\ hi = 9000
    OBVIOUS
  <2>1. d \in Nat \ {0} /\ r \in Nat /\ e \in Nat
    OBVIOUS
  <2>2. 55 * i * j = 55 * d /\ 35 * i * j = 35 * d /\ 20 * i * j = 20 * d
    OBVIOUS
  <2>3. k \in Int /\ lo * d <= k /\ k <= hi * d
    <3> HIDE DEF d, r, e
    <3> QED BY <2>1 DEF Lesser
  <2>4. Quantize(k, d) \in Int /\ lo <= Quantize(k, d)
    <3> HIDE DEF d, k, r, e
    <3> QED BY <2>1, <2>3, QuantizeWithin
  <2> QED BY <2>2, <2>4
<1> DEFINE q == Quantize(n, c * t)
<1>5. q \in Int /\ 3500 <= q
  <2>1. q = Points(c, t, Added(tests), Deleted(tests))
    OBVIOUS
  <2> HIDE DEF c, t, tests, q, Points
  <2> QED BY <1>2, <1>3, <1>4, <2>1
<1>6. \/ TestFileChanges(files) = NoResult
      \/ TestFileChanges(files) = Available(2000, 9000)
      \/ TestFileChanges(files) = Available(Lesser(9500, q), 9000)
  <2>1. TestFileChanges(files) =
          CASE code = {} -> NoResult [] tests = {} -> Available(2000, 9000)
            [] OTHER -> Available(Lesser(9500, q), 9000)
    BY DEF TestFileChanges
  <2> HIDE DEF q, code, tests
  <2> QED BY <2>1
<1> HIDE DEF q
<1>7. /\ Lesser(9500, q) \in Nat /\ Lesser(9500, q) <= Full /\ 9000 <= Full /\ 2000 <= Full
      /\ 2000 <= Lesser(9500, q) /\ Lesser(9500, q) <= 9500
  BY <1>5 DEF Lesser, Full
<1> QED BY <1>6, <1>7, Results

(* Documentation is worth 45 to 95 points, on every head.                  *)
LEMMA DocumentationChangesTyped ==
  ASSUME NEW files
  PROVE  LET r == DocumentationChanges(files)
         IN r \in Result /\ r.available /\ 4500 <= r.score /\ r.score <= 9500
PROOF
<1> DEFINE docs == With(files, "docs") # {}  code == With(files, "code") # {}
           score == CASE docs -> IF ~ code THEN 9500 ELSE 8500
                      [] code -> 4500 [] OTHER -> 7500
<1>1. DocumentationChanges(files) = Available(score, 8500)
  BY DEF DocumentationChanges
<1>2. /\ score \in Nat /\ score <= Full /\ 8500 <= Full
      /\ 4500 <= score /\ score <= 9500
  <2> HIDE DEF docs, code
  <2> QED BY DEF Full
<1> HIDE DEF score
<1> QED BY <1>1, <1>2, Results

(* Dependencies are worth 35 to 92 points, on every head.                  *)
LEMMA DependencyChangesTyped ==
  ASSUME NEW files \in SUBSET File, IsFiniteSet(files)
  PROVE  LET r == DependencyChanges(files)
         IN r \in Result /\ r.available /\ 3500 <= r.score /\ r.score <= 9500
PROOF
<1> DEFINE manifests == With(files, "manifest")
           all == manifests \cup With(files, "lock")
           some == Greater(3500, 7800 - 1200 * Cardinality(manifests)
                                      - Lesser(2000, 10 * Added(all)))
           score == IF all = {} THEN 9200 ELSE some
<1>1. DependencyChanges(files) = Available(score, 9000)
  BY DEF DependencyChanges
<1>2. /\ IsFiniteSet(manifests) /\ all \in SUBSET File /\ IsFiniteSet(all)
  BY FS_Subset DEF With
<1>3. Cardinality(manifests) \in Nat /\ Added(all) \in Nat
  BY <1>2, LinesNat, FS_CardinalityType
<1>4. /\ some \in Nat /\ some <= Full /\ 9200 <= Full /\ 9000 <= Full
      /\ 3500 <= some /\ some <= 9500
  <2> HIDE DEF manifests, all
  <2> QED BY <1>3 DEF Lesser, Greater, Full
<1>5. /\ score \in Nat /\ score <= Full
      /\ 3500 <= score /\ score <= 9500
  <2> HIDE DEF all, some
  <2> QED BY <1>4
<1> HIDE DEF score
<1> QED BY <1>1, <1>4, <1>5, Results

(* Checks give 20 to 95 points: the division cannot leave the range.       *)
LEMMA ScoreChecksTyped ==
  ASSUME NEW named \in SUBSET CheckRuns, NEW reports
  PROVE  ScoreChecks(named, reports) \in Result
PROOF
<1> DEFINE completed == Completed(named, reports)
           passed == {c \in completed : reports[c] = "passed"}
           p == Cardinality(passed)  n == Cardinality(completed)
           score == CheckScore(p, n)
<1>1. ScoreChecks(named, reports) =
        IF completed = {} THEN NoResult ELSE Available(score, 9500)
  BY DEF ScoreChecks
<1>2. /\ IsFiniteSet(completed) /\ passed \in SUBSET completed
      /\ completed # {} => n # 0
  BY ScoringAssumption, FS_Subset, FS_EmptySet DEF Completed
<1>3. p \in Nat /\ n \in Nat /\ p <= n
  <2> HIDE DEF completed, passed
  <2> QED BY <1>2, FS_Subset, FS_CardinalityType
<1>4. ASSUME n # 0 PROVE score \in Nat /\ score <= Full
  <2> HIDE DEF p, n
  <2> DEFINE m == 2000 * n + 7500 * p
  <2>1. PICK lo \in Int, hi \in Int : lo = 0 /\ hi = 9500
    OBVIOUS
  <2>2. lo * n <= m /\ m <= hi * n
    <3>1. lo * n = 0 /\ hi * n = 9500 * n
      BY <1>3, <2>1
    <3>2. 0 <= m /\ m <= 9500 * n
      BY <1>3
    <3> QED BY <3>1, <3>2
  <2>3. m \in Int /\ n \in Nat \ {0}
    BY <1>3, <1>4
  <2>4. score = Quantize(m, n)
    BY DEF CheckScore
  <2> HIDE DEF m, score
  <2>5. score \in Int /\ lo <= score /\ score <= hi
    BY <2>2, <2>3, <2>4, QuantizeWithin
  <2> QED BY <2>1, <2>5 DEF Full
<1>5. 9500 <= Full
  BY DEF Full
<1> HIDE DEF completed, score, n
<1> QED BY <1>1, <1>2, <1>4, <1>5, Results

(* An isolated tool passes, fails or has no result.                        *)
LEMMA IsolatedToolTyped == ASSUME NEW status PROVE IsolatedTool(status) \in Result
PROOF
<1>1. 10000 <= Full /\ 9000 <= Full /\ 3500 <= Full /\ 8500 <= Full
  BY DEF Full
<1> QED BY <1>1, Results DEF IsolatedTool

(* Every analyzer gives a result in range, on every snapshot.              *)
LEMMA AnalyseTyped ==
  ASSUME NEW a, NEW files \in SUBSET File, IsFiniteSet(files), NEW reports, NEW tools
  PROVE  Analyse(a, files, reports, tools) \in Result
PROOF
<1>1. Matching(a) \in SUBSET CheckRuns
  BY DEF Matching
<1> QED BY <1>1, DiffSizeTyped, TestFileChangesTyped, DocumentationChangesTyped,
           DependencyChangesTyped, ScoreChecksTyped, IsolatedToolTyped DEF Analyse

-----------------------------------------------------------------------------
(* Aggregation                                                             *)

(* The weights a policy gives are natural numbers, and those of analyzers  *)
(* positive ones; those of the categories add up to 100.                   *)
LEMMA PolicyWeights ==
  ASSUME NEW p \in ScoringPolicies, ValidPolicy(PolicyOf[p])
  PROVE  /\ \A c \in Categories : PolicyOf[p].weights[c] \in Nat
         /\ WeightOf(PolicyOf[p].weights, Categories) = 100
         /\ \A a \in Suite : AnalyzerWeights(PolicyOf[p])[a] \in Nat \ {0}
PROOF
<1>1. /\ PolicyOf[p].weights \in [Categories -> Int]
      /\ \A a \in DOMAIN PolicyOf[p].analyzers : PolicyOf[p].analyzers[a] \in Int
  BY ScoringAssumption
<1>2. /\ WeightOf(PolicyOf[p].weights, Categories) = 100
      /\ \A c \in Categories : PolicyOf[p].weights[c] >= 0
      /\ \A a \in DOMAIN PolicyOf[p].analyzers : PolicyOf[p].analyzers[a] > 0
  BY DEF ValidPolicy, ValidWeights, WeightsAddUp
<1>3. \A a \in Suite : AnalyzerWeights(PolicyOf[p])[a] \in Nat \ {0}
  BY <1>1, <1>2 DEF AnalyzerWeights
<1> QED BY <1>1, <1>2, <1>3

(* The mean of some analyzers' results is between any bounds of them.      *)
LEMMA AnalyzersMean ==
  ASSUME NEW p \in ScoringPolicies, ValidPolicy(PolicyOf[p]),
         NEW A \in SUBSET Suite, A # {}, NEW m \in [A -> Int],
         NEW lo \in Int, NEW hi \in Int, \A a \in A : lo <= m[a] /\ m[a] <= hi
  PROVE  LET mean == Mean(m, AnalyzerWeights(PolicyOf[p]))
         IN mean \in Int /\ lo <= mean /\ mean <= hi
PROOF
<1> DEFINE w == AnalyzerWeights(PolicyOf[p])
<1>1. IsFiniteSet(A) /\ DOMAIN m = A
  BY FiniteSuite, FS_Subset
<1>2. \A a \in A : m[a] \in Int /\ w[a] \in Nat \ {0}
  BY PolicyWeights
<1> HIDE DEF w
<1>3. WeightOf(w, A) # 0
  BY <1>1, <1>2, WeightAddsUp
<1>4. Mean(m, w) \in Int /\ lo <= Mean(m, w) /\ Mean(m, w) <= hi
  BY <1>1, <1>2, <1>3, MeanWithin
<1> QED BY <1>4 DEF w

(* The means of the categories, and their bounds.                          *)
LEMMA CategoryMeansWithin ==
  ASSUME NEW p \in ScoringPolicies, ValidPolicy(PolicyOf[p]),
         NEW results \in [Suite -> Result]
  PROVE  LET means == CategoryMeans(PolicyOf[p], results)
         IN /\ DOMAIN means \in SUBSET Categories /\ IsFiniteSet(DOMAIN means)
            /\ \A c \in DOMAIN means :
                 /\ means[c].score \in Int
                 /\ means[c].confidence \in Nat /\ means[c].confidence <= Full
                 /\ \A lo, hi \in Int :
                      (\A a \in Suite : results[a].available /\ CategoryOf(a) = c =>
                         lo <= results[a].score /\ results[a].score <= hi)
                      => lo <= means[c].score /\ means[c].score <= hi
PROOF
<1> DEFINE means == CategoryMeans(PolicyOf[p], results)
<1>1. DOMAIN means \in SUBSET Categories /\ IsFiniteSet(DOMAIN means)
  BY FiniteSuite, FS_Subset DEF CategoryMeans, ScoredCategories
<1>2. ASSUME NEW c \in DOMAIN means
      PROVE  /\ means[c].score \in Int
             /\ means[c].confidence \in Nat /\ means[c].confidence <= Full
             /\ \A lo, hi \in Int :
                  (\A a \in Suite : results[a].available /\ CategoryOf(a) = c =>
                     lo <= results[a].score /\ results[a].score <= hi)
                  => lo <= means[c].score /\ means[c].score <= hi
  <2> DEFINE A == AvailableIn(results, c)
             s == [a \in A |-> results[a].score]
             d == [a \in A |-> results[a].confidence]
             w == AnalyzerWeights(PolicyOf[p])
  <2>1. c \in Categories /\ A # {}
    BY DEF CategoryMeans, ScoredCategories
  <2>2. A \in SUBSET Suite /\ \A a \in A : CategoryOf(a) = c /\ results[a].available
    BY <2>1 DEF AvailableIn, AnalyzersOf
  <2>3. means[c].score = Mean(s, w) /\ means[c].confidence = Mean(d, w)
    BY DEF CategoryMeans
  <2>4. /\ \A a \in A : results[a] \in Result
        /\ Full \in Nat
    BY <2>2, Results
  <2>5. /\ s \in [A -> Int] /\ \A a \in A : 0 <= s[a] /\ s[a] <= Full /\ s[a] = results[a].score
        /\ d \in [A -> Int] /\ \A a \in A : 0 <= d[a] /\ d[a] <= Full
    BY <2>4 DEF Result
  <2> HIDE DEF A, s, d, w, means
  <2>6. \A m \in [A -> Int], lo, hi \in Int : (\A a \in A : lo <= m[a] /\ m[a] <= hi) =>
          Mean(m, w) \in Int /\ lo <= Mean(m, w) /\ Mean(m, w) <= hi
    BY <2>1, <2>2, AnalyzersMean DEF w
  <2>7. Mean(s, w) \in Int
    BY <2>4, <2>5, <2>6
  <2>8. Mean(d, w) \in Int /\ 0 <= Mean(d, w) /\ Mean(d, w) <= Full
    BY <2>4, <2>5, <2>6
  <2>9. ASSUME NEW lo \in Int, NEW hi \in Int,
               \A a \in Suite : results[a].available /\ CategoryOf(a) = c =>
                 lo <= results[a].score /\ results[a].score <= hi
        PROVE  lo <= means[c].score /\ means[c].score <= hi
    <3>1. \A a \in A : lo <= s[a] /\ s[a] <= hi
      BY <2>2, <2>5, <2>9
    <3> QED BY <2>3, <2>5, <2>6, <3>1
  <2> QED BY <2>3, <2>7, <2>8, <2>9
<1> QED BY <1>1, <1>2

(* What is available weighs a natural number, no more than 100.            *)
LEMMA AvailableWeightNat ==
  ASSUME NEW p \in ScoringPolicies, ValidPolicy(PolicyOf[p]),
         NEW D \in SUBSET Categories
  PROVE  /\ WeightOf(PolicyOf[p].weights, D) \in Nat
         /\ WeightOf(PolicyOf[p].weights, D) <= 100
PROOF
<1> DEFINE w == PolicyOf[p].weights
<1>1. IsFiniteSet(D) /\ IsFiniteSet(Categories)
  BY FiniteSuite, FS_Subset
<1>2. /\ \A c \in Categories : w[c] \in Nat
      /\ WeightOf(w, Categories) = 100
  BY PolicyWeights
<1> HIDE DEF w
<1>3. WeightOf(w, D) \in Nat
  BY <1>1, <1>2, WeightAddsUp
<1>4. SumFunctionOnSet(w, D) <= SumFunctionOnSet(w, Categories)
  BY <1>1, <1>2, SumMonotone
<1>5. WeightOf(w, D) <= 100
  BY <1>2, <1>4 DEF WeightOf
<1> QED BY <1>3, <1>5 DEF w

(* A final score lies between any bounds of the results that weigh         *)
(* something in it.                                                        *)
LEMMA FinalScoreWithin ==
  ASSUME NEW p \in ScoringPolicies, ValidPolicy(PolicyOf[p]),
         NEW results \in [Suite -> Result],
         AvailableWeight(PolicyOf[p], CategoryMeans(PolicyOf[p], results)) # 0,
         NEW lo \in Int, NEW hi \in Int,
         \A a \in Suite :
           results[a].available /\ PolicyOf[p].weights[CategoryOf(a)] # 0 =>
             lo <= results[a].score /\ results[a].score <= hi
  PROVE  LET score == FinalScore(PolicyOf[p], CategoryMeans(PolicyOf[p], results))
         IN score \in Int /\ lo <= score /\ score <= hi
PROOF
<1> DEFINE means == CategoryMeans(PolicyOf[p], results)
           w == PolicyOf[p].weights
           m == [c \in DOMAIN means |-> means[c].score]
<1>1. DOMAIN means \in SUBSET Categories /\ IsFiniteSet(DOMAIN means)
  BY CategoryMeansWithin
<1>2. \A c \in DOMAIN means : w[c] \in Nat
  BY <1>1, PolicyWeights
<1>3. ASSUME NEW c \in DOMAIN means
      PROVE  means[c].score \in Int
             /\ (w[c] # 0 => lo <= means[c].score /\ means[c].score <= hi)
  <2>1. w[c] # 0 => \A a \in Suite : results[a].available /\ CategoryOf(a) = c =>
                     lo <= results[a].score /\ results[a].score <= hi
    OBVIOUS
  <2> QED BY <2>1, CategoryMeansWithin
<1>4. DOMAIN m = DOMAIN means /\ \A c \in DOMAIN m : m[c] = means[c].score
  OBVIOUS
<1>5. /\ WeightOf(w, DOMAIN m) # 0
      /\ FinalScore(PolicyOf[p], means) = Mean(m, w)
  BY DEF AvailableWeight, FinalScore, WeighedScore, Mean
<1> HIDE DEF means, w, m
<1>6. Mean(m, w) \in Int /\ lo <= Mean(m, w) /\ Mean(m, w) <= hi
  BY <1>1, <1>2, <1>3, <1>4, <1>5, MeanWithin
<1> QED BY <1>5, <1>6 DEF means

(* The weighed confidence is that of each category that is available, and  *)
(* at most that of all.                                                    *)
LEMMA WeighedConfidenceNat ==
  ASSUME NEW p \in ScoringPolicies, ValidPolicy(PolicyOf[p]),
         NEW results \in [Suite -> Result]
  PROVE  LET n == WeighedConfidence(PolicyOf[p], CategoryMeans(PolicyOf[p], results))
         IN n \in Nat /\ n <= Full * 100
PROOF
<1> DEFINE means == CategoryMeans(PolicyOf[p], results)
           D == DOMAIN means
           w == PolicyOf[p].weights
           t == [c \in D |-> means[c].confidence * w[c]]
<1>1. D \in SUBSET Categories /\ IsFiniteSet(D)
  BY CategoryMeansWithin
<1>2. PICK lo \in Int, hi \in Int : lo = 0 /\ hi = Full
  BY Results
<1>3. ASSUME NEW c \in D
      PROVE  /\ t[c] \in Int /\ w[c] \in Int
             /\ lo * w[c] <= t[c] /\ t[c] <= hi * w[c]
  <2>1. w[c] \in Nat
    BY <1>1, PolicyWeights
  <2>2. means[c].confidence \in Nat /\ means[c].confidence <= Full
    BY CategoryMeansWithin
  <2>3. t[c] = means[c].confidence * w[c]
    OBVIOUS
  <2> HIDE DEF t, w, means
  <2>4. lo <= means[c].confidence /\ means[c].confidence <= hi
    BY <1>2, <2>2
  <2>5. lo * w[c] <= t[c] /\ t[c] <= hi * w[c]
    BY <2>1, <2>2, <2>3, <2>4, TimesMonotone
  <2> QED BY <2>1, <2>2, <2>3, <2>5
<1>4. WeighedConfidence(PolicyOf[p], means) = SumFunctionOnSet(t, D)
  BY DEF WeighedConfidence, Weighed, SumFunction
<1>5. WeightOf(w, D) \in Nat /\ WeightOf(w, D) <= 100
  BY <1>1, AvailableWeightNat
<1> HIDE DEF means, w, t, D
<1>6. /\ SumFunctionOnSet(t, D) \in Int
      /\ lo * WeightOf(w, D) <= SumFunctionOnSet(t, D)
      /\ SumFunctionOnSet(t, D) <= hi * WeightOf(w, D)
  BY <1>1, <1>3, SumPick, SumBounds DEF WeightOf
<1>7. lo * WeightOf(w, D) = 0 /\ hi * WeightOf(w, D) <= hi * 100
  <2>1. Full \in Nat
    BY Results
  <2>2. WeightOf(w, D) * Full <= 100 * Full
    BY <1>5, <2>1, TimesMonotone
  <2> QED BY <1>2, <1>5, <2>1, <2>2
<1>8. SumFunctionOnSet(t, D) \in Nat /\ SumFunctionOnSet(t, D) <= Full * 100
  <2>1. hi * WeightOf(w, D) \in Int /\ hi * 100 = Full * 100 /\ Full * 100 \in Int
    BY <1>2, <1>5
  <2> QED BY <1>6, <1>7, <2>1
<1> QED BY <1>4, <1>8 DEF means

(* A score is one row, if any: its points, a confidence, and a verdict.    *)
LEMMA AggregateTyped ==
  ASSUME NEW p \in ScoringPolicies, ValidPolicy(PolicyOf[p]),
         NEW results \in [Suite -> Result], NEW complete \in BOOLEAN
  PROVE  Aggregate(PolicyOf[p], results, complete) \subseteq ScoreRow
PROOF
<1> DEFINE policy == PolicyOf[p]
           means == CategoryMeans(policy, results)
           score == FinalScore(policy, means)
           confidence == Confidence(policy, means)
           authoritative == Authoritative(policy, results, means, complete)
<1> SUFFICES ASSUME AvailableWeight(policy, means) # 0
             PROVE  [score |-> score, confidence |-> confidence,
                     authoritative |-> authoritative] \in ScoreRow
  BY DEF Aggregate
<1>1. score \in Int /\ 0 <= score /\ score <= Full
  <2>1. PICK lo \in Int, hi \in Int : lo = 0 /\ hi = Full
    BY Results
  <2>2. \A a \in Suite : lo <= results[a].score /\ results[a].score <= hi
    BY <2>1, Results DEF Result
  <2>3. score \in Int /\ lo <= score /\ score <= hi
    BY <2>2, FinalScoreWithin
  <2> QED BY <2>1, <2>3
<1>2. confidence \in Int /\ 0 <= confidence /\ confidence <= Full
  <2> DEFINE n == WeighedConfidence(policy, means)
  <2>1. n \in Nat /\ n <= Full * 100
    BY WeighedConfidenceNat
  <2>2. PICK lo \in Int, hi \in Int, d \in Nat \ {0} : lo = 0 /\ hi = Full /\ d = 100
    BY Results
  <2> HIDE DEF n
  <2>3. lo * d <= n /\ n <= hi * d
    BY <2>1, <2>2
  <2>4. Quantize(n, d) \in Int /\ lo <= Quantize(n, d) /\ Quantize(n, d) <= hi
    BY <2>1, <2>3, QuantizeWithin
  <2>5. confidence = Quantize(n, d)
    BY <2>2 DEF Confidence, n
  <2> HIDE DEF confidence
  <2> QED BY <2>2, <2>4, <2>5
<1>3. authoritative \in BOOLEAN
  BY DEF Authoritative
<1>4. Full \in Nat
  BY Results
<1> HIDE DEF score, confidence, authoritative
<1> QED BY <1>1, <1>2, <1>3, <1>4 DEF ScoreRow

-----------------------------------------------------------------------------
(* Better check runs                                                       *)

(* One result does as well as another of the same analyzer: what leaves is *)
(* worth what a failed check is, and what joins what a passed one is.      *)
AsWell(old, new) ==
  /\ old.available /\ new.available => old.score <= new.score
  /\ old.available /\ ~ new.available => old.score = 2000
  /\ new.available /\ ~ old.available => new.score = 9500

(* Some checks of which p passed: 20 points if none did, 95 if all did.    *)
LEMMA CheckScoreValues ==
  ASSUME NEW n \in Nat \ {0}, NEW p \in Nat, p <= n
  PROVE  /\ CheckScore(p, n) \in Nat
         /\ 2000 <= CheckScore(p, n) /\ CheckScore(p, n) <= 9500
         /\ p = 0 => CheckScore(p, n) = 2000
         /\ p = n => CheckScore(p, n) = 9500
PROOF
<1> DEFINE m == 2000 * n + 7500 * p
<1>1. CheckScore(p, n) = Quantize(m, n) /\ m \in Int
  BY DEF CheckScore
<1>2. PICK lo \in Int, hi \in Int : lo = 2000 /\ hi = 9500
  OBVIOUS
<1>3. lo * n <= m /\ m <= hi * n
  <2>1. lo * n = 2000 * n /\ hi * n = 9500 * n
    BY <1>2
  <2> QED BY <2>1
<1>4. p = 0 => m <= lo * n
  BY <1>2
<1>5. p = n => hi * n <= m
  BY <1>2
<1> HIDE DEF m
<1>6. /\ Quantize(m, n) \in Int /\ lo <= Quantize(m, n) /\ Quantize(m, n) <= hi
  BY <1>1, <1>3, QuantizeWithin
<1>7. p = 0 => Quantize(m, n) <= lo
  BY <1>1, <1>3, <1>4, QuantizeWithin
<1>8. p = n => hi <= Quantize(m, n)
  BY <1>1, <1>3, <1>5, QuantizeWithin
<1> QED BY <1>1, <1>2, <1>6, <1>7, <1>8

(* More checks passed and fewer failed: no less of a score.                *)
LEMMA CheckScoreOrder ==
  ASSUME NEW p \in Nat, NEW e \in Nat, NEW q \in Nat, NEW d \in Nat,
         p <= q, d <= e, p + e # 0, q + d # 0
  PROVE  CheckScore(p, p + e) <= CheckScore(q, q + d)
PROOF
<1> DEFINE n == p + e  m == q + d
           a == 2000 * n + 7500 * p  b == 2000 * m + 7500 * q
<1>1. n \in Nat \ {0} /\ m \in Nat \ {0} /\ a \in Int /\ b \in Int
  OBVIOUS
<1>2. p * m <= q * n
  <2>1. p * d <= q * d /\ d * q <= e * q
    BY TimesMonotone
  <2>2. /\ p * m = p * q + p * d /\ q * n = p * q + e * q
        /\ d * q = q * d /\ p * q \in Int /\ p * d \in Int /\ q * d \in Int /\ e * q \in Int
    OBVIOUS
  <2> HIDE DEF n, m
  <2> QED BY <2>1, <2>2
<1>3. a * m <= b * n
  <2> DEFINE nm == n * m  pm == p * m  qn == q * n
  <2>1. nm \in Int /\ pm \in Int /\ qn \in Int /\ pm <= qn
    BY <1>1, <1>2
  <2>2. a * m = 2000 * nm + 7500 * pm /\ b * n = 2000 * nm + 7500 * qn
    <3> HIDE DEF n, m
    <3> QED BY <1>1
  <2> HIDE DEF nm, pm, qn
  <2> QED BY <2>1, <2>2
<1> HIDE DEF n, m, a, b
<1>4. Quantize(a, n) <= Quantize(b, m)
  BY <1>1, <1>3, QuantizeOrder
<1> QED BY <1>4 DEF CheckScore, n, m, a, b

(* Where all checks do as well or better, so does an analyzer of checks.   *)
LEMMA ChecksAsWell ==
  ASSUME NEW named \in SUBSET CheckRuns, NEW old \in Reports, NEW new \in Reports,
         \A c \in CheckRuns : AsGood(old[c], new[c])
  PROVE  /\ AsWell(ScoreChecks(named, old), ScoreChecks(named, new))
         /\ \A reports \in Reports :
              ScoreChecks(named, reports).available =>
                /\ 2000 <= ScoreChecks(named, reports).score
                /\ ScoreChecks(named, reports).score <= 9500
PROOF
<1> DEFINE Done(reports) == Completed(named, reports)
           Passed(reports) == {c \in Done(reports) : reports[c] = "passed"}
           Failed(reports) == Done(reports) \ Passed(reports)
           P(reports) == Cardinality(Passed(reports))
           F(reports) == Cardinality(Failed(reports))
<1>1. ASSUME NEW reports \in Reports
      PROVE  /\ IsFiniteSet(Passed(reports)) /\ IsFiniteSet(Failed(reports))
             /\ P(reports) \in Nat /\ F(reports) \in Nat
             /\ Cardinality(Done(reports)) = P(reports) + F(reports)
             /\ Done(reports) # {} => P(reports) + F(reports) # 0
  <2>1. /\ IsFiniteSet(Done(reports)) /\ Passed(reports) \in SUBSET Done(reports)
        /\ Done(reports) \cap Passed(reports) = Passed(reports)
    BY ScoringAssumption, FS_Subset DEF Completed
  <2> HIDE DEF Done, Passed
  <2>2. /\ IsFiniteSet(Passed(reports)) /\ IsFiniteSet(Failed(reports))
        /\ P(reports) \in Nat /\ F(reports) \in Nat
    BY <2>1, FS_Subset, FS_CardinalityType
  <2>3. Cardinality(Done(reports)) = P(reports) + F(reports)
    <3>1. /\ Done(reports) = Passed(reports) \cup Failed(reports)
          /\ Passed(reports) \cap Failed(reports) = {}
      BY <2>1
    <3>2. Cardinality(Passed(reports) \cup Failed(reports))
            = P(reports) + F(reports) - Cardinality(Passed(reports) \cap Failed(reports))
      BY <2>2, FS_Union
    <3>3. Cardinality(Passed(reports) \cap Failed(reports)) = 0
      BY <3>1, FS_EmptySet
    <3> HIDE DEF P, F, Failed
    <3> QED BY <2>2, <3>1, <3>2, <3>3
  <2>4. Done(reports) # {} => Cardinality(Done(reports)) # 0
    BY <2>1, FS_EmptySet
  <2> QED BY <2>2, <2>3, <2>4
<1>2. Passed(old) \in SUBSET Passed(new) /\ Failed(new) \in SUBSET Failed(old)
  BY DEF Completed, AsGood, Reports, CheckStatus
<1>3. \A reports \in Reports :
        ScoreChecks(named, reports) =
          IF Done(reports) = {} THEN NoResult
          ELSE Available(CheckScore(P(reports), Cardinality(Done(reports))), 9500)
  BY DEF ScoreChecks
<1> DEFINE Score(reports) == CheckScore(P(reports), P(reports) + F(reports))
<1>4. \A reports \in Reports :
        /\ ScoreChecks(named, reports).available <=> Done(reports) # {}
        /\ Done(reports) # {} => ScoreChecks(named, reports).score = Score(reports)
  <2> SUFFICES ASSUME NEW reports \in Reports
               PROVE  /\ ScoreChecks(named, reports).available <=> Done(reports) # {}
                      /\ Done(reports) # {} => ScoreChecks(named, reports).score = Score(reports)
    OBVIOUS
  <2>1. Cardinality(Done(reports)) = P(reports) + F(reports)
    BY <1>1
  <2> HIDE DEF Done, P, F
  <2> QED BY <1>3, <2>1 DEF Available, NoResult
<1>5. /\ P(old) <= P(new) /\ F(new) <= F(old)
      /\ Passed(old) # {} => Done(new) # {}
      /\ Failed(new) # {} => Done(old) # {}
  <2>1. P(old) <= P(new) /\ F(new) <= F(old)
    <3> HIDE DEF Passed, Failed
    <3> QED BY <1>1, <1>2, FS_Subset
  <2> QED BY <1>2, <2>1
<1>6. \A reports \in Reports :
        /\ Passed(reports) = {} => P(reports) = 0
        /\ Failed(reports) = {} => F(reports) = 0
  BY FS_EmptySet
<1> HIDE DEF Done, Passed, Failed, P, F
<1>7. \A reports \in Reports : Done(reports) # {} =>
        /\ 2000 <= Score(reports) /\ Score(reports) <= 9500
        /\ Passed(reports) = {} => Score(reports) = 2000
        /\ Failed(reports) = {} => Score(reports) = 9500
  <2> SUFFICES ASSUME NEW reports \in Reports, Done(reports) # {}
               PROVE  /\ 2000 <= Score(reports) /\ Score(reports) <= 9500
                      /\ Passed(reports) = {} => Score(reports) = 2000
                      /\ Failed(reports) = {} => Score(reports) = 9500
    OBVIOUS
  <2> DEFINE p == P(reports)  n == P(reports) + F(reports)
  <2>1. /\ p \in Nat /\ n \in Nat \ {0} /\ p <= n
        /\ Passed(reports) = {} => p = 0
        /\ Failed(reports) = {} => p = n
    BY <1>1, <1>6
  <2> HIDE DEF p, n
  <2>2. /\ 2000 <= CheckScore(p, n) /\ CheckScore(p, n) <= 9500
        /\ p = 0 => CheckScore(p, n) = 2000
        /\ p = n => CheckScore(p, n) = 9500
    BY <2>1, CheckScoreValues
  <2> QED BY <2>1, <2>2 DEF p, n
<1>8. Done(old) # {} /\ Done(new) # {} => Score(old) <= Score(new)
  BY <1>1, <1>5, CheckScoreOrder
<1> HIDE DEF Score
<1> QED BY <1>4, <1>5, <1>7, <1>8 DEF AsWell

(* What a result of the category is worth at least, if there is one.       *)
Floor(c) == CASE c = "change_risk" -> 0
              [] c \in {"documentation", "architecture"} -> 3500
              [] OTHER -> 2000

EveryHead == {"diff_size_concentration", "documentation_changes", "dependency_changes"}

(* Two results of an analyzer on one head, the second no worse.            *)
DoesAsWell(a, old, new) ==
  /\ AsWell(old, new)
  /\ old.available => old.score <= 9500
  /\ new.available => Floor(CategoryOf(a)) <= new.score
  /\ CategoryOf(a) = "change_risk" \/ a \in EveryHead => old.available = new.available
  /\ a \in EveryHead => new.available
ResultsAsWell(old, new) == \A a \in Suite : DoesAsWell(a, old[a], new[a])

(* Better check runs alone make no result worse.                           *)
LEMMA BetterChecks ==
  ASSUME NEW files \in SUBSET File, IsFiniteSet(files),
         NEW old \in Reports, NEW new \in Reports,
         \A c \in CheckRuns : AsGood(old[c], new[c]),
         NEW before, NEW after,
         \A t \in Tools : /\ IsolatedTool(before[t]) = IsolatedTool(after[t])
                          /\ IsolatedTool(after[t]).score # 10000
  PROVE  ResultsAsWell([a \in Suite |-> Analyse(a, files, old, before)],
                       [a \in Suite |-> Analyse(a, files, new, after)])
PROOF
<1> SUFFICES ASSUME NEW a \in Suite
             PROVE  DoesAsWell(a, Analyse(a, files, old, before), Analyse(a, files, new, after))
  BY DEF ResultsAsWell, DoesAsWell
<1> DEFINE r == Analyse(a, files, old, before)
           s == Analyse(a, files, new, after)
<1>1. a \in Tools => a \notin CheckAnalyzers /\ a \notin FileAnalyzers
  BY ToolsAssumption
<1>2. CASE a \in Tools
  <2>1. r = IsolatedTool(before[a]) /\ s = IsolatedTool(after[a]) /\ a \notin EveryHead
    BY <1>1, <1>2 DEF Analyse, EveryHead, FileAnalyzers
  <2>2. r = s /\ (s.available => s.score = 3500)
    BY <1>2, <2>1 DEF IsolatedTool, Available, NoResult
  <2>3. Floor(CategoryOf(a)) <= 3500
    BY DEF Floor
  <2>4. DoesAsWell(a, r, s)
    <3> HIDE DEF r, s
    <3> QED BY <1>1, <2>1, <2>2, <2>3 DEF AsWell, DoesAsWell
  <2> QED BY <2>4
<1>3. CASE a \in CheckAnalyzers
  <2>1. a \notin Tools /\ a \notin EveryHead /\ a \notin FileAnalyzers
    BY <1>1, <1>3 DEF CheckAnalyzers, FileAnalyzers, EveryHead
  <2>2. r = ScoreChecks(Matching(a), old) /\ s = ScoreChecks(Matching(a), new)
    <3>1. \A reports, tools : Analyse(a, files, reports, tools) = ScoreChecks(Matching(a), reports)
      BY <1>3, <2>1 DEF Analyse, FileAnalyzers
    <3> QED BY <3>1
  <2>3. CategoryOf(a) \in {"correctness", "security", "maintainability"}
    BY <1>3, <2>1 DEF CategoryOf, CheckAnalyzers
  <2>4. Floor(CategoryOf(a)) = 2000 /\ CategoryOf(a) # "change_risk"
    BY <2>3 DEF Floor
  <2>5. Matching(a) \in SUBSET CheckRuns
    BY DEF Matching
  <2>6. /\ AsWell(r, s)
        /\ r.available => r.score <= 9500
        /\ s.available => 2000 <= s.score
    BY <2>2, <2>5, ChecksAsWell
  <2>7. DoesAsWell(a, r, s)
    <3> HIDE DEF r, s
    <3> QED BY <2>1, <2>4, <2>6 DEF DoesAsWell
  <2> QED BY <2>7
<1>4. CASE a \in FileAnalyzers
  <2>1. a \notin Tools /\ a \notin CheckAnalyzers
    BY <1>1, <1>4 DEF FileAnalyzers, CheckAnalyzers
  <2>2. CASE a = "diff_size_concentration"
    <3>1. r = DiffSize(files) /\ s = DiffSize(files)
      BY <2>1, <2>2 DEF Analyse
    <3>2. CategoryOf(a) = "change_risk"
      BY <2>1, <2>2 DEF CategoryOf
    <3>3. /\ r = s /\ r.available /\ s.available /\ r.score \in Nat
          /\ 0 <= r.score /\ r.score <= 9500
      BY <3>1, DiffSizeTyped DEF Result
    <3>4. Floor(CategoryOf(a)) = 0
      BY <3>2 DEF Floor
    <3>5. DoesAsWell(a, r, s)
      <4> HIDE DEF r, s
      <4> QED BY <2>2, <3>3, <3>4 DEF AsWell, DoesAsWell
    <3> QED BY <3>5
  <2>3. CASE a = "test_file_changes"
    <3>1. r = TestFileChanges(files) /\ s = TestFileChanges(files)
      BY <2>1, <2>3 DEF Analyse
    <3>2. CategoryOf(a) = "tests" /\ a \notin EveryHead
      BY <2>1, <2>3 DEF CategoryOf, EveryHead
    <3>3. /\ r = s /\ r.score \in Nat
          /\ r.available => 2000 <= r.score /\ r.score <= 9500
      BY <3>1, TestFileChangesTyped DEF Result
    <3>4. Floor(CategoryOf(a)) = 2000
      BY <3>2 DEF Floor
    <3>5. DoesAsWell(a, r, s)
      <4> HIDE DEF r, s
      <4> QED BY <2>3, <3>2, <3>3, <3>4 DEF AsWell, DoesAsWell
    <3> QED BY <3>5
  <2>4. CASE a = "documentation_changes"
    <3>1. r = DocumentationChanges(files) /\ s = DocumentationChanges(files)
      BY <2>1, <2>4 DEF Analyse
    <3>2. CategoryOf(a) = "documentation"
      BY <2>1, <2>4 DEF CategoryOf
    <3>3. /\ r = s /\ r.available /\ s.available /\ r.score \in Nat
          /\ 4500 <= r.score /\ r.score <= 9500
      BY <3>1, DocumentationChangesTyped DEF Result
    <3>4. Floor(CategoryOf(a)) = 3500
      BY <3>2 DEF Floor
    <3>5. DoesAsWell(a, r, s)
      <4> HIDE DEF r, s
      <4> QED BY <2>4, <3>3, <3>4 DEF AsWell, DoesAsWell
    <3> QED BY <3>5
  <2>5. CASE a = "dependency_changes"
    <3>1. r = DependencyChanges(files) /\ s = DependencyChanges(files)
      BY <2>1, <2>5 DEF Analyse
    <3>2. CategoryOf(a) = "architecture"
      BY <2>1, <2>5 DEF CategoryOf
    <3>3. /\ r = s /\ r.available /\ s.available /\ r.score \in Nat
          /\ 3500 <= r.score /\ r.score <= 9500
      BY <3>1, DependencyChangesTyped DEF Result
    <3>4. Floor(CategoryOf(a)) = 3500
      BY <3>2 DEF Floor
    <3>5. DoesAsWell(a, r, s)
      <4> HIDE DEF r, s
      <4> QED BY <2>5, <3>3, <3>4 DEF AsWell, DoesAsWell
    <3> QED BY <3>5
  <2> QED BY <1>4, <2>2, <2>3, <2>4, <2>5 DEF FileAnalyzers
<1> QED BY <1>2, <1>3, <1>4 DEF Suite

(* What the categories of better results are worth.                        *)
LEMMA MeansAsWell ==
  ASSUME NEW p \in ScoringPolicies, ValidPolicy(PolicyOf[p]),
         NEW old \in [Suite -> Result], NEW new \in [Suite -> Result],
         ResultsAsWell(old, new)
  PROVE  LET lower == CategoryMeans(PolicyOf[p], old)
             upper == CategoryMeans(PolicyOf[p], new)
         IN /\ \A c \in DOMAIN lower : /\ lower[c].score \in Nat
                                       /\ lower[c].score <= 9500
            /\ \A c \in DOMAIN upper : /\ upper[c].score \in Nat
                                       /\ Floor(c) <= upper[c].score
            /\ \A c \in DOMAIN lower \cap DOMAIN upper : lower[c].score <= upper[c].score
            /\ \A c \in DOMAIN lower \ DOMAIN upper : lower[c].score = 2000
            /\ \A c \in DOMAIN upper \ DOMAIN lower : upper[c].score = 9500
            /\ {"documentation", "architecture", "change_risk"}
                 \subseteq DOMAIN lower \cap DOMAIN upper
PROOF
<1> DEFINE lower == CategoryMeans(PolicyOf[p], old)
           upper == CategoryMeans(PolicyOf[p], new)
           w == AnalyzerWeights(PolicyOf[p])
<1>1. /\ DOMAIN lower = ScoredCategories(old) /\ DOMAIN upper = ScoredCategories(new)
      /\ DOMAIN lower \in SUBSET Categories /\ DOMAIN upper \in SUBSET Categories
  BY DEF CategoryMeans, ScoredCategories
<1>2. \A a \in Suite : /\ old[a] \in Result /\ new[a] \in Result
                       /\ old[a].score \in Nat /\ new[a].score \in Nat
  BY DEF Result
<1>3. \A c \in Categories : \A a \in Suite :
        CategoryOf(a) = c =>
          /\ (c \in ScoredCategories(old)) \/ ~ old[a].available
          /\ (c \in ScoredCategories(new)) \/ ~ new[a].available
  BY DEF ScoredCategories, AvailableIn, AnalyzersOf
<1>4. PICK lo \in Int, hi \in Int, zero \in Int : lo = 2000 /\ hi = 9500 /\ zero = 0
  OBVIOUS
<1>5. ASSUME NEW c \in DOMAIN lower
      PROVE  /\ lower[c].score \in Nat /\ lower[c].score <= 9500
             /\ c \notin DOMAIN upper => lower[c].score = 2000
  <2>1. lower[c].score \in Int
    BY CategoryMeansWithin
  <2>2. \A a \in Suite : old[a].available /\ CategoryOf(a) = c =>
          zero <= old[a].score /\ old[a].score <= hi
    BY <1>2, <1>4 DEF ResultsAsWell, DoesAsWell
  <2>3. zero <= lower[c].score /\ lower[c].score <= hi
    BY <2>2, CategoryMeansWithin
  <2>4. ASSUME c \notin DOMAIN upper PROVE lower[c].score = 2000
    <3>1. \A a \in Suite : old[a].available /\ CategoryOf(a) = c =>
            lo <= old[a].score /\ old[a].score <= lo
      BY <1>1, <1>2, <1>3, <1>4, <2>4 DEF ResultsAsWell, DoesAsWell, AsWell
    <3>2. lo <= lower[c].score /\ lower[c].score <= lo
      BY <3>1, CategoryMeansWithin
    <3> HIDE DEF lower
    <3> QED BY <1>4, <2>1, <3>2
  <2> HIDE DEF lower, upper
  <2> QED BY <1>4, <2>1, <2>3, <2>4
<1>6. ASSUME NEW c \in DOMAIN upper
      PROVE  /\ upper[c].score \in Nat /\ Floor(c) <= upper[c].score
             /\ c \notin DOMAIN lower => upper[c].score = 9500
  <2>1. upper[c].score \in Int
    BY CategoryMeansWithin
  <2>2. PICK f \in Int, top \in Int : f = Floor(c) /\ 0 <= f /\ top = Full
    BY Results DEF Floor
  <2>3. \A a \in Suite : new[a].available /\ CategoryOf(a) = c =>
          f <= new[a].score /\ new[a].score <= top
    BY <1>2, <2>2 DEF ResultsAsWell, DoesAsWell, Result
  <2>4. f <= upper[c].score
    BY <2>3, CategoryMeansWithin
  <2>5. ASSUME c \notin DOMAIN lower PROVE upper[c].score = 9500
    <3>1. \A a \in Suite : new[a].available /\ CategoryOf(a) = c =>
            hi <= new[a].score /\ new[a].score <= hi
      BY <1>1, <1>2, <1>3, <1>4, <2>5 DEF ResultsAsWell, DoesAsWell, AsWell
    <3>2. hi <= upper[c].score /\ upper[c].score <= hi
      BY <3>1, CategoryMeansWithin
    <3> HIDE DEF upper
    <3> QED BY <1>4, <2>1, <3>2
  <2> HIDE DEF lower, upper
  <2> QED BY <2>1, <2>2, <2>4, <2>5
<1>7. ASSUME NEW c \in DOMAIN lower \cap DOMAIN upper
      PROVE  lower[c].score <= upper[c].score
  <2> DEFINE A == AvailableIn(old, c)  B == AvailableIn(new, c)
             f == [a \in A |-> old[a].score]  g == [a \in B |-> new[a].score]
             C == A \cap B
             least == IF c = "change_risk" THEN 0 ELSE 2000
  <2>1. lower[c].score = Mean(f, w) /\ upper[c].score = Mean(g, w)
    BY DEF CategoryMeans
  <2>2. /\ A # {} /\ B # {} /\ A \in SUBSET Suite /\ B \in SUBSET Suite
        /\ \A a \in A : CategoryOf(a) = c /\ old[a].available
        /\ \A a \in B : CategoryOf(a) = c /\ new[a].available
        /\ \A a \in A \ B : ~ new[a].available
        /\ \A a \in B \ A : ~ old[a].available
    BY <1>1 DEF ScoredCategories, AvailableIn, AnalyzersOf
  <2>3. /\ IsFiniteSet(A) /\ IsFiniteSet(B) /\ IsFiniteSet(C)
        /\ \A a \in Suite : w[a] \in Nat \ {0}
    BY <2>2, FiniteSuite, FS_Subset, PolicyWeights
  <2>4. /\ DOMAIN f = A /\ DOMAIN g = B
        /\ \A a \in A : f[a] = old[a].score
        /\ \A a \in B : g[a] = new[a].score
    OBVIOUS
  <2>5. least \in Nat /\ least <= 9500 /\ least <= Floor(c) /\ Floor(c) \in Nat
    BY DEF Floor
  <2>6. c = "change_risk" => A \ B = {}
    BY <2>2 DEF ResultsAsWell, DoesAsWell
  <2>7. /\ \A a \in A : f[a] \in Nat /\ f[a] <= 9500
        /\ \A a \in B : g[a] \in Nat /\ least <= g[a]
        /\ \A a \in A \cap B : f[a] <= g[a]
        /\ \A a \in A \ B : f[a] = least
        /\ \A a \in B \ A : g[a] = 9500
    <3>1. \A a \in A : f[a] \in Nat /\ f[a] <= 9500
      BY <1>2, <2>2, <2>4 DEF ResultsAsWell, DoesAsWell
    <3>2. \A a \in B : g[a] \in Nat /\ Floor(c) <= g[a]
      BY <1>2, <2>2, <2>4 DEF ResultsAsWell, DoesAsWell
    <3>3. \A a \in A \cap B : f[a] <= g[a]
      BY <2>2, <2>4 DEF ResultsAsWell, DoesAsWell, AsWell
    <3>4. \A a \in A \ B : f[a] = least
      BY <2>2, <2>4, <2>6 DEF ResultsAsWell, DoesAsWell, AsWell
    <3>5. \A a \in B \ A : g[a] = 9500
      BY <2>2, <2>4 DEF ResultsAsWell, DoesAsWell, AsWell
    <3> HIDE DEF least, A, B, f, g
    <3>6. \A a \in B : least <= g[a]
      BY <2>5, <3>2
    <3> QED BY <3>1, <3>2, <3>3, <3>4, <3>5, <3>6
  <2> DEFINE G == [a \in B |-> g[a] * w[a]]
  <2>8. \A a \in B : G[a] = g[a] * w[a]
    OBVIOUS
  <2> HIDE DEF A, B, f, g, G, w, least
  <2>9. WeightOf(w, A) # 0 /\ WeightOf(w, B) # 0
    <3>1. /\ \A a \in A : w[a] \in Nat /\ w[a] # 0
          /\ \A a \in B : w[a] \in Nat /\ w[a] # 0
      BY <2>2, <2>3
    <3> QED BY <2>2, <2>3, <3>1, WeightAddsUp
  <2>10. least * WeightOf(w, C) <= SumFunctionOnSet(G, C)
    <3> DEFINE top == 10000
    <3>1. \A a \in C : /\ G[a] \in Int /\ w[a] \in Int
                       /\ least * w[a] <= G[a] /\ G[a] <= G[a] * 1
      <4> SUFFICES ASSUME NEW a \in C
                   PROVE  /\ G[a] \in Int /\ w[a] \in Int
                          /\ least * w[a] <= G[a] /\ G[a] <= G[a] * 1
        OBVIOUS
      <4>1. /\ g[a] \in Nat /\ least <= g[a] /\ w[a] \in Nat /\ a \in B
        BY <2>2, <2>3, <2>7
      <4>2. least * w[a] <= g[a] * w[a]
        BY <2>5, <4>1, TimesMonotone
      <4> QED BY <2>8, <4>1, <4>2
    <3> DEFINE L == [a \in C |-> least * w[a]]
    <3>2. \A a \in C : L[a] \in Int /\ L[a] <= G[a] /\ least * w[a] <= L[a] /\ L[a] <= least * w[a]
      <4>1. \A a \in C : L[a] = least * w[a] /\ least * w[a] \in Int
        BY <2>2, <2>3, <2>5
      <4> HIDE DEF L
      <4> QED BY <3>1, <4>1
    <3> HIDE DEF L
    <3>3. SumFunctionOnSet(L, C) <= SumFunctionOnSet(G, C)
      <4>1. C \in SUBSET C /\ C \ C = {}
        OBVIOUS
      <4> QED BY <2>3, <3>1, <3>2, <4>1, SumMonotone
    <3>4. least * SumFunctionOnSet(w, C) <= SumFunctionOnSet(L, C)
      <4>1. least \in Int
        BY <2>5
      <4> QED BY <2>3, <3>1, <3>2, <4>1, SumBounds
    <3>5. /\ SumFunctionOnSet(L, C) \in Int /\ SumFunctionOnSet(G, C) \in Int
          /\ SumFunctionOnSet(w, C) \in Int
      BY <2>3, <3>1, <3>2, SumPick
    <3> QED BY <2>5, <3>3, <3>4, <3>5 DEF WeightOf
  <2>11. PICK top \in Nat : top = 9500
    OBVIOUS
  <2>12. \A a \in A \cup B : w[a] \in Nat
    BY <2>2, <2>3
  <2>13. Mean(f, w) <= Mean(g, w)
    <3>1. least * WeightOf(w, DOMAIN f \cap DOMAIN g)
            <= SumFunctionOnSet([a \in DOMAIN g |-> g[a] * w[a]], DOMAIN f \cap DOMAIN g)
      BY <2>4, <2>10 DEF G
    <3> HIDE DEF C
    <3> QED BY <2>3, <2>4, <2>5, <2>7, <2>9, <2>11, <2>12, <3>1, MeanOrder
  <2> QED BY <2>1, <2>13
<1>8. {"documentation", "architecture", "change_risk"} \subseteq DOMAIN lower \cap DOMAIN upper
  <2>1. \A a \in EveryHead : a \in Suite /\ a \notin Tools
    BY ToolsAssumption DEF EveryHead, Suite, FileAnalyzers
  <2>2. /\ CategoryOf("documentation_changes") = "documentation"
        /\ CategoryOf("dependency_changes") = "architecture"
        /\ CategoryOf("diff_size_concentration") = "change_risk"
    BY <2>1 DEF CategoryOf, EveryHead
  <2>3. \A a \in EveryHead : old[a].available /\ new[a].available
    BY <2>1 DEF ResultsAsWell, DoesAsWell
  <2>4. \A a \in EveryHead : CategoryOf(a) \in Categories
    BY <2>2 DEF EveryHead, Categories
  <2>5. \A a \in EveryHead : CategoryOf(a) \in DOMAIN lower \cap DOMAIN upper
    BY <1>1, <1>3, <2>1, <2>3, <2>4
  <2> HIDE DEF lower, upper
  <2> QED BY <2>2, <2>5 DEF EveryHead
<1> QED BY <1>5, <1>6, <1>7, <1>8

(* Under the default weights, what documentation and dependencies are      *)
(* worth makes up for the size of a diff: better results score no less.    *)
LEMMA FinalAsWell ==
  ASSUME NEW p \in ScoringPolicies, ValidPolicy(PolicyOf[p]),
         PolicyOf[p].weights = DefaultWeights,
         NEW old \in [Suite -> Result], NEW new \in [Suite -> Result],
         ResultsAsWell(old, new)
  PROVE  FinalScore(PolicyOf[p], CategoryMeans(PolicyOf[p], old))
           <= FinalScore(PolicyOf[p], CategoryMeans(PolicyOf[p], new))
PROOF
<1> DEFINE lower == CategoryMeans(PolicyOf[p], old)
           upper == CategoryMeans(PolicyOf[p], new)
           w == PolicyOf[p].weights
           A == DOMAIN lower  B == DOMAIN upper  C == A \cap B
           f == [c \in A |-> lower[c].score]  g == [c \in B |-> upper[c].score]
           G == [c \in B |-> g[c] * w[c]]
           doc == "documentation"  arch == "architecture"  risk == "change_risk"
<1>1. /\ A \in SUBSET Categories /\ IsFiniteSet(A)
      /\ B \in SUBSET Categories /\ IsFiniteSet(B) /\ IsFiniteSet(C)
  BY CategoryMeansWithin, FS_Subset
<1>2. /\ \A c \in A : lower[c].score \in Nat /\ lower[c].score <= 9500
      /\ \A c \in B : upper[c].score \in Nat /\ Floor(c) <= upper[c].score
      /\ \A c \in C : lower[c].score <= upper[c].score
      /\ \A c \in A \ B : lower[c].score = 2000
      /\ \A c \in B \ A : upper[c].score = 9500
      /\ {doc, arch, risk} \subseteq C
  BY MeansAsWell, SMTT(30)
<1>3. \A c \in Categories : w[c] \in Nat
  BY PolicyWeights
<1>4. w[doc] = 5 /\ w[arch] = 10 /\ w[risk] = 5
  BY DEF DefaultWeights
<1>5. /\ DOMAIN f = A /\ DOMAIN g = B
      /\ \A c \in A : f[c] = lower[c].score
      /\ \A c \in B : g[c] = upper[c].score
  OBVIOUS
<1>6. /\ FinalScore(PolicyOf[p], lower) = Mean(f, w)
      /\ FinalScore(PolicyOf[p], upper) = Mean(g, w)
  BY DEF AvailableWeight, FinalScore, WeighedScore, Mean
<1>7. \A c \in B : G[c] = g[c] * w[c]
  OBVIOUS
<1> SUFFICES Mean(f, w) <= Mean(g, w)
  BY <1>6, Zenon
<1>8. /\ \A c \in A : f[c] \in Nat /\ f[c] <= 9500
      /\ \A c \in B : g[c] \in Nat /\ Floor(c) <= g[c]
      /\ \A c \in A \cap B : f[c] <= g[c]
      /\ \A c \in A \ B : f[c] = 2000
      /\ \A c \in B \ A : g[c] = 9500
  <2> HIDE DEF lower, upper, A, B, f, g
  <2> QED BY <1>2, <1>5 DEF C
<1> HIDE DEF lower, upper, w, A, B, f, g, G
<1>9. /\ doc \in A /\ doc \in B /\ arch \in B /\ risk \in B
      /\ doc \in C /\ arch \in C /\ risk \in C
  BY <1>2
<1>10. WeightOf(w, A) # 0 /\ WeightOf(w, B) # 0
  <2>1. \A S \in {A, B} : IsFiniteSet(S) /\ \A c \in S : w[c] \in Nat
    BY <1>1, <1>3
  <2>2. \A S \in {A, B} : WeightOf(w, S) = 0 <=> \A c \in S : w[c] = 0
    BY <2>1, WeightAddsUp
  <2>3. w[doc] # 0
    BY <1>4
  <2> QED BY <1>9, <2>2, <2>3
<1>11. 2000 * WeightOf(w, C) <= SumFunctionOnSet(G, C)
  <2> DEFINE M(s) == SumFunctionOnSet(G, s)  W(s) == SumFunctionOnSet(w, s)
             C1 == C \ {risk}  C2 == C1 \ {doc}  C3 == C2 \ {arch}
  <2>1. /\ \A s \in SUBSET C : M(s) \in Int /\ \A c \in s : M(s) = G[c] + M(s \ {c})
        /\ \A s \in SUBSET C : W(s) \in Int /\ \A c \in s : W(s) = w[c] + W(s \ {c})
    <3>1. \A c \in C : G[c] \in Int /\ w[c] \in Int
      BY <1>1, <1>3, <1>7, <1>8
    <3>2. \A s \in SUBSET C : IsFiniteSet(s)
      BY <1>1, FS_Subset
    <3> HIDE DEF C
    <3> QED BY <3>1, <3>2, SumPick
  <2>2. /\ risk \in C /\ doc \in C1 /\ arch \in C2
        /\ C \in SUBSET C /\ C1 \in SUBSET C /\ C2 \in SUBSET C /\ C3 \in SUBSET C
        /\ C3 \in SUBSET B /\ \A c \in C3 : c \notin {risk, doc, arch}
    BY <1>9
  <2>3. 2000 * W(C3) <= M(C3)
    <3>1. PICK lo \in Int : lo = 2000
      OBVIOUS
    <3>2. IsFiniteSet(C3)
      BY <1>1, <2>2, FS_Subset
    <3> DEFINE L == [c \in C3 |-> lo * w[c]]
    <3>3. \A c \in C3 : /\ L[c] \in Int /\ w[c] \in Int /\ G[c] \in Int
                        /\ lo * w[c] <= L[c] /\ L[c] <= lo * w[c] /\ L[c] <= G[c]
      <4> SUFFICES ASSUME NEW c \in C3
                   PROVE  /\ L[c] \in Int /\ w[c] \in Int /\ G[c] \in Int
                          /\ lo * w[c] <= L[c] /\ L[c] <= lo * w[c] /\ L[c] <= G[c]
        OBVIOUS
      <4>1. /\ w[c] \in Nat /\ g[c] \in Nat /\ lo <= g[c] /\ G[c] = g[c] * w[c]
        BY <1>1, <1>3, <1>7, <1>8, <2>2, <3>1 DEF Floor
      <4>2. lo * w[c] <= g[c] * w[c]
        BY <4>1, TimesMonotone
      <4>3. L[c] = lo * w[c]
        OBVIOUS
      <4> HIDE DEF L, C3
      <4> QED BY <4>1, <4>2, <4>3
    <3> HIDE DEF L, C3
    <3>4. /\ lo * SumFunctionOnSet(w, C3) <= SumFunctionOnSet(L, C3)
          /\ SumFunctionOnSet(L, C3) \in Int
      BY <3>2, <3>3, SumBounds, SumPick
    <3>5. SumFunctionOnSet(L, C3) <= M(C3)
      <4>1. C3 \in SUBSET C3 /\ C3 \ C3 = {}
        OBVIOUS
      <4> QED BY <3>2, <3>3, <4>1, SumMonotone
    <3>6. M(C3) \in Int /\ W(C3) \in Int
      BY <2>1, <2>2
    <3> QED BY <3>1, <3>4, <3>5, <3>6
  <2>4. /\ G[risk] \in Int /\ 0 <= G[risk]
        /\ G[doc] \in Int /\ 17500 <= G[doc]
        /\ G[arch] \in Int /\ 35000 <= G[arch]
    <3>1. Floor(risk) = 0 /\ Floor(doc) = 3500 /\ Floor(arch) = 3500
      BY DEF Floor
    <3>2. /\ g[risk] \in Nat /\ g[doc] \in Nat /\ 3500 <= g[doc]
          /\ g[arch] \in Nat /\ 3500 <= g[arch]
      BY <1>8, <1>9, <3>1
    <3>3. G[risk] = g[risk] * 5 /\ G[doc] = g[doc] * 5 /\ G[arch] = g[arch] * 10
      BY <1>4, <1>7, <1>9
    <3> QED BY <3>2, <3>3
  <2>5. /\ M(C) = G[risk] + M(C1) /\ M(C1) = G[doc] + M(C2) /\ M(C2) = G[arch] + M(C3)
        /\ W(C) = 5 + W(C1) /\ W(C1) = 5 + W(C2) /\ W(C2) = 10 + W(C3)
        /\ M(C3) \in Int /\ W(C3) \in Int
    <3> HIDE DEF M, W
    <3> QED BY <1>4, <2>1, <2>2
  <2>6. 2000 * W(C) <= M(C)
    <3> HIDE DEF M, W, C, C1, C2, C3
    <3> QED BY <2>3, <2>4, <2>5
  <2> QED BY <2>6 DEF WeightOf
<1>12. PICK lo \in Nat, hi \in Nat : lo = 2000 /\ hi = 9500
  OBVIOUS
<1>13. /\ IsFiniteSet(DOMAIN f) /\ IsFiniteSet(DOMAIN g) /\ lo <= hi
       /\ \A c \in DOMAIN f \cup DOMAIN g : w[c] \in Nat
       /\ WeightOf(w, DOMAIN f) # 0 /\ WeightOf(w, DOMAIN g) # 0
  BY <1>1, <1>3, <1>5, <1>10, <1>12
<1>14. /\ \A c \in DOMAIN f : f[c] \in Nat /\ f[c] <= hi
       /\ \A c \in DOMAIN g : g[c] \in Nat
       /\ \A c \in DOMAIN f \cap DOMAIN g : f[c] <= g[c]
       /\ \A c \in DOMAIN f \ DOMAIN g : f[c] = lo
       /\ \A c \in DOMAIN g \ DOMAIN f : g[c] = hi
  BY <1>5, <1>8, <1>12
<1>15. lo * WeightOf(w, DOMAIN f \cap DOMAIN g)
         <= SumFunctionOnSet([c \in DOMAIN g |-> g[c] * w[c]], DOMAIN f \cap DOMAIN g)
  BY <1>5, <1>11, <1>12 DEF G
<1> QED BY <1>13, <1>14, <1>15, MeanOrder

-----------------------------------------------------------------------------
(* The invariant                                                           *)

(* What a run that scored keeps: the results of the analyzers on the files *)
(* and the reports its key names, and the aggregate of them by its policy. *)
Computed(key, run) ==
  /\ key.policy \in ScoringPolicies /\ ValidPolicy(PolicyOf[key.policy])
  /\ run.results \in [Suite -> Result]
  /\ \E tools \in [Tools -> ToolStatus] :
       run.results = [a \in Suite |-> Analyse(a, key.head, key.reports, tools)]
  /\ \E complete \in BOOLEAN :
       run.score = Aggregate(PolicyOf[key.policy], run.results, complete)
RunsAggregate == \A k \in DOMAIN runs : runs[k].score # {} => Computed(k, runs[k])

PolicyInForce == ValidPolicy(PolicyOf[scoringPolicy])

ScoringInv == ScoringTypeOK /\ RunsAggregate /\ PolicyInForce /\ LatestOfHead

(* The first state, without runs, satisfies the invariant.                 *)
LEMMA ScoringStarts ==
  ASSUME ScoringInit
  PROVE  ScoringInv
PROOF
<1>1. NoReports \in Reports
  BY DEF NoReports, Reports, CheckStatus
<1>2. DOMAIN runs = {}
  BY DEF ScoringInit
<1>3. ScoringTypeOK
  BY <1>1, <1>2, ScoringAssumption DEF ScoringInit, ScoringTypeOK
<1>4. RunsAggregate /\ LatestOfHead
  BY <1>2, <1>3 DEF RunsAggregate, LatestOfHead, ScoringTypeOK
<1>5. PolicyInForce
  BY ScoringAssumption DEF ScoringInit, PolicyInForce
<1> QED BY <1>3, <1>4, <1>5 DEF ScoringInv

(* What changes no run keeps what is said of them.                         *)
LEMMA RunsKept ==
  ASSUME ScoringInv, UNCHANGED <<prRow, runs>>
  PROVE  RunsAggregate' /\ LatestOfHead'
PROOF
<1>1. RunsAggregate'
  BY DEF ScoringInv, RunsAggregate
<1>2. LatestOfHead'
  BY DEF ScoringInv, LatestOfHead, ScoredRuns
<1> QED BY <1>1, <1>2

(* GitHub and the policy route move without touching a run; a policy is    *)
(* validated before it is stored (update_scoring_policy).                  *)
LEMMA MovesKeep ==
  ASSUME ScoringInv,
         \/ \E files \in Snapshots : Push(files)
         \/ \E reports \in Reports : ReportChecks(reports)
         \/ \E p \in ScoringPolicies : UpdateScoringPolicy(p)
  PROVE  ScoringInv'
PROOF
<1>1. UNCHANGED <<prRow, runs>> /\ Move
  BY DEF Push, ReportChecks, UpdateScoringPolicy
<1>2. moves' \in 0..MaxMoves
  BY <1>1, ScoringAssumption DEF Move, ScoringInv, ScoringTypeOK
<1>3. NoReports \in Reports
  BY DEF NoReports, Reports, CheckStatus
<1>4. remote' \in [head : Snapshots, reports : Reports]
  BY <1>3 DEF ScoringInv, ScoringTypeOK, Push, ReportChecks, UpdateScoringPolicy
<1>5. scoringPolicy' \in ScoringPolicies /\ PolicyInForce'
  BY DEF ScoringInv, ScoringTypeOK, PolicyInForce, Push, ReportChecks, UpdateScoringPolicy
<1>6. ScoringTypeOK'
  BY <1>1, <1>2, <1>4, <1>5 DEF ScoringInv, ScoringTypeOK
<1> QED BY <1>1, <1>5, <1>6, RunsKept DEF ScoringInv

(* A run that is found, or created with a score its results bear out.      *)
LEMMA RunAdded ==
  ASSUME ScoringInv, NEW key \in RunKey, NEW row,
         \/ key \in DOMAIN runs /\ UNCHANGED runs
         \/ /\ key \notin DOMAIN runs
            /\ runs' = [k \in DOMAIN runs \cup {key} |-> IF k = key THEN row ELSE runs[k]],
         row.score \subseteq ScoreRow,
         row.score # {} => Computed(key, row)
  PROVE  /\ key \in DOMAIN runs' /\ DOMAIN runs \subseteq DOMAIN runs'
         /\ \A k \in DOMAIN runs' : k \in RunKey /\ runs'[k].score \subseteq ScoreRow
         /\ RunsAggregate'
PROOF
<1>1. \A k \in DOMAIN runs : k \in RunKey /\ runs[k].score \subseteq ScoreRow
  BY DEF ScoringInv, ScoringTypeOK
<1>2. CASE key \in DOMAIN runs /\ UNCHANGED runs
  BY <1>1, <1>2 DEF ScoringInv, RunsAggregate
<1>3. CASE /\ key \notin DOMAIN runs
           /\ runs' = [k \in DOMAIN runs \cup {key} |-> IF k = key THEN row ELSE runs[k]]
  <2>1. /\ DOMAIN runs' = DOMAIN runs \cup {key}
        /\ runs'[key] = row /\ \A k \in DOMAIN runs : runs'[k] = runs[k]
    BY <1>3
  <2>2. RunsAggregate'
    BY <2>1 DEF ScoringInv, RunsAggregate
  <2> QED BY <1>1, <2>1, <2>2
<1> QED BY <1>2, <1>3

(* An incomplete snapshot leaves no run marked as the latest.              *)
LEMMA RecordIncompleteKeeps ==
  ASSUME ScoringInv, RecordIncomplete
  PROVE  ScoringInv'
PROOF
<1> DEFINE key == [head |-> remote.head, reports |-> NoReports,
                   policy |-> scoringPolicy, checks |-> "files over limit"]
           row == [results |-> <<>>, score |-> {}]
<1>1. key \in RunKey
  <2>1. NoReports \in Reports
    BY DEF NoReports, Reports, CheckStatus
  <2> QED BY <2>1 DEF ScoringInv, ScoringTypeOK, RunKey
<1>2. /\ \/ key \in DOMAIN runs /\ UNCHANGED runs
         \/ /\ key \notin DOMAIN runs
            /\ runs' = [k \in DOMAIN runs \cup {key} |-> IF k = key THEN row ELSE runs[k]]
      /\ prRow' = [head |-> remote.head, latest |-> {}]
      /\ UNCHANGED <<remote, scoringPolicy, moves>>
  BY DEF RecordIncomplete
<1>3. row.score = {}
  OBVIOUS
<1> HIDE DEF key, row
<1>4. /\ \A k \in DOMAIN runs' : k \in RunKey /\ runs'[k].score \subseteq ScoreRow
      /\ RunsAggregate'
  BY <1>1, <1>2, <1>3, RunAdded
<1>5. ScoringTypeOK'
  BY <1>2, <1>4 DEF ScoringInv, ScoringTypeOK
<1>6. LatestOfHead' /\ PolicyInForce'
  BY <1>2 DEF ScoringInv, LatestOfHead, PolicyInForce
<1> QED BY <1>4, <1>5, <1>6 DEF ScoringInv

(* A run stores the aggregate of what its analyzers found, once per key, and *)
(* takes the latest mark for the head it read.                             *)
LEMMA ExecuteRunKeeps ==
  ASSUME ScoringInv, NEW checks \in {"complete", "failed", "limit"},
         NEW tools \in [Tools -> ToolStatus], ExecuteRun(checks, tools)
  PROVE  ScoringInv'
PROOF
<1> DEFINE seen == IF checks = "failed" THEN NoReports ELSE remote.reports
           key == [head |-> remote.head, reports |-> seen,
                   policy |-> scoringPolicy, checks |-> checks]
           results == [a \in Suite |-> Analyse(a, remote.head, seen, tools)]
           complete == checks # "limit"
           row == [results |-> results,
                   score |-> Aggregate(PolicyOf[scoringPolicy], results, complete)]
<1>1. /\ \/ key \in DOMAIN runs /\ UNCHANGED runs
         \/ /\ key \notin DOMAIN runs
            /\ runs' = [k \in DOMAIN runs \cup {key} |-> IF k = key THEN row ELSE runs[k]]
      /\ prRow' = [head |-> remote.head, latest |-> LatestAfter(key)]
      /\ UNCHANGED <<remote, scoringPolicy, moves>>
  BY DEF ExecuteRun
<1>2. /\ key \in RunKey /\ key.head = remote.head /\ key.policy = scoringPolicy
      /\ key.reports = seen
  <2>1. NoReports \in Reports
    BY DEF NoReports, Reports, CheckStatus
  <2>2. seen \in Reports
    BY <2>1 DEF ScoringInv, ScoringTypeOK
  <2> HIDE DEF seen
  <2> QED BY <2>2 DEF ScoringInv, ScoringTypeOK, RunKey
<1>3. /\ scoringPolicy \in ScoringPolicies /\ ValidPolicy(PolicyOf[scoringPolicy])
      /\ remote.head \in Snapshots
  BY DEF ScoringInv, ScoringTypeOK, PolicyInForce
<1>4. results \in [Suite -> Result]
  <2> HIDE DEF seen
  <2>1. remote.head \in SUBSET File /\ IsFiniteSet(remote.head)
    BY <1>3, FilesAssumption
  <2>2. \A a \in Suite : Analyse(a, remote.head, seen, tools) \in Result
    BY <2>1, AnalyseTyped
  <2> QED BY <2>2
<1>5. /\ complete \in BOOLEAN
      /\ results = [a \in Suite |-> Analyse(a, remote.head, seen, tools)]
  OBVIOUS
<1>6. /\ row.results = results
      /\ row.score = Aggregate(PolicyOf[scoringPolicy], results, complete)
  OBVIOUS
<1> HIDE DEF seen, key, results, complete, row
<1>7. row.score \subseteq ScoreRow
  BY <1>3, <1>4, <1>5, <1>6, AggregateTyped
<1>8. /\ key \in DOMAIN runs' /\ DOMAIN runs \subseteq DOMAIN runs'
      /\ \A k \in DOMAIN runs' : k \in RunKey /\ runs'[k].score \subseteq ScoreRow
      /\ RunsAggregate'
  <2>1. Computed(key, row)
    BY <1>2, <1>3, <1>4, <1>5, <1>6 DEF Computed
  <2> QED BY <1>1, <1>2, <1>7, <2>1, RunAdded
<1>9. prRow'.head = remote.head /\ prRow'.latest = LatestAfter(key)
  BY <1>1
<1>10. ScoringTypeOK'
  <2>1. LatestAfter(key) \subseteq DOMAIN runs'
    BY <1>8 DEF LatestAfter, ScoringInv, ScoringTypeOK
  <2> QED BY <1>1, <1>3, <1>8, <1>9, <2>1 DEF ScoringInv, ScoringTypeOK
<1>11. LatestOfHead'
  <2>1. CASE runs'[key].score = {}
    BY <1>2, <1>8, <1>9, <2>1 DEF LatestOfHead, ScoredRuns
  <2>2. CASE runs'[key].score # {}
    BY <1>2, <1>9, <2>2 DEF LatestOfHead, LatestAfter
  <2> QED BY <2>1, <2>2
<1>12. PolicyInForce'
  BY <1>1 DEF ScoringInv, PolicyInForce
<1> QED BY <1>8, <1>10, <1>11, <1>12 DEF ScoringInv

(* Every step keeps the invariant.                                         *)
LEMMA ScoringInductive ==
  ASSUME ScoringInv, [ScoringNext]_scoringVars
  PROVE  ScoringInv'
PROOF
<1>1. CASE \/ \E files \in Snapshots : Push(files)
           \/ \E reports \in Reports : ReportChecks(reports)
           \/ \E p \in ScoringPolicies : UpdateScoringPolicy(p)
  BY <1>1, MovesKeep
<1>2. CASE RecordIncomplete
  BY <1>2, RecordIncompleteKeeps
<1>3. CASE \E checks \in {"complete", "failed", "limit"}, tools \in [Tools -> ToolStatus] :
             ExecuteRun(checks, tools)
  BY <1>3, ExecuteRunKeeps
<1>4. CASE UNCHANGED scoringVars
  <2>1. ScoringTypeOK' /\ PolicyInForce'
    BY <1>4 DEF scoringVars, ScoringInv, ScoringTypeOK, PolicyInForce
  <2> QED BY <1>4, <2>1, RunsKept DEF scoringVars, ScoringInv
<1> QED BY <1>1, <1>2, <1>3, <1>4 DEF ScoringNext

(* What is stored of a run is always what the engine computes from its     *)
(* results, under a valid policy.                                          *)
THEOREM ScoringInvariant == ScoringSpec => []ScoringInv
PROOF
<1>1. ScoringInit => ScoringInv
  BY ScoringStarts
<1>2. ScoringInv /\ [ScoringNext]_scoringVars => ScoringInv'
  BY ScoringInductive
<1> QED BY <1>1, <1>2, PTL DEF ScoringSpec

-----------------------------------------------------------------------------
(* What follows from it                                                    *)

(* Every score is between 0 and 100 and every confidence between 0 and 1,  *)
(* whatever files and check runs GitHub reports.                           *)
THEOREM ScoringTyped == ScoringSpec => []ScoringTypeOK
PROOF
<1>1. ScoringInv => ScoringTypeOK
  BY DEF ScoringInv
<1> QED BY <1>1, ScoringInvariant, PTL

(* The latest score of a pull request is one of its head, unless a run of  *)
(* the head had nothing to score.                                          *)
THEOREM LatestScoresHead == ScoringSpec => []LatestOfHead
PROOF
<1>1. ScoringInv => LatestOfHead
  BY DEF ScoringInv
<1> QED BY <1>1, ScoringInvariant, PTL

(* The score and the confidence of a run, from the results it keeps.       *)
LEMMA ScoredBy ==
  ASSUME ScoringInv, NEW k \in ScoredRuns
  PROVE  LET policy == PolicyOf[k.policy]
             means == CategoryMeans(policy, runs[k].results)
         IN /\ k.policy \in ScoringPolicies /\ ValidPolicy(policy)
            /\ runs[k].results \in [Suite -> Result]
            /\ AvailableWeight(policy, means) # 0
            /\ FinalOf(k) = FinalScore(policy, means)
            /\ ConfidenceIn(k) = Confidence(policy, means)
PROOF
<1> DEFINE policy == PolicyOf[k.policy]
           results == runs[k].results
           means == CategoryMeans(policy, results)
<1>1. k \in DOMAIN runs /\ runs[k].score # {}
  BY DEF ScoredRuns
<1>2. /\ k.policy \in ScoringPolicies /\ ValidPolicy(policy)
      /\ results \in [Suite -> Result]
  BY <1>1 DEF ScoringInv, RunsAggregate, Computed
<1>3. PICK complete \in BOOLEAN : runs[k].score = Aggregate(policy, results, complete)
  BY <1>1 DEF ScoringInv, RunsAggregate, Computed
<1> DEFINE row == [score |-> FinalScore(policy, means),
                   confidence |-> Confidence(policy, means),
                   authoritative |-> Authoritative(policy, results, means, complete)]
<1>4. AvailableWeight(policy, means) # 0 /\ runs[k].score = {row}
  BY <1>1, <1>3 DEF Aggregate
<1>5. /\ row.score = FinalScore(policy, means)
      /\ row.confidence = Confidence(policy, means)
  OBVIOUS
<1> HIDE DEF row
<1>6. (CHOOSE s \in runs[k].score : TRUE) = row
  BY <1>4
<1>7. FinalOf(k) = row.score /\ ConfidenceIn(k) = row.confidence
  BY <1>6 DEF FinalOf, ConfidenceIn
<1> QED BY <1>2, <1>4, <1>5, <1>7

(* The least and the greatest of a set of natural numbers with a bound.    *)
LEMMA MinMax ==
  ASSUME NEW n \in Nat, NEW S \in SUBSET (0..n), S # {}
  PROVE  /\ Min(S) \in S /\ Max(S) \in S
         /\ Min(S) \in Int /\ Max(S) \in Int
         /\ \A x \in S : Min(S) <= x /\ x <= Max(S)
PROOF
<1>2. S \in SUBSET Nat
  OBVIOUS
<1>3. \E x \in S : \A y \in S : x <= y
  BY <1>2, LeastNatural
<1>4. \E x \in S : \A y \in S : x >= y
  <2> DEFINE T == {n - x : x \in S}
  <2>1. T \in SUBSET Nat /\ T # {}
    <3>1. \A x \in S : x \in Nat /\ n - x \in Nat
      OBVIOUS
    <3>2. PICK x \in S : TRUE
      OBVIOUS
    <3>3. n - x \in T
      OBVIOUS
    <3> QED BY <3>1, <3>3
  <2>2. PICK z \in T : \A y \in T : z <= y
    <3> HIDE DEF T
    <3> QED BY <2>1, LeastNatural
  <2>3. PICK x \in S : z = n - x
    OBVIOUS
  <2>4. ASSUME NEW y \in S PROVE x >= y
    <3>1. n - y \in T
      OBVIOUS
    <3>2. z <= n - y
      BY <2>2, <3>1
    <3> QED BY <1>2, <2>3, <3>2
  <2> QED BY <2>4
<1>5. Min(S) \in S /\ \A y \in S : Min(S) <= y
  BY <1>3 DEF Min
<1>6. Max(S) \in S /\ \A y \in S : Max(S) >= y
  BY <1>4 DEF Max
<1>7. Min(S) \in Int /\ Max(S) \in Int
  <2>1. Min(S) \in Nat /\ Max(S) \in Nat
    BY <1>2, <1>5, <1>6
  <2> QED BY <2>1
<1>8. ASSUME NEW x \in S PROVE Min(S) <= x /\ x <= Max(S)
  <2>1. x \in Int /\ Max(S) >= x
    BY <1>2, <1>6
  <2> QED BY <1>5, <1>7, <2>1
<1> QED BY <1>5, <1>6, <1>7, <1>8

(* Whatever a pull request and its checks are, and whatever the policy, a  *)
(* score lies between the lowest and the highest result that weighs in it: *)
(* what is missing is never a zero.                                        *)
THEOREM ScoresWithinEvidence == ScoringSpec => []WithinEvidence
PROOF
<1>1. ASSUME ScoringInv PROVE WithinEvidence
  <2> SUFFICES ASSUME NEW k \in ScoredRuns
               PROVE  LET counted == {runs[k].results[a].score : a \in
                            {a \in Counted(k) : PolicyOf[k.policy].weights[CategoryOf(a)] # 0}}
                      IN FinalOf(k) \in Min(counted)..Max(counted)
    BY DEF WithinEvidence
  <2> DEFINE policy == PolicyOf[k.policy]
             results == runs[k].results
             means == CategoryMeans(policy, results)
             weighing == {a \in Counted(k) : policy.weights[CategoryOf(a)] # 0}
             counted == {results[a].score : a \in weighing}
  <2>1. /\ k.policy \in ScoringPolicies /\ ValidPolicy(policy)
        /\ results \in [Suite -> Result]
        /\ AvailableWeight(policy, means) # 0
        /\ FinalOf(k) = FinalScore(policy, means)
    BY <1>1, ScoredBy
  <2>2. /\ weighing \in SUBSET Suite
        /\ \A a \in Suite : results[a].available /\ policy.weights[CategoryOf(a)] # 0
              => a \in weighing
    BY DEF Counted
  <2>3. counted \in SUBSET (0..Full)
    BY <2>1, <2>2 DEF Result
  <2>4. counted # {}
    <3>1. DOMAIN means \in SUBSET Categories /\ IsFiniteSet(DOMAIN means)
      BY <2>1, CategoryMeansWithin
    <3>2. \A c \in DOMAIN means : policy.weights[c] \in Nat
      BY <2>1, <3>1, PolicyWeights
    <3>3. PICK c \in DOMAIN means : policy.weights[c] # 0
      <4> HIDE DEF means, policy
      <4> QED BY <2>1, <3>1, <3>2, WeightAddsUp DEF AvailableWeight
    <3>4. PICK a \in AvailableIn(results, c) : TRUE
      BY <3>3 DEF CategoryMeans, ScoredCategories
    <3>5. a \in Suite /\ results[a].available /\ CategoryOf(a) = c
      BY <3>1, <3>3, <3>4 DEF AvailableIn, AnalyzersOf
    <3>6. a \in weighing
      BY <2>2, <3>3, <3>5
    <3> QED BY <3>6
  <2>5. \A a \in weighing : results[a].score \in counted
    OBVIOUS
  <2> HIDE DEF counted, weighing
  <2>6. /\ Min(counted) \in Int /\ Max(counted) \in Int
        /\ \A x \in counted : Min(counted) <= x /\ x <= Max(counted)
    BY <2>3, <2>4, Results, MinMax
  <2>7. \A a \in Suite : results[a].available /\ policy.weights[CategoryOf(a)] # 0 =>
          Min(counted) <= results[a].score /\ results[a].score <= Max(counted)
    BY <2>2, <2>5, <2>6
  <2>8. /\ FinalOf(k) \in Int
        /\ Min(counted) <= FinalOf(k) /\ FinalOf(k) <= Max(counted)
    BY <2>1, <2>6, <2>7, FinalScoreWithin
  <2> QED BY <2>6, <2>8 DEF counted, weighing
<1> QED BY <1>1, ScoringInvariant, PTL

(* Of two runs by one policy, the one that has fewer categories, each as   *)
(* confident as in the other, is no more confident.                        *)
THEOREM MissingEvidenceLowersConfidence == ScoringSpec => []MissingLowersConfidence
PROOF
<1>1. ASSUME ScoringInv PROVE MissingLowersConfidence
  <2> SUFFICES ASSUME NEW j \in ScoredRuns, NEW k \in ScoredRuns, j.policy = k.policy,
                      LET lower == CategoryMeans(PolicyOf[k.policy], runs[j].results)
                          upper == CategoryMeans(PolicyOf[k.policy], runs[k].results)
                      IN \A c \in DOMAIN lower :
                           c \in DOMAIN upper /\ lower[c].confidence = upper[c].confidence
               PROVE  ConfidenceIn(j) <= ConfidenceIn(k)
    BY DEF MissingLowersConfidence
  <2> DEFINE policy == PolicyOf[k.policy]
             w == policy.weights
             lower == CategoryMeans(policy, runs[j].results)
             upper == CategoryMeans(policy, runs[k].results)
             f == [c \in DOMAIN lower |-> lower[c].confidence * w[c]]
             g == [c \in DOMAIN upper |-> upper[c].confidence * w[c]]
  <2>1. /\ k.policy \in ScoringPolicies /\ ValidPolicy(policy)
        /\ runs[j].results \in [Suite -> Result] /\ runs[k].results \in [Suite -> Result]
        /\ ConfidenceIn(j) = Confidence(policy, lower)
        /\ ConfidenceIn(k) = Confidence(policy, upper)
    BY <1>1, ScoredBy
  <2>2. DOMAIN upper \in SUBSET Categories /\ IsFiniteSet(DOMAIN upper)
    BY <2>1, CategoryMeansWithin
  <2>3. \A c \in DOMAIN upper : w[c] \in Nat /\ upper[c].confidence \in Nat
    BY <2>1, <2>2, PolicyWeights, CategoryMeansWithin
  <2>4. /\ DOMAIN lower \in SUBSET DOMAIN upper
        /\ \A c \in DOMAIN lower : lower[c].confidence = upper[c].confidence
    OBVIOUS
  <2>5. /\ \A c \in DOMAIN lower : f[c] = lower[c].confidence * w[c]
        /\ \A c \in DOMAIN upper : g[c] = upper[c].confidence * w[c]
    OBVIOUS
  <2>6. /\ WeighedConfidence(policy, lower) = SumFunctionOnSet(f, DOMAIN lower)
        /\ WeighedConfidence(policy, upper) = SumFunctionOnSet(g, DOMAIN upper)
    BY DEF WeighedConfidence, Weighed, SumFunction
  <2> DEFINE n == WeighedConfidence(policy, lower)  m == WeighedConfidence(policy, upper)
  <2>7. n \in Nat /\ m \in Nat
    BY <2>1, WeighedConfidenceNat
  <2> HIDE DEF policy, w, lower, upper, f, g
  <2>8. \A c \in DOMAIN upper : g[c] \in Int /\ 0 <= g[c]
    BY <2>3, <2>5
  <2>9. \A c \in DOMAIN lower : f[c] = g[c]
    BY <2>4, <2>5
  <2>10. n <= m
    BY <2>2, <2>4, <2>6, <2>8, <2>9, SumMonotone
  <2> HIDE DEF n, m
  <2>11. PICK d \in Nat \ {0} : d = 100
    OBVIOUS
  <2>12. Quantize(n, d) <= Quantize(m, d)
    BY <2>7, <2>10, QuantizeMonotone
  <2> QED BY <2>1, <2>11, <2>12 DEF Confidence, n, m
<1> QED BY <1>1, ScoringInvariant, PTL

(* The key of a run names a head and the reports on it.                    *)
LEMMA KeyTyped ==
  ASSUME NEW key \in RunKey
  PROVE  key.head \in SUBSET File /\ IsFiniteSet(key.head) /\ key.reports \in Reports
PROOF
<1>1. key.head \in Snapshots /\ key.reports \in Reports
  BY DEF RunKey
<1>2. key.head \subseteq File /\ IsFiniteSet(key.head)
  BY <1>1, FilesAssumption
<1> QED BY <1>1, <1>2

(* Under the default policy, of two scores of one head the one whose check *)
(* runs all did as well or better is no lower, unless an isolated tool     *)
(* gave its 100 points.                                                    *)
THEOREM BetterChecksScoreNoLess == ScoringSpec => []ChecksMoveScore
PROOF
<1>1. ASSUME ScoringInv PROVE ChecksMoveScore
  <2> SUFFICES ASSUME NEW j \in ScoredRuns, NEW k \in ScoredRuns,
                      j.head = k.head, j.policy = DefaultScoring, k.policy = DefaultScoring,
                      \A c \in CheckRuns : AsGood(j.reports[c], k.reports[c]),
                      \A t \in Tools : /\ runs[j].results[t] = runs[k].results[t]
                                       /\ runs[k].results[t].score # 10000
               PROVE  FinalOf(j) <= FinalOf(k)
    BY DEF ChecksMoveScore
  <2> DEFINE policy == PolicyOf[DefaultScoring]
             old == runs[j].results  new == runs[k].results
  <2>1. /\ DefaultScoring \in ScoringPolicies /\ ValidPolicy(policy)
        /\ policy.weights = DefaultWeights
    BY ScoringAssumption
  <2>2. /\ old \in [Suite -> Result] /\ new \in [Suite -> Result]
        /\ FinalOf(j) = FinalScore(policy, CategoryMeans(policy, old))
        /\ FinalOf(k) = FinalScore(policy, CategoryMeans(policy, new))
    BY <1>1, ScoredBy
  <2>3. j \in RunKey /\ k \in RunKey /\ Computed(j, runs[j]) /\ Computed(k, runs[k])
    BY <1>1 DEF ScoredRuns, ScoringInv, ScoringTypeOK, RunsAggregate
  <2>4. PICK before \in [Tools -> ToolStatus] :
          old = [a \in Suite |-> Analyse(a, k.head, j.reports, before)]
    BY <2>3 DEF Computed
  <2>5. PICK after \in [Tools -> ToolStatus] :
          new = [a \in Suite |-> Analyse(a, k.head, k.reports, after)]
    BY <2>3 DEF Computed
  <2>6. /\ k.head \in SUBSET File /\ IsFiniteSet(k.head)
        /\ j.reports \in Reports /\ k.reports \in Reports
    BY <2>3, KeyTyped
  <2>7. \A t \in Tools : /\ IsolatedTool(before[t]) = IsolatedTool(after[t])
                         /\ IsolatedTool(after[t]).score # 10000
    <3>1. \A t \in Tools : old[t] = IsolatedTool(before[t]) /\ new[t] = IsolatedTool(after[t])
      <4> SUFFICES ASSUME NEW t \in Tools
                   PROVE  old[t] = IsolatedTool(before[t]) /\ new[t] = IsolatedTool(after[t])
        OBVIOUS
      <4>1. t \in Suite /\ t \notin CheckAnalyzers /\ t \notin FileAnalyzers
        BY ToolsAssumption DEF Suite
      <4>2. \A reports, tools : Analyse(t, k.head, reports, tools) = IsolatedTool(tools[t])
        BY <4>1 DEF Analyse, FileAnalyzers
      <4> HIDE DEF old, new
      <4> QED BY <2>4, <2>5, <4>1, <4>2
    <3> QED BY <3>1
  <2>8. ResultsAsWell(old, new)
    <3> HIDE DEF old, new
    <3>1. ResultsAsWell([a \in Suite |-> Analyse(a, k.head, j.reports, before)],
                        [a \in Suite |-> Analyse(a, k.head, k.reports, after)])
      BY <2>6, <2>7, BetterChecks
    <3> QED BY <2>4, <2>5, <3>1
  <2> QED BY <2>1, <2>2, <2>8, FinalAsWell
<1> QED BY <1>1, ScoringInvariant, PTL
=============================================================================

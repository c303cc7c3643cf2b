---------------------------- MODULE Inductions ----------------------------
(***************************************************************************)
(* Induction over numbers and over the subsets of a finite set, and what   *)
(* follows for sums.  An induction is an argument about a set G of the     *)
(* cases that hold: a least case outside it contradicts the step.          *)
(***************************************************************************)
EXTENDS Integers, FiniteSets, FiniteSetsExt, FiniteSetTheorems, WellFoundedInduction, TLAPS

\* Induction over the naturals, the least counterexample taken by WFMin.
LEMMA NatRises ==
    ASSUME NEW G, 0 \in G, \A n \in Nat : n \in G => n + 1 \in G
    PROVE  Nat \subseteq G
  <1> SUFFICES ASSUME Nat \ G # {} PROVE FALSE
    OBVIOUS
  <1> DEFINE T == Nat \ G
  <1>1. \E x \in T : \A y \in T : ~(<<y, x>> \in OpToRel(<, Nat))
    <2>1. T \subseteq Nat /\ T # {}
      OBVIOUS
    <2> HIDE DEF T
    <2> QED BY <2>1, WFMin, NatLessThanWellFounded, Zenon
  <1>2. PICK x \in T : \A y \in T : ~(<<y, x>> \in OpToRel(<, Nat))
    BY <1>1, Zenon
  <1>3. \A y \in T : ~(y < x)
    BY <1>2, Zenon DEF OpToRel
  <1>4. x \in Nat /\ x # 0 /\ x - 1 \in Nat /\ x - 1 + 1 = x /\ x - 1 < x
    OBVIOUS
  <1>5. x - 1 \in G
    BY <1>3, <1>4
  <1> QED BY <1>4, <1>5

\* The element a fold takes next.
Pick(s) == CHOOSE x \in s : TRUE

\* What is picked is an element.
LEMMA PickIn == ASSUME NEW s, s # {} PROVE Pick(s) \in s
  BY DEF Pick

\* Induction over the subsets of a finite set, in the order in which a fold takes their elements out.
LEMMA SubsetsRise ==
    ASSUME NEW S, IsFiniteSet(S), NEW G, {} \in G,
           \A s \in SUBSET S : s # {} /\ s \ {Pick(s)} \in G => s \in G
    PROVE  SUBSET S \subseteq G
  <1> DEFINE K == {n \in Nat : \A s \in SUBSET S : Cardinality(s) = n => s \in G}
  <1>1. 0 \in K
    <2>1. ASSUME NEW s \in SUBSET S, Cardinality(s) = 0 PROVE s = {}
      BY <2>1, FS_Subset, FS_EmptySet
    <2> QED BY <2>1
  <1>2. ASSUME NEW n \in Nat, n \in K PROVE n + 1 \in K
    <2>1. ASSUME NEW s \in SUBSET S, Cardinality(s) = n + 1 PROVE s \in G
      <3>1. IsFiniteSet(s)
        BY FS_Subset
      <3>2. s # {}
        <4>1. Cardinality({}) = 0
          BY FS_EmptySet
        <4> QED BY <2>1, <4>1
      <3>3. Pick(s) \in s
        BY <3>2, PickIn
      <3>4. Cardinality(s \ {Pick(s)}) = n
        <4>1. Cardinality(s \ {Pick(s)}) = Cardinality(s) - 1
          BY <3>1, <3>3, FS_RemoveElement
        <4> QED BY <2>1, <4>1
      <3>5. s \ {Pick(s)} \in G
        BY <1>2, <3>4
      <3> QED BY <3>2, <3>5
    <2> QED BY <2>1
  <1>3. Nat \subseteq K
    <2> HIDE DEF K
    <2> QED BY <1>1, <1>2, NatRises
  <1> QED BY <1>3, FS_Subset, FS_CardinalityType

\* One turn of the fold, and the function the fold of f over S looks its value up in.
SumTurn(f, g, s) == IF s = {} THEN 0 ELSE g[s \ {Pick(s)}] + f[Pick(s)]
SumFold(f, S) == CHOOSE g : g = [s \in SUBSET S |-> SumTurn(f, g, s)]

\* Such a function exists for the subsets of every size, hence for all.
LEMMA SumFoldIs ==
    ASSUME NEW S, IsFiniteSet(S), NEW f
    PROVE  SumFold(f, S) = [s \in SUBSET S |-> SumTurn(f, SumFold(f, S), s)]
  <1> DEFINE Small(n) == {s \in SUBSET S : Cardinality(s) <= n}
             Is(g, n) == g = [s \in Small(n) |-> SumTurn(f, g, s)]
             K == {n \in Nat : \E g : Is(g, n)}
  <1>0. \A s \in SUBSET S : IsFiniteSet(s) /\ Cardinality(s) \in Nat
    BY FS_Subset, FS_CardinalityType
  <1>1. 0 \in K
    <2> DEFINE g == [s \in Small(0) |-> 0]
    <2>1. ASSUME NEW s \in Small(0) PROVE s = {}
      BY <1>0, FS_EmptySet
    <2>2. \A s \in Small(0) : SumTurn(f, g, s) = 0
      BY <2>1 DEF SumTurn
    <2>3. Is(g, 0)
      BY <2>2
    <2> QED BY <2>3
  <1>2. ASSUME NEW n \in Nat, n \in K PROVE n + 1 \in K
    <2>1. PICK g : Is(g, n)
      BY <1>2
    <2> DEFINE h == [s \in Small(n + 1) |-> SumTurn(f, g, s)]
    <2>2. ASSUME NEW s \in Small(n + 1) PROVE SumTurn(f, h, s) = SumTurn(f, g, s)
      <3>1. CASE s = {}
        BY <3>1 DEF SumTurn
      <3>2. CASE s # {}
        <4>1. Pick(s) \in s
          BY <3>2, PickIn
        <4>2. Cardinality(s \ {Pick(s)}) = Cardinality(s) - 1
          BY <1>0, <4>1, FS_RemoveElement
        <4>3. s \ {Pick(s)} \in Small(n) /\ s \ {Pick(s)} \in Small(n + 1)
          BY <1>0, <4>2
        <4>4. g[s \ {Pick(s)}] = SumTurn(f, g, s \ {Pick(s)})
          BY <2>1, <4>3
        <4>5. h[s \ {Pick(s)}] = SumTurn(f, g, s \ {Pick(s)})
          BY <4>3
        <4> QED BY <4>4, <4>5 DEF SumTurn
      <3> QED BY <3>1, <3>2
    <2>3. Is(h, n + 1)
      BY <2>2
    <2>4. \E k : Is(k, n + 1)
      <3> HIDE DEF Is, h
      <3> QED BY <2>3
    <2> HIDE DEF Is
    <2> QED BY <2>4
  <1>3. Nat \subseteq K
    <2> HIDE DEF K
    <2> QED BY <1>1, <1>2, NatRises
  <1>4. PICK g : Is(g, Cardinality(S))
    BY <1>0, <1>3
  <1>5. Small(Cardinality(S)) = SUBSET S
    BY FS_Subset
  <1>6. \E h : h = [s \in SUBSET S |-> SumTurn(f, h, s)]
    BY <1>4, <1>5
  <1> QED BY <1>6, Zenon DEF SumFold

\* The recursion of a sum, one element at a time.
LEMMA SumFoldAt ==
    ASSUME NEW S, IsFiniteSet(S), NEW f, NEW s \in SUBSET S
    PROVE  SumFold(f, S)[s] = SumTurn(f, SumFold(f, S), s)
  <1> DEFINE g == SumFold(f, S)
  <1>1. g = [r \in SUBSET S |-> SumTurn(f, g, r)]
    BY SumFoldIs, Zenon
  <1> HIDE DEF g
  <1>2. g[s] = SumTurn(f, g, s)
    BY <1>1
  <1> QED BY <1>2 DEF g

\* Sums of integers are integers.
LEMMA SumIsInt ==
    ASSUME NEW S, IsFiniteSet(S), NEW f \in [S -> Int]
    PROVE  \A s \in SUBSET S : SumFold(f, S)[s] \in Int
  <1> DEFINE g == SumFold(f, S)
             G == {s \in SUBSET S : g[s] \in Int}
  <1>1. \A s \in SUBSET S : g[s] = SumTurn(f, g, s)
    BY SumFoldAt
  <1> HIDE DEF g
  <1>2. {} \in G
    <2>1. {} \in SUBSET S
      OBVIOUS
    <2>2. g[{}] = 0
      BY <1>1, <2>1 DEF SumTurn
    <2> QED BY <2>1, <2>2
  <1>3. ASSUME NEW s \in SUBSET S, s # {}, s \ {Pick(s)} \in G PROVE s \in G
    <2>1. Pick(s) \in S
      BY <1>3, PickIn
    <2>2. g[s] = g[s \ {Pick(s)}] + f[Pick(s)]
      BY <1>1, <1>3 DEF SumTurn
    <2>3. g[s \ {Pick(s)}] \in Int /\ f[Pick(s)] \in Int
      BY <1>3, <2>1
    <2> QED BY <2>2, <2>3
  <1>4. SUBSET S \subseteq G
    <2> HIDE DEF G
    <2> QED BY <1>2, <1>3, SubsetsRise
  <1> QED BY <1>4 DEF g

\* A change of one term changes the sum by as much.
LEMMA SumChanges ==
    ASSUME NEW S, IsFiniteSet(S), NEW f \in [S -> Int], NEW h \in [S -> Int], NEW c \in S,
           \A x \in S \ {c} : h[x] = f[x]
    PROVE  SumFold(h, S)[S] = SumFold(f, S)[S] + (h[c] - f[c])
  <1> DEFINE F == SumFold(f, S)
             H == SumFold(h, S)
             G == {s \in SUBSET S : H[s] = F[s] + (IF c \in s THEN h[c] - f[c] ELSE 0)}
  <1>1. \A s \in SUBSET S : F[s] = SumTurn(f, F, s) /\ H[s] = SumTurn(h, H, s) /\ F[s] \in Int /\ H[s] \in Int
    BY SumFoldAt, SumIsInt
  <1> HIDE DEF F, H
  <1>2. {} \in G
    <2>1. {} \in SUBSET S
      OBVIOUS
    <2> QED BY <1>1, <2>1 DEF SumTurn
  <1>3. ASSUME NEW s \in SUBSET S, s # {}, s \ {Pick(s)} \in G PROVE s \in G
    <2>1. Pick(s) \in s /\ Pick(s) \in S
      BY <1>3, PickIn
    <2>2. /\ F[s] = F[s \ {Pick(s)}] + f[Pick(s)] /\ H[s] = H[s \ {Pick(s)}] + h[Pick(s)]
          /\ F[s \ {Pick(s)}] \in Int
      BY <1>1, <1>3 DEF SumTurn
    <2>3. CASE Pick(s) = c
      BY <1>3, <2>1, <2>2, <2>3
    <2>4. CASE Pick(s) # c
      <3>1. h[Pick(s)] = f[Pick(s)] /\ f[Pick(s)] \in Int /\ (c \in s <=> c \in s \ {Pick(s)})
        BY <2>1, <2>4
      <3> QED BY <1>3, <2>2, <3>1
    <2> QED BY <2>3, <2>4
  <1>4. SUBSET S \subseteq G
    <2> HIDE DEF G
    <2> QED BY <1>2, <1>3, SubsetsRise
  <1>5. S \in G
    BY <1>4
  <1> QED BY <1>5 DEF F, H

\* A sum of zeros is zero.
LEMMA SumOfZeros ==
    ASSUME NEW S, IsFiniteSet(S), NEW f \in [S -> Int], \A x \in S : f[x] = 0
    PROVE  SumFold(f, S)[S] = 0
  <1> DEFINE F == SumFold(f, S)
             G == {s \in SUBSET S : F[s] = 0}
  <1>1. \A s \in SUBSET S : F[s] = SumTurn(f, F, s)
    BY SumFoldAt
  <1> HIDE DEF F
  <1>2. {} \in G
    <2>1. {} \in SUBSET S
      OBVIOUS
    <2> QED BY <1>1, <2>1 DEF SumTurn
  <1>3. ASSUME NEW s \in SUBSET S, s # {}, s \ {Pick(s)} \in G PROVE s \in G
    <2>1. Pick(s) \in S
      BY <1>3, PickIn
    <2> QED BY <1>1, <1>3, <2>1 DEF SumTurn
  <1>4. SUBSET S \subseteq G
    <2> HIDE DEF G
    <2> QED BY <1>2, <1>3, SubsetsRise
  <1> QED BY <1>4 DEF F

\* Any term may be taken out of a sum ...
LEMMA SumTakesOut ==
    ASSUME NEW S, IsFiniteSet(S), NEW f \in [S -> Int], NEW s \in SUBSET S, NEW p \in s
    PROVE  SumFold(f, S)[s] = SumFold(f, S)[s \ {p}] + f[p]
  <1> DEFINE F == SumFold(f, S)
             K == {n \in Nat : \A t \in SUBSET S : Cardinality(t) = n => \A x \in t : F[t] = F[t \ {x}] + f[x]}
  <1>1. \A t \in SUBSET S : F[t] = SumTurn(f, F, t) /\ F[t] \in Int
    BY SumFoldAt, SumIsInt
  <1> HIDE DEF F
  <1>2. 0 \in K
    <2>1. ASSUME NEW t \in SUBSET S, Cardinality(t) = 0 PROVE t = {}
      BY <2>1, FS_Subset, FS_EmptySet
    <2> QED BY <2>1
  <1>3. ASSUME NEW n \in Nat, n \in K PROVE n + 1 \in K
    <2> SUFFICES ASSUME NEW t \in SUBSET S, Cardinality(t) = n + 1, NEW x \in t
                 PROVE  F[t] = F[t \ {x}] + f[x]
      OBVIOUS
    <2> DEFINE q == Pick(t)
    <2>1. q \in t /\ F[t] = F[t \ {q}] + f[q]
      BY <1>1, PickIn DEF SumTurn
    <2> HIDE DEF q
    <2>2. CASE q = x
      BY <2>1, <2>2
    <2>3. CASE q # x
      <3>1. Cardinality(t \ {x}) = n /\ Cardinality(t \ {q}) = n
        <4>1. IsFiniteSet(t)
          BY FS_Subset
        <4>2. Cardinality(t \ {x}) = Cardinality(t) - 1 /\ Cardinality(t \ {q}) = Cardinality(t) - 1
          BY <2>1, <4>1, FS_RemoveElement
        <4> QED BY <4>2
      <3>2. t \ {x} \in SUBSET S /\ t \ {q} \in SUBSET S /\ q \in t \ {x} /\ x \in t \ {q}
        BY <2>1, <2>3
      <3>3. F[t \ {x}] = F[(t \ {x}) \ {q}] + f[q] /\ F[t \ {q}] = F[(t \ {q}) \ {x}] + f[x]
        BY <1>3, <3>1, <3>2
      <3>4. (t \ {q}) \ {x} = (t \ {x}) \ {q}
        OBVIOUS
      <3>5. F[(t \ {x}) \ {q}] \in Int /\ f[x] \in Int /\ f[q] \in Int
        BY <1>1, <2>1
      <3>6. F[t \ {q}] = F[(t \ {x}) \ {q}] + f[x]
        BY Zenon, <3>3, <3>4
      <3> DEFINE rest == F[(t \ {x}) \ {q}]
      <3>7. F[t] = F[t \ {q}] + f[q] /\ F[t \ {q}] = rest + f[x] /\ F[t \ {x}] = rest + f[q] /\ rest \in Int
        BY <2>1, <3>3, <3>5, <3>6
      <3> HIDE DEF rest
      <3> QED BY <3>5, <3>7
    <2> QED BY <2>2, <2>3
  <1>4. Nat \subseteq K
    <2> HIDE DEF K
    <2> QED BY <1>2, <1>3, NatRises
  <1> QED BY <1>4, FS_Subset, FS_CardinalityType DEF F

\* ... and the sum over a part does not depend on the whole.
LEMMA SumOfPart ==
    ASSUME NEW S, IsFiniteSet(S), NEW f, NEW r \in SUBSET S
    PROVE  SumFold(f, r)[r] = SumFold(f, S)[r]
  <1> DEFINE F == SumFold(f, S)
             R == SumFold(f, r)
             G == {s \in SUBSET r : R[s] = F[s]}
  <1>1. (\A s \in SUBSET S : F[s] = SumTurn(f, F, s)) /\ \A s \in SUBSET r : R[s] = SumTurn(f, R, s)
    BY SumFoldAt, FS_Subset
  <1> HIDE DEF F, R
  <1>2. {} \in G
    BY <1>1 DEF SumTurn
  <1>3. ASSUME NEW s \in SUBSET r, s # {}, s \ {Pick(s)} \in G PROVE s \in G
    BY <1>1, <1>3 DEF SumTurn
  <1>4. SUBSET r \subseteq G
    <2>1. IsFiniteSet(r)
      BY FS_Subset
    <2> HIDE DEF G
    <2> QED BY <1>2, <1>3, <2>1, SubsetsRise
  <1>5. r \in G
    BY <1>4
  <1> QED BY <1>5 DEF F, R

\* Sums of naturals are naturals.
LEMMA SumIsNat ==
    ASSUME NEW S, IsFiniteSet(S), NEW f \in [S -> Nat]
    PROVE  \A s \in SUBSET S : SumFold(f, S)[s] \in Nat
  <1> DEFINE g == SumFold(f, S)
             G == {s \in SUBSET S : g[s] \in Nat}
  <1>1. \A s \in SUBSET S : g[s] = SumTurn(f, g, s)
    BY SumFoldAt
  <1> HIDE DEF g
  <1>2. {} \in G
    <2>1. {} \in SUBSET S
      OBVIOUS
    <2>2. g[{}] = 0
      BY <1>1, <2>1 DEF SumTurn
    <2> QED BY <2>1, <2>2
  <1>3. ASSUME NEW s \in SUBSET S, s # {}, s \ {Pick(s)} \in G PROVE s \in G
    <2>1. Pick(s) \in S
      BY <1>3, PickIn
    <2>2. g[s] = g[s \ {Pick(s)}] + f[Pick(s)]
      BY <1>1, <1>3 DEF SumTurn
    <2>3. g[s \ {Pick(s)}] \in Nat /\ f[Pick(s)] \in Nat
      BY <1>3, <2>1
    <2> QED BY <2>2, <2>3
  <1>4. SUBSET S \subseteq G
    <2> HIDE DEF G
    <2> QED BY <1>2, <1>3, SubsetsRise
  <1> QED BY <1>4 DEF g

\* The sum of the sums.
LEMMA SumAdds ==
    ASSUME NEW S, IsFiniteSet(S), NEW e \in [S -> Int], NEW f \in [S -> Int], NEW h \in [S -> Int],
           \A x \in S : e[x] = f[x] + h[x]
    PROVE  SumFold(e, S)[S] = SumFold(f, S)[S] + SumFold(h, S)[S]
  <1> DEFINE E == SumFold(e, S)
             F == SumFold(f, S)
             H == SumFold(h, S)
             G == {s \in SUBSET S : E[s] = F[s] + H[s]}
  <1>1. /\ \A s \in SUBSET S : E[s] = SumTurn(e, E, s) /\ F[s] = SumTurn(f, F, s) /\ H[s] = SumTurn(h, H, s)
        /\ \A s \in SUBSET S : E[s] \in Int /\ F[s] \in Int /\ H[s] \in Int
    BY SumFoldAt, SumIsInt
  <1> HIDE DEF E, F, H
  <1>2. {} \in G
    <2>1. {} \in SUBSET S
      OBVIOUS
    <2>2. E[{}] = 0 /\ F[{}] = 0 /\ H[{}] = 0
      BY <1>1, <2>1 DEF SumTurn
    <2> QED BY <2>1, <2>2
  <1>3. ASSUME NEW s \in SUBSET S, s # {}, s \ {Pick(s)} \in G PROVE s \in G
    <2> DEFINE r == s \ {Pick(s)}
               x == Pick(s)
    <2>1. x \in S /\ r \in SUBSET S
      BY <1>3, PickIn
    <2>2. E[s] = E[r] + e[x] /\ F[s] = F[r] + f[x] /\ H[s] = H[r] + h[x]
      BY <1>1, <1>3 DEF SumTurn
    <2>3. E[r] = F[r] + H[r]
      BY <1>3
    <2> HIDE DEF r, x
    <2>4. F[r] \in Int /\ H[r] \in Int /\ e[x] = f[x] + h[x] /\ f[x] \in Int /\ h[x] \in Int
      BY <1>1, <2>1
    <2>5. E[s] = F[s] + H[s]
      BY <2>2, <2>3, <2>4
    <2> QED BY <2>5
  <1>4. SUBSET S \subseteq G
    <2> HIDE DEF G
    <2> QED BY <1>2, <1>3, SubsetsRise
  <1>5. S \in G
    BY <1>4
  <1> QED BY <1>5 DEF E, F, H

\* The sum over two parts that share nothing.
LEMMA SumOfBoth ==
    ASSUME NEW S, IsFiniteSet(S), NEW f \in [S -> Int], NEW a \in SUBSET S, NEW b \in SUBSET S, a \cap b = {}
    PROVE  SumFold(f, S)[a \cup b] = SumFold(f, S)[a] + SumFold(f, S)[b]
  <1> DEFINE F == SumFold(f, S)
             G == {s \in SUBSET b : F[a \cup s] = F[a] + F[s]}
  <1>1. \A s \in SUBSET S : F[s] = SumTurn(f, F, s) /\ F[s] \in Int /\ \A x \in s : F[s] = F[s \ {x}] + f[x]
    BY SumFoldAt, SumIsInt, SumTakesOut
  <1> HIDE DEF F
  <1>2. {} \in G
    <2>1. F[{}] = 0 /\ F[a] \in Int /\ a \cup {} = a
      BY <1>1 DEF SumTurn
    <2> QED BY <2>1
  <1>3. ASSUME NEW s \in SUBSET b, s # {}, s \ {Pick(s)} \in G PROVE s \in G
    <2> DEFINE x == Pick(s)
               r == s \ {x}
    <2>1. x \in s /\ x \in S /\ x \notin a /\ s \in SUBSET S /\ r \in SUBSET S /\ a \cup s \in SUBSET S /\ a \cup r \in SUBSET S
      BY <1>3, PickIn
    <2>2. (a \cup s) \ {x} = a \cup r
      BY <2>1
    <2>3. F[a \cup r] = F[a] + F[r]
      BY <1>3
    <2> HIDE DEF x
    <2>4. F[s] = F[r] + f[x] /\ F[a \cup s] = F[(a \cup s) \ {x}] + f[x]
      BY <1>1, <2>1
    <2>5. F[a \cup s] = F[a \cup r] + f[x]
      BY <2>2, <2>4, Zenon
    <2> HIDE DEF r
    <2>6. F[a] \in Int /\ F[r] \in Int /\ f[x] \in Int
      BY <1>1, <2>1
    <2>7. F[a \cup s] = F[a] + F[s]
      BY <2>3, <2>4, <2>5, <2>6
    <2> QED BY <2>7
  <1>4. SUBSET b \subseteq G
    <2>1. IsFiniteSet(b)
      BY FS_Subset
    <2> HIDE DEF G
    <2> QED BY <1>2, <1>3, <2>1, SubsetsRise
  <1>5. b \in G
    BY <1>4
  <1> QED BY <1>5 DEF F

\* The largest of some numbers.
LEMMA MaxIs ==
    ASSUME NEW n \in Nat, NEW s \in SUBSET (1..n), s # {}
    PROVE  Max(s) \in s /\ \A y \in s : Max(s) >= y
  <1> DEFINE G == {m \in Nat : \A r \in SUBSET (1..m) : r # {} => \E x \in r : \A y \in r : x >= y}
  <1>1. 0 \in G
    <2>1. 1..0 = {}
      OBVIOUS
    <2> QED BY <2>1
  <1>2. ASSUME NEW m \in Nat, m \in G PROVE m + 1 \in G
    <2>1. ASSUME NEW r \in SUBSET (1..(m + 1)), r # {} PROVE \E x \in r : \A y \in r : x >= y
      <3>1. CASE m + 1 \in r
        BY <3>1
      <3>2. CASE m + 1 \notin r
        <4>1. r \in SUBSET (1..m)
          BY <3>2
        <4> QED BY <1>2, <2>1, <4>1
      <3> QED BY <3>1, <3>2
    <2> QED BY <2>1
  <1>3. Nat \subseteq G
    <2> HIDE DEF G
    <2> QED BY <1>1, <1>2, NatRises
  <1>4. \E x \in s : \A y \in s : x >= y
    BY <1>3
  <1> QED BY <1>4, Zenon DEF Max

\* The smallest of some numbers.
LEMMA MinIs ==
    ASSUME NEW n \in Nat, NEW s \in SUBSET (1..n), s # {}
    PROVE  Min(s) \in s /\ \A y \in s : Min(s) <= y
  <1>1. \E x \in s : \A y \in s : x <= y
    <2>1. s \subseteq Nat
      OBVIOUS
    <2>2. PICK x \in s : \A y \in s : ~(<<y, x>> \in OpToRel(<, Nat))
      BY <2>1, WFMin, NatLessThanWellFounded, Zenon
    <2>3. \A y \in s : ~(y < x)
      BY <2>1, <2>2, Zenon DEF OpToRel
    <2>4. \A y \in s : x <= y
      BY <2>1, <2>3
    <2> QED BY <2>4
  <1> QED BY <1>1, Zenon DEF Min
=============================================================================

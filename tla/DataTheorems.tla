---------------------------- MODULE DataTheorems ----------------------------
(***************************************************************************)
(* Facts about the data the models compute with, for data of every size.   *)
(* Induction is used in the form of a set that has to contain everything.  *)
(***************************************************************************)
EXTENDS Integers, Sequences, SequencesExt, FiniteSetTheorems, WellFoundedInduction, TLAPS

NatLess == {ss \in Nat \X Nat : ss[1] < ss[2]}

LEMMA NatLessWellFounded == IsWellFoundedOn(NatLess, Nat)
  BY NatLessThanWellFounded, Zenon DEF OpToRel, NatLess

(* Some member of a nonempty set of naturals is the smallest.              *)
LEMMA SmallestMember ==
  ASSUME NEW S \in SUBSET Nat, S # {}
  PROVE  \E m \in S : \A k \in S : m <= k
<1>1. PICK m \in S : \A k \in S : ~ (<<k, m>> \in NatLess)
  BY WFMin, NatLessWellFounded, Zenon
<1>2. ASSUME NEW k \in S PROVE m <= k
  <2>1. k \in Nat /\ m \in Nat /\ ~ (<<k, m>> \in NatLess)
    BY <1>1
  <2> QED BY <2>1, SMT DEF NatLess
<1> QED BY <1>2, Zenon

(* A set of naturals below some number has a greatest member.              *)
LEMMA GreatestMember ==
  ASSUME NEW n \in Nat, NEW S \in SUBSET (0 .. n), S # {}
  PROVE  Max(S) \in S /\ \A k \in S : k <= Max(S)
<1> DEFINE T == {n - k : k \in S}
<1>1. T \in SUBSET Nat /\ T # {}
  <2>1. \A k \in S : n - k \in Nat
    OBVIOUS
  <2>2. PICK x : x \in S
    OBVIOUS
  <2>3. n - x \in T
    BY <2>2
  <2> QED BY <2>1, <2>3
<1>2. PICK m \in T : \A k \in T : m <= k
  <2> HIDE DEF T
  <2> QED BY <1>1, SmallestMember
<1>3. PICK x \in S : m = n - x
  BY <1>2
<1>4. \A y \in S : x >= y
  <2> SUFFICES ASSUME NEW y \in S PROVE x >= y
    OBVIOUS
  <2>1. m <= n - y
    BY <1>2
  <2> QED BY <1>3, <2>1
<1> QED BY <1>3, <1>4 DEF Max

(* A set of naturals that contains 0 and every successor contains them all.*)
LEMMA NatSetInduction ==
  ASSUME NEW S \in SUBSET Nat, 0 \in S, \A n \in S : n + 1 \in S
  PROVE  S = Nat
<1> SUFFICES ASSUME Nat \ S # {} PROVE FALSE
  OBVIOUS
<1>1. PICK m \in Nat \ S : \A k \in Nat \ S : m <= k
  BY SmallestMember, Zenon
<1>2. m # 0 /\ m - 1 \in Nat
  BY SMT
<1>3. m - 1 \in S
  BY <1>1, <1>2, SMT
<1> QED BY <1>3, SMT

(* A set of subsets of a finite set that contains every subset all of      *)
(* whose proper subsets it contains, contains them all.                    *)
LEMMA SubsetInduction ==
  ASSUME NEW S, IsFiniteSet(S), NEW P \in SUBSET SUBSET S,
         \A T \in SUBSET S : (\A U \in SUBSET T : U # T => U \in P) => T \in P
  PROVE  P = SUBSET S
<1> SUFFICES ASSUME (SUBSET S) \ P # {} PROVE FALSE
  OBVIOUS
<1>1. (SUBSET S) \ P \subseteq FiniteSubsetsOf(S)
  BY FS_FiniteSubsetsOfFinite
<1>2. PICK T \in (SUBSET S) \ P :
        \A U \in (SUBSET S) \ P : ~ (<<U, T>> \in StrictSubsetOrdering(S))
  <2>1. \A Q : Q \subseteq FiniteSubsetsOf(S) /\ Q # {} =>
          \E T \in Q : \A U \in Q : ~ (<<U, T>> \in StrictSubsetOrdering(S))
    <3> SUFFICES ASSUME NEW Q, Q \subseteq FiniteSubsetsOf(S), Q # {}
                 PROVE  \E T \in Q : \A U \in Q : ~ (<<U, T>> \in StrictSubsetOrdering(S))
      OBVIOUS
    <3>1. PICK R : R = StrictSubsetOrdering(S)
      OBVIOUS
    <3>2. PICK F : F = FiniteSubsetsOf(S)
      OBVIOUS
    <3>3. IsWellFoundedOn(R, F) /\ Q \subseteq F
      BY <3>1, <3>2, FS_StrictSubsetOrderingWellFounded
    <3>4. \E T \in Q : \A U \in Q : ~ (<<U, T>> \in R)
      BY <3>3, WFMin, SMTT(30)
    <3> QED BY <3>1, <3>4
  <2> QED BY <1>1, <2>1, ZenonT(60)
<1>3. ASSUME NEW U \in SUBSET T, U # T PROVE U \in P
  <2>1. U \in SUBSET S /\ U \subseteq T
    OBVIOUS
  <2>2. <<U, T>> \in StrictSubsetOrdering(S)
    BY <2>1, <1>3 DEF StrictSubsetOrdering
  <2> QED BY <2>1, <2>2, <1>2
<1> QED BY <1>3

-----------------------------------------------------------------------------
(* SumFunctionOnSet computes with a function that is defined recursively   *)
(* on the subsets of its domain.                                           *)
Chosen(s) == CHOOSE x \in s : TRUE

SumStep(f, g, D) ==
  [s \in D |-> IF s = {} THEN 0 ELSE f[Chosen(s)] + g[s \ {Chosen(s)}]]

IsPartialSum(f, g, S) == g = SumStep(f, g, SUBSET S)

UpTo(S, n) == {s \in SUBSET S : Cardinality(s) <= n}

(* Such a function exists.                                                 *)
LEMMA SumFunctionExists ==
  ASSUME NEW f, NEW S, IsFiniteSet(S)
  PROVE  \E g : g = SumStep(f, g, SUBSET S)
<1> DEFINE P == {n \in Nat : \E g : g = SumStep(f, g, UpTo(S, n))}
<1>0. \A s \in SUBSET S : IsFiniteSet(s) /\ Cardinality(s) \in Nat
  BY FS_Subset, FS_CardinalityType
<1>1. 0 \in P
  <2>1. \A s \in UpTo(S, 0) : s = {}
    BY <1>0, FS_EmptySet, SMT DEF UpTo
  <2>2. [s \in UpTo(S, 0) |-> 0] = SumStep(f, [s \in UpTo(S, 0) |-> 0], UpTo(S, 0))
    BY <2>1 DEF SumStep
  <2> QED BY <2>2
<1>2. ASSUME NEW n \in P PROVE n + 1 \in P
  <2>1. PICK g : g = SumStep(f, g, UpTo(S, n))
    OBVIOUS
  <2> DEFINE h == SumStep(f, g, UpTo(S, n + 1))
  <2>2. ASSUME NEW s \in UpTo(S, n + 1), s # {}
        PROVE  s \ {Chosen(s)} \in UpTo(S, n)
    <3>1. Chosen(s) \in s
      BY <2>2 DEF Chosen
    <3>2. IsFiniteSet(s) /\ Cardinality(s) \in Nat /\ Cardinality(s) <= n + 1 /\ s \in SUBSET S
      BY <1>0 DEF UpTo
    <3>3. Cardinality(s \ {Chosen(s)}) = Cardinality(s) - 1
      BY <3>1, <3>2, FS_RemoveElement
    <3> QED BY <3>2, <3>3 DEF UpTo
  <2>3. \A s \in UpTo(S, n) : s \in UpTo(S, n + 1) /\ h[s] = g[s]
    <3>1. UpTo(S, n) \subseteq UpTo(S, n + 1)
      BY <1>0, SMT DEF UpTo
    <3> QED BY <3>1, <2>1 DEF SumStep
  <2>4. h = SumStep(f, h, UpTo(S, n + 1))
    <3>1. ASSUME NEW s \in UpTo(S, n + 1), s # {}
          PROVE  h[s \ {Chosen(s)}] = g[s \ {Chosen(s)}]
      BY <2>2, <2>3, <3>1
    <3>2. \A s \in UpTo(S, n + 1) :
            h[s] = IF s = {} THEN 0 ELSE f[Chosen(s)] + g[s \ {Chosen(s)}]
      BY DEF SumStep
    <3>3. \A s \in UpTo(S, n + 1) :
            h[s] = IF s = {} THEN 0 ELSE f[Chosen(s)] + h[s \ {Chosen(s)}]
      BY <3>1, <3>2
    <3>4. h = [s \in UpTo(S, n + 1) |-> h[s]]
      BY DEF SumStep
    <3> HIDE DEF h
    <3> QED BY <3>3, <3>4 DEF SumStep
  <2> QED BY <2>4
<1>3. P = Nat
  <2> HIDE DEF P
  <2>1. P \in SUBSET Nat
    BY DEF P
  <2> QED BY <1>1, <1>2, <2>1, NatSetInduction
<1>4. UpTo(S, Cardinality(S)) = SUBSET S /\ Cardinality(S) \in Nat
  BY FS_Subset, FS_CardinalityType DEF UpTo
<1> QED BY <1>3, <1>4

(* The library's sum is a value of that function.                          *)
LEMMA SumIsRecursive ==
  ASSUME NEW f, NEW S, IsFiniteSet(S)
  PROVE  \E g : g = SumStep(f, g, SUBSET S) /\ SumFunctionOnSet(f, S) = g[S]
<1> DEFINE g == CHOOSE h : h = SumStep(f, h, SUBSET S)
<1>1. g = SumStep(f, g, SUBSET S)
  <2> HIDE DEF g
  <2>1. \E h : h = SumStep(f, h, SUBSET S)
    BY SumFunctionExists
  <2> QED BY <2>1, Zenon DEF g
<1>2. SumFunctionOnSet(f, S) = g[S]
  BY DEF SumFunctionOnSet, FoldFunctionOnSet, MapThenFoldSet, SumStep, Chosen
<1> QED BY <1>1, <1>2

(* There is only one such function, whatever the set it is restricted to.  *)
LEMMA SumFunctionUnique ==
  ASSUME NEW f, NEW S, IsFiniteSet(S), NEW T \in SUBSET S,
         NEW g, IsPartialSum(f, g, S), NEW h, IsPartialSum(f, h, T)
  PROVE  g[T] = h[T]
<1> DEFINE P == {s \in SUBSET T : g[s] = h[s]}
<1>1. IsFiniteSet(T)
  BY FS_Subset
<1>2. ASSUME NEW s \in SUBSET T, \A u \in SUBSET s : u # s => u \in P
      PROVE  s \in P
  <2>1. CASE s = {}
    BY <2>1 DEF IsPartialSum, SumStep
  <2>2. CASE s # {}
    <3>1. Chosen(s) \in s
      BY <2>2 DEF Chosen
    <3>2. s \ {Chosen(s)} \in P
      BY <3>1, <1>2
    <3>3. g[s] = f[Chosen(s)] + g[s \ {Chosen(s)}] /\ h[s] = f[Chosen(s)] + h[s \ {Chosen(s)}]
      BY <2>2 DEF IsPartialSum, SumStep
    <3> QED BY <3>2, <3>3
  <2> QED BY <2>1, <2>2
<1>3. P = SUBSET T
  <2>1. P \in SUBSET SUBSET T
    OBVIOUS
  <2> HIDE DEF P
  <2> QED BY <1>1, <1>2, <2>1, SubsetInduction
<1> QED BY <1>3

(* The equations of the sum over a finite set.                             *)
LEMMA SumEquations ==
  ASSUME NEW f, NEW S, IsFiniteSet(S)
  PROVE  /\ SumFunctionOnSet(f, {}) = 0
         /\ S # {} => /\ Chosen(S) \in S
                      /\ SumFunctionOnSet(f, S)
                           = f[Chosen(S)] + SumFunctionOnSet(f, S \ {Chosen(S)})
<1>1. IsFiniteSet({}) /\ IsFiniteSet(S \ {Chosen(S)})
  BY FS_EmptySet, FS_Subset
<1>2. PICK e : e = SumStep(f, e, SUBSET {}) /\ SumFunctionOnSet(f, {}) = e[{}]
  BY <1>1, SumIsRecursive
<1>3. SumFunctionOnSet(f, {}) = 0
  BY <1>2 DEF SumStep
<1>4. ASSUME S # {}
      PROVE  SumFunctionOnSet(f, S) = f[Chosen(S)] + SumFunctionOnSet(f, S \ {Chosen(S)})
  <2>1. PICK g : g = SumStep(f, g, SUBSET S) /\ SumFunctionOnSet(f, S) = g[S]
    BY SumIsRecursive
  <2>2. PICK h : /\ h = SumStep(f, h, SUBSET (S \ {Chosen(S)}))
                 /\ SumFunctionOnSet(f, S \ {Chosen(S)}) = h[S \ {Chosen(S)}]
    BY <1>1, SumIsRecursive
  <2>3. g[S \ {Chosen(S)}] = h[S \ {Chosen(S)}]
    <3>1. PICK T : T = S \ {Chosen(S)}
      OBVIOUS
    <3>2. T \in SUBSET S /\ IsPartialSum(f, h, T) /\ IsPartialSum(f, g, S)
      BY <2>1, <2>2, <3>1 DEF IsPartialSum
    <3>3. g[T] = h[T]
      BY <3>2, SumFunctionUnique, ZenonT(60)
    <3> QED BY <3>1, <3>3
  <2>4. g[S] = f[Chosen(S)] + g[S \ {Chosen(S)}]
    BY <2>1, <1>4 DEF SumStep
  <2> QED BY <2>1, <2>2, <2>3, <2>4
<1> QED BY <1>3, <1>4 DEF Chosen

-----------------------------------------------------------------------------
(* A sum of naturals is a natural.                                         *)
LEMMA SumType ==
  ASSUME NEW f, NEW S, IsFiniteSet(S), \A x \in S : f[x] \in Nat
  PROVE  SumFunctionOnSet(f, S) \in Nat
<1> DEFINE P == {s \in SUBSET S : SumFunctionOnSet(f, s) \in Nat}
<1>1. ASSUME NEW s \in SUBSET S, \A u \in SUBSET s : u # s => u \in P
      PROVE  s \in P
  <2>1. IsFiniteSet(s)
    BY FS_Subset
  <2>2. CASE s = {}
    <3>1. SumFunctionOnSet(f, {}) = 0
      BY <2>1, SumEquations
    <3> QED BY <2>2, <3>1
  <2>3. CASE s # {}
    <3>1. /\ Chosen(s) \in s
          /\ SumFunctionOnSet(f, s) = f[Chosen(s)] + SumFunctionOnSet(f, s \ {Chosen(s)})
      BY <2>1, <2>3, SumEquations
    <3>2. s \ {Chosen(s)} \in P
      BY <3>1, <1>1
    <3> QED BY <3>1, <3>2
  <2> QED BY <2>2, <2>3
<1>2. P \in SUBSET SUBSET S
  OBVIOUS
<1> HIDE DEF P
<1>3. P = SUBSET S
  BY <1>1, <1>2, SubsetInduction
<1> QED BY <1>3 DEF P

(* Any term may be taken out of a sum, not only the one chosen.            *)
LEMMA SumRemove ==
  ASSUME NEW f, NEW S, IsFiniteSet(S), \A x \in S : f[x] \in Nat, NEW x \in S
  PROVE  SumFunctionOnSet(f, S) = f[x] + SumFunctionOnSet(f, S \ {x})
<1> DEFINE P == {s \in SUBSET S : \A y \in s :
                   SumFunctionOnSet(f, s) = f[y] + SumFunctionOnSet(f, s \ {y})}
<1>1. ASSUME NEW s \in SUBSET S, \A u \in SUBSET s : u # s => u \in P, NEW y \in s
      PROVE  SumFunctionOnSet(f, s) = f[y] + SumFunctionOnSet(f, s \ {y})
  <2>1. IsFiniteSet(s)
    BY FS_Subset
  <2> DEFINE c == Chosen(s)
  <2>2. c \in s /\ SumFunctionOnSet(f, s) = f[c] + SumFunctionOnSet(f, s \ {c})
    BY <2>1, SumEquations
  <2> HIDE DEF c
  <2>3. CASE y = c
    BY <2>2, <2>3
  <2>4. CASE y # c
    <3>1. /\ s \ {c} \in P /\ s \ {y} \in P /\ y \in s \ {c} /\ c \in s \ {y}
      BY <1>1, <2>2, <2>4
    <3>2. /\ SumFunctionOnSet(f, s \ {c}) = f[y] + SumFunctionOnSet(f, (s \ {c}) \ {y})
          /\ SumFunctionOnSet(f, s \ {y}) = f[c] + SumFunctionOnSet(f, (s \ {y}) \ {c})
      BY <3>1
    <3>3. (s \ {c}) \ {y} = (s \ {y}) \ {c}
      OBVIOUS
    <3>4. f[y] \in Nat /\ f[c] \in Nat /\ SumFunctionOnSet(f, (s \ {c}) \ {y}) \in Nat
      BY <2>1, <2>2, FS_Subset, SumType
    <3> QED BY <2>2, <3>2, <3>3, <3>4
  <2> QED BY <2>3, <2>4
<1>2. ASSUME NEW s \in SUBSET S, \A u \in SUBSET s : u # s => u \in P
      PROVE  s \in P
  BY <1>1, <1>2
<1>3. P \in SUBSET SUBSET S
  OBVIOUS
<1> HIDE DEF P
<1>4. P = SUBSET S
  BY <1>2, <1>3, SubsetInduction
<1> QED BY <1>4 DEF P

(* Functions that agree on a set have the same sum there.                  *)
LEMMA SumAgree ==
  ASSUME NEW f, NEW g, NEW S, IsFiniteSet(S), \A x \in S : f[x] = g[x]
  PROVE  SumFunctionOnSet(f, S) = SumFunctionOnSet(g, S)
<1> DEFINE P == {s \in SUBSET S : SumFunctionOnSet(f, s) = SumFunctionOnSet(g, s)}
<1>1. ASSUME NEW s \in SUBSET S, \A u \in SUBSET s : u # s => u \in P
      PROVE  s \in P
  <2>1. IsFiniteSet(s)
    BY FS_Subset
  <2>2. CASE s = {}
    BY <2>1, <2>2, SumEquations
  <2>3. CASE s # {}
    <3>1. /\ Chosen(s) \in s
          /\ SumFunctionOnSet(f, s) = f[Chosen(s)] + SumFunctionOnSet(f, s \ {Chosen(s)})
          /\ SumFunctionOnSet(g, s) = g[Chosen(s)] + SumFunctionOnSet(g, s \ {Chosen(s)})
      BY <2>1, <2>3, SumEquations
    <3>2. s \ {Chosen(s)} \in P
      BY <3>1, <1>1
    <3> QED BY <3>1, <3>2
  <2> QED BY <2>2, <2>3
<1>2. P \in SUBSET SUBSET S
  OBVIOUS
<1> HIDE DEF P
<1>3. P = SUBSET S
  BY <1>1, <1>2, SubsetInduction
<1> QED BY <1>3 DEF P

(* One term more by one makes the sum more by one.                         *)
LEMMA SumIncrement ==
  ASSUME NEW f, NEW g, NEW S, IsFiniteSet(S), \A x \in S : f[x] \in Nat,
         NEW x \in S, g[x] = f[x] + 1, \A y \in S \ {x} : g[y] = f[y]
  PROVE  SumFunctionOnSet(g, S) = SumFunctionOnSet(f, S) + 1
<1>1. IsFiniteSet(S \ {x}) /\ \A y \in S : g[y] \in Nat
  BY FS_Subset
<1>2. SumFunctionOnSet(g, S \ {x}) = SumFunctionOnSet(f, S \ {x})
  BY <1>1, SumAgree
<1>3. /\ SumFunctionOnSet(f, S) = f[x] + SumFunctionOnSet(f, S \ {x})
      /\ SumFunctionOnSet(g, S) = g[x] + SumFunctionOnSet(g, S \ {x})
  BY <1>1, SumRemove
<1>4. SumFunctionOnSet(f, S \ {x}) \in Nat
  BY <1>1, SumType
<1> QED BY <1>2, <1>3, <1>4

(* A sum whose terms are all zero is zero.                                 *)
LEMMA SumZero ==
  ASSUME NEW f, NEW S, IsFiniteSet(S), \A x \in S : f[x] = 0
  PROVE  SumFunctionOnSet(f, S) = 0
<1> DEFINE P == {s \in SUBSET S : SumFunctionOnSet(f, s) = 0}
<1>1. ASSUME NEW s \in SUBSET S, \A u \in SUBSET s : u # s => u \in P
      PROVE  s \in P
  <2>1. IsFiniteSet(s)
    BY FS_Subset
  <2>2. CASE s = {}
    BY <2>1, <2>2, SumEquations
  <2>3. CASE s # {}
    <3>1. /\ Chosen(s) \in s
          /\ SumFunctionOnSet(f, s) = f[Chosen(s)] + SumFunctionOnSet(f, s \ {Chosen(s)})
      BY <2>1, <2>3, SumEquations
    <3>2. s \ {Chosen(s)} \in P
      BY <3>1, <1>1
    <3> QED BY <3>1, <3>2
  <2> QED BY <2>2, <2>3
<1>2. P \in SUBSET SUBSET S
  OBVIOUS
<1> HIDE DEF P
<1>3. P = SUBSET S
  BY <1>1, <1>2, SubsetInduction
<1> QED BY <1>3 DEF P

(* A part of a sum of naturals is at most the whole.                       *)
LEMMA SumSubset ==
  ASSUME NEW f, NEW S, IsFiniteSet(S), \A x \in S : f[x] \in Nat, NEW T \in SUBSET S
  PROVE  SumFunctionOnSet(f, T) <= SumFunctionOnSet(f, S)
<1> DEFINE P == {s \in SUBSET S : SumFunctionOnSet(f, T \cap s) <= SumFunctionOnSet(f, s)}
<1>1. ASSUME NEW s \in SUBSET S, \A u \in SUBSET s : u # s => u \in P
      PROVE  s \in P
  <2>1. IsFiniteSet(s) /\ IsFiniteSet(T \cap s)
    BY FS_Subset
  <2>2. CASE s = {}
    <3>1. T \cap s = {} /\ SumFunctionOnSet(f, {}) = 0
      BY <2>1, <2>2, SumEquations
    <3> QED BY <2>2, <3>1
  <2>3. CASE s # {}
    <3> DEFINE c == Chosen(s)
    <3>1. c \in s /\ SumFunctionOnSet(f, s) = f[c] + SumFunctionOnSet(f, s \ {c})
      BY <2>1, <2>3, SumEquations
    <3> HIDE DEF c
    <3>2. SumFunctionOnSet(f, T \cap (s \ {c})) <= SumFunctionOnSet(f, s \ {c})
      BY <3>1, <1>1
    <3>3. IsFiniteSet(s \ {c}) /\ IsFiniteSet(T \cap (s \ {c})) /\ f[c] \in Nat
      BY <2>1, <3>1, FS_Subset
    <3>4. SumFunctionOnSet(f, s \ {c}) \in Nat /\ SumFunctionOnSet(f, T \cap (s \ {c})) \in Nat
      BY <3>3, SumType
    <3>5. ASSUME c \in T PROVE SumFunctionOnSet(f, T \cap s) <= SumFunctionOnSet(f, s)
      <4>1. (T \cap s) \ {c} = T \cap (s \ {c}) /\ c \in T \cap s
        BY <3>1, <3>5
      <4>2. SumFunctionOnSet(f, T \cap s) = f[c] + SumFunctionOnSet(f, (T \cap s) \ {c})
        BY <2>1, <4>1, SumRemove
      <4>3. SumFunctionOnSet(f, T \cap s) = f[c] + SumFunctionOnSet(f, T \cap (s \ {c}))
        BY <4>1, <4>2
      <4> QED BY <3>1, <3>2, <3>3, <3>4, <4>3
    <3>6. ASSUME c \notin T PROVE SumFunctionOnSet(f, T \cap s) <= SumFunctionOnSet(f, s)
      <4>1. SumFunctionOnSet(f, T \cap s) = SumFunctionOnSet(f, T \cap (s \ {c}))
        <5>1. T \cap s = T \cap (s \ {c})
          BY <3>6
        <5> QED BY <5>1
      <4> QED BY <3>1, <3>2, <3>3, <3>4, <4>1
    <3>7. SumFunctionOnSet(f, T \cap s) <= SumFunctionOnSet(f, s)
      BY <3>5, <3>6
    <3> QED BY <3>7
  <2> QED BY <2>2, <2>3
<1>2. P \in SUBSET SUBSET S
  OBVIOUS
<1>3. P = SUBSET S
  <2> HIDE DEF P
  <2> QED BY <1>1, <1>2, SubsetInduction
<1>4. T \cap S = T
  OBVIOUS
<1> QED BY <1>3, <1>4

(* The sum over two sets together is at most the two sums together.        *)
LEMMA SumUnion ==
  ASSUME NEW f, NEW S, NEW T, IsFiniteSet(S), IsFiniteSet(T), \A x \in S \cup T : f[x] \in Nat
  PROVE  SumFunctionOnSet(f, S \cup T) <= SumFunctionOnSet(f, S) + SumFunctionOnSet(f, T)
<1> DEFINE P == {t \in SUBSET T : SumFunctionOnSet(f, S \cup t)
                                    <= SumFunctionOnSet(f, S) + SumFunctionOnSet(f, t)}
<1>0. SumFunctionOnSet(f, S) \in Nat
  BY SumType
<1>1. ASSUME NEW t \in SUBSET T, \A u \in SUBSET t : u # t => u \in P
      PROVE  t \in P
  <2>1. IsFiniteSet(t) /\ IsFiniteSet(S \cup t)
    BY FS_Subset, FS_Union
  <2>2. CASE t = {}
    <3>1. S \cup t = S /\ SumFunctionOnSet(f, {}) = 0
      BY <2>1, <2>2, SumEquations
    <3> QED BY <1>0, <2>2, <3>1
  <2>3. CASE t # {}
    <3> DEFINE c == Chosen(t)
    <3>1. c \in t /\ SumFunctionOnSet(f, t) = f[c] + SumFunctionOnSet(f, t \ {c})
      BY <2>1, <2>3, SumEquations
    <3> HIDE DEF c
    <3>2. SumFunctionOnSet(f, S \cup (t \ {c})) <= SumFunctionOnSet(f, S) + SumFunctionOnSet(f, t \ {c})
      BY <3>1, <1>1
    <3>3. IsFiniteSet(t \ {c}) /\ IsFiniteSet(S \cup (t \ {c})) /\ f[c] \in Nat
      BY <2>1, <3>1, FS_Subset, FS_Union
    <3>4. SumFunctionOnSet(f, t \ {c}) \in Nat /\ SumFunctionOnSet(f, S \cup (t \ {c})) \in Nat
      BY <3>3, SumType
    <3>5. ASSUME c \in S
          PROVE  SumFunctionOnSet(f, S \cup t) <= SumFunctionOnSet(f, S) + SumFunctionOnSet(f, t)
      <4>1. SumFunctionOnSet(f, S \cup t) = SumFunctionOnSet(f, S \cup (t \ {c}))
        <5>1. S \cup t = S \cup (t \ {c})
          BY <3>5
        <5> QED BY <5>1
      <4> QED BY <1>0, <3>1, <3>2, <3>3, <3>4, <4>1
    <3>6. ASSUME c \notin S
          PROVE  SumFunctionOnSet(f, S \cup t) <= SumFunctionOnSet(f, S) + SumFunctionOnSet(f, t)
      <4>1. (S \cup t) \ {c} = S \cup (t \ {c}) /\ c \in S \cup t
        BY <3>1, <3>6
      <4>2. SumFunctionOnSet(f, S \cup t) = f[c] + SumFunctionOnSet(f, (S \cup t) \ {c})
        BY <2>1, <4>1, SumRemove
      <4>3. SumFunctionOnSet(f, S \cup t) = f[c] + SumFunctionOnSet(f, S \cup (t \ {c}))
        BY <4>1, <4>2
      <4> QED BY <1>0, <3>1, <3>2, <3>3, <3>4, <4>3
    <3>7. SumFunctionOnSet(f, S \cup t) <= SumFunctionOnSet(f, S) + SumFunctionOnSet(f, t)
      BY <3>5, <3>6
    <3> QED BY <3>7
  <2> QED BY <2>2, <2>3
<1>2. P \in SUBSET SUBSET T
  OBVIOUS
<1>3. P = SUBSET T
  <2> HIDE DEF P
  <2> QED BY <1>1, <1>2, SubsetInduction
<1> QED BY <1>3
=============================================================================

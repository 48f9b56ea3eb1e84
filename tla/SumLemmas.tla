------------------------------ MODULE SumLemmas ------------------------------
(***************************************************************************)
(* What SumFunctionOnSet of the module Functions computes: the lemmas on   *)
(* sums that proofs about quantities keep needing.  The induction          *)
(* theorems of the library are about operators; here induction is over     *)
(* sets of numbers, from the well-foundedness of < on Nat.                 *)
(***************************************************************************)
EXTENDS Functions, FiniteSetTheorems, TLAPS

(* < on Nat, as a relation.                                                *)
LEMMA NatOrder ==
  \E R : IsWellFoundedOn(R, Nat) /\ \A x, y \in Nat : <<y, x>> \in R <=> y < x
<1>1. \A x, y \in Nat : <<y, x>> \in OpToRel(<, Nat) <=> y < x BY DEF OpToRel
<1> QED BY <1>1, NatLessThanWellFounded

LEMMA SmallestOf ==
  ASSUME NEW T, T \subseteq Nat, T # {}
  PROVE  \E x \in T : \A y \in T : x <= y
<1>1. PICK R : IsWellFoundedOn(R, Nat) /\ \A x, y \in Nat : <<y, x>> \in R <=> y < x
  BY NatOrder
<1>2. \E x \in T : \A y \in T : ~ (<<y, x>> \in R) BY <1>1, WFMin
<1>3. \A x, y \in T : ~(<<y, x>> \in R) => x <= y BY <1>1
<1> QED BY <1>2, <1>3

(* Induction, for a set of numbers.                                        *)
LEMMA SetInduction ==
  ASSUME NEW T, 0 \in T, \A n \in Nat : n \in T => n + 1 \in T
  PROVE  Nat \subseteq T
<1>1. SUFFICES ASSUME Nat \ T # {} PROVE FALSE OBVIOUS
<1>2. PICK n \in Nat \ T : \A y \in Nat \ T : n <= y BY <1>1, SmallestOf
<1>3. n # 0 /\ n - 1 \in Nat BY <1>2
<1>4. n - 1 \in T BY <1>2, <1>3
<1>5. (n - 1) + 1 \in T BY <1>3, <1>4
<1> QED BY <1>5, <1>2
-----------------------------------------------------------------------------
Pick(s) == CHOOSE x \in s : TRUE

(* One step of the recursion in MapThenFoldSet.                            *)
SumStep(g, f, s) == IF s = {} THEN 0 ELSE f[Pick(s)] + g[s \ {Pick(s)}]

SumsUp(g, f, S) == g = [s \in SUBSET S |-> SumStep(g, f, s)]

LEMMA PickIn == \A s : s # {} => Pick(s) \in s
BY DEF Pick

LEMMA SumIsFold ==
  ASSUME NEW f, NEW S
  PROVE  SumFunctionOnSet(f, S) = (CHOOSE g : SumsUp(g, f, S))[S]
BY DEF SumFunctionOnSet, FoldFunctionOnSet, MapThenFoldSet, SumsUp, SumStep, Pick

(* Subsets of at most n elements.                                          *)
AtMost(S, n) == {s \in SUBSET S : Cardinality(s) <= n}

LEMMA SmallFacts ==
  ASSUME NEW S, IsFiniteSet(S)
  PROVE  /\ \A s \in SUBSET S : IsFiniteSet(s) /\ Cardinality(s) \in Nat
         /\ \A n \in Nat : \A s \in AtMost(S, n + 1) : s # {} => s \ {Pick(s)} \in AtMost(S, n)
         /\ AtMost(S, 0) = {{}}
         /\ AtMost(S, Cardinality(S)) = SUBSET S
         /\ \A n \in Nat : AtMost(S, n) \subseteq AtMost(S, n + 1)
<1>1. \A s \in SUBSET S : IsFiniteSet(s) /\ Cardinality(s) \in Nat
  BY FS_Subset, FS_CardinalityType
<1>2. ASSUME NEW n \in Nat, NEW s \in AtMost(S, n + 1), s # {}
      PROVE  s \ {Pick(s)} \in AtMost(S, n)
  <2>1. IsFiniteSet(s) /\ Pick(s) \in s /\ Cardinality(s) \in Nat /\ Cardinality(s) <= n + 1
    BY <1>1, <1>2, PickIn DEF AtMost
  <2>2. Cardinality(s \ {Pick(s)}) = Cardinality(s) - 1 BY <2>1, FS_RemoveElement
  <2> QED BY <2>1, <2>2 DEF AtMost
<1>3. AtMost(S, 0) = {{}}
  <2>1. \A s \in AtMost(S, 0) : s = {} BY <1>1, FS_EmptySet DEF AtMost
  <2>2. {} \in AtMost(S, 0) BY FS_EmptySet DEF AtMost
  <2> QED BY <2>1, <2>2
<1>4. AtMost(S, Cardinality(S)) = SUBSET S BY FS_Subset DEF AtMost
<1>5. \A n \in Nat : AtMost(S, n) \subseteq AtMost(S, n + 1) BY <1>1 DEF AtMost
<1> QED BY <1>1, <1>2, <1>3, <1>4, <1>5

(* The recursion defines a function.                                       *)
LEMMA SumsExist ==
  ASSUME NEW f, NEW S, IsFiniteSet(S)
  PROVE  \E g : SumsUp(g, f, S)
<1> DEFINE Upto(n, g) == g = [s \in AtMost(S, n) |-> SumStep(g, f, s)]
           T == {n \in Nat : \E g : Upto(n, g)}
<1>1. 0 \in T
  <2> DEFINE g == [s \in AtMost(S, 0) |-> 0]
  <2>1. \A s \in AtMost(S, 0) : SumStep(g, f, s) = 0 BY SmallFacts DEF SumStep
  <2>2. Upto(0, g) BY <2>1
  <2> QED BY <2>2
<1>2. ASSUME NEW n \in Nat, n \in T PROVE n + 1 \in T
  <2>1. PICK g : Upto(n, g) BY <1>2
  <2> DEFINE h == [s \in AtMost(S, n + 1) |-> SumStep(g, f, s)]
  <2>2. \A s \in AtMost(S, n) : h[s] = g[s] BY <2>1, SmallFacts
  <2>3. \A s \in AtMost(S, n + 1) : SumStep(h, f, s) = SumStep(g, f, s)
    BY <2>2, SmallFacts DEF SumStep
  <2>4. Upto(n + 1, h) BY <2>3
  <2> HIDE DEF h, Upto
  <2> QED BY <2>4
<1> HIDE DEF T
<1>3. Cardinality(S) \in T BY <1>1, <1>2, SetInduction, FS_CardinalityType
<1>4. PICK g : Upto(Cardinality(S), g) BY <1>3 DEF T
<1>5. SumsUp(g, f, S) BY <1>4, SmallFacts DEF SumsUp
<1> QED BY <1>5

(* Two such functions for two sets and two functions that agree give the   *)
(* same sums.                                                              *)
LEMMA SumsAgree ==
  ASSUME NEW S, IsFiniteSet(S), NEW f, NEW d, \A x \in S : f[x] = d[x],
         NEW U, NEW V, S \subseteq U, S \subseteq V,
         NEW g, SumsUp(g, f, U), NEW h, SumsUp(h, d, V)
  PROVE  g[S] = h[S]
<1> DEFINE T == {n \in Nat : \A s \in AtMost(S, n) : g[s] = h[s]}
<1>1. \A s \in SUBSET S : g[s] = SumStep(g, f, s) /\ h[s] = SumStep(h, d, s)
  BY DEF SumsUp
<1>2. 0 \in T BY <1>1, SmallFacts DEF SumStep
<1>3. ASSUME NEW n \in Nat, n \in T PROVE n + 1 \in T
  <2> SUFFICES ASSUME NEW s \in AtMost(S, n + 1) PROVE g[s] = h[s] OBVIOUS
  <2>1. s \in SUBSET S BY DEF AtMost
  <2>2. CASE s = {} BY <2>1, <2>2, <1>1 DEF SumStep
  <2>3. CASE s # {}
    <3>1. g[s \ {Pick(s)}] = h[s \ {Pick(s)}] BY <1>3, <2>3, SmallFacts
    <3>2. f[Pick(s)] = d[Pick(s)] BY <2>1, <2>3, PickIn
    <3> QED BY <3>1, <3>2, <2>1, <1>1 DEF SumStep
  <2> QED BY <2>2, <2>3
<1> HIDE DEF T
<1>4. Cardinality(S) \in T BY <1>2, <1>3, SetInduction, FS_CardinalityType
<1> QED BY <1>4, SmallFacts DEF T
-----------------------------------------------------------------------------
LEMMA SumEmpty == ASSUME NEW f PROVE SumFunctionOnSet(f, {}) = 0
<1>1. PICK g : SumsUp(g, f, {}) BY SumsExist, FS_EmptySet
<1> DEFINE k == CHOOSE h : SumsUp(h, f, {})
<1>2. SumsUp(k, f, {}) BY <1>1
<1> HIDE DEF k
<1>3. k[{}] = 0 BY <1>2 DEF SumsUp, SumStep
<1> QED BY <1>3, SumIsFold DEF k

(* A sum takes the elements one by one.                                    *)
LEMMA SumPick ==
  ASSUME NEW f, NEW S, IsFiniteSet(S), S # {}
  PROVE  SumFunctionOnSet(f, S) = f[Pick(S)] + SumFunctionOnSet(f, S \ {Pick(S)})
<1> DEFINE R == S \ {Pick(S)}
           g == CHOOSE k : SumsUp(k, f, S)
           h == CHOOSE k : SumsUp(k, f, R)
<1>1. IsFiniteSet(R) BY FS_RemoveElement
<1>2. SumsUp(g, f, S) BY SumsExist
<1>3. SumsUp(h, f, R) BY SumsExist, <1>1
<1>4. SumFunctionOnSet(f, S) = g[S] /\ SumFunctionOnSet(f, R) = h[R] BY SumIsFold
<1> HIDE DEF R, g, h
<1>5. g[S] = SumStep(g, f, S) BY <1>2 DEF SumsUp
<1>6. R \subseteq S BY DEF R
<1>7. g[R] = h[R] BY <1>1, <1>2, <1>3, <1>6, SumsAgree
<1>8. SumStep(g, f, S) = f[Pick(S)] + g[R] BY DEF SumStep, R
<1> QED BY <1>4, <1>5, <1>7, <1>8 DEF R

(* The sum depends on the values at the elements only.                     *)
LEMMA SumExtensional ==
  ASSUME NEW f, NEW d, NEW S, IsFiniteSet(S), \A x \in S : f[x] = d[x]
  PROVE  SumFunctionOnSet(f, S) = SumFunctionOnSet(d, S)
<1> DEFINE g == CHOOSE k : SumsUp(k, f, S)
           h == CHOOSE k : SumsUp(k, d, S)
<1>1. SumsUp(g, f, S) /\ SumsUp(h, d, S) BY SumsExist
<1>2. SumFunctionOnSet(f, S) = g[S] /\ SumFunctionOnSet(d, S) = h[S] BY SumIsFold
<1> HIDE DEF g, h
<1> QED BY <1>1, <1>2, SumsAgree

(* A sum of integers is one, and a sum of naturals too.                    *)
LEMMA SumType ==
  ASSUME NEW f, NEW S, IsFiniteSet(S), \A x \in S : f[x] \in Int
  PROVE  /\ SumFunctionOnSet(f, S) \in Int
         /\ (\A x \in S : f[x] \in Nat) => SumFunctionOnSet(f, S) \in Nat
<1> DEFINE Good(s) == /\ SumFunctionOnSet(f, s) \in Int
                      /\ (\A x \in s : f[x] \in Nat) => SumFunctionOnSet(f, s) \in Nat
           T == {n \in Nat : \A s \in AtMost(S, n) : Good(s)}
<1>1. 0 \in T
  <2>1. Good({}) BY SumEmpty
  <2>4. \A s \in AtMost(S, 0) : s = {} BY SmallFacts
  <2>5. \A s \in AtMost(S, 0) : Good(s) BY <2>1, <2>4
  <2> HIDE DEF Good
  <2> QED BY <2>5
<1>2. ASSUME NEW n \in Nat, n \in T PROVE n + 1 \in T
  <2> SUFFICES ASSUME NEW s \in AtMost(S, n + 1) PROVE Good(s) OBVIOUS
  <2>1. s \in SUBSET S /\ IsFiniteSet(s) BY SmallFacts DEF AtMost
  <2>2. CASE s = {} BY <2>2, SumEmpty
  <2>3. CASE s # {}
    <3>1. Good(s \ {Pick(s)}) BY <1>2, <2>3, SmallFacts
    <3>2. Pick(s) \in s BY <2>3, PickIn
    <3>3. SumFunctionOnSet(f, s) = f[Pick(s)] + SumFunctionOnSet(f, s \ {Pick(s)})
      BY <2>1, <2>3, SumPick
    <3>4. f[Pick(s)] \in Int BY <2>1, <3>2
    <3> QED BY <3>1, <3>2, <3>3, <3>4
  <2> QED BY <2>2, <2>3
<1> HIDE DEF T
<1>3. Cardinality(S) \in T BY <1>1, <1>2, SetInduction, FS_CardinalityType
<1> QED BY <1>3, SmallFacts DEF T

(* Any element may be taken first.                                         *)
LEMMA SumRemove ==
  ASSUME NEW f, NEW S, IsFiniteSet(S), \A x \in S : f[x] \in Int, NEW e \in S
  PROVE  SumFunctionOnSet(f, S) = f[e] + SumFunctionOnSet(f, S \ {e})
<1> DEFINE Good(s) == \A x \in s : SumFunctionOnSet(f, s) = f[x] + SumFunctionOnSet(f, s \ {x})
           T == {n \in Nat : \A s \in AtMost(S, n) : Good(s)}
<1>1. 0 \in T BY SmallFacts
<1>2. ASSUME NEW n \in Nat, n \in T PROVE n + 1 \in T
  <2> SUFFICES ASSUME NEW s \in AtMost(S, n + 1), NEW x \in s
               PROVE  SumFunctionOnSet(f, s) = f[x] + SumFunctionOnSet(f, s \ {x})
    OBVIOUS
  <2> DEFINE p == Pick(s)
  <2>1. s \in SUBSET S /\ IsFiniteSet(s) /\ p \in s /\ Cardinality(s) \in Nat
        /\ Cardinality(s) <= n + 1
    BY SmallFacts, PickIn DEF AtMost
  <2>2. SumFunctionOnSet(f, s) = f[p] + SumFunctionOnSet(f, s \ {p}) BY <2>1, SumPick
  <2> HIDE DEF p
  <2>3. CASE x = p BY <2>2, <2>3
  <2>4. CASE x # p
    <3> DEFINE rest == (s \ {p}) \ {x}
    <3>1. /\ IsFiniteSet(s \ {p}) /\ Cardinality(s \ {p}) = Cardinality(s) - 1
          /\ IsFiniteSet(s \ {x}) /\ Cardinality(s \ {x}) = Cardinality(s) - 1
      BY <2>1, FS_RemoveElement
    <3>2. s \ {p} \in AtMost(S, n) /\ s \ {x} \in AtMost(S, n) BY <2>1, <3>1 DEF AtMost
    <3>3. SumFunctionOnSet(f, s \ {p}) = f[x] + SumFunctionOnSet(f, (s \ {p}) \ {x})
      BY <1>2, <2>4, <3>2
    <3>4. SumFunctionOnSet(f, s \ {x}) = f[p] + SumFunctionOnSet(f, (s \ {x}) \ {p})
      BY <1>2, <2>1, <2>4, <3>2
    <3>5. (s \ {x}) \ {p} = rest OBVIOUS
    <3>6. IsFiniteSet(rest) BY <3>1, FS_RemoveElement
    <3>7. SumFunctionOnSet(f, rest) \in Int BY <2>1, <3>6, SumType
    <3>8. f[x] \in Int /\ f[p] \in Int BY <2>1
    <3>9. /\ SumFunctionOnSet(f, s \ {p}) = f[x] + SumFunctionOnSet(f, rest)
          /\ SumFunctionOnSet(f, s \ {x}) = f[p] + SumFunctionOnSet(f, rest)
      BY <3>3, <3>4, <3>5
    <3> HIDE DEF rest
    <3> QED BY <2>2, <3>7, <3>8, <3>9
  <2> QED BY <2>3, <2>4
<1> HIDE DEF T
<1>3. Cardinality(S) \in T BY <1>1, <1>2, SetInduction, FS_CardinalityType
<1>4. Good(S) BY <1>3, SmallFacts DEF T
<1> QED BY <1>4

(* A new element adds its value.                                           *)
LEMMA SumAdd ==
  ASSUME NEW f, NEW S, IsFiniteSet(S), \A x \in S : f[x] \in Int,
         NEW e, e \notin S, f[e] \in Int
  PROVE  SumFunctionOnSet(f, S \cup {e}) = SumFunctionOnSet(f, S) + f[e]
<1> DEFINE U == S \cup {e}
<1>1. IsFiniteSet(U) BY FS_AddElement
<1>2. \A x \in U : f[x] \in Int OBVIOUS
<1>3. U \ {e} = S /\ e \in U OBVIOUS
<1>4. SumFunctionOnSet(f, S) \in Int BY SumType
<1> HIDE DEF U
<1>5. SumFunctionOnSet(f, U) = f[e] + SumFunctionOnSet(f, U \ {e}) BY <1>1, <1>2, <1>3, SumRemove
<1>6. SumFunctionOnSet(f, U) = f[e] + SumFunctionOnSet(f, S) BY <1>3, <1>5
<1>7. SumFunctionOnSet(f, U) = SumFunctionOnSet(f, S) + f[e] BY <1>4, <1>6
<1> QED BY <1>7 DEF U

(* Naturals of a part add up to no more than those of the whole.           *)
LEMMA SumPart ==
  ASSUME NEW f, NEW S, IsFiniteSet(S), \A x \in S : f[x] \in Nat, NEW P \in SUBSET S
  PROVE  SumFunctionOnSet(f, P) <= SumFunctionOnSet(f, S)
<1> DEFINE Good(s) == SumFunctionOnSet(f, S \ s) <= SumFunctionOnSet(f, S)
           T == {n \in Nat : \A s \in AtMost(S, n) : Good(s)}
<1>1. 0 \in T
  <2>1. S \ {} = S OBVIOUS
  <2>2. SumFunctionOnSet(f, S) \in Int BY SumType
  <2>3. Good({}) BY <2>1, <2>2
  <2>4. \A s \in AtMost(S, 0) : s = {} BY SmallFacts
  <2>5. \A s \in AtMost(S, 0) : Good(s) BY <2>3, <2>4
  <2> HIDE DEF Good
  <2> QED BY <2>5
<1>2. ASSUME NEW n \in Nat, n \in T PROVE n + 1 \in T
  <2> SUFFICES ASSUME NEW s \in AtMost(S, n + 1) PROVE Good(s) OBVIOUS
  <2>1. s \in SUBSET S BY DEF AtMost
  <2>2. CASE s = {} BY <2>2, <1>1, SmallFacts
  <2>3. CASE s # {}
    <3> DEFINE p == Pick(s)  W == S \ (s \ {p})
    <3>1. p \in s /\ p \in W BY <2>1, <2>3, PickIn
    <3>2. W \ {p} = S \ s BY <3>1
    <3>3. W \in SUBSET S /\ IsFiniteSet(W) BY FS_Subset
    <3>4. SumFunctionOnSet(f, W) <= SumFunctionOnSet(f, S) BY <1>2, <2>3, SmallFacts
    <3>5. \A x \in W : f[x] \in Int BY <3>3
    <3>6. f[p] \in Nat BY <3>1, <3>3
    <3> HIDE DEF p, W
    <3>7. SumFunctionOnSet(f, W) = f[p] + SumFunctionOnSet(f, W \ {p})
      BY <3>1, <3>3, <3>5, SumRemove
    <3>8. IsFiniteSet(S \ s) /\ \A x \in S \ s : f[x] \in Int BY FS_Subset
    <3>9. SumFunctionOnSet(f, S \ s) \in Int /\ SumFunctionOnSet(f, S) \in Int
      BY <3>8, SumType
    <3> QED BY <3>2, <3>4, <3>6, <3>7, <3>9
  <2> QED BY <2>2, <2>3
<1> HIDE DEF T
<1>3. Cardinality(S) \in T
  <2>1. Nat \subseteq T BY <1>1, <1>2, SetInduction
  <2> QED BY <2>1, FS_CardinalityType
<1>4. Good(S \ P)
  <2>1. S \ P \in AtMost(S, Cardinality(S)) BY SmallFacts
  <2> HIDE DEF Good
  <2> QED BY <1>3, <2>1 DEF T
<1>5. S \ (S \ P) = P OBVIOUS
<1> QED BY <1>4, <1>5

(* A sum in which one summand changes.                                     *)
LEMMA SumChange ==
  ASSUME NEW f, NEW d, NEW S, IsFiniteSet(S), NEW e \in S, \A x \in S : f[x] \in Int,
         \A x \in S \ {e} : d[x] = f[x], d[e] \in Int
  PROVE  SumFunctionOnSet(d, S) = SumFunctionOnSet(f, S) - f[e] + d[e]
<1>1. IsFiniteSet(S \ {e}) BY FS_RemoveElement
<1>2. \A x \in S : d[x] \in Int OBVIOUS
<1>3. SumFunctionOnSet(d, S) = d[e] + SumFunctionOnSet(d, S \ {e}) BY <1>2, SumRemove
<1>4. SumFunctionOnSet(f, S) = f[e] + SumFunctionOnSet(f, S \ {e}) BY SumRemove
<1>5. SumFunctionOnSet(d, S \ {e}) = SumFunctionOnSet(f, S \ {e}) BY <1>1, SumExtensional
<1>6. SumFunctionOnSet(f, S \ {e}) \in Int BY <1>1, SumType
<1> QED BY <1>3, <1>4, <1>5, <1>6
=============================================================================

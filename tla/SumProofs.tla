----------------------------- MODULE SumProofs -----------------------------
(***************************************************************************)
(* Sums over finite sets and over sequences.                               *)
(*                                                                         *)
(* The provers cannot instantiate an induction theorem whose parameter is  *)
(* a predicate, so induction is stated here with sets: a set of            *)
(* counterexamples that is not empty has a smallest one.                   *)
(***************************************************************************)
EXTENDS FiniteSetsExt, Integers, Sequences, FiniteSetTheorems, SequenceTheorems,
        WellFoundedInduction, TLAPS

(* Some number of a set of natural numbers is the least one.               *)
LEMMA LeastNumber ==
    ASSUME NEW T \in SUBSET Nat, T # {}
    PROVE  \E n \in T : \A m \in T : n <= m
<1>1. PICK n \in T : \A m \in T : <<m, n>> \notin OpToRel(<, Nat)
    BY NatLessThanWellFounded, WFMin
<1>2. \A m \in T : ~(m < n)
    BY <1>1 DEF OpToRel
<1> QED BY <1>2

(* Some member of a set of subsets of a finite set has none below it.      *)
LEMMA LeastSubset ==
    ASSUME NEW S, IsFiniteSet(S), NEW Bad \in SUBSET SUBSET S, Bad # {}
    PROVE  \E s \in Bad : \A t \in SUBSET s : t # s => t \notin Bad
<1>1. IsWellFoundedOn(StrictSubsetOrdering(S), SUBSET S)
    BY FS_StrictSubsetOrderingWellFounded, FS_FiniteSubsetsOfFinite
<1>2. PICK s \in Bad : \A t \in Bad : <<t, s>> \notin StrictSubsetOrdering(S)
    BY <1>1, WFMin
<1> QED BY <1>2 DEF StrictSubsetOrdering

(***************************************************************************)
(* The recursion of SumFunctionOnSet                                       *)
(***************************************************************************)
(* What the library's fold chooses from a set.                             *)
Pick(s) == CHOOSE x \in s : TRUE

(* g holds the sums of f over the subsets of S.                            *)
IsSums(g, f, S) ==
    g = [s \in SUBSET S |-> IF s = {} THEN 0 ELSE f[Pick(s)] + g[s \ {Pick(s)}]]

Sums(f, S) == CHOOSE g : IsSums(g, f, S)

(* The library's sum, without its operators.                               *)
LEMMA SumUnfolds ==
    ASSUME NEW f, NEW S
    PROVE  SumFunctionOnSet(f, S) = Sums(f, S)[S]
BY DEF SumFunctionOnSet, FoldFunctionOnSet, MapThenFoldSet, Sums, IsSums, Pick

(* Sums over the subsets of two sets agree where both are.                 *)
LEMMA SumsAgree ==
    ASSUME NEW f, NEW S, NEW T \in SUBSET S, IsFiniteSet(T),
           NEW g, IsSums(g, f, S), NEW h, IsSums(h, f, T)
    PROVE  g[T] = h[T]
<1> DEFINE Bad == {s \in SUBSET T : g[s] # h[s]}
<1>1. SUFFICES ASSUME Bad # {} PROVE FALSE
    OBVIOUS
<1>2. PICK s \in Bad : \A t \in SUBSET s : t # s => t \notin Bad
  <2>1. Bad \in SUBSET SUBSET T
      OBVIOUS
  <2> HIDE DEF Bad
  <2> QED BY <1>1, <2>1, LeastSubset
<1>3. s \in SUBSET T /\ s \in SUBSET S /\ g[s] # h[s]
    OBVIOUS
<1>4. /\ g[s] = IF s = {} THEN 0 ELSE f[Pick(s)] + g[s \ {Pick(s)}]
      /\ h[s] = IF s = {} THEN 0 ELSE f[Pick(s)] + h[s \ {Pick(s)}]
    BY <1>3 DEF IsSums
<1>5. s # {}
    BY <1>3, <1>4
<1>6. Pick(s) \in s
    BY <1>5 DEF Pick
<1>7. g[s \ {Pick(s)}] = h[s \ {Pick(s)}]
    BY <1>2, <1>3, <1>6
<1> QED BY <1>3, <1>4, <1>5, <1>7

(* There are sums over the subsets of a finite set.                        *)
LEMMA SumsExist ==
    ASSUME NEW f, NEW S, IsFiniteSet(S)
    PROVE  IsSums(Sums(f, S), f, S)
<1> DEFINE Bad == {s \in SUBSET S : ~\E g : IsSums(g, f, s)}
<1>1. Bad = {}
  <2>1. SUFFICES ASSUME Bad # {} PROVE FALSE
      OBVIOUS
  <2>2. PICK s \in Bad : \A t \in SUBSET s : t # s => t \notin Bad
    <3>1. Bad \in SUBSET SUBSET S
        OBVIOUS
    <3> HIDE DEF Bad
    <3> QED BY <2>1, <3>1, LeastSubset
  <2>3. s \in SUBSET S /\ ~\E g : IsSums(g, f, s)
      OBVIOUS
  <2>4. ASSUME NEW t \in SUBSET s, t # s
        PROVE  IsSums(Sums(f, t), f, t) /\ IsFiniteSet(t)
    <3>1. t \in SUBSET S
        BY <2>3
    <3>2. \E g : IsSums(g, f, t)
        BY <2>2, <2>4, <3>1
    <3> QED BY <3>1, <3>2, FS_Subset DEF Sums
  <2> DEFINE G == [t \in SUBSET s |->
                      IF t = s THEN IF s = {} THEN 0
                                    ELSE f[Pick(s)] + Sums(f, s \ {Pick(s)})[s \ {Pick(s)}]
                      ELSE Sums(f, t)[t]]
  <2>5. ASSUME NEW t \in SUBSET s
        PROVE  G[t] = IF t = {} THEN 0 ELSE f[Pick(t)] + G[t \ {Pick(t)}]
    <3> DEFINE u == t \ {Pick(t)}
    <3>1. CASE t = {}
      <4>1. CASE t = s
          BY <3>1, <4>1
      <4>2. CASE t # s
          BY <2>4, <3>1, <4>2 DEF IsSums
      <4> QED BY <4>1, <4>2
    <3>2. CASE t # {}
      <4>1. Pick(t) \in t
          BY <3>2 DEF Pick
      <4>2. u \in SUBSET s /\ u # s /\ u \in SUBSET t
          BY <4>1
      <4>3. G[u] = Sums(f, u)[u]
          BY <4>2
      <4>4. CASE t = s
          BY <3>2, <4>3, <4>4
      <4>5. CASE t # s
        <5>1. G[t] = Sums(f, t)[t]
            BY <4>5
        <5>2. Sums(f, t)[t] = f[Pick(t)] + Sums(f, t)[u]
            BY <2>4, <3>2, <4>5 DEF IsSums
        <5>3. Sums(f, t)[u] = Sums(f, u)[u]
            BY <2>4, <4>2, <4>5, SumsAgree
        <5> QED BY <3>2, <4>3, <5>1, <5>2, <5>3
      <4> QED BY <4>4, <4>5
    <3> QED BY <3>1, <3>2
  <2>6. IsSums(G, f, s)
    <3>1. G = [t \in SUBSET s |-> G[t]]
        OBVIOUS
    <3> HIDE DEF G
    <3> QED BY <2>5, <3>1 DEF IsSums
  <2> QED BY <2>3, <2>6
<1>2. \E g : IsSums(g, f, S)
    BY <1>1
<1> QED BY <1>2 DEF Sums

(***************************************************************************)
(* Induction                                                               *)
(***************************************************************************)
(* A family of subsets that has the empty one and grows element by element *)
(* has the whole set.                                                      *)
LEMMA SetGrows ==
    ASSUME NEW S, IsFiniteSet(S), NEW Good, {} \in Good,
           \A s \in SUBSET S : s \in Good => \A x \in S \ s : s \cup {x} \in Good
    PROVE  S \in Good
<1> DEFINE Bad == {s \in SUBSET S : s \notin Good}
<1>1. SUFFICES ASSUME Bad # {} PROVE FALSE
    OBVIOUS
<1>2. PICK s \in Bad : \A t \in SUBSET s : t # s => t \notin Bad
  <2>1. Bad \in SUBSET SUBSET S
      OBVIOUS
  <2> HIDE DEF Bad
  <2> QED BY <1>1, <2>1, LeastSubset
<1>3. PICK x \in s : TRUE
    BY <1>2
<1>4. s \ {x} \in Good /\ s \ {x} \in SUBSET S /\ x \in S
    BY <1>2, <1>3
<1>5. (s \ {x}) \cup {x} = s
    BY <1>3
<1> QED BY <1>2, <1>4, <1>5

(* A list is its last element after the others.                            *)
LEMMA PopLast ==
    ASSUME NEW A, NEW s \in Seq(A), s # <<>>
    PROVE  LET t == SubSeq(s, 1, Len(s) - 1)
           IN  /\ t \in Seq(A) /\ Len(t) = Len(s) - 1 /\ s[Len(s)] \in A
               /\ s = Append(t, s[Len(s)])
<1> DEFINE t == SubSeq(s, 1, Len(s) - 1)
<1>1. Len(s) \in Nat \ {0}
    OBVIOUS
<1>2. t \in Seq(A) /\ Len(t) = Len(s) - 1 /\ s[Len(s)] \in A
  <2>1. PICK k \in Nat : Len(s) = k + 1
    <3>1. Len(s) - 1 \in Nat /\ Len(s) = (Len(s) - 1) + 1
        BY <1>1
    <3> QED BY <3>1
  <2>2. t = SubSeq(s, 1, k) /\ \A i \in 1..k : s[i] \in A
      BY <1>1, <2>1
  <2>3. t \in Seq(A) /\ Len(t) = IF 1 <= k THEN k - 1 + 1 ELSE 0
      BY <2>2, SubSeqProperties
  <2>4. s[Len(s)] \in A
      BY <1>1, <2>1
  <2> QED BY <2>1, <2>3, <2>4
<1>3. s = Append(t, s[Len(s)])
    BY <1>1, <1>2
<1> QED BY <1>2, <1>3

(* A set of sequences that has the empty one and grows at the end has all. *)
LEMMA SequenceGrows ==
    ASSUME NEW A, NEW Good, <<>> \in Good,
           \A s \in Seq(A) : s \in Good => \A x \in A : Append(s, x) \in Good
    PROVE  Seq(A) \subseteq Good
<1> DEFINE Bad  == {s \in Seq(A) : s \notin Good}
           Lens == {Len(s) : s \in Bad}
<1>1. SUFFICES ASSUME Bad # {} PROVE FALSE
    OBVIOUS
<1>2. PICK n \in Lens : \A m \in Lens : n <= m
  <2>1. Lens \in SUBSET Nat /\ Lens # {}
      BY <1>1
  <2> HIDE DEF Lens
  <2> QED BY <2>1, LeastNumber
<1>3. PICK s \in Bad : Len(s) = n
    OBVIOUS
<1>4. s \in Seq(A) /\ s # <<>> /\ Len(s) \in Nat \ {0}
    BY <1>3
<1> DEFINE t == SubSeq(s, 1, Len(s) - 1)
<1>5. t \in Seq(A) /\ Len(t) = Len(s) - 1 /\ s[Len(s)] \in A /\ s = Append(t, s[Len(s)])
    BY <1>4, PopLast
<1>7. t \notin Bad
  <2>1. ~(n <= Len(t))
      BY <1>3, <1>4, <1>5
  <2> QED BY <1>2, <2>1
<1> QED BY <1>3, <1>5, <1>7

(***************************************************************************)
(* Sums over finite sets                                                   *)
(***************************************************************************)
(* Nothing adds up to nothing.                                             *)
LEMMA SumEmpty == \A f : SumFunctionOnSet(f, {}) = 0
<1> SUFFICES ASSUME NEW f PROVE SumFunctionOnSet(f, {}) = 0
    OBVIOUS
<1>1. IsSums(Sums(f, {}), f, {})
    BY SumsExist, FS_EmptySet
<1> QED BY <1>1, SumUnfolds DEF IsSums

(* The library takes out one element, chosen.                              *)
LEMMA SumPicked ==
    ASSUME NEW f, NEW S, IsFiniteSet(S), S # {}
    PROVE  /\ Pick(S) \in S
           /\ SumFunctionOnSet(f, S) = f[Pick(S)] + SumFunctionOnSet(f, S \ {Pick(S)})
<1>1. Pick(S) \in S
    BY DEF Pick
<1> DEFINE T == S \ {Pick(S)}
<1>2. IsFiniteSet(T) /\ T \in SUBSET S
    BY FS_Subset
<1>3. IsSums(Sums(f, S), f, S) /\ IsSums(Sums(f, T), f, T)
    BY <1>2, SumsExist
<1>4. Sums(f, S)[T] = Sums(f, T)[T]
    BY <1>2, <1>3, SumsAgree
<1>5. Sums(f, S)[S] = f[Pick(S)] + Sums(f, S)[T]
    BY <1>3 DEF IsSums
<1> QED BY <1>1, <1>4, <1>5, SumUnfolds

(* The sum of numbers is a number.                                         *)
LEMMA SumInt ==
    ASSUME NEW f, NEW S, IsFiniteSet(S), \A x \in S : f[x] \in Int
    PROVE  SumFunctionOnSet(f, S) \in Int
<1> DEFINE Bad == {s \in SUBSET S : SumFunctionOnSet(f, s) \notin Int}
<1>1. SUFFICES ASSUME Bad # {} PROVE FALSE
    OBVIOUS
<1>2. PICK s \in Bad : \A t \in SUBSET s : t # s => t \notin Bad
  <2>1. Bad \in SUBSET SUBSET S
      OBVIOUS
  <2> HIDE DEF Bad
  <2> QED BY <1>1, <2>1, LeastSubset
<1>3. IsFiniteSet(s) /\ s # {}
  <2>1. SumFunctionOnSet(f, s) \notin Int /\ s \in SUBSET S
      BY <1>2
  <2>2. SumFunctionOnSet(f, {}) = 0
      BY SumEmpty
  <2>3. s # {}
      BY <2>1, <2>2
  <2> QED BY <2>1, <2>3, FS_Subset
<1>4. Pick(s) \in s /\ SumFunctionOnSet(f, s) = f[Pick(s)] + SumFunctionOnSet(f, s \ {Pick(s)})
    BY <1>3, SumPicked
<1>5. SumFunctionOnSet(f, s \ {Pick(s)}) \in Int
    BY <1>2, <1>4
<1> QED BY <1>2, <1>4, <1>5

(* Any element can be taken out.                                           *)
LEMMA SumTakenOut ==
    ASSUME NEW f, NEW S, IsFiniteSet(S), \A x \in S : f[x] \in Int, NEW e \in S
    PROVE  SumFunctionOnSet(f, S) = f[e] + SumFunctionOnSet(f, S \ {e})
<1> DEFINE Sum(s) == SumFunctionOnSet(f, s)
           Bad == {s \in SUBSET S : \E x \in s : Sum(s) # f[x] + Sum(s \ {x})}
<1>1. SUFFICES ASSUME Bad # {} PROVE FALSE
    OBVIOUS
<1>2. PICK s \in Bad : \A t \in SUBSET s : t # s => t \notin Bad
  <2>1. Bad \in SUBSET SUBSET S
      OBVIOUS
  <2> HIDE DEF Bad
  <2> QED BY <1>1, <2>1, LeastSubset
<1>3. PICK x \in s : Sum(s) # f[x] + Sum(s \ {x})
    BY <1>2
<1>4. IsFiniteSet(s) /\ s # {} /\ s \in SUBSET S
    BY <1>2, <1>3, FS_Subset
<1> DEFINE y == Pick(s)
<1>5. y \in s /\ Sum(s) = f[y] + Sum(s \ {y})
    BY <1>4, SumPicked
<1>6. x # y
    BY <1>3, <1>5
<1>7. /\ Sum(s \ {y}) = f[x] + Sum((s \ {y}) \ {x})
      /\ Sum(s \ {x}) = f[y] + Sum((s \ {x}) \ {y})
    BY <1>2, <1>3, <1>5, <1>6
<1>8. (s \ {y}) \ {x} = (s \ {x}) \ {y}
    OBVIOUS
<1>9. Sum((s \ {x}) \ {y}) \in Int
  <2>1. IsFiniteSet((s \ {x}) \ {y}) /\ \A z \in (s \ {x}) \ {y} : f[z] \in Int
      BY <1>4, FS_Subset
  <2> QED BY <2>1, SumInt
<1>a. f[x] \in Int /\ f[y] \in Int
    BY <1>4, <1>5
<1>b. PICK w \in Int : w = Sum((s \ {x}) \ {y})
    BY <1>9
<1>c. Sum(s) = f[y] + (f[x] + w) /\ Sum(s \ {x}) = f[y] + w
    BY <1>b, <1>5, <1>7, <1>8
<1>d. f[y] + (f[x] + w) = f[x] + (f[y] + w)
    BY <1>a, <1>b
<1> QED BY <1>3, <1>c, <1>d

(* A new element adds its number.                                          *)
LEMMA SumGrows ==
    ASSUME NEW f, NEW S, IsFiniteSet(S), NEW e, e \notin S, \A x \in S \cup {e} : f[x] \in Int
    PROVE  SumFunctionOnSet(f, S \cup {e}) = SumFunctionOnSet(f, S) + f[e]
<1>1. IsFiniteSet(S \cup {e}) /\ (S \cup {e}) \ {e} = S
    BY FS_AddElement
<1>2. SumFunctionOnSet(f, S \cup {e}) = f[e] + SumFunctionOnSet(f, S)
    BY <1>1, SumTakenOut
<1> QED BY <1>2, SumInt

(* The sum of numbers that are not negative is not either, and is zero     *)
(* only if they are.                                                       *)
LEMMA SumNat ==
    ASSUME NEW f, NEW S, IsFiniteSet(S), \A x \in S : f[x] \in Nat
    PROVE  /\ SumFunctionOnSet(f, S) \in Nat
           /\ \A x \in S : f[x] <= SumFunctionOnSet(f, S)
<1> DEFINE Good == {s \in SUBSET S : /\ SumFunctionOnSet(f, s) \in Nat
                                     /\ \A x \in s : f[x] <= SumFunctionOnSet(f, s)}
<1>1. {} \in Good
    BY SumEmpty
<1>2. ASSUME NEW s \in SUBSET S, s \in Good, NEW e \in S \ s
      PROVE  s \cup {e} \in Good
  <2>1. SumFunctionOnSet(f, s \cup {e}) = SumFunctionOnSet(f, s) + f[e]
      BY FS_Subset, SumGrows
  <2> QED BY <1>2, <2>1
<1>3. S \in Good
  <2> HIDE DEF Good
  <2> QED BY <1>1, <1>2, SetGrows
<1> QED BY <1>3

(* The sum is of the numbers of the elements, and of nothing else.         *)
LEMMA SumSame ==
    ASSUME NEW f, NEW g, NEW S, IsFiniteSet(S), \A x \in S : f[x] \in Int /\ f[x] = g[x]
    PROVE  SumFunctionOnSet(f, S) = SumFunctionOnSet(g, S)
<1> DEFINE Good == {s \in SUBSET S : SumFunctionOnSet(f, s) = SumFunctionOnSet(g, s)}
<1>1. {} \in Good
    BY SumEmpty
<1>2. ASSUME NEW s \in SUBSET S, s \in Good, NEW e \in S \ s
      PROVE  s \cup {e} \in Good
  <2>1. IsFiniteSet(s) /\ \A x \in s \cup {e} : f[x] \in Int /\ g[x] \in Int
      BY FS_Subset
  <2>2. SumFunctionOnSet(f, s \cup {e}) = SumFunctionOnSet(f, s) + f[e]
      BY <2>1, SumGrows
  <2>3. SumFunctionOnSet(g, s \cup {e}) = SumFunctionOnSet(g, s) + g[e]
      BY <2>1, SumGrows
  <2> QED BY <1>2, <2>2, <2>3
<1>3. S \in Good
  <2> HIDE DEF Good
  <2> QED BY <1>1, <1>2, SetGrows
<1> QED BY <1>3

(* Sums are added element by element.                                      *)
LEMMA SumAdds ==
    ASSUME NEW f, NEW g, NEW h, NEW S, IsFiniteSet(S),
           \A x \in S : f[x] \in Int /\ g[x] \in Int /\ h[x] = f[x] + g[x]
    PROVE  SumFunctionOnSet(h, S) = SumFunctionOnSet(f, S) + SumFunctionOnSet(g, S)
<1> DEFINE Sum(k, s) == SumFunctionOnSet(k, s)
           Good == {s \in SUBSET S : Sum(h, s) = Sum(f, s) + Sum(g, s)}
<1>1. {} \in Good
    BY SumEmpty
<1>2. ASSUME NEW s \in SUBSET S, s \in Good, NEW e \in S \ s
      PROVE  s \cup {e} \in Good
  <2>1. IsFiniteSet(s) /\ \A x \in s \cup {e} : f[x] \in Int /\ g[x] \in Int /\ h[x] \in Int
      BY FS_Subset
  <2>2. /\ Sum(f, s \cup {e}) = Sum(f, s) + f[e]
        /\ Sum(g, s \cup {e}) = Sum(g, s) + g[e]
        /\ Sum(h, s \cup {e}) = Sum(h, s) + h[e]
      BY <2>1, SumGrows
  <2>3. Sum(f, s) \in Int /\ Sum(g, s) \in Int /\ f[e] \in Int /\ g[e] \in Int
      BY <2>1, SumInt
  <2>4. Sum(h, s) = Sum(f, s) + Sum(g, s) /\ h[e] = f[e] + g[e]
      BY <1>2
  <2>5. Sum(h, s \cup {e}) = Sum(f, s \cup {e}) + Sum(g, s \cup {e})
    <3> HIDE DEF Sum
    <3> QED BY <2>2, <2>3, <2>4
  <2> QED BY <2>5
<1>3. S \in Good
  <2> HIDE DEF Good
  <2> QED BY <1>1, <1>2, SetGrows
<1> QED BY <1>3

(* The sum over two sets that do not meet.                                 *)
LEMMA SumUnion ==
    ASSUME NEW f, NEW S, NEW T, IsFiniteSet(S), IsFiniteSet(T), S \cap T = {},
           \A x \in S \cup T : f[x] \in Int
    PROVE  SumFunctionOnSet(f, S \cup T) = SumFunctionOnSet(f, S) + SumFunctionOnSet(f, T)
<1> DEFINE Sum(s) == SumFunctionOnSet(f, s)
           Good == {t \in SUBSET T : Sum(S \cup t) = Sum(S) + Sum(t)}
<1>0. Sum(S) \in Int
    BY SumInt
<1>1. {} \in Good
  <2>1. S \cup {} = S /\ Sum({}) = 0
      BY SumEmpty
  <2>2. Sum(S \cup {}) = Sum(S) + Sum({})
      BY <1>0, <2>1
  <2> QED BY <2>2
<1>2. ASSUME NEW s \in SUBSET T, s \in Good, NEW e \in T \ s
      PROVE  s \cup {e} \in Good
  <2>1. IsFiniteSet(s) /\ IsFiniteSet(S \cup s) /\ e \notin S \cup s
      BY FS_Subset, FS_Union
  <2>2. Sum(s \cup {e}) = Sum(s) + f[e] /\ Sum((S \cup s) \cup {e}) = Sum(S \cup s) + f[e]
      BY <2>1, SumGrows
  <2>3. (S \cup s) \cup {e} = S \cup (s \cup {e})
      OBVIOUS
  <2>4. Sum(s) \in Int /\ f[e] \in Int
      BY <2>1, SumInt
  <2>5. Sum(S \cup s) = Sum(S) + Sum(s)
      BY <1>2
  <2>6. Sum(S \cup (s \cup {e})) = Sum(S) + Sum(s \cup {e})
    <3>1. Sum(S \cup (s \cup {e})) = (Sum(S) + Sum(s)) + f[e]
        BY <2>2, <2>3, <2>5
    <3>2. (Sum(S) + Sum(s)) + f[e] = Sum(S) + (Sum(s) + f[e])
        BY <1>0, <2>4
    <3> QED BY <2>2, <3>1, <3>2
  <2> QED BY <2>6
<1>3. T \in Good
  <2> HIDE DEF Good
  <2> QED BY <1>1, <1>2, SetGrows
<1> QED BY <1>3

(* Zeros add up to zero.                                                   *)
LEMMA SumZero ==
    ASSUME NEW f, NEW S, IsFiniteSet(S), \A x \in S : f[x] = 0
    PROVE  SumFunctionOnSet(f, S) = 0
<1> DEFINE Good == {s \in SUBSET S : SumFunctionOnSet(f, s) = 0}
<1>1. {} \in Good
    BY SumEmpty
<1>2. ASSUME NEW s \in SUBSET S, s \in Good, NEW e \in S \ s
      PROVE  s \cup {e} \in Good
  <2>1. SumFunctionOnSet(f, s \cup {e}) = SumFunctionOnSet(f, s) + f[e]
      BY FS_Subset, SumGrows
  <2> QED BY <1>2, <2>1
<1>3. S \in Good
  <2> HIDE DEF Good
  <2> QED BY <1>1, <1>2, SetGrows
<1> QED BY <1>3

(* Only one element counts.                                                *)
LEMMA SumOfOne ==
    ASSUME NEW f, NEW S, IsFiniteSet(S), NEW e \in S, f[e] \in Int,
           \A x \in S \ {e} : f[x] = 0
    PROVE  SumFunctionOnSet(f, S) = f[e]
<1>1. SumFunctionOnSet(f, S) = f[e] + SumFunctionOnSet(f, S \ {e})
    BY SumTakenOut
<1>2. SumFunctionOnSet(f, S \ {e}) = 0
    BY SumZero, FS_Subset
<1> QED BY <1>1, <1>2

(* A sum over a subset is one over the set in which the others count       *)
(* nothing.                                                                *)
LEMMA SumWithin ==
    ASSUME NEW f, NEW S, IsFiniteSet(S), NEW T \in SUBSET S, \A x \in T : f[x] \in Int
    PROVE  SumFunctionOnSet(f, T) = SumFunctionOnSet([x \in S |-> IF x \in T THEN f[x] ELSE 0], S)
<1> DEFINE g == [x \in S |-> IF x \in T THEN f[x] ELSE 0]
<1>1. /\ \A x \in T : f[x] \in Int /\ f[x] = g[x]
      /\ \A x \in S \ T : g[x] = 0
      /\ \A x \in T \cup (S \ T) : g[x] \in Int
    OBVIOUS
<1>2. IsFiniteSet(T) /\ IsFiniteSet(S \ T) /\ T \cap (S \ T) = {} /\ T \cup (S \ T) = S
    BY FS_Subset
<1> HIDE DEF g
<1>3. SumFunctionOnSet(f, T) = SumFunctionOnSet(g, T)
    BY <1>1, <1>2, SumSame
<1>4. SumFunctionOnSet(g, S \ T) = 0
    BY <1>1, <1>2, SumZero
<1>5. SumFunctionOnSet(g, T \cup (S \ T)) = SumFunctionOnSet(g, T) + SumFunctionOnSet(g, S \ T)
    BY <1>1, <1>2, SumUnion
<1>6. SumFunctionOnSet(g, T) \in Int
    BY <1>1, <1>2, SumInt
<1>7. SumFunctionOnSet(g, S) = SumFunctionOnSet(f, T)
    BY <1>2, <1>3, <1>4, <1>5, <1>6
<1> QED BY <1>7 DEF g
=============================================================================

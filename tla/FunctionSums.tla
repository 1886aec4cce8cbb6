---------------------------- MODULE FunctionSums ----------------------------
(***************************************************************************)
(* Facts about sums of the values of a function over a finite set, as the  *)
(* operators SumFunction and SumFunctionOnSet of module Functions compute  *)
(* them.  Every balance the modules of this project keep is a sum of that  *)
(* kind: the bonds of the slash proposals, the refunds owed, the payments  *)
(* held for the jobs, the shares of the stakers, the messages in flight    *)
(* between the chains.                                                     *)
(*                                                                         *)
(* The fold behind SumFunctionOnSet is a recursive function on the subsets *)
(* of S.  What it computes is proved from two facts of the library that    *)
(* take sets as parameters: the strict subset ordering of the subsets of a *)
(* finite set is well founded, and a nonempty set has a minimal element    *)
(* for a well founded ordering.  A proof by induction is a proof that the  *)
(* set of counterexamples has no minimal element.                          *)
(*                                                                         *)
(* The folds over sequences (a batch of slashes, an order of requests) are *)
(* recursive functions on the sets of indices; the last part of the module *)
(* has what their proofs need of numbers and indices.                      *)
(***************************************************************************)
EXTENDS Integers, Sequences, FiniteSets, Functions, FiniteSetTheorems,
        NaturalsInduction, WellFoundedInduction, TLAPS

(***************************************************************************)
(* Induction over the subsets of a finite set: a nonempty family of them   *)
(* has a member that includes no other member.                             *)
(***************************************************************************)
LEMMA SmallestMember ==
  ASSUME NEW S, IsFiniteSet(S), NEW F, F \subseteq SUBSET S, F # {}
  PROVE  \E T \in F : \A U \in F : U \subseteq T => U = T
  <1>1. FiniteSubsetsOf(S) = SUBSET S
    BY FS_FiniteSubsetsOfFinite
  <1>2. IsWellFoundedOn(StrictSubsetOrdering(S), SUBSET S)
    BY <1>1, FS_StrictSubsetOrderingWellFounded
  <1>3. PICK T \in F : \A U \in F : <<U, T>> \notin StrictSubsetOrdering(S)
    BY <1>2, WFMin
  <1>4. \A U \in F : U \subseteq T => U = T
    BY <1>3 DEF StrictSubsetOrdering
  <1> QED
    BY <1>3, <1>4

-----------------------------------------------------------------------------
(***************************************************************************)
(* The recursive function of the fold, and what makes a function one.      *)
(***************************************************************************)
Pick(s) == CHOOSE x \in s : TRUE

Adds(f, g, S) ==
  f = [s \in SUBSET S |-> IF s = {} THEN 0 ELSE g[Pick(s)] + f[s \ {Pick(s)}]]

LEMMA SumIsRecursive ==
  ASSUME NEW g, NEW S
  PROVE  SumFunctionOnSet(g, S) = (CHOOSE f : Adds(f, g, S))[S]
  BY DEF SumFunctionOnSet, FoldFunctionOnSet, MapThenFoldSet, Adds, Pick

LEMMA PickMember ==
  ASSUME NEW s, s # {}
  PROVE  Pick(s) \in s /\ s \ {Pick(s)} \subseteq s /\ s \ {Pick(s)} # s
  BY DEF Pick

LEMMA AddsValue ==
  ASSUME NEW f, NEW g, NEW S, Adds(f, g, S), NEW s \in SUBSET S
  PROVE  f[s] = IF s = {} THEN 0 ELSE g[Pick(s)] + f[s \ {Pick(s)}]
  <1> DEFINE E(u) == IF u = {} THEN 0 ELSE g[Pick(u)] + f[u \ {Pick(u)}]
             h == [u \in SUBSET S |-> E(u)]
  <1>1. f = h
    BY DEF Adds
  <1>2. h[s] = E(s)
    <2> HIDE DEF E
    <2> QED
      OBVIOUS
  <1> HIDE DEF h
  <1> QED
    BY <1>1, <1>2

(***************************************************************************)
(* Two such functions agree wherever both are defined.                     *)
(***************************************************************************)
LEMMA AddsUnique ==
  ASSUME NEW g, NEW S, IsFiniteSet(S), NEW T \in SUBSET S, NEW f, NEW h,
         Adds(f, g, S), Adds(h, g, T)
  PROVE  \A s \in SUBSET T : f[s] = h[s]
  <1> DEFINE F == {s \in SUBSET T : f[s] # h[s]}
  <1> SUFFICES ASSUME F # {} PROVE FALSE
    OBVIOUS
  <1>0. F \subseteq SUBSET S
    OBVIOUS
  <1>1. PICK s \in F : \A u \in F : u \subseteq s => u = s
    <2> HIDE DEF F
    <2> QED
      BY <1>0, SmallestMember
  <1>2. /\ f[s] = IF s = {} THEN 0 ELSE g[Pick(s)] + f[s \ {Pick(s)}]
        /\ h[s] = IF s = {} THEN 0 ELSE g[Pick(s)] + h[s \ {Pick(s)}]
    <2>1. s \in SUBSET S /\ s \in SUBSET T
      OBVIOUS
    <2>2. f[s] = IF s = {} THEN 0 ELSE g[Pick(s)] + f[s \ {Pick(s)}]
      BY <2>1, AddsValue
    <2>3. h[s] = IF s = {} THEN 0 ELSE g[Pick(s)] + h[s \ {Pick(s)}]
      BY <2>1, AddsValue
    <2> QED
      BY <2>2, <2>3
  <1>3. CASE s = {}
    BY <1>2, <1>3
  <1>4. CASE s # {}
    <2>1. s \ {Pick(s)} \notin F
      BY <1>1, <1>4, PickMember
    <2>2. f[s \ {Pick(s)}] = h[s \ {Pick(s)}]
      BY <2>1
    <2> QED
      BY <1>2, <1>4, <2>2
  <1> QED
    BY <1>3, <1>4

(***************************************************************************)
(* There is such a function for every finite set: the smallest subset      *)
(* without one would get it from its own proper subsets.                   *)
(***************************************************************************)
LEMMA AddsExists ==
  ASSUME NEW g, NEW S, IsFiniteSet(S)
  PROVE  \A T \in SUBSET S : \E f : Adds(f, g, T)
  <1> DEFINE F == {T \in SUBSET S : ~ \E f : Adds(f, g, T)}
             V(u) == (CHOOSE f : Adds(f, g, u))[u]
             W(u) == IF u = {} THEN 0 ELSE g[Pick(u)] + V(u \ {Pick(u)})
  <1> SUFFICES ASSUME F # {} PROVE FALSE
    OBVIOUS
  <1>0. F \subseteq SUBSET S
    OBVIOUS
  <1>1. PICK T \in F : \A U \in F : U \subseteq T => U = T
    <2> HIDE DEF F
    <2> QED
      BY <1>0, SmallestMember
  <1>2. ASSUME NEW v \in SUBSET T, v # T PROVE V(v) = W(v)
    <2> DEFINE f == CHOOSE f : Adds(f, g, v)
               w == v \ {Pick(v)}
    <2>1. Adds(f, g, v)
      BY <1>1, <1>2
    <2>2. f[v] = IF v = {} THEN 0 ELSE g[Pick(v)] + f[w]
      <3>1. v \in SUBSET v
        OBVIOUS
      <3> QED
        BY <2>1, <3>1, AddsValue
    <2>3. CASE v = {}
      BY <2>2, <2>3
    <2>4. CASE v # {}
      <3>1. w \in SUBSET v /\ w # T
        BY <2>4, <1>2, PickMember
      <3>2. Adds(CHOOSE h : Adds(h, g, w), g, w)
        BY <1>1, <3>1
      <3>3. IsFiniteSet(v)
        BY FS_Subset
      <3>4. f[w] = V(w)
        BY <2>1, <3>1, <3>2, <3>3, AddsUnique
      <3> QED
        BY <2>2, <2>4, <3>4
    <2> QED
      BY <2>3, <2>4
  <1>3. Adds([u \in SUBSET T |-> W(u)], g, T)
    <2> DEFINE f == [u \in SUBSET T |-> W(u)]
               E(u) == IF u = {} THEN 0 ELSE g[Pick(u)] + f[u \ {Pick(u)}]
    <2> SUFFICES ASSUME NEW u \in SUBSET T PROVE W(u) = E(u)
      <3>1. [u \in SUBSET T |-> W(u)] = [u \in SUBSET T |-> E(u)]
        <4> HIDE DEF W, E
        <4> QED
          OBVIOUS
      <3> QED
        BY <3>1 DEF Adds
    <2>1. CASE u = {}
      BY <2>1
    <2>2. CASE u # {}
      <3>1. u \ {Pick(u)} \in SUBSET T /\ u \ {Pick(u)} # T
        BY <2>2, PickMember
      <3>2. f[u \ {Pick(u)}] = V(u \ {Pick(u)})
        BY <3>1, <1>2
      <3> QED
        BY <2>2, <3>2
    <2> QED
      BY <2>1, <2>2
  <1> QED
    BY <1>1, <1>3

-----------------------------------------------------------------------------
(***************************************************************************)
(* The sum of nothing, and the sum of a set from the sum of the set        *)
(* without one of its members.                                             *)
(***************************************************************************)
LEMMA SumOfNone ==
  ASSUME NEW g
  PROVE  SumFunctionOnSet(g, {}) = 0
  <1> DEFINE f == CHOOSE f : Adds(f, g, {})
  <1>1. Adds(f, g, {})
    BY AddsExists, FS_EmptySet
  <1>2. {} \in SUBSET {}
    OBVIOUS
  <1>3. f[{}] = 0
    BY <1>1, <1>2, AddsValue
  <1> QED
    BY <1>3, SumIsRecursive

LEMMA SumOfPick ==
  ASSUME NEW g, NEW S, IsFiniteSet(S), S # {}
  PROVE  SumFunctionOnSet(g, S) = g[Pick(S)] + SumFunctionOnSet(g, S \ {Pick(S)})
  <1> DEFINE w == S \ {Pick(S)}
             f == CHOOSE f : Adds(f, g, S)
             h == CHOOSE h : Adds(h, g, w)
  <1>1. w \in SUBSET S /\ S \in SUBSET S /\ w \in SUBSET w
    BY PickMember
  <1>2. Adds(f, g, S) /\ Adds(h, g, w)
    BY <1>1, AddsExists
  <1>3. f[S] = g[Pick(S)] + f[w]
    BY <1>1, <1>2, AddsValue
  <1>4. f[w] = h[w]
    <2> HIDE DEF f, h, w
    <2> QED
      BY <1>1, <1>2, AddsUnique
  <1> QED
    BY <1>3, <1>4, SumIsRecursive

(***************************************************************************)
(* Induction along the fold: a family G of subsets of S that has the empty *)
(* set, and every set it has without the picked member, has S.             *)
(***************************************************************************)
LEMMA SubsetInduction ==
  ASSUME NEW S, IsFiniteSet(S), NEW G, {} \in G,
         \A T \in SUBSET S : T # {} /\ T \ {Pick(T)} \in G => T \in G
  PROVE  S \in G
  <1> DEFINE F == (SUBSET S) \ G
  <1> SUFFICES ASSUME F # {} PROVE FALSE
    OBVIOUS
  <1>1. PICK T \in F : \A U \in F : U \subseteq T => U = T
    <2>1. F \subseteq SUBSET S
      OBVIOUS
    <2> HIDE DEF F
    <2> QED
      BY <2>1, SmallestMember
  <1>2. T # {}
    OBVIOUS
  <1> QED
    BY <1>1, <1>2, PickMember

(***************************************************************************)
(* A sum of integers is an integer, of naturals a natural.                 *)
(***************************************************************************)
LEMMA SumType ==
  ASSUME NEW S, IsFiniteSet(S), NEW g, \A x \in S : g[x] \in Int
  PROVE  SumFunctionOnSet(g, S) \in Int
  <1> DEFINE G == {T \in SUBSET S : SumFunctionOnSet(g, T) \in Int}
  <1>1. {} \in G
    BY SumOfNone
  <1>2. ASSUME NEW T \in SUBSET S, T # {}, T \ {Pick(T)} \in G PROVE T \in G
    BY <1>2, SumOfPick, FS_Subset, PickMember
  <1>3. S \in G
    <2> HIDE DEF G
    <2> QED
      BY <1>1, <1>2, SubsetInduction
  <1> QED
    BY <1>3

LEMMA SumTypeNat ==
  ASSUME NEW S, IsFiniteSet(S), NEW g, \A x \in S : g[x] \in Nat
  PROVE  SumFunctionOnSet(g, S) \in Nat
  <1> DEFINE G == {T \in SUBSET S : SumFunctionOnSet(g, T) \in Nat}
  <1>1. {} \in G
    BY SumOfNone
  <1>2. ASSUME NEW T \in SUBSET S, T # {}, T \ {Pick(T)} \in G PROVE T \in G
    BY <1>2, SumOfPick, FS_Subset, PickMember
  <1>3. S \in G
    <2> HIDE DEF G
    <2> QED
      BY <1>1, <1>2, SubsetInduction
  <1> QED
    BY <1>3

(***************************************************************************)
(* The order of the additions does not matter: any member can be taken out *)
(* of the sum.                                                             *)
(***************************************************************************)
LEMMA SumTakeOut ==
  ASSUME NEW S, IsFiniteSet(S), NEW g, \A x \in S : g[x] \in Int, NEW a \in S
  PROVE  SumFunctionOnSet(g, S) = g[a] + SumFunctionOnSet(g, S \ {a})
  <1> DEFINE Sum(T) == SumFunctionOnSet(g, T)
             F == {T \in SUBSET S : \E x \in T : Sum(T) # g[x] + Sum(T \ {x})}
  <1> SUFFICES ASSUME F # {} PROVE FALSE
    OBVIOUS
  <1>0. F \subseteq SUBSET S
    OBVIOUS
  <1>1. PICK T \in F : \A U \in F : U \subseteq T => U = T
    <2> HIDE DEF F
    <2> QED
      BY <1>0, SmallestMember
  <1>2. PICK x \in T : Sum(T) # g[x] + Sum(T \ {x})
    OBVIOUS
  <1> DEFINE y == Pick(T)
             R == T \ {x, y}
  <1>3. y \in T
    BY PickMember
  <1>4. /\ IsFiniteSet(T) /\ IsFiniteSet(T \ {x}) /\ IsFiniteSet(T \ {y})
        /\ IsFiniteSet(R)
    <2>1. /\ T \subseteq S /\ T \ {x} \subseteq S /\ T \ {y} \subseteq S
          /\ R \subseteq S
      OBVIOUS
    <2> QED
      BY <2>1, FS_Subset
  <1>5. Sum(T) = g[y] + Sum(T \ {y})
    BY <1>4, SumOfPick
  <1>6. x # y
    BY <1>2, <1>5
  <1>7. Sum(T \ {y}) = g[x] + Sum(R)
    <2>1. T \ {y} \notin F /\ T \ {y} \in SUBSET S /\ x \in T \ {y}
      BY <1>1, <1>3, <1>6
    <2>2. (T \ {y}) \ {x} = R
      OBVIOUS
    <2> QED
      BY <2>1, <2>2
  <1>8. Sum(T \ {x}) = g[y] + Sum(R)
    <2>1. T \ {x} \notin F /\ T \ {x} \in SUBSET S /\ y \in T \ {x}
      BY <1>1, <1>3, <1>6
    <2>2. (T \ {x}) \ {y} = R
      OBVIOUS
    <2> QED
      BY <2>1, <2>2
  <1>9. g[x] \in Int /\ g[y] \in Int /\ Sum(R) \in Int
    BY <1>3, <1>4, SumType
  <1> HIDE DEF Sum, R, y
  <1> QED
    BY <1>2, <1>5, <1>7, <1>8, <1>9

LEMMA SumAddOne ==
  ASSUME NEW S, IsFiniteSet(S), NEW a, a \notin S, NEW g,
         \A x \in S \union {a} : g[x] \in Int
  PROVE  /\ SumFunctionOnSet(g, S) \in Int
         /\ SumFunctionOnSet(g, S \union {a}) = SumFunctionOnSet(g, S) + g[a]
  <1>1. IsFiniteSet(S \union {a}) /\ (S \union {a}) \ {a} = S
    BY FS_AddElement
  <1>2. SumFunctionOnSet(g, S) \in Int /\ g[a] \in Int
    BY SumType
  <1>3. SumFunctionOnSet(g, S \union {a}) = g[a] + SumFunctionOnSet(g, S)
    BY <1>1, SumTakeOut
  <1> QED
    BY <1>2, <1>3

(***************************************************************************)
(* Two functions with the same values on S have the same sum, and the sum  *)
(* of two functions added point by point is the sum of the two sums.       *)
(***************************************************************************)
LEMMA SumSame ==
  ASSUME NEW S, IsFiniteSet(S), NEW f, NEW g, \A x \in S : f[x] = g[x]
  PROVE  SumFunctionOnSet(f, S) = SumFunctionOnSet(g, S)
  <1> DEFINE G == {T \in SUBSET S : SumFunctionOnSet(f, T) = SumFunctionOnSet(g, T)}
  <1>1. {} \in G
    BY SumOfNone
  <1>2. ASSUME NEW T \in SUBSET S, T # {}, T \ {Pick(T)} \in G PROVE T \in G
    BY <1>2, SumOfPick, FS_Subset, PickMember
  <1>3. S \in G
    <2> HIDE DEF G
    <2> QED
      BY <1>1, <1>2, SubsetInduction
  <1> QED
    BY <1>3

LEMMA SumPlus ==
  ASSUME NEW S, IsFiniteSet(S), NEW f, NEW g, NEW h,
         \A x \in S : f[x] \in Int /\ g[x] \in Int /\ h[x] = f[x] + g[x]
  PROVE  SumFunctionOnSet(h, S) = SumFunctionOnSet(f, S) + SumFunctionOnSet(g, S)
  <1> DEFINE Both(T) == SumFunctionOnSet(f, T) + SumFunctionOnSet(g, T)
             G == {T \in SUBSET S : SumFunctionOnSet(h, T) = Both(T)}
  <1>1. {} \in G
    BY SumOfNone
  <1>2. ASSUME NEW T \in SUBSET S, T # {}, T \ {Pick(T)} \in G PROVE T \in G
    <2> DEFINE R == T \ {Pick(T)}
    <2>1. Pick(T) \in S /\ IsFiniteSet(T) /\ R \subseteq S /\ IsFiniteSet(R)
      BY <1>2, FS_Subset, PickMember
    <2>2. /\ SumFunctionOnSet(f, T) = f[Pick(T)] + SumFunctionOnSet(f, R)
          /\ SumFunctionOnSet(g, T) = g[Pick(T)] + SumFunctionOnSet(g, R)
          /\ SumFunctionOnSet(h, T) = h[Pick(T)] + SumFunctionOnSet(h, R)
      BY <1>2, <2>1, SumOfPick
    <2>3. SumFunctionOnSet(f, R) \in Int /\ SumFunctionOnSet(g, R) \in Int
      BY <2>1, SumType
    <2>4. SumFunctionOnSet(h, R) = Both(R)
      BY <1>2
    <2> HIDE DEF R
    <2> QED
      BY <2>1, <2>2, <2>3, <2>4
  <1>3. S \in G
    <2> HIDE DEF G
    <2> QED
      BY <1>1, <1>2, SubsetInduction
  <1> QED
    BY <1>3

(***************************************************************************)
(* A sum grows with the values summed.                                     *)
(***************************************************************************)
LEMMA SumLeq ==
  ASSUME NEW S, IsFiniteSet(S), NEW f, NEW g,
         \A x \in S : f[x] \in Int /\ g[x] \in Int /\ f[x] <= g[x]
  PROVE  SumFunctionOnSet(f, S) <= SumFunctionOnSet(g, S)
  <1> DEFINE h == [x \in S |-> g[x] - f[x]]
  <1>1. SumFunctionOnSet(h, S) \in Nat
    BY SumTypeNat
  <1>2. SumFunctionOnSet(g, S) = SumFunctionOnSet(f, S) + SumFunctionOnSet(h, S)
    BY SumPlus
  <1>3. SumFunctionOnSet(f, S) \in Int
    BY SumType
  <1> HIDE DEF h
  <1> QED
    BY <1>1, <1>2, <1>3

LEMMA SumAllZero ==
  ASSUME NEW S, IsFiniteSet(S), NEW g, \A x \in S : g[x] = 0
  PROVE  SumFunctionOnSet(g, S) = 0
  <1> DEFINE sum == SumFunctionOnSet(g, S)
  <1>1. sum = sum + sum
    BY SumPlus
  <1>2. sum \in Int
    BY SumType
  <1> HIDE DEF sum
  <1>3. sum = 0
    BY <1>1, <1>2
  <1> QED
    BY <1>3 DEF sum

(***************************************************************************)
(* One value is no more than the sum of nonnegative values.                *)
(***************************************************************************)
LEMMA SumAtLeastOne ==
  ASSUME NEW S, IsFiniteSet(S), NEW g, \A x \in S : g[x] \in Nat, NEW a \in S
  PROVE  g[a] <= SumFunctionOnSet(g, S)
  <1>1. SumFunctionOnSet(g, S) = g[a] + SumFunctionOnSet(g, S \ {a})
    BY SumTakeOut
  <1>2. SumFunctionOnSet(g, S \ {a}) \in Nat
    BY SumTypeNat, FS_Subset
  <1> QED
    BY <1>1, <1>2

(***************************************************************************)
(* A change of the value at one point changes the sum by the difference.   *)
(***************************************************************************)
LEMMA SumOneChanges ==
  ASSUME NEW S, IsFiniteSet(S), NEW f, NEW g, NEW a \in S,
         \A x \in S : f[x] \in Int /\ g[x] \in Int,
         \A x \in S \ {a} : f[x] = g[x]
  PROVE  SumFunctionOnSet(g, S) = (SumFunctionOnSet(f, S) + g[a]) - f[a]
  <1>1. IsFiniteSet(S \ {a})
    BY FS_Subset
  <1>2. SumFunctionOnSet(f, S \ {a}) = SumFunctionOnSet(g, S \ {a})
    BY <1>1, SumSame
  <1>3. /\ SumFunctionOnSet(f, S) = f[a] + SumFunctionOnSet(f, S \ {a})
        /\ SumFunctionOnSet(g, S) = g[a] + SumFunctionOnSet(g, S \ {a})
    BY SumTakeOut
  <1>4. SumFunctionOnSet(f, S \ {a}) \in Int
    BY <1>1, SumType
  <1> QED
    BY <1>2, <1>3, <1>4

(***************************************************************************)
(* The sum over two sets without a common member.                          *)
(***************************************************************************)
LEMMA SumOfUnion ==
  ASSUME NEW S, NEW T, IsFiniteSet(S), IsFiniteSet(T), S \cap T = {},
         NEW g, \A x \in S \union T : g[x] \in Int
  PROVE  SumFunctionOnSet(g, S \union T)
           = SumFunctionOnSet(g, S) + SumFunctionOnSet(g, T)
  <1> DEFINE G == {U \in SUBSET T : SumFunctionOnSet(g, S \union U)
                                      = SumFunctionOnSet(g, S) + SumFunctionOnSet(g, U)}
  <1>1. {} \in G
    <2>1. SumFunctionOnSet(g, S) \in Int /\ S \union {} = S
      BY SumType
    <2> QED
      BY <2>1, SumOfNone
  <1>2. ASSUME NEW U \in SUBSET T, U # {}, U \ {Pick(U)} \in G PROVE U \in G
    <2> DEFINE a == Pick(U)
               R == U \ {a}
    <2>1. /\ a \in U /\ R \subseteq T /\ a \notin S \union R
          /\ S \union U = (S \union R) \union {a} /\ U = R \union {a}
      BY <1>2, PickMember
    <2>2. IsFiniteSet(R) /\ IsFiniteSet(S \union R)
      BY <2>1, FS_Subset, FS_Union
    <2>3. /\ SumFunctionOnSet(g, S \union U) = SumFunctionOnSet(g, S \union R) + g[a]
          /\ SumFunctionOnSet(g, U) = SumFunctionOnSet(g, R) + g[a]
      <3> HIDE DEF a, R
      <3> QED
        BY <2>1, <2>2, SumAddOne
    <2>4. SumFunctionOnSet(g, S) \in Int /\ SumFunctionOnSet(g, R) \in Int
      BY <2>1, <2>2, SumType
    <2>5. g[a] \in Int
      BY <2>1
    <2>6. SumFunctionOnSet(g, S \union R) = SumFunctionOnSet(g, S) + SumFunctionOnSet(g, R)
      BY <1>2
    <2> HIDE DEF a, R
    <2> QED
      BY <2>3, <2>4, <2>5, <2>6
  <1>3. T \in G
    <2> HIDE DEF G
    <2> QED
      BY <1>1, <1>2, SubsetInduction
  <1> QED
    BY <1>3

(***************************************************************************)
(* What is zero outside T can be summed over T alone.                      *)
(***************************************************************************)
LEMMA SumOverSupport ==
  ASSUME NEW S, IsFiniteSet(S), NEW T \in SUBSET S, NEW g,
         \A x \in S : g[x] \in Int, \A x \in S \ T : g[x] = 0
  PROVE  SumFunctionOnSet(g, S) = SumFunctionOnSet(g, T)
  <1>1. IsFiniteSet(T) /\ IsFiniteSet(S \ T) /\ S = T \union (S \ T)
    BY FS_Subset
  <1>2. SumFunctionOnSet(g, S) = SumFunctionOnSet(g, T) + SumFunctionOnSet(g, S \ T)
    <2>1. SumFunctionOnSet(g, T \union (S \ T))
            = SumFunctionOnSet(g, T) + SumFunctionOnSet(g, S \ T)
      BY <1>1, SumOfUnion
    <2> QED
      BY <1>1, <2>1
  <1>3. SumFunctionOnSet(g, S \ T) = 0
    BY <1>1, SumAllZero
  <1>4. SumFunctionOnSet(g, T) \in Int
    BY <1>1, SumType
  <1> QED
    BY <1>2, <1>3, <1>4

(***************************************************************************)
(* Sums over a set of one member and of two, of ones, and of multiples.    *)
(***************************************************************************)
LEMMA SumOfOne ==
  ASSUME NEW a, NEW g, g[a] \in Int
  PROVE  SumFunctionOnSet(g, {a}) = g[a]
  <1>1. IsFiniteSet({}) /\ {} \union {a} = {a} /\ a \notin {}
    BY FS_EmptySet
  <1>2. SumFunctionOnSet(g, {} \union {a}) = SumFunctionOnSet(g, {}) + g[a]
    BY <1>1, SumAddOne
  <1> QED
    BY <1>1, <1>2, SumOfNone

LEMMA SumOfTwo ==
  ASSUME NEW a, NEW b, a # b, NEW g, g[a] \in Int, g[b] \in Int
  PROVE  SumFunctionOnSet(g, {a, b}) = g[a] + g[b]
  <1>1. IsFiniteSet({a}) /\ {a} \union {b} = {a, b} /\ b \notin {a}
    BY FS_Singleton
  <1>2. SumFunctionOnSet(g, {a} \union {b}) = SumFunctionOnSet(g, {a}) + g[b]
    BY <1>1, SumAddOne
  <1> QED
    BY <1>1, <1>2, SumOfOne

LEMMA SumOfOnes ==
  ASSUME NEW S, IsFiniteSet(S), NEW g, \A x \in S : g[x] = 1
  PROVE  SumFunctionOnSet(g, S) = Cardinality(S)
  <1> DEFINE G == {T \in SUBSET S : SumFunctionOnSet(g, T) = Cardinality(T)}
  <1>1. {} \in G
    BY SumOfNone, FS_EmptySet
  <1>2. ASSUME NEW T \in SUBSET S, T # {}, T \ {Pick(T)} \in G PROVE T \in G
    <2> DEFINE R == T \ {Pick(T)}
    <2>1. Pick(T) \in T /\ IsFiniteSet(T) /\ IsFiniteSet(R)
      BY <1>2, FS_Subset, PickMember
    <2>2. Cardinality(R) = Cardinality(T) - 1 /\ Cardinality(T) \in Nat
      BY <2>1, FS_RemoveElement, FS_CardinalityType
    <2>3. SumFunctionOnSet(g, T) = 1 + SumFunctionOnSet(g, R)
      BY <1>2, <2>1, SumOfPick
    <2>4. SumFunctionOnSet(g, R) = Cardinality(R)
      BY <1>2
    <2> HIDE DEF R
    <2> QED
      BY <2>2, <2>3, <2>4
  <1>3. S \in G
    <2> HIDE DEF G
    <2> QED
      BY <1>1, <1>2, SubsetInduction
  <1> QED
    BY <1>3

LEMMA SumScale ==
  ASSUME NEW S, IsFiniteSet(S), NEW k \in Int, NEW g, NEW h,
         \A x \in S : g[x] \in Int /\ h[x] = k * g[x]
  PROVE  SumFunctionOnSet(h, S) = k * SumFunctionOnSet(g, S)
  <1> DEFINE G == {T \in SUBSET S : SumFunctionOnSet(h, T) = k * SumFunctionOnSet(g, T)}
  <1>1. {} \in G
    BY SumOfNone
  <1>2. ASSUME NEW T \in SUBSET S, T # {}, T \ {Pick(T)} \in G PROVE T \in G
    <2> DEFINE R == T \ {Pick(T)}
               rest == SumFunctionOnSet(g, R)
               one == g[Pick(T)]
    <2>1. Pick(T) \in S /\ IsFiniteSet(T) /\ R \subseteq S /\ IsFiniteSet(R)
      BY <1>2, FS_Subset, PickMember
    <2>2. /\ SumFunctionOnSet(g, T) = one + rest
          /\ SumFunctionOnSet(h, T) = h[Pick(T)] + SumFunctionOnSet(h, R)
      BY <1>2, <2>1, SumOfPick
    <2>3. SumFunctionOnSet(h, R) = k * rest /\ h[Pick(T)] = k * one
      BY <1>2, <2>1
    <2>4. rest \in Int /\ one \in Int
      BY <2>1, SumType
    <2>5. k * one + k * rest = k * (one + rest)
      <3> HIDE DEF one, rest
      <3> QED
        BY <2>4
    <2>6. SumFunctionOnSet(h, T) = k * SumFunctionOnSet(g, T)
      <3> HIDE DEF one, rest
      <3> QED
        BY <2>2, <2>3, <2>5
    <2> QED
      BY <2>6
  <1>3. S \in G
    <2> HIDE DEF G
    <2> QED
      BY <1>1, <1>2, SubsetInduction
  <1> QED
    BY <1>3

(***************************************************************************)
(* A table is summed by its rows or by its columns.                        *)
(***************************************************************************)
Table(row, col, S, T) == \A x \in S : \A y \in T : row[x][y] \in Int /\ row[x][y] = col[y][x]
SumsOfLines(sums, line, S, T) == \A x \in S : sums[x] = SumFunctionOnSet(line[x], T)

LEMMA SumSwap ==
  ASSUME NEW S, NEW T, IsFiniteSet(S), IsFiniteSet(T),
         NEW row, NEW col, Table(row, col, S, T),
         NEW rows, SumsOfLines(rows, row, S, T),
         NEW cols, SumsOfLines(cols, col, T, S)
  PROVE  SumFunctionOnSet(rows, S) = SumFunctionOnSet(cols, T)
  <1> USE DEF Table, SumsOfLines
  <1> DEFINE part(U) == [y \in T |-> SumFunctionOnSet(col[y], U)]
             G == {U \in SUBSET S :
                    SumFunctionOnSet(rows, U) = SumFunctionOnSet(part(U), T)}
  <1>1. {} \in G
    <2>1. \A y \in T : part({})[y] = 0
      BY SumOfNone
    <2>2. SumFunctionOnSet(part({}), T) = 0
      <3> DEFINE none == part({})
      <3>1. \A y \in T : none[y] = 0
        BY <2>1
      <3> HIDE DEF none
      <3>2. SumFunctionOnSet(none, T) = 0
        BY <3>1, SumAllZero
      <3> QED
        BY <3>2 DEF none
    <2> QED
      BY <2>2, SumOfNone
  <1>2. ASSUME NEW U \in SUBSET S, U # {}, U \ {Pick(U)} \in G PROVE U \in G
    <2> DEFINE p == Pick(U)
               R == U \ {p}
               all == part(U)
               rest == part(R)
               line == row[p]
    <2>1. p \in S /\ IsFiniteSet(U) /\ R \subseteq S /\ IsFiniteSet(R)
      BY <1>2, FS_Subset, PickMember
    <2>2. SumFunctionOnSet(rows, U) = SumFunctionOnSet(line, T) + SumFunctionOnSet(rows, R)
      BY <1>2, <2>1, SumOfPick
    <2>3. ASSUME NEW y \in T
          PROVE  line[y] \in Int /\ rest[y] \in Int /\ all[y] = line[y] + rest[y]
      <3> DEFINE c == col[y]
      <3>1. \A x \in S : c[x] \in Int /\ c[x] = row[x][y]
        OBVIOUS
      <3>2. all[y] = SumFunctionOnSet(c, U) /\ rest[y] = SumFunctionOnSet(c, R)
        OBVIOUS
      <3> HIDE DEF c
      <3>3. SumFunctionOnSet(c, U) = c[p] + SumFunctionOnSet(c, R)
        BY <1>2, <2>1, SumOfPick
      <3>4. SumFunctionOnSet(c, R) \in Int
        BY <2>1, <3>1, SumType
      <3>5. c[p] = line[y] /\ line[y] \in Int
        BY <2>1, <3>1
      <3> QED
        BY <3>2, <3>3, <3>4, <3>5
    <2>4. SumFunctionOnSet(all, T) = SumFunctionOnSet(line, T) + SumFunctionOnSet(rest, T)
      <3> HIDE DEF all, line, rest
      <3> QED
        BY <2>3, SumPlus
    <2>5. SumFunctionOnSet(rows, R) = SumFunctionOnSet(rest, T)
      BY <1>2
    <2>6. SumFunctionOnSet(rows, U) = SumFunctionOnSet(all, T)
      BY <2>2, <2>4, <2>5
    <2> QED
      BY <2>6
  <1>3. S \in G
    <2> HIDE DEF G
    <2> QED
      BY <1>1, <1>2, SubsetInduction
  <1>4. SumFunctionOnSet(rows, S) = SumFunctionOnSet(part(S), T)
    BY <1>3
  <1>5. SumFunctionOnSet(part(S), T) = SumFunctionOnSet(cols, T)
    <2> DEFINE all == part(S)
    <2>1. \A y \in T : all[y] = cols[y]
      OBVIOUS
    <2> HIDE DEF all
    <2>2. SumFunctionOnSet(all, T) = SumFunctionOnSet(cols, T)
      BY <2>1, SumSame
    <2> QED
      BY <2>2 DEF all
  <1> QED
    BY <1>4, <1>5

(***************************************************************************)
(* A sum may be taken over other names of the same summands.               *)
(***************************************************************************)
LEMMA SumRenamed ==
  ASSUME NEW S, NEW T, IsFiniteSet(S), IsFiniteSet(T), NEW b, NEW g, NEW h,
         \A x \in S : b[x] \in T /\ h[x] = g[b[x]],
         \A x, y \in S : b[x] = b[y] => x = y,
         \A t \in T : g[t] \in Int /\ \E x \in S : b[x] = t
  PROVE  SumFunctionOnSet(h, S) = SumFunctionOnSet(g, T)
  <1> DEFINE Im(U) == {b[x] : x \in U}
             G == {U \in SUBSET S :
                    SumFunctionOnSet(h, U) = SumFunctionOnSet(g, Im(U))}
  <1>1. {} \in G
    <2>1. Im({}) = {}
      OBVIOUS
    <2> QED
      BY <2>1, SumOfNone
  <1>2. ASSUME NEW U \in SUBSET S, U # {}, U \ {Pick(U)} \in G PROVE U \in G
    <2> DEFINE p == Pick(U)
               R == U \ {p}
               I == Im(R)
               t == b[p]
    <2>1. p \in U /\ p \in S /\ IsFiniteSet(U) /\ R \subseteq S
      BY <1>2, FS_Subset, PickMember
    <2>2. I \subseteq T /\ Im(U) = I \union {t} /\ t \notin I /\ t \in T
      BY <2>1
    <2>3. IsFiniteSet(I) /\ \A x \in I \union {t} : g[x] \in Int
      BY <2>2, FS_Subset
    <2>4. SumFunctionOnSet(h, U) = h[p] + SumFunctionOnSet(h, R) /\ h[p] = g[t]
      BY <1>2, <2>1, SumOfPick
    <2>5. SumFunctionOnSet(h, R) = SumFunctionOnSet(g, I)
      BY <1>2
    <2>6. /\ SumFunctionOnSet(g, I) \in Int
          /\ SumFunctionOnSet(g, I \union {t}) = SumFunctionOnSet(g, I) + g[t]
      <3>1. IsFiniteSet(I) /\ t \notin I
        BY <2>2, <2>3
      <3>2. \A x \in I \union {t} : g[x] \in Int
        BY <2>3
      <3> HIDE DEF I, t
      <3> QED
        BY ONLY <3>1, <3>2, SumAddOne
    <2>7. g[t] \in Int
      BY <2>2
    <2>8. SumFunctionOnSet(h, U) = SumFunctionOnSet(g, I \union {t})
      <3> HIDE DEF I, t, R
      <3> QED
        BY <2>4, <2>5, <2>6, <2>7
    <2> QED
      BY <2>2, <2>8
  <1>3. S \in G
    <2> HIDE DEF G
    <2> QED
      BY <1>1, <1>2, SubsetInduction
  <1>4. Im(S) = T
    OBVIOUS
  <1> QED
    BY <1>3, <1>4

-----------------------------------------------------------------------------
(***************************************************************************)
(* Numbers and sets of indices.  A fold over a sequence is a recursive     *)
(* function on the sets of its indices that takes the largest index away.  *)
(* Smallest and Largest are what Min and Max of FiniteSetsExt stand for.    *)
(***************************************************************************)
Smallest(S) == CHOOSE x \in S : \A y \in S : x =< y

Largest(S) == CHOOSE x \in S : \A y \in S : x >= y

\* A set of indices of some sequence.
Indexes(S) == \E n \in Nat : S \in SUBSET (1 .. n)

LEMMA SmallestNumber ==
  ASSUME NEW S \in SUBSET Nat, S # {}
  PROVE  Smallest(S) \in S /\ \A y \in S : Smallest(S) <= y
<1> DEFINE less == {p \in Nat \X Nat : p[1] < p[2]}
<1>0. IsWellFoundedOn(less, Nat)
  BY NatLessThanWellFounded, Zenon DEF OpToRel
<1>1. PICK x \in S : \A y \in S : <<y, x>> \notin less
  <2> HIDE DEF less
  <2> QED
    BY <1>0, WFMin
<1>2. ASSUME NEW y \in S PROVE x <= y
  <2>1. x \in Nat /\ y \in Nat
    OBVIOUS
  <2>2. <<y, x>> \in Nat \X Nat /\ <<y, x>>[1] = y /\ <<y, x>>[2] = x
    BY <2>1
  <2>3. ~(y < x)
    BY <1>1, <2>2
  <2> QED
    BY <2>1, <2>3
<1>3. \E z \in S : \A y \in S : z =< y
  BY <1>2
<1> QED
  BY <1>3 DEF Smallest

LEMMA LargestNumber ==
  ASSUME NEW n \in Nat, NEW S \in SUBSET (1 .. n), S # {}
  PROVE  Largest(S) \in S
<1> DEFINE T == {n - x : x \in S}
<1>1. T \in SUBSET Nat /\ T # {}
  <2>1. \A x \in S : n - x \in Nat
    OBVIOUS
  <2> QED
    BY <2>1
<1>2. Smallest(T) \in T /\ \A y \in T : Smallest(T) <= y
  <2> HIDE DEF T
  <2> QED
    BY <1>1, SmallestNumber
<1>3. PICK x \in S : n - x = Smallest(T)
  BY <1>2
<1>4. \A y \in S : x >= y
  <2>1. SUFFICES ASSUME NEW y \in S PROVE x >= y
    OBVIOUS
  <2>2. n - y \in T
    OBVIOUS
  <2>3. n - x <= n - y
    BY <1>2, <1>3, <2>2
  <2> QED
    BY <2>3
<1> QED
  BY <1>4 DEF Largest

LEMMA IndicesFinite ==
  ASSUME NEW n \in Int
  PROVE  IsFiniteSet(1 .. n) /\ \A S \in SUBSET (1 .. n) : IsFiniteSet(S)
<1>1. 1 \in Int
  OBVIOUS
<1>2. IsFiniteSet(1 .. n)
  BY <1>1, FS_Interval
<1> QED
  BY <1>2, FS_Subset

LEMMA LargestMember ==
  ASSUME NEW n \in Nat, NEW s \in SUBSET (1 .. n), s # {}
  PROVE  Largest(s) \in s /\ s \ {Largest(s)} \in SUBSET s /\ s \ {Largest(s)} # s
<1>1. Largest(s) \in s
  BY LargestNumber
<1> QED
  BY <1>1
=============================================================================

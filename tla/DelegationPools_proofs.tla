------------------------ MODULE DelegationPools_proofs ------------------------
(***************************************************************************)
(* Proofs about DelegationPools, for any number of delegators, operators   *)
(* and blueprints and any amounts, delays, offsets and fractions.          *)
(*                                                                         *)
(* The inductive invariant IInv is the types with the four properties of   *)
(* the books: deposits, delegated amounts, aggregates and shares.  None is *)
(* inductive by itself: a write-off takes from the deposit what the cost   *)
(* basis allows, a pool's cut from the aggregate what the pool has.        *)
(*                                                                         *)
(* An execution of requests works on the books of one delegator.  BookOK   *)
(* is IInv said of such books, together with: the pools of an operator     *)
(* with a pending slash are as they were.  Each request keeps it, whatever *)
(* became of the position since it was made; so does a fold over any order *)
(* of requests, by induction on the sets of indices (see FunctionSums).    *)
(***************************************************************************)
EXTENDS DelegationPools, FunctionSums

-----------------------------------------------------------------------------
(* Numbers.                                                                *)

LEMMA Quotient ==
  ASSUME NEW n \in Nat, NEW k \in Nat \ {0}
  PROVE  n \div k \in Nat /\ k * (n \div k) <= n /\ n < k * (n \div k) + k
OBVIOUS

LEMMA ProductType ==
  ASSUME NEW n \in Nat, NEW k \in Nat
  PROVE  n * k \in Nat
OBVIOUS

LEMMA ProductPositive ==
  ASSUME NEW n \in Nat \ {0}, NEW k \in Nat \ {0}
  PROVE  n * k \in Nat \ {0}
OBVIOUS

LEMMA ProductStep ==
  ASSUME NEW n \in Nat \ {0}, NEW k \in Nat
  PROVE  n * k = (n - 1) * k + k
OBVIOUS

LEMMA ProductMonotone ==
  ASSUME NEW n \in Nat, NEW k \in Nat, NEW m \in Nat, n <= k
  PROVE  m * n <= m * k
OBVIOUS

LEMMA ProductCancelled ==
  ASSUME NEW n \in Int, NEW k \in Int, NEW m \in Nat \ {0}, m * n <= m * k
  PROVE  n <= k
<1>1. n >= k + 1 => m * n >= m * k + m
  OBVIOUS
<1> QED
  BY <1>1

\* The smallest and the largest index of a set of them.
LEMMA MinMember ==
  ASSUME NEW S \in SUBSET Nat, S # {}
  PROVE  Min(S) \in S /\ \A y \in S : Min(S) <= y
<1>1. Smallest(S) \in S /\ \A y \in S : Smallest(S) <= y
  BY SmallestNumber
<1>2. Min(S) = Smallest(S)
  BY DEF Min, Smallest
<1> QED
  BY <1>1, <1>2

LEMMA MaxMember ==
  ASSUME NEW n \in Nat, NEW s \in SUBSET (1 .. n), s # {}
  PROVE  Max(s) \in s /\ s \ {Max(s)} \in SUBSET s /\ s \ {Max(s)} # s
<1>1. Largest(s) \in s
  BY LargestMember
<1>2. Max(s) = Largest(s)
  BY DEF Max, Largest
<1> QED
  BY <1>1, <1>2

-----------------------------------------------------------------------------
(* Sums over the entries of a sequence.                                    *)

LEMMA SumOfAll ==
  ASSUME NEW f, NEW S, DOMAIN f = S
  PROVE  SumFunction(f) = SumFunctionOnSet(f, S)
BY DEF SumFunction

LEMMA SumOfSame ==
  ASSUME NEW S, IsFiniteSet(S), NEW q \in Int, NEW g, \A x \in S : g[x] = q
  PROVE  SumFunctionOnSet(g, S) = q * Cardinality(S)
<1> DEFINE one == [x \in S |-> 1]
<1>1. \A x \in S : one[x] = 1
  OBVIOUS
<1>2. \A x \in S : one[x] \in Int /\ g[x] = q * one[x]
  OBVIOUS
<1> HIDE DEF one
<1>3. SumFunctionOnSet(one, S) = Cardinality(S)
  BY <1>1, SumOfOnes
<1>4. SumFunctionOnSet(g, S) = q * SumFunctionOnSet(one, S)
  BY <1>2, SumScale
<1> QED
  BY <1>3, <1>4

\* One entry changes.
LEMMA SumChangedAt ==
  ASSUME NEW n \in Nat, NEW i \in 1 .. n, NEW g, NEW h,
         \A k \in 1 .. n : g[k] \in Int /\ h[k] \in Int,
         \A k \in (1 .. n) \ {i} : g[k] = h[k]
  PROVE  SumFunctionOnSet(h, 1 .. n) = (SumFunctionOnSet(g, 1 .. n) + h[i]) - g[i]
<1> DEFINE D == 1 .. n
<1>0. i \in D
  OBVIOUS
<1>1. IsFiniteSet(D)
  BY IndicesFinite
<1>2. \A k \in D : g[k] \in Int /\ h[k] \in Int
  OBVIOUS
<1>3. \A k \in D \ {i} : g[k] = h[k]
  OBVIOUS
<1> HIDE DEF D
<1>4. SumFunctionOnSet(g, D) = g[i] + SumFunctionOnSet(g, D \ {i})
  BY <1>0, <1>1, <1>2, SumTakeOut
<1>5. SumFunctionOnSet(h, D) = h[i] + SumFunctionOnSet(h, D \ {i})
  BY <1>0, <1>1, <1>2, SumTakeOut
<1>6. IsFiniteSet(D \ {i})
  BY <1>1, FS_Subset
<1>7. SumFunctionOnSet(g, D \ {i}) = SumFunctionOnSet(h, D \ {i})
  BY <1>3, <1>6, SumSame
<1>8. SumFunctionOnSet(g, D \ {i}) \in Int
  BY <1>2, <1>6, SumType
<1>9. g[i] \in Int /\ h[i] \in Int
  BY <1>0, <1>2
<1> QED
  BY <1>4, <1>5, <1>7, <1>8, <1>9 DEF D

\* One entry is taken out and the last one is put in its place.
LEMMA SumSwappedOut ==
  ASSUME NEW n \in Nat \ {0}, NEW i \in 1 .. n, NEW g, \A k \in 1 .. n : g[k] \in Int,
         NEW h, \A k \in 1 .. n - 1 : h[k] = IF k = i THEN g[n] ELSE g[k]
  PROVE  SumFunctionOnSet(h, 1 .. n - 1) = SumFunctionOnSet(g, 1 .. n) - g[i]
<1> DEFINE front == 1 .. n - 1
<1>1. /\ IsFiniteSet(front) /\ n \notin front /\ 1 .. n = front \cup {n}
      /\ \A k \in front : g[k] \in Int /\ h[k] \in Int
  BY IndicesFinite
<1>2. g[n] \in Int /\ g[i] \in Int
  OBVIOUS
<1>3. SumFunctionOnSet(g, front) \in Int
  <2> HIDE DEF front
  <2> QED
    BY <1>1, SumType
<1>4. SumFunctionOnSet(g, 1 .. n) = SumFunctionOnSet(g, front) + g[n]
  <2>1. \A k \in front \cup {n} : g[k] \in Int
    BY <1>1, <1>2
  <2> HIDE DEF front
  <2>2. SumFunctionOnSet(g, front \cup {n}) = SumFunctionOnSet(g, front) + g[n]
    BY <1>1, <2>1, SumAddOne
  <2> QED
    BY <1>1, <2>2
<1>5. CASE i = n
  <2>1. \A k \in front : h[k] = g[k]
    BY <1>5
  <2>2. SumFunctionOnSet(h, front) = SumFunctionOnSet(g, front)
    <3> HIDE DEF front
    <3> QED
      BY <1>1, <2>1, SumSame
  <2> QED
    BY <1>2, <1>3, <1>4, <1>5, <2>2
<1>6. CASE i # n
  <2>1. i \in front /\ h[i] = g[n] /\ \A k \in front \ {i} : g[k] = h[k]
    BY <1>6
  <2>2. SumFunctionOnSet(h, front) = (SumFunctionOnSet(g, front) + h[i]) - g[i]
    <3> HIDE DEF front
    <3> QED
      BY <1>1, <2>1, SumOneChanges
  <2> QED
    BY <1>2, <1>3, <1>4, <2>1, <2>2
<1> QED
  BY <1>5, <1>6

-----------------------------------------------------------------------------
(* The position of an operator or of a blueprint in a list.                *)

LEMMA PositionFound ==
  ASSUME NEW T, NEW s \in Seq(T), NEW o
  PROVE  /\ PositionOf(s, o) \in 0 .. Len(s)
         /\ PositionOf(s, o) # 0 => s[PositionOf(s, o)].operator = o
         /\ PositionOf(s, o) = 0 => \A i \in DOMAIN s : s[i].operator # o
<1> DEFINE I == {i \in 1 .. Len(s) : s[i].operator = o}
<1>1. PositionOf(s, o) = IF I # {} THEN Min(I) ELSE 0
  BY Zenon DEF PositionOf, SelectInSeq
<1>2. I \in SUBSET Nat /\ I \in SUBSET (1 .. Len(s)) /\ Len(s) \in Nat /\ DOMAIN s = 1 .. Len(s)
  OBVIOUS
<1>3. CASE I # {}
  <2>1. Min(I) \in I
    <3> HIDE DEF I
    <3> QED
      BY <1>2, <1>3, MinMember
  <2> QED
    BY <1>1, <1>2, <1>3, <2>1
<1>4. CASE I = {}
  BY <1>1, <1>2, <1>4
<1> QED
  BY <1>3, <1>4

PlaceIn(list, b) == SelectInSeq(list, LAMBDA x : x = b)

LEMMA PlaceFound ==
  ASSUME NEW T, NEW s \in Seq(T), NEW b, b \in ToSet(s)
  PROVE  PlaceIn(s, b) \in 1 .. Len(s) /\ s[PlaceIn(s, b)] = b
<1> DEFINE I == {i \in 1 .. Len(s) : s[i] = b}
<1>1. PlaceIn(s, b) = IF I # {} THEN Min(I) ELSE 0
  BY Zenon DEF PlaceIn, SelectInSeq
<1>2. I \in SUBSET Nat /\ I # {}
  BY DEF ToSet
<1>3. Min(I) \in I
  <2> HIDE DEF I
  <2> QED
    BY <1>2, MinMember
<1> QED
  BY <1>1, <1>2, <1>3

-----------------------------------------------------------------------------
(* What the operators of the model return.                                 *)

Lists == {list \in Seq(Blueprints) : IsInjective(list)}

LEMMA SetsFinite ==
  /\ IsFiniteSet(Delegators) /\ IsFiniteSet(Operators) /\ IsFiniteSet(Blueprints)
  /\ IsFiniteSet(Pools) /\ \A S \in SUBSET Pools : IsFiniteSet(S)
  /\ IsFiniteSet({All}) /\ All \notin Blueprints
<1>1. IsFiniteSet(Blueprints \cup {All}) /\ Blueprints \cup {All} = Pools
  BY PoolAssumption, FS_AddElement DEF Pools
<1> QED
  BY <1>1, PoolAssumption, FS_Subset, FS_Singleton

LEMMA ListParts ==
  ASSUME NEW list \in Lists
  PROVE  /\ Len(list) \in Nat /\ DOMAIN list = 1 .. Len(list)
         /\ list \in [1 .. Len(list) -> Blueprints]
         /\ \A i, j \in 1 .. Len(list) : list[i] = list[j] => i = j
         /\ ToSet(list) \in SUBSET Blueprints /\ ToSet(list) \in SUBSET Pools
         /\ IsFiniteSet(ToSet(list)) /\ All \notin ToSet(list)
<1>1. list \in Seq(Blueprints) /\ IsInjective(list)
  BY DEF Lists
<1>2. /\ Len(list) \in Nat /\ DOMAIN list = 1 .. Len(list)
      /\ list \in [1 .. Len(list) -> Blueprints]
  BY <1>1
<1>3. \A i, j \in 1 .. Len(list) : list[i] = list[j] => i = j
  BY <1>1, <1>2 DEF IsInjective
<1>4. ToSet(list) \in SUBSET Blueprints
  BY <1>2 DEF ToSet
<1>5. ToSet(list) \in SUBSET Pools
  BY <1>4 DEF Pools
<1> QED
  BY <1>2, <1>3, <1>4, <1>5, SetsFinite

\* The amounts keyed by the blueprints of the list are the amounts of its places.
LEMMA KeyedValues ==
  ASSUME NEW list \in Lists, NEW f
  PROVE  /\ DOMAIN ByBlueprint(list, f) = ToSet(list)
         /\ \A b \in ToSet(list) : /\ PlaceIn(list, b) \in 1 .. Len(list)
                                   /\ list[PlaceIn(list, b)] = b
                                   /\ ByBlueprint(list, f)[b] = f[PlaceIn(list, b)]
<1>1. ByBlueprint(list, f) = [b \in ToSet(list) |-> f[PlaceIn(list, b)]]
  BY Zenon DEF ByBlueprint, PlaceIn
<1>2. list \in Seq(Blueprints)
  BY DEF Lists
<1>3. \A b \in ToSet(list) : PlaceIn(list, b) \in 1 .. Len(list) /\ list[PlaceIn(list, b)] = b
  BY <1>2, PlaceFound
<1> QED
  BY <1>1, <1>3

LEMMA KeyedType ==
  ASSUME NEW list \in Lists, NEW f, \A k \in 1 .. Len(list) : f[k] \in Nat
  PROVE  ByBlueprint(list, f) \in [ToSet(list) -> Nat]
<1>1. ByBlueprint(list, f) = [b \in ToSet(list) |-> f[PlaceIn(list, b)]]
  BY Zenon DEF ByBlueprint, PlaceIn
<1>2. \A b \in ToSet(list) : f[PlaceIn(list, b)] \in Nat
  BY KeyedValues
<1> QED
  BY <1>1, <1>2

LEMMA KeyedSum ==
  ASSUME NEW list \in Lists, NEW f, \A k \in 1 .. Len(list) : f[k] \in Nat
  PROVE  SumFunctionOnSet(ByBlueprint(list, f), ToSet(list))
           = SumFunctionOnSet(f, 1 .. Len(list))
<1> DEFINE S == ToSet(list)
           T == 1 .. Len(list)
           place == [b \in S |-> PlaceIn(list, b)]
           h == ByBlueprint(list, f)
<1>1. IsFiniteSet(S) /\ IsFiniteSet(T)
  BY ListParts, IndicesFinite
<1>2. \A b \in S : place[b] \in T /\ list[place[b]] = b /\ h[b] = f[place[b]]
  <2>1. \A b \in S : place[b] = PlaceIn(list, b)
    OBVIOUS
  <2> HIDE DEF place
  <2> QED
    BY <2>1, KeyedValues
<1>3. \A x, y \in S : place[x] = place[y] => x = y
  <2> HIDE DEF place, S, T
  <2> QED
    BY <1>2
<1>4. \A t \in T : f[t] \in Int /\ \E x \in S : place[x] = t
  <2>1. SUFFICES ASSUME NEW t \in T PROVE f[t] \in Int /\ \E x \in S : place[x] = t
    OBVIOUS
  <2>2. list[t] \in S
    BY ListParts DEF ToSet
  <2>3. place[list[t]] \in T /\ list[place[list[t]]] = list[t]
    <3> HIDE DEF place, S, T
    <3> QED
      BY <1>2, <2>2
  <2>4. place[list[t]] = t
    <3> HIDE DEF place
    <3> QED
      BY <2>3, ListParts
  <2> HIDE DEF place, S
  <2> QED
    BY <2>2, <2>4
<1>5. \A x \in S : place[x] \in T /\ h[x] = f[place[x]]
  BY <1>2
<1> HIDE DEF place, S, T, h
<1>6. SumFunctionOnSet(h, S) = SumFunctionOnSet(f, T)
  BY <1>1, <1>3, <1>4, <1>5, SumRenamed
<1> QED
  BY <1>6 DEF h, S, T

\* Equal parts, and the rest for the last.
LEMMA PartsAddUp ==
  ASSUME NEW n \in Nat \ {0}, NEW amount \in Nat
  PROVE  /\ Parts(n, amount) \in [1 .. n -> Nat]
         /\ SumFunctionOnSet(Parts(n, amount), 1 .. n) = amount
<1> DEFINE q == amount \div n
           m == n - 1
           last == amount - m * q
           p == Parts(n, amount)
           front == 1 .. m
<1>1. q \in Nat /\ n * q <= amount
  BY Quotient
<1>2. m \in Nat /\ m * q \in Nat /\ m * q <= amount
  <2>1. m \in Nat /\ n * q = m * q + q
    <3> HIDE DEF q
    <3> QED
      BY <1>1, ProductStep
  <2>2. m * q \in Nat
    BY <1>1, <2>1, ProductType
  <2> HIDE DEF m, q
  <2> QED
    BY <1>1, <2>1, <2>2
<1>3. p = [k \in 1 .. n |-> IF k < n THEN q ELSE last]
  BY DEF Parts
<1>4. last \in Nat
  BY <1>2
<1> HIDE DEF q, last, p
<1>5. p \in [1 .. n -> Nat] /\ p[n] = last /\ \A k \in front : p[k] = q
  BY <1>1, <1>3, <1>4
<1>6. IsFiniteSet(front) /\ 1 .. n = front \cup {n} /\ n \notin front
  BY <1>2, IndicesFinite
<1>7. SumFunctionOnSet(p, front) = q * Cardinality(front)
  <2>1. q \in Int
    BY <1>1
  <2> HIDE DEF front
  <2> QED
    BY <1>5, <1>6, <2>1, SumOfSame
<1>8. Cardinality(front) = m
  BY <1>2, FS_Interval
<1>9. SumFunctionOnSet(p, 1 .. n) = SumFunctionOnSet(p, front) + p[n]
  <2>1. \A k \in front \cup {n} : p[k] \in Int
    BY <1>5, <1>6
  <2> HIDE DEF front
  <2>2. SumFunctionOnSet(p, front \cup {n}) = SumFunctionOnSet(p, front) + p[n]
    BY <1>6, <2>1, SumAddOne
  <2> QED
    BY <1>6, <2>2
<1>10. SumFunctionOnSet(p, 1 .. n) = amount
  <2>1. q * m = m * q
    BY <1>1, <1>2
  <2>2. last = amount - m * q
    BY DEF last
  <2> HIDE DEF m
  <2> QED
    BY <1>2, <1>5, <1>7, <1>8, <1>9, <2>1, <2>2
<1> QED
  BY <1>5, <1>10 DEF p

\* What a request takes from the pools of its list: no more in the front than there is.
LEMMA SpreadType ==
  ASSUME NEW list \in Lists, list # <<>>, NEW held \in [Blueprints -> Nat], NEW shares \in Nat
  PROVE  \A k \in 1 .. Len(list) : Spread(list, held, shares)[k] \in Nat
<1> DEFINE n == Len(list)
           m == n - 1
           h == [k \in 1 .. n |-> held[list[k]]]
           all == SumFunctionOnSet(h, 1 .. n)
           front == [k \in 1 .. m |->
                      IF all > 0 THEN (shares * held[list[k]]) \div all ELSE shares \div n]
           sum == SumFunctionOnSet(front, 1 .. m)
<1>1. n \in Nat \ {0} /\ m \in Nat /\ list \in [1 .. n -> Blueprints]
  BY ListParts DEF Lists
<1>2. /\ IsFiniteSet(1 .. n) /\ IsFiniteSet(1 .. m) /\ 1 .. m \in SUBSET (1 .. n)
      /\ n \notin 1 .. m /\ 1 .. n = (1 .. m) \cup {n}
  BY <1>1, IndicesFinite
<1>3. Spread(list, held, shares) = [k \in 1 .. n |-> IF k < n THEN front[k] ELSE shares - sum]
  <2>1. SumFunction(h) = all
    <3>1. DOMAIN h = 1 .. n
      OBVIOUS
    <3> HIDE DEF h
    <3> QED
      BY <3>1, SumOfAll
  <2>2. SumFunction(front) = sum
    <3>1. DOMAIN front = 1 .. m
      OBVIOUS
    <3> HIDE DEF front
    <3> QED
      BY <3>1, SumOfAll
  <2> DEFINE front2 == [k \in 1 .. Len(list) - 1 |->
                         IF SumFunction(h) > 0 THEN (shares * held[list[k]]) \div SumFunction(h)
                         ELSE shares \div Len(list)]
  <2>3. Spread(list, held, shares)
          = [k \in 1 .. n |-> IF k < n THEN front2[k] ELSE shares - SumFunction(front2)]
    BY Zenon DEF Spread
  <2>4. front2 = front
    <3> HIDE DEF h, all
    <3> QED
      BY <2>1
  <2> HIDE DEF front, front2, sum
  <2> QED
    BY <2>2, <2>3, <2>4
<1>4. \A k \in 1 .. n : h[k] \in Nat /\ h[k] = held[list[k]]
  BY <1>1
<1>5. all \in Nat
  <2> HIDE DEF h
  <2> QED
    BY <1>2, <1>4, SumTypeNat
<1>6. (\A k \in 1 .. m : front[k] \in Nat) /\ sum <= shares /\ sum \in Nat
  <2>1. CASE all > 0
    <3> HIDE DEF all
    <3>1. all \in Nat \ {0}
      BY <1>5, <2>1
    <3>2. \A k \in 1 .. m : h[k] \in Nat /\ front[k] = (shares * h[k]) \div all
      BY <1>2, <1>4, <2>1
    <3> DEFINE exact == [k \in 1 .. m |-> shares * h[k]]
               scaled == [k \in 1 .. m |-> all * front[k]]
    <3>3. \A k \in 1 .. m : exact[k] = shares * h[k] /\ scaled[k] = all * front[k]
      BY Zenon
    <3> HIDE DEF exact, scaled, front, h
    <3>4. ASSUME NEW k \in 1 .. m
          PROVE  front[k] \in Nat /\ exact[k] \in Nat /\ scaled[k] \in Nat /\ scaled[k] <= exact[k]
      <4>1. h[k] \in Nat /\ front[k] = (shares * h[k]) \div all
        BY <3>2
      <4>2. shares * h[k] \in Nat
        BY <4>1, ProductType
      <4>3. front[k] \in Nat /\ all * front[k] <= shares * h[k]
        BY <3>1, <4>1, <4>2, Quotient
      <4>4. all * front[k] \in Nat
        BY <3>1, <4>3, ProductType
      <4> QED
        BY <3>3, <4>2, <4>3, <4>4
    <3>5. sum \in Nat
      BY <1>2, <3>4, SumTypeNat
    <3>6. SumFunctionOnSet(scaled, 1 .. m) <= SumFunctionOnSet(exact, 1 .. m)
      <4>1. \A k \in 1 .. m : scaled[k] \in Int /\ exact[k] \in Int /\ scaled[k] <= exact[k]
        BY <3>4
      <4> QED
        BY <1>2, <4>1, SumLeq
    <3>7. SumFunctionOnSet(scaled, 1 .. m) = all * sum
      <4>1. \A k \in 1 .. m : front[k] \in Int /\ scaled[k] = all * front[k]
        BY <3>3, <3>4
      <4>2. all \in Int
        BY <3>1
      <4> QED
        BY <1>2, <4>1, <4>2, SumScale
    <3> DEFINE head == SumFunctionOnSet(h, 1 .. m)
    <3>8. SumFunctionOnSet(exact, 1 .. m) = shares * head
      <4>1. \A k \in 1 .. m : h[k] \in Int /\ exact[k] = shares * h[k]
        BY <3>2, <3>3
      <4>2. shares \in Int
        OBVIOUS
      <4> QED
        BY <1>2, <4>1, <4>2, SumScale
    <3>9. head \in Nat /\ head <= all
      <4>1. head \in Nat
        BY <1>2, <3>2, SumTypeNat
      <4>2. \A k \in (1 .. m) \cup {n} : h[k] \in Int
        <5>1. \A k \in 1 .. n : h[k] \in Int
          BY <1>4
        <5> HIDE DEF m, n
        <5> QED
          BY <1>2, <5>1
      <4>3. SumFunctionOnSet(h, (1 .. m) \cup {n}) = head + h[n]
        BY <1>2, <4>2, SumAddOne
      <4>4. h[n] \in Nat
        BY <1>1, <1>4
      <4>5. all = SumFunctionOnSet(h, 1 .. n)
        BY DEF all
      <4>6. all = head + h[n]
        BY <1>2, <4>3, <4>5
      <4> HIDE DEF head
      <4> QED
        BY <4>1, <4>4, <4>6
    <3> HIDE DEF head, sum
    <3>10. shares * head <= shares * all
      BY <3>1, <3>9, ProductMonotone
    <3>11. shares * all = all * shares /\ all * sum \in Nat /\ shares * head \in Nat
      BY <3>1, <3>5, <3>9, ProductType
    <3>12. all * sum <= all * shares
      <4> DEFINE left == all * sum
                 middle == shares * head
                 right == shares * all
      <4>1. left <= middle /\ middle <= right /\ right = all * shares
        BY <3>6, <3>7, <3>8, <3>10, <3>11
      <4>2. left \in Int /\ middle \in Int /\ right \in Int
        BY <3>1, <3>5, <3>9, ProductType
      <4>3. left <= right
        <5> HIDE DEF left, middle, right
        <5> QED
          BY <4>1, <4>2
      <4> QED
        BY <4>1, <4>3
    <3>13. sum <= shares
      BY <3>1, <3>5, <3>12, ProductCancelled
    <3> QED
      BY <3>4, <3>5, <3>13
  <2>2. CASE ~(all > 0)
    <3> DEFINE q == shares \div n
    <3>1. q \in Nat /\ n * q <= shares
      BY <1>1, Quotient
    <3>2. \A k \in 1 .. m : front[k] = q
      BY <2>2
    <3> HIDE DEF front, q
    <3>3. sum = q * m
      <4>1. Cardinality(1 .. m) = m
        BY <1>1, FS_Interval
      <4>2. q \in Int
        BY <3>1
      <4>3. sum = q * Cardinality(1 .. m)
        BY <1>2, <3>2, <4>2, SumOfSame
      <4> QED
        BY <4>1, <4>3
    <3>4. n * q = m * q + q /\ m * q \in Nat /\ m * q = q * m
      BY <1>1, <3>1, ProductStep, ProductType
    <3>5. sum \in Nat /\ sum <= shares
      <4> DEFINE part == m * q
      <4>1. part \in Nat /\ sum = part /\ part + q <= shares
        BY <3>1, <3>3, <3>4
      <4> HIDE DEF part, sum
      <4> QED
        BY <3>1, <4>1
    <3> QED
      BY <3>1, <3>2, <3>5
  <2> QED
    BY <2>1, <2>2
<1> HIDE DEF front, sum
<1>7. \A k \in 1 .. n : k < n => k \in 1 .. m
  BY <1>1
<1> QED
  BY <1>3, <1>6, <1>7

Position == [operator : Operators, shares : Nat, mode : Modes]

LEMMA BurntType ==
  ASSUME NEW position \in Position, NEW list \in Lists, NEW held \in [Blueprints -> Nat],
         NEW shares \in Nat
  PROVE  LET burnt == Burnt(position, list, held, shares)
         IN  /\ DOMAIN burnt \in SUBSET Pools
             /\ burnt \in [DOMAIN burnt -> Nat]
             /\ All \in DOMAIN burnt <=> position.mode = "All"
             /\ position.mode = "All" => burnt[All] = shares
<1> DEFINE burnt == Burnt(position, list, held, shares)
<1>1. CASE position.mode = "All"
  <2>1. burnt = [p \in {All} |-> shares]
    BY <1>1 DEF Burnt
  <2> HIDE DEF burnt
  <2>2. DOMAIN burnt = {All} /\ burnt[All] = shares /\ burnt \in [{All} -> Nat]
    BY <2>1
  <2>3. {All} \in SUBSET Pools
    BY DEF Pools
  <2>4. /\ DOMAIN burnt \in SUBSET Pools
        /\ burnt \in [DOMAIN burnt -> Nat]
        /\ All \in DOMAIN burnt <=> position.mode = "All"
        /\ position.mode = "All" => burnt[All] = shares
    BY <1>1, <2>2, <2>3
  <2> QED
    BY <2>4 DEF burnt
<1>2. CASE position.mode # "All" /\ list = <<>>
  <2>1. burnt = <<>>
    BY <1>2 DEF Burnt
  <2> HIDE DEF burnt
  <2>2. DOMAIN burnt = {} /\ burnt \in [{} -> Nat]
    BY <2>1
  <2>3. /\ DOMAIN burnt \in SUBSET Pools
        /\ burnt \in [DOMAIN burnt -> Nat]
        /\ All \in DOMAIN burnt <=> position.mode = "All"
        /\ position.mode = "All" => burnt[All] = shares
    BY <1>2, <2>2
  <2> QED
    BY <2>3 DEF burnt
<1>3. CASE position.mode # "All" /\ list # <<>>
  <2>1. burnt = ByBlueprint(list, Spread(list, held, shares))
    BY <1>3 DEF Burnt
  <2>2. \A k \in 1 .. Len(list) : Spread(list, held, shares)[k] \in Nat
    BY <1>3, SpreadType
  <2>3. burnt \in [ToSet(list) -> Nat]
    BY <2>1, <2>2, KeyedType
  <2>4. ToSet(list) \in SUBSET Pools /\ All \notin ToSet(list)
    BY ListParts
  <2> HIDE DEF burnt
  <2>5. /\ DOMAIN burnt \in SUBSET Pools
        /\ burnt \in [DOMAIN burnt -> Nat]
        /\ All \in DOMAIN burnt <=> position.mode = "All"
        /\ position.mode = "All" => burnt[All] = shares
    BY <1>3, <2>3, <2>4
  <2> QED
    BY <2>5 DEF burnt
<1> QED
  BY <1>1, <1>2, <1>3

-----------------------------------------------------------------------------
(* Lists of positions, and what they hold in the pools of All mode.        *)

PositionLists ==
  {s \in Seq(Position) : \A i, j \in DOMAIN s : s[i].operator = s[j].operator => i = j}

\* The part of one position.
Share(p, o) == IF p.operator = o /\ p.mode = "All" THEN p.shares ELSE 0

LEMMA PositionParts ==
  ASSUME NEW s \in PositionLists
  PROVE  /\ s \in Seq(Position) /\ Len(s) \in Nat /\ DOMAIN s = 1 .. Len(s)
         /\ s \in [1 .. Len(s) -> Position] /\ IsFiniteSet(1 .. Len(s))
         /\ \A i \in 1 .. Len(s) : s[i] \in Position
         /\ \A i, j \in 1 .. Len(s) : s[i].operator = s[j].operator => i = j
<1>1. s \in Seq(Position)
  BY DEF PositionLists
<1>2. Len(s) \in Nat /\ DOMAIN s = 1 .. Len(s) /\ s \in [1 .. Len(s) -> Position]
  BY <1>1
<1>3. IsFiniteSet(1 .. Len(s))
  BY <1>2, IndicesFinite
<1> QED
  BY <1>1, <1>2, <1>3 DEF PositionLists

LEMMA ShareType ==
  ASSUME NEW p \in Position, NEW o
  PROVE  Share(p, o) \in Nat
BY DEF Position, Share

\* No more positions than operators: every position has an index in the lists.
LEMMA PositionsBounded ==
  ASSUME NEW s \in PositionLists
  PROVE  Len(s) <= Cardinality(Operators) /\ 1 .. Len(s) \in SUBSET Indices
<1> DEFINE n == Len(s)
           f == [i \in 1 .. n |-> s[i].operator]
<1>1. \A i \in 1 .. n : s[i].operator \in Operators
  BY PositionParts DEF Position
<1>2. f \in [1 .. n -> Operators] /\ \A i, j \in 1 .. n : f[i] = f[j] => i = j
  BY <1>1, PositionParts
<1>3. f \in Injection(1 .. n, Operators)
  <2> HIDE DEF f, n
  <2> QED
    BY <1>2 DEF Injection, IsInjective
<1>4. Cardinality(1 .. n) <= Cardinality(Operators)
  <2> HIDE DEF f, n
  <2> QED
    BY <1>3, SetsFinite, FS_Injection
<1>5. n \in Nat /\ Cardinality(Operators) \in Nat
  BY PositionParts, SetsFinite, FS_CardinalityType
<1>6. Cardinality(1 .. n) = n
  <2> HIDE DEF n
  <2>1. 1 \in Int /\ n \in Int
    BY <1>5
  <2>2. Cardinality(1 .. n) = IF 1 > n THEN 0 ELSE n - 1 + 1
    BY <2>1, FS_Interval
  <2> QED
    BY <1>5, <2>2
<1> QED
  BY <1>4, <1>5, <1>6 DEF Indices

LEMMA HeldSum ==
  ASSUME NEW s \in PositionLists, NEW o, NEW w, \A i \in 1 .. Len(s) : w[i] = Share(s[i], o)
  PROVE  /\ HeldInAll(s, o) = SumFunctionOnSet(w, 1 .. Len(s))
         /\ HeldInAll(s, o) \in Nat /\ \A i \in 1 .. Len(s) : w[i] \in Nat
<1> DEFINE f == [i \in DOMAIN s |->
                  IF s[i].operator = o /\ s[i].mode = "All" THEN s[i].shares ELSE 0]
<1>1. HeldInAll(s, o) = SumFunction(f)
  BY DEF HeldInAll
<1>2. DOMAIN f = 1 .. Len(s) /\ \A i \in 1 .. Len(s) : f[i] = w[i]
  BY PositionParts DEF Share
<1>3. \A i \in 1 .. Len(s) : w[i] \in Nat
  BY PositionParts, ShareType
<1> HIDE DEF f
<1>4. SumFunction(f) = SumFunctionOnSet(f, 1 .. Len(s))
  BY <1>2, SumOfAll
<1>5. SumFunctionOnSet(f, 1 .. Len(s)) = SumFunctionOnSet(w, 1 .. Len(s))
  BY <1>2, PositionParts, SumSame
<1>6. SumFunctionOnSet(w, 1 .. Len(s)) \in Nat
  BY <1>3, PositionParts, SumTypeNat
<1> QED
  BY <1>1, <1>3, <1>4, <1>5, <1>6

LEMMA HeldType ==
  ASSUME NEW s \in PositionLists, NEW o
  PROVE  HeldInAll(s, o) \in Nat
<1> DEFINE w == [i \in 1 .. Len(s) |-> Share(s[i], o)]
<1>1. \A i \in 1 .. Len(s) : w[i] = Share(s[i], o)
  OBVIOUS
<1> HIDE DEF w
<1> QED
  BY <1>1, HeldSum

\* Swap and pop takes one entry out.
LEMMA SwapAndPopType ==
  ASSUME NEW T, NEW s \in Seq(T), NEW i \in 1 .. Len(s)
  PROVE  /\ SwapAndPop(s, i) \in Seq(T)
         /\ Len(SwapAndPop(s, i)) = Len(s) - 1
         /\ DOMAIN SwapAndPop(s, i) = 1 .. Len(s) - 1
         /\ \A k \in 1 .. Len(s) - 1 :
              SwapAndPop(s, i)[k] = IF k = i THEN s[Len(s)] ELSE s[k]
<1> DEFINE n == Len(s)
           t == [k \in 1 .. n - 1 |-> IF k = i THEN s[n] ELSE s[k]]
<1>1. n \in Nat \ {0} /\ n - 1 \in Nat /\ \A k \in 1 .. n : s[k] \in T
  OBVIOUS
<1>2. t \in [1 .. n - 1 -> T]
  BY <1>1
<1>3. t \in Seq(T) /\ Len(t) = n - 1 /\ DOMAIN t = 1 .. n - 1
  BY <1>1, <1>2
<1>4. SwapAndPop(s, i) = t
  BY DEF SwapAndPop
<1> QED
  BY <1>3, <1>4

LEMMA PositionRemoved ==
  ASSUME NEW s \in PositionLists, NEW i \in 1 .. Len(s)
  PROVE  /\ SwapAndPop(s, i) \in PositionLists
         /\ \A o : HeldInAll(SwapAndPop(s, i), o) = HeldInAll(s, o) - Share(s[i], o)
<1> DEFINE t == SwapAndPop(s, i)
           n == Len(s)
<1>1. /\ n \in Nat \ {0} /\ \A k, j \in 1 .. n : s[k].operator = s[j].operator => k = j
      /\ s \in Seq(Position)
  BY PositionParts
<1>2. /\ t \in Seq(Position) /\ Len(t) = n - 1 /\ DOMAIN t = 1 .. n - 1
      /\ \A k \in 1 .. n - 1 : t[k] = IF k = i THEN s[n] ELSE s[k]
  BY <1>1, SwapAndPopType
<1> HIDE DEF t, n
<1>3. t \in PositionLists
  <2>1. ASSUME NEW k \in 1 .. n - 1, NEW j \in 1 .. n - 1, t[k].operator = t[j].operator
        PROVE  k = j
    <3> DEFINE source(x) == IF x = i THEN n ELSE x
    <3>1. source(k) \in 1 .. n /\ source(j) \in 1 .. n
      BY <1>1
    <3>2. t[k] = s[source(k)] /\ t[j] = s[source(j)]
      BY <1>2
    <3>3. source(k) = source(j)
      <4> HIDE DEF source
      <4> QED
        BY <1>1, <2>1, <3>1, <3>2
    <3> QED
      BY <1>1, <3>3
  <2> QED
    BY <1>2, <2>1 DEF PositionLists
<1>4. ASSUME NEW o PROVE HeldInAll(t, o) = HeldInAll(s, o) - Share(s[i], o)
  <2> DEFINE g == [k \in 1 .. n |-> Share(s[k], o)]
             h == [k \in 1 .. n - 1 |-> Share(t[k], o)]
  <2>1. \A k \in 1 .. Len(s) : g[k] = Share(s[k], o)
    BY DEF n
  <2>2. \A k \in 1 .. Len(t) : h[k] = Share(t[k], o)
    BY <1>2
  <2>3. \A k \in 1 .. n - 1 : h[k] = IF k = i THEN g[n] ELSE g[k]
    BY <1>1, <1>2
  <2>4. i \in 1 .. n
    BY DEF n
  <2> HIDE DEF g, h
  <2>5. HeldInAll(s, o) = SumFunctionOnSet(g, 1 .. n) /\ \A k \in 1 .. n : g[k] \in Int
    <3>1. /\ HeldInAll(s, o) = SumFunctionOnSet(g, 1 .. Len(s))
          /\ \A k \in 1 .. Len(s) : g[k] \in Nat
      BY <2>1, HeldSum
    <3>2. n = Len(s)
      BY DEF n
    <3> QED
      BY <3>1, <3>2
  <2>6. HeldInAll(t, o) = SumFunctionOnSet(h, 1 .. n - 1)
    BY <1>2, <1>3, <2>2, HeldSum
  <2>7. SumFunctionOnSet(h, 1 .. n - 1) = SumFunctionOnSet(g, 1 .. n) - g[i]
    BY <1>1, <2>3, <2>4, <2>5, SumSwappedOut
  <2> QED
    BY <2>1, <2>5, <2>6, <2>7
<1> QED
  BY <1>3, <1>4 DEF t

\* A position with other shares.
WithShares(s, i, x) == [s EXCEPT ![i].shares = x]

LEMMA PositionChanged ==
  ASSUME NEW s \in PositionLists, NEW i \in 1 .. Len(s), NEW x \in Nat,
         NEW t, t = WithShares(s, i, x)
  PROVE  /\ t \in PositionLists
         /\ t[i] \in Position /\ t[i].operator = s[i].operator
         /\ t[i].mode = s[i].mode /\ t[i].shares = x
         /\ \A o : HeldInAll(t, o) = (HeldInAll(s, o) + Share(t[i], o)) - Share(s[i], o)
<1> DEFINE n == Len(s)
<1>1. /\ n \in Nat /\ \A k, j \in 1 .. n : s[k].operator = s[j].operator => k = j
      /\ s \in [1 .. n -> Position] /\ IsFiniteSet(1 .. n) /\ i \in 1 .. n
  BY PositionParts
<1>0. t = [s EXCEPT ![i].shares = x]
  BY DEF WithShares
<1>2. /\ t[i] = [s[i] EXCEPT !.shares = x] /\ s[i] \in Position
      /\ \A k \in 1 .. n : k # i => t[k] = s[k]
  BY <1>0, <1>1
<1>3. /\ t[i] \in Position /\ t[i].operator = s[i].operator
      /\ t[i].mode = s[i].mode /\ t[i].shares = x
  BY <1>2 DEF Position
<1>4. t \in [1 .. n -> Position]
  BY <1>0, <1>1, <1>2, <1>3
<1> HIDE DEF n
<1>5. t \in Seq(Position) /\ Len(t) = n /\ DOMAIN t = 1 .. n
  BY <1>1, <1>4
<1>6. t \in PositionLists
  <2>1. \A k \in 1 .. n : t[k].operator = s[k].operator
    BY <1>2, <1>3
  <2> QED
    BY ONLY <1>1, <1>5, <2>1 DEF PositionLists
<1>7. ASSUME NEW o PROVE HeldInAll(t, o) = (HeldInAll(s, o) + Share(t[i], o)) - Share(s[i], o)
  <2> DEFINE g == [k \in 1 .. n |-> Share(s[k], o)]
             h == [k \in 1 .. n |-> Share(t[k], o)]
  <2>1. \A k \in 1 .. Len(s) : g[k] = Share(s[k], o)
    BY DEF n
  <2>2. \A k \in 1 .. Len(t) : h[k] = Share(t[k], o)
    BY <1>5
  <2>3. g[i] = Share(s[i], o) /\ h[i] = Share(t[i], o) /\ \A k \in (1 .. n) \ {i} : g[k] = h[k]
    BY <1>1, <1>2
  <2> HIDE DEF g, h
  <2>4. HeldInAll(s, o) = SumFunctionOnSet(g, 1 .. n) /\ \A k \in 1 .. n : g[k] \in Int
    <3>1. /\ HeldInAll(s, o) = SumFunctionOnSet(g, 1 .. Len(s))
          /\ \A k \in 1 .. Len(s) : g[k] \in Nat
      BY <2>1, HeldSum
    <3>2. n = Len(s)
      BY DEF n
    <3> QED
      BY <3>1, <3>2
  <2>5. HeldInAll(t, o) = SumFunctionOnSet(h, 1 .. n) /\ \A k \in 1 .. n : h[k] \in Int
    BY ONLY <1>5, <1>6, <2>2, HeldSum
  <2>6. \A k \in 1 .. n : g[k] \in Int /\ h[k] \in Int
    BY <2>4, <2>5
  <2>7. \A k \in (1 .. n) \ {i} : g[k] = h[k]
    BY <2>3
  <2>8. SumFunctionOnSet(h, 1 .. n) = (SumFunctionOnSet(g, 1 .. n) + h[i]) - g[i]
    BY ONLY <1>1, <2>6, <2>7, SumChangedAt
  <2> QED
    BY <2>3, <2>4, <2>5, <2>8
<1> QED
  BY <1>3, <1>6, <1>7

LEMMA PositionAdded ==
  ASSUME NEW s \in PositionLists, NEW p \in Position,
         \A i \in 1 .. Len(s) : s[i].operator # p.operator
  PROVE  /\ Append(s, p) \in PositionLists
         /\ \A o : HeldInAll(Append(s, p), o) = HeldInAll(s, o) + Share(p, o)
<1> DEFINE t == Append(s, p)
           n == Len(s)
<1>1. /\ n \in Nat /\ \A k, j \in 1 .. n : s[k].operator = s[j].operator => k = j
      /\ s \in Seq(Position) /\ IsFiniteSet(1 .. n)
  BY PositionParts
<1>2. /\ t \in Seq(Position) /\ Len(t) = n + 1 /\ DOMAIN t = 1 .. n + 1
      /\ t[n + 1] = p /\ \A k \in 1 .. n : t[k] = s[k]
  BY <1>1
<1>3. \A k \in 1 .. n : s[k].operator # p.operator
  OBVIOUS
<1> HIDE DEF t, n
<1>4. t \in PositionLists
  <2>1. ASSUME NEW k \in 1 .. n + 1, NEW j \in 1 .. n + 1, t[k].operator = t[j].operator
        PROVE  k = j
    <3>1. k \in 1 .. n \/ k = n + 1
      BY <1>1
    <3>2. j \in 1 .. n \/ j = n + 1
      BY <1>1
    <3> QED
      BY <1>1, <1>2, <1>3, <2>1, <3>1, <3>2
  <2> QED
    BY <1>2, <2>1 DEF PositionLists
<1>5. ASSUME NEW o PROVE HeldInAll(t, o) = HeldInAll(s, o) + Share(p, o)
  <2> DEFINE h == [k \in 1 .. n + 1 |-> Share(t[k], o)]
  <2>1. \A k \in 1 .. Len(t) : h[k] = Share(t[k], o)
    BY <1>2
  <2>2. \A k \in 1 .. Len(s) : h[k] = Share(s[k], o)
    BY <1>1, <1>2 DEF n
  <2>3. h[n + 1] = Share(p, o)
    BY <1>1, <1>2
  <2> HIDE DEF h
  <2>4. HeldInAll(s, o) = SumFunctionOnSet(h, 1 .. n)
    BY <2>2, HeldSum DEF n
  <2>5. HeldInAll(t, o) = SumFunctionOnSet(h, 1 .. n + 1) /\ \A k \in 1 .. n + 1 : h[k] \in Int
    <3>1. /\ HeldInAll(t, o) = SumFunctionOnSet(h, 1 .. Len(t))
          /\ \A k \in 1 .. Len(t) : h[k] \in Nat
      BY <1>4, <2>1, HeldSum
    <3> QED
      BY <1>2, <3>1
  <2>6. 1 .. n + 1 = (1 .. n) \cup {n + 1} /\ n + 1 \notin 1 .. n
    BY <1>1
  <2>7. \A k \in (1 .. n) \cup {n + 1} : h[k] \in Int
    BY <2>5, <2>6
  <2>8. SumFunctionOnSet(h, (1 .. n) \cup {n + 1}) = SumFunctionOnSet(h, 1 .. n) + h[n + 1]
    <3> DEFINE D == 1 .. n
               e == n + 1
    <3>1. IsFiniteSet(D) /\ e \notin D /\ \A k \in D \cup {e} : h[k] \in Int
      BY <1>1, <2>6, <2>7
    <3> HIDE DEF D, e
    <3>2. SumFunctionOnSet(h, D \cup {e}) = SumFunctionOnSet(h, D) + h[e]
      BY <3>1, SumAddOne
    <3> QED
      BY <3>2 DEF D, e
  <2> QED
    BY <2>3, <2>4, <2>5, <2>6, <2>8
<1> QED
  BY <1>4, <1>5 DEF t

-----------------------------------------------------------------------------
(* The invariant.  All of it is needed at once: what a request takes from  *)
(* the pools is bounded by the types, the aggregate can be reduced by what *)
(* a pool loses because it is the sum of the pools, and the deposits can   *)
(* be written off because their total is the sum of the accounts.          *)

Account == [amount : Nat, delegated : Nat]
Withdrawal == [amount : Nat, round : Nat]
Request == [operator : Operators, shares : Nat \ {0}, round : Nat, cost : Nat]

Types ==
  /\ deposits \in [Delegators -> Account]
  /\ withdrawals \in [Delegators -> Seq(Withdrawal)]
  /\ delegations \in [Delegators -> PositionLists]
  /\ blueprintLists \in [Delegators -> [Indices -> Lists]]
  /\ blueprintShares \in [Delegators -> [Operators -> [Blueprints -> Nat]]]
  /\ requests \in [Delegators -> Seq(Request)]
  /\ pool \in [Operators -> [Pools -> Pool]]
  /\ aggregate \in [Operators -> Nat]
  /\ delegationCount \in [Operators -> Nat]
  /\ registered \in SUBSET Operators
  /\ pendingSlashes \in [Operators -> Nat]
  /\ currentRound \in Nat
  /\ deposited \in [Delegators -> Nat] /\ lost \in [Delegators -> Nat]
  /\ slashes \in Nat /\ hit \in SUBSET Delegators

IInv ==
  /\ Types
  /\ DepositsAccounted
  /\ DelegatedWithinDeposit
  /\ AggregateInStep
  /\ SharesClaimed

\* What the staking layer owes a delegator, and all of them.
Waiting(list) == SumFunction([i \in DOMAIN list |-> list[i].amount])
Owed(account, list) == account.amount + Waiting(list)
Total(accounts, lists) == SumFunction([d \in Delegators |-> Owed(accounts[d], lists[d])])

LEMMA WaitingSum ==
  ASSUME NEW s \in Seq(Withdrawal)
  PROVE  /\ Waiting(s) = SumFunctionOnSet([i \in DOMAIN s |-> s[i].amount], 1 .. Len(s))
         /\ Waiting(s) \in Nat
         /\ \A i \in DOMAIN s : s[i].amount \in Nat
<1> DEFINE f == [i \in DOMAIN s |-> s[i].amount]
           D == 1 .. Len(s)
<1>1. DOMAIN s = D /\ Len(s) \in Nat /\ \A i \in DOMAIN s : s[i] \in Withdrawal
  OBVIOUS
<1>2. \A i \in DOMAIN s : s[i].amount \in Nat
  BY <1>1 DEF Withdrawal
<1>3. DOMAIN f = D /\ \A i \in D : f[i] \in Nat
  BY <1>1, <1>2
<1>4. IsFiniteSet(D)
  BY <1>1, IndicesFinite
<1>5. Waiting(s) = SumFunction(f)
  BY DEF Waiting
<1> HIDE DEF f, D
<1>6. SumFunction(f) = SumFunctionOnSet(f, D)
  BY <1>3, SumOfAll
<1>7. SumFunctionOnSet(f, D) \in Nat
  BY <1>3, <1>4, SumTypeNat
<1> QED
  BY <1>2, <1>5, <1>6, <1>7 DEF f, D

LEMMA OwedType ==
  ASSUME NEW account \in Account, NEW list \in Seq(Withdrawal)
  PROVE  Owed(account, list) \in Nat /\ Owed(account, list) >= account.amount
         /\ Waiting(list) \in Nat
<1>1. account.amount \in Nat /\ Waiting(list) \in Nat
  BY WaitingSum DEF Account
<1> QED
  BY <1>1 DEF Owed

\* One delegator's account and requests change.
LEMMA OneOwed ==
  ASSUME NEW a, NEW b, NEW w, NEW v,
         a \in [Delegators -> Account], b \in [Delegators -> Account],
         w \in [Delegators -> Seq(Withdrawal)], v \in [Delegators -> Seq(Withdrawal)],
         NEW d \in Delegators,
         \A e \in Delegators \ {d} : b[e] = a[e] /\ v[e] = w[e]
  PROVE  /\ Total(b, v) = (Total(a, w) + Owed(b[d], v[d])) - Owed(a[d], w[d])
         /\ Total(a, w) \in Nat /\ Total(b, v) \in Nat
         /\ Total(a, w) >= Owed(a[d], w[d])
<1> DEFINE f == [e \in Delegators |-> Owed(a[e], w[e])]
           g == [e \in Delegators |-> Owed(b[e], v[e])]
<1>1. \A e \in Delegators : f[e] \in Nat /\ g[e] \in Nat
  BY OwedType
<1>2. \A e \in Delegators \ {d} : f[e] = g[e]
  OBVIOUS
<1>3. DOMAIN f = Delegators /\ DOMAIN g = Delegators
  OBVIOUS
<1>4. Total(a, w) = SumFunction(f) /\ Total(b, v) = SumFunction(g)
  BY DEF Total
<1>5. f[d] = Owed(a[d], w[d]) /\ g[d] = Owed(b[d], v[d])
  OBVIOUS
<1> HIDE DEF f, g
<1>6. /\ SumFunction(f) = SumFunctionOnSet(f, Delegators)
      /\ SumFunction(g) = SumFunctionOnSet(g, Delegators)
  BY <1>3, SumOfAll
<1>7. \A e \in Delegators : f[e] \in Int /\ g[e] \in Int
  BY <1>1
<1>8. SumFunctionOnSet(g, Delegators) = (SumFunctionOnSet(f, Delegators) + g[d]) - f[d]
  <2>1. IsFiniteSet(Delegators)
    BY SetsFinite
  <2>2. d \in Delegators
    OBVIOUS
  <2> QED
    BY ONLY <1>2, <1>7, <2>1, <2>2, SumOneChanges
<1>9. /\ SumFunctionOnSet(f, Delegators) \in Nat /\ SumFunctionOnSet(g, Delegators) \in Nat
      /\ f[d] <= SumFunctionOnSet(f, Delegators)
  BY <1>1, SetsFinite, SumTypeNat, SumAtLeastOne
<1> QED
  BY <1>1, <1>4, <1>5, <1>6, <1>8, <1>9

LEMMA DepositsTotal == DepositsAccounted <=> currentDeposits = Total(deposits, withdrawals)
BY DEF DepositsAccounted, Total, Owed, Waiting

\* The assets of all pools of an operator.
Assets(ps) == SumFunction([p \in Pools |-> ps[p].assets])

LEMMA AssetsSum ==
  ASSUME NEW ps \in [Pools -> Pool]
  PROVE  /\ Assets(ps) = SumFunctionOnSet([p \in Pools |-> ps[p].assets], Pools)
         /\ Assets(ps) \in Nat
         /\ \A p \in Pools : ps[p].assets \in Nat /\ ps[p].shares \in Nat
<1> DEFINE f == [p \in Pools |-> ps[p].assets]
<1>1. \A p \in Pools : ps[p].assets \in Nat /\ ps[p].shares \in Nat
  BY DEF Pool
<1>2. DOMAIN f = Pools /\ \A p \in Pools : f[p] \in Nat
  BY <1>1
<1>3. Assets(ps) = SumFunction(f)
  BY DEF Assets
<1> HIDE DEF f
<1>4. SumFunction(f) = SumFunctionOnSet(f, Pools)
  BY <1>2, SumOfAll
<1>5. SumFunctionOnSet(f, Pools) \in Nat
  BY <1>2, SetsFinite, SumTypeNat
<1> QED
  BY <1>1, <1>3, <1>4, <1>5 DEF f

\* Some pools gain or lose.
LEMMA AssetsChange ==
  ASSUME NEW ps, NEW qs, ps \in [Pools -> Pool], qs \in [Pools -> Pool],
         NEW D \in SUBSET Pools, NEW delta,
         \A p \in D : delta[p] \in Int /\ qs[p].assets = ps[p].assets + delta[p],
         \A p \in Pools \ D : qs[p].assets = ps[p].assets
  PROVE  /\ Assets(qs) = Assets(ps) + SumFunctionOnSet(delta, D)
         /\ Assets(ps) \in Nat /\ Assets(qs) \in Nat /\ SumFunctionOnSet(delta, D) \in Int
<1> DEFINE f == [p \in Pools |-> ps[p].assets]
           g == [p \in Pools |-> qs[p].assets]
           h == [p \in Pools |-> IF p \in D THEN delta[p] ELSE 0]
<1>1. \A p \in Pools : ps[p].assets \in Nat /\ qs[p].assets \in Nat
  BY AssetsSum
<1>2. \A p \in Pools : f[p] \in Int /\ h[p] \in Int /\ g[p] = f[p] + h[p]
  <2>1. SUFFICES ASSUME NEW p \in Pools
                 PROVE  f[p] \in Int /\ h[p] \in Int /\ g[p] = f[p] + h[p]
    OBVIOUS
  <2>2. CASE p \in D
    BY <1>1, <2>2
  <2>3. CASE p \notin D
    BY <1>1, <2>3
  <2> QED
    BY <2>2, <2>3
<1>3. \A p \in Pools \ D : h[p] = 0
  OBVIOUS
<1>4. \A p \in D : h[p] = delta[p]
  OBVIOUS
<1>5. Assets(ps) = SumFunctionOnSet(f, Pools) /\ Assets(qs) = SumFunctionOnSet(g, Pools)
      /\ Assets(ps) \in Nat /\ Assets(qs) \in Nat
  BY AssetsSum
<1> HIDE DEF f, g, h
<1>6. SumFunctionOnSet(g, Pools) = SumFunctionOnSet(f, Pools) + SumFunctionOnSet(h, Pools)
  BY <1>2, SetsFinite, SumPlus
<1>7. \A p \in Pools : h[p] \in Int
  BY <1>2
<1>8. SumFunctionOnSet(h, Pools) = SumFunctionOnSet(h, D)
  BY <1>3, <1>7, SetsFinite, SumOverSupport
<1>9. SumFunctionOnSet(h, D) = SumFunctionOnSet(delta, D)
  BY <1>4, SetsFinite, SumSame
<1>10. SumFunctionOnSet(delta, D) \in Int
  BY SetsFinite, SumType
<1> QED
  BY <1>5, <1>6, <1>8, <1>9, <1>10

LEMMA AggregateIs == AggregateInStep <=> \A o \in Operators : aggregate[o] = Assets(pool[o])
BY DEF AggregateInStep, Assets

\* The shares held in the pool of All mode of o, by all delegators.
Holding(lists, o) == SumFunction([d \in Delegators |-> HeldInAll(lists[d], o)])

LEMMA OneHolds ==
  ASSUME NEW s, NEW t, s \in [Delegators -> PositionLists], t \in [Delegators -> PositionLists],
         NEW d \in Delegators, \A e \in Delegators \ {d} : t[e] = s[e], NEW o
  PROVE  /\ Holding(t, o) = (Holding(s, o) + HeldInAll(t[d], o)) - HeldInAll(s[d], o)
         /\ Holding(s, o) \in Nat /\ Holding(t, o) \in Nat
         /\ HeldInAll(s[d], o) \in Nat /\ HeldInAll(t[d], o) \in Nat
<1> DEFINE f == [e \in Delegators |-> HeldInAll(s[e], o)]
           g == [e \in Delegators |-> HeldInAll(t[e], o)]
<1>1. \A e \in Delegators : f[e] \in Nat /\ g[e] \in Nat
  BY HeldType
<1>2. \A e \in Delegators \ {d} : f[e] = g[e]
  OBVIOUS
<1>3. DOMAIN f = Delegators /\ DOMAIN g = Delegators
  OBVIOUS
<1>4. Holding(s, o) = SumFunction(f) /\ Holding(t, o) = SumFunction(g)
  BY DEF Holding
<1>5. f[d] = HeldInAll(s[d], o) /\ g[d] = HeldInAll(t[d], o)
  OBVIOUS
<1> HIDE DEF f, g
<1>6. /\ SumFunction(f) = SumFunctionOnSet(f, Delegators)
      /\ SumFunction(g) = SumFunctionOnSet(g, Delegators)
  BY <1>3, SumOfAll
<1>7. \A e \in Delegators : f[e] \in Int /\ g[e] \in Int
  BY <1>1
<1>8. SumFunctionOnSet(g, Delegators) = (SumFunctionOnSet(f, Delegators) + g[d]) - f[d]
  <2>1. IsFiniteSet(Delegators)
    BY SetsFinite
  <2>2. d \in Delegators
    OBVIOUS
  <2> QED
    BY ONLY <1>2, <1>7, <2>1, <2>2, SumOneChanges
<1>9. SumFunctionOnSet(f, Delegators) \in Nat /\ SumFunctionOnSet(g, Delegators) \in Nat
  BY <1>1, SetsFinite, SumTypeNat
<1> QED
  BY <1>1, <1>4, <1>5, <1>6, <1>8, <1>9

LEMMA SharesAreClaimed ==
  SharesClaimed <=> \A o \in Operators : pool[o][All].shares <= Holding(delegations, o)
BY DEF SharesClaimed, Holding

-----------------------------------------------------------------------------
(* What is kept of a list.                                                 *)

Rank(I, i) == Cardinality({j \in I : j <= i})
At(I, k) == CHOOSE i \in I : Rank(I, i) = k

LEMMA Ranked ==
  ASSUME NEW n \in Nat, NEW I \in SUBSET (1 .. n)
  PROVE  /\ IsFiniteSet(I) /\ Cardinality(I) \in Nat
         /\ \A k \in 1 .. Cardinality(I) : At(I, k) \in I /\ Rank(I, At(I, k)) = k
         /\ \A i \in I : Rank(I, i) \in 1 .. Cardinality(I)
         /\ \A i \in I : At(I, Rank(I, i)) = i
<1> DEFINE m == Cardinality(I)
           f == [i \in I |-> Rank(I, i)]
<1>1. IsFiniteSet(I) /\ m \in Nat
  <2>1. IsFiniteSet(I)
    BY IndicesFinite
  <2> QED
    BY <2>1, FS_CardinalityType
<1>2. \A i \in I : i \in Nat
  OBVIOUS
<1>3. ASSUME NEW i \in I PROVE Rank(I, i) \in 1 .. m
  <2> DEFINE S == {j \in I : j <= i}
  <2>1. S \in SUBSET I /\ i \in S
    BY <1>2
  <2>2. Rank(I, i) = Cardinality(S)
    BY DEF Rank
  <2> HIDE DEF S
  <2>3. IsFiniteSet(S) /\ Cardinality(S) <= m
    BY <1>1, <2>1, FS_Subset
  <2>4. Cardinality(S) \in Nat
    BY <2>3, FS_CardinalityType
  <2>5. Cardinality(S) # 0
    BY <2>1, <2>3, FS_EmptySet
  <2> QED
    BY <1>1, <2>2, <2>3, <2>4, <2>5
<1>4. ASSUME NEW i \in I, NEW j \in I, Rank(I, i) = Rank(I, j), i < j PROVE FALSE
  <2> DEFINE S == {x \in I : x <= i}
             R == {x \in I : x <= j}
  <2>1. S \in SUBSET R /\ j \in R /\ j \notin S /\ R \in SUBSET I
    <3>1. i \in Nat /\ j \in Nat /\ i < j
      BY <1>2, <1>4
    <3>2. \A x \in Nat : x <= i => x <= j
      BY <3>1
    <3>3. S \in SUBSET R
      BY <1>2, <3>2
    <3> QED
      BY <3>1, <3>3
  <2>2. Cardinality(S) = Cardinality(R)
    BY <1>4 DEF Rank
  <2> HIDE DEF S, R
  <2>3. IsFiniteSet(R)
    BY <1>1, <2>1, FS_Subset
  <2>4. S = R
    BY <2>1, <2>2, <2>3, FS_Subset
  <2> QED
    BY <2>1, <2>4
<1>5. ASSUME NEW i \in I, NEW j \in I, Rank(I, i) = Rank(I, j) PROVE i = j
  <2>1. ~(i < j) /\ ~(j < i)
    BY <1>4, <1>5
  <2> QED
    BY <1>2, <2>1
<1>6. f \in [I -> 1 .. m] /\ \A i \in I : f[i] = Rank(I, i)
  BY <1>3
<1>7. f \in Injection(I, 1 .. m)
  <2> HIDE DEF f, m
  <2>1. \A i, j \in DOMAIN f : f[i] = f[j] => i = j
    BY <1>5, <1>6
  <2> QED
    BY <1>6, <2>1 DEF Injection, IsInjective
<1>8. IsFiniteSet(1 .. m) /\ Cardinality(1 .. m) = m
  <2> HIDE DEF m
  <2>1. 1 \in Int /\ m \in Int
    BY <1>1
  <2>2. Cardinality(1 .. m) = IF 1 > m THEN 0 ELSE m - 1 + 1
    BY <2>1, FS_Interval
  <2> QED
    BY <1>1, <2>2, IndicesFinite
<1>9. f \in Surjection(I, 1 .. m)
  <2>1. Cardinality(I) = Cardinality(1 .. m)
    BY <1>8
  <2> HIDE DEF f, m
  <2> QED
    BY <1>7, <1>8, <2>1, FS_Injection
<1>10. \A k \in 1 .. m : \E i \in I : Rank(I, i) = k
  <2> HIDE DEF f, m
  <2> QED
    BY <1>6, <1>9 DEF Surjection
<1>11. \A k \in 1 .. m : At(I, k) \in I /\ Rank(I, At(I, k)) = k
  BY <1>10, Zenon DEF At
<1>12. \A i \in I : At(I, Rank(I, i)) = i
  BY <1>3, <1>5, <1>11
<1> QED
  BY <1>1, <1>3, <1>11, <1>12

LEMMA KeptType ==
  ASSUME NEW T, NEW s \in Seq(T), NEW I \in SUBSET DOMAIN s
  PROVE  /\ Kept(s, I) \in Seq(T)
         /\ DOMAIN Kept(s, I) = 1 .. Cardinality(I)
         /\ \A k \in 1 .. Cardinality(I) : Kept(s, I)[k] = s[At(I, k)]
<1> DEFINE m == Cardinality(I)
           t == [k \in 1 .. m |-> s[At(I, k)]]
<1>1. Kept(s, I) = t
  BY DEF Kept, At, Rank
<1>2. I \in SUBSET (1 .. Len(s)) /\ Len(s) \in Nat
  OBVIOUS
<1>3. m \in Nat /\ \A k \in 1 .. m : At(I, k) \in I
  BY <1>2, Ranked
<1>4. \A k \in 1 .. m : s[At(I, k)] \in T
  BY <1>2, <1>3
<1>5. t \in [1 .. m -> T]
  BY <1>4
<1>6. t \in Seq(T) /\ DOMAIN t = 1 .. m
  BY <1>3, <1>5
<1> QED
  BY <1>1, <1>6

LEMMA KeptWaiting ==
  ASSUME NEW s \in Seq(Withdrawal), NEW I \in SUBSET DOMAIN s
  PROVE  /\ Waiting(s) = Waiting(Kept(s, I)) + SumFunction([i \in DOMAIN s \ I |-> s[i].amount])
         /\ SumFunction([i \in DOMAIN s \ I |-> s[i].amount]) \in Int
<1> DEFINE t == Kept(s, I)
           J == DOMAIN s \ I
           m == Cardinality(I)
           D == 1 .. m
           b == [k \in D |-> At(I, k)]
           f == [i \in DOMAIN s |-> s[i].amount]
           g == [i \in J |-> s[i].amount]
           h == [k \in DOMAIN t |-> t[k].amount]
<1>1. DOMAIN s = 1 .. Len(s) /\ Len(s) \in Nat
  OBVIOUS
<1>2. /\ IsFiniteSet(I) /\ m \in Nat /\ \A k \in D : At(I, k) \in I /\ Rank(I, At(I, k)) = k
      /\ \A i \in I : Rank(I, i) \in D /\ At(I, Rank(I, i)) = i
  BY <1>1, Ranked
<1>3. DOMAIN t = D /\ t \in Seq(Withdrawal) /\ \A k \in D : t[k] = s[At(I, k)]
  BY KeptType
<1>4. Waiting(s) = SumFunctionOnSet(f, 1 .. Len(s)) /\ \A i \in DOMAIN s : f[i] \in Int
  <2>1. Waiting(s) = SumFunctionOnSet(f, 1 .. Len(s))
    BY WaitingSum
  <2>2. \A i \in DOMAIN s : s[i].amount \in Nat
    BY WaitingSum
  <2> QED
    BY <2>1, <2>2
<1>5. Waiting(t) = SumFunctionOnSet(h, D)
  <2>1. Waiting(t) = SumFunctionOnSet(h, 1 .. Len(t))
    BY <1>3, WaitingSum
  <2>2. DOMAIN t = 1 .. Len(t)
    BY <1>3
  <2> QED
    BY <1>3, <2>1, <2>2
<1>6. \A k \in D : b[k] \in I /\ h[k] = f[b[k]]
  BY <1>2, <1>3
<1>7. \A j, k \in D : b[j] = b[k] => j = k
  <2>1. \A k \in D : Rank(I, b[k]) = k
    BY <1>2
  <2> HIDE DEF b
  <2> QED
    BY <2>1
<1>8. \A i \in I : f[i] \in Int /\ \E k \in D : b[k] = i
  BY <1>2, <1>4
<1>9. IsFiniteSet(D) /\ IsFiniteSet(J)
  BY <1>1, <1>2, IndicesFinite
<1>10. SumFunction(g) = SumFunctionOnSet(g, J)
  <2>1. DOMAIN g = J
    OBVIOUS
  <2> HIDE DEF g, J
  <2> QED
    BY <2>1, SumOfAll
<1>11. \A i \in J : f[i] = g[i]
  OBVIOUS
<1>12. I \cap J = {} /\ DOMAIN s = I \cup J
  OBVIOUS
<1>13. \A i \in I \cup J : f[i] \in Int
  BY <1>4, <1>12
<1>14. Waiting(s) = SumFunctionOnSet(f, I \cup J)
  BY <1>1, <1>4, <1>12
<1> HIDE DEF t, J, D, b, f, g, h
<1>15. SumFunctionOnSet(h, D) = SumFunctionOnSet(f, I)
  <2>1. IsFiniteSet(D)
    BY <1>9
  <2>2. IsFiniteSet(I)
    BY <1>2
  <2> QED
    BY ONLY <1>6, <1>7, <1>8, <2>1, <2>2, SumRenamed
<1>16. SumFunctionOnSet(f, I \cup J) = SumFunctionOnSet(f, I) + SumFunctionOnSet(f, J)
  BY <1>2, <1>9, <1>12, <1>13, SumOfUnion
<1>17. SumFunctionOnSet(f, J) = SumFunctionOnSet(g, J)
  BY <1>9, <1>11, SumSame
<1>18. SumFunctionOnSet(f, J) \in Int
  BY <1>9, <1>13, SumType
<1>19. Waiting(s) = Waiting(t) + SumFunction(g) /\ SumFunction(g) \in Int
  BY <1>5, <1>10, <1>14, <1>15, <1>16, <1>17, <1>18
<1> QED
  BY <1>19 DEF t, g, J

LEMMA WaitingAppended ==
  ASSUME NEW s \in Seq(Withdrawal), NEW w \in Withdrawal
  PROVE  Waiting(Append(s, w)) = Waiting(s) + w.amount
<1> DEFINE t == Append(s, w)
           n == Len(s)
           f == [i \in DOMAIN s |-> s[i].amount]
           g == [i \in DOMAIN t |-> t[i].amount]
           D == 1 .. n
           e == n + 1
<1>1. n \in Nat /\ DOMAIN s = D
  OBVIOUS
<1>2. /\ t \in Seq(Withdrawal) /\ DOMAIN t = D \cup {e} /\ Len(t) = e /\ 1 .. e = D \cup {e}
      /\ t[e] = w /\ \A i \in D : t[i] = s[i]
  BY <1>1
<1>3. Waiting(s) = SumFunctionOnSet(f, D)
  BY WaitingSum
<1>4. Waiting(t) = SumFunctionOnSet(g, D \cup {e}) /\ \A i \in DOMAIN t : t[i].amount \in Nat
  <2> HIDE DEF t
  <2> QED
    BY <1>2, WaitingSum
<1>5. \A i \in D : f[i] = g[i]
  BY <1>1, <1>2
<1>6. g[e] = w.amount /\ \A i \in D \cup {e} : g[i] \in Int
  BY <1>2, <1>4
<1>7. IsFiniteSet(D) /\ e \notin D
  BY <1>1, IndicesFinite
<1> HIDE DEF t, f, g, D, e
<1>8. SumFunctionOnSet(g, D \cup {e}) = SumFunctionOnSet(g, D) + g[e]
  BY <1>6, <1>7, SumAddOne
<1>9. SumFunctionOnSet(g, D) = SumFunctionOnSet(f, D)
  BY <1>5, <1>7, SumSame
<1>10. Waiting(t) = Waiting(s) + w.amount
  BY <1>3, <1>4, <1>6, <1>8, <1>9
<1> QED
  BY <1>10 DEF t

-----------------------------------------------------------------------------
(* The first state, and what the parts of the invariant need of a step.    *)

LEMMA PrimedParts ==
  /\ DepositsAccounted' <=> currentDeposits' = Total(deposits', withdrawals')
  /\ AggregateInStep' <=> \A o \in Operators : aggregate'[o] = Assets(pool'[o])
  /\ SharesClaimed' <=> \A o \in Operators : pool'[o][All].shares <= Holding(delegations', o)
<1>1. DepositsAccounted' <=> currentDeposits' = Total(deposits', withdrawals')
  BY DEF DepositsAccounted, Total, Owed, Waiting
<1>2. AggregateInStep' <=> \A o \in Operators : aggregate'[o] = Assets(pool'[o])
  BY DEF AggregateInStep, Assets
<1>3. SharesClaimed' <=> \A o \in Operators : pool'[o][All].shares <= Holding(delegations', o)
  BY DEF SharesClaimed, Holding
<1> QED
  BY <1>1, <1>2, <1>3

LEMMA EmptySum == SumFunction(<<>>) = 0 /\ \A f : DOMAIN f = {} => SumFunction(f) = 0
<1>1. ASSUME NEW f, DOMAIN f = {} PROVE SumFunction(f) = 0
  BY <1>1, SumOfAll, SumOfNone
<1>2. DOMAIN <<>> = {}
  OBVIOUS
<1> QED
  BY <1>1, <1>2

LEMMA ZeroSum ==
  ASSUME NEW S, IsFiniteSet(S), NEW f, DOMAIN f = S, \A x \in S : f[x] = 0
  PROVE  SumFunction(f) = 0
BY SumOfAll, SumAllZero

LEMMA InitTypes == Init => Types
<1> SUFFICES ASSUME Init PROVE Types
  OBVIOUS
<1>1. <<>> \in Lists /\ <<>> \in PositionLists
  BY DEF Lists, PositionLists, IsInjective
<1>2. /\ deposits \in [Delegators -> Account]
      /\ withdrawals \in [Delegators -> Seq(Withdrawal)]
      /\ delegations \in [Delegators -> PositionLists]
      /\ requests \in [Delegators -> Seq(Request)]
  BY <1>1 DEF Init, Account
<1>3. blueprintLists \in [Delegators -> [Indices -> Lists]]
  BY <1>1 DEF Init
<1>4. blueprintShares \in [Delegators -> [Operators -> [Blueprints -> Nat]]]
  BY DEF Init
<1>5. pool \in [Operators -> [Pools -> Pool]]
  BY DEF Init, Pool
<1> QED
  BY <1>2, <1>3, <1>4, <1>5 DEF Init, Types

LEMMA InitInvariant == Init => IInv
<1> SUFFICES ASSUME Init PROVE IInv
  OBVIOUS
<1>1. Types
  BY InitTypes
<1>2. DepositsAccounted
  <2> DEFINE f == [d \in Delegators |-> Owed(deposits[d], withdrawals[d])]
  <2>1. Waiting(<<>>) = 0
    BY EmptySum DEF Waiting
  <2>2. ASSUME NEW d \in Delegators PROVE f[d] = 0
    <3>1. deposits[d] = [amount |-> 0, delegated |-> 0] /\ withdrawals[d] = <<>>
      BY DEF Init
    <3> QED
      BY <2>1, <3>1 DEF Owed
  <2>3. DOMAIN f = Delegators
    OBVIOUS
  <2>4. Total(deposits, withdrawals) = SumFunction(f)
    BY DEF Total
  <2> HIDE DEF f
  <2>5. SumFunction(f) = 0
    BY <2>2, <2>3, SetsFinite, ZeroSum
  <2> QED
    BY <2>4, <2>5, DepositsTotal DEF Init
<1>3. DelegatedWithinDeposit
  BY DEF Init, DelegatedWithinDeposit
<1>4. AggregateInStep
  <2>1. ASSUME NEW o \in Operators PROVE aggregate[o] = Assets(pool[o])
    <3> DEFINE f == [p \in Pools |-> pool[o][p].assets]
    <3>1. \A p \in Pools : f[p] = 0
      BY DEF Init
    <3>2. DOMAIN f = Pools /\ Assets(pool[o]) = SumFunction(f)
      BY DEF Assets
    <3> HIDE DEF f
    <3>3. SumFunction(f) = 0
      BY <3>1, <3>2, SetsFinite, ZeroSum
    <3> QED
      BY <3>2, <3>3 DEF Init
  <2> QED
    BY <2>1, AggregateIs
<1>5. SharesClaimed
  <2>1. ASSUME NEW o \in Operators PROVE pool[o][All].shares <= Holding(delegations, o)
    <3> DEFINE f == [d \in Delegators |-> HeldInAll(delegations[d], o)]
    <3>1. \A d \in Delegators : f[d] \in Nat
      BY <1>1, HeldType DEF Types
    <3>2. DOMAIN f = Delegators /\ Holding(delegations, o) = SumFunction(f)
      BY DEF Holding
    <3> HIDE DEF f
    <3>3. SumFunction(f) \in Nat
      BY <3>1, <3>2, SetsFinite, SumOfAll, SumTypeNat
    <3>4. pool[o][All].shares = 0
      BY DEF Init, Pools
    <3> QED
      BY <3>2, <3>3, <3>4
  <2> QED
    BY <2>1, SharesAreClaimed
<1> QED
  BY <1>1, <1>2, <1>3, <1>4, <1>5 DEF IInv

\* The steps that touch neither money nor shares.
LEMMA OthersChange ==
  ASSUME IInv,
         UNCHANGED <<delegatorVars, pool, aggregate, deposited, hit, lost>>,
         delegationCount' \in [Operators -> Nat], registered' \in SUBSET Operators,
         pendingSlashes' \in [Operators -> Nat], currentRound' \in Nat, slashes' \in Nat
  PROVE  IInv'
<1>1. /\ deposits' = deposits /\ currentDeposits' = currentDeposits
      /\ withdrawals' = withdrawals /\ delegations' = delegations
      /\ blueprintLists' = blueprintLists /\ blueprintShares' = blueprintShares
      /\ requests' = requests /\ pool' = pool /\ aggregate' = aggregate
      /\ deposited' = deposited /\ hit' = hit /\ lost' = lost
  BY DEF delegatorVars
<1>2. Types'
  BY <1>1 DEF IInv, Types
<1>3. DepositsAccounted' /\ AggregateInStep' /\ SharesClaimed'
  BY <1>1, PrimedParts, DepositsTotal, AggregateIs, SharesAreClaimed DEF IInv
<1>4. DelegatedWithinDeposit'
  BY <1>1 DEF IInv, DelegatedWithinDeposit
<1> QED
  BY <1>2, <1>3, <1>4 DEF IInv

\* One delegator's deposit and withdrawals change, and the total with them.
LEMMA AccountChanges ==
  ASSUME IInv, NEW d \in Delegators,
         UNCHANGED <<delegations, blueprintLists, blueprintShares, requests, operatorVars,
                     currentRound, slashes, hit, lost>>,
         deposited' \in [Delegators -> Nat],
         deposits' \in [Delegators -> Account],
         withdrawals' \in [Delegators -> Seq(Withdrawal)],
         \A e \in Delegators \ {d} : deposits'[e] = deposits[e]
                                     /\ withdrawals'[e] = withdrawals[e],
         deposits'[d].delegated <= deposits'[d].amount,
         currentDeposits' = (currentDeposits + Owed(deposits'[d], withdrawals'[d]))
                              - Owed(deposits[d], withdrawals[d])
  PROVE  IInv'
<1>1. /\ delegations' = delegations /\ blueprintLists' = blueprintLists
      /\ blueprintShares' = blueprintShares /\ requests' = requests
      /\ pool' = pool /\ aggregate' = aggregate /\ delegationCount' = delegationCount
      /\ registered' = registered /\ pendingSlashes' = pendingSlashes
      /\ currentRound' = currentRound /\ slashes' = slashes /\ hit' = hit /\ lost' = lost
  BY DEF operatorVars
<1>2. Types'
  BY <1>1 DEF IInv, Types
<1>3. AggregateInStep' /\ SharesClaimed'
  BY <1>1, PrimedParts, AggregateIs, SharesAreClaimed DEF IInv
<1>4. DepositsAccounted'
  <2> DEFINE a == deposits
             b == deposits'
             w == withdrawals
             v == withdrawals'
  <2>1. a \in [Delegators -> Account] /\ b \in [Delegators -> Account]
    BY DEF IInv, Types
  <2>2. w \in [Delegators -> Seq(Withdrawal)] /\ v \in [Delegators -> Seq(Withdrawal)]
    BY DEF IInv, Types
  <2>3. \A e \in Delegators \ {d} : b[e] = a[e] /\ v[e] = w[e]
    OBVIOUS
  <2>4. currentDeposits' = (currentDeposits + Owed(b[d], v[d])) - Owed(a[d], w[d])
    OBVIOUS
  <2>5. currentDeposits = Total(a, w)
    BY DepositsTotal DEF IInv
  <2> HIDE DEF a, b, w, v
  <2>6. Total(b, v) = (Total(a, w) + Owed(b[d], v[d])) - Owed(a[d], w[d])
    <3>1. d \in Delegators
      OBVIOUS
    <3> QED
      BY ONLY <2>1, <2>2, <2>3, <3>1, OneOwed
  <2>7. currentDeposits' = Total(b, v)
    BY <2>4, <2>5, <2>6
  <2> QED
    BY <2>7, PrimedParts DEF b, v
<1>5. DelegatedWithinDeposit'
  BY DEF IInv, DelegatedWithinDeposit
<1> QED
  BY <1>2, <1>3, <1>4, <1>5 DEF IInv

-----------------------------------------------------------------------------
(* Deposits and withdrawals.                                               *)

LEMMA AccountParts ==
  ASSUME IInv, NEW d \in Delegators
  PROVE  /\ deposits[d] \in Account
         /\ deposits[d].amount \in Nat /\ deposits[d].delegated \in Nat
         /\ deposits[d].delegated <= deposits[d].amount
         /\ withdrawals[d] \in Seq(Withdrawal) /\ currentRound \in Nat
         /\ deposited[d] \in Nat /\ Waiting(withdrawals[d]) \in Nat
<1>1. deposits[d] \in Account /\ withdrawals[d] \in Seq(Withdrawal)
  BY DEF IInv, Types
<1>2. deposits[d].amount \in Nat /\ deposits[d].delegated \in Nat
  BY <1>1 DEF Account
<1>3. Waiting(withdrawals[d]) \in Nat
  BY <1>1, WaitingSum
<1> QED
  BY <1>1, <1>2, <1>3 DEF IInv, Types, DelegatedWithinDeposit

LEMMA TotalDeposited == IInv => currentDeposits \in Nat
<1> SUFFICES ASSUME IInv PROVE currentDeposits \in Nat
  OBVIOUS
<1> DEFINE f == [d \in Delegators |-> Owed(deposits[d], withdrawals[d])]
<1>1. \A d \in Delegators : f[d] \in Nat
  BY AccountParts, OwedType
<1>2. DOMAIN f = Delegators /\ currentDeposits = SumFunction(f)
  BY DepositsTotal DEF IInv, Total
<1> HIDE DEF f
<1>3. SumFunctionOnSet(f, Delegators) \in Nat
  BY <1>1, SetsFinite, SumTypeNat
<1> QED
  BY <1>2, <1>3, SumOfAll

LEMMA AmountsPositive ==
  /\ \A a \in Deposits : a \in Nat \ {0}
  /\ \A a \in Delegations : a \in Nat \ {0}
  /\ \A a \in Unstakes : a \in Nat \ {0}
BY PoolAssumption

LEMMA DepositKeeps ==
  ASSUME IInv, NEW d \in Delegators, NEW a \in Deposits, Deposit(d, a)
  PROVE  IInv'
<1> DEFINE acc == deposits[d]
           new == [acc EXCEPT !.amount = @ + a]
<1>1. a \in Nat
  BY AmountsPositive
<1>2. /\ acc \in Account /\ acc.amount \in Nat /\ acc.delegated \in Nat
      /\ acc.delegated <= acc.amount /\ deposited[d] \in Nat
      /\ Waiting(withdrawals[d]) \in Nat
  BY AccountParts
<1>3. /\ new \in Account /\ new.amount = acc.amount + a /\ new.delegated = acc.delegated
      /\ new.delegated <= new.amount
  BY <1>1, <1>2 DEF Account
<1>4. deposits' = [deposits EXCEPT ![d] = new]
  BY DEF Deposit
<1>5. /\ withdrawals' = withdrawals /\ currentDeposits' = currentDeposits + a
      /\ deposited' = [deposited EXCEPT ![d] = @ + a]
  BY DEF Deposit
<1> HIDE DEF acc, new
<1>6. deposits' \in [Delegators -> Account] /\ withdrawals' \in [Delegators -> Seq(Withdrawal)]
  BY <1>3, <1>4, <1>5 DEF IInv, Types
<1>7. deposits'[d] = new /\ \A e \in Delegators \ {d} : deposits'[e] = deposits[e]
  BY <1>4 DEF IInv, Types
<1>8. deposited' \in [Delegators -> Nat]
  BY <1>1, <1>2, <1>5 DEF IInv, Types
<1>9. /\ Owed(deposits'[d], withdrawals'[d]) = (acc.amount + a) + Waiting(withdrawals[d])
      /\ Owed(deposits[d], withdrawals[d]) = acc.amount + Waiting(withdrawals[d])
  BY <1>3, <1>5, <1>7 DEF Owed, acc
<1>10. currentDeposits \in Int
  BY TotalDeposited
<1>11. currentDeposits' = (currentDeposits + Owed(deposits'[d], withdrawals'[d]))
                            - Owed(deposits[d], withdrawals[d])
  BY <1>1, <1>2, <1>5, <1>9, <1>10
<1>12. UNCHANGED <<delegations, blueprintLists, blueprintShares, requests, operatorVars,
                   currentRound, slashes, hit, lost>>
  BY DEF Deposit
<1> QED
  BY <1>3, <1>5, <1>6, <1>7, <1>8, <1>11, <1>12, AccountChanges

LEMMA ScheduleWithdrawKeeps ==
  ASSUME IInv, NEW d \in Delegators, NEW a \in Deposits, ScheduleWithdraw(d, a)
  PROVE  IInv'
<1> DEFINE acc == deposits[d]
           new == [acc EXCEPT !.amount = @ - a]
           list == withdrawals[d]
           w == [amount |-> a, round |-> currentRound]
<1>1. a \in Nat
  BY AmountsPositive
<1>2. /\ acc \in Account /\ acc.amount \in Nat /\ acc.delegated \in Nat
      /\ acc.delegated <= acc.amount /\ list \in Seq(Withdrawal)
      /\ currentRound \in Nat
  BY AccountParts
<1>3. acc.amount - acc.delegated >= a
  BY DEF ScheduleWithdraw, Withdrawable, Available
<1>4. /\ new \in Account /\ new.amount = acc.amount - a /\ new.delegated = acc.delegated
      /\ new.delegated <= new.amount
  <2>1. acc.amount - a \in Nat /\ acc.delegated <= acc.amount - a
    BY <1>1, <1>2, <1>3
  <2> QED
    BY <1>2, <2>1 DEF Account
<1>5. deposits' = [deposits EXCEPT ![d] = new]
  BY DEF ScheduleWithdraw
<1>6. /\ withdrawals' = [withdrawals EXCEPT ![d] = Append(list, w)]
      /\ currentDeposits' = currentDeposits /\ deposited' = deposited
  BY DEF ScheduleWithdraw, historyVars
<1>7. w \in Withdrawal /\ w.amount = a
  BY <1>1, <1>2 DEF Withdrawal
<1> HIDE DEF acc, new, list, w
<1>8. Append(list, w) \in Seq(Withdrawal)
  BY <1>2, <1>7
<1>9. deposits' \in [Delegators -> Account] /\ withdrawals' \in [Delegators -> Seq(Withdrawal)]
  BY <1>4, <1>5, <1>6, <1>8 DEF IInv, Types
<1>10. /\ deposits'[d] = new /\ withdrawals'[d] = Append(list, w)
       /\ \A e \in Delegators \ {d} : deposits'[e] = deposits[e]
                                      /\ withdrawals'[e] = withdrawals[e]
  BY <1>5, <1>6 DEF IInv, Types
<1>11. Waiting(Append(list, w)) = Waiting(list) + a /\ Waiting(list) \in Nat
  <2>1. Waiting(Append(list, w)) = Waiting(list) + w.amount
    BY <1>2, <1>7, WaitingAppended
  <2> QED
    BY <1>2, <1>7, <2>1, WaitingSum
<1>12. /\ Owed(deposits'[d], withdrawals'[d]) = (acc.amount - a) + (Waiting(list) + a)
       /\ Owed(deposits[d], withdrawals[d]) = acc.amount + Waiting(list)
  BY <1>4, <1>10, <1>11 DEF Owed, acc, list
<1>13. currentDeposits \in Int
  BY TotalDeposited
<1>14. currentDeposits' = (currentDeposits + Owed(deposits'[d], withdrawals'[d]))
                            - Owed(deposits[d], withdrawals[d])
  BY <1>1, <1>2, <1>6, <1>11, <1>12, <1>13
<1>15. UNCHANGED <<delegations, blueprintLists, blueprintShares, requests, operatorVars,
                   currentRound, slashes, hit, lost>>
  BY DEF ScheduleWithdraw, historyVars
<1>16. deposited' \in [Delegators -> Nat]
  BY <1>6 DEF IInv, Types
<1> QED
  BY <1>4, <1>9, <1>10, <1>14, <1>15, <1>16, AccountChanges

LEMMA ExecuteWithdrawKeeps ==
  ASSUME IInv, NEW d \in Delegators, ExecuteWithdraw(d)
  PROVE  IInv'
<1> DEFINE acc == deposits[d]
           list == withdrawals[d]
           ready == {i \in DOMAIN list : currentRound >= list[i].round + WithdrawDelay}
           rest == DOMAIN list \ ready
           paid == SumFunction([i \in ready |-> list[i].amount])
<1>1. /\ acc \in Account /\ acc.amount \in Nat /\ acc.delegated <= acc.amount
      /\ list \in Seq(Withdrawal)
  BY AccountParts
<1>2. /\ withdrawals' = [withdrawals EXCEPT ![d] = Kept(list, rest)]
      /\ currentDeposits' = currentDeposits - paid
      /\ deposits' = deposits /\ deposited' = deposited
  BY Zenon DEF ExecuteWithdraw, historyVars
<1>3. rest \in SUBSET DOMAIN list /\ DOMAIN list \ rest = ready
  OBVIOUS
<1> HIDE DEF ready, rest
<1>4. Kept(list, rest) \in Seq(Withdrawal)
  BY <1>1, <1>3, KeptType
<1>5. Waiting(list) = Waiting(Kept(list, rest)) + paid /\ paid \in Int
  BY <1>1, <1>3, KeptWaiting
<1> HIDE DEF acc, list, paid
<1>6. withdrawals' \in [Delegators -> Seq(Withdrawal)] /\ deposits' \in [Delegators -> Account]
  BY <1>2, <1>4 DEF IInv, Types
<1>7. /\ deposits'[d] = acc /\ withdrawals'[d] = Kept(list, rest)
      /\ \A e \in Delegators \ {d} : deposits'[e] = deposits[e]
                                     /\ withdrawals'[e] = withdrawals[e]
  BY <1>2 DEF IInv, Types, acc
<1>8. Waiting(list) \in Nat /\ Waiting(Kept(list, rest)) \in Nat
  BY <1>1, <1>4, WaitingSum
<1>10. currentDeposits \in Int
  BY TotalDeposited
<1>11. /\ Owed(deposits'[d], withdrawals'[d]) = acc.amount + Waiting(Kept(list, rest))
       /\ Owed(deposits[d], withdrawals[d]) = acc.amount + Waiting(list)
  BY <1>7 DEF Owed, acc, list
<1>12. currentDeposits' = (currentDeposits + Owed(deposits'[d], withdrawals'[d]))
                            - Owed(deposits[d], withdrawals[d])
  <2>1. acc.amount \in Int
    BY <1>1
  <2>2. currentDeposits' = currentDeposits - paid
    BY <1>2
  <2> QED
    BY ONLY <1>5, <1>8, <1>10, <1>11, <2>1, <2>2
<1>13. UNCHANGED <<delegations, blueprintLists, blueprintShares, requests, operatorVars,
                   currentRound, slashes, hit, lost>>
  BY DEF ExecuteWithdraw, historyVars
<1>14. deposited' \in [Delegators -> Nat]
  BY <1>2 DEF IInv, Types
<1> QED
  BY <1>1, <1>6, <1>7, <1>12, <1>13, <1>14, AccountChanges

-----------------------------------------------------------------------------
(* Pools.                                                                  *)

LEMMA RatesType ==
  ASSUME NEW p \in Pool, NEW n \in Nat
  PROVE  ToShares(p, n) \in Nat /\ ToAmount(p, n) \in Nat
<1>1. /\ p.shares \in Nat /\ p.assets \in Nat
      /\ VirtualShares \in Nat \ {0} /\ VirtualAssets \in Nat \ {0}
  BY PoolAssumption DEF Pool
<1> DEFINE s == p.shares + VirtualShares
           a == p.assets + VirtualAssets
<1>2. s \in Nat \ {0} /\ a \in Nat \ {0}
  BY <1>1
<1>3. s \in Nat /\ a \in Nat
  BY <1>1
<1> HIDE DEF s, a
<1>4. n * s \in Nat /\ n * a \in Nat
  BY <1>3, ProductType
<1>5. (n * s) \div a \in Nat /\ (n * a) \div s \in Nat
  BY <1>2, <1>4, Quotient
<1> QED
  BY <1>5 DEF ToShares, ToAmount, s, a

LEMMA CutType ==
  ASSUME NEW p \in Pool, NEW s \in Nat, NEW a \in Nat
  PROVE  /\ CutPool(p, s, a) \in Pool
         /\ Applied(p, a) \in Nat /\ Applied(p, a) <= p.assets
         /\ CutPool(p, s, a).assets = p.assets - Applied(p, a)
         /\ CutPool(p, s, a).shares = Minus(p.shares, s)
<1>1. p.shares \in Nat /\ p.assets \in Nat
  BY DEF Pool
<1>2. Applied(p, a) \in Nat /\ Applied(p, a) <= p.assets
  BY <1>1 DEF Applied
<1>3. p.assets - Applied(p, a) \in Nat /\ Minus(p.shares, s) \in Nat
  BY <1>1, <1>2 DEF Minus
<1>4. CutPool(p, s, a) = [shares |-> Minus(p.shares, s), assets |-> p.assets - Applied(p, a)]
  BY DEF CutPool
<1> QED
  BY <1>2, <1>3, <1>4 DEF Pool

LEMMA GrowType ==
  ASSUME NEW p \in Pool, NEW s \in Nat, NEW a \in Nat
  PROVE  /\ GrowPool(p, s, a) \in Pool
         /\ GrowPool(p, s, a).assets = p.assets + a
         /\ GrowPool(p, s, a).shares = p.shares + s
BY DEF GrowPool, Pool

\* The pools of one operator change, and its aggregate follows them.
LEMMA PoolsOfOne ==
  ASSUME IInv, NEW o \in Operators, NEW new, new \in [Pools -> Pool],
         pool' = [pool EXCEPT ![o] = new],
         aggregate' = [aggregate EXCEPT ![o] = Assets(new)]
  PROVE  /\ pool' \in [Operators -> [Pools -> Pool]]
         /\ aggregate' \in [Operators -> Nat]
         /\ AggregateInStep'
         /\ pool'[o] = new /\ \A x \in Operators \ {o} : pool'[x] = pool[x]
<1>1. pool \in [Operators -> [Pools -> Pool]] /\ aggregate \in [Operators -> Nat]
  BY DEF IInv, Types
<1>2. Assets(new) \in Nat
  BY AssetsSum
<1>3. pool' \in [Operators -> [Pools -> Pool]] /\ aggregate' \in [Operators -> Nat]
  BY <1>1, <1>2
<1>4. pool'[o] = new /\ \A x \in Operators \ {o} : pool'[x] = pool[x]
  BY <1>1
<1>5. \A x \in Operators : aggregate'[x] = Assets(pool'[x])
  <2>1. aggregate'[o] = Assets(new)
    BY <1>1
  <2>2. \A x \in Operators \ {o} : aggregate'[x] = aggregate[x] /\ aggregate[x] = Assets(pool[x])
    BY <1>1, AggregateIs DEF IInv
  <2> QED
    BY <1>4, <2>1, <2>2
<1> QED
  BY <1>3, <1>4, <1>5, PrimedParts

LEMMA PoolParts ==
  ASSUME IInv, NEW o \in Operators
  PROVE  /\ pool[o] \in [Pools -> Pool] /\ aggregate[o] = Assets(pool[o])
         /\ Assets(pool[o]) \in Nat
         /\ \A p \in Pools : /\ pool[o][p] \in Pool
                             /\ pool[o][p].shares \in Nat /\ pool[o][p].assets \in Nat
<1>1. pool[o] \in [Pools -> Pool]
  BY DEF IInv, Types
<1>2. aggregate[o] = Assets(pool[o])
  BY AggregateIs DEF IInv
<1> QED
  BY <1>1, <1>2, AssetsSum

\* A fraction of at most one takes no more than there is.
LEMMA FractionType ==
  ASSUME NEW n \in Nat, NEW bps \in 1 .. BPS
  PROVE  (n * bps) \div BPS \in 0 .. n
<1> DEFINE x == n * bps
           q == x \div BPS
<1>1. BPS \in Nat \ {0} /\ bps \in Nat /\ bps <= BPS /\ BPS \in Nat
  BY PoolAssumption
<1>2. x \in Nat /\ x <= n * BPS
  BY <1>1, ProductType, ProductMonotone
<1> HIDE DEF x
<1>3. q \in Nat /\ BPS * q <= x
  BY <1>1, <1>2, Quotient
<1> HIDE DEF q
<1>4. BPS * q <= BPS * n
  <2>1. n * BPS = BPS * n /\ n * BPS \in Nat /\ BPS * q \in Nat
    BY <1>1, <1>3
  <2> QED
    BY <1>2, <1>3, <2>1
<1>5. q <= n
  BY <1>1, <1>3, <1>4, ProductCancelled
<1> QED
  BY <1>3, <1>5 DEF x, q

LEMMA SlashPoolsKeeps ==
  ASSUME IInv, NEW o \in Operators, NEW bs \in SUBSET Blueprints, NEW bps \in SlashBps,
         SlashPools(o, bs, bps)
  PROVE  IInv' /\ pool'[o][All].shares = pool[o][All].shares
         /\ \A x \in Operators, p \in Pools : pool'[x][p].shares = pool[x][p].shares
<1> DEFINE ps == {All} \cup bs
           old == pool[o]
           cuts == [p \in ps |-> (old[p].assets * bps) \div BPS]
           new == [p \in Pools |-> IF p \in ps THEN CutPool(old[p], 0, cuts[p]) ELSE old[p]]
<1>1. /\ pool' = [pool EXCEPT ![o] = new]
      /\ aggregate' = [aggregate EXCEPT ![o] = SlashedAggregate(o, cuts)]
      /\ pendingSlashes[o] > 0 /\ pendingSlashes' = [pendingSlashes EXCEPT ![o] = @ - 1]
  BY DEF SlashPools
<1>2. hit' \in SUBSET Delegators
  BY DEF SlashPools, Exposed, IInv, Types
<1>3. /\ deposits' = deposits /\ currentDeposits' = currentDeposits
      /\ withdrawals' = withdrawals /\ delegations' = delegations
      /\ blueprintLists' = blueprintLists /\ blueprintShares' = blueprintShares
      /\ requests' = requests /\ delegationCount' = delegationCount
      /\ registered' = registered /\ currentRound' = currentRound
      /\ deposited' = deposited /\ slashes' = slashes /\ lost' = lost
  BY DEF SlashPools, delegatorVars
<1>4. /\ old \in [Pools -> Pool] /\ aggregate[o] = Assets(old) /\ Assets(old) \in Nat
      /\ \A p \in Pools : old[p] \in Pool /\ old[p].shares \in Nat /\ old[p].assets \in Nat
  BY PoolParts
<1>5. ps \in SUBSET Pools
  BY DEF Pools
<1>6. bps \in 1 .. BPS
  BY PoolAssumption
<1>7. \A p \in ps : cuts[p] \in Nat /\ cuts[p] <= old[p].assets
  <2>1. SUFFICES ASSUME NEW p \in ps PROVE cuts[p] \in Nat /\ cuts[p] <= old[p].assets
    OBVIOUS
  <2>2. old[p].assets \in Nat
    BY <1>4, <1>5
  <2>3. (old[p].assets * bps) \div BPS \in 0 .. old[p].assets
    BY <1>6, <2>2, FractionType
  <2> QED
    BY <2>2, <2>3
<1>8. DOMAIN cuts = ps
  OBVIOUS
<1> HIDE DEF ps, cuts, old
<1>9. \A p \in ps : /\ new[p] = CutPool(old[p], 0, cuts[p]) /\ new[p] \in Pool
                    /\ new[p].shares = old[p].shares
                    /\ old[p].assets = new[p].assets + cuts[p]
  <2>1. SUFFICES ASSUME NEW p \in ps
                 PROVE  /\ new[p] = CutPool(old[p], 0, cuts[p]) /\ new[p] \in Pool
                        /\ new[p].shares = old[p].shares
                        /\ old[p].assets = new[p].assets + cuts[p]
    OBVIOUS
  <2>2. old[p] \in Pool /\ old[p].shares \in Nat /\ old[p].assets \in Nat /\ p \in Pools
    BY <1>4, <1>5
  <2>3. cuts[p] \in Nat /\ cuts[p] <= old[p].assets
    BY <1>7
  <2>4. new[p] = CutPool(old[p], 0, cuts[p])
    BY <2>2
  <2>5. 0 \in Nat
    OBVIOUS
  <2>6. /\ CutPool(old[p], 0, cuts[p]) \in Pool
        /\ CutPool(old[p], 0, cuts[p]).assets = old[p].assets - Applied(old[p], cuts[p])
        /\ CutPool(old[p], 0, cuts[p]).shares = Minus(old[p].shares, 0)
    <3>1. old[p] \in Pool
      BY <2>2
    <3>2. cuts[p] \in Nat
      BY <2>3
    <3> QED
      BY ONLY <2>5, <3>1, <3>2, CutType
  <2>7. Applied(old[p], cuts[p]) = cuts[p] /\ Minus(old[p].shares, 0) = old[p].shares
    BY <2>2, <2>3 DEF Applied, Minus
  <2> QED
    BY <2>2, <2>3, <2>4, <2>6, <2>7
<1>10. \A p \in Pools \ ps : new[p] = old[p]
  OBVIOUS
<1>11. new \in [Pools -> Pool]
  BY <1>4, <1>9
<1>12. \A p \in Pools : new[p].shares = old[p].shares
  BY <1>9, <1>10
<1> HIDE DEF new
<1>13. /\ Assets(old) = Assets(new) + SumFunctionOnSet(cuts, ps)
       /\ Assets(new) \in Nat /\ SumFunctionOnSet(cuts, ps) \in Int
  <2>1. \A p \in ps : cuts[p] \in Int /\ old[p].assets = new[p].assets + cuts[p]
    BY <1>7, <1>9
  <2>2. \A p \in Pools \ ps : old[p].assets = new[p].assets
    BY <1>10
  <2> QED
    <3>1. old \in [Pools -> Pool]
      BY <1>4
    <3>2. Assets(old) = Assets(new) + SumFunctionOnSet(cuts, ps)
      BY ONLY <1>5, <1>11, <2>1, <2>2, <3>1, AssetsChange, Zenon
    <3>3. SumFunctionOnSet(cuts, ps) \in Int
      BY <1>5, <2>1, SetsFinite, SumType
    <3> QED
      BY <1>11, <3>2, <3>3, AssetsSum
<1>14. SumFunction(cuts) = SumFunctionOnSet(cuts, ps)
  BY <1>8, SumOfAll
<1>15. SlashedAggregate(o, cuts) = Assets(new)
  BY <1>4, <1>13, <1>14 DEF SlashedAggregate, Minus
<1>16. /\ pool' \in [Operators -> [Pools -> Pool]] /\ aggregate' \in [Operators -> Nat]
       /\ AggregateInStep'
       /\ pool'[o] = new /\ \A x \in Operators \ {o} : pool'[x] = pool[x]
  BY <1>1, <1>11, <1>15, PoolsOfOne
<1>17. \A x \in Operators, p \in Pools : pool'[x][p].shares = pool[x][p].shares
  BY <1>12, <1>16 DEF old
<1>18. pendingSlashes' \in [Operators -> Nat]
  BY <1>1 DEF IInv, Types
<1>19. Types'
  BY <1>2, <1>3, <1>16, <1>18 DEF IInv, Types
<1>20. All \in Pools
  BY DEF Pools
<1>21. DepositsAccounted' /\ SharesClaimed'
  BY <1>3, <1>17, <1>20, PrimedParts, DepositsTotal, SharesAreClaimed DEF IInv
<1>22. DelegatedWithinDeposit'
  BY <1>3 DEF IInv, DelegatedWithinDeposit
<1> QED
  BY <1>16, <1>17, <1>19, <1>20, <1>21, <1>22 DEF IInv

-----------------------------------------------------------------------------
(* Delegation.                                                             *)

Selection(mode, list) == mode = "All" \/ (mode = "Fixed" /\ list \in Selections)

Amounts(mode, list, amount) ==
  IF mode = "All" THEN [p \in {All} |-> amount] ELSE ByBlueprint(list, Parts(Len(list), amount))

LEMMA AmountsAddUp ==
  ASSUME NEW mode, NEW list, Selection(mode, list), NEW a \in Nat
  PROVE  LET amounts == Amounts(mode, list, a)
         IN  /\ DOMAIN amounts \in SUBSET Pools
             /\ \A p \in DOMAIN amounts : amounts[p] \in Nat
             /\ SumFunctionOnSet(amounts, DOMAIN amounts) = a
             /\ mode = "All" => DOMAIN amounts = {All}
             /\ mode = "Fixed" => /\ All \notin DOMAIN amounts /\ list \in Lists
                                  /\ list # <<>>
<1> DEFINE amounts == Amounts(mode, list, a)
<1>1. CASE mode = "All"
  <2>1. amounts = [p \in {All} |-> a]
    BY <1>1 DEF Amounts
  <2>2. DOMAIN amounts = {All} /\ amounts[All] = a /\ {All} \in SUBSET Pools
    BY <2>1 DEF Pools
  <2> HIDE DEF amounts
  <2>3. SumFunctionOnSet(amounts, {All}) = a
    BY <2>2, SumOfOne
  <2>4. /\ DOMAIN amounts \in SUBSET Pools
        /\ \A p \in DOMAIN amounts : amounts[p] \in Nat
        /\ SumFunctionOnSet(amounts, DOMAIN amounts) = a
        /\ mode = "All" => DOMAIN amounts = {All}
        /\ mode = "Fixed" => /\ All \notin DOMAIN amounts /\ list \in Lists
                             /\ list # <<>>
    BY <1>1, <2>2, <2>3
  <2> QED
    BY <2>4 DEF amounts
<1>2. CASE mode = "Fixed" /\ list \in Selections
  <2> DEFINE n == Len(list)
             f == Parts(n, a)
  <2>1. list \in Lists /\ list # <<>>
    BY <1>2, PoolAssumption DEF Lists
  <2>2. n \in Nat \ {0} /\ list \in Seq(Blueprints)
    BY <2>1 DEF Lists
  <2>3. amounts = ByBlueprint(list, f)
    BY <1>2 DEF Amounts
  <2>4. f \in [1 .. n -> Nat] /\ SumFunctionOnSet(f, 1 .. n) = a
    <3> HIDE DEF n
    <3> QED
      BY <2>2, PartsAddUp
  <2> HIDE DEF f
  <2>5. \A k \in 1 .. Len(list) : f[k] \in Nat
    BY <2>4
  <2>6. ByBlueprint(list, f) \in [ToSet(list) -> Nat]
    BY <2>1, <2>5, KeyedType
  <2>7. SumFunctionOnSet(ByBlueprint(list, f), ToSet(list)) = SumFunctionOnSet(f, 1 .. Len(list))
    BY <2>1, <2>5, KeyedSum
  <2>8. ToSet(list) \in SUBSET Pools /\ All \notin ToSet(list)
    BY <2>1, ListParts
  <2> HIDE DEF amounts
  <2>9. DOMAIN amounts = ToSet(list) /\ amounts \in [ToSet(list) -> Nat]
    BY <2>3, <2>6
  <2>10. /\ DOMAIN amounts \in SUBSET Pools
         /\ \A p \in DOMAIN amounts : amounts[p] \in Nat
         /\ SumFunctionOnSet(amounts, DOMAIN amounts) = a
         /\ mode = "All" => DOMAIN amounts = {All}
         /\ mode = "Fixed" => /\ All \notin DOMAIN amounts /\ list \in Lists
                              /\ list # <<>>
    BY <1>2, <2>1, <2>3, <2>4, <2>7, <2>8, <2>9
  <2> QED
    BY <2>10 DEF amounts
<1> QED
  BY <1>1, <1>2 DEF Selection

\* Some pools grow.
Grown(old, D, minted, amounts) ==
  [p \in Pools |-> IF p \in D THEN GrowPool(old[p], minted[p], amounts[p]) ELSE old[p]]

LEMMA PoolsGrow ==
  ASSUME NEW old, old \in [Pools -> Pool], NEW D \in SUBSET Pools, NEW amounts, NEW minted,
         \A p \in D : amounts[p] \in Nat /\ minted[p] \in Nat,
         NEW new, new = Grown(old, D, minted, amounts)
  PROVE  /\ new \in [Pools -> Pool]
         /\ Assets(new) = Assets(old) + SumFunctionOnSet(amounts, D)
         /\ \A p \in D : new[p].shares = old[p].shares + minted[p]
         /\ \A p \in Pools \ D : new[p].shares = old[p].shares
<1>0. new = [p \in Pools |-> IF p \in D THEN GrowPool(old[p], minted[p], amounts[p])
                                        ELSE old[p]]
  BY DEF Grown
<1>1. ASSUME NEW p \in D
      PROVE  /\ new[p] \in Pool /\ new[p].assets = old[p].assets + amounts[p]
             /\ new[p].shares = old[p].shares + minted[p]
  <2>1. old[p] \in Pool /\ minted[p] \in Nat /\ amounts[p] \in Nat
    OBVIOUS
  <2>2. new[p] = GrowPool(old[p], minted[p], amounts[p])
    BY <1>0
  <2>3. /\ GrowPool(old[p], minted[p], amounts[p]) \in Pool
        /\ GrowPool(old[p], minted[p], amounts[p]).assets = old[p].assets + amounts[p]
        /\ GrowPool(old[p], minted[p], amounts[p]).shares = old[p].shares + minted[p]
    BY ONLY <2>1, GrowType, Zenon
  <2> QED
    BY <2>2, <2>3
<1>2. \A p \in Pools \ D : new[p] = old[p]
  BY <1>0
<1>3. new \in [Pools -> Pool]
  <2>1. \A p \in Pools : new[p] \in Pool
    BY <1>1, <1>2
  <2> QED
    BY <1>0, <2>1
<1>4. Assets(new) = Assets(old) + SumFunctionOnSet(amounts, D)
  <2>1. \A p \in D : amounts[p] \in Int /\ new[p].assets = old[p].assets + amounts[p]
    BY <1>1
  <2>2. \A p \in Pools \ D : new[p].assets = old[p].assets
    BY <1>2
  <2>3. old \in [Pools -> Pool]
    OBVIOUS
  <2>4. D \in SUBSET Pools
    OBVIOUS
  <2> QED
    BY ONLY <1>3, <2>1, <2>2, <2>3, <2>4, AssetsChange, Zenon
<1> QED
  BY <1>1, <1>2, <1>3, <1>4

\* A position grows, or is opened.
Extends(s, o, mode, x, t) ==
  LET i == PositionOf(s, o)
  IN  /\ i # 0 => s[i].mode = mode
      /\ t = IF i # 0 THEN [s EXCEPT ![i].shares = @ + x]
             ELSE Append(s, [operator |-> o, shares |-> x, mode |-> mode])

LEMMA PositionGrows ==
  ASSUME NEW s \in PositionLists, NEW o \in Operators, NEW mode \in Modes, NEW x \in Nat,
         NEW t, Extends(s, o, mode, x, t)
  PROVE  /\ t \in PositionLists
         /\ PositionOf(s, o) = 0 => Len(s) + 1 \in Indices
         /\ \A y : HeldInAll(t, y) =
              HeldInAll(s, y) + IF y = o /\ mode = "All" THEN x ELSE 0
<1> DEFINE i == PositionOf(s, o)
<1>1. /\ i \in 0 .. Len(s)
      /\ i # 0 => s[i].operator = o
      /\ i = 0 => \A k \in DOMAIN s : s[k].operator # o
  BY PositionFound, PositionParts
<1>2. /\ i # 0 => s[i].mode = mode
      /\ t = IF i # 0 THEN [s EXCEPT ![i].shares = @ + x]
             ELSE Append(s, [operator |-> o, shares |-> x, mode |-> mode])
  BY DEF Extends
<1>3. /\ DOMAIN s = 1 .. Len(s) /\ Len(s) \in Nat /\ s \in Seq(Position)
      /\ \A k \in 1 .. Len(s) : s[k] \in Position
  BY PositionParts
<1> HIDE DEF i
<1>4. CASE i # 0
  <2>0. Len(s) \in Nat /\ DOMAIN s = 1 .. Len(s)
    BY <1>3
  <2>1. i \in 1 .. Len(s) /\ s[i].operator = o /\ s[i].mode = mode
    <3>1. i \in 1 .. Len(s)
      BY ONLY <1>1, <1>4, <2>0
    <3> QED
      BY ONLY <1>1, <1>2, <1>4, <3>1
  <2>2. s[i].shares \in Nat
    BY <1>3, <2>1 DEF Position
  <2> DEFINE y == s[i].shares + x
  <2>3. y \in Nat /\ t = WithShares(s, i, y)
    <3>1. y \in Nat
      BY <2>2
    <3>2. t = [s EXCEPT ![i].shares = @ + x]
      BY ONLY <1>2, <1>4
    <3>3. [s EXCEPT ![i].shares = @ + x] = WithShares(s, i, y)
      BY ONLY <2>0, <2>1 DEF WithShares
    <3> QED
      BY ONLY <3>1, <3>2, <3>3
  <2>4. /\ t \in PositionLists /\ t[i].operator = s[i].operator
        /\ t[i].mode = s[i].mode /\ t[i].shares = y
        /\ \A z : HeldInAll(t, z) = (HeldInAll(s, z) + Share(t[i], z)) - Share(s[i], z)
    <3>1. i \in 1 .. Len(s)
      BY <2>1
    <3>2. s \in PositionLists
      OBVIOUS
    <3> HIDE DEF y
    <3> QED
      BY ONLY <2>3, <3>1, <3>2, PositionChanged
  <2>5. \A z : HeldInAll(t, z) = HeldInAll(s, z) + IF z = o /\ mode = "All" THEN x ELSE 0
    <3>1. SUFFICES ASSUME NEW z
                   PROVE  HeldInAll(t, z) =
                            HeldInAll(s, z) + IF z = o /\ mode = "All" THEN x ELSE 0
      OBVIOUS
    <3>2. HeldInAll(t, z) = (HeldInAll(s, z) + Share(t[i], z)) - Share(s[i], z)
      BY <2>4
    <3>3. HeldInAll(s, z) \in Nat
      BY HeldType
    <3>4. Share(t[i], z) = Share(s[i], z) + IF z = o /\ mode = "All" THEN x ELSE 0
      BY <2>1, <2>2, <2>4 DEF Share
    <3>5. Share(s[i], z) \in Nat
      BY <1>3, <2>1, ShareType
    <3> DEFINE inc == IF z = o /\ mode = "All" THEN x ELSE 0
    <3>6. inc \in Nat
      OBVIOUS
    <3>7. Share(t[i], z) = Share(s[i], z) + inc
      BY <3>4
    <3> HIDE DEF inc
    <3>8. HeldInAll(t, z) = HeldInAll(s, z) + inc
      BY ONLY <3>2, <3>3, <3>5, <3>6, <3>7
    <3> QED
      BY <3>8 DEF inc
  <2> QED
    BY <1>4, <2>4, <2>5 DEF i
<1>5. CASE i = 0
  <2> DEFINE p == [operator |-> o, shares |-> x, mode |-> mode]
  <2>1. p \in Position /\ p.operator = o /\ p.shares = x /\ p.mode = mode
    BY DEF Position
  <2>2. t = Append(s, p)
    BY <1>2, <1>5
  <2> HIDE DEF p
  <2>3. \A k \in 1 .. Len(s) : s[k].operator # p.operator
    BY <1>1, <1>3, <1>5, <2>1
  <2>4. /\ t \in PositionLists
        /\ \A z : HeldInAll(t, z) = HeldInAll(s, z) + Share(p, z)
    BY <2>1, <2>2, <2>3, PositionAdded
  <2>5. Len(t) = Len(s) + 1
    BY ONLY <1>3, <2>1, <2>2
  <2>6. Len(s) + 1 \in Indices
    <3>1. 1 .. Len(t) \in SUBSET Indices
      BY <2>4, PositionsBounded
    <3> QED
      BY <1>3, <2>5, <3>1
  <2>7. \A z : Share(p, z) = IF z = o /\ mode = "All" THEN x ELSE 0
    BY <2>1 DEF Share
  <2> QED
    BY <2>4, <2>6, <2>7
<1> QED
  BY <1>4, <1>5

LEMMA DelegatorParts ==
  ASSUME IInv, NEW d \in Delegators
  PROVE  /\ delegations[d] \in PositionLists
         /\ blueprintLists[d] \in [Indices -> Lists]
         /\ blueprintShares[d] \in [Operators -> [Blueprints -> Nat]]
         /\ requests[d] \in Seq(Request) /\ lost[d] \in Nat
BY DEF IInv, Types

\* One delegator's positions change, and the pools of one operator with them.
LEMMA SharesStay ==
  ASSUME IInv, NEW d \in Delegators, NEW o \in Operators, NEW t \in PositionLists,
         delegations' = [delegations EXCEPT ![d] = t],
         \A x \in Operators \ {o} : /\ pool'[x] = pool[x]
                                    /\ HeldInAll(t, x) >= HeldInAll(delegations[d], x),
         pool'[o][All].shares \in Int,
         pool'[o][All].shares - pool[o][All].shares
           <= HeldInAll(t, o) - HeldInAll(delegations[d], o)
  PROVE  /\ delegations' \in [Delegators -> PositionLists]
         /\ SharesClaimed'
<1> DEFINE s == delegations
           u == delegations'
<1>1. s \in [Delegators -> PositionLists]
  BY DEF IInv, Types
<1>2. u \in [Delegators -> PositionLists]
  BY <1>1
<1>3. u[d] = t /\ \A e \in Delegators \ {d} : u[e] = s[e]
  BY <1>1
<1>4. All \in Pools /\ d \in Delegators
  BY DEF Pools
<1>5. \A x \in Operators \ {o} : HeldInAll(t, x) >= HeldInAll(s[d], x)
  OBVIOUS
<1>6. pool'[o][All].shares - pool[o][All].shares <= HeldInAll(t, o) - HeldInAll(s[d], o)
  OBVIOUS
<1> HIDE DEF s, u
<1>7. ASSUME NEW x \in Operators PROVE pool'[x][All].shares <= Holding(u, x)
  <2>1. /\ Holding(u, x) = (Holding(s, x) + HeldInAll(u[d], x)) - HeldInAll(s[d], x)
        /\ Holding(s, x) \in Nat /\ Holding(u, x) \in Nat
        /\ HeldInAll(s[d], x) \in Nat /\ HeldInAll(u[d], x) \in Nat
    BY ONLY <1>1, <1>2, <1>3, <1>4, OneHolds
  <2>2. pool[x][All].shares <= Holding(s, x)
    BY SharesAreClaimed DEF IInv, s
  <2>3. pool[x][All].shares \in Nat
    BY <1>4, PoolParts
  <2>4. CASE x = o
    BY <1>3, <1>6, <2>1, <2>2, <2>3, <2>4
  <2>5. CASE x # o
    <3>1. pool'[x] = pool[x] /\ HeldInAll(u[d], x) >= HeldInAll(s[d], x)
      BY <1>3, <1>5, <2>5
    <3> QED
      BY <2>1, <2>2, <2>3, <3>1
  <2> QED
    BY <2>4, <2>5
<1> QED
  BY <1>2, <1>7, PrimedParts DEF u

\* What a delegator is owed does not change with what it has delegated.
LEMMA TotalStays ==
  ASSUME IInv, NEW d \in Delegators,
         currentDeposits' = currentDeposits, withdrawals' = withdrawals,
         deposits' \in [Delegators -> Account],
         \A e \in Delegators \ {d} : deposits'[e] = deposits[e],
         deposits'[d].amount = deposits[d].amount
  PROVE  DepositsAccounted'
<1> DEFINE a == deposits
           b == deposits'
           w == withdrawals
<1>1. /\ a \in [Delegators -> Account] /\ b \in [Delegators -> Account]
      /\ w \in [Delegators -> Seq(Withdrawal)]
  BY DEF IInv, Types
<1>2. \A e \in Delegators \ {d} : b[e] = a[e] /\ w[e] = w[e]
  OBVIOUS
<1>3. d \in Delegators
  OBVIOUS
<1>4. Owed(b[d], w[d]) = Owed(a[d], w[d])
  BY DEF Owed
<1>5. Owed(a[d], w[d]) \in Nat
  BY <1>1, OwedType
<1>6. currentDeposits = Total(a, w)
  BY DepositsTotal DEF IInv
<1> HIDE DEF a, b, w
<1>7. Total(b, w) = (Total(a, w) + Owed(b[d], w[d])) - Owed(a[d], w[d])
  BY ONLY <1>1, <1>2, <1>3, OneOwed
<1>8. Total(a, w) \in Nat
  BY <1>6, TotalDeposited
<1>9. Total(b, w) = currentDeposits
  BY <1>4, <1>5, <1>6, <1>7, <1>8
<1> QED
  BY <1>9, PrimedParts DEF b, w

LEMMA DelegateKeeps ==
  ASSUME IInv, NEW d \in Delegators, NEW o \in Operators, NEW mode, NEW list,
         Selection(mode, list), NEW a \in Delegations, Delegate(d, o, mode, list, a)
  PROVE  /\ IInv'
         /\ \A x \in Operators, p \in Pools : pool'[x][p].shares >= pool[x][p].shares
<1> DEFINE amounts == Amounts(mode, list, a)
           D == DOMAIN amounts
           old == pool[o]
           minted == [p \in D |-> ToShares(old[p], amounts[p])]
           s == delegations[d]
           i == PositionOf(s, o)
           total == SumFunction(minted)
           new == [p \in Pools |-> IF p \in D THEN GrowPool(old[p], minted[p], amounts[p])
                                              ELSE old[p]]
           t == IF i # 0 THEN [s EXCEPT ![i].shares = @ + total]
                ELSE Append(s, [operator |-> o, shares |-> total, mode |-> mode])
           held == [b \in Blueprints |->
                     blueprintShares[d][o][b] + IF b \in DOMAIN minted THEN minted[b] ELSE 0]
<1>1. a \in Nat
  BY AmountsPositive
<1>2. mode \in Modes
  BY DEF Selection, Modes
<1>3. /\ old \in [Pools -> Pool] /\ aggregate[o] = Assets(old) /\ Assets(old) \in Nat
      /\ \A p \in Pools : old[p] \in Pool /\ old[p].shares \in Nat
  BY PoolParts
<1>4. /\ s \in PositionLists /\ blueprintLists[d] \in [Indices -> Lists]
      /\ blueprintShares[d] \in [Operators -> [Blueprints -> Nat]]
  BY DelegatorParts
<1>5. /\ Available(deposits[d]) >= a
      /\ i # 0 => s[i].mode = mode
      /\ deposits' = [deposits EXCEPT ![d].delegated = @ + a]
      /\ delegations' = [delegations EXCEPT ![d] = t]
      /\ pool' = [pool EXCEPT ![o] = new]
      /\ aggregate' = [aggregate EXCEPT ![o] = @ + a]
      /\ delegationCount' = [delegationCount EXCEPT ![o] = @ + IF i = 0 THEN 1 ELSE 0]
  <2>1. /\ Available(deposits[d]) >= a
        /\ i # 0 => s[i].mode = mode
        /\ deposits' = [deposits EXCEPT ![d].delegated = @ + a]
    BY DEF Delegate, ModeAgrees
  <2>2. delegations' = [delegations EXCEPT ![d] = t]
    BY DEF Delegate, Amounts
  <2>3. pool' = [pool EXCEPT ![o] = new]
    BY DEF Delegate, Amounts
  <2>4. /\ aggregate' = [aggregate EXCEPT ![o] = @ + a]
        /\ delegationCount' = [delegationCount EXCEPT ![o] = @ + IF i = 0 THEN 1 ELSE 0]
    BY DEF Delegate
  <2> QED
    BY ONLY <2>1, <2>2, <2>3, <2>4
<1>6. /\ blueprintShares' = [blueprintShares EXCEPT ![d][o] = held]
      /\ blueprintLists' = IF i = 0 /\ mode = "Fixed"
                           THEN [blueprintLists EXCEPT ![d][Len(s) + 1] = list]
                           ELSE blueprintLists
  BY DEF Delegate, Amounts
<1>7. /\ currentDeposits' = currentDeposits /\ withdrawals' = withdrawals
      /\ requests' = requests /\ registered' = registered
      /\ pendingSlashes' = pendingSlashes /\ currentRound' = currentRound
      /\ deposited' = deposited /\ slashes' = slashes /\ hit' = hit /\ lost' = lost
  BY DEF Delegate, historyVars
<1>8. DOMAIN minted = D
  OBVIOUS
<1>9. /\ D \in SUBSET Pools /\ \A p \in D : amounts[p] \in Nat
      /\ SumFunctionOnSet(amounts, D) = a
      /\ mode = "All" => D = {All}
      /\ mode = "Fixed" => All \notin D /\ list \in Lists
  BY <1>1, AmountsAddUp
<1> HIDE DEF amounts, D, old
<1>10. \A p \in D : minted[p] \in Nat
  <2>1. SUFFICES ASSUME NEW p \in D PROVE minted[p] \in Nat
    OBVIOUS
  <2>2. old[p] \in Pool /\ amounts[p] \in Nat
    BY <1>3, <1>9
  <2> QED
    BY <2>2, RatesType
<1> HIDE DEF minted
<1>11. /\ total = SumFunctionOnSet(minted, D) /\ total \in Nat
       /\ mode = "All" => total = minted[All]
  <2>1. total = SumFunctionOnSet(minted, D)
    BY <1>8, SumOfAll
  <2>2. IsFiniteSet(D)
    BY <1>9, SetsFinite
  <2>3. total \in Nat
    BY <1>10, <2>1, <2>2, SumTypeNat
  <2>4. ASSUME mode = "All" PROVE total = minted[All]
    BY <1>9, <1>10, <2>1, <2>4, SumOfOne
  <2> QED
    BY <2>1, <2>3, <2>4
<1>12. /\ new \in [Pools -> Pool]
       /\ Assets(new) = Assets(old) + SumFunctionOnSet(amounts, D)
       /\ \A p \in D : new[p].shares = old[p].shares + minted[p]
       /\ \A p \in Pools \ D : new[p].shares = old[p].shares
  <2>1. \A p \in D : amounts[p] \in Nat /\ minted[p] \in Nat
    BY <1>9, <1>10
  <2>2. old \in [Pools -> Pool] /\ D \in SUBSET Pools
    BY <1>3, <1>9
  <2>3. new = Grown(old, D, minted, amounts)
    BY DEF Grown
  <2> HIDE DEF new
  <2> QED
    BY ONLY <2>1, <2>2, <2>3, PoolsGrow
<1> HIDE DEF new
<1>13. aggregate' = [aggregate EXCEPT ![o] = Assets(new)]
  <2>1. Assets(new) = aggregate[o] + a
    BY <1>3, <1>9, <1>12
  <2> QED
    BY <1>5, <2>1
<1>14. /\ pool' \in [Operators -> [Pools -> Pool]] /\ aggregate' \in [Operators -> Nat]
       /\ AggregateInStep'
       /\ pool'[o] = new /\ \A x \in Operators \ {o} : pool'[x] = pool[x]
  BY <1>5, <1>12, <1>13, PoolsOfOne
<1> HIDE DEF total
<1>15. /\ t \in PositionLists
       /\ i = 0 => Len(s) + 1 \in Indices
       /\ \A y : HeldInAll(t, y) =
            HeldInAll(s, y) + IF y = o /\ mode = "All" THEN total ELSE 0
  <2>1. i # 0 => s[i].mode = mode
    BY <1>5
  <2>2. Extends(s, o, mode, total, t)
    BY <2>1 DEF Extends
  <2>3. o \in Operators
    OBVIOUS
  <2>4. total \in Nat
    BY <1>11
  <2>5. s \in PositionLists
    BY <1>4
  <2> HIDE DEF t, s
  <2> QED
    BY ONLY <1>2, <2>2, <2>3, <2>4, <2>5, PositionGrows DEF i
<1> HIDE DEF t
<1>16. \A x \in Operators, p \in Pools : /\ pool[x][p].shares \in Nat
                                         /\ pool'[x][p].shares >= pool[x][p].shares
  <2>1. ASSUME NEW p \in Pools PROVE new[p].shares >= old[p].shares
    <3>1. old[p].shares \in Nat
      BY <1>3
    <3>2. CASE p \in D
      BY <1>10, <1>12, <3>1, <3>2
    <3>3. CASE p \notin D
      BY <1>12, <3>1, <3>3
    <3> QED
      BY <3>2, <3>3
  <2>2. \A x \in Operators, p \in Pools : pool[x][p].shares \in Nat
    BY PoolParts
  <2> QED
    BY <1>14, <2>1, <2>2 DEF old
<1>17. All \in Pools
  BY DEF Pools
<1>18. /\ pool'[o][All].shares \in Int
       /\ pool'[o][All].shares - pool[o][All].shares
            <= HeldInAll(t, o) - HeldInAll(delegations[d], o)
  <2>1. HeldInAll(s, o) \in Nat /\ HeldInAll(t, o) \in Nat
    BY <1>4, <1>15, HeldType
  <2>2. old[All].shares \in Nat
    BY <1>3, <1>17
  <2>3. CASE mode = "All"
    <3>1. new[All].shares = old[All].shares + total
      BY <1>9, <1>11, <1>12, <2>3
    <3>2. HeldInAll(t, o) = HeldInAll(s, o) + total
      BY <1>15, <2>3
    <3> QED
      BY <1>11, <1>14, <2>1, <2>2, <3>1, <3>2 DEF old
  <2>4. CASE mode = "Fixed"
    <3>1. new[All].shares = old[All].shares
      BY <1>9, <1>12, <1>17, <2>4
    <3>2. HeldInAll(t, o) = HeldInAll(s, o)
      <4>1. HeldInAll(t, o) = HeldInAll(s, o) + 0
        BY <1>15, <2>4
      <4> QED
        BY <2>1, <4>1
    <3> QED
      BY <1>14, <2>1, <2>2, <3>1, <3>2 DEF old
  <2> QED
    BY <2>3, <2>4 DEF Selection
<1>19. \A x \in Operators \ {o} : /\ pool'[x] = pool[x]
                                  /\ HeldInAll(t, x) >= HeldInAll(delegations[d], x)
  <2>1. SUFFICES ASSUME NEW x \in Operators \ {o}
                 PROVE  HeldInAll(t, x) >= HeldInAll(s, x)
    BY <1>14
  <2>2. HeldInAll(t, x) = HeldInAll(s, x) + 0
    BY <1>15
  <2>3. HeldInAll(s, x) \in Nat
    BY <1>4, HeldType
  <2> QED
    BY <2>2, <2>3
<1>20. delegations' \in [Delegators -> PositionLists] /\ SharesClaimed'
  <2>1. t \in PositionLists
    BY <1>15
  <2>2. delegations' = [delegations EXCEPT ![d] = t]
    BY <1>5
  <2> QED
    BY <1>18, <1>19, <2>1, <2>2, SharesStay
<1>21. blueprintShares' \in [Delegators -> [Operators -> [Blueprints -> Nat]]]
  <2>1. \A b \in Blueprints : held[b] \in Nat
    <3>1. SUFFICES ASSUME NEW b \in Blueprints PROVE held[b] \in Nat
      OBVIOUS
    <3>2. blueprintShares[d][o][b] \in Nat
      BY <1>4
    <3>3. b \in DOMAIN minted => minted[b] \in Nat
      BY <1>8, <1>10
    <3> QED
      BY <3>2, <3>3
  <2>2. held \in [Blueprints -> Nat]
    BY <2>1
  <2> HIDE DEF held
  <2> QED
    BY <1>6, <2>2 DEF IInv, Types
<1>22. blueprintLists' \in [Delegators -> [Indices -> Lists]]
  <2>1. CASE i = 0 /\ mode = "Fixed"
    <3>1. Len(s) + 1 \in Indices /\ list \in Lists
      BY <1>9, <1>15, <2>1
    <3> QED
      BY <1>6, <2>1, <3>1 DEF IInv, Types
  <2>2. CASE ~(i = 0 /\ mode = "Fixed")
    BY <1>6, <2>2 DEF IInv, Types
  <2> QED
    BY <2>1, <2>2
<1>23. delegationCount' \in [Operators -> Nat]
  <2>1. delegationCount[o] + (IF i = 0 THEN 1 ELSE 0) \in Nat
    <3>1. delegationCount[o] \in Nat
      BY DEF IInv, Types
    <3> QED
      BY <3>1
  <2> QED
    BY <1>5, <2>1 DEF IInv, Types
<1>24. /\ deposits' \in [Delegators -> Account]
       /\ \A e \in Delegators \ {d} : deposits'[e] = deposits[e]
       /\ deposits'[d].amount = deposits[d].amount
       /\ deposits'[d].delegated <= deposits'[d].amount
  <2> DEFINE acc == deposits[d]
             nacc == [acc EXCEPT !.delegated = @ + a]
  <2>1. /\ acc \in Account /\ acc.amount \in Nat /\ acc.delegated \in Nat
        /\ acc.delegated <= acc.amount
    BY AccountParts
  <2>2. acc.amount - acc.delegated >= a
    BY <1>5 DEF Available
  <2>3. acc.delegated + a \in Nat /\ acc.delegated + a <= acc.amount
    BY <1>1, <2>1, <2>2
  <2>4. /\ nacc \in Account /\ nacc.amount = acc.amount
        /\ nacc.delegated = acc.delegated + a
    BY <2>1, <2>3 DEF Account
  <2>5. deposits' = [deposits EXCEPT ![d] = nacc]
    BY <1>5
  <2>6. deposits \in [Delegators -> Account]
    BY DEF IInv, Types
  <2> HIDE DEF nacc
  <2>7. deposits'[d] = nacc
    BY <2>5, <2>6
  <2> QED
    BY <2>3, <2>4, <2>5, <2>6, <2>7
<1>25. DepositsAccounted'
  BY <1>7, <1>24, TotalStays
<1>26. Types'
  BY <1>7, <1>14, <1>20, <1>21, <1>22, <1>23, <1>24 DEF IInv, Types
<1>27. DelegatedWithinDeposit'
  BY <1>24 DEF IInv, DelegatedWithinDeposit
<1> QED
  BY <1>14, <1>16, <1>20, <1>25, <1>26, <1>27 DEF IInv

-----------------------------------------------------------------------------
(* Unstaking is scheduled.                                                 *)

LEMMA CeilPositive ==
  ASSUME NEW n \in Nat \ {0}, NEW k \in Nat \ {0}
  PROVE  CeilDiv(n, k) \in Nat \ {0}
<1> DEFINE m == n + k - 1
           q == m \div k
<1>1. m \in Nat
  OBVIOUS
<1>2. q \in Nat /\ m < k * q + k
  <2> HIDE DEF m
  <2> QED
    BY <1>1, Quotient
<1> HIDE DEF q
<1>3. q # 0
  <2> SUFFICES ASSUME q = 0 PROVE FALSE
    OBVIOUS
  <2>1. k * q = 0
    OBVIOUS
  <2>2. m < 0 + k
    BY <1>2, <2>1
  <2> QED
    BY <2>2
<1> QED
  BY <1>2, <1>3 DEF CeilDiv, q

LEMMA ListedType ==
  ASSUME IInv, NEW d \in Delegators, NEW i \in Indices, NEW o \in Operators
  PROVE  ListedAmount(d, i, o) \in Nat
<1> DEFINE list == blueprintLists[d][i]
           f == [k \in DOMAIN list |-> ToAmount(pool[o][list[k]], blueprintShares[d][o][list[k]])]
<1>1. list \in Lists /\ blueprintShares[d][o] \in [Blueprints -> Nat]
  BY DelegatorParts
<1>2. /\ DOMAIN list = 1 .. Len(list) /\ Len(list) \in Nat
      /\ \A k \in DOMAIN list : list[k] \in Blueprints
  BY <1>1, ListParts
<1>3. \A k \in DOMAIN list : f[k] \in Nat
  <2>1. SUFFICES ASSUME NEW k \in DOMAIN list
                 PROVE  ToAmount(pool[o][list[k]], blueprintShares[d][o][list[k]]) \in Nat
    OBVIOUS
  <2>2. list[k] \in Blueprints /\ list[k] \in Pools
    BY <1>2 DEF Pools
  <2>3. pool[o][list[k]] \in Pool
    BY <2>2, PoolParts
  <2>4. blueprintShares[d][o][list[k]] \in Nat
    BY <1>1, <2>2
  <2> QED
    BY <2>3, <2>4, RatesType
<1>4. ListedAmount(d, i, o) = SumFunction(f)
  BY DEF ListedAmount
<1>5. DOMAIN f = DOMAIN list /\ IsFiniteSet(DOMAIN list)
  BY <1>2, IndicesFinite
<1> HIDE DEF f, list
<1>6. SumFunction(f) = SumFunctionOnSet(f, DOMAIN list)
  BY <1>5, SumOfAll
<1>7. SumFunctionOnSet(f, DOMAIN list) \in Nat
  BY <1>3, <1>5, SumTypeNat
<1> QED
  BY <1>4, <1>6, <1>7

LEMMA PositionOfDelegator ==
  ASSUME IInv, NEW d \in Delegators, NEW i \in 1 .. Len(delegations[d])
  PROVE  /\ i \in Indices /\ delegations[d][i] \in Position
         /\ delegations[d][i].operator \in Operators /\ delegations[d][i].shares \in Nat
         /\ delegations[d][i].mode \in Modes
<1>1. delegations[d] \in PositionLists
  BY DelegatorParts
<1>2. i \in Indices /\ delegations[d][i] \in Position
  BY <1>1, PositionsBounded, PositionParts
<1> QED
  BY <1>2 DEF Position

LEMMA SharesForPositive ==
  ASSUME IInv, NEW d \in Delegators, NEW i \in 1 .. Len(delegations[d]), NEW a \in Nat \ {0}
  PROVE  SharesFor(d, i, a) \in Nat \ {0}
<1> DEFINE pos == delegations[d][i]
           p == pool[pos.operator][All]
           shares == IF pos.mode = "All" THEN p.shares ELSE pos.shares
           assets == IF pos.mode = "All" THEN p.assets ELSE ListedAmount(d, i, pos.operator)
<1>1. pos.operator \in Operators /\ pos.shares \in Nat /\ i \in Indices
  BY PositionOfDelegator
<1>2. p.shares \in Nat /\ p.assets \in Nat
  BY <1>1, PoolParts DEF Pools
<1>3. ListedAmount(d, i, pos.operator) \in Nat
  BY <1>1, ListedType
<1>4. shares \in Nat /\ assets \in Nat
  BY <1>1, <1>2, <1>3
<1>5. SharesFor(d, i, a) = IF assets = 0 \/ shares = 0 THEN a ELSE CeilDiv(a * shares, assets)
  BY DEF SharesFor
<1> HIDE DEF shares, assets
<1>6. CASE assets = 0 \/ shares = 0
  BY <1>5, <1>6
<1>7. CASE ~(assets = 0 \/ shares = 0)
  <2>1. shares \in Nat \ {0} /\ assets \in Nat \ {0}
    BY <1>4, <1>7
  <2>2. a * shares \in Nat \ {0}
    BY <2>1, ProductPositive
  <2> QED
    BY <1>5, <1>7, <2>1, <2>2, CeilPositive
<1> QED
  BY <1>6, <1>7

LEMMA CostBasisType ==
  ASSUME IInv, NEW d \in Delegators, NEW i \in 1 .. Len(delegations[d]), NEW x \in Nat
  PROVE  CostBasis(d, i, x) \in Nat
<1> DEFINE s == delegations[d]
           own == s[i].shares
           f == [k \in DOMAIN s |-> s[k].shares]
           all == SumFunction(f)
           share == IF x > own THEN own ELSE x
           cost == deposits[d].delegated
           D == 1 .. Len(s)
<1>1. s \in PositionLists /\ cost \in Nat
  BY DelegatorParts, AccountParts
<1>2. DOMAIN s = D /\ IsFiniteSet(D) /\ \A k \in D : s[k].shares \in Nat
  BY <1>1, PositionParts DEF Position
<1>3. DOMAIN f = D /\ (\A k \in D : f[k] \in Nat) /\ f[i] = own /\ i \in D
  BY <1>2
<1>4. CostBasis(d, i, x) = IF own = 0 THEN 0
                           ELSE IF share = all THEN cost ELSE (cost * share) \div all
  BY DEF CostBasis
<1>5. own \in Nat
  BY <1>2
<1> HIDE DEF f, D, cost, own
<1>6. all = SumFunctionOnSet(f, D)
  BY <1>3, SumOfAll
<1>7. SumFunctionOnSet(f, D) \in Nat /\ f[i] <= SumFunctionOnSet(f, D)
  BY <1>2, <1>3, SumTypeNat, SumAtLeastOne
<1>8. all \in Nat /\ own <= all
  BY <1>3, <1>6, <1>7
<1>9. share \in Nat
  BY <1>5
<1> HIDE DEF all, share
<1>10. CASE own = 0
  BY <1>4, <1>10
<1>11. CASE own # 0
  <2>1. all \in Nat \ {0}
    BY <1>5, <1>8, <1>11
  <2>2. cost * share \in Nat
    BY <1>1, <1>9, ProductType
  <2>3. (cost * share) \div all \in Nat
    BY <2>1, <2>2, Quotient
  <2> QED
    BY <1>1, <1>4, <2>3
<1> QED
  BY <1>10, <1>11

LEMMA ScheduleUnstakeKeeps ==
  ASSUME IInv, NEW d \in Delegators, NEW o \in Operators, NEW a \in Unstakes,
         ScheduleUnstake(d, o, a)
  PROVE  IInv' /\ pool' = pool
<1> DEFINE i == PositionOf(delegations[d], o)
           shares == SharesFor(d, i, a)
           r == [operator |-> o, shares |-> shares, round |-> currentRound,
                 cost |-> CostBasis(d, i, shares)]
<1>1. i # 0 /\ requests' = [requests EXCEPT ![d] = Append(@, r)]
  BY DEF ScheduleUnstake
<1>2. /\ deposits' = deposits /\ currentDeposits' = currentDeposits
      /\ withdrawals' = withdrawals /\ delegations' = delegations
      /\ blueprintLists' = blueprintLists /\ blueprintShares' = blueprintShares
      /\ pool' = pool /\ aggregate' = aggregate /\ delegationCount' = delegationCount
      /\ registered' = registered /\ pendingSlashes' = pendingSlashes
      /\ currentRound' = currentRound
      /\ deposited' = deposited /\ slashes' = slashes /\ hit' = hit /\ lost' = lost
  BY DEF ScheduleUnstake, operatorVars, historyVars
<1>3. i \in 0 .. Len(delegations[d]) /\ Len(delegations[d]) \in Nat
  BY DelegatorParts, PositionParts, PositionFound
<1> HIDE DEF i
<1>4. i \in 1 .. Len(delegations[d])
  BY ONLY <1>1, <1>3
<1>5. a \in Nat \ {0}
  BY AmountsPositive
<1>6. shares \in Nat \ {0}
  BY <1>4, <1>5, SharesForPositive
<1>7. shares \in Nat
  BY <1>6
<1> HIDE DEF shares
<1>8. CostBasis(d, i, shares) \in Nat
  BY <1>4, <1>7, CostBasisType
<1>9. currentRound \in Nat
  BY DEF IInv, Types
<1>10. r \in Request
  BY <1>6, <1>8, <1>9 DEF Request
<1> HIDE DEF r
<1>11. requests' \in [Delegators -> Seq(Request)]
  <2>1. requests[d] \in Seq(Request)
    BY DelegatorParts
  <2>2. Append(requests[d], r) \in Seq(Request)
    BY <1>10, <2>1
  <2> QED
    BY <1>1, <2>2 DEF IInv, Types
<1>12. Types'
  BY <1>2, <1>11 DEF IInv, Types
<1>13. DepositsAccounted' /\ AggregateInStep' /\ SharesClaimed'
  BY <1>2, PrimedParts, DepositsTotal, AggregateIs, SharesAreClaimed DEF IInv
<1>14. DelegatedWithinDeposit'
  BY <1>2 DEF IInv, DelegatedWithinDeposit
<1> QED
  BY <1>2, <1>12, <1>13, <1>14 DEF IInv

-----------------------------------------------------------------------------
(* The books of an execution.                                              *)

Book ==
  [deposit : Account, total : Nat, positions : PositionLists,
   held : [Operators -> [Blueprints -> Nat]], pool : [Operators -> [Pools -> Pool]],
   aggregate : [Operators -> Nat], count : [Operators -> Int], lost : Nat, returned : Nat]

\* What the others hold in the pool of All mode of o.
Others(d, o) == Holding(delegations, o) - HeldInAll(delegations[d], o)

\* The invariant, for the state that the books of d would make.
BookOK(d, bk) ==
  /\ bk \in Book
  /\ bk.deposit.delegated <= bk.deposit.amount
  /\ bk.total - bk.deposit.amount = currentDeposits - deposits[d].amount
  /\ \A o \in Operators : bk.aggregate[o] = Assets(bk.pool[o])
  /\ \A o \in Operators :
       bk.pool[o][All].shares <= Others(d, o) + HeldInAll(bk.positions, o)
  /\ \A o \in Operators : pendingSlashes[o] > 0 => bk.pool[o] = pool[o]

LEMMA OthersType ==
  ASSUME IInv, NEW d \in Delegators, NEW o
  PROVE  /\ Others(d, o) \in Nat
         /\ Holding(delegations, o) = Others(d, o) + HeldInAll(delegations[d], o)
         /\ HeldInAll(delegations[d], o) \in Nat
<1> DEFINE f == [e \in Delegators |-> HeldInAll(delegations[e], o)]
<1>1. \A e \in Delegators : f[e] \in Nat
  BY DelegatorParts, HeldType
<1>2. DOMAIN f = Delegators /\ Holding(delegations, o) = SumFunction(f)
  BY DEF Holding
<1>3. f[d] = HeldInAll(delegations[d], o)
  OBVIOUS
<1> HIDE DEF f
<1>4. SumFunction(f) = SumFunctionOnSet(f, Delegators)
  BY <1>2, SumOfAll
<1>5. SumFunctionOnSet(f, Delegators) \in Nat /\ f[d] <= SumFunctionOnSet(f, Delegators)
  BY <1>1, SetsFinite, SumTypeNat, SumAtLeastOne
<1> QED
  BY <1>1, <1>2, <1>3, <1>4, <1>5 DEF Others

LEMMA BookParts ==
  ASSUME NEW d, NEW bk, BookOK(d, bk)
  PROVE  /\ bk \in Book
         /\ bk.deposit \in Account /\ bk.deposit.amount \in Nat /\ bk.deposit.delegated \in Nat
         /\ bk.total \in Nat /\ bk.positions \in PositionLists
         /\ bk.held \in [Operators -> [Blueprints -> Nat]]
         /\ bk.pool \in [Operators -> [Pools -> Pool]]
         /\ bk.aggregate \in [Operators -> Nat] /\ bk.count \in [Operators -> Int]
         /\ bk.lost \in Nat /\ bk.returned \in Nat
<1>1. bk \in Book
  BY DEF BookOK
<1>2. bk.deposit \in Account
  BY <1>1 DEF Book
<1> QED
  BY <1>1, <1>2 DEF Book, Account

LEMMA BookStart ==
  ASSUME IInv, NEW d \in Delegators
  PROVE  BookOK(d, Books(d))
<1> DEFINE bk == Books(d)
<1>1. bk = [deposit |-> deposits[d], total |-> currentDeposits, positions |-> delegations[d],
            held |-> blueprintShares[d], pool |-> pool, aggregate |-> aggregate,
            count |-> delegationCount, lost |-> lost[d], returned |-> 0]
  BY DEF Books
<1>2. /\ bk.deposit = deposits[d] /\ bk.total = currentDeposits
      /\ bk.positions = delegations[d] /\ bk.pool = pool /\ bk.aggregate = aggregate
  BY <1>1
<1>3. bk \in Book
  <2>1. delegationCount \in [Operators -> Int] /\ pool \in [Operators -> [Pools -> Pool]]
        /\ aggregate \in [Operators -> Nat]
    BY DEF IInv, Types
  <2>2. deposits[d] \in Account /\ currentDeposits \in Nat
    BY AccountParts, TotalDeposited
  <2> HIDE DEF bk
  <2> QED
    BY <1>1, <2>1, <2>2, DelegatorParts DEF Book
<1>4. \A o \in Operators : pool[o][All].shares <= Others(d, o) + HeldInAll(delegations[d], o)
  BY SharesAreClaimed, OthersType DEF IInv
<1>5. \A o \in Operators : aggregate[o] = Assets(pool[o])
  BY AggregateIs DEF IInv
<1>6. deposits[d].delegated <= deposits[d].amount
  BY AccountParts
<1> HIDE DEF bk
<1>7. BookOK(d, bk)
  BY <1>2, <1>3, <1>4, <1>5, <1>6 DEF BookOK
<1> QED
  BY <1>7 DEF bk

\* What is written off is part of the cost basis, of the deposit and of the total.
LEMMA WriteOffType ==
  ASSUME NEW dep \in Account, NEW total \in Nat, NEW cost \in Nat, NEW amount \in Nat
  PROVE  /\ WriteOff(dep, total, cost, amount) \in Nat
         /\ WriteOff(dep, total, cost, amount) <= cost
         /\ WriteOff(dep, total, cost, amount) <= dep.amount
         /\ WriteOff(dep, total, cost, amount) <= total
<1>1. dep.amount \in Nat
  BY DEF Account
<1>2. CASE cost = 0
  BY <1>1, <1>2 DEF WriteOff
<1>3. CASE cost # 0
  <2> DEFINE m == Minus(cost, amount)
             S == {m, dep.amount, total}
  <2>1. m \in Nat /\ m <= cost
    BY DEF Minus
  <2>2. S \in SUBSET Nat /\ S # {} /\ m \in S /\ dep.amount \in S /\ total \in S
    BY <1>1, <2>1
  <2>3. WriteOff(dep, total, cost, amount) = Min(S)
    BY <1>3 DEF WriteOff
  <2> HIDE DEF S, m
  <2>4. Min(S) \in S /\ \A y \in S : Min(S) <= y
    BY <2>2, MinMember
  <2>5. Min(S) \in Nat
    BY <2>2, <2>4
  <2>6. Min(S) <= m /\ Min(S) <= dep.amount /\ Min(S) <= total
    BY <2>2, <2>4
  <2> QED
    BY <2>1, <2>3, <2>5, <2>6
<1> QED
  BY <1>2, <1>3

LEMMA SettledType ==
  ASSUME NEW dep \in Account, NEW total \in Nat, NEW cost \in Nat, NEW amount \in Nat,
         dep.delegated <= dep.amount
  PROVE  /\ SettledDeposit(dep, total, cost, amount) \in Account
         /\ SettledDeposit(dep, total, cost, amount).amount
              = dep.amount - WriteOff(dep, total, cost, amount)
         /\ SettledDeposit(dep, total, cost, amount).delegated
              <= SettledDeposit(dep, total, cost, amount).amount
<1> DEFINE w == WriteOff(dep, total, cost, amount)
           x == IF cost = 0 THEN amount ELSE cost
<1>1. w \in Nat /\ w <= cost /\ w <= dep.amount
  BY WriteOffType
<1>2. dep.amount \in Nat /\ dep.delegated \in Nat
  BY DEF Account
<1>3. x \in Nat /\ w <= x
  BY <1>1
<1>4. SettledDeposit(dep, total, cost, amount)
        = [amount |-> dep.amount - w, delegated |-> Minus(dep.delegated, x)]
  BY DEF SettledDeposit
<1> HIDE DEF w, x
<1>5. /\ dep.amount - w \in Nat /\ Minus(dep.delegated, x) \in Nat
      /\ Minus(dep.delegated, x) <= dep.amount - w
  BY <1>1, <1>2, <1>3 DEF Minus
<1> QED
  BY <1>4, <1>5 DEF Account, w

\* A position loses shares, and is removed when none are left.
Shrinks(s, i, left, t) ==
  t = IF left = 0 THEN SwapAndPop(s, i) ELSE WithShares(s, i, left)

LEMMA PositionShrinks ==
  ASSUME NEW s \in PositionLists, NEW i \in 1 .. Len(s), NEW left \in Nat,
         NEW t, Shrinks(s, i, left, t)
  PROVE  /\ t \in PositionLists
         /\ \A y : HeldInAll(t, y) =
              (HeldInAll(s, y) - Share(s[i], y))
                + IF s[i].operator = y /\ s[i].mode = "All" THEN left ELSE 0
<1>1. s[i] \in Position /\ \A y : HeldInAll(s, y) \in Nat /\ Share(s[i], y) \in Nat
  BY PositionParts, HeldType, ShareType
<1>2. CASE left = 0
  <2>1. t = SwapAndPop(s, i)
    BY <1>2 DEF Shrinks
  <2>2. /\ t \in PositionLists
        /\ \A y : HeldInAll(t, y) = HeldInAll(s, y) - Share(s[i], y)
    BY <2>1, PositionRemoved
  <2>3. ASSUME NEW y
        PROVE  HeldInAll(t, y) =
                 (HeldInAll(s, y) - Share(s[i], y))
                   + IF s[i].operator = y /\ s[i].mode = "All" THEN left ELSE 0
    <3>1. HeldInAll(t, y) = HeldInAll(s, y) - Share(s[i], y)
      BY <2>2
    <3>2. HeldInAll(t, y) = (HeldInAll(s, y) - Share(s[i], y)) + 0
      BY <1>1, <3>1
    <3> QED
      BY <1>2, <3>2
  <2> QED
    BY <2>2, <2>3
<1>3. CASE left # 0
  <2>1. t = WithShares(s, i, left)
    BY <1>3 DEF Shrinks
  <2>2. /\ t \in PositionLists /\ t[i].operator = s[i].operator
        /\ t[i].mode = s[i].mode /\ t[i].shares = left
        /\ \A y : HeldInAll(t, y) = (HeldInAll(s, y) + Share(t[i], y)) - Share(s[i], y)
    BY <2>1, PositionChanged
  <2>3. ASSUME NEW y
        PROVE  HeldInAll(t, y) =
                 (HeldInAll(s, y) - Share(s[i], y))
                   + IF s[i].operator = y /\ s[i].mode = "All" THEN left ELSE 0
    <3>1. HeldInAll(t, y) = (HeldInAll(s, y) + Share(t[i], y)) - Share(s[i], y)
      BY <2>2
    <3>2. Share(t[i], y) = IF s[i].operator = y /\ s[i].mode = "All" THEN left ELSE 0
      BY <2>2 DEF Share
    <3>3. Share(t[i], y) \in Nat
      BY <3>2
    <3>4. HeldInAll(t, y) = (HeldInAll(s, y) - Share(s[i], y)) + Share(t[i], y)
      BY <1>1, <3>1, <3>3
    <3> QED
      BY <3>2, <3>4
  <2> QED
    BY <2>2, <2>3
<1> QED
  BY <1>2, <1>3

\* Some pools are cut.
Cut(old, D, burnt, worth) ==
  [p \in Pools |-> IF p \in D THEN CutPool(old[p], burnt[p], worth[p]) ELSE old[p]]

Cuts(old, D, worth) == [p \in D |-> Applied(old[p], worth[p])]

LEMMA PoolsCut ==
  ASSUME NEW old, old \in [Pools -> Pool], NEW D \in SUBSET Pools, NEW burnt, NEW worth,
         \A p \in D : burnt[p] \in Nat /\ worth[p] \in Nat,
         NEW new, new = Cut(old, D, burnt, worth),
         NEW cuts, cuts = Cuts(old, D, worth)
  PROVE  /\ new \in [Pools -> Pool]
         /\ Assets(old) = Assets(new) + SumFunction(cuts)
         /\ SumFunction(cuts) \in Nat /\ Assets(new) \in Nat
         /\ \A p \in D : new[p].shares = Minus(old[p].shares, burnt[p])
         /\ \A p \in Pools \ D : new[p].shares = old[p].shares
<1>0. /\ new = [p \in Pools |-> IF p \in D THEN CutPool(old[p], burnt[p], worth[p]) ELSE old[p]]
      /\ cuts = [p \in D |-> Applied(old[p], worth[p])]
  BY DEF Cut, Cuts
<1>1. ASSUME NEW p \in D
      PROVE  /\ new[p] \in Pool /\ cuts[p] \in Nat /\ old[p].assets = new[p].assets + cuts[p]
             /\ new[p].shares = Minus(old[p].shares, burnt[p])
  <2>1. old[p] \in Pool /\ burnt[p] \in Nat /\ worth[p] \in Nat
    OBVIOUS
  <2>2. new[p] = CutPool(old[p], burnt[p], worth[p]) /\ cuts[p] = Applied(old[p], worth[p])
    BY <1>0
  <2>3. /\ CutPool(old[p], burnt[p], worth[p]) \in Pool
        /\ Applied(old[p], worth[p]) \in Nat /\ Applied(old[p], worth[p]) <= old[p].assets
        /\ CutPool(old[p], burnt[p], worth[p]).assets = old[p].assets - Applied(old[p], worth[p])
        /\ CutPool(old[p], burnt[p], worth[p]).shares = Minus(old[p].shares, burnt[p])
    BY ONLY <2>1, CutType, Zenon
  <2>4. old[p].assets \in Nat
    BY <2>1 DEF Pool
  <2> QED
    BY <2>2, <2>3, <2>4
<1>2. \A p \in Pools \ D : new[p] = old[p]
  BY <1>0
<1>3. new \in [Pools -> Pool]
  <2>1. \A p \in Pools : new[p] \in Pool
    BY <1>1, <1>2
  <2> QED
    BY <1>0, <2>1
<1>4. Assets(old) = Assets(new) + SumFunctionOnSet(cuts, D)
  <2>1. \A p \in D : cuts[p] \in Int /\ old[p].assets = new[p].assets + cuts[p]
    BY <1>1
  <2>2. \A p \in Pools \ D : old[p].assets = new[p].assets
    BY <1>2
  <2>3. old \in [Pools -> Pool]
    OBVIOUS
  <2>4. D \in SUBSET Pools
    OBVIOUS
  <2> QED
    BY ONLY <1>3, <2>1, <2>2, <2>3, <2>4, AssetsChange, Zenon
<1>5. SumFunction(cuts) = SumFunctionOnSet(cuts, D)
  BY <1>0, SumOfAll
<1>6. SumFunctionOnSet(cuts, D) \in Nat
  BY <1>1, SetsFinite, SumTypeNat
<1>7. Assets(new) \in Nat
  BY <1>3, AssetsSum
<1> QED
  BY <1>1, <1>2, <1>3, <1>4, <1>5, <1>6, <1>7

\* The execution of one request keeps the books.
LEMMA BookExecuted ==
  ASSUME IInv, NEW d \in Delegators, NEW bk, BookOK(d, bk), NEW r \in Request,
         pendingSlashes[r.operator] = 0
  PROVE  BookOK(d, Executed(d, bk, r))
<1> DEFINE i == PositionOf(bk.positions, r.operator)
           o == r.operator
           s == bk.positions
           old == bk.pool[o]
           burnt == Burnt(s[i], blueprintLists[d][i], bk.held[o], r.shares)
           D == DOMAIN burnt
           worth == [p \in D |-> ToAmount(old[p], burnt[p])]
           amount == IF burnt = <<>> THEN ToAmount(old[All], r.shares)
                                     ELSE SumFunction(worth)
           left == Minus(s[i].shares, r.shares)
           w == WriteOff(bk.deposit, bk.total, r.cost, amount)
           cuts == [p \in D |-> Applied(old[p], worth[p])]
           new == Cut(old, D, burnt, worth)
           t == IF left = 0 THEN SwapAndPop(s, i) ELSE WithShares(s, i, left)
           row == [b \in Blueprints |->
                    IF b \in D THEN Minus(bk.held[o][b], burnt[b]) ELSE bk.held[o][b]]
           e == Executed(d, bk, r)
<1>1. CASE i = 0
  BY <1>1 DEF Executed
<1>2. CASE i # 0
  <2>1. e = [bk EXCEPT
          !.deposit = SettledDeposit(bk.deposit, bk.total, r.cost, amount),
          !.total = bk.total - w,
          !.positions = t,
          !.held = [bk.held EXCEPT ![o] = row],
          !.pool = [bk.pool EXCEPT ![o] = new],
          !.aggregate = [bk.aggregate EXCEPT ![o] = Minus(bk.aggregate[o], SumFunction(cuts))],
          !.count = [bk.count EXCEPT ![o] = IF left = 0 THEN bk.count[o] - 1 ELSE bk.count[o]],
          !.lost = bk.lost + w,
          !.returned = bk.returned + amount]
    BY <1>2 DEF Executed, WithShares, Cut
  <2>2. /\ o \in Operators /\ r.shares \in Nat \ {0} /\ r.cost \in Nat /\ r.shares \in Nat
    BY DEF Request
  <2>3. /\ bk \in Book
        /\ bk.deposit \in Account /\ bk.deposit.amount \in Nat /\ bk.deposit.delegated \in Nat
        /\ bk.total \in Nat /\ s \in PositionLists
        /\ bk.held \in [Operators -> [Blueprints -> Nat]]
        /\ bk.pool \in [Operators -> [Pools -> Pool]]
        /\ bk.aggregate \in [Operators -> Nat] /\ bk.count \in [Operators -> Int]
        /\ bk.lost \in Nat /\ bk.returned \in Nat
    BY BookParts
  <2>4. /\ bk.deposit.delegated <= bk.deposit.amount
        /\ bk.total - bk.deposit.amount = currentDeposits - deposits[d].amount
        /\ bk.aggregate[o] = Assets(old)
        /\ old[All].shares <= Others(d, o) + HeldInAll(s, o)
    BY <2>2 DEF BookOK
  <2>5. i \in 1 .. Len(s) /\ s[i].operator = o
    <3>1. s \in Seq(Position) /\ Len(s) \in Nat
      BY <2>3, PositionParts
    <3>2. i \in 0 .. Len(s) /\ (i # 0 => s[i].operator = o)
      <4> HIDE DEF s, o
      <4> QED
        BY <3>1, PositionFound DEF s, o
    <3> HIDE DEF i
    <3> QED
      BY ONLY <1>2, <3>1, <3>2
  <2>6. /\ s[i] \in Position /\ s[i].shares \in Nat /\ s[i].mode \in Modes
        /\ blueprintLists[d][i] \in Lists /\ bk.held[o] \in [Blueprints -> Nat]
    <3>1. s[i] \in Position /\ i \in Indices
      BY <2>3, <2>5, PositionParts, PositionsBounded
    <3>2. blueprintLists[d][i] \in Lists
      BY <3>1, DelegatorParts
    <3> QED
      BY <2>2, <2>3, <3>1, <3>2 DEF Position
  <2>7. /\ D \in SUBSET Pools /\ \A p \in D : burnt[p] \in Nat
        /\ All \in D <=> s[i].mode = "All"
        /\ s[i].mode = "All" => burnt[All] = r.shares
    <3> DEFINE position == s[i]
               list == blueprintLists[d][i]
               held == bk.held[o]
               shares == r.shares
    <3>1. position \in Position /\ list \in Lists /\ held \in [Blueprints -> Nat] /\ shares \in Nat
      BY <2>2, <2>6
    <3>2. burnt = Burnt(position, list, held, shares)
      OBVIOUS
    <3> HIDE DEF position, list, held, shares
    <3>3. /\ DOMAIN Burnt(position, list, held, shares) \in SUBSET Pools
          /\ Burnt(position, list, held, shares)
               \in [DOMAIN Burnt(position, list, held, shares) -> Nat]
          /\ All \in DOMAIN Burnt(position, list, held, shares) <=> position.mode = "All"
          /\ position.mode = "All" => Burnt(position, list, held, shares)[All] = shares
      BY ONLY <3>1, BurntType
    <3> HIDE DEF burnt
    <3>4. burnt \in [D -> Nat]
      BY <3>2, <3>3
    <3> QED
      BY <3>2, <3>3, <3>4 DEF position, shares
  <2>8. /\ old \in [Pools -> Pool] /\ All \in Pools
        /\ \A p \in Pools : old[p] \in Pool /\ old[p].shares \in Nat
    <3>1. old \in [Pools -> Pool]
      BY <2>2, <2>3
    <3> QED
      BY <3>1, AssetsSum DEF Pools
  <2> HIDE DEF burnt, D, old
  <2>9. \A p \in D : worth[p] \in Nat
    <3>1. SUFFICES ASSUME NEW p \in D PROVE ToAmount(old[p], burnt[p]) \in Nat
      OBVIOUS
    <3>2. old[p] \in Pool /\ burnt[p] \in Nat
      BY <2>7, <2>8
    <3> QED
      BY <3>2, RatesType
  <2>10. amount \in Nat
    <3>1. ToAmount(old[All], r.shares) \in Nat
      BY <2>2, <2>8, RatesType
    <3>2. SumFunction(worth) \in Nat
      <4>1. DOMAIN worth = D /\ IsFiniteSet(D)
        BY <2>7, SetsFinite
      <4> HIDE DEF worth
      <4>2. SumFunction(worth) = SumFunctionOnSet(worth, D)
        BY <4>1, SumOfAll
      <4> QED
        BY <2>9, <4>1, <4>2, SumTypeNat
    <3> QED
      BY <3>1, <3>2
  <2>11. left \in Nat
    BY <2>2, <2>6 DEF Minus
  <2> HIDE DEF amount, worth
  <2>12. /\ new \in [Pools -> Pool]
         /\ Assets(old) = Assets(new) + SumFunction(cuts)
         /\ SumFunction(cuts) \in Nat /\ Assets(new) \in Nat
         /\ \A p \in D : new[p].shares = Minus(old[p].shares, burnt[p])
         /\ \A p \in Pools \ D : new[p].shares = old[p].shares
    <3>1. old \in [Pools -> Pool] /\ D \in SUBSET Pools
      BY <2>7, <2>8
    <3>2. \A p \in D : burnt[p] \in Nat /\ worth[p] \in Nat
      BY <2>7, <2>9
    <3>3. new = Cut(old, D, burnt, worth) /\ cuts = Cuts(old, D, worth)
      BY DEF Cuts
    <3> HIDE DEF new, cuts
    <3> QED
      BY ONLY <3>1, <3>2, <3>3, PoolsCut
  <2>13. /\ w \in Nat /\ w <= bk.deposit.amount /\ w <= bk.total
         /\ SettledDeposit(bk.deposit, bk.total, r.cost, amount) \in Account
         /\ SettledDeposit(bk.deposit, bk.total, r.cost, amount).amount = bk.deposit.amount - w
         /\ SettledDeposit(bk.deposit, bk.total, r.cost, amount).delegated
              <= SettledDeposit(bk.deposit, bk.total, r.cost, amount).amount
    <3> DEFINE dep == bk.deposit
               total == bk.total
               cost == r.cost
    <3>1. dep \in Account /\ total \in Nat /\ cost \in Nat /\ dep.delegated <= dep.amount
      BY <2>2, <2>3, <2>4
    <3> HIDE DEF dep, total, cost
    <3>2. /\ WriteOff(dep, total, cost, amount) \in Nat
          /\ WriteOff(dep, total, cost, amount) <= dep.amount
          /\ WriteOff(dep, total, cost, amount) <= total
      BY ONLY <2>10, <3>1, WriteOffType
    <3>3. /\ SettledDeposit(dep, total, cost, amount) \in Account
          /\ SettledDeposit(dep, total, cost, amount).amount
               = dep.amount - WriteOff(dep, total, cost, amount)
          /\ SettledDeposit(dep, total, cost, amount).delegated
               <= SettledDeposit(dep, total, cost, amount).amount
      BY ONLY <2>10, <3>1, SettledType
    <3> QED
      BY <3>2, <3>3 DEF dep, total, cost
  <2>14. /\ t \in PositionLists
         /\ \A y : HeldInAll(t, y) =
              (HeldInAll(s, y) - Share(s[i], y))
                + IF s[i].operator = y /\ s[i].mode = "All" THEN left ELSE 0
    <3>1. Shrinks(s, i, left, t)
      BY DEF Shrinks
    <3>2. s \in PositionLists
      BY <2>3
    <3> HIDE DEF s, i, left, t
    <3> QED
      BY ONLY <2>5, <2>11, <3>1, <3>2, PositionShrinks
  <2>15. row \in [Blueprints -> Nat]
    <3>1. ASSUME NEW b \in Blueprints PROVE row[b] \in Nat
      <4>1. bk.held[o][b] \in Nat
        BY <2>6
      <4>2. CASE b \in D
        BY <2>7, <4>1, <4>2 DEF Minus
      <4>3. CASE b \notin D
        BY <4>1, <4>3
      <4> QED
        BY <4>2, <4>3
    <3> QED
      BY <3>1
  <2>16. Minus(bk.aggregate[o], SumFunction(cuts)) = Assets(new)
    BY <2>4, <2>12 DEF Minus
  <2> DEFINE dep == SettledDeposit(bk.deposit, bk.total, r.cost, amount)
             count == [bk.count EXCEPT
                        ![o] = IF left = 0 THEN bk.count[o] - 1 ELSE bk.count[o]]
             ps == [bk.pool EXCEPT ![o] = new]
             agg == [bk.aggregate EXCEPT ![o] = Assets(new)]
             held == [bk.held EXCEPT ![o] = row]
             total == bk.total - w
             missed == bk.lost + w
             given == bk.returned + amount
  <2>17. e = [bk EXCEPT !.deposit = dep, !.total = total, !.positions = t, !.held = held,
                        !.pool = ps, !.aggregate = agg, !.count = count, !.lost = missed,
                        !.returned = given]
    BY <2>1, <2>16
  <2>18. /\ dep \in Account /\ total \in Nat /\ t \in PositionLists
         /\ held \in [Operators -> [Blueprints -> Nat]]
         /\ ps \in [Operators -> [Pools -> Pool]] /\ agg \in [Operators -> Nat]
         /\ count \in [Operators -> Int] /\ missed \in Nat /\ given \in Nat
    <3>1. total \in Nat /\ missed \in Nat /\ given \in Nat
      BY <2>3, <2>10, <2>13
    <3>2. ps \in [Operators -> [Pools -> Pool]] /\ agg \in [Operators -> Nat]
      BY <2>3, <2>12
    <3>3. held \in [Operators -> [Blueprints -> Nat]]
      BY <2>3, <2>15
    <3>4. count \in [Operators -> Int]
      BY <2>2, <2>3
    <3> QED
      BY <2>13, <2>14, <3>1, <3>2, <3>3, <3>4
  <2>19. /\ ps[o] = new /\ agg[o] = Assets(new)
         /\ \A x \in Operators \ {o} : ps[x] = bk.pool[x] /\ agg[x] = bk.aggregate[x]
    BY <2>2, <2>3
  <2>20. total - dep.amount = currentDeposits - deposits[d].amount
    <3>1. dep.amount = bk.deposit.amount - w
      BY <2>13
    <3>2. total - dep.amount = bk.total - bk.deposit.amount
      BY <2>3, <2>13, <3>1
    <3> QED
      BY <2>4, <3>2
  <2>21. dep.delegated <= dep.amount
    BY <2>13
  <2> HIDE DEF dep, count, ps, agg, held, total, missed, given, e, t, new
  <2>22. /\ e \in Book
         /\ e.deposit = dep /\ e.total = total /\ e.positions = t
         /\ e.pool = ps /\ e.aggregate = agg
    <3>1. bk \in Book
      BY <2>3
    <3>2. e = [deposit |-> dep, total |-> total, positions |-> t, held |-> held, pool |-> ps,
               aggregate |-> agg, count |-> count, lost |-> missed, returned |-> given]
      BY ONLY <2>17, <3>1 DEF Book
    <3> QED
      BY ONLY <2>18, <3>2 DEF Book
  <2>23. \A x \in Operators : agg[x] = Assets(ps[x])
    <3>1. \A x \in Operators \ {o} : bk.aggregate[x] = Assets(bk.pool[x])
      BY DEF BookOK
    <3> QED
      BY <2>19, <3>1
  <2>24. ASSUME NEW x \in Operators
         PROVE  ps[x][All].shares <= Others(d, x) + HeldInAll(t, x)
    <3>1. Others(d, x) \in Nat /\ HeldInAll(t, x) \in Nat /\ HeldInAll(s, x) \in Nat
      BY <2>3, <2>14, HeldType, OthersType
    <3>2. CASE x # o
      <4>1. HeldInAll(t, x) = (HeldInAll(s, x) - Share(s[i], x)) + 0
        BY <2>5, <2>14, <3>2
      <4>2. Share(s[i], x) = 0
        BY <2>5, <3>2 DEF Share
      <4>3. HeldInAll(t, x) = HeldInAll(s, x)
        BY <3>1, <4>1, <4>2
      <4>4. bk.pool[x][All].shares <= Others(d, x) + HeldInAll(s, x)
        BY DEF BookOK
      <4> QED
        BY <2>19, <3>2, <4>3, <4>4
    <3>3. CASE x = o /\ s[i].mode = "All"
      <4>1. HeldInAll(t, o) = (HeldInAll(s, o) - Share(s[i], o)) + left
        BY <2>5, <2>14, <3>3
      <4>2. Share(s[i], o) = s[i].shares
        BY <2>5, <3>3 DEF Share
      <4>3. new[All].shares = Minus(old[All].shares, r.shares)
        BY <2>7, <2>12, <3>3
      <4>4. left = Minus(s[i].shares, r.shares)
        OBVIOUS
      <4>5. old[All].shares \in Nat /\ old[All].shares <= Others(d, o) + HeldInAll(s, o)
        BY <2>4, <2>8
      <4> HIDE DEF left
      <4>6. Minus(old[All].shares, r.shares) <= Others(d, o) + HeldInAll(t, o)
        BY <2>2, <2>6, <3>1, <3>3, <4>1, <4>2, <4>4, <4>5 DEF Minus
      <4> QED
        BY <2>19, <3>3, <4>3, <4>6
    <3>4. CASE x = o /\ s[i].mode # "All"
      <4>1. HeldInAll(t, o) = (HeldInAll(s, o) - Share(s[i], o)) + 0
        BY <2>14, <3>4
      <4>2. Share(s[i], o) = 0
        BY <3>4 DEF Share
      <4>3. HeldInAll(t, o) = HeldInAll(s, o)
        BY <3>1, <3>4, <4>1, <4>2
      <4>4. new[All].shares = old[All].shares
        BY <2>7, <2>8, <2>12, <3>4
      <4> QED
        BY <2>4, <2>19, <3>4, <4>3, <4>4
    <3> QED
      BY <3>2, <3>3, <3>4
  <2>25. \A x \in Operators : pendingSlashes[x] > 0 => ps[x] = pool[x]
    <3>1. \A x \in Operators : pendingSlashes[x] > 0 => x # o /\ bk.pool[x] = pool[x]
      BY DEF BookOK, o
    <3> QED
      BY <2>19, <3>1
  <2>26. BookOK(d, e)
    BY <2>20, <2>21, <2>22, <2>23, <2>24, <2>25 DEF BookOK
  <2> QED
    BY <2>26 DEF e
<1> QED
  BY <1>1, <1>2

-----------------------------------------------------------------------------
(* Many requests: the fold over an order of them is a recursive function   *)
(* on the sets of indices, which takes away the largest index first.       *)

Outcome(f, d, order, s) ==
  IF s = {} THEN Books(d)
  ELSE Executed(d, f[s \ {Max(s)}], requests[d][order[Max(s)]])

Runs(f, d, order, S) == f = [s \in SUBSET S |-> Outcome(f, d, order, s)]

Batch(d, order) ==
  FoldLeft(LAMBDA b, i : Executed(d, b, requests[d][i]), Books(d), order)

LEMMA FoldIsRecursive ==
  ASSUME NEW d, NEW order
  PROVE  Batch(d, order) = (CHOOSE f : Runs(f, d, order, DOMAIN order))[DOMAIN order]
BY Zenon DEF Batch, FoldLeft, MapThenFoldSet, Runs, Outcome

LEMMA RunsValue ==
  ASSUME NEW f, NEW d, NEW order, NEW S, Runs(f, d, order, S), NEW s \in SUBSET S
  PROVE  f[s] = Outcome(f, d, order, s)
<1> DEFINE h == [u \in SUBSET S |-> Outcome(f, d, order, u)]
<1>1. f = h
  BY DEF Runs
<1>2. h[s] = Outcome(f, d, order, s)
  OBVIOUS
<1> HIDE DEF h
<1> QED
  BY <1>1, <1>2

\* Two such functions agree wherever both are defined.
LEMMA RunsAgree ==
  ASSUME NEW d, NEW order, NEW S, Indexes(S), NEW T, T \subseteq S,
         NEW f, NEW h, Runs(f, d, order, S), Runs(h, d, order, T)
  PROVE  f[T] = h[T]
<1> PICK n \in Nat : S \in SUBSET (1 .. n)
  BY DEF Indexes
<1> DEFINE F == {s \in SUBSET T : f[s] # h[s]}
<1> SUFFICES ASSUME f[T] # h[T] PROVE FALSE
  OBVIOUS
<1>0. F \subseteq SUBSET S /\ IsFiniteSet(S)
  <2>1. F \subseteq SUBSET S
    OBVIOUS
  <2> QED
    BY <2>1, IndicesFinite
<1>1. PICK s \in F : \A u \in F : u \subseteq s => u = s
  <2>1. F # {}
    OBVIOUS
  <2> DEFINE R == S
  <2>2. F \subseteq SUBSET R
    BY <1>0
  <2>3. IsFiniteSet(R)
    BY <1>0
  <2> HIDE DEF F, R
  <2> QED
    BY ONLY <2>1, <2>2, <2>3, SmallestMember
<1>2. s \in SUBSET S /\ s \in SUBSET T /\ s \in SUBSET (1 .. n)
  OBVIOUS
<1>3. f[s] = Outcome(f, d, order, s) /\ h[s] = Outcome(h, d, order, s)
  BY <1>2, RunsValue
<1>4. CASE s = {}
  BY <1>3, <1>4 DEF Outcome
<1>5. CASE s # {}
  <2>1. Max(s) \in s /\ s \ {Max(s)} \in SUBSET s /\ s \ {Max(s)} # s
    BY <1>2, <1>5, MaxMember
  <2>2. s \ {Max(s)} \notin F
    BY <1>1, <2>1
  <2>3. f[s \ {Max(s)}] = h[s \ {Max(s)}]
    BY <2>1, <2>2
  <2> QED
    BY <1>3, <1>5, <2>3 DEF Outcome
<1> QED
  BY <1>4, <1>5

LEMMA RunsExists ==
  ASSUME NEW d, NEW order, NEW n \in Nat, NEW S \in SUBSET (1 .. n)
  PROVE  \A T \in SUBSET S : \E f : Runs(f, d, order, T)
<1> DEFINE F == {T \in SUBSET S : ~ \E f : Runs(f, d, order, T)}
           V(u) == (CHOOSE f : Runs(f, d, order, u))[u]
           W(u) == IF u = {} THEN Books(d)
                   ELSE Executed(d, V(u \ {Max(u)}), requests[d][order[Max(u)]])
<1> SUFFICES ASSUME F # {} PROVE FALSE
  OBVIOUS
<1>0. F \subseteq SUBSET S /\ IsFiniteSet(S)
  BY IndicesFinite
<1>1. PICK T \in F : \A U \in F : U \subseteq T => U = T
  <2>1. F # {}
    OBVIOUS
  <2> DEFINE R == S
  <2>2. F \subseteq SUBSET R
    BY <1>0
  <2>3. IsFiniteSet(R)
    BY <1>0
  <2> HIDE DEF F, R
  <2> QED
    BY ONLY <2>1, <2>2, <2>3, SmallestMember
<1>2. ASSUME NEW v \in SUBSET T, v # T PROVE V(v) = W(v)
  <2> DEFINE f == CHOOSE f : Runs(f, d, order, v)
             w == v \ {Max(v)}
  <2>1. Runs(f, d, order, v)
    BY <1>1, <1>2
  <2>2. f[v] = Outcome(f, d, order, v)
    <3>1. v \in SUBSET v
      OBVIOUS
    <3> QED
      BY <2>1, <3>1, RunsValue
  <2>3. CASE v = {}
    BY <2>2, <2>3 DEF Outcome
  <2>4. CASE v # {}
    <3>0. v \in SUBSET (1 .. n)
      OBVIOUS
    <3>1. w \in SUBSET v /\ w # v
      BY <2>4, <3>0, MaxMember
    <3>2. w \in SUBSET T /\ w # T
      BY <3>1, <1>2
    <3>3. Runs(CHOOSE h : Runs(h, d, order, w), d, order, w)
      BY <1>1, <3>2
    <3>4. f[w] = V(w)
      <4> DEFINE h == CHOOSE h : Runs(h, d, order, w)
      <4>1. Runs(h, d, order, w)
        BY <3>3
      <4> HIDE DEF f, h, w
      <4>3. f[w] = h[w]
        <5> DEFINE q == v
        <5>1. w \subseteq q
          BY <3>1
        <5>2. Indexes(q)
          BY <3>0 DEF Indexes
        <5>3. Runs(f, d, order, q)
          BY <2>1
        <5> HIDE DEF q
        <5> QED
          BY ONLY <4>1, <5>1, <5>2, <5>3, RunsAgree
      <4> QED
        BY <4>3 DEF h
    <3>5. f[v] = Executed(d, f[w], requests[d][order[Max(v)]])
      BY <2>2, <2>4 DEF Outcome
    <3>6. W(v) = Executed(d, V(w), requests[d][order[Max(v)]])
      BY <2>4
    <3>7. V(v) = f[v]
      OBVIOUS
    <3> HIDE DEF V, W, f, w
    <3> QED
      BY <3>4, <3>5, <3>6, <3>7
  <2> QED
    BY <2>3, <2>4
<1>3. Runs([u \in SUBSET T |-> W(u)], d, order, T)
  <2> DEFINE f == [u \in SUBSET T |-> W(u)]
             E(u) == Outcome(f, d, order, u)
  <2> SUFFICES ASSUME NEW u \in SUBSET T PROVE W(u) = E(u)
    <3>1. [u \in SUBSET T |-> W(u)] = [u \in SUBSET T |-> E(u)]
      <4> HIDE DEF W, E
      <4> QED
        OBVIOUS
    <3> QED
      BY <3>1 DEF Runs
  <2>1. CASE u = {}
    BY <2>1 DEF Outcome
  <2>2. CASE u # {}
    <3>0. u \in SUBSET (1 .. n)
      OBVIOUS
    <3>1. u \ {Max(u)} \in SUBSET T /\ u \ {Max(u)} # T
      BY <2>2, <3>0, MaxMember
    <3>2. f[u \ {Max(u)}] = V(u \ {Max(u)})
      BY <3>1, <1>2
    <3> QED
      BY <2>2, <3>2 DEF Outcome
  <2> QED
    BY <2>1, <2>2
<1> QED
  BY <1>1, <1>3

\* Whatever the order, the books are kept.
LEMMA BookFolded ==
  ASSUME IInv, NEW d \in Delegators, NEW n \in Nat, NEW order, DOMAIN order = 1 .. n,
         \A k \in 1 .. n : /\ requests[d][order[k]] \in Request
                           /\ pendingSlashes[requests[d][order[k]].operator] = 0
  PROVE  BookOK(d, Batch(d, order))
<1> DEFINE D == 1 .. n
           f == CHOOSE f : Runs(f, d, order, D)
           F == {T \in SUBSET D : ~BookOK(d, f[T])}
<1>1. Batch(d, order) = f[D]
  BY FoldIsRecursive
<1>2. Runs(f, d, order, D)
  <2>1. D \in SUBSET (1 .. n) /\ D \in SUBSET D
    OBVIOUS
  <2>2. \E h : Runs(h, d, order, D)
    BY <2>1, RunsExists
  <2> QED
    BY <2>2
<1> HIDE DEF f
<1>3. F = {}
  <2> SUFFICES ASSUME F # {} PROVE FALSE
    OBVIOUS
  <2>1. F \subseteq SUBSET D /\ IsFiniteSet(D)
    BY IndicesFinite
  <2>2. PICK T \in F : \A U \in F : U \subseteq T => U = T
    <3> HIDE DEF F, D
    <3> QED
      BY <2>1, SmallestMember
  <2>3. T \in SUBSET D /\ ~BookOK(d, f[T])
    OBVIOUS
  <2>4. f[T] = Outcome(f, d, order, T)
    <3> HIDE DEF D
    <3> QED
      BY <1>2, <2>3, RunsValue
  <2>5. CASE T = {}
    BY <2>3, <2>4, <2>5, BookStart DEF Outcome
  <2>6. CASE T # {}
    <3> DEFINE m == Max(T)
               r == requests[d][order[m]]
               bk == f[T \ {m}]
    <3>1. m \in T /\ T \ {m} \in SUBSET T /\ T \ {m} # T
      BY <2>3, <2>6, MaxMember
    <3>2. BookOK(d, bk)
      BY <2>2, <2>3, <3>1
    <3>3. m \in 1 .. n
      BY <2>3, <3>1
    <3>4. r \in Request /\ pendingSlashes[r.operator] = 0
      BY <3>3
    <3>5. f[T] = Executed(d, bk, r)
      BY <2>4, <2>6 DEF Outcome
    <3> HIDE DEF bk, r
    <3>6. BookOK(d, Executed(d, bk, r))
      BY <3>2, <3>4, BookExecuted
    <3> QED
      BY <2>3, <3>5, <3>6
  <2> QED
    BY <2>5, <2>6
<1>4. D \in SUBSET D
  OBVIOUS
<1> QED
  BY <1>1, <1>3, <1>4

\* The books become the state, and what is paid out of the deposit leaves it.
LEMMA BookSettled ==
  ASSUME IInv, NEW d \in Delegators, NEW bk, BookOK(d, bk), Settled(d, bk),
         NEW out \in Nat, out <= bk.deposit.amount - bk.deposit.delegated,
         deposits' = [deposits EXCEPT ![d] =
           [amount |-> bk.deposit.amount - out, delegated |-> bk.deposit.delegated]],
         currentDeposits' = bk.total - out,
         requests' \in [Delegators -> Seq(Request)]
  PROVE  /\ IInv'
         /\ \A o \in Operators : pendingSlashes[o] > 0 => pool'[o] = pool[o]
<1> DEFINE acc == [amount |-> bk.deposit.amount - out, delegated |-> bk.deposit.delegated]
<1>1. /\ bk.deposit.amount \in Nat /\ bk.deposit.delegated \in Nat
      /\ bk.total \in Nat /\ bk.positions \in PositionLists
      /\ bk.held \in [Operators -> [Blueprints -> Nat]]
      /\ bk.pool \in [Operators -> [Pools -> Pool]]
      /\ bk.aggregate \in [Operators -> Nat] /\ bk.count \in [Operators -> Int]
      /\ bk.lost \in Nat
  BY BookParts
<1>2. /\ bk.total - bk.deposit.amount = currentDeposits - deposits[d].amount
      /\ \A o \in Operators : bk.aggregate[o] = Assets(bk.pool[o])
      /\ \A o \in Operators :
           bk.pool[o][All].shares <= Others(d, o) + HeldInAll(bk.positions, o)
      /\ \A o \in Operators : pendingSlashes[o] > 0 => bk.pool[o] = pool[o]
  BY DEF BookOK
<1>3. /\ delegations' = [delegations EXCEPT ![d] = bk.positions]
      /\ blueprintShares' = [blueprintShares EXCEPT ![d] = bk.held]
      /\ pool' = bk.pool /\ aggregate' = bk.aggregate /\ delegationCount' = bk.count
      /\ lost' = [lost EXCEPT ![d] = bk.lost]
      /\ withdrawals' = withdrawals /\ blueprintLists' = blueprintLists
      /\ registered' = registered /\ pendingSlashes' = pendingSlashes
      /\ currentRound' = currentRound /\ deposited' = deposited
      /\ slashes' = slashes /\ hit' = hit
      /\ \A o \in Operators : bk.count[o] >= 0
  BY DEF Settled
<1>4. /\ acc \in Account /\ acc.amount = bk.deposit.amount - out
      /\ acc.delegated <= acc.amount
  <2> DEFINE m == bk.deposit.amount
             n == bk.deposit.delegated
  <2>0. m \in Nat /\ n \in Nat
    BY <1>1
  <2>1. out \in Nat /\ out <= m - n
    OBVIOUS
  <2>2. acc = [amount |-> m - out, delegated |-> n]
    OBVIOUS
  <2> HIDE DEF m, n, acc
  <2>3. m - out \in Nat /\ n <= m - out
    BY ONLY <2>0, <2>1
  <2>4. acc \in Account /\ acc.amount = m - out /\ acc.delegated = n
    BY <2>0, <2>2, <2>3 DEF Account
  <2> QED
    BY <2>3, <2>4 DEF m
<1>5. deposits' = [deposits EXCEPT ![d] = acc]
  OBVIOUS
<1> HIDE DEF acc
<1>6. /\ deposits' \in [Delegators -> Account] /\ deposits'[d] = acc
      /\ \A e \in Delegators \ {d} : deposits'[e] = deposits[e]
  BY <1>4, <1>5 DEF IInv, Types
<1>7. Types'
  <2>1. bk.count \in [Operators -> Nat]
    BY <1>1, <1>3
  <2>2. delegations' \in [Delegators -> PositionLists]
    BY <1>1, <1>3 DEF IInv, Types
  <2>3. blueprintShares' \in [Delegators -> [Operators -> [Blueprints -> Nat]]]
    BY <1>1, <1>3 DEF IInv, Types
  <2>4. lost' \in [Delegators -> Nat]
    BY <1>1, <1>3 DEF IInv, Types
  <2> QED
    BY <1>1, <1>3, <1>6, <2>1, <2>2, <2>3, <2>4 DEF IInv, Types
<1>8. DepositsAccounted'
  <2> DEFINE a == deposits
             b == deposits'
             w == withdrawals
  <2>1. /\ a \in [Delegators -> Account] /\ b \in [Delegators -> Account]
        /\ w \in [Delegators -> Seq(Withdrawal)]
    BY <1>6 DEF IInv, Types
  <2>2. \A e \in Delegators \ {d} : b[e] = a[e] /\ w[e] = w[e]
    BY <1>6
  <2>3. d \in Delegators
    OBVIOUS
  <2>4. /\ Owed(b[d], w[d]) = acc.amount + Waiting(w[d])
        /\ Owed(a[d], w[d]) = deposits[d].amount + Waiting(w[d])
    BY <1>6 DEF Owed
  <2>5. Waiting(w[d]) \in Nat /\ deposits[d].amount \in Nat /\ currentDeposits \in Nat
    BY AccountParts, TotalDeposited
  <2>6. currentDeposits = Total(a, w)
    BY DepositsTotal DEF IInv
  <2> HIDE DEF a, b, w
  <2>7. Total(b, w) = (Total(a, w) + Owed(b[d], w[d])) - Owed(a[d], w[d])
    BY ONLY <2>1, <2>2, <2>3, OneOwed
  <2>8. Total(b, w) = currentDeposits'
    <3> DEFINE m == bk.deposit.amount
               n == deposits[d].amount
               total == bk.total
               wait == Waiting(w[d])
    <3>1. /\ currentDeposits' = total - out /\ total - m = currentDeposits - n
          /\ Owed(b[d], w[d]) = (m - out) + wait /\ Owed(a[d], w[d]) = n + wait
      BY <1>2, <1>4, <2>4
    <3>2. /\ m \in Int /\ n \in Int /\ total \in Int /\ wait \in Int /\ out \in Int
          /\ currentDeposits \in Int
      BY <1>1, <2>5
    <3> HIDE DEF m, n, total, wait
    <3> QED
      BY ONLY <2>6, <2>7, <3>1, <3>2
  <2>9. withdrawals' = w
    BY <1>3 DEF w
  <2> QED
    BY <2>8, <2>9, PrimedParts DEF b
<1>9. DelegatedWithinDeposit'
  BY <1>4, <1>6 DEF IInv, DelegatedWithinDeposit
<1>10. AggregateInStep'
  BY <1>2, <1>3, PrimedParts
<1>11. SharesClaimed'
  <2> DEFINE s == delegations
             u == delegations'
  <2>1. s \in [Delegators -> PositionLists] /\ u \in [Delegators -> PositionLists]
    BY <1>7 DEF IInv, Types
  <2>2. u[d] = bk.positions /\ \A e \in Delegators \ {d} : u[e] = s[e]
    BY <1>3 DEF IInv, Types
  <2>3. d \in Delegators
    OBVIOUS
  <2> HIDE DEF s, u
  <2>4. ASSUME NEW o \in Operators PROVE pool'[o][All].shares <= Holding(u, o)
    <3>1. /\ Holding(u, o) = (Holding(s, o) + HeldInAll(u[d], o)) - HeldInAll(s[d], o)
          /\ Holding(u, o) \in Nat /\ HeldInAll(u[d], o) \in Nat
      BY ONLY <2>1, <2>2, <2>3, OneHolds
    <3>2. /\ Others(d, o) \in Nat /\ HeldInAll(s[d], o) \in Nat
          /\ Holding(s, o) = Others(d, o) + HeldInAll(s[d], o)
      BY OthersType DEF s
    <3>3. Holding(u, o) = Others(d, o) + HeldInAll(bk.positions, o)
      BY <2>2, <3>1, <3>2
    <3> QED
      BY <1>2, <1>3, <3>3
  <2> QED
    BY <2>4, PrimedParts DEF u
<1>12. IInv'
  BY <1>7, <1>8, <1>9, <1>10, <1>11 DEF IInv
<1> QED
  BY <1>2, <1>3, <1>12

-----------------------------------------------------------------------------
(* Executed requests.                                                      *)

LEMMA SequencesOfSet ==
  ASSUME NEW S, IsFiniteSet(S), NEW order \in SetToSeqs(S)
  PROVE  /\ Cardinality(S) \in Nat /\ DOMAIN order = 1 .. Cardinality(S)
         /\ \A k \in 1 .. Cardinality(S) : order[k] \in S
<1>1. Cardinality(S) \in Nat
  BY FS_CardinalityType
<1>2. order \in [1 .. Cardinality(S) -> S]
  BY DEF SetToSeqs
<1> QED
  BY <1>1, <1>2

LEMMA ExecuteUnstakeKeeps ==
  ASSUME IInv, NEW d \in Delegators, ExecuteUnstake(d)
  PROVE  /\ IInv'
         /\ \A o \in Operators : pendingSlashes[o] > 0 => pool'[o] = pool[o]
<1> DEFINE list == requests[d]
           ripe == {i \in DOMAIN list : Ripe(list[i])}
           rest == DOMAIN list \ ripe
<1>1. PICK order \in SetToSeqs(ripe) :
        /\ Settled(d, Batch(d, order))
        /\ deposits' = [deposits EXCEPT ![d] = Batch(d, order).deposit]
        /\ currentDeposits' = Batch(d, order).total
  BY Zenon DEF ExecuteUnstake, Batch
<1>2. requests' = [requests EXCEPT ![d] = Kept(list, rest)]
  BY Zenon DEF ExecuteUnstake
<1>3. /\ list \in Seq(Request) /\ DOMAIN list = 1 .. Len(list) /\ Len(list) \in Nat
      /\ \A i \in DOMAIN list : list[i] \in Request
  <2>1. list \in Seq(Request)
    BY DelegatorParts
  <2> HIDE DEF list
  <2> QED
    BY <2>1
<1>4. /\ ripe \in SUBSET (1 .. Len(list)) /\ rest \in SUBSET DOMAIN list
      /\ \A i \in ripe : list[i] \in Request /\ pendingSlashes[list[i].operator] = 0
  BY <1>3 DEF Ripe
<1> DEFINE n == Cardinality(ripe)
           bk == Batch(d, order)
<1>5. n \in Nat /\ DOMAIN order = 1 .. n /\ \A k \in 1 .. n : order[k] \in ripe
  <2>1. IsFiniteSet(ripe)
    BY <1>3, <1>4, IndicesFinite
  <2> HIDE DEF ripe
  <2> QED
    BY <1>1, <2>1, SequencesOfSet
<1>6. \A k \in 1 .. n : /\ requests[d][order[k]] \in Request
                        /\ pendingSlashes[requests[d][order[k]].operator] = 0
  BY <1>4, <1>5
<1> HIDE DEF n, ripe, rest
<1>7. BookOK(d, bk)
  BY <1>5, <1>6, BookFolded
<1>8. Kept(list, rest) \in Seq(Request)
  BY <1>3, <1>4, KeptType
<1>9. requests' \in [Delegators -> Seq(Request)]
  BY <1>2, <1>8 DEF IInv, Types
<1>10. Settled(d, bk) /\ deposits' = [deposits EXCEPT ![d] = bk.deposit]
       /\ currentDeposits' = bk.total
  BY <1>1
<1> HIDE DEF bk, list
<1>11. /\ bk.deposit \in Account /\ bk.deposit.amount \in Nat /\ bk.deposit.delegated \in Nat
       /\ bk.total \in Nat
  BY <1>7, BookParts
<1>12. bk.deposit.delegated <= bk.deposit.amount
  BY <1>7 DEF BookOK
<1> DEFINE out == 0
<1>13. /\ out \in Nat /\ out <= bk.deposit.amount - bk.deposit.delegated
       /\ bk.deposit.amount = bk.deposit.amount - out /\ bk.total = bk.total - out
  BY <1>11, <1>12
<1> HIDE DEF out
<1>14. bk.deposit = [amount |-> bk.deposit.amount, delegated |-> bk.deposit.delegated]
  BY <1>11 DEF Account
<1>15. bk.deposit = [amount |-> bk.deposit.amount - out, delegated |-> bk.deposit.delegated]
  BY ONLY <1>13, <1>14
<1>16. /\ deposits' = [deposits EXCEPT ![d] =
            [amount |-> bk.deposit.amount - out, delegated |-> bk.deposit.delegated]]
       /\ currentDeposits' = bk.total - out
  BY <1>10, <1>13, <1>15
<1>17. IInv /\ d \in Delegators
  OBVIOUS
<1>18. Settled(d, bk)
  BY <1>10
<1>19. out \in Nat /\ out <= bk.deposit.amount - bk.deposit.delegated
  BY <1>13
<1> QED
  BY ONLY <1>7, <1>9, <1>16, <1>17, <1>18, <1>19, BookSettled

LEMMA ExecuteUnstakeAndWithdrawKeeps ==
  ASSUME IInv, NEW d \in Delegators, NEW k \in DOMAIN requests[d],
         ExecuteUnstakeAndWithdraw(d, k)
  PROVE  /\ IInv'
         /\ \A o \in Operators : pendingSlashes[o] > 0 => pool'[o] = pool[o]
<1> DEFINE list == requests[d]
           r == list[k]
           bk == Executed(d, Books(d), r)
           out == bk.returned
<1>1. /\ Ripe(r) /\ Withdrawable(bk.deposit, out) /\ Settled(d, bk)
      /\ deposits' = [deposits EXCEPT ![d] = [bk.deposit EXCEPT !.amount = @ - out]]
      /\ currentDeposits' = bk.total - out
      /\ requests' = [requests EXCEPT ![d] = SwapAndPop(list, k)]
  BY Zenon DEF ExecuteUnstakeAndWithdraw
<1>2. list \in Seq(Request) /\ k \in DOMAIN list
  BY DelegatorParts
<1> HIDE DEF list
<1>3. r \in Request /\ k \in 1 .. Len(list) /\ Len(list) \in Nat
  BY <1>2
<1>4. pendingSlashes[r.operator] = 0
  BY <1>1 DEF Ripe
<1>5. BookOK(d, bk)
  BY <1>3, <1>4, BookStart, BookExecuted
<1>6. SwapAndPop(list, k) \in Seq(Request)
  BY <1>2, <1>3, SwapAndPopType
<1>7. requests' \in [Delegators -> Seq(Request)]
  BY <1>1, <1>6 DEF IInv, Types
<1> HIDE DEF bk
<1>8. /\ bk.deposit \in Account /\ bk.deposit.amount \in Nat /\ bk.deposit.delegated \in Nat
      /\ bk.total \in Nat /\ out \in Nat
  BY <1>5, BookParts
<1>9. out <= bk.deposit.amount - bk.deposit.delegated
  BY <1>1 DEF Withdrawable, Available
<1>10. [bk.deposit EXCEPT !.amount = @ - out]
         = [amount |-> bk.deposit.amount - out, delegated |-> bk.deposit.delegated]
  BY <1>8 DEF Account
<1>11. deposits' = [deposits EXCEPT ![d] =
         [amount |-> bk.deposit.amount - out, delegated |-> bk.deposit.delegated]]
  BY <1>1, <1>10
<1>12. Settled(d, bk) /\ currentDeposits' = bk.total - out
  BY <1>1
<1> HIDE DEF out
<1> QED
  BY <1>5, <1>7, <1>8, <1>9, <1>11, <1>12, BookSettled

-----------------------------------------------------------------------------
(* Rebalancing.                                                            *)

\* A pool in which a delegator's shares are made worth target, and what it gains.
Gain(p, target, shares) ==
  Minus(target, ToAmount(p, shares)) - Applied(p, Minus(ToAmount(p, shares), target))

Reset(p, target, shares) ==
  [shares |-> Minus(p.shares + ToShares(p, target), shares),
   assets |-> p.assets + Minus(target, ToAmount(p, shares))
                - Applied(p, Minus(ToAmount(p, shares), target))]

LEMMA ResetType ==
  ASSUME NEW p \in Pool, NEW target \in Nat, NEW shares \in Nat
  PROVE  /\ Reset(p, target, shares) \in Pool /\ Gain(p, target, shares) \in Int
         /\ Reset(p, target, shares).assets = p.assets + Gain(p, target, shares)
<1> DEFINE worth == ToAmount(p, shares)
           new == ToShares(p, target)
           up == Minus(target, worth)
           down == Minus(worth, target)
           cut == Applied(p, down)
           s == p.shares
           a == p.assets
<1>1. s \in Nat /\ a \in Nat
  BY DEF Pool
<1>2. worth \in Nat /\ new \in Nat
  BY RatesType
<1> HIDE DEF worth, new
<1>3. up \in Nat /\ down \in Nat
  BY <1>2 DEF Minus
<1> HIDE DEF up, down
<1>4. cut \in Nat /\ cut <= a
  BY <1>1, <1>3 DEF Applied
<1>5. /\ Reset(p, target, shares) = [shares |-> Minus(s + new, shares), assets |-> a + up - cut]
      /\ Gain(p, target, shares) = up - cut
  BY DEF Reset, Gain, worth, new, up, down
<1> HIDE DEF cut, s, a
<1>6. Minus(s + new, shares) \in Nat
  BY <1>1, <1>2 DEF Minus
<1>7. a + up - cut \in Nat /\ up - cut \in Int /\ a + up - cut = a + (up - cut)
  BY <1>1, <1>3, <1>4
<1>8. /\ Reset(p, target, shares) \in Pool
      /\ Reset(p, target, shares).assets = a + up - cut
  BY <1>5, <1>6, <1>7 DEF Pool
<1> QED
  BY <1>5, <1>7, <1>8 DEF a

ResetPools(old, D, targets, held) ==
  [p \in Pools |-> IF p \in D THEN Reset(old[p], targets[p], held[p]) ELSE old[p]]

Gains(old, D, targets, held) == [p \in D |-> Gain(old[p], targets[p], held[p])]

Resettable(old, D, targets, held) ==
  /\ old \in [Pools -> Pool] /\ D \in SUBSET Pools
  /\ \A p \in D : targets[p] \in Nat /\ held[p] \in Nat

LEMMA PoolsReset ==
  ASSUME NEW old, NEW D, NEW targets, NEW held, Resettable(old, D, targets, held),
         NEW new, new = ResetPools(old, D, targets, held),
         NEW gains, gains = Gains(old, D, targets, held)
  PROVE  /\ new \in [Pools -> Pool]
         /\ Assets(new) = Assets(old) + SumFunction(gains)
         /\ SumFunction(gains) \in Int /\ Assets(new) \in Nat
         /\ \A p \in Pools \ D : new[p].shares = old[p].shares
<1> USE DEF Resettable
<1>0. /\ new = [p \in Pools |-> IF p \in D THEN Reset(old[p], targets[p], held[p]) ELSE old[p]]
      /\ gains = [p \in D |-> Gain(old[p], targets[p], held[p])]
  BY DEF ResetPools, Gains
<1>1. ASSUME NEW p \in D
      PROVE  new[p] \in Pool /\ gains[p] \in Int /\ new[p].assets = old[p].assets + gains[p]
  <2>1. old[p] \in Pool
    OBVIOUS
  <2>2. targets[p] \in Nat
    OBVIOUS
  <2>3. held[p] \in Nat
    OBVIOUS
  <2>4. /\ new[p] = Reset(old[p], targets[p], held[p])
        /\ gains[p] = Gain(old[p], targets[p], held[p])
    BY <1>0
  <2>5. /\ Reset(old[p], targets[p], held[p]) \in Pool
        /\ Gain(old[p], targets[p], held[p]) \in Int
        /\ Reset(old[p], targets[p], held[p]).assets
             = old[p].assets + Gain(old[p], targets[p], held[p])
    BY ONLY <2>1, <2>2, <2>3, ResetType, Zenon
  <2> QED
    BY <2>4, <2>5
<1>2. \A p \in Pools \ D : new[p] = old[p]
  BY <1>0
<1>3. new \in [Pools -> Pool]
  <2>1. \A p \in Pools : new[p] \in Pool
    BY <1>1, <1>2
  <2> QED
    BY <1>0, <2>1
<1>4. Assets(new) = Assets(old) + SumFunctionOnSet(gains, D)
  <2>1. \A p \in D : gains[p] \in Int /\ new[p].assets = old[p].assets + gains[p]
    BY <1>1
  <2>2. \A p \in Pools \ D : new[p].assets = old[p].assets
    BY <1>2
  <2>3. old \in [Pools -> Pool]
    OBVIOUS
  <2>4. D \in SUBSET Pools
    OBVIOUS
  <2> QED
    BY ONLY <1>3, <2>1, <2>2, <2>3, <2>4, AssetsChange, Zenon
<1>5. SumFunction(gains) = SumFunctionOnSet(gains, D)
  BY <1>0, SumOfAll
<1>6. SumFunctionOnSet(gains, D) \in Int
  BY <1>1, SetsFinite, SumType
<1>7. Assets(new) \in Nat
  BY <1>3, AssetsSum
<1> QED
  BY <1>2, <1>3, <1>4, <1>5, <1>6, <1>7

LEMMA RebalanceKeeps ==
  ASSUME IInv, NEW d \in Delegators, NEW i \in 1 .. Len(delegations[d]),
         delegations[d][i].mode = "Fixed",
         NEW targets, DOMAIN targets \in SUBSET Blueprints,
         \A b \in DOMAIN targets : targets[b] \in Nat,
         NEW list \in Lists, Rebalance(d, i, targets, list)
  PROVE  /\ IInv'
         /\ \A x \in Operators \ {delegations[d][i].operator} : pool'[x] = pool[x]
<1> DEFINE s == delegations[d]
           o == s[i].operator
           old == pool[o]
           held == blueprintShares[d][o]
           D == DOMAIN targets
           worth == [b \in D |-> ToAmount(old[b], held[b])]
           mint == [b \in D |-> ToShares(old[b], targets[b])]
           shares == SumFunction(mint)
           t == WithShares(s, i, shares)
           new == ResetPools(old, D, targets, held)
           gains == Gains(old, D, targets, held)
           row == [b \in Blueprints |-> IF b \in D THEN mint[b] ELSE held[b]]
<1>1. /\ delegations' = [delegations EXCEPT ![d] = t]
      /\ blueprintLists' = [blueprintLists EXCEPT ![d][i] = list]
      /\ blueprintShares' = [blueprintShares EXCEPT ![d][o] = row]
      /\ pool' = [pool EXCEPT ![o] = new]
      /\ aggregate' = [aggregate EXCEPT ![o] = Minus(aggregate[o] + SumFunction(gains), 0)]
  <2> DEFINE after(p, b) ==
               [shares |-> Minus(p.shares + mint[b], held[b]),
                assets |-> p.assets + Minus(targets[b], worth[b])
                             - Applied(p, Minus(worth[b], targets[b]))]
             change(b) == Minus(targets[b], worth[b])
                            - Applied(old[b], Minus(worth[b], targets[b]))
             raw == [p \in Pools |-> IF p \in D THEN after(old[p], p) ELSE old[p]]
             rises == [b \in D |-> change(b)]
  <2>1. /\ delegations' = [delegations EXCEPT ![d][i].shares = shares]
        /\ blueprintLists' = [blueprintLists EXCEPT ![d][i] = list]
        /\ blueprintShares' = [blueprintShares EXCEPT ![d][o] = row]
        /\ pool' = [pool EXCEPT ![o] = raw]
        /\ aggregate' = [aggregate EXCEPT ![o] = Minus(aggregate[o] + SumFunction(rises), 0)]
    BY Zenon DEF Rebalance
  <2>2. t = [delegations[d] EXCEPT ![i].shares = shares]
    BY DEF WithShares
  <2>3. raw = new
    BY DEF ResetPools, Reset
  <2>4. rises = gains
    BY DEF Gains, Gain
  <2> HIDE DEF shares, t, raw, new, rises, gains, row
  <2>5. delegations' = [delegations EXCEPT ![d] = t]
    BY <2>1, <2>2
  <2> QED
    BY <2>1, <2>3, <2>4, <2>5
<1>2. /\ deposits' = deposits /\ currentDeposits' = currentDeposits
      /\ withdrawals' = withdrawals /\ requests' = requests
      /\ delegationCount' = delegationCount /\ registered' = registered
      /\ pendingSlashes' = pendingSlashes /\ currentRound' = currentRound
      /\ deposited' = deposited /\ slashes' = slashes /\ hit' = hit /\ lost' = lost
  BY Zenon DEF Rebalance, historyVars
<1>3. /\ s \in PositionLists /\ i \in 1 .. Len(s) /\ i \in Indices /\ o \in Operators
      /\ s[i].mode = "Fixed"
  BY DelegatorParts, PositionOfDelegator
<1>4. /\ old \in [Pools -> Pool] /\ aggregate[o] = Assets(old)
      /\ held \in [Blueprints -> Nat]
      /\ D \in SUBSET Pools /\ All \in Pools /\ All \notin D
  <2>1. D \in SUBSET Pools /\ All \in Pools /\ All \notin D
    BY SetsFinite DEF Pools
  <2> QED
    BY <1>3, <2>1, PoolParts, DelegatorParts
<1> HIDE DEF old, held, worth
<1>5. /\ \A b \in D : mint[b] \in Nat /\ targets[b] \in Nat /\ held[b] \in Nat
      /\ DOMAIN mint = D
  <2>1. ASSUME NEW b \in D
        PROVE  ToShares(old[b], targets[b]) \in Nat /\ targets[b] \in Nat /\ held[b] \in Nat
    <3>1. old[b] \in Pool /\ targets[b] \in Nat /\ held[b] \in Nat
      BY <1>4
    <3> QED
      BY <3>1, RatesType
  <2> QED
    BY <2>1
<1> HIDE DEF mint
<1>6. shares \in Nat
  <2>1. SumFunction(mint) = SumFunctionOnSet(mint, D)
    BY <1>5, SumOfAll
  <2>2. SumFunctionOnSet(mint, D) \in Nat
    BY <1>4, <1>5, SetsFinite, SumTypeNat
  <2> QED
    BY <2>1, <2>2
<1> HIDE DEF shares, t, new, gains
<1>7. /\ t \in PositionLists
      /\ \A x : HeldInAll(t, x) = HeldInAll(s, x)
  <2> DEFINE u == t
  <2>1. u = WithShares(s, i, shares)
    BY DEF t
  <2> HIDE DEF s
  <2>2. /\ u \in PositionLists
        /\ u[i] \in Position /\ u[i].mode = s[i].mode
        /\ \A x : HeldInAll(u, x) = (HeldInAll(s, x) + Share(u[i], x)) - Share(s[i], x)
    BY ONLY <1>3, <1>6, <2>1, PositionChanged
  <2>3. ASSUME NEW x PROVE HeldInAll(u, x) = HeldInAll(s, x)
    <3>1. Share(u[i], x) = 0 /\ Share(s[i], x) = 0
      BY <1>3, <2>2 DEF Share
    <3>2. HeldInAll(s, x) \in Nat
      BY <1>3, HeldType
    <3> QED
      BY <2>2, <3>1, <3>2
  <2> QED
    BY <2>2, <2>3
<1>8. /\ new \in [Pools -> Pool] /\ new[All].shares = old[All].shares
      /\ Assets(new) = Assets(old) + SumFunction(gains)
      /\ SumFunction(gains) \in Int /\ Assets(new) \in Nat
  <2>1. new = ResetPools(old, D, targets, held)
    BY DEF new
  <2>2. gains = Gains(old, D, targets, held)
    BY DEF gains
  <2>3. \A b \in D : targets[b] \in Nat /\ held[b] \in Nat
    BY <1>5
  <2>4. old \in [Pools -> Pool]
    BY <1>4
  <2>5. D \in SUBSET Pools
    BY <1>4
  <2>6. /\ new \in [Pools -> Pool]
        /\ Assets(new) = Assets(old) + SumFunction(gains)
        /\ SumFunction(gains) \in Int /\ Assets(new) \in Nat
        /\ \A p \in Pools \ D : new[p].shares = old[p].shares
    <3> DEFINE goal == targets
    <3>1. new = ResetPools(old, D, goal, held) /\ gains = Gains(old, D, goal, held)
      BY <2>1, <2>2
    <3>2. Resettable(old, D, goal, held)
      BY <2>3, <2>4, <2>5 DEF Resettable
    <3> HIDE DEF goal, D
    <3> QED
      BY ONLY <3>1, <3>2, PoolsReset
  <2> QED
    BY <1>4, <2>6
<1>9. Minus(aggregate[o] + SumFunction(gains), 0) = Assets(new)
  BY <1>4, <1>8 DEF Minus
<1>10. /\ pool' \in [Operators -> [Pools -> Pool]] /\ aggregate' \in [Operators -> Nat]
       /\ AggregateInStep'
       /\ pool'[o] = new /\ \A x \in Operators \ {o} : pool'[x] = pool[x]
  <2>1. aggregate' = [aggregate EXCEPT ![o] = Assets(new)]
    BY <1>1, <1>9
  <2>2. pool' = [pool EXCEPT ![o] = new]
    BY <1>1
  <2> QED
    BY <1>3, <1>8, <2>1, <2>2, PoolsOfOne
<1>11. /\ delegations' \in [Delegators -> PositionLists]
       /\ SharesClaimed'
  <2>1. \A x \in Operators \ {o} : /\ pool'[x] = pool[x]
                                   /\ HeldInAll(t, x) >= HeldInAll(delegations[d], x)
    <3>1. \A x : HeldInAll(s, x) \in Nat
      BY <1>3, HeldType
    <3> QED
      BY <1>7, <1>10, <3>1
  <2>2. pool'[o][All].shares = pool[o][All].shares /\ pool[o][All].shares \in Nat
    BY <1>3, <1>4, <1>8, <1>10, PoolParts DEF old
  <2>3. HeldInAll(t, o) - HeldInAll(delegations[d], o) = 0
    <3>1. HeldInAll(s, o) \in Nat
      BY <1>3, HeldType
    <3> QED
      BY <1>7, <3>1
  <2>4. /\ pool'[o][All].shares \in Int
        /\ pool'[o][All].shares - pool[o][All].shares
             <= HeldInAll(t, o) - HeldInAll(delegations[d], o)
    BY <2>2, <2>3
  <2>5. delegations' = [delegations EXCEPT ![d] = t]
    BY <1>1
  <2>6. o \in Operators /\ t \in PositionLists
    BY <1>3, <1>7
  <2> HIDE DEF o, s
  <2> QED
    BY <2>1, <2>4, <2>5, <2>6, SharesStay
<1>12. row \in [Blueprints -> Nat]
  BY <1>4, <1>5
<1> HIDE DEF row
<1>13. /\ blueprintShares' \in [Delegators -> [Operators -> [Blueprints -> Nat]]]
       /\ blueprintLists' \in [Delegators -> [Indices -> Lists]]
  <2> HIDE DEF o
  <2>1. blueprintShares' \in [Delegators -> [Operators -> [Blueprints -> Nat]]]
    BY <1>1, <1>3, <1>12 DEF IInv, Types
  <2>2. blueprintLists' \in [Delegators -> [Indices -> Lists]]
    BY <1>1, <1>3 DEF IInv, Types
  <2> QED
    BY <2>1, <2>2
<1>14. Types'
  BY <1>2, <1>10, <1>11, <1>13 DEF IInv, Types
<1>15. DepositsAccounted'
  BY <1>2, PrimedParts, DepositsTotal DEF IInv
<1>16. DelegatedWithinDeposit'
  BY <1>2 DEF IInv, DelegatedWithinDeposit
<1> QED
  BY <1>10, <1>11, <1>14, <1>15, <1>16 DEF IInv

LEMMA ListExtended ==
  ASSUME NEW list \in Lists, NEW b \in Blueprints, b \notin ToSet(list)
  PROVE  Append(list, b) \in Lists /\ Len(Append(list, b)) \in Nat \ {0}
<1> DEFINE n == Len(list)
           t == Append(list, b)
<1>1. /\ n \in Nat /\ list \in [1 .. n -> Blueprints]
      /\ \A i, j \in 1 .. n : list[i] = list[j] => i = j
      /\ list \in Seq(Blueprints)
  BY ListParts DEF Lists
<1>2. /\ t \in Seq(Blueprints) /\ Len(t) = n + 1 /\ DOMAIN t = 1 .. n + 1
      /\ \A i \in 1 .. n : t[i] = list[i]
      /\ t[n + 1] = b
  BY <1>1
<1>3. \A i \in 1 .. n : list[i] # b
  BY <1>1 DEF ToSet
<1> HIDE DEF n, t
<1>4. \A i, j \in 1 .. n + 1 : t[i] = t[j] => i = j
  <2>1. \A i \in 1 .. n + 1 : i \in 1 .. n \/ i = n + 1
    BY <1>1
  <2> QED
    BY <1>1, <1>2, <1>3, <2>1
<1>5. IsInjective(t)
  BY <1>2, <1>4 DEF IsInjective
<1> QED
  BY <1>1, <1>2, <1>5 DEF Lists, t

LEMMA ListReduced ==
  ASSUME NEW list \in Lists, NEW j \in 1 .. Len(list), Len(list) > 1
  PROVE  /\ SwapAndPop(list, j) \in Lists /\ Len(SwapAndPop(list, j)) \in Nat \ {0}
         /\ \A x \in ToSet(list) : x # list[j] => x \in ToSet(SwapAndPop(list, j))
<1> DEFINE n == Len(list)
           t == SwapAndPop(list, j)
<1>1. /\ n \in Nat /\ list \in [1 .. n -> Blueprints] /\ DOMAIN list = 1 .. n
      /\ \A k, l \in 1 .. n : list[k] = list[l] => k = l
      /\ list \in Seq(Blueprints) /\ n > 1 /\ j \in 1 .. n
  BY ListParts DEF Lists
<1>2. /\ t \in Seq(Blueprints) /\ Len(t) = n - 1 /\ DOMAIN t = 1 .. n - 1
      /\ \A k \in 1 .. n - 1 : t[k] = IF k = j THEN list[n] ELSE list[k]
  <2>1. list \in Seq(Blueprints)
    BY <1>1
  <2>2. j \in 1 .. Len(list)
    OBVIOUS
  <2> QED
    BY ONLY <2>1, <2>2, SwapAndPopType
<1> HIDE DEF n, t
<1>3. \A k, l \in 1 .. n - 1 : t[k] = t[l] => k = l
  <2> SUFFICES ASSUME NEW k \in 1 .. n - 1, NEW l \in 1 .. n - 1, t[k] = t[l] PROVE k = l
    OBVIOUS
  <2>1. /\ k \in 1 .. n /\ l \in 1 .. n /\ k # n /\ l # n /\ n \in 1 .. n
    BY <1>1
  <2>2. t[k] = (IF k = j THEN list[n] ELSE list[k]) /\ t[l] = (IF l = j THEN list[n] ELSE list[l])
    BY <1>2
  <2> QED
    BY <1>1, <2>1, <2>2
<1>4. IsInjective(t)
  BY <1>2, <1>3 DEF IsInjective
<1>5. ASSUME NEW x \in ToSet(list), x # list[j] PROVE x \in ToSet(t)
  <2>1. PICK k \in 1 .. n : list[k] = x
    BY <1>1 DEF ToSet
  <2>2. k # j
    BY <1>5, <2>1
  <2>3. CASE k = n
    <3>1. j \in 1 .. n - 1
      BY <1>1, <2>2, <2>3
    <3>2. t[j] = x
      BY <1>2, <2>1, <2>3, <3>1
    <3> QED
      BY <1>2, <3>1, <3>2 DEF ToSet
  <2>4. CASE k # n
    <3>1. k \in 1 .. n - 1
      BY <1>1, <2>4
    <3>2. t[k] = x
      BY <1>2, <2>1, <2>2, <3>1
    <3> QED
      BY <1>2, <3>1, <3>2 DEF ToSet
  <2> QED
    BY <2>3, <2>4
<1>6. Len(t) \in Nat \ {0}
  BY <1>1, <1>2
<1> QED
  BY <1>2, <1>4, <1>5, <1>6 DEF Lists, t

LEMMA RebalanceableParts ==
  ASSUME IInv, NEW d \in Delegators, NEW i \in Indices, Rebalanceable(d, i)
  PROVE  /\ i \in 1 .. Len(delegations[d]) /\ delegations[d][i].mode = "Fixed"
         /\ delegations[d][i].operator \in Operators
         /\ pendingSlashes[delegations[d][i].operator] = 0
         /\ blueprintLists[d][i] \in Lists
         /\ ListedAmount(d, i, delegations[d][i].operator) \in Nat
<1>1. /\ i \in DOMAIN delegations[d] /\ delegations[d][i].mode = "Fixed"
      /\ pendingSlashes[delegations[d][i].operator] = 0
  BY DEF Rebalanceable
<1>2. i \in 1 .. Len(delegations[d])
  BY <1>1, DelegatorParts, PositionParts
<1>3. delegations[d][i].operator \in Operators
  BY <1>2, PositionOfDelegator
<1> QED
  BY <1>1, <1>2, <1>3, DelegatorParts, ListedType

LEMMA AddBlueprintKeeps ==
  ASSUME IInv, NEW d \in Delegators, NEW i \in Indices, NEW b \in Blueprints,
         AddBlueprint(d, i, b)
  PROVE  /\ IInv'
         /\ \A o \in Operators : pendingSlashes[o] > 0 => pool'[o] = pool[o]
<1> DEFINE old == blueprintLists[d][i]
           list == Append(old, b)
           all == ListedAmount(d, i, delegations[d][i].operator)
           parts == Parts(Len(list), all)
           targets == ByBlueprint(list, parts)
<1>1. Rebalanceable(d, i) /\ b \notin ToSet(old) /\ Rebalance(d, i, targets, list)
  BY Zenon DEF AddBlueprint
<1>2. /\ i \in 1 .. Len(delegations[d]) /\ delegations[d][i].mode = "Fixed"
      /\ delegations[d][i].operator \in Operators
      /\ pendingSlashes[delegations[d][i].operator] = 0
      /\ old \in Lists /\ all \in Nat
  BY <1>1, RebalanceableParts
<1> HIDE DEF old, all
<1>3. list \in Lists /\ Len(list) \in Nat \ {0}
  BY <1>1, <1>2, ListExtended
<1> HIDE DEF list
<1>4. \A k \in 1 .. Len(list) : parts[k] \in Nat
  BY <1>2, <1>3, PartsAddUp
<1> HIDE DEF parts
<1>5. targets \in [ToSet(list) -> Nat] /\ ToSet(list) \in SUBSET Blueprints
  BY <1>3, <1>4, KeyedType, ListParts
<1> HIDE DEF targets
<1>6. /\ DOMAIN targets \in SUBSET Blueprints
      /\ \A x \in DOMAIN targets : targets[x] \in Nat
  BY <1>5
<1>7. /\ IInv'
      /\ \A x \in Operators \ {delegations[d][i].operator} : pool'[x] = pool[x]
  BY <1>1, <1>2, <1>3, <1>6, RebalanceKeeps
<1> QED
  BY <1>2, <1>7

LEMMA RemoveBlueprintKeeps ==
  ASSUME IInv, NEW d \in Delegators, NEW i \in Indices, NEW b \in Blueprints,
         RemoveBlueprint(d, i, b)
  PROVE  /\ IInv'
         /\ \A o \in Operators : pendingSlashes[o] > 0 => pool'[o] = pool[o]
<1> DEFINE old == blueprintLists[d][i]
           list == SwapAndPop(old, PlaceIn(old, b))
           all == ListedAmount(d, i, delegations[d][i].operator)
           parts == Parts(Len(list), all)
           kept == ByBlueprint(list, parts)
           targets == [x \in ToSet(old) |-> IF x = b THEN 0 ELSE kept[x]]
<1>1. /\ Rebalanceable(d, i) /\ Len(old) > 1 /\ b \in ToSet(old)
      /\ Rebalance(d, i, targets, list)
  BY Zenon DEF RemoveBlueprint, PlaceIn
<1>2. /\ i \in 1 .. Len(delegations[d]) /\ delegations[d][i].mode = "Fixed"
      /\ delegations[d][i].operator \in Operators
      /\ pendingSlashes[delegations[d][i].operator] = 0
      /\ old \in Lists /\ all \in Nat
  BY <1>1, RebalanceableParts
<1> HIDE DEF old, all
<1>3. /\ list \in Lists /\ Len(list) \in Nat \ {0}
      /\ \A x \in ToSet(old) : x # b => x \in ToSet(list)
  <2>1. PlaceIn(old, b) \in 1 .. Len(old) /\ old[PlaceIn(old, b)] = b
    <3>1. old \in Seq(Blueprints)
      BY <1>2 DEF Lists
    <3> QED
      BY <1>1, <3>1, PlaceFound
  <2> QED
    BY <1>1, <1>2, <2>1, ListReduced
<1> HIDE DEF list
<1>4. \A k \in 1 .. Len(list) : parts[k] \in Nat
  BY <1>2, <1>3, PartsAddUp
<1> HIDE DEF parts
<1>5. kept \in [ToSet(list) -> Nat]
  BY <1>3, <1>4, KeyedType
<1> HIDE DEF kept
<1>6. /\ DOMAIN targets \in SUBSET Blueprints
      /\ \A x \in DOMAIN targets : targets[x] \in Nat
  BY <1>2, <1>3, <1>5, ListParts
<1> HIDE DEF targets
<1>7. /\ IInv'
      /\ \A x \in Operators \ {delegations[d][i].operator} : pool'[x] = pool[x]
  BY <1>1, <1>2, <1>3, <1>6, RebalanceKeeps
<1> QED
  BY <1>2, <1>7

-----------------------------------------------------------------------------
(* Every step.                                                             *)

Frozen ==
  \A o \in Operators, p \in Pools :
    pendingSlashes[o] > 0 => pool'[o][p].shares >= pool[o][p].shares

LEMMA FrozenWhenKept ==
  ASSUME IInv, \A o \in Operators : pendingSlashes[o] > 0 => pool'[o] = pool[o]
  PROVE  Frozen
<1>1. ASSUME NEW o \in Operators, NEW p \in Pools, pendingSlashes[o] > 0
      PROVE  pool'[o][p].shares >= pool[o][p].shares
  <2>1. pool[o][p].shares \in Nat /\ pool'[o] = pool[o]
    BY <1>1, PoolParts
  <2> QED
    BY <2>1
<1> QED
  BY <1>1 DEF Frozen

LEMMA DelegatorStepKeeps ==
  ASSUME IInv, NEW d \in Delegators, DelegatorStep(d)
  PROVE  IInv' /\ Frozen
<1>1. CASE \E a \in Deposits : Deposit(d, a)
  <2>1. PICK a \in Deposits : Deposit(d, a)
    BY <1>1
  <2>2. pool' = pool
    BY <2>1 DEF Deposit, operatorVars
  <2> QED
    BY <2>1, <2>2, DepositKeeps, FrozenWhenKept
<1>2. CASE \E a \in Deposits : ScheduleWithdraw(d, a)
  <2>1. PICK a \in Deposits : ScheduleWithdraw(d, a)
    BY <1>2
  <2>2. pool' = pool
    BY <2>1 DEF ScheduleWithdraw, operatorVars
  <2> QED
    BY <2>1, <2>2, ScheduleWithdrawKeeps, FrozenWhenKept
<1>3. CASE ExecuteWithdraw(d)
  <2>1. pool' = pool
    BY <1>3, Zenon DEF ExecuteWithdraw, operatorVars
  <2> QED
    BY <1>3, <2>1, ExecuteWithdrawKeeps, FrozenWhenKept
<1>4. CASE \E o \in Operators, a \in Delegations : Delegate(d, o, "All", <<>>, a)
  <2>1. PICK o \in Operators, a \in Delegations : Delegate(d, o, "All", <<>>, a)
    BY <1>4
  <2>2. Selection("All", <<>>)
    BY DEF Selection
  <2> QED
    BY <2>1, <2>2, DelegateKeeps DEF Frozen
<1>5. CASE \E o \in Operators, a \in Delegations, list \in Selections :
             Delegate(d, o, "Fixed", list, a)
  <2>1. PICK o \in Operators, a \in Delegations, list \in Selections :
               Delegate(d, o, "Fixed", list, a)
    BY <1>5
  <2>2. Selection("Fixed", list)
    BY <2>1 DEF Selection
  <2> QED
    BY <2>1, <2>2, DelegateKeeps DEF Frozen
<1>6. CASE \E o \in Operators, a \in Unstakes : ScheduleUnstake(d, o, a)
  <2>1. PICK o \in Operators, a \in Unstakes : ScheduleUnstake(d, o, a)
    BY <1>6
  <2>2. IInv' /\ pool' = pool
    BY <2>1, ScheduleUnstakeKeeps
  <2> QED
    BY <2>2, FrozenWhenKept
<1>7. CASE ExecuteUnstake(d)
  BY <1>7, ExecuteUnstakeKeeps, FrozenWhenKept
<1>8. CASE \E k \in DOMAIN requests[d] : ExecuteUnstakeAndWithdraw(d, k)
  <2>1. PICK k \in DOMAIN requests[d] : ExecuteUnstakeAndWithdraw(d, k)
    BY <1>8
  <2> QED
    BY <2>1, ExecuteUnstakeAndWithdrawKeeps, FrozenWhenKept
<1>9. CASE \E i \in Indices, b \in Blueprints : AddBlueprint(d, i, b)
  <2>1. PICK i \in Indices, b \in Blueprints : AddBlueprint(d, i, b)
    BY <1>9
  <2> QED
    BY <2>1, AddBlueprintKeeps, FrozenWhenKept
<1>10. CASE \E i \in Indices, b \in Blueprints : RemoveBlueprint(d, i, b)
  <2>1. PICK i \in Indices, b \in Blueprints : RemoveBlueprint(d, i, b)
    BY <1>10
  <2> QED
    BY <2>1, RemoveBlueprintKeeps, FrozenWhenKept
<1> QED
  BY <1>1, <1>2, <1>3, <1>4, <1>5, <1>6, <1>7, <1>8, <1>9, <1>10, Zenon DEF DelegatorStep

LEMMA OperatorStepKeeps ==
  ASSUME IInv, NEW o \in Operators, OperatorStep(o)
  PROVE  IInv' /\ Frozen
<1>0. /\ delegationCount \in [Operators -> Nat] /\ registered \in SUBSET Operators
      /\ pendingSlashes \in [Operators -> Nat] /\ currentRound \in Nat /\ slashes \in Nat
  BY DEF IInv, Types
<1>1. CASE IncrementPendingSlash(o)
  <2>1. /\ UNCHANGED <<delegatorVars, pool, aggregate, deposited, hit, lost>>
        /\ delegationCount' \in [Operators -> Nat] /\ registered' \in SUBSET Operators
        /\ pendingSlashes' \in [Operators -> Nat] /\ currentRound' \in Nat /\ slashes' \in Nat
    BY <1>0, <1>1 DEF IncrementPendingSlash
  <2> QED
    BY <2>1, OthersChange, FrozenWhenKept
<1>2. CASE DecrementPendingSlash(o)
  <2>1. /\ UNCHANGED <<delegatorVars, pool, aggregate, deposited, hit, lost>>
        /\ delegationCount' \in [Operators -> Nat] /\ registered' \in SUBSET Operators
        /\ pendingSlashes' \in [Operators -> Nat] /\ currentRound' \in Nat /\ slashes' \in Nat
    BY <1>0, <1>2 DEF DecrementPendingSlash, historyVars
  <2> QED
    BY <2>1, OthersChange, FrozenWhenKept
<1>3. CASE \E bs \in SUBSET Blueprints, bps \in SlashBps : SlashPools(o, bs, bps)
  <2>1. PICK bs \in SUBSET Blueprints, bps \in SlashBps : SlashPools(o, bs, bps)
    BY <1>3
  <2>2. IInv' /\ \A x \in Operators, p \in Pools : pool'[x][p].shares = pool[x][p].shares
    BY <2>1, SlashPoolsKeeps
  <2>3. \A x \in Operators, p \in Pools : pool[x][p].shares \in Nat
    BY PoolParts
  <2> QED
    BY <2>2, <2>3 DEF Frozen
<1>4. CASE CompleteLeaving(o)
  <2>1. /\ UNCHANGED <<delegatorVars, pool, aggregate, deposited, hit, lost>>
        /\ delegationCount' \in [Operators -> Nat] /\ registered' \in SUBSET Operators
        /\ pendingSlashes' \in [Operators -> Nat] /\ currentRound' \in Nat /\ slashes' \in Nat
    BY <1>0, <1>4 DEF CompleteLeaving, historyVars
  <2> QED
    BY <2>1, OthersChange, FrozenWhenKept
<1>5. CASE RegisterOperator(o)
  <2>1. /\ UNCHANGED <<delegatorVars, pool, aggregate, deposited, hit, lost>>
        /\ delegationCount' \in [Operators -> Nat] /\ registered' \in SUBSET Operators
        /\ pendingSlashes' \in [Operators -> Nat] /\ currentRound' \in Nat /\ slashes' \in Nat
    BY <1>0, <1>5 DEF RegisterOperator, historyVars
  <2> QED
    BY <2>1, OthersChange, FrozenWhenKept
<1> QED
  BY <1>1, <1>2, <1>3, <1>4, <1>5 DEF OperatorStep

LEMMA StepKeeps == IInv /\ [Next]_poolVars => IInv' /\ (Next => Frozen)
<1> SUFFICES ASSUME IInv, [Next]_poolVars PROVE IInv' /\ (Next => Frozen)
  OBVIOUS
<1>1. CASE \E d \in Delegators : DelegatorStep(d)
  BY <1>1, DelegatorStepKeeps
<1>2. CASE \E o \in Operators : OperatorStep(o)
  BY <1>2, OperatorStepKeeps
<1>3. CASE AdvanceRound
  <2>1. /\ UNCHANGED <<delegatorVars, pool, aggregate, deposited, hit, lost>>
        /\ delegationCount' \in [Operators -> Nat] /\ registered' \in SUBSET Operators
        /\ pendingSlashes' \in [Operators -> Nat] /\ currentRound' \in Nat /\ slashes' \in Nat
    BY <1>3 DEF AdvanceRound, operatorVars, historyVars, IInv, Types
  <2> QED
    BY <2>1, OthersChange, FrozenWhenKept
<1>4. CASE UNCHANGED poolVars
  <2>1. /\ UNCHANGED <<delegatorVars, pool, aggregate, deposited, hit, lost>>
        /\ delegationCount' \in [Operators -> Nat] /\ registered' \in SUBSET Operators
        /\ pendingSlashes' \in [Operators -> Nat] /\ currentRound' \in Nat /\ slashes' \in Nat
    BY <1>4 DEF poolVars, operatorVars, historyVars, IInv, Types
  <2> QED
    BY <2>1, OthersChange, FrozenWhenKept
<1> QED
  BY <1>1, <1>2, <1>3, <1>4 DEF Next

LEMMA InvariantHolds == Spec => []IInv
<1>1. IInv /\ [Next]_poolVars => IInv'
  BY StepKeeps
<1> QED
  BY <1>1, InitInvariant, PTL DEF Spec

-----------------------------------------------------------------------------
(* The theorems.                                                           *)

\* Every variable stays in its range: no subtraction the code checks underflows, so
\* no deposit is locked by a revert, and a delegator never has more positions than
\* there are operators (DelegationManagerLib.sol:519-620, RewardsManager.sol).
THEOREM TypeCorrect == Spec => []TypeOK
<1>1. IInv => TypeOK
  <2> SUFFICES ASSUME IInv PROVE TypeOK
    OBVIOUS
  <2>1. currentDeposits \in Nat
    BY TotalDeposited
  <2>2. ASSUME NEW d \in Delegators
        PROVE  /\ Len(delegations[d]) <= Cardinality(Operators)
               /\ \A i \in DOMAIN delegations[d] : delegations[d][i] \in Position
               /\ \A i \in DOMAIN withdrawals[d] : withdrawals[d][i] \in Withdrawal
               /\ \A i \in DOMAIN requests[d] : requests[d][i] \in Request
               /\ \A i \in Indices : \A b \in ToSet(blueprintLists[d][i]) : b \in Blueprints
    <3>1. /\ delegations[d] \in PositionLists /\ requests[d] \in Seq(Request)
          /\ withdrawals[d] \in Seq(Withdrawal)
          /\ \A i \in Indices : blueprintLists[d][i] \in Lists
      BY DelegatorParts, AccountParts
    <3>2. \A i \in Indices : \A b \in ToSet(blueprintLists[d][i]) : b \in Blueprints
      BY <3>1, ListParts
    <3> QED
      BY <3>1, <3>2, PositionParts, PositionsBounded
  <2>3. deposits \in [Delegators -> Account]
    BY DEF IInv, Types
  <2> QED
    BY <2>1, <2>2, <2>3 DEF IInv, Types, TypeOK, Account, Position, Withdrawal, Request
<1> QED
  BY <1>1, InvariantHolds, PTL

\* The total the deposit cap is checked against is what delegators have deposited
\* and wait to withdraw, after every write-off, single-step redemption and withdrawal
\* (DelegationManagerLib.sol:1081, DepositManager.sol:198).
THEOREM DepositsAccountedCorrect == Spec => []DepositsAccounted
BY InvariantHolds, PTL DEF IInv

\* What is delegated is part of the deposit, through write-offs, cost bases of parts
\* of a position and redemptions (DelegationManagerLib.sol:1081-1120).
THEOREM DelegatedWithinDepositCorrect == Spec => []DelegatedWithinDeposit
BY InvariantHolds, PTL DEF IInv

\* The aggregate of an operator is the assets of all its pools, whatever was
\* delegated, unstaked in whatever order, slashed or rebalanced (DelegationStorage.sol).
THEOREM AggregateInStepCorrect == Spec => []AggregateInStep
BY InvariantHolds, PTL DEF IInv

\* Every share of an operator's pool of All-mode delegations is held by one of its
\* delegators, through top-ups, removed positions and requests for more shares than
\* are left (DelegationManagerLib.sol:574).
THEOREM SharesClaimedCorrect == Spec => []SharesClaimed
BY InvariantHolds, PTL DEF IInv

\* Nobody takes shares out of a pool of an operator with a pending slash: no unstake
\* scheduled before, no single-step redemption and no rebalance between blueprints.
THEOREM FrozenUnderSlashCorrect == Spec => FrozenUnderSlash
<1>1. IInv /\ [Next]_poolVars => [Frozen]_poolVars
  BY StepKeeps
<1> QED
  BY <1>1, InvariantHolds, PTL DEF Spec, FrozenUnderSlash, Frozen

=============================================================================

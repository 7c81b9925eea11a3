------------------------- MODULE JsonIteratorProofs --------------------------
(***************************************************************************)
(* Proof that the iterators of nlohmann::basic_json stay at their elements *)
(* (JsonIterator): IteratorSpec => []IteratorsSound, for any number of     *)
(* values, iterators, keys and elements.                                   *)
(*                                                                         *)
(* The argument: a value has places, one before each element and one at    *)
(* the end; operator++ and operator-- lead from each to the next; so do    *)
(* After and Before of the reference.  The inductive invariant says that   *)
(* every valid iterator is at a place of the value in whose storage it is, *)
(* with that place's element.  Each operation then either invalidates the  *)
(* iterators whose place it moves, or leaves their place alone.            *)
(***************************************************************************)
EXTENDS JsonIterator, SequenceTheorems, FiniteSetTheorems, WellFoundedInduction, TLAPS

(***************************************************************************)
(* Keys and their order                                                    *)
(***************************************************************************)

\* The keys of objects.
Keys == 1 .. MaxKey

\* The keys before one, and how many there are.
Below(K, k) == {j \in K : j < k}
Rank(K, k) == Cardinality(Below(K, k))

\* Some keys are finitely many numbers from 1 to MaxKey.
LEMMA KeysFinite ==
    ASSUME NEW K, K \subseteq Keys
    PROVE  /\ IsFiniteSet(K) /\ Cardinality(K) \in Nat
           /\ \A k \in K : k \in Nat /\ 1 <= k /\ k <= MaxKey
<1>1. MaxKey \in Nat /\ 1 \in Int /\ MaxKey \in Int
  BY IteratorAssumption
<1>2. IsFiniteSet(Keys)
  BY <1>1, FS_Interval DEF Keys
<1>3. IsFiniteSet(K)
  BY <1>2, FS_Subset
<1>4. Cardinality(K) \in Nat
  BY <1>3, FS_CardinalityType
<1>. QED
  BY <1>1, <1>3, <1>4 DEF Keys

\* More keys come before a greater key.
LEMMA RankSteps ==
    ASSUME NEW K, K \subseteq Keys, NEW k \in K, NEW l \in K, k < l
    PROVE  Rank(K, k) < Rank(K, l)
<1>1. Below(K, k) \subseteq Keys /\ Below(K, l) \subseteq Keys
  BY DEF Below
<1>2. /\ IsFiniteSet(Below(K, k)) /\ IsFiniteSet(Below(K, l))
      /\ Rank(K, k) \in Nat /\ Rank(K, l) \in Nat
  BY <1>1, KeysFinite DEF Rank
<1>3. \A j \in K : j \in Nat
  BY KeysFinite
<1>4. Below(K, k) \cup {k} \subseteq Below(K, l) /\ k \notin Below(K, k)
  BY <1>3 DEF Below
<1>5. Cardinality(Below(K, k) \cup {k}) = Rank(K, k) + 1
  BY <1>2, <1>4, FS_AddElement DEF Rank
<1>6. Cardinality(Below(K, k) \cup {k}) <= Rank(K, l)
  BY <1>2, <1>4, FS_Subset DEF Rank
<1>. QED
  BY <1>2, <1>5, <1>6

\* Fewer keys come before a key than there are keys.
LEMMA RankBounded ==
    ASSUME NEW K, K \subseteq Keys, NEW k \in K
    PROVE  Rank(K, k) \in Nat /\ Rank(K, k) < Cardinality(K)
<1>1. Below(K, k) \subseteq Keys
  BY DEF Below
<1>2. IsFiniteSet(Below(K, k)) /\ Rank(K, k) \in Nat
  BY <1>1, KeysFinite DEF Rank
<1>3. k \in Nat
  BY KeysFinite
<1>4. Below(K, k) \cup {k} \subseteq K /\ k \notin Below(K, k)
  BY <1>3 DEF Below
<1>5. Cardinality(Below(K, k) \cup {k}) = Rank(K, k) + 1
  BY <1>2, <1>4, FS_AddElement DEF Rank
<1>6. IsFiniteSet(K) /\ Cardinality(K) \in Nat
  BY KeysFinite
<1>7. Cardinality(Below(K, k) \cup {k}) <= Cardinality(K)
  BY <1>4, <1>6, FS_Subset
<1>. QED
  BY <1>2, <1>5, <1>6, <1>7

\* Every rank below the number of keys is some key's (pigeonhole).
LEMMA RankOnto ==
    ASSUME NEW K, K \subseteq Keys, NEW i \in 1 .. Cardinality(K)
    PROVE  \E k \in K : Rank(K, k) = i - 1
<1>. SUFFICES ASSUME \A k \in K : Rank(K, k) # i - 1 PROVE FALSE
  OBVIOUS
<1>. DEFINE n == Cardinality(K)
            U == 0 .. n - 1
            T == U \ {i - 1}
            f == [k \in K |-> Rank(K, k)]
<1>1. IsFiniteSet(K) /\ n \in Nat
  BY KeysFinite
<1>2. i \in Nat /\ 1 <= i /\ i <= n
  BY <1>1
<1>3. f \in [K -> T]
  <2>1. \A k \in K : Rank(K, k) \in T
    BY <1>1, RankBounded
  <2>. QED
    BY <2>1
<1>4. IsFiniteSet(T) /\ Cardinality(T) = n - 1
  <2>1. 0 \in Int /\ n - 1 \in Int /\ ~(0 > n - 1)
    BY <1>1, <1>2
  <2>2. IsFiniteSet(U) /\ Cardinality(U) = n
    <3>. HIDE DEF n
    <3>. QED
      BY <1>1, <2>1, FS_Interval
  <2>3. i - 1 \in U
    BY <1>1, <1>2
  <2>. HIDE DEF n, U
  <2>. QED
    BY <2>2, <2>3, FS_RemoveElement
<1>5. Cardinality(T) < Cardinality(K)
  BY <1>1, <1>4
<1>6. PICK x \in K, y \in K : x # y /\ f[x] = f[y]
  <2>. HIDE DEF T, f, n
  <2>. QED
    BY <1>1, <1>3, <1>4, <1>5, FS_PigeonHole
<1>7. Rank(K, x) = Rank(K, y) /\ x \in Nat /\ y \in Nat
  BY <1>6, KeysFinite
<1>8. x < y \/ y < x
  BY <1>6, <1>7
<1>9. Rank(K, x) < Rank(K, y) \/ Rank(K, y) < Rank(K, x)
  BY <1>8, RankSteps
<1>10. Rank(K, x) \in Nat
  BY RankBounded
<1>. QED
  BY <1>7, <1>9, <1>10

\* KeyAt names a key, of the rank it asks for.
LEMMA KeyAtRight ==
    ASSUME NEW K, K \subseteq Keys, NEW i \in 1 .. Cardinality(K)
    PROVE  KeyAt(K, i) \in K /\ Rank(K, KeyAt(K, i)) = i - 1
<1>1. \E k \in K : Rank(K, k) = i - 1
  BY RankOnto
<1>2. KeyAt(K, i) = CHOOSE k \in K : Rank(K, k) = i - 1
  BY DEF KeyAt, Rank, Below
<1>. QED
  BY <1>1, <1>2

\* KeyAt is the inverse of Rank.
LEMMA KeyOfRank ==
    ASSUME NEW K, K \subseteq Keys, NEW k \in K
    PROVE  /\ Rank(K, k) + 1 \in 1 .. Cardinality(K)
           /\ KeyAt(K, Rank(K, k) + 1) = k
<1>1. Cardinality(K) \in Nat /\ Rank(K, k) \in Nat /\ Rank(K, k) < Cardinality(K)
  BY KeysFinite, RankBounded
<1>2. PICK i \in 1 .. Cardinality(K) : i = Rank(K, k) + 1
  BY <1>1
<1>3. KeyAt(K, i) \in K /\ Rank(K, KeyAt(K, i)) = i - 1
  BY KeyAtRight
<1>4. KeyAt(K, i) \in Nat /\ k \in Nat
  BY <1>3, KeysFinite
<1>5. ~(KeyAt(K, i) < k) /\ ~(k < KeyAt(K, i))
  BY <1>1, <1>2, <1>3, RankSteps
<1>. QED
  BY <1>2, <1>4, <1>5

\* KeyAt lists the keys in their order.
LEMMA KeyAtOrder ==
    ASSUME NEW K, K \subseteq Keys,
           NEW i \in 1 .. Cardinality(K), NEW j \in 1 .. Cardinality(K)
    PROVE  KeyAt(K, i) < KeyAt(K, j) <=> i < j
<1>1. /\ KeyAt(K, i) \in K /\ Rank(K, KeyAt(K, i)) = i - 1
      /\ KeyAt(K, j) \in K /\ Rank(K, KeyAt(K, j)) = j - 1
  BY KeyAtRight
<1>2. /\ KeyAt(K, i) \in Nat /\ KeyAt(K, j) \in Nat /\ Cardinality(K) \in Nat
  BY <1>1, KeysFinite
<1>3. KeyAt(K, i) < KeyAt(K, j) => i - 1 < j - 1
  BY <1>1, RankSteps
<1>4. KeyAt(K, j) < KeyAt(K, i) => j - 1 < i - 1
  BY <1>1, RankSteps
<1>5. KeyAt(K, i) = KeyAt(K, j) => i - 1 = j - 1
  BY <1>1
<1>. QED
  BY <1>2, <1>3, <1>4, <1>5

\* LeastKey is the least key, when there is one.
LEMMA LeastKeyIs ==
    ASSUME NEW S, S \subseteq Keys, NEW l \in S, \A o \in S : l <= o
    PROVE  LeastKey(S) = l
<1>1. MaxKey \in Nat /\ \A k \in S : k \in Nat /\ k <= MaxKey
  BY IteratorAssumption, KeysFinite
<1>2. /\ LeastKey(S) \in S \cup {EndKey}
      /\ \A o \in S : LeastKey(S) <= o
  BY DEF LeastKey
<1>. QED
  BY <1>1, <1>2 DEF EndKey

\* LeastKey of no key is the end of the map.
LEMMA LeastKeyNone == LeastKey({}) = EndKey
BY DEF LeastKey

\* GreatestKey is the greatest key, when there is one.
LEMMA GreatestKeyIs ==
    ASSUME NEW S, S \subseteq Keys, NEW g \in S, \A o \in S : o <= g
    PROVE  GreatestKey(S) = g
<1>1. \A k \in S : k \in Nat
  BY KeysFinite
<1>2. /\ GreatestKey(S) \in S
      /\ \A o \in S : o <= GreatestKey(S)
  BY DEF GreatestKey
<1>. QED
  BY <1>1, <1>2

(***************************************************************************)
(* The four kinds of value                                                 *)
(***************************************************************************)

\* The four kinds of value, with elements out of E.
IsNull(v) == v = <<"null">>
IsPrimitive(v, E) == v = <<"primitive", v[2]>> /\ v[2] \in E
IsArray(v, E) == v = <<"array", v[2]>> /\ v[2] \in Seq(E) /\ IsInjective(v[2])
IsObject(v, E) == /\ v = <<"object", v[2]>> /\ DOMAIN v[2] \subseteq Keys
                  /\ (\A k \in DOMAIN v[2] : v[2][k] \in E) /\ IsInjective(v[2])

\* A value that holds elements is of one of the four kinds.
LEMMA FourKinds ==
    ASSUME NEW v, NEW E
    PROVE  HoldsElements(v, E) <=>
               IsNull(v) \/ IsPrimitive(v, E) \/ IsArray(v, E) \/ IsObject(v, E)
BY DEF HoldsElements, IsNull, IsPrimitive, IsArray, IsObject, Keys

\* What the operators return for null.
LEMMA NullIs ==
    ASSUME NEW v, IsNull(v)
    PROVE  /\ v[1] = "null" /\ KindOf(v) = "primitive"
           /\ ElementsOf(v) = <<>> /\ BeginOf(v) = 1 /\ EndOf(v) = 1
BY DEF IsNull, KindOf, ElementsOf, BeginOf, EndOf

\* What the operators return for a primitive value.
LEMMA PrimitiveIs ==
    ASSUME NEW v, NEW E, IsPrimitive(v, E)
    PROVE  /\ v[1] = "primitive" /\ KindOf(v) = "primitive" /\ v[2] \in E
           /\ ElementsOf(v) = <<v[2]>> /\ BeginOf(v) = 0 /\ EndOf(v) = 1
<1>1. v[1] = "primitive"
  BY DEF IsPrimitive
<1>. QED
  BY <1>1 DEF IsPrimitive, KindOf, ElementsOf, BeginOf, EndOf

\* What the operators return for an array.
LEMMA ArrayIs ==
    ASSUME NEW v, NEW E, IsArray(v, E)
    PROVE  /\ v[1] = "array" /\ KindOf(v) = "array" /\ v[2] \in Seq(E)
           /\ Len(v[2]) \in Nat /\ IsInjective(v[2])
           /\ ElementsOf(v) = v[2] /\ BeginOf(v) = 0 /\ EndOf(v) = Len(v[2])
<1>1. v[1] = "array" /\ v[2] \in Seq(E) /\ Len(v[2]) \in Nat
  BY DEF IsArray
<1>. QED
  BY <1>1 DEF IsArray, KindOf, ElementsOf, BeginOf, EndOf

\* The elements of an object, in the order of its keys.
KeyCount(v) == Cardinality(DOMAIN v[2])

InKeyOrder(v) == [i \in 1 .. KeyCount(v) |-> v[2][KeyAt(DOMAIN v[2], i)]]

\* What the operators return for an object.
LEMMA ObjectIs ==
    ASSUME NEW v, NEW E, IsObject(v, E)
    PROVE  /\ v[1] = "object" /\ KindOf(v) = "object" /\ DOMAIN v[2] \subseteq Keys
           /\ KeyCount(v) \in Nat /\ IsInjective(v[2])
           /\ \A k \in DOMAIN v[2] : v[2][k] \in E
           /\ ElementsOf(v) = InKeyOrder(v)
           /\ BeginOf(v) = LeastKey(DOMAIN v[2]) /\ EndOf(v) = EndKey
<1>1. v[1] = "object" /\ DOMAIN v[2] \subseteq Keys
  BY DEF IsObject
<1>2. KeyCount(v) \in Nat
  BY <1>1, KeysFinite DEF KeyCount
<1>. QED
  BY <1>1, <1>2 DEF IsObject, KindOf, ElementsOf, BeginOf, EndOf, InKeyOrder, KeyCount

\* The elements of an object in the order of its keys are distinct.
LEMMA ObjectElements ==
    ASSUME NEW v, NEW E, IsObject(v, E)
    PROVE  /\ InKeyOrder(v) \in Seq(E) /\ Len(InKeyOrder(v)) = KeyCount(v)
           /\ IsInjective(InKeyOrder(v))
<1>. DEFINE K == DOMAIN v[2]
            n == KeyCount(v)
<1>1. K \subseteq Keys /\ n \in Nat /\ IsInjective(v[2]) /\ \A k \in K : v[2][k] \in E
  BY ObjectIs
<1>2. \A i \in 1 .. n : KeyAt(K, i) \in K
  BY <1>1, KeyAtRight DEF KeyCount
<1>3. InKeyOrder(v) \in [1 .. n -> E]
  BY <1>1, <1>2 DEF InKeyOrder
<1>4. InKeyOrder(v) \in Seq(E) /\ Len(InKeyOrder(v)) = n
  <2>. HIDE DEF n
  <2>. QED
    BY <1>1, <1>3, IsASeq
<1>5. ASSUME NEW i \in 1 .. n, NEW j \in 1 .. n, InKeyOrder(v)[i] = InKeyOrder(v)[j]
      PROVE  i = j
  <2>1. v[2][KeyAt(K, i)] = v[2][KeyAt(K, j)]
    BY <1>5 DEF InKeyOrder
  <2>2. KeyAt(K, i) = KeyAt(K, j)
    BY <1>1, <1>2, <2>1 DEF IsInjective
  <2>3. Rank(K, KeyAt(K, i)) = i - 1 /\ Rank(K, KeyAt(K, j)) = j - 1
    BY <1>1, KeyAtRight DEF KeyCount
  <2>. QED
    BY <1>1, <2>2, <2>3
<1>6. DOMAIN InKeyOrder(v) = 1 .. n
  BY DEF InKeyOrder
<1>. QED
  BY <1>4, <1>5, <1>6 DEF IsInjective

\* The elements of a value, in the order of iteration, are distinct.
LEMMA ElementsDistinct ==
    ASSUME NEW v, NEW E, HoldsElements(v, E)
    PROVE  ElementsOf(v) \in Seq(E) /\ IsInjective(ElementsOf(v))
<1>1. CASE IsNull(v)
  <2>1. ElementsOf(v) = <<>>
    BY <1>1, NullIs
  <2>2. <<>> \in Seq(E) /\ DOMAIN <<>> = {}
    OBVIOUS
  <2>. QED
    BY <2>1, <2>2 DEF IsInjective
<1>2. CASE IsPrimitive(v, E)
  <2>1. ElementsOf(v) = <<v[2]>> /\ v[2] \in E
    BY <1>2, PrimitiveIs
  <2>2. <<v[2]>> \in Seq(E) /\ DOMAIN <<v[2]>> = {1}
    BY <2>1
  <2>. QED
    BY <2>1, <2>2 DEF IsInjective
<1>3. CASE IsArray(v, E)
  BY <1>3, ArrayIs
<1>4. CASE IsObject(v, E)
  BY <1>4, ObjectIs, ObjectElements
<1>. QED
  BY <1>1, <1>2, <1>3, <1>4, FourKinds

(***************************************************************************)
(* Places, and how the iterators move between them                         *)
(***************************************************************************)

\* The number of elements, and the position of the i-th iterator from begin()
\* on: that of the i-th element, or of the end.
CountOf(v) == Len(ElementsOf(v))

Place(v, i) == IF i = CountOf(v) + 1 THEN EndOf(v)
               ELSE IF v[1] = "object" THEN KeyAt(DOMAIN v[2], i)
               ELSE i - 1

\* operator++ and operator-- step between the places i and i + 1, and operator*
\* of the first gives the i-th element.
Leads(v, i) ==
    /\ Place(v, i) # EndOf(v)
    /\ Place(v, i + 1) # BeginOf(v)
    /\ Deref(v, Place(v, i)) = ElementsOf(v)[i]
    /\ Incremented(v, Place(v, i)) = Place(v, i + 1)
    /\ Decremented(v, Place(v, i + 1)) = Place(v, i)

\* Every key has a place in the order.
LEMMA AllKeysRanked ==
    ASSUME NEW K, K \subseteq Keys, NEW k \in K
    PROVE  \E r \in 1 .. Cardinality(K) : k = KeyAt(K, r)
BY KeyOfRank

\* In an object, operator++ and operator-- lead from place to place.
LEMMA ObjectPlaces ==
    ASSUME NEW v, NEW E, IsObject(v, E)
    PROVE  /\ CountOf(v) \in Nat /\ BeginOf(v) = Place(v, 1)
           /\ \A i \in 1 .. CountOf(v) : Leads(v, i)
<1>. DEFINE K == DOMAIN v[2]
            n == Cardinality(K)
<1>1. /\ v[1] = "object" /\ K \subseteq Keys /\ n \in Nat
      /\ ElementsOf(v) = InKeyOrder(v) /\ CountOf(v) = n
      /\ BeginOf(v) = LeastKey(K) /\ EndOf(v) = EndKey
  BY ObjectIs, ObjectElements DEF CountOf, KeyCount
<1>2. MaxKey \in Nat /\ EndKey \in Nat /\ EndKey = MaxKey + 1
  BY IteratorAssumption DEF EndKey
<1>3. \A k \in K : k \in Nat /\ 1 <= k /\ k < EndKey
  BY <1>1, <1>2, KeysFinite
<1>4. \A i \in 1 .. n : KeyAt(K, i) \in K
  BY <1>1, KeyAtRight
<1>5. \A i, j \in 1 .. n : KeyAt(K, i) < KeyAt(K, j) <=> i < j
  BY <1>1, KeyAtOrder
<1>6. \A k \in K : \E r \in 1 .. n : k = KeyAt(K, r)
  BY <1>1, AllKeysRanked
<1>7. /\ Place(v, n + 1) = EndKey
      /\ \A i \in 1 .. n : Place(v, i) = KeyAt(K, i)
  BY <1>1 DEF Place
<1>. HIDE DEF n
<1>8. ASSUME NEW i \in 1 .. n
      PROVE  Incremented(v, Place(v, i)) = Place(v, i + 1)
  <2>. DEFINE S == {k \in K : k > KeyAt(K, i)}
  <2>1. Incremented(v, Place(v, i)) = LeastKey(S)
    BY <1>1, <1>7 DEF Incremented
  <2>2. CASE i = n
    <3>1. S = {}
      BY <1>1, <1>3, <1>4, <1>5, <1>6, <2>2
    <3>. QED
      BY <1>7, <2>1, <2>2, <3>1, LeastKeyNone
  <2>3. CASE i < n
    <3>1. i + 1 \in 1 .. n
      BY <1>1, <2>3
    <3>2. PICK j \in 1 .. n : j = i + 1
      BY <3>1
    <3>3. KeyAt(K, j) \in S
      BY <1>1, <1>3, <1>4, <1>5, <3>2
    <3>4. ASSUME NEW o \in S PROVE KeyAt(K, j) <= o
      <4>1. PICK r \in 1 .. n : o = KeyAt(K, r)
        BY <1>6
      <4>2. i < r
        BY <1>3, <1>4, <1>5, <4>1
      <4>3. ~(r < j)
        BY <1>1, <3>2, <4>2
      <4>4. ~(KeyAt(K, r) < KeyAt(K, j))
        BY <1>5, <4>3
      <4>. QED
        BY <1>3, <1>4, <4>1, <4>4
    <3>5. S \subseteq Keys
      BY <1>1
    <3>6. LeastKey(S) = KeyAt(K, j)
      <4>. HIDE DEF S
      <4>. QED
        BY <3>3, <3>4, <3>5, LeastKeyIs
    <3>. QED
      BY <1>7, <2>1, <3>1, <3>2, <3>6
  <2>. QED
    BY <1>1, <2>2, <2>3
<1>9. ASSUME NEW i \in 1 .. n
      PROVE  Decremented(v, Place(v, i + 1)) = Place(v, i)
  <2>. DEFINE S == {k \in K : k < Place(v, i + 1)}
  <2>1. Decremented(v, Place(v, i + 1)) = GreatestKey(S)
    BY <1>1 DEF Decremented
  <2>2. i \in Nat /\ (i = n \/ i + 1 \in 1 .. n)
    BY <1>1
  <2>3. KeyAt(K, i) \in S
    <3>1. CASE i = n
      BY <1>3, <1>4, <1>7, <3>1
    <3>2. CASE i + 1 \in 1 .. n
      <4>1. PICK j \in 1 .. n : j = i + 1
        BY <3>2
      <4>2. KeyAt(K, i) < KeyAt(K, j)
        BY <1>5, <2>2, <4>1
      <4>. QED
        BY <1>4, <1>7, <4>1, <4>2
    <3>. QED
      BY <2>2, <3>1, <3>2
  <2>4. ASSUME NEW o \in S PROVE o <= KeyAt(K, i)
    <3>1. PICK r \in 1 .. n : o = KeyAt(K, r)
      BY <1>6
    <3>2. r <= i
      <4>1. CASE i = n
        BY <1>1, <4>1
      <4>2. CASE i + 1 \in 1 .. n
        <5>1. PICK j \in 1 .. n : j = i + 1
          BY <4>2
        <5>2. KeyAt(K, r) < KeyAt(K, j)
          BY <1>7, <3>1, <5>1
        <5>3. r < j
          BY <1>5, <5>2
        <5>. QED
          BY <1>1, <5>1, <5>3
      <4>. QED
        BY <2>2, <4>1, <4>2
    <3>3. ~(i < r)
      BY <1>1, <3>2
    <3>4. ~(KeyAt(K, i) < KeyAt(K, r))
      BY <1>5, <3>3
    <3>. QED
      BY <1>3, <1>4, <3>1, <3>4
  <2>5. S \subseteq Keys
    BY <1>1
  <2>6. GreatestKey(S) = KeyAt(K, i)
    <3>. HIDE DEF S
    <3>. QED
      BY <2>3, <2>4, <2>5, GreatestKeyIs
  <2>. QED
    BY <1>7, <2>1, <2>6
<1>10. BeginOf(v) = Place(v, 1)
  <2>1. CASE n = 0
    <3>1. K = {}
      BY <1>1, <1>6, <2>1
    <3>. QED
      BY <1>1, <1>7, <2>1, <3>1, LeastKeyNone
  <2>2. CASE n # 0
    <3>1. 1 \in 1 .. n
      BY <1>1, <2>2
    <3>2. ASSUME NEW o \in K PROVE KeyAt(K, 1) <= o
      <4>1. PICK r \in 1 .. n : o = KeyAt(K, r)
        BY <1>6
      <4>2. ~(r < 1)
        BY <1>1
      <4>3. ~(KeyAt(K, r) < KeyAt(K, 1))
        BY <1>5, <3>1, <4>2
      <4>. QED
        BY <1>3, <1>4, <3>1, <4>1, <4>3
    <3>3. LeastKey(K) = KeyAt(K, 1)
      <4>. HIDE DEF K
      <4>. QED
        BY <1>1, <1>4, <3>1, <3>2, LeastKeyIs
    <3>. QED
      BY <1>1, <1>7, <3>1, <3>3
  <2>. QED
    BY <2>1, <2>2
<1>11. ASSUME NEW i \in 1 .. n
       PROVE  /\ Place(v, i) # EndOf(v) /\ Place(v, i + 1) # BeginOf(v)
              /\ Deref(v, Place(v, i)) = ElementsOf(v)[i]
  <2>1. Place(v, i) = KeyAt(K, i) /\ KeyAt(K, i) \in K
    BY <1>4, <1>7
  <2>2. Place(v, i) # EndOf(v)
    BY <1>1, <1>3, <2>1
  <2>3. Deref(v, Place(v, i)) = ElementsOf(v)[i]
    BY <1>1, <2>1 DEF Deref, InKeyOrder, KeyCount, n
  <2>4. Place(v, i + 1) # BeginOf(v)
    <3>1. 1 \in 1 .. n
      BY <1>1
    <3>2. BeginOf(v) = KeyAt(K, 1) /\ KeyAt(K, 1) \in K
      BY <1>4, <1>7, <1>10, <3>1
    <3>3. CASE i = n
      BY <1>3, <1>7, <3>2, <3>3
    <3>4. CASE i < n
      <4>1. PICK j \in 1 .. n : j = i + 1 /\ 1 < j
        BY <1>1, <3>4
      <4>2. KeyAt(K, 1) < KeyAt(K, j)
        BY <1>5, <3>1, <4>1
      <4>. QED
        BY <1>3, <1>4, <1>7, <3>2, <4>1, <4>2
    <3>. QED
      BY <1>1, <3>3, <3>4
  <2>. QED
    BY <2>2, <2>3, <2>4
<1>. QED
  BY <1>1, <1>8, <1>9, <1>10, <1>11 DEF Leads

\* In an array, operator++ and operator-- lead from place to place.
LEMMA ArrayPlaces ==
    ASSUME NEW v, NEW E, IsArray(v, E)
    PROVE  /\ CountOf(v) \in Nat /\ BeginOf(v) = Place(v, 1)
           /\ \A i \in 1 .. CountOf(v) : Leads(v, i)
<1>1. /\ v[1] = "array" /\ v[2] \in Seq(E) /\ CountOf(v) = Len(v[2])
      /\ Len(v[2]) \in Nat /\ ElementsOf(v) = v[2]
      /\ BeginOf(v) = 0 /\ EndOf(v) = Len(v[2])
  BY ArrayIs DEF CountOf
<1>2. \A i \in 1 .. CountOf(v) + 1 : Place(v, i) = i - 1
  BY <1>1 DEF Place
<1>3. \A i \in 1 .. CountOf(v) :
         Place(v, i) = i - 1 /\ Place(v, i + 1) = i /\ i \in Nat /\ 1 <= i
                /\ i - 1 # CountOf(v) /\ (i - 1) + 1 = i
  BY <1>1, <1>2
<1>4. \A at : /\ Deref(v, at) = v[2][at + 1]
              /\ Incremented(v, at) = at + 1 /\ Decremented(v, at) = at - 1
  BY <1>1 DEF Deref, Incremented, Decremented
<1>5. Place(v, 1) = 0
  BY <1>1, <1>2
<1>. QED
  BY <1>1, <1>3, <1>4, <1>5 DEF Leads

\* In null and in a primitive value, they do so too.
LEMMA PlainPlaces ==
    ASSUME NEW v, NEW E, IsNull(v) \/ IsPrimitive(v, E)
    PROVE  /\ CountOf(v) \in Nat /\ BeginOf(v) = Place(v, 1)
           /\ \A i \in 1 .. CountOf(v) : Leads(v, i)
<1>1. CASE IsNull(v)
  <2>1. CountOf(v) = 0 /\ BeginOf(v) = 1 /\ EndOf(v) = 1
    BY <1>1, NullIs DEF CountOf
  <2>. QED
    BY <2>1 DEF Place
<1>2. CASE IsPrimitive(v, E)
  <2>1. /\ v[1] = "primitive" /\ CountOf(v) = 1 /\ ElementsOf(v)[1] = v[2]
        /\ BeginOf(v) = 0 /\ EndOf(v) = 1
    BY <1>2, PrimitiveIs DEF CountOf
  <2>2. Place(v, 1) = 0 /\ Place(v, 2) = 1
    BY <2>1 DEF Place
  <2>3. Deref(v, 0) = v[2] /\ Incremented(v, 0) = 1 /\ Decremented(v, 1) = 0
    BY <2>1 DEF Deref, Incremented, Decremented
  <2>4. Leads(v, 1)
    BY <2>1, <2>2, <2>3 DEF Leads
  <2>. QED
    BY <2>1, <2>2, <2>4
<1>. QED
  BY <1>1, <1>2

\* In every value, operator++ and operator-- lead from place to place.
LEMMA PlacesLead ==
    ASSUME NEW v, NEW E, HoldsElements(v, E)
    PROVE  /\ CountOf(v) \in Nat /\ BeginOf(v) = Place(v, 1)
           /\ Place(v, CountOf(v) + 1) = EndOf(v)
           /\ \A i \in 1 .. CountOf(v) : Leads(v, i)
<1>1. Place(v, CountOf(v) + 1) = EndOf(v)
  BY DEF Place
<1>. QED
  BY <1>1, FourKinds, PlainPlaces, ArrayPlaces, ObjectPlaces

(***************************************************************************)
(* Loops                                                                   *)
(***************************************************************************)

\* Induction over the natural numbers, for a set of them.
LEMMA AllNumbers ==
    ASSUME NEW S, 0 \in S, \A n \in Nat : n \in S => n + 1 \in S
    PROVE  Nat \subseteq S
<1>. SUFFICES ASSUME NEW z \in Nat \ S PROVE FALSE
  OBVIOUS
<1>. DEFINE R == OpToRel(<, Nat)
            T == Nat \ S
<1>1. IsWellFoundedOn(R, Nat) /\ T \subseteq Nat /\ T # {}
  BY NatLessThanWellFounded
<1>. HIDE DEF R
<1>2. PICK x \in T : \A y \in T : ~(<<y, x>> \in R)
  <2>. HIDE DEF T
  <2>. QED
    BY <1>1, WFMin
<1>3. x \in Nat /\ x \notin S
  OBVIOUS
<1>4. x # 0 /\ x - 1 \in Nat
  BY <1>3
<1>5. <<x - 1, x>> \in R
  BY <1>3, <1>4 DEF R, OpToRel
<1>6. x - 1 \in S
  BY <1>2, <1>3, <1>4, <1>5
<1>7. x - 1 + 1 \in S
  BY <1>4, <1>6
<1>. QED
  BY <1>3, <1>7

\* After i increments begin() is at the place behind i elements.
LEMMA ForwardPlaces ==
    ASSUME NEW v, NEW E, HoldsElements(v, E), NEW i \in 0 .. CountOf(v)
    PROVE  Forward(v)[i] = Place(v, i + 1)
<1>. DEFINE n == CountOf(v)
            Step(f) == [k \in 0 .. n |-> IF k = 0 THEN BeginOf(v)
                                         ELSE Incremented(v, f[k - 1])]
            h == [k \in 0 .. n |-> Place(v, k + 1)]
            f == Forward(v)
<1>1. /\ n \in Nat /\ BeginOf(v) = Place(v, 1)
      /\ \A k \in 1 .. n : Incremented(v, Place(v, k)) = Place(v, k + 1)
  BY PlacesLead DEF Leads
<1>2. f = CHOOSE g : g = Step(g)
  BY DEF Forward, CountOf
<1>. HIDE DEF n, f
<1>3. h = Step(h)
  <2>1. ASSUME NEW k \in 0 .. n PROVE h[k] = Step(h)[k]
    <3>1. CASE k = 0
      BY <1>1, <3>1
    <3>2. CASE k # 0
      <4>1. k \in 1 .. n /\ k - 1 \in 0 .. n /\ (k - 1) + 1 = k
        BY <1>1, <3>2
      <4>. QED
        BY <1>1, <3>2, <4>1
    <3>. QED
      BY <3>1, <3>2
  <2>. QED
    BY <2>1
<1>4. f = Step(f)
  <2>. HIDE DEF Step, h
  <2>. QED
    BY <1>2, <1>3
<1>5. f[0] = Place(v, 1) /\ \A k \in 1 .. n : f[k] = Incremented(v, f[k - 1])
  <2>1. 0 \in 0 .. n /\ \A k \in 1 .. n : k \in 0 .. n /\ k # 0
    BY <1>1
  <2>2. f[0] = Step(f)[0] /\ \A k \in 1 .. n : f[k] = Step(f)[k]
    <3>. HIDE DEF Step
    <3>. QED
      BY <1>4
  <2>. QED
    BY <1>1, <2>1, <2>2
<1>. DEFINE S == {k \in Nat : k <= n => f[k] = Place(v, k + 1)}
<1>6. 0 \in S
  BY <1>5
<1>7. ASSUME NEW k \in Nat, k \in S PROVE k + 1 \in S
  <2>1. CASE k + 1 <= n
    <3>1. f[k] = Place(v, k + 1) /\ k + 1 \in 1 .. n /\ (k + 1) - 1 = k
      BY <1>1, <1>7, <2>1
    <3>2. f[k + 1] = Incremented(v, Place(v, k + 1))
      BY <1>5, <3>1
    <3>3. f[k + 1] = Place(v, (k + 1) + 1)
      BY <1>1, <3>1, <3>2
    <3>. QED
      BY <3>3
  <2>2. CASE ~(k + 1 <= n)
    BY <2>2
  <2>. QED
    BY <2>1, <2>2
<1>8. Nat \subseteq S
  <2>. HIDE DEF S
  <2>. QED
    BY <1>6, <1>7, AllNumbers
<1>9. i \in Nat /\ i <= n
  BY <1>1 DEF n
<1>. QED
  BY <1>8, <1>9 DEF f

\* After i decrements end() is at the place before i elements.
LEMMA BackwardPlaces ==
    ASSUME NEW v, NEW E, HoldsElements(v, E), NEW i \in 0 .. CountOf(v)
    PROVE  Backward(v)[i] = Place(v, CountOf(v) + 1 - i)
<1>. DEFINE n == CountOf(v)
            Step(f) == [k \in 0 .. n |-> IF k = 0 THEN EndOf(v)
                                         ELSE Decremented(v, f[k - 1])]
            h == [k \in 0 .. n |-> Place(v, n + 1 - k)]
            f == Backward(v)
<1>1. /\ n \in Nat /\ EndOf(v) = Place(v, n + 1)
      /\ \A k \in 1 .. n : Decremented(v, Place(v, k + 1)) = Place(v, k)
  BY PlacesLead DEF Leads
<1>2. f = CHOOSE g : g = Step(g)
  BY DEF Backward, CountOf
<1>. HIDE DEF n, f
<1>3. h = Step(h)
  <2>1. ASSUME NEW k \in 0 .. n PROVE h[k] = Step(h)[k]
    <3>1. CASE k = 0
      BY <1>1, <3>1
    <3>2. CASE k # 0
      <4>1. /\ k - 1 \in 0 .. n /\ n + 1 - k \in 1 .. n
            /\ n + 1 - (k - 1) = (n + 1 - k) + 1
        BY <1>1, <3>2
      <4>2. Decremented(v, Place(v, n + 1 - (k - 1))) = Place(v, n + 1 - k)
        BY <1>1, <4>1
      <4>. QED
        BY <3>2, <4>1, <4>2
    <3>. QED
      BY <3>1, <3>2
  <2>. QED
    BY <2>1
<1>4. f = Step(f)
  <2>. HIDE DEF Step, h
  <2>. QED
    BY <1>2, <1>3
<1>5. f[0] = Place(v, n + 1) /\ \A k \in 1 .. n : f[k] = Decremented(v, f[k - 1])
  <2>1. 0 \in 0 .. n /\ \A k \in 1 .. n : k \in 0 .. n /\ k # 0
    BY <1>1
  <2>2. f[0] = Step(f)[0] /\ \A k \in 1 .. n : f[k] = Step(f)[k]
    <3>. HIDE DEF Step
    <3>. QED
      BY <1>4
  <2>. QED
    BY <1>1, <2>1, <2>2
<1>. DEFINE S == {k \in Nat : k <= n => f[k] = Place(v, n + 1 - k)}
<1>6. 0 \in S
  BY <1>1, <1>5
<1>7. ASSUME NEW k \in Nat, k \in S PROVE k + 1 \in S
  <2>1. CASE k + 1 <= n
    <3>1. /\ f[k] = Place(v, n + 1 - k) /\ k + 1 \in 1 .. n /\ (k + 1) - 1 = k
          /\ n - k \in 1 .. n /\ n + 1 - k = (n - k) + 1
          /\ n + 1 - (k + 1) = n - k
      BY <1>1, <1>7, <2>1
    <3>2. f[k + 1] = Decremented(v, Place(v, (n - k) + 1))
      BY <1>5, <3>1
    <3>3. f[k + 1] = Place(v, n + 1 - (k + 1))
      BY <1>1, <3>1, <3>2
    <3>. QED
      BY <3>3
  <2>2. CASE ~(k + 1 <= n)
    BY <2>2
  <2>. QED
    BY <2>1, <2>2
<1>8. Nat \subseteq S
  <2>. HIDE DEF S
  <2>. QED
    BY <1>6, <1>7, AllNumbers
<1>9. i \in Nat /\ i <= n
  BY <1>1 DEF n
<1>. QED
  BY <1>8, <1>9 DEF f, n

\* A loop over a value, either way, meets every element once and in order.
LEMMA LoopsMeetAll ==
    ASSUME NEW v, NEW E, HoldsElements(v, E)
    PROVE  Traverses(v, ElementsOf(v), Forward(v), Backward(v))
<1>. DEFINE n == CountOf(v)
            to == Forward(v)
            fro == Backward(v)
<1>1. /\ n \in Nat /\ BeginOf(v) = Place(v, 1) /\ Place(v, n + 1) = EndOf(v)
      /\ \A i \in 1 .. n : Leads(v, i)
  BY PlacesLead
<1>2. \A i \in 0 .. n : to[i] = Place(v, i + 1)
  BY ForwardPlaces
<1>3. \A i \in 0 .. n : fro[i] = Place(v, n + 1 - i)
  BY BackwardPlaces
<1>4. Len(ElementsOf(v)) = n
  BY DEF CountOf
<1>. HIDE DEF n, to, fro
<1>5. to[n] = EndOf(v) /\ fro[n] = BeginOf(v)
  <2>1. n \in 0 .. n /\ n + 1 - n = 1
    BY <1>1
  <2>. QED
    BY <1>1, <1>2, <1>3, <2>1
<1>6. ASSUME NEW i \in 1 .. n
      PROVE  /\ to[i - 1] # EndOf(v) /\ Deref(v, to[i - 1]) = ElementsOf(v)[i]
             /\ fro[i - 1] # BeginOf(v)
             /\ Deref(v, fro[i]) = ElementsOf(v)[n + 1 - i]
  <2>1. /\ i - 1 \in 0 .. n /\ i \in 0 .. n /\ (i - 1) + 1 = i
        /\ n + 1 - i \in 1 .. n /\ n + 1 - (i - 1) = (n + 1 - i) + 1
    BY <1>1
  <2>2. /\ to[i - 1] = Place(v, i) /\ fro[i] = Place(v, n + 1 - i)
        /\ fro[i - 1] = Place(v, (n + 1 - i) + 1)
    BY <1>2, <1>3, <2>1
  <2>3. Leads(v, i) /\ Leads(v, n + 1 - i)
    BY <1>1, <2>1
  <2>. QED
    BY <2>2, <2>3 DEF Leads
<1>. QED
  BY <1>4, <1>5, <1>6 DEF Traverses, to, fro

\* The element at a place, None at the end.
ElemAt(v, i) == IF i = CountOf(v) + 1 THEN None ELSE ElementsOf(v)[i]

\* In a sequence of distinct elements, an element has one index.
LEMMA IndexOf ==
    ASSUME NEW s, IsInjective(s), NEW i \in DOMAIN s
    PROVE  (CHOOSE p \in DOMAIN s : s[p] = s[i]) = i
BY DEF IsInjective

\* After and Before, the reference, step from place to place as well.
LEMMA Neighbours ==
    ASSUME NEW v, NEW E, HoldsElements(v, E), None \notin E
    PROVE  /\ After(v, None) = ElemAt(v, 1)
           /\ \A i \in 1 .. CountOf(v) :
                 /\ ElemAt(v, i) # None
                 /\ After(v, ElemAt(v, i)) = ElemAt(v, i + 1)
           /\ \A i \in 1 .. CountOf(v) + 1 :
                 Before(v, ElemAt(v, i)) = IF i = 1 THEN None ELSE ElemAt(v, i - 1)
<1>. DEFINE s == ElementsOf(v)
            n == CountOf(v)
<1>1. s \in Seq(E) /\ IsInjective(s) /\ n = Len(s) /\ n \in Nat /\ DOMAIN s = 1 .. n
  BY ElementsDistinct DEF CountOf
<1>2. \A i \in 1 .. n : ElemAt(v, i) = s[i] /\ s[i] \in E /\ s[i] # None
  BY <1>1 DEF ElemAt
<1>3. ElemAt(v, n + 1) = None
  BY DEF ElemAt
<1>4. After(v, None) = ElemAt(v, 1)
  <2>1. After(v, None) = IF 0 = n THEN None ELSE s[0 + 1]
    BY <1>1 DEF After
  <2>. QED
    BY <1>1, <2>1 DEF ElemAt
<1>5. ASSUME NEW i \in 1 .. n
      PROVE  /\ After(v, s[i]) = IF i = n THEN None ELSE s[i + 1]
             /\ Before(v, s[i]) = IF i = 1 THEN None ELSE s[i - 1]
  <2>1. (CHOOSE p \in DOMAIN s : s[p] = s[i]) = i
    <3>. HIDE DEF s
    <3>. QED
      BY <1>1, IndexOf
  <2>. QED
    BY <1>1, <1>2, <2>1 DEF After, Before
<1>6. Before(v, None) = IF n + 1 = 1 THEN None ELSE s[n + 1 - 1]
  BY <1>1 DEF Before
<1>. HIDE DEF s, n
<1>7. ASSUME NEW i \in 1 .. n PROVE After(v, ElemAt(v, i)) = ElemAt(v, i + 1)
  <2>1. CASE i = n
    BY <1>2, <1>3, <1>5, <2>1
  <2>2. CASE i # n
    <3>1. i + 1 \in 1 .. n
      BY <1>1, <2>2
    <3>. QED
      BY <1>2, <1>5, <2>2, <3>1
  <2>. QED
    BY <2>1, <2>2
<1>8. ASSUME NEW i \in 1 .. n + 1
      PROVE  Before(v, ElemAt(v, i)) = IF i = 1 THEN None ELSE ElemAt(v, i - 1)
  <2>1. i # 1 => i - 1 \in 1 .. n
    BY <1>1
  <2>2. CASE i = n + 1
    <3>1. ElemAt(v, i) = None
      BY <1>3, <2>2
    <3>2. CASE i = 1
      BY <1>6, <2>2, <3>1, <3>2
    <3>3. CASE i # 1
      <4>1. n \in 1 .. n /\ n + 1 # 1 /\ n + 1 - 1 = n /\ i - 1 = n
        BY <1>1, <2>1, <2>2, <3>3
      <4>. QED
        BY <1>2, <1>6, <3>1, <3>3, <4>1
    <3>. QED
      BY <3>2, <3>3
  <2>3. CASE i # n + 1
    <3>1. i \in 1 .. n
      BY <1>1, <2>3
    <3>. QED
      BY <1>2, <1>5, <2>1, <3>1
  <2>. QED
    BY <2>2, <2>3
<1>. QED
  BY <1>2, <1>4, <1>7, <1>8 DEF n

(***************************************************************************)
(* The inductive invariant                                                 *)
(***************************************************************************)

\* A position of a value that an iterator may have, with its element.
Sits(v, at, e) ==
    \/ at = EndOf(v) /\ e = None
    \/ v[1] = "array" /\ at \in 0 .. Len(v[2]) - 1 /\ e = v[2][at + 1]
    \/ v[1] = "object" /\ at \in DOMAIN v[2] /\ e = v[2][at]
    \/ v[1] = "primitive" /\ at = 0 /\ e = v[2]

\* To sit in a value is to be at one of its places, with its element.
LEMMA SitsAtPlace ==
    ASSUME NEW v, NEW E, HoldsElements(v, E), None \notin E, NEW at, NEW e
    PROVE  Sits(v, at, e) <=>
               \E i \in 1 .. CountOf(v) + 1 : at = Place(v, i) /\ e = ElemAt(v, i)
<1>. DEFINE n == CountOf(v)
<1>1. n \in Nat /\ Place(v, n + 1) = EndOf(v) /\ ElemAt(v, n + 1) = None
  BY PlacesLead DEF ElemAt
<1>2. n + 1 \in 1 .. n + 1 /\ \A i \in 1 .. n : i \in 1 .. n + 1 /\ i # n + 1
  BY <1>1
<1>3. \A i \in 1 .. n + 1 : i = n + 1 \/ i \in 1 .. n
  BY <1>1
<1>4. CASE IsNull(v)
  <2>1. v[1] = "null" /\ n = 0
    BY <1>4, NullIs DEF CountOf
  <2>. QED
    BY <1>1, <1>2, <1>3, <2>1 DEF Sits
<1>5. CASE IsPrimitive(v, E)
  <2>1. v[1] = "primitive" /\ n = 1 /\ ElementsOf(v)[1] = v[2]
    BY <1>5, PrimitiveIs DEF CountOf
  <2>2. Place(v, 1) = 0 /\ ElemAt(v, 1) = v[2]
    BY <2>1 DEF Place, ElemAt
  <2>. QED
    BY <1>1, <1>2, <1>3, <2>1, <2>2 DEF Sits
<1>6. CASE IsArray(v, E)
  <2>1. v[1] = "array" /\ n = Len(v[2]) /\ ElementsOf(v) = v[2]
    BY <1>6, ArrayIs DEF CountOf
  <2>2. \A i \in 1 .. n : Place(v, i) = i - 1 /\ ElemAt(v, i) = v[2][i]
    BY <1>2, <2>1 DEF Place, ElemAt
  <2>3. ASSUME at \in 0 .. n - 1, e = v[2][at + 1]
        PROVE  \E i \in 1 .. n + 1 : at = Place(v, i) /\ e = ElemAt(v, i)
    <3>1. at + 1 \in 1 .. n /\ (at + 1) - 1 = at
      BY <1>1, <2>3
    <3>2. at = Place(v, at + 1) /\ e = ElemAt(v, at + 1)
      BY <2>2, <2>3, <3>1
    <3>. QED
      BY <1>2, <3>1, <3>2
  <2>4. ASSUME NEW i \in 1 .. n, at = Place(v, i), e = ElemAt(v, i)
        PROVE  at \in 0 .. n - 1 /\ e = v[2][at + 1]
    <3>1. at = i - 1 /\ e = v[2][i]
      BY <2>2, <2>4
    <3>2. at \in 0 .. n - 1 /\ at + 1 = i
      BY <1>1, <3>1
    <3>. QED
      BY <3>1, <3>2
  <2>5. Sits(v, at, e) <=>
            (at = EndOf(v) /\ e = None) \/ (at \in 0 .. n - 1 /\ e = v[2][at + 1])
    BY <2>1 DEF Sits
  <2>. QED
    BY <1>1, <1>2, <1>3, <2>3, <2>4, <2>5
<1>7. CASE IsObject(v, E)
  <2>. DEFINE K == DOMAIN v[2]
  <2>1. /\ v[1] = "object" /\ n = Cardinality(K) /\ ElementsOf(v) = InKeyOrder(v)
        /\ K \subseteq Keys
    BY <1>7, ObjectIs, ObjectElements DEF CountOf, KeyCount
  <2>2. \A i \in 1 .. n : /\ Place(v, i) = KeyAt(K, i) /\ KeyAt(K, i) \in K
                          /\ ElemAt(v, i) = v[2][KeyAt(K, i)]
    <3>1. ASSUME NEW i \in 1 .. n PROVE InKeyOrder(v)[i] = v[2][KeyAt(K, i)]
      BY <2>1 DEF InKeyOrder, KeyCount
    <3>. QED
      BY <1>2, <2>1, <3>1, KeyAtRight DEF Place, ElemAt
  <2>3. ASSUME at \in K, e = v[2][at]
        PROVE  \E i \in 1 .. n + 1 : at = Place(v, i) /\ e = ElemAt(v, i)
    <3>1. PICK i \in 1 .. n : at = KeyAt(K, i)
      BY <2>1, <2>3, AllKeysRanked
    <3>. QED
      BY <1>2, <2>2, <2>3, <3>1
  <2>4. ASSUME NEW i \in 1 .. n, at = Place(v, i), e = ElemAt(v, i)
        PROVE  at \in K /\ e = v[2][at]
    BY <2>2, <2>4
  <2>5. Sits(v, at, e) <=> (at = EndOf(v) /\ e = None) \/ (at \in K /\ e = v[2][at])
    BY <2>1 DEF Sits
  <2>. QED
    BY <1>1, <1>2, <1>3, <2>3, <2>4, <2>5
<1>. QED
  BY <1>4, <1>5, <1>6, <1>7, FourKinds

\* A value of elements of E is one of elements of a larger set.
LEMMA HoldsMore ==
    ASSUME NEW v, NEW E, NEW F, E \subseteq F, HoldsElements(v, E)
    PROVE  HoldsElements(v, F)
<1>1. IsArray(v, E) => IsArray(v, F)
  BY DEF IsArray
<1>2. IsObject(v, E) => IsObject(v, F)
  BY DEF IsObject
<1>3. IsPrimitive(v, E) => IsPrimitive(v, F)
  BY DEF IsPrimitive
<1>. QED
  BY <1>1, <1>2, <1>3, FourKinds

\* The iterators; the elements made so far; an iterator that fits a value.
Iterators == [object : Names, within : Names,
              kind : {"array", "object", "primitive"},
              at : Nat, live : BOOLEAN, elem : Nat]

Made == 1 .. next - 1

Fits(i, v) == i.kind = KindOf(v) /\ Sits(v, i.at, i.elem)

\* The inductive invariant: the values hold distinct elements, made before,
\* and every valid iterator, usable or not, fits the value in whose storage it
\* is.  The second part is about "within" and not about m_object: it is what
\* swap keeps.
ValuesHold == DOMAIN val = Names /\ \A n \in Names : HoldsElements(val[n], Made)

IteratorsFit == \A s \in Slots : it[s].live => Fits(it[s], val[it[s].within])

TypeOK == next \in Nat /\ next >= 1 /\ it \in [Slots -> Iterators]

IInv == TypeOK /\ ValuesHold /\ IteratorsFit

\* Dead is an iterator, and is not live.
LEMMA DeadIs == Dead \in Iterators /\ ~Dead.live
<1>1. (CHOOSE n \in Names : TRUE) \in Names
  BY IteratorAssumption
<1>. QED
  BY <1>1 DEF Dead, Iterators, None

\* None is no element.
LEMMA NoneNotMade == TypeOK => None \notin Made
BY DEF TypeOK, Made, None

\* The inductive invariant implies the property.
LEMMA InvCorrect == IInv => IteratorsSound
<1>. SUFFICES ASSUME IInv PROVE IteratorsSound
  OBVIOUS
<1>1. ASSUME NEW s \in Slots, Usable(it[s])
      PROVE  LET v == val[it[s].object] IN
             IF it[s].elem = None THEN it[s].at = EndOf(v)
             ELSE it[s].at # EndOf(v) /\ Deref(v, it[s].at) = it[s].elem
  <2>. DEFINE v == val[it[s].object]
  <2>1. /\ it[s] \in Iterators /\ it[s].object \in Names /\ it[s].live
        /\ it[s].object = it[s].within
    BY <1>1 DEF IInv, TypeOK, Iterators, Usable
  <2>2. Sits(v, it[s].at, it[s].elem)
    BY <2>1 DEF IInv, IteratorsFit, Fits
  <2>3. HoldsElements(v, Made) /\ None \notin Made
    BY <2>1, NoneNotMade DEF IInv, ValuesHold
  <2>. HIDE DEF v
  <2>4. PICK i \in 1 .. CountOf(v) + 1 : it[s].at = Place(v, i) /\ it[s].elem = ElemAt(v, i)
    BY <2>2, <2>3, SitsAtPlace
  <2>5. /\ CountOf(v) \in Nat /\ Place(v, CountOf(v) + 1) = EndOf(v)
        /\ \A k \in 1 .. CountOf(v) : Leads(v, k)
    BY <2>3, PlacesLead
  <2>6. CASE i = CountOf(v) + 1
    <3>1. it[s].elem = None /\ it[s].at = EndOf(v)
      BY <2>4, <2>5, <2>6 DEF ElemAt
    <3>. QED
      BY <3>1 DEF v
  <2>7. CASE i \in 1 .. CountOf(v)
    <3>1. ElemAt(v, i) # None /\ ElemAt(v, i) = ElementsOf(v)[i]
      BY <2>3, <2>5, <2>7, Neighbours DEF ElemAt
    <3>2. it[s].at # EndOf(v) /\ Deref(v, it[s].at) = it[s].elem /\ it[s].elem # None
      BY <2>4, <2>5, <2>7, <3>1 DEF Leads
    <3>. QED
      BY <3>2 DEF v
  <2>. QED
    BY <2>5, <2>6, <2>7
<1>2. RefersToElement
  BY <1>1 DEF RefersToElement
<1>3. TraversalComplete
  BY LoopsMeetAll DEF TraversalComplete, IInv, ValuesHold
<1>. QED
  BY <1>2, <1>3 DEF IteratorsSound

\* The inductive invariant holds at the start.
LEMMA InitInv == IteratorInit(Start) => IInv
<1>. SUFFICES ASSUME IteratorInit(Start) PROVE IInv
  OBVIOUS
<1>1. TypeOK
  BY DeadIs DEF IteratorInit, TypeOK
<1>2. ValuesHold
  <2>1. Made = 1 .. 3
    BY DEF IteratorInit, Made
  <2>. QED
    BY <2>1, IteratorAssumption DEF IteratorInit, ValuesHold
<1>3. IteratorsFit
  BY DeadIs DEF IteratorInit, IteratorsFit
<1>. QED
  BY <1>1, <1>2, <1>3 DEF IInv

\* An iterator into n that is valid fits its new contents.
Kept(i, n, w) == i.live /\ i.within = n => Fits(i, w)

\* A step that gives one value new contents keeps the invariant when every
\* iterator dies, is made for the new contents, or still fits.
LEMMA Replaced ==
    ASSUME IInv, NEW n \in Names, NEW w, NEW new \in Nat, next <= new,
           HoldsElements(w, 1 .. new - 1),
           val' = [val EXCEPT ![n] = w], next' = new,
           it' \in [Slots -> Iterators],
           \A s \in Slots :
              \/ ~it'[s].live
              \/ it'[s].within = n /\ Fits(it'[s], w)
              \/ it'[s] = it[s] /\ Kept(it[s], n, w)
    PROVE  IInv'
<1>1. next \in Nat /\ next >= 1 /\ Made \subseteq 1 .. new - 1 /\ Made' = 1 .. new - 1
  BY DEF IInv, TypeOK, Made
<1>2. TypeOK'
  BY <1>1 DEF TypeOK
<1>3. /\ DOMAIN val = Names /\ DOMAIN val' = Names /\ val'[n] = w
      /\ \A m \in Names : m # n => val'[m] = val[m]
  BY DEF IInv, ValuesHold
<1>4. ValuesHold'
  <2>1. ASSUME NEW m \in Names PROVE HoldsElements(val'[m], Made')
    <3>1. CASE m = n
      BY <1>1, <1>3, <3>1
    <3>2. CASE m # n
      <4>1. HoldsElements(val[m], Made)
        BY DEF IInv, ValuesHold
      <4>2. Made \subseteq Made'
        BY <1>1
      <4>3. HoldsElements(val[m], Made')
        BY <4>1, <4>2, HoldsMore
      <4>. QED
        BY <1>3, <3>2, <4>3
    <3>. QED
      BY <3>1, <3>2
  <2>. QED
    BY <1>3, <2>1 DEF ValuesHold
<1>5. ASSUME NEW s \in Slots, it'[s].live
      PROVE  Fits(it'[s], val'[it'[s].within])
  <2>1. CASE it'[s].within = n /\ Fits(it'[s], w)
    BY <1>3, <2>1
  <2>2. CASE it'[s] = it[s] /\ Kept(it[s], n, w)
    <3>1. it[s] \in Iterators /\ it[s].within \in Names /\ it[s].live
      BY <1>5, <2>2 DEF IInv, TypeOK, Iterators
    <3>2. Fits(it[s], val[it[s].within])
      BY <3>1 DEF IInv, IteratorsFit
    <3>. QED
      BY <1>3, <2>2, <3>1, <3>2 DEF Kept
  <2>. QED
    BY <1>5, <2>1, <2>2
<1>6. IteratorsFit'
  BY <1>5 DEF IteratorsFit
<1>. QED
  BY <1>2, <1>4, <1>6 DEF IInv

(***************************************************************************)
(* Moving the iterators                                                    *)
(***************************************************************************)

\* The parts of the invariant the steps use most.
LEMMA ElementNumbers ==
    ASSUME IInv
    PROVE  /\ Made \subseteq Nat /\ None \notin Made /\ next \in Nat /\ next >= 1
           /\ DOMAIN val = Names /\ \A n \in Names : HoldsElements(val[n], Made)
           /\ it \in [Slots -> Iterators]
BY NoneNotMade DEF IInv, TypeOK, ValuesHold, Made

\* A position in a value and its element are numbers.
LEMMA SitsNumbers ==
    ASSUME NEW v, NEW E, HoldsElements(v, E), E \subseteq Nat, NEW at, NEW e,
           Sits(v, at, e)
    PROVE  at \in Nat /\ e \in Nat /\ (e # None => e \in E)
<1>1. MaxKey \in Nat /\ EndKey \in Nat
  BY IteratorAssumption DEF EndKey
<1>2. None \in Nat
  BY DEF None
<1>3. CASE IsNull(v)
  BY <1>2, <1>3, NullIs DEF Sits
<1>4. CASE IsPrimitive(v, E)
  <2>1. v[1] = "primitive" /\ v[2] \in E /\ EndOf(v) = 1
    BY <1>4, PrimitiveIs
  <2>2. (at = EndOf(v) /\ e = None) \/ (at = 0 /\ e = v[2])
    BY <2>1 DEF Sits
  <2>3. v[2] \in Nat
    BY <2>1
  <2>. QED
    BY <1>2, <2>1, <2>2, <2>3
<1>5. CASE IsArray(v, E)
  <2>1. v[1] = "array" /\ v[2] \in Seq(E) /\ Len(v[2]) \in Nat /\ EndOf(v) = Len(v[2])
    BY <1>5, ArrayIs
  <2>2. ASSUME at \in 0 .. Len(v[2]) - 1 PROVE at \in Nat /\ v[2][at + 1] \in E
    <3>1. at \in Nat /\ at + 1 \in 1 .. Len(v[2])
      BY <2>1, <2>2
    <3>. QED
      BY <2>1, <3>1, ElementOfSeq
  <2>. QED
    BY <1>2, <2>1, <2>2 DEF Sits
<1>6. CASE IsObject(v, E)
  <2>1. /\ v[1] = "object" /\ EndOf(v) = EndKey /\ DOMAIN v[2] \subseteq Keys
        /\ \A k \in DOMAIN v[2] : v[2][k] \in E
    BY <1>6, ObjectIs
  <2>2. \A k \in DOMAIN v[2] : k \in Nat
    BY <2>1, KeysFinite
  <2>. QED
    BY <1>1, <1>2, <2>1, <2>2 DEF Sits
<1>. QED
  BY <1>3, <1>4, <1>5, <1>6, FourKinds

\* An iterator made for a position of a value fits it.
LEMMA NewIterator ==
    ASSUME NEW n \in Names, NEW v, NEW E, HoldsElements(v, E), E \subseteq Nat,
           NEW at, NEW e, Sits(v, at, e)
    PROVE  /\ Iterator(n, v, at, e) \in Iterators
           /\ Iterator(n, v, at, e).within = n
           /\ Fits(Iterator(n, v, at, e), v)
<1>1. at \in Nat /\ e \in Nat
  BY SitsNumbers
<1>2. KindOf(v) \in {"array", "object", "primitive"}
  BY DEF KindOf
<1>. QED
  BY <1>1, <1>2 DEF Iterator, Iterators, Fits

\* A step that only replaces one iterator keeps the invariant when the new
\* one fits.
LEMMA Moved ==
    ASSUME IInv, NEW s \in Slots, NEW r \in Iterators,
           r.live => Fits(r, val[r.within]),
           it' = [it EXCEPT ![s] = r], UNCHANGED <<val, next>>
    PROVE  IInv'
<1>1. TypeOK'
  BY DEF IInv, TypeOK
<1>2. ValuesHold'
  BY DEF IInv, ValuesHold, Made
<1>3. IteratorsFit'
  <2>1. ASSUME NEW t \in Slots, it'[t].live PROVE Fits(it'[t], val'[it'[t].within])
    <3>1. CASE t = s
      <4>1. it'[t] = r
        BY <3>1 DEF IInv, TypeOK
      <4>. QED
        BY <2>1, <4>1
    <3>2. CASE t # s
      <4>1. it'[t] = it[t]
        BY <3>2 DEF IInv, TypeOK
      <4>. QED
        BY <2>1, <4>1 DEF IInv, IteratorsFit
    <3>. QED
      BY <3>1, <3>2
  <2>. QED
    BY <2>1 DEF IteratorsFit
<1>. QED
  BY <1>1, <1>2, <1>3 DEF IInv

\* begin() keeps the invariant.
LEMMA BeginInv ==
    ASSUME IInv, NEW s \in Slots, NEW n \in Names, Begin(s, n)
    PROVE  IInv'
<1>. DEFINE v == val[n]
            r == Iterator(n, v, BeginOf(v), After(v, None))
<1>1. HoldsElements(v, Made) /\ None \notin Made /\ Made \subseteq Nat
  BY ElementNumbers
<1>2. it' = [it EXCEPT ![s] = r] /\ UNCHANGED <<val, next>>
  BY DEF Begin
<1>3. BeginOf(v) = Place(v, 1) /\ After(v, None) = ElemAt(v, 1) /\ CountOf(v) \in Nat
  BY <1>1, PlacesLead, Neighbours
<1>4. 1 \in 1 .. CountOf(v) + 1
  BY <1>3
<1>5. Sits(v, BeginOf(v), After(v, None))
  BY <1>1, <1>3, <1>4, SitsAtPlace
<1>. HIDE DEF v
<1>6. r \in Iterators /\ r.within = n /\ Fits(r, v)
  BY <1>1, <1>5, NewIterator
<1>. HIDE DEF r
<1>7. Fits(r, val[r.within])
  BY <1>6 DEF v
<1>. QED
  BY <1>2, <1>6, <1>7, Moved

\* end() keeps the invariant.
LEMMA EndInv ==
    ASSUME IInv, NEW s \in Slots, NEW n \in Names, End(s, n)
    PROVE  IInv'
<1>. DEFINE v == val[n]
            r == Iterator(n, v, EndOf(v), None)
<1>1. HoldsElements(v, Made) /\ None \notin Made /\ Made \subseteq Nat
  BY ElementNumbers
<1>2. it' = [it EXCEPT ![s] = r] /\ UNCHANGED <<val, next>>
  BY DEF End
<1>3. Sits(v, EndOf(v), None)
  BY DEF Sits
<1>. HIDE DEF v
<1>4. r \in Iterators /\ r.within = n /\ Fits(r, v)
  BY <1>1, <1>3, NewIterator
<1>. HIDE DEF r
<1>5. Fits(r, val[r.within])
  BY <1>4 DEF v
<1>. QED
  BY <1>2, <1>4, <1>5, Moved

\* Moving an iterator to another position of its value keeps the invariant.
LEMMA SteppedInv ==
    ASSUME IInv, NEW s \in Slots, it[s].live, NEW at, NEW e,
           Sits(val[it[s].within], at, e),
           it' = [it EXCEPT ![s].at = at, ![s].elem = e], UNCHANGED <<val, next>>
    PROVE  IInv'
<1>. DEFINE v == val[it[s].within]
            r == [it[s] EXCEPT !.at = at, !.elem = e]
<1>1. /\ it \in [Slots -> Iterators] /\ it[s] \in Iterators /\ it[s].within \in Names
      /\ Made \subseteq Nat /\ HoldsElements(v, Made)
  BY ElementNumbers DEF Iterators
<1>2. at \in Nat /\ e \in Nat
  <2>. HIDE DEF v
  <2>1. Sits(v, at, e)
    BY DEF v
  <2>. QED
    BY <1>1, <2>1, SitsNumbers
<1>3. /\ r \in Iterators /\ r.within = it[s].within /\ r.kind = it[s].kind
      /\ r.at = at /\ r.elem = e
  BY <1>1, <1>2 DEF Iterators
<1>4. Fits(it[s], v)
  BY DEF IInv, IteratorsFit
<1>5. it' = [it EXCEPT ![s] = r]
  BY <1>1
<1>. HIDE DEF r
<1>6. Fits(r, val[r.within])
  BY <1>3, <1>4 DEF Fits
<1>. QED
  BY <1>3, <1>5, <1>6, Moved

\* An iterator a program may use sits in the value m_object names.
LEMMA UsableIs ==
    ASSUME IInv, NEW s \in Slots, Usable(it[s])
    PROVE  /\ it[s].live /\ it[s].object \in Names /\ it[s].object = it[s].within
           /\ it[s].kind = KindOf(val[it[s].object])
           /\ it[s].at \in Nat /\ it[s].elem \in Nat
           /\ Sits(val[it[s].object], it[s].at, it[s].elem)
           /\ HoldsElements(val[it[s].object], Made)
<1>1. it[s] \in Iterators
  BY ElementNumbers
<1>2. /\ it[s].live /\ it[s].object \in Names /\ it[s].object = it[s].within
      /\ it[s].at \in Nat /\ it[s].elem \in Nat
  BY <1>1 DEF Iterators, Usable
<1>3. Fits(it[s], val[it[s].within])
  BY <1>2 DEF IInv, IteratorsFit
<1>4. HoldsElements(val[it[s].object], Made)
  BY <1>2, ElementNumbers
<1>. QED
  BY <1>2, <1>3, <1>4 DEF Fits

\* It is at one of the places of that value.
LEMMA UsablePlace ==
    ASSUME IInv, NEW s \in Slots, Usable(it[s]), NEW v, v = val[it[s].object]
    PROVE  /\ CountOf(v) \in Nat
           /\ \E i \in 1 .. CountOf(v) + 1 :
                 /\ it[s].at = Place(v, i) /\ it[s].elem = ElemAt(v, i)
                 /\ it[s].elem # None => i \in 1 .. CountOf(v)
<1>1. Sits(v, it[s].at, it[s].elem) /\ HoldsElements(v, Made) /\ None \notin Made
  BY UsableIs, ElementNumbers
<1>2. CountOf(v) \in Nat
  BY <1>1, PlacesLead
<1>3. PICK i \in 1 .. CountOf(v) + 1 : it[s].at = Place(v, i) /\ it[s].elem = ElemAt(v, i)
  BY <1>1, SitsAtPlace
<1>4. it[s].elem # None => i \in 1 .. CountOf(v)
  BY <1>2, <1>3 DEF ElemAt
<1>. QED
  BY <1>2, <1>3, <1>4

\* operator++ keeps the invariant.
LEMMA IncrementInv ==
    ASSUME IInv, NEW s \in Slots, Increment(s)
    PROVE  IInv'
<1>. DEFINE v == val[it[s].object]
<1>1. Usable(it[s]) /\ it[s].elem # None
  BY DEF Increment
<1>2. /\ it[s].live /\ it[s].object = it[s].within /\ HoldsElements(v, Made)
      /\ None \notin Made
  BY <1>1, UsableIs, ElementNumbers
<1>3. /\ it' = [it EXCEPT ![s].at = Incremented(v, it[s].at), ![s].elem = After(v, it[s].elem)]
      /\ UNCHANGED <<val, next>>
  BY ElementNumbers DEF Increment
<1>4. PICK i \in 1 .. CountOf(v) : it[s].at = Place(v, i) /\ it[s].elem = ElemAt(v, i)
  BY <1>1, UsablePlace
<1>5. CountOf(v) \in Nat /\ Leads(v, i) /\ After(v, ElemAt(v, i)) = ElemAt(v, i + 1)
  BY <1>2, PlacesLead, Neighbours
<1>6. i + 1 \in 1 .. CountOf(v) + 1
  BY <1>5
<1>7. Sits(v, Place(v, i + 1), ElemAt(v, i + 1))
  BY <1>2, <1>6, SitsAtPlace
<1>8. Sits(v, Incremented(v, it[s].at), After(v, it[s].elem))
  BY <1>4, <1>5, <1>7 DEF Leads
<1>. QED
  BY <1>2, <1>3, <1>8, SteppedInv

\* operator-- keeps the invariant.
LEMMA DecrementInv ==
    ASSUME IInv, NEW s \in Slots, Decrement(s)
    PROVE  IInv'
<1>. DEFINE v == val[it[s].object]
<1>1. Usable(it[s]) /\ Before(v, it[s].elem) # None
  BY DEF Decrement
<1>2. /\ it[s].live /\ it[s].object = it[s].within /\ HoldsElements(v, Made)
      /\ None \notin Made
  BY <1>1, UsableIs, ElementNumbers
<1>3. /\ it' = [it EXCEPT ![s].at = Decremented(v, it[s].at), ![s].elem = Before(v, it[s].elem)]
      /\ UNCHANGED <<val, next>>
  BY ElementNumbers DEF Decrement
<1>4. PICK i \in 1 .. CountOf(v) + 1 : it[s].at = Place(v, i) /\ it[s].elem = ElemAt(v, i)
  BY <1>1, UsablePlace
<1>5. Before(v, ElemAt(v, i)) = IF i = 1 THEN None ELSE ElemAt(v, i - 1)
  BY <1>2, Neighbours
<1>6. i # 1 /\ Before(v, it[s].elem) = ElemAt(v, i - 1)
  BY <1>1, <1>4, <1>5
<1>7. CountOf(v) \in Nat /\ \A k \in 1 .. CountOf(v) : Leads(v, k)
  BY <1>2, PlacesLead
<1>8. i - 1 \in 1 .. CountOf(v) /\ i - 1 \in 1 .. CountOf(v) + 1 /\ (i - 1) + 1 = i
  BY <1>6, <1>7
<1>9. Decremented(v, Place(v, i)) = Place(v, i - 1)
  BY <1>7, <1>8 DEF Leads
<1>10. Sits(v, Place(v, i - 1), ElemAt(v, i - 1))
  BY <1>2, <1>8, SitsAtPlace
<1>11. Sits(v, Decremented(v, it[s].at), Before(v, it[s].elem))
  BY <1>4, <1>6, <1>9, <1>10
<1>. QED
  BY <1>2, <1>3, <1>11, SteppedInv

\* operator+=(2) keeps the invariant.
LEMMA AdvanceInv ==
    ASSUME IInv, NEW s \in Slots, Advance(s), ~UNCHANGED iteratorVars
    PROVE  IInv'
<1>. DEFINE v == val[it[s].object]
<1>1. /\ Usable(it[s]) /\ v[1] # "object" /\ it[s].elem # None
      /\ After(v, it[s].elem) # None
  BY DEF Advance, Fails
<1>2. /\ it[s].live /\ it[s].object = it[s].within /\ HoldsElements(v, Made)
      /\ None \notin Made
  BY <1>1, UsableIs, ElementNumbers
<1>3. /\ it' = [it EXCEPT ![s].at = it[s].at + 2, ![s].elem = After(v, After(v, it[s].elem))]
      /\ UNCHANGED <<val, next>>
  BY <1>1, ElementNumbers DEF Advance, Fails
<1>4. PICK i \in 1 .. CountOf(v) : it[s].at = Place(v, i) /\ it[s].elem = ElemAt(v, i)
  BY <1>1, UsablePlace
<1>5. /\ CountOf(v) \in Nat /\ After(v, ElemAt(v, i)) = ElemAt(v, i + 1)
      /\ \A k \in 1 .. CountOf(v) :
            Leads(v, k) /\ After(v, ElemAt(v, k)) = ElemAt(v, k + 1)
  BY <1>2, PlacesLead, Neighbours
<1>6. i + 1 # CountOf(v) + 1
  BY <1>1, <1>4, <1>5 DEF ElemAt
<1>7. i + 1 \in 1 .. CountOf(v) /\ (i + 1) + 1 \in 1 .. CountOf(v) + 1
  BY <1>5, <1>6
<1>8. /\ Incremented(v, Place(v, i)) = Place(v, i + 1)
      /\ Incremented(v, Place(v, i + 1)) = Place(v, (i + 1) + 1)
      /\ After(v, After(v, it[s].elem)) = ElemAt(v, (i + 1) + 1)
  BY <1>4, <1>5, <1>7 DEF Leads
<1>9. it[s].at + 2 = Place(v, (i + 1) + 1)
  <2>1. it[s].at \in Nat
    BY <1>1, UsableIs
  <2>2. Place(v, i + 1) = it[s].at + 1
    BY <1>1, <1>4, <1>8 DEF Incremented
  <2>3. Place(v, (i + 1) + 1) = (it[s].at + 1) + 1
    BY <1>1, <1>8, <2>2 DEF Incremented
  <2>. QED
    BY <2>1, <2>3
<1>10. Sits(v, Place(v, (i + 1) + 1), ElemAt(v, (i + 1) + 1))
  BY <1>2, <1>7, SitsAtPlace
<1>11. Sits(v, it[s].at + 2, After(v, After(v, it[s].elem)))
  BY <1>8, <1>9, <1>10
<1>. QED
  BY <1>2, <1>3, <1>11, SteppedInv

(***************************************************************************)
(* Arrays, cut and grown                                                   *)
(***************************************************************************)

\* The domain and the elements of a sequence.
LEMMA SeqFacts ==
    ASSUME NEW E, NEW s \in Seq(E)
    PROVE  /\ Len(s) \in Nat /\ DOMAIN s = 1 .. Len(s)
           /\ \A p \in 1 .. Len(s) : s[p] \in E
OBVIOUS

\* The first elements of a sequence.
LEMMA Prefix ==
    ASSUME NEW E, NEW s \in Seq(E), NEW i \in 0 .. Len(s)
    PROVE  /\ SubSeq(s, 1, i) \in Seq(E) /\ Len(SubSeq(s, 1, i)) = i
           /\ \A p \in 1 .. i : SubSeq(s, 1, i)[p] = s[p]
OBVIOUS

\* The last elements of a sequence.
LEMMA Suffix ==
    ASSUME NEW E, NEW s \in Seq(E), NEW j \in 0 .. Len(s)
    PROVE  /\ SubSeq(s, j + 1, Len(s)) \in Seq(E)
           /\ Len(SubSeq(s, j + 1, Len(s))) = Len(s) - j
           /\ \A p \in 1 .. Len(s) - j : SubSeq(s, j + 1, Len(s))[p] = s[j + p]
OBVIOUS

\* An array without the elements between two positions.
Cut(s, i, j) == SubSeq(s, 1, i) \o SubSeq(s, j + 1, Len(s))

\* What is left of an array after erase(first, last).
LEMMA CutIs ==
    ASSUME NEW E, NEW s \in Seq(E), IsInjective(s),
           NEW i \in Nat, NEW j \in Nat, i <= j, j <= Len(s)
    PROVE  /\ Cut(s, i, j) \in Seq(E) /\ IsInjective(Cut(s, i, j))
           /\ Len(Cut(s, i, j)) = Len(s) - (j - i)
           /\ \A p \in 1 .. i : Cut(s, i, j)[p] = s[p]
           /\ \A p \in i + 1 .. Len(s) - (j - i) : Cut(s, i, j)[p] = s[p + (j - i)]
<1>. DEFINE a == SubSeq(s, 1, i)
            b == SubSeq(s, j + 1, Len(s))
            w == Cut(s, i, j)
            n == Len(s)
<1>1. n \in Nat /\ DOMAIN s = 1 .. n
  BY SeqFacts
<1>2. i \in 0 .. n /\ j \in 0 .. n
  BY <1>1
<1>3. a \in Seq(E) /\ Len(a) = i /\ \A p \in 1 .. i : a[p] = s[p]
  BY <1>2, Prefix
<1>4. b \in Seq(E) /\ Len(b) = n - j /\ \A p \in 1 .. n - j : b[p] = s[j + p]
  BY <1>2, Suffix
<1>5. w = a \o b
  BY DEF Cut
<1>. HIDE DEF a, b, w, n
<1>6. /\ w \in Seq(E) /\ Len(w) = i + (n - j)
      /\ \A p \in 1 .. i : w[p] = a[p]
      /\ \A p \in i + 1 .. i + (n - j) : w[p] = b[p - i]
  <2>1. a \in Seq(E) /\ b \in Seq(E) /\ Len(a) = i /\ Len(b) = n - j
    BY <1>3, <1>4
  <2>2. i \in Nat /\ n - j \in Nat
    BY <1>1
  <2>3. /\ w \in Seq(E) /\ Len(w) = Len(a) + Len(b)
        /\ \A p \in 1 .. Len(a) + Len(b) :
              w[p] = IF p <= Len(a) THEN a[p] ELSE b[p - Len(a)]
    BY <1>5, <2>1, ConcatProperties
  <2>4. \A p \in 1 .. i : p \in 1 .. i + (n - j) /\ p <= i
    BY <2>2
  <2>5. \A p \in i + 1 .. i + (n - j) : p \in 1 .. i + (n - j) /\ ~(p <= i)
    BY <2>2
  <2>. QED
    BY <2>1, <2>3, <2>4, <2>5
<1>7. \A p \in 1 .. i : w[p] = s[p]
  BY <1>3, <1>6
<1>8. ASSUME NEW p \in i + 1 .. n - (j - i) PROVE w[p] = s[p + (j - i)]
  <2>1. p \in i + 1 .. i + (n - j) /\ p - i \in 1 .. n - j /\ j + (p - i) = p + (j - i)
    BY <1>1
  <2>. QED
    BY <1>4, <1>6, <2>1
<1>9. Len(w) = n - (j - i) /\ DOMAIN w = 1 .. n - (j - i)
  BY <1>1, <1>6, SeqFacts
<1>10. ASSUME NEW p \in 1 .. n - (j - i), NEW q \in 1 .. n - (j - i), w[p] = w[q]
       PROVE  p = q
  <2>. DEFINE From(x) == IF x <= i THEN x ELSE x + (j - i)
  <2>1. ASSUME NEW x \in 1 .. n - (j - i) PROVE w[x] = s[From(x)] /\ From(x) \in 1 .. n
    <3>1. CASE x <= i
      <4>1. x \in 1 .. i /\ x \in 1 .. n
        BY <1>1, <3>1
      <4>. QED
        BY <1>7, <3>1, <4>1
    <3>2. CASE ~(x <= i)
      <4>1. x \in i + 1 .. n - (j - i) /\ x + (j - i) \in 1 .. n
        BY <1>1, <3>2
      <4>. QED
        BY <1>8, <3>2, <4>1
    <3>. QED
      BY <3>1, <3>2
  <2>2. From(p) = From(q)
    <3>. HIDE DEF From
    <3>. QED
      BY <1>1, <1>10, <2>1 DEF IsInjective
  <2>. QED
    BY <1>1, <2>2
<1>11. IsInjective(w)
  BY <1>9, <1>10 DEF IsInjective
<1>. QED
  BY <1>6, <1>7, <1>8, <1>9, <1>11 DEF w, n

\* The elements made by an insert, and an array with them.
Newly(m, count) == [x \in 1 .. count |-> m + x - 1]

Grown(s, i, m, count) == SubSeq(s, 1, i) \o Newly(m, count) \o SubSeq(s, i + 1, Len(s))

\* The elements insert makes.
LEMMA NewlyIs ==
    ASSUME NEW m \in Nat, m >= 1, NEW count \in Nat
    PROVE  /\ Newly(m, count) \in Seq(1 .. m + count - 1) /\ Len(Newly(m, count)) = count
           /\ \A x \in 1 .. count : Newly(m, count)[x] = m + x - 1
<1>1. \A x \in 1 .. count : m + x - 1 \in 1 .. m + count - 1
  OBVIOUS
<1>2. Newly(m, count) \in [1 .. count -> 1 .. m + count - 1]
  BY <1>1 DEF Newly
<1>3. Newly(m, count) \in Seq(1 .. m + count - 1) /\ Len(Newly(m, count)) = count
  BY <1>2, IsASeq
<1>. QED
  BY <1>3 DEF Newly

\* An array after insert: its elements are distinct, the first new one at pos.
LEMMA GrownIs ==
    ASSUME NEW m \in Nat, m >= 1, NEW count \in Nat,
           NEW s \in Seq(1 .. m - 1), IsInjective(s), NEW i \in Nat, i <= Len(s)
    PROVE  LET w == Grown(s, i, m, count) IN
           /\ w \in Seq(1 .. m + count - 1) /\ IsInjective(w)
           /\ Len(w) = Len(s) + count
           /\ count > 0 => w[i + 1] = m
           /\ count = 0 => \A p \in 1 .. Len(s) : w[p] = s[p]
<1>. DEFINE E == 1 .. m + count - 1
            a == SubSeq(s, 1, i)
            c == Newly(m, count)
            b == SubSeq(s, i + 1, Len(s))
            w == Grown(s, i, m, count)
            n == Len(s)
<1>1. /\ n \in Nat /\ DOMAIN s = 1 .. n
      /\ \A p \in 1 .. n : s[p] \in Nat /\ 1 <= s[p] /\ s[p] < m
  <2>1. \A p \in 1 .. n : s[p] \in 1 .. m - 1
    BY SeqFacts
  <2>2. n \in Nat /\ DOMAIN s = 1 .. n
    BY SeqFacts
  <2>. QED
    BY <2>1, <2>2
<1>2. s \in Seq(E)
  <2>1. 1 .. m - 1 \subseteq E
    OBVIOUS
  <2>. HIDE DEF E
  <2>. QED
    BY <2>1, SeqMonotonic
<1>3. i \in 0 .. n
  BY <1>1
<1>4. a \in Seq(E) /\ Len(a) = i /\ \A p \in 1 .. i : a[p] = s[p]
  <2>. HIDE DEF E
  <2>. QED
    BY <1>2, <1>3, Prefix
<1>5. b \in Seq(E) /\ Len(b) = n - i /\ \A p \in 1 .. n - i : b[p] = s[i + p]
  <2>. HIDE DEF E
  <2>. QED
    BY <1>2, <1>3, Suffix
<1>6. c \in Seq(E) /\ Len(c) = count /\ \A x \in 1 .. count : c[x] = m + x - 1
  BY NewlyIs
<1>7. w = (a \o c) \o b
  BY DEF Grown
<1>. HIDE DEF a, b, c, w, n, E
<1>8. /\ a \o c \in Seq(E) /\ Len(a \o c) = i + count
      /\ \A p \in 1 .. i : (a \o c)[p] = a[p]
      /\ \A p \in i + 1 .. i + count : (a \o c)[p] = c[p - i]
  <2>1. a \in Seq(E) /\ c \in Seq(E) /\ Len(a) = i /\ Len(c) = count
    BY <1>4, <1>6
  <2>2. i \in Nat /\ count \in Nat
    OBVIOUS
  <2>3. /\ (a \o c) \in Seq(E) /\ Len((a \o c)) = Len(a) + Len(c)
        /\ \A p \in 1 .. Len(a) + Len(c) :
              (a \o c)[p] = IF p <= Len(a) THEN a[p] ELSE c[p - Len(a)]
    BY <2>1, ConcatProperties
  <2>4. \A p \in 1 .. i : p \in 1 .. i + count /\ p <= i
    BY <2>2
  <2>5. \A p \in i + 1 .. i + count : p \in 1 .. i + count /\ ~(p <= i)
    BY <2>2
  <2>. QED
    BY <2>1, <2>3, <2>4, <2>5
<1>9. /\ w \in Seq(E) /\ Len(w) = (i + count) + (n - i)
      /\ \A p \in 1 .. i + count : w[p] = (a \o c)[p]
      /\ \A p \in (i + count) + 1 .. (i + count) + (n - i) : w[p] = b[p - (i + count)]
  <2>. DEFINE ac == a \o c
  <2>1. ac \in Seq(E) /\ b \in Seq(E) /\ Len(ac) = i + count /\ Len(b) = n - i
    BY <1>5, <1>8
  <2>2. w = ac \o b
    BY <1>7
  <2>. HIDE DEF ac
  <2>3. /\ w \in Seq(E) /\ Len(w) = (i + count) + (n - i)
        /\ \A p \in 1 .. i + count : w[p] = ac[p]
        /\ \A p \in (i + count) + 1 .. (i + count) + (n - i) : w[p] = b[p - (i + count)]
    <3>1. i + count \in Nat /\ n - i \in Nat
      BY <1>1
    <3>3. /\ w \in Seq(E) /\ Len(w) = Len(ac) + Len(b)
          /\ \A p \in 1 .. Len(ac) + Len(b) :
                w[p] = IF p <= Len(ac) THEN ac[p] ELSE b[p - Len(ac)]
      BY <2>1, <2>2, ConcatProperties
    <3>4. \A p \in 1 .. (i + count) : p \in 1 .. (i + count) + (n - i) /\ p <= (i + count)
      BY <3>1
    <3>5. \A p \in (i + count) + 1 .. (i + count) + (n - i) : p \in 1 .. (i + count) + (n - i) /\ ~(p <= (i + count))
      BY <3>1
    <3>. QED
      BY <2>1, <3>3, <3>4, <3>5
  <2>. QED
    BY <2>3 DEF ac
<1>10. Len(w) = n + count /\ DOMAIN w = 1 .. n + count
  BY <1>1, <1>9, SeqFacts
<1>11. ASSUME NEW p \in 1 .. i PROVE w[p] = s[p]
  <2>1. p \in 1 .. i + count
    OBVIOUS
  <2>. QED
    BY <1>4, <1>8, <1>9, <2>1
<1>12. ASSUME NEW p \in i + 1 .. i + count PROVE w[p] = m + (p - i) - 1
  <2>1. p \in 1 .. i + count /\ p - i \in 1 .. count
    OBVIOUS
  <2>. QED
    BY <1>6, <1>8, <1>9, <2>1
<1>13. ASSUME NEW p \in i + count + 1 .. n + count PROVE w[p] = s[p - count]
  <2>1. /\ p \in (i + count) + 1 .. (i + count) + (n - i)
        /\ p - (i + count) \in 1 .. n - i /\ i + (p - (i + count)) = p - count
    BY <1>1
  <2>. QED
    BY <1>5, <1>9, <2>1
<1>14. ASSUME NEW p \in 1 .. n + count, NEW q \in 1 .. n + count, w[p] = w[q]
       PROVE  p = q
  <2>. DEFINE New(x) == i < x /\ x <= i + count
              From(x) == IF x <= i THEN x ELSE x - count
  <2>1. ASSUME NEW x \in 1 .. n + count, New(x) PROVE w[x] = m + (x - i) - 1
    BY <1>12, <2>1
  <2>2. ASSUME NEW x \in 1 .. n + count, ~New(x)
        PROVE  w[x] = s[From(x)] /\ From(x) \in 1 .. n
    <3>1. CASE x <= i
      <4>1. x \in 1 .. i /\ x \in 1 .. n
        BY <1>1, <3>1
      <4>. QED
        BY <1>11, <3>1, <4>1
    <3>2. CASE ~(x <= i)
      <4>1. x \in i + count + 1 .. n + count /\ x - count \in 1 .. n
        BY <1>1, <2>2, <3>2
      <4>. QED
        BY <1>13, <3>2, <4>1
    <3>. QED
      BY <3>1, <3>2
  <2>3. CASE New(p) /\ New(q)
    <3>1. m + (p - i) - 1 = m + (q - i) - 1
      BY <1>14, <2>1, <2>3
    <3>. QED
      BY <1>1, <3>1
  <2>4. CASE ~New(p) /\ ~New(q)
    <3>1. From(p) = From(q)
      <4>. HIDE DEF From, New
      <4>. QED
        BY <1>1, <1>14, <2>2, <2>4 DEF IsInjective
    <3>. QED
      BY <1>1, <2>4, <3>1
  <2>5. CASE New(p) /\ ~New(q)
    <3>1. w[p] = m + (p - i) - 1 /\ w[q] = s[From(q)] /\ From(q) \in 1 .. n
      BY <2>1, <2>2, <2>5
    <3>2. s[From(q)] < m /\ s[From(q)] \in Nat
      BY <1>1, <3>1
    <3>3. m + (p - i) - 1 \in Nat /\ m + (p - i) - 1 >= m
      BY <2>5
    <3>4. m + (p - i) - 1 = s[From(q)]
      BY <1>14, <3>1
    <3>. HIDE DEF From, New
    <3>. QED
      BY <3>2, <3>3, <3>4
  <2>6. CASE ~New(p) /\ New(q)
    <3>1. w[q] = m + (q - i) - 1 /\ w[p] = s[From(p)] /\ From(p) \in 1 .. n
      BY <2>1, <2>2, <2>6
    <3>2. s[From(p)] < m /\ s[From(p)] \in Nat
      BY <1>1, <3>1
    <3>3. m + (q - i) - 1 \in Nat /\ m + (q - i) - 1 >= m
      BY <2>6
    <3>4. m + (q - i) - 1 = s[From(p)]
      BY <1>14, <3>1
    <3>. HIDE DEF From, New
    <3>. QED
      BY <3>2, <3>3, <3>4
  <2>. QED
    BY <2>3, <2>4, <2>5, <2>6
<1>15. IsInjective(w)
  BY <1>10, <1>14 DEF IsInjective
<1>16. ASSUME count > 0 PROVE w[i + 1] = m
  <2>1. i + 1 \in i + 1 .. i + count /\ m + ((i + 1) - i) - 1 = m
    BY <1>16
  <2>. QED
    BY <1>12, <2>1
<1>17. ASSUME count = 0, NEW p \in 1 .. n PROVE w[p] = s[p]
  <2>1. p \in 1 .. i \/ (p \in i + count + 1 .. n + count /\ p - count = p)
    BY <1>1, <1>17
  <2>. QED
    BY <1>11, <1>13, <2>1
<1>. QED
  BY <1>9, <1>10, <1>15, <1>16, <1>17 DEF w, n, E

(***************************************************************************)
(* Steps that change a value                                               *)
(***************************************************************************)

\* An array of distinct elements is a value.
LEMMA HoldsArray ==
    ASSUME NEW E, NEW s \in Seq(E), IsInjective(s)
    PROVE  HoldsElements(<<"array", s>>, E) /\ IsArray(<<"array", s>>, E)
BY FourKinds DEF IsArray

\* An object of distinct elements is a value.
LEMMA HoldsObject ==
    ASSUME NEW E, NEW f, DOMAIN f \subseteq Keys, \A k \in DOMAIN f : f[k] \in E,
           IsInjective(f)
    PROVE  HoldsElements(<<"object", f>>, E) /\ IsObject(<<"object", f>>, E)
BY FourKinds DEF IsObject

\* null is a value.
LEMMA HoldsNull ==
    ASSUME NEW E
    PROVE  HoldsElements(<<"null">>, E) /\ IsNull(<<"null">>)
BY FourKinds DEF IsNull

\* What it is to sit in an array.
LEMMA SitsInArray ==
    ASSUME NEW v, NEW E, IsArray(v, E), NEW at, NEW e
    PROVE  Sits(v, at, e) <=>
               \/ at = Len(v[2]) /\ e = None
               \/ at \in 0 .. Len(v[2]) - 1 /\ e = v[2][at + 1]
<1>1. v[1] = "array" /\ EndOf(v) = Len(v[2])
  BY ArrayIs
<1>. QED
  BY <1>1 DEF Sits

\* What it is to sit in an object.
LEMMA SitsInObject ==
    ASSUME NEW v, NEW E, IsObject(v, E), NEW at, NEW e
    PROVE  Sits(v, at, e) <=>
               \/ at = EndKey /\ e = None
               \/ at \in DOMAIN v[2] /\ e = v[2][at]
<1>1. v[1] = "object" /\ EndOf(v) = EndKey
  BY ObjectIs
<1>. QED
  BY <1>1 DEF Sits

\* What it is to sit in null or in a primitive value.
LEMMA SitsInPlain ==
    ASSUME NEW v, NEW E, IsNull(v) \/ IsPrimitive(v, E), NEW at, NEW e
    PROVE  /\ v[1] \in {"null", "primitive"} /\ KindOf(v) = "primitive"
           /\ Sits(v, at, e) <=>
               \/ at = 1 /\ e = None
               \/ v[1] = "primitive" /\ at = 0 /\ e = v[2]
<1>1. v[1] \in {"null", "primitive"} /\ EndOf(v) = 1 /\ KindOf(v) = "primitive"
  BY NullIs, PrimitiveIs
<1>. QED
  BY <1>1 DEF Sits

\* The iterators of the slots in gone die; the others stay.
Dropped(gone) == [t \in Slots |-> IF t \in gone THEN Dead ELSE it[t]]

\* A step that gives one value new contents and makes no iterator.
LEMMA DroppedInv ==
    ASSUME IInv, NEW n \in Names, NEW w, NEW new \in Nat, next <= new,
           HoldsElements(w, 1 .. new - 1),
           val' = [val EXCEPT ![n] = w], next' = new,
           NEW gone, it' = Dropped(gone),
           \A t \in Slots \ gone : Kept(it[t], n, w)
    PROVE  IInv'
<1>1. it \in [Slots -> Iterators]
  BY ElementNumbers
<1>2. it' \in [Slots -> Iterators]
  BY <1>1, DeadIs DEF Dropped
<1>3. \A s \in Slots : ~it'[s].live \/ (it'[s] = it[s] /\ Kept(it[s], n, w))
  <2>1. \A s \in Slots : it'[s] = IF s \in gone THEN Dead ELSE it[s]
    BY DEF Dropped
  <2>. QED
    BY <2>1, DeadIs
<1>. QED
  BY <1>2, <1>3, Replaced

\* A step that gives one value new contents and makes one iterator, the
\* result of the operation.
LEMMA RemadeInv ==
    ASSUME IInv, NEW n \in Names, NEW w, NEW new \in Nat, next <= new,
           HoldsElements(w, 1 .. new - 1),
           val' = [val EXCEPT ![n] = w], next' = new,
           NEW gone, NEW s \in Slots, NEW r \in Iterators,
           r.within = n, Fits(r, w),
           it' = [Dropped(gone) EXCEPT ![s] = r],
           \A t \in Slots \ gone : Kept(it[t], n, w)
    PROVE  IInv'
<1>1. it \in [Slots -> Iterators]
  BY ElementNumbers
<1>2. Dropped(gone) \in [Slots -> Iterators]
  BY <1>1, DeadIs DEF Dropped
<1>3. /\ it' \in [Slots -> Iterators] /\ it'[s] = r
      /\ \A t \in Slots : t # s => it'[t] = Dropped(gone)[t]
  BY <1>2
<1>4. \A t \in Slots : Dropped(gone)[t] = IF t \in gone THEN Dead ELSE it[t]
  BY DEF Dropped
<1>5. \A t \in Slots : \/ ~it'[t].live
                       \/ it'[t].within = n /\ Fits(it'[t], w)
                       \/ it'[t] = it[t] /\ Kept(it[t], n, w)
  BY <1>3, <1>4, DeadIs
<1>. QED
  BY <1>3, <1>5, Replaced

\* A valid iterator sits in the value in whose storage it is.
LEMMA LiveSits ==
    ASSUME IInv, NEW n \in Names, NEW t \in Slots, it[t].live, it[t].within = n
    PROVE  it[t].kind = KindOf(val[n]) /\ Sits(val[n], it[t].at, it[t].elem)
BY DEF IInv, IteratorsFit, Fits

\* erase keeps the invariant when the iterators left valid still fit, and the
\* result sits in what is kept.
LEMMA Erased ==
    ASSUME IInv, NEW n \in Names, NEW s \in Slots, NEW keep, NEW at, NEW e, NEW gone,
           HoldsElements(keep, Made), Sits(keep, at, e),
           val' = [val EXCEPT ![n] = keep], UNCHANGED next,
           it' = [Dropped(gone) EXCEPT ![s] = Iterator(n, keep, at, e)],
           \A t \in Slots \ gone : Kept(it[t], n, keep)
    PROVE  IInv'
<1>1. Made = 1 .. next - 1 /\ Made \subseteq Nat /\ next \in Nat
  BY ElementNumbers DEF Made
<1>. DEFINE r == Iterator(n, keep, at, e)
<1>2. r \in Iterators /\ r.within = n /\ Fits(r, keep)
  BY <1>1, NewIterator
<1>. HIDE DEF r
<1>3. it' = [Dropped(gone) EXCEPT ![s] = r] /\ next' = next /\ next <= next
  BY <1>1 DEF r
<1>4. HoldsElements(keep, 1 .. next - 1)
  BY <1>1
<1>. QED
  BY <1>1, <1>2, <1>3, <1>4, RemadeInv

\* The iterator behind a usable one sits in the value, at another element.
LEMMA NextSits ==
    ASSUME IInv, NEW s \in Slots, Usable(it[s]), it[s].elem # None,
           NEW v, v = val[it[s].object]
    PROVE  /\ Sits(v, Incremented(v, it[s].at), After(v, it[s].elem))
           /\ After(v, it[s].elem) # it[s].elem
<1>1. HoldsElements(v, Made) /\ None \notin Made
  BY UsableIs, ElementNumbers
<1>2. PICK i \in 1 .. CountOf(v) : it[s].at = Place(v, i) /\ it[s].elem = ElemAt(v, i)
  BY UsablePlace
<1>3. CountOf(v) \in Nat /\ Leads(v, i) /\ After(v, ElemAt(v, i)) = ElemAt(v, i + 1)
  BY <1>1, PlacesLead, Neighbours
<1>4. i + 1 \in 1 .. CountOf(v) + 1
  BY <1>3
<1>5. Sits(v, Place(v, i + 1), ElemAt(v, i + 1))
  BY <1>1, <1>4, SitsAtPlace
<1>6. Sits(v, Incremented(v, it[s].at), After(v, it[s].elem))
  BY <1>2, <1>3, <1>5 DEF Leads
<1>7. ElemAt(v, i + 1) # ElemAt(v, i)
  <2>1. ElementsOf(v) \in Seq(Made) /\ IsInjective(ElementsOf(v))
    BY <1>1, ElementsDistinct
  <2>2. DOMAIN ElementsOf(v) = 1 .. CountOf(v)
    BY <2>1, SeqFacts DEF CountOf
  <2>3. ElemAt(v, i) = ElementsOf(v)[i] /\ ElemAt(v, i) # None
    BY <1>1, <1>3, Neighbours DEF ElemAt
  <2>4. CASE i + 1 = CountOf(v) + 1
    BY <2>3, <2>4 DEF ElemAt
  <2>5. CASE i + 1 # CountOf(v) + 1
    <3>1. i + 1 \in 1 .. CountOf(v) /\ ElemAt(v, i + 1) = ElementsOf(v)[i + 1]
      BY <1>3, <1>4, <2>5 DEF ElemAt
    <3>2. i # i + 1
      BY <1>3
    <3>. QED
      BY <2>1, <2>2, <2>3, <3>1, <3>2 DEF IsInjective
  <2>. QED
    BY <2>4, <2>5
<1>. QED
  BY <1>2, <1>3, <1>6, <1>7

(***************************************************************************)
(* erase                                                                   *)
(***************************************************************************)

\* The kind of a value, by its type.
LEMMA KindCases ==
    ASSUME NEW v, NEW E, HoldsElements(v, E)
    PROVE  /\ v[1] \in {"null", "primitive", "array", "object"}
           /\ v[1] = "null" => IsNull(v)
           /\ v[1] = "primitive" => IsPrimitive(v, E)
           /\ v[1] = "array" => IsArray(v, E)
           /\ v[1] = "object" => IsObject(v, E)
BY FourKinds, NullIs, PrimitiveIs, ArrayIs, ObjectIs

\* erase of some members of an object.
LEMMA EraseKeys ==
    ASSUME IInv, NEW n \in Names, NEW s \in Slots, IsObject(val[n], Made),
           NEW D, D \subseteq DOMAIN val[n][2], NEW at, NEW e,
           (at = EndKey /\ e = None) \/ (at \in D /\ e = val[n][2][at]),
           NEW gone,
           \A t \in Slots \ gone :
              it[t].within = n => it[t].at \in D \/ it[t].at \notin DOMAIN val[n][2],
           val' = [val EXCEPT ![n] = <<"object", [k \in D |-> val[n][2][k]]>>],
           UNCHANGED next,
           it' = [Dropped(gone) EXCEPT ![s] =
                     Iterator(n, <<"object", [k \in D |-> val[n][2][k]]>>, at, e)]
    PROVE  IInv'
<1>. DEFINE f == [k \in D |-> val[n][2][k]]
            keep == <<"object", f>>
            g == val[n][2]
<1>1. /\ DOMAIN g \subseteq Keys /\ IsInjective(g) /\ KindOf(val[n]) = "object"
      /\ \A k \in DOMAIN g : g[k] \in Made
  BY ObjectIs
<1>2. /\ DOMAIN f = D /\ DOMAIN f \subseteq Keys /\ \A k \in D : f[k] = g[k]
  BY <1>1
<1>3. IsInjective(f) /\ \A k \in DOMAIN f : f[k] \in Made
  BY <1>1, <1>2 DEF IsInjective
<1>. HIDE DEF f
<1>4. HoldsElements(keep, Made) /\ IsObject(keep, Made)
  BY <1>2, <1>3, HoldsObject
<1>5. keep[2] = f /\ keep[1] = "object" /\ KindOf(keep) = "object"
  BY DEF KindOf
<1>6. Sits(keep, at, e)
  BY <1>2, <1>4, <1>5, SitsInObject
<1>7. ASSUME NEW t \in Slots \ gone PROVE Kept(it[t], n, keep)
  <2>1. SUFFICES ASSUME it[t].live, it[t].within = n PROVE Fits(it[t], keep)
    BY DEF Kept
  <2>2. it[t].kind = "object" /\ Sits(val[n], it[t].at, it[t].elem)
    BY <1>1, <2>1, LiveSits
  <2>3. \/ it[t].at = EndKey /\ it[t].elem = None
        \/ it[t].at \in DOMAIN g /\ it[t].elem = g[it[t].at]
    BY <2>2, SitsInObject
  <2>4. it[t].at \in D \/ it[t].at \notin DOMAIN g
    BY <2>1
  <2>5. Sits(keep, it[t].at, it[t].elem)
    BY <1>2, <1>4, <1>5, <2>3, <2>4, SitsInObject
  <2>. QED
    BY <1>5, <2>2, <2>5 DEF Fits
<1>8. /\ val' = [val EXCEPT ![n] = keep]
      /\ it' = [Dropped(gone) EXCEPT ![s] = Iterator(n, keep, at, e)]
  BY DEF f
<1>9. \A t \in Slots \ gone : Kept(it[t], n, keep)
  BY <1>7
<1>. HIDE DEF keep
<1>. QED
  BY <1>4, <1>6, <1>8, <1>9, Erased

\* erase of a range of an array.
LEMMA EraseCut ==
    ASSUME IInv, NEW n \in Names, NEW s \in Slots, IsArray(val[n], Made),
           NEW i \in Nat, NEW j \in Nat, i <= j, j <= Len(val[n][2]), NEW e,
           e = IF j = Len(val[n][2]) THEN None ELSE val[n][2][j + 1],
           NEW gone,
           \A t \in Slots \ gone : it[t].within = n => ~(it[t].at >= i),
           val' = [val EXCEPT ![n] = <<"array", Cut(val[n][2], i, j)>>],
           UNCHANGED next,
           it' = [Dropped(gone) EXCEPT ![s] =
                     Iterator(n, <<"array", Cut(val[n][2], i, j)>>, i, e)]
    PROVE  IInv'
<1>. DEFINE q == val[n][2]
            w == Cut(q, i, j)
            keep == <<"array", w>>
            len == Len(q)
<1>1. q \in Seq(Made) /\ len \in Nat /\ IsInjective(q) /\ KindOf(val[n]) = "array"
  BY ArrayIs
<1>2. /\ w \in Seq(Made) /\ IsInjective(w) /\ Len(w) = len - (j - i)
      /\ \A p \in 1 .. i : w[p] = q[p]
      /\ \A p \in i + 1 .. len - (j - i) : w[p] = q[p + (j - i)]
  <2>1. j <= Len(q)
    OBVIOUS
  <2>. HIDE DEF q, len
  <2>2. q \in Seq(Made) /\ IsInjective(q) /\ len = Len(q)
    BY <1>1 DEF len
  <2>3. /\ w \in Seq(Made) /\ IsInjective(w) /\ Len(w) = Len(q) - (j - i)
        /\ \A p \in 1 .. i : w[p] = q[p]
        /\ \A p \in i + 1 .. Len(q) - (j - i) : w[p] = q[p + (j - i)]
    BY <2>1, <2>2, CutIs
  <2>. QED
    BY <2>2, <2>3
<1>. HIDE DEF w
<1>3. HoldsElements(keep, Made) /\ IsArray(keep, Made)
  BY <1>2, HoldsArray
<1>4. keep[2] = w /\ KindOf(keep) = "array"
  BY DEF KindOf
<1>5. Sits(keep, i, e)
  <2>1. CASE j = len
    <3>1. i = Len(w) /\ e = None
      BY <1>1, <1>2, <2>1
    <3>. QED
      BY <1>3, <1>4, <3>1, SitsInArray
  <2>2. CASE j # len
    <3>1. /\ i + 1 \in i + 1 .. len - (j - i) /\ (i + 1) + (j - i) = j + 1
          /\ i \in 0 .. Len(w) - 1
      BY <1>1, <1>2, <2>2
    <3>2. e = w[i + 1]
      BY <1>2, <2>2, <3>1
    <3>. QED
      BY <1>3, <1>4, <3>1, <3>2, SitsInArray
  <2>. QED
    BY <2>1, <2>2
<1>6. ASSUME NEW t \in Slots \ gone PROVE Kept(it[t], n, keep)
  <2>1. SUFFICES ASSUME it[t].live, it[t].within = n PROVE Fits(it[t], keep)
    BY DEF Kept
  <2>2. it[t].kind = "array" /\ Sits(val[n], it[t].at, it[t].elem)
    BY <1>1, <2>1, LiveSits
  <2>3. \/ it[t].at = len /\ it[t].elem = None
        \/ it[t].at \in 0 .. len - 1 /\ it[t].elem = q[it[t].at + 1]
    BY <2>2, SitsInArray
  <2>4. PICK x \in Nat : x = it[t].at /\ x < i
    BY <1>1, <2>1, <2>3
  <2>5. x + 1 \in 1 .. i /\ x \in 0 .. Len(w) - 1 /\ x # len
    BY <1>1, <1>2, <2>4
  <2>6. it[t].elem = w[x + 1]
    BY <1>2, <2>3, <2>4, <2>5
  <2>7. Sits(keep, it[t].at, it[t].elem)
    BY <1>3, <1>4, <2>4, <2>5, <2>6, SitsInArray
  <2>. QED
    BY <1>4, <2>2, <2>7 DEF Fits
<1>7. /\ val' = [val EXCEPT ![n] = keep]
      /\ it' = [Dropped(gone) EXCEPT ![s] = Iterator(n, keep, i, e)]
  BY DEF w
<1>. HIDE DEF keep
<1>. QED
  BY <1>3, <1>5, <1>6, <1>7, Erased

\* erase of a primitive value, which leaves null.
LEMMA ErasePrimitive ==
    ASSUME IInv, NEW n \in Names, NEW s \in Slots, IsPrimitive(val[n], Made),
           NEW gone, gone = {t \in Slots : it[t].within = n /\ it[t].at = 0},
           val' = [val EXCEPT ![n] = <<"null">>], UNCHANGED next,
           it' = [Dropped(gone) EXCEPT ![s] = Iterator(n, <<"null">>, 1, None)]
    PROVE  IInv'
<1>. DEFINE keep == <<"null">>
<1>1. HoldsElements(keep, Made) /\ IsNull(keep)
  BY HoldsNull
<1>2. KindOf(keep) = "primitive" /\ Sits(keep, 1, None)
  BY <1>1, SitsInPlain
<1>3. ASSUME NEW t \in Slots \ gone PROVE Kept(it[t], n, keep)
  <2>1. SUFFICES ASSUME it[t].live, it[t].within = n PROVE Fits(it[t], keep)
    BY DEF Kept
  <2>2. it[t].kind = KindOf(val[n]) /\ Sits(val[n], it[t].at, it[t].elem)
    BY <2>1, LiveSits
  <2>3. KindOf(val[n]) = "primitive" /\ (it[t].at = 0 \/ (it[t].at = 1 /\ it[t].elem = None))
    <3>. DEFINE v == val[n]
                at == it[t].at
                e == it[t].elem
    <3>1. IsPrimitive(v, Made) /\ Sits(v, at, e)
      BY <2>2
    <3>. HIDE DEF v, at, e
    <3>2. v[1] = "primitive" /\ KindOf(v) = "primitive" /\ EndOf(v) = 1
      BY <3>1, PrimitiveIs
    <3>3. KindOf(v) = "primitive" /\ (at = 0 \/ (at = 1 /\ e = None))
      BY <3>1, <3>2 DEF Sits
    <3>. QED
      BY <3>3 DEF v, at, e
  <2>4. it[t].at = 1 /\ it[t].elem = None
    BY <2>1, <2>3
  <2>. QED
    BY <1>2, <2>2, <2>3, <2>4 DEF Fits
<1>. HIDE DEF keep
<1>4. /\ val' = [val EXCEPT ![n] = keep]
      /\ it' = [Dropped(gone) EXCEPT ![s] = Iterator(n, keep, 1, None)]
  BY DEF keep
<1>. QED
  BY <1>1, <1>2, <1>3, <1>4, Erased

\* The element after one of an array.
LEMMA ArrayAfter ==
    ASSUME IInv, NEW v, IsArray(v, Made), NEW p \in 0 .. Len(v[2]) - 1
    PROVE  After(v, v[2][p + 1]) =
               IF p + 1 = Len(v[2]) THEN None ELSE v[2][(p + 1) + 1]
<1>1. /\ ElementsOf(v) = v[2] /\ CountOf(v) = Len(v[2]) /\ Len(v[2]) \in Nat
      /\ HoldsElements(v, Made) /\ None \notin Made
  BY ArrayIs, FourKinds, ElementNumbers DEF CountOf
<1>2. p + 1 \in 1 .. Len(v[2]) /\ p + 1 # Len(v[2]) + 1
  BY <1>1
<1>3. PICK i \in 1 .. CountOf(v) : i = p + 1
  BY <1>1, <1>2
<1>4. ElemAt(v, i) = v[2][i] /\ After(v, ElemAt(v, i)) = ElemAt(v, i + 1)
  BY <1>1, <1>2, <1>3, Neighbours DEF ElemAt
<1>5. i + 1 = CountOf(v) + 1 <=> p + 1 = Len(v[2])
  BY <1>1, <1>3
<1>. QED
  BY <1>1, <1>3, <1>4, <1>5 DEF ElemAt

\* erase(pos) keeps the invariant.
LEMMA EraseInv ==
    ASSUME IInv, NEW n \in Names, NEW s \in Slots, Erase(n, s), ~UNCHANGED iteratorVars
    PROVE  IInv'
<1>. DEFINE v == val[n]
            i == it[s]
<1>1. Usable(i) /\ i.object = n /\ v[1] # "null"
  BY DEF Erase, Fails
<1>2. /\ HoldsElements(v, Made) /\ Sits(v, i.at, i.elem) /\ i.at \in Nat
  BY <1>1, UsableIs
<1>3. CASE v[1] = "primitive"
  <2>. DEFINE gone == {t \in Slots : it[t].within = n /\ it[t].at = 0}
  <2>1. IsPrimitive(v, Made)
    BY <1>2, <1>3, KindCases
  <2>2. EraseElements(n, s, <<"null">>, 1, None, LAMBDA j : j.at = 0)
    BY <1>1, <1>3 DEF Erase, Fails
  <2>3. it' = [Dropped(gone) EXCEPT ![s] = Iterator(n, <<"null">>, 1, None)]
    BY <2>2 DEF EraseElements, Invalidate, Dropped
  <2>4. val' = [val EXCEPT ![n] = <<"null">>] /\ UNCHANGED next
    BY <2>2 DEF EraseElements
  <2>. QED
    BY <2>1, <2>3, <2>4, ErasePrimitive
<1>4. CASE v[1] = "object"
  <2>. DEFINE D == DOMAIN v[2] \ {i.at}
              at == Incremented(v, i.at)
              e == After(v, i.elem)
              keep == <<"object", [k \in D |-> v[2][k]]>>
              gone == {t \in Slots : it[t].within = n /\ it[t].at = i.at}
  <2>1. IsObject(v, Made)
    BY <1>2, <1>4, KindCases
  <2>2. i.elem # None /\ EraseElements(n, s, keep, at, e, LAMBDA j : j.at = i.at)
    BY <1>1, <1>4 DEF Erase, Fails
  <2>3. it' = [Dropped(gone) EXCEPT ![s] = Iterator(n, keep, at, e)]
    BY <2>2 DEF EraseElements, Invalidate, Dropped
  <2>4. val' = [val EXCEPT ![n] = keep] /\ UNCHANGED next
    BY <2>2 DEF EraseElements
  <2>5. Sits(v, at, e) /\ e # i.elem
    BY <1>1, <2>2, NextSits
  <2>6. i.elem = v[2][i.at]
    BY <1>2, <2>1, <2>2, SitsInObject
  <2>7. (at = EndKey /\ e = None) \/ (at \in D /\ e = v[2][at])
    <3>. HIDE DEF at, e, v, i
    <3>1. (at = EndKey /\ e = None) \/ (at \in DOMAIN v[2] /\ e = v[2][at])
      <4>1. v[1] = "object" /\ EndOf(v) = EndKey
        BY <2>1, ObjectIs
      <4>. QED
        BY <2>5, <4>1 DEF Sits
    <3>. QED
      BY <2>5, <2>6, <3>1
  <2>8. \A t \in Slots \ gone :
           it[t].within = n => it[t].at \in D \/ it[t].at \notin DOMAIN v[2]
    OBVIOUS
  <2>9. D \subseteq DOMAIN v[2]
    OBVIOUS
  <2>. HIDE DEF D, at, e, gone
  <2>. QED
    BY <2>1, <2>3, <2>4, <2>7, <2>8, <2>9, EraseKeys
<1>5. CASE v[1] = "array"
  <2>. DEFINE e == After(v, i.elem)
              keep == <<"array", RemoveAt(v[2], i.at + 1)>>
              gone == {t \in Slots : it[t].within = n /\ it[t].at >= i.at}
  <2>1. IsArray(v, Made) /\ Len(v[2]) \in Nat
    BY <1>2, <1>5, KindCases, ArrayIs
  <2>2. i.elem # None /\ EraseElements(n, s, keep, i.at, e, LAMBDA j : j.at >= i.at)
    BY <1>1, <1>5 DEF Erase, Fails
  <2>3. it' = [Dropped(gone) EXCEPT ![s] = Iterator(n, keep, i.at, e)]
    BY <2>2 DEF EraseElements, Invalidate, Dropped
  <2>4. val' = [val EXCEPT ![n] = keep] /\ UNCHANGED next
    BY <2>2 DEF EraseElements
  <2>5. i.at \in 0 .. Len(v[2]) - 1 /\ i.elem = v[2][i.at + 1]
    BY <1>2, <2>1, <2>2, SitsInArray
  <2>6. PICK a \in Nat : a = i.at /\ a + 1 \in Nat /\ a <= a + 1 /\ a + 1 <= Len(v[2])
    BY <2>1, <2>5
  <2>7. e = IF a + 1 = Len(v[2]) THEN None ELSE v[2][(a + 1) + 1]
    BY <2>1, <2>5, <2>6, ArrayAfter
  <2>8. keep = <<"array", Cut(v[2], a, a + 1)>>
    <3>1. (a + 1) - 1 = a
      OBVIOUS
    <3>. QED
      BY <2>6, <3>1 DEF RemoveAt, Cut
  <2>9. \A t \in Slots \ gone : it[t].within = n => ~(it[t].at >= a)
    BY <2>6
  <2>10. /\ val' = [val EXCEPT ![n] = <<"array", Cut(v[2], a, a + 1)>>]
         /\ it' = [Dropped(gone) EXCEPT ![s] =
                      Iterator(n, <<"array", Cut(v[2], a, a + 1)>>, a, e)]
    BY <2>3, <2>4, <2>6, <2>8
  <2>. HIDE DEF e, keep, gone
  <2>11. PICK b \in Nat : b = a + 1
    BY <2>6
  <2>12. /\ a <= b /\ b <= Len(v[2])
         /\ e = IF b = Len(v[2]) THEN None ELSE v[2][b + 1]
    BY <2>6, <2>7, <2>11
  <2>13. /\ val' = [val EXCEPT ![n] = <<"array", Cut(v[2], a, b)>>]
         /\ it' = [Dropped(gone) EXCEPT ![s] =
                      Iterator(n, <<"array", Cut(v[2], a, b)>>, a, e)]
    BY <2>10, <2>11
  <2>14. IInv /\ n \in Names /\ s \in Slots /\ a \in Nat /\ b \in Nat /\ UNCHANGED next
    BY <2>4
  <2>. QED
    BY ONLY <2>1, <2>9, <2>12, <2>13, <2>14, EraseCut
<1>. QED
  BY <1>1, <1>2, <1>3, <1>4, <1>5, KindCases

\* erase(first, last) keeps the invariant.
LEMMA EraseRangeInv ==
    ASSUME IInv, NEW n \in Names, NEW s \in Slots, NEW t \in Slots,
           EraseRange(n, s, t), ~UNCHANGED iteratorVars
    PROVE  IInv'
<1>. DEFINE v == val[n]
            i == it[s]
            j == it[t]
<1>1. Usable(i) /\ Usable(j) /\ i.object = n /\ j.object = n /\ v[1] # "null"
  BY DEF EraseRange, Fails
<1>2. /\ HoldsElements(v, Made) /\ Sits(v, i.at, i.elem) /\ i.at \in Nat
      /\ Sits(v, j.at, j.elem) /\ j.at \in Nat
  BY <1>1, UsableIs
<1>3. CASE v[1] = "primitive"
  <2>. DEFINE gone == {x \in Slots : it[x].within = n /\ it[x].at = 0}
  <2>1. IsPrimitive(v, Made)
    BY <1>2, <1>3, KindCases
  <2>2. EraseElements(n, s, <<"null">>, 1, None, LAMBDA x : x.at = 0)
    BY <1>1, <1>3 DEF EraseRange, Fails
  <2>3. it' = [Dropped(gone) EXCEPT ![s] = Iterator(n, <<"null">>, 1, None)]
    BY <2>2 DEF EraseElements, Invalidate, Dropped
  <2>4. val' = [val EXCEPT ![n] = <<"null">>] /\ UNCHANGED next
    BY <2>2 DEF EraseElements
  <2>. QED
    BY <2>1, <2>3, <2>4, ErasePrimitive
<1>4. CASE v[1] = "object"
  <2>. DEFINE D == {k \in DOMAIN v[2] : k < i.at \/ k >= j.at}
              keep == <<"object", [k \in D |-> v[2][k]]>>
              gone == {x \in Slots : it[x].within = n /\ it[x].at >= i.at /\ it[x].at < j.at}
  <2>1. IsObject(v, Made) /\ DOMAIN v[2] \subseteq Keys
    BY <1>2, <1>4, KindCases, ObjectIs
  <2>2. EraseElements(n, s, keep, j.at, j.elem, LAMBDA x : x.at >= i.at /\ x.at < j.at)
    BY <1>1, <1>4 DEF EraseRange, Fails
  <2>3. it' = [Dropped(gone) EXCEPT ![s] = Iterator(n, keep, j.at, j.elem)]
    BY <2>2 DEF EraseElements, Invalidate, Dropped
  <2>4. val' = [val EXCEPT ![n] = keep] /\ UNCHANGED next
    BY <2>2 DEF EraseElements
  <2>5. \/ j.at = EndKey /\ j.elem = None
        \/ j.at \in DOMAIN v[2] /\ j.elem = v[2][j.at]
    <3>. HIDE DEF v, i, j
    <3>1. v[1] = "object" /\ EndOf(v) = EndKey
      BY <2>1, ObjectIs
    <3>. QED
      BY <1>2, <3>1 DEF Sits
  <2>6. \/ j.at = EndKey /\ j.elem = None
        \/ j.at \in D /\ j.elem = v[2][j.at]
    BY <1>2, <2>5
  <2>7. \A k \in DOMAIN v[2] : k \in Nat
    BY <2>1, KeysFinite
  <2>8. \A x \in Slots \ gone :
           it[x].within = n => it[x].at \in D \/ it[x].at \notin DOMAIN v[2]
    BY <1>2, <2>7
  <2>9. D \subseteq DOMAIN v[2]
    OBVIOUS
  <2>. HIDE DEF D, gone
  <2>. QED
    BY <2>1, <2>3, <2>4, <2>6, <2>8, <2>9, EraseKeys
<1>5. CASE v[1] = "array"
  <2>. DEFINE keep == <<"array", Cut(v[2], i.at, j.at)>>
              gone == {x \in Slots : it[x].within = n /\ it[x].at >= i.at}
  <2>1. IsArray(v, Made) /\ Len(v[2]) \in Nat
    BY <1>2, <1>5, KindCases, ArrayIs
  <2>2. i.at <= j.at /\ EraseElements(n, s, keep, i.at, j.elem, LAMBDA x : x.at >= i.at)
    BY <1>1, <1>5 DEF EraseRange, Fails, Cut
  <2>3. it' = [Dropped(gone) EXCEPT ![s] = Iterator(n, keep, i.at, j.elem)]
    BY <2>2 DEF EraseElements, Invalidate, Dropped
  <2>4. val' = [val EXCEPT ![n] = keep] /\ UNCHANGED next
    BY <2>2 DEF EraseElements
  <2>5. \/ j.at = Len(v[2]) /\ j.elem = None
        \/ j.at \in 0 .. Len(v[2]) - 1 /\ j.elem = v[2][j.at + 1]
    BY <1>2, <2>1, SitsInArray
  <2>6. /\ j.at <= Len(v[2])
        /\ j.elem = IF j.at = Len(v[2]) THEN None ELSE v[2][j.at + 1]
    BY <2>1, <2>5
  <2>7. \A x \in Slots \ gone : it[x].within = n => ~(it[x].at >= i.at)
    OBVIOUS
  <2>. HIDE DEF gone
  <2>. QED
    BY <1>2, <2>1, <2>2, <2>3, <2>4, <2>6, <2>7, EraseCut
<1>. QED
  BY <1>1, <1>2, <1>3, <1>4, <1>5, KindCases

(***************************************************************************)
(* insert and push_back of elements                                        *)
(***************************************************************************)

\* A step that gives one value new contents and invalidates all iterators
\* into it.
LEMMA RefilledInv ==
    ASSUME IInv, NEW n \in Names, NEW w, NEW new \in Nat, next <= new,
           HoldsElements(w, 1 .. new - 1),
           val' = [val EXCEPT ![n] = w], next' = new, it' = Invalidate(n, Always)
    PROVE  IInv'
<1>. DEFINE gone == {t \in Slots : it[t].within = n}
<1>1. it' = Dropped(gone)
  BY DEF Invalidate, Always, Dropped
<1>2. \A t \in Slots \ gone : Kept(it[t], n, w)
  BY DEF Kept
<1>. HIDE DEF gone
<1>. QED
  BY <1>1, <1>2, DroppedInv

\* The same, with a result.
LEMMA RefilledAtInv ==
    ASSUME IInv, NEW n \in Names, NEW w, NEW new \in Nat, next <= new,
           HoldsElements(w, 1 .. new - 1),
           val' = [val EXCEPT ![n] = w], next' = new,
           NEW s \in Slots, NEW r \in Iterators, r.within = n, Fits(r, w),
           it' = [Invalidate(n, Always) EXCEPT ![s] = r]
    PROVE  IInv'
<1>. DEFINE gone == {t \in Slots : it[t].within = n}
<1>1. it' = [Dropped(gone) EXCEPT ![s] = r]
  BY DEF Invalidate, Always, Dropped
<1>2. \A t \in Slots \ gone : Kept(it[t], n, w)
  BY DEF Kept
<1>. HIDE DEF gone
<1>. QED
  BY <1>1, <1>2, RemadeInv

\* insert(pos, ...) keeps the invariant: the result is at the first new
\* element, or still at pos for none.
LEMMA InsertInv ==
    ASSUME IInv, NEW n \in Names, NEW s \in Slots, NEW count \in 0 .. 2,
           Insert(n, s, count), ~UNCHANGED iteratorVars
    PROVE  IInv'
<1>. DEFINE v == val[n]
            q == v[2]
            i == it[s]
            a == i.at
            w == Grown(q, a, next, count)
            e == IF count = 0 THEN i.elem ELSE next
            r == Iterator(n, v, a, e)
            new == next + count
<1>1. Usable(i) /\ i.object = n /\ v[1] = "array" /\ InsertElements(n, s, count)
  BY DEF Insert, Fails
<1>2. /\ val' = [val EXCEPT ![n] = <<"array", w>>] /\ next' = new
      /\ it' = [Invalidate(n, Always) EXCEPT ![s] = r]
  BY <1>1 DEF InsertElements, Grown, Newly
<1>3. HoldsElements(v, Made) /\ Sits(v, a, i.elem) /\ a \in Nat
  BY <1>1, UsableIs
<1>4. next \in Nat /\ next >= 1 /\ Made = 1 .. next - 1
  BY ElementNumbers DEF Made
<1>5. /\ IsArray(v, Made) /\ q \in Seq(1 .. next - 1) /\ Len(q) \in Nat /\ IsInjective(q)
      /\ KindOf(v) = "array"
  BY <1>1, <1>3, <1>4, KindCases, ArrayIs
<1>6. \/ a = Len(q) /\ i.elem = None
      \/ a \in 0 .. Len(q) - 1 /\ i.elem = q[a + 1]
  <2>. HIDE DEF a, i, v
  <2>. QED
    BY <1>3, <1>5, SitsInArray
<1>7. a <= Len(q) /\ count \in Nat
  BY <1>5, <1>6
<1>. HIDE DEF v, q, i, a
<1>8. /\ w \in Seq(1 .. next + count - 1) /\ IsInjective(w) /\ Len(w) = Len(q) + count
      /\ count > 0 => w[a + 1] = next
      /\ count = 0 => \A p \in 1 .. Len(q) : w[p] = q[p]
  <2>1. /\ next \in Nat /\ next >= 1 /\ count \in Nat /\ q \in Seq(1 .. next - 1)
        /\ IsInjective(q) /\ a \in Nat /\ a <= Len(q)
    BY <1>3, <1>4, <1>5, <1>7
  <2>2. w \in Seq(1 .. next + count - 1) /\ IsInjective(w) /\ Len(w) = Len(q) + count
    BY ONLY <2>1, GrownIs
  <2>3. count > 0 => w[a + 1] = next
    BY ONLY <2>1, GrownIs
  <2>4. count = 0 => \A p \in 1 .. Len(q) : w[p] = q[p]
    BY ONLY <2>1, GrownIs
  <2>. QED
    BY <2>2, <2>3, <2>4
<1>9. new \in Nat /\ next <= new /\ new - 1 = next + count - 1
  BY <1>4, <1>7
<1>10. (\/ a = Len(w) /\ e = None
        \/ a \in 0 .. Len(w) - 1 /\ e = w[a + 1])
  <2>1. CASE count = 0
    <3>1. Len(w) = Len(q) /\ e = i.elem /\ \A p \in 1 .. Len(q) : w[p] = q[p]
      BY <1>5, <1>8, <2>1
    <3>2. a \in 0 .. Len(q) - 1 => a + 1 \in 1 .. Len(q)
      BY <1>3, <1>5
    <3>. QED
      BY <1>6, <3>1, <3>2
  <2>2. CASE count # 0
    <3>1. count > 0 /\ e = next
      BY <1>7, <2>2
    <3>2. a \in 0 .. Len(w) - 1
      BY <1>3, <1>5, <1>7, <1>8, <3>1
    <3>. QED
      BY <1>8, <3>1, <3>2
  <2>. QED
    BY <2>1, <2>2
<1>. HIDE DEF w, e
<1>11. HoldsElements(<<"array", w>>, 1 .. new - 1) /\ IsArray(<<"array", w>>, 1 .. new - 1)
  <2>1. w \in Seq(1 .. new - 1)
    BY <1>8, <1>9
  <2>. HIDE DEF new
  <2>. QED
    BY <1>8, <2>1, HoldsArray
<1>12. Sits(<<"array", w>>, a, e) /\ KindOf(<<"array", w>>) = "array"
  <2>1. <<"array", w>>[2] = w
    OBVIOUS
  <2>. QED
    BY <1>10, <1>11, <2>1, SitsInArray DEF KindOf
<1>13. r = Iterator(n, <<"array", w>>, a, e)
  BY <1>5, <1>12 DEF Iterator
<1>14. r \in Iterators /\ r.within = n /\ Fits(r, <<"array", w>>)
  <2>1. 1 .. new - 1 \subseteq Nat
    BY <1>9
  <2>. HIDE DEF new, r
  <2>. QED
    BY <1>11, <1>12, <1>13, <2>1, NewIterator
<1>. HIDE DEF r, new
<1>. QED
  BY <1>2, <1>9, <1>11, <1>14, RefilledAtInv

\* insert at begin() puts the new elements in front.
LEMMA GrownFront ==
    ASSUME NEW m \in Nat, m >= 1, NEW count \in Nat, NEW q \in Seq(1 .. m - 1)
    PROVE  Grown(q, 0, m, count) = Newly(m, count) \o q
<1>1. SubSeq(q, 1, 0) = <<>>
  OBVIOUS
<1>2. SubSeq(q, 0 + 1, Len(q)) = q
  BY SubSeqFull
<1>3. Newly(m, count) \in Seq(1 .. m + count - 1)
  BY NewlyIs
<1>4. <<>> \o Newly(m, count) = Newly(m, count)
  BY <1>3, ConcatEmptySeq
<1>. QED
  BY <1>1, <1>2, <1>4 DEF Grown

\* insert(pos, first, last) keeps the invariant.
LEMMA InsertRangeInv ==
    ASSUME IInv, NEW n \in Names, NEW s \in Slots, NEW t \in Slots,
           InsertRange(n, s, t), ~UNCHANGED iteratorVars
    PROVE  IInv'
<1>. DEFINE v == val[n]
            q == v[2]
            count == it[t].at - it[s].at
            w == Newly(next, count) \o q
            new == next + count
<1>1. /\ Usable(it[s]) /\ Usable(it[t]) /\ v[1] = "array" /\ it[s].at <= it[t].at
      /\ val' = [val EXCEPT ![n] = <<"array", w>>]
      /\ it' = Invalidate(n, Always) /\ next' = new
  BY DEF InsertRange, Fails, Newly
<1>2. it[s].at \in Nat /\ it[t].at \in Nat
  BY <1>1, UsableIs
<1>3. count \in Nat
  BY <1>1, <1>2
<1>4. next \in Nat /\ next >= 1 /\ Made = 1 .. next - 1 /\ HoldsElements(v, Made)
  BY ElementNumbers DEF Made
<1>5. q \in Seq(1 .. next - 1) /\ Len(q) \in Nat /\ IsInjective(q)
  BY <1>1, <1>4, KindCases, ArrayIs
<1>. HIDE DEF v, q, count
<1>6. w = Grown(q, 0, next, count)
  BY <1>3, <1>4, <1>5, GrownFront
<1>7. w \in Seq(1 .. next + count - 1) /\ IsInjective(w)
  <2>1. 0 \in Nat /\ 0 <= Len(q)
    BY <1>5
  <2>. HIDE DEF w
  <2>. QED
    BY <1>3, <1>4, <1>5, <1>6, <2>1, GrownIs
<1>8. new \in Nat /\ next <= new /\ new - 1 = next + count - 1
  BY <1>3, <1>4
<1>9. w \in Seq(1 .. new - 1)
  BY <1>7, <1>8
<1>. HIDE DEF w, new
<1>10. HoldsElements(<<"array", w>>, 1 .. new - 1)
  BY <1>7, <1>9, HoldsArray
<1>. QED
  BY <1>1, <1>8, <1>10, RefilledInv

\* push_back(val) keeps the invariant.
LEMMA PushBackInv ==
    ASSUME IInv, NEW n \in Names, PushBack(n), ~UNCHANGED iteratorVars
    PROVE  IInv'
<1>. DEFINE v == val[n]
            q == IF v[1] = "null" THEN <<>> ELSE v[2]
            w == Append(q, next)
            new == next + 1
<1>1. /\ v[1] \in {"null", "array"} /\ val' = [val EXCEPT ![n] = <<"array", w>>]
      /\ it' = Invalidate(n, Always) /\ next' = new
  BY DEF PushBack, Fails
<1>2. next \in Nat /\ next >= 1 /\ Made = 1 .. next - 1 /\ HoldsElements(v, Made)
  BY ElementNumbers DEF Made
<1>3. q \in Seq(1 .. next - 1) /\ IsInjective(q)
  <2>1. CASE v[1] = "null"
    BY <2>1 DEF IsInjective
  <2>2. CASE v[1] = "array"
    BY <1>2, <2>2, KindCases, ArrayIs
  <2>. QED
    BY <1>1, <2>1, <2>2
<1>. HIDE DEF v, q
<1>4. /\ Len(q) \in Nat /\ DOMAIN q = 1 .. Len(q)
      /\ \A p \in 1 .. Len(q) : q[p] \in 1 .. next - 1
  BY <1>3, SeqFacts
<1>5. next \in 1 .. new - 1 /\ 1 .. next - 1 \subseteq 1 .. new - 1
  BY <1>2
<1>6. q \in Seq(1 .. new - 1)
  <2>. HIDE DEF new
  <2>. QED
    BY <1>3, <1>5, SeqMonotonic
<1>7. /\ w \in Seq(1 .. new - 1) /\ Len(w) = Len(q) + 1
      /\ \A p \in 1 .. Len(q) : w[p] = q[p]
      /\ w[Len(q) + 1] = next
  <2>. HIDE DEF new
  <2>. QED
    BY <1>5, <1>6, AppendProperties
<1>. HIDE DEF w
<1>8. IsInjective(w)
  <2>1. DOMAIN w = 1 .. Len(q) + 1
    BY <1>7, SeqFacts
  <2>2. \A p \in 1 .. Len(q) : w[p] # next
    BY <1>2, <1>4, <1>7
  <2>3. \A p \in 1 .. Len(q) + 1 : p \in 1 .. Len(q) \/ p = Len(q) + 1
    BY <1>4
  <2>. QED
    BY <1>3, <1>4, <1>7, <2>1, <2>2, <2>3 DEF IsInjective
<1>9. new \in Nat /\ next <= new
  BY <1>2
<1>. HIDE DEF new
<1>10. HoldsElements(<<"array", w>>, 1 .. new - 1)
  BY <1>7, <1>8, HoldsArray
<1>. QED
  BY <1>1, <1>9, <1>10, RefilledInv

(***************************************************************************)
(* update, insert and push_back of members                                 *)
(***************************************************************************)

\* An object after the members of another: the members it had keep their
\* elements, and the new ones are distinct.
LEMMA MergedIs ==
    ASSUME NEW v, NEW new, next \in Nat, next >= 1,
           IsObject(v, 1 .. next - 1), new \subseteq Keys, NEW made,
           made = Cardinality(new \ DOMAIN v[2])
    PROVE  /\ made \in Nat
           /\ HoldsElements(Merged(v, new), 1 .. (next + made) - 1)
           /\ IsObject(Merged(v, new), 1 .. (next + made) - 1)
           /\ DOMAIN Merged(v, new)[2] = DOMAIN v[2] \cup new
           /\ \A k \in DOMAIN v[2] : Merged(v, new)[2][k] = v[2][k]
<1>. DEFINE g == v[2]
            D == DOMAIN g
            N == new \ D
            f == [k \in D \cup new |-> IF k \in D THEN g[k] ELSE next + Rank(N, k)]
            E == 1 .. (next + made) - 1
<1>1. /\ D \subseteq Keys /\ N \subseteq Keys /\ IsInjective(g)
      /\ \A k \in D : g[k] \in 1 .. next - 1
  BY ObjectIs
<1>2. Merged(v, new) = <<"object", f>>
  BY DEF Merged, Rank, Below
<1>3. made \in Nat /\ \A k \in N : Rank(N, k) \in Nat /\ Rank(N, k) < made
  <2>. HIDE DEF N
  <2>1. made = Cardinality(N)
    BY DEF N
  <2>. QED
    BY <1>1, <2>1, KeysFinite, RankBounded
<1>4. /\ DOMAIN f = D \cup new /\ D \cup new \subseteq Keys
      /\ \A k \in D : f[k] = g[k]
      /\ \A k \in N : f[k] = next + Rank(N, k)
      /\ \A k \in D \cup new : k \in D \/ k \in N
  BY <1>1
<1>5. \A k, l \in N : Rank(N, k) = Rank(N, l) => k = l
  <2>1. ASSUME NEW k \in N, NEW l \in N, k # l PROVE Rank(N, k) # Rank(N, l)
    <3>. HIDE DEF N
    <3>1. k \in Nat /\ l \in Nat
      BY <1>1, <2>1, KeysFinite
    <3>2. k < l \/ l < k
      BY <2>1, <3>1
    <3>3. Rank(N, k) < Rank(N, l) \/ Rank(N, l) < Rank(N, k)
      BY <1>1, <3>2, RankSteps
    <3>. QED
      BY <1>3, <3>3
  <2>. HIDE DEF N
  <2>. QED
    BY <2>1
<1>. HIDE DEF f, N, g, D
<1>6. \A k \in D : f[k] \in Nat /\ 1 <= f[k] /\ f[k] < next
  BY <1>1, <1>4
<1>7. \A k \in N : f[k] \in Nat /\ next <= f[k] /\ f[k] < next + made
  <2>1. ASSUME NEW k \in N PROVE f[k] \in Nat /\ next <= f[k] /\ f[k] < next + made
    <3>1. PICK x \in Nat : x = Rank(N, k) /\ x < made /\ f[k] = next + x
      BY <1>3, <1>4
    <3>. QED
      BY <1>3, <3>1
  <2>. QED
    BY <2>1
<1>8. ASSUME NEW k \in DOMAIN f PROVE f[k] \in E
  <2>1. f[k] \in Nat /\ 1 <= f[k] /\ f[k] < next + made
    <3>1. k \in D \/ k \in N
      BY <1>4
    <3>2. CASE k \in D
      <4>1. PICK x \in Nat : x = f[k] /\ 1 <= x /\ x < next
        BY <1>6, <3>2
      <4>. QED
        BY <1>3, <4>1
    <3>3. CASE k \in N
      <4>1. PICK x \in Nat : x = f[k] /\ next <= x /\ x < next + made
        BY <1>7, <3>3
      <4>. QED
        BY <1>3, <4>1
    <3>. QED
      BY <3>1, <3>2, <3>3
  <2>. QED
    BY <1>3, <2>1
<1>9. IsInjective(f)
  <2>1. ASSUME NEW k \in D \cup new, NEW l \in D \cup new, f[k] = f[l] PROVE k = l
    <3>1. CASE k \in D /\ l \in D
      BY <1>1, <1>4, <2>1, <3>1 DEF IsInjective, D
    <3>2. CASE k \in N /\ l \in N
      <4>1. next + Rank(N, k) = next + Rank(N, l)
        BY <1>4, <2>1, <3>2
      <4>2. Rank(N, k) = Rank(N, l)
        BY <1>3, <3>2, <4>1
      <4>. QED
        BY <1>5, <3>2, <4>2
    <3>3. CASE k \in D /\ l \in N
      BY <1>6, <1>7, <2>1, <3>3
    <3>4. CASE k \in N /\ l \in D
      BY <1>6, <1>7, <2>1, <3>4
    <3>. QED
      BY <1>4, <3>1, <3>2, <3>3, <3>4
  <2>. QED
    BY <1>4, <2>1 DEF IsInjective
<1>10. DOMAIN f \subseteq Keys
  BY <1>4
<1>. HIDE DEF E
<1>11. HoldsElements(<<"object", f>>, E) /\ IsObject(<<"object", f>>, E)
  BY <1>8, <1>9, <1>10, HoldsObject
<1>12. <<"object", f>>[2] = f
  OBVIOUS
<1>. QED
  BY <1>2, <1>3, <1>4, <1>11, <1>12 DEF E, D, g

\* The empty object.
EmptyObject == <<"object", <<>>>>

\* The empty object is a value.
LEMMA EmptyObjectIs ==
    ASSUME NEW E
    PROVE  HoldsElements(EmptyObject, E) /\ IsObject(EmptyObject, E)
<1>1. DOMAIN <<>> = {}
  OBVIOUS
<1>. QED
  BY <1>1, HoldsObject DEF EmptyObject, IsInjective

\* null made an object is the empty one; any other value stays.
LEMMA EmptiedIs ==
    ASSUME NEW v, NEW E, HoldsElements(v, E)
    PROVE  /\ v[1] = "null" => Emptied(v) = EmptyObject
           /\ v[1] # "null" => Emptied(v) = v
           /\ Emptied(v)[1] = "object" => IsObject(Emptied(v), E)
<1>1. CASE v[1] = "null"
  BY <1>1, EmptyObjectIs DEF Emptied, EmptyObject
<1>2. CASE v[1] # "null"
  <2>1. Emptied(v) = v
    BY <1>2 DEF Emptied
  <2>. QED
    BY <1>2, <2>1, KindCases
<1>. QED
  BY <1>1, <1>2

\* The iterators of an object stay where they are when members are added.
LEMMA MembersKept ==
    ASSUME IInv, NEW n \in Names, NEW E, IsObject(val[n], Made), NEW w, IsObject(w, E),
           DOMAIN val[n][2] \subseteq DOMAIN w[2],
           \A k \in DOMAIN val[n][2] : w[2][k] = val[n][2][k]
    PROVE  \A t \in Slots : Kept(it[t], n, w)
<1>1. SUFFICES ASSUME NEW t \in Slots, it[t].live, it[t].within = n PROVE Fits(it[t], w)
  BY DEF Kept
<1>. DEFINE v == val[n]
            at == it[t].at
            e == it[t].elem
<1>2. it[t].kind = KindOf(v) /\ Sits(v, at, e) /\ IsObject(v, Made)
  BY <1>1, LiveSits
<1>3. DOMAIN v[2] \subseteq DOMAIN w[2] /\ \A k \in DOMAIN v[2] : w[2][k] = v[2][k]
  OBVIOUS
<1>. HIDE DEF v, at, e
<1>4. KindOf(v) = "object" /\ KindOf(w) = "object"
  BY <1>2, ObjectIs
<1>5. \/ at = EndKey /\ e = None
      \/ at \in DOMAIN v[2] /\ e = v[2][at]
  BY <1>2, SitsInObject
<1>6. \/ at = EndKey /\ e = None
      \/ at \in DOMAIN w[2] /\ e = w[2][at]
  BY <1>3, <1>5
<1>7. Sits(w, at, e)
  BY <1>6, SitsInObject
<1>. QED
  BY <1>2, <1>4, <1>7 DEF Fits, at, e

\* To drop no iterator is to change none.
LEMMA NoneDropped ==
    ASSUME IInv PROVE it = Dropped({})
<1>1. it \in [Slots -> Iterators]
  BY ElementNumbers
<1>. QED
  BY <1>1 DEF Dropped

\* Adding members to an object, or to null, keeps the invariant.
LEMMA MergeInv ==
    ASSUME IInv, NEW n \in Names, NEW v, v = Emptied(val[n]), v[1] = "object",
           NEW new, new \subseteq Keys, MergeInto(n, v, new)
    PROVE  IInv'
<1>. DEFINE made == Cardinality(new \ DOMAIN v[2])
            w == Merged(v, new)
            m == next + made
<1>1. next \in Nat /\ next >= 1 /\ Made = 1 .. next - 1 /\ HoldsElements(val[n], Made)
  BY ElementNumbers DEF Made
<1>2. IsObject(v, 1 .. next - 1)
  <2>1. IsObject(v, Made)
    BY <1>1, EmptiedIs
  <2>. QED
    BY <1>1, <2>1
<1>3. /\ val' = [val EXCEPT ![n] = w] /\ next' = m
      /\ it' = IF val[n][1] = "null" THEN Invalidate(n, Always) ELSE it
  BY DEF MergeInto
<1>4. /\ made \in Nat /\ HoldsElements(w, 1 .. m - 1) /\ IsObject(w, 1 .. m - 1)
      /\ DOMAIN w[2] = DOMAIN v[2] \cup new
      /\ \A k \in DOMAIN v[2] : w[2][k] = v[2][k]
  BY <1>1, <1>2, MergedIs
<1>5. m \in Nat /\ next <= m
  BY <1>1, <1>4
<1>. HIDE DEF w, m
<1>6. CASE val[n][1] = "null"
  <2>1. it' = Invalidate(n, Always)
    BY <1>3, <1>6
  <2>. QED
    BY <1>3, <1>4, <1>5, <2>1, RefilledInv
<1>7. CASE val[n][1] # "null"
  <2>1. v = val[n] /\ it' = it
    BY <1>1, <1>3, <1>7, EmptiedIs
  <2>2. \A t \in Slots : Kept(it[t], n, w)
    <3>1. IsObject(val[n], Made) /\ DOMAIN val[n][2] \subseteq DOMAIN w[2]
      BY <1>1, <1>2, <1>4, <2>1
    <3>2. \A k \in DOMAIN val[n][2] : w[2][k] = val[n][2][k]
      BY <1>4, <2>1
    <3>. QED
      BY <1>4, <3>1, <3>2, MembersKept
  <2>3. it' = Dropped({})
    BY <2>1, NoneDropped
  <2>4. \A t \in Slots \ {} : Kept(it[t], n, w)
    BY <2>2
  <2>. QED
    BY <1>3, <1>4, <1>5, <2>3, <2>4, DroppedInv
<1>. QED
  BY <1>6, <1>7

\* A failed update keeps the invariant, though null stays an object.
LEMMA FailsEmptiedInv ==
    ASSUME IInv, NEW n \in Names, NEW e, FailsEmptied(n, e), ~UNCHANGED iteratorVars
    PROVE  IInv'
<1>1. /\ next \in Nat /\ next >= 1 /\ Made = 1 .. next - 1 /\ HoldsElements(val[n], Made)
      /\ DOMAIN val = Names
  BY ElementNumbers DEF Made
<1>2. /\ val' = [val EXCEPT ![n] = Emptied(val[n])] /\ next' = next
      /\ it' = IF val[n][1] = "null" THEN Invalidate(n, Always) ELSE it
  BY <1>1 DEF FailsEmptied
<1>3. CASE val[n][1] = "null"
  <2>1. val' = [val EXCEPT ![n] = EmptyObject] /\ it' = Invalidate(n, Always)
    BY <1>1, <1>2, <1>3, EmptiedIs
  <2>2. HoldsElements(EmptyObject, 1 .. next - 1)
    BY EmptyObjectIs
  <2>3. next <= next
    BY <1>1
  <2>. QED
    BY <1>1, <1>2, <2>1, <2>2, <2>3, RefilledInv
<1>4. CASE val[n][1] # "null"
  <2>1. Emptied(val[n]) = val[n] /\ it' = it
    BY <1>2, <1>4 DEF Emptied
  <2>2. \A t \in Slots : Kept(it[t], n, val[n])
    BY LiveSits DEF Kept, Fits
  <2>3. it' = Dropped({}) /\ val' = [val EXCEPT ![n] = val[n]]
    BY <1>2, <2>1, NoneDropped
  <2>4. \A t \in Slots \ {} : Kept(it[t], n, val[n])
    BY <2>2
  <2>5. HoldsElements(val[n], 1 .. next - 1) /\ next <= next
    BY <1>1
  <2>. QED
    BY <1>1, <1>2, <2>3, <2>4, <2>5, DroppedInv
<1>. QED
  BY <1>3, <1>4

\* The keys of an object are keys.
LEMMA ObjectKeys ==
    ASSUME IInv, NEW m \in Names, val[m][1] = "object"
    PROVE  DOMAIN val[m][2] \subseteq Keys
BY ElementNumbers, KindCases, ObjectIs

\* So are those of a range of its members.
LEMMA BetweenKeys ==
    ASSUME IInv, NEW s \in Slots, NEW t \in Slots, Usable(it[s]),
           val[it[s].object][1] = "object"
    PROVE  Between(it[s], it[t]) \subseteq Keys
<1>1. it[s].object \in Names
  BY UsableIs
<1>2. DOMAIN val[it[s].object][2] \subseteq Keys
  BY <1>1, ObjectKeys
<1>. QED
  BY <1>2 DEF Between

\* insert(first, last) keeps the invariant.
LEMMA InsertMembersInv ==
    ASSUME IInv, NEW n \in Names, NEW s \in Slots, NEW t \in Slots,
           InsertMembers(n, s, t), ~UNCHANGED iteratorVars
    PROVE  IInv'
<1>1. /\ Usable(it[s]) /\ val[n][1] = "object" /\ val[it[s].object][1] = "object"
      /\ MergeInto(n, val[n], Between(it[s], it[t]))
  BY DEF InsertMembers, Fails
<1>2. val[n] = Emptied(val[n])
  BY <1>1 DEF Emptied
<1>3. Between(it[s], it[t]) \subseteq Keys
  BY <1>1, BetweenKeys
<1>. QED
  BY <1>1, <1>2, <1>3, MergeInv

\* update(j) keeps the invariant.
LEMMA UpdateInv ==
    ASSUME IInv, NEW n \in Names, NEW other \in Names, Update(n, other),
           ~UNCHANGED iteratorVars
    PROVE  IInv'
<1>. DEFINE v == Emptied(val[n])
            j == IF other = n THEN v ELSE val[other]
<1>1. CASE v[1] # "object" \/ j[1] # "object"
  <2>1. FailsEmptied(n, "type_error.312")
    BY <1>1 DEF Update
  <2>. QED
    BY <2>1, FailsEmptiedInv
<1>2. CASE v[1] = "object" /\ j[1] = "object"
  <2>1. MergeInto(n, v, DOMAIN j[2])
    BY <1>2 DEF Update
  <2>2. DOMAIN j[2] \subseteq Keys
    <3>1. CASE other = n
      BY <1>2, <3>1, ElementNumbers, EmptiedIs, ObjectIs
    <3>2. CASE other # n
      BY <1>2, <3>2, ObjectKeys
    <3>. QED
      BY <3>1, <3>2
  <2>. QED
    BY <1>2, <2>1, <2>2, MergeInv
<1>. QED
  BY <1>1, <1>2

\* update(first, last) keeps the invariant.
LEMMA UpdateRangeInv ==
    ASSUME IInv, NEW n \in Names, NEW s \in Slots, NEW t \in Slots,
           UpdateRange(n, s, t), ~UNCHANGED iteratorVars
    PROVE  IInv'
<1>. DEFINE v == Emptied(val[n])
<1>1. CASE \E e : FailsEmptied(n, e)
  BY <1>1, FailsEmptiedInv
<1>2. CASE ~\E e : FailsEmptied(n, e)
  <2>1. /\ Usable(it[s]) /\ v[1] = "object" /\ val[it[s].object][1] = "object"
        /\ MergeInto(n, v, Between(it[s], it[t]))
    BY <1>2 DEF UpdateRange
  <2>2. Between(it[s], it[t]) \subseteq Keys
    BY <2>1, BetweenKeys
  <2>. QED
    BY <2>1, <2>2, MergeInv
<1>. QED
  BY <1>1, <1>2

\* push_back(pair) keeps the invariant.
LEMMA PushMemberInv ==
    ASSUME IInv, NEW n \in Names, NEW key \in 1 .. MaxKey, PushMember(n, key),
           ~UNCHANGED iteratorVars
    PROVE  IInv'
<1>1. val[n][1] \in {"null", "object"} /\ MergeInto(n, Emptied(val[n]), {key})
  BY DEF PushMember, Fails
<1>2. Emptied(val[n])[1] = "object"
  BY <1>1 DEF Emptied
<1>3. {key} \subseteq Keys
  BY DEF Keys
<1>. QED
  BY <1>1, <1>2, <1>3, MergeInv

(***************************************************************************)
(* emplace, clear, swap; the theorem                                       *)
(***************************************************************************)

\* emplace keeps the invariant.
LEMMA EmplaceInv ==
    ASSUME IInv, NEW n \in Names, NEW s \in Slots, NEW key \in 1 .. MaxKey,
           Emplace(n, s, key), ~UNCHANGED iteratorVars
    PROVE  IInv'
<1>. DEFINE v == Emptied(val[n])
            D == DOMAIN v[2]
            made == Cardinality({key} \ D)
            w == Merged(v, {key})
            m == next + made
            r == Iterator(n, w, key, w[2][key])
            base == IF val[n][1] = "null" THEN Invalidate(n, Always) ELSE it
<1>1. /\ v[1] = "object" /\ val' = [val EXCEPT ![n] = w]
      /\ it' = [base EXCEPT ![s] = r]
      /\ next' = IF key \in D THEN next ELSE next + 1
  BY DEF Emplace, Fails
<1>2. next \in Nat /\ next >= 1 /\ Made = 1 .. next - 1 /\ HoldsElements(val[n], Made)
  BY ElementNumbers DEF Made
<1>3. IsObject(v, 1 .. next - 1)
  <2>1. IsObject(v, Made)
    BY <1>1, <1>2, EmptiedIs
  <2>. QED
    BY <1>2, <2>1
<1>4. {key} \subseteq Keys
  BY DEF Keys
<1>5. /\ made \in Nat /\ HoldsElements(w, 1 .. m - 1) /\ IsObject(w, 1 .. m - 1)
      /\ DOMAIN w[2] = D \cup {key}
      /\ \A k \in D : w[2][k] = v[2][k]
  <2>. HIDE DEF v
  <2>. QED
    BY <1>2, <1>3, <1>4, MergedIs
<1>6. next' = m
  <2>1. CASE key \in D
    <3>1. {key} \ D = {}
      BY <2>1
    <3>2. made = 0
      BY <3>1, FS_EmptySet
    <3>. QED
      BY <1>1, <1>2, <2>1, <3>2
  <2>2. CASE key \notin D
    <3>1. {key} \ D = {key}
      BY <2>2
    <3>2. made = 1
      BY <3>1, FS_Singleton
    <3>. QED
      BY <1>1, <2>2, <3>2
  <2>. QED
    BY <2>1, <2>2
<1>7. m \in Nat /\ next <= m /\ 1 .. m - 1 \subseteq Nat
  BY <1>2, <1>5
<1>. HIDE DEF w, m, v, made
<1>8. Sits(w, key, w[2][key])
  BY <1>5, SitsInObject
<1>9. r \in Iterators /\ r.within = n /\ Fits(r, w)
  BY <1>5, <1>7, <1>8, NewIterator
<1>. HIDE DEF r
<1>10. CASE val[n][1] = "null"
  <2>1. it' = [Invalidate(n, Always) EXCEPT ![s] = r]
    BY <1>1, <1>10
  <2>. QED
    BY <1>1, <1>5, <1>6, <1>7, <1>9, <2>1, RefilledAtInv
<1>11. CASE val[n][1] # "null"
  <2>1. v = val[n]
    BY <1>2, <1>11, EmptiedIs DEF v
  <2>2. \A t \in Slots : Kept(it[t], n, w)
    <3>1. IsObject(val[n], Made) /\ DOMAIN val[n][2] \subseteq DOMAIN w[2]
      BY <1>2, <1>3, <1>5, <2>1
    <3>2. \A k \in DOMAIN val[n][2] : w[2][k] = val[n][2][k]
      BY <1>5, <2>1
    <3>. QED
      BY <1>5, <3>1, <3>2, MembersKept
  <2>3. it' = [Dropped({}) EXCEPT ![s] = r]
    BY <1>1, <1>11, NoneDropped
  <2>4. PICK gone : it' = [Dropped(gone) EXCEPT ![s] = r] /\ gone = {}
    BY <2>3
  <2>5. \A t \in Slots \ gone : Kept(it[t], n, w)
    BY <2>2
  <2>6. /\ val' = [val EXCEPT ![n] = w] /\ next' = m /\ HoldsElements(w, 1 .. m - 1)
        /\ it' = [Dropped(gone) EXCEPT ![s] = r]
        /\ IInv /\ n \in Names /\ s \in Slots /\ m \in Nat /\ next <= m
    BY <1>1, <1>5, <1>6, <1>7, <2>4
  <2>. QED
    BY ONLY <1>9, <2>5, <2>6, RemadeInv
<1>. QED
  BY <1>10, <1>11

\* A value after clear.
Cleared(v) == IF v[1] \in {"array", "object"} THEN <<v[1], <<>>>> ELSE v

\* clear keeps the invariant.
LEMMA ClearInv ==
    ASSUME IInv, NEW n \in Names, Clear(n)
    PROVE  IInv'
<1>. DEFINE v == val[n]
            w == Cleared(v)
            gone == {t \in Slots : it[t].within = n /\ (it[t].kind = "array" \/ (it[t].kind = "object" /\ it[t].elem # None))}
<1>1. /\ next \in Nat /\ Made = 1 .. next - 1 /\ HoldsElements(v, Made)
      /\ DOMAIN val = Names /\ next <= next
  BY ElementNumbers DEF Made
<1>2. val' = [val EXCEPT ![n] = w] /\ next' = next
  BY <1>1 DEF Clear, Cleared
<1>3. it' = Dropped(gone)
  BY DEF Clear, Invalidate, Dropped
<1>4. HoldsElements(w, 1 .. next - 1) /\ \A t \in Slots \ gone : Kept(it[t], n, w)
  <2>1. CASE v[1] = "array"
    <3>1. w = <<"array", <<>>>>
      BY <2>1 DEF Cleared
    <3>2. <<>> \in Seq(1 .. next - 1) /\ IsInjective(<<>>)
      BY DEF IsInjective
    <3>3. HoldsElements(w, 1 .. next - 1)
      BY <3>1, <3>2, HoldsArray
    <3>4. KindOf(v) = "array"
      BY <2>1 DEF KindOf
    <3>5. \A t \in Slots \ gone : ~(it[t].live /\ it[t].within = n)
      BY <3>4, LiveSits
    <3>. QED
      BY <3>3, <3>5 DEF Kept
  <2>2. CASE v[1] = "object"
    <3>1. w = EmptyObject
      BY <2>2 DEF Cleared, EmptyObject
    <3>2. HoldsElements(w, 1 .. next - 1) /\ IsObject(w, Made)
      BY <3>1, EmptyObjectIs
    <3>3. KindOf(v) = "object" /\ KindOf(w) = "object" /\ IsObject(v, Made)
      BY <1>1, <2>2, <3>2, KindCases, ObjectIs
    <3>4. ASSUME NEW t \in Slots \ gone, it[t].live, it[t].within = n
          PROVE  Fits(it[t], w)
      <4>1. it[t].kind = "object" /\ Sits(v, it[t].at, it[t].elem)
        BY <3>3, <3>4, LiveSits
      <4>2. it[t].elem = None
        BY <3>4, <4>1
      <4>3. it[t].at = EndKey
        <5>1. (it[t].at = EndKey /\ it[t].elem = None) \/ (it[t].at \in DOMAIN v[2] /\ it[t].elem = v[2][it[t].at])
          <6>. HIDE DEF v
          <6>. QED
            BY <3>3, <4>1, SitsInObject
        <5>2. None \notin Made /\ \A k \in DOMAIN v[2] : v[2][k] \in Made
          BY <3>3, ElementNumbers, ObjectIs
        <5>. QED
          BY <4>2, <5>1, <5>2
      <4>4. Sits(w, it[t].at, it[t].elem)
        <5>. HIDE DEF w
        <5>. QED
          BY <3>2, <4>2, <4>3, SitsInObject
      <4>. QED
        BY <3>3, <4>1, <4>4 DEF Fits
    <3>. QED
      BY <3>2, <3>4 DEF Kept
  <2>3. CASE v[1] \notin {"array", "object"}
    <3>1. w = v
      BY <2>3 DEF Cleared
    <3>2. \A t \in Slots : Kept(it[t], n, v)
      BY LiveSits DEF Kept, Fits
    <3>. QED
      BY <1>1, <3>1, <3>2
  <2>. QED
    BY <2>1, <2>2, <2>3
<1>. HIDE DEF w, gone
<1>. QED
  BY <1>1, <1>2, <1>3, <1>4, DroppedInv

\* swap keeps the invariant: a valid iterator moves with the contents it is in.
LEMMA SwapInv ==
    ASSUME IInv, NEW n \in Names, NEW other \in Names, Swap(n, other)
    PROVE  IInv'
<1>. DEFINE Far(x) == IF x = n THEN other ELSE n
<1>1. /\ it \in [Slots -> Iterators] /\ DOMAIN val = Names
      /\ \A m \in Names : HoldsElements(val[m], Made)
  BY ElementNumbers
<1>2. /\ n # other /\ DOMAIN val' = Names /\ val'[n] = val[other] /\ val'[other] = val[n]
      /\ \A m \in Names \ {n, other} : val'[m] = val[m]
      /\ next' = next
  BY <1>1 DEF Swap
<1>3. \A s \in Slots :
         it'[s] = IF it[s].within \notin {n, other} THEN it[s]
                  ELSE IF it[s].elem = None THEN Dead
                  ELSE [it[s] EXCEPT !.within = Far(it[s].within)]
  BY <1>1 DEF Swap, Iterators
<1>4. DOMAIN it' = Slots
  BY DEF Swap
<1>5. ASSUME NEW s \in Slots
      PROVE  it'[s] \in Iterators /\ (it'[s].live => Fits(it'[s], val'[it'[s].within]))
  <2>1. it[s] \in Iterators /\ it[s].within \in Names
    BY <1>1 DEF Iterators
  <2>2. it[s].live => Fits(it[s], val[it[s].within])
    BY DEF IInv, IteratorsFit
  <2>3. CASE it[s].within \notin {n, other}
    BY <1>2, <1>3, <2>1, <2>2, <2>3
  <2>4. CASE it[s].within \in {n, other} /\ it[s].elem = None
    BY <1>3, <2>4, DeadIs
  <2>5. CASE it[s].within \in {n, other} /\ it[s].elem # None
    <3>. DEFINE r == [it[s] EXCEPT !.within = Far(it[s].within)]
    <3>1. it'[s] = r
      BY <1>3, <2>5
    <3>2. /\ r \in Iterators /\ r.within = Far(it[s].within) /\ r.kind = it[s].kind
          /\ r.at = it[s].at /\ r.elem = it[s].elem /\ r.live = it[s].live
      BY <2>1 DEF Iterators
    <3>3. val'[Far(it[s].within)] = val[it[s].within]
      BY <1>2, <2>5
    <3>. HIDE DEF r, Far
    <3>. QED
      BY <2>2, <3>1, <3>2, <3>3 DEF Fits
  <2>. QED
    BY <2>3, <2>4, <2>5
<1>6. TypeOK'
  <2>1. it' \in [Slots -> Iterators]
    <3>1. it' = [s \in Slots |-> it'[s]]
      BY <1>4 DEF Swap
    <3>. QED
      BY <1>5, <3>1
  <2>. QED
    BY <1>2, <2>1 DEF IInv, TypeOK
<1>7. ValuesHold'
  BY <1>1, <1>2 DEF ValuesHold, Made
<1>8. IteratorsFit'
  BY <1>5 DEF IteratorsFit
<1>. QED
  BY <1>6, <1>7, <1>8 DEF IInv

\* A step that changes nothing keeps the invariant.
LEMMA StutterInv ==
    ASSUME IInv, UNCHANGED iteratorVars
    PROVE  IInv'
BY DEF IInv, TypeOK, ValuesHold, Made, IteratorsFit, Fits, Sits, KindOf, EndOf, iteratorVars

\* The invariant is inductive.
LEMMA StepInv == IInv /\ [IteratorNext]_iteratorVars => IInv'
<1>. SUFFICES ASSUME IInv, [IteratorNext]_iteratorVars PROVE IInv'
  OBVIOUS
<1>1. CASE UNCHANGED iteratorVars
  BY <1>1, StutterInv
<1>2. CASE IteratorNext /\ ~UNCHANGED iteratorVars
  <2>1. PICK n \in Names, other \in Names, s \in Slots, t \in Slots :
           \/ Begin(s, n) \/ End(s, n) \/ Increment(s) \/ Decrement(s) \/ Advance(s)
           \/ Erase(n, s) \/ EraseRange(n, s, t)
           \/ \E count \in 0 .. 2 : Insert(n, s, count)
           \/ InsertRange(n, s, t) \/ InsertMembers(n, s, t)
           \/ Update(n, other) \/ UpdateRange(n, s, t)
           \/ PushBack(n)
           \/ \E key \in 1 .. MaxKey : PushMember(n, key) \/ Emplace(n, s, key)
           \/ Clear(n) \/ Swap(n, other)
    BY <1>2 DEF IteratorNext
  <2>2. CASE Begin(s, n)
    BY <2>2, BeginInv
  <2>3. CASE End(s, n)
    BY <2>3, EndInv
  <2>4. CASE Increment(s)
    BY <2>4, IncrementInv
  <2>5. CASE Decrement(s)
    BY <2>5, DecrementInv
  <2>6. CASE Advance(s)
    BY <1>2, <2>6, AdvanceInv
  <2>7. CASE Erase(n, s)
    BY <1>2, <2>7, EraseInv
  <2>8. CASE EraseRange(n, s, t)
    BY <1>2, <2>8, EraseRangeInv
  <2>9. CASE \E count \in 0 .. 2 : Insert(n, s, count)
    BY <1>2, <2>9, InsertInv
  <2>10. CASE InsertRange(n, s, t)
    BY <1>2, <2>10, InsertRangeInv
  <2>11. CASE InsertMembers(n, s, t)
    BY <1>2, <2>11, InsertMembersInv
  <2>12. CASE Update(n, other)
    BY <1>2, <2>12, UpdateInv
  <2>13. CASE UpdateRange(n, s, t)
    BY <1>2, <2>13, UpdateRangeInv
  <2>14. CASE PushBack(n)
    BY <1>2, <2>14, PushBackInv
  <2>15. CASE \E key \in 1 .. MaxKey : PushMember(n, key) \/ Emplace(n, s, key)
    BY <1>2, <2>15, PushMemberInv, EmplaceInv
  <2>16. CASE Clear(n)
    BY <2>16, ClearInv
  <2>17. CASE Swap(n, other)
    BY <2>17, SwapInv
  <2>. QED
    BY <2>1, <2>2, <2>3, <2>4, <2>5, <2>6, <2>7, <2>8, <2>9, <2>10, <2>11, <2>12,
       <2>13, <2>14, <2>15, <2>16, <2>17
<1>. QED
  BY <1>1, <1>2

\* For any number of values and iterators, any keys and any number of
\* elements: through every sequence of erase, insert, update, push_back,
\* emplace, clear and swap, an iterator that the standard library leaves valid
\* and whose m_object still has its type refers to the element it was made
\* for, and a loop over a value meets each of its elements once (json.hpp,
\* iter_impl and the modifiers of basic_json).
THEOREM IteratorsCorrect == IteratorSpec => []IteratorsSound
<1>1. IteratorSpec => []IInv
  BY InitInv, StepInv, PTL DEF IteratorSpec
<1>. QED
  BY <1>1, InvCorrect, PTL

==============================================================================

------------------------------ MODULE ScoringProofs ------------------------------
(***************************************************************************)
(* Proofs about Scoring for every list of options and every objective: the *)
(* sort that ranks the options is a sort, for however many there are, and  *)
(* the ranks it gives are the preferences'.                                *)
(***************************************************************************)
EXTENDS Scoring, FiniteSetTheorems, FunctionTheorems, SequenceTheorems, TLAPS

(* A set of natural numbers that is not empty has a least one. *)
LEMMA LeastNatural ==
  ASSUME NEW T, T \subseteq Nat, T # {}
  PROVE  \E n \in T : \A m \in T : n <= m
<1> DEFINE R == OpToRel(<, Nat)
<1>1. IsWellFoundedOn(R, Nat)
  BY NatLessThanWellFounded
<1> HIDE DEF R
<1>2. PICK n \in T : \A m \in T : <<m, n>> \notin R
  BY <1>1, WFMin
<1>3. \A m \in T : ~(m < n)
  BY <1>2 DEF R, OpToRel
<1> QED BY <1>3

-------------------------------------------------------------------------------
(* The order of the keys. *)

Pair == Int \X Int
Keys(m) == [1..m -> Pair]

LEMMA PairOrder ==
  ASSUME NEW s \in Pair, NEW t \in Pair, NEW u \in Pair
  PROVE  /\ ~PairBefore(s, s)
         /\ PairBefore(s, t) /\ PairBefore(t, u) => PairBefore(s, u)
         /\ PairBefore(s, t) \/ s = t \/ PairBefore(t, s)
BY DEF Pair, PairBefore

(* Two keys that differ do so in a first pair, which decides. *)
LEMMA KeyDecides ==
  ASSUME NEW m \in Nat, NEW k \in Keys(m), NEW l \in Keys(m), k # l
  PROVE  \E i \in 1..m : k[i] # l[i] /\ \A j \in 1..(i - 1) : k[j] = l[j]
<1> DEFINE D == {i \in 1..m : k[i] # l[i]}
<1>1. D # {} /\ D \subseteq Nat
  BY DEF Keys
<1> HIDE DEF D
<1>2. PICK i \in D : \A j \in D : i <= j
  BY <1>1, LeastNatural
<1> QED BY <1>2 DEF D

LEMMA KeyTotal ==
  ASSUME NEW m \in Nat, NEW k \in Keys(m), NEW l \in Keys(m)
  PROVE  KeyBefore(k, l) \/ k = l \/ KeyBefore(l, k)
<1> SUFFICES ASSUME k # l PROVE KeyBefore(k, l) \/ KeyBefore(l, k)
  OBVIOUS
<1>1. PICK i \in 1..m : k[i] # l[i] /\ \A j \in 1..(i - 1) : k[j] = l[j]
  BY KeyDecides
<1>2. k[i] \in Pair /\ l[i] \in Pair /\ DOMAIN k = 1..m /\ DOMAIN l = 1..m
  BY DEF Keys
<1>3. PairBefore(k[i], l[i]) \/ PairBefore(l[i], k[i])
  BY <1>1, <1>2, PairOrder
<1> QED BY <1>1, <1>2, <1>3 DEF KeyBefore

LEMMA KeyTransitive ==
  ASSUME NEW m \in Nat, NEW k \in Keys(m), NEW l \in Keys(m), NEW n \in Keys(m),
         KeyBefore(k, l), KeyBefore(l, n)
  PROVE  KeyBefore(k, n)
<1>1. /\ DOMAIN k = 1..m /\ DOMAIN l = 1..m
      /\ \A i \in 1..m : k[i] \in Pair /\ l[i] \in Pair /\ n[i] \in Pair
  BY DEF Keys
<1>2. PICK a \in 1..m : PairBefore(k[a], l[a]) /\ \A j \in 1..(a - 1) : k[j] = l[j]
  BY <1>1 DEF KeyBefore
<1>3. PICK b \in 1..m : PairBefore(l[b], n[b]) /\ \A j \in 1..(b - 1) : l[j] = n[j]
  BY <1>1 DEF KeyBefore
<1>4. CASE a < b
  <2>1. PairBefore(k[a], n[a]) /\ \A j \in 1..(a - 1) : k[j] = n[j]
    BY <1>2, <1>3, <1>4
  <2> QED BY <1>1, <2>1 DEF KeyBefore
<1>5. CASE b < a
  <2>1. PairBefore(k[b], n[b]) /\ \A j \in 1..(b - 1) : k[j] = n[j]
    BY <1>2, <1>3, <1>5
  <2> QED BY <1>1, <2>1 DEF KeyBefore
<1>6. CASE a = b
  <2>1. PairBefore(k[a], n[a])
    BY <1>1, <1>2, <1>3, <1>6, PairOrder
  <2>2. \A j \in 1..(a - 1) : k[j] = n[j]
    BY <1>2, <1>3, <1>6
  <2> QED BY <1>1, <2>1, <2>2 DEF KeyBefore
<1> QED BY <1>4, <1>5, <1>6

LEMMA KeyIrreflexive ==
  ASSUME NEW m \in Nat, NEW k \in Keys(m)
  PROVE  ~KeyBefore(k, k)
<1>1. \A i \in DOMAIN k : k[i] \in Pair
  BY DEF Keys
<1> QED BY <1>1, PairOrder DEF KeyBefore

-------------------------------------------------------------------------------
(* Sorting. *)

(* Places of a list, each with a key. *)
Keyed(I, key, m) ==
  /\ m \in Nat /\ I \subseteq Nat /\ IsFiniteSet(I)
  /\ \A i \in I : key[i] \in Keys(m)

LEMMA PrecedesOrder ==
  ASSUME NEW I, NEW key, NEW m, Keyed(I, key, m), NEW h \in I, NEW i \in I, NEW j \in I
  PROVE  /\ ~Precedes(key, i, i)
         /\ Precedes(key, h, i) /\ Precedes(key, i, j) => Precedes(key, h, j)
         /\ i = j \/ Precedes(key, i, j) \/ Precedes(key, j, i)
<1>1. /\ key[h] \in Keys(m) /\ key[i] \in Keys(m) /\ key[j] \in Keys(m)
      /\ m \in Nat /\ h \in Nat /\ i \in Nat /\ j \in Nat
  BY DEF Keyed
<1> DEFINE B(x, y) == KeyBefore(key[x], key[y])
<1>2. ~B(h, h) /\ ~B(i, i) /\ ~B(j, j)
  BY <1>1, KeyIrreflexive
<1>3. /\ B(h, i) \/ key[h] = key[i] \/ B(i, h)
      /\ B(i, j) \/ key[i] = key[j] \/ B(j, i)
      /\ B(h, j) \/ key[h] = key[j] \/ B(j, h)
  BY <1>1, KeyTotal
<1>4. /\ B(h, i) /\ B(i, j) => B(h, j)
      /\ B(i, j) /\ B(j, h) => B(i, h)
      /\ B(j, h) /\ B(h, i) => B(j, i)
      /\ B(j, i) /\ B(i, h) => B(j, h)
      /\ B(i, h) /\ B(h, j) => B(i, j)
      /\ B(h, j) /\ B(j, i) => B(h, i)
      /\ ~(B(h, i) /\ B(i, h)) /\ ~(B(i, j) /\ B(j, i)) /\ ~(B(h, j) /\ B(j, h))
  BY <1>1, <1>2, KeyTransitive
<1>5. /\ key[h] = key[i] => (B(h, j) <=> B(i, j)) /\ (B(j, h) <=> B(j, i))
      /\ key[i] = key[j] => (B(h, i) <=> B(h, j)) /\ (B(i, h) <=> B(j, h))
      /\ key[h] = key[j] => (B(h, i) <=> B(j, i)) /\ (B(i, h) <=> B(i, j))
  OBVIOUS
<1>6. \A x, y : Precedes(key, x, y) <=> B(x, y) \/ (~B(y, x) /\ x < y)
  BY DEF Precedes
<1> HIDE DEF B
<1>7. ~Precedes(key, i, i) /\ (i = j \/ Precedes(key, i, j) \/ Precedes(key, j, i))
  BY <1>1, <1>2, <1>6
<1>8. Precedes(key, h, i) /\ Precedes(key, i, j) => Precedes(key, h, j)
  BY <1>1, <1>3, <1>4, <1>5, <1>6
<1> QED BY <1>7, <1>8

Before(I, key, i) == {j \in I : Precedes(key, j, i)}

(* Each element has a place of its own, and those before it one before. *)
LEMMA PlaceFacts ==
  ASSUME NEW I, NEW key, NEW m, Keyed(I, key, m)
  PROVE  /\ Cardinality(I) \in Nat
         /\ \A i \in I : Place(I, key, i) \in 1..Cardinality(I)
         /\ \A i, j \in I : Precedes(key, i, j) <=> Place(I, key, i) < Place(I, key, j)
<1>1. IsFiniteSet(I) /\ Cardinality(I) \in Nat
  BY FS_CardinalityType DEF Keyed
<1>2. ASSUME NEW i \in I
      PROVE  /\ IsFiniteSet(Before(I, key, i)) /\ i \notin Before(I, key, i)
             /\ Cardinality(Before(I, key, i)) \in Nat
             /\ Place(I, key, i) = Cardinality(Before(I, key, i)) + 1
             /\ Place(I, key, i) \in 1..Cardinality(I)
  <2> DEFINE S == Before(I, key, i)
  <2>1. S \in SUBSET I /\ i \notin S
    BY PrecedesOrder DEF Before
  <2>2. IsFiniteSet(S) /\ Cardinality(S) \in Nat
    BY <1>1, <2>1, FS_Subset, FS_CardinalityType
  <2>3. Place(I, key, i) = Cardinality(S) + 1
    BY <2>2 DEF Place, Before
  <2>4. /\ S \union {i} \in SUBSET I
        /\ Cardinality(S \union {i}) = Cardinality(S) + 1
    BY <2>1, <2>2, FS_AddElement
  <2>5. Cardinality(S \union {i}) <= Cardinality(I)
    BY <1>1, <2>4, FS_Subset
  <2> QED BY <1>1, <2>1, <2>2, <2>3, <2>4, <2>5
<1>3. ASSUME NEW i \in I, NEW j \in I, Precedes(key, i, j)
      PROVE  Place(I, key, i) < Place(I, key, j)
  <2> DEFINE S == Before(I, key, i)
             T == Before(I, key, j)
  <2>1. S \union {i} \in SUBSET T
    BY <1>3, PrecedesOrder DEF Before
  <2>2. /\ IsFiniteSet(S) /\ IsFiniteSet(T) /\ i \notin S
        /\ Cardinality(S) \in Nat /\ Cardinality(T) \in Nat
        /\ Place(I, key, i) = Cardinality(S) + 1 /\ Place(I, key, j) = Cardinality(T) + 1
    BY <1>2
  <2> HIDE DEF S, T
  <2>3. Cardinality(S \union {i}) = Cardinality(S) + 1
    BY <2>2, FS_AddElement
  <2>4. Cardinality(S \union {i}) <= Cardinality(T)
    BY <2>1, <2>2, FS_Subset
  <2> QED BY <2>2, <2>3, <2>4
<1>4. ASSUME NEW i \in I, NEW j \in I, Place(I, key, i) < Place(I, key, j)
      PROVE  Precedes(key, i, j)
  <2>1. ~Precedes(key, j, i) /\ i # j
    BY <1>1, <1>2, <1>3, <1>4
  <2> QED BY <2>1, PrecedesOrder
<1> QED BY <1>1, <1>2, <1>3, <1>4

(* No place is free. *)
LEMMA EveryPlaceIsTaken ==
  ASSUME NEW I, NEW key, NEW m, Keyed(I, key, m), NEW k \in 1..Cardinality(I)
  PROVE  \E i \in I : Place(I, key, i) = k
<1> DEFINE n == Cardinality(I)
           f == [i \in I |-> Place(I, key, i)]
<1>1. IsFiniteSet(I) /\ n \in Nat
  BY PlaceFacts DEF Keyed
<1>2. f \in [I -> 1..n]
  BY PlaceFacts
<1>3. ASSUME NEW i \in I, NEW j \in I, f[i] = f[j] PROVE i = j
  <2>1. ~Precedes(key, i, j) /\ ~Precedes(key, j, i)
    BY <1>1, <1>2, <1>3, PlaceFacts
  <2> QED BY <2>1, PrecedesOrder
<1>4. f \in Injection(I, 1..n)
  BY <1>2, <1>3, Fun_IsInj
<1>5. IsFiniteSet(1..n) /\ Cardinality(1..n) = n
  BY <1>1, FS_Interval
<1> HIDE DEF f
<1>6. f \in Surjection(I, 1..n)
  <2> HIDE DEF n
  <2>1. Cardinality(I) = Cardinality(1..n)
    BY <1>5 DEF n
  <2> QED BY <1>4, <1>5, <2>1, FS_Injection
<1>7. \E i \in I : f[i] = k
  BY <1>6 DEF Surjection
<1> QED BY <1>7 DEF f

PlaceOf(I, key, k) == CHOOSE i \in I : Place(I, key, i) = k

(* So sorting moves every element to its place, and nothing else there. *)
LEMMA PlacesMatch ==
  ASSUME NEW I, NEW key, NEW m, Keyed(I, key, m)
  PROVE  /\ \A i \in I : PlaceOf(I, key, Place(I, key, i)) = i
         /\ \A k \in 1..Cardinality(I) :
              PlaceOf(I, key, k) \in I /\ Place(I, key, PlaceOf(I, key, k)) = k
<1>1. \A k \in 1..Cardinality(I) :
        PlaceOf(I, key, k) \in I /\ Place(I, key, PlaceOf(I, key, k)) = k
  BY EveryPlaceIsTaken DEF PlaceOf
<1>2. ASSUME NEW i \in I PROVE PlaceOf(I, key, Place(I, key, i)) = i
  <2> DEFINE j == PlaceOf(I, key, Place(I, key, i))
  <2>1. j \in I /\ Place(I, key, j) = Place(I, key, i) /\ Place(I, key, i) \in Nat
    BY <1>1, PlaceFacts
  <2>2. ~Precedes(key, i, j) /\ ~Precedes(key, j, i)
    BY <2>1, PlaceFacts
  <2> QED BY <2>1, <2>2, PrecedesOrder
<1> QED BY <1>1, <1>2

LEMMA SortedFacts ==
  ASSUME NEW list, NEW I, NEW key, NEW m, Keyed(I, key, m)
  PROVE  /\ Cardinality(I) \in Nat
         /\ DOMAIN Sorted(list, I, key) = 1..Cardinality(I)
         /\ \A k \in 1..Cardinality(I) :
              Sorted(list, I, key)[k] = list[PlaceOf(I, key, k)]
         /\ \A i \in I : Sorted(list, I, key)[Place(I, key, i)] = list[i]
<1>1. \A k \in 1..Cardinality(I) :
        Sorted(list, I, key)[k] = list[PlaceOf(I, key, k)]
  BY DEF Sorted, PlaceOf
<1> QED BY <1>1, PlaceFacts, PlacesMatch DEF Sorted

(* What comes earlier in a sorted list has no greater key. *)
LEMMA SortedAscends ==
  ASSUME NEW I, NEW key, NEW m, Keyed(I, key, m),
         NEW k \in 1..Cardinality(I), NEW l \in 1..Cardinality(I), k < l
  PROVE  ~KeyBefore(key[PlaceOf(I, key, l)], key[PlaceOf(I, key, k)])
<1> DEFINE i == PlaceOf(I, key, k)
           j == PlaceOf(I, key, l)
<1>1. i \in I /\ j \in I /\ Place(I, key, i) = k /\ Place(I, key, j) = l
  BY PlacesMatch
<1>2. ~Precedes(key, j, i)
  BY <1>1, PlaceFacts
<1> QED BY <1>2 DEF Precedes

-------------------------------------------------------------------------------
(* The options of a search, in the order in which they are judged and ranked. *)

LEMMA FunctionsAreLists ==
  ASSUME NEW S, NEW n \in Nat, NEW f \in [1..n -> S]
  PROVE  f \in Seq(S) /\ Len(f) = n
OBVIOUS

IdKey(list, I) == [i \in I |-> <<<<list[i].id, 0>>>>]

LEMMA IdsAreKeys ==
  ASSUME NEW list, IsSearch(list), NEW I, I \subseteq DOMAIN list
  PROVE  Keyed(I, IdKey(list, I), 1)
<1>1. I \subseteq 1..Len(list) /\ Len(list) \in Nat
  BY DEF IsSearch, IsList
<1>2. IsFiniteSet(I) /\ I \subseteq Nat
  <2>1. IsFiniteSet(1..Len(list)) /\ 1..Len(list) \subseteq Nat
    BY <1>1, FS_Interval
  <2> QED BY <1>1, <2>1, FS_Subset
<1>3. ASSUME NEW i \in I PROVE IdKey(list, I)[i] \in Keys(1)
  <2>1. list[i].id \in Nat
    BY DEF IsSearch, IsOption
  <2>2. IdKey(list, I)[i] = <<<<list[i].id, 0>>>>
    BY DEF IdKey
  <2>3. <<list[i].id, 0>> \in Pair
    BY <2>1 DEF Pair
  <2> QED BY <2>2, <2>3 DEF Keys
<1> QED BY <1>2, <1>3 DEF Keyed

LEMMA NumbersMakePairs ==
  ASSUME NEW x \in Int, NEW y \in Int
  PROVE  <<x, y>> \in Pair
BY DEF Pair

LEMMA PrefKeyIsPair ==
  ASSUME NEW q, IsObjective(q), NEW o, IsOption(o), NEW pref
  PROVE  PrefKey(pref, o, q) \in Pair /\ Scarcity(o) \in Pair /\ Neither \in Pair
<1> DEFINE margin == IF Stated(q.deadline) THEN o.arrives - q.deadline.value ELSE 0
           spare == IF o.risk THEN 0 ELSE -1
<1>1. o.cost \in Int /\ margin \in Int /\ spare \in Int /\ -o.seats \in Int /\ 0 \in Int
  <2>1. o.cost \in Nat /\ o.arrives \in Nat /\ o.seats \in Nat
    BY DEF IsOption
  <2>2. Stated(q.deadline) => q.deadline.value \in Nat
    BY DEF IsObjective
  <2> QED BY <2>1, <2>2
<1>2. <<o.cost, 0>> \in Pair /\ Neither \in Pair
  BY <1>1, NumbersMakePairs DEF Neither
<1>3. Scarcity(o) \in Pair
  BY <1>1, NumbersMakePairs DEF Scarcity
<1>4. <<margin, 0>> \in Pair
  BY <1>1, NumbersMakePairs
<1> QED BY <1>2, <1>3, <1>4 DEF PrefKey

LEMMA SortKeyIsKey ==
  ASSUME NEW q, IsObjective(q), NEW o, IsOption(o)
  PROVE  SortKey(o, q) \in Keys(Len(Prefs(q)) + 1) /\ Len(Prefs(q)) + 1 \in Nat
<1>1. Len(Prefs(q)) \in Nat
  BY DEF IsObjective, IsList
<1> QED BY <1>1, PrefKeyIsPair DEF SortKey, Keys

(* Every option of a part of the list is judged once, and no other. *)
LEMMA ByIdFacts ==
  ASSUME NEW list, IsSearch(list), NEW I, I \subseteq DOMAIN list
  PROVE  /\ Cardinality(I) \in Nat
         /\ DOMAIN ById(list, I) = 1..Cardinality(I)
         /\ \A k \in 1..Cardinality(I) :
              IsOption(ById(list, I)[k]) /\ \E i \in I : ById(list, I)[k] = list[i]
         /\ \A i \in I : \E k \in 1..Cardinality(I) : ById(list, I)[k] = list[i]
         /\ \A k, l \in 1..Cardinality(I) :
              ById(list, I)[k].id = ById(list, I)[l].id => k = l
<1> DEFINE key == IdKey(list, I)
<1>1. Keyed(I, key, 1)
  BY IdsAreKeys
<1>2. ById(list, I) = Sorted(list, I, key)
  BY DEF ById, IdKey
<1> HIDE DEF key
<1>3. /\ Cardinality(I) \in Nat
      /\ DOMAIN ById(list, I) = 1..Cardinality(I)
      /\ \A k \in 1..Cardinality(I) :
           /\ PlaceOf(I, key, k) \in I /\ Place(I, key, PlaceOf(I, key, k)) = k
           /\ ById(list, I)[k] = list[PlaceOf(I, key, k)]
      /\ \A i \in I : /\ Place(I, key, i) \in 1..Cardinality(I)
                      /\ ById(list, I)[Place(I, key, i)] = list[i]
  BY <1>1, <1>2, SortedFacts, PlacesMatch, PlaceFacts
<1>4. /\ \A i \in I : IsOption(list[i])
      /\ \A i, j \in I : list[i].id = list[j].id => i = j
  BY DEF IsSearch
<1>5. \A k, l \in 1..Cardinality(I) :
        ById(list, I)[k].id = ById(list, I)[l].id => k = l
  BY <1>3, <1>4
<1>6. \A k \in 1..Cardinality(I) :
        IsOption(ById(list, I)[k]) /\ \E i \in I : ById(list, I)[k] = list[i]
  BY <1>3, <1>4
<1>7. \A i \in I : \E k \in 1..Cardinality(I) : ById(list, I)[k] = list[i]
  BY <1>3
<1> QED BY <1>3, <1>5, <1>6, <1>7

AliveAt(list, q) == {i \in DOMAIN list : Survives(list[i], q)}
DroppedAt(list, q) == {i \in DOMAIN list : ~Survives(list[i], q)}

(* The survivors, each once, in the ascending order of their keys. *)
RankedWell(list, q) ==
  LET r == Survivors(list, q)
      n == Cardinality(AliveAt(list, q))
  IN /\ n \in Nat /\ DOMAIN r = 1..n
     /\ \A k \in 1..n : IsOption(r[k]) /\ \E i \in AliveAt(list, q) : r[k] = list[i]
     /\ \A i \in AliveAt(list, q) : \E k \in 1..n : r[k] = list[i]
     /\ \A k, l \in 1..n : r[k].id = r[l].id => k = l
     /\ \A k, l \in 1..n : k < l => ~KeyBefore(SortKey(r[l], q), SortKey(r[k], q))

LEMMA SurvivorsAreRanked ==
  ASSUME NEW list, IsSearch(list), NEW q, IsObjective(q)
  PROVE  RankedWell(list, q)
<1> DEFINE A == AliveAt(list, q)
           n == Cardinality(A)
           alive == ById(list, A)
           key == [i \in 1..n |-> SortKey(alive[i], q)]
           m == Len(Prefs(q)) + 1
           I == 1..n
           r == Survivors(list, q)
<1>1. A \subseteq DOMAIN list
  BY DEF AliveAt
<1>2. /\ n \in Nat /\ DOMAIN alive = 1..n
      /\ \A k \in 1..n : IsOption(alive[k]) /\ \E i \in A : alive[k] = list[i]
      /\ \A i \in A : \E k \in 1..n : alive[k] = list[i]
      /\ \A k, l \in 1..n : alive[k].id = alive[l].id => k = l
  <2> HIDE DEF A
  <2>1. n \in Nat /\ DOMAIN alive = 1..n
    BY <1>1, ByIdFacts
  <2>2. /\ \A k \in 1..n : IsOption(alive[k]) /\ \E i \in A : alive[k] = list[i]
        /\ \A i \in A : \E k \in 1..n : alive[k] = list[i]
    BY <1>1, ByIdFacts
  <2>3. \A k, l \in 1..n : alive[k].id = alive[l].id => k = l
    BY <1>1, ByIdFacts
  <2> QED BY <2>1, <2>2, <2>3
<1>3. Keyed(I, key, m)
  <2>1. IsFiniteSet(1..n) /\ 1..n \subseteq Nat
    BY <1>2, FS_Interval
  <2>2. \A i \in 1..n : key[i] \in Keys(m)
    BY <1>2, SortKeyIsKey
  <2> QED BY <2>1, <2>2, SortKeyIsKey DEF Keyed
<1>4. Cardinality(I) = n
  BY <1>2, FS_Interval
<1>5. r = Sorted(alive, I, key)
  BY <1>2 DEF Survivors, AliveAt
<1> DEFINE At(k) == PlaceOf(I, key, k)
<1> HIDE DEF alive, A, r, key, n, I
<1>6. /\ DOMAIN r = 1..n
      /\ \A k \in 1..n : r[k] = alive[At(k)] /\ At(k) \in I /\ Place(I, key, At(k)) = k
      /\ \A i \in I : Place(I, key, i) \in 1..n /\ r[Place(I, key, i)] = alive[i]
  BY <1>3, <1>4, <1>5, SortedFacts, PlacesMatch, PlaceFacts
<1>7. I = 1..n
  BY DEF I
<1>8. ASSUME NEW k \in 1..n
      PROVE  /\ IsOption(r[k]) /\ \E i \in A : r[k] = list[i]
             /\ \A l \in 1..n : r[k].id = r[l].id => k = l
  <2>1. At(k) \in 1..n /\ r[k] = alive[At(k)] /\ Place(I, key, At(k)) = k
    BY <1>6, <1>7
  <2>2. ASSUME NEW l \in 1..n, r[k].id = r[l].id PROVE k = l
    <3>1. At(l) \in 1..n /\ r[l] = alive[At(l)] /\ Place(I, key, At(l)) = l
      BY <1>6, <1>7
    <3>2. At(k) = At(l)
      BY <1>2, <2>1, <2>2, <3>1
    <3> QED BY <2>1, <3>1, <3>2
  <2>3. IsOption(alive[At(k)]) /\ \E i \in A : alive[At(k)] = list[i]
    BY <1>2, <2>1
  <2> QED BY <2>1, <2>2, <2>3
<1>9. ASSUME NEW i \in A PROVE \E k \in 1..n : r[k] = list[i]
  <2>1. PICK j \in 1..n : alive[j] = list[i]
    BY <1>2
  <2>2. Place(I, key, j) \in 1..n /\ r[Place(I, key, j)] = alive[j]
    BY <1>6, <1>7
  <2> QED BY <2>1, <2>2
<1>10. \A k, l \in 1..n : k < l => ~KeyBefore(SortKey(r[l], q), SortKey(r[k], q))
  <2> SUFFICES ASSUME NEW k \in 1..n, NEW l \in 1..n, k < l
               PROVE  ~KeyBefore(SortKey(r[l], q), SortKey(r[k], q))
    OBVIOUS
  <2>1. ~KeyBefore(key[At(l)], key[At(k)])
    BY <1>3, <1>4, SortedAscends
  <2>2. key[At(l)] = SortKey(r[l], q) /\ key[At(k)] = SortKey(r[k], q)
    BY <1>6, <1>7 DEF key
  <2> QED BY <2>1, <2>2
<1> QED BY <1>2, <1>6, <1>8, <1>9, <1>10 DEF RankedWell, r, n, A

(* Nothing is lost between the two. *)
LEMMA PartsOfSearch ==
  ASSUME NEW list, IsSearch(list), NEW q
  PROVE  /\ Cardinality(AliveAt(list, q)) \in Nat /\ Cardinality(DroppedAt(list, q)) \in Nat
         /\ Cardinality(DroppedAt(list, q)) + Cardinality(AliveAt(list, q)) = Len(list)
<1> DEFINE A == AliveAt(list, q)
           D == DroppedAt(list, q)
<1>1. DOMAIN list = 1..Len(list) /\ Len(list) \in Nat
  BY DEF IsSearch, IsList
<1>2. IsFiniteSet(DOMAIN list) /\ Cardinality(DOMAIN list) = Len(list)
  <2>1. PICK n \in Nat : n = Len(list)
    BY <1>1
  <2>2. IsFiniteSet(1..n) /\ Cardinality(1..n) = n
    BY FS_Interval
  <2> QED BY <1>1, <2>1, <2>2
<1>3. /\ A \subseteq DOMAIN list /\ D \subseteq DOMAIN list
      /\ DOMAIN list = D \union A /\ D \intersect A = {}
  BY DEF AliveAt, DroppedAt
<1> HIDE DEF A, D
<1>4. IsFiniteSet(A) /\ IsFiniteSet(D) /\ Cardinality(A) \in Nat /\ Cardinality(D) \in Nat
  BY <1>2, <1>3, FS_Subset, FS_CardinalityType
<1>5. Cardinality(D \union A)
        = Cardinality(D) + Cardinality(A) - Cardinality(D \intersect A)
  BY <1>4, FS_Union
<1>6. Cardinality(D \intersect A) = 0
  BY <1>3, FS_EmptySet
<1>7. Cardinality(D) + Cardinality(A) = Len(list)
  BY <1>2, <1>3, <1>4, <1>5, <1>6
<1> QED BY <1>4, <1>7 DEF A, D

-------------------------------------------------------------------------------
(* The run of a scoring. *)

RankOf(list, q, i) == Ranks(Survivors(list, q), q)[i]

OutOf(q, list) ==
  [i \in DOMAIN Dropped(list, q) |-> Eliminated(Dropped(list, q)[i], q)]
KeptOf(q, list) ==
  [i \in DOMAIN Survivors(list, q) |->
     Kept(Survivors(list, q)[i], RankOf(list, q, i),
          FullTie(Ranks(Survivors(list, q), q)))]

LEMMA ScoreParts ==
  ASSUME NEW q, NEW list
  PROVE  Score(q, list) = [scored |-> OutOf(q, list) \o KeptOf(q, list),
                           selected |-> Selected(KeptOf(q, list)),
                           report |-> Report(OutOf(q, list), KeptOf(q, list))]
BY DEF Score, OutOf, KeptOf, RankOf

(* The reason recorded is the first of the checks that failed. *)
LEMMA ReasonFacts ==
  ASSUME NEW o, NEW q, ~Survives(o, q)
  PROVE  \E i \in Failing(o, q) :
           /\ Reason(o, q) = Checks[i] /\ i \in DOMAIN Checks
           /\ \A j \in Failing(o, q) : i <= j
<1>1. DOMAIN Checks = 1..11
  BY DEF Checks
<1>2. Failing(o, q) \subseteq DOMAIN Checks /\ Failing(o, q) # {}
  BY DEF Failing, Survives
<1>3. PICK n \in Failing(o, q) : \A j \in Failing(o, q) : n <= j
  BY <1>1, <1>2, LeastNatural
<1> QED BY <1>2, <1>3 DEF Reason

LEMMA RanksAreNumbers ==
  ASSUME NEW r, NEW n \in Nat, DOMAIN r = 1..n, NEW q, NEW i \in 1..n
  PROVE  Ranks(r, q)[i] \in Nat /\ Ranks(r, q)[i] >= 1
<1> DEFINE C == {j \in 2..i : SortKey(r[j], q) # SortKey(r[j - 1], q)}
<1>1. IsFiniteSet(2..i) /\ C \subseteq 2..i
  BY FS_Interval
<1>2. Ranks(r, q)[i] = 1 + Cardinality(C)
  BY DEF Ranks
<1> HIDE DEF C
<1>3. Cardinality(C) \in Nat
  BY <1>1, FS_Subset, FS_CardinalityType
<1> QED BY <1>2, <1>3

LEMMA ScoreFacts ==
  ASSUME NEW q, IsObjective(q), NEW list, IsSearch(list)
  PROVE  \E d, n \in Nat :
           /\ d = Cardinality(DroppedAt(list, q)) /\ n = Cardinality(AliveAt(list, q))
           /\ d + n = Len(list)
           /\ DOMAIN Dropped(list, q) = 1..d /\ DOMAIN Survivors(list, q) = 1..n
           /\ OutOf(q, list) \in Seq(Entry) /\ Len(OutOf(q, list)) = d
           /\ KeptOf(q, list) \in Seq(Entry) /\ Len(KeptOf(q, list)) = n
           /\ \A k \in 1..d : OutOf(q, list)[k] = Eliminated(Dropped(list, q)[k], q)
           /\ \A k \in 1..n :
                KeptOf(q, list)[k] = Kept(Survivors(list, q)[k], RankOf(list, q, k),
                                          FullTie(Ranks(Survivors(list, q), q)))
<1> DEFINE dropped == Dropped(list, q)
           ranked == Survivors(list, q)
<1>1. PICK d \in Nat, n \in Nat : /\ d = Cardinality(DroppedAt(list, q))
                                  /\ n = Cardinality(AliveAt(list, q))
                                  /\ d + n = Len(list)
  BY PartsOfSearch
<1>2. /\ DOMAIN dropped = 1..d
      /\ \A k \in 1..d : IsOption(dropped[k])
                         /\ \E i \in DroppedAt(list, q) : dropped[k] = list[i]
  <2>1. DroppedAt(list, q) \subseteq DOMAIN list
    BY DEF DroppedAt
  <2>2. dropped = ById(list, DroppedAt(list, q))
    BY DEF Dropped, DroppedAt
  <2> QED BY <1>1, <2>1, <2>2, ByIdFacts
<1>3. DOMAIN ranked = 1..n /\ \A k \in 1..n : IsOption(ranked[k])
  BY <1>1, SurvivorsAreRanked DEF RankedWell
<1>4. ASSUME NEW k \in 1..d PROVE Eliminated(dropped[k], q) \in Entry
  <2>1. ~Survives(dropped[k], q)
    BY <1>2 DEF DroppedAt
  <2>2. Reason(dropped[k], q) \in {Checks[i] : i \in DOMAIN Checks}
    BY <2>1, ReasonFacts
  <2>3. dropped[k].id \in Nat
    BY <1>2 DEF IsOption
  <2> QED BY <2>2, <2>3 DEF Eliminated, Entry
<1>5. ASSUME NEW k \in 1..n
      PROVE  Kept(ranked[k], RankOf(list, q, k), FullTie(Ranks(ranked, q))) \in Entry
  <2>1. ranked[k].id \in Nat
    BY <1>3 DEF IsOption
  <2>2. RankOf(list, q, k) \in Nat
    BY <1>3, RanksAreNumbers DEF RankOf
  <2> QED BY <2>1, <2>2 DEF Kept, Entry
<1> HIDE DEF dropped, ranked
<1>6. OutOf(q, list) \in [1..d -> Entry] /\ KeptOf(q, list) \in [1..n -> Entry]
  BY <1>2, <1>3, <1>4, <1>5 DEF OutOf, KeptOf, dropped, ranked
<1>7. /\ OutOf(q, list) \in Seq(Entry) /\ Len(OutOf(q, list)) = d
      /\ KeptOf(q, list) \in Seq(Entry) /\ Len(KeptOf(q, list)) = n
  BY <1>6, FunctionsAreLists
<1>8. /\ \A k \in 1..d : OutOf(q, list)[k] = Eliminated(Dropped(list, q)[k], q)
      /\ \A k \in 1..n :
           KeptOf(q, list)[k] = Kept(Survivors(list, q)[k], RankOf(list, q, k),
                                     FullTie(Ranks(Survivors(list, q), q)))
  BY <1>2, <1>3 DEF OutOf, KeptOf, dropped, ranked
<1>9. DOMAIN Dropped(list, q) = 1..d /\ DOMAIN Survivors(list, q) = 1..n
  BY <1>2, <1>3 DEF dropped, ranked
<1> QED BY <1>1, <1>7, <1>8, <1>9

-------------------------------------------------------------------------------
(* The ranks of options whose keys ascend. *)

Ascending(r, n, q) ==
  /\ n \in Nat /\ DOMAIN r = 1..n
  /\ \A k \in 1..n : SortKey(r[k], q) \in Keys(Len(Prefs(q)) + 1)
  /\ Len(Prefs(q)) + 1 \in Nat
  /\ \A k, l \in 1..n : k < l => ~KeyBefore(SortKey(r[l], q), SortKey(r[k], q))

(* The places, up to the i-th, where the key changes. *)
Changes(r, q, i) == {j \in 2..i : SortKey(r[j], q) # SortKey(r[j - 1], q)}

LEMMA RankCounts ==
  ASSUME NEW r, NEW n, NEW q, Ascending(r, n, q), NEW i \in 1..n
  PROVE  /\ IsFiniteSet(Changes(r, q, i)) /\ Cardinality(Changes(r, q, i)) \in Nat
         /\ Ranks(r, q)[i] = 1 + Cardinality(Changes(r, q, i))
<1>1. IsFiniteSet(2..i) /\ Changes(r, q, i) \subseteq 2..i
  BY FS_Interval DEF Changes
<1>2. Ranks(r, q)[i] = 1 + Cardinality(Changes(r, q, i))
  BY DEF Ranks, Changes, Ascending
<1> QED BY <1>1, <1>2, FS_Subset, FS_CardinalityType

(* Between two options with one key there is no change. *)
LEMMA EqualKeysShareARank ==
  ASSUME NEW r, NEW n, NEW q, Ascending(r, n, q), NEW i \in 1..n, NEW j \in 1..n,
         i < j, SortKey(r[i], q) = SortKey(r[j], q)
  PROVE  Ranks(r, q)[i] = Ranks(r, q)[j]
<1> DEFINE K(k) == SortKey(r[k], q)
<1>1. ASSUME NEW k \in i..j PROVE K(k) = K(i)
  <2>1. CASE k = i \/ k = j
    BY <2>1
  <2>2. CASE i < k /\ k < j
    <3>1. ~KeyBefore(K(k), K(i)) /\ ~KeyBefore(K(j), K(k))
      BY <2>2 DEF Ascending
    <3>2. K(k) \in Keys(Len(Prefs(q)) + 1) /\ K(i) \in Keys(Len(Prefs(q)) + 1)
      BY <2>2 DEF Ascending
    <3>3. KeyBefore(K(k), K(i)) \/ K(k) = K(i) \/ KeyBefore(K(i), K(k))
      BY <3>2, KeyTotal DEF Ascending
    <3> QED BY <3>1, <3>3
  <2> QED BY <2>1, <2>2
<1>2. ASSUME NEW k \in (i + 1)..j PROVE K(k) = K(k - 1)
  BY <1>1
<1>3. Changes(r, q, i) = Changes(r, q, j)
  BY <1>2 DEF Changes
<1> QED BY <1>3, RankCounts

(* Between two options with different keys there is one. *)
LEMMA LaterKeysRankLower ==
  ASSUME NEW r, NEW n, NEW q, Ascending(r, n, q), NEW i \in 1..n, NEW j \in 1..n,
         i < j, SortKey(r[i], q) # SortKey(r[j], q)
  PROVE  /\ Ranks(r, q)[i] < Ranks(r, q)[j]
         /\ KeyBefore(SortKey(r[i], q), SortKey(r[j], q))
<1> DEFINE K(k) == SortKey(r[k], q)
           T == {k \in i..j : K(k) # K(i)}
<1>1. T \subseteq Nat /\ T # {}
  BY DEF Ascending
<1> HIDE DEF T
<1>2. PICK l \in T : \A k \in T : l <= k
  BY <1>1, LeastNatural
<1>3. l \in (i + 1)..j /\ K(l) # K(i) /\ l - 1 \in i..j /\ l - 1 < l
  BY <1>2 DEF T
<1>4. K(l - 1) = K(i)
  BY <1>2, <1>3 DEF T
<1>5. l \in Changes(r, q, j) /\ l \notin Changes(r, q, i)
  BY <1>3, <1>4 DEF Changes
<1>6. Changes(r, q, i) \subseteq Changes(r, q, j)
  BY DEF Changes
<1> DEFINE S == Changes(r, q, i) \union {l}
<1>7. Cardinality(S) = Cardinality(Changes(r, q, i)) + 1
  BY <1>5, RankCounts, FS_AddElement
<1>8. Cardinality(S) <= Cardinality(Changes(r, q, j))
  <2>1. S \in SUBSET Changes(r, q, j)
    BY <1>5, <1>6
  <2> HIDE DEF S
  <2> QED BY <2>1, RankCounts, FS_Subset
<1>9. Ranks(r, q)[i] < Ranks(r, q)[j]
  BY <1>7, <1>8, RankCounts
<1>10. KeyBefore(K(i), K(j))
  <2>1. ~KeyBefore(K(j), K(i))
    BY DEF Ascending
  <2>2. KeyBefore(K(i), K(j)) \/ K(i) = K(j) \/ KeyBefore(K(j), K(i))
    BY KeyTotal DEF Ascending
  <2> QED BY <2>1, <2>2
<1> QED BY <1>9, <1>10

(* So ranks compare as keys do. *)
LEMMA RanksFollowKeys ==
  ASSUME NEW r, NEW n, NEW q, Ascending(r, n, q), NEW i \in 1..n, NEW j \in 1..n
  PROVE  Ranks(r, q)[i] < Ranks(r, q)[j]
           <=> KeyBefore(SortKey(r[i], q), SortKey(r[j], q))
<1> DEFINE K(k) == SortKey(r[k], q)
<1>0. /\ Ranks(r, q)[i] \in Nat /\ Ranks(r, q)[j] \in Nat
      /\ K(i) \in Keys(Len(Prefs(q)) + 1) /\ Len(Prefs(q)) + 1 \in Nat
  BY RanksAreNumbers DEF Ascending
<1>1. CASE K(i) = K(j)
  <2>1. ~KeyBefore(K(i), K(j))
    BY <1>0, <1>1, KeyIrreflexive
  <2>2. i < j => Ranks(r, q)[i] = Ranks(r, q)[j]
    BY <1>1, EqualKeysShareARank
  <2>3. j < i => Ranks(r, q)[i] = Ranks(r, q)[j]
    BY <1>1, EqualKeysShareARank
  <2> QED BY <1>0, <2>1, <2>2, <2>3
<1>2. CASE K(i) # K(j) /\ i < j
  BY <1>2, LaterKeysRankLower
<1>3. CASE K(i) # K(j) /\ j < i
  <2>1. Ranks(r, q)[j] < Ranks(r, q)[i]
    BY <1>3, LaterKeysRankLower
  <2>2. ~KeyBefore(K(i), K(j))
    BY <1>3 DEF Ascending
  <2> QED BY <1>0, <2>1, <2>2
<1> QED BY <1>1, <1>2, <1>3

(* The ranks start at 1 and none is left out. *)
LEMMA RanksAreDense ==
  ASSUME NEW r, NEW n, NEW q, Ascending(r, n, q), NEW i \in 1..n,
         NEW v \in 1..Ranks(r, q)[i]
  PROVE  Ranks(r, q)[1] = 1 /\ \E k \in 1..n : Ranks(r, q)[k] = v
<1>1. n \in Nat /\ 1 \in 1..n /\ \A k \in 1..n : Ranks(r, q)[k] \in Nat
  BY RanksAreNumbers DEF Ascending
<1>2. Ranks(r, q)[1] = 1
  <2>1. Changes(r, q, 1) = {}
    BY DEF Changes
  <2>2. Ranks(r, q)[1] = 1 + Cardinality(Changes(r, q, 1))
    BY <1>1, RankCounts
  <2> QED BY <2>1, <2>2, FS_EmptySet
<1> DEFINE T == {k \in 1..n : v <= Ranks(r, q)[k]}
<1>3. T \subseteq Nat /\ T # {}
  BY <1>1
<1> HIDE DEF T
<1>4. PICK k \in T : \A l \in T : k <= l
  BY <1>3, LeastNatural
<1>5. k \in 1..n /\ v <= Ranks(r, q)[k]
  BY <1>4 DEF T
<1>6. CASE k = 1
  BY <1>1, <1>2, <1>5, <1>6
<1>7. CASE k # 1
  <2>1. k - 1 \in 1..n /\ k - 1 \notin T
    BY <1>1, <1>4, <1>5, <1>7
  <2>2. Ranks(r, q)[k - 1] < v
    BY <1>1, <2>1 DEF T
  <2>3. Changes(r, q, k) \in SUBSET (Changes(r, q, k - 1) \union {k})
    BY <1>5, <2>1 DEF Changes
  <2> DEFINE S == Changes(r, q, k - 1) \union {k}
  <2>4. k \notin Changes(r, q, k - 1)
    BY <1>5 DEF Changes
  <2>5. /\ IsFiniteSet(S)
        /\ Cardinality(S) = Cardinality(Changes(r, q, k - 1)) + 1
    BY <2>1, <2>4, RankCounts, FS_AddElement
  <2>6. Cardinality(Changes(r, q, k)) <= Cardinality(S)
    <3>1. Changes(r, q, k) \in SUBSET S
      BY <2>3
    <3> HIDE DEF S
    <3> QED BY <2>5, <3>1, FS_Subset
  <2>7. Ranks(r, q)[k] <= Ranks(r, q)[k - 1] + 1
    BY <1>5, <2>1, <2>5, <2>6, RankCounts
  <2> QED BY <1>1, <1>2, <1>5, <2>1, <2>2, <2>7
<1> QED BY <1>2, <1>6, <1>7

-------------------------------------------------------------------------------
(* The keys are the preferences'. *)

LEMMA PairIsBetter ==
  ASSUME IsObjective(objective), NEW a, IsOption(a), NEW b, IsOption(b), NEW pref
  PROVE  PairBefore(PrefKey(pref, a, objective), PrefKey(pref, b, objective))
           <=> Better(pref.name, a, b)
<1>1. /\ a.cost \in Nat /\ a.arrives \in Nat /\ a.seats \in Nat /\ a.risk \in BOOLEAN
      /\ b.cost \in Nat /\ b.arrives \in Nat /\ b.seats \in Nat /\ b.risk \in BOOLEAN
      /\ Stated(objective.deadline) => objective.deadline.value \in Nat
  BY DEF IsOption, IsObjective
<1>2. CASE pref.name = "cost"
  BY <1>1, <1>2 DEF PrefKey, Better, PairBefore
<1>3. CASE pref.name = "arrival_margin"
  BY <1>1, <1>3 DEF PrefKey, Better, PairBefore
<1>4. CASE pref.name = "scarcity"
  BY <1>1, <1>4 DEF PrefKey, Better, PairBefore, Scarcity
<1>5. CASE pref.name \notin {"cost", "arrival_margin", "scarcity"}
  BY <1>5 DEF PrefKey, Better, PairBefore, Neither
<1> QED BY <1>2, <1>3, <1>4, <1>5

LEMMA ScarcityIsBetter ==
  ASSUME NEW a, IsOption(a), NEW b, IsOption(b)
  PROVE  PairBefore(Scarcity(a), Scarcity(b)) <=> Better("scarcity", a, b)
<1>1. /\ a.seats \in Nat /\ a.risk \in BOOLEAN /\ b.seats \in Nat /\ b.risk \in BOOLEAN
  BY DEF IsOption
<1> QED BY <1>1 DEF Better, PairBefore, Scarcity

(* The first preference that separates two options is for a, scarcity being the
   last for all of them. *)
Preferred(a, b) ==
  \E i \in DOMAIN Ordered :
    /\ Better(Ordered[i], a, b)
    /\ \A j \in 1..(i - 1) : ~Better(Ordered[j], a, b) /\ ~Better(Ordered[j], b, a)

(* That is how the keys order them. *)
LEMMA KeyIsPreference ==
  ASSUME IsObjective(objective), NEW a, IsOption(a), NEW b, IsOption(b)
  PROVE  KeyBefore(SortKey(a, objective), SortKey(b, objective)) <=> Preferred(a, b)
<1> DEFINE P == Prefs(objective)
           m == Len(P)
           ka == SortKey(a, objective)
           kb == SortKey(b, objective)
           Same(i) == ~Better(Ordered[i], a, b) /\ ~Better(Ordered[i], b, a)
<1>1. m \in Nat /\ DOMAIN P = 1..m
  BY DEF IsObjective, IsList
<1>2. DOMAIN ka = 1..(m + 1) /\ DOMAIN Ordered = 1..(m + 1)
  BY DEF SortKey, Ordered
<1>3. ASSUME NEW i \in 1..m
      PROVE  /\ PairBefore(ka[i], kb[i]) <=> Better(Ordered[i], a, b)
             /\ ka[i] = kb[i] <=> Same(i)
             /\ Ordered[i] = P[i].name
  <2>1. /\ ka[i] = PrefKey(P[i], a, objective) /\ kb[i] = PrefKey(P[i], b, objective)
        /\ Ordered[i] = P[i].name
    BY <1>1, <1>3 DEF SortKey, Ordered
  <2>2. ka[i] \in Pair /\ kb[i] \in Pair
    BY <2>1, PrefKeyIsPair
  <2>3. /\ PairBefore(ka[i], kb[i]) <=> Better(P[i].name, a, b)
        /\ PairBefore(kb[i], ka[i]) <=> Better(P[i].name, b, a)
    BY <2>1, PairIsBetter
  <2>4. ka[i] = kb[i] <=> ~PairBefore(ka[i], kb[i]) /\ ~PairBefore(kb[i], ka[i])
    BY <2>2, PairOrder
  <2> QED BY <2>1, <2>3, <2>4
<1>4. Ordered[m + 1] = "scarcity"
  BY <1>1 DEF Ordered
<1>5. CASE Prefers(objective, "scarcity")
  <2>1. PICK s \in 1..m : P[s].name = "scarcity"
    BY <1>1, <1>5 DEF Prefers
  <2>2. ~PairBefore(ka[m + 1], kb[m + 1])
    BY <1>1, <1>5 DEF SortKey, PairBefore, Neither
  <2>3. (\A j \in 1..m : Same(j)) => ~Better(Ordered[m + 1], a, b)
    BY <1>3, <1>4, <2>1
  <2>4. ASSUME NEW i \in 1..(m + 1)
        PROVE  (PairBefore(ka[i], kb[i]) /\ \A j \in 1..(i - 1) : ka[j] = kb[j])
                 <=> (Better(Ordered[i], a, b) /\ \A j \in 1..(i - 1) : Same(j))
    <3>1. CASE i \in 1..m
      <4>1. \A j \in 1..(i - 1) : ka[j] = kb[j] <=> Same(j)
        BY <1>1, <1>3, <3>1
      <4>2. PairBefore(ka[i], kb[i]) <=> Better(Ordered[i], a, b)
        BY <1>3, <3>1
      <4> HIDE DEF ka, kb, Same
      <4> QED BY <4>1, <4>2
    <3>2. CASE i = m + 1
      <4>1. i - 1 = m
        BY <1>1, <3>2
      <4> HIDE DEF ka, kb, Same, m
      <4> QED BY <2>2, <2>3, <3>2, <4>1
    <3> QED BY <1>1, <3>1, <3>2
  <2>5. KeyBefore(ka, kb) <=> Preferred(a, b)
    <3> HIDE DEF ka, kb, m
    <3> QED BY <1>2, <2>4 DEF KeyBefore, Preferred
  <2> QED BY <2>5
<1>6. CASE ~Prefers(objective, "scarcity")
  <2>1. ka[m + 1] = Scarcity(a) /\ kb[m + 1] = Scarcity(b)
    BY <1>1, <1>6 DEF SortKey
  <2>2. PairBefore(ka[m + 1], kb[m + 1]) <=> Better(Ordered[m + 1], a, b)
    BY <1>4, <2>1, ScarcityIsBetter
  <2>3. ASSUME NEW i \in 1..(m + 1)
        PROVE  (PairBefore(ka[i], kb[i]) /\ \A j \in 1..(i - 1) : ka[j] = kb[j])
                 <=> (Better(Ordered[i], a, b) /\ \A j \in 1..(i - 1) : Same(j))
    <3>1. \A j \in 1..(i - 1) : ka[j] = kb[j] <=> Same(j)
      BY <1>1, <1>3
    <3>2. PairBefore(ka[i], kb[i]) <=> Better(Ordered[i], a, b)
      <4>1. CASE i \in 1..m
        BY <1>3, <4>1
      <4>2. CASE i = m + 1
        BY <2>2, <4>2
      <4> QED BY <1>1, <4>1, <4>2
    <3> HIDE DEF ka, kb, Same
    <3> QED BY <3>1, <3>2
  <2>4. KeyBefore(ka, kb) <=> Preferred(a, b)
    <3> HIDE DEF ka, kb, m
    <3> QED BY <1>2, <2>3 DEF KeyBefore, Preferred
  <2> QED BY <2>4
<1> QED BY <1>5, <1>6

-------------------------------------------------------------------------------
(* What holds throughout: the run is the scoring of the options against the
   objective as it stands, and a relaxed budget was the only thing in the way
   of every option. *)
ScoringInv ==
  /\ IsObjective(objective) /\ IsSearch(options)
  /\ \/ stage = "new" /\ run = NoRun
     \/ stage \in {"scored", "relaxed"} /\ run = Score(objective, options)
  /\ stage = "relaxed" =>
       \A i \in DOMAIN options : options[i].cost > objective.budget.value

(* The survivors, how many there are, and the entry of each. *)
Ranked == Survivors(options, objective)
Kind == Cardinality(AliveAt(options, objective))
KeptEntry(k) ==
  Kept(Ranked[k], Ranks(Ranked, objective)[k], FullTie(Ranks(Ranked, objective)))

LEMMA EntryFacts ==
  ASSUME ScoringInv, stage # "new"
  PROVE  /\ run.scored \in Seq(Entry) /\ Len(run.scored) = Len(options)
         /\ \A e \in Entries :
              \/ \E i \in DOMAIN options :
                   ~Survives(options[i], objective) /\ e = Eliminated(options[i], objective)
              \/ \E k \in 1..Kind : e = KeptEntry(k)
         /\ \A i \in DOMAIN options :
              ~Survives(options[i], objective) => Eliminated(options[i], objective) \in Entries
         /\ \A k \in 1..Kind : KeptEntry(k) \in Entries
<1> DEFINE q == objective
           list == options
           out == OutOf(q, list)
           kept == KeptOf(q, list)
           dropped == Dropped(list, q)
<1>0. IsObjective(q) /\ IsSearch(list) /\ run = Score(q, list)
  BY DEF ScoringInv
<1>1. run.scored = out \o kept
  BY <1>0, ScoreParts
<1>2. PICK d \in Nat, n \in Nat :
        /\ d = Cardinality(DroppedAt(list, q)) /\ n = Kind
        /\ d + n = Len(list) /\ DOMAIN dropped = 1..d
        /\ out \in Seq(Entry) /\ Len(out) = d
        /\ kept \in Seq(Entry) /\ Len(kept) = n
        /\ \A k \in 1..d : out[k] = Eliminated(dropped[k], q)
        /\ \A k \in 1..n : kept[k] = KeptEntry(k)
  BY <1>0, ScoreFacts DEF KeptEntry, RankOf, Ranked, Kind
<1>3. /\ \A k \in 1..d : \E i \in DroppedAt(list, q) : dropped[k] = list[i]
      /\ \A i \in DroppedAt(list, q) : \E k \in 1..d : dropped[k] = list[i]
  <2>1. dropped = ById(list, DroppedAt(list, q)) /\ DroppedAt(list, q) \subseteq DOMAIN list
    BY DEF Dropped, DroppedAt
  <2> DEFINE byId == ById(list, DroppedAt(list, q))
  <2>2. /\ \A k \in 1..d : \E i \in DroppedAt(list, q) : byId[k] = list[i]
        /\ \A i \in DroppedAt(list, q) : \E k \in 1..d : byId[k] = list[i]
    <3> DEFINE D == DroppedAt(list, q)
    <3> HIDE DEF D
    <3>1. /\ \A k \in 1..Cardinality(D) : \E i \in D : ById(list, D)[k] = list[i]
          /\ \A i \in D : \E k \in 1..Cardinality(D) : ById(list, D)[k] = list[i]
      <4>1. D \subseteq DOMAIN list
        BY <2>1 DEF D
      <4> QED BY <1>0, <4>1, ByIdFacts
    <3>2. d = Cardinality(D)
      BY <1>2 DEF D
    <3> QED BY <3>1, <3>2 DEF D
  <2> HIDE DEF dropped, byId
  <2>3. dropped = byId
    BY <2>1 DEF byId
  <2> QED BY <2>2, <2>3
<1> HIDE DEF out, kept, dropped
<1>4. /\ run.scored \in Seq(Entry) /\ Len(run.scored) = d + n
      /\ \A i \in 1..(d + n) :
           run.scored[i] = IF i <= d THEN out[i] ELSE kept[i - d]
  <2>1. out \in Seq(Entry) /\ kept \in Seq(Entry) /\ Len(out) = d /\ Len(kept) = n
    BY <1>2
  <2>2. /\ out \o kept \in Seq(Entry) /\ Len(out \o kept) = Len(out) + Len(kept)
        /\ \A i \in 1..(Len(out) + Len(kept)) :
             (out \o kept)[i] = IF i <= Len(out) THEN out[i] ELSE kept[i - Len(out)]
    BY <2>1, ConcatProperties
  <2> QED BY <1>1, <2>1, <2>2
<1>5. DOMAIN run.scored = 1..(d + n)
  BY <1>4
<1>6. \A k \in 1..d : out[k] \in Entries
  <2> SUFFICES ASSUME NEW k \in 1..d PROVE out[k] \in Entries
    OBVIOUS
  <2>1. k \in 1..(d + n) /\ run.scored[k] = out[k]
    BY <1>2, <1>4
  <2> QED BY <1>5, <2>1 DEF Entries
<1>7. \A k \in 1..n : kept[k] \in Entries
  <2> SUFFICES ASSUME NEW k \in 1..n PROVE kept[k] \in Entries
    OBVIOUS
  <2>1. d + k \in 1..(d + n) /\ (d + k) - d = k /\ ~(d + k <= d)
    BY <1>2
  <2>2. run.scored[d + k] = kept[(d + k) - d]
    BY <1>4, <2>1
  <2> QED BY <1>5, <2>1, <2>2 DEF Entries
<1>8. ASSUME NEW e \in Entries
      PROVE  \/ \E i \in DOMAIN options :
                   ~Survives(options[i], objective) /\ e = Eliminated(options[i], objective)
             \/ \E k \in 1..Kind : e = KeptEntry(k)
  <2>1. PICK i \in 1..(d + n) : e = run.scored[i]
    BY <1>5 DEF Entries
  <2>2. CASE i <= d
    <3>1. i \in 1..d /\ e = Eliminated(dropped[i], q)
      BY <1>2, <1>4, <2>1, <2>2
    <3> QED BY <1>3, <3>1 DEF DroppedAt
  <2>3. CASE ~(i <= d)
    <3>1. i - d \in 1..n /\ e = kept[i - d]
      BY <1>2, <1>4, <2>1, <2>3
    <3> QED BY <1>2, <3>1
  <2> QED BY <2>2, <2>3
<1>9. ASSUME NEW i \in DOMAIN options, ~Survives(options[i], objective)
      PROVE  Eliminated(options[i], objective) \in Entries
  <2>1. PICK k \in 1..d : dropped[k] = list[i]
    BY <1>3, <1>9 DEF DroppedAt
  <2> QED BY <1>2, <1>6, <2>1
<1>10. \A k \in 1..Kind : KeptEntry(k) \in Entries
  BY <1>2, <1>7
<1> QED BY <1>2, <1>4, <1>8, <1>9, <1>10

(* An option is found again from its entry. *)
LEMMA OptionOfEntry ==
  ASSUME ScoringInv, NEW i \in DOMAIN options, NEW e, e.id = options[i].id
  PROVE  OptionOf(e) = options[i]
BY DEF OptionOf, ScoringInv, IsSearch

LEMMA AliveFacts ==
  ASSUME ScoringInv, stage # "new"
  PROVE  /\ Kind \in Nat /\ Ascending(Ranked, Kind, objective)
         /\ Alive = {KeptEntry(k) : k \in 1..Kind}
         /\ \A k \in 1..Kind :
              /\ OptionOf(KeptEntry(k)) = Ranked[k] /\ IsOption(Ranked[k])
              /\ \E i \in AliveAt(options, objective) : Ranked[k] = options[i]
              /\ KeptEntry(k).rank = Ranks(Ranked, objective)[k]
              /\ KeptEntry(k).id = Ranked[k].id
         /\ \A k, l \in 1..Kind : KeptEntry(k).id = KeptEntry(l).id => k = l
         /\ \A i \in AliveAt(options, objective) : \E k \in 1..Kind : Ranked[k] = options[i]
<1>1. IsObjective(objective) /\ IsSearch(options)
  BY DEF ScoringInv
<1>2. /\ Kind \in Nat /\ DOMAIN Ranked = 1..Kind
      /\ \A k \in 1..Kind :
           IsOption(Ranked[k])
           /\ \E i \in AliveAt(options, objective) : Ranked[k] = options[i]
      /\ \A i \in AliveAt(options, objective) : \E k \in 1..Kind : Ranked[k] = options[i]
      /\ \A k, l \in 1..Kind : Ranked[k].id = Ranked[l].id => k = l
      /\ \A k, l \in 1..Kind : k < l =>
           ~KeyBefore(SortKey(Ranked[l], objective), SortKey(Ranked[k], objective))
  BY <1>1, SurvivorsAreRanked DEF RankedWell, Ranked, Kind
<1>3. Ascending(Ranked, Kind, objective)
  BY <1>1, <1>2, SortKeyIsKey DEF Ascending
<1>4. \A k \in 1..Kind : /\ KeptEntry(k).rank = Ranks(Ranked, objective)[k]
                         /\ KeptEntry(k).id = Ranked[k].id
                         /\ KeptEntry(k).outcome # "ELIMINATED"
  BY DEF KeptEntry, Kept
<1>5. ASSUME NEW k \in 1..Kind PROVE OptionOf(KeptEntry(k)) = Ranked[k]
  <2>1. PICK i \in DOMAIN options : Ranked[k] = options[i]
    BY <1>2 DEF AliveAt
  <2> QED BY <1>4, <2>1, OptionOfEntry
<1>6. Alive = {KeptEntry(k) : k \in 1..Kind}
  <2>1. \A o : Eliminated(o, objective).outcome = "ELIMINATED"
    BY DEF Eliminated
  <2> QED BY <1>4, <2>1, EntryFacts DEF Alive
<1>7. \A k, l \in 1..Kind : KeptEntry(k).id = KeptEntry(l).id => k = l
  BY <1>2, <1>4
<1>8. \A k \in 1..Kind :
        /\ OptionOf(KeptEntry(k)) = Ranked[k] /\ IsOption(Ranked[k])
        /\ \E i \in AliveAt(options, objective) : Ranked[k] = options[i]
        /\ KeptEntry(k).rank = Ranks(Ranked, objective)[k]
        /\ KeptEntry(k).id = Ranked[k].id
  BY <1>2, <1>4, <1>5
<1> QED BY <1>2, <1>3, <1>6, <1>7, <1>8

-------------------------------------------------------------------------------
(* The invariant. *)

LEMMA NothingYet ==
  ASSUME stage = "new", ScoringInv
  PROVE  Entries = {} /\ Alive = {} /\ run.selected = {} /\ run.report = {}
         /\ run.scored = <<>>
BY DEF ScoringInv, NoRun, Entries, Alive

(* When the budget is all that the report names, every option exceeds it. *)
LEMMA BudgetAloneBlocks ==
  ASSUME ScoringInv, stage # "new", run.report = {"budget_amount"}, NEW i \in DOMAIN options
  PROVE  Hard(objective.budget) /\ options[i].cost > objective.budget.value
<1> DEFINE q == objective
           list == options
           out == OutOf(q, list)
           kept == KeptOf(q, list)
<1>0. IsObjective(q) /\ IsSearch(list) /\ run = Score(q, list)
  BY DEF ScoringInv
<1>1. run.report = Report(out, kept)
  BY <1>0, ScoreParts
<1>2. kept = <<>> /\ \A k \in DOMAIN out : out[k].reason = "budget_amount"
  BY <1>1 DEF Report
<1>3. ~Survives(list[i], q)
  <2> SUFFICES ASSUME Survives(list[i], q) PROVE FALSE
    OBVIOUS
  <2>1. DOMAIN kept = {}
    BY <1>2
  <2>2. DOMAIN Survivors(list, q) = {}
    BY <2>1 DEF KeptOf
  <2>3. RankedWell(list, q) /\ i \in AliveAt(list, q)
    BY <1>0, SurvivorsAreRanked DEF AliveAt
  <2>4. \E k \in DOMAIN Survivors(list, q) : Survivors(list, q)[k] = list[i]
    BY <2>3 DEF RankedWell
  <2> QED BY <2>2, <2>4
<1>4. \E k \in DOMAIN Dropped(list, q) : Dropped(list, q)[k] = list[i]
  <2> DEFINE D == DroppedAt(list, q)
  <2>1. D \subseteq DOMAIN list /\ i \in D /\ Dropped(list, q) = ById(list, D)
    BY <1>3 DEF DroppedAt, Dropped
  <2> HIDE DEF D
  <2> QED BY <1>0, <2>1, ByIdFacts
<1>5. Reason(list[i], q) = "budget_amount"
  <2>1. PICK k \in DOMAIN Dropped(list, q) : Dropped(list, q)[k] = list[i]
    BY <1>4
  <2>2. k \in DOMAIN out /\ out[k] = Eliminated(list[i], q)
    BY <2>1 DEF OutOf
  <2> QED BY <1>2, <2>2 DEF Eliminated
<1>6. PICK c \in Failing(list[i], q) : Checks[c] = "budget_amount" /\ c \in DOMAIN Checks
  BY <1>3, <1>5, ReasonFacts
<1>7. Fails("budget_amount", list[i], q)
  BY <1>6 DEF Failing
<1> QED BY <1>7 DEF Fails

LEMMA Relaxing ==
  ASSUME ScoringInv, RelaxBudget
  PROVE  ScoringInv'
<1>1. IsObjective(objective) /\ IsSearch(options) /\ Hard(objective.budget)
  BY DEF ScoringInv, RelaxBudget
<1>2. \A i \in DOMAIN options : options[i].cost > objective.budget.value
  BY BudgetAloneBlocks DEF RelaxBudget
<1> DEFINE q == [objective EXCEPT !.budget.type = "SOFT"]
<1>3. objective' = q /\ options' = options /\ stage' = "relaxed" /\ run' = Score(q, options)
  BY DEF RelaxBudget
<1>4. /\ DOMAIN q = ObjectiveFields
      /\ "type" \in DOMAIN q.budget /\ q.budget.type = "SOFT"
      /\ "value" \in DOMAIN q.budget /\ q.budget.value = objective.budget.value
      /\ \A f \in ObjectiveFields : f # "budget" => q[f] = objective[f]
  <2>1. /\ DOMAIN objective = ObjectiveFields /\ "budget" \in ObjectiveFields
        /\ "type" \in DOMAIN objective.budget /\ "value" \in DOMAIN objective.budget
    BY <1>1 DEF IsObjective, ObjectiveFields, Hard, Stated
  <2> DEFINE b == [objective.budget EXCEPT !.type = "SOFT"]
  <2>2. /\ DOMAIN q = ObjectiveFields /\ q.budget = b
        /\ \A f \in ObjectiveFields : f # "budget" => q[f] = objective[f]
    <3>1. q = [objective EXCEPT !["budget"] = b]
      OBVIOUS
    <3> HIDE DEF b, q
    <3> QED BY <2>1, <3>1
  <2>3. /\ "type" \in DOMAIN b /\ b.type = "SOFT"
        /\ "value" \in DOMAIN b /\ b.value = objective.budget.value
    <3>1. DOMAIN b = DOMAIN objective.budget
      OBVIOUS
    <3>2. b["type"] = "SOFT"
      BY <2>1
    <3>3. b["value"] = objective.budget["value"]
      BY <2>1
    <3> QED BY <2>1, <3>1, <3>2, <3>3
  <2> HIDE DEF b, q
  <2> QED BY <2>2, <2>3
<1> HIDE DEF q
<1>5. IsObjective(q)
  <2>1. q.deadline = objective.deadline /\ Prefs(q) = Prefs(objective)
    BY <1>4 DEF ObjectiveFields, Prefs
  <2>2. Stated(objective.budget)
    BY <1>1 DEF Stated, Hard
  <2>3. objective.budget.value \in Nat
    BY <1>1, <2>2 DEF IsObjective
  <2>4. \A f \in ObjectiveFields : "type" \in DOMAIN q[f] /\ q[f].type \in ConstraintType
    <3>1. \A f \in ObjectiveFields :
            "type" \in DOMAIN objective[f] /\ objective[f].type \in ConstraintType
      BY <1>1 DEF IsObjective
    <3> QED BY <1>4, <3>1 DEF ConstraintType
  <2>5. Stated(objective.deadline) => objective.deadline.value \in Nat
    BY <1>1 DEF IsObjective
  <2>6. IsList(Prefs(objective))
    BY <1>1 DEF IsObjective
  <2> QED BY <1>4, <2>1, <2>3, <2>4, <2>5, <2>6 DEF IsObjective
<1>6. ScoringInv' <=>
        /\ IsObjective(q) /\ IsSearch(options) /\ run' = Score(q, options)
        /\ \A i \in DOMAIN options : options[i].cost > q.budget.value
  BY <1>3 DEF ScoringInv
<1> QED BY <1>1, <1>2, <1>4, <1>3, <1>5, <1>6

THEOREM ScoringInvariant == Spec => []ScoringInv
<1>1. Init => ScoringInv
  BY ScoringAssumption DEF Init, ScoringInv
<1>2. ScoringInv /\ [Next]_vars => ScoringInv'
  <2> SUFFICES ASSUME ScoringInv, [Next]_vars PROVE ScoringInv'
    OBVIOUS
  <2>1. CASE ScoreOptions
    BY <2>1 DEF ScoreOptions, ScoringInv
  <2>2. CASE RelaxBudget
    BY <2>2, Relaxing
  <2>3. CASE UNCHANGED vars
    BY <2>3 DEF vars, ScoringInv
  <2> QED BY <2>1, <2>2, <2>3 DEF Next
<1> QED BY <1>1, <1>2, PTL DEF Spec

-------------------------------------------------------------------------------
(* The properties. *)

Chosen == {k \in 1..Kind : KeptEntry(k).outcome = "SELECTED"}

(* The last of the entries of the first rank is selected, if there is one. *)
LEMMA SelectedFacts ==
  ASSUME ScoringInv, stage # "new"
  PROVE  /\ Chosen = {} => run.selected = {}
         /\ Chosen # {} => \E k \in Chosen : run.selected = {KeptEntry(k).id}
<1> DEFINE kept == KeptOf(objective, options)
<1>1. IsObjective(objective) /\ IsSearch(options) /\ run = Score(objective, options)
  BY DEF ScoringInv
<1>2. run.selected = Selected(kept)
  BY <1>1, ScoreParts
<1>3. Kind \in Nat /\ DOMAIN kept = 1..Kind /\ \A k \in 1..Kind : kept[k] = KeptEntry(k)
  <2>1. /\ Kind \in Nat /\ DOMAIN Survivors(options, objective) = 1..Kind
    BY <1>1, ScoreFacts DEF Kind
  <2> QED BY <2>1 DEF KeptOf, KeptEntry, RankOf, Ranked
<1> HIDE DEF kept
<1>4. {i \in DOMAIN kept : kept[i].outcome = "SELECTED"} = Chosen
  BY <1>3 DEF Chosen
<1>5. run.selected = {kept[i].id : i \in {i \in Chosen : \A j \in Chosen : j <= i}}
  BY <1>2, <1>4 DEF Selected
<1>6. CASE Chosen = {}
  BY <1>5, <1>6
<1>7. CASE Chosen # {}
  <2> DEFINE T == {Kind - k : k \in Chosen}
  <2>1. T \subseteq Nat /\ T # {}
    BY <1>3, <1>7 DEF Chosen
  <2> HIDE DEF T
  <2>2. PICK t \in T : \A s \in T : t <= s
    BY <2>1, LeastNatural
  <2>3. PICK k \in Chosen : t = Kind - k
    BY DEF T
  <2>4. ASSUME NEW j \in Chosen PROVE j <= k
    <3>1. Kind - j \in T /\ j \in Nat /\ k \in Nat
      BY DEF T, Chosen
    <3> QED BY <1>3, <2>2, <2>3, <3>1
  <2>5. {i \in Chosen : \A j \in Chosen : j <= i} = {k}
    <3>1. ASSUME NEW i \in Chosen, \A j \in Chosen : j <= i PROVE i = k
      <4>1. i \in Nat /\ k \in Nat /\ i <= k /\ k <= i
        BY <2>4, <3>1 DEF Chosen
      <4> QED BY <4>1
    <3> QED BY <2>4, <3>1
  <2>6. run.selected = {KeptEntry(k).id}
    BY <1>3, <1>5, <2>5 DEF Chosen
  <2> QED BY <1>7, <2>6
<1> QED BY <1>6, <1>7

LEMMA TypesHold ==
  ASSUME ScoringInv
  PROVE  TypeOK
<1>1. CASE stage = "new"
  <2>1. run.scored = <<>> /\ run.selected = {} /\ run.report = {}
    BY <1>1, NothingYet
  <2>2. <<>> \in Seq(Entry)
    OBVIOUS
  <2>3. Cardinality({}) <= 1
    BY FS_EmptySet
  <2> QED BY <1>1, <2>1, <2>2, <2>3 DEF TypeOK
<1>2. CASE stage # "new"
  <2>1. run.scored \in Seq(Entry) /\ stage \in {"scored", "relaxed"}
    BY <1>2, EntryFacts DEF ScoringInv
  <2>2. Cardinality(run.selected) <= 1
    <3>1. Cardinality({}) <= 1 /\ \A x : Cardinality({x}) <= 1
      BY FS_EmptySet, FS_Singleton
    <3>2. run.selected = {} \/ \E x : run.selected = {x}
      BY <1>2, SelectedFacts
    <3> QED BY <3>1, <3>2
  <2>3. run.report \subseteq {Checks[i] : i \in DOMAIN Checks}
    <3> DEFINE out == OutOf(objective, options)
               dropped == Dropped(options, objective)
               D == DroppedAt(options, objective)
    <3>0. IsSearch(options) /\ run = Score(objective, options)
      BY <1>2 DEF ScoringInv
    <3>1. run.report \subseteq {out[i].reason : i \in DOMAIN out}
      BY <3>0, ScoreParts DEF Report
    <3>2. ASSUME NEW i \in DOMAIN out
          PROVE  out[i].reason \in {Checks[c] : c \in DOMAIN Checks}
      <4>1. i \in DOMAIN dropped /\ out[i].reason = Reason(dropped[i], objective)
        BY <3>2 DEF OutOf, Eliminated
      <4>2. \E j \in D : dropped[i] = options[j]
        <5>1. dropped = ById(options, D) /\ D \subseteq DOMAIN options
          BY DEF Dropped, DroppedAt
        <5> HIDE DEF D
        <5> QED BY <3>0, <4>1, <5>1, ByIdFacts
      <4>3. ~Survives(dropped[i], objective)
        BY <4>2 DEF DroppedAt
      <4> QED BY <4>1, <4>3, ReasonFacts
    <3> QED BY <3>1, <3>2
  <2> QED BY <2>1, <2>2, <2>3 DEF TypeOK
<1> QED BY <1>1, <1>2

(* A scoring, or a scoring with the budget relaxed, makes a run of the right
   shape with at most one option selected. *)
THEOREM TypeCorrect == Spec => []TypeOK
BY TypesHold, ScoringInvariant, PTL

(* What the relaxed scoring lets through is what exceeds the budget: no option
   that keeps to it was passed over (_try_relaxed_budget_recommendation). *)
THEOREM RelaxedBreachesBudget == Spec => []RelaxedExceedsBudget
<1>1. ScoringInv => RelaxedExceedsBudget
  <2> SUFFICES ASSUME ScoringInv, stage = "relaxed", NEW e \in Alive
               PROVE  OptionOf(e).cost > objective.budget.value
    BY DEF RelaxedExceedsBudget
  <2>1. PICK k \in 1..Kind : e = KeptEntry(k)
    BY AliveFacts
  <2>2. \E i \in DOMAIN options : OptionOf(e) = options[i]
    BY <2>1, AliveFacts DEF AliveAt
  <2> QED BY <2>2 DEF ScoringInv
<1> QED BY <1>1, ScoringInvariant, PTL

(* Ranks are the order of the keys, and none is left out. *)
LEMMA RanksFollow ==
  ASSUME ScoringInv
  PROVE  /\ \A e, f \in Alive : e.rank < f.rank <=> Preferred(OptionOf(e), OptionOf(f))
         /\ \A e \in Alive : e.rank \in Nat /\ 1..e.rank \subseteq {f.rank : f \in Alive}
<1>1. CASE stage = "new"
  BY <1>1, NothingYet
<1>2. CASE stage # "new"
  <2> DEFINE K(k) == SortKey(Ranked[k], objective)
  <2>1. /\ Kind \in Nat /\ Ascending(Ranked, Kind, objective)
        /\ Alive = {KeptEntry(k) : k \in 1..Kind}
    BY <1>2, AliveFacts
  <2>2. ASSUME NEW e \in Alive, NEW f \in Alive
        PROVE  e.rank < f.rank <=> Preferred(OptionOf(e), OptionOf(f))
    <3>1. PICK k \in 1..Kind, l \in 1..Kind : e = KeptEntry(k) /\ f = KeptEntry(l)
      BY <2>1
    <3>2. /\ e.rank = Ranks(Ranked, objective)[k] /\ f.rank = Ranks(Ranked, objective)[l]
          /\ OptionOf(e) = Ranked[k] /\ OptionOf(f) = Ranked[l]
          /\ IsOption(Ranked[k]) /\ IsOption(Ranked[l])
      BY <1>2, <3>1, AliveFacts
    <3>3. e.rank < f.rank <=> KeyBefore(K(k), K(l))
      BY <2>1, <3>2, RanksFollowKeys
    <3>4. KeyBefore(K(k), K(l)) <=> Preferred(Ranked[k], Ranked[l])
      BY <3>2, KeyIsPreference DEF ScoringInv
    <3> QED BY <3>2, <3>3, <3>4
  <2>3. ASSUME NEW e \in Alive, NEW v \in 1..e.rank
        PROVE  v \in {f.rank : f \in Alive}
    <3>1. PICK k \in 1..Kind : e = KeptEntry(k) /\ e.rank = Ranks(Ranked, objective)[k]
      BY <1>2, <2>1, AliveFacts
    <3>2. \E l \in 1..Kind : Ranks(Ranked, objective)[l] = v
      BY <2>1, <3>1, RanksAreDense
    <3>3. PICK l \in 1..Kind : KeptEntry(l).rank = v
      BY <1>2, <3>2, AliveFacts
    <3>4. KeptEntry(l) \in Alive
      BY <2>1
    <3> QED BY <3>3, <3>4
  <2>4. ASSUME NEW e \in Alive PROVE e.rank \in Nat
    <3>1. PICK k \in 1..Kind : e = KeptEntry(k) /\ e.rank = Ranks(Ranked, objective)[k]
      BY <1>2, <2>1, AliveFacts
    <3> QED BY <2>1, <3>1, RanksAreNumbers DEF Ascending
  <2> QED BY <2>2, <2>3, <2>4
<1> QED BY <1>1, <1>2

(* Being ahead is being preferred, and for equally direct options no less. *)
LEMMA AheadIsPreferred ==
  ASSUME NEW a, NEW b
  PROVE  /\ Ahead(a, b) => Preferred(a, b)
         /\ Alike(a, b) => (Ahead(a, b) <=> Preferred(a, b))
BY DEF Ahead, Preferred

LEMMA RanksAreRight ==
  ASSUME ScoringInv
  PROVE  RanksArePreferences
<1>1. ASSUME NEW e \in Alive, NEW f \in Alive
      PROVE  /\ Ahead(OptionOf(e), OptionOf(f)) => e.rank < f.rank
             /\ /\ Alike(OptionOf(e), OptionOf(f))
                /\ ~Ahead(OptionOf(e), OptionOf(f)) /\ ~Ahead(OptionOf(f), OptionOf(e))
                => e.rank = f.rank
  <2> DEFINE a == OptionOf(e)
             b == OptionOf(f)
  <2>1. /\ e.rank \in Nat /\ f.rank \in Nat
        /\ e.rank < f.rank <=> Preferred(a, b)
        /\ f.rank < e.rank <=> Preferred(b, a)
    BY RanksFollow
  <2>2. Alike(a, b) => Alike(b, a)
    BY DEF Alike
  <2> HIDE DEF a, b
  <2>3. Ahead(a, b) => e.rank < f.rank
    BY <2>1, AheadIsPreferred
  <2>4. Alike(a, b) /\ ~Ahead(a, b) /\ ~Ahead(b, a) => e.rank = f.rank
    BY <2>1, <2>2, AheadIsPreferred
  <2> QED BY <2>3, <2>4 DEF a, b
<1> QED BY <1>1, RanksFollow DEF RanksArePreferences

(* Ranks follow the preferences of the traveller in their order, equally direct
   options that nothing separates share one, and none is left out, for every list
   of options (_full_sort_key, rank_counter). *)
THEOREM RanksAreThePreferences == Spec => []RanksArePreferences
BY RanksAreRight, ScoringInvariant, PTL

(* Every option is in the run once; a survivor has none of the faults that the
   hard constraints name, and an option with none of them is eliminated for its
   connections only. *)
Sound(o) ==
  /\ o.expires # {} /\ \A t \in o.expires : Now < t
  /\ Stated(objective.budget) => o.currency = objective.budget.currency
  /\ Hard(objective.budget) => o.cost <= objective.budget.value
  /\ Hard(objective.deadline) => o.arrives <= objective.deadline.value
  /\ \A f \in {"date", "origin", "destination"} :
       Hard(objective[f]) => o[f] = objective[f].value
  /\ \A g \in DOMAIN o.gaps : o.gaps[g] > 0

LEMMA SoundMeansNoFault ==
  ASSUME IsObjective(objective), NEW o, IsOption(o)
  PROVE  /\ Survives(o, objective) => Sound(o)
         /\ Sound(o) =>
              \A c \in Failing(o, objective) :
                Checks[c] \in {"connection_excluded", "min_connection_time"}
<1> DEFINE q == objective
           F(name) == Fails(name, o, q)
           Named == {"expiry_unknown", "offer_expired", "currency_mismatch",
                     "budget_amount", "departure_date", "origin", "destination",
                     "latest_arrival", "impossible_connection"}
<1>1. DOMAIN Checks = 1..11 /\ \A c \in 1..11 :
        Checks[c] \in Named \union {"connection_excluded", "min_connection_time"}
  BY DEF Checks
<1>2. \A name \in Named : \E c \in 1..11 : Checks[c] = name
  BY DEF Checks
<1>3. /\ Now \in Nat /\ o.cost \in Nat /\ o.arrives \in Nat /\ o.expires \subseteq Nat
      /\ \A i \in DOMAIN o.gaps : o.gaps[i] \in Int
      /\ Hard(q.budget) => q.budget.value \in Nat
      /\ Hard(q.deadline) => q.deadline.value \in Nat
  BY ScoringAssumption DEF IsOption, IsObjective, Hard, Stated
<1>4. /\ F("expiry_unknown") <=> o.expires = {}
      /\ F("offer_expired") <=> Expired(o)
      /\ F("currency_mismatch")
           <=> Stated(q.budget) /\ o.currency # q.budget.currency
      /\ F("budget_amount") <=> Hard(q.budget) /\ o.cost > q.budget.value
      /\ F("latest_arrival") <=> Hard(q.deadline) /\ o.arrives > q.deadline.value
  BY DEF Fails
<1>5. /\ F("departure_date") <=> Hard(q.date) /\ o.date # q.date.value
      /\ F("origin") <=> Hard(q.origin) /\ o.origin # q.origin.value
      /\ F("destination") <=> Hard(q.destination) /\ o.destination # q.destination.value
      /\ F("impossible_connection") <=> \E i \in DOMAIN o.gaps : o.gaps[i] <= 0
  BY DEF Fails, Differs
<1> HIDE DEF F
<1>6. Sound(o) <=> \A name \in Named : ~F(name)
  <2>1. (\A t \in o.expires : Now < t) <=> ~F("offer_expired")
    BY <1>3, <1>4 DEF Expired
  <2>2. (\A g \in DOMAIN o.gaps : o.gaps[g] > 0) <=> ~F("impossible_connection")
    BY <1>3, <1>5
  <2>3. (Hard(q.budget) => o.cost <= q.budget.value) <=> ~F("budget_amount")
    BY <1>3, <1>4
  <2>4. (Hard(q.deadline) => o.arrives <= q.deadline.value) <=> ~F("latest_arrival")
    BY <1>3, <1>4
  <2>5. (\A f \in {"date", "origin", "destination"} :
           Hard(objective[f]) => o[f] = objective[f].value)
          <=> ~F("departure_date") /\ ~F("origin") /\ ~F("destination")
    BY <1>5
  <2>6. (Stated(q.budget) => o.currency = q.budget.currency) <=> ~F("currency_mismatch")
    BY <1>4
  <2> QED BY <1>4, <2>1, <2>2, <2>3, <2>4, <2>5, <2>6 DEF Sound
<1> HIDE DEF Named
<1>7. Survives(o, q) => Sound(o)
  <2> SUFFICES ASSUME Survives(o, q), NEW name \in Named PROVE ~F(name)
    BY <1>6
  <2>1. PICK c \in DOMAIN Checks : Checks[c] = name
    BY <1>1, <1>2
  <2>2. ~Fails(Checks[c], o, q)
    BY DEF Survives, Failing
  <2> QED BY <2>1, <2>2 DEF F
<1>8. Sound(o) =>
        \A c \in Failing(o, q) :
          Checks[c] \in {"connection_excluded", "min_connection_time"}
  <2> SUFFICES ASSUME Sound(o), NEW c \in Failing(o, q), Checks[c] \in Named PROVE FALSE
    BY <1>1 DEF Failing
  <2>1. F(Checks[c])
    BY DEF Failing, F
  <2> QED BY <1>6, <2>1
<1> QED BY <1>7, <1>8

LEMMA OptionsJudged ==
  ASSUME ScoringInv
  PROVE  EveryOptionIsJudged
<1> SUFFICES ASSUME stage # "new", NEW i \in DOMAIN options
             PROVE  /\ Len(run.scored) = Len(options)
                    /\ \E e \in Entries :
                         /\ OptionOf(e) = options[i]
                         /\ e \in Alive => Sound(options[i])
                         /\ Sound(options[i]) /\ e \notin Alive =>
                              e.reason \in {"connection_excluded", "min_connection_time"}
  <2>1. stage # "new" => Len(run.scored) = Len(options)
    BY EntryFacts
  <2> QED BY <2>1 DEF EveryOptionIsJudged, Sound
<1> DEFINE o == options[i]
<1>1. IsObjective(objective) /\ IsOption(o)
  BY DEF ScoringInv, IsSearch
<1>2. Len(run.scored) = Len(options)
  BY EntryFacts
<1>3. CASE Survives(o, objective)
  <2>1. PICK k \in 1..Kind : Ranked[k] = o
    BY <1>3, AliveFacts DEF AliveAt
  <2>2. KeptEntry(k) \in Entries /\ KeptEntry(k) \in Alive /\ OptionOf(KeptEntry(k)) = o
    BY <2>1, EntryFacts, AliveFacts
  <2> QED BY <1>1, <1>2, <1>3, <2>2, SoundMeansNoFault
<1>4. CASE ~Survives(o, objective)
  <2> DEFINE e == Eliminated(o, objective)
  <2>1. e \in Entries /\ e.id = o.id /\ e.outcome = "ELIMINATED"
        /\ e.reason = Reason(o, objective)
    BY <1>4, EntryFacts DEF Eliminated
  <2> HIDE DEF e
  <2>2. OptionOf(e) = o /\ e \notin Alive
    BY <2>1, OptionOfEntry DEF Alive
  <2>3. Sound(o) => e.reason \in {"connection_excluded", "min_connection_time"}
    BY <1>1, <1>4, <2>1, SoundMeansNoFault, ReasonFacts
  <2> QED BY <1>2, <2>1, <2>2, <2>3
<1> QED BY <1>3, <1>4

THEOREM OptionsAreJudged == Spec => []EveryOptionIsJudged
BY OptionsJudged, ScoringInvariant, PTL

(* No survivor is preferred to the one selected; none is selected only when
   nothing survived or nothing separates several survivors, and then none is. *)
LEMMA SelectedBest ==
  ASSUME ScoringInv
  PROVE  /\ \A id \in run.selected :
              \E e \in Alive :
                e.id = id /\ \A f \in Alive : ~Preferred(OptionOf(f), OptionOf(e))
         /\ stage # "new" /\ run.selected = {} =>
              /\ Cardinality(Alive) # 1
              /\ \A e, f \in Alive : ~Preferred(OptionOf(e), OptionOf(f))
         /\ /\ Cardinality(Alive) > 1
            /\ \A e, f \in Alive : ~Preferred(OptionOf(e), OptionOf(f))
            => run.selected = {}
<1>1. CASE stage = "new"
  <2>1. Alive = {} /\ run.selected = {}
    BY <1>1, NothingYet
  <2>2. ~(Cardinality(Alive) > 1)
    BY <2>1, FS_EmptySet
  <2> QED BY <1>1, <2>1, <2>2
<1>2. CASE stage # "new"
  <2> DEFINE ranks == Ranks(Ranked, objective)
  <2>1. /\ Kind \in Nat /\ Ascending(Ranked, Kind, objective)
        /\ Alive = {KeptEntry(k) : k \in 1..Kind}
        /\ \A k \in 1..Kind : KeptEntry(k).rank = ranks[k]
        /\ \A k, l \in 1..Kind : KeptEntry(k).id = KeptEntry(l).id => k = l
    BY <1>2, AliveFacts
  <2>2. \A k \in 1..Kind : ranks[k] \in Nat /\ ranks[k] >= 1
    BY <2>1, RanksAreNumbers DEF Ascending
  <2>3. \A e, f \in Alive : e.rank < f.rank <=> Preferred(OptionOf(e), OptionOf(f))
    BY RanksFollow
  <2>4. \A k \in 1..Kind : KeptEntry(k).outcome = "SELECTED"
                             <=> ranks[k] = 1 /\ ~FullTie(ranks)
    BY DEF KeptEntry, Kept
  <2>5. Len(ranks) = Kind /\ DOMAIN ranks = 1..Kind
    <3>1. ranks \in [1..Kind -> Nat]
      BY <2>1, <2>2 DEF Ranks, Ascending
    <3> QED BY <2>1, <3>1, FunctionsAreLists
  <2> HIDE DEF ranks
  <2>6. ASSUME NEW id \in run.selected
        PROVE  \E e \in Alive :
                 e.id = id /\ \A f \in Alive : ~Preferred(OptionOf(f), OptionOf(e))
    <3>1. PICK k \in Chosen : id = KeptEntry(k).id
      BY <1>2, <2>6, SelectedFacts
    <3>2. k \in 1..Kind /\ KeptEntry(k) \in Alive /\ KeptEntry(k).rank = 1
      BY <2>1, <2>4 DEF Chosen
    <3>3. ASSUME NEW f \in Alive PROVE ~Preferred(OptionOf(f), OptionOf(KeptEntry(k)))
      <4>1. f.rank \in Nat /\ f.rank >= 1
        BY <2>1, <2>2
      <4> QED BY <2>3, <3>2, <4>1
    <3> QED BY <3>1, <3>2, <3>3
  <2>7. ASSUME run.selected = {}
        PROVE  /\ Cardinality(Alive) # 1
               /\ \A e, f \in Alive : ~Preferred(OptionOf(e), OptionOf(f))
    <3>1. \A k \in 1..Kind : ranks[k] = 1 => FullTie(ranks)
      BY <1>2, <2>4, <2>7, SelectedFacts DEF Chosen
    <3>2. CASE Kind = 0
      <4>1. Alive = {}
        BY <2>1, <3>2
      <4> QED BY <4>1, FS_EmptySet
    <3>3. CASE Kind # 0
      <4>1. 1 \in 1..Kind /\ 1 \in 1..ranks[1]
        BY <2>1, <2>2, <3>3
      <4>2. ranks[1] = 1
        BY <2>1, <4>1, RanksAreDense DEF ranks
      <4>3. Kind > 1 /\ \A k \in 1..Kind : ranks[k] = 1
        BY <2>5, <3>1, <4>1, <4>2 DEF FullTie
      <4>4. Cardinality(Alive) # 1
        <5>1. 1 \in 1..Kind /\ 2 \in 1..Kind
          BY <2>1, <4>3
        <5>2. /\ KeptEntry(1) \in Alive /\ KeptEntry(2) \in Alive
              /\ KeptEntry(1) # KeptEntry(2)
          BY <2>1, <5>1
        <5>3. IsFiniteSet(Alive)
          <6>1. IsFiniteSet(1..Kind)
            BY <2>1, FS_Interval
          <6> DEFINE f == [k \in 1..Kind |-> KeptEntry(k)]
          <6>2. f \in Surjection(1..Kind, Alive)
            BY <2>1 DEF Surjection
          <6> QED BY <6>1, <6>2, FS_Surjection
        <5> QED BY <5>2, <5>3, FS_Singleton
      <4>5. \A e, f \in Alive : ~(e.rank < f.rank)
        BY <2>1, <4>3
      <4> QED BY <2>3, <4>4, <4>5
    <3> QED BY <3>2, <3>3
  <2>8. ASSUME Cardinality(Alive) > 1,
               \A e, f \in Alive : ~Preferred(OptionOf(e), OptionOf(f))
        PROVE  run.selected = {}
    <3>1. Kind # 0
      <4> SUFFICES ASSUME Kind = 0 PROVE FALSE
        OBVIOUS
      <4>1. Alive = {}
        BY <2>1
      <4> QED BY <2>8, <4>1, FS_EmptySet
    <3>2. Kind # 1
      <4> SUFFICES ASSUME Kind = 1 PROVE FALSE
        OBVIOUS
      <4>1. Alive = {KeptEntry(1)}
        BY <2>1
      <4> QED BY <2>8, <4>1, FS_Singleton
    <3>3. ranks[1] = 1
      <4>1. 1 \in 1..Kind /\ 1 \in 1..ranks[1]
        BY <2>1, <2>2, <3>1
      <4>2. PICK l \in 1..Kind : ranks[l] = 1
        BY <2>1, <4>1, RanksAreDense DEF ranks
      <4>3. KeptEntry(1) \in Alive /\ KeptEntry(l) \in Alive
        BY <2>1, <4>1
      <4>4. ~(KeptEntry(l).rank < KeptEntry(1).rank)
        BY <2>3, <2>8, <4>3
      <4> QED BY <2>1, <2>2, <4>1, <4>2, <4>4
    <3>4. ASSUME NEW k \in 1..Kind PROVE ranks[k] = 1
      <4>1. 1 \in 1..Kind
        BY <2>1, <3>1
      <4>2. KeptEntry(1) \in Alive /\ KeptEntry(k) \in Alive
        BY <2>1, <4>1
      <4>3. ~(KeptEntry(1).rank < KeptEntry(k).rank)
        BY <2>3, <2>8, <4>2
      <4> QED BY <2>1, <2>2, <3>3, <4>1, <4>3
    <3>5. FullTie(ranks)
      BY <2>1, <2>5, <3>1, <3>2, <3>4 DEF FullTie
    <3>6. Chosen = {}
      BY <2>4, <3>5 DEF Chosen
    <3> QED BY <1>2, <3>6, SelectedFacts
  <2> QED BY <2>6, <2>7, <2>8
<1> QED BY <1>1, <1>2

LEMMA SelectionIsRight ==
  ASSUME ScoringInv
  PROVE  SelectedIsBest
<1>1. ASSUME NEW id \in run.selected
      PROVE  \E e \in Alive : e.id = id /\ \A f \in Alive : ~Ahead(OptionOf(f), OptionOf(e))
  BY <1>1, SelectedBest, AheadIsPreferred
<1>2. ASSUME NEW e \in Alive,
             \A f \in Alive \ {e} : Ahead(OptionOf(e), OptionOf(f))
      PROVE  run.selected = {e.id}
  <2>1. stage # "new"
    BY NothingYet
  <2>2. \A f \in Alive \ {e} : Preferred(OptionOf(e), OptionOf(f))
    BY <1>2, AheadIsPreferred
  <2>3. run.selected # {}
    <3> SUFFICES ASSUME run.selected = {} PROVE FALSE
      OBVIOUS
    <3>1. Cardinality(Alive) # 1 /\ \A f \in Alive : ~Preferred(OptionOf(e), OptionOf(f))
      BY <2>1, SelectedBest
    <3>2. Alive = {e}
      BY <2>2, <3>1
    <3> QED BY <3>1, <3>2, FS_Singleton
  <2>4. ASSUME NEW id \in run.selected PROVE id = e.id
    BY <2>2, SelectedBest
  <2> QED BY <2>3, <2>4
<1>3. ASSUME Cardinality(Alive) > 1,
             \A e, f \in Alive :
               Alike(OptionOf(e), OptionOf(f)) /\ ~Ahead(OptionOf(e), OptionOf(f))
      PROVE  run.selected = {}
  <2>1. \A e, f \in Alive : ~Preferred(OptionOf(e), OptionOf(f))
    BY <1>3, AheadIsPreferred
  <2> QED BY <1>3, <2>1, SelectedBest
<1> QED BY <1>1, <1>2, <1>3 DEF SelectedIsBest

(* The option selected is one that no survivor is ahead of, the one ahead of all
   the others where there is one, and none when nothing separates several
   (_score_options, FullTie). *)
THEOREM BestIsSelected == Spec => []SelectedIsBest
BY SelectionIsRight, ScoringInvariant, PTL

-------------------------------------------------------------------------------
(* The order in which the options come. *)

Reordered(list, p) == [i \in DOMAIN list |-> list[p[i]]]
Back(list, p, I) == {i \in DOMAIN list : p[i] \in I}

LEMMA ReorderingMovesAll ==
  ASSUME NEW list, IsSearch(list), NEW p \in [DOMAIN list -> DOMAIN list],
         \A i, j \in DOMAIN list : i # j => p[i] # p[j]
  PROVE  /\ \A t \in DOMAIN list : \E i \in DOMAIN list : p[i] = t
         /\ IsSearch(Reordered(list, p)) /\ DOMAIN Reordered(list, p) = DOMAIN list
<1> DEFINE D == DOMAIN list
<1>1. PICK n \in Nat : n = Len(list) /\ D = 1..n
  BY DEF IsSearch, IsList
<1>2. IsFiniteSet(D)
  BY <1>1, FS_Interval
<1>3. p \in Injection(D, D)
  BY Fun_IsInj
<1>4. p \in Surjection(D, D)
  <2> HIDE DEF D
  <2> QED BY <1>2, <1>3, FS_Injection
<1>5. \A t \in D : \E i \in D : p[i] = t
  BY <1>4 DEF Surjection
<1>6. DOMAIN Reordered(list, p) = 1..n /\ Len(Reordered(list, p)) = n
  <2> DEFINE S == {list[i] : i \in D}
  <2>1. Reordered(list, p) \in [1..n -> S]
    BY <1>1 DEF Reordered
  <2> HIDE DEF S
  <2> QED BY <2>1, FunctionsAreLists
<1>7. /\ \A i \in D : IsOption(list[p[i]])
      /\ \A i, j \in D : list[p[i]].id = list[p[j]].id => i = j
  BY DEF IsSearch
<1>8. \A i \in D : Reordered(list, p)[i] = list[p[i]]
  BY DEF Reordered
<1>9. IsSearch(Reordered(list, p))
  BY <1>1, <1>6, <1>7, <1>8 DEF IsSearch, IsList
<1> QED BY <1>1, <1>5, <1>6, <1>9

(* Options have different ids, so that it is the keys that order them. *)
LEMMA IdsPrecede ==
  ASSUME NEW list, IsSearch(list), NEW I, I \subseteq DOMAIN list,
         NEW i \in I, NEW j \in I, i # j
  PROVE  Precedes(IdKey(list, I), i, j)
           <=> KeyBefore(IdKey(list, I)[i], IdKey(list, I)[j])
<1> DEFINE key == IdKey(list, I)
<1>1. key[i] \in Keys(1) /\ key[j] \in Keys(1)
  BY IdsAreKeys DEF Keyed
<1>2. list[i].id # list[j].id
  BY DEF IsSearch
<1>3. key[i] # key[j]
  <2>1. key[i] = <<<<list[i].id, 0>>>> /\ key[j] = <<<<list[j].id, 0>>>>
    BY DEF IdKey
  <2> QED BY <1>2, <2>1
<1> HIDE DEF key
<1>4. KeyBefore(key[i], key[j]) \/ KeyBefore(key[j], key[i])
  BY <1>1, <1>3, KeyTotal
<1>5. Precedes(key, i, j) <=> KeyBefore(key[i], key[j])
  BY <1>4 DEF Precedes
<1> QED BY <1>5 DEF key

LEMMA PlaceIsKept ==
  ASSUME NEW list, IsSearch(list), NEW p \in [DOMAIN list -> DOMAIN list],
         \A i, j \in DOMAIN list : i # j => p[i] # p[j],
         NEW I, I \subseteq DOMAIN list
  PROVE  LET J == Back(list, p, I)
             l == Reordered(list, p)
         IN /\ Cardinality(J) = Cardinality(I)
            /\ \A j \in J : /\ p[j] \in I
                            /\ Place(J, IdKey(l, J), j) = Place(I, IdKey(list, I), p[j])
<1> DEFINE J == Back(list, p, I)
           l == Reordered(list, p)
           ki == IdKey(list, I)
           kj == IdKey(l, J)
<1>1. /\ \A t \in DOMAIN list : \E i \in DOMAIN list : p[i] = t
      /\ IsSearch(l) /\ DOMAIN l = DOMAIN list
  BY ReorderingMovesAll
<1>2. J \subseteq DOMAIN list /\ \A j \in J : p[j] \in I
  BY DEF Back
<1>3. Keyed(I, ki, 1) /\ Keyed(J, kj, 1)
  BY <1>1, <1>2, IdsAreKeys
<1>4. \A j \in J : kj[j] = ki[p[j]]
  BY <1>2 DEF IdKey, Reordered
<1>5. \A i, j \in J : Precedes(kj, i, j) <=> Precedes(ki, p[i], p[j])
  <2> SUFFICES ASSUME NEW i \in J, NEW j \in J
               PROVE  Precedes(kj, i, j) <=> Precedes(ki, p[i], p[j])
    OBVIOUS
  <2>1. CASE i = j
    <3>1. ~Precedes(kj, i, i)
      BY <1>3, PrecedesOrder
    <3>2. ~Precedes(ki, p[i], p[i])
      BY <1>2, <1>3, PrecedesOrder
    <3> QED BY <2>1, <3>1, <3>2
  <2>2. CASE i # j
    <3>1. p[i] # p[j] /\ p[i] \in I /\ p[j] \in I
      BY <1>2, <2>2
    <3>2. Precedes(kj, i, j) <=> KeyBefore(kj[i], kj[j])
      BY <1>1, <1>2, <2>2, IdsPrecede
    <3>3. Precedes(ki, p[i], p[j]) <=> KeyBefore(ki[p[i]], ki[p[j]])
      BY <3>1, IdsPrecede
    <3> QED BY <1>4, <3>2, <3>3
  <2> QED BY <2>1, <2>2
<1>6. \A t \in I : \E j \in J : p[j] = t
  BY <1>1 DEF Back
<1>7. IsFiniteSet(I) /\ IsFiniteSet(J)
  BY <1>3 DEF Keyed
<1> HIDE DEF J, l, ki, kj
<1>8. Cardinality(J) = Cardinality(I)
  <2> DEFINE f == [j \in J |-> p[j]]
  <2>1. f \in Injection(J, I) /\ f \in Surjection(J, I)
    BY <1>2, <1>6 DEF Injection, Surjection, IsInjective
  <2> HIDE DEF f
  <2> QED BY <1>7, <2>1, FS_Injection
<1>9. ASSUME NEW j \in J PROVE Place(J, kj, j) = Place(I, ki, p[j])
  <2> DEFINE S == {i \in J : Precedes(kj, i, j)}
             T == {t \in I : Precedes(ki, t, p[j])}
             f == [i \in S |-> p[i]]
  <2>1. IsFiniteSet(T)
    <3>1. T \subseteq I
      OBVIOUS
    <3> HIDE DEF T
    <3> QED BY <1>7, <3>1, FS_Subset
  <2>2. f \in [S -> T] /\ \A i, k \in S : f[i] = f[k] => i = k
    BY <1>2, <1>5
  <2>3. \A t \in T : \E i \in S : f[i] = t
    BY <1>5, <1>6
  <2> HIDE DEF S, T, f
  <2>4. f \in Injection(S, T) /\ f \in Surjection(S, T)
    BY <2>2, <2>3 DEF Injection, Surjection, IsInjective
  <2>5. Cardinality(S) = Cardinality(T)
    BY <2>1, <2>4, FS_Injection
  <2> QED BY <2>5 DEF Place, S, T
<1> QED BY <1>2, <1>8, <1>9 DEF J, l, ki, kj

LEMMA ByIdIgnoresOrder ==
  ASSUME NEW list, IsSearch(list), NEW p \in [DOMAIN list -> DOMAIN list],
         \A i, j \in DOMAIN list : i # j => p[i] # p[j],
         NEW I, I \subseteq DOMAIN list
  PROVE  ById(Reordered(list, p), Back(list, p, I)) = ById(list, I)
<1> DEFINE J == Back(list, p, I)
           l == Reordered(list, p)
           ki == IdKey(list, I)
           kj == IdKey(l, J)
           n == Cardinality(I)
<1>1. IsSearch(l) /\ DOMAIN l = DOMAIN list /\ J \subseteq DOMAIN list
  BY ReorderingMovesAll DEF Back
<1>2. Keyed(I, ki, 1) /\ Keyed(J, kj, 1)
  BY <1>1, IdsAreKeys
<1>3. /\ Cardinality(J) = n
      /\ \A j \in J : p[j] \in I /\ Place(J, kj, j) = Place(I, ki, p[j])
  BY PlaceIsKept
<1>4. \A j \in J : l[j] = list[p[j]]
  BY <1>1 DEF Reordered
<1>5. ById(list, I) = Sorted(list, I, ki) /\ ById(l, J) = Sorted(l, J, kj)
  BY DEF ById, IdKey
<1> HIDE DEF J, l, ki, kj, n
<1>6. ASSUME NEW k \in 1..n PROVE l[PlaceOf(J, kj, k)] = list[PlaceOf(I, ki, k)]
  <2> DEFINE j == PlaceOf(J, kj, k)
  <2>1. j \in J /\ Place(J, kj, j) = k
    BY <1>2, <1>3, PlacesMatch
  <2>2. p[j] \in I /\ Place(I, ki, p[j]) = k
    BY <1>3, <2>1
  <2>3. PlaceOf(I, ki, k) = p[j]
    BY <1>2, <2>2, PlacesMatch
  <2> QED BY <1>4, <2>1, <2>3
<1>7. /\ Sorted(l, J, kj) = [k \in 1..n |-> l[PlaceOf(J, kj, k)]]
      /\ Sorted(list, I, ki) = [k \in 1..n |-> list[PlaceOf(I, ki, k)]]
  BY <1>3 DEF Sorted, PlaceOf, n
<1>8. Sorted(l, J, kj) = Sorted(list, I, ki)
  BY <1>6, <1>7
<1> QED BY <1>5, <1>8 DEF J, l

LEMMA ScoreIgnoresOrder ==
  ASSUME NEW q, NEW list, IsSearch(list), NEW p \in [DOMAIN list -> DOMAIN list],
         \A i, j \in DOMAIN list : i # j => p[i] # p[j]
  PROVE  Score(q, Reordered(list, p)) = Score(q, list)
<1> DEFINE l == Reordered(list, p)
<1>1. DOMAIN l = DOMAIN list /\ \A i \in DOMAIN list : l[i] = list[p[i]]
  BY DEF Reordered
<1>2. /\ {i \in DOMAIN l : Survives(l[i], q)} = Back(list, p, AliveAt(list, q))
      /\ {i \in DOMAIN l : ~Survives(l[i], q)} = Back(list, p, DroppedAt(list, q))
  BY <1>1 DEF Back, AliveAt, DroppedAt
<1>3. /\ ById(l, Back(list, p, AliveAt(list, q))) = ById(list, AliveAt(list, q))
      /\ ById(l, Back(list, p, DroppedAt(list, q))) = ById(list, DroppedAt(list, q))
  BY ByIdIgnoresOrder DEF AliveAt, DroppedAt
<1> HIDE DEF l
<1>4. Dropped(l, q) = Dropped(list, q) /\ Survivors(l, q) = Survivors(list, q)
  BY <1>2, <1>3 DEF Dropped, Survivors, AliveAt, DroppedAt
<1>5. Score(q, l) = Score(q, list)
  BY <1>4 DEF Score
<1> QED BY <1>5 DEF l

(* The order in which the options are handed over makes no difference to the
   run, for every permutation of a list of any length. *)
THEOREM OrderMakesNoDifference == Spec => []OrderIndependent
<1>1. ScoringInv => OrderIndependent
  BY ScoreIgnoresOrder DEF ScoringInv, OrderIndependent, Reordered
<1> QED BY <1>1, ScoringInvariant, PTL
=============================================================================

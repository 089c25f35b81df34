------------------------------ MODULE CountingProofs ------------------------------
(***************************************************************************)
(* What Pick and SortedDown of Ordering return, for every sequence and     *)
(* every key: the same elements, each once, and in the order they promise; *)
(* and what the sums of the community modules come to.  All of it rests on *)
(* counting: the places that a total order of a finite set gives to its    *)
(* elements are 1, 2 and so on, without a gap, and a sum of naturals is    *)
(* the number of the units it is made of.  At the end, inductions that     *)
(* need no operator for a parameter.                                       *)
(***************************************************************************)
EXTENDS Ordering, FiniteSetTheorems, TLAPS

\* before orders the elements of S: it says which come no later than which.
TotalOrder(S, before) ==
    /\ \A i \in S : <<i, i>> \in before
    /\ \A i, j \in S : <<i, j>> \in before \/ <<j, i>> \in before
    /\ \A i, j \in S : <<i, j>> \in before /\ <<j, i>> \in before => i = j
    /\ \A i, j, k \in S : <<i, j>> \in before /\ <<j, k>> \in before => <<i, k>> \in before

\* The place of an element is the number of those that come no later.
PlaceIn(S, before) == [i \in S |-> Cardinality({j \in S : <<j, i>> \in before})]

\* A place for every element, an element for every place, and the places in the order.
LEMMA PlacesAreExact ==
    ASSUME NEW S, IsFiniteSet(S), NEW before, TotalOrder(S, before),
           NEW place, place = PlaceIn(S, before)
    PROVE  /\ Cardinality(S) \in Nat
           /\ place \in Bijection(S, 1..Cardinality(S))
           /\ \A i, j \in S : place[i] <= place[j] => <<i, j>> \in before
  <1> DEFINE Upto(i) == {j \in S : <<j, i>> \in before}
             n == Cardinality(S)
  <1>1. n \in Nat
    BY FS_CardinalityType
  <1>2. \A i \in S : IsFiniteSet(Upto(i)) /\ Cardinality(Upto(i)) \in Nat /\ Cardinality(Upto(i)) <= n
    <2> TAKE i \in S
    <2>1. Upto(i) \in SUBSET S
      OBVIOUS
    <2>2. QED
      BY <2>1, FS_Subset, FS_CardinalityType
  <1>3. \A i \in S : place[i] = Cardinality(Upto(i))
    BY DEF PlaceIn
  <1>4. \A i \in S : place[i] \in 1..n
    <2> TAKE i \in S
    <2>1. i \in Upto(i)
      BY DEF TotalOrder
    <2>2. Cardinality(Upto(i)) # 0
      BY <2>1, <1>2, FS_EmptySet
    <2>3. QED
      BY <1>1, <1>2, <1>3, <2>2
  <1>5. \A i, j \in S : <<i, j>> \in before /\ i # j => place[i] < place[j]
    <2> TAKE i, j \in S
    <2> HAVE <<i, j>> \in before /\ i # j
    <2>1. Upto(i) \in SUBSET Upto(j)
      BY DEF TotalOrder
    <2>2. j \in Upto(j) /\ j \notin Upto(i)
      BY DEF TotalOrder
    <2>3. Cardinality(Upto(i)) <= Cardinality(Upto(j)) /\ Cardinality(Upto(i)) # Cardinality(Upto(j))
      BY <1>2, <2>1, <2>2, FS_Subset
    <2> HIDE DEF Upto
    <2>4. QED
      BY <1>2, <1>3, <2>3
  <1>6. \A i, j \in S : place[i] <= place[j] => <<i, j>> \in before
    <2> TAKE i, j \in S
    <2> HAVE place[i] <= place[j]
    <2>1. CASE <<j, i>> \in before /\ i # j
      BY <1>1, <1>4, <1>5, <2>1
    <2>2. QED
      BY <2>1 DEF TotalOrder
  <1>7. place \in Injection(S, 1..n)
    <2>1. place \in [S -> 1..n]
      <3> HIDE DEF n
      <3>1. place = [i \in S |-> place[i]]
        BY DEF PlaceIn
      <3>2. QED
        BY <3>1, <1>4
    <2>2. \A i, j \in S : place[i] = place[j] => i = j
      <3> HIDE DEF n
      <3>1. \A i, j \in S : place[i] = place[j] => place[i] <= place[j] /\ place[j] <= place[i]
        BY <1>1, <1>4
      <3>2. QED
        BY <3>1, <1>6 DEF TotalOrder
    <2>3. QED
      BY <2>1, <2>2 DEF Injection, IsInjective
  <1>8. IsFiniteSet(1..n) /\ Cardinality(1..n) = n
    BY <1>1, FS_Interval
  <1>9. place \in Surjection(S, 1..n)
    <2> HIDE DEF n
    <2>1. Cardinality(S) = Cardinality(1..n)
      BY <1>8 DEF n
    <2>2. QED
      BY <1>7, <1>8, <2>1, FS_Injection
  <1>10. QED
    BY <1>1, <1>6, <1>7, <1>9 DEF Bijection

\* A sequence has as many indices as it is long.
LEMMA IndicesAreFinite ==
    ASSUME NEW E, NEW seq \in Seq(E)
    PROVE  IsFiniteSet(DOMAIN seq) /\ Cardinality(DOMAIN seq) = Len(seq)
  <1>1. DOMAIN seq = 1..Len(seq) /\ Len(seq) \in Nat
    OBVIOUS
  <1>2. IsFiniteSet(1..Len(seq)) /\ Cardinality(1..Len(seq)) = Len(seq)
    BY <1>1, FS_Interval
  <1>3. QED
    BY <1>1, <1>2

\* seq is out in another order: p says which index of seq each of out comes from.
Arranges(p, out, seq, S) ==
    /\ p \in Bijection(1..Len(out), S)
    /\ \A k \in 1..Len(out) : out[k] = seq[p[k]]

\* The elements at the indices in S, each once, in the order that gave the places.
LEMMA PlacedInOrder ==
    ASSUME NEW E, NEW seq \in Seq(E), NEW S \in SUBSET DOMAIN seq, NEW before, TotalOrder(S, before),
           NEW out, out = Placed(seq, PlaceIn(S, before))
    PROVE  /\ out \in Seq(E) /\ Len(out) = Cardinality(S)
           /\ \E p : /\ Arranges(p, out, seq, S)
                     /\ \A k, l \in 1..Len(out) : k <= l => <<p[k], p[l]>> \in before
  <1> DEFINE place == PlaceIn(S, before)
             n == Cardinality(S)
             p == [k \in 1..n |-> CHOOSE i \in S : place[i] = k]
  <1>1. IsFiniteSet(S)
    <2> HIDE DEF place, n, p
    <2>1. QED
      BY IndicesAreFinite, FS_Subset
  <1>2. /\ n \in Nat
        /\ place \in Bijection(S, 1..n)
        /\ \A i, j \in S : place[i] <= place[j] => <<i, j>> \in before
    BY <1>1, PlacesAreExact
  <1>3. DOMAIN place = S
    BY DEF PlaceIn
  <1>4. out = [k \in 1..n |-> seq[p[k]]]
    BY <1>3 DEF Placed
  <1> HIDE DEF place, n
  <1>5. \A k \in 1..n : p[k] \in S /\ place[p[k]] = k
    <2> TAKE k \in 1..n
    <2>1. \E i \in S : place[i] = k
      BY <1>2 DEF Bijection, Surjection
    <2>2. QED
      BY <2>1
  <1>6. \A i \in S : place[i] \in 1..n /\ p[place[i]] = i
    <2> TAKE i \in S
    <2>1. place[i] \in 1..n
      BY <1>2 DEF Bijection, Injection
    <2>2. place[p[place[i]]] = place[i] /\ p[place[i]] \in S
      BY <1>5, <2>1
    <2>3. QED
      BY <1>2, <2>1, <2>2 DEF Bijection, Injection, IsInjective
  <1>7. out \in Seq(E) /\ Len(out) = n
    <2>1. \A k \in 1..n : seq[p[k]] \in E
      BY <1>5
    <2> HIDE DEF p
    <2>2. out \in [1..n -> E]
      BY <1>4, <2>1
    <2>3. QED
      BY <1>2, <2>2
  <1>8. p \in Bijection(1..n, S)
    <2>1. p \in [1..n -> S]
      <3>1. p = [k \in 1..n |-> p[k]]
        OBVIOUS
      <3> HIDE DEF p
      <3>2. QED
        BY <3>1, <1>5
    <2> HIDE DEF p
    <2>2. \A k, l \in 1..n : p[k] = p[l] => k = l
      BY <1>5
    <2>3. \A i \in S : \E k \in 1..n : p[k] = i
      BY <1>6
    <2>4. QED
      BY <2>1, <2>2, <2>3 DEF Bijection, Injection, IsInjective, Surjection
  <1>9. \A k, l \in 1..n : k <= l => <<p[k], p[l]>> \in before
    <2> HIDE DEF p
    <2>1. QED
      BY <1>2, <1>5
  <1>10. \A k \in 1..n : out[k] = seq[p[k]]
    BY <1>4
  <1> HIDE DEF p
  <1>11. Arranges(p, out, seq, S) /\ \A k, l \in 1..Len(out) : k <= l => <<p[k], p[l]>> \in before
    BY <1>7, <1>8, <1>9, <1>10 DEF Arranges
  <1>12. QED
    BY <1>7, <1>11 DEF n

-------------------------------------------------------------------------------
\* Pick keeps the elements at the indices it is given, in their order.
THEOREM PickKeeps ==
    ASSUME NEW E, NEW seq \in Seq(E), NEW S \in SUBSET DOMAIN seq,
           NEW out, out = Pick(seq, S)
    PROVE  /\ out \in Seq(E) /\ Len(out) = Cardinality(S)
           /\ \E p : /\ Arranges(p, out, seq, S)
                     /\ \A k, l \in 1..Len(out) : k <= l => p[k] <= p[l]
  <1> DEFINE before == {x \in S \X S : x[1] <= x[2]}
  <1>1. S \subseteq Int
    OBVIOUS
  <1>2. \A i, j \in S : <<i, j>> \in before <=> i <= j
    OBVIOUS
  <1>3. \A i \in S : {j \in S : j <= i} = {j \in S : <<j, i>> \in before}
    BY <1>2
  <1> HIDE DEF before
  <1>4. TotalOrder(S, before)
    BY <1>1, <1>2 DEF TotalOrder
  <1>5. out = Placed(seq, PlaceIn(S, before))
    BY <1>3 DEF Pick, PlaceIn
  <1>6. /\ out \in Seq(E) /\ Len(out) = Cardinality(S)
        /\ \E p : /\ Arranges(p, out, seq, S)
                  /\ \A k, l \in 1..Len(out) : k <= l => <<p[k], p[l]>> \in before
    BY <1>4, <1>5, PlacedInOrder
  <1>7. PICK p : /\ Arranges(p, out, seq, S)
                 /\ \A k, l \in 1..Len(out) : k <= l => <<p[k], p[l]>> \in before
    BY <1>6
  <1>8. \A k \in 1..Len(out) : p[k] \in S
    BY <1>7 DEF Arranges, Bijection, Injection
  <1>9. QED
    BY <1>2, <1>6, <1>7, <1>8

\* SortedDown loses, doubles and adds nothing, puts the higher key first, and leaves the equal
\* ones in the order they came in: Python's sort is stable, with reverse=True too.
THEOREM SortedDownIsStable ==
    ASSUME NEW E, NEW seq \in Seq(E), NEW key, \A i \in DOMAIN seq : key[i] \in Int,
           NEW out, out = SortedDown(seq, key)
    PROVE  /\ out \in Seq(E) /\ Len(out) = Len(seq)
           /\ \E p : /\ Arranges(p, out, seq, DOMAIN seq)
                     /\ \A k, l \in 1..Len(out) : k <= l => key[p[k]] >= key[p[l]]
                     /\ \A k, l \in 1..Len(out) :
                            k <= l /\ key[p[k]] = key[p[l]] => p[k] <= p[l]
  <1> DEFINE S == DOMAIN seq
             before == {x \in S \X S : \/ key[x[1]] > key[x[2]]
                                       \/ key[x[1]] = key[x[2]] /\ x[1] <= x[2]}
  <1>1. /\ S \subseteq Int /\ Cardinality(S) = Len(seq) /\ S \in SUBSET DOMAIN seq
        /\ \A i \in S : key[i] \in Int
    BY IndicesAreFinite
  <1>2. \A i, j \in S : <<i, j>> \in before
                            <=> key[i] > key[j] \/ (key[i] = key[j] /\ i <= j)
    OBVIOUS
  <1>3. \A i \in S : {j \in S : key[j] > key[i] \/ (key[j] = key[i] /\ j <= i)}
                        = {j \in S : <<j, i>> \in before}
    BY <1>2
  <1> HIDE DEF before
  <1>4. TotalOrder(S, before)
    <2> HIDE DEF S
    <2>1. \A i \in S : <<i, i>> \in before
      BY <1>1, <1>2
    <2>2. \A i, j \in S : <<i, j>> \in before \/ <<j, i>> \in before
      <3> TAKE i, j \in S
      <3>1. i \in Int /\ j \in Int /\ key[i] \in Int /\ key[j] \in Int
        BY <1>1
      <3>2. \/ key[i] > key[j] \/ (key[i] = key[j] /\ i <= j)
            \/ key[j] > key[i] \/ (key[j] = key[i] /\ j <= i)
        BY <3>1
      <3>3. QED
        BY <1>2, <3>2
    <2>3. \A i, j \in S : <<i, j>> \in before /\ <<j, i>> \in before => i = j
      BY <1>1, <1>2
    <2>4. \A i, j, k \in S : <<i, j>> \in before /\ <<j, k>> \in before => <<i, k>> \in before
      BY <1>1, <1>2
    <2>5. QED
      BY <2>1, <2>2, <2>3, <2>4 DEF TotalOrder
  <1>5. out = Placed(seq, PlaceIn(S, before))
    BY <1>3 DEF SortedDown, PlaceIn
  <1>6. /\ out \in Seq(E) /\ Len(out) = Len(seq)
        /\ \E p : /\ Arranges(p, out, seq, S)
                  /\ \A k, l \in 1..Len(out) : k <= l => <<p[k], p[l]>> \in before
    BY <1>1, <1>4, <1>5, PlacedInOrder
  <1>7. PICK p : /\ Arranges(p, out, seq, S)
                 /\ \A k, l \in 1..Len(out) : k <= l => <<p[k], p[l]>> \in before
    BY <1>6
  <1>8. \A k \in 1..Len(out) : p[k] \in S
    BY <1>7 DEF Arranges, Bijection, Injection
  <1>9. \A k, l \in 1..Len(out) : k <= l => key[p[k]] >= key[p[l]]
    <2> HIDE DEF S
    <2> TAKE k, l \in 1..Len(out)
    <2> HAVE k <= l
    <2>1. p[k] \in S /\ p[l] \in S /\ <<p[k], p[l]>> \in before
      BY <1>7, <1>8
    <2>2. key[p[k]] \in Int /\ key[p[l]] \in Int
      BY <1>1, <2>1
    <2>3. QED
      BY <1>2, <2>1, <2>2
  <1>10. \A k, l \in 1..Len(out) : k <= l /\ key[p[k]] = key[p[l]] => p[k] <= p[l]
    <2> HIDE DEF S
    <2> TAKE k, l \in 1..Len(out)
    <2> HAVE k <= l /\ key[p[k]] = key[p[l]]
    <2>1. p[k] \in S /\ p[l] \in S /\ <<p[k], p[l]>> \in before
      BY <1>7, <1>8
    <2>2. key[p[k]] \in Int /\ key[p[l]] \in Int
      BY <1>1, <2>1
    <2>3. QED
      BY <1>2, <2>1, <2>2
  <1>11. QED
    BY <1>6, <1>7, <1>9, <1>10

\* The same without the order of the equal ones, which most of the rankings do not need.
LEMMA SortedDownSorts ==
    ASSUME NEW E, NEW seq \in Seq(E), NEW key, \A i \in DOMAIN seq : key[i] \in Int,
           NEW out, out = SortedDown(seq, key)
    PROVE  /\ out \in Seq(E) /\ Len(out) = Len(seq)
           /\ \E p : /\ Arranges(p, out, seq, DOMAIN seq)
                     /\ \A k, l \in 1..Len(out) : k <= l => key[p[k]] >= key[p[l]]
  <1>1. PICK p : /\ Arranges(p, out, seq, DOMAIN seq)
                 /\ \A k, l \in 1..Len(out) : k <= l => key[p[k]] >= key[p[l]]
    BY SortedDownIsStable
  <1>2. out \in Seq(E) /\ Len(out) = Len(seq)
    BY SortedDownIsStable
  <1>3. QED
    BY <1>1, <1>2
-------------------------------------------------------------------------------
\* A sequence it is without any order: as long as there are places.
LEMMA PlacedIsASequence ==
    ASSUME NEW seq, NEW place, IsFiniteSet(DOMAIN place), NEW out, out = Placed(seq, place)
    PROVE  out \in Seq({out[k] : k \in 1..Cardinality(DOMAIN place)})
  <1> DEFINE n == Cardinality(DOMAIN place)
             E == {out[k] : k \in 1..n}
  <1>1. n \in Nat
    BY FS_CardinalityType
  <1>2. out = [k \in 1..n |-> out[k]]
    BY DEF Placed
  <1>3. \A k \in 1..n : out[k] \in E
    OBVIOUS
  <1> HIDE DEF n, E
  <1>4. out \in [1..n -> E]
    BY <1>2, <1>3
  <1>5. out \in Seq(E)
    BY <1>1, <1>4
  <1>6. QED
    BY <1>5 DEF n, E

\* Sorting a sequence by whatever keys gives a sequence.
LEMMA SortedDownIsASequence ==
    ASSUME NEW E, NEW seq \in Seq(E), NEW key, NEW out, out = SortedDown(seq, key)
    PROVE  \E F : out \in Seq(F)
  BY IndicesAreFinite, PlacedIsASequence DEF SortedDown

\* Nothing comes of nothing.
LEMMA NoneSorted ==
    ASSUME NEW seq, NEW key, DOMAIN seq = {}
    PROVE  DOMAIN SortedDown(seq, key) = {}
  <1> DEFINE p == [i \in DOMAIN seq |->
                 Cardinality({j \in DOMAIN seq : key[j] > key[i] \/ (key[j] = key[i] /\ j <= i)})]
  <1>1. SortedDown(seq, key) = Placed(seq, p)
    BY DEF SortedDown
  <1>2. Cardinality(DOMAIN p) = 0
    BY FS_EmptySet
  <1>3. QED
    BY <1>1, <1>2 DEF Placed

\* A finite set of integers has a greatest element: the last one in its order.
LEMMA GreatestOf ==
    ASSUME NEW S \in SUBSET Int, IsFiniteSet(S), S # {}
    PROVE  Max(S) \in S /\ \A y \in S : Max(S) >= y
  <1> DEFINE before == {x \in S \X S : x[1] <= x[2]}
             place == PlaceIn(S, before)
             n == Cardinality(S)
  <1>1. \A i, j \in S : <<i, j>> \in before <=> i <= j
    OBVIOUS
  <1>2. TotalOrder(S, before)
    <2> HIDE DEF before
    <2>1. QED
      BY <1>1 DEF TotalOrder
  <1> HIDE DEF before
  <1>3. /\ n \in Nat /\ place \in Bijection(S, 1..n)
        /\ \A i, j \in S : place[i] <= place[j] => <<i, j>> \in before
    BY <1>2, PlacesAreExact
  <1>4. n # 0
    BY FS_EmptySet
  <1> HIDE DEF place, n
  <1>5. PICK x \in S : place[x] = n
    BY <1>3, <1>4 DEF Bijection, Surjection
  <1>6. \A y \in S : place[y] <= place[x]
    BY <1>3, <1>5 DEF Bijection, Injection
  <1>7. \A y \in S : x >= y
    BY <1>1, <1>3, <1>6
  <1>8. QED
    BY <1>7 DEF Max

\* The lesser of two integers.
LEMMA LesserOf ==
    ASSUME NEW a \in Int, NEW b \in Int
    PROVE  Min({a, b}) \in {a, b} /\ Min({a, b}) <= a /\ Min({a, b}) <= b
  <1>1. \E x \in {a, b} : \A y \in {a, b} : x <= y
    OBVIOUS
  <1>2. QED
    BY <1>1 DEF Min

\* The greater of two integers.
LEMMA GreaterOf ==
    ASSUME NEW a \in Int, NEW b \in Int
    PROVE  Max({a, b}) \in {a, b} /\ Max({a, b}) >= a /\ Max({a, b}) >= b
  <1>1. \E x \in {a, b} : \A y \in {a, b} : x >= y
    OBVIOUS
  <1>2. QED
    BY <1>1 DEF Max

\* Every element at an index in S is among those that were picked.
LEMMA PickedAll ==
    ASSUME NEW E, NEW seq \in Seq(E), NEW S \in SUBSET DOMAIN seq
    PROVE  /\ Pick(seq, S) \in Seq(E)
           /\ \A i \in S : \E k \in DOMAIN Pick(seq, S) : Pick(seq, S)[k] = seq[i]
  <1> DEFINE out == Pick(seq, S)
  <1>1. out \in Seq(E) /\ \E p : Arranges(p, out, seq, S)
    BY PickKeeps
  <1> HIDE DEF out
  <1>2. PICK p : Arranges(p, out, seq, S)
    BY <1>1
  <1>3. \A i \in S : \E k \in DOMAIN out : out[k] = seq[i]
    BY <1>1, <1>2 DEF Arranges, Bijection, Surjection
  <1>4. QED
    BY <1>1, <1>3 DEF out
-------------------------------------------------------------------------------
\* What holds of the empty set, and of a set if of all with an element less, holds of all.
LEMMA ByRemoval ==
    ASSUME NEW S, IsFiniteSet(S), NEW Good, {} \in Good,
           \A s \in SUBSET S : s # {} /\ (\A x \in s : s \ {x} \in Good) => s \in Good
    PROVE  \A s \in SUBSET S : s \in Good
  <1> DEFINE Bad == {s \in SUBSET S : s \notin Good}
             sizes == {-Cardinality(s) : s \in Bad}
             n == Cardinality(S)
  <1>1. n \in Nat /\ IsFiniteSet((-n)..0)
    BY FS_CardinalityType, FS_Interval
  <1>2. \A s \in SUBSET S : IsFiniteSet(s) /\ Cardinality(s) \in Nat /\ Cardinality(s) <= n
    BY FS_Subset, FS_CardinalityType
  <1>3. sizes \in SUBSET ((-n)..0)
    <2> SUFFICES ASSUME NEW s \in Bad PROVE -Cardinality(s) \in (-n)..0
      OBVIOUS
    <2> HIDE DEF n
    <2>1. Cardinality(s) \in Nat /\ Cardinality(s) <= n
      BY <1>2
    <2>2. QED
      BY <1>1, <2>1
  <1>4. IsFiniteSet(sizes) /\ sizes \in SUBSET Int
    <2> HIDE DEF sizes
    <2>1. IsFiniteSet(sizes)
      BY <1>1, <1>3, FS_Subset
    <2> HIDE DEF n
    <2>2. QED
      BY <1>1, <1>3, <2>1
  <1>5. SUFFICES ASSUME Bad # {} PROVE FALSE
    OBVIOUS
  <1>6. sizes # {}
    BY <1>5
  <1>7. Max(sizes) \in sizes /\ \A y \in sizes : Max(sizes) >= y
    <2> HIDE DEF sizes
    <2>1. QED
      BY <1>4, <1>6, GreatestOf
  <1>8. PICK s \in Bad : \A t \in Bad : -Cardinality(s) >= -Cardinality(t)
    <2>1. PICK s \in Bad : Max(sizes) = -Cardinality(s)
      BY <1>7
    <2>2. QED
      BY <1>7, <2>1
  <1>9. ASSUME NEW x \in s PROVE s \ {x} \in Good
    <2>1. Cardinality(s \ {x}) = Cardinality(s) - 1 /\ Cardinality(s) \in Nat
      BY <1>2, FS_RemoveElement
    <2>2. s \ {x} \notin Bad
      BY <1>8, <2>1
    <2>3. QED
      BY <2>2
  <1>10. s # {} /\ s \in SUBSET S /\ s \notin Good
    OBVIOUS
  <1>11. QED
    BY <1>9, <1>10

\* The units of a sum: as many for an element as it adds.
Units(fun, S) == {p \in S \X Nat : 1 <= p[2] /\ p[2] <= fun[p[1]]}

\* An element adds its own.
LEMMA UnitsAdd ==
    ASSUME NEW fun, NEW s, NEW x \in s, fun[x] \in Nat, IsFiniteSet(Units(fun, s \ {x}))
    PROVE  /\ IsFiniteSet(Units(fun, s))
           /\ Cardinality(Units(fun, s)) = fun[x] + Cardinality(Units(fun, s \ {x}))
  <1> DEFINE own == {x} \X (1..fun[x])
             rest == Units(fun, s \ {x})
  <1>1. IsFiniteSet({x}) /\ Cardinality({x}) = 1
    BY FS_Singleton
  <1>2. IsFiniteSet(1..fun[x]) /\ Cardinality(1..fun[x]) = fun[x]
    BY FS_Interval
  <1>3. IsFiniteSet(own) /\ Cardinality(own) = fun[x]
    <2>1. IsFiniteSet(own) /\ Cardinality(own) = Cardinality({x}) * Cardinality(1..fun[x])
      BY <1>1, <1>2, FS_Product
    <2>2. Cardinality({x}) * Cardinality(1..fun[x]) = fun[x]
      <3> HIDE DEF own
      <3> QED BY <1>1, <1>2
    <2>3. QED
      BY <2>1, <2>2
  <1>4. Units(fun, s) = own \cup rest
    <2>1. \A p \in Units(fun, s) : p \in own \cup rest
      BY DEF Units
    <2>2. \A p \in own : p \in Units(fun, s)
      BY DEF Units
    <2>3. \A p \in rest : p \in Units(fun, s)
      BY DEF Units
    <2>4. QED
      BY <2>1, <2>2, <2>3
  <1>5. own \cap rest = {}
    BY DEF Units
  <1>6. IsFiniteSet(rest) /\ Cardinality(rest) \in Nat
    BY FS_CardinalityType
  <1> HIDE DEF own, rest
  <1>7. /\ IsFiniteSet(own \cup rest)
        /\ Cardinality(own \cup rest) = Cardinality(own) + Cardinality(rest) - 0
    BY <1>3, <1>5, <1>6, FS_Union, FS_EmptySet
  <1>8. QED
    BY <1>3, <1>4, <1>6, <1>7 DEF rest

\* A sum of naturals has finitely many.
LEMMA UnitsFinite ==
    ASSUME NEW S, IsFiniteSet(S), NEW fun, \A x \in S : fun[x] \in Nat
    PROVE  \A s \in SUBSET S : IsFiniteSet(Units(fun, s))
  <1> DEFINE Good == {s \in SUBSET S : IsFiniteSet(Units(fun, s))}
  <1>1. Units(fun, {}) = {}
    BY DEF Units
  <1>2. {} \in Good
    BY <1>1, FS_EmptySet
  <1>3. ASSUME NEW s \in SUBSET S, s # {}, \A x \in s : s \ {x} \in Good
        PROVE  s \in Good
    <2>1. PICK x \in s : TRUE
      BY <1>3
    <2>2. IsFiniteSet(Units(fun, s \ {x}))
      BY <1>3
    <2>3. QED
      BY <2>2, UnitsAdd
  <1> HIDE DEF Good
  <1>4. \A s \in SUBSET S : s \in Good
    BY <1>2, <1>3, ByRemoval
  <1>5. QED
    BY <1>4 DEF Good

\* What the sum's definition asks of the sums over the subsets.
Accumulates(sum, fun, S) ==
    sum = [s \in SUBSET S |-> IF s = {} THEN 0
                              ELSE LET x == CHOOSE x \in s : TRUE IN fun[x] + sum[s \ {x}]]

\* A sum of naturals is the number of its units.
THEOREM SumIsCount ==
    ASSUME NEW S, IsFiniteSet(S), NEW fun, \A x \in S : fun[x] \in Nat
    PROVE  /\ SumFunctionOnSet(fun, S) = Cardinality(Units(fun, S))
           /\ SumFunctionOnSet(fun, S) \in Nat
  <1> DEFINE count == [s \in SUBSET S |-> Cardinality(Units(fun, s))]
             sum == CHOOSE f : Accumulates(f, fun, S)
  <1>1. \A s \in SUBSET S : IsFiniteSet(Units(fun, s)) /\ Cardinality(Units(fun, s)) \in Nat
    BY UnitsFinite, FS_CardinalityType
  <1>2. Units(fun, {}) = {} /\ Cardinality({}) = 0
    BY FS_EmptySet DEF Units
  <1>3. ASSUME NEW s \in SUBSET S, NEW x \in s
        PROVE  count[s] = fun[x] + count[s \ {x}]
    <2>1. Cardinality(Units(fun, s)) = fun[x] + Cardinality(Units(fun, s \ {x}))
      BY <1>1, UnitsAdd
    <2>2. QED
      BY <2>1
  <1>4. Accumulates(count, fun, S)
    <2>1. \A s \in SUBSET S : s # {} => (CHOOSE x \in s : TRUE) \in s
      OBVIOUS
    <2>2. count = [s \in SUBSET S |-> count[s]] /\ count[{}] = 0
      BY <1>2
    <2> HIDE DEF count
    <2>3. \A s \in SUBSET S : count[s] = IF s = {} THEN 0
                  ELSE LET x == CHOOSE x \in s : TRUE IN fun[x] + count[s \ {x}]
      BY <1>3, <2>1, <2>2
    <2>4. QED
      BY <2>2, <2>3 DEF Accumulates
  <1>5. Accumulates(sum, fun, S)
    BY <1>4
  <1>6. SumFunctionOnSet(fun, S) = sum[S]
    BY DEF SumFunctionOnSet, FoldFunctionOnSet, MapThenFoldSet, Accumulates
  <1> DEFINE Good == {s \in SUBSET S : sum[s] = count[s]}
  <1>7. count[{}] = 0
    BY <1>2
  <1> HIDE DEF count, sum
  <1>8. {} \in Good
    BY <1>5, <1>7 DEF Accumulates
  <1>9. ASSUME NEW s \in SUBSET S, s # {}, \A x \in s : s \ {x} \in Good
        PROVE  s \in Good
    <2> DEFINE x == CHOOSE x \in s : TRUE
    <2>1. x \in s
      BY <1>9
    <2>2. sum[s] = fun[x] + sum[s \ {x}]
      BY <1>5, <1>9 DEF Accumulates
    <2> HIDE DEF x
    <2>3. sum[s \ {x}] = count[s \ {x}]
      BY <1>9, <2>1
    <2>4. QED
      BY <1>3, <2>1, <2>2, <2>3
  <1> HIDE DEF Good
  <1>10. \A s \in SUBSET S : s \in Good
    BY <1>8, <1>9, ByRemoval
  <1>11. sum[S] = count[S]
    BY <1>10 DEF Good
  <1>12. QED
    BY <1>1, <1>6, <1>11 DEF count

\* A sum, and what is left of it without an element.
LEMMA SumSplits ==
    ASSUME NEW S, IsFiniteSet(S), NEW fun, \A x \in S : fun[x] \in Nat
    PROVE  /\ SumFunctionOnSet(fun, {}) = 0
           /\ \A s \in SUBSET S : SumFunctionOnSet(fun, s) \in Nat
           /\ \A s \in SUBSET S : \A x \in s :
                SumFunctionOnSet(fun, s) = fun[x] + SumFunctionOnSet(fun, s \ {x})
  <1>1. \A s \in SUBSET S : /\ SumFunctionOnSet(fun, s) = Cardinality(Units(fun, s))
                            /\ SumFunctionOnSet(fun, s) \in Nat
                            /\ IsFiniteSet(Units(fun, s))
    <2> TAKE s \in SUBSET S
    <2>1. IsFiniteSet(s)
      BY FS_Subset
    <2>2. QED
      BY <2>1, SumIsCount, UnitsFinite
  <1>2. Units(fun, {}) = {}
    BY DEF Units
  <1>3. SumFunctionOnSet(fun, {}) = 0
    BY <1>1, <1>2, FS_EmptySet
  <1>4. ASSUME NEW s \in SUBSET S, NEW x \in s
        PROVE  SumFunctionOnSet(fun, s) = fun[x] + SumFunctionOnSet(fun, s \ {x})
    <2>1. s \ {x} \in SUBSET S /\ fun[x] \in Nat /\ IsFiniteSet(Units(fun, s \ {x}))
      BY <1>1
    <2>2. Cardinality(Units(fun, s)) = fun[x] + Cardinality(Units(fun, s \ {x}))
      BY <1>1, <2>1, UnitsAdd
    <2>3. QED
      BY <1>1, <2>1, <2>2
  <1>5. QED
    BY <1>1, <1>3, <1>4

\* If every element adds to one sum, times a, no less than to another, times b, so do all.
THEOREM SumsCompare ==
    ASSUME NEW S, IsFiniteSet(S), NEW f, NEW g, NEW a \in Nat, NEW b \in Nat,
           \A x \in S : f[x] \in Nat /\ g[x] \in Nat /\ a * f[x] >= b * g[x]
    PROVE  a * SumFunctionOnSet(f, S) >= b * SumFunctionOnSet(g, S)
  <1> DEFINE F(s) == SumFunctionOnSet(f, s)
             G(s) == SumFunctionOnSet(g, s)
             Good == {s \in SUBSET S : a * F(s) >= b * G(s)}
  <1>1. /\ F({}) = 0 /\ G({}) = 0
        /\ \A s \in SUBSET S : F(s) \in Nat /\ G(s) \in Nat
        /\ \A s \in SUBSET S : \A x \in s : F(s) = f[x] + F(s \ {x}) /\ G(s) = g[x] + G(s \ {x})
    <2>1. \A fun : (\A x \in S : fun[x] \in Nat) =>
              /\ SumFunctionOnSet(fun, {}) = 0
              /\ \A s \in SUBSET S : SumFunctionOnSet(fun, s) \in Nat
              /\ \A s \in SUBSET S : \A x \in s :
                   SumFunctionOnSet(fun, s) = fun[x] + SumFunctionOnSet(fun, s \ {x})
      BY SumSplits
    <2>2. /\ F({}) = 0 /\ \A s \in SUBSET S : F(s) \in Nat
          /\ \A s \in SUBSET S : \A x \in s : F(s) = f[x] + F(s \ {x})
      BY <2>1
    <2>3. /\ G({}) = 0 /\ \A s \in SUBSET S : G(s) \in Nat
          /\ \A s \in SUBSET S : \A x \in s : G(s) = g[x] + G(s \ {x})
      BY <2>1
    <2> HIDE DEF F, G
    <2>4. QED
      BY <2>2, <2>3
  <1> HIDE DEF F, G
  <1>2. {} \in Good
    BY <1>1
  <1>3. ASSUME NEW s \in SUBSET S, s # {}, \A x \in s : s \ {x} \in Good
        PROVE  s \in Good
    <2>1. PICK x \in s : TRUE
      BY <1>3
    <2>2. a * F(s \ {x}) >= b * G(s \ {x}) /\ F(s \ {x}) \in Nat /\ G(s \ {x}) \in Nat
      BY <1>1, <1>3, <2>1
    <2>3. F(s) = f[x] + F(s \ {x}) /\ G(s) = g[x] + G(s \ {x})
      BY <1>1, <2>1
    <2>4. a * f[x] >= b * g[x] /\ f[x] \in Nat /\ g[x] \in Nat
      BY <2>1
    <2>5. \A p, q, r, t \in Nat : a * p >= b * q /\ a * r >= b * t => a * (p + r) >= b * (q + t)
      <3> TAKE p, q, r, t \in Nat
      <3>1. a * (p + r) = a * p + a * r /\ b * (q + t) = b * q + b * t
        OBVIOUS
      <3>2. a * p \in Nat /\ a * r \in Nat /\ b * q \in Nat /\ b * t \in Nat
        OBVIOUS
      <3>3. QED
        BY <3>1, <3>2
    <2>6. a * F(s) >= b * G(s)
      BY <2>2, <2>3, <2>4, <2>5
    <2>7. QED
      BY <2>6
  <1> HIDE DEF Good
  <1>4. S \in Good
    BY <1>2, <1>3, ByRemoval
  <1>5. QED
    BY <1>4 DEF Good, F, G

\* A sum to which some element adds.
LEMMA SumIsPositive ==
    ASSUME NEW S, IsFiniteSet(S), NEW fun, \A x \in S : fun[x] \in Nat, NEW y \in S, fun[y] > 0
    PROVE  SumFunctionOnSet(fun, S) > 0
  <1>1. /\ SumFunctionOnSet(fun, S) = fun[y] + SumFunctionOnSet(fun, S \ {y})
        /\ SumFunctionOnSet(fun, S \ {y}) \in Nat
    BY SumSplits
  <1>2. QED
    BY <1>1

\* Two sums of which every element of one adds what its partner of the other does.
LEMMA SumsAgree ==
    ASSUME NEW S, NEW T, IsFiniteSet(S), IsFiniteSet(T), NEW f, NEW g, NEW b \in Bijection(S, T),
           \A x \in S : f[x] \in Nat /\ f[x] = g[b[x]]
    PROVE  SumFunctionOnSet(f, S) = SumFunctionOnSet(g, T)
  <1>1. \A y \in T : g[y] \in Nat
    BY DEF Bijection, Surjection, Injection, IsInjective
  <1> DEFINE A == Units(f, S)
             B == Units(g, T)
             c == [p \in A |-> <<b[p[1]], p[2]>>]
  <1>2. b \in [S -> T] /\ (\A x, y \in S : b[x] = b[y] => x = y) /\ (\A y \in T : \E x \in S : b[x] = y)
    BY DEF Bijection, Surjection, Injection, IsInjective
  <1>3. c \in [A -> B]
    BY <1>2 DEF Units
  <1>4. \A p, q \in A : c[p] = c[q] => p = q
    BY <1>2 DEF Units
  <1>5. \A r \in B : \E p \in A : c[p] = r
    <2> TAKE r \in B
    <2>1. r[1] \in T /\ r[2] \in Nat /\ 1 <= r[2] /\ r[2] <= g[r[1]] /\ r = <<r[1], r[2]>>
      BY DEF Units
    <2>2. PICK x \in S : b[x] = r[1]
      BY <1>2, <2>1
    <2>3. <<x, r[2]>> \in A
      BY <2>1, <2>2 DEF Units
    <2>4. c[<<x, r[2]>>] = r
      BY <2>1, <2>2, <2>3
    <2>5. QED
      BY <2>3, <2>4
  <1>6. ExistsBijection(A, B)
    <2> HIDE DEF A, B, c
    <2>1. c \in Bijection(A, B)
      BY <1>3, <1>4, <1>5 DEF Bijection, Injection, Surjection, IsInjective
    <2>2. QED
      BY <2>1 DEF ExistsBijection
  <1>7. IsFiniteSet(A)
    BY UnitsFinite
  <1>8. Cardinality(A) = Cardinality(B)
    BY <1>6, <1>7, FS_Bijection
  <1>9. QED
    BY <1>1, <1>8, SumIsCount

\* A finite set of integers has a least element.
LEMMA LeastOf ==
    ASSUME NEW S \in SUBSET Int, IsFiniteSet(S), S # {}
    PROVE  \E x \in S : \A y \in S : x <= y
  <1> DEFINE negated == [x \in S |-> -x]
             T == {-x : x \in S}
  <1>1. T \in SUBSET Int /\ T # {}
    <2>1. \A x \in S : x \in Int /\ -x \in Int
      OBVIOUS
    <2>2. QED
      BY <2>1
  <1>2. negated \in Surjection(S, T)
    BY DEF Surjection
  <1>3. IsFiniteSet(T)
    <2> HIDE DEF negated, T
    <2>1. QED
      BY <1>2, FS_Surjection
  <1>4. Max(T) \in T /\ \A y \in T : Max(T) >= y
    <2> HIDE DEF negated, T
    <2>1. QED
      BY <1>1, <1>3, GreatestOf
  <1>5. PICK x \in S : Max(T) = -x
    BY <1>4
  <1>6. \A y \in S : -x >= -y
    BY <1>4, <1>5
  <1>7. QED
    BY <1>6

\* A sum to which every element adds the same.
LEMMA SumOfSame ==
    ASSUME NEW S, IsFiniteSet(S), NEW v \in Nat, NEW fun, \A x \in S : fun[x] = v
    PROVE  SumFunctionOnSet(fun, S) = v * Cardinality(S)
  <1> DEFINE F(s) == SumFunctionOnSet(fun, s)
             Good == {s \in SUBSET S : F(s) = v * Cardinality(s)}
  <1>1. /\ F({}) = 0
        /\ \A s \in SUBSET S : F(s) \in Nat
        /\ \A s \in SUBSET S : \A x \in s : F(s) = fun[x] + F(s \ {x})
    BY SumSplits
  <1> HIDE DEF F
  <1>2. {} \in Good
    BY <1>1, FS_EmptySet
  <1>3. ASSUME NEW s \in SUBSET S, s # {}, \A x \in s : s \ {x} \in Good
        PROVE  s \in Good
    <2>1. PICK x \in s : TRUE
      BY <1>3
    <2>2. IsFiniteSet(s) /\ Cardinality(s) \in Nat
      BY FS_Subset, FS_CardinalityType
    <2>3. Cardinality(s \ {x}) = Cardinality(s) - 1
      BY <2>1, <2>2, FS_RemoveElement
    <2>4. F(s \ {x}) = v * (Cardinality(s) - 1)
      BY <1>3, <2>1, <2>3
    <2>5. F(s) = v + v * (Cardinality(s) - 1)
      BY <1>1, <2>1, <2>4
    <2>6. \A n \in Nat : v + v * (n - 1) = v * n
      OBVIOUS
    <2>7. QED
      BY <2>2, <2>5, <2>6
  <1> HIDE DEF Good
  <1>4. \A s \in SUBSET S : s # {} /\ (\A x \in s : s \ {x} \in Good) => s \in Good
    BY <1>3
  <1>5. \A s \in SUBSET S : s \in Good
    BY <1>2, <1>4, ByRemoval
  <1>6. QED
    BY <1>5 DEF Good, F

\* If every element, times a, is no less than b, then the sum is no less than b for each.
LEMMA SumIsAbove ==
    ASSUME NEW S, IsFiniteSet(S), NEW fun, NEW a \in Nat, NEW b \in Nat,
           \A x \in S : fun[x] \in Nat /\ a * fun[x] >= b
    PROVE  a * SumFunctionOnSet(fun, S) >= b * Cardinality(S)
  <1> DEFINE one == [x \in S |-> 1]
  <1>1. \A x \in S : one[x] \in Nat /\ a * fun[x] >= b * one[x]
    OBVIOUS
  <1>2. \A x \in S : one[x] = 1
    OBVIOUS
  <1> HIDE DEF one
  <1>3. a * SumFunctionOnSet(fun, S) >= b * SumFunctionOnSet(one, S)
    BY <1>1, SumsCompare
  <1>4. SumFunctionOnSet(one, S) = 1 * Cardinality(S) /\ Cardinality(S) \in Nat
    BY <1>2, SumOfSame, FS_CardinalityType
  <1>5. QED
    BY <1>3, <1>4

\* If every element is less than bound, then the sum is less than bound for each.
LEMMA SumIsBelow ==
    ASSUME NEW S, IsFiniteSet(S), S # {}, NEW fun, NEW bound \in Nat,
           \A x \in S : fun[x] \in Nat /\ fun[x] < bound
    PROVE  SumFunctionOnSet(fun, S) < bound * Cardinality(S)
  <1> DEFINE one == [x \in S |-> 1]
             less == bound - 1
  <1>1. PICK y \in S : TRUE
    OBVIOUS
  <1>2. less \in Nat
    BY <1>1
  <1>3. \A x \in S : one[x] \in Nat /\ one[x] = 1 /\ fun[x] \in Nat /\ less * one[x] >= 1 * fun[x]
    OBVIOUS
  <1>4. Cardinality(S) \in Nat /\ Cardinality(S) # 0
    BY FS_CardinalityType, FS_EmptySet
  <1>5. SumFunctionOnSet(fun, S) \in Nat
    BY SumIsCount
  <1>6. \A n \in Nat : less * n = bound * n - n /\ bound * n \in Nat
    OBVIOUS
  <1> HIDE DEF one, less
  <1>7. less * SumFunctionOnSet(one, S) >= 1 * SumFunctionOnSet(fun, S)
    BY <1>2, <1>3, SumsCompare
  <1>8. SumFunctionOnSet(one, S) = 1 * Cardinality(S)
    BY <1>3, SumOfSame
  <1>9. less * Cardinality(S) >= SumFunctionOnSet(fun, S)
    BY <1>4, <1>5, <1>7, <1>8
  <1>10. QED
    BY <1>4, <1>5, <1>6, <1>9
-------------------------------------------------------------------------------
\* What holds of the first number, and of the next after any it holds of, holds of all: an
\* induction over an interval.
LEMMA Onwards ==
    ASSUME NEW m \in Int, NEW n \in Int, NEW Good, m \in Good,
           \A k \in m..n : k + 1 \in m..n /\ k \in Good => k + 1 \in Good
    PROVE  \A k \in m..n : k \in Good
  <1> DEFINE Bad == {k \in m..n : k \notin Good}
  <1>1. SUFFICES ASSUME Bad # {} PROVE FALSE
    OBVIOUS
  <1>2. IsFiniteSet(Bad) /\ Bad \in SUBSET Int
    <2>1. IsFiniteSet(m..n)
      BY FS_Interval
    <2>2. QED
      BY <2>1, FS_Subset
  <1>3. PICK k \in Bad : \A l \in Bad : k <= l
    <2> HIDE DEF Bad
    <2>1. QED
      BY <1>1, <1>2, LeastOf
  <1>4. k \in m..n /\ k \notin Good /\ k # m
    OBVIOUS
  <1>5. k - 1 \in m..n /\ (k - 1) + 1 = k
    BY <1>4
  <1>6. k - 1 \in Good
    <2>1. k - 1 \notin Bad
      <3> HIDE DEF Bad
      <3>1. QED
        BY <1>3, <1>5
    <2>2. QED
      BY <1>5, <2>1
  <1>7. QED
    BY <1>4, <1>5, <1>6

\* What a recursion over an interval asks of a function.
Recurs(b, m, n, first, step) ==
    b = [k \in m..n |-> IF k = m THEN first ELSE step[<<k, b[k - 1]>>]]

\* There is such a function.
LEMMA RecursionIsSound ==
    ASSUME NEW m \in Int, NEW n \in Int, m <= n, NEW T, NEW first \in T,
           NEW step \in [(m..n) \X T -> T]
    PROVE  \E b \in [m..n -> T] : Recurs(b, m, n, first, step)
  <1> DEFINE Good == {l \in m..n : \E b \in [m..l -> T] : Recurs(b, m, l, first, step)}
  <1>1. m \in Good
    <2> DEFINE b == [k \in m..m |-> first]
    <2>1. b \in [m..m -> T] /\ Recurs(b, m, m, first, step)
      BY DEF Recurs
    <2> HIDE DEF b
    <2>2. QED
      BY <2>1
  <1>2. ASSUME NEW l \in m..n, l + 1 \in m..n, l \in Good PROVE l + 1 \in Good
    <2>1. PICK b \in [m..l -> T] : Recurs(b, m, l, first, step)
      BY <1>2
    <2>2. step[<<l + 1, b[l]>>] \in T
      BY <1>2
    <2> DEFINE c == [k \in m..(l + 1) |-> IF k <= l THEN b[k] ELSE step[<<l + 1, b[l]>>]]
    <2>3. \A k \in m..(l + 1) : c[k] = IF k = m THEN first ELSE step[<<k, c[k - 1]>>]
      <3> TAKE k \in m..(l + 1)
      <3>1. CASE k <= l
        <4>1. c[k] = b[k] /\ (k # m => c[k - 1] = b[k - 1])
          BY <3>1
        <4>2. b[k] = IF k = m THEN first ELSE step[<<k, b[k - 1]>>]
          <5>1. k \in m..l
            BY <3>1
          <5>2. QED
            BY <2>1, <5>1 DEF Recurs
        <4>3. QED
          BY <4>1, <4>2
      <3>2. CASE ~(k <= l)
        <4>1. k = l + 1 /\ k # m /\ k - 1 = l
          BY <3>2
        <4>2. c[k] = step[<<l + 1, b[l]>>] /\ c[l] = b[l]
          BY <4>1
        <4>3. QED
          BY <4>1, <4>2
      <3>3. QED
        BY <3>1, <3>2
    <2>4. c \in [m..(l + 1) -> T]
      BY <2>2
    <2> HIDE DEF c
    <2>5. c = [k \in m..(l + 1) |-> c[k]]
      BY <2>4
    <2>6. Recurs(c, m, l + 1, first, step)
      BY <2>3, <2>5 DEF Recurs
    <2>7. QED
      BY <1>2, <2>4, <2>6
  <1> HIDE DEF Good
  <1>3. \A l \in m..n : l \in Good
    BY <1>1, <1>2, Onwards
  <1>4. n \in Good
    BY <1>3
  <1>5. QED
    BY <1>4 DEF Good
-------------------------------------------------------------------------------
\* What Pick returns is what is at the indices it is given.
LEMMA PickedRange ==
    ASSUME NEW E, NEW seq \in Seq(E), NEW S \in SUBSET DOMAIN seq
    PROVE  /\ Pick(seq, S) \in Seq(E)
           /\ Range(Pick(seq, S)) = {seq[i] : i \in S}
  <1> DEFINE out == Pick(seq, S)
  <1>1. out \in Seq(E) /\ \E p : Arranges(p, out, seq, S)
    BY PickKeeps
  <1> HIDE DEF out
  <1>2. PICK p : Arranges(p, out, seq, S)
    BY <1>1
  <1>3. /\ \A k \in DOMAIN out : p[k] \in S /\ out[k] = seq[p[k]]
        /\ \A i \in S : \E k \in DOMAIN out : p[k] = i
    <2>1. DOMAIN out = 1..Len(out)
      BY <1>1
    <2>2. QED
      BY <1>2, <2>1 DEF Arranges, Bijection, Injection, Surjection
  <1>4. {out[k] : k \in DOMAIN out} = {seq[i] : i \in S}
    BY <1>3
  <1>5. QED
    BY <1>1, <1>4 DEF Range, out

\* What Distinct returns is what was there: each element has a first place.
LEMMA DistinctRange ==
    ASSUME NEW E, NEW seq \in Seq(E)
    PROVE  Distinct(seq) \in Seq(E) /\ Range(Distinct(seq)) = Range(seq)
  <1> DEFINE firsts == {i \in DOMAIN seq : \A j \in 1..(i - 1) : seq[j] # seq[i]}
  <1>1. DOMAIN seq = 1..Len(seq) /\ Len(seq) \in Nat
    OBVIOUS
  <1>2. ASSUME NEW i \in DOMAIN seq PROVE \E k \in firsts : seq[k] = seq[i]
    <2> DEFINE same == {k \in DOMAIN seq : seq[k] = seq[i]}
    <2>1. i \in same /\ same \in SUBSET (1..Len(seq))
      BY <1>1
    <2>2. same \in SUBSET Int /\ IsFiniteSet(same) /\ same # {}
      <3>1. IsFiniteSet(1..Len(seq))
        BY <1>1, FS_Interval
      <3>2. same # {} /\ same \in SUBSET Int
        BY <2>1
      <3>3. IsFiniteSet(same)
        <4> HIDE DEF same
        <4>1. QED
          BY <2>1, <3>1, FS_Subset
      <3>4. QED
        BY <3>2, <3>3
    <2>3. PICK k \in same : \A l \in same : k <= l
      <3> HIDE DEF same
      <3>1. QED
        BY <2>2, LeastOf
    <2>4. k \in DOMAIN seq /\ seq[k] = seq[i]
      OBVIOUS
    <2>5. \A j \in 1..(k - 1) : seq[j] # seq[k]
      <3> SUFFICES ASSUME NEW j \in 1..(k - 1), seq[j] = seq[k] PROVE FALSE
        OBVIOUS
      <3>1. j \in DOMAIN seq /\ ~(k <= j)
        BY <1>1, <2>4
      <3>2. j \in same
        BY <2>4, <3>1
      <3>3. QED
        BY <2>3, <3>1, <3>2
    <2>6. QED
      BY <2>4, <2>5
  <1>3. firsts \in SUBSET DOMAIN seq
    OBVIOUS
  <1>4. Distinct(seq) = Pick(seq, firsts)
    BY DEF Distinct
  <1> HIDE DEF firsts
  <1>5. Distinct(seq) \in Seq(E) /\ Range(Distinct(seq)) = {seq[i] : i \in firsts}
    BY <1>3, <1>4, PickedRange
  <1>6. {seq[i] : i \in firsts} = {seq[i] : i \in DOMAIN seq}
    BY <1>2, <1>3
  <1>7. QED
    BY <1>5, <1>6 DEF Range

\* The first k of some sequences, one after the other.
Flattens(flat, seqs) ==
    flat = [k \in 1..Len(seqs) |-> IF k = 1 THEN seqs[k] ELSE flat[k - 1] \o seqs[k]]

\* What FlattenSeq returns is what the sequences hold.
LEMMA FlattenRange ==
    ASSUME NEW E, NEW seqs \in Seq(Seq(E))
    PROVE  /\ FlattenSeq(seqs) \in Seq(E)
           /\ Range(FlattenSeq(seqs)) = UNION {Range(seqs[k]) : k \in DOMAIN seqs}
  <1> DEFINE n == Len(seqs)
             flat == CHOOSE f : Flattens(f, seqs)
             first == seqs[1]
             step == [x \in (1..n) \X Seq(E) |-> x[2] \o seqs[x[1]]]
  <1>1. n \in Nat /\ DOMAIN seqs = 1..n /\ \A k \in 1..n : seqs[k] \in Seq(E)
    OBVIOUS
  <1>2. CASE n = 0
    <2>1. seqs = <<>>
      BY <1>2
    <2>2. FlattenSeq(seqs) = <<>>
      BY <2>1 DEF FlattenSeq
    <2>3. Range(<<>>) = {} /\ {Range(seqs[k]) : k \in DOMAIN seqs} = {}
      BY <2>1 DEF Range
    <2>4. QED
      BY <2>2, <2>3
  <1>3. CASE n # 0
    <2>1. n \in Int /\ 1 \in Int /\ 1 <= n /\ first \in Seq(E)
      BY <1>1, <1>3
    <2>2. step \in [(1..n) \X Seq(E) -> Seq(E)]
      <3>1. \A a, b \in Seq(E) : a \o b \in Seq(E)
        OBVIOUS
      <3>2. \A x \in (1..n) \X Seq(E) : x[2] \in Seq(E) /\ seqs[x[1]] \in Seq(E)
        BY <1>1
      <3>3. QED
        BY <3>1, <3>2
    <2>3. \A k \in 1..n : \A b \in Seq(E) : step[<<k, b>>] = b \o seqs[k]
      OBVIOUS
    <2>4. FlattenSeq(seqs) = flat[n]
      BY <1>3 DEF FlattenSeq, Flattens
    <2> HIDE DEF step, first, flat
    <2>5. PICK b \in [1..n -> Seq(E)] : Recurs(b, 1, n, first, step)
      <3> HIDE DEF n
      <3>1. QED
        BY <2>1, <2>2, RecursionIsSound
    <2>6. Flattens(b, seqs)
      <3>1. \A k \in 1..n : b[k] = IF k = 1 THEN seqs[k] ELSE b[k - 1] \o seqs[k]
        <4> TAKE k \in 1..n
        <4>1. b[k] = IF k = 1 THEN first ELSE step[<<k, b[k - 1]>>]
          BY <2>5 DEF Recurs
        <4>2. CASE k # 1
          <5>1. k - 1 \in 1..n
            BY <2>1, <4>2
          <5>2. b[k - 1] \in Seq(E)
            BY <5>1
          <5>3. QED
            BY <2>3, <4>1, <4>2, <5>2
        <4>3. CASE k = 1
          BY <4>1, <4>3 DEF first
        <4>4. QED
          BY <4>2, <4>3
      <3>2. b = [k \in 1..n |-> b[k]]
        OBVIOUS
      <3> HIDE DEF n
      <3>3. QED
        BY <3>1, <3>2 DEF Flattens, n
    <2>7. Flattens(flat, seqs)
      BY <2>6 DEF flat
    <2>8. \A k \in 1..n : flat[k] = IF k = 1 THEN seqs[k] ELSE flat[k - 1] \o seqs[k]
      BY <2>7 DEF Flattens
    <2> DEFINE Good == {k \in 1..n : /\ flat[k] \in Seq(E)
                                     /\ Range(flat[k]) = UNION {Range(seqs[l]) : l \in 1..k}}
    <2>9. 1 \in Good
      <3>1. flat[1] = seqs[1] /\ 1 \in 1..n
        BY <2>1, <2>8
      <3>2. {Range(seqs[l]) : l \in 1..1} = {Range(seqs[1])}
        <4>1. 1..1 = {1}
          OBVIOUS
        <4>2. QED
          BY <4>1
      <3>3. QED
        BY <1>1, <3>1, <3>2
    <2>10. ASSUME NEW k \in 1..n, k + 1 \in 1..n, k \in Good PROVE k + 1 \in Good
      <3>1. flat[k + 1] = flat[k] \o seqs[k + 1]
        <4>1. k + 1 # 1 /\ (k + 1) - 1 = k
          OBVIOUS
        <4>2. QED
          BY <2>8, <2>10, <4>1
      <3>2. flat[k] \in Seq(E) /\ seqs[k + 1] \in Seq(E)
        BY <1>1, <2>10
      <3>3. ASSUME NEW a \in Seq(E), NEW b2 \in Seq(E)
            PROVE  a \o b2 \in Seq(E) /\ Range(a \o b2) = Range(a) \cup Range(b2)
        <4>1. /\ a \o b2 \in Seq(E) /\ Len(a \o b2) = Len(a) + Len(b2)
              /\ \A i \in 1..Len(a) : (a \o b2)[i] = a[i]
              /\ \A i \in 1..Len(b2) : (a \o b2)[Len(a) + i] = b2[i]
              /\ DOMAIN a = 1..Len(a) /\ DOMAIN b2 = 1..Len(b2)
              /\ DOMAIN (a \o b2) = 1..Len(a \o b2)
              /\ Len(a) \in Nat /\ Len(b2) \in Nat
          OBVIOUS
        <4>2. ASSUME NEW i \in DOMAIN (a \o b2) PROVE (a \o b2)[i] \in Range(a) \cup Range(b2)
          <5>1. CASE i \in 1..Len(a)
            BY <4>1, <5>1 DEF Range
          <5>2. CASE i \notin 1..Len(a)
            <6>1. i - Len(a) \in 1..Len(b2) /\ i = Len(a) + (i - Len(a))
              BY <4>1, <5>2
            <6>2. (a \o b2)[i] = b2[i - Len(a)]
              BY <4>1, <6>1
            <6>3. QED
              BY <4>1, <6>1, <6>2 DEF Range
          <5>3. QED
            BY <5>1, <5>2
        <4>3. ASSUME NEW i \in DOMAIN a PROVE a[i] \in Range(a \o b2)
          <5>1. i \in DOMAIN (a \o b2)
            BY <4>1
          <5>2. QED
            BY <4>1, <5>1 DEF Range
        <4>4. ASSUME NEW i \in DOMAIN b2 PROVE b2[i] \in Range(a \o b2)
          <5>1. Len(a) + i \in DOMAIN (a \o b2)
            BY <4>1
          <5>2. QED
            BY <4>1, <5>1 DEF Range
        <4>5. QED
          BY <4>1, <4>2, <4>3, <4>4 DEF Range
      <3>4. /\ flat[k + 1] \in Seq(E)
            /\ Range(flat[k + 1]) = Range(flat[k]) \cup Range(seqs[k + 1])
        BY <3>1, <3>2, <3>3
      <3>5. {Range(seqs[l]) : l \in 1..(k + 1)}
                = {Range(seqs[l]) : l \in 1..k} \cup {Range(seqs[k + 1])}
        <4>1. 1..(k + 1) = (1..k) \cup {k + 1}
          OBVIOUS
        <4> HIDE DEF Good, n
        <4>2. QED
          BY <4>1, Zenon
      <3>6. Range(flat[k]) = UNION {Range(seqs[l]) : l \in 1..k}
        BY <2>10
      <3>7. Range(flat[k + 1]) = UNION {Range(seqs[l]) : l \in 1..(k + 1)}
        <4> HIDE DEF Good, n
        <4>1. QED
          BY <3>4, <3>5, <3>6
      <3>8. QED
        BY <2>10, <3>4, <3>7
    <2> HIDE DEF Good
    <2>11. \A k \in 1..n : k \in Good
      <3> HIDE DEF n
      <3>1. QED
        BY <2>1, <2>9, <2>10, Onwards
    <2>12. flat[n] \in Seq(E) /\ Range(flat[n]) = UNION {Range(seqs[l]) : l \in 1..n}
      <3>1. n \in 1..n
        BY <2>1
      <3> HIDE DEF n
      <3>2. QED
        BY <2>11, <3>1 DEF Good
    <2>13. QED
      BY <1>1, <2>4, <2>12
  <1>4. QED
    BY <1>2, <1>3
===============================================================================

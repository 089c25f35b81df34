-------------------------------- MODULE Ordering --------------------------------
(***************************************************************************)
(* How the code orders lists: list comprehensions that keep some elements, *)
(* and Python's sorted, which leaves elements of one key in their order.   *)
(*                                                                         *)
(* Both give every index they keep a place of its own, from 1 on.          *)
(***************************************************************************)
EXTENDS Integers, SequencesExt

\* The elements of a sequence, each at the place of its index.
Placed(seq, place) ==
    [k \in 1..Cardinality(DOMAIN place) |-> seq[CHOOSE i \in DOMAIN place : place[i] = k]]

\* The elements at the indices in S, in their order.
Pick(seq, S) == Placed(seq, [i \in S |-> Cardinality({j \in S : j <= i})])

\* sorted(..., reverse=True) by a key per element: elements of one key stay in order.
SortedDown(seq, key) ==
    Placed(seq, [i \in DOMAIN seq |->
        Cardinality({j \in DOMAIN seq : key[j] > key[i] \/ (key[j] = key[i] /\ j <= i)})])

\* The distinct elements of a sequence, in the order they first occur in.
Distinct(seq) == Pick(seq, {i \in DOMAIN seq : \A j \in 1..(i - 1) : seq[j] # seq[i]})
===============================================================================

-------------------------------- MODULE Orders --------------------------------
(* Sorting, as the database and the apps do it: by a number, ascending.    *)
EXTENDS Integers, FiniteSets

(* The members of S one after the other, by ascending key; whoever sorts   *)
(* settles ties, so that nothing may depend on them.                       *)
Enumerations(S) ==
  {e \in [1..Cardinality(S) -> S] : \A i, j \in 1..Cardinality(S) : e[i] = e[j] => i = j}
Ascending(S, key) ==
  CHOOSE e \in Enumerations(S) : \A i, j \in 1..Cardinality(S) : i < j => key[e[i]] <= key[e[j]]

(* What is in s at some places, in its order.                              *)
Picked(s, places) ==
  LET order == Ascending(places, [i \in places |-> i])
  IN [n \in 1..Cardinality(places) |-> s[order[n]]]
===============================================================================

---- MODULE MCCollector ----
(* A page of two documents that starts at rank 2, so a buffer of three, filled
   from five documents of two weights; and abstracts of up to four entry sets of
   three weights, met in any order, where the copy has room for two sets and three
   positions. *)
EXTENDS Collector

Arrangements(n) == {f \in [1 .. n -> 1 .. n] : \A i, j \in 1 .. n : i # j => f[i] # f[j]}

\* The abstract of document d has d - 1 sets.
MCSources ==
  [d \in DocIds |->
    {[dwMode |-> "Rich",
      entries |-> [i \in DOMAIN f |->
        [weight |-> w[i], uMin |-> f[i],
         spread |-> IF i \in long THEN <<10 * f[i] + 1, 10 * f[i]>> ELSE <<10 * f[i]>>]]] :
      f \in Arrangements(d - 1), w \in [1 .. d - 1 -> 1 .. 3], long \in SUBSET (1 .. d - 1)}]

\* Half the range of an index is not a bound of convenience: three documents
\* spread over all of it come each before the next, in a circle.
ASSUME WindowIsNeeded ==
  \E a, b, c \in 1 .. NoDoc - 1 :
    SignedDiff(a, b) < 0 /\ SignedDiff(b, c) < 0 /\ SignedDiff(c, a) < 0
====

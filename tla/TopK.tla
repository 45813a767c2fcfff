-------------------------------- MODULE TopK --------------------------------
(***************************************************************************)
(* What a collector promises, whatever way it searches: of all the         *)
(* documents it was given so far it keeps the best K, or all of them while *)
(* there are no more than K.  Both ways of filling a collector, the linear *)
(* search and the merge of partial collectors, implement it.               *)
(***************************************************************************)
EXTENDS Integers, FiniteSets

CONSTANTS Entity,        \* the documents with their weights
          K,             \* how many are kept
          Before(_, _)   \* the better of two documents

VARIABLES seen,  \* every document given to the collector
          kept   \* the documents it holds

vars == <<seen, kept>>

IsBest(best, all) ==
  /\ best \subseteq all
  /\ Cardinality(best) <= K
  /\ best = all \/ Cardinality(best) = K
  /\ \A e \in best : \A f \in all \ best : Before(e, f)

Init == seen = {} /\ kept = {}

\* The collector is given more documents: one found, or a batch merged.
Add(S) ==
  /\ seen' = seen \cup S
  /\ kept' \in SUBSET seen'
  /\ IsBest(kept', seen')

Next == \E S \in SUBSET Entity : Add(S)

Spec == Init /\ [][Next]_vars
=============================================================================

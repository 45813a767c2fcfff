-------------------------------- MODULE Quotes --------------------------------
(***************************************************************************)
(* What is kept of the abstract of a document (CopyAbstract of             *)
(* src/service/collect-quotes.cpp): the first terms of a BM25 abstract;    *)
(* of a rich one the heaviest entry sets, in the order of the text, and    *)
(* their positions as long as there are places.                            *)
(***************************************************************************)
EXTENDS Integers, Sequences

CONSTANTS MaxTerms,     \* max_BM25Term_count
          MaxSets,      \* max_EntrySet_count
          MaxPositions, \* max_EntryPos_count
          Sources       \* of each document: the rich abstracts a query may have for it

ASSUME MaxAssumption == {MaxTerms, MaxSets, MaxPositions} \subseteq Nat \ {0}

\* A set of words found together: its weight, where in the text it begins, its positions.
EntrySet == [weight: Int, uMin: Nat, spread: Seq(Nat)]

ASSUME SourcesAssumption ==
  \A d \in DOMAIN Sources : Sources[d] \subseteq [dwMode: {"Rich"}, entries: Seq(EntrySet)]

Least(a, b) == IF a < b THEN a ELSE b

\* The place of the lightest set: the one known, unless another is lighter.
Lightest(sets, known) ==
  IF \A p \in DOMAIN sets : sets[p].weight >= sets[known].weight THEN known
  ELSE CHOOSE p \in DOMAIN sets :
         /\ \A q \in DOMAIN sets : sets[q].weight >= sets[p].weight
         /\ \A q \in 1 .. p - 1 : sets[q].weight > sets[p].weight

\* Broken variant of Put: the place once replaced is never looked for again.
PutKeepingWorst(kept, e) ==
  IF Len(kept.sets) < MaxSets
    THEN LET sets == Append(kept.sets, e) IN [sets |-> sets, worst |-> Lightest(sets, kept.worst)]
    ELSE IF e.weight > kept.sets[kept.worst].weight
           THEN [kept EXCEPT !.sets[kept.worst] = e]
           ELSE kept

\* The next set of the source: appended, or in the place of the lightest.
Put(kept, e) ==
  IF Len(kept.sets) < MaxSets
    THEN LET sets == Append(kept.sets, e) IN [sets |-> sets, worst |-> Lightest(sets, kept.worst)]
    ELSE IF e.weight > kept.sets[kept.worst].weight
           THEN LET sets == [kept.sets EXCEPT ![kept.worst] = e]
                IN  [sets |-> sets, worst |-> Lightest(sets, kept.worst)]
           ELSE kept

\* What is kept of the first n sets of the source.
Kept(entries) ==
  LET kept[n \in 0 .. Len(entries)] ==
        IF n = 0 THEN [sets |-> <<>>, worst |-> 1] ELSE Put(kept[n - 1], entries[n])
  IN  kept

\* The outcome of std::sort by these keys: which of them comes at each place.
Sorting(keys) ==
  CHOOSE order \in [DOMAIN keys -> DOMAIN keys] :
    /\ \A p, q \in DOMAIN keys : order[p] = order[q] => p = q
    /\ \A p, q \in DOMAIN keys : p < q => keys[order[p]] <= keys[order[q]]

\* Sorted only when no place is left.
Select(entries) ==
  LET sets  == Kept(entries)[Len(entries)].sets
      order == Sorting([p \in DOMAIN sets |-> sets[p].uMin])
  IN  IF Len(sets) = MaxSets THEN [p \in DOMAIN sets |-> sets[order[p]]] ELSE sets

\* The places the positions of the first n sets take.
Taken(sets) ==
  LET taken[n \in 0 .. Len(sets)] ==
        IF n = 0 THEN 0
        ELSE taken[n - 1] + Least(Len(sets[n].spread), MaxPositions - taken[n - 1])
  IN  taken

\* The positions of a set, as far as there is room, in order.
Spread(set, room) ==
  LET first == SubSeq(set.spread, 1, Least(Len(set.spread), room))
      order == Sorting(first)
  IN  [set EXCEPT !.spread = [p \in DOMAIN first |-> first[order[p]]]]

CopyAbstract(source) ==
  CASE source.dwMode = "BM25" ->
         [source EXCEPT !.factors = SubSeq(@, 1, Least(Len(@), MaxTerms))]
    [] source.dwMode = "Rich" ->
         LET sets  == Select(source.entries)
             taken == Taken(sets)
         IN  [source EXCEPT !.entries =
                [p \in DOMAIN sets |-> Spread(sets[p], MaxPositions - taken[p - 1])]]
-----------------------------------------------------------------------------
\* How many positions the first n sets have.
Positions(sets) ==
  LET positions[n \in 0 .. Len(sets)] ==
        IF n = 0 THEN 0 ELSE positions[n - 1] + Len(sets[n].spread)
  IN  positions

\* t is s in ascending order.
Ascends(t, s) ==
  \E order \in [DOMAIN s -> DOMAIN s] :
    /\ \A p, q \in DOMAIN s : order[p] = order[q] => p = q
    /\ t = [p \in DOMAIN s |-> s[order[p]]]
    /\ \A p, q \in DOMAIN s : p < q => t[p] <= t[q]

\* These are the heaviest sets, each once (from names them): as they stood when
\* there is room to spare, otherwise in the order of the text.
AreHeaviest(sets, from, entries) ==
  /\ \A p, q \in DOMAIN sets : from[p] = from[q] => p = q
  /\ \A e \in DOMAIN entries : (\A p \in DOMAIN sets : from[p] # e) =>
       \A p \in DOMAIN sets : entries[e].weight <= sets[p].weight
  /\ IF Len(entries) < MaxSets
       THEN \A p \in DOMAIN sets : from[p] = p
       ELSE \A p, q \in DOMAIN sets : p < q => sets[p].uMin <= sets[q].uMin

\* Each set has the first positions of the whole one, all of them until no place
\* is left.
HavePositions(sets, whole) ==
  \A p \in DOMAIN sets :
    LET first == sets[p].spread
    IN  /\ sets[p] = [whole[p] EXCEPT !.spread = first]
        /\ Len(first) <= Len(whole[p].spread)
        /\ Ascends(first, SubSeq(whole[p].spread, 1, Len(first)))
        /\ Positions(sets)[p] = Least(Positions(whole)[p], MaxPositions)

\* A copy of a rich abstract has as many sets as there is room for, the heaviest
\* of the source, and as many of their positions.
CopyIsBest(source) ==
  LET entries == source.entries
      copy == CopyAbstract(source).entries
  IN  /\ Len(copy) = Least(Len(entries), MaxSets)
      /\ \E from \in [DOMAIN copy -> DOMAIN entries] :
           /\ AreHeaviest(copy, from, entries)
           /\ HavePositions(copy, [p \in DOMAIN copy |-> entries[from[p]]])

BestCopies == {d \in DOMAIN Sources : \A source \in Sources[d] : CopyIsBest(source)}
===============================================================================

------------------------------ MODULE DocOrder ------------------------------
(***************************************************************************)
(* The order in which a collector ranks the documents it finds             *)
(* (src/service/collect-docs.cpp, Documents::data): the caller's DifferFn, *)
(* or compareByRange when none was set, with ties broken by the document's *)
(* index.  A document that comes Before another is the better one.         *)
(*                                                                         *)
(* The tie breaker subtracts two uint32_t and converts the result to int,  *)
(* so it is exact only between documents less than 2^31 apart.  Half is    *)
(* that 2^31; WindowAssumption names the limit.                            *)
(***************************************************************************)
EXTENDS Integers

CONSTANTS Half,         \* 2^31: half the range of a document index
          DocIds,       \* the document indices a query may return
          Weights,      \* the weights a ranker may give
          Differ(_, _)  \* the comparison of the caller or ByRange

Entity == [id: DocIds, weight: Weights]

\* uint32_t(-1): "no document" of IQuery::SearchDoc, and the default oldid of
\* Abstracts::Set.
NoDoc == 2 * Half - 1

ASSUME HalfAssumption   == Half \in Nat \ {0}
ASSUME DocIdsAssumption == DocIds \subseteq 1 .. NoDoc - 1
ASSUME WindowAssumption == \A d1, d2 \in DocIds : d1 - d2 < Half

(***************************************************************************)
(* What std::sort requires of a comparison: a total preorder.              *)
(***************************************************************************)
ASSUME DifferAssumption ==
  /\ \A a, b \in Entity : /\ Differ(a, b) \in Int
                          /\ Differ(a, b) < 0 <=> Differ(b, a) > 0
  /\ \A a, b, c \in Entity :
       Differ(a, b) <= 0 /\ Differ(b, c) <= 0 => Differ(a, c) <= 0
-----------------------------------------------------------------------------
\* int(d1 - d2) of two uint32_t.
SignedDiff(d1, d2) ==
  CASE d1 - d2 >= Half -> d1 - d2 - 2 * Half
    [] d1 - d2 < -Half -> d1 - d2 + 2 * Half
    [] OTHER           -> d1 - d2

\* compareByRange up to its tie breaker: the greater weight comes first.
ByRange(a, b) ==
  IF a.weight > b.weight THEN -1 ELSE IF a.weight < b.weight THEN 1 ELSE 0

Compare(a, b) ==
  IF Differ(a, b) # 0 THEN Differ(a, b) ELSE SignedDiff(a.id, b.id)

Before(a, b) == Compare(a, b) < 0
=============================================================================

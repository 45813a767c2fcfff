--------------------------- MODULE CollectorMerge ---------------------------
(***************************************************************************)
(* One collector filled by several threads (src/service/collect-docs.cpp,  *)
(* Documents::impl::Insert).  The index is cut into sections; each part    *)
(* searches its own with a collector of its own and merges what that one   *)
(* holds into the common collector, document by document, under mxLock.    *)
(* Both buffers are sorted: dstptr only moves forward, a document goes in  *)
(* where it belongs, and in a full buffer it pushes the last one out.      *)
(*                                                                         *)
(* The linear search of a part is one step here (module Collector has it): *)
(* docs[p] is its buffer, sorted as Insert sorts it first.  Its abstracts  *)
(* are named by their documents, one for each document it holds.           *)
(***************************************************************************)
EXTENDS DocOrder, Abstracts, FiniteSets

CONSTANTS Parts,       \* the parts the search is shared into
          Section(_),  \* the documents of a part's section of the index
          nLimit       \* how many documents every collector keeps

ASSUME LimitAssumption == nLimit \in Nat \ {0}
ASSUME SectionAssumption ==
  \A p \in Parts : /\ Section(p) \subseteq DocIds
                   /\ \A q \in Parts : q # p => Section(p) \cap Section(q) = {}

VARIABLES
  pc,      \* of each part: "queued", "searched", "merging", "done"
  found,   \* of each part: the documents of its section that matched
  docs,    \* of each part: the buffer of its own collector, sorted
  mxLock,  \* the holder of the common collector's mutex: {} or {p}
  srcptr,  \* the next document of docs to merge
  dstptr,  \* the place in buffer reached so far
  buffer, quoBox, nFound  \* the common collector

vars == <<pc, found, docs, mxLock, srcptr, dstptr, buffer, quoBox, nFound>>

Init ==
  /\ pc = [p \in Parts |-> "queued"]
  /\ found = [p \in Parts |-> {}]
  /\ docs = [p \in Parts |-> <<>>]
  /\ mxLock = {}
  /\ srcptr = 1
  /\ dstptr = 1
  /\ buffer = <<>>
  /\ quoBox = <<>>
  /\ nFound = 0
-----------------------------------------------------------------------------
Items(buf) == {buf[i] : i \in 1 .. Len(buf)}

Sorted(buf) == \A i, j \in 1 .. Len(buf) : i < j => Before(buf[i], buf[j])

\* buf holds the best of S, in order: all that a collector of S would keep.
Collects(buf, S) ==
  /\ Items(buf) \subseteq S
  /\ Sorted(buf)
  /\ Items(buf) = S \/ Len(buf) = nLimit
  /\ \A e \in Items(buf) : \A f \in S \ Items(buf) : Before(e, f)

\* The documents of a part that may match, each with one weight.
Matches(p) ==
  {S \in SUBSET {e \in Entity : e.id \in Section(p)} :
     IsFiniteSet(S) /\ \A e, f \in S : e.id = f.id => e = f}

\* A part's own search ends; with nothing found there is nothing to merge.
SearchPart(p) ==
  /\ pc[p] = "queued"
  /\ \E S \in Matches(p) :
       /\ found' = [found EXCEPT ![p] = S]
       /\ \E n \in 0 .. nLimit : \E buf \in [1 .. n -> S] :
            Collects(buf, S) /\ docs' = [docs EXCEPT ![p] = buf]
       /\ pc' = [pc EXCEPT ![p] = IF S = {} THEN "done" ELSE "searched"]
  /\ UNCHANGED <<mxLock, srcptr, dstptr, buffer, quoBox, nFound>>

Lock(p) ==
  /\ pc[p] = "searched"
  /\ mxLock = {}
  /\ mxLock' = {p}
  /\ srcptr' = 1
  /\ dstptr' = 1
  /\ pc' = [pc EXCEPT ![p] = "merging"]
  /\ UNCHANGED <<found, docs, buffer, quoBox, nFound>>

\* Broken variant of StopsAt: dstptr is not moved past the better documents.
StopsAtOnce(d, e) == d = dstptr

\* dstptr stops at d for document e: everything up to there is better.
StopsAt(d, e) ==
  /\ d \in dstptr .. Len(buffer) + 1
  /\ \A q \in dstptr .. d - 1 : Before(buffer[q], e)
  /\ d # Len(buffer) + 1 => ~ Before(buffer[d], e)

\* memmove and placement new: e at place d of a buffer of n documents.
Inserted(buf, d, e, n) ==
  [i \in 1 .. n |-> IF i < d THEN buf[i] ELSE IF i = d THEN e ELSE buf[i - 1]]

\* Broken variant of InsertNew: one document more than there is room for.
InsertNewPastLimit(p) ==
  /\ pc[p] = "merging"
  /\ srcptr <= Len(docs[p])
  /\ LET e == docs[p][srcptr]
     IN  /\ \E d \in 1 .. nLimit :
              /\ StopsAt(d, e)
              /\ dstptr' = d
              /\ Len(buffer) <= nLimit
              /\ buffer' = Inserted(buffer, d, e, Len(buffer) + 1)
         /\ quoBox' = Set(quoBox, e.id, e.id, NoDoc)
  /\ srcptr' = srcptr + 1
  /\ UNCHANGED <<pc, found, docs, mxLock, nFound>>

\* The buffer has room.
InsertNew(p) ==
  /\ pc[p] = "merging"
  /\ srcptr <= Len(docs[p])
  /\ LET e == docs[p][srcptr]
     IN  /\ \E d \in 1 .. nLimit :
              /\ StopsAt(d, e)
              /\ dstptr' = d
              /\ Len(buffer) < nLimit
              /\ buffer' = Inserted(buffer, d, e, Len(buffer) + 1)
         /\ CanSet(quoBox, nLimit, NoDoc)
         /\ quoBox' = Set(quoBox, e.id, e.id, NoDoc)
  /\ srcptr' = srcptr + 1
  /\ UNCHANGED <<pc, found, docs, mxLock, nFound>>

\* Broken variant of InsertOver: dstlim[-1] is read after the memmove.
InsertOverLate(p) ==
  /\ pc[p] = "merging"
  /\ srcptr <= Len(docs[p])
  /\ LET e == docs[p][srcptr]
     IN  \E d \in 1 .. nLimit :
           LET last == buffer[IF d < nLimit THEN nLimit - 1 ELSE nLimit]
           IN  /\ StopsAt(d, e)
               /\ dstptr' = d
               /\ Len(buffer) = nLimit
               /\ buffer' = Inserted(buffer, d, e, nLimit)
               /\ quoBox' = Set(quoBox, e.id, e.id, last.id)
  /\ srcptr' = srcptr + 1
  /\ UNCHANGED <<pc, found, docs, mxLock, nFound>>

\* The last document of a full buffer is pushed out.
InsertOver(p) ==
  /\ pc[p] = "merging"
  /\ srcptr <= Len(docs[p])
  /\ LET e == docs[p][srcptr]
     IN  /\ \E d \in 1 .. nLimit :
              /\ StopsAt(d, e)
              /\ dstptr' = d
              /\ Len(buffer) = nLimit
              /\ buffer' = Inserted(buffer, d, e, nLimit)
         /\ CanSet(quoBox, nLimit, buffer[nLimit].id)
         /\ quoBox' = Set(quoBox, e.id, e.id, buffer[nLimit].id)
  /\ srcptr' = srcptr + 1
  /\ UNCHANGED <<pc, found, docs, mxLock, nFound>>

\* Broken variants of Break: srcptr stays where it is; the loop is left at
\* the end of what the buffer holds and not of what it can hold.
BreakStaying(p) ==
  /\ pc[p] = "merging"
  /\ srcptr <= Len(docs[p])
  /\ StopsAt(nLimit + 1, docs[p][srcptr])
  /\ dstptr' = nLimit + 1
  /\ UNCHANGED <<pc, found, docs, mxLock, srcptr, buffer, quoBox, nFound>>

BreakAtEnd(p) ==
  /\ pc[p] = "merging"
  /\ srcptr <= Len(docs[p])
  /\ StopsAt(Len(buffer) + 1, docs[p][srcptr])
  /\ dstptr' = Len(buffer) + 1
  /\ srcptr' = Len(docs[p]) + 1
  /\ UNCHANGED <<pc, found, docs, mxLock, buffer, quoBox, nFound>>

\* The end of a full buffer is reached: the rest of docs is no better.
Break(p) ==
  /\ pc[p] = "merging"
  /\ srcptr <= Len(docs[p])
  /\ StopsAt(nLimit + 1, docs[p][srcptr])
  /\ dstptr' = nLimit + 1
  /\ srcptr' = Len(docs[p]) + 1
  /\ UNCHANGED <<pc, found, docs, mxLock, buffer, quoBox, nFound>>

\* Broken variant of Unlock: only the documents the part kept are counted.
UnlockCountingKept(p) ==
  /\ pc[p] = "merging"
  /\ srcptr > Len(docs[p])
  /\ nFound' = nFound + Len(docs[p])
  /\ mxLock' = {}
  /\ pc' = [pc EXCEPT ![p] = "done"]
  /\ UNCHANGED <<found, docs, srcptr, dstptr, buffer, quoBox>>

Unlock(p) ==
  /\ pc[p] = "merging"
  /\ srcptr > Len(docs[p])
  /\ nFound' = nFound + Cardinality(found[p])
  /\ mxLock' = {}
  /\ pc' = [pc EXCEPT ![p] = "done"]
  /\ UNCHANGED <<found, docs, srcptr, dstptr, buffer, quoBox>>

Next ==
  \/ \E p \in Parts : SearchPart(p)
  \/ \E p \in Parts : Lock(p)
  \/ \E p \in Parts : InsertNew(p)
  \/ \E p \in Parts : InsertOver(p)
  \/ \E p \in Parts : Break(p)
  \/ \E p \in Parts : Unlock(p)

Spec == Init /\ [][Next]_vars

FairSpec == Spec /\ WF_vars(Next)
-----------------------------------------------------------------------------
\* What the collector was given so far: the parts merged, and of the part
\* that merges now the documents it is past.
Given ==
  UNION {CASE pc[p] = "done"    -> found[p]
           [] pc[p] = "merging" -> {docs[p][i] : i \in 1 .. srcptr - 1}
           [] OTHER             -> {} : p \in Parts}

TypeOK ==
  /\ pc \in [Parts -> {"queued", "searched", "merging", "done"}]
  /\ found \in [Parts -> SUBSET Entity]
  /\ docs \in [Parts -> Seq(Entity)]
  /\ mxLock \in SUBSET Parts
  /\ srcptr \in Nat \ {0}
  /\ dstptr \in 1 .. nLimit + 1
  /\ buffer \in Seq(Entity)
  /\ Len(buffer) <= nLimit
  /\ quoBox \in Seq([udocid: DocIds, stored: DocIds])
  /\ nFound \in Nat

(***************************************************************************)
(* At every point of every merge the common buffer is in order and holds   *)
(* the best nLimit of everything it was given, whatever the order in which *)
(* the parts merge: neither the forward-only dstptr, nor the break at the  *)
(* end of a full buffer, nor the document pushed out, nor what a part      *)
(* dropped in its own collector loses one that belongs there.              *)
(***************************************************************************)
MergedBest == Collects(buffer, Given)

(***************************************************************************)
(* The common store of abstracts follows the common buffer through the     *)
(* insertions: one item for each document, its own, and none for a         *)
(* document pushed out.                                                    *)
(***************************************************************************)
QuotesFollow ==
  /\ Len(quoBox) = Len(buffer)
  /\ {quoBox[i].udocid : i \in 1 .. Len(quoBox)} = {e.id : e \in Items(buffer)}
  /\ \A i \in 1 .. Len(quoBox) : quoBox[i].stored = quoBox[i].udocid

(***************************************************************************)
(* Once every part is done, the collector counts every document found by   *)
(* any of them: no part's count is lost or added twice.                    *)
(***************************************************************************)
CountsAll ==
  (\A p \in Parts : pc[p] = "done") => nFound = Cardinality(UNION {found[p] : p \in Parts})

(***************************************************************************)
(* Every merge ends: no part stays in the loop of Insert, or waiting for   *)
(* the mutex, for ever.                                                    *)
(***************************************************************************)
EveryPartMerged == <>(\A p \in Parts : pc[p] = "done")

(***************************************************************************)
(* Merging partial collectors implements the promise of every collector.   *)
(***************************************************************************)
Promise == INSTANCE TopK WITH K <- nLimit, seen <- Given, kept <- Items(buffer)

ImplementsTopK == Promise!Spec
=============================================================================

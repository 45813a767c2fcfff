----------------------------- MODULE Collector ------------------------------
(***************************************************************************)
(* One collector filled by the linear search of one thread, then finished  *)
(* (src/service/collect-docs.cpp, Documents::impl).  Search asks the query *)
(* for its documents in increasing order of index and keeps the best       *)
(* nLimit of them in Buffer; a full Buffer is searched for its worst       *)
(* document, whose place is cached in pWorst until it is given to a better *)
(* one.  The abstract of each kept document is kept in quoBox under the    *)
(* same index.  Finish sorts the buffer and reports its page nFirst ..     *)
(* nFirst+ncount-1, asking the index for each document again; documents    *)
(* may be removed from the index by others at any time.                    *)
(*                                                                         *)
(* Abstracts are named by the document whose tuples they copy.             *)
(***************************************************************************)
EXTENDS DocOrder, Abstracts, Quotes, FiniteSets

CONSTANTS nFirst, ncount  \* the page asked for: SetFirst, SetCount

nLimit == nFirst + ncount - 1

\* SetFirst refuses 0; a collector of limit 0 cannot allocate its store.
ASSUME PageAssumption == nFirst \in Nat \ {0} /\ ncount \in Nat /\ nLimit >= 1

\* The query has an abstract of each document.
ASSUME SourcesOfAll == DocIds \subseteq DOMAIN Sources

VARIABLES
  pc,      \* "search", "found", then "reported" or "thrown"
  id,      \* the last document index the query returned
  nFound,  \* the documents that matched
  buffer,  \* Buffer()[0 .. nCount-1]
  pWorst,  \* the cached place of the worst document in buffer, 0 when null
  quoBox,  \* the items of the abstracts store
  index,   \* the documents the contents index holds
  report,  \* what Finish returned
  seen     \* history: every document that matched

vars == <<pc, id, nFound, buffer, pWorst, quoBox, index, report, seen>>

Init ==
  /\ pc = "search"
  /\ id = 0
  /\ nFound = 0
  /\ buffer = <<>>
  /\ pWorst = 0
  /\ quoBox = <<>>
  /\ index = DocIds
  /\ report = [found |-> 0, items |-> <<>>]
  /\ seen = {}
-----------------------------------------------------------------------------
\* Broken variant of WorstOf: the first document, without the scan.
FirstOf(buf) == 1

\* The scan of a full buffer for the document no other one is worse than.
WorstOf(buf) ==
  CHOOSE p \in 1 .. Len(buf) :
    \A q \in 1 .. Len(buf) : q # p => Before(buf[q], buf[p])

Worst == IF pWorst = 0 THEN WorstOf(buffer) ELSE pWorst

\* The query returns document d.
SearchDoc(d) ==
  /\ pc = "search"
  /\ d > id
  /\ d \in index
  /\ id' = d

\* Its tuples have dwMode None: not a match.
SkipEmpty(d) ==
  /\ SearchDoc(d)
  /\ UNCHANGED <<pc, nFound, buffer, pWorst, quoBox, index, report, seen>>

Found(e) ==
  /\ SearchDoc(e.id)
  /\ nFound' = nFound + 1
  /\ seen' = seen \cup {e}
  /\ UNCHANGED <<pc, index, report>>

Fill(e) ==
  /\ Found(e)
  /\ Len(buffer) < nLimit
  /\ CanSet(quoBox, nLimit, NoDoc)
  /\ buffer' = Append(buffer, e)
  /\ quoBox' = Set(quoBox, e.id, e.id, NoDoc)
  /\ UNCHANGED pWorst

\* Broken variants of Replace: pWorst is not reset after its document went;
\* the abstract is not replaced; the comparison is the wrong way round.
ReplaceKeepingWorst(e) ==
  /\ Found(e)
  /\ Len(buffer) >= nLimit
  /\ Before(e, buffer[Worst])
  /\ CanSet(quoBox, nLimit, buffer[Worst].id)
  /\ quoBox' = Set(quoBox, e.id, e.id, buffer[Worst].id)
  /\ buffer' = [buffer EXCEPT ![Worst] = e]
  /\ pWorst' = Worst

ReplaceKeepingQuote(e) ==
  /\ Found(e)
  /\ Len(buffer) >= nLimit
  /\ Before(e, buffer[Worst])
  /\ buffer' = [buffer EXCEPT ![Worst] = e]
  /\ pWorst' = 0
  /\ UNCHANGED quoBox

ReplaceByWorse(e) ==
  /\ Found(e)
  /\ Len(buffer) >= nLimit
  /\ Before(buffer[Worst], e)
  /\ quoBox' = Set(quoBox, e.id, e.id, buffer[Worst].id)
  /\ buffer' = [buffer EXCEPT ![Worst] = e]
  /\ pWorst' = 0

Replace(e) ==
  /\ Found(e)
  /\ Len(buffer) >= nLimit
  /\ Before(e, buffer[Worst])
  /\ CanSet(quoBox, nLimit, buffer[Worst].id)
  /\ quoBox' = Set(quoBox, e.id, e.id, buffer[Worst].id)
  /\ buffer' = [buffer EXCEPT ![Worst] = e]
  /\ pWorst' = 0

Reject(e) ==
  /\ Found(e)
  /\ Len(buffer) >= nLimit
  /\ ~ Before(e, buffer[Worst])
  /\ pWorst' = Worst
  /\ UNCHANGED <<buffer, quoBox>>

EndSearch ==
  /\ pc = "search"
  /\ pc' = "found"
  /\ UNCHANGED <<id, nFound, buffer, pWorst, quoBox, index, report, seen>>
-----------------------------------------------------------------------------
\* Broken variant of IsSortOf: the worst document first.
IsReverseSortOf(s, buf) ==
  /\ {s[p] : p \in 1 .. Len(buf)} = {buf[p] : p \in 1 .. Len(buf)}
  /\ \A p, q \in 1 .. Len(buf) : p < q => Before(s[q], s[p])

\* The outcome of std::sort of buf: the same documents, in order.
IsSortOf(s, buf) ==
  /\ {s[p] : p \in 1 .. Len(buf)} = {buf[p] : p \in 1 .. Len(buf)}
  /\ \A p, q \in 1 .. Len(buf) : p < q => Before(s[p], s[q])

Item(e) == [id |-> e.id, weight |-> e.weight, quote |-> Get(quoBox, e.id)]

\* Fewer documents than nFirst-1 precede the page: nothing to report.
FinishEmpty ==
  /\ pc = "found"
  /\ Len(buffer) < nFirst
  /\ pc' = "reported"
  /\ report' = [found |-> nFound, items |-> <<>>]
  /\ UNCHANGED <<id, nFound, buffer, pWorst, quoBox, index, seen>>

FinishPage ==
  /\ pc = "found"
  /\ Len(buffer) >= nFirst
  /\ \E s \in [1 .. Len(buffer) -> {buffer[p] : p \in 1 .. Len(buffer)}] :
       /\ IsSortOf(s, buffer)
       /\ buffer' = s
       /\ IF \A p \in nFirst .. Len(buffer) : s[p].id \in index
            THEN /\ pc' = "reported"
                 /\ report' = [found |-> nFound,
                               items |-> [i \in 1 .. Len(buffer) + 1 - nFirst |->
                                            Item(s[nFirst + i - 1])]]
            ELSE pc' = "thrown" /\ UNCHANGED report
  /\ UNCHANGED <<id, nFound, pWorst, quoBox, index, seen>>

\* Another thread removes a document from the index.
RemoveDoc(d) ==
  /\ pc \in {"search", "found"}
  /\ d \in index
  /\ index' = index \ {d}
  /\ UNCHANGED <<pc, id, nFound, buffer, pWorst, quoBox, report, seen>>

Next ==
  \/ \E d \in DocIds : SkipEmpty(d)
  \/ \E e \in Entity : Fill(e)
  \/ \E e \in Entity : Replace(e)
  \/ \E e \in Entity : Reject(e)
  \/ EndSearch
  \/ FinishEmpty
  \/ FinishPage
  \/ \E d \in DocIds : RemoveDoc(d)

Spec == Init /\ [][Next]_vars
-----------------------------------------------------------------------------
TypeOK ==
  /\ pc \in {"search", "found", "reported", "thrown"}
  /\ id \in DocIds \cup {0}
  /\ nFound \in Nat
  /\ buffer \in Seq(Entity)
  /\ Len(buffer) <= nLimit
  /\ pWorst \in 0 .. Len(buffer)
  /\ quoBox \in Seq([udocid: DocIds, stored: DocIds])
  /\ index \subseteq DocIds
  /\ seen \subseteq Entity

Held == {buffer[p] : p \in 1 .. Len(buffer)}

(***************************************************************************)
(* The buffer holds the best nLimit of the documents that matched, or all  *)
(* of them: nothing it dropped (never appended, or overwritten through the *)
(* cached pWorst) is better than anything it kept, and nothing was lost    *)
(* before the buffer was full.                                             *)
(***************************************************************************)
BestKept ==
  /\ Held \subseteq seen
  /\ Held = seen \/ Len(buffer) = nLimit
  /\ \A e \in Held : \A f \in seen \ Held : Before(e, f)

(***************************************************************************)
(* While the search runs, a cached pWorst names the worst document of the  *)
(* buffer as it is now, not as it was when the place was found.            *)
(***************************************************************************)
WorstIsCurrent ==
  pc = "search" /\ pWorst # 0 =>
    \A q \in 1 .. Len(buffer) : q # pWorst => Before(buffer[q], buffer[pWorst])

(***************************************************************************)
(* The abstracts store follows the buffer: one item for each document in   *)
(* it, copied from that document's own tuples, and no item for a document  *)
(* that was replaced.                                                      *)
(***************************************************************************)
QuotesFollow ==
  /\ Len(quoBox) = Len(buffer)
  /\ {quoBox[p].udocid : p \in 1 .. Len(quoBox)} = {e.id : e \in Held}
  /\ \A p \in 1 .. Len(quoBox) : quoBox[p].stored = quoBox[p].udocid

(***************************************************************************)
(* Abstracts::Set never throws "Abstracts storage overflow" for the next   *)
(* document of the search.                                                 *)
(***************************************************************************)
StoreNeverOverflows ==
  pc = "search" =>
    CanSet(quoBox, nLimit, IF Len(buffer) < nLimit THEN NoDoc ELSE buffer[Worst].id)

(***************************************************************************)
(* A finished report counts every match and lists exactly the documents of *)
(* rank nFirst .. nFirst+ncount-1 among all of them, in order, each with   *)
(* its own abstract.                                                       *)
(***************************************************************************)
ReportIsPage ==
  pc = "reported" =>
    LET nSeen == Cardinality(seen)
        last  == IF nSeen < nLimit THEN nSeen ELSE nLimit
    IN  /\ report.found = nSeen
        /\ Len(report.items) = IF last < nFirst THEN 0 ELSE last - nFirst + 1
        /\ \A i \in 1 .. Len(report.items) :
             \E e \in seen :
               /\ report.items[i] = [id |-> e.id, weight |-> e.weight, quote |-> {e.id}]
               /\ Cardinality({f \in seen : Before(f, e)}) = nFirst + i - 2

(***************************************************************************)
(* What the store keeps of a document is the best copy there is room for,  *)
(* whichever abstract the query has for it (CopyAbstract).                 *)
(***************************************************************************)
CopiesAreBest == \A p \in 1 .. Len(quoBox) : quoBox[p].stored \in BestCopies

(***************************************************************************)
(* A linear search implements the promise of every collector.              *)
(***************************************************************************)
Promise == INSTANCE TopK WITH K <- nLimit, kept <- Held

ImplementsTopK == Promise!Spec
=============================================================================

-------------------------- MODULE CollectorProofs ---------------------------
(***************************************************************************)
(* The linear search of a collector keeps the best documents, for every    *)
(* order, every page and every query; and the copy it keeps of an abstract *)
(* is the best there is room for, however long the abstract.               *)
(***************************************************************************)
EXTENDS Collector, DocOrderProofs

-----------------------------------------------------------------------------
(* The worst document of a buffer.                                         *)

\* A buffer whose documents have distinct indices.
Distinct(buf) ==
  \A p, q \in 1 .. Len(buf) : buf[p].id = buf[q].id => p = q

IsWorst(buf, p) ==
  /\ p \in 1 .. Len(buf)
  /\ \A q \in 1 .. Len(buf) : q # p => Before(buf[q], buf[p])

\* The scan of Search(linear) finds the one document every other is before:
\* of the sets of documents worse than some document, a smallest one is empty.
LEMMA WorstExists ==
  ASSUME NEW buf \in Seq(Entity), Len(buf) > 0, Distinct(buf)
  PROVE  IsWorst(buf, WorstOf(buf))
<1> DEFINE P == 1 .. Len(buf)
           After(p) == {q \in P : Before(buf[p], buf[q])}
           R == StrictSubsetOrdering(P)
           T == {After(p) : p \in P}
<1>1. Len(buf) \in Nat /\ (\A p \in P : buf[p] \in Entity) /\ 1 \in P
  BY LenProperties, ElementOfSeq
<1>2. IsFiniteSet(P)
  BY <1>1, FS_Interval
<1>3. IsWellFoundedOn(R, SUBSET P)
  BY <1>2, FS_FiniteSubsetsOfFinite, FS_StrictSubsetOrderingWellFounded
<1>4. T \subseteq SUBSET P /\ T # {}
  BY <1>1
<1>5. PICK m \in T : \A s \in T : <<s, m>> \notin R
  <2> HIDE DEF T, R, P
  <2> QED  BY <1>3, <1>4, WFMin
<1>6. PICK p \in P : m = After(p)
  BY <1>5
<1>7. \A q \in P : q \notin After(p)
  <2> SUFFICES ASSUME NEW q \in P, Before(buf[p], buf[q])
               PROVE  FALSE
    OBVIOUS
  <2>1. After(q) \subseteq After(p)
    BY <1>1, BeforeTransitive
  <2>2. q \in After(p) /\ q \notin After(q)
    BY <1>1, BeforeIrreflexive
  <2>3. <<After(q), After(p)>> \in R
    BY <2>1, <2>2 DEF StrictSubsetOrdering
  <2>4. After(q) \in T
    OBVIOUS
  <2> QED  BY <1>5, <1>6, <2>3, <2>4
<1>8. \A q \in P : q # p => Before(buf[q], buf[p])
  BY <1>1, <1>7, BeforeTotal DEF Distinct
<1> QED  BY <1>8 DEF IsWorst, WorstOf
-----------------------------------------------------------------------------
(* The inductive invariant: what the runs check, and that the documents    *)
(* found so far have distinct indices up to the last one returned.         *)

FoundInv ==
  /\ \A e \in seen : e.id <= id
  /\ \A e, f \in seen : e.id = f.id => e = f
  /\ IsFiniteSet(seen)
  /\ nFound = Cardinality(seen)

DistinctInv ==
  /\ Distinct(buffer)
  /\ \A p, q \in 1 .. Len(quoBox) : quoBox[p].udocid = quoBox[q].udocid => p = q

\* The worst document is looked for only in a full buffer.
CacheInv == pWorst # 0 => Len(buffer) = nLimit

IInv ==
  /\ TypeOK
  /\ FoundInv
  /\ CacheInv
  /\ DistinctInv
  /\ BestKept
  /\ WorstIsCurrent
  /\ QuotesFollow

\* What a page allows: a collector keeps at least one document.
LEMMA LimitPositive == nLimit \in Nat \ {0}
BY PageAssumption DEF nLimit

\* The place the search compares a document with is that of the worst.
LEMMA WorstIsWorst ==
  ASSUME IInv, pc = "search", Len(buffer) >= nLimit
  PROVE  IsWorst(buffer, Worst)
<1>1. buffer \in Seq(Entity) /\ Len(buffer) > 0 /\ Distinct(buffer)
  BY LimitPositive, LenProperties DEF IInv, TypeOK, DistinctInv
<1>2. CASE pWorst = 0
  BY <1>1, <1>2, WorstExists DEF Worst
<1>3. CASE pWorst # 0
  BY <1>1, <1>3, LenProperties DEF Worst, IInv, TypeOK, WorstIsCurrent, IsWorst
<1> QED  BY <1>2, <1>3

LEMMA InitIInv == Init => IInv
<1> SUFFICES ASSUME Init PROVE IInv
  OBVIOUS
<1>1. TypeOK
  BY LimitPositive, EmptySeq DEF Init, TypeOK
<1>2. FoundInv
  BY FS_EmptySet DEF Init, FoundInv
<1> QED  BY <1>1, <1>2 DEF Init, IInv, CacheInv, DistinctInv, Distinct, BestKept, Held, WorstIsCurrent, QuotesFollow

\* What the invariant says of the buffer and of the store, element by element.
LEMMA BufferFacts ==
  ASSUME IInv
  PROVE  /\ buffer \in Seq(Entity) /\ quoBox \in Seq([udocid: DocIds, stored: DocIds])
         /\ Len(buffer) \in Nat /\ Len(quoBox) = Len(buffer)
         /\ \A p \in 1 .. Len(buffer) : buffer[p] \in seen /\ buffer[p] \in Entity
         /\ \A p \in 1 .. Len(quoBox) : quoBox[p].udocid \in DocIds
<1>1. buffer \in Seq(Entity) /\ quoBox \in Seq([udocid: DocIds, stored: DocIds])
  BY DEF IInv, TypeOK
<1>2. Len(buffer) \in Nat /\ Len(quoBox) = Len(buffer)
  BY <1>1, LenProperties DEF IInv, QuotesFollow
<1>3. \A p \in 1 .. Len(buffer) : buffer[p] \in seen /\ buffer[p] \in Entity
  BY <1>1, ElementOfSeq DEF IInv, BestKept, Held
<1>4. \A p \in 1 .. Len(quoBox) : quoBox[p].udocid \in DocIds
  <2> SUFFICES ASSUME NEW p \in 1 .. Len(quoBox) PROVE quoBox[p].udocid \in DocIds
    OBVIOUS
  <2>1. quoBox[p] \in [udocid: DocIds, stored: DocIds]
    BY <1>1, ElementOfSeq
  <2> QED  BY <2>1
<1> QED  BY <1>1, <1>2, <1>3, <1>4

\* A document found has an index greater than any found before.
LEMMA FoundStep ==
  ASSUME IInv, NEW e \in Entity, Found(e)
  PROVE  /\ FoundInv'
         /\ id' \in DocIds /\ nFound' \in Nat /\ seen' \subseteq Entity
         /\ \A f \in seen : f \in Entity /\ f.id < e.id
         /\ pc = "search" /\ pc' = "search" /\ index' = index
<1>1. /\ pc = "search" /\ pc' = "search" /\ index' = index
      /\ e.id > id /\ id' = e.id /\ e.id \in index
      /\ nFound' = nFound + 1 /\ seen' = seen \cup {e}
  BY DEF Found, SearchDoc
<1>2. id \in Int /\ e.id \in DocIds /\ \A d \in DocIds : d \in Int
  BY DocIdsAreInts DEF IInv, TypeOK, Entity
<1>3. \A f \in seen : f \in Entity /\ f.id \in Int /\ f.id < e.id
  <2> SUFFICES ASSUME NEW f \in seen PROVE f \in Entity /\ f.id \in Int /\ f.id < e.id
    OBVIOUS
  <2>1. f \in Entity /\ f.id <= id
    BY DEF IInv, TypeOK, FoundInv
  <2>2. f.id \in Int
    BY <1>2, <2>1 DEF Entity
  <2> QED  BY <1>1, <1>2, <2>1, <2>2
<1>4. e \notin seen
  BY <1>2, <1>3
<1>5. IsFiniteSet(seen') /\ Cardinality(seen') = Cardinality(seen) + 1
  BY <1>1, <1>4, FS_AddElement DEF IInv, FoundInv
<1>6. \A f \in seen' : f.id <= id'
  BY <1>1, <1>2, <1>3
<1>7. \A f, g \in seen' : f.id = g.id => f = g
  BY <1>1, <1>2, <1>3 DEF IInv, FoundInv
<1>8. FoundInv'
  BY <1>1, <1>5, <1>6, <1>7 DEF IInv, FoundInv
<1> QED  BY <1>1, <1>2, <1>3, <1>8 DEF IInv, TypeOK

-----------------------------------------------------------------------------
(* Each step of the search preserves the invariant.                        *)

\* A buffer with room is appended to; nothing was lost before.
LEMMA FillStep ==
  ASSUME IInv, NEW e \in Entity, Fill(e)
  PROVE  IInv'
<1>1. /\ FoundInv'
      /\ id' \in DocIds /\ nFound' \in Nat /\ seen' \subseteq Entity
      /\ \A f \in seen : f \in Entity /\ f.id < e.id
      /\ pc = "search" /\ pc' = "search" /\ index' = index
  BY FoundStep DEF Fill
<1>2. /\ seen' = seen \cup {e} /\ Len(buffer) < nLimit /\ pWorst' = pWorst
      /\ buffer' = Append(buffer, e)
      /\ quoBox' = Set(quoBox, e.id, e.id, NoDoc)
  BY DEF Fill, Found
<1>3. /\ buffer \in Seq(Entity) /\ quoBox \in Seq([udocid: DocIds, stored: DocIds])
      /\ Len(buffer) \in Nat /\ Len(quoBox) = Len(buffer)
      /\ e.id \in DocIds
      /\ \A p \in 1 .. Len(buffer) : buffer[p] \in seen
      /\ \A p \in 1 .. Len(quoBox) : quoBox[p].udocid \in DocIds
  BY BufferFacts DEF Entity
<1>4. ItemsUnder(quoBox, NoDoc) = {}
  BY <1>3, DocIdsAreInts DEF ItemsUnder
<1>5. quoBox' = Append(quoBox, [udocid |-> e.id, stored |-> e.id])
  BY <1>2, <1>4 DEF Set
<1>6. /\ Len(buffer') = Len(buffer) + 1 /\ buffer' \in Seq(Entity)
      /\ \A p \in 1 .. Len(buffer) : buffer'[p] = buffer[p]
      /\ buffer'[Len(buffer) + 1] = e
  BY <1>2, <1>3
<1>7. /\ Len(quoBox') = Len(quoBox) + 1
      /\ quoBox' \in Seq([udocid: DocIds, stored: DocIds])
      /\ \A p \in 1 .. Len(quoBox) : quoBox'[p] = quoBox[p]
      /\ quoBox'[Len(quoBox) + 1] = [udocid |-> e.id, stored |-> e.id]
  BY <1>3, <1>5
<1>8. \A p \in 1 .. Len(buffer') : p \in 1 .. Len(buffer) \/ p = Len(buffer) + 1
  BY <1>3, <1>6
<1>9. Held' = Held \cup {e}
  BY <1>3, <1>6 DEF Held
<1>10. Held = seen
  BY <1>2, LimitPositive DEF IInv, BestKept
<1>11. TypeOK'
  BY <1>1, <1>2, <1>3, <1>6, <1>7, LimitPositive DEF IInv, TypeOK
<1>12. BestKept'
  BY <1>2, <1>9, <1>10 DEF BestKept
<1>13. DistinctInv'
  <2>1. Distinct(buffer')
    <3> SUFFICES ASSUME NEW p \in 1 .. Len(buffer'), NEW q \in 1 .. Len(buffer'),
                        buffer'[p].id = buffer'[q].id
                 PROVE  p = q
      BY DEF Distinct
    <3>0. \A r \in 1 .. Len(buffer) : buffer[r].id \in Int /\ e.id \in Int /\ buffer[r].id < e.id
      BY <1>1, <1>3, DocIdsAreInts DEF Entity
    <3>1. \A r \in 1 .. Len(buffer) : buffer'[r].id # e.id
      BY <1>6, <3>0
    <3> QED  BY <1>6, <1>8, <3>1 DEF IInv, DistinctInv, Distinct
  <2>2. \A r \in 1 .. Len(quoBox) : quoBox[r].udocid # e.id
    <3> SUFFICES ASSUME NEW r \in 1 .. Len(quoBox) PROVE quoBox[r].udocid # e.id
      OBVIOUS
    <3>1. PICK f \in Held : quoBox[r].udocid = f.id
      BY DEF IInv, QuotesFollow
    <3>2. f \in Entity /\ f.id < e.id /\ f.id \in Int /\ e.id \in Int
      BY <1>1, <1>3, <1>10, DocIdsAreInts DEF Entity
    <3> QED  BY <3>1, <3>2
  <2>3. \A p, q \in 1 .. Len(quoBox') : quoBox'[p].udocid = quoBox'[q].udocid => p = q
    <3>1. \A p \in 1 .. Len(quoBox') : p \in 1 .. Len(quoBox) \/ p = Len(quoBox) + 1
      BY <1>3, <1>7
    <3>2. \A p \in 1 .. Len(quoBox) : quoBox'[p].udocid = quoBox[p].udocid /\ quoBox'[p].udocid # e.id
      BY <1>7, <2>2
    <3>3. quoBox'[Len(quoBox) + 1].udocid = e.id
      BY <1>7
    <3> QED  BY <3>1, <3>2, <3>3 DEF IInv, DistinctInv
  <2> QED  BY <2>1, <2>3 DEF DistinctInv
<1>14. pWorst' = 0
  BY <1>2, LimitPositive DEF IInv, CacheInv
<1>15. QuotesFollow'
  <2>1. Len(quoBox') = Len(buffer')
    BY <1>3, <1>6, <1>7
  <2>2. \A p \in 1 .. Len(quoBox') : p \in 1 .. Len(quoBox) \/ p = Len(quoBox) + 1
    BY <1>3, <1>7
  <2>3. /\ 1 .. Len(quoBox) \subseteq 1 .. Len(quoBox')
        /\ Len(quoBox) + 1 \in 1 .. Len(quoBox')
    BY <1>3, <1>7
  <2>4. {quoBox'[p].udocid : p \in 1 .. Len(quoBox')}
          = {quoBox[p].udocid : p \in 1 .. Len(quoBox)} \cup {e.id}
    BY <1>7, <2>2, <2>3
  <2>5. {f.id : f \in Held'} = {f.id : f \in Held} \cup {e.id}
    BY <1>9
  <2>6. \A p \in 1 .. Len(quoBox') : quoBox'[p].stored = quoBox'[p].udocid
    BY <1>7, <2>2 DEF IInv, QuotesFollow
  <2> QED  BY <2>1, <2>4, <2>5, <2>6 DEF IInv, QuotesFollow
<1> QED
  BY <1>1, <1>11, <1>12, <1>13, <1>14, <1>15 DEF IInv, CacheInv, WorstIsCurrent

\* A document no better than the worst one is dropped, with all it would beat.
LEMMA RejectStep ==
  ASSUME IInv, NEW e \in Entity, Reject(e)
  PROVE  IInv'
<1>1. /\ FoundInv'
      /\ id' \in DocIds /\ nFound' \in Nat /\ seen' \subseteq Entity
      /\ \A f \in seen : f \in Entity /\ f.id < e.id
      /\ pc = "search" /\ pc' = "search" /\ index' = index
  BY FoundStep DEF Reject
<1>2. /\ seen' = seen \cup {e} /\ Len(buffer) >= nLimit /\ pWorst' = Worst
      /\ ~ Before(e, buffer[Worst]) /\ buffer' = buffer /\ quoBox' = quoBox
  BY DEF Reject, Found
<1>3. IsWorst(buffer, Worst)
  BY <1>1, <1>2, WorstIsWorst
<1>4. Len(buffer) = nLimit
  BY <1>2, LimitPositive, BufferFacts DEF IInv, TypeOK
<1>5. TypeOK' /\ CacheInv' /\ WorstIsCurrent'
  BY <1>1, <1>2, <1>3, <1>4 DEF IInv, TypeOK, CacheInv, WorstIsCurrent, IsWorst
<1>6. BestKept'
  <2>1. buffer[Worst] \in seen /\ buffer[Worst] \in Entity /\ Held' = Held
    BY <1>2, <1>3, BufferFacts DEF IsWorst, Held
  <2>2. Before(buffer[Worst], e)
    <3>1. buffer[Worst].id < e.id /\ buffer[Worst].id \in Int /\ e.id \in Int
      BY <1>1, <2>1, DocIdsAreInts DEF Entity
    <3> QED  BY <1>2, <2>1, <3>1, BeforeTotal
  <2>3. \A p \in 1 .. Len(buffer) : Before(buffer[p], e)
    BY <1>3, <2>1, <2>2, BufferFacts, BeforeTransitive DEF IsWorst
  <2>4. \A f \in Held : Before(f, e)
    BY <2>3 DEF Held
  <2> QED  BY <1>2, <1>4, <2>1, <2>4 DEF IInv, BestKept
<1>7. Held' = Held
  BY <1>2 DEF Held
<1>8. QuotesFollow'
  BY <1>2, <1>7 DEF IInv, QuotesFollow
<1>9. DistinctInv'
  BY <1>2 DEF IInv, DistinctInv, Distinct
<1> QED  BY <1>1, <1>5, <1>6, <1>8, <1>9 DEF IInv

\* A better document takes the place of the worst, in buffer and store alike.
LEMMA ReplaceStep ==
  ASSUME IInv, NEW e \in Entity, Replace(e)
  PROVE  IInv'
<1> DEFINE w == buffer[Worst]
<1>1. /\ FoundInv'
      /\ id' \in DocIds /\ nFound' \in Nat /\ seen' \subseteq Entity
      /\ \A f \in seen : f \in Entity /\ f.id < e.id
      /\ pc = "search" /\ pc' = "search" /\ index' = index
  BY FoundStep DEF Replace
<1>2. /\ seen' = seen \cup {e} /\ Len(buffer) >= nLimit /\ pWorst' = 0
      /\ Before(e, w) /\ buffer' = [buffer EXCEPT ![Worst] = e]
      /\ quoBox' = Set(quoBox, e.id, e.id, w.id)
  BY DEF Replace, Found
<1>3. IsWorst(buffer, Worst) /\ Worst \in 1 .. Len(buffer)
  BY <1>1, <1>2, WorstIsWorst DEF IsWorst
<1>4. Len(buffer) = nLimit
  BY <1>2, LimitPositive, BufferFacts DEF IInv, TypeOK
<1>5. /\ buffer' \in Seq(Entity) /\ Len(buffer') = Len(buffer)
      /\ \A p \in 1 .. Len(buffer) : buffer'[p] = IF p = Worst THEN e ELSE buffer[p]
  BY <1>2, <1>3, BufferFacts, ExceptSeq
<1>6. w \in seen /\ w \in Entity /\ w \in Held
  BY <1>3, BufferFacts DEF Held
<1>7. /\ e.id \in DocIds
      /\ \A f \in seen : f.id # e.id
  <2>1. e.id \in DocIds
    BY DEF Entity
  <2>2. \A f \in seen : f.id \in Int
    BY <1>1, DocIdsAreInts DEF Entity
  <2> QED  BY <1>1, <2>1, <2>2, DocIdsAreInts
<1>8. \A p \in 1 .. Len(buffer) : p # Worst => buffer[p].id # w.id /\ buffer[p] # w
  BY <1>3 DEF IInv, DistinctInv, Distinct
<1>9. Held' = (Held \ {w}) \cup {e}
  BY <1>3, <1>5, <1>8 DEF Held
<1>10. PICK k \in 1 .. Len(quoBox) : quoBox[k].udocid = w.id
  <2>1. w.id \in {quoBox[p].udocid : p \in 1 .. Len(quoBox)}
    BY <1>6 DEF IInv, QuotesFollow
  <2> QED  BY <2>1
<1>11. quoBox' = [quoBox EXCEPT ![k] = [udocid |-> e.id, stored |-> e.id]]
  <2>1. ItemsUnder(quoBox, w.id) = {k}
    BY <1>10 DEF ItemsUnder, IInv, DistinctInv
  <2>2. (CHOOSE p \in {k} : \A q \in {k} : p <= q) = k
    BY <1>10
  <2>3. {k} # {}
    OBVIOUS
  <2> HIDE DEF w
  <2> QED  BY <1>2, <2>1, <2>2, <2>3 DEF Set
<1>12. /\ quoBox' \in Seq([udocid: DocIds, stored: DocIds])
       /\ Len(quoBox') = Len(quoBox)
       /\ \A p \in 1 .. Len(quoBox) :
            quoBox'[p] = IF p = k THEN [udocid |-> e.id, stored |-> e.id] ELSE quoBox[p]
  BY <1>7, <1>10, <1>11, BufferFacts, ExceptSeq
<1>13. TypeOK' /\ CacheInv' /\ WorstIsCurrent'
  BY <1>1, <1>2, <1>5, <1>12, BufferFacts DEF IInv, TypeOK, CacheInv, WorstIsCurrent
<1>14. BestKept'
  <2>1. \A p \in 1 .. Len(buffer) : p # Worst => Before(buffer[p], w)
    BY <1>3 DEF IsWorst
  <2>2. \A f \in Held' : Before(f, w) /\ f \in Entity
    BY <1>2, <1>9, <2>1, BufferFacts DEF Held
  <2>3. \A g \in seen' \ Held' : g = w \/ (g \in seen \ Held)
    BY <1>2, <1>9
  <2>4. \A g \in seen \ Held : Before(w, g) /\ g \in Entity
    BY <1>1, <1>6 DEF IInv, BestKept
  <2>5. \A f \in Held' : \A g \in seen' \ Held' : Before(f, g)
    BY <1>6, <2>2, <2>3, <2>4, BeforeTransitive
  <2>6. Held' \subseteq seen'
    BY <1>2, <1>9 DEF IInv, BestKept
  <2> QED  BY <1>4, <1>5, <2>5, <2>6 DEF BestKept
<1>15. DistinctInv'
  <2>1. Distinct(buffer')
    <3>1. \A p \in 1 .. Len(buffer) : p # Worst => buffer'[p].id = buffer[p].id /\ buffer'[p].id # e.id
      BY <1>5, <1>7, BufferFacts
    <3>2. buffer'[Worst].id = e.id
      BY <1>3, <1>5
    <3> QED  BY <1>5, <3>1, <3>2 DEF IInv, DistinctInv, Distinct
  <2>2. \A r \in 1 .. Len(quoBox) : quoBox[r].udocid # e.id
    <3> SUFFICES ASSUME NEW r \in 1 .. Len(quoBox) PROVE quoBox[r].udocid # e.id
      OBVIOUS
    <3>1. PICK f \in Held : quoBox[r].udocid = f.id
      BY DEF IInv, QuotesFollow
    <3>2. f \in seen
      BY DEF IInv, BestKept
    <3> QED  BY <1>7, <3>1, <3>2
  <2>3. \A p \in 1 .. Len(quoBox) : p # k => quoBox'[p].udocid = quoBox[p].udocid /\ quoBox'[p].udocid # e.id
    BY <1>12, <2>2
  <2>4. quoBox'[k].udocid = e.id
    BY <1>10, <1>12
  <2> QED  BY <1>12, <2>1, <2>3, <2>4 DEF IInv, DistinctInv
<1>16. QuotesFollow'
  <2>1. \A p \in 1 .. Len(quoBox) : p # k => quoBox[p].udocid # w.id
    BY <1>10 DEF IInv, DistinctInv
  <2>2. {quoBox'[p].udocid : p \in 1 .. Len(quoBox')}
          = ({quoBox[p].udocid : p \in 1 .. Len(quoBox)} \ {w.id}) \cup {e.id}
    <3>1. \A p \in 1 .. Len(quoBox) : p # k => quoBox'[p].udocid = quoBox[p].udocid
      BY <1>12
    <3>2. quoBox'[k].udocid = e.id
      BY <1>10, <1>12
    <3> QED  BY <1>10, <1>12, <2>1, <3>1, <3>2
  <2>3. \A f \in Held : f # w => f.id # w.id
    BY <1>8 DEF Held
  <2>4. {f.id : f \in Held'} = ({f.id : f \in Held} \ {w.id}) \cup {e.id}
    BY <1>6, <1>9, <2>3
  <2>5. \A p \in 1 .. Len(quoBox') : quoBox'[p].stored = quoBox'[p].udocid
    BY <1>12 DEF IInv, QuotesFollow
  <2> QED  BY <1>5, <1>12, <2>2, <2>4, <2>5 DEF IInv, QuotesFollow
<1> QED  BY <1>1, <1>13, <1>14, <1>15, <1>16 DEF IInv

\* Sorting permutes the buffer: the page is read off, nothing is lost.
LEMMA FinishPageStep ==
  ASSUME IInv, FinishPage
  PROVE  IInv'
<1>1. PICK s \in [1 .. Len(buffer) -> {buffer[p] : p \in 1 .. Len(buffer)}] :
        IsSortOf(s, buffer) /\ buffer' = s
  BY DEF FinishPage
<1>2. /\ pc' \in {"reported", "thrown"} /\ pc' # "search"
      /\ id' = id /\ nFound' = nFound /\ pWorst' = pWorst /\ quoBox' = quoBox
      /\ index' = index /\ seen' = seen
  BY DEF FinishPage
<1>3. Held \subseteq Entity
  BY DEF IInv, BestKept, TypeOK
<1>4. Len(buffer) \in Nat /\ s \in [1 .. Len(buffer) -> Held]
  BY <1>1, BufferFacts DEF Held
<1>5. s \in Seq(Entity) /\ Len(s) = Len(buffer)
  <2>1. s \in [1 .. Len(buffer) -> Entity]
    BY <1>3, <1>4
  <2> QED  BY <1>4, <2>1
<1>6. Held' = Held
  BY <1>1, <1>5 DEF IsSortOf, Held
<1>7. Distinct(s)
  <2> SUFFICES ASSUME NEW p \in 1 .. Len(s), NEW q \in 1 .. Len(s), s[p].id = s[q].id, p < q
               PROVE  FALSE
    BY <1>5 DEF Distinct
  <2>1. Before(s[p], s[q])
    BY <1>1, <1>5 DEF IsSortOf
  <2>2. s[p] \in seen /\ s[q] \in seen /\ s[p] \in Entity
    BY <1>3, <1>4, <1>5 DEF IInv, BestKept
  <2>3. s[p] = s[q]
    BY <2>2 DEF IInv, FoundInv
  <2> QED  BY <2>1, <2>2, <2>3, BeforeIrreflexive
<1>8. TypeOK' /\ CacheInv' /\ WorstIsCurrent'
  BY <1>1, <1>2, <1>5 DEF IInv, TypeOK, CacheInv, WorstIsCurrent
<1>9. FoundInv' /\ BestKept'
  BY <1>1, <1>2, <1>5, <1>6 DEF IInv, FoundInv, BestKept
<1>10. DistinctInv'
  BY <1>1, <1>2, <1>7 DEF IInv, DistinctInv
<1>11. QuotesFollow'
  BY <1>1, <1>2, <1>5, <1>6 DEF IInv, QuotesFollow
<1> QED  BY <1>8, <1>9, <1>10, <1>11 DEF IInv

LEMMA NextIInv == IInv /\ [Next]_vars => IInv'
<1> SUFFICES ASSUME IInv, [Next]_vars PROVE IInv'
  OBVIOUS
<1>1. ASSUME /\ UNCHANGED <<nFound, buffer, pWorst, quoBox, seen>>
             /\ pc' \in {"search", "found", "reported", "thrown"} /\ (pc' = "search" => pc = "search")
             /\ id' \in DocIds \cup {0} /\ id' >= id /\ index' \subseteq DocIds
      PROVE  IInv'
  <2>1. Held' = Held
    BY <1>1 DEF Held
  <2>2. TypeOK' /\ CacheInv' /\ WorstIsCurrent'
    BY <1>1 DEF IInv, TypeOK, CacheInv, WorstIsCurrent
  <2>3. FoundInv'
    <3>1. \A e \in seen : e.id <= id'
      <4> SUFFICES ASSUME NEW e \in seen PROVE e.id <= id'
        OBVIOUS
      <4>1. e \in Entity /\ e.id <= id
        BY DEF IInv, TypeOK, FoundInv
      <4>2. e.id \in Int
        BY <4>1, DocIdsAreInts DEF Entity
      <4>3. id \in Int /\ id' \in Int
        BY <1>1, DocIdsAreInts DEF IInv, TypeOK
      <4> QED  BY <1>1, <4>1, <4>2, <4>3
    <3> QED  BY <1>1, <3>1 DEF IInv, FoundInv
  <2>4. BestKept'
    BY <1>1, <2>1 DEF IInv, BestKept
  <2>5. DistinctInv'
    BY <1>1 DEF IInv, DistinctInv, Distinct
  <2>6. QuotesFollow'
    BY <1>1, <2>1 DEF IInv, QuotesFollow
  <2> QED  BY <2>2, <2>3, <2>4, <2>5, <2>6 DEF IInv
<1>2. id \in Int /\ id \in DocIds \cup {0} /\ index \subseteq DocIds
      /\ pc \in {"search", "found", "reported", "thrown"}
  BY DocIdsAreInts DEF IInv, TypeOK
<1>3. ASSUME NEW d \in DocIds, SkipEmpty(d)
      PROVE  IInv'
  BY <1>1, <1>2, <1>3, DocIdsAreInts DEF SkipEmpty, SearchDoc
<1>4. ASSUME NEW e \in Entity, Fill(e)
      PROVE  IInv'
  BY <1>4, FillStep
<1>5. ASSUME NEW e \in Entity, Replace(e)
      PROVE  IInv'
  BY <1>5, ReplaceStep
<1>6. ASSUME NEW e \in Entity, Reject(e)
      PROVE  IInv'
  BY <1>6, RejectStep
<1>7. CASE EndSearch
  BY <1>1, <1>2, <1>7 DEF EndSearch
<1>8. CASE FinishEmpty
  BY <1>1, <1>2, <1>8 DEF FinishEmpty
<1>9. CASE FinishPage
  BY <1>9, FinishPageStep
<1>10. ASSUME NEW d \in DocIds, RemoveDoc(d)
       PROVE  IInv'
  BY <1>1, <1>2, <1>10 DEF RemoveDoc
<1>11. CASE UNCHANGED vars
  BY <1>1, <1>2, <1>11 DEF vars
<1> QED
  BY <1>3, <1>4, <1>5, <1>6, <1>7, <1>8, <1>9, <1>10, <1>11 DEF Next

(***************************************************************************)
(* Whatever the order, the page and the documents the query returns, the   *)
(* invariant holds in every reachable state of a linear search.            *)
(***************************************************************************)
THEOREM Invariance == Spec => []IInv
<1>1. Init => IInv
  BY InitIInv
<1>2. IInv /\ [Next]_vars => IInv'
  BY NextIInv
<1> QED  BY <1>1, <1>2, PTL DEF Spec

(***************************************************************************)
(* Every variable keeps the type the code gives it; the buffer never       *)
(* outgrows nLimit.                                                        *)
(***************************************************************************)
THEOREM TypeCorrect == Spec => []TypeOK
<1>1. IInv => TypeOK
  BY DEF IInv
<1> QED  BY <1>1, Invariance, PTL

(***************************************************************************)
(* The collector always holds the best nLimit of the documents that        *)
(* matched so far: neither the cached pWorst nor the overwriting of the    *)
(* worst document ever loses a better one.                                 *)
(***************************************************************************)
THEOREM BestAlwaysKept == Spec => []BestKept
<1>1. IInv => BestKept
  BY DEF IInv
<1> QED  BY <1>1, Invariance, PTL

(***************************************************************************)
(* A cached pWorst is never stale during the search.                       *)
(***************************************************************************)
THEOREM WorstAlwaysCurrent == Spec => []WorstIsCurrent
<1>1. IInv => WorstIsCurrent
  BY DEF IInv
<1> QED  BY <1>1, Invariance, PTL

(***************************************************************************)
(* The abstracts kept are those of the documents in the buffer, one each.  *)
(***************************************************************************)
THEOREM QuotesAlwaysFollow == Spec => []QuotesFollow
<1>1. IInv => QuotesFollow
  BY DEF IInv
<1> QED  BY <1>1, Invariance, PTL

(***************************************************************************)
(* Abstracts::Set has room for, or replaces, an item whenever the search   *)
(* calls it: "Abstracts storage overflow" is never thrown.                 *)
(***************************************************************************)
THEOREM StoreIsLargeEnough == Spec => []StoreNeverOverflows
<1>1. IInv => StoreNeverOverflows
  <2> SUFFICES ASSUME IInv, pc = "search"
               PROVE  CanSet(quoBox, nLimit,
                             IF Len(buffer) < nLimit THEN NoDoc ELSE buffer[Worst].id)
    BY DEF StoreNeverOverflows
  <2>1. CASE Len(buffer) < nLimit
    BY <2>1, BufferFacts DEF CanSet
  <2>2. CASE ~ (Len(buffer) < nLimit)
    <3>1. Worst \in 1 .. Len(buffer)
      BY <2>2, LimitPositive, BufferFacts, WorstIsWorst DEF IsWorst
    <3>2. buffer[Worst].id \in {quoBox[p].udocid : p \in 1 .. Len(quoBox)}
      BY <3>1 DEF IInv, QuotesFollow, Held
    <3> QED  BY <2>2, <3>2 DEF CanSet, ItemsUnder
  <2> QED  BY <2>1, <2>2
<1> QED  BY <1>1, Invariance, PTL
-----------------------------------------------------------------------------
(* The report of Finish.                                                   *)

\* A collector keeps as many documents as matched, up to its limit.
LEMMA HeldMany ==
  ASSUME IInv
  PROVE  LET nSeen == Cardinality(seen)
         IN  Len(buffer) = IF nSeen < nLimit THEN nSeen ELSE nLimit
<1>1. buffer \in Seq(Entity) /\ Len(buffer) \in Nat /\ Len(buffer) <= nLimit /\ nLimit \in Nat
  BY BufferFacts, LimitPositive DEF IInv, TypeOK
<1>2. Cardinality(Held) = Len(buffer)
  BY <1>1, SizeOfDistinct DEF IInv, DistinctInv, Distinct, Held
<1>3. IsFiniteSet(seen) /\ Cardinality(seen) \in Nat
  BY FS_CardinalityType DEF IInv, FoundInv
<1>4. Cardinality(Held) <= Cardinality(seen)
  BY <1>3, FS_Subset DEF IInv, BestKept
<1>5. Held = seen \/ Len(buffer) = nLimit
  BY DEF IInv, BestKept
<1> QED  BY <1>1, <1>2, <1>3, <1>4, <1>5

\* The place of a document in the sorted buffer is its rank among all that
\* matched: those better than it are exactly those before it.
LEMMA PlaceIsRank ==
  ASSUME IInv, NEW s \in [1 .. Len(buffer) -> Held], IsSortOf(s, buffer),
         NEW p \in 1 .. Len(buffer)
  PROVE  s[p] \in seen /\ Cardinality({f \in seen : Before(f, s[p])}) = p - 1
<1> DEFINE better == {f \in seen : Before(f, s[p])}
           top == [q \in 1 .. p - 1 |-> s[q]]
<1>1. Held \subseteq seen /\ seen \subseteq Entity
  BY DEF IInv, BestKept, TypeOK
<1>2. Len(buffer) \in Nat /\ p \in Nat /\ p - 1 \in Nat
  BY BufferFacts
<1>3. \A q \in 1 .. Len(buffer) : s[q] \in Held /\ s[q] \in seen /\ s[q] \in Entity
  BY <1>1
<1>4. {s[q] : q \in 1 .. Len(buffer)} = Held
  BY DEF IsSortOf, Held
<1>5. \A q, r \in 1 .. Len(buffer) : q < r => Before(s[q], s[r])
  BY DEF IsSortOf
<1>6. better = {s[q] : q \in 1 .. p - 1}
  <2>1. ASSUME NEW q \in 1 .. p - 1
        PROVE  s[q] \in better
    <3>1. q \in 1 .. Len(buffer) /\ q < p
      BY <1>2
    <3> QED  BY <1>3, <1>5, <3>1
  <2>2. ASSUME NEW f \in better
        PROVE  \E q \in 1 .. p - 1 : f = s[q]
    <3>1. f \in Entity /\ Before(f, s[p]) /\ f \in seen
      BY <1>1
    <3>2. f \in Held
      <4> SUFFICES ASSUME f \notin Held
                   PROVE  FALSE
        OBVIOUS
      <4>1. Before(s[p], f)
        BY <1>3, <3>1 DEF IInv, BestKept
      <4> QED  BY <1>3, <3>1, <4>1, BeforeTransitive, BeforeIrreflexive
    <3>3. PICK q \in 1 .. Len(buffer) : f = s[q]
      BY <1>4, <3>2
    <3>4. q # p
      BY <1>3, <3>1, <3>3, BeforeIrreflexive
    <3>5. ~ (p < q)
      <4> SUFFICES ASSUME p < q
                   PROVE  FALSE
        OBVIOUS
      <4>1. Before(s[p], s[q])
        BY <1>5
      <4> QED  BY <1>3, <3>1, <3>3, <4>1, BeforeTransitive, BeforeIrreflexive
    <3> QED  BY <1>2, <3>3, <3>4, <3>5
  <2> QED  BY <2>1, <2>2
<1>7. top \in Seq(Entity) /\ Len(top) = p - 1 /\ \A q \in 1 .. p - 1 : top[q] = s[q]
  <2>1. \A q \in 1 .. p - 1 : q \in 1 .. Len(buffer)
    BY <1>2
  <2>2. top \in [1 .. p - 1 -> Entity]
    BY <1>3, <2>1
  <2> QED  BY <1>2, <2>2
<1>8. \A q, r \in 1 .. Len(top) : top[q] = top[r] => q = r
  <2> SUFFICES ASSUME NEW q \in 1 .. p - 1, NEW r \in 1 .. p - 1, q < r, s[q] = s[r]
               PROVE  FALSE
    BY <1>2, <1>7
  <2>1. q \in 1 .. Len(buffer) /\ r \in 1 .. Len(buffer)
    BY <1>2
  <2> QED  BY <1>3, <1>5, <2>1, BeforeIrreflexive
<1> HIDE DEF top
<1>9. {top[q] : q \in 1 .. Len(top)} = better
  BY <1>6, <1>7
<1>10. Cardinality({top[q] : q \in 1 .. Len(top)}) = Len(top)
  BY <1>7, <1>8, SizeOfDistinct
<1> QED  BY <1>3, <1>7, <1>9, <1>10

\* Get finds for each document held the abstract stored for it, and no other.
LEMMA QuoteIsOwn ==
  ASSUME IInv, NEW e \in Held
  PROVE  Get(quoBox, e.id) = {e.id}
<1>1. PICK k \in 1 .. Len(quoBox) : quoBox[k].udocid = e.id
  <2>1. e.id \in {quoBox[p].udocid : p \in 1 .. Len(quoBox)}
    BY DEF IInv, QuotesFollow
  <2> QED  BY <2>1
<1>2. ItemsUnder(quoBox, e.id) = {k}
  BY <1>1 DEF ItemsUnder, IInv, DistinctInv
<1>3. quoBox[k].stored = e.id
  BY <1>1 DEF IInv, QuotesFollow
<1>4. {h \in {k} : \A q \in {k} : h <= q} = {k}
  OBVIOUS
<1> QED  BY <1>2, <1>3, <1>4 DEF Get

LEMMA FinishEmptyReport ==
  ASSUME IInv, FinishEmpty
  PROVE  ReportIsPage'
<1>1. /\ Len(buffer) < nFirst /\ report' = [found |-> nFound, items |-> <<>>]
      /\ seen' = seen
  BY DEF FinishEmpty
<1>2. nFound = Cardinality(seen)
  BY DEF IInv, FoundInv
<1> QED  BY <1>1, <1>2, HeldMany DEF ReportIsPage

LEMMA FinishPageReport ==
  ASSUME IInv, FinishPage
  PROVE  ReportIsPage'
<1> SUFFICES ASSUME pc' = "reported"
             PROVE  ReportIsPage'
  BY DEF ReportIsPage
<1>1. PICK s \in [1 .. Len(buffer) -> {buffer[p] : p \in 1 .. Len(buffer)}] :
        /\ IsSortOf(s, buffer)
        /\ report' = [found |-> nFound,
                      items |-> [i \in 1 .. Len(buffer) + 1 - nFirst |-> Item(s[nFirst + i - 1])]]
  BY DEF FinishPage
<1>2. seen' = seen /\ Len(buffer) >= nFirst /\ nFirst \in Nat \ {0} /\ Len(buffer) \in Nat
  BY BufferFacts, PageAssumption DEF FinishPage
<1>3. s \in [1 .. Len(buffer) -> Held]
  BY DEF Held
<1>4. report'.found = Cardinality(seen)
  BY <1>1 DEF IInv, FoundInv
<1>5. /\ Len(report'.items) = Len(buffer) + 1 - nFirst
      /\ \A i \in 1 .. Len(buffer) + 1 - nFirst : report'.items[i] = Item(s[nFirst + i - 1])
  BY <1>1, <1>2
<1>6. ASSUME NEW i \in 1 .. Len(report'.items)
      PROVE  \E e \in seen :
               /\ report'.items[i] = [id |-> e.id, weight |-> e.weight, quote |-> {e.id}]
               /\ Cardinality({f \in seen : Before(f, e)}) = nFirst + i - 2
  <2>1. PICK p \in 1 .. Len(buffer) : p = nFirst + i - 1
    BY <1>2, <1>5
  <2>2. s[p] \in Held
    BY <1>3
  <2>3. report'.items[i] = [id |-> s[p].id, weight |-> s[p].weight, quote |-> {s[p].id}]
    BY <1>5, <2>1, <2>2, QuoteIsOwn DEF Item
  <2>4. s[p] \in seen /\ Cardinality({f \in seen : Before(f, s[p])}) = p - 1
    BY <1>1, <1>3, PlaceIsRank
  <2>5. p - 1 = nFirst + i - 2
    BY <1>2, <1>5, <2>1
  <2> QED  BY <2>3, <2>4, <2>5
<1> DEFINE nSeen == Cardinality(seen)
           last  == IF nSeen < nLimit THEN nSeen ELSE nLimit
<1>7. last = Len(buffer)
  BY HeldMany
<1>8. Len(report'.items) = IF last < nFirst THEN 0 ELSE last - nFirst + 1
  BY <1>2, <1>5, <1>7
<1> QED  BY <1>2, <1>4, <1>6, <1>8 DEF ReportIsPage

(***************************************************************************)
(* Finish reports the page asked for: it counts every match and lists the  *)
(* documents of rank nFirst .. nFirst+ncount-1 among all of them, in order *)
(* and each with its own abstract, however many were removed, replaced or  *)
(* rejected on the way.                                                    *)
(***************************************************************************)
THEOREM ReportIsThePage == Spec => []ReportIsPage
<1>1. Init => ReportIsPage
  BY DEF Init, ReportIsPage
<1>2. IInv /\ ReportIsPage /\ [Next]_vars => ReportIsPage'
  <2> SUFFICES ASSUME IInv, ReportIsPage, [Next]_vars
               PROVE  ReportIsPage'
    OBVIOUS
  <2>1. CASE FinishEmpty
    BY <2>1, FinishEmptyReport
  <2>2. CASE FinishPage
    BY <2>2, FinishPageReport
  <2>3. ASSUME pc' # "reported"
        PROVE  ReportIsPage'
    BY <2>3 DEF ReportIsPage
  <2>4. CASE UNCHANGED vars
    BY <2>4 DEF vars, ReportIsPage
  <2> QED
    BY <2>1, <2>2, <2>3, <2>4
    DEF Next, SkipEmpty, Fill, Replace, Reject, EndSearch, RemoveDoc, Found, SearchDoc
<1> QED  BY <1>1, <1>2, Invariance, PTL DEF Spec
-----------------------------------------------------------------------------
(* The refinement of TopK.                                                 *)

\* The invariant makes what is held the best of what was seen.
LEMMA HeldIsBest ==
  ASSUME NEW buf \in Seq(Entity), NEW all, NEW held,
         held = {buf[p] : p \in 1 .. Len(buf)},
         Distinct(buf), Len(buf) <= nLimit,
         held \subseteq all,
         held = all \/ Len(buf) = nLimit,
         \A e \in held : \A f \in all \ held : Before(e, f)
  PROVE  Promise!IsBest(held, all)
<1>1. Cardinality(held) = Len(buf)
  BY SizeOfDistinct DEF Distinct
<1>2. Promise!Cardinality(held) = Cardinality(held)
  BY DEF Promise!Cardinality, Cardinality
<1> QED  BY <1>1, <1>2 DEF Promise!IsBest

(***************************************************************************)
(* The linear search implements the promise of every collector: each of    *)
(* its steps gives the abstract collector one document, or none.           *)
(***************************************************************************)
THEOREM LinearSearchKeepsPromise == Spec => ImplementsTopK
<1>1. Init => Promise!Init
  BY EmptySeq DEF Init, Promise!Init, Held
<1>2. IInv /\ IInv' /\ [Next]_vars => [Promise!Next]_(Promise!vars)
  <2> SUFFICES ASSUME IInv, IInv', [Next]_vars
               PROVE  Promise!Next \/ (seen' = seen /\ Held' = Held)
    BY DEF Promise!vars
  <2>1. Promise!IsBest(Held', seen')
    <3>1. /\ buffer' \in Seq(Entity) /\ Distinct(buffer') /\ Len(buffer') <= nLimit
          /\ Held' = {buffer'[p] : p \in 1 .. Len(buffer')}
      BY DEF IInv, TypeOK, DistinctInv, Held
    <3>2. /\ Held' \subseteq seen'
          /\ Held' = seen' \/ Len(buffer') = nLimit
          /\ \A e \in Held' : \A f \in seen' \ Held' : Before(e, f)
      BY DEF IInv, BestKept
    <3> QED  BY <3>1, <3>2, HeldIsBest
  <2>2. Held' \in SUBSET seen'
    BY DEF IInv, BestKept
  <2>3. ASSUME NEW e \in Entity, Found(e)
        PROVE  Promise!Next
    <3>1. seen' = seen \cup {e}
      BY <2>3 DEF Found
    <3>2. Promise!Add({e})
      BY <2>1, <2>2, <3>1 DEF Promise!Add
    <3> QED  BY <3>2 DEF Promise!Next
  <2>4. CASE FinishPage
    <3>1. PICK s \in [1 .. Len(buffer) -> {buffer[p] : p \in 1 .. Len(buffer)}] :
            IsSortOf(s, buffer) /\ buffer' = s
      BY <2>4 DEF FinishPage
    <3>2. Len(buffer) \in Nat /\ DOMAIN s = 1 .. Len(buffer)
      BY BufferFacts
    <3>3. DOMAIN buffer' = 1 .. Len(buffer')
      BY LenProperties DEF IInv, TypeOK
    <3>4. Len(buffer') \in Nat
      BY LenProperties DEF IInv, TypeOK
    <3>5. Len(buffer') = Len(buffer)
      <4>1. s \in Seq({buffer[p] : p \in 1 .. Len(buffer)})
        BY <3>1, <3>2
      <4> QED  BY <3>1, <3>2, <4>1
    <3>6. Held' = Held
      BY <3>1, <3>5 DEF Held, IsSortOf
    <3> QED  BY <2>4, <3>6 DEF FinishPage
  <2>5. UNCHANGED <<buffer, seen>> => seen' = seen /\ Held' = Held
    BY DEF Held
  <2> QED
    BY <2>3, <2>4, <2>5
    DEF Next, vars, SkipEmpty, Fill, Replace, Reject, EndSearch, FinishEmpty, RemoveDoc
<1> QED  BY <1>1, <1>2, Invariance, PTL DEF Spec, ImplementsTopK, Promise!Spec
-----------------------------------------------------------------------------
(* A linear search is what module CollectorMerge takes as one step: the    *)
(* search of a part, whose buffer Insert then sorts.                       *)

\* The n documents of S in their order.
Sorts(n, S) ==
  {s \in [1 .. n -> S] : /\ {s[p] : p \in 1 .. n} = S
                         /\ \A p, q \in 1 .. n : p < q => Before(s[p], s[q])}

InOrder == CHOOSE s \in Sorts(Len(buffer), Held) : TRUE

Ended == pc # "search"

WholeSection(p) == DocIds

\* The search as the search of part 1, which nobody has merged yet.
Part == INSTANCE CollectorMerge WITH
  Parts <- {1}, Section <- WholeSection,
  pc <- [p \in {1} |-> IF ~Ended THEN "queued" ELSE IF seen = {} THEN "done" ELSE "searched"],
  found <- [p \in {1} |-> IF Ended THEN seen ELSE {}],
  docs <- [p \in {1} |-> IF Ended THEN InOrder ELSE <<>>],
  mxLock <- {}, srcptr <- 1, dstptr <- 1, buffer <- <<>>, quoBox <- <<>>, nFound <- 0

SearchesAsPart == Part!Init /\ [][Part!SearchPart(1)]_(Part!vars)

\* Of finitely many documents one comes last.
LEMMA LastExists ==
  ASSUME NEW S, S \subseteq Entity, IsFiniteSet(S), S # {},
         \A e, f \in S : e.id = f.id => e = f
  PROVE  \E w \in S : \A e \in S \ {w} : Before(e, w)
<1>1. PICK n \in Nat : ExistsBijection(1 .. n, S)
  BY FS_NatBijection
<1>2. PICK f \in Bijection(1 .. n, S) : TRUE
  BY <1>1 DEF ExistsBijection
<1>3. /\ f \in [1 .. n -> S] /\ \A p, q \in 1 .. n : f[p] = f[q] => p = q
      /\ \A e \in S : \E p \in 1 .. n : f[p] = e
  BY <1>2 DEF Bijection, Injection, Surjection, IsInjective
<1>4. f \in Seq(Entity) /\ Len(f) = n /\ Len(f) > 0
  BY <1>1, <1>3
<1>5. Distinct(f)
  BY <1>3, <1>4 DEF Distinct
<1>6. IsWorst(f, WorstOf(f))
  BY <1>4, <1>5, WorstExists
<1> QED  BY <1>3, <1>4, <1>6 DEF IsWorst

\* There is an order to sort documents into: a smallest set without one would
\* have it from the set without its last document.
LEMMA SortExists ==
  ASSUME NEW S, S \subseteq Entity, IsFiniteSet(S),
         \A e, f \in S : e.id = f.id => e = f
  PROVE  Sorts(Cardinality(S), S) # {}
<1> DEFINE R == StrictSubsetOrdering(S)
           Bad == {T \in SUBSET S : Sorts(Cardinality(T), T) = {}}
<1>1. IsWellFoundedOn(R, SUBSET S)
  BY FS_FiniteSubsetsOfFinite, FS_StrictSubsetOrderingWellFounded
<1>2. SUFFICES ASSUME Bad # {} PROVE FALSE
  OBVIOUS
<1>3. PICK m \in Bad : \A T \in Bad : <<T, m>> \notin R
  <2> Bad \subseteq SUBSET S
    OBVIOUS
  <2> HIDE DEF R, Bad
  <2> QED  BY <1>1, <1>2, WFMin
<1>4. m \subseteq S /\ IsFiniteSet(m) /\ Cardinality(m) \in Nat
  BY <1>3, FS_Subset, FS_CardinalityType
<1>5. m # {}
  <2> SUFFICES ASSUME m = {} PROVE FALSE
    OBVIOUS
  <2>1. Cardinality(m) = 0
    BY FS_EmptySet
  <2>2. <<>> \in Sorts(0, {})
    BY DEF Sorts
  <2> QED  BY <1>3, <2>1, <2>2
<1>6. PICK w \in m : \A e \in m \ {w} : Before(e, w)
  BY <1>4, <1>5, LastExists
<1> DEFINE T == m \ {w}
           n == Cardinality(m)
<1>7. Cardinality(T) = n - 1 /\ n \in Nat /\ n >= 1
  <2>1. Cardinality(T) = n - 1 /\ IsFiniteSet(T)
    BY <1>4, <1>6, FS_RemoveElement
  <2>2. Cardinality(T) \in Nat
    BY <2>1, FS_CardinalityType
  <2> QED  BY <1>4, <2>1, <2>2
<1>8. PICK s \in Sorts(n - 1, T) : TRUE
  <2>1. T \in SUBSET S /\ <<T, m>> \in R
    BY <1>4, <1>6 DEF StrictSubsetOrdering
  <2>2. T \notin Bad
    BY <1>3, <2>1
  <2> QED  BY <1>7, <2>1, <2>2
<1>9. /\ s \in [1 .. n - 1 -> T] /\ {s[p] : p \in 1 .. n - 1} = T
      /\ \A p, q \in 1 .. n - 1 : p < q => Before(s[p], s[q])
  BY <1>8 DEF Sorts
<1> DEFINE t == [i \in 1 .. n |-> IF i = n THEN w ELSE s[i]]
<1> HIDE DEF n, Bad, R
<1>10. t \in Sorts(n, m)
  <2>1. \A i \in 1 .. n : i # n => i \in 1 .. n - 1 /\ t[i] = s[i] /\ t[i] \in T
    BY <1>7, <1>9
  <2>2. n \in 1 .. n /\ t[n] = w
    BY <1>7
  <2>3. t \in [1 .. n -> m]
    BY <1>6, <2>1
  <2>4. {t[p] : p \in 1 .. n} = m
    <3>1. \A e \in m : \E p \in 1 .. n : t[p] = e
      <4> SUFFICES ASSUME NEW e \in m PROVE \E p \in 1 .. n : t[p] = e
        OBVIOUS
      <4>1. CASE e = w
        BY <2>2, <4>1
      <4>2. CASE e # w
        <5>1. PICK p \in 1 .. n - 1 : s[p] = e
          BY <1>9, <4>2
        <5>2. p \in 1 .. n /\ p # n
          BY <1>7
        <5> QED  BY <5>1, <5>2
      <4> QED  BY <4>1, <4>2
    <3> QED  BY <2>3, <3>1
  <2>5. ASSUME NEW p \in 1 .. n, NEW q \in 1 .. n, p < q
        PROVE  Before(t[p], t[q])
    <3>1. p # n /\ p \in 1 .. n - 1
      BY <1>7, <2>5
    <3>2. CASE q = n
      BY <1>6, <2>1, <2>2, <3>1, <3>2
    <3>3. CASE q # n
      BY <1>9, <2>1, <2>5, <3>1, <3>3
    <3> QED  BY <3>2, <3>3
  <2> HIDE DEF t
  <2> QED  BY <2>3, <2>4, <2>5 DEF Sorts
<1> QED  BY <1>3, <1>10 DEF Bad, n

\* What the sorted buffer of a search is: the documents held, in their order.
LEMMA InOrderFacts ==
  ASSUME IInv
  PROVE  /\ InOrder \in [1 .. Len(buffer) -> Held]
         /\ {InOrder[p] : p \in 1 .. Len(buffer)} = Held
         /\ \A p, q \in 1 .. Len(buffer) : p < q => Before(InOrder[p], InOrder[q])
<1>1. Held \subseteq Entity /\ Cardinality(Held) = Len(buffer) /\ IsFiniteSet(Held)
  <2>1. buffer \in Seq(Entity) /\ \A p, q \in 1 .. Len(buffer) : buffer[p] = buffer[q] => p = q
    BY BufferFacts DEF IInv, DistinctInv, Distinct
  <2> QED  BY <2>1, BufferFacts, SizeOfDistinct DEF Held
<1>2. \A e, f \in Held : e.id = f.id => e = f
  BY DEF IInv, BestKept, FoundInv
<1>3. InOrder \in Sorts(Len(buffer), Held)
  BY <1>1, <1>2, SortExists DEF InOrder
<1> QED  BY <1>3 DEF Sorts

\* The end of a search is the step SearchPart.
LEMMA EndIsSearchPart ==
  ASSUME IInv, EndSearch
  PROVE  Part!SearchPart(1)
<1>1. /\ ~Ended /\ Ended' /\ Held' = Held /\ InOrder' = InOrder /\ seen' = seen
  BY DEF EndSearch, Ended, Held, InOrder
<1>2. seen \in Part!Matches(1)
  BY DEF Part!Matches, Part!Entity, Entity, IInv, TypeOK, FoundInv, WholeSection, IsFiniteSet, Part!IsFiniteSet
<1>3. Part!Collects(InOrder, seen)
  <2>1. Len(InOrder) = Len(buffer) /\ Len(buffer) \in Nat
    BY InOrderFacts, BufferFacts
  <2>2. Part!Items(InOrder) = Held
    BY <2>1, InOrderFacts DEF Part!Items
  <2>3. Part!Sorted(InOrder)
    BY <2>1, InOrderFacts
    DEF Part!Sorted, Part!Before, Part!Compare, Part!SignedDiff, Before, Compare, SignedDiff
  <2>4. \A e \in Held : \A f \in seen \ Held : Part!Before(e, f)
    BY DEF IInv, BestKept, Part!Before, Part!Compare, Part!SignedDiff, Before, Compare, SignedDiff
  <2> QED  BY <2>1, <2>2, <2>3, <2>4 DEF Part!Collects, IInv, BestKept
<1>4. Len(buffer) \in 0 .. nLimit /\ InOrder \in [1 .. Len(buffer) -> seen]
  BY InOrderFacts, BufferFacts, LimitPositive DEF IInv, TypeOK, BestKept
<1> QED  BY <1>1, <1>2, <1>3, <1>4 DEF Part!SearchPart

(***************************************************************************)
(* What the merge assumes of the search of a part is what a search does:   *)
(* its documents are the best nLimit of those that matched, sorted, and    *)
(* nothing it does before or after the end of the search is a step of the  *)
(* merge (Documents::impl::Search, called by an action of the pool).       *)
(***************************************************************************)
THEOREM SearchIsAPart == Spec => SearchesAsPart
<1>1. Init => Part!Init
  BY DEF Init, Part!Init, Ended
<1>2. IInv /\ [Next]_vars => [Part!SearchPart(1)]_(Part!vars)
  <2> SUFFICES ASSUME IInv, [Next]_vars
               PROVE  \/ Part!SearchPart(1)
                      \/ (Ended <=> Ended') /\ UNCHANGED <<seen, InOrder>>
                      \/ ~Ended /\ ~Ended'
    BY DEF Part!vars
  <2>1. CASE EndSearch
    BY <2>1, EndIsSearchPart
  <2>2. CASE FinishPage
    <3>1. PICK s \in [1 .. Len(buffer) -> {buffer[p] : p \in 1 .. Len(buffer)}] :
            IsSortOf(s, buffer) /\ buffer' = s
      BY <2>2 DEF FinishPage
    <3>2. Len(buffer') = Len(buffer) /\ Len(buffer) \in Nat
      BY <3>1, BufferFacts
    <3>3. Held' = Held
      BY <3>1, <3>2 DEF Held, IsSortOf
    <3> QED  BY <2>2, <3>2, <3>3 DEF FinishPage, Ended, InOrder, Sorts
  <2>3. UNCHANGED <<buffer, seen>> => UNCHANGED InOrder
    BY DEF InOrder, Sorts, Held
  <2> QED
    BY <2>1, <2>2, <2>3
    DEF Next, vars, SkipEmpty, Fill, Replace, Reject, FinishEmpty, RemoveDoc, Found, SearchDoc, Ended
<1> QED  BY <1>1, <1>2, Invariance, PTL DEF Spec, SearchesAsPart

(***************************************************************************)
(* The promise leaves no choice: two collectors with one limit that were   *)
(* given the same documents hold the same.  A search by linear scan and    *)
(* one shared by the threads of the pool, which both keep the promise,     *)
(* keep the same documents of the same matches.                            *)
(***************************************************************************)
THEOREM BestIsUnique ==
  ASSUME NEW all, all \subseteq Entity, IsFiniteSet(all),
         \A e, f \in all : e.id = f.id => e = f,
         NEW A, NEW B, Promise!IsBest(A, all), Promise!IsBest(B, all)
  PROVE  A = B
<1>1. /\ Promise!Cardinality(A) = Cardinality(A)
      /\ Promise!Cardinality(B) = Cardinality(B)
  BY DEF Promise!Cardinality, Cardinality
<1> QED  BY <1>1, LimitPositive, BestIsOne DEF Promise!IsBest

-----------------------------------------------------------------------------
(* The copy of an abstract (Quotes): what selects its sets and spreads     *)
(* their positions are recursive functions, so induction comes first.      *)

\* Induction: a set that holds 0 and the successor of what it holds.
LEMMA Induction ==
  ASSUME NEW S, 0 \in S, \A n \in Nat : n \in S => n + 1 \in S
  PROVE  Nat \subseteq S
<1> SUFFICES ASSUME Nat \ S # {} PROVE FALSE
  OBVIOUS
<1>1. PICK m \in Nat \ S : \A k \in Nat \ S : m <= k
  BY LeastExists
<1>2. m - 1 \in Nat /\ m - 1 \in S
  BY <1>1
<1> QED  BY <1>1, <1>2

\* f[n] is what len steps have reached after n of them.
Reaches(f, len, T, init, step) ==
  /\ f \in [0 .. len -> T]
  /\ f[0] = init
  /\ \A n \in 1 .. len : f[n] = step[n][f[n - 1]]

\* What is defined step by step from what was reached so far, exists.
LEMMA RecursionExists ==
  ASSUME NEW len \in Nat, NEW T, NEW init \in T, NEW step \in [1 .. len -> [T -> T]]
  PROVE  \E f : Reaches(f, len, T, init, step)
<1> DEFINE F(g, n) == IF n = 0 THEN init ELSE step[n][g[n - 1]]
           Has == {m \in Nat : m <= len => \E g \in [0 .. m -> T] : g = [n \in 0 .. m |-> F(g, n)]}
<1>1. 0 \in Has
  <2> DEFINE g == [n \in 0 .. 0 |-> init]
  <2>1. g \in [0 .. 0 -> T] /\ g = [n \in 0 .. 0 |-> F(g, n)]
    BY Z3
  <2> QED  BY <2>1
<1>2. ASSUME NEW m \in Nat, m \in Has
      PROVE  m + 1 \in Has
  <2> SUFFICES ASSUME m + 1 <= len
               PROVE  \E g \in [0 .. m + 1 -> T] : g = [n \in 0 .. m + 1 |-> F(g, n)]
    OBVIOUS
  <2>1. PICK g \in [0 .. m -> T] : g = [n \in 0 .. m |-> F(g, n)]
    BY <1>2
  <2> DEFINE h == [n \in 0 .. m + 1 |-> IF n = m + 1 THEN F(g, n) ELSE g[n]]
  <2>2. ASSUME NEW n \in 0 .. m + 1
        PROVE  h[n] = F(h, n) /\ h[n] \in T
    <3>1. CASE n = 0
      BY <2>1, <3>1
    <3>2. CASE n # 0
      <4>1. n - 1 \in 0 .. m /\ n - 1 \in 0 .. m + 1 /\ n - 1 # m + 1 /\ n \in 1 .. len
        BY <3>2
      <4>2. h[n - 1] = g[n - 1] /\ g[n - 1] \in T
        BY <4>1
      <4>3. F(h, n) = F(g, n) /\ F(g, n) \in T
        BY <3>2, <4>1, <4>2
      <4>4. CASE n = m + 1
        BY <4>3, <4>4
      <4>5. CASE n # m + 1
        <5>1. n \in 0 .. m
          BY <4>5
        <5>2. g[n] = F(g, n)
          BY <2>1, <5>1
        <5> QED  BY <4>3, <4>5, <5>2
      <4> QED  BY <4>4, <4>5
    <3> QED  BY <3>1, <3>2
  <2>3. h \in [0 .. m + 1 -> T] /\ h = [n \in 0 .. m + 1 |-> F(h, n)]
    <3> HIDE DEF F
    <3> QED  BY <2>2
  <2> HIDE DEF h
  <2> QED  BY <2>3
<1>3. len \in Has
  <2> HIDE DEF Has
  <2> QED  BY <1>1, <1>2, Induction
<1>4. PICK g \in [0 .. len -> T] : g = [n \in 0 .. len |-> F(g, n)]
  BY <1>3
<1>5. \A n \in 0 .. len : g[n] = F(g, n)
  <2> HIDE DEF F
  <2> QED  BY <1>4
<1>6. 0 \in 0 .. len /\ \A n \in 1 .. len : n \in 0 .. len /\ n # 0
  OBVIOUS
<1>7. g[0] = init /\ \A n \in 1 .. len : g[n] = step[n][g[n - 1]]
  BY <1>5, <1>6
<1> QED  BY <1>7 DEF Reaches

LEMMA TakenDef ==
  ASSUME NEW sets \in Seq(EntrySet)
  PROVE  Taken(sets) = [n \in 0 .. Len(sets) |->
           IF n = 0 THEN 0
           ELSE Taken(sets)[n - 1] + Least(Len(sets[n].spread), MaxPositions - Taken(sets)[n - 1])]
<1> DEFINE len == Len(sets)
           size(n) == Len(sets[n].spread)
           step == [n \in 1 .. len |-> [k \in Int |-> k + Least(size(n), MaxPositions - k)]]
           F(g, n) == IF n = 0 THEN 0 ELSE g[n - 1] + Least(size(n), MaxPositions - g[n - 1])
<1>1. len \in Nat /\ \A n \in 1 .. len : size(n) \in Nat
  BY LenProperties, ElementOfSeq DEF EntrySet
<1>2. step \in [1 .. len -> [Int -> Int]]
  BY <1>1, MaxAssumption DEF Least
<1>3. PICK f : Reaches(f, len, Int, 0, step)
  <2> DEFINE T == Int
             init == 0
  <2>1. init \in T /\ step \in [1 .. len -> [T -> T]]
    BY <1>2
  <2> HIDE DEF step, len, T, init
  <2>2. \E f : Reaches(f, len, T, init, step)
    BY <1>1, <2>1, RecursionExists
  <2> QED  BY <2>2 DEF T, init
<1>4. ASSUME NEW n \in 0 .. len
      PROVE  f[n] = F(f, n)
  <2>1. CASE n = 0
    BY <1>3, <2>1 DEF Reaches
  <2>2. CASE n # 0
    <3>1. n - 1 \in 0 .. len /\ n \in 1 .. len
      BY <1>1, <2>2
    <3>2. f[n - 1] \in Int
      BY <1>3, <3>1 DEF Reaches
    <3>3. f[n] = step[n][f[n - 1]]
      BY <1>3, <3>1 DEF Reaches
    <3> QED  BY <2>2, <3>1, <3>2, <3>3
  <2> QED  BY <2>1, <2>2
<1>5. f = [n \in 0 .. len |-> F(f, n)]
  <2>1. f \in [0 .. len -> Int]
    BY <1>3 DEF Reaches
  <2> HIDE DEF F
  <2> QED  BY <1>4, <2>1
<1>6. Taken(sets) = CHOOSE g : g = [n \in 0 .. len |-> F(g, n)]
  BY DEF Taken
<1> HIDE DEF F
<1>7. Taken(sets) = [n \in 0 .. len |-> F(Taken(sets), n)]
  BY <1>5, <1>6
<1> QED  BY <1>7 DEF F
LEMMA PositionsDef ==
  ASSUME NEW sets \in Seq(EntrySet)
  PROVE  Positions(sets) = [n \in 0 .. Len(sets) |->
           IF n = 0 THEN 0
           ELSE Positions(sets)[n - 1] + Len(sets[n].spread)]
<1> DEFINE len == Len(sets)
           size(n) == Len(sets[n].spread)
           step == [n \in 1 .. len |-> [k \in Int |-> k + size(n)]]
           F(g, n) == IF n = 0 THEN 0 ELSE g[n - 1] + size(n)
<1>1. len \in Nat /\ \A n \in 1 .. len : size(n) \in Nat
  BY LenProperties, ElementOfSeq DEF EntrySet
<1>2. step \in [1 .. len -> [Int -> Int]]
  BY <1>1
<1>3. PICK f : Reaches(f, len, Int, 0, step)
  <2> DEFINE T == Int
             init == 0
  <2>1. init \in T /\ step \in [1 .. len -> [T -> T]]
    BY <1>2
  <2> HIDE DEF step, len, T, init
  <2>2. \E f : Reaches(f, len, T, init, step)
    BY <1>1, <2>1, RecursionExists
  <2> QED  BY <2>2 DEF T, init
<1>4. ASSUME NEW n \in 0 .. len
      PROVE  f[n] = F(f, n)
  <2>1. CASE n = 0
    BY <1>3, <2>1 DEF Reaches
  <2>2. CASE n # 0
    <3>1. n - 1 \in 0 .. len /\ n \in 1 .. len
      BY <1>1, <2>2
    <3>2. f[n - 1] \in Int
      BY <1>3, <3>1 DEF Reaches
    <3>3. f[n] = step[n][f[n - 1]]
      BY <1>3, <3>1 DEF Reaches
    <3> QED  BY <2>2, <3>1, <3>2, <3>3
  <2> QED  BY <2>1, <2>2
<1>5. f = [n \in 0 .. len |-> F(f, n)]
  <2>1. f \in [0 .. len -> Int]
    BY <1>3 DEF Reaches
  <2> HIDE DEF F
  <2> QED  BY <1>4, <2>1
<1>6. Positions(sets) = CHOOSE g : g = [n \in 0 .. len |-> F(g, n)]
  BY DEF Positions
<1> HIDE DEF F
<1>7. Positions(sets) = [n \in 0 .. len |-> F(Positions(sets), n)]
  BY <1>5, <1>6
<1> QED  BY <1>7 DEF F

\* Inserting the last key where the first greater one stood, sorts one key more.
LEMMA SortingExists ==
  ASSUME NEW len \in Nat, NEW keys \in [1 .. len -> Int]
  PROVE  \E order \in [1 .. len -> 1 .. len] :
           /\ \A p, q \in 1 .. len : order[p] = order[q] => p = q
           /\ \A p, q \in 1 .. len : p < q => keys[order[p]] <= keys[order[q]]
<1> DEFINE Order(f, k, n) ==
             /\ \A p, q \in 1 .. n : f[p] = f[q] => p = q
             /\ \A p, q \in 1 .. n : p < q => k[f[p]] <= k[f[q]]
           Sortable(n) == \A k \in [1 .. n -> Int] : \E f \in [1 .. n -> 1 .. n] : Order(f, k, n)
<1>1. Sortable(0)
  <2> SUFFICES ASSUME NEW k \in [1 .. 0 -> Int]
               PROVE  \E f \in [1 .. 0 -> 1 .. 0] : Order(f, k, 0)
    OBVIOUS
  <2> DEFINE f == [p \in 1 .. 0 |-> p]
  <2>1. f \in [1 .. 0 -> 1 .. 0] /\ Order(f, k, 0)
    OBVIOUS
  <2> QED  BY <2>1
<1> HIDE DEF Order
<1>2. ASSUME NEW n \in Nat, Sortable(n)
      PROVE  Sortable(n + 1)
  <2> SUFFICES ASSUME NEW k \in [1 .. n + 1 -> Int]
               PROVE  \E g \in [1 .. n + 1 -> 1 .. n + 1] : Order(g, k, n + 1)
    OBVIOUS
  <2> DEFINE k1 == [p \in 1 .. n |-> k[p]]
  <2>1. k1 \in [1 .. n -> Int]
    OBVIOUS
  <2>2. PICK f \in [1 .. n -> 1 .. n] : Order(f, k1, n)
    <3> HIDE DEF k1
    <3> QED  BY <1>2, <2>1
  <2>3. /\ \A p \in 1 .. n : f[p] \in 1 .. n /\ f[p] \in Int /\ f[p] # n + 1 /\ k[f[p]] \in Int
        /\ \A p, q \in 1 .. n : f[p] = f[q] => p = q
        /\ \A p, q \in 1 .. n : p < q => k[f[p]] <= k[f[q]]
        /\ k[n + 1] \in Int
    <3>1. \A p \in 1 .. n : f[p] \in 1 .. n
      BY <2>2
    <3>2. \A i \in 1 .. n : i \in Int /\ i # n + 1 /\ k1[i] = k[i] /\ k[i] \in Int
      OBVIOUS
    <3>3. n + 1 \in 1 .. n + 1
      OBVIOUS
    <3> HIDE DEF k1
    <3>4. \A p \in 1 .. n : k1[f[p]] = k[f[p]]
      BY <3>1, <3>2
    <3> QED  BY <2>2, <3>1, <3>2, <3>3, <3>4 DEF Order
  <2> DEFINE S == {p \in 1 .. n : k[f[p]] > k[n + 1]} \cup {n + 1}
  <2>4. PICK m \in S : \A p \in S : m <= p
    <3>1. S \subseteq Nat /\ S # {}
      OBVIOUS
    <3> HIDE DEF S
    <3> QED  BY <3>1, LeastExists
  <2>5. /\ m \in 1 .. n + 1
        /\ \A p \in 1 .. n : p < m => k[f[p]] <= k[n + 1]
        /\ \A p \in 1 .. n : p >= m => k[f[p]] > k[n + 1]
    <3>1. m \in 1 .. n + 1
      OBVIOUS
    <3>2. ASSUME NEW p \in 1 .. n, p < m
          PROVE  k[f[p]] <= k[n + 1]
      <4>1. p \notin S
        <5> HIDE DEF S
        <5> QED  BY <2>4, <3>1, <3>2
      <4>2. ~ (k[f[p]] > k[n + 1]) /\ k[f[p]] \in Int /\ k[n + 1] \in Int
        BY <2>3, <4>1
      <4> QED  BY <4>2
    <3>3. ASSUME NEW p \in 1 .. n, p >= m
          PROVE  k[f[p]] > k[n + 1]
      <4>1. m \in 1 .. n /\ k[f[m]] > k[n + 1]
        BY <3>1, <3>3
      <4>2. m = p \/ m < p
        BY <3>1, <3>3
      <4>3. k[f[m]] <= k[f[p]]
        <5>1. CASE m < p
          BY <2>3, <4>1, <5>1
        <5>2. CASE m = p
          BY <2>3, <4>1, <5>2
        <5> QED  BY <4>2, <5>1, <5>2
      <4>4. k[f[m]] \in Int /\ k[f[p]] \in Int /\ k[n + 1] \in Int
        BY <2>3, <4>1
      <4>5. \A a, b, c \in Int : a > b /\ a <= c => c > b
        OBVIOUS
      <4> QED  BY <4>1, <4>3, <4>4, <4>5, Zenon
    <3> QED  BY <3>1, <3>2, <3>3
  <2> HIDE DEF S
  <2> DEFINE g == [p \in 1 .. n + 1 |-> IF p < m THEN f[p] ELSE IF p = m THEN n + 1 ELSE f[p - 1]]
  <2>6. \A p \in 1 .. n + 1 :
          /\ p < m => p \in 1 .. n /\ g[p] = f[p]
          /\ p = m => g[p] = n + 1
          /\ p > m => p - 1 \in 1 .. n /\ g[p] = f[p - 1]
    BY <2>5
  <2>7. g \in [1 .. n + 1 -> 1 .. n + 1]
    <3>1. \A p \in 1 .. n : f[p] \in 1 .. n + 1
      BY <2>3
    <3>2. \A p \in 1 .. n + 1 : g[p] \in 1 .. n + 1
      BY <2>5, <2>6, <3>1
    <3> QED  BY <3>2
  <2> HIDE DEF g
  <2>8. ASSUME NEW p \in 1 .. n + 1, NEW q \in 1 .. n + 1, p < q
        PROVE  g[p] # g[q] /\ k[g[p]] <= k[g[q]]
    <3>1. CASE q < m
      <4>1. /\ p \in 1 .. n /\ g[p] = f[p]
            /\ q \in 1 .. n /\ g[q] = f[q]
            /\ p # q
        BY <2>5, <2>6, <2>8, <3>1
      <4>2. f[p] # f[q] /\ k[f[p]] <= k[f[q]]
        BY <2>3, <2>8, <4>1
      <4> QED  BY <4>1, <4>2, Zenon
    <3>2. CASE q = m
      <4>1. p \in 1 .. n /\ g[p] = f[p] /\ g[q] = n + 1 /\ p < m
        BY <2>5, <2>6, <2>8, <3>2
      <4>2. f[p] # n + 1 /\ k[f[p]] <= k[n + 1]
        BY <2>3, <2>5, <4>1
      <4> QED  BY <4>1, <4>2, Zenon
    <3>3. CASE q > m
      <4>1. q - 1 \in 1 .. n /\ g[q] = f[q - 1] /\ k[f[q - 1]] > k[n + 1]
        BY <2>5, <2>6, <3>3
      <4>2. CASE p < m
        <5>1. p \in 1 .. n /\ g[p] = f[p] /\ p < q - 1
          BY <2>5, <2>6, <3>3, <4>2
        <5> QED  BY <2>3, <4>1, <5>1
      <4>3. CASE p = m
        <5>1. g[p] = n + 1
          BY <2>6, <4>3
        <5>2. f[q - 1] # n + 1 /\ k[f[q - 1]] \in Int /\ k[n + 1] \in Int
          BY <2>3, <4>1
        <5>3. g[p] # g[q] /\ k[g[p]] = k[n + 1] /\ k[g[q]] = k[f[q - 1]]
          BY <4>1, <5>1, <5>2, Zenon
        <5>4. \A a, b \in Int : a > b => b <= a
          OBVIOUS
        <5>5. k[n + 1] <= k[f[q - 1]]
          BY <4>1, <5>2, <5>4, Zenon
        <5> QED  BY <5>3, <5>5, Zenon
      <4>4. CASE p > m
        <5>1. p - 1 \in 1 .. n /\ g[p] = f[p - 1] /\ p - 1 < q - 1
          BY <2>5, <2>6, <2>8, <4>4
        <5> QED  BY <2>3, <4>1, <5>1
      <4> QED  BY <2>5, <4>2, <4>3, <4>4
    <3> QED  BY <2>5, <3>1, <3>2, <3>3
  <2>9. Order(g, k, n + 1)
    <3>1. \A p, q \in 1 .. n + 1 : p = q \/ p < q \/ q < p
      OBVIOUS
    <3> QED  BY <2>8, <3>1 DEF Order
  <2> QED  BY <2>7, <2>9
<1>3. Sortable(len)
  <2> DEFINE Sorted == {n \in Nat : Sortable(n)}
  <2> HIDE DEF Sortable
  <2>1. 0 \in Sorted
    BY <1>1
  <2>2. \A n \in Nat : n \in Sorted => n + 1 \in Sorted
    BY <1>2
  <2>3. len \in Sorted
    <3> HIDE DEF Sorted
    <3> QED  BY <2>1, <2>2, Induction
  <2> QED  BY <2>3
<1>4. PICK f \in [1 .. len -> 1 .. len] : Order(f, keys, len)
  BY <1>3
<1> QED  BY <1>4 DEF Order

LEMMA SortingSorts ==
  ASSUME NEW len \in Nat, NEW keys \in [1 .. len -> Int]
  PROVE  /\ Sorting(keys) \in [1 .. len -> 1 .. len]
         /\ \A p, q \in 1 .. len : Sorting(keys)[p] = Sorting(keys)[q] => p = q
         /\ \A p, q \in 1 .. len : p < q => keys[Sorting(keys)[p]] <= keys[Sorting(keys)[q]]
<1>1. DOMAIN keys = 1 .. len
  OBVIOUS
<1> QED  BY <1>1, SortingExists DEF Sorting

\* No set is lighter than the one in this place.
IsLightest(sets, p) ==
  /\ p \in 1 .. Len(sets)
  /\ \A q \in 1 .. Len(sets) : sets[q].weight >= sets[p].weight

LEMMA EntrySets ==
  ASSUME NEW sets \in Seq(EntrySet)
  PROVE  /\ Len(sets) \in Nat /\ DOMAIN sets = 1 .. Len(sets)
         /\ \A p \in 1 .. Len(sets) :
              sets[p] \in EntrySet /\ sets[p].weight \in Int /\ sets[p].uMin \in Nat /\ sets[p].spread \in Seq(Nat)
<1>1. Len(sets) \in Nat /\ DOMAIN sets = 1 .. Len(sets) /\ \A p \in 1 .. Len(sets) : sets[p] \in EntrySet
  BY LenProperties, ElementOfSeq
<1> QED  BY <1>1 DEF EntrySet

LEMMA LightestIsLightest ==
  ASSUME NEW sets \in Seq(EntrySet), NEW known \in 1 .. Len(sets)
  PROVE  IsLightest(sets, Lightest(sets, known))
<1> DEFINE P == 1 .. Len(sets)
           w(p) == sets[p].weight
           Has == {n \in Nat : n \in P => \E m \in 1 .. n : \A q \in 1 .. n : w(q) >= w(m)}
<1>1. Len(sets) \in Nat /\ DOMAIN sets = P /\ \A p \in P : w(p) \in Int
  BY EntrySets
<1> HIDE DEF w
<1>2. \E m \in P : \A q \in P : w(q) >= w(m)
  <2>1. 0 \in Has
    OBVIOUS
  <2>2. ASSUME NEW n \in Nat, n \in Has
        PROVE  n + 1 \in Has
    <3> SUFFICES ASSUME n + 1 \in P
                 PROVE  \E m \in 1 .. n + 1 : \A q \in 1 .. n + 1 : w(q) >= w(m)
      OBVIOUS
    <3>1. n + 1 \in 1 .. n + 1 /\ \A q \in 1 .. n + 1 : w(q) \in Int /\ (q = n + 1 \/ q \in 1 .. n)
      BY <1>1
    <3>2. CASE n = 0
      <4>1. \A q \in 1 .. n + 1 : w(q) >= w(n + 1)
        BY <3>1, <3>2
      <4> QED  BY <3>1, <4>1
    <3>3. CASE n # 0
      <4>1. PICK m \in 1 .. n : \A q \in 1 .. n : w(q) >= w(m)
        BY <1>1, <2>2, <3>3
      <4>2. m \in 1 .. n + 1 /\ w(m) \in Int /\ w(n + 1) \in Int
        BY <3>1
      <4>3. CASE w(n + 1) >= w(m)
        BY <3>1, <4>1, <4>2, <4>3
      <4>4. CASE w(n + 1) < w(m)
        <5>1. \A q \in 1 .. n + 1 : w(q) >= w(n + 1)
          BY <3>1, <4>1, <4>2, <4>4
        <5> QED  BY <3>1, <5>1
      <4> QED  BY <4>2, <4>3, <4>4
    <3> QED  BY <3>2, <3>3
  <2>3. Len(sets) \in Has /\ Len(sets) \in P
    <3>1. Len(sets) \in P
      BY <1>1
    <3> HIDE DEF Has
    <3> QED  BY <1>1, <2>1, <2>2, <3>1, Induction
  <2> QED  BY <2>3
<1> DEFINE L == {p \in P : \A q \in P : w(q) >= w(p)}
<1>3. PICK m \in L : \A p \in L : m <= p
  <2>1. L \subseteq Nat /\ L # {}
    BY <1>1, <1>2
  <2> HIDE DEF L
  <2> QED  BY <2>1, LeastExists
<1>4. m \in P /\ (\A q \in P : w(q) >= w(m)) /\ \A q \in 1 .. m - 1 : w(q) > w(m)
  <2>1. m \in P /\ \A q \in P : w(q) >= w(m)
    BY <1>3
  <2>2. ASSUME NEW q \in 1 .. m - 1
        PROVE  w(q) > w(m)
    <3>1. q \in P /\ ~ (m <= q)
      BY <1>1, <2>1
    <3>2. q \notin L
      BY <1>3, <3>1
    <3>3. PICK r \in P : ~ (w(r) >= w(q))
      BY <3>1, <3>2
    <3>4. w(r) >= w(m) /\ w(r) \in Int /\ w(m) \in Int /\ w(q) \in Int
      BY <1>1, <2>1, <3>1
    <3> QED  BY <3>3, <3>4
  <2> QED  BY <2>1, <2>2
<1>5. CASE \A p \in P : w(p) >= w(known)
  BY <1>1, <1>5 DEF Lightest, IsLightest, w
<1>6. CASE ~ \A p \in P : w(p) >= w(known)
  <2>1. Lightest(sets, known) =
          CHOOSE p \in P : (\A q \in P : w(q) >= w(p)) /\ \A q \in 1 .. p - 1 : w(q) > w(p)
    BY <1>1, <1>6 DEF Lightest, w
  <2>2. Lightest(sets, known) \in P /\ \A q \in P : w(q) >= w(Lightest(sets, known))
    BY <1>4, <2>1
  <2> QED  BY <2>2 DEF IsLightest, w
<1> QED  BY <1>5, <1>6

\* What the two loops that select the sets hold: a known place of a lightest set.
WorstKnown(kept) ==
  /\ kept \in [sets: Seq(EntrySet), worst: Nat]
  /\ IF Len(kept.sets) = 0 THEN kept.worst = 1 ELSE IsLightest(kept.sets, kept.worst)

LEMMA PutFacts ==
  ASSUME NEW kept, WorstKnown(kept), NEW e \in EntrySet
  PROVE  /\ WorstKnown(Put(kept, e))
         /\ Len(kept.sets) < MaxSets => Put(kept, e).sets = Append(kept.sets, e)
         /\ Len(kept.sets) >= MaxSets =>
              Put(kept, e).sets = IF e.weight > kept.sets[kept.worst].weight
                                    THEN [kept.sets EXCEPT ![kept.worst] = e] ELSE kept.sets
<1> DEFINE sets == kept.sets
           worst == kept.worst
<1>1. sets \in Seq(EntrySet) /\ Len(sets) \in Nat /\ MaxSets \in Nat \ {0}
  BY MaxAssumption, LenProperties DEF WorstKnown
<1>2. CASE Len(sets) < MaxSets
  <2> DEFINE s == Append(sets, e)
  <2>1. s \in Seq(EntrySet) /\ Len(s) = Len(sets) + 1
    BY <1>1, AppendProperties
  <2>2. worst \in 1 .. Len(s)
    BY <1>1, <2>1 DEF WorstKnown, IsLightest
  <2>3. IsLightest(s, Lightest(s, worst))
    BY <2>1, <2>2, LightestIsLightest
  <2>4. Put(kept, e) = [sets |-> s, worst |-> Lightest(s, worst)]
    BY <1>2 DEF Put
  <2>5. Lightest(s, worst) \in Nat
    BY <1>1, <2>1, <2>3 DEF IsLightest
  <2> HIDE DEF s
  <2> QED  BY <1>1, <1>2, <2>1, <2>3, <2>4, <2>5 DEF WorstKnown, s
<1>3. CASE ~ (Len(sets) < MaxSets)
  <2>1. IsLightest(sets, worst)
    BY <1>1, <1>3 DEF WorstKnown
  <2>2. CASE e.weight > sets[worst].weight
    <3> DEFINE s == [sets EXCEPT ![worst] = e]
    <3>1. s \in Seq(EntrySet) /\ Len(s) = Len(sets)
      BY <1>1, <2>1, ExceptSeq DEF IsLightest
    <3>2. IsLightest(s, Lightest(s, worst))
      BY <2>1, <3>1, LightestIsLightest DEF IsLightest
    <3>3. Put(kept, e) = [sets |-> s, worst |-> Lightest(s, worst)]
      BY <1>3, <2>2 DEF Put
    <3>4. Lightest(s, worst) \in Nat
      BY <1>1, <3>1, <3>2 DEF IsLightest
    <3> HIDE DEF s
    <3> QED  BY <1>1, <1>3, <2>2, <3>1, <3>2, <3>3, <3>4 DEF WorstKnown, s
  <2>3. CASE ~ (e.weight > sets[worst].weight)
    <3>1. Put(kept, e) = kept
      BY <1>3, <2>3 DEF Put
    <3> QED  BY <1>3, <2>3, <3>1
  <2> QED  BY <2>2, <2>3
<1> QED  BY <1>2, <1>3

\* A permutation reaches every place.
LEMMA PermutationIsOnto ==
  ASSUME NEW len \in Nat, NEW f \in [1 .. len -> 1 .. len],
         \A p, q \in 1 .. len : f[p] = f[q] => p = q
  PROVE  \A i \in 1 .. len : \E p \in 1 .. len : f[p] = i
<1> DEFINE P == 1 .. len
<1>1. IsFiniteSet(P)
  BY FS_Interval
<1>2. f \in Injection(P, P)
  BY DEF Injection, IsInjective
<1>3. f \in Surjection(P, P)
  <2> HIDE DEF P
  <2> QED  BY <1>1, <1>2, FS_Injection
<1> QED  BY <1>3 DEF Surjection

LEMMA KeptDef ==
  ASSUME NEW entries \in Seq(EntrySet)
  PROVE  Kept(entries) = [n \in 0 .. Len(entries) |->
           IF n = 0 THEN [sets |-> <<>>, worst |-> 1] ELSE Put(Kept(entries)[n - 1], entries[n])]
<1> DEFINE len == Len(entries)
           T == {kept \in [sets: Seq(EntrySet), worst: Nat] : WorstKnown(kept)}
           init == [sets |-> <<>>, worst |-> 1]
           step == [n \in 1 .. len |-> [kept \in T |-> Put(kept, entries[n])]]
           F(g, n) == IF n = 0 THEN init ELSE Put(g[n - 1], entries[n])
<1>1. len \in Nat /\ \A n \in 1 .. len : entries[n] \in EntrySet
  BY EntrySets
<1>2. init \in T
  BY EmptySeq DEF WorstKnown
<1>3. step \in [1 .. len -> [T -> T]]
  <2>1. \A n \in 1 .. len : \A kept \in T : Put(kept, entries[n]) \in T
    <3>1. \A k : WorstKnown(k) => k \in T
      BY DEF WorstKnown
    <3> QED  BY <1>1, <3>1, PutFacts
  <2> HIDE DEF T
  <2> QED  BY <2>1
<1>4. PICK f : Reaches(f, len, T, init, step)
  <2> HIDE DEF step, len, T, init
  <2> QED  BY <1>1, <1>2, <1>3, RecursionExists
<1> HIDE DEF T
<1>5. ASSUME NEW n \in 0 .. len
      PROVE  f[n] = F(f, n)
  <2>1. CASE n = 0
    BY <1>4, <2>1 DEF Reaches
  <2>2. CASE n # 0
    <3>1. n - 1 \in 0 .. len /\ n \in 1 .. len
      BY <1>1, <2>2
    <3>2. f[n - 1] \in T
      BY <1>4, <3>1 DEF Reaches
    <3>3. f[n] = step[n][f[n - 1]]
      BY <1>4, <3>1 DEF Reaches
    <3> QED  BY <2>2, <3>1, <3>2, <3>3
  <2> QED  BY <2>1, <2>2
<1>6. f = [n \in 0 .. len |-> F(f, n)]
  <2>1. f \in [0 .. len -> T]
    BY <1>4 DEF Reaches
  <2> HIDE DEF F
  <2> QED  BY <1>5, <2>1
<1>7. Kept(entries) = CHOOSE g : g = [n \in 0 .. len |-> F(g, n)]
  BY DEF Kept
<1> HIDE DEF F
<1>8. Kept(entries) = [n \in 0 .. len |-> F(Kept(entries), n)]
  BY <1>6, <1>7
<1> QED  BY <1>8 DEF F

\* These sets are the heaviest of the first n of the source, each once; which of
\* them, src says. While there was room for all, none has moved.
Heaviest(sets, src, entries, n) ==
  /\ src \in [1 .. Len(sets) -> 1 .. n]
  /\ \A p, q \in 1 .. Len(sets) : src[p] = src[q] => p = q
  /\ \A p \in 1 .. Len(sets) : sets[p] = entries[src[p]]
  /\ \A e \in 1 .. n : (\A p \in 1 .. Len(sets) : src[p] # e) =>
       \A p \in 1 .. Len(sets) : entries[e].weight <= sets[p].weight
  /\ n <= MaxSets => \A p \in 1 .. Len(sets) : src[p] = p

LEMMA PutKeepsHeaviest ==
  ASSUME NEW entries \in Seq(EntrySet), NEW n \in Nat, n + 1 <= Len(entries),
         NEW kept, WorstKnown(kept), Len(kept.sets) = Least(n, MaxSets),
         NEW src, Heaviest(kept.sets, src, entries, n)
  PROVE  /\ WorstKnown(Put(kept, entries[n + 1]))
         /\ Len(Put(kept, entries[n + 1]).sets) = Least(n + 1, MaxSets)
         /\ \E s : Heaviest(Put(kept, entries[n + 1]).sets, s, entries, n + 1)
<1> DEFINE sets == kept.sets
           worst == kept.worst
           e == entries[n + 1]
           next == Put(kept, e)
           len == Len(sets)
<1>1. /\ sets \in Seq(EntrySet) /\ len \in Nat /\ MaxSets \in Nat \ {0} /\ len = Least(n, MaxSets)
      /\ n + 1 \in 1 .. Len(entries) /\ e \in EntrySet /\ e.weight \in Int
      /\ \A i \in 1 .. n : i \in 1 .. Len(entries) /\ entries[i].weight \in Int /\ i # n + 1
      /\ \A p \in 1 .. len : sets[p].weight \in Int
  <2>1. sets \in Seq(EntrySet) /\ len \in Nat
    BY LenProperties DEF WorstKnown
  <2>2. n + 1 \in 1 .. Len(entries) /\ \A i \in 1 .. n : i \in 1 .. Len(entries) /\ i # n + 1
    BY EntrySets
  <2> QED  BY <2>1, <2>2, EntrySets, MaxAssumption
<1>2. /\ WorstKnown(next)
      /\ len < MaxSets => next.sets = Append(sets, e)
      /\ len >= MaxSets => next.sets = IF e.weight > sets[worst].weight THEN [sets EXCEPT ![worst] = e] ELSE sets
  BY <1>1, PutFacts
<1>3. /\ src \in [1 .. len -> 1 .. n]
      /\ \A p, q \in 1 .. len : src[p] = src[q] => p = q
      /\ \A p \in 1 .. len : sets[p] = entries[src[p]]
      /\ \A i \in 1 .. n : (\A p \in 1 .. len : src[p] # i) => \A p \in 1 .. len : entries[i].weight <= sets[p].weight
      /\ n <= MaxSets => \A p \in 1 .. len : src[p] = p
  BY DEF Heaviest
<1> HIDE DEF next, e, len
<1>4. CASE len < MaxSets
  <2>1. len = n /\ n + 1 <= MaxSets
    BY <1>1, <1>4 DEF Least
  <2>2. /\ Len(next.sets) = n + 1
        /\ \A p \in 1 .. n : next.sets[p] = sets[p]
        /\ next.sets[n + 1] = e
    <3>1. next.sets = Append(sets, e)
      BY <1>2, <1>4
    <3>2. /\ Len(Append(sets, e)) = len + 1 /\ Append(sets, e)[len + 1] = e
          /\ \A p \in 1 .. len : Append(sets, e)[p] = sets[p]
      BY <1>1, AppendProperties DEF len
    <3> QED  BY <2>1, <3>1, <3>2
  <2> DEFINE s == [p \in 1 .. n + 1 |-> p]
  <2>3. \A p \in 1 .. n + 1 : next.sets[p] = entries[p]
    <3> SUFFICES ASSUME NEW p \in 1 .. n + 1 PROVE next.sets[p] = entries[p]
      OBVIOUS
    <3>1. CASE p = n + 1
      BY <2>2, <3>1 DEF e
    <3>2. CASE p # n + 1
      <4>1. p \in 1 .. n
        BY <3>2
      <4>2. n <= MaxSets /\ p \in 1 .. len
        BY <1>1, <2>1, <4>1
      <4>3. src[p] = p /\ sets[p] = entries[p]
        BY <1>3, <4>2
      <4> QED  BY <2>2, <4>1, <4>3
    <3> QED  BY <3>1, <3>2
  <2>4. Heaviest(next.sets, s, entries, n + 1)
    BY <2>2, <2>3 DEF Heaviest
  <2>5. Len(next.sets) = Least(n + 1, MaxSets)
    BY <1>1, <2>1, <2>2 DEF Least
  <2> QED  BY <1>2, <2>4, <2>5 DEF next, e
<1>5. CASE len >= MaxSets
  <2>1. len = MaxSets /\ len > 0 /\ ~ (n + 1 <= MaxSets) /\ Least(n + 1, MaxSets) = MaxSets
    BY <1>1, <1>5 DEF Least
  <2>2. worst \in 1 .. len /\ \A q \in 1 .. len : sets[q].weight >= sets[worst].weight
    BY <1>1, <2>1 DEF WorstKnown, IsLightest, len
  <2>3. \A p \in 1 .. len : src[p] \in 1 .. n /\ src[p] # n + 1 /\ src[p] \in 1 .. n + 1
    BY <1>1, <1>3
  <2>4. CASE e.weight > sets[worst].weight
    <3>1. /\ next.sets = [sets EXCEPT ![worst] = e]
          /\ Len(next.sets) = len
          /\ \A p \in 1 .. len : next.sets[p] = IF p = worst THEN e ELSE sets[p]
      BY <1>1, <1>2, <1>5, <2>2, <2>4, ExceptSeq DEF len
    <3> DEFINE s == [p \in 1 .. len |-> IF p = worst THEN n + 1 ELSE src[p]]
    <3>2. s \in [1 .. len -> 1 .. n + 1]
      BY <1>1, <2>3
    <3>3. \A p, q \in 1 .. len : s[p] = s[q] => p = q
      BY <1>3, <2>3
    <3>4. \A p \in 1 .. len : next.sets[p] = entries[s[p]]
      BY <1>3, <3>1 DEF e
    <3>5. ASSUME NEW i \in 1 .. n + 1, \A p \in 1 .. len : s[p] # i, NEW p \in 1 .. len
          PROVE  entries[i].weight <= next.sets[p].weight
      <4>1. i # n + 1 /\ i \in 1 .. n
        BY <2>2, <3>5
      <4>2. entries[i].weight <= sets[worst].weight
        <5>1. CASE i = src[worst]
          <6>1. entries[i] = sets[worst]
            BY <1>3, <2>2, <5>1
          <6> QED  BY <1>1, <2>2, <6>1
        <5>2. CASE i # src[worst]
          <6>1. \A q \in 1 .. len : src[q] # i
            BY <3>5, <5>2
          <6> QED  BY <1>3, <2>2, <4>1, <6>1
        <5> QED  BY <5>1, <5>2
      <4>3. sets[worst].weight <= next.sets[p].weight
        BY <1>1, <2>2, <2>4, <3>1
      <4>4. next.sets[p].weight \in Int /\ sets[worst].weight \in Int /\ entries[i].weight \in Int
        BY <1>1, <2>2, <3>1, <4>1
      <4> QED  BY <4>2, <4>3, <4>4
    <3> HIDE DEF s
    <3>6. Heaviest(next.sets, s, entries, n + 1)
      BY <2>1, <3>1, <3>2, <3>3, <3>4, <3>5 DEF Heaviest
    <3> QED  BY <1>2, <2>1, <3>1, <3>6 DEF next, e
  <2>5. CASE ~ (e.weight > sets[worst].weight)
    <3>1. next.sets = sets
      BY <1>2, <1>5, <2>5
    <3>2. ASSUME NEW i \in 1 .. n + 1, \A p \in 1 .. len : src[p] # i, NEW p \in 1 .. len
          PROVE  entries[i].weight <= sets[p].weight
      <4>1. CASE i = n + 1
        <5>1. entries[i].weight = e.weight
          BY <4>1 DEF e
        <5>2. /\ e.weight \in Int /\ sets[worst].weight \in Int /\ sets[p].weight \in Int
              /\ ~ (e.weight > sets[worst].weight) /\ sets[p].weight >= sets[worst].weight
          BY <1>1, <2>2, <2>5
        <5>3. e.weight <= sets[p].weight
          BY <5>2
        <5> QED  BY <5>1, <5>3
      <4>2. CASE i # n + 1
        <5>1. i \in 1 .. n
          BY <4>2
        <5> QED  BY <1>3, <3>2, <5>1
      <4> QED  BY <4>1, <4>2
    <3>3. src \in [1 .. len -> 1 .. n + 1]
      BY <1>3, <2>3
    <3>4. Heaviest(next.sets, src, entries, n + 1)
      BY <1>3, <2>1, <3>1, <3>2, <3>3 DEF Heaviest, len
    <3> QED  BY <1>2, <2>1, <3>1, <3>4 DEF next, e, len
  <2> QED  BY <2>4, <2>5
<1> QED  BY <1>1, <1>4, <1>5

\* The selection loops keep the heaviest sets of a source.
LEMMA KeptIsHeaviest ==
  ASSUME NEW entries \in Seq(EntrySet)
  PROVE  LET sets == Kept(entries)[Len(entries)].sets
         IN  /\ sets \in Seq(EntrySet)
             /\ Len(sets) = Least(Len(entries), MaxSets)
             /\ \E src : Heaviest(sets, src, entries, Len(entries))
<1> DEFINE kept(n) == Kept(entries)[n]
           Good(n) == /\ WorstKnown(kept(n))
                      /\ Len(kept(n).sets) = Least(n, MaxSets)
                      /\ \E src : Heaviest(kept(n).sets, src, entries, n)
           Has == {n \in Nat : n <= Len(entries) => Good(n)}
<1>1. Len(entries) \in Nat /\ MaxSets \in Nat \ {0}
  BY EntrySets, MaxAssumption
<1>2. /\ kept(0) = [sets |-> <<>>, worst |-> 1]
      /\ \A n \in Nat : n + 1 <= Len(entries) => kept(n + 1) = Put(kept(n), entries[n + 1])
  <2>1. \A n \in 0 .. Len(entries) :
          kept(n) = IF n = 0 THEN [sets |-> <<>>, worst |-> 1] ELSE Put(kept(n - 1), entries[n])
    BY KeptDef
  <2>2. 0 \in 0 .. Len(entries)
    BY <1>1
  <2>3. ASSUME NEW n \in Nat, n + 1 <= Len(entries)
        PROVE  kept(n + 1) = Put(kept(n), entries[n + 1])
    <3>1. n + 1 \in 0 .. Len(entries) /\ n + 1 # 0 /\ (n + 1) - 1 = n
      BY <1>1, <2>3
    <3> HIDE DEF kept
    <3> QED  BY <2>1, <3>1
  <2> HIDE DEF kept
  <2> QED  BY <2>1, <2>2, <2>3
<1>3. 0 \in Has
  <2>1. WorstKnown(kept(0)) /\ Len(kept(0).sets) = 0
    BY <1>2, EmptySeq DEF WorstKnown
  <2>2. Heaviest(<<>>, <<>>, entries, 0)
    BY EmptySeq DEF Heaviest
  <2> QED  BY <1>1, <1>2, <2>1, <2>2 DEF Least
<1> HIDE DEF kept
<1>4. ASSUME NEW n \in Nat, n \in Has
      PROVE  n + 1 \in Has
  <2> SUFFICES ASSUME n + 1 <= Len(entries) PROVE Good(n + 1)
    OBVIOUS
  <2>1. Good(n)
    BY <1>1, <1>4
  <2>2. PICK src : Heaviest(kept(n).sets, src, entries, n)
    BY <2>1
  <2> QED  BY <1>2, <2>1, <2>2, PutKeepsHeaviest
<1>5. Good(Len(entries))
  <2>1. Len(entries) \in Has
    <3> HIDE DEF Has
    <3> QED  BY <1>1, <1>3, <1>4, Induction
  <2> QED  BY <1>1, <2>1
<1> QED  BY <1>5 DEF WorstKnown, kept

\* These are the sets CopyIsBest asks for, not yet cut.
Selects(sets, from, entries) ==
  /\ from \in [1 .. Len(sets) -> 1 .. Len(entries)]
  /\ \A p \in 1 .. Len(sets) : sets[p] = entries[from[p]]
  /\ AreHeaviest(sets, from, entries)

\* Sorting the sets loses none of them.
LEMMA SelectIsHeaviest ==
  ASSUME NEW entries \in Seq(EntrySet)
  PROVE  /\ Select(entries) \in Seq(EntrySet)
         /\ Len(Select(entries)) = Least(Len(entries), MaxSets)
         /\ \E from : Selects(Select(entries), from, entries)
<1> DEFINE kept == Kept(entries)[Len(entries)].sets
           len == Len(kept)
           P == 1 .. len
           N == 1 .. Len(entries)
           keys == [p \in P |-> kept[p].uMin]
           order == Sorting(keys)
           sorted == [p \in P |-> kept[order[p]]]
<1>1. /\ kept \in Seq(EntrySet) /\ len = Least(Len(entries), MaxSets)
      /\ Len(entries) \in Nat /\ MaxSets \in Nat \ {0}
  BY KeptIsHeaviest, EntrySets, MaxAssumption
<1>2. PICK src : Heaviest(kept, src, entries, Len(entries))
  BY KeptIsHeaviest
<1> HIDE DEF kept
<1>3. len \in Nat /\ DOMAIN kept = P /\ \A p \in P : kept[p] \in EntrySet /\ kept[p].uMin \in Int /\ kept[p].weight \in Int
  BY <1>1, EntrySets
<1>4. /\ src \in [P -> N]
      /\ \A p, q \in P : src[p] = src[q] => p = q
      /\ \A p \in P : kept[p] = entries[src[p]]
      /\ \A e \in N : (\A p \in P : src[p] # e) => \A p \in P : entries[e].weight <= kept[p].weight
      /\ Len(entries) <= MaxSets => \A p \in P : src[p] = p
  BY <1>2 DEF Heaviest
<1>5. Select(entries) = IF len = MaxSets THEN sorted ELSE kept
  BY <1>3 DEF Select, kept
<1>6. CASE len # MaxSets
  <2>1. Select(entries) = kept /\ Len(entries) < MaxSets
    BY <1>1, <1>5, <1>6 DEF Least
  <2>2. Selects(kept, src, entries)
    <3>1. DOMAIN kept = P /\ DOMAIN entries = N
      BY <1>3, EntrySets
    <3>2. AreHeaviest(kept, src, entries)
      BY <1>1, <1>4, <2>1, <3>1 DEF AreHeaviest
    <3> QED  BY <1>4, <3>2 DEF Selects
  <2> QED  BY <1>1, <2>1, <2>2
<1>7. CASE len = MaxSets
  <2>1. Select(entries) = sorted /\ ~ (Len(entries) < MaxSets)
    BY <1>1, <1>5, <1>7 DEF Least
  <2>2. /\ order \in [P -> P]
        /\ \A p, q \in P : order[p] = order[q] => p = q
        /\ \A p, q \in P : p < q => keys[order[p]] <= keys[order[q]]
    <3>1. keys \in [P -> Int]
      BY <1>3
    <3> HIDE DEF keys
    <3> QED  BY <1>3, <3>1, SortingSorts
  <2>3. \A i \in P : \E p \in P : order[p] = i
    <3> HIDE DEF order
    <3> QED  BY <1>3, <2>2, PermutationIsOnto
  <2> HIDE DEF order
  <2>4. \A p \in P : order[p] \in P /\ sorted[p] = kept[order[p]] /\ keys[order[p]] = sorted[p].uMin
    BY <2>2
  <2>5. sorted \in Seq(EntrySet) /\ Len(sorted) = len
    <3>1. sorted \in [P -> EntrySet]
      BY <1>3, <2>4
    <3> HIDE DEF sorted
    <3> QED  BY <1>3, <3>1
  <2> DEFINE from == [p \in P |-> src[order[p]]]
  <2>6. from \in [P -> N] /\ \A p \in P : from[p] = src[order[p]]
    BY <1>4, <2>4
  <2> HIDE DEF from, sorted, keys
  <2>7. \A p, q \in P : from[p] = from[q] => p = q
    BY <1>4, <2>2, <2>4, <2>6
  <2>8. \A p \in P : sorted[p] = entries[from[p]]
    <3> SUFFICES ASSUME NEW p \in P PROVE sorted[p] = entries[from[p]]
      OBVIOUS
    <3>1. order[p] \in P /\ sorted[p] = kept[order[p]] /\ from[p] = src[order[p]]
      BY <2>4, <2>6
    <3>2. kept[order[p]] = entries[src[order[p]]]
      BY <1>4, <3>1
    <3> QED  BY <3>1, <3>2
  <2>9. ASSUME NEW e \in N, \A p \in P : from[p] # e, NEW p \in P
        PROVE  entries[e].weight <= sorted[p].weight
    <3>1. ASSUME NEW i \in P PROVE src[i] # e
      <4>1. PICK q \in P : order[q] = i
        BY <2>3
      <4> QED  BY <2>6, <2>9, <4>1
    <3>2. \A i \in P : entries[e].weight <= kept[i].weight
      BY <1>4, <2>9, <3>1
    <3>3. order[p] \in P /\ sorted[p] = kept[order[p]]
      BY <2>4, <2>9
    <3>4. entries[e].weight <= kept[order[p]].weight
      BY <3>2, <3>3
    <3> QED  BY <3>3, <3>4
  <2>10. \A p, q \in P : p < q => sorted[p].uMin <= sorted[q].uMin
    BY <2>2, <2>4
  <2>11. Selects(sorted, from, entries)
    <3>1. DOMAIN sorted = P /\ DOMAIN entries = N
      BY <2>5, EntrySets
    <3> QED  BY <2>1, <2>5, <2>6, <2>7, <2>8, <2>9, <2>10, <3>1 DEF Selects, AreHeaviest
  <2> QED  BY <1>1, <2>1, <2>5, <2>11
<1> QED  BY <1>6, <1>7

\* The places taken by the first sets are those their positions need, if there
\* are as many.
LEMMA TakenIsPositions ==
  ASSUME NEW sets \in Seq(EntrySet)
  PROVE  \A n \in 0 .. Len(sets) :
           /\ Positions(sets)[n] \in Nat
           /\ Taken(sets)[n] = Least(Positions(sets)[n], MaxPositions)
<1> DEFINE len == Len(sets)
           pos(n) == Positions(sets)[n]
           tak(n) == Taken(sets)[n]
           size(n) == Len(sets[n].spread)
           Has == {n \in Nat : n <= len => pos(n) \in Nat /\ tak(n) = Least(pos(n), MaxPositions)}
<1>1. len \in Nat /\ MaxPositions \in Nat \ {0} /\ \A n \in 1 .. len : size(n) \in Nat
  BY EntrySets, MaxAssumption, LenProperties
<1>2. \A n \in 0 .. len :
        /\ pos(n) = IF n = 0 THEN 0 ELSE pos(n - 1) + size(n)
        /\ tak(n) = IF n = 0 THEN 0 ELSE tak(n - 1) + Least(size(n), MaxPositions - tak(n - 1))
  BY PositionsDef, TakenDef
<1> HIDE DEF pos, tak, size, len
<1>3. 0 \in Has
  <2>1. pos(0) = 0 /\ tak(0) = 0
    BY <1>1, <1>2
  <2> QED  BY <1>1, <2>1 DEF Least
<1>4. ASSUME NEW n \in Nat, n \in Has
      PROVE  n + 1 \in Has
  <2> SUFFICES ASSUME n + 1 <= len
               PROVE  pos(n + 1) \in Nat /\ tak(n + 1) = Least(pos(n + 1), MaxPositions)
    OBVIOUS
  <2>1. pos(n) \in Nat /\ tak(n) = Least(pos(n), MaxPositions)
    BY <1>1, <1>4
  <2>2. n + 1 \in 0 .. len /\ n + 1 \in 1 .. len /\ n + 1 # 0 /\ (n + 1) - 1 = n
    BY <1>1
  <2>3. /\ pos(n + 1) = pos(n) + size(n + 1)
        /\ tak(n + 1) = tak(n) + Least(size(n + 1), MaxPositions - tak(n))
    BY <1>2, <2>2
  <2> QED  BY <1>1, <2>1, <2>2, <2>3 DEF Least
<1>5. Nat \subseteq Has
  <2> HIDE DEF Has
  <2> QED  BY <1>3, <1>4, Induction
<1> QED  BY <1>1, <1>5 DEF pos, tak, len

\* Sets each cut to the room there was left have that many positions.
LEMMA PositionsOfCopy ==
  ASSUME NEW sets \in Seq(EntrySet), NEW copy \in Seq(EntrySet), Len(copy) = Len(sets),
         \A p \in 1 .. Len(sets) :
           Len(copy[p].spread) = Least(Len(sets[p].spread), MaxPositions - Taken(sets)[p - 1])
  PROVE  \A n \in 0 .. Len(sets) : Positions(copy)[n] = Taken(sets)[n]
<1> DEFINE len == Len(sets)
           pos(n) == Positions(copy)[n]
           tak(n) == Taken(sets)[n]
           cut(n) == Len(copy[n].spread)
           size(n) == Len(sets[n].spread)
           Has == {n \in Nat : n <= len => pos(n) = tak(n)}
<1>1. len \in Nat
  BY EntrySets
<1>2. \A n \in 0 .. len :
        /\ pos(n) = IF n = 0 THEN 0 ELSE pos(n - 1) + cut(n)
        /\ tak(n) = IF n = 0 THEN 0 ELSE tak(n - 1) + Least(size(n), MaxPositions - tak(n - 1))
  BY PositionsDef, TakenDef
<1>3. \A n \in 1 .. len : cut(n) = Least(size(n), MaxPositions - tak(n - 1))
  OBVIOUS
<1> HIDE DEF pos, tak, size, cut, len
<1>4. 0 \in Has
  <2>1. pos(0) = 0 /\ tak(0) = 0
    BY <1>1, <1>2
  <2> QED  BY <2>1
<1>5. ASSUME NEW n \in Nat, n \in Has
      PROVE  n + 1 \in Has
  <2> SUFFICES ASSUME n + 1 <= len PROVE pos(n + 1) = tak(n + 1)
    OBVIOUS
  <2>1. pos(n) = tak(n)
    BY <1>1, <1>5
  <2>2. n + 1 \in 0 .. len /\ n + 1 \in 1 .. len /\ n + 1 # 0 /\ (n + 1) - 1 = n
    BY <1>1
  <2>3. /\ pos(n + 1) = pos(n) + cut(n + 1)
        /\ tak(n + 1) = tak(n) + cut(n + 1)
    BY <1>2, <1>3, <2>2
  <2> QED  BY <2>1, <2>3
<1>6. Nat \subseteq Has
  <2> HIDE DEF Has
  <2> QED  BY <1>4, <1>5, Induction
<1> QED  BY <1>1, <1>6 DEF pos, tak, len

\* The first positions of a set, in order.
LEMMA SpreadFacts ==
  ASSUME NEW set \in EntrySet, NEW room \in Nat
  PROVE  LET s == Spread(set, room)
         IN  /\ s \in EntrySet
             /\ s = [set EXCEPT !.spread = s.spread]
             /\ s.uMin = set.uMin /\ s.weight = set.weight
             /\ Len(s.spread) = Least(Len(set.spread), room)
             /\ Len(s.spread) <= Len(set.spread)
             /\ Ascends(s.spread, SubSeq(set.spread, 1, Len(s.spread)))
<1> DEFINE n == Least(Len(set.spread), room)
           first == SubSeq(set.spread, 1, n)
           order == Sorting(first)
           P == 1 .. n
           sorted == [p \in P |-> first[order[p]]]
<1>1. set.spread \in Seq(Nat) /\ Len(set.spread) \in Nat
  BY LenProperties DEF EntrySet
<1>2. n \in Nat /\ n <= Len(set.spread)
  BY <1>1 DEF Least
<1>3. first \in [P -> Nat] /\ DOMAIN first = P
  <2>1. /\ first \in Seq(Nat) /\ Len(first) = n
    BY <1>1, <1>2, SubSeqProperties
  <2> QED  BY <1>2, <2>1, LenProperties
<1> HIDE DEF first, n
<1>4. /\ order \in [P -> P]
      /\ \A p, q \in P : order[p] = order[q] => p = q
      /\ \A p, q \in P : p < q => first[order[p]] <= first[order[q]]
  <2>1. first \in [P -> Int]
    BY <1>3
  <2> QED  BY <1>2, <2>1, SortingSorts
<1> HIDE DEF order
<1>5. sorted \in Seq(Nat) /\ Len(sorted) = n /\ \A p \in P : sorted[p] = first[order[p]]
  <2>1. sorted \in [P -> Nat] /\ \A p \in P : sorted[p] = first[order[p]]
    BY <1>3, <1>4
  <2> HIDE DEF sorted
  <2> QED  BY <1>2, <2>1
<1>6. Spread(set, room) = [set EXCEPT !.spread = sorted]
  BY <1>3 DEF Spread, first, n, order
<1>7. Ascends(sorted, first)
  <2>1. \A p, q \in P : p < q => sorted[p] <= sorted[q]
    BY <1>4, <1>5
  <2> QED  BY <1>3, <1>4, <2>1 DEF Ascends
<1> HIDE DEF sorted
<1>8. /\ Spread(set, room) \in EntrySet
      /\ Spread(set, room).spread = sorted
      /\ Spread(set, room).uMin = set.uMin /\ Spread(set, room).weight = set.weight
  BY <1>5, <1>6 DEF EntrySet
<1> QED  BY <1>2, <1>5, <1>6, <1>7, <1>8 DEF first, n

(***************************************************************************)
(* The copy CopyAbstract makes of any rich abstract is the best there is   *)
(* room for.                                                               *)
(***************************************************************************)
THEOREM CopyOfRichIsBest ==
  ASSUME NEW source \in [dwMode: {"Rich"}, entries: Seq(EntrySet)]
  PROVE  CopyIsBest(source)
<1> DEFINE entries == source.entries
           sets == Select(entries)
           taken == Taken(sets)
           len == Len(sets)
           P == 1 .. len
           room(p) == MaxPositions - taken[p - 1]
           copy == [p \in P |-> Spread(sets[p], room(p))]
           size(p) == Len(copy[p].spread)
<1>1. entries \in Seq(EntrySet) /\ Len(entries) \in Nat /\ DOMAIN entries = 1 .. Len(entries)
  BY EntrySets
<1>2. sets \in Seq(EntrySet) /\ len = Least(Len(entries), MaxSets)
  BY <1>1, SelectIsHeaviest
<1>3. PICK from : Selects(sets, from, entries)
  BY <1>1, SelectIsHeaviest
<1>4. len \in Nat /\ DOMAIN sets = P /\ \A p \in P : sets[p] \in EntrySet
  BY <1>2, EntrySets
<1>5. CopyAbstract(source) = [source EXCEPT !.entries = copy]
  BY <1>4 DEF CopyAbstract
<1>6. CopyAbstract(source).entries = copy
  <2> HIDE DEF copy
  <2> QED  BY <1>5
<1> HIDE DEF sets, entries
<1>7. \A n \in 0 .. len : Positions(sets)[n] \in Nat /\ taken[n] = Least(Positions(sets)[n], MaxPositions)
  BY <1>2, TakenIsPositions
<1> HIDE DEF taken
<1>8. \A p \in P : room(p) \in Nat
  <2> SUFFICES ASSUME NEW p \in P PROVE room(p) \in Nat
    OBVIOUS
  <2>1. p - 1 \in 0 .. len
    BY <1>4
  <2> QED  BY <1>7, <2>1, MaxAssumption DEF Least
<1> HIDE DEF room
<1>9. \A p \in P :
        /\ copy[p] \in EntrySet
        /\ copy[p] = [sets[p] EXCEPT !.spread = copy[p].spread]
        /\ copy[p].uMin = sets[p].uMin /\ copy[p].weight = sets[p].weight
        /\ size(p) = Least(Len(sets[p].spread), room(p))
        /\ size(p) <= Len(sets[p].spread)
        /\ Ascends(copy[p].spread, SubSeq(sets[p].spread, 1, size(p)))
  BY <1>4, <1>8, SpreadFacts
<1>10. copy \in Seq(EntrySet) /\ Len(copy) = len /\ DOMAIN copy = P
  <2>1. copy \in [P -> EntrySet]
    BY <1>9
  <2> HIDE DEF copy
  <2> QED  BY <1>4, <2>1
<1> HIDE DEF copy
<1>11. \A n \in 0 .. len : Positions(copy)[n] = taken[n]
  BY <1>2, <1>9, <1>10, PositionsOfCopy DEF taken, room
<1> DEFINE whole == [p \in P |-> entries[from[p]]]
<1>12. whole = sets
  <2>1. \A p \in P : sets[p] = entries[from[p]]
    BY <1>3 DEF Selects
  <2>2. sets = [p \in P |-> sets[p]]
    BY <1>2, <1>4, LenProperties
  <2> QED  BY <2>1, <2>2
<1>13. AreHeaviest(copy, from, entries)
  BY <1>1, <1>3, <1>4, <1>9, <1>10 DEF Selects, AreHeaviest
<1>14. HavePositions(copy, whole)
  <2>1. \A p \in P : p \in 0 .. len
    BY <1>4
  <2> HIDE DEF whole
  <2> QED  BY <1>7, <1>9, <1>10, <1>11, <1>12, <2>1 DEF HavePositions
<1>15. from \in [P -> DOMAIN entries]
  BY <1>1, <1>3 DEF Selects
<1> HIDE DEF len
<1> QED  BY <1>2, <1>6, <1>10, <1>13, <1>14, <1>15 DEF CopyIsBest, entries

\* So every document's abstract is kept as well as there is room for.
LEMMA AllCopiesAreBest == BestCopies = DOMAIN Sources
BY SourcesAssumption, CopyOfRichIsBest DEF BestCopies

(***************************************************************************)
(* Whatever is in the store at any time, its copy of the abstract is the   *)
(* best there is room for (CopyAbstract called by Abstracts::Set).         *)
(***************************************************************************)
THEOREM CopiesAlwaysBest == Spec => []CopiesAreBest
<1>1. IInv => CopiesAreBest
  <2> SUFFICES ASSUME IInv, NEW p \in 1 .. Len(quoBox)
               PROVE  quoBox[p].stored \in BestCopies
    BY DEF CopiesAreBest
  <2>1. quoBox[p] \in [udocid: DocIds, stored: DocIds]
    BY ElementOfSeq DEF IInv, TypeOK
  <2>2. quoBox[p].stored \in DocIds
    BY <2>1
  <2> QED  BY <2>2, AllCopiesAreBest, SourcesOfAll
<1> QED  BY <1>1, Invariance, PTL
=============================================================================

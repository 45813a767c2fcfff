------------------------ MODULE CollectorMergeProofs ------------------------
(***************************************************************************)
(* Merging partial collectors keeps the best documents, for every order,   *)
(* every way of cutting the index and every schedule of the parts, with    *)
(* the same list in the end, and nothing stops a merge before its end.     *)
(***************************************************************************)
EXTENDS CollectorMerge, DocOrderProofs

-----------------------------------------------------------------------------
(* One insertion into a sorted buffer.                                     *)

\* A sorted buffer has no document twice.
LEMMA SortedIsDistinct ==
  ASSUME NEW buf \in Seq(Entity), Sorted(buf)
  PROVE  \A i, j \in 1 .. Len(buf) : buf[i] = buf[j] => i = j
<1> SUFFICES ASSUME NEW i \in 1 .. Len(buf), NEW j \in 1 .. Len(buf), buf[i] = buf[j], i < j
             PROVE  FALSE
  <2>1. Len(buf) \in Nat
    BY LenProperties
  <2> QED  BY <2>1
<1>1. Before(buf[i], buf[j]) /\ buf[i] \in Entity
  BY ElementOfSeq DEF Sorted
<1> QED  BY <1>1, BeforeIrreflexive

\* Placing e between the documents before it and those after it keeps the
\* buffer sorted, and adds e to it; a full buffer loses its last document.
LEMMA InsertedSorted ==
  ASSUME NEW buf \in Seq(Entity), Sorted(buf), NEW e \in Entity,
         NEW d \in 1 .. Len(buf) + 1,
         \A q \in 1 .. d - 1 : Before(buf[q], e),
         \A q \in d .. Len(buf) : Before(e, buf[q]),
         NEW n \in {Len(buf), Len(buf) + 1}, d <= n
  PROVE  LET new == Inserted(buf, d, e, n)
         IN  /\ new \in Seq(Entity) /\ Len(new) = n
             /\ Sorted(new)
             /\ n = Len(buf) + 1 => Items(new) = Items(buf) \cup {e}
             /\ n = Len(buf) => Items(new) = (Items(buf) \ {buf[n]}) \cup {e}
<1> DEFINE new == Inserted(buf, d, e, n)
<1>1. Len(buf) \in Nat /\ n \in Nat /\ \A q \in 1 .. Len(buf) : buf[q] \in Entity
  BY LenProperties, ElementOfSeq
<1>2. \A i \in 1 .. n : /\ i < d => new[i] = buf[i] /\ i \in 1 .. Len(buf)
                        /\ i = d => new[i] = e
                        /\ i > d => new[i] = buf[i - 1] /\ i - 1 \in d .. Len(buf)
  BY <1>1 DEF Inserted
<1>3. new \in Seq(Entity) /\ Len(new) = n
  <2>1. \A i \in 1 .. n : new[i] \in Entity
    BY <1>1, <1>2
  <2>2. new = [i \in 1 .. n |-> new[i]]
    BY DEF Inserted
  <2> HIDE DEF new
  <2>3. new \in [1 .. n -> Entity]
    BY <2>1, <2>2
  <2> QED  BY <1>1, <2>3
<1>4. Sorted(new)
  <2> SUFFICES ASSUME NEW i \in 1 .. n, NEW j \in 1 .. n, i < j
               PROVE  Before(new[i], new[j])
    BY <1>3 DEF Sorted
  <2>1. CASE j < d
    BY <1>1, <1>2, <2>1 DEF Sorted
  <2>2. CASE j = d
    BY <1>1, <1>2, <2>2
  <2>3. CASE j > d /\ i = d
    BY <1>1, <1>2, <2>3
  <2>4. CASE j > d /\ i < d
    <3>1. /\ new[i] = buf[i] /\ new[j] = buf[j - 1]
          /\ i \in 1 .. Len(buf) /\ j - 1 \in 1 .. Len(buf) /\ i < j - 1
      BY <1>1, <1>2, <2>4
    <3> QED  BY <3>1 DEF Sorted
  <2>5. CASE j > d /\ i > d
    <3>1. /\ new[i] = buf[i - 1] /\ new[j] = buf[j - 1]
          /\ i - 1 \in 1 .. Len(buf) /\ j - 1 \in 1 .. Len(buf) /\ i - 1 < j - 1
      BY <1>1, <1>2, <2>5
    <3> QED  BY <3>1 DEF Sorted
  <2> QED  BY <1>1, <2>1, <2>2, <2>3, <2>4, <2>5
<1>5. Items(new) = {new[i] : i \in 1 .. n}
  BY <1>3 DEF Items
<1>6. Items(new) \subseteq {buf[i] : i \in 1 .. n - 1} \cup {e}
  <2> SUFFICES ASSUME NEW i \in 1 .. n
               PROVE  new[i] \in {buf[k] : k \in 1 .. n - 1} \cup {e}
    BY <1>5
  <2> HIDE DEF new
  <2>1. CASE i < d
    <3>1. new[i] = buf[i] /\ i \in 1 .. n - 1
      BY <1>1, <1>2, <2>1
    <3> QED  BY <3>1
  <2>2. CASE i = d
    BY <1>2, <2>2
  <2>3. CASE i > d
    <3>1. new[i] = buf[i - 1] /\ i - 1 \in 1 .. n - 1
      BY <1>1, <1>2, <2>3
    <3> QED  BY <3>1
  <2> QED  BY <1>1, <2>1, <2>2, <2>3
<1>7. {buf[i] : i \in 1 .. n - 1} \cup {e} \subseteq Items(new)
  <2>1. e \in Items(new)
    <3>1. d \in 1 .. n /\ new[d] = e
      BY <1>1, <1>2
    <3> HIDE DEF new
    <3> QED  BY <1>5, <3>1
  <2>2. ASSUME NEW k \in 1 .. n - 1
        PROVE  buf[k] \in Items(new)
    <3>1. CASE k < d
      <4>1. k \in 1 .. n /\ new[k] = buf[k]
        BY <1>1, <1>2, <3>1
      <4> HIDE DEF new
      <4> QED  BY <1>5, <4>1
    <3>2. CASE k >= d
      <4>1. k + 1 \in 1 .. n /\ new[k + 1] = buf[k]
        BY <1>1, <1>2, <3>2
      <4> HIDE DEF new
      <4> QED  BY <1>5, <4>1
    <3> QED  BY <1>1, <3>1, <3>2
  <2> QED  BY <2>1, <2>2
<1>8. Items(new) = {buf[i] : i \in 1 .. n - 1} \cup {e}
  BY <1>6, <1>7
<1>9. n = Len(buf) + 1 => {buf[i] : i \in 1 .. n - 1} = Items(buf)
  BY <1>1 DEF Items
<1>10. n = Len(buf) => {buf[i] : i \in 1 .. n - 1} = Items(buf) \ {buf[n]}
  <2> SUFFICES ASSUME n = Len(buf)
               PROVE  {buf[i] : i \in 1 .. n - 1} = Items(buf) \ {buf[n]}
    OBVIOUS
  <2>1. n \in 1 .. Len(buf)
    BY <1>1
  <2>2. \A i \in 1 .. n - 1 : buf[i] # buf[n] /\ i \in 1 .. Len(buf)
    BY <1>1, <2>1, SortedIsDistinct
  <2>3. \A i \in 1 .. Len(buf) : i \in 1 .. n - 1 \/ i = n
    BY <1>1
  <2> QED  BY <2>2, <2>3 DEF Items
<1> HIDE DEF new
<1> QED  BY <1>3, <1>4, <1>8, <1>9, <1>10 DEF new

-----------------------------------------------------------------------------
(* The inductive invariant.                                                *)

\* What each part's own collector holds: its sections share no document.
PartsInv ==
  \A p \in Parts : /\ found[p] \in Matches(p)
                   /\ Collects(docs[p], found[p])
                   /\ Len(docs[p]) <= nLimit

LockInv == \A p \in Parts : pc[p] = "merging" <=> mxLock = {p}

\* Everything before dstptr is better than everything still to merge.
PtrInv ==
  \A p \in Parts : pc[p] = "merging" =>
    /\ srcptr \in 1 .. Len(docs[p]) + 1
    /\ dstptr \in 1 .. Len(buffer) + 1
    /\ \A q \in 1 .. dstptr - 1 : \A i \in srcptr .. Len(docs[p]) :
         Before(buffer[q], docs[p][i])

StoreInv ==
  \A i, j \in 1 .. Len(quoBox) : quoBox[i].udocid = quoBox[j].udocid => i = j

IInv ==
  /\ TypeOK
  /\ PartsInv
  /\ LockInv
  /\ PtrInv
  /\ StoreInv
  /\ MergedBest
  /\ QuotesFollow

\* What the collector was given, element by element, before and after a step.
LEMMA GivenMembers ==
  \A f : f \in Given <=>
        \E q \in Parts : \/ pc[q] = "done" /\ f \in found[q]
                         \/ pc[q] = "merging" /\ \E i \in 1 .. srcptr - 1 : f = docs[q][i]
BY DEF Given

LEMMA GivenMembersNext ==
  \A f : f \in Given' <=>
        \E q \in Parts : \/ pc'[q] = "done" /\ f \in found'[q]
                         \/ pc'[q] = "merging" /\ \E i \in 1 .. srcptr' - 1 : f = docs'[q][i]
BY DEF Given

LEMMA Typing ==
  ASSUME IInv
  PROVE  /\ buffer \in Seq(Entity) /\ Len(buffer) \in Nat /\ Len(buffer) <= nLimit
         /\ \A i \in 1 .. Len(buffer) : buffer[i] \in Entity /\ buffer[i] \in Given
         /\ \A p \in Parts : /\ docs[p] \in Seq(Entity) /\ Len(docs[p]) \in Nat
                             /\ \A i \in 1 .. Len(docs[p]) : /\ docs[p][i] \in Entity
                                                             /\ docs[p][i] \in found[p]
         /\ quoBox \in Seq([udocid: DocIds, stored: DocIds])
         /\ Len(quoBox) = Len(buffer)
         /\ \A i \in 1 .. Len(quoBox) : quoBox[i].udocid \in DocIds
         /\ nLimit \in Nat \ {0} /\ srcptr \in Nat \ {0}
         /\ dstptr \in 1 .. nLimit + 1
<1>1. /\ buffer \in Seq(Entity) /\ Len(buffer) <= nLimit /\ srcptr \in Nat \ {0}
      /\ quoBox \in Seq([udocid: DocIds, stored: DocIds])
      /\ docs \in [Parts -> Seq(Entity)]
      /\ nLimit \in Nat \ {0} /\ dstptr \in 1 .. nLimit + 1
  BY LimitAssumption DEF IInv, TypeOK
<1>2. Len(buffer) \in Nat /\ \A i \in 1 .. Len(buffer) : buffer[i] \in Entity
  BY <1>1, LenProperties, ElementOfSeq
<1>3. \A i \in 1 .. Len(buffer) : buffer[i] \in Given
  BY DEF IInv, MergedBest, Collects, Items
<1>4. ASSUME NEW p \in Parts
      PROVE  /\ docs[p] \in Seq(Entity) /\ Len(docs[p]) \in Nat
             /\ \A i \in 1 .. Len(docs[p]) : docs[p][i] \in Entity /\ docs[p][i] \in found[p]
  <2>1. docs[p] \in Seq(Entity)
    BY <1>1
  <2>2. Len(docs[p]) \in Nat /\ \A i \in 1 .. Len(docs[p]) : docs[p][i] \in Entity
    BY <2>1, LenProperties, ElementOfSeq
  <2>3. \A i \in 1 .. Len(docs[p]) : docs[p][i] \in found[p]
    BY DEF IInv, PartsInv, Collects, Items
  <2> QED  BY <2>1, <2>2, <2>3
<1>5. Len(quoBox) = Len(buffer)
  BY DEF IInv, QuotesFollow
<1>6. ASSUME NEW i \in 1 .. Len(quoBox)
      PROVE  quoBox[i].udocid \in DocIds
  <2>1. quoBox[i] \in [udocid: DocIds, stored: DocIds]
    BY <1>1, ElementOfSeq
  <2> QED  BY <2>1
<1> QED  BY <1>1, <1>2, <1>3, <1>4, <1>5, <1>6

\* Documents with one index are one document, whichever parts found them.
LEMMA FoundIsConsistent ==
  ASSUME IInv, NEW p \in Parts, NEW q \in Parts, NEW e \in found[p], NEW f \in found[q],
         e.id = f.id
  PROVE  e = f /\ p = q
<1>1. /\ found[p] \in Matches(p) /\ found[q] \in Matches(q)
  BY DEF IInv, PartsInv
<1>2. e.id \in Section(p) /\ f.id \in Section(q)
  BY <1>1 DEF Matches
<1>3. p = q
  BY <1>2, SectionAssumption
<1> QED  BY <1>1, <1>3 DEF Matches

\* Every document given was found by some part.
LEMMA GivenInFound ==
  ASSUME IInv, NEW f \in Given
  PROVE  f \in Entity /\ \E q \in Parts : f \in found[q]
<1>1. PICK q \in Parts : \/ f \in found[q]
                         \/ pc[q] = "merging" /\ \E i \in 1 .. srcptr - 1 : f = docs[q][i]
  BY GivenMembers
<1>2. f \in found[q]
  <2> SUFFICES ASSUME pc[q] = "merging", NEW i \in 1 .. srcptr - 1, f = docs[q][i]
               PROVE  f \in found[q]
    BY <1>1
  <2>1. srcptr \in 1 .. Len(docs[q]) + 1
    BY DEF IInv, PtrInv
  <2>2. i \in 1 .. Len(docs[q])
    BY <2>1, Typing
  <2> QED  BY <2>2, Typing
<1> QED  BY <1>2 DEF IInv, TypeOK

\* The document a part merges next was not given before.
LEMMA NextIsNew ==
  ASSUME IInv, NEW p \in Parts, pc[p] = "merging", srcptr <= Len(docs[p])
  PROVE  LET e == docs[p][srcptr]
         IN  /\ e \in Entity /\ e.id \in DocIds
             /\ \A f \in Given : f.id # e.id
             /\ \A i \in srcptr + 1 .. Len(docs[p]) : Before(e, docs[p][i])
<1> DEFINE e == docs[p][srcptr]
<1>1. srcptr \in 1 .. Len(docs[p]) /\ Sorted(docs[p]) /\ docs[p] \in Seq(Entity)
  BY Typing DEF IInv, PartsInv, Collects
<1>2. e \in Entity /\ e \in found[p] /\ e.id \in DocIds
  BY <1>1, Typing DEF Entity
<1>3. ASSUME NEW f \in Given, f.id = e.id
      PROVE  FALSE
  <2>1. PICK q \in Parts : \/ pc[q] = "done" /\ f \in found[q]
                           \/ pc[q] = "merging" /\ \E i \in 1 .. srcptr - 1 : f = docs[q][i]
    BY GivenMembers
  <2>2. CASE pc[q] = "done" /\ f \in found[q]
    <3>1. p = q
      BY <1>2, <1>3, <2>2, FoundIsConsistent
    <3> QED  BY <2>2, <3>1
  <2>3. CASE pc[q] = "merging" /\ \E i \in 1 .. srcptr - 1 : f = docs[q][i]
    <3>1. p = q
      BY <2>3 DEF IInv, LockInv
    <3>2. PICK i \in 1 .. srcptr - 1 : f = docs[p][i]
      BY <2>3, <3>1
    <3>3. i \in 1 .. Len(docs[p]) /\ i # srcptr
      BY <1>1, <3>2, Typing
    <3>4. f \in found[p]
      BY <3>2, <3>3, Typing
    <3>5. f = e
      BY <1>2, <1>3, <3>4, FoundIsConsistent
    <3> QED  BY <1>1, <3>2, <3>3, <3>5, SortedIsDistinct
  <2> QED  BY <2>1, <2>2, <2>3
<1>4. \A i \in srcptr + 1 .. Len(docs[p]) : Before(e, docs[p][i])
  BY <1>1, Typing DEF Sorted
<1> QED  BY <1>2, <1>3, <1>4

\* Where dstptr stops: all before it are better than e, all from it on worse.
LEMMA StopsBetween ==
  ASSUME IInv, NEW p \in Parts, pc[p] = "merging", srcptr <= Len(docs[p]),
         NEW d \in 1 .. nLimit + 1, StopsAt(d, docs[p][srcptr])
  PROVE  LET e == docs[p][srcptr]
         IN  /\ d \in 1 .. Len(buffer) + 1
             /\ \A q \in 1 .. d - 1 : Before(buffer[q], e)
             /\ \A q \in d .. Len(buffer) : Before(e, buffer[q])
<1> DEFINE e == docs[p][srcptr]
<1>1. e \in Entity /\ \A f \in Given : f.id # e.id
  BY NextIsNew
<1>2. /\ dstptr \in 1 .. Len(buffer) + 1 /\ srcptr \in 1 .. Len(docs[p])
      /\ \A q \in 1 .. dstptr - 1 : Before(buffer[q], e)
  BY Typing DEF IInv, PtrInv
<1> HIDE DEF e
<1>3. d \in dstptr .. Len(buffer) + 1
  BY DEF StopsAt, e
<1>4. \A q \in 1 .. d - 1 : Before(buffer[q], e)
  <2> SUFFICES ASSUME NEW q \in 1 .. d - 1
               PROVE  Before(buffer[q], e)
    OBVIOUS
  <2>1. CASE q < dstptr
    BY <1>2, <1>3, <2>1, Typing
  <2>2. CASE q >= dstptr
    <3>1. q \in dstptr .. d - 1
      BY <1>2, <1>3, <2>2, Typing
    <3> QED  BY <3>1 DEF StopsAt, e
  <2> QED  BY <1>2, <1>3, <2>1, <2>2, Typing
<1>5. \A q \in d .. Len(buffer) : Before(e, buffer[q])
  <2> SUFFICES ASSUME NEW q \in d .. Len(buffer)
               PROVE  Before(e, buffer[q])
    OBVIOUS
  <2>1. d \in 1 .. Len(buffer) /\ q \in 1 .. Len(buffer)
    BY <1>2, <1>3, Typing
  <2>2. ~ Before(buffer[d], e)
    BY <2>1, Typing DEF StopsAt, e
  <2>3. buffer[d] \in Entity /\ buffer[q] \in Entity /\ buffer[d].id # e.id
    BY <1>1, <2>1, Typing
  <2>4. Before(e, buffer[d])
    BY <1>1, <2>2, <2>3, BeforeTotal
  <2>5. CASE q = d
    BY <2>4, <2>5
  <2>6. CASE q # d
    <3>1. Before(buffer[d], buffer[q])
      BY <2>1, <2>6, Typing DEF IInv, MergedBest, Collects, Sorted
    <3> QED  BY <1>1, <2>3, <2>4, <3>1, BeforeTransitive
  <2> QED  BY <2>5, <2>6
<1> QED  BY <1>2, <1>3, <1>4, <1>5, Typing DEF e

\* What a step of a merge leaves alone, and what it makes of Given.
LEMMA MergeFrame ==
  ASSUME IInv, NEW p \in Parts, pc[p] = "merging", srcptr <= Len(docs[p]),
         UNCHANGED <<pc, found, docs, mxLock, nFound>>,
         srcptr' \in srcptr + 1 .. Len(docs[p]) + 1
  PROVE  /\ PartsInv' /\ LockInv'
         /\ Given' = Given \cup {docs[p][i] : i \in srcptr .. srcptr' - 1}
<1>1. PartsInv' /\ LockInv'
  BY DEF IInv, PartsInv, LockInv
<1>2. \A q \in Parts : pc[q] = "merging" => q = p
  BY DEF IInv, LockInv
<1>3. srcptr \in Nat \ {0} /\ srcptr' \in Nat /\ Len(docs[p]) \in Nat
  BY Typing
<1>4. ASSUME NEW f
      PROVE  f \in Given' <=> f \in Given \cup {docs[p][i] : i \in srcptr .. srcptr' - 1}
  <2>1. f \in Given' <=> \/ \E q \in Parts : pc[q] = "done" /\ f \in found[q]
                         \/ \E i \in 1 .. srcptr' - 1 : f = docs[p][i]
    BY <1>2, GivenMembersNext
  <2>2. f \in Given <=> \/ \E q \in Parts : pc[q] = "done" /\ f \in found[q]
                        \/ \E i \in 1 .. srcptr - 1 : f = docs[p][i]
    BY <1>2, GivenMembers
  <2>3. \A i : i \in 1 .. srcptr' - 1 <=> i \in 1 .. srcptr - 1 \/ i \in srcptr .. srcptr' - 1
    BY <1>3
  <2> QED  BY <2>1, <2>2, <2>3
<1> QED  BY <1>1, <1>4

\* The invariant of dstptr after e went in at d.
LEMMA PtrAfterInsert ==
  ASSUME IInv, NEW p \in Parts, pc[p] = "merging", srcptr <= Len(docs[p]),
         NEW d \in 1 .. nLimit, StopsAt(d, docs[p][srcptr]),
         UNCHANGED <<pc, docs, mxLock>>, srcptr' = srcptr + 1, dstptr' = d,
         Len(buffer') \in Nat, d <= Len(buffer'),
         \A q \in 1 .. d - 1 : buffer'[q] = buffer[q]
  PROVE  PtrInv'
<1> DEFINE e == docs[p][srcptr]
<1>1. /\ d \in 1 .. Len(buffer) + 1
      /\ \A q \in 1 .. d - 1 : Before(buffer[q], e)
  BY StopsBetween, Typing
<1>2. e \in Entity /\ \A i \in srcptr + 1 .. Len(docs[p]) : Before(e, docs[p][i])
  BY NextIsNew
<1> HIDE DEF e
<1>3. ASSUME NEW q \in 1 .. d - 1, NEW i \in srcptr' .. Len(docs[p])
      PROVE  Before(buffer'[q], docs[p][i])
  <2>1. q \in 1 .. Len(buffer) /\ i \in srcptr + 1 .. Len(docs[p]) /\ i \in 1 .. Len(docs[p])
    BY <1>1, Typing
  <2>2. Before(buffer[q], e) /\ Before(e, docs[p][i])
    BY <1>1, <1>2, <2>1
  <2>3. buffer[q] \in Entity /\ docs[p][i] \in Entity
    BY <2>1, Typing
  <2> QED  BY <1>2, <2>2, <2>3, BeforeTransitive
<1>4. \A q \in Parts : pc'[q] = "merging" => q = p
  BY DEF IInv, LockInv
<1>5. srcptr' \in 1 .. Len(docs'[p]) + 1 /\ dstptr' \in 1 .. Len(buffer') + 1
  BY Typing
<1> QED  BY <1>3, <1>4, <1>5 DEF PtrInv

-----------------------------------------------------------------------------
(* Each step of a merge preserves the invariant.                           *)

LEMMA InsertNewStep ==
  ASSUME IInv, NEW p \in Parts, InsertNew(p)
  PROVE  IInv'
<1> DEFINE e == docs[p][srcptr]
           item == [udocid |-> e.id, stored |-> e.id]
<1>1. /\ pc[p] = "merging" /\ srcptr <= Len(docs[p]) /\ srcptr' = srcptr + 1
      /\ UNCHANGED <<pc, found, docs, mxLock, nFound>>
      /\ quoBox' = Set(quoBox, e.id, e.id, NoDoc)
  BY DEF InsertNew
<1>2. PICK d \in 1 .. nLimit :
        /\ StopsAt(d, e) /\ dstptr' = d /\ Len(buffer) < nLimit
        /\ buffer' = Inserted(buffer, d, e, Len(buffer) + 1)
  BY DEF InsertNew
<1>3. /\ e \in Entity /\ e.id \in DocIds /\ \A f \in Given : f.id # e.id
  BY <1>1, NextIsNew
<1>4. /\ d \in 1 .. Len(buffer) + 1
      /\ \A q \in 1 .. d - 1 : Before(buffer[q], e)
      /\ \A q \in d .. Len(buffer) : Before(e, buffer[q])
  BY <1>1, <1>2, StopsBetween, Typing
<1>5. Sorted(buffer)
  BY DEF IInv, MergedBest, Collects
<1>6. Given' = Given \cup {e}
  <2>1. srcptr' \in srcptr + 1 .. Len(docs[p]) + 1
    BY <1>1, Typing
  <2>2. Given' = Given \cup {docs[p][i] : i \in srcptr .. srcptr' - 1}
    BY <1>1, <2>1, MergeFrame
  <2>3. srcptr .. srcptr' - 1 = {srcptr}
    BY <1>1, Typing
  <2> QED  BY <2>2, <2>3
<1>7. PartsInv' /\ LockInv'
  BY <1>1, MergeFrame, Typing
<1> HIDE DEF e
<1>8. /\ buffer' \in Seq(Entity) /\ Len(buffer') = Len(buffer) + 1
      /\ Sorted(buffer') /\ Items(buffer') = Items(buffer) \cup {e}
  <2>1. /\ buffer \in Seq(Entity) /\ Len(buffer) \in Nat
        /\ d <= Len(buffer) + 1 /\ Len(buffer) # Len(buffer) + 1
    BY <1>4, Typing
  <2> QED  BY <1>2, <1>3, <1>4, <1>5, <2>1, InsertedSorted
<1>9. \A q \in 1 .. d - 1 : buffer'[q] = buffer[q]
  BY <1>2, <1>4, Typing DEF Inserted
<1>10. PtrInv'
  BY <1>1, <1>2, <1>4, <1>8, <1>9, PtrAfterInsert, Typing DEF e
<1>11. Items(buffer) = Given
  BY <1>2, Typing DEF IInv, MergedBest, Collects
<1>12. MergedBest'
  BY <1>6, <1>8, <1>11 DEF MergedBest, Collects
<1>13. ItemsUnder(quoBox, NoDoc) = {}
  BY DocIdsAreInts, Typing DEF ItemsUnder
<1>14. quoBox' = Append(quoBox, item)
  BY <1>1, <1>13 DEF Set
<1>15. /\ Len(quoBox') = Len(quoBox) + 1 /\ Len(quoBox) \in Nat
       /\ quoBox' \in Seq([udocid: DocIds, stored: DocIds])
       /\ \A i \in 1 .. Len(quoBox) : quoBox'[i] = quoBox[i]
       /\ quoBox'[Len(quoBox) + 1] = item
  BY <1>3, <1>14, Typing
<1>16. TypeOK'
  BY <1>1, <1>2, <1>8, <1>15, Typing DEF IInv, TypeOK
<1>17. \A i \in 1 .. Len(quoBox') : i \in 1 .. Len(quoBox) \/ i = Len(quoBox) + 1
  BY <1>15
<1>18. \A i \in 1 .. Len(quoBox) : quoBox[i].udocid # e.id
  <2> SUFFICES ASSUME NEW i \in 1 .. Len(quoBox)
               PROVE  quoBox[i].udocid # e.id
    OBVIOUS
  <2>1. PICK f \in Items(buffer) : quoBox[i].udocid = f.id
    BY DEF IInv, QuotesFollow
  <2> QED  BY <1>3, <1>11, <2>1
<1>19. StoreInv'
  BY <1>15, <1>17, <1>18 DEF IInv, StoreInv
<1>20. QuotesFollow'
  <2>1. Len(quoBox') = Len(buffer')
    BY <1>8, <1>15, Typing
  <2>2. {quoBox'[i].udocid : i \in 1 .. Len(quoBox')}
          = {quoBox[i].udocid : i \in 1 .. Len(quoBox)} \cup {e.id}
    <3>1. /\ \A i \in 1 .. Len(quoBox) : i \in 1 .. Len(quoBox')
          /\ Len(quoBox) + 1 \in 1 .. Len(quoBox')
      BY <1>15
    <3> QED  BY <1>15, <1>17, <3>1
  <2>3. {f.id : f \in Items(buffer')} = {f.id : f \in Items(buffer)} \cup {e.id}
    BY <1>8
  <2>4. \A i \in 1 .. Len(quoBox') : quoBox'[i].stored = quoBox'[i].udocid
    BY <1>15, <1>17 DEF IInv, QuotesFollow
  <2> QED  BY <2>1, <2>2, <2>3, <2>4 DEF IInv, QuotesFollow
<1> QED  BY <1>7, <1>10, <1>12, <1>16, <1>19, <1>20 DEF IInv

LEMMA InsertOverStep ==
  ASSUME IInv, NEW p \in Parts, InsertOver(p)
  PROVE  IInv'
<1> DEFINE e == docs[p][srcptr]
           last == buffer[nLimit]
           item == [udocid |-> e.id, stored |-> e.id]
<1>1. /\ pc[p] = "merging" /\ srcptr <= Len(docs[p]) /\ srcptr' = srcptr + 1
      /\ UNCHANGED <<pc, found, docs, mxLock, nFound>>
      /\ quoBox' = Set(quoBox, e.id, e.id, last.id)
  BY DEF InsertOver
<1>2. PICK d \in 1 .. nLimit :
        /\ StopsAt(d, e) /\ dstptr' = d /\ Len(buffer) = nLimit
        /\ buffer' = Inserted(buffer, d, e, nLimit)
  BY DEF InsertOver
<1>3. /\ e \in Entity /\ e.id \in DocIds /\ \A f \in Given : f.id # e.id
  BY <1>1, NextIsNew
<1>4. /\ d \in 1 .. Len(buffer) + 1
      /\ \A q \in 1 .. d - 1 : Before(buffer[q], e)
      /\ \A q \in d .. Len(buffer) : Before(e, buffer[q])
  BY <1>1, <1>2, StopsBetween, Typing
<1>5. Sorted(buffer)
  BY DEF IInv, MergedBest, Collects
<1>6. Given' = Given \cup {e}
  <2>1. srcptr' \in srcptr + 1 .. Len(docs[p]) + 1
    BY <1>1, Typing
  <2>2. Given' = Given \cup {docs[p][i] : i \in srcptr .. srcptr' - 1}
    BY <1>1, <2>1, MergeFrame
  <2>3. srcptr .. srcptr' - 1 = {srcptr}
    BY <1>1, Typing
  <2> QED  BY <2>2, <2>3
<1>7. PartsInv' /\ LockInv'
  BY <1>1, MergeFrame, Typing
<1>8. /\ nLimit \in 1 .. Len(buffer) /\ last \in Entity /\ last \in Given
      /\ last \in Items(buffer) /\ Before(e, last)
  <2>1. nLimit \in 1 .. Len(buffer) /\ nLimit \in d .. Len(buffer)
    BY <1>2, Typing
  <2> QED  BY <1>4, <2>1, Typing DEF Items
<1> HIDE DEF e, last
<1>9. /\ buffer' \in Seq(Entity) /\ Len(buffer') = nLimit
      /\ Sorted(buffer') /\ Items(buffer') = (Items(buffer) \ {last}) \cup {e}
  BY <1>2, <1>3, <1>4, <1>5, InsertedSorted, Typing DEF last
<1>10. \A q \in 1 .. d - 1 : buffer'[q] = buffer[q]
  BY <1>2, <1>4, Typing DEF Inserted
<1>11. PtrInv'
  BY <1>1, <1>2, <1>4, <1>9, <1>10, PtrAfterInsert, Typing DEF e
<1>12. MergedBest'
  <2>1. Items(buffer) \subseteq Given /\ \A f \in Items(buffer) : \A g \in Given \ Items(buffer) : Before(f, g)
    BY DEF IInv, MergedBest, Collects
  <2>2. \A f \in Items(buffer) : f # last => f \in Entity /\ Before(f, last)
    <3> SUFFICES ASSUME NEW i \in 1 .. Len(buffer), buffer[i] # last
                 PROVE  buffer[i] \in Entity /\ Before(buffer[i], last)
      BY DEF Items
    <3>1. i < nLimit
      BY <1>2, <1>8, Typing DEF last
    <3> QED  BY <1>5, <1>8, <3>1, Typing DEF Sorted, last
  <2>3. \A f \in Items(buffer') : f \in Entity /\ Before(f, last)
    BY <1>3, <1>8, <1>9, <2>2
  <2>4. \A g \in Given \ Items(buffer) : g \in Entity /\ Before(last, g)
    <3>1. Given \subseteq Entity
      BY GivenInFound
    <3> QED  BY <1>8, <2>1, <3>1
  <2>5. \A g \in Given' \ Items(buffer') : g = last \/ g \in Given \ Items(buffer)
    BY <1>6, <1>9
  <2>6. \A f \in Items(buffer') : \A g \in Given' \ Items(buffer') : Before(f, g)
    BY <1>8, <2>3, <2>4, <2>5, BeforeTransitive
  <2>7. Items(buffer') \subseteq Given'
    BY <1>6, <1>9, <2>1
  <2> QED  BY <1>9, <2>6, <2>7 DEF MergedBest, Collects
<1>13. PICK k \in 1 .. Len(quoBox) : quoBox[k].udocid = last.id
  <2>1. last.id \in {quoBox[i].udocid : i \in 1 .. Len(quoBox)}
    BY <1>8 DEF IInv, QuotesFollow
  <2> QED  BY <2>1
<1>14. quoBox' = [quoBox EXCEPT ![k] = item]
  <2>1. ItemsUnder(quoBox, last.id) = {k}
    BY <1>13 DEF ItemsUnder, IInv, StoreInv
  <2>2. (CHOOSE i \in {k} : \A j \in {k} : i <= j) = k
    BY <1>13
  <2>3. {k} # {}
    OBVIOUS
  <2> HIDE DEF item
  <2> QED  BY <1>1, <2>1, <2>2, <2>3 DEF Set, item
<1>15. /\ Len(quoBox') = Len(quoBox)
       /\ quoBox' \in Seq([udocid: DocIds, stored: DocIds])
       /\ \A i \in 1 .. Len(quoBox) : quoBox'[i] = IF i = k THEN item ELSE quoBox[i]
  BY <1>3, <1>13, <1>14, ExceptSeq, Typing
<1>16. TypeOK'
  BY <1>1, <1>2, <1>9, <1>15, Typing DEF IInv, TypeOK
<1>17. /\ \A i \in 1 .. Len(quoBox) : i # k => quoBox'[i].udocid = quoBox[i].udocid
       /\ quoBox'[k].udocid = e.id
  BY <1>13, <1>15
<1>18. \A i \in 1 .. Len(quoBox) : quoBox[i].udocid # e.id
  <2> SUFFICES ASSUME NEW i \in 1 .. Len(quoBox)
               PROVE  quoBox[i].udocid # e.id
    OBVIOUS
  <2>1. PICK f \in Items(buffer) : quoBox[i].udocid = f.id
    BY DEF IInv, QuotesFollow
  <2>2. f \in Given
    BY DEF IInv, MergedBest, Collects
  <2> QED  BY <1>3, <2>1, <2>2
<1>19. StoreInv'
  BY <1>15, <1>17, <1>18 DEF IInv, StoreInv
<1>20. QuotesFollow'
  <2>1. {quoBox'[i].udocid : i \in 1 .. Len(quoBox)}
          = ({quoBox[i].udocid : i \in 1 .. Len(quoBox)} \ {last.id}) \cup {e.id}
    <3>1. \A i \in 1 .. Len(quoBox) : i # k => quoBox[i].udocid # last.id
      BY <1>13 DEF IInv, StoreInv
    <3> QED  BY <1>13, <1>17, <3>1
  <2>2. \A f \in Items(buffer) : f # last => f.id # last.id
    <3> SUFFICES ASSUME NEW f \in Items(buffer), f # last, f.id = last.id
                 PROVE  FALSE
      OBVIOUS
    <3>1. PICK q \in Parts : f \in found[q]
      BY GivenInFound DEF IInv, MergedBest, Collects
    <3>2. PICK r \in Parts : last \in found[r]
      BY <1>8, GivenInFound
    <3> QED  BY <3>1, <3>2, FoundIsConsistent
  <2>3. {f.id : f \in Items(buffer')} = ({f.id : f \in Items(buffer)} \ {last.id}) \cup {e.id}
    BY <1>8, <1>9, <2>2
  <2>4. \A i \in 1 .. Len(quoBox') : quoBox'[i].stored = quoBox'[i].udocid
    BY <1>15 DEF IInv, QuotesFollow
  <2>5. Len(quoBox') = Len(buffer')
    BY <1>2, <1>9, <1>15, Typing
  <2> QED  BY <1>15, <2>1, <2>3, <2>4, <2>5 DEF IInv, QuotesFollow
<1> QED  BY <1>7, <1>11, <1>12, <1>16, <1>19, <1>20 DEF IInv

\* All the buffer is better than this document and so than those after it.
LEMMA BreakStep ==
  ASSUME IInv, NEW p \in Parts, Break(p)
  PROVE  IInv'
<1> DEFINE e == docs[p][srcptr]
           rest == {docs[p][i] : i \in srcptr .. Len(docs[p])}
<1>1. /\ pc[p] = "merging" /\ srcptr <= Len(docs[p]) /\ srcptr' = Len(docs[p]) + 1
      /\ UNCHANGED <<pc, found, docs, mxLock, buffer, quoBox, nFound>>
      /\ StopsAt(nLimit + 1, e) /\ dstptr' = nLimit + 1
  BY DEF Break
<1>2. /\ e \in Entity /\ \A i \in srcptr + 1 .. Len(docs[p]) : Before(e, docs[p][i])
  BY <1>1, NextIsNew
<1>3. /\ nLimit + 1 \in 1 .. Len(buffer) + 1
      /\ \A q \in 1 .. nLimit : Before(buffer[q], e)
  BY <1>1, StopsBetween, Typing
<1>4. Len(buffer) = nLimit
  BY <1>3, Typing
<1>5. Given' = Given \cup rest
  <2>1. srcptr' \in srcptr + 1 .. Len(docs[p]) + 1
    BY <1>1, Typing
  <2>2. Given' = Given \cup {docs[p][i] : i \in srcptr .. srcptr' - 1}
    BY <1>1, <2>1, MergeFrame
  <2>3. srcptr .. srcptr' - 1 = srcptr .. Len(docs[p])
    BY <1>1, Typing
  <2> QED  BY <2>2, <2>3
<1>6. PartsInv' /\ LockInv'
  <2>1. srcptr' \in srcptr + 1 .. Len(docs[p]) + 1
    BY <1>1, Typing
  <2> QED  BY <1>1, <2>1, MergeFrame
<1> HIDE DEF e
<1>7. \A q \in 1 .. Len(buffer) : \A g \in rest : Before(buffer[q], g)
  <2> SUFFICES ASSUME NEW q \in 1 .. Len(buffer), NEW i \in srcptr .. Len(docs[p])
               PROVE  Before(buffer[q], docs[p][i])
    OBVIOUS
  <2>1. Before(buffer[q], e) /\ buffer[q] \in Entity
    BY <1>3, <1>4, Typing
  <2>2. CASE i = srcptr
    BY <2>1, <2>2 DEF e
  <2>3. CASE i # srcptr
    <3>1. i \in srcptr + 1 .. Len(docs[p]) /\ docs[p][i] \in Entity
      BY <1>1, <2>3, Typing
    <3> QED  BY <1>2, <2>1, <3>1, BeforeTransitive
  <2> QED  BY <2>2, <2>3
<1> HIDE DEF rest
<1>8. Items(buffer') = Items(buffer) /\ \A f \in Items(buffer) : \A g \in rest : Before(f, g)
  BY <1>1, <1>7 DEF Items
<1>9. MergedBest'
  <2>1. Sorted(buffer') /\ Len(buffer') = nLimit
    BY <1>1, <1>4 DEF IInv, MergedBest, Collects
  <2>2. Items(buffer') \subseteq Given'
    BY <1>5, <1>8 DEF IInv, MergedBest, Collects
  <2>3. \A f \in Items(buffer') : \A g \in Given' \ Items(buffer') : Before(f, g)
    BY <1>5, <1>8 DEF IInv, MergedBest, Collects
  <2> QED  BY <2>1, <2>2, <2>3 DEF MergedBest, Collects
<1>10. PtrInv'
  <2>1. \A q \in Parts : pc'[q] = "merging" => q = p
    BY <1>1 DEF IInv, LockInv
  <2>2. srcptr' \in 1 .. Len(docs'[p]) + 1 /\ srcptr' .. Len(docs'[p]) = {}
    BY <1>1, Typing
  <2>3. dstptr' \in 1 .. Len(buffer') + 1
    BY <1>1, <1>4, Typing
  <2> QED  BY <2>1, <2>2, <2>3 DEF PtrInv
<1>11. TypeOK'
  BY <1>1, Typing DEF IInv, TypeOK
<1>12. StoreInv'
  BY <1>1 DEF IInv, StoreInv
<1>13. QuotesFollow'
  BY <1>1, <1>8 DEF IInv, QuotesFollow
<1> QED  BY <1>6, <1>9, <1>10, <1>11, <1>12, <1>13 DEF IInv

\* What the part dropped in its own full collector is worse than all it
\* merged: those nLimit documents, or better ones, are what is held.
LEMMA UnlockStep ==
  ASSUME IInv, NEW p \in Parts, Unlock(p)
  PROVE  IInv'
<1>1. /\ pc[p] = "merging" /\ srcptr > Len(docs[p]) /\ mxLock' = {}
      /\ nFound' = nFound + Cardinality(found[p])
      /\ pc' = [pc EXCEPT ![p] = "done"]
      /\ UNCHANGED <<found, docs, srcptr, dstptr, buffer, quoBox>>
  BY DEF Unlock
<1>2. pc \in [Parts -> {"queued", "searched", "merging", "done"}] /\ p \in Parts
  BY DEF IInv, TypeOK
<1>3. \A q \in Parts : pc[q] = "merging" => q = p
  BY <1>1 DEF IInv, LockInv
<1>4. pc'[p] = "done" /\ \A q \in Parts : q # p => pc'[q] = pc[q] /\ pc'[q] # "merging"
  BY <1>1, <1>2, <1>3
<1>5. srcptr = Len(docs[p]) + 1
  BY <1>1, Typing DEF IInv, PtrInv
<1>6. Items(docs[p]) \subseteq Given /\ Items(docs[p]) \subseteq found[p]
  <2>1. Items(docs[p]) \subseteq Given
    BY <1>1, <1>5, GivenMembers, Typing DEF Items
  <2> QED  BY <2>1 DEF IInv, PartsInv, Collects
<1>7. Given' = Given \cup found[p]
  <2>1. ASSUME NEW f
        PROVE  f \in Given' <=> f \in found[p] \/ \E q \in Parts : pc[q] = "done" /\ f \in found[q]
    BY <1>1, <1>4, GivenMembersNext
  <2>2. ASSUME NEW f
        PROVE  f \in Given => f \in found[p] \/ \E q \in Parts : pc[q] = "done" /\ f \in found[q]
    <3> SUFFICES ASSUME f \in Given, ~ \E q \in Parts : pc[q] = "done" /\ f \in found[q]
                 PROVE  f \in found[p]
      OBVIOUS
    <3>1. \E i \in 1 .. srcptr - 1 : f = docs[p][i]
      BY <1>3, GivenMembers
    <3>2. f \in Items(docs[p])
      BY <1>5, <3>1, Typing DEF Items
    <3> QED  BY <1>6, <3>2
  <2>3. ASSUME NEW f, \E q \in Parts : pc[q] = "done" /\ f \in found[q]
        PROVE  f \in Given
    BY <2>3, GivenMembers
  <2> QED  BY <2>1, <2>2, <2>3
<1>8. ASSUME NEW k \in Items(buffer), NEW g \in found[p], g \notin Given, ~ Before(k, g)
      PROVE  FALSE
  <2>1. /\ Collects(docs[p], found[p]) /\ docs[p] \in Seq(Entity)
        /\ Collects(buffer, Given) /\ buffer \in Seq(Entity)
    BY Typing DEF IInv, PartsInv, MergedBest
  <2>2. g \notin Items(docs[p]) /\ g \in Entity
    BY <1>6, <1>8 DEF IInv, TypeOK
  <2>3. Len(docs[p]) = nLimit /\ \A e \in Items(docs[p]) : Before(e, g)
    BY <1>8, <2>1, <2>2 DEF Collects
  <2>4. k \in Given /\ k \in Entity /\ k # g
    BY <1>8, <2>1, GivenInFound DEF Collects
  <2>5. Before(g, k)
    <3>1. k.id # g.id
      <4>1. PICK q \in Parts : k \in found[q]
        BY <2>4, GivenInFound
      <4> QED  BY <1>8, <2>4, <4>1, FoundIsConsistent
    <3> QED  BY <1>8, <2>2, <2>4, <3>1, BeforeTotal
  <2>6. \A e \in Items(docs[p]) : e \in Entity /\ Before(e, k)
    <3>1. \A e \in Items(docs[p]) : e \in Entity
      BY Typing DEF Items
    <3> QED  BY <2>2, <2>3, <2>4, <2>5, <3>1, BeforeTransitive
  <2>7. Items(docs[p]) \subseteq Items(buffer)
    <3> SUFFICES ASSUME NEW e \in Items(docs[p]), e \notin Items(buffer)
                 PROVE  FALSE
      OBVIOUS
    <3>1. Before(k, e) /\ Before(e, k) /\ e \in Entity
      BY <1>6, <1>8, <2>1, <2>6 DEF Collects
    <3> QED  BY <2>4, <3>1, BeforeTransitive, BeforeIrreflexive
  <2>8. k \notin Items(docs[p])
    BY <2>4, <2>6, BeforeIrreflexive
  <2>9. /\ IsFiniteSet(Items(buffer)) /\ Cardinality(Items(buffer)) = Len(buffer)
        /\ Cardinality(Items(docs[p])) = Len(docs[p])
    BY <2>1, SortedIsDistinct, SizeOfDistinct DEF Items, Collects
  <2>10. Cardinality(Items(docs[p])) = Cardinality(Items(buffer))
    <3>1. Cardinality(Items(docs[p])) <= Cardinality(Items(buffer))
      BY <2>7, <2>9, FS_Subset
    <3> QED  BY <2>3, <2>9, <3>1, Typing
  <2>11. Items(docs[p]) = Items(buffer)
    BY <2>7, <2>9, <2>10, FS_Subset
  <2> QED  BY <1>8, <2>8, <2>11
<1>9. MergedBest'
  <2>1. Items(buffer') = Items(buffer) /\ buffer' = buffer
    BY <1>1 DEF Items
  <2>2. Items(buffer) \subseteq Given' /\ Sorted(buffer)
    BY <1>7 DEF IInv, MergedBest, Collects
  <2>3. \A f \in Items(buffer) : \A g \in Given' \ Items(buffer) : Before(f, g)
    BY <1>7, <1>8 DEF IInv, MergedBest, Collects
  <2>4. Items(buffer) = Given' \/ Len(buffer) = nLimit
    <3> SUFFICES ASSUME Len(buffer) # nLimit, NEW g \in found[p]
                 PROVE  g \in Items(buffer)
      BY <1>7 DEF IInv, MergedBest, Collects
    <3>1. Items(buffer) = Given
      BY DEF IInv, MergedBest, Collects
    <3>2. CASE Items(docs[p]) = found[p]
      BY <1>6, <3>1, <3>2
    <3>3. CASE Len(docs[p]) = nLimit
      <4>1. /\ IsFiniteSet(Items(buffer)) /\ Cardinality(Items(buffer)) = Len(buffer)
            /\ Cardinality(Items(docs[p])) = Len(docs[p])
        BY SortedIsDistinct, SizeOfDistinct, Typing
        DEF Items, Collects, IInv, MergedBest, PartsInv
      <4>2. Cardinality(Items(docs[p])) <= Cardinality(Items(buffer))
        BY <1>6, <3>1, <4>1, FS_Subset
      <4> QED  BY <3>3, <4>1, <4>2, Typing
    <3> QED  BY <3>2, <3>3 DEF IInv, PartsInv, Collects
  <2> QED  BY <2>1, <2>2, <2>3, <2>4 DEF MergedBest, Collects
<1>10. TypeOK'
  <2>1. Cardinality(found[p]) \in Nat
    BY FS_CardinalityType DEF IInv, PartsInv, Matches
  <2> QED  BY <1>1, <2>1 DEF IInv, TypeOK
<1>11. PartsInv' /\ StoreInv'
  BY <1>1 DEF IInv, PartsInv, StoreInv
<1>12. LockInv' /\ PtrInv'
  BY <1>1, <1>4 DEF LockInv, PtrInv
<1>13. QuotesFollow'
  BY <1>1 DEF IInv, QuotesFollow, Items
<1> QED  BY <1>9, <1>10, <1>11, <1>12, <1>13 DEF IInv

\* Nobody merges while the mutex is free: a part that takes it starts afresh.
LEMMA LockStep ==
  ASSUME IInv, NEW p \in Parts, Lock(p)
  PROVE  IInv'
<1>1. /\ pc[p] = "searched" /\ mxLock = {} /\ mxLock' = {p} /\ srcptr' = 1 /\ dstptr' = 1
      /\ pc' = [pc EXCEPT ![p] = "merging"]
      /\ UNCHANGED <<found, docs, buffer, quoBox, nFound>>
  BY DEF Lock
<1>2. pc \in [Parts -> {"queued", "searched", "merging", "done"}]
  BY DEF IInv, TypeOK
<1>3. \A q \in Parts : pc[q] # "merging"
  <2>1. \A q \in Parts : mxLock # {q}
    BY <1>1
  <2> QED  BY <2>1 DEF IInv, LockInv
<1>4. pc'[p] = "merging" /\ \A q \in Parts : q # p => pc'[q] = pc[q]
  BY <1>1, <1>2
<1>5. Given' = Given
  <2> SUFFICES ASSUME NEW f
               PROVE  f \in Given' <=> f \in Given
    OBVIOUS
  <2>1. f \in Given' <=> \E q \in Parts : pc'[q] = "done" /\ f \in found[q]
    BY <1>1, GivenMembersNext
  <2>2. f \in Given <=> \E q \in Parts : pc[q] = "done" /\ f \in found[q]
    BY <1>3, GivenMembers
  <2>3. \A q \in Parts : pc'[q] = "done" <=> pc[q] = "done"
    BY <1>1, <1>4
  <2> QED  BY <2>1, <2>2, <2>3
<1>6. LockInv'
  <2>1. \A q \in Parts : pc'[q] = "merging" <=> q = p
    BY <1>3, <1>4
  <2> QED  BY <1>1, <2>1 DEF LockInv
<1>7. PtrInv'
  <2>1. \A q \in Parts : Len(docs[q]) \in Nat /\ Len(buffer) \in Nat
    BY Typing
  <2> QED  BY <1>1, <2>1 DEF PtrInv
<1>8. TypeOK'
  BY <1>1, Typing DEF IInv, TypeOK
<1>9. PartsInv' /\ StoreInv'
  BY <1>1 DEF IInv, PartsInv, StoreInv
<1>10. MergedBest' /\ QuotesFollow'
  BY <1>1, <1>5 DEF IInv, MergedBest, QuotesFollow, Items
<1> QED  BY <1>6, <1>7, <1>8, <1>9, <1>10 DEF IInv

\* A part that only searched has given nothing yet.
LEMMA SearchPartStep ==
  ASSUME IInv, NEW p \in Parts, SearchPart(p)
  PROVE  IInv'
<1>1. PICK S \in Matches(p) :
        /\ found' = [found EXCEPT ![p] = S]
        /\ \E n \in 0 .. nLimit : \E buf \in [1 .. n -> S] :
             Collects(buf, S) /\ docs' = [docs EXCEPT ![p] = buf]
        /\ pc' = [pc EXCEPT ![p] = IF S = {} THEN "done" ELSE "searched"]
  BY DEF SearchPart
<1>2. PICK n \in 0 .. nLimit : \E buf \in [1 .. n -> S] :
        Collects(buf, S) /\ docs' = [docs EXCEPT ![p] = buf]
  BY <1>1
<1>3. PICK buf \in [1 .. n -> S] : Collects(buf, S) /\ docs' = [docs EXCEPT ![p] = buf]
  BY <1>2
<1>4. pc[p] = "queued" /\ UNCHANGED <<mxLock, srcptr, dstptr, buffer, quoBox, nFound>>
  BY DEF SearchPart
<1>5. S \subseteq Entity
  BY DEF Matches
<1>6. buf \in Seq(Entity) /\ Len(buf) = n /\ n \in Nat /\ n <= nLimit
  BY <1>5, LimitAssumption
<1>7. /\ pc \in [Parts -> {"queued", "searched", "merging", "done"}]
      /\ found \in [Parts -> SUBSET Entity] /\ docs \in [Parts -> Seq(Entity)]
  BY DEF IInv, TypeOK
<1>8. /\ pc'[p] = "done" => S = {}
      /\ pc'[p] # "merging"
      /\ found'[p] = S /\ docs'[p] = buf
      /\ \A q \in Parts : q # p => pc'[q] = pc[q] /\ found'[q] = found[q] /\ docs'[q] = docs[q]
  BY <1>1, <1>3, <1>7
<1>9. Given' = Given
  <2> SUFFICES ASSUME NEW f
               PROVE  f \in Given' <=> f \in Given
    OBVIOUS
  <2>1. f \in Given' <=>
          \E q \in Parts : \/ pc'[q] = "done" /\ f \in found'[q]
                           \/ pc'[q] = "merging" /\ \E i \in 1 .. srcptr - 1 : f = docs'[q][i]
    BY <1>4, GivenMembersNext
  <2>2. f \in Given <=>
          \E q \in Parts : \/ pc[q] = "done" /\ f \in found[q]
                           \/ pc[q] = "merging" /\ \E i \in 1 .. srcptr - 1 : f = docs[q][i]
    BY GivenMembers
  <2>3. ~ (pc'[p] = "done" /\ f \in found'[p]) /\ pc'[p] # "merging" /\ pc[p] # "done" /\ pc[p] # "merging"
    BY <1>4, <1>8
  <2> QED  BY <1>8, <2>1, <2>2, <2>3
<1>10. PartsInv'
  BY <1>3, <1>6, <1>8 DEF IInv, PartsInv, Matches
<1>11. LockInv'
  BY <1>4, <1>8 DEF IInv, LockInv
<1>12. PtrInv'
  BY <1>4, <1>8 DEF IInv, PtrInv
<1>13. TypeOK'
  BY <1>1, <1>3, <1>4, <1>5, <1>6, <1>7 DEF IInv, TypeOK
<1>14. StoreInv'
  BY <1>4 DEF IInv, StoreInv
<1>15. MergedBest' /\ QuotesFollow'
  BY <1>4, <1>9 DEF IInv, MergedBest, QuotesFollow, Items
<1> QED  BY <1>10, <1>11, <1>12, <1>13, <1>14, <1>15 DEF IInv

LEMMA InitIInv ==
  ASSUME Init
  PROVE  IInv
<1>1. TypeOK
  BY LimitAssumption DEF Init, TypeOK
<1>2. LockInv /\ PtrInv
  BY DEF Init, LockInv, PtrInv
<1>3. StoreInv
  BY DEF Init, StoreInv
<1>4. \A f : f \notin Given
  BY GivenMembers DEF Init
<1>5. Items(buffer) = {} /\ Len(buffer) = 0 /\ Len(quoBox) = 0 /\ 1 .. 0 = {}
  BY DEF Init, Items
<1>6. MergedBest
  BY <1>4, <1>5 DEF MergedBest, Collects, Sorted
<1>7. QuotesFollow
  BY <1>5 DEF QuotesFollow
<1>8. PartsInv
  <2> SUFFICES ASSUME NEW p \in Parts
               PROVE  found[p] \in Matches(p) /\ Collects(docs[p], found[p]) /\ Len(docs[p]) <= nLimit
    BY DEF PartsInv
  <2>1. found[p] = {} /\ docs[p] = <<>> /\ Len(docs[p]) = 0 /\ Items(docs[p]) = {}
    BY DEF Init, Items
  <2>2. {} \in Matches(p)
    BY FS_EmptySet DEF Matches
  <2> QED  BY <2>1, <2>2, LimitAssumption DEF Collects, Sorted
<1> QED  BY <1>1, <1>2, <1>3, <1>6, <1>7, <1>8 DEF IInv

LEMMA NextIInv ==
  ASSUME IInv, [Next]_vars
  PROVE  IInv'
<1>1. CASE \E p \in Parts : SearchPart(p)
  BY <1>1, SearchPartStep
<1>2. CASE \E p \in Parts : Lock(p)
  BY <1>2, LockStep
<1>3. CASE \E p \in Parts : InsertNew(p)
  BY <1>3, InsertNewStep
<1>4. CASE \E p \in Parts : InsertOver(p)
  BY <1>4, InsertOverStep
<1>5. CASE \E p \in Parts : Break(p)
  BY <1>5, BreakStep
<1>6. CASE \E p \in Parts : Unlock(p)
  BY <1>6, UnlockStep
<1>7. CASE UNCHANGED vars
  <2>1. UNCHANGED <<pc, found, docs, mxLock, srcptr, dstptr, buffer, quoBox, nFound>>
    BY <1>7 DEF vars
  <2>2. TypeOK' /\ LockInv' /\ StoreInv'
    BY <2>1 DEF IInv, TypeOK, LockInv, StoreInv
  <2>3. PartsInv'
    BY <2>1 DEF IInv, PartsInv
  <2>4. PtrInv'
    BY <2>1 DEF IInv, PtrInv
  <2>5. Given' = Given
    BY <2>1 DEF Given
  <2>6. MergedBest' /\ QuotesFollow'
    BY <2>1, <2>5 DEF IInv, MergedBest, QuotesFollow, Items
  <2> QED  BY <2>2, <2>3, <2>4, <2>6 DEF IInv
<1> QED  BY <1>1, <1>2, <1>3, <1>4, <1>5, <1>6, <1>7 DEF Next

-----------------------------------------------------------------------------
(* The count: what the parts that are done have found, each part once.     *)

Merged == UNION {IF pc[p] = "done" THEN found[p] ELSE {} : p \in Parts}

CountInv == IsFiniteSet(Merged) /\ nFound = Cardinality(Merged)

LEMMA InitCountInv ==
  ASSUME Init
  PROVE  CountInv
<1>1. Merged = {}
  BY DEF Init, Merged
<1> QED  BY <1>1, FS_EmptySet DEF Init, CountInv

\* A document of a part that still merges is not counted yet.
LEMMA NotCountedBefore ==
  ASSUME IInv, NEW p \in Parts, pc[p] # "done"
  PROVE  Merged \cap found[p] = {}
<1> SUFFICES ASSUME NEW q \in Parts, pc[q] = "done", NEW f \in found[q], f \in found[p]
             PROVE  FALSE
  BY DEF Merged
<1> QED  BY FoundIsConsistent

LEMMA CountStep ==
  ASSUME IInv, CountInv, [Next]_vars
  PROVE  CountInv'
<1>1. pc \in [Parts -> {"queued", "searched", "merging", "done"}]
      /\ found \in [Parts -> SUBSET Entity]
  BY DEF IInv, TypeOK
<1>2. ASSUME Merged' = Merged, nFound' = nFound
      PROVE  CountInv'
  BY <1>2 DEF CountInv
<1>3. ASSUME NEW p \in Parts, SearchPart(p)
      PROVE  CountInv'
  <2>1. PICK S \in Matches(p) : /\ found' = [found EXCEPT ![p] = S]
                                /\ pc' = [pc EXCEPT ![p] = IF S = {} THEN "done" ELSE "searched"]
    BY <1>3 DEF SearchPart
  <2>2. pc[p] = "queued" /\ nFound' = nFound
    BY <1>3 DEF SearchPart
  <2>3. \A q \in Parts : (IF pc'[q] = "done" THEN found'[q] ELSE {})
                           = IF pc[q] = "done" THEN found[q] ELSE {}
    BY <1>1, <2>1, <2>2
  <2>4. Merged' = Merged
    BY <2>3 DEF Merged
  <2> QED  BY <1>2, <2>2, <2>4
<1>4. ASSUME NEW p \in Parts, Lock(p)
      PROVE  CountInv'
  <2>1. pc' = [pc EXCEPT ![p] = "merging"] /\ pc[p] = "searched"
        /\ found' = found /\ nFound' = nFound
    BY <1>4 DEF Lock
  <2>2. \A q \in Parts : pc'[q] = "done" <=> pc[q] = "done"
    BY <1>1, <2>1
  <2>3. Merged' = Merged
    BY <2>1, <2>2 DEF Merged
  <2> QED  BY <1>2, <2>1, <2>3
<1>5. ASSUME UNCHANGED <<pc, found, nFound>>
      PROVE  CountInv'
  <2>1. Merged' = Merged
    BY <1>5 DEF Merged
  <2> QED  BY <1>2, <1>5, <2>1
<1>6. ASSUME NEW p \in Parts, Unlock(p)
      PROVE  CountInv'
  <2>1. pc[p] = "merging" /\ pc' = [pc EXCEPT ![p] = "done"] /\ found' = found
        /\ nFound' = nFound + Cardinality(found[p])
    BY <1>6 DEF Unlock
  <2>2. \A q \in Parts : pc'[q] = "done" <=> pc[q] = "done" \/ q = p
    BY <1>1, <2>1
  <2>3. Merged' = Merged \cup found[p]
    BY <2>1, <2>2 DEF Merged
  <2>4. IsFiniteSet(found[p])
    BY DEF IInv, PartsInv, Matches
  <2>5. Merged \cap found[p] = {}
    BY <2>1, NotCountedBefore
  <2>6. /\ IsFiniteSet(Merged \cup found[p])
        /\ Cardinality(Merged \cup found[p]) = Cardinality(Merged) + Cardinality(found[p])
    <3>1. Cardinality(Merged) \in Nat /\ Cardinality(found[p]) \in Nat
      BY <2>4, FS_CardinalityType DEF CountInv
    <3>2. /\ IsFiniteSet(Merged \cup found[p])
          /\ Cardinality(Merged \cup found[p])
               = Cardinality(Merged) + Cardinality(found[p]) - Cardinality(Merged \cap found[p])
      BY <2>4, FS_Union DEF CountInv
    <3> QED  BY <2>5, <3>1, <3>2, FS_EmptySet
  <2> QED  BY <2>1, <2>3, <2>6 DEF CountInv
<1> QED
  BY <1>3, <1>4, <1>5, <1>6 DEF Next, vars, InsertNew, InsertOver, Break
-----------------------------------------------------------------------------
(* The theorems.                                                           *)

(***************************************************************************)
(* The invariant holds in every reachable state of a merge, for every cut  *)
(* of the index and every schedule of the parts.                           *)
(***************************************************************************)
THEOREM Invariance == Spec => []IInv
<1>1. Init => IInv
  BY InitIInv
<1>2. IInv /\ [Next]_vars => IInv'
  BY NextIInv
<1> QED  BY <1>1, <1>2, PTL DEF Spec

(***************************************************************************)
(* The variables of a parallel search keep their types: the buffer of the  *)
(* common collector never outgrows what Create allocated for it.           *)
(***************************************************************************)
THEOREM TypeCorrect == Spec => []TypeOK
<1>1. IInv => TypeOK
  BY DEF IInv
<1> QED  BY <1>1, Invariance, PTL

(***************************************************************************)
(* Insert of collect-docs.cpp: the common collector holds, in order, the   *)
(* best nLimit of all that the parts gave it, for every cut of the index   *)
(* into disjoint sections, any number of parts and every order of merging. *)
(***************************************************************************)
THEOREM MergedIsBest == Spec => []MergedBest
<1>1. IInv => MergedBest
  BY DEF IInv
<1> QED  BY <1>1, Invariance, PTL

(***************************************************************************)
(* Insert and Abstracts::Set: the documents of the common collector and    *)
(* the abstracts stored for them are the same documents at all times.      *)
(***************************************************************************)
THEOREM QuotesAlwaysFollow == Spec => []QuotesFollow
<1>1. IInv => QuotesFollow
  BY DEF IInv
<1> QED  BY <1>1, Invariance, PTL

(***************************************************************************)
(* Once every part is done the collector counts every document found:      *)
(* each part adds its own documents once, under the mutex, and no document *)
(* lies in two sections.                                                   *)
(***************************************************************************)
THEOREM NothingCountedTwice == Spec => []CountsAll
<1>1. Init => CountInv
  BY InitCountInv
<1>2. IInv /\ CountInv /\ [Next]_vars => CountInv'
  BY CountStep
<1>3. IInv /\ CountInv => CountsAll
  <2> SUFFICES ASSUME CountInv, \A p \in Parts : pc[p] = "done"
               PROVE  nFound = Cardinality(UNION {found[p] : p \in Parts})
    BY DEF CountsAll
  <2>1. Merged = UNION {found[p] : p \in Parts}
    BY DEF Merged
  <2> QED  BY <2>1 DEF CountInv
<1> QED  BY <1>1, <1>2, <1>3, Invariance, PTL DEF Spec

\* In terms of the abstract specification: the buffer is a best selection.
LEMMA HeldIsBest ==
  ASSUME IInv
  PROVE  Promise!IsBest(Items(buffer), Given)
<1>1. /\ buffer \in Seq(Entity) /\ Sorted(buffer) /\ Len(buffer) <= nLimit
      /\ Items(buffer) \subseteq Given
      /\ Items(buffer) = Given \/ Len(buffer) = nLimit
      /\ \A e \in Items(buffer) : \A f \in Given \ Items(buffer) : Before(e, f)
  BY Typing DEF IInv, MergedBest, Collects
<1>2. Cardinality(Items(buffer)) = Len(buffer)
  BY <1>1, SortedIsDistinct, SizeOfDistinct DEF Items
<1>3. Promise!Cardinality(Items(buffer)) = Cardinality(Items(buffer))
  BY DEF Promise!Cardinality, Cardinality
<1> QED  BY <1>1, <1>2, <1>3 DEF Promise!IsBest

LEMMA GivenAreDocuments ==
  ASSUME IInv
  PROVE  Given \subseteq Entity
BY GivenInFound

\* No step takes back what the collector was given.
LEMMA GivenGrows ==
  ASSUME IInv, Next
  PROVE  Given \subseteq Given'
<1> USE DEF IInv
<1>1. ASSUME NEW p \in Parts, SearchPart(p)
      PROVE  Given \subseteq Given'
  <2>1. /\ pc[p] = "queued" /\ srcptr' = srcptr
        /\ \A q \in Parts : q # p => pc'[q] = pc[q] /\ found'[q] = found[q] /\ docs'[q] = docs[q]
    BY <1>1 DEF SearchPart, TypeOK
  <2> QED  BY <2>1, GivenMembers, GivenMembersNext
<1>2. ASSUME NEW p \in Parts, Lock(p)
      PROVE  Given \subseteq Given'
  <2>1. /\ \A q \in Parts : pc[q] # "merging"
        /\ pc[p] = "searched" /\ \A q \in Parts : q # p => pc'[q] = pc[q]
        /\ found' = found
    <3>1. \A q \in Parts : mxLock # {q}
      BY <1>2 DEF Lock
    <3> QED  BY <1>2, <3>1 DEF Lock, LockInv, TypeOK
  <2> QED  BY <2>1, GivenMembers, GivenMembersNext
<1>3. ASSUME NEW p \in Parts, InsertNew(p) \/ InsertOver(p) \/ Break(p)
      PROVE  Given \subseteq Given'
  <2>1. /\ pc[p] = "merging" /\ srcptr <= Len(docs[p])
        /\ UNCHANGED <<pc, found, docs, mxLock, nFound>>
    BY <1>3 DEF InsertNew, InsertOver, Break
  <2>2. srcptr' = srcptr + 1 \/ srcptr' = Len(docs[p]) + 1
    BY <1>3 DEF InsertNew, InsertOver, Break
  <2>3. srcptr' \in srcptr + 1 .. Len(docs[p]) + 1
    BY <2>1, <2>2, Typing
  <2> QED  BY <2>1, <2>3, MergeFrame
<1>4. ASSUME NEW p \in Parts, Unlock(p)
      PROVE  Given \subseteq Given'
  <2>1. /\ pc[p] = "merging" /\ srcptr > Len(docs[p]) /\ found' = found /\ docs' = docs
        /\ srcptr' = srcptr /\ pc'[p] = "done"
        /\ \A q \in Parts : q # p => pc'[q] = pc[q]
    BY <1>4 DEF Unlock, TypeOK
  <2>2. \A i \in 1 .. srcptr - 1 : docs[p][i] \in found[p]
    <3>1. srcptr = Len(docs[p]) + 1
      BY <2>1, Typing DEF PtrInv
    <3>2. \A i \in 1 .. srcptr - 1 : i \in 1 .. Len(docs[p])
      BY <3>1, Typing
    <3> QED  BY <3>2, Typing
  <2> QED  BY <2>1, <2>2, GivenMembers, GivenMembersNext
<1> QED  BY <1>1, <1>2, <1>3, <1>4 DEF Next

(***************************************************************************)
(* Searching part by part and merging under the mutex implements the       *)
(* promise of a collector: every step of every part gives the collector    *)
(* more documents and leaves it the best of them, or changes neither.      *)
(***************************************************************************)
THEOREM MergeKeepsPromise == Spec => ImplementsTopK
<1>1. Init => Promise!Init
  <2> SUFFICES ASSUME Init
               PROVE  Promise!Init
    OBVIOUS
  <2>1. \A f : f \notin Given
    BY GivenMembers DEF Init
  <2>2. Items(buffer) = {}
    BY DEF Init, Items
  <2> QED  BY <2>1, <2>2 DEF Promise!Init
<1>2. IInv /\ IInv' /\ [Next]_vars => [Promise!Next]_(Promise!vars)
  <2> SUFFICES ASSUME IInv, IInv', [Next]_vars
               PROVE  [Promise!Next]_(Promise!vars)
    OBVIOUS
  <2>1. CASE Next
    <3>1. Given \subseteq Given' /\ Given' \subseteq Entity
      <4>1. (IInv => Given \subseteq Entity)'
        BY GivenAreDocuments, PTL
      <4> QED  BY <2>1, <4>1, GivenGrows
    <3>2. Promise!IsBest(Items(buffer)', Given')
      <4>1. (IInv => Promise!IsBest(Items(buffer), Given))'
        BY HeldIsBest, PTL
      <4> QED  BY <4>1
    <3>3. Given' = Given \cup Given'
      BY <3>1
    <3>4. Items(buffer)' \in SUBSET Given'
      BY <3>2 DEF Promise!IsBest
    <3>5. Promise!Add(Given')
      BY <3>2, <3>3, <3>4 DEF Promise!Add
    <3> QED  BY <3>1, <3>5 DEF Promise!Next
  <2>2. CASE UNCHANGED vars
    BY <2>2 DEF vars, Promise!vars, Given, Items
  <2> QED  BY <2>1, <2>2
<1> QED  BY <1>1, <1>2, Invariance, PTL DEF Spec, ImplementsTopK, Promise!Spec

-----------------------------------------------------------------------------
(* What comes out does not depend on the schedule.                         *)

\* The same documents in order make the same list.
LEMMA SortedIsUnique ==
  ASSUME NEW a \in Seq(Entity), Sorted(a), NEW b \in Seq(Entity), Sorted(b),
         Items(a) = Items(b)
  PROVE  a = b
<1>1. /\ Len(a) \in Nat /\ \A i \in 1 .. Len(a) : a[i] \in Entity
      /\ Len(b) \in Nat /\ \A i \in 1 .. Len(b) : b[i] \in Entity
  BY LenProperties, ElementOfSeq
<1>2. Len(a) = Len(b)
  <2>1. Cardinality(Items(a)) = Len(a) /\ Cardinality(Items(b)) = Len(b)
    BY SortedIsDistinct, SizeOfDistinct DEF Items
  <2> QED  BY <2>1
<1> DEFINE S == {i \in 1 .. Len(a) : a[i] # b[i]}
<1>3. S = {}
  <2> SUFFICES ASSUME S # {} PROVE FALSE
    OBVIOUS
  <2>1. PICK m \in S : \A k \in S : m <= k
    <3>1. S \subseteq Nat
      BY <1>1
    <3> HIDE DEF S
    <3> QED  BY <3>1, LeastExists
  <2>2. m \in 1 .. Len(a) /\ m \in 1 .. Len(b) /\ a[m] # b[m]
    BY <1>2, <2>1
  <2>3. \A k \in 1 .. m - 1 : a[k] = b[k] /\ k \in 1 .. Len(a) /\ k \in 1 .. Len(b)
    BY <1>1, <1>2, <2>1
  <2>4. Before(b[m], a[m])
    <3>1. PICK j \in 1 .. Len(b) : b[j] = a[m]
      BY <2>2 DEF Items
    <3>2. j # m
      BY <2>2, <3>1
    <3>3. ~ (j < m)
      <4> SUFFICES ASSUME j < m PROVE FALSE
        OBVIOUS
      <4>1. j \in 1 .. m - 1
        BY <1>1, <2>2, <3>1
      <4>2. a[j] = a[m]
        BY <2>3, <3>1, <4>1
      <4> QED  BY <2>2, <2>3, <3>2, <4>1, <4>2, SortedIsDistinct
    <3>4. m < j
      BY <1>1, <2>2, <3>2, <3>3
    <3> QED  BY <2>2, <3>1, <3>4 DEF Sorted
  <2>5. Before(a[m], b[m])
    <3>1. PICK j \in 1 .. Len(a) : a[j] = b[m]
      BY <2>2 DEF Items
    <3>2. j # m
      BY <2>2, <3>1
    <3>3. ~ (j < m)
      <4> SUFFICES ASSUME j < m PROVE FALSE
        OBVIOUS
      <4>1. j \in 1 .. m - 1
        BY <1>1, <2>2, <3>1
      <4>2. b[j] = b[m]
        BY <2>3, <3>1, <4>1
      <4> QED  BY <2>2, <2>3, <3>2, <4>1, <4>2, SortedIsDistinct
    <3>4. m < j
      BY <1>1, <2>2, <3>2, <3>3
    <3> QED  BY <2>2, <3>1, <3>4 DEF Sorted
  <2>6. a[m] \in Entity /\ b[m] \in Entity
    BY <1>1, <2>2
  <2> QED  BY <2>4, <2>5, <2>6, BeforeTransitive, BeforeIrreflexive
<1>4. \A i \in 1 .. Len(a) : a[i] = b[i]
  BY <1>3
<1> QED  BY <1>2, <1>4, SeqEqual

(***************************************************************************)
(* Search of collect-docs.cpp: when every part is done the common buffer   *)
(* is the one list of at most nLimit documents, best first, that collects  *)
(* all that the parts found: the same for every cut of the index into      *)
(* sections, every order of the merges, and one collector given it all.    *)
(***************************************************************************)
ListIsDetermined ==
  (\A p \in Parts : pc[p] = "done") =>
    \A list \in Seq(Entity) :
      Len(list) <= nLimit /\ Collects(list, UNION {found[p] : p \in Parts}) <=> list = buffer

THEOREM OneListForEverySchedule == Spec => []ListIsDetermined
<1>1. Init => CountInv
  BY InitCountInv
<1>2. IInv /\ CountInv /\ [Next]_vars => CountInv'
  BY CountStep
<1>3. IInv /\ CountInv => ListIsDetermined
  <2> DEFINE all == UNION {found[p] : p \in Parts}
  <2> SUFFICES ASSUME IInv, CountInv, \A p \in Parts : pc[p] = "done", NEW list \in Seq(Entity)
               PROVE  Len(list) <= nLimit /\ Collects(list, all) <=> list = buffer
    BY DEF ListIsDetermined
  <2>1. all = Given
    BY GivenMembers
  <2>2. all = Merged /\ IsFiniteSet(all)
    BY DEF Merged, CountInv
  <2>3. \A e, f \in all : e.id = f.id => e = f
    BY FoundIsConsistent
  <2>4. all \subseteq Entity
    BY <2>1, GivenAreDocuments
  <2> HIDE DEF all
  <2>5. Collects(buffer, all) /\ Len(buffer) <= nLimit /\ buffer \in Seq(Entity)
    BY <2>1, Typing DEF IInv, MergedBest
  <2>6. ASSUME Len(list) <= nLimit, Collects(list, all)
        PROVE  list = buffer
    <3>1. Cardinality(Items(list)) = Len(list) /\ Cardinality(Items(buffer)) = Len(buffer)
      BY <2>5, <2>6, SortedIsDistinct, SizeOfDistinct DEF Items, Collects
    <3>2. Items(list) = Items(buffer)
      <4>1. /\ Items(list) \subseteq all /\ Cardinality(Items(list)) <= nLimit
            /\ Items(list) = all \/ Cardinality(Items(list)) = nLimit
            /\ \A e \in Items(list) : \A f \in all \ Items(list) : Before(e, f)
        BY <2>6, <3>1 DEF Collects
      <4>2. /\ Items(buffer) \subseteq all /\ Cardinality(Items(buffer)) <= nLimit
            /\ Items(buffer) = all \/ Cardinality(Items(buffer)) = nLimit
            /\ \A e \in Items(buffer) : \A f \in all \ Items(buffer) : Before(e, f)
        BY <2>5, <3>1 DEF Collects
      <4>3. nLimit \in Nat
        BY LimitAssumption
      <4> QED  BY <2>2, <2>3, <2>4, <4>1, <4>2, <4>3, BestIsOne
    <3> QED  BY <2>5, <2>6, <3>2, SortedIsUnique DEF Collects
  <2> QED  BY <2>5, <2>6
<1> QED  BY <1>1, <1>2, <1>3, Invariance, PTL DEF Spec

-----------------------------------------------------------------------------
(* What the end of every merge rests on.                                   *)

(***************************************************************************)
(* Insert of collect-docs.cpp: the loop of a merge is never stuck.  For    *)
(* the next document dstptr finds a place to stop, and there the loop is   *)
(* left, or the document goes in and the store of abstracts takes its      *)
(* copy: "Abstracts storage overflow" is never thrown under mxLock.        *)
(***************************************************************************)
MergeHasRoom ==
  \A p \in Parts : pc[p] = "merging" /\ srcptr <= Len(docs[p]) =>
    \E d \in 1 .. nLimit + 1 :
      /\ StopsAt(d, docs[p][srcptr])
      /\ \/ d = nLimit + 1
         \/ d <= nLimit /\ Len(buffer) < nLimit /\ CanSet(quoBox, nLimit, NoDoc)
         \/ d <= nLimit /\ Len(buffer) = nLimit /\ CanSet(quoBox, nLimit, buffer[nLimit].id)

THEOREM MergeAlwaysHasRoom == Spec => []MergeHasRoom
<1>1. IInv => MergeHasRoom
  <2> SUFFICES ASSUME IInv, NEW p \in Parts, pc[p] = "merging", srcptr <= Len(docs[p])
               PROVE  \E d \in 1 .. nLimit + 1 :
                        /\ StopsAt(d, docs[p][srcptr])
                        /\ \/ d = nLimit + 1
                           \/ d <= nLimit /\ Len(buffer) < nLimit /\ CanSet(quoBox, nLimit, NoDoc)
                           \/ d <= nLimit /\ Len(buffer) = nLimit /\ CanSet(quoBox, nLimit, buffer[nLimit].id)
    BY DEF MergeHasRoom
  <2> DEFINE e == docs[p][srcptr]
             S == {d \in dstptr .. Len(buffer) + 1 : d = Len(buffer) + 1 \/ ~ Before(buffer[d], e)}
  <2>1. /\ Len(buffer) \in Nat /\ Len(buffer) <= nLimit /\ nLimit \in Nat \ {0}
        /\ dstptr \in 1 .. Len(buffer) + 1
    BY Typing DEF IInv, PtrInv
  <2>2. PICK d \in S : \A k \in S : d <= k
    <3>1. S \subseteq Nat /\ Len(buffer) + 1 \in S
      BY <2>1
    <3> HIDE DEF S
    <3> QED  BY <3>1, LeastExists
  <2>3. d \in dstptr .. Len(buffer) + 1 /\ d \in 1 .. nLimit + 1
    BY <2>1, <2>2
  <2>4. \A q \in dstptr .. d - 1 : Before(buffer[q], e)
    <3> SUFFICES ASSUME NEW q \in dstptr .. d - 1, ~ Before(buffer[q], e) PROVE FALSE
      OBVIOUS
    <3>1. q \in S /\ q < d
      BY <2>1, <2>3
    <3> HIDE DEF S
    <3> QED  BY <2>1, <2>2, <2>3, <3>1
  <2>5. StopsAt(d, e)
    BY <2>2, <2>3, <2>4 DEF StopsAt
  <2>6. CASE d # nLimit + 1 /\ Len(buffer) < nLimit
    <3>1. CanSet(quoBox, nLimit, NoDoc)
      BY <2>6, Typing DEF CanSet
    <3> QED  BY <2>1, <2>3, <2>5, <2>6, <3>1
  <2>7. CASE d # nLimit + 1 /\ Len(buffer) = nLimit
    <3>1. buffer[nLimit] \in Items(buffer)
      BY <2>1, <2>7 DEF Items
    <3>2. PICK i \in 1 .. Len(quoBox) : quoBox[i].udocid = buffer[nLimit].id
      <4>1. buffer[nLimit].id \in {quoBox[i].udocid : i \in 1 .. Len(quoBox)}
        BY <3>1 DEF IInv, QuotesFollow
      <4> QED  BY <4>1
    <3>3. CanSet(quoBox, nLimit, buffer[nLimit].id)
      BY <3>2 DEF CanSet, ItemsUnder
    <3> QED  BY <2>1, <2>3, <2>5, <2>7, <3>3
  <2> QED  BY <2>1, <2>3, <2>5, <2>6, <2>7
<1> QED  BY <1>1, Invariance, PTL

(***************************************************************************)
(* mxLock is taken by a part that merges or by none: with MergeHasRoom, no *)
(* part waits for a mutex whose holder cannot go on.                       *)
(***************************************************************************)
MutexIsHeld == mxLock = {} \/ \E p \in Parts : mxLock = {p} /\ pc[p] = "merging"

THEOREM MutexHasOneHolder == Spec => []MutexIsHeld
<1>1. Init => MutexIsHeld
  BY DEF Init, MutexIsHeld
<1>2. IInv /\ MutexIsHeld /\ [Next]_vars => MutexIsHeld'
  <2> SUFFICES ASSUME IInv, MutexIsHeld, [Next]_vars
               PROVE  MutexIsHeld'
    OBVIOUS
  <2>1. pc \in [Parts -> {"queued", "searched", "merging", "done"}]
    BY DEF IInv, TypeOK
  <2>2. ASSUME NEW p \in Parts, SearchPart(p)
        PROVE  MutexIsHeld'
    <3>1. /\ mxLock' = mxLock /\ pc[p] = "queued"
          /\ \A q \in Parts : q # p => pc'[q] = pc[q]
      BY <2>1, <2>2 DEF SearchPart
    <3> QED  BY <3>1 DEF MutexIsHeld
  <2>3. ASSUME NEW p \in Parts, Lock(p)
        PROVE  MutexIsHeld'
    BY <2>1, <2>3 DEF Lock, MutexIsHeld
  <2>4. ASSUME NEW p \in Parts, Unlock(p)
        PROVE  MutexIsHeld'
    BY <2>4 DEF Unlock, MutexIsHeld
  <2>5. CASE UNCHANGED <<mxLock, pc>>
    BY <2>5 DEF MutexIsHeld
  <2> QED  BY <2>2, <2>3, <2>4, <2>5 DEF Next, InsertNew, InsertOver, Break, vars
<1> QED  BY <1>1, <1>2, Invariance, PTL DEF Spec

\* Part p comes nearer to its end: to its next stage, or further in docs.
Moves(p) ==
  \/ pc[p] = "queued" /\ pc'[p] \in {"searched", "done"}
  \/ pc[p] = "searched" /\ pc'[p] = "merging" /\ srcptr' = 1
  \/ pc[p] = "merging" /\ pc'[p] = "merging" /\ srcptr' \in srcptr + 1 .. Len(docs[p]) + 1
  \/ pc[p] = "merging" /\ pc'[p] = "done" /\ srcptr = Len(docs[p]) + 1

(***************************************************************************)
(* Insert of collect-docs.cpp: no step of a merge is lost.  Each takes one *)
(* part nearer to its end and none further from it, and a merge is over    *)
(* after as many steps as the part has documents: there is no run of the   *)
(* loop that only turns.                                                   *)
(***************************************************************************)
OneMoves == \E p \in Parts : Moves(p) /\ \A q \in Parts : q # p => pc'[q] = pc[q]

THEOREM EveryStepMoves == Spec => [][OneMoves]_vars
<1>1. IInv /\ [Next]_vars => OneMoves \/ UNCHANGED vars
  <2> SUFFICES ASSUME IInv, Next
               PROVE  OneMoves
    OBVIOUS
  <2>1. pc \in [Parts -> {"queued", "searched", "merging", "done"}]
    BY DEF IInv, TypeOK
  <2>2. PICK p \in Parts : SearchPart(p) \/ Lock(p) \/ InsertNew(p) \/ InsertOver(p) \/ Break(p) \/ Unlock(p)
    BY DEF Next
  <2>3. \A q \in Parts : q # p => pc'[q] = pc[q]
    BY <2>1, <2>2 DEF SearchPart, Lock, InsertNew, InsertOver, Break, Unlock
  <2> SUFFICES Moves(p)
    BY <2>3 DEF OneMoves
  <2>4. CASE SearchPart(p)
    BY <2>1, <2>4 DEF SearchPart, Moves
  <2>5. CASE Lock(p)
    BY <2>1, <2>5 DEF Lock, Moves
  <2>6. CASE InsertNew(p) \/ InsertOver(p) \/ Break(p)
    <3>1. /\ pc[p] = "merging" /\ srcptr <= Len(docs[p]) /\ pc' = pc
          /\ srcptr' = srcptr + 1 \/ srcptr' = Len(docs[p]) + 1
      BY <2>6 DEF InsertNew, InsertOver, Break
    <3>2. srcptr' \in srcptr + 1 .. Len(docs[p]) + 1
      BY <3>1, Typing
    <3> QED  BY <3>1, <3>2 DEF Moves
  <2>7. CASE Unlock(p)
    <3>1. pc[p] = "merging" /\ srcptr > Len(docs[p]) /\ pc'[p] = "done"
      BY <2>1, <2>7 DEF Unlock
    <3>2. srcptr = Len(docs[p]) + 1
      BY <3>1, Typing DEF IInv, PtrInv
    <3> QED  BY <3>1, <3>2 DEF Moves
  <2> QED  BY <2>2, <2>4, <2>5, <2>6, <2>7
<1> QED  BY <1>1, Invariance, PTL DEF Spec
=============================================================================

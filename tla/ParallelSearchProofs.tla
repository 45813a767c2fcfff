------------------------ MODULE ParallelSearchProofs ------------------------
(***************************************************************************)
(* What the counter of a shared search stands for, for every index, every  *)
(* section size, every number of threads and every schedule; and what the  *)
(* caller may rely on while it waits.                                      *)
(***************************************************************************)
EXTENDS ParallelSearch, FiniteSetTheorems, SequenceTheorems, TLAPS

-----------------------------------------------------------------------------
(* The sections cover the index.                                           *)

LEMMA ProductsGrow ==
  ASSUME NEW a \in Nat, NEW b \in Nat, NEW c \in Nat \ {0}, a * c < b * c
  PROVE  a < b
<1> SUFFICES ASSUME a >= b
             PROVE  FALSE
  OBVIOUS
<1>1. a * c >= b * c
  BY Z3
<1> QED  BY <1>1

LEMMA SectionOf ==
  ASSUME NEW d \in Nat
  PROVE  \E p \in Nat : d >= p * Section /\ d < (p + 1) * Section
<1> DEFINE p == d \div Section
<1>1. Section \in Nat /\ Section > 0
  BY SectionAssumption
<1>2. p \in Nat /\ d = (p * Section) + (d % Section) /\ d % Section \in 0 .. Section - 1
  <2>1. p \in Nat
    BY <1>1, Z3
  <2>2. d % Section \in 0 .. Section - 1
    BY <1>1, Z3
  <2>3. d = (Section * p) + (d % Section)
    BY <1>1, Z3
  <2> QED  BY <1>1, <2>1, <2>2, <2>3, Z3
<1> HIDE DEF p
<1>3. (p + 1) * Section = (p * Section) + Section /\ p * Section \in Nat
  BY <1>1, <1>2, Z3
<1>4. d >= p * Section /\ d < (p + 1) * Section
  BY <1>1, <1>2, <1>3
<1> QED  BY <1>2, <1>4

-----------------------------------------------------------------------------
(* The inductive invariant.                                                *)

\* Parts are shared in order: none from nloops on has an action, but for the
\* one that is counted and not yet given to the pool.
OrderInv ==
  /\ \A p \in Parts : p >= nloops => part[p] = "none" \/ (p = nloops /\ part[p] = "counted")
  /\ \A p \in Parts : part[p] = "counted" <=> caller = "insert" /\ p = nloops
  /\ caller = "insert" => nloops \in Parts

\* The queue of the pool holds the queued actions, each once.
QueueInv ==
  /\ \A i \in 1 .. Len(queue) : part[queue[i]] = "queued"
  /\ \A i, j \in 1 .. Len(queue) : queue[i] = queue[j] => i = j

\* While the collector is there, a part left behind without an action to
\* come has nothing to merge.
LeftBehind ==
  ~CollectorGone =>
    \A p \in Parts :
      p < nloops /\ part[p] \in {"none", "count", "notify", "done", "undefined", "dropped"} =>
        InSection(p) \subseteq given

\* The loop ends at the end of the index, where no match is left.
LoopInv ==
  /\ caller \in {"waiting", "woken"} => nloops * Section >= rBound
  /\ \A d \in hits : d < rBound

IInv ==
  /\ TypeOK
  /\ OrderInv
  /\ QueueInv
  /\ LeftBehind
  /\ LoopInv
  /\ PartsCounted

States == {"none", "counted", "queued", "search", "merge", "count", "notify", "done",
           "undefined", "dropped"}

LEMMA Finite ==
  /\ IsFiniteSet(Parts) /\ IsFiniteSet(Outstanding)
  /\ Cardinality(Outstanding) \in Nat
  /\ Parts \subseteq Nat
<1>1. IsFiniteSet(Parts)
  BY BoundAssumption, FS_Interval DEF Parts
<1>2. IsFiniteSet(Outstanding)
  BY <1>1, FS_Subset DEF Outstanding
<1>3. Cardinality(Outstanding) \in Nat
  BY <1>2, FS_CardinalityType
<1> QED  BY <1>1, <1>2, <1>3, BoundAssumption DEF Parts

LEMMA PartInBound ==
  ASSUME TypeOK, nloops * Section < rBound
  PROVE  nloops \in Parts
<1>1. /\ nloops \in Nat /\ rBound \in Nat /\ rBound <= MaxBound
      /\ Section \in Nat \ {0} /\ MaxBound \in Nat
  BY SectionAssumption, BoundAssumption DEF TypeOK
<1>2. nloops * Section >= nloops
  BY <1>1, Z3
<1> QED  BY <1>1, <1>2 DEF Parts

\* An action moves on without leaving or joining those outstanding.
LEMMA SameOutstanding ==
  ASSUME NEW p \in Parts, part \in [Parts -> States], NEW to \in States,
         part' = [part EXCEPT ![p] = to],
         part[p] \in {"counted", "queued", "search", "merge", "count"}
           <=> to \in {"counted", "queued", "search", "merge", "count"}
  PROVE  Outstanding' = Outstanding
BY DEF Outstanding

LEMMA InitIInv ==
  ASSUME Init
  PROVE  IInv
<1>1. TypeOK
  <2>1. hits \subseteq Nat
    BY HitsAssumption DEF Init
  <2>2. queue \in Seq(Parts) /\ part \in [Parts -> States]
    BY DEF Init, States
  <2>3. rBound \in 0 .. MaxBound /\ nloops = 0 /\ nParts = 0 /\ given = {} /\ early = FALSE
    BY DEF Init
  <2>4. nloops \in 0 .. MaxBound /\ nParts \in Nat
    BY <2>3, BoundAssumption
  <2>5. given \subseteq hits /\ early \in BOOLEAN
    BY <2>3
  <2>6. caller \in {"start", "loop", "insert", "waiting", "woken", "returned", "released", "left"}
    BY DEF Init
  <2> QED  BY <2>1, <2>2, <2>3, <2>4, <2>5, <2>6, Zenon DEF TypeOK, States
<1>2. OrderInv /\ QueueInv /\ LoopInv
  BY DEF Init, OrderInv, QueueInv, LoopInv
<1>3. LeftBehind
  BY Finite DEF Init, LeftBehind
<1>4. PartsCounted
  <2>1. Outstanding = {}
    BY DEF Init, Outstanding
  <2> QED  BY <2>1, FS_EmptySet DEF Init, PartsCounted
<1> QED  BY <1>1, <1>2, <1>3, <1>4 DEF IInv

-----------------------------------------------------------------------------
(* The steps of the caller.                                                *)

LEMMA SearchLinearStep ==
  ASSUME IInv, SearchLinear
  PROVE  IInv'
<1>1. /\ caller = "start" /\ given' = hits /\ caller' = "returned"
      /\ UNCHANGED <<rBound, hits, nloops, nParts, part, queue, early>>
  BY DEF SearchLinear
<1>2. TypeOK'
  BY <1>1 DEF IInv, TypeOK
<1>3. OrderInv' /\ QueueInv' /\ LoopInv' /\ PartsCounted'
  BY <1>1 DEF IInv, OrderInv, QueueInv, LoopInv, PartsCounted, FrameGone
<1>4. LeftBehind'
  BY <1>1 DEF IInv, LeftBehind, CollectorGone, InSection
<1> QED  BY <1>2, <1>3, <1>4 DEF IInv

\* The caller goes on without touching a part.
LEMMA CallerMoves ==
  ASSUME IInv, UNCHANGED <<rBound, hits, nloops, nParts, part, queue, given>>, early' \in BOOLEAN,
         caller' \in {"loop", "waiting", "woken", "returned", "released"}, caller # "insert",
         FrameGone => FrameGone', CollectorGone => CollectorGone',
         caller' \in {"waiting", "woken"} => nloops * Section >= rBound
  PROVE  IInv'
<1>1. TypeOK'
  BY DEF IInv, TypeOK
<1>2. OrderInv' /\ QueueInv' /\ LoopInv'
  BY DEF IInv, OrderInv, QueueInv, LoopInv
<1>3. LeftBehind'
  BY DEF IInv, LeftBehind, CollectorGone, InSection
<1>4. PartsCounted'
  BY DEF IInv, PartsCounted, Outstanding, FrameGone
<1> QED  BY <1>1, <1>2, <1>3, <1>4 DEF IInv

LEMMA LeaveStep ==
  ASSUME IInv, Leave
  PROVE  IInv'
<1>1. /\ caller = "released" /\ caller' = "left" /\ queue' = <<>>
      /\ part' = [p \in Parts |-> IF part[p] = "queued" THEN "dropped" ELSE part[p]]
      /\ UNCHANGED <<rBound, hits, nloops, nParts, given, early>>
  BY DEF Leave
<1>2. TypeOK'
  BY <1>1 DEF IInv, TypeOK
<1>3. OrderInv'
  BY <1>1 DEF IInv, OrderInv
<1>4. QueueInv'
  BY <1>1 DEF QueueInv
<1>5. LeftBehind' /\ LoopInv' /\ PartsCounted'
  BY <1>1 DEF IInv, LeftBehind, CollectorGone, LoopInv, PartsCounted, FrameGone
<1> QED  BY <1>2, <1>3, <1>4, <1>5 DEF IInv

LEMMA SkipPartStep ==
  ASSUME IInv, SkipPart
  PROVE  IInv'
<1>1. /\ caller = "loop" /\ nloops * Section < rBound /\ InSection(nloops) = {}
      /\ nloops' = nloops + 1
      /\ UNCHANGED <<rBound, hits, caller, nParts, part, queue, given, early>>
  BY DEF SkipPart
<1>2. nloops \in Parts /\ nloops \in Nat
  BY <1>1, PartInBound, Finite DEF IInv
<1>3. TypeOK'
  BY <1>1, <1>2, BoundAssumption DEF IInv, TypeOK, Parts
<1>4. OrderInv'
  BY <1>1, <1>2, Finite DEF IInv, OrderInv
<1>5. QueueInv' /\ LoopInv' /\ PartsCounted'
  BY <1>1 DEF IInv, QueueInv, LoopInv, PartsCounted, Outstanding, FrameGone
<1>6. LeftBehind'
  <2> SUFFICES ASSUME NEW p \in Parts, p < nloops + 1, ~CollectorGone,
                      part[p] \in {"none", "count", "notify", "done", "undefined", "dropped"}
               PROVE  InSection(p) \subseteq given
    BY <1>1 DEF IInv, LeftBehind, CollectorGone, InSection
  <2>1. CASE p = nloops
    BY <1>1, <2>1
  <2>2. CASE p < nloops
    BY <2>2 DEF IInv, LeftBehind, CollectorGone
  <2> QED  BY <1>2, <2>1, <2>2, Finite
<1> QED  BY <1>3, <1>4, <1>5, <1>6 DEF IInv

LEMMA CountPartStep ==
  ASSUME IInv, CountPart
  PROVE  IInv'
<1>1. /\ caller = "loop" /\ nloops * Section < rBound /\ nParts' = nParts + 1
      /\ part' = [part EXCEPT ![nloops] = "counted"] /\ caller' = "insert"
      /\ early' \in BOOLEAN /\ UNCHANGED <<rBound, hits, nloops, queue, given>>
  BY DEF CountPart, IInv, TypeOK
<1>2. nloops \in Parts /\ nloops \in Nat /\ part[nloops] = "none"
  <2>1. nloops \in Parts /\ nloops \in Nat
    BY <1>1, PartInBound, Finite DEF IInv
  <2> QED  BY <1>1, <2>1 DEF IInv, OrderInv
<1>3. part \in [Parts -> States] /\ nParts \in Nat /\ queue \in Seq(Parts)
  BY DEF IInv, TypeOK, States
<1>4. part'[nloops] = "counted" /\ \A p \in Parts : p # nloops => part'[p] = part[p]
  BY <1>1, <1>2, <1>3
<1>5. TypeOK'
  <2>1. part' \in [Parts -> States] /\ nParts' \in Nat
    BY <1>1, <1>2, <1>3 DEF States
  <2> QED  BY <1>1, <2>1 DEF IInv, TypeOK, States
<1>6. OrderInv'
  BY <1>1, <1>2, <1>4 DEF IInv, OrderInv
<1>7. QueueInv'
  BY <1>1, <1>2, <1>3, <1>4, ElementOfSeq DEF IInv, QueueInv
<1>8. LoopInv'
  BY <1>1 DEF IInv, LoopInv
<1>9. LeftBehind'
  BY <1>1, <1>4 DEF IInv, LeftBehind, CollectorGone, InSection
<1>10. PartsCounted'
  <2>1. Outstanding' = Outstanding \cup {nloops} /\ nloops \notin Outstanding
    BY <1>2, <1>4 DEF Outstanding
  <2>2. Cardinality(Outstanding') = Cardinality(Outstanding) + 1
    BY <2>1, Finite, FS_AddElement
  <2> QED  BY <1>1, <2>2 DEF IInv, PartsCounted, FrameGone
<1> QED  BY <1>5, <1>6, <1>7, <1>8, <1>9, <1>10 DEF IInv

LEMMA EnqueueStep ==
  ASSUME IInv, Enqueue
  PROVE  IInv'
<1>1. /\ caller = "insert" /\ queue' = Append(queue, nloops)
      /\ part' = [part EXCEPT ![nloops] = "queued"]
      /\ nloops' = nloops + 1 /\ caller' = "loop"
      /\ UNCHANGED <<rBound, hits, nParts, given, early>>
  BY DEF Enqueue
<1>2. nloops \in Parts /\ nloops \in Nat /\ part[nloops] = "counted"
  BY <1>1, Finite DEF IInv, OrderInv
<1>3. part \in [Parts -> States] /\ queue \in Seq(Parts)
  BY DEF IInv, TypeOK, States
<1>4. part'[nloops] = "queued" /\ \A p \in Parts : p # nloops => part'[p] = part[p]
  BY <1>1, <1>2, <1>3
<1>5. TypeOK'
  BY <1>1, <1>2, <1>3, BoundAssumption DEF IInv, TypeOK, Parts
<1>6. OrderInv'
  BY <1>1, <1>2, <1>4, Finite DEF IInv, OrderInv
<1>7. QueueInv'
  <2>1. /\ Len(queue') = Len(queue) + 1 /\ Len(queue) \in Nat
        /\ \A i \in 1 .. Len(queue) : queue'[i] = queue[i] /\ queue[i] \in Parts
        /\ queue'[Len(queue) + 1] = nloops
    BY <1>1, <1>2, <1>3, ElementOfSeq, LenProperties
  <2>2. \A i \in 1 .. Len(queue) : queue[i] # nloops
    BY <1>2 DEF IInv, QueueInv
  <2>3. \A i \in 1 .. Len(queue') : i \in 1 .. Len(queue) \/ i = Len(queue) + 1
    BY <2>1
  <2> QED  BY <1>4, <2>1, <2>2, <2>3 DEF IInv, QueueInv
<1>8. LoopInv'
  BY <1>1 DEF IInv, LoopInv
<1>9. LeftBehind'
  BY <1>1, <1>2, <1>4, Finite DEF IInv, LeftBehind, CollectorGone, InSection
<1>10. PartsCounted'
  <2>1. Outstanding' = Outstanding
    BY <1>1, <1>2, <1>3, SameOutstanding DEF States
  <2> QED  BY <1>1, <2>1 DEF IInv, PartsCounted, FrameGone
<1> QED  BY <1>5, <1>6, <1>7, <1>8, <1>9, <1>10 DEF IInv

-----------------------------------------------------------------------------
(* The steps of an action of the pool.                                     *)

\* What does not depend on which step an action with a part makes.
LEMMA ActionMoves ==
  ASSUME IInv, NEW p \in Parts, NEW to \in States,
         part[p] \notin {"none", "counted", "queued"}, to \notin {"none", "counted", "queued"},
         part' = [part EXCEPT ![p] = to],
         UNCHANGED <<rBound, hits, nloops, queue, early>>,
         given \subseteq given', given' \subseteq hits,
         nParts' \in Nat,
         caller' = caller \/ (caller = "waiting" /\ caller' = "woken"),
         to \in {"count", "notify", "done", "undefined", "dropped"} /\ ~CollectorGone => InSection(p) \subseteq given'
  PROVE  /\ TypeOK' /\ OrderInv' /\ QueueInv' /\ LeftBehind' /\ LoopInv'
         /\ part'[p] = to /\ \A q \in Parts : q # p => part'[q] = part[q]
<1>1. part \in [Parts -> States] /\ queue \in Seq(Parts)
  BY DEF IInv, TypeOK, States
<1>2. part'[p] = to /\ \A q \in Parts : q # p => part'[q] = part[q]
  BY <1>1
<1>3. TypeOK'
  BY <1>1 DEF IInv, TypeOK, States
<1>4. OrderInv'
  BY <1>2 DEF IInv, OrderInv
<1>5. QueueInv'
  <2>1. \A i \in 1 .. Len(queue) : queue[i] \in Parts /\ queue[i] # p
    BY <1>1, ElementOfSeq DEF IInv, QueueInv
  <2> QED  BY <1>2, <2>1 DEF IInv, QueueInv
<1>6. LeftBehind'
  BY <1>2 DEF IInv, LeftBehind, CollectorGone, InSection
<1>7. LoopInv'
  BY DEF IInv, LoopInv
<1> QED  BY <1>2, <1>3, <1>4, <1>5, <1>6, <1>7

LEMMA StartStep ==
  ASSUME IInv, NEW p \in Parts, Start(p)
  PROVE  IInv'
<1>1. /\ queue # <<>> /\ p = Head(queue) /\ queue' = Tail(queue)
      /\ part' = [part EXCEPT ![p] = "search"]
      /\ UNCHANGED <<rBound, hits, caller, nloops, nParts, given, early>>
  BY DEF Start
<1>2. part \in [Parts -> States] /\ queue \in Seq(Parts)
  BY DEF IInv, TypeOK, States
<1>3. /\ Len(queue) \in Nat /\ 1 \in 1 .. Len(queue) /\ queue[1] = p
      /\ queue' \in Seq(Parts) /\ Len(queue') = Len(queue) - 1
      /\ \A i \in 1 .. Len(queue') : i + 1 \in 1 .. Len(queue) /\ queue'[i] = queue[i + 1]
  BY <1>1, <1>2, HeadTailProperties, LenProperties, EmptySeq
<1>4. part[p] = "queued" /\ part'[p] = "search" /\ \A q \in Parts : q # p => part'[q] = part[q]
  BY <1>1, <1>2, <1>3 DEF IInv, QueueInv
<1>5. TypeOK'
  BY <1>1, <1>2, <1>3 DEF IInv, TypeOK, States
<1>6. OrderInv'
  BY <1>1, <1>4 DEF IInv, OrderInv
<1>7. QueueInv'
  <2>1. \A i \in 1 .. Len(queue') : queue[i + 1] # p /\ queue[i + 1] \in Parts
    BY <1>2, <1>3, ElementOfSeq DEF IInv, QueueInv
  <2>2. /\ \A i \in 1 .. Len(queue) : part[queue[i]] = "queued"
        /\ \A i, j \in 1 .. Len(queue) : queue[i] = queue[j] => i = j
    BY DEF IInv, QueueInv
  <2>3. ASSUME NEW i \in 1 .. Len(queue')
        PROVE  part'[queue'[i]] = "queued"
    <3>1. i + 1 \in 1 .. Len(queue) /\ queue'[i] = queue[i + 1]
      BY <1>3
    <3>2. part'[queue[i + 1]] = part[queue[i + 1]]
      BY <1>4, <2>1
    <3> QED  BY <2>2, <3>1, <3>2
  <2>4. ASSUME NEW i \in 1 .. Len(queue'), NEW j \in 1 .. Len(queue'), queue'[i] = queue'[j]
        PROVE  i = j
    <3>1. i + 1 \in 1 .. Len(queue) /\ j + 1 \in 1 .. Len(queue) /\ queue[i + 1] = queue[j + 1]
      BY <1>3, <2>4
    <3>2. i + 1 = j + 1
      BY <2>2, <3>1
    <3> QED  BY <3>2
  <2> QED  BY <2>3, <2>4 DEF QueueInv
<1>8. LeftBehind' /\ LoopInv'
  BY <1>1, <1>4 DEF IInv, LeftBehind, CollectorGone, LoopInv, InSection
<1>9. PartsCounted'
  <2>1. Outstanding' = Outstanding
    BY <1>1, <1>2, <1>4, SameOutstanding DEF States
  <2> QED  BY <1>1, <2>1 DEF IInv, PartsCounted, FrameGone
<1> QED  BY <1>5, <1>6, <1>7, <1>8, <1>9 DEF IInv

LEMMA SearchPartStep ==
  ASSUME IInv, NEW p \in Parts, SearchPart(p)
  PROVE  IInv'
<1> DEFINE to == IF InSection(p) = {} THEN "count" ELSE "merge"
<1>1. /\ part[p] = "search" /\ part' = [part EXCEPT ![p] = to]
      /\ UNCHANGED <<rBound, hits, caller, nloops, nParts, queue, given, early>>
  BY DEF SearchPart
<1>2. to \in {"count", "merge"} /\ (to = "count" => InSection(p) = {})
  OBVIOUS
<1> HIDE DEF to
<1>3. TypeOK' /\ OrderInv' /\ QueueInv' /\ LeftBehind' /\ LoopInv'
  BY <1>1, <1>2, ActionMoves DEF IInv, TypeOK, States
<1>4. PartsCounted'
  <2>1. Outstanding' = Outstanding
    BY <1>1, <1>2, SameOutstanding DEF IInv, TypeOK, States
  <2> QED  BY <1>1, <2>1 DEF IInv, PartsCounted, FrameGone
<1> QED  BY <1>3, <1>4 DEF IInv

LEMMA MergeStep ==
  ASSUME IInv, NEW p \in Parts, Merge(p)
  PROVE  IInv'
<1>1. /\ part[p] = "merge" /\ ~CollectorGone /\ part' = [part EXCEPT ![p] = "count"]
      /\ given' = given \cup InSection(p)
      /\ UNCHANGED <<rBound, hits, caller, nloops, nParts, queue, early>>
  BY DEF Merge
<1>2. given' \subseteq hits /\ nParts' \in Nat
  BY <1>1 DEF IInv, TypeOK, InSection
<1>3. TypeOK' /\ OrderInv' /\ QueueInv' /\ LeftBehind' /\ LoopInv'
  BY <1>1, <1>2, ActionMoves DEF States
<1>4. PartsCounted'
  <2>1. Outstanding' = Outstanding
    BY <1>1, SameOutstanding DEF IInv, TypeOK, States
  <2> QED  BY <1>1, <2>1 DEF IInv, PartsCounted, FrameGone
<1> QED  BY <1>3, <1>4 DEF IInv

LEMMA CountOffStep ==
  ASSUME IInv, NEW p \in Parts, CountOff(p)
  PROVE  IInv'
<1> DEFINE to == IF nParts = 1 THEN "notify" ELSE "done"
<1>1. /\ part[p] = "count" /\ ~FrameGone /\ ~CollectorGone /\ nParts' = nParts - 1
      /\ part' = [part EXCEPT ![p] = to]
      /\ UNCHANGED <<rBound, hits, caller, nloops, queue, given, early>>
  BY DEF CountOff, FrameGone, CollectorGone
<1>2. to \in {"notify", "done"}
  OBVIOUS
<1> HIDE DEF to
<1>3. nParts = Cardinality(Outstanding) /\ p \in Outstanding
  BY <1>1 DEF IInv, PartsCounted, Outstanding, FrameGone
<1>4. Cardinality(Outstanding \ {p}) = nParts - 1 /\ Cardinality(Outstanding \ {p}) \in Nat
  <2>1. IsFiniteSet(Outstanding \ {p})
    BY Finite, FS_Subset
  <2> QED  BY <1>3, <2>1, Finite, FS_RemoveElement, FS_CardinalityType
<1>5. InSection(p) \subseteq given
  <2>1. p < nloops
    BY <1>1, BoundAssumption DEF IInv, OrderInv, TypeOK, Parts
  <2> QED  BY <1>1, <2>1 DEF IInv, LeftBehind, CollectorGone
<1>6. /\ TypeOK' /\ OrderInv' /\ QueueInv' /\ LeftBehind' /\ LoopInv'
      /\ part'[p] = to /\ \A q \in Parts : q # p => part'[q] = part[q]
  <2>1. given' \subseteq hits /\ given \subseteq given' /\ InSection(p) \subseteq given'
    BY <1>1, <1>5 DEF IInv, TypeOK
  <2>2. nParts' \in Nat /\ to \in States
    BY <1>1, <1>2, <1>4 DEF States
  <2>3. /\ part[p] \notin {"none", "counted", "queued"} /\ to \notin {"none", "counted", "queued"}
    BY <1>1, <1>2
  <2> QED  BY <1>1, <2>1, <2>2, <2>3, ActionMoves
<1>7. PartsCounted'
  <2>1. Outstanding' = Outstanding \ {p}
    BY <1>2, <1>6 DEF Outstanding
  <2> QED  BY <1>1, <1>4, <2>1 DEF PartsCounted, FrameGone
<1> QED  BY <1>6, <1>7 DEF IInv

LEMMA UseDeadStep ==
  ASSUME IInv, NEW p \in Parts, UseDead(p)
  PROVE  IInv'
<1>1. PICK to \in {"done", "undefined"} : part' = [part EXCEPT ![p] = to]
  BY DEF UseDead
<1>2. /\ part[p] \in {"merge", "count", "notify"} /\ FrameGone
      /\ part[p] = "merge" => CollectorGone
      /\ UNCHANGED <<rBound, hits, caller, nloops, nParts, queue, given, early>>
  BY DEF UseDead, FrameGone, CollectorGone
<1>3. ~CollectorGone => InSection(p) \subseteq given
  <2>1. p < nloops
    BY <1>2, BoundAssumption DEF IInv, OrderInv, TypeOK, Parts
  <2> QED  BY <1>2, <2>1 DEF IInv, LeftBehind, CollectorGone
<1>4. TypeOK' /\ OrderInv' /\ QueueInv' /\ LeftBehind' /\ LoopInv'
  <2>1. given' \subseteq hits /\ given \subseteq given' /\ nParts' \in Nat
    BY <1>2 DEF IInv, TypeOK
  <2>2. to \in States /\ to \notin {"none", "counted", "queued"}
    BY DEF States
  <2> QED  BY <1>1, <1>2, <1>3, <2>1, <2>2, ActionMoves
<1>5. PartsCounted'
  BY <1>2 DEF PartsCounted, FrameGone
<1> QED  BY <1>4, <1>5 DEF IInv

LEMMA NotifyStep ==
  ASSUME IInv, NEW p \in Parts, Notify(p)
  PROVE  IInv'
<1>1. /\ part[p] = "notify" /\ ~FrameGone /\ ~CollectorGone /\ part' = [part EXCEPT ![p] = "done"]
      /\ caller' = (IF caller = "waiting" THEN "woken" ELSE caller)
      /\ UNCHANGED <<rBound, hits, nloops, nParts, queue, given, early>>
  BY DEF Notify, FrameGone, CollectorGone
<1>2. InSection(p) \subseteq given
  <2>1. p < nloops
    BY <1>1, BoundAssumption DEF IInv, OrderInv, TypeOK, Parts
  <2> QED  BY <1>1, <2>1 DEF IInv, LeftBehind, CollectorGone
<1>3. TypeOK' /\ OrderInv' /\ QueueInv' /\ LeftBehind' /\ LoopInv'
  <2>1. given' \subseteq hits /\ given \subseteq given' /\ InSection(p) \subseteq given' /\ nParts' \in Nat
    BY <1>1, <1>2 DEF IInv, TypeOK
  <2> QED  BY <1>1, <2>1, ActionMoves DEF States
<1>4. PartsCounted'
  <2>1. Outstanding' = Outstanding
    BY <1>1, SameOutstanding DEF IInv, TypeOK, States
  <2> QED  BY <1>1, <2>1 DEF IInv, PartsCounted, FrameGone
<1> QED  BY <1>3, <1>4 DEF IInv

-----------------------------------------------------------------------------
LEMMA NextIInv ==
  ASSUME IInv, [Next]_vars
  PROVE  IInv'
<1>1. CASE SearchLinear
  BY <1>1, SearchLinearStep
<1>2. CASE Share \/ Wait \/ Return \/ Release \/ SpuriousWakeup
  BY <1>2, CallerMoves DEF Share, Wait, Return, Release, SpuriousWakeup, IInv, LoopInv, TypeOK,
                           FrameGone, CollectorGone
<1>3. CASE SkipPart
  BY <1>3, SkipPartStep
<1>4. CASE CountPart
  BY <1>4, CountPartStep
<1>5. CASE Enqueue
  BY <1>5, EnqueueStep
<1>6. CASE Leave
  BY <1>6, LeaveStep
<1>7. ASSUME NEW p \in Parts, Action(p)
      PROVE  IInv'
  <2>1. CASE Start(p)
    BY <2>1, StartStep
  <2>2. CASE SearchPart(p)
    BY <2>2, SearchPartStep
  <2>3. CASE Merge(p)
    BY <2>3, MergeStep
  <2>4. CASE CountOff(p)
    BY <2>4, CountOffStep
  <2>5. CASE UseDead(p)
    BY <2>5, UseDeadStep
  <2>6. CASE Notify(p)
    BY <2>6, NotifyStep
  <2> QED  BY <1>7, <2>1, <2>2, <2>3, <2>4, <2>5, <2>6 DEF Action
<1>8. CASE UNCHANGED vars
  BY <1>8 DEF vars, IInv, TypeOK, OrderInv, QueueInv, LeftBehind, LoopInv, PartsCounted,
              InSection, Outstanding, FrameGone, CollectorGone
<1> QED  BY <1>1, <1>2, <1>3, <1>4, <1>5, <1>6, <1>7, <1>8 DEF Next, Caller

(***************************************************************************)
(* The invariant holds in every reachable state of a shared search, for    *)
(* every index, section size, number of threads and schedule.              *)
(***************************************************************************)
THEOREM Invariance == Spec => []IInv
<1>1. Init => IInv
  BY InitIInv
<1>2. IInv /\ [Next]_vars => IInv'
  BY NextIInv
<1> QED  BY <1>1, <1>2, PTL DEF Spec

(***************************************************************************)
(* The variables of a shared search keep their types: nParts never falls   *)
(* below zero, and the collector is given matches of the query only.       *)
(***************************************************************************)
THEOREM TypeCorrect == Spec => []TypeOK
<1>1. IInv => TypeOK
  BY DEF IInv
<1> QED  BY <1>1, Invariance, PTL

(***************************************************************************)
(* Search of collect-docs.cpp: until it returns, nParts is the number of   *)
(* actions given to the pool that have not counted themselves off.         *)
(***************************************************************************)
THEOREM CounterIsExact == Spec => []PartsCounted
<1>1. IInv => PartsCounted
  BY DEF IInv
<1> QED  BY <1>1, Invariance, PTL

LEMMA ZeroMerges ==
  ASSUME IInv
  PROVE  ZeroMeansMerged
<1> SUFFICES ASSUME caller \in {"waiting", "woken"}, nParts = 0, NEW d \in hits
             PROVE  d \in given
  BY DEF ZeroMeansMerged, IInv, TypeOK
<1>1. /\ d \in Nat /\ d < rBound /\ rBound \in Nat /\ rBound <= MaxBound
      /\ nloops \in Nat /\ nloops <= MaxBound /\ rBound <= nloops * Section
      /\ Section \in Nat \ {0} /\ MaxBound \in Nat
  BY SectionAssumption, BoundAssumption DEF IInv, TypeOK, LoopInv
<1>2. PICK p \in Nat : d >= p * Section /\ d < (p + 1) * Section
  BY <1>1, SectionOf
<1>3. p < nloops
  <2>1. p * Section \in Nat /\ nloops * Section \in Nat
    BY <1>1, Z3
  <2>2. p * Section < nloops * Section
    BY <1>1, <1>2, <2>1
  <2> QED  BY <1>1, <2>2, ProductsGrow
<1>4. p \in Parts
  BY <1>1, <1>3 DEF Parts
<1>5. part[p] \in {"none", "notify", "done", "undefined", "dropped"}
  <2>1. Outstanding = {}
    <3>1. Cardinality(Outstanding) = 0
      BY DEF IInv, PartsCounted, FrameGone
    <3> QED  BY <3>1, Finite, FS_EmptySet
  <2> QED  BY <1>4, <2>1 DEF Outstanding, IInv, TypeOK
<1>6. InSection(p) \subseteq given
  BY <1>3, <1>4, <1>5 DEF IInv, LeftBehind, CollectorGone
<1> QED  BY <1>2, <1>6 DEF InSection

(***************************************************************************)
(* Search of collect-docs.cpp: with the loop over and nParts at zero, all  *)
(* that matches the query was merged, for every length of the index.  So   *)
(* a wait with that predicate would be right; what fails is only the wait  *)
(* the code makes, without one.                                            *)
(***************************************************************************)
THEOREM ZeroIsEnough == Spec => []ZeroMeansMerged
<1> QED  BY ZeroMerges, Invariance, PTL

-----------------------------------------------------------------------------
(* What Search may count on while it waits.                                *)

\* Search waits and a notification is still to come: an action has yet to
\* count itself off, or the one that took nParts to zero to notify.
Promised == caller = "waiting" /\ (nParts > 0 \/ \E p \in Parts : part[p] = "notify")

(***************************************************************************)
(* Search of collect-docs.cpp: a notification that is still to come is not *)
(* lost.  Until the caller is woken, no step of any action, in any order,  *)
(* takes nParts to zero without an action left to notify.                  *)
(***************************************************************************)
PromiseStands == Promised => Promised' \/ caller' # "waiting"

THEOREM WakeIsNotLost == Spec => [][PromiseStands]_vars
<1>1. IInv /\ [Next]_vars => PromiseStands \/ UNCHANGED vars
  <2> SUFFICES ASSUME IInv, Next, Promised, caller' = "waiting"
               PROVE  Promised'
    BY DEF PromiseStands
  <2>1. caller = "waiting" /\ nParts \in Nat /\ part \in [Parts -> States]
    BY DEF Promised, IInv, TypeOK, States
  <2>2. PICK p \in Parts : Action(p)
    BY <2>1 DEF Next, Caller, SearchLinear, Share, SkipPart, CountPart, Enqueue, Wait, Return,
                Release, Leave, SpuriousWakeup
  <2>3. CASE Start(p) \/ SearchPart(p) \/ Merge(p)
    <3>1. PICK to \in States : part' = [part EXCEPT ![p] = to]
      BY <2>3 DEF Start, SearchPart, Merge, States
    <3>2. part[p] # "notify" /\ nParts' = nParts
      <4>1. CASE Start(p)
        <5>1. queue \in Seq(Parts) /\ queue # <<>> /\ p = Head(queue)
          BY <4>1 DEF Start, IInv, TypeOK
        <5>2. 1 \in 1 .. Len(queue) /\ queue[1] = p
          BY <5>1, Z3
        <5> QED  BY <4>1, <5>2 DEF Start, IInv, QueueInv
      <4> QED  BY <2>3, <4>1 DEF SearchPart, Merge
    <3>3. \A q \in Parts : part[q] = "notify" => part'[q] = "notify"
      BY <2>1, <3>1, <3>2
    <3> QED  BY <3>2, <3>3 DEF Promised
  <2>4. CASE CountOff(p)
    <3>1. nParts = 1 => part'[p] = "notify"
      BY <2>1, <2>4 DEF CountOff
    <3>2. nParts' = nParts - 1 /\ part[p] = "count"
      BY <2>4 DEF CountOff
    <3>3. nParts > 0
      <4>1. p \in Outstanding
        BY <3>2 DEF Outstanding
      <4>2. nParts # 0
        BY <2>1, <4>1, Finite, FS_EmptySet DEF IInv, PartsCounted, FrameGone
      <4> QED  BY <2>1, <4>2
    <3>4. nParts = 1 \/ nParts' > 0
      BY <2>1, <3>2, <3>3
    <3> QED  BY <3>1, <3>4 DEF Promised
  <2>5. CASE UseDead(p) \/ Notify(p)
    BY <2>1, <2>5 DEF UseDead, Notify, FrameGone, CollectorGone
  <2> QED  BY <2>2, <2>3, <2>4, <2>5 DEF Action
<1> QED  BY <1>1, Invariance, PTL DEF Spec

-----------------------------------------------------------------------------
(* Who may still use what Search takes away.                               *)

\* An action about to notify is the last one, unless a part was counted or
\* the caller let go meanwhile.
NotifyOnce ==
  ~early /\ ~FrameGone =>
    \A p \in Parts : part[p] = "notify" =>
      nParts = 0 /\ \A q \in Parts \ {p} : part[q] \in {"none", "done"}

\* The caller woken by the last action finds nobody left.
WokenOnce ==
  ~early /\ (caller = "woken" \/ FrameGone) =>
    given = hits /\ \A p \in Parts : part[p] \in {"none", "done"}

OnTime ==
  /\ NotifyOnce
  /\ WokenOnce
  /\ ~FrameGone => \A p \in Parts : part[p] \notin {"undefined", "dropped"}
  /\ caller = "start" => nloops = 0

LEMMA InitOnTime ==
  ASSUME Init
  PROVE  OnTime
BY DEF Init, OnTime, NotifyOnce, WokenOnce, FrameGone

LEMMA CallerOnTime ==
  ASSUME IInv, OnTime, Caller \/ SpuriousWakeup
  PROVE  OnTime'
<1>1. part \in [Parts -> States] /\ caller = "start" => \A p \in Parts : part[p] = "none"
  BY Finite DEF IInv, OnTime, OrderInv, TypeOK
<1>2. CASE SearchLinear
  BY <1>1, <1>2 DEF SearchLinear, OnTime, NotifyOnce, WokenOnce, FrameGone, IInv, TypeOK, States
<1>3. CASE Share \/ SkipPart \/ Wait
  BY <1>3 DEF Share, SkipPart, Wait, OnTime, NotifyOnce, WokenOnce, FrameGone
<1>4. CASE CountPart
  <2>1. part \in [Parts -> States] /\ nloops \in Parts
    BY <1>4, PartInBound DEF CountPart, IInv, TypeOK, States
  <2>2. part'[nloops] = "counted" /\ \A p \in Parts \ {nloops} : part'[p] = part[p]
    BY <1>4, <2>1 DEF CountPart
  <2>3. ~early' => ~early /\ \A p \in Parts : part[p] # "notify"
    BY <1>4 DEF CountPart
  <2> QED  BY <1>4, <2>1, <2>2, <2>3 DEF CountPart, OnTime, NotifyOnce, WokenOnce, FrameGone
<1>5. CASE Enqueue
  <2>1. part \in [Parts -> States] /\ nloops \in Parts /\ part[nloops] = "counted"
    BY <1>5 DEF Enqueue, IInv, TypeOK, States, OrderInv
  <2>2. part'[nloops] = "queued" /\ \A p \in Parts \ {nloops} : part'[p] = part[p]
    BY <1>5, <2>1 DEF Enqueue
  <2>3. ~early => \A p \in Parts : part[p] # "notify"
    BY <1>5, <2>1 DEF Enqueue, OnTime, NotifyOnce, FrameGone
  <2> QED  BY <1>5, <2>1, <2>2, <2>3 DEF Enqueue, OnTime, NotifyOnce, WokenOnce, FrameGone
<1>6. CASE Return \/ Release
  BY <1>6 DEF Return, Release, OnTime, NotifyOnce, WokenOnce, FrameGone
<1>7. CASE Leave
  BY <1>7 DEF Leave, OnTime, NotifyOnce, WokenOnce, FrameGone
<1>8. CASE SpuriousWakeup
  BY <1>8 DEF SpuriousWakeup, OnTime, NotifyOnce, WokenOnce, FrameGone
<1> QED  BY <1>2, <1>3, <1>4, <1>5, <1>6, <1>7, <1>8 DEF Caller

LEMMA ActionOnTime ==
  ASSUME IInv, OnTime, NEW p \in Parts, Action(p)
  PROVE  OnTime'
<1>1. part \in [Parts -> States] /\ nParts \in Nat
  BY DEF IInv, TypeOK, States
<1>2. CASE Start(p) \/ SearchPart(p) \/ Merge(p)
  <2>1. part[p] \in {"queued", "search", "merge"}
    <3>1. CASE Start(p)
      <4>1. queue \in Seq(Parts) /\ queue # <<>> /\ p = Head(queue)
        BY <3>1 DEF Start, IInv, TypeOK
      <4>2. 1 \in 1 .. Len(queue) /\ queue[1] = p
        BY <4>1, Z3
      <4> QED  BY <4>2 DEF IInv, QueueInv
    <3> QED  BY <1>2, <3>1 DEF SearchPart, Merge
  <2>2. PICK to \in {"search", "count", "merge"} : part' = [part EXCEPT ![p] = to]
    BY <1>2 DEF Start, SearchPart, Merge
  <2>3. UNCHANGED <<caller, nloops, nParts, early, hits>>
    BY <1>2 DEF Start, SearchPart, Merge
  <2>4. part'[p] = to /\ \A q \in Parts \ {p} : part'[q] = part[q]
    BY <1>1, <2>2
  <2>5. FrameGone' = FrameGone
    BY <2>3 DEF FrameGone
  <2>6. NotifyOnce'
    BY <2>1, <2>3, <2>4, <2>5 DEF OnTime, NotifyOnce
  <2>7. WokenOnce'
    BY <2>1, <2>3, <2>5 DEF OnTime, WokenOnce
  <2> QED  BY <2>3, <2>4, <2>5, <2>6, <2>7 DEF OnTime
<1>3. CASE CountOff(p)
  <2> DEFINE to == IF nParts = 1 THEN "notify" ELSE "done"
  <2>1. /\ part[p] = "count" /\ ~FrameGone /\ nParts' = nParts - 1
        /\ part' = [part EXCEPT ![p] = to] /\ UNCHANGED <<caller, nloops, early, hits, given>>
    BY <1>3 DEF CountOff
  <2>2. to \in {"notify", "done"} /\ (to = "notify" => nParts = 1)
    OBVIOUS
  <2> HIDE DEF to
  <2>3. part'[p] = to /\ \A q \in Parts \ {p} : part'[q] = part[q]
    BY <1>1, <2>1
  <2>4. FrameGone' = FrameGone
    BY <2>1 DEF FrameGone
  <2>5. ~early => \A q \in Parts : part[q] # "notify"
    BY <2>1 DEF OnTime, NotifyOnce
  <2>6. nParts = 1 => \A q \in Parts \ {p} : q \notin Outstanding
    <3>1. p \in Outstanding /\ nParts = Cardinality(Outstanding)
      BY <2>1 DEF Outstanding, IInv, PartsCounted
    <3>2. SUFFICES ASSUME nParts = 1
                   PROVE  Outstanding \ {p} = {}
      BY <3>2
    <3>3. IsFiniteSet(Outstanding \ {p}) /\ Cardinality(Outstanding \ {p}) = 0
      <4>1. IsFiniteSet(Outstanding \ {p})
        BY Finite, FS_Subset
      <4>2. Cardinality(Outstanding \ {p}) = Cardinality(Outstanding) - 1
        BY <3>1, Finite, FS_RemoveElement
      <4> QED  BY <3>1, <3>2, <4>1, <4>2
    <3> QED  BY <3>3, FS_EmptySet
  <2>7. NotifyOnce'
    <3> SUFFICES ASSUME ~early, NEW r \in Parts, part'[r] = "notify"
                 PROVE  nParts' = 0 /\ \A q \in Parts \ {r} : part'[q] \in {"none", "done"}
      BY <2>1 DEF NotifyOnce
    <3>1. r = p /\ nParts = 1
      BY <2>2, <2>3, <2>5
    <3>2. \A q \in Parts \ {p} : part[q] \in {"none", "done"}
      BY <1>1, <2>1, <2>5, <2>6, <3>1 DEF Outstanding, States, OnTime
    <3> QED  BY <2>1, <2>3, <3>1, <3>2
  <2>8. WokenOnce'
    BY <2>1, <2>4 DEF OnTime, WokenOnce
  <2>9. \A q \in Parts : part'[q] \notin {"undefined", "dropped"}
    BY <2>1, <2>2, <2>3 DEF OnTime
  <2> QED  BY <2>1, <2>7, <2>8, <2>9 DEF OnTime
<1>4. CASE UseDead(p)
  BY <1>1, <1>4 DEF UseDead, OnTime, NotifyOnce, WokenOnce, FrameGone, CollectorGone
<1>5. CASE Notify(p)
  <2>1. /\ part[p] = "notify" /\ ~FrameGone /\ part' = [part EXCEPT ![p] = "done"]
        /\ caller' = (IF caller = "waiting" THEN "woken" ELSE caller)
        /\ UNCHANGED <<nloops, nParts, early, hits, given>>
    BY <1>5 DEF Notify
  <2>2. part'[p] = "done" /\ \A q \in Parts \ {p} : part'[q] = part[q]
    BY <1>1, <2>1
  <2>3. ~early => nParts = 0 /\ \A q \in Parts : part'[q] \in {"none", "done"}
    BY <2>1, <2>2 DEF OnTime, NotifyOnce
  <2>4. ~early /\ caller' = "woken" => given = hits
    BY <2>1, <2>3, ZeroMerges DEF ZeroMeansMerged
  <2>5. ~FrameGone'
    BY <2>1 DEF FrameGone
  <2> QED  BY <2>1, <2>2, <2>3, <2>4, <2>5 DEF OnTime, NotifyOnce, WokenOnce
<1> QED  BY <1>2, <1>3, <1>4, <1>5 DEF Action

(***************************************************************************)
(* Search of collect-docs.cpp and of structo-search.cpp: unless a part was *)
(* counted while a zero was still to be notified, or the wait ended out of *)
(* nothing, Search returns with all merged and leaves no action behind to  *)
(* use the collector, the counter or the condition it takes away.  For     *)
(* every index, section size, number of threads and schedule.              *)
(***************************************************************************)
THEOREM NobodyIsLeft == Spec => []NoneOutlivesSearch
<1>1. Init => OnTime
  BY InitOnTime
<1>2. IInv /\ OnTime /\ [Next]_vars => OnTime'
  <2> SUFFICES ASSUME IInv, OnTime, [Next]_vars
               PROVE  OnTime'
    OBVIOUS
  <2>1. CASE UNCHANGED vars
    BY <2>1 DEF vars, OnTime, NotifyOnce, WokenOnce, FrameGone
  <2> QED  BY <2>1, CallerOnTime, ActionOnTime DEF Next
<1>3. OnTime => NoneOutlivesSearch
  BY DEF OnTime, WokenOnce, NoneOutlivesSearch
<1> QED  BY <1>1, <1>2, <1>3, Invariance, PTL DEF Spec
=============================================================================

--------------------------- MODULE ServiceProofs ---------------------------
(***************************************************************************)
(* Theorems about module Service, for any threads, documents, names,       *)
(* numbers, configurations and number of runs.  What is proved first is    *)
(* that the maps form a chain, each keeping the numbers of the one before: *)
(* the disk's, the index's, the one Commit holds, the service's.  Then     *)
(* about module Program, which starts and ends it.                         *)
(***************************************************************************)
EXTENDS Service, Program, TLAPS

Live == stage \notin {"closed", "crashed"}
InFlight == \E th \in Threads : pc[th] = "stored"

\* A thread about to store a document holds the number its field has.
PackedKnows ==
  \A th \in Threads : pc[th] = "packed" =>
    /\ request[th] \in Requests
    /\ request[th].op = "insert"
    /\ number[th] # Unknown
    /\ fieldMan[request[th].tag] = number[th]

Chain ==
  /\ Live => Extends(index.map, durable.map) /\ Extends(fieldMan, index.map)
  /\ commit = "put" => Extends(fields, index.map) /\ Extends(fieldMan, fields)

\* What the flag stands for, and what of it Commit's steps may rely on.
FlagMeans ==
  ~overlapped =>
    /\ Live /\ ~modified => Misread(index, index.map) \subseteq lost \/ InFlight
    /\ commit = "put" => Misread(index, fields) \subseteq lost \/ InFlight
    /\ commit = "clear" => Misread(index, index.map) \subseteq lost \/ InFlight

Ending ==
  /\ stage \in {"releasing", "closed", "crashed"} => \A th \in Threads : pc[th] = "idle"
  /\ stage = "releasing" /\ commit = "index" => ~modified
  /\ stage = "closed" => durable = index
  /\ stage = "closed" /\ ~overlapped => Misread(index, index.map) \subseteq lost

IInv == TypeOK /\ PackedKnows /\ Chain /\ ReadAsStored /\ FlagMeans /\ Ending
-----------------------------------------------------------------------------
\* A mapping that extends another misreads no document the other reads.
LEMMA ExtendsReads ==
  ASSUME NEW store, NEW old \in Mapping, NEW m \in Mapping, Extends(m, old),
         store.docs \in [Docs -> Doc \cup {NoDoc}]
  PROVE  Misread(store, m) \subseteq Misread(store, old)
<1> SUFFICES ASSUME NEW i \in Docs, ReadsRight(store.docs[i], old)
             PROVE  ReadsRight(store.docs[i], m)
  BY DEF Misread
<1> DEFINE d == store.docs[i]
<1>1. CASE d = NoDoc
  BY <1>1 DEF ReadsRight
<1>2. CASE d # NoDoc
  <2>1. d \in Doc
    BY <1>2
  <2>2. d.tag \in Tags /\ d.num \in Ids
    BY <2>1 DEF Doc
  <2>3. old[d.tag] # Unknown
    BY <1>2, <2>2, IdsAssumption DEF ReadsRight, Unknown
  <2>4. m[d.tag] = old[d.tag]
    BY <2>2, <2>3 DEF Extends, Known
  <2> QED
    BY <1>2, <2>4 DEF ReadsRight
<1> QED
  BY <1>1, <1>2

\* Numbers kept twice are kept.
LEMMA ExtendsTwice ==
  ASSUME NEW m1 \in Mapping, NEW m2 \in Mapping, NEW m3 \in Mapping,
         Extends(m2, m1), Extends(m3, m2)
  PROVE  Extends(m3, m1)
BY DEF Extends, Known, Unknown

LEMMA ExtendsSelf == ASSUME NEW m PROVE Extends(m, m)
BY DEF Extends

\* What a joined mapping is.
LEMMA JoinsExtend ==
  ASSUME NEW old \in Mapping, NEW names \in SUBSET Tags, NEW m \in Joins(old, names)
  PROVE  /\ m \in Mapping
         /\ Extends(m, old)
         /\ \A t \in names : m[t] # Unknown
BY DEF Joins, Known

\* A mapping is a function on the names.
LEMMA MappingType == ASSUME NEW m \in Mapping PROVE m \in [Tags -> Ids \cup {Unknown}]
BY DEF Mapping

LEMMA NoMappingType == NoMapping \in Mapping
BY DEF NoMapping, Mapping, Known, Unknown
-----------------------------------------------------------------------------
LEMMA InitHolds == Init => IInv
<1> SUFFICES ASSUME Init PROVE IInv
  OBVIOUS
<1>1. PICK c \in Configs : fieldMan \in Joins(NoMapping, c)
  BY DEF Init, JoinFields
<1>2. c \in SUBSET Tags
  BY ConfigsAssumption
<1>3. fieldMan \in Mapping /\ Extends(fieldMan, NoMapping)
  BY <1>1, <1>2, NoMappingType, JoinsExtend
<1>4. EmptyIndex \in [docs : [Docs -> Doc \cup {NoDoc}], map : Mapping]
  BY NoMappingType DEF EmptyIndex
<1>5. \A m : Misread(EmptyIndex, m) = {}
  BY DEF EmptyIndex, Misread, ReadsRight
<1>6. TypeOK
  <2>1. starts \in 1 .. MaxStarts
    BY StartsAssumption DEF Init
  <2>2. /\ pc \in [Threads -> {"idle", "received", "packed", "stored"}]
        /\ request \in [Threads -> Requests \cup {NoRequest}]
        /\ number \in [Threads -> Ids \cup {Unknown}]
    BY DEF Init
  <2>3. index \in [docs : [Docs -> Doc \cup {NoDoc}], map : Mapping]
        /\ durable \in [docs : [Docs -> Doc \cup {NoDoc}], map : Mapping]
    BY <1>4 DEF Init
  <2> QED
    BY <1>3, <2>1, <2>2, <2>3, NoMappingType DEF Init, TypeOK
<1>7. PackedKnows
  BY DEF Init, PackedKnows
<1>8. Chain
  BY <1>3, ExtendsSelf DEF Init, Chain, EmptyIndex
<1>9. ReadAsStored /\ FlagMeans
  BY <1>5 DEF Init, ReadAsStored, FlagMeans
<1>10. Ending
  BY DEF Init, Ending
<1> QED
  BY <1>6, <1>7, <1>8, <1>9, <1>10 DEF IInv
-----------------------------------------------------------------------------
\* Types are kept; a stored number is a number because the thread holds one.
LEMMA TypeNext ==
  ASSUME TypeOK, PackedKnows, [Next]_vars
  PROVE  TypeOK'
<1> USE DEF TypeOK
<1>1. ASSUME NEW th \in Threads, Receive(th) PROVE TypeOK'
  <2>1. request' \in [Threads -> Requests \cup {NoRequest}]
    BY <1>1 DEF Receive
  <2> QED BY <1>1, <2>1 DEF Receive, closing, history
<1>2. ASSUME NEW th \in Threads, Answer(th)
      PROVE  /\ pc' \in [Threads -> {"idle", "received", "packed", "stored"}]
             /\ request' \in [Threads -> Requests \cup {NoRequest}]
             /\ number' \in [Threads -> Ids \cup {Unknown}]
  BY <1>2 DEF Answer
<1>3. ASSUME NEW th \in Threads, Pack(th) PROVE TypeOK'
  <2>1. request[th] \in Requests /\ request[th].tag \in Tags
    BY <1>3 DEF Pack, Requests, NoRequest
  <2>2. fieldMan' \in Mapping
    BY <1>3, <2>1, JoinsExtend DEF Pack
  <2>3. fieldMan'[request[th].tag] \in Ids \cup {Unknown}
    BY <2>1, <2>2, MappingType
  <2>4. number' \in [Threads -> Ids \cup {Unknown}]
    BY <1>3, <2>3 DEF Pack
  <2> QED BY <1>3, <2>2, <2>4 DEF Pack, closing, history
<1>4. ASSUME NEW th \in Threads, Reject(th) PROVE TypeOK'
  BY <1>2, <1>4 DEF Reject, closing, history
<1>5. ASSUME NEW th \in Threads, SetEntity(th) PROVE TypeOK'
  <2> DEFINE d == [tag |-> request[th].tag, num |-> number[th], meta |-> request[th].meta]
  <2>1. request[th] \in Requests /\ request[th].op = "insert" /\ number[th] # Unknown
    BY <1>5 DEF SetEntity, PackedKnows
  <2>2. request[th].id \in Docs /\ request[th].tag \in Tags /\ request[th].meta \in Metas
    BY <2>1 DEF Requests
  <2>3. d \in Doc
    BY <2>1, <2>2 DEF Doc
  <2>4. index'.docs = [index.docs EXCEPT ![request[th].id] = d] /\ index'.map = index.map
    BY <1>5 DEF SetEntity
  <2>5. index' \in [docs : [Docs -> Doc \cup {NoDoc}], map : Mapping]
    BY <1>5, <2>2, <2>3 DEF SetEntity
  <2> QED BY <1>5, <2>5 DEF SetEntity, closing
<1>6. ASSUME NEW th \in Threads, SetExtras(th) PROVE TypeOK'
  <2>1. request[th] \in Requests /\ request[th].id \in Docs /\ request[th].meta \in Metas
    BY <1>6 DEF SetExtras, Requests, NoRequest
  <2>2. index.docs[request[th].id] \in Doc
    BY <1>6, <2>1 DEF SetExtras
  <2>3. [index.docs[request[th].id] EXCEPT !.meta = request[th].meta] \in Doc
    BY <2>1, <2>2 DEF Doc
  <2>4. index' \in [docs : [Docs -> Doc \cup {NoDoc}], map : Mapping]
    BY <1>6, <2>1, <2>3 DEF SetExtras
  <2> QED BY <1>6, <2>4 DEF SetExtras, closing, history
<1>7. ASSUME NEW th \in Threads, DelEntity(th) PROVE TypeOK'
  <2>1. index' \in [docs : [Docs -> Doc \cup {NoDoc}], map : Mapping]
    BY <1>7 DEF DelEntity
  <2> QED BY <1>7, <2>1 DEF DelEntity, closing
<1>8. ASSUME NEW th \in Threads, NotFound(th) PROVE TypeOK'
  BY <1>2, <1>8 DEF NotFound, closing, history
<1>9. ASSUME NEW th \in Threads, Flag(th) PROVE TypeOK'
  BY <1>2, <1>9 DEF Flag, closing
<1>10. CASE CommitTest
  BY <1>10 DEF CommitTest, calls, history
<1>11. CASE SaveFields
  BY <1>11 DEF SaveFields, calls, history
<1>12. CASE SetMapping
  BY <1>12 DEF SetMapping, calls, history
<1>13. CASE ClearFlag
  BY <1>13 DEF ClearFlag, calls, history
<1>14. CASE CommitIndex
  BY <1>14 DEF CommitIndex, calls, history
<1>15. CASE Stop
  BY <1>15 DEF Stop, calls, history
<1>16. CASE Detach
  BY <1>16 DEF Detach, calls, history
<1>17. CASE Flush
  BY <1>17 DEF Flush, calls, closing, history
<1>18. CASE Crash
  BY <1>18 DEF Crash, history
<1>19. CASE Start
  <2>1. PICK c \in Configs : fieldMan' \in Joins(durable.map, c)
    BY <1>19 DEF Start, JoinFields
  <2>2. fieldMan' \in Mapping
    BY <2>1, ConfigsAssumption, JoinsExtend
  <2>3. starts' \in 1 .. MaxStarts
    BY <1>19, StartsAssumption DEF Start
  <2>4. lost' \subseteq Docs
    BY <1>19 DEF Start, Misread
  <2> QED BY <1>19, <2>2, <2>3, <2>4 DEF Start, calls, closing
<1>20. CASE UNCHANGED vars
  BY <1>20 DEF vars
<1> QED
  BY <1>1, <1>3, <1>4, <1>5, <1>6, <1>7, <1>8, <1>9, <1>10, <1>11, <1>12, <1>13,
     <1>14, <1>15, <1>16, <1>17, <1>18, <1>19, <1>20 DEF Next

\* Numbers given stay given: what a thread holds is true until it stores it.
LEMMA PackedNext ==
  ASSUME TypeOK, PackedKnows, Ending, [Next]_vars
  PROVE  PackedKnows'
<1> USE DEF PackedKnows
<1>1. CASE UNCHANGED <<fieldMan, calls>>
  BY <1>1 DEF calls
<1>2. ASSUME NEW th \in Threads, Answer(th), UNCHANGED fieldMan PROVE PackedKnows'
  BY <1>2 DEF Answer, TypeOK
<1>3. ASSUME NEW th \in Threads, Receive(th) PROVE PackedKnows'
  BY <1>3 DEF Receive, TypeOK
<1>4. ASSUME NEW th \in Threads, Pack(th) PROVE PackedKnows'
  <2>1. request[th] \in Requests /\ request[th].tag \in Tags
    BY <1>4 DEF Pack, TypeOK, Requests, NoRequest
  <2>2. /\ fieldMan' \in Mapping
        /\ Extends(fieldMan', fieldMan)
        /\ fieldMan'[request[th].tag] # Unknown
    BY <1>4, <2>1, JoinsExtend DEF Pack, TypeOK
  <2>3. ASSUME NEW u \in Threads, pc'[u] = "packed", u # th
        PROVE  /\ request'[u] \in Requests
               /\ request'[u].op = "insert"
               /\ number'[u] # Unknown
               /\ fieldMan'[request'[u].tag] = number'[u]
    <3>1. pc[u] = "packed" /\ request'[u] = request[u] /\ number'[u] = number[u]
      BY <1>4, <2>3 DEF Pack, TypeOK
    <3>2. request[u].tag \in Tags
      BY <3>1 DEF Requests
    <3> QED BY <2>2, <3>1, <3>2 DEF Extends, Known
  <2>4. /\ request'[th] \in Requests
        /\ request'[th].op = "insert"
        /\ number'[th] # Unknown
        /\ fieldMan'[request'[th].tag] = number'[th]
    BY <1>4, <2>1, <2>2 DEF Pack, TypeOK
  <2> QED BY <2>3, <2>4
<1>5. ASSUME NEW th \in Threads, Reject(th) \/ NotFound(th) \/ Flag(th) PROVE PackedKnows'
  BY <1>2, <1>5 DEF Reject, NotFound, Flag
<1>6. ASSUME NEW th \in Threads, SetEntity(th) \/ SetExtras(th) \/ DelEntity(th)
      PROVE  PackedKnows'
  BY <1>6 DEF SetEntity, SetExtras, DelEntity, TypeOK
<1>7. CASE Crash
  BY <1>7 DEF Crash
<1>8. CASE Start
  BY <1>8 DEF Start, Ending, calls
<1>9. CASE \/ CommitTest \/ SaveFields \/ SetMapping \/ ClearFlag \/ CommitIndex
           \/ Stop \/ Detach \/ Flush \/ UNCHANGED vars
  BY <1>1, <1>9 DEF CommitTest, SaveFields, SetMapping, ClearFlag, CommitIndex, Stop,
                    Detach, Flush, vars, calls
<1> QED
  BY <1>3, <1>4, <1>5, <1>6, <1>7, <1>8, <1>9 DEF Next

\* Every map of the chain only grows, or is replaced by the next one.
LEMMA ChainNext ==
  ASSUME TypeOK, Chain, [Next]_vars
  PROVE  Chain'
<1> USE DEF Chain, Live
<1>1. CASE UNCHANGED <<index, durable, fieldMan, fields, commit, stage>>
  BY <1>1
<1>2. ASSUME NEW th \in Threads, Pack(th) PROVE Chain'
  <2>1. request[th].tag \in Tags
    BY <1>2 DEF Pack, TypeOK, Requests, NoRequest
  <2>2. fieldMan' \in Mapping /\ Extends(fieldMan', fieldMan)
    BY <1>2, <2>1, JoinsExtend DEF Pack, TypeOK
  <2> QED BY <1>2, <2>2, ExtendsTwice DEF Pack, TypeOK, closing
<1>3. ASSUME NEW th \in Threads,
             \/ Receive(th) \/ Reject(th) \/ NotFound(th) \/ Flag(th)
      PROVE  Chain'
  BY <1>1, <1>3 DEF Receive, Reject, NotFound, Flag, closing
<1>4. ASSUME NEW th \in Threads, SetEntity(th) \/ SetExtras(th) \/ DelEntity(th)
      PROVE  Chain'
  <2>1. index'.map = index.map /\ UNCHANGED <<durable, fieldMan, fields, commit, stage>>
    BY <1>4 DEF SetEntity, SetExtras, DelEntity, TypeOK, closing
  <2> QED BY <2>1
<1>5. CASE CommitTest \/ ClearFlag \/ Stop \/ Detach
  BY <1>5 DEF CommitTest, ClearFlag, Stop, Detach
<1>6. CASE SaveFields
  BY <1>6, ExtendsSelf DEF SaveFields, TypeOK
<1>7. CASE SetMapping
  <2>1. index'.map = fields
    BY <1>7 DEF SetMapping, TypeOK
  <2>2. stage \in {"stopping", "releasing"}
    BY <1>7 DEF SetMapping, TypeOK
  <2> QED BY <1>7, <2>1, <2>2, ExtendsTwice DEF SetMapping, TypeOK
<1>8. CASE CommitIndex
  BY <1>8, ExtendsSelf DEF CommitIndex, TypeOK
<1>9. CASE Flush
  BY <1>9, ExtendsSelf DEF Flush, closing
<1>10. CASE Crash
  BY <1>10 DEF Crash
<1>11. CASE Start
  <2>1. PICK c \in Configs : fieldMan' \in Joins(durable.map, c)
    BY <1>11 DEF Start, JoinFields
  <2>2. Extends(fieldMan', durable.map)
    BY <2>1, ConfigsAssumption, JoinsExtend DEF TypeOK
  <2>3. commit' = "none"
    BY <1>11 DEF Start, TypeOK, closing
  <2> QED BY <1>11, <2>2, <2>3, ExtendsSelf DEF Start
<1>12. CASE UNCHANGED vars
  BY <1>1, <1>12 DEF vars
<1> QED
  BY <1>2, <1>3, <1>4, <1>5, <1>6, <1>7, <1>8, <1>9, <1>10, <1>11, <1>12 DEF Next

\* A change of one document misreads no other, and the document itself only
\* where it was misread before.
LEMMA ChangeReads ==
  ASSUME TypeOK, PackedKnows, NEW th \in Threads,
         SetEntity(th) \/ SetExtras(th) \/ DelEntity(th),
         Misread(index, fieldMan) \subseteq lost
  PROVE  Misread(index', fieldMan) \subseteq lost'
<1> SUFFICES ASSUME NEW i \in Docs, ~ReadsRight(index'.docs[i], fieldMan)
             PROVE  i \in lost'
  BY DEF Misread
<1>1. index.docs \in [Docs -> Doc \cup {NoDoc}]
  BY DEF TypeOK
<1>2. CASE SetEntity(th)
  <2>1. request[th] \in Requests /\ fieldMan[request[th].tag] = number[th]
    BY <1>2 DEF SetEntity, PackedKnows
  <2>2. index'.docs = [index.docs EXCEPT ![request[th].id] =
                         [tag |-> request[th].tag, num |-> number[th], meta |-> request[th].meta]]
    BY <1>2 DEF SetEntity, TypeOK
  <2>3. i # request[th].id
    BY <1>1, <2>1, <2>2 DEF ReadsRight
  <2>4. i \in Misread(index, fieldMan)
    BY <1>1, <2>2, <2>3 DEF Misread
  <2> QED BY <1>2, <2>3, <2>4 DEF SetEntity
<1>3. CASE SetExtras(th)
  <2>1. index'.docs = [index.docs EXCEPT ![request[th].id].meta = request[th].meta]
    BY <1>3 DEF SetExtras, TypeOK
  <2>2. index.docs[request[th].id] # NoDoc /\ lost' = lost
    BY <1>3 DEF SetExtras, history
  <2>3. CASE i = request[th].id
    <3>1. index.docs[i] \in Doc
      BY <1>1, <2>2, <2>3
    <3>2. index'.docs[i].tag = index.docs[i].tag /\ index'.docs[i].num = index.docs[i].num
      BY <1>1, <2>1, <2>3, <3>1 DEF Doc
    <3> QED BY <2>2, <2>3, <3>2 DEF Misread, ReadsRight
  <2>4. CASE i # request[th].id
    BY <1>1, <2>1, <2>2, <2>4 DEF Misread
  <2> QED BY <2>3, <2>4
<1>4. CASE DelEntity(th)
  <2>1. index'.docs = [index.docs EXCEPT ![request[th].id] = NoDoc]
    BY <1>4 DEF DelEntity, TypeOK
  <2>2. i # request[th].id
    BY <1>1, <2>1 DEF ReadsRight
  <2>3. i \in Misread(index, fieldMan)
    BY <1>1, <2>1, <2>2 DEF Misread
  <2> QED BY <1>4, <2>2, <2>3 DEF DelEntity
<1> QED
  BY <1>2, <1>3, <1>4

\* Setting the mapping entity changes no document.
LEMMA MappingReads ==
  ASSUME TypeOK, SetMapping, NEW m PROVE Misread(index', m) = Misread(index, m)
BY DEF SetMapping, TypeOK, Misread

LEMMA ReadNext ==
  ASSUME IInv, [Next]_vars
  PROVE  ReadAsStored'
<1> USE DEF IInv, ReadAsStored, Live
<1>1. CASE UNCHANGED <<index, fieldMan, lost, stage>>
  BY <1>1
<1>2. ASSUME NEW th \in Threads, Pack(th) PROVE ReadAsStored'
  <2>1. request[th].tag \in Tags
    BY <1>2 DEF Pack, TypeOK, Requests, NoRequest
  <2>2. fieldMan' \in Mapping /\ Extends(fieldMan', fieldMan)
    BY <1>2, <2>1, JoinsExtend DEF Pack, TypeOK
  <2>3. Misread(index, fieldMan') \subseteq Misread(index, fieldMan)
    BY <2>2, ExtendsReads DEF TypeOK
  <2> QED BY <1>2, <2>3 DEF Pack, history
<1>3. ASSUME NEW th \in Threads, Receive(th) \/ Reject(th) \/ NotFound(th) \/ Flag(th)
      PROVE  ReadAsStored'
  BY <1>1, <1>3 DEF Receive, Reject, NotFound, Flag, history
<1>4. ASSUME NEW th \in Threads, SetEntity(th) \/ SetExtras(th) \/ DelEntity(th)
      PROVE  ReadAsStored'
  <2>1. UNCHANGED <<fieldMan, stage>>
    BY <1>4 DEF SetEntity, SetExtras, DelEntity
  <2> QED BY <1>4, <2>1, ChangeReads
<1>5. CASE SetMapping
  BY <1>5, MappingReads DEF SetMapping, history
<1>6. CASE CommitIndex
  BY <1>6 DEF CommitIndex, TypeOK, history
<1>7. CASE CommitTest \/ SaveFields \/ ClearFlag \/ Flush \/ UNCHANGED vars
  BY <1>1, <1>7 DEF CommitTest, SaveFields, ClearFlag, Flush, vars, history
<1>8. CASE Stop \/ Detach \/ Crash
  BY <1>8 DEF Stop, Detach, Crash, history
<1>9. CASE Start
  <2>1. PICK c \in Configs : fieldMan' \in Joins(durable.map, c)
    BY <1>9 DEF Start, JoinFields
  <2>2. fieldMan' \in Mapping /\ Extends(fieldMan', durable.map)
    BY <2>1, ConfigsAssumption, JoinsExtend DEF TypeOK
  <2>3. Misread(durable, fieldMan') \subseteq Misread(durable, durable.map)
    BY <2>2, ExtendsReads DEF TypeOK
  <2> QED BY <1>9, <2>3 DEF Start
<1> QED
  BY <1>2, <1>3, <1>4, <1>5, <1>6, <1>7, <1>8, <1>9 DEF Next

\* The flag, a store not flagged yet or the saved mapping accounts for every
\* document, unless the flag was cleared over a change.
LEMMA FlagNext ==
  ASSUME IInv, [Next]_vars
  PROVE  FlagMeans'
<1> USE DEF IInv, FlagMeans, Live, InFlight
<1>1. CASE UNCHANGED <<index, modified, commit, fields, overlapped, lost, stage, pc>>
  BY <1>1
<1>2. ASSUME NEW th \in Threads, Receive(th) \/ Pack(th) \/ Reject(th) \/ NotFound(th)
      PROVE  FlagMeans'
  <2>1. UNCHANGED <<index, modified, commit, fields, overlapped, lost, stage>>
    BY <1>2 DEF Receive, Pack, Reject, NotFound, closing, history
  <2>2. pc[th] # "stored" /\ \A u \in Threads \ {th} : pc'[u] = pc[u]
    BY <1>2 DEF Receive, Pack, Reject, NotFound, Answer, TypeOK
  <2>3. InFlight => InFlight'
    BY <2>2
  <2> QED BY <2>1, <2>3
<1>3. ASSUME NEW th \in Threads, SetEntity(th) \/ SetExtras(th) \/ DelEntity(th)
      PROVE  FlagMeans'
  <2>1. pc'[th] = "stored"
    BY <1>3 DEF SetEntity, SetExtras, DelEntity, TypeOK
  <2> QED BY <2>1
<1>4. ASSUME NEW th \in Threads, Flag(th) PROVE FlagMeans'
  BY <1>4 DEF Flag, closing
<1>5. CASE CommitTest
  BY <1>5 DEF CommitTest, calls, history
<1>6. CASE SaveFields
  <2>1. stage \in {"stopping", "releasing"}
    BY <1>6 DEF SaveFields, TypeOK
  <2>2. Misread(index, fieldMan) \subseteq lost
    BY <2>1 DEF ReadAsStored
  <2> QED BY <1>6, <2>2 DEF SaveFields, calls, history
<1>7. CASE SetMapping
  <2>1. index'.map = fields
    BY <1>7 DEF SetMapping, TypeOK
  <2>2. Misread(index', index'.map) = Misread(index, fields)
    BY <1>7, <2>1, MappingReads
  <2> QED BY <1>7, <2>2 DEF SetMapping, calls, history
<1>8. CASE ClearFlag
  BY <1>8 DEF ClearFlag, calls, history
<1>9. CASE CommitIndex
  BY <1>9 DEF CommitIndex, calls, history, TypeOK
<1>10. CASE Stop \/ Detach
  BY <1>10 DEF Stop, Detach, calls, history
<1>11. CASE Flush \/ UNCHANGED vars
  BY <1>1, <1>11 DEF Flush, vars, calls, closing, history
<1>12. CASE Crash
  BY <1>12 DEF Crash, history
<1>13. CASE Start
  BY <1>13 DEF Start, closing, TypeOK
<1> QED
  BY <1>2, <1>3, <1>4, <1>5, <1>6, <1>7, <1>8, <1>9, <1>10, <1>11, <1>12, <1>13 DEF Next

\* At the end no thread changes anything and the last Commit leaves nothing.
LEMMA EndNext ==
  ASSUME IInv, [Next]_vars
  PROVE  Ending'
<1> USE DEF IInv, Ending
<1>1. ASSUME NEW th \in Threads,
             \/ Receive(th) \/ Pack(th) \/ Reject(th) \/ SetEntity(th)
             \/ SetExtras(th) \/ DelEntity(th) \/ NotFound(th) \/ Flag(th)
      PROVE  Ending'
  <2>1. stage \notin {"releasing", "closed", "crashed"} /\ stage' = stage
    BY <1>1 DEF Receive, Pack, Reject, SetEntity, SetExtras, DelEntity, NotFound, Flag
  <2> QED BY <2>1
<1>2. CASE CommitTest
  BY <1>2 DEF CommitTest, calls, TypeOK
<1>3. CASE SaveFields \/ SetMapping
  BY <1>3 DEF SaveFields, SetMapping, calls, TypeOK
<1>4. CASE ClearFlag
  BY <1>4 DEF ClearFlag, calls, TypeOK
<1>5. CASE CommitIndex
  <2>1. CASE stage = "releasing"
    <3>1. ~InFlight /\ ~modified
      BY <1>5, <2>1 DEF CommitIndex, InFlight
    <3>2. ~overlapped => Misread(index, index.map) \subseteq lost
      BY <2>1, <3>1 DEF FlagMeans, Live
    <3> QED BY <1>5, <2>1, <3>2 DEF CommitIndex, calls, history
  <2>2. CASE stage = "stopping"
    BY <1>5, <2>2 DEF CommitIndex
  <2> QED BY <1>5, <2>1, <2>2 DEF CommitIndex, TypeOK
<1>6. CASE Stop
  BY <1>6 DEF Stop
<1>7. CASE Detach
  BY <1>7 DEF Detach, calls
<1>8. CASE Flush
  BY <1>8 DEF Flush, calls, closing
<1>9. CASE Crash
  BY <1>9 DEF Crash
<1>10. CASE Start
  BY <1>10 DEF Start
<1>11. CASE UNCHANGED vars
  BY <1>11 DEF vars, calls, closing, history
<1> QED
  BY <1>1, <1>2, <1>3, <1>4, <1>5, <1>6, <1>7, <1>8, <1>9, <1>10, <1>11 DEF Next
-----------------------------------------------------------------------------
\* The invariant of StructoSearch and of the program around it: it holds from
\* the first start on, through every call, Commit, crash and restart.
THEOREM Invariance == Spec => []IInv
<1>1. Init => IInv
  BY InitHolds
<1>2. IInv /\ [Next]_vars => IInv'
  <2> SUFFICES ASSUME IInv, [Next]_vars PROVE IInv'
    OBVIOUS
  <2>1. TypeOK'
    BY TypeNext DEF IInv
  <2>2. PackedKnows'
    BY PackedNext DEF IInv
  <2>3. Chain'
    BY ChainNext DEF IInv
  <2> QED
    BY <2>1, <2>2, <2>3, ReadNext, FlagNext, EndNext DEF IInv
<1> QED
  BY <1>1, <1>2, PTL DEF Spec

\* Types of the service's state; Commit runs only while the program ends.
THEOREM TypeCorrect == Spec => []TypeOK
<1>1. IInv => TypeOK
  BY DEF IInv
<1> QED BY <1>1, Invariance, PTL

\* A running StructoSearch reads every document under the fields it was
\* stored with, but for those a crash had left without their mapping.
THEOREM DocumentsReadAsStored == Spec => []ReadAsStored
<1>1. IInv => ReadAsStored
  BY DEF IInv
<1> QED BY <1>1, Invariance, PTL

\* After an exit in order the saved mapping reads every document on the disk
\* that the service could read, unless an Insert overlapped Commit.
THEOREM ExitSavesMapping == Spec => []MappedAtExit
<1>1. IInv => MappedAtExit
  BY DEF IInv, Ending, MappedAtExit
<1> QED BY <1>1, Invariance, PTL

\* After an exit in order the disk holds every change that was answered.
THEOREM ExitSavesAnswers == Spec => []AnsweredIsDurable
<1>1. IInv => AnsweredIsDurable
  BY DEF IInv, Ending, AnsweredIsDurable
<1> QED BY <1>1, Invariance, PTL

\* No step, no crash and no configuration takes back or changes a number
\* that reached the disk.
THEOREM NumbersKept == Spec => NumbersAreForEver
<1>1. IInv /\ [Next]_vars => Extends(durable.map', durable.map)
  <2> SUFFICES ASSUME IInv, [Next]_vars PROVE Extends(durable.map', durable.map)
    OBVIOUS
  <2>1. ASSUME CommitIndex \/ Flush PROVE durable' = index /\ Live
    BY <2>1 DEF CommitIndex, Flush, IInv, TypeOK, Live
  <2>2. ASSUME ~CommitIndex, ~Flush PROVE durable' = durable
    BY <2>2 DEF Next, Receive, Pack, Reject, SetEntity, SetExtras, DelEntity, NotFound, Flag,
                CommitTest, SaveFields, SetMapping, ClearFlag, Stop, Detach, Crash, Start, vars
  <2>3. durable' = durable \/ (durable' = index /\ Live)
    BY <2>1, <2>2
  <2> QED BY <2>3, ExtendsSelf DEF IInv, Chain
<1> QED BY <1>1, Invariance, PTL DEF Spec, NumbersAreForEver
-----------------------------------------------------------------------------
(***************************************************************************)
(* The program that runs the service (module Program), for any number of   *)
(* workers and signals: no call is in a service that is gone, the last     *)
(* Commit comes after every call, and main waits for ever on a stopped     *)
(* server only when its notification was missed.                           *)
(***************************************************************************)

\* Who may call the service: the server has its reference as long as it may be
\* called, and takes requests only between Start and its end.
HoldsInv ==
  /\ main \notin {"config", "invalid", "killed", "exited"} => "server" \in holds
  /\ open => main \notin {"config", "invalid", "created", "killed", "installed", "start", "leaving", "exited"}
  /\ \A w \in Workers : worker[w] # "idle" => "server" \in holds
  /\ main = "exited" => lastCommit = "last" /\ holds = {}

\* Once finish is set, main is not on its way to the wait or in it, but for a
\* handler that is to notify it.
NotifyInv ==
  main \in {"tested", "blocked"} /\ finish => missed \/ \E s \in Signals : handler[s] = "notify"

ProgramInv == ProgramTypeOK /\ HoldsInv /\ NotifyInv

LEMMA ProgramInitInvariant == ProgramInit => ProgramInv
BY DEF ProgramInit, ProgramInv, ProgramTypeOK, HoldsInv, NotifyInv

LEMMA MainStep ==
  ASSUME ProgramInv, Main \/ SpuriousWakeup
  PROVE  ProgramInv'
<1> USE DEF ProgramInv, ProgramTypeOK, HoldsInv, NotifyInv, signals, service
<1>1. CASE CreateNothing
  BY <1>1 DEF CreateNothing
<1>2. CASE Create
  <2>1. PICK cfg \in ServerConfigs :
          IF InetServer(cfg) = "invalid"
            THEN main' = "invalid" /\ lastCommit' = "last" /\ UNCHANGED <<server, holds>>
            ELSE /\ main' = "created"
                 /\ server' = InetServer(cfg)
                 /\ holds' = {"main", "server"}
                 /\ UNCHANGED lastCommit
    BY <1>2 DEF Create
  <2>2. InetServer(cfg) \in {"invalid", "http", "gRPC"}
    BY DEF InetServer, ServerConfigs
  <2> QED  BY <1>2, <2>1, <2>2 DEF Create
<1>3. CASE Sigaction
  BY <1>3 DEF Sigaction
<1>4. CASE SetFunc
  BY <1>4 DEF SetFunc
<1>5. CASE StartServer
  BY <1>5 DEF StartServer
<1>6. CASE Test
  BY <1>6 DEF Test
<1>7. CASE Block
  BY <1>7 DEF Block
<1>8. CASE SpuriousWakeup
  BY <1>8 DEF SpuriousWakeup
<1>9. CASE MainCommit \/ ReturnMain \/ Unload
  BY <1>9 DEF MainCommit, ReturnMain, Unload
<1>10. CASE Exit
  BY <1>10 DEF Exit
<1> HIDE DEF ProgramInv
<1> QED  BY <1>1, <1>2, <1>3, <1>4, <1>5, <1>6, <1>7, <1>8, <1>9, <1>10 DEF Main

LEMMA SignalStep ==
  ASSUME ProgramInv, NEW s \in Signals, Raise(s) \/ RaiseLate(s) \/ Handler(s)
  PROVE  ProgramInv'
<1> USE DEF ProgramInv, ProgramTypeOK, HoldsInv, NotifyInv, signals, service
<1>1. CASE Raise(s)
  BY <1>1 DEF Raise, Alive
<1>2. CASE RaiseLate(s)
  BY <1>2 DEF RaiseLate
<1>3. CASE StopServer(s)
  BY <1>3 DEF StopServer, Alive
<1>4. CASE Finish(s)
  BY <1>4 DEF Finish, Alive
<1>5. CASE Notify(s)
  BY <1>5 DEF Notify, Alive
<1> QED  BY <1>1, <1>2, <1>3, <1>4, <1>5 DEF Handler

LEMMA WorkerStep ==
  ASSUME ProgramInv, NEW w \in Workers, Accept(w) \/ Work(w) \/ Hang(w)
  PROVE  ProgramInv'
<1> USE DEF ProgramInv, ProgramTypeOK, HoldsInv, NotifyInv, signals, service
<1>1. CASE Accept(w)
  BY <1>1 DEF Accept, Alive
<1>2. CASE Refuse(w)
  BY <1>2 DEF Refuse
<1>3. CASE CallService(w)
  BY <1>3 DEF CallService
<1>4. CASE Reply(w)
  BY <1>4 DEF Reply
<1>5. CASE Hang(w)
  BY <1>5 DEF Hang
<1> QED  BY <1>1, <1>2, <1>3, <1>4, <1>5 DEF Work

THEOREM ProgramInvariance == ProgramSpec => []ProgramInv
<1>1. ProgramInv /\ [ProgramNext]_programVars => ProgramInv'
  <2>1. ProgramInv /\ UNCHANGED programVars => ProgramInv'
    BY DEF programVars, ProgramInv, ProgramTypeOK, HoldsInv, NotifyInv
  <2> QED  BY <2>1, MainStep, SignalStep, WorkerStep DEF ProgramNext
<1> QED  BY <1>1, ProgramInitInvariant, PTL DEF ProgramSpec

\* Every variable has its type.
THEOREM ProgramTypeCorrect == ProgramSpec => []ProgramTypeOK
<1>1. ProgramInv => ProgramTypeOK
  BY DEF ProgramInv
<1> QED  BY <1>1, ProgramInvariance, PTL

\* No call is in a service that is gone, and nothing is changed after its last Commit
\* (the end of main and of the statics, Server's destructor).
THEOREM LastCommitComesLast == ProgramSpec => []LastCommitIsLast
<1>1. ProgramInv => LastCommitIsLast
  BY DEF ProgramInv, HoldsInv, LastCommitIsLast
<1> QED  BY <1>1, ProgramInvariance, PTL

\* With finish set and every handler done, main waits only for a notification that it
\* missed (Stop and Wait of the HTTP server).
THEOREM HangMeansMissed == ProgramSpec => []HangsOnlyIfMissed
<1>1. ProgramInv => HangsOnlyIfMissed
  BY DEF ProgramInv, NotifyInv, HangsOnlyIfMissed, Handling
<1> QED  BY <1>1, ProgramInvariance, PTL
=============================================================================

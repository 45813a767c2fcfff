--------------------------- MODULE LocalFilesProofs ---------------------------
(***************************************************************************)
(* What reads and watches the files of one machine.                        *)
(*                                                                         *)
(* The indexer: every text is at one place on its way through the two      *)
(* queues, and was indexed, refused or not parsed when the program ends in *)
(* order, unless main stopped the others while an archive was parsed: for  *)
(* any threads, limits and archives.  Every step that touches texts moves  *)
(* a set of them from one place to another (MoveKeeps); that what it takes *)
(* is all there is of it there needs that no sequence holds a text, and no *)
(* queue an archive, twice.  And where it may stand still: who waits at a  *)
(* queue waits at a full one, so that the two never block each other.      *)
(*                                                                         *)
(* The watcher: a directory nothing excuses is watched under its name, or  *)
(* a call of AddWatch or an event leads to it (ReachInv), in any tree, for *)
(* any queue and however others change it.  That needs what keeps an event *)
(* from being for nothing (Lasting), and that the names a number has are   *)
(* the directory's own (NamesInv), as are the ones it is about to have.    *)
(***************************************************************************)
EXTENDS LocalIndexer, WatchDir, SequenceTheorems, FiniteSetTheorems, TLAPS

-----------------------------------------------------------------------------
(* The indexer.                                                            *)

Where == Threads \cup PlaceNames

LEMMA HeadAndTail ==
  ASSUME NEW S, NEW s \in Seq(S), s # <<>>
  PROVE  /\ Head(s) \in S /\ Tail(s) \in Seq(S)
         /\ ToSet(s) = {Head(s)} \cup ToSet(Tail(s))
         /\ IsInjective(s) => IsInjective(Tail(s)) /\ Head(s) \notin ToSet(Tail(s))
<1>1. /\ Head(s) \in S /\ Tail(s) \in Seq(S) /\ Len(s) \in Nat \ {0}
      /\ Len(Tail(s)) = Len(s) - 1 /\ Head(s) = s[1]
      /\ \A i \in 1 .. Len(Tail(s)) : Tail(s)[i] = s[i + 1]
  OBVIOUS
<1>2. DOMAIN s = 1 .. Len(s) /\ DOMAIN Tail(s) = 1 .. Len(Tail(s))
  OBVIOUS
<1>3. ToSet(s) = {Head(s)} \cup ToSet(Tail(s))
  <2>1. \A i \in 1 .. Len(s) : i = 1 \/ (i - 1 \in 1 .. Len(Tail(s)) /\ s[i] = Tail(s)[i - 1])
    BY <1>1
  <2>2. \A i \in 1 .. Len(Tail(s)) : i + 1 \in 1 .. Len(s) /\ 1 \in 1 .. Len(s)
    BY <1>1
  <2>3. 1 \in 1 .. Len(s)
    BY <1>1
  <2>4. ToSet(s) = {s[i] : i \in 1 .. Len(s)} /\ ToSet(Tail(s)) = {Tail(s)[i] : i \in 1 .. Len(Tail(s))}
    BY <1>2 DEF ToSet
  <2>5. ASSUME NEW x \in ToSet(s) PROVE x = Head(s) \/ x \in ToSet(Tail(s))
    BY <1>1, <2>1, <2>4, <2>5
  <2>6. ASSUME NEW x \in ToSet(Tail(s)) PROVE x \in ToSet(s)
    BY <1>1, <2>2, <2>4, <2>6
  <2> QED  BY <1>1, <2>3, <2>4, <2>5, <2>6
<1>4. ASSUME IsInjective(s)
      PROVE  IsInjective(Tail(s)) /\ Head(s) \notin ToSet(Tail(s))
  <2>1. \A i, j \in 1 .. Len(s) : s[i] = s[j] => i = j
    BY <1>2, <1>4 DEF IsInjective
  <2>2. \A i \in 1 .. Len(Tail(s)) : i + 1 \in 1 .. Len(s) /\ i + 1 # 1 /\ 1 \in 1 .. Len(s)
    BY <1>1
  <2>3. \A i, j \in 1 .. Len(Tail(s)) : Tail(s)[i] = Tail(s)[j] => i = j
    BY <1>1, <2>1, <2>2
  <2>4. \A i \in 1 .. Len(Tail(s)) : Tail(s)[i] # Head(s)
    BY <1>1, <2>1, <2>2
  <2> QED  BY <1>2, <2>3, <2>4 DEF IsInjective, ToSet
<1> QED  BY <1>1, <1>3, <1>4

LEMMA AfterAppend ==
  ASSUME NEW S, NEW s \in Seq(S), NEW x \in S
  PROVE  /\ Append(s, x) \in Seq(S)
         /\ ToSet(Append(s, x)) = ToSet(s) \cup {x}
         /\ IsInjective(s) /\ x \notin ToSet(s) => IsInjective(Append(s, x))
<1>1. /\ Append(s, x) \in Seq(S) /\ Len(Append(s, x)) = Len(s) + 1 /\ Len(s) \in Nat
      /\ \A i \in 1 .. Len(s) : Append(s, x)[i] = s[i]
      /\ Append(s, x)[Len(s) + 1] = x
      /\ DOMAIN s = 1 .. Len(s) /\ DOMAIN Append(s, x) = 1 .. Len(s) + 1
  OBVIOUS
<1>2. \A i \in 1 .. Len(s) + 1 : i \in 1 .. Len(s) \/ i = Len(s) + 1
  BY <1>1
<1>3. \A i \in 1 .. Len(s) : i \in 1 .. Len(s) + 1
  BY <1>1
<1>4. Len(s) + 1 \in 1 .. Len(s) + 1
  BY <1>1
<1>5. ToSet(Append(s, x)) = ToSet(s) \cup {x}
  BY <1>1, <1>2, <1>3, <1>4 DEF ToSet
<1>6. IsInjective(s) /\ x \notin ToSet(s) => IsInjective(Append(s, x))
  BY <1>1, <1>2 DEF ToSet, IsInjective
<1> QED  BY <1>1, <1>5, <1>6

LEMMA EmptyHasNone == ToSet(<<>>) = {}
BY DEF ToSet

\* Texts moved from one place to another are still at one place.
LEMMA MoveKeeps ==
  ASSUME NEW D, NEW P, NEW Q, NEW from \in D, NEW to \in D, from # to,
         NEW M, M \subseteq P[from],
         Q[from] = P[from] \ M, Q[to] = P[to] \cup M,
         \A p \in D \ {from, to} : Q[p] = P[p],
         \A p, q \in D : p # q => P[p] \cap P[q] = {}
  PROVE  /\ UNION {Q[p] : p \in D} = UNION {P[p] : p \in D}
         /\ \A p, q \in D : p # q => Q[p] \cap Q[q] = {}
<1>1. ASSUME NEW x
      PROVE  (\E p \in D : x \in Q[p]) <=> \E p \in D : x \in P[p]
  OBVIOUS
<1>2. ASSUME NEW p \in D, NEW q \in D, p # q, NEW x, x \in Q[p], x \in Q[q]
      PROVE  FALSE
  <2>1. x \in M => x \in P[from]
    OBVIOUS
  <2>2. \A r \in D : x \in Q[r] => x \in P[r] \/ (r = to /\ x \in M)
    OBVIOUS
  <2>3. x \in M => x \notin Q[from]
    OBVIOUS
  <2> QED  BY <1>2, <2>1, <2>2, <2>3
<1> QED  BY <1>1, <1>2
-----------------------------------------------------------------------------
Stages == {"list", "putArchive", "waitArchive", "getArchive", "parse", "putText",
           "waitText", "getText", "index", "stop", "join", "done", "exited"}

\* What of TypeOK the argument needs, and which threads hold texts.
Types ==
  /\ at \in [Threads -> Stages]
  /\ hand \in [Threads -> Seq(Texts)]
  /\ files \subseteq Archives
  /\ path \in Archives \cup {<<>>}
  /\ archives \in Seq(Archives)
  /\ fb2Texts \in Seq(Texts)
  /\ noMoreFiles \in BOOLEAN /\ canContinue \in BOOLEAN /\ aborted \in BOOLEAN /\ late \in BOOLEAN
  /\ indexed \subseteq Texts /\ refused \subseteq Texts /\ failed \subseteq Texts

HandInv ==
  /\ \A t \in Threads : at[t] \in {"putText", "waitText"} => hand[t] # <<>>
  /\ \A t \in Threads : at[t] \notin {"parse", "putText", "waitText", "index"} => hand[t] = <<>>

\* Nothing is in a sequence twice, and an archive is met once.
OnceInv ==
  /\ \A t \in Threads : IsInjective(hand[t])
  /\ IsInjective(fb2Texts)
  /\ IsInjective(archives)
  /\ ToSet(archives) \cap files = {}
  /\ at[main] \in {"putArchive", "waitArchive"} =>
       path \in Archives /\ path \notin files /\ path \notin ToSet(archives)

\* What main's place says of the flags and the queues.
StagesInv ==
  /\ noMoreFiles => files = {} /\ at[main] \notin {"list", "putArchive", "waitArchive"}
  /\ ~canContinue => at[main] \in {"join", "exited"}
  /\ at[main] \in {"stop", "join", "exited"} /\ ~late =>
       files = {} /\ archives = <<>> /\ fb2Texts = <<>> /\ \A t \in Threads : ~Parsing(t)
  /\ at[main] = "exited" => \A t \in Threads \ {main} : at[t] = "done"

IInv == Types /\ HandInv /\ OnceInv /\ TextsOnce /\ StagesInv
-----------------------------------------------------------------------------
\* Threads of Threads, and main is one of them and no name of a place.
LEMMA ThreadsAre == main \in Threads /\ \A t \in Threads : t \notin PlaceNames
BY ThreadsAssumption DEF Threads

LEMMA TypesStep ==
  ASSUME Types, HandInv, OnceInv, [Next]_vars
  PROVE  Types'
<1> USE DEF Types, Stages
<1>1. CASE ListFile
  BY <1>1, ThreadsAre DEF ListFile, flags, history
<1>2. CASE PutArchive
  <2>1. path \in Archives
    BY <1>2 DEF PutArchive, OnceInv
  <2>2. Append(archives, path) \in Seq(Archives)
    BY <2>1
  <2>3. archives' \in Seq(Archives)
    BY <1>2, <2>2 DEF PutArchive
  <2>4. at' \in [Threads -> Stages]
    BY <1>2, ThreadsAre DEF PutArchive
  <2> QED  BY <1>2, <2>3, <2>4 DEF PutArchive, listing, flags, history
<1>3. CASE EndList \/ StopAll \/ Join
  BY <1>3, ThreadsAre DEF EndList, StopAll, Join, listing, flags, history
<1>4. ASSUME NEW t \in Threads, GetArchive(t)
      PROVE  Types'
  <2>1. Head(archives) \in Archives /\ Tail(archives) \in Seq(Archives)
    BY <1>4, HeadAndTail DEF GetArchive
  <2>2. Head(archives) \in Seq(Texts)
    BY <2>1, ArchivesAssumption
  <2> QED  BY <1>4, <2>1, <2>2 DEF GetArchive, Notified, listing, flags, history
<1>5. ASSUME NEW t \in Threads, NoArchive(t) \/ ParseText(t) \/ SpuriousWakeup(t) \/ EndArchive(t)
             \/ IndexThrows(t)
      PROVE  Types'
  BY <1>5 DEF NoArchive, ParseText, SpuriousWakeup, IndexThrows, EndArchive, listing, flags, history
<1>6. ASSUME NEW t \in Threads, SkipText(t)
      PROVE  Types'
  <2>1. Head(hand[t]) \in Texts /\ Tail(hand[t]) \in Seq(Texts)
    BY <1>6 DEF SkipText
  <2> QED  BY <1>6, <2>1 DEF SkipText, listing, flags
<1>7. ASSUME NEW t \in Threads, SkipArchive(t)
      PROVE  Types'
  <2>1. ToSet(hand[t]) \subseteq Texts /\ <<>> \in Seq(Texts)
    BY DEF ToSet
  <2> QED  BY <1>7, <2>1 DEF SkipArchive, listing, flags
<1>8. ASSUME NEW t \in Threads, PutText(t)
      PROVE  Types'
  <2>1. hand[t] \in Seq(Texts) /\ hand[t] # <<>>
    BY <1>8 DEF PutText, HandInv
  <2>2. Head(hand[t]) \in Texts /\ Tail(hand[t]) \in Seq(Texts)
    BY <2>1
  <2>3. Append(fb2Texts, Head(hand[t])) \in Seq(Texts)
    BY <2>2
  <2>4. fb2Texts' \in Seq(Texts) /\ hand' \in [Threads -> Seq(Texts)]
    BY <1>8, <2>2, <2>3 DEF PutText
  <2>5. at' \in [Threads -> Stages]
    BY <1>8 DEF PutText, Notified
  <2> QED  BY <1>8, <2>4, <2>5 DEF PutText, listing, flags, history
<1>9. ASSUME NEW t \in Threads, GetText(t)
      PROVE  Types'
  <2>1. Head(fb2Texts) \in Texts /\ Tail(fb2Texts) \in Seq(Texts) /\ <<Head(fb2Texts)>> \in Seq(Texts)
    BY <1>9 DEF GetText
  <2>2. hand' \in [Threads -> Seq(Texts)] /\ fb2Texts' \in Seq(Texts)
    BY <1>9, <2>1 DEF GetText
  <2>3. at' \in [Threads -> Stages]
    BY <1>9 DEF GetText, Notified
  <2> QED  BY <1>9, <2>2, <2>3 DEF GetText, listing, flags, history
<1>10. ASSUME NEW t \in Threads, NoText(t)
       PROVE  Types'
  <2>1. late' \in BOOLEAN
    BY <1>10 DEF NoText
  <2> QED  BY <1>10, <2>1 DEF NoText, listing, flags
<1>11. ASSUME NEW t \in Threads, IndexText(t) \/ RefuseText(t)
       PROVE  Types'
  <2>1. ToSet(hand[t]) \subseteq Texts /\ <<>> \in Seq(Texts)
    BY DEF ToSet
  <2> QED  BY <1>11, <2>1 DEF IndexText, RefuseText, listing, flags
<1>12. CASE UNCHANGED vars
  BY <1>12 DEF vars
<1> HIDE DEF Types
<1> QED  BY <1>1, <1>2, <1>3, <1>4, <1>5, <1>6, <1>7, <1>8, <1>9, <1>10, <1>11, <1>12
         DEF Next, List, End, Run

LEMMA HandStep ==
  ASSUME Types, HandInv, [Next]_vars
  PROVE  HandInv'
<1> USE DEF Types, HandInv
<1>1. CASE List \/ End
  BY <1>1, ThreadsAre DEF List, End, ListFile, PutArchive, EndList, StopAll, Join
<1>2. ASSUME NEW t \in Threads,
             NoArchive(t) \/ NoText(t) \/ ParseText(t) \/ SpuriousWakeup(t) \/ EndArchive(t)
             \/ IndexThrows(t)
      PROVE  HandInv'
  BY <1>2 DEF NoArchive, NoText, ParseText, SpuriousWakeup, IndexThrows, EndArchive
<1>3. ASSUME NEW t \in Threads, SkipText(t) \/ SkipArchive(t) \/ IndexText(t) \/ RefuseText(t)
      PROVE  HandInv'
  BY <1>3 DEF SkipText, SkipArchive, IndexText, RefuseText
<1>4. ASSUME NEW t \in Threads, GetArchive(t)
      PROVE  HandInv'
  BY <1>4 DEF GetArchive, Notified
<1>5. ASSUME NEW t \in Threads, PutText(t)
      PROVE  HandInv'
  BY <1>5 DEF PutText, Notified
<1>6. ASSUME NEW t \in Threads, GetText(t)
      PROVE  HandInv'
  BY <1>6 DEF GetText, Notified
<1>7. CASE UNCHANGED vars
  BY <1>7 DEF vars
<1> HIDE DEF Types, HandInv
<1> QED  BY <1>1, <1>2, <1>3, <1>4, <1>5, <1>6, <1>7 DEF Next, Run

LEMMA OnceStep ==
  ASSUME Types, HandInv, OnceInv, TextsOnce, [Next]_vars
  PROVE  OnceInv'
<1> USE DEF OnceInv
\* What touches no sequence, no file and not main's stage at its list.
<1>1. ASSUME UNCHANGED <<hand, fb2Texts, archives, listing>>,
             at'[main] \in {"putArchive", "waitArchive"} => at[main] \in {"putArchive", "waitArchive"}
      PROVE  OnceInv'
  BY <1>1 DEF listing
<1>2. CASE ListFile
  <2>1. PICK f \in files : path' = f /\ files' = files \ {f}
    BY <1>2 DEF ListFile
  <2>2. f \in Archives /\ f \notin ToSet(archives)
    BY DEF Types
  <2>3. UNCHANGED <<hand, fb2Texts, archives>>
    BY <1>2 DEF ListFile
  <2> QED  BY <2>1, <2>2, <2>3
<1>3. CASE PutArchive
  <2>1. path \in Archives /\ path \notin files /\ path \notin ToSet(archives)
    BY <1>3 DEF PutArchive
  <2>2. UNCHANGED <<hand, fb2Texts, listing>>
    BY <1>3 DEF PutArchive
  <2>3. CASE archives' = Append(archives, path) /\ at' = [at EXCEPT ![main] = "list"]
    <3>1. IsInjective(archives') /\ ToSet(archives') = ToSet(archives) \cup {path}
      BY <2>1, <2>3, AfterAppend DEF Types
    <3>2. at'[main] = "list"
      BY <2>3, ThreadsAre DEF Types
    <3> QED  BY <2>1, <2>2, <3>1, <3>2 DEF listing
  <2>4. CASE archives' = archives
    BY <1>3, <2>1, <2>2, <2>4 DEF listing
  <2> QED  BY <1>3, <2>3, <2>4 DEF PutArchive
<1>4. CASE EndList \/ StopAll \/ Join
  BY <1>1, <1>4, ThreadsAre DEF EndList, StopAll, Join, Types
<1>5. ASSUME NEW t \in Threads, GetArchive(t)
      PROVE  OnceInv'
  <2>1. /\ IsInjective(archives') /\ ToSet(archives') \subseteq ToSet(archives)
        /\ Head(archives) \in Archives
    BY <1>5, HeadAndTail DEF GetArchive, Types
  <2>2. IsInjective(Head(archives))
    BY <2>1, ArchivesAssumption DEF IsInjective
  <2>3. \A q \in Threads : hand'[q] = IF q = t THEN Head(archives) ELSE hand[q]
    BY <1>5 DEF GetArchive, Types
  <2>4. UNCHANGED <<fb2Texts, files, path>>
    BY <1>5 DEF GetArchive, listing
  <2>5. at'[main] \in {"putArchive", "waitArchive"} => at[main] \in {"putArchive", "waitArchive"}
    BY <1>5, ThreadsAre DEF GetArchive, Notified, Types
  <2> QED  BY <2>1, <2>2, <2>3, <2>4, <2>5
<1>6. ASSUME NEW t \in Threads,
             NoArchive(t) \/ NoText(t) \/ ParseText(t) \/ EndArchive(t) \/ SpuriousWakeup(t)
             \/ IndexThrows(t)
      PROVE  OnceInv'
  <2>1. at'[main] \in {"putArchive", "waitArchive"} => at[main] \in {"putArchive", "waitArchive"}
    BY <1>6, ThreadsAre DEF NoArchive, NoText, ParseText, EndArchive, SpuriousWakeup, IndexThrows, Types
  <2> QED  BY <1>1, <1>6, <2>1 DEF NoArchive, NoText, ParseText, EndArchive, SpuriousWakeup, IndexThrows
<1>7. ASSUME NEW t \in Threads, SkipText(t) \/ SkipArchive(t) \/ IndexText(t) \/ RefuseText(t)
      PROVE  OnceInv'
  <2>1. \A q \in Threads : q # t => hand'[q] = hand[q]
    BY <1>7 DEF SkipText, SkipArchive, IndexText, RefuseText, Types
  <2>2. IsInjective(<<>>)
    BY DEF IsInjective
  <2>3. IsInjective(hand'[t])
    <3>1. CASE SkipText(t)
      <4>1. hand[t] \in Seq(Texts) /\ hand[t] # <<>>
        BY <3>1 DEF SkipText, Types
      <4>2. IsInjective(Tail(hand[t]))
        BY <4>1, HeadAndTail
      <4> QED  BY <3>1, <4>2 DEF SkipText, Types
    <3>2. CASE SkipArchive(t) \/ IndexText(t) \/ RefuseText(t)
      BY <2>2, <3>2 DEF SkipArchive, IndexText, RefuseText, Types
    <3> QED  BY <1>7, <3>1, <3>2
  <2>4. UNCHANGED <<fb2Texts, archives, files, path>>
    BY <1>7 DEF SkipText, SkipArchive, IndexText, RefuseText, listing
  <2>5. at'[main] \in {"putArchive", "waitArchive"} => at[main] \in {"putArchive", "waitArchive"}
    BY <1>7, ThreadsAre DEF SkipText, SkipArchive, IndexText, RefuseText, Types
  <2> QED  BY <2>1, <2>3, <2>4, <2>5
<1>8. ASSUME NEW t \in Threads, PutText(t)
      PROVE  OnceInv'
  <2>1. hand[t] \in Seq(Texts) /\ hand[t] # <<>>
    BY <1>8 DEF PutText, HandInv, Types
  <2>2. Head(hand[t]) \in ToSet(hand[t]) /\ IsInjective(Tail(hand[t])) /\ Head(hand[t]) \in Texts
    BY <2>1, HeadAndTail
  <2>3. t \in DOMAIN Places /\ "fb2Texts" \in DOMAIN Places /\ t # "fb2Texts"
    BY ThreadsAre DEF Places, PlaceNames
  <2>4. Places[t] = ToSet(hand[t]) /\ Places["fb2Texts"] = ToSet(fb2Texts)
    BY ThreadsAre DEF Places, PlaceNames
  <2>5. Head(hand[t]) \notin ToSet(fb2Texts)
    BY <2>2, <2>3, <2>4 DEF TextsOnce
  <2>6. IsInjective(Append(fb2Texts, Head(hand[t])))
    BY <2>2, <2>5, AfterAppend DEF Types
  <2>7. IsInjective(fb2Texts')
    BY <1>8, <2>6 DEF PutText
  <2>8. \A q \in Threads : hand'[q] # hand[q] => q = t /\ hand'[q] = Tail(hand[t])
    BY <1>8 DEF PutText, Types
  <2>9. at'[main] \in {"putArchive", "waitArchive"} => at[main] \in {"putArchive", "waitArchive"}
    BY <1>8, ThreadsAre DEF PutText, Notified, Types
  <2>10. UNCHANGED <<archives, files, path>>
    BY <1>8 DEF PutText, listing
  <2> QED  BY <2>2, <2>7, <2>8, <2>9, <2>10
<1>9. ASSUME NEW t \in Threads, GetText(t)
      PROVE  OnceInv'
  <2>1. IsInjective(fb2Texts')
    BY <1>9, HeadAndTail DEF GetText, Types
  <2>2. IsInjective(<<Head(fb2Texts)>>)
    BY DEF IsInjective
  <2>3. \A q \in Threads : hand'[q] = IF q = t THEN <<Head(fb2Texts)>> ELSE hand[q]
    BY <1>9 DEF GetText, Types
  <2>4. at'[main] \in {"putArchive", "waitArchive"} => at[main] \in {"putArchive", "waitArchive"}
    BY <1>9, ThreadsAre DEF GetText, Notified, Types
  <2>5. UNCHANGED <<archives, files, path>>
    BY <1>9 DEF GetText, listing
  <2> QED  BY <2>1, <2>2, <2>3, <2>4, <2>5
<1>10. CASE UNCHANGED vars
  BY <1>1, <1>10 DEF vars, listing
<1> HIDE DEF OnceInv
<1> QED  BY <1>2, <1>3, <1>4, <1>5, <1>6, <1>7, <1>8, <1>9, <1>10 DEF Next, List, End, Run
-----------------------------------------------------------------------------
\* What each place holds.
LEMMA PlacesAre ==
  /\ DOMAIN Places = Where
  /\ \A t \in Threads : Places[t] = ToSet(hand[t])
  /\ Places["files"] = UNION {ToSet(f) : f \in files}
  /\ Places["path"] = ToSet(AtPath)
  /\ Places["archives"] = UNION {ToSet(a) : a \in ToSet(archives)}
  /\ Places["fb2Texts"] = ToSet(fb2Texts)
  /\ Places["indexed"] = indexed
  /\ Places["refused"] = refused
  /\ Places["failed"] = failed
BY ThreadsAre DEF Places, PlaceNames, Where

\* A step that moves the texts M.
Passes(from, to, M) ==
  /\ from \in Where /\ to \in Where /\ from # to
  /\ M \subseteq Places[from]
  /\ Places'[from] = Places[from] \ M
  /\ Places'[to] = Places[to] \cup M
  /\ \A p \in Where \ {from, to} : Places'[p] = Places[p]

LEMMA OnceAfterMove ==
  ASSUME TextsOnce, NEW from, NEW to, NEW M, Passes(from, to, M)
  PROVE  TextsOnce'
<1>1. DOMAIN Places = Where /\ DOMAIN Places' = Where
  BY DEF Places, Where
<1>2. /\ UNION {Places'[p] : p \in Where} = UNION {Places[p] : p \in Where}
      /\ \A p, q \in Where : p # q => Places'[p] \cap Places'[q] = {}
  <2>1. \A p, q \in Where : p # q => Places[p] \cap Places[q] = {}
    BY <1>1 DEF TextsOnce
  <2> HIDE DEF Where
  <2> QED  BY <2>1, MoveKeeps DEF Passes
<1> QED  BY <1>1, <1>2 DEF TextsOnce

\* Archives have no text in common, nor twice.
LEMMA ArchivesApart ==
  /\ \A a \in Archives : IsInjective(a)
  /\ \A a, b \in Archives : a # b => ToSet(a) \cap ToSet(b) = {}
BY ArchivesAssumption DEF IsInjective, ToSet

LEMMA PlacesStep ==
  ASSUME Types, HandInv, OnceInv, TextsOnce, [Next]_vars
  PROVE  TextsOnce'
<1> DEFINE Listing(stage) == stage \in {"putArchive", "waitArchive"}
<1>1. /\ \A t \in Threads : Places[t] = ToSet(hand[t]) /\ Places'[t] = ToSet(hand'[t])
      /\ Places["files"] = UNION {ToSet(f) : f \in files}
      /\ Places'["files"] = UNION {ToSet(f) : f \in files'}
      /\ Places["path"] = ToSet(AtPath) /\ Places'["path"] = ToSet(AtPath')
      /\ Places["archives"] = UNION {ToSet(a) : a \in ToSet(archives)}
      /\ Places'["archives"] = UNION {ToSet(a) : a \in ToSet(archives')}
      /\ Places["fb2Texts"] = ToSet(fb2Texts) /\ Places'["fb2Texts"] = ToSet(fb2Texts')
      /\ Places["indexed"] = indexed /\ Places'["indexed"] = indexed'
      /\ Places["refused"] = refused /\ Places'["refused"] = refused'
      /\ Places["failed"] = failed /\ Places'["failed"] = failed'
      /\ DOMAIN Places = Where /\ DOMAIN Places' = Where
  BY ThreadsAre DEF Places, PlaceNames, Where
<1>2. ASSUME Listing(at'[main]) <=> Listing(at[main]), path' = path
      PROVE  AtPath' = AtPath
  BY <1>2 DEF AtPath
\* Nothing is moved.
<1>3. ASSUME UNCHANGED <<hand, files, path, archives, fb2Texts, indexed, refused, failed>>,
             Listing(at'[main]) <=> Listing(at[main])
      PROVE  TextsOnce'
  <2>1. AtPath' = AtPath
    BY <1>2, <1>3
  <2>2. Places' = Places
    BY <1>3, <2>1 DEF Places
  <2> QED  BY <2>2 DEF TextsOnce
<1>4. CASE ListFile
  <2>1. PICK f \in files : path' = f /\ files' = files \ {f}
    BY <1>4 DEF ListFile
  <2>2. AtPath = <<>> /\ AtPath' = f
    BY <1>4, <2>1, ThreadsAre DEF ListFile, AtPath, Types
  <2>3. \A g \in files \ {f} : ToSet(g) \cap ToSet(f) = {}
    BY <2>1, ArchivesApart DEF Types
  <2>4. Places'["files"] = Places["files"] \ ToSet(f) /\ ToSet(f) \subseteq Places["files"]
    BY <1>1, <2>1, <2>3
  <2>5. Places'["path"] = Places["path"] \cup ToSet(f)
    BY <1>1, <2>2, EmptyHasNone
  <2>6. \A p \in Where \ {"files", "path"} : Places'[p] = Places[p]
    BY <1>1, <1>4 DEF Where, PlaceNames, ListFile, history
  <2>7. Passes("files", "path", ToSet(f))
    BY <2>4, <2>5, <2>6 DEF Passes, Where, PlaceNames
  <2> QED  BY <2>7, OnceAfterMove
<1>5. CASE PutArchive
  <2>1. CASE archives' = archives /\ at' = [at EXCEPT ![main] = "waitArchive"]
    BY <1>3, <1>5, <2>1, ThreadsAre DEF PutArchive, Types, listing, history
  <2>2. CASE archives' = Append(archives, path) /\ at' = [at EXCEPT ![main] = "list"]
    <3>1. path \in Archives /\ AtPath = path /\ AtPath' = <<>>
      BY <1>5, <2>2, ThreadsAre DEF PutArchive, OnceInv, AtPath, Types
    <3>2. ToSet(archives') = ToSet(archives) \cup {path}
      BY <2>2, <3>1, AfterAppend DEF Types
    <3>3. Places'["archives"] = Places["archives"] \cup ToSet(path)
      BY <1>1, <3>2
    <3>4. Places'["path"] = Places["path"] \ ToSet(path) /\ ToSet(path) \subseteq Places["path"]
      BY <1>1, <3>1, EmptyHasNone
    <3>5. \A p \in Where \ {"path", "archives"} : Places'[p] = Places[p]
      BY <1>1, <1>5 DEF Where, PlaceNames, PutArchive, listing, history
    <3>6. Passes("path", "archives", ToSet(path))
      BY <3>3, <3>4, <3>5 DEF Passes, Where, PlaceNames
    <3> QED  BY <3>6, OnceAfterMove
  <2> QED  BY <1>5, <2>1, <2>2 DEF PutArchive
<1>6. CASE EndList \/ StopAll \/ Join
  <2>1. Listing(at'[main]) <=> Listing(at[main])
    BY <1>6, ThreadsAre DEF EndList, StopAll, Join, Types
  <2> QED  BY <1>3, <1>6, <2>1 DEF EndList, StopAll, Join, listing, history
<1>7. ASSUME NEW t \in Threads,
             NoArchive(t) \/ NoText(t) \/ ParseText(t) \/ EndArchive(t) \/ SpuriousWakeup(t)
             \/ IndexThrows(t)
      PROVE  TextsOnce'
  <2>1. Listing(at'[main]) <=> Listing(at[main])
    BY <1>7, ThreadsAre DEF NoArchive, NoText, ParseText, EndArchive, SpuriousWakeup, IndexThrows, Types
  <2> QED  BY <1>3, <1>7, <2>1
           DEF NoArchive, NoText, ParseText, EndArchive, SpuriousWakeup, IndexThrows, listing, history
<1>8. ASSUME NEW t \in Threads, GetArchive(t)
      PROVE  TextsOnce'
  <2> DEFINE a == Head(archives)
  <2>1. /\ a \in Archives /\ ToSet(archives) = {a} \cup ToSet(archives')
        /\ a \notin ToSet(archives') /\ ToSet(archives') \subseteq Archives
    <3>1. archives # <<>> /\ archives' = Tail(archives)
      BY <1>8 DEF GetArchive
    <3>2. /\ a \in Archives /\ archives' \in Seq(Archives)
          /\ ToSet(archives) = {a} \cup ToSet(archives') /\ a \notin ToSet(archives')
      BY <3>1, HeadAndTail DEF Types, OnceInv
    <3> QED  BY <3>2 DEF ToSet
  <2>2. \A b \in ToSet(archives') : ToSet(b) \cap ToSet(a) = {}
    BY <2>1, ArchivesApart
  <2> HIDE DEF a
  <2>3. Places'["archives"] = Places["archives"] \ ToSet(a) /\ ToSet(a) \subseteq Places["archives"]
    BY <1>1, <2>1, <2>2
  <2>4. hand[t] = <<>> /\ hand'[t] = a /\ \A q \in Threads \ {t} : hand'[q] = hand[q]
    BY <1>8 DEF GetArchive, HandInv, Types, a
  <2>5. Places'[t] = Places[t] \cup ToSet(a)
    BY <1>1, <2>4, EmptyHasNone
  <2>6. AtPath' = AtPath
    BY <1>2, <1>8, ThreadsAre DEF GetArchive, Notified, Types, listing
  <2>7. \A p \in Where \ {"archives", t} : Places'[p] = Places[p]
    <3>1. UNCHANGED <<files, fb2Texts, indexed, refused, failed>>
      BY <1>8 DEF GetArchive, listing, history
    <3> QED  BY <1>1, <2>4, <2>6, <3>1 DEF Where, PlaceNames
  <2>8. Passes("archives", t, ToSet(a))
    BY <2>3, <2>5, <2>7, ThreadsAre DEF Passes, Where, PlaceNames
  <2> QED  BY <2>8, OnceAfterMove
<1>9. ASSUME NEW t \in Threads, SkipText(t)
      PROVE  TextsOnce'
  <2>1. hand[t] \in Seq(Texts) /\ hand[t] # <<>> /\ hand'[t] = Tail(hand[t])
        /\ \A q \in Threads \ {t} : hand'[q] = hand[q]
    BY <1>9 DEF SkipText, Types
  <2>2. Places'[t] = Places[t] \ {Head(hand[t])} /\ {Head(hand[t])} \subseteq Places[t]
    BY <1>1, <2>1, HeadAndTail DEF OnceInv
  <2>3. Places'["failed"] = Places["failed"] \cup {Head(hand[t])}
    BY <1>1, <1>9 DEF SkipText
  <2>4. UNCHANGED <<at, files, path, archives, fb2Texts, indexed, refused>>
    BY <1>9 DEF SkipText, listing
  <2>5. \A p \in Where \ {t, "failed"} : Places'[p] = Places[p]
    BY <1>1, <1>2, <2>1, <2>4 DEF Where, PlaceNames
  <2>6. Passes(t, "failed", {Head(hand[t])})
    BY <2>2, <2>3, <2>5, ThreadsAre DEF Passes, Where, PlaceNames
  <2> QED  BY <2>6, OnceAfterMove
<1>10. ASSUME NEW t \in Threads, SkipArchive(t) \/ IndexText(t) \/ RefuseText(t)
       PROVE  TextsOnce'
  <2>1. hand'[t] = <<>> /\ \A q \in Threads \ {t} : hand'[q] = hand[q]
    BY <1>10 DEF SkipArchive, IndexText, RefuseText, Types
  <2>2. Places'[t] = Places[t] \ ToSet(hand[t]) /\ ToSet(hand[t]) \subseteq Places[t]
    BY <1>1, <2>1, EmptyHasNone
  <2>3. AtPath' = AtPath
    BY <1>2, <1>10, ThreadsAre DEF SkipArchive, IndexText, RefuseText, Types, listing
  <2>4. UNCHANGED <<files, archives, fb2Texts>>
    BY <1>10 DEF SkipArchive, IndexText, RefuseText, listing
  <2>5. CASE SkipArchive(t)
    <3>1. failed' = failed \cup ToSet(hand[t]) /\ UNCHANGED <<indexed, refused>>
      BY <2>5 DEF SkipArchive
    <3>2. \A p \in Where \ {t, "failed"} : Places'[p] = Places[p]
      BY <1>1, <2>1, <2>3, <2>4, <3>1 DEF Where, PlaceNames
    <3>3. Places'["failed"] = Places["failed"] \cup ToSet(hand[t])
      BY <1>1, <3>1
    <3>4. Passes(t, "failed", ToSet(hand[t]))
      BY <2>2, <3>2, <3>3, ThreadsAre DEF Passes, Where, PlaceNames
    <3> QED  BY <3>4, OnceAfterMove
  <2>6. CASE IndexText(t)
    <3>1. indexed' = indexed \cup ToSet(hand[t]) /\ UNCHANGED <<refused, failed>>
      BY <2>6 DEF IndexText
    <3>2. \A p \in Where \ {t, "indexed"} : Places'[p] = Places[p]
      BY <1>1, <2>1, <2>3, <2>4, <3>1 DEF Where, PlaceNames
    <3>3. Places'["indexed"] = Places["indexed"] \cup ToSet(hand[t])
      BY <1>1, <3>1
    <3>4. Passes(t, "indexed", ToSet(hand[t]))
      BY <2>2, <3>2, <3>3, ThreadsAre DEF Passes, Where, PlaceNames
    <3> QED  BY <3>4, OnceAfterMove
  <2>7. CASE RefuseText(t)
    <3>1. refused' = refused \cup ToSet(hand[t]) /\ UNCHANGED <<indexed, failed>>
      BY <2>7 DEF RefuseText
    <3>2. \A p \in Where \ {t, "refused"} : Places'[p] = Places[p]
      BY <1>1, <2>1, <2>3, <2>4, <3>1 DEF Where, PlaceNames
    <3>3. Places'["refused"] = Places["refused"] \cup ToSet(hand[t])
      BY <1>1, <3>1
    <3>4. Passes(t, "refused", ToSet(hand[t]))
      BY <2>2, <3>2, <3>3, ThreadsAre DEF Passes, Where, PlaceNames
    <3> QED  BY <3>4, OnceAfterMove
  <2> QED  BY <1>10, <2>5, <2>6, <2>7
<1>11. ASSUME NEW t \in Threads, PutText(t)
       PROVE  TextsOnce'
  <2>1. hand[t] \in Seq(Texts) /\ hand[t] # <<>>
    BY <1>11 DEF PutText, HandInv, Types
  <2>2. UNCHANGED <<files, path, archives, indexed, refused, failed>>
    BY <1>11 DEF PutText, listing, history
  <2>3. AtPath' = AtPath
    BY <1>2, <1>11, <2>2, ThreadsAre DEF PutText, Notified, Types
  <2>4. CASE UNCHANGED <<hand, fb2Texts>>
    <3>1. Places' = Places
      BY <2>2, <2>3, <2>4 DEF Places
    <3> QED  BY <3>1 DEF TextsOnce
  <2>5. CASE fb2Texts' = Append(fb2Texts, Head(hand[t])) /\ hand' = [hand EXCEPT ![t] = Tail(hand[t])]
    <3>1. hand'[t] = Tail(hand[t]) /\ \A q \in Threads \ {t} : hand'[q] = hand[q]
      BY <2>5 DEF Types
    <3>2. /\ Places'[t] = Places[t] \ {Head(hand[t])} /\ {Head(hand[t])} \subseteq Places[t]
          /\ Head(hand[t]) \in Texts
      BY <1>1, <2>1, <3>1, HeadAndTail DEF OnceInv
    <3>3. Places'["fb2Texts"] = Places["fb2Texts"] \cup {Head(hand[t])}
      BY <1>1, <2>5, <3>2, AfterAppend DEF Types
    <3>4. \A p \in Where \ {t, "fb2Texts"} : Places'[p] = Places[p]
      BY <1>1, <2>2, <2>3, <3>1 DEF Where, PlaceNames
    <3>5. Passes(t, "fb2Texts", {Head(hand[t])})
      BY <3>2, <3>3, <3>4, ThreadsAre DEF Passes, Where, PlaceNames
    <3> QED  BY <3>5, OnceAfterMove
  <2> QED  BY <1>11, <2>4, <2>5 DEF PutText
<1>12. ASSUME NEW t \in Threads, GetText(t)
       PROVE  TextsOnce'
  <2>1. fb2Texts # <<>> /\ fb2Texts' = Tail(fb2Texts)
    BY <1>12 DEF GetText
  <2>2. /\ Places'["fb2Texts"] = Places["fb2Texts"] \ {Head(fb2Texts)}
        /\ {Head(fb2Texts)} \subseteq Places["fb2Texts"]
    BY <1>1, <2>1, HeadAndTail DEF OnceInv, Types
  <2>3. hand[t] = <<>> /\ hand'[t] = <<Head(fb2Texts)>> /\ \A q \in Threads \ {t} : hand'[q] = hand[q]
    BY <1>12 DEF GetText, HandInv, Types
  <2>4. ToSet(<<Head(fb2Texts)>>) = {Head(fb2Texts)}
    BY DEF ToSet
  <2>5. Places'[t] = Places[t] \cup {Head(fb2Texts)}
    BY <1>1, <2>3, <2>4, EmptyHasNone
  <2>6. UNCHANGED <<files, path, archives, indexed, refused, failed>>
    BY <1>12 DEF GetText, listing, history
  <2>7. AtPath' = AtPath
    BY <1>2, <1>12, <2>6, ThreadsAre DEF GetText, Notified, Types
  <2>8. \A p \in Where \ {"fb2Texts", t} : Places'[p] = Places[p]
    BY <1>1, <2>3, <2>6, <2>7 DEF Where, PlaceNames
  <2>9. Passes("fb2Texts", t, {Head(fb2Texts)})
    BY <2>2, <2>5, <2>8, ThreadsAre DEF Passes, Where, PlaceNames
  <2> QED  BY <2>9, OnceAfterMove
<1>13. CASE UNCHANGED vars
  BY <1>3, <1>13 DEF vars, listing, history
<1> QED  BY <1>4, <1>5, <1>6, <1>7, <1>8, <1>9, <1>10, <1>11, <1>12, <1>13 DEF Next, List, End, Run
-----------------------------------------------------------------------------
LEMMA StagesStep ==
  ASSUME Types, Types', StagesInv, [Next]_vars
  PROVE  StagesInv'
<1> DEFINE Ended(stage) == stage \in {"stop", "join", "exited"}
           Emptied == /\ files = {} /\ archives = <<>> /\ fb2Texts = <<>>
                      /\ \A t \in Threads : ~Parsing(t)
<1>1. ASSUME NEW t \in Threads, at[t] = at'[t] \/ at'[t] \notin {"parse", "putText", "waitText"},
             ~Parsing(t)
      PROVE  ~Parsing(t)'
  BY <1>1 DEF Parsing
\* What happens to main until it has found no texts.
<1>2. CASE ListFile \/ PutArchive
  <2>1. at[main] \in {"list", "putArchive"} /\ at'[main] \in {"list", "putArchive", "waitArchive"}
    BY <1>2, ThreadsAre DEF ListFile, PutArchive, Types
  <2>2. UNCHANGED flags
    BY <1>2 DEF ListFile, PutArchive
  <2> QED  BY <2>1, <2>2 DEF StagesInv, flags
<1>3. CASE EndList
  <2>1. /\ at[main] = "list" /\ at'[main] = "getArchive" /\ files' = {}
        /\ canContinue' = canContinue
    BY <1>3, ThreadsAre DEF EndList, listing, Types
  <2> QED  BY <2>1 DEF StagesInv
<1>4. CASE StopAll
  <2>1. /\ at[main] = "stop" /\ at'[main] = "join"
        /\ \A t \in Threads : at'[t] = at[t] \/ at'[t] = "join"
        /\ UNCHANGED <<files, archives, fb2Texts, noMoreFiles, late>>
    BY <1>4, ThreadsAre DEF StopAll, listing, history, Types
  <2>2. \A t \in Threads : ~Parsing(t) => ~Parsing(t)'
    BY <1>1, <2>1
  <2> QED  BY <2>1, <2>2 DEF StagesInv
<1>5. CASE Join
  <2>1. /\ at[main] = "join" /\ at'[main] = "exited"
        /\ \A t \in Threads \ {main} : at'[t] = at[t] /\ at[t] = "done"
        /\ UNCHANGED <<files, archives, fb2Texts, flags, late>>
    BY <1>5, ThreadsAre DEF Join, listing, history, Types
  <2>2. \A t \in Threads : ~Parsing(t) => ~Parsing(t)'
    BY <1>1, <2>1
  <2> QED  BY <2>1, <2>2 DEF StagesInv, flags
\* What the threads do leaves the end as it is.
<1>6. ASSUME NEW t \in Threads, Run(t) \/ SpuriousWakeup(t) \/ IndexThrows(t)
      PROVE  StagesInv'
  <2>1. UNCHANGED <<files, noMoreFiles, canContinue>>
    BY <1>6 DEF Run, GetArchive, NoArchive, ParseText, SkipText, SkipArchive, PutText,
                EndArchive, GetText, NoText, IndexText, RefuseText, SpuriousWakeup, IndexThrows, listing, flags
  <2>2. at'[main] \in {"list", "putArchive", "waitArchive"} =>
          at[main] \in {"list", "putArchive", "waitArchive"}
    BY <1>6, ThreadsAre
       DEF Run, GetArchive, NoArchive, ParseText, SkipText, SkipArchive, PutText, Notified,
           EndArchive, GetText, NoText, IndexText, RefuseText, SpuriousWakeup, IndexThrows, Types
  <2>3. at[main] \in {"join", "exited"} => at'[main] = at[main]
    BY <1>6, ThreadsAre
       DEF Run, GetArchive, NoArchive, ParseText, SkipText, SkipArchive, PutText, Notified,
           EndArchive, GetText, NoText, IndexText, RefuseText, SpuriousWakeup, IndexThrows, Types
  <2>4. at'[main] = "exited" => at[main] = "exited"
    BY <1>6, ThreadsAre
       DEF Run, GetArchive, NoArchive, ParseText, SkipText, SkipArchive, PutText, Notified,
           EndArchive, GetText, NoText, IndexText, RefuseText, SpuriousWakeup, IndexThrows, Types
  <2>5. ASSUME at[main] = "exited"
        PROVE  \A q \in Threads \ {main} : at'[q] = "done"
    <3>1. \A q \in Threads \ {main} : at[q] = "done"
      BY <2>5 DEF StagesInv
    <3>2. \A q \in Threads : at[q] = "done" => at'[q] = "done"
      BY <1>6
         DEF Run, GetArchive, NoArchive, ParseText, SkipText, SkipArchive, PutText, Notified,
             EndArchive, GetText, NoText, IndexText, RefuseText, SpuriousWakeup, IndexThrows, Types
    <3> QED  BY <3>1, <3>2
  \* Once all is empty there is nothing to get, to parse or to put.
  <2>6. ASSUME Emptied
        PROVE  Emptied'
    <3>1. ~GetArchive(t) /\ ~GetText(t)
      BY <2>6 DEF GetArchive, GetText
    <3>2. ~ParseText(t) /\ ~SkipText(t) /\ ~SkipArchive(t) /\ ~PutText(t) /\ ~EndArchive(t)
      BY <2>6 DEF ParseText, SkipText, SkipArchive, PutText, EndArchive, Parsing
    <3>3. NoArchive(t) \/ NoText(t) \/ IndexText(t) \/ RefuseText(t) \/ SpuriousWakeup(t) \/ IndexThrows(t)
      BY <1>6, <3>1, <3>2 DEF Run
    <3>4. \A q \in Threads : at'[q] = at[q] \/ at'[q] \notin {"parse", "waitText"}
      BY <3>3 DEF NoArchive, NoText, IndexText, RefuseText, SpuriousWakeup, IndexThrows, Types
    <3>5. \A q \in Threads : at'[q] = at[q] \/ at'[q] # "putText"
      <4>1. at[t] # "waitText"
        BY <2>6 DEF Parsing
      <4> QED  BY <3>3, <4>1 DEF NoArchive, NoText, IndexText, RefuseText, SpuriousWakeup, IndexThrows, Types
    <3>6. \A q \in Threads : ~Parsing(q)'
      BY <1>1, <2>6, <3>4, <3>5
    <3>7. UNCHANGED <<files, archives, fb2Texts>>
      BY <3>3 DEF NoArchive, NoText, IndexText, RefuseText, SpuriousWakeup, IndexThrows, listing
    <3> QED  BY <2>6, <3>6, <3>7
  <2>7. ASSUME Ended(at'[main]), ~Ended(at[main]), late' = FALSE
        PROVE  Emptied'
    <3>1. NoText(main) /\ t = main
      BY <1>6, <2>7, ThreadsAre
         DEF Run, GetArchive, NoArchive, ParseText, SkipText, SkipArchive, PutText, Notified,
             EndArchive, GetText, NoText, IndexText, RefuseText, SpuriousWakeup, IndexThrows, Types
    <3>2. ~Busy
      BY <2>7, <3>1 DEF NoText
    <3>3. fb2Texts = <<>> /\ files = {}
      BY <3>1, <2>7 DEF NoText, StagesInv
    <3>4. archives = <<>> /\ \A q \in Threads : ~Parsing(q)
      BY <3>2 DEF Busy
    <3>5. Emptied
      BY <3>3, <3>4
    <3> QED  BY <2>6, <3>5
  <2>8. late' = FALSE => late = FALSE
    BY <1>6 DEF Run, GetArchive, NoArchive, ParseText, SkipText, SkipArchive, PutText,
                EndArchive, GetText, NoText, IndexText, RefuseText, SpuriousWakeup, IndexThrows, history, Types
  <2>9. late' \in BOOLEAN /\ late \in BOOLEAN
    BY DEF Types
  <2>10. Ended(at'[main]) /\ late' = FALSE => Emptied'
    <3>1. Ended(at[main]) /\ late = FALSE => Emptied
      BY DEF StagesInv
    <3> QED  BY <2>6, <2>7, <2>8, <3>1
  <2> QED  BY <2>1, <2>2, <2>3, <2>4, <2>5, <2>9, <2>10 DEF StagesInv, flags
<1>7. CASE UNCHANGED vars
  BY <1>7 DEF vars, StagesInv, Parsing
<1> QED  BY <1>2, <1>3, <1>4, <1>5, <1>6, <1>7 DEF Next, List, End
-----------------------------------------------------------------------------
LEMMA InitInvariant == Init => IInv
<1> SUFFICES ASSUME Init PROVE IInv
  OBVIOUS
<1>1. \A t \in Threads : hand[t] = <<>>
  BY DEF Init
<1>2. at[main] = "list" /\ at \in [Threads -> {"list", "getArchive", "getText"}]
  BY ThreadsAssumption, ThreadsAre DEF Init, Threads
<1>3. Types
  <2>1. at \in [Threads -> Stages]
    BY <1>2 DEF Stages
  <2>2. hand \in [Threads -> Seq(Texts)] /\ archives \in Seq(Archives) /\ fb2Texts \in Seq(Texts)
    <3>1. <<>> \in Seq(Texts) /\ <<>> \in Seq(Archives)
      OBVIOUS
    <3> QED  BY <3>1 DEF Init
  <2> QED  BY <2>1, <2>2 DEF Types, Init
<1>4. HandInv /\ OnceInv
  <2>1. \A t \in Threads : at[t] \in {"list", "getArchive", "getText"}
    BY <1>2
  <2>2. IsInjective(<<>>) /\ ToSet(<<>>) = {}
    BY DEF IsInjective, ToSet
  <2>3. archives = <<>> /\ fb2Texts = <<>>
    BY DEF Init
  <2> QED  BY <1>1, <1>2, <2>1, <2>2, <2>3 DEF HandInv, OnceInv
<1>5. StagesInv
  BY <1>2 DEF StagesInv, Init
<1>6. TextsOnce
  <2>1. \A p \in Where \ {"files"} : Places[p] = {}
    BY <1>1, <1>2, PlacesAre, EmptyHasNone DEF Init, AtPath, Where, PlaceNames
  <2>2. Places["files"] = UNION {ToSet(a) : a \in Archives} /\ "files" \in Where
    BY PlacesAre DEF Init, Where, PlaceNames
  <2>3. DOMAIN Places = Where
    BY PlacesAre
  <2> HIDE DEF Where
  <2> QED  BY <2>1, <2>2, <2>3 DEF TextsOnce
<1> QED  BY <1>3, <1>4, <1>5, <1>6 DEF IInv

\* IInv holds of every state the indexer reaches.
THEOREM Invariance == Spec => []IInv
<1>1. IInv /\ [Next]_vars => IInv'
  BY TypesStep, HandStep, OnceStep, PlacesStep, StagesStep DEF IInv
<1> QED  BY InitInvariant, <1>1, PTL DEF Spec

\* The queues keep their limits until main stops the threads.
Limited ==
  /\ Len(archives) <= ArchivesLimit
  /\ canContinue => Len(fb2Texts) <= TextsLimit

\* Every variable has its type, and the queues keep their limits: what a thread
\* puts it puts below the limit, and main, which lists until there are no more
\* files, puts nothing once all are stopped.
THEOREM TypeCorrect == Spec => []TypeOK
<1>1. Init => Limited
  BY LimitsAssumption DEF Init, Limited
<1>2. ASSUME IInv, Limited, [Next]_vars
      PROVE  Limited'
  <2>1. Len(archives) \in Nat /\ Len(fb2Texts) \in Nat
    BY <1>2 DEF IInv, Types
  <2>2. CASE PutArchive
    <3>1. canContinue = TRUE
      BY <1>2, <2>2 DEF PutArchive, IInv, StagesInv, Types
    <3>2. path \in Archives
      BY <1>2, <2>2 DEF PutArchive, IInv, OnceInv
    <3>3. Len(Append(archives, path)) = Len(archives) + 1
      BY <1>2, <3>2 DEF IInv, Types
    <3>4. Len(archives') <= ArchivesLimit
      BY <1>2, <2>1, <2>2, <3>1, <3>3, LimitsAssumption DEF PutArchive, Limited
    <3> QED  BY <1>2, <2>2, <3>4 DEF PutArchive, Limited, flags
  <2>3. CASE ListFile \/ EndList \/ StopAll \/ Join
    BY <1>2, <2>3 DEF Limited, ListFile, EndList, StopAll, Join, flags
  <2>4. ASSUME NEW t \in Threads, PutText(t)
        PROVE  Limited'
    <3>1. hand[t] \in Seq(Texts) /\ hand[t] # <<>>
      BY <1>2, <2>4 DEF PutText, IInv, HandInv, Types
    <3>2. Len(Append(fb2Texts, Head(hand[t]))) = Len(fb2Texts) + 1
      BY <1>2, <3>1 DEF IInv, Types
    <3>3. canContinue' = canContinue /\ archives' = archives
      BY <2>4 DEF PutText, flags
    <3>4. canContinue => Len(fb2Texts') <= TextsLimit
      BY <1>2, <2>1, <2>4, <3>2, LimitsAssumption DEF PutText, Limited
    <3> QED  BY <1>2, <3>3, <3>4 DEF Limited
  <2>5. ASSUME NEW t \in Threads, GetArchive(t) \/ GetText(t)
        PROVE  Limited'
    <3>1. archives # <<>> => Len(Tail(archives)) = Len(archives) - 1
      BY <1>2 DEF IInv, Types
    <3>2. fb2Texts # <<>> => Len(Tail(fb2Texts)) = Len(fb2Texts) - 1
      BY <1>2 DEF IInv, Types
    <3>3. CASE GetArchive(t)
      BY <1>2, <2>1, <3>1, <3>3, LimitsAssumption DEF GetArchive, Limited, flags
    <3>4. CASE GetText(t)
      BY <1>2, <2>1, <3>2, <3>4, LimitsAssumption DEF GetText, Limited, flags
    <3> QED  BY <2>5, <3>3, <3>4
  <2>6. ASSUME NEW t \in Threads,
               NoArchive(t) \/ ParseText(t) \/ SkipText(t) \/ SkipArchive(t) \/ EndArchive(t)
               \/ NoText(t) \/ IndexText(t) \/ RefuseText(t) \/ SpuriousWakeup(t) \/ IndexThrows(t)
        PROVE  Limited'
    BY <1>2, <2>6 DEF Limited, NoArchive, ParseText, SkipText, SkipArchive, EndArchive, NoText,
                      IndexText, RefuseText, SpuriousWakeup, IndexThrows, flags
  <2>7. CASE UNCHANGED vars
    BY <1>2, <2>7 DEF Limited, vars
  <2> QED  BY <1>2, <2>2, <2>3, <2>4, <2>5, <2>6, <2>7 DEF Next, List, End, Run
<1>3. IInv /\ Limited => TypeOK
  BY DEF IInv, Types, Stages, Limited, TypeOK
<1> QED  BY Invariance, <1>1, <1>2, <1>3, PTL DEF Spec

\* Every text of the archives is at one place on its way, whatever the threads do.
THEOREM TextsAreOnce == Spec => []TextsOnce
<1>1. IInv => TextsOnce
  BY DEF IInv
<1> QED  BY Invariance, <1>1, PTL

\* Of the program that ends in order, Insert took or refused every text that
\* parsed, and all the archives' texts were tried, unless main stopped the others
\* while an archive was parsed (main, IndexTexts and the Get of the queues).
THEOREM AllAreIndexed == Spec => []AllIndexedUnlessLate
<1>1. IInv => AllIndexedUnlessLate
  <2> SUFFICES ASSUME IInv, at[main] = "exited", late = FALSE
               PROVE  indexed \cup refused \cup failed = UNION {ToSet(a) : a \in Archives}
    BY DEF AllIndexedUnlessLate, IInv, Types
  <2>1. files = {} /\ archives = <<>> /\ fb2Texts = <<>>
    BY DEF IInv, StagesInv
  <2>2. \A t \in Threads : at[t] \in {"done", "exited"}
    BY DEF IInv, StagesInv
  <2>3. \A t \in Threads : hand[t] = <<>>
    BY <2>2 DEF IInv, HandInv
  <2>4. \A p \in Where \ {"indexed", "refused", "failed"} : Places[p] = {}
    BY <2>1, <2>3, PlacesAre, EmptyHasNone DEF Where, PlaceNames, AtPath
  <2>5. /\ Places["indexed"] = indexed /\ Places["refused"] = refused /\ Places["failed"] = failed
        /\ "indexed" \in Where /\ "refused" \in Where /\ "failed" \in Where /\ DOMAIN Places = Where
    BY PlacesAre DEF Where, PlaceNames
  <2>6. UNION {Places[p] : p \in Where} = UNION {ToSet(a) : a \in Archives}
    BY <2>5 DEF IInv, TextsOnce
  <2> HIDE DEF Where
  <2> QED  BY <2>4, <2>5, <2>6
<1> QED  BY Invariance, <1>1, PTL

-----------------------------------------------------------------------------
(* Where the indexer may come to rest.                                     *)

\* Who does what: only main lists, parsers end instead of indexing, indexers
\* never parse, and a thread ends only when no more files come.
RolesInv ==
  /\ \A t \in Threads \ {main} :
       at[t] \in {"getArchive", "parse", "putText", "waitText", "getText", "index", "done"}
  /\ \A t \in Parsers : at[t] \notin {"getText", "index"}
  /\ \A t \in Indexers : at[t] \in {"getText", "index", "done"}
  /\ at[main] # "done"
  /\ at[main] \notin {"list", "putArchive", "waitArchive"} => noMoreFiles
  /\ \A t \in Threads : at[t] = "done" => noMoreFiles

\* Who waits to put waits at a full queue: every place that comes free wakes it.
FullInv ==
  /\ at[main] = "waitArchive" => Len(archives) >= ArchivesLimit
  /\ \A t \in Threads : at[t] = "waitText" /\ canContinue => Len(fb2Texts) >= TextsLimit

\* No thread can go on: each waits to put, waits for what no queue has, has
\* ended, or waits for one that has not.
Stalled ==
  \A t \in Threads :
    \/ at[t] \in {"waitArchive", "waitText", "done", "exited"}
    \/ at[t] = "getArchive" /\ archives = <<>> /\ ~noMoreFiles
    \/ at[t] = "getText" /\ fb2Texts = <<>> /\ ~noMoreFiles
    \/ at[t] = "join" /\ \E q \in Threads \ {main} : at[q] # "done"

\* The two queues do not block each other: with a parser and an indexer, the
\* program stands still before its end only where EndsUnlessLate lets it.
StallsOnlyIfLate ==
  Parsers # {} /\ Indexers # {} /\ Stalled => at[main] = "exited" \/ late \/ Deserted

LEMMA RolesStep ==
  ASSUME Types, StagesInv, RolesInv, [Next]_vars
  PROVE  RolesInv'
<1>1. /\ main \in Threads /\ main \notin Parsers /\ main \notin Indexers
      /\ Parsers \subseteq Threads /\ Indexers \subseteq Threads
      /\ \A t \in Parsers : t \notin Indexers
  BY ThreadsAssumption DEF Threads
<1>2. ~canContinue => noMoreFiles
  BY DEF StagesInv, RolesInv
<1>3. CASE List \/ End
  BY <1>1, <1>3 DEF RolesInv, Types, List, End, ListFile, PutArchive, EndList, StopAll, Join, flags
<1>4. ASSUME NEW t \in Threads, Run(t) \/ SpuriousWakeup(t) \/ IndexThrows(t)
      PROVE  RolesInv'
  <2>1. noMoreFiles' = noMoreFiles
    BY <1>4 DEF Run, GetArchive, NoArchive, ParseText, SkipText, SkipArchive, PutText,
                EndArchive, GetText, NoText, IndexText, RefuseText, SpuriousWakeup, IndexThrows, flags
  <2>2. CASE GetArchive(t)
    BY <1>1, <2>1, <2>2 DEF RolesInv, Types, GetArchive, Notified
  <2>3. CASE NoArchive(t)
    BY <1>1, <1>2, <2>1, <2>3 DEF RolesInv, Types, NoArchive
  <2>4. CASE ParseText(t) \/ SkipText(t) \/ SkipArchive(t) \/ EndArchive(t)
    BY <1>1, <2>1, <2>4 DEF RolesInv, Types, ParseText, SkipText, SkipArchive, EndArchive
  <2>5. CASE PutText(t)
    BY <1>1, <2>1, <2>5 DEF RolesInv, Types, PutText, Notified
  <2>6. CASE GetText(t)
    BY <1>1, <2>1, <2>6 DEF RolesInv, Types, GetText, Notified
  <2>7. CASE NoText(t)
    BY <1>1, <1>2, <2>1, <2>7 DEF RolesInv, Types, NoText
  <2>8. CASE IndexText(t) \/ RefuseText(t)
    BY <1>1, <2>1, <2>8 DEF RolesInv, Types, IndexText, RefuseText
  <2>9. CASE SpuriousWakeup(t) \/ IndexThrows(t)
    BY <1>1, <2>1, <2>9 DEF RolesInv, Types, SpuriousWakeup, IndexThrows
  <2> QED  BY <1>4, <2>2, <2>3, <2>4, <2>5, <2>6, <2>7, <2>8, <2>9 DEF Run
<1>5. CASE UNCHANGED vars
  BY <1>5 DEF vars, RolesInv
<1> QED  BY <1>3, <1>4, <1>5 DEF Next

LEMMA FullStep ==
  ASSUME Types, StagesInv, RolesInv, FullInv, [Next]_vars
  PROVE  FullInv'
<1>1. main \in Threads
  BY ThreadsAre
<1>2. Len(archives) \in Nat /\ Len(fb2Texts) \in Nat
  BY DEF Types
<1>3. CASE ListFile \/ EndList \/ StopAll \/ Join
  BY <1>1, <1>3 DEF FullInv, Types, ListFile, EndList, StopAll, Join, flags
<1>4. CASE PutArchive
  <2>1. CASE Len(archives) < ArchivesLimit \/ ~canContinue
    BY <1>1, <1>4, <2>1 DEF FullInv, Types, PutArchive, flags
  <2>2. CASE ~(Len(archives) < ArchivesLimit \/ ~canContinue)
    BY <1>1, <1>2, <1>4, <2>2, LimitsAssumption DEF FullInv, Types, PutArchive, flags
  <2> QED  BY <2>1, <2>2
<1>5. ASSUME NEW t \in Threads, GetArchive(t)
      PROVE  FullInv'
  BY <1>1, <1>5 DEF FullInv, Types, GetArchive, Notified, flags
<1>6. ASSUME NEW t \in Threads, GetText(t)
      PROVE  FullInv'
  BY <1>1, <1>6 DEF FullInv, Types, GetText, Notified, flags
<1>7. ASSUME NEW t \in Threads, PutText(t)
      PROVE  FullInv'
  <2>1. CASE Len(fb2Texts) < TextsLimit \/ ~canContinue
    BY <1>1, <1>7, <2>1 DEF FullInv, Types, PutText, Notified, flags
  <2>2. CASE ~(Len(fb2Texts) < TextsLimit \/ ~canContinue)
    BY <1>1, <1>2, <1>7, <2>2, LimitsAssumption DEF FullInv, Types, PutText, flags
  <2> QED  BY <2>1, <2>2
<1>8. ASSUME NEW t \in Threads,
             NoArchive(t) \/ ParseText(t) \/ SkipText(t) \/ SkipArchive(t) \/ EndArchive(t)
             \/ NoText(t) \/ IndexText(t) \/ RefuseText(t) \/ SpuriousWakeup(t) \/ IndexThrows(t)
      PROVE  FullInv'
  BY <1>1, <1>8 DEF FullInv, Types, NoArchive, ParseText, SkipText, SkipArchive, EndArchive,
                    NoText, IndexText, RefuseText, SpuriousWakeup, IndexThrows, flags
<1>9. CASE UNCHANGED vars
  BY <1>9 DEF vars, FullInv
<1> QED  BY <1>3, <1>4, <1>5, <1>6, <1>7, <1>8, <1>9 DEF Next, List, End, Run

LEMMA FullIsNotEmpty ==
  ASSUME Types, FullInv
  PROVE  /\ at[main] = "waitArchive" => archives # <<>>
         /\ \A t \in Threads : at[t] = "waitText" /\ canContinue => fb2Texts # <<>>
<1>1. archives = <<>> => Len(archives) = 0
  OBVIOUS
<1>2. fb2Texts = <<>> => Len(fb2Texts) = 0
  OBVIOUS
<1> QED  BY <1>1, <1>2, LimitsAssumption DEF FullInv

\* The program stands still before its end only where main stopped the others
\* early or parses when all indexers have left: main that waits to put an archive
\* leaves it to a parser, a parser that waits to put a text leaves it to an
\* indexer, and nobody has ended while files may come.
THEOREM StallsAreLate == Spec => []StallsOnlyIfLate
<1>1. Init => RolesInv /\ FullInv
  BY ThreadsAssumption DEF Init, RolesInv, FullInv, Threads
<1>2. ASSUME IInv, RolesInv, FullInv
      PROVE  StallsOnlyIfLate
  <2> SUFFICES ASSUME NEW p \in Parsers, NEW i \in Indexers, Stalled,
                      at[main] # "exited", ~late, ~Deserted
               PROVE  FALSE
    BY DEF StallsOnlyIfLate
  <2>1. p \in Threads /\ i \in Threads /\ main \in Threads /\ p # main /\ i # main
    BY ThreadsAssumption DEF Threads
  <2>2. canContinue \in BOOLEAN /\ noMoreFiles \in BOOLEAN
    BY <1>2 DEF IInv, Types
  <2>3. CASE at[main] = "waitArchive"
    <3>1. archives # <<>> /\ ~noMoreFiles /\ canContinue
      BY <1>2, <2>2, <2>3, FullIsNotEmpty DEF IInv, StagesInv
    <3>2. at[p] = "waitText"
      BY <1>2, <2>1, <3>1 DEF Stalled, RolesInv
    <3>3. fb2Texts # <<>>
      BY <1>2, <2>1, <3>1, <3>2, FullIsNotEmpty DEF IInv
    <3> QED  BY <1>2, <2>1, <3>1, <3>3 DEF Stalled, RolesInv
  <2>4. CASE at[main] = "waitText"
    <3>1. canContinue
      BY <1>2, <2>2, <2>4 DEF IInv, StagesInv
    <3>2. fb2Texts # <<>>
      BY <1>2, <2>1, <2>4, <3>1, FullIsNotEmpty DEF IInv
    <3>3. Indexers \subseteq Threads
      BY DEF Threads
    <3>4. \A q \in Indexers : at[q] = "done"
      BY <1>2, <3>2, <3>3 DEF Stalled, RolesInv
    <3> QED  BY <2>4, <3>4 DEF Deserted, Parsing
  <2>5. CASE at[main] = "join"
    <3>1. \A t \in Threads : ~Parsing(t)
      BY <1>2, <2>5 DEF IInv, StagesInv
    <3>2. noMoreFiles
      BY <1>2, <2>5 DEF RolesInv
    <3>3. \A q \in Threads \ {main} : at[q] = "done"
      BY <1>2, <3>1, <3>2 DEF Stalled, RolesInv, Parsing
    <3> QED  BY <2>1, <2>5, <3>2, <3>3 DEF Stalled
  <2>6. CASE at[main] \in {"getArchive", "getText"}
    BY <1>2, <2>1, <2>6 DEF Stalled, RolesInv
  <2> QED  BY <1>2, <2>1, <2>3, <2>4, <2>5, <2>6 DEF Stalled, RolesInv
<1>3. IInv /\ RolesInv /\ FullInv /\ [Next]_vars => RolesInv' /\ FullInv'
  BY RolesStep, FullStep DEF IInv
<1> QED  BY Invariance, <1>1, <1>2, <1>3, PTL DEF Spec

-----------------------------------------------------------------------------
(* Directories and those above them.                                       *)

LEMMA PathIsSeq ==
  ASSUME NEW p
  PROVE  p \in Paths <=> p \in Seq(Names) /\ Len(p) <= MaxDepth
<1>1. ASSUME p \in Paths
      PROVE  p \in Seq(Names) /\ Len(p) <= MaxDepth
  <2>1. PICK n \in 0 .. MaxDepth : p \in [1 .. n -> Names]
    BY <1>1 DEF Paths
  <2> QED  BY <2>1, DepthAssumption
<1>2. ASSUME p \in Seq(Names), Len(p) <= MaxDepth
      PROVE  p \in Paths
  <2>1. Len(p) \in 0 .. MaxDepth /\ p \in [1 .. Len(p) -> Names]
    BY <1>2, LenProperties, DepthAssumption
  <2> QED  BY <2>1 DEF Paths
<1> QED  BY <1>1, <1>2

\* IsPrefix of the community modules, name by name.
LEMMA PrefixByName ==
  ASSUME NEW p \in Seq(Names), NEW q \in Seq(Names)
  PROVE  IsPrefix(p, q) <=> Len(p) <= Len(q) /\ \A i \in 1 .. Len(p) : p[i] = q[i]
<1>1. Len(p) \in Nat /\ Len(q) \in Nat
  BY LenProperties
<1>2. ASSUME Len(p) <= Len(q)
      PROVE  /\ SubSeq(p, 1, Len(p)) \in Seq(Names) /\ Len(SubSeq(p, 1, Len(p))) = Len(p)
             /\ SubSeq(q, 1, Len(p)) \in Seq(Names) /\ Len(SubSeq(q, 1, Len(p))) = Len(p)
             /\ \A i \in 1 .. Len(p) : /\ SubSeq(p, 1, Len(p))[i] = p[i]
                                       /\ SubSeq(q, 1, Len(p))[i] = q[i]
  BY <1>1, <1>2
<1>3. ASSUME Len(p) <= Len(q), \A i \in 1 .. Len(p) : p[i] = q[i]
      PROVE  SubSeq(p, 1, Len(p)) = SubSeq(q, 1, Len(p))
  BY <1>2, <1>3, SeqEqual
<1> QED  BY <1>2, <1>3 DEF IsPrefix

LEMMA PrefixOrder ==
  ASSUME NEW p \in Seq(Names), NEW q \in Seq(Names), NEW r \in Seq(Names)
  PROVE  /\ IsPrefix(p, p) /\ IsPrefix(Root, p)
         /\ IsPrefix(p, q) /\ IsPrefix(q, r) => IsPrefix(p, r)
         /\ IsPrefix(p, r) /\ IsPrefix(q, r) => IsPrefix(p, q) \/ IsPrefix(q, p)
         /\ IsPrefix(p, q) /\ Len(p) = Len(q) => p = q
<1>1. Len(p) \in Nat /\ Len(q) \in Nat /\ Len(r) \in Nat
  BY LenProperties
<1>2. IsPrefix(p, p)
  BY PrefixByName, <1>1
<1>3. IsPrefix(Root, p)
  <2>1. Root \in Seq(Names) /\ Len(Root) = 0
    BY EmptySeq DEF Root
  <2> HIDE DEF Root
  <2>2. IsPrefix(Root, p) <=> Len(Root) <= Len(p) /\ \A i \in 1 .. Len(Root) : Root[i] = p[i]
    BY <2>1, PrefixByName
  <2> QED  BY <1>1, <2>1, <2>2
<1>4. IsPrefix(p, q) /\ IsPrefix(q, r) => IsPrefix(p, r)
  BY <1>1, PrefixByName
<1>5. IsPrefix(p, r) /\ IsPrefix(q, r) => IsPrefix(p, q) \/ IsPrefix(q, p)
  BY <1>1, PrefixByName
<1>6. IsPrefix(p, q) /\ Len(p) = Len(q) => p = q
  BY PrefixByName, SeqEqual
<1> QED  BY <1>2, <1>3, <1>4, <1>5, <1>6

\* The directory above p, and those above that one.
LEMMA ParentAbove ==
  ASSUME NEW p \in Seq(Names), p # Root
  PROVE  /\ Parent(p) \in Seq(Names) /\ Last(p) \in Names
         /\ Len(Parent(p)) = Len(p) - 1 /\ Len(p) \in Nat \ {0}
         /\ Append(Parent(p), Last(p)) = p
         /\ IsPrefix(Parent(p), p)
         /\ \A q \in Seq(Names) : IsPrefix(q, p) => q = p \/ IsPrefix(q, Parent(p))
<1>1. Len(p) \in Nat \ {0}
  BY EmptySeq, LenProperties DEF Root
<1>2. /\ Parent(p) \in Seq(Names) /\ Len(Parent(p)) = Len(p) - 1
      /\ \A i \in 1 .. Len(p) - 1 : Parent(p)[i] = p[i]
  BY <1>1 DEF Parent, Front
<1>3. Last(p) \in Names /\ Last(p) = p[Len(p)]
  BY <1>1, ElementOfSeq DEF Last
<1>4. Append(Parent(p), Last(p)) = p
  <2>1. /\ Append(Parent(p), Last(p)) \in Seq(Names)
        /\ Len(Append(Parent(p), Last(p))) = Len(p)
        /\ \A i \in 1 .. Len(p) :
             Append(Parent(p), Last(p))[i] = IF i = Len(p) THEN Last(p) ELSE Parent(p)[i]
    BY <1>1, <1>2, <1>3
  <2>2. \A i \in 1 .. Len(p) : Append(Parent(p), Last(p))[i] = p[i]
    BY <1>1, <1>2, <1>3, <2>1
  <2> QED  BY <2>1, <2>2, SeqEqual
<1>5. IsPrefix(Parent(p), p)
  BY <1>1, <1>2, PrefixByName
<1>6. ASSUME NEW q \in Seq(Names), IsPrefix(q, p), q # p
      PROVE  IsPrefix(q, Parent(p))
  <2>1. Len(q) \in Nat /\ Len(q) <= Len(p) /\ Len(q) # Len(p)
    BY <1>6, LenProperties, PrefixByName, PrefixOrder
  <2>2. Len(q) <= Len(Parent(p))
    BY <1>1, <1>2, <2>1
  <2>3. \A i \in 1 .. Len(q) : q[i] = p[i]
    BY <1>6, PrefixByName
  <2>4. \A i \in 1 .. Len(q) : q[i] = Parent(p)[i]
    BY <1>1, <1>2, <2>1, <2>2, <2>3
  <2>5. PICK r \in Seq(Names) : r = Parent(p)
    BY <1>2
  <2>6. IsPrefix(q, r)
    BY <2>2, <2>4, <2>5, PrefixByName
  <2> QED  BY <2>5, <2>6
<1> QED  BY <1>1, <1>2, <1>3, <1>4, <1>5, <1>6

\* The directory next below r on the way to p.
LEMMA ChildBelow ==
  ASSUME NEW p \in Seq(Names), NEW r \in Seq(Names), IsPrefix(r, p), r # p
  PROVE  LET n == p[Len(r) + 1]
             c == Append(r, n)
         IN  /\ n \in Names /\ c \in Seq(Names) /\ c = r \o <<n>> /\ c # Root
             /\ IsPrefix(c, p) /\ Len(c) <= Len(p)
             /\ Parent(c) = r /\ Last(c) = n
<1> DEFINE n == p[Len(r) + 1]
           c == Append(r, n)
<1>1. Len(p) \in Nat /\ Len(r) \in Nat /\ Len(r) <= Len(p) /\ Len(r) # Len(p)
  BY LenProperties, PrefixByName, PrefixOrder
<1>2. n \in Names
  BY <1>1, ElementOfSeq
<1> HIDE DEF n
<1>3. /\ c \in Seq(Names) /\ Len(c) = Len(r) + 1 /\ c = r \o <<n>>
      /\ \A i \in 1 .. Len(r) : c[i] = r[i]
      /\ c[Len(r) + 1] = n
  BY <1>1, <1>2
<1> HIDE DEF c
<1>4. c # Root
  BY <1>1, <1>3, EmptySeq DEF Root
<1>5. IsPrefix(c, p)
  <2>1. \A i \in 1 .. Len(r) : r[i] = p[i]
    BY PrefixByName
  <2>2. IsPrefix(c, p) <=> Len(c) <= Len(p) /\ \A i \in 1 .. Len(c) : c[i] = p[i]
    BY <1>3, PrefixByName
  <2>3. \A i \in 1 .. Len(c) : i \in 1 .. Len(r) \/ i = Len(r) + 1
    BY <1>1, <1>3
  <2>4. c[Len(r) + 1] = p[Len(r) + 1]
    BY <1>3 DEF n
  <2> QED  BY <1>1, <1>3, <2>1, <2>2, <2>3, <2>4
<1>6. Last(c) = n
  BY <1>3 DEF Last
<1>7. Parent(c) = r
  <2>1. /\ Parent(c) \in Seq(Names) /\ Len(Parent(c)) = Len(r)
        /\ \A i \in 1 .. Len(r) : Parent(c)[i] = c[i]
    BY <1>1, <1>3 DEF Parent, Front
  <2> QED  BY <1>3, <2>1, SeqEqual
<1> QED  BY <1>1, <1>2, <1>3, <1>4, <1>5, <1>6, <1>7 DEF n, c

\* What a move does to the names of the directories.
LEMMA MovedPaths ==
  ASSUME NEW p \in Seq(Names), NEW q \in Seq(Names), NEW r \in Seq(Names)
  PROVE  /\ ~IsPrefix(p, r) => MovedTo(p, q, r) = r
         /\ IsPrefix(p, r) =>
              /\ MovedTo(p, q, r) \in Seq(Names)
              /\ Len(MovedTo(p, q, r)) = Len(q) + Len(r) - Len(p)
              /\ IsPrefix(q, MovedTo(p, q, r))
              /\ \A i \in 1 .. Len(r) - Len(p) : MovedTo(p, q, r)[Len(q) + i] = r[Len(p) + i]
<1>1. Len(p) \in Nat /\ Len(q) \in Nat /\ Len(r) \in Nat
  BY LenProperties
<1>2. ASSUME IsPrefix(p, r)
      PROVE  /\ MovedTo(p, q, r) \in Seq(Names)
             /\ Len(MovedTo(p, q, r)) = Len(q) + Len(r) - Len(p)
             /\ IsPrefix(q, MovedTo(p, q, r))
             /\ \A i \in 1 .. Len(r) - Len(p) : MovedTo(p, q, r)[Len(q) + i] = r[Len(p) + i]
  <2> DEFINE rest == SubSeq(r, Len(p) + 1, Len(r))
  <2>1. Len(p) <= Len(r)
    BY <1>2, PrefixByName
  <2>2. /\ rest \in Seq(Names) /\ Len(rest) = Len(r) - Len(p)
        /\ \A i \in 1 .. Len(r) - Len(p) : rest[i] = r[Len(p) + i]
    BY <1>1, <2>1
  <2> HIDE DEF rest
  <2>3. /\ q \o rest \in Seq(Names) /\ Len(q \o rest) = Len(q) + Len(rest)
        /\ \A i \in 1 .. Len(q) + Len(rest) :
             (q \o rest)[i] = IF i <= Len(q) THEN q[i] ELSE rest[i - Len(q)]
    BY <2>2, ConcatProperties
  <2>4. MovedTo(p, q, r) = q \o rest
    BY <1>2 DEF MovedTo, rest
  <2> HIDE DEF rest
  <2>5. \A i \in 1 .. Len(r) - Len(p) : (q \o rest)[Len(q) + i] = r[Len(p) + i]
    <3> SUFFICES ASSUME NEW i \in 1 .. Len(r) - Len(p)
                 PROVE  (q \o rest)[Len(q) + i] = r[Len(p) + i]
      OBVIOUS
    <3>1. /\ Len(q) + i \in 1 .. Len(q) + Len(rest)
          /\ ~(Len(q) + i <= Len(q)) /\ (Len(q) + i) - Len(q) = i
      BY <1>1, <2>1, <2>2
    <3>2. (q \o rest)[Len(q) + i] = rest[i]
      BY <2>3, <3>1
    <3> QED  BY <2>2, <3>2
  <2>6. IsPrefix(q, q \o rest)
    <3>1. /\ Len(q) <= Len(q \o rest)
          /\ \A i \in 1 .. Len(q) : q[i] = (q \o rest)[i]
      BY <1>1, <2>1, <2>2, <2>3
    <3> QED  BY <2>3, <3>1, PrefixByName
  <2> QED  BY <1>1, <2>1, <2>2, <2>3, <2>4, <2>5, <2>6
<1> QED  BY <1>2 DEF MovedTo

-----------------------------------------------------------------------------
(* The inductive invariant.                                                *)

\* The calls of AddWatch under way, and what they are about to name.
AllCalls == UNION {{stack[a][i] : i \in 1 .. Len(stack[a])} : a \in Actors}
Naming == {c \in AllCalls : c.at = "name"}

Numbers == 1 .. nextWd - 1

\* The names a number has, or is about to have.
NamesOf(w) ==
  {watchSet[v] : v \in {v \in DOMAIN watchSet : v = w}}
    \cup {c.path : c \in {c \in Naming : c.wd = w}}

Events ==
  [wd: Nat, kind: Kinds \cup {"mkdir", "rmdir"}, name: Names \cup {"file"},
   dir: Paths, stale: BOOLEAN]
AddWatchCalls ==
  [at: {"add", "name", "start", "assign", "open", "list"}, path: Seq(Names),
   wd: Nat, left: SUBSET Names]

TreeInv ==
  /\ dirs \subseteq Paths /\ Root \in dirs
  /\ \A p \in dirs : \A q \in Paths : IsPrefix(q, p) => q \in dirs
  /\ moved \subseteq dirs /\ harmed \subseteq dirs /\ awaited \subseteq dirs
  /\ changes \in 0 .. MaxChanges

NumbersInv ==
  /\ nextWd \in Nat \ {0}
  /\ wdOf \in [DOMAIN wdOf -> 1 .. nextWd - 1]
  /\ DOMAIN wdOf \subseteq dirs
  /\ \A p, q \in DOMAIN wdOf : wdOf[p] = wdOf[q] => p = q
  /\ watchSet \in [DOMAIN watchSet -> Paths]
  /\ DOMAIN watchSet \subseteq 1 .. nextWd - 1
  /\ queue \in Seq(Events) /\ Len(queue) <= QueueLimit
  /\ \A i \in 1 .. Len(queue) : /\ queue[i].wd \in 1 .. nextWd - 1
                                /\ queue[i].kind = "mkdir" => queue[i].name \in Names
  /\ removing \in 0 .. nextWd - 1
  /\ stack \in [Actors -> Seq(AddWatchCalls)]
  /\ \A c \in Naming : c.wd \in 1 .. nextWd - 1 /\ c.path \in Paths

\* Nobody but the user's first call of AddWatch can meet a second thread.
ThreadInv ==
  /\ {started, joinable, ended} \subseteq BOOLEAN
  /\ ~started => /\ ~joinable /\ ~ended /\ stack["thread"] = <<>>
                 /\ stack["user"] # <<>> =>
                      /\ Len(stack["user"]) = 1
                      /\ Top("user").path = Root
                      /\ Top("user").at \in {"add", "name", "start"}
  /\ started /\ ~joinable => Stands("user", "assign") /\ Top("user").path = Root
  /\ ended => ~joinable

\* What is said of a directory is said of the directory its number watches.
NamesInv ==
  /\ \A w \in Numbers : \A x \in NamesOf(w) :
       /\ \A d \in DOMAIN wdOf : wdOf[d] = w => Under(d, moved) \/ x = d
       /\ \A i \in 1 .. Len(queue) : queue[i].wd = w => queue[i].stale \/ x = queue[i].dir
  /\ \A i \in 1 .. Len(queue) : \A d \in DOMAIN wdOf :
       queue[i].wd = wdOf[d] => queue[i].stale \/ queue[i].dir = d

\* A number DirWatch gives up is of no directory, or will be of one that lost
\* a subdirectory.
RemovalInv ==
  /\ \A d \in DOMAIN wdOf : wdOf[d] # removing /\ (d \in Ignored => Under(d, moved))
  /\ \A w \in Numbers : (\E d \in DOMAIN wdOf : wdOf[d] = w) => NamesOf(w) # {}
  /\ \A i \in 1 .. Len(queue) : \A d \in DOMAIN wdOf :
       queue[i].kind = "rmdir" /\ queue[i].wd = wdOf[d] => d \in harmed

\* No event before queue[i] makes DirWatch forget the number it came by.
Lasting(i) ==
  /\ queue[i].wd # removing
  /\ \A j \in 1 .. i - 1 : ~(queue[j].kind = "rmdir" /\ queue[j].wd = queue[i].wd)

\* An event in the queue will have DirWatch call AddWatch for r.
Announced(r) ==
  \E i \in 1 .. Len(queue) : /\ queue[i].kind = "mkdir"
                             /\ queue[i].wd \in DOMAIN watchSet
                             /\ Append(watchSet[queue[i].wd], queue[i].name) = r
                             /\ Lasting(i)

\* Call c of AddWatch will name p, or list the directory above p that leads to p.
LeadsTo(c, p) ==
  /\ IsPrefix(c.path, p)
  /\ \/ c.at = "add"
     \/ c.at = "name" /\ c.path = p /\ p \in DOMAIN wdOf /\ wdOf[p] = c.wd
     \/ c.path # p /\ c.at \in {"name", "start", "assign", "open"}
     \/ c.path # p /\ c.at = "list" /\ p[Len(c.path) + 1] \in c.left

Pending(p) ==
  \/ \E r \in Paths : IsPrefix(r, p) /\ Announced(r)
  \/ \E c \in AllCalls : LeadsTo(c, p)

Watched(p) == p \in DOMAIN wdOf /\ wdOf[p] \in DOMAIN watchSet /\ watchSet[wdOf[p]] = p

Excused(p) == p \in harmed \/ Under(p, moved) \/ Under(p, Ignored)

ReachInv == \A p \in dirs : Excused(p) \/ Watched(p) \/ Pending(p)

\* A file to report has its event in the queue, under a number that will do.
Reportable(d) ==
  \E i \in 1 .. Len(queue) : /\ queue[i].kind = "create" /\ queue[i].dir = d
                             /\ \E w \in Numbers : queue[i].wd = w /\ NamesOf(w) # {}
                             /\ Lasting(i)

AwaitInv == \A d \in awaited : Excused(d) \/ (stack["user"] = <<>> /\ Reportable(d))

WatchInv ==
  /\ TreeInv
  /\ NumbersInv
  /\ ThreadInv
  /\ NamesInv
  /\ RemovalInv
  /\ ReachInv
  /\ AwaitInv
-----------------------------------------------------------------------------
(* What the steps make of the calls, the names and the queue.              *)

LEMMA NamesMembers ==
  \A w, x : x \in NamesOf(w) <=>
    \/ w \in DOMAIN watchSet /\ x = watchSet[w]
    \/ \E c \in AllCalls : c.at = "name" /\ c.wd = w /\ c.path = x
BY DEF NamesOf, Naming

LEMMA NamesMembersNext ==
  \A w, x : x \in NamesOf(w)' <=>
    \/ w \in DOMAIN watchSet' /\ x = watchSet'[w]
    \/ \E c \in AllCalls' : c.at = "name" /\ c.wd = w /\ c.path = x
BY DEF NamesOf, Naming

\* The calls of a are its top one and those that stay when that one goes on.
Rest(a) ==
  {stack[a][i] : i \in 2 .. Len(stack[a])}
    \cup UNION {{stack[b][i] : i \in 1 .. Len(stack[b])} : b \in Actors \ {a}}

LEMMA CallsAreTyped ==
  ASSUME NumbersInv
  PROVE  AllCalls \subseteq AddWatchCalls
<1> SUFFICES ASSUME NEW a \in Actors, NEW i \in 1 .. Len(stack[a])
             PROVE  stack[a][i] \in AddWatchCalls
  BY DEF AllCalls
<1>1. stack[a] \in Seq(AddWatchCalls)
  BY DEF NumbersInv
<1> QED  BY <1>1, ElementOfSeq

LEMMA TopAndRest ==
  ASSUME NumbersInv, NEW a \in Actors, stack[a] # <<>>
  PROVE  /\ AllCalls = {Top(a)} \cup Rest(a)
         /\ Top(a) \in AddWatchCalls
         /\ Top(a) = stack[a][1] /\ Len(stack[a]) \in Nat \ {0}
<1>1. stack[a] \in Seq(AddWatchCalls)
  BY DEF NumbersInv
<1>2. Len(stack[a]) \in Nat \ {0} /\ Top(a) = stack[a][1]
  BY <1>1, EmptySeq DEF Top
<1>3. \A i \in 1 .. Len(stack[a]) : i = 1 \/ i \in 2 .. Len(stack[a])
  BY <1>2
<1>4. {stack[a][i] : i \in 1 .. Len(stack[a])}
        = {Top(a)} \cup {stack[a][i] : i \in 2 .. Len(stack[a])}
  BY <1>2, <1>3
<1>5. AllCalls = {stack[a][i] : i \in 1 .. Len(stack[a])}
                   \cup UNION {{stack[b][i] : i \in 1 .. Len(stack[b])} : b \in Actors \ {a}}
  BY DEF AllCalls
<1>6. Top(a) \in AddWatchCalls
  BY <1>1, <1>2, ElementOfSeq
<1> QED  BY <1>2, <1>4, <1>5, <1>6 DEF Rest

\* The stack of a after new calls took the place of its top one.
LEMMA StackStep ==
  ASSUME NumbersInv, NEW a \in Actors, stack[a] # <<>>, NEW new \in Seq(AddWatchCalls),
         stack' = [stack EXCEPT ![a] = new \o Tail(@)]
  PROVE  /\ stack' \in [Actors -> Seq(AddWatchCalls)]
         /\ AllCalls' = {new[i] : i \in 1 .. Len(new)} \cup Rest(a)
         /\ Len(stack'[a]) = Len(stack[a]) + Len(new) - 1
         /\ \A b \in Actors \ {a} : stack'[b] = stack[b]
         /\ Len(new) # 0 => stack'[a] # <<>> /\ Head(stack'[a]) = new[1]
<1> DEFINE s == stack[a]
           t == new \o Tail(s)
<1>1. /\ s \in Seq(AddWatchCalls) /\ Len(s) \in Nat \ {0} /\ Len(new) \in Nat
      /\ stack \in [Actors -> Seq(AddWatchCalls)]
  BY EmptySeq, LenProperties DEF NumbersInv
<1>2. stack'[a] = t /\ \A b \in Actors \ {a} : stack'[b] = stack[b]
  BY <1>1
<1> HIDE DEF s
<1>3. /\ Tail(s) \in Seq(AddWatchCalls) /\ Len(Tail(s)) = Len(s) - 1
      /\ \A i \in 1 .. Len(s) - 1 : Tail(s)[i] = s[i + 1]
  BY <1>1
<1>4. /\ t \in Seq(AddWatchCalls) /\ Len(t) = Len(new) + Len(s) - 1
      /\ \A i \in 1 .. Len(t) : t[i] = IF i <= Len(new) THEN new[i] ELSE Tail(s)[i - Len(new)]
  BY <1>1, <1>3, ConcatProperties
<1> HIDE DEF t
<1> DEFINE n == Len(new)
           m == Len(s)
           k == Len(t)
<1>5. /\ n \in Nat /\ m \in Nat /\ k \in Nat /\ m >= 1 /\ k = n + m - 1
      /\ \A i \in 1 .. m - 1 : Tail(s)[i] = s[i + 1]
      /\ \A i \in 1 .. k : t[i] = IF i <= n THEN new[i] ELSE Tail(s)[i - n]
  BY <1>1, <1>3, <1>4
<1>6. {t[i] : i \in 1 .. Len(t)} = {new[i] : i \in 1 .. Len(new)} \cup {s[i] : i \in 2 .. Len(s)}
  <2> HIDE DEF n, m, k
  <2>1. ASSUME NEW i \in 1 .. k
        PROVE  \/ t[i] = new[i] /\ i \in 1 .. n
               \/ t[i] = s[i - n + 1] /\ i - n + 1 \in 2 .. m
    <3>1. CASE i <= n
      BY <1>5, <3>1
    <3>2. CASE i > n
      <4>1. /\ n \in Nat /\ m \in Nat /\ k \in Nat /\ k = n + m - 1
            /\ i \in Nat /\ i <= k /\ i > n
        BY <1>5, <3>2
      <4>2. i - n \in 1 .. m - 1 /\ i - n + 1 \in 2 .. m /\ ~(i <= n)
        BY <4>1
      <4>3. t[i] = Tail(s)[i - n]
        BY <1>5, <4>2
      <4>4. Tail(s)[i - n] = s[i - n + 1]
        BY <1>5, <4>2
      <4> QED  BY <4>2, <4>3, <4>4
    <3> QED  BY <1>5, <3>1, <3>2
  <2>2. ASSUME NEW i \in 1 .. n
        PROVE  i \in 1 .. k /\ t[i] = new[i]
    BY <1>5
  <2>3. ASSUME NEW i \in 2 .. m
        PROVE  i + n - 1 \in 1 .. k /\ t[i + n - 1] = s[i]
    <3>1. i + n - 1 \in 1 .. k /\ ~(i + n - 1 <= n) /\ (i + n - 1) - n = i - 1
      BY <1>5
    <3>2. t[i + n - 1] = Tail(s)[i - 1]
      BY <1>5, <3>1
    <3>3. i - 1 \in 1 .. m - 1 /\ (i - 1) + 1 = i
      BY <1>5
    <3>4. Tail(s)[i - 1] = s[i]
      BY <1>5, <3>3
    <3> QED  BY <3>1, <3>2, <3>4
  <2> USE DEF n, m, k
  <2>4. {t[i] : i \in 1 .. Len(t)} \subseteq {new[i] : i \in 1 .. Len(new)} \cup {s[i] : i \in 2 .. Len(s)}
    BY <2>1
  <2>5. {new[i] : i \in 1 .. Len(new)} \subseteq {t[i] : i \in 1 .. Len(t)}
    BY <2>2
  <2>6. {s[i] : i \in 2 .. Len(s)} \subseteq {t[i] : i \in 1 .. Len(t)}
    BY <2>3
  <2> QED  BY <2>4, <2>5, <2>6
<1>7. AllCalls' = {t[i] : i \in 1 .. Len(t)}
                   \cup UNION {{stack[b][i] : i \in 1 .. Len(stack[b])} : b \in Actors \ {a}}
  <2>1. AllCalls' = {stack'[a][i] : i \in 1 .. Len(stack'[a])}
                      \cup UNION {{stack'[b][i] : i \in 1 .. Len(stack'[b])} : b \in Actors \ {a}}
    BY DEF AllCalls
  <2>2. UNION {{stack'[b][i] : i \in 1 .. Len(stack'[b])} : b \in Actors \ {a}}
          = UNION {{stack[b][i] : i \in 1 .. Len(stack[b])} : b \in Actors \ {a}}
    BY <1>2
  <2> QED  BY <1>2, <2>1, <2>2
<1>8. stack' \in [Actors -> Seq(AddWatchCalls)]
  BY <1>1, <1>2, <1>4
<1>9. Len(new) # 0 => t # <<>> /\ Head(t) = new[1]
  BY <1>1, <1>4
<1>10. AllCalls' = {new[i] : i \in 1 .. Len(new)} \cup Rest(a)
  BY <1>6, <1>7 DEF Rest, s
<1>11. Len(stack'[a]) = Len(stack[a]) + Len(new) - 1
  BY <1>1, <1>2, <1>4 DEF s
<1> QED  BY <1>2, <1>8, <1>9, <1>10, <1>11

LEMMA GoesStep ==
  ASSUME NumbersInv, NEW a \in Actors, stack[a] # <<>>, NEW c \in AddWatchCalls, Goes(a, c)
  PROVE  /\ stack' \in [Actors -> Seq(AddWatchCalls)]
         /\ AllCalls' = {c} \cup Rest(a)
         /\ Len(stack'[a]) = Len(stack[a]) /\ stack'[a] # <<>> /\ Head(stack'[a]) = c
         /\ \A b \in Actors \ {a} : stack'[b] = stack[b]
<1>1. /\ <<c>> \in Seq(AddWatchCalls) /\ Len(<<c>>) = 1 /\ <<c>>[1] = c
      /\ {<<c>>[i] : i \in 1 .. 1} = {c}
  <2>1. <<c>> \in Seq(AddWatchCalls) /\ Len(<<c>>) = 1 /\ <<c>>[1] = c
    OBVIOUS
  <2>2. 1 .. 1 = {1}
    OBVIOUS
  <2> QED  BY <2>1, <2>2
<1>2. Len(stack[a]) \in Nat
  BY TopAndRest
<1>3. /\ stack' \in [Actors -> Seq(AddWatchCalls)]
      /\ AllCalls' = {<<c>>[i] : i \in 1 .. Len(<<c>>)} \cup Rest(a)
      /\ Len(stack'[a]) = Len(stack[a]) + Len(<<c>>) - 1
      /\ \A b \in Actors \ {a} : stack'[b] = stack[b]
      /\ Len(<<c>>) # 0 => stack'[a] # <<>> /\ Head(stack'[a]) = <<c>>[1]
  BY <1>1, StackStep DEF Goes
<1> QED  BY <1>1, <1>2, <1>3

LEMMA ReturnsStep ==
  ASSUME NumbersInv, NEW a \in Actors, stack[a] # <<>>, Returns(a)
  PROVE  /\ stack' \in [Actors -> Seq(AddWatchCalls)]
         /\ AllCalls' = Rest(a)
         /\ Len(stack'[a]) = Len(stack[a]) - 1
         /\ \A b \in Actors \ {a} : stack'[b] = stack[b]
<1>1. <<>> \in Seq(AddWatchCalls) /\ Len(<<>>) = 0 /\ 1 .. 0 = {}
  BY EmptySeq
<1>2. /\ stack \in [Actors -> Seq(AddWatchCalls)] /\ stack[a] \in Seq(AddWatchCalls)
      /\ Tail(stack[a]) \in Seq(AddWatchCalls) /\ Len(stack[a]) \in Nat \ {0}
  BY EmptySeq, TopAndRest DEF NumbersInv
<1>3. <<>> \o Tail(stack[a]) = Tail(stack[a])
  BY <1>2, ConcatEmptySeq
<1>4. stack' = [stack EXCEPT ![a] = <<>> \o Tail(@)]
  BY <1>3 DEF Returns
<1>5. /\ stack' \in [Actors -> Seq(AddWatchCalls)]
      /\ AllCalls' = {<<>>[i] : i \in 1 .. Len(<<>>)} \cup Rest(a)
      /\ Len(stack'[a]) = Len(stack[a]) + Len(<<>>) - 1
      /\ \A b \in Actors \ {a} : stack'[b] = stack[b]
  BY <1>1, <1>4, StackStep
<1> QED  BY <1>1, <1>2, <1>5

\* The kernel's queue with one more event, or with none when there is no room.
LEMMA EventQueued ==
  ASSUME NumbersInv, NEW d \in Paths, NEW kind \in Kinds \cup {"mkdir", "rmdir"},
         NEW name \in Names \cup {"file"}, queue' = Event(d, kind, name)
  PROVE  LET e == [wd |-> wdOf[d], kind |-> kind, name |-> name, dir |-> d,
                   stale |-> Under(d, moved)]
         IN  /\ queue' \in Seq(Events) /\ Len(queue') <= QueueLimit
             /\ Len(queue) \in Nat /\ Len(queue') \in Nat /\ Len(queue) <= Len(queue')
             /\ \A i \in 1 .. Len(queue) : queue'[i] = queue[i]
             /\ \A i \in 1 .. Len(queue') :
                  i \in 1 .. Len(queue) \/ (i = Len(queue) + 1 /\ d \in DOMAIN wdOf /\ queue'[i] = e)
             /\ d \in DOMAIN wdOf /\ ~Dropped(d) => Len(queue) + 1 \in 1 .. Len(queue')
<1> DEFINE e == [wd |-> wdOf[d], kind |-> kind, name |-> name, dir |-> d,
                 stale |-> Under(d, moved)]
<1>1. queue \in Seq(Events) /\ Len(queue) \in Nat /\ Len(queue) <= QueueLimit /\ QueueLimit \in Nat
  BY LenProperties, QueueAssumption DEF NumbersInv
<1>2. CASE d \in DOMAIN wdOf /\ ~Dropped(d)
  <2>1. wdOf[d] \in Nat
    BY <1>2 DEF NumbersInv
  <2>2. Under(d, moved) \in BOOLEAN
    BY DEF Under
  <2>3. e \in Events
    BY <2>1, <2>2 DEF Events
  <2>4. queue' = Append(queue, e)
    BY <1>2 DEF Event
  <2>5. Len(queue) < QueueLimit
    BY <1>1, <1>2 DEF Dropped
  <2> HIDE DEF e
  <2>6. /\ queue' \in Seq(Events) /\ Len(queue') = Len(queue) + 1
        /\ \A i \in 1 .. Len(queue) : queue'[i] = queue[i]
        /\ queue'[Len(queue) + 1] = e
    BY <1>1, <2>3, <2>4
  <2>7. \A i \in 1 .. Len(queue') : i \in 1 .. Len(queue) \/ i = Len(queue) + 1
    BY <1>1, <2>6
  <2> QED  BY <1>1, <1>2, <2>5, <2>6, <2>7 DEF e
<1>3. CASE ~(d \in DOMAIN wdOf /\ ~Dropped(d))
  <2>1. queue' = queue
    BY <1>3 DEF Event
  <2> QED  BY <1>1, <1>3, <2>1
<1> QED  BY <1>2, <1>3

\* The queue without its first event.
LEMMA EventTaken ==
  ASSUME NumbersInv, queue # <<>>, queue' = Tail(queue)
  PROVE  /\ queue' \in Seq(Events) /\ Len(queue') <= QueueLimit
         /\ Len(queue) \in Nat \ {0} /\ Len(queue') = Len(queue) - 1
         /\ Head(queue) = queue[1] /\ Head(queue) \in Events
         /\ \A i \in 1 .. Len(queue') : queue'[i] = queue[i + 1] /\ i + 1 \in 1 .. Len(queue)
         /\ \A i \in 1 .. Len(queue) : i = 1 \/ (i - 1 \in 1 .. Len(queue') /\ queue'[i - 1] = queue[i])
<1>1. queue \in Seq(Events) /\ Len(queue) \in Nat \ {0} /\ Len(queue) <= QueueLimit /\ QueueLimit \in Nat
  BY EmptySeq, QueueAssumption DEF NumbersInv
<1>2. /\ queue' \in Seq(Events) /\ Len(queue') = Len(queue) - 1
      /\ \A i \in 1 .. Len(queue') : queue'[i] = queue[i + 1]
      /\ Head(queue) = queue[1]
  BY <1>1
<1>3. Head(queue) \in Events
  BY <1>1
<1>4. \A i \in 1 .. Len(queue) : i = 1 \/ (i - 1 \in 1 .. Len(queue') /\ queue'[i - 1] = queue[i])
  BY <1>1, <1>2
<1>5. \A i \in 1 .. Len(queue') : i + 1 \in 1 .. Len(queue)
  BY <1>1, <1>2
<1> QED  BY <1>1, <1>2, <1>3, <1>4, <1>5
-----------------------------------------------------------------------------
(* Others change the file system.                                          *)

LEMMA WatcherSame ==
  ASSUME UNCHANGED watcher
  PROVE  /\ UNCHANGED <<watchSet, started, joinable, ended, stack, removing, report>>
         /\ AllCalls' = AllCalls
         /\ \A w : NamesOf(w)' = NamesOf(w)
         /\ ThreadInv => ThreadInv'
<1>1. UNCHANGED <<watchSet, started, joinable, ended, stack, removing, report>>
  BY DEF watcher, starting
<1>2. AllCalls' = AllCalls
  BY <1>1 DEF AllCalls
<1>3. \A w : NamesOf(w)' = NamesOf(w)
  BY <1>1, <1>2 DEF NamesOf, Naming
<1>4. ThreadInv => ThreadInv'
  BY <1>1 DEF ThreadInv, Stands, Top
<1> QED  BY <1>1, <1>2, <1>3, <1>4

\* An event that stays in the queue does what it would have done.
LEMMA EventsLast ==
  ASSUME Len(queue) \in Nat, Len(queue') \in Nat, Len(queue) <= Len(queue'),
         \A i \in 1 .. Len(queue) : /\ queue'[i].wd = queue[i].wd
                                    /\ queue'[i].kind = queue[i].kind
                                    /\ queue'[i].name = queue[i].name
                                    /\ queue'[i].dir = queue[i].dir,
         UNCHANGED <<nextWd, watcher>>
  PROVE  /\ \A i \in 1 .. Len(queue) : Lasting(i) => Lasting(i)'
         /\ \A r : Announced(r) => Announced(r)'
         /\ \A d : Reportable(d) => Reportable(d)'
<1>1. /\ removing' = removing /\ watchSet' = watchSet /\ Numbers' = Numbers
      /\ \A w : NamesOf(w)' = NamesOf(w)
  BY WatcherSame DEF Numbers
<1>2. \A i \in 1 .. Len(queue) : i \in 1 .. Len(queue') /\ \A j \in 1 .. i - 1 : j \in 1 .. Len(queue)
  OBVIOUS
<1>3. \A i \in 1 .. Len(queue) : Lasting(i) => Lasting(i)'
  BY <1>1, <1>2 DEF Lasting
<1>4. ASSUME NEW r, Announced(r)
      PROVE  Announced(r)'
  BY <1>1, <1>2, <1>3, <1>4 DEF Announced
<1>5. ASSUME NEW d, Reportable(d)
      PROVE  Reportable(d)'
  BY <1>1, <1>2, <1>3, <1>5 DEF Reportable
<1> QED  BY <1>3, <1>4, <1>5

\* The kernel queues an event of d, and may lose the watch of a directory.
LEMMA EventKeeps ==
  ASSUME WatchInv, NEW d \in Paths, NEW kind \in Kinds \cup {"mkdir", "rmdir"},
         NEW name \in Names \cup {"file"}, kind = "mkdir" => name \in Names,
         queue' = Event(d, kind, name), UNCHANGED <<nextWd, watcher>>,
         wdOf' \in [DOMAIN wdOf' -> 1 .. nextWd - 1],
         \A q \in DOMAIN wdOf' : /\ q \in DOMAIN wdOf /\ wdOf'[q] = wdOf[q] /\ q \in dirs'
                                 /\ Under(q, moved) => Under(q, moved')
                                 /\ q \in harmed => q \in harmed',
         kind = "rmdir" /\ d \in DOMAIN wdOf' => d \in harmed',
         d \in DOMAIN wdOf => d \in DOMAIN wdOf'
  PROVE  NumbersInv' /\ ThreadInv' /\ NamesInv' /\ RemovalInv'
<1> DEFINE e == [wd |-> wdOf[d], kind |-> kind, name |-> name, dir |-> d,
                 stale |-> Under(d, moved)]
<1>1. NumbersInv /\ ThreadInv /\ NamesInv /\ RemovalInv
  BY DEF WatchInv
<1>2. /\ queue' \in Seq(Events) /\ Len(queue') <= QueueLimit
      /\ \A i \in 1 .. Len(queue') :
           (i \in 1 .. Len(queue) /\ queue'[i] = queue[i]) \/ (d \in DOMAIN wdOf /\ queue'[i] = e)
  BY <1>1, EventQueued
<1>3. /\ UNCHANGED <<watchSet, started, joinable, ended, stack, removing, nextWd>>
      /\ AllCalls' = AllCalls
      /\ \A w : NamesOf(w)' = NamesOf(w)
      /\ ThreadInv'
  BY <1>1, WatcherSame
<1>4. e.wd = wdOf[d] /\ e.kind = kind /\ e.name = name /\ e.dir = d /\ (e.stale <=> Under(d, moved))
  BY DEF Under
<1> HIDE DEF e
<1>5. d \in DOMAIN wdOf => wdOf[d] \in 1 .. nextWd - 1
  BY <1>1 DEF NumbersInv
<1>6. Naming' = Naming
  BY <1>3 DEF Naming
<1>7. NumbersInv'
  <2>1. \A i \in 1 .. Len(queue') : /\ queue'[i].wd \in 1 .. nextWd - 1
                                    /\ queue'[i].kind = "mkdir" => queue'[i].name \in Names
    BY <1>1, <1>2, <1>4, <1>5 DEF NumbersInv
  <2>2. \A p, q \in DOMAIN wdOf' : wdOf'[p] = wdOf'[q] => p = q
    BY <1>1 DEF NumbersInv
  <2>3. DOMAIN wdOf' \subseteq dirs'
    OBVIOUS
  <2> QED  BY <1>1, <1>2, <1>3, <1>6, <2>1, <2>2, <2>3 DEF NumbersInv
<1>8. NamesInv'
  <2>1. ASSUME NEW w \in Numbers, NEW x \in NamesOf(w), NEW q \in DOMAIN wdOf', wdOf'[q] = w
        PROVE  Under(q, moved') \/ x = q
    BY <1>1, <2>1 DEF NamesInv
  <2>2. ASSUME NEW w \in Numbers, NEW x \in NamesOf(w), NEW i \in 1 .. Len(queue'),
               queue'[i].wd = w
        PROVE  queue'[i].stale \/ x = queue'[i].dir
    <3>1. CASE i \in 1 .. Len(queue) /\ queue'[i] = queue[i]
      BY <1>1, <2>2, <3>1 DEF NamesInv
    <3>2. CASE d \in DOMAIN wdOf /\ queue'[i] = e
      <4>1. Under(d, moved) \/ x = d
        BY <1>1, <1>4, <2>2, <3>2 DEF NamesInv
      <4> QED  BY <1>4, <3>2, <4>1
    <3> QED  BY <1>2, <3>1, <3>2
  <2>3. ASSUME NEW i \in 1 .. Len(queue'), NEW q \in DOMAIN wdOf', queue'[i].wd = wdOf'[q]
        PROVE  queue'[i].stale \/ queue'[i].dir = q
    <3>1. CASE i \in 1 .. Len(queue) /\ queue'[i] = queue[i]
      BY <1>1, <2>3, <3>1 DEF NamesInv
    <3>2. CASE d \in DOMAIN wdOf /\ queue'[i] = e
      BY <1>1, <1>4, <2>3, <3>2 DEF NumbersInv
    <3> QED  BY <1>2, <3>1, <3>2
  <2>4. Numbers' = Numbers
    BY <1>3 DEF Numbers
  <2> QED  BY <1>3, <2>1, <2>2, <2>3, <2>4 DEF NamesInv
<1>9. RemovalInv'
  <2>1. ASSUME NEW q \in DOMAIN wdOf'
        PROVE  wdOf'[q] # removing' /\ (q \in Ignored => Under(q, moved)')
    BY <1>1, <1>3 DEF RemovalInv, Under
  <2>2. ASSUME NEW w \in Numbers, \E q \in DOMAIN wdOf' : wdOf'[q] = w
        PROVE  NamesOf(w)' # {}
    BY <1>1, <1>3, <2>2 DEF RemovalInv
  <2>3. ASSUME NEW i \in 1 .. Len(queue'), NEW q \in DOMAIN wdOf',
               queue'[i].kind = "rmdir", queue'[i].wd = wdOf'[q]
        PROVE  q \in harmed'
    <3>1. CASE i \in 1 .. Len(queue) /\ queue'[i] = queue[i]
      BY <1>1, <2>3, <3>1 DEF RemovalInv
    <3>2. CASE d \in DOMAIN wdOf /\ queue'[i] = e
      BY <1>1, <1>4, <2>3, <3>2 DEF NumbersInv
    <3> QED  BY <1>2, <3>1, <3>2
  <2>4. Numbers' = Numbers
    BY <1>3 DEF Numbers
  <2> QED  BY <2>1, <2>2, <2>3, <2>4 DEF RemovalInv
<1> QED  BY <1>3, <1>7, <1>8, <1>9
LEMMA LeadsToKept ==
  ASSUME NEW c, NEW p, LeadsTo(c, p),
         p \in DOMAIN wdOf => p \in DOMAIN wdOf' /\ wdOf'[p] = wdOf[p]
  PROVE  LeadsTo(c, p)'
BY DEF LeadsTo

\* A directory that keeps its watch, and what leads to it, stays in reach.
LEMMA ReachKept ==
  ASSUME AllCalls' = AllCalls, UNCHANGED watchSet, \A r : Announced(r) => Announced(r)',
         NEW p, p \in DOMAIN wdOf => p \in DOMAIN wdOf' /\ wdOf'[p] = wdOf[p],
         Watched(p) \/ Pending(p)
  PROVE  Watched(p)' \/ Pending(p)'
<1>1. CASE Watched(p)
  BY <1>1 DEF Watched
<1>2. CASE \E r \in Paths : IsPrefix(r, p) /\ Announced(r)
  BY <1>2 DEF Pending
<1>3. CASE \E c \in AllCalls : LeadsTo(c, p)
  BY <1>3, LeadsToKept DEF Pending
<1> QED  BY <1>1, <1>2, <1>3 DEF Pending

\* The directories there are: every one of a path, and those above it.
LEMMA TreeFacts ==
  ASSUME TreeInv
  PROVE  /\ dirs \subseteq Seq(Names) /\ dirs \subseteq Paths /\ Root \in Paths
         /\ \A p \in dirs \ {Root} : /\ Parent(p) \in dirs /\ Last(p) \in Names
                                     /\ IsPrefix(Parent(p), p)
         /\ \A p \in dirs : \A q \in Seq(Names) : IsPrefix(q, p) => q \in dirs
<1>1. dirs \subseteq Paths /\ dirs \subseteq Seq(Names) /\ Root \in Paths
  BY PathIsSeq DEF TreeInv
<1>2. ASSUME NEW p \in dirs, NEW q \in Seq(Names), IsPrefix(q, p)
      PROVE  q \in dirs
  <2>1. Len(q) <= Len(p) /\ Len(p) <= MaxDepth /\ Len(q) \in Nat /\ Len(p) \in Nat
    BY <1>1, <1>2, PrefixByName, PathIsSeq, LenProperties
  <2>2. q \in Paths
    BY <2>1, PathIsSeq, DepthAssumption
  <2> QED  BY <1>2, <2>2 DEF TreeInv
<1>3. ASSUME NEW p \in dirs \ {Root}
      PROVE  Parent(p) \in dirs /\ Last(p) \in Names /\ IsPrefix(Parent(p), p)
  BY <1>1, <1>2, ParentAbove
<1> QED  BY <1>1, <1>2, <1>3

\* An event queued under the number of a watched directory, named as it is, will
\* be handled under that name.
LEMMA NewEventLasts ==
  ASSUME WatchInv, UNCHANGED watcher, NEW d \in dirs, d \in DOMAIN wdOf, d \notin harmed,
         NEW i \in Nat, Len(queue) \in Nat, i = Len(queue) + 1,
         \A j \in 1 .. Len(queue) : queue'[j] = queue[j],
         queue'[i].wd = wdOf[d]
  PROVE  Lasting(i)'
<1>1. \A j \in 1 .. i - 1 : j \in 1 .. Len(queue)
  OBVIOUS
<1>2. \A j \in 1 .. Len(queue) : ~(queue[j].kind = "rmdir" /\ queue[j].wd = wdOf[d])
  BY DEF WatchInv, RemovalInv
<1>3. wdOf[d] # removing /\ removing' = removing
  BY WatcherSame DEF WatchInv, RemovalInv
<1> QED  BY <1>1, <1>2, <1>3 DEF Lasting

LEMMA FileOpStep ==
  ASSUME WatchInv, NEW d \in Paths, NEW kind \in Kinds, FileOp(d, kind)
  PROVE  WatchInv'
<1>1. /\ d \in dirs /\ queue' = Event(d, kind, "file")
      /\ UNCHANGED <<dirs, wdOf, nextWd, watcher, moved, harmed>>
      /\ awaited' = IF kind = "create" /\ (Settled \/ Told(d)) THEN awaited \cup {d} ELSE awaited
      /\ changes' \in 0 .. MaxChanges
  BY ChangesAssumption DEF FileOp, Change, WatchInv, TreeInv
<1>2. TreeInv'
  BY <1>1 DEF WatchInv, TreeInv
<1>3. kind # "mkdir" /\ kind # "rmdir"
  BY KindsAssumption
<1>4. NumbersInv' /\ ThreadInv' /\ NamesInv' /\ RemovalInv'
  <2>1. /\ wdOf' \in [DOMAIN wdOf' -> 1 .. nextWd - 1]
        /\ \A q \in DOMAIN wdOf' : q \in DOMAIN wdOf /\ wdOf'[q] = wdOf[q] /\ q \in dirs'
    BY <1>1 DEF WatchInv, NumbersInv
  <2> QED  BY <1>1, <1>3, <2>1, EventKeeps
<1>5. /\ Len(queue) \in Nat /\ Len(queue') \in Nat /\ Len(queue) <= Len(queue')
      /\ \A i \in 1 .. Len(queue) : queue'[i] = queue[i]
  BY <1>1, EventQueued DEF WatchInv
<1>6. /\ \A r : Announced(r) => Announced(r)'
      /\ \A f : Reportable(f) => Reportable(f)'
  BY <1>1, <1>5, EventsLast
<1>7. AllCalls' = AllCalls /\ UNCHANGED <<watchSet, stack>>
  BY <1>1, WatcherSame
<1>8. ReachInv'
  <2> SUFFICES ASSUME NEW p \in dirs, ~Excused(p)'
               PROVE  Watched(p)' \/ Pending(p)'
    BY <1>1 DEF ReachInv
  <2>1. Watched(p) \/ Pending(p)
    BY <1>1 DEF Excused, WatchInv, ReachInv
  <2> QED  BY <1>1, <1>6, <1>7, <2>1, ReachKept
<1>9. AwaitInv'
  <2> SUFFICES ASSUME NEW f \in awaited', ~Excused(f)'
               PROVE  stack["user"] = <<>> /\ Reportable(f)'
    BY <1>7 DEF AwaitInv
  <2>1. ~Excused(f)
    BY <1>1 DEF Excused
  <2>2. CASE f \in awaited
    BY <1>6, <2>1, <2>2 DEF WatchInv, AwaitInv
  <2>3. CASE f \notin awaited
    <3>1. f = d /\ kind = "create" /\ (Settled \/ Told(d))
      BY <1>1, <2>3
    <3>2. stack["user"] = <<>> /\ d \in DOMAIN wdOf /\ ~Dropped(d)
      <4>1. CASE Told(d)
        BY <4>1 DEF Told
      <4>2. CASE Settled
        <5>1. queue = <<>> /\ \A a \in Actors : stack[a] = <<>>
          BY <4>2 DEF Settled
        <5>2. Len(queue) = 0 /\ stack["user"] = <<>> /\ AllCalls = {}
          BY <5>1 DEF Actors, AllCalls
        <5>3. ~Pending(d)
          BY <5>2 DEF Pending, Announced
        <5>4. Watched(d)
          BY <1>1, <2>1, <3>1, <5>3 DEF WatchInv, ReachInv
        <5> QED  BY <5>2, <5>4, QueueAssumption DEF Watched, Dropped
      <4> QED  BY <3>1, <4>1, <4>2
    <3>0. PICK i \in Nat : i = Len(queue) + 1
      BY <1>5
    <3>3. /\ i \in 1 .. Len(queue') /\ i \in Nat
          /\ queue'[i].wd = wdOf[d] /\ queue'[i].kind = kind /\ queue'[i].dir = d
      <4>1. /\ i \in 1 .. Len(queue')
            /\ queue'[i] = [wd |-> wdOf[d], kind |-> kind, name |-> "file", dir |-> d,
                            stale |-> Under(d, moved)]
        <5>1. Len(queue) + 1 \in 1 .. Len(queue')
          BY <1>1, <3>2, EventQueued DEF WatchInv
        <5>2. \A j \in 1 .. Len(queue') : j \in 1 .. Len(queue) \/
                queue'[j] = [wd |-> wdOf[d], kind |-> kind, name |-> "file", dir |-> d,
                             stale |-> Under(d, moved)]
          BY <1>1, <3>2, EventQueued DEF WatchInv
        <5>3. i \notin 1 .. Len(queue)
          BY <1>5, <3>0
        <5> QED  BY <3>0, <5>1, <5>2, <5>3
      <4> QED  BY <1>5, <4>1
    <3>4. d \notin harmed
      BY <2>1, <3>1 DEF Excused
    <3>5. Lasting(i)'
      BY <1>1, <1>5, <3>0, <3>1, <3>2, <3>3, <3>4, NewEventLasts
    <3>6. wdOf[d] \in Numbers /\ Numbers' = Numbers
      BY <1>1, <3>2 DEF WatchInv, NumbersInv, Numbers
    <3>7. NamesOf(wdOf[d]) # {}
      BY <3>2, <3>6 DEF WatchInv, RemovalInv
    <3>8. \E w \in Numbers' : queue'[i].wd = w /\ NamesOf(w)' # {}
      <4>1. \A w : NamesOf(w)' = NamesOf(w)
        BY <1>1, WatcherSame
      <4>2. PICK w \in Numbers : w = wdOf[d] /\ NamesOf(w) # {}
        BY <3>6, <3>7
      <4> QED  BY <3>3, <3>6, <4>1, <4>2
    <3>9. Reportable(d)'
      BY <3>1, <3>3, <3>5, <3>8 DEF Reportable
    <3> QED  BY <3>1, <3>2, <3>9
  <2> QED  BY <2>2, <2>3
<1> QED  BY <1>2, <1>4, <1>8, <1>9 DEF WatchInv

\* What leads to a directory leads to the one made in it.
LEMMA LeadsToChild ==
  ASSUME NumbersInv, NEW c \in AllCalls, NEW p \in Paths \ {Root}, LeadsTo(c, Parent(p))
  PROVE  /\ IsPrefix(c.path, p) /\ c.path # p
         /\ \/ c.at \in {"add", "name", "start", "assign", "open"}
            \/ c.at = "list" /\ p[Len(c.path) + 1] \in c.left
<1> DEFINE r == Parent(p)
           s == c.path
<1>1. c \in AddWatchCalls /\ p \in Seq(Names)
  BY CallsAreTyped, PathIsSeq
<1>2. /\ s \in Seq(Names) /\ Len(s) \in Nat
      /\ r \in Seq(Names) /\ Len(r) = Len(p) - 1 /\ Len(p) \in Nat \ {0} /\ IsPrefix(r, p)
  BY <1>1, ParentAbove, LenProperties DEF AddWatchCalls
<1>3. IsPrefix(s, r)
  BY DEF LeadsTo
<1> HIDE DEF r, s
<1>4. Len(s) <= Len(r) /\ (s # r => Len(s) # Len(r))
  BY <1>2, <1>3, PrefixByName, PrefixOrder
<1>5. IsPrefix(s, p) /\ s # p
  BY <1>1, <1>2, <1>3, <1>4, PrefixOrder
<1>6. s # r => p[Len(s) + 1] = r[Len(s) + 1]
  BY <1>1, <1>2, <1>4, PrefixByName
<1> QED  BY <1>5, <1>6 DEF LeadsTo, r, s

LEMMA MakeDirStep ==
  ASSUME WatchInv, NEW p \in Paths \ {Root}, MakeDir(p)
  PROVE  WatchInv'
<1> DEFINE r == Parent(p)
<1>1. /\ p \notin dirs /\ r \in dirs /\ dirs' = dirs \cup {p}
      /\ queue' = Event(r, "mkdir", Last(p))
      /\ harmed' = IF r \in harmed \/ Dropped(r) THEN harmed \cup {p} ELSE harmed
      /\ UNCHANGED <<wdOf, nextWd, watcher, moved, awaited>>
      /\ changes' \in 0 .. MaxChanges
  BY ChangesAssumption DEF MakeDir, Change, WatchInv, TreeInv
<1>2. /\ p \in Seq(Names) /\ r \in Seq(Names) /\ r \in Paths /\ Last(p) \in Names
      /\ IsPrefix(r, p) /\ Append(r, Last(p)) = p
      /\ \A q \in Seq(Names) : IsPrefix(q, p) => q = p \/ IsPrefix(q, r)
  BY <1>1, PathIsSeq, ParentAbove DEF WatchInv, TreeInv
<1> HIDE DEF r
<1>3. TreeInv'
  <2>1. \A d \in dirs' : \A q \in Paths : IsPrefix(q, d) => q \in dirs'
    BY <1>1, <1>2, PathIsSeq DEF WatchInv, TreeInv
  <2> QED  BY <1>1, <2>1 DEF WatchInv, TreeInv
<1>4. NumbersInv' /\ ThreadInv' /\ NamesInv' /\ RemovalInv'
  <2>1. /\ wdOf' \in [DOMAIN wdOf' -> 1 .. nextWd - 1]
        /\ \A q \in DOMAIN wdOf' : /\ q \in DOMAIN wdOf /\ wdOf'[q] = wdOf[q] /\ q \in dirs'
                                   /\ q \in harmed => q \in harmed'
                                   /\ Under(q, moved) => Under(q, moved')
    BY <1>1 DEF WatchInv, NumbersInv
  <2> QED  BY <1>1, <1>2, <2>1, EventKeeps
<1>5. /\ Len(queue) \in Nat /\ Len(queue') \in Nat /\ Len(queue) <= Len(queue')
      /\ \A i \in 1 .. Len(queue) : queue'[i] = queue[i]
  BY <1>1, <1>2, EventQueued DEF WatchInv
<1>6. /\ \A s : Announced(s) => Announced(s)'
      /\ \A f : Reportable(f) => Reportable(f)'
  BY <1>1, <1>5, EventsLast
<1>7. AllCalls' = AllCalls /\ UNCHANGED <<watchSet, stack>>
  BY <1>1, WatcherSame
<1>8. \A d : Excused(d) => Excused(d)'
  BY <1>1 DEF Excused, Under
<1>9. ReachInv'
  <2>1. ASSUME NEW d \in dirs
        PROVE  Excused(d)' \/ Watched(d)' \/ Pending(d)'
    BY <1>1, <1>6, <1>7, <1>8, ReachKept DEF WatchInv, ReachInv
  <2>2. Excused(p)' \/ Pending(p)'
    <3> SUFFICES ASSUME ~Excused(p)'
                 PROVE  Pending(p)'
      OBVIOUS
    <3>1. r \notin harmed /\ ~Dropped(r) /\ ~Under(p, moved) /\ ~Under(p, Ignored)
      BY <1>1 DEF Excused
    <3>2. ~Under(r, moved) /\ ~Under(r, Ignored)
      <4>1. moved \subseteq Seq(Names) /\ Ignored \subseteq Seq(Names)
        BY PathIsSeq, IgnoredAssumption DEF WatchInv, TreeInv
      <4> QED  BY <1>2, <3>1, <4>1, PrefixOrder DEF Under
    <3>3. Watched(r) \/ Pending(r)
      BY <1>1, <3>1, <3>2 DEF Excused, WatchInv, ReachInv
    <3>4. CASE Watched(r)
      <4>1. PICK i \in Nat : i = Len(queue) + 1
        BY <1>5
      <4>2. /\ i \in 1 .. Len(queue')
            /\ queue'[i] = [wd |-> wdOf[r], kind |-> "mkdir", name |-> Last(p), dir |-> r,
                            stale |-> Under(r, moved)]
        <5>1. NumbersInv /\ r \in DOMAIN wdOf /\ ~Dropped(r)
          BY <3>1, <3>4 DEF WatchInv, Watched
        <5>2. Len(queue) + 1 \in 1 .. Len(queue')
          BY <1>1, <1>2, <5>1, EventQueued
        <5>3. \A j \in 1 .. Len(queue') : j \in 1 .. Len(queue) \/
                queue'[j] = [wd |-> wdOf[r], kind |-> "mkdir", name |-> Last(p), dir |-> r,
                             stale |-> Under(r, moved)]
          BY <1>1, <1>2, <5>1, EventQueued
        <5>4. i \notin 1 .. Len(queue)
          BY <1>5, <4>1
        <5> QED  BY <4>1, <5>2, <5>3, <5>4
      <4>3. queue'[i].wd = wdOf[r] /\ queue'[i].kind = "mkdir" /\ queue'[i].name = Last(p)
        BY <4>2
      <4>4. Lasting(i)'
        BY <1>1, <1>5, <3>1, <3>4, <4>1, <4>3, NewEventLasts DEF Watched
      <4>5. /\ queue'[i].wd \in DOMAIN watchSet'
            /\ Append(watchSet'[queue'[i].wd], queue'[i].name) = p
        BY <1>2, <1>7, <3>4, <4>3 DEF Watched
      <4>6. Announced(p)'
        BY <4>2, <4>3, <4>4, <4>5 DEF Announced
      <4> QED  BY <1>2, <4>6, PrefixOrder DEF Pending
    <3>5. CASE \E s \in Paths : IsPrefix(s, r) /\ Announced(s)
      BY <1>2, <1>6, <3>5, PathIsSeq, PrefixOrder DEF Pending
    <3>6. CASE \E c \in AllCalls : LeadsTo(c, r)
      <4>1. PICK c \in AllCalls : LeadsTo(c, r)
        BY <3>6
      <4>2. /\ IsPrefix(c.path, p) /\ c.path # p
            /\ \/ c.at \in {"add", "name", "start", "assign", "open"}
               \/ c.at = "list" /\ p[Len(c.path) + 1] \in c.left
        BY <4>1, LeadsToChild DEF WatchInv, r
      <4>3. LeadsTo(c, p)'
        BY <4>2 DEF LeadsTo
      <4> QED  BY <1>7, <4>3 DEF Pending
    <3> QED  BY <3>3, <3>4, <3>5, <3>6 DEF Pending
  <2> QED  BY <1>1, <2>1, <2>2 DEF ReachInv
<1>10. AwaitInv'
  BY <1>1, <1>6, <1>7, <1>8 DEF WatchInv, AwaitInv
<1> QED  BY <1>3, <1>4, <1>9, <1>10 DEF WatchInv

LEMMA RemoveDirStep ==
  ASSUME WatchInv, NEW p \in Paths \ {Root}, RemoveDir(p)
  PROVE  WatchInv'
<1> DEFINE r == Parent(p)
<1>1. /\ p \in dirs /\ dirs' = dirs \ {p}
      /\ \A q \in dirs : q # Root => Parent(q) # p
      /\ queue' = Event(r, "rmdir", Last(p))
      /\ wdOf' = [q \in DOMAIN wdOf \ {p} |-> wdOf[q]]
      /\ moved' = moved \ {p} /\ harmed' = (harmed \ {p}) \cup {r} /\ awaited' = awaited \ {p}
      /\ UNCHANGED <<nextWd, watcher>>
      /\ changes' \in 0 .. MaxChanges
  BY ChangesAssumption DEF RemoveDir, Change, WatchInv, TreeInv
<1>2. dirs \subseteq Paths /\ dirs \subseteq Seq(Names)
  BY TreeFacts DEF WatchInv
<1>3. r \in dirs /\ r # p /\ Last(p) \in Names
  <2>1. r \in dirs /\ Last(p) \in Names
    BY <1>1, TreeFacts DEF WatchInv
  <2>2. r # p
    BY <1>1, <1>2, ParentAbove
  <2> QED  BY <2>1, <2>2
<1> HIDE DEF r
\* Nothing is left below p.
<1>4. ASSUME NEW d \in dirs, IsPrefix(p, d)
      PROVE  d = p
  <2> SUFFICES ASSUME d # p
               PROVE  FALSE
    OBVIOUS
  <2>1. p \in Seq(Names) /\ d \in Seq(Names)
    BY <1>1, <1>2
  <2>2. PICK c \in Seq(Names) : c # Root /\ IsPrefix(c, d) /\ Parent(c) = p
    BY <1>4, <2>1, ChildBelow
  <2>3. c \in dirs
    BY <2>2, TreeFacts DEF WatchInv
  <2> QED  BY <1>1, <2>2, <2>3
<1>5. TreeInv'
  <2>1. \A d \in dirs' : \A q \in Paths : IsPrefix(q, d) => q \in dirs'
    BY <1>1, <1>4 DEF WatchInv, TreeInv
  <2> QED  BY <1>1, <1>3, <2>1 DEF WatchInv, TreeInv
<1>6. ASSUME NEW d \in dirs'
      PROVE  /\ d \in DOMAIN wdOf => d \in DOMAIN wdOf' /\ wdOf'[d] = wdOf[d]
             /\ Under(d, moved) => Under(d, moved')
             /\ d \in harmed => d \in harmed'
  BY <1>1, <1>4 DEF Under
<1>7. NumbersInv' /\ ThreadInv' /\ NamesInv' /\ RemovalInv'
  <2>1. DOMAIN wdOf \subseteq dirs /\ wdOf \in [DOMAIN wdOf -> 1 .. nextWd - 1]
    BY DEF WatchInv, NumbersInv
  <2>2. /\ wdOf' \in [DOMAIN wdOf' -> 1 .. nextWd - 1]
        /\ \A q \in DOMAIN wdOf' : q \in DOMAIN wdOf /\ wdOf'[q] = wdOf[q] /\ q \in dirs'
    BY <1>1, <2>1
  <2>3. /\ r \in DOMAIN wdOf => r \in DOMAIN wdOf'
        /\ r \in harmed' /\ r \in Paths
    BY <1>1, <1>2, <1>3
  <2>4. \A q \in DOMAIN wdOf' : /\ Under(q, moved) => Under(q, moved')
                                /\ q \in harmed => q \in harmed'
    BY <1>6, <2>2
  <2> QED  BY <1>1, <1>3, <2>2, <2>3, <2>4, EventKeeps
<1>8. /\ Len(queue) \in Nat /\ Len(queue') \in Nat /\ Len(queue) <= Len(queue')
      /\ \A i \in 1 .. Len(queue) : queue'[i] = queue[i]
  BY <1>1, <1>2, <1>3, EventQueued DEF WatchInv
<1>9. /\ \A s : Announced(s) => Announced(s)'
      /\ \A f : Reportable(f) => Reportable(f)'
  BY <1>1, <1>8, EventsLast
<1>10. AllCalls' = AllCalls /\ UNCHANGED <<watchSet, stack>>
  BY <1>1, WatcherSame
<1>11. \A d \in dirs' : Excused(d) => Excused(d)'
  BY <1>6 DEF Excused, Under
<1>12. ReachInv'
  <2> SUFFICES ASSUME NEW d \in dirs'
               PROVE  Excused(d)' \/ Watched(d)' \/ Pending(d)'
    BY DEF ReachInv
  <2>1. d \in dirs
    BY <1>1
  <2> QED  BY <1>6, <1>9, <1>10, <1>11, <2>1, ReachKept DEF WatchInv, ReachInv
<1>13. AwaitInv'
  <2>1. \A d \in awaited' : d \in awaited /\ d \in dirs'
    BY <1>1, <1>5 DEF TreeInv
  <2> QED  BY <1>9, <1>10, <1>11, <2>1 DEF WatchInv, AwaitInv
<1> QED  BY <1>5, <1>7, <1>12, <1>13 DEF WatchInv

\* The directories of a tree after one was moved.
LEMMA MovedTree ==
  ASSUME TreeInv, NEW p \in dirs \ {Root}, NEW q \in Paths \ dirs, ~IsPrefix(p, q),
         Parent(q) \in dirs, \A r \in dirs : ~(Len(MovedTo(p, q, r)) > MaxDepth)
  PROVE  /\ \A r \in dirs : /\ MovedTo(p, q, r) \in Paths
                            /\ IF IsPrefix(p, r) THEN IsPrefix(q, MovedTo(p, q, r))
                               ELSE MovedTo(p, q, r) = r
         /\ \A r, s \in dirs : MovedTo(p, q, r) = MovedTo(p, q, s) => r = s
         /\ MovedTo(p, q, Root) = Root /\ MovedTo(p, q, p) = q
         /\ \A r \in dirs : \A t \in Paths :
              IsPrefix(t, MovedTo(p, q, r)) => \E s \in dirs : t = MovedTo(p, q, s)
<1>1. /\ dirs \subseteq Seq(Names) /\ dirs \subseteq Paths /\ Root \in dirs
      /\ p \in Seq(Names) /\ q \in Seq(Names) /\ q # Root
      /\ \A r \in dirs : \A t \in Seq(Names) : IsPrefix(t, r) => t \in dirs
  BY PathIsSeq, TreeFacts DEF TreeInv
<1>2. ASSUME NEW r \in dirs
      PROVE  /\ Len(r) \in Nat /\ Len(p) \in Nat /\ Len(q) \in Nat /\ r \in Seq(Names)
             /\ ~IsPrefix(p, r) => MovedTo(p, q, r) = r
             /\ IsPrefix(p, r) =>
                  /\ MovedTo(p, q, r) \in Seq(Names) /\ Len(p) <= Len(r)
                  /\ Len(MovedTo(p, q, r)) = Len(q) + Len(r) - Len(p)
                  /\ IsPrefix(q, MovedTo(p, q, r))
                  /\ \A i \in 1 .. Len(r) - Len(p) : MovedTo(p, q, r)[Len(q) + i] = r[Len(p) + i]
  <2>1. p \in Seq(Names) /\ q \in Seq(Names) /\ r \in Seq(Names)
    BY <1>1
  <2>2. Len(r) \in Nat /\ Len(p) \in Nat /\ Len(q) \in Nat
    BY <1>1, <2>1, LenProperties
  <2>3. IsPrefix(p, r) => Len(p) <= Len(r)
    BY <1>1, <2>1, PrefixByName
  <2>4. /\ ~IsPrefix(p, r) => MovedTo(p, q, r) = r
        /\ IsPrefix(p, r) =>
             /\ MovedTo(p, q, r) \in Seq(Names)
             /\ Len(MovedTo(p, q, r)) = Len(q) + Len(r) - Len(p)
             /\ IsPrefix(q, MovedTo(p, q, r))
             /\ \A i \in 1 .. Len(r) - Len(p) : MovedTo(p, q, r)[Len(q) + i] = r[Len(p) + i]
    BY <2>1, MovedPaths, ZenonT(30)
  <2> QED  BY <2>1, <2>2, <2>3, <2>4
<1>3. ASSUME NEW r \in dirs
      PROVE  MovedTo(p, q, r) \in Paths
  <2>1. CASE IsPrefix(p, r)
    <3>1. /\ MovedTo(p, q, r) \in Seq(Names)
          /\ Len(MovedTo(p, q, r)) \in Nat /\ ~(Len(MovedTo(p, q, r)) > MaxDepth)
      BY <1>2, <2>1, LenProperties
    <3>2. Len(MovedTo(p, q, r)) <= MaxDepth
      BY <3>1, DepthAssumption
    <3> QED  BY <3>1, <3>2, PathIsSeq
  <2>2. CASE ~IsPrefix(p, r)
    BY <1>1, <1>2, <2>2
  <2> QED  BY <2>1, <2>2
<1>4. ASSUME NEW r \in dirs, NEW s \in dirs, MovedTo(p, q, r) = MovedTo(p, q, s),
             IsPrefix(p, r), ~IsPrefix(p, s)
      PROVE  FALSE
  BY <1>1, <1>2, <1>4
<1>5. ASSUME NEW r \in dirs, NEW s \in dirs, MovedTo(p, q, r) = MovedTo(p, q, s)
      PROVE  r = s
  <2>1. CASE IsPrefix(p, r) /\ IsPrefix(p, s)
    <3>1. Len(r) = Len(s) /\ Len(r) \in Nat /\ Len(p) \in Nat /\ Len(p) <= Len(r)
      BY <1>2, <1>5, <2>1
    <3>2. \A i \in 1 .. Len(r) - Len(p) : r[Len(p) + i] = s[Len(p) + i]
      BY <1>2, <1>5, <2>1, <3>1
    <3>3. \A i \in 1 .. Len(p) : r[i] = p[i] /\ s[i] = p[i]
      BY <1>1, <2>1, PrefixByName
    <3>4. ASSUME NEW i \in 1 .. Len(r)
          PROVE  r[i] = s[i]
      <4>1. CASE i \in 1 .. Len(p)
        BY <3>3, <4>1
      <4>2. CASE i \notin 1 .. Len(p)
        <5>1. i - Len(p) \in 1 .. Len(r) - Len(p) /\ Len(p) + (i - Len(p)) = i
          BY <3>1, <4>2
        <5> QED  BY <3>2, <5>1
      <4> QED  BY <4>1, <4>2
    <3> QED  BY <1>1, <3>1, <3>4, SeqEqual
  <2>2. CASE ~IsPrefix(p, r) /\ ~IsPrefix(p, s)
    BY <1>2, <1>5, <2>2
  <2> QED  BY <1>4, <1>5, <2>1, <2>2
<1>6. MovedTo(p, q, Root) = Root
  <2>1. ~IsPrefix(p, Root)
    <3>1. IsPrefix(Root, p) /\ Root \in Seq(Names) /\ Len(Root) \in Nat /\ Len(p) \in Nat
      BY <1>1, PrefixOrder, LenProperties
    <3>2. IsPrefix(p, Root) => Len(p) <= Len(Root)
      BY <1>1, <3>1, PrefixByName
    <3>3. Len(Root) <= Len(p)
      BY <1>1, <3>1, PrefixByName
    <3>4. IsPrefix(p, Root) /\ Len(p) = Len(Root) => p = Root
      BY <1>1, <3>1, PrefixOrder
    <3> QED  BY <3>1, <3>2, <3>3, <3>4
  <2> QED  BY <1>1, <1>2, <2>1
<1>7. MovedTo(p, q, p) = q
  <2>1. IsPrefix(p, p)
    BY <1>1, PrefixOrder
  <2>2. PICK s : s = MovedTo(p, q, p)
    OBVIOUS
  <2>3. s \in Seq(Names) /\ Len(s) = Len(q) /\ IsPrefix(q, s)
    BY <1>2, <2>1, <2>2
  <2> QED  BY <1>1, <2>2, <2>3, PrefixOrder
<1>8. ASSUME NEW r \in dirs, NEW t \in Paths, IsPrefix(t, MovedTo(p, q, r))
      PROVE  \E s \in dirs : t = MovedTo(p, q, s)
  <2>1. t \in Seq(Names) /\ Len(t) \in Nat
    BY PathIsSeq, LenProperties
  <2>2. PICK m \in Seq(Names) : m = MovedTo(p, q, r)
    BY <1>1, <1>2
  <2>3. CASE ~IsPrefix(p, r)
    <3>1. IsPrefix(t, r)
      BY <1>2, <1>8, <2>3
    <3>2. t \in dirs /\ ~IsPrefix(p, t)
      BY <1>1, <2>1, <2>3, <3>1, PrefixOrder
    <3> QED  BY <1>2, <3>2
  <2>4. CASE IsPrefix(p, r) /\ IsPrefix(t, q)
    <3>1. CASE t = q
      BY <1>7, <3>1
    <3>2. CASE t # q
      <4>1. IsPrefix(t, Parent(q))
        BY <1>1, <2>1, <2>4, <3>2, ParentAbove
      <4>2. t \in dirs
        BY <1>1, <2>1, <4>1
      <4>3. ~IsPrefix(p, t)
        BY <1>1, <2>1, <2>4, PrefixOrder
      <4> QED  BY <1>2, <4>2, <4>3
    <3> QED  BY <3>1, <3>2
  <2>5. CASE IsPrefix(p, r) /\ IsPrefix(q, t)
    <3>1. /\ r \in Seq(Names) /\ Len(r) \in Nat /\ Len(p) \in Nat /\ Len(q) \in Nat
          /\ Len(p) <= Len(r) /\ Len(m) = Len(q) + Len(r) - Len(p)
          /\ \A i \in 1 .. Len(r) - Len(p) : m[Len(q) + i] = r[Len(p) + i]
      BY <1>2, <2>2, <2>5
    <3>2. /\ Len(t) <= Len(m) /\ \A i \in 1 .. Len(t) : t[i] = m[i]
      BY <1>8, <2>1, <2>2, PrefixByName
    <3>3. Len(q) <= Len(t) /\ \A i \in 1 .. Len(q) : q[i] = t[i]
      BY <1>1, <2>1, <2>5, PrefixByName
    <3>4. PICK k \in Nat : k = Len(t) - Len(q)
      BY <2>1, <3>1, <3>3
    <3>5. k <= Len(r) - Len(p)
      BY <3>1, <3>2, <3>4, <2>1
    <3>6. PICK s : s = SubSeq(r, 1, Len(p) + k)
      OBVIOUS
    <3>7. s \in Seq(Names) /\ Len(s) = Len(p) + k /\ \A i \in 1 .. Len(p) + k : s[i] = r[i]
      <4>1. Len(p) + k \in Nat /\ Len(p) + k <= Len(r)
        BY <3>1, <3>5
      <4> QED  BY <3>1, <3>6, <4>1
    <3>8. IsPrefix(s, r)
      <4>1. Len(s) <= Len(r) /\ \A i \in 1 .. Len(s) : s[i] = r[i]
        BY <3>1, <3>5, <3>7
      <4> QED  BY <3>1, <3>7, <4>1, PrefixByName
    <3>9. s \in dirs
      BY <1>1, <3>7, <3>8
    <3>10. IsPrefix(p, s)
      <4>1. Len(p) <= Len(r) /\ \A i \in 1 .. Len(p) : p[i] = r[i]
        BY <1>1, <2>5, <3>1, PrefixByName
      <4>2. Len(p) <= Len(s) /\ \A i \in 1 .. Len(p) : p[i] = s[i]
        BY <3>1, <3>7, <4>1
      <4> QED  BY <1>1, <3>7, <4>2, PrefixByName
    <3>11. PICK u : u = MovedTo(p, q, s)
      OBVIOUS
    <3>12. /\ u \in Seq(Names) /\ Len(u) = Len(q) + Len(s) - Len(p) /\ IsPrefix(q, u)
           /\ \A i \in 1 .. Len(s) - Len(p) : u[Len(q) + i] = s[Len(p) + i]
      BY <1>2, <3>9, <3>10, <3>11
    <3>13. Len(u) = Len(t) /\ \A i \in 1 .. k : u[Len(q) + i] = s[Len(p) + i]
      <4>1. Len(s) - Len(p) = k
        BY <3>1, <3>7
      <4>2. Len(q) + Len(s) - Len(p) = Len(t)
        BY <2>1, <3>1, <3>4, <3>7
      <4> QED  BY <3>12, <4>1, <4>2
    <3>14. \A i \in 1 .. Len(q) : u[i] = q[i]
      BY <1>1, <3>12, PrefixByName
    <3>15. ASSUME NEW i \in 1 .. Len(t)
           PROVE  t[i] = u[i]
      <4>1. CASE i \in 1 .. Len(q)
        BY <3>3, <3>14, <4>1
      <4>2. CASE i \notin 1 .. Len(q)
        <5>1. PICK j \in 1 .. k : i = Len(q) + j
          <6>1. i - Len(q) \in 1 .. k /\ i = Len(q) + (i - Len(q))
            BY <2>1, <3>1, <3>4, <4>2
          <6> QED  BY <6>1
        <5>2. u[i] = s[Len(p) + j]
          BY <3>13, <5>1
        <5>3. s[Len(p) + j] = r[Len(p) + j]
          <6>1. Len(p) + j \in 1 .. Len(p) + k
            BY <3>1
          <6> QED  BY <3>7, <6>1
        <5>4. m[i] = r[Len(p) + j]
          <6>1. j \in 1 .. Len(r) - Len(p)
            BY <3>1, <3>5
          <6> QED  BY <3>1, <5>1, <6>1
        <5> QED  BY <3>2, <5>2, <5>3, <5>4
      <4> QED  BY <4>1, <4>2
    <3>16. t = u
      BY <2>1, <3>12, <3>13, <3>15, SeqEqual
    <3> QED  BY <3>9, <3>11, <3>16
  <2>6. IsPrefix(p, r) => IsPrefix(t, q) \/ IsPrefix(q, t)
    BY <1>1, <1>2, <1>8, <2>1, <2>2, PrefixOrder
  <2> QED  BY <2>3, <2>4, <2>5, <2>6
<1> QED  BY <1>2, <1>3, <1>5, <1>6, <1>7, <1>8

LEMMA MoveDirStep ==
  ASSUME WatchInv, NEW p \in Paths \ {Root}, NEW q \in Paths \ {Root}, MoveDir(p, q)
  PROVE  WatchInv'
<1> DEFINE M(r) == MovedTo(p, q, r)
<1>1. /\ p \in dirs \ {Root} /\ q \in Paths \ dirs /\ ~IsPrefix(p, q) /\ Parent(q) \in dirs
      /\ \A r \in dirs : ~(Len(M(r)) > MaxDepth)
      /\ dirs' = {M(r) : r \in dirs}
      /\ wdOf' = [s \in {M(r) : r \in DOMAIN wdOf} |->
                    wdOf[CHOOSE r \in DOMAIN wdOf : M(r) = s]]
      /\ moved' = {M(r) : r \in moved} \cup {q}
      /\ harmed' = {M(r) : r \in harmed}
      /\ awaited' = {d \in awaited : ~IsPrefix(p, d)}
      /\ queue' = [i \in DOMAIN queue |-> [queue[i] EXCEPT !.stale = @ \/ IsPrefix(p, queue[i].dir)]]
      /\ UNCHANGED <<nextWd, watcher>>
      /\ changes' \in 0 .. MaxChanges
  BY ChangesAssumption DEF MoveDir, Change, WatchInv, TreeInv
<1>2. /\ \A r \in dirs : M(r) \in Paths /\ IF IsPrefix(p, r) THEN IsPrefix(q, M(r)) ELSE M(r) = r
      /\ \A r, s \in dirs : M(r) = M(s) => r = s
      /\ M(Root) = Root /\ M(p) = q
      /\ \A r \in dirs : \A t \in Paths : IsPrefix(t, M(r)) => \E s \in dirs : t = M(s)
  BY <1>1, MovedTree DEF WatchInv
<1> HIDE DEF M
<1>3. /\ dirs \subseteq Paths /\ dirs \subseteq Seq(Names) /\ Root \in dirs
      /\ moved \subseteq dirs /\ harmed \subseteq dirs /\ awaited \subseteq dirs
      /\ DOMAIN wdOf \subseteq dirs /\ wdOf \in [DOMAIN wdOf -> 1 .. nextWd - 1]
  BY PathIsSeq DEF WatchInv, TreeInv, NumbersInv
<1>4. TreeInv'
  <2>1. awaited' \subseteq dirs'
    BY <1>1, <1>2, <1>3
  <2>2. moved' \subseteq dirs' /\ harmed' \subseteq dirs' /\ dirs' \subseteq Paths /\ Root \in dirs'
    BY <1>1, <1>2, <1>3
  <2>3. \A d \in dirs' : \A t \in Paths : IsPrefix(t, d) => t \in dirs'
    BY <1>1, <1>2
  <2> QED  BY <1>1, <2>1, <2>2, <2>3 DEF TreeInv
\* The directories moved are excused; the others are as they were.
<1>5. ASSUME NEW r \in dirs
      PROVE  \/ Under(M(r), moved')
             \/ /\ M(r) = r /\ ~IsPrefix(p, r)
                /\ Under(r, moved) => Under(r, moved')
                /\ r \in harmed => r \in harmed'
  <2>1. CASE IsPrefix(p, r)
    BY <1>1, <1>2, <2>1 DEF Under
  <2>2. CASE ~IsPrefix(p, r)
    <3>1. M(r) = r /\ (r \in harmed => r \in harmed')
      BY <1>1, <1>2, <2>2
    <3>2. ASSUME NEW s \in moved, IsPrefix(s, r)
          PROVE  s \in moved'
      <4>1. ~IsPrefix(p, s)
        BY <1>1, <1>3, <2>2, <3>2, PrefixOrder
      <4>2. M(s) = s
        BY <1>2, <1>3, <4>1
      <4> QED  BY <1>1, <4>2
    <3> QED  BY <2>2, <3>1, <3>2 DEF Under
  <2> QED  BY <2>1, <2>2
<1>6. /\ DOMAIN wdOf' = {M(r) : r \in DOMAIN wdOf}
      /\ \A r \in DOMAIN wdOf : M(r) \in DOMAIN wdOf' /\ wdOf'[M(r)] = wdOf[r]
  <2>1. DOMAIN wdOf' = {M(r) : r \in DOMAIN wdOf}
    BY <1>1
  <2>2. ASSUME NEW r \in DOMAIN wdOf
        PROVE  wdOf'[M(r)] = wdOf[r]
    <3>1. PICK s : s = CHOOSE t \in DOMAIN wdOf : M(t) = M(r)
      OBVIOUS
    <3>2. s \in DOMAIN wdOf /\ M(s) = M(r)
      BY <3>1
    <3>3. s = r
      BY <1>2, <1>3, <3>2
    <3>4. wdOf'[M(r)] = wdOf[s]
      BY <1>1, <3>1
    <3> QED  BY <3>3, <3>4
  <2> QED  BY <2>1, <2>2
<1>7. /\ queue \in Seq(Events) /\ Len(queue) \in Nat
      /\ queue' \in Seq(Events) /\ Len(queue') = Len(queue)
      /\ \A i \in 1 .. Len(queue) :
           /\ queue'[i].wd = queue[i].wd /\ queue'[i].kind = queue[i].kind
           /\ queue'[i].name = queue[i].name /\ queue'[i].dir = queue[i].dir
           /\ queue[i].stale \/ IsPrefix(p, queue[i].dir) => queue'[i].stale
  <2>1. queue \in Seq(Events) /\ Len(queue) \in Nat /\ DOMAIN queue = 1 .. Len(queue)
    BY LenProperties DEF WatchInv, NumbersInv
  <2>2. \A i \in 1 .. Len(queue) :
          /\ queue'[i] = [queue[i] EXCEPT !.stale = @ \/ IsPrefix(p, queue[i].dir)]
          /\ queue[i] \in Events
    BY <1>1, <2>1, ElementOfSeq
  <2>3. \A i \in 1 .. Len(queue) : (queue[i].stale \/ IsPrefix(p, queue[i].dir)) \in BOOLEAN
    OBVIOUS
  <2>4. \A i \in 1 .. Len(queue) : /\ queue'[i] \in Events
           /\ queue'[i].wd = queue[i].wd /\ queue'[i].kind = queue[i].kind
           /\ queue'[i].name = queue[i].name /\ queue'[i].dir = queue[i].dir
           /\ queue'[i].stale = (queue[i].stale \/ IsPrefix(p, queue[i].dir))
    <3> SUFFICES ASSUME NEW i \in 1 .. Len(queue)
                 PROVE  /\ queue'[i] \in Events
                        /\ queue'[i].wd = queue[i].wd /\ queue'[i].kind = queue[i].kind
                        /\ queue'[i].name = queue[i].name /\ queue'[i].dir = queue[i].dir
                        /\ queue'[i].stale = (queue[i].stale \/ IsPrefix(p, queue[i].dir))
      OBVIOUS
    <3>1. PICK e \in Events : e = queue[i]
      BY <2>2
    <3>2. PICK b \in BOOLEAN : b = (e.stale \/ IsPrefix(p, e.dir))
      BY <2>3, <3>1
    <3>3. queue'[i] = [e EXCEPT !.stale = b]
      BY <2>2, <3>1, <3>2
    <3>4. /\ [e EXCEPT !.stale = b] \in Events /\ [e EXCEPT !.stale = b].stale = b
          /\ [e EXCEPT !.stale = b].wd = e.wd /\ [e EXCEPT !.stale = b].kind = e.kind
          /\ [e EXCEPT !.stale = b].name = e.name /\ [e EXCEPT !.stale = b].dir = e.dir
      BY DEF Events
    <3> QED  BY <3>1, <3>2, <3>3, <3>4
  <2>5. queue' \in Seq(Events) /\ Len(queue') = Len(queue)
    <3>1. queue' \in [1 .. Len(queue) -> Events]
      BY <1>1, <2>1, <2>4
    <3> QED  BY <2>1, <3>1
  <2> QED  BY <2>1, <2>4, <2>5
<1>8. /\ UNCHANGED <<watchSet, started, joinable, ended, stack, removing, nextWd>>
      /\ AllCalls' = AllCalls
      /\ \A w : NamesOf(w)' = NamesOf(w)
      /\ ThreadInv' /\ Naming' = Naming /\ Numbers' = Numbers
  BY <1>1, WatcherSame DEF WatchInv, Naming, Numbers
<1>9. NumbersInv'
  <2>1. /\ wdOf' \in [DOMAIN wdOf' -> 1 .. nextWd - 1] /\ DOMAIN wdOf' \subseteq dirs'
        /\ \A r, s \in DOMAIN wdOf' : wdOf'[r] = wdOf'[s] => r = s
    <3>1. \A s \in DOMAIN wdOf' : \E r \in DOMAIN wdOf : s = M(r) /\ wdOf'[s] = wdOf[r]
      BY <1>6
    <3>2. DOMAIN wdOf' \subseteq dirs'
      BY <1>1, <1>3, <1>6
    <3>3. \A s \in DOMAIN wdOf' : wdOf'[s] \in 1 .. nextWd - 1
      BY <1>3, <3>1
    <3>4. wdOf' \in [DOMAIN wdOf' -> 1 .. nextWd - 1]
      <4>1. PICK D, f : D = {M(r) : r \in DOMAIN wdOf} /\ f = [s \in D |-> wdOf[CHOOSE r \in DOMAIN wdOf : M(r) = s]]
        OBVIOUS
      <4> QED  BY <1>1, <3>3, <4>1
    <3>5. \A r, s \in DOMAIN wdOf : wdOf[r] = wdOf[s] => r = s
      BY DEF WatchInv, NumbersInv
    <3> QED  BY <3>1, <3>2, <3>4, <3>5
  <2> QED  BY <1>7, <1>8, <2>1 DEF WatchInv, NumbersInv
<1>10. NamesInv'
  <2>1. ASSUME NEW w \in Numbers, NEW x \in NamesOf(w), NEW s \in DOMAIN wdOf', wdOf'[s] = w
        PROVE  Under(s, moved') \/ x = s
    <3>1. PICK r \in DOMAIN wdOf : s = M(r) /\ wdOf[r] = w
      BY <1>6, <2>1
    <3>2. Under(r, moved) \/ x = r
      BY <3>1 DEF WatchInv, NamesInv
    <3> QED  BY <1>3, <1>5, <3>1, <3>2
  <2>2. ASSUME NEW w \in Numbers, NEW x \in NamesOf(w), NEW i \in 1 .. Len(queue'),
               queue'[i].wd = w
        PROVE  queue'[i].stale \/ x = queue'[i].dir
    BY <1>7, <2>2 DEF WatchInv, NamesInv
  <2>3. ASSUME NEW i \in 1 .. Len(queue'), NEW s \in DOMAIN wdOf', queue'[i].wd = wdOf'[s]
        PROVE  queue'[i].stale \/ queue'[i].dir = s
    <3>1. PICK r \in DOMAIN wdOf : s = M(r) /\ wdOf'[s] = wdOf[r]
      BY <1>6
    <3>2. queue[i].stale \/ queue[i].dir = r
      BY <1>7, <2>3, <3>1 DEF WatchInv, NamesInv
    <3>3. IsPrefix(p, r) \/ M(r) = r
      BY <1>2, <1>3
    <3> QED  BY <1>7, <3>1, <3>2, <3>3
  <2> QED  BY <1>8, <2>1, <2>2, <2>3 DEF NamesInv
<1>11. RemovalInv'
  <2>1. ASSUME NEW s \in DOMAIN wdOf'
        PROVE  wdOf'[s] # removing' /\ (s \in Ignored => Under(s, moved'))
    <3>1. PICK r \in DOMAIN wdOf : s = M(r) /\ wdOf'[s] = wdOf[r]
      BY <1>6
    <3> QED  BY <1>3, <1>5, <1>8, <3>1 DEF WatchInv, RemovalInv
  <2>2. ASSUME NEW w \in Numbers, NEW s \in DOMAIN wdOf', wdOf'[s] = w
        PROVE  NamesOf(w)' # {}
    <3>1. PICK r \in DOMAIN wdOf : s = M(r) /\ wdOf'[s] = wdOf[r]
      BY <1>6
    <3> QED  BY <1>8, <2>2, <3>1 DEF WatchInv, RemovalInv
  <2>3. ASSUME NEW i \in 1 .. Len(queue'), NEW s \in DOMAIN wdOf',
               queue'[i].kind = "rmdir", queue'[i].wd = wdOf'[s]
        PROVE  s \in harmed'
    <3>1. PICK r \in DOMAIN wdOf : s = M(r) /\ wdOf'[s] = wdOf[r]
      BY <1>6
    <3>2. r \in harmed
      BY <1>7, <2>3, <3>1 DEF WatchInv, RemovalInv
    <3> QED  BY <1>1, <3>1, <3>2
  <2>4. \A s : Under(s, moved)' <=> Under(s, moved')
    BY DEF Under
  <2> QED  BY <1>8, <2>1, <2>2, <2>3, <2>4 DEF RemovalInv
<1>12. /\ \A s : Announced(s) => Announced(s)'
       /\ \A f : Reportable(f) => Reportable(f)'
  BY <1>1, <1>7, EventsLast
<1>13. ASSUME NEW r \in dirs, ~Excused(M(r))'
       PROVE  /\ M(r) = r /\ ~Excused(r)
              /\ r \in DOMAIN wdOf => r \in DOMAIN wdOf' /\ wdOf'[r] = wdOf[r]
  <2>1. ~Under(M(r), moved') /\ ~Under(M(r), Ignored) /\ M(r) \notin harmed'
    BY <1>13 DEF Excused, Under
  <2> QED  BY <1>5, <1>6, <2>1 DEF Excused
<1>14. ReachInv'
  <2> SUFFICES ASSUME NEW r \in dirs, ~Excused(M(r))'
               PROVE  Watched(M(r))' \/ Pending(M(r))'
    BY <1>1 DEF ReachInv
  <2>1. M(r) = r /\ (Watched(r) \/ Pending(r))
    BY <1>13 DEF WatchInv, ReachInv
  <2>2. Watched(r)' \/ Pending(r)'
    BY <1>8, <1>12, <1>13, <2>1, ReachKept
  <2> QED  BY <2>1, <2>2 DEF Watched, Pending, LeadsTo
<1>15. AwaitInv'
  <2> SUFFICES ASSUME NEW d \in awaited', ~Excused(d)'
               PROVE  stack["user"] = <<>> /\ Reportable(d)'
    BY <1>8 DEF AwaitInv
  <2>1. d \in awaited /\ d \in dirs /\ M(d) = d
    BY <1>1, <1>2, <1>3
  <2>2. ~Excused(M(d))'
    BY <2>1 DEF Excused, Under
  <2>3. ~Excused(d)
    BY <1>13, <2>1, <2>2
  <2> QED  BY <1>12, <2>1, <2>3 DEF WatchInv, AwaitInv
<1> QED  BY <1>4, <1>8, <1>9, <1>10, <1>11, <1>14, <1>15 DEF WatchInv
-----------------------------------------------------------------------------
(* AddWatch.                                                               *)

\* A step of AddWatch that takes no watch or name away, and leaves someone to
\* go on to every directory the call before it led to.
LEMMA CallKeepsReach ==
  ASSUME WatchInv, NEW a \in Actors, stack[a] # <<>>,
         UNCHANGED <<fileSystem, queue, removing, awaited>>,
         Rest(a) \subseteq AllCalls', \A b \in Actors \ {a} : stack'[b] = stack[b],
         \A d \in DOMAIN wdOf : d \in DOMAIN wdOf' /\ wdOf'[d] = wdOf[d],
         \A w \in DOMAIN watchSet : w \in DOMAIN watchSet' /\ watchSet'[w] = watchSet[w],
         Numbers \subseteq Numbers',
         \A w \in Numbers : NamesOf(w) # {} => NamesOf(w)' # {},
         \A p \in dirs : LeadsTo(Top(a), p) =>
           Excused(p) \/ Watched(p)' \/ \E c \in AllCalls' : LeadsTo(c, p)'
  PROVE  TreeInv' /\ ReachInv' /\ AwaitInv'
<1>1. UNCHANGED <<dirs, changes, moved, harmed, queue, removing, awaited>>
  BY DEF fileSystem
<1>2. TreeInv'
  BY <1>1 DEF WatchInv, TreeInv
<1>3. \A i : Lasting(i)' <=> Lasting(i)
  BY <1>1 DEF Lasting
<1>4. \A d : Excused(d)' <=> Excused(d)
  BY <1>1 DEF Excused, Under
<1>5. ReachInv'
  <2> SUFFICES ASSUME NEW p \in dirs
               PROVE  Excused(p) \/ Watched(p)' \/ Pending(p)'
    BY <1>1, <1>4 DEF ReachInv
  <2>1. Excused(p) \/ Watched(p) \/ Pending(p)
    BY DEF WatchInv, ReachInv
  <2>2. CASE Watched(p)
    BY <2>2 DEF Watched
  <2>3. CASE \E r \in Paths : IsPrefix(r, p) /\ Announced(r)
    <3>1. PICK r \in Paths : IsPrefix(r, p) /\ Announced(r)
      BY <2>3
    <3>2. Announced(r)'
      BY <1>1, <1>3, <3>1 DEF Announced
    <3> QED  BY <3>1, <3>2 DEF Pending
  <2>4. CASE \E c \in AllCalls : LeadsTo(c, p)
    <3>1. PICK c \in AllCalls : LeadsTo(c, p)
      BY <2>4
    <3>2. CASE c = Top(a)
      BY <3>1, <3>2 DEF Pending
    <3>3. CASE c \in Rest(a)
      <4>1. LeadsTo(c, p)'
        BY <3>1, LeadsToKept
      <4> QED  BY <3>3, <4>1 DEF Pending
    <3> QED  BY <3>2, <3>3, TopAndRest DEF WatchInv
  <2> QED  BY <2>1, <2>2, <2>3, <2>4 DEF Pending
<1>6. AwaitInv'
  <2> SUFFICES ASSUME NEW d \in awaited, ~Excused(d)
               PROVE  stack'["user"] = <<>> /\ Reportable(d)'
    BY <1>1, <1>4 DEF AwaitInv
  <2>1. stack["user"] = <<>> /\ Reportable(d)
    BY DEF WatchInv, AwaitInv
  <2>2. stack'["user"] = <<>>
    BY <2>1 DEF Actors
  <2> QED  BY <1>1, <1>3, <2>1, <2>2 DEF Reportable
<1> QED  BY <1>2, <1>5, <1>6

\* A step of AddWatch that gives no number a name it did not have.
LEMMA CallKeepsNames ==
  ASSUME WatchInv, UNCHANGED <<fileSystem, wdOf, nextWd, queue, removing>>,
         \A w \in Numbers : NamesOf(w)' \subseteq NamesOf(w),
         \A w \in Numbers : NamesOf(w) # {} => NamesOf(w)' # {}
  PROVE  NamesInv' /\ RemovalInv'
<1>1. /\ UNCHANGED <<dirs, moved, harmed, wdOf, nextWd, queue, removing>>
      /\ Numbers' = Numbers
  BY DEF fileSystem, Numbers
<1>2. NamesInv'
  BY <1>1 DEF WatchInv, NamesInv, Under
<1>3. RemovalInv'
  BY <1>1 DEF WatchInv, RemovalInv, Under
<1> QED  BY <1>2, <1>3

\* The names numbers have when the top call of a gave way to others.
LEMMA CallNames ==
  ASSUME NumbersInv, NEW a \in Actors, stack[a] # <<>>, UNCHANGED watchSet,
         Rest(a) \subseteq AllCalls',
         \A c \in AllCalls' : c \in Rest(a) \/ c.at # "name",
         Top(a).at # "name"
  PROVE  \A w : NamesOf(w)' = NamesOf(w)
<1>1. \A c : c.at = "name" => (c \in AllCalls' <=> c \in AllCalls)
  BY TopAndRest
<1>2. Naming' = Naming
  BY <1>1 DEF Naming
<1> QED  BY <1>2 DEF NamesOf

\* The typing of the numbers when calls go on and nothing is watched anew.
LEMMA CallKeepsNumbers ==
  ASSUME WatchInv, NEW a \in Actors, stack[a] # <<>>,
         UNCHANGED <<fileSystem, wdOf, nextWd, queue, removing>>,
         watchSet' \in [DOMAIN watchSet' -> Paths], DOMAIN watchSet' \subseteq 1 .. nextWd - 1,
         stack' \in [Actors -> Seq(AddWatchCalls)],
         \A c \in AllCalls' : c \in Rest(a) \/ c.at # "name"
  PROVE  NumbersInv'
<1>1. UNCHANGED <<dirs, wdOf, nextWd, queue, removing>>
  BY DEF fileSystem
<1>2. Naming' \subseteq Naming
  BY TopAndRest DEF Naming, WatchInv
<1> QED  BY <1>1, <1>2 DEF WatchInv, NumbersInv

\* A step of AddWatch that leaves watchThr alone.
LEMMA CallKeepsThread ==
  ASSUME ThreadInv, NEW a \in Actors, stack[a] # <<>>, UNCHANGED starting,
         \A b \in Actors \ {a} : stack'[b] = stack[b],
         Top(a).at \notin {"start", "assign"},
         Top(a).at \in {"add", "name"} /\ Len(stack[a]) = 1 =>
           \/ stack'[a] = <<>>
           \/ /\ Len(stack'[a]) = 1 /\ Head(stack'[a]).path = Top(a).path
              /\ Head(stack'[a]).at \in {"add", "name", "start"}
  PROVE  ThreadInv'
<1>1. UNCHANGED <<started, joinable, ended>>
  BY DEF starting
<1>2. a = "user" \/ a = "thread"
  BY DEF Actors
<1>3. CASE ~started
  <2>1. /\ a = "user" /\ ~joinable /\ ~ended /\ stack["thread"] = <<>>
        /\ Len(stack["user"]) = 1 /\ Top("user").path = Root
        /\ Top("user").at \in {"add", "name", "start"}
    BY <1>2, <1>3 DEF ThreadInv
  <2>2. stack'["thread"] = <<>>
    BY <2>1 DEF Actors
  <2>3. stack'["user"] # <<>> =>
          /\ Len(stack'["user"]) = 1 /\ Head(stack'["user"]).path = Root
          /\ Head(stack'["user"]).at \in {"add", "name", "start"}
    BY <2>1
  <2> QED  BY <1>1, <1>3, <2>1, <2>2, <2>3 DEF ThreadInv, Top
<1>4. CASE started /\ ~joinable
  <2>1. a = "thread" /\ Stands("user", "assign") /\ Top("user").path = Root
    BY <1>2, <1>4 DEF ThreadInv, Stands
  <2>2. stack'["user"] = stack["user"]
    BY <2>1 DEF Actors
  <2> QED  BY <1>1, <1>4, <2>1, <2>2 DEF ThreadInv, Stands, Top
<1>5. CASE started /\ joinable
  BY <1>1, <1>5 DEF ThreadInv
<1> QED  BY <1>3, <1>4, <1>5 DEF ThreadInv

LEMMA InotifyAddWatchStep ==
  ASSUME WatchInv, NEW a \in Actors, InotifyAddWatch(a)
  PROVE  WatchInv'
<1> DEFINE p == Top(a).path
<1>1. /\ stack[a] # <<>> /\ Top(a).at = "add" /\ ~ended
      /\ UNCHANGED <<fileSystem, queue, watchSet, starting, removing, awaited>>
  BY DEF InotifyAddWatch, At, Stands
<1>2. /\ UNCHANGED <<dirs, moved, harmed, started, joinable, ended>>
      /\ NumbersInv /\ ThreadInv /\ NamesInv /\ RemovalInv
  BY <1>1 DEF fileSystem, starting, WatchInv
<1>3. /\ AllCalls = {Top(a)} \cup Rest(a) /\ Top(a) \in AddWatchCalls
      /\ p \in Seq(Names) /\ Len(stack[a]) \in Nat \ {0}
  BY <1>1, <1>2, TopAndRest DEF AddWatchCalls
<1>4. \A r \in dirs : \A q \in Seq(Names) : IsPrefix(q, r) => q \in dirs
  BY TreeFacts DEF WatchInv
<1>5. CASE p \in Ignored \/ p \notin dirs
  <2>1. Returns(a) /\ UNCHANGED <<wdOf, nextWd>>
    BY <1>5 DEF InotifyAddWatch
  <2>2. /\ stack' \in [Actors -> Seq(AddWatchCalls)] /\ AllCalls' = Rest(a)
        /\ Len(stack'[a]) = Len(stack[a]) - 1
        /\ \A b \in Actors \ {a} : stack'[b] = stack[b]
    BY <1>1, <1>2, <2>1, ReturnsStep
  <2>3. \A w : NamesOf(w)' = NamesOf(w)
    BY <1>1, <1>2, <2>2, CallNames
  <2>4. NumbersInv'
    <3>1. watchSet' \in [DOMAIN watchSet' -> Paths] /\ DOMAIN watchSet' \subseteq 1 .. nextWd - 1
      BY <1>1, <1>2 DEF NumbersInv
    <3> QED  BY <1>1, <2>1, <2>2, <3>1, CallKeepsNumbers
  <2>5. NamesInv' /\ RemovalInv'
    BY <1>1, <2>1, <2>3, CallKeepsNames
  <2>6. ThreadInv'
    <3>1. Len(stack[a]) = 1 => stack'[a] = <<>>
      <4>1. stack'[a] \in Seq(AddWatchCalls)
        BY <2>2
      <4> QED  BY <2>2, <4>1, EmptySeq
    <3> QED  BY <1>1, <1>2, <2>2, <3>1, CallKeepsThread
  <2>7. \A r \in dirs : LeadsTo(Top(a), r) => Excused(r)
    BY <1>3, <1>4, <1>5 DEF LeadsTo, Excused, Under
  <2>8. TreeInv' /\ ReachInv' /\ AwaitInv'
    <3>1. Numbers \subseteq Numbers'
      BY <2>1 DEF Numbers
    <3> QED  BY <1>1, <2>1, <2>2, <2>3, <2>7, <3>1, CallKeepsReach
  <2> QED  BY <2>4, <2>5, <2>6, <2>8 DEF WatchInv
<1>6. CASE p \notin Ignored /\ p \in dirs
  <2>1. /\ wdOf' = Emplaced(wdOf, p, nextWd)
        /\ nextWd' = IF p \in DOMAIN wdOf THEN nextWd ELSE nextWd + 1
        /\ Goes(a, [Top(a) EXCEPT !.at = "name", !.wd = wdOf'[p]])
    BY <1>6 DEF InotifyAddWatch
  <2>2. /\ nextWd \in Nat \ {0} /\ nextWd' \in Nat \ {0} /\ nextWd <= nextWd'
        /\ wdOf \in [DOMAIN wdOf -> 1 .. nextWd - 1] /\ DOMAIN wdOf \subseteq dirs
        /\ removing \in 0 .. nextWd - 1
    BY <1>2, <2>1 DEF NumbersInv
  <2>3. /\ DOMAIN wdOf' = DOMAIN wdOf \cup {p}
        /\ \A d \in DOMAIN wdOf : wdOf'[d] = wdOf[d]
        /\ p \notin DOMAIN wdOf => wdOf'[p] = nextWd /\ nextWd' = nextWd + 1
        /\ wdOf' \in [DOMAIN wdOf' -> 1 .. nextWd' - 1]
    BY <2>1, <2>2 DEF Emplaced
  <2>4. PICK n \in Nat : n = wdOf'[p]
    BY <2>2, <2>3
  <2>5. PICK c \in AddWatchCalls : Goes(a, c) /\ c.at = "name" /\ c.path = p /\ c.wd = n
    <3>1. PICK c : c = [Top(a) EXCEPT !.at = "name", !.wd = n]
      OBVIOUS
    <3>2. c \in AddWatchCalls /\ c.at = "name" /\ c.path = p /\ c.wd = n
      BY <1>3, <2>4, <3>1 DEF AddWatchCalls
    <3> QED  BY <2>1, <2>4, <3>1, <3>2
  <2>6. /\ stack' \in [Actors -> Seq(AddWatchCalls)] /\ AllCalls' = {c} \cup Rest(a)
        /\ Len(stack'[a]) = Len(stack[a]) /\ stack'[a] # <<>> /\ Head(stack'[a]) = c
        /\ \A b \in Actors \ {a} : stack'[b] = stack[b]
    BY <1>1, <1>2, <2>1, <2>5, GoesStep
  <2>7. \A w : \A x : x \in NamesOf(w)' <=> x \in NamesOf(w) \/ (w = n /\ x = p)
    <3> SUFFICES ASSUME NEW w, NEW x
                 PROVE  x \in NamesOf(w)' <=> x \in NamesOf(w) \/ (w = n /\ x = p)
      OBVIOUS
    <3>1. (\E b \in AllCalls' : b.at = "name" /\ b.wd = w /\ b.path = x)
            <=> (\E b \in AllCalls : b.at = "name" /\ b.wd = w /\ b.path = x) \/ (w = n /\ x = p)
      BY <1>1, <1>3, <2>5, <2>6
    <3>2. x \in NamesOf(w) <=>
            \/ w \in DOMAIN watchSet /\ x = watchSet[w]
            \/ \E b \in AllCalls : b.at = "name" /\ b.wd = w /\ b.path = x
      BY NamesMembers
    <3>3. x \in NamesOf(w)' <=>
            \/ w \in DOMAIN watchSet' /\ x = watchSet'[w]
            \/ \E b \in AllCalls' : b.at = "name" /\ b.wd = w /\ b.path = x
      BY NamesMembersNext
    <3> QED  BY <1>1, <3>1, <3>2, <3>3
  <2>8. /\ Numbers \subseteq Numbers' /\ n \in Numbers'
        /\ Numbers' = Numbers \cup {n}
        /\ p \notin DOMAIN wdOf => n = nextWd /\ n \notin Numbers
        /\ p \in DOMAIN wdOf => n = wdOf[p] /\ n \in Numbers
    <3>1. CASE p \in DOMAIN wdOf
      <4>1. n \in 1 .. nextWd - 1 /\ nextWd' = nextWd /\ n = wdOf[p]
        BY <2>1, <2>2, <2>3, <2>4, <3>1
      <4> QED  BY <3>1, <4>1 DEF Numbers
    <3>2. CASE p \notin DOMAIN wdOf
      <4>1. n = nextWd /\ nextWd' = nextWd + 1
        BY <2>3, <2>4, <3>2
      <4>2. 1 .. nextWd' - 1 = (1 .. nextWd - 1) \cup {n} /\ n \notin 1 .. nextWd - 1
        BY <2>2, <4>1
      <4> QED  BY <3>2, <4>1, <4>2 DEF Numbers
    <3> QED  BY <3>1, <3>2
  <2>9. NumbersInv'
    <3>1. \A d, e \in DOMAIN wdOf' : wdOf'[d] = wdOf'[e] => d = e
      <4>1. \A d, e \in DOMAIN wdOf : wdOf[d] = wdOf[e] => d = e
        BY <1>2 DEF NumbersInv
      <4>2. \A d \in DOMAIN wdOf : wdOf[d] # nextWd
        BY <2>2
      <4> QED  BY <2>3, <4>1, <4>2
    <3>2. DOMAIN wdOf' \subseteq dirs'
      BY <1>2, <1>6, <2>2, <2>3
    <3>3. \A b \in Naming' : b.wd \in 1 .. nextWd' - 1 /\ b.path \in Paths
      <4>1. p \in Paths
        BY <1>6 DEF WatchInv, TreeInv
      <4>2. \A b \in Naming' : b \in Naming \/ b = c
        BY <1>3, <2>6 DEF Naming
      <4>3. \A b \in Naming : b.wd \in 1 .. nextWd - 1 /\ b.path \in Paths
        BY <1>2 DEF NumbersInv
      <4> QED  BY <2>2, <2>5, <2>8, <4>1, <4>2, <4>3 DEF Numbers
    <3>4. /\ queue' = queue /\ watchSet' = watchSet /\ removing' = removing
          /\ \A i \in 1 .. Len(queue) : queue[i].wd \in 1 .. nextWd' - 1
          /\ DOMAIN watchSet \subseteq 1 .. nextWd' - 1 /\ removing \in 0 .. nextWd' - 1
      BY <1>1, <1>2, <2>2 DEF NumbersInv
    <3> QED  BY <1>2, <2>2, <2>3, <2>6, <3>1, <3>2, <3>3, <3>4 DEF NumbersInv
  <2>10. p \notin DOMAIN wdOf => /\ NamesOf(nextWd) = {} /\ nextWd # removing
                                 /\ \A i \in 1 .. Len(queue) : queue[i].wd # nextWd
    <3>1. \A x : x \notin NamesOf(nextWd)
      BY <1>2, <2>2, NamesMembers DEF NumbersInv, Naming
    <3> QED  BY <1>2, <2>2, <3>1 DEF NumbersInv
  <2>11. NamesInv'
    <3>1. ASSUME NEW w \in Numbers', NEW x \in NamesOf(w)', NEW d \in DOMAIN wdOf', wdOf'[d] = w
          PROVE  Under(d, moved) \/ x = d
      <4>1. CASE w = n
        <5>1. d = p
          BY <2>3, <2>4, <2>9, <3>1, <4>1 DEF NumbersInv
        <5>2. CASE p \in DOMAIN wdOf
          BY <1>2, <2>7, <2>8, <3>1, <4>1, <5>1, <5>2 DEF NamesInv
        <5>3. CASE p \notin DOMAIN wdOf
          BY <2>7, <2>8, <2>10, <3>1, <4>1, <5>1, <5>3
        <5> QED  BY <5>2, <5>3
      <4>2. CASE w # n
        <5>1. w \in Numbers /\ x \in NamesOf(w) /\ d \in DOMAIN wdOf /\ wdOf[d] = w
          BY <2>3, <2>4, <2>7, <2>8, <3>1, <4>2
        <5> QED  BY <1>2, <5>1 DEF NamesInv
      <4> QED  BY <4>1, <4>2
    <3>2. ASSUME NEW w \in Numbers', NEW x \in NamesOf(w)', NEW i \in 1 .. Len(queue), queue[i].wd = w
          PROVE  queue[i].stale \/ x = queue[i].dir
      <4>1. p \in DOMAIN wdOf \/ w # n
        BY <2>8, <2>10, <3>2
      <4>2. w \in Numbers
        BY <2>8, <4>1
      <4>3. CASE x \in NamesOf(w)
        BY <1>2, <3>2, <4>2, <4>3 DEF NamesInv
      <4>4. CASE w = n /\ x = p
        BY <1>2, <2>8, <3>2, <4>1, <4>4 DEF NamesInv
      <4> QED  BY <2>7, <3>2, <4>3, <4>4
    <3>3. ASSUME NEW i \in 1 .. Len(queue), NEW d \in DOMAIN wdOf', queue[i].wd = wdOf'[d]
          PROVE  queue[i].stale \/ queue[i].dir = d
      BY <1>2, <2>3, <2>10, <3>3 DEF NamesInv
    <3> QED  BY <1>1, <1>2, <3>1, <3>2, <3>3 DEF NamesInv, Under
  <2>12. RemovalInv'
    <3>1. ASSUME NEW d \in DOMAIN wdOf'
          PROVE  wdOf'[d] # removing /\ (d \in Ignored => Under(d, moved))
      BY <1>2, <1>6, <2>3, <2>10 DEF RemovalInv
    <3>2. ASSUME NEW w \in Numbers', NEW d \in DOMAIN wdOf', wdOf'[d] = w
          PROVE  NamesOf(w)' # {}
      <4>1. CASE w = n
        BY <2>7, <4>1
      <4>2. CASE w # n
        <5>1. w \in Numbers /\ d \in DOMAIN wdOf /\ wdOf[d] = w
          BY <2>3, <2>4, <2>8, <3>2, <4>2
        <5>2. NamesOf(w) # {}
          BY <1>2, <5>1 DEF RemovalInv
        <5> QED  BY <2>7, <5>2
      <4> QED  BY <4>1, <4>2
    <3>3. ASSUME NEW i \in 1 .. Len(queue), NEW d \in DOMAIN wdOf',
                 queue[i].kind = "rmdir", queue[i].wd = wdOf'[d]
          PROVE  d \in harmed
      BY <1>2, <2>3, <2>10, <3>3 DEF RemovalInv
    <3> QED  BY <1>1, <1>2, <3>1, <3>2, <3>3 DEF RemovalInv, Under
  <2>13. ThreadInv'
    BY <1>1, <1>2, <2>5, <2>6, CallKeepsThread
  <2>14. TreeInv' /\ ReachInv' /\ AwaitInv'
    <3>1. ASSUME NEW r \in dirs, LeadsTo(Top(a), r)
          PROVE  LeadsTo(c, r)'
      BY <2>3, <2>4, <2>5, <3>1 DEF LeadsTo
    <3>2. \A w : NamesOf(w) # {} => NamesOf(w)' # {}
      BY <2>7
    <3> QED  BY <1>1, <2>3, <2>6, <2>8, <3>1, <3>2, CallKeepsReach
  <2> QED  BY <2>9, <2>11, <2>12, <2>13, <2>14 DEF WatchInv
<1> QED  BY <1>5, <1>6

\* A step of AddWatch that changes no more than the calls and watchThr.
LEMMA CallGoesOn ==
  ASSUME WatchInv, NEW a \in Actors, stack[a] # <<>>, Top(a).at # "name",
         UNCHANGED <<fileSystem, wdOf, nextWd, queue, watchSet, removing, awaited>>,
         stack' \in [Actors -> Seq(AddWatchCalls)],
         \A b \in Actors \ {a} : stack'[b] = stack[b],
         Rest(a) \subseteq AllCalls', \A c \in AllCalls' : c \in Rest(a) \/ c.at # "name",
         \A p \in dirs : LeadsTo(Top(a), p) => \E c \in AllCalls' : LeadsTo(c, p)'
  PROVE  TreeInv' /\ NumbersInv' /\ NamesInv' /\ RemovalInv' /\ ReachInv' /\ AwaitInv'
<1>1. NumbersInv /\ Numbers' = Numbers
  BY DEF WatchInv, Numbers
<1>2. \A w : NamesOf(w)' = NamesOf(w)
  BY <1>1, CallNames
<1>3. NumbersInv'
  <2>1. watchSet' \in [DOMAIN watchSet' -> Paths] /\ DOMAIN watchSet' \subseteq 1 .. nextWd - 1
    BY <1>1 DEF NumbersInv
  <2> QED  BY <2>1, CallKeepsNumbers
<1>4. NamesInv' /\ RemovalInv'
  BY <1>2, CallKeepsNames
<1>5. TreeInv' /\ ReachInv' /\ AwaitInv'
  BY <1>1, <1>2, CallKeepsReach
<1> QED  BY <1>3, <1>4, <1>5

LEMMA EmplaceStep ==
  ASSUME WatchInv, NEW a \in Actors, Emplace(a)
  PROVE  WatchInv'
<1> DEFINE n == Top(a).wd
           p == Top(a).path
<1>1. /\ stack[a] # <<>> /\ Top(a).at = "name" /\ ~ended
      /\ watchSet' = Emplaced(watchSet, n, p)
      /\ Goes(a, [Top(a) EXCEPT !.at = "start"])
      /\ UNCHANGED <<fileSystem, wdOf, nextWd, queue, starting, removing, awaited>>
  BY DEF Emplace, At, Stands
<1>2. NumbersInv /\ ThreadInv /\ NamesInv /\ Numbers' = Numbers
  BY <1>1 DEF WatchInv, Numbers
<1>3. /\ AllCalls = {Top(a)} \cup Rest(a) /\ Top(a) \in AddWatchCalls
      /\ Len(stack[a]) \in Nat \ {0}
  BY <1>1, <1>2, TopAndRest
<1>4. PICK c \in AddWatchCalls : /\ Goes(a, c) /\ c.at = "start" /\ c.path = p /\ c.wd = n
  <2>1. PICK c : c = [Top(a) EXCEPT !.at = "start"]
    OBVIOUS
  <2>2. c \in AddWatchCalls /\ c.at = "start" /\ c.path = p /\ c.wd = n
    BY <1>3, <2>1 DEF AddWatchCalls
  <2> QED  BY <1>1, <2>1, <2>2
<1>5. /\ stack' \in [Actors -> Seq(AddWatchCalls)] /\ AllCalls' = {c} \cup Rest(a)
      /\ Len(stack'[a]) = Len(stack[a]) /\ stack'[a] # <<>> /\ Head(stack'[a]) = c
      /\ \A b \in Actors \ {a} : stack'[b] = stack[b]
  BY <1>1, <1>2, <1>4, GoesStep
<1>6. n \in 1 .. nextWd - 1 /\ n \in Numbers /\ p \in Paths /\ p \in NamesOf(n)
  <2>1. Top(a) \in Naming
    BY <1>1, <1>3 DEF Naming
  <2>2. n \in 1 .. nextWd - 1 /\ p \in Paths
    BY <1>2, <2>1 DEF NumbersInv
  <2>3. p \in NamesOf(n)
    BY <1>1, <1>3, NamesMembers
  <2> QED  BY <2>2, <2>3 DEF Numbers
<1>7. /\ DOMAIN watchSet' = DOMAIN watchSet \cup {n}
      /\ \A w \in DOMAIN watchSet : watchSet'[w] = watchSet[w]
      /\ watchSet'[n] = IF n \in DOMAIN watchSet THEN watchSet[n] ELSE p
      /\ watchSet' \in [DOMAIN watchSet' -> Paths]
  <2>1. watchSet \in [DOMAIN watchSet -> Paths]
    BY <1>2 DEF NumbersInv
  <2> QED  BY <1>1, <1>6, <2>1 DEF Emplaced
<1>8. ASSUME NEW w, NEW x \in NamesOf(w)'
      PROVE  x \in NamesOf(w)
  <2>1. CASE w \in DOMAIN watchSet' /\ x = watchSet'[w]
    <3>1. \/ w \in DOMAIN watchSet /\ x = watchSet[w]
          \/ w = n /\ x = p
      BY <1>7, <2>1
    <3> QED  BY <1>6, <3>1, NamesMembers
  <2>2. CASE \E b \in AllCalls' : b.at = "name" /\ b.wd = w /\ b.path = x
    BY <1>3, <1>4, <1>5, <2>2, NamesMembers
  <2> QED  BY <2>1, <2>2, NamesMembersNext
<1>9. ASSUME NEW w, NamesOf(w) # {}
      PROVE  NamesOf(w)' # {}
  <2>1. PICK x : x \in NamesOf(w)
    BY <1>9
  <2>2. CASE w \in DOMAIN watchSet'
    BY <2>2, NamesMembersNext
  <2>3. CASE w \notin DOMAIN watchSet'
    <3>1. PICK b \in AllCalls : b.at = "name" /\ b.wd = w /\ b.path = x
      BY <1>7, <2>1, <2>3, NamesMembers
    <3>2. b \in AllCalls'
      BY <1>3, <1>5, <1>7, <2>3, <3>1
    <3>3. x \in NamesOf(w)'
      <4>1. \E d \in AllCalls' : d.at = "name" /\ d.wd = w /\ d.path = x
        BY <3>1, <3>2
      <4> QED  BY <4>1, NamesMembersNext
    <3> QED  BY <3>3
  <2> QED  BY <2>2, <2>3
<1>10. NumbersInv'
  <2>1. DOMAIN watchSet' \subseteq 1 .. nextWd - 1
    BY <1>2, <1>6, <1>7 DEF NumbersInv
  <2>2. \A b \in AllCalls' : b \in Rest(a) \/ b.at # "name"
    BY <1>4, <1>5
  <2> QED  BY <1>1, <1>5, <1>7, <2>1, <2>2, CallKeepsNumbers
<1>11. NamesInv' /\ RemovalInv'
  BY <1>1, <1>8, <1>9, CallKeepsNames
<1>12. ThreadInv'
  BY <1>1, <1>2, <1>4, <1>5, CallKeepsThread
<1>13. ASSUME NEW r \in dirs, LeadsTo(Top(a), r)
       PROVE  Excused(r) \/ Watched(r)' \/ LeadsTo(c, r)'
  <2>1. CASE p = r
    <3>1. r \in DOMAIN wdOf /\ wdOf[r] = n
      BY <1>1, <1>13, <2>1 DEF LeadsTo
    <3>2. watchSet'[n] = p \/ Under(r, moved)
      <4>1. CASE n \in DOMAIN watchSet
        <5>1. watchSet[n] \in NamesOf(n)
          BY <4>1, NamesMembers
        <5>2. watchSet[n] = r \/ Under(r, moved)
          BY <1>2, <1>6, <3>1, <5>1 DEF NamesInv
        <5> QED  BY <1>7, <2>1, <4>1, <5>2
      <4>2. CASE n \notin DOMAIN watchSet
        BY <1>7, <4>2
      <4> QED  BY <4>1, <4>2
    <3> QED  BY <1>1, <1>7, <2>1, <3>1, <3>2 DEF Watched, Excused
  <2>2. CASE p # r
    BY <1>1, <1>4, <1>13, <2>2 DEF LeadsTo
  <2> QED  BY <2>1, <2>2
<1>14. TreeInv' /\ ReachInv' /\ AwaitInv'
  BY <1>1, <1>2, <1>5, <1>7, <1>9, <1>13, CallKeepsReach
<1> QED  BY <1>10, <1>11, <1>12, <1>14 DEF WatchInv

LEMMA StartThreadStep ==
  ASSUME WatchInv, NEW a \in Actors, StartThread(a)
  PROVE  WatchInv'
<1>1. /\ stack[a] # <<>> /\ Top(a).at = "start" /\ ~ended /\ UNCHANGED joinable
      /\ UNCHANGED <<fileSystem, wdOf, nextWd, queue, watchSet, removing, awaited>>
  BY DEF StartThread, At, Stands
<1>2. NumbersInv /\ ThreadInv /\ (a = "user" \/ a = "thread")
  BY DEF WatchInv, Actors
<1>3. /\ AllCalls = {Top(a)} \cup Rest(a) /\ Top(a) \in AddWatchCalls
      /\ Len(stack[a]) \in Nat \ {0}
  BY <1>1, <1>2, TopAndRest
<1>4. ASSUME NEW s \in {"open", "assign"}, Goes(a, [Top(a) EXCEPT !.at = s])
      PROVE  /\ TreeInv' /\ NumbersInv' /\ NamesInv' /\ RemovalInv' /\ ReachInv' /\ AwaitInv'
             /\ stack'[a] # <<>> /\ Head(stack'[a]).at = s
             /\ Head(stack'[a]).path = Top(a).path
             /\ \A b \in Actors \ {a} : stack'[b] = stack[b]
  <2>1. PICK c \in AddWatchCalls : Goes(a, c) /\ c.at = s /\ c.path = Top(a).path
    <3>1. PICK c : c = [Top(a) EXCEPT !.at = s]
      OBVIOUS
    <3>2. c \in AddWatchCalls /\ c.at = s /\ c.path = Top(a).path
      BY <1>3, <3>1 DEF AddWatchCalls
    <3> QED  BY <1>4, <3>1, <3>2
  <2>2. /\ stack' \in [Actors -> Seq(AddWatchCalls)] /\ AllCalls' = {c} \cup Rest(a)
        /\ stack'[a] # <<>> /\ Head(stack'[a]) = c
        /\ \A b \in Actors \ {a} : stack'[b] = stack[b]
    BY <1>1, <1>2, <2>1, GoesStep
  <2>3. \A r \in dirs : LeadsTo(Top(a), r) => LeadsTo(c, r)'
    BY <1>1, <2>1 DEF LeadsTo
  <2>4. TreeInv' /\ NumbersInv' /\ NamesInv' /\ RemovalInv' /\ ReachInv' /\ AwaitInv'
    BY <1>1, <2>1, <2>2, <2>3, CallGoesOn
  <2> QED  BY <2>1, <2>2, <2>4
<1>5. CASE joinable /\ Goes(a, [Top(a) EXCEPT !.at = "open"]) /\ UNCHANGED <<started, ended>>
  <2>1. ThreadInv'
    BY <1>1, <1>2, <1>5 DEF ThreadInv
  <2> QED  BY <1>4, <1>5, <2>1 DEF WatchInv
<1>6. CASE /\ ~joinable /\ ~started /\ started' = TRUE
           /\ Goes(a, [Top(a) EXCEPT !.at = "assign"]) /\ UNCHANGED ended
  <2>1. a = "user" /\ Top("user").path = Root
    BY <1>1, <1>2, <1>6 DEF ThreadInv
  <2>2. Stands("user", "assign")' /\ Top("user")'.path = Root
    BY <1>4, <1>6, <2>1 DEF Stands, Top
  <2>3. ThreadInv'
    BY <1>1, <1>2, <1>6, <2>2 DEF ThreadInv
  <2> QED  BY <1>4, <1>6, <2>3 DEF WatchInv
<1>7. CASE ~joinable /\ started /\ ended' = TRUE /\ UNCHANGED <<started, stack>>
  <2>1. AllCalls' = AllCalls /\ (\A w : NamesOf(w)' = NamesOf(w)) /\ Numbers' = Numbers
    BY <1>1, <1>7 DEF AllCalls, NamesOf, Naming, Numbers
  <2>2. ThreadInv'
    BY <1>1, <1>2, <1>7 DEF ThreadInv, Stands, Top
  <2>3. NumbersInv'
    <3>1. UNCHANGED dirs /\ Naming' = Naming
      BY <1>1, <2>1 DEF fileSystem, Naming
    <3> QED  BY <1>1, <1>2, <1>7, <3>1 DEF NumbersInv
  <2>4. NamesInv' /\ RemovalInv'
    BY <1>1, <2>1, CallKeepsNames
  <2>5. TreeInv' /\ ReachInv' /\ AwaitInv'
    <3>2. PICK c \in AllCalls : c = Top(a)
      BY <1>3
    <3>3. \A r \in dirs : LeadsTo(Top(a), r) => LeadsTo(c, r)'
      BY <1>1, <3>2 DEF LeadsTo
    <3> QED  BY <1>1, <1>3, <1>7, <2>1, <3>2, <3>3, CallKeepsReach
  <2> QED  BY <2>2, <2>3, <2>4, <2>5 DEF WatchInv
<1> QED  BY <1>5, <1>6, <1>7 DEF StartThread

LEMMA AssignStep ==
  ASSUME WatchInv, NEW a \in Actors, Assign(a)
  PROVE  WatchInv'
<1>1. /\ stack[a] # <<>> /\ Top(a).at = "assign" /\ ~ended /\ joinable' = TRUE
      /\ Goes(a, [Top(a) EXCEPT !.at = "open"])
      /\ UNCHANGED <<fileSystem, wdOf, nextWd, queue, watchSet, started, ended, removing, awaited>>
  BY DEF Assign, At, Stands
<1>2. NumbersInv /\ ThreadInv /\ (a = "user" \/ a = "thread")
  BY DEF WatchInv, Actors
<1>3. /\ AllCalls = {Top(a)} \cup Rest(a) /\ Top(a) \in AddWatchCalls
  BY <1>1, <1>2, TopAndRest
<1>4. PICK c \in AddWatchCalls : Goes(a, c) /\ c.at = "open" /\ c.path = Top(a).path
  <2>1. PICK c : c = [Top(a) EXCEPT !.at = "open"]
    OBVIOUS
  <2>2. c \in AddWatchCalls /\ c.at = "open" /\ c.path = Top(a).path
    BY <1>3, <2>1 DEF AddWatchCalls
  <2> QED  BY <1>1, <2>1, <2>2
<1>5. /\ stack' \in [Actors -> Seq(AddWatchCalls)] /\ AllCalls' = {c} \cup Rest(a)
      /\ \A b \in Actors \ {a} : stack'[b] = stack[b]
  BY <1>1, <1>2, <1>4, GoesStep
<1>6. \A r \in dirs : LeadsTo(Top(a), r) => LeadsTo(c, r)'
  BY <1>1, <1>4 DEF LeadsTo
<1>7. TreeInv' /\ NumbersInv' /\ NamesInv' /\ RemovalInv' /\ ReachInv' /\ AwaitInv'
  BY <1>1, <1>4, <1>5, <1>6, CallGoesOn
<1>8. started
  BY <1>1, <1>2 DEF ThreadInv
<1>9. ThreadInv'
  BY <1>1, <1>2, <1>8 DEF ThreadInv
<1> QED  BY <1>7, <1>9 DEF WatchInv

LEMMA OpenDirStep ==
  ASSUME WatchInv, NEW a \in Actors, OpenDir(a)
  PROVE  WatchInv'
<1> DEFINE p == Top(a).path
<1>1. /\ stack[a] # <<>> /\ Top(a).at = "open" /\ ~ended
      /\ UNCHANGED <<fileSystem, wdOf, nextWd, queue, watchSet, starting, removing, awaited>>
  BY DEF OpenDir, At, Stands
<1>2. NumbersInv /\ ThreadInv
  BY DEF WatchInv
<1>3. /\ AllCalls = {Top(a)} \cup Rest(a) /\ Top(a) \in AddWatchCalls /\ p \in Seq(Names)
  BY <1>1, <1>2, TopAndRest DEF AddWatchCalls
<1>4. /\ dirs \subseteq Seq(Names) /\ UNCHANGED dirs
      /\ \A q \in dirs \ {Root} : Last(q) \in Names
      /\ \A r \in dirs : \A q \in Seq(Names) : IsPrefix(q, r) => q \in dirs
  BY <1>1, TreeFacts DEF WatchInv, fileSystem
<1>5. CASE p \in dirs
  <2>1. Subdirectories(p) \subseteq Names
    BY <1>4 DEF Subdirectories
  <2>2. PICK c \in AddWatchCalls :
          Goes(a, c) /\ c.at = "list" /\ c.path = p /\ c.left = Subdirectories(p)
    <3>1. PICK c : c = [Top(a) EXCEPT !.at = "list", !.left = Subdirectories(p)]
      OBVIOUS
    <3>2. c \in AddWatchCalls /\ c.at = "list" /\ c.path = p /\ c.left = Subdirectories(p)
      BY <1>3, <2>1, <3>1 DEF AddWatchCalls
    <3>3. Goes(a, c)
      BY <1>5, <3>1 DEF OpenDir
    <3> QED  BY <3>2, <3>3
  <2>3. /\ stack' \in [Actors -> Seq(AddWatchCalls)] /\ AllCalls' = {c} \cup Rest(a)
        /\ \A b \in Actors \ {a} : stack'[b] = stack[b]
    BY <1>1, <1>2, <2>2, GoesStep
  <2>4. ASSUME NEW r \in dirs, LeadsTo(Top(a), r)
        PROVE  LeadsTo(c, r)'
    <3>1. IsPrefix(p, r) /\ p # r /\ r \in Seq(Names)
      BY <1>1, <1>4, <2>4 DEF LeadsTo
    <3>2. PICK n : n = r[Len(p) + 1]
      OBVIOUS
    <3>3. PICK d : d = Append(p, n)
      OBVIOUS
    <3>4. d \in Seq(Names) /\ d # Root /\ IsPrefix(d, r) /\ Parent(d) = p /\ Last(d) = n
      BY <1>3, <3>1, <3>2, <3>3, ChildBelow
    <3>5. d \in dirs
      BY <1>4, <3>4
    <3>6. r[Len(p) + 1] \in Subdirectories(p)
      BY <3>2, <3>4, <3>5 DEF Subdirectories
    <3> QED  BY <2>2, <3>1, <3>6 DEF LeadsTo
  <2>5. TreeInv' /\ NumbersInv' /\ NamesInv' /\ RemovalInv' /\ ReachInv' /\ AwaitInv'
    BY <1>1, <2>2, <2>3, <2>4, CallGoesOn
  <2>6. ThreadInv'
    BY <1>1, <1>2, <2>3, CallKeepsThread
  <2> QED  BY <2>5, <2>6 DEF WatchInv
<1>6. CASE p \notin dirs
  <2>1. Returns(a)
    BY <1>6 DEF OpenDir
  <2>2. /\ stack' \in [Actors -> Seq(AddWatchCalls)] /\ AllCalls' = Rest(a)
        /\ \A b \in Actors \ {a} : stack'[b] = stack[b]
    BY <1>1, <1>2, <2>1, ReturnsStep
  <2>3. \A r \in dirs : ~LeadsTo(Top(a), r)
    BY <1>3, <1>4, <1>6 DEF LeadsTo
  <2>4. TreeInv' /\ NumbersInv' /\ NamesInv' /\ RemovalInv' /\ ReachInv' /\ AwaitInv'
    BY <1>1, <2>2, <2>3, CallGoesOn
  <2>5. ThreadInv'
    BY <1>1, <1>2, <2>2, CallKeepsThread
  <2> QED  BY <2>4, <2>5 DEF WatchInv
<1> QED  BY <1>5, <1>6

LEMMA ListDirStep ==
  ASSUME WatchInv, NEW a \in Actors, ListDir(a)
  PROVE  WatchInv'
<1> DEFINE p == Top(a).path
<1>1. /\ stack[a] # <<>> /\ Top(a).at = "list" /\ ~ended
      /\ UNCHANGED <<fileSystem, wdOf, nextWd, queue, watchSet, starting, removing, awaited>>
  BY DEF ListDir, At, Stands
<1>2. NumbersInv /\ ThreadInv
  BY DEF WatchInv
<1>3. /\ AllCalls = {Top(a)} \cup Rest(a) /\ Top(a) \in AddWatchCalls
      /\ p \in Seq(Names) /\ Top(a).left \subseteq Names
  BY <1>1, <1>2, TopAndRest DEF AddWatchCalls
<1>4. dirs \subseteq Seq(Names)
  BY TreeFacts DEF WatchInv
<1>5. CASE Top(a).left = {} /\ Returns(a)
  <2>1. /\ stack' \in [Actors -> Seq(AddWatchCalls)] /\ AllCalls' = Rest(a)
        /\ \A b \in Actors \ {a} : stack'[b] = stack[b]
    BY <1>1, <1>2, <1>5, ReturnsStep
  <2>2. \A r \in dirs : ~LeadsTo(Top(a), r)
    BY <1>1, <1>5 DEF LeadsTo
  <2>3. TreeInv' /\ NumbersInv' /\ NamesInv' /\ RemovalInv' /\ ReachInv' /\ AwaitInv'
    BY <1>1, <2>1, <2>2, CallGoesOn
  <2>4. ThreadInv'
    BY <1>1, <1>2, <2>1, CallKeepsThread
  <2> QED  BY <2>3, <2>4 DEF WatchInv
<1>6. ASSUME NEW n \in Top(a).left,
             stack' = [stack EXCEPT ![a] =
                         <<Call(p \o <<n>>), [Top(a) EXCEPT !.left = @ \ {n}]>> \o Tail(@)]
      PROVE  WatchInv'
  <2>1. PICK c \in AddWatchCalls : c = Call(p \o <<n>>) /\ c.at = "add" /\ c.path = p \o <<n>>
    <3>1. PICK s \in Seq(Names) : s = p \o <<n>>
      <4>1. n \in Names
        BY <1>3, <1>6
      <4>2. p \o <<n>> \in Seq(Names)
        BY <1>3, <4>1
      <4> QED  BY <4>2
    <3>2. Call(s) \in AddWatchCalls /\ Call(s).at = "add" /\ Call(s).path = s
      BY DEF Call, AddWatchCalls
    <3> QED  BY <3>1, <3>2
  <2>2. PICK e \in AddWatchCalls : /\ e = [Top(a) EXCEPT !.left = @ \ {n}]
                                   /\ e.at = "list" /\ e.path = p /\ e.left = Top(a).left \ {n}
    <3>1. PICK e : e = [Top(a) EXCEPT !.left = @ \ {n}]
      OBVIOUS
    <3>2. e \in AddWatchCalls /\ e.at = "list" /\ e.path = p /\ e.left = Top(a).left \ {n}
      BY <1>1, <1>3, <3>1 DEF AddWatchCalls
    <3> QED  BY <3>1, <3>2
  <2>3. PICK new \in Seq(AddWatchCalls) : /\ new = <<c, e>> /\ Len(new) = 2
                                          /\ {new[i] : i \in 1 .. Len(new)} = {c, e}
    <3>1. <<c, e>> \in Seq(AddWatchCalls) /\ Len(<<c, e>>) = 2 /\ <<c, e>>[1] = c /\ <<c, e>>[2] = e
      OBVIOUS
    <3>2. 1 .. 2 = {1, 2}
      OBVIOUS
    <3>3. {<<c, e>>[i] : i \in 1 .. Len(<<c, e>>)} = {c, e}
      BY <3>1, <3>2
    <3> QED  BY <3>1, <3>3
  <2>4. stack' = [stack EXCEPT ![a] = new \o Tail(@)]
    BY <1>6, <2>1, <2>2, <2>3
  <2>5. /\ stack' \in [Actors -> Seq(AddWatchCalls)] /\ AllCalls' = {c, e} \cup Rest(a)
        /\ \A b \in Actors \ {a} : stack'[b] = stack[b]
    <3>1. /\ stack' \in [Actors -> Seq(AddWatchCalls)]
          /\ AllCalls' = {new[i] : i \in 1 .. Len(new)} \cup Rest(a)
          /\ \A b \in Actors \ {a} : stack'[b] = stack[b]
      BY <1>1, <1>2, <2>4, StackStep
    <3> QED  BY <2>3, <3>1
  <2>6. ASSUME NEW r \in dirs, LeadsTo(Top(a), r)
        PROVE  LeadsTo(c, r)' \/ LeadsTo(e, r)'
    <3>1. IsPrefix(p, r) /\ p # r /\ r \in Seq(Names) /\ r[Len(p) + 1] \in Top(a).left
      BY <1>1, <1>4, <2>6 DEF LeadsTo
    <3>2. PICK m : m = r[Len(p) + 1]
      OBVIOUS
    <3>3. CASE m = n
      <4>1. IsPrefix(p \o <<n>>, r)
        <5>1. PICK d : d = Append(p, m)
          OBVIOUS
        <5>2. IsPrefix(d, r) /\ d = p \o <<m>>
          BY <1>3, <3>1, <3>2, <5>1, ChildBelow
        <5> QED  BY <3>3, <5>2
      <4> QED  BY <2>1, <4>1 DEF LeadsTo
    <3>4. CASE m # n
      BY <2>2, <3>1, <3>2, <3>4 DEF LeadsTo
    <3> QED  BY <3>3, <3>4
  <2>7. TreeInv' /\ NumbersInv' /\ NamesInv' /\ RemovalInv' /\ ReachInv' /\ AwaitInv'
    BY <1>1, <2>1, <2>2, <2>5, <2>6, CallGoesOn
  <2>8. ThreadInv'
    BY <1>1, <1>2, <2>5, CallKeepsThread
  <2> QED  BY <2>7, <2>8 DEF WatchInv
<1> QED  BY <1>5, <1>6 DEF ListDir
-----------------------------------------------------------------------------
(* DirWatch.                                                               *)

\* DirWatch takes an event: the directories it may give up for it lost a
\* subdirectory, and it calls AddWatch for the one the event announces.
LEMMA EventHandled ==
  ASSUME WatchInv, Ready, queue' = Tail(queue), UNCHANGED <<fileSystem, nextWd, watchSet, starting>>,
         \/ removing' = removing
         \/ Head(queue).kind = "rmdir" /\ removing' = Head(queue).wd,
         wdOf' \in [DOMAIN wdOf' -> 1 .. nextWd - 1],
         \A d \in DOMAIN wdOf' : d \in DOMAIN wdOf /\ wdOf'[d] = wdOf[d] /\ wdOf'[d] # removing',
         \A d \in DOMAIN wdOf : d \in harmed \/ d \in DOMAIN wdOf',
         stack' \in [Actors -> Seq(AddWatchCalls)], stack'["user"] = stack["user"],
         AllCalls \subseteq AllCalls', \A c \in AllCalls' : c \in AllCalls \/ c.at # "name",
         Head(queue).kind = "mkdir" /\ Head(queue).wd \in DOMAIN watchSet =>
           \E c \in AllCalls' : /\ c.at = "add"
                                /\ c.path = Append(watchSet[Head(queue).wd], Head(queue).name),
         awaited' \subseteq awaited,
         \A d \in awaited' : Excused(d) \/
           ~(/\ Head(queue).kind = "create" /\ Head(queue).dir = d
             /\ \E w \in Numbers : Head(queue).wd = w /\ NamesOf(w) # {})
  PROVE  WatchInv'
<1>1. /\ UNCHANGED <<dirs, changes, moved, harmed, nextWd, watchSet, started, joinable, ended>>
      /\ Numbers' = Numbers
  BY DEF fileSystem, starting, Numbers
<1>2. NumbersInv /\ ThreadInv /\ NamesInv /\ RemovalInv
  BY DEF WatchInv
<1>3. /\ started /\ ~ended /\ stack["thread"] = <<>> /\ removing = 0 /\ queue # <<>>
  BY DEF Ready
<1>4. /\ queue' \in Seq(Events) /\ Len(queue') <= QueueLimit
      /\ Len(queue) \in Nat \ {0} /\ Len(queue') = Len(queue) - 1
      /\ Head(queue) = queue[1] /\ Head(queue) \in Events
      /\ \A i \in 1 .. Len(queue') : queue'[i] = queue[i + 1] /\ i + 1 \in 1 .. Len(queue)
      /\ \A i \in 1 .. Len(queue) :
           i = 1 \/ (i - 1 \in 1 .. Len(queue') /\ queue'[i - 1] = queue[i])
  BY <1>2, <1>3, EventTaken
<1>5. Naming' = Naming
  BY DEF Naming
<1>6. \A w : NamesOf(w)' = NamesOf(w)
  BY <1>1, <1>5 DEF NamesOf
<1>7. TreeInv'
  BY <1>1 DEF WatchInv, TreeInv
<1>8. ThreadInv'
  BY <1>1, <1>2, <1>3 DEF ThreadInv, Stands, Top
<1>9. NumbersInv'
  <2>1. \A i \in 1 .. Len(queue') : /\ queue'[i].wd \in 1 .. nextWd - 1
                                    /\ queue'[i].kind = "mkdir" => queue'[i].name \in Names
    BY <1>2, <1>4 DEF NumbersInv
  <2>2. removing' \in 0 .. nextWd - 1
    <3>1. queue[1].wd \in 1 .. nextWd - 1
      BY <1>2, <1>4 DEF NumbersInv
    <3> QED  BY <1>2, <1>4, <3>1 DEF NumbersInv
  <2>3. /\ DOMAIN wdOf' \subseteq dirs' /\ \A p, q \in DOMAIN wdOf' : wdOf'[p] = wdOf'[q] => p = q
    BY <1>1, <1>2 DEF NumbersInv
  <2> QED  BY <1>1, <1>2, <1>4, <1>5, <2>1, <2>2, <2>3 DEF NumbersInv
<1>10. NamesInv'
  <2>1. ASSUME NEW i \in 1 .. Len(queue')
        PROVE  /\ \A w \in Numbers : \A x \in NamesOf(w) :
                    queue'[i].wd = w => queue'[i].stale \/ x = queue'[i].dir
               /\ \A d \in DOMAIN wdOf' :
                    queue'[i].wd = wdOf'[d] => queue'[i].stale \/ queue'[i].dir = d
    <3>1. queue'[i] = queue[i + 1] /\ i + 1 \in 1 .. Len(queue)
      BY <1>4
    <3> QED  BY <1>2, <3>1 DEF NamesInv
  <2>2. \A w \in Numbers : \A x \in NamesOf(w) :
          \A d \in DOMAIN wdOf' : wdOf'[d] = w => Under(d, moved) \/ x = d
    BY <1>2 DEF NamesInv
  <2> QED  BY <1>1, <1>6, <2>1, <2>2 DEF NamesInv, Under
<1>11. RemovalInv'
  <2>1. ASSUME NEW i \in 1 .. Len(queue'), NEW d \in DOMAIN wdOf',
               queue'[i].kind = "rmdir", queue'[i].wd = wdOf'[d]
        PROVE  d \in harmed
    <3>1. queue'[i] = queue[i + 1] /\ i + 1 \in 1 .. Len(queue)
      BY <1>4
    <3> QED  BY <1>2, <2>1, <3>1 DEF RemovalInv
  <2>2. \A d \in DOMAIN wdOf' : wdOf'[d] # removing' /\ (d \in Ignored => Under(d, moved))
    BY <1>2 DEF RemovalInv
  <2>3. \A w \in Numbers : (\E d \in DOMAIN wdOf' : wdOf'[d] = w) => NamesOf(w) # {}
    BY <1>2 DEF RemovalInv
  <2> QED  BY <1>1, <1>6, <2>1, <2>2, <2>3 DEF RemovalInv, Under
<1>12. ASSUME NEW i \in 1 .. Len(queue), i # 1, Lasting(i), NEW k, k = i - 1
       PROVE  k \in 1 .. Len(queue') /\ queue'[k] = queue[i] /\ Lasting(k)'
  <2>1. k \in 1 .. Len(queue') /\ queue'[k] = queue[i]
    BY <1>4, <1>12
  <2>2. queue'[k].wd # removing'
    <3>1. 1 \in 1 .. i - 1
      BY <1>12
    <3> QED  BY <1>4, <1>12, <2>1, <3>1 DEF Lasting
  <2>3. ASSUME NEW j \in 1 .. k - 1
        PROVE  ~(queue'[j].kind = "rmdir" /\ queue'[j].wd = queue'[k].wd)
    <3>1. j \in 1 .. Len(queue') /\ j + 1 \in 1 .. i - 1
      <4>1. PICK n \in Nat, m \in Nat : n = Len(queue) /\ m = Len(queue')
        BY <1>4
      <4>2. i \in 1 .. n /\ k = i - 1 /\ k \in 1 .. m /\ j \in 1 .. k - 1
        BY <1>12, <2>1, <4>1
      <4>3. j \in 1 .. m /\ j + 1 \in 1 .. i - 1
        BY <4>2
      <4> QED  BY <4>1, <4>3
    <3>2. queue'[j] = queue[j + 1]
      BY <1>4, <3>1
    <3> QED  BY <1>12, <2>1, <3>1, <3>2 DEF Lasting
  <2> QED  BY <2>1, <2>2, <2>3 DEF Lasting
<1>13. \A d : Excused(d)' <=> Excused(d)
  BY <1>1 DEF Excused, Under
<1>14. ReachInv'
  <2> SUFFICES ASSUME NEW p \in dirs, ~Excused(p)
               PROVE  Watched(p)' \/ Pending(p)'
    BY <1>1, <1>13 DEF ReachInv
  <2>1. Watched(p) \/ Pending(p)
    BY DEF WatchInv, ReachInv
  <2>2. p \in DOMAIN wdOf => p \in DOMAIN wdOf' /\ wdOf'[p] = wdOf[p]
    BY DEF Excused
  <2>3. CASE Watched(p)
    BY <1>1, <2>2, <2>3 DEF Watched
  <2>4. CASE \E r \in Paths : IsPrefix(r, p) /\ Announced(r)
    <3>1. PICK r \in Paths : IsPrefix(r, p) /\ Announced(r)
      BY <2>4
    <3>2. PICK i \in 1 .. Len(queue) :
            /\ queue[i].kind = "mkdir" /\ queue[i].wd \in DOMAIN watchSet
            /\ Append(watchSet[queue[i].wd], queue[i].name) = r
            /\ Lasting(i)
      BY <3>1 DEF Announced
    <3>3. CASE i = 1
      <4>1. PICK c \in AllCalls' : c.at = "add" /\ c.path = r
        BY <1>4, <3>2, <3>3
      <4>2. LeadsTo(c, p)'
        BY <3>1, <4>1 DEF LeadsTo
      <4> QED  BY <4>2 DEF Pending
    <3>4. CASE i # 1
      <4>1. PICK k : k = i - 1
        OBVIOUS
      <4>2. k \in 1 .. Len(queue') /\ queue'[k] = queue[i] /\ Lasting(k)'
        BY <1>12, <3>2, <3>4, <4>1
      <4>3. Announced(r)'
        BY <1>1, <3>2, <4>2 DEF Announced
      <4> QED  BY <3>1, <4>3 DEF Pending
    <3> QED  BY <3>3, <3>4
  <2>5. CASE \E c \in AllCalls : LeadsTo(c, p)
    <3>1. PICK c \in AllCalls : LeadsTo(c, p)
      BY <2>5
    <3>2. LeadsTo(c, p)'
      BY <2>2, <3>1, LeadsToKept
    <3> QED  BY <3>2 DEF Pending
  <2> QED  BY <2>1, <2>3, <2>4, <2>5 DEF Pending
<1>15. AwaitInv'
  <2> SUFFICES ASSUME NEW d \in awaited', ~Excused(d)
               PROVE  stack["user"] = <<>> /\ Reportable(d)'
    BY <1>13 DEF AwaitInv
  <2>1. stack["user"] = <<>> /\ Reportable(d)
    BY DEF WatchInv, AwaitInv
  <2>2. PICK i \in 1 .. Len(queue) :
          /\ queue[i].kind = "create" /\ queue[i].dir = d
          /\ \E w \in Numbers : queue[i].wd = w /\ NamesOf(w) # {}
          /\ Lasting(i)
    BY <2>1 DEF Reportable
  <2>3. i # 1
    BY <1>4, <2>2
  <2>4. PICK k : k = i - 1
    OBVIOUS
  <2>5. k \in 1 .. Len(queue') /\ queue'[k] = queue[i] /\ Lasting(k)'
    BY <1>12, <2>2, <2>3, <2>4
  <2>6. \E w \in Numbers' : queue'[k].wd = w /\ NamesOf(w)' # {}
    BY <1>1, <1>6, <2>2, <2>5
  <2> QED  BY <2>1, <2>2, <2>5, <2>6 DEF Reportable
<1> QED  BY <1>7, <1>8, <1>9, <1>10, <1>11, <1>14, <1>15 DEF WatchInv

\* The calls of AddWatch are what they were.
LEMMA CallsSame ==
  ASSUME WatchInv, UNCHANGED stack
  PROVE  /\ stack' \in [Actors -> Seq(AddWatchCalls)] /\ stack'["user"] = stack["user"]
         /\ AllCalls' = AllCalls
BY DEF WatchInv, NumbersInv, AllCalls

\* The directories watched are what they were.
LEMMA WatchesSame ==
  ASSUME WatchInv, UNCHANGED <<wdOf, nextWd, removing>>
  PROVE  /\ wdOf' \in [DOMAIN wdOf' -> 1 .. nextWd - 1]
         /\ \A d \in DOMAIN wdOf' : d \in DOMAIN wdOf /\ wdOf'[d] = wdOf[d] /\ wdOf'[d] # removing'
BY DEF WatchInv, NumbersInv, RemovalInv

LEMMA SkipEventStep ==
  ASSUME WatchInv, SkipEvent
  PROVE  WatchInv'
<1>1. /\ Ready /\ queue' = Tail(queue) /\ Head(queue).wd \notin DOMAIN watchSet
      /\ UNCHANGED <<fileSystem, wdOf, nextWd, watcher, awaited>>
  BY DEF SkipEvent
<1>2. UNCHANGED <<watchSet, starting, stack, removing>>
  BY <1>1 DEF watcher
<1>3. ASSUME NEW d \in awaited, ~Excused(d), NEW w \in Numbers, Head(queue).wd = w
      PROVE  NamesOf(w) = {}
  <2>1. stack["user"] = <<>> /\ stack["thread"] = <<>>
    BY <1>1, <1>3 DEF WatchInv, AwaitInv, Ready
  <2>2. AllCalls = {}
    BY <2>1 DEF AllCalls, Actors
  <2> QED  BY <1>1, <1>3, <2>2, NamesMembers
<1> QED  BY <1>1, <1>2, <1>3, CallsSame, WatchesSame, EventHandled

LEMMA NotifyStep ==
  ASSUME WatchInv, Notify
  PROVE  WatchInv'
<1>1. /\ Ready /\ queue' = Tail(queue)
      /\ Head(queue).kind \in Kinds
      /\ awaited' = IF Head(queue).kind = "create" THEN awaited \ {Head(queue).dir} ELSE awaited
      /\ UNCHANGED <<fileSystem, wdOf, nextWd, watchSet, starting, stack, removing>>
  BY DEF Notify
<1>2. Head(queue).kind # "mkdir"
  BY <1>1, KindsAssumption
<1>3. awaited' \subseteq awaited /\ \A d \in awaited' : ~(Head(queue).kind = "create" /\ Head(queue).dir = d)
  BY <1>1
<1> QED  BY <1>1, <1>2, <1>3, CallsSame, WatchesSame, EventHandled

LEMMA DirCreatedStep ==
  ASSUME WatchInv, DirCreated
  PROVE  WatchInv'
<1>1. /\ Ready /\ queue' = Tail(queue)
      /\ Head(queue).kind = "mkdir" /\ Head(queue).wd \in DOMAIN watchSet
      /\ stack' = [stack EXCEPT !["thread"] =
                     <<Call(Append(watchSet[Head(queue).wd], Head(queue).name))>>]
      /\ UNCHANGED <<fileSystem, wdOf, nextWd, watchSet, starting, removing, awaited>>
  BY DEF DirCreated
<1>2. stack["thread"] = <<>> /\ queue # <<>> /\ NumbersInv
  BY <1>1 DEF Ready, WatchInv
<1>3. PICK p \in Seq(Names) : p = Append(watchSet[Head(queue).wd], Head(queue).name)
  <2>1. Head(queue) = queue[1] /\ 1 \in 1 .. Len(queue)
    BY <1>2, EventTaken, <1>1
  <2>2. Head(queue).name \in Names
    BY <1>1, <1>2, <2>1 DEF NumbersInv
  <2>3. watchSet[Head(queue).wd] \in Seq(Names)
    BY <1>1, <1>2, PathIsSeq DEF NumbersInv
  <2>4. \A s \in Seq(Names) : \A n \in Names : Append(s, n) \in Seq(Names)
    OBVIOUS
  <2> QED  BY <2>2, <2>3, <2>4
<1>4. PICK c \in AddWatchCalls : c = Call(p) /\ c.at = "add" /\ c.path = p
  <2>1. Call(p) \in AddWatchCalls /\ Call(p).at = "add" /\ Call(p).path = p
    BY DEF Call, AddWatchCalls
  <2> QED  BY <2>1
<1>5. /\ stack \in [Actors -> Seq(AddWatchCalls)]
      /\ <<c>> \in Seq(AddWatchCalls) /\ Len(<<c>>) = 1 /\ <<c>>[1] = c
  BY <1>2 DEF NumbersInv
<1>6. /\ stack' \in [Actors -> Seq(AddWatchCalls)] /\ stack'["user"] = stack["user"]
      /\ stack'["thread"] = <<c>>
  BY <1>1, <1>3, <1>4, <1>5 DEF Actors
<1>7. AllCalls' = {c} \cup AllCalls
  <2>1. /\ AllCalls = {stack["user"][i] : i \in 1 .. Len(stack["user"])}
        /\ AllCalls' = {stack["user"][i] : i \in 1 .. Len(stack["user"])}
                         \cup {<<c>>[i] : i \in 1 .. Len(<<c>>)}
    <3>1. /\ AllCalls = {stack["user"][i] : i \in 1 .. Len(stack["user"])}
                          \cup {stack["thread"][i] : i \in 1 .. Len(stack["thread"])}
          /\ AllCalls' = {stack'["user"][i] : i \in 1 .. Len(stack'["user"])}
                           \cup {stack'["thread"][i] : i \in 1 .. Len(stack'["thread"])}
      BY DEF AllCalls, Actors
    <3>2. {stack["thread"][i] : i \in 1 .. Len(stack["thread"])} = {}
      BY <1>2
    <3> QED  BY <1>6, <3>1, <3>2
  <2>2. 1 .. 1 = {1}
    OBVIOUS
  <2>3. {<<c>>[i] : i \in 1 .. Len(<<c>>)} = {c}
    BY <1>5, <2>2
  <2> QED  BY <2>1, <2>3
<1>8. /\ AllCalls \subseteq AllCalls' /\ \A b \in AllCalls' : b \in AllCalls \/ b.at # "name"
      /\ \E b \in AllCalls' : /\ b.at = "add"
                              /\ b.path = Append(watchSet[Head(queue).wd], Head(queue).name)
  BY <1>3, <1>4, <1>7
<1> QED  BY <1>1, <1>6, <1>8, WatchesSame, EventHandled

LEMMA DirRemovedStep ==
  ASSUME WatchInv, DirRemoved
  PROVE  WatchInv'
<1>1. /\ Ready /\ queue' = Tail(queue) /\ Head(queue).kind = "rmdir"
      /\ wdOf' = [q \in {r \in DOMAIN wdOf : wdOf[r] # Head(queue).wd} |-> wdOf[q]]
      /\ removing' = Head(queue).wd
      /\ UNCHANGED <<fileSystem, nextWd, watchSet, starting, stack, awaited>>
  BY DEF DirRemoved
<1>2. NumbersInv /\ RemovalInv /\ queue # <<>>
  BY <1>1 DEF WatchInv, Ready
<1>3. /\ wdOf' \in [DOMAIN wdOf' -> 1 .. nextWd - 1]
      /\ \A d \in DOMAIN wdOf' : d \in DOMAIN wdOf /\ wdOf'[d] = wdOf[d] /\ wdOf'[d] # removing'
  BY <1>1, <1>2 DEF NumbersInv
<1>4. ASSUME NEW d \in DOMAIN wdOf, d \notin DOMAIN wdOf'
      PROVE  d \in harmed
  <2>1. wdOf[d] = queue[1].wd /\ queue[1].kind = "rmdir" /\ 1 \in 1 .. Len(queue)
    BY <1>1, <1>2, <1>4, EventTaken
  <2> QED  BY <1>2, <2>1 DEF RemovalInv
<1> QED  BY <1>1, <1>3, <1>4, CallsSame, EventHandled

LEMMA EraseStep ==
  ASSUME WatchInv, Erase
  PROVE  WatchInv'
<1>1. /\ ~ended /\ removing # 0 /\ removing' = 0
      /\ watchSet' = [w \in DOMAIN watchSet \ {removing} |-> watchSet[w]]
      /\ UNCHANGED <<fileSystem, wdOf, nextWd, queue, starting, stack, awaited>>
  BY DEF Erase
<1>2. /\ UNCHANGED <<dirs, changes, moved, harmed, started, joinable, ended>>
      /\ Numbers' = Numbers /\ AllCalls' = AllCalls /\ Naming' = Naming
  BY <1>1 DEF fileSystem, starting, Numbers, AllCalls, Naming
<1>3. NumbersInv /\ ThreadInv /\ NamesInv /\ RemovalInv
  BY DEF WatchInv
<1>4. /\ DOMAIN watchSet' = DOMAIN watchSet \ {removing}
      /\ \A w \in DOMAIN watchSet' : watchSet'[w] = watchSet[w]
      /\ watchSet' \in [DOMAIN watchSet' -> Paths]
  BY <1>1, <1>3 DEF NumbersInv
<1>5. \A w : NamesOf(w)' \subseteq NamesOf(w) /\ (w # removing => NamesOf(w)' = NamesOf(w))
  <2>1. \A w : NamesOf(w)' \subseteq NamesOf(w)
    BY <1>2, <1>4, NamesMembers, NamesMembersNext
  <2>2. \A w : w # removing => NamesOf(w) \subseteq NamesOf(w)'
    BY <1>2, <1>4, NamesMembers, NamesMembersNext
  <2> QED  BY <2>1, <2>2
<1>6. TreeInv' /\ ThreadInv'
  BY <1>1, <1>2, <1>3 DEF WatchInv, TreeInv, ThreadInv, Stands, Top
<1>7. NumbersInv'
  <2>1. DOMAIN watchSet' \subseteq 1 .. nextWd - 1 /\ removing' \in 0 .. nextWd - 1
    BY <1>1, <1>3, <1>4 DEF NumbersInv
  <2> QED  BY <1>1, <1>2, <1>3, <1>4, <2>1 DEF NumbersInv
<1>8. NamesInv'
  BY <1>1, <1>2, <1>3, <1>5 DEF NamesInv, Under
<1>9. \A d \in DOMAIN wdOf : wdOf[d] \in Numbers /\ wdOf[d] # 0 /\ wdOf[d] # removing
  BY <1>3 DEF NumbersInv, RemovalInv, Numbers
<1>10. RemovalInv'
  <2>1. \A w \in Numbers : (\E d \in DOMAIN wdOf : wdOf[d] = w) => NamesOf(w)' # {}
    BY <1>3, <1>5, <1>9 DEF RemovalInv
  <2> QED  BY <1>1, <1>2, <1>3, <1>9, <2>1 DEF RemovalInv, Under
<1>11. \A i \in 1 .. Len(queue) : Lasting(i) => Lasting(i)' /\ queue[i].wd # removing
  BY <1>1, <1>3 DEF Lasting, NumbersInv
<1>12. ReachInv'
  <2> SUFFICES ASSUME NEW p \in dirs, ~Excused(p)'
               PROVE  Watched(p)' \/ Pending(p)'
    BY <1>2 DEF ReachInv
  <2>1. Watched(p) \/ Pending(p)
    BY <1>2 DEF WatchInv, ReachInv, Excused, Under
  <2>2. CASE Watched(p)
    BY <1>1, <1>4, <1>9, <2>2 DEF Watched
  <2>3. CASE \E r \in Paths : IsPrefix(r, p) /\ Announced(r)
    <3>1. PICK r \in Paths : IsPrefix(r, p) /\ Announced(r)
      BY <2>3
    <3>2. Announced(r)'
      BY <1>1, <1>4, <1>11, <3>1 DEF Announced
    <3> QED  BY <3>1, <3>2 DEF Pending
  <2>4. CASE \E c \in AllCalls : LeadsTo(c, p)
    BY <1>1, <1>2, <2>4, LeadsToKept DEF Pending
  <2> QED  BY <2>1, <2>2, <2>3, <2>4 DEF Pending
<1>13. AwaitInv'
  <2> SUFFICES ASSUME NEW d \in awaited, ~Excused(d)'
               PROVE  stack["user"] = <<>> /\ Reportable(d)'
    BY <1>1 DEF AwaitInv
  <2>1. stack["user"] = <<>> /\ Reportable(d)
    BY <1>2 DEF WatchInv, AwaitInv, Excused, Under
  <2>2. PICK i \in 1 .. Len(queue) :
          /\ queue[i].kind = "create" /\ queue[i].dir = d
          /\ \E w \in Numbers : queue[i].wd = w /\ NamesOf(w) # {}
          /\ Lasting(i)
    BY <2>1 DEF Reportable
  <2>3. \E w \in Numbers : queue[i].wd = w /\ NamesOf(w)' # {}
    BY <1>5, <1>11, <2>2
  <2> QED  BY <1>1, <1>2, <1>11, <2>1, <2>2, <2>3 DEF Reportable
<1> QED  BY <1>6, <1>7, <1>8, <1>10, <1>12, <1>13 DEF WatchInv
-----------------------------------------------------------------------------
(* The theorems.                                                           *)

LEMMA WatchInitial ==
  WatchInit => WatchInv
<1> SUFFICES ASSUME WatchInit
             PROVE  WatchInv
  OBVIOUS
<1>1. PICK c \in AddWatchCalls : c = Call(Root) /\ c.at = "add" /\ c.path = Root
  <2>1. Root \in Seq(Names)
    BY EmptySeq DEF Root
  <2> HIDE DEF Root
  <2>2. Call(Root) \in AddWatchCalls /\ Call(Root).at = "add" /\ Call(Root).path = Root
    BY <2>1 DEF Call, AddWatchCalls
  <2> QED  BY <2>2
<1>2. /\ dirs \in Trees /\ wdOf = <<>> /\ nextWd = 1 /\ queue = <<>> /\ watchSet = <<>>
      /\ started = FALSE /\ joinable = FALSE /\ ended = FALSE
      /\ stack = [a \in Actors |-> IF a = "user" THEN <<c>> ELSE <<>>]
      /\ removing = 0 /\ changes = 0 /\ moved = {} /\ harmed = {} /\ awaited = {}
  BY <1>1 DEF WatchInit
<1>3. TreeInv
  BY <1>2, TreesAssumption, ChangesAssumption DEF TreeInv
<1>4. /\ stack["user"] = <<c>> /\ stack["thread"] = <<>>
      /\ <<c>> \in Seq(AddWatchCalls) /\ Len(<<c>>) = 1 /\ Head(<<c>>) = c /\ <<c>>[1] = c
  BY <1>2 DEF Actors
<1>5. c \in AllCalls
  <2>1. stack["user"][1] = c /\ 1 \in 1 .. Len(stack["user"]) /\ "user" \in Actors
    BY <1>4 DEF Actors
  <2> QED  BY <2>1 DEF AllCalls
<1>6. AllCalls \subseteq {c}
  <2> SUFFICES ASSUME NEW a \in Actors, NEW i \in 1 .. Len(stack[a])
               PROVE  stack[a][i] = c
    BY DEF AllCalls
  <2>1. a = "user" \/ a = "thread"
    BY DEF Actors
  <2>2. Len(stack["thread"]) = 0
    BY <1>4, EmptySeq
  <2> QED  BY <1>4, <2>1, <2>2
<1>7. Naming = {}
  BY <1>1, <1>6 DEF Naming
<1>8. DOMAIN wdOf = {} /\ DOMAIN watchSet = {} /\ Len(queue) = 0 /\ queue \in Seq(Events)
  BY <1>2
<1>9. NumbersInv
  <2>1. stack \in [Actors -> Seq(AddWatchCalls)]
    BY <1>2, <1>4, EmptySeq
  <2>2. wdOf \in [DOMAIN wdOf -> 1 .. nextWd - 1] /\ watchSet \in [DOMAIN watchSet -> Paths]
    BY <1>2
  <2> QED  BY <1>2, <1>7, <1>8, <2>1, <2>2, QueueAssumption DEF NumbersInv
<1>10. ThreadInv
  BY <1>1, <1>2, <1>4 DEF ThreadInv, Top
<1>11. NamesInv /\ RemovalInv
  BY <1>2, <1>8 DEF NamesInv, RemovalInv, Numbers
<1>12. ReachInv
  <2> SUFFICES ASSUME NEW p \in dirs
               PROVE  Pending(p)
    BY DEF ReachInv
  <2>1. IsPrefix(Root, p)
    BY <1>3, TreeFacts, PrefixOrder
  <2> QED  BY <1>1, <1>5, <2>1 DEF Pending, LeadsTo
<1>13. AwaitInv
  BY <1>2 DEF AwaitInv
<1> QED  BY <1>3, <1>9, <1>10, <1>11, <1>12, <1>13 DEF WatchInv

LEMMA WatchStep ==
  WatchInv /\ [WatchNext]_watchVars => WatchInv'
<1> SUFFICES ASSUME WatchInv, [WatchNext]_watchVars
             PROVE  WatchInv'
  OBVIOUS
<1>1. ASSUME NEW d \in Paths, NEW kind \in Kinds, FileOp(d, kind)
      PROVE  WatchInv'
  BY <1>1, FileOpStep
<1>2. ASSUME NEW p \in Paths \ {Root}, MakeDir(p)
      PROVE  WatchInv'
  BY <1>2, MakeDirStep
<1>3. ASSUME NEW p \in Paths \ {Root}, RemoveDir(p)
      PROVE  WatchInv'
  BY <1>3, RemoveDirStep
<1>4. ASSUME NEW p \in Paths \ {Root}, NEW q \in Paths \ {Root}, MoveDir(p, q)
      PROVE  WatchInv'
  BY <1>4, MoveDirStep
<1>5. ASSUME NEW a \in Actors, AddWatch(a)
      PROVE  WatchInv'
  BY <1>5, InotifyAddWatchStep, EmplaceStep, StartThreadStep, AssignStep, OpenDirStep,
     ListDirStep DEF AddWatch
<1>6. CASE SkipEvent \/ Notify \/ DirCreated \/ DirRemoved \/ Erase
  BY <1>6, SkipEventStep, NotifyStep, DirCreatedStep, DirRemovedStep, EraseStep
<1>7. CASE UNCHANGED watchVars
  <2>1. /\ UNCHANGED <<dirs, wdOf, nextWd, queue, watchSet, started, joinable, ended, stack,
                       removing, changes, moved, harmed, awaited>>
        /\ AllCalls' = AllCalls /\ Numbers' = Numbers /\ Naming' = Naming
        /\ \A w : NamesOf(w)' = NamesOf(w)
    BY <1>7 DEF watchVars, AllCalls, Numbers, Naming, NamesOf
  <2>2. TreeInv' /\ NumbersInv' /\ ThreadInv'
    BY <2>1 DEF WatchInv, TreeInv, NumbersInv, ThreadInv, Stands, Top
  <2>3. NamesInv'
    BY <2>1 DEF WatchInv, NamesInv, Under
  <2>4. RemovalInv'
    BY <2>1 DEF WatchInv, RemovalInv, Under
  <2>5. \A i : Lasting(i)' <=> Lasting(i)
    BY <2>1 DEF Lasting
  <2>6. \A d : Excused(d)' <=> Excused(d)
    BY <2>1 DEF Excused, Under
  <2>7. ReachInv'
    <3>1. \A r : Announced(r) => Announced(r)'
      BY <2>1, <2>5 DEF Announced
    <3> QED  BY <2>1, <2>6, <3>1, ReachKept DEF WatchInv, ReachInv
  <2>8. AwaitInv'
    <3>1. \A d : Reportable(d) => Reportable(d)'
      BY <2>1, <2>5 DEF Reportable
    <3> QED  BY <2>1, <2>6, <3>1 DEF WatchInv, AwaitInv
  <2> QED  BY <2>2, <2>3, <2>4, <2>7, <2>8 DEF WatchInv
<1> QED  BY <1>1, <1>2, <1>3, <1>4, <1>5, <1>6, <1>7 DEF WatchNext

\* The inductive invariant of the watcher (watchFs-nix.cpp, AddWatch and DirWatch).
THEOREM WatchInvariance == WatchSpec => []WatchInv
BY WatchInitial, WatchStep, PTL DEF WatchSpec

\* Every variable of the watcher has its type; two directories never have one
\* number, the number about to be erased is none of a directory, and the kernel's
\* queue keeps its limit.
THEOREM WatchTypeCorrect == WatchSpec => []WatchTypeOK
<1>1. WatchInv => WatchTypeOK
  BY DEF WatchInv, TreeInv, NumbersInv, ThreadInv, RemovalInv, WatchTypeOK
<1> QED  BY <1>1, WatchInvariance, PTL

\* However deep the tree is, and whatever is made, removed and moved while AddWatch
\* and DirWatch go through it, the watcher that has nothing left to do watches every
\* directory, under its name, but those SettledIsWatched excuses.
THEOREM EveryDirectoryIsWatched == WatchSpec => []SettledIsWatched
<1>1. WatchInv => SettledIsWatched
  <2> SUFFICES ASSUME WatchInv, Settled, NEW p \in dirs \ harmed,
                      ~Under(p, moved), ~Under(p, Ignored)
               PROVE  p \in DOMAIN wdOf /\ wdOf[p] \in DOMAIN watchSet /\ watchSet[wdOf[p]] = p
    BY DEF SettledIsWatched
  <2>1. Len(queue) = 0 /\ AllCalls = {}
    BY DEF Settled, AllCalls
  <2>2. ~Pending(p)
    BY <2>1 DEF Pending, Announced
  <2>3. Watched(p)
    BY <2>2 DEF WatchInv, ReachInv, Excused
  <2> QED  BY <2>3 DEF Watched
<1> QED  BY <1>1, WatchInvariance, PTL

\* The test of watchThr without a lock starts a second thread, which ends the process,
\* only while the first AddWatch of the user is at its assignment.
THEOREM SecondThreadOnlyAtFirst == WatchSpec => []OneThread
<1>1. WatchInv => OneThread
  BY DEF WatchInv, ThreadInv, OneThread
<1> QED  BY <1>1, WatchInvariance, PTL

\* Files created once AddWatch returned are reported before the watcher has nothing
\* left to do: their event is in the queue under a number that keeps its name.
THEOREM EveryCreationIsReported == WatchSpec => []CreatedIsReported
<1>1. WatchInv => CreatedIsReported
  <2> SUFFICES ASSUME WatchInv, Settled, NEW d \in awaited, ~Excused(d)
               PROVE  FALSE
    BY DEF CreatedIsReported, Excused
  <2>1. Reportable(d)
    BY DEF WatchInv, AwaitInv
  <2>2. Len(queue) = 0
    BY DEF Settled
  <2> QED  BY <2>1, <2>2 DEF Reportable
<1> QED  BY <1>1, WatchInvariance, PTL

\* The name a number has in watchSet when its event is handled is that of the directory
\* the event is of, unless one above it was moved: what DirWatch reports happened there.
THEOREM EveryReportIsTrue == WatchSpec => []ReportsAreTrue
<1>1. WatchInit => ReportsAreTrue
  BY DEF WatchInit, ReportsAreTrue, NoReport
<1>2. WatchInv /\ ReportsAreTrue /\ [WatchNext]_watchVars => ReportsAreTrue'
  <2> SUFFICES ASSUME WatchInv, ReportsAreTrue, [WatchNext]_watchVars
               PROVE  ReportsAreTrue'
    OBVIOUS
  <2>1. CASE Notify
    <3>1. /\ queue # <<>> /\ Head(queue).wd \in DOMAIN watchSet
          /\ report' = [said |-> <<Head(queue).kind, watchSet[Head(queue).wd]>>,
                        was |-> <<Head(queue).kind, Head(queue).dir>>, stale |-> Head(queue).stale]
      BY <2>1 DEF Notify, Ready
    <3>2. NumbersInv /\ NamesInv /\ queue' = Tail(queue)
      BY <2>1 DEF WatchInv, Notify
    <3>3. Head(queue) = queue[1] /\ 1 \in 1 .. Len(queue)
      BY <3>1, <3>2, EventTaken
    <3>4. PICK w \in Numbers : w = queue[1].wd
      BY <3>2, <3>3 DEF NumbersInv, Numbers
    <3>5. watchSet[w] \in NamesOf(w)
      BY <3>1, <3>3, <3>4, NamesMembers
    <3>6. queue[1].stale \/ watchSet[w] = queue[1].dir
      BY <3>2, <3>3, <3>4, <3>5 DEF NamesInv
    <3> QED  BY <3>1, <3>3, <3>4, <3>6 DEF ReportsAreTrue
  <2>2. CASE ~Notify
    <3>1. report' = report
      BY <2>2 DEF WatchNext, watchVars, watcher, AddWatch, FileOp, MakeDir, RemoveDir, MoveDir,
             InotifyAddWatch, Emplace, StartThread, Assign, OpenDir, ListDir,
             SkipEvent, DirCreated, DirRemoved, Erase
    <3> QED  BY <3>1 DEF ReportsAreTrue
  <2> QED  BY <2>1, <2>2
<1> QED  BY <1>1, <1>2, WatchInvariance, PTL DEF WatchSpec
=============================================================================

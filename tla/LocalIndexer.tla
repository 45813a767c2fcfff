--------------------------- MODULE LocalIndexer ----------------------------
(***************************************************************************)
(* The local indexer (utils/libruseq/local-indexer.cpp): main lists files  *)
(* into a bounded queue of archives, parsers read the archives and put     *)
(* their texts to a second bounded queue, indexers insert the texts.  Done *)
(* with the list, main parses and indexes too, then stops and joins all.   *)
(* Get waits at most a second at a time, so that a reader always sees what *)
(* it waits for; Put waits until it is notified.  What Insert reports of a *)
(* text nobody looks at, and what it throws nobody catches: it ends the    *)
(* process.                                                                *)
(***************************************************************************)
EXTENDS Naturals, Sequences, FiniteSets, SequencesExt

CONSTANTS Parsers, Indexers,    \* the threads main starts
          main,
          Texts,
          Archives,             \* the files, each a sequence of texts
          ArchivesLimit, TextsLimit

Threads == Parsers \cup Indexers \cup {main}
PlaceNames == {"files", "path", "archives", "fb2Texts", "indexed", "refused", "failed"}

ASSUME ThreadsAssumption ==
  /\ IsFiniteSet(Threads) /\ Threads \cap PlaceNames = {}
  /\ Parsers \cap Indexers = {}
  /\ main \notin Parsers \cup Indexers
ASSUME LimitsAssumption == ArchivesLimit \in Nat \ {0} /\ TextsLimit \in Nat \ {0}
\* Every text is once in one archive.
ASSUME ArchivesAssumption ==
  /\ Archives \subseteq Seq(Texts)
  /\ \A a, b \in Archives : \A i \in DOMAIN a, j \in DOMAIN b :
       a[i] = b[j] => a = b /\ i = j

VARIABLES
  at,           \* of each thread: where it is
  hand,         \* of each thread: the texts it has not passed on
  files,        \* the files ListFiles has not met
  path,         \* the file it is about to put
  archives,     \* the queue of archives
  fb2Texts,     \* the queue of texts
  noMoreFiles, canContinue,
  aborted,      \* whether an exception ended the process
  indexed,      \* history: the texts inserted
  refused,      \* history: the texts Insert reported an error of
  failed,       \* history: the texts that did not parse
  late          \* history: main found no texts while an archive was parsed

vars == <<at, hand, files, path, archives, fb2Texts, noMoreFiles, canContinue,
          aborted, indexed, refused, failed, late>>
listing == <<files, path>>
flags == <<noMoreFiles, canContinue, aborted>>
history == <<indexed, refused, failed, late>>

Parsing(t) == at[t] \in {"parse", "putText", "waitText"}
Busy == archives # <<>> \/ \E t \in Threads : Parsing(t)

\* notify_all: who waits at w looks again.
Notified(w, to) == [t \in Threads |-> IF at[t] = w THEN to ELSE at[t]]

Init ==
  /\ at = [t \in Threads |-> CASE t = main -> "list"
                               [] t \in Parsers -> "getArchive"
                               [] t \in Indexers -> "getText"]
  /\ hand = [t \in Threads |-> <<>>]
  /\ files = Archives
  /\ path = <<>>
  /\ archives = <<>>
  /\ fb2Texts = <<>>
  /\ noMoreFiles = FALSE
  /\ canContinue = TRUE
  /\ aborted = FALSE
  /\ indexed = {}
  /\ refused = {}
  /\ failed = {}
  /\ late = FALSE
-----------------------------------------------------------------------------
(* ListFiles and the first queue.                                          *)

ListFile ==
  /\ at[main] = "list"
  /\ canContinue
  /\ \E f \in files : path' = f /\ files' = files \ {f}
  /\ at' = [at EXCEPT ![main] = "putArchive"]
  /\ UNCHANGED <<hand, archives, fb2Texts, flags, history>>

\* archives.Put
PutArchive ==
  /\ at[main] = "putArchive"
  /\ IF Len(archives) < ArchivesLimit \/ ~canContinue
       THEN /\ archives' = Append(archives, path)
            /\ at' = [at EXCEPT ![main] = "list"]
       ELSE /\ at' = [at EXCEPT ![main] = "waitArchive"]
            /\ UNCHANGED archives
  /\ UNCHANGED <<hand, listing, fb2Texts, flags, history>>

EndList ==
  /\ at[main] = "list"
  /\ files = {}
  /\ noMoreFiles' = TRUE
  /\ at' = [at EXCEPT ![main] = "getArchive"]
  /\ UNCHANGED <<hand, listing, archives, fb2Texts, canContinue, aborted, history>>

\* Broken variant of GetArchive: a full queue's Put is not notified.
GetArchiveQuietly(t) ==
  /\ at[t] = "getArchive"
  /\ canContinue
  /\ archives # <<>>
  /\ hand' = [hand EXCEPT ![t] = Head(archives)]
  /\ archives' = Tail(archives)
  /\ at' = [at EXCEPT ![t] = "parse"]
  /\ UNCHANGED <<listing, fb2Texts, flags, history>>

\* archives.Get, an archive
GetArchive(t) ==
  /\ at[t] = "getArchive"
  /\ canContinue
  /\ archives # <<>>
  /\ hand' = [hand EXCEPT ![t] = Head(archives)]
  /\ archives' = Tail(archives)
  /\ at' = [Notified("waitArchive", "putArchive") EXCEPT ![t] = "parse"]
  /\ UNCHANGED <<listing, fb2Texts, flags, history>>

\* archives.Get, none: a parser ends, main goes on to index.
NoArchive(t) ==
  /\ at[t] = "getArchive"
  /\ ~canContinue \/ (archives = <<>> /\ noMoreFiles)
  /\ at' = [at EXCEPT ![t] = IF t = main THEN "getText" ELSE "done"]
  /\ UNCHANGED <<hand, listing, archives, fb2Texts, flags, history>>
-----------------------------------------------------------------------------
(* ReadZipped and the second queue.                                        *)

ParseText(t) ==
  /\ at[t] = "parse"
  /\ hand[t] # <<>>
  /\ at' = [at EXCEPT ![t] = "putText"]
  /\ UNCHANGED <<hand, listing, archives, fb2Texts, flags, history>>

\* ParseFB2 throws: the text is skipped.
SkipText(t) ==
  /\ at[t] = "parse"
  /\ hand[t] # <<>>
  /\ failed' = failed \cup {Head(hand[t])}
  /\ hand' = [hand EXCEPT ![t] = Tail(hand[t])]
  /\ UNCHANGED <<at, listing, archives, fb2Texts, flags, indexed, refused, late>>

\* LoadFile or the archive throws: what is left of it is skipped.
SkipArchive(t) ==
  /\ at[t] = "parse"
  /\ failed' = failed \cup ToSet(hand[t])
  /\ hand' = [hand EXCEPT ![t] = <<>>]
  /\ at' = [at EXCEPT ![t] = "getArchive"]
  /\ UNCHANGED <<listing, archives, fb2Texts, flags, indexed, refused, late>>

\* fb2Texts.Put
PutText(t) ==
  /\ at[t] = "putText"
  /\ IF Len(fb2Texts) < TextsLimit \/ ~canContinue
       THEN /\ fb2Texts' = Append(fb2Texts, Head(hand[t]))
            /\ hand' = [hand EXCEPT ![t] = Tail(hand[t])]
            /\ at' = [Notified("waitText", "putText") EXCEPT ![t] = "parse"]
       ELSE /\ at' = [at EXCEPT ![t] = "waitText"]
            /\ UNCHANGED <<hand, fb2Texts>>
  /\ UNCHANGED <<listing, archives, flags, history>>

\* wait.wait of Put returns by itself and looks again.
SpuriousWakeup(t) ==
  /\ ~aborted
  /\ at[t] \in {"waitArchive", "waitText"}
  /\ at' = [at EXCEPT ![t] = IF at[t] = "waitText" THEN "putText" ELSE "putArchive"]
  /\ UNCHANGED <<hand, listing, archives, fb2Texts, flags, history>>

EndArchive(t) ==
  /\ at[t] = "parse"
  /\ hand[t] = <<>>
  /\ at' = [at EXCEPT ![t] = "getArchive"]
  /\ UNCHANGED <<hand, listing, archives, fb2Texts, flags, history>>
-----------------------------------------------------------------------------
(* IndexTexts and the end of main.                                         *)

\* Broken variant of GetText: the text stays in the queue.
GetTextCopied(t) ==
  /\ at[t] = "getText"
  /\ canContinue
  /\ fb2Texts # <<>>
  /\ hand' = [hand EXCEPT ![t] = <<Head(fb2Texts)>>]
  /\ at' = [Notified("waitText", "putText") EXCEPT ![t] = "index"]
  /\ UNCHANGED <<fb2Texts, listing, archives, flags, history>>

\* fb2Texts.Get, a text
GetText(t) ==
  /\ at[t] = "getText"
  /\ canContinue
  /\ fb2Texts # <<>>
  /\ hand' = [hand EXCEPT ![t] = <<Head(fb2Texts)>>]
  /\ fb2Texts' = Tail(fb2Texts)
  /\ at' = [Notified("waitText", "putText") EXCEPT ![t] = "index"]
  /\ UNCHANGED <<listing, archives, flags, history>>

\* Broken variant of NoText: noMoreFiles is looked at before the queue.
NoTextEarly(t) ==
  /\ at[t] = "getText"
  /\ ~canContinue \/ noMoreFiles
  /\ at' = [at EXCEPT ![t] = IF t = main THEN "stop" ELSE "done"]
  /\ late' = (late \/ (t = main /\ Busy))
  /\ UNCHANGED <<hand, listing, archives, fb2Texts, flags, indexed, refused, failed>>

\* fb2Texts.Get, none: an indexer ends, main goes on to stop all.
NoText(t) ==
  /\ at[t] = "getText"
  /\ ~canContinue \/ (fb2Texts = <<>> /\ noMoreFiles)
  /\ at' = [at EXCEPT ![t] = IF t = main THEN "stop" ELSE "done"]
  /\ late' = (late \/ (t = main /\ Busy))
  /\ UNCHANGED <<hand, listing, archives, fb2Texts, flags, indexed, refused, failed>>

IndexText(t) ==
  /\ at[t] = "index"
  /\ indexed' = indexed \cup ToSet(hand[t])
  /\ hand' = [hand EXCEPT ![t] = <<>>]
  /\ at' = [at EXCEPT ![t] = "getText"]
  /\ UNCHANGED <<listing, archives, fb2Texts, flags, refused, failed, late>>

\* Insert reports an error, to a notify function and a Wait that drop it.
RefuseText(t) ==
  /\ at[t] = "index"
  /\ refused' = refused \cup ToSet(hand[t])
  /\ hand' = [hand EXCEPT ![t] = <<>>]
  /\ at' = [at EXCEPT ![t] = "getText"]
  /\ UNCHANGED <<listing, archives, fb2Texts, flags, indexed, failed, late>>

\* What Insert does not report, or the text's title or author, throws in a
\* thread that does not catch it.
IndexThrows(t) ==
  /\ ~aborted
  /\ at[t] = "index"
  /\ aborted' = TRUE
  /\ UNCHANGED <<at, hand, listing, archives, fb2Texts, noMoreFiles, canContinue, history>>

\* canContinue = false, and nobody is notified.
StopAll ==
  /\ at[main] = "stop"
  /\ canContinue' = FALSE
  /\ at' = [at EXCEPT ![main] = "join"]
  /\ UNCHANGED <<hand, listing, archives, fb2Texts, noMoreFiles, aborted, history>>

Join ==
  /\ at[main] = "join"
  /\ \A t \in Threads \ {main} : at[t] = "done"
  /\ at' = [at EXCEPT ![main] = "exited"]
  /\ UNCHANGED <<hand, listing, archives, fb2Texts, flags, history>>

Run(t) ==
  /\ ~aborted
  /\ \/ GetArchive(t) \/ NoArchive(t)
     \/ ParseText(t) \/ SkipText(t) \/ SkipArchive(t) \/ PutText(t) \/ EndArchive(t)
     \/ GetText(t) \/ NoText(t) \/ IndexText(t) \/ RefuseText(t)
List == ~aborted /\ (ListFile \/ PutArchive \/ EndList)
End == ~aborted /\ (StopAll \/ Join)

Next ==
  \/ List \/ End
  \/ \E t \in Threads : Run(t) \/ SpuriousWakeup(t) \/ IndexThrows(t)

Spec == Init /\ [][Next]_vars

\* Threads that do not wait run, as long as the process does.
FairSpec ==
  /\ Spec
  /\ WF_vars(List \/ End)
  /\ \A t \in Threads : WF_vars(Run(t))
-----------------------------------------------------------------------------
\* Every variable has its type, and the queues keep their limits until the
\* end, when Put does not wait any more.
TypeOK ==
  /\ at \in [Threads -> {"list", "putArchive", "waitArchive", "getArchive", "parse", "putText",
                         "waitText", "getText", "index", "stop", "join", "done", "exited"}]
  /\ \A t \in Threads : hand[t] \in Seq(Texts)
  /\ files \subseteq Archives
  /\ path \in Archives \cup {<<>>}
  /\ archives \in Seq(Archives) /\ Len(archives) <= ArchivesLimit
  /\ fb2Texts \in Seq(Texts) /\ (canContinue => Len(fb2Texts) <= TextsLimit)
  /\ noMoreFiles \in BOOLEAN /\ canContinue \in BOOLEAN /\ aborted \in BOOLEAN
  /\ indexed \subseteq Texts /\ refused \subseteq Texts /\ failed \subseteq Texts
  /\ late \in BOOLEAN

\* Where a text is: on the way in a sequence, or at its end in a set.
AtPath == IF at[main] \in {"putArchive", "waitArchive"} THEN path ELSE <<>>
Places ==
  [p \in Threads \cup PlaceNames |->
    CASE p \in Threads -> ToSet(hand[p])
      [] p = "files" -> UNION {ToSet(f) : f \in files}
      [] p = "path" -> ToSet(AtPath)
      [] p = "archives" -> UNION {ToSet(a) : a \in ToSet(archives)}
      [] p = "fb2Texts" -> ToSet(fb2Texts)
      [] p = "indexed" -> indexed
      [] p = "refused" -> refused
      [] p = "failed" -> failed]

\* Every text of the archives is at one place: none is lost on the way or
\* indexed twice, whatever the threads do.
TextsOnce ==
  /\ UNION {Places[p] : p \in DOMAIN Places} = UNION {ToSet(a) : a \in Archives}
  /\ \A p, q \in DOMAIN Places : p # q => Places[p] \cap Places[q] = {}

\* The program that ends in order has offered every text that parsed to the
\* index, which took it or refused it, unless main found no texts and stopped
\* the others while an archive was still parsed.
AllIndexedUnlessLate ==
  at[main] = "exited" /\ ~late
    => indexed \cup refused \cup failed = UNION {ToSet(a) : a \in Archives}

\* All indexers have left while main still parses, so that nobody takes what
\* it puts.
Deserted == Parsing(main) /\ \A t \in Indexers : at[t] = "done"

\* The program ends, in order or by an exception, unless the indexers leave
\* before the parsers.
EndsUnlessLate == <>(at[main] = "exited" \/ aborted \/ late \/ Deserted)
=============================================================================

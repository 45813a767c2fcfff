-------------------------------- MODULE Sender --------------------------------
(***************************************************************************)
(* The program that sends a library of archives to a service               *)
(* (src/utils/libruseq/sender.cpp).  main lists archives into a bounded    *)
(* list; readers take them, parse them and send their texts, no more at    *)
(* once than maxrequests; the answers come to a callback in the threads of *)
(* the HTTP client, which counts them and adapts maxrequests.              *)
(*                                                                         *)
(* archives::done and canContinue are never changed, so no wait looks at   *)
(* them here.                                                              *)
(***************************************************************************)
EXTENDS Integers, Sequences, FiniteSets, FiniteSetsExt

CONSTANTS Archives,
          Readers,    \* threads in ReadArchives
          ListLimit,  \* places of archives::list
          Lowest, First, Highest,   \* maxrequests: its least, first and greatest value
          Elapsed     \* the times a report may tell: "none", "short" or "long"

Nobody == "nobody"
Nothing == "nothing"

ASSUME LimitAssumption == ListLimit \in Nat \ {0}
ASSUME RequestsAssumption ==
  {Lowest, First, Highest} \subseteq Nat \ {0} /\ Lowest <= First /\ First <= Highest
ASSUME ElapsedAssumption == Elapsed \subseteq {"none", "short", "long"}
ASSUME ArchivesAssumption == IsFiniteSet(Archives) /\ Nothing \notin Archives
ASSUME ReadersAssumption == Nobody \notin Readers

VARIABLES
  unlisted,     \* archives the directories still have for main
  list,         \* archives::list
  main,         \* where main is
  at,           \* of each reader: where it is
  archive,      \* of each reader: the archive it has
  locker,       \* who holds requests::locker
  processing,
  maxrequests,
  call,         \* of each archive: how far its call is
  missed        \* history: a notification fell between a predicate and its wait

vars == <<unlisted, list, main, at, archive, locker, processing, maxrequests, call, missed>>
reading == <<unlisted, list, main>>
limits == <<processing, maxrequests>>

Init ==
  /\ unlisted = Archives
  /\ list = <<>>
  /\ main = "list"
  /\ at = [r \in Readers |-> "take"]
  /\ archive = [r \in Readers |-> Nothing]
  /\ locker = Nobody
  /\ processing = 0
  /\ maxrequests = First
  /\ call = [a \in Archives |-> "none"]
  /\ missed = FALSE
-----------------------------------------------------------------------------
(* ListArchives and ReadArchives: the list, under archives::lock.          *)

\* archives::wait.notify_all, for the readers.
WakeReaders == at' = [r \in Readers |-> IF at[r] = "idle" THEN "take" ELSE at[r]]

List ==
  /\ main = "list"
  /\ Len(list) < ListLimit
  /\ \E a \in unlisted : unlisted' = unlisted \ {a} /\ list' = Append(list, a)
  /\ WakeReaders
  /\ UNCHANGED <<main, archive, locker, limits, call, missed>>

\* The list is full, or everything is listed.
ListWaits ==
  /\ main = "list"
  /\ \/ unlisted # {} /\ Len(list) >= ListLimit /\ main' = "full"
     \/ unlisted = {} /\ main' = "join"
  /\ UNCHANGED <<unlisted, list, at, archive, locker, limits, call, missed>>

Take(r) ==
  /\ at[r] = "take"
  /\ IF list = <<>>
       THEN at' = [at EXCEPT ![r] = "idle"] /\ UNCHANGED <<list, archive>>
       ELSE /\ at' = [at EXCEPT ![r] = "taken"]
            /\ archive' = [archive EXCEPT ![r] = Head(list)]
            /\ list' = Tail(list)
  /\ UNCHANGED <<unlisted, main, locker, limits, call, missed>>

\* The lock is free: archives::wait.notify_all.
NotifyTaken(r) ==
  /\ at[r] = "taken"
  /\ at' = [q \in Readers |-> IF q = r THEN "parse" ELSE IF at[q] = "idle" THEN "take" ELSE at[q]]
  /\ main' = IF main = "full" THEN "list" ELSE main
  /\ UNCHANGED <<unlisted, list, archive, locker, limits, call, missed>>

\* ParseArchive: its file, its entry and its text are there, or it is left.
ParseArchive(r) ==
  /\ at[r] = "parse"
  /\ \/ at' = [at EXCEPT ![r] = "index"] /\ UNCHANGED <<archive, call>>
     \/ /\ at' = [at EXCEPT ![r] = "take"]
        /\ call' = [call EXCEPT ![archive[r]] = "unreadable"]
        /\ archive' = [archive EXCEPT ![r] = Nothing]
  /\ UNCHANGED <<reading, locker, limits, missed>>
-----------------------------------------------------------------------------
(* IndexArchive, under requests::locker.                                   *)

Lock(r) ==
  /\ at[r] \in {"index", "woken"}
  /\ locker = Nobody
  /\ locker' = r
  /\ at' = [at EXCEPT ![r] = "test"]
  /\ UNCHANGED <<reading, archive, limits, call, missed>>

\* Broken variant of Test: one too many.
TestEqual(r) ==
  /\ at[r] = "test"
  /\ at' = [at EXCEPT ![r] = IF processing <= maxrequests THEN "send" ELSE "block"]
  /\ UNCHANGED <<reading, archive, locker, limits, call, missed>>

Test(r) ==
  /\ at[r] = "test"
  /\ at' = [at EXCEPT ![r] = IF processing < maxrequests THEN "send" ELSE "block"]
  /\ UNCHANGED <<reading, archive, locker, limits, call, missed>>

\* The wait itself: the mutex is left and the reader waits.
Block(r) ==
  /\ at[r] = "block"
  /\ locker' = Nobody
  /\ at' = [at EXCEPT ![r] = "waiting"]
  /\ UNCHANGED <<reading, archive, limits, call, missed>>

SpuriousWakeup(r) ==
  /\ at[r] = "waiting"
  /\ at' = [at EXCEPT ![r] = "woken"]
  /\ UNCHANGED <<reading, archive, locker, limits, call, missed>>

Insert(r) ==
  /\ at[r] = "send"
  /\ call' = [call EXCEPT ![archive[r]] = "sent"]
  /\ at' = [at EXCEPT ![r] = "count"]
  /\ UNCHANGED <<reading, archive, locker, limits, missed>>

\* The call is counted when its answer may have come already.
Count(r) ==
  /\ at[r] = "count"
  /\ processing' = processing + 1
  /\ locker' = Nobody
  /\ at' = [at EXCEPT ![r] = "take"]
  /\ archive' = [archive EXCEPT ![r] = Nothing]
  /\ UNCHANGED <<reading, maxrequests, call, missed>>
-----------------------------------------------------------------------------
(* The callback, in a thread of the HTTP client.                           *)

CountDown(a) ==
  /\ call[a] = "sent"
  /\ call' = [call EXCEPT ![a] = "back"]
  /\ processing' = processing - 1
  /\ UNCHANGED <<reading, at, archive, locker, maxrequests, missed>>

\* The client never calls it.
Lose(a) ==
  /\ call[a] = "sent"
  /\ call' = [call EXCEPT ![a] = "lost"]
  /\ UNCHANGED <<reading, at, archive, locker, limits, missed>>

\* Broken variant of NotifyOne: nobody is notified.
NotifyNone ==
  /\ UNCHANGED at
  /\ UNCHANGED missed

\* requests::waiter.notify_one, without its mutex.
NotifyOne ==
  /\ IF \E r \in Readers : at[r] = "waiting"
       THEN \E r \in Readers : at[r] = "waiting" /\ at' = [at EXCEPT ![r] = "woken"]
       ELSE UNCHANGED at
  /\ missed' = (missed \/ \E r \in Readers : at[r] = "block")

Lower == maxrequests' = Max({maxrequests - 1, Lowest})
Raise == maxrequests' = Min({maxrequests + 1, Highest})

\* After the notification nothing the sender reads is changed.
Finish(a) ==
  /\ call[a] = "back"
  /\ call' = [call EXCEPT ![a] = "done"]
  /\ NotifyOne
  /\ UNCHANGED <<reading, archive, locker, processing>>

RegisterTimeout(a) == Finish(a) /\ Lower

RegisterOK(a) ==
  /\ Finish(a)
  /\ \E elapse \in Elapsed :
       \/ elapse = "long" /\ Lower
       \/ elapse = "short" /\ Raise
       \/ elapse = "none" /\ UNCHANGED maxrequests

RegisterFault(a) == Finish(a) /\ UNCHANGED maxrequests

Main == List \/ ListWaits
Read(r) == Take(r) \/ NotifyTaken(r) \/ ParseArchive(r)
IndexArchive(r) == Lock(r) \/ Test(r) \/ Block(r) \/ Insert(r) \/ Count(r)
Callback(a) == CountDown(a) \/ RegisterTimeout(a) \/ RegisterOK(a) \/ RegisterFault(a)

Next ==
  \/ Main
  \/ \E r \in Readers : Read(r) \/ IndexArchive(r) \/ SpuriousWakeup(r)
  \/ \E a \in Archives : Callback(a) \/ Lose(a)

\* The threads of the program and of the client run; the mutex goes to each that
\* asks for it again and again.  Nobody has to wake without reason, nor is an
\* answer lost for ever.
Spec ==
  /\ Init /\ [][Next]_vars
  /\ WF_vars(Main)
  /\ \A r \in Readers : WF_vars(Read(r)) /\ SF_vars(IndexArchive(r))
  /\ \A a \in Archives : WF_vars(Callback(a))
-----------------------------------------------------------------------------
Places == {"take", "idle", "taken", "parse", "index", "test", "block", "waiting", "woken", "send", "count"}

\* Every variable has its type; a reader that holds an archive is on its way with
\* it, and the mutex belongs to one that is inside.
TypeOK ==
  /\ unlisted \subseteq Archives
  /\ list \in Seq(Archives)
  /\ main \in {"list", "full", "join"}
  /\ at \in [Readers -> Places]
  /\ archive \in [Readers -> Archives \cup {Nothing}]
  /\ locker \in Readers \cup {Nobody}
  /\ processing \in -1 .. Cardinality(Archives)
  /\ maxrequests \in Lowest .. Highest
  /\ call \in [Archives -> {"none", "unreadable", "sent", "back", "lost", "done"}]
  /\ missed \in BOOLEAN

InFlight == {a \in Archives : call[a] \in {"sent", "lost"}}

\* However the callbacks and the readers meet, no more calls are in flight than
\* the limit may be, although a call is counted only after it was sent and
\* callbacks count and change the limit without the mutex.
WithinLimit ==
  /\ Cardinality(InFlight) <= Highest
  /\ locker = Nobody => processing = Cardinality(InFlight)

\* A reader waits with no answer left to wake it only if a notification was missed
\* or an answer will never come.
Stuck ==
  /\ \E r \in Readers : at[r] = "waiting"
  /\ \A r \in Readers : at[r] \in {"waiting", "idle"}
  /\ \A a \in Archives : call[a] \notin {"sent", "back"}

Lost == \E a \in Archives : call[a] = "lost"

StuckOnlyIfMissed == Stuck => missed \/ Lost

\* Unless a notification was missed or an answer lost, every archive is sent and
\* answered or cannot be read; then every thread waits, and main for them, for ever:
\* nobody says that the list is done.
AllSentThenIdle ==
  <>(missed \/ Lost)
    \/ <>[](/\ main = "join" /\ \A r \in Readers : at[r] = "idle"
            /\ \A a \in Archives : call[a] \in {"done", "unreadable"})
=============================================================================

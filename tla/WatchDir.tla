----------------------------- MODULE WatchDir ------------------------------
(***************************************************************************)
(* The watcher of directories (src/watchFs/watchFs-nix.cpp): AddWatch, in  *)
(* the thread of the user and in the watcher's own, and DirWatch, which    *)
(* handles the events of inotify while others change the file system.      *)
(*                                                                         *)
(* A directory is the sequence of names that leads to it from the one the  *)
(* user watches.  The kernel's watches, their events and read are not in   *)
(* src/: a watch stays with its directory when that moves and goes with    *)
(* it, numbers are not used again, and the events queue up in order.       *)
(***************************************************************************)
EXTENDS Naturals, Sequences, FiniteSets, SequencesExt

CONSTANTS Names,        \* names of directories
          MaxDepth,     \* how deep they lie
          Trees,        \* the sets of directories the user may begin with
          Kinds,        \* what happens to files
          Ignored,      \* directories of ignoreIt
          Moves,        \* whether directories are moved
          QueueLimit,   \* events the kernel keeps for the watcher
          MaxChanges    \* how often others change the file system

ASSUME DepthAssumption == MaxDepth \in Nat
ASSUME KindsAssumption == Kinds \subseteq {"create", "modify", "delete"}
ASSUME MovesAssumption == Moves \in BOOLEAN
ASSUME QueueAssumption == QueueLimit \in Nat \ {0}
ASSUME ChangesAssumption == MaxChanges \in Nat

Root == <<>>
Paths == UNION {[1 .. n -> Names] : n \in 0 .. MaxDepth}
Parent(p) == Front(p)
ASSUME TreesAssumption ==
  \A S \in Trees : /\ S \subseteq Paths /\ Root \in S
                    /\ \A p \in S : \A q \in Paths : IsPrefix(q, p) => q \in S
ASSUME IgnoredAssumption == Ignored \subseteq Paths \ {Root}

Actors == {"user", "thread"}

VARIABLES
  dirs,         \* the directories there are
  wdOf,         \* the kernel's watches: the directory's number
  nextWd,       \* the next number
  queue,        \* events not handled
  watchSet,     \* watchSet: the directory of a number
  started,      \* whether a thread of DirWatch runs
  joinable,     \* whether watchThr is a thread
  ended,        \* a thread was assigned to watchThr where one was: std::terminate
  stack,        \* of each actor: its calls of AddWatch, innermost first
  removing,     \* the number DirWatch is about to erase, or 0
  changes,      \* changes so far
  moved,        \* history: directories that were moved where they are
  harmed,       \* history: directories that lost a subdirectory, or were created
                \* without room for the event, and those created in them since
  awaited,      \* history: directories, where they were, with files created and not
                \* reported, once AddWatch has returned
  report        \* history: the last report and the event it is of

watchVars == <<dirs, wdOf, nextWd, queue, watchSet, started, joinable, ended, stack,
               removing, changes, moved, harmed, awaited, report>>
fileSystem == <<dirs, changes, moved, harmed>>
starting == <<started, joinable, ended>>
watcher == <<watchSet, starting, stack, removing, report>>

NoReport == [said |-> <<>>, was |-> <<>>, stale |-> FALSE]
Call(p) == [at |-> "add", path |-> p, wd |-> 0, left |-> {}]

Under(p, S) == \E q \in S : IsPrefix(q, p)

WatchInit ==
  /\ dirs \in Trees
  /\ wdOf = <<>>
  /\ nextWd = 1
  /\ queue = <<>>
  /\ watchSet = <<>>
  /\ started = FALSE
  /\ joinable = FALSE
  /\ ended = FALSE
  /\ stack = [a \in Actors |-> IF a = "user" THEN <<Call(Root)>> ELSE <<>>]
  /\ removing = 0
  /\ changes = 0
  /\ moved = {}
  /\ harmed = {}
  /\ awaited = {}
  /\ report = NoReport

\* The watcher has done all it has to do.
Settled == queue = <<>> /\ removing = 0 /\ \A a \in Actors : stack[a] = <<>>
-----------------------------------------------------------------------------
(* Others change the file system, and the kernel queues the events.        *)

\* The watch of d has no room for another event.
Dropped(d) == d \in DOMAIN wdOf /\ Len(queue) >= QueueLimit

\* An event of what is in d, with the number that watches it; none without room
\* (DirWatch skips the event that says so, which has no name).
Event(d, kind, name) ==
  IF d \in DOMAIN wdOf /\ ~Dropped(d)
    THEN Append(queue, [wd |-> wdOf[d], kind |-> kind, name |-> name, dir |-> d,
                        stale |-> Under(d, moved)])
    ELSE queue

\* The watcher is told of what happens in d, and the user's AddWatch has returned.
Told(d) == stack["user"] = <<>> /\ d \in DOMAIN wdOf /\ ~Dropped(d)

Change == changes < MaxChanges /\ changes' = changes + 1

FileOp(d, kind) ==
  /\ Change
  /\ d \in dirs
  /\ queue' = Event(d, kind, "file")
  /\ awaited' = IF kind = "create" /\ (Settled \/ Told(d)) THEN awaited \cup {d} ELSE awaited
  /\ UNCHANGED <<dirs, wdOf, nextWd, watcher, moved, harmed>>

MakeDir(p) ==
  /\ Change
  /\ p \notin dirs
  /\ Parent(p) \in dirs
  /\ dirs' = dirs \cup {p}
  /\ queue' = Event(Parent(p), "mkdir", Last(p))
  /\ harmed' = IF Parent(p) \in harmed \/ Dropped(Parent(p)) THEN harmed \cup {p} ELSE harmed
  /\ UNCHANGED <<wdOf, nextWd, watcher, moved, awaited>>

\* The kernel's own watch of the directory goes too.
RemoveDir(p) ==
  /\ Change
  /\ p \in dirs \ {Root}
  /\ \A q \in dirs : q # Root => Parent(q) # p
  /\ dirs' = dirs \ {p}
  /\ wdOf' = [q \in DOMAIN wdOf \ {p} |-> wdOf[q]]
  /\ queue' = Event(Parent(p), "rmdir", Last(p))
  /\ moved' = moved \ {p}
  /\ harmed' = (harmed \ {p}) \cup {Parent(p)}
  /\ awaited' = awaited \ {p}
  /\ UNCHANGED <<nextWd, watcher>>

\* Where r is once p has become q.
MovedTo(p, q, r) == IF IsPrefix(p, r) THEN q \o SubSeq(r, Len(p) + 1, Len(r)) ELSE r

\* DirWatch does nothing about the two events of it, which are left out.
MoveDir(p, q) ==
  LET Moved(r) == MovedTo(p, q, r)
      Deep == \E r \in dirs : Len(Moved(r)) > MaxDepth
  IN  /\ Moves
      /\ Change
      /\ p \in dirs \ {Root}
      /\ q \notin dirs /\ ~IsPrefix(p, q) /\ Parent(q) \in dirs /\ ~Deep
      /\ dirs' = {Moved(r) : r \in dirs}
      /\ wdOf' = [s \in {Moved(r) : r \in DOMAIN wdOf} |->
                    wdOf[CHOOSE r \in DOMAIN wdOf : Moved(r) = s]]
      /\ moved' = {Moved(r) : r \in moved} \cup {q}
      /\ harmed' = {Moved(r) : r \in harmed}
      /\ awaited' = {d \in awaited : ~IsPrefix(p, d)}
      /\ queue' = [i \in DOMAIN queue |-> [queue[i] EXCEPT !.stale = @ \/ IsPrefix(p, queue[i].dir)]]
      /\ UNCHANGED <<nextWd, watcher>>
-----------------------------------------------------------------------------
(* AddWatch.                                                               *)

\* emplace of an unordered map, and what the kernel does for a directory: a
\* key that is there keeps its value.
Emplaced(map, key, value) ==
  [k \in DOMAIN map \cup {key} |-> IF k \in DOMAIN map THEN map[k] ELSE value]

Top(a) == Head(stack[a])
Stands(a, step) == stack[a] # <<>> /\ Top(a).at = step
At(a, step) == ~ended /\ Stands(a, step)
Goes(a, call) == stack' = [stack EXCEPT ![a] = <<call>> \o Tail(@)]
Returns(a) == stack' = [stack EXCEPT ![a] = Tail(@)]

\* A directory that is ignored, or not there any more, is not watched; one
\* that is watched keeps its number.
InotifyAddWatch(a) ==
  /\ At(a, "add")
  /\ LET p == Top(a).path IN
       IF p \in Ignored \/ p \notin dirs
         THEN /\ Returns(a)
              /\ UNCHANGED <<wdOf, nextWd>>
         ELSE /\ wdOf' = Emplaced(wdOf, p, nextWd)
              /\ nextWd' = IF p \in DOMAIN wdOf THEN nextWd ELSE nextWd + 1
              /\ Goes(a, [Top(a) EXCEPT !.at = "name", !.wd = wdOf'[p]])
  /\ UNCHANGED <<fileSystem, queue, watchSet, starting, removing, awaited, report>>

\* Broken variant of Emplace: named by the folder it lies in.
EmplaceFolder(a) ==
  /\ At(a, "name")
  /\ watchSet' = Emplaced(watchSet, Top(a).wd, IF Top(a).path = Root THEN Root ELSE Parent(Top(a).path))
  /\ Goes(a, [Top(a) EXCEPT !.at = "start"])
  /\ UNCHANGED <<fileSystem, wdOf, nextWd, queue, starting, removing, awaited, report>>

\* watchSet.emplace.
Emplace(a) ==
  /\ At(a, "name")
  /\ watchSet' = Emplaced(watchSet, Top(a).wd, Top(a).path)
  /\ Goes(a, [Top(a) EXCEPT !.at = "start"])
  /\ UNCHANGED <<fileSystem, wdOf, nextWd, queue, starting, removing, awaited, report>>

\* Broken variant of StartThread: whatever watchThr is.
StartThreadAnyhow(a) ==
  /\ At(a, "start")
  /\ IF started THEN ended' = TRUE /\ UNCHANGED <<started, stack>>
     ELSE started' = TRUE /\ Goes(a, [Top(a) EXCEPT !.at = "assign"]) /\ UNCHANGED ended
  /\ UNCHANGED <<fileSystem, wdOf, nextWd, queue, watchSet, joinable, removing, awaited, report>>

\* watchThr, tested without a lock.  The thread runs before it is assigned; of two
\* assignments the later one ends the process, and what the second thread does
\* until then is left out.
StartThread(a) ==
  /\ At(a, "start")
  /\ \/ joinable /\ Goes(a, [Top(a) EXCEPT !.at = "open"]) /\ UNCHANGED <<started, ended>>
     \/ /\ ~joinable /\ ~started
        /\ started' = TRUE
        /\ Goes(a, [Top(a) EXCEPT !.at = "assign"])
        /\ UNCHANGED ended
     \/ ~joinable /\ started /\ ended' = TRUE /\ UNCHANGED <<started, stack>>
  /\ UNCHANGED <<fileSystem, wdOf, nextWd, queue, watchSet, joinable, removing, awaited, report>>

Assign(a) ==
  /\ At(a, "assign")
  /\ joinable' = TRUE
  /\ Goes(a, [Top(a) EXCEPT !.at = "open"])
  /\ UNCHANGED <<fileSystem, wdOf, nextWd, queue, watchSet, started, ended, removing, awaited, report>>

Subdirectories(p) == {Last(q) : q \in {r \in dirs \ {Root} : Parent(r) = p}}

\* Broken variant of OpenDir: only the directory itself is watched.
OpenDirOnly(a) ==
  /\ At(a, "open")
  /\ Returns(a)
  /\ UNCHANGED <<fileSystem, wdOf, nextWd, queue, watchSet, starting, removing, awaited, report>>

OpenDir(a) ==
  /\ At(a, "open")
  /\ IF Top(a).path \in dirs
       THEN Goes(a, [Top(a) EXCEPT !.at = "list", !.left = Subdirectories(Top(a).path)])
       ELSE Returns(a)
  /\ UNCHANGED <<fileSystem, wdOf, nextWd, queue, watchSet, starting, removing, awaited, report>>

ListDir(a) ==
  /\ At(a, "list")
  /\ \/ /\ Top(a).left = {}
        /\ Returns(a)
     \/ \E n \in Top(a).left :
          stack' = [stack EXCEPT ![a] =
                      <<Call(Top(a).path \o <<n>>), [Top(a) EXCEPT !.left = @ \ {n}]>> \o Tail(@)]
  /\ UNCHANGED <<fileSystem, wdOf, nextWd, queue, watchSet, starting, removing, awaited, report>>
-----------------------------------------------------------------------------
(* DirWatch.                                                               *)

Ready == started /\ ~ended /\ stack["thread"] = <<>> /\ removing = 0 /\ queue # <<>>

\* Nobody has named the number, or its name is gone.
SkipEvent ==
  /\ Ready
  /\ Head(queue).wd \notin DOMAIN watchSet
  /\ queue' = Tail(queue)
  /\ UNCHANGED <<fileSystem, wdOf, nextWd, watcher, awaited>>

Notify ==
  /\ Ready
  /\ LET e == Head(queue) IN
       /\ e.kind \in Kinds
       /\ e.wd \in DOMAIN watchSet
       /\ report' = [said |-> <<e.kind, watchSet[e.wd]>>, was |-> <<e.kind, e.dir>>,
                     stale |-> e.stale]
       /\ awaited' = IF e.kind = "create" THEN awaited \ {e.dir} ELSE awaited
  /\ queue' = Tail(queue)
  /\ UNCHANGED <<fileSystem, wdOf, nextWd, watchSet, starting, stack, removing>>

DirCreated ==
  /\ Ready
  /\ LET e == Head(queue) IN
       /\ e.kind = "mkdir"
       /\ e.wd \in DOMAIN watchSet
       /\ stack' = [stack EXCEPT !["thread"] = <<Call(Append(watchSet[e.wd], e.name))>>]
  /\ queue' = Tail(queue)
  /\ UNCHANGED <<fileSystem, wdOf, nextWd, watchSet, starting, removing, awaited, report>>

\* inotify_rm_watch of the number the event came by: the directory that had
\* the one removed.
DirRemoved ==
  /\ Ready
  /\ LET e == Head(queue) IN
       /\ e.kind = "rmdir"
       /\ e.wd \in DOMAIN watchSet
       /\ wdOf' = [q \in {r \in DOMAIN wdOf : wdOf[r] # e.wd} |-> wdOf[q]]
       /\ removing' = e.wd
  /\ queue' = Tail(queue)
  /\ UNCHANGED <<fileSystem, nextWd, watchSet, starting, stack, awaited, report>>

\* Broken variant of Erase: the event that comes next is skipped with it.
EraseAndSkip ==
  /\ ~ended /\ removing # 0
  /\ watchSet' = [w \in DOMAIN watchSet \ {removing} |-> watchSet[w]]
  /\ removing' = 0
  /\ queue' = IF queue = <<>> THEN queue ELSE Tail(queue)
  /\ UNCHANGED <<fileSystem, wdOf, nextWd, starting, stack, awaited, report>>

Erase ==
  /\ ~ended /\ removing # 0
  /\ watchSet' = [w \in DOMAIN watchSet \ {removing} |-> watchSet[w]]
  /\ removing' = 0
  /\ UNCHANGED <<fileSystem, wdOf, nextWd, queue, starting, stack, awaited, report>>

AddWatch(a) ==
  InotifyAddWatch(a) \/ Emplace(a) \/ StartThread(a) \/ Assign(a) \/ OpenDir(a) \/ ListDir(a)

WatchNext ==
  \/ \E d \in Paths : \E kind \in Kinds : FileOp(d, kind)
  \/ \E p \in Paths \ {Root} : MakeDir(p) \/ RemoveDir(p)
  \/ \E p, q \in Paths \ {Root} : MoveDir(p, q)
  \/ \E a \in Actors : AddWatch(a)
  \/ SkipEvent \/ Notify \/ DirCreated \/ DirRemoved \/ Erase

WatchSpec == WatchInit /\ [][WatchNext]_watchVars
-----------------------------------------------------------------------------
\* Every variable has its type; no two watches have one number, no ignored
\* directory has one, and the queue keeps its limit.
WatchTypeOK ==
  /\ dirs \subseteq Paths
  /\ DOMAIN wdOf \subseteq dirs
  /\ \A p, q \in DOMAIN wdOf : wdOf[p] = wdOf[q] => p = q
  /\ \A p \in DOMAIN wdOf : wdOf[p] \in 1 .. nextWd - 1 /\ (p \in Ignored => Under(p, moved))
  /\ DOMAIN watchSet \subseteq 1 .. nextWd - 1
  /\ \A w \in DOMAIN watchSet : watchSet[w] \in Paths
  /\ {started, joinable, ended} \subseteq BOOLEAN /\ (joinable => started)
  /\ Len(queue) <= QueueLimit
  /\ removing \in 0 .. nextWd - 1
  /\ changes \in 0 .. MaxChanges
  /\ moved \subseteq Paths /\ harmed \subseteq Paths /\ awaited \subseteq Paths

\* Whenever the watcher has nothing left to do, every directory is watched
\* under its own name, those created while it was looking at their parents
\* included; but for directories that were moved, that lost a subdirectory,
\* that the kernel had no room to tell of, or that were created in one of the last two.
SettledIsWatched ==
  Settled => \A p \in dirs \ harmed :
    Under(p, moved) \/ Under(p, Ignored)
      \/ (p \in DOMAIN wdOf /\ wdOf[p] \in DOMAIN watchSet /\ watchSet[wdOf[p]] = p)

\* A second thread is started, and the process ended by it, only while the thread just
\* started meets the event of a new directory before AddWatch has stored it: never
\* once the first AddWatch has gone past that, however many directories come.
OneThread == ended => Stands("user", "assign") /\ Top("user").path = Root

\* A report tells what happened and where, unless the directory, or one above
\* it, was moved before the report.
ReportsAreTrue == ~report.stale => report.said = report.was

\* A file created after AddWatch returned is reported, whatever events are before
\* it and whatever is made, moved or removed meanwhile; but in a directory that is
\* ignored, was moved or is not watched for the reasons SettledIsWatched gives.
CreatedIsReported ==
  Settled => \A d \in awaited : d \in harmed \/ Under(d, moved) \/ Under(d, Ignored)

\* "file creation causes WatchDir::create_file": once the watcher has nothing
\* left to do, files created after AddWatch returned were reported.
CreationReported == Settled => awaited = {}
=============================================================================

--------------------------- MODULE ParallelSearch ---------------------------
(***************************************************************************)
(* How a collector shares one query between the threads of a pool and      *)
(* waits for them (src/service/collect-docs.cpp, Documents::impl::Search). *)
(* The caller cuts the index into sections, gives the pool an action for   *)
(* each and waits on cvWait; an action searches its section, merges what   *)
(* it found (module CollectorMerge: one step here), and the one that takes *)
(* nParts to zero notifies.  The wait has no predicate, and the actions    *)
(* notify without holding mxWait.  What an action uses lives no longer     *)
(* than the call: nParts and cvWait are gone when Search of the collector  *)
(* returns, the collector itself when Search of the service goes on to its *)
(* end (src/service/structo-search.cpp), and the pool, declared before the *)
(* collector, is the last to go.                                           *)
(*                                                                         *)
(* Part p is the section of the indices p * Section .. (p + 1) * Section-1.*)
(***************************************************************************)
EXTENDS Integers, Sequences, FiniteSets

CONSTANTS Section,      \* max_thread_section
          MaxBound,     \* the greatest LastIndex of a query
          HitSets,      \* the sets of documents a query may match
          nThreads,     \* the threads of the pool
          Spurious      \* whether cvWait may wake without a notification

ASSUME SectionAssumption == Section \in Nat \ {0}
ASSUME BoundAssumption == MaxBound \in Nat
ASSUME HitsAssumption == \A S \in HitSets : S \subseteq Nat
ASSUME ThreadsAssumption == nThreads \in Nat \ {0}
ASSUME SpuriousAssumption == Spurious \in BOOLEAN

Parts == 0 .. MaxBound - 1

VARIABLES
  rBound,    \* query->LastIndex()
  hits,      \* the documents that match the query
  caller,    \* where the thread in Search is
  nloops,    \* the part uLower stands for: uLower = nloops * Section
  nParts,    \* actions not yet counted off
  part,      \* of each part: where the action that searches it is
  queue,     \* the actions the pool has not started, oldest first
  given,     \* the documents the common collector was given
  early      \* history: the wait was, or may be, ended ahead of the last action

vars == <<rBound, hits, caller, nloops, nParts, part, queue, given, early>>

InSection(p) == {d \in hits : d >= p * Section /\ d < (p + 1) * Section}

\* The threads of the pool that are not free: what an action does that used
\* what is gone, nobody can say; its thread is not counted on.
Running == {p \in Parts : part[p] \in {"search", "merge", "count", "notify", "undefined"}}

\* Search of the collector is over, and its locals with it.
FrameGone == caller \in {"returned", "released", "left"}

CollectorGone == caller \in {"released", "left"}

Init ==
  /\ rBound \in 0 .. MaxBound
  /\ hits \in {S \in HitSets : \A d \in S : d < rBound}
  /\ caller = "start"
  /\ nloops = 0
  /\ nParts = 0
  /\ part = [p \in Parts |-> "none"]
  /\ queue = <<>>
  /\ given = {}
  /\ early = FALSE
-----------------------------------------------------------------------------
(* The thread that called Search.                                          *)

\* A short index is searched by the caller itself.
SearchLinear ==
  /\ caller = "start"
  /\ rBound <= 4 * Section
  /\ given' = hits
  /\ caller' = "returned"
  /\ UNCHANGED <<rBound, hits, nloops, nParts, part, queue, early>>

Share ==
  /\ caller = "start"
  /\ rBound > 4 * Section
  /\ caller' = "loop"
  /\ UNCHANGED <<rBound, hits, nloops, nParts, part, queue, given, early>>

\* Duplicate may give no query for a section without matches.
SkipPart ==
  /\ caller = "loop"
  /\ nloops * Section < rBound
  /\ InSection(nloops) = {}
  /\ nloops' = nloops + 1
  /\ UNCHANGED <<rBound, hits, caller, nParts, part, queue, given, early>>

\* One more is counted while an action that saw zero is about to notify.
CountPart ==
  /\ caller = "loop"
  /\ nloops * Section < rBound
  /\ nParts' = nParts + 1
  /\ part' = [part EXCEPT ![nloops] = "counted"]
  /\ caller' = "insert"
  /\ early' = (early \/ \E p \in Parts : part[p] = "notify")
  /\ UNCHANGED <<rBound, hits, nloops, queue, given>>

\* async->Insert
Enqueue ==
  /\ caller = "insert"
  /\ queue' = Append(queue, nloops)
  /\ part' = [part EXCEPT ![nloops] = "queued"]
  /\ nloops' = nloops + 1
  /\ caller' = "loop"
  /\ UNCHANGED <<rBound, hits, nParts, given, early>>

\* Broken variant of Wait: the loop leaves out a last section cut short.
WaitShort ==
  /\ caller = "loop"
  /\ (nloops + 1) * Section > rBound
  /\ caller' = "waiting"
  /\ UNCHANGED <<rBound, hits, nloops, nParts, part, queue, given, early>>

\* The loop is over: cvWait.wait releases mxWait and waits at once.
Wait ==
  /\ caller = "loop"
  /\ nloops * Section >= rBound
  /\ caller' = "waiting"
  /\ UNCHANGED <<rBound, hits, nloops, nParts, part, queue, given, early>>

SpuriousWakeup ==
  /\ Spurious
  /\ caller = "waiting"
  /\ caller' = "woken"
  /\ early' = TRUE
  /\ UNCHANGED <<rBound, hits, nloops, nParts, part, queue, given>>

\* wait takes mxWait back, which nobody else takes, and Search returns.
Return ==
  /\ caller = "woken"
  /\ caller' = "returned"
  /\ UNCHANGED <<rBound, hits, nloops, nParts, part, queue, given, early>>

\* StructoSearch::Search has its report from Finish: the collector goes.
Release ==
  /\ caller = "returned"
  /\ caller' = "released"
  /\ UNCHANGED <<rBound, hits, nloops, nParts, part, queue, given, early>>

\* Then the pool: its threads end what they run, and what none of them has
\* started is dropped.  (mtc::ThreadPool; it may as well start all of it.)
Leave ==
  /\ caller = "released"
  /\ Running = {}
  /\ caller' = "left"
  /\ queue' = <<>>
  /\ part' = [p \in Parts |-> IF part[p] = "queued" THEN "dropped" ELSE part[p]]
  /\ UNCHANGED <<rBound, hits, nloops, nParts, given, early>>
-----------------------------------------------------------------------------
(* An action in a thread of the pool.                                      *)

Start(p) ==
  /\ queue # <<>> /\ p = Head(queue)
  /\ Cardinality(Running) < nThreads
  /\ queue' = Tail(queue)
  /\ part' = [part EXCEPT ![p] = "search"]
  /\ UNCHANGED <<rBound, hits, caller, nloops, nParts, given, early>>

\* Broken variant of SearchPart: what the action found is not merged.
SearchPartUnmerged(p) ==
  /\ part[p] = "search"
  /\ part' = [part EXCEPT ![p] = "count"]
  /\ UNCHANGED <<rBound, hits, caller, nloops, nParts, queue, given, early>>

\* Nothing found: nothing to merge.
SearchPart(p) ==
  /\ part[p] = "search"
  /\ part' = [part EXCEPT ![p] = IF InSection(p) = {} THEN "count" ELSE "merge"]
  /\ UNCHANGED <<rBound, hits, caller, nloops, nParts, queue, given, early>>

Merge(p) ==
  /\ part[p] = "merge"
  /\ ~CollectorGone
  /\ given' = given \cup InSection(p)
  /\ part' = [part EXCEPT ![p] = "count"]
  /\ UNCHANGED <<rBound, hits, caller, nloops, nParts, queue, early>>

\* Broken variant of CountOff: nParts-- == 0 in place of --nParts == 0.
CountOffLate(p) ==
  /\ part[p] = "count"
  /\ ~FrameGone
  /\ nParts' = nParts - 1
  /\ part' = [part EXCEPT ![p] = IF nParts = 0 THEN "notify" ELSE "done"]
  /\ UNCHANGED <<rBound, hits, caller, nloops, queue, given, early>>

\* Broken variant of CountOff: every action notifies.
CountOffAlways(p) ==
  /\ part[p] = "count"
  /\ ~FrameGone
  /\ nParts' = nParts - 1
  /\ part' = [part EXCEPT ![p] = "notify"]
  /\ UNCHANGED <<rBound, hits, caller, nloops, queue, given, early>>

\* --nParts; only the action that takes it to zero notifies.
CountOff(p) ==
  /\ part[p] = "count"
  /\ ~FrameGone
  /\ nParts' = nParts - 1
  /\ part' = [part EXCEPT ![p] = IF nParts = 1 THEN "notify" ELSE "done"]
  /\ UNCHANGED <<rBound, hits, caller, nloops, queue, given, early>>

\* The action uses a collector, a counter or a condition that is gone: it
\* may seem to end in order, with nothing merged, or do anything else.
UseDead(p) ==
  /\ \/ part[p] = "merge" /\ CollectorGone
     \/ part[p] \in {"count", "notify"} /\ FrameGone
  /\ \E next \in {"done", "undefined"} : part' = [part EXCEPT ![p] = next]
  /\ UNCHANGED <<rBound, hits, caller, nloops, nParts, queue, given, early>>

\* cvWait.notify_all: lost unless the caller waits already.
Notify(p) ==
  /\ part[p] = "notify"
  /\ ~FrameGone
  /\ caller' = IF caller = "waiting" THEN "woken" ELSE caller
  /\ part' = [part EXCEPT ![p] = "done"]
  /\ UNCHANGED <<rBound, hits, nloops, nParts, queue, given, early>>

Caller ==
  \/ SearchLinear
  \/ Share
  \/ SkipPart
  \/ CountPart
  \/ Enqueue
  \/ Wait
  \/ Return
  \/ Release
  \/ Leave

Action(p) ==
  \/ Start(p)
  \/ SearchPart(p)
  \/ Merge(p)
  \/ CountOff(p)
  \/ UseDead(p)
  \/ Notify(p)

Next ==
  \/ Caller
  \/ SpuriousWakeup
  \/ \E p \in Parts : Action(p)

Spec == Init /\ [][Next]_vars

\* The caller and every thread of the pool go on while they can.
FairSpec == Spec /\ WF_vars(Caller) /\ \A p \in Parts : WF_vars(Action(p))
-----------------------------------------------------------------------------
Outstanding == {p \in Parts : part[p] \in {"counted", "queued", "search", "merge", "count"}}

TypeOK ==
  /\ rBound \in 0 .. MaxBound
  /\ hits \subseteq Nat
  /\ caller \in {"start", "loop", "insert", "waiting", "woken", "returned", "released", "left"}
  /\ nloops \in 0 .. MaxBound
  /\ nParts \in Nat
  /\ part \in [Parts -> {"none", "counted", "queued", "search", "merge", "count",
                         "notify", "done", "undefined", "dropped"}]
  /\ queue \in Seq(Parts)
  /\ given \subseteq hits
  /\ early \in BOOLEAN

(***************************************************************************)
(* As long as Search has not returned, nParts is the number of actions     *)
(* that still have to merge or to count themselves off.                    *)
(***************************************************************************)
PartsCounted == ~FrameGone => nParts = Cardinality(Outstanding)

(***************************************************************************)
(* After the loop zero means what the author of Search takes it to mean:   *)
(* the sections cover the index and everything in them is merged, so that  *)
(* a wait for nParts = 0 would be enough.                                  *)
(***************************************************************************)
ZeroMeansMerged == caller \in {"waiting", "woken"} /\ nParts = 0 => given = hits

(***************************************************************************)
(* Two things, and nothing else, make Search return too soon: a part that  *)
(* is counted while an earlier zero is still to be notified, and a wakeup  *)
(* out of nothing.  Without them, from the moment Search returns, every    *)
(* match is merged and no action is left that could touch the collector,   *)
(* the counter or the condition, which go one after the other.             *)
(***************************************************************************)
NoneOutlivesSearch ==
  FrameGone /\ ~early => given = hits /\ \A p \in Parts : part[p] \in {"none", "done"}

(***************************************************************************)
(* Caught waiting before the last action counts itself off, Search is      *)
(* woken: by that action or by an earlier one that saw zero.               *)
(***************************************************************************)
WaitingIsWoken == caller = "waiting" /\ nParts > 0 ~> caller = "returned"

(***************************************************************************)
(* Every action given to the pool comes to its end, and what its section   *)
(* holds to the collector, unless Search was let go early: then the action *)
(* may find the collector and the counter gone, or never be started.       *)
(***************************************************************************)
ActionsEnd ==
  \A p \in Parts :
    part[p] = "queued" ~> \/ part[p] = "done" /\ InSection(p) \subseteq given
                          \/ early /\ FrameGone

(***************************************************************************)
(* "wait until the execution finished": once Search has returned, every    *)
(* match of the query was given to the collector.                          *)
(***************************************************************************)
WaitsUntilFinished == caller = "returned" => given = hits

(***************************************************************************)
(* "wait until the execution finished": when it has, Search returns.       *)
(***************************************************************************)
SearchReturns == <>(caller = "returned")
=============================================================================

# palmira in TLA+

TLA+ modules, TLC configurations and TLAPS proofs for palmira, a full-text
search service in C++ (`src/`): an index of documents with marked-up fields
behind an HTTP or gRPC interface, clients for both, a watcher of directories,
and the programs that fill an index. Paths below are those of the repository.

`PROJECT.json` lists the components, the runs, the hazards the properties are
for, which source lines every definition stands for (`map`), and the broken
variant each property was seen to catch (`mutants`; the operators commented
"Broken variant of").

## 1. The system

| component | state | operations | works with |
|---|---|---|---|
| **Document collector** `src/service/collect-docs.cpp`, `collect-quotes.cpp` | buffer of the best matches, cached worst, store of abstracts, count | linear search, search shared between threads, merge, report | queries and index (structo), thread pool (mtc) |
| **Search service** `src/service/structo-search.cpp`, `structo-create.cpp` | `fieldMan` (names to numbers of fields), flag `modified`, the index | Insert, Update, Remove, Search, Commit, start, last Detach | called by every thread of a server; saves `fieldMan` in its own index |
| **Program** `src/palmira.cpp`, `src/netServer.cpp` | `signalFunc`, main's references | configuration, start, wait, signals, exit | service and one server |
| **HTTP server** `src/network/http/server.cpp` | `finish`, `cvwait`, its threads | Start, Stop, Wait, ActionCall | service; remottp's `http::Server` |
| **gRPC server** `src/network/grpc/server.cpp` | `waiter`, reference count | Start, Stop (empty), Wait, Change, Detach | service; grpc |
| **HTTP client** `src/network/http/client.cpp` | `globalClient` of the process; a `Waiter` per call | SetAddress, calls, Done, Wait | remottp's `http::Client` |
| **gRPC client** `src/network/grpc/client.cpp` | a `Waiter` per call | calls, Done, Wait | grpc's callback API |
| **Immediate answers** `src/toolset/toolset.cpp` | the answer | Wait | service |
| **Messages and loaders** `grpc/messages.cpp`, `http/jsload.cpp`, `zmload.cpp`, `unpack.cpp`, `toolset/z-arguments.cpp` | none | conversions of arguments and reports | clients and servers |
| **Directory watcher** `src/watchFs/watchFs-nix.cpp` (`-win.cpp`) | watches, their directories, a thread | AddWatch, events, destructor | inotify |
| **Local indexer** `utils/libruseq/local-indexer.cpp` | two bounded queues, `noMoreFiles`, `canContinue` | list, parse, index, end | service, in the same process |
| **Sender** `utils/libruseq/sender.cpp` | list of archives, requests in flight and their limit | list, read, send, callbacks | HTTP client |
| **k2** `src/k2.cpp`, objects, readers, plugins, trial programs, web pages | little or none | | |

How they interact. A signal or `main` ends a server; a server's threads call the
service and wait on the pending answer (`IPending`); the service searches with a
collector, which hands actions to a pool of threads and shares locals with
them; what a document's field numbers mean is in `fieldMan`, saved in the same
index only by Commit; Commit is called by main after `Wait` and by the last
reference to the service. A client's callback runs in a thread of the network
library and meets the caller on a mutex and a condition variable.

What is hard, and the properties that make it correct:

- **collector**: the best matches are kept whatever the order of arrival, the
  cached worst is never stale, abstracts stay with their documents, merging in
  any order of threads gives the same promise, Search waits for its actions; the copy
  of an abstract keeps the best there is room for;
- **service**: numbers stored in documents still mean their fields after
  configuration changes, crashes and restarts; Commit runs unlocked beside
  calls; what was answered is on the disk after an orderly exit;
- **program, servers**: a signal at any moment, in any thread; notifications
  without the mutex; the last Commit after the last call;
- **clients**: answers, time-outs, notify functions and several waits in any
  order; one shared HTTP client;
- **local indexer**: the end of the work found by two queues separately;
- **watcher**: a watch for every directory, met while it is being made, moved or
  removed; no event misattributed;
- **messages**: what the service is called with is what was asked, and the report
  that comes back is the service's, whatever is cut, lost or late on the way;
- **sender**: no more requests in flight than the limit, although answers are
  counted without the mutex; no reader left waiting for an answer.

## 2. The modules

`EXTENDS` in parentheses; MC modules only give constants their values.

| module | what it is |
|---|---|
| `DocOrder` | the order of documents: weight, the caller's `Differ`, ties by a 32-bit difference (`Half` is 2^31) |
| `Abstracts` | the store of abstracts as operators on a sequence: `CanSet`, `Set`, `Get` |
| `Quotes` | `CopyAbstract` as an operator (its loops are recursive functions), with the best copies it should make of an abstract |
| `TopK` | **abstract**: of all documents given so far a collector keeps the best K |
| `Collector` (`DocOrder`, `Abstracts`, `Quotes`) | the linear search with its buffer, and `Finish`; implements `TopK` |
| `CollectorMerge` (`DocOrder`, `Abstracts`) | partial collectors merged into one, document by document under `mxLock`; implements `TopK` |
| `ParallelSearch` | the caller of Search, the pool and its actions, `nParts`, `cvWait`, and how long what the actions use lives |
| `Service` | calls of threads, the steps of Commit, the index in memory and on the disk, exits, crashes, restarts |
| `Promise` | **abstract**: what a pending answer promises (`IPending`) |
| `Client` | both clients' calls and `Waiter`s; implements `Promise` |
| `Wire` | arguments and reports through the gRPC messages, the HTTP client's requests and the server's loaders, as operators; a map is the function from the paths of its leaves to typed values |
| `Remote` (`Client`, `Wire`) | a call from one end to the other: the clients, the handlers `ActionCall` and `Change`, the service behind them, the reply and what may be left of it |
| `Program` | main, signal handlers and the threads of a server, from configuration to exit |
| `LocalIndexer` | the listing thread, parsers and indexers over two bounded queues |
| `Sender` | main, readers and callbacks over the list of archives, the mutex and the limit of requests |
| `WatchDir` | AddWatch in the user's thread and in the watcher's, DirWatch, the kernel's watches and queue, directories that change meanwhile, the start of the thread |
| `DocOrderProofs`, `CollectorProofs`, `CollectorMergeProofs`, `ParallelSearchProofs`, `SenderProofs` | theorems about the module of that name |
| `ServiceProofs` | theorems about `Service` and `Program` |
| `RemoteProofs` | theorems about `Wire`, `Client` and `Remote` |
| `LocalFilesProofs` | theorems about `LocalIndexer` and `WatchDir` |

The search of the service is split over three modules at the points where its
data is handed over: `Collector` has one thread's search in full;
`CollectorMerge` takes such a search as one step (`Collects` says what it leaves;
that `Collector` leaves just this is theorem `SearchIsAPart`) and has the merge in full;
`ParallelSearch` takes a merge as one step and has the hand-over of the actions
and the wait. `Program` says in which order exit, signals and calls come and
`Service` what the exit does to the data; `Service` takes requests in every stage in which
`Program` accepts them, main's Commit included.

`Remote` composes a client with a server: every action of `Client` is taken
together with what it does to the request in progress (`asked`), to the call of
the service made for it (`served`) and to its reply. A page or another program
may call the server as well; its requests are not made by the client, so that the
server's loaders see what the clients never send.

Correspondence. A variable has the name of the member or local it stands for
(`buffer`, `pWorst`, `quoBox`, `nParts`, `fieldMan`, `modified`, `globalClient`,
`finish`, `noMoreFiles`, ...); `pc`, `caller`, `main`, `at`, `stage` say where a thread or
the program is; variables marked "history" are read by properties only. An
action is the code between two points where another thread can be seen: a
critical section is one action, code without a lock is one action per access to
shared state. A wait on a condition variable is a state of its own, entered
atomically with the release of the mutex and left by a notification or a
spurious wakeup.

Not in the repository, and modelled only from its use (`external` in `map`): the
index and the fields manager of structo, the pool of mtc, `http::Server`,
`http::Client`, grpc, the operating system's crashes, inotify and the programs that change
the file system.

## 3. The runs

`tlc -config <cfg> <module>`.

- **collector** (`MCCollector`): a page of two documents from rank 2, so a buffer of
  three; five documents, two weights; others remove documents meanwhile.
  `BestKept`, `WorstIsCurrent`, `QuotesFollow`, `StoreNeverOverflows`, `ReportIsPage`,
  `ImplementsTopK`. Five documents over three places pass every boundary: room,
  exactly full, replaced twice, equal weights on both sides of the cut.
  `CopiesAreBest`: abstracts of none to four entry sets in every order of the text,
  of every weight, with one position or two, copied where there is room for two
  sets and three positions: room, exactly full, replaced twice, positions cut.
  Its `WindowIsNeeded` shows that identifiers further apart than half the words
  have no order (theorem `OrderTurnsRound`, for words of any size).
- **collector_merge** (`MCCollectorMerge`): sections of three, two and one
  documents, collectors of two: a part drops a document of its own, the common
  buffer fills, overflows and breaks. `MergedBest`, `QuotesFollow`, `CountsAll`,
  `EveryPartMerged`, `ImplementsTopK`. The check of the promise at every step is what
  tells a lost document from one that belongs out.
- **parallel_search** (`MCParallelSearch`): five sections of two indices, two
  threads, matches nowhere, in the first and last section, everywhere, in one;
  spurious wakeups; then the end of Search, of the collector and of the pool.
  `ZeroMeansMerged`: with the loop over, a counter
  of zero means every match is merged, so waiting for it would be right.
  `NoneOutlivesSearch`: with the wait that is there, an action outlives what it uses only
  by an early zero or a wakeup out of nothing. `WaitingIsWoken`, `ActionsEnd` say what else
  that wait can rely on.
- **search_returns_early**, **search_hangs** (same module, violations): the
  comment `collect-docs.cpp:161`, "wait until the execution finished", is not what
  the wait does. Without any spurious wakeup it returns before sections are
  merged (an action that takes `nParts` to zero while the loop still shares
  notifies too), and it waits for ever when the last notification came before it.
- **service** (`MCService`, 790 thousand distinct states): two threads, two documents,
  two field names, one value of metadata (a document's content never matters to what
  its number means), configurations of at most one field, two starts, symmetric threads,
  documents and names. Two starts are one change of configuration, crash or exit
  between them; two threads are an Insert beside a Commit beside another call; they
  interleave in the first run of the program, and call one at a time in the second (`OneAtATime`).
  `ReadAsStored`, `MappedAtExit`, `AnsweredIsDurable`, `NumbersAreForEver`.
- **client** (`MCClient`, over `Remote`): either client, two threads connecting at once, two
  calls of Wait each with no time, zero or some time, every kind of notify function
  (none, one that returns, one that waits itself). The requests are one of each call
  of the client (metadata that fit, that do not, nested; texts with tags and
  encodings; conditions; an empty identifier), the page's also a search and contents
  no client makes; bodies compressed or not, whole or cut; the service answers,
  refuses or throws; a reply comes whole, cut or never. `ServedAsSent`,
  `ReportIsTheServices`, `OneGlobalClient`, `NotifiedFirst`, `ImplementsPromise`,
  `WaitersReturn`.
- **program** (`MCProgram`): every configuration of the server, two signals, in main
  or elsewhere, two threads of the server, whose calls end or hang. `LastCommitIsLast`, `HangsOnlyIfMissed`,
  `SignalEnds`. The second signal is the one that may rescue or end a program whose
  first one was missed.
- **local_indexer** (`MCLocalIndexer`, 266 thousand): two parsers, one indexer and main; queues
  of one place; archives of three, one and no texts, any of which may fail, be refused by
  Insert, or end the process by what Insert throws.
  `TextsOnce`, `AllIndexedUnlessLate`, `EndsUnlessLate`. The code's limits are 256 and 16: what
  matters is an archive with more texts than the queue takes.
- **sender** (`MCSender`, 272 thousand): two readers and main, four archives, a list of one
  place, a limit of one to two requests; a report tells no time, a short or a long
  one, or the call fails, times out or is never answered. `WithinLimit`,
  `StuckOnlyIfMissed`, `AllSentThenIdle`. Two readers are one about to wait beside one
  that sends; four archives let the limit fall and rise again with calls in flight.
- **watch_dir** (`MCWatchDir`, 432 thousand): two names, directories up to two deep, one of
  them ignored, three changes by others (files created and deleted, directories made,
  removed and moved) at any step of the two walks, a queue of two events.
  `SettledIsWatched`, `CreatedIsReported`, `ReportsAreTrue`, `OneThread`. Three changes are a directory made, one
  made in it while the first is being listed, and its move or removal, and one more than
  the queue holds; depth two is a directory both above and below another.
- **watch_dir_creation** (same module, violation): "file creation causes WatchDir::create_file"
  (`src/utils/k2-local/tests/test-watch-fs.cpp:43`) fails in a directory that lost a subdirectory.

### What they show of the code

Properties that name an exception state it because the code has it:

- `NoneOutlivesSearch`, `ActionsEnd`: an action that takes `nParts` to zero while the loop still
  shares, or a spurious wakeup, lets Search return with actions to come. These may find
  the counter and the condition gone, then the collector, while the pool still
  waits for them (`structo-search.cpp:311-327`); what such an action does is anything
  (`UseDead`: it seems to end, or its thread is not counted on), and an action not started may be dropped.
  Without the two causes nothing is left to happen when Search returns.
- `MappedAtExit` holds but for a change flagged between Commit's `SaveFields` and its
  `modified = false`: that one's fields may never be saved. `ReadAsStored` holds but
  for documents that reached the disk before their mapping when the program
  crashed (`lost`).
- `AnsweredIsDurable`, `MappedAtExit` hold although main may commit beside a server that takes requests: a
  signal after `signalFunc` is set and before `Start` (`palmira.cpp:112`) stops a server that then
  starts, and Wait returns at once. It is the Commit of the last reference that saves what comes then.
- `HangsOnlyIfMissed`, `SignalEnds`: the HTTP server's Stop notifies without the mutex, so
  that a notification between Wait's predicate and its wait is lost; only then
  does the program stay, and a later signal still ends it. Besides, the exit waits for the
  threads of the server, and a call may never end (`Stuck`: `Inflate` on a cut body, `unpack.cpp:62`,
  and a search whose notification came before its wait, `collect-docs.cpp:162`): then no signal ends the program. The gRPC server's Stop
  is empty: the model reaches the state main never leaves (nothing in the
  repository promises otherwise, so it is no finding).
- `WaitersReturn`: the HTTP client's callers wait for ever exactly when `LoadReport` throws (a
  body that is neither JSON nor a dump) or when the notify function waits on its own
  answer. `ImplementsPromise` with `keeps`: gRPC gives the answer away to the first Wait.
- `ServedAsSent` holds but for what the code changes on the way. The HTTP client writes
  an update's metadata from `ifClause` (`http/client.cpp:192`), and of a search
  nothing. The gRPC messages narrow 64-bit words, and 64-bit and floating arrays, to 32 bits, and
  keep no attributes of tags. Conditions and time-outs never reach the service by
  either way; `ServedAsSent` does not ask for them. The HTTP server takes an empty
  identifier, which gRPC refuses.
- `ReportIsTheServices`: `Change` reports any exception as its own `EFAULT`, also after
  the service has stored the document. A reply that is a page of an error
  or has no type leaves the caller of the HTTP client without an answer, and
  `Inflate` never ends on a compressed body that is cut (`unpack.cpp:62`).
- `WithinLimit` holds although `processing` is counted after the call is sent and
  counted down without the mutex: it may be -1 for a moment. `StuckOnlyIfMissed`: the
  callback notifies without the mutex; and a call whose answer never comes counts
  against the limit for ever, and takes along the notification a waiting reader needs. `AllSentThenIdle`: at the end every thread
  waits, and main for them, as `done` and `canContinue` are never changed. The server of this
  repository tells no `elapse`, so that with it the limit never rises; the
  comment at `sender.cpp:151` says 2 s where `:162` has 1.5.
- `AllIndexedUnlessLate`, `EndsUnlessLate`: main stops the indexer when *it* finds no text; texts
  of an archive another thread is still parsing are then dropped, or their parser
  is left waiting in Put, which `canContinue = false` does not notify. What Insert reports
  is dropped (`local-indexer.cpp:205`): a text the service refused is counted among the books like one it
  took, so that an end in order says of a text only that it was offered. An exception Insert does
  not report, out of a thread that does not catch it, ends the process.
- `SettledIsWatched` holds but for directories that were moved (a watch follows its directory,
  its name in `watchSet` does not), and for those `harmed`: the removal of a subdirectory is
  an event of its parent, and DirWatch drops the watch of the event, so that the
  parent, and what is made in it later, is watched no more; or a directory was
  made when the kernel's queue was full (DirWatch skips the event that says so).
  `CreatedIsReported`: of files created after AddWatch returned, the reports are lost for
  the same reasons and no other. `ReportsAreTrue` holds but for
  reports of moved directories, which name the old place. `OneThread`: the walk of the
  user tests, starts and assigns `watchThr` without a lock, and the thread it started may do the same
  before it is assigned; assigning a thread to a running one ends the process, and
  that is the only way two threads come to be.

### Bounds and other choices

`MaxBound`, `MaxStarts` with `OneAtATime`, `Calls`, `MaxChanges`, `MaxDepth` and the sets given to constants are the
only bounds; each but `OneAtATime` is a parameter with a named assumption. `Words` is the number
of values of a 32-bit word: with 4, a word of 64 bits has values beyond them. `CHECK_DEADLOCK FALSE` everywhere: all
modelled programs and calls end (a report made, a search returned, a program
exited), and those that hang do so by a hazard a property is about.

Assumed beyond the code: identifiers of one index lie within 2^31 of each other
(`WindowAssumption`; beyond it the tie breaker is no order); the mapping entity's
identifier is no client's; one call of the index is atomic and a flush writes it
as it is; `http::Server` takes no request after Stop and joins its threads when
destroyed; the pool of a search ends what its threads run before it goes, and drops what none has
started (were it to start that too, these actions would find the collector gone); a page has at least one document (`PageAssumption`); inotify gives its events in
order and does not use a number twice. `WatchDir` leaves out the coalescing of equal
events, IN_IGNORED and the events of moved directories, on which DirWatch does nothing.

Fairness: weak fairness of each thread that is running, never of the arrival of
requests, signals, spurious wakeups, crashes or time-outs. In `ParallelSearch`
the caller and each action of the pool; in `CollectorMerge` each part (the mutex
is free between critical sections that all end); in `Remote` the server and the network
library, the connecting threads and threads that can return from Wait; in `Program` main, handlers and
calls, until a call is stuck; in `LocalIndexer` every thread that does not wait in Put, as long as the process lives. Get needs no
wakeup there: it looks again every second. In `Sender` main, the readers and the
callbacks; a reader that asks for `requests::locker` again and again gets it (strong fairness:
the holders leave it after a few steps), while an answer may be lost for ever.

## 4. The theorems

For every value of the constants under the modules' assumptions.

- **CollectorProofs**: `BestAlwaysKept`, `WorstAlwaysCurrent`, `QuotesAlwaysFollow`,
  `StoreIsLargeEnough`, `LinearSearchKeepsPromise`, `ReportIsThePage`, `SearchIsAPart`. The invariant adds to the properties that
  ids in the buffer are distinct and found in index order, and that a worst is cached
  only for a full buffer: a replaced place holds what `WorstOf` names, so everything dropped is behind
  everything kept. It rests on `DocOrderProofs`: `Before` is a strict total order on the
  documents while the window of identifiers is below 2^31. For the report, `PlaceIsRank`: a place of
  the sorted buffer is the document's rank among all documents seen, those dropped included, as those
  better than it are exactly those before it; `QuoteIsOwn`: Get finds for a document held its own abstract.
  `SearchIsAPart` is the seam between `Collector` and `CollectorMerge`: the end of a search is the step
  SearchPart, everything else a stutter; `SortExists`: there is an order to sort into, by a smallest set without one.
  `BestIsUnique`: the promise of `TopK` leaves no choice, so the linear and the shared search keep the same documents.
  `CopiesAlwaysBest`, from `CopyOfRichIsBest` about any abstract: `Induction` is stated of a set of numbers,
  since the library's theorems take an operator; `RecursionExists` makes the recursive functions of `Quotes`
  (which sets are kept, which places their positions begin at) what they are written to be, and the
  steps go by `PutKeepsHeaviest` (putting a set over the lightest keeps what is kept heaviest),
  `SortingExists` (there is an order for std::sort to bring the keys into), `PermutationIsOnto` and
  `TakenIsPositions`, `PositionsOfCopy` (the room taken before a set is what the sets before it need, or all).
- **DocOrderProofs**: what the two collectors use of the order (strict, total; `LeastExists`, `BestIsOne`), and
  `OrderTurnsRound`: of the identifiers 1, `Half` and `Half + 1` each comes before the next, in a circle.
- **CollectorMergeProofs**: `MergedIsBest`, `QuotesAlwaysFollow`, `MergeKeepsPromise`,
  `NothingCountedTwice`. `PtrInv` is the heart: all
  before `dstptr` is better than all still to merge, which is why it may move only
  forward and why the break at the end of a full buffer loses nothing;
  `LockInv` makes the other parts' steps harmless. `CountInv`: the common count is at every moment that
  of what the parts now done have found; `NotCountedBefore`: nothing of a part still at work is in it.
  `OneListForEverySchedule`: with all parts done the buffer is the one sorted list of the best of what they found,
  whichever part merged first. And what `EveryPartMerged` rests on, in every state: `MergeAlwaysHasRoom` (Abstracts::Set
  never throws under `mxLock`, and `dstptr` has a place to stop), `MutexHasOneHolder`, `EveryStepMoves` (each step takes
  one part nearer to its end and none further).
- **ParallelSearchProofs**: `CounterIsExact`, `ZeroIsEnough`. `OrderInv` and `QueueInv` say which parts
  have an action and where; `LeftBehind` that a part without one to come has
  nothing to merge; `LoopInv` that the loop ends at the end of the index.
  `WakeIsNotLost`: while the caller waits and a notification is to come, no order of the actions takes that away (what
  `search_hangs` shows is a wait that begins after the last one).
  `NobodyIsLeft`: unless `early`, Search returns only with nothing left that uses its locals. `NotifyOnce`: as long as no
  part was counted beside one about to notify, an action about to notify is the only one, and nothing is
  outstanding; `WokenOnce`: so the wait is ended by the last action, after its last use of anything.
- **ServiceProofs**: `DocumentsReadAsStored`, `ExitSavesMapping`, `ExitSavesAnswers`, `NumbersKept`. `Chain`: the mappings on
  the disk, in the index, in Commit's local and in the service each extend the one
  before, and an extension misreads no document the shorter one reads. `FlagMeans`: an unset
  flag means the index's own mapping suffices, or a call has not
  flagged yet; `PackedKnows`: a thread about to store holds its field's number;
  `Ending`: nothing runs once the last reference is released.
  Of `Program`: `LastCommitComesLast`, `HangMeansMissed`. `HoldsInv`: whoever may call the service
  is counted in its references, and the server takes requests only between Start and its
  end; `NotifyInv`: with `finish` set, main is at the wait only while a
  handler is still to notify it, or the notification was missed.
- **RemoteProofs**, in three layers.
  Of the client: `OneClientCreated`, `NotifyComesFirst`, `WaiterIsPromise`. `ConnectInv`: the null of
  `globalClient` is seen by one thread at most, and all others spin until it is a client;
  `WaitInv`: the flag is up, and the mutex the network's, exactly from the notify
  function to the wake-up. `NoWakeupIsLost`: a thread in Wait is awake and has the mutex free, or the network can
  still act, or the answer is one that never comes. The simulation takes every step of `Remote` to one of `Promise` or to
  a stutter (`PromiseSteps`), and most to a stutter.
  Of the conversions: `NumbersKept`, metadata that fit their fields pass a gRPC message with their
  numbers; `SecondTrip`, what came out of one passes the next unchanged. Of `Words` they need only that it
  is even (`WordsAssumption`): what the run shows with 4 they say of 2^32.
  Of the exchange: `ClientsServedAsSent`, `ReportsAreTheServices`. `ExchangeInv`: what is served `Agrees`
  with what was asked, and a reply `Tells` what was served, from the moment there is one. The
  theorem is `[](~Page => ServedAsSent)`: a page may send what no client does, and what the
  server's loaders make of that is left to the run.
- **LocalFilesProofs**. Of `LocalIndexer`: `TextsAreOnce`, `AllAreIndexed` (taken or refused by Insert, if the end comes in order). Every step that touches texts moves a set of them
  from one place to another (`MoveKeeps`); that what it takes is all there is of it
  there needs `OnceInv`: no sequence holds a text, and no queue an archive, twice.
  `HandInv`: a thread's stage says whether it holds texts; `StagesInv`: once main has
  found no texts and nothing being parsed, nothing comes back.
  `StallsAreLate`: with a parser and an indexer the program stands still before its end only where `EndsUnlessLate`
  excuses it. `FullInv`: who waits to put waits at a full queue, as whoever takes from it wakes all; then main
  waits for a parser, that one for an indexer, and `RolesInv` says an indexer never waits to put and no thread
  has ended while files may come.
  Of `WatchDir`: `EveryDirectoryIsWatched`, `EveryCreationIsReported`, `EveryReportIsTrue`,
  `SecondThreadOnlyAtFirst`. `ReachInv` is the heart, and `SettledIsWatched` what is left of it when the queue
  and the stacks are empty: a directory that nothing excuses is watched
  under its name, or it is `Pending`: a call of AddWatch is on its way to it (it stands above it and
  has its way still to list, or is about to open one), or the event of a directory above
  it waits in the queue under a number that will still be read as that directory (`Lasting`: no
  removal ahead of it in the queue takes the number away). It is not inductive without `NamesInv`: a
  number names the directory it watches, or one moved, and the events queued under it are that
  directory's, or stale; `RemovalInv`: a number about to be erased is of no directory, or of one that
  loses a subdirectory; `NumbersInv`: no two directories have one number. `ThreadInv` keeps the second thread to
  the user's first call; `AwaitInv`: a file still awaited has its event in the queue, and it lasts. The hard
  steps are a move (`MovedTree`: moving a tree confuses no two directories and leaves no gap above one)
  and the return of `inotify_add_watch` for a directory that is already watched.
  Every conjunct was first checked as an invariant of the run `watch_dir`.
- **SenderProofs**: `LimitIsKept`, `StuckMeansMissed`, `QuietWhenAllSent`. `MutexInv`: who is inside holds the mutex; `OwnInv`: an archive
  has one holder, and no call before it is sent; `CountInv`: `processing` lacks exactly
  the call whose sender has not counted it; `WakeInv`: for every reader that waits an
  answer is to come, or a reader already woken will meet room, unless a notification
  was missed or an answer lost. `QuietWhenAllSent`: where nothing can move any more, and none of these two
  happened, all archives are sent and answered or cannot be read. `HandoverInv`: no reader sleeps over a listed
  archive nor main over a free place, and an archive not sent yet is in the directories, in the list or
  in a reader's hands.
- each module but `DocOrderProofs` also has `TypeCorrect` and the inductive invariant as `Invariance`
  (`ProgramTypeCorrect` and `ProgramInvariance`, `WatchTypeCorrect` and `WatchInvariance`, `ClientInvariance` where a
  module has two). Types that are proved are not run again, but in `collector_merge`.

The assumptions are those the modules name, and TLC evaluates them on every run. They say
what a constant is (a number of threads, a finite set of documents), but for the few listed above under
"Assumed beyond the code" and these: `Requests` have only the parts that `InsertArgs`,
`UpdateArgs`, `RemoveArgs` and `SearchArgs` have (`RequestsAssumption`); a tree of directories holds with a
path all above it (`TreesAssumption`).

Only model-checked: all liveness (`EveryPartMerged`, `WaitingIsWoken`, `ActionsEnd`,
`WaitersReturn`, `SignalEnds`, `EndsUnlessLate`, `AllSentThenIdle`), which the prover cannot
reach, and `ServedAsSent` for the requests of a page, which say what they ask only by
the loader's own rules. Of each of the liveness properties the theorems have the safety half, that no
step can take away what its end waits for: `MergeAlwaysHasRoom`, `MutexHasOneHolder` and `EveryStepMoves`;
`WakeIsNotLost`; `NobodyIsLeft`; `NoWakeupIsLost`; `HangMeansMissed`; `StallsAreLate`; `QuietWhenAllSent`, in this order.
What they state is in the modules with their proofs, and was first checked by TLC on the bounds of
the runs. What fairness adds, that what can go on does, is left to the runs.

## 5. What is not modelled, and what may follow

Not modelled:

- `k2.cpp`: one walk, a pool of mtc and a handler that only searches, around the service
  and the watcher modelled here;
- the Windows watcher: its completion routine runs in alertable waits of the
  kernel, whose rules the repository does not show;
- the destructor of the watcher: with watches it wakes the thread to an empty
  `watchPtr`, without any its join never ends; nothing in the repository relies on its end;
- a page of no documents (`PageAssumption`), and identifiers beyond the window;
- exceptions in the actions of the pool; a Finish that reads the collector while a late action
  still merges into it, which `NoneOutlivesSearch` leaves to its two causes;
- Detach and Shutdown of the gRPC server, which no path of this program reaches;
- the types JSON numbers are revived with, the bytes of compressed bodies;
- lemmatizers and their loading, parsers of one buffer, web pages, trial programs
  (no state between calls), submodules.

What may follow, in this order: `ParallelSearch` with the exceptions of its actions; the destructor of `WatchDir`; the proof of `ServedAsSent` for a page's requests; the packing of texts
and the search by identifier of `Service`.

------------------------------ MODULE Service ------------------------------
(***************************************************************************)
(* The service (src/service/structo-search.cpp, StructoSearch): threads of *)
(* a server insert, update and remove documents in one index, and main and *)
(* the last reference to the service commit it.                            *)
(*                                                                         *)
(* A document is stored with the numbers of its markup fields, not their   *)
(* names: what a number means is in fieldMan, which gives a number to each *)
(* new name, and is saved in an entity of the same index whenever Commit   *)
(* finds the flag modified.  The numbers of a document mean something only *)
(* while the mapping they were given under survives, from one run of the   *)
(* program to the next, through crashes and changes of the configuration.  *)
(*                                                                         *)
(* The index itself is not in src/: one call of it is one step, and what   *)
(* it holds may reach the disk at any time (Flush).                        *)
(***************************************************************************)
EXTENDS Naturals, FiniteSets

CONSTANTS Threads,      \* the threads that call the service
          Docs,         \* identifiers of documents
          Metas,        \* values of their metadata
          Tags,         \* names of markup fields
          Ids,          \* numbers of fields
          Configs,      \* the sets of names the configuration may list
          MaxStarts     \* how often the program is started

ASSUME IdsAssumption == Ids \subseteq Nat \ {0}
ASSUME ConfigsAssumption == \A c \in Configs : c \subseteq Tags
ASSUME StartsAssumption == MaxStarts \in Nat \ {0}

NoDoc == [tag |-> "none"]
Doc == [tag : Tags, num : Ids, meta : Metas]

\* A mapping gives each name its number, 0 to the names it does not know.
Unknown == 0
Known(m) == {t \in Tags : m[t] # Unknown}
Mapping == {m \in [Tags -> Ids \cup {Unknown}] :
              \A s, t \in Known(m) : m[s] = m[t] => s = t}
NoMapping == [t \in Tags |-> Unknown]
Extends(m, old) == \A t \in Known(old) : m[t] = old[t]

Requests == [op : {"insert"}, id : Docs, tag : Tags, meta : Metas]
              \cup [op : {"update"}, id : Docs, meta : Metas]
              \cup [op : {"remove"}, id : Docs]
NoRequest == [op |-> "none"]

VARIABLES
  fieldMan,     \* the mapping of the running service
  modified,     \* whether Commit has to save it
  index,        \* the index: its documents and the mapping entity
  durable,      \* what of the index would survive a crash
  pc, request,  \* of each thread: where it is, and in which request
  number,       \* of each thread: the number its document was packed with
  stage,        \* of the program: its life
  commit,       \* where Commit is
  fields,       \* the local of Commit
  starts,       \* how often the program was started
  overlapped,   \* history: a change was flagged while Commit saved fields
  lost          \* history: documents a start found without their mapping

vars == <<fieldMan, modified, index, durable, pc, request, number, stage,
          commit, fields, starts, overlapped, lost>>
calls == <<pc, request, number>>
closing == <<commit, fields>>
history == <<starts, overlapped, lost>>

\* A document read under a mapping shows the fields it was stored with.
ReadsRight(d, m) == d # NoDoc => m[d.tag] = d.num
Misread(store, m) == {i \in Docs : ~ReadsRight(store.docs[i], m)}

EmptyIndex == [docs |-> [i \in Docs |-> NoDoc], map |-> NoMapping]

\* The mappings that keep what old gives and know exactly the names with it.
Joins(old, names) == {m \in Mapping : /\ Extends(m, old)
                                      /\ Known(m) = Known(old) \cup names}

\* Broken variant of JoinFields: the configuration first, then the saved names.
JoinConfigFirst(saved, names) ==
  UNION {Joins(m, Known(saved)) : m \in Joins(NoMapping, names)}

JoinFields(saved, names) == Joins(saved, names)

Init ==
  /\ \E c \in Configs : fieldMan \in JoinFields(NoMapping, c)
  /\ modified = FALSE
  /\ index = EmptyIndex
  /\ durable = EmptyIndex
  /\ pc = [th \in Threads |-> "idle"]
  /\ request = [th \in Threads |-> NoRequest]
  /\ number = [th \in Threads |-> Unknown]
  /\ stage = "serving"
  /\ commit = "none"
  /\ fields = NoMapping
  /\ starts = 1
  /\ overlapped = FALSE
  /\ lost = {}
-----------------------------------------------------------------------------
(* The calls.  A server takes requests until it is destroyed: a Stop that  *)
(* comes before its Start does not keep them from it, and main commits     *)
(* beside them.  Those it has taken go on until its threads are joined.    *)

Receive(th) ==
  /\ stage \in {"serving", "stopping", "leaving"}
  /\ pc[th] = "idle"
  /\ \E r \in Requests : request' = [request EXCEPT ![th] = r]
  /\ pc' = [pc EXCEPT ![th] = "received"]
  /\ UNCHANGED <<fieldMan, modified, index, durable, number, stage, closing, history>>

\* The end of a call that changed nothing in the index.
Answer(th) ==
  /\ pc' = [pc EXCEPT ![th] = "idle"]
  /\ request' = [request EXCEPT ![th] = NoRequest]
  /\ number' = [number EXCEPT ![th] = Unknown]

\* Insert: formats::Pack and contents number the fields of the document.
Pack(th) ==
  /\ pc[th] = "received"
  /\ request[th].op = "insert"
  /\ fieldMan' \in Joins(fieldMan, {request[th].tag})
  /\ number' = [number EXCEPT ![th] = fieldMan'[request[th].tag]]
  /\ pc' = [pc EXCEPT ![th] = "packed"]
  /\ UNCHANGED <<modified, index, durable, request, stage, closing, history>>

\* Insert: an exception, before or after the fields were numbered.
Reject(th) ==
  /\ request[th].op = "insert"
  /\ pc[th] \in {"received", "packed"}
  /\ Answer(th)
  /\ UNCHANGED <<fieldMan, modified, index, durable, stage, closing, history>>

\* Insert: the document replaces the one of the same identifier.
SetEntity(th) ==
  /\ pc[th] = "packed"
  /\ index' = [index EXCEPT !.docs[request[th].id] =
                 [tag |-> request[th].tag, num |-> number[th], meta |-> request[th].meta]]
  /\ lost' = lost \ {request[th].id}
  /\ pc' = [pc EXCEPT ![th] = "stored"]
  /\ UNCHANGED <<fieldMan, modified, durable, request, number, stage, closing, starts, overlapped>>

\* Update: the metadata of a document, its contents kept.
SetExtras(th) ==
  /\ pc[th] = "received"
  /\ request[th].op = "update"
  /\ index.docs[request[th].id] # NoDoc
  /\ index' = [index EXCEPT !.docs[request[th].id].meta = request[th].meta]
  /\ pc' = [pc EXCEPT ![th] = "stored"]
  /\ UNCHANGED <<fieldMan, modified, durable, request, number, stage, closing, history>>

DelEntity(th) ==
  /\ pc[th] = "received"
  /\ request[th].op = "remove"
  /\ index.docs[request[th].id] # NoDoc
  /\ index' = [index EXCEPT !.docs[request[th].id] = NoDoc]
  /\ lost' = lost \ {request[th].id}
  /\ pc' = [pc EXCEPT ![th] = "stored"]
  /\ UNCHANGED <<fieldMan, modified, durable, request, number, stage, closing, starts, overlapped>>

\* Update and Remove: document not found.
NotFound(th) ==
  /\ pc[th] = "received"
  /\ request[th].op \in {"update", "remove"}
  /\ index.docs[request[th].id] = NoDoc
  /\ Answer(th)
  /\ UNCHANGED <<fieldMan, modified, index, durable, stage, closing, history>>

\* Broken variant of Flag: Insert does not raise the flag.
FlagChanges(th) ==
  /\ pc[th] = "stored"
  /\ modified' = (modified \/ request[th].op # "insert")
  /\ overlapped' = (overlapped \/ commit \in {"put", "clear"})
  /\ Answer(th)
  /\ UNCHANGED <<fieldMan, index, durable, stage, closing, starts, lost>>

\* modified = true, and the report.
Flag(th) ==
  /\ pc[th] = "stored"
  /\ modified' = TRUE
  /\ overlapped' = (overlapped \/ commit \in {"put", "clear"})
  /\ Answer(th)
  /\ UNCHANGED <<fieldMan, index, durable, stage, closing, starts, lost>>
-----------------------------------------------------------------------------
(* Commit.                                                                 *)

CommitTest ==
  /\ commit = "test"
  /\ commit' = IF modified THEN "save" ELSE "index"
  /\ UNCHANGED <<fieldMan, modified, index, durable, calls, stage, fields, history>>

SaveFields ==
  /\ commit = "save"
  /\ fields' = fieldMan
  /\ commit' = "put"
  /\ UNCHANGED <<fieldMan, modified, index, durable, calls, stage, history>>

SetMapping ==
  /\ commit = "put"
  /\ index' = [index EXCEPT !.map = fields]
  /\ commit' = "clear"
  /\ UNCHANGED <<fieldMan, modified, durable, calls, stage, fields, history>>

ClearFlag ==
  /\ commit = "clear"
  /\ modified' = FALSE
  /\ commit' = "index"
  /\ UNCHANGED <<fieldMan, index, durable, calls, stage, fields, history>>

\* ctxIndex->Commit(): the index is on the disk.
CommitIndex ==
  /\ commit = "index"
  /\ durable' = index
  /\ commit' = "none"
  /\ stage' = IF stage = "stopping" THEN "leaving" ELSE "closed"
  /\ UNCHANGED <<fieldMan, modified, index, calls, fields, history>>
-----------------------------------------------------------------------------
(* The life of the program.                                                *)

\* main: server->Wait() returned, search->Commit() begins.
Stop ==
  /\ stage = "serving"
  /\ stage' = "stopping"
  /\ commit' = "test"
  /\ UNCHANGED <<fieldMan, modified, index, durable, calls, fields, history>>

\* Broken variant of Detach: the service is deleted without its Commit.
DetachUncommitted ==
  /\ stage = "leaving"
  /\ \A th \in Threads : pc[th] = "idle"
  /\ stage' = "closed"
  /\ UNCHANGED <<fieldMan, modified, index, durable, calls, closing, history>>

\* The server and its threads are gone: the last reference to the service.
Detach ==
  /\ stage = "leaving"
  /\ \A th \in Threads : pc[th] = "idle"
  /\ stage' = "releasing"
  /\ commit' = "test"
  /\ UNCHANGED <<fieldMan, modified, index, durable, calls, fields, history>>

\* The index writes what it has in memory.
Flush ==
  /\ stage \notin {"closed", "crashed"}
  /\ durable' = index
  /\ UNCHANGED <<fieldMan, modified, index, calls, stage, closing, history>>

Crash ==
  /\ stage \notin {"closed", "crashed"}
  /\ stage' = "crashed"
  /\ commit' = "none"
  /\ pc' = [th \in Threads |-> "idle"]
  /\ request' = [th \in Threads |-> NoRequest]
  /\ number' = [th \in Threads |-> Unknown]
  /\ UNCHANGED <<fieldMan, modified, index, durable, fields, history>>

\* Broken variant of Start: a configuration with fields is taken for the mapping.
StartFromConfig ==
  /\ stage \in {"closed", "crashed"}
  /\ starts < MaxStarts
  /\ \E c \in Configs : fieldMan' \in JoinFields(IF c = {} THEN durable.map ELSE NoMapping, c)
  /\ modified' = FALSE
  /\ index' = durable
  /\ stage' = "serving"
  /\ starts' = starts + 1
  /\ overlapped' = FALSE
  /\ lost' = Misread(durable, durable.map)
  /\ UNCHANGED <<durable, calls, closing>>

\* The constructor: the saved mapping joined with the configuration's.
Start ==
  /\ stage \in {"closed", "crashed"}
  /\ starts < MaxStarts
  /\ \E c \in Configs : fieldMan' \in JoinFields(durable.map, c)
  /\ modified' = FALSE
  /\ index' = durable
  /\ stage' = "serving"
  /\ starts' = starts + 1
  /\ overlapped' = FALSE
  /\ lost' = Misread(durable, durable.map)
  /\ UNCHANGED <<durable, calls, closing>>

Next ==
  \/ \E th \in Threads : \/ Receive(th) \/ Pack(th) \/ Reject(th) \/ SetEntity(th)
                         \/ SetExtras(th) \/ DelEntity(th) \/ NotFound(th) \/ Flag(th)
  \/ CommitTest \/ SaveFields \/ SetMapping \/ ClearFlag \/ CommitIndex
  \/ Stop \/ Detach \/ Flush \/ Crash \/ Start

Spec == Init /\ [][Next]_vars
-----------------------------------------------------------------------------
\* Every variable has its type; Commit runs only while the program ends.
TypeOK ==
  /\ fieldMan \in Mapping
  /\ modified \in BOOLEAN
  /\ index \in [docs : [Docs -> Doc \cup {NoDoc}], map : Mapping]
  /\ durable \in [docs : [Docs -> Doc \cup {NoDoc}], map : Mapping]
  /\ pc \in [Threads -> {"idle", "received", "packed", "stored"}]
  /\ request \in [Threads -> Requests \cup {NoRequest}]
  /\ number \in [Threads -> Ids \cup {Unknown}]
  /\ stage \in {"serving", "stopping", "leaving", "releasing", "closed", "crashed"}
  /\ commit \in {"none", "test", "save", "put", "clear", "index"}
  /\ fields \in Mapping
  /\ starts \in 1 .. MaxStarts
  /\ overlapped \in BOOLEAN
  /\ lost \subseteq Docs
  /\ commit # "none" <=> stage \in {"stopping", "releasing"}

\* While a service runs, the fields of a document it shows are those the
\* document was stored with, whatever the configuration and the earlier runs,
\* except where the document had survived without its mapping.
ReadAsStored == stage \notin {"closed", "crashed"} => Misread(index, fieldMan) \subseteq lost

\* A program that ends leaves every document it can read readable from the
\* disk, unless a change was flagged while Commit was saving the fields.
MappedAtExit == stage = "closed" /\ ~overlapped => Misread(durable, durable.map) \subseteq lost

\* Every change answered before the program ended is on the disk, those the
\* threads made after main's Commit included.
AnsweredIsDurable == stage = "closed" => durable = index

\* On the disk a field never loses its number nor changes it, whatever runs,
\* crashes and configurations follow.
NumbersAreForEver == [][Extends(durable.map', durable.map)]_vars
=============================================================================

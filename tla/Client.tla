------------------------------- MODULE Client -------------------------------
(***************************************************************************)
(* The two clients of a remote service (src/network/http/client.cpp and    *)
(* src/network/grpc/client.cpp).  A call sends a request and returns a     *)
(* Waiter; a thread of the network library finishes it with Done, and any  *)
(* number of threads Wait on it.  Both Waiters have a mutex, a condition   *)
(* variable and a flag; they differ in which times mean "for ever", in     *)
(* what a wait that runs out returns and in what becomes of the answer.    *)
(*                                                                         *)
(* The HTTP clients of a process share one http::Client, created by the    *)
(* first SetAddress: globalClient is null, locked (a dirty null) or it.    *)
(* What a request says and who answers it is module Remote's.              *)
(***************************************************************************)
EXTENDS Integers, FiniteSets

CONSTANTS Callers,      \* threads of the program
          Sender,       \* the one that sends the request
          Times,        \* arguments of Wait, in seconds
          Calls         \* how often a caller may Wait

ASSUME CallersAssumption == IsFiniteSet(Callers)
ASSUME SenderAssumption == Sender \in Callers
ASSUME TimesAssumption == Times \subseteq Int
ASSUME CallsAssumption == Calls \in Nat \ {0}

\* Reports of the remote service and of the client itself.
Answers == {"report", "fault", "timeout"}
Empty == "empty"

\* What the network gives the HTTP client: a status and the type of the body.
HttpReplies == [status : {"Ok"}, body : {"json", "badjson", "dump", "html", "none"}]
                 \cup [status : {"Failed", "Invalid", "TimedOut"}, body : {"none"}]
GrpcReplies == [status : {"OK", "error"}]

VARIABLES
  api,          \* which client
  notify,       \* the notify function: none, one that returns, one that waits
  globalClient, \* null, dirty or client
  created,      \* http::Clients created
  pc,           \* of each caller: where it is
  global,       \* of each caller: its local in SetAddress
  time,         \* of each caller: the argument of Wait
  calls,        \* of each caller: calls of Wait so far
  got,          \* of each caller: what the last one returned
  net,          \* where the request is
  answer,       \* what Done is called with
  owner,        \* who holds mxWait
  result,       \* result; zoutmap of gRPC
  bReady,       \* bReady; isReady of gRPC
  told          \* history: the notify function was called

vars == <<api, notify, globalClient, created, pc, global, time, calls, got, net,
          answer, owner, result, bReady, told>>
connecting == <<globalClient, created, global>>
waiting == <<time, calls, got>>
waiter == <<owner, result, bReady, told>>

Init ==
  /\ api \in {"http", "gRPC"}
  /\ notify \in {"none", "plain", "waits"}
  /\ globalClient = "null"
  /\ created = 0
  /\ pc = [c \in Callers |-> IF api = "http" THEN "new" ELSE "set"]
  /\ global = [c \in Callers |-> "null"]
  /\ time = [c \in Callers |-> 0]
  /\ calls = [c \in Callers |-> 0]
  /\ got = [c \in Callers |-> "none"]
  /\ net = "unsent"
  /\ answer = "none"
  /\ owner = "none"
  /\ result = Empty
  /\ bReady = FALSE
  /\ told = FALSE
-----------------------------------------------------------------------------
(* Client::SetAddress of HTTP: the client shared by the process.           *)

Clean(p) == IF p = "dirty" THEN "null" ELSE p

LoadGlobal(c) ==
  /\ pc[c] = "new"
  /\ global' = [global EXCEPT ![c] = Clean(globalClient)]
  /\ pc' = [pc EXCEPT ![c] = "check"]
  /\ UNCHANGED <<api, notify, globalClient, created, waiting, net, answer, waiter>>

\* Broken variant of LockGlobal: whoever finds it dirty creates one too.
LockGlobalAnyhow(c) ==
  /\ pc[c] = "check"
  /\ global[c] = "null"
  /\ globalClient' = "dirty"
  /\ pc' = [pc EXCEPT ![c] = "create"]
  /\ UNCHANGED <<api, notify, created, global, waiting, net, answer, waiter>>

LockGlobal(c) ==
  /\ pc[c] = "check"
  /\ global[c] = "null"
  /\ IF globalClient = "null"
       THEN /\ globalClient' = "dirty"
            /\ pc' = [pc EXCEPT ![c] = "create"]
            /\ UNCHANGED global
       ELSE /\ global' = [global EXCEPT ![c] = Clean(globalClient)]
            /\ UNCHANGED <<globalClient, pc>>
  /\ UNCHANGED <<api, notify, created, waiting, net, answer, waiter>>

CreateGlobal(c) ==
  /\ pc[c] = "create"
  /\ global' = [global EXCEPT ![c] = "client"]
  /\ globalClient' = "client"
  /\ created' = created + 1
  /\ pc' = [pc EXCEPT ![c] = "set"]
  /\ UNCHANGED <<api, notify, waiting, net, answer, waiter>>

UseGlobal(c) ==
  /\ pc[c] = "check"
  /\ global[c] # "null"
  /\ pc' = [pc EXCEPT ![c] = "set"]
  /\ UNCHANGED <<api, notify, connecting, waiting, net, answer, waiter>>
-----------------------------------------------------------------------------
(* The request and its answer.                                             *)

Send ==
  /\ pc[Sender] = "set"
  /\ net = "unsent"
  /\ net' = "sent"
  /\ UNCHANGED <<api, notify, connecting, pc, waiting, answer, waiter>>

\* HTTP: every call is a Modify.
Modify == api = "http" /\ Send

\* gRPC: Insert, Update and Remove; there is no Search.
AsyncCall == api = "gRPC" /\ Send

\* A body of another type is an exception nobody catches.
LoadReport(r) ==
  CASE r.body \in {"json", "dump"} -> "report"
    [] r.body = "badjson" -> "fault"
    [] r.body = "none" -> Empty
    [] r.body = "html" -> "throw"

\* Action: what Done gets for a reply.
HttpAnswer(r) ==
  CASE r.status = "Ok" -> LoadReport(r)
    [] r.status \in {"Failed", "Invalid"} -> "fault"
    [] r.status = "TimedOut" -> "timeout"

GrpcAnswer(r) == IF r.status = "OK" THEN "report" ELSE "fault"

Arrive ==
  /\ net = "sent"
  /\ IF api = "http" THEN \E r \in HttpReplies : answer' = HttpAnswer(r)
                     ELSE \E r \in GrpcReplies : answer' = GrpcAnswer(r)
  /\ net' = IF answer' = "throw" THEN "dropped" ELSE "arrived"
  /\ UNCHANGED <<api, notify, connecting, pc, waiting, waiter>>

\* Broken variant of Done: the notify function is called after the mutex.
DoneUnlocked ==
  /\ net = "arrived"
  /\ owner = "none"
  /\ result' = answer
  /\ bReady' = TRUE
  /\ net' = "notify"
  /\ UNCHANGED <<api, notify, connecting, pc, waiting, answer, owner, told>>

\* Done: the answer is there, the mutex taken.
Done ==
  /\ net = "arrived"
  /\ owner = "none"
  /\ owner' = "net"
  /\ result' = answer
  /\ bReady' = TRUE
  /\ net' = "notify"
  /\ UNCHANGED <<api, notify, connecting, pc, waiting, answer, told>>

\* Done: the notify function.  One that waits for the same answer waits for
\* the mutex its own thread holds.
CallNotify ==
  /\ net = "notify"
  /\ told' = TRUE
  /\ net' = IF notify = "waits" THEN "selfwait" ELSE "wake"
  /\ UNCHANGED <<api, notify, connecting, pc, waiting, answer, owner, result, bReady>>

\* Broken variant of NotifyAll: one waiting thread is woken.
NotifyOne ==
  /\ net = "wake"
  /\ net' = "done"
  /\ owner' = "none"
  /\ IF \E c \in Callers : pc[c] = "waiting"
       THEN \E c \in Callers : pc[c] = "waiting" /\ pc' = [pc EXCEPT ![c] = "woken"]
       ELSE UNCHANGED pc
  /\ UNCHANGED <<api, notify, connecting, waiting, answer, result, bReady, told>>

NotifyAll ==
  /\ net = "wake"
  /\ net' = "done"
  /\ owner' = "none"
  /\ pc' = [c \in Callers |-> IF pc[c] = "waiting" THEN "woken" ELSE pc[c]]
  /\ UNCHANGED <<api, notify, connecting, waiting, answer, result, bReady, told>>
-----------------------------------------------------------------------------
(* Wait.                                                                   *)

\* HTTP takes no time for "for ever", gRPC for "at once".
Timed(t) == IF api = "http" THEN t > 0 ELSE t >= 0

CallWait(c) ==
  /\ pc[c] = "set"
  /\ net # "unsent"
  /\ calls[c] < Calls
  /\ \E t \in Times : time' = [time EXCEPT ![c] = t]
  /\ calls' = [calls EXCEPT ![c] = @ + 1]
  /\ pc' = [pc EXCEPT ![c] = "lock"]
  /\ UNCHANGED <<api, notify, connecting, got, net, answer, waiter>>

\* The mutex and the predicate: nothing yet, the caller waits.
Block(c) ==
  /\ pc[c] \in {"lock", "woken"}
  /\ owner = "none"
  /\ ~bReady
  /\ pc' = [pc EXCEPT ![c] = "waiting"]
  /\ UNCHANGED <<api, notify, connecting, waiting, net, answer, waiter>>

\* Broken variant of Take: HTTP moves the answer out as well.
TakeMoving(c) ==
  /\ pc[c] \in {"lock", "woken", "expired"}
  /\ owner = "none"
  /\ bReady
  /\ got' = [got EXCEPT ![c] = result]
  /\ result' = Empty
  /\ pc' = [pc EXCEPT ![c] = "set"]
  /\ UNCHANGED <<api, notify, connecting, time, calls, net, answer, owner, bReady, told>>

\* The answer: HTTP returns a copy of it, gRPC moves it out.
Take(c) ==
  /\ pc[c] \in {"lock", "woken", "expired"}
  /\ owner = "none"
  /\ bReady
  /\ got' = [got EXCEPT ![c] = result]
  /\ result' = IF api = "http" THEN result ELSE Empty
  /\ pc' = [pc EXCEPT ![c] = "set"]
  /\ UNCHANGED <<api, notify, connecting, time, calls, net, answer, owner, bReady, told>>

SpuriousWakeup(c) ==
  /\ pc[c] = "waiting"
  /\ pc' = [pc EXCEPT ![c] = "woken"]
  /\ UNCHANGED <<api, notify, connecting, waiting, net, answer, waiter>>

Expire(c) ==
  /\ pc[c] \in {"waiting", "woken"}
  /\ Timed(time[c])
  /\ pc' = [pc EXCEPT ![c] = "expired"]
  /\ UNCHANGED <<api, notify, connecting, waiting, net, answer, waiter>>

\* The time has run out and the predicate still fails.  HTTP returns an empty
\* map; gRPC stores a report of its own where the answer goes and moves it out.
GiveUp(c) ==
  /\ pc[c] = "expired"
  /\ owner = "none"
  /\ ~bReady
  /\ got' = [got EXCEPT ![c] = "late"]
  /\ result' = Empty
  /\ pc' = [pc EXCEPT ![c] = "set"]
  /\ UNCHANGED <<api, notify, connecting, time, calls, net, answer, owner, bReady, told>>

Connect(c) == LoadGlobal(c) \/ LockGlobal(c) \/ CreateGlobal(c) \/ UseGlobal(c)
Network == Arrive \/ Done \/ CallNotify \/ NotifyAll
Wait(c) == Block(c) \/ Take(c) \/ GiveUp(c)

Next ==
  \/ Modify \/ AsyncCall \/ Network
  \/ \E c \in Callers : Connect(c) \/ CallWait(c) \/ Wait(c) \/ SpuriousWakeup(c) \/ Expire(c)

Spec == Init /\ [][Next]_vars
-----------------------------------------------------------------------------
\* Every variable has its type.
TypeOK ==
  /\ api \in {"http", "gRPC"}
  /\ notify \in {"none", "plain", "waits"}
  /\ globalClient \in {"null", "dirty", "client"}
  /\ created \in 0 .. Cardinality(Callers)
  /\ pc \in [Callers -> {"new", "check", "create", "set", "lock", "waiting", "woken", "expired"}]
  /\ global \in [Callers -> {"null", "client"}]
  /\ time \in [Callers -> Times \cup {0}]
  /\ calls \in [Callers -> 0 .. Calls]
  /\ got \in [Callers -> Answers \cup {"none", "late", Empty}]
  /\ net \in {"unsent", "sent", "dropped", "arrived", "notify", "selfwait", "wake", "done"}
  /\ answer \in Answers \cup {"none", "throw", Empty}
  /\ owner \in {"none", "net"}
  /\ result \in Answers \cup {Empty}
  /\ bReady \in BOOLEAN
  /\ told \in BOOLEAN

\* However many threads set an address at once, the process creates one
\* http::Client, and no thread goes on with a null one.
OneGlobalClient ==
  /\ created <= 1
  /\ \A c \in Callers : api = "http" /\ pc[c] \notin {"new", "check", "create"} =>
       global[c] = "client" /\ globalClient = "client"

\* No call of Wait returns the answer before the notify function was given it.
NotifiedFirst == \A c \in Callers : got[c] \notin {"none", "late"} => told

\* The Waiter is a promise: one that HTTP keeps for every call, and that gRPC
\* gives away once.
Asks(c) == IF pc[c] \notin {"lock", "waiting", "woken", "expired"} THEN "no"
           ELSE IF Timed(time[c]) THEN "timed" ELSE "untimed"

P == INSTANCE Promise WITH
       Answers <- Answers \cup {Empty},
       keeps <- api = "http",
       answer <- IF bReady THEN result ELSE "none",
       asks <- [c \in Callers |-> Asks(c)]

ImplementsPromise == P!Spec

\* Every thread in Wait returns in the end.  What leaves it waiting is an HTTP
\* reply LoadReport throws on, a body on which Inflate of the server goes round
\* for ever in a call without a time, and a notify function that waits itself.
WaitersReturn ==
  \A c \in Callers :
    Asks(c) # "no" ~> Asks(c) = "no" \/ net \in {"dropped", "selfwait"}
=============================================================================

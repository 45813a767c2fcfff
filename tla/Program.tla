------------------------------ MODULE Program ------------------------------
(***************************************************************************)
(* The program from main to its end (src/palmira.cpp) with the server it   *)
(* runs (src/network/http/server.cpp, src/network/grpc/server.cpp): main   *)
(* creates the service and a server, starts it and waits; a signal calls   *)
(* the server's Stop from its handler, in whatever thread it interrupts;   *)
(* main commits and returns, and the last references go with its locals    *)
(* and statics.  The calls of the service are module Service.              *)
(***************************************************************************)
EXTENDS Naturals, FiniteSets

CONSTANTS Workers,      \* threads of the server
          Signals,      \* signals the program may get
          GrpcEnabled   \* gRPC_API_ENABLED

ASSUME GrpcAssumption == GrpcEnabled \in BOOLEAN

\* What the configuration says of the server: 'api' is missing, is or names
\* a section, or names none; the section's type and port.
ServerConfigs == [api : {"absent", "dangling", "section"},
            type : {"http", "gRPC", "", "other"},
            port : {"uint16", "bad"}]

\* CreateInetServer
InetServer(cfg) ==
  CASE cfg.api # "section" -> "invalid"
    [] cfg.type \notin {"http", "gRPC"} -> "invalid"
    [] cfg.port = "bad" -> "invalid"
    [] cfg.type = "gRPC" /\ ~GrpcEnabled -> "invalid"
    [] OTHER -> cfg.type

VARIABLES
  server,       \* the server: none, http or gRPC
  main,         \* where main is
  func,         \* whether signalFunc is set
  handler,      \* of each signal: where its handler is
  onMain,       \* the signals whose handler interrupted main
  finish,       \* finish of the HTTP server
  open,         \* whether the server takes requests
  worker,       \* of each worker: where it is
  holds,        \* who holds a reference to the service
  lastCommit,   \* the last Commit of the service: none, by main, by Detach
  missed        \* history: a notification fell between test and wait

programVars == <<server, main, func, handler, onMain, finish, open, worker, holds, lastCommit, missed>>
signals == <<handler, onMain>>
service == <<holds, lastCommit>>

Handling == {s \in Signals : handler[s] \in {"stop", "finish", "notify"}}

\* main runs unless a handler runs on its thread.
MainRuns == onMain \cap Handling = {}

\* The process is there.
Alive == main \notin {"invalid", "killed", "aborted", "exited"}

ProgramInit ==
  /\ server = "none"
  /\ main = "config"
  /\ func = FALSE
  /\ handler = [s \in Signals |-> "none"]
  /\ onMain = {}
  /\ finish = FALSE
  /\ open = FALSE
  /\ worker = [w \in Workers |-> "idle"]
  /\ holds = {}
  /\ lastCommit = "none"
  /\ missed = FALSE
-----------------------------------------------------------------------------
(* main.                                                                   *)

\* No configuration, no 'service' section, or no service from it.
CreateNothing ==
  /\ main = "config"
  /\ main' = "invalid"
  /\ UNCHANGED <<server, func, signals, finish, open, worker, service, missed>>

\* The service and the server; without a server main returns and its own
\* reference, the last one, goes.
Create ==
  /\ main = "config"
  /\ \E cfg \in ServerConfigs :
       LET made == InetServer(cfg) IN
         IF made = "invalid"
           THEN /\ main' = "invalid"
                /\ lastCommit' = "last"
                /\ UNCHANGED <<server, holds>>
           ELSE /\ main' = "created"
                /\ server' = made
                /\ holds' = {"main", "server"}
                /\ UNCHANGED lastCommit
  /\ UNCHANGED <<func, signals, finish, open, worker, missed>>

\* sigaction of SIGINT, SIGTERM and SIGQUIT.
Sigaction ==
  /\ main = "created"
  /\ main' = "installed"
  /\ UNCHANGED <<server, func, signals, finish, open, worker, service, missed>>

SetFunc ==
  /\ main = "installed"
  /\ MainRuns
  /\ func' = TRUE
  /\ main' = "start"
  /\ UNCHANGED <<server, signals, finish, open, worker, service, missed>>

\* BuildAndStart of gRPC may give no server: Wait throws then.
StartServer ==
  /\ main = "start"
  /\ MainRuns
  /\ \/ main' = "wait" /\ open' = TRUE
     \/ server = "gRPC" /\ main' = "aborted" /\ UNCHANGED open
  /\ UNCHANGED <<server, func, signals, finish, worker, service, missed>>

\* Broken variant of Test: main comes to wait without looking at finish.
TestNot ==
  /\ main = "wait"
  /\ MainRuns
  /\ main' = "tested"
  /\ UNCHANGED <<server, func, signals, finish, open, worker, service, missed>>

\* Wait: the predicate; the gRPC server waits for its Shutdown, and who would
\* call it, Detach, comes after main's own reference.
Test ==
  /\ main = "wait"
  /\ MainRuns
  /\ main' = IF server = "gRPC" THEN "shutdown" ELSE IF finish THEN "stopped" ELSE "tested"
  /\ UNCHANGED <<server, func, signals, finish, open, worker, service, missed>>

Block ==
  /\ main = "tested"
  /\ MainRuns
  /\ main' = "blocked"
  /\ UNCHANGED <<server, func, signals, finish, open, worker, service, missed>>

SpuriousWakeup ==
  /\ main = "blocked"
  /\ main' = "wait"
  /\ UNCHANGED <<server, func, signals, finish, open, worker, service, missed>>

\* search->Commit()
MainCommit ==
  /\ main = "stopped"
  /\ MainRuns
  /\ lastCommit' = "main"
  /\ main' = "committed"
  /\ UNCHANGED <<server, func, signals, finish, open, worker, holds, missed>>

\* main returns: its references go, the server's stays in signalFunc.
ReturnMain ==
  /\ main = "committed"
  /\ MainRuns
  /\ holds' = holds \ {"main"}
  /\ main' = "returned"
  /\ UNCHANGED <<server, func, signals, finish, open, worker, lastCommit, missed>>

\* The statics: signalFunc goes, and with it the server, which takes no more.
Unload ==
  /\ main = "returned"
  /\ MainRuns
  /\ func' = FALSE
  /\ open' = FALSE
  /\ main' = "leaving"
  /\ UNCHANGED <<server, signals, finish, worker, service, missed>>

\* Broken variant of Exit: the server goes while its threads are in calls.
ExitAtOnce ==
  /\ main = "leaving"
  /\ holds' = {}
  /\ lastCommit' = "last"
  /\ main' = "exited"
  /\ UNCHANGED <<server, func, signals, finish, open, worker, missed>>

\* The threads of the server are joined, those a handler runs on too; its
\* reference to the service is the last one, so Detach commits.
Exit ==
  /\ main = "leaving"
  /\ Handling = {}
  /\ \A w \in Workers : worker[w] = "idle"
  /\ holds' = {}
  /\ lastCommit' = "last"
  /\ main' = "exited"
  /\ UNCHANGED <<server, func, signals, finish, open, worker, missed>>
-----------------------------------------------------------------------------
(* Signals.                                                                *)

\* A signal kills the process before sigaction, and does nothing before
\* signalFunc is set; Stop of the gRPC server is empty.
Raise(s) ==
  /\ handler[s] = "none"
  /\ main \notin {"returned", "leaving"}
  /\ Alive
  /\ IF main \in {"config", "created"}
       THEN /\ main' = "killed"
            /\ handler' = [handler EXCEPT ![s] = "done"]
            /\ UNCHANGED onMain
       ELSE /\ UNCHANGED main
            /\ handler' = [handler EXCEPT ![s] =
                             IF func /\ server = "http" THEN "stop" ELSE "done"]
            /\ onMain' \in {onMain, onMain \cup {s}}
  /\ UNCHANGED <<server, func, finish, open, worker, service, missed>>

\* A signal that finds the statics on their way out: the handler reads a
\* signalFunc that is, or may be, destroyed.
RaiseLate(s) ==
  /\ handler[s] = "none"
  /\ main \in {"returned", "leaving"}
  /\ main' \in {main, "aborted"}
  /\ handler' = [handler EXCEPT ![s] = "done"]
  /\ UNCHANGED <<server, func, onMain, finish, open, worker, service, missed>>

\* Stop of the HTTP server: no more requests.
StopServer(s) ==
  /\ handler[s] = "stop"
  /\ Alive
  /\ open' = FALSE
  /\ handler' = [handler EXCEPT ![s] = "finish"]
  /\ UNCHANGED <<server, main, func, onMain, finish, worker, service, missed>>

Finish(s) ==
  /\ handler[s] = "finish"
  /\ Alive
  /\ finish' = TRUE
  /\ handler' = [handler EXCEPT ![s] = "notify"]
  /\ UNCHANGED <<server, main, func, onMain, open, worker, service, missed>>

\* Broken variant of Notify: nobody is woken.
NotifyNobody(s) ==
  /\ handler[s] = "notify"
  /\ Alive
  /\ missed' = (missed \/ main = "tested")
  /\ handler' = [handler EXCEPT ![s] = "done"]
  /\ UNCHANGED <<server, main, func, onMain, finish, open, worker, service>>

\* cvwait.notify_one() without mxwait: lost on a main that does not wait yet.
Notify(s) ==
  /\ handler[s] = "notify"
  /\ Alive
  /\ main' = IF main = "blocked" THEN "wait" ELSE main
  /\ missed' = (missed \/ main = "tested")
  /\ handler' = [handler EXCEPT ![s] = "done"]
  /\ UNCHANGED <<server, func, onMain, finish, open, worker, service>>
-----------------------------------------------------------------------------
(* Requests.                                                               *)

Accept(w) ==
  /\ open
  /\ Alive
  /\ worker[w] = "idle"
  /\ worker' = [worker EXCEPT ![w] = "taken"]
  /\ UNCHANGED <<server, main, func, signals, finish, open, service, missed>>

\* ActionCall, Change: cancelled by the client, or arguments that do not load.
Refuse(w) ==
  /\ worker[w] = "taken"
  /\ Alive
  /\ worker' = [worker EXCEPT ![w] = "idle"]
  /\ UNCHANGED <<server, main, func, signals, finish, open, service, missed>>

CallService(w) ==
  /\ worker[w] = "taken"
  /\ Alive
  /\ worker' = [worker EXCEPT ![w] = "call"]
  /\ UNCHANGED <<server, main, func, signals, finish, open, service, missed>>

Reply(w) ==
  /\ worker[w] = "call"
  /\ Alive
  /\ worker' = [worker EXCEPT ![w] = "idle"]
  /\ UNCHANGED <<server, main, func, signals, finish, open, service, missed>>

\* A call that never ends: a compressed body cut short is inflated for ever
\* before the service is called, or for ever the search waits for its parts.
\* The calls of the gRPC server neither inflate nor search.
Hang(w) ==
  /\ worker[w] \in {"taken", "call"}
  /\ Alive
  /\ server = "http"
  /\ worker' = [worker EXCEPT ![w] = "stuck"]
  /\ UNCHANGED <<server, main, func, signals, finish, open, service, missed>>

Main == \/ CreateNothing \/ Create \/ Sigaction \/ SetFunc \/ StartServer \/ Test \/ Block
        \/ MainCommit \/ ReturnMain \/ Unload \/ Exit
Handler(s) == StopServer(s) \/ Finish(s) \/ Notify(s)
Work(w) == Refuse(w) \/ CallService(w) \/ Reply(w)

ProgramNext ==
  \/ Main \/ SpuriousWakeup
  \/ \E s \in Signals : Raise(s) \/ RaiseLate(s) \/ Handler(s)
  \/ \E w \in Workers : Accept(w) \/ Work(w) \/ Hang(w)

ProgramSpec == ProgramInit /\ [][ProgramNext]_programVars

\* main, a handler and a worker in a call are running threads, and a worker
\* goes on until it is stuck; signals and requests come or do not.
FairSpec ==
  /\ ProgramSpec
  /\ WF_programVars(Main)
  /\ \A s \in Signals : WF_programVars(Handler(s))
  /\ \A w \in Workers : WF_programVars(Work(w))
-----------------------------------------------------------------------------
\* Every variable has its type.
ProgramTypeOK ==
  /\ server \in {"none", "http", "gRPC"}
  /\ main \in {"config", "invalid", "created", "killed", "installed", "start", "aborted", "wait",
               "tested", "blocked", "shutdown", "stopped", "committed", "returned", "leaving", "exited"}
  /\ func \in BOOLEAN
  /\ handler \in [Signals -> {"none", "stop", "finish", "notify", "done"}]
  /\ onMain \subseteq Signals
  /\ finish \in BOOLEAN
  /\ open \in BOOLEAN
  /\ worker \in [Workers -> {"idle", "taken", "call", "stuck"}]
  /\ holds \subseteq {"main", "server"}
  /\ lastCommit \in {"none", "main", "last"}
  /\ missed \in BOOLEAN

\* A call is never in a service that is gone, and the Commit of the last
\* reference comes after every call: nothing is changed after it.
LastCommitIsLast ==
  /\ \A w \in Workers : worker[w] # "idle" => "server" \in holds
  /\ main = "exited" => lastCommit = "last" /\ holds = {}

\* A stopped program that does not end has missed its notification, between
\* the test of finish and the wait for it.
HangsOnlyIfMissed == main = "blocked" /\ finish /\ Handling = {} => missed

\* The exit waits for every call, and this one does not end.
Stuck == \E w \in Workers : worker[w] = "stuck"

\* A signal ends the program unless its notification is missed or a call is
\* stuck; a later one whose handler finds main in its wait ends it even when
\* the first was missed.
SignalEnds ==
  \A s \in Signals :
    /\ handler[s] = "stop" ~> ~Alive \/ missed \/ Stuck
    /\ handler[s] = "notify" /\ main = "blocked" ~> ~Alive \/ Stuck
=============================================================================

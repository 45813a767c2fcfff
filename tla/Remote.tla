-------------------------------- MODULE Remote --------------------------------
(***************************************************************************)
(* A call from one end to the other: the clients of module Client, what    *)
(* they send (module Wire), the server's handlers ActionCall of            *)
(* http/server.cpp and Change of grpc/server.cpp, the service behind them  *)
(* and the report on its way back.  Each action of Client is taken with    *)
(* what it does to the request; a page or another program may call the     *)
(* server as well, before the client does.                                 *)
(***************************************************************************)
EXTENDS Client, Wire

CONSTANTS Requests,      \* arguments of the client's calls
          PageRequests,  \* requests of others: what they ask, and how
          Outcomes,      \* status codes of the service; "throws" is none
          OutputTypes    \* may Output add the type of a reply

ASSUME OutputTypesAssumption == OutputTypes \subseteq BOOLEAN

\* What InsertArgs, UpdateArgs, RemoveArgs and SearchArgs have room for, and what
\* the types of metadata do.
ASSUME RequestsAssumption ==
  \A r \in Requests :
    /\ r.op \in {"Insert", "Update", "Remove", "Search"}
    /\ r.timeout \in Int
    /\ r.op # "Insert" => r.textview = None
    /\ r.op \in {"Remove", "Search"} => r.metadata = None
    /\ IF r.op = "Search" THEN r.id = "" ELSE r.query = None /\ r.order = None
    /\ \A p \in DOMAIN r.metadata : \A i \in DOMAIN r.metadata[p].items :
         r.metadata[p].items[i] \in
           (IF r.metadata[p].type \in {"word64", "array_word64"} THEN Nat ELSE Int)

\* Sets of at most one: the arguments of the call in progress, the call of the
\* service made for it, and the reply to it.
VARIABLES asked, served, reply

exchange == <<asked, served, reply>>
remoteVars == <<vars, exchange>>

Forget == asked' = {} /\ served' = {} /\ reply' = {}

RemoteInit == Init /\ asked = {} /\ served = {} /\ reply = {}

Ask(r) == asked = {} /\ asked' = {r} /\ UNCHANGED <<served, reply>>

\* Insert, Update, Remove and Search of the HTTP client.
HttpCall == Modify /\ \E r \in Requests : Ask(r)

\* Insert, Update and Remove of the gRPC client, unless the arguments cannot be
\* converted: then the caller has an exception and nothing is sent.
GrpcCall == AsyncCall /\ \E r \in Requests : r.op # "Search" /\ ~ThrowsOnSend(r) /\ Ask(r)
-----------------------------------------------------------------------------
(* The server.  What it does with a request whose exchange has failed      *)
(* meanwhile nobody sees any more.                                         *)

Page == net = "unsent"

HttpReply(status, body, code) == [status |-> status, body |-> body, code |-> code]

\* The service gets the arguments and answers with a report or an exception,
\* which for ActionCall ends the exchange.
CallService(args) ==
  \E code \in Outcomes, typed \in OutputTypes :
    /\ served' = {[args |-> args, code |-> code]}
    /\ reply' = {IF code = "throws" THEN HttpReply("Failed", "none", code)
                                    ELSE HttpReply("Ok", OutputJSON(typed), code)}

\* The arguments cannot be loaded: a report, a page, or nobody catches it.
Refuse(error) ==
  /\ UNCHANGED served
  /\ \E typed \in OutputTypes :
       reply' = {CASE error = "parse_error" -> HttpReply("Ok", OutputJSON(typed), "EINVAL")
                   [] error = "invalid_argument" -> HttpReply("Ok", "html", "400")
                   [] OTHER -> HttpReply("Failed", "none", error)}

\* ActionCall, when it comes to its end: Inflate, the cancellation, the load,
\* the service.
ActionCall(req) ==
  \/ ~InflateThrows(req) /\ UNCHANGED served /\ reply' = {HttpReply("Ok", "html", "cancelled")}
  \/ Throws(req) # "nothing" /\ Refuse(Throws(req))
  \/ Throws(req) = "nothing" /\ CallService(Load(req))

HttpServe ==
  /\ api = "http" /\ net = "sent" /\ reply = {}
  /\ \E r \in asked, zip, whole \in BOOLEAN :
       LET req == HttpRequest(r, zip, whole) IN
       \/ ~InflateSpins(req) /\ ActionCall(req) /\ UNCHANGED <<vars, asked>>
       \/ InflateSpins(req) /\ r.timeout > 0 /\ reply' = {HttpReply("TimedOut", "none", "spins")}
            /\ UNCHANGED <<vars, asked, served>>
       \/ InflateSpins(req) /\ r.timeout <= 0 /\ net' = "dropped" /\ Forget
            /\ UNCHANGED <<api, notify, connecting, pc, waiting, answer, waiter>>

\* Broken variant of Fault: the status of the message is left as it is made.
FaultUnset == [status |-> "OK", code |-> "OK", metadata |-> None]

\* What Change reports for any exception.
Fault == [status |-> "OK", code |-> "EFAULT", metadata |-> None]

\* Change.  The report has the metadata that were stored.
Change(msg) ==
  \/ reply' = {[Fault EXCEPT !.status = "error"]} /\ UNCHANGED served    \* cancelled
  \/ IF ThrowsOnReceipt(msg) THEN reply' = {Fault} /\ UNCHANGED served
     ELSE \E code \in Outcomes :
            LET args == FromMessage(msg)
                report == [code |-> code, metadata |-> IF code = "OK" THEN args.metadata ELSE None]
                respond == FromReport(report) IN
            /\ served' = {[args |-> args, code |-> code]}
            /\ reply' = {IF code = "throws" \/ Unconvertible(report.metadata) THEN Fault
                         ELSE [status |-> "OK", code |-> respond.code, metadata |-> respond.metadata]}

GrpcServe ==
  /\ api = "gRPC" /\ net = "sent" /\ reply = {}
  /\ \E r \in asked : Change(ToMessage(r))
  /\ UNCHANGED <<vars, asked>>

\* A call by others, who check nothing before they send.
PageCall ==
  /\ Page /\ asked = {}
  /\ \E q \in PageRequests :
       /\ asked' = {q.asks}
       /\ \/ api = "http" /\ ActionCall(q.request)
          \/ api = "gRPC" /\ q.asks.op # "Search" /\ Change(ToMessage(q.asks))
  /\ UNCHANGED vars

PageDone == Page /\ asked # {} /\ Forget /\ UNCHANGED vars
-----------------------------------------------------------------------------
(* The way back.                                                           *)

\* What may be left of a reply: its body whole, cut, or nothing of it.
Remains(body) ==
  CASE body = "json" -> {"json", "badjson", "none"}
    [] body = "html" -> {"html", "none"}
    [] body = "none" -> {"none"}

Keep == IF answer' = "report" THEN UNCHANGED exchange ELSE Forget

ArriveReply ==
  /\ Arrive
  /\ \E p \in reply :
       IF api = "http" THEN \E b \in Remains(p.body) : answer' = HttpAnswer([status |-> p.status, body |-> b])
                       ELSE answer' = GrpcAnswer(p)
  /\ Keep

ArriveFailure ==
  /\ Arrive
  /\ answer' \in IF api = "http" THEN {"fault", "timeout"} ELSE {"fault"}
  /\ Keep

HandOver == Done /\ Forget

RemoteNetwork ==
  \/ HttpServe \/ GrpcServe \/ ArriveReply \/ HandOver
  \/ (CallNotify \/ NotifyAll) /\ UNCHANGED exchange

RemoteNext ==
  \/ HttpCall \/ GrpcCall \/ PageCall \/ PageDone \/ ArriveFailure \/ RemoteNetwork
  \/ \E c \in Callers : (Connect(c) \/ CallWait(c) \/ Wait(c) \/ SpuriousWakeup(c) \/ Expire(c))
                           /\ UNCHANGED exchange

\* The threads of the callers run, the server answers what it can and the
\* network brings it; nobody has to wake without reason, nor to call Wait.
RemoteSpec ==
  /\ RemoteInit /\ [][RemoteNext]_remoteVars
  /\ WF_remoteVars(RemoteNetwork)
  /\ \A c \in Callers : WF_remoteVars(Connect(c) /\ UNCHANGED exchange)
                         /\ WF_remoteVars(Wait(c) /\ UNCHANGED exchange)
-----------------------------------------------------------------------------
Floating == {"float", "double", "array_float", "array_double"}

\* The numbers a value stands for, in halves, whatever its type.
Numbers(v) == [i \in DOMAIN v.items |-> IF v.type \in Floating THEN v.items[i] ELSE 2 * v.items[i]]

SameNumbers(m, n) == DOMAIN m = DOMAIN n /\ \A p \in DOMAIN m : Numbers(m[p]) = Numbers(n[p])

\* Every item that is put where 32 bits have room is one of 32 bits, and whole.
Fits(m) ==
  \A p \in DOMAIN m : \A i \in DOMAIN m[p].items :
    CASE m[p].type \in {"word64", "array_word64"} -> m[p].items[i] < Words
      [] m[p].type = "array_int64" -> m[p].items[i] \in -(Words \div 2) .. (Words \div 2) - 1
      [] m[p].type \in {"array_float", "array_double"} -> m[p].items[i] % 2 = 0
      [] OTHER -> TRUE

SameText(a, b) ==
  /\ DOMAIN a = DOMAIN b
  /\ \A i \in DOMAIN a : /\ a[i].chars = b[i].chars
                         /\ DOMAIN a[i].tags = DOMAIN b[i].tags
                         /\ \A j \in DOMAIN a[i].tags : a[i].tags[j].tag = b[i].tags[j].tag

\* What the service is called with is what was asked, whichever way it came:
\* the object, the text and its tags, the numbers of the metadata, the query and its page.
\* Exceptions the code has: the HTTP client sends no query, and its condition
\* where the metadata belong; gRPC narrows wide numbers and cuts fractions in arrays.
ServedAsSent ==
  \A r \in asked, s \in served :
    /\ s.args.op = r.op
    /\ s.args.id = r.id
    /\ SameText(s.args.textview, r.textview)
    /\ \/ SameNumbers(s.args.metadata, r.metadata)
       \/ api = "http" /\ ~Page /\ r.metadata # None
       \/ api = "gRPC" /\ ~Fits(r.metadata)
    /\ \/ s.args.query = r.query /\ s.args.order = r.order
       \/ api = "http" /\ ~Page /\ r.op = "Search"

\* A report the caller is given is the service's: it says OK only of a call the
\* service did, has the status of it unless the service threw, and over
\* gRPC the metadata the service has.
ReportIsTheServices ==
  net = "arrived" /\ answer = "report" =>
    \E p \in reply :
      /\ p.code = "OK" => served # {}
      /\ \A s \in served : /\ s.code = "throws" => p.code # "OK"
                           /\ s.code # "throws" => p.code = s.code
                           /\ p.code = "OK" /\ api = "gRPC" =>
                                ToReport(p).metadata = s.args.metadata
=============================================================================

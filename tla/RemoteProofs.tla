---------------------------- MODULE RemoteProofs ----------------------------
(***************************************************************************)
(* Theorems about modules Client, Wire and Remote, for any threads, times, *)
(* numbers of calls, requests, values of metadata, outcomes of the service *)
(* and size of a word.  First what the conversions keep, then what holds   *)
(* of the Waiter and of the client the process shares, then the exchange.  *)
(***************************************************************************)
EXTENDS Remote, FiniteSetTheorems, TLAPS

\* The one http::Client: who locked the null is the only one to create it.
ConnectInv ==
  /\ api = "gRPC" => \A c \in Callers : pc[c] \notin {"new", "check", "create"}
  /\ \A c, d \in Callers : pc[c] = "create" /\ pc[d] = "create" => c = d
  /\ \A c \in Callers : pc[c] = "create" => globalClient = "dirty"
  /\ created = (IF globalClient = "client" THEN 1 ELSE 0)
  /\ \A c \in Callers : global[c] = "client" => globalClient = "client"
  /\ \A c \in Callers : api = "http" /\ pc[c] \notin {"new", "check", "create"} => global[c] = "client"

\* The Waiter: the flag is set, and the mutex held from then to the wake-up;
\* who sees the one without the other comes after the notify function.
WaitInv ==
  /\ bReady <=> net \in {"notify", "selfwait", "wake", "done"}
  /\ owner = "net" <=> net \in {"notify", "selfwait", "wake"}
  /\ net \in {"selfwait", "wake", "done"} => told
  /\ net = "arrived" => answer \in Answers \cup {Empty}
  /\ \A c \in Callers : pc[c] = "expired" => Timed(time[c])

ClientInv == TypeOK /\ ConnectInv /\ WaitInv /\ NotifiedFirst

\* What ServedAsSent asks of one call of a client and what the service got.
Agrees(args, r) ==
  /\ args.op = r.op
  /\ args.id = r.id
  /\ SameText(args.textview, r.textview)
  /\ \/ SameNumbers(args.metadata, r.metadata)
     \/ api = "http" /\ r.metadata # None
     \/ api = "gRPC" /\ ~Fits(r.metadata)
  /\ \/ args.query = r.query /\ args.order = r.order
     \/ api = "http" /\ r.op = "Search"

\* What ReportIsTheServices asks of a reply and the call of the service.
Tells(p, s) ==
  /\ s.code = "throws" => p.code # "OK"
  /\ s.code # "throws" => p.code = s.code
  /\ p.code = "OK" /\ api = "gRPC" => ToReport(p).metadata = s.args.metadata

\* The exchange: a call nobody asked for is not served, and of a client's own
\* what is served and replied belongs to what was asked.
ExchangeInv ==
  /\ asked = {} => served = {} /\ reply = {}
  /\ \A q, r \in asked : q = r
  /\ ~Page =>
       /\ reply = {} => served = {}
       /\ \A r \in asked : r \in Requests /\ (api = "gRPC" => r.op # "Search" /\ ~ThrowsOnSend(r))
       /\ \A r \in asked, s \in served : Agrees(s.args, r)
       /\ \A p \in reply : p.code = "OK" => served # {}
       /\ \A p \in reply, s \in served : Tells(p, s)
  /\ net = "arrived" /\ answer = "report" => reply # {}

IInv == ClientInv /\ ExchangeInv
-----------------------------------------------------------------------------
(* What the conversions of module Wire keep.                               *)

Types == {"char", "byte", "int16", "word16", "int32", "word32", "int64", "word64", "float",
  "double", "bool", "charstr", "widestr", "array_char", "array_byte", "array_int16",
  "array_word16", "array_int32", "array_word32", "array_int64", "array_word64", "array_float",
  "array_double", "array_charstr", "array_widestr"}

\* The types that come out of a message: none of them is narrowed again, and
\* each goes into the field it came from.
Settled == {"bool", "int32", "int64", "word32", "float", "double", "charstr", "array_int32",
  "array_word32", "array_charstr"}

LEMMA TypesConverted == DOMAIN FieldOf = Types
BY DEF FieldOf, Types

LEMMA TypesSettle ==
  ASSUME NEW t \in Types
  PROVE  TypeOf[FieldOf[t]] \in Settled /\ FieldOf[TypeOf[FieldOf[t]]] = FieldOf[t]
BY DEF FieldOf, TypeOf, Types, Settled

LEMMA FloatingSettles ==
  ASSUME NEW t \in Types
  PROVE  TypeOf[FieldOf[t]] \in Floating <=> t \in {"float", "double"}
BY DEF FieldOf, TypeOf, Types, Floating

LEMMA SettledKept ==
  ASSUME NEW t \in Settled, NEW x
  PROVE  t \in Types /\ Narrow(t, x) = x
BY DEF Settled, Types, Narrow

\* The number an item stands for, in halves.
Halves(type, x) == IF type \in Floating THEN x ELSE 2 * x

\* An item of a word is not negative; one of anything is a whole number.
ItemOf(type) == IF type \in {"word64", "array_word64"} THEN Nat ELSE Int

\* What Fits asks of one item.
ItemFits(type, x) ==
  CASE type \in {"word64", "array_word64"} -> x < Words
    [] type = "array_int64" -> x \in -(Words \div 2) .. (Words \div 2) - 1
    [] type \in {"array_float", "array_double"} -> x % 2 = 0
    [] OTHER -> TRUE

LEMMA WholeOfEven ==
  ASSUME NEW x \in Int, x % 2 = 0
  PROVE  2 * Whole(x) = x
BY DEF Whole

LEMMA Word32Fits ==
  ASSUME NEW x \in Nat, x < Words
  PROVE  Word32(x) = x
BY WordsAssumption DEF Word32

LEMMA NegativeMod ==
  ASSUME NEW x \in Int, NEW w \in Nat, w > 0, x < 0, x + w >= 0
  PROVE  x % w = x + w
<1> DEFINE q == x \div w  r == x % w
<1>1. x = w * q + r /\ r >= 0 /\ r < w /\ q \in Int /\ r \in Int
  OBVIOUS
<1>2. q < 0
  <2>1. q >= 0 => w * q >= 0
    BY <1>1
  <2> QED  BY <1>1, <2>1
<1>3. q > -2
  <2>1. q <= -2 => w * q <= -2 * w
    BY <1>1
  <2> QED  BY <1>1, <2>1
<1>4. q = -1
  BY <1>1, <1>2, <1>3
<1> QED  BY <1>1, <1>4

LEMMA Int32Fits ==
  ASSUME NEW x \in -(Words \div 2) .. (Words \div 2) - 1
  PROVE  Int32(x) = x
<1> DEFINE half == Words \div 2
<1>1. half \in Nat /\ Words = 2 * half /\ half > 0
  BY WordsAssumption
<1>2. x \in Int /\ -half <= x /\ x < half
  BY <1>1
<1>3. CASE x >= 0
  <2>1. x % Words = x
    BY <1>1, <1>2, <1>3
  <2> QED  BY <2>1, <1>2 DEF Int32, Word32
<1>4. CASE x < 0
  <2>1. x + Words >= 0 /\ x + Words < Words
    BY <1>1, <1>2, <1>4
  <2>2. x % Words = x + Words
    BY <2>1, <1>1, <1>2, <1>4, NegativeMod
  <2>3. ~(x + Words < half)
    BY <1>1, <1>2
  <2> QED  BY <2>2, <2>3, <1>1, <1>2 DEF Int32, Word32
<1> QED  BY <1>2, <1>3, <1>4

\* An item that fits stands for the same number when it arrives.
LEMMA ItemKept ==
  ASSUME NEW t \in Types, NEW x \in ItemOf(t), ItemFits(t, x)
  PROVE  Halves(TypeOf[FieldOf[t]], Narrow(t, x)) = Halves(t, x)
<1>1. CASE t \in {"word64", "array_word64"}
  <2>1. Narrow(t, x) = x
    BY <1>1, Word32Fits DEF ItemOf, ItemFits, Narrow
  <2> QED  BY <1>1, <2>1, FloatingSettles DEF Halves, Floating
<1>2. CASE t = "array_int64"
  <2>1. Narrow(t, x) = x
    BY <1>2, Int32Fits DEF ItemOf, ItemFits, Narrow
  <2> QED  BY <1>2, <2>1, FloatingSettles DEF Halves, Floating
<1>3. CASE t \in {"array_float", "array_double"}
  <2>1. 2 * Whole(x) = x
    BY <1>3, WholeOfEven DEF ItemOf, ItemFits
  <2>2. Narrow(t, x) = Whole(x)
    BY <1>3 DEF Narrow
  <2> QED  BY <1>3, <2>1, <2>2, FloatingSettles DEF Halves, Floating
<1>4. CASE t \notin {"word64", "array_word64", "array_int64", "array_float", "array_double"}
  <2>1. Narrow(t, x) = x
    BY <1>4 DEF Narrow
  <2>2. TypeOf[FieldOf[t]] \in Floating <=> t \in Floating
    BY <1>4, FloatingSettles DEF Floating
  <2> QED  BY <2>1, <2>2 DEF Halves
<1> QED  BY <1>1, <1>2, <1>3, <1>4

\* A map of metadata as its types have it.
IsMetadata(m) ==
  \A p \in DOMAIN m : m[p].type \in Types /\ \A i \in DOMAIN m[p].items : m[p].items[i] \in ItemOf(m[p].type)

\* gRPC: every value that fits its field arrives with the numbers it had.
LEMMA NumbersKept ==
  ASSUME NEW m, IsMetadata(m), Fits(m)
  PROVE  SameNumbers(ToZmap(ToMetadata(m)), m)
<1> DEFINE n == ToZmap(ToMetadata(m))
<1>1. DOMAIN n = DOMAIN m
  BY DEF ToZmap, ToMetadata
<1>2. ASSUME NEW p \in DOMAIN m PROVE Numbers(n[p]) = Numbers(m[p])
  <2> DEFINE t == m[p].type  v == m[p].items
  <2>1. n[p] = [type |-> TypeOf[FieldOf[t]], items |-> [i \in DOMAIN v |-> Narrow(t, v[i])]]
    BY DEF ToZmap, ToMetadata, ToZval, ToMetaValue
  <2>2. Numbers(n[p]) = [i \in DOMAIN v |-> Halves(TypeOf[FieldOf[t]], Narrow(t, v[i]))]
    BY <2>1 DEF Numbers, Halves
  <2>3. Numbers(m[p]) = [i \in DOMAIN v |-> Halves(t, v[i])]
    BY DEF Numbers, Halves
  <2>4. ASSUME NEW i \in DOMAIN v
        PROVE  Halves(TypeOf[FieldOf[t]], Narrow(t, v[i])) = Halves(t, v[i])
    <3>1. t \in Types /\ v[i] \in ItemOf(t)
      BY DEF IsMetadata
    <3>2. ItemFits(t, v[i])
      BY DEF Fits, ItemFits
    <3> QED  BY <3>1, <3>2, ItemKept
  <2> HIDE DEF t, v, n
  <2> QED  BY <2>2, <2>3, <2>4
<1> QED  BY <1>1, <1>2 DEF SameNumbers
\* What has come out of a message goes through another one unchanged: a report
\* says of the metadata what the service has.
LEMMA SecondTrip ==
  ASSUME NEW m, ~Unconvertible(m)
  PROVE  LET n == ToZmap(ToMetadata(m)) IN ~Unconvertible(n) /\ ToZmap(ToMetadata(n)) = n
<1> DEFINE n == ToZmap(ToMetadata(m))
<1>1. ASSUME NEW p \in DOMAIN m PROVE m[p].type \in Types
  BY TypesConverted DEF Unconvertible
<1>2. DOMAIN n = DOMAIN m /\ DOMAIN ToZmap(ToMetadata(n)) = DOMAIN n
  BY DEF ToZmap, ToMetadata
<1>3. ASSUME NEW p \in DOMAIN m
      PROVE  n[p].type \in Settled /\ ToZval(ToMetaValue(n[p])) = n[p]
  <2> DEFINE t == TypeOf[FieldOf[m[p].type]]
             v == [i \in DOMAIN m[p].items |-> Narrow(m[p].type, m[p].items[i])]
  <2>1. n[p] = [type |-> t, items |-> v]
    BY DEF ToZmap, ToMetadata, ToZval, ToMetaValue
  <2>2. t \in Settled /\ FieldOf[t] = FieldOf[m[p].type]
    BY <1>1, TypesSettle
  <2>3. [i \in DOMAIN v |-> Narrow(t, v[i])] = v
    <3> HIDE DEF t
    <3> QED  BY <2>2, SettledKept
  <2>4. TypeOf[FieldOf[t]] = t
    BY <2>2
  <2>5. ToZval(ToMetaValue([type |-> t, items |-> v]))
          = [type |-> TypeOf[FieldOf[t]], items |-> [i \in DOMAIN v |-> Narrow(t, v[i])]]
    BY DEF ToZval, ToMetaValue
  <2> HIDE DEF t, v, n
  <2> QED  BY <2>1, <2>2, <2>3, <2>4, <2>5
<1>4. ToZmap(ToMetadata(n)) = [p \in DOMAIN n |-> ToZval(ToMetaValue(n[p]))]
  BY DEF ToZmap, ToMetadata
<1>5. n = [p \in DOMAIN n |-> n[p]]
  BY DEF ToZmap
<1>6. ToZmap(ToMetadata(n)) = n
  <2> HIDE DEF n
  <2> QED  BY <1>2, <1>3, <1>4, <1>5
<1>7. ~Unconvertible(n)
  <2> HIDE DEF n
  <2> QED  BY <1>2, <1>3, SettledKept, TypesConverted DEF Unconvertible
<1> QED  BY <1>6, <1>7

\* A text arrives with its paragraphs, their characters and their tags.
LEMMA TextKept ==
  ASSUME NEW text
  PROVE  SameText(FromDocument(ToDocument(text)), text)
<1> DEFINE back == FromDocument(ToDocument(text))
<1>1. DOMAIN back = DOMAIN text
  BY DEF FromDocument, ToDocument
<1>2. ASSUME NEW i \in DOMAIN text
      PROVE  /\ back[i].chars = text[i].chars
             /\ DOMAIN back[i].tags = DOMAIN text[i].tags
             /\ \A j \in DOMAIN back[i].tags : back[i].tags[j].tag = text[i].tags[j].tag
  BY DEF FromDocument, ToDocument
<1> HIDE DEF back
<1>3. SameText(back, text)
  BY <1>1, <1>2 DEF SameText
<1> QED  BY <1>3 DEF back

LEMMA NothingKept ==
  /\ FromDocument(None) = None /\ ToZmap(ToMetadata(None)) = None /\ ToZmap(None) = None
  /\ SameText(None, None) /\ SameNumbers(None, None) /\ ~Unconvertible(None)
BY DEF None, FromDocument, ToZmap, ToMetadata, SameText, SameNumbers, Unconvertible
-----------------------------------------------------------------------------
(* The two ways of a client's call to the service.                         *)

\* What the gRPC server loads from the message of a client that sent it.
LEMMA GrpcAgrees ==
  ASSUME NEW r \in Requests, api = "gRPC", r.op # "Search", ~ThrowsOnSend(r)
  PROVE  Agrees(FromMessage(ToMessage(r)), r)
<1> DEFINE args == FromMessage(ToMessage(r))
<1>1. /\ args.op = r.op /\ args.id = r.id /\ args.query = None /\ args.order = None
      /\ args.metadata = ToZmap(ToMessage(r).metadata)
      /\ args.textview = FromDocument(ToMessage(r).document)
  BY DEF FromMessage, ToMessage, Args
<1>2. /\ r.op \in {"Insert", "Update", "Remove"}
      /\ r.op # "Insert" => r.textview = None
      /\ r.op = "Remove" => r.metadata = None
      /\ r.query = None /\ r.order = None
  BY RequestsAssumption
<1>3. SameText(args.textview, r.textview)
  BY <1>1, <1>2, TextKept, NothingKept DEF ToMessage
<1>4. CASE r.op = "Remove"
  BY <1>1, <1>2, <1>3, <1>4, NothingKept DEF Agrees, ToMessage
<1>5. CASE r.op \in {"Insert", "Update"}
  <2>1. args.metadata = ToZmap(ToMetadata(r.metadata))
    BY <1>1, <1>5 DEF ToMessage
  <2>2. IsMetadata(r.metadata)
    BY <1>5, RequestsAssumption, TypesConverted DEF ThrowsOnSend, Unconvertible, IsMetadata, ItemOf
  <2>3. Fits(r.metadata) => SameNumbers(args.metadata, r.metadata)
    BY <2>1, <2>2, NumbersKept
  <2>4. Agrees(args, r)
    <3> HIDE DEF args
    <3> QED  BY <1>1, <1>2, <1>3, <2>3 DEF Agrees
  <2> QED  BY <2>4
<1> QED  BY <1>2, <1>4, <1>5

\* What the HTTP server loads from the request of a client, when it can.
LEMMA HttpAgrees ==
  ASSUME NEW r \in Requests, NEW zip \in BOOLEAN, NEW whole \in BOOLEAN, api = "http"
  PROVE  Agrees(Load(HttpRequest(r, zip, whole)), r)
<1> DEFINE req == HttpRequest(r, zip, whole)
           args == Load(req)
<1>1. /\ req.op = r.op /\ req.header = "" /\ req.type = "octet-stream"
      /\ req.body = MakeContents(r) /\ req.text = r.textview
  BY DEF HttpRequest
<1>2. args = LoadDump(req)
  BY <1>1 DEF Load, IsDump
<1>3. DOMAIN MakeContents(r) = Keys(r)
  BY DEF MakeContents
<1>4. r.op # "Search" => "id" \in Keys(r) /\ MakeContents(r)["id"] = r.id
  BY RequestsAssumption DEF Keys, MakeContents, InsertKeys, UpdateKeys, RemoveKeys, AccessKeys
<1>5. r.metadata = None => "metadata" \notin Keys(r)
  BY RequestsAssumption DEF Keys, InsertKeys, UpdateKeys, RemoveKeys, AccessKeys, TimingKeys
<1>6. r.op = "Insert" => ("document" \in Keys(r) <=> r.textview # None)
  BY DEF Keys, InsertKeys, UpdateKeys, RemoveKeys, AccessKeys, TimingKeys
<1>7. "document" \in Keys(r) => MakeContents(r)["document"] = "after:dump"
  BY DEF MakeContents
<1> HIDE DEF req
<1>8. CASE r.op = "Search"
  <2>1. args = Args("Search")
    BY <1>1, <1>2, <1>8 DEF LoadDump
  <2>2. r.id = "" /\ r.textview = None /\ r.metadata = None
    BY <1>8, RequestsAssumption
  <2>3. Agrees(args, r)
    <3> HIDE DEF args
    <3> QED  BY <2>1, <2>2, <1>8, NothingKept DEF Agrees, Args
  <2> QED  BY <2>3 DEF req
<1>9. CASE r.op \in {"Insert", "Update", "Remove"}
  <2>1. Update(req).op = r.op /\ Update(req).id = r.id /\ Update(req).textview = None
        /\ Update(req).query = None /\ Update(req).order = None
        /\ (r.metadata = None => Update(req).metadata = None)
    BY <1>1, <1>3, <1>4, <1>5, <1>9 DEF Update, Access, Args
  <2>2. r.query = None /\ r.order = None /\ (r.op # "Insert" => r.textview = None)
    BY <1>9, RequestsAssumption
  <2>3. CASE r.op = "Insert"
    <3>1. args = [Update(req) EXCEPT !.textview = r.textview]
      BY <1>1, <1>2, <1>3, <1>6, <1>7, <2>3 DEF LoadDump, DocumentKey
    <3>2. /\ args.op = r.op /\ args.id = r.id /\ args.textview = r.textview
          /\ args.query = None /\ args.order = None
          /\ r.metadata = None => args.metadata = None
      BY <3>1, <2>1 DEF Update, Args
    <3>3. SameText(r.textview, r.textview)
      BY DEF SameText
    <3>4. Agrees(args, r)
      <4> HIDE DEF args
      <4> QED  BY <3>2, <3>3, <2>2, NothingKept DEF Agrees
    <3> QED  BY <3>4 DEF req
  <2>4. CASE r.op # "Insert"
    <3>1. args = Update(req)
      BY <1>1, <1>2, <1>9, <2>4 DEF LoadDump
    <3>2. Agrees(args, r)
      <4> HIDE DEF args
      <4> QED  BY <3>1, <2>1, <2>2, <2>4, NothingKept DEF Agrees
    <3> QED  BY <3>2 DEF req
  <2> QED  BY <2>3, <2>4
<1> QED  BY <1>8, <1>9, RequestsAssumption
-----------------------------------------------------------------------------
(* The Waiter and the client of the process.                               *)

\* The server of an exchange that goes round for ever: nobody is called.
Drops ==
  /\ net = "sent" /\ net' = "dropped"
  /\ UNCHANGED <<api, notify, connecting, pc, waiting, answer, waiter>>

LEMMA StepOfClient ==
  ASSUME [RemoteNext]_remoteVars
  PROVE  [Next]_vars \/ Drops
<1>1. CASE UNCHANGED remoteVars
  BY <1>1 DEF remoteVars
<1>2. CASE HttpCall \/ GrpcCall \/ PageCall \/ PageDone \/ ArriveFailure
  BY <1>2 DEF HttpCall, GrpcCall, PageCall, PageDone, ArriveFailure, Next, Network
<1>3. CASE RemoteNetwork
  <2>1. CASE HttpServe
    BY <2>1 DEF HttpServe, Drops
  <2>2. CASE GrpcServe
    BY <2>2 DEF GrpcServe
  <2>3. CASE ArriveReply \/ HandOver \/ CallNotify \/ NotifyAll
    BY <2>3 DEF ArriveReply, HandOver, Next, Network
  <2> QED  BY <1>3, <2>1, <2>2, <2>3 DEF RemoteNetwork
<1>4. ASSUME NEW c \in Callers, Connect(c) \/ CallWait(c) \/ Wait(c) \/ SpuriousWakeup(c) \/ Expire(c)
      PROVE  Next
  BY <1>4 DEF Next
<1> QED  BY <1>1, <1>2, <1>3, <1>4 DEF RemoteNext

LEMMA SomeCaller == Cardinality(Callers) \in Nat /\ Cardinality(Callers) >= 1
BY CallersAssumption, SenderAssumption, FS_CardinalityType, FS_EmptySet

LEMMA ClientInit == Init => ClientInv
<1> SUFFICES ASSUME Init PROVE ClientInv
  OBVIOUS
<1>1. TypeOK
  <2>1. created \in 0 .. Cardinality(Callers)
    BY SomeCaller DEF Init
  <2>2. time \in [Callers -> Times \cup {0}] /\ calls \in [Callers -> 0 .. Calls]
    BY CallsAssumption DEF Init
  <2>3. pc \in [Callers -> {"new", "check", "create", "set", "lock", "waiting", "woken", "expired"}]
    BY DEF Init
  <2> QED  BY <2>1, <2>2, <2>3 DEF Init, TypeOK
<1>2. ConnectInv
  BY DEF Init, ConnectInv
<1>3. WaitInv /\ NotifiedFirst
  BY DEF Init, WaitInv, NotifiedFirst
<1> QED  BY <1>1, <1>2, <1>3 DEF ClientInv

LEMMA ConnectStep ==
  ASSUME ClientInv, NEW k \in Callers, Connect(k)
  PROVE  ClientInv'
<1> USE DEF ClientInv, TypeOK, ConnectInv, WaitInv, NotifiedFirst, waiting, waiter, connecting, Timed
<1>1. CASE LoadGlobal(k)
  BY <1>1 DEF LoadGlobal, Clean
<1>2. CASE LockGlobal(k)
  BY <1>2 DEF LockGlobal, Clean
<1>3. CASE CreateGlobal(k)
  BY <1>3, SomeCaller DEF CreateGlobal
<1>4. CASE UseGlobal(k)
  BY <1>4 DEF UseGlobal
<1> HIDE DEF ClientInv
<1> QED  BY <1>1, <1>2, <1>3, <1>4 DEF Connect

LEMMA NetworkStep ==
  ASSUME ClientInv, Modify \/ AsyncCall \/ Network \/ Drops
  PROVE  ClientInv'
<1> USE DEF ClientInv, TypeOK, ConnectInv, WaitInv, NotifiedFirst, waiting, waiter, connecting, Timed
<1>1. CASE Send
  BY <1>1 DEF Send
<1>2. CASE Arrive
  <2>1. answer' \in Answers \cup {"throw", Empty}
    <3>1. \A r \in HttpReplies : HttpAnswer(r) \in Answers \cup {"throw", Empty}
      BY DEF HttpReplies, HttpAnswer, LoadReport, Answers, Empty
    <3>2. \A r \in GrpcReplies : GrpcAnswer(r) \in Answers \cup {"throw", Empty}
      BY DEF GrpcReplies, GrpcAnswer, Answers
    <3> QED  BY <1>2, <3>1, <3>2 DEF Arrive
  <2>2. net' \in {"dropped", "arrived"} /\ (net' = "arrived" => answer' # "throw")
    BY <1>2 DEF Arrive
  <2>3. UNCHANGED <<api, notify, connecting, pc, waiting, waiter>> /\ net = "sent"
    BY <1>2 DEF Arrive
  <2> QED  BY <2>1, <2>2, <2>3
<1>3. CASE Done
  BY <1>3 DEF Done
<1>4. CASE CallNotify
  BY <1>4 DEF CallNotify
<1>5. CASE NotifyAll
  BY <1>5 DEF NotifyAll
<1>6. CASE Drops
  BY <1>6 DEF Drops
<1> HIDE DEF ClientInv
<1> QED  BY <1>1, <1>2, <1>3, <1>4, <1>5, <1>6 DEF Modify, AsyncCall, Network

LEMMA WaitStep ==
  ASSUME ClientInv, NEW k \in Callers, CallWait(k) \/ Wait(k) \/ SpuriousWakeup(k) \/ Expire(k)
  PROVE  ClientInv'
<1> USE DEF ClientInv, TypeOK, ConnectInv, WaitInv, NotifiedFirst, waiting, waiter, connecting, Timed
<1>1. CASE CallWait(k)
  BY <1>1, CallsAssumption, TimesAssumption DEF CallWait
<1>2. CASE Block(k)
  BY <1>2 DEF Block
<1>3. CASE Take(k)
  BY <1>3 DEF Take
<1>4. CASE GiveUp(k)
  BY <1>4 DEF GiveUp
<1>5. CASE SpuriousWakeup(k)
  BY <1>5 DEF SpuriousWakeup
<1>6. CASE Expire(k)
  BY <1>6 DEF Expire
<1> HIDE DEF ClientInv
<1> QED  BY <1>1, <1>2, <1>3, <1>4, <1>5, <1>6 DEF Wait

LEMMA ClientNext ==
  ASSUME ClientInv, [Next]_vars \/ Drops
  PROVE  ClientInv'
<1>1. CASE UNCHANGED vars
  BY <1>1 DEF vars, ClientInv, TypeOK, ConnectInv, WaitInv, NotifiedFirst, Timed
<1> QED  BY <1>1, ConnectStep, NetworkStep, WaitStep DEF Next

THEOREM ClientInvariance == RemoteSpec => []ClientInv
<1>1. RemoteInit => ClientInv
  BY ClientInit DEF RemoteInit
<1>2. ClientInv /\ [RemoteNext]_remoteVars => ClientInv'
  BY StepOfClient, ClientNext
<1> QED  BY <1>1, <1>2, PTL DEF RemoteSpec

\* Types of the clients' state, for any number of threads.
THEOREM TypeCorrect == RemoteSpec => []TypeOK
<1>1. ClientInv => TypeOK
  BY DEF ClientInv
<1> QED  BY <1>1, ClientInvariance, PTL

\* However many threads set an address at once, one http::Client is created and
\* nobody goes on with a null one (SetAddress of the HTTP client).
THEOREM OneClientCreated == RemoteSpec => []OneGlobalClient
<1>1. ClientInv => OneGlobalClient
  BY DEF ClientInv, ConnectInv, TypeOK, OneGlobalClient
<1> QED  BY <1>1, ClientInvariance, PTL

\* No call of Wait has the answer before the notify function was given it (Done
\* holds the mutex from the flag to the wake-up).
THEOREM NotifyComesFirst == RemoteSpec => []NotifiedFirst
<1>1. ClientInv => NotifiedFirst
  BY DEF ClientInv
<1> QED  BY <1>1, ClientInvariance, PTL

\* A thread is in Wait after the request only, and none is left behind by NotifyAll.
WokenInv ==
  \A c \in Callers : /\ pc[c] \in {"lock", "waiting", "woken", "expired"} => net # "unsent"
                     /\ pc[c] = "waiting" => net # "done"

LEMMA WokenNext ==
  ASSUME ClientInv, WokenInv, [Next]_vars \/ Drops
  PROVE  WokenInv'
<1>1. pc \in [Callers -> {"new", "check", "create", "set", "lock", "waiting", "woken", "expired"}]
  BY DEF ClientInv, TypeOK
<1>2. CASE Modify \/ AsyncCall \/ Arrive \/ Done \/ CallNotify \/ Drops \/ UNCHANGED vars
  BY <1>2 DEF Modify, AsyncCall, Send, Arrive, Done, CallNotify, Drops, vars, WokenInv
<1>3. CASE NotifyAll
  <2>1. \A c \in Callers : pc'[c] = IF pc[c] = "waiting" THEN "woken" ELSE pc[c]
    BY <1>3 DEF NotifyAll
  <2> QED  BY <1>3, <2>1 DEF NotifyAll, WokenInv
<1>4. ASSUME NEW k \in Callers, Connect(k)
      PROVE  WokenInv'
  BY <1>1, <1>4 DEF Connect, LoadGlobal, LockGlobal, CreateGlobal, UseGlobal, WokenInv
<1>5. ASSUME NEW k \in Callers, CallWait(k) \/ Take(k) \/ GiveUp(k) \/ SpuriousWakeup(k) \/ Expire(k)
      PROVE  WokenInv'
  BY <1>1, <1>5 DEF CallWait, Take, GiveUp, SpuriousWakeup, Expire, WokenInv
<1>6. ASSUME NEW k \in Callers, Block(k)
      PROVE  WokenInv'
  <2>1. net # "done"
    BY <1>6 DEF Block, ClientInv, WaitInv
  <2> QED  BY <1>1, <1>6, <2>1 DEF Block, WokenInv
<1> QED  BY <1>2, <1>3, <1>4, <1>5, <1>6 DEF Next, Network, Wait

\* No wake-up is lost: a thread in Wait has the mutex free before it and is not asleep,
\* or the network has still to act and can, or the answer is one of the two that never
\* come (Done and Wait of both Waiters).  It is what the end of WaitersReturn rests on:
\* the condition is notified once, after which nobody may sleep on it.
SleepersAreWoken ==
  \A c \in Callers : Asks(c) # "no" =>
    \/ pc[c] # "waiting" /\ owner = "none"
    \/ net \in {"sent", "notify", "wake"}
    \/ net = "arrived" /\ owner = "none"
    \/ net \in {"dropped", "selfwait"}

THEOREM NoWakeupIsLost == RemoteSpec => []SleepersAreWoken
<1>1. RemoteInit => WokenInv
  BY DEF RemoteInit, Init, WokenInv
<1>2. ClientInv /\ WokenInv /\ [RemoteNext]_remoteVars => WokenInv'
  BY StepOfClient, WokenNext
<1>3. ClientInv /\ WokenInv => SleepersAreWoken
  BY DEF ClientInv, TypeOK, WaitInv, WokenInv, SleepersAreWoken, Asks
<1> QED  BY <1>1, <1>2, <1>3, ClientInvariance, PTL DEF RemoteSpec

-----------------------------------------------------------------------------
(* The Waiter is the promise of IService::IPending.                        *)

Answered == IF bReady THEN result ELSE "none"
Asking == [c \in Callers |-> Asks(c)]

LEMMA AskingAfter ==
  ASSUME NEW k \in Callers, \A c \in Callers \ {k} : Asks(c)' = Asks(c)
  PROVE  Asking' = [Asking EXCEPT ![k] = Asks(k)']
BY DEF Asking

LEMMA SameAsks ==
  ASSUME NEW c \in Callers, UNCHANGED api, pc'[c] = pc[c], time'[c] = time[c]
  PROVE  Asks(c)' = Asks(c)
BY DEF Asks, Timed

LEMMA WaitingAsks ==
  ASSUME NEW c \in Callers, UNCHANGED api, time'[c] = time[c],
         {pc[c], pc'[c]} \subseteq {"lock", "waiting", "woken", "expired"}
                           \/ {pc[c], pc'[c]} \cap {"lock", "waiting", "woken", "expired"} = {}
  PROVE  Asks(c)' = Asks(c)
BY DEF Asks, Timed

\* A step that changes neither what is asked nor what is answered is none of the promise's.
LEMMA PromiseStutters ==
  ASSUME UNCHANGED <<api, got, Answered>>, \A c \in Callers : Asks(c)' = Asks(c)
  PROVE  UNCHANGED P!vars
<1>1. Asking' = Asking
  BY DEF Asking
<1> QED  BY <1>1 DEF P!vars, Answered, Asking

LEMMA PromiseSteps ==
  ASSUME ClientInv, [Next]_vars \/ Drops
  PROVE  [P!Next]_(P!vars)
<1> USE DEF ClientInv, TypeOK, waiting, waiter, connecting
<1>1. CASE UNCHANGED vars
  <2>1. UNCHANGED <<api, got, Answered, pc, time>>
    BY <1>1 DEF vars, Answered
  <2> QED  BY <2>1, SameAsks, PromiseStutters
<1>2. ASSUME NEW k \in Callers, Connect(k) PROVE UNCHANGED P!vars
  <2>1. UNCHANGED <<api, got, Answered, time>>
    BY <1>2 DEF Connect, LoadGlobal, LockGlobal, CreateGlobal, UseGlobal, Answered
  <2>2. pc' = pc \/ \E step \in {"check", "create", "set"} :
                      pc[k] \in {"new", "check", "create"} /\ pc' = [pc EXCEPT ![k] = step]
    BY <1>2 DEF Connect, LoadGlobal, LockGlobal, CreateGlobal, UseGlobal
  <2>3. ASSUME NEW c \in Callers PROVE Asks(c)' = Asks(c)
    BY <2>1, <2>2, WaitingAsks
  <2> QED  BY <2>1, <2>3, PromiseStutters
<1>3. CASE Send \/ Arrive \/ CallNotify \/ Drops
  <2>1. UNCHANGED <<api, got, Answered, pc, time>>
    BY <1>3 DEF Send, Arrive, CallNotify, Drops, Answered
  <2> QED  BY <2>1, SameAsks, PromiseStutters
<1>4. CASE Done
  <2>1. UNCHANGED <<api, got, pc, time>> /\ Asking' = Asking
    BY <1>4, SameAsks DEF Done, Asking
  <2>2. Answered = "none" /\ Answered' \in Answers \cup {Empty}
    BY <1>4 DEF Done, WaitInv, Answered
  <2>3. P!Resolve
    BY <2>1, <2>2 DEF P!Resolve, P!NoAnswer, Answered, Asking
  <2> QED  BY <2>3 DEF P!Next
<1>5. CASE NotifyAll
  <2>1. UNCHANGED <<api, got, Answered, time>>
    BY <1>5 DEF NotifyAll, Answered
  <2>2. ASSUME NEW c \in Callers PROVE Asks(c)' = Asks(c)
    BY <1>5, <2>1, WaitingAsks DEF NotifyAll
  <2> QED  BY <2>1, <2>2, PromiseStutters
<1>6. ASSUME NEW k \in Callers, CallWait(k) PROVE P!Next
  <2>1. UNCHANGED <<api, got, Answered>> /\ pc[k] = "set" /\ pc'[k] = "lock"
    BY <1>6 DEF CallWait, Answered
  <2>2. \A c \in Callers \ {k} : Asks(c)' = Asks(c)
    BY <1>6, SameAsks DEF CallWait
  <2>3. Asks(k) = "no" /\ Asks(k)' \in {"timed", "untimed"}
    BY <2>1 DEF Asks
  <2>4. Asking[k] = "no" /\ Asking' = [Asking EXCEPT ![k] = Asks(k)']
    BY <2>2, <2>3, AskingAfter DEF Asking
  <2>5. P!Ask(k)
    BY <2>1, <2>3, <2>4 DEF P!Ask, Answered, Asking
  <2> QED  BY <2>5 DEF P!Next
<1>7. ASSUME NEW k \in Callers, Block(k) \/ SpuriousWakeup(k) \/ Expire(k) PROVE UNCHANGED P!vars
  <2>1. UNCHANGED <<api, got, Answered, time>>
    BY <1>7 DEF Block, SpuriousWakeup, Expire, Answered
  <2>2. \E step \in {"waiting", "woken", "expired"} :
          pc[k] \in {"lock", "waiting", "woken"} /\ pc' = [pc EXCEPT ![k] = step]
    BY <1>7 DEF Block, SpuriousWakeup, Expire
  <2>3. ASSUME NEW c \in Callers PROVE Asks(c)' = Asks(c)
    BY <2>1, <2>2, WaitingAsks
  <2> QED  BY <2>1, <2>3, PromiseStutters
<1>8. ASSUME NEW k \in Callers, Take(k) PROVE P!Next
  <2>1. /\ UNCHANGED <<api, time, bReady>> /\ bReady
        /\ pc[k] \in {"lock", "woken", "expired"} /\ pc' = [pc EXCEPT ![k] = "set"]
        /\ got' = [got EXCEPT ![k] = result]
        /\ result' = IF api = "http" THEN result ELSE Empty
    BY <1>8 DEF Take
  <2>2. \A c \in Callers \ {k} : Asks(c)' = Asks(c)
    BY <2>1, SameAsks
  <2>3. Asks(k) # "no" /\ Asks(k)' = "no"
    BY <2>1 DEF Asks
  <2>4. Asking[k] # "no" /\ Asking' = [Asking EXCEPT ![k] = "no"]
    BY <2>2, <2>3, AskingAfter DEF Asking
  <2>5. Answered = result /\ Answered' = result' /\ result # "none"
    BY <2>1 DEF Answered, Answers, Empty
  <2>6. P!Return(k)
    BY <2>1, <2>4, <2>5 DEF P!Return, P!NoAnswer, Answered, Asking
  <2> QED  BY <2>6 DEF P!Next
<1>9. ASSUME NEW k \in Callers, GiveUp(k) PROVE P!Next
  <2>1. /\ UNCHANGED <<api, time, bReady>> /\ ~bReady
        /\ pc[k] = "expired" /\ pc' = [pc EXCEPT ![k] = "set"]
        /\ got' = [got EXCEPT ![k] = "late"]
    BY <1>9 DEF GiveUp
  <2>2. \A c \in Callers \ {k} : Asks(c)' = Asks(c)
    BY <2>1, SameAsks
  <2>3. Asks(k) = "timed" /\ Asks(k)' = "no"
    BY <2>1 DEF Asks, WaitInv
  <2>4. Asking[k] = "timed" /\ Asking' = [Asking EXCEPT ![k] = "no"]
    BY <2>2, <2>3, AskingAfter DEF Asking
  <2>5. Answered = "none" /\ Answered' = "none"
    BY <2>1 DEF Answered
  <2>6. P!GiveUp(k)
    BY <2>1, <2>4, <2>5 DEF P!GiveUp, P!NoAnswer, Answered, Asking
  <2> QED  BY <2>6 DEF P!Next
<1> HIDE DEF ClientInv
<1> QED  BY <1>1, <1>2, <1>3, <1>4, <1>5, <1>6, <1>7, <1>8, <1>9
         DEF Next, Network, Modify, AsyncCall, Wait

\* Either Waiter does for its callers what IPending promises: one answer, given to
\* every call or to one, and no call that gives up before its time.
THEOREM WaiterIsPromise == RemoteSpec => ImplementsPromise
<1>1. RemoteInit => P!Init
  <2> SUFFICES ASSUME RemoteInit PROVE P!Init
    OBVIOUS
  <2>1. bReady = FALSE /\ got = [c \in Callers |-> "none"]
        /\ \A c \in Callers : Asks(c) = "no"
    BY DEF RemoteInit, Init, Asks
  <2> QED  BY <2>1 DEF P!Init, P!NoAnswer
<1>2. ClientInv /\ [RemoteNext]_remoteVars => [P!Next]_(P!vars)
  BY StepOfClient, PromiseSteps
<1> QED  BY <1>1, <1>2, ClientInvariance, PTL DEF RemoteSpec, ImplementsPromise, P!Spec
-----------------------------------------------------------------------------
(* The exchange.                                                           *)

LEMMA Forgotten ==
  ASSUME Forget, ~(net' = "arrived" /\ answer' = "report")
  PROVE  ExchangeInv'
BY DEF Forget, ExchangeInv, Page

\* A step that leaves the exchange alone, and the client where it is or further on.
LEMMA ExchangeKept ==
  ASSUME ExchangeInv, UNCHANGED <<exchange, api, net, answer>>
  PROVE  ExchangeInv'
BY DEF ExchangeInv, exchange, Page, Agrees, Tells

\* What the server throws before the call is no status of the service.
LEMMA ThrownCodes ==
  ASSUME NEW req
  PROVE  Throws(req) # "OK"
BY DEF Throws, JsonThrows, DumpThrows

LEMMA AskStep ==
  ASSUME IInv, HttpCall \/ GrpcCall
  PROVE  ExchangeInv'
<1>1. PICK r \in Requests : Ask(r) /\ (api = "gRPC" => r.op # "Search" /\ ~ThrowsOnSend(r))
  BY DEF HttpCall, GrpcCall, Modify, AsyncCall
<1>2. asked' = {r} /\ served' = {} /\ reply' = {} /\ UNCHANGED api /\ net' = "sent"
  BY <1>1 DEF Ask, HttpCall, GrpcCall, Modify, AsyncCall, Send, IInv, ExchangeInv
<1>3. api' = "gRPC" => r.op # "Search" /\ ~ThrowsOnSend(r)
  BY <1>1, <1>2
<1> QED  BY <1>2, <1>3 DEF ExchangeInv

\* The HTTP server and a request that it loads.
LEMMA ActionStep ==
  ASSUME NEW r \in Requests, NEW zip \in BOOLEAN, NEW whole \in BOOLEAN, api = "http",
         served = {}, ActionCall(HttpRequest(r, zip, whole))
  PROVE  /\ reply' # {}
         /\ \A s \in served' : Agrees(s.args, r)
         /\ \A p \in reply' : p.code = "OK" => served' # {}
         /\ \A p \in reply', s \in served' : Tells(p, s)
<1> DEFINE req == HttpRequest(r, zip, whole)
<1>1. CASE UNCHANGED served /\ reply' = {HttpReply("Ok", "html", "cancelled")}
  BY <1>1 DEF HttpReply
<1>2. CASE Throws(req) # "nothing" /\ Refuse(Throws(req))
  <2>1. PICK p : reply' = {p} /\ p.code # "OK" /\ UNCHANGED served
    BY <1>2, ThrownCodes DEF Refuse, HttpReply
  <2> QED  BY <2>1
<1>3. CASE CallService(Load(req))
  <2>1. PICK code \in Outcomes, typed \in OutputTypes :
          /\ served' = {[args |-> Load(req), code |-> code]}
          /\ reply' = {IF code = "throws" THEN HttpReply("Failed", "none", code)
                                          ELSE HttpReply("Ok", OutputJSON(typed), code)}
    BY <1>3 DEF CallService
  <2>2. Agrees(Load(req), r)
    BY HttpAgrees
  <2>3. ASSUME NEW p \in reply', NEW s \in served' PROVE Tells(p, s)
    BY <2>1 DEF HttpReply, Tells
  <2> HIDE DEF req
  <2> QED  BY <2>1, <2>2, <2>3
<1> QED  BY <1>1, <1>2, <1>3 DEF ActionCall

LEMMA HttpServeStep ==
  ASSUME IInv, HttpServe
  PROVE  ExchangeInv'
<1>1. PICK r \in asked, zip \in BOOLEAN, whole \in BOOLEAN :
        LET req == HttpRequest(r, zip, whole) IN
        \/ ~InflateSpins(req) /\ ActionCall(req) /\ UNCHANGED <<vars, asked>>
        \/ InflateSpins(req) /\ r.timeout > 0 /\ reply' = {HttpReply("TimedOut", "none", "spins")}
             /\ UNCHANGED <<vars, asked, served>>
        \/ InflateSpins(req) /\ r.timeout <= 0 /\ net' = "dropped" /\ Forget
             /\ UNCHANGED <<api, notify, connecting, pc, waiting, answer, waiter>>
  BY DEF HttpServe
<1>2. api = "http" /\ net = "sent" /\ reply = {} /\ served = {} /\ ~Page
      /\ \A q \in asked : q \in Requests
  BY DEF HttpServe, IInv, ExchangeInv, Page
<1>3. CASE Forget /\ net' = "dropped"
  BY <1>3, Forgotten
<1>4. CASE reply' = {HttpReply("TimedOut", "none", "spins")} /\ UNCHANGED <<vars, asked, served>>
  BY <1>2, <1>4 DEF vars, HttpReply, IInv, ExchangeInv, Page
<1>5. CASE ActionCall(HttpRequest(r, zip, whole)) /\ UNCHANGED <<vars, asked>>
  <2>1. /\ reply' # {}
        /\ \A s \in served' : Agrees(s.args, r)
        /\ \A p \in reply' : p.code = "OK" => served' # {}
        /\ \A p \in reply', s \in served' : Tells(p, s)
    BY <1>1, <1>2, <1>5, ActionStep
  <2>2. asked' = {r} /\ r \in Requests /\ UNCHANGED <<api, net, answer>>
    BY <1>2, <1>5 DEF IInv, ExchangeInv, vars
  <2> QED  BY <1>2, <2>1, <2>2 DEF ExchangeInv, Page, Agrees, Tells
<1> QED  BY <1>1, <1>3, <1>4, <1>5

\* The gRPC server and a message of a client that sent it.
LEMMA ChangeStep ==
  ASSUME NEW r \in Requests, api = "gRPC", r.op # "Search", ~ThrowsOnSend(r),
         served = {}, Change(ToMessage(r))
  PROVE  /\ reply' # {}
         /\ \A s \in served' : Agrees(s.args, r)
         /\ \A p \in reply' : p.code = "OK" => served' # {}
         /\ \A p \in reply', s \in served' : Tells(p, s)
<1> DEFINE msg == ToMessage(r)  args == FromMessage(msg)
<1>1. CASE reply' = {[Fault EXCEPT !.status = "error"]} /\ UNCHANGED served
  BY <1>1 DEF Fault
<1>2. CASE reply' = {Fault} /\ UNCHANGED served
  BY <1>2 DEF Fault
<1>3. ASSUME NEW code \in Outcomes,
             LET report == [code |-> code, metadata |-> IF code = "OK" THEN args.metadata ELSE None]
                 respond == FromReport(report) IN
             /\ served' = {[args |-> args, code |-> code]}
             /\ reply' = {IF code = "throws" \/ Unconvertible(report.metadata) THEN Fault
                          ELSE [status |-> "OK", code |-> respond.code, metadata |-> respond.metadata]}
      PROVE  /\ reply' # {}
             /\ \A s \in served' : Agrees(s.args, r)
             /\ \A p \in reply' : p.code = "OK" => served' # {}
             /\ \A p \in reply', s \in served' : Tells(p, s)
  <2> DEFINE metadata == IF code = "OK" THEN args.metadata ELSE None
             said == [status |-> "OK", code |-> code, metadata |-> ToMetadata(metadata)]
  <2>1. /\ served' = {[args |-> args, code |-> code]}
        /\ reply' = {IF code = "throws" \/ Unconvertible(metadata) THEN Fault ELSE said}
    BY <1>3 DEF FromReport
  <2>2. Agrees(args, r)
    BY GrpcAgrees
  <2>3. ~Unconvertible(args.metadata) /\ ToZmap(ToMetadata(args.metadata)) = args.metadata
    <3>1. args.metadata = ToZmap(msg.metadata)
      BY DEF FromMessage, Args
    <3>2. CASE r.op = "Remove"
      BY <3>1, <3>2, NothingKept DEF ToMessage
    <3>3. CASE r.op \in {"Insert", "Update"}
      <4>1. args.metadata = ToZmap(ToMetadata(r.metadata)) /\ ~Unconvertible(r.metadata)
        BY <3>1, <3>3 DEF ToMessage, ThrowsOnSend
      <4> HIDE DEF args
      <4> QED  BY <4>1, SecondTrip
    <3> QED  BY <3>2, <3>3, RequestsAssumption
  <2>4. ~Unconvertible(metadata)
    BY <2>3, NothingKept
  <2>5. ASSUME NEW p \in reply', NEW s \in served' PROVE Tells(p, s)
    <3> HIDE DEF args, metadata
    <3>1. CASE code = "throws"
      BY <2>1, <3>1 DEF Fault, Tells
    <3>2. CASE code # "throws"
      <4>1. p = said /\ s = [args |-> args, code |-> code]
        BY <2>1, <2>4, <3>2
      <4>2. code = "OK" => ToReport(p).metadata = args.metadata
        BY <4>1, <2>3 DEF ToReport, metadata
      <4> QED  BY <4>1, <4>2, <3>2 DEF Tells
    <3> QED  BY <3>1, <3>2
  <2> HIDE DEF args, metadata, said
  <2> QED  BY <2>1, <2>2, <2>5
<1> QED  BY <1>1, <1>2, <1>3 DEF Change

LEMMA GrpcServeStep ==
  ASSUME IInv, GrpcServe
  PROVE  ExchangeInv'
<1>1. PICK r \in asked : Change(ToMessage(r))
  BY DEF GrpcServe
<1>2. /\ api = "gRPC" /\ net = "sent" /\ served = {}
      /\ r \in Requests /\ r.op # "Search" /\ ~ThrowsOnSend(r)
  BY DEF GrpcServe, IInv, ExchangeInv, Page
<1>3. /\ reply' # {}
      /\ \A s \in served' : Agrees(s.args, r)
      /\ \A p \in reply' : p.code = "OK" => served' # {}
      /\ \A p \in reply', s \in served' : Tells(p, s)
  BY <1>1, <1>2, ChangeStep
<1>4. asked' = {r} /\ UNCHANGED <<api, net, answer>>
  BY DEF GrpcServe, IInv, ExchangeInv, vars
<1> QED  BY <1>2, <1>3, <1>4 DEF ExchangeInv, Page, Agrees, Tells

LEMMA ArriveStep ==
  ASSUME IInv, ArriveReply \/ ArriveFailure
  PROVE  ExchangeInv'
<1>1. Arrive /\ Keep /\ UNCHANGED api /\ net = "sent" /\ net' # "unsent"
  BY DEF ArriveReply, ArriveFailure, Arrive
<1>2. CASE answer' # "report"
  BY <1>1, <1>2, Forgotten DEF Keep
<1>3. CASE answer' = "report"
  <2>1. reply # {}
    BY <1>3 DEF ArriveReply, ArriveFailure
  <2>2. UNCHANGED exchange
    BY <1>1, <1>3 DEF Keep
  <2> QED  BY <1>1, <2>1, <2>2 DEF IInv, ExchangeInv, exchange, Page, Agrees, Tells
<1> QED  BY <1>2, <1>3

\* Another program's call is over before a client's begins.
LEMMA PageStep ==
  ASSUME IInv, PageCall \/ PageDone
  PROVE  ExchangeInv'
BY DEF PageCall, PageDone, Forget, IInv, ExchangeInv, Page, vars

LEMMA ExchangeNext ==
  ASSUME IInv, [RemoteNext]_remoteVars
  PROVE  ExchangeInv'
<1>1. CASE UNCHANGED remoteVars
  BY <1>1, ExchangeKept DEF remoteVars, vars, IInv
<1>2. CASE HandOver
  BY <1>2, Forgotten DEF HandOver, Done
<1>3. ASSUME UNCHANGED exchange,
             CallNotify \/ NotifyAll \/ \E c \in Callers :
               Connect(c) \/ CallWait(c) \/ Wait(c) \/ SpuriousWakeup(c) \/ Expire(c)
      PROVE  ExchangeInv'
  <2>1. UNCHANGED <<api, answer>> /\ (UNCHANGED net \/ net' \in {"selfwait", "wake", "done"}) /\ (Page <=> Page')
    BY <1>3 DEF CallNotify, NotifyAll, Connect, CallWait, Wait, SpuriousWakeup, Expire, LoadGlobal,
                LockGlobal, CreateGlobal, UseGlobal, Block, Take, GiveUp, Page
  <2> QED  BY <1>3, <2>1 DEF IInv, ExchangeInv, exchange, Page, Agrees, Tells
<1> QED  BY <1>1, <1>2, <1>3, AskStep, HttpServeStep, GrpcServeStep, ArriveStep, PageStep
         DEF RemoteNext, RemoteNetwork

THEOREM Invariance == RemoteSpec => []IInv
<1>1. RemoteInit => IInv
  BY ClientInit DEF RemoteInit, IInv, ExchangeInv, Init
<1>2. IInv /\ [RemoteNext]_remoteVars => IInv'
  BY StepOfClient, ClientNext, ExchangeNext DEF IInv
<1> QED  BY <1>1, <1>2, PTL DEF RemoteSpec

\* What the service is called with for a client is what the client asked, with the
\* exceptions that ServedAsSent names: the object, the text and its tags, every number
\* of metadata that fit, for any size of a word (Convert of messages.cpp, MakeContents
\* of http/client.cpp, zmap::Load).
THEOREM ClientsServedAsSent == RemoteSpec => [](~Page => ServedAsSent)
<1>1. IInv => (~Page => ServedAsSent)
  BY DEF IInv, ExchangeInv, ServedAsSent, Agrees
<1> QED  BY <1>1, Invariance, PTL

\* A report the caller is given is the service's: its status, its metadata, and OK
\* only of a call the service did (ActionCall, Change and the two Waiters).
THEOREM ReportsAreTheServices == RemoteSpec => []ReportIsTheServices
<1>1. IInv => ReportIsTheServices
  <2> SUFFICES ASSUME IInv, net = "arrived", answer = "report" PROVE ReportIsTheServices
    BY DEF ReportIsTheServices
  <2>1. PICK p : p \in reply
    BY DEF IInv, ExchangeInv
  <2>2. (p.code = "OK" => served # {}) /\ \A s \in served : Tells(p, s)
    BY <2>1 DEF IInv, ExchangeInv, Page
  <2> QED  BY <2>1, <2>2 DEF ReportIsTheServices, Tells
<1> QED  BY <1>1, Invariance, PTL
=============================================================================

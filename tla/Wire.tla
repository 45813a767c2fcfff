--------------------------------- MODULE Wire ---------------------------------
(***************************************************************************)
(* What becomes of the arguments of a call and of its report on their way: *)
(* the gRPC messages (src/network/grpc/messages.cpp), the contents of an   *)
(* HTTP request (http/client.cpp), its loading by the server (zmload.cpp,  *)
(* jsload.cpp, unpack.cpp) and what ActionCall and Change make of it.      *)
(*                                                                         *)
(* A map (mtc::zmap) is the function from the paths of its leaves to their *)
(* values, so that maps inside maps are longer paths; a value is a type    *)
(* and its items.  Floating values are counted in halves.  A text is the   *)
(* sequence of its paragraphs, each with the tags around it.               *)
(***************************************************************************)
EXTENDS Integers, Sequences

CONSTANTS Words,      \* how many values a word of 32 bits has
          CharKeys,   \* keys that are strings
          Codepages   \* encodings AddParagraph knows

ASSUME WordsAssumption == Words \in Nat /\ Words % 2 = 0 /\ Words > 0

None == <<>>          \* no map, no text, no query, no order

\* What a call is asked to do: InsertArgs, UpdateArgs, RemoveArgs, SearchArgs.
Args(op) == [op |-> op, id |-> "", timeout |-> -1, ifClause |-> None, metadata |-> None,
             textview |-> None, query |-> None, order |-> None]

\* A value is a map when it has no leaf of its own.
IsMap(value) == value # None /\ <<>> \notin DOMAIN value
-----------------------------------------------------------------------------
(* grpc/messages.cpp: values and maps.                                     *)

FieldOf == [char |-> "as_int32", byte |-> "as_uint32", int16 |-> "as_int32",
  word16 |-> "as_uint32", int32 |-> "as_int32", word32 |-> "as_uint32", int64 |-> "as_int64",
  word64 |-> "as_uint32", float |-> "as_float", double |-> "as_double", bool |-> "as_bool",
  charstr |-> "as_string", widestr |-> "as_string",
  array_char |-> "as_array_int32", array_byte |-> "as_array_uint32",
  array_int16 |-> "as_array_int32", array_word16 |-> "as_array_uint32",
  array_int32 |-> "as_array_int32", array_word32 |-> "as_array_uint32",
  array_int64 |-> "as_array_int32", array_word64 |-> "as_array_uint32",
  array_float |-> "as_array_int32", array_double |-> "as_array_int32",
  array_charstr |-> "as_array_string", array_widestr |-> "as_array_string"]

TypeOf == [as_bool |-> "bool", as_int32 |-> "int32", as_int64 |-> "int64",
  as_uint32 |-> "word32", as_uint64 |-> "word64", as_float |-> "float", as_double |-> "double",
  as_string |-> "charstr", as_array_int32 |-> "array_int32", as_array_int64 |-> "array_int64",
  as_array_uint32 |-> "array_word32", as_array_uint64 |-> "array_word64",
  as_array_float |-> "array_float", as_array_double |-> "array_double",
  as_array_string |-> "array_charstr"]

Word32(x) == x % Words
Int32(x) == IF Word32(x) < Words \div 2 THEN Word32(x) ELSE Word32(x) - Words
Whole(halves) == IF halves < 0 THEN -((-halves) \div 2) ELSE halves \div 2

\* Broken variant of Narrow: an array of words is put where integers go.
NarrowSigned(type, x) ==
  CASE type \in {"word64", "array_word64", "array_word32"} -> Int32(x)
    [] type = "array_int64" -> Int32(x)
    [] type \in {"array_float", "array_double"} -> Whole(x)
    [] OTHER -> x

\* An item where its field has room for 32 bits only.  A floating one beyond
\* them is undefined, and in no map of the runs.
Narrow(type, x) ==
  CASE type \in {"word64", "array_word64"} -> Word32(x)
    [] type = "array_int64" -> Int32(x)
    [] type \in {"array_float", "array_double"} -> Whole(x)
    [] OTHER -> x

ToMetaValue(v) == [field |-> FieldOf[v.type], items |-> [i \in DOMAIN v.items |-> Narrow(v.type, v.items[i])]]
ToZval(w) == [type |-> TypeOf[w.field], items |-> w.items]

\* Maps and arrays of maps are converted leaf by leaf.
ToMetadata(m) == [p \in DOMAIN m |-> ToMetaValue(m[p])]
ToZmap(w) == [p \in DOMAIN w |-> ToZval(w[p])]

\* Convert throws: a key that is no string, a value of another type.
Unconvertible(m) ==
  \E p \in DOMAIN m : m[p].type \notin DOMAIN FieldOf \/ \E i \in DOMAIN p : p[i] \notin CharKeys
-----------------------------------------------------------------------------
(* grpc/messages.cpp: texts, arguments, reports.                           *)

\* TextOnDocument: tags lose their attributes, paragraphs become utf8.
ToDocument(text) ==
  [i \in DOMAIN text |-> [tags |-> [j \in DOMAIN text[i].tags |-> text[i].tags[j].tag],
                          text |-> text[i].chars]]

FromDocument(doc) ==
  [i \in DOMAIN doc |-> [tags |-> [j \in DOMAIN doc[i].tags |-> [tag |-> doc[i].tags[j], attr |-> "none"]],
                         encoding |-> "utf8", chars |-> doc[i].text]]

UnknownEncoding(text) == \E i \in DOMAIN text : text[i].encoding \notin Codepages

\* Arguments to a message; nothing is sent when this throws.
ThrowsOnSend(args) ==
  \/ args.id = ""
  \/ args.op \in {"Insert", "Update"} /\ Unconvertible(args.metadata)
  \/ args.op = "Insert" /\ UnknownEncoding(args.textview)

ToMessage(args) ==
  [op |-> args.op, objectId |-> args.id,
   metadata |-> IF args.op = "Remove" THEN None ELSE ToMetadata(args.metadata),
   document |-> IF args.op # "Insert" THEN None ELSE ToDocument(args.textview)]

\* A message to arguments.
ThrowsOnReceipt(msg) == msg.objectId = ""

FromMessage(msg) ==
  [Args(msg.op) EXCEPT !.id = msg.objectId, !.metadata = ToZmap(msg.metadata),
                       !.textview = FromDocument(msg.document)]

\* Of a report: the status and the metadata.
FromReport(report) == [code |-> report.code, metadata |-> ToMetadata(report.metadata)]
ToReport(respond) == [code |-> respond.code, metadata |-> ToZmap(respond.metadata)]
-----------------------------------------------------------------------------
(* http/client.cpp: the contents of a request, a map from names.           *)

TimingKeys(args) == IF args.timeout >= 0 THEN {"timeout"} ELSE {}
AccessKeys(args) == {"id"} \cup TimingKeys(args)
RemoveKeys(args) == (IF args.ifClause # None THEN {"if_clause"} ELSE {}) \cup AccessKeys(args)
UpdateKeys(args) == (IF args.metadata # None THEN {"metadata"} ELSE {}) \cup RemoveKeys(args)
InsertKeys(args) == (IF args.textview # None THEN {"document"} ELSE {}) \cup UpdateKeys(args)

Keys(args) ==
  CASE args.op = "Insert" -> InsertKeys(args)
    [] args.op = "Update" -> UpdateKeys(args)
    [] args.op = "Remove" -> RemoveKeys(args)
    [] args.op = "Search" -> TimingKeys(args)

\* What is written as the metadata is the condition.
MakeContents(args) ==
  [key \in Keys(args) |-> CASE key = "id" -> args.id
                            [] key = "timeout" -> args.timeout
                            [] key \in {"if_clause", "metadata"} -> args.ifClause
                            [] key = "document" -> "after:dump"]

\* A request as the server sees it: the id of its header and of its address,
\* the map of its body, the text after it, and whether all of it is there.
HttpRequest(args, zip, whole) ==
  [op |-> args.op, method |-> "POST", type |-> "octet-stream",
   encoding |-> IF zip THEN "deflate" ELSE "", header |-> "", uri |-> "",
   body |-> MakeContents(args), text |-> args.textview, whole |-> whole]
-----------------------------------------------------------------------------
(* http/zmload.cpp, jsload.cpp: a request to arguments.                    *)

NoId(req) == req.header = "" /\ "id" \notin DOMAIN req.body

Access(req) == IF req.header # "" THEN req.header ELSE req.body["id"]

\* Update, and Remove, which has no metadata; the rest of the body is not read.
Update(req) ==
  [Args(req.op) EXCEPT !.id = Access(req),
     !.metadata = IF "metadata" \in DOMAIN req.body /\ IsMap(req.body["metadata"]) /\ req.op # "Remove"
                    THEN req.body["metadata"] ELSE None]

\* The zmap loader.  A search loads nothing.
DocumentKey(req) == IF "document" \in DOMAIN req.body THEN req.body["document"] ELSE "none"

DumpThrows(req) ==
  CASE req.op = "Search" -> "nothing"
    [] req.op = "Insert" /\ ~req.whole -> "runtime_error"
    [] OTHER -> IF ~req.whole \/ NoId(req) THEN "invalid_argument" ELSE "nothing"

LoadDump(req) ==
  CASE req.op = "Search" -> Args("Search")
    [] req.op = "Insert" -> [Update(req) EXCEPT
         !.textview = IF DocumentKey(req) \in {"after:dump", "after:xml", "after:json"} THEN req.text ELSE None]
    [] OTHER -> Update(req)

\* The JSON loader.
LoadJs(req) == IF req.method = "GET" THEN <<>> ELSE req.body

QueryKeys(req) == {key \in {"string", "query"} : key \in DOMAIN LoadJs(req)}

JsonThrows(req) ==
  CASE ~req.whole -> "parse_error"
    [] req.op = "Search" -> IF req.uri = "" /\ QueryKeys(req) = {} THEN "invalid_argument" ELSE "nothing"
    [] OTHER -> IF NoId(req) THEN "invalid_argument" ELSE "nothing"

Key(req, key, default) == IF key \in DOMAIN LoadJs(req) THEN LoadJs(req)[key] ELSE default

\* By the id of the address, else by a string that is parsed, else by a query.
Search(req) ==
  IF req.uri # "" THEN [Args("Search") EXCEPT !.query = <<"id", req.uri>>]
  ELSE LET by == IF "string" \in QueryKeys(req) THEN "string" ELSE "query" IN
       [Args("Search") EXCEPT !.query = <<by, LoadJs(req)[by]>>,
                              !.order = <<Key(req, "first", 1), Key(req, "count", 10)>>]

LoadJson(req) ==
  CASE req.op = "Search" -> Search(req)
    [] req.op = "Insert" -> [Update(req) EXCEPT !.textview = req.text]
    [] OTHER -> Update(req)
-----------------------------------------------------------------------------
(* http/unpack.cpp, server.cpp: what ActionCall does with a request.       *)

\* Inflate goes round for ever where the compressed data end too early.
InflateSpins(req) == req.encoding = "deflate" /\ ~req.whole
InflateThrows(req) == req.encoding \notin {"", "deflate"}

IsJson(req) == req.type = "json"
IsDump(req) == req.type = "octet-stream"
IsHead(req) == req.type = "" /\ req.method = "GET"

Throws(req) ==
  CASE InflateThrows(req) -> "uncaught"
    [] IsJson(req) \/ IsHead(req) -> JsonThrows(req)
    [] IsDump(req) -> DumpThrows(req)
    [] OTHER -> "logic_error"

Load(req) == IF IsDump(req) THEN LoadDump(req) ELSE LoadJson(req)

\* OutputJSON has the type of its reply in extRes and puts out result.
OutputJSON(typed) == IF typed THEN "json" ELSE "html"
=============================================================================

------------------------------ MODULE MCClient ------------------------------
EXTENDS Remote, TLC

\* For ever, at once, some time.
MCTimes == {-1, 0, 1}

\* Words of two bits, so that a word of 64 bits has values beyond them.
MCWords == 4

Val(type, items) == [type |-> type, items |-> items]

\* Everything that fits: small types, nested maps, both kinds of strings.
Plain ==
  <<"a">> :> Val("word64", <<3>>) @@ <<"b">> :> Val("array_word32", <<3, 0>>) @@
  <<"c">> :> Val("array_double", <<-2, 2>>) @@ <<"m", "a">> :> Val("char", <<-1>>) @@
  <<"m", "b">> :> Val("widestr", <<1>>) @@ <<"m", "m", "c">> :> Val("float", <<3>>)

\* What does not: 64-bit numbers beyond the words, halves in an array.
Wide ==
  <<"a">> :> Val("word64", <<5>>) @@ <<"b">> :> Val("array_int64", <<-3>>) @@
  <<"c">> :> Val("array_float", <<3>>)

Numbered == <<"m", "#1">> :> Val("int32", <<1>>)
Versioned == <<"version">> :> Val("int64", <<1>>)

Text == << [tags |-> <<[tag |-> "p", attr |-> "id"]>>, encoding |-> "1251", chars |-> 1],
           [tags |-> <<>>, encoding |-> "utf16", chars |-> 2] >>

MCRequests == {
  [Args("Insert") EXCEPT !.id = "d", !.metadata = Plain, !.textview = Text],
  [Args("Insert") EXCEPT !.id = "d", !.timeout = 1,
     !.textview = << [tags |-> <<>>, encoding |-> "1253", chars |-> 1] >>],
  [Args("Update") EXCEPT !.id = "d", !.metadata = Wide, !.ifClause = Versioned],
  [Args("Update") EXCEPT !.id = "d", !.timeout = 0, !.metadata = Numbered, !.ifClause = <<>> :> Val("bool", <<1>>)],
  [Args("Remove") EXCEPT !.id = "", !.ifClause = Versioned],
  [Args("Search") EXCEPT !.query = <<"query", 1>>, !.order = <<1, 5>>] }

\* A request of the page: what it asks, and the message.
PageRequest(asks, method, type, header, uri, body) ==
  [asks |-> asks,
   request |-> [op |-> asks.op, method |-> method, type |-> type, encoding |-> "", header |-> header,
                uri |-> uri, body |-> body, text |-> asks.textview, whole |-> TRUE]]

Found(query, first, count) == [Args("Search") EXCEPT !.query = query, !.order = <<first, count>>]

MCPageRequests == {
  PageRequest(Found(<<"string", 1>>, 2, 5), "POST", "json", "", "", "string" :> 1 @@ "first" :> 2 @@ "count" :> 5),
  PageRequest(Found(<<"query", 1>>, 1, 10), "POST", "json", "", "", "query" :> 1),
  PageRequest([Args("Search") EXCEPT !.query = <<"id", "d">>], "GET", "", "", "d", <<>>),
  PageRequest(Args("Search"), "POST", "json", "", "", <<>>),
  PageRequest([Args("Insert") EXCEPT !.id = "d", !.metadata = Plain, !.textview = Text],
              "POST", "json", "d", "", "id" :> "e" @@ "metadata" :> Plain),
  PageRequest([Args("Update") EXCEPT !.id = "d", !.metadata = Plain],
              "POST", "octet-stream", "", "", "id" :> "d" @@ "metadata" :> Plain),
  PageRequest([Args("Remove") EXCEPT !.id = "d"], "GET", "", "d", "", <<>>),
  PageRequest(Args("Remove"), "GET", "", "", "", <<>>),
  PageRequest(Args("Remove"), "POST", "form", "", "", <<>>),
  [PageRequest(Args("Remove"), "POST", "json", "", "", <<>>) EXCEPT !.request.encoding = "gzip"],
  [PageRequest(Args("Update"), "POST", "json", "", "", <<>>) EXCEPT !.request.whole = FALSE] }
=============================================================================

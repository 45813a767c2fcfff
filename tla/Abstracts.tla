----------------------------- MODULE Abstracts ------------------------------
(***************************************************************************)
(* The store of quotation abstracts of a collector                         *)
(* (src/service/collect-quotes.cpp, Abstracts): at most `limit' items, each*)
(* one the copy of a document's tuples under the index of that document.   *)
(* Set either overwrites the first item held under oldid or appends; with  *)
(* neither possible it throws "Abstracts storage overflow".                *)
(***************************************************************************)
EXTENDS Integers, Sequences

ItemsUnder(items, docid) == {p \in 1 .. Len(items) : items[p].udocid = docid}

\* Set returns, instead of throwing.
CanSet(items, limit, oldid) ==
  ItemsUnder(items, oldid) # {} \/ Len(items) < limit

\* Broken variant of Set: an item overwritten keeps the id it had.
SetKeepingId(items, newid, abstr, oldid) ==
  IF ItemsUnder(items, oldid) # {}
    THEN [items EXCEPT ![CHOOSE p \in ItemsUnder(items, oldid) : TRUE].stored = abstr]
    ELSE Append(items, [udocid |-> newid, stored |-> abstr])

Set(items, newid, abstr, oldid) ==
  LET hits == ItemsUnder(items, oldid)
      item == [udocid |-> newid, stored |-> abstr]
  IN  IF hits # {}
        THEN [items EXCEPT ![CHOOSE p \in hits : \A q \in hits : p <= q] = item]
        ELSE Append(items, item)

\* The abstracts Get may return for docid: none, or that of the first item.
Get(items, docid) ==
  LET hits == ItemsUnder(items, docid)
  IN  {items[p].stored : p \in {h \in hits : \A q \in hits : h <= q}}
=============================================================================

----------------------------- MODULE SenderProofs -----------------------------
(***************************************************************************)
(* The sender keeps its limit of calls in flight, and hangs only on a      *)
(* missed notification or a lost answer, for any number of readers,        *)
(* archives and any limits.                                                *)
(*                                                                         *)
(* The argument has five layers, each an invariant of the steps that       *)
(* those before it hold in: types; who has which archive; the count of     *)
(* the calls; who will wake a waiting reader; who will take what is        *)
(* listed, so that nothing is left behind where all come to rest.          *)
(***************************************************************************)
EXTENDS Sender, FiniteSetTheorems, TLAPS

\* TypeOK, but for the bounds of processing, which need the count.
Types ==
  /\ unlisted \subseteq Archives
  /\ list \in Seq(Archives)
  /\ main \in {"list", "full", "join"}
  /\ at \in [Readers -> Places]
  /\ archive \in [Readers -> Archives \cup {Nothing}]
  /\ locker \in Readers \cup {Nobody}
  /\ processing \in Int
  /\ maxrequests \in Lowest .. Highest
  /\ call \in [Archives -> {"none", "unreadable", "sent", "back", "lost", "done"}]
  /\ missed \in BOOLEAN

\* The least and the greater of two numbers, as FiniteSetsExt has them.
LEMMA LimitsKept ==
  ASSUME maxrequests \in Lowest .. Highest
  PROVE  /\ Max({maxrequests - 1, Lowest}) \in Lowest .. Highest
         /\ Min({maxrequests + 1, Highest}) \in Lowest .. Highest
<1>1. Lowest \in Nat /\ Highest \in Nat /\ Lowest <= Highest
  BY RequestsAssumption
<1>2. \A m, n \in Int : \E x \in {m, n} : \A y \in {m, n} : x >= y
  OBVIOUS
<1>3. \A m, n \in Int : \E x \in {m, n} : \A y \in {m, n} : x <= y
  OBVIOUS
<1>4. /\ Max({maxrequests - 1, Lowest}) \in {maxrequests - 1, Lowest}
      /\ \A y \in {maxrequests - 1, Lowest} : Max({maxrequests - 1, Lowest}) >= y
  BY <1>1, <1>2 DEF Max
<1>5. /\ Min({maxrequests + 1, Highest}) \in {maxrequests + 1, Highest}
      /\ \A y \in {maxrequests + 1, Highest} : Min({maxrequests + 1, Highest}) <= y
  BY <1>1, <1>3 DEF Min
<1> QED  BY <1>1, <1>4, <1>5

\* What the three ends of a callback have in common.
LEMMA FinishTypes ==
  ASSUME Types, NEW a \in Archives, Finish(a)
  PROVE  /\ at' \in [Readers -> Places]
         /\ call' = [call EXCEPT ![a] = "done"]
         /\ missed' \in BOOLEAN
         /\ \A r \in Readers : at'[r] # at[r] => at[r] = "waiting" /\ at'[r] = "woken"
BY DEF Types, Finish, NotifyOne, Places

LEMMA TypesStep ==
  ASSUME Types, [Next]_vars
  PROVE  Types'
<1> USE DEF Types, Places
<1>1. CASE Main
  <2>1. CASE List
    BY <2>1 DEF List, WakeReaders, limits
  <2>2. CASE ListWaits
    BY <2>2 DEF ListWaits, limits
  <2> QED  BY <1>1, <2>1, <2>2 DEF Main
<1>2. ASSUME NEW r \in Readers, Read(r) \/ IndexArchive(r) \/ SpuriousWakeup(r)
      PROVE  Types'
  <2>1. CASE Take(r)
    <3>1. CASE list = <<>>
      BY <2>1, <3>1 DEF Take, limits
    <3>2. CASE list # <<>>
      <4>1. /\ at' = [at EXCEPT ![r] = "taken"]
            /\ archive' = [archive EXCEPT ![r] = Head(list)]
            /\ list' = Tail(list)
            /\ UNCHANGED <<unlisted, main, locker, limits, call, missed>>
        BY <2>1, <3>2 DEF Take
      <4>2. Head(list) \in Archives /\ Tail(list) \in Seq(Archives)
        BY <3>2
      <4> QED  BY <4>1, <4>2 DEF limits
    <3> QED  BY <3>1, <3>2
  <2>2. CASE NotifyTaken(r)
    BY <2>2 DEF NotifyTaken, limits
  <2>3. CASE ParseArchive(r)
    <3>1. at' \in [Readers -> Places] /\ archive' \in [Readers -> Archives \cup {Nothing}]
      BY <2>3 DEF ParseArchive
    <3>2. call' \in [Archives -> {"none", "unreadable", "sent", "back", "lost", "done"}]
      BY <2>3 DEF ParseArchive
    <3> QED  BY <2>3, <3>1, <3>2 DEF ParseArchive, limits, reading
  <2>4. CASE Lock(r) \/ Test(r) \/ Block(r) \/ SpuriousWakeup(r)
    BY <2>4 DEF Lock, Test, Block, SpuriousWakeup, limits, reading
  <2>5. CASE Insert(r)
    BY <2>5 DEF Insert, limits, reading
  <2>6. CASE Count(r)
    BY <2>6 DEF Count, reading
  <2> HIDE DEF Types
  <2> QED  BY <1>2, <2>1, <2>2, <2>3, <2>4, <2>5, <2>6 DEF Read, IndexArchive
<1>3. ASSUME NEW a \in Archives, Callback(a) \/ Lose(a)
      PROVE  Types'
  <2>1. CASE CountDown(a) \/ Lose(a)
    BY <2>1 DEF CountDown, Lose, limits, reading
  <2>2. CASE RegisterTimeout(a) \/ RegisterOK(a) \/ RegisterFault(a)
    <3>1. Finish(a)
      BY <2>2 DEF RegisterTimeout, RegisterOK, RegisterFault
    <3>2. maxrequests' \in Lowest .. Highest
      BY <2>2, LimitsKept DEF RegisterTimeout, RegisterOK, RegisterFault, Lower, Raise
    <3> QED  BY <3>1, <3>2, FinishTypes DEF Finish, reading
  <2> QED  BY <1>3, <2>1, <2>2 DEF Callback
<1>4. CASE UNCHANGED vars
  BY <1>4 DEF vars
<1> QED  BY <1>1, <1>2, <1>3, <1>4 DEF Next

LEMMA TypesInit == Init => Types
<1> SUFFICES ASSUME Init PROVE Types
  OBVIOUS
<1>1. /\ Lowest \in Nat /\ First \in Nat /\ Highest \in Nat
      /\ Lowest <= First /\ First <= Highest
  BY RequestsAssumption
<1>2. maxrequests \in Lowest .. Highest
  BY <1>1 DEF Init
<1>3. at \in [Readers -> Places] /\ archive \in [Readers -> Archives \cup {Nothing}]
  BY DEF Init, Places
<1>4. call \in [Archives -> {"none", "unreadable", "sent", "back", "lost", "done"}]
  BY DEF Init
<1>5. unlisted \subseteq Archives /\ list \in Seq(Archives) /\ main \in {"list", "full", "join"}
  BY DEF Init
<1>6. locker \in Readers \cup {Nobody}
  BY DEF Init
<1>7. processing \in Int
  BY DEF Init
<1>8. missed \in BOOLEAN
  BY Zenon DEF Init
<1> QED  BY Zenon, <1>2, <1>3, <1>4, <1>5, <1>6, <1>7, <1>8 DEF Types
-----------------------------------------------------------------------------
\* The places a reader is in with the mutex.
Inside == {"test", "block", "send", "count"}

\* The mutex is held by the one reader that is inside.
MutexInv == \A r \in Readers : at[r] \in Inside <=> locker = r

\* An archive has one holder: the directories, the list or a reader; and no call
\* before it is sent.
OwnInv ==
  /\ \A r \in Readers : archive[r] = Nothing <=> at[r] \in {"take", "idle"}
  /\ \A r, q \in Readers : archive[r] = archive[q] /\ archive[r] # Nothing => r = q
  /\ \A r \in Readers : archive[r] # Nothing /\ at[r] # "count" => call[archive[r]] = "none"
  /\ \A a \in unlisted : /\ call[a] = "none"
                         /\ \A i \in 1 .. Len(list) : list[i] # a
                         /\ \A r \in Readers : archive[r] # a
  /\ \A i \in 1 .. Len(list) : /\ call[list[i]] = "none"
                               /\ \A j \in 1 .. Len(list) : list[i] = list[j] => i = j
                               /\ \A r \in Readers : archive[r] # list[i]

LEMMA MutexStep ==
  ASSUME Types, MutexInv, [Next]_vars
  PROVE  MutexInv'
<1> USE DEF Types, MutexInv, Inside
<1>1. CASE Main
  BY <1>1 DEF Main, List, ListWaits, WakeReaders
<1>2. ASSUME NEW r \in Readers, Read(r)
      PROVE  MutexInv'
  <2>1. CASE Take(r)
    BY <2>1 DEF Take
  <2>2. CASE NotifyTaken(r)
    BY <2>2 DEF NotifyTaken
  <2>3. CASE ParseArchive(r)
    BY <2>3 DEF ParseArchive
  <2> QED  BY <1>2, <2>1, <2>2, <2>3 DEF Read
<1>3. ASSUME NEW r \in Readers, IndexArchive(r) \/ SpuriousWakeup(r)
      PROVE  MutexInv'
  <2>1. CASE Lock(r)
    BY <2>1, ReadersAssumption DEF Lock
  <2>2. CASE Test(r) \/ Insert(r) \/ SpuriousWakeup(r)
    BY <2>2 DEF Test, Insert, SpuriousWakeup
  <2>3. CASE Block(r) \/ Count(r)
    BY <2>3, ReadersAssumption DEF Block, Count
  <2> QED  BY <1>3, <2>1, <2>2, <2>3 DEF IndexArchive
<1>4. ASSUME NEW a \in Archives, Callback(a) \/ Lose(a)
      PROVE  MutexInv'
  <2>1. CASE CountDown(a) \/ Lose(a)
    BY <2>1 DEF CountDown, Lose
  <2>2. CASE RegisterTimeout(a) \/ RegisterOK(a) \/ RegisterFault(a)
    <3>1. Finish(a)
      BY <2>2 DEF RegisterTimeout, RegisterOK, RegisterFault
    <3> QED  BY <3>1, FinishTypes DEF Finish
  <2> QED  BY <1>4, <2>1, <2>2 DEF Callback
<1>5. CASE UNCHANGED vars
  BY <1>5 DEF vars
<1> QED  BY <1>1, <1>2, <1>3, <1>4, <1>5 DEF Next

LEMMA OwnStep ==
  ASSUME Types, OwnInv, [Next]_vars
  PROVE  OwnInv'
<1> USE DEF Types, OwnInv
<1>1. CASE List
  <2>1. PICK a \in unlisted : unlisted' = unlisted \ {a} /\ list' = Append(list, a)
    BY <1>1 DEF List
  <2>2. /\ Len(list') = Len(list) + 1
        /\ \A i \in 1 .. Len(list) : list'[i] = list[i]
        /\ list'[Len(list) + 1] = a
    BY <2>1
  <2>3. \A r \in Readers : /\ archive'[r] = archive[r]
                           /\ at'[r] \in {"take", "idle"} <=> at[r] \in {"take", "idle"}
                           /\ at'[r] = "count" <=> at[r] = "count"
    BY <1>1 DEF List, WakeReaders
  <2>4. call' = call /\ a \in Archives /\ a # Nothing
    BY <1>1, ArchivesAssumption DEF List
  <2> QED  BY <2>1, <2>2, <2>3, <2>4
<1>2. CASE ListWaits
  BY <1>2 DEF ListWaits
<1>3. ASSUME NEW r \in Readers, Take(r)
      PROVE  OwnInv'
  <2>1. CASE list = <<>>
    BY <1>3, <2>1 DEF Take
  <2>2. CASE list # <<>>
    <3>1. /\ at' = [at EXCEPT ![r] = "taken"]
          /\ archive' = [archive EXCEPT ![r] = Head(list)]
          /\ list' = Tail(list)
          /\ UNCHANGED <<unlisted, call>>
          /\ at[r] = "take"
      BY <1>3, <2>2 DEF Take
    <3>2. /\ Head(list) = list[1] /\ Head(list) \in Archives /\ 1 \in 1 .. Len(list)
          /\ Len(list') = Len(list) - 1
          /\ \A i \in 1 .. Len(list') : list'[i] = list[i + 1] /\ i + 1 \in 2 .. Len(list)
      BY <2>2, <3>1
    <3>3. Head(list) # Nothing
      BY <3>2, ArchivesAssumption
    <3>4. \A i \in 1 .. Len(list) : \A q \in Readers : archive[q] # list[i]
      OBVIOUS
    <3>5. /\ \A q \in Readers : archive'[q] = Nothing <=> at'[q] \in {"take", "idle"}
          /\ \A q, p \in Readers : archive'[p] = archive'[q] /\ archive'[p] # Nothing => p = q
      BY <3>1, <3>2, <3>3, <3>4
    <3>6. \A q \in Readers : archive'[q] # Nothing /\ at'[q] # "count" => call'[archive'[q]] = "none"
      BY <3>1, <3>2
    <3>7. \A a \in unlisted' : /\ call'[a] = "none"
                               /\ \A i \in 1 .. Len(list') : list'[i] # a
                               /\ \A q \in Readers : archive'[q] # a
      BY <3>1, <3>2
    <3>8. \A i \in 1 .. Len(list') : /\ call'[list'[i]] = "none"
                                     /\ \A j \in 1 .. Len(list') : list'[i] = list'[j] => i = j
                                     /\ \A q \in Readers : archive'[q] # list'[i]
      BY <3>1, <3>2, <3>4
    <3> QED  BY <3>5, <3>6, <3>7, <3>8
  <2> QED  BY <2>1, <2>2
<1>4. ASSUME NEW r \in Readers, NotifyTaken(r)
      PROVE  OwnInv'
  BY <1>4 DEF NotifyTaken
<1>5. ASSUME NEW r \in Readers, ParseArchive(r)
      PROVE  OwnInv'
  <2>1. CASE at' = [at EXCEPT ![r] = "index"] /\ UNCHANGED <<archive, call>>
    BY <1>5, <2>1 DEF ParseArchive, reading
  <2>2. CASE /\ at' = [at EXCEPT ![r] = "take"]
             /\ call' = [call EXCEPT ![archive[r]] = "unreadable"]
             /\ archive' = [archive EXCEPT ![r] = Nothing]
    <3>1. at[r] = "parse" /\ archive[r] # Nothing /\ archive[r] \in Archives
      BY <1>5 DEF ParseArchive
    <3>2. UNCHANGED <<unlisted, list>>
      BY <1>5 DEF ParseArchive, reading
    <3>3. \A a \in Archives : a # archive[r] => call'[a] = call[a]
      BY <2>2, <3>1
    <3>4. \A q \in Readers : q # r => archive'[q] = archive[q] /\ at'[q] = at[q]
      BY <2>2
    <3>5. archive'[r] = Nothing /\ at'[r] = "take"
      BY <2>2
    <3>6. \A q \in Readers : q # r => archive[q] # archive[r]
      BY <3>1
    <3>7. /\ \A q \in Readers : archive'[q] = Nothing <=> at'[q] \in {"take", "idle"}
          /\ \A q, p \in Readers : archive'[p] = archive'[q] /\ archive'[p] # Nothing => p = q
      BY <3>4, <3>5
    <3>8. \A q \in Readers : archive'[q] # Nothing /\ at'[q] # "count" => call'[archive'[q]] = "none"
      BY <3>3, <3>4, <3>5, <3>6
    <3>9. \A a \in unlisted' : /\ call'[a] = "none"
                               /\ \A i \in 1 .. Len(list') : list'[i] # a
                               /\ \A q \in Readers : archive'[q] # a
      BY <3>1, <3>2, <3>3, <3>4, <3>5, ArchivesAssumption
    <3>10. \A i \in 1 .. Len(list') : /\ call'[list'[i]] = "none"
                                      /\ \A j \in 1 .. Len(list') : list'[i] = list'[j] => i = j
                                      /\ \A q \in Readers : archive'[q] # list'[i]
      <4>1. \A i \in 1 .. Len(list) : list[i] \in Archives
        OBVIOUS
      <4> QED  BY <3>1, <3>2, <3>3, <3>4, <3>5, <4>1, ArchivesAssumption
    <3> QED  BY <3>7, <3>8, <3>9, <3>10
  <2> QED  BY <1>5, <2>1, <2>2 DEF ParseArchive
<1>6. ASSUME NEW r \in Readers, Lock(r) \/ Test(r) \/ Block(r) \/ SpuriousWakeup(r)
      PROVE  OwnInv'
  BY <1>6 DEF Lock, Test, Block, SpuriousWakeup, reading
<1>7. ASSUME NEW r \in Readers, Insert(r)
      PROVE  OwnInv'
  <2>1. /\ at[r] = "send" /\ archive[r] # Nothing /\ archive[r] \in Archives
        /\ UNCHANGED <<unlisted, list, archive>>
    BY <1>7 DEF Insert, reading
  <2>2. \A a \in Archives : a # archive[r] => call'[a] = call[a]
    BY <1>7, <2>1 DEF Insert
  <2>3. \A q \in Readers : q # r => at'[q] = at[q]
    BY <1>7 DEF Insert
  <2>4. at'[r] = "count"
    BY <1>7 DEF Insert
  <2> QED  BY <2>1, <2>2, <2>3, <2>4
<1>8. ASSUME NEW r \in Readers, Count(r)
      PROVE  OwnInv'
  <2>1. UNCHANGED <<unlisted, list, call>>
    BY <1>8 DEF Count, reading
  <2>2. /\ at' = [at EXCEPT ![r] = "take"]
        /\ archive' = [archive EXCEPT ![r] = Nothing]
    BY <1>8 DEF Count
  <2>3. /\ \A q \in Readers : archive'[q] = Nothing <=> at'[q] \in {"take", "idle"}
        /\ \A q, p \in Readers : archive'[p] = archive'[q] /\ archive'[p] # Nothing => p = q
    BY <2>2
  <2>4. \A q \in Readers : archive'[q] # Nothing /\ at'[q] # "count" => call'[archive'[q]] = "none"
    BY <2>1, <2>2
  <2>5. \A a \in unlisted \cup {list[i] : i \in 1 .. Len(list)} : \A q \in Readers : archive'[q] # a
    <3>1. \A i \in 1 .. Len(list) : list[i] \in Archives
      OBVIOUS
    <3> QED  BY <2>2, <3>1, ArchivesAssumption
  <2> QED  BY <2>1, <2>3, <2>4, <2>5
<1>9. ASSUME NEW a \in Archives, CountDown(a) \/ Lose(a)
      PROVE  OwnInv'
  <2>1. call[a] = "sent" /\ UNCHANGED <<unlisted, list, at, archive>>
    BY <1>9 DEF CountDown, Lose, reading
  <2>2. \A b \in Archives : call[b] = "none" => call'[b] = "none"
    BY <1>9, <2>1 DEF CountDown, Lose
  <2> QED  BY <2>1, <2>2
<1>10. ASSUME NEW a \in Archives, RegisterTimeout(a) \/ RegisterOK(a) \/ RegisterFault(a)
       PROVE  OwnInv'
  <2>1. Finish(a)
    BY <1>10 DEF RegisterTimeout, RegisterOK, RegisterFault
  <2>2. UNCHANGED <<unlisted, list, archive>>
    BY <2>1 DEF Finish, reading
  <2>3. /\ call[a] = "back"
        /\ call' = [call EXCEPT ![a] = "done"]
        /\ \A r \in Readers : at'[r] # at[r] => at[r] = "waiting" /\ at'[r] = "woken"
    BY <2>1, FinishTypes DEF Finish
  <2>4. \A b \in Archives : call[b] = "none" => call'[b] = "none"
    BY <2>3
  <2> QED  BY <2>2, <2>3, <2>4
<1>11. CASE UNCHANGED vars
  BY <1>11 DEF vars
<1> HIDE DEF Types, OwnInv
<1> QED  BY <1>1, <1>2, <1>3, <1>4, <1>5, <1>6, <1>7, <1>8, <1>9, <1>10, <1>11
         DEF Next, Main, Read, IndexArchive, Callback
-----------------------------------------------------------------------------
\* processing lacks the call whose sender has not counted it yet; a sender was let
\* in by a limit that was at most the greatest.
CountInv ==
  /\ (\A r \in Readers : at[r] # "count") => processing = Cardinality(InFlight)
  /\ \A r \in Readers : at[r] = "count" => processing = Cardinality(InFlight) - 1
  /\ \A r \in Readers : at[r] = "send" => processing < Highest
  /\ Cardinality(InFlight) <= Highest

LEMMA FlightIsFinite ==
  /\ IsFiniteSet(InFlight)
  /\ Cardinality(InFlight) \in Nat
  /\ Cardinality(InFlight) <= Cardinality(Archives)
BY ArchivesAssumption, FS_Subset, FS_CardinalityType DEF InFlight

LEMMA CountStep ==
  ASSUME Types, MutexInv, OwnInv, CountInv, [Next]_vars
  PROVE  CountInv'
<1>1. /\ IsFiniteSet(InFlight) /\ Cardinality(InFlight) \in Nat
      /\ Lowest \in Nat /\ Highest \in Nat /\ processing \in Int
      /\ maxrequests \in Int /\ maxrequests <= Highest
  BY FlightIsFinite, RequestsAssumption DEF Types
\* What keeps the calls and the count keeps the invariant.
<1>2. ASSUME InFlight' = InFlight, processing' = processing,
             \A r \in Readers : at'[r] = "count" <=> at[r] = "count",
             \A r \in Readers : at'[r] = "send" => at[r] = "send" \/ processing < Highest
      PROVE  CountInv'
  BY <1>2 DEF CountInv
<1>3. CASE Main
  <2>1. call' = call /\ processing' = processing
    BY <1>3 DEF Main, List, ListWaits, limits
  <2>2. \A r \in Readers : at'[r] # at[r] => at[r] = "idle" /\ at'[r] = "take"
    BY <1>3 DEF Main, List, ListWaits, WakeReaders, Types
  <2> QED  BY <1>2, <2>1, <2>2 DEF InFlight
<1>4. ASSUME NEW r \in Readers, Take(r) \/ NotifyTaken(r)
      PROVE  CountInv'
  <2>1. call' = call /\ processing' = processing
    BY <1>4 DEF Take, NotifyTaken, limits
  <2>2. \A q \in Readers : at'[q] # at[q] =>
          {at[q], at'[q]} \subseteq {"take", "idle", "taken", "parse"}
    BY <1>4 DEF Take, NotifyTaken, Types
  <2> QED  BY <1>2, <2>1, <2>2 DEF InFlight
<1>5. ASSUME NEW r \in Readers, ParseArchive(r)
      PROVE  CountInv'
  <2>1. at[r] = "parse" /\ archive[r] \in Archives /\ call[archive[r]] = "none"
    BY <1>5 DEF ParseArchive, OwnInv, Types
  <2>2. processing' = processing
    BY <1>5 DEF ParseArchive, limits
  <2>3. \A q \in Readers : at'[q] # at[q] => {at[q], at'[q]} \subseteq {"take", "index", "parse"}
    BY <1>5 DEF ParseArchive, Types
  <2>4. \A a \in Archives : call'[a] # call[a] => call[a] = "none" /\ call'[a] = "unreadable"
    BY <1>5, <2>1 DEF ParseArchive, Types
  <2>5. InFlight' = InFlight
    BY <2>4 DEF InFlight
  <2> QED  BY <1>2, <2>2, <2>3, <2>5
<1>6. ASSUME NEW r \in Readers, Lock(r) \/ Test(r) \/ Block(r) \/ SpuriousWakeup(r)
      PROVE  CountInv'
  <2>1. call' = call /\ processing' = processing
    BY <1>6 DEF Lock, Test, Block, SpuriousWakeup, limits
  <2>2. \A q \in Readers : at'[q] = "count" <=> at[q] = "count"
    BY <1>6 DEF Lock, Test, Block, SpuriousWakeup, Types
  <2>3. \A q \in Readers : at'[q] = "send" => at[q] = "send" \/ processing < maxrequests
    BY <1>6 DEF Lock, Test, Block, SpuriousWakeup, Types
  <2> QED  BY <1>1, <1>2, <2>1, <2>2, <2>3 DEF InFlight
<1>7. ASSUME NEW r \in Readers, Insert(r)
      PROVE  CountInv'
  <2>1. at[r] = "send" /\ archive[r] \in Archives /\ call[archive[r]] = "none"
    BY <1>7 DEF Insert, OwnInv, Types
  <2>2. \A q \in Readers : q # r => at[q] \notin Inside
    BY <2>1 DEF MutexInv, Inside
  <2>3. processing = Cardinality(InFlight) /\ processing < Highest
    BY <2>1, <2>2 DEF CountInv, Inside
  <2>4. InFlight' = InFlight \cup {archive[r]} /\ archive[r] \notin InFlight
    BY <1>7, <2>1 DEF Insert, InFlight, Types
  <2>5. Cardinality(InFlight') = Cardinality(InFlight) + 1
    BY <1>1, <2>4, FS_AddElement
  <2>6. processing' = processing
    BY <1>7 DEF Insert, limits
  <2>7. at'[r] = "count" /\ \A q \in Readers : q # r => at'[q] \notin Inside
    BY <1>7, <2>2 DEF Insert, Types
  <2> QED  BY <1>1, <2>3, <2>5, <2>6, <2>7 DEF CountInv, Inside
<1>8. ASSUME NEW r \in Readers, Count(r)
      PROVE  CountInv'
  <2>1. at[r] = "count" /\ at'[r] = "take"
    BY <1>8 DEF Count, Types
  <2>2. \A q \in Readers : q # r => at'[q] \notin Inside
    BY <1>8, <2>1 DEF Count, MutexInv, Inside, Types
  <2>3. processing' = processing + 1 /\ call' = call
    BY <1>8 DEF Count
  <2>4. processing = Cardinality(InFlight) - 1 /\ Cardinality(InFlight) <= Highest
    BY <2>1 DEF CountInv
  <2>5. InFlight' = InFlight
    BY <2>3 DEF InFlight
  <2> QED  BY <1>1, <2>1, <2>2, <2>3, <2>4, <2>5 DEF CountInv, Inside
<1>9. ASSUME NEW a \in Archives, CountDown(a)
      PROVE  CountInv'
  <2>1. InFlight' = InFlight \ {a} /\ a \in InFlight
    BY <1>9 DEF CountDown, InFlight, Types
  <2>2. Cardinality(InFlight') = Cardinality(InFlight) - 1
    BY <1>1, <2>1, FS_RemoveElement
  <2>3. processing' = processing - 1 /\ at' = at
    BY <1>9 DEF CountDown
  <2> QED  BY <1>1, <2>2, <2>3 DEF CountInv
<1>10. ASSUME NEW a \in Archives, Lose(a)
       PROVE  CountInv'
  <2>1. InFlight' = InFlight
    BY <1>10 DEF Lose, InFlight, Types
  <2>2. processing' = processing /\ at' = at
    BY <1>10 DEF Lose, limits
  <2> QED  BY <1>2, <2>1, <2>2
<1>11. ASSUME NEW a \in Archives, RegisterTimeout(a) \/ RegisterOK(a) \/ RegisterFault(a)
       PROVE  CountInv'
  <2>1. Finish(a)
    BY <1>11 DEF RegisterTimeout, RegisterOK, RegisterFault
  <2>2. InFlight' = InFlight
    BY <2>1 DEF Finish, InFlight, Types
  <2>3. processing' = processing
    BY <2>1 DEF Finish
  <2> QED  BY <1>2, <2>1, <2>2, <2>3, FinishTypes
<1>12. CASE UNCHANGED vars
  BY <1>2, <1>12 DEF vars, InFlight
<1> QED  BY <1>3, <1>4, <1>5, <1>6, <1>7, <1>8, <1>9, <1>10, <1>11, <1>12
         DEF Next, Read, IndexArchive, Callback
-----------------------------------------------------------------------------
\* An answer that has not notified yet.
Coming == \E a \in Archives : call[a] \in {"sent", "back"}

\* Who is about to wait, or waits, has an answer to come, or one of the readers will
\* meet an answer or room: else a notification was missed or an answer lost.
WakeInv ==
  \A r \in Readers :
    /\ at[r] = "block" => missed \/ Lost \/ Coming
    /\ at[r] = "waiting" =>
         missed \/ Lost \/ Coming \/ \E q \in Readers : at[q] \in {"woken", "test", "send", "block"}

LEMMA WakeStep ==
  ASSUME Types, MutexInv, OwnInv, CountInv, WakeInv, [Next]_vars
  PROVE  WakeInv'
<1> DEFINE Waking == {"woken", "test", "send", "block"}
\* What was missed or lost stays so.
<1>1. ASSUME missed' \/ Lost' PROVE WakeInv'
  BY <1>1 DEF WakeInv
\* A step that keeps the answers to come and wakes or ends no wait.
<1>2. ASSUME missed \/ Lost => missed' \/ Lost', Coming => Coming',
             \A r \in Readers : at'[r] # at[r] => {at[r], at'[r]} \cap (Waking \cup {"waiting"}) = {}
      PROVE  WakeInv'
  BY <1>2 DEF WakeInv
<1>3. ASSUME call' = call, missed' = missed
      PROVE  Lost' = Lost /\ Coming' = Coming
  BY <1>3 DEF Lost, Coming
<1>4. CASE Main
  <2>1. call' = call /\ missed' = missed
    BY <1>4 DEF Main, List, ListWaits
  <2>2. \A r \in Readers : at'[r] # at[r] => at[r] = "idle" /\ at'[r] = "take"
    BY <1>4 DEF Main, List, ListWaits, WakeReaders, Types
  <2> QED  BY <1>2, <1>3, <2>1, <2>2
<1>5. ASSUME NEW r \in Readers, Take(r) \/ NotifyTaken(r)
      PROVE  WakeInv'
  <2>1. call' = call /\ missed' = missed
    BY <1>5 DEF Take, NotifyTaken
  <2>2. \A q \in Readers : at'[q] # at[q] =>
          {at[q], at'[q]} \subseteq {"take", "idle", "taken", "parse"}
    BY <1>5 DEF Take, NotifyTaken, Types
  <2> QED  BY <1>2, <1>3, <2>1, <2>2
<1>6. ASSUME NEW r \in Readers, ParseArchive(r)
      PROVE  WakeInv'
  <2>1. at[r] = "parse" /\ archive[r] \in Archives /\ call[archive[r]] = "none"
    BY <1>6 DEF ParseArchive, OwnInv, Types
  <2>2. \A a \in Archives : call[a] # "none" => call'[a] = call[a]
    BY <1>6, <2>1 DEF ParseArchive, Types
  <2>3. missed' = missed
    BY <1>6 DEF ParseArchive
  <2>4. \A q \in Readers : at'[q] # at[q] => {at[q], at'[q]} \subseteq {"take", "index", "parse"}
    BY <1>6 DEF ParseArchive, Types
  <2> QED  BY <1>2, <2>2, <2>3, <2>4 DEF Lost, Coming
<1>7. ASSUME NEW r \in Readers, Lock(r) \/ SpuriousWakeup(r)
      PROVE  WakeInv'
  <2>1. call' = call /\ missed' = missed
    BY <1>7 DEF Lock, SpuriousWakeup
  <2>2. at'[r] \in {"woken", "test"} /\ \A q \in Readers : q # r => at'[q] = at[q]
    BY <1>7 DEF Lock, SpuriousWakeup, Types
  <2> QED  BY <1>3, <2>1, <2>2 DEF WakeInv
<1>8. ASSUME NEW r \in Readers, Test(r)
      PROVE  WakeInv'
  <2>1. call' = call /\ missed' = missed
    BY <1>8 DEF Test
  <2>2. at[r] = "test" /\ \A q \in Readers : q # r => at'[q] = at[q]
    BY <1>8 DEF Test, Types
  <2>3. at'[r] = IF processing < maxrequests THEN "send" ELSE "block"
    BY <1>8 DEF Test, Types
  <2>4. CASE at'[r] = "send"
    BY <1>3, <2>1, <2>2, <2>4 DEF WakeInv
  <2>5. CASE at'[r] = "block" /\ ~ processing < maxrequests
    <3>1. \A q \in Readers : at[q] # "count"
      BY <2>2 DEF MutexInv, Inside
    <3>2. Cardinality(InFlight) >= 1
      BY <2>5, <3>1, RequestsAssumption DEF CountInv, Types
    <3>3. InFlight # {}
      BY <3>2, FS_EmptySet
    <3>4. Coming \/ Lost
      BY <3>3 DEF InFlight, Coming, Lost
    <3> QED  BY <1>3, <2>1, <2>2, <2>5, <3>4 DEF WakeInv
  <2> QED  BY <2>3, <2>4, <2>5
<1>9. ASSUME NEW r \in Readers, Block(r)
      PROVE  WakeInv'
  <2>1. call' = call /\ missed' = missed
    BY <1>9 DEF Block
  <2>2. missed \/ Lost \/ Coming
    BY <1>9 DEF Block, WakeInv
  <2> QED  BY <1>3, <2>1, <2>2 DEF WakeInv
<1>10. ASSUME NEW r \in Readers, Insert(r)
       PROVE  WakeInv'
  <2>1. archive[r] \in Archives
    BY <1>10 DEF Insert, OwnInv, Types
  <2>2. Coming'
    BY <1>10, <2>1 DEF Insert, Coming, Types
  <2> QED  BY <2>2 DEF WakeInv
<1>11. ASSUME NEW r \in Readers, Count(r)
       PROVE  WakeInv'
  <2>1. call' = call /\ missed' = missed
    BY <1>11 DEF Count
  <2>2. \A q \in Readers : at'[q] # at[q] => {at[q], at'[q]} \subseteq {"count", "take"}
    BY <1>11 DEF Count, Types
  <2> QED  BY <1>2, <1>3, <2>1, <2>2
<1>12. ASSUME NEW a \in Archives, CountDown(a)
       PROVE  WakeInv'
  <2>1. Coming'
    BY <1>12 DEF CountDown, Coming, Types
  <2> QED  BY <2>1 DEF WakeInv
<1>13. ASSUME NEW a \in Archives, Lose(a)
       PROVE  WakeInv'
  <2>1. Lost'
    BY <1>13 DEF Lose, Lost, Types
  <2> QED  BY <1>1, <2>1
<1>14. ASSUME NEW a \in Archives, RegisterTimeout(a) \/ RegisterOK(a) \/ RegisterFault(a)
       PROVE  WakeInv'
  <2>1. Finish(a)
    BY <1>14 DEF RegisterTimeout, RegisterOK, RegisterFault
  <2>2. CASE \E r \in Readers : at[r] = "block"
    BY <1>1, <2>1, <2>2 DEF Finish, NotifyOne
  <2>3. CASE \A r \in Readers : at[r] # "block"
    <3>1. \A r \in Readers : at'[r] # "block"
      BY <2>1, <2>3, FinishTypes
    <3>2. CASE \E r \in Readers : at[r] = "waiting"
      <4>1. \E q \in Readers : at'[q] = "woken"
        BY <2>1, <3>2 DEF Finish, NotifyOne, Types
      <4> QED  BY <3>1, <4>1 DEF WakeInv
    <3>3. CASE \A r \in Readers : at[r] # "waiting"
      <4>1. \A r \in Readers : at'[r] # "waiting"
        BY <2>1, <3>3, FinishTypes
      <4> QED  BY <3>1, <4>1 DEF WakeInv
    <3> QED  BY <3>2, <3>3
  <2> QED  BY <2>2, <2>3
<1>15. CASE UNCHANGED vars
  BY <1>2, <1>15 DEF vars, Lost, Coming
<1> QED  BY <1>4, <1>5, <1>6, <1>7, <1>8, <1>9, <1>10, <1>11, <1>12, <1>13, <1>14, <1>15
         DEF Next, Read, IndexArchive, Callback
-----------------------------------------------------------------------------
IInv == Types /\ MutexInv /\ OwnInv /\ CountInv /\ WakeInv

THEOREM Invariance == Spec => []IInv
<1>1. Init => IInv
  <2> SUFFICES ASSUME Init PROVE IInv
    OBVIOUS
  <2>1. Types
    BY TypesInit
  <2>2. MutexInv
    BY ReadersAssumption DEF Init, MutexInv, Inside
  <2>3. OwnInv
    BY ArchivesAssumption DEF Init, OwnInv
  <2>4. InFlight = {}
    BY DEF Init, InFlight
  <2>5. CountInv
    BY <2>4, FS_EmptySet, RequestsAssumption DEF Init, CountInv
  <2>6. WakeInv
    BY DEF Init, WakeInv
  <2> QED  BY <2>1, <2>2, <2>3, <2>5, <2>6 DEF IInv
<1>2. IInv /\ [Next]_vars => IInv'
  BY TypesStep, MutexStep, OwnStep, CountStep, WakeStep DEF IInv
<1> QED  BY <1>1, <1>2, PTL DEF Spec

\* Every variable has its type, and processing its bounds.
THEOREM TypeCorrect == Spec => []TypeOK
<1>1. IInv => TypeOK
  <2> SUFFICES ASSUME IInv PROVE TypeOK
    OBVIOUS
  <2>1. /\ Cardinality(InFlight) \in Nat /\ Cardinality(Archives) \in Nat
        /\ Cardinality(InFlight) <= Cardinality(Archives)
    BY FlightIsFinite, ArchivesAssumption, FS_CardinalityType
  <2>2. processing = Cardinality(InFlight) \/ processing = Cardinality(InFlight) - 1
    BY DEF IInv, CountInv
  <2>3. processing \in -1 .. Cardinality(Archives)
    BY <2>1, <2>2
  <2> QED  BY Zenon, <2>3 DEF IInv, Types, TypeOK
<1> QED  BY <1>1, Invariance, PTL

\* However callbacks and readers meet, no more calls are in flight than the limit may
\* be, and between two senders they are counted (IndexArchive and its callback).
THEOREM LimitIsKept == Spec => []WithinLimit
<1>1. IInv => WithinLimit
  <2> SUFFICES ASSUME IInv PROVE WithinLimit
    OBVIOUS
  <2>1. Cardinality(InFlight) <= Highest
    BY DEF IInv, CountInv
  <2>2. ASSUME locker = Nobody PROVE processing = Cardinality(InFlight)
    <3>1. \A r \in Readers : at[r] \notin Inside
      BY <2>2, ReadersAssumption DEF IInv, MutexInv
    <3> QED  BY <3>1 DEF IInv, CountInv, Inside
  <2> QED  BY <2>1, <2>2 DEF WithinLimit
<1> QED  BY <1>1, Invariance, PTL

\* A reader that waits with nothing left to wake it missed a notification, or an answer
\* was lost (the wait of IndexArchive, notified without its mutex).
THEOREM StuckMeansMissed == Spec => []StuckOnlyIfMissed
<1>1. IInv => StuckOnlyIfMissed
  BY DEF IInv, WakeInv, StuckOnlyIfMissed, Stuck, Coming
<1> QED  BY <1>1, Invariance, PTL
-----------------------------------------------------------------------------
\* The list: no reader sleeps over an archive and main sleeps over no free place,
\* unless one is about to tell it; and an archive not sent yet has its holder.
HandoverInv ==
  /\ list # <<>> => \A r \in Readers : at[r] # "idle"
  /\ main = "full" => Len(list) >= ListLimit \/ \E r \in Readers : at[r] = "taken"
  /\ main = "join" => unlisted = {}
  /\ \A r \in Readers : at[r] = "count" => call[archive[r]] # "none"
  /\ \A a \in Archives : call[a] = "none" =>
       \/ a \in unlisted
       \/ \E i \in 1 .. Len(list) : list[i] = a
       \/ \E r \in Readers : archive[r] = a

\* A step of a reader or a callback that leaves the list and what is in hand.
LEMMA HandoverKept ==
  ASSUME Types, OwnInv, HandoverInv, UNCHANGED <<reading, archive>>,
         \A a \in Archives : call'[a] = "none" <=> call[a] = "none",
         \A r \in Readers : at'[r] # at[r] =>
           {at[r], at'[r]} \cap {"idle", "taken", "count"} = {}
  PROVE  HandoverInv'
<1>1. UNCHANGED <<unlisted, list, main, archive>>
  BY DEF reading
<1>2. \A r \in Readers, p \in {"idle", "taken", "count"} : at'[r] = p <=> at[r] = p
  OBVIOUS
<1>3. \A r \in Readers : at'[r] = "count" => call'[archive'[r]] # "none"
  <2> SUFFICES ASSUME NEW r \in Readers, at[r] = "count"
               PROVE  call'[archive[r]] # "none"
    BY <1>1, <1>2
  <2>1. archive[r] \in Archives
    BY DEF Types, OwnInv
  <2> QED  BY <2>1 DEF HandoverInv
<1>4. /\ list' # <<>> => \A r \in Readers : at'[r] # "idle"
      /\ main' = "full" => Len(list') >= ListLimit \/ \E r \in Readers : at'[r] = "taken"
      /\ main' = "join" => unlisted' = {}
  BY <1>1, <1>2 DEF HandoverInv
<1>5. \A a \in Archives : call'[a] = "none" =>
        \/ a \in unlisted'
        \/ \E i \in 1 .. Len(list') : list'[i] = a
        \/ \E r \in Readers : archive'[r] = a
  BY <1>1 DEF HandoverInv
<1> QED  BY <1>3, <1>4, <1>5 DEF HandoverInv

LEMMA HandoverStep ==
  ASSUME Types, OwnInv, HandoverInv, [Next]_vars
  PROVE  HandoverInv'
<1>1. CASE List
  <2>1. PICK a \in unlisted : unlisted' = unlisted \ {a} /\ list' = Append(list, a)
    BY <1>1 DEF List
  <2>2. /\ list \in Seq(Archives) /\ a \in Archives /\ Len(list') = Len(list) + 1
        /\ \A i \in 1 .. Len(list) : i \in 1 .. Len(list') /\ list'[i] = list[i]
        /\ Len(list') \in 1 .. Len(list') /\ list'[Len(list')] = a
    BY <2>1 DEF Types
  <2>3. /\ main = "list" /\ main' = "list" /\ archive' = archive /\ call' = call
        /\ \A r \in Readers : at'[r] = IF at[r] = "idle" THEN "take" ELSE at[r]
    BY <1>1 DEF List, WakeReaders
  <2>4. ASSUME NEW b \in Archives, call[b] = "none"
        PROVE  \/ b \in unlisted'
               \/ \E i \in 1 .. Len(list') : list'[i] = b
               \/ \E r \in Readers : archive'[r] = b
    <3>1. CASE b \in unlisted
      BY <2>1, <2>2, <3>1
    <3>2. CASE b \notin unlisted
      BY <2>2, <2>3, <2>4, <3>2 DEF HandoverInv
    <3> QED  BY <3>1, <3>2
  <2> QED  BY <2>3, <2>4 DEF HandoverInv
<1>2. CASE ListWaits
  BY <1>2 DEF ListWaits, HandoverInv
<1>3. ASSUME NEW r \in Readers, Take(r)
      PROVE  HandoverInv'
  <2>1. at[r] = "take" /\ UNCHANGED <<unlisted, main, call>> /\ archive[r] = Nothing
    BY <1>3 DEF Take, OwnInv
  <2>2. CASE list = <<>>
    <3>1. list' = list /\ archive' = archive /\ at' = [at EXCEPT ![r] = "idle"]
      BY <1>3, <2>2 DEF Take
    <3>2. \A q \in Readers : (at'[q] = "taken" <=> at[q] = "taken") /\ (at'[q] = "count" <=> at[q] = "count")
      BY <2>1, <3>1 DEF Types
    <3> QED  BY <2>1, <2>2, <3>1, <3>2 DEF HandoverInv
  <2>3. CASE list # <<>>
    <3>1. /\ at' = [at EXCEPT ![r] = "taken"]
          /\ archive' = [archive EXCEPT ![r] = Head(list)]
          /\ list' = Tail(list)
      BY <1>3, <2>3 DEF Take
    <3>2. /\ at'[r] = "taken" /\ archive'[r] = list[1]
          /\ \A q \in Readers : q # r => at'[q] = at[q] /\ archive'[q] = archive[q]
      BY <2>3, <3>1 DEF Types
    <3>3. /\ list \in Seq(Archives) /\ Len(list') = Len(list) - 1
          /\ \A i \in 1 .. Len(list) : i = 1 \/ (i - 1 \in 1 .. Len(list') /\ list'[i - 1] = list[i])
      BY <2>3, <3>1 DEF Types
    <3>4. \A q \in Readers : at[q] # "idle"
      BY <2>3 DEF HandoverInv
    <3>5. ASSUME NEW b \in Archives, call[b] = "none"
          PROVE  \/ b \in unlisted
                 \/ \E i \in 1 .. Len(list') : list'[i] = b
                 \/ \E q \in Readers : archive'[q] = b
      <4>1. CASE \E i \in 1 .. Len(list) : list[i] = b
        BY <3>2, <3>3, <4>1
      <4>2. CASE \E q \in Readers : archive[q] = b
        BY <2>1, <3>2, <3>5, <4>2, ArchivesAssumption
      <4> QED  BY <3>5, <4>1, <4>2 DEF HandoverInv
    <3> QED  BY <2>1, <3>2, <3>4, <3>5 DEF HandoverInv
  <2> QED  BY <2>2, <2>3
<1>4. ASSUME NEW r \in Readers, NotifyTaken(r)
      PROVE  HandoverInv'
  <2>1. /\ at[r] = "taken" /\ main' # "full" /\ (main' = "join" <=> main = "join")
        /\ UNCHANGED <<unlisted, list, archive, call>>
    BY <1>4 DEF NotifyTaken
  <2>2. \A q \in Readers : at'[q] # "idle" /\ (at'[q] = "count" => at[q] = "count")
    BY <1>4 DEF NotifyTaken
  <2> QED  BY <2>1, <2>2 DEF HandoverInv
<1>5. ASSUME NEW r \in Readers, ParseArchive(r)
      PROVE  HandoverInv'
  <2>1. /\ at[r] = "parse" /\ UNCHANGED <<unlisted, list, main>>
        /\ archive[r] \in Archives /\ archive[r] # Nothing
    BY <1>5 DEF ParseArchive, reading, OwnInv, Types
  <2>2. CASE at' = [at EXCEPT ![r] = "index"] /\ UNCHANGED <<archive, call>>
    BY <2>1, <2>2, HandoverKept DEF Types, reading
  <2>3. CASE /\ at' = [at EXCEPT ![r] = "take"]
             /\ call' = [call EXCEPT ![archive[r]] = "unreadable"]
             /\ archive' = [archive EXCEPT ![r] = Nothing]
    <3>1. /\ at'[r] = "take" /\ call'[archive[r]] = "unreadable"
          /\ \A q \in Readers : q # r => at'[q] = at[q] /\ archive'[q] = archive[q]
          /\ \A b \in Archives : b # archive[r] => call'[b] = call[b]
      BY <2>1, <2>3 DEF Types
    <3>2. \A q \in Readers : at'[q] = "count" => call'[archive'[q]] # "none"
      <4> SUFFICES ASSUME NEW q \in Readers, at'[q] = "count"
                   PROVE  call'[archive'[q]] # "none"
        OBVIOUS
      <4>1. q # r /\ at[q] = "count" /\ archive'[q] = archive[q]
        BY <3>1
      <4>2. archive[q] \in Archives /\ archive[q] # archive[r] /\ call[archive[q]] # "none"
        BY <2>1, <4>1 DEF OwnInv, Types, HandoverInv
      <4> QED  BY <3>1, <4>1, <4>2
    <3>3. ASSUME NEW b \in Archives, call'[b] = "none"
          PROVE  \/ b \in unlisted
                 \/ \E i \in 1 .. Len(list) : list[i] = b
                 \/ \E q \in Readers : archive'[q] = b
      <4>1. b # archive[r] /\ call[b] = "none"
        BY <3>1, <3>3
      <4> QED  BY <3>1, <4>1 DEF HandoverInv
    <3>4. \A q \in Readers : (at'[q] = "taken" <=> at[q] = "taken") /\ (at'[q] = "idle" <=> at[q] = "idle")
      BY <2>1, <3>1
    <3> QED  BY <2>1, <3>2, <3>3, <3>4 DEF HandoverInv
  <2> QED  BY <1>5, <2>2, <2>3 DEF ParseArchive
<1>6. ASSUME NEW r \in Readers, Lock(r) \/ Test(r) \/ Block(r) \/ SpuriousWakeup(r)
      PROVE  HandoverInv'
  <2>1. UNCHANGED <<reading, archive, call>>
    BY <1>6 DEF Lock, Test, Block, SpuriousWakeup
  <2>2. \A q \in Readers : at'[q] # at[q] => {at[q], at'[q]} \subseteq {"index", "woken", "test", "send", "block", "waiting"}
    BY <1>6 DEF Lock, Test, Block, SpuriousWakeup, Types
  <2> QED  BY <2>1, <2>2, HandoverKept
<1>7. ASSUME NEW r \in Readers, Insert(r)
      PROVE  HandoverInv'
  <2>1. /\ at[r] = "send" /\ UNCHANGED <<unlisted, list, main, archive>>
        /\ archive[r] \in Archives /\ archive[r] # Nothing
    BY <1>7 DEF Insert, reading, OwnInv, Types
  <2>2. /\ at'[r] = "count" /\ call'[archive[r]] = "sent"
        /\ \A q \in Readers : q # r => at'[q] = at[q]
        /\ \A b \in Archives : b # archive[r] => call'[b] = call[b]
    BY <1>7, <2>1 DEF Insert, Types
  <2>3. \A q \in Readers : at'[q] = "count" => call'[archive'[q]] # "none"
    <3> SUFFICES ASSUME NEW q \in Readers, q # r, at[q] = "count"
                 PROVE  call'[archive[q]] # "none"
      BY <2>1, <2>2
    <3>1. archive[q] \in Archives /\ call[archive[q]] # "none"
      BY DEF OwnInv, Types, HandoverInv
    <3> QED  BY <2>2, <3>1
  <2>4. \A b \in Archives : call'[b] = "none" => call[b] = "none"
    BY <2>2
  <2>5. \A q \in Readers : (at'[q] = "taken" <=> at[q] = "taken") /\ (at'[q] = "idle" <=> at[q] = "idle")
    BY <2>1, <2>2
  <2> QED  BY <2>1, <2>3, <2>4, <2>5 DEF HandoverInv
<1>8. ASSUME NEW r \in Readers, Count(r)
      PROVE  HandoverInv'
  <2>1. at[r] = "count" /\ UNCHANGED <<unlisted, list, main, call>>
    BY <1>8 DEF Count, reading
  <2>2. /\ at'[r] = "take"
        /\ \A q \in Readers : q # r => at'[q] = at[q] /\ archive'[q] = archive[q]
    BY <1>8 DEF Count, Types
  <2>3. call[archive[r]] # "none"
    BY <2>1 DEF HandoverInv
  <2>4. \A b \in Archives : call[b] = "none" =>
          \/ b \in unlisted
          \/ \E i \in 1 .. Len(list) : list[i] = b
          \/ \E q \in Readers : archive'[q] = b
    BY <2>2, <2>3 DEF HandoverInv
  <2>5. \A q \in Readers : (at'[q] = "taken" <=> at[q] = "taken") /\ (at'[q] = "idle" <=> at[q] = "idle")
    BY <2>1, <2>2
  <2> QED  BY <2>1, <2>2, <2>4, <2>5 DEF HandoverInv
<1>9. ASSUME NEW a \in Archives, CountDown(a) \/ Lose(a)
      PROVE  HandoverInv'
  <2>1. UNCHANGED <<reading, at, archive>>
    BY <1>9 DEF CountDown, Lose
  <2>2. \A b \in Archives : call'[b] = "none" <=> call[b] = "none"
    BY <1>9 DEF CountDown, Lose, Types
  <2> QED  BY <2>1, <2>2, HandoverKept
<1>10. ASSUME NEW a \in Archives, RegisterTimeout(a) \/ RegisterOK(a) \/ RegisterFault(a)
       PROVE  HandoverInv'
  <2>1. Finish(a)
    BY <1>10 DEF RegisterTimeout, RegisterOK, RegisterFault
  <2>2. UNCHANGED <<reading, archive>> /\ call[a] = "back"
    BY <2>1 DEF Finish
  <2>3. \A b \in Archives : call'[b] = "none" <=> call[b] = "none"
    BY <2>1, <2>2, FinishTypes DEF Types
  <2>4. \A r \in Readers : at'[r] # at[r] => at[r] = "waiting" /\ at'[r] = "woken"
    BY <2>1, FinishTypes
  <2> QED  BY <2>2, <2>3, <2>4, HandoverKept
<1>11. CASE UNCHANGED vars
  BY <1>11 DEF vars, HandoverInv
<1> QED  BY <1>1, <1>2, <1>3, <1>4, <1>5, <1>6, <1>7, <1>8, <1>9, <1>10, <1>11
         DEF Next, Main, Read, IndexArchive, Callback

\* No thread of the program can go on, and no answer is to come.
Quiet ==
  /\ main # "list"
  /\ \A r \in Readers : at[r] \in {"idle", "waiting"}
  /\ \A a \in Archives : call[a] \notin {"sent", "back"}

\* When nothing moves any more, no notification was missed and no answer lost, all is
\* sent and answered or cannot be read: neither the list, whose two waits have their
\* own notifications, nor the limit has left an archive behind with a reader, in the
\* list or in the directories (ListArchives, ReadArchives and IndexArchive).  It is
\* what AllSentThenIdle comes to, if it comes to rest.
QuietMeansAllSent ==
  Quiet /\ Readers # {} /\ ~missed /\ ~Lost =>
    /\ main = "join" /\ \A r \in Readers : at[r] = "idle"
    /\ \A a \in Archives : call[a] \in {"done", "unreadable"}

THEOREM QuietWhenAllSent == Spec => []QuietMeansAllSent
<1>1. Init => HandoverInv
  BY DEF Init, HandoverInv
<1>2. IInv /\ HandoverInv /\ [Next]_vars => HandoverInv'
  BY HandoverStep DEF IInv
<1>3. IInv /\ HandoverInv => QuietMeansAllSent
  <2> SUFFICES ASSUME IInv, HandoverInv, Quiet, NEW r0 \in Readers, ~missed, ~Lost
               PROVE  /\ main = "join" /\ \A r \in Readers : at[r] = "idle"
                      /\ \A a \in Archives : call[a] \in {"done", "unreadable"}
    BY DEF QuietMeansAllSent
  <2>1. \A r \in Readers : at[r] = "idle"
    BY DEF Quiet, IInv, WakeInv, Coming
  <2>2. list = <<>>
    BY <2>1 DEF HandoverInv
  <2>3. main = "join"
    <3>1. main # "full"
      <4>1. Len(list) = 0 /\ ~ (0 >= ListLimit)
        BY <2>2, LimitAssumption
      <4> QED  BY <2>1, <4>1 DEF HandoverInv
    <3> QED  BY <3>1 DEF Quiet, IInv, Types
  <2>4. ASSUME NEW a \in Archives
        PROVE  call[a] \in {"done", "unreadable"}
    <3>1. call[a] # "none"
      <4>1. \A r \in Readers : archive[r] = Nothing
        BY <2>1 DEF IInv, OwnInv
      <4>2. a # Nothing
        BY ArchivesAssumption
      <4>3. \A i \in 1 .. Len(list) : FALSE
        BY <2>2
      <4> QED  BY <2>3, <4>1, <4>2, <4>3 DEF HandoverInv
    <3> QED  BY <3>1 DEF Quiet, Lost, IInv, Types
  <2> QED  BY <2>1, <2>3, <2>4
<1> QED  BY <1>1, <1>2, <1>3, Invariance, PTL DEF Spec
===============================================================================

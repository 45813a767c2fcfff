------------------------------ MODULE Promise ------------------------------
(***************************************************************************)
(* What a pending answer promises those who wait for it (src/service.hpp,  *)
(* IService::IPending): one answer comes, at most once; a call of Wait     *)
(* returns it, unless its time runs out before; who waits without a time   *)
(* waits for the answer.  An answer that is not kept is given away by the  *)
(* call that returns it, and Empty is all the calls after it get.          *)
(***************************************************************************)
CONSTANTS Callers, Answers, Empty

VARIABLES
  keeps,    \* whether the answer stays for the calls to come
  answer,   \* the answer, or NoAnswer
  asks,     \* of each caller: how it waits, or "no"
  got       \* of each caller: what its last call returned

vars == <<keeps, answer, asks, got>>

NoAnswer == "none"

TypeOK ==
  /\ keeps \in BOOLEAN
  /\ answer \in Answers \cup {NoAnswer, Empty}
  /\ asks \in [Callers -> {"no", "timed", "untimed"}]
  /\ got \in [Callers -> Answers \cup {NoAnswer, Empty, "late"}]

Init ==
  /\ keeps \in BOOLEAN
  /\ answer = NoAnswer
  /\ asks = [c \in Callers |-> "no"]
  /\ got = [c \in Callers |-> NoAnswer]

Ask(c) ==
  /\ asks[c] = "no"
  /\ \E how \in {"timed", "untimed"} : asks' = [asks EXCEPT ![c] = how]
  /\ UNCHANGED <<keeps, answer, got>>

Resolve ==
  /\ answer = NoAnswer
  /\ answer' \in Answers
  /\ UNCHANGED <<keeps, asks, got>>

Return(c) ==
  /\ asks[c] # "no"
  /\ answer # NoAnswer
  /\ got' = [got EXCEPT ![c] = answer]
  /\ asks' = [asks EXCEPT ![c] = "no"]
  /\ answer' = IF keeps THEN answer ELSE Empty
  /\ UNCHANGED keeps

GiveUp(c) ==
  /\ asks[c] = "timed"
  /\ answer = NoAnswer
  /\ got' = [got EXCEPT ![c] = "late"]
  /\ asks' = [asks EXCEPT ![c] = "no"]
  /\ UNCHANGED <<keeps, answer>>

Next == Resolve \/ \E c \in Callers : Ask(c) \/ Return(c) \/ GiveUp(c)

Spec == Init /\ [][Next]_vars
=============================================================================

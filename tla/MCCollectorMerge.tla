-------------------------- MODULE MCCollectorMerge --------------------------
(***************************************************************************)
(* Sections of three, two and one documents and collectors of two: a part  *)
(* may drop a document of its own, and the common collector overflows.     *)
(***************************************************************************)
EXTENDS CollectorMerge

MCSection(p) == IF p = 1 THEN {1, 2, 3} ELSE IF p = 2 THEN {4, 5} ELSE {6}
=============================================================================

--------------------------- MODULE MCHanabiResume ---------------------------
(***************************************************************************)
(* A small deck for the engine over its saved state.                       *)
(***************************************************************************)
EXTENDS HanabiResume

MCCopies == [n \in 1 .. MaxCardNumber |-> IF n = MaxCardNumber THEN 1 ELSE 2]
=============================================================================

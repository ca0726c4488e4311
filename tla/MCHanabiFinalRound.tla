------------------------- MODULE MCHanabiFinalRound -------------------------
(***************************************************************************)
(* A small deck for the engine with its history variable.                  *)
(***************************************************************************)
EXTENDS HanabiFinalRound

MCCopies == [n \in 1 .. MaxCardNumber |-> IF n = MaxCardNumber THEN 1 ELSE 2]
=============================================================================

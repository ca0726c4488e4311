------------------------------ MODULE MCHanabi ------------------------------
(***************************************************************************)
(* A small deck for the engine and the strategy: two colours, numbers 1    *)
(* and 2.                                                                  *)
(***************************************************************************)
EXTENDS HanabiStrategy

MCCopies == [n \in 1 .. MaxCardNumber |-> IF n = MaxCardNumber THEN 1 ELSE 2]
=============================================================================

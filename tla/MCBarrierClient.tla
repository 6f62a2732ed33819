--------------------------- MODULE MCBarrierClient ---------------------------
(***************************************************************************)
(* Instances of BarrierClient for TLC.                                     *)
(***************************************************************************)
EXTENDS BarrierClient

(* 2^32 / 8: the values of a uint32_t in units of 8 ms. *)
Word32 == 536870912
=============================================================================

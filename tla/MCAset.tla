------------------------------- MODULE MCAset -------------------------------
(* 3-bit addresses, so the top address 7 and the wrap of uint64_t sums   *)
(* are reached; constants include a negative one and both ends.           *)
EXTENDS Aset

MCConsts == {-1, 0, 2, 3, 7}
=============================================================================

----------------------------- MODULE MCSeqWords -----------------------------
EXTENDS SeqWords

(* Two constants and a string; sequences of them up to length 2 include   *)
(* the empty sequence, equal and unequal lengths, and mixed element types. *)
MCScalars == {[t |-> "cst", v |-> 0], [t |-> "cst", v |-> 1], [t |-> "str", v |-> 0]}

(* value_type::alloc hands out codes in static-initialisation order; this *)
(* is one such order.                                                      *)
MCTypeCode == [cst |-> 1, str |-> 2, seq |-> 3]
=============================================================================

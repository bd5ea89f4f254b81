------------------------------ MODULE Pipeline ------------------------------
(***************************************************************************)
(* What every operator model shares: the op_origin protocol at the root  *)
(* of a sub-expression (src/libzwerg/op.cc), and the operators of         *)
(* src/builtin-dw.cc that hold one upstream stack and enumerate values   *)
(* derived from it (winfo, unit, child, attribute).                       *)
(*                                                                         *)
(* A stack is abstracted to its top value: these operators replace TOS   *)
(* and leave the rest alone.  F[v] is the sequence of values the operator *)
(* enumerates for v; an empty sequence stands for both "no such values"  *)
(* and "wrong type on TOS" (in either case the stack is dropped and       *)
(* upstream pulled again).                                                 *)
(***************************************************************************)
EXTENDS Naturals, Sequences

CONSTANT Null

(* op_origin::set_next asserts that the slot is empty and that reset()   *)
(* reached the origin since the last set_next.                             *)
SetNextFails(slot, rst) == slot # Null \/ ~rst

(* One call of next() of such an operator whose upstream is an origin    *)
(* holding `slot': with no stack held (m_vf null) it pulls the origin; a  *)
(* value with nothing to enumerate is dropped and the origin pulled       *)
(* again, which then yields null.  After the last value reset_me()       *)
(* forgets the held stack.  `vf' is the held value and `idx' the cursor.  *)
EnumNext(F, slot, vf, idx) ==
  LET d == IF vf = Null THEN slot ELSE vf
      i == IF vf = Null THEN 1 ELSE idx
  IN  IF d = Null \/ F[d] = <<>>
      THEN [res |-> Null, slot |-> Null, vf |-> Null, idx |-> 0]
      ELSE [res |-> F[d][i],
            slot |-> IF vf = Null THEN Null ELSE slot,
            vf |-> IF i = Len(F[d]) THEN Null ELSE d,
            idx |-> i + 1]

(* The same operator's reset(): reset_me() and reset() of the upstream    *)
(* origin, which empties the slot and primes it for set_next.             *)
EnumReset == [slot |-> Null, rst |-> TRUE, vf |-> Null, idx |-> 0]
=============================================================================

------------------------------- MODULE Stack -------------------------------
(***************************************************************************)
(* The dwgrep value stack (class stack, src/libzwerg/stack.hh) and its    *)
(* selector profile: 8 bits of type code per entry, top of stack in the   *)
(* lowest byte, kept incrementally by push, pop and drop.  A value is     *)
(* represented by its type code; the overload layer dispatches on the     *)
(* profile alone.  sel_t is 32 bits wide (4 entries of 8 bits); it is    *)
(* represented by its W bytes, byte 0 the least significant, because TLC *)
(* integers are narrower than 32 unsigned bits.                           *)
(***************************************************************************)
EXTENDS Naturals, Sequences, Bitwise

CONSTANTS
  W,          \* selector::W, the number of entries the profile describes
  Codes,      \* type codes allocated by value_type::alloc (8-bit, nonzero)
  MaxDepth    \* bound on the stack depth

ASSUME W \in Nat \ {0}
ASSUME Codes \subseteq 1..255 /\ MaxDepth \in Nat

VARIABLES
  vals,       \* m_values, bottom first: the type code of each value
  profile,    \* m_profile, as [byte index -> byte]
  aborted     \* need() threw std::runtime_error: the query is aborted

vars == <<vals, profile, aborted>>

Bytes == 0..(W - 1)
(* Mutant: a shift that keeps the byte moved out of the W-entry window.   *)
Shl8Wide(p) == [d \in 0..W |-> IF d = 0 THEN 0 ELSE p[d - 1]]
Shl8(p) == [d \in Bytes |-> IF d = 0 THEN 0 ELSE p[d - 1]]       \* p <<= 8
Shr8(p) == [d \in Bytes |-> IF d = W - 1 THEN 0 ELSE p[d + 1]]   \* p >>= 8
OrAt(p, k, c) == [p EXCEPT ![k] = @ | c]                          \* p | c << 8k
Zero == [d \in Bytes |-> 0]
Get(d) == vals[Len(vals) - d]            \* get (depth), 0 is the top

(* The selector the overload layer expects: the codes of the top W       *)
(* values, top in the lowest byte, zero bytes when the stack is shallower.*)
RECURSIVE RefProfile(_, _)
RefProfile(s, d) ==
  IF d = W THEN Zero
  ELSE [RefProfile(s, d + 1) EXCEPT ![d] = IF d < Len(s) THEN s[Len(s) - d] ELSE 0]

-----------------------------------------------------------------------------
Init ==
  /\ vals = <<>> /\ profile = Zero /\ aborted = FALSE

Push(c) ==
  /\ ~aborted /\ Len(vals) < MaxDepth
  /\ profile' = OrAt(Shl8(profile), 0, c)
  /\ vals' = Append(vals, c)
  /\ UNCHANGED aborted

(* Mutant: the code of the value now at depth W-1 is not shifted in.     *)
PopNoRefill ==
  /\ ~aborted /\ Len(vals) >= 1
  /\ vals' = SubSeq(vals, 1, Len(vals) - 1)
  /\ profile' = Shr8(profile)
  /\ UNCHANGED aborted

(* pop(): after removing the top, the profile is shifted right and the   *)
(* entry that moved into the window at depth W-1 is or-ed in.  need(1)   *)
(* throws on an empty stack.                                              *)
Pop ==
  /\ ~aborted
  /\ IF Len(vals) >= 1
     THEN LET rest == SubSeq(vals, 1, Len(vals) - 1)
              shifted == Shr8(profile)
          IN  /\ vals' = rest
              /\ profile' = IF Len(rest) >= W
                            THEN OrAt(shifted, W - 1, rest[Len(rest) - (W - 1)])
                            ELSE shifted
              /\ UNCHANGED aborted
     ELSE aborted' = TRUE /\ UNCHANGED <<vals, profile>>

Drop(n) ==
  /\ ~aborted
  /\ IF n <= Len(vals)
     THEN LET rest == SubSeq(vals, 1, Len(vals) - n)
              Acc[d \in 0..W] ==
                IF d = 0 THEN Zero
                ELSE IF d - 1 < Len(rest)
                     THEN OrAt(Acc[d - 1], d - 1, rest[Len(rest) - (d - 1)])
                     ELSE Acc[d - 1]
          IN  /\ vals' = rest
              /\ profile' = Acc[W]
              /\ UNCHANGED aborted
     ELSE aborted' = TRUE /\ UNCHANGED <<vals, profile>>

Next ==
  \/ \E c \in Codes : Push(c)
  \/ Pop
  \/ \E n \in 1..MaxDepth : Drop(n)

Spec == Init /\ [][Next]_vars

-----------------------------------------------------------------------------
TypeOK ==
  /\ vals \in Seq(Codes) /\ Len(vals) <= MaxDepth
  /\ profile \in [Bytes -> 0..255]
  /\ aborted \in BOOLEAN

=============================================================================

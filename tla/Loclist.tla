------------------------------ MODULE Loclist ------------------------------
(***************************************************************************)
(* `elem' and `relem' over a location expression (elem_loclist_producer,  *)
(* src/libzwerg/builtin-dw.cc).  The expression is a sequence of         *)
(* operators; the producer counts its calls in m_i and yields the         *)
(* operator at idx, from the front for elem (m_forward) and from the back  *)
(* for relem, stamped with position idx.  An operator is a model value of *)
(* Ops; its offset, operands and attribute are left out.                   *)
(***************************************************************************)
EXTENDS Naturals, Sequences, SequencesExt

CONSTANTS
  Ops,        \* the operators expressions are built of
  MaxOps      \* bound on the length of an expression (get_exprlen)

VARIABLES
  expr,       \* the location expression of the value_loclist_elem
  fwd,        \* m_forward: elem (TRUE) or relem (FALSE)
  li,         \* m_i: calls of next() so far
  lout,       \* what next() returned: [op, pos], in order
  ldone       \* next() returned nullptr

lvars == <<expr, fwd, li, lout, ldone>>

-----------------------------------------------------------------------------
(* op_elem_loclist_elem builds the producer with m_forward true,         *)
(* op_relem_loclist_elem with m_forward false.                            *)
Forward(w) == w = "elem"

(* The producer starts with m_i = 0 and m_n the length of the expression. *)
Init ==
  /\ expr \in BoundedSeq(Ops, MaxOps) /\ \E w \in {"elem", "relem"} : fwd = Forward(w)
  /\ li = 0 /\ lout = <<>> /\ ldone = FALSE

(* The index next() reads for call number i of an expression of n.        *)
(* Mutant: the direction test inverted.                                   *)
IndexSwapped(i, n, forward) == IF forward THEN n - 1 - i ELSE i

Index(i, n, forward) == IF forward THEN i ELSE n - 1 - i

(* next(): idx = m_i++; while idx < m_n yield the operator at idx (at   *)
(* m_n - 1 - idx for relem) made with position idx ...                    *)
Produce ==
  /\ ~ldone /\ li < Len(expr)
  /\ LET idx == Index(li, Len(expr), fwd)
     IN  lout' = Append(lout, [op |-> expr[idx + 1], pos |-> idx])
  /\ li' = li + 1
  /\ UNCHANGED <<expr, fwd, ldone>>

(* ... and past the end return nullptr (m_i is still bumped).             *)
Drained ==
  /\ ~ldone /\ li >= Len(expr)
  /\ li' = li + 1 /\ ldone' = TRUE
  /\ UNCHANGED <<expr, fwd, lout>>

(* The overload layer takes the next stack only once this one is drained. *)
Over ==
  /\ ldone
  /\ UNCHANGED lvars

Next == Produce \/ Drained \/ Over

Spec == Init /\ [][Next]_lvars

-----------------------------------------------------------------------------
TypeOK ==
  /\ expr \in BoundedSeq(Ops, MaxOps) /\ fwd \in BOOLEAN /\ ldone \in BOOLEAN
  /\ li \in 0..(MaxOps + 1)
  /\ lout \in Seq([op : Ops, pos : 0..(MaxOps - 1)])

(* What the producer returned, without the positions.                     *)
OpsOut == [k \in DOMAIN lout |-> lout[k].op]

(* elem yields every operator of the expression once, in order, and relem *)
(* in reverse order; a drive that ends has yielded all of them.            *)
OpsListing ==
  /\ IsPrefix(OpsOut, IF fwd THEN expr ELSE Reverse(expr))
  /\ ldone => OpsOut = IF fwd THEN expr ELSE Reverse(expr)

(* The positions of what elem and relem yield number the output stream   *)
(* 0, 1, ... (spec 2: a value's position is its index in the stream that *)
(* produced it; spec 8.4 states it for elem and relem).                    *)
OpStream == \A k \in DOMAIN lout : lout[k].pos = k - 1
=============================================================================

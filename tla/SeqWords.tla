------------------------------ MODULE SeqWords ------------------------------
(***************************************************************************)
(* Sequence values and the words over them (src/libzwerg/value-seq.cc),   *)
(* with the comparison assertions of src/libzwerg/builtin-cmp.cc.          *)
(*                                                                         *)
(* A value is a record [t, v]: t is its type ("cst", "str" or "seq"); v   *)
(* is a small integer for constants and strings (whose own cmp is not in  *)
(* src/ and compares them as numbers or strings do) and a sequence of     *)
(* values for sequences.  Three values A, B, C are picked; the `elem' or   *)
(* `relem' producer then runs over A when A is a sequence.                *)
(***************************************************************************)
EXTENDS Naturals, Sequences, FiniteSets, SequencesExt

CONSTANTS
  Scalars,    \* the constant and string values the sequences are built of
  MaxLen,     \* bound on sequence length
  TypeCode    \* value_type codes, in order of value_type::alloc

ASSUME TypeCode \in [{"cst", "str", "seq"} -> Nat]
ASSUME \A x \in Scalars : x.t \in {"cst", "str"} /\ x.v \in Nat

Seqs == {[t |-> "seq", v |-> s] : s \in BoundedSeq(Scalars, MaxLen)}
Values == Scalars \cup Seqs

VARIABLES
  a, b, c,    \* three values on the stack, A deepest, C on top
  dir,        \* "elem" or "relem": which producer op_elem_seq built
  idx,        \* m_idx of seq_elem_producer_base
  out,        \* values the producer returned, with the position it stamped
  done        \* the producer returned nullptr

vars == <<a, b, c, dir, idx, out, done>>

Compare(x, y) == IF x < y THEN "less" ELSE IF x > y THEN "greater" ELSE "equal"

(* value_cst::cmp / value_str::cmp: defined for their own type only.      *)
ScalarCmp(x, y) == IF x.t = y.t THEN Compare(x.v, y.v) ELSE "fail"

(* The two comparators value_seq::cmp hands to compare_sequences: the     *)
(* element types first, then the elements themselves.                      *)
PairCmp(pass, p, q) ==
  IF pass = "type" THEN Compare(TypeCode[p.t], TypeCode[q.t])
  ELSE ScalarCmp(p, q)

(* compare_sequences: the result of the first pair that is not equal     *)
(* (std::mismatch), equal when there is none.                              *)
CompareSeqs(sa, sb, pass) ==
  LET diff == {i \in 1..Len(sa) : PairCmp(pass, sa[i], sb[i]) # "equal"}
  IN  IF diff = {} THEN "equal"
      ELSE LET i == CHOOSE j \in diff : \A k \in diff : j <= k
           IN  PairCmp(pass, sa[i], sb[i])

(* value_seq::cmp: length first, then the element types, then the         *)
(* elements themselves; fail for a non-sequence.                           *)
SeqCmp(x, y) ==
  IF y.t # "seq" THEN "fail"
  ELSE LET bylen == Compare(Len(x.v), Len(y.v))
           bytype == CompareSeqs(x.v, y.v, "type")
       IN  IF bylen # "equal" THEN bylen
           ELSE IF bytype # "equal" THEN bytype
           ELSE CompareSeqs(x.v, y.v, "value")

ValueCmp(x, y) == IF x.t = "seq" THEN SeqCmp(x, y) ELSE ScalarCmp(x, y)

(* Mutant: the second type branch answering for ?lt as well.             *)
ComparisonResultTypo(vb, va, want) ==
  LET ta == TypeCode[va.t]
      tb == TypeCode[vb.t]
      r == ValueCmp(vb, va)
      Verdict(bit) == IF bit THEN "yes" ELSE "no"
  IN  IF ta < tb THEN Verdict(want = "less")
      ELSE IF tb < ta THEN Verdict(want = "less")
      ELSE IF r = "fail" THEN "fail"
      ELSE Verdict(r = want)

(* comparison_result(stk, want): va is TOS (B), vb the value below (A).   *)
(* Values of different types are ordered by type code first.              *)
ComparisonResult(vb, va, want) ==
  LET ta == TypeCode[va.t]
      tb == TypeCode[vb.t]
      r == ValueCmp(vb, va)
      Verdict(bit) == IF bit THEN "yes" ELSE "no"
  IN  IF ta < tb THEN Verdict(want = "less")
      ELSE IF tb < ta THEN Verdict(want = "greater")
      ELSE IF r = "fail" THEN "fail"
      ELSE Verdict(r = want)

Lt(x, y) == ComparisonResult(x, y, "less") = "yes"      \* x y ?lt
Gt(x, y) == ComparisonResult(x, y, "greater") = "yes"   \* x y ?gt
Eq(x, y) == ComparisonResult(x, y, "equal") = "yes"     \* x y ?eq

Same(x, y) == ValueCmp(x, y) = "equal"

(* Mutant: the `!' flavour built without pred_not.                        *)
WordNoInvert(want, positive, x, y) == ComparisonResult(x, y, want)

(* builtin_eq/lt/gt::build_pred: ?eq, ?lt, ?gt are the predicate itself; *)
(* !eq, !lt, !gt wrap it in pred_not (maybe_invert), which swaps yes and *)
(* no and keeps fail.                                                      *)
Word(want, positive, x, y) ==
  LET r == ComparisonResult(x, y, want)
  IN  IF positive THEN r
      ELSE CASE r = "yes" -> "no" [] r = "no" -> "yes" [] OTHER -> r

(* pred_find_seq: std::search for the needle in the haystack, holding    *)
(* when the result is not hay.end().  std::search returns hay.begin()   *)
(* for an empty needle.                                                    *)
SearchPos(hay, need) ==
  IF need = <<>> THEN 0
  ELSE LET at == {i \in 0..(Len(hay) - Len(need)) :
                    \A k \in 1..Len(need) : Same(hay[i + k], need[k])}
       IN  IF at = {} THEN Len(hay) ELSE CHOOSE i \in at : \A j \in at : i <= j
PredFind(hay, need) == SearchPos(hay.v, need.v) # Len(hay.v)

(* pred_starts_seq: the haystack is at least as long and its first       *)
(* Len(needle) elements equal the needle's.                               *)
PredStarts(hay, need) ==
  /\ Len(hay.v) >= Len(need.v)
  /\ \A k \in 1..Len(need.v) : Same(hay.v[k], need.v[k])

(* op_add_seq: A's elements followed by B's.                               *)
AddSeq(x, y) == [t |-> "seq", v |-> x.v \o y.v]

(* op_length_seq: the number of elements.                                   *)
LengthSeq(x) == Len(x.v)

(* pred_empty_seq: the sequence has no element.                             *)
PredEmpty(x) == x.v = <<>>

(* Mutant: ?ends comparing the front of the haystack, as ?starts does.    *)
PredEndsFromFront(hay, need) ==
  /\ Len(hay.v) >= Len(need.v)
  /\ \A k \in 1..Len(need.v) : Same(hay.v[k], need.v[k])

(* pred_ends_seq: the haystack is at least as long and its last          *)
(* Len(needle) elements (from std::prev(hay.end(), n)) equal the needle's.*)
PredEnds(hay, need) ==
  /\ Len(hay.v) >= Len(need.v)
  /\ \A k \in 1..Len(need.v) : Same(hay.v[Len(hay.v) - Len(need.v) + k], need.v[k])

-----------------------------------------------------------------------------
Init ==
  /\ a \in Values /\ b \in Values /\ c \in Values
  /\ dir \in {"elem", "relem"}
  /\ idx = 0 /\ out = <<>> /\ done = FALSE

(* Mutant: the position stamped with ++m_idx instead of m_idx++.          *)
ProducePreIncrement ==
  /\ a.t = "seq" /\ ~done /\ idx < Len(a.v)
  /\ LET k == IF dir = "elem" THEN idx + 1 ELSE Len(a.v) - idx
     IN  out' = Append(out, [val |-> a.v[k], pos |-> idx + 1])
  /\ idx' = idx + 1
  /\ UNCHANGED <<a, b, c, dir, done>>

(* Mutant: relem stamping each value with its index in the sequence.      *)
ProduceRelemPos ==
  /\ a.t = "seq" /\ ~done /\ idx < Len(a.v)
  /\ LET k == IF dir = "elem" THEN idx + 1 ELSE Len(a.v) - idx
         p == IF dir = "elem" THEN idx ELSE Len(a.v) - 1 - idx
     IN  out' = Append(out, [val |-> a.v[k], pos |-> p])
  /\ idx' = idx + 1
  /\ UNCHANGED <<a, b, c, dir, done>>

(* seq_elem_producer::next / seq_relem_producer::next: clone the element *)
(* at m_idx (from the front for elem, from the back for relem) and stamp *)
(* it with position m_idx++.                                               *)
Produce ==
  /\ a.t = "seq" /\ ~done /\ idx < Len(a.v)
  /\ LET k == IF dir = "elem" THEN idx + 1 ELSE Len(a.v) - idx
     IN  out' = Append(out, [val |-> a.v[k], pos |-> idx])
  /\ idx' = idx + 1
  /\ UNCHANGED <<a, b, c, dir, done>>

(* ... past the last element the producer returns nullptr.                *)
Drained ==
  /\ a.t = "seq" /\ ~done /\ idx >= Len(a.v)
  /\ done' = TRUE
  /\ UNCHANGED <<a, b, c, dir, idx, out>>

(* Nothing left to do: the enumeration is over (or A is not a sequence,  *)
(* and the overload layer dropped the stack).                              *)
Over ==
  /\ done \/ a.t # "seq"
  /\ UNCHANGED vars

Next == Produce \/ Drained \/ Over

Spec == Init /\ [][Next]_vars

-----------------------------------------------------------------------------
TypeOK ==
  /\ {a, b, c} \subseteq Values
  /\ dir \in {"elem", "relem"} /\ done \in BOOLEAN
  /\ idx \in 0..MaxLen
  /\ out \in Seq([val : Scalars, pos : 0..(MaxLen - 1)])

(* elem yields the elements of A in order, relem in reverse order, and   *)
(* both stamp the positions 0, 1, ... of the output stream (spec 8.4).   *)
ElemStream ==
  done => out = [k \in 1..Len(a.v) |->
                   [val |-> IF dir = "elem" THEN a.v[k] ELSE Reverse(a.v)[k],
                    pos |-> k - 1]]

(* ?lt, ?eq and ?gt order all values, sequences and values of different *)
(* types alike: A ?lt B holds iff B ?gt A does, exactly one of the three *)
(* holds for every pair, and ?lt is transitive.                            *)
ComparisonIsOrder ==
  /\ Lt(a, b) <=> Gt(b, a)
  /\ Cardinality({r \in {"less", "equal", "greater"} :
                    ComparisonResult(a, b, r) = "yes"}) = 1
  /\ (Lt(a, b) /\ Lt(b, c)) => Lt(a, c)
  /\ Word("less", FALSE, a, b) = "yes" <=> (Gt(a, b) \/ Eq(a, b))
  /\ Word("equal", FALSE, a, b) = "yes" <=> (Lt(a, b) \/ Gt(a, b))

(* ?starts and ?find (the g_starts_docstring and g_find_docstring): a    *)
(* needle that is a prefix of the haystack is contained in it.            *)
StartsImpliesFind ==
  (a.t = "seq" /\ b.t = "seq" /\ PredStarts(a, b)) => PredFind(a, b)

(* ?starts and ?ends against `add' (their docstrings): A B ?starts holds *)
(* iff A equals B followed by some sequence, A B ?ends iff A equals some *)
(* sequence followed by B; ?empty holds iff the sequence is the prefix of *)
(* every sequence, and `length' of A B add is the sum of the lengths.     *)
AffixWords ==
  (a.t = "seq" /\ b.t = "seq") =>
    /\ PredStarts(a, b) <=> \E x \in Seqs : Same(AddSeq(b, x), a)
    /\ PredEnds(a, b) <=> \E x \in Seqs : Same(AddSeq(x, b), a)
    /\ PredEmpty(a) <=> \A x \in Seqs : PredStarts(x, a)
    /\ LengthSeq(AddSeq(a, b)) = LengthSeq(a) + LengthSeq(b)
=============================================================================

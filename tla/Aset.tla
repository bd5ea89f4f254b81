-------------------------------- MODULE Aset --------------------------------
(***************************************************************************)
(* Address sets (value_aset) and the words over them, from                *)
(* src/libzwerg/builtin-dw.cc: aset, add, sub, length, range, ?contains,  *)
(* ?overlaps, overlap, ?empty, low, high, and the producer behind elem    *)
(* and relem.                                                              *)
(*                                                                         *)
(* A coverage is kept as the set of addresses it covers; its range list  *)
(* (sorted, disjoint, adjacent ranges merged) is derived from the set.    *)
(* Addresses are Width-bit, standing for the 64-bit uint64_t of the code: *)
(* sums of lengths and ends of ranges are taken modulo 2^Width where the  *)
(* code computes them in uint64_t.                                         *)
(***************************************************************************)
EXTENDS Integers, Sequences, FiniteSets, SequencesExt

CONSTANTS
  Width,         \* bits of an address
  Consts,        \* constants a word may take, negative ones included
  Null

Top == 2 ^ Width
Addr == 0 .. (Top - 1)

(***************************************************************************)
(* The coverage primitive (coverage.hh, not under src/): add or remove a *)
(* range, ask whether a range is covered or overlapped, intersect.        *)
(***************************************************************************)
Span(s, l) == {a \in Addr : s <= a /\ a < s + l}
CovAdd(S, s, l) == S \cup Span(s, l)
CovRemove(S, s, l) == S \ Span(s, l)
CovIsCovered(S, s, l) == Span(s, l) \subseteq S
CovIsOverlap(S, s, l) == Span(s, l) \cap S # {}
CovIntersect(S, s, l) == S \cap Span(s, l)

(* The addresses of S in ascending order.                                  *)
Ascending(S) == [k \in 1 .. Cardinality(S) |-> CHOOSE a \in S : Cardinality({b \in S : b < a}) = k - 1]

(* coverage::at: the maximal runs of S in ascending order, as [start, len]. *)
RunLen(S, a) == Cardinality({b \in Addr : b >= a /\ \A c \in a .. b : c \in S})
Ranges(S) ==
  LET starts == Ascending({a \in S : a = 0 \/ a - 1 \notin S})
  IN  [k \in DOMAIN starts |-> [start |-> starts[k], len |-> RunLen(S, starts[k])]]

-----------------------------------------------------------------------------
(* addressify: a negative constant is taken as 0 (with a warning).        *)
Addressify(v) == IF v < 0 THEN 0 ELSE v

(* Mutant: the two constants used in the order given.                     *)
AsetCstCstNoSwap(a, b) ==
  LET av == Addressify(a)
      bv == Addressify(b)
  IN  CovAdd({}, av, bv - av)

(* op_aset_cst_cst: the range between the two constants, the higher one  *)
(* excluded, whichever order they come in.                                 *)
AsetCstCst(a, b) ==
  LET av == Addressify(a)
      bv == Addressify(b)
      lo == IF av > bv THEN bv ELSE av
      hi == IF av > bv THEN av ELSE bv
  IN  CovAdd({}, lo, hi - lo)

AddAsetCst(S, c) == CovAdd(S, Addressify(c), 1)
SubAsetCst(S, c) == CovRemove(S, Addressify(c), 1)

(* add_all and remove_all, one range of B at a time.                       *)
AddAsetAset(A, B) == FoldLeft(LAMBDA acc, r : CovAdd(acc, r.start, r.len), A, Ranges(B))
SubAsetAset(A, B) == FoldLeft(LAMBDA acc, r : CovRemove(acc, r.start, r.len), A, Ranges(B))

(* op_length_aset: the lengths of the ranges summed in a uint64_t.        *)
LengthAset(S) == FoldLeft(LAMBDA acc, r : (acc + r.len) % Top, 0, Ranges(S))

(* op_range_aset's producer: one aset per range, at positions 0, 1, ...   *)
RangeAset(S) ==
  [k \in DOMAIN Ranges(S) |-> [cov |-> CovAdd({}, Ranges(S)[k].start, Ranges(S)[k].len),
                               pos |-> k - 1]]

ContainsAsetCst(A, c) == CovIsCovered(A, Addressify(c), 1)

(* Mutant: ?contains asking for overlap instead of cover.                 *)
ContainsAsetAsetOverlap(A, B) ==
  \A k \in DOMAIN Ranges(B) : CovIsOverlap(A, Ranges(B)[k].start, Ranges(B)[k].len)

(* ?contains for two asets: no as soon as a range of B is not covered.    *)
ContainsAsetAset(A, B) ==
  \A k \in DOMAIN Ranges(B) : CovIsCovered(A, Ranges(B)[k].start, Ranges(B)[k].len)

OverlapsAsetAset(A, B) ==
  \E k \in DOMAIN Ranges(B) : CovIsOverlap(A, Ranges(B)[k].start, Ranges(B)[k].len)

(* op_overlap_aset_aset: A intersected with each range of B, collected.   *)
OverlapAsetAset(A, B) ==
  FoldLeft(LAMBDA acc, r : acc \cup CovIntersect(A, r.start, r.len), {}, Ranges(B))

EmptyAset(A) == A = {}

(* low and high yield nothing for an empty set; high is start + length of *)
(* the last range, in uint64_t.                                            *)
LowAset(A) == IF A = {} THEN Null ELSE Ranges(A)[1].start
HighAset(A) ==
  IF A = {} THEN Null
  ELSE LET r == Ranges(A)[Len(Ranges(A))] IN (r.start + r.len) % Top

-----------------------------------------------------------------------------
(***************************************************************************)
(* elem_aset_producer: m_idx counts ranges from the end for relem, m_ai  *)
(* counts addresses within the range, m_i counts values yielded.          *)
(***************************************************************************)
VARIABLES
  cov,           \* the coverage the producer was built on
  fwd,           \* m_forward: elem (TRUE) or relem (FALSE)
  idx,           \* m_idx
  ai,            \* m_ai
  i,             \* m_i
  out,           \* history: the values [addr, pos] yielded
  done           \* next() has returned nullptr

vars == <<cov, fwd, idx, ai, i, out, done>>

(* op_elem_aset and op_relem_aset: the producer walks forward for elem   *)
(* and backward for relem.                                                  *)
Forward(w) == w = "elem"

(* Every coverage can be built with `aset' and `add'.                      *)
Init ==
  /\ cov \in SUBSET Addr /\ \E w \in {"elem", "relem"} : fwd = Forward(w)
  /\ idx = 0 /\ ai = 0 /\ i = 0 /\ out = <<>> /\ done = FALSE

(* Mutant: relem counting m_ai back from the length without the - 1.     *)
ProduceRelemOffByOne ==
  /\ ~done
  /\ LET R == Ranges(cov)
         n == Len(R)
         At(k) == R[IF fwd THEN k + 1 ELSE n - k]
     IN  IF idx >= n
         THEN done' = TRUE /\ UNCHANGED <<cov, fwd, idx, ai, i, out>>
         ELSE IF ai >= At(idx).len /\ idx + 1 >= n
         THEN idx' = idx + 1 /\ done' = TRUE /\ UNCHANGED <<cov, fwd, ai, i, out>>
         ELSE LET k == IF ai >= At(idx).len THEN idx + 1 ELSE idx
                  a == IF ai >= At(idx).len THEN 0 ELSE ai
                  off == IF fwd THEN a ELSE At(k).len - a
              IN  /\ idx' = k /\ ai' = a + 1 /\ i' = i + 1
                  /\ out' = Append(out, [addr |-> At(k).start + off, pos |-> i])
                  /\ UNCHANGED <<cov, fwd, done>>

(* One call of next(): past the last range, nullptr; at the end of a     *)
(* range, move to the next one (nullptr if there is none) and restart    *)
(* m_ai; then yield start + m_ai (start + length - 1 - m_ai for relem)   *)
(* at position m_i++.                                                      *)
Produce ==
  /\ ~done
  /\ LET R == Ranges(cov)
         n == Len(R)
         At(k) == R[IF fwd THEN k + 1 ELSE n - k]
     IN  IF idx >= n
         THEN done' = TRUE /\ UNCHANGED <<cov, fwd, idx, ai, i, out>>
         ELSE IF ai >= At(idx).len /\ idx + 1 >= n
         THEN idx' = idx + 1 /\ done' = TRUE /\ UNCHANGED <<cov, fwd, ai, i, out>>
         ELSE LET k == IF ai >= At(idx).len THEN idx + 1 ELSE idx
                  a == IF ai >= At(idx).len THEN 0 ELSE ai
                  off == IF fwd THEN a ELSE At(k).len - 1 - a
              IN  /\ idx' = k /\ ai' = a + 1 /\ i' = i + 1
                  /\ out' = Append(out, [addr |-> At(k).start + off, pos |-> i])
                  /\ UNCHANGED <<cov, fwd, done>>

Over ==
  /\ done
  /\ UNCHANGED vars

Next == Produce \/ Over

(* The overload pulls the producer until it returns nullptr.              *)
Spec == Init /\ [][Next]_vars /\ WF_vars(Produce)

-----------------------------------------------------------------------------
(* A state in which the producer has not started: the words are checked *)
(* once for each coverage.                                                 *)
Fresh == fwd /\ idx = 0 /\ ai = 0 /\ ~done

(* elem yields every address of the set once, in ascending order, relem  *)
(* in descending order, at positions 0, 1, ...; and it drains.            *)
ElemListing ==
  LET exp == IF fwd THEN Ascending(cov) ELSE Reverse(Ascending(cov))
  IN  /\ Len(out) <= Len(exp)
      /\ \A k \in DOMAIN out : out[k] = [addr |-> exp[k], pos |-> k - 1]
      /\ done => Len(out) = Len(exp)

(* The words that build asets compute the set operations they are named *)
(* after: aset is the half-open range between its constants in either    *)
(* order (negative ones taken as 0), add/sub are union and difference    *)
(* with an address or a set, overlap is intersection, range partitions   *)
(* the set into its maximal ranges in ascending order, low is the least  *)
(* address and length the number of addresses (while it fits uint64_t).  *)
SetWordsMatch ==
  Fresh =>
    /\ \A c, d \in Consts :
         LET lo == IF Addressify(c) < Addressify(d) THEN Addressify(c) ELSE Addressify(d)
             hi == IF Addressify(c) < Addressify(d) THEN Addressify(d) ELSE Addressify(c)
         IN  AsetCstCst(c, d) = {a \in Addr : lo <= a /\ a < hi}
    /\ \A c \in Consts :
         /\ AddAsetCst(cov, c) = cov \cup {Addressify(c)}
         /\ SubAsetCst(cov, c) = cov \ {Addressify(c)}
    /\ \A t \in SUBSET Addr :
         /\ AddAsetAset(cov, t) = cov \cup t
         /\ SubAsetAset(cov, t) = cov \ t
         /\ OverlapAsetAset(cov, t) = cov \cap t
    /\ LET rs == RangeAset(cov)
       IN  /\ UNION {rs[k].cov : k \in DOMAIN rs} = cov
           /\ \A k \in DOMAIN rs :
                /\ rs[k].pos = k - 1
                /\ rs[k].cov # {}
                /\ k > 1 => Min(rs[k].cov) > Max(rs[k - 1].cov) + 1
    /\ LowAset(cov) = IF cov = {} THEN Null ELSE Min(cov)
    /\ Cardinality(cov) < Top => LengthAset(cov) = Cardinality(cov)

(* The predicates: ?contains holds iff every address of the second      *)
(* operand is in the first, ?overlaps iff they share an address, ?empty  *)
(* iff the set has no address.                                             *)
PredWordsMatch ==
  Fresh =>
    /\ \A t \in SUBSET Addr :
         /\ ContainsAsetAset(cov, t) <=> t \subseteq cov
         /\ OverlapsAsetAset(cov, t) <=> cov \cap t # {}
    /\ \A c \in Consts : ContainsAsetCst(cov, c) <=> Addressify(c) \in cov
    /\ EmptyAset(cov) <=> cov = {}

(* The docstring of high: it yields the address just past the highest   *)
(* address of the set.                                                     *)
HighIsEnd ==
  (Fresh /\ cov # {}) => HighAset(cov) = Max(cov) + 1
=============================================================================

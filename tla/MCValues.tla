------------------------------ MODULE MCValues ------------------------------
(***************************************************************************)
(* The value-level models checked in one run: `which' chooses at the start *)
(* the sequence words (SeqWords), the stack and its selector profile      *)
(* (Stack), elem/relem over a location expression (Loclist) or the       *)
(* address-set words (Aset), so the state space is the sum of the four.  *)
(* Models share the names of their common variables (idx, out, done,     *)
(* fwd); the variables of the models not chosen are Null and stay        *)
(* unchanged.                                                              *)
(***************************************************************************)
EXTENDS Integers

CONSTANTS Null, W, Codes, MaxDepth, MaxLen, MaxOps, Ops, Width

VARIABLES which,
  a, b, c, dir, idx, out, done,
  vals, profile, aborted,
  expr, fwd, li, lout, ldone,
  cov, ai, i

SeqOwn == <<a, b, c, dir, idx, out, done>>
StackOwn == <<vals, profile, aborted>>
LocOwn == <<expr, fwd, li, lout, ldone>>
AsetOwn == <<cov, fwd, idx, ai, i, out, done>>
AsetOnly == <<cov, ai, i>>   \* the Aset variables no other model shares
vars == <<which, SeqOwn, StackOwn, LocOwn, AsetOwn>>

(* Two constants and a string; sequences of them up to length 2 include   *)
(* the empty sequence, equal and unequal lengths, and mixed element types. *)
MCScalars == {[t |-> "cst", v |-> 0], [t |-> "cst", v |-> 1], [t |-> "str", v |-> 0]}
(* value_type::alloc hands out codes in static-initialisation order; this *)
(* is one such order.                                                      *)
MCTypeCode == [cst |-> 1, str |-> 2, seq |-> 3]

S == INSTANCE SeqWords WITH Scalars <- MCScalars, TypeCode <- MCTypeCode
K == INSTANCE Stack
L == INSTANCE Loclist
(* 3-bit addresses, so the top address 7 and the wrap of uint64_t sums   *)
(* are reached; constants include a negative one and both ends.           *)
MCConsts == {-1, 0, 2, 3, 7}
A == INSTANCE Aset WITH Consts <- MCConsts

NoSeq == a = Null /\ b = Null /\ c = Null /\ dir = Null /\ idx = Null /\ out = Null /\ done = Null
NoStack == vals = Null /\ profile = Null /\ aborted = Null
NoLoc == expr = Null /\ fwd = Null /\ li = Null /\ lout = Null /\ ldone = Null
NoAset == cov = Null /\ ai = Null /\ i = Null

Init ==
  \/ which = "seq" /\ S!Init /\ NoStack /\ NoLoc /\ NoAset
  \/ which = "stack" /\ K!Init /\ NoSeq /\ NoLoc /\ NoAset
  \/ which = "loclist" /\ L!Init /\ NoSeq /\ NoStack /\ NoAset
  \/ /\ which = "aset" /\ A!Init /\ NoStack
     /\ a = Null /\ b = Null /\ c = Null /\ dir = Null
     /\ expr = Null /\ li = Null /\ lout = Null /\ ldone = Null

Next ==
  \/ which = "seq" /\ S!Next /\ UNCHANGED <<which, StackOwn, LocOwn, AsetOnly>>
  \/ which = "stack" /\ K!Next /\ UNCHANGED <<which, SeqOwn, LocOwn, AsetOnly>>
  \/ which = "loclist" /\ L!Next /\ UNCHANGED <<which, SeqOwn, StackOwn, AsetOnly>>
  \/ which = "aset" /\ A!Next /\ UNCHANGED <<which, a, b, c, dir, StackOwn, expr, li, lout, ldone>>

Spec == Init /\ [][Next]_vars

-----------------------------------------------------------------------------
TypeOK ==
  /\ which \in {"seq", "stack", "loclist", "aset"}
  /\ which = "seq" => S!TypeOK
  /\ which = "stack" => K!TypeOK
  /\ which = "loclist" => L!TypeOK

(* elem and relem over a sequence yield its elements in order or reversed *)
(* with positions 0, 1, ... (SeqWords!ElemStream).                          *)
ElemStream == which = "seq" => S!ElemStream

(* ?lt, ?eq and ?gt order all values (SeqWords!ComparisonIsOrder).         *)
ComparisonIsOrder == which = "seq" => S!ComparisonIsOrder

OpsListing == which = "loclist" => L!OpsListing

(* elem and relem over a location expression number what they yield      *)
(* 0, 1, ... as elem and relem over a sequence do (Loclist!OpStream).      *)
OpStream == which = "loclist" => L!OpStream

(* ?starts, ?ends, ?empty, add and length agree (SeqWords!AffixWords).    *)
AffixWords == which = "seq" => S!AffixWords

(* elem and relem over an address set list each address once, in order  *)
(* or reversed, with positions 0, 1, ... (Aset!ElemListing).               *)
ElemListing == which = "aset" => A!ElemListing

(* The aset words compute the set operations, range partition, bounds   *)
(* and length they are named after (Aset!SetWordsMatch).                   *)
SetWordsMatch == which = "aset" => A!SetWordsMatch

(* ?contains, ?overlaps and ?empty hold exactly when their set relation  *)
(* does (Aset!PredWordsMatch).                                              *)
PredWordsMatch == which = "aset" => A!PredWordsMatch
=============================================================================

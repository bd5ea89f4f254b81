------------------------------ MODULE AttrWalk ------------------------------
(***************************************************************************)
(* The attribute producer behind `attribute' (attribute_producer in       *)
(* src/libzwerg/builtin-dw.cc).  A raw DIE yields its own attributes.  A  *)
(* cooked DIE also integrates the attributes of the DIEs its              *)
(* DW_AT_abstract_origin and DW_AT_specification refer to (and of those   *)
(* they refer to in turn), skipping names already yielded and names that  *)
(* are not integrated (DW_AT_sibling, DW_AT_declaration).                 *)
(*                                                                         *)
(* An attribute is a record [code, ref]: its name, and for the two        *)
(* referencing attributes the DIE the reference resolves to.              *)
(***************************************************************************)
EXTENDS Naturals, Sequences, SequencesExt

CONSTANTS
  Dies,       \* DIE offsets
  Attrs,      \* Attrs[d]: the attributes of d, in attr_iterator order
  Starts,     \* DIEs `attribute' may be applied to
  Null

RefCodes == {"abstract_origin", "specification"}

ASSUME \A d \in Dies : \A k \in DOMAIN Attrs[d] :
         Attrs[d][k].code \in RefCodes <=> Attrs[d][k].ref \in Dies

(* attr_should_be_integrated                                               *)
ShouldBeIntegrated(code) == code \notin {"sibling", "declaration"}

VARIABLES
  cooked,     \* m_doneness = cooked, i.e. `integrate'
  start,      \* the DIE the producer was built for
  die,        \* m_die
  it,         \* m_it: index of the next attribute of m_die
  i,          \* m_i: position of the next value
  secondary,  \* m_secondary
  seen,       \* m_seen: names already yielded
  next,       \* m_next: DIEs scheduled for integration (used at the back)
  pc,         \* "idle" between calls of next(), "loop" inside it
  out,        \* history: attributes yielded, with their DIE and position
  done        \* next() has returned nullptr

vars == <<cooked, start, die, it, i, secondary, seen, next, pc, out, done>>

AtEnd == it > Len(Attrs[die])
At == Attrs[die][it]

-----------------------------------------------------------------------------
(* The constructor: m_next holds the DIE, and next_die() moves it into    *)
(* m_die.                                                                  *)
Init ==
  /\ cooked \in BOOLEAN /\ start \in Starts
  /\ die = start /\ it = 1 /\ next = <<>>
  /\ i = 0 /\ secondary = FALSE /\ seen = <<>>
  /\ pc = "idle" /\ out = <<>> /\ done = FALSE

Call ==
  /\ pc = "idle" /\ ~done
  /\ pc' = "loop"
  /\ UNCHANGED <<cooked, start, die, it, i, secondary, seen, next, out, done>>

(* The attribute iterator is at its end and there is no DIE to move to  *)
(* (or the DIE is raw): next() returns nullptr.                            *)
Drained ==
  /\ pc = "loop" /\ AtEnd /\ (~cooked \/ next = <<>>)
  /\ pc' = "idle" /\ done' = TRUE
  /\ UNCHANGED <<cooked, start, die, it, i, secondary, seen, next, out>>

(* Mutant: next_die() reading the back of m_next without popping it.    *)
NextDieNoPop ==
  /\ pc = "loop" /\ AtEnd /\ cooked /\ next # <<>>
  /\ die' = Last(next) /\ it' = 1
  /\ secondary' = TRUE
  /\ UNCHANGED <<cooked, start, i, seen, next, pc, out, done>>

(* ... next_die(): move to the DIE at the back of m_next; from now on    *)
(* attributes are secondary.                                               *)
NextDie ==
  /\ pc = "loop" /\ AtEnd /\ cooked /\ next # <<>>
  /\ die' = Last(next) /\ it' = 1 /\ next' = Front(next)
  /\ secondary' = TRUE
  /\ UNCHANGED <<cooked, start, i, seen, pc, out, done>>

(* The value returned by next(): the name is added to m_seen.             *)
Emit(at) ==
  /\ seen' = Append(seen, at.code)
  /\ out' = Append(out, [code |-> at.code, die |-> die, pos |-> i])
  /\ i' = i + 1 /\ pc' = "idle"

(* A referencing attribute of a cooked DIE: schedule() pushes the DIE it *)
(* refers to, and the attribute is returned without the seen-check.      *)
TakeRef ==
  /\ pc = "loop" /\ ~AtEnd /\ cooked /\ At.code \in RefCodes
  /\ next' = Append(next, At.ref)
  /\ it' = it + 1 /\ Emit(At)
  /\ UNCHANGED <<cooked, start, die, secondary, done>>

(* A secondary attribute that is not integrated: `goto again'.            *)
SkipNotIntegrated ==
  /\ pc = "loop" /\ ~AtEnd /\ ~(cooked /\ At.code \in RefCodes)
  /\ secondary /\ ~ShouldBeIntegrated(At.code)
  /\ it' = it + 1
  /\ UNCHANGED <<cooked, start, die, i, secondary, seen, next, pc, out, done>>

(* A cooked attribute whose name was already yielded: the do/while      *)
(* condition sends the loop round again.                                   *)
SkipSeen ==
  /\ pc = "loop" /\ ~AtEnd /\ ~(cooked /\ At.code \in RefCodes)
  /\ ~(secondary /\ ~ShouldBeIntegrated(At.code))
  /\ cooked /\ \E k \in DOMAIN seen : seen[k] = At.code
  /\ it' = it + 1
  /\ UNCHANGED <<cooked, start, die, i, secondary, seen, next, pc, out, done>>

(* Mutant: the seen-check left out of the loop condition.                 *)
TakeAttrUnchecked ==
  /\ pc = "loop" /\ ~AtEnd /\ ~(cooked /\ At.code \in RefCodes)
  /\ ~(secondary /\ ~ShouldBeIntegrated(At.code))
  /\ it' = it + 1 /\ Emit(At)
  /\ UNCHANGED <<cooked, start, die, secondary, next, done>>

(* Mutant: secondary attributes returned whether integrated or not.      *)
TakeAttrIntegrateAll ==
  /\ pc = "loop" /\ ~AtEnd /\ ~(cooked /\ At.code \in RefCodes)
  /\ ~(cooked /\ \E k \in DOMAIN seen : seen[k] = At.code)
  /\ it' = it + 1 /\ Emit(At)
  /\ UNCHANGED <<cooked, start, die, secondary, next, done>>

(* Otherwise the attribute is returned with position m_i++.              *)
TakeAttr ==
  /\ pc = "loop" /\ ~AtEnd /\ ~(cooked /\ At.code \in RefCodes)
  /\ ~(secondary /\ ~ShouldBeIntegrated(At.code))
  /\ ~(cooked /\ \E k \in DOMAIN seen : seen[k] = At.code)
  /\ it' = it + 1 /\ Emit(At)
  /\ UNCHANGED <<cooked, start, die, secondary, next, done>>

Over ==
  /\ done
  /\ UNCHANGED vars

Step == Drained \/ NextDie \/ TakeRef \/ SkipNotIntegrated \/ SkipSeen \/ TakeAttr

Next == Call \/ Step \/ Over

(* The consumer keeps pulling, and a started call of next() runs on.     *)
Spec == Init /\ [][Next]_vars /\ WF_vars(Call) /\ WF_vars(Step)

-----------------------------------------------------------------------------
Codes(d) == {Attrs[d][k].code : k \in DOMAIN Attrs[d]}

(* DIEs reachable from d through abstract_origin and specification.      *)
Refs(d) == {Attrs[d][k].ref : k \in {k \in DOMAIN Attrs[d] : Attrs[d][k].code \in RefCodes}}
Reach(d) ==
  LET RECURSIVE R(_)
      R(s) == LET s2 == s \cup UNION {Refs(e) : e \in s} IN IF s2 = s THEN s ELSE R(s2)
  IN  R({d})

OutCodes == {out[k].code : k \in DOMAIN out}

(* dwpp_attr: the DIE the first attribute named c of d refers to.         *)
RefAt(d, c) == Attrs[d][CHOOSE k \in DOMAIN Attrs[d] :
                          Attrs[d][k].code = c /\ \A j \in 1..(k - 1) : Attrs[d][j].code # c].ref

(* Mutant: the attr_should_be_integrated test of find_attribute dropped. *)
RECURSIVE FindAttributeAnyName(_, _, _)
FindAttributeAnyName(d, n, ck) ==
  LET Via(c) == IF c \in Codes(d) THEN FindAttributeAnyName(RefAt(d, c), n, ck) ELSE Null
  IN  IF n \in Codes(d) THEN d
      ELSE IF ck
      THEN IF Via("specification") # Null THEN Via("specification") ELSE Via("abstract_origin")
      ELSE Null

(* find_attribute: the DIE whose attribute named n @AT_n and ?AT_n use,  *)
(* or Null.  The DIE's own attribute; else, for a cooked DIE and an       *)
(* integrated name, the search continues through DW_AT_specification     *)
(* and, if that finds nothing, through DW_AT_abstract_origin.             *)
RECURSIVE FindAttribute(_, _, _)
FindAttribute(d, n, ck) ==
  LET Via(c) == IF c \in Codes(d) THEN FindAttribute(RefAt(d, c), n, ck) ELSE Null
  IN  IF n \in Codes(d) THEN d
      ELSE IF ck /\ ShouldBeIntegrated(n)
      THEN IF Via("specification") # Null THEN Via("specification") ELSE Via("abstract_origin")
      ELSE Null

(* The docstring of `attribute': a drained producer has yielded the DIE's *)
(* own attributes first and in order; a raw DIE nothing else, a cooked   *)
(* one also every integrated name found at a DIE it refers to, directly  *)
(* or through other references.                                            *)
ListingMatches ==
  done =>
    /\ Len(out) >= Len(Attrs[start])
    /\ \A k \in DOMAIN Attrs[start] :
         out[k].code = Attrs[start][k].code /\ out[k].die = start
    /\ ~cooked => Len(out) = Len(Attrs[start])
    /\ cooked => OutCodes = Codes(start) \cup
                   {c \in UNION {Codes(e) : e \in Reach(start)} : ShouldBeIntegrated(c)}

(* ... "except those that are already present": apart from the           *)
(* referencing attributes, which are shown at every round of              *)
(* integration, no name is yielded twice for a cooked DIE, even when two *)
(* references lead to the same DIE.                                        *)
NoDuplicateName ==
  cooked => \A j, k \in DOMAIN out :
              (j < k /\ out[j].code = out[k].code) => out[k].code \in RefCodes

(* op_atval_die::operate: the DIE whose attribute @AT_n yields, or Null *)
(* when it yields nothing.                                                  *)
AtvalDie(d, n, ck) == FindAttribute(d, n, ck)

(* pred_atname_die::result: ?AT_n holds iff find_attribute finds one.     *)
AtnameDie(d, n, ck) == FindAttribute(d, n, ck) # Null

AllCodes == UNION {Codes(d) : d \in Dies}

(* The docstring of ?AT_n: for cooked DIEs it integrates attributes "by  *)
(* the same rules as `attribute' uses": ?AT_n holds on the DIE exactly    *)
(* when the drained producer listed an attribute named n.                 *)
AtnameAgrees ==
  done => \A n \in AllCodes : AtnameDie(start, n, cooked) <=> n \in OutCodes

(* The docstring of @AT_n: it is sugar for                                 *)
(*   attribute ?(label == AT_n) cooked value  so the attribute it reads  *)
(* is the one `attribute' lists under that name, at the same DIE.         *)
AtvalIsAttribute ==
  done => \A k \in DOMAIN out :
            out[k].code \notin RefCodes => AtvalDie(start, out[k].code, cooked) = out[k].die

(* Every call of next() returns, and the producer drains.                 *)
ProducerEnds == <>done
=============================================================================

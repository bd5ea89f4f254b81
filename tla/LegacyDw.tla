------------------------------ MODULE LegacyDw ------------------------------
(***************************************************************************)
(* The words of src/builtin-dw.cc.  The enumerating ones, winfo, unit,   *)
(* child and attribute, hold one upstream stack (m_vf) and an iterator   *)
(* over what they derive from the stack's top value, and number what they *)
(* push with m_pos.  The once-words offset, name, tag, form and parent    *)
(* (dwop_f) pull a stack, pop its top and push what operate makes of it,  *)
(* dropping the stack when operate declines.  The expression is  U w  for *)
(* a word w, re-driven by an enclosing operator.                           *)
(*                                                                         *)
(* The DWARF data is abstract: Kind[v] is "die", "attr" or "other"; a die *)
(* has children Kids[d], attributes Attrs[d] and a unit UnitOf[d]; an     *)
(* attribute belongs to the die AttrDie[a].                                *)
(***************************************************************************)
EXTENDS Pipeline, SequencesExt

CONSTANTS
  Nodes,         \* values
  Kind,          \* Kind[v] \in {"die", "attr", "other"}
  Kids,          \* Kids[d]: children of die d, in dwarf_child/siblingof order
  Attrs,         \* Attrs[d]: attributes of die d, in attr_iterator order
  AttrDie,       \* AttrDie[a]: the die attribute a was read from
  UnitOf,        \* UnitOf[d]: the unit DIE of die d
  UnitDies,      \* UnitDies[u]: the DIEs of unit u, in all_dies_iterator order
  AllDies,       \* the DIEs of the whole file, in all_dies_iterator order
  Words,         \* the words the expression may use
  Up,            \* Up[v]: what the upstream operator enumerates for v
  Seeds,         \* stacks the enclosing operator feeds into the outer origin
  MaxDrives      \* bound on the number of (re)drives

VARIABLES
  pc,            \* "idle" between calls, "pull" inside next()
  up,            \* outer origin and upstream operator: [slot, rst, vf, idx]
  word,          \* which word the expression uses
  wvf,           \* m_vf: the held upstream value, or Null
  wlist,         \* what the word's iterator walks for wvf
  wit,           \* the iterator: index into wlist
  wpos,          \* m_pos
  seed,          \* history: the seed of this drive
  got,           \* history: what the word returned, [val, under, pos], in order
  drives,        \* history: number of drives
  exhausted      \* history: the current drive's next() has returned null

vars == <<pc, up, word, wvf, wlist, wit, wpos, seed, got, drives, exhausted>>

UpNext == EnumNext(Up, up.slot, up.vf, up.idx)
Moved(r, rst) == [slot |-> r.slot, rst |-> rst, vf |-> r.vf, idx |-> r.idx]

(* The die a value stands for: the die itself, or an attribute's die.      *)
DieOf(v) == IF Kind[v] = "attr" THEN AttrDie[v] ELSE v

(* find_parent: the die that lists d among its children, or Null.        *)
ParentOf(d) ==
  LET ps == {p \in Nodes : Kind[p] = "die" /\ \E j \in DOMAIN Kids[p] : Kids[p][j] = d}
  IN  IF ps = {} THEN Null ELSE CHOOSE p \in ps : TRUE

OnceWords == {"offset", "name", "tag", "form", "parent"}

(* Mutant: parent without the none_off check.                              *)
LegacyParentNoCheck(v) == IF Kind[v] = "attr" THEN <<AttrDie[v]>> ELSE <<ParentOf(v)>>

(* parent: the parent of a die, none (operate returns false) for a root;  *)
(* the die of an attribute.                                                *)
LegacyParent(v) ==
  IF Kind[v] = "attr" THEN <<AttrDie[v]>>
  ELSE IF ParentOf(v) = Null THEN <<>> ELSE <<ParentOf(v)>>

(* What a once-word's operate pushes for v, or <<>> when it declines: a  *)
(* constant is [is, of], what it says of which value.  name of a die is   *)
(* its tag (operate_tag).                                                  *)
Operate(w, v) ==
  CASE w = "offset"                          -> <<[is |-> "offset", of |-> v]>>
    [] w = "tag" \/ (w = "name" /\ Kind[v] = "die") -> <<[is |-> "tag", of |-> v]>>
    [] w = "name"                            -> <<[is |-> "name", of |-> v]>>
    [] w = "form"                            -> <<[is |-> "form", of |-> v]>>
    [] w = "parent"                          -> LegacyParent(v)

(* Whether the word takes up a stack with v on top (any other is dropped, *)
(* with an error message where the type is wrong), and what its iterator *)
(* then walks: winfo all DIEs of the file whatever v is; unit the DIEs of *)
(* the unit of a die or attribute (init_from_die); child the children of *)
(* a die that has some; attribute the attributes of a die.  A once-word *)
(* takes up the kinds it has an operate for: offset and tag dies, form  *)
(* attributes, name and parent both.                                     *)
Accepts(w, v) ==
  CASE w = "winfo"     -> TRUE
    [] w = "unit"      -> Kind[v] \in {"die", "attr"}
    [] w = "child"     -> Kind[v] = "die" /\ Kids[v] # <<>>
    [] w = "attribute" -> Kind[v] = "die"
    [] w \in {"offset", "tag"} -> Kind[v] = "die"
    [] w \in {"name", "parent"} -> Kind[v] \in {"die", "attr"}
    [] w = "form"      -> Kind[v] = "attr"

Walk(w, v) ==
  CASE w = "winfo"     -> AllDies
    [] w = "unit"      -> UnitDies[UnitOf[DieOf(v)]]
    [] w = "child"     -> Kids[v]
    [] w = "attribute" -> Attrs[v]
    [] w \in OnceWords -> Operate(w, v)

(* winfo leaves the upstream stack whole; the others pop its top value.   *)
Under(w, v) == IF w = "winfo" THEN v ELSE Null

-----------------------------------------------------------------------------
Init ==
  /\ pc = "idle"
  /\ up = [slot |-> Null, rst |-> FALSE, vf |-> Null, idx |-> 0]
  /\ word \in Words
  /\ wvf = Null /\ wlist = <<>> /\ wit = 1 /\ wpos = 0
  /\ seed = Null /\ got = <<>> /\ drives = 0 /\ exhausted = TRUE

(* Mutant: reset_me forgetting the stack but not the position.            *)
ResetMeKeepPos == [vf |-> Null, pos |-> wpos]

(* reset_me: m_vf = nullptr, m_pos = 0 (unit also moves m_it to end).     *)
ResetMe == [vf |-> Null, pos |-> 0]

(* The enclosing operator re-drives the expression: reset (reset_me and  *)
(* the upstream chain) then set_next(s) on the origin.                     *)
Drive(s) ==
  /\ pc = "idle" /\ drives < MaxDrives
  /\ wvf' = ResetMe.vf /\ wpos' = ResetMe.pos
  /\ up' = [slot |-> s, rst |-> FALSE, vf |-> Null, idx |-> 0]
  /\ seed' = s /\ got' = <<>> /\ drives' = drives + 1 /\ exhausted' = FALSE
  /\ UNCHANGED <<pc, word, wlist, wit>>

Call ==
  /\ pc = "idle" /\ ~exhausted
  /\ pc' = "pull"
  /\ UNCHANGED <<up, word, wvf, wlist, wit, wpos, seed, got, drives, exhausted>>

(* while (m_vf == nullptr): pull upstream; null ends the call.  A stack  *)
(* the word takes up becomes m_vf with the iterator at the start of what  *)
(* it walks; any other is dropped and upstream pulled again.              *)
PullUp ==
  /\ pc = "pull" /\ wvf = Null /\ word \notin OnceWords
  /\ up' = Moved(UpNext, up.rst)
  /\ LET v == UpNext.res
     IN  IF v = Null
         THEN /\ pc' = "idle" /\ exhausted' = TRUE
              /\ UNCHANGED <<wvf, wlist, wit>>
         ELSE /\ IF Accepts(word, v)
                 THEN wvf' = v /\ wlist' = Walk(word, v) /\ wit' = 1
                 ELSE UNCHANGED <<wvf, wlist, wit>>
              /\ UNCHANGED <<pc, exhausted>>
  /\ UNCHANGED <<word, wpos, seed, got, drives>>

(* The value the word pushes onto a copy of m_vf, numbered m_pos++.       *)
Pushed == [val |-> wlist[wit], under |-> Under(word, wvf), pos |-> wpos]

(* winfo, unit, attribute: the iterator is not at its end; push the value *)
(* it points at, step it, and return the stack.                           *)
Emit ==
  /\ pc = "pull" /\ wvf # Null /\ word # "child" /\ wit <= Len(wlist)
  /\ got' = Append(got, Pushed)
  /\ wpos' = wpos + 1 /\ wit' = wit + 1 /\ pc' = "idle"
  /\ UNCHANGED <<up, word, wvf, wlist, seed, drives, exhausted>>

(* winfo, unit, attribute: the iterator is at its end; reset_me, and the  *)
(* loop pulls upstream again.                                              *)
Drain ==
  /\ pc = "pull" /\ wvf # Null /\ word # "child" /\ wit > Len(wlist)
  /\ wvf' = ResetMe.vf /\ wpos' = ResetMe.pos
  /\ UNCHANGED <<pc, up, word, wlist, wit, seed, got, drives, exhausted>>

(* Mutant: the last sibling not followed by reset_me.                       *)
ChildEmitNoReset ==
  /\ pc = "pull" /\ wvf # Null /\ word = "child"
  /\ got' = Append(got, [val |-> wlist[Min({wit, Len(wlist)})], under |-> Null, pos |-> wpos])
  /\ wit' = wit + 1 /\ wpos' = wpos + 1
  /\ pc' = "idle"
  /\ UNCHANGED <<up, word, wvf, wlist, seed, drives, exhausted>>

(* child: push m_child and step it with dwarf_siblingof; when there is no *)
(* further sibling, reset_me in the same call.                              *)
ChildEmit ==
  /\ pc = "pull" /\ wvf # Null /\ word = "child"
  /\ got' = Append(got, Pushed)
  /\ IF wit = Len(wlist)
     THEN wvf' = ResetMe.vf /\ wpos' = ResetMe.pos /\ UNCHANGED wit
     ELSE wit' = wit + 1 /\ wpos' = wpos + 1 /\ UNCHANGED wvf
  /\ pc' = "idle"
  /\ UNCHANGED <<up, word, wlist, seed, drives, exhausted>>

(* dwop_f::next: pull upstream (null ends the call), pop the top value   *)
(* and hand it to operate; push and return what it makes, or drop the    *)
(* stack and pull again when the word has no operate for the value or    *)
(* operate declines.  The value is pushed with position 0.               *)
Once ==
  /\ pc = "pull" /\ word \in OnceWords
  /\ up' = Moved(UpNext, up.rst)
  /\ LET v == UpNext.res
         r == IF v # Null /\ Accepts(word, v) THEN Walk(word, v) ELSE <<>>
     IN  IF v = Null
         THEN pc' = "idle" /\ exhausted' = TRUE /\ UNCHANGED got
         ELSE IF r = <<>>
         THEN UNCHANGED <<pc, exhausted, got>>
         ELSE /\ got' = Append(got, [val |-> r[1], under |-> Null, pos |-> 0])
              /\ pc' = "idle" /\ UNCHANGED exhausted
  /\ UNCHANGED <<word, wvf, wlist, wit, wpos, seed, drives>>

Finished ==
  /\ pc = "idle" /\ exhausted /\ drives = MaxDrives
  /\ UNCHANGED vars

Step == PullUp \/ Emit \/ Drain \/ ChildEmit \/ Once

Next == (\E s \in Seeds : Drive(s)) \/ Call \/ Step \/ Finished

(* The consumer keeps pulling, and a started call of next() runs on.     *)
Spec == Init /\ [][Next]_vars /\ WF_vars(Call) /\ WF_vars(Step)

-----------------------------------------------------------------------------
(* What `U w' means: for each upstream value the word takes up, in order, *)
(* what it walks for it, numbered from 0 for that value.                   *)
(* The parent of a value by the docstring: the dies whose children       *)
(* include it (none for a unit die), or the die an attribute belongs to.  *)
RefParent(v) ==
  IF Kind[v] = "attr" THEN <<AttrDie[v]>>
  ELSE SetToSeq({p \in Nodes : Kind[p] = "die" /\ v \in Range(Kids[p])})
RefWalk(w, v) == IF w = "parent" THEN RefParent(v) ELSE Walk(w, v)
Listing(w, v) == [k \in DOMAIN RefWalk(w, v) |-> [val |-> RefWalk(w, v)[k], under |-> Under(w, v), pos |-> k - 1]]
Expected(s) ==
  LET taken == SelectSeq(Up[s], LAMBDA v : Accepts(word, v))
  IN  FlattenSeq([k \in DOMAIN taken |-> Listing(word, taken[k])])

(* The word returns, in order, every value it walks for every upstream  *)
(* value it takes up, each with the position it has for that value and  *)
(* with the stack below it as the word leaves it: a prefix while the      *)
(* drive runs, all of it once next() returned null.                       *)
WordListing ==
  /\ seed # Null => IsPrefix(got, Expected(seed))
  /\ (seed # Null /\ exhausted) => got = Expected(seed)
=============================================================================

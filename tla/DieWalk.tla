------------------------------ MODULE DieWalk ------------------------------
(***************************************************************************)
(* Walking the DIE tree in src/libzwerg/builtin-dw.cc: the producer       *)
(* behind `entry' and `child' (die_it_producer, with the inlining of      *)
(* imported partial units that cooked mode performs), and the `parent'    *)
(* and `root' words that use the import chain the producer records.  A    *)
(* walk may also start from a Dwarf: `entry' of a Dwarf is `unit entry'   *)
(* (op_entry_dwarf), the unit producer feeding one entry producer per     *)
(* unit it accepts.                                                        *)
(*                                                                         *)
(* The consumer is the query  `entry parent*'  (or `child parent*'): each *)
(* value the producer yields is walked up with `parent' until it returns  *)
(* nothing, before the producer is asked for the next value.              *)
(*                                                                         *)
(* A DIE value is a record [die, chain]: chain is the value_die import    *)
(* chain, the DW_TAG_imported_unit DIEs through which the DIE was         *)
(* reached, outermost first.  An iterator range is the list of DIEs the   *)
(* libdw iterator walks together with a cursor into it.                   *)
(***************************************************************************)
EXTENDS Naturals, Sequences, SequencesExt

CONSTANTS
  Dies,       \* DIE offsets
  Kids,       \* Kids[d]: children of d, in dwarf_child/siblingof order
  Tag,        \* Tag[d] \in {"cu", "pu", "imported_unit", "other"}
  ImportOf,   \* the partial unit an imported_unit's DW_AT_import refers to
  Dwarfs,     \* Dwarfs[f]: the unit DIEs of file f, in cu_iterator order
  Starts,     \* the [kind, die, chain] the walk may start from
  Null

ASSUME Kids \in [Dies -> Seq(Dies)] /\ ImportOf \in [Dies -> Dies \cup {Null}]
ASSUME Dwarfs \in Seq(Seq(Dies))

Value(d, ch) == [die |-> d, chain |-> ch]

(* find_parent: the DIE that lists d among its children, if any.          *)
ParentOf(d) ==
  LET ps == {p \in Dies : \E j \in DOMAIN Kids[p] : Kids[p][j] = d}
  IN  IF ps = {} THEN Null ELSE CHOOSE p \in ps : TRUE

(* all_dies_iterator over a unit walks its DIEs in preorder.              *)
RECURSIVE Preorder(_)
Preorder(d) == <<d>> \o FoldLeft(LAMBDA acc, k : acc \o Preorder(k), <<>>, Kids[d])

(* get_it_range: all DIEs of the unit for `entry' (skipping the unit DIE *)
(* when asked), the children for `child' (which always skips it).        *)
GetItRange(kind, d, skip) ==
  [list |-> IF kind = "child" THEN Kids[d]
            ELSE IF skip THEN Tail(Preorder(d)) ELSE Preorder(d),
   at |-> 1]

Exhausted(r) == r.at > Len(r.list)
Current(r) == r.list[r.at]
Bump(r) == [r EXCEPT !.at = @ + 1]

(* import_partial_units' condition: an imported_unit whose DW_AT_import  *)
(* resolves to a DIE.                                                      *)
IsImport(d) == Tag[d] = "imported_unit" /\ ImportOf[d] # Null

VARIABLES
  kind,       \* "entry" or "child": which operator built the producer
  cooked,     \* m_doneness = cooked
  start,      \* the value the operator was applied to
  stack,      \* m_stack: the stack of iterator ranges
  import,     \* m_import: the import chain of the range being walked
  i,          \* m_i: position of the next value
  pc,         \* "idle" between calls of next(), "loop" inside its do-while
  out,        \* history: the values yielded, with their positions
  done,       \* next() has returned nullptr
  cur,        \* the value `parent*' is currently walking up from, or Null
  uit,        \* dwarf_unit_producer's m_it: index of the next file
  cuit,       \* its m_cuit: the units of the current file and a cursor
  ui,         \* its m_i: position of the next unit
  units       \* history: the units it yielded, with their positions

unitp == <<uit, cuit, ui, units>>
vars == <<kind, cooked, start, stack, import, i, pc, out, done, cur, uit, cuit, ui, units>>
prod == <<stack, import, i>>

-----------------------------------------------------------------------------
(* op_parent_die::do_operate: step to the parent; for cooked DIEs, while  *)
(* that parent is a partial unit root and the import chain is not empty, *)
(* continue from the imported_unit DIE instead.  The result is built     *)
(* without an import chain.                                                *)
(* Mutant: a partial unit root with no import left to pop taken as the  *)
(* end of the walk.                                                         *)
RECURSIVE ParentFromNoPopIsRoot(_, _)
ParentFromNoPopIsRoot(v, ck) ==
  LET p == ParentOf(v.die) IN
  IF p = Null THEN Null
  ELSE IF ck /\ Tag[p] = "pu"
       THEN IF v.chain # <<>>
            THEN ParentFromNoPopIsRoot(Value(Last(v.chain), Front(v.chain)), ck)
            ELSE Null
       ELSE Value(p, <<>>)

RECURSIVE ParentFrom(_, _)
ParentFrom(v, ck) ==
  LET p == ParentOf(v.die) IN
  IF p = Null THEN Null
  ELSE IF ck /\ Tag[p] = "pu" /\ v.chain # <<>>
       THEN ParentFrom(Value(Last(v.chain), Front(v.chain)), ck)
       ELSE Value(p, <<>>)

(* dwpp_cudie: the root of the unit a DIE belongs to.                     *)
RECURSIVE UnitDie(_)
UnitDie(d) == IF ParentOf(d) = Null THEN d ELSE UnitDie(ParentOf(d))

(* Mutant: root following one import point instead of all of them.      *)
RootOneStep(v, ck) ==
  LET w == IF ck /\ v.chain # <<>> THEN Value(Last(v.chain), Front(v.chain)) ELSE v
  IN  UnitDie(w.die)

(* op_root_die::do_operate: for cooked DIEs go back through every import *)
(* point, then yield the unit DIE.                                         *)
Root(v, ck) ==
  LET w == IF ck /\ v.chain # <<>> THEN Value(Head(v.chain), <<>>) ELSE v
  IN  UnitDie(w.die)

(* op_unit_die / cu_for_die: the unit of the CU the DIE is stored in      *)
(* (dwarf_diecu), keeping the DIE's doneness.  A unit is named by its     *)
(* unit DIE.                                                               *)
UnitCu(v, ck) == [cu |-> UnitDie(v.die), cooked |-> ck]

(* pred_rootp_die: is_root of the parent cache, the same for raw and     *)
(* cooked DIEs: the DIE has no parent.                                     *)
Rootp(v) == ParentOf(v.die) = Null

(* The reference listing of a cooked walk: every DIE of the range, with  *)
(* each resolvable imported_unit replaced by the listing of the partial  *)
(* unit it imports, reached through it.                                    *)
RECURSIVE Flatten(_, _, _, _)
Flatten(k, ck, list, ch) ==
  FoldLeft(LAMBDA acc, e :
             acc \o (IF ck /\ IsImport(e)
                     THEN Flatten(k, ck, GetItRange(k, ImportOf[e], TRUE).list,
                                  Append(ch, e))
                     ELSE <<Value(e, ch)>>),
           <<>>, list)

(* make_cu_entry_producer: a fresh die_it_producer over all DIEs of the *)
(* unit, the unit DIE included, with an empty import chain and m_i = 0.  *)
EntryProducer(u) == [stack |-> <<GetItRange("entry", u, FALSE)>>, import |-> <<>>, i |-> 0]

(* The reference listing of `unit': every unit of every file in order,   *)
(* the partial units left out when cooked.                                 *)
AcceptedUnits(ck) == SelectSeq(FlattenSeq(Dwarfs), LAMBDA u : ~ck \/ Tag[u] # "pu")

(* op_dwopen_str: the Dwarf value of a file, cooked.                      *)
DwOpen == [cooked |-> TRUE]

(* op_raw_dwarf and op_cooked_dwarf: the same file, with the doneness    *)
(* the word names.                                                         *)
RawDwarf(w) == [w EXCEPT !.cooked = FALSE]
CookedDwarf(w) == [w EXCEPT !.cooked = TRUE]

(* The Dwarf a query starts from: `dwopen', optionally followed by `raw' *)
(* or `cooked'.  Units and DIEs inherit their doneness from it.           *)
Opened == {DwOpen, RawDwarf(DwOpen), CookedDwarf(DwOpen)}

-----------------------------------------------------------------------------
(* op_unit_dwarf builds a dwarf_unit_producer: m_it at the first file,   *)
(* m_cuit at end, m_i = 0.  An `entry' or `child' start builds its       *)
(* die_it_producer directly; a Dwarf start has none until a unit comes.  *)
Init ==
  /\ \E s \in Starts :
       /\ kind = s.kind /\ start = Value(s.die, s.chain)
       /\ stack = IF s.kind = "dwarf" THEN <<>> ELSE <<GetItRange(s.kind, s.die, FALSE)>>
  /\ \E w \in Opened : cooked = w.cooked
  /\ import = <<>> /\ i = 0
  /\ pc = "idle" /\ out = <<>> /\ done = FALSE /\ cur = Null
  /\ uit = 1 /\ cuit = [list |-> <<>>, at |-> 1] /\ ui = 0 /\ units = <<>>

(* The consumer asks the producer for the next value once the previous  *)
(* one has been walked to the top.                                         *)
Call ==
  /\ pc = "idle" /\ ~done /\ cur = Null
  /\ pc' = "loop"
  /\ UNCHANGED <<kind, cooked, start, prod, out, done, cur, unitp>>

(* next(): the stack of ranges is empty; the producer is drained.         *)
Empty ==
  /\ pc = "loop" /\ stack = <<>> /\ kind # "dwarf"
  /\ pc' = "idle" /\ done' = TRUE
  /\ UNCHANGED <<kind, cooked, start, prod, out, cur, unitp>>

(* Mutant: the finished range left on the stack.                          *)
DropFinishedNoPop ==
  /\ pc = "loop" /\ stack # <<>> /\ Exhausted(Last(stack))
  /\ import' = IF import = <<>> THEN <<>> ELSE Front(import)
  /\ UNCHANGED <<kind, cooked, start, stack, i, pc, out, done, cur, unitp>>

(* Mutant: the import chain not shortened with the finished range.        *)
DropFinishedKeepImport ==
  /\ pc = "loop" /\ stack # <<>> /\ Exhausted(Last(stack))
  /\ stack' = Front(stack)
  /\ UNCHANGED <<kind, cooked, start, import, i, pc, out, done, cur, unitp>>

(* drop_finished_imports: the top range is finished; pop it and step     *)
(* back along the import chain (which may already be empty).              *)
DropFinished ==
  /\ pc = "loop" /\ stack # <<>> /\ Exhausted(Last(stack))
  /\ stack' = Front(stack)
  /\ import' = IF import = <<>> THEN <<>> ELSE Front(import)
  /\ UNCHANGED <<kind, cooked, start, i, pc, out, done, cur, unitp>>

(* Mutant: the partial unit's own root DIE not skipped.                   *)
ImportUnitNoSkip ==
  /\ pc = "loop" /\ stack # <<>> /\ ~Exhausted(Last(stack))
  /\ cooked /\ IsImport(Current(Last(stack)))
  /\ LET d == Current(Last(stack))
     IN  /\ import' = Append(import, d)
         /\ stack' = Append(Front(stack) \o <<Bump(Last(stack))>>,
                            GetItRange(kind, ImportOf[d], FALSE))
  /\ UNCHANGED <<kind, cooked, start, i, pc, out, done, cur, unitp>>

(* Mutant: the chain extended with the imported partial unit instead of  *)
(* the DIE that imports it.                                                *)
ImportUnitRecordsTarget ==
  /\ pc = "loop" /\ stack # <<>> /\ ~Exhausted(Last(stack))
  /\ cooked /\ IsImport(Current(Last(stack)))
  /\ LET d == Current(Last(stack))
     IN  /\ import' = Append(import, ImportOf[d])
         /\ stack' = Append(Front(stack) \o <<Bump(Last(stack))>>,
                            GetItRange(kind, ImportOf[d], TRUE))
  /\ UNCHANGED <<kind, cooked, start, i, pc, out, done, cur, unitp>>

(* import_partial_units (cooked only): the current DIE is an imported    *)
(* unit; extend the import chain with it, step past it, and push the     *)
(* range of the partial unit it imports, without its root DIE.            *)
ImportUnit ==
  /\ pc = "loop" /\ stack # <<>> /\ ~Exhausted(Last(stack))
  /\ cooked /\ IsImport(Current(Last(stack)))
  /\ LET d == Current(Last(stack))
     IN  /\ import' = Append(import, d)
         /\ stack' = Append(Front(stack) \o <<Bump(Last(stack))>>,
                            GetItRange(kind, ImportOf[d], TRUE))
  /\ UNCHANGED <<kind, cooked, start, i, pc, out, done, cur, unitp>>

(* Neither loop condition holds: yield the current DIE with the import   *)
(* chain and position m_i++, and step the iterator.                        *)
Yield ==
  /\ pc = "loop" /\ stack # <<>> /\ ~Exhausted(Last(stack))
  /\ ~(cooked /\ IsImport(Current(Last(stack))))
  /\ LET v == Value(Current(Last(stack)), import)
     IN  /\ out' = Append(out, [val |-> v, pos |-> i])
         /\ cur' = v
  /\ stack' = Front(stack) \o <<Bump(Last(stack))>>
  /\ i' = i + 1 /\ pc' = "idle"
  /\ UNCHANGED <<kind, cooked, start, import, done, unitp>>

(* op_yielding_overload: the entry producer of a unit is drained, so    *)
(* `entry' pulls the unit producer for the next unit.                      *)
EntryDrained ==
  /\ pc = "loop" /\ stack = <<>> /\ kind = "dwarf"
  /\ pc' = "unit"
  /\ UNCHANGED <<kind, cooked, start, prod, out, done, cur, unitp>>

(* maybe_next_dwarf: m_cuit is at the end of a file; move it to the      *)
(* first unit of the next file.                                            *)
NextDwarf ==
  /\ pc = "unit" /\ Exhausted(cuit) /\ uit <= Len(Dwarfs)
  /\ cuit' = [list |-> Dwarfs[uit], at |-> 1] /\ uit' = uit + 1
  /\ UNCHANGED <<kind, cooked, start, prod, pc, out, done, cur, ui, units>>

(* maybe_next_dwarf finds no file left: dwarf_unit_producer::next, and   *)
(* with it `entry', returns nullptr.                                       *)
UnitsDrained ==
  /\ pc = "unit" /\ Exhausted(cuit) /\ uit > Len(Dwarfs)
  /\ pc' = "idle" /\ done' = TRUE
  /\ UNCHANGED <<kind, cooked, start, prod, out, cur, unitp>>

(* next_acceptable_unit, cooked: a partial unit is stepped over.  At the *)
(* end of the file it returns false and the do-while calls               *)
(* maybe_next_dwarf again.                                                 *)
SkipPartial ==
  /\ pc = "unit" /\ ~Exhausted(cuit) /\ cooked /\ Tag[Current(cuit)] = "pu"
  /\ cuit' = Bump(cuit)
  /\ UNCHANGED <<kind, cooked, start, prod, pc, out, done, cur, uit, ui, units>>

(* Mutant: the unit's tag not consulted in cooked mode.                   *)
AcceptUnitAnyTag ==
  /\ pc = "unit" /\ ~Exhausted(cuit)
  /\ LET u == Current(cuit)
     IN  /\ units' = Append(units, [unit |-> u, pos |-> ui])
         /\ stack' = EntryProducer(u).stack /\ import' = EntryProducer(u).import
         /\ i' = EntryProducer(u).i
  /\ ui' = ui + 1 /\ cuit' = Bump(cuit) /\ pc' = "loop"
  /\ UNCHANGED <<kind, cooked, start, out, done, cur, uit>>

(* The unit is acceptable (any unit when raw, one that is not a partial  *)
(* unit when cooked): yield it with m_i++ and step m_cuit; op_entry_cu   *)
(* makes a fresh entry producer for it.                                    *)
AcceptUnit ==
  /\ pc = "unit" /\ ~Exhausted(cuit) /\ (~cooked \/ Tag[Current(cuit)] # "pu")
  /\ LET u == Current(cuit)
     IN  /\ units' = Append(units, [unit |-> u, pos |-> ui])
         /\ stack' = EntryProducer(u).stack /\ import' = EntryProducer(u).import
         /\ i' = EntryProducer(u).i
  /\ ui' = ui + 1 /\ cuit' = Bump(cuit) /\ pc' = "loop"
  /\ UNCHANGED <<kind, cooked, start, out, done, cur, uit>>

(* `parent*' applies op_parent_die to the value it holds; when there is  *)
(* no parent it has nothing more to yield for this value.                 *)
Parent ==
  /\ cur # Null
  /\ cur' = ParentFrom(cur, cooked)
  /\ UNCHANGED <<kind, cooked, start, prod, pc, out, done, unitp>>

(* The query is over.                                                      *)
Over ==
  /\ done /\ cur = Null
  /\ UNCHANGED vars

Produce == Empty \/ DropFinished \/ ImportUnit \/ Yield
           \/ EntryDrained \/ NextDwarf \/ UnitsDrained \/ SkipPartial \/ AcceptUnit

Next == Call \/ Produce \/ Parent \/ Over

(* The consumer keeps pulling, and a started call of next() runs on.     *)
Spec == Init /\ [][Next]_vars /\ WF_vars(Call) /\ WF_vars(Produce) /\ WF_vars(Parent)

-----------------------------------------------------------------------------
TypeOK ==
  /\ kind \in {"entry", "child", "dwarf"} /\ cooked \in BOOLEAN
  /\ stack \in Seq([list : Seq(Dies), at : Nat])
  /\ import \in Seq({d \in Dies : Tag[d] = "imported_unit"}) /\ i \in Nat
  /\ pc \in {"idle", "loop", "unit"} /\ done \in BOOLEAN
  /\ cur \in {Null} \cup [die : Dies, chain : Seq(Dies)]
  /\ uit \in 1..Len(Dwarfs) + 1 /\ cuit \in [list : Seq(Dies), at : Nat]
  /\ ui \in Nat /\ units \in Seq([unit : Dies, pos : Nat])

(* The comment of drop_finished_imports: the stack holds one more range  *)
(* than the import chain has values, so that popping a finished partial *)
(* unit's range and stepping back along the chain stay in step.           *)
ImportChainMatchesStack ==
  stack # <<>> => Len(import) = Len(stack) - 1

Numbered(ref) == [k \in 1..Len(ref) |-> [val |-> ref[k], pos |-> k - 1]]
Listing(k, d) == Numbered(Flatten(k, cooked, GetItRange(k, d, FALSE).list, <<>>))

(* A drained producer has yielded exactly the reference listing of the   *)
(* unit or the children (imports inlined when cooked), each value with   *)
(* the import chain it was reached through and positions 0, 1, ...  From *)
(* a Dwarf, the unit producer has yielded every unit of every file in     *)
(* order with positions 0, 1, ..., leaving out, when cooked, the partial *)
(* units and only them (next_acceptable_unit: a type unit is yielded, see *)
(* CookedUnitsAreCompileUnits),                                            *)
(* and `entry' the listings of those units one after the other, the      *)
(* positions starting again at 0 for each unit.                             *)
ListingMatches ==
  done =>
    IF kind = "dwarf"
    THEN LET au == AcceptedUnits(cooked)
         IN  /\ units = [k \in 1..Len(au) |-> [unit |-> au[k], pos |-> k - 1]]
             /\ out = FlattenSeq([k \in 1..Len(au) |-> Listing("entry", au[k])])
    ELSE out = Listing(kind, start.die)

(* `root' of every value the producer yields is the unit DIE of the     *)
(* context the walk started in: for cooked DIEs reached through imports, *)
(* the unit that imports them, not the partial unit that defines them.   *)
(* From a Dwarf, the root is a unit the unit producer yielded, and a     *)
(* cooked walk never presents a DIE in the context of a partial unit.    *)
RootIsContext ==
  \A k \in 1..Len(out) :
    IF kind = "dwarf"
    THEN /\ \E j \in 1..Len(units) : Root(out[k].val, cooked) = units[j].unit
         /\ cooked => Tag[Root(out[k].val, cooked)] # "pu"
    ELSE Root(out[k].val, cooked) = UnitDie(start.die)

(* ?root holds on a visited value exactly when `parent' yields nothing   *)
(* for it, so `parent* ?root' keeps the last value of every walk.         *)
RootpIffNoParent ==
  cur # Null => (Rootp(cur) <=> ParentFrom(cur, cooked) = Null)

(* op_unit_dwarf's docstring: `unit' of a Dwarf is identical to `entry *)
(* ?root unit'.  The units that op_unit_die finds for the entries on     *)
(* which ?root holds are, in order, the units the unit producer yielded: *)
(* the cooked walk skips every partial unit's root it inlines, and the   *)
(* raw one yields partial units as units in their own right.              *)
UnitIsEntryRootUnit ==
  (done /\ kind = "dwarf") =>
    LET roots == SelectSeq(out, LAMBDA e : Rootp(e.val))
    IN  [k \in DOMAIN roots |-> UnitCu(roots[k].val, cooked).cu]
          = [k \in DOMAIN units |-> units[k].unit]

(* The docstring of op_unit_dwarf: in cooked mode `unit' only yields    *)
(* actual compile units, those whose CU DIE's tag is DW_TAG_compile_unit. *)
CookedUnitsAreCompileUnits ==
  (kind = "dwarf" /\ cooked) => \A k \in DOMAIN units : Tag[units[k].unit] = "cu"

(* Every call of next() eventually returns, and the producer drains.     *)
ProducerEnds == <>done

(* The comment of pred_rootp_die: `parent' of a cooked DIE never reaches *)
(* a partial unit root unless the traversal started in that partial      *)
(* unit; the docstring of `parent' says it goes back across import        *)
(* points to the context the DIE was explored from.                       *)
ParentStaysInContext ==
  (cur # Null /\ cooked /\ (kind = "dwarf" \/ Tag[UnitDie(start.die)] # "pu"))
    => Tag[cur.die] # "pu"
=============================================================================

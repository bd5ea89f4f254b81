------------------------------ MODULE MCDwarf ------------------------------
(***************************************************************************)
(* The two DWARF producers checked in one run: `which' chooses at the     *)
(* start the DIE walk (DieWalk: `entry', `child', `unit', `parent',       *)
(* `root') or the attribute producer (AttrWalk: `attribute', @AT_n), so   *)
(* the state space is the sum of the two.  The models share the names of  *)
(* their common variables (cooked, start, i, pc, out, done); the          *)
(* variables of the model not chosen are Null and stay unchanged.         *)
(***************************************************************************)
EXTENDS Naturals, Sequences

CONSTANT Null

VARIABLES which,
  cooked, start, i, pc, out, done,
  kind, stack, import, cur, uit, cuit, ui, units,
  die, it, secondary, seen, next

DieOnly == <<kind, stack, import, cur, uit, cuit, ui, units>>
AttrOnly == <<die, it, secondary, seen, next>>
vars == <<which, cooked, start, i, pc, out, done, DieOnly, AttrOnly>>

(* A compile unit that imports a partial unit, which imports another.    *)
(* Both partial units hold a DIE with a child, and the unit has an       *)
(* imported_unit whose DW_AT_import does not resolve.                     *)
(*                                                                         *)
(*   cu: t, imp1 -> pu1, v (w), bad          pu1: x (y), imp2 -> pu2     *)
(*   pu2: z (q)                                                            *)
(*                                                                         *)
(* The files for a Dwarf start: the first holds pu1, the unit and pu2,   *)
(* the second no unit, the third a type unit tu with a DIE s.             *)
MCKids ==
  [d \in {"cu", "t", "imp1", "v", "w", "bad", "pu1", "x", "y", "imp2", "pu2", "z", "q", "tu", "s"} |->
     CASE d = "cu"  -> <<"t", "imp1", "v", "bad">>
       [] d = "v"   -> <<"w">>
       [] d = "pu1" -> <<"x", "imp2">>
       [] d = "x"   -> <<"y">>
       [] d = "pu2" -> <<"z">>
       [] d = "z"   -> <<"q">>
       [] d = "tu"  -> <<"s">>
       [] OTHER     -> <<>>]

MCDies == DOMAIN MCKids

MCTag ==
  [d \in MCDies |->
     CASE d = "cu" -> "cu"
       [] d = "tu" -> "tu"
       [] d \in {"pu1", "pu2"} -> "pu"
       [] d \in {"imp1", "imp2", "bad"} -> "imported_unit"
       [] OTHER -> "other"]

MCImportOf ==
  [d \in MCDies |-> CASE d = "imp1" -> "pu1" [] d = "imp2" -> "pu2" [] OTHER -> Null]

MCDwarfs == <<<<"pu1", "cu", "pu2">>, <<>>, <<"tu">>>>

(* `entry' of the compile unit, `child' of its root DIE, `child' of a    *)
(* DIE inside a partial unit that was reached without imports, and        *)
(* `entry' of the Dwarf.                                                   *)
MCStarts ==
  {[kind |-> "entry", die |-> "cu", chain |-> <<>>],
   [kind |-> "child", die |-> "cu", chain |-> <<>>],
   [kind |-> "child", die |-> "x", chain |-> <<>>],
   [kind |-> "dwarf", die |-> Null, chain |-> <<>>]}

A(c) == [code |-> c, ref |-> Null]
R(c, d) == [code |-> c, ref |-> d]

(* A concrete inlined instance `inst' refers to its abstract instance    *)
(* `abs' and, through a specification, to the declaration `decl'; `abs'  *)
(* refers to `decl' too, so `decl' is integrated twice, and to `unit'.   *)
(* Names repeat across the DIEs, and the names that are never integrated *)
(* occur at the start DIE and at referenced DIEs.                         *)
MCAttrs ==
  [d \in {"inst", "abs", "decl", "unit"} |->
     CASE d = "inst" -> <<A("low_pc"), R("abstract_origin", "abs"),
                          R("specification", "decl"), A("sibling")>>
       [] d = "abs"  -> <<A("name"), R("specification", "decl"), A("inline"),
                          R("abstract_origin", "unit")>>
       [] d = "unit" -> <<A("decl_file"), A("external"), A("sibling")>>
       [] OTHER      -> <<A("name"), A("decl_line"), A("declaration"),
                          A("sibling"), A("external")>>]

D == INSTANCE DieWalk
       WITH Dies <- MCDies, Kids <- MCKids, Tag <- MCTag, ImportOf <- MCImportOf,
            Dwarfs <- MCDwarfs, Starts <- MCStarts
W == INSTANCE AttrWalk WITH Dies <- DOMAIN MCAttrs, Attrs <- MCAttrs, Starts <- DOMAIN MCAttrs

NoDie == kind = Null /\ stack = Null /\ import = Null /\ cur = Null
         /\ uit = Null /\ cuit = Null /\ ui = Null /\ units = Null
NoAttr == die = Null /\ it = Null /\ secondary = Null /\ seen = Null /\ next = Null

Init ==
  \/ which = "die" /\ D!Init /\ NoAttr
  \/ which = "attr" /\ W!Init /\ NoDie

DieStep(act) == which = "die" /\ act /\ UNCHANGED <<which, AttrOnly>>
AttrStep(act) == which = "attr" /\ act /\ UNCHANGED <<which, DieOnly>>

Next == DieStep(D!Next) \/ AttrStep(W!Next)

(* Each model's own fairness: the consumer keeps pulling and a started   *)
(* call of next() runs on.                                                 *)
Spec ==
  /\ Init /\ [][Next]_vars
  /\ WF_vars(DieStep(D!Call)) /\ WF_vars(DieStep(D!Produce)) /\ WF_vars(DieStep(D!Parent))
  /\ WF_vars(AttrStep(W!Call)) /\ WF_vars(AttrStep(W!Step))

-----------------------------------------------------------------------------
TypeOK == which \in {"die", "attr"} /\ (which = "die" => D!TypeOK)

(* drop_finished_imports keeps one more range than import chain values   *)
(* (DieWalk!ImportChainMatchesStack).                                      *)
ImportChainMatchesStack == which = "die" => D!ImportChainMatchesStack

(* entry, child and unit list every unit and DIE once, imports inlined    *)
(* when cooked, with their chains and positions (DieWalk!ListingMatches).  *)
DieListing == which = "die" => D!ListingMatches

(* root of every listed DIE is the context the walk started in, never a  *)
(* partial unit when cooked (DieWalk!RootIsContext).                       *)
RootIsContext == which = "die" => D!RootIsContext

(* ?root holds exactly where parent yields nothing                        *)
(* (DieWalk!RootpIffNoParent).                                             *)
RootpIffNoParent == which = "die" => D!RootpIffNoParent

(* unit of a Dwarf is entry ?root unit (DieWalk!UnitIsEntryRootUnit).     *)
UnitIsEntryRootUnit == which = "die" => D!UnitIsEntryRootUnit

(* attribute lists a DIE's own attributes, then, when cooked, the         *)
(* integrated names of the DIEs it refers to (AttrWalk!ListingMatches).   *)
AttrListing == which = "attr" => W!ListingMatches

(* No name but the references is listed twice for a cooked DIE            *)
(* (AttrWalk!NoDuplicateName).                                             *)
NoDuplicateName == which = "attr" => W!NoDuplicateName

(* ?AT_n holds for the names attribute lists (AttrWalk!AtnameAgrees).     *)
AtnameAgrees == which = "attr" => W!AtnameAgrees

(* Whichever producer is driven, it drains: next() returns nullptr.      *)
ProducerEnds == <>done

(* Cooked parent never reaches a partial unit root from another context  *)
(* (DieWalk!ParentStaysInContext).                                         *)
ParentStaysInContext == which = "die" => D!ParentStaysInContext

(* Cooked unit yields only compile units                                   *)
(* (DieWalk!CookedUnitsAreCompileUnits).                                   *)
CookedUnitsAreCompileUnits == which = "die" => D!CookedUnitsAreCompileUnits

(* @AT_n reads the attribute attribute lists first                         *)
(* (AttrWalk!AtvalIsAttribute).                                            *)
AtvalIsAttribute == which = "attr" => W!AtvalIsAttribute
=============================================================================

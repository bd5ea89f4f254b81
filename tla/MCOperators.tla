---------------------------- MODULE MCOperators ----------------------------
(***************************************************************************)
(* The pipeline combinators of src/libzwerg/op.cc checked in one run:    *)
(* `which' chooses at the start the expression that is driven, so the    *)
(* state space is the sum of the eight.   The modules share the names of   *)
(* the variables they have in common; the variables of the expressions   *)
(* not chosen stay Null.                                                   *)
(*                                                                         *)
(*   or      U (B1 || B2)            U: r -> a, c, b; B1 yields x, y for   *)
(*                                   a; B2 y for a, x for b; c fails both  *)
(*   ifelse  U (if C then T else E)  U: r -> a, b, a; C has two results    *)
(*                                   for a, none for b                     *)
(*   subx    U subx<P, 2> capture<Q> U: r -> a, b, a; P yields two pairs   *)
(*                                   for a; Q x, y for y and r for x       *)
(*   tine    (T1, T2) merged         U: r -> a, b, a; each branch yields   *)
(*                                   several results for one stack and     *)
(*                                   none for another                      *)
(*   assert  U assert<or<not<any P>, U: r -> a, b, c, b; P yields nothing  *)
(*           and<pos 3, Q1 == Q2>>>  for a; for b one pair fails, a later  *)
(*                                   one is equal; pos drops b at 1 and c  *)
(*   format  U "%s:%(F%)-%(G%)"      U: r -> a, b; F and G yield x, y for  *)
(*                                   a; G x for b, F nothing for b         *)
(*   scope   U (|X| {X E}) apply     U: r -> a, b; E yields x, y for a and *)
(*                                   x for b; the closure leaves its scope *)
(*   legacy  U w, w a word of        U: r -> d1, c, a2, d2, d3: dies with  *)
(*           src/builtin-dw.cc       and without children or attributes, *)
(*                                   an attribute and another value        *)
(***************************************************************************)
EXTENDS Naturals, Sequences

CONSTANT Null

VARIABLES which,
  pc, res, up, assertFailed, src, got, drives, exhausted,
  sub, branchIt, stk, cond, arm, sel, mstk, p, q, held,
  it, done, file, br, pulled, seed,
  anyOp, org, lhs, rhs, cur, s1, chain, pos, at, dir, ret,
  primed, frames, nextF, body, old, oldAssert, rebound,
  word, wvf, wlist, wit, wpos

Nodes == {"r", "a", "b", "c", "x", "y"}
None == [v \in Nodes |-> <<>>]
ROnly(s) == [None EXCEPT !["r"] = s]

O == INSTANCE OrOp WITH
       Up <- ROnly(<<"a", "c", "b">>),
       Branch <- << [None EXCEPT !["a"] = <<"x", "y">>],
                    [None EXCEPT !["a"] = <<"y">>, !["b"] = <<"x">>] >>,
       Seeds <- {"r", "a"}, MaxDrives <- 3
I == INSTANCE IfElse WITH
       Up <- ROnly(<<"a", "b", "a">>),
       Cond <- [None EXCEPT !["a"] = <<"x", "y">>],
       Arm <- [then |-> [None EXCEPT !["a"] = <<"x", "y">>],
               else |-> [None EXCEPT !["b"] = <<"y">>, !["a"] = <<"x">>]],
       Seeds <- {"r", "b"}, MaxDrives <- 3
S == INSTANCE SubExpr WITH
       Up <- ROnly(<<"a", "b", "a">>),
       Inner <- [v \in Nodes |-> IF v = "a" THEN << <<"x", "y">>, <<"y", "y">> >> ELSE <<>>],
       Keep <- 2,
       Cap <- [None EXCEPT !["y"] = <<"x", "y">>, !["x"] = <<"r">>],
       Seeds <- {"r", "a"}, MaxDrives <- 4
T == INSTANCE TineMerge WITH
       Up <- ROnly(<<"a", "b", "a">>),
       Branch <- << [None EXCEPT !["a"] = <<"x", "y">>],
                    [None EXCEPT !["a"] = <<"y">>, !["b"] = <<"x", "x">>] >>,
       Seeds <- {"r", "b"}, MaxDrives <- 4
P == INSTANCE Predicates WITH
       Up <- ROnly(<<"a", "b", "c", "b">>),
       Probe <- [None EXCEPT !["b"] = <<"x">>, !["c"] = <<"y">>],
       Lhs <- [None EXCEPT !["b"] = <<"x", "y">>, !["c"] = <<"x">>],
       Rhs <- [None EXCEPT !["b"] = <<"y">>, !["c"] = <<"y">>],
       Cmp <- [e \in Nodes \X Nodes |-> IF e[1] = e[2] THEN "equal"
                                        ELSE IF {e[1], e[2]} = {"x", "y"} THEN "fail"
                                        ELSE "less"],
       PosK <- 3, Seeds <- {"r", "a"}, MaxDrives <- 3
F == INSTANCE Format WITH
       Up <- ROnly(<<"a", "b">>),
       Pieces <- << [kind |-> "nop"], [kind |-> "lit", text |-> ":"],
                    [kind |-> "push", f |-> [None EXCEPT !["a"] = <<"x", "y">>]],
                    [kind |-> "lit", text |-> "-"],
                    [kind |-> "push", f |-> [None EXCEPT !["a"] = <<"x", "y">>, !["b"] = <<"x">>]] >>,
       Seeds <- {"r", "a"}, MaxDrives <- 3
L == INSTANCE Frames WITH
       Up <- ROnly(<<"a", "b">>),
       E <- [None EXCEPT !["a"] = <<"x", "y">>, !["b"] = <<"x">>],
       Seeds <- {"r", "a"}, MaxDrives <- 3, MaxFrames <- 6

(* Two units, d1 (child d2) and d3 (child d4); d1 and d3 have one        *)
(* attribute each, a1 and a2.                                              *)
LNodes == {"r", "d1", "d2", "d3", "d4", "a1", "a2", "c"}
LNone == [v \in LNodes |-> <<>>]
G == INSTANCE LegacyDw WITH
       Nodes <- LNodes,
       Kind <- [v \in LNodes |-> IF v \in {"d1", "d2", "d3", "d4"} THEN "die"
                                 ELSE IF v \in {"a1", "a2"} THEN "attr" ELSE "other"],
       Kids <- [LNone EXCEPT !["d1"] = <<"d2">>, !["d3"] = <<"d4">>],
       Attrs <- [LNone EXCEPT !["d1"] = <<"a1">>, !["d3"] = <<"a2">>],
       AttrDie <- [v \in LNodes |-> IF v = "a2" THEN "d3" ELSE "d1"],
       UnitOf <- [v \in LNodes |-> IF v \in {"d3", "d4"} THEN "d3" ELSE "d1"],
       UnitDies <- [LNone EXCEPT !["d1"] = <<"d1", "d2">>, !["d3"] = <<"d3", "d4">>],
       AllDies <- <<"d1", "d2", "d3", "d4">>,
       Words <- {"winfo", "unit", "child", "attribute", "offset", "name", "tag", "form", "parent"},
       Up <- [LNone EXCEPT !["r"] = <<"d1", "c", "a2", "d2", "d3">>],
       Seeds <- {"r", "d1"}, MaxDrives <- 3

Shared == <<pc, up, got, drives, exhausted>>
OrOwn == <<res, assertFailed, src, sub, branchIt, stk>>
IfOwn == <<res, assertFailed, src, cond, arm, sel>>
SubOwn == <<assertFailed, src, mstk, p, q, held>>
TineOwn == <<it, done, file, br, pulled, seed>>
PredOwn == <<anyOp, org, lhs, rhs, cur, s1>>
FmtOwn == <<chain, pos, at, dir, ret>>
FrOwn == <<primed, frames, nextF, body, old, oldAssert, rebound>>
LgOwn == <<word, wvf, wlist, wit, wpos>>
vars == <<which, Shared, OrOwn, IfOwn, SubOwn, TineOwn, PredOwn, FmtOwn, FrOwn, LgOwn>>
NoFrames == primed = Null /\ frames = Null /\ nextF = Null /\ body = Null /\ old = Null /\ oldAssert = Null /\ rebound = Null
NoLegacy == word = Null /\ wvf = Null /\ wlist = Null /\ wit = Null /\ wpos = Null
NoPred == anyOp = Null /\ org = Null /\ lhs = Null /\ rhs = Null /\ cur = Null /\ s1 = Null

(* The first six expressions, as before the scope was added.              *)
InitSix ==
  \/ /\ which = "or" /\ O!Init
     /\ cond = Null /\ arm = Null /\ sel = Null /\ mstk = Null /\ p = Null /\ q = Null /\ held = Null
     /\ it = Null /\ done = Null /\ file = Null /\ br = Null /\ pulled = Null /\ seed = Null /\ NoPred /\ chain = Null /\ pos = Null /\ at = Null /\ dir = Null /\ ret = Null
  \/ /\ which = "ifelse" /\ I!Init
     /\ sub = Null /\ branchIt = Null /\ stk = Null /\ mstk = Null /\ p = Null /\ q = Null /\ held = Null
     /\ it = Null /\ done = Null /\ file = Null /\ br = Null /\ pulled = Null /\ seed = Null /\ NoPred /\ chain = Null /\ pos = Null /\ at = Null /\ dir = Null /\ ret = Null
  \/ /\ which = "subx" /\ S!Init
     /\ res = Null /\ sub = Null /\ branchIt = Null /\ stk = Null /\ cond = Null /\ arm = Null /\ sel = Null
     /\ it = Null /\ done = Null /\ file = Null /\ br = Null /\ pulled = Null /\ seed = Null /\ NoPred /\ chain = Null /\ pos = Null /\ at = Null /\ dir = Null /\ ret = Null
  \/ /\ which = "tine" /\ T!Init
     /\ res = Null /\ assertFailed = Null /\ src = Null /\ sub = Null /\ branchIt = Null /\ stk = Null
     /\ cond = Null /\ arm = Null /\ sel = Null /\ mstk = Null /\ p = Null /\ q = Null /\ held = Null /\ NoPred /\ chain = Null /\ pos = Null /\ at = Null /\ dir = Null /\ ret = Null
  \/ /\ which = "assert" /\ P!Init
     /\ res = Null /\ src = Null /\ sub = Null /\ branchIt = Null /\ stk = Null
     /\ cond = Null /\ arm = Null /\ sel = Null /\ mstk = Null /\ p = Null /\ q = Null /\ held = Null
     /\ it = Null /\ done = Null /\ file = Null /\ br = Null /\ pulled = Null
     /\ chain = Null /\ pos = Null /\ at = Null /\ dir = Null /\ ret = Null
  \/ /\ which = "format" /\ F!Init
     /\ res = Null /\ sub = Null /\ branchIt = Null /\ stk = Null
     /\ cond = Null /\ arm = Null /\ sel = Null /\ mstk = Null /\ p = Null /\ q = Null /\ held = Null
     /\ it = Null /\ done = Null /\ file = Null /\ br = Null /\ pulled = Null /\ seed = Null /\ NoPred

Init ==
  \/ /\ which \in {"or", "ifelse", "subx", "tine", "assert", "format"} /\ NoFrames
     /\ InitSix /\ NoLegacy
  \/ /\ which = "legacy" /\ G!Init /\ NoFrames /\ NoPred /\ org = Null
     /\ res = Null /\ assertFailed = Null /\ src = Null /\ sub = Null /\ branchIt = Null /\ stk = Null
     /\ cond = Null /\ arm = Null /\ sel = Null /\ mstk = Null /\ p = Null /\ q = Null /\ held = Null
     /\ it = Null /\ done = Null /\ file = Null /\ br = Null /\ pulled = Null
     /\ chain = Null /\ pos = Null /\ at = Null /\ dir = Null /\ ret = Null
  \/ /\ which = "scope" /\ L!Init /\ NoLegacy
     /\ res = Null /\ src = Null /\ sub = Null /\ branchIt = Null /\ stk = Null
     /\ cond = Null /\ arm = Null /\ sel = Null /\ mstk = Null /\ p = Null /\ q = Null /\ held = Null
     /\ it = Null /\ done = Null /\ file = Null /\ br = Null /\ pulled = Null
     /\ anyOp = Null /\ lhs = Null /\ rhs = Null /\ cur = Null /\ s1 = Null
     /\ chain = Null /\ pos = Null /\ at = Null /\ dir = Null /\ ret = Null

(* What the expressions not chosen own stays as it is.                     *)
ORest == UNCHANGED <<which, cond, arm, sel, mstk, p, q, held, TineOwn, PredOwn, FmtOwn, FrOwn, LgOwn>>
IRest == UNCHANGED <<which, sub, branchIt, stk, mstk, p, q, held, TineOwn, PredOwn, FmtOwn, FrOwn, LgOwn>>
SRest == UNCHANGED <<which, res, sub, branchIt, stk, cond, arm, sel, TineOwn, PredOwn, FmtOwn, FrOwn, LgOwn>>
TRest == UNCHANGED <<which, OrOwn, IfOwn, mstk, p, q, held, PredOwn, FmtOwn, FrOwn, LgOwn>>
PRest == UNCHANGED <<which, res, src, sub, branchIt, stk, cond, arm, sel, mstk, p, q, held,
                     it, done, file, br, pulled, FmtOwn, FrOwn, LgOwn>>
FRest == UNCHANGED <<which, res, sub, branchIt, stk, cond, arm, sel, mstk, p, q, held,
                     TineOwn, PredOwn, FrOwn, LgOwn>>
LRest == UNCHANGED <<which, res, src, sub, branchIt, stk, cond, arm, sel, mstk, p, q, held,
                     it, done, file, br, pulled, anyOp, lhs, rhs, cur, s1, FmtOwn, LgOwn>>
GRest == UNCHANGED <<which, OrOwn, IfOwn, SubOwn, it, done, file, br, pulled,
                     PredOwn, FmtOwn, FrOwn>>

Next ==
  \/ which = "or" /\ O!Next /\ ORest
  \/ which = "ifelse" /\ I!Next /\ IRest
  \/ which = "subx" /\ S!Next /\ SRest
  \/ which = "tine" /\ T!Next /\ TRest
  \/ which = "assert" /\ P!Next /\ PRest
  \/ which = "format" /\ F!Next /\ FRest
  \/ which = "scope" /\ L!Next /\ LRest
  \/ which = "legacy" /\ G!Next /\ GRest

(* The fairness of each expression's own specification, for the chosen  *)
(* one.                                                                    *)
Spec ==
  /\ Init /\ [][Next]_vars
  /\ WF_vars(which = "or" /\ O!Call /\ ORest) /\ WF_vars(which = "or" /\ O!Step /\ ORest)
  /\ WF_vars(which = "ifelse" /\ I!Call /\ IRest) /\ WF_vars(which = "ifelse" /\ I!Step /\ IRest)
  /\ WF_vars(which = "subx" /\ S!Call /\ SRest) /\ WF_vars(which = "subx" /\ S!Step /\ SRest)
  /\ WF_vars(which = "tine" /\ (T!Call \/ T!CallDone) /\ TRest)
  /\ WF_vars(which = "tine" /\ T!Step /\ TRest)
  /\ WF_vars(which = "assert" /\ P!Call /\ PRest) /\ WF_vars(which = "assert" /\ P!Step /\ PRest)
  /\ WF_vars(which = "format" /\ F!Call /\ FRest) /\ WF_vars(which = "format" /\ F!Step /\ FRest)
  /\ WF_vars(which = "scope" /\ L!Call /\ LRest) /\ WF_vars(which = "scope" /\ L!Step /\ LRest)
  /\ WF_vars(which = "legacy" /\ G!Call /\ GRest) /\ WF_vars(which = "legacy" /\ G!Step /\ GRest)

-----------------------------------------------------------------------------
(* op_or emits, per upstream stack, exactly the first yielding branch's  *)
(* results (OrOp!OrListing).                                               *)
OrListing == which = "or" => O!OrListing

(* op_ifelse emits, per upstream stack, exactly the results of the arm   *)
(* the condition's first result selects (IfElse!IfElseListing).           *)
IfElseListing == which = "ifelse" => I!IfElseListing

(* subx then capture yield, per sub-expression result, the stack with   *)
(* the kept values in order and the capture on top (SubExpr!ExprListing). *)
ExprListing == which = "subx" => S!ExprListing

(* Each merged branch sees every upstream stack once and in order         *)
(* (TineMerge!BranchListing).                                              *)
BranchListing == which = "tine" => T!BranchListing

(* Merge returns everything derived from one upstream stack before       *)
(* anything derived from the next (TineMerge!Grouped).                    *)
Grouped == which = "tine" => T!Grouped

(* op_assert emits exactly the upstream stacks its predicate holds for,  *)
(* in order (Predicates!AssertListing).                                   *)
AssertListing == which = "assert" => P!AssertListing

(* op_format returns, per upstream stack, every combination of its      *)
(* pieces' results in order, with positions from 0 (Format!FormatListing). *)
FormatListing == which = "format" => F!FormatListing

(* apply returns, in order, what each closure's body enumerates for the  *)
(* value bound in the frame it captured (Frames!ApplyListing).            *)
ApplyListing == which = "scope" => L!ApplyListing

(* No slot of a frame is bound twice: op_scope makes a fresh frame for   *)
(* each upstream stack (Frames!BindOnce).                                  *)
BindOnce == which = "scope" => L!BindOnce

(* op_apply's assertion that m_old_frame was given back before the next *)
(* closure is taken up never fires (Frames!ApplyFrameProtocol).           *)
ApplyFrameProtocol == which = "scope" => L!ApplyFrameProtocol

(* winfo, unit, child and attribute return, per upstream value they take *)
(* up, everything they walk for it, numbered from 0 (LegacyDw!WordListing). *)
WordListing == which = "legacy" => G!WordListing

(* The specification's operator table says merge "round-robins one       *)
(* result from each of b1..bk until all drain" (TineMerge!RoundRobin).    *)
RoundRobin == which = "tine" => T!RoundRobin

(* Whichever expression is driven, every drive eventually ends with      *)
(* next() returning nullptr.                                               *)
DriveEnds == ~exhausted ~> exhausted
=============================================================================

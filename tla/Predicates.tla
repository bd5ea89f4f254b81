----------------------------- MODULE Predicates -----------------------------
(***************************************************************************)
(* The assertion operator and the predicate graph (src/libzwerg/op.cc,    *)
(* src/libzwerg/builtin-cmp.cc).  The expression is                       *)
(*                                                                         *)
(*   U assert< or< not< subx_any<P> >,                                     *)
(*                 and< pos<PosK>, subx_compare<Q1, Q2, eq> > > >          *)
(*                                                                         *)
(* i.e. the stacks of U for which P yields nothing, or whose TOS has      *)
(* position PosK and some result of Q1 equals some result of Q2.  Q1 and Q2 hang off one shared origin, as    *)
(* pred_subx_compare::result requires; P has an origin of its own.  The   *)
(* loops of pred_subx_compare::result are split into steps; the other     *)
(* predicates are evaluated within the step that calls them.              *)
(***************************************************************************)
EXTENDS Pipeline, SequencesExt

CONSTANTS
  Nodes,         \* values
  Up,            \* Up[v]: what the upstream operator enumerates for v
  Probe,         \* Probe[v]: what P enumerates for v
  Lhs,           \* Lhs[v]: what Q1 enumerates for v
  Rhs,           \* Rhs[v]: what Q2 enumerates for v
  Cmp,           \* Cmp[a, b]: a.cmp (b), "fail" where there is no order
  PosK,          \* the position pred_pos tests for
  Seeds,         \* stacks the enclosing operator feeds into the outer origin
  MaxDrives      \* bound on the number of (re)drives

VARIABLES
  pc,            \* "idle" between calls, "pull" in op_assert's loop, "lhs" and
                 \* "rhs" in the outer and inner loop of pred_subx_compare
  up,            \* outer origin and upstream operator: [slot, rst, vf, idx]
  anyOp,         \* P and its origin
  org,           \* the origin Q1 and Q2 share: [slot, rst]
  lhs,           \* Q1: [vf, idx]
  rhs,           \* Q2: [vf, idx]
  cur,           \* the upstream stack the predicate is evaluated on
  s1,            \* stk_1: the current result of Q1
  assertFailed,  \* an op_origin::set_next assertion has fired
  seed,          \* history: the seed of this drive
  got,           \* history: the results of this drive, in order
  drives,        \* history: number of drives
  exhausted      \* history: the current drive's next() has returned null

vars == <<pc, up, anyOp, org, lhs, rhs, cur, s1, assertFailed, seed, got, drives, exhausted>>

UpNext == EnumNext(Up, up.slot, up.vf, up.idx)
Moved(r, rst) == [slot |-> r.slot, rst |-> rst, vf |-> r.vf, idx |-> r.idx]
Op(r) == [vf |-> r.vf, idx |-> r.idx]
Idle == [vf |-> Null, idx |-> 0]

(* pred_result's `not': swaps yes and no and keeps fail.                  *)
PredNot(a) == CASE a = "yes" -> "no" [] a = "no" -> "yes" [] OTHER -> a

(* pred_pos::result: yes iff the TOS value's position is m_pos.  The      *)
(* upstream stamps its results 0, 1, ... per input stack, so the value   *)
(* EnumNext returned with cursor idx has position idx - 2.                *)
PredPos(r) == IF r.idx - 2 = PosK THEN "yes" ELSE "no"

(* Mutant: `and' that never short-circuits and answers with m_b.          *)
ShortCircuitsAndNever(a) == FALSE

(* pred_and::result: m_a's result when it is not yes (m_b is then not    *)
(* evaluated), otherwise m_b's.                                            *)
ShortCircuitsAnd(a) == a # "yes"

(* pred_eq on the stack [.., a, b]: comparison_result reads va = b at TOS *)
(* and vb = a below it, and compares vb.cmp (va) with equal; fail from    *)
(* cmp is a fail of the predicate.                                        *)
PredEq(a, b) == IF Cmp[a, b] = "fail" THEN "fail"
                ELSE IF Cmp[a, b] = "equal" THEN "yes" ELSE "no"

(* pred_subx_any::result: reset P, set_next a copy of the stack on its    *)
(* origin, and pull P once.                                               *)
SubxAny(v) == EnumNext(Probe, v, Null, 0)

-----------------------------------------------------------------------------
Init ==
  /\ pc = "idle"
  /\ up = [slot |-> Null, rst |-> FALSE, vf |-> Null, idx |-> 0]
  /\ anyOp = [slot |-> Null, rst |-> FALSE, vf |-> Null, idx |-> 0]
  /\ org = [slot |-> Null, rst |-> FALSE]
  /\ lhs = Idle /\ rhs = Idle /\ cur = Null /\ s1 = Null
  /\ assertFailed = FALSE /\ seed = Null /\ got = <<>> /\ drives = 0 /\ exhausted = TRUE

(* The enclosing operator re-drives the expression: op_assert has no     *)
(* reset of its own, so only the upstream chain is reset; the predicate  *)
(* keeps whatever state its last evaluation left.                          *)
Drive(s) ==
  /\ pc = "idle" /\ drives < MaxDrives
  /\ up' = [slot |-> s, rst |-> FALSE, vf |-> Null, idx |-> 0]
  /\ seed' = s /\ got' = <<>> /\ drives' = drives + 1 /\ exhausted' = FALSE
  /\ UNCHANGED <<pc, anyOp, org, lhs, rhs, cur, s1, assertFailed>>

Call ==
  /\ pc = "idle" /\ ~exhausted
  /\ pc' = "pull"
  /\ UNCHANGED <<up, anyOp, org, lhs, rhs, cur, s1, assertFailed, seed, got, drives, exhausted>>

(* The stack op_assert returns.                                            *)
Yield(v) == pc' = "idle" /\ got' = Append(got, v)

(* op_assert::next pulls upstream; null ends the call.  For a stack the  *)
(* `or' evaluates `not< subx_any<P> >'; anything but no is its result    *)
(* (yes: the stack is returned), no goes on to the `and': pos decides   *)
(* alone unless it is yes; then subx_compare resets Q1 and primes the    *)
(* shared origin.                                                          *)
Pull ==
  /\ pc = "pull"
  /\ up' = Moved(UpNext, up.rst)
  /\ IF UpNext.res = Null
     THEN /\ pc' = "idle" /\ exhausted' = TRUE
          /\ UNCHANGED <<anyOp, org, lhs, cur, assertFailed, got>>
     ELSE LET v == UpNext.res
              a == SubxAny(v)
              first == PredNot(IF a.res # Null THEN "yes" ELSE "no")
          IN  /\ cur' = v
              /\ anyOp' = Moved(a, FALSE)
              /\ assertFailed' = (assertFailed \/ SetNextFails(EnumReset.slot, EnumReset.rst))
              /\ CASE first # "no" -> Yield(v) /\ UNCHANGED <<org, lhs>>
                   [] ShortCircuitsAnd(PredPos(UpNext)) -> UNCHANGED <<pc, org, lhs, got>>
                   [] OTHER -> /\ lhs' = Idle /\ org' = [slot |-> v, rst |-> FALSE]
                               /\ pc' = "lhs" /\ UNCHANGED got
              /\ UNCHANGED exhausted
  /\ UNCHANGED <<rhs, s1, seed, drives>>

(* Mutant: Q2 pulled without set_next priming the shared origin again.   *)
LhsNoReprime ==
  /\ pc = "lhs"
  /\ LET r == EnumNext(Lhs, org.slot, lhs.vf, lhs.idx)
     IN  /\ lhs' = Op(r)
         /\ IF r.res = Null
            THEN pc' = "pull" /\ org' = [org EXCEPT !.slot = r.slot] /\ UNCHANGED <<rhs, s1, assertFailed>>
            ELSE /\ s1' = r.res /\ rhs' = Idle
                 /\ org' = [slot |-> Null, rst |-> TRUE]
                 /\ pc' = "rhs" /\ UNCHANGED assertFailed
  /\ UNCHANGED <<up, anyOp, cur, seed, got, drives, exhausted>>

(* The outer loop of pred_subx_compare::result: the next result of Q1.   *)
(* None left: the predicate is no and op_assert pulls upstream again.    *)
(* Otherwise Q2 is reset (and with it the shared origin), and the origin *)
(* primed with a copy of the stack.                                       *)
NextLhs ==
  /\ pc = "lhs"
  /\ LET r == EnumNext(Lhs, org.slot, lhs.vf, lhs.idx)
     IN  /\ lhs' = Op(r)
         /\ IF r.res = Null
            THEN pc' = "pull" /\ org' = [org EXCEPT !.slot = r.slot] /\ UNCHANGED <<rhs, s1, assertFailed>>
            ELSE /\ s1' = r.res /\ rhs' = Idle
                 /\ assertFailed' = (assertFailed \/ SetNextFails(Null, TRUE))
                 /\ org' = [slot |-> cur, rst |-> FALSE]
                 /\ pc' = "rhs"
  /\ UNCHANGED <<up, anyOp, cur, seed, got, drives, exhausted>>

(* Mutant: a drained Q2 sends the loop back to a freshly reset Q1.       *)
RhsRestart ==
  /\ pc = "rhs"
  /\ LET r == EnumNext(Rhs, org.slot, rhs.vf, rhs.idx)
     IN  /\ rhs' = Op(r)
         /\ IF r.res = Null
            THEN pc' = "lhs" /\ lhs' = Idle /\ org' = [slot |-> cur, rst |-> FALSE] /\ UNCHANGED got
            ELSE /\ org' = [org EXCEPT !.slot = r.slot] /\ UNCHANGED lhs
                 /\ IF PredEq(s1, r.res) = "yes" THEN Yield(cur) ELSE UNCHANGED <<pc, got>>
  /\ UNCHANGED <<up, anyOp, cur, s1, assertFailed, seed, drives, exhausted>>

(* The inner loop: the next result of Q2 is pushed onto stk_1 and eq     *)
(* evaluated.  Yes makes the predicate yes, and op_assert returns the    *)
(* stack; no or fail pops it again and Q2 is pulled on.  A drained Q2   *)
(* goes back to the outer loop.                                            *)
NextRhs ==
  /\ pc = "rhs"
  /\ LET r == EnumNext(Rhs, org.slot, rhs.vf, rhs.idx)
     IN  /\ rhs' = Op(r)
         /\ org' = [org EXCEPT !.slot = r.slot]
         /\ IF r.res = Null
            THEN pc' = "lhs" /\ UNCHANGED got
            ELSE IF PredEq(s1, r.res) = "yes" THEN Yield(cur) ELSE UNCHANGED <<pc, got>>
  /\ UNCHANGED <<up, anyOp, lhs, cur, s1, assertFailed, seed, drives, exhausted>>

Finished ==
  /\ pc = "idle" /\ exhausted /\ drives = MaxDrives
  /\ UNCHANGED vars

Step == Pull \/ NextLhs \/ NextRhs

Next == (\E s \in Seeds : Drive(s)) \/ Call \/ Step \/ Finished

(* The consumer keeps pulling, and a started call of next() runs on.     *)
Spec == Init /\ [][Next]_vars /\ WF_vars(Call) /\ WF_vars(Step)

-----------------------------------------------------------------------------
(* The predicate as the words describe it, for value v at position p: P  *)
(* yields nothing, or p is PosK and some result of Q1 and some result of *)
(* Q2 compare equal.                                                       *)
Holds(v, p) ==
  \/ Probe[v] = <<>>
  \/ /\ p = PosK
     /\ \E i \in DOMAIN Lhs[v], j \in DOMAIN Rhs[v] : Cmp[Lhs[v][i], Rhs[v][j]] = "equal"

Expected(s) ==
  LET kept == SelectSeq([k \in DOMAIN Up[s] |-> <<Up[s][k], k - 1>>],
                        LAMBDA e : Holds(e[1], e[2]))
  IN  [k \in DOMAIN kept |-> kept[k][1]]

(* op_assert emits, in upstream order, exactly the stacks the predicate  *)
(* holds for: what a drive has returned is a prefix of them, and all of  *)
(* them once next() returned null.  Q1 and Q2 sharing one origin must   *)
(* each see the stack in every round, and a fail of eq on one pair must *)
(* not stop the search.                                                   *)
AssertListing ==
  /\ seed # Null => IsPrefix(got, Expected(seed))
  /\ (seed # Null /\ exhausted) => got = Expected(seed)

(* Every drive eventually ends with next() returning null.               *)
DriveEnds == ~exhausted ~> exhausted
=============================================================================

------------------------------ MODULE SubExpr ------------------------------
(***************************************************************************)
(* The two operators that run a sub-expression on a copy of each         *)
(* upstream stack (src/libzwerg/op.cc): op_subx, which yields the         *)
(* upstream stack once per result of the sub-expression with the top     *)
(* m_keep values of that result pushed on it, and op_capture, which      *)
(* drains the sub-expression and pushes the sequence of the values it    *)
(* left on TOS.                                                            *)
(*                                                                         *)
(* The expression is  U subx<P, Keep> capture<Q>,  re-driven by an        *)
(* enclosing operator.  A stack is a sequence of values; U and Q are      *)
(* enumerating operators that replace TOS (Pipeline); P replaces TOS by  *)
(* a pair of values.                                                       *)
(***************************************************************************)
EXTENDS Pipeline, SequencesExt

CONSTANTS
  Nodes,         \* values
  Up,            \* Up[v]: what U enumerates for v
  Inner,         \* Inner[v]: the pairs P enumerates for v
  Keep,          \* m_keep of the subx
  Cap,           \* Cap[v]: what Q enumerates for v
  Seeds,         \* values the enclosing operator feeds into the outer origin
  MaxDrives      \* bound on the number of (re)drives

ASSUME Up \in [Nodes -> Seq(Nodes)] /\ Cap \in [Nodes -> Seq(Nodes)]
ASSUME Inner \in [Nodes -> Seq(Nodes \X Nodes)] /\ Keep \in 0..2

VARIABLES
  pc,            \* "idle" between calls, "subx" in op_subx::next, "cap" in op_capture::next
  up,            \* outer origin and U: [slot, rst, vf, idx]
  mstk,          \* op_subx::m_stk: the upstream stack P runs on, or Null
  p,             \* P and its origin
  q,             \* Q and its origin
  held,          \* the stack op_subx returned to op_capture
  assertFailed,  \* an op_origin::set_next assertion has fired
  src,           \* history: the upstream stack results are listed for
  got,           \* history: what op_capture returned for src, in order
  drives,        \* history: number of drives
  exhausted      \* history: the current drive's next() has returned null

vars == <<pc, up, mstk, p, q, held, assertFailed, src, got, drives, exhausted>>

Idle == [slot |-> Null, rst |-> FALSE, vf |-> Null, idx |-> 0]
Moved(r, rst) == [slot |-> r.slot, rst |-> rst, vf |-> r.vf, idx |-> r.idx]
UpNext == EnumNext(Up, up.slot, up.vf, up.idx)
PNext == EnumNext(Inner, p.slot, p.vf, p.idx)

(* The top k values of a stack, in stack order.                           *)
TopK(s, k) == SubSeq(s, Len(s) - k + 1, Len(s))

(* What op_subx returns for a result r of P on stack s.                   *)
Kept(s, r) == s \o TopK(<<r[1], r[2]>>, Keep)

(* What op_capture returns for stack s: s with the sequence of the TOS  *)
(* values of Q's results pushed.                                           *)
Captured(s) == Append(s, Cap[Last(s)])

-----------------------------------------------------------------------------
Init ==
  /\ pc = "idle" /\ up = Idle /\ mstk = Null /\ p = Idle /\ q = Idle
  /\ held = Null /\ assertFailed = FALSE
  /\ src = Null /\ got = <<>> /\ drives = 0 /\ exhausted = TRUE

(* op_capture::reset: reset Q, then the upstream chain: op_subx::reset    *)
(* (reset_me, and U down to the outer origin, which is then primed).      *)
(* P is left as it is.                                                      *)
Drive(seed) ==
  /\ pc = "idle" /\ drives < MaxDrives
  /\ q' = EnumReset /\ mstk' = Null
  /\ up' = [Idle EXCEPT !.slot = seed]
  /\ src' = Null /\ got' = <<>> /\ drives' = drives + 1 /\ exhausted' = FALSE
  /\ UNCHANGED <<pc, p, held, assertFailed>>

(* op_capture::next pulls op_subx.                                         *)
Call ==
  /\ pc = "idle" /\ ~exhausted
  /\ pc' = "subx"
  /\ UNCHANGED <<up, mstk, p, q, held, assertFailed, src, got, drives, exhausted>>

(* op_subx with no stack: pull upstream.  nullptr ends the call (and      *)
(* op_capture returns nullptr); a stack is kept in m_stk, P is reset and *)
(* its origin primed with a copy.                                          *)
SubxPull ==
  /\ pc = "subx" /\ mstk = Null
  /\ up' = Moved(UpNext, up.rst)
  /\ IF UpNext.res = Null
     THEN /\ pc' = "idle" /\ exhausted' = TRUE
          /\ UNCHANGED <<mstk, p, assertFailed, src, got>>
     ELSE /\ mstk' = UpNext.res
          /\ p' = [EnumReset EXCEPT !.slot = UpNext.res, !.rst = FALSE]
          /\ assertFailed' = (assertFailed \/ SetNextFails(EnumReset.slot, EnumReset.rst))
          /\ src' = UpNext.res /\ got' = <<>>
          /\ UNCHANGED <<pc, exhausted>>
  /\ UNCHANGED <<q, held, drives>>

(* Mutant: a drained P leaves m_stk set (reset_me not called).            *)
SubxNextNoResetMe ==
  /\ pc = "subx" /\ mstk # Null
  /\ p' = Moved(PNext, p.rst)
  /\ IF PNext.res # Null
     THEN pc' = "cap" /\ held' = Kept(<<mstk>>, PNext.res)
     ELSE UNCHANGED <<pc, held>>
  /\ UNCHANGED <<up, mstk, q, assertFailed, src, got, drives, exhausted>>

(* Mutant: the kept values pushed back in the order they were popped.    *)
SubxNextReversed ==
  /\ pc = "subx" /\ mstk # Null
  /\ p' = Moved(PNext, p.rst)
  /\ IF PNext.res # Null
     THEN /\ pc' = "cap" /\ mstk' = mstk
          /\ held' = <<mstk>> \o Reverse(TopK(<<PNext.res[1], PNext.res[2]>>, Keep))
     ELSE /\ mstk' = Null
          /\ UNCHANGED <<pc, held>>
  /\ UNCHANGED <<up, q, assertFailed, src, got, drives, exhausted>>

(* op_subx with a stack: pull P.  A result gives a copy of m_stk with    *)
(* the top m_keep values of the result pushed in their order; a drained  *)
(* P makes reset_me forget m_stk, and the loop pulls upstream.            *)
SubxNext ==
  /\ pc = "subx" /\ mstk # Null
  /\ p' = Moved(PNext, p.rst)
  /\ IF PNext.res # Null
     THEN /\ pc' = "cap" /\ mstk' = mstk
          /\ held' = Kept(<<mstk>>, PNext.res)
     ELSE /\ mstk' = Null
          /\ UNCHANGED <<pc, held>>
  /\ UNCHANGED <<up, q, assertFailed, src, got, drives, exhausted>>

(* op_capture with the stack: reset Q, prime its origin with a copy,     *)
(* pop the TOS of each of its results into a sequence until it is        *)
(* drained, and return the stack with the sequence pushed.                *)
Capture ==
  /\ pc = "cap"
  /\ q' = Idle
  /\ assertFailed' = (assertFailed \/ SetNextFails(EnumReset.slot, EnumReset.rst))
  /\ got' = Append(got, Append(held, Cap[Last(held)]))
  /\ pc' = "idle" /\ held' = Null
  /\ UNCHANGED <<up, mstk, p, src, drives, exhausted>>

Finished ==
  /\ pc = "idle" /\ exhausted /\ drives = MaxDrives
  /\ UNCHANGED vars

Step == SubxPull \/ SubxNext \/ Capture

Next == (\E s \in Seeds : Drive(s)) \/ Call \/ Step \/ Finished

(* The consumer keeps pulling, and a started call of next() runs on.     *)
Spec == Init /\ [][Next]_vars /\ WF_vars(Call) /\ WF_vars(Step)

-----------------------------------------------------------------------------
(* For each upstream stack u, the expression yields one stack per result *)
(* r of P on u, in P's order: u with r's top Keep values in their order, *)
(* and on that the capture of Q's results; all of them before the next   *)
(* upstream stack.                                                         *)
Expected(u) == [i \in DOMAIN Inner[u] |-> Captured(Kept(<<u>>, Inner[u][i]))]

ExprListing ==
  /\ src # Null => IsPrefix(got, Expected(src))
  /\ (pc = "subx" /\ mstk = Null /\ src # Null) => got = Expected(src)

(* Every drive eventually ends with next() returning null.               *)
DriveEnds == ~exhausted ~> exhausted
=============================================================================

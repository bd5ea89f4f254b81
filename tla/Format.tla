------------------------------- MODULE Format -------------------------------
(***************************************************************************)
(* The string-format sub-engine (src/libzwerg/op.cc): op_format driving  *)
(* a chain of stringers rooted at a stringer_origin.  The format string  *)
(* is a sequence of pieces, leftmost first: a literal, or a `%( X %)'    *)
(* whose sub-expression X runs on the stack and whose TOS is popped and  *)
(* shown.  The chain is built from the right end of the string: piece i  *)
(* pulls piece i + 1, and the last piece pulls the stringer origin, so   *)
(* every stringer prepends its text to the suffix it got.                 *)
(*                                                                         *)
(* A sub-expression is `nop' (a plain %s: show TOS) or an operator that  *)
(* pushes the values f[TOS] one after another.  A stack is a sequence of *)
(* values, TOS last; a rendered string is the sequence of its fragments  *)
(* (show is left abstract: a value renders as itself).                    *)
(*                                                                         *)
(* A call of the stringer chain is followed one stringer at a time: the *)
(* call goes down the chain (`at' the stringer running, `dir' "down")    *)
(* and the pair, or Null for (nullptr, ""), comes back up ("up", `ret'). *)
(***************************************************************************)
EXTENDS Pipeline, SequencesExt

CONSTANTS
  Nodes,         \* values
  Up,            \* Up[v]: the values the upstream operator pushes for seed v
  Pieces,        \* the format string: [kind |-> "lit", text], [kind |-> "nop"]
                 \* or [kind |-> "push", f]
  Seeds,         \* stacks the enclosing operator feeds into the outer origin
  MaxDrives      \* bound on the number of (re)drives

N == Len(Pieces)
OpIdx == {i \in 1..N : Pieces[i].kind # "lit"}

VARIABLES
  pc,            \* "idle" between calls of op_format::next; inside it "loop"
                 \* before the stringer call, "chain" during it and "up"
                 \* before the upstream pull
  at,            \* the stringer running (N + 1: the origin, 0: back in op_format)
  dir,           \* "down": at was just called; "up": at's upstream returned ret
  ret,           \* the pair travelling up: [stk, str], or Null
  up,            \* outer origin and upstream operator: [slot, rst, vf, idx]
  chain,         \* the stringers: [org |-> stringer_origin [stk, rst],
                 \*   op |-> per stringer_op [have, str, slot, rst, vf, idx]]
  pos,           \* op_format::m_pos
  assertFailed,  \* an op_origin or stringer_origin set_next assertion has fired
  src,           \* history: the upstream stack the results are listed for
  got,           \* history: [stk, str, pos] returned for src, in order
  drives,        \* history: number of drives
  exhausted      \* history: the current drive's next() has returned null

vars == <<pc, at, dir, ret, up, chain, pos, assertFailed, src, got, drives, exhausted>>

UpNext == EnumNext(Up, up.slot, up.vf, up.idx)
Moved(r, rst) == [slot |-> r.slot, rst |-> rst, vf |-> r.vf, idx |-> r.idx]

(* What the sub-expression of piece i yields for stack s.                 *)
SubRes(i, s) ==
  IF Pieces[i].kind = "nop" THEN <<s>>
  ELSE [j \in DOMAIN Pieces[i].f[Last(s)] |-> Append(s, Pieces[i].f[Last(s)][j])]

(* next() of that sub-expression over its origin (Pipeline!EnumNext with *)
(* stacks for values).                                                     *)
SubNext(i, slot, vf, idx) ==
  LET d == IF vf = Null THEN slot ELSE vf
      k == IF vf = Null THEN 1 ELSE idx
  IN  IF d = Null \/ SubRes(i, d) = <<>>
      THEN [res |-> Null, slot |-> Null, vf |-> Null, idx |-> 0]
      ELSE [res |-> SubRes(i, d)[k],
            slot |-> IF vf = Null THEN Null ELSE slot,
            vf |-> IF k = Len(SubRes(i, d)) THEN Null ELSE d,
            idx |-> k + 1]

(* stringer_op::reset, stringer_lit::reset and stringer_origin::reset    *)
(* along the chain: m_have cleared and every sub-expression reset; m_str *)
(* is left as it is.                                                       *)
ChainReset(S) ==
  [S EXCEPT !.org = [stk |-> Null, rst |-> TRUE],
            !.op = [i \in OpIdx |-> [S.op[i] EXCEPT !.have = FALSE, !.slot = Null,
                                       !.rst = TRUE, !.vf = Null, !.idx = 0]]]

-----------------------------------------------------------------------------
Init ==
  /\ pc = "idle"
  /\ up = [slot |-> Null, rst |-> FALSE, vf |-> Null, idx |-> 0]
  /\ chain = [org |-> [stk |-> Null, rst |-> FALSE],
              op |-> [i \in OpIdx |-> [have |-> FALSE, str |-> <<>>, slot |-> Null,
                                       rst |-> FALSE, vf |-> Null, idx |-> 0]]]
  /\ at = 0 /\ dir = "up" /\ ret = Null
  /\ pos = 0 /\ assertFailed = FALSE
  /\ src = Null /\ got = <<>> /\ drives = 0 /\ exhausted = TRUE

(* Mutant: reset_me leaving m_pos as it is.                               *)
ResetMeKeepPos == [chain |-> ChainReset(chain), pos |-> pos]

(* op_format::reset_me: reset the stringer chain and m_pos = 0.           *)
ResetMe == [chain |-> ChainReset(chain), pos |-> 0]

(* op_format::reset: reset_me and the upstream chain, then the enclosing *)
(* operator primes the outer origin with a seed.                           *)
Drive(s) ==
  /\ pc = "idle" /\ drives < MaxDrives
  /\ chain' = ResetMe.chain /\ pos' = ResetMe.pos
  /\ up' = [slot |-> s, rst |-> FALSE, vf |-> Null, idx |-> 0]
  /\ src' = Null /\ got' = <<>> /\ drives' = drives + 1 /\ exhausted' = FALSE
  /\ UNCHANGED <<pc, at, dir, ret, assertFailed>>

Call ==
  /\ pc = "idle" /\ ~exhausted
  /\ pc' = "loop"
  /\ UNCHANGED <<at, dir, ret, up, chain, pos, assertFailed, src, got, drives, exhausted>>

(* op_format::next's loop, first half: call the stringer chain.           *)
Round ==
  /\ pc = "loop"
  /\ pc' = "chain" /\ at' = 1 /\ dir' = "down"
  /\ UNCHANGED <<ret, up, chain, pos, assertFailed, src, got, drives, exhausted>>

ChainStay == UNCHANGED <<pc, up, pos, src, got, drives, exhausted>>
Return(r) == ret' = r /\ at' = at - 1 /\ dir' = "up"
Pull == at' = at + 1 /\ dir' = "down" /\ UNCHANGED ret

(* stringer_origin::next: hands out the stack it holds, once.             *)
OriginNext ==
  /\ pc = "chain" /\ at = N + 1
  /\ Return(IF chain.org.stk = Null THEN Null ELSE [stk |-> chain.org.stk, str |-> <<>>])
  /\ chain' = [chain EXCEPT !.org.stk = Null]
  /\ UNCHANGED assertFailed /\ ChainStay

(* stringer_lit::next: pull upstream, and prepend m_str to what came.     *)
LitDown ==
  /\ pc = "chain" /\ at \in 1..N /\ Pieces[at].kind = "lit" /\ dir = "down"
  /\ Pull /\ UNCHANGED <<chain, assertFailed>> /\ ChainStay

LitUp ==
  /\ pc = "chain" /\ at \in 1..N /\ Pieces[at].kind = "lit" /\ dir = "up"
  /\ Return(IF ret = Null THEN Null ELSE [ret EXCEPT !.str = <<Pieces[at].text>> \o @])
  /\ UNCHANGED <<chain, assertFailed>> /\ ChainStay

(* The sub-expression's result, shown and popped, in front of m_str; a   *)
(* drained sub-expression clears m_have and the loop pulls upstream.     *)
OpPull(o) ==
  LET r == SubNext(at, o.slot, o.vf, o.idx)
      o2 == [o EXCEPT !.slot = r.slot, !.vf = r.vf, !.idx = r.idx]
  IN  IF r.res # Null
      THEN /\ chain' = [chain EXCEPT !.op[at] = o2]
           /\ Return([stk |-> Front(r.res), str |-> <<Last(r.res)>> \o o.str])
      ELSE /\ chain' = [chain EXCEPT !.op[at] = [o2 EXCEPT !.have = FALSE]]
           /\ Pull

(* stringer_op::next called: with a stack in hand (m_have) its           *)
(* sub-expression is pulled; otherwise upstream is.                        *)
OpDown ==
  /\ pc = "chain" /\ at \in OpIdx /\ dir = "down"
  /\ IF chain.op[at].have THEN OpPull(chain.op[at])
     ELSE Pull /\ UNCHANGED chain
  /\ UNCHANGED assertFailed /\ ChainStay

(* ... upstream returned: (nullptr, "") is passed on up.  A pair: reset  *)
(* the sub-expression, set_next the stack on its origin, m_str = the     *)
(* suffix, m_have = true, and pull the sub-expression.                    *)
OpUp ==
  /\ pc = "chain" /\ at \in OpIdx /\ dir = "up"
  /\ IF ret = Null
     THEN Return(Null) /\ UNCHANGED <<chain, assertFailed>>
     ELSE LET o == [chain.op[at] EXCEPT !.slot = Null, !.rst = TRUE, !.vf = Null, !.idx = 0]
          IN  /\ assertFailed' = (assertFailed \/ SetNextFails(o.slot, o.rst))
              /\ OpPull([o EXCEPT !.have = TRUE, !.str = ret.str, !.slot = ret.stk, !.rst = FALSE])
  /\ ChainStay

(* Back in op_format: a pair gets its string pushed with m_pos++ and is  *)
(* returned; (nullptr, "") sends the loop to upstream.                     *)
Back ==
  /\ pc = "chain" /\ at = 0
  /\ IF ret # Null
     THEN /\ pc' = "idle" /\ pos' = pos + 1
          /\ got' = Append(got, [stk |-> ret.stk, str |-> ret.str, pos |-> pos])
     ELSE pc' = "up" /\ UNCHANGED <<pos, got>>
  /\ UNCHANGED <<at, dir, ret, up, chain, assertFailed, src, drives, exhausted>>

(* ... second half, when the chain is drained: pull upstream.  Null ends *)
(* the call; a stack resets the chain and m_pos (reset_me) and is        *)
(* set_next on the stringer origin.  The upstream operator pushes its    *)
(* value onto the seed.                                                    *)
PullUp ==
  /\ pc = "up"
  /\ up' = Moved(UpNext, up.rst)
  /\ IF UpNext.res = Null
     THEN pc' = "idle" /\ exhausted' = TRUE /\ UNCHANGED <<chain, pos, assertFailed, src, got>>
     ELSE LET s == <<IF up.vf = Null THEN up.slot ELSE up.vf, UpNext.res>>
          IN  /\ chain' = [ResetMe.chain EXCEPT !.org = [stk |-> s, rst |-> FALSE]]
              /\ pos' = ResetMe.pos
              /\ assertFailed' = (assertFailed \/ SetNextFails(ResetMe.chain.org.stk,
                                                                ResetMe.chain.org.rst))
              /\ src' = s /\ got' = <<>>
              /\ pc' = "loop" /\ UNCHANGED exhausted
  /\ UNCHANGED <<at, dir, ret, drives>>

Finished ==
  /\ pc = "idle" /\ exhausted /\ drives = MaxDrives
  /\ UNCHANGED vars

Step == Round \/ OriginNext \/ LitDown \/ LitUp \/ OpDown \/ OpUp \/ Back \/ PullUp

Next == (\E s \in Seeds : Drive(s)) \/ Call \/ Step \/ Finished

(* The consumer keeps pulling, and a started call of next() runs on.     *)
Spec == Init /\ [][Next]_vars /\ WF_vars(Call) /\ WF_vars(Step)

-----------------------------------------------------------------------------
(* The pairs pieces i..N produce from stack s, as section 4.6 of the      *)
(* specification describes them: a literal prepends its text; a          *)
(* sub-expression, for each pair from its right in turn, yields for every *)
(* result the popped TOS shown in front of the suffix.                    *)
RECURSIVE Combos(_, _)
Combos(i, s) ==
  IF i > N THEN <<[stk |-> s, str |-> <<>>]>>
  ELSE LET C == Combos(i + 1, s)
       IN  IF Pieces[i].kind = "lit"
           THEN [j \in DOMAIN C |-> [C[j] EXCEPT !.str = <<Pieces[i].text>> \o @]]
           ELSE FlattenSeq([j \in DOMAIN C |->
                  [k \in DOMAIN SubRes(i, C[j].stk) |->
                     [stk |-> Front(SubRes(i, C[j].stk)[k]),
                      str |-> <<Last(SubRes(i, C[j].stk)[k])>> \o C[j].str]]])

Expected(s) ==
  LET C == Combos(1, s)
  IN  [j \in DOMAIN C |-> [stk |-> C[j].stk, str |-> C[j].str, pos |-> j - 1]]

(* For every upstream stack, op_format returns every combination of the  *)
(* pieces' results, the rightmost piece varying slowest, each with the   *)
(* stack its leftmost sub-expression left and its position among the     *)
(* strings of that upstream stack; once op_format pulls upstream again it *)
(* has returned all of them.                                              *)
FormatListing ==
  /\ src # Null => IsPrefix(got, Expected(src))
  /\ (pc = "up" /\ src # Null) => got = Expected(src)

=============================================================================

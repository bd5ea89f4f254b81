----------------------------- MODULE TrClosure -----------------------------
(***************************************************************************)
(* The transitive-closure operator op_tr_closure (src/libzwerg/op.cc),    *)
(* driven the way dwgrep drives every sub-expression: the enclosing       *)
(* operator calls reset() on the sub-expression and set_next(seed) on its *)
(* origin, then pulls with next().                                         *)
(*                                                                         *)
(* The modelled expression is  `child X*'  where both `child' (the        *)
(* upstream U) and the closed sub-expression X are the `child' operator   *)
(* of src/builtin-dw.cc.  A stack is abstracted to its top-of-stack DIE:  *)
(* `child' replaces TOS and leaves the rest of the stack alone, so within *)
(* one enumeration two stacks are equal iff their TOS are.  The DIE graph *)
(* Kids is a parameter; it may contain diamonds and cycles, as the graph  *)
(* of any inner operator may (e.g. type references).                      *)
(*                                                                         *)
(* A call of next() is split into the steps of its loops (pc), so that a  *)
(* property can look inside the call.                                      *)
(***************************************************************************)
EXTENDS Naturals, Sequences, FiniteSets

CONSTANTS
  Nodes,         \* DIEs
  Kids,          \* Kids[d]: the children of d, in dwarf_child/siblingof order
  Seeds,         \* stacks the enclosing operator feeds into the outer origin
  Null,          \* the null stack::uptr
  MaxDrives,     \* bound on the number of times the sub-expression is re-driven
  AbandonEarly   \* may the driver re-drive before next() returned null?

ASSUME Kids \in [Nodes -> Seq(Nodes)]
ASSUME Seeds \subseteq Nodes /\ Null \notin Nodes
ASSUME MaxDrives \in Nat /\ AbandonEarly \in BOOLEAN

VARIABLES
  isPlus,        \* m_is_plus: the closure kind, fixed at construction
  pc,            \* where the current call of next() is; "idle" between calls
  res,           \* what the last finished call of next() returned
  oSlot, oRst,   \* outer op_origin: m_stk and m_reset
  uVf, uIdx,     \* upstream `child': m_vf (the held DIE) and the sibling cursor
  iSlot, iRst,   \* m_origin of the closed sub-expression
  iVf, iIdx,     \* the closed `child' operator
  stks,          \* m_stks: worklist (a stack, used at its back)
  seen,          \* m_seen
  drained,       \* m_op_drained
  assertFailed,  \* an op_origin::set_next assertion has fired
  src,           \* history: the upstream stack whose closure is being listed
  got,           \* history: results listed for src so far
  drives,        \* history: number of (re)drives so far
  exhausted      \* history: the current drive's next() has returned null

vars == <<isPlus, pc, res, oSlot, oRst, uVf, uIdx, iSlot, iRst, iVf, iIdx,
          stks, seen, drained, assertFailed, src, got, drives, exhausted>>
inner == <<iSlot, iRst, iVf, iIdx>>
upper == <<oSlot, oRst, uVf, uIdx>>
ghost == <<src, got, drives, exhausted>>

-----------------------------------------------------------------------------
(* op_origin::set_next: the slot must be empty and reset() must have been *)
(* called since the last set_next; otherwise the assertion fires.         *)
SetNextFails(slot, rst) == slot # Null \/ ~rst

(* One call of next() on the `child' operator whose upstream is an origin *)
(* holding `slot'.  With no DIE held it pulls the origin; a DIE without   *)
(* children is dropped and the origin pulled again, which then yields    *)
(* null.  After the last sibling reset_me() forgets the DIE.             *)
ChildNext(slot, vf, idx) ==
  LET d == IF vf = Null THEN slot ELSE vf
      i == IF vf = Null THEN 1 ELSE idx
  IN  IF d = Null \/ Kids[d] = <<>>
      THEN [res |-> Null, slot |-> Null, vf |-> Null, idx |-> 0]
      ELSE [res |-> Kids[d][i],
            slot |-> IF vf = Null THEN Null ELSE slot,
            vf |-> IF i = Len(Kids[d]) THEN Null ELSE d,
            idx |-> i + 1]

(* send_to_op(stk): m_op->reset() (which clears `child' and its origin), *)
(* then m_origin->set_next(stk).                                          *)
SendToOp(s) ==
  /\ iVf' = Null /\ iIdx' = 0
  /\ iSlot' = s /\ iRst' = FALSE
  /\ assertFailed' = (assertFailed \/ SetNextFails(Null, TRUE))
  /\ drained' = FALSE

(* next_from_upstream() pulls the upstream `child' and clears m_seen.     *)
UpNext == ChildNext(oSlot, uVf, uIdx)
PullUpstream ==
  /\ oSlot' = UpNext.slot /\ uVf' = UpNext.vf /\ uIdx' = UpNext.idx
  /\ UNCHANGED oRst

ClosureOf(s) ==
  LET RECURSIVE Reach(_, _)
      Reach(frontier, acc) ==
        IF frontier = {} THEN acc
        ELSE LET nxt == {k \in Nodes : \E f \in frontier :
                            \E j \in DOMAIN Kids[f] : Kids[f][j] = k} \ acc
             IN  Reach(nxt, acc \cup nxt)
      step1 == {Kids[s][j] : j \in DOMAIN Kids[s]}
      plus == Reach(step1, step1)
  IN  IF isPlus THEN plus ELSE plus \cup {s}

-----------------------------------------------------------------------------
Init ==
  /\ isPlus \in BOOLEAN
  /\ pc = "idle" /\ res = Null
  /\ oSlot = Null /\ oRst = FALSE /\ uVf = Null /\ uIdx = 0
  /\ iSlot = Null /\ iRst = FALSE /\ iVf = Null /\ iIdx = 0
  /\ stks = <<>> /\ seen = {} /\ drained = TRUE
  /\ assertFailed = FALSE
  /\ src = Null /\ got = {} /\ drives = 0 /\ exhausted = TRUE

(* The enclosing operator (op_capture, op_subx, pred_subx_any, op_ifelse *)
(* ...) re-drives the sub-expression: reset() on the closure, which runs *)
(* reset_me() and resets the upstream down to the origin, then           *)
(* set_next(seed) on the origin.  Capture-like drivers do this only once *)
(* next() returned null; pred_subx_any and the if-condition stop after   *)
(* the first result.                                                       *)
Drive(seed) ==
  /\ pc = "idle" /\ drives < MaxDrives
  /\ AbandonEarly \/ exhausted
  /\ stks' = <<>> /\ seen' = {}
  /\ uVf' = Null /\ uIdx' = 0
  /\ oSlot' = seed /\ oRst' = FALSE
  /\ assertFailed' = (assertFailed \/ SetNextFails(Null, TRUE))
  /\ src' = Null /\ got' = {} /\ drives' = drives + 1 /\ exhausted' = FALSE
  /\ UNCHANGED <<isPlus, pc, res, inner, drained>>

Call ==
  /\ pc = "idle" /\ ~exhausted
  /\ pc' = "L1"
  /\ UNCHANGED <<isPlus, res, upper, inner, stks, seen, drained, assertFailed, ghost>>

(* Mutant: yield_and_cache() without the m_seen test.                     *)
YieldFromOpUnchecked ==
  LET r == ChildNext(iSlot, iVf, iIdx) IN
  /\ pc = "L1" /\ ~drained /\ r.res # Null
  /\ iSlot' = r.slot /\ iVf' = r.vf /\ iIdx' = r.idx
  /\ seen' = seen \cup {r.res} /\ stks' = Append(stks, r.res)
  /\ pc' = "idle" /\ res' = r.res /\ got' = got \cup {r.res}
  /\ UNCHANGED <<isPlus, upper, iRst, drained, assertFailed, src, drives, exhausted>>

(* The inner loop: next_from_op() yields a stack that yield_and_cache()  *)
(* has not seen: it is cached, pushed on the worklist and returned.      *)
YieldFromOp ==
  LET r == ChildNext(iSlot, iVf, iIdx) IN
  /\ pc = "L1" /\ ~drained /\ r.res # Null /\ r.res \notin seen
  /\ iSlot' = r.slot /\ iVf' = r.vf /\ iIdx' = r.idx
  /\ seen' = seen \cup {r.res} /\ stks' = Append(stks, r.res)
  /\ pc' = "idle" /\ res' = r.res /\ got' = got \cup {r.res}
  /\ UNCHANGED <<isPlus, upper, iRst, drained, assertFailed, src, drives, exhausted>>

(* ... yields a stack already seen: yield_and_cache() returns null and   *)
(* the loop pulls again.                                                   *)
SkipSeen ==
  LET r == ChildNext(iSlot, iVf, iIdx) IN
  /\ pc = "L1" /\ ~drained /\ r.res # Null /\ r.res \in seen
  /\ iSlot' = r.slot /\ iVf' = r.vf /\ iIdx' = r.idx
  /\ UNCHANGED <<isPlus, pc, res, upper, iRst, stks, seen, drained, assertFailed, ghost>>

(* next_from_op() returns null: either m_op_drained is already set, or   *)
(* m_op->next() returned null and m_op_drained is set now.               *)
OpDrained ==
  LET r == ChildNext(iSlot, iVf, iIdx) IN
  /\ pc = "L1" /\ (drained \/ r.res = Null)
  /\ IF drained THEN UNCHANGED <<iSlot, iVf, iIdx>>
               ELSE iSlot' = r.slot /\ iVf' = r.vf /\ iIdx' = r.idx
  /\ drained' = TRUE /\ pc' = "L2"
  /\ UNCHANGED <<isPlus, res, upper, iRst, stks, seen, assertFailed, ghost>>

(* Mutant: send_to_op() without m_stks.pop_back().                        *)
SendWorkNoPop ==
  /\ pc = "L2" /\ stks # <<>>
  /\ SendToOp(stks[Len(stks)])
  /\ pc' = "L1"
  /\ UNCHANGED <<isPlus, res, upper, seen, stks, ghost>>

(* send_to_op(): the worklist is not empty; its back is sent to the      *)
(* closed sub-expression and popped.                                       *)
SendWork ==
  /\ pc = "L2" /\ stks # <<>>
  /\ SendToOp(stks[Len(stks)])
  /\ stks' = SubSeq(stks, 1, Len(stks) - 1) /\ pc' = "L1"
  /\ UNCHANGED <<isPlus, res, upper, seen, ghost>>

(* Mutant: next_from_upstream() without m_seen.clear().                   *)
PlusPullKeepSeen ==
  /\ pc = "L2" /\ stks = <<>> /\ isPlus
  /\ PullUpstream /\ UNCHANGED seen
  /\ IF UpNext.res # Null
     THEN /\ SendToOp(UpNext.res) /\ pc' = "L1"
          /\ src' = UpNext.res /\ got' = {}
          /\ UNCHANGED <<res, exhausted>>
     ELSE /\ pc' = "idle" /\ res' = Null /\ exhausted' = TRUE
          /\ UNCHANGED <<inner, drained, assertFailed, src, got>>
  /\ UNCHANGED <<isPlus, stks, drives>>

(* send_to_op() of a `plus' closure with an empty worklist: a stack from *)
(* upstream is sent to the sub-expression; when upstream is drained,     *)
(* send_to_op(nullptr) is false and next() returns null.                 *)
PlusPull ==
  /\ pc = "L2" /\ stks = <<>> /\ isPlus
  /\ PullUpstream /\ seen' = {}
  /\ IF UpNext.res # Null
     THEN /\ SendToOp(UpNext.res) /\ pc' = "L1"
          /\ src' = UpNext.res /\ got' = {}
          /\ UNCHANGED <<res, exhausted>>
     ELSE /\ pc' = "idle" /\ res' = Null /\ exhausted' = TRUE
          /\ UNCHANGED <<inner, drained, assertFailed, src, got>>
  /\ UNCHANGED <<isPlus, stks, drives>>

(* Mutant: the `if (! m_is_plus)' guard after the loop dropped.          *)
StarPullAnyKind ==
  /\ pc = "L2" /\ stks = <<>>
  /\ PullUpstream
  /\ IF UpNext.res # Null
     THEN /\ seen' = {UpNext.res} /\ stks' = <<UpNext.res>>
          /\ pc' = "idle" /\ res' = UpNext.res
          /\ src' = UpNext.res /\ got' = {UpNext.res}
          /\ UNCHANGED exhausted
     ELSE /\ seen' = {} /\ pc' = "idle" /\ res' = Null /\ exhausted' = TRUE
          /\ UNCHANGED <<stks, src, got>>
  /\ UNCHANGED <<isPlus, inner, drained, assertFailed, drives>>

(* Mutant: the null test on the upstream stack dropped before            *)
(* yield_and_cache().                                                      *)
StarPullNoNullTest ==
  /\ pc = "L2" /\ stks = <<>> /\ ~isPlus
  /\ PullUpstream
  /\ seen' = {UpNext.res} /\ stks' = <<UpNext.res>>
  /\ pc' = "idle" /\ res' = UpNext.res
  /\ src' = UpNext.res /\ got' = {UpNext.res}
  /\ UNCHANGED <<exhausted, isPlus, inner, drained, assertFailed, drives>>

(* After the loop, a `star' closure pulls upstream; the stack itself is  *)
(* the first member of its closure and is yielded through                *)
(* yield_and_cache(), which also puts it on the worklist.                  *)
StarPull ==
  /\ pc = "L2" /\ stks = <<>> /\ ~isPlus
  /\ PullUpstream
  /\ IF UpNext.res # Null
     THEN /\ seen' = {UpNext.res} /\ stks' = <<UpNext.res>>
          /\ pc' = "idle" /\ res' = UpNext.res
          /\ src' = UpNext.res /\ got' = {UpNext.res}
          /\ UNCHANGED exhausted
     ELSE /\ seen' = {} /\ pc' = "idle" /\ res' = Null /\ exhausted' = TRUE
          /\ UNCHANGED <<stks, src, got>>
  /\ UNCHANGED <<isPlus, inner, drained, assertFailed, drives>>

(* The query is over: no more drives and the last one is drained.        *)
Finished ==
  /\ pc = "idle" /\ exhausted /\ drives = MaxDrives
  /\ UNCHANGED vars

Step == YieldFromOp \/ SkipSeen \/ OpDrained \/ SendWork \/ PlusPull \/ StarPull

Next ==
  \/ \E s \in Seeds : Drive(s)
  \/ Call
  \/ Step
  \/ Finished

(* The consumer of a capture-like driver calls next() until it returns   *)
(* null (op_capture::next's while loop), and a started call runs on.     *)
Spec == Init /\ [][Next]_vars /\ WF_vars(Call) /\ WF_vars(Step)

-----------------------------------------------------------------------------
TypeOK ==
  /\ isPlus \in BOOLEAN
  /\ pc \in {"idle", "L1", "L2"}
  /\ res \in Nodes \cup {Null}
  /\ {oSlot, uVf, iSlot, iVf, src} \subseteq Nodes \cup {Null}
  /\ {oRst, iRst, drained, assertFailed, exhausted} \subseteq BOOLEAN
  /\ stks \in Seq(Nodes) /\ seen \subseteq Nodes /\ got \subseteq Nodes
  /\ drives \in 0..MaxDrives

(* Every stack the closure yields belongs to the closure of the upstream *)
(* stack it is currently listing: star includes the stack itself, plus   *)
(* only what one or more steps of the sub-expression reach.  A stale     *)
(* result left over from before reset() breaks this.                      *)
ResultsInClosure ==
  \A x \in got : src # Null /\ x \in ClosureOf(src)

(* No stack is yielded twice for the same upstream stack, even when the  *)
(* sub-expression's graph has diamonds and cycles.                        *)
NoDuplicateResult ==
  [][(pc # "idle" /\ pc' = "idle" /\ res' # Null /\ src' = src)
        => res' \notin got]_vars

-----------------------------------------------------------------------------
(* Refinement mapping.  The stacks the upstream `child' has still to      *)
(* yield, from its origin slot and cursor.                                 *)
RECURSIVE UpRest(_, _, _)
UpRest(slot, vf, idx) ==
  LET r == ChildNext(slot, vf, idx)
  IN  IF r.res = Null THEN <<>> ELSE <<r.res>> \o UpRest(r.slot, r.vf, r.idx)

Abs == INSTANCE ClosureSpec
         WITH Up <- Kids, plus <- isPlus, pending <- UpRest(oSlot, uVf, uIdx),
              cur <- src, listed <- got, fin <- exhausted

(* op_tr_closure, driven by a capture-like driver, implements the        *)
(* closure contract: for each upstream stack in turn it lists exactly    *)
(* that stack's closure (star: the stack first), begins the next stack  *)
(* only when the previous closure is complete, and returns null once    *)
(* the upstream is drained; a drive always ends.                          *)
ImplementsClosureSpec == Abs!Spec

(* Every drive of the sub-expression eventually ends with next()         *)
(* returning null: the closure terminates on cyclic graphs.               *)
DriveEnds == ~exhausted ~> exhausted

=============================================================================

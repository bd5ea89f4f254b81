------------------------------- MODULE Frames -------------------------------
(***************************************************************************)
(* Lexical frames, closures and their application (src/libzwerg/op.cc:    *)
(* op_scope, op_bind, op_read, op_lex_closure; src/libzwerg/              *)
(* builtin-closure.cc: op_apply).  The expression is                      *)
(*                                                                         *)
(*     U scope<1, (bind<X@0> lex_closure<read<X@0> E>)> apply             *)
(*                                                                         *)
(* i.e. for each upstream value v a fresh frame binds X = v, a closure    *)
(* capturing that frame leaves the scope, and apply runs its body, which  *)
(* reads X and enumerates E[X], in the frame the closure captured.        *)
(*                                                                         *)
(* The frame code (frame, nth_frame, set_frame, bind_value,               *)
(* maybe_unlink_frame) is not in this repository's source; it follows     *)
(* the specification: a frame is a slot array with a parent link, shared  *)
(* by the stacks and closures that refer to it.  Frame 0 is the frame of  *)
(* the stacks the expression is driven with.                               *)
(***************************************************************************)
EXTENDS Pipeline, SequencesExt

CONSTANTS
  Nodes,         \* values
  Up,            \* Up[v]: what the upstream operator enumerates for v
  E,             \* E[x]: what the closure body enumerates after reading X = x
  Seeds,         \* stacks the enclosing operator feeds into the outer origin
  MaxDrives,     \* bound on the number of (re)drives
  MaxFrames      \* bound on the number of frames scope creates

FrameIds == 0..MaxFrames

VARIABLES
  pc,            \* "idle" between calls, "scope" while apply pulls the scope,
                 \* "body" while it pulls the closure body
  up,            \* outer origin and upstream operator: [slot, rst, vf, idx]
  org,           \* the scope's origin: [slot, rst], slot a [val, fr] stack
  primed,        \* op_scope's m_primed
  frames,        \* frames[f]: [parent, x], x the slot of X or Null
  nextF,         \* the id the next frame gets
  body,          \* op_apply's m_op: the closure body, or Null:
                 \* [fr, org (its origin still holds the stack), vf, idx]
  old,           \* op_apply's m_old_frame, or Null
  assertFailed,  \* an op_origin::set_next assertion has fired
  oldAssert,     \* op_apply's assert (m_old_frame == nullptr) has fired
  rebound,       \* a slot was bound in a frame where it already was bound
  seed,          \* history: the seed of this drive
  got,           \* history: the stacks apply returned, [val, fr], in order
  drives,        \* history: number of drives
  exhausted      \* history: the current drive's next() has returned null

vars == <<pc, up, org, primed, frames, nextF, body, old, assertFailed, oldAssert,
          rebound, seed, got, drives, exhausted>>

UpNext == EnumNext(Up, up.slot, up.vf, up.idx)
Moved(r, rst) == [slot |-> r.slot, rst |-> rst, vf |-> r.vf, idx |-> r.idx]
Unused == [parent |-> Null, x |-> Null]

(* frame::bind_value, reached by op_bind through nth_frame (0).           *)
Bound(fs, f, v) == [fs EXCEPT ![f].x = v]

(* op_read: the value of X in the frame, cloned onto the stack.           *)
ReadValue(fs, f) == fs[f].x

(* op_lex_closure: a closure value capturing the stack's frame.          *)
Closure(f) == [clo |-> f]

(* value_closure::maybe_unlink_frame: a frame no live closure holds has   *)
(* its parent link broken.                                                  *)
MaybeUnlink(fs, f, live) ==
  IF f = Null \/ f \in live THEN fs ELSE [fs EXCEPT ![f].parent = Null]

-----------------------------------------------------------------------------
Init ==
  /\ pc = "idle"
  /\ up = [slot |-> Null, rst |-> FALSE, vf |-> Null, idx |-> 0]
  /\ org = [slot |-> Null, rst |-> FALSE] /\ primed = FALSE
  /\ frames = [f \in FrameIds |-> Unused] /\ nextF = 1
  /\ body = Null /\ old = Null
  /\ assertFailed = FALSE /\ oldAssert = FALSE /\ rebound = FALSE
  /\ seed = Null /\ got = <<>> /\ drives = 0 /\ exhausted = TRUE

(* Mutant: reset_me of apply not unlinking or forgetting m_old_frame.     *)
ApplyResetMeKeepOld == [fs |-> frames, old |-> old]

(* op_apply's reset_me: m_op = nullptr, maybe_unlink_frame (m_old_frame), *)
(* m_old_frame = nullptr.                                                  *)
ApplyResetMe == [fs |-> MaybeUnlink(frames, old, {}), old |-> Null]

(* Mutant: op_apply::reset leaving the body it was pulling in place.       *)
DriveKeepBody(s) ==
  /\ pc = "idle" /\ drives < MaxDrives
  /\ frames' = ApplyResetMe.fs /\ old' = ApplyResetMe.old
  /\ primed' = FALSE
  /\ up' = [slot |-> s, rst |-> FALSE, vf |-> Null, idx |-> 0]
  /\ seed' = s /\ got' = <<>> /\ drives' = drives + 1 /\ exhausted' = FALSE
  /\ UNCHANGED <<pc, org, nextF, body, assertFailed, oldAssert, rebound>>

(* The enclosing operator re-drives the expression: op_apply::reset      *)
(* (reset_me, then upstream), op_scope's reset (m_primed = false, then   *)
(* upstream), and set_next(s) on the outer origin.                         *)
Drive(s) ==
  /\ pc = "idle" /\ drives < MaxDrives
  /\ body' = Null /\ frames' = ApplyResetMe.fs /\ old' = ApplyResetMe.old
  /\ primed' = FALSE
  /\ up' = [slot |-> s, rst |-> FALSE, vf |-> Null, idx |-> 0]
  /\ seed' = s /\ got' = <<>> /\ drives' = drives + 1 /\ exhausted' = FALSE
  /\ UNCHANGED <<pc, org, nextF, assertFailed, oldAssert, rebound>>

(* op_apply::next: with no body built it pulls upstream (the scope).      *)
Call ==
  /\ pc = "idle" /\ ~exhausted
  /\ pc' = IF body = Null THEN "scope" ELSE "body"
  /\ UNCHANGED <<up, org, primed, frames, nextF, body, old, assertFailed, oldAssert,
                 rebound, seed, got, drives, exhausted>>

(* Mutant: the scope's frame made once and used for every stack.          *)
ScopePrimeOnce ==
  /\ pc = "scope" /\ ~primed
  /\ up' = Moved(UpNext, up.rst)
  /\ IF UpNext.res = Null
     THEN /\ pc' = "idle" /\ exhausted' = TRUE
          /\ UNCHANGED <<org, primed, frames, nextF, assertFailed>>
     ELSE /\ frames' = IF nextF = 1 THEN [frames EXCEPT ![1] = [parent |-> 0, x |-> Null]]
                       ELSE frames
          /\ nextF' = 2
          /\ assertFailed' = (assertFailed \/ SetNextFails(Null, TRUE))
          /\ org' = [slot |-> [val |-> UpNext.res, fr |-> 1], rst |-> FALSE]
          /\ primed' = TRUE
          /\ UNCHANGED <<pc, exhausted>>
  /\ UNCHANGED <<body, old, oldAssert, rebound, seed, got, drives>>

(* op_scope::next, not primed: pull upstream; null ends the scope's and  *)
(* apply's call.  A stack gets a fresh frame of one slot whose parent is *)
(* its frame; the body is reset and its origin primed with the stack.    *)
ScopePrime ==
  /\ pc = "scope" /\ ~primed
  /\ up' = Moved(UpNext, up.rst)
  /\ IF UpNext.res = Null
     THEN /\ pc' = "idle" /\ exhausted' = TRUE
          /\ UNCHANGED <<org, primed, frames, nextF, assertFailed>>
     ELSE /\ nextF <= MaxFrames
          /\ frames' = [frames EXCEPT ![nextF] = [parent |-> 0, x |-> Null]]
          /\ nextF' = nextF + 1
          /\ assertFailed' = (assertFailed \/ SetNextFails(Null, TRUE))
          /\ org' = [slot |-> [val |-> UpNext.res, fr |-> nextF], rst |-> FALSE]
          /\ primed' = TRUE
          /\ UNCHANGED <<pc, exhausted>>
  /\ UNCHANGED <<body, old, oldAssert, rebound, seed, got, drives>>

(* op_scope::next, primed: pull the body.  The origin's stack flows      *)
(* through bind (X = its top value, popped, in the stack's frame) and    *)
(* lex_closure (a closure capturing that frame is pushed); the scope sets *)
(* the stack's frame back to the parent and offers the scope's frame to  *)
(* maybe_unlink_frame, which keeps it: the closure holds it.  op_apply   *)
(* gets the stack: it pops the closure, asserts m_old_frame is null,     *)
(* saves the stack's frame there, installs the closure's frame and      *)
(* builds the body over a new origin holding the stack.                   *)
ScopeNext ==
  /\ pc = "scope" /\ primed /\ org.slot # Null
  /\ LET f == org.slot.fr
         fs == Bound(frames, f, org.slot.val)
     IN  /\ rebound' = (rebound \/ frames[f].x # Null)
         /\ frames' = MaybeUnlink(fs, f, {Closure(f).clo})
         /\ oldAssert' = (oldAssert \/ old # Null)
         /\ old' = fs[f].parent
         /\ body' = [fr |-> Closure(f).clo, org |-> TRUE, vf |-> Null, idx |-> 0]
  /\ org' = [org EXCEPT !.slot = Null]
  /\ pc' = "body"
  /\ UNCHANGED <<up, primed, nextF, assertFailed, seed, got, drives, exhausted>>

(* op_scope::next: the body returned null (its origin is empty); reset_me *)
(* clears m_primed and the loop pulls upstream again.                      *)
ScopeDrained ==
  /\ pc = "scope" /\ primed /\ org.slot = Null
  /\ primed' = FALSE
  /\ UNCHANGED <<pc, up, org, frames, nextF, body, old, assertFailed, oldAssert,
                 rebound, seed, got, drives, exhausted>>

(* The body's next result: on the first pull read takes X from the       *)
(* closure's frame and E enumerates E[X].                                  *)
BodyResult == EnumNext(E, IF body.org THEN ReadValue(frames, body.fr) ELSE Null,
                       body.vf, body.idx)

(* op_apply::next pulls the body: a result gets the saved frame back,     *)
(* the closure's frame is offered to maybe_unlink_frame (no closure holds *)
(* it any more), and the stack is returned.  Null: reset_me, and the loop *)
(* pulls upstream for the next closure.                                    *)
BodyNext ==
  /\ pc = "body"
  /\ LET r == BodyResult
     IN  IF r.res # Null
         THEN /\ got' = Append(got, [val |-> r.res, fr |-> old])
              /\ frames' = MaybeUnlink(frames, body.fr, {})
              /\ body' = [body EXCEPT !.org = FALSE, !.vf = r.vf, !.idx = r.idx]
              /\ pc' = "idle" /\ UNCHANGED old
         ELSE /\ body' = Null /\ frames' = ApplyResetMe.fs /\ old' = ApplyResetMe.old
              /\ pc' = "scope" /\ UNCHANGED got
  /\ UNCHANGED <<up, org, primed, nextF, assertFailed, oldAssert, rebound, seed, drives, exhausted>>

Finished ==
  /\ pc = "idle" /\ exhausted /\ drives = MaxDrives
  /\ UNCHANGED vars

Step == ScopePrime \/ ScopeNext \/ ScopeDrained \/ BodyNext

Next == (\E s \in Seeds : Drive(s)) \/ Call \/ Step \/ Finished

(* The consumer keeps pulling, and a started call of next() runs on.     *)
Spec == Init /\ [][Next]_vars /\ WF_vars(Call) /\ WF_vars(Step)

-----------------------------------------------------------------------------
TypeOK ==
  /\ pc \in {"idle", "scope", "body"} /\ primed \in BOOLEAN
  /\ frames \in [FrameIds -> [parent : FrameIds \cup {Null}, x : Nodes \cup {Null}]]
  /\ nextF \in 1..MaxFrames + 1 /\ old \in FrameIds \cup {Null}
  /\ body \in {Null} \cup [fr : FrameIds, org : BOOLEAN, vf : Nodes \cup {Null}, idx : Nat]
  /\ got \in Seq([val : Nodes, fr : FrameIds \cup {Null}])

(* What `U (|X| X {X E}) apply' means: for each value v of U, in order,  *)
(* the values E[v].                                                        *)
Expected(s) == FlattenSeq([k \in DOMAIN Up[s] |-> E[Up[s][k]]])

(* apply returns, in order, exactly the values the closures' bodies      *)
(* enumerate for the value their own frame bound: a prefix while the     *)
(* drive runs, all of them once next() returned null.                     *)
ApplyListing ==
  LET vals == [k \in DOMAIN got |-> got[k].val]
  IN  /\ seed # Null => IsPrefix(vals, Expected(seed))
      /\ (seed # Null /\ exhausted) => vals = Expected(seed)

(* The specification: a slot once bound in a frame is never bound again  *)
(* in that frame; each upstream stack gets a frame of its own.            *)
BindOnce == ~rebound

(* op_apply's assertion: m_old_frame is null whenever a closure is taken *)
(* up, i.e. the previous body's frame was given back.                      *)
ApplyFrameProtocol == ~oldAssert

(* Every drive eventually ends with next() returning null.               *)
DriveEnds == ~exhausted ~> exhausted
=============================================================================

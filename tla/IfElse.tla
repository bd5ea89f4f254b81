------------------------------- MODULE IfElse -------------------------------
(***************************************************************************)
(* The conditional op_ifelse (src/libzwerg/op.cc): for each upstream      *)
(* stack the condition sub-expression is run up to its first result; if  *)
(* there is one the `then' sub-expression is run on the stack, otherwise *)
(* the `else' one.  The condition, `then' and `else' each sit on their   *)
(* own origin.                                                             *)
(*                                                                         *)
(* The expression is  U (if C then T else E)  re-driven by an enclosing   *)
(* operator; U, C, T and E are enumerating operators (Pipeline).          *)
(***************************************************************************)
EXTENDS Pipeline, SequencesExt

CONSTANTS
  Nodes,         \* values
  Up,            \* Up[v]: what U enumerates for v
  Cond,          \* Cond[v]: what C enumerates for v
  Arm,           \* Arm["then"][v], Arm["else"][v]: what T and E enumerate
  Seeds,         \* stacks the enclosing operator feeds into the outer origin
  MaxDrives      \* bound on the number of (re)drives

Arms == {"then", "else"}

ASSUME Up \in [Nodes -> Seq(Nodes)] /\ Cond \in [Nodes -> Seq(Nodes)]
ASSUME Arm \in [Arms -> [Nodes -> Seq(Nodes)]]

VARIABLES
  pc,            \* "idle" between calls, "loop" inside next ()
  res,           \* what the last finished call returned
  up,            \* outer origin and U: [slot, rst, vf, idx]
  cond,          \* C and its origin
  arm,           \* arm[a]: T or E and its origin
  sel,           \* m_sel_op (with m_sel_origin): Null, "then" or "else"
  assertFailed,  \* an op_origin::set_next assertion has fired
  src,           \* history: the upstream stack results are listed for
  got,           \* history: the results listed for src, in order
  drives,        \* history: number of drives
  exhausted      \* history: the current drive's next() has returned null

vars == <<pc, res, up, cond, arm, sel, assertFailed, src, got, drives, exhausted>>
ghost == <<src, got, drives, exhausted>>

UpNext == EnumNext(Up, up.slot, up.vf, up.idx)
Moved(r, rst) == [slot |-> r.slot, rst |-> rst, vf |-> r.vf, idx |-> r.idx]
Idle == [slot |-> Null, rst |-> FALSE, vf |-> Null, idx |-> 0]

(* The arm op_ifelse runs for v.                                          *)
Chosen(v) == IF Cond[v] # <<>> THEN "then" ELSE "else"

-----------------------------------------------------------------------------
(* The constructor calls reset_me (); no origin has been reset yet.       *)
Init ==
  /\ pc = "idle" /\ res = Null
  /\ up = Idle /\ cond = Idle /\ arm = [a \in Arms |-> Idle]
  /\ sel = Null /\ assertFailed = FALSE
  /\ src = Null /\ got = <<>> /\ drives = 0 /\ exhausted = TRUE

(* op_ifelse::reset: reset_me (forget the selected arm) and reset the     *)
(* upstream chain down to the outer origin, which is then primed.  The    *)
(* condition and the arms are left as they are.                           *)
Drive(seed) ==
  /\ pc = "idle" /\ drives < MaxDrives
  /\ sel' = Null
  /\ up' = [Idle EXCEPT !.slot = seed]
  /\ src' = Null /\ got' = <<>> /\ drives' = drives + 1 /\ exhausted' = FALSE
  /\ UNCHANGED <<pc, res, cond, arm, assertFailed>>

Call ==
  /\ pc = "idle" /\ ~exhausted
  /\ pc' = "loop"
  /\ UNCHANGED <<res, up, cond, arm, sel, assertFailed, ghost>>

(* Mutant: the arms swapped.                                               *)
SelectSwapped ==
  /\ pc = "loop" /\ sel = Null
  /\ up' = Moved(UpNext, up.rst)
  /\ IF UpNext.res = Null
     THEN /\ pc' = "idle" /\ res' = Null /\ exhausted' = TRUE
          /\ UNCHANGED <<cond, arm, sel, assertFailed, src, got>>
     ELSE LET v == UpNext.res
              c == EnumNext(Cond, v, EnumReset.vf, EnumReset.idx)
              a == IF c.res # Null THEN "else" ELSE "then"
          IN  /\ cond' = Moved(c, FALSE)
              /\ sel' = a
              /\ arm' = [arm EXCEPT ![a] = [EnumReset EXCEPT !.slot = v, !.rst = FALSE]]
              /\ assertFailed' = (assertFailed \/ SetNextFails(EnumReset.slot, EnumReset.rst))
              /\ src' = v /\ got' = <<>>
              /\ UNCHANGED <<pc, res, exhausted>>
  /\ UNCHANGED drives

(* No arm selected: pull upstream.  nullptr ends the call.  Otherwise    *)
(* reset the condition, prime its origin with a copy of the stack and   *)
(* take its first result only; select `then' if there was one, else     *)
(* `else'; reset the selected arm and prime its origin with the stack.   *)
Select ==
  /\ pc = "loop" /\ sel = Null
  /\ up' = Moved(UpNext, up.rst)
  /\ IF UpNext.res = Null
     THEN /\ pc' = "idle" /\ res' = Null /\ exhausted' = TRUE
          /\ UNCHANGED <<cond, arm, sel, assertFailed, src, got>>
     ELSE LET v == UpNext.res
              c == EnumNext(Cond, v, EnumReset.vf, EnumReset.idx)
              a == IF c.res # Null THEN "then" ELSE "else"
          IN  /\ cond' = Moved(c, FALSE)
              /\ sel' = a
              /\ arm' = [arm EXCEPT ![a] = [EnumReset EXCEPT !.slot = v, !.rst = FALSE]]
              /\ assertFailed' = (assertFailed \/ SetNextFails(EnumReset.slot, EnumReset.rst))
              /\ src' = v /\ got' = <<>>
              /\ UNCHANGED <<pc, res, exhausted>>
  /\ UNCHANGED drives

(* Mutant: a drained arm left selected (reset_me not called).             *)
PullArmNoResetMe ==
  /\ pc = "loop" /\ sel # Null
  /\ LET r == EnumNext(Arm[sel], arm[sel].slot, arm[sel].vf, arm[sel].idx)
     IN  /\ arm' = [arm EXCEPT ![sel] = Moved(r, @.rst)]
         /\ IF r.res # Null
            THEN pc' = "idle" /\ res' = r.res /\ got' = Append(got, r.res)
            ELSE UNCHANGED <<pc, res, got>>
  /\ UNCHANGED <<up, cond, sel, assertFailed, src, drives, exhausted>>

(* An arm is selected: pull it; a result is returned, and when it is     *)
(* drained reset_me () forgets it and the loop pulls upstream again.     *)
PullArm ==
  /\ pc = "loop" /\ sel # Null
  /\ LET r == EnumNext(Arm[sel], arm[sel].slot, arm[sel].vf, arm[sel].idx)
     IN  /\ arm' = [arm EXCEPT ![sel] = Moved(r, @.rst)]
         /\ IF r.res # Null
            THEN /\ pc' = "idle" /\ res' = r.res /\ got' = Append(got, r.res)
                 /\ UNCHANGED sel
            ELSE /\ sel' = Null
                 /\ UNCHANGED <<pc, res, got>>
  /\ UNCHANGED <<up, cond, assertFailed, src, drives, exhausted>>

Finished ==
  /\ pc = "idle" /\ exhausted /\ drives = MaxDrives
  /\ UNCHANGED vars

Step == Select \/ PullArm

Next == (\E s \in Seeds : Drive(s)) \/ Call \/ Step \/ Finished

(* The consumer keeps pulling, and a started call of next() runs on.     *)
Spec == Init /\ [][Next]_vars /\ WF_vars(Call) /\ WF_vars(Step)

-----------------------------------------------------------------------------
(* For every upstream stack, op_ifelse emits the results of `then' if the *)
(* condition has any result on that stack and of `else' otherwise, in    *)
(* order, all of them before it moves on; never results of the other arm *)
(* or of an arm primed for an earlier stack.                               *)
IfElseListing ==
  /\ src # Null => IsPrefix(got, Arm[Chosen(src)][src])
  /\ (pc = "loop" /\ sel = Null /\ src # Null) => got = Arm[Chosen(src)][src]

(* Every drive eventually ends with next() returning null.               *)
DriveEnds == ~exhausted ~> exhausted
=============================================================================

-------------------------------- MODULE OrOp --------------------------------
(***************************************************************************)
(* Short-circuit alternation op_or (src/libzwerg/op.cc): for each         *)
(* upstream stack the branches are tried in order, and the first one     *)
(* that yields a result is the only one whose results are emitted.        *)
(*                                                                         *)
(* The expression is  U (B1 || ... || Bn)  re-driven by an enclosing      *)
(* operator: U is an enumerating operator over the outer origin, each Bi *)
(* an enumerating operator over its own origin (Pipeline).  A call of    *)
(* next() is split into the steps of its loops.                          *)
(***************************************************************************)
EXTENDS Pipeline, SequencesExt

CONSTANTS
  Nodes,         \* values
  Up,            \* Up[v]: what the upstream operator enumerates for v
  Branch,        \* Branch[b][v]: what branch b enumerates for v
  Seeds,         \* stacks the enclosing operator feeds into the outer origin
  MaxDrives      \* bound on the number of (re)drives

NB == Len(Branch)
End == NB + 1    \* m_branches.end ()

ASSUME Up \in [Nodes -> Seq(Nodes)] /\ Branch \in Seq([Nodes -> Seq(Nodes)])

VARIABLES
  pc,            \* "idle" between calls, "top" at the head of while (true), "try" in the for loop
  res,           \* what the last finished call returned
  up,            \* outer origin and upstream operator: [slot, rst, vf, idx]
  sub,           \* sub[b]: branch b's origin and operator
  branchIt,      \* m_branch_it, End for m_branches.end ()
  stk,           \* the upstream stack the for loop hands to each branch
  assertFailed,  \* an op_origin::set_next assertion has fired
  src,           \* history: the upstream stack results are listed for
  got,           \* history: the results listed for src, in order
  drives,        \* history: number of drives
  exhausted      \* history: the current drive's next() has returned null

vars == <<pc, res, up, sub, branchIt, stk, assertFailed, src, got, drives, exhausted>>
ghost == <<src, got, drives, exhausted>>

(* next() of branch b and of the upstream operator.                       *)
BNext(b) == EnumNext(Branch[b], sub[b].slot, sub[b].vf, sub[b].idx)
UpNext == EnumNext(Up, up.slot, up.vf, up.idx)
Moved(r, rst) == [slot |-> r.slot, rst |-> rst, vf |-> r.vf, idx |-> r.idx]

(* The branch whose results op_or emits for v, End if none yields.        *)
Chosen(v) ==
  LET yielding == {b \in 1..NB : Branch[b][v] # <<>>}
  IN  IF yielding = {} THEN End ELSE CHOOSE b \in yielding : \A c \in yielding : b <= c
Expected(v) == IF Chosen(v) = End THEN <<>> ELSE Branch[Chosen(v)][v]

-----------------------------------------------------------------------------
Init ==
  /\ pc = "idle" /\ res = Null
  /\ up = [slot |-> Null, rst |-> FALSE, vf |-> Null, idx |-> 0]
  /\ sub = [b \in 1..NB |-> [slot |-> Null, rst |-> FALSE, vf |-> Null, idx |-> 0]]
  /\ branchIt = End /\ stk = Null /\ assertFailed = FALSE
  /\ src = Null /\ got = <<>> /\ drives = 0 /\ exhausted = TRUE

(* op_or::reset_me: m_branch_it = end, and every branch reset.            *)
ResetMe ==
  /\ branchIt' = End
  /\ sub' = [b \in 1..NB |-> EnumReset]

(* The enclosing operator re-drives the expression, possibly before the *)
(* previous drive was exhausted (pred_subx_any, the if-condition): reset *)
(* (reset_me and the upstream chain) then set_next(seed) on the origin.  *)
Drive(seed) ==
  /\ pc = "idle" /\ drives < MaxDrives
  /\ ResetMe
  /\ up' = [slot |-> seed, rst |-> FALSE, vf |-> Null, idx |-> 0]
  /\ src' = Null /\ got' = <<>> /\ drives' = drives + 1 /\ exhausted' = FALSE
  /\ UNCHANGED <<pc, res, stk, assertFailed>>

Call ==
  /\ pc = "idle" /\ ~exhausted
  /\ pc' = "top"
  /\ UNCHANGED <<res, up, sub, branchIt, stk, assertFailed, ghost>>

(* while (m_branch_it == end): pull upstream; null ends the call, a      *)
(* stack starts the for loop over the branches.                           *)
PullUp ==
  /\ pc = "top" /\ branchIt = End
  /\ up' = Moved(UpNext, up.rst)
  /\ IF UpNext.res = Null
     THEN /\ pc' = "idle" /\ res' = Null /\ exhausted' = TRUE
          /\ UNCHANGED <<branchIt, stk, src, got>>
     ELSE /\ pc' = "try" /\ branchIt' = 1 /\ stk' = UpNext.res
          /\ src' = UpNext.res /\ got' = <<>>
          /\ UNCHANGED <<res, exhausted>>
  /\ UNCHANGED <<sub, assertFailed, drives>>

(* One round of the for loop: reset the branch, set_next a copy of the  *)
(* upstream stack on its origin, and pull it.  A result is returned with *)
(* m_branch_it left at this branch; otherwise try the next branch, and   *)
(* after the last one m_branch_it is end and upstream is pulled again.   *)
Try ==
  /\ pc = "try"
  /\ LET b == branchIt
         fresh == EnumReset
         r == EnumNext(Branch[b], stk, fresh.vf, fresh.idx)
     IN  /\ sub' = [sub EXCEPT ![b] = Moved(r, FALSE)]
         /\ assertFailed' = (assertFailed \/ SetNextFails(fresh.slot, fresh.rst))
         /\ IF r.res # Null
            THEN /\ pc' = "idle" /\ res' = r.res /\ got' = Append(got, r.res)
                 /\ UNCHANGED branchIt
            ELSE /\ branchIt' = b + 1
                 /\ pc' = IF b + 1 = End THEN "top" ELSE "try"
                 /\ UNCHANGED <<res, got>>
  /\ UNCHANGED <<up, stk, src, drives, exhausted>>

(* Mutant: a drained branch passing over to the next branch.            *)
ResumeNextBranch ==
  /\ pc = "top" /\ branchIt # End
  /\ LET b == branchIt
         r == BNext(b)
     IN  IF r.res # Null
         THEN /\ sub' = [sub EXCEPT ![b] = Moved(r, sub[b].rst)]
              /\ pc' = "idle" /\ res' = r.res /\ got' = Append(got, r.res)
              /\ UNCHANGED branchIt
         ELSE /\ sub' = [sub EXCEPT ![b] = Moved(r, sub[b].rst)]
              /\ branchIt' = b + 1
              /\ pc' = IF b + 1 = End THEN "top" ELSE "try"
              /\ UNCHANGED <<res, got>>
  /\ UNCHANGED <<up, stk, assertFailed, src, drives, exhausted>>

(* Mutant: the drained branch left selected (reset_me not called).       *)
ResumeNoResetMe ==
  /\ pc = "top" /\ branchIt # End
  /\ LET b == branchIt
         r == BNext(b)
     IN  /\ IF r.res # Null
            THEN /\ sub' = [sub EXCEPT ![b] = Moved(r, sub[b].rst)]
                 /\ pc' = "idle" /\ res' = r.res /\ got' = Append(got, r.res)
            ELSE /\ sub' = [sub EXCEPT ![b] = Moved(r, sub[b].rst)]
                 /\ UNCHANGED <<pc, res, got>>
  /\ UNCHANGED <<up, branchIt, stk, assertFailed, src, drives, exhausted>>

(* The selected branch is pulled again; when it is drained, reset_me()   *)
(* and the loop goes round to pull upstream.                               *)
Resume ==
  /\ pc = "top" /\ branchIt # End
  /\ LET b == branchIt
         r == BNext(b)
     IN  IF r.res # Null
         THEN /\ sub' = [sub EXCEPT ![b] = Moved(r, sub[b].rst)]
              /\ pc' = "idle" /\ res' = r.res /\ got' = Append(got, r.res)
              /\ UNCHANGED branchIt
         ELSE /\ ResetMe
              /\ UNCHANGED <<pc, res, got>>
  /\ UNCHANGED <<up, stk, assertFailed, src, drives, exhausted>>

Finished ==
  /\ pc = "idle" /\ exhausted /\ drives = MaxDrives
  /\ UNCHANGED vars

Step == PullUp \/ Try \/ Resume

Next == (\E s \in Seeds : Drive(s)) \/ Call \/ Step \/ Finished

(* The consumer keeps pulling, and a started call of next() runs on.     *)
Spec == Init /\ [][Next]_vars /\ WF_vars(Call) /\ WF_vars(Step)

-----------------------------------------------------------------------------
(* For every upstream stack, what op_or emits is a prefix of the results *)
(* of the first branch that yields anything for it, in that branch's     *)
(* order; and once op_or has moved on (it pulls upstream again), it was  *)
(* all of them.  Results of a later branch, or of a branch primed with   *)
(* an earlier stack or drive, never appear.                                *)
OrListing ==
  /\ src # Null => IsPrefix(got, Expected(src))
  /\ (pc = "top" /\ branchIt = End /\ src # Null) => got = Expected(src)

(* Every drive eventually ends with next() returning null.               *)
DriveEnds == ~exhausted ~> exhausted
=============================================================================

------------------------------ MODULE TineMerge ------------------------------
(***************************************************************************)
(* Tee-style parallel branches (src/libzwerg/op.cc): K op_tine peers      *)
(* share a file of K stack slots, a done flag and one upstream; each      *)
(* branch sub-expression sits on its tine, and op_merge pulls the         *)
(* branches.  When a tine finds every slot empty it pulls one upstream    *)
(* stack and copies it into all slots; each tine hands out its own slot.  *)
(*                                                                         *)
(* Each branch is an enumerating operator over its tine (Pipeline): it    *)
(* takes a stack, yields the values derived from it, drops a stack with  *)
(* nothing to yield and pulls its tine again.  A stack is its top value  *)
(* tagged with the position at which upstream produced it.                *)
(***************************************************************************)
EXTENDS Pipeline, SequencesExt

CONSTANTS
  Nodes,         \* values
  Up,            \* Up[v]: what the shared upstream enumerates for v
  Branch,        \* Branch[k][v]: what branch k enumerates for v
  Seeds,         \* values the enclosing operator feeds into the outer origin
  MaxDrives      \* bound on the number of (re)drives

K == Len(Branch)
Peers == 1..K

ASSUME Up \in [Nodes -> Seq(Nodes)] /\ Branch \in Seq([Nodes -> Seq(Nodes)])

VARIABLES
  pc,            \* "idle" between calls, "merge" inside op_merge::next
  it,            \* m_it: the branch merge pulls
  done,          \* *m_done, shared by the tines and the merge
  file,          \* *m_file: file[k] is Null or the stack [v, pos] for tine k
  up,            \* outer origin and upstream: [slot, rst, vf, idx]
  br,            \* br[k]: branch k's held stack (Null or [v, pos]) and cursor
  pulled,        \* history: stacks pulled from upstream in this drive
  seed,          \* history: the seed of this drive
  got,           \* history: the results [b, pos, v] merge returned
  drives,        \* history: number of drives
  exhausted      \* history: the current drive's next() has returned null

vars == <<pc, it, done, file, up, br, pulled, seed, got, drives, exhausted>>

Idle == [slot |-> Null, rst |-> FALSE, vf |-> Null, idx |-> 0]
Moved(r, rst) == [slot |-> r.slot, rst |-> rst, vf |-> r.vf, idx |-> r.idx]
UpNext == EnumNext(Up, up.slot, up.vf, up.idx)
Cleared == [k \in Peers |-> Null]

(* op_tine::next for peer k: its result and the shared state after it.   *)
(* Mutant: the tine refilling the file when its own slot is empty.      *)
TineNextOwnSlot(k) ==
  IF done
  THEN [res |-> Null, file |-> file, done |-> TRUE, up |-> up, pulled |-> pulled]
  ELSE IF file[k] = Null
  THEN IF UpNext.res = Null
       THEN [res |-> Null, file |-> file, done |-> TRUE,
             up |-> Moved(UpNext, up.rst), pulled |-> pulled]
       ELSE LET e == [v |-> UpNext.res, pos |-> pulled + 1]
            IN  [res |-> e, file |-> [j \in Peers |-> IF j = k THEN Null ELSE e],
                 done |-> FALSE, up |-> Moved(UpNext, up.rst), pulled |-> pulled + 1]
  ELSE [res |-> file[k], file |-> [file EXCEPT ![k] = Null], done |-> FALSE,
        up |-> up, pulled |-> pulled]

TineNext(k) ==
  IF done
  THEN [res |-> Null, file |-> file, done |-> TRUE, up |-> up, pulled |-> pulled]
  ELSE IF \A j \in Peers : file[j] = Null
  THEN IF UpNext.res = Null
       THEN [res |-> Null, file |-> file, done |-> TRUE,
             up |-> Moved(UpNext, up.rst), pulled |-> pulled]
       ELSE LET e == [v |-> UpNext.res, pos |-> pulled + 1]
            IN  [res |-> e, file |-> [j \in Peers |-> IF j = k THEN Null ELSE e],
                 done |-> FALSE, up |-> Moved(UpNext, up.rst), pulled |-> pulled + 1]
  ELSE [res |-> file[k], file |-> [file EXCEPT ![k] = Null], done |-> FALSE,
        up |-> up, pulled |-> pulled]

-----------------------------------------------------------------------------
Init ==
  /\ pc = "idle" /\ it = 1 /\ done = FALSE /\ file = Cleared /\ up = Idle
  /\ br = [k \in Peers |-> [vf |-> Null, idx |-> 0]]
  /\ pulled = 0 /\ seed = Null /\ got = <<>> /\ drives = 0 /\ exhausted = TRUE

(* Mutant: op_merge::reset not resetting its branches, so the tines keep *)
(* their file.                                                             *)
DriveNoTineReset(s) ==
  /\ pc = "idle" /\ drives < MaxDrives
  /\ done' = FALSE /\ it' = 1
  /\ up' = [Idle EXCEPT !.slot = s]
  /\ pulled' = 0 /\ seed' = s /\ got' = <<>> /\ drives' = drives + 1 /\ exhausted' = FALSE
  /\ UNCHANGED <<pc, file, br>>

(* op_merge::reset: clear done, rewind m_it, reset every branch; that    *)
(* reaches each tine, which clears the file and resets the upstream down *)
(* to the outer origin, which the enclosing operator then primes.        *)
Drive(s) ==
  /\ pc = "idle" /\ drives < MaxDrives
  /\ done' = FALSE /\ it' = 1 /\ file' = Cleared
  /\ br' = [k \in Peers |-> [vf |-> Null, idx |-> 0]]
  /\ up' = [Idle EXCEPT !.slot = s]
  /\ pulled' = 0 /\ seed' = s /\ got' = <<>> /\ drives' = drives + 1 /\ exhausted' = FALSE
  /\ UNCHANGED pc

(* op_merge::next with *m_done set returns nullptr at once.               *)
CallDone ==
  /\ pc = "idle" /\ ~exhausted /\ done
  /\ exhausted' = TRUE
  /\ UNCHANGED <<pc, it, done, file, up, br, pulled, seed, got, drives>>

Call ==
  /\ pc = "idle" /\ ~exhausted /\ ~done
  /\ pc' = "merge"
  /\ UNCHANGED <<it, done, file, up, br, pulled, seed, got, drives, exhausted>>

(* Branch it holds a stack: it yields the next value derived from it.    *)
BranchYield ==
  /\ pc = "merge" /\ br[it].vf # Null
  /\ LET h == br[it].vf
         vs == Branch[it][h.v]
     IN  /\ br' = [br EXCEPT ![it] = [vf |-> IF @.idx = Len(vs) THEN Null ELSE h,
                                      idx |-> @.idx + 1]]
         /\ got' = Append(got, [b |-> it, pos |-> h.pos, v |-> vs[br[it].idx]])
  /\ pc' = "idle"
  /\ UNCHANGED <<it, done, file, up, pulled, seed, drives, exhausted>>

(* Mutant: m_it not advanced past a branch that returned nullptr.        *)
BranchPullStuck ==
  /\ pc = "merge" /\ br[it].vf = Null
  /\ LET t == TineNext(it)
     IN  /\ file' = t.file /\ done' = t.done /\ up' = t.up /\ pulled' = t.pulled
         /\ IF t.res = Null
            THEN /\ pc' = IF t.done THEN "idle" ELSE "merge"
                 /\ exhausted' = t.done
                 /\ UNCHANGED <<it, br, got>>
            ELSE LET vs == Branch[it][t.res.v]
                 IN  IF vs = <<>>
                     THEN UNCHANGED <<pc, it, br, got, exhausted>>
                     ELSE /\ br' = [br EXCEPT ![it] = [vf |-> IF Len(vs) = 1 THEN Null ELSE t.res,
                                                       idx |-> 2]]
                          /\ got' = Append(got, [b |-> it, pos |-> t.res.pos, v |-> vs[1]])
                          /\ pc' = "idle"
                          /\ UNCHANGED <<it, exhausted>>
  /\ UNCHANGED <<seed, drives>>

(* Branch it holds nothing: it pulls its tine.  A stack with nothing to *)
(* derive is dropped and the tine pulled again; a stack with values     *)
(* yields the first.  nullptr from the tine makes the branch return      *)
(* nullptr: merge moves m_it on (wrapping), and returns nullptr itself   *)
(* if the tine found upstream drained and set done.                      *)
BranchPull ==
  /\ pc = "merge" /\ br[it].vf = Null
  /\ LET t == TineNext(it)
     IN  /\ file' = t.file /\ done' = t.done /\ up' = t.up /\ pulled' = t.pulled
         /\ IF t.res = Null
            THEN /\ it' = IF it = K THEN 1 ELSE it + 1
                 /\ pc' = IF t.done THEN "idle" ELSE "merge"
                 /\ exhausted' = t.done
                 /\ UNCHANGED <<br, got>>
            ELSE LET vs == Branch[it][t.res.v]
                 IN  IF vs = <<>>
                     THEN UNCHANGED <<pc, it, br, got, exhausted>>
                     ELSE /\ br' = [br EXCEPT ![it] = [vf |-> IF Len(vs) = 1 THEN Null ELSE t.res,
                                                       idx |-> 2]]
                          /\ got' = Append(got, [b |-> it, pos |-> t.res.pos, v |-> vs[1]])
                          /\ pc' = "idle"
                          /\ UNCHANGED <<it, exhausted>>
  /\ UNCHANGED <<seed, drives>>

Finished ==
  /\ pc = "idle" /\ exhausted /\ drives = MaxDrives
  /\ UNCHANGED vars

Step == BranchYield \/ BranchPull

Next == (\E s \in Seeds : Drive(s)) \/ CallDone \/ Call \/ Step \/ Finished

(* The consumer keeps pulling, and a started call of next() runs on.     *)
Spec == Init /\ [][Next]_vars /\ WF_vars(Call \/ CallDone) /\ WF_vars(Step)

-----------------------------------------------------------------------------
(* What branch k yields over the whole upstream listing of the drive.    *)
Listing(k) ==
  LET us == Up[seed]
  IN  FlattenSeq([p \in DOMAIN us |->
                   [i \in DOMAIN Branch[k][us[p]] |-> [b |-> k, pos |-> p, v |-> Branch[k][us[p]][i]]]])
FromBranch(k) == SelectSeq(got, LAMBDA r : r.b = k)

(* Every branch sees every upstream stack exactly once and in order: what *)
(* merge returned from branch k is a prefix of k's results over the      *)
(* upstream listing, and all of them once the drive has ended.            *)
BranchListing ==
  seed # Null =>
    \A k \in Peers :
      /\ IsPrefix(FromBranch(k), Listing(k))
      /\ exhausted => FromBranch(k) = Listing(k)

(* Merge returns all results derived from one upstream stack before any *)
(* derived from the next one.                                              *)
Grouped ==
  \A i, j \in DOMAIN got : i < j => got[i].pos <= got[j].pos

(* Every drive eventually ends with next() returning null.               *)
DriveEnds == ~exhausted ~> exhausted

(* The operator table of the specification: merge "round-robins one       *)
(* result from each of b1..bk until all drain", i.e. merge never returns  *)
(* two results of one branch in a row while another branch still has a  *)
(* result for the same upstream stack.                                     *)
Pending(j, p, n) ==
  Len(SelectSeq(SubSeq(got, 1, n), LAMBDA r : r.b = j /\ r.pos = p))
    < Len(Branch[j][Up[seed][p]])
RoundRobin ==
  \A n \in 1..(Len(got) - 1) :
    got[n].b = got[n + 1].b =>
      \A j \in Peers \ {got[n].b} : ~Pending(j, got[n].pos, n)
=============================================================================

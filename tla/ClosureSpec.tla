---------------------------- MODULE ClosureSpec ----------------------------
(***************************************************************************)
(* What the closure operators X* and X+ promise their driver, without the  *)
(* worklist, the cache or the re-driven sub-expression: after reset() and *)
(* set_next(seed) on the origin, next() lists, for each stack the         *)
(* upstream yields for the seed in turn, every member of that stack's     *)
(* closure under X exactly once, then returns null.  The star closure of  *)
(* a stack contains the stack itself and lists it first; the plus closure *)
(* contains what one or more applications of X reach.                     *)
(*                                                                         *)
(* X is given by its graph Kids; the upstream yields Up[seed].            *)
(***************************************************************************)
EXTENDS Naturals, Sequences

CONSTANTS
  Nodes,       \* stacks, abstracted to their top-of-stack values
  Kids,        \* Kids[n]: what one application of X yields for n
  Up,          \* Up[s]: what the upstream yields, in order, for seed s
  Seeds,       \* seeds the driver feeds in
  Null,
  MaxDrives    \* bound on the number of drives

LOCAL G == INSTANCE Graphs

VARIABLES
  plus,        \* X+ (TRUE) or X* (FALSE)
  pending,     \* upstream stacks of this drive whose closure is not begun
  cur,         \* the upstream stack whose closure is being listed
  listed,      \* members of cur's closure listed so far
  fin,         \* next() has returned null for this drive
  drives       \* drives so far

avars == <<plus, pending, cur, listed, fin, drives>>

Graph == [node |-> Nodes,
          edge |-> {<<m, n>> \in Nodes \X Nodes :
                      \E j \in DOMAIN Kids[m] : Kids[m][j] = n}]

(* The closure of n: its descendants in X's graph, and n itself for star. *)
Closure(n, p) == G!Descendants(Graph, n) \cup (IF p THEN {} ELSE {n})

(* The closure of the current upstream stack has been listed in full.    *)
Complete == cur = Null \/ listed = Closure(cur, plus)

Init ==
  /\ plus \in BOOLEAN
  /\ pending = <<>> /\ cur = Null /\ listed = {} /\ fin = TRUE /\ drives = 0

(* The driver re-drives once the previous drive has returned null.        *)
Drive(s) ==
  /\ fin /\ drives < MaxDrives
  /\ pending' = Up[s] /\ cur' = Null /\ listed' = {} /\ fin' = FALSE
  /\ drives' = drives + 1
  /\ UNCHANGED plus

(* next() yields a member of the current closure not yet listed.          *)
Yield ==
  /\ ~fin /\ cur # Null
  /\ \E x \in Closure(cur, plus) \ listed : listed' = listed \cup {x}
  /\ UNCHANGED <<plus, pending, cur, fin, drives>>

(* The current closure is complete: the next upstream stack is taken.     *)
(* A star closure lists that stack itself in the same call.               *)
Begin ==
  /\ ~fin /\ Complete /\ pending # <<>>
  /\ cur' = Head(pending) /\ pending' = Tail(pending)
  /\ listed' = IF plus THEN {} ELSE {Head(pending)}
  /\ UNCHANGED <<plus, fin, drives>>

(* Every closure is complete and the upstream is drained: null.           *)
End ==
  /\ ~fin /\ Complete /\ pending = <<>>
  /\ fin' = TRUE
  /\ UNCHANGED <<plus, pending, cur, listed, drives>>

Step == Yield \/ Begin \/ End

Next == (\E s \in Seeds : Drive(s)) \/ Step

(* A drive, once started, is pulled until next() returns null.            *)
Spec == Init /\ [][Next]_avars /\ WF_avars(Step)
=============================================================================

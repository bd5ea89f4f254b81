---------------------------- MODULE MCTrClosure ----------------------------
(* A DIE graph with a diamond (d under both a and b, which are upstream    *)
(* stacks of the same seed), a cycle (a -> c -> a) and a leaf.            *)
EXTENDS TrClosure

MCNodes == {"r", "a", "b", "c", "d"}
MCKids == [n \in MCNodes |->
            CASE n = "r" -> <<"a", "b">>
              [] n = "a" -> <<"c", "d">>
              [] n = "b" -> <<"d">>
              [] n = "c" -> <<"a">>
              [] n = "d" -> <<>>]
MCSeeds == {"r", "c"}
=============================================================================

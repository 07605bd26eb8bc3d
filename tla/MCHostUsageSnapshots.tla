------------------------ MODULE MCHostUsageSnapshots ------------------------
(* Small instances of HostUsageSnapshots for TLC. *)
EXTENDS HostUsageSnapshots, TLC

CONSTANTS c1, c2, t1, t2, p1, p2
Sym == Permutations({c1, c2}) \cup Permutations({t1, t2})

StaleAfter1 == [p \in {p1} |-> 1]
StaleAfter2 == (p1 :> 1) @@ (p2 :> 1)
=============================================================================

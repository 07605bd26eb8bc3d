----------------------------- MODULE MCK3sVolumes -----------------------------
(* A small cluster for K3sVolumes.  Beneath the roots 1 and 9 lie: 2, with 3,*)
(* of volume 1; 4, which is nobody's at first, with 5, of volume 2; 6, which *)
(* no volume owns; 10, of volume 3, where 11 is mounted from another file    *)
(* system; and 8, which is a file.  7 lies outside.  Claims 1 and 2 are in   *)
(* one namespace, claim 3 in another.                                        *)
EXTENDS K3sVolumes, TLC

HostNodes == 1 .. 11
HostAbove == [n \in HostNodes |-> CASE n \in {2, 4, 6, 8} -> {1} [] n = 3 -> {1, 2} [] n = 5 -> {1, 4}
                                    [] n = 10 -> {9} [] n = 11 -> {9, 10} [] OTHER -> {}]
HostDevice == [n \in HostNodes |-> IF n = 11 THEN "other" ELSE "host"]
Spaces == [c \in 1 .. 3 |-> IF c = 3 THEN 2 ELSE 1]
Mounted == [p \in 1 .. 2 |-> IF p = 1 THEN {1} ELSE {1, 3}]
Located == [v \in 1 .. 5 |-> CASE v = 1 -> 2 [] v = 2 -> 5 [] v = 3 -> 10 [] v = 4 -> 2
                                [] v = 5 -> 7]

Names(claims) == [c \in 1 .. 3 |-> IF c \in DOMAIN claims THEN claims[c] ELSE None]
Refs(claims) == [v \in 1 .. 5 |-> IF \E c \in DOMAIN claims : claims[c] = v
                                  THEN CHOOSE c \in DOMAIN claims : claims[c] = v ELSE None]
At(claims, bound, files) ==
    [pods |-> {p \in 1 .. 2 : Mounted[p] \subseteq DOMAIN bound}, claims |-> claims,
     volumes |-> {bound[c] : c \in DOMAIN bound}, bound |-> Names(bound), ref |-> Refs(bound),
     files |-> files]
(* A claim that waits; two namespaces on one path; a volume outside; every  *)
(* volume bound; and one that was released.                                 *)
Waiting == At(1 .. 2, 1 :> 1, {1, 2, 3, 6})
Shared == At({1, 3}, 1 :> 1 @@ 3 :> 4, {1, 2, 3, 6})
Outside == At({1, 3}, 1 :> 1 @@ 3 :> 5, {1, 2, 3, 7})
Everyone == At(1 .. 3, 1 :> 1 @@ 2 :> 2 @@ 3 :> 3, HostNodes)
Released == [At(1 .. 2, 1 :> 1 @@ 2 :> 2, HostNodes) EXCEPT !.claims = {1}, !.bound[2] = None]
SomeStarts == {Waiting, Shared, Outside, Everyone, Released}

Limits(paths, entries, total) == [paths |-> paths, max_entries |-> entries, total |-> total]
SomeLimits == {Limits(9, 9, 16), Limits(2, 9, 16), Limits(9, 1, 16), Limits(9, 9, 5)}
=============================================================================

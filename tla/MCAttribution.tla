---------------------------- MODULE MCAttribution ----------------------------
(* Two pods with a container of the same name: one that restarts and has a    *)
(* sandbox, and one with two containers; and a process of the host.           *)
EXTENDS Attribution, TLC

InContainer == [q \in 1 .. 6 |-> CASE q = 1 -> "web1" [] q = 2 -> "sandbox" [] q = 3 -> "api"
                                   [] q = 4 -> None [] q = 5 -> "web2" [] q = 6 -> "proxy"]
Memory == [q \in 1 .. 6 |-> 2 ^ q]
InPod == [c \in {"web1", "web2", "sandbox", "api", "proxy"} |->
            IF c \in {"api", "proxy"} THEN "B" ELSE "A"]
Called == [c \in DOMAIN InPod |-> CASE c = "proxy" -> "proxy" [] c = "sandbox" -> "sandbox" [] OTHER -> "main"]

State(at, ids, uids) ==
    [at |-> at, begun |-> {at[p] : p \in 1 .. 3} \ {None}, pods |-> {"A", "B"}, ids |-> ids,
     uids |-> uids]
SomeStarts == {State(<<1, 2, 3>>, {"web1", "api", "proxy"}, TRUE),
               State(<<None, 4, 5>>, {"web1", "api"}, TRUE),
               State(<<6, 4, None>>, {"web1", "api", "proxy"}, FALSE)}
=============================================================================

--------------------------- MODULE MCPressureScan ---------------------------
(* A small host for PressureScan: a root 1 with a file 2 and a directory 3,   *)
(* which is configured too and holds 4 and, later, 5; and a root 6 with a     *)
(* mounted directory 7, which holds 8, and a link 9.                          *)
EXTENDS PressureScan, TLC

TreeNodes == 1 .. 9
TreeAbove == [n \in TreeNodes |-> CASE n \in {2, 3} -> {1} [] n \in {4, 5} -> {1, 3}
                                    [] n \in {7, 9} -> {6} [] n = 8 -> {6, 7} [] OTHER -> {}]
NoFault == [n \in TreeNodes |-> "none"]
OneFault == {NoFault} \cup {[NoFault EXCEPT ![n] = f] :
               n \in {1, 3}, f \in {"lstat_denied", "lstat_error", "list_denied", "list_error"}}
Limits(children, entries, total) ==
    [max_children |-> children, max_entries |-> entries, total |-> total]
EveryLimit == {Limits(1, 9, 9), Limits(2, 9, 2), Limits(2, 2, 16), Limits(2, 9, 16)}
=============================================================================

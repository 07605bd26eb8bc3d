------------------------- MODULE MCDeletedOpenFiles -------------------------
(* Small hosts for DeletedOpenFiles: a deleted log file, a file that still    *)
(* has its name, and a file of a container overlay.                           *)
EXTENDS DeletedOpenFiles, TLC

CONSTANTS log, data, layer

FileTable == (log :> [kind |-> "regular", device |-> "disk"])
             @@ (data :> [kind |-> "regular", device |-> "disk"])
             @@ (layer :> [kind |-> "regular", device |-> "overlay"])

(* Process 2 is in a container, which has the overlay and not the disk. *)
Tables == (0 :> {"disk"}) @@ (1 :> {"disk", "overlay"}) @@ (2 :> {"overlay"}) @@ (3 :> {"disk"})

Holding(f1, f2) == (1 :> f1) @@ (2 :> f2)
Host == [alive |-> {1, 2}, deleted |-> {log, layer}, denied |-> {}, failing |-> {},
         mountinfo |-> TRUE, proc |-> TRUE,
         open |-> (1 :> Holding(log, data)) @@ (2 :> Holding(log, layer)) @@ (3 :> Holding(None, None))]
OneHolder == [Host EXCEPT !.alive = {1}, !.open[2] = Holding(None, None)]
EveryStart == {Host, OneHolder, [Host EXCEPT !.mountinfo = FALSE], [Host EXCEPT !.proc = FALSE],
               [Host EXCEPT !.denied = {1}], [Host EXCEPT !.failing = {2, log}],
               [Host EXCEPT !.failing = {log}]}
EveryCap == [max_pids : {1, 3}, max_fds : {1, 2}]
=============================================================================

----------------------------- MODULE MCUsageScan -----------------------------
(* A small tree for UsageScan: a directory 1 holding a file 2 and a directory *)
(* 3, which holds 4 and, later, 5; next to 1 a file 6, and a directory 7,     *)
(* often a mount point, that holds 8.  4 and 6 are links to one inode.        *)
EXTENDS UsageScan, TLC

TreeNodes == 1 .. 8
TreeDirs == {1, 3, 7}
TreeAbove == [n \in TreeNodes |-> CASE n \in {2, 3} -> {1} [] n \in {4, 5} -> {1, 3}
                                    [] n = 8 -> {7} [] OTHER -> {}]
TreeInode == [n \in TreeNodes |-> IF n = 6 THEN 4 ELSE n]
TreeSize == [i \in TreeNodes |-> 2 ^ i]

(* The mounts: of the host at a path, or of the container at the same path.   *)
Mount(id, at, device, root) == [id |-> id, rootfs |-> TRUE, at |-> at, device |-> device, root |-> root]
Own(id, at, device, root) == [Mount(id, at, device, root) EXCEPT !.rootfs = FALSE]
HostRoot == Mount(1, Ancestor, "disk", "/")
Itself == [n \in TreeNodes |-> n]
Showing(dir, file) == [Itself EXCEPT ![7] = dir, ![8] = file]

NoFault == [n \in TreeNodes |-> "none"]
OneFault == {NoFault} \cup {[NoFault EXCEPT ![n] = f] :
               n \in {3, 4}, f \in {"lstat_denied", "lstat_error", "list_denied", "list_error"}}

Plain == [lines |-> {HostRoot, Mount(2, 7, "other", "/")}, unreadable |-> FALSE, shows |-> Itself,
          fault |-> NoFault, exclude_paths |-> {}, max_entries |-> 0, max_children |-> 3, max_depth |-> 1]
Mounted(lines, shows) == [Plain EXCEPT !.lines = lines, !.shows = shows]

(* Every cap, number of children and depth, with one refused call. *)
Walks ==
    {[Plain EXCEPT !.fault = f, !.max_entries = e, !.max_children = c, !.max_depth = d] :
        f \in OneFault, e \in {0, 3, 5}, c \in {1, 3}, d \in 1 .. 3}
EveryWalk == {w \in Walks : \/ w.max_children = 3 /\ (w.max_depth = 1 \/ w.max_entries # 5)
                            \/ w.max_children = 1 /\ w.max_entries = 0 /\ w.max_depth \in {1, 3}}

(* No mount; a bind mount of 3, or of the whole file system, at 7; one over   *)
(* and one under a mount of another file system; a mount that covers the      *)
(* target; one subtree with two mounts of the whole; a configured exclusion;  *)
(* a table that cannot be read.                                               *)
EveryMount ==
    {Mounted({HostRoot}, Itself),
     Mounted({HostRoot, Mount(2, 7, "disk", "/3")}, Showing(3, 4)),
     Mounted({HostRoot, Mount(2, 7, "disk", "/")}, Showing(1, 2)),
     Mounted({HostRoot, Mount(2, 7, "other", "/"), Mount(3, 7, "disk", "/3")}, Showing(3, 4)),
     Mounted({HostRoot, Mount(2, 7, "disk", "/3"), Mount(3, 7, "other", "/")}, Itself),
     Mounted({HostRoot, Mount(2, Target, "other", "/"), Mount(3, 7, "disk", "/")}, Itself),
     Mounted({Mount(1, Ancestor, "other", "/"), Mount(2, Target, "disk", "/3"),
              Mount(3, 1, "disk", "/"), Mount(4, 7, "disk", "/")}, Showing(1, 2)),
     [Plain EXCEPT !.exclude_paths = {3}],
     [Mounted({HostRoot, Mount(2, 7, "disk", "/3")}, Showing(3, 4)) EXCEPT !.unreadable = TRUE]}
EveryScenario == EveryWalk \cup EveryMount

(* Two profiles that report several levels: one without a cap, one with.      *)
DeepScenarios == {[Plain EXCEPT !.max_depth = 2], [Plain EXCEPT !.max_entries = 2, !.max_depth = 3]}

(* A container that reads its own mount table: its root has the public path   *)
(* of the host's, and the file system of the host is mounted once more at 7.  *)
ContainerScenarios ==
    {Mounted({Own(1, Ancestor, "overlay", "/"), Mount(2, Ancestor, "disk", "/"),
              Mount(3, 7, "disk", "/")}, Showing(1, 2))}
=============================================================================

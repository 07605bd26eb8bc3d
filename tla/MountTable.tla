----------------------------- MODULE MountTable -----------------------------
(* read_mountinfo, _owning_mount and _mount_exclusions of storage.py: what a  *)
(* mount table says of one profile.  The process reads the table of its own   *)
(* mount namespace, in which the host is mounted at ROOTFS; a mount of the    *)
(* container itself keeps its mount point as its public path, so that two     *)
(* mounts may have the public path "/".                                       *)
EXTENDS Integers, Sequences, FiniteSets, SequencesExt

CONSTANTS
    Nodes,      \* the paths beneath the path of the profile
    Above,      \* Above[n]: the paths beneath the path of the profile that contain n
    Devices,    \* the file systems
    Roots,      \* the directories of a file system that are mounted; "/" is the whole of it
    None

Target == 0             \* the path of the profile
Ancestor == 0 - 1       \* a directory that contains it
Places == Nodes \cup {Target, Ancestor}

(* A line of mountinfo, and whether its mount point is beneath ROOTFS. *)
Line == [id : Nat, rootfs : BOOLEAN, at : Places, device : Devices, root : Roots]
MountRecord == [id : Nat, at : Places, device : Devices, root : Roots]

ASSUME PathAssumption ==
    /\ Nodes \subseteq Nat \ {0} /\ Above \in [Nodes -> SUBSET Nodes]
    /\ \A n \in Nodes : /\ IsFiniteSet(Above[n]) /\ n \notin Above[n]
                        /\ \A m \in Above[n] : Above[m] \subseteq Above[n]
                        /\ \A m, k \in Above[n] : m = k \/ m \in Above[k] \/ k \in Above[m]
ASSUME MountAssumption == "/" \in Roots /\ None \notin MountRecord

-----------------------------------------------------------------------------
PathContains(p, q) ==
    \/ p = q
    \/ p = Ancestor
    \/ p = Target /\ q \in Nodes
    \/ p \in Nodes /\ q \in Nodes /\ p \in Above[q]

Depth(p) == CASE p = Ancestor -> 0 [] p = Target -> 1 [] OTHER -> 2 + Cardinality(Above[p])

(* parse_mountinfo: the public records, in the order they are sorted in. *)
Parsed(lines) == {[id |-> l.id, at |-> l.at, device |-> l.device, root |-> l.root] : l \in lines}
Before(m, k) == Depth(m.at) < Depth(k.at) \/ (Depth(m.at) = Depth(k.at) /\ m.id < k.id)

(* Of several records that are equally deep, max returns the first. *)
OwningMount(p, table) ==
    LET candidates == {m \in table : PathContains(m.at, p)} IN
    IF candidates = {} THEN None
    ELSE CHOOSE m \in candidates : \A k \in candidates \ {m} :
            Depth(k.at) < Depth(m.at) \/ (Depth(k.at) = Depth(m.at) /\ m.id < k.id)

(* What a system call on p beneath ROOTFS meets: the mount put there last. *)
VisibleMount(p, lines) ==
    LET candidates == {m \in Parsed({l \in lines : l.rootfs}) : PathContains(m.at, p)} IN
    CHOOSE m \in candidates : \A k \in candidates \ {m} : Before(k, m)

PhysicalKey(m) == <<m.device, m.root>>
InProfile(m) == m.at # Target /\ PathContains(Target, m.at)

(* The owner of the profile has the same part of the same file system, or a   *)
(* mount beneath the profile that comes earlier in the table.                 *)
IsDuplicate(m, table) ==
    \/ LET owner == OwningMount(Target, table) IN owner # None /\ PhysicalKey(m) = PhysicalKey(owner)
    \/ \E k \in table : InProfile(k) /\ Before(k, m) /\ PhysicalKey(k) = PhysicalKey(m)

(* _mount_exclusions: the mounts a walk does not enter, given the device that *)
(* lstat reports for the path of the profile, and the configured exclusions.  *)
IsSkippedFlat(m, device, table) == m.device # device \/ m.root # "/"
IsSkipped(m, device, table) == m.device # device \/ m.root # "/" \/ IsDuplicate(m, table)
Exclusions(configured, device, table) ==
    {p \in configured : p # Target /\ PathContains(Target, p)}
    \cup {m.at : m \in {k \in table : InProfile(k) /\ IsSkipped(k, device, table)}}
=============================================================================

-------------------------- MODULE DeletedOpenFiles --------------------------
(* deleted_open_files of storage.py: a walk of /proc/<pid>/fd for files that  *)
(* are deleted but open, while processes fork, exit, close and open files.    *)
(* Each system call is a step; what changes between a readlink and the stat   *)
(* of the same descriptor is seen by one and not by the other.                *)
EXTENDS Integers, FiniteSets, FiniteSetsExt

CONSTANTS
    Pids,           \* process ids, integers
    Fds,            \* descriptor numbers, integers
    Files,          \* the inodes: [kind, device] of each in File
    File,
    Memory, Overlay,\* the devices of memory file systems and of container overlays
    Seen,           \* the devices in the mount table of a process, or of the server: Seen[0]
    Starts,         \* the states of the host when the scan begins, see HostState
    CapChoices,     \* [max_pids, max_fds] of the call
    MaxChurn,       \* bound on the number of changes
    None

Kinds == {"regular", "memfd", "device", "other"}
HostState == [alive : SUBSET Pids, open : [Pids -> [Fds -> Files \cup {None}]],
              deleted : SUBSET Files, denied : SUBSET Pids, failing : SUBSET (Pids \cup Files),
              mountinfo : BOOLEAN, proc : BOOLEAN]

ASSUME NamesAssumption == Pids \subseteq Nat \ {0} /\ Fds \subseteq Nat /\ None \notin Files \cup Pids
                          /\ Pids \cap Files = {} /\ IsFiniteSet(Pids) /\ IsFiniteSet(Fds)
ASSUME FileAssumption == \A f \in Files : File[f].kind \in Kinds
ASSUME CallAssumption == /\ Starts \subseteq HostState /\ MaxChurn \in Nat
                         /\ CapChoices \subseteq [max_pids : Nat \ {0}, max_fds : Nat \ {0}]

VARIABLES
    host,       \* what the kernel shows, see HostState; `denied` and the rest never change
    caps, expired,
    pc,
    pids, pid,  \* the processes still to be examined, in ascending order, and the current one
    fds, fd,    \* its descriptors still to be examined, and the current one
    table,      \* process_mounts: the devices in it
    link,       \* the file that readlink named
    records,    \* of a file: None, or its category, references and processes
    cut,        \* timed_out, pid_truncated or fd_truncated_processes
    refused,    \* permission_errors, scan_errors or errors
    complete,
    churn,
    kept        \* history: the <<pid, fd>> that hold a deleted file since the scan began
world == <<host, churn, kept>>
place == <<pids, pid, fds, fd>>
vars == <<world, caps, expired, pc, place, table, link, records, cut, refused, complete>>

-----------------------------------------------------------------------------
Holders(h, f) == {p \in h.alive : \E d \in Fds : h.open[p][d] = f}

Init ==
    /\ host \in Starts /\ caps \in CapChoices
    /\ expired = FALSE /\ pc = "start" /\ pids = {} /\ pid = None /\ fds = {} /\ fd = None
    /\ table = {} /\ link = None /\ records = [f \in Files |-> None]
    /\ cut = FALSE /\ refused = ~host.mountinfo /\ complete = FALSE
    /\ churn = 0 /\ kept = {k \in host.alive \X Fds : host.open[k[1]][k[2]] \in host.deleted}

-----------------------------------------------------------------------------
(* The host changes: a process exits or is forked, also under a pid that was  *)
(* used before; a descriptor is closed, or replaced by a file that has a name *)
(* or that another process hands over; a file loses its last name.            *)
Change(h, gone) ==
    /\ pc # "done" /\ churn < MaxChurn /\ churn' = churn + 1
    /\ host' = h
    /\ kept' = kept \ gone
    /\ UNCHANGED <<caps, expired, pc, place, table, link, records, cut, refused, complete>>

Closed == [d \in Fds |-> None]
Exit == \E p \in host.alive :
    Change([host EXCEPT !.alive = @ \ {p}, !.open[p] = Closed], {p} \X Fds)
Fork == \E p \in host.alive, q \in Pids \ host.alive :
    Change([host EXCEPT !.alive = @ \cup {q}, !.open[q] = host.open[p]], {})
Reopen == \E p \in host.alive, d \in Fds, f \in Files \cup {None} :
    /\ f # host.open[p][d]
    /\ f \in host.deleted => Holders(host, f) # {}
    /\ Change([host EXCEPT !.open[p][d] = f], {<<p, d>>})
Unlink == \E f \in Files \ host.deleted :
    Change([host EXCEPT !.deleted = @ \cup {f}], {})

Expire ==
    /\ pc # "done" /\ ~expired /\ expired' = TRUE
    /\ UNCHANGED <<world, caps, pc, place, table, link, records, cut, refused, complete>>

-----------------------------------------------------------------------------
(* A listing of what is there stops at a cap, and at the deadline; `late`:    *)
(* the deadline passed in the middle.                                         *)
Listings(S, cap) ==
    {r \in [seen : SUBSET S, late : BOOLEAN] :
        /\ IF r.late THEN r.seen # S /\ Cardinality(r.seen) <= cap
           ELSE Cardinality(r.seen) = Min({cap, Cardinality(S)})
        /\ expired => r.seen = {} /\ (r.late <=> S # {})}
IsCut(r, S) == r.seen # S

(* /proc is listed; an error keeps the processes that were read. *)
ListProcesses ==
    /\ pc = "start" /\ pc' = "process"
    /\ \/ /\ host.proc
          /\ \E r \in Listings(host.alive, caps.max_pids) :
                /\ pids' = r.seen /\ cut' = IsCut(r, host.alive)
                /\ expired' = (expired \/ r.late)
          /\ UNCHANGED refused
       \/ /\ ~host.proc
          /\ \E S \in SUBSET host.alive : Cardinality(S) <= caps.max_pids /\ pids' = S
          /\ refused' = TRUE /\ UNCHANGED <<cut, expired>>
    /\ UNCHANGED <<world, caps, pid, fds, fd, table, link, records, complete>>

SilentOrRefused(answer) == answer # "ok"
Silent(answer) == answer = "missing"

(* The answer to a system call on a process or one of its descriptors. *)
Answer(p, f) ==
    IF p \notin host.alive \/ f = None THEN "missing"
    ELSE IF p \in host.denied THEN "denied"
    ELSE IF {p, f} \cap host.failing # {} THEN "error" ELSE "ok"
OpenFds(p) == {d \in Fds : host.open[p][d] # None}

(* The descriptors of the next process; without them it is passed over. The   *)
(* deadline ends the whole walk.                                              *)
IsNext(n, S) == n \in S /\ \A m \in S : n <= m

ListDescriptors ==
    /\ pc = "process" /\ ~expired
    /\ \E p \in pids : LET answer == Answer(p, p) IN
          /\ IsNext(p, pids) /\ pids' = pids \ {p} /\ pid' = p
          /\ \/ /\ answer = "ok"
                /\ \E r \in Listings(OpenFds(p), caps.max_fds) :
                      /\ cut' = (cut \/ IsCut(r, OpenFds(p))) /\ expired' = r.late
                      /\ fds' = r.seen /\ pc' = IF r.late THEN "report" ELSE "mounts"
                /\ UNCHANGED refused
             \/ /\ answer # "ok" /\ refused' = (refused \/ ~Silent(answer))
                /\ UNCHANGED <<pc, fds, cut, expired>>
    /\ UNCHANGED <<world, caps, fd, table, link, records, complete>>

(* _process_mounts: the table of the process, or the server's own. *)
ReadMounts ==
    /\ pc = "mounts" /\ pc' = "link"
    /\ table' = IF Answer(pid, pid) = "ok" /\ Seen[pid] # {} THEN Seen[pid]
                ELSE IF host.mountinfo THEN Seen[0] ELSE {}
    /\ UNCHANGED <<world, caps, expired, place, link, records, cut, refused, complete>>

NextProcess ==
    /\ pc = "link" /\ fds = {} /\ pc' = "process"
    /\ UNCHANGED <<world, caps, expired, place, table, link, records, cut, refused, complete>>

(* readlink of the next descriptor: only a deleted target is looked at. *)
Readlink ==
    /\ pc = "link" /\ ~expired
    /\ \E d \in fds : LET
           f == host.open[pid][d]
           answer == IF f = None THEN "missing" ELSE Answer(pid, pid)
       IN /\ IsNext(d, fds) /\ fds' = fds \ {d} /\ fd' = d
          /\ IF answer = "ok" /\ f \in host.deleted
             THEN pc' = "stat" /\ link' = f /\ UNCHANGED refused
             ELSE refused' = (refused \/ (answer # "ok" /\ ~Silent(answer))) /\ UNCHANGED <<pc, link>>
    /\ UNCHANGED <<world, caps, expired, pids, pid, table, records, cut, complete>>

(* _deleted_category: by the name that readlink gave and by what stat says.   *)
CategoryByName(f) ==
    IF File[f].kind = "regular" /\ File[f].device \in table \ (Memory \cup Overlay)
    THEN "disk_backed_reclaimable" ELSE "other_non_disk"
Category(f) ==
    IF File[link].kind = "memfd" THEN "memfd"
    ELSE IF File[f].kind = "device" THEN "device"
    ELSE IF File[f].device \in table \cap Memory THEN "tmpfs"
    ELSE IF File[f].device \in table \cap Overlay THEN "container_overlay"
    ELSE IF File[f].kind # "regular" THEN "other_non_disk"
    ELSE IF File[f].device \notin table THEN "unknown_filesystem"
    ELSE IF f \in host.deleted THEN "disk_backed_reclaimable" ELSE "disk_backed_linked"

(* One more descriptor refers to f; the first one decides its category. *)
ReferencedLater(f, p) ==
    IF records[f] = None THEN [category |-> Category(f), references |-> 0, pids |-> {}]
    ELSE [records[f] EXCEPT !.references = @ + 1, !.pids = @ \cup {p}]
Referenced(f, p) ==
    IF records[f] = None THEN [category |-> Category(f), references |-> 1, pids |-> {p}]
    ELSE [records[f] EXCEPT !.references = @ + 1, !.pids = @ \cup {p}]

Stat ==
    /\ pc = "stat" /\ pc' = "link"
    /\ LET f == host.open[pid][fd]
           answer == Answer(pid, f)
       IN IF answer = "ok"
          THEN records' = [records EXCEPT ![f] = Referenced(f, pid)] /\ UNCHANGED refused
          ELSE refused' = (refused \/ ~Silent(answer)) /\ UNCHANGED records
    /\ UNCHANGED <<world, caps, expired, place, table, link, cut, complete>>

(* The walk is over, or the deadline passed before a process or descriptor.   *)
EndWalk ==
    /\ \/ pc = "process" /\ pids = {} /\ UNCHANGED cut
       \/ pc = "process" /\ pids # {} /\ expired /\ cut' = TRUE
       \/ pc = "link" /\ fds # {} /\ expired /\ cut' = TRUE
    /\ pc' = "report"
    /\ UNCHANGED <<world, caps, expired, place, table, link, records, refused, complete>>

Report ==
    /\ pc = "report" /\ pc' = "done"
    /\ complete' = ~(cut \/ refused)
    /\ UNCHANGED <<world, caps, expired, place, table, link, records, cut, refused>>

-----------------------------------------------------------------------------
Step == ListProcesses \/ ListDescriptors \/ ReadMounts \/ NextProcess \/ Readlink \/ Stat
        \/ EndWalk \/ Report
Next == Step \/ Exit \/ Fork \/ Reopen \/ Unlink \/ Expire
Spec == Init /\ [][Next]_vars

-----------------------------------------------------------------------------
Categories == {"memfd", "device", "tmpfs", "container_overlay", "unknown_filesystem",
               "disk_backed_reclaimable", "disk_backed_linked", "other_non_disk"}
Record == [category : Categories, references : Nat \ {0}, pids : SUBSET Pids]
ASSUME NoneAssumption == None \notin Record

TypeOK ==
    /\ host \in HostState /\ caps \in CapChoices /\ expired \in BOOLEAN
    /\ pc \in {"start", "process", "mounts", "link", "stat", "report", "done"}
    /\ pids \subseteq Pids /\ fds \subseteq Fds
    /\ pc \in {"mounts", "link", "stat"} => pid \in Pids
    /\ pc = "stat" => link \in Files /\ fd \in Fds
    /\ records \in [Files -> Record \cup {None}]
    /\ cut \in BOOLEAN /\ refused \in BOOLEAN /\ complete \in BOOLEAN
    /\ churn \in 0 .. MaxChurn /\ kept \subseteq host.alive \X Fds

(* A complete summary has every deleted file that some descriptor held open   *)
(* for the whole scan, whatever else came and went; a file with several such  *)
(* descriptors has at least as many references.                               *)
CompleteHasEveryHeld ==
    pc = "done" /\ complete => \A f \in Files :
        LET holding == {k \in kept : host.open[k[1]][k[2]] = f} IN
        holding # {} => records[f] # None /\ records[f].references >= Cardinality(holding)

(* docs/host-storage-logs.md:20, "Only disk_backed_reclaimable_bytes answers  *)
(* how much ordinary disk allocation can return when owning processes close": *)
(* what it counts is deleted and on a disk, although the name of a descriptor *)
(* and what it refers to are read one after the other.                        *)
ReclaimableIsReal ==
    \A f \in Files : records[f] # None /\ records[f].category = "disk_backed_reclaimable" =>
        /\ f \in host.deleted /\ File[f].kind = "regular"
        /\ File[f].device \notin Memory \cup Overlay

(* Why a complete summary has them: while nothing was cut or refused, the     *)
(* held descriptors that are behind the scan were counted for their file.     *)
Behind(k) ==
    /\ pc # "start" /\ k[1] \notin pids
    /\ pc \in {"mounts", "link", "stat"} /\ k[1] = pid => k[2] \notin fds
    /\ pc = "stat" => k # <<pid, fd>>
Counted(f) == {k \in kept : host.open[k[1]][k[2]] = f /\ Behind(k)}
References(f) == IF records[f] = None THEN 0 ELSE records[f].references
HeldInv == \A k \in kept : host.open[k[1]][k[2]] \in host.deleted
CountInv == ~cut /\ ~refused => \A f \in Files : Cardinality(Counted(f)) <= References(f)
EndInv ==
    /\ pc \in {"report", "done"} /\ ~cut => pids = {}
    /\ complete => pc = "done" /\ ~cut /\ ~refused
IInv == TypeOK /\ HeldInv /\ CountInv /\ EndInv /\ ReclaimableIsReal
=============================================================================

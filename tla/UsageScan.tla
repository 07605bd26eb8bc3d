------------------------------ MODULE UsageScan ------------------------------
(* scan_usage_profile of storage.py: the walk that measures one host usage    *)
(* profile, over a file system that changes under it.  The recursion of       *)
(* _scan_node is a stack of frames; every lstat and every scandir is a step,  *)
(* so files may vanish or appear between any two of them, and the deadline    *)
(* may pass before any entry.                                                 *)
EXTENDS MountTable

CONSTANTS
    Dirs,           \* the paths that are directories
    Inode, Size,    \* the inode of a path, the allocated bytes of an inode
    Late,           \* the paths that may appear during the scan
    Scenarios,      \* the hosts, profiles and faults a scan may meet, see Scenario
    HasDeadline,    \* timeout_seconds > 0
    MaxChurn        \* bound on the number of changes to the file system

(* A scenario: the mount table and whether it can be read; shows[n] is n, or  *)
(* the path whose file a bind mount shows at n; what the system calls on a    *)
(* path answer; exclude_paths and the limits of the profile.                  *)
Scenario == [lines : SUBSET Line, unreadable : BOOLEAN, shows : [Nodes -> Nodes],
             fault : [Nodes -> {"none", "lstat_denied", "lstat_error", "list_denied", "list_error"}],
             exclude_paths : SUBSET Nodes,
             max_entries : Nat, max_children : Nat, max_depth : Nat]

(* The target is on a mount of the host; mounts have ids of their own; what a *)
(* path shows of another one comes from a mount beneath the target, and lies  *)
(* there as it does at its origin.                                            *)
IsHost(s) ==
    /\ \E l \in s.lines : l.rootfs /\ PathContains(l.at, Target)
    /\ IsFiniteSet(s.lines) /\ \A l, k \in s.lines : l.id = k.id => l = k
    /\ \A n \in Nodes :
          /\ s.shows[s.shows[n]] = s.shows[n]
          /\ s.shows[n] # n => VisibleMount(n, s.lines).at \in Nodes
          /\ \A m \in Above[n] : s.shows[m] = m \/ s.shows[m] \in Above[s.shows[n]]

ASSUME TreeAssumption ==
    /\ IsFiniteSet(Nodes) /\ None \notin Nodes
    /\ Dirs \subseteq Nodes /\ Above \in [Nodes -> SUBSET Dirs]
    /\ Late \subseteq Nodes /\ \A n \in Nodes : Above[n] \cap Late # {} => n \in Late
ASSUME InodeAssumption ==
    /\ DOMAIN Inode = Nodes /\ \A n \in Nodes : Inode[n] \in DOMAIN Size
    /\ \A i \in DOMAIN Size : Size[i] \in Nat
    /\ \A n \in Dirs, m \in Nodes : Inode[n] = Inode[m] => n = m
ASSUME ScenarioAssumption ==
    /\ HasDeadline \in BOOLEAN /\ MaxChurn \in Nat
    /\ Scenarios \subseteq Scenario /\ \A s \in Scenarios : IsHost(s)

VARIABLES
    scenario,       \* chosen once
    exclusions,     \* the dictionary of excluded paths
    fs,             \* the paths that exist
    exists,         \* the target exists, cannot be examined, or is missing
    expired,        \* the deadline has passed
    pc, todo,       \* where scan_usage_profile is, and the children left to scan, in path order
    frames,         \* the calls of _scan_node and _scan_tree, innermost first
    scanned,        \* budget.entries_scanned
    seen_inodes,
    total,          \* the sums over child_results
    errors,         \* the list `errors` is not empty, or the discovery was cut short
    complete,       \* `complete` of the snapshot, once there is one
    churn,          \* changes so far
    stable, counted \* history: paths that never changed; how often each was counted
env == <<scenario, exclusions>>
world == <<fs, churn, stable>>
vars == <<env, world, exists, expired, pc, todo, frames, scanned, seen_inodes, total, errors,
          complete, counted>>

-----------------------------------------------------------------------------
Result == [size : Nat, dedup : Nat, denied : Nat, failed : Nat, truncated : BOOLEAN,
           timed_out : BOOLEAN]
NoResult == [size |-> 0, dedup |-> 0, denied |-> 0, failed |-> 0, truncated |-> FALSE,
             timed_out |-> FALSE]

(* A frame is a call of _scan_tree, with its stack and the directory whose    *)
(* scandir is due, or a call of _scan_node above the last level, with its     *)
(* leaves, its reported directories and the rest.                             *)
TreeFrame == [fn : {"tree"}, stack : Seq(Nodes), dir : Dirs \cup {None}, result : Result]
LevelFrame == [fn : {"level"}, path : Nodes, depth : Nat, stage : {"stat", "list", "calls"},
               leaves : SUBSET Nodes, dirs : SUBSET Dirs, rest : SUBSET Dirs,
               result : Result]
Tree(n) == [fn |-> "tree", stack |-> <<n>>, dir |-> None, result |-> NoResult]
Level(n, depth) == [fn |-> "level", path |-> n, depth |-> depth, stage |-> "stat",
                    leaves |-> {}, dirs |-> {}, rest |-> {}, result |-> NoResult]
CallOneDeeper(n, depth) == IF depth < 1 THEN Tree(n) ELSE Level(n, depth)
Call(n, depth) == IF depth <= 1 THEN Tree(n) ELSE Level(n, depth)

InodeOf(n) == Inode[scenario.shows[n]]
Children(n) == {m \in fs : n \in Above[m] /\ ~\E k \in Above[m] : n \in Above[k]}
TopLevel == {m \in fs : Above[m] = {}}
IsNext(n, S) == n \in S /\ \A m \in S : n <= m

Init ==
    /\ scenario \in Scenarios /\ exclusions = {}
    /\ exists \in {"yes", "no", "error"}
    /\ fs = Nodes \ Late /\ churn = 0 /\ stable = Nodes \ Late
    /\ expired = FALSE /\ pc = "start" /\ todo = {} /\ frames = <<>>
    /\ scanned = 0 /\ seen_inodes = {} /\ total = NoResult
    /\ errors = scenario.unreadable /\ complete = FALSE
    /\ counted = [n \in Nodes |-> 0]

-----------------------------------------------------------------------------
(* The file system changes while the scan runs, and the deadline passes. *)
Vanish ==
    /\ pc # "done" /\ churn < MaxChurn
    /\ \E n \in fs :
          LET subtree == {m \in Nodes : m = n \/ n \in Above[m]}
              gone == {m \in fs : m \in subtree \/ scenario.shows[m] \in subtree}
          IN /\ \A l \in scenario.lines : l.at \notin subtree
             /\ fs' = fs \ gone /\ stable' = stable \ gone
    /\ churn' = churn + 1
    /\ UNCHANGED <<env, exists, expired, pc, todo, frames, scanned, seen_inodes, total, errors,
                   complete, counted>>

Appear ==
    /\ pc # "done" /\ churn < MaxChurn
    /\ \E n \in Late \ fs : Above[n] \subseteq fs /\ fs' = fs \cup {n}
    /\ churn' = churn + 1
    /\ UNCHANGED <<env, stable, exists, expired, pc, todo, frames, scanned, seen_inodes, total,
                   errors, complete, counted>>

Expire ==
    /\ HasDeadline /\ pc \in {"discover", "scan"} /\ ~expired /\ expired' = TRUE
    /\ UNCHANGED <<env, world, exists, pc, todo, frames, scanned, seen_inodes, total, errors,
                   complete, counted>>

-----------------------------------------------------------------------------
(* _stop_reason *)
Capped == scenario.max_entries > 0 /\ scanned >= scenario.max_entries
Stop == expired \/ Capped

(* A loop over scandir reads a part of the entries, in any order: it ends at  *)
(* the last entry, at the `room` that a cap leaves, or at the entry before    *)
(* which the deadline passes.                                                 *)
Readings(entries, room) ==
    LET size == Cardinality(entries) IN
    {r \in [part : SUBSET entries, late : BOOLEAN] :
       IF r.late THEN /\ HasDeadline /\ Cardinality(r.part) < size /\ Cardinality(r.part) <= room
                      /\ expired => r.part = {}
                 ELSE /\ Cardinality(r.part) = Min({size, room})
                      /\ expired => size = 0}

(* A loop over scandir that raises keeps the entries it had read. *)
Cut(entries, room) == {part \in SUBSET entries : Cardinality(part) <= room}

Flagged(result, truncated, late) ==
    [result EXCEPT !.truncated = @ \/ truncated, !.timed_out = @ \/ late]

AbsorbForgetful(parent, child) ==
    [parent EXCEPT !.size = @ + child.size, !.dedup = @ + child.dedup, !.denied = @ + child.denied,
                   !.failed = @ + child.failed]
Absorb(parent, child) ==
    [size |-> parent.size + child.size, dedup |-> parent.dedup + child.dedup,
     denied |-> parent.denied + child.denied, failed |-> parent.failed + child.failed,
     truncated |-> parent.truncated \/ child.truncated,
     timed_out |-> parent.timed_out \/ child.timed_out]

(* lstat and scandir of a path. *)
LstatUncaught(n) == IF n \notin fs THEN "raised" ELSE "ok"
Lstat(n) == IF n \notin fs THEN "missing" ELSE IF scenario.fault[n] = "lstat_denied" THEN "denied"
            ELSE IF scenario.fault[n] = "lstat_error" THEN "error" ELSE "ok"
Scandir(n) == IF n \notin fs THEN "missing" ELSE IF scenario.fault[n] = "list_denied" THEN "denied"
              ELSE IF scenario.fault[n] = "list_error" THEN "error" ELSE "ok"
Refused(result, answer) ==
    [result EXCEPT !.denied = IF answer = "denied" THEN @ + 1 ELSE @,
                   !.failed = IF answer = "error" THEN @ + 1 ELSE @]

(* Account one path: its bytes, one entry of the budget. *)
Account(n) == scanned' = scanned + 1 /\ counted' = [counted EXCEPT ![n] = @ + 1]
NoAccount == UNCHANGED <<scanned, counted>>

(* The innermost call continues as f, calls another, or returns its result.   *)
Top == Head(frames)
Continue(f) == frames' = <<f>> \o Tail(frames) /\ UNCHANGED total
Invoke(f, g) == frames' = <<g, f>> \o Tail(frames) /\ UNCHANGED total
ReturnWith(result) ==
    IF Len(frames) = 1
    THEN frames' = <<>> /\ total' = Absorb(total, result)
    ELSE /\ frames' = <<[frames[2] EXCEPT !.result = Absorb(@, result)]>> \o Tail(Tail(frames))
         /\ UNCHANGED total
InScan(fn) == pc = "scan" /\ frames # <<>> /\ Top.fn = fn
ScanUnchanged == UNCHANGED <<env, world, exists, pc, todo, errors, complete>>

-----------------------------------------------------------------------------
(* _scan_tree *)
TreeEnd ==
    /\ InScan("tree") /\ Top.dir = None
    /\ \/ Top.stack = <<>> /\ ReturnWith(Top.result)
       \/ Top.stack # <<>> /\ Stop /\ ReturnWith(Flagged(Top.result, TRUE, expired))
    /\ NoAccount /\ UNCHANGED <<expired, seen_inodes>> /\ ScanUnchanged

(* Only a file with several links can be met again. *)
Linked(n) == n \notin Dirs /\ \E m \in fs : /\ scenario.shows[m] = m /\ m # scenario.shows[n]
                                         /\ InodeOf(m) = InodeOf(n)
SeenOnce(n) == FALSE
AlreadySeen(n) == Linked(n) /\ InodeOf(n) \in seen_inodes

TreeVisit ==
    LET n == Last(Top.stack)
        f == [Top EXCEPT !.stack = Front(@)]
        answer == Lstat(n)
    IN
    /\ InScan("tree") /\ Top.dir = None /\ Top.stack # <<>> /\ ~Stop
    /\ \/ /\ n \in exclusions \/ answer = "missing"
          /\ Continue(f) /\ NoAccount /\ UNCHANGED seen_inodes
       \/ /\ n \notin exclusions /\ answer \in {"denied", "error"}
          /\ Continue([f EXCEPT !.result = Refused(@, answer)]) /\ NoAccount /\ UNCHANGED seen_inodes
       \/ /\ n \notin exclusions /\ answer = "ok" /\ AlreadySeen(n)
          /\ Continue([f EXCEPT !.result.dedup = @ + 1]) /\ NoAccount /\ UNCHANGED seen_inodes
       \/ /\ n \notin exclusions /\ answer = "ok" /\ ~AlreadySeen(n)
          /\ Continue([f EXCEPT !.result.size = @ + Size[InodeOf(n)],
                                !.dir = IF n \in Dirs THEN n ELSE None])
          /\ Account(n)
          /\ seen_inodes' = IF Linked(n) THEN seen_inodes \cup {InodeOf(n)} ELSE seen_inodes
    /\ UNCHANGED expired /\ ScanUnchanged

(* The entries a listing may still push: the budget counts what is scanned    *)
(* and what waits on the stack.                                               *)
Room(stack, entries) ==
    IF scenario.max_entries = 0 THEN Cardinality(entries)
    ELSE Max({0, scenario.max_entries - scanned - Len(stack)})

TreeList ==
    LET n == Top.dir
        f == [Top EXCEPT !.dir = None]
        answer == Scandir(n)
        entries == Children(n)
        room == Room(Top.stack, entries)
    IN
    /\ InScan("tree") /\ Top.dir # None
    /\ \/ /\ answer = "ok"
          /\ \E r \in Readings(entries, room) : \E pushed \in SetToSeqs(r.part) :
                /\ Continue([f EXCEPT !.stack = @ \o pushed,
                                      !.result = Flagged(@, r.part # entries, r.late)])
                /\ expired' = (expired \/ r.late)
       \/ /\ answer # "ok"
          /\ \E part \in Cut(entries, IF answer = "error" THEN room ELSE 0) :
                \E pushed \in SetToSeqs(part) :
                   Continue([f EXCEPT !.stack = @ \o pushed, !.result = Refused(@, answer)])
          /\ UNCHANGED expired
    /\ NoAccount /\ UNCHANGED seen_inodes /\ ScanUnchanged

-----------------------------------------------------------------------------
(* _scan_node above the last level, _scan_level included. *)
LevelStat ==
    LET n == Top.path
        answer == Lstat(n)
    IN
    /\ InScan("level") /\ Top.stage = "stat"
    /\ \/ /\ n \in exclusions \/ answer # "ok"
          /\ ReturnWith(IF n \in exclusions THEN Top.result ELSE Refused(Top.result, answer))
          /\ NoAccount
       \/ /\ n \notin exclusions /\ answer = "ok"
          /\ LET r == [Top.result EXCEPT !.size = @ + Size[InodeOf(n)]] IN
                IF n \in Dirs THEN Continue([Top EXCEPT !.result = r, !.stage = "list"])
                ELSE ReturnWith(r)
          /\ Account(n)
    /\ UNCHANGED <<expired, seen_inodes>> /\ ScanUnchanged

(* The first max_children directories, in path order. *)
Reported(dirs) ==
    {d \in dirs : Cardinality({e \in dirs : e < d}) < Max({1, scenario.max_children})}

(* entry.is_dir may have to look at the entry: a directory that cannot be     *)
(* looked at is taken for a leaf then.                                        *)
TakenForDirs(part) == {(part \cap Dirs) \ hidden : hidden \in SUBSET {n \in part : Lstat(n) # "ok"}}

LevelList ==
    LET answer == Scandir(Top.path)
        entries == Children(Top.path)
        Loaded(part, dirs, result) ==
            [Top EXCEPT !.stage = "calls", !.leaves = part \ dirs, !.dirs = Reported(dirs),
                        !.rest = dirs \ Reported(dirs),
                        !.result = Flagged(result, Reported(dirs) # dirs, FALSE)]
    IN
    /\ InScan("level") /\ Top.stage = "list"
    /\ \/ /\ answer = "ok"
          /\ \E r \in Readings(entries, IF Capped THEN 0 ELSE Cardinality(entries)) :
                /\ \E dirs \in TakenForDirs(r.part) :
                      Continue(Loaded(r.part, dirs, Flagged(Top.result, r.part # entries, r.late)))
                /\ expired' = (expired \/ r.late)
       \/ /\ answer # "ok"
          /\ \E part \in Cut(entries, IF answer = "error" THEN Cardinality(entries) ELSE 0) :
                \E dirs \in TakenForDirs(part) :
                   Continue(Loaded(part, dirs, Refused(Top.result, answer)))
          /\ UNCHANGED expired
    /\ NoAccount /\ UNCHANGED seen_inodes /\ ScanUnchanged

(* The leaves first, in the order they were listed in, which may be any; then *)
(* the reported directories, then the directories past max_children, whose    *)
(* trees are measured but not reported one by one.                            *)
LevelCalls ==
    /\ InScan("level") /\ Top.stage = "calls"
    /\ \/ \E n \in Top.leaves : Invoke([Top EXCEPT !.leaves = @ \ {n}], Tree(n))
       \/ /\ Top.leaves = {}
          /\ \E n \in Top.dirs : /\ IsNext(n, Top.dirs)
                                 /\ Invoke([Top EXCEPT !.dirs = @ \ {n}], Call(n, Top.depth - 1))
       \/ /\ Top.leaves = {} /\ Top.dirs = {}
          /\ \E n \in Top.rest : /\ IsNext(n, Top.rest)
                                 /\ Invoke([Top EXCEPT !.rest = @ \ {n}], Tree(n))
       \/ Top.leaves = {} /\ Top.dirs = {} /\ Top.rest = {} /\ ReturnWith(Top.result)
    /\ NoAccount /\ UNCHANGED <<expired, seen_inodes>> /\ ScanUnchanged

-----------------------------------------------------------------------------
(* scan_usage_profile: a missing target is a complete answer, unless the      *)
(* mount table could not be read; one that cannot be examined never is.       *)
Mounts == IF scenario.unreadable THEN {} ELSE Parsed(scenario.lines)
Begin ==
    /\ pc = "start"
    /\ \/ /\ exists = "yes" /\ pc' = "discover"
          /\ errors' = (OwningMount(Target, Mounts) = None)
          /\ exclusions' = Exclusions(scenario.exclude_paths,
                                     VisibleMount(Target, scenario.lines).device, Mounts)
          /\ UNCHANGED complete
       \/ /\ exists # "yes" /\ pc' = "done"
          /\ complete' = (exists = "no" /\ ~scenario.unreadable)
          /\ UNCHANGED <<errors, exclusions>>
    /\ UNCHANGED <<scenario, world, exists, expired, todo, frames, scanned, seen_inodes, total,
                   counted>>

(* The immediate children, up to max_children; an OSError cuts the list. *)
Discover ==
    /\ pc = "discover"
    /\ \/ \E r \in Readings(TopLevel, Max({1, scenario.max_children})) :
             /\ todo' = r.part
             /\ total' = Flagged(total, r.part # TopLevel, r.late)
             /\ expired' = (expired \/ r.late)
             /\ UNCHANGED errors
       \/ \E part \in Cut(TopLevel, Max({1, scenario.max_children})) :
             todo' = part /\ errors' = TRUE /\ UNCHANGED <<total, expired>>
    /\ pc' = "scan"
    /\ UNCHANGED <<env, world, exists, frames, scanned, seen_inodes, complete, counted>>

NextChild ==
    /\ pc = "scan" /\ frames = <<>>
    /\ \E n \in todo : /\ IsNext(n, todo) /\ todo' = todo \ {n}
                       /\ frames' = <<Call(n, scenario.max_depth)>>
    /\ UNCHANGED <<env, world, exists, expired, pc, scanned, seen_inodes, total, errors, complete,
                   counted>>

Finish ==
    /\ pc = "scan" /\ frames = <<>> /\ todo = {}
    /\ pc' = "done"
    /\ complete' = ~(errors \/ total.denied > 0 \/ total.failed > 0 \/ total.truncated)
    /\ UNCHANGED <<env, world, exists, expired, todo, frames, scanned, seen_inodes, total, errors,
                   counted>>

-----------------------------------------------------------------------------
Step == Begin \/ Discover \/ NextChild \/ TreeEnd \/ TreeVisit \/ TreeList
        \/ LevelStat \/ LevelList \/ LevelCalls \/ Finish
Next == Step \/ Vanish \/ Appear \/ Expire
Spec == Init /\ [][Next]_vars

(* The worker thread is scheduled and no system call blocks for ever. *)
FairSpec == Spec /\ WF_vars(Step)

-----------------------------------------------------------------------------
TypeOK ==
    /\ scenario \in Scenarios /\ exclusions \subseteq Nodes
    /\ fs \subseteq Nodes /\ stable \subseteq fs /\ churn \in 0 .. MaxChurn
    /\ exists \in {"yes", "no", "error"} /\ expired \in BOOLEAN
    /\ pc \in {"start", "discover", "scan", "done"}
    /\ todo \subseteq Nodes /\ scanned \in Nat /\ total \in Result
    /\ frames \in Seq(TreeFrame \cup LevelFrame)
    /\ \A i \in DOMAIN frames :
          frames[i].fn = "level" => frames[i].depth \in 2 .. scenario.max_depth
    /\ seen_inodes \subseteq {Inode[n] : n \in Nodes}
    /\ errors \in BOOLEAN /\ complete \in BOOLEAN
    /\ counted \in [Nodes -> Nat]

Done == pc = "done" /\ exists = "yes"
InScope(n) == (Above[n] \cup {n}) \cap exclusions = {}

(* A snapshot that calls itself complete has measured every inode that was on *)
(* the mount of the target, outside the configured exclusions, for the whole  *)
(* scan: no refusal, cap, deadline or cut listing is lost on the way up       *)
(* through the frames, and no mount hides what is not its own.  A mount of    *)
(* the container itself would: it is taken for one of the host.               *)
OnTargetMount(n) ==
    /\ \A l \in scenario.lines : l.at \in Above[n] \cup {n} => l.rootfs
    /\ VisibleMount(n, scenario.lines) = VisibleMount(Target, scenario.lines)
    /\ (Above[n] \cup {n}) \cap scenario.exclude_paths = {}
CompleteIsExact ==
    Done /\ complete => \A n \in stable : OnTargetMount(n) =>
        \E m \in Nodes : InodeOf(m) = InodeOf(n) /\ counted[m] > 0

(* What mounts show twice is measured once, and other file systems not at all *)
(* (docs/host-storage-snapshot.md:19, "Other filesystems are excluded.        *)
(* Same-filesystem bind or subtree mounts are reported and skipped").         *)
MountsCountOnce ==
    ~scenario.unreadable =>
        /\ \A n, m \in Nodes : n # m /\ scenario.shows[n] = scenario.shows[m] =>
              counted[n] + counted[m] <= 1
        /\ \A n \in Nodes : VisibleMount(n, scenario.lines).device
                             # VisibleMount(Target, scenario.lines).device => counted[n] = 0

(* No path is measured twice, nothing beneath an exclusion is, the totals add *)
(* up to what was measured, and mounts do not repeat what they show, if the   *)
(* record taken for the owner of the profile is that of the mount the walk    *)
(* sees, and it mounts a whole file system.                                   *)
CountedOnce ==
    /\ \A n \in Nodes : counted[n] <= IF InScope(n) THEN 1 ELSE 0
    /\ Done => /\ total.size = SumFunction([n \in Nodes |-> counted[n] * Size[InodeOf(n)]])
               /\ scanned = SumFunction(counted)
    /\ LET owner == OwningMount(Target, Mounts) IN
       owner # None /\ owner = VisibleMount(Target, scenario.lines) /\ owner.root = "/"
           => MountsCountOnce

(* Of two hard links that both stay in place, at most one is measured by a    *)
(* profile that reports one level: the inodes that one walk has seen carry    *)
(* over to the walks of the other children of the target.                     *)
FlatHardlinksCountOnce ==
    scenario.max_depth <= 1 => \A n, m \in {k \in stable : scenario.shows[k] = k} :
        n # m /\ Inode[n] = Inode[m] => counted[n] + counted[m] <= 1

(* docs/host-storage-profiles.md:8, "Depth changes reporting granularity,     *)
(* never the walk: totals and entry counts are identical at every depth": of  *)
(* a tree that does not change, every scan without a cap measures each inode  *)
(* once, as the one that reports one level does, and none exceeds its cap.    *)
DepthChangesNoCount ==
    Done /\ ~errors => IF scenario.max_entries = 0
            THEN scanned = Cardinality({InodeOf(n) : n \in {m \in Nodes : InScope(m)}})
            ELSE scanned <= scenario.max_entries

(* The walk ends, whatever the system calls answer. *)
ScanEnds == <>(pc = "done")

-----------------------------------------------------------------------------
(* What a frame is still to look at: the paths that it waits to visit, and    *)
(* what lies beneath those and beneath the directory that it is about to list.*)
Due(f) ==
    CASE f.fn = "tree" -> ToSet(f.stack)
      [] f.fn = "level" /\ f.stage = "stat" -> {f.path}
      [] f.fn = "level" /\ f.stage = "list" -> {}
      [] f.fn = "level" /\ f.stage = "calls" -> f.leaves \cup f.dirs \cup f.rest
Opened(f) == IF f.fn = "tree" THEN {f.dir} \ {None} ELSE IF f.stage = "list" THEN {f.path} ELSE {}
Under(S) == {m \in Nodes : Above[m] \cap S # {}}
Rest(f) == Due(f) \cup Under(Due(f) \cup Opened(f))
LeftOf(fr, td) == td \cup Under(td) \cup UNION {Rest(fr[i]) : i \in DOMAIN fr}
Left == LeftOf(frames, todo)

(* No path is due twice, neither in its own right nor beneath another one.    *)
Apart(S) == \A n, m \in S : n \notin Above[m]
Tidy(f, excluded) ==
    /\ Apart(Due(f) \cup Opened(f)) /\ Due(f) \cap Opened(f) = {}
    /\ f.fn = "tree" => \A i, j \in DOMAIN f.stack : f.stack[i] = f.stack[j] => i = j
    /\ f.fn = "level" => f.dirs \cap f.rest = {} /\ f.leaves \cap (f.dirs \cup f.rest) = {}
    /\ Under(excluded) \cap (Due(f) \cup Opened(f)) = {} /\ excluded \cap Opened(f) = {}
Separate(fr, td, excluded) ==
    /\ \A n \in td : Above[n] = {}
    /\ \A i \in DOMAIN fr : Tidy(fr[i], excluded)
    /\ \A i, j \in DOMAIN fr : i # j => Rest(fr[i]) \cap Rest(fr[j]) = {}
    /\ \A i \in DOMAIN fr : Rest(fr[i]) \cap (td \cup Under(td)) = {}

(* What is in the results of the frames and in the total is what was counted. *)
SizesOf(fr) == [i \in DOMAIN fr |-> fr[Len(fr) + 1 - i].result.size]
CountInv ==
    /\ \A n \in Nodes : counted[n] <= IF InScope(n) THEN 1 ELSE 0
    /\ \A n \in Left : counted[n] = 0
    /\ scanned = SumFunction(counted)
    /\ total.size + SumFunction(SizesOf(frames))
       = SumFunction([n \in Nodes |-> counted[n] * Size[InodeOf(n)]])

(* Unless something was refused or cut, what is not measured is still due.    *)
Flaw(result) == result.denied > 0 \/ result.failed > 0 \/ result.truncated
Flawed == errors \/ Flaw(total) \/ \E i \in DOMAIN frames : Flaw(frames[i].result)
Measured(i) == \E m \in Nodes : InodeOf(m) = i /\ counted[m] > 0
CoverInv ==
    /\ \A n \in fs : Above[n] \subseteq fs
    /\ \A i \in seen_inodes : Measured(i)
    /\ pc \in {"scan", "done"} /\ exists = "yes" =>
          Flawed \/ \A n \in stable : InScope(n) => Measured(InodeOf(n)) \/ n \in Left

(* With one reported level, the walks of all children share what they saw.    *)
FlatInv ==
    scenario.max_depth <= 1 => \A n, m \in {k \in stable : scenario.shows[k] = k} :
        n # m /\ Inode[n] = Inode[m] /\ counted[n] > 0 =>
            counted[m] = 0 /\ Inode[n] \in seen_inodes

PhaseInv ==
    /\ pc # "scan" => frames = <<>> /\ todo = {}
    /\ pc \in {"start", "discover"} \/ exists # "yes" =>
          counted = [n \in Nodes |-> 0] /\ seen_inodes = {} /\ scanned = 0 /\ total = NoResult
    /\ pc \in {"discover", "scan"} => exists = "yes"
    /\ pc # "start" /\ exists = "yes" =>
          /\ exclusions = Exclusions(scenario.exclude_paths,
                                     VisibleMount(Target, scenario.lines).device, Mounts)
          /\ scenario.unreadable => errors
    /\ pc = "done" /\ exists = "yes" /\ complete => ~Flawed
IInv == TypeOK /\ PhaseInv /\ Separate(frames, todo, exclusions) /\ CountInv /\ CoverInv /\ FlatInv
=============================================================================

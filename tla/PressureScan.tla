---------------------------- MODULE PressureScan ----------------------------
(* get_pressure_path_usage of server.py: the configured roots are coalesced,  *)
(* their children discovered root by root, and every child is walked by       *)
(* _du_path with an entry and a time slice of its own.  The file system       *)
(* changes between any two system calls.                                      *)
EXTENDS Integers, Sequences, FiniteSets, SequencesExt

CONSTANTS
    Nodes,          \* the paths of the host, numbered in path order
    Above,          \* Above[n]: the paths that contain n
    Dirs,           \* the paths that are directories
    Links,          \* the paths that are symbolic links
    Configured,     \* _PRESSURE_PATHS, as a set
    Foreign,        \* the paths on another file system than the roots
    Late,           \* the paths that may appear during the scan
    FaultChoices,   \* what the system calls on a path may answer
    LimitChoices,   \* [max_children, max_entries, total] of a call
    MaxChurn,       \* bound on the number of changes to the file system
    None

Result == [exists : BOOLEAN, entries : Nat, refused : BOOLEAN, truncated : BOOLEAN]
Flags == [refused : BOOLEAN, truncated : BOOLEAN]

ASSUME TreeAssumption ==
    /\ Nodes \subseteq Nat /\ IsFiniteSet(Nodes) /\ None \notin Nodes /\ None \notin Result
    /\ Dirs \subseteq Nodes /\ Links \subseteq Nodes \ Dirs /\ Foreign \subseteq Nodes
    /\ Above \in [Nodes -> SUBSET Dirs]
    /\ \A n \in Nodes : /\ n \notin Above[n]
                        /\ \A m \in Above[n] : Above[m] \subseteq Above[n]
                        /\ \A m, k \in Above[n] : m = k \/ m \in Above[k] \/ k \in Above[m]
    /\ Late \subseteq Nodes /\ \A n \in Nodes : Above[n] \cap Late # {} => n \in Late
ASSUME CallAssumption ==
    /\ Configured \subseteq Nodes \ Foreign /\ MaxChurn \in Nat
    /\ FaultChoices \subseteq [Nodes -> {"none", "lstat_denied", "lstat_error",
                                         "list_denied", "list_error"}]
    /\ LimitChoices \subseteq [max_children : Nat \ {0}, max_entries : Nat \ {0}, total : Nat \ {0}]

VARIABLES
    fault, limits,  \* chosen once
    fs,             \* the paths that exist
    expired,        \* the time slice of the child that is walked has passed
    pc,
    roots,          \* the roots still to be discovered
    opened,         \* the root that is about to be listed, or None
    found,          \* found[r]: the children discovered beneath r
    flags,          \* flags[r]: what went wrong when r was discovered
    todo,           \* the children still to be scanned
    slice,          \* max_entries_per_child
    child, stack, list, result,     \* the call of _du_path
    scans,          \* scans[c]: the result of the scan of child c, or None
    report,         \* report[r]: the flags of root r in the answer
    churn,
    stable, counted, late   \* history: unchanged paths, measured paths, children out of time
host == <<fs, churn, stable>>
call == <<child, stack, list, result>>
plan == <<fault, limits, roots, opened, found, flags, slice>>
vars == <<host, call, plan, expired, pc, todo, scans, report, counted, late>>

-----------------------------------------------------------------------------
NoResult == [exists |-> TRUE, entries |-> 0, refused |-> FALSE, truncated |-> FALSE]
NoFlags == [refused |-> FALSE, truncated |-> FALSE]

Children(n) == {m \in fs : n \in Above[m] /\ ~\E k \in Above[m] : n \in Above[k]}
IsNext(n, S) == n \in S /\ \A m \in S : n <= m

(* _coalesced_pressure_paths: a root that another one covers is skipped. *)
ScanRoots == {r \in Configured : Above[r] \cap Configured = {}}

Init ==
    /\ fault \in FaultChoices /\ limits \in LimitChoices
    /\ fs = Nodes \ Late /\ churn = 0 /\ stable = Nodes \ Late
    /\ expired = FALSE /\ pc = "discover"
    /\ roots = ScanRoots /\ opened = None
    /\ found = [r \in ScanRoots |-> {}] /\ flags = [r \in ScanRoots |-> NoFlags]
    /\ todo = {} /\ slice = 0
    /\ child = None /\ stack = <<>> /\ list = {} /\ result = NoResult
    /\ scans = [n \in Nodes |-> None] /\ report = [r \in ScanRoots |-> NoFlags]
    /\ counted = {} /\ late = {}

-----------------------------------------------------------------------------
Vanish ==
    /\ pc # "done" /\ churn < MaxChurn /\ churn' = churn + 1
    /\ \E n \in fs : LET gone == {m \in fs : m = n \/ n \in Above[m]} IN
          fs' = fs \ gone /\ stable' = stable \ gone
    /\ UNCHANGED <<call, plan, expired, pc, todo, scans, report, counted, late>>

Appear ==
    /\ pc # "done" /\ churn < MaxChurn /\ churn' = churn + 1
    /\ \E n \in Late \ fs : Above[n] \subseteq fs /\ fs' = fs \cup {n}
    /\ UNCHANGED <<call, plan, expired, pc, todo, scans, report, stable, counted, late>>

Expire ==
    /\ child # None /\ ~expired /\ expired' = TRUE /\ late' = late \cup {child}
    /\ UNCHANGED <<host, call, plan, pc, todo, scans, report, counted>>

-----------------------------------------------------------------------------
Lstat(n) == IF n \notin fs THEN "missing" ELSE IF fault[n] = "lstat_denied" THEN "denied"
            ELSE IF fault[n] = "lstat_error" THEN "error" ELSE "ok"
Scandir(n) == IF n \notin fs THEN "missing" ELSE IF fault[n] = "list_denied" THEN "denied"
              ELSE IF fault[n] = "list_error" THEN "error" ELSE "ok"
Refuses(answer) == answer \in {"denied", "error"}

(* _pressure_root_children: the next root is looked at, and what it is.       *)
Finds(r, part, refused, truncated) ==
    /\ roots' = roots \ {r} /\ opened' = None
    /\ found' = [found EXCEPT ![r] = part]
    /\ flags' = [flags EXCEPT ![r] = [refused |-> refused, truncated |-> truncated]]

DiscoverRoot ==
    /\ pc = "discover" /\ opened = None
    /\ \E r \in roots :
          /\ IsNext(r, roots)
          /\ \/ Lstat(r) # "ok" /\ Finds(r, {}, Refuses(Lstat(r)), FALSE)
             \/ Lstat(r) = "ok" /\ r \notin Dirs /\ Finds(r, {r}, FALSE, FALSE)
             \/ /\ Lstat(r) = "ok" /\ r \in Dirs
                /\ opened' = r /\ UNCHANGED <<roots, found, flags>>
    /\ UNCHANGED <<host, call, fault, limits, slice, expired, pc, todo, scans, report, counted, late>>

(* It is listed if it is a directory.  Its time slice, the cap or an error    *)
(* may end the listing with only a part of the children; a root that went in  *)
(* between is no error.                                                       *)
ListRoot ==
    /\ opened # None
    /\ LET answer == Scandir(opened)
           size == Cardinality(Children(opened))
           kept == Min({size, limits.max_children})
       IN \E part \in SUBSET Children(opened) :
          \/ /\ answer = "ok" /\ Cardinality(part) <= kept
             /\ Finds(opened, part, FALSE, Cardinality(part) < size)
          \/ /\ answer # "ok" /\ Cardinality(part) <= IF answer = "error" THEN kept ELSE 0
             /\ Finds(opened, part, Refuses(answer), FALSE)
    /\ UNCHANGED <<host, call, fault, limits, slice, expired, pc, todo, scans, report, counted, late>>

(* The first children of all roots, then the second ones, and so on. *)
Discovered == UNION {found[r] : r \in ScanRoots}
RootOf(c) == CHOOSE r \in ScanRoots : c \in found[r]
Round(c) == Cardinality({d \in found[RootOf(c)] : d < c})
Precedes(c, d) == Round(c) < Round(d) \/ (Round(c) = Round(d) /\ RootOf(c) < RootOf(d))
FirstOf(total) == {c \in Discovered : Cardinality({d \in Discovered : Precedes(d, c)}) < total}

(* _scan_pressure_children: no more children than the total budget has        *)
(* entries, and an equal share of it for each; the rest is marked.            *)
EveryChild(total) == 10 * total
Selected(total) == total
EntrySliceUncapped(count) == Max({1, limits.total \div count})
EntrySlice(count) == Max({1, Min({limits.max_entries, Max({1, limits.total \div count})})})
Unscanned == [NoResult EXCEPT !.truncated = TRUE]

Plan ==
    /\ pc = "discover" /\ roots = {}
    /\ todo' = FirstOf(Selected(limits.total))
    /\ slice' = IF todo' = {} THEN 0 ELSE EntrySlice(Cardinality(todo'))
    /\ scans' = [n \in Nodes |-> IF n \in Discovered \ todo' THEN Unscanned ELSE None]
    /\ pc' = "scan"
    /\ UNCHANGED <<host, call, fault, limits, roots, opened, found, flags>>
    /\ UNCHANGED <<expired, report, counted, late>>

-----------------------------------------------------------------------------
(* _du_path *)
Enter(c) == stack' = <<c>> /\ child' = c /\ UNCHANGED scans
Leave(c, r) == scans' = [scans EXCEPT ![c] = r] /\ child' = None /\ stack' = <<>>

(* path.exists() follows a link, which may lead nowhere or where it cannot be *)
(* looked: the child is there, and the answer says that it does not exist.    *)
Exists(n) == IF Lstat(n) = "ok" /\ n \in Links THEN {"ok", "missing", "error"} ELSE {Lstat(n)}
NotThere(answer) == [NoResult EXCEPT !.exists = FALSE, !.refused = Refuses(answer)]

StartChild ==
    /\ pc = "scan" /\ child = None
    /\ \E c \in todo : \E answer \in Exists(c) :
          /\ \A d \in todo : ~Precedes(d, c)
          /\ todo' = todo \ {c}
          /\ IF answer = "ok" THEN Enter(c) ELSE Leave(c, NotThere(answer))
    /\ result' = NoResult /\ list' = {} /\ expired' = FALSE
    /\ UNCHANGED <<host, plan, pc, report, counted, late>>

EndChild ==
    /\ child # None /\ list = {} /\ (stack = <<>> \/ expired)
    /\ Leave(child, [result EXCEPT !.truncated = @ \/ stack # <<>>])
    /\ UNCHANGED <<host, plan, list, result, expired, pc, todo, report, counted, late>>

(* The next path: its entry is counted before the cap is looked at, so that   *)
(* the walk is cut at the cap even if nothing is left.                        *)
FullTogether(entries) == Cardinality(counted) + 1 >= slice
Full(entries) == entries >= slice
Visit ==
    /\ child # None /\ list = {} /\ stack # <<>> /\ ~expired
    /\ LET n == Last(stack)
           r == [result EXCEPT !.entries = @ + 1]
       IN \/ /\ Lstat(n) # "ok"
             /\ result' = [result EXCEPT !.refused = @ \/ Refuses(Lstat(n))]
             /\ stack' = Front(stack) /\ UNCHANGED <<list, counted, child, scans>>
          \/ /\ Lstat(n) = "ok" /\ n \in Foreign
             /\ stack' = Front(stack) /\ UNCHANGED <<result, list, counted, child, scans>>
          \/ /\ Lstat(n) = "ok" /\ n \notin Foreign /\ counted' = counted \cup {n}
             /\ IF Full(r.entries)
                THEN Leave(child, [r EXCEPT !.truncated = TRUE]) /\ UNCHANGED <<result, list>>
                ELSE /\ result' = r /\ stack' = Front(stack)
                     /\ list' = IF n \in Dirs THEN {n} ELSE {}
                     /\ UNCHANGED <<child, scans>>
    /\ UNCHANGED <<host, plan, expired, pc, todo, report, late>>

(* The entries of a directory, in whichever order, up to the one before which *)
(* time runs out or reading fails.                                            *)
List ==
    /\ list # {}
    /\ \E n \in list : LET
           answer == Scandir(n)
           entries == Children(n)
       IN \E part \in SUBSET entries :
          /\ expired => part = {}
          /\ \E pushed \in SetToSeqs(part) : stack' = stack \o pushed
          /\ \/ /\ answer = "ok"
                /\ result' = [result EXCEPT !.truncated = @ \/ part # entries]
                /\ expired' = (expired \/ part # entries)
                /\ late' = IF part # entries THEN late \cup {child} ELSE late
             \/ /\ answer # "ok" /\ (answer # "error" => part = {})
                /\ result' = [result EXCEPT !.refused = @ \/ Refuses(answer)]
                /\ UNCHANGED <<expired, late>>
    /\ list' = {}
    /\ UNCHANGED <<host, plan, pc, todo, scans, report, counted, child>>

(* The answer: a root is flagged for its discovery and for its children. *)
DiscoveryFlags(r) == [refused |-> flags[r].refused \/ \E c \in found[r] : scans[c].refused,
                   truncated |-> flags[r].truncated]
RootFlags(r) ==
    [refused |-> flags[r].refused \/ \E c \in found[r] : scans[c].refused,
     truncated |-> flags[r].truncated \/ \E c \in found[r] : scans[c].truncated]

Report ==
    /\ pc = "scan" /\ child = None /\ todo = {}
    /\ pc' = "done" /\ report' = [r \in ScanRoots |-> RootFlags(r)]
    /\ UNCHANGED <<host, call, plan, expired, todo, scans, counted, late>>

-----------------------------------------------------------------------------
Step == DiscoverRoot \/ ListRoot \/ Plan \/ StartChild \/ EndChild \/ Visit \/ List \/ Report
Next == Step \/ Vanish \/ Appear \/ Expire
Spec == Init /\ [][Next]_vars

-----------------------------------------------------------------------------
TypeOK ==
    /\ fault \in FaultChoices /\ limits \in LimitChoices
    /\ fs \subseteq Nodes /\ stable \subseteq fs /\ churn \in 0 .. MaxChurn
    /\ pc \in {"discover", "scan", "done"} /\ expired \in BOOLEAN
    /\ roots \subseteq ScanRoots /\ opened \in roots \cup {None} /\ found \in [ScanRoots -> SUBSET Nodes]
    /\ flags \in [ScanRoots -> Flags] /\ report \in [ScanRoots -> Flags]
    /\ todo \subseteq Nodes /\ slice \in 0 .. limits.max_entries
    /\ child \in Nodes \cup {None} /\ stack \in Seq(Nodes)
    /\ list \subseteq Dirs /\ Cardinality(list) <= 1
    /\ result \in Result /\ scans \in [Nodes -> Result \cup {None}]
    /\ counted \subseteq Nodes /\ late \subseteq Nodes

Scanned == {n \in Nodes : scans[n] # None}
Entries == [n \in Nodes |-> IF n \in Scanned THEN scans[n].entries ELSE 0]
Family(c) == {m \in Nodes : m = c \/ c \in Above[m]}
Subtree(c) == {m \in stable \cap Family(c) : (Above[m] \cup {m}) \cap Foreign = {}}

(* docs/configuration-scans.md:9, "shared traversal cap across all pressure   *)
(* children in one request": the entries of all children together stay within *)
(* it, and are as many as there are paths measured, so that none counts for   *)
(* two roots.                                                                 *)
TotalBudgetKept ==
    child = None => LET sum == SumFunction(Entries) IN
        sum = Cardinality(counted) /\ sum <= limits.total

(* docs/tools-host.md:10, "preventing a large root or child from starving     *)
(* siblings": a child that fits its slice, could be read, was not out of time *)
(* and was among those selected, is measured whole, whatever the others held; *)
(* all but a link that was found to lead nowhere.                             *)
NoChildIsStarved ==
    pc = "done" => \A c \in Scanned \ late :
        /\ scans[c] # Unscanned /\ ~scans[c].refused /\ Cardinality(Family(c)) < slice
        /\ scans[c].exists \/ c \notin Links
        => Subtree(c) \subseteq counted /\ ~scans[c].truncated

(* A root that is neither truncated nor has errors in the answer has every    *)
(* path of its file system measured that was beneath it all the time, but for *)
(* the links directly beneath it whose results say that they do not exist.    *)
Broken(r) == {c \in found[r] \cap Links : ~scans[c].exists}
RootIsExact ==
    pc = "done" => \A r \in ScanRoots :
        report[r] = NoFlags => Subtree(r) \ {r} \subseteq counted \cup Broken(r)

(* What a scan relies on: the paths still to be looked at are divided over    *)
(* the children and the stack, none of them was counted before, and what lies *)
(* beneath a root, a child or a path of the walk is counted or still to come  *)
(* unless there is a flag for it.                                             *)
Under(S) == {m \in Nodes : Above[m] \cap S # {}}
Apart(S) == \A n, m \in S : n \notin Above[m]
ScanRest == ToSet(stack) \cup Under(ToSet(stack) \cup list)
Left == todo \cup Under(todo) \cup ScanRest
Missed(c, r) == IF r.exists THEN {} ELSE Links \cap {c}
IsClean(flagged) == ~flagged.refused /\ ~flagged.truncated

TreeInv == \A n \in fs : Above[n] \subseteq fs
DiscoverInv ==
    /\ pc = "discover" => todo = {} /\ child = None /\ counted = {} /\ Scanned = {}
    /\ pc # "discover" => roots = {}
    /\ \A r \in roots : found[r] = {}
    /\ \A r \in ScanRoots : found[r] \subseteq Family(r) /\ Apart(found[r])
    /\ \A r \in ScanRoots \ roots : IsClean(flags[r]) =>
          \A m \in Subtree(r) \ {r} : \E c \in found[r] : m \in Family(c)
PlanInv ==
    /\ todo \subseteq Discovered /\ child \notin todo
    /\ child # None => child \in Discovered
    /\ pc # "discover" => Scanned = Discovered \ (todo \cup {child})
    /\ todo # {} \/ child # None => slice > 0
CallInv ==
    /\ child = None => stack = <<>> /\ list = {}
    /\ child # None => /\ ToSet(stack) \cup list \subseteq Family(child)
                       /\ result.entries = Cardinality(counted \cap Family(child))
                       /\ result.entries < slice
    /\ \A i, j \in DOMAIN stack : stack[i] = stack[j] => i = j
    /\ ToSet(stack) \cap list = {} /\ Apart(ToSet(stack) \cup list)
    /\ counted \cap Left = {}
BudgetInv ==
    LET open == IF child = None THEN 0 ELSE result.entries
        due == IF child = None THEN Cardinality(todo) ELSE Cardinality(todo) + 1
    IN  /\ SumFunction(Entries) + open = Cardinality(counted)
        /\ SumFunction(Entries) + slice * due <= limits.total
CoverInv ==
    /\ \A c \in Scanned : IsClean(scans[c]) => Subtree(c) \subseteq counted \cup Missed(c, scans[c])
    /\ child # None /\ IsClean(result) => Subtree(child) \subseteq counted \cup ScanRest
FairInv ==
    /\ \A c \in Scanned \ late :
          scans[c] # Unscanned /\ Cardinality(Family(c)) < slice => ~scans[c].truncated
    /\ child # None /\ child \notin late => ~expired /\ ~result.truncated
ReportInv ==
    pc = "done" => todo = {} /\ child = None /\ report = [r \in ScanRoots |-> RootFlags(r)]
IInv == TypeOK /\ TreeInv /\ DiscoverInv /\ PlanInv /\ CallInv /\ BudgetInv /\ CoverInv
        /\ FairInv /\ ReportInv
=============================================================================

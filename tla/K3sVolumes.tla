----------------------------- MODULE K3sVolumes -----------------------------
(* get_k3s_volume_usage of server.py: pods, claims and volumes are listed     *)
(* page by page from the API server, joined, looked up beneath the configured *)
(* roots and measured.  Claims, volumes and their directories come and go     *)
(* between any two of these steps.                                            *)
EXTENDS Integers, FiniteSets, FiniteSetsExt, Functions

CONSTANTS
    Pods, Claims, Volumes,  \* numbered in the order of their names
    Uses,           \* Uses[p]: the claims that pod p mounts
    Namespace,      \* Namespace[c] of a claim, in the order of the claims
    PathOf,         \* PathOf[v]: the path a volume names, or None
    Nodes,          \* the paths of the host, numbered in path order
    Above,          \* Above[n]: the paths that contain n
    Dirs,           \* the nodes that are directories
    Device,         \* Device[n]: the file system n is on
    Roots,          \* _K3S_VOLUME_ROOTS
    Starts,         \* the clusters a call may find, see Cluster
    LimitChoices,   \* [paths, max_entries, total] of the call
    PageSize,       \* 500
    MaxChurn, MaxFaults,    \* bounds on the changes and on the failures
    None

Cluster == [pods : SUBSET Pods, claims : SUBSET Claims, volumes : SUBSET Volumes,
            bound : [Claims -> Volumes \cup {None}],    \* spec.volumeName of a claim
            ref : [Volumes -> Claims \cup {None}],      \* spec.claimRef of a volume
            files : SUBSET Nodes]
Scans == [what : SUBSET Nodes, partial : BOOLEAN]

ASSUME NamesAssumption ==
    /\ Pods \subseteq Nat /\ Claims \subseteq Nat \ {0} /\ Volumes \subseteq Nat \ {0}
    /\ Nodes \subseteq Nat /\ IsFiniteSet(Claims) /\ IsFiniteSet(Nodes)
    /\ None \notin Nat /\ None \notin Scans
    /\ Uses \in [Pods -> SUBSET Claims] /\ PathOf \in [Volumes -> Nodes \cup {None}]
    /\ \A c, d \in Claims : c < d => Namespace[c] <= Namespace[d]
    /\ Roots \subseteq Nodes /\ Dirs \subseteq Nodes /\ Above \in [Nodes -> SUBSET Nodes]
    /\ \A n \in Nodes : n \notin Above[n] /\ \A m \in Above[n] : Above[m] \subseteq Above[n]
    /\ \A n \in Nodes : \A k, m \in Above[n] : k = m \/ k \in Above[m] \/ m \in Above[k]
ASSUME CallAssumption ==
    /\ Starts \subseteq Cluster /\ \A s \in Starts : \A n \in s.files : Above[n] \subseteq s.files
    /\ PageSize \in Nat \ {0} /\ {MaxChurn, MaxFaults} \subseteq Nat
    /\ LimitChoices \subseteq [paths : Nat \ {0}, max_entries : Nat \ {0}, total : Nat \ {0}]

VARIABLES
    cluster, limits,
    pc,         \* the list that is read, or "discover", "plan", "scan", "done", "raised"
    page,       \* the items of that list still to come, or None before its first page
    items,      \* items[l]: what list l returned
    errors,     \* `errors` is not empty
    roots, children, cut,   \* the roots to discover, what was found, discovery_truncated
    todo,       \* the paths still to be scanned
    slice,      \* max_entries_per_volume
    scans,      \* scans[n]: the result of the scan of path n, or None
    answer,     \* what the call returns, or None
    churn, faults,
    stable      \* history: what has not changed since the call began
world == <<cluster, churn, stable>>
listing == <<page, items>>
search == <<roots, children, cut>>
vars == <<world, limits, pc, listing, errors, search, todo, slice, scans, answer, faults>>

-----------------------------------------------------------------------------
Lists == {"pods", "claims", "volumes"}
After(l) == CASE l = "pods" -> "claims" [] l = "claims" -> "volumes" [] l = "volumes" -> "discover"
Subtree(h, n) == {m \in h : m = n \/ n \in Above[m]}
(* Of it, what is reached without leaving the file system n is on.            *)
OnDevice(h, n) ==
    {m \in Subtree(h, n) : \A k \in {m} \cup Above[m] : k \in Subtree(Nodes, n) => Device[k] = Device[n]}
(* The directories directly beneath n. *)
Children(h, n) == {m \in h \cap Dirs : n \in Above[m] /\ ~\E k \in Above[m] : n \in Above[k]}
Beneath(n) == n # None /\ Above[n] \cap Roots # {}

(* The items of a list, as _normalize_pvc and _normalize_pv keep them. *)
Objects(l) ==
    CASE l = "pods" -> cluster.pods
      [] l = "claims" -> {[claim |-> c, volume |-> cluster.bound[c]] : c \in cluster.claims}
      [] l = "volumes" -> {[claim |-> cluster.ref[v], volume |-> v] : v \in cluster.volumes}

Init ==
    /\ cluster \in Starts /\ limits \in LimitChoices
    /\ pc = "pods" /\ page = None /\ items = [l \in Lists |-> {}] /\ errors = FALSE
    /\ roots = Roots /\ children = {} /\ cut = FALSE
    /\ todo = {} /\ slice = 0 /\ scans = [n \in Nodes |-> None] /\ answer = None
    /\ churn = 0 /\ faults = 0
    /\ stable = [pods |-> cluster.pods, claims |-> cluster.claims,
                 volumes |-> cluster.volumes, files |-> cluster.files]

-----------------------------------------------------------------------------
(* The cluster: the provisioner makes a directory and a volume for a claim,   *)
(* then binds them; a pod goes, then its claim, then the volume and its data. *)
Change(c, lost) ==
    /\ pc \notin {"done", "raised"} /\ churn < MaxChurn /\ churn' = churn + 1
    /\ cluster' = c
    /\ stable' = [pods |-> stable.pods \ lost.pods, claims |-> stable.claims \ lost.claims,
                  volumes |-> stable.volumes \ lost.volumes, files |-> stable.files \ lost.files]
    /\ UNCHANGED <<limits, pc, listing, errors, search, todo, slice, scans, answer, faults>>
Nothing == [pods |-> {}, claims |-> {}, volumes |-> {}, files |-> {}]

Provision == \E v \in Volumes \ cluster.volumes, c \in cluster.claims :
    /\ cluster.bound[c] = None /\ \A w \in cluster.volumes : cluster.ref[w] # c
    /\ PathOf[v] \notin cluster.files \cup {None}
    /\ Change([cluster EXCEPT !.volumes = @ \cup {v}, !.ref[v] = c,
                              !.files = @ \cup Above[PathOf[v]] \cup Subtree(Nodes, PathOf[v])], Nothing)
Bind == \E v \in cluster.volumes : LET c == cluster.ref[v] IN
    /\ c \in cluster.claims /\ cluster.bound[c] = None
    /\ Change([cluster EXCEPT !.bound[c] = v], [Nothing EXCEPT !.claims = {c}])
PodGone == \E p \in cluster.pods :
    Change([cluster EXCEPT !.pods = @ \ {p}], [Nothing EXCEPT !.pods = {p}])
ClaimGone == \E c \in cluster.claims :
    /\ \A p \in cluster.pods : c \notin Uses[p]
    /\ Change([cluster EXCEPT !.claims = @ \ {c}, !.bound[c] = None], [Nothing EXCEPT !.claims = {c}])
VolumeGone == \E v \in cluster.volumes :
    /\ cluster.ref[v] \notin cluster.claims
    /\ Change([cluster EXCEPT !.volumes = @ \ {v}, !.files = @ \ Subtree(Nodes, PathOf[v])],
              [Nothing EXCEPT !.volumes = {v}, !.files = Subtree(Nodes, PathOf[v])])
FileGone == \E n \in cluster.files \ Roots :
    Change([cluster EXCEPT !.files = @ \ Subtree(Nodes, n)],
           [Nothing EXCEPT !.files = Subtree(Nodes, n)])

-----------------------------------------------------------------------------
(* _k8s_list: the API server serves every page of a list from the moment of   *)
(* the first one.  A request that fails ends the list, and what came before   *)
(* it is kept; an exception that is no HTTPError, URLError or ValueError (the *)
(* body is cut or times out) ends the call.                                   *)
NextList(l) == pc' = After(l) /\ page' = None
Failed(l) == errors' = TRUE

ListPage(l) ==
    /\ pc = l
    /\ LET rest == IF page = None THEN Objects(l) ELSE page
       IN \E now \in SUBSET rest :
             /\ Cardinality(now) = Min({PageSize, Cardinality(rest)})
             /\ items' = [items EXCEPT ![l] = @ \cup now]
             /\ IF now = rest THEN NextList(l) ELSE page' = rest \ now /\ UNCHANGED pc
    /\ UNCHANGED <<world, limits, errors, search, todo, slice, scans, answer, faults>>
PageFails(l) ==
    /\ pc = l /\ faults < MaxFaults /\ faults' = faults + 1
    /\ NextList(l) /\ Failed(l)
    /\ UNCHANGED <<world, limits, items, search, todo, slice, scans, answer>>
PageRaises(l) ==
    /\ pc = l /\ faults < MaxFaults /\ faults' = faults + 1 /\ pc' = "raised"
    /\ UNCHANGED <<world, limits, listing, errors, search, todo, slice, scans, answer>>

(* _k3s_volume_inventory: one record for every claim, joined to its volume if *)
(* that was listed, and one for every listed volume no listed claim names.    *)
ListedVolumes == {i.volume : i \in items["volumes"]}
Unclaimed == {i \in items["volumes"] : \A j \in items["claims"] : j.volume # i.volume}
Candidate(r) == IF r.volume \in ListedVolumes THEN PathOf[r.volume] ELSE None
Records == items["claims"] \cup Unclaimed
Rank(x) == IF x = None THEN 0 ELSE x
Earlier(r, s) == \/ Rank(r.claim) < Rank(s.claim)
                 \/ Rank(r.claim) = Rank(s.claim) /\ Rank(r.volume) < Rank(s.volume)

(* _safe_k3s_volume_path *)
Key(r) == IF Beneath(Candidate(r)) THEN Candidate(r) ELSE None
Attributed == {Key(r) : r \in Records} \ {None}

(* _k3s_volume_root_children: a root that is missing is skipped silently, and *)
(* so is what is no directory.                                                *)
DiscoverRoot ==
    /\ pc = "discover"
    /\ \E r \in roots :
       LET found == IF r \in cluster.files THEN Children(cluster.files, r) ELSE {}
           room == limits.paths - Cardinality(children)
       IN /\ \A q \in roots : r <= q
          /\ roots' = roots \ {r}
          /\ \/ \E part \in SUBSET found :
                   /\ Cardinality(part) = Min({room, Cardinality(found)})
                   /\ children' = children \cup part /\ cut' = (cut \/ part # found)
                   /\ UNCHANGED <<errors, faults>>
             \/ /\ r \in cluster.files /\ faults < MaxFaults /\ faults' = faults + 1
                /\ \E part \in SUBSET found :
                      Cardinality(part) <= room /\ children' = children \cup part
                /\ errors' = TRUE /\ UNCHANGED cut
    /\ UNCHANGED <<world, limits, pc, listing, todo, slice, scans, answer>>

(* What no volume owns; the directory that holds one is not scanned itself. *)
UnattributedNested == {n \in children : n \notin Attributed}
Unattributed == {n \in children : n \notin Attributed /\ \A a \in Attributed : n \notin Above[a]}

(* The paths of the records in their order, then the others, up to the cap,   *)
(* and an equal share of the budget for each.                                 *)
Paths == Attributed \cup Unattributed
Naming(n) == {r \in Records : Key(r) = n}
Precedes(m, n) ==
    IF n \in Attributed
    THEN m \in Attributed /\ \E r \in Naming(m) : \A s \in Naming(n) : Earlier(r, s)
    ELSE m \in Attributed \/ m < n
EntrySliceUncapped(count) == Max({1, limits.total \div count})
EntrySlice(count) == Max({1, Min({limits.max_entries, limits.total \div count})})

Plan ==
    /\ pc = "discover" /\ roots = {} /\ pc' = "scan"
    /\ \E first \in SUBSET Paths :
          /\ Cardinality(first) = Min({limits.paths, Cardinality(Paths)})
          /\ \A m \in first, n \in Paths \ first : Precedes(m, n)
          /\ todo' = first /\ cut' = (cut \/ first # Paths)
          /\ slice' = IF first = {} THEN 0 ELSE EntrySlice(Cardinality(first))
    /\ UNCHANGED <<world, limits, listing, errors, roots, children, scans, answer, faults>>

(* One call of _du_path, see PressureScan: the paths it measures, and whether *)
(* it was cut short or refused a part.  It stays on the file system of the    *)
(* path and does not say what it left out for it, unless it cannot tell which *)
(* one that is.  Every path measured is one byte long.                        *)
Scan ==
    /\ pc = "scan"
    /\ \E n \in todo :
       LET there == Subtree(cluster.files, n)
           own == OnDevice(cluster.files, n)
           Result(what, partial) ==
               scans' = [scans EXCEPT ![n] = [what |-> what, partial |-> partial]]
       IN /\ \A m \in todo \ {n} : Precedes(n, m)
          /\ todo' = todo \ {n}
          /\ \/ Cardinality(own) < slice /\ Result(own, FALSE) /\ UNCHANGED faults
             \/ \E what \in SUBSET own :
                   /\ Cardinality(own) >= slice /\ Cardinality(what) = slice
                   /\ Result(what, TRUE) /\ UNCHANGED faults
             \/ \E what \in SUBSET there :
                   /\ there # {} /\ faults < MaxFaults /\ faults' = faults + 1
                   /\ Cardinality(what) <= slice
                   /\ Result(what, TRUE) \/ (what = there /\ Cardinality(what) < slice /\ Result(what, FALSE))
    /\ UNCHANGED <<world, limits, pc, listing, errors, search, slice, answer>>

-----------------------------------------------------------------------------
(* The answer *)
IsScanned(r) == Key(r) # None /\ scans[Key(r)] # None
Status(r) == CASE Candidate(r) = None -> "no_local_path"
               [] Candidate(r) # None /\ Key(r) = None -> "outside_configured_roots"
               [] Key(r) # None /\ ~IsScanned(r) -> "path_limit"
               [] IsScanned(r) /\ scans[Key(r)].partial -> "partial"
               [] OTHER -> "scanned"      \* or "missing"
ShortUnlessCapped(r) == Status(r) \in {"outside_configured_roots", "partial"}
Short(r) == Status(r) \in {"outside_configured_roots", "path_limit", "partial"}

(* The pods that mount the claim of a record, whatever their phase. *)
Mounting(r) == {p \in items["pods"] : r.claim \in Uses[p]}

(* The namespaces.  A path is counted for the first record with a namespace   *)
(* that names it.                                                             *)
Scanned == {n \in Nodes : scans[n] # None}
Members(ns) == {r \in Records : r.claim # None /\ Namespace[r.claim] = ns}
CountsFor(r) == ~\E s \in Records : s.claim # None /\ Key(s) = Key(r) /\ Earlier(s, r)
Counted(ns) == {Key(r) : r \in {s \in Members(ns) : IsScanned(s) /\ CountsFor(s)}}
Sizes == [n \in Scanned |-> Cardinality(scans[n].what)]
Rollup(ns) ==
    [used |-> SumFunctionOnSet(Sizes, Counted(ns)),
     complete |-> \A r \in Members(ns) : ~Short(r),
     pods |-> UNION {Mounting(r) : r \in Members(ns)}]

Namespaces == {Namespace[c] : c \in Claims}
AllTold == ~errors /\ ~cut /\ \A r \in Records : ~Short(r)
Complete == ~errors /\ ~cut /\ (\A n \in Scanned : ~scans[n].partial) /\ \A r \in Records : ~Short(r)

Report ==
    /\ pc = "scan" /\ todo = {} /\ pc' = "done"
    /\ answer' = [complete |-> Complete, rollup |-> [ns \in Namespaces |-> Rollup(ns)]]
    /\ UNCHANGED <<world, limits, listing, errors, search, todo, slice, scans, faults>>

-----------------------------------------------------------------------------
Host == Provision \/ Bind \/ PodGone \/ ClaimGone \/ VolumeGone \/ FileGone
Read == \E l \in Lists : ListPage(l) \/ PageFails(l) \/ PageRaises(l)
Next == Host \/ Read \/ DiscoverRoot \/ Plan \/ Scan \/ Report
Spec == Init /\ [][Next]_vars

-----------------------------------------------------------------------------
Kind(l) == CASE l = "pods" -> Pods
             [] l = "claims" -> [claim : Claims, volume : Volumes \cup {None}]
             [] l = "volumes" -> [claim : Claims \cup {None}, volume : Volumes]

TypeOK ==
    /\ cluster \in Cluster /\ limits \in LimitChoices
    /\ churn \in 0 .. MaxChurn /\ faults \in 0 .. MaxFaults
    /\ stable \in [pods : SUBSET Pods, claims : SUBSET Claims, volumes : SUBSET Volumes,
                  files : SUBSET Nodes]
    /\ stable.pods \subseteq cluster.pods /\ stable.claims \subseteq cluster.claims
    /\ stable.volumes \subseteq cluster.volumes /\ stable.files \subseteq cluster.files
    /\ pc \in Lists \cup {"discover", "scan", "done", "raised"}
    /\ DOMAIN items = Lists /\ \A l \in Lists : items[l] \subseteq Kind(l)
    /\ errors \in BOOLEAN /\ cut \in BOOLEAN
    /\ roots \subseteq Roots /\ children \subseteq Nodes /\ Cardinality(children) <= limits.paths
    /\ todo \subseteq Nodes /\ Cardinality(todo) + Cardinality(Scanned) <= limits.paths
    /\ slice \in 0 .. limits.max_entries
    /\ scans \in [Nodes -> Scans \cup {None}]
    /\ answer = None \/ answer.rollup \in
          [Namespaces -> [used : Nat, complete : BOOLEAN, pods : SUBSET Pods]]

(* The claims, bound to a volume beneath the roots, that nothing happened to. *)
StableClaims == {c \in stable.claims : cluster.bound[c] \in stable.volumes
                                       /\ Beneath(PathOf[cluster.bound[c]])}
ClaimPath(c) == PathOf[cluster.bound[c]]
IsWhole(n) == scans[n] # None /\ OnDevice(stable.files, n) \subseteq scans[n].what

(* docs/host-storage-snapshot.md:31, the result is labelled "as complete or a *)
(* lower bound": a complete answer has every file of every volume that was    *)
(* bound all the time, and of every directory beneath a root that no volume   *)
(* lies in, as far as it is on the file system of that directory, and it      *)
(* names every pod that mounts one of the claims.                             *)
CompleteCoversVolumes ==
    pc = "done" /\ answer.complete =>
        /\ \A c \in StableClaims : IsWhole(ClaimPath(c))
        /\ \A r \in Roots : \A n \in Children(stable.files, r) :
              IsWhole(n) \/ \E a \in Attributed : n \in Above[a]
        /\ \A p \in stable.pods : \A c \in Uses[p] \cap stable.claims :
              p \in answer.rollup[Namespace[c]].pods

(* docs/k3s-data-sources.md:12, "Namespace totals count each local volume     *)
(* once even when multiple pods mount the same claim": the namespaces, the    *)
(* volumes without one and the unattributed directories add up to the files   *)
(* measured, if no volume lies within another and no root within another (the *)
(* code drops a root that is configured twice, not one beneath another).      *)
EachByteOnce ==
    pc = "done" /\ (\A a, b \in Attributed : a \notin Above[b])
                /\ (\A a, b \in Roots : a \notin Above[b]) =>
        LET owned == {Key(r) : r \in {s \in Records : s.claim # None}}
            others == Scanned \ owned
        IN  SumFunctionOnSet([ns \in Namespaces |-> answer.rollup[ns].used], Namespaces)
            + SumFunctionOnSet(Sizes, others)
              = Cardinality(UNION {scans[n].what : n \in Scanned})

(* docs/host-storage-snapshot.md:31, "every volume, namespace rollup": if the *)
(* three lists could be read, a namespace that is labelled complete has the   *)
(* bytes of all its volumes, each on its own file system, but for those       *)
(* another namespace names as well.                                           *)
Held(ns, paths) == answer.rollup[ns].used >= Cardinality(UNION {OnDevice(stable.files, n) : n \in paths})
RollupHoldsItsVolumes ==
    pc = "done" /\ ~errors => \A ns \in Namespaces :
        answer.rollup[ns].complete =>
            LET others == {Key(r) : r \in {s \in Records : s.claim # None /\ Namespace[s.claim] # ns}}
            IN  Held(ns, {ClaimPath(c) : c \in {d \in StableClaims : Namespace[d] = ns}} \ others)
-----------------------------------------------------------------------------
(* What the proofs need beside the types.  Of a list that has been read, and  *)
(* of one that is being read with the pages still to come, no item that was   *)
(* there all the time is missing, unless a page failed.                       *)
Steady(l) ==
    CASE l = "pods" -> stable.pods
      [] l = "claims" -> {[claim |-> c, volume |-> cluster.bound[c]] : c \in stable.claims}
      [] l = "volumes" -> {[claim |-> cluster.ref[v], volume |-> v] : v \in stable.volumes}
IsRead(l) ==
    CASE l = "pods" -> pc \notin {"raised", "pods"}
      [] l = "claims" -> pc \notin {"raised", "pods", "claims"}
      [] l = "volumes" -> pc \notin {"raised", "pods", "claims", "volumes"}
ListInv ==
    ~errors => \A l \in Lists :
        /\ IsRead(l) => Steady(l) \subseteq items[l]
        /\ pc = l /\ page # None => Steady(l) \subseteq items[l] \cup page
PageInv == pc \in Lists /\ page # None => page \subseteq Kind(pc)
(* A directory that stays is beneath directories that stay. *)
FilesInv == \A n \in stable.files : Above[n] \subseteq stable.files
DiscoverInv ==
    /\ pc \in Lists \cup {"raised"} => roots = Roots
    /\ \A n \in children : \E r \in Roots : n \in Children(Nodes, r)
    /\ ~errors /\ ~cut => \A r \in Roots \ roots : Children(stable.files, r) \subseteq children
(* A path is to be scanned, or was, or is past the cap. *)
PlanInv ==
    /\ pc \notin {"scan", "done"} => todo = {} /\ Scanned = {}
    /\ pc \in {"scan", "done"} =>
          /\ roots = {} /\ todo \cup Scanned \subseteq Paths
          /\ ~cut => Paths \subseteq todo \cup Scanned
    /\ pc = "done" => todo = {}
ScanInv == \A n \in Scanned :
    /\ scans[n].what \subseteq Subtree(Nodes, n)
    /\ ~scans[n].partial => OnDevice(stable.files, n) \subseteq scans[n].what
AnswerInv ==
    pc = "done" => answer = [complete |-> Complete, rollup |-> [ns \in Namespaces |-> Rollup(ns)]]
IInv == TypeOK /\ ListInv /\ PageInv /\ FilesInv /\ DiscoverInv /\ PlanInv /\ ScanInv /\ AnswerInv
=============================================================================

----------------------------- MODULE Attribution -----------------------------
(* get_k3s_process_attribution and get_k3s_container_memory of server.py: the *)
(* pods are listed, then every process is looked at and measured, and only    *)
(* then the cgroup of every pid is read and matched with the list.  Processes *)
(* start and exit, pids are used again, containers restart and pods go in     *)
(* between; and a process may hide its memory or its cgroup.                  *)
EXTENDS Integers, FiniteSets, Functions

CONSTANTS
    Pids,           \* numbers
    Processes,      \* the processes that may run, each once
    Container,      \* Container[q]: the container a process is in, or None on the host
    Rss,            \* Rss[q]: its resident memory
    Containers, Pod, Name,  \* the containers, the pod of each and its name in the spec of the pod
    Reported,       \* the containers listed in `containers` of a pod: not its sandbox or init ones
    Starts,         \* what a call may find, see HostState
    MaxChurn,       \* bound on the number of changes
    None

Pods == {Pod[c] : c \in Containers}
HostState == [at : [Pids -> Processes \cup {None}],    \* the process behind a pid
              begun : SUBSET Processes,                \* the processes that were started
              pods : SUBSET Pods,                      \* the pods the API server knows
              ids : SUBSET Reported,                   \* the container ids in their statuses
              uids : BOOLEAN]                          \* a cgroup path spells the pod uid out

(* A process runs once, under one pid, in a pod that is there; no status is   *)
(* without its pod; only so many processes were started.                      *)
IsHost(h) ==
    /\ IsFiniteSet(h.begun)
    /\ \A p \in Pids : h.at[p] # None =>
          /\ h.at[p] \in h.begun /\ \A r \in Pids \ {p} : h.at[r] # h.at[p]
          /\ Container[h.at[p]] # None => Pod[Container[h.at[p]]] \in h.pods
    /\ \A c \in h.ids : Pod[c] \in h.pods

ASSUME HostAssumption ==
    /\ Pids \subseteq Nat /\ IsFiniteSet(Pids) /\ MaxChurn \in Nat
    /\ Starts \subseteq HostState /\ \A h \in Starts : IsHost(h)
    /\ Container \in [Processes -> Containers \cup {None}] /\ Rss \in [Processes -> Nat]
    /\ Reported \subseteq Containers
    /\ None \notin Containers /\ None \notin Processes /\ None \notin Pods

VARIABLES
    host, churn,
    tool,       \* "processes" or "memory"
    pc,
    index,      \* _pod_indexes: the pods and the container ids listed
    errors,     \* the lists that failed, "metrics" or "pods"
    todo,       \* the pids still to be looked at, in ascending order
    seen,       \* _iter_host_processes: what each pid was
    rss,        \* rss_bytes: the process whose memory each pid told, or None
    rows,       \* the attribution of each pid
    totals,     \* container_totals, or <<>> without
    source,     \* of the container memory
    steady,     \* history: the processes and ids that have been there all the time, and
                \* the pids that were used again after they were looked at
    unread      \* history: the pids that ran and whose cgroup could not be read
world == <<host, churn, steady>>
vars == <<world, tool, pc, index, errors, todo, seen, rss, rows, totals, source, unread>>

-----------------------------------------------------------------------------
Running(h) == {h.at[p] : p \in Pids} \ {None}

Init ==
    /\ host \in Starts /\ churn = 0 /\ tool \in {"processes", "memory"}
    /\ pc = IF tool = "memory" THEN "metrics" ELSE "pods"
    /\ index = [pods |-> {}, ids |-> {}] /\ errors = {} /\ todo = {}
    /\ seen = [p \in {} |-> None] /\ rss = [p \in {} |-> None]
    /\ rows = [p \in {} |-> None] /\ totals = [k \in {} |-> 0]
    /\ source = None /\ unread = {}
    /\ steady = [processes |-> Running(host), ids |-> host.ids, reused |-> {}]

(* The host: a process starts under a free pid, or exits; a status catches up *)
(* with the container that runs now; a pod goes once nothing of it runs.      *)
Change(h) ==
    /\ pc # "done" /\ churn < MaxChurn /\ churn' = churn + 1 /\ host' = h
    /\ steady' = [processes |-> steady.processes \cap Running(h), ids |-> steady.ids \cap h.ids,
                  reused |-> steady.reused \cup {p \in DOMAIN seen : h.at[p] \notin {None, seen[p]}}]
    /\ UNCHANGED <<tool, pc, index, errors, todo, seen, rss, rows, totals, source, unread>>

Exec == \E p \in Pids, q \in Processes \ host.begun :
    /\ host.at[p] = None
    /\ Container[q] # None => Pod[Container[q]] \in host.pods
    /\ Change([host EXCEPT !.at[p] = q, !.begun = @ \cup {q}])
Exit == \E p \in Pids : host.at[p] # None /\ Change([host EXCEPT !.at[p] = None])
StatusCatchesUp == \E q \in Running(host) : LET c == Container[q] IN
    /\ c \in Reported \ host.ids
    /\ Change([host EXCEPT !.ids = {d \in @ : <<Pod[d], Name[d]>> # <<Pod[c], Name[c]>>} \cup {c}])
PodGone == \E pod \in host.pods :
    /\ \A q \in Running(host) : Container[q] # None => Pod[Container[q]] # pod
    /\ Change([host EXCEPT !.pods = @ \ {pod}, !.ids = {c \in @ : Pod[c] # pod}])

-----------------------------------------------------------------------------
(* metrics-server answers with something, with nothing, or not at all, and a  *)
(* page of its answer may be missing; only without anything from it are the   *)
(* processes looked at.                                                       *)
Failed(list) == {errors, errors \cup {list}}
Metrics ==
    /\ pc = "metrics" /\ errors' \in Failed("metrics")
    /\ \/ pc' = "done" /\ source' = "metrics-server"
       \/ pc' = "pods" /\ UNCHANGED source
    /\ UNCHANGED <<world, tool, index, todo, seen, rss, rows, totals, unread>>

(* _k8s_pod_inventory: a list that fails keeps the pods it has (K3sVolumes    *)
(* looks at its pages).                                                       *)
ListPods ==
    /\ pc = "pods" /\ pc' = "pids"
    /\ \E pods \in SUBSET host.pods :
          /\ index' = [pods |-> pods, ids |-> {c \in host.ids : Pod[c] \in pods}]
          /\ errors' \in {e \in Failed("pods") : pods # host.pods => "pods" \in e}
    /\ UNCHANGED <<world, tool, todo, seen, rss, rows, totals, source, unread>>

(* process_iter: the pids are listed first; one that exits before its turn is *)
(* left out, and one that was used again is what it is now.  Then             *)
(* _process_inventory goes through the pids again.                            *)
ListPids ==
    /\ pc = "pids" /\ pc' = "iterate" /\ todo' = {p \in Pids : host.at[p] # None}
    /\ UNCHANGED <<world, tool, index, errors, seen, rss, rows, totals, source, unread>>

GoneKept(p) == FALSE
Gone(p) == host.at[p] = None

IsNext(p) == \A r \in todo : p <= r
With(f, p, v) == [x \in DOMAIN f \cup {p} |-> IF x = p THEN v ELSE f[x]]

Iterate ==
    /\ pc = "iterate"
    /\ \/ todo = {} /\ pc' = "match" /\ todo' = DOMAIN seen /\ UNCHANGED <<seen, rss>>
       \/ \E p \in todo \ DOMAIN seen :
             /\ IsNext(p) /\ UNCHANGED pc
             /\ \/ Gone(p) /\ todo' = todo \ {p} /\ UNCHANGED <<seen, rss>>
                \/ ~Gone(p) /\ seen' = With(seen, p, host.at[p]) /\ rss' = With(rss, p, None)
                   /\ UNCHANGED todo
    /\ UNCHANGED <<world, tool, index, errors, rows, totals, source, unread>>

(* memory_info of the process just looked at: of what is there now, if it is  *)
(* there and tells.                                                           *)
Measure ==
    /\ pc = "iterate"
    /\ \E p \in todo \cap DOMAIN seen :
          /\ IsNext(p) /\ todo' = todo \ {p}
          /\ \E told \in {None, host.at[p]} : rss' = [rss EXCEPT ![p] = told]
    /\ UNCHANGED <<world, tool, pc, index, errors, seen, rows, totals, source, unread>>

(* _match_pod_container: the container whose id is in the cgroup path; or the *)
(* pod, and its container if it reports one only; or nothing.                 *)
NoMatch == [pod |-> None, name |-> None]
OnlyName(pod) == LET names == {Name[c] : c \in {d \in Reported : Pod[d] = pod}}
                 IN  IF Cardinality(names) = 1 THEN CHOOSE n \in names : TRUE ELSE None
ByPod(c) == IF host.uids /\ Pod[c] \in index.pods THEN [pod |-> Pod[c], name |-> OnlyName(Pod[c])]
            ELSE NoMatch
MatchPodFirst(c) == IF c # None /\ ByPod(c) # NoMatch THEN ByPod(c)
                    ELSE IF c \in index.ids THEN [pod |-> Pod[c], name |-> Name[c]] ELSE NoMatch
Match(c) == IF c \in index.ids THEN [pod |-> Pod[c], name |-> Name[c]]
            ELSE IF c = None THEN NoMatch ELSE ByPod(c)

(* The key that the memory of a process is added up under. *)
KeyByName(m) == [m EXCEPT !.pod = CHOOSE pod \in Pods : TRUE]
KeyOf(m) == m

(* The cgroup of a pid that is gone, or that is refused, matches nothing; a   *)
(* process that did not tell its memory adds none.                            *)
Size(p) == IF rss[p] = None THEN 0 ELSE Rss[rss[p]]
MatchCgroup ==
    /\ pc = "match"
    /\ \E p \in todo, refused \in BOOLEAN : LET
           m == IF refused \/ host.at[p] = None THEN NoMatch ELSE Match(Container[host.at[p]])
           k == KeyOf(m)
       IN /\ IsNext(p) /\ todo' = todo \ {p} /\ rows' = With(rows, p, m)
          /\ refused => host.at[p] # None
          /\ unread' = IF refused THEN unread \cup {p} ELSE unread
          /\ totals' = IF tool # "memory" \/ m = NoMatch THEN totals
                       ELSE With(totals, k, (IF k \in DOMAIN totals THEN totals[k] ELSE 0) + Size(p))
    /\ UNCHANGED <<world, tool, pc, index, errors, seen, rss, source>>

Report ==
    /\ pc = "match" /\ todo = {} /\ pc' = "done"
    /\ source' = IF tool # "memory" THEN None
                 ELSE IF DOMAIN totals = {} THEN "unavailable" ELSE "cgroup-rss"
    /\ UNCHANGED <<world, tool, index, errors, todo, seen, rss, rows, totals, unread>>

-----------------------------------------------------------------------------
Next == Exec \/ Exit \/ StatusCatchesUp \/ PodGone
        \/ Metrics \/ ListPods \/ ListPids \/ Iterate \/ Measure \/ MatchCgroup \/ Report
Spec == Init /\ [][Next]_vars

-----------------------------------------------------------------------------
TypeOK ==
    /\ host \in HostState /\ churn \in 0 .. MaxChurn /\ tool \in {"processes", "memory"}
    /\ pc \in {"metrics", "pods", "pids", "iterate", "match", "done"}
    /\ index.pods \subseteq Pods /\ index.ids \subseteq Reported /\ errors \subseteq {"metrics", "pods"}
    /\ todo \subseteq Pids /\ DOMAIN seen \subseteq Pids /\ DOMAIN rss = DOMAIN seen
    /\ \A p \in DOMAIN seen : seen[p] \in Processes /\ rss[p] \in Processes \cup {None}
    /\ unread \subseteq DOMAIN rows
    /\ \A k \in DOMAIN totals : k.pod \in Pods /\ totals[k] \in Nat
    /\ source \in {None, "metrics-server", "cgroup-rss", "unavailable"}

IsSteady(p) == p \in DOMAIN seen /\ seen[p] \in steady.processes

(* A process that lives through the call is attributed to no pod but its own; *)
(* a process of the host to none; and if the pods could be listed, the status *)
(* of its container did not change and its cgroup could be read, it is        *)
(* attributed to that container of that pod.                                  *)
RowIsOwn(p) ==
    LET c == Container[seen[p]] IN
    /\ rows[p] = NoMatch \/ (c # None /\ rows[p].pod = Pod[c])
    /\ c \in steady.ids /\ "pods" \notin errors /\ p \notin unread =>
          rows[p] = [pod |-> Pod[c], name |-> Name[c]]
AttributionIsOwn == pc = "done" => \A p \in DOMAIN rows : IsSteady(p) => RowIsOwn(p)

(* The memory of a container has that of all its processes that live through  *)
(* the call, let their cgroup be read and told their memory, if the pods      *)
(* could be listed and its status did not change; and unless a pid is used    *)
(* again during the call, no process adds to the memory of another pod than   *)
(* its own.                                                                   *)
Read == steady.processes \ {seen[p] : p \in unread}
ToldBy(R) == {rss[p] : p \in R} \ {None}
MemoryOf(S) == SumFunctionOnSet(Rss, S)
TotalOfPod(pod) == SumFunctionOnSet(totals, {k \in DOMAIN totals : k.pod = pod})
MemoryIsOwn ==
    pc = "done" /\ tool = "memory" /\ source # "metrics-server" =>
        /\ "pods" \notin errors => \A c \in steady.ids :
              LET own == {q \in Read : Container[q] = c} IN
              own # {} => \E k \in DOMAIN totals :
                  /\ k = [pod |-> Pod[c], name |-> Name[c]]
                  /\ totals[k] >= MemoryOf(own \cap ToldBy(DOMAIN seen))
        /\ steady.reused = {} => \A pod \in Pods :
              TotalOfPod(pod)
              <= MemoryOf({q \in host.begun : Container[q] # None /\ Pod[Container[q]] = pod})

(* What a call relies on: what stays runs where it was seen, no two pids were *)
(* seen or measured with the same process, what stays told its own memory,    *)
(* the index has the ids that stay, and a row is made of nothing else.        *)
HostInv ==
    /\ host \in HostState /\ IsHost(host)
    /\ steady.processes \subseteq Running(host) /\ steady.ids \subseteq host.ids
SeenInv ==
    /\ todo \subseteq Pids /\ DOMAIN seen \subseteq Pids
    /\ \A p \in DOMAIN seen :
          seen[p] \in host.begun /\ \A r \in Pids : host.at[r] = seen[p] => r = p
    /\ \A p, r \in DOMAIN seen : seen[p] = seen[r] => p = r
    /\ steady.reused = {} => \A p \in DOMAIN seen :
          host.at[p] \in {None, seen[p]} /\ rss[p] \in {None, seen[p]}
RssInv ==
    /\ \A p \in DOMAIN seen : rss[p] # None =>
          /\ rss[p] \in host.begun /\ \A r \in Pids : host.at[r] = rss[p] => r = p
          /\ seen[p] \in steady.processes => rss[p] = seen[p]
    /\ \A p, r \in DOMAIN seen : rss[p] = rss[r] /\ rss[p] # None => p = r
IndexInv ==
    /\ index.pods \subseteq Pods /\ index.ids \subseteq Reported
    /\ pc \in {"pids", "iterate", "match"} /\ "pods" \notin errors => steady.ids \subseteq index.ids
    /\ pc \in {"metrics", "pods", "pids", "iterate"} => DOMAIN rows = {} /\ DOMAIN totals = {}
RowInv ==
    /\ \A p \in DOMAIN rows : IsSteady(p) => RowIsOwn(p)
    /\ \A p \in DOMAIN rows : rows[p] = NoMatch \/ rows[p].pod \in Pods
    /\ steady.reused = {} => \A p \in DOMAIN rows :
          rows[p] = NoMatch
          \/ (Container[seen[p]] # None /\ rows[p].pod = Pod[Container[seen[p]]])

(* No process that lives through the call is passed over, and no pid is       *)
(* matched twice.                                                             *)
Looked(p) == p \in DOMAIN seen /\ seen[p] = host.at[p]
IsWalked == pc = "match" \/ (pc = "done" /\ source # "metrics-server")
WalkInv ==
    /\ pc \in {"metrics", "pods", "pids"} => todo = {} /\ DOMAIN seen = {}
    /\ pc = "iterate" => \A p \in Pids : host.at[p] \in steady.processes =>
          IF p \in DOMAIN seen THEN Looked(p) ELSE p \in todo
    /\ IsWalked => /\ \A p \in Pids : host.at[p] \in steady.processes => Looked(p)
                   /\ DOMAIN rows = DOMAIN seen \ todo /\ todo \subseteq DOMAIN seen
    /\ pc = "done" => todo = {}

(* A total is the memory told by the pids whose rows are alike, and the       *)
(* totals of a pod are that of all pids with a row of the pod.                *)
WithRow(k) == ToldBy({r \in DOMAIN rows : rows[r] = k})
OfPod(pod) == ToldBy({r \in DOMAIN rows : rows[r].pod = pod})
MemoryInv ==
    /\ tool # "memory" => DOMAIN totals = {}
    /\ tool = "memory" =>
          /\ DOMAIN totals = {rows[p] : p \in DOMAIN rows} \ {NoMatch}
          /\ \A k \in DOMAIN totals : totals[k] = MemoryOf(WithRow(k))
          /\ \A pod \in Pods : TotalOfPod(pod) = MemoryOf(OfPod(pod))
IInv == TypeOK /\ HostInv /\ SeenInv /\ RssInv /\ IndexInv /\ RowInv /\ WalkInv /\ MemoryInv
=============================================================================

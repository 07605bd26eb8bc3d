# A verification project for node-stats-mcp

TLA+ specifications of the parts of `node-stats-mcp` where order, failure and
limits decide whether an answer is right: the background snapshots of host
usage and the walk that fills them, the walk of `/proc` for deleted files, the
pressure scan, the k3s volume inventory, the attribution of processes to pods,
and the exporter sidecar. TLC checks the specifications on small instances;
TLAPS proves what matters most for every value of their constants.

All source paths below are under `src/src/node_stats_mcp/`.

## The system

`node-stats-mcp` is a read-only MCP server that a pod runs next to a k3s node,
and, from the same image, an exporter that sends what the server's tools return
as OTLP metrics and logs. Most tools are stateless: they read `/proc`, psutil
or the Kubernetes API, select fields and return. State, concurrency and limits
are in few places:

| Component | State | Operations | Interacts with | Hard behaviour |
|---|---|---|---|---|
| Background snapshots (storage.py 681-779) | snapshot and refresh mark per profile, one lock | `request`, `_refresh` (a daemon thread) | request threads, `scan_usage_profile` | races between requests and workers, a thread that does not start, a scan that raises, a wall clock that is set back |
| Host usage scan (storage.py 313-666) | budget, seen inodes, results per child | `_scan_node`, `_scan_level`, `_scan_tree` | the file system, the mount table | files that come and go, calls that fail, three caps and a deadline, hard links |
| Mount table (storage.py 94-296) | none | `read_mountinfo`, `_owning_mount`, `_mount_exclusions` | both scans of storage.py | stacked, bind and subtree mounts, two records with one public path |
| Deleted open files (storage.py 864-1092) | records by inode, caps | `deleted_open_files` | processes of the host | fork, exit, close and unlink between two system calls, refusals |
| Pressure scan (server.py 2442-2762) | shared entry and time budget | `_pressure_root_children`, `_scan_pressure_children`, `_du_path` | file system | fair slices, nested roots, changes between discovery and scan, links that lead nowhere |
| k3s volume usage (server.py 2765-3132) | scans by path, rollups by namespace | `_k3s_volume_inventory`, `_k3s_volume_usage` | Kubernetes lists, file system | lists read at different times, shared and nested paths |
| Kubernetes lists (server.py 339-412) | items of earlier pages | `_k8s_list` | Kubernetes API | a failure on a later page |
| Attribution (server.py 1894-2174) | none | container matching, memory fallback | `/proc`, Kubernetes API | pids used again, containers restarting between the reads, refused reads without an error |
| Exporter loop (exporter.py 131-168, 801-957) | time of the last volume scan | `run_exporter`, `run_cycle`, `collect_sources`, `main` | server functions in threads and coroutines, two HTTP requests | concurrent collectors, failures, cycles longer than their interval |
| Metric mapping (exporter.py 171-702) | none | `metric_points` | snapshots of all sources | order of the points, labels that recur |
| Payload bounds (exporter.py 705-798) | list and counters of one request | `_bounded_metrics_body`, `_bounded_logs_body` | mapping, OTLP encoder | a limit reached in large steps |
| Host log usage (storage.py 782-861) | budget, seen inodes | `scan_log_roots` | `_scan_tree` | nested roots under one budget |
| Configuration (server.py 1035-1266) | profiles, fixed at import | `_host_usage_profiles`, `_configured_freshness` | environment, file times | boundaries and rounding |

### What makes each component correct

* Snapshots: at most one scan of a profile at a time; a refresh that was
  promised is published; an answer never mixes two states of the cache; a fresh
  answer is young; an answer's detail limit does not touch the cache.
* Scans (usage, pressure, volumes): a result that says it is complete has missed
  nothing that was there all along; nothing is measured twice; caps are kept and
  shared fairly; the walk ends.
* Deleted files: a complete summary has what was held all along; what is called
  reclaimable is.
* Volumes: bytes enter one rollup only; a complete rollup has all its volumes.
* Attribution: a process that lives through the call is given to nothing but its
  own pod and container, and what could be read of it is counted there.
* Exporter: cycles never overlap and keep their cadence; the slow volume cadence
  neither starves nor repeats; the exit status tells the truth; every source is
  told about however much is cut; what is dropped is counted and is little.

## Modules

| Module | Models | State and actions |
|---|---|---|
| `SingleFlight` | what the background snapshots promise | `cache`, `inflight`, `view`; `Look`, `Launch` (a request is one step), `Discard`, `Land` |
| `HostUsageSnapshots` | `HostUsageSnapshots` of storage.py | a program counter per caller and worker, the lock, `heap`, `refresh_started`; implements `SingleFlight` |
| `MountTable` | the order of the table, owner, exclusions | operators only |
| `UsageScan` (extends `MountTable`) | `scan_usage_profile` | a stack of frames, the budget, `seen_inodes`, the file system; one action per system call or return |
| `DeletedOpenFiles` | `deleted_open_files` | the processes and their descriptors; one action per listing, `readlink` and `stat` |
| `PressureScan` | `get_pressure_path_usage` | discovery, plan and one `_du_path` per child, one action per system call |
| `K3sVolumes` | `get_k3s_volume_usage`, `_k8s_list` | the cluster, the three lists page by page, the scans, the answer |
| `Attribution` | `get_k3s_process_attribution`, `get_k3s_container_memory` | the processes behind the pids, the index of pods, the pids listed, what each told, the rows, the memory totals; one action per list, process, memory and cgroup |
| `Exporter` | `run_exporter`, `run_cycle`, `collect_sources`, `main` | `phase`, ages since the last cycle and volume scan, `task[source]`, `post[signal]` |
| `SourceMetrics` | `metric_points` and its eight mappings | operators only |
| `ExportPayload` | `_bounded_metrics_body`, `_bounded_logs_body` | `kept`, `dropped`; one turn of the loop per step |
| `ExportSignals` (extends both) | the middle of `run_cycle` | the snapshots of a cycle are mapped, then cut |
| `CollectionLemmas` | nothing: lemmas about finite sets, sums, paths, stacks and flattened sequences | |
| `HostUsageSnapshotsProofs`, `UsageScanProofs`, `DeletedOpenFilesProofs`, `PressureScanProofs`, `K3sVolumesProofs`, `AttributionProofs` | theorems about the module of that name | |
| `ExporterProofs` | theorems about `Exporter`, `ExportPayload`, and `ExportSignals` with `SourceMetrics` | |
| `MC...` | small instances for TLC | model values, small trees, hosts and clusters, symmetry |

### HostUsageSnapshots

`request` is split where another thread can get in: `Enter` (the clock is read
before the lock is asked for, line 732), `AcquireRequest`, `Read` (735-736),
`Register` (737-752, which also leaves the lock), `Start` or `StartFails` (754),
`Clip` (756-762) and `Return`. `_refresh` is `Scan`, `AcquirePublish`, `Publish`
(723) and `Pop` (724, which leaves the lock). The lock is a variable, so what it
protects is a matter of the properties and not of the granularity.
`copy.deepcopy` is `CopyOf`: the local snapshot of a caller is a key of `heap`
of its own, and clipping writes through that key. A snapshot is reduced to its
capture time, whether the scan raised, and how many children it counted and
lists. `uptime` is elapsed time and `offset` the difference to the wall clock.
History that is not in the program: `taken` in a snapshot and `asked` in the
arguments hold elapsed times, `awaiting` the profiles a client was told are
being refreshed.

### MountTable and UsageScan

A line of mountinfo is a record; whether its mount point lies beneath `ROOTFS`
decides its public path, so that the container's root and the host's may both
be "/". `VisibleMount` is not code: it is the kernel's answer (the mount put
there last), against which `OwningMount` and `IsSkipped` are judged.

The recursion `_scan_node` - `_scan_level` - `_scan_tree` becomes a stack of
frames. A call of `lstat` or `scandir` is one step, so `Vanish` and `Appear` may
change the tree between any two. A loop over `scandir` is one step whose result
(`Readings`, `Cut`) is any part of the entries, cut off where the code's tests
or an error may cut it off; entries do not change inside one loop. What a loop
has still to visit is a set of which `IsNext` picks the next in path order, as
the code sorts; only the stack of `_scan_tree` is a sequence. A `Scenario`
holds the mount table, what bind mounts show, which calls on which path fail,
and the limits of the profile. `entry.is_dir` is `TakenForDirs`: a directory that
cannot be looked at may be taken for a leaf (storage.py:460-464). The reported nested children, sorting and error
texts are left out; sums, caps, deduplication and completeness are kept.
`TreeAssumption` and `PathAssumption` say what a path is: the paths above one
contain one another, only directories are above others, and what lies beneath a
path that comes late comes late. `IsHost` says that a scenario is one a kernel
can show: the target is on a mount of the host, mounts have ids of their own,
and what a path shows of another comes from a mount beneath the target.

### DeletedOpenFiles

`Exit`, `Fork`, `Reopen` and `Unlink` change the host between any two system
calls; a pid may be used again. `readlink` and `stat` of one descriptor are two
steps. A listing that a cap or the deadline cuts is any subset (`Listings`). The
mount table of a process is the set of devices it shows. `kept` is history: the
descriptors that hold a deleted file since the scan began.

### PressureScan and K3sVolumes

Paths are numbers in path order, `Above[n]` the paths that contain `n`. A root is
looked at and listed in two steps, so it may go in between. The time
slice of a child is one deadline that may pass at any step (`Expire`); the
division of entries is computed as in the code. The children found are a set per
root; their order, which decides whom the total budget leaves out and who is
scanned next, is `Precedes`: the first of every root, then the second of every
root. A directory pushes its entries in any order. `Foreign`, `Links` and `Late`
are fixed parts of the host; what lies beneath a late path is late.

`_du_path` asks for its path with `path.exists()` (server.py:2476), which follows
a link, and looks at everything else with `lstat`, which does not. Where a link
leads is not modelled, only the answers that `exists()` can give of one
(`Exists`): it is there, or it leads nowhere, or it leads where nothing can be
looked at. The last raises with the Python 3.13 of the Dockerfile and is recorded
as an error; the second gives a result with `exists: false`, no entries and no
flag (`NotThere`). An absolute link beneath `ROOTFS=/host` is resolved in the
container and mostly leads nowhere. Links further down are only ever looked at
with `lstat`.

`K3sVolumes` reads each list
page by page from a cluster in which claims and volumes are provisioned, bound
and removed meanwhile; a page may fail or, for a timeout while
its body is read (no `URLError`, so `_k8s_list` does not catch it), end the call.
A walk of one path is one step there, because
`PressureScan` looks at it step by step; a walk that is cut or refused something
has measured any part within its slice. Only directories are taken for children
of a root. `Device` says which file system a path is on: a walk stays on that of
its path (`OnDevice`) and does not call it partial that it skipped another, so
`CompleteCoversVolumes` speaks of the files of a volume on its own file system.
The roots and the paths still to be
scanned are sets; `Precedes` is the order in which the code scans, and by which
`max_paths_per_request` cuts: the paths of the records in their order, then the
directories found beneath the roots.
The code drops a root that is configured twice and not one that lies beneath
another, so `Roots` is any set of paths and `EachByteOnce` is stated for roots
and volumes of which none lies within another. `stable` is history.

### Attribution

metrics-server is asked first (`Metrics`): it answers with containers, with none,
or fails, and may fail after some; only without any containers the processes are
looked at. `errors` keeps apart which of the two lists failed, because both are
listed in one answer while only a failed pod list makes the index short. Then
the pods are listed, then the pids (`ListPids`); each pid is looked at in
ascending order (`Iterate`) and its memory asked for in a step of its own
(`Measure`), and then the cgroup of each is read and matched (`MatchCgroup`).
Between any two steps a process starts
under a free pid or exits, a status catches up with a restarted container, a pod
goes. The memory of a process may be refused, which counts as 0, and so may its
cgroup, which matches nothing; neither is an error in the answer
(server.py:2073, 2151, 251). `rss` says of which process each pid told the
memory. A cgroup path is what it says: a container, and with `uids` its pod.
`steady` and `unread` are history: what was there all the time, which pids were
used again, and which processes did not let their cgroup be read.

### Exporter, SourceMetrics, ExportPayload, ExportSignals

Instants of the monotonic clock appear as ages, capped at the volume interval,
past which nothing can tell them apart; so the model needs no bound on time. A
collector ends as `ok`, `partial` (its snapshot lists errors) or `raised`; a
request ends as `accepted`, `refused` or `raised`. `disturbed` behaviours are
those in which the process may be interrupted and the mapping may raise.
`since_volume` is history: the age of the last volume collection, kept apart
from the program's own `last_volume_at`.

A snapshot in `SourceMetrics` is what the mapping finds in it: the lists of
labels, and which optional fields are present. Points have a name and labels;
their values are left out, except that of `source.up`. `IsCollection` says what
a cycle may have collected: a snapshot of some of the eight sources, each
answered or raised, with any lists, of which those that come from the keys of a
mapping, or from the names of objects of one kind, have no entry twice
(`ListsOnce`). What the code does not keep apart itself, the claims of volumes,
the names of checks and the configured objects, may recur.

In `ExportPayload` a list is its length. `fits` is how many of its first
elements the cap has room for (-1 if not even the empty body fits), and any
value is possible, so nothing is assumed about the sizes of single points or records except that a longer list has a
longer body. `ExportSignals` gives it the length of the mapped points.

## Runs

| Run | Instance | What it shows |
|---|---|---|
| `snapshots` | 2 callers, 2 workers, 1 profile, 2 ticks, bound of one tick, threads may not start | five safety properties, the action property and the refinement of `SingleFlight` |
| `snapshots_live` | 2 callers, 1 worker, a clock that may be set back, fair; 121,000 states | promised refreshes are published; the fair refinement |
| `snapshots_start_fails` | 1 caller, threads may not start | **violation**: the mark stays for ever |
| `usage_scan` | 8 paths; depths 1 to 3, caps 3 and 5, one failing call, nine mount tables, one change; 268,000 states | completeness, counting under mounts, hard links, the end of the walk |
| `usage_scan_depth` | depths 2 and 3, nothing changes | **violation**: depth changes what is counted |
| `usage_scan_mounts` | a container's own mount table | **violation**: a repeated mount is walked twice |
| `exporter` | one fast source and the volumes, intervals 2 and 5; 47,000 states | cadence, overlap, exit status, no failure stops the loop |
| `export_signals` | snapshots of eight sources with up to two failures (and all), every room; 106,000 states | nothing uncounted, shallow cuts, health first, one point per series |
| `deleted_open` | 3 pids, 2 descriptors each, 3 files, 2 changes, refusals, caps, the deadline; 709,000 states | completeness and category under churn |
| `pressure_scan` | 9 paths, 3 roots of which one covers another, a link, four limits, one fault, one change; 320,000 states | the total budget, no starved child, exact roots |
| `k3s_volumes` | 5 clusters, 11 paths with a plain file beneath a root and another file system beneath a volume, pages of 2, 2 changes, 1 failure; 404,000 states | completeness, bytes once, rollups |
| `attribution` | 3 hosts to start from, 3 pids, 6 processes, 5 containers in 2 pods, 3 changes, any read refused; 2,227,000 states | processes and memory go to their own pod |

Every property is also checked against a changed definition that a plausible
bug would give (`mutants` in PROJECT.json): with it, the property fails.

### Bounds, and why they are enough

* Two callers and two workers are the smallest number that race in every pair:
  two requests, a request and a worker, two workers of consecutive refreshes. An
  ended worker's identity is used again, so refreshes are not bounded in number.
  One profile is enough because state of different profiles shares only the
  lock; the proofs hold for any number of profiles, callers and workers. Two
  ticks with a freshness bound of one let a snapshot be young, at the bound and
  past it, and a second one replace it.
* The tree of `usage_scan` has a file and a directory inside a directory, a late
  file, a mount point with a file below it, and two links in different children
  of the target, one of them at the top. Caps of 3 and 5 fall inside a
  directory, between two and at the end. The mount tables are the ways two
  mounts can relate: bind, whole, subtree, under, over and across the target.
* Two changes of the host let a file lose its name and its descriptor, or a pid
  go and come back, within one scan of `deleted_open`; three changes in
  `attribution` let a container exit, restart under the same pid and have its
  status caught up with. Refusals are not bounded there: any read of any process
  may be refused.
* The limits of `pressure_scan` and `k3s_volumes` have fewer entries than
  children, fewer than paths, and more than both; pages of two split every list.
* The exporter's intervals are not multiples, so volume scans fall between
  cycles; cycles may take longer than either. Snapshots of `export_signals` give
  fewer points than the cap of 60 and more; below it the loops pass every branch
  of the tenth: below ten, exact tens, and the point at which 20 falls to 18.

`CHECK_DEADLOCK FALSE` is set only for the models of calls that return.

### Fairness

`HostUsageSnapshots`: weak fairness for every step of a thread (a runnable
thread is scheduled; a scan ends, because `UsageScan` shows the walk does), and
strong fairness for taking the lock, because `threading.Lock` makes no promise
of order and a thread may find it taken again and again. No fairness for `Enter`:
nobody has to call. `UsageScan`: weak fairness of the walk, that is, system calls
return. `Exporter`: weak fairness for time, for the event loop, and for the end
of collectors (bounded scans and API timeouts) and requests (HTTP timeout).
`ExportSignals`: weak fairness of its loops, which wait for nobody.

## Findings

1. **A refresh that cannot start is never retried** (`snapshots_start_fails`).
   `request` sets the mark at storage.py:745 and calls `thread.start()` at 754.
   If that raises, the mark stays, and every later request finds a refresh
   running. docs/host-storage.md:12 tells the client to poll until
   `refresh.running` is false.
2. **The reporting depth changes what is counted** (`usage_scan_depth`).
   `_scan_level` measures its path (storage.py:443-448) without asking the budget
   and without `seen_inodes`, both of which `_scan_tree` uses. At depth 2 and
   more, hard-linked files at the top count at every name, and the entry cap is
   passed. docs/host-storage-profiles.md:8-9 says that totals and entry counts
   are identical at every depth.
3. **A mount of the host's root file system is walked twice in a container**
   (`usage_scan_mounts`). The mount table of the container has two records with
   the public path "/", and `_owning_mount` (storage.py:171-175) takes the
   container's own. The file system of the profile is then not among the mounts
   already seen, and a second mount of the whole of it below the profile is
   entered. docs/host-storage-snapshot.md:19-20 says that same-filesystem bind
   mounts are skipped.

Met while modelling, without a run of their own; the properties are stated so
that they leave these cases out, and say so:

* A deleted file that one process hands to another during the walk can be missed
  by a summary that says it is complete (docs/host-storage-logs-configuration.md
  24-26 promises that churn stays visible). `CompleteHasEveryHeld` speaks of
  descriptors that hold their file all the time.
* If the list of volumes fails, the claims have no path and the rollup of their
  namespace says `used_bytes_complete` with nothing in it; the answer as a whole
  is not complete. `RollupHoldsItsVolumes` assumes that the lists could be read.
* A pid that is used again during a call gives the memory of the process that
  was seen to the container that runs when the cgroup is read. `MemoryIsOwn`
  excludes it (`steady.reused`).
* A link directly beneath a pressure root that leads nowhere is answered with
  `exists: false` and no flag, although it is there (server.py:2476-2483): the
  root is not truncated and has no errors, and a path beneath it was not
  measured. `RootIsExact` leaves out the links that say so, and
  `NoChildIsStarved` too.
* A refused cgroup or memory leaves no error: a process of a pod is given to
  nothing, or adds 0 to a total that looks whole (server.py:251, 2074).
  `AttributionIsOwn` and `MemoryIsOwn` say what holds of the processes that could
  be read.
* A process without a container status is named after the only container of its
  pod, even if that is the sandbox. `AttributionIsOwn` says its pod is right.
* A released volume beside its successor, two checks of one name, or an object
  that two configured resources of one name list, give two points for one series
  (`NamesAreOwn` excludes them).
* A failed health, file system or volume source still gives the gauges that are
  computed from missing fields, such as "schedulable".
* A log root equal to or beneath a journald root is measured for both
  (storage.py:807).

## What is proved

From the assumptions on the constants that the modules name, and nothing else:

* `HostUsageSnapshotsProofs`. `InductiveInvariant` proves `IInv`.
  `OneRefreshPerProfile` alone is not inductive: a caller that decided to refresh
  on a mark it read earlier could break it. `LockInv` says who holds the lock in
  which place, `ReadInv` that what a caller read is still true when it decides;
  together they make `Register` atomic. `AwaitInv` and `OrderInv` say where
  promises and snapshots are between the two writes of a worker. The safety
  properties of the run follow; `FreshAnswersAreYoung` for any skew of the wall
  clock, by `ClockInv`. `Implements` is the refinement: `Register` maps to `Look`
  or `Launch`, `Publish` to `Land`, `Return` and `StartFails` to `Discard`, every
  other step to a stutter.
* `ExporterProofs`, on the trimming loops: `PayloadInv` is the conjunction of all
  parts as one invariant. The core is arithmetic: a turn removes at most a tenth
  of what is longer than the room (`ShallowTurn`), and below twenty points it
  removes one, at twenty two, so of a prefix of eighteen no more is cut than the
  room demands (`HealthTurn`).
* `ExporterProofs`, on the points: a cycle's list is one of `ExportPayload`
  (`SignalsArePayloads`), so its invariant holds of it. `IsFamily` is what one
  item is mapped to, points that carry its labels or one label more, none of
  them twice; families of items that are labelled differently make a block
  (`FamiliesMakeBlock`), and blocks whose names differ can be put after each
  other (`JoinBlocks`). Each of the eight mappings is shown to be such a block,
  with the names it uses (`ContentionBlock` to `VolumeBlock`); the eight sets of
  names have nothing in common (`NamesApart`). `SeriesHaveOnePoint` follows for
  every collection of snapshots, and `EverySourceIsTold` from the place of the at
  most eighteen health points at the beginning (`HealthOfSources`) and
  `HealthSurvives`. The library has no fact about `FlattenSeq`;
  `CollectionLemmas` derives them from its definition (`FlattenStepwise`) with a
  least counterexample for an induction. The provers do not know that a literal
  is a string, so `Texts` is `STRING` and the literals of the mapping.
* `ExporterProofs`, on the loop: `RunInv` says that outside its phase nothing runs, which
  makes cycles disjoint; `AgeInv` ties `since_volume` to the program's own
  `last_volume_at`, which is assigned only after a cycle; `ErrorInv` ties the
  report to what failed. `TypeOK`, `ExitTellsFailure`, `CyclesDoNotOverlap` and
  `VolumeCadence` follow for any sources, signals and intervals.
* `DeletedOpenFilesProofs`: the heart is `CountInv`: while nothing was cut or
  refused, the descriptors that held their deleted file all along and are behind
  the scan are at most as many as the references counted for it. A descriptor
  gets behind the scan silently only if it is closed or its process is gone
  (`SilentIsGone`), and then it is none of these. `EndInv` says that a walk that
  was not cut has everything behind it. `HeldIsReported` and `ReclaimedIsReal`
  follow for any number of processes, descriptors, files and changes.
* `UsageScanProofs`: the recursion is a stack of frames, and `Left` is what all
  of them together have still to visit. `Separate` says that the frames divide it,
  that none of it lies above or beneath the rest of another frame, and that none
  of it was measured; so a path is measured once. `CountInv` says that the sizes
  held by the frames and the total add up to what was measured, `CoverInv` that
  a path that stayed in place is left, was measured by one of its names, or has
  a flag in a result on the stack: every return hands the flags up, which is what
  `_absorb` has to get right on each level. `FlatInv` holds for one reported
  level, where every measured inode is in `seen_inodes`. `Complete`, `Once` and
  `FlatOnce` follow for every tree, mount table, profile and fault. At two levels
  `CountedOnce` still holds for paths, while inodes may recur (finding 2). A
  path that a mount of the container itself lies above (finding 3) is outside
  `CompleteIsExact`, which `OnTargetMount` says.
* `PressureScanProofs`: `PlanInv` and `CallInv` say that what is left is divided
  over the children and the stack, that no path of it lies above another, and
  that the entries of a result are the paths counted in the child's own subtree.
  `BudgetInv` keeps a whole slice in reserve for every child that is left; it
  holds after the plan because in an order no more than `total` children have
  fewer than `total` before them, and the share times the children is within the
  total. `CoverInv` says that a result without a flag has counted what is not on
  its stack, `FairInv` that a child within its slice is cut only by time.
  `DiscoverInv` says the same of the discovery: a root without a flag found an
  ancestor of everything that stays beneath it. `Missed` is what a result
  without a flag may have left out: its child, if that is a link and the result
  says that it does not exist.
* `AttributionProofs`: `SeenInv` says that a process that lives on still has the
  pid it was seen under, and that no process was seen under two; `IndexInv` that a
  list without an error has every container id that stays; so what the cgroup of
  such a pid matches, if it can be read, is its own. Only the pod list counts
  for that: whether metrics-server failed does not matter. `RssInv` says that no
  two pids told the memory of one process, and that one that lives on told its
  own or nothing. `WalkInv` says that the walk has every living
  process behind it or still to come, `MemoryInv` that each total is the sum over
  what the processes told whose rows made it. `MemoryIsCounted` follows: no
  process that lives through the call and lets its cgroup be read is left out of
  its container, and none of another pod is added. Assumed are finitely many pids and processes.
* `K3sVolumesProofs`: `ListInv` says that a list that was read, or is being read,
  has every item that was there all the time, or it is still on a page to come;
  a failure leaves an error, so an answer without errors has them all.
  `DiscoverInv` says the same of the directories beneath the roots. `PlanInv` says
  that a path of a record or of a discovered directory is still to be scanned,
  was scanned, or a cap was hit; `ScanInv` that a scan that is not partial has
  every file of its file system that stayed. The four together give `CompleteAnswers` and
  `CompleteNamespaces`. `BytesOnce` needs in addition that the measured parts of
  any two paths are disjoint (`MeasuredApart`), that each path of a claim is
  counted in one namespace, that of its first record (`FirstRecord`,
  `CountedApart`), and that sums over disjoint sets add up
  (`CardinalitiesAddUp`). Assumed are finitely many claims and paths, claims
  ordered by namespace as the code sorts them, and a tree of paths.

All of these rest on `CollectionLemmas`. The library's induction theorems cannot
be used here, but induction over a finite set can: `SmallestSet` gives, of any
collection of its subsets, one that has no other beneath it, which is enough for
what `SumFunctionOnSet` of the community modules computes (`SumsExist`,
`SumTakeOut`, `SumOfOneChanged`), for the largest and the least of a set of
numbers (`LeastNumber` stands in for induction over the length of a sequence),
for the first ones of an order (`FirstOnes`), and for the entry of a directory
through which a path is reached (`EntriesCoverAll`).

The inductive invariants are invariants TLC has checked on the instances of the
runs before they were proved (they are not among the runs' properties, which are
what the code promises).

Every safety invariant and action property that a run checks is a theorem, and so
is the refinement of `SingleFlight`. Only model-checked is liveness
(`PromiseKept`, `ScanEnds`, `KeepsMeasuring`, `TrimEnds` and the fair refinement),
because fairness and `ENABLED` are out of the prover's reach. The three
properties that runs violate are findings and have no theorem.

## Not modelled, and what is left

* Host log usage: one `_scan_tree` per root under a shared budget; the walk is
  that of `UsageScan`, the division that of `PressureScan`. The one behaviour of
  its own, nested roots, is noted above.
* Profile, freshness and condition configuration: validation at import and one
  subtraction, sequential and stateless.
* Field selection over Kubernetes objects and host metrics, allowlisted file
  reads: stateless formatting. OTLP encoding and HTTP: formatting and I/O whose
  outcomes `Exporter` uses. `bounded_log_body`: formatting by length. Credentials
  and TLS of the Kubernetes transport: configuration. Build and release scripts.

Next would be a module for `scan_log_roots`, with a walk for each root under one
budget and one `seen_inodes`.

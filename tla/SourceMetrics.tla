---------------------------- MODULE SourceMetrics ----------------------------
(* metric_points of exporter.py: the series that the snapshots of one cycle   *)
(* are mapped to, in the order they are listed in.  A snapshot is what the    *)
(* mapping finds in it; a list of items is the list of what their series are  *)
(* labelled with.  Of the readings only source.up has a value here.           *)
EXTENDS Integers, Sequences, FiniteSets, SequencesExt

CONSTANT
    Windows     \* of pressure stall averages: avg10, avg60, avg300

ASSUME WindowsAssumption == Windows \in Seq(STRING) /\ IsInjective(Windows)

(* A source that raised has nothing but its error. *)
Raised == [collection_error |-> TRUE, errors |-> 1]
HasFailed(snapshot) == snapshot.collection_error

Point(name, labels) == [name |-> name, labels |-> labels, value |-> "read"]
Each(items, F(_)) == FlattenSeq([i \in DOMAIN items |-> F(items[i])])
EachOf(name, labels, values) == [i \in DOMAIN values |-> Point(name, Append(labels, values[i]))]
Once(items) == SetToSeq(ToSet(items))

-----------------------------------------------------------------------------
ContentionPoints(s) ==
    Each(s.psi, LAMBDA x : EachOf("psi.stall", x, Windows) \o <<Point("psi.stall_time", x)>>)
    \o EachOf("vm.events", <<>>, s.vm_counters)
    \o Each(s.devices, LAMBDA d :
          EachOf("block_io.bytes", <<d>>, <<"read", "write">>)
          \o EachOf("block_io.operations", <<d>>, <<"read", "write">>)
          \o <<Point("block_io.busy_time", <<d>>)>>)

FilesystemPoints(f) ==
    EachOf("kubelet.filesystem", <<f>>, <<"availableBytes", "capacityBytes", "usedBytes">>)
    \o EachOf("kubelet.filesystem.inodes", <<f>>, <<"inodesFree", "inodes", "inodesUsed">>)

(* The pods are added up by namespace. *)
NamespacePointsByPod(pods) ==
    Each(pods, LAMBDA n : <<Point("namespace.pods", <<n>>)>>)
NamespacePoints(pods) ==
    Each(Once(pods), LAMBDA n :
        <<Point("namespace.pods", <<n>>), Point("namespace.cpu.usage", <<n>>),
          Point("namespace.memory.working_set", <<n>>),
          Point("namespace.ephemeral_storage.used", <<n>>)>>)
ResourceUsagePoints(s) ==
    (IF ~s.node THEN <<>>
     ELSE <<Point("kubelet.cpu.usage", <<"node">>)>>
          \o EachOf("kubelet.memory", <<"node">>,
                    <<"availableBytes", "usageBytes", "workingSetBytes", "rssBytes">>))
    \o Each(s.filesystems, FilesystemPoints)
    \o <<Point("kubernetes.pods", <<>>)>>
    \o NamespacePoints(s.pods)

(* Whether the node is schedulable, and its taints, are listed even for a     *)
(* snapshot without a node; the counts of equal events are added up.          *)
HealthPointsOf(s) ==
    <<Point("node.schedulable", <<>>), Point("node.taints", <<>>)>>
    \o IF HasFailed(s) THEN <<>>
       ELSE EachOf("node.condition", <<>>, s.conditions)
            \o Each(Once(s.events), LAMBDA e : <<Point("events", e)>>)

(* The states of jobs are added up by namespace. *)
ScheduledWorkPoints(s) ==
    Each(Once(s.jobs), LAMBDA n : EachOf("jobs", <<n>>, <<"active", "failed", "jobs", "succeeded">>))
    \o Each(s.cronjobs, LAMBDA c :
          (IF c.succeeded THEN <<Point("cronjob.last_success_age", c.labels)>> ELSE <<>>)
          \o <<Point("cronjob.active_jobs", c.labels), Point("cronjob.suspended", c.labels)>>)

(* A missing file has no age. *)
FreshnessPoints(s) ==
    Each(s.checks, LAMBDA c : <<Point("freshness.healthy", <<c.name>>)>>
                              \o IF c.exists THEN <<Point("freshness.age", <<c.name>>)>> ELSE <<>>)

(* An object without conditions has the one its readiness is derived from. *)
ConfiguredConditionPoints(s) ==
    Each(s.items, LAMBDA o : EachOf("resource.condition", o.labels,
                                    IF o.conditions = <<>> THEN <<"Ready">> ELSE o.conditions))

RootFields == <<"total", "free", "available", "reserved", "pressure_used", "until_warn",
                "until_critical", "over_warn", "over_critical">>
RootFilesystemPoints(s) ==
    (IF HasFailed(s) THEN <<>>
     ELSE EachOf("filesystem.bytes", <<>>, RootFields)
          \o EachOf("filesystem.utilization", <<>>, <<"used_percent", "inodes_used_percent">>))
    \o <<Point("filesystem.healthy", <<>>)>>

(* A volume that names no claim is labelled "default" and "unbound". *)
ClaimLabels(v) == IF v.claim = "" THEN <<"default", "unbound">> ELSE <<v.namespace, v.claim>>
ClaimPoints(v) ==
    (IF v.measured THEN <<Point("claim.used", ClaimLabels(v))>> ELSE <<>>)
    \o (IF v.requested THEN <<Point("claim.requested", ClaimLabels(v))>> ELSE <<>>)
    \o <<Point("claim.capacity", ClaimLabels(v)), Point("claim.scan_healthy", ClaimLabels(v)),
         Point("claim.finalizers", ClaimLabels(v))>>
    \o EachOf("claim.condition", ClaimLabels(v), v.conditions)
VolumePoints(s) ==
    (IF HasFailed(s) THEN <<>>
     ELSE Each(s.namespaces, LAMBDA n :
              <<Point("volume.used", <<n>>)>>
              \o EachOf("volume.namespace", <<n>>, <<"volume_count", "pod_count", "truncated_volume_count">>))
          \o Each(s.volumes, ClaimPoints)
          \o <<Point("volume.unattributed_paths", <<>>)>>)
    \o <<Point("volume.unattributed_used", <<>>)>>

ReadingsOf(source, s) ==
    CASE source = "contention" -> ContentionPoints(s)
      [] source = "kubelet" -> ResourceUsagePoints(s)
      [] source = "scheduled_work" -> ScheduledWorkPoints(s)
      [] source = "freshness" -> FreshnessPoints(s)
      [] source = "conditions" -> ConfiguredConditionPoints(s)
PointsOf(source, s) ==
    CASE source = "health" -> HealthPointsOf(s)
      [] source = "filesystem" -> RootFilesystemPoints(s)
      [] source = "volumes" -> VolumePoints(s)
      [] OTHER -> IF HasFailed(s) THEN <<>> ELSE ReadingsOf(source, s)

-----------------------------------------------------------------------------
SourcesInOrder == <<"contention", "kubelet", "health", "scheduled_work", "freshness",
                    "conditions", "filesystem", "volumes">>
EachSource(snapshots, F(_, _)) ==
    Each(SourcesInOrder, LAMBDA s : IF s \in DOMAIN snapshots THEN F(s, snapshots[s]) ELSE <<>>)

SourceUp(source, s) == [name |-> "source.up", labels |-> <<source>>,
                        value |-> IF HasFailed(s) THEN 0 ELSE 1]
SourceHealthOf(source, s) == <<SourceUp(source, s), Point("source.errors", <<source>>)>>
SourceHealth(snapshots) ==
    <<Point("exporter.up", <<>>), Point("exporter.cycle.duration", <<>>)>>
    \o EachSource(snapshots, SourceHealthOf)

(* The health of all sources comes before the readings of any. *)
HealthWithReadings(snapshots) ==
    EachSource(snapshots, LAMBDA source, s : Append(PointsOf(source, s), SourceUp(source, s)))
Points(snapshots) == SourceHealth(snapshots) \o EachSource(snapshots, PointsOf)

-----------------------------------------------------------------------------
(* What a snapshot is.  What comes from the keys of a mapping, or from the    *)
(* names of one kind of object, is listed once.                               *)
Labels == Seq(STRING)
Snapshots(source) ==
    CASE source = "contention" ->
           [collection_error : {FALSE}, psi : Seq(Labels), vm_counters : Labels, devices : Labels]
      [] source = "kubelet" ->
           [collection_error : {FALSE}, node : BOOLEAN, filesystems : Labels, pods : Labels]
      [] source = "health" -> [collection_error : {FALSE}, conditions : Labels, events : Seq(Labels)]
      [] source = "scheduled_work" ->
           [collection_error : {FALSE}, jobs : Labels,
            cronjobs : Seq([labels : Labels, succeeded : BOOLEAN])]
      [] source = "freshness" ->
           [collection_error : {FALSE}, checks : Seq([name : STRING, exists : BOOLEAN])]
      [] source = "conditions" ->
           [collection_error : {FALSE}, items : Seq([labels : Labels, conditions : Labels])]
      [] source = "filesystem" -> [collection_error : {FALSE}, root : {"read"}]
      [] source = "volumes" ->
           [collection_error : {FALSE}, namespaces : Labels,
            volumes : Seq([namespace : STRING, claim : STRING, requested : BOOLEAN,
                           measured : BOOLEAN, conditions : Labels])]
ListsOnce(source, s) ==
    CASE source = "contention" ->
           IsInjective(s.psi) /\ IsInjective(s.vm_counters) /\ IsInjective(s.devices)
      [] source = "kubelet" -> IsInjective(s.filesystems)
      [] source = "health" -> IsInjective(s.conditions)
      [] source = "scheduled_work" -> IsInjective([i \in DOMAIN s.cronjobs |-> s.cronjobs[i].labels])
      [] source = "volumes" -> /\ IsInjective(s.namespaces)
                               /\ \A i \in DOMAIN s.volumes : IsInjective(s.volumes[i].conditions)
      [] OTHER -> TRUE
IsSnapshot(source, s) == s = Raised \/ (s \in Snapshots(source) /\ ListsOnce(source, s))
IsCollection(snapshots) ==
    /\ DOMAIN snapshots \subseteq ToSet(SourcesInOrder)
    /\ \A s \in DOMAIN snapshots : IsSnapshot(s, snapshots[s])
=============================================================================

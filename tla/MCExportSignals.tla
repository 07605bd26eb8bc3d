--------------------------- MODULE MCExportSignals ---------------------------
(* Snapshots for ExportSignals: with and without volumes, up to two sources   *)
(* that raised, no to three block devices, and labels that recur.             *)
EXTENDS ExportSignals, TLC

OneWindow == <<"avg10">>
Fast == {"contention", "kubelet", "health", "scheduled_work", "freshness", "conditions", "filesystem"}

Snapshot(source, devices) ==
    [collection_error |-> FALSE] @@
    CASE source = "contention" -> [psi |-> <<<<"cpu", "some">>, <<"io", "full">>>>,
                                   vm_counters |-> <<"pgmajfault">>, devices |-> devices]
      [] source = "kubelet" -> [node |-> devices # <<>>, filesystems |-> <<"node", "image">>,
                                pods |-> <<"apps", "apps", "kube-system">>]
      [] source = "health" -> [conditions |-> <<"Ready">>,
                               events |-> <<<<"Warning", "BackOff">>, <<"Warning", "BackOff">>>>]
      [] source = "scheduled_work" -> [jobs |-> <<"apps", "apps">>,
             cronjobs |-> <<[labels |-> <<"apps", "a">>, succeeded |-> TRUE],
                            [labels |-> <<"apps", "b">>, succeeded |-> FALSE]>>]
      [] source = "freshness" -> [checks |-> <<[name |-> "backup", exists |-> TRUE],
             [name |-> IF Len(devices) = 3 THEN "backup" ELSE "other", exists |-> FALSE]>>]
      [] source = "conditions" -> [items |-> <<[labels |-> <<"certs", "apps", "a">>, conditions |-> <<>>],
             [labels |-> <<"certs", "apps", IF Len(devices) = 1 THEN "a" ELSE "b">>,
              conditions |-> <<"Ready", "Issuing">>]>>]
      [] source = "filesystem" -> [root |-> "read"]
      [] source = "volumes" -> [namespaces |-> <<"apps">>, volumes |-> <<
             [namespace |-> "apps", claim |-> "a", requested |-> TRUE, measured |-> TRUE,
              conditions |-> <<"Resizing">>],
             [namespace |-> "apps", claim |-> IF Len(devices) = 2 THEN "a" ELSE "", requested |-> FALSE,
              measured |-> FALSE, conditions |-> <<>>]>>]

Devices == {<<>>, <<"sda">>, <<"sda", "sdb">>, <<"sda", "sdb", "sdc">>}
Collected(sources, raised, devices) ==
    [s \in sources |-> IF s \in raised THEN Raised ELSE Snapshot(s, devices)]
EveryCollection ==
    {Collected(S, raised, d) : S \in {Fast, Fast \cup {"volumes"}}, d \in Devices,
        raised \in {R \in SUBSET (Fast \cup {"volumes"}) : Cardinality(R) <= 1}
                   \cup {{"contention", "kubelet"}, Fast}}
=============================================================================

---------------------------- MODULE ExportSignals ----------------------------
(* The middle of run_cycle in exporter.py: the snapshots of one cycle are     *)
(* mapped to points and records (SourceMetrics), and each of the two signals  *)
(* is cut until its body fits (ExportPayload).                                *)
EXTENDS ExportPayload, SourceMetrics

CONSTANT Collections    \* the snapshots a cycle may have collected, by source

ASSUME CollectionsAssumption == \A c \in Collections : IsCollection(c)
ASSUME HealthAssumption == HealthPoints = 2 + 2 * Len(SourcesInOrder)

VARIABLE collected
signalVars == <<payloadVars, collected>>

(* One record for every source. *)
Listed == IF signal = "metrics" THEN Len(Points(collected)) ELSE Cardinality(DOMAIN collected)

SignalsInit ==
    /\ collected \in Collections /\ signal \in {"metrics", "logs"} /\ listed = Listed
    /\ PayloadInit
SignalsNext == PayloadNext /\ UNCHANGED collected
SignalsSpec == SignalsInit /\ [][SignalsNext]_signalVars /\ WF_signalVars(SignalsNext)

-----------------------------------------------------------------------------
(* docs/signoz-export-bounds.md:17, "An exception produces a partial log and  *)
(* failed source-health metric": while the body has room for the health of    *)
(* all sources, the points that are sent say of every source that was started *)
(* whether it raised, whatever the others list and however much is cut.       *)
EverySourceTold ==
    signal = "metrics" /\ pc = "done" /\ fits >= Len(SourceHealth(collected)) =>
        LET sent == ToSet(SubSeq(Points(collected), 1, kept))
        IN  \A s \in DOMAIN collected : SourceUp(s, collected[s]) \in sent

(* metric_points, "stable, low-cardinality metric series": no series has two  *)
(* points in one request, which a receiver would take for one.  The snapshots *)
(* themselves may list two volumes for one claim (a released one beside its   *)
(* successor, or any two that name no claim), two checks of one name, or an   *)
(* object twice for two configured resources of one name.                     *)
Answered(s) == s \in DOMAIN collected /\ ~HasFailed(collected[s])
NamesAreOwn ==
    /\ Answered("volumes") =>
          LET v == collected["volumes"].volumes IN IsInjective([i \in DOMAIN v |-> ClaimLabels(v[i])])
    /\ Answered("freshness") =>
          LET c == collected["freshness"].checks IN IsInjective([i \in DOMAIN c |-> c[i].name])
    /\ Answered("conditions") =>
          LET o == collected["conditions"].items
          IN  /\ IsInjective([i \in DOMAIN o |-> o[i].labels])
              /\ \A i \in DOMAIN o : IsInjective(o[i].conditions)
OneSeriesOnePoint ==
    pc = "cap" /\ NamesAreOwn =>
        LET points == Points(collected)
        IN  Cardinality({<<p.name, p.labels>> : p \in ToSet(points)}) = Len(points)
=============================================================================

---------------------------- MODULE ExportPayload ----------------------------
(* _bounded_metrics_body and _bounded_logs_body of exporter.py: the loops     *)
(* that drop the tail of a signal until its encoded body fits the payload     *)
(* cap.  A list is its length; `fits` is how many of its first elements the   *)
(* cap has room for, since the body only grows with the list; it is -1 if not *)
(* even the body of an empty list fits.                                       *)
EXTENDS Integers

CONSTANTS
    MaxListed,          \* bound: the length of the longest list
    MaxMetricPoints,    \* config.max_metric_points
    HealthPoints        \* the points metric_points lists first: exporter and source health

ASSUME BoundsAssumption ==
    /\ MaxListed \in Nat
    /\ MaxMetricPoints \in Nat /\ HealthPoints \in Nat
    /\ HealthPoints <= 18                  \* 2 and 2 for each of at most 8 sources
    /\ HealthPoints <= MaxMetricPoints     \* load_config: at least 100

VARIABLES
    signal,             \* "metrics" or "logs"
    listed,             \* len(points), len(records)
    fits,
    pc, kept, dropped
payloadVars == <<signal, listed, fits, pc, kept, dropped>>

PayloadTypeOK ==
    /\ signal \in {"metrics", "logs"}
    /\ listed \in 0 .. MaxListed /\ fits \in -1 .. MaxListed
    /\ pc \in {"cap", "trim", "done"}
    /\ kept \in 0 .. MaxListed /\ dropped \in 0 .. MaxListed

PayloadInit ==
    /\ signal \in {"metrics", "logs"}
    /\ listed \in 0 .. MaxListed /\ fits \in -1 .. MaxListed
    /\ pc = "cap" /\ kept = 0 /\ dropped = 0

-----------------------------------------------------------------------------
(* points[: config.max_metric_points]; log records are not capped. *)
Capped(n) == IF signal = "metrics" /\ n > MaxMetricPoints THEN MaxMetricPoints ELSE n

Cap ==
    /\ pc = "cap"
    /\ kept' = Capped(listed) /\ dropped' = listed - kept'
    /\ pc' = "trim"
    /\ UNCHANGED <<signal, listed, fits>>

(* A tenth of the points, at least one; one record. *)
NinthCount(n) == IF signal = "metrics" /\ n >= 9 THEN n \div 9 ELSE 1
FifthCount(n) == IF signal = "metrics" /\ n >= 5 THEN n \div 5 ELSE 1
TenthCount(n) == IF signal = "metrics" THEN n \div 10 ELSE 1
RemoveCount(n) == IF signal = "metrics" /\ n >= 10 THEN n \div 10 ELSE 1

TooLongEmpty == kept > fits
TooLongOnce == kept > 0 /\ kept > fits /\ kept = Capped(listed)
TooLong == kept > 0 /\ kept > fits

DroppedAfterCut(n) == dropped + RemoveCount(kept - n)
DroppedAfter(n) == dropped + n

Trim ==
    /\ pc = "trim" /\ TooLong
    /\ kept' = kept - RemoveCount(kept)
    /\ dropped' = DroppedAfter(RemoveCount(kept))
    /\ UNCHANGED <<signal, listed, fits, pc>>

Stop ==
    /\ pc = "trim" /\ ~TooLong /\ pc' = "done"
    /\ UNCHANGED <<signal, listed, fits, kept, dropped>>

PayloadNext == Cap \/ Trim \/ Stop
PayloadSpec == PayloadInit /\ [][PayloadNext]_payloadVars

-----------------------------------------------------------------------------
(* Every element is either sent or counted as dropped, also when a step of    *)
(* the loop removes more of them than the payload was too long by.            *)
NothingUncounted == pc # "cap" => kept + dropped = listed

(* The body that is sent fits its cap, or is empty. *)
BodyFits == pc = "done" => kept = 0 \/ kept <= fits

(* The smaller of the two. *)
Least(a, b) == IF a < b THEN a ELSE b

(* docs/signoz-export-bounds.md, "Tail records or points drop only when the   *)
(* total signal payload still exceeds its cap": of what both caps leave room  *)
(* for, records lose nothing and points at most a tenth.                      *)
CutIsShallow ==
    pc # "cap" =>
        LET room == Least(Capped(listed), fits) IN
        IF signal = "logs" THEN kept >= room ELSE 10 * kept >= 9 * room

(* The health of the exporter and of its sources is listed first; as much of  *)
(* it as there is room for is kept: the tenth is small enough for 18 points.  *)
HealthSurvives ==
    signal = "metrics" /\ pc # "cap" => kept >= Least(HealthPoints, Least(listed, fits))

(* The loop ends. *)
TrimEnds == <>(pc = "done")

(* What the proofs need of both loops. *)
PayloadInv == PayloadTypeOK /\ NothingUncounted /\ BodyFits /\ CutIsShallow /\ HealthSurvives
=============================================================================

------------------------------ MODULE Exporter -------------------------------
(* The exporter sidecar of exporter.py: run_exporter loops over cycles,       *)
(* run_cycle collects the sources concurrently, maps them and posts two       *)
(* independent signals, main turns the outcome into an exit status.  Instants *)
(* of the monotonic clock appear as ages: the time that has passed since.     *)
EXTENDS Integers, FiniteSetsExt

CONSTANTS
    FastSources,     \* the sources of every cycle
    VolumeSource,    \* the source of the slower cadence
    Signals,         \* {"metrics", "logs"}
    Interval, VolumeInterval,
    Modes,           \* how the program may be called: "loop", "once", "dry_run"
    None

ASSUME SourcesAssumption == VolumeSource \notin FastSources /\ FastSources # {}
ASSUME IntervalsAssumption ==      \* load_config: volume_interval >= interval
    Interval \in Nat \ {0} /\ VolumeInterval \in Nat /\ Interval <= VolumeInterval
ASSUME ModesAssumption ==
    /\ Modes \subseteq {"loop", "once", "dry_run"} /\ None \notin Int

VARIABLES
    mode,
    disturbed,       \* chosen once: the process may be interrupted, the mapping may raise
    phase,           \* where the loop of run_exporter is
    cycle_age,       \* time since cycle_started, or None
    volume_age,      \* time since last_volume_at, or None
    include_volume,
    task,            \* what became of the collector of each source
    snapshots,       \* what collect_sources returned for each source it started
    post,            \* what became of the request of each signal
    errors,          \* the signals named in CycleResult.errors
    remaining,       \* what is left of asyncio.sleep
    exit,            \* the exit status, or None
    since_volume     \* history: time since a volume collector was started, or None
given == <<mode, disturbed>>
vars == <<given, phase, cycle_age, volume_age, include_volume, task, snapshots, post, errors,
          remaining, exit, since_volume>>

-----------------------------------------------------------------------------
Sources == FastSources \cup {VolumeSource}
Ages == 0 .. VolumeInterval \cup {None}
Outcomes == {"ok", "partial", "raised"}      \* partial: the snapshot lists errors
Answers == {"accepted", "refused", "raised"} \* a 2xx status, another one, an exception

TypeOK ==
    /\ mode \in Modes /\ disturbed \in BOOLEAN
    /\ phase \in {"begin", "collect", "send", "report", "sleep", "ended"}
    /\ cycle_age \in Ages /\ volume_age \in Ages /\ since_volume \in Ages
    /\ include_volume \in BOOLEAN
    /\ task \in [Sources -> Outcomes \cup {"off", "running"}]
    /\ snapshots \in UNION {[S -> Outcomes] : S \in SUBSET Sources}
    /\ post \in [Signals -> Answers \cup {"off", "running"}]
    /\ errors \subseteq Signals
    /\ remaining \in 0 .. Interval
    /\ exit \in {None, 0, 1, 2}

Init ==
    /\ mode \in Modes /\ disturbed \in BOOLEAN /\ phase = "begin"
    /\ cycle_age = None /\ volume_age = None /\ since_volume = None
    /\ include_volume = FALSE
    /\ task = [s \in Sources |-> "off"] /\ snapshots = [s \in {} |-> "ok"]
    /\ post = [g \in Signals |-> "off"] /\ errors = {}
    /\ remaining = 0 /\ exit = None

-----------------------------------------------------------------------------
(* Ages are only compared with the two intervals, so they stop growing there. *)
Older(age) == IF age = None THEN None ELSE Min({age + 1, VolumeInterval})
Tick ==
    /\ cycle_age' = Older(cycle_age) /\ volume_age' = Older(volume_age)
    /\ since_volume' = Older(since_volume)
    /\ remaining' = Max({0, remaining - 1})
    /\ UNCHANGED <<given, phase, include_volume, task, snapshots, post, errors, exit>>

VolumeIsDue == volume_age = None \/ volume_age >= VolumeInterval

(* The top of the loop: a cycle starts its collectors. *)
Begin ==
    /\ phase = "begin" /\ phase' = "collect"
    /\ cycle_age' = 0
    /\ include_volume' = VolumeIsDue
    /\ since_volume' = IF include_volume' THEN 0 ELSE since_volume
    /\ task' = [s \in Sources |-> IF s \in FastSources \/ include_volume' THEN "running" ELSE "off"]
    /\ post' = [g \in Signals |-> "off"]
    /\ UNCHANGED <<given, volume_age, snapshots, errors, remaining, exit>>

CollectorEnds(s) ==
    /\ task[s] = "running"
    /\ \E o \in Outcomes : task' = [task EXCEPT ![s] = o]
    /\ UNCHANGED <<given, phase, cycle_age, volume_age, include_volume, snapshots, post, errors,
                   remaining, exit, since_volume>>

(* asyncio.gather(..., return_exceptions=True) waits for all of them. *)
FirstRaised(states) == "running" \notin states \/ "raised" \in states
Gathered(states) == "running" \notin states

Ended(status) == phase' = "ended" /\ exit' = status

(* The collectors are done: an exception becomes a snapshot like any other,   *)
(* then the snapshots are mapped, and both requests are sent.                 *)
Collected == [s \in {x \in Sources : task[x] # "off"} |-> task[s]]

Collect ==
    /\ phase = "collect" /\ Gathered({task[s] : s \in Sources})
    /\ snapshots' = Collected
    /\ IF mode = "dry_run" THEN phase' = "report" /\ UNCHANGED post
       ELSE phase' = "send" /\ post' = [g \in Signals |-> "running"]
    /\ errors' = {}
    /\ UNCHANGED <<given, cycle_age, volume_age, include_volume, task, remaining, exit, since_volume>>

(* Mapping or encoding raises: nothing between here and main catches it, and  *)
(* main calls a ValueError a usage error.                                     *)
MappingRaises ==
    /\ disturbed /\ phase = "collect" /\ Gathered({task[s] : s \in Sources})
    /\ \E status \in {1, 2} : Ended(status)
    /\ UNCHANGED <<given, cycle_age, volume_age, include_volume, task, snapshots, post, errors,
                   remaining, since_volume>>

PostEnds(g) ==
    /\ post[g] = "running"
    /\ \E a \in Answers : post' = [post EXCEPT ![g] = a]
    /\ UNCHANGED <<given, phase, cycle_age, volume_age, include_volume, task, snapshots, errors,
                   remaining, exit, since_volume>>

Sent ==
    /\ phase = "send" /\ Gathered({post[g] : g \in Signals})
    /\ errors' = {g \in Signals : post[g] # "accepted"}
    /\ phase' = "report"
    /\ UNCHANGED <<given, cycle_age, volume_age, include_volume, task, snapshots, post, remaining,
                   exit, since_volume>>

(* last_volume_at once a cycle is over. *)
VolumeAgeIfSent == IF include_volume /\ errors = {} THEN cycle_age ELSE volume_age
VolumeAgeAlways == cycle_age
VolumeAgeAfter == IF include_volume THEN cycle_age ELSE volume_age

SleepUnclamped == Interval - cycle_age
SleepFor == Max({0, Interval - cycle_age})

(* The end of a cycle: report, then return or sleep. *)
StatusZero == 0
Status == IF errors = {} THEN 0 ELSE 1
Report ==
    /\ phase = "report"
    /\ volume_age' = VolumeAgeAfter
    /\ IF mode = "loop"
       THEN phase' = "sleep" /\ remaining' = SleepFor /\ UNCHANGED exit
       ELSE Ended(Status) /\ UNCHANGED remaining
    /\ UNCHANGED <<given, cycle_age, include_volume, task, snapshots, post, errors, since_volume>>

Wake ==
    /\ phase = "sleep" /\ remaining = 0 /\ phase' = "begin"
    /\ UNCHANGED <<given, cycle_age, volume_age, include_volume, task, snapshots, post, errors,
                   remaining, exit, since_volume>>

(* KeyboardInterrupt or cancellation ends the program with status 0; threads  *)
(* of collectors and requests that run are not stopped.                       *)
Interrupt ==
    /\ disturbed /\ phase # "ended" /\ Ended(0)
    /\ UNCHANGED <<given, cycle_age, volume_age, include_volume, task, snapshots, post, errors,
                   remaining, since_volume>>

-----------------------------------------------------------------------------
Next ==
    \/ Tick \/ Begin \/ Collect \/ MappingRaises \/ Sent \/ Report \/ Wake \/ Interrupt
    \/ \E s \in Sources : CollectorEnds(s)
    \/ \E g \in Signals : PostEnds(g)

Spec == Init /\ [][Next]_vars

(* Time passes, the event loop runs what is ready, every collector and every  *)
(* request ends: each has a timeout or a bounded amount of work.              *)
Fairness ==
    /\ WF_vars(Tick) /\ WF_vars(Begin) /\ WF_vars(Collect) /\ WF_vars(Sent) /\ WF_vars(Report)
    /\ WF_vars(Wake)
    /\ \A s \in Sources : WF_vars(CollectorEnds(s))
    /\ \A g \in Signals : WF_vars(PostEnds(g))
FairSpec == Spec /\ Fairness

-----------------------------------------------------------------------------
Begins == phase = "begin" /\ phase' = "collect"
Busy == {s \in Sources : task[s] = "running"} \cup {g \in Signals : post[g] = "running"}

(* docs/signoz-export.md, "Cycles never overlap, so a slow scan may delay but *)
(* cannot duplicate the next cycle": whatever fails in a cycle, nothing of it *)
(* still runs when the next one starts its collectors.                        *)
CyclesDoNotOverlap == [][Begins => Busy = {}]_vars

(* A cycle measures the volumes exactly when none has started to for the      *)
(* volume interval, whether or not the last one succeeded or was delivered.   *)
VolumeCadence ==
    [][Begins => (include_volume' <=> since_volume \in {None, VolumeInterval})]_vars

(* A one-shot export that nobody interrupts exits with status 0 exactly if    *)
(* both signals were accepted, whatever became of the sources.                *)
ExitTellsFailure ==
    ~disturbed /\ mode = "once" /\ exit # None =>
        (exit = 0 <=> \A g \in Signals : post[g] = "accepted")

(* docs/signoz-export-bounds.md, "Signal failures go to stderr, and a         *)
(* long-running exporter continues": unless it is interrupted or the mapping  *)
(* raises, no failure of a source or of a signal keeps the loop from its next *)
(* volume measurement.                                                        *)
KeepsMeasuring == mode = "loop" /\ ~disturbed => []<>(phase = "collect" /\ include_volume)

(* What the exporter keeps up from step to step: outside its phase nothing    *)
(* runs; since_volume is the age that last_volume_at has or will be given;    *)
(* the report names what failed.                                              *)
Left == phase = "ended" /\ disturbed
RunInv ==
    /\ phase # "collect" /\ ~Left => \A s \in Sources : task[s] # "running"
    /\ phase # "send" /\ ~Left => \A g \in Signals : post[g] # "running"
AgeInv ==
    /\ phase \in {"begin", "sleep"} => since_volume = volume_age
    /\ phase \in {"collect", "send", "report"} =>
          /\ since_volume = IF include_volume THEN cycle_age ELSE volume_age
          /\ cycle_age # None
ErrorInv ==
    /\ phase = "report" /\ mode # "dry_run" => errors = {g \in Signals : post[g] # "accepted"}
    /\ exit # None => phase = "ended"
IInv == TypeOK /\ RunInv /\ AgeInv /\ ErrorInv /\ ExitTellsFailure
=============================================================================

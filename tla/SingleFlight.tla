---------------------------- MODULE SingleFlight ----------------------------
(* What HostUsageSnapshots (storage.py) promises to its callers, without its  *)
(* lock, its clock or its threads.  Every profile has at most one scan in     *)
(* flight.  A request is one atomic step: it sees the cached snapshot and the *)
(* flight of its profile together, and it launches a flight only if there is  *)
(* none.  The cache changes in one way only: the flight of the profile lands. *)
CONSTANTS
    Profiles,    \* names of the configured usage profiles
    Callers,     \* the threads that may be inside request at the same time
    Snapshots,   \* what a scan may produce
    None         \* no snapshot yet

VARIABLES
    cache,       \* cache[p]: the last snapshot of p that landed, or None
    inflight,    \* inflight[p]: a scan of p has been launched and has not landed
    view         \* view[c]: the answer c holds, or None
vars == <<cache, inflight, view>>

View == [profile : Profiles, snapshot : Snapshots \cup {None}, running : BOOLEAN]

TypeOK ==
    /\ cache \in [Profiles -> Snapshots \cup {None}]
    /\ inflight \in [Profiles -> BOOLEAN]
    /\ view \in [Callers -> View \cup {None}]

Init ==
    /\ cache = [p \in Profiles |-> None]
    /\ inflight = [p \in Profiles |-> FALSE]
    /\ view = [c \in Callers |-> None]

(* The answer of a request, with whether a flight runs after it. *)
Answer(c, p, running) ==
    /\ inflight' = [inflight EXCEPT ![p] = running]
    /\ view' = [view EXCEPT ![c] = [profile |-> p, snapshot |-> cache[p], running |-> running]]
    /\ UNCHANGED cache

(* An answer may leave everything as it is only if there is a snapshot to     *)
(* show: a profile that has none is always in flight after a request.         *)
Look(c, p) == (inflight[p] \/ cache[p] # None) /\ Answer(c, p, inflight[p])

Launch(c, p) == ~inflight[p] /\ Answer(c, p, TRUE)

Discard(c) == view[c] # None /\ view' = [view EXCEPT ![c] = None] /\ UNCHANGED <<cache, inflight>>

Land(p) ==
    /\ inflight[p]
    /\ \E s \in Snapshots : cache' = [cache EXCEPT ![p] = s]
    /\ inflight' = [inflight EXCEPT ![p] = FALSE]
    /\ UNCHANGED view

Next ==
    \/ \E c \in Callers, p \in Profiles : Look(c, p) \/ Launch(c, p)
    \/ \E c \in Callers : Discard(c)
    \/ \E p \in Profiles : Land(p)

Spec == Init /\ [][Next]_vars

(* The scan of a profile ends and publishes. *)
FairSpec == Spec /\ \A p \in Profiles : WF_vars(Land(p))
=============================================================================

------------------------- MODULE HostUsageSnapshots -------------------------
(* class HostUsageSnapshots of storage.py: a cache of host usage snapshots,   *)
(* one per configured profile, that request serves at once and that daemon    *)
(* threads refresh.  Callers and workers interleave at every access to shared *)
(* state.  The lock is explicit, so the read of the refresh marker and the    *)
(* write that sets it are separate steps, as are the two writes of a worker.  *)
EXTENDS Integers, FiniteSets

CONSTANTS
    Profiles,      \* keys of self.profiles
    Callers,       \* threads that may be inside request at the same time
    Threads,       \* identities of the daemon workers; an ended one is used again
    None,          \* Python's None
    StaleAfter,    \* StaleAfter[p]: stale_after_seconds of profile p
    Limits,        \* the values of limit that callers pass
    MaxLimit,      \* 100 in the code: the largest number of children returned
    Sizes,         \* the numbers of children a scan may report
    MaxTime,       \* bound: the elapsed time at which the model's clock stops
    MaxSkew,       \* bound: how far the wall clock may be set back; 0 = never
    StartMayFail   \* whether Thread.start may raise ("can't start new thread")

ASSUME ProfilesAssumption == None \notin Profiles /\ Profiles \cap Callers = {}
ASSUME HoldersAssumption == Threads \cap Callers = {} /\ None \notin Threads \cup Callers
ASSUME StaleAfterAssumption == StaleAfter \in [Profiles -> Nat \ {0}]
ASSUME BoundsAssumption ==
    /\ MaxTime \in Nat /\ MaxSkew \in Nat /\ None \notin Nat
    /\ MaxLimit \in Nat \ {0} /\ Limits \subseteq Int /\ Sizes \subseteq Nat
    /\ StartMayFail \in BOOLEAN

VARIABLES
    uptime,           \* elapsed time
    offset,           \* wall clock minus elapsed time
    lock,             \* holder of self._lock, or None
    heap,             \* heap[p]: self._snapshots[p]; heap[c]: the object c has copied
    refresh_started,  \* self._refresh_started: the time of the mark, or None
    pc, arg, now,     \* of a caller: its place in request, its arguments, time.time()
    ref,              \* of a caller: its local `snapshot`, a key of heap, or None
    seen,             \* of a caller: its local `refresh_started`
    stale,            \* of a caller: its local `stale`
    worker,           \* worker[t]: [pc, profile, snapshot] of a daemon thread
    awaiting          \* history: profiles c was told are running, not published since
callerVars == <<pc, arg, now, ref, seen, stale>>
vars == <<uptime, offset, lock, heap, refresh_started, callerVars, worker, awaiting>>

-----------------------------------------------------------------------------
Time == 0 .. MaxTime + MaxSkew
wall == uptime + offset

(* What the refresh worker stores: when it was captured, how many children it *)
(* counted and how many it lists, whether the scan raised; `taken` is the     *)
(* elapsed time of the capture, which the program does not have; `asked` is   *)
(* the elapsed time at which request read the wall clock.                     *)
Snapshot == [captured_at : Time, taken : 0 .. MaxTime, child_count : Sizes \cup {0},
             children : Sizes \cup {0} \cup 1 .. MaxLimit, status : {"scanned", "failed"}]
View == [profile : Profiles, snapshot : Snapshot \cup {None}, running : BOOLEAN]
ASSUME NoneAssumption == None \notin Snapshot \cup View

NoArg == [name |-> None, refresh |-> FALSE, limit |-> 0, asked |-> 0]
NoWork == [pc |-> "none", profile |-> None, snapshot |-> None]

CallerPC == {"idle", "acquire", "read", "register", "start", "clip", "done"}

TypeOK ==
    /\ uptime \in 0 .. MaxTime /\ offset \in 0 .. MaxSkew
    /\ lock \in Callers \cup Threads \cup {None}
    /\ heap \in [Profiles \cup Callers -> Snapshot \cup {None}]
    /\ refresh_started \in [Profiles -> Time \cup {None}]
    /\ pc \in [Callers -> CallerPC]
    /\ arg \in [Callers -> [name : Profiles, refresh : BOOLEAN, limit : Limits,
                            asked : 0 .. MaxTime] \cup {NoArg}]
    /\ now \in [Callers -> Time]
    /\ ref \in [Callers -> Profiles \cup Callers \cup {None}]
    /\ seen \in [Callers -> Time \cup {None}]
    /\ stale \in [Callers -> BOOLEAN]
    /\ worker \in [Threads -> [pc : {"scan"}, profile : Profiles, snapshot : {None}]
                              \cup [pc : {"acquire", "publish", "pop"}, profile : Profiles,
                                    snapshot : Snapshot]
                              \cup {NoWork}]
    /\ awaiting \in [Callers -> SUBSET Profiles]

Init ==
    /\ uptime = 0 /\ offset = MaxSkew /\ lock = None
    /\ heap = [x \in Profiles \cup Callers |-> None]
    /\ refresh_started = [p \in Profiles |-> None]
    /\ pc = [c \in Callers |-> "idle"]
    /\ arg = [c \in Callers |-> NoArg]
    /\ now = [c \in Callers |-> 0]
    /\ ref = [c \in Callers |-> None]
    /\ seen = [c \in Callers |-> None]
    /\ stale = [c \in Callers |-> FALSE]
    /\ worker = [t \in Threads |-> NoWork]
    /\ awaiting = [c \in Callers |-> {}]

-----------------------------------------------------------------------------
(* Time passes; the wall clock, which request reads, may also be set back. *)
Tick ==
    /\ uptime < MaxTime /\ uptime' = uptime + 1
    /\ UNCHANGED <<offset, lock, heap, refresh_started, callerVars, worker, awaiting>>

SetBack ==
    /\ \E o \in 0 .. MaxSkew : o < offset /\ offset' = o
    /\ UNCHANGED <<uptime, lock, heap, refresh_started, callerVars, worker, awaiting>>

-----------------------------------------------------------------------------
(* request.  An unknown profile raises before anything is read, so only known *)
(* names enter; time.time() is read before the lock is asked for.             *)
Enter(c) ==
    /\ pc[c] = "idle"
    /\ \E p \in Profiles, r \in BOOLEAN, l \in Limits :
          arg' = [arg EXCEPT ![c] = [name |-> p, refresh |-> r, limit |-> l,
                                         asked |-> uptime]]
    /\ now' = [now EXCEPT ![c] = wall]
    /\ pc' = [pc EXCEPT ![c] = "acquire"]
    /\ UNCHANGED <<uptime, offset, lock, heap, refresh_started, ref, seen, stale, worker, awaiting>>

LockIgnored == TRUE
LockIsFree == lock = None
Unlock == lock' = None

AcquireRequest(c) ==
    /\ pc[c] = "acquire" /\ LockIsFree
    /\ lock' = c
    /\ pc' = [pc EXCEPT ![c] = "read"]
    /\ UNCHANGED <<uptime, offset, heap, refresh_started, arg, now, ref, seen, stale, worker, awaiting>>

(* The object that copy.deepcopy(self._snapshots.get(name)) returns. *)
AliasOf(c, p) == p
CopyOf(c, p) == c

Read(c) ==
    LET p == arg[c].name IN
    /\ pc[c] = "read"
    /\ ref' = [ref EXCEPT ![c] = IF heap[p] = None THEN None ELSE CopyOf(c, p)]
    /\ heap' = [heap EXCEPT ![c] = heap[p]]
    /\ seen' = [seen EXCEPT ![c] = refresh_started[p]]
    /\ pc' = [pc EXCEPT ![c] = "register"]
    /\ UNCHANGED <<uptime, offset, lock, refresh_started, arg, now, stale, worker, awaiting>>

(* max(0, int(now - captured_at)) >= stale_after_seconds: the threshold is a  *)
(* whole number of seconds, so rounding down does not change the comparison.  *)
OlderThan(age, p) == age > StaleAfter[p]
Reaches(age, p) == age >= StaleAfter[p]
IsStale(c, p) ==
    heap[c] = None \/ Reaches(IF now[c] > heap[c].captured_at
                              THEN now[c] - heap[c].captured_at ELSE 0, p)

NeedsRefreshAlways(c, old) == arg[c].refresh \/ old
NeedsRefresh(c, old) == (arg[c].refresh \/ old) /\ seen[c] = None

(* The rest of the critical section: decide, mark, and leave the lock. *)
Register(c) ==
    LET p == arg[c].name
        old == IsStale(c, p)
        begin == NeedsRefresh(c, old)
    IN
    /\ pc[c] = "register"
    /\ stale' = [stale EXCEPT ![c] = old]
    /\ refresh_started' = IF begin THEN [refresh_started EXCEPT ![p] = now[c]] ELSE refresh_started
    /\ seen' = IF begin THEN [seen EXCEPT ![c] = now[c]] ELSE seen
    /\ awaiting' = IF seen'[c] # None THEN [awaiting EXCEPT ![c] = @ \cup {p}] ELSE awaiting
    /\ pc' = [pc EXCEPT ![c] = IF begin THEN "start" ELSE "clip"]
    /\ Unlock
    /\ UNCHANGED <<uptime, offset, heap, arg, now, ref, worker>>

(* thread.start(), outside the lock. *)
Start(c) ==
    /\ pc[c] = "start"
    /\ \E t \in Threads :
          /\ worker[t].pc = "none"
          /\ worker' = [worker EXCEPT ![t] = [pc |-> "scan", profile |-> arg[c].name, snapshot |-> None]]
    /\ pc' = [pc EXCEPT ![c] = "clip"]
    /\ UNCHANGED <<uptime, offset, lock, heap, refresh_started, arg, now, ref, seen, stale, awaiting>>

Forget(c) ==
    /\ arg' = [arg EXCEPT ![c] = NoArg] /\ now' = [now EXCEPT ![c] = 0]
    /\ ref' = [ref EXCEPT ![c] = None]  /\ seen' = [seen EXCEPT ![c] = None]
    /\ stale' = [stale EXCEPT ![c] = FALSE] /\ heap' = [heap EXCEPT ![c] = None]
    /\ pc' = [pc EXCEPT ![c] = "idle"]

(* thread.start() raises: request ends with the RuntimeError, the mark stays. *)
StartFails(c) ==
    /\ StartMayFail /\ pc[c] = "start" /\ Forget(c)
    /\ UNCHANGED <<uptime, offset, lock, refresh_started, worker, awaiting>>

Cap(limit) == LET most == IF limit < MaxLimit THEN limit ELSE MaxLimit
              IN  IF most > 1 THEN most ELSE 1
Clipped(s, cap) == [s EXCEPT !.children = IF @ > cap THEN cap ELSE @]

(* The detail of the local snapshot is clipped in place and returned. *)
Clip(c) ==
    /\ pc[c] = "clip"
    /\ heap' = IF ref[c] = None THEN heap
               ELSE [heap EXCEPT ![ref[c]] = Clipped(@, Cap(arg[c].limit))]
    /\ pc' = [pc EXCEPT ![c] = "done"]
    /\ UNCHANGED <<uptime, offset, lock, refresh_started, arg, now, ref, seen, stale, worker, awaiting>>

Return(c) ==
    /\ pc[c] = "done" /\ Forget(c)
    /\ UNCHANGED <<uptime, offset, lock, refresh_started, worker, awaiting>>

-----------------------------------------------------------------------------
(* _refresh.  The scan ends with a snapshot, or raises and a failed snapshot  *)
(* takes its place; either is stamped with the wall clock and is published.   *)
RaiseEndsThread(status) == IF status = "failed" THEN "none" ELSE "acquire"
AfterScan(status) == "acquire"
Captured(n, status) == [captured_at |-> wall, taken |-> uptime, child_count |-> n, children |-> n,
                        status |-> status]

Scan(t) ==
    /\ worker[t].pc = "scan"
    /\ \E st \in {"scanned", "failed"} : \E n \in IF st = "failed" THEN {0} ELSE Sizes :
          worker' = [worker EXCEPT ![t] = [pc |-> AfterScan(st), profile |-> @.profile,
                                           snapshot |-> Captured(n, st)]]
    /\ UNCHANGED <<uptime, offset, lock, heap, refresh_started, callerVars, awaiting>>

AcquirePublish(t) ==
    /\ worker[t].pc = "acquire" /\ LockIsFree
    /\ lock' = t
    /\ worker' = [worker EXCEPT ![t].pc = "publish"]
    /\ UNCHANGED <<uptime, offset, heap, refresh_started, callerVars, awaiting>>

Publish(t) ==
    LET p == worker[t].profile IN
    /\ worker[t].pc = "publish"
    /\ heap' = [heap EXCEPT ![p] = worker[t].snapshot]
    /\ worker' = [worker EXCEPT ![t].pc = "pop"]
    /\ awaiting' = [c \in Callers |-> awaiting[c] \ {p}]
    /\ UNCHANGED <<uptime, offset, lock, refresh_started, callerVars>>

Pop(t) ==
    /\ worker[t].pc = "pop"
    /\ refresh_started' = [refresh_started EXCEPT ![worker[t].profile] = None]
    /\ worker' = [worker EXCEPT ![t] = NoWork]
    /\ Unlock
    /\ UNCHANGED <<uptime, offset, heap, callerVars, awaiting>>

-----------------------------------------------------------------------------
CallerStep(c) ==
    \/ AcquireRequest(c) \/ Read(c) \/ Register(c) \/ Start(c) \/ StartFails(c)
    \/ Clip(c) \/ Return(c)
WorkerStep(t) == Scan(t) \/ AcquirePublish(t) \/ Publish(t) \/ Pop(t)

Next ==
    \/ Tick \/ SetBack
    \/ \E c \in Callers : Enter(c) \/ CallerStep(c)
    \/ \E t \in Threads : WorkerStep(t)

Spec == Init /\ [][Next]_vars

(* A thread that can run is scheduled, a scan ends (its walk is bounded by a  *)
(* deadline), and a thread that keeps asking for the lock gets it in the end: *)
(* threading.Lock is not fair, hence strong fairness for the acquisitions.    *)
Fairness ==
    /\ \A c \in Callers : WF_vars(CallerStep(c)) /\ SF_vars(AcquireRequest(c))
    /\ \A t \in Threads : WF_vars(WorkerStep(t)) /\ SF_vars(AcquirePublish(t))
FairSpec == Spec /\ Fairness

-----------------------------------------------------------------------------
(* The threads that are refreshing p: callers about to start a worker for it  *)
(* and workers that have not removed its mark.                                *)
Refreshing(p) == {c \in Callers : pc[c] = "start" /\ arg[c].name = p}
                 \cup {t \in Threads : worker[t].pc # "none" /\ worker[t].profile = p}

(* At most one thread refreshes a profile, and only while the profile is      *)
(* marked: two requests that race never scan the same tree twice at once.     *)
OneRefreshPerProfile ==
    \A p \in Profiles : /\ \A a, b \in Refreshing(p) : a = b
                        /\ refresh_started[p] = None => Refreshing(p) = {}

(* Unless a thread could not be started, a mark has a thread that will remove *)
(* it: a profile is never left marked, and so never refreshed again.          *)
MarkHasThread ==
    ~StartMayFail => \A p \in Profiles : refresh_started[p] # None => Refreshing(p) # {}

Answered == {"start", "clip", "done"}

(* A client that was told a refresh is running and is later told that none is *)
(* has missed nothing: a snapshot of the profile was published in between.    *)
PolledRefreshIsNew ==
    \A c \in Callers : pc[c] \in Answered /\ seen[c] = None => arg[c].name \notin awaiting[c]

(* An answer that is not stale shows a snapshot captured less than            *)
(* stale_after_seconds before the request came in, in elapsed time: what the  *)
(* wall clock was set back is all that it can be late by.                     *)
FreshMeansYoung ==
    \A c \in Callers : pc[c] \in Answered /\ ~stale[c] =>
        heap[c] # None /\ arg[c].asked - heap[c].taken < StaleAfter[arg[c].name] + MaxSkew

(* Clipping the detail of an answer never clips the cached snapshot: a later  *)
(* caller with a larger limit still finds every child of the scan.            *)
CacheKeepsDetail ==
    \A p \in Profiles : heap[p] # None => heap[p].children = heap[p].child_count

(* A publication never replaces a snapshot by one captured earlier. *)
CapturesGoForward ==
    [][\A p \in Profiles : heap'[p] # heap[p] /\ heap[p] # None =>
          heap'[p] # None /\ heap[p].taken <= heap'[p].taken]_vars

(* A refresh a caller was told of is published in the end. *)
PromiseKept ==
    \A c \in Callers, p \in Profiles : p \in awaiting[c] ~> p \notin awaiting[c]

(* docs/host-storage.md:12, "Poll the same profile until `refresh.running` is *)
(* false": the mark of a profile goes away, so the poll comes to an end.      *)
PollingEnds == \A p \in Profiles : refresh_started[p] # None ~> refresh_started[p] = None

Stored(p) == \E t \in Threads : worker[t].pc = "pop" /\ worker[t].profile = p

(* The parts of the inductive invariant. *)
CallerInv ==
    \A c \in Callers : /\ pc[c] # "idle" => arg[c] # NoArg
                       /\ ref[c] # None => ref[c] = c /\ heap[c] # None

(* The lock is held exactly by the thread that is in a critical section. *)
LockInv == /\ \A c \in Callers : lock = c <=> pc[c] \in {"read", "register"}
           /\ \A t \in Threads : lock = t <=> worker[t].pc \in {"publish", "pop"}

(* What a caller read under the lock still holds when it decides. *)
ReadInv ==
    \A c \in Callers : pc[c] = "register" =>
        heap[c] = heap[arg[c].name] /\ seen[c] = refresh_started[arg[c].name]

AwaitInv ==
    \A p \in Profiles : refresh_started[p] = None \/ Stored(p) =>
        \A c \in Callers : p \notin awaiting[c]

(* A worker brings a whole snapshot, captured after the one it replaces. *)
OrderInv ==
    /\ \A p \in Profiles : heap[p] # None => heap[p].taken <= uptime
    /\ \A t \in Threads : worker[t].pc \in {"acquire", "publish", "pop"} =>
          LET s == worker[t].snapshot
              old == heap[worker[t].profile] IN
          /\ s.children = s.child_count
          /\ s.taken <= uptime
          /\ old # None => old.taken <= s.taken

(* The wall clock is ahead of the elapsed time, by MaxSkew at the most. *)
Ahead(reading, time) == time <= reading /\ reading <= time + MaxSkew
ClockInv ==
    /\ \A c \in Callers : pc[c] # "idle" => Ahead(now[c], arg[c].asked)
    /\ \A x \in Profiles \cup Callers : heap[x] # None => Ahead(heap[x].captured_at, heap[x].taken)
    /\ \A t \in Threads : worker[t].snapshot # None =>
          Ahead(worker[t].snapshot.captured_at, worker[t].snapshot.taken)

IInv == /\ TypeOK /\ CallerInv /\ LockInv /\ ReadInv /\ OneRefreshPerProfile /\ MarkHasThread
        /\ AwaitInv /\ PolledRefreshIsNew /\ OrderInv /\ CacheKeepsDetail

(* The abstract view: the flight of a profile lands when its snapshot is      *)
(* stored, although its mark is still there until the same critical section   *)
(* ends; an answer counts from the end of its critical section, unclipped.    *)
Whole(s) == IF s = None THEN None ELSE [s EXCEPT !.children = s.child_count]
cacheBar == [p \in Profiles |-> Whole(heap[p])]
inflightBar == [p \in Profiles |-> refresh_started[p] # None /\ ~Stored(p)]
viewBar == [c \in Callers |->
    IF pc[c] \in Answered
    THEN [profile |-> arg[c].name, snapshot |-> Whole(heap[c]), running |-> seen[c] # None]
    ELSE None]

SF == INSTANCE SingleFlight
        WITH Snapshots <- Snapshot, cache <- cacheBar, inflight <- inflightBar, view <- viewBar

(* Requests are atomic and flights single, however threads interleave. *)
ImplementsSingleFlight == SF!Spec
ImplementsFairSingleFlight == SF!FairSpec
=============================================================================

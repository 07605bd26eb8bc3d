---------------------- MODULE HostUsageSnapshotsProofs ----------------------
(* Proofs about HostUsageSnapshots, for any set of profiles, callers and      *)
(* workers, any clock and any sizes.                                          *)
EXTENDS HostUsageSnapshots, TLAPS

USE NoneAssumption, ProfilesAssumption, HoldersAssumption, StaleAfterAssumption, BoundsAssumption

Typed == TypeOK /\ CallerInv

LEMMA CapInRange == \A l \in Int : Cap(l) \in 1 .. MaxLimit
BY DEF Cap

LEMMA ClippedTyped == \A s \in Snapshot, k \in 1 .. MaxLimit : Clipped(s, k) \in Snapshot
BY DEF Clipped, Snapshot

(* In request, a caller has the name of a profile and an integer limit. *)
LEMMA ArgTyped ==
  ASSUME Typed, NEW c \in Callers, pc[c] # "idle"
  PROVE  arg[c].name \in Profiles /\ arg[c].limit \in Int /\ arg[c].refresh \in BOOLEAN
         /\ arg[c].asked \in 0 .. MaxTime
<1>1. arg[c] \in [name : Profiles, refresh : BOOLEAN, limit : Limits, asked : 0 .. MaxTime]
  BY DEF Typed, TypeOK, CallerInv
<1> QED
  BY <1>1

(* Clip leaves the heap alone or clips the copy of its caller. *)
LEMMA ClipEffect ==
  ASSUME Typed, NEW c \in Callers, Clip(c)
  PROVE  \/ heap' = heap
         \/ /\ heap[c] \in Snapshot
            /\ \E k \in 1 .. MaxLimit : heap' = [heap EXCEPT ![c] = Clipped(heap[c], k)]
<1>1. Cap(arg[c].limit) \in 1 .. MaxLimit
  BY ArgTyped, CapInRange DEF Clip
<1>2. ref[c] # None => ref[c] = c /\ heap[c] \in Snapshot
  BY DEF Typed, TypeOK, CallerInv
<1> QED
  BY <1>1, <1>2 DEF Clip

LEMMA TypedInductive == Typed /\ [Next]_vars => Typed'
<1> SUFFICES ASSUME Typed, [Next]_vars PROVE Typed'
  OBVIOUS
<1> USE DEF Typed, TypeOK, CallerInv, CallerPC
<1>1. CASE Tick
  BY <1>1 DEF Tick, callerVars
<1>2. CASE SetBack
  BY <1>2 DEF SetBack, callerVars
<1>3. ASSUME NEW c \in Callers, Enter(c) PROVE Typed'
  BY <1>3 DEF Enter, wall, Time, NoArg
<1>4. ASSUME NEW c \in Callers, AcquireRequest(c) PROVE Typed'
  BY <1>4 DEF AcquireRequest
<1>5. ASSUME NEW c \in Callers, Read(c) PROVE Typed'
  <2>1. arg[c].name \in Profiles
    BY <1>5, ArgTyped DEF Read
  <2> QED
    BY <1>5, <2>1 DEF Read, CopyOf
<1>6. ASSUME NEW c \in Callers, Register(c) PROVE Typed'
  <2>1. arg[c].name \in Profiles
    BY <1>6, ArgTyped DEF Register
  <2>2. IsStale(c, arg[c].name) \in BOOLEAN
    BY DEF IsStale, Reaches
  <2> QED
    BY <1>6, <2>1, <2>2 DEF Register, Unlock
<1>7. ASSUME NEW c \in Callers, Start(c) PROVE Typed'
  <2>1. arg[c].name \in Profiles
    BY <1>7, ArgTyped DEF Start
  <2> QED
    BY <1>7, <2>1 DEF Start, NoWork
<1>8. ASSUME NEW c \in Callers, StartFails(c) PROVE Typed'
  BY <1>8 DEF StartFails, Forget, NoArg, Time
<1>9. ASSUME NEW c \in Callers, Clip(c) PROVE Typed'
  <2>1. CASE heap' = heap
    BY <1>9, <2>1 DEF Clip
  <2>2. CASE heap' # heap
    <3>1. PICK s \in Snapshot : heap' = [heap EXCEPT ![c] = s]
      BY <1>9, <2>2, ClipEffect, ClippedTyped
    <3> QED
      BY <1>9, <3>1 DEF Clip
  <2> QED
    BY <2>1, <2>2
<1>10. ASSUME NEW c \in Callers, Return(c) PROVE Typed'
  BY <1>10 DEF Return, Forget, NoArg, Time
<1>11. ASSUME NEW t \in Threads, Scan(t) PROVE Typed'
  <2>1. \A n \in Sizes \cup {0}, st \in {"scanned", "failed"} : Captured(n, st) \in Snapshot
    BY DEF Captured, Snapshot, wall, Time
  <2>2. worker[t].profile \in Profiles
    BY <1>11 DEF Scan, NoWork
  <2> QED
    BY <1>11, <2>1, <2>2 DEF Scan, AfterScan, callerVars
<1>12. ASSUME NEW t \in Threads, AcquirePublish(t) PROVE Typed'
  BY <1>12 DEF AcquirePublish, NoWork, callerVars
<1>13. ASSUME NEW t \in Threads, Publish(t) PROVE Typed'
  BY <1>13 DEF Publish, NoWork, callerVars
<1>14. ASSUME NEW t \in Threads, Pop(t) PROVE Typed'
  BY <1>14 DEF Pop, NoWork, Unlock, callerVars
<1>15. CASE UNCHANGED vars
  BY <1>15 DEF vars, callerVars
<1> QED
  BY <1>1, <1>2, <1>3, <1>4, <1>5, <1>6, <1>7, <1>8, <1>9, <1>10, <1>11, <1>12, <1>13,
     <1>14, <1>15 DEF Next, CallerStep, WorkerStep

(* Every variable keeps its type: in particular, a worker always has a        *)
(* profile, and the snapshot it publishes is whole.                           *)
THEOREM TypeCorrect == Spec => []TypeOK
<1>1. Init => Typed
  BY DEF Init, Typed, TypeOK, CallerInv, CallerPC, NoArg, NoWork, Time
<1> QED
  BY <1>1, TypedInductive, PTL DEF Spec, Typed
(* The lock excludes: only its holder is in a critical section. *)
LEMMA LockStep == IInv /\ [Next]_vars => LockInv'
<1> SUFFICES ASSUME IInv, [Next]_vars PROVE LockInv'
  OBVIOUS
<1> USE DEF IInv, TypeOK, CallerInv, CallerPC, LockInv
<1>1. CASE Tick \/ SetBack \/ UNCHANGED vars
  BY <1>1 DEF Tick, SetBack, vars, callerVars
<1>2. ASSUME NEW c \in Callers, Enter(c) PROVE LockInv'
  BY <1>2 DEF Enter
<1>3. ASSUME NEW c \in Callers, AcquireRequest(c) PROVE LockInv'
  BY <1>3 DEF AcquireRequest, LockIsFree
<1>4. ASSUME NEW c \in Callers, Read(c) PROVE LockInv'
  BY <1>4 DEF Read, CopyOf
<1>5. ASSUME NEW c \in Callers, Register(c) PROVE LockInv'
  BY <1>5 DEF Register, NeedsRefresh, Unlock
<1>6. ASSUME NEW c \in Callers, Start(c) PROVE LockInv'
  BY <1>6 DEF Start
<1>7. ASSUME NEW c \in Callers, StartFails(c) PROVE LockInv'
  BY <1>7 DEF StartFails, Forget
<1>8. ASSUME NEW c \in Callers, Clip(c) PROVE LockInv'
  BY <1>8 DEF Clip
<1>9. ASSUME NEW c \in Callers, Return(c) PROVE LockInv'
  BY <1>9 DEF Return, Forget
<1>10. ASSUME NEW t \in Threads, Scan(t) PROVE LockInv'
  BY <1>10 DEF Scan, AfterScan, callerVars
<1>11. ASSUME NEW t \in Threads, AcquirePublish(t) PROVE LockInv'
  BY <1>11 DEF AcquirePublish, LockIsFree, callerVars
<1>12. ASSUME NEW t \in Threads, Publish(t) PROVE LockInv'
  BY <1>12 DEF Publish, callerVars
<1>13. ASSUME NEW t \in Threads, Pop(t) PROVE LockInv'
  BY <1>13 DEF Pop, Unlock, NoWork, callerVars
<1> QED
  BY <1>1, <1>2, <1>3, <1>4, <1>5, <1>6, <1>7, <1>8, <1>9,
     <1>10, <1>11, <1>12, <1>13 DEF Next, CallerStep, WorkerStep

(* Between Read and Register nobody else writes the profile. *)
LEMMA ReadStep == IInv /\ [Next]_vars => ReadInv'
<1> SUFFICES ASSUME IInv, [Next]_vars PROVE ReadInv'
  OBVIOUS
<1> USE DEF IInv, TypeOK, CallerInv, CallerPC, LockInv, ReadInv
<1>1. CASE Tick \/ SetBack \/ UNCHANGED vars
  BY <1>1 DEF Tick, SetBack, vars, callerVars
<1>2. ASSUME NEW c \in Callers, Enter(c) PROVE ReadInv'
  BY <1>2 DEF Enter
<1>3. ASSUME NEW c \in Callers, AcquireRequest(c) PROVE ReadInv'
  BY <1>3 DEF AcquireRequest, LockIsFree
<1>4. ASSUME NEW c \in Callers, Read(c) PROVE ReadInv'
  BY <1>4 DEF Read, CopyOf
<1>5. ASSUME NEW c \in Callers, Register(c) PROVE ReadInv'
  BY <1>5 DEF Register, NeedsRefresh, Unlock
<1>6. ASSUME NEW c \in Callers, Start(c) PROVE ReadInv'
  BY <1>6 DEF Start
<1>7. ASSUME NEW c \in Callers, StartFails(c) PROVE ReadInv'
  BY <1>7 DEF StartFails, Forget
<1>8. ASSUME NEW c \in Callers, Clip(c) PROVE ReadInv'
  BY <1>8 DEF Clip
<1>9. ASSUME NEW c \in Callers, Return(c) PROVE ReadInv'
  BY <1>9 DEF Return, Forget
<1>10. ASSUME NEW t \in Threads, Scan(t) PROVE ReadInv'
  BY <1>10 DEF Scan, AfterScan, callerVars
<1>11. ASSUME NEW t \in Threads, AcquirePublish(t) PROVE ReadInv'
  BY <1>11 DEF AcquirePublish, LockIsFree, callerVars
<1>12. ASSUME NEW t \in Threads, Publish(t) PROVE ReadInv'
  BY <1>12 DEF Publish, callerVars
<1>13. ASSUME NEW t \in Threads, Pop(t) PROVE ReadInv'
  BY <1>13 DEF Pop, Unlock, NoWork, callerVars
<1> QED
  BY <1>1, <1>2, <1>3, <1>4, <1>5, <1>6, <1>7, <1>8, <1>9,
     <1>10, <1>11, <1>12, <1>13 DEF Next, CallerStep, WorkerStep

(* A thread joins the refreshers of a profile only in Register, which under   *)
(* the lock saw no mark, hence no refresher.                                  *)
LEMMA OneStep == IInv /\ [Next]_vars => OneRefreshPerProfile'
<1> SUFFICES ASSUME IInv, [Next]_vars PROVE OneRefreshPerProfile'
  OBVIOUS
<1> USE DEF IInv, TypeOK, CallerInv, CallerPC, LockInv, ReadInv, OneRefreshPerProfile, Refreshing
<1>1. CASE Tick \/ SetBack \/ UNCHANGED vars
  BY <1>1 DEF Tick, SetBack, vars, callerVars
<1>2. ASSUME NEW c \in Callers, Enter(c) PROVE OneRefreshPerProfile'
  BY <1>2 DEF Enter
<1>3. ASSUME NEW c \in Callers, AcquireRequest(c) PROVE OneRefreshPerProfile'
  BY <1>3 DEF AcquireRequest, LockIsFree
<1>4. ASSUME NEW c \in Callers, Read(c) PROVE OneRefreshPerProfile'
  BY <1>4 DEF Read, CopyOf
<1>5. ASSUME NEW c \in Callers, Register(c) PROVE OneRefreshPerProfile'
  <2>1. CASE ~NeedsRefresh(c, IsStale(c, arg[c].name))
    BY <1>5, <2>1 DEF Register
  <2>2. CASE NeedsRefresh(c, IsStale(c, arg[c].name))
    <3>1. refresh_started[arg[c].name] = None /\ Refreshing(arg[c].name) = {}
      BY <1>5, <2>2, ArgTyped DEF Register, NeedsRefresh, Typed
    <3>2. \A p \in Profiles : Refreshing(p)' \subseteq
                              Refreshing(p) \cup (IF p = arg[c].name THEN {c} ELSE {})
      BY <1>5, <2>2 DEF Register
    <3>3. now[c] # None
      BY DEF Time
    <3>4. \A p \in Profiles : refresh_started'[p] = IF p = arg[c].name THEN now[c] ELSE refresh_started[p]
      BY <1>5, <2>2 DEF Register
    <3> QED
      BY <3>1, <3>2, <3>3, <3>4 DEF OneRefreshPerProfile
  <2> QED
    BY <2>1, <2>2
<1>6. ASSUME NEW c \in Callers, Start(c) PROVE OneRefreshPerProfile'
  BY <1>6 DEF Start
<1>7. ASSUME NEW c \in Callers, StartFails(c) PROVE OneRefreshPerProfile'
  BY <1>7 DEF StartFails, Forget
<1>8. ASSUME NEW c \in Callers, Clip(c) PROVE OneRefreshPerProfile'
  BY <1>8 DEF Clip
<1>9. ASSUME NEW c \in Callers, Return(c) PROVE OneRefreshPerProfile'
  BY <1>9 DEF Return, Forget
<1>10. ASSUME NEW t \in Threads, Scan(t) PROVE OneRefreshPerProfile'
  BY <1>10 DEF Scan, AfterScan, callerVars
<1>11. ASSUME NEW t \in Threads, AcquirePublish(t) PROVE OneRefreshPerProfile'
  BY <1>11 DEF AcquirePublish, LockIsFree, callerVars
<1>12. ASSUME NEW t \in Threads, Publish(t) PROVE OneRefreshPerProfile'
  BY <1>12 DEF Publish, callerVars
<1>13. ASSUME NEW t \in Threads, Pop(t) PROVE OneRefreshPerProfile'
  BY <1>13 DEF Pop, Unlock, NoWork, callerVars
<1> QED
  BY <1>1, <1>2, <1>3, <1>4, <1>5, <1>6, <1>7, <1>8, <1>9,
     <1>10, <1>11, <1>12, <1>13 DEF Next, CallerStep, WorkerStep

(* The mark is set by the caller that will start the worker, and removed by   *)
(* the one worker that leaves.                                                *)
LEMMA MarkStep == IInv /\ [Next]_vars => MarkHasThread'
<1> SUFFICES ASSUME IInv, [Next]_vars PROVE MarkHasThread'
  OBVIOUS
<1> USE DEF IInv, TypeOK, CallerInv, CallerPC, LockInv, ReadInv, OneRefreshPerProfile, MarkHasThread, Refreshing
<1>1. CASE Tick \/ SetBack \/ UNCHANGED vars
  BY <1>1 DEF Tick, SetBack, vars, callerVars
<1>2. ASSUME NEW c \in Callers, Enter(c) PROVE MarkHasThread'
  BY <1>2 DEF Enter
<1>3. ASSUME NEW c \in Callers, AcquireRequest(c) PROVE MarkHasThread'
  BY <1>3 DEF AcquireRequest, LockIsFree
<1>4. ASSUME NEW c \in Callers, Read(c) PROVE MarkHasThread'
  BY <1>4 DEF Read, CopyOf
<1>5. ASSUME NEW c \in Callers, Register(c) PROVE MarkHasThread'
  BY <1>5 DEF Register, NeedsRefresh, Unlock
<1>6. ASSUME NEW c \in Callers, Start(c) PROVE MarkHasThread'
  BY <1>6 DEF Start
<1>7. ASSUME NEW c \in Callers, StartFails(c) PROVE MarkHasThread'
  BY <1>7 DEF StartFails, Forget
<1>8. ASSUME NEW c \in Callers, Clip(c) PROVE MarkHasThread'
  BY <1>8 DEF Clip
<1>9. ASSUME NEW c \in Callers, Return(c) PROVE MarkHasThread'
  BY <1>9 DEF Return, Forget
<1>10. ASSUME NEW t \in Threads, Scan(t) PROVE MarkHasThread'
  BY <1>10 DEF Scan, AfterScan, callerVars
<1>11. ASSUME NEW t \in Threads, AcquirePublish(t) PROVE MarkHasThread'
  BY <1>11 DEF AcquirePublish, LockIsFree, callerVars
<1>12. ASSUME NEW t \in Threads, Publish(t) PROVE MarkHasThread'
  BY <1>12 DEF Publish, callerVars
<1>13. ASSUME NEW t \in Threads, Pop(t) PROVE MarkHasThread'
  BY <1>13 DEF Pop, Unlock, NoWork, callerVars
<1> QED
  BY <1>1, <1>2, <1>3, <1>4, <1>5, <1>6, <1>7, <1>8, <1>9,
     <1>10, <1>11, <1>12, <1>13 DEF Next, CallerStep, WorkerStep

(* A profile is awaited only while it is marked and not yet stored. *)
LEMMA AwaitStep == IInv /\ [Next]_vars => AwaitInv'
<1> SUFFICES ASSUME IInv, [Next]_vars PROVE AwaitInv'
  OBVIOUS
<1> USE DEF IInv, TypeOK, CallerInv, LockInv, ReadInv, OneRefreshPerProfile, Refreshing, AwaitInv, Stored
<1>1. CASE Tick \/ SetBack \/ UNCHANGED vars
  BY <1>1 DEF Tick, SetBack, vars, callerVars
<1>2. ASSUME NEW c \in Callers, Enter(c) PROVE AwaitInv'
  BY <1>2 DEF Enter
<1>3. ASSUME NEW c \in Callers, AcquireRequest(c) PROVE AwaitInv'
  BY <1>3 DEF AcquireRequest, LockIsFree
<1>4. ASSUME NEW c \in Callers, Read(c) PROVE AwaitInv'
  BY <1>4 DEF Read, CopyOf
<1>5. ASSUME NEW c \in Callers, Register(c) PROVE AwaitInv'
  BY <1>5 DEF Register, NeedsRefresh, Unlock
<1>6. ASSUME NEW c \in Callers, Start(c) PROVE AwaitInv'
  BY <1>6 DEF Start
<1>7. ASSUME NEW c \in Callers, StartFails(c) PROVE AwaitInv'
  BY <1>7 DEF StartFails, Forget
<1>8. ASSUME NEW c \in Callers, Clip(c) PROVE AwaitInv'
  BY <1>8 DEF Clip
<1>9. ASSUME NEW c \in Callers, Return(c) PROVE AwaitInv'
  BY <1>9 DEF Return, Forget
<1>10. ASSUME NEW t \in Threads, Scan(t) PROVE AwaitInv'
  BY <1>10 DEF Scan, AfterScan, callerVars
<1>11. ASSUME NEW t \in Threads, AcquirePublish(t) PROVE AwaitInv'
  BY <1>11 DEF AcquirePublish, LockIsFree, callerVars
<1>12. ASSUME NEW t \in Threads, Publish(t) PROVE AwaitInv'
  BY <1>12 DEF Publish, callerVars
<1>13. ASSUME NEW t \in Threads, Pop(t) PROVE AwaitInv'
  BY <1>13 DEF Pop, Unlock, NoWork, callerVars
<1> QED
  BY <1>1, <1>2, <1>3, <1>4, <1>5, <1>6, <1>7, <1>8, <1>9,
     <1>10, <1>11, <1>12, <1>13 DEF Next, CallerStep, WorkerStep

(* A caller that saw no mark awaits nothing of the profile. *)
LEMMA PolledStep == IInv /\ [Next]_vars => PolledRefreshIsNew'
<1> SUFFICES ASSUME IInv, [Next]_vars PROVE PolledRefreshIsNew'
  OBVIOUS
<1> USE DEF IInv, TypeOK, CallerInv, CallerPC, LockInv, ReadInv, AwaitInv, Stored, Answered, PolledRefreshIsNew
<1>1. CASE Tick \/ SetBack \/ UNCHANGED vars
  BY <1>1 DEF Tick, SetBack, vars, callerVars
<1>2. ASSUME NEW c \in Callers, Enter(c) PROVE PolledRefreshIsNew'
  BY <1>2 DEF Enter
<1>3. ASSUME NEW c \in Callers, AcquireRequest(c) PROVE PolledRefreshIsNew'
  BY <1>3 DEF AcquireRequest, LockIsFree
<1>4. ASSUME NEW c \in Callers, Read(c) PROVE PolledRefreshIsNew'
  BY <1>4 DEF Read, CopyOf
<1>5. ASSUME NEW c \in Callers, Register(c) PROVE PolledRefreshIsNew'
  BY <1>5 DEF Register, NeedsRefresh, Unlock
<1>6. ASSUME NEW c \in Callers, Start(c) PROVE PolledRefreshIsNew'
  BY <1>6 DEF Start
<1>7. ASSUME NEW c \in Callers, StartFails(c) PROVE PolledRefreshIsNew'
  BY <1>7 DEF StartFails, Forget
<1>8. ASSUME NEW c \in Callers, Clip(c) PROVE PolledRefreshIsNew'
  BY <1>8 DEF Clip
<1>9. ASSUME NEW c \in Callers, Return(c) PROVE PolledRefreshIsNew'
  BY <1>9 DEF Return, Forget
<1>10. ASSUME NEW t \in Threads, Scan(t) PROVE PolledRefreshIsNew'
  BY <1>10 DEF Scan, AfterScan, callerVars
<1>11. ASSUME NEW t \in Threads, AcquirePublish(t) PROVE PolledRefreshIsNew'
  BY <1>11 DEF AcquirePublish, LockIsFree, callerVars
<1>12. ASSUME NEW t \in Threads, Publish(t) PROVE PolledRefreshIsNew'
  BY <1>12 DEF Publish, callerVars
<1>13. ASSUME NEW t \in Threads, Pop(t) PROVE PolledRefreshIsNew'
  BY <1>13 DEF Pop, Unlock, NoWork, callerVars
<1> QED
  BY <1>1, <1>2, <1>3, <1>4, <1>5, <1>6, <1>7, <1>8, <1>9,
     <1>10, <1>11, <1>12, <1>13 DEF Next, CallerStep, WorkerStep

(* OrderInv only speaks of the cached snapshots and of those that workers     *)
(* carry: what leaves them alone preserves it.                                *)
LEMMA OrderFrame ==
  ASSUME IInv, uptime' \in Nat, uptime <= uptime',
         \A p \in Profiles : heap'[p] = heap[p],
         \A t \in Threads : worker'[t].pc \in {"acquire", "publish", "pop"} =>
            /\ worker[t].pc \in {"acquire", "publish", "pop"}
            /\ worker'[t].profile = worker[t].profile
            /\ worker'[t].snapshot = worker[t].snapshot
  PROVE  OrderInv'
<1>1. \A p \in Profiles : heap[p] # None => heap[p].taken \in Nat
  BY DEF IInv, TypeOK, Snapshot
<1>2. \A t \in Threads : worker[t].pc \in {"acquire", "publish", "pop"} =>
         worker[t].profile \in Profiles /\ worker[t].snapshot.taken \in Nat
  BY DEF IInv, TypeOK, Snapshot, NoWork
<1>3. uptime \in Nat
  BY DEF IInv, TypeOK
<1> QED
  BY <1>1, <1>2, <1>3 DEF IInv, OrderInv

(* A worker is stamped after the snapshot it replaces: nobody else publishes  *)
(* its profile meanwhile.                                                     *)
LEMMA OrderStep == IInv /\ [Next]_vars => OrderInv'
<1> SUFFICES ASSUME IInv, [Next]_vars PROVE OrderInv'
  OBVIOUS
<1> USE DEF IInv, TypeOK, CallerInv
<1>1. CASE Tick \/ SetBack \/ UNCHANGED vars
  BY <1>1, OrderFrame DEF Tick, SetBack, vars, callerVars
<1>2. ASSUME NEW c \in Callers, Enter(c) PROVE OrderInv'
  BY <1>2, OrderFrame DEF Enter
<1>3. ASSUME NEW c \in Callers, AcquireRequest(c) PROVE OrderInv'
  BY <1>3, OrderFrame DEF AcquireRequest, LockIsFree
<1>4. ASSUME NEW c \in Callers, Read(c) PROVE OrderInv'
  BY <1>4, OrderFrame DEF Read, CopyOf
<1>5. ASSUME NEW c \in Callers, Register(c) PROVE OrderInv'
  BY <1>5, OrderFrame DEF Register, NeedsRefresh, Unlock
<1>6. ASSUME NEW c \in Callers, Start(c) PROVE OrderInv'
  BY <1>6, OrderFrame DEF Start, NoWork
<1>7. ASSUME NEW c \in Callers, StartFails(c) PROVE OrderInv'
  BY <1>7, OrderFrame DEF StartFails, Forget
<1>8. ASSUME NEW c \in Callers, Clip(c) PROVE OrderInv'
  BY <1>8, OrderFrame DEF Clip
<1>9. ASSUME NEW c \in Callers, Return(c) PROVE OrderInv'
  BY <1>9, OrderFrame DEF Return, Forget
<1>10. ASSUME NEW t \in Threads, Scan(t) PROVE OrderInv'
  <2>1. PICK n \in Sizes \cup {0}, st \in {"scanned", "failed"} :
          worker' = [worker EXCEPT ![t] = [pc |-> "acquire", profile |-> @.profile,
                                           snapshot |-> Captured(n, st)]]
    BY <1>10 DEF Scan, AfterScan
  <2>2. worker'[t].snapshot.taken = uptime /\ worker'[t].snapshot.children = worker'[t].snapshot.child_count
    BY <2>1 DEF Captured
  <2>3. worker[t].profile \in Profiles /\ worker'[t].profile = worker[t].profile
    BY <1>10, <2>1 DEF Scan, NoWork
  <2>4. heap' = heap /\ uptime' = uptime /\ \A u \in Threads \ {t} : worker'[u] = worker[u]
    BY <1>10, <2>1 DEF Scan, callerVars
  <2> QED
    BY <2>2, <2>3, <2>4 DEF OrderInv
<1>11. ASSUME NEW t \in Threads, AcquirePublish(t) PROVE OrderInv'
  BY <1>11, OrderFrame DEF AcquirePublish, LockIsFree, callerVars
<1>12. ASSUME NEW t \in Threads, Publish(t) PROVE OrderInv'
  <2>1. worker[t].profile \in Profiles /\ worker[t].snapshot \in Snapshot
    BY <1>12 DEF Publish, NoWork
  <2>2. worker[t].snapshot.taken \in Nat /\ worker[t].snapshot.taken <= uptime
    BY <1>12, <2>1 DEF Publish, OrderInv, Snapshot
  <2>3. \A u \in Threads \ {t} : worker[u].pc # "none" => worker[u].profile # worker[t].profile
    BY <1>12 DEF Publish, OneRefreshPerProfile, Refreshing, NoWork
  <2>4. /\ \A u \in Threads \ {t} : worker'[u] = worker[u]
        /\ worker'[t].snapshot = worker[t].snapshot /\ worker'[t].profile = worker[t].profile
        /\ \A p \in Profiles : heap'[p] = IF p = worker[t].profile THEN worker[t].snapshot ELSE heap[p]
        /\ uptime' = uptime
    BY <1>12 DEF Publish, NoWork, callerVars
  <2>5. worker[t].snapshot.children = worker[t].snapshot.child_count
    BY <1>12 DEF Publish, OrderInv
  <2> QED
    BY <2>1, <2>2, <2>3, <2>4, <2>5 DEF OrderInv, NoWork
<1>13. ASSUME NEW t \in Threads, Pop(t) PROVE OrderInv'
  BY <1>13, OrderFrame DEF Pop, Unlock, NoWork, callerVars
<1> QED
  BY <1>1, <1>2, <1>3, <1>4, <1>5, <1>6, <1>7, <1>8, <1>9,
     <1>10, <1>11, <1>12, <1>13 DEF Next, CallerStep, WorkerStep

(* Only the copy of a caller is clipped. *)
LEMMA DetailStep == IInv /\ [Next]_vars => CacheKeepsDetail'
<1> SUFFICES ASSUME IInv, [Next]_vars PROVE CacheKeepsDetail'
  OBVIOUS
<1> USE DEF IInv, TypeOK, CallerInv, CallerPC, OrderInv, CacheKeepsDetail
<1>1. CASE Tick \/ SetBack \/ UNCHANGED vars
  BY <1>1 DEF Tick, SetBack, vars, callerVars
<1>2. ASSUME NEW c \in Callers, Enter(c) PROVE CacheKeepsDetail'
  BY <1>2 DEF Enter
<1>3. ASSUME NEW c \in Callers, AcquireRequest(c) PROVE CacheKeepsDetail'
  BY <1>3 DEF AcquireRequest, LockIsFree
<1>4. ASSUME NEW c \in Callers, Read(c) PROVE CacheKeepsDetail'
  BY <1>4 DEF Read, CopyOf
<1>5. ASSUME NEW c \in Callers, Register(c) PROVE CacheKeepsDetail'
  BY <1>5 DEF Register, NeedsRefresh, Unlock
<1>6. ASSUME NEW c \in Callers, Start(c) PROVE CacheKeepsDetail'
  BY <1>6 DEF Start
<1>7. ASSUME NEW c \in Callers, StartFails(c) PROVE CacheKeepsDetail'
  BY <1>7 DEF StartFails, Forget
<1>8. ASSUME NEW c \in Callers, Clip(c) PROVE CacheKeepsDetail'
  BY <1>8 DEF Clip
<1>9. ASSUME NEW c \in Callers, Return(c) PROVE CacheKeepsDetail'
  BY <1>9 DEF Return, Forget
<1>10. ASSUME NEW t \in Threads, Scan(t) PROVE CacheKeepsDetail'
  BY <1>10 DEF Scan, AfterScan, callerVars
<1>11. ASSUME NEW t \in Threads, AcquirePublish(t) PROVE CacheKeepsDetail'
  BY <1>11 DEF AcquirePublish, LockIsFree, callerVars
<1>12. ASSUME NEW t \in Threads, Publish(t) PROVE CacheKeepsDetail'
  BY <1>12 DEF Publish, callerVars
<1>13. ASSUME NEW t \in Threads, Pop(t) PROVE CacheKeepsDetail'
  BY <1>13 DEF Pop, Unlock, NoWork, callerVars
<1> QED
  BY <1>1, <1>2, <1>3, <1>4, <1>5, <1>6, <1>7, <1>8, <1>9,
     <1>10, <1>11, <1>12, <1>13 DEF Next, CallerStep, WorkerStep

(* The inductive invariant. *)
THEOREM InductiveInvariant == Spec => []IInv
<1>1. Init => IInv
  BY DEF Init, IInv, TypeOK, CallerInv, CallerPC, NoArg, NoWork, Time, LockInv, ReadInv,
         OneRefreshPerProfile, Refreshing, MarkHasThread, AwaitInv, PolledRefreshIsNew, Answered,
         OrderInv, CacheKeepsDetail
<1>2. IInv /\ [Next]_vars => IInv'
  BY TypedInductive, LockStep, ReadStep, OneStep, MarkStep, AwaitStep, PolledStep, OrderStep,
     DetailStep DEF IInv, Typed
<1> QED
  BY <1>1, <1>2, PTL DEF Spec

(* No two threads ever refresh one profile, whatever the interleaving. *)
THEOREM SingleRefresh == Spec => []OneRefreshPerProfile
BY InductiveInvariant, PTL DEF IInv

(* Where threads can always be started, a mark has a thread to remove it. *)
THEOREM MarkIsOwned == Spec => []MarkHasThread
BY InductiveInvariant, PTL DEF IInv

(* Polling until nothing runs always ends on a snapshot published since.  *)
THEOREM PollingIsSound == Spec => []PolledRefreshIsNew
BY InductiveInvariant, PTL DEF IInv

(* A clipped answer never costs the cache its detail. *)
THEOREM DetailIsKept == Spec => []CacheKeepsDetail
BY InductiveInvariant, PTL DEF IInv

(* A publication never goes back to an earlier capture. *)
THEOREM PublicationsAdvance == Spec => CapturesGoForward
<1> DEFINE Forward == \A p \in Profiles : heap'[p] # heap[p] /\ heap[p] # None =>
                        heap'[p] # None /\ heap[p].taken <= heap'[p].taken
<1>1. IInv /\ [Next]_vars => [Forward]_vars
  <2> SUFFICES ASSUME IInv, [Next]_vars, NEW p \in Profiles, heap'[p] # heap[p], heap[p] # None
               PROVE  heap'[p] # None /\ heap[p].taken <= heap'[p].taken
    OBVIOUS
  <2>1. PICK t \in Threads : Publish(t) /\ p = worker[t].profile
    BY DEF Next, CallerStep, WorkerStep, vars, callerVars, Tick, SetBack, Enter, AcquireRequest,
           Read, Register, Start, StartFails, Forget, Clip, Return, Scan, AcquirePublish,
           Publish, Pop, IInv, TypeOK, CallerInv, NoWork
  <2>2. worker[t].snapshot \in Snapshot /\ heap'[p] = worker[t].snapshot
    BY <2>1 DEF Publish, IInv, TypeOK, NoWork
  <2> QED
    BY <2>1, <2>2 DEF IInv, OrderInv, Publish
<1> QED
  BY <1>1, InductiveInvariant, PTL DEF Spec, CapturesGoForward

-----------------------------------------------------------------------------
(* An answer that is not marked stale shows a snapshot younger than the       *)
(* threshold of its profile, give or take what the wall clock was set back.   *)
THEOREM FreshAnswersAreYoung == Spec => []FreshMeansYoung
<1> DEFINE Inv == ClockInv /\ FreshMeansYoung
<1>1. Init => Inv
  BY DEF Init, ClockInv, FreshMeansYoung, Answered, NoWork, Ahead
<1>2. IInv /\ Inv /\ [Next]_vars => Inv'
  <2> SUFFICES ASSUME IInv, Inv, [Next]_vars PROVE Inv'
    OBVIOUS
  <2>1. Ahead(wall, uptime)
    BY DEF IInv, TypeOK, wall, Ahead
  <2> USE DEF IInv, TypeOK, CallerInv, ClockInv, FreshMeansYoung, Answered
  <2>2. CASE Tick \/ SetBack \/ UNCHANGED vars
    BY <2>2 DEF Tick, SetBack, vars, callerVars
  <2>3. ASSUME NEW c \in Callers, Enter(c) PROVE Inv'
    BY <2>1, <2>3 DEF Enter
  <2>4. ASSUME NEW c \in Callers, AcquireRequest(c) PROVE Inv'
    BY <2>4 DEF AcquireRequest
  <2>5. ASSUME NEW c \in Callers, Read(c) PROVE Inv'
    BY <2>5, ArgTyped DEF Read, Typed
  <2>6. ASSUME NEW c \in Callers, Register(c) PROVE Inv'
    <3>1. CASE heap[c] = None
      BY <2>6, <3>1 DEF Register, IsStale
    <3>2. CASE heap[c] # None
      <4>1. /\ heap[c].captured_at \in Nat /\ heap[c].taken \in Nat
            /\ now[c] \in Nat /\ arg[c].asked \in Nat /\ StaleAfter[arg[c].name] \in Nat \ {0}
        BY <2>6, <3>2, ArgTyped DEF Register, Typed, Snapshot, Time
      <4>2. Ahead(heap[c].captured_at, heap[c].taken) /\ Ahead(now[c], arg[c].asked)
        BY <2>6, <3>2 DEF Register
      <4>3. ~IsStale(c, arg[c].name) =>
               arg[c].asked - heap[c].taken < StaleAfter[arg[c].name] + MaxSkew
        BY <3>2, <4>1, <4>2 DEF IsStale, Reaches, Ahead
      <4> QED
        BY <2>6, <3>2, <4>3 DEF Register
    <3> QED
      BY <3>1, <3>2
  <2>7. ASSUME NEW c \in Callers, Start(c) PROVE Inv'
    BY <2>7 DEF Start
  <2>8. ASSUME NEW c \in Callers, StartFails(c) PROVE Inv'
    BY <2>8 DEF StartFails, Forget
  <2>9. ASSUME NEW c \in Callers, Clip(c) PROVE Inv'
    <3>1. \A k \in 1 .. MaxLimit, x \in Snapshot :
             /\ Clipped(x, k).captured_at = x.captured_at /\ Clipped(x, k).taken = x.taken
             /\ Clipped(x, k) # None
      BY ClippedTyped DEF Clipped, Snapshot
    <3>2. CASE heap' = heap
      BY <2>9, <3>2 DEF Clip
    <3>3. CASE heap' # heap
      <4>1. heap[c] \in Snapshot
            /\ \E k \in 1 .. MaxLimit : heap' = [heap EXCEPT ![c] = Clipped(heap[c], k)]
        BY <2>9, <3>3, ClipEffect DEF Typed
      <4>2. \A x \in Profiles \cup Callers : (heap[x] = None <=> heap'[x] = None)
               /\ heap'[x].captured_at = heap[x].captured_at /\ heap'[x].taken = heap[x].taken
        BY <3>1, <4>1
      <4> QED
        BY <2>9, <4>2 DEF Clip
    <3> QED
      BY <3>2, <3>3
  <2>10. ASSUME NEW c \in Callers, Return(c) PROVE Inv'
    BY <2>10 DEF Return, Forget
  <2>11. ASSUME NEW t \in Threads, Scan(t) PROVE Inv'
    BY <2>1, <2>11 DEF Scan, Captured, callerVars
  <2>12. ASSUME NEW t \in Threads, AcquirePublish(t) PROVE Inv'
    BY <2>12 DEF AcquirePublish, callerVars
  <2>13. ASSUME NEW t \in Threads, Publish(t) PROVE Inv'
    BY <2>13 DEF Publish, NoWork, callerVars
  <2>14. ASSUME NEW t \in Threads, Pop(t) PROVE Inv'
    BY <2>14 DEF Pop, NoWork, callerVars
  <2> QED
    BY <2>2, <2>3, <2>4, <2>5, <2>6, <2>7, <2>8, <2>9, <2>10, <2>11, <2>12, <2>13, <2>14
    DEF Next, CallerStep, WorkerStep
<1> QED
  BY <1>1, <1>2, InductiveInvariant, PTL DEF Spec

-----------------------------------------------------------------------------
(* Every step of the threads is a step of SingleFlight or leaves its state    *)
(* alone: Register answers, Publish lands, Return and StartFails discard.     *)
LEMMA StepRefines == IInv /\ [Next]_vars => [SF!Next]_SF!vars
<1> SUFFICES ASSUME IInv, [Next]_vars PROVE [SF!Next]_SF!vars
  OBVIOUS
<1> DEFINE Same == cacheBar' = cacheBar /\ inflightBar' = inflightBar /\ viewBar' = viewBar
<1>0. Same => [SF!Next]_SF!vars
  BY DEF SF!vars
<1>a. TypeOK /\ CallerInv /\ LockInv /\ ReadInv /\ OneRefreshPerProfile /\ OrderInv /\ Typed
  BY DEF IInv, Typed
<1>1. CASE Tick \/ SetBack \/ UNCHANGED vars
  BY <1>0, <1>1 DEF Tick, SetBack, vars, callerVars, cacheBar, inflightBar, viewBar, Stored
<1>2. ASSUME NEW c \in Callers, Enter(c) \/ AcquireRequest(c) \/ Read(c)
      PROVE  [SF!Next]_SF!vars
  <2>1. heap' = heap \/ heap' = [heap EXCEPT ![c] = heap'[c]]
    BY <1>a, <1>2 DEF Enter, AcquireRequest, Read, TypeOK
  <2>2. cacheBar' = cacheBar
    BY <1>a, <2>1 DEF cacheBar, TypeOK
  <2>3. inflightBar' = inflightBar
    BY <1>2 DEF inflightBar, Stored, Enter, AcquireRequest, Read
  <2>4. viewBar' = viewBar
    BY <1>a, <1>2 DEF viewBar, Answered, Enter, AcquireRequest, Read, TypeOK
  <2> QED
    BY <1>0, <2>2, <2>3, <2>4
<1>3. ASSUME NEW c \in Callers, Register(c) PROVE [SF!Next]_SF!vars
  <2>1. PICK p \in Profiles : p = arg[c].name
    BY <1>a, <1>3, ArgTyped DEF Register
  <2>2. ~Stored(p)
    BY <1>a, <1>3 DEF Register, LockInv, Stored
  <2>3. heap[c] = heap[p] /\ seen[c] = refresh_started[p]
    BY <1>a, <1>3, <2>1 DEF Register, ReadInv
  <2>4. heap' = heap /\ worker' = worker /\ arg' = arg
    BY <1>3 DEF Register
  <2>5. cacheBar' = cacheBar /\ \A q \in Profiles : Stored(q)' = Stored(q)
    BY <2>4 DEF cacheBar, Stored
  <2>6. viewBar' = [viewBar EXCEPT ![c] = [profile |-> p, snapshot |-> cacheBar[p],
                                           running |-> seen'[c] # None]]
    <3>1. pc' = [pc EXCEPT ![c] = pc'[c]] /\ pc'[c] \in Answered
      BY <1>a, <1>3 DEF Register, TypeOK, Answered
    <3>2. seen' = [seen EXCEPT ![c] = seen'[c]]
      BY <1>a, <1>3 DEF Register, TypeOK
    <3> QED
      BY <1>a, <2>1, <2>3, <2>4, <3>1, <3>2 DEF viewBar, cacheBar, TypeOK
  <2>7. CASE NeedsRefresh(c, IsStale(c, p))
    <3>1. now[c] # None
      BY <1>a DEF TypeOK, Time
    <3>2. /\ refresh_started' = [refresh_started EXCEPT ![p] = now[c]]
          /\ seen'[c] = now[c] /\ refresh_started[p] = None
      BY <1>a, <1>3, <2>1, <2>3, <2>7 DEF Register, NeedsRefresh, TypeOK
    <3>3. ~inflightBar[p] /\ inflightBar' = [inflightBar EXCEPT ![p] = TRUE]
      BY <1>a, <2>2, <2>5, <3>1, <3>2 DEF inflightBar, TypeOK
    <3>4. SF!Launch(c, p)
      BY <2>5, <2>6, <3>1, <3>2, <3>3 DEF SF!Launch, SF!Answer
    <3> QED
      BY <3>4 DEF SF!Next
  <2>8. CASE ~NeedsRefresh(c, IsStale(c, p))
    <3>1. refresh_started' = refresh_started /\ seen' = seen
      BY <1>3, <2>1, <2>8 DEF Register
    <3>2. inflightBar[p] = (seen'[c] # None) /\ inflightBar[p] \in BOOLEAN
      BY <2>2, <2>3, <3>1 DEF inflightBar
    <3>3. inflightBar' = [inflightBar EXCEPT ![p] = inflightBar[p]]
      BY <2>5, <3>1 DEF inflightBar
    <3>4. inflightBar[p] \/ cacheBar[p] # None
      <4>1. seen[c] # None \/ heap[p] # None
        BY <2>3, <2>8 DEF NeedsRefresh, IsStale
      <4>2. heap[p] # None => Whole(heap[p]) # None
        BY <1>a DEF Whole, TypeOK, Snapshot
      <4> QED
        BY <3>1, <3>2, <4>1, <4>2 DEF cacheBar
    <3>5. SF!Look(c, p)
      BY <2>5, <2>6, <3>2, <3>3, <3>4 DEF SF!Look, SF!Answer
    <3> QED
      BY <3>5 DEF SF!Next
  <2> QED
    BY <2>7, <2>8
<1>4. ASSUME NEW c \in Callers, Start(c) PROVE [SF!Next]_SF!vars
  <2>1. PICK t \in Threads : /\ worker[t].pc = "none"
                             /\ worker' = [worker EXCEPT ![t] = [pc |-> "scan",
                                              profile |-> arg[c].name, snapshot |-> None]]
    BY <1>4 DEF Start
  <2>2. cacheBar' = cacheBar /\ \A q \in Profiles : Stored(q)' = Stored(q)
    BY <1>a, <1>4, <2>1 DEF cacheBar, Stored, Start, TypeOK
  <2>3. inflightBar' = inflightBar
    BY <1>4, <2>2 DEF inflightBar, Start
  <2>4. viewBar' = viewBar
    BY <1>a, <1>4 DEF viewBar, Answered, Start, TypeOK
  <2> QED
    BY <1>0, <2>2, <2>3, <2>4
<1>5. ASSUME NEW c \in Callers, StartFails(c) \/ Return(c) PROVE [SF!Next]_SF!vars
  <2>1. pc[c] \in Answered /\ pc[c] # "idle" /\ Forget(c)
        /\ worker' = worker /\ refresh_started' = refresh_started
    BY <1>5 DEF StartFails, Return, Answered
  <2>2. cacheBar' = cacheBar
    BY <1>a, <2>1 DEF cacheBar, Forget, TypeOK
  <2>3. inflightBar' = inflightBar
    BY <2>1 DEF inflightBar, Stored
  <2>4. viewBar[c] # None
    <3>1. arg[c].name \in Profiles
      BY <1>a, <2>1, ArgTyped
    <3>2. Whole(heap[c]) \in Snapshot \cup {None}
      <4>1. heap[c] \in Snapshot \cup {None}
        BY <1>a DEF TypeOK
      <4>2. \A s \in Snapshot : Whole(s) \in Snapshot
        BY DEF Whole, Snapshot
      <4> QED
        BY <4>1, <4>2 DEF Whole
    <3>3. [profile |-> arg[c].name, snapshot |-> Whole(heap[c]), running |-> seen[c] # None] \in View
      BY <3>1, <3>2 DEF View
    <3> QED
      BY <2>1, <3>3 DEF viewBar
  <2>5. viewBar' = [viewBar EXCEPT ![c] = None]
    BY <1>a, <2>1 DEF viewBar, Forget, Answered, TypeOK
  <2>6. SF!Discard(c)
    BY <2>2, <2>3, <2>4, <2>5 DEF SF!Discard
  <2> QED
    BY <2>6 DEF SF!Next
<1>6. ASSUME NEW c \in Callers, Clip(c) PROVE [SF!Next]_SF!vars
  <2>1. \A x \in Profiles \cup Callers : Whole(heap'[x]) = Whole(heap[x])
    <3>1. \A k \in 1 .. MaxLimit, x \in Snapshot : Whole(Clipped(x, k)) = Whole(x)
      BY ClippedTyped DEF Clipped, Whole, Snapshot
    <3> QED
      BY <1>a, <1>6, <3>1, ClipEffect DEF TypeOK
  <2>2. cacheBar' = cacheBar
    BY <2>1 DEF cacheBar
  <2>3. inflightBar' = inflightBar
    BY <1>6 DEF inflightBar, Stored, Clip
  <2>4. viewBar' = viewBar
    BY <1>a, <1>6, <2>1 DEF viewBar, Clip, Answered, TypeOK
  <2> QED
    BY <1>0, <2>2, <2>3, <2>4
<1>7. ASSUME NEW t \in Threads, Scan(t) \/ AcquirePublish(t) PROVE [SF!Next]_SF!vars
  <2>1. \A u \in Threads : (worker'[u].pc # "pop" /\ worker[u].pc # "pop") \/ worker'[u] = worker[u]
    <3>1. CASE Scan(t)
      BY <1>a, <3>1 DEF Scan, AfterScan, TypeOK
    <3>2. CASE AcquirePublish(t)
      BY <1>a, <3>2 DEF AcquirePublish, TypeOK, NoWork
    <3> QED
      BY <1>7, <3>1, <3>2
  <2>2. \A q \in Profiles : Stored(q)' = Stored(q)
    BY <2>1 DEF Stored
  <2> QED
    BY <1>0, <1>7, <2>2 DEF Scan, AcquirePublish, callerVars, cacheBar, inflightBar, viewBar
<1>8. ASSUME NEW t \in Threads, Publish(t) PROVE [SF!Next]_SF!vars
  <2>1. PICK p \in Profiles : p = worker[t].profile
    BY <1>a, <1>8 DEF Publish, TypeOK, NoWork
  <2>2. worker[t].snapshot \in Snapshot /\ Whole(worker[t].snapshot) \in Snapshot
    <3>1. worker[t].snapshot \in Snapshot
      BY <1>a, <1>8 DEF Publish, TypeOK, NoWork
    <3>2. worker[t].snapshot.children = worker[t].snapshot.child_count
      BY <1>a, <1>8 DEF Publish, OrderInv
    <3> QED
      BY <3>1, <3>2 DEF Whole, Snapshot
  <2>3. t \in Refreshing(p)
    BY <1>8, <2>1 DEF Refreshing, Publish
  <2>4. refresh_started[p] # None /\ ~Stored(p)
    BY <1>a, <1>8, <2>1, <2>3 DEF OneRefreshPerProfile, Stored, Refreshing, Publish
  <2>5. /\ heap' = [heap EXCEPT ![p] = worker[t].snapshot]
        /\ worker' = [worker EXCEPT ![t].pc = "pop"]
        /\ refresh_started' = refresh_started
        /\ UNCHANGED callerVars
    BY <1>8, <2>1 DEF Publish
  <2>6. \A q \in Profiles : Stored(q)' = (Stored(q) \/ q = p)
    <3>1. worker'[t].pc = "pop" /\ worker'[t].profile = p /\ worker[t].pc # "pop"
      BY <1>a, <1>8, <2>1, <2>5 DEF Publish, TypeOK, NoWork
    <3>2. \A u \in Threads \ {t} : worker'[u] = worker[u]
      BY <1>a, <2>5 DEF TypeOK
    <3> QED
      BY <3>1, <3>2 DEF Stored
  <2>7. inflightBar[p] /\ inflightBar' = [inflightBar EXCEPT ![p] = FALSE]
    BY <2>4, <2>5, <2>6 DEF inflightBar
  <2>8. cacheBar' = [cacheBar EXCEPT ![p] = Whole(worker[t].snapshot)]
    BY <1>a, <2>5 DEF cacheBar, TypeOK
  <2>9. viewBar' = viewBar
    BY <1>a, <2>5 DEF viewBar, callerVars, TypeOK
  <2>10. SF!Land(p)
    BY <2>2, <2>7, <2>8, <2>9 DEF SF!Land
  <2> QED
    BY <2>10 DEF SF!Next
<1>9. ASSUME NEW t \in Threads, Pop(t) PROVE [SF!Next]_SF!vars
  <2>1. PICK p \in Profiles : p = worker[t].profile
    BY <1>a, <1>9 DEF Pop, TypeOK, NoWork
  <2>2. Stored(p) /\ \A q \in Profiles \ {p} : Stored(q)' = Stored(q)
    BY <1>a, <1>9, <2>1 DEF Stored, Pop, NoWork, TypeOK
  <2>3. refresh_started' = [refresh_started EXCEPT ![p] = None]
    BY <1>9, <2>1 DEF Pop
  <2>4. inflightBar' = inflightBar
    BY <1>a, <2>2, <2>3 DEF inflightBar, TypeOK
  <2> QED
    BY <1>0, <1>9, <2>4 DEF Pop, callerVars, cacheBar, viewBar
<1> QED
  BY <1>1, <1>2, <1>3, <1>4, <1>5, <1>6, <1>7, <1>8, <1>9 DEF Next, CallerStep, WorkerStep

(* Whatever the interleaving, the callers see requests that are atomic and    *)
(* flights that are single: the cache implements SingleFlight.                *)
THEOREM Implements == Spec => ImplementsSingleFlight
<1>1. Init => SF!Init
  BY DEF Init, SF!Init, cacheBar, inflightBar, viewBar, Whole, Stored, NoWork, Answered
<1> QED
  BY <1>1, StepRefines, InductiveInvariant, PTL DEF Spec, ImplementsSingleFlight, SF!Spec

=============================================================================

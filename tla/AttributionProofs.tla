-------------------------- MODULE AttributionProofs --------------------------
(* Proofs about Attribution, for any number of pids, processes, pods and      *)
(* changes of the host during a call: a process that lives through the call   *)
(* is given to nothing but its own pod and container, and the memory of a     *)
(* container is what those of its processes told that let their cgroup be     *)
(* read.  The second needs that no pid is passed over (WalkInv), that no      *)
(* process was seen or measured under two pids (SeenInv, RssInv), and what    *)
(* every total is made of (MemoryInv).                                        *)
EXTENDS Attribution, CollectionLemmas

-----------------------------------------------------------------------------
(* A change of the host: no pid gets a process that was started before.       *)
IsChange(h) ==
    /\ h \in HostState /\ IsHost(h) /\ host.begun \subseteq h.begun
    /\ \A p \in Pids : h.at[p] = host.at[p] \/ h.at[p] = None \/ h.at[p] \notin host.begun

(* No change of the host disturbs a call.                                     *)
LEMMA ChangeKeeps ==
    ASSUME NEW h, IInv, Change(h), IsChange(h)
    PROVE  IInv'
<1>1. /\ host' = h /\ churn < MaxChurn /\ churn' = churn + 1
      /\ steady'.processes = steady.processes \cap Running(h)
      /\ steady'.ids = steady.ids \cap h.ids
      /\ steady'.reused = steady.reused \cup {p \in DOMAIN seen : h.at[p] \notin {None, seen[p]}}
      /\ UNCHANGED <<tool, pc, index, errors, todo, seen, rss, rows, totals, source, unread>>
  BY DEF Change
<1>2. /\ TypeOK /\ HostInv /\ SeenInv /\ RssInv /\ IndexInv /\ RowInv /\ WalkInv /\ MemoryInv
      /\ h \in HostState /\ IsHost(h)
  BY DEF IInv, IsChange
<1>3. HostInv'  BY <1>1, <1>2 DEF HostInv
<1>4. /\ \A p \in Pids : host.at[p] # None => host.at[p] \in host.begun
      /\ \A p \in Pids : h.at[p] \in host.begun => h.at[p] = host.at[p] \/ h.at[p] = None
      /\ host.begun \subseteq Processes /\ None \notin host.begun
  BY <1>2, HostAssumption DEF HostInv, IsHost, IsChange, HostState
<1>5. TypeOK'
  <2>1. churn \in Int /\ churn + 1 \in 0 .. MaxChurn  BY <1>1, <1>2, HostAssumption DEF TypeOK
  <2> QED  BY <1>1, <1>2, <2>1 DEF TypeOK
<1>6. SeenInv'
  <2>1. ASSUME NEW p \in DOMAIN seen
        PROVE  seen[p] \in h.begun /\ \A r \in Pids : h.at[r] = seen[p] => r = p
    BY <1>2, <1>4 DEF SeenInv, IsChange
  <2>2. steady'.reused = {} => \A p \in DOMAIN seen : h.at[p] \in {None, seen[p]}  BY <1>1
  <2>3. steady'.reused = {} => steady.reused = {}  BY <1>1
  <2> QED  BY <1>1, <1>2, <2>1, <2>2, <2>3 DEF SeenInv
<1>11. RssInv'
  <2>1. ASSUME NEW p \in DOMAIN seen, rss[p] # None
        PROVE  /\ rss[p] \in h.begun /\ \A r \in Pids : h.at[r] = rss[p] => r = p
               /\ seen[p] \in steady'.processes => rss[p] = seen[p]
    BY <1>1, <1>2, <1>4, <2>1 DEF RssInv, IsChange
  <2> QED  BY <1>1, <1>2, <2>1 DEF RssInv
<1>7. IndexInv'  BY <1>1, <1>2 DEF IndexInv
<1>8. RowInv'
  <2>1. ASSUME NEW p \in DOMAIN rows, IsSteady(p)' PROVE RowIsOwn(p)'
    <3>1. IsSteady(p)  BY <1>1, <2>1 DEF IsSteady
    <3>2. RowIsOwn(p)  BY <1>2, <3>1 DEF RowInv
    <3> QED  BY <1>1, <3>2 DEF RowIsOwn
  <2>2. steady'.reused = {} => steady.reused = {}  BY <1>1
  <2> QED  BY <1>1, <1>2, <2>1, <2>2 DEF RowInv
<1>9. WalkInv'
  <2>1. ASSUME NEW p \in Pids, h.at[p] \in steady'.processes
        PROVE  host.at[p] = h.at[p] /\ host.at[p] \in steady.processes
    <3>1. h.at[p] \in steady.processes /\ h.at[p] \in host.begun
      BY <1>1, <1>2, <1>4, <2>1 DEF HostInv, Running
    <3> QED  BY <1>4, <3>1
  <2> QED  BY <1>1, <1>2, <2>1 DEF WalkInv, Looked, IsWalked
<1>10. MemoryInv'
  BY <1>1, <1>2 DEF MemoryInv, MemoryOf, WithRow, OfPod, ToldBy, TotalOfPod
<1> QED  BY <1>3, <1>5, <1>6, <1>7, <1>8, <1>9, <1>10, <1>11 DEF IInv

(* A process starts: it was not started before.                              *)
LEMMA ExecKeeps == IInv /\ Exec => IInv'
<1> SUFFICES ASSUME IInv, Exec PROVE IInv'  OBVIOUS
<1>1. PICK p \in Pids, q \in Processes \ host.begun :
         /\ host.at[p] = None
         /\ Container[q] # None => Pod[Container[q]] \in host.pods
         /\ Change([host EXCEPT !.at[p] = q, !.begun = @ \cup {q}])
  BY DEF Exec
<1> DEFINE h == [host EXCEPT !.at[p] = q, !.begun = @ \cup {q}]
<1>2. host \in HostState /\ IsHost(host)  BY DEF IInv, HostInv
<1>3. h \in HostState  BY <1>2 DEF HostState
<1>4. h.at = [host.at EXCEPT ![p] = q] /\ h.begun = host.begun \cup {q}
      /\ h.pods = host.pods /\ h.ids = host.ids
  BY <1>2 DEF HostState
<1>5. host.at \in [Pids -> Processes \cup {None}]  BY <1>2 DEF HostState
<1>6. IsHost(h)
  <2>1. ASSUME NEW r \in Pids, h.at[r] # None
        PROVE  /\ h.at[r] \in h.begun /\ \A s \in Pids \ {r} : h.at[s] # h.at[r]
               /\ Container[h.at[r]] # None => Pod[Container[h.at[r]]] \in h.pods
    BY <2>1, <1>1, <1>2, <1>4, <1>5, HostAssumption DEF IsHost
  <2>2. IsFiniteSet(h.begun)  BY <1>2, <1>4, FS_AddElement DEF IsHost
  <2> QED  BY <2>1, <2>2, <1>2, <1>4 DEF IsHost
<1>7. IsChange(h)  BY <1>1, <1>3, <1>4, <1>5, <1>6 DEF IsChange
<1> HIDE DEF h
<1> QED  BY <1>1, <1>7, ChangeKeeps DEF h

(* A process exits.                                                          *)
LEMMA ExitKeeps == IInv /\ Exit => IInv'
<1> SUFFICES ASSUME IInv, Exit PROVE IInv'  OBVIOUS
<1>1. PICK p \in Pids : host.at[p] # None /\ Change([host EXCEPT !.at[p] = None])  BY DEF Exit
<1> DEFINE h == [host EXCEPT !.at[p] = None]
<1>2. host \in HostState /\ IsHost(host)  BY DEF IInv, HostInv
<1>3. h \in HostState  BY <1>2 DEF HostState
<1>4. h.at = [host.at EXCEPT ![p] = None] /\ h.begun = host.begun
      /\ h.pods = host.pods /\ h.ids = host.ids
  BY <1>2 DEF HostState
<1>5. host.at \in [Pids -> Processes \cup {None}]  BY <1>2 DEF HostState
<1>6. IsHost(h)  BY <1>2, <1>4, <1>5 DEF IsHost
<1>7. IsChange(h)  BY <1>1, <1>3, <1>4, <1>5, <1>6 DEF IsChange
<1> HIDE DEF h
<1> QED  BY <1>1, <1>7, ChangeKeeps DEF h

(* The status of a pod follows its container.                                *)
LEMMA StatusKeeps == IInv /\ StatusCatchesUp => IInv'
<1> SUFFICES ASSUME IInv, StatusCatchesUp PROVE IInv'  OBVIOUS
<1>1. PICK q \in Running(host) :
         /\ Container[q] \in Reported \ host.ids
         /\ Change([host EXCEPT !.ids =
               {d \in @ : <<Pod[d], Name[d]>> # <<Pod[Container[q]], Name[Container[q]]>>}
               \cup {Container[q]}])
  BY DEF StatusCatchesUp
<1> DEFINE c == Container[q]
           h == [host EXCEPT !.ids = {d \in @ : <<Pod[d], Name[d]>> # <<Pod[c], Name[c]>>} \cup {c}]
<1>2. host \in HostState /\ IsHost(host)  BY DEF IInv, HostInv
<1>3. h \in HostState  BY <1>1, <1>2 DEF HostState
<1>4. /\ h.at = host.at /\ h.begun = host.begun /\ h.pods = host.pods
      /\ h.ids \subseteq host.ids \cup {c}
  BY <1>2 DEF HostState
<1>5. Pod[c] \in host.pods  BY <1>1, <1>2, HostAssumption DEF Running, IsHost
<1>6. IsHost(h)  BY <1>2, <1>4, <1>5 DEF IsHost
<1>7. IsChange(h)  BY <1>1, <1>3, <1>4, <1>6 DEF IsChange
<1> HIDE DEF h
<1> QED  BY <1>1, <1>7, ChangeKeeps DEF h

(* A pod goes: nothing of it runs.                                           *)
LEMMA PodGoneKeeps == IInv /\ PodGone => IInv'
<1> SUFFICES ASSUME IInv, PodGone PROVE IInv'  OBVIOUS
<1>1. PICK pod \in host.pods :
         /\ \A q \in Running(host) : Container[q] # None => Pod[Container[q]] # pod
         /\ Change([host EXCEPT !.pods = @ \ {pod}, !.ids = {c \in @ : Pod[c] # pod}])
  BY DEF PodGone
<1> DEFINE h == [host EXCEPT !.pods = @ \ {pod}, !.ids = {c \in @ : Pod[c] # pod}]
<1>2. host \in HostState /\ IsHost(host)  BY DEF IInv, HostInv
<1>3. h \in HostState  BY <1>2 DEF HostState
<1>4. /\ h.at = host.at /\ h.begun = host.begun /\ h.pods = host.pods \ {pod}
      /\ h.ids = {c \in host.ids : Pod[c] # pod}
  BY <1>2 DEF HostState
<1>5. IsHost(h)  BY <1>1, <1>2, <1>4 DEF IsHost, Running
<1>6. IsChange(h)  BY <1>1, <1>3, <1>4, <1>5 DEF IsChange
<1> HIDE DEF h
<1> QED  BY <1>1, <1>6, ChangeKeeps DEF h

-----------------------------------------------------------------------------
(* IInv holds at first.                                                      *)
LEMMA Initially == Init => IInv
<1> SUFFICES ASSUME Init PROVE IInv  OBVIOUS
<1>1. host \in HostState /\ IsHost(host)  BY HostAssumption DEF Init
<1>2. /\ DOMAIN seen = {} /\ DOMAIN rss = {} /\ unread = {} /\ DOMAIN rows = {} /\ DOMAIN totals = {} /\ todo = {}
      /\ pc \in {"metrics", "pods"} /\ churn = 0 /\ tool \in {"processes", "memory"}
      /\ index = [pods |-> {}, ids |-> {}] /\ errors = {} /\ source = None
      /\ steady = [processes |-> Running(host), ids |-> host.ids, reused |-> {}]
  BY DEF Init
<1>3. TypeOK
  <2>1. 0 \in 0 .. MaxChurn  BY HostAssumption
  <2>2. index.pods = {} /\ index.ids = {}  BY <1>2
  <2> QED  BY <1>1, <1>2, <2>1, <2>2 DEF TypeOK
<1>4. HostInv  BY <1>1, <1>2 DEF HostInv
<1>5. SeenInv /\ RssInv /\ IndexInv /\ RowInv /\ WalkInv
  BY <1>2 DEF SeenInv, RssInv, IndexInv, RowInv, WalkInv, IsWalked
<1>6. MemoryInv
  <2>1. \A pod : {k \in DOMAIN totals : k.pod = pod} = {} /\ OfPod(pod) = {}
    BY <1>2 DEF OfPod, ToldBy
  <2>2. \A f : SumFunctionOnSet(f, {}) = 0  BY FS_EmptySet, SumStepwise
  <2>3. \A pod : TotalOfPod(pod) = 0 /\ MemoryOf(OfPod(pod)) = 0
    BY <2>1, <2>2 DEF TotalOfPod, MemoryOf
  <2> QED  BY <1>2, <2>3 DEF MemoryInv
<1> QED  BY <1>3, <1>4, <1>5, <1>6 DEF IInv

(* The call changes nothing of the host.                                      *)
LEMMA HostKept == IInv /\ UNCHANGED world => HostInv' /\ UNCHANGED <<host, churn, steady>>
  BY DEF IInv, world, HostInv, IsHost, Running

(* A step that makes no rows leaves them right, and the totals too.           *)
LEMMA RowsKept ==
    ASSUME IInv, UNCHANGED <<steady, tool, rows, totals>>,
           \/ UNCHANGED <<errors, seen, rss, unread>>
           \/ DOMAIN rows = {} /\ DOMAIN totals = {}
    PROVE  RowInv' /\ MemoryInv'
<1>1. RowInv /\ MemoryInv  BY DEF IInv
<1>2. CASE UNCHANGED <<errors, seen, rss, unread>>
  <2>1. MemoryInv'  BY <1>1, <1>2 DEF MemoryInv, MemoryOf, WithRow, OfPod, ToldBy, TotalOfPod
  <2>2. RowInv'  BY <1>1, <1>2 DEF RowInv, IsSteady, RowIsOwn
  <2> QED  BY <2>1, <2>2
<1>3. CASE DOMAIN rows = {} /\ DOMAIN totals = {}
  <2>1. \A pod : OfPod(pod) = {} /\ OfPod(pod)' = {}  BY <1>3 DEF OfPod, ToldBy
  <2>2. MemoryInv'  BY <1>1, <1>3, <2>1 DEF MemoryInv, MemoryOf, TotalOfPod
  <2>3. RowInv'  BY <1>3 DEF RowInv
  <2> QED  BY <2>2, <2>3
<1> QED  BY <1>2, <1>3

(* The step to metrics-server keeps it.                                      *)
LEMMA MetricsKeeps == IInv /\ Metrics => IInv'
<1> SUFFICES ASSUME IInv, Metrics PROVE IInv'  OBVIOUS
<1>1. /\ UNCHANGED <<host, churn, steady, tool, index, todo, seen, rss, rows, totals, unread>>
      /\ pc = "metrics" /\ todo = {} /\ DOMAIN rows = {} /\ DOMAIN totals = {}
      /\ \/ pc' = "done" /\ source' = "metrics-server"
         \/ pc' = "pods" /\ UNCHANGED source
      /\ errors' \subseteq errors \cup {"metrics"}
      /\ DOMAIN seen = {}
      /\ TypeOK /\ SeenInv /\ RssInv /\ IndexInv
  BY DEF Metrics, Failed, world, IInv, IndexInv, WalkInv
<1>2. HostInv'  BY HostKept DEF Metrics
<1>3. TypeOK'  BY <1>1 DEF TypeOK
<1>4. SeenInv' /\ RssInv' /\ IndexInv' /\ WalkInv'
  BY <1>1 DEF SeenInv, RssInv, IndexInv, WalkInv, IsWalked
<1>5. RowInv' /\ MemoryInv'  BY <1>1, RowsKept
<1> QED  BY <1>2, <1>3, <1>4, <1>5 DEF IInv

(* A list without an error has every id that is there when it is made.        *)
LEMMA ListPodsKeeps == IInv /\ ListPods => IInv'
<1> SUFFICES ASSUME IInv, ListPods PROVE IInv'  OBVIOUS
<1>1. /\ UNCHANGED <<host, churn, steady, tool, todo, seen, rss, rows, totals, source, unread>>
      /\ pc = "pods" /\ pc' = "pids" /\ todo = {}
      /\ DOMAIN seen = {} /\ DOMAIN rows = {} /\ DOMAIN totals = {}
      /\ TypeOK /\ HostInv /\ SeenInv /\ RssInv
  BY DEF ListPods, world, IInv, IndexInv, WalkInv
<1>2. HostInv'  BY HostKept DEF ListPods
<1>3. PICK pods \in SUBSET host.pods :
         /\ index' = [pods |-> pods, ids |-> {c \in host.ids : Pod[c] \in pods}]
         /\ errors' \in Failed("pods") /\ (pods # host.pods => "pods" \in errors')
  BY DEF ListPods
<1>4. index'.ids \subseteq Reported /\ index'.pods \subseteq Pods
  BY <1>1, <1>3 DEF HostInv, HostState
<1>5. "pods" \notin errors' => steady'.ids \subseteq index'.ids
  BY <1>1, <1>3 DEF HostInv, IsHost
<1>6. TypeOK'
  <2>1. errors' \subseteq {"metrics", "pods"}  BY <1>1, <1>3 DEF TypeOK, Failed
  <2> QED  BY <1>1, <1>4, <2>1 DEF TypeOK
<1>7. IndexInv'  BY <1>1, <1>4, <1>5 DEF IndexInv
<1>8. SeenInv' /\ RssInv' /\ WalkInv'  BY <1>1 DEF SeenInv, RssInv, WalkInv, IsWalked
<1>9. RowInv' /\ MemoryInv'  BY <1>1, RowsKept
<1> QED  BY <1>2, <1>6, <1>7, <1>8, <1>9 DEF IInv

(* The pids are listed that run when the list is made.                        *)
LEMMA ListPidsKeeps == IInv /\ ListPids => IInv'
<1> SUFFICES ASSUME IInv, ListPids PROVE IInv'  OBVIOUS
<1>1. /\ UNCHANGED <<host, churn, steady, tool, index, errors, seen, rss, rows, totals, source,
                     unread>>
      /\ todo' = {p \in Pids : host.at[p] # None}
      /\ pc = "pids" /\ pc' = "iterate" /\ DOMAIN seen = {} /\ DOMAIN rows = {} /\ DOMAIN totals = {}
      /\ TypeOK /\ HostInv /\ SeenInv /\ RssInv /\ IndexInv
  BY DEF ListPids, world, IInv, IndexInv, WalkInv
<1>2. HostInv'  BY HostKept DEF ListPids
<1>3. TypeOK'  BY <1>1 DEF TypeOK
<1>4. SeenInv' /\ RssInv' /\ IndexInv'  BY <1>1 DEF SeenInv, RssInv, IndexInv
<1>5. WalkInv'
  <2>1. None \notin steady.processes  BY <1>1 DEF HostInv, Running
  <2> QED  BY <1>1, <2>1 DEF WalkInv, IsWalked
<1>6. RowInv' /\ MemoryInv'  BY <1>1, RowsKept
<1> QED  BY <1>2, <1>3, <1>4, <1>5, <1>6 DEF IInv

(* A pid that is looked at is seen with the process it has then.              *)
LEMMA IterateKeeps == IInv /\ Iterate => IInv'
<1> SUFFICES ASSUME IInv, Iterate PROVE IInv'  OBVIOUS
<1>1. /\ UNCHANGED <<host, churn, steady, tool, index, errors, rows, totals, source, unread>>
      /\ pc = "iterate" /\ DOMAIN rows = {} /\ DOMAIN totals = {}
      /\ TypeOK /\ HostInv /\ SeenInv /\ RssInv /\ IndexInv /\ WalkInv
  BY DEF Iterate, world, IInv, IndexInv
<1>2. HostInv'  BY HostKept DEF Iterate
<1>3. RowInv' /\ MemoryInv'  BY <1>1, RowsKept
<1>4. None \notin steady.processes  BY <1>1 DEF HostInv, Running
<1>5. CASE todo = {} /\ pc' = "match" /\ todo' = DOMAIN seen /\ UNCHANGED <<seen, rss>>
  <2>1. TypeOK' /\ SeenInv' /\ RssInv' /\ IndexInv'
    BY <1>1, <1>5 DEF TypeOK, SeenInv, RssInv, IndexInv
  <2>2. WalkInv'  BY <1>1, <1>5 DEF WalkInv, IsWalked, Looked
  <2> QED  BY <1>2, <1>3, <2>1, <2>2 DEF IInv
<1>6. ASSUME NEW p \in todo, Gone(p), todo' = todo \ {p}, UNCHANGED <<pc, seen, rss>>
      PROVE  IInv'
  <2>1. host.at[p] = None  BY <1>6 DEF Gone
  <2>2. TypeOK' /\ SeenInv' /\ RssInv' /\ IndexInv'
    BY <1>1, <1>6 DEF TypeOK, SeenInv, RssInv, IndexInv
  <2>3. WalkInv'  BY <1>1, <1>4, <1>6, <2>1 DEF WalkInv, IsWalked, Looked
  <2> QED  BY <1>2, <1>3, <2>2, <2>3 DEF IInv
<1>7. ASSUME NEW p \in todo, p \notin DOMAIN seen, ~Gone(p), UNCHANGED <<pc, todo>>,
             seen' = With(seen, p, host.at[p]), rss' = With(rss, p, None)
      PROVE  IInv'
  <2>1. p \in Pids /\ host.at \in [Pids -> Processes \cup {None}] /\ DOMAIN rss = DOMAIN seen
    BY <1>1 DEF TypeOK, SeenInv, HostInv, HostState
  <2>2. /\ host.at[p] # None /\ DOMAIN seen' = DOMAIN seen \cup {p} /\ seen'[p] = host.at[p]
        /\ \A x \in DOMAIN seen : seen'[x] = seen[x]
        /\ DOMAIN rss' = DOMAIN seen' /\ rss'[p] = None
        /\ \A x \in DOMAIN seen : rss'[x] = rss[x]
    BY <1>7, <2>1 DEF Gone, With
  <2>3. IndexInv'  BY <1>1, <1>7 DEF IndexInv
  <2>4. TypeOK'
    <3>1. \A x \in DOMAIN seen' : seen'[x] \in Processes /\ rss'[x] \in Processes \cup {None}
      BY <1>1, <2>1, <2>2 DEF TypeOK
    <3> QED  BY <1>1, <1>7, <2>1, <2>2, <3>1 DEF TypeOK
  <2>5. SeenInv'
    <3>1. ASSUME NEW x \in DOMAIN seen'
          PROVE  seen'[x] \in host.begun /\ \A r \in Pids : host.at[r] = seen'[x] => r = x
      BY <1>1, <2>1, <2>2 DEF SeenInv, HostInv, IsHost
    <3>2. ASSUME NEW x \in DOMAIN seen', NEW y \in DOMAIN seen', seen'[x] = seen'[y]
          PROVE  x = y
      BY <1>1, <2>1, <2>2, <3>2 DEF SeenInv
    <3>3. steady'.reused = {} => \A x \in DOMAIN seen' :
             host'.at[x] \in {None, seen'[x]} /\ rss'[x] \in {None, seen'[x]}
      BY <1>1, <2>2 DEF SeenInv
    <3>4. todo' \subseteq Pids /\ DOMAIN seen' \subseteq Pids
      BY <1>1, <1>7, <2>1, <2>2 DEF SeenInv
    <3> QED  BY <1>1, <3>1, <3>2, <3>3, <3>4 DEF SeenInv
  <2>6. RssInv'
    <3>1. \A x \in DOMAIN seen' : rss'[x] # None => x \in DOMAIN seen /\ rss[x] = rss'[x]
      BY <2>2
    <3> QED  BY <1>1, <2>2, <3>1 DEF RssInv
  <2>7. WalkInv'  BY <1>1, <1>7, <2>2 DEF WalkInv, IsWalked, Looked
  <2> QED  BY <1>2, <1>3, <2>3, <2>4, <2>5, <2>6, <2>7 DEF IInv
<1> QED  BY <1>5, <1>6, <1>7 DEF Iterate

(* A pid tells the memory of the process it has then: if that lives through   *)
(* the call, it is the one that was seen.                                     *)
LEMMA MeasureKeeps == IInv /\ Measure => IInv'
<1> SUFFICES ASSUME IInv, Measure PROVE IInv'  OBVIOUS
<1>1. /\ UNCHANGED <<host, churn, steady, tool, pc, index, errors, seen, rows, totals, source,
                     unread>>
      /\ pc = "iterate" /\ DOMAIN rows = {} /\ DOMAIN totals = {}
      /\ TypeOK /\ HostInv /\ SeenInv /\ RssInv /\ IndexInv /\ WalkInv
  BY DEF Measure, world, IInv, IndexInv
<1>2. HostInv'  BY HostKept DEF Measure
<1>3. RowInv' /\ MemoryInv'  BY <1>1, RowsKept
<1>4. PICK p \in todo \cap DOMAIN seen :
         todo' = todo \ {p} /\ \E told \in {None, host.at[p]} : rss' = [rss EXCEPT ![p] = told]
  BY DEF Measure
<1>5. PICK told \in {None, host.at[p]} : rss' = [rss EXCEPT ![p] = told]  BY <1>4
<1>6. /\ p \in Pids /\ host.at \in [Pids -> Processes \cup {None}] /\ DOMAIN rss = DOMAIN seen
      /\ DOMAIN rss' = DOMAIN seen /\ rss'[p] = told
      /\ \A x \in DOMAIN seen : x # p => rss'[x] = rss[x]
  BY <1>1, <1>4, <1>5 DEF TypeOK, SeenInv, HostInv, HostState
<1>7. TypeOK'
  <2>1. \A x \in DOMAIN seen : rss'[x] \in Processes \cup {None}  BY <1>1, <1>6 DEF TypeOK
  <2> QED  BY <1>1, <1>4, <1>6, <2>1 DEF TypeOK
<1>8. SeenInv'
  <2>1. steady.reused = {} => \A x \in DOMAIN seen : rss'[x] \in {None, seen[x]}
    BY <1>1, <1>5, <1>6 DEF SeenInv
  <2> QED  BY <1>1, <1>4, <2>1 DEF SeenInv
<1>9. RssInv'
  <2>1. told # None => /\ told \in host.begun /\ \A r \in Pids : host.at[r] = told => r = p
                       /\ told = host.at[p]
    BY <1>1, <1>5, <1>6 DEF HostInv, IsHost
  <2>2. told # None /\ seen[p] \in steady.processes => told = seen[p]
    <3>1. seen[p] \in steady.processes => \E r \in Pids : host.at[r] = seen[p]
      BY <1>1 DEF HostInv, Running
    <3>2. seen[p] \in steady.processes => host.at[p] = seen[p]
      BY <1>1, <1>4, <3>1 DEF SeenInv
    <3> QED  BY <2>1, <3>2
  <2>3. ASSUME NEW x \in DOMAIN seen, rss'[x] # None
        PROVE  /\ rss'[x] \in host.begun /\ \A r \in Pids : host.at[r] = rss'[x] => r = x
               /\ seen[x] \in steady.processes => rss'[x] = seen[x]
    BY <1>1, <1>6, <2>1, <2>2, <2>3 DEF RssInv
  <2>4. ASSUME NEW x \in DOMAIN seen, NEW y \in DOMAIN seen, rss'[x] = rss'[y], rss'[x] # None
        PROVE  x = y
    <3>1. CASE x = p \/ y = p
      <4>1. told # None /\ host.at[p] = told /\ rss'[x] = told /\ rss'[y] = told
        BY <1>6, <2>1, <2>4, <3>1
      <4>2. x = p /\ y = p  BY <1>6, <2>3, <4>1
      <4> QED  BY <4>2
    <3>2. CASE x # p /\ y # p  BY <1>1, <1>6, <2>4, <3>2 DEF RssInv
    <3> QED  BY <3>1, <3>2
  <2> QED  BY <1>1, <2>3, <2>4 DEF RssInv
<1>10. IndexInv'  BY <1>1 DEF IndexInv
<1>11. WalkInv'
  <2>1. ASSUME NEW x \in Pids, host.at[x] \in steady.processes
        PROVE  IF x \in DOMAIN seen THEN Looked(x) ELSE x \in todo'
    BY <1>1, <1>4, <2>1 DEF WalkInv
  <2> QED  BY <1>1, <2>1 DEF WalkInv, IsWalked, Looked
<1> QED  BY <1>2, <1>3, <1>7, <1>8, <1>9, <1>10, <1>11 DEF IInv

(* The end of the call keeps it.                                             *)
LEMMA ReportKeeps == IInv /\ Report => IInv'
<1> SUFFICES ASSUME IInv, Report PROVE IInv'  OBVIOUS
<1>1. /\ UNCHANGED <<host, churn, steady, tool, index, errors, todo, seen, rss, rows, totals,
                     unread>>
      /\ pc = "match" /\ todo = {} /\ pc' = "done"
      /\ source' \in {None, "unavailable", "cgroup-rss"}
      /\ TypeOK /\ SeenInv /\ RssInv /\ IndexInv /\ WalkInv
  BY DEF Report, world, IInv
<1>2. HostInv'  BY HostKept DEF Report
<1>3. TypeOK' /\ SeenInv' /\ RssInv' /\ IndexInv'
  BY <1>1 DEF TypeOK, SeenInv, RssInv, IndexInv
<1>4. WalkInv'  BY <1>1 DEF WalkInv, IsWalked, Looked
<1>5. RowInv' /\ MemoryInv'  BY <1>1, RowsKept
<1> QED  BY <1>2, <1>3, <1>4, <1>5 DEF IInv

-----------------------------------------------------------------------------
(* What a cgroup matches is its own pod, or its own container, or nothing.    *)
LEMMA MatchIsOwn ==
    ASSUME NEW c, index.ids \subseteq Reported, index.pods \subseteq Pods
    PROVE  /\ Match(c) = NoMatch
              \/ (c # None /\ Match(c).pod = Pod[c] /\ Match(c).pod \in Pods)
           /\ c \in index.ids => Match(c) = [pod |-> Pod[c], name |-> Name[c]]
<1>1. CASE c \in index.ids
  <2>1. Match(c) = [pod |-> Pod[c], name |-> Name[c]] /\ c \in Containers
    BY <1>1, HostAssumption DEF Match
  <2> QED  BY <2>1, HostAssumption DEF Pods
<1>2. CASE c \notin index.ids
  <2>1. CASE c = None  BY <1>2, <2>1 DEF Match
  <2>2. CASE c # None  BY <1>2, <2>2 DEF Match, ByPod
  <2> QED  BY <2>1, <2>2
<1> QED  BY <1>1, <1>2

(* The row of one more process: its memory is added to the total of the row,  *)
(* and to that of the pod.                                                    *)
RowAdded(p, m) ==
    /\ p \in DOMAIN seen \ DOMAIN rows
    /\ m = NoMatch \/ m.pod \in Pods
    /\ rows' = With(rows, p, m)
    /\ totals' = IF tool # "memory" \/ m = NoMatch THEN totals
                 ELSE With(totals, m, (IF m \in DOMAIN totals THEN totals[m] ELSE 0) + Size(p))
    /\ UNCHANGED <<seen, rss, tool>>

(* What a set of pids told is finite, and has a size.                         *)
LEMMA SeenFacts ==
    ASSUME IInv
    PROVE  /\ IsFiniteSet(DOMAIN seen)
           /\ \A R \in SUBSET DOMAIN seen :
                 /\ IsFiniteSet(ToldBy(R))
                 /\ \A q \in ToldBy(R) : q # None /\ Rss[q] \in Nat
           /\ \A p \in DOMAIN seen : Size(p) \in Nat
           /\ \A p, r \in DOMAIN seen : rss[p] = rss[r] /\ rss[p] # None => p = r
<1>1. TypeOK /\ HostInv /\ SeenInv /\ RssInv  BY DEF IInv
<1>2. IsFiniteSet(DOMAIN seen)  BY <1>1, HostAssumption, FS_Subset DEF SeenInv
<1>3. ASSUME NEW R \in SUBSET DOMAIN seen PROVE IsFiniteSet(ToldBy(R))
  <2>1. ToldBy(R) \subseteq host.begun /\ IsFiniteSet(host.begun)
    BY <1>1 DEF RssInv, HostInv, IsHost, ToldBy
  <2> QED  BY <2>1, FS_Subset
<1>4. ASSUME NEW R \in SUBSET DOMAIN seen, NEW q \in ToldBy(R) PROVE q # None /\ Rss[q] \in Nat
  BY <1>1, HostAssumption DEF TypeOK, ToldBy
<1>5. \A p \in DOMAIN seen : Size(p) \in Nat
  BY <1>1, HostAssumption DEF TypeOK, Size
<1> QED  BY <1>1, <1>2, <1>3, <1>4, <1>5 DEF RssInv

(* Memory of one more pid.                                                    *)
LEMMA OneProcessMore ==
    ASSUME IInv, NEW R \in SUBSET DOMAIN seen, NEW p \in DOMAIN seen, p \notin R
    PROVE  /\ MemoryOf(ToldBy(R \cup {p})) = MemoryOf(ToldBy(R)) + Size(p)
           /\ MemoryOf(ToldBy(R)) \in Nat
<1> DEFINE S == ToldBy(R)
<1>1. IsFiniteSet(S) /\ \A q \in S : Rss[q] \in Nat  BY SeenFacts
<1>2. MemoryOf(S) \in Nat
  <2> HIDE DEF S
  <2> QED  BY <1>1, SumOfPart DEF MemoryOf
<1>3. CASE rss[p] = None
  <2>1. ToldBy(R \cup {p}) = S  BY <1>3 DEF ToldBy
  <2>2. Size(p) = 0  BY <1>3 DEF Size
  <2> HIDE DEF S
  <2> QED  BY <1>2, <2>1, <2>2 DEF S
<1>4. CASE rss[p] # None
  <2>1. ToldBy(R \cup {p}) = S \cup {rss[p]}  BY <1>4 DEF ToldBy
  <2>2. rss[p] \notin S
    <3>1. \A r \in R : rss[r] # rss[p]  BY <1>4, SeenFacts
    <3> QED  BY <3>1 DEF ToldBy
  <2>3. Size(p) = Rss[rss[p]] /\ Size(p) \in Nat  BY <1>4, SeenFacts DEF Size
  <2> HIDE DEF S
  <2>4. SumFunctionOnSet(Rss, S \cup {rss[p]}) = SumFunctionOnSet(Rss, S) + Rss[rss[p]]
    BY <1>1, <2>2, <2>3, SumOfOneMore
  <2> QED  BY <1>2, <2>1, <2>3, <2>4 DEF MemoryOf, S
<1> QED  BY <1>3, <1>4

(* One more row: the totals stay what the rows make of them.                 *)
LEMMA TotalsFollow ==
    ASSUME IInv, tool = "memory", DOMAIN rows \subseteq DOMAIN seen, NEW p, NEW m, RowAdded(p, m)
    PROVE  MemoryInv' /\ \A k \in DOMAIN totals' : k.pod \in Pods /\ totals'[k] \in Nat
<1>1. /\ p \in DOMAIN seen /\ p \notin DOMAIN rows /\ seen' = seen /\ rss' = rss /\ tool' = tool
      /\ DOMAIN rows' = DOMAIN rows \cup {p} /\ rows'[p] = m
      /\ \A x \in DOMAIN rows : rows'[x] = rows[x]
      /\ m = NoMatch \/ m.pod \in Pods
  BY DEF RowAdded, With
<1>2. /\ DOMAIN totals = {rows[r] : r \in DOMAIN rows} \ {NoMatch}
      /\ \A k \in DOMAIN totals : totals[k] = MemoryOf(WithRow(k))
      /\ \A pod \in Pods : TotalOfPod(pod) = MemoryOf(OfPod(pod))
      /\ \A k \in DOMAIN totals : k.pod \in Pods /\ totals[k] \in Nat
  BY DEF IInv, MemoryInv, TypeOK
<1>3. None \notin Pods  BY HostAssumption
<1> DEFINE size == Size(p)
<1>4. size \in Nat  BY <1>1, SeenFacts
<1>5. ASSUME NEW k PROVE MemoryOf(WithRow(k))' = MemoryOf(WithRow(k)) + IF k = m THEN size ELSE 0
  <2> DEFINE R == {r \in DOMAIN rows : rows[r] = k}
  <2>1. R \in SUBSET DOMAIN seen /\ p \notin R  BY <1>1
  <2>2. {r \in DOMAIN rows' : rows'[r] = k} = IF k = m THEN R \cup {p} ELSE R  BY <1>1
  <2>3. WithRow(k) = ToldBy(R) /\ WithRow(k)' = ToldBy(IF k = m THEN R \cup {p} ELSE R)
    BY <1>1, <2>2 DEF WithRow, ToldBy
  <2> HIDE DEF R
  <2>4. /\ MemoryOf(ToldBy(R \cup {p})) = MemoryOf(ToldBy(R)) + size
        /\ MemoryOf(ToldBy(R)) \in Nat
    BY <1>1, <2>1, OneProcessMore
  <2>5. MemoryOf(WithRow(k))' = MemoryOf(WithRow(k)')  BY DEF MemoryOf
  <2>6. CASE k = m  BY <2>3, <2>4, <2>5, <2>6
  <2>7. CASE k # m  BY <2>3, <2>4, <2>5, <2>7
  <2> QED  BY <2>6, <2>7
<1>6. ASSUME NEW pod
      PROVE  /\ MemoryOf(OfPod(pod))' = MemoryOf(OfPod(pod)) + IF pod = m.pod THEN size ELSE 0
             /\ MemoryOf(OfPod(pod)) \in Nat
  <2> DEFINE R == {r \in DOMAIN rows : rows[r].pod = pod}
  <2>1. R \in SUBSET DOMAIN seen /\ p \notin R  BY <1>1
  <2>2. {r \in DOMAIN rows' : rows'[r].pod = pod} = IF pod = m.pod THEN R \cup {p} ELSE R  BY <1>1
  <2>3. OfPod(pod) = ToldBy(R) /\ OfPod(pod)' = ToldBy(IF pod = m.pod THEN R \cup {p} ELSE R)
    BY <1>1, <2>2 DEF OfPod, ToldBy
  <2> HIDE DEF R
  <2>4. /\ MemoryOf(ToldBy(R \cup {p})) = MemoryOf(ToldBy(R)) + size
        /\ MemoryOf(ToldBy(R)) \in Nat
    BY <1>1, <2>1, OneProcessMore
  <2>5. MemoryOf(OfPod(pod))' = MemoryOf(OfPod(pod)')  BY DEF MemoryOf
  <2>6. CASE pod = m.pod  BY <2>3, <2>4, <2>5, <2>6
  <2>7. CASE pod # m.pod  BY <2>3, <2>4, <2>5, <2>7
  <2> QED  BY <2>6, <2>7
<1>7. CASE m = NoMatch
  <2>1. totals' = totals  BY <1>7 DEF RowAdded
  <2>2. DOMAIN totals' = {rows'[r] : r \in DOMAIN rows'} \ {NoMatch}
    BY <1>1, <1>2, <1>7, <2>1
  <2>3. \A k \in DOMAIN totals' : totals'[k] = MemoryOf(WithRow(k))'
    BY <1>2, <1>5, <1>7, <2>1
  <2>4. ASSUME NEW pod \in Pods PROVE TotalOfPod(pod)' = MemoryOf(OfPod(pod))'
    <3>1. pod # m.pod  BY <1>3, <1>7, <2>4 DEF NoMatch
    <3>2. TotalOfPod(pod)' = TotalOfPod(pod)  BY <2>1 DEF TotalOfPod
    <3> QED  BY <1>2, <1>6, <3>1, <3>2
  <2> QED  BY <1>1, <1>2, <2>1, <2>2, <2>3, <2>4 DEF MemoryInv
<1>8. CASE m # NoMatch
  <2> DEFINE old(k) == IF k \in DOMAIN totals THEN totals[k] ELSE 0
  <2>1. totals' = With(totals, m, old(m) + size)
    BY <1>8 DEF RowAdded
  <2>2. DOMAIN totals' = {rows'[r] : r \in DOMAIN rows'} \ {NoMatch}
    BY <1>1, <1>2, <1>8, <2>1 DEF With
  <2>3. \A x \in DOMAIN totals : x # m => totals'[x] = totals[x]
    BY <2>1 DEF With
  <2>4. totals'[m] = old(m) + size /\ old(m) \in Nat  BY <1>2, <2>1 DEF With
  <2>5. DOMAIN totals' = DOMAIN totals \cup {m}  BY <2>1 DEF With
  <2>6. \A k : k \notin DOMAIN totals /\ k # NoMatch => MemoryOf(WithRow(k)) = 0
    <3>1. ASSUME NEW k, k \notin DOMAIN totals, k # NoMatch PROVE WithRow(k) = {}
      BY <1>2, <3>1 DEF WithRow, ToldBy
    <3>2. SumFunctionOnSet(Rss, {}) = 0  BY FS_EmptySet, SumStepwise
    <3> QED  BY <3>1, <3>2 DEF MemoryOf
  <2>7. old(m) = MemoryOf(WithRow(m))  BY <1>2, <1>8, <2>6
  <2> HIDE DEF old
  <2>8. \A k \in DOMAIN totals' : totals'[k] = MemoryOf(WithRow(k))'
    <3>1. totals'[m] = MemoryOf(WithRow(m))'  BY <1>5, <2>4, <2>7
    <3>2. ASSUME NEW k \in DOMAIN totals, k # m PROVE totals'[k] = MemoryOf(WithRow(k))'
      BY <1>2, <1>5, <2>3, <3>2
    <3> QED  BY <2>5, <3>1, <3>2
  <2>9. IsFiniteSet(DOMAIN totals)
    <3>1. IsFiniteSet(DOMAIN rows)  BY SeenFacts, FS_Subset
    <3> DEFINE g == [r \in DOMAIN rows |-> rows[r]]
    <3>2. g = [r \in DOMAIN rows |-> g[r]] /\ \A r \in DOMAIN rows : g[r] = rows[r]  OBVIOUS
    <3> HIDE DEF g
    <3>3. IsFiniteSet({g[r] : r \in DOMAIN rows})  BY <3>1, <3>2, FiniteImage
    <3>4. {rows[r] : r \in DOMAIN rows} = {g[r] : r \in DOMAIN rows}  BY <3>2
    <3> QED  BY <1>2, <3>3, <3>4, FS_Subset
  <2>10. \A k \in DOMAIN totals' : totals'[k] \in Nat /\ k.pod \in Pods
    BY <1>1, <1>2, <1>4, <1>8, <2>3, <2>4, <2>5
  <2>11. ASSUME NEW pod \in Pods PROVE TotalOfPod(pod)' = MemoryOf(OfPod(pod))'
    <3> DEFINE K == {k \in DOMAIN totals : k.pod = pod}
    <3>1. TotalOfPod(pod) = SumFunctionOnSet(totals, K)  BY DEF TotalOfPod
    <3>2. IsFiniteSet(K)  BY <2>9, FS_Subset
    <3>3. SumFunctionOnSet(totals, K) \in Int  BY <1>2, <3>2, SumIsInt
    <3>4. CASE pod # m.pod
      <4>1. {k \in DOMAIN totals' : k.pod = pod} = K  BY <2>5, <3>4
      <4>2. \A k \in K : totals'[k] = totals[k]  BY <2>3, <3>4
      <4> HIDE DEF K
      <4>3. SumFunctionOnSet(totals', K) = SumFunctionOnSet(totals, K)  BY <3>2, <4>2, SumOfEquals
      <4>4. TotalOfPod(pod)' = SumFunctionOnSet(totals', K)  BY <4>1 DEF TotalOfPod
      <4> QED  BY <1>2, <1>6, <3>1, <3>3, <3>4, <4>3, <4>4
    <3>5. CASE pod = m.pod
      <4>1. {k \in DOMAIN totals' : k.pod = pod} = K \cup {m}  BY <2>5, <3>5
      <4>2. TotalOfPod(pod)' = SumFunctionOnSet(totals', K \cup {m})  BY <4>1 DEF TotalOfPod
      <4>3. \A k \in K : totals[k] \in Int /\ totals'[k] \in Int  BY <1>2, <2>10, <2>5
      <4>4. totals'[m] \in Int  BY <2>10, <2>5
      <4>5. \A k \in K \ {m} : totals'[k] = totals[k]  BY <2>3
      <4>6. SumFunctionOnSet(totals', K \cup {m}) = SumFunctionOnSet(totals, K) + size
        <5>1. CASE m \in K
          <6>1. totals'[m] = totals[m] + size /\ K \cup {m} = K /\ totals[m] \in Int
            BY <2>4, <4>3, <5>1 DEF old
          <6> HIDE DEF K
          <6>2. SumFunctionOnSet(totals', K) = SumFunctionOnSet(totals, K) + totals'[m] - totals[m]
            BY <3>2, <4>3, <4>5, <5>1, SumOfOneChanged
          <6>3. \A a, b, c, d \in Int : c = b + d => a + c - b = a + d  OBVIOUS
          <6>4. totals'[m] \in Int /\ size \in Int  BY <1>4, <4>4
          <6> HIDE DEF size
          <6>5. SumFunctionOnSet(totals, K) + totals'[m] - totals[m]
                = SumFunctionOnSet(totals, K) + size
            BY <3>3, <6>1, <6>3, <6>4
          <6> QED  BY <6>1, <6>2, <6>5
        <5>2. CASE m \notin K
          <6>1. totals'[m] = size  BY <1>4, <2>4, <3>5, <5>2 DEF old
          <6>2. \A k \in K : totals'[k] \in Int /\ totals'[k] = totals[k]  BY <4>3, <4>5, <5>2
          <6> HIDE DEF K
          <6> QED  BY <3>2, <4>4, <5>2, <6>1, <6>2, SumOfOneMore
        <5> QED  BY <5>1, <5>2
      <4> QED  BY <1>2, <1>6, <3>1, <3>5, <4>2, <4>6
    <3> QED  BY <3>4, <3>5
  <2> QED  BY <1>1, <2>2, <2>8, <2>10, <2>11 DEF MemoryInv
<1> QED  BY <1>7, <1>8

(* One pid is matched: its row is of what runs there now.                    *)
LEMMA MatchCgroupKeeps == IInv /\ MatchCgroup => IInv'
<1> SUFFICES ASSUME IInv, MatchCgroup PROVE IInv'  OBVIOUS
<1> DEFINE match(p, refused) == IF refused \/ host.at[p] = None THEN NoMatch
                                ELSE Match(Container[host.at[p]])
<1> DEFINE added(p, m) ==
              /\ rows' = With(rows, p, m)
              /\ totals' = IF tool # "memory" \/ m = NoMatch THEN totals
                           ELSE With(totals, m, (IF m \in DOMAIN totals THEN totals[m] ELSE 0)
                                                + Size(p))
<1>0. PICK p \in todo, refused \in BOOLEAN :
         /\ todo' = todo \ {p} /\ added(p, match(p, refused))
         /\ unread' = IF refused THEN unread \cup {p} ELSE unread
  BY DEF MatchCgroup, KeyOf
<1> DEFINE m == match(p, refused)
<1>1. todo' = todo \ {p} /\ added(p, m) /\ unread' = IF refused THEN unread \cup {p} ELSE unread
  BY <1>0
<1>2. /\ UNCHANGED <<host, churn, steady, tool, pc, index, errors, seen, rss, source>>
      /\ pc = "match"
      /\ TypeOK /\ HostInv /\ SeenInv /\ RssInv /\ IndexInv /\ RowInv /\ WalkInv /\ MemoryInv
  BY DEF MatchCgroup, world, IInv
<1>3. HostInv'  BY HostKept DEF MatchCgroup
<1>4. IndexInv'  BY <1>2 DEF IndexInv
<1>5. SeenInv' /\ RssInv'  BY <1>1, <1>2 DEF SeenInv, RssInv
<1>6. /\ p \in DOMAIN seen /\ p \notin DOMAIN rows /\ DOMAIN rows \subseteq DOMAIN seen
      /\ DOMAIN rows = DOMAIN seen \ todo
  BY <1>1, <1>2 DEF WalkInv, IsWalked
<1>7. WalkInv'
  <2>1. DOMAIN rows' = DOMAIN seen \ todo'  BY <1>1, <1>6 DEF With
  <2> QED  BY <1>1, <1>2, <2>1 DEF WalkInv, IsWalked, Looked
<1>8. /\ m = NoMatch
         \/ (Container[host.at[p]] # None /\ m.pod = Pod[Container[host.at[p]]]
             /\ m.pod \in Pods /\ host.at[p] # None)
      /\ p \notin unread' /\ host.at[p] # None /\ Container[host.at[p]] \in index.ids =>
            m = [pod |-> Pod[Container[host.at[p]]], name |-> Name[Container[host.at[p]]]]
  <2>1. index.ids \subseteq Reported /\ index.pods \subseteq Pods  BY <1>2 DEF IndexInv
  <2>2. CASE refused \/ host.at[p] = None  BY <1>1, <2>2
  <2>3. CASE ~(refused \/ host.at[p] = None)
    <3>1. m = Match(Container[host.at[p]])  BY <2>3
    <3> HIDE DEF m
    <3> QED  BY <2>1, <2>3, <3>1, MatchIsOwn
  <2> QED  BY <2>2, <2>3
<1> HIDE DEF m
<1>9. RowAdded(p, m)  BY <1>1, <1>2, <1>6, <1>8 DEF RowAdded
<1>10. /\ DOMAIN rows' = DOMAIN rows \cup {p} /\ rows'[p] = m
       /\ \A x \in DOMAIN rows : rows'[x] = rows[x]
       /\ \A x \in DOMAIN rows : x \in unread' <=> x \in unread
       /\ unread' \subseteq unread \cup {p}
  BY <1>1, <1>6 DEF With
<1>11. MemoryInv' /\ \A k \in DOMAIN totals' : k.pod \in Pods /\ totals'[k] \in Nat
  <2>1. CASE tool = "memory"
    <3>1. IInv  OBVIOUS
    <3> QED  BY <1>6, <1>9, <2>1, <3>1, TotalsFollow
  <2>2. CASE tool # "memory"  BY <1>1, <1>2, <2>2 DEF MemoryInv
  <2> QED  BY <2>1, <2>2
<1>12. TypeOK'  BY <1>1, <1>2, <1>10, <1>11 DEF TypeOK
<1>13. RowInv'
  <2>1. ASSUME NEW x \in DOMAIN rows', IsSteady(x)' PROVE RowIsOwn(x)'
    <3>1. IsSteady(x)  BY <1>2, <2>1 DEF IsSteady
    <3>2. CASE x = p
      <4>1. host.at[x] = seen[x] /\ host.at[x] # None
        BY <1>2, <3>1 DEF SeenInv, HostInv, Running, IsSteady
      <4>2. Container[seen[x]] \in steady.ids /\ "pods" \notin errors =>
              Container[seen[x]] \in index.ids
        BY <1>2 DEF IndexInv
      <4> QED  BY <1>2, <1>8, <1>10, <3>2, <4>1, <4>2 DEF RowIsOwn
    <3>3. CASE x # p
      <4>1. x \in DOMAIN rows /\ rows'[x] = rows[x]  BY <1>10, <2>1, <3>3
      <4>2. RowIsOwn(x)  BY <1>2, <3>1, <4>1 DEF RowInv
      <4> QED  BY <1>2, <1>10, <4>1, <4>2 DEF RowIsOwn
    <3> QED  BY <3>2, <3>3
  <2>2. \A x \in DOMAIN rows' : rows'[x] = NoMatch \/ rows'[x].pod \in Pods
    BY <1>2, <1>8, <1>10 DEF RowInv
  <2>3. ASSUME steady'.reused = {}, NEW x \in DOMAIN rows'
        PROVE  rows'[x] = NoMatch
               \/ (Container[seen[x]] # None /\ rows'[x].pod = Pod[Container[seen[x]]])
    <3>1. CASE x = p
      <4>1. host.at[p] \in {None, seen[p]}  BY <1>2, <1>6, <2>3 DEF SeenInv
      <4> QED  BY <1>8, <1>10, <3>1, <4>1
    <3>2. CASE x # p  BY <1>2, <1>10, <2>3, <3>2 DEF RowInv
    <3> QED  BY <3>1, <3>2
  <2> QED  BY <1>2, <2>1, <2>2, <2>3 DEF RowInv
<1> QED  BY <1>3, <1>4, <1>5, <1>7, <1>11, <1>12, <1>13 DEF IInv

-----------------------------------------------------------------------------
(* IInv holds in every state.                                                 *)
THEOREM AttributionInvariant == Spec => []IInv
<1>1. IInv /\ [Next]_vars => IInv'
  <2> SUFFICES ASSUME IInv, [Next]_vars PROVE IInv'  OBVIOUS
  <2>1. CASE Exec \/ Exit \/ StatusCatchesUp \/ PodGone
    BY <2>1, ExecKeeps, ExitKeeps, StatusKeeps, PodGoneKeeps
  <2>2. CASE Metrics \/ ListPods \/ ListPids \/ Iterate \/ Measure \/ MatchCgroup \/ Report
    BY <2>2, MetricsKeeps, ListPodsKeeps, ListPidsKeeps, IterateKeeps, MeasureKeeps,
       MatchCgroupKeeps, ReportKeeps
  <2>3. CASE UNCHANGED vars
    <3>1. UNCHANGED <<world, host, churn, steady, tool, pc, index, errors, todo, seen, rss, rows,
                      totals, source, unread>>
      BY <2>3 DEF vars, world
    <3>2. HostInv' /\ RowInv' /\ MemoryInv'  BY <3>1, HostKept, RowsKept
    <3>3. TypeOK' /\ SeenInv' /\ RssInv' /\ IndexInv' /\ WalkInv'
      BY <3>1 DEF IInv, TypeOK, SeenInv, RssInv, IndexInv, WalkInv, IsWalked, Looked
    <3> QED  BY <3>2, <3>3 DEF IInv
  <2> QED  BY <2>1, <2>2, <2>3 DEF Next
<1> QED  BY <1>1, Initially, PTL DEF Spec

(* The types of the call, for any number of pids, processes and changes.      *)
THEOREM TypeCorrect == Spec => []TypeOK
<1>1. IInv => TypeOK  BY DEF IInv
<1> QED  BY <1>1, AttributionInvariant, PTL

(* A process that lives through the call is attributed to its own container,  *)
(* to its own pod or to nothing, whatever else starts, exits or restarts and  *)
(* whatever cannot be read; and to its container unless its cgroup is refused.*)
THEOREM SteadyIsAttributed == Spec => []AttributionIsOwn
<1>1. IInv => AttributionIsOwn  BY DEF IInv, RowInv, AttributionIsOwn, RowIsOwn
<1> QED  BY <1>1, AttributionInvariant, PTL

(* The memory reported for a container holds that of all its processes that   *)
(* live through the call and let themselves be read; and the memory reported  *)
(* for a pod is never that of a process of another, unless a pid was used     *)
(* again.                                                                     *)
THEOREM MemoryIsCounted == Spec => []MemoryIsOwn
<1>1. IInv => MemoryIsOwn
  <2> SUFFICES ASSUME IInv, pc = "done", tool = "memory", source # "metrics-server"
               PROVE  MemoryIsOwn
    BY DEF MemoryIsOwn
  <2>1. /\ TypeOK /\ HostInv /\ SeenInv /\ RssInv /\ RowInv /\ MemoryInv
        /\ \A p \in Pids : host.at[p] \in steady.processes => Looked(p)
        /\ DOMAIN rows = DOMAIN seen
    BY DEF IInv, WalkInv, IsWalked
  <2>2. ASSUME "pods" \notin errors, NEW c \in steady.ids
        PROVE  LET own == {q \in Read : Container[q] = c} IN
               own # {} => \E k \in DOMAIN totals :
                   /\ k = [pod |-> Pod[c], name |-> Name[c]]
                   /\ totals[k] >= MemoryOf(own \cap ToldBy(DOMAIN seen))
    <3> DEFINE own == {q \in Read : Container[q] = c}
               told == own \cap ToldBy(DOMAIN seen)
               k == [pod |-> Pod[c], name |-> Name[c]]
    <3>1. ASSUME NEW q \in own
          PROVE  \E p \in DOMAIN rows : seen[p] = q /\ rows[p] = k
      <4>1. PICK p \in Pids : host.at[p] = q  BY <2>1 DEF HostInv, Running, Read
      <4>2. p \in DOMAIN rows /\ seen[p] = q /\ p \notin unread  BY <2>1, <4>1 DEF Looked, Read
      <4>3. RowIsOwn(p)  BY <2>1, <4>2 DEF RowInv, IsSteady, Read
      <4> QED  BY <2>2, <4>2, <4>3 DEF RowIsOwn
    <3>2. k # NoMatch
      <4>1. Pod[c] \in Pods
        BY <2>1, HostAssumption DEF HostInv, HostState, Pods
      <4> QED  BY <4>1, HostAssumption DEF NoMatch
    <3>3. ASSUME NEW q \in told PROVE q \in WithRow(k)
      <4>1. PICK p \in DOMAIN rows : seen[p] = q /\ rows[p] = k  BY <3>1
      <4>2. PICK r \in DOMAIN seen : rss[r] = q /\ q # None  BY DEF ToldBy
      <4>3. q \in steady.processes /\ \E x \in Pids : host.at[x] = q
        BY <2>1 DEF HostInv, Running, Read
      <4>4. r = p  BY <2>1, <4>1, <4>2, <4>3 DEF SeenInv, RssInv
      <4> QED  BY <4>1, <4>2, <4>4 DEF WithRow, ToldBy
    <3> HIDE DEF k
    <3>4. ASSUME own # {} PROVE k \in DOMAIN totals
      <4>1. PICK p \in DOMAIN rows : rows[p] = k  BY <3>1, <3>4
      <4> QED  BY <2>1, <3>2, <4>1 DEF MemoryInv
    <3>5. MemoryOf(told) <= MemoryOf(WithRow(k)) /\ MemoryOf(told) \in Nat
      <4>1. {r \in DOMAIN rows : rows[r] = k} \in SUBSET DOMAIN seen  BY <2>1
      <4>2. IsFiniteSet(WithRow(k)) /\ \A q \in WithRow(k) : Rss[q] \in Nat
        BY <4>1, SeenFacts DEF WithRow
      <4>3. told \subseteq WithRow(k)  BY <3>3
      <4> HIDE DEF told
      <4> QED  BY <4>2, <4>3, SumOfPart DEF MemoryOf
    <3>6. ASSUME k \in DOMAIN totals PROVE totals[k] >= MemoryOf(told)
      <4>1. totals[k] = MemoryOf(WithRow(k)) /\ totals[k] \in Nat
        BY <2>1, <3>6 DEF MemoryInv, TypeOK
      <4> HIDE DEF told
      <4> QED  BY <3>5, <4>1
    <3> QED  BY <3>4, <3>6 DEF k
  <2>3. ASSUME steady.reused = {}, NEW pod \in Pods
        PROVE  TotalOfPod(pod)
               <= MemoryOf({q \in host.begun : Container[q] # None /\ Pod[Container[q]] = pod})
    <3> DEFINE own == {q \in host.begun : Container[q] # None /\ Pod[Container[q]] = pod}
    <3>1. ASSUME NEW p \in DOMAIN rows, rows[p].pod = pod, rss[p] # None PROVE rss[p] \in own
      <4>1. rows[p] # NoMatch  BY <2>3, <3>1, HostAssumption DEF NoMatch
      <4>2. Container[seen[p]] # None /\ rows[p].pod = Pod[Container[seen[p]]]
        BY <2>1, <2>3, <4>1 DEF RowInv
      <4>3. rss[p] = seen[p]  BY <2>1, <2>3, <3>1 DEF SeenInv
      <4> QED  BY <2>1, <3>1, <4>2, <4>3 DEF SeenInv
    <3>2. OfPod(pod) \in SUBSET own  BY <3>1 DEF OfPod, ToldBy
    <3>3. IsFiniteSet(own)  BY <2>1, FS_Subset DEF HostInv, IsHost
    <3>4. \A q \in own : Rss[q] \in Nat  BY <2>1, HostAssumption DEF HostInv, HostState
    <3> HIDE DEF own
    <3>5. MemoryOf(OfPod(pod)) <= MemoryOf(own)  BY <3>2, <3>3, <3>4, SumOfPart DEF MemoryOf
    <3>6. TotalOfPod(pod) = MemoryOf(OfPod(pod))  BY <2>1 DEF MemoryInv
    <3> QED  BY <3>5, <3>6 DEF own
  <2> QED  BY <2>2, <2>3 DEF MemoryIsOwn
<1> QED  BY <1>1, AttributionInvariant, PTL
=============================================================================

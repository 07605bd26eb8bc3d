----------------------- MODULE DeletedOpenFilesProofs -----------------------
(* Proofs about the walk of DeletedOpenFiles, for any number of processes,    *)
(* descriptors, files and changes of the host: what is reported reclaimable   *)
(* is, and a complete summary has every deleted file that was held all along. *)
EXTENDS DeletedOpenFiles, FiniteSetTheorems, TLAPS

USE NamesAssumption, CallAssumption

-----------------------------------------------------------------------------
(* The held descriptors are finitely many, and so are those of one file. *)
LEMMA CountedFinite ==
    ASSUME TypeOK, NEW f
    PROVE  IsFiniteSet(Counted(f)) /\ Cardinality(Counted(f)) \in Nat
<1>1. IsFiniteSet(Pids \X Fds)  BY FS_Product
<1>2. Counted(f) \subseteq Pids \X Fds  BY DEF TypeOK, HostState, Counted
<1> QED  BY <1>1, <1>2, FS_Subset, FS_CardinalityType

(* As long as no descriptor gets behind the scan, the counts stay right. *)
LEMMA FewerCounted ==
    ASSUME TypeOK, CountInv, UNCHANGED records, ~cut' /\ ~refused' => ~cut /\ ~refused,
           ~cut' /\ ~refused' => \A f \in Files : Counted(f)' \subseteq Counted(f)
    PROVE  CountInv'
<1> SUFFICES ASSUME ~cut', ~refused', NEW f \in Files
             PROVE  Cardinality(Counted(f)') <= References(f)'
  BY DEF CountInv
<1>1. Cardinality(Counted(f)') <= Cardinality(Counted(f)) /\ Cardinality(Counted(f)') \in Nat
  BY CountedFinite, FS_Subset, FS_CardinalityType
<1>2. References(f)' = References(f) /\ References(f) \in Nat  BY DEF References, TypeOK, Record
<1>3. Cardinality(Counted(f)) <= References(f)  BY DEF CountInv
<1> QED  BY <1>1, <1>2, <1>3, CountedFinite

(* A deleted file stays deleted: a record that is right stays right. *)
LEMMA RecordsKept ==
    ASSUME ReclaimableIsReal, UNCHANGED records, host.deleted \subseteq host'.deleted
    PROVE  ReclaimableIsReal'
  BY DEF ReclaimableIsReal

LEMMA Initially == Init => IInv
<1> SUFFICES ASSUME Init PROVE IInv  OBVIOUS
<1>1. TypeOK
  <2>1. host \in HostState /\ caps \in CapChoices /\ kept \subseteq host.alive \X Fds
    BY DEF Init
  <2>2. records \in [Files -> Record \cup {None}]  BY DEF Init
  <2>3. refused \in BOOLEAN  BY <2>1 DEF Init, HostState
  <2>4. /\ expired \in BOOLEAN /\ pc = "start" /\ pids \subseteq Pids /\ fds \subseteq Fds
        /\ cut \in BOOLEAN /\ complete \in BOOLEAN
    BY DEF Init
  <2>5. churn \in 0 .. MaxChurn  BY DEF Init
  <2> QED  BY <2>1, <2>2, <2>3, <2>4, <2>5 DEF TypeOK
<1>2. HeldInv  BY DEF Init, HeldInv
<1>3. CountInv
  <2>1. \A f : Counted(f) = {}  BY DEF Init, Counted, Behind
  <2>2. \A f \in Files : References(f) = 0  BY DEF Init, References
  <2> QED  BY <2>1, <2>2, FS_EmptySet DEF CountInv
<1>4. EndInv /\ ReclaimableIsReal  BY DEF Init, EndInv, ReclaimableIsReal
<1> QED  BY <1>1, <1>2, <1>3, <1>4 DEF IInv

-----------------------------------------------------------------------------
(* A change of the host leaves the held descriptors it does not take as they  *)
(* are, and no deleted file gets its name back.                               *)
LEMMA ChangeKeeps ==
    ASSUME NEW h \in HostState, NEW gone, IInv, Change(h, gone),
           host.deleted \subseteq h.deleted,
           \A k \in kept \ gone : /\ k[1] \in h.alive
                                  /\ h.open[k[1]][k[2]] = host.open[k[1]][k[2]]
    PROVE  IInv'
<1>1. TypeOK /\ HeldInv /\ CountInv /\ EndInv /\ ReclaimableIsReal  BY DEF IInv
<1>2. /\ host' = h /\ kept' = kept \ gone /\ churn' \in 0 .. MaxChurn
      /\ UNCHANGED <<caps, expired, pc, pids, pid, fds, fd, table, link, records, cut, refused, complete>>
  BY <1>1 DEF Change, place, TypeOK
<1>3. kept' \subseteq h.alive \X Fds  BY <1>1, <1>2 DEF TypeOK
<1>4. TypeOK'  BY <1>1, <1>2, <1>3 DEF TypeOK
<1>5. HeldInv'  BY <1>1, <1>2 DEF HeldInv
<1>6. \A f \in Files : Counted(f)' \subseteq Counted(f)  BY <1>2 DEF Counted, Behind
<1>7. CountInv'  BY <1>1, <1>2, <1>6, FewerCounted
<1>8. EndInv'  BY <1>1, <1>2 DEF EndInv
<1>9. ReclaimableIsReal'  BY <1>1, <1>2, RecordsKept
<1> QED  BY <1>4, <1>5, <1>7, <1>8, <1>9 DEF IInv

LEMMA ExitKeeps == IInv /\ Exit => IInv'
<1> SUFFICES ASSUME IInv, Exit PROVE IInv'  OBVIOUS
<1>1. PICK p \in host.alive :
         Change([host EXCEPT !.alive = @ \ {p}, !.open[p] = Closed], {p} \X Fds)
  BY DEF Exit
<1> DEFINE h == [host EXCEPT !.alive = @ \ {p}, !.open[p] = Closed]
           gone == {p} \X Fds
<1>2. host \in HostState /\ kept \subseteq host.alive \X Fds  BY DEF IInv, TypeOK
<1>3. h \in HostState /\ h.deleted = host.deleted /\ h.alive = host.alive \ {p}
      /\ h.open = [host.open EXCEPT ![p] = Closed]
  BY <1>2 DEF HostState, Closed
<1>4. \A k \in kept \ gone : k[1] \in h.alive /\ h.open[k[1]][k[2]] = host.open[k[1]][k[2]]
  BY <1>2, <1>3 DEF HostState
<1>5. Change(h, gone)  BY <1>1
<1> HIDE DEF h, gone
<1> QED  BY <1>3, <1>4, <1>5, ChangeKeeps

LEMMA ForkKeeps == IInv /\ Fork => IInv'
<1> SUFFICES ASSUME IInv, Fork PROVE IInv'  OBVIOUS
<1>1. PICK p \in host.alive, q \in Pids \ host.alive :
         Change([host EXCEPT !.alive = @ \cup {q}, !.open[q] = host.open[p]], {})
  BY DEF Fork
<1> DEFINE h == [host EXCEPT !.alive = @ \cup {q}, !.open[q] = host.open[p]]
<1>2. host \in HostState /\ kept \subseteq host.alive \X Fds  BY DEF IInv, TypeOK
<1>3. h \in HostState /\ h.deleted = host.deleted /\ h.alive = host.alive \cup {q}
      /\ h.open = [host.open EXCEPT ![q] = host.open[p]]
  BY <1>1, <1>2 DEF HostState
<1>4. \A k \in kept \ {} : k[1] \in h.alive /\ h.open[k[1]][k[2]] = host.open[k[1]][k[2]]
  BY <1>1, <1>2, <1>3 DEF HostState
<1> HIDE DEF h
<1> QED  BY <1>1, <1>3, <1>4, ChangeKeeps DEF h

LEMMA ReopenKeeps == IInv /\ Reopen => IInv'
<1> SUFFICES ASSUME IInv, Reopen PROVE IInv'  OBVIOUS
<1>1. PICK p \in host.alive, d \in Fds, f \in Files \cup {None} :
         Change([host EXCEPT !.open[p][d] = f], {<<p, d>>})
  BY DEF Reopen
<1> DEFINE h == [host EXCEPT !.open[p][d] = f]
<1>2. host \in HostState /\ kept \subseteq host.alive \X Fds  BY DEF IInv, TypeOK
<1>3. h \in HostState /\ h.deleted = host.deleted /\ h.alive = host.alive
      /\ h.open = [host.open EXCEPT ![p] = [host.open[p] EXCEPT ![d] = f]]
  BY <1>1, <1>2 DEF HostState
<1>4. \A k \in kept \ {<<p, d>>} : k[1] \in h.alive /\ h.open[k[1]][k[2]] = host.open[k[1]][k[2]]
  BY <1>1, <1>2, <1>3 DEF HostState
<1> HIDE DEF h
<1> QED  BY <1>1, <1>3, <1>4, ChangeKeeps DEF h

LEMMA UnlinkKeeps == IInv /\ Unlink => IInv'
<1> SUFFICES ASSUME IInv, Unlink PROVE IInv'  OBVIOUS
<1>1. PICK f \in Files : Change([host EXCEPT !.deleted = @ \cup {f}], {})  BY DEF Unlink
<1> DEFINE h == [host EXCEPT !.deleted = @ \cup {f}]
<1>2. host \in HostState /\ kept \subseteq host.alive \X Fds  BY DEF IInv, TypeOK
<1>3. h \in HostState /\ host.deleted \subseteq h.deleted /\ h.alive = host.alive
      /\ h.open = host.open
  BY <1>2 DEF HostState
<1>4. \A k \in kept \ {} : k[1] \in h.alive /\ h.open[k[1]][k[2]] = host.open[k[1]][k[2]]
  BY <1>2, <1>3
<1> HIDE DEF h
<1> QED  BY <1>1, <1>3, <1>4, ChangeKeeps DEF h

(* The deadline passes, whatever the walk is doing. *)
LEMMA ExpireKeeps == IInv /\ Expire => IInv'
<1> SUFFICES ASSUME IInv, Expire PROVE IInv'  OBVIOUS
<1>1. UNCHANGED <<host, kept, churn, caps, pc, pids, pid, fds, fd, table, link, records, cut, refused, complete>>
      /\ expired' = TRUE
  BY DEF Expire, world, place
<1>2. TypeOK' /\ HeldInv' /\ EndInv' /\ ReclaimableIsReal'
  BY <1>1 DEF IInv, TypeOK, HeldInv, EndInv, ReclaimableIsReal
<1>3. CountInv'  BY <1>1, FewerCounted DEF IInv, Counted, Behind
<1> QED  BY <1>2, <1>3 DEF IInv

-----------------------------------------------------------------------------
(* Only a process that is gone or a descriptor that is closed is passed over  *)
(* in silence.                                                                *)
LEMMA SilentIsGone ==
    ASSUME NEW p, NEW f, Silent(Answer(p, f))
    PROVE  p \notin host.alive \/ f = None
  BY DEF Silent, Answer

LEMMA ListProcessesKeeps == IInv /\ ListProcesses => IInv'
<1> SUFFICES ASSUME IInv, ListProcesses PROVE IInv'  OBVIOUS
<1>1. TypeOK /\ HeldInv /\ CountInv /\ EndInv /\ ReclaimableIsReal  BY DEF IInv
<1>2. /\ pc = "start" /\ pc' = "process"
      /\ UNCHANGED <<host, churn, kept, caps, pid, fds, fd, table, link, records, complete>>
  BY DEF ListProcesses, world
<1> DEFINE Listed == /\ pids' \subseteq Pids /\ expired' \in BOOLEAN
                     /\ cut' \in BOOLEAN /\ refused' \in BOOLEAN
                     /\ ~cut' /\ ~refused' => pids' = host.alive
<1>3. Listed
  <2>1. ASSUME NEW r \in Listings(host.alive, caps.max_pids), pids' = r.seen,
               cut' = IsCut(r, host.alive), expired' = (expired \/ r.late), UNCHANGED refused
        PROVE  Listed
    BY <1>1, <2>1 DEF Listings, IsCut, TypeOK, HostState
  <2>2. ASSUME NEW S \in SUBSET host.alive, pids' = S, refused' = TRUE, UNCHANGED <<cut, expired>>
        PROVE  Listed
    BY <1>1, <2>2 DEF TypeOK, HostState
  <2> HIDE DEF Listed
  <2> QED  BY <2>1, <2>2 DEF ListProcesses
<1>4. TypeOK'  BY <1>1, <1>2, <1>3 DEF TypeOK
<1>5. CountInv'
  <2> SUFFICES ASSUME ~cut', ~refused', NEW f \in Files
               PROVE  Cardinality(Counted(f)') <= References(f)'
    BY DEF CountInv
  <2>1. Counted(f)' = {}  BY <1>1, <1>2, <1>3 DEF Counted, Behind, TypeOK
  <2>2. References(f)' \in Nat  BY <1>4 DEF References, TypeOK, Record
  <2> QED  BY <2>1, <2>2, FS_EmptySet
<1>6. HeldInv' /\ EndInv' /\ ReclaimableIsReal'
  BY <1>1, <1>2 DEF HeldInv, EndInv, ReclaimableIsReal
<1> QED  BY <1>4, <1>5, <1>6 DEF IInv

LEMMA ListDescriptorsKeeps == IInv /\ ListDescriptors => IInv'
<1> SUFFICES ASSUME IInv, ListDescriptors PROVE IInv'  OBVIOUS
<1>1. TypeOK /\ HeldInv /\ CountInv /\ EndInv /\ ReclaimableIsReal  BY DEF IInv
<1>2. PICK p \in pids :
         /\ pids' = pids \ {p} /\ pid' = p
         /\ \/ /\ \E r \in Listings(OpenFds(p), caps.max_fds) :
                     /\ cut' = (cut \/ IsCut(r, OpenFds(p))) /\ expired' = r.late
                     /\ fds' = r.seen /\ pc' = IF r.late THEN "report" ELSE "mounts"
               /\ UNCHANGED refused
            \/ /\ Answer(p, p) # "ok" /\ refused' = (refused \/ ~Silent(Answer(p, p)))
               /\ UNCHANGED <<pc, fds, cut, expired>>
  BY DEF ListDescriptors
<1>3. /\ UNCHANGED <<host, churn, kept, caps, fd, table, link, records, complete>>
      /\ pc = "process" /\ p \in Pids /\ pids' \subseteq Pids /\ p # None
  BY <1>1, <1>2 DEF ListDescriptors, world, TypeOK
<1> DEFINE Open == /\ pc' \in {"report", "mounts"} /\ (pc' = "report" => cut')
                   /\ fds' \subseteq Fds /\ (~cut' => ~cut /\ fds' = OpenFds(p))
                   /\ refused' = refused
           Passed == /\ pc' = "process" /\ fds' = fds /\ cut' = cut
                     /\ (~refused' => ~refused /\ p \notin host.alive)
<1>4. Open \/ Passed
  <2>1. ASSUME NEW r \in Listings(OpenFds(p), caps.max_fds),
               cut' = (cut \/ IsCut(r, OpenFds(p))), fds' = r.seen,
               pc' = IF r.late THEN "report" ELSE "mounts", UNCHANGED refused
        PROVE  Open
    BY <2>1 DEF Listings, IsCut, OpenFds
  <2>2. ASSUME refused' = (refused \/ ~Silent(Answer(p, p))), UNCHANGED <<pc, fds, cut, expired>>
        PROVE  Passed
    BY <1>3, <2>2, SilentIsGone
  <2> HIDE DEF Open, Passed
  <2> QED  BY <1>2, <2>1, <2>2
<1>5. expired' \in BOOLEAN /\ cut' \in BOOLEAN /\ refused' \in BOOLEAN
  BY <1>1, <1>2, Zenon DEF TypeOK, Listings
<1>6. TypeOK'
  BY <1>1, <1>2, <1>3, <1>4, <1>5 DEF TypeOK
<1>7. CountInv'
  <2>1. ~cut' /\ ~refused' => ~cut /\ ~refused  BY <1>4
  <2>2. ASSUME ~cut', ~refused', NEW f \in Files, NEW k \in kept, k \notin Counted(f),
               host.open[k[1]][k[2]] = f, Behind(k)'
        PROVE  FALSE
    <3>1. k[1] \in host.alive /\ k[2] \in Fds  BY <1>1 DEF TypeOK
    <3>2. k[1] \in pids  BY <1>2, <1>3, <2>2 DEF Behind, Counted
    <3>3. k[1] = p  BY <1>2, <1>3, <2>2, <3>2 DEF Behind
    <3>4. k[2] \in OpenFds(p)  BY <2>2, <3>1, <3>3 DEF OpenFds
    <3> QED  BY <1>2, <1>4, <2>2, <3>1, <3>3, <3>4 DEF Behind
  <2>3. ~cut' /\ ~refused' => \A f \in Files : Counted(f)' \subseteq Counted(f)
    <3> SUFFICES ASSUME ~cut', ~refused', NEW f \in Files, NEW k \in Counted(f)'
                 PROVE  k \in Counted(f)
      OBVIOUS
    <3>1. k \in kept /\ host.open[k[1]][k[2]] = f /\ Behind(k)'  BY <1>3 DEF Counted
    <3> QED  BY <2>2, <3>1
  <2> QED  BY <1>1, <1>3, <2>1, <2>3, FewerCounted
<1>8. HeldInv' /\ EndInv' /\ ReclaimableIsReal'
  BY <1>1, <1>3, <1>4 DEF HeldInv, EndInv, ReclaimableIsReal
<1> QED  BY <1>6, <1>7, <1>8 DEF IInv

LEMMA ReadMountsKeeps == IInv /\ ReadMounts => IInv'
<1> SUFFICES ASSUME IInv, ReadMounts PROVE IInv'  OBVIOUS
<1>1. /\ UNCHANGED <<host, churn, kept, caps, expired, pids, pid, fds, fd, link, records, cut, refused, complete>>
      /\ pc = "mounts" /\ pc' = "link"
  BY DEF ReadMounts, world, place
<1>2. TypeOK' /\ HeldInv' /\ EndInv' /\ ReclaimableIsReal'
  BY <1>1 DEF IInv, TypeOK, HeldInv, EndInv, ReclaimableIsReal
<1>3. CountInv'  BY <1>1, FewerCounted DEF IInv, Counted, Behind
<1> QED  BY <1>2, <1>3 DEF IInv

LEMMA NextProcessKeeps == IInv /\ NextProcess => IInv'
<1> SUFFICES ASSUME IInv, NextProcess PROVE IInv'  OBVIOUS
<1>1. /\ UNCHANGED <<host, churn, kept, caps, expired, pids, pid, fds, fd, table, link, records, cut, refused, complete>>
      /\ pc = "link" /\ fds = {} /\ pc' = "process"
  BY DEF NextProcess, world, place
<1>2. TypeOK' /\ HeldInv' /\ EndInv' /\ ReclaimableIsReal'
  BY <1>1 DEF IInv, TypeOK, HeldInv, EndInv, ReclaimableIsReal
<1>3. CountInv'  BY <1>1, FewerCounted DEF IInv, Counted, Behind
<1> QED  BY <1>2, <1>3 DEF IInv

LEMMA EndWalkKeeps == IInv /\ EndWalk => IInv'
<1> SUFFICES ASSUME IInv, EndWalk PROVE IInv'  OBVIOUS
<1>1. /\ UNCHANGED <<host, churn, kept, caps, expired, pids, pid, fds, fd, table, link, records, refused, complete>>
      /\ pc \in {"process", "link"} /\ pc' = "report"
      /\ cut' = TRUE \/ (UNCHANGED cut /\ pc = "process" /\ pids = {})
  BY DEF EndWalk, world, place
<1>2. TypeOK' /\ HeldInv' /\ EndInv' /\ ReclaimableIsReal'
  BY <1>1 DEF IInv, TypeOK, HeldInv, EndInv, ReclaimableIsReal
<1>3. CountInv'  BY <1>1, FewerCounted DEF IInv, Counted, Behind
<1> QED  BY <1>2, <1>3 DEF IInv

LEMMA ReportKeeps == IInv /\ Report => IInv'
<1> SUFFICES ASSUME IInv, Report PROVE IInv'  OBVIOUS
<1>1. /\ UNCHANGED <<host, churn, kept, caps, expired, pids, pid, fds, fd, table, link, records, cut, refused>>
      /\ pc = "report" /\ pc' = "done" /\ complete' = ~(cut \/ refused)
  BY DEF Report, world, place
<1>2. TypeOK' /\ HeldInv' /\ EndInv' /\ ReclaimableIsReal'
  BY <1>1 DEF IInv, TypeOK, HeldInv, EndInv, ReclaimableIsReal
<1>3. CountInv'  BY <1>1, FewerCounted DEF IInv, Counted, Behind
<1> QED  BY <1>2, <1>3 DEF IInv

(* A descriptor that the scan leaves without looking at what it refers to is  *)
(* not held, or it is told that it could not be read.                         *)
LEMMA ReadlinkKeeps == IInv /\ Readlink => IInv'
<1> SUFFICES ASSUME IInv, Readlink PROVE IInv'  OBVIOUS
<1>1. TypeOK /\ HeldInv /\ CountInv /\ EndInv /\ ReclaimableIsReal  BY DEF IInv
<1> DEFINE f(d) == host.open[pid][d]
           answer(d) == IF f(d) = None THEN "missing" ELSE Answer(pid, pid)
<1>2. PICK d \in fds :
         /\ fds' = fds \ {d} /\ fd' = d
         /\ IF answer(d) = "ok" /\ f(d) \in host.deleted
            THEN pc' = "stat" /\ link' = f(d) /\ UNCHANGED refused
            ELSE /\ refused' = (refused \/ (answer(d) # "ok" /\ ~Silent(answer(d))))
                 /\ UNCHANGED <<pc, link>>
  BY DEF Readlink
<1>3. /\ UNCHANGED <<host, churn, kept, caps, expired, pids, pid, table, records, cut, complete>>
      /\ pc = "link" /\ d \in Fds /\ pid \in Pids
  BY <1>1, <1>2 DEF Readlink, world, TypeOK
<1>4. f(d) \in Files \cup {None}  BY <1>1, <1>3 DEF TypeOK, HostState
<1>5. refused' \in BOOLEAN  BY <1>1, <1>2, Zenon DEF TypeOK
<1>6. TypeOK'
  <2>1. pc' \in {"link", "stat"} /\ (pc' = "stat" => link' \in Files)
    <3>1. answer(d) = "ok" => f(d) # None  OBVIOUS
    <3> QED  BY <1>2, <1>3, <1>4, <3>1
  <2> QED  BY <1>1, <1>2, <1>3, <1>5, <2>1 DEF TypeOK
<1>7. CountInv'
  <2>1. pc' = "link" /\ <<pid, d>> \in kept => refused'
    <3> SUFFICES ASSUME pc' = "link", <<pid, d>> \in kept PROVE refused'  OBVIOUS
    <3>1. pid \in host.alive /\ f(d) \in host.deleted  BY <1>1 DEF TypeOK, HeldInv
    <3>2. f(d) # None /\ pid # None  BY <1>1, <1>3, <3>1 DEF TypeOK, HostState
    <3>3. answer(d) # "ok"  BY <1>2, <3>1
    <3>4. ~Silent(answer(d))  BY <3>1, <3>2, SilentIsGone
    <3> QED  BY <1>2, <3>3, <3>4
  <2>2. ~cut' /\ ~refused' => ~cut /\ ~refused  BY <1>2, <1>3
  <2>3. ~cut' /\ ~refused' => \A g \in Files : Counted(g)' \subseteq Counted(g)
    <3> SUFFICES ASSUME ~cut', ~refused', NEW g \in Files, NEW k \in Counted(g)'
                 PROVE  Behind(k)
      BY <1>3 DEF Counted
    <3>1. k \in kept /\ Behind(k)' /\ k = <<k[1], k[2]>>  BY <1>1, <1>3 DEF Counted, TypeOK
    <3>2. CASE k = <<pid, d>>
      <4>1. pc' = "link"  BY <2>1, <1>2, <1>3, <3>1, <3>2 DEF Behind
      <4> QED  BY <2>1, <4>1, <3>1, <3>2
    <3>3. CASE k # <<pid, d>>  BY <1>2, <1>3, <3>1, <3>3 DEF Behind
    <3> QED  BY <3>2, <3>3
  <2> QED  BY <1>1, <1>3, <2>2, <2>3, FewerCounted
<1>8. HeldInv' /\ EndInv' /\ ReclaimableIsReal'
  BY <1>1, <1>2, <1>3 DEF HeldInv, EndInv, ReclaimableIsReal
<1> QED  BY <1>6, <1>7, <1>8 DEF IInv

(* A file that has just been looked at is one reference up, and at most one   *)
(* held descriptor more is behind the scan.                                   *)
LEMMA StatKeeps == IInv /\ Stat => IInv'
<1> SUFFICES ASSUME IInv, Stat PROVE IInv'  OBVIOUS
<1>1. TypeOK /\ HeldInv /\ CountInv /\ EndInv /\ ReclaimableIsReal  BY DEF IInv
<1> DEFINE f == host.open[pid][fd]
<1>2. /\ UNCHANGED <<host, churn, kept, caps, expired, pids, pid, fds, fd, table, link, cut, complete>>
      /\ pc = "stat" /\ pc' = "link" /\ fd \in Fds /\ pid \in Pids
  BY <1>1 DEF Stat, world, place, TypeOK
<1>3. \A g : Counted(g)' \subseteq Counted(g) \cup {k \in {<<pid, fd>>} : k \in kept /\ g = f}
  BY <1>1, <1>2 DEF Counted, Behind, TypeOK
<1>4. CASE Answer(pid, f) # "ok"
  <2>1. refused' = (refused \/ ~Silent(Answer(pid, f))) /\ UNCHANGED records  BY <1>4 DEF Stat
  <2>2. <<pid, fd>> \in kept => refused'
    <3> SUFFICES ASSUME <<pid, fd>> \in kept PROVE ~Silent(Answer(pid, f))  BY <2>1
    <3>1. pid \in host.alive /\ f \in Files  BY <1>1, <1>2 DEF TypeOK, HeldInv, HostState
    <3> QED  BY <3>1, SilentIsGone
  <2>3. refused' \in BOOLEAN  BY <1>1, <2>1, Zenon DEF TypeOK
  <2>4. TypeOK'  BY <1>1, <1>2, <2>1, <2>3 DEF TypeOK
  <2>5. CountInv'
    <3>1. ~cut' /\ ~refused' => ~cut /\ ~refused  BY <1>2, <2>1
    <3>2. ~cut' /\ ~refused' => \A g \in Files : Counted(g)' \subseteq Counted(g)
      BY <1>3, <2>2
    <3> QED  BY <1>1, <2>1, <3>1, <3>2, FewerCounted
  <2>6. HeldInv' /\ EndInv' /\ ReclaimableIsReal'
    BY <1>1, <1>2, <2>1 DEF HeldInv, EndInv, ReclaimableIsReal
  <2> QED  BY <2>4, <2>5, <2>6 DEF IInv
<1>5. CASE Answer(pid, f) = "ok"
  <2>1. records' = [records EXCEPT ![f] = Referenced(f, pid)] /\ UNCHANGED refused
    BY <1>5 DEF Stat
  <2>2. f \in Files
    <3>1. f # None  BY <1>5 DEF Answer
    <3> QED  BY <1>1, <1>2, <3>1 DEF TypeOK, HostState
  <2>3. /\ Referenced(f, pid) \in Record /\ Referenced(f, pid).references = References(f) + 1
        /\ Referenced(f, pid).category = IF records[f] = None THEN Category(f) ELSE records[f].category
    <3>1. CASE records[f] = None
      <4>1. Category(f) \in Categories  BY DEF Category, Categories
      <4> QED  BY <1>2, <3>1, <4>1 DEF Referenced, Record, References
    <3>2. CASE records[f] # None
      <4>1. records[f] \in Record  BY <1>1, <2>2, <3>2 DEF TypeOK
      <4>2. records[f].references + 1 \in Nat \ {0} /\ records[f].pids \cup {pid} \in SUBSET Pids
        BY <1>2, <4>1 DEF Record
      <4>3. Referenced(f, pid) = [records[f] EXCEPT !.references = records[f].references + 1,
                                                    !.pids = records[f].pids \cup {pid}]
        BY <3>2 DEF Referenced
      <4>4. References(f) = records[f].references  BY <3>2 DEF References
      <4> DEFINE old == records[f]
                 m == records[f].references + 1
                 qs == records[f].pids \cup {pid}
                 new == Referenced(f, pid)
      <4>5. old \in Record /\ m \in Nat \ {0} /\ qs \in SUBSET Pids  BY <4>1, <4>2
      <4>6. new = [old EXCEPT !.references = m, !.pids = qs]  BY <4>3
      <4>7. new \in Record /\ new.references = m /\ new.category = old.category
        <5> HIDE DEF old, m, qs, new
        <5> QED  BY <4>5, <4>6 DEF Record
      <4> QED  BY <3>2, <4>4, <4>7
    <3> QED  BY <3>1, <3>2
  <2>4. TypeOK'  BY <1>1, <1>2, <2>1, <2>3 DEF TypeOK
  <2>5. CountInv'
    <3> SUFFICES ASSUME ~cut', ~refused', NEW g \in Files
                 PROVE  Cardinality(Counted(g)') <= References(g)'
      BY DEF CountInv
    <3>1. Cardinality(Counted(g)) <= References(g)  BY <1>1, <1>2, <2>1 DEF CountInv
    <3>2. IsFiniteSet(Counted(g)) /\ Cardinality(Counted(g)) \in Nat  BY <1>1, CountedFinite
    <3>3. CASE g = f
      <4>1. Counted(g)' \subseteq Counted(g) \cup {<<pid, fd>>}  BY <1>3
      <4>2. Cardinality(Counted(g)') <= Cardinality(Counted(g)) + 1 /\ Cardinality(Counted(g)') \in Nat
        <5> DEFINE more == Counted(g) \cup {<<pid, fd>>}
        <5>1. IsFiniteSet(more) /\ Cardinality(more) \in Nat
              /\ Cardinality(more) <= Cardinality(Counted(g)) + 1
          <6> DEFINE k == <<pid, fd>>
          <6> HIDE DEF k
          <6>1. /\ IsFiniteSet(Counted(g) \cup {k})
                /\ Cardinality(Counted(g) \cup {k})
                   = IF k \in Counted(g) THEN Cardinality(Counted(g)) ELSE Cardinality(Counted(g)) + 1
            BY <3>2, FS_AddElement
          <6> QED  BY <3>2, <6>1 DEF k
        <5>2. Cardinality(Counted(g)') <= Cardinality(more) /\ Cardinality(Counted(g)') \in Nat
          <6> HIDE DEF more
          <6>1. Counted(g)' \in SUBSET more  BY <4>1 DEF more
          <6> QED  BY <5>1, <6>1, FS_Subset, FS_CardinalityType
        <5> HIDE DEF more
        <5> QED  BY <3>2, <5>1, <5>2
      <4>3. References(g)' = References(g) + 1
        <5>1. records'[g] = Referenced(f, pid)  BY <1>1, <2>1, <2>2, <3>3 DEF TypeOK
        <5>2. Referenced(f, pid) # None  BY <2>3, NoneAssumption
        <5> QED  BY <2>3, <3>3, <5>1, <5>2 DEF References
      <4>4. References(g) \in Nat  BY <1>1 DEF References, TypeOK, Record
      <4> QED  BY <3>1, <3>2, <4>2, <4>3, <4>4
    <3>4. CASE g # f
      <4>1. Counted(g)' \subseteq Counted(g)  BY <1>3, <3>4
      <4>2. References(g)' = References(g) /\ References(g) \in Nat
        BY <1>1, <2>1, <3>4 DEF References, TypeOK, Record
      <4>3. Cardinality(Counted(g)') <= Cardinality(Counted(g)) /\ Cardinality(Counted(g)') \in Nat
        BY <3>2, <4>1, FS_Subset, FS_CardinalityType
      <4> QED  BY <3>1, <3>2, <4>2, <4>3
    <3> QED  BY <3>3, <3>4
  <2>6. ReclaimableIsReal'
    <3> SUFFICES ASSUME NEW g \in Files, records'[g] # None,
                        records'[g].category = "disk_backed_reclaimable"
                 PROVE  /\ g \in host.deleted /\ File[g].kind = "regular"
                        /\ File[g].device \notin Memory \cup Overlay
      BY <1>2 DEF ReclaimableIsReal
    <3>1. CASE g # f \/ records[f] # None
      <4>1. records[g] # None /\ records[g].category = "disk_backed_reclaimable"
        BY <1>1, <2>1, <2>2, <2>3, <3>1 DEF TypeOK
      <4> QED  BY <1>1, <4>1 DEF ReclaimableIsReal
    <3>2. CASE g = f /\ records[f] = None
      <4>1. Category(g) = "disk_backed_reclaimable"
        BY <1>1, <2>1, <2>2, <2>3, <3>2 DEF TypeOK
      <4> QED  BY <4>1 DEF Category
    <3> QED  BY <3>1, <3>2
  <2>7. HeldInv' /\ EndInv'  BY <1>1, <1>2, <2>1 DEF HeldInv, EndInv
  <2> QED  BY <2>4, <2>5, <2>6, <2>7 DEF IInv
<1> QED  BY <1>4, <1>5

-----------------------------------------------------------------------------
(* The walk keeps count of what held a deleted file all along.                *)
THEOREM WalkInvariant == Spec => []IInv
<1>1. IInv /\ [Next]_vars => IInv'
  <2> SUFFICES ASSUME IInv, [Next]_vars PROVE IInv'  OBVIOUS
  <2>1. CASE Step
    BY <2>1, ListProcessesKeeps, ListDescriptorsKeeps, ReadMountsKeeps, NextProcessKeeps,
       ReadlinkKeeps, StatKeeps, EndWalkKeeps, ReportKeeps DEF Step
  <2>2. CASE Exit \/ Fork \/ Reopen \/ Unlink \/ Expire
    BY <2>2, ExitKeeps, ForkKeeps, ReopenKeeps, UnlinkKeeps, ExpireKeeps
  <2>3. CASE UNCHANGED vars
    <3>1. UNCHANGED <<host, churn, kept, caps, expired, pc, pids, pid, fds, fd, table, link, records, cut,
                      refused, complete>>
      BY <2>3 DEF vars, world, place
    <3>2. TypeOK' /\ HeldInv' /\ EndInv' /\ ReclaimableIsReal'
      BY <3>1 DEF IInv, TypeOK, HeldInv, EndInv, ReclaimableIsReal
    <3>3. CountInv'  BY <3>1, FewerCounted DEF IInv, Counted, Behind
    <3> QED  BY <3>2, <3>3 DEF IInv
  <2> QED  BY <2>1, <2>2, <2>3 DEF Next
<1> QED  BY <1>1, Initially, PTL DEF Spec

(* The state of the walk is what the code can be in. *)
THEOREM WalkTyped == Spec => []TypeOK
  BY WalkInvariant, PTL DEF IInv

(* Only deleted files of ordinary disks are reported reclaimable. *)
THEOREM ReclaimedIsReal == Spec => []ReclaimableIsReal
  BY WalkInvariant, PTL DEF IInv

(* A complete summary has counted every descriptor that held a deleted file   *)
(* from the beginning to the end.                                             *)
THEOREM HeldIsReported == Spec => []CompleteHasEveryHeld
<1>1. IInv => CompleteHasEveryHeld
  <2> SUFFICES ASSUME IInv, pc = "done", complete, NEW f \in Files,
                      NEW holding, holding = {k \in kept : host.open[k[1]][k[2]] = f},
                      holding # {}
               PROVE  records[f] # None /\ records[f].references >= Cardinality(holding)
    BY DEF CompleteHasEveryHeld
  <2>1. ~cut /\ ~refused /\ pids = {}  BY DEF IInv, EndInv
  <2>2. Counted(f) = holding  BY <2>1 DEF Counted, Behind
  <2>3. Cardinality(holding) <= References(f)  BY <2>1, <2>2 DEF IInv, CountInv
  <2>4. Cardinality(holding) \in Nat /\ Cardinality(holding) # 0
    BY <2>2, CountedFinite, FS_EmptySet DEF IInv
  <2> QED  BY <2>3, <2>4 DEF References, IInv, TypeOK, Record
<1> QED  BY <1>1, WalkInvariant, PTL
=============================================================================

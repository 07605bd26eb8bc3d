-------------------------- MODULE K3sVolumesProofs --------------------------
(* Proofs about K3sVolumes, for any cluster, host, roots, limits and page     *)
(* size, and any number of changes and failures: what a complete answer       *)
(* holds, what a complete namespace holds, and that no byte is counted twice. *)
EXTENDS K3sVolumes, CollectionLemmas, TLAPS

USE NamesAssumption, CallAssumption

-----------------------------------------------------------------------------
LEMMA Initially == Init => IInv
<1> SUFFICES ASSUME Init PROVE IInv  OBVIOUS
<1>1. cluster \in Cluster /\ limits \in LimitChoices /\ pc = "pods"  BY DEF Init
<1>2. Scanned = {}  BY DEF Init, Scanned
<1>3. Cardinality({}) = 0 /\ IsFiniteSet({})  BY FS_EmptySet
<1>4. TypeOK
  <2>1. stable \in [pods : SUBSET Pods, claims : SUBSET Claims, volumes : SUBSET Volumes,
                    files : SUBSET Nodes]
    BY <1>1 DEF Init, Cluster
  <2>2. limits.paths \in Nat /\ limits.max_entries \in Nat  BY <1>1
  <2>3. scans \in [Nodes -> Scans \cup {None}]  BY DEF Init
  <2>4. DOMAIN items = Lists /\ \A l \in Lists : items[l] \subseteq Kind(l)  BY DEF Init
  <2>5. /\ children = {} /\ todo = {} /\ slice = 0 /\ churn = 0 /\ faults = 0 /\ roots = Roots
        /\ errors = FALSE /\ cut = FALSE /\ answer = None
        /\ stable.pods = cluster.pods /\ stable.claims = cluster.claims
        /\ stable.volumes = cluster.volumes /\ stable.files = cluster.files
    BY DEF Init
  <2>6. /\ Cardinality(children) <= limits.paths
        /\ Cardinality(todo) + Cardinality(Scanned) <= limits.paths
    BY <1>2, <1>3, <2>2, <2>5
  <2>7. slice \in 0 .. limits.max_entries /\ churn \in 0 .. MaxChurn /\ faults \in 0 .. MaxFaults
    BY <2>2, <2>5
  <2> QED  BY <1>1, <2>1, <2>3, <2>4, <2>5, <2>6, <2>7 DEF TypeOK, Lists
<1>5. ListInv  BY DEF Init, ListInv, IsRead, Lists
<1>6. FilesInv  BY DEF Init, FilesInv
<1>7. PageInv /\ DiscoverInv /\ PlanInv /\ ScanInv /\ AnswerInv
  BY <1>2 DEF Init, PageInv, DiscoverInv, PlanInv, ScanInv, AnswerInv, Lists
<1> QED  BY <1>4, <1>5, <1>6, <1>7 DEF IInv

-----------------------------------------------------------------------------
(* Where the paths come from. *)
LEMMA PathFacts ==
    ASSUME TypeOK
    PROVE  /\ Attributed \subseteq Nodes /\ \A n \in Attributed : Above[n] \cap Roots # {}
           /\ Unattributed \subseteq children /\ children \subseteq Nodes
           /\ Paths \subseteq Nodes /\ IsFiniteSet(Paths) /\ Cardinality(Paths) \in Nat
<1>1. ListedVolumes \subseteq Volumes
  <2>1. items["volumes"] \subseteq [claim : Claims \cup {None}, volume : Volumes]
    BY DEF TypeOK, Lists, Kind
  <2> QED  BY <2>1 DEF ListedVolumes
<1>2. ASSUME NEW r \in Records, Key(r) # None
      PROVE  Key(r) \in Nodes /\ Above[Key(r)] \cap Roots # {}
  <2>1. Key(r) = Candidate(r) /\ Candidate(r) # None /\ Above[Candidate(r)] \cap Roots # {}
    BY <1>2 DEF Key, Beneath
  <2>2. Candidate(r) \in Nodes  BY <1>1, <2>1 DEF Candidate
  <2> QED  BY <2>1, <2>2
<1>3. Attributed \subseteq Nodes /\ \A n \in Attributed : Above[n] \cap Roots # {}
  BY <1>2 DEF Attributed
<1>4. Unattributed \subseteq children /\ children \subseteq Nodes  BY DEF Unattributed, TypeOK
<1>5. Paths \subseteq Nodes  BY <1>3, <1>4 DEF Paths
<1>6. IsFiniteSet(Paths)  BY <1>5, FS_Subset
<1>7. Cardinality(Paths) \in Nat  BY <1>6, FS_CardinalityType
<1> QED  BY <1>3, <1>4, <1>5, <1>6, <1>7

(* A step that leaves the walk alone keeps what it found.                     *)
LEMMA DiscoverCarried ==
    ASSUME DiscoverInv, UNCHANGED <<roots, children, stable>>,
           pc' \in Lists \cup {"raised"} => pc \in Lists \cup {"raised"} \/ roots = Roots,
           ~errors' /\ ~cut' => ~errors /\ ~cut
    PROVE  DiscoverInv'
<1>1. roots' = roots /\ children' = children /\ stable' = stable  OBVIOUS
<1>2. \A q : Children(stable.files, q)' = Children(stable.files, q)  BY <1>1 DEF Children
<1>3. \A q : Children(Nodes, q)' = Children(Nodes, q)  BY DEF Children
<1>4. pc' \in Lists \cup {"raised"} => roots' = Roots  BY <1>1 DEF DiscoverInv
<1>5. \A n \in children' : \E r \in Roots : n \in Children(Nodes, r)'
  BY <1>1, <1>3 DEF DiscoverInv
<1>6. ~errors' /\ ~cut' => \A r \in Roots \ roots' : Children(stable.files, r)' \subseteq children'
  BY <1>1, <1>2 DEF DiscoverInv
<1> QED  BY <1>4, <1>5, <1>6 DEF DiscoverInv, Lists

LEMMA SamePaths == UNCHANGED <<items, children>> => Paths' = Paths
BY DEF Paths, Attributed, Key, Candidate, ListedVolumes, Records, Unclaimed, Unattributed

-----------------------------------------------------------------------------
(* What every change of the cluster obeys: what is left of stable is still    *)
(* there, bound as before, and closed under the directories above.            *)
IsLegal(c, lost) ==
    /\ c \in Cluster
    /\ lost \in [pods : SUBSET Pods, claims : SUBSET Claims, volumes : SUBSET Volumes,
                 files : SUBSET Nodes]
    /\ stable.pods \ lost.pods \subseteq c.pods /\ stable.claims \ lost.claims \subseteq c.claims
    /\ stable.volumes \ lost.volumes \subseteq c.volumes
    /\ stable.files \ lost.files \subseteq c.files
    /\ \A d \in stable.claims \ lost.claims : c.bound[d] = cluster.bound[d]
    /\ \A v \in stable.volumes \ lost.volumes : c.ref[v] = cluster.ref[v]
    /\ \A n \in stable.files \ lost.files : Above[n] \subseteq stable.files \ lost.files

LEMMA ChangeKeeps ==
    ASSUME IInv, NEW c, NEW lost, IsLegal(c, lost), Change(c, lost)
    PROVE  IInv'
<1>1. TypeOK /\ pc \notin {"done", "raised"} /\ pc' = pc  BY DEF IInv, Change
<1>2. /\ cluster' = c /\ UNCHANGED <<limits, pc, page, items, errors, roots, children, cut>>
      /\ UNCHANGED <<todo, slice, scans, answer, faults>> /\ churn' \in 0 .. MaxChurn
  BY <1>1 DEF Change, listing, search, TypeOK
<1>3. /\ stable' \in [pods : SUBSET Pods, claims : SUBSET Claims, volumes : SUBSET Volumes,
                      files : SUBSET Nodes]
      /\ stable'.pods = stable.pods \ lost.pods /\ stable'.claims = stable.claims \ lost.claims
      /\ stable'.volumes = stable.volumes \ lost.volumes
      /\ stable'.files = stable.files \ lost.files
  BY <1>1 DEF Change, TypeOK
<1>4. Scanned' = Scanned  BY <1>2 DEF Scanned
<1>5. TypeOK'
  BY <1>1, <1>2, <1>3, <1>4 DEF TypeOK, IsLegal, Kind
<1>6. ListInv'
  <2>1. \A l \in Lists : Steady(l)' \subseteq Steady(l)
    <3>1. /\ stable'.pods \subseteq stable.pods
          /\ \A d \in stable'.claims : d \in stable.claims /\ cluster'.bound[d] = cluster.bound[d]
          /\ \A v \in stable'.volumes : v \in stable.volumes /\ cluster'.ref[v] = cluster.ref[v]
      BY <1>2, <1>3 DEF IsLegal
    <3> QED  BY <3>1 DEF Lists, Steady
  <2>2. \A l \in Lists : IsRead(l)' = IsRead(l)  BY <1>2 DEF IsRead, Lists
  <2>3. ListInv  BY DEF IInv
  <2> QED  BY <1>2, <2>1, <2>2, <2>3 DEF ListInv
<1>7. PageInv'  BY <1>2 DEF IInv, PageInv, Kind
<1>8. FilesInv'  BY <1>3 DEF FilesInv, IsLegal
<1>9. DiscoverInv'
  <2>1. \A r \in Roots : Children(stable'.files, r) \subseteq Children(stable.files, r)
    BY <1>3 DEF Children
  <2> QED  BY <1>2, <2>1 DEF IInv, DiscoverInv, Children
<1>10. PlanInv'  BY <1>2, <1>4, SamePaths DEF IInv, PlanInv
<1>11. ScanInv'
  <2>1. \A n \in Nodes : OnDevice(stable'.files, n) \subseteq OnDevice(stable.files, n)
    BY <1>3 DEF OnDevice, Subtree
  <2>2. ScanInv /\ Scanned \subseteq Nodes  BY DEF IInv, Scanned
  <2> QED  BY <1>2, <1>4, <2>1, <2>2 DEF ScanInv
<1>12. AnswerInv'  BY <1>1 DEF AnswerInv
<1> QED  BY <1>5, <1>6, <1>7, <1>8, <1>9, <1>10, <1>11, <1>12 DEF IInv

(* The six changes are legal. *)
LEMMA ProvisionKeeps == IInv /\ Provision => IInv'
<1> SUFFICES ASSUME IInv, Provision PROVE IInv'  OBVIOUS
<1>1. TypeOK /\ FilesInv /\ cluster \in Cluster  BY DEF IInv, TypeOK
<1>2. PICK v \in Volumes \ cluster.volumes, c \in cluster.claims :
        /\ PathOf[v] \notin cluster.files \cup {None}
        /\ Change([cluster EXCEPT !.volumes = @ \cup {v}, !.ref[v] = c,
                     !.files = @ \cup Above[PathOf[v]] \cup Subtree(Nodes, PathOf[v])], Nothing)
  BY DEF Provision
<1> DEFINE d == [cluster EXCEPT !.volumes = @ \cup {v}, !.ref[v] = c,
                    !.files = @ \cup Above[PathOf[v]] \cup Subtree(Nodes, PathOf[v])]
<1>3. PathOf[v] \in Nodes /\ c \in Claims  BY <1>1, <1>2 DEF Cluster
<1>4. d \in Cluster  BY <1>1, <1>3 DEF Cluster, Subtree
<1>5. IsLegal(d, Nothing)
  BY <1>1, <1>2, <1>3, <1>4 DEF IsLegal, Nothing, TypeOK, FilesInv, Cluster
<1> HIDE DEF d
<1> QED  BY <1>2, <1>5, ChangeKeeps DEF d

LEMMA BindKeeps == IInv /\ Bind => IInv'
<1> SUFFICES ASSUME IInv, Bind PROVE IInv'  OBVIOUS
<1>1. TypeOK /\ FilesInv /\ cluster \in Cluster  BY DEF IInv, TypeOK
<1>2. PICK v \in cluster.volumes :
        /\ cluster.ref[v] \in cluster.claims
        /\ Change([cluster EXCEPT !.bound[cluster.ref[v]] = v],
                  [Nothing EXCEPT !.claims = {cluster.ref[v]}])
  BY DEF Bind
<1> DEFINE d == [cluster EXCEPT !.bound[cluster.ref[v]] = v]
           lost == [Nothing EXCEPT !.claims = {cluster.ref[v]}]
<1>3. d \in Cluster /\ cluster.ref[v] \in Claims  BY <1>1, <1>2 DEF Cluster
<1>4. IsLegal(d, lost)
  BY <1>1, <1>2, <1>3 DEF IsLegal, Nothing, TypeOK, FilesInv, Cluster
<1> HIDE DEF d, lost
<1> QED  BY <1>2, <1>4, ChangeKeeps DEF d, lost

LEMMA PodGoneKeeps == IInv /\ PodGone => IInv'
<1> SUFFICES ASSUME IInv, PodGone PROVE IInv'  OBVIOUS
<1>1. TypeOK /\ FilesInv /\ cluster \in Cluster  BY DEF IInv, TypeOK
<1>2. PICK p \in cluster.pods :
        Change([cluster EXCEPT !.pods = @ \ {p}], [Nothing EXCEPT !.pods = {p}])
  BY DEF PodGone
<1> DEFINE d == [cluster EXCEPT !.pods = @ \ {p}]
           lost == [Nothing EXCEPT !.pods = {p}]
<1>3. d \in Cluster /\ p \in Pods  BY <1>1 DEF Cluster
<1>4. IsLegal(d, lost)
  BY <1>1, <1>2, <1>3 DEF IsLegal, Nothing, TypeOK, FilesInv, Cluster
<1> HIDE DEF d, lost
<1> QED  BY <1>2, <1>4, ChangeKeeps DEF d, lost

LEMMA ClaimGoneKeeps == IInv /\ ClaimGone => IInv'
<1> SUFFICES ASSUME IInv, ClaimGone PROVE IInv'  OBVIOUS
<1>1. TypeOK /\ FilesInv /\ cluster \in Cluster  BY DEF IInv, TypeOK
<1>2. PICK c \in cluster.claims :
        Change([cluster EXCEPT !.claims = @ \ {c}, !.bound[c] = None], [Nothing EXCEPT !.claims = {c}])
  BY DEF ClaimGone
<1> DEFINE d == [cluster EXCEPT !.claims = @ \ {c}, !.bound[c] = None]
           lost == [Nothing EXCEPT !.claims = {c}]
<1>3. d \in Cluster /\ c \in Claims  BY <1>1 DEF Cluster
<1>4. IsLegal(d, lost)
  BY <1>1, <1>2, <1>3 DEF IsLegal, Nothing, TypeOK, FilesInv, Cluster
<1> HIDE DEF d, lost
<1> QED  BY <1>2, <1>4, ChangeKeeps DEF d, lost

(* A directory goes with everything beneath it. *)
LEMMA SubtreeGone ==
    ASSUME TypeOK, FilesInv, NEW n
    PROVE  LET left == stable.files \ Subtree(Nodes, n)
           IN  \A m \in left : Above[m] \subseteq left
<1> SUFFICES ASSUME NEW m \in stable.files, m \notin Subtree(Nodes, n), NEW k \in Above[m],
                    k \in Subtree(Nodes, n)
             PROVE  FALSE
  BY DEF FilesInv
<1>1. m \in Nodes /\ k \in Nodes /\ Above[k] \subseteq Above[m]  BY DEF TypeOK
<1> QED  BY <1>1 DEF Subtree

LEMMA VolumeGoneKeeps == IInv /\ VolumeGone => IInv'
<1> SUFFICES ASSUME IInv, VolumeGone PROVE IInv'  OBVIOUS
<1>1. TypeOK /\ FilesInv /\ cluster \in Cluster  BY DEF IInv, TypeOK
<1>2. PICK v \in cluster.volumes :
        Change([cluster EXCEPT !.volumes = @ \ {v}, !.files = @ \ Subtree(Nodes, PathOf[v])],
               [Nothing EXCEPT !.volumes = {v}, !.files = Subtree(Nodes, PathOf[v])])
  BY DEF VolumeGone
<1> DEFINE gone == Subtree(Nodes, PathOf[v])
           d == [cluster EXCEPT !.volumes = @ \ {v}, !.files = @ \ gone]
           lost == [Nothing EXCEPT !.volumes = {v}, !.files = gone]
<1>3. gone \subseteq Nodes /\ v \in Volumes  BY <1>1 DEF Subtree, Cluster
<1>4. \A m \in stable.files \ gone : Above[m] \subseteq stable.files \ gone
  BY <1>1, SubtreeGone
<1>5. Change(d, lost)  BY <1>2
<1> HIDE DEF gone
<1>6. d \in Cluster  BY <1>1, <1>3 DEF Cluster
<1>7. /\ lost \in [pods : SUBSET Pods, claims : SUBSET Claims, volumes : SUBSET Volumes,
                   files : SUBSET Nodes]
      /\ lost.pods = {} /\ lost.claims = {} /\ lost.volumes = {v} /\ lost.files = gone
  BY <1>3 DEF Nothing
<1>8. /\ d.pods = cluster.pods /\ d.claims = cluster.claims /\ d.volumes = cluster.volumes \ {v}
      /\ d.files = cluster.files \ gone /\ d.bound = cluster.bound /\ d.ref = cluster.ref
  BY <1>1 DEF Cluster
<1>9. /\ stable.pods \subseteq cluster.pods /\ stable.claims \subseteq cluster.claims
      /\ stable.volumes \subseteq cluster.volumes /\ stable.files \subseteq cluster.files
  BY <1>1 DEF TypeOK
<1> HIDE DEF d, lost
<1>10. IsLegal(d, lost)  BY <1>4, <1>6, <1>7, <1>8, <1>9 DEF IsLegal
<1> QED  BY <1>5, <1>10, ChangeKeeps

LEMMA FileGoneKeeps == IInv /\ FileGone => IInv'
<1> SUFFICES ASSUME IInv, FileGone PROVE IInv'  OBVIOUS
<1>1. TypeOK /\ FilesInv /\ cluster \in Cluster  BY DEF IInv, TypeOK
<1>2. PICK n \in cluster.files :
        Change([cluster EXCEPT !.files = @ \ Subtree(Nodes, n)],
               [Nothing EXCEPT !.files = Subtree(Nodes, n)])
  BY DEF FileGone
<1> DEFINE gone == Subtree(Nodes, n)
           d == [cluster EXCEPT !.files = @ \ gone]
           lost == [Nothing EXCEPT !.files = gone]
<1>3. gone \subseteq Nodes  BY DEF Subtree
<1>4. \A m \in stable.files \ gone : Above[m] \subseteq stable.files \ gone
  BY <1>1, SubtreeGone
<1>5. Change(d, lost)  BY <1>2
<1> HIDE DEF gone
<1>6. d \in Cluster  BY <1>1, <1>3 DEF Cluster
<1>7. IsLegal(d, lost)
  BY <1>1, <1>3, <1>4, <1>6 DEF IsLegal, Nothing, TypeOK, Cluster
<1> HIDE DEF d, lost
<1> QED  BY <1>5, <1>7, ChangeKeeps

-----------------------------------------------------------------------------
(* A page: what is there all the time was listed with the first one, and is   *)
(* returned or still to come.                                                 *)
LEMMA ListPageKeeps ==
    ASSUME IInv, NEW l \in Lists, ListPage(l)
    PROVE  IInv'
<1> DEFINE rest == IF page = None THEN Objects(l) ELSE page
<1>1. TypeOK /\ ListInv /\ PageInv /\ pc = l /\ cluster \in Cluster  BY DEF IInv, TypeOK, ListPage
<1>2. PICK now \in SUBSET rest :
        /\ items' = [items EXCEPT ![l] = @ \cup now]
        /\ IF now = rest THEN NextList(l) ELSE page' = rest \ now /\ UNCHANGED pc
  BY DEF ListPage
<1>3. /\ UNCHANGED <<cluster, churn, stable, limits, errors, roots, children, cut>>
      /\ UNCHANGED <<todo, slice, scans, answer, faults>>
  BY DEF ListPage, world, search
<1>4. rest \subseteq Kind(l)
  <2>1. Objects(l) \subseteq Kind(l)
    BY <1>1 DEF Objects, Kind, Lists, Cluster
  <2> QED  BY <1>1, <2>1 DEF PageInv
<1>5. ~errors => Steady(l) \subseteq items[l] \cup rest
  <2>1. Steady(l) \subseteq Objects(l)  BY <1>1 DEF Steady, Objects, Lists, TypeOK
  <2> QED  BY <1>1, <2>1 DEF ListInv
<1> HIDE DEF rest
<1>6. /\ DOMAIN items' = Lists /\ items'[l] = items[l] \cup now
      /\ \A k \in Lists \ {l} : items'[k] = items[k]
  BY <1>1, <1>2 DEF TypeOK
<1>7. \/ now = rest /\ pc' = After(l) /\ page' = None
      \/ now # rest /\ pc' = l /\ page' = rest \ now
  BY <1>1, <1>2 DEF NextList
<1>8. pc' \in Lists \cup {"discover"}  BY <1>7 DEF Lists, After
<1>9. Scanned' = Scanned  BY <1>3 DEF Scanned
<1>10. TypeOK'
  <2>1. \A k \in Lists : items'[k] \subseteq Kind(k)' 
    BY <1>1, <1>4, <1>6 DEF TypeOK, Kind
  <2> QED  BY <1>1, <1>3, <1>6, <1>8, <1>9, <2>1 DEF TypeOK
<1>11. ListInv'
  <2> SUFFICES ASSUME ~errors, NEW k \in Lists
               PROVE  /\ IsRead(k)' => Steady(k) \subseteq items'[k]
                      /\ pc' = k /\ page' # None => Steady(k) \subseteq items'[k] \cup page'
    <3>1. \A k \in Lists : Steady(k)' = Steady(k)  BY <1>3 DEF Steady, Lists
    <3> QED  BY <1>3, <3>1 DEF ListInv
  <2>1. items[k] \subseteq items'[k] /\ items'[l] = items[l] \cup now  BY <1>6
  <2>2. CASE now = rest
    <3>1. Steady(l) \subseteq items'[l]  BY <1>5, <2>1, <2>2
    <3>2. IsRead(k)' => k = l \/ IsRead(k)
      BY <1>1, <1>7, <2>2 DEF IsRead, Lists, After
    <3> QED  BY <1>1, <1>7, <2>1, <2>2, <3>1, <3>2 DEF ListInv
  <2>3. CASE now # rest
    <3>1. Steady(l) \subseteq items'[l] \cup (rest \ now)  BY <1>5, <2>1
    <3>2. IsRead(k)' = IsRead(k)  BY <1>1, <1>7, <2>3 DEF IsRead, Lists
    <3> QED  BY <1>1, <1>7, <2>1, <2>3, <3>1, <3>2 DEF ListInv
  <2> QED  BY <2>2, <2>3
<1>12. PageInv'
  <2>1. CASE now = rest  BY <1>7, <2>1 DEF PageInv
  <2>2. CASE now # rest  BY <1>4, <1>7, <2>2 DEF PageInv, Kind
  <2> QED  BY <2>1, <2>2
<1>13. FilesInv'  BY <1>3 DEF IInv, FilesInv
<1>14. DiscoverInv'
  <2>1. DiscoverInv  BY DEF IInv
  <2> QED  BY <1>1, <1>3, <2>1, DiscoverCarried DEF Lists
<1>15. PlanInv'  BY <1>1, <1>3, <1>8, <1>9 DEF IInv, PlanInv, Lists
<1>16. ScanInv'  BY <1>3, <1>9 DEF IInv, ScanInv, OnDevice, Subtree
<1>17. AnswerInv'  BY <1>8 DEF AnswerInv, Lists
<1> QED  BY <1>10, <1>11, <1>12, <1>13, <1>14, <1>15, <1>16, <1>17 DEF IInv

(* A list that fails goes on without the rest, a call that raises ends. *)
LEMMA PageFailsKeeps ==
    ASSUME IInv, NEW l \in Lists, PageFails(l) \/ PageRaises(l)
    PROVE  IInv'
<1>1. TypeOK /\ pc = l  BY DEF IInv, PageFails, PageRaises
<1>2. /\ UNCHANGED <<cluster, churn, stable, limits, items, roots, children, cut>>
      /\ UNCHANGED <<todo, slice, scans, answer>> /\ faults' \in 0 .. MaxFaults
  BY <1>1 DEF PageFails, PageRaises, world, search, listing, TypeOK
<1>3. \/ pc' = "raised" /\ UNCHANGED errors
      \/ pc' = After(l) /\ page' = None /\ errors'
  BY DEF PageFails, PageRaises, NextList, Failed
<1>4. pc' \in Lists \cup {"discover", "raised"} /\ errors' \in BOOLEAN
  BY <1>1, <1>3 DEF Lists, After, TypeOK, PageFails, PageRaises, Failed
<1>5. Scanned' = Scanned  BY <1>2 DEF Scanned
<1>6. TypeOK'  BY <1>1, <1>2, <1>4, <1>5 DEF TypeOK, Kind
<1>7. ListInv' /\ PageInv'  BY <1>3 DEF ListInv, PageInv, IsRead, Lists
<1>8. FilesInv'  BY <1>2 DEF IInv, FilesInv
<1>9. DiscoverInv'
  <2>1. DiscoverInv  BY DEF IInv
  <2> QED  BY <1>1, <1>2, <1>3, <2>1, DiscoverCarried DEF Lists, After, Failed
<1>10. PlanInv'  BY <1>1, <1>2, <1>4, <1>5 DEF IInv, PlanInv, Lists
<1>11. ScanInv'  BY <1>2, <1>5 DEF IInv, ScanInv, OnDevice, Subtree
<1>12. AnswerInv'  BY <1>4 DEF AnswerInv, Lists
<1> QED  BY <1>6, <1>7, <1>8, <1>9, <1>10, <1>11, <1>12 DEF IInv

-----------------------------------------------------------------------------
(* Roots: a root that is missing holds nothing that stays. *)
LEMMA DiscoverKeeps ==
    ASSUME IInv, DiscoverRoot
    PROVE  IInv'
<1>1. TypeOK /\ pc = "discover" /\ FilesInv /\ DiscoverInv  BY DEF IInv, DiscoverRoot
<1> DEFINE Found(r) == IF r \in cluster.files THEN Children(cluster.files, r) ELSE {}
           room == limits.paths - Cardinality(children)
           Step(r, part) ==
              /\ roots' = roots \ {r} /\ children' = children \cup part
              /\ \/ /\ Cardinality(part) = Min({room, Cardinality(Found(r))})
                    /\ cut' = (cut \/ part # Found(r)) /\ UNCHANGED <<errors, faults>>
                 \/ /\ faults < MaxFaults /\ faults' = faults + 1
                    /\ Cardinality(part) <= room /\ errors' = TRUE /\ UNCHANGED cut
<1>0. PICK r \in roots : \E part \in SUBSET Found(r) : Step(r, part)  BY DEF DiscoverRoot
<1>2. PICK part \in SUBSET Found(r) : Step(r, part)  BY <1>0
<1>3. UNCHANGED <<cluster, churn, stable, limits, pc, page, items, todo, slice, scans, answer>>
  BY DEF DiscoverRoot, world, listing
<1>4. r \in Roots /\ Found(r) \subseteq Children(Nodes, r) /\ Found(r) \subseteq Nodes
  BY <1>1 DEF TypeOK, Cluster, Children
<1>5. /\ IsFiniteSet(children) /\ IsFiniteSet(part) /\ IsFiniteSet(Found(r))
      /\ children \subseteq Nodes /\ part \subseteq Nodes
  <2>1. children \subseteq Nodes /\ IsFiniteSet(Nodes)  BY <1>1 DEF TypeOK
  <2> HIDE DEF Found
  <2> QED  BY <1>2, <1>4, <2>1, FS_Subset
<1>6. /\ limits.paths \in Nat /\ Cardinality(children) \in Nat /\ room \in Nat
      /\ Cardinality(Found(r)) \in Nat /\ Cardinality(part) \in Nat
  BY <1>1, <1>5, FS_CardinalityType DEF TypeOK
<1>7. Children(stable.files, r) \subseteq Found(r)
  BY <1>1, <1>4 DEF TypeOK, FilesInv, Children
<1> HIDE DEF Found, room
<1>8. Cardinality(part) <= room
  <2> DEFINE count == Cardinality(Found(r))
  <2>1. room \in Int /\ count \in Int  BY <1>6
  <2> HIDE DEF count
  <2>2. Min({room, count}) = IF room <= count THEN room ELSE count  BY <2>1, MinOfTwo
  <2>3. Min({room, count}) <= room  BY <2>1, <2>2
  <2>4. Cardinality(part) = Min({room, count}) \/ Cardinality(part) <= room  BY <1>2 DEF count
  <2> QED  BY <2>3, <2>4
<1>9. children' \subseteq Nodes /\ Cardinality(children') <= limits.paths
  <2>1. IsFiniteSet(children \cap part)  BY <1>5, FS_Intersection
  <2>2. Cardinality(children \cap part) \in Nat  BY <2>1, FS_CardinalityType
  <2>3. Cardinality(children \cup part)
          = Cardinality(children) + Cardinality(part) - Cardinality(children \cap part)
    BY <1>5, FS_Union
  <2> QED  BY <1>2, <1>5, <1>6, <1>8, <2>2, <2>3 DEF room
<1>10. Scanned' = Scanned  BY <1>3 DEF Scanned
<1>11. TypeOK'
  <2>1. errors' \in BOOLEAN /\ cut' \in BOOLEAN /\ faults' \in 0 .. MaxFaults /\ roots' \subseteq Roots
    <3>1. /\ errors \in BOOLEAN /\ cut \in BOOLEAN /\ faults \in 0 .. MaxFaults /\ roots \subseteq Roots
          /\ MaxFaults \in Nat
      BY <1>1 DEF TypeOK
    <3>2. errors' \in BOOLEAN  BY <1>2, <3>1
    <3>3. cut' \in BOOLEAN  BY <1>2, <3>1
    <3>4. faults' \in 0 .. MaxFaults  BY <1>2, <3>1
    <3> QED  BY <1>2, <3>1, <3>2, <3>3, <3>4
  <2> QED  BY <1>1, <1>3, <1>9, <1>10, <2>1 DEF TypeOK, Kind
<1>12. ListInv'
  <2>1. \A l \in Lists : Steady(l)' = Steady(l) /\ IsRead(l)' = IsRead(l)
    BY <1>3 DEF Steady, IsRead, Lists
  <2>2. ~errors' => ~errors  BY <1>1, <1>2 DEF TypeOK
  <2> QED  BY <1>3, <2>1, <2>2 DEF IInv, ListInv
<1>13. PageInv' /\ FilesInv'  BY <1>1, <1>3 DEF PageInv, FilesInv, Lists
<1>14. DiscoverInv'
  <2>1. pc' \notin Lists \cup {"raised"}  BY <1>1, <1>3 DEF Lists
  <2>2. \A n \in children' : \E q \in Roots : n \in Children(Nodes, q)
    BY <1>1, <1>2, <1>4 DEF DiscoverInv
  <2>3. ASSUME ~errors', ~cut', NEW q \in Roots \ roots'
        PROVE  Children(stable.files, q) \subseteq children'
    <3>1. ~errors /\ ~cut /\ part = Found(r)  BY <1>1, <1>2, <2>3 DEF TypeOK
    <3>2. CASE q = r  BY <1>2, <1>7, <3>1, <3>2
    <3>3. CASE q # r
      <4>1. q \in Roots \ roots  BY <1>2, <2>3, <3>3
      <4> QED  BY <1>1, <1>2, <3>1, <4>1 DEF DiscoverInv
    <3> QED  BY <3>2, <3>3
  <2>4. \A q : Children(stable.files, q)' = Children(stable.files, q)
    BY <1>3 DEF Children
  <2>5. \A q : Children(Nodes, q)' = Children(Nodes, q)  BY DEF Children
  <2> QED  BY <2>1, <2>2, <2>3, <2>4, <2>5 DEF DiscoverInv
<1>15. PlanInv'  BY <1>1, <1>3, <1>10 DEF IInv, PlanInv
<1>16. ScanInv'  BY <1>3, <1>10 DEF IInv, ScanInv, OnDevice, Subtree
<1>17. AnswerInv'  BY <1>1, <1>3 DEF AnswerInv
<1> QED  BY <1>11, <1>12, <1>13, <1>14, <1>15, <1>16, <1>17 DEF IInv

(* The share of a path is never more than the caller allows. *)
LEMMA SliceBounds ==
    ASSUME TypeOK, NEW count \in Nat, count > 0
    PROVE  EntrySlice(count) \in 0 .. limits.max_entries
<1>1. limits.max_entries \in Nat \ {0} /\ limits.total \in Nat  BY DEF TypeOK
<1> DEFINE q == limits.total \div count
           low == IF limits.max_entries <= q THEN limits.max_entries ELSE q
<1>2. q \in Nat
  <2>1. \A t \in Nat, k \in Nat \ {0} : t \div k \in Nat  OBVIOUS
  <2> QED  BY <1>1, <2>1
<1>3. Min({limits.max_entries, q}) = low /\ low \in Nat  BY <1>1, <1>2, MinOfTwo
<1>4. Max({1, low}) = IF 1 <= low THEN low ELSE 1  BY <1>3, MaxOfTwo
<1>5. EntrySlice(count) = IF 1 <= low THEN low ELSE 1  BY <1>3, <1>4 DEF EntrySlice
<1> HIDE DEF q
<1> QED  BY <1>1, <1>2, <1>5

LEMMA PlanKeeps ==
    ASSUME IInv, Plan
    PROVE  IInv'
<1>1. TypeOK /\ pc = "discover" /\ pc' = "scan" /\ PlanInv /\ roots = {}  BY DEF IInv, Plan
<1>2. PICK first \in SUBSET Paths :
        /\ Cardinality(first) = Min({limits.paths, Cardinality(Paths)})
        /\ todo' = first /\ cut' = (cut \/ first # Paths)
        /\ slice' = IF first = {} THEN 0 ELSE EntrySlice(Cardinality(first))
  BY DEF Plan
<1>3. /\ UNCHANGED <<cluster, churn, stable, limits, page, items, errors, roots, children>>
      /\ UNCHANGED <<scans, answer, faults>>
  BY DEF Plan, world, listing
<1>4. Scanned' = Scanned /\ Scanned = {} /\ Paths' = Paths
  BY <1>1, <1>3, SamePaths DEF Scanned, PlanInv
<1>5. /\ first \subseteq Nodes /\ IsFiniteSet(first) /\ Cardinality(first) \in Nat
      /\ limits.paths \in Nat /\ limits.max_entries \in Nat /\ Cardinality(Paths) \in Nat
  <2>1. first \subseteq Nodes /\ IsFiniteSet(first)  BY <1>1, PathFacts, FS_Subset
  <2> QED  BY <1>1, <2>1, PathFacts, FS_CardinalityType DEF TypeOK
<1>6. Cardinality(first) <= limits.paths  BY <1>2, <1>5, MinOfTwo
<1>7. slice' \in 0 .. limits.max_entries
  <2>1. CASE first = {}  BY <1>2, <1>5, <2>1
  <2>2. CASE first # {}
    <3>1. Cardinality(first) > 0  BY <1>5, <2>2, FS_EmptySet
    <3> QED  BY <1>1, <1>2, <1>5, <2>2, <3>1, SliceBounds
  <2> QED  BY <2>1, <2>2
<1>8. TypeOK'
  <2>1. Cardinality(todo') + Cardinality(Scanned') <= limits.paths
    BY <1>2, <1>4, <1>5, <1>6, FS_EmptySet
  <2>2. cut' \in BOOLEAN /\ todo' \subseteq Nodes  BY <1>1, <1>2, <1>5 DEF TypeOK
  <2> QED  BY <1>1, <1>3, <1>7, <2>1, <2>2 DEF TypeOK, Kind
<1>9. ListInv'
  <2>1. \A l \in Lists : Steady(l)' = Steady(l)  BY <1>3 DEF Steady, Lists
  <2>0. \A l \in Lists : IsRead(l)
    <3>1. pc = "discover"  BY <1>1
    <3> QED  BY <3>1 DEF IsRead, Lists
  <2>2. pc' \notin Lists  BY <1>1 DEF Lists
  <2> QED  BY <1>3, <2>0, <2>1, <2>2 DEF IInv, ListInv
<1>10. PageInv' /\ FilesInv'  BY <1>1, <1>3 DEF IInv, PageInv, FilesInv, Lists
<1>11. DiscoverInv'
  <2>1. ~cut' => ~cut  BY <1>1, <1>2 DEF TypeOK
  <2>2. DiscoverInv  BY DEF IInv
  <2> QED  BY <1>1, <1>3, <2>1, <2>2, DiscoverCarried DEF Lists
<1>12. PlanInv'
  <2>1. ~cut' => Paths \subseteq todo'  BY <1>1, <1>2 DEF TypeOK
  <2> QED  BY <1>1, <1>2, <1>3, <1>4, <2>1 DEF PlanInv
<1>13. ScanInv' /\ AnswerInv'  BY <1>1, <1>4 DEF ScanInv, AnswerInv
<1> QED  BY <1>8, <1>9, <1>10, <1>11, <1>12, <1>13 DEF IInv

LEMMA ScanKeeps ==
    ASSUME IInv, Scan
    PROVE  IInv'
<1>1. TypeOK /\ pc = "scan" /\ PlanInv /\ ScanInv  BY DEF IInv, Scan
<1>2. PICK n \in todo :
        LET there == Subtree(cluster.files, n)
            own == OnDevice(cluster.files, n)
            Result(what, partial) ==
                scans' = [scans EXCEPT ![n] = [what |-> what, partial |-> partial]]
        IN  /\ todo' = todo \ {n}
            /\ \/ Result(own, FALSE) /\ UNCHANGED faults
               \/ \E what \in SUBSET own : Result(what, TRUE) /\ UNCHANGED faults
               \/ \E what \in SUBSET there :
                     /\ faults < MaxFaults /\ faults' = faults + 1
                     /\ Result(what, TRUE) \/ (what = there /\ Result(what, FALSE))
  BY DEF Scan
<1>3. /\ UNCHANGED <<cluster, churn, stable, limits, pc, page, items, errors>>
      /\ UNCHANGED <<roots, children, cut, slice, answer>>
  BY DEF Scan, world, listing, search
<1>4. n \in Nodes /\ todo' = todo \ {n} /\ faults' \in 0 .. MaxFaults
  BY <1>1, <1>2 DEF TypeOK
<1>5. PICK result \in Scans :
        /\ scans' = [scans EXCEPT ![n] = result]
        /\ result.what \subseteq Subtree(cluster.files, n)
        /\ ~result.partial => OnDevice(cluster.files, n) \subseteq result.what
  <2>1. /\ Subtree(cluster.files, n) \subseteq Nodes
        /\ OnDevice(cluster.files, n) \subseteq Subtree(cluster.files, n)
    BY <1>1 DEF OnDevice, Subtree, TypeOK, Cluster
  <2>2. PICK what \in SUBSET Subtree(cluster.files, n), partial \in BOOLEAN :
          /\ scans' = [scans EXCEPT ![n] = [what |-> what, partial |-> partial]]
          /\ ~partial => OnDevice(cluster.files, n) \subseteq what
    <3> DEFINE there == Subtree(cluster.files, n)
               own == OnDevice(cluster.files, n)
               Result(what, partial) ==
                   scans' = [scans EXCEPT ![n] = [what |-> what, partial |-> partial]]
    <3>1. \/ Result(own, FALSE) \/ Result(there, FALSE)
          \/ \E what \in SUBSET own : Result(what, TRUE)
          \/ \E what \in SUBSET there : Result(what, TRUE)
      BY <1>2
    <3>2. own \subseteq there  BY <2>1
    <3> HIDE DEF there, own
    <3>3. \E what \in SUBSET there, partial \in BOOLEAN :
             Result(what, partial) /\ (~partial => own \subseteq what)
      BY <3>1, <3>2
    <3> QED  BY <3>3 DEF there, own
  <2>3. [what |-> what, partial |-> partial] \in Scans  BY <2>1, <2>2 DEF Scans
  <2> QED  BY <2>2, <2>3
<1>6. /\ scans' \in [Nodes -> Scans \cup {None}] /\ scans'[n] = result
      /\ \A m \in Nodes \ {n} : scans'[m] = scans[m]
  BY <1>1, <1>4, <1>5 DEF TypeOK
<1>7. Scanned' = Scanned \cup {n}  BY <1>4, <1>5, <1>6 DEF Scanned
<1>8. TypeOK'
  <2>1. IsFiniteSet(todo) /\ IsFiniteSet(Scanned) /\ todo \subseteq Nodes
    BY <1>1, FS_Subset DEF TypeOK, Scanned
  <2>2. Cardinality(todo) \in Nat /\ Cardinality(Scanned) \in Nat /\ limits.paths \in Nat
    BY <1>1, <2>1, FS_CardinalityType DEF TypeOK
  <2>3. Cardinality(todo') = Cardinality(todo) - 1  BY <1>2, <2>1, FS_RemoveElement
  <2>4. /\ Cardinality(Scanned') <= Cardinality(Scanned) + 1
        /\ Cardinality(Scanned') \in Nat
    <3>1. /\ IsFiniteSet(Scanned \cup {n})
          /\ \/ Cardinality(Scanned \cup {n}) = Cardinality(Scanned)
             \/ Cardinality(Scanned \cup {n}) = Cardinality(Scanned) + 1
      BY <2>1, FS_AddElement
    <3> QED  BY <1>7, <2>2, <3>1
  <2>5. Cardinality(todo') + Cardinality(Scanned') <= limits.paths
    BY <1>1, <2>2, <2>3, <2>4 DEF TypeOK
  <2> QED  BY <1>1, <1>3, <1>4, <1>6, <2>1, <2>5 DEF TypeOK, Kind
<1>9. ListInv'
  <2>1. \A l \in Lists : Steady(l)' = Steady(l) /\ IsRead(l)' = IsRead(l)
    BY <1>3 DEF Steady, IsRead, Lists
  <2> QED  BY <1>3, <2>1 DEF IInv, ListInv
<1>10. PageInv' /\ FilesInv' /\ AnswerInv'
  BY <1>1, <1>3 DEF IInv, PageInv, FilesInv, AnswerInv, Lists
<1>11. DiscoverInv'
  <2>1. DiscoverInv  BY DEF IInv
  <2> QED  BY <1>1, <1>3, <2>1, DiscoverCarried DEF Lists
<1>12. PlanInv'
  <2>1. Paths' = Paths  BY <1>3, SamePaths
  <2> QED  BY <1>1, <1>2, <1>3, <1>7, <2>1 DEF PlanInv
<1>13. ScanInv'
  <2>1. /\ Subtree(cluster.files, n) \subseteq Subtree(Nodes, n)
        /\ OnDevice(stable.files, n) \subseteq OnDevice(cluster.files, n)
    BY <1>1 DEF OnDevice, Subtree, TypeOK, Cluster
  <2>2. \A m \in Scanned' : \/ m = n
                            \/ m \in Scanned /\ scans'[m] = scans[m]
    BY <1>6, <1>7 DEF Scanned
  <2>3. \A m : /\ Subtree(Nodes, m)' = Subtree(Nodes, m)
               /\ OnDevice(stable.files, m)' = OnDevice(stable.files, m)
    BY <1>3 DEF OnDevice, Subtree
  <2> QED  BY <1>1, <1>5, <1>6, <2>1, <2>2, <2>3 DEF ScanInv
<1> QED  BY <1>8, <1>9, <1>10, <1>11, <1>12, <1>13 DEF IInv

-----------------------------------------------------------------------------
(* What the answer adds up for a namespace. *)
LEMMA CountedFacts ==
    ASSUME TypeOK, NEW ns
    PROVE  /\ Counted(ns) \subseteq Scanned /\ IsFiniteSet(Counted(ns))
           /\ Scanned \subseteq Nodes /\ IsFiniteSet(Scanned)
           /\ \A n \in Scanned : /\ scans[n] \in Scans /\ IsFiniteSet(scans[n].what)
                                 /\ Sizes[n] = Cardinality(scans[n].what)
<1>1. Scanned \subseteq Nodes /\ IsFiniteSet(Scanned)  BY FS_Subset DEF Scanned
<1>2. Counted(ns) \subseteq Scanned
  <2>1. Attributed \subseteq Nodes  BY PathFacts
  <2>2. \A r \in Records : IsScanned(r) => Key(r) \in Attributed /\ scans[Key(r)] # None
    BY DEF IsScanned, Attributed
  <2>3. \A r \in Records : IsScanned(r) => Key(r) \in Scanned  BY <2>1, <2>2 DEF Scanned
  <2> QED  BY <2>3 DEF Counted, Members
<1>3. \A n \in Scanned : scans[n] \in Scans  BY DEF Scanned, TypeOK
<1>4. \A n \in Scanned : IsFiniteSet(scans[n].what)  BY <1>3, FS_Subset DEF Scans
<1>5. \A n \in Scanned : Sizes[n] = Cardinality(scans[n].what)  BY DEF Sizes
<1> QED  BY <1>1, <1>2, <1>3, <1>4, <1>5, FS_Subset

(* A sum of a namespace is that of the sizes of its paths, which is no less   *)
(* than what they hold together.                                              *)
Measured == [n \in Scanned |-> scans[n].what]
LEMMA SumOfPaths ==
    ASSUME TypeOK, NEW S \in SUBSET Scanned
    PROVE  /\ IsFiniteSet(UnionOf(Measured, S)) /\ SumFunctionOnSet(Sizes, S) \in Nat
           /\ Cardinality(UnionOf(Measured, S)) <= SumFunctionOnSet(Sizes, S)
           /\ AreDisjoint(Measured, S)
                 => SumFunctionOnSet(Sizes, S) = Cardinality(UnionOf(Measured, S))
<1>1. IsFiniteSet(S)  BY CountedFacts, FS_Subset
<1>2. \A n \in S : IsFiniteSet(Measured[n]) /\ Sizes[n] = Cardinality(Measured[n])
  BY CountedFacts DEF Measured
<1>3. AreSizes(Sizes, Measured, S)  BY <1>1, <1>2 DEF AreSizes
<1> QED  BY <1>3, CardinalitiesAddUp

LEMMA RollupTyped ==
    ASSUME TypeOK, NEW ns \in Namespaces
    PROVE  Rollup(ns) \in [used : Nat, complete : BOOLEAN, pods : SUBSET Pods]
<1>1. SumFunctionOnSet(Sizes, Counted(ns)) \in Nat  BY CountedFacts, SumOfPaths
<1>2. (\A r \in Members(ns) : ~Short(r)) \in BOOLEAN  OBVIOUS
<1>3. UNION {Mounting(r) : r \in Members(ns)} \subseteq Pods  BY DEF Mounting, TypeOK, Lists, Kind
<1> QED  BY <1>1, <1>2, <1>3 DEF Rollup

LEMMA SameAnswer ==
    ASSUME UNCHANGED <<items, scans, errors, cut>>
    PROVE  Complete' = Complete /\ \A ns \in Namespaces : Rollup(ns)' = Rollup(ns)
BY DEF Complete, Rollup, Counted, Members, CountsFor, Mounting, Short, Status, IsScanned, Sizes,
       Scanned, Records, Unclaimed, Key, Candidate, ListedVolumes

(* The answer is made of what was scanned. *)
LEMMA ReportKeeps ==
    ASSUME IInv, Report
    PROVE  IInv'
<1>1. TypeOK /\ pc = "scan" /\ pc' = "done" /\ PlanInv /\ ScanInv /\ todo = {}  BY DEF IInv, Report
<1>2. answer' = [complete |-> Complete, rollup |-> [ns \in Namespaces |-> Rollup(ns)]]  BY DEF Report
<1>3. /\ UNCHANGED <<cluster, churn, stable, limits, page, items, errors, roots, children, cut>>
      /\ UNCHANGED <<todo, slice, scans, faults>>
  BY DEF Report, world, listing, search
<1>4. Scanned' = Scanned /\ Paths' = Paths  BY <1>3, SamePaths DEF Scanned
<1>5. TypeOK'
  <2>1. \A ns \in Namespaces : Rollup(ns) \in [used : Nat, complete : BOOLEAN, pods : SUBSET Pods]
    BY <1>1, RollupTyped
  <2>2. answer'.rollup = [ns \in Namespaces |-> Rollup(ns)]  BY <1>2
  <2>3. answer'.rollup \in [Namespaces -> [used : Nat, complete : BOOLEAN, pods : SUBSET Pods]]
    <3> HIDE DEF Rollup, Namespaces
    <3> QED  BY <2>1, <2>2
  <2> QED  BY <1>1, <1>3, <1>4, <2>3 DEF TypeOK, Kind, Lists, Namespaces
<1>6. ListInv'
  <2>1. \A l \in Lists : Steady(l)' = Steady(l)  BY <1>3 DEF Steady, Lists
  <2>2. \A l \in Lists : IsRead(l)
    <3>1. pc = "scan"  BY <1>1
    <3> QED  BY <3>1 DEF IsRead, Lists
  <2>3. pc' \notin Lists  BY <1>1 DEF Lists
  <2> QED  BY <1>3, <2>1, <2>2, <2>3 DEF IInv, ListInv
<1>7. PageInv' /\ FilesInv'  BY <1>1, <1>3 DEF IInv, PageInv, FilesInv, Lists
<1>8. DiscoverInv'
  <2>1. DiscoverInv  BY DEF IInv
  <2> QED  BY <1>1, <1>3, <2>1, DiscoverCarried DEF Lists
<1>9. PlanInv'  BY <1>1, <1>3, <1>4 DEF PlanInv
<1>10. ScanInv'  BY <1>1, <1>3, <1>4 DEF ScanInv, OnDevice, Subtree
<1>11. AnswerInv'
  <2>1. Complete' = Complete /\ \A ns \in Namespaces : Rollup(ns)' = Rollup(ns)  BY <1>3, SameAnswer
  <2> QED  BY <1>2, <2>1 DEF AnswerInv, Namespaces
<1> QED  BY <1>5, <1>6, <1>7, <1>8, <1>9, <1>10, <1>11 DEF IInv

LEMMA Inductive == IInv /\ [Next]_vars => IInv'
<1> SUFFICES ASSUME IInv, [Next]_vars PROVE IInv'  OBVIOUS
<1>1. CASE UNCHANGED vars
  <2>1. UNCHANGED <<cluster, churn, stable, limits, pc, page, items, errors, roots, children, cut>>
        /\ UNCHANGED <<todo, slice, scans, answer, faults>>
    BY <1>1 DEF vars, world, listing, search
  <2>2. Scanned' = Scanned /\ Paths' = Paths  BY <2>1, SamePaths DEF Scanned
  <2>3. Complete' = Complete /\ \A ns \in Namespaces : Rollup(ns)' = Rollup(ns)
    BY <2>1, SameAnswer
  <2>4. TypeOK'  BY <2>1, <2>2 DEF IInv, TypeOK, Kind
  <2>5. ListInv'
    <3>1. \A l \in Lists : Steady(l)' = Steady(l) /\ IsRead(l)' = IsRead(l)
      BY <2>1 DEF Steady, IsRead, Lists
    <3> QED  BY <2>1, <3>1 DEF IInv, ListInv
  <2>6. PageInv' /\ FilesInv'  BY <2>1 DEF IInv, PageInv, FilesInv, Kind
  <2>7. DiscoverInv'
    <3>1. DiscoverInv  BY DEF IInv
    <3> QED  BY <2>1, <3>1, DiscoverCarried
  <2>8. PlanInv' /\ ScanInv'  BY <2>1, <2>2 DEF IInv, PlanInv, ScanInv, OnDevice, Subtree
  <2>9. AnswerInv'  BY <2>1, <2>3 DEF IInv, AnswerInv, Namespaces
  <2> QED  BY <2>4, <2>5, <2>6, <2>7, <2>8, <2>9 DEF IInv
<1>2. CASE Next
  BY <1>2, ProvisionKeeps, BindKeeps, PodGoneKeeps, ClaimGoneKeeps, VolumeGoneKeeps, FileGoneKeeps,
     ListPageKeeps, PageFailsKeeps, DiscoverKeeps, PlanKeeps, ScanKeeps, ReportKeeps
     DEF Next, Host, Read
<1> QED  BY <1>1, <1>2

-----------------------------------------------------------------------------
(* At the end every list has been read, and an answer is what Report made it. *)
LEMMA AtTheEnd ==
    ASSUME IInv, pc = "done"
    PROVE  /\ ~errors => \A l \in Lists : Steady(l) \subseteq items[l]
           /\ answer.complete = Complete /\ \A ns \in Namespaces : answer.rollup[ns] = Rollup(ns)
           /\ Scanned \subseteq Paths /\ (~cut => Scanned = Paths)
<1>1. \A l \in Lists : IsRead(l)  BY DEF IsRead, Lists
<1>2. ~errors => \A l \in Lists : Steady(l) \subseteq items[l]  BY <1>1 DEF IInv, ListInv
<1>3. answer = [complete |-> Complete, rollup |-> [ns \in Namespaces |-> Rollup(ns)]]
  BY DEF IInv, AnswerInv
<1>4. Scanned \subseteq Paths /\ (~cut => Scanned = Paths)  BY DEF IInv, PlanInv
<1> QED  BY <1>2, <1>3, <1>4

(* What a record is made of. *)
LEMMA RecordFacts ==
    ASSUME TypeOK, NEW r \in Records
    PROVE  /\ r.claim \in Claims \cup {None} /\ r.volume \in Volumes \cup {None}
           /\ Rank(r.claim) \in Nat /\ Rank(r.volume) \in Nat
           /\ r.claim # None => r.claim \in Claims /\ Namespace[r.claim] \in Namespaces
<1>1. \/ r \in [claim : Claims, volume : Volumes \cup {None}]
      \/ r \in [claim : Claims \cup {None}, volume : Volumes]
  BY DEF Records, Unclaimed, TypeOK, Kind, Lists
<1> QED  BY <1>1 DEF Rank, Namespaces

(* Every claim that stays has its record, which names the path it is bound to. *)
LEMMA SteadyRecord ==
    ASSUME IInv, pc = "done", ~errors, NEW c \in stable.claims
    PROVE  \E r \in Records : /\ r.claim = c /\ r \in Members(Namespace[c])
                              /\ c \in StableClaims => Key(r) = ClaimPath(c) /\ ClaimPath(c) \in Attributed
<1> DEFINE r == [claim |-> c, volume |-> cluster.bound[c]]
<1>1. TypeOK /\ c \in Claims /\ None \notin Claims  BY DEF IInv, TypeOK
<1>2. r \in items["claims"]  BY AtTheEnd DEF Steady, Lists
<1>3. r \in Records /\ r.claim = c /\ r \in Members(Namespace[c])
  BY <1>1, <1>2 DEF Records, Members
<1>4. ASSUME c \in StableClaims
      PROVE  Key(r) = ClaimPath(c) /\ ClaimPath(c) \in Attributed
  <2>1. cluster.bound[c] \in stable.volumes /\ Beneath(PathOf[cluster.bound[c]])
    BY <1>4 DEF StableClaims
  <2>2. cluster.bound[c] \in ListedVolumes
    <3>1. [claim |-> cluster.ref[cluster.bound[c]], volume |-> cluster.bound[c]] \in items["volumes"]
      BY <2>1, AtTheEnd DEF Steady, Lists
    <3> QED  BY <3>1 DEF ListedVolumes
  <2>3. Key(r) = ClaimPath(c) /\ Key(r) # None
    BY <2>1, <2>2 DEF Key, Candidate, ClaimPath, Beneath
  <2> QED  BY <1>3, <2>3 DEF Attributed
<1> HIDE DEF r
<1> QED  BY <1>3, <1>4

(* A path that is not cut short has everything that stayed in it. *)
LEMMA ScannedIsWhole ==
    ASSUME IInv, NEW n \in Scanned, ~scans[n].partial
    PROVE  IsWhole(n)
BY DEF IInv, ScanInv, IsWhole, Scanned

LEMMA CompleteFollows == IInv => CompleteCoversVolumes
<1> SUFFICES ASSUME IInv, pc = "done", answer.complete
             PROVE  /\ \A c \in StableClaims : IsWhole(ClaimPath(c))
                    /\ \A r \in Roots : \A n \in Children(stable.files, r) :
                          IsWhole(n) \/ \E a \in Attributed : n \in Above[a]
                    /\ \A p \in stable.pods : \A c \in Uses[p] \cap stable.claims :
                          p \in answer.rollup[Namespace[c]].pods
  BY DEF CompleteCoversVolumes
<1>1. TypeOK /\ Complete  BY AtTheEnd DEF IInv
<1>2. ~errors /\ ~cut /\ \A n \in Scanned : ~scans[n].partial  BY <1>1 DEF Complete
<1>3. \A n \in Paths : IsWhole(n)  BY <1>2, AtTheEnd, ScannedIsWhole
<1>4. ASSUME NEW c \in StableClaims PROVE IsWhole(ClaimPath(c))
  <2>1. c \in stable.claims  BY DEF StableClaims
  <2>2. ClaimPath(c) \in Paths  BY <1>2, <2>1, SteadyRecord DEF Paths
  <2> QED  BY <1>3, <2>2
<1>5. ASSUME NEW r \in Roots, NEW n \in Children(stable.files, r),
             ~\E a \in Attributed : n \in Above[a]
      PROVE  IsWhole(n)
  <2>1. n \in children
    <3>1. DiscoverInv /\ roots = {}  BY DEF IInv, PlanInv
    <3> QED  BY <1>2, <3>1 DEF DiscoverInv
  <2>2. n \in Paths  BY <1>5, <2>1 DEF Paths, Unattributed
  <2> QED  BY <1>3, <2>2
<1>6. ASSUME NEW p \in stable.pods, NEW c \in Uses[p] \cap stable.claims
      PROVE  p \in answer.rollup[Namespace[c]].pods
  <2>1. PICK r \in Records : r.claim = c /\ r \in Members(Namespace[c])  BY <1>2, SteadyRecord
  <2>2. p \in items["pods"]  BY <1>2, AtTheEnd DEF Steady, Lists
  <2>3. p \in Mounting(r)  BY <2>1, <2>2 DEF Mounting
  <2>4. Namespace[c] \in Namespaces  BY <1>1 DEF Namespaces, TypeOK
  <2>5. p \in Rollup(Namespace[c]).pods  BY <2>1, <2>3 DEF Rollup
  <2> QED  BY <2>4, <2>5, AtTheEnd
<1> QED  BY <1>4, <1>5, <1>6

-----------------------------------------------------------------------------
(* Of the records with a namespace that name a path one is the first. *)
LEMMA FirstRecord ==
    ASSUME TypeOK, NEW r \in Records, r.claim # None
    PROVE  \E s \in Records : s.claim # None /\ Key(s) = Key(r) /\ CountsFor(s)
<1> DEFINE R == {s \in Records : s.claim # None /\ Key(s) = Key(r)}
           C == {Rank(s.claim) : s \in R}
<1>1. \A s \in R : Rank(s.claim) \in Nat /\ Rank(s.volume) \in Nat  BY RecordFacts
<1>2. r \in R /\ \A s \in R : s \in Records /\ s.claim # None /\ Key(s) = Key(r)  OBVIOUS
<1>3. \A s \in Records : s.claim # None /\ Key(s) = Key(r) => s \in R  OBVIOUS
<1> HIDE DEF R
<1>4. C \in SUBSET Nat /\ C # {}  BY <1>1, <1>2
<1>5. PICK c \in C : \A d \in C : c <= d
  <2> HIDE DEF C
  <2> QED  BY <1>4, LeastNumber
<1> DEFINE Q == {s \in R : Rank(s.claim) = c}
           V == {Rank(s.volume) : s \in Q}
<1>6. V \in SUBSET Nat /\ V # {}  BY <1>1, <1>5
<1>7. PICK v \in V : \A d \in V : v <= d
  <2> HIDE DEF V
  <2> QED  BY <1>6, LeastNumber
<1>8. PICK s \in R : Rank(s.claim) = c /\ Rank(s.volume) = v  BY <1>7
<1>9. ASSUME NEW t \in R PROVE ~Earlier(t, s)
  <2>1. c <= Rank(t.claim)  BY <1>5
  <2>2. Rank(t.claim) = c => v <= Rank(t.volume)  BY <1>7
  <2> QED  BY <1>1, <1>8, <2>1, <2>2 DEF Earlier
<1>10. CountsFor(s)  BY <1>2, <1>3, <1>9 DEF CountsFor
<1> QED  BY <1>2, <1>10

LEMMA RollupFollows == IInv => RollupHoldsItsVolumes
<1> SUFFICES ASSUME IInv, pc = "done", ~errors, NEW ns \in Namespaces, answer.rollup[ns].complete
             PROVE  LET others == {Key(r) : r \in {s \in Records : s.claim # None /\ Namespace[s.claim] # ns}}
                    IN  Held(ns, {ClaimPath(c) : c \in {d \in StableClaims : Namespace[d] = ns}} \ others)
  BY DEF RollupHoldsItsVolumes
<1> DEFINE others == {Key(r) : r \in {s \in Records : s.claim # None /\ Namespace[s.claim] # ns}}
           S == {ClaimPath(c) : c \in {d \in StableClaims : Namespace[d] = ns}} \ others
           all == UNION {OnDevice(stable.files, n) : n \in S}
<1>1. TypeOK /\ answer.rollup[ns] = Rollup(ns)  BY AtTheEnd DEF IInv
<1>2. \A r \in Members(ns) : ~Short(r)  BY <1>1 DEF Rollup
<1>3. ASSUME NEW r \in Members(ns), Key(r) # None
      PROVE  IsScanned(r) /\ Key(r) \in Scanned /\ ~scans[Key(r)].partial
  <2>1. Key(r) = Candidate(r) /\ Candidate(r) # None  BY <1>3 DEF Key, Beneath
  <2>2. Status(r) # "path_limit" /\ Status(r) # "partial"  BY <1>2 DEF Short
  <2>3. IsScanned(r)  BY <1>3, <2>1, <2>2 DEF Status
  <2>4. ~scans[Key(r)].partial  BY <1>3, <2>1, <2>2, <2>3 DEF Status
  <2>5. Key(r) \in Scanned  BY <1>1, <1>3, <2>3, PathFacts DEF Scanned, IsScanned, Attributed, Members
  <2> QED  BY <2>3, <2>4, <2>5
<1>4. ASSUME NEW n \in S
      PROVE  n \in Counted(ns) /\ OnDevice(stable.files, n) \subseteq Measured[n]
  <2>1. PICK c \in StableClaims : Namespace[c] = ns /\ n = ClaimPath(c)  OBVIOUS
  <2>2. c \in stable.claims  BY DEF StableClaims
  <2>3. PICK r \in Members(ns) : Key(r) = n /\ n \in Attributed
    BY <2>1, <2>2, SteadyRecord
  <2>4. r \in Records /\ r.claim # None /\ n # None  BY <2>3 DEF Members, Attributed
  <2>5. PICK s \in Records : s.claim # None /\ Key(s) = n /\ CountsFor(s)
    BY <1>1, <2>3, <2>4, FirstRecord
  <2>6. s \in Members(ns)  BY <2>5 DEF Members
  <2>7. IsScanned(s) /\ n \in Scanned /\ ~scans[n].partial  BY <1>3, <2>4, <2>5, <2>6
  <2>8. n \in Counted(ns)  BY <2>5, <2>6, <2>7 DEF Counted
  <2>9. OnDevice(stable.files, n) \subseteq Measured[n]
    BY <2>7 DEF IInv, ScanInv, Measured
  <2> QED  BY <2>8, <2>9
<1>5. all \subseteq UnionOf(Measured, Counted(ns))
  <2> HIDE DEF S
  <2> QED  BY <1>4 DEF UnionOf
<1>6. Counted(ns) \in SUBSET Scanned  BY <1>1, CountedFacts
<1>7. /\ IsFiniteSet(UnionOf(Measured, Counted(ns)))
      /\ Cardinality(UnionOf(Measured, Counted(ns))) <= SumFunctionOnSet(Sizes, Counted(ns))
      /\ SumFunctionOnSet(Sizes, Counted(ns)) \in Nat
  BY <1>1, <1>6, SumOfPaths
<1>8. /\ Cardinality(all) <= Cardinality(UnionOf(Measured, Counted(ns)))
      /\ Cardinality(all) \in Nat /\ Cardinality(UnionOf(Measured, Counted(ns))) \in Nat
  <2> HIDE DEF all
  <2> QED  BY <1>5, <1>7, FS_Subset, FS_CardinalityType
<1>9. answer.rollup[ns].used = SumFunctionOnSet(Sizes, Counted(ns))  BY <1>1 DEF Rollup
<1>10. answer.rollup[ns].used >= Cardinality(all)
  <2> HIDE DEF all
  <2> QED  BY <1>7, <1>8, <1>9
<1> QED  BY <1>10 DEF Held

-----------------------------------------------------------------------------
(* No byte is measured twice, and none is counted twice.                      *)
NotNested(S) == \A a, b \in S : a \notin Above[b]

LEMMA PathsApart ==
    ASSUME TypeOK, DiscoverInv, NotNested(Attributed), NotNested(Roots)
    PROVE  NotNested(Paths)
<1> SUFFICES ASSUME NEW m \in Paths, NEW n \in Paths, m \in Above[n] PROVE FALSE
  BY DEF NotNested
<1>1. m \in Nodes /\ n \in Nodes  BY PathFacts
<1>2. n \in Unattributed  BY DEF Paths, NotNested, Unattributed
<1>3. PICK r \in Roots : n \in Children(Nodes, r)  BY <1>2, PathFacts DEF DiscoverInv
<1>4. r \in Above[n] /\ ~\E k \in Above[n] : r \in Above[k]  BY <1>3 DEF Children
<1>5. \E q \in Roots : q \in Above[m]
  <2>1. CASE m \in Attributed
    <3>1. Above[m] \cap Roots # {}  BY <2>1, PathFacts
    <3> QED  BY <3>1
  <2>2. CASE m \in Unattributed  BY <2>2, PathFacts DEF DiscoverInv, Children
  <2> QED  BY <2>1, <2>2 DEF Paths
<1>6. PICK q \in Roots : q \in Above[m]  BY <1>5
<1>7. q \in Above[n]  BY <1>1, <1>6
<1>8. q = r  BY <1>1, <1>4, <1>7 DEF NotNested
<1> QED  BY <1>4, <1>6, <1>8

LEMMA MeasuredApart ==
    ASSUME TypeOK, ScanInv, Scanned \subseteq Paths, NotNested(Paths)
    PROVE  AreDisjoint(Measured, Scanned)
<1> SUFFICES ASSUME NEW x \in Scanned, NEW y \in Scanned, x # y, NEW p \in Measured[x] \cap Measured[y]
             PROVE  FALSE
  BY DEF AreDisjoint
<1>1. p \in Subtree(Nodes, x) /\ p \in Subtree(Nodes, y)  BY DEF ScanInv, Measured
<1>2. p \in Nodes /\ (p = x \/ x \in Above[p]) /\ (p = y \/ y \in Above[p])  BY <1>1 DEF Subtree
<1>3. x \notin Above[y] /\ y \notin Above[x]  BY DEF NotNested
<1> QED  BY <1>2, <1>3

LEMMA CountedApart ==
    ASSUME TypeOK, NEW ns, NEW other, ns # other
    PROVE  Counted(ns) \cap Counted(other) = {}
<1> SUFFICES ASSUME NEW n \in Counted(ns), n \in Counted(other) PROVE FALSE  OBVIOUS
<1>1. PICK r \in Members(ns) : Key(r) = n /\ CountsFor(r)  BY DEF Counted
<1>2. PICK s \in Members(other) : Key(s) = n /\ CountsFor(s)  BY DEF Counted
<1>3. /\ r \in Records /\ r.claim # None /\ Namespace[r.claim] = ns
      /\ s \in Records /\ s.claim # None /\ Namespace[s.claim] = other
  BY DEF Members
<1>4. ~Earlier(r, s) /\ ~Earlier(s, r)  BY <1>1, <1>2, <1>3 DEF CountsFor
<1>5. Rank(r.claim) \in Nat /\ Rank(s.claim) \in Nat  BY <1>3, RecordFacts
<1>6. Rank(r.claim) = Rank(s.claim)  BY <1>4, <1>5 DEF Earlier
<1>7. r.claim = s.claim  BY <1>3, <1>6 DEF Rank
<1> QED  BY <1>3, <1>7

(* Together the namespaces count the measured paths that a claim's record     *)
(* names.                                                                     *)
Owned == {Key(r) : r \in {s \in Records : s.claim # None}}
LEMMA CountedTogether ==
    ASSUME TypeOK
    PROVE  UNION {Counted(ns) : ns \in Namespaces} = Scanned \cap Owned
<1>1. ASSUME NEW ns, NEW n \in Counted(ns) PROVE n \in Scanned \cap Owned
  <2>1. n \in Scanned  BY CountedFacts
  <2>2. PICK r \in Members(ns) : Key(r) = n  BY DEF Counted
  <2> QED  BY <2>1, <2>2 DEF Members, Owned
<1>2. ASSUME NEW n \in Scanned \cap Owned PROVE \E ns \in Namespaces : n \in Counted(ns)
  <2>1. PICK r \in Records : r.claim # None /\ Key(r) = n  BY DEF Owned
  <2>2. PICK s \in Records : s.claim # None /\ Key(s) = Key(r) /\ CountsFor(s)
    BY <2>1, FirstRecord
  <2>3. Namespace[s.claim] \in Namespaces  BY <2>2, RecordFacts
  <2>4. n # None /\ scans[n] # None  BY DEF Scanned
  <2>5. IsScanned(s)  BY <2>1, <2>2, <2>4 DEF IsScanned
  <2>6. s \in Members(Namespace[s.claim])  BY <2>2 DEF Members
  <2>7. n \in Counted(Namespace[s.claim])  BY <2>1, <2>2, <2>5, <2>6 DEF Counted
  <2> QED  BY <2>3, <2>7
<1> QED  BY <1>1, <1>2

LEMMA FiniteNamespaces == IsFiniteSet(Namespaces)
<1> DEFINE f == [c \in Claims |-> Namespace[c]]
<1>1. f = [c \in Claims |-> f[c]] /\ Namespaces = {f[c] : c \in Claims}  BY DEF Namespaces
<1> HIDE DEF f
<1> QED  BY <1>1, FiniteImage

LEMMA OnceFollows == IInv => EachByteOnce
<1> SUFFICES ASSUME IInv, pc = "done", NotNested(Attributed), NotNested(Roots)
             PROVE  SumFunctionOnSet([ns \in Namespaces |-> answer.rollup[ns].used], Namespaces)
                    + SumFunctionOnSet(Sizes, Scanned \ Owned)
                       = Cardinality(UNION {scans[n].what : n \in Scanned})
  BY DEF EachByteOnce, NotNested, Owned
<1> DEFINE f == [ns \in Namespaces |-> answer.rollup[ns].used]
           w == [ns \in Namespaces |-> UnionOf(Measured, Counted(ns))]
           A == UnionOf(Measured, Scanned \cap Owned)
           B == UnionOf(Measured, Scanned \ Owned)
<1>1. TypeOK /\ DiscoverInv /\ ScanInv /\ Scanned \subseteq Paths  BY AtTheEnd DEF IInv
<1>2. AreDisjoint(Measured, Scanned)  BY <1>1, PathsApart, MeasuredApart
<1>3. \A S \in SUBSET Scanned : AreDisjoint(Measured, S)  BY <1>2 DEF AreDisjoint
<1>4. \A ns \in Namespaces : Counted(ns) \in SUBSET Scanned  BY <1>1, CountedFacts
<1>5. ASSUME NEW ns \in Namespaces
      PROVE  IsFiniteSet(w[ns]) /\ f[ns] = Cardinality(w[ns])
  <2>1. answer.rollup[ns].used = SumFunctionOnSet(Sizes, Counted(ns))
    <3>1. answer.rollup[ns] = Rollup(ns)  BY AtTheEnd
    <3> QED  BY <3>1 DEF Rollup
  <2>2. /\ IsFiniteSet(UnionOf(Measured, Counted(ns)))
        /\ SumFunctionOnSet(Sizes, Counted(ns)) = Cardinality(UnionOf(Measured, Counted(ns)))
    BY <1>1, <1>3, <1>4, SumOfPaths
  <2> QED  BY <2>1, <2>2
<1>6. AreDisjoint(w, Namespaces)
  <2> SUFFICES ASSUME NEW ns \in Namespaces, NEW other \in Namespaces, ns # other,
                      NEW p \in w[ns] \cap w[other]
               PROVE  FALSE
    BY DEF AreDisjoint
  <2>1. PICK x \in Counted(ns) : p \in Measured[x]  BY DEF UnionOf
  <2>2. PICK y \in Counted(other) : p \in Measured[y]  BY DEF UnionOf
  <2>3. x # y  BY <1>1, CountedApart
  <2> QED  BY <1>2, <1>4, <2>1, <2>2, <2>3 DEF AreDisjoint
<1>7. UnionOf(w, Namespaces) = A
  <2>1. \A p : p \in UnionOf(w, Namespaces)
                  <=> \E ns \in Namespaces : \E x \in Counted(ns) : p \in Measured[x]
    BY DEF UnionOf
  <2>2. \A p : p \in A <=> \E x \in Scanned \cap Owned : p \in Measured[x]  BY DEF UnionOf
  <2>3. \A x : x \in Scanned \cap Owned <=> \E ns \in Namespaces : x \in Counted(ns)
    BY <1>1, CountedTogether
  <2>4. ASSUME NEW p, p \in UnionOf(w, Namespaces) PROVE p \in A
    <3>1. PICK ns \in Namespaces : \E x \in Counted(ns) : p \in Measured[x]  BY <2>1, <2>4
    <3>2. PICK x \in Counted(ns) : p \in Measured[x]  BY <3>1
    <3> QED  BY <2>2, <2>3, <3>2
  <2>5. ASSUME NEW p, p \in A PROVE p \in UnionOf(w, Namespaces)
    <3>1. PICK x \in Scanned \cap Owned : p \in Measured[x]  BY <2>2, <2>5
    <3>2. PICK ns \in Namespaces : x \in Counted(ns)  BY <2>3
    <3> QED  BY <2>1, <3>1, <3>2
  <2> HIDE DEF A, w
  <2> QED  BY <2>4, <2>5
<1>8. AreSizes(f, w, Namespaces)
  <2> HIDE DEF f, w
  <2> QED  BY <1>5, FiniteNamespaces DEF AreSizes
<1>9. SumFunctionOnSet(f, Namespaces) = Cardinality(A)
  <2> HIDE DEF f, w, A
  <2> QED  BY <1>6, <1>7, <1>8, CardinalitiesAddUp
<1>10. IsFiniteSet(A)  BY <1>1, SumOfPaths
<1>11. IsFiniteSet(B) /\ SumFunctionOnSet(Sizes, Scanned \ Owned) = Cardinality(B)
  BY <1>1, <1>3, SumOfPaths
<1>12. A \cap B = {}
  <2> SUFFICES ASSUME NEW p \in A, p \in B PROVE FALSE  OBVIOUS
  <2>1. PICK x \in Scanned \cap Owned : p \in Measured[x]  BY DEF UnionOf
  <2>2. PICK y \in Scanned \ Owned : p \in Measured[y]  BY DEF UnionOf
  <2> QED  BY <1>2, <2>1, <2>2 DEF AreDisjoint
<1>13. A \cup B = UNION {scans[n].what : n \in Scanned}  BY DEF UnionOf, Measured
<1>14. Cardinality(A \cup B) = Cardinality(A) + Cardinality(B)
  <2> HIDE DEF A, B
  <2>1. Cardinality(A) \in Nat /\ Cardinality(B) \in Nat /\ Cardinality({}) = 0
    BY <1>10, <1>11, FS_CardinalityType, FS_EmptySet
  <2>2. Cardinality(A \cup B) = Cardinality(A) + Cardinality(B) - Cardinality(A \cap B)
    BY <1>10, <1>11, FS_Union
  <2>3. Cardinality(A \cap B) = 0  BY <1>12, <2>1
  <2> QED  BY <2>1, <2>2, <2>3
<1> QED
  <2> HIDE DEF f, A, B
  <2> QED  BY <1>9, <1>11, <1>13, <1>14 DEF f

-----------------------------------------------------------------------------
(* get_k3s_volume_usage, server.py:3035: whatever the cluster does while the  *)
(* call lists, looks up and measures, and whichever request or scan fails,    *)
(* the steps keep the inductive invariant.                                    *)
THEOREM VolumesInvariant == Spec => []IInv
<1> QED  BY Initially, Inductive, PTL DEF Spec

(* The variables have their types; no more children are kept, and no more     *)
(* paths planned and scanned, than limits.paths allows.                       *)
THEOREM VolumesTyped == Spec => []TypeOK
<1>1. IInv => TypeOK  BY DEF IInv
<1> QED  BY <1>1, VolumesInvariant, PTL

(* An answer labelled complete has every file of every volume that was bound  *)
(* beneath the roots from the first request to the last scan, of every        *)
(* directory beneath a root that no volume lies in, and every pod that mounts *)
(* such a claim (docs/host-storage-snapshot.md:31).                           *)
THEOREM CompleteAnswers == Spec => []CompleteCoversVolumes
<1> QED  BY CompleteFollows, VolumesInvariant, PTL

(* If no volume and no root lies within another, the namespaces, the volumes  *)
(* without one and the unattributed directories add up to the files measured, *)
(* whichever claims and volumes name the same path                            *)
(* (docs/k3s-data-sources.md:12).                                             *)
THEOREM BytesOnce == Spec => []EachByteOnce
<1> QED  BY OnceFollows, VolumesInvariant, PTL

(* If the three lists could be read, a namespace labelled complete has no     *)
(* less than what its volumes held all the time, but for those that another   *)
(* namespace names as well.                                                   *)
THEOREM CompleteNamespaces == Spec => []RollupHoldsItsVolumes
<1> QED  BY RollupFollows, VolumesInvariant, PTL
=============================================================================

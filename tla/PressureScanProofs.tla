------------------------- MODULE PressureScanProofs -------------------------
(* What get_pressure_path_usage promises of its answer, for every file system *)
(* and every limit: the entries of all children stay within one budget, no    *)
(* child is cut off by another, and a root without a flag is exact.           *)
EXTENDS PressureScan, CollectionLemmas, SequenceTheorems

(* The paths are those of a tree, and only directories lie above a path.      *)
LEMMA PathFacts ==
    /\ IsForest(Nodes, Above) /\ IsFiniteSet(Nodes)
    /\ \A n \in Nodes : Above[n] \subseteq Dirs /\ Above[n] \subseteq Nodes /\ n \notin Above[n]
    /\ \A n \in Nodes : \A m \in Above[n] : Above[m] \subseteq Above[n]
    /\ \A n \in Nodes : \A m, k \in Above[n] : m = k \/ m \in Above[k] \/ k \in Above[m]
BY TreeAssumption DEF IsForest

LEMMA FamilyFacts ==
    /\ \A c : Family(c) \subseteq Nodes
    /\ \A c \in Nodes : c \in Family(c)
    /\ \A c, d : c \in Family(d) => Family(c) \subseteq Family(d)
    /\ \A c, d \in Nodes : c # d /\ c \notin Above[d] /\ d \notin Above[c]
                              => Family(c) \cap Family(d) = {}
    /\ \A c : IsFiniteSet(Family(c)) /\ Cardinality(Family(c)) \in Nat
<1>1. \A c : Family(c) \subseteq Nodes  BY DEF Family
<1>2. \A c : IsFiniteSet(Family(c)) /\ Cardinality(Family(c)) \in Nat
  BY <1>1, PathFacts, FS_Subset, FS_CardinalityType
<1>3. \A c, d : c \in Family(d) => Family(c) \subseteq Family(d)  BY PathFacts DEF Family
<1>4. \A c, d \in Nodes : c # d /\ c \notin Above[d] /\ d \notin Above[c]
                             => Family(c) \cap Family(d) = {}
  BY PathFacts DEF Family
<1> QED  BY <1>1, <1>2, <1>3, <1>4 DEF Family

(* What lies beneath a set of paths.                                          *)
LEMMA UnderFacts ==
    /\ \A S : Under(S) \subseteq Nodes
    /\ \A S, T : S \subseteq T => Under(S) \subseteq Under(T)
    /\ \A S, T : Under(S \cup T) = Under(S) \cup Under(T)
    /\ \A S : S \cap Dirs = {} => Under(S) = {}
    /\ Under({}) = {}
    /\ \A c \in Nodes : {c} \cup Under({c}) = Family(c)
BY PathFacts DEF Under, Family

(* No path lies beneath two roots.                                            *)
LEMMA RootFacts ==
    /\ ScanRoots \subseteq Nodes
    /\ \A r, s \in ScanRoots : r # s => Family(r) \cap Family(s) = {}
<1>1. ScanRoots \subseteq Configured /\ Configured \subseteq Nodes
  BY CallAssumption DEF ScanRoots
<1>2. \A r, s \in ScanRoots : s \notin Above[r]  BY <1>1 DEF ScanRoots
<1> QED  BY <1>1, <1>2, FamilyFacts

(* What can be read of a path that is not there, and of one that is.          *)
LEMMA SubtreeFacts ==
    ASSUME TypeOK, TreeInv
    PROVE  /\ \A c : Subtree(c) \subseteq Family(c) /\ Subtree(c) \subseteq stable
           /\ \A c, m : m \in Subtree(c) => c \in fs
           /\ \A c, m : m \in Subtree(c) => \A d : m \in Family(d) => m \in Subtree(d) /\ d \notin Foreign
BY DEF TypeOK, TreeInv, Subtree, Family

LEMMA EntriesOf ==
    ASSUME TypeOK, TreeInv, NEW n
    PROVE  /\ Children(n) \subseteq Nodes /\ Children(n) \subseteq Family(n)
           /\ \A c \in Children(n) : n \in Above[c] /\ Above[c] = Above[n] \cup {n}
           /\ Apart(Children(n))
           /\ \A m \in fs : n \in Above[m] => \E c \in Children(n) : m \in Family(c)
<1>1. fs \in SUBSET Nodes /\ \A k \in fs : Above[k] \subseteq fs  BY DEF TypeOK, TreeInv
<1>2. Children(n) = EntriesIn(fs, Above, n)  BY DEF Children, EntriesIn
<1>3. ASSUME NEW c \in Children(n) PROVE c \in fs /\ n \in Above[c] /\ Above[c] = Above[n] \cup {n}
  <2>1. c \in fs /\ n \in Above[c] /\ \A k \in Above[c] : n \notin Above[k]  BY DEF Children
  <2>2. Above[n] \subseteq Above[c] /\ \A k \in Above[c] : k = n \/ k \in Above[n]
    BY <1>1, <2>1, PathFacts
  <2> QED  BY <2>1, <2>2
<1>4. Children(n) \subseteq Nodes /\ Children(n) \subseteq Family(n)  BY <1>1, <1>3 DEF Family
<1>5. Apart(Children(n))
  <2> SUFFICES ASSUME NEW c \in Children(n), NEW d \in Children(n), c \in Above[d] PROVE FALSE
    BY DEF Apart
  <2>1. c \in Above[n] \cup {n} /\ n \in Above[c] /\ c \in Nodes /\ n \in Nodes
    BY <1>3, <1>4, PathFacts
  <2> QED  BY <2>1, PathFacts
<1>6. ASSUME NEW m \in fs, n \in Above[m] PROVE \E c \in Children(n) : m \in Family(c)
  <2>1. \E c \in Children(n) : c = m \/ c \in Above[m]
    BY <1>1, <1>2, <1>6, PathFacts, EntriesCoverAll
  <2> QED  BY <1>1, <2>1 DEF Family
<1> QED  BY <1>3, <1>4, <1>5, <1>6

(* The children of all roots have no path in common.                          *)
LEMMA DiscoveredApart ==
    ASSUME TypeOK, DiscoverInv
    PROVE  /\ Discovered \subseteq Nodes /\ Apart(Discovered)
           /\ \A c, d \in Discovered : c # d => Family(c) \cap Family(d) = {}
           /\ \A c \in Discovered : RootOf(c) \in ScanRoots /\ c \in found[RootOf(c)]
           /\ \A r \in ScanRoots : \A c \in found[r] : c \in Discovered /\ RootOf(c) = r
<1>1. \A r \in ScanRoots : found[r] \subseteq Nodes /\ found[r] \subseteq Family(r) /\ Apart(found[r])
  BY DEF TypeOK, DiscoverInv
<1>2. \A c \in Discovered : \E r \in ScanRoots : c \in found[r]  BY DEF Discovered
<1>3. \A r, s \in ScanRoots : \A c \in found[r], d \in found[s] : r # s => c # d /\ c \notin Above[d]
  <2> SUFFICES ASSUME NEW r \in ScanRoots, NEW s \in ScanRoots, r # s,
                      NEW c \in found[r], NEW d \in found[s]
               PROVE  c # d /\ c \notin Above[d]
    OBVIOUS
  <2>1. Family(r) \cap Family(s) = {}  BY RootFacts
  <2>2. c \in Family(r) /\ d \in Family(s)  BY <1>1
  <2>3. c \in Above[d] => d \in Family(c)  BY <1>1 DEF Family
  <2>4. Family(c) \subseteq Family(r)  BY <2>2, FamilyFacts
  <2> QED  BY <2>1, <2>2, <2>3, <2>4
<1>4. Discovered \subseteq Nodes /\ Apart(Discovered)
  BY <1>1, <1>2, <1>3 DEF Apart
<1>5. \A c, d \in Discovered : c # d => Family(c) \cap Family(d) = {}
  BY <1>4, FamilyFacts DEF Apart
<1>6. \A c \in Discovered : RootOf(c) \in ScanRoots /\ c \in found[RootOf(c)]
  BY <1>2 DEF RootOf
<1>7. \A r \in ScanRoots : \A c \in found[r] : c \in Discovered  BY DEF Discovered
<1>8. \A r \in ScanRoots : \A c \in found[r] : RootOf(c) = r  BY <1>3, <1>6, <1>7
<1> QED  BY <1>4, <1>5, <1>6, <1>7, <1>8

-----------------------------------------------------------------------------
(* The sum of the entries.                                                    *)
LEMMA SumOverAll == \A f : SumFunction(f) = SumFunctionOnSet(f, DOMAIN f)
BY DEF SumFunction, SumFunctionOnSet, FoldFunction

LEMMA EntriesFacts ==
    ASSUME TypeOK
    PROVE  /\ DOMAIN Entries = Nodes /\ \A n \in Nodes : Entries[n] \in Nat
           /\ SumFunction(Entries) = SumFunctionOnSet(Entries, Nodes)
           /\ SumFunction(Entries) \in Nat
           /\ Scanned \subseteq Nodes /\ \A n \in Scanned : scans[n] \in Result
<1>1. Scanned \subseteq Nodes /\ \A n \in Scanned : scans[n] \in Result  BY DEF TypeOK, Scanned
<1>2. DOMAIN Entries = Nodes /\ \A n \in Nodes : Entries[n] \in Nat
  BY <1>1 DEF Entries, Result
<1>3. SumFunction(Entries) = SumFunctionOnSet(Entries, Nodes)  BY <1>2, SumOverAll
<1>4. SumFunctionOnSet(Entries, Nodes) \in Nat
  <2> HIDE DEF Entries
  <2> QED  BY <1>2, PathFacts, SumOfPart
<1> QED  BY <1>1, <1>2, <1>3, <1>4

(* The result of one more child.                                              *)
LEMMA OneScanMore ==
    ASSUME TypeOK, NEW c \in Nodes, c \notin Scanned, NEW r \in Result,
           scans' = [scans EXCEPT ![c] = r]
    PROVE  /\ Scanned' = Scanned \cup {c} /\ scans' \in [Nodes -> Result \cup {None}]
           /\ scans'[c] = r /\ \A d \in Scanned : scans'[d] = scans[d]
           /\ SumFunction(Entries)' = SumFunction(Entries) + r.entries
<1>1. scans \in [Nodes -> Result \cup {None}]  BY DEF TypeOK
<1>2. /\ scans' \in [Nodes -> Result \cup {None}] /\ scans'[c] = r
      /\ \A d \in Nodes \ {c} : scans'[d] = scans[d]
  BY <1>1
<1>3. Scanned' = Scanned \cup {c}  BY <1>2, TreeAssumption DEF Scanned
<1>4. \A d \in Scanned : scans'[d] = scans[d]  BY <1>2 DEF Scanned
<1>5. /\ DOMAIN Entries = Nodes /\ \A n \in Nodes : Entries[n] \in Nat
      /\ SumFunction(Entries) = SumFunctionOnSet(Entries, Nodes)
      /\ SumFunction(Entries) \in Nat
  BY EntriesFacts
<1>6. DOMAIN Entries' = Nodes /\ Entries'[c] = r.entries /\ Entries[c] = 0 /\ r.entries \in Nat
      /\ \A n \in Nodes \ {c} : Entries'[n] = Entries[n]
  BY <1>2, <1>3 DEF Entries, Result
<1>7. SumFunction(Entries)' = SumFunctionOnSet(Entries', Nodes)  BY <1>6, SumOverAll
<1>8. SumFunctionOnSet(Entries', Nodes) = SumFunctionOnSet(Entries, Nodes) + Entries'[c] - Entries[c]
  <2>1. \A n \in Nodes : Entries[n] \in Int /\ Entries'[n] \in Int  BY <1>5, <1>6
  <2> HIDE DEF Entries
  <2> QED  BY <1>6, <2>1, PathFacts, SumOfOneChanged
<1> QED  BY <1>2, <1>3, <1>4, <1>5, <1>6, <1>7, <1>8

-----------------------------------------------------------------------------
LEMMA Initially == Init => IInv
<1> SUFFICES ASSUME Init PROVE IInv  OBVIOUS
<1>1. /\ fault \in FaultChoices /\ limits \in LimitChoices /\ fs = Nodes \ Late /\ churn = 0
      /\ stable = fs /\ expired = FALSE /\ pc = "discover"
      /\ roots = ScanRoots /\ opened = None
      /\ found = [r \in ScanRoots |-> {}] /\ flags = [r \in ScanRoots |-> NoFlags]
      /\ todo = {} /\ slice = 0 /\ child = None /\ stack = <<>> /\ list = {} /\ result = NoResult
      /\ scans = [n \in Nodes |-> None] /\ report = [r \in ScanRoots |-> NoFlags]
      /\ counted = {} /\ late = {}
  BY DEF Init
<1>2. limits.total \in Nat \ {0} /\ limits.max_entries \in Nat \ {0}
  BY <1>1, CallAssumption
<1>3. TypeOK
  <2>1. NoResult \in Result /\ NoFlags \in Flags  BY DEF NoResult, Result, NoFlags, Flags
  <2>2. 0 \in 0 .. MaxChurn /\ 0 \in 0 .. limits.max_entries  BY <1>2, CallAssumption
  <2>3. Cardinality(list) <= 1  BY <1>1, FS_EmptySet
  <2>4. stack \in Seq(Nodes)  BY <1>1
  <2> QED  BY <1>1, <2>1, <2>2, <2>3, <2>4 DEF TypeOK
<1>4. TreeInv  BY <1>1, TreeAssumption DEF TreeInv
<1>5. Scanned = {}  BY <1>1 DEF Scanned
<1>6. DiscoverInv  BY <1>1, <1>5 DEF DiscoverInv, Apart
<1>7. PlanInv  BY <1>1 DEF PlanInv
<1>8. CallInv
  <2>1. ToSet(stack) = {} /\ DOMAIN stack = {}  BY <1>1 DEF ToSet
  <2> QED  BY <1>1, <2>1 DEF CallInv, Apart
<1>9. BudgetInv
  <2>1. DOMAIN Entries = Nodes /\ \A n \in Nodes : Entries[n] = 0  BY <1>5 DEF Entries
  <2>2. SumFunction(Entries) = 0
    <3>1. SumFunction(Entries) = SumFunctionOnSet(Entries, Nodes)  BY <2>1, SumOverAll
    <3> HIDE DEF Entries
    <3> QED  BY <2>1, <3>1, PathFacts, SumOfZeros
  <2>3. Cardinality(counted) = 0 /\ Cardinality(todo) = 0  BY <1>1, FS_EmptySet
  <2> QED  BY <1>1, <1>2, <2>2, <2>3 DEF BudgetInv
<1>10. CoverInv /\ FairInv /\ ReportInv  BY <1>1, <1>5 DEF CoverInv, FairInv, ReportInv
<1> QED  BY <1>3, <1>4, <1>6, <1>7, <1>8, <1>9, <1>10 DEF IInv

(* Nothing but the files may change: what is left of the stable ones is       *)
(* beneath what was found as before.                                          *)
HostChanges ==
    /\ fs' \subseteq Nodes /\ stable' \subseteq fs' /\ stable' \subseteq stable
    /\ (\A n \in fs' : Above[n] \subseteq fs') /\ churn' \in 0 .. MaxChurn
    /\ UNCHANGED <<call, plan, expired, pc, todo, scans, report, counted, late>>

LEMMA HostKeeps == IInv /\ HostChanges => IInv'
<1> SUFFICES ASSUME IInv, HostChanges PROVE IInv'  OBVIOUS
<1>1. UNCHANGED <<child, stack, list, result, fault, limits, roots, opened, found, flags, slice,
                  expired, pc,
                  todo, scans, report, counted, late>>
  BY DEF HostChanges, call, plan
<1>2. \A c : Subtree(c)' \subseteq Subtree(c)  BY DEF HostChanges, Subtree, Family
<1>3. TypeOK'  BY <1>1 DEF IInv, TypeOK, HostChanges
<1>4. TreeInv'  BY DEF TreeInv, HostChanges
<1>5. /\ Scanned' = Scanned /\ Entries' = Entries /\ Discovered' = Discovered
      /\ ScanRest' = ScanRest /\ Left' = Left
  BY <1>1 DEF Scanned, Entries, Discovered, ScanRest, Left, Under
<1>6. DiscoverInv'
  <2>1. ASSUME NEW r \in ScanRoots \ roots, IsClean(flags[r]), NEW m \in Subtree(r)' \ {r}
        PROVE  \E c \in found[r] : m \in Family(c)
    <3>1. m \in Subtree(r) \ {r}  BY <1>2, <2>1
    <3> QED  BY <2>1, <3>1 DEF IInv, DiscoverInv
  <2>2. /\ pc = "discover" => todo = {} /\ child = None /\ counted = {} /\ Scanned = {}
        /\ pc # "discover" => roots = {}
        /\ \A r \in roots : found[r] = {}
        /\ \A r \in ScanRoots : found[r] \subseteq Family(r) /\ Apart(found[r])
    BY DEF IInv, DiscoverInv
  <2> QED  BY <1>1, <1>5, <2>1, <2>2 DEF DiscoverInv, IsClean, Family, Apart
<1>7. PlanInv'  BY <1>1, <1>5 DEF IInv, PlanInv
<1>8. CallInv'  BY <1>1, <1>5 DEF IInv, CallInv, Family, Apart
<1>9. BudgetInv'  BY <1>1, <1>5 DEF IInv, BudgetInv
<1>10. CoverInv'
  <2> DEFINE Now(c) == {m \in stable' \cap Family(c) : (Above[m] \cup {m}) \cap Foreign = {}}
  <2>1. \A c : Now(c) \subseteq Subtree(c)  BY DEF HostChanges, Subtree
  <2>2. \A c \in Scanned : IsClean(scans[c]) => Now(c) \subseteq counted \cup Missed(c, scans[c])
    BY <2>1 DEF IInv, CoverInv
  <2>3. child # None /\ IsClean(result) => Now(child) \subseteq counted \cup ScanRest
    BY <2>1 DEF IInv, CoverInv
  <2> QED  BY <1>1, <1>5, <2>2, <2>3 DEF CoverInv, Missed, IsClean, Subtree, Family
<1>11. FairInv'  BY <1>1, <1>5 DEF IInv, FairInv, Family
<1>12. ReportInv'  BY <1>1 DEF IInv, ReportInv, RootFlags
<1> QED  BY <1>3, <1>4, <1>6, <1>7, <1>8, <1>9, <1>10, <1>11, <1>12 DEF IInv

LEMMA VanishKeeps == IInv /\ Vanish => IInv'
<1> SUFFICES ASSUME IInv, Vanish PROVE HostChanges  BY HostKeeps
<1>1. PICK n \in fs : LET gone == {m \in fs : m = n \/ n \in Above[m]} IN
         fs' = fs \ gone /\ stable' = stable \ gone
  BY DEF Vanish
<1>2. TypeOK /\ TreeInv  BY DEF IInv
<1>3. churn' \in 0 .. MaxChurn
      /\ UNCHANGED <<call, plan, expired, pc, todo, scans, report, counted, late>>
  BY <1>2, CallAssumption DEF Vanish, TypeOK
<1>4. ASSUME NEW m \in fs', NEW k \in Above[m] PROVE k \in fs'
  BY <1>1, <1>2, <1>4, PathFacts DEF TypeOK, TreeInv
<1> QED  BY <1>1, <1>2, <1>3, <1>4 DEF HostChanges, TypeOK

LEMMA AppearKeeps == IInv /\ Appear => IInv'
<1> SUFFICES ASSUME IInv, Appear PROVE HostChanges  BY HostKeeps
<1>1. PICK n \in Late \ fs : Above[n] \subseteq fs /\ fs' = fs \cup {n}  BY DEF Appear
<1>2. TypeOK /\ TreeInv  BY DEF IInv
<1>3. churn' \in 0 .. MaxChurn /\ stable' = stable
      /\ UNCHANGED <<call, plan, expired, pc, todo, scans, report, counted, late>>
  BY <1>2, CallAssumption DEF Appear, TypeOK
<1> QED  BY <1>1, <1>2, <1>3, TreeAssumption DEF HostChanges, TypeOK, TreeInv

(* A child that is out of time is known to be.                                *)
LEMMA ExpireKeeps ==
    ASSUME IInv, Expire \/ UNCHANGED vars
    PROVE  IInv'
<1>1. /\ UNCHANGED <<host, call, plan, pc, todo, scans, report, counted>>
      /\ expired' \in BOOLEAN /\ late \subseteq late' /\ late' \subseteq Nodes
      /\ child # None /\ child \notin late' => ~expired'
  <2>1. CASE Expire  BY <2>1 DEF Expire, IInv, TypeOK
  <2>2. CASE UNCHANGED vars  BY <2>2 DEF vars, IInv, TypeOK, FairInv
  <2> QED  BY <2>1, <2>2
<1>2. UNCHANGED <<fs, churn, stable, child, stack, list, result, fault, limits, roots, opened,
                  found, flags,
                  slice, pc, todo, scans, report, counted>>
  BY <1>1 DEF host, call, plan
<1>3. /\ Scanned' = Scanned /\ Entries' = Entries /\ Discovered' = Discovered
      /\ ScanRest' = ScanRest /\ Left' = Left
  BY <1>2 DEF Scanned, Entries, Discovered, ScanRest, Left, Under
<1>4. TypeOK' /\ TreeInv'  BY <1>1, <1>2 DEF IInv, TypeOK, TreeInv
<1>5. DiscoverInv' /\ PlanInv'
  BY <1>2, <1>3 DEF IInv, DiscoverInv, PlanInv, Subtree, Family, Apart, IsClean
<1>6. CallInv' /\ BudgetInv'  BY <1>2, <1>3 DEF IInv, CallInv, BudgetInv, Family, Apart
<1>7. CoverInv'  BY <1>2, <1>3 DEF IInv, CoverInv, Missed, Subtree, Family, IsClean
<1>8. FairInv'  BY <1>1, <1>2, <1>3 DEF IInv, FairInv, Family
<1>9. ReportInv'  BY <1>2 DEF IInv, ReportInv, RootFlags
<1> QED  BY <1>4, <1>5, <1>6, <1>7, <1>8, <1>9 DEF IInv

-----------------------------------------------------------------------------
(* A missing path is no error; every other answer but ok is.                  *)
LEMMA Answers ==
    \A n : /\ Lstat(n) \in {"ok", "missing", "denied", "error"}
           /\ Scandir(n) \in {"ok", "missing", "denied", "error"}
           /\ Lstat(n) = "ok" => n \in fs
           /\ Lstat(n) # "ok" /\ ~Refuses(Lstat(n)) => n \notin fs
           /\ Scandir(n) # "ok" /\ ~Refuses(Scandir(n)) => n \notin fs
           /\ Refuses(Lstat(n)) \in BOOLEAN /\ Refuses(Scandir(n)) \in BOOLEAN
BY DEF Lstat, Scandir, Refuses

(* Before the plan nothing was scanned.                                       *)
LEMMA WhileDiscovering ==
    ASSUME IInv, pc = "discover"
    PROVE  /\ todo = {} /\ child = None /\ counted = {} /\ Scanned = {}
           /\ stack = <<>> /\ list = {}
BY DEF IInv, DiscoverInv, CallInv

(* One root more is discovered, and without a flag everything beneath it that *)
(* stays is beneath one of its children.                                      *)
LEMMA FindsKeeps ==
    ASSUME IInv, pc = "discover", NEW r \in roots, NEW part,
           NEW refused \in BOOLEAN, NEW truncated \in BOOLEAN, Finds(r, part, refused, truncated),
           UNCHANGED <<host, call, fault, limits, slice, expired, pc, todo, scans>>,
           UNCHANGED <<report, counted, late>>,
           part \subseteq Nodes, part \subseteq Family(r), Apart(part),
           ~refused /\ ~truncated => \A m \in Subtree(r) \ {r} : \E c \in part : m \in Family(c)
    PROVE  IInv'
<1>2. UNCHANGED <<fs, churn, stable, child, stack, list, result, fault, limits, slice, expired, pc,
                  todo, scans, report, counted, late>>
  BY DEF host, call
<1>3. TypeOK /\ TreeInv /\ DiscoverInv /\ PlanInv /\ CallInv /\ BudgetInv /\ CoverInv /\ FairInv
  BY DEF IInv
<1>4. roots' = roots \ {r} /\ opened' = None  BY DEF Finds
<1>5. roots \subseteq ScanRoots /\ r \in ScanRoots
      /\ found \in [ScanRoots -> SUBSET Nodes] /\ flags \in [ScanRoots -> Flags]
  BY <1>3 DEF TypeOK
<1>9. /\ found' \in [ScanRoots -> SUBSET Nodes] /\ found'[r] = part
      /\ flags' \in [ScanRoots -> Flags]
      /\ flags'[r].refused = refused /\ flags'[r].truncated = truncated
      /\ \A s \in ScanRoots \ {r} : found'[s] = found[s] /\ flags'[s] = flags[s]
  BY <1>5 DEF Finds, Flags
<1>10. TypeOK' /\ TreeInv'  BY <1>2, <1>3, <1>4, <1>9 DEF TypeOK, TreeInv
<1>11. /\ todo = {} /\ child = None /\ counted = {} /\ Scanned = {}
       /\ stack = <<>> /\ list = {}
  BY WhileDiscovering
<1>12. /\ Scanned' = Scanned /\ Entries' = Entries /\ ScanRest' = ScanRest /\ Left' = Left
  BY <1>2 DEF Scanned, Entries, ScanRest, Left, Under
<1>13. DiscoverInv'
  <2> DEFINE Now(d) == {m \in stable \cap Family(d) : (Above[m] \cup {m}) \cap Foreign = {}}
             Clean(s) == ~flags'[s].refused /\ ~flags'[s].truncated
  <2>1. ASSUME NEW s \in ScanRoots \ roots', Clean(s)
        PROVE  \A m \in Now(s) \ {s} : \E c \in found'[s] : m \in Family(c)
    <3>1. CASE s = r  BY <1>9, <2>1, <3>1 DEF Subtree
    <3>2. CASE s # r
      <4>1. s \in ScanRoots \ roots /\ found'[s] = found[s] /\ IsClean(flags[s])
        BY <1>4, <1>9, <2>1, <3>2 DEF IsClean
      <4> QED  BY <1>3, <4>1 DEF DiscoverInv, Subtree
    <3> QED  BY <3>1, <3>2
  <2>2. \A s \in ScanRoots : found'[s] \subseteq Family(s) /\ Apart(found'[s])
    BY <1>3, <1>9 DEF DiscoverInv
  <2>3. \A s \in roots' : found'[s] = {}  BY <1>3, <1>4, <1>5, <1>9 DEF DiscoverInv
  <2> QED
    BY <1>2, <1>11, <1>12, <2>1, <2>2, <2>3 DEF DiscoverInv, IsClean, Subtree, Family, Apart
<1>14. PlanInv'  BY <1>2, <1>11 DEF PlanInv
<1>15. CallInv' /\ BudgetInv'  BY <1>2, <1>3, <1>12 DEF CallInv, BudgetInv, Family, Apart
<1>16. CoverInv' /\ FairInv' /\ ReportInv'
  BY <1>2, <1>11, <1>12 DEF CoverInv, FairInv, ReportInv
<1> QED  BY <1>10, <1>13, <1>14, <1>15, <1>16 DEF IInv

LEMMA DiscoverRootKeeps == IInv /\ DiscoverRoot => IInv'
<1> SUFFICES ASSUME IInv, DiscoverRoot PROVE IInv'  OBVIOUS
<1>1. /\ pc = "discover"
      /\ UNCHANGED <<host, call, fault, limits, slice, expired, pc, todo, scans, report, counted,
                     late>>
  BY DEF DiscoverRoot
<1>2. PICK r \in roots :
        \/ Lstat(r) # "ok" /\ Finds(r, {}, Refuses(Lstat(r)), FALSE)
        \/ Lstat(r) = "ok" /\ r \notin Dirs /\ Finds(r, {r}, FALSE, FALSE)
        \/ opened' = r /\ UNCHANGED <<roots, found, flags>>
  BY DEF DiscoverRoot
<1>3. TypeOK /\ TreeInv  BY DEF IInv
<1>4. r \in Nodes  BY <1>2, <1>3, RootFacts DEF TypeOK
<1>5. CASE Lstat(r) # "ok" /\ Finds(r, {}, Refuses(Lstat(r)), FALSE)
  <2>1. Refuses(Lstat(r)) \in BOOLEAN /\ (~Refuses(Lstat(r)) => r \notin fs)  BY <1>5, Answers
  <2>2. r \notin fs => Subtree(r) = {}  BY <1>3, SubtreeFacts
  <2>3. PICK refused \in BOOLEAN : refused = Refuses(Lstat(r))  BY <2>1
  <2>4. Finds(r, {}, refused, FALSE) /\ Apart({})  BY <1>5, <2>3 DEF Apart
  <2>5. ~refused => Subtree(r) = {}  BY <2>1, <2>2, <2>3
  <2> QED  BY <1>1, <1>2, <2>4, <2>5, FindsKeeps
<1>6. CASE Lstat(r) = "ok" /\ r \notin Dirs /\ Finds(r, {r}, FALSE, FALSE)
  <2>1. Subtree(r) \ {r} = {}  BY <1>6, PathFacts DEF Subtree, Family
  <2>2. Apart({r}) /\ {r} \subseteq Family(r) /\ {r} \subseteq Nodes
    BY <1>4, PathFacts, FamilyFacts DEF Apart
  <2> QED  BY <1>1, <1>2, <1>6, <2>1, <2>2, FindsKeeps
<1>7. CASE opened' = r /\ UNCHANGED <<roots, found, flags>>
  <2>1. UNCHANGED <<fs, churn, stable, child, stack, list, result, fault, limits, slice, expired,
                    pc,
                    todo, scans, report, counted, late, roots, found, flags>>
    BY <1>1, <1>7 DEF host, call
  <2>2. /\ Scanned' = Scanned /\ Entries' = Entries /\ Discovered' = Discovered
        /\ ScanRest' = ScanRest /\ Left' = Left
    BY <2>1 DEF Scanned, Entries, Discovered, ScanRest, Left, Under
  <2>3. TypeOK' /\ TreeInv'  BY <1>2, <1>3, <1>7, <2>1 DEF TypeOK, TreeInv
  <2>4. DiscoverInv' /\ PlanInv'
    BY <2>1, <2>2 DEF IInv, DiscoverInv, PlanInv, Subtree, Family, Apart, IsClean
  <2>5. CallInv' /\ BudgetInv'  BY <2>1, <2>2 DEF IInv, CallInv, BudgetInv, Family, Apart
  <2>6. CoverInv' /\ FairInv'
    BY <2>1, <2>2 DEF IInv, CoverInv, Missed, FairInv, Subtree, Family, IsClean
  <2>7. ReportInv'  BY <2>1 DEF IInv, ReportInv, RootFlags
  <2> QED  BY <2>3, <2>4, <2>5, <2>6, <2>7 DEF IInv
<1> QED  BY <1>2, <1>5, <1>6, <1>7

LEMMA ListRootKeeps == IInv /\ ListRoot => IInv'
<1> SUFFICES ASSUME IInv, ListRoot PROVE IInv'  OBVIOUS
<1> DEFINE r == opened
           less(part) == Cardinality(part) < Cardinality(Children(r))
<1>1. TypeOK /\ TreeInv /\ DiscoverInv  BY DEF IInv
<1>2. /\ r \in roots /\ r \in Nodes /\ pc = "discover"
      /\ UNCHANGED <<host, call, fault, limits, slice, expired, pc, todo, scans, report, counted,
                     late>>
  <2>1. r \in roots  BY <1>1 DEF ListRoot, TypeOK
  <2> QED  BY <1>1, <2>1, RootFacts DEF ListRoot, TypeOK, DiscoverInv
<1>3. PICK part \in SUBSET Children(r) :
         \/ Scandir(r) = "ok" /\ Finds(r, part, FALSE, less(part))
         \/ Scandir(r) # "ok" /\ Finds(r, part, Refuses(Scandir(r)), FALSE)
  BY DEF ListRoot
<1> HIDE DEF r
<1>4. /\ Children(r) \subseteq Nodes /\ Children(r) \subseteq Family(r) /\ Apart(Children(r))
      /\ \A m \in fs : r \in Above[m] => \E c \in Children(r) : m \in Family(c)
  BY <1>1, EntriesOf
<1>5. part \subseteq Nodes /\ part \subseteq Family(r) /\ Apart(part)  BY <1>3, <1>4 DEF Apart
<1>6. CASE Scandir(r) = "ok" /\ Finds(r, part, FALSE, less(part))
  <2>1. IsFiniteSet(Children(r))  BY <1>4, PathFacts, FS_Subset
  <2>2. ~less(part) => part = Children(r)  BY <1>3, <2>1, FS_Subset, FS_CardinalityType
  <2>3. \A m \in Subtree(r) \ {r} : \E c \in Children(r) : m \in Family(c)
    BY <1>1, <1>4 DEF Subtree, Family, TypeOK
  <2>4. PICK truncated \in BOOLEAN : truncated = less(part)
    <3>1. less(part) \in BOOLEAN  OBVIOUS
    <3> HIDE DEF less
    <3> QED  BY <3>1
  <2> HIDE DEF less
  <2>5. Finds(r, part, FALSE, truncated)  BY <1>6, <2>4
  <2>6. ~truncated => \A m \in Subtree(r) \ {r} : \E c \in part : m \in Family(c)
    BY <2>2, <2>3, <2>4
  <2> QED  BY <1>2, <1>5, <2>5, <2>6, FindsKeeps
<1>7. CASE Scandir(r) # "ok" /\ Finds(r, part, Refuses(Scandir(r)), FALSE)
  <2>1. PICK refused \in BOOLEAN : refused = Refuses(Scandir(r))  BY Answers
  <2>2. Finds(r, part, refused, FALSE)  BY <1>7, <2>1
  <2>3. ~refused => Subtree(r) = {}  BY <1>1, <1>7, <2>1, Answers, SubtreeFacts
  <2> QED  BY <1>2, <1>5, <2>2, <2>3, FindsKeeps
<1> QED  BY <1>3, <1>6, <1>7

-----------------------------------------------------------------------------
(* The share of a child is not 0, and all shares are within the total.        *)
LEMMA ShareFacts ==
    ASSUME limits \in LimitChoices, NEW count \in Nat \ {0}, count <= limits.total
    PROVE  /\ EntrySlice(count) \in 1 .. limits.max_entries
           /\ EntrySlice(count) * count <= limits.total
<1>1. limits.total \in Nat \ {0} /\ limits.max_entries \in Nat \ {0}  BY CallAssumption
<1> DEFINE q == limits.total \div count
           share == IF 1 <= q THEN q ELSE 1
           low == IF limits.max_entries <= share THEN limits.max_entries ELSE share
<1>2. q \in Nat /\ q * count <= limits.total
  <2>1. \A t \in Nat, k \in Nat \ {0} : t \div k \in Nat /\ (t \div k) * k <= t  OBVIOUS
  <2> QED  BY <1>1, <2>1
<1>3. EntrySlice(count) = low
  <2>1. Max({1, q}) = share  BY <1>2, MaxOfTwo
  <2>2. Min({limits.max_entries, share}) = low  BY <1>1, <1>2, MinOfTwo
  <2>3. low \in Nat \ {0}  BY <1>1, <1>2
  <2>4. Max({1, low}) = low  BY <2>3, MaxOfTwo
  <2> QED  BY <2>1, <2>2, <2>4 DEF EntrySlice
<1>4. low \in 1 .. limits.max_entries /\ low <= share  BY <1>1, <1>2
<1>5. share * count <= limits.total  BY <1>1, <1>2
<1>6. \A a, b, k \in Nat : a <= b => a * k <= b * k  OBVIOUS
<1>7. low * count <= share * count /\ low * count \in Nat /\ share * count \in Nat
  BY <1>2, <1>4, <1>6
<1> QED  BY <1>1, <1>3, <1>4, <1>5, <1>7

(* The children are in an order, so that the first ones are no more than      *)
(* the budget has entries.                                                    *)
LEMMA FirstAreFew ==
    ASSUME TypeOK, DiscoverInv, NEW total \in Nat
    PROVE  FirstOf(total) \subseteq Discovered /\ Cardinality(FirstOf(total)) <= total
<1> DEFINE R == {p \in Discovered \X Discovered : Precedes(p[1], p[2])}
<1>1. /\ Discovered \subseteq Nodes /\ IsFiniteSet(Discovered)
      /\ \A c \in Discovered : RootOf(c) \in ScanRoots /\ c \in found[RootOf(c)]
  BY DiscoveredApart, PathFacts, FS_Subset
<1>2. \A r \in ScanRoots : r \in Nat /\ found[r] \subseteq Nodes /\ IsFiniteSet(found[r])
  BY RootFacts, PathFacts, TreeAssumption, FS_Subset DEF TypeOK
<1>3. \A c \in Discovered : c \in Nat /\ Round(c) \in Nat /\ RootOf(c) \in Nat
  <2> SUFFICES ASSUME NEW c \in Discovered PROVE Round(c) \in Nat
    BY <1>1, <1>2, TreeAssumption
  <2>1. IsFiniteSet({d \in found[RootOf(c)] : d < c})  BY <1>1, <1>2, FS_Subset
  <2> QED  BY <2>1, FS_CardinalityType DEF Round
<1>4. ASSUME NEW c \in Discovered, NEW d \in Discovered, RootOf(c) = RootOf(d), c < d
      PROVE  Round(c) < Round(d)
  <2> DEFINE C == {x \in found[RootOf(c)] : x < c}
             D == {x \in found[RootOf(d)] : x < d}
  <2>1. C \cup {c} \subseteq D /\ c \notin C
    <3>1. found[RootOf(c)] \subseteq Nat /\ c \in found[RootOf(c)] /\ c \in Nat /\ d \in Nat
      BY <1>1, <1>2, <1>3, TreeAssumption
    <3>2. \A x, y, z \in Nat : x < y /\ y < z => x < z  OBVIOUS
    <3> QED  BY <1>4, <3>1, <3>2
  <2>2. IsFiniteSet(C) /\ IsFiniteSet(D)  BY <1>1, <1>2, FS_Subset
  <2>3. Cardinality(C \cup {c}) = Cardinality(C) + 1  BY <2>1, <2>2, FS_AddElement
  <2>4. Cardinality(C \cup {c}) <= Cardinality(D)  BY <2>1, <2>2, FS_Subset
  <2>5. Round(c) = Cardinality(C) /\ Round(d) = Cardinality(D)  BY DEF Round
  <2> HIDE DEF C, D
  <2> QED  BY <1>3, <2>3, <2>4, <2>5
<1>5. \A c \in Discovered : ~Precedes(c, c)  BY <1>3 DEF Precedes
<1>6. ASSUME NEW c \in Discovered, NEW d \in Discovered, c # d
      PROVE  Precedes(c, d) \/ Precedes(d, c)
  <2>1. CASE RootOf(c) = RootOf(d)  BY <1>3, <1>4, <1>6, <2>1 DEF Precedes
  <2>2. CASE RootOf(c) # RootOf(d)  BY <1>3, <2>2 DEF Precedes
  <2> QED  BY <2>1, <2>2
<1>7. \A a, b, c \in Discovered : Precedes(a, b) /\ Precedes(b, c) => Precedes(a, c)
  BY <1>3 DEF Precedes
<1>8. \A c \in Discovered : {d \in Discovered : <<d, c>> \in R} = {d \in Discovered : Precedes(d, c)}
  OBVIOUS
<1>9. /\ \A a \in Discovered : <<a, a>> \notin R
      /\ \A a, b \in Discovered : a # b => <<a, b>> \in R \/ <<b, a>> \in R
      /\ \A a, b, c \in Discovered : <<a, b>> \in R /\ <<b, c>> \in R => <<a, c>> \in R
  BY <1>5, <1>6, <1>7
<1>10. FirstOf(total) = {c \in Discovered : Cardinality({d \in Discovered : <<d, c>> \in R}) < total}
  BY <1>8 DEF FirstOf
<1> HIDE DEF R
<1> QED  BY <1>1, <1>9, <1>10, FirstOnes

LEMMA PlanKeeps == IInv /\ Plan => IInv'
<1> SUFFICES ASSUME IInv, Plan PROVE IInv'  OBVIOUS
<1>1. /\ pc = "discover" /\ roots = {} /\ pc' = "scan"
      /\ todo' = FirstOf(limits.total)
      /\ slice' = IF todo' = {} THEN 0 ELSE EntrySlice(Cardinality(todo'))
      /\ scans' = [n \in Nodes |-> IF n \in Discovered \ todo' THEN Unscanned ELSE None]
      /\ UNCHANGED <<host, call, fault, limits, roots, opened, found, flags, expired, report,
                     counted, late>>
  BY DEF Plan, Selected
<1>2. UNCHANGED <<fs, churn, stable, child, stack, list, result, fault, limits, roots, opened,
                  found, flags,
                  expired, report, counted, late>>
  BY <1>1 DEF host, call
<1>3. TypeOK /\ TreeInv /\ DiscoverInv /\ PlanInv /\ CallInv /\ BudgetInv /\ CoverInv /\ FairInv
  BY DEF IInv
<1>4. /\ todo = {} /\ child = None /\ counted = {} /\ Scanned = {}
      /\ stack = <<>> /\ list = {}
  BY <1>1, WhileDiscovering
<1>5. limits \in LimitChoices /\ limits.total \in Nat \ {0} /\ limits.max_entries \in Nat \ {0}
  BY <1>3, CallAssumption DEF TypeOK
<1>6. todo' \subseteq Discovered /\ Cardinality(todo') <= limits.total /\ Discovered \subseteq Nodes
  BY <1>1, <1>3, <1>5, FirstAreFew, DiscoveredApart
<1>7. IsFiniteSet(todo') /\ Cardinality(todo') \in Nat /\ (todo' # {} => Cardinality(todo') # 0)
  BY <1>6, PathFacts, FS_Subset, FS_CardinalityType, FS_EmptySet
<1>8. /\ slice' \in 0 .. limits.max_entries /\ slice' * Cardinality(todo') <= limits.total
      /\ todo' # {} => slice' > 0
      /\ slice' * Cardinality(todo') \in Nat
  <2>1. CASE todo' = {}
    <3>1. slice' = 0 /\ Cardinality(todo') = 0  BY <1>1, <2>1, FS_EmptySet
    <3> QED  BY <1>5, <2>1, <3>1
  <2>2. CASE todo' # {}
    <3>1. slice' = EntrySlice(Cardinality(todo')) /\ Cardinality(todo') \in Nat \ {0}
      BY <1>1, <1>7, <2>2
    <3>2. /\ slice' \in 1 .. limits.max_entries /\ slice' * Cardinality(todo') <= limits.total
      BY <1>5, <1>6, <3>1, ShareFacts
    <3>3. \A a, b \in Nat : a * b \in Nat  OBVIOUS
    <3> QED  BY <1>5, <1>7, <3>2, <3>3
  <2> QED  BY <2>1, <2>2
<1>9. /\ Unscanned \in Result /\ Unscanned # None /\ ~IsClean(Unscanned) /\ Unscanned.entries = 0
  <2>1. /\ Unscanned \in Result /\ ~IsClean(Unscanned) /\ Unscanned.entries = 0
    BY DEF Unscanned, NoResult, Result, IsClean
  <2> QED  BY <2>1, TreeAssumption
<1>10. /\ scans' \in [Nodes -> Result \cup {None}]
       /\ Scanned' = Discovered \ todo' /\ \A n \in Scanned' : scans'[n] = Unscanned
  <2> HIDE DEF Unscanned
  <2> QED  BY <1>1, <1>6, <1>9 DEF Scanned
<1>11. SumFunction(Entries)' = 0
  <2>1. DOMAIN Entries' = Nodes /\ \A n \in Nodes : Entries'[n] = 0
    BY <1>9, <1>10 DEF Entries
  <2>2. SumFunction(Entries)' = SumFunctionOnSet(Entries', Nodes)  BY <2>1, SumOverAll
  <2> HIDE DEF Entries
  <2> QED  BY <2>1, <2>2, PathFacts, SumOfZeros
<1>12. TypeOK' /\ TreeInv'
  BY <1>1, <1>2, <1>3, <1>6, <1>8, <1>10 DEF TypeOK, TreeInv
<1>13. Discovered' = Discovered  BY <1>2 DEF Discovered
<1>14. DiscoverInv'
  <2> DEFINE Now(d) == {m \in stable \cap Family(d) : (Above[m] \cup {m}) \cap Foreign = {}}
  <2>1. /\ \A s \in ScanRoots : found[s] \subseteq Family(s) /\ Apart(found[s])
        /\ \A s \in ScanRoots \ roots : IsClean(flags[s]) =>
              \A m \in Now(s) \ {s} : \E c \in found[s] : m \in Family(c)
    BY <1>3 DEF DiscoverInv, Subtree
  <2> QED  BY <1>1, <1>2, <2>1 DEF DiscoverInv, IsClean, Subtree, Family, Apart
<1>15. PlanInv'
  <2>1. Scanned' = Discovered \ (todo' \cup {child})
    <3>1. None \notin Discovered  BY <1>6, TreeAssumption
    <3>2. Discovered \ (todo' \cup {child}) = Discovered \ todo'  BY <1>4, <3>1
    <3> QED  BY <1>10, <3>2
  <2>2. child \notin todo'  BY <1>4, <1>6, TreeAssumption
  <2> QED  BY <1>1, <1>2, <1>4, <1>6, <1>8, <1>13, <2>1, <2>2 DEF PlanInv
<1>16. CallInv'  BY <1>2, <1>3, <1>4 DEF CallInv, Family, Apart
<1>17. BudgetInv'
  <2>1. Cardinality(counted') = 0  BY <1>2, <1>4, FS_EmptySet
  <2> QED  BY <1>2, <1>4, <1>5, <1>8, <1>11, <2>1 DEF BudgetInv
<1>18. CoverInv' /\ FairInv'
  BY <1>2, <1>4, <1>9, <1>10 DEF CoverInv, FairInv, IsClean
<1>19. ReportInv'  BY <1>1 DEF ReportInv
<1> QED  BY <1>12, <1>14, <1>15, <1>16, <1>17, <1>18, <1>19 DEF IInv

LEMMA ReportKeeps == IInv /\ Report => IInv'
<1> SUFFICES ASSUME IInv, Report PROVE IInv'  OBVIOUS
<1>1. /\ pc = "scan" /\ child = None /\ todo = {}
      /\ pc' = "done" /\ report' = [r \in ScanRoots |-> RootFlags(r)]
      /\ UNCHANGED <<host, call, plan, expired, todo, scans, counted, late>>
  BY DEF Report
<1>2. UNCHANGED <<fs, churn, stable, child, stack, list, result, fault, limits, roots, opened,
                  found, flags,
                  slice, expired, todo, scans, counted, late>>
  BY <1>1 DEF host, call, plan
<1>3. TypeOK /\ TreeInv /\ DiscoverInv /\ PlanInv /\ CallInv /\ BudgetInv /\ CoverInv /\ FairInv
  BY DEF IInv
<1>4. /\ Scanned' = Scanned /\ Entries' = Entries /\ Discovered' = Discovered
      /\ ScanRest' = ScanRest /\ Left' = Left
  BY <1>2 DEF Scanned, Entries, Discovered, ScanRest, Left, Under
<1>5. TypeOK'
  <2>1. \A r \in ScanRoots : RootFlags(r) \in Flags
    <3> SUFFICES ASSUME NEW r \in ScanRoots PROVE RootFlags(r) \in Flags  OBVIOUS
    <3>1. flags[r] \in Flags  BY <1>3 DEF TypeOK
    <3> QED  BY <3>1 DEF RootFlags, Flags
  <2>2. report' \in [ScanRoots -> Flags]  BY <1>1, <2>1
  <2> QED  BY <1>1, <1>2, <1>3, <2>2 DEF TypeOK
<1>6. TreeInv'  BY <1>2, <1>3 DEF TreeInv
<1>7. DiscoverInv' /\ PlanInv'
  BY <1>1, <1>2, <1>3, <1>4 DEF DiscoverInv, PlanInv, Subtree, Family, Apart, IsClean
<1>8. CallInv' /\ BudgetInv'  BY <1>2, <1>3, <1>4 DEF CallInv, BudgetInv, Family, Apart
<1>9. CoverInv' /\ FairInv'
  BY <1>2, <1>3, <1>4 DEF CoverInv, Missed, FairInv, Subtree, Family, IsClean
<1>10. ReportInv'  BY <1>1, <1>2 DEF ReportInv, RootFlags
<1> QED  BY <1>5, <1>6, <1>7, <1>8, <1>9, <1>10 DEF IInv

-----------------------------------------------------------------------------
(* The steps of the scan leave the hosts and the plan alone.                  *)
LEMMA ScanFrame ==
    ASSUME IInv, pc = "scan", UNCHANGED <<host, plan, pc, report>>
    PROVE  /\ TreeInv' /\ DiscoverInv' /\ ReportInv' /\ Discovered' = Discovered
           /\ UNCHANGED <<fs, churn, stable, fault, limits, roots, opened, found, flags, slice,
                          pc, report>>
           /\ limits.total \in Nat /\ slice \in Nat
<1>1. UNCHANGED <<fs, churn, stable, fault, limits, roots, opened, found, flags, slice, pc, report>>
  BY DEF host, plan
<1>2. TreeInv' /\ ReportInv' /\ Discovered' = Discovered
  BY <1>1 DEF IInv, TreeInv, ReportInv, Discovered
<1>3. DiscoverInv'  BY <1>1 DEF IInv, DiscoverInv, Subtree, Family, Apart, IsClean
<1>4. limits.total \in Nat /\ limits.max_entries \in Nat  BY CallAssumption DEF IInv, TypeOK
<1> QED  BY <1>1, <1>2, <1>3, <1>4 DEF IInv, TypeOK

LEMMA WhileScanning ==
    ASSUME IInv
    PROVE  /\ list # {} => child # None
           /\ child # None => /\ pc = "scan" /\ child \in Discovered \ (todo \cup Scanned)
                              /\ child \in Nodes
<1>1. TypeOK /\ DiscoverInv /\ PlanInv /\ CallInv /\ ReportInv  BY DEF IInv
<1> QED  BY <1>1, DiscoveredApart DEF TypeOK, DiscoverInv, PlanInv, CallInv, ReportInv

(* What the end of a child has to say of its result.                          *)
Leaves(c, r) ==
    /\ pc = "scan" /\ UNCHANGED <<host, plan, pc, report>>
    /\ c \in Discovered \ Scanned /\ r \in Result
    /\ (child = c \/ (child = None /\ c \in todo)) /\ todo' = todo \ {c}
    /\ child' = None /\ stack' = <<>> /\ list' = {} /\ scans' = [scans EXCEPT ![c] = r]
    /\ result' \in Result /\ expired' \in BOOLEAN /\ late \subseteq late' /\ late' \subseteq Nodes
    /\ counted \subseteq counted' /\ counted' \subseteq counted \cup Family(c)
    /\ r.entries <= slice /\ SumFunction(Entries) + r.entries = Cardinality(counted')
    /\ IsClean(r) => Subtree(c) \subseteq counted' \cup Missed(c, r)
    /\ c \notin late' /\ Cardinality(Family(c)) < slice => ~r.truncated

LEMMA LeavesKeeps == ASSUME IInv, NEW c, NEW r, Leaves(c, r) PROVE IInv'
<1>1. /\ pc = "scan" /\ UNCHANGED <<host, plan, pc, report>>
      /\ c \in Discovered \ Scanned /\ r \in Result
      /\ (child = c \/ (child = None /\ c \in todo)) /\ todo' = todo \ {c}
      /\ child' = None /\ stack' = <<>> /\ list' = {} /\ scans' = [scans EXCEPT ![c] = r]
  BY DEF Leaves
<1>2. /\ result' \in Result /\ expired' \in BOOLEAN /\ late \subseteq late' /\ late' \subseteq Nodes
      /\ counted \subseteq counted' /\ counted' \subseteq counted \cup Family(c)
      /\ r.entries <= slice /\ SumFunction(Entries) + r.entries = Cardinality(counted')
      /\ IsClean(r) => Subtree(c) \subseteq counted' \cup Missed(c, r)
      /\ c \notin late' /\ Cardinality(Family(c)) < slice => ~r.truncated
  BY DEF Leaves
<1>3. TypeOK /\ DiscoverInv /\ PlanInv /\ CallInv /\ BudgetInv /\ CoverInv /\ FairInv  BY DEF IInv
<1>4. /\ TreeInv' /\ DiscoverInv' /\ ReportInv' /\ Discovered' = Discovered
      /\ UNCHANGED <<fs, churn, stable, fault, limits, roots, opened, found, flags, slice, pc,
                     report>>
      /\ limits.total \in Nat /\ slice \in Nat
  BY <1>1, ScanFrame
<1>5. /\ Discovered \subseteq Nodes
      /\ \A a, b \in Discovered : a # b => Family(a) \cap Family(b) = {}
  BY <1>3, DiscoveredApart
<1>6. c \in Nodes /\ None \notin Nodes  BY <1>1, <1>5, TreeAssumption
<1>7. /\ Scanned' = Scanned \cup {c} /\ scans' \in [Nodes -> Result \cup {None}]
      /\ scans'[c] = r /\ \A d \in Scanned : scans'[d] = scans[d]
      /\ SumFunction(Entries)' = SumFunction(Entries) + r.entries
  BY <1>1, <1>3, <1>6, OneScanMore
<1>8. /\ todo \subseteq Discovered /\ child \notin todo
      /\ todo # {} \/ child # None => slice > 0
      /\ Scanned = Discovered \ (todo \cup {child})
  BY <1>1, <1>3 DEF PlanInv
<1>9. TypeOK'
  <2>1. counted' \subseteq Nodes  BY <1>2, <1>3, FamilyFacts DEF TypeOK
  <2>2. Cardinality(list') <= 1  BY <1>1, FS_EmptySet
  <2>3. stack' \in Seq(Nodes)  BY <1>1
  <2> QED  BY <1>1, <1>2, <1>3, <1>4, <1>7, <2>1, <2>2, <2>3 DEF TypeOK
<1>10. PlanInv'  BY <1>1, <1>3, <1>4, <1>5, <1>6, <1>7, <1>8 DEF PlanInv
<1>11. CallInv'
  <2>1. ToSet(stack') = {} /\ DOMAIN stack' = {}  BY <1>1 DEF ToSet
  <2>2. Left' = todo' \cup Under(todo')
    BY <1>1, <2>1, UnderFacts DEF Left, ScanRest, Under
  <2>3. counted \cap (todo' \cup Under(todo')) = {}
    BY <1>1, <1>3, UnderFacts DEF CallInv, Left
  <2>4. ASSUME NEW m \in Family(c), m \in todo' \cup Under(todo') PROVE FALSE
    <3>1. PICK d \in todo' : m = d \/ d \in Above[m]  BY <2>4 DEF Under
    <3>2. m \in Family(d) /\ d \in Discovered /\ d # c
      BY <1>1, <1>8, <3>1, FamilyFacts DEF Family
    <3> QED  BY <1>1, <1>5, <3>2
  <2>5. counted' \cap Left' = {}  BY <1>2, <2>2, <2>3, <2>4
  <2> QED  BY <1>1, <2>1, <2>5 DEF CallInv, Apart
<1>12. BudgetInv'
  <2> DEFINE sum == SumFunction(Entries)
             k == Cardinality(todo')
  <2>1. IsFiniteSet(todo) /\ IsFiniteSet(todo') /\ k \in Nat
    BY <1>1, <1>5, <1>8, PathFacts, FS_Subset, FS_CardinalityType
  <2>2. sum \in Nat /\ r.entries \in Nat  BY <1>1, <1>3, EntriesFacts DEF Result
  <2>3. child = None => Cardinality(todo) = k + 1
    <3> SUFFICES ASSUME child = None PROVE Cardinality(todo) = k + 1  OBVIOUS
    <3>1. todo = todo' \cup {c} /\ c \notin todo'  BY <1>1, <1>6
    <3> QED  BY <2>1, <3>1, FS_AddElement
  <2>4. child # None => todo' = todo  BY <1>1, <1>8
  <2>5. sum + slice * (k + 1) <= limits.total
    BY <1>3, <2>3, <2>4 DEF BudgetInv
  <2>6. \A a, b \in Nat : a * (b + 1) = a * b + a  OBVIOUS
  <2>7. slice * k \in Nat /\ slice * (k + 1) = slice * k + slice  BY <1>4, <2>1, <2>6
  <2>8. sum + r.entries + slice * k <= limits.total
    <3> HIDE DEF sum, k
    <3> QED  BY <1>2, <1>4, <2>1, <2>2, <2>5, <2>7
  <2>9. SumFunction(Entries)' = Cardinality(counted')  BY <1>2, <1>7
  <2>10. SumFunction(Entries)' \in Nat  BY <1>7, <2>2
  <2> QED  BY <1>1, <1>4, <1>7, <2>8, <2>9, <2>10 DEF BudgetInv
<1>13. CoverInv'
  <2> DEFINE Now(d) == {m \in stable \cap Family(d) : (Above[m] \cup {m}) \cap Foreign = {}}
  <2>1. \A d \in Scanned : IsClean(scans[d]) => Now(d) \subseteq counted' \cup Missed(d, scans[d])
    BY <1>2, <1>3 DEF CoverInv, Subtree
  <2>2. IsClean(r) => Now(c) \subseteq counted' \cup Missed(c, r)  BY <1>2 DEF Subtree
  <2>3. \A d \in Scanned' : IsClean(scans'[d]) => Now(d) \subseteq counted' \cup Missed(d, scans'[d])
    BY <1>7, <2>1, <2>2 DEF IsClean
  <2> QED  BY <1>1, <1>4, <2>3 DEF CoverInv, Missed, IsClean, Subtree, Family
<1>14. FairInv'
  <2>1. ASSUME NEW d \in Scanned' \ late', Cardinality(Family(d)) < slice, scans'[d] # Unscanned
        PROVE  ~scans'[d].truncated
    <3>1. CASE d \in Scanned  BY <1>2, <1>3, <1>7, <2>1, <3>1 DEF FairInv
    <3>2. CASE d = c  BY <1>2, <1>7, <2>1, <3>2
    <3> QED  BY <1>7, <2>1, <3>1, <3>2
  <2> QED  BY <1>1, <1>4, <2>1 DEF FairInv, Family
<1> QED  BY <1>4, <1>9, <1>10, <1>11, <1>12, <1>13, <1>14 DEF IInv

-----------------------------------------------------------------------------
(* What a step of the walk that goes on has to say of the paths that are      *)
(* still to be looked at; new are those that it counts.                       *)
WalksOn(new) ==
    /\ UNCHANGED <<host, plan, pc, report, todo, child, scans>> /\ child # None
    /\ stack' \in Seq(Nodes) /\ IsDistinct(stack') /\ list' \subseteq Dirs /\ Cardinality(list') <= 1
    /\ result' \in Result /\ expired' \in BOOLEAN /\ late \subseteq late' /\ late' \subseteq Nodes
    /\ ToSet(stack') \cup list' \subseteq Family(child)
    /\ ToSet(stack') \cap list' = {} /\ Apart(ToSet(stack') \cup list')
    /\ counted' = counted \cup new /\ new \subseteq ScanRest /\ new \cap ScanRest' = {}
    /\ ScanRest' \subseteq ScanRest
    /\ result'.entries < slice
    /\ \/ new = {} /\ result'.entries = result.entries
       \/ result'.entries = result.entries + 1 /\ \E n : new = {n}
    /\ IsClean(result') => IsClean(result) /\ Subtree(child) \cap ScanRest \subseteq new \cup ScanRest'
    /\ child \notin late' => ~expired' /\ ~result'.truncated

LEMMA RestFacts ==
    ASSUME IInv, child # None
    PROVE  /\ ScanRest \subseteq Family(child) /\ counted \cap Left = {}
           /\ (todo \cup Under(todo)) \cap Family(child) = {}
<1>1. TypeOK /\ DiscoverInv /\ PlanInv /\ CallInv  BY DEF IInv
<1>2. ToSet(stack) \cup list \subseteq Family(child) /\ counted \cap Left = {}
  BY <1>1 DEF CallInv
<1>3. ScanRest \subseteq Family(child)
  <2> SUFFICES ASSUME NEW m \in ScanRest PROVE m \in Family(child)  OBVIOUS
  <2>1. PICK k \in ToSet(stack) \cup list : m = k \/ (m \in Nodes /\ k \in Above[m])
    BY DEF ScanRest, Under
  <2>2. k \in Family(child) /\ k \in Nodes  BY <1>2, FamilyFacts
  <2>3. m \in Family(k)  BY <2>1, <2>2 DEF Family
  <2> QED  BY <2>2, <2>3, FamilyFacts
<1>4. ASSUME NEW m \in Family(child), m \in todo \cup Under(todo) PROVE FALSE
  <2>1. PICK d \in todo : m = d \/ d \in Above[m]  BY <1>4 DEF Under
  <2>2. d \in Discovered /\ d # child /\ child \in Discovered  BY <1>1 DEF PlanInv
  <2>3. m \in Family(d)  BY <1>1, <1>4, <2>1, FamilyFacts DEF Family
  <2> QED  BY <1>1, <1>4, <2>2, <2>3, DiscoveredApart
<1> QED  BY <1>2, <1>3, <1>4

LEMMA WalksOnKeeps == ASSUME IInv, NEW new, WalksOn(new) PROVE IInv'
<1>1. /\ UNCHANGED <<host, plan, pc, report, todo, child, scans>> /\ child # None
      /\ stack' \in Seq(Nodes) /\ IsDistinct(stack')
      /\ list' \subseteq Dirs /\ Cardinality(list') <= 1
      /\ result' \in Result /\ expired' \in BOOLEAN /\ late \subseteq late' /\ late' \subseteq Nodes
  BY DEF WalksOn
<1>2. /\ ToSet(stack') \cup list' \subseteq Family(child)
      /\ ToSet(stack') \cap list' = {} /\ Apart(ToSet(stack') \cup list')
      /\ counted' = counted \cup new /\ new \subseteq ScanRest /\ new \cap ScanRest' = {}
      /\ ScanRest' \subseteq ScanRest /\ result'.entries < slice
  BY DEF WalksOn
<1>3. \/ new = {} /\ result'.entries = result.entries
      \/ result'.entries = result.entries + 1 /\ \E n : new = {n}
  BY DEF WalksOn
<1>4. /\ IsClean(result') =>
             IsClean(result) /\ Subtree(child) \cap ScanRest \subseteq new \cup ScanRest'
      /\ child \notin late' => ~expired' /\ ~result'.truncated
  BY DEF WalksOn
<1>5. TypeOK /\ DiscoverInv /\ PlanInv /\ CallInv /\ BudgetInv /\ CoverInv /\ FairInv  BY DEF IInv
<1>6. pc = "scan" /\ child \in Nodes  BY <1>1, WhileScanning
<1>7. /\ TreeInv' /\ DiscoverInv' /\ ReportInv' /\ Discovered' = Discovered
      /\ UNCHANGED <<fs, churn, stable, fault, limits, roots, opened, found, flags, slice, pc,
                     report>>
      /\ limits.total \in Nat /\ slice \in Nat
  BY <1>1, <1>6, ScanFrame
<1>8. /\ ScanRest \subseteq Family(child) /\ counted \cap Left = {}
      /\ (todo \cup Under(todo)) \cap Family(child) = {}
  BY <1>1, RestFacts
<1>9. new \subseteq Family(child) /\ new \subseteq Nodes /\ new \cap counted = {}
  BY <1>2, <1>8, FamilyFacts DEF Left
<1>10. Scanned' = Scanned /\ Entries' = Entries  BY <1>1 DEF Scanned, Entries
<1>11. TypeOK'
  BY <1>1, <1>2, <1>5, <1>7, <1>9 DEF TypeOK
<1>12. PlanInv'  BY <1>1, <1>5, <1>7, <1>10 DEF PlanInv
<1>13. result.entries \in Nat /\ result.entries = Cardinality(counted \cap Family(child))
  BY <1>1, <1>5 DEF CallInv, TypeOK, Result
<1>14. IsFiniteSet(counted) /\ Cardinality(counted) \in Nat
  BY <1>5, PathFacts, FS_Subset, FS_CardinalityType DEF TypeOK
<1>15. /\ result'.entries = Cardinality(counted' \cap Family(child))
       /\ Cardinality(counted') - result'.entries = Cardinality(counted) - result.entries
  <2>1. CASE new = {} /\ result'.entries = result.entries
    <3>1. counted' = counted  BY <1>2, <2>1
    <3> QED  BY <1>13, <2>1, <3>1
  <2>2. CASE result'.entries = result.entries + 1 /\ \E n : new = {n}
    <3>1. PICK n : new = {n}  BY <2>2
    <3>2. n \in Family(child) /\ n \notin counted  BY <1>9, <3>1
    <3>3. counted' = counted \cup {n}
          /\ counted' \cap Family(child) = (counted \cap Family(child)) \cup {n}
      BY <1>2, <3>1, <3>2
    <3>4. IsFiniteSet(counted \cap Family(child))  BY <1>14, FS_Subset
    <3>5. /\ Cardinality(counted') = Cardinality(counted) + 1
          /\ Cardinality(counted' \cap Family(child)) = Cardinality(counted \cap Family(child)) + 1
      BY <1>14, <3>2, <3>3, <3>4, FS_AddElement
    <3> QED  BY <1>13, <1>14, <2>2, <3>5
  <2> QED  BY <1>3, <2>1, <2>2
<1>16. CallInv'
  <2>1. Left' = todo \cup Under(todo) \cup ScanRest'  BY <1>1 DEF Left, Under
  <2>2. counted' \cap Left' = {}
    BY <1>2, <1>8, <1>9, <2>1 DEF Left
  <2>3. Family(child) = {m \in Nodes : m = child' \/ child' \in Above[m]}  BY <1>1 DEF Family
  <2> QED
    BY <1>1, <1>2, <1>7, <1>15, <2>2, <2>3 DEF CallInv, IsDistinct, Apart, Family
<1>17. BudgetInv'
  <2>1. SumFunction(Entries) \in Nat /\ result'.entries \in Nat
    BY <1>1, <1>5, EntriesFacts DEF Result
  <2>2. SumFunction(Entries) + result.entries = Cardinality(counted)
        /\ SumFunction(Entries) + slice * (Cardinality(todo) + 1) <= limits.total
    BY <1>1, <1>5 DEF BudgetInv
  <2>3. Cardinality(counted') \in Nat
    BY <1>11, PathFacts, FS_Subset, FS_CardinalityType DEF TypeOK
  <2>4. SumFunction(Entries) + result'.entries = Cardinality(counted')
    BY <1>13, <1>14, <1>15, <2>1, <2>2, <2>3
  <2> QED  BY <1>1, <1>7, <1>10, <2>2, <2>4 DEF BudgetInv
<1>18. CoverInv'
  <2> DEFINE Now(d) == {m \in stable \cap Family(d) : (Above[m] \cup {m}) \cap Foreign = {}}
  <2>1. \A d \in Scanned : IsClean(scans[d]) => Now(d) \subseteq counted' \cup Missed(d, scans[d])
    BY <1>2, <1>5 DEF CoverInv, Subtree
  <2>2. IsClean(result') => Now(child) \subseteq counted' \cup ScanRest'
    <3> SUFFICES ASSUME IsClean(result'), NEW m \in Subtree(child)
                 PROVE  m \in counted' \cup ScanRest'
      BY DEF Subtree
    <3>1. IsClean(result) /\ Subtree(child) \cap ScanRest \subseteq new \cup ScanRest'  BY <1>4
    <3>2. m \in counted \cup ScanRest  BY <1>1, <1>5, <3>1 DEF CoverInv
    <3> QED  BY <1>2, <3>1, <3>2
  <2> QED  BY <1>1, <1>7, <1>10, <2>1, <2>2 DEF CoverInv, Missed, IsClean, Subtree, Family
<1>19. FairInv'
  <2>1. \A c \in Scanned \ late' :
          scans[c] # Unscanned /\ Cardinality(Family(c)) < slice => ~scans[c].truncated
    BY <1>1, <1>5 DEF FairInv
  <2> QED  BY <1>1, <1>4, <1>7, <1>10, <2>1 DEF FairInv, Family
<1> QED  BY <1>7, <1>11, <1>12, <1>16, <1>17, <1>18, <1>19 DEF IInv

-----------------------------------------------------------------------------
LEMMA StartChildKeeps == IInv /\ StartChild => IInv'
<1> SUFFICES ASSUME IInv, StartChild PROVE IInv'  OBVIOUS
<1>1. PICK c \in todo : \E answer \in Exists(c) :
         /\ todo' = todo \ {c}
         /\ IF answer = "ok" THEN Enter(c) ELSE Leave(c, NotThere(answer))
  BY DEF StartChild
<1>2. /\ pc = "scan" /\ child = None /\ result' = NoResult /\ list' = {} /\ expired' = FALSE
      /\ UNCHANGED <<host, plan, pc, report, counted, late>>
  BY DEF StartChild
<1>3. TypeOK /\ TreeInv /\ DiscoverInv /\ PlanInv /\ CallInv /\ BudgetInv /\ CoverInv /\ FairInv
  BY DEF IInv
<1>4. /\ TreeInv' /\ DiscoverInv' /\ ReportInv' /\ Discovered' = Discovered
      /\ UNCHANGED <<fs, churn, stable, fault, limits, roots, opened, found, flags, slice, pc,
                     report>>
      /\ limits.total \in Nat /\ slice \in Nat
  BY <1>2, ScanFrame
<1>5. /\ todo \subseteq Discovered /\ Scanned = Discovered \ (todo \cup {child}) /\ slice > 0
      /\ Discovered \subseteq Nodes /\ c \in Nodes /\ None \notin Nodes
  BY <1>2, <1>3, DiscoveredApart, TreeAssumption DEF PlanInv
<1>6. NoResult \in Result /\ NoResult.entries = 0 /\ ~NoResult.refused /\ ~NoResult.truncated
  BY DEF NoResult, Result
<1>7. stack = <<>> /\ list = {} /\ counted \cap Left = {}  BY <1>2, <1>3 DEF CallInv
<1>8. SumFunction(Entries) = Cardinality(counted) /\ SumFunction(Entries) \in Nat
      /\ SumFunction(Entries) + slice * Cardinality(todo) <= limits.total
  BY <1>2, <1>3, EntriesFacts DEF BudgetInv
<1>b. PICK answer \in Exists(c) :
         /\ todo' = todo \ {c}
         /\ IF answer = "ok" THEN Enter(c) ELSE Leave(c, NotThere(answer))
  BY <1>1
<1>9. CASE answer # "ok"
  <2> DEFINE r == NotThere(answer)
  <2>1. scans' = [scans EXCEPT ![c] = r] /\ child' = None /\ stack' = <<>>
    BY <1>b, <1>9 DEF Leave
  <2>2. /\ r \in Result /\ r.entries = 0 /\ ~r.truncated /\ ~r.exists
        /\ r.refused = Refuses(answer)
    <3>0. Refuses(answer) \in BOOLEAN  BY DEF Refuses
    <3>1. PICK refused \in BOOLEAN : refused = Refuses(answer)  BY <3>0
    <3>2. r = [NoResult EXCEPT !.exists = FALSE, !.refused = refused]  BY <3>1 DEF NotThere
    <3> HIDE DEF r
    <3> QED  BY <3>1, <3>2 DEF NoResult, Result
  <2>3. IsClean(r) => Subtree(c) \subseteq counted' \cup Missed(c, r)
    <3> SUFFICES ASSUME ~Refuses(answer), NEW m \in Subtree(c) PROVE m \in Links \cap {c}
      BY <2>2 DEF IsClean, Missed
    <3>1. c \in fs  BY <1>3, SubtreeFacts
    <3>2. c \in Links  BY <1>b, <1>9, <3>1, Answers DEF Exists
    <3>3. m = c \/ c \in Above[m]  BY DEF Subtree, Family
    <3>4. c \notin Above[m]  BY <3>2, PathFacts, TreeAssumption DEF Subtree, Family
    <3> QED  BY <3>2, <3>3, <3>4
  <2> HIDE DEF r
  <2>4. Leaves(c, r)
    <3>1. todo' = todo \ {c} /\ c \in Discovered \ Scanned  BY <1>b, <1>5
    <3>2. late \subseteq late' /\ late' \subseteq Nodes  BY <1>2, <1>3 DEF TypeOK
    <3>3. r.entries <= slice /\ SumFunction(Entries) + r.entries = Cardinality(counted')
      BY <1>2, <1>4, <1>8, <2>2
    <3> QED  BY <1>2, <1>6, <2>1, <2>2, <2>3, <3>1, <3>2, <3>3 DEF Leaves
  <2> QED  BY <2>4, LeavesKeeps
<1>10. CASE answer = "ok"
  <2>1. stack' = <<c>> /\ child' = c /\ scans' = scans  BY <1>b, <1>10 DEF Enter
  <2>2. ToSet(stack') = {c} /\ stack' \in Seq(Nodes)  BY <1>5, <2>1 DEF ToSet
  <2>3. Scanned' = Scanned /\ Entries' = Entries  BY <2>1 DEF Scanned, Entries
  <2>4. TypeOK'
    <3>1. Cardinality(list') <= 1  BY <1>2, FS_EmptySet
    <3> QED  BY <1>b, <1>2, <1>3, <1>4, <1>5, <1>6, <2>1, <2>2, <3>1 DEF TypeOK
  <2>5. PlanInv'  BY <1>b, <1>2, <1>3, <1>4, <1>5, <2>1, <2>3 DEF PlanInv
  <2>6. ScanRest' = Family(c)
    BY <1>2, <1>5, <2>2, UnderFacts DEF ScanRest, Under
  <2>7. Left' \subseteq Left
    <3>1. Left' = todo' \cup Under(todo') \cup Family(c)  BY <2>6 DEF Left, Under
    <3>2. Family(c) \subseteq Left  BY FamilyFacts DEF Family, Left, Under
    <3>3. todo' \cup Under(todo') \subseteq Left  BY <1>b, UnderFacts DEF Left
    <3> QED  BY <3>1, <3>2, <3>3
  <2>8. counted \cap Family(c) = {}
    BY <1>7 DEF Family, Left, Under
  <2>9. CallInv'
    <3>1. result'.entries = Cardinality(counted' \cap Family(c)) /\ result'.entries < slice
      BY <1>2, <1>4, <1>5, <1>6, <2>8, FS_EmptySet
    <3>2. Apart(ToSet(stack') \cup list')  BY <1>2, <1>5, <2>2, PathFacts DEF Apart
    <3>3. \A i, j \in DOMAIN stack' : stack'[i] = stack'[j] => i = j  BY <2>1
    <3>4. ToSet(stack') \cup list' \subseteq Family(c)  BY <1>2, <1>5, <2>2, FamilyFacts
    <3>5. counted' \cap Left' = {}  BY <1>2, <1>7, <2>7
    <3> QED
      BY <1>2, <1>4, <1>5, <2>1, <2>2, <3>1, <3>2, <3>3, <3>4, <3>5 DEF CallInv, Family, Apart
  <2>10. BudgetInv'
    <3>1. IsFiniteSet(todo)  BY <1>5, PathFacts, FS_Subset
    <3>2. Cardinality(todo) = Cardinality(todo') + 1
      <4>1. todo = todo' \cup {c} /\ c \notin todo'  BY <1>b
      <4>2. IsFiniteSet(todo')  BY <3>1, <4>1, FS_Subset
      <4> QED  BY <4>1, <4>2, FS_AddElement
    <3> QED  BY <1>b, <1>2, <1>4, <1>5, <1>6, <1>8, <2>1, <2>3, <3>2 DEF BudgetInv
  <2>11. CoverInv'
    <3> DEFINE Now(d) == {m \in stable \cap Family(d) : (Above[m] \cup {m}) \cap Foreign = {}}
    <3>1. \A d \in Scanned : IsClean(scans[d]) => Now(d) \subseteq counted \cup Missed(d, scans[d])
      BY <1>3 DEF CoverInv, Subtree
    <3>2. Now(c) \subseteq ScanRest'  BY <2>6
    <3> QED  BY <1>2, <1>4, <2>1, <2>3, <3>1, <3>2 DEF CoverInv, Missed, IsClean, Subtree, Family
  <2>12. FairInv'
    <3>1. \A d \in Scanned \ late :
            scans[d] # Unscanned /\ Cardinality(Family(d)) < slice => ~scans[d].truncated
      BY <1>3 DEF FairInv
    <3> QED  BY <1>2, <1>4, <1>6, <2>1, <2>3, <3>1 DEF FairInv, Family
  <2> QED  BY <1>4, <2>4, <2>5, <2>9, <2>10, <2>11, <2>12 DEF IInv
<1> QED  BY <1>9, <1>10

LEMMA EndChildKeeps == IInv /\ EndChild => IInv'
<1> SUFFICES ASSUME IInv, EndChild PROVE IInv'  OBVIOUS
<1> DEFINE r == [result EXCEPT !.truncated = @ \/ stack # <<>>]
<1>1. /\ child # None /\ list = {} /\ (stack = <<>> \/ expired)
      /\ scans' = [scans EXCEPT ![child] = r] /\ child' = None /\ stack' = <<>>
      /\ UNCHANGED <<host, plan, list, result, expired, pc, todo, report, counted, late>>
  BY DEF EndChild, Leave
<1>2. TypeOK /\ TreeInv /\ DiscoverInv /\ PlanInv /\ CallInv /\ BudgetInv /\ CoverInv /\ FairInv
  BY DEF IInv
<1>3. pc = "scan" /\ child \in Discovered \ (todo \cup Scanned)  BY <1>1, WhileScanning
<1>4. slice \in Nat  BY <1>1, <1>3, ScanFrame
<1>5. r \in Result /\ r.entries = result.entries /\ r.refused = result.refused
      /\ r.truncated = (result.truncated \/ stack # <<>>)
  BY <1>2 DEF TypeOK, Result
<1>6. result.entries < slice /\ result.entries \in Nat
      /\ SumFunction(Entries) + result.entries = Cardinality(counted)
  BY <1>1, <1>2 DEF CallInv, BudgetInv, TypeOK, Result
<1>7. IsClean(r) => Subtree(child) \subseteq counted
  <2> SUFFICES ASSUME IsClean(r) PROVE Subtree(child) \subseteq counted  OBVIOUS
  <2>1. stack = <<>> /\ IsClean(result)  BY <1>5 DEF IsClean
  <2>2. ToSet(stack) = {}  BY <2>1 DEF ToSet
  <2>3. ScanRest = {}  BY <1>1, <2>2, UnderFacts DEF ScanRest
  <2> QED  BY <1>1, <1>2, <2>1, <2>3 DEF CoverInv
<1>8. child \notin late => ~r.truncated  BY <1>1, <1>2, <1>5 DEF FairInv
<1> HIDE DEF r
<1>9. Leaves(child, r)
  BY <1>1, <1>2, <1>3, <1>4, <1>5, <1>6, <1>7, <1>8 DEF Leaves, TypeOK
<1> QED  BY <1>9, LeavesKeeps

-----------------------------------------------------------------------------
LEMMA VisitKeeps == IInv /\ Visit => IInv'
<1> SUFFICES ASSUME IInv, Visit PROVE IInv'  OBVIOUS
<1> DEFINE n == Last(stack)
           r == [result EXCEPT !.entries = @ + 1]
           open == ToSet(Front(stack))
<1>1. /\ child # None /\ list = {} /\ stack # <<>> /\ ~expired
      /\ UNCHANGED <<host, plan, expired, pc, todo, report, late>>
  BY DEF Visit
<1>2. \/ /\ Lstat(n) # "ok"
         /\ result' = [result EXCEPT !.refused = @ \/ Refuses(Lstat(n))]
         /\ stack' = Front(stack) /\ UNCHANGED <<list, counted, child, scans>>
      \/ /\ Lstat(n) = "ok" /\ n \in Foreign
         /\ stack' = Front(stack) /\ UNCHANGED <<result, list, counted, child, scans>>
      \/ /\ Lstat(n) = "ok" /\ n \notin Foreign /\ counted' = counted \cup {n}
         /\ IF Full(r.entries)
            THEN Leave(child, [r EXCEPT !.truncated = TRUE]) /\ UNCHANGED <<result, list>>
            ELSE /\ result' = r /\ stack' = Front(stack)
                 /\ list' = IF n \in Dirs THEN {n} ELSE {}
                 /\ UNCHANGED <<child, scans>>
  BY DEF Visit
<1>3. TypeOK /\ TreeInv /\ DiscoverInv /\ PlanInv /\ CallInv /\ BudgetInv /\ CoverInv /\ FairInv
  BY DEF IInv
<1>4. pc = "scan" /\ child \in Discovered \ (todo \cup Scanned) /\ child \in Nodes
  BY <1>1, WhileScanning
<1>5. slice \in Nat /\ UNCHANGED <<fs, stable>>  BY <1>1, <1>4, ScanFrame
<1>6. /\ Front(stack) \in Seq(Nodes) /\ IsDistinct(Front(stack)) /\ n \notin open
      /\ ToSet(stack) = open \cup {n} /\ ToSet(stack) \subseteq Nodes /\ n \in Nodes
  BY <1>1, <1>3, PopStack DEF TypeOK, CallInv, IsDistinct
<1>7. ToSet(stack) \subseteq Family(child) /\ Apart(ToSet(stack))
      /\ result.entries = Cardinality(counted \cap Family(child)) /\ result.entries < slice
  BY <1>1, <1>3 DEF CallInv
<1>8. result \in Result /\ result.entries \in Nat  BY <1>3 DEF TypeOK, Result
<1>9. ScanRest = open \cup Under(open) \cup Family(n)
  <2>1. ToSet(stack) \cup list = open \cup {n}  BY <1>1, <1>6
  <2>2. Under(open \cup {n}) = Under(open) \cup Under({n})  BY UnderFacts
  <2>3. {n} \cup Under({n}) = Family(n)  BY <1>6, UnderFacts
  <2> HIDE DEF n, open
  <2> QED  BY <1>6, <2>1, <2>2, <2>3 DEF ScanRest
<1>10. /\ ScanRest \subseteq Family(child) /\ counted \cap ScanRest = {}
  BY <1>1, RestFacts DEF Left
<1>11. (open \cup Under(open)) \cap Family(n) = {}
  <2> SUFFICES ASSUME NEW m \in Family(n), NEW k \in open, m = k \/ k \in Above[m] PROVE FALSE
    BY DEF Under
  <2>1. k # n /\ k \in Nodes /\ k \notin Above[n] /\ n \notin Above[k]  BY <1>6, <1>7 DEF Apart
  <2>2. m \in Family(k) /\ m \in Nodes  BY <2>1, FamilyFacts DEF Family
  <2> QED  BY <1>6, <2>1, <2>2, FamilyFacts
<1>12. /\ open \subseteq Family(child) /\ Apart(open) /\ Cardinality({}) = 0 /\ IsFiniteSet({})
       /\ child \notin late => ~expired /\ ~result.truncated
  BY <1>1, <1>3, <1>6, <1>7, FS_EmptySet DEF Apart, FairInv
<1>13. expired \in BOOLEAN /\ late \subseteq Nodes  BY <1>3 DEF TypeOK
<1> HIDE DEF n, open
(* The path is not counted. *)
<1>14. ASSUME stack' = Front(stack), UNCHANGED <<list, counted, child, scans>>,
              result' \in Result, result'.entries = result.entries,
              result'.truncated = result.truncated,
              IsClean(result') => IsClean(result) /\ Subtree(child) \cap Family(n) = {}
       PROVE  IInv'
  <2>1. ToSet(stack') = open /\ list' = {} /\ ScanRest' = open \cup Under(open)
    BY <1>1, <1>14, UnderFacts DEF ScanRest, open, Under
  <2>2. WalksOn({})
    <3>1. UNCHANGED <<host, plan, pc, report, todo, child, scans>> /\ child # None
      BY <1>1, <1>14
    <3>2. IsClean(result') => IsClean(result) /\ Subtree(child) \cap ScanRest \subseteq ScanRest'
      BY <1>9, <1>14, <2>1
    <3> QED
      BY <1>1, <1>6, <1>7, <1>9, <1>12, <1>13, <1>14, <2>1, <3>1, <3>2 DEF WalksOn
  <2> QED  BY <2>2, WalksOnKeeps
<1>15. CASE /\ Lstat(n) # "ok"
            /\ result' = [result EXCEPT !.refused = @ \/ Refuses(Lstat(n))]
            /\ stack' = Front(stack) /\ UNCHANGED <<list, counted, child, scans>>
  <2>1. /\ result' \in Result /\ result'.entries = result.entries
        /\ result'.truncated = result.truncated
        /\ result'.refused = (result.refused \/ Refuses(Lstat(n)))
    BY <1>8, <1>15, Answers DEF Result
  <2>2. IsClean(result') => IsClean(result) /\ n \notin fs  BY <1>15, <2>1, Answers DEF IsClean
  <2>3. IsClean(result') => Subtree(child) \cap Family(n) = {}  BY <1>3, <2>2, SubtreeFacts
  <2> QED  BY <1>14, <1>15, <2>1, <2>2, <2>3
<1>16. CASE /\ Lstat(n) = "ok" /\ n \in Foreign
            /\ stack' = Front(stack) /\ UNCHANGED <<result, list, counted, child, scans>>
  <2>1. Subtree(child) \cap Family(n) = {}  BY <1>3, <1>16, SubtreeFacts
  <2> QED  BY <1>8, <1>14, <1>16, <2>1
<1>17. CASE /\ Lstat(n) = "ok" /\ n \notin Foreign /\ counted' = counted \cup {n}
            /\ IF Full(r.entries)
               THEN Leave(child, [r EXCEPT !.truncated = TRUE]) /\ UNCHANGED <<result, list>>
               ELSE /\ result' = r /\ stack' = Front(stack)
                    /\ list' = IF n \in Dirs THEN {n} ELSE {}
                    /\ UNCHANGED <<child, scans>>
  <2>1. /\ r \in Result /\ r.entries = result.entries + 1
        /\ r.refused = result.refused /\ r.truncated = result.truncated
    BY <1>8 DEF Result
  <2>2. n \in Family(child) /\ n \notin counted
    BY <1>6, <1>7, <1>9, <1>10, FamilyFacts
  <2>3. CASE Full(r.entries)
    <3> DEFINE q == [r EXCEPT !.truncated = TRUE]
    <3>1. /\ q \in Result /\ q.entries = result.entries + 1 /\ q.truncated
      BY <2>1 DEF Result
    <3>2. result.entries + 1 >= slice  BY <2>1, <2>3 DEF Full
    <3>3. /\ scans' = [scans EXCEPT ![child] = q] /\ child' = None /\ stack' = <<>>
          /\ result' = result /\ list' = {}
      BY <1>1, <1>17, <2>3 DEF Leave
    <3> HIDE DEF q, r
    <3>4. IsFiniteSet(counted) /\ IsFiniteSet(counted \cap Family(child))
      BY <1>3, PathFacts, FS_Subset DEF TypeOK
    <3>5. Cardinality(counted') = Cardinality(counted) + 1
      BY <1>17, <2>2, <3>4, FS_AddElement
    <3>6. SumFunction(Entries) + q.entries = Cardinality(counted')
      <4>1. SumFunction(Entries) + result.entries = Cardinality(counted)
        BY <1>1, <1>3 DEF BudgetInv
      <4>2. SumFunction(Entries) \in Nat  BY <1>3, EntriesFacts
      <4> QED  BY <1>8, <3>1, <3>5, <4>1, <4>2
    <3>7. Cardinality(Family(child)) >= result.entries + 1
      <4>1. (counted \cap Family(child)) \cup {n} \subseteq Family(child)
            /\ n \notin counted \cap Family(child)
        BY <2>2
      <4>2. Cardinality((counted \cap Family(child)) \cup {n}) = result.entries + 1
        BY <1>7, <3>4, <4>1, FS_AddElement
      <4> QED  BY <1>8, <4>1, <4>2, FamilyFacts, FS_Subset
    <3>8. ~(Cardinality(Family(child)) < slice)  BY <1>5, <1>8, <3>2, <3>7, FamilyFacts
    <3>9. Leaves(child, q)
      <4>1. q.entries <= slice  BY <1>5, <1>7, <1>8, <3>1
      <4>2. ~IsClean(q)  BY <3>1 DEF IsClean
      <4>3. todo' = todo \ {child}  BY <1>1, <1>4
      <4> QED
        BY <1>1, <1>4, <1>8, <1>13, <1>17, <2>2, <3>1, <3>3, <3>6, <3>8, <4>1, <4>2, <4>3
        DEF Leaves
    <3> QED  BY <3>9, LeavesKeeps
  <2>4. CASE ~Full(r.entries)
    <3>1. /\ result' = r /\ stack' = Front(stack) /\ UNCHANGED <<child, scans>>
          /\ list' = IF n \in Dirs THEN {n} ELSE {}
      BY <1>17, <2>4
    <3>2. r.entries < slice  BY <1>5, <1>8, <2>1, <2>4 DEF Full
    <3> HIDE DEF r
    <3>3. ToSet(stack') = open  BY <3>1 DEF open
    <3>4. ScanRest' = open \cup Under(open) \cup Under({n})
      <4>1. ScanRest' = open \cup Under(open) \cup Under(list')
        BY <3>3, UnderFacts DEF ScanRest, Under
      <4>2. Under(list') = Under({n})
        <5>1. CASE n \in Dirs  BY <3>1, <5>1
        <5>2. CASE n \notin Dirs  BY <3>1, <5>2, UnderFacts
        <5> QED  BY <5>1, <5>2
      <4> QED  BY <4>1, <4>2
    <3>5. Family(n) = {n} \cup Under({n}) /\ n \notin Under({n})
      BY <1>6, UnderFacts, PathFacts DEF Under
    <3>6. /\ list' \subseteq Dirs /\ list' \subseteq {n} /\ Cardinality(list') <= 1
      <4>1. Cardinality({n}) = 1  BY FS_Singleton
      <4> QED  BY <1>12, <3>1, <4>1
    <3>7. Apart(open \cup list')  BY <1>6, <1>7, <3>6 DEF Apart
    <3>8. {n} \subseteq ScanRest /\ {n} \cap ScanRest' = {} /\ ScanRest' \subseteq ScanRest
      BY <1>9, <1>11, <3>4, <3>5
    <3>9. Subtree(child) \cap ScanRest \subseteq {n} \cup ScanRest'  BY <1>9, <3>4, <3>5
    <3>10. ToSet(stack') \cup list' \subseteq Family(child) /\ ToSet(stack') \cap list' = {}
      BY <1>6, <1>12, <2>2, <3>3, <3>6
    <3>11. UNCHANGED <<host, plan, pc, report, todo, child, scans>> /\ child # None
      BY <1>1, <3>1
    <3>12. WalksOn({n})
      BY <1>1, <1>6, <1>12, <1>13, <1>17, <2>1, <3>1, <3>2, <3>3, <3>6, <3>7, <3>8, <3>9, <3>10,
         <3>11 DEF WalksOn, IsClean
    <3> QED  BY <3>12, WalksOnKeeps
  <2> QED  BY <2>3, <2>4
<1> QED  BY <1>2, <1>15, <1>16, <1>17

-----------------------------------------------------------------------------
LEMMA ListKeeps == IInv /\ List => IInv'
<1> SUFFICES ASSUME IInv, List PROVE IInv'  OBVIOUS
<1> DEFINE Reads(n, part) ==
             \/ /\ Scandir(n) = "ok"
                /\ result' = [result EXCEPT !.truncated = @ \/ part # Children(n)]
                /\ expired' = (expired \/ part # Children(n))
                /\ late' = IF part # Children(n) THEN late \cup {child} ELSE late
             \/ /\ Scandir(n) # "ok"
                /\ result' = [result EXCEPT !.refused = @ \/ Refuses(Scandir(n))]
                /\ UNCHANGED <<expired, late>>
<1>a. PICK n \in list : \E part \in SUBSET Children(n) :
          /\ (expired => part = {}) /\ Reads(n, part)
          /\ \E pushed \in SetToSeqs(part) : stack' = stack \o pushed
  BY DEF List
<1>b. PICK part \in SUBSET Children(n) :
          /\ (expired => part = {}) /\ Reads(n, part)
          /\ \E pushed \in SetToSeqs(part) : stack' = stack \o pushed
  BY <1>a
<1>c. PICK pushed \in SetToSeqs(part) : stack' = stack \o pushed  BY <1>b
<1>1. n \in list /\ part \in SUBSET Children(n) /\ pushed \in SetToSeqs(part)
      /\ (expired => part = {}) /\ stack' = stack \o pushed /\ Reads(n, part)
  BY <1>b, <1>c
<1> HIDE DEF Reads
<1>2. /\ list' = {} /\ list # {}
      /\ UNCHANGED <<host, plan, pc, todo, scans, report, counted, child>>
  BY DEF List
<1>3. TypeOK /\ TreeInv /\ DiscoverInv /\ PlanInv /\ CallInv /\ BudgetInv /\ CoverInv /\ FairInv
  BY DEF IInv
<1>4. child # None /\ pc = "scan" /\ child \in Nodes  BY <1>2, WhileScanning
<1>5. slice \in Nat /\ UNCHANGED <<fs, stable>>  BY <1>2, <1>4, ScanFrame
<1>6. result \in Result /\ result.entries \in Nat /\ result.entries < slice
  BY <1>3, <1>4 DEF TypeOK, Result, CallInv
<1>7. list = {n} /\ n \in Nodes
  <2>1. list \subseteq Nodes /\ Cardinality(list) <= 1  BY <1>3, TreeAssumption DEF TypeOK
  <2>2. IsFiniteSet(list)  BY <2>1, PathFacts, FS_Subset
  <2>3. ASSUME NEW m \in list, m # n PROVE FALSE
    <3>1. IsFiniteSet({n}) /\ Cardinality({n}) = 1  BY FS_Singleton
    <3>2. IsFiniteSet({n} \cup {m}) /\ Cardinality({n} \cup {m}) = 2
      BY <2>3, <3>1, FS_AddElement
    <3>3. Cardinality({n} \cup {m}) <= Cardinality(list)  BY <1>1, <2>2, <2>3, <3>2, FS_Subset
    <3>4. Cardinality(list) \in Nat  BY <2>2, FS_CardinalityType
    <3> HIDE DEF Reads
    <3> QED  BY <2>1, <3>2, <3>3, <3>4
  <2> QED  BY <1>1, <2>1, <2>3
<1>8. /\ Children(n) \subseteq Nodes /\ Children(n) \subseteq Family(n)
      /\ \A c \in Children(n) : n \in Above[c] /\ Above[c] = Above[n] \cup {n}
      /\ Apart(Children(n))
      /\ \A m \in fs : n \in Above[m] => \E c \in Children(n) : m \in Family(c)
  BY <1>3, EntriesOf
<1>9. /\ ToSet(stack) \cup {n} \subseteq Family(child) /\ n \notin ToSet(stack)
      /\ Apart(ToSet(stack) \cup {n}) /\ IsDistinct(stack) /\ stack \in Seq(Nodes)
  BY <1>3, <1>4, <1>7 DEF CallInv, IsDistinct, TypeOK
<1>10. ToSet(stack) \cap part = {}  BY <1>1, <1>8, <1>9 DEF Apart
<1>11. /\ stack' \in Seq(Nodes) /\ ToSet(stack') = ToSet(stack) \cup part /\ IsDistinct(stack')
  <2>1. part \in SUBSET Nodes /\ IsFiniteSet(part)  BY <1>1, <1>8, PathFacts, FS_Subset
  <2> QED  BY <1>1, <1>9, <1>10, <2>1, PushStack
<1>12. Apart(ToSet(stack'))
  <2> SUFFICES ASSUME NEW a \in ToSet(stack) \cup part, NEW b \in ToSet(stack) \cup part
               PROVE  a \notin Above[b]
    BY <1>11 DEF Apart
  <2>1. CASE a \in ToSet(stack) /\ b \in ToSet(stack)  BY <1>9, <2>1 DEF Apart
  <2>2. CASE a \in part /\ b \in part  BY <1>1, <1>8, <2>2 DEF Apart
  <2>3. CASE a \in ToSet(stack) /\ b \in part  BY <1>1, <1>8, <1>9, <2>3 DEF Apart
  <2>4. CASE a \in part /\ b \in ToSet(stack)
    <3>1. n \in Above[a] /\ b \in Nodes  BY <1>1, <1>8, <1>9, <2>4, FamilyFacts
    <3>2. n \notin Above[b]  BY <1>9, <2>4 DEF Apart
    <3> QED  BY <3>1, <3>2, PathFacts
  <2> QED  BY <2>1, <2>2, <2>3, <2>4
<1>13. ToSet(stack') \subseteq Family(child)
  <2>1. Family(n) \subseteq Family(child)  BY <1>9, FamilyFacts
  <2> QED  BY <1>1, <1>8, <1>9, <1>11, <2>1
<1>14. part \cup Under(part) \subseteq Under({n})
  <2>1. part \subseteq Under({n})  BY <1>1, <1>8 DEF Under
  <2>2. Under(part) \subseteq Under({n})  BY <1>1, <1>8, PathFacts DEF Under
  <2> QED  BY <2>1, <2>2
<1>15. /\ ScanRest = ToSet(stack) \cup Under(ToSet(stack)) \cup Under({n})
       /\ ScanRest' = ToSet(stack) \cup Under(ToSet(stack)) \cup part \cup Under(part)
  <2>1. ScanRest' = ToSet(stack') \cup Under(ToSet(stack'))  BY <1>2, UnderFacts DEF ScanRest, Under
  <2> QED  BY <1>7, <1>11, <2>1, UnderFacts DEF ScanRest
<1>16. /\ result' \in Result /\ result'.entries = result.entries /\ expired' \in BOOLEAN
       /\ late \subseteq late' /\ late' \subseteq Nodes
       /\ child \notin late' => ~expired' /\ ~result'.truncated
       /\ IsClean(result') => IsClean(result) /\ (part = Children(n) \/ n \notin fs)
  <2>1. /\ late \subseteq Nodes /\ expired \in BOOLEAN
        /\ child \notin late => ~expired /\ ~result.truncated
    BY <1>3, <1>4 DEF TypeOK, FairInv
  <2>2. CASE /\ Scandir(n) = "ok"
             /\ result' = [result EXCEPT !.truncated = @ \/ part # Children(n)]
             /\ expired' = (expired \/ part # Children(n))
             /\ late' = IF part # Children(n) THEN late \cup {child} ELSE late
    <3>1. /\ result' \in Result /\ result'.entries = result.entries
          /\ result'.refused = result.refused
          /\ result'.truncated = (result.truncated \/ part # Children(n))
      BY <1>6, <2>2 DEF Result
    <3> QED  BY <1>4, <2>1, <2>2, <3>1 DEF IsClean
  <2>3. CASE /\ Scandir(n) # "ok"
             /\ result' = [result EXCEPT !.refused = @ \/ Refuses(Scandir(n))]
             /\ UNCHANGED <<expired, late>>
    <3>1. /\ result' \in Result /\ result'.entries = result.entries
          /\ result'.truncated = result.truncated
          /\ result'.refused = (result.refused \/ Refuses(Scandir(n)))
      BY <1>6, <2>3, Answers DEF Result
    <3> QED  BY <2>1, <2>3, <3>1, Answers DEF IsClean
  <2> QED  BY <1>1, <2>2, <2>3 DEF Reads
<1>17. IsClean(result') => Subtree(child) \cap ScanRest \subseteq ScanRest'
  <2> SUFFICES ASSUME IsClean(result'), NEW m \in Subtree(child), m \in Under({n})
               PROVE  m \in part \cup Under(part)
    BY <1>15
  <2>1. n \in Above[m] /\ m \in Nodes  BY DEF Under
  <2>2. m \in stable /\ n \in fs
    <3>1. m \in Family(n)  BY <2>1 DEF Family
    <3> QED  BY <1>3, <3>1, SubtreeFacts
  <2>3. m \in fs /\ part = Children(n)  BY <1>3, <1>16, <2>2 DEF TypeOK
  <2>4. PICK c \in part : m \in Family(c)  BY <1>8, <2>1, <2>3
  <2> QED  BY <2>1, <2>4 DEF Family, Under
<1>18. WalksOn({})
  <2>1. Cardinality(list') <= 1 /\ list' \subseteq Dirs  BY <1>2, FS_EmptySet
  <2>2. ScanRest' \subseteq ScanRest  BY <1>14, <1>15
  <2>3. UNCHANGED <<host, plan, pc, report, todo, child, scans>> /\ counted' = counted /\ list' = {}
    BY <1>2
  <2> QED
    BY <1>4, <1>6, <1>11, <1>12, <1>13, <1>16, <1>17, <2>1, <2>2, <2>3 DEF WalksOn
<1> QED  BY <1>18, WalksOnKeeps

(* Every step keeps the invariant. *)
LEMMA StepsKeep == IInv /\ [Next]_vars => IInv'
<1> SUFFICES ASSUME IInv, [Next]_vars PROVE IInv'  OBVIOUS
<1>1. CASE DiscoverRoot \/ ListRoot  BY <1>1, DiscoverRootKeeps, ListRootKeeps
<1>2. CASE Plan  BY <1>2, PlanKeeps
<1>3. CASE StartChild  BY <1>3, StartChildKeeps
<1>4. CASE EndChild  BY <1>4, EndChildKeeps
<1>5. CASE Visit  BY <1>5, VisitKeeps
<1>6. CASE List  BY <1>6, ListKeeps
<1>7. CASE Report  BY <1>7, ReportKeeps
<1>8. CASE Vanish  BY <1>8, VanishKeeps
<1>9. CASE Appear  BY <1>9, AppearKeeps
<1>10. CASE Expire \/ UNCHANGED vars  BY <1>10, ExpireKeeps
<1> QED
  BY <1>1, <1>2, <1>3, <1>4, <1>5, <1>6, <1>7, <1>8, <1>9, <1>10 DEF Next, Step

-----------------------------------------------------------------------------
(* The paths that are left are divided over the children and the stack, and   *)
(* what is counted adds up to the results, in every state of a call.          *)
THEOREM InductiveInvariant == Spec => []IInv
<1>1. Init => IInv  BY Initially
<1>2. IInv /\ [Next]_vars => IInv'  BY StepsKeep
<1> QED  BY <1>1, <1>2, PTL DEF Spec

(* The plan, the stack, the results and the flags have the shape that         *)
(* get_pressure_path_usage gives them.                                        *)
THEOREM TypeCorrect == Spec => []TypeOK
BY InductiveInvariant, PTL DEF IInv

(* All children of a request share one traversal cap: their entries add up to *)
(* the paths that were measured, each of them once, and never exceed it.      *)
THEOREM BudgetIsKept == Spec => []TotalBudgetKept
<1>1. IInv => TotalBudgetKept
  <2> SUFFICES ASSUME IInv, child = None
               PROVE  /\ SumFunction(Entries) = Cardinality(counted)
                      /\ SumFunction(Entries) <= limits.total
    BY DEF TotalBudgetKept
  <2>1. TypeOK /\ PlanInv /\ BudgetInv  BY DEF IInv
  <2>2. SumFunction(Entries) \in Nat  BY <2>1, EntriesFacts
  <2>3. slice \in Nat /\ limits.total \in Nat
    <3>1. limits.max_entries \in Nat /\ limits.total \in Nat  BY <2>1, CallAssumption DEF TypeOK
    <3> QED  BY <2>1, <3>1 DEF TypeOK
  <2>4. Cardinality(todo) \in Nat  BY <2>1, PathFacts, FS_Subset, FS_CardinalityType DEF TypeOK
  <2>5. /\ SumFunction(Entries) + 0 = Cardinality(counted)
        /\ SumFunction(Entries) + slice * Cardinality(todo) <= limits.total
    BY <2>1 DEF BudgetInv
  <2>6. slice * Cardinality(todo) \in Nat
    <3>1. \A a, b \in Nat : a * b \in Nat  OBVIOUS
    <3> QED  BY <2>3, <2>4, <3>1
  <2> QED  BY <2>2, <2>3, <2>5, <2>6
<1> QED  BY <1>1, InductiveInvariant, PTL

(* A child is cut off only by its own slice or its own time: whatever its     *)
(* siblings hold, one that fits the slice, was read and was not out of time   *)
(* is measured whole, unless it is a link that leads nowhere.                 *)
THEOREM NoSiblingStarves == Spec => []NoChildIsStarved
<1>1. IInv => NoChildIsStarved
  <2> SUFFICES ASSUME IInv, NEW c \in Scanned \ late, scans[c] # Unscanned, ~scans[c].refused,
                      Cardinality(Family(c)) < slice, scans[c].exists \/ c \notin Links
               PROVE  Subtree(c) \subseteq counted /\ ~scans[c].truncated
    BY DEF NoChildIsStarved
  <2>1. ~scans[c].truncated  BY DEF IInv, FairInv
  <2>2. Missed(c, scans[c]) = {}  BY DEF Missed
  <2> QED  BY <2>1, <2>2 DEF IInv, CoverInv, IsClean
<1> QED  BY <1>1, InductiveInvariant, PTL

(* An answer without a flag for a root is exact: what lay beneath the root    *)
(* all the time was measured, or is a link whose result says that it does not *)
(* exist.                                                                     *)
THEOREM CleanRootsAreExact == Spec => []RootIsExact
<1>1. IInv => RootIsExact
  <2> SUFFICES ASSUME IInv, pc = "done", NEW r \in ScanRoots, report[r] = NoFlags,
                      NEW m \in Subtree(r) \ {r}
               PROVE  m \in counted \cup Broken(r)
    BY DEF RootIsExact
  <2>1. TypeOK /\ TreeInv /\ DiscoverInv /\ PlanInv /\ CoverInv  BY DEF IInv
  <2>2. todo = {} /\ child = None /\ RootFlags(r) = NoFlags  BY DEF IInv, ReportInv
  <2>3. /\ ~flags[r].refused /\ ~flags[r].truncated
        /\ \A c \in found[r] : ~scans[c].refused /\ ~scans[c].truncated
    BY <2>2 DEF RootFlags, NoFlags
  <2>4. r \notin roots /\ Scanned = Discovered \ {None}  BY <2>1, <2>2 DEF DiscoverInv, PlanInv
  <2>5. PICK c \in found[r] : m \in Family(c)
    BY <2>1, <2>3, <2>4 DEF DiscoverInv, IsClean
  <2>6. c \in Scanned /\ IsClean(scans[c])
    BY <2>1, <2>3, <2>4, <2>5, DiscoveredApart, TreeAssumption DEF IsClean
  <2>7. m \in Subtree(c)  BY <2>1, <2>5, SubtreeFacts
  <2>8. m \in counted \cup Missed(c, scans[c])  BY <2>1, <2>6, <2>7 DEF CoverInv
  <2> QED  BY <2>5, <2>8 DEF Missed, Broken
<1> QED  BY <1>1, InductiveInvariant, PTL
=============================================================================

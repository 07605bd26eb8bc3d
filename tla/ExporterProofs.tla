--------------------------- MODULE ExporterProofs ---------------------------
(* Proofs about the three parts of exporter.py.  Exporter, for any sources,   *)
(* signals and intervals: cycles do not overlap, the volume cadence does not  *)
(* depend on what fails, and the exit status of a one-shot export tells       *)
(* whether both signals got through.  ExportPayload, for every cap, length    *)
(* and room: its loops account for everything they drop and drop little.      *)
(* ExportSignals, for every collection of snapshots: the points of a request  *)
(* are of different series, and as many as fit tell of every source.          *)
EXTENDS Exporter, ExportSignals, CollectionLemmas, SequenceTheorems, TLAPS

-----------------------------------------------------------------------------
(* The loops of ExportPayload. *)
(* What one turn of the loop removes: at least one element, and no more than  *)
(* a tenth of the points beyond that.                                         *)
LEMMA RemoveBounds ==
    ASSUME NEW n \in Nat, n > 0
    PROVE  /\ RemoveCount(n) \in 1 .. n
           /\ signal = "logs" => RemoveCount(n) = 1
           /\ RemoveCount(n) = 1 \/ (n >= 10 /\ 10 * RemoveCount(n) <= n)
<1>1. CASE signal = "metrics" /\ n >= 10
  <2>1. RemoveCount(n) = n \div 10  BY <1>1 DEF RemoveCount
  <2>2. n \div 10 \in Nat /\ 10 * (n \div 10) <= n /\ n < 10 * (n \div 10) + 10  BY Z3
  <2> QED  BY <1>1, <2>1, <2>2
<1>2. CASE ~(signal = "metrics" /\ n >= 10)
  BY <1>2 DEF RemoveCount
<1> QED  BY <1>1, <1>2

(* A turn made because kept is past `room` leaves at least `room` records, or *)
(* nine tenths of `room` points.                                              *)
LEMMA ShallowTurn ==
    ASSUME NEW k \in Nat, NEW room \in Int, k > 0, room < k
    PROVE  /\ signal = "logs" => k - RemoveCount(k) >= room
           /\ 10 * (k - RemoveCount(k)) >= 9 * room
<1>1. RemoveCount(k) \in 1 .. k /\ (signal = "logs" => RemoveCount(k) = 1)  BY RemoveBounds
<1>2. CASE RemoveCount(k) = 1
  <2>1. k - 1 >= room  OBVIOUS
  <2>2. CASE room >= 0  BY <1>2, <2>1, <2>2
  <2>3. CASE room < 0  BY <1>1, <2>3
  <2> QED  BY <1>2, <2>1, <2>2, <2>3
<1>3. CASE 10 * RemoveCount(k) <= k /\ RemoveCount(k) # 1  BY <1>1, <1>3
<1> QED  BY <1>2, <1>3, RemoveBounds

(* The same for the points that come first: eighteen are below the length at  *)
(* which a turn removes more than two.                                        *)
LEMMA HealthTurn ==
    ASSUME NEW k \in Nat, NEW h \in Nat, h <= 18, k > h
    PROVE  k - RemoveCount(k) >= h
<1>1. RemoveCount(k) \in 1 .. k  BY RemoveBounds
<1>2. CASE RemoveCount(k) = 1  BY <1>2
<1>3. CASE k >= 10 /\ 10 * RemoveCount(k) <= k
  <2>1. CASE k < 20  BY <1>1, <1>3, <2>1
  <2>2. CASE k >= 20  BY <1>1, <1>3, <2>2
  <2> QED  BY <2>1, <2>2
<1> QED  BY <1>2, <1>3, RemoveBounds

LEMMA PayloadInitially == PayloadInit => PayloadInv
  BY BoundsAssumption DEF PayloadInit, PayloadInv, PayloadTypeOK, NothingUncounted, BodyFits, CutIsShallow, HealthSurvives

LEMMA CapKeeps == PayloadInv /\ Cap => PayloadInv'
<1> SUFFICES ASSUME PayloadInv, Cap PROVE PayloadInv'  OBVIOUS
<1> USE BoundsAssumption DEF Cap
<1>1. PayloadTypeOK  BY DEF PayloadInv
<1>2. kept' \in 0 .. listed /\ kept' = Capped(listed) /\ dropped' = listed - kept'
  BY <1>1 DEF Capped, PayloadTypeOK
<1>3. PayloadTypeOK'  BY <1>1, <1>2 DEF PayloadTypeOK
<1>4. NothingUncounted' /\ BodyFits'  BY <1>1, <1>2 DEF PayloadTypeOK, NothingUncounted, BodyFits
<1>5. CutIsShallow'
  <2>1. Capped(listed)' = Capped(listed)  BY DEF Capped
  <2>2. Least(Capped(listed), fits) <= kept' /\ Least(Capped(listed), fits) \in Int
    BY <1>1, <1>2 DEF Least, PayloadTypeOK
  <2> QED
    <3>1. Least(Capped(listed), fits)' = Least(Capped(listed), fits)  BY <2>1 DEF Least
    <3>2. 10 * kept' >= 9 * Least(Capped(listed), fits)  BY <1>2, <2>2, <1>1 DEF PayloadTypeOK
    <3> QED  BY <3>1, <3>2, <2>2, <1>2, <1>1 DEF CutIsShallow, PayloadTypeOK
<1>6. HealthSurvives'  BY <1>1, <1>2 DEF HealthSurvives, Capped, Least, PayloadTypeOK
<1> QED  BY <1>3, <1>4, <1>5, <1>6 DEF PayloadInv

LEMMA TrimKeeps == PayloadInv /\ Trim => PayloadInv'
<1> SUFFICES ASSUME PayloadInv, Trim PROVE PayloadInv'  OBVIOUS
<1> USE BoundsAssumption
<1>1. PayloadTypeOK /\ kept \in Nat /\ kept > 0 /\ kept > fits /\ fits \in Int /\ listed \in Nat
  BY DEF PayloadInv, PayloadTypeOK, Trim, TooLong
<1>2. RemoveCount(kept) \in 1 .. kept  BY <1>1, RemoveBounds
<1>3. /\ kept' = kept - RemoveCount(kept) /\ dropped' = dropped + RemoveCount(kept)
      /\ UNCHANGED <<signal, listed, fits, pc>> /\ pc = "trim"
  BY DEF Trim, DroppedAfter
<1>4. NothingUncounted'
  BY <1>1, <1>2, <1>3 DEF NothingUncounted, PayloadInv, PayloadTypeOK
<1>5. PayloadTypeOK'  BY <1>1, <1>2, <1>3, <1>4 DEF NothingUncounted, PayloadTypeOK
<1>6. BodyFits'  BY <1>3 DEF BodyFits
<1>7. CutIsShallow'
  <2> DEFINE room == Least(Capped(listed), fits)
  <2>1. room' = room  BY <1>3 DEF Least, Capped
  <2>2. room \in Int /\ room < kept  BY <1>1 DEF Least, Capped
  <2>3. (signal = "logs" => kept' >= room) /\ 10 * kept' >= 9 * room
    BY <1>1, <1>3, <2>2, ShallowTurn
  <2> QED  BY <2>1, <2>3, <1>3 DEF CutIsShallow
<1>8. HealthSurvives'
  <2> DEFINE room == Least(HealthPoints, Least(listed, fits))
  <2>1. room' = room  BY <1>3 DEF Least
  <2>2. room \in Int /\ room <= 18 /\ room < kept  BY <1>1 DEF Least
  <2>3. kept' >= room
    <3>1. CASE room >= 0  BY <1>1, <1>3, <2>2, <3>1, HealthTurn
    <3>2. CASE room < 0  BY <1>1, <1>2, <1>3, <2>2, <3>2
    <3> QED  BY <2>2, <3>1, <3>2
  <2> QED  BY <2>1, <2>3, <1>3 DEF HealthSurvives
<1> QED  BY <1>4, <1>5, <1>6, <1>7, <1>8 DEF PayloadInv

LEMMA StopKeeps == PayloadInv /\ Stop => PayloadInv'
<1> SUFFICES ASSUME PayloadInv, Stop PROVE PayloadInv'  OBVIOUS
<1>1. PayloadTypeOK' /\ NothingUncounted' /\ HealthSurvives'
  BY DEF PayloadInv, Stop, PayloadTypeOK, NothingUncounted, HealthSurvives
<1>2. BodyFits'  BY DEF PayloadInv, Stop, TooLong, PayloadTypeOK, BodyFits
<1>3. CutIsShallow'  BY DEF PayloadInv, Stop, CutIsShallow, Least, Capped
<1> QED  BY <1>1, <1>2, <1>3 DEF PayloadInv

(* The invariant of both loops, every part of it a property of its own. *)
THEOREM PayloadInvariant == PayloadSpec => []PayloadInv
<1>1. PayloadInv /\ [PayloadNext]_payloadVars => PayloadInv'
  <2> SUFFICES ASSUME PayloadInv, [PayloadNext]_payloadVars PROVE PayloadInv'  OBVIOUS
  <2>1. CASE PayloadNext  BY <2>1, CapKeeps, TrimKeeps, StopKeeps DEF PayloadNext
  <2>2. CASE UNCHANGED payloadVars
    BY <2>2 DEF payloadVars, PayloadInv, PayloadTypeOK, NothingUncounted, BodyFits, CutIsShallow, HealthSurvives,
                Least, Capped
  <2> QED  BY <2>1, <2>2
<1> QED  BY <1>1, PayloadInitially, PTL DEF PayloadSpec

(* Types: in particular neither count ever goes negative. *)
THEOREM PayloadTyped == PayloadSpec => []PayloadTypeOK
  BY PayloadInvariant, PTL DEF PayloadInv

(* Every element is sent or counted as dropped. *)
THEOREM PayloadAccounted == PayloadSpec => []NothingUncounted
  BY PayloadInvariant, PTL DEF PayloadInv

(* What is sent fits the cap or is empty. *)
THEOREM PayloadBounded == PayloadSpec => []BodyFits
  BY PayloadInvariant, PTL DEF PayloadInv

(* The loops drop no record that has room, and at most a tenth of the points. *)
THEOREM PayloadCutIsShallow == PayloadSpec => []CutIsShallow
  BY PayloadInvariant, PTL DEF PayloadInv

(* The health points outlast every other point. *)
THEOREM PayloadKeepsHealth == PayloadSpec => []HealthSurvives
  BY PayloadInvariant, PTL DEF PayloadInv

-----------------------------------------------------------------------------
(* The points of a cycle.  A family is what one item is mapped to: points     *)
(* that are labelled as the item is, or with one label more.                  *)
ContentionNames == {"psi.stall", "psi.stall_time", "vm.events", "block_io.bytes",
                    "block_io.operations", "block_io.busy_time"}
KubeletNames == {"kubelet.cpu.usage", "kubelet.memory", "kubelet.filesystem",
                 "kubelet.filesystem.inodes", "kubernetes.pods", "namespace.pods",
                 "namespace.cpu.usage", "namespace.memory.working_set",
                 "namespace.ephemeral_storage.used"}
HealthNames == {"node.schedulable", "node.taints", "node.condition", "events"}
WorkNames == {"jobs", "cronjob.last_success_age", "cronjob.active_jobs", "cronjob.suspended"}
FreshnessNames == {"freshness.healthy", "freshness.age"}
ConditionNames == {"resource.condition"}
FilesystemNames == {"filesystem.bytes", "filesystem.utilization", "filesystem.healthy"}
VolumeNames == {"claim.used", "claim.requested", "claim.capacity", "claim.scan_healthy",
                "claim.finalizers", "claim.condition", "volume.used", "volume.namespace",
                "volume.unattributed_paths", "volume.unattributed_used"}
SourceNames == {"exporter.up", "exporter.cycle.duration", "source.up", "source.errors"}
NamesOf(source) ==
    CASE source = "contention" -> ContentionNames [] source = "kubelet" -> KubeletNames
      [] source = "health" -> HealthNames         [] source = "scheduled_work" -> WorkNames
      [] source = "freshness" -> FreshnessNames   [] source = "conditions" -> ConditionNames
      [] source = "filesystem" -> FilesystemNames [] source = "volumes" -> VolumeNames

(* STRING, and the literals of the mapping, which the provers do not know to  *)
(* be strings.                                                                *)
LabelValues ==
    {"read", "write", "node", "availableBytes", "capacityBytes", "usedBytes", "usageBytes",
     "workingSetBytes", "rssBytes", "inodesFree", "inodes", "inodesUsed", "active", "failed",
     "jobs", "succeeded", "Ready", "total", "free", "available", "reserved", "pressure_used",
     "until_warn", "until_critical", "over_warn", "over_critical", "used_percent",
     "inodes_used_percent", "default", "unbound", "volume_count", "pod_count",
     "truncated_volume_count", "contention", "kubelet", "health", "scheduled_work",
     "freshness", "conditions", "filesystem", "volumes"}
MetricNames == ContentionNames \cup KubeletNames \cup HealthNames \cup WorkNames \cup FreshnessNames
               \cup ConditionNames \cup FilesystemNames \cup VolumeNames \cup SourceNames
Texts == STRING \cup LabelValues \cup MetricNames
TextSeqs == Seq(Texts)

LEMMA LabelTexts ==
    /\ \A a \in STRING : a \in Texts
    /\ \A l \in Labels : l \in TextSeqs
<1> DEFINE S == STRING
<1>1. S \subseteq Texts  BY DEF Texts
<1>2. \A l \in Seq(S) : l \in Seq(Texts)
  <2> HIDE DEF S
  <2> QED  BY <1>1
<1> QED  BY <1>1, <1>2 DEF Labels, TextSeqs

MetricPoints == [name : Texts, labels : TextSeqs, value : {"read", 0, 1}]
SeriesOf == [p \in MetricPoints |-> <<p.name, p.labels>>]
IsBlock(ps, names) ==
    ps \in Seq(MetricPoints) /\ KeysOnce(ps, SeriesOf) /\ \A p \in ToSet(ps) : p.name \in names
IsFamily(ps, plain, longer, l) ==
    /\ ps \in Seq(MetricPoints) /\ KeysOnce(ps, SeriesOf)
    /\ \A p \in ToSet(ps) : \/ p.name \in plain /\ p.labels = l
                            \/ p.name \in longer /\ \E v \in Texts : p.labels = Append(l, v)

LEMMA OfSeq ==
    ASSUME NEW S, NEW s \in Seq(S)
    PROVE  DOMAIN s = 1 .. Len(s) /\ Len(s) \in Nat /\ ToSet(s) \subseteq S
           /\ \A i \in DOMAIN s : s[i] \in S /\ s[i] \in ToSet(s)
BY DEF ToSet

LEMMA OneReading ==
    ASSUME NEW n \in Texts, NEW l \in TextSeqs
    PROVE  Point(n, l) \in MetricPoints /\ IsFamily(<<Point(n, l)>>, {n}, {}, l)
<1> DEFINE p == Point(n, l)
<1>1. p \in MetricPoints /\ p.name = n /\ p.labels = l  BY DEF Point, MetricPoints
<1> HIDE DEF p
<1>2. <<p>> \in Seq(MetricPoints) /\ DOMAIN <<p>> = {1} /\ <<p>>[1] = p  BY <1>1
<1>3. ToSet(<<p>>) = {p}  BY <1>2 DEF ToSet
<1>4. KeysOnce(<<p>>, SeriesOf)  BY <1>2 DEF KeysOnce
<1> QED  BY <1>1, <1>2, <1>3, <1>4 DEF IsFamily, p

LEMMA EachOfIsFamily ==
    ASSUME NEW n \in Texts, NEW l \in TextSeqs, NEW vs \in TextSeqs
    PROVE  /\ EachOf(n, l, vs) \in Seq(MetricPoints)
           /\ IsInjective(vs) => IsFamily(EachOf(n, l, vs), {}, {n}, l)
<1> DEFINE ps == EachOf(n, l, vs)
<1>1. DOMAIN vs = 1 .. Len(vs) /\ Len(vs) \in Nat /\ \A i \in DOMAIN vs : vs[i] \in Texts
  BY OfSeq DEF TextSeqs
<1>2. ASSUME NEW i \in DOMAIN vs
      PROVE  /\ ps[i] \in MetricPoints /\ ps[i].name = n /\ ps[i].labels = Append(l, vs[i])
             /\ Append(l, vs[i]) \in TextSeqs /\ vs[i] \in Texts
  <2>1. vs[i] \in Texts /\ Append(l, vs[i]) \in TextSeqs  BY <1>1 DEF TextSeqs
  <2>2. ps[i] = Point(n, Append(l, vs[i]))  BY DEF EachOf
  <2>3. Point(n, Append(l, vs[i])) \in MetricPoints  BY <2>1, OneReading
  <2> QED  BY <2>1, <2>2, <2>3 DEF Point
<1>3. ps = [i \in 1 .. Len(vs) |-> ps[i]] /\ DOMAIN ps = 1 .. Len(vs)  BY <1>1 DEF EachOf
<1> HIDE DEF ps
<1>4. ps \in Seq(MetricPoints)
  <2>1. ps \in [1 .. Len(vs) -> MetricPoints]  BY <1>1, <1>2, <1>3
  <2> QED  BY <1>1, <2>1
<1>5. ASSUME IsInjective(vs) PROVE KeysOnce(ps, SeriesOf)
  <2> SUFFICES ASSUME NEW i \in DOMAIN vs, NEW j \in DOMAIN vs, SeriesOf[ps[i]] = SeriesOf[ps[j]]
               PROVE  i = j
    BY <1>1, <1>3 DEF KeysOnce
  <2>1. ps[i].labels = ps[j].labels  BY <1>2 DEF SeriesOf
  <2>2. Append(l, vs[i]) = Append(l, vs[j])  BY <1>2, <2>1
  <2>3. vs[i] = vs[j]
    <3>1. l \in Seq(Texts) /\ vs[i] \in Texts /\ vs[j] \in Texts  BY <1>1 DEF TextSeqs
    <3> QED  BY <2>2, <3>1, AppendInjective
  <2> QED  BY <1>5, <2>3 DEF IsInjective
<1>6. \A p \in ToSet(ps) : p.name = n /\ \E v \in Texts : p.labels = Append(l, v)
  BY <1>1, <1>2, <1>3 DEF ToSet
<1> QED  BY <1>4, <1>5, <1>6 DEF IsFamily, ps

(* Points of different names are different series. *)
LEMMA OtherNames ==
    ASSUME NEW p \in MetricPoints, NEW q \in MetricPoints, p.name # q.name \/ p.labels # q.labels
    PROVE  SeriesOf[p] # SeriesOf[q]
BY DEF SeriesOf

LEMMA JoinFamilies ==
    ASSUME NEW ps, NEW qs, NEW N, NEW M, NEW O, NEW P, NEW l,
           IsFamily(ps, N, M, l), IsFamily(qs, O, P, l), (N \cup M) \cap (O \cup P) = {}
    PROVE  IsFamily(ps \o qs, N \cup O, M \cup P, l)
<1>1. /\ ps \in Seq(MetricPoints) /\ qs \in Seq(MetricPoints)
      /\ KeysOnce(ps, SeriesOf) /\ KeysOnce(qs, SeriesOf)
  BY DEF IsFamily
<1>2. ps \o qs \in Seq(MetricPoints) /\ ToSet(ps \o qs) = ToSet(ps) \cup ToSet(qs)
  BY <1>1, JoinSeqs
<1>3. \A x \in ToSet(ps), y \in ToSet(qs) : SeriesOf[x] # SeriesOf[y]
  <2> SUFFICES ASSUME NEW x \in ToSet(ps), NEW y \in ToSet(qs) PROVE SeriesOf[x] # SeriesOf[y]
    OBVIOUS
  <2>1. x \in MetricPoints /\ y \in MetricPoints  BY <1>1, OfSeq
  <2>2. x.name \in N \cup M /\ y.name \in O \cup P  BY DEF IsFamily
  <2> QED  BY <2>1, <2>2, OtherNames
<1>4. KeysOnce(ps \o qs, SeriesOf)  BY <1>1, <1>3, JoinKeys
<1> QED  BY <1>2, <1>4 DEF IsFamily

LEMMA JoinBlocks ==
    ASSUME NEW ps, NEW qs, NEW N, NEW M, IsBlock(ps, N), IsBlock(qs, M), N \cap M = {}
    PROVE  IsBlock(ps \o qs, N \cup M)
<1>1. /\ ps \in Seq(MetricPoints) /\ qs \in Seq(MetricPoints)
      /\ KeysOnce(ps, SeriesOf) /\ KeysOnce(qs, SeriesOf)
  BY DEF IsBlock
<1>2. ps \o qs \in Seq(MetricPoints) /\ ToSet(ps \o qs) = ToSet(ps) \cup ToSet(qs)
  BY <1>1, JoinSeqs
<1>3. \A x \in ToSet(ps), y \in ToSet(qs) : SeriesOf[x] # SeriesOf[y]
  <2> SUFFICES ASSUME NEW x \in ToSet(ps), NEW y \in ToSet(qs) PROVE SeriesOf[x] # SeriesOf[y]
    OBVIOUS
  <2>1. x \in MetricPoints /\ y \in MetricPoints  BY <1>1, OfSeq
  <2>2. x.name \in N /\ y.name \in M  BY DEF IsBlock
  <2> QED  BY <2>1, <2>2, OtherNames
<1>4. KeysOnce(ps \o qs, SeriesOf)  BY <1>1, <1>3, JoinKeys
<1> QED  BY <1>2, <1>4 DEF IsBlock

LEMMA NoPoints == \A N, M, l : IsBlock(<<>>, N) /\ IsFamily(<<>>, N, M, l)
<1>1. <<>> \in Seq(MetricPoints) /\ ToSet(<<>>) = {} /\ DOMAIN <<>> = {}  BY DEF ToSet
<1> QED  BY <1>1 DEF IsBlock, IsFamily, KeysOnce

LEMMA WiderFamily ==
    ASSUME NEW ps, NEW N, NEW M, NEW O, NEW P, NEW l, IsFamily(ps, N, M, l), N \subseteq O, M \subseteq P
    PROVE  IsFamily(ps, O, P, l) /\ IsBlock(ps, O \cup P)
BY DEF IsFamily, IsBlock

LEMMA WiderBlock ==
    ASSUME NEW ps, NEW N, NEW O, IsBlock(ps, N), N \subseteq O
    PROVE  IsBlock(ps, O)
BY DEF IsBlock

(* The points of all items. *)
LEMMA PointsTogether ==
    ASSUME NEW n \in Nat, NEW seqs, seqs = [i \in 1 .. n |-> seqs[i]],
           \A i \in 1 .. n : seqs[i] \in Seq(MetricPoints)
    PROVE  /\ seqs \in Seq(Seq(MetricPoints)) /\ Len(seqs) = n /\ DOMAIN seqs = 1 .. n
           /\ FlattenSeq(seqs) \in Seq(MetricPoints)
           /\ ToSet(FlattenSeq(seqs)) = PartsOf(seqs, n)
<1>1. seqs \in Seq(Seq(MetricPoints)) /\ Len(seqs) = n /\ DOMAIN seqs = 1 .. n
  <2>1. seqs \in [1 .. n -> Seq(MetricPoints)]  OBVIOUS
  <2> QED  BY <2>1
<1> QED  BY <1>1, FlattenFacts

(* The families of items that are labelled differently make a block. *)
LEMMA FamiliesMakeBlock ==
    ASSUME NEW n \in Nat, NEW seqs, NEW ls, NEW N, NEW M, N \cap M = {},
           seqs = [i \in 1 .. n |-> seqs[i]], ls \in [1 .. n -> TextSeqs], IsInjective(ls),
           \A i \in 1 .. n : IsFamily(seqs[i], N, M, ls[i])
    PROVE  IsBlock(FlattenSeq(seqs), N \cup M)
<1>1. \A i \in 1 .. n : seqs[i] \in Seq(MetricPoints) /\ KeysOnce(seqs[i], SeriesOf)
  BY DEF IsFamily
<1>2. /\ seqs \in Seq(Seq(MetricPoints)) /\ Len(seqs) = n /\ DOMAIN seqs = 1 .. n
      /\ FlattenSeq(seqs) \in Seq(MetricPoints) /\ ToSet(FlattenSeq(seqs)) = PartsOf(seqs, n)
  BY <1>1, PointsTogether
<1>3. ASSUME NEW i \in 1 .. n, NEW j \in 1 .. n, i # j, NEW x \in ToSet(seqs[i]), NEW y \in ToSet(seqs[j])
      PROVE  SeriesOf[x] # SeriesOf[y]
  <2>1. x \in MetricPoints /\ y \in MetricPoints  BY <1>1, OfSeq
  <2>2. ls[i] # ls[j] /\ ls[i] \in Seq(Texts) /\ ls[j] \in Seq(Texts)
    BY <1>3 DEF IsInjective, TextSeqs
  <2>3. \/ x.name \in N /\ x.labels = ls[i]
        \/ x.name \in M /\ \E v \in Texts : x.labels = Append(ls[i], v)
    BY DEF IsFamily
  <2>4. \/ y.name \in N /\ y.labels = ls[j]
        \/ y.name \in M /\ \E v \in Texts : y.labels = Append(ls[j], v)
    BY DEF IsFamily
  <2>5. \A v, w \in Texts : Append(ls[i], v) # Append(ls[j], w)  BY <2>2, AppendInjective
  <2>6. x.name # y.name \/ x.labels # y.labels  BY <2>2, <2>3, <2>4, <2>5
  <2> QED  BY <2>1, <2>6, OtherNames
<1>4. KeysApart(seqs, SeriesOf)  BY <1>1, <1>2, <1>3 DEF KeysApart
<1>5. KeysOnce(FlattenSeq(seqs), SeriesOf)  BY <1>2, <1>4, FlattenKeys
<1>6. \A p \in PartsOf(seqs, n) : p.name \in N \cup M  BY DEF PartsOf, IsFamily
<1> QED  BY <1>2, <1>5, <1>6 DEF IsBlock

(* What is listed once. *)
LEMMA OnceFacts ==
    ASSUME NEW S, NEW items \in Seq(S)
    PROVE  Once(items) \in Seq(S) /\ IsInjective(Once(items))
<1> DEFINE T == ToSet(items)
           n == Cardinality(T)
<1>1. items = [i \in 1 .. Len(items) |-> items[i]] /\ T = {items[i] : i \in 1 .. Len(items)}
  BY DEF ToSet
<1>2. IsFiniteSet(1 .. Len(items)) /\ T \subseteq S  BY OfSeq, FS_Interval DEF ToSet
<1>3. IsFiniteSet(T)
  <2> DEFINE I == 1 .. Len(items)
  <2>1. items = [i \in I |-> items[i]] /\ T = {items[i] : i \in I} /\ IsFiniteSet(I)  BY <1>1, <1>2
  <2> HIDE DEF T, I
  <2> QED  BY <2>1, FiniteImage
<1>4. n \in Nat /\ ExistsBijection(1 .. n, T)
  <2> HIDE DEF T
  <2> QED  BY <1>3, FS_CountingElements, FS_CardinalityType
<1>5. \E f \in [1 .. n -> T] : IsInjective(f)
  BY <1>4 DEF ExistsBijection, Bijection, Injection
<1>6. Once(items) \in [1 .. n -> T] /\ IsInjective(Once(items))
  <2> HIDE DEF n
  <2> QED  BY <1>5 DEF Once, SetToSeq, n
<1>7. Once(items) \in Seq(S)
  <2> HIDE DEF n, T
  <2> QED  BY <1>2, <1>4, <1>6
<1> QED  BY <1>6, <1>7

(* What the snapshot of a source has in it. *)
LEMMA ContentionFacts ==
    ASSUME NEW s, s \in Snapshots("contention"), ListsOnce("contention", s)
    PROVE  /\ s.psi \in Seq(TextSeqs) /\ s.vm_counters \in TextSeqs /\ s.devices \in TextSeqs
           /\ IsInjective(s.psi) /\ IsInjective(s.vm_counters) /\ IsInjective(s.devices)
<1>1. s.psi \in Seq(Labels) /\ s.vm_counters \in Labels /\ s.devices \in Labels  BY DEF Snapshots
<1>2. Seq(Labels) \subseteq Seq(TextSeqs)  BY LabelTexts
<1> QED  BY <1>1, <1>2, LabelTexts DEF ListsOnce

(* Two names, or one name that is the only label. *)
LEMMA ShortLabels ==
    /\ <<>> \in TextSeqs /\ \A a \in Texts : <<a>> \in TextSeqs
    /\ \A a, b \in Texts : <<a, b>> \in TextSeqs
    /\ \A a, b \in Texts : <<a>> = <<b>> => a = b
<1>1. <<>> \in TextSeqs  BY DEF TextSeqs
<1>2. ASSUME NEW a \in Texts PROVE <<a>> \in TextSeqs  BY DEF TextSeqs
<1>3. ASSUME NEW a \in Texts, NEW b \in Texts PROVE <<a, b>> \in TextSeqs  BY DEF TextSeqs
<1>4. ASSUME NEW a \in Texts, NEW b \in Texts, <<a>> = <<b>> PROVE a = b
  <2>1. <<a>>[1] = a /\ <<b>>[1] = b  OBVIOUS
  <2> QED  BY <1>4, <2>1
<1> QED  BY <1>1, <1>2, <1>3, <1>4

LEMMA LabelledByName ==
    ASSUME NEW names \in TextSeqs, IsInjective(names)
    PROVE  /\ [i \in 1 .. Len(names) |-> <<names[i]>>] \in [1 .. Len(names) -> TextSeqs]
           /\ IsInjective([i \in 1 .. Len(names) |-> <<names[i]>>])
<1>1. DOMAIN names = 1 .. Len(names) /\ \A i \in DOMAIN names : names[i] \in Texts
  BY OfSeq DEF TextSeqs
<1>2. \A i \in 1 .. Len(names) : <<names[i]>> \in TextSeqs  BY <1>1, ShortLabels
<1>3. \A i, j \in 1 .. Len(names) : <<names[i]>> = <<names[j]>> => i = j
  BY <1>1, ShortLabels DEF IsInjective
<1> QED  BY <1>2, <1>3 DEF IsInjective

(* Several readings that are labelled alike. *)
LEMMA PlainFamily ==
    ASSUME NEW n \in Nat, NEW ps, NEW ns, NEW N, N \subseteq Texts, NEW l \in TextSeqs,
           ns \in [1 .. n -> N], IsInjective(ns), ps = [i \in 1 .. n |-> Point(ns[i], l)]
    PROVE  IsFamily(ps, N, {}, l)
<1>1. ASSUME NEW i \in 1 .. n
      PROVE  ps[i] \in MetricPoints /\ ps[i].name = ns[i] /\ ps[i].labels = l /\ ns[i] \in N
  <2>1. ns[i] \in Texts /\ ps[i] = Point(ns[i], l)  OBVIOUS
  <2>2. ps[i] \in MetricPoints  BY <2>1, OneReading
  <2> QED  BY <2>1, <2>2 DEF Point
<1>2. DOMAIN ps = 1 .. n /\ ps = [i \in 1 .. n |-> ps[i]]  OBVIOUS
<1>3. ps \in Seq(MetricPoints)
  <2>1. ps \in [1 .. n -> MetricPoints]  BY <1>1, <1>2
  <2> QED  BY <2>1
<1>4. KeysOnce(ps, SeriesOf)
  <2> SUFFICES ASSUME NEW i \in 1 .. n, NEW j \in 1 .. n, SeriesOf[ps[i]] = SeriesOf[ps[j]]
               PROVE  i = j
    BY <1>2 DEF KeysOnce
  <2>1. ns[i] = ns[j]  BY <1>1 DEF SeriesOf
  <2> QED  BY <2>1 DEF IsInjective
<1>5. \A p \in ToSet(ps) : p.name \in N /\ p.labels = l  BY <1>1, <1>2 DEF ToSet
<1> QED  BY <1>3, <1>4, <1>5 DEF IsFamily

(* The lists of labels that the mapping itself has. *)
IsList(l) == l \in TextSeqs /\ IsInjective(l)
LEMMA ListsOf ==
    ASSUME NEW a \in Texts, NEW b \in Texts, NEW c \in Texts, NEW d \in Texts
    PROVE  /\ IsList(<<a>>) /\ (a # b => IsList(<<a, b>>))
           /\ (a # b /\ a # c /\ b # c => IsList(<<a, b, c>>))
           /\ (a # b /\ a # c /\ a # d /\ b # c /\ b # d /\ c # d => IsList(<<a, b, c, d>>))
<1>1. IsList(<<a>>)  BY DEF IsList, IsInjective, TextSeqs
<1>2. a # b => IsList(<<a, b>>)  BY DEF IsList, IsInjective, TextSeqs
<1>3. a # b /\ a # c /\ b # c => IsList(<<a, b, c>>)  BY DEF IsList, IsInjective, TextSeqs
<1>4. a # b /\ a # c /\ a # d /\ b # c /\ b # d /\ c # d => IsList(<<a, b, c, d>>)
  BY DEF IsList, IsInjective, TextSeqs
<1> QED  BY <1>1, <1>2, <1>3, <1>4

LEMMA LiteralLists ==
    /\ IsList(<<"read", "write">>) /\ IsList(<<"Ready">>)
    /\ IsList(<<"availableBytes", "capacityBytes", "usedBytes">>)
    /\ IsList(<<"inodesFree", "inodes", "inodesUsed">>)
    /\ IsList(<<"availableBytes", "usageBytes", "workingSetBytes", "rssBytes">>)
    /\ IsList(<<"active", "failed", "jobs", "succeeded">>)
    /\ IsList(RootFields) /\ IsList(<<"used_percent", "inodes_used_percent">>)
    /\ IsList(<<"volume_count", "pod_count", "truncated_volume_count">>)
<1>1. IsList(<<"read", "write">>) /\ IsList(<<"Ready">>)
  <2>1. "read" \in Texts /\ "write" \in Texts /\ "Ready" \in Texts  BY DEF Texts, LabelValues
  <2> QED  BY <2>1, ListsOf
<1>2. IsList(<<"availableBytes", "capacityBytes", "usedBytes">>)
  <2>1. "availableBytes" \in Texts /\ "capacityBytes" \in Texts /\ "usedBytes" \in Texts
    BY DEF Texts, LabelValues
  <2> QED  BY <2>1, ListsOf
<1>3. IsList(<<"inodesFree", "inodes", "inodesUsed">>)
  <2>1. "inodesFree" \in Texts /\ "inodes" \in Texts /\ "inodesUsed" \in Texts
    BY DEF Texts, LabelValues
  <2> QED  BY <2>1, ListsOf
<1>4. IsList(<<"availableBytes", "usageBytes", "workingSetBytes", "rssBytes">>)
  <2>1. /\ "availableBytes" \in Texts /\ "usageBytes" \in Texts
        /\ "workingSetBytes" \in Texts /\ "rssBytes" \in Texts
    BY DEF Texts, LabelValues
  <2> QED  BY <2>1, ListsOf
<1>5. IsList(<<"active", "failed", "jobs", "succeeded">>)
  <2>1. /\ "active" \in Texts /\ "failed" \in Texts /\ "jobs" \in Texts /\ "succeeded" \in Texts
    BY DEF Texts, LabelValues
  <2> QED  BY <2>1, ListsOf
<1>6. IsList(<<"used_percent", "inodes_used_percent">>)
  <2>1. "used_percent" \in Texts /\ "inodes_used_percent" \in Texts  BY DEF Texts, LabelValues
  <2> QED  BY <2>1, ListsOf
<1>7. IsList(<<"volume_count", "pod_count", "truncated_volume_count">>)
  <2>1. "volume_count" \in Texts /\ "pod_count" \in Texts /\ "truncated_volume_count" \in Texts
    BY DEF Texts, LabelValues
  <2> QED  BY <2>1, ListsOf
<1>8. IsList(RootFields)
  <2>1. DOMAIN RootFields = 1 .. 9 /\ Len(RootFields) = 9  BY DEF RootFields
  <2>2. \A i \in 1 .. 9 : RootFields[i] \in Texts  BY DEF RootFields, Texts, LabelValues
  <2>3. \A i, j \in 1 .. 9 : RootFields[i] = RootFields[j] => i = j  BY DEF RootFields
  <2>4. RootFields = [i \in 1 .. 9 |-> RootFields[i]]  BY DEF RootFields
  <2>5. RootFields \in TextSeqs  BY <2>2, <2>4 DEF TextSeqs
  <2> QED  BY <2>1, <2>3, <2>5 DEF IsList, IsInjective
<1> QED  BY <1>1, <1>2, <1>3, <1>4, <1>5, <1>6, <1>7, <1>8

LEMMA ContentionBlock ==
    ASSUME NEW s, s \in Snapshots("contention"), ListsOnce("contention", s)
    PROVE  IsBlock(ContentionPoints(s), ContentionNames)
<1>0. /\ "psi.stall" \in Texts /\ "psi.stall_time" \in Texts /\ "vm.events" \in Texts
      /\ "block_io.bytes" \in Texts /\ "block_io.operations" \in Texts
      /\ "block_io.busy_time" \in Texts /\ "read" \in Texts /\ "write" \in Texts
  BY DEF Texts, MetricNames, LabelValues, ContentionNames
<1> DEFINE psi == [i \in DOMAIN s.psi |-> EachOf("psi.stall", s.psi[i], Windows)
                                          \o <<Point("psi.stall_time", s.psi[i])>>]
           vm == EachOf("vm.events", <<>>, s.vm_counters)
           RW == <<"read", "write">>
           Device(d) == EachOf("block_io.bytes", <<d>>, RW) \o EachOf("block_io.operations", <<d>>, RW)
                        \o <<Point("block_io.busy_time", <<d>>)>>
           io == [i \in DOMAIN s.devices |-> Device(s.devices[i])]
<1>1. ContentionPoints(s) = FlattenSeq(psi) \o vm \o FlattenSeq(io)  BY DEF ContentionPoints, Each
<1>2. /\ s.psi \in Seq(TextSeqs) /\ s.vm_counters \in TextSeqs /\ s.devices \in TextSeqs
      /\ IsInjective(s.psi) /\ IsInjective(s.vm_counters) /\ IsInjective(s.devices)
  BY ContentionFacts
<1>3. /\ DOMAIN s.psi = 1 .. Len(s.psi) /\ Len(s.psi) \in Nat
      /\ DOMAIN s.devices = 1 .. Len(s.devices) /\ Len(s.devices) \in Nat
      /\ \A i \in DOMAIN s.psi : s.psi[i] \in TextSeqs
      /\ \A i \in DOMAIN s.devices : s.devices[i] \in Texts
  BY <1>2, OfSeq DEF TextSeqs
<1>4. IsBlock(FlattenSeq(psi), {"psi.stall_time", "psi.stall"})
  <2>1. ASSUME NEW i \in 1 .. Len(s.psi)
        PROVE  IsFamily(psi[i], {"psi.stall_time"}, {"psi.stall"}, s.psi[i])
    <3>1. s.psi[i] \in TextSeqs /\ Windows \in TextSeqs  BY <1>3, WindowsAssumption, LabelTexts DEF Labels
    <3>2. IsFamily(EachOf("psi.stall", s.psi[i], Windows), {}, {"psi.stall"}, s.psi[i])
      BY <3>1, <1>0, EachOfIsFamily, WindowsAssumption
    <3>3. IsFamily(<<Point("psi.stall_time", s.psi[i])>>, {"psi.stall_time"}, {}, s.psi[i])
      BY <3>1, <1>0, OneReading
    <3>4. IsFamily(psi[i], {} \cup {"psi.stall_time"}, {"psi.stall"} \cup {}, s.psi[i])
      BY <1>3, <3>2, <3>3, JoinFamilies
    <3> QED  BY <3>4
  <2>2. s.psi \in [1 .. Len(s.psi) -> TextSeqs] /\ psi = [i \in 1 .. Len(s.psi) |-> psi[i]]
    BY <1>2, <1>3
  <2> DEFINE N == {"psi.stall_time"}
             M == {"psi.stall"}
             ls == s.psi
  <2>3. N \cap M = {} /\ N \cup M = {"psi.stall_time", "psi.stall"}  OBVIOUS
  <2>4. \A i \in 1 .. Len(ls) : IsFamily(psi[i], N, M, ls[i])  BY <2>1
  <2>5. Len(ls) \in Nat /\ IsInjective(ls)  BY <1>2, <1>3
  <2>6. ls \in [1 .. Len(ls) -> TextSeqs] /\ psi = [i \in 1 .. Len(ls) |-> psi[i]]  BY <2>2
  <2> HIDE DEF psi, N, M, ls
  <2>7. IsBlock(FlattenSeq(psi), N \cup M)  BY <2>3, <2>4, <2>5, <2>6, FamiliesMakeBlock
  <2> QED  BY <2>3, <2>7
<1>5. IsBlock(vm, {"vm.events"})
  <2>1. IsFamily(vm, {}, {"vm.events"}, <<>>)  BY <1>2, <1>0, EachOfIsFamily, ShortLabels
  <2> QED  BY <2>1, WiderFamily
<1>6. IsBlock(FlattenSeq(io), {"block_io.bytes", "block_io.operations", "block_io.busy_time"})
  <2> DEFINE ls == [i \in 1 .. Len(s.devices) |-> <<s.devices[i]>>]
             N == {"block_io.busy_time"}
             M == {"block_io.bytes", "block_io.operations"}
  <2>1. RW \in TextSeqs /\ IsInjective(RW)  BY <1>0, ShortLabels DEF IsInjective
  <2>2. ASSUME NEW i \in 1 .. Len(s.devices) PROVE IsFamily(io[i], N, M, ls[i])
    <3> DEFINE d == <<s.devices[i]>>
               a == EachOf("block_io.bytes", d, RW)
               b == EachOf("block_io.operations", d, RW)
               c == <<Point("block_io.busy_time", d)>>
    <3>1. d \in TextSeqs  BY <1>3, ShortLabels
    <3>2. IsFamily(a, {}, {"block_io.bytes"}, d)  BY <2>1, <3>1, <1>0, EachOfIsFamily
    <3>3. IsFamily(b, {}, {"block_io.operations"}, d)  BY <2>1, <3>1, <1>0, EachOfIsFamily
    <3>4. IsFamily(c, {"block_io.busy_time"}, {}, d)  BY <3>1, <1>0, OneReading
    <3>5. io[i] = a \o b \o c  BY <1>3
    <3>6. ls[i] = d  OBVIOUS
    <3> HIDE DEF a, b, c, d, io, ls
    <3>7. IsFamily(a \o b, {} \cup {}, {"block_io.bytes"} \cup {"block_io.operations"}, d)
      BY <3>2, <3>3, JoinFamilies
    <3>8. IsFamily(a \o b, {}, M, d)  BY <3>7, WiderFamily
    <3>9. IsFamily(a \o b \o c, {} \cup N, M \cup {}, d)  BY <3>4, <3>8, JoinFamilies
    <3> QED  BY <3>5, <3>6, <3>9, WiderFamily
  <2>3. ls \in [1 .. Len(s.devices) -> TextSeqs] /\ IsInjective(ls)  BY <1>2, LabelledByName
  <2>4. io = [i \in 1 .. Len(s.devices) |-> io[i]]  BY <1>3
  <2>5. N \cap M = {} /\ N \cup M = {"block_io.bytes", "block_io.operations", "block_io.busy_time"}
    OBVIOUS
  <2>6. IsBlock(FlattenSeq(io), N \cup M)
    <3> HIDE DEF io, ls, N, M
    <3> QED  BY <1>3, <2>2, <2>3, <2>4, <2>5, FamiliesMakeBlock
  <2> QED  BY <2>5, <2>6
<1> HIDE DEF psi, vm, io
<1>7. IsBlock(FlattenSeq(psi) \o vm, {"psi.stall_time", "psi.stall"} \cup {"vm.events"})
  BY <1>4, <1>5, JoinBlocks
<1>8. IsBlock(FlattenSeq(psi) \o vm \o FlattenSeq(io),
              ({"psi.stall_time", "psi.stall"} \cup {"vm.events"})
              \cup {"block_io.bytes", "block_io.operations", "block_io.busy_time"})
  BY <1>6, <1>7, JoinBlocks
<1> QED  BY <1>1, <1>8, WiderBlock DEF ContentionNames

(* The families of items that are labelled each by one name, and by several.  *)
LEMMA PerName ==
    ASSUME NEW names \in TextSeqs, IsInjective(names), NEW seqs, NEW N, NEW M, N \cap M = {},
           seqs = [i \in DOMAIN names |-> seqs[i]],
           \A i \in DOMAIN names : IsFamily(seqs[i], N, M, <<names[i]>>)
    PROVE  IsBlock(FlattenSeq(seqs), N \cup M)
<1> DEFINE ls == [i \in 1 .. Len(names) |-> <<names[i]>>]
<1>1. Len(names) \in Nat /\ DOMAIN names = 1 .. Len(names)  BY OfSeq DEF TextSeqs
<1>2. ls \in [1 .. Len(names) -> TextSeqs] /\ IsInjective(ls)  BY LabelledByName
<1>3. \A i \in 1 .. Len(names) : IsFamily(seqs[i], N, M, ls[i])  BY <1>1
<1> HIDE DEF ls
<1> QED  BY <1>1, <1>2, <1>3, FamiliesMakeBlock

LEMMA PerLabels ==
    ASSUME NEW ls \in Seq(TextSeqs), IsInjective(ls), NEW seqs, NEW N, NEW M, N \cap M = {},
           seqs = [i \in DOMAIN ls |-> seqs[i]],
           \A i \in DOMAIN ls : IsFamily(seqs[i], N, M, ls[i])
    PROVE  IsBlock(FlattenSeq(seqs), N \cup M)
<1>1. Len(ls) \in Nat /\ DOMAIN ls = 1 .. Len(ls) /\ ls \in [1 .. Len(ls) -> TextSeqs]
  BY OfSeq
<1> QED  BY <1>1, FamiliesMakeBlock

LEMMA NamespaceBlock ==
    ASSUME NEW pods \in TextSeqs
    PROVE  IsBlock(NamespacePoints(pods), {"namespace.pods", "namespace.cpu.usage",
                   "namespace.memory.working_set", "namespace.ephemeral_storage.used"})
<1> DEFINE N == {"namespace.pods", "namespace.cpu.usage",
                 "namespace.memory.working_set", "namespace.ephemeral_storage.used"}
           names == Once(pods)
           Family(n) == <<Point("namespace.pods", <<n>>), Point("namespace.cpu.usage", <<n>>),
                          Point("namespace.memory.working_set", <<n>>),
                          Point("namespace.ephemeral_storage.used", <<n>>)>>
           seqs == [i \in DOMAIN names |-> Family(names[i])]
<1>1. names \in TextSeqs /\ IsInjective(names)  BY OnceFacts DEF TextSeqs
<1>2. N \subseteq Texts  BY DEF Texts, MetricNames, KubeletNames
<1>3. ASSUME NEW n \in Texts PROVE IsFamily(Family(n), N, {}, <<n>>)
  <2> DEFINE ns == <<"namespace.pods", "namespace.cpu.usage",
                     "namespace.memory.working_set", "namespace.ephemeral_storage.used">>
             l == <<n>>
  <2>1. ns \in [1 .. 4 -> N] /\ IsInjective(ns)  BY DEF IsInjective
  <2>2. Family(n) = [i \in 1 .. 4 |-> Point(ns[i], l)]  OBVIOUS
  <2>3. l \in TextSeqs  BY ShortLabels
  <2> HIDE DEF N, ns, l, Family
  <2>4. IsFamily(Family(n), N, {}, l)  BY <1>2, <2>1, <2>2, <2>3, PlainFamily
  <2> QED  BY <2>4 DEF l
<1>4. NamespacePoints(pods) = FlattenSeq(seqs)  BY DEF NamespacePoints, Each
<1>5. \A i \in DOMAIN names : names[i] \in Texts  BY <1>1, OfSeq DEF TextSeqs
<1>6. \A i \in DOMAIN names : IsFamily(seqs[i], N, {}, <<names[i]>>)  BY <1>3, <1>5
<1>7. seqs = [i \in DOMAIN names |-> seqs[i]]  OBVIOUS
<1> HIDE DEF N, seqs, names
<1>8. IsBlock(FlattenSeq(seqs), N \cup {})  BY <1>1, <1>6, <1>7, PerName
<1>9. IsBlock(FlattenSeq(seqs), N)  BY <1>8, WiderBlock
<1> QED  BY <1>4, <1>9 DEF N

LEMMA FilesystemBlock ==
    ASSUME NEW fs \in TextSeqs, IsInjective(fs)
    PROVE  IsBlock(Each(fs, FilesystemPoints), {"kubelet.filesystem", "kubelet.filesystem.inodes"})
<1> DEFINE A == {"kubelet.filesystem"}
           B == {"kubelet.filesystem.inodes"}
           seqs == [i \in DOMAIN fs |-> FilesystemPoints(fs[i])]
<1>1. "kubelet.filesystem" \in Texts /\ "kubelet.filesystem.inodes" \in Texts
  BY DEF Texts, MetricNames, KubeletNames
<1>2. ASSUME NEW f \in Texts PROVE IsFamily(FilesystemPoints(f), {}, A \cup B, <<f>>)
  <2> DEFINE u == <<"availableBytes", "capacityBytes", "usedBytes">>
             v == <<"inodesFree", "inodes", "inodesUsed">>
             l == <<f>>
             p == EachOf("kubelet.filesystem", l, u)
             q == EachOf("kubelet.filesystem.inodes", l, v)
  <2>1. u \in TextSeqs /\ IsInjective(u) /\ v \in TextSeqs /\ IsInjective(v)
    BY LiteralLists DEF IsList
  <2>2. l \in TextSeqs  BY ShortLabels
  <2>3. FilesystemPoints(f) = p \o q  BY DEF FilesystemPoints
  <2>4. A \cap B = {}  OBVIOUS
  <2>5. IsFamily(p, {}, A, l) /\ IsFamily(q, {}, B, l)
    <3> HIDE DEF u, v, l
    <3> QED  BY <1>1, <2>1, <2>2, EachOfIsFamily
  <2> HIDE DEF A, B, p, q, l
  <2>6. IsFamily(p \o q, {} \cup {}, A \cup B, l)  BY <2>4, <2>5, JoinFamilies
  <2>7. IsFamily(p \o q, {}, A \cup B, l)  BY <2>6, WiderFamily
  <2> QED  BY <2>3, <2>7 DEF l
<1>3. Each(fs, FilesystemPoints) = FlattenSeq(seqs)  BY DEF Each
<1>4. \A i \in DOMAIN fs : fs[i] \in Texts  BY OfSeq DEF TextSeqs
<1>5. \A i \in DOMAIN fs : IsFamily(seqs[i], {}, A \cup B, <<fs[i]>>)  BY <1>2, <1>4
<1>6. seqs = [i \in DOMAIN fs |-> seqs[i]]  OBVIOUS
<1> DEFINE M == A \cup B
<1> HIDE DEF M, seqs
<1>7. IsBlock(FlattenSeq(seqs), {} \cup M)
  <2>1. \A i \in DOMAIN fs : IsFamily(seqs[i], {}, M, <<fs[i]>>)  BY <1>5 DEF M
  <2> QED  BY <1>6, <2>1, PerName
<1>8. {} \cup M \subseteq {"kubelet.filesystem", "kubelet.filesystem.inodes"}  BY DEF M
<1>9. IsBlock(FlattenSeq(seqs), {"kubelet.filesystem", "kubelet.filesystem.inodes"})
  BY <1>7, <1>8, WiderBlock
<1> QED  BY <1>3, <1>9

(* One reading, and the readings of one name, as blocks. *)
LEMMA SmallBlocks ==
    ASSUME NEW n \in Texts, NEW l \in TextSeqs
    PROVE  /\ IsBlock(<<Point(n, l)>>, {n})
           /\ \A vs : IsList(vs) => IsBlock(EachOf(n, l, vs), {n})
<1>1. IsBlock(<<Point(n, l)>>, {n} \cup {})  BY OneReading, WiderFamily
<1>2. ASSUME NEW vs, IsList(vs) PROVE IsBlock(EachOf(n, l, vs), {} \cup {n})
  <2>1. IsFamily(EachOf(n, l, vs), {}, {n}, l)  BY <1>2, EachOfIsFamily DEF IsList
  <2> QED  BY <2>1, WiderFamily
<1> QED  BY <1>1, <1>2, WiderBlock

LEMMA KubeletBlock ==
    ASSUME NEW s, s \in Snapshots("kubelet"), ListsOnce("kubelet", s)
    PROVE  IsBlock(ResourceUsagePoints(s), KubeletNames)
<1> DEFINE node == <<Point("kubelet.cpu.usage", <<"node">>)>>
           memory == EachOf("kubelet.memory", <<"node">>,
                            <<"availableBytes", "usageBytes", "workingSetBytes", "rssBytes">>)
           first == IF ~s.node THEN <<>> ELSE node \o memory
           fs == Each(s.filesystems, FilesystemPoints)
           count == <<Point("kubernetes.pods", <<>>)>>
           pods == NamespacePoints(s.pods)
           A == {"kubelet.cpu.usage"} \cup {"kubelet.memory"}
           B == {"kubelet.filesystem", "kubelet.filesystem.inodes"}
           C == {"kubernetes.pods"}
           D == {"namespace.pods", "namespace.cpu.usage",
                 "namespace.memory.working_set", "namespace.ephemeral_storage.used"}
<1>1. ResourceUsagePoints(s) = first \o fs \o count \o pods  BY DEF ResourceUsagePoints
<1>2. s.filesystems \in TextSeqs /\ IsInjective(s.filesystems) /\ s.pods \in TextSeqs
  <2>1. s.filesystems \in Labels /\ s.pods \in Labels  BY DEF Snapshots
  <2> QED  BY <2>1, LabelTexts DEF ListsOnce
<1>3. "kubelet.cpu.usage" \in Texts /\ "kubelet.memory" \in Texts /\ "kubernetes.pods" \in Texts
      /\ "node" \in Texts
  BY DEF Texts, MetricNames, KubeletNames, LabelValues
<1>4. IsBlock(node, {"kubelet.cpu.usage"})  BY <1>3, ShortLabels, SmallBlocks
<1>5. IsBlock(memory, {"kubelet.memory"})  BY <1>3, ShortLabels, SmallBlocks, LiteralLists
<1>6. IsBlock(first, A)
  <2> DEFINE N == {"kubelet.cpu.usage"}
             M == {"kubelet.memory"}
  <2>1. IsBlock(node, N) /\ IsBlock(memory, M) /\ N \cap M = {} /\ A = N \cup M  BY <1>4, <1>5
  <2> HIDE DEF node, memory, N, M, A
  <2> QED  BY <2>1, JoinBlocks, NoPoints
<1>7. IsBlock(fs, B)  BY <1>2, FilesystemBlock
<1>8. IsBlock(count, C)  BY <1>3, ShortLabels, SmallBlocks
<1>9. IsBlock(pods, D)  BY <1>2, NamespaceBlock
<1>10. A \cap B = {} /\ (A \cup B) \cap C = {} /\ (A \cup B \cup C) \cap D = {}
       /\ A \cup B \cup C \cup D \subseteq KubeletNames
  BY DEF KubeletNames
<1> HIDE DEF first, fs, count, pods, A, B, C, D
<1>11. IsBlock(first \o fs, A \cup B)  BY <1>6, <1>7, <1>10, JoinBlocks
<1>12. IsBlock(first \o fs \o count, A \cup B \cup C)  BY <1>8, <1>10, <1>11, JoinBlocks
<1>13. IsBlock(first \o fs \o count \o pods, A \cup B \cup C \cup D)
  BY <1>9, <1>10, <1>12, JoinBlocks
<1> QED  BY <1>1, <1>10, <1>13, WiderBlock

(* The counts of equal events have one point. *)
LEMMA HealthBlock ==
    ASSUME NEW s, s = Raised \/ (s \in Snapshots("health") /\ ListsOnce("health", s))
    PROVE  IsBlock(HealthPointsOf(s), HealthNames)
<1> DEFINE node == <<Point("node.schedulable", <<>>), Point("node.taints", <<>>)>>
           conditions == EachOf("node.condition", <<>>, s.conditions)
           labels == Once(s.events)
           seqs == [i \in DOMAIN labels |-> <<Point("events", labels[i])>>]
           events == FlattenSeq(seqs)
           A == {"node.schedulable", "node.taints"}
           B == {"node.condition"}
           C == {"events"}
<1>1. HealthPointsOf(s) = node \o IF HasFailed(s) THEN <<>> ELSE conditions \o events
  BY DEF HealthPointsOf, Each
<1>2. ~HasFailed(s) => /\ s.conditions \in TextSeqs /\ IsInjective(s.conditions)
                       /\ s.events \in Seq(TextSeqs)
  <2>1. ~HasFailed(s) => s \in Snapshots("health") /\ ListsOnce("health", s)
    BY DEF Raised, HasFailed
  <2>2. s \in Snapshots("health") => s.conditions \in Labels /\ s.events \in Seq(Labels)
    BY DEF Snapshots
  <2>3. Seq(Labels) \subseteq Seq(TextSeqs)  BY LabelTexts
  <2>4. ListsOnce("health", s) => IsInjective(s.conditions)  BY DEF ListsOnce
  <2> QED  BY <2>1, <2>2, <2>3, <2>4, LabelTexts
<1>3. /\ "node.schedulable" \in Texts /\ "node.taints" \in Texts
      /\ "node.condition" \in Texts /\ "events" \in Texts
  BY DEF Texts, MetricNames, HealthNames
<1>4. IsBlock(node, A)
  <2> DEFINE ns == <<"node.schedulable", "node.taints">>
             l == <<>>
  <2>1. ns \in [1 .. 2 -> A] /\ IsInjective(ns) /\ A \subseteq Texts  BY <1>3 DEF IsInjective
  <2>2. node = [i \in 1 .. 2 |-> Point(ns[i], l)] /\ l \in TextSeqs  BY ShortLabels
  <2> HIDE DEF node, ns, l, A
  <2>3. IsFamily(node, A, {}, l)  BY <2>1, <2>2, PlainFamily
  <2>4. IsBlock(node, A \cup {})  BY <2>3, WiderFamily
  <2> QED  BY <2>4, WiderBlock
<1>5. ~HasFailed(s) => IsBlock(conditions, B)
  BY <1>2, <1>3, ShortLabels, SmallBlocks DEF IsList
<1>6. ASSUME ~HasFailed(s) PROVE IsBlock(events, C)
  <2>1. labels \in Seq(TextSeqs) /\ IsInjective(labels)  BY <1>2, <1>6, OnceFacts
  <2>2. \A i \in DOMAIN labels : labels[i] \in TextSeqs  BY <2>1, OfSeq
  <2>3. \A i \in DOMAIN labels : IsFamily(seqs[i], C, {}, labels[i])
    BY <1>3, <2>2, OneReading
  <2>4. seqs = [i \in DOMAIN labels |-> seqs[i]] /\ C \cap {} = {}  OBVIOUS
  <2> HIDE DEF seqs, labels, C
  <2>5. IsBlock(FlattenSeq(seqs), C \cup {})  BY <2>1, <2>3, <2>4, PerLabels
  <2> QED  BY <2>5, WiderBlock
<1>7. A \cap (B \cup C) = {} /\ B \cap C = {} /\ A \cup (B \cup C) \subseteq HealthNames
      /\ A \subseteq HealthNames
  BY DEF HealthNames
<1> HIDE DEF node, conditions, events, A, B, C
<1>8. CASE HasFailed(s)
  <2>1. node \o <<>> = node  BY <1>4 DEF IsBlock
  <2> QED  BY <1>1, <1>4, <1>7, <1>8, <2>1, WiderBlock
<1>9. CASE ~HasFailed(s)
  <2>1. IsBlock(conditions \o events, B \cup C)  BY <1>5, <1>6, <1>7, <1>9, JoinBlocks
  <2>2. IsBlock(node \o (conditions \o events), A \cup (B \cup C))
    BY <1>4, <1>7, <2>1, JoinBlocks
  <2> QED  BY <1>1, <1>7, <1>9, <2>2, WiderBlock
<1> QED  BY <1>8, <1>9

LEMMA WorkBlock ==
    ASSUME NEW s, s \in Snapshots("scheduled_work"), ListsOnce("scheduled_work", s)
    PROVE  IsBlock(ScheduledWorkPoints(s), WorkNames)
<1> DEFINE names == Once(s.jobs)
           States == <<"active", "failed", "jobs", "succeeded">>
           jobs == [i \in DOMAIN names |-> EachOf("jobs", <<names[i]>>, States)]
           ls == [i \in DOMAIN s.cronjobs |-> s.cronjobs[i].labels]
           Age(c) == IF c.succeeded THEN <<Point("cronjob.last_success_age", c.labels)>> ELSE <<>>
           Two(l) == <<Point("cronjob.active_jobs", l), Point("cronjob.suspended", l)>>
           cronjobs == [i \in DOMAIN s.cronjobs |-> Age(s.cronjobs[i]) \o Two(s.cronjobs[i].labels)]
           A == {"jobs"}
           B == {"cronjob.last_success_age"}
           C == {"cronjob.active_jobs", "cronjob.suspended"}
<1>1. ScheduledWorkPoints(s) = FlattenSeq(jobs) \o FlattenSeq(cronjobs)
  BY DEF ScheduledWorkPoints, Each
<1>2. /\ s.jobs \in TextSeqs
      /\ s.cronjobs \in Seq([labels : TextSeqs, succeeded : BOOLEAN]) /\ IsInjective(ls)
  <2>1. s.jobs \in Labels /\ s.cronjobs \in Seq([labels : Labels, succeeded : BOOLEAN])
    BY DEF Snapshots
  <2>2. [labels : Labels, succeeded : BOOLEAN] \subseteq [labels : TextSeqs, succeeded : BOOLEAN]
    BY LabelTexts
  <2>3. Seq([labels : Labels, succeeded : BOOLEAN]) \subseteq Seq([labels : TextSeqs, succeeded : BOOLEAN])
    <3> DEFINE S == [labels : Labels, succeeded : BOOLEAN]
               R == [labels : TextSeqs, succeeded : BOOLEAN]
    <3>1. S \subseteq R  BY <2>2
    <3> HIDE DEF S, R
    <3>2. Seq(S) \subseteq Seq(R)  BY <3>1
    <3> QED  BY <3>2 DEF S, R
  <2> QED  BY <2>1, <2>3, LabelTexts DEF ListsOnce
<1>3. /\ "jobs" \in Texts /\ "cronjob.last_success_age" \in Texts
      /\ "cronjob.active_jobs" \in Texts /\ "cronjob.suspended" \in Texts
  BY DEF Texts, MetricNames, WorkNames
<1>4. IsBlock(FlattenSeq(jobs), A)
  <2>1. names \in TextSeqs /\ IsInjective(names)  BY <1>2, OnceFacts DEF TextSeqs
  <2>2. \A i \in DOMAIN names : names[i] \in Texts  BY <2>1, OfSeq DEF TextSeqs
  <2>3. \A i \in DOMAIN names : <<names[i]>> \in TextSeqs  BY <2>2, ShortLabels
  <2>4. States \in TextSeqs /\ IsInjective(States)  BY LiteralLists DEF IsList
  <2>5. \A i \in DOMAIN names : IsFamily(jobs[i], {}, A, <<names[i]>>)
    <3> HIDE DEF States
    <3> QED  BY <1>3, <2>3, <2>4, EachOfIsFamily
  <2>6. jobs = [i \in DOMAIN names |-> jobs[i]]  OBVIOUS
  <2> HIDE DEF jobs, names, A
  <2>7. IsBlock(FlattenSeq(jobs), {} \cup A)  BY <2>1, <2>5, <2>6, PerName
  <2> QED  BY <2>7, WiderBlock
<1>5. ASSUME NEW l \in TextSeqs PROVE IsFamily(Two(l), C, {}, l)
  <2> DEFINE ns == <<"cronjob.active_jobs", "cronjob.suspended">>
  <2>1. ns \in [1 .. 2 -> C] /\ IsInjective(ns) /\ C \subseteq Texts  BY <1>3 DEF IsInjective
  <2>2. Two(l) = [i \in 1 .. 2 |-> Point(ns[i], l)]  OBVIOUS
  <2> HIDE DEF Two, ns, C
  <2> QED  BY <2>1, <2>2, PlainFamily
<1>6. ASSUME NEW c \in [labels : TextSeqs, succeeded : BOOLEAN]
      PROVE  IsFamily(Age(c) \o Two(c.labels), B \cup C, {}, c.labels)
  <2> DEFINE l == c.labels
             p == Age(c)
             q == Two(l)
  <2>1. l \in TextSeqs  OBVIOUS
  <2>2. IsFamily(<<Point("cronjob.last_success_age", l)>>, B, {}, l)  BY <1>3, <2>1, OneReading
  <2>3. IsFamily(p, B, {}, l)  BY <2>2, NoPoints
  <2>4. IsFamily(q, C, {}, l)  BY <1>5, <2>1
  <2>5. B \cap C = {}  OBVIOUS
  <2> HIDE DEF p, q, l, B, C
  <2>6. IsFamily(p \o q, B \cup C, {} \cup {}, l)  BY <2>3, <2>4, <2>5, JoinFamilies
  <2>7. IsFamily(p \o q, B \cup C, {}, l)  BY <2>6, WiderFamily
  <2> QED  BY <2>7 DEF p, q, l
<1>7. IsBlock(FlattenSeq(cronjobs), B \cup C)
  <2> DEFINE N == B \cup C
             T == [labels : TextSeqs, succeeded : BOOLEAN]
  <2>1. s.cronjobs \in Seq(T)  BY <1>2
  <2>2. \A i \in DOMAIN s.cronjobs : s.cronjobs[i] \in T
    <3> HIDE DEF T
    <3> QED  BY <2>1, OfSeq
  <2>3. \A i \in DOMAIN s.cronjobs : IsFamily(cronjobs[i], N, {}, ls[i])
    <3> HIDE DEF Age, Two, N
    <3> QED  BY <1>6, <2>2 DEF N
  <2>4. ls \in Seq(TextSeqs) /\ DOMAIN ls = DOMAIN s.cronjobs
    <3>1. DOMAIN s.cronjobs = 1 .. Len(s.cronjobs) /\ Len(s.cronjobs) \in Nat
      <4> HIDE DEF T
      <4> QED  BY <2>1, OfSeq
    <3>2. ls = [i \in 1 .. Len(s.cronjobs) |-> ls[i]] /\ \A i \in 1 .. Len(s.cronjobs) : ls[i] \in TextSeqs
      BY <2>2, <3>1
    <3> HIDE DEF ls
    <3> QED  BY <3>1, <3>2
  <2>5. cronjobs = [i \in DOMAIN ls |-> cronjobs[i]] /\ \A i \in DOMAIN ls : IsFamily(cronjobs[i], N, {}, ls[i])
    BY <2>3, <2>4
  <2>6. IsInjective(ls)  BY <1>2
  <2> HIDE DEF cronjobs, ls, N
  <2>7. IsBlock(FlattenSeq(cronjobs), N \cup {})  BY <2>4, <2>5, <2>6, PerLabels
  <2>8. IsBlock(FlattenSeq(cronjobs), N)  BY <2>7, WiderBlock
  <2> QED  BY <2>8 DEF N
<1>8. A \cap (B \cup C) = {} /\ A \cup (B \cup C) \subseteq WorkNames  BY DEF WorkNames
<1> HIDE DEF jobs, cronjobs, A, B, C
<1>9. IsBlock(FlattenSeq(jobs) \o FlattenSeq(cronjobs), A \cup (B \cup C))
  BY <1>4, <1>7, <1>8, JoinBlocks
<1> QED  BY <1>1, <1>8, <1>9, WiderBlock

(* The checks of a configuration, if no two have one name.                    *)
LEMMA FreshnessBlock ==
    ASSUME NEW s, s \in Snapshots("freshness")
    PROVE  /\ FreshnessPoints(s) \in Seq(MetricPoints)
           /\ IsInjective([i \in DOMAIN s.checks |-> s.checks[i].name])
                 => IsBlock(FreshnessPoints(s), FreshnessNames)
<1> DEFINE T == [name : STRING, exists : BOOLEAN]
           names == [i \in DOMAIN s.checks |-> s.checks[i].name]
           Age(c) == IF c.exists THEN <<Point("freshness.age", <<c.name>>)>> ELSE <<>>
           Family(c) == <<Point("freshness.healthy", <<c.name>>)>> \o Age(c)
           seqs == [i \in DOMAIN s.checks |-> Family(s.checks[i])]
           A == {"freshness.healthy"}
           B == {"freshness.age"}
<1>1. FreshnessPoints(s) = FlattenSeq(seqs)  BY DEF FreshnessPoints, Each
<1>2. s.checks \in Seq(T)  BY DEF Snapshots
<1>3. /\ DOMAIN s.checks = 1 .. Len(s.checks) /\ Len(s.checks) \in Nat
      /\ \A i \in DOMAIN s.checks : s.checks[i] \in T
  <2> HIDE DEF T
  <2> QED  BY <1>2, OfSeq
<1>4. \A i \in DOMAIN s.checks : s.checks[i].name \in Texts  BY <1>3, LabelTexts
<1>5. "freshness.healthy" \in Texts /\ "freshness.age" \in Texts
  BY DEF Texts, MetricNames, FreshnessNames
<1>6. ASSUME NEW c, c.name \in Texts PROVE IsFamily(Family(c), A \cup B, {}, <<c.name>>)
  <2> DEFINE l == <<c.name>>
             p == <<Point("freshness.healthy", l)>>
             q == Age(c)
  <2>1. l \in TextSeqs  BY <1>6, ShortLabels
  <2>2. IsFamily(p, A, {}, l) /\ IsFamily(<<Point("freshness.age", l)>>, B, {}, l)
    <3> HIDE DEF l
    <3> QED  BY <1>5, <2>1, OneReading
  <2>3. IsFamily(q, B, {}, l)  BY <2>2, NoPoints
  <2>4. A \cap B = {} /\ Family(c) = p \o q  OBVIOUS
  <2> HIDE DEF p, q, l, A, B, Family
  <2>5. IsFamily(p \o q, A \cup B, {} \cup {}, l)  BY <2>2, <2>3, <2>4, JoinFamilies
  <2>6. IsFamily(p \o q, A \cup B, {}, l)  BY <2>5, WiderFamily
  <2> QED  BY <2>4, <2>6 DEF l
<1> DEFINE N == A \cup B
<1>7. names \in TextSeqs /\ DOMAIN names = DOMAIN s.checks
  <2>1. names = [i \in 1 .. Len(s.checks) |-> names[i]] /\ \A i \in 1 .. Len(s.checks) : names[i] \in Texts
    BY <1>3, <1>4
  <2> DEFINE n == Len(s.checks)
  <2>3. names = [i \in 1 .. n |-> names[i]] /\ \A i \in 1 .. n : names[i] \in Texts
    BY <2>1
  <2>4. n \in Nat  BY <1>3
  <2> HIDE DEF names, n
  <2>2. names \in TextSeqs  BY <2>3, <2>4 DEF TextSeqs
  <2> QED  BY <1>3, <2>1, <2>2 DEF names
<1>8. seqs = [i \in DOMAIN names |-> seqs[i]] /\ \A i \in DOMAIN names : IsFamily(seqs[i], N, {}, <<names[i]>>)
  <2> HIDE DEF Family, A, B
  <2> QED  BY <1>4, <1>6, <1>7
<1>9. N \subseteq FreshnessNames  BY DEF FreshnessNames
<1>10. FlattenSeq(seqs) \in Seq(MetricPoints)
  <2> DEFINE n == Len(s.checks)
  <2>1. n \in Nat /\ seqs = [i \in 1 .. n |-> seqs[i]] /\ DOMAIN names = 1 .. n  BY <1>3, <1>7
  <2> HIDE DEF seqs, names, n, N
  <2>2. \A i \in 1 .. n : seqs[i] \in Seq(MetricPoints)  BY <1>8, <2>1 DEF IsFamily
  <2> QED  BY <2>1, <2>2, PointsTogether
<1>11. ASSUME IsInjective(names) PROVE IsBlock(FlattenSeq(seqs), FreshnessNames)
  <2> HIDE DEF seqs, names, N
  <2>1. IsBlock(FlattenSeq(seqs), N \cup {})  BY <1>7, <1>8, <1>11, PerName
  <2> QED  BY <1>9, <2>1, WiderBlock
<1> HIDE DEF seqs
<1> QED  BY <1>1, <1>10, <1>11

(* The records of a sequence and one of their fields. *)
LEMMA FieldOf ==
    ASSUME NEW n \in Nat, NEW S, NEW f, f = [i \in 1 .. n |-> f[i]], \A i \in 1 .. n : f[i] \in S
    PROVE  f \in Seq(S)
<1>1. f \in [1 .. n -> S]  OBVIOUS
<1> QED  BY <1>1

(* The objects of the configured resources, if none is listed twice. *)
LEMMA ConditionBlock ==
    ASSUME NEW s, s \in Snapshots("conditions")
    PROVE  /\ ConfiguredConditionPoints(s) \in Seq(MetricPoints)
           /\ IsInjective([i \in DOMAIN s.items |-> s.items[i].labels])
              /\ (\A i \in DOMAIN s.items : IsInjective(s.items[i].conditions))
                 => IsBlock(ConfiguredConditionPoints(s), ConditionNames)
<1> DEFINE T == [labels : Labels, conditions : Labels]
           ls == [i \in DOMAIN s.items |-> s.items[i].labels]
           Shown(o) == IF o.conditions = <<>> THEN <<"Ready">> ELSE o.conditions
           seqs == [i \in DOMAIN s.items |-> EachOf("resource.condition", s.items[i].labels, Shown(s.items[i]))]
           n == Len(s.items)
<1>1. ConfiguredConditionPoints(s) = FlattenSeq(seqs)  BY DEF ConfiguredConditionPoints, Each
<1>2. s.items \in Seq(T)  BY DEF Snapshots
<1>3. DOMAIN s.items = 1 .. n /\ n \in Nat /\ \A i \in DOMAIN s.items : s.items[i] \in T
  <2> HIDE DEF T
  <2> QED  BY <1>2, OfSeq
<1>4. ASSUME NEW i \in DOMAIN s.items
      PROVE  /\ s.items[i].labels \in TextSeqs
             /\ Shown(s.items[i]) \in TextSeqs
             /\ IsInjective(s.items[i].conditions) => IsInjective(Shown(s.items[i]))
  <2>1. s.items[i].labels \in Labels /\ s.items[i].conditions \in Labels  BY <1>3
  <2>2. <<"Ready">> \in TextSeqs /\ IsInjective(<<"Ready">>)  BY LiteralLists DEF IsList
  <2> QED  BY <2>1, <2>2, LabelTexts
<1>5. "resource.condition" \in Texts  BY DEF Texts, MetricNames, ConditionNames
<1>6. \A i \in DOMAIN s.items :
        /\ seqs[i] \in Seq(MetricPoints)
        /\ IsInjective(s.items[i].conditions) => IsFamily(seqs[i], {}, {"resource.condition"}, ls[i])
  <2> HIDE DEF Shown
  <2> QED  BY <1>4, <1>5, EachOfIsFamily
<1>7. ls \in Seq(TextSeqs) /\ DOMAIN ls = DOMAIN s.items
  <2>1. ls = [i \in 1 .. n |-> ls[i]] /\ \A i \in 1 .. n : ls[i] \in TextSeqs  BY <1>3, <1>4
  <2>2. DOMAIN ls = DOMAIN s.items  OBVIOUS
  <2> HIDE DEF ls, n
  <2> QED  BY <1>3, <2>1, <2>2, FieldOf
<1>8. FlattenSeq(seqs) \in Seq(MetricPoints)
  <2>1. seqs = [i \in 1 .. n |-> seqs[i]] /\ \A i \in 1 .. n : seqs[i] \in Seq(MetricPoints)
    BY <1>3, <1>6
  <2> HIDE DEF seqs, n
  <2> QED  BY <1>3, <2>1, PointsTogether
<1>9. ASSUME IsInjective(ls), \A i \in DOMAIN s.items : IsInjective(s.items[i].conditions)
      PROVE  IsBlock(FlattenSeq(seqs), ConditionNames)
  <2> DEFINE M == {"resource.condition"}
  <2>1. \A i \in DOMAIN s.items : IsFamily(seqs[i], {}, M, ls[i])  BY <1>6, <1>9
  <2>2. seqs = [i \in DOMAIN ls |-> seqs[i]] /\ \A i \in DOMAIN ls : IsFamily(seqs[i], {}, M, ls[i])
    BY <1>7, <2>1
  <2>3. {} \cup M \subseteq ConditionNames  BY DEF ConditionNames
  <2> HIDE DEF seqs, ls, M
  <2>4. IsBlock(FlattenSeq(seqs), {} \cup M)  BY <1>7, <1>9, <2>2, PerLabels
  <2> QED  BY <2>3, <2>4, WiderBlock
<1> HIDE DEF seqs
<1> QED  BY <1>1, <1>8, <1>9

LEMMA RootBlock ==
    ASSUME NEW s
    PROVE  IsBlock(RootFilesystemPoints(s), FilesystemNames)
<1> DEFINE bytes == EachOf("filesystem.bytes", <<>>, RootFields)
           used == EachOf("filesystem.utilization", <<>>, <<"used_percent", "inodes_used_percent">>)
           healthy == <<Point("filesystem.healthy", <<>>)>>
           first == IF HasFailed(s) THEN <<>> ELSE bytes \o used
           A == {"filesystem.bytes"}
           B == {"filesystem.utilization"}
           C == {"filesystem.healthy"}
<1>1. RootFilesystemPoints(s) = first \o healthy  BY DEF RootFilesystemPoints
<1>2. /\ "filesystem.bytes" \in Texts /\ "filesystem.utilization" \in Texts
      /\ "filesystem.healthy" \in Texts
  BY DEF Texts, MetricNames, FilesystemNames
<1>3. IsBlock(bytes, A)  BY <1>2, ShortLabels, SmallBlocks, LiteralLists
<1>4. IsBlock(used, B)  BY <1>2, ShortLabels, SmallBlocks, LiteralLists
<1>5. IsBlock(healthy, C)  BY <1>2, ShortLabels, SmallBlocks
<1>6. A \cap B = {} /\ (A \cup B) \cap C = {} /\ A \cup B \cup C \subseteq FilesystemNames
  BY DEF FilesystemNames
<1>7. IsBlock(first, A \cup B)
  <2> HIDE DEF bytes, used, A, B
  <2> QED  BY <1>3, <1>4, <1>6, JoinBlocks, NoPoints
<1> HIDE DEF first, healthy, A, B, C
<1>8. IsBlock(first \o healthy, A \cup B \cup C)  BY <1>5, <1>6, <1>7, JoinBlocks
<1> QED  BY <1>1, <1>6, <1>8, WiderBlock

(* The points of one volume. *)
ClaimNames == {"claim.used", "claim.requested", "claim.capacity", "claim.scan_healthy",
               "claim.finalizers"}
IsVolume(v) == /\ ClaimLabels(v) \in TextSeqs
               /\ v.conditions \in TextSeqs /\ IsInjective(v.conditions)
LEMMA ClaimFamily ==
    ASSUME NEW v, IsVolume(v)
    PROVE  IsFamily(ClaimPoints(v), ClaimNames, {"claim.condition"}, ClaimLabels(v))
<1> DEFINE l == ClaimLabels(v)
           used == IF v.measured THEN <<Point("claim.used", l)>> ELSE <<>>
           requested == IF v.requested THEN <<Point("claim.requested", l)>> ELSE <<>>
           three == <<Point("claim.capacity", l), Point("claim.scan_healthy", l),
                      Point("claim.finalizers", l)>>
           conditions == EachOf("claim.condition", l, v.conditions)
           A == {"claim.used"}
           B == {"claim.requested"}
           C == {"claim.capacity", "claim.scan_healthy", "claim.finalizers"}
           D == {"claim.condition"}
           E == {"claim.condition"}
<1>1. ClaimPoints(v) = used \o requested \o three \o conditions  BY DEF ClaimPoints
<1>2. l \in TextSeqs /\ v.conditions \in TextSeqs /\ IsInjective(v.conditions)  BY DEF IsVolume
<1>3. /\ "claim.used" \in Texts /\ "claim.requested" \in Texts /\ "claim.capacity" \in Texts
      /\ "claim.scan_healthy" \in Texts /\ "claim.finalizers" \in Texts
      /\ "claim.condition" \in Texts
  BY DEF Texts, MetricNames, VolumeNames
<1> HIDE DEF l
<1>4. IsFamily(used, A, {}, l) /\ IsFamily(requested, B, {}, l)
  <2>1. IsFamily(<<Point("claim.used", l)>>, A, {}, l)  BY <1>2, <1>3, OneReading
  <2>2. IsFamily(<<Point("claim.requested", l)>>, B, {}, l)  BY <1>2, <1>3, OneReading
  <2> HIDE DEF A, B
  <2> QED  BY <2>1, <2>2, NoPoints
<1>5. IsFamily(three, C, {}, l)
  <2> DEFINE ns == <<"claim.capacity", "claim.scan_healthy", "claim.finalizers">>
  <2>1. ns \in [1 .. 3 -> C] /\ IsInjective(ns) /\ C \subseteq Texts  BY <1>3 DEF IsInjective
  <2>2. three = [i \in 1 .. 3 |-> Point(ns[i], l)]  OBVIOUS
  <2> HIDE DEF three, ns, C
  <2> QED  BY <1>2, <2>1, <2>2, PlainFamily
<1>6. IsFamily(conditions, {}, D, l)  BY <1>2, <1>3, EachOfIsFamily
<1>7. /\ (A \cup {}) \cap (B \cup {}) = {} /\ (A \cup B \cup {}) \cap (C \cup {}) = {}
      /\ (A \cup B \cup C \cup {}) \cap ({} \cup D) = {}
      /\ A \cup B \cup C \cup {} \subseteq ClaimNames /\ {} \cup D \subseteq E
  BY DEF ClaimNames
<1> HIDE DEF used, requested, three, conditions, A, B, C, D, E
<1>8. IsFamily(used \o requested, A \cup B, {} \cup {}, l)  BY <1>4, <1>7, JoinFamilies
<1>9. IsFamily(used \o requested, A \cup B, {}, l)  BY <1>8, WiderFamily
<1>10. IsFamily(used \o requested \o three, A \cup B \cup C, {} \cup {}, l)
  BY <1>5, <1>7, <1>9, JoinFamilies
<1>11. IsFamily(used \o requested \o three, A \cup B \cup C, {}, l)  BY <1>10, WiderFamily
<1>12. IsFamily(used \o requested \o three \o conditions, A \cup B \cup C \cup {}, {} \cup D, l)
  BY <1>6, <1>7, <1>11, JoinFamilies
<1>13. IsFamily(used \o requested \o three \o conditions, ClaimNames, E, l)
  <2> DEFINE ps == used \o requested \o three \o conditions
             N == A \cup B \cup C \cup {}
             M == {} \cup D
  <2>1. IsFamily(ps, N, M, l) /\ N \subseteq ClaimNames /\ M \subseteq E  BY <1>7, <1>12
  <2> HIDE DEF ps, N, M
  <2>2. IsFamily(ps, ClaimNames, E, l)  BY <2>1, WiderFamily
  <2> QED  BY <2>2 DEF ps
<1> QED  BY <1>1, <1>13 DEF l, E

(* Every volume, if no two are of one claim. *)
LEMMA VolumeBlock ==
    ASSUME NEW s,
           s = Raised \/ (s \in Snapshots("volumes") /\ ListsOnce("volumes", s))
    PROVE  /\ VolumePoints(s) \in Seq(MetricPoints)
           /\ HasFailed(s) \/ IsInjective([i \in DOMAIN s.volumes |-> ClaimLabels(s.volumes[i])])
                 => IsBlock(VolumePoints(s), VolumeNames)
<1> DEFINE T == [namespace : STRING, claim : STRING, requested : BOOLEAN, measured : BOOLEAN,
                 conditions : Labels]
           Counts == <<"volume_count", "pod_count", "truncated_volume_count">>
           Family(n) == <<Point("volume.used", <<n>>)>> \o EachOf("volume.namespace", <<n>>, Counts)
           spaces == [i \in DOMAIN s.namespaces |-> Family(s.namespaces[i])]
           claims == [i \in DOMAIN s.volumes |-> ClaimPoints(s.volumes[i])]
           paths == <<Point("volume.unattributed_paths", <<>>)>>
           used == <<Point("volume.unattributed_used", <<>>)>>
           first == IF HasFailed(s) THEN <<>>
                    ELSE FlattenSeq(spaces) \o FlattenSeq(claims) \o paths
           A == {"volume.used"}
           B == {"volume.namespace"}
           C == ClaimNames
           D == {"claim.condition"}
           E == {"volume.unattributed_paths"}
           F == {"volume.unattributed_used"}
<1>1. VolumePoints(s) = first \o used  BY DEF VolumePoints, Each
<1>2. /\ "volume.used" \in Texts /\ "volume.namespace" \in Texts
      /\ "volume.unattributed_paths" \in Texts /\ "volume.unattributed_used" \in Texts
      /\ "default" \in Texts /\ "unbound" \in Texts
  BY DEF Texts, MetricNames, VolumeNames, LabelValues
<1>3. IsBlock(paths, E) /\ IsBlock(used, F)  BY <1>2, ShortLabels, SmallBlocks
<1>4. ~HasFailed(s) => s \in Snapshots("volumes") /\ ListsOnce("volumes", s)
  BY DEF Raised, HasFailed
<1>5. ASSUME NEW n \in Texts PROVE IsFamily(Family(n), A, B, <<n>>)
  <2> DEFINE l == <<n>>
             p == <<Point("volume.used", l)>>
             q == EachOf("volume.namespace", l, Counts)
  <2>1. l \in TextSeqs /\ Counts \in TextSeqs /\ IsInjective(Counts)
    BY ShortLabels, LiteralLists DEF IsList
  <2>2. IsFamily(p, A, {}, l) /\ IsFamily(q, {}, B, l)
    <3> HIDE DEF l, Counts
    <3> QED  BY <1>2, <2>1, OneReading, EachOfIsFamily
  <2>3. (A \cup {}) \cap ({} \cup B) = {} /\ Family(n) = p \o q  OBVIOUS
  <2> HIDE DEF p, q, l, A, B, Family
  <2>4. IsFamily(p \o q, A \cup {}, {} \cup B, l)  BY <2>2, <2>3, JoinFamilies
  <2>5. IsFamily(p \o q, A, B, l)  BY <2>4, WiderFamily
  <2> QED  BY <2>3, <2>5 DEF l
<1>6. ASSUME ~HasFailed(s) PROVE IsBlock(FlattenSeq(spaces), A \cup B)
  <2>1. s.namespaces \in TextSeqs /\ IsInjective(s.namespaces)
    BY <1>4, <1>6, LabelTexts DEF Snapshots, ListsOnce
  <2>2. \A i \in DOMAIN s.namespaces : s.namespaces[i] \in Texts  BY <2>1, OfSeq DEF TextSeqs
  <2>3. \A i \in DOMAIN s.namespaces : IsFamily(spaces[i], A, B, <<s.namespaces[i]>>)
    <3> HIDE DEF Family, A, B
    <3> QED  BY <1>5, <2>2
  <2>4. spaces = [i \in DOMAIN s.namespaces |-> spaces[i]] /\ A \cap B = {}  OBVIOUS
  <2> DEFINE names == s.namespaces
  <2>5. /\ names \in TextSeqs /\ IsInjective(names) /\ spaces = [i \in DOMAIN names |-> spaces[i]]
        /\ \A i \in DOMAIN names : IsFamily(spaces[i], A, B, <<names[i]>>)
    BY <2>1, <2>3, <2>4
  <2> HIDE DEF spaces, names, A, B
  <2> QED  BY <2>4, <2>5, PerName
<1>7. ASSUME ~HasFailed(s)
      PROVE  /\ FlattenSeq(claims) \in Seq(MetricPoints)
             /\ IsInjective([i \in DOMAIN s.volumes |-> ClaimLabels(s.volumes[i])])
                   => IsBlock(FlattenSeq(claims), C \cup D)
  <2> DEFINE n == Len(s.volumes)
             ls == [i \in DOMAIN s.volumes |-> ClaimLabels(s.volumes[i])]
  <2>1. s.volumes \in Seq(T)  BY <1>4, <1>7 DEF Snapshots
  <2>2. DOMAIN s.volumes = 1 .. n /\ n \in Nat /\ \A i \in DOMAIN s.volumes : s.volumes[i] \in T
    <3> HIDE DEF T
    <3> QED  BY <2>1, OfSeq
  <2>3. ASSUME NEW i \in DOMAIN s.volumes PROVE IsVolume(s.volumes[i])
    <3> DEFINE v == s.volumes[i]
    <3>1. v.namespace \in Texts /\ v.claim \in Texts /\ v.conditions \in TextSeqs
      <4>1. v.namespace \in STRING /\ v.claim \in STRING /\ v.conditions \in Labels  BY <2>2
      <4> QED  BY <4>1, LabelTexts
    <3>2. IsInjective(v.conditions)  BY <1>4, <1>7 DEF ListsOnce
    <3> HIDE DEF v
    <3>3. ClaimLabels(v) \in TextSeqs  BY <1>2, <3>1, ShortLabels DEF ClaimLabels
    <3>4. IsVolume(v)  BY <3>1, <3>2, <3>3 DEF IsVolume
    <3> QED  BY <3>4 DEF v
  <2>4. \A i \in DOMAIN s.volumes : IsFamily(claims[i], C, D, ls[i])  BY <2>3, ClaimFamily
  <2>5. ls \in Seq(TextSeqs) /\ DOMAIN ls = DOMAIN s.volumes
    <3>1. ls = [i \in 1 .. n |-> ls[i]] /\ \A i \in 1 .. n : ls[i] \in TextSeqs
      BY <2>2, <2>3 DEF IsVolume
    <3>2. DOMAIN ls = DOMAIN s.volumes  OBVIOUS
    <3> HIDE DEF ls, n
    <3> QED  BY <2>2, <3>1, <3>2, FieldOf
  <2>6. claims = [i \in DOMAIN ls |-> claims[i]] /\ \A i \in DOMAIN ls : IsFamily(claims[i], C, D, ls[i])
    BY <2>4, <2>5
  <2>7. C \cap D = {}  BY DEF ClaimNames
  <2>8. FlattenSeq(claims) \in Seq(MetricPoints)
    <3>1. claims = [i \in 1 .. n |-> claims[i]]  BY <2>2
    <3> HIDE DEF claims, C, D, n
    <3>2. \A i \in 1 .. n : claims[i] \in Seq(MetricPoints)  BY <2>2, <2>4 DEF IsFamily
    <3> QED  BY <2>2, <3>1, <3>2, PointsTogether
  <2>9. ASSUME IsInjective(ls) PROVE IsBlock(FlattenSeq(claims), C \cup D)
    <3> HIDE DEF claims, ls, C, D
    <3> QED  BY <2>5, <2>6, <2>7, <2>9, PerLabels
  <2> HIDE DEF claims
  <2> QED  BY <2>8, <2>9
<1> DEFINE G == A \cup B
           H == C \cup D
<1>8. /\ G \cap H = {} /\ (G \cup H) \cap E = {} /\ (G \cup H \cup E) \cap F = {}
      /\ G \cup H \cup E \cup F \subseteq VolumeNames
  BY DEF VolumeNames, ClaimNames
<1>9. ASSUME HasFailed(s) \/ IsInjective([i \in DOMAIN s.volumes |-> ClaimLabels(s.volumes[i])])
      PROVE  IsBlock(first, G \cup H \cup E)
  <2>1. CASE HasFailed(s)  BY <2>1, NoPoints
  <2>2. CASE ~HasFailed(s)
    <3> DEFINE p == FlattenSeq(spaces)
               q == FlattenSeq(claims)
    <3>1. IsBlock(p, G) /\ IsBlock(q, H)  BY <1>6, <1>7, <1>9, <2>2
    <3>2. first = p \o q \o paths  BY <2>2
    <3> HIDE DEF p, q, paths, G, H, E, first
    <3>3. IsBlock(p \o q, G \cup H)  BY <1>8, <3>1, JoinBlocks
    <3>4. IsBlock(p \o q \o paths, G \cup H \cup E)  BY <1>3, <1>8, <3>3, JoinBlocks
    <3> QED  BY <3>2, <3>4
  <2> QED  BY <2>1, <2>2
<1>10. first \in Seq(MetricPoints)
  <2>1. CASE HasFailed(s)  BY <2>1
  <2>2. CASE ~HasFailed(s)
    <3> DEFINE p == FlattenSeq(spaces)
               q == FlattenSeq(claims)
    <3>1. p \in Seq(MetricPoints) /\ q \in Seq(MetricPoints) /\ paths \in Seq(MetricPoints)
      BY <1>3, <1>6, <1>7, <2>2 DEF IsBlock
    <3>2. first = p \o q \o paths  BY <2>2
    <3> HIDE DEF p, q, paths, first
    <3>3. p \o q \in Seq(MetricPoints)  BY <3>1, JoinSeqs
    <3> QED  BY <3>1, <3>2, <3>3, JoinSeqs
  <2> QED  BY <2>1, <2>2
<1>11. first \o used \in Seq(MetricPoints)
  <2> HIDE DEF first, used
  <2> QED  BY <1>3, <1>10, JoinSeqs DEF IsBlock
<1>12. ASSUME HasFailed(s) \/ IsInjective([i \in DOMAIN s.volumes |-> ClaimLabels(s.volumes[i])])
       PROVE  IsBlock(VolumePoints(s), VolumeNames)
  <2> HIDE DEF first, used, E, F, G, H
  <2>1. IsBlock(first \o used, G \cup H \cup E \cup F)  BY <1>3, <1>8, <1>9, <1>12, JoinBlocks
  <2> QED  BY <1>1, <1>8, <2>1, WiderBlock
<1> QED  BY <1>1, <1>11, <1>12

-----------------------------------------------------------------------------
(* The points of every source, and of all.                                    *)
MetricSources == {"contention", "kubelet", "health", "scheduled_work", "freshness", "conditions",
            "filesystem", "volumes"}
LEMMA SourcesListed ==
    /\ SourcesInOrder \in TextSeqs /\ IsInjective(SourcesInOrder) /\ Len(SourcesInOrder) = 8
    /\ DOMAIN SourcesInOrder = 1 .. 8 /\ ToSet(SourcesInOrder) = MetricSources
    /\ \A i \in 1 .. 8 : SourcesInOrder[i] \in MetricSources
<1>1. DOMAIN SourcesInOrder = 1 .. 8 /\ Len(SourcesInOrder) = 8  BY DEF SourcesInOrder
<1>2. \A i \in 1 .. 8 : SourcesInOrder[i] \in MetricSources  BY DEF SourcesInOrder, MetricSources
<1>3. \A i, j \in 1 .. 8 : SourcesInOrder[i] = SourcesInOrder[j] => i = j  BY DEF SourcesInOrder
<1>4. MetricSources \subseteq Texts  BY DEF MetricSources, Texts, LabelValues
<1>5. SourcesInOrder = [i \in 1 .. 8 |-> SourcesInOrder[i]]  BY DEF SourcesInOrder
<1>6. SourcesInOrder \in TextSeqs  BY <1>2, <1>4, <1>5 DEF TextSeqs
<1>7. \A x \in MetricSources : \E i \in 1 .. 8 : SourcesInOrder[i] = x
  <2>1. /\ SourcesInOrder[1] = "contention" /\ SourcesInOrder[2] = "kubelet"
        /\ SourcesInOrder[3] = "health" /\ SourcesInOrder[4] = "scheduled_work"
        /\ SourcesInOrder[5] = "freshness" /\ SourcesInOrder[6] = "conditions"
        /\ SourcesInOrder[7] = "filesystem" /\ SourcesInOrder[8] = "volumes"
    BY DEF SourcesInOrder
  <2> QED  BY <2>1 DEF MetricSources
<1>8. ToSet(SourcesInOrder) = MetricSources  BY <1>1, <1>2, <1>7 DEF ToSet
<1> QED  BY <1>1, <1>2, <1>3, <1>6, <1>8 DEF IsInjective

LEMMA NamesApart ==
    \A a, b \in MetricSources : a # b => NamesOf(a) \cap NamesOf(b) = {}
BY DEF MetricSources, NamesOf, ContentionNames, KubeletNames, HealthNames, WorkNames, FreshnessNames,
       ConditionNames, FilesystemNames, VolumeNames

LEMMA NotSourceNames ==
    \A a \in MetricSources : NamesOf(a) \cap SourceNames = {}
BY DEF MetricSources, NamesOf, ContentionNames, KubeletNames, HealthNames, WorkNames, FreshnessNames,
       ConditionNames, FilesystemNames, VolumeNames, SourceNames

LEMMA OneSource ==
    ASSUME NEW source \in DOMAIN collected, IsCollection(collected)
    PROVE  /\ PointsOf(source, collected[source]) \in Seq(MetricPoints)
           /\ NamesAreOwn => IsBlock(PointsOf(source, collected[source]), NamesOf(source))
<1> DEFINE s == collected[source]
           Good(ps) == /\ ps \in Seq(MetricPoints)
                       /\ NamesAreOwn => IsBlock(ps, NamesOf(source))
<1>1. source \in MetricSources /\ IsSnapshot(source, s)
  BY SourcesListed DEF IsCollection
<1>2. s = Raised \/ (s \in Snapshots(source) /\ ListsOnce(source, s))  BY <1>1 DEF IsSnapshot
<1>3. HasFailed(Raised)  BY DEF HasFailed, Raised
<1> HIDE DEF s
<1>4. ASSUME HasFailed(s), source \notin {"health", "filesystem", "volumes"}
      PROVE  Good(PointsOf(source, s))
  <2>1. PointsOf(source, s) = <<>>  BY <1>4 DEF PointsOf
  <2> QED  BY <2>1, NoPoints
<1>5. ASSUME NEW ps, IsBlock(ps, NamesOf(source)) PROVE Good(ps)  BY <1>5 DEF IsBlock
<1>6. Good(PointsOf(source, s))
  <2>1. CASE source = "contention"
    <3>1. ~HasFailed(s) => /\ PointsOf(source, s) = ContentionPoints(s)
                           /\ s \in Snapshots("contention") /\ ListsOnce("contention", s)
      BY <1>2, <1>3, <2>1 DEF PointsOf, ReadingsOf
    <3>2. ~HasFailed(s) => IsBlock(PointsOf(source, s), NamesOf(source))
      BY <2>1, <3>1, ContentionBlock DEF NamesOf
    <3> HIDE DEF Good
    <3> QED  BY <1>4, <1>5, <2>1, <3>2
  <2>2. CASE source = "kubelet"
    <3>1. ~HasFailed(s) => /\ PointsOf(source, s) = ResourceUsagePoints(s)
                           /\ s \in Snapshots("kubelet") /\ ListsOnce("kubelet", s)
      BY <1>2, <1>3, <2>2 DEF PointsOf, ReadingsOf
    <3>2. ~HasFailed(s) => IsBlock(PointsOf(source, s), NamesOf(source))
      BY <2>2, <3>1, KubeletBlock DEF NamesOf
    <3> HIDE DEF Good
    <3> QED  BY <1>4, <1>5, <2>2, <3>2
  <2>3. CASE source = "health"
    <3>1. PointsOf(source, s) = HealthPointsOf(s)  BY <2>3 DEF PointsOf
    <3>2. s = Raised \/ (s \in Snapshots("health") /\ ListsOnce("health", s))  BY <1>2, <2>3
    <3>3. IsBlock(PointsOf(source, s), NamesOf(source))
      BY <2>3, <3>1, <3>2, HealthBlock DEF NamesOf
    <3> HIDE DEF Good
    <3> QED  BY <1>5, <3>3
  <2>4. CASE source = "scheduled_work"
    <3>1. ~HasFailed(s) => /\ PointsOf(source, s) = ScheduledWorkPoints(s)
                           /\ s \in Snapshots("scheduled_work") /\ ListsOnce("scheduled_work", s)
      BY <1>2, <1>3, <2>4 DEF PointsOf, ReadingsOf
    <3>2. ~HasFailed(s) => IsBlock(PointsOf(source, s), NamesOf(source))
      BY <2>4, <3>1, WorkBlock DEF NamesOf
    <3> HIDE DEF Good
    <3> QED  BY <1>4, <1>5, <2>4, <3>2
  <2>5. CASE source = "freshness"
    <3>1. ~HasFailed(s) => PointsOf(source, s) = FreshnessPoints(s) /\ s \in Snapshots("freshness")
      BY <1>2, <1>3, <2>5 DEF PointsOf, ReadingsOf
    <3>2. NamesAreOwn /\ ~HasFailed(s) => IsInjective([i \in DOMAIN s.checks |-> s.checks[i].name])
      BY <2>5 DEF NamesAreOwn, Answered, s
    <3>3. ~HasFailed(s) => Good(PointsOf(source, s))
      BY <2>5, <3>1, <3>2, FreshnessBlock DEF NamesOf
    <3> HIDE DEF Good
    <3> QED  BY <1>4, <2>5, <3>3
  <2>6. CASE source = "conditions"
    <3>1. ~HasFailed(s) => /\ PointsOf(source, s) = ConfiguredConditionPoints(s)
                           /\ s \in Snapshots("conditions")
      BY <1>2, <1>3, <2>6 DEF PointsOf, ReadingsOf
    <3>2. NamesAreOwn /\ ~HasFailed(s) =>
             /\ IsInjective([i \in DOMAIN s.items |-> s.items[i].labels])
             /\ \A i \in DOMAIN s.items : IsInjective(s.items[i].conditions)
      BY <2>6 DEF NamesAreOwn, Answered, s
    <3>3. ~HasFailed(s) => Good(PointsOf(source, s))
      BY <2>6, <3>1, <3>2, ConditionBlock DEF NamesOf
    <3> HIDE DEF Good
    <3> QED  BY <1>4, <2>6, <3>3
  <2>7. CASE source = "filesystem"
    <3>1. PointsOf(source, s) = RootFilesystemPoints(s)  BY <2>7 DEF PointsOf
    <3>2. IsBlock(PointsOf(source, s), NamesOf(source))  BY <2>7, <3>1, RootBlock DEF NamesOf
    <3> HIDE DEF Good
    <3> QED  BY <1>5, <3>2
  <2>8. CASE source = "volumes"
    <3>1. PointsOf(source, s) = VolumePoints(s)  BY <2>8 DEF PointsOf
    <3>2. s = Raised \/ (s \in Snapshots("volumes") /\ ListsOnce("volumes", s))  BY <1>2, <2>8
    <3>3. NamesAreOwn =>
             HasFailed(s) \/ IsInjective([i \in DOMAIN s.volumes |-> ClaimLabels(s.volumes[i])])
      BY <2>8 DEF NamesAreOwn, Answered, s
    <3> QED  BY <2>8, <3>1, <3>2, <3>3, VolumeBlock DEF NamesOf
  <2> HIDE DEF Good
  <2> QED  BY <1>1, <2>1, <2>2, <2>3, <2>4, <2>5, <2>6, <2>7, <2>8 DEF MetricSources
<1> QED  BY <1>6 DEF s

(* The readings of all sources. *)
LEMMA AllReadings ==
    ASSUME IsCollection(collected)
    PROVE  /\ EachSource(collected, PointsOf) \in Seq(MetricPoints)
           /\ NamesAreOwn => /\ KeysOnce(EachSource(collected, PointsOf), SeriesOf)
                             /\ \A p \in ToSet(EachSource(collected, PointsOf)) : p.name \notin SourceNames
<1> DEFINE S(i) == SourcesInOrder[i]
           seqs == [i \in 1 .. 8 |-> IF S(i) \in DOMAIN collected
                                     THEN PointsOf(S(i), collected[S(i)]) ELSE <<>>]
<1>1. EachSource(collected, PointsOf) = FlattenSeq(seqs)
  BY SourcesListed DEF EachSource, Each
<1>2. \A i \in 1 .. 8 : S(i) \in MetricSources  BY SourcesListed
<1>3. \A i, j \in 1 .. 8 : i # j => S(i) # S(j)  BY SourcesListed DEF IsInjective
<1>4. ASSUME NEW i \in 1 .. 8
      PROVE  seqs[i] \in Seq(MetricPoints) /\ (NamesAreOwn => IsBlock(seqs[i], NamesOf(S(i))))
  <2>1. CASE S(i) \in DOMAIN collected
    <3>1. seqs[i] = PointsOf(S(i), collected[S(i)])  BY <2>1
    <3> QED  BY <2>1, <3>1, OneSource
  <2>2. CASE S(i) \notin DOMAIN collected
    <3>1. seqs[i] = <<>>  BY <2>2
    <3> HIDE DEF seqs, S
    <3> QED  BY <3>1, NoPoints
  <2> QED  BY <2>1, <2>2
<1>5. seqs = [i \in 1 .. 8 |-> seqs[i]]  OBVIOUS
<1> HIDE DEF seqs, S
<1>6. /\ seqs \in Seq(Seq(MetricPoints)) /\ DOMAIN seqs = 1 .. 8
      /\ FlattenSeq(seqs) \in Seq(MetricPoints) /\ ToSet(FlattenSeq(seqs)) = PartsOf(seqs, 8)
  BY <1>4, <1>5, PointsTogether
<1>7. ASSUME NamesAreOwn PROVE KeysOnce(FlattenSeq(seqs), SeriesOf)
  <2>1. ASSUME NEW i \in 1 .. 8, NEW j \in 1 .. 8, i # j, NEW x \in ToSet(seqs[i]), NEW y \in ToSet(seqs[j])
        PROVE  SeriesOf[x] # SeriesOf[y]
    <3>1. x \in MetricPoints /\ y \in MetricPoints  BY <1>4, OfSeq
    <3>2. x.name \in NamesOf(S(i)) /\ y.name \in NamesOf(S(j))  BY <1>4, <1>7 DEF IsBlock
    <3>3. NamesOf(S(i)) \cap NamesOf(S(j)) = {}  BY <1>2, <1>3, <2>1, NamesApart
    <3>4. x.name # y.name  BY <3>2, <3>3
    <3> QED  BY <3>1, <3>4, OtherNames
  <2>2. KeysApart(seqs, SeriesOf)  BY <1>4, <1>6, <1>7, <2>1 DEF KeysApart, IsBlock
  <2> QED  BY <1>6, <2>2, FlattenKeys
<1>8. ASSUME NamesAreOwn, NEW p \in PartsOf(seqs, 8) PROVE p.name \notin SourceNames
  <2>1. PICK i \in 1 .. 8 : p \in ToSet(seqs[i])  BY DEF PartsOf
  <2>2. p.name \in NamesOf(S(i))  BY <1>4, <1>8, <2>1 DEF IsBlock
  <2> QED  BY <1>2, <2>2, NotSourceNames
<1> QED  BY <1>1, <1>6, <1>7, <1>8

(* The health of a source is two points. *)
LEMMA OneSourceHealth ==
    ASSUME NEW a \in MetricSources, NEW s
    PROVE  /\ IsFamily(SourceHealthOf(a, s), {"source.up", "source.errors"}, {}, <<a>>)
           /\ SourceUp(a, s) \in ToSet(SourceHealthOf(a, s))
           /\ Len(SourceHealthOf(a, s)) = 2
<1> DEFINE up == <<SourceUp(a, s)>>
           failures == <<Point("source.errors", <<a>>)>>
           l == <<a>>
           A == {"source.up"}
           B == {"source.errors"}
<1>1. "source.up" \in Texts /\ "source.errors" \in Texts  BY DEF Texts, MetricNames, SourceNames
<1>2. l \in TextSeqs
  <2>1. a \in Texts  BY DEF MetricSources, Texts, LabelValues
  <2> QED  BY <2>1, ShortLabels
<1>3. IsFamily(up, A, {}, l)
  <2> DEFINE p == SourceUp(a, s)
  <2>1. p \in MetricPoints /\ p.name = "source.up" /\ p.labels = l
    BY <1>1, <1>2 DEF SourceUp, MetricPoints
  <2> HIDE DEF p, l
  <2>2. <<p>> \in Seq(MetricPoints) /\ DOMAIN <<p>> = {1} /\ <<p>>[1] = p  BY <2>1
  <2>3. ToSet(<<p>>) = {p}  BY <2>2 DEF ToSet
  <2>4. KeysOnce(<<p>>, SeriesOf)  BY <2>2 DEF KeysOnce
  <2> QED  BY <2>1, <2>2, <2>3, <2>4 DEF IsFamily, p
<1>4. IsFamily(failures, B, {}, l)  BY <1>1, <1>2, OneReading
<1>5. A \cap B = {} /\ A \cup B = {"source.up", "source.errors"} /\ SourceHealthOf(a, s) = up \o failures
  BY DEF SourceHealthOf
<1>6. IsFamily(SourceHealthOf(a, s), A \cup B, {}, l)
  <2> HIDE DEF up, failures, l, A, B
  <2>1. IsFamily(up \o failures, A \cup B, {} \cup {}, l)  BY <1>3, <1>4, <1>5, JoinFamilies
  <2> QED  BY <1>5, <2>1, WiderFamily
<1>7. SourceUp(a, s) \in ToSet(SourceHealthOf(a, s)) /\ Len(SourceHealthOf(a, s)) = 2
  BY DEF SourceHealthOf, ToSet
<1> QED  BY <1>5, <1>6, <1>7

LEMMA HealthOfSources ==
    ASSUME IsCollection(collected)
    PROVE  /\ IsBlock(SourceHealth(collected), SourceNames)
           /\ Len(SourceHealth(collected)) <= 18
           /\ \A s \in DOMAIN collected : SourceUp(s, collected[s]) \in ToSet(SourceHealth(collected))
<1> DEFINE S(i) == SourcesInOrder[i]
           seqs == [i \in 1 .. 8 |-> IF S(i) \in DOMAIN collected
                                     THEN SourceHealthOf(S(i), collected[S(i)]) ELSE <<>>]
           heads == <<Point("exporter.up", <<>>), Point("exporter.cycle.duration", <<>>)>>
           A == {"exporter.up", "exporter.cycle.duration"}
           B == {"source.up", "source.errors"}
<1>1. SourceHealth(collected) = heads \o FlattenSeq(seqs)
  BY SourcesListed DEF SourceHealth, EachSource, Each
<1>2. \A i \in 1 .. 8 : S(i) \in MetricSources  BY SourcesListed
<1>3. ASSUME NEW i \in 1 .. 8
      PROVE  /\ IsFamily(seqs[i], B, {}, <<S(i)>>) /\ Len(seqs[i]) <= 2
             /\ S(i) \in DOMAIN collected => SourceUp(S(i), collected[S(i)]) \in ToSet(seqs[i])
  <2>1. CASE S(i) \in DOMAIN collected
    <3> DEFINE a == S(i)
               h == SourceHealthOf(a, collected[a])
    <3>1. seqs[i] = h /\ a \in MetricSources  BY <1>2, <2>1
    <3>2. Len(h) = 2 => Len(h) <= 2  OBVIOUS
    <3> HIDE DEF seqs, S, a, h, B
    <3>3. /\ IsFamily(h, B, {}, <<a>>) /\ Len(h) = 2
          /\ SourceUp(a, collected[a]) \in ToSet(h)
      BY <3>1, OneSourceHealth DEF h, B
    <3> QED  BY <3>1, <3>2, <3>3 DEF a
  <2>2. CASE S(i) \notin DOMAIN collected
    <3>1. seqs[i] = <<>>  BY <2>2
    <3> QED  BY <2>2, <3>1, NoPoints
  <2> QED  BY <2>1, <2>2
<1>4. seqs = [i \in 1 .. 8 |-> seqs[i]]  OBVIOUS
<1>5. IsBlock(heads, A) /\ Len(heads) = 2
  <2> DEFINE ns == <<"exporter.up", "exporter.cycle.duration">>
             l == <<>>
  <2>1. A \subseteq Texts  BY DEF Texts, MetricNames, SourceNames
  <2>2. ns \in [1 .. 2 -> A] /\ IsInjective(ns)  BY DEF IsInjective
  <2>3. heads = [i \in 1 .. 2 |-> Point(ns[i], l)] /\ l \in TextSeqs /\ Len(heads) = 2  BY ShortLabels
  <2> HIDE DEF heads, ns, l, A
  <2>4. IsFamily(heads, A, {}, l)  BY <2>1, <2>2, <2>3, PlainFamily
  <2>5. IsBlock(heads, A \cup {})  BY <2>4, WiderFamily
  <2> QED  BY <2>3, <2>5, WiderBlock
<1>6. \A i \in 1 .. 8 : seqs[i] \in Seq(MetricPoints)
  <2> HIDE DEF seqs
  <2> QED  BY <1>3 DEF IsFamily
<1>7. A \cap B = {} /\ A \cup B \subseteq SourceNames  BY DEF SourceNames
<1> HIDE DEF seqs, heads, A, B
<1>8. /\ seqs \in Seq(Seq(MetricPoints)) /\ Len(seqs) = 8 /\ DOMAIN seqs = 1 .. 8
      /\ FlattenSeq(seqs) \in Seq(MetricPoints) /\ ToSet(FlattenSeq(seqs)) = PartsOf(seqs, 8)
  BY <1>4, <1>6, PointsTogether
<1>9. IsBlock(FlattenSeq(seqs), B)
  <2> DEFINE names == SourcesInOrder
  <2>1. names \in TextSeqs /\ IsInjective(names) /\ DOMAIN names = 1 .. 8  BY SourcesListed
  <2>2. seqs = [i \in DOMAIN names |-> seqs[i]]  BY <1>4, <2>1
  <2>3. \A i \in DOMAIN names : IsFamily(seqs[i], B, {}, <<names[i]>>)  BY <1>3, <2>1
  <2> HIDE DEF names
  <2>4. IsBlock(FlattenSeq(seqs), B \cup {})  BY <2>1, <2>2, <2>3, PerName
  <2> QED  BY <2>4, WiderBlock
<1>10. IsBlock(heads \o FlattenSeq(seqs), SourceNames)
  <2>1. IsBlock(heads \o FlattenSeq(seqs), A \cup B)  BY <1>5, <1>7, <1>9, JoinBlocks
  <2> QED  BY <1>7, <2>1, WiderBlock
<1>11. /\ Len(heads \o FlattenSeq(seqs)) = 2 + Len(FlattenSeq(seqs))
       /\ ToSet(heads \o FlattenSeq(seqs)) = ToSet(heads) \cup PartsOf(seqs, 8)
  <2> DEFINE flat == FlattenSeq(seqs)
  <2>1. heads \in Seq(MetricPoints) /\ flat \in Seq(MetricPoints)  BY <1>5, <1>8 DEF IsBlock
  <2> HIDE DEF flat
  <2>2. Len(heads \o flat) = Len(heads) + Len(flat) /\ ToSet(heads \o flat) = ToSet(heads) \cup ToSet(flat)
    BY <2>1, JoinSeqs
  <2> QED  BY <1>5, <1>8, <2>2 DEF flat
<1>12. Len(FlattenSeq(seqs)) <= 16
  <2>1. \A i \in 1 .. Len(seqs) : Len(seqs[i]) <= 2  BY <1>3, <1>8
  <2>2. Len(FlattenSeq(seqs)) <= 2 * Len(seqs)  BY <1>8, <2>1, FlattenLength
  <2> QED  BY <1>8, <2>2
<1>13. ASSUME NEW s \in DOMAIN collected PROVE SourceUp(s, collected[s]) \in PartsOf(seqs, 8)
  <2>1. s \in MetricSources  BY SourcesListed DEF IsCollection
  <2>2. PICK i \in 1 .. 8 : S(i) = s  BY <2>1, SourcesListed DEF ToSet
  <2>3. SourceUp(s, collected[s]) \in ToSet(seqs[i])  BY <1>3, <2>2
  <2> QED  BY <2>3 DEF PartsOf
<1>14. Len(FlattenSeq(seqs)) \in Nat  BY <1>8
<1> QED  BY <1>1, <1>10, <1>11, <1>12, <1>13, <1>14

-----------------------------------------------------------------------------
(* A cycle's points or records are one list of ExportPayload. *)
SignalsInv == PayloadInv /\ collected \in Collections /\ listed = Listed

LEMMA SignalsArePayloads == SignalsSpec => PayloadSpec
<1>1. SignalsInit => PayloadInit  BY DEF SignalsInit
<1>2. [SignalsNext]_signalVars => [PayloadNext]_payloadVars  BY DEF SignalsNext, signalVars, payloadVars
<1> QED  BY <1>1, <1>2, PTL DEF SignalsSpec, PayloadSpec

LEMMA ListKeeps ==
    ASSUME collected \in Collections /\ listed = Listed, [SignalsNext]_signalVars
    PROVE  (collected \in Collections /\ listed = Listed)'
<1>1. collected' = collected /\ signal' = signal /\ listed' = listed
  BY DEF SignalsNext, PayloadNext, Cap, Trim, Stop, signalVars, payloadVars
<1> QED  BY <1>1 DEF Listed

LEMMA SignalsInvariant == SignalsSpec => []SignalsInv
<1> DEFINE L == collected \in Collections /\ listed = Listed
<1>1. SignalsInit => L  BY DEF SignalsInit
<1>2. L /\ [SignalsNext]_signalVars => L'  BY ListKeeps
<1> HIDE DEF L
<1>3. SignalsSpec => []L  BY <1>1, <1>2, PTL DEF SignalsSpec
<1>4. PayloadInv /\ L => SignalsInv  BY DEF SignalsInv, L
<1> QED  BY <1>3, <1>4, SignalsArePayloads, PayloadInvariant, PTL

(* All the points of a collection. *)
LEMMA AllPoints ==
    ASSUME IsCollection(collected)
    PROVE  /\ Points(collected) \in Seq(MetricPoints)
           /\ Len(SourceHealth(collected)) <= Len(Points(collected))
           /\ \A i \in 1 .. Len(SourceHealth(collected)) : Points(collected)[i] = SourceHealth(collected)[i]
           /\ NamesAreOwn => KeysOnce(Points(collected), SeriesOf)
<1> DEFINE health == SourceHealth(collected)
           rest == EachSource(collected, PointsOf)
<1>1. Points(collected) = health \o rest  BY DEF Points
<1>2. /\ health \in Seq(MetricPoints) /\ KeysOnce(health, SeriesOf)
      /\ \A p \in ToSet(health) : p.name \in SourceNames
  BY HealthOfSources DEF IsBlock
<1>3. /\ rest \in Seq(MetricPoints)
      /\ NamesAreOwn => /\ KeysOnce(rest, SeriesOf)
                        /\ \A p \in ToSet(rest) : p.name \notin SourceNames
  BY AllReadings
<1> HIDE DEF health, rest
<1>4. /\ health \o rest \in Seq(MetricPoints) /\ Len(health) <= Len(health \o rest)
      /\ \A i \in 1 .. Len(health) : (health \o rest)[i] = health[i]
  <2>1. /\ health \o rest \in Seq(MetricPoints) /\ Len(health \o rest) = Len(health) + Len(rest)
        /\ \A i \in 1 .. Len(health) : (health \o rest)[i] = health[i]
    BY <1>2, <1>3, JoinSeqs
  <2>2. Len(health) \in Nat /\ Len(rest) \in Nat  BY <1>2, <1>3
  <2> QED  BY <2>1, <2>2
<1>5. ASSUME NamesAreOwn PROVE KeysOnce(health \o rest, SeriesOf)
  <2>1. ASSUME NEW x \in ToSet(health), NEW y \in ToSet(rest) PROVE SeriesOf[x] # SeriesOf[y]
    <3>1. x \in MetricPoints /\ y \in MetricPoints  BY <1>2, <1>3, OfSeq
    <3>2. x.name # y.name  BY <1>2, <1>3, <1>5
    <3> QED  BY <3>1, <3>2, OtherNames
  <2> QED  BY <1>2, <1>3, <1>5, <2>1, JoinKeys
<1> QED  BY <1>1, <1>4, <1>5 DEF health

(* Keys that occur once are as many as there are elements. *)
LEMMA KeysCounted ==
    ASSUME NEW ps \in Seq(MetricPoints), KeysOnce(ps, SeriesOf)
    PROVE  Cardinality({<<p.name, p.labels>> : p \in ToSet(ps)}) = Len(ps)
<1> DEFINE n == Len(ps)
           K == {<<p.name, p.labels>> : p \in ToSet(ps)}
           f == [i \in 1 .. n |-> SeriesOf[ps[i]]]
<1>1. n \in Nat /\ DOMAIN ps = 1 .. n /\ \A i \in 1 .. n : ps[i] \in MetricPoints /\ ps[i] \in ToSet(ps)
  BY OfSeq
<1>2. \A i \in 1 .. n : f[i] = <<ps[i].name, ps[i].labels>>  BY <1>1 DEF SeriesOf
<1>3. \A i \in 1 .. n : f[i] \in K  BY <1>1, <1>2
<1>4. ASSUME NEW x \in K PROVE \E i \in 1 .. n : f[i] = x
  <2>1. PICK p \in ToSet(ps) : x = <<p.name, p.labels>>  OBVIOUS
  <2>2. PICK i \in 1 .. n : ps[i] = p  BY <1>1 DEF ToSet
  <2>3. f[i] = <<p.name, p.labels>>  BY <1>2, <2>2
  <2> QED  BY <2>1, <2>3
<1>5. \A i, j \in 1 .. n : f[i] = f[j] => i = j  BY <1>1 DEF KeysOnce
<1>6. f = [i \in 1 .. n |-> f[i]]  OBVIOUS
<1> HIDE DEF n, K, f
<1>7. f \in Bijection(1 .. n, K)  BY <1>3, <1>4, <1>5, <1>6 DEF Bijection, Injection, Surjection, IsInjective
<1>8. IsFiniteSet(1 .. n) /\ Cardinality(1 .. n) = n  BY <1>1, FS_Interval
<1>9. Cardinality(K) = n
  <2>1. ExistsBijection(1 .. n, K)  BY <1>7 DEF ExistsBijection
  <2> QED  BY <1>1, <2>1, FS_CountingElements
<1> QED  BY <1>9 DEF n, K

(* EverySourceTold: whatever the caps cut off, a body that has room for the   *)
(* health of all sources says of each of them whether it raised.              *)
THEOREM EverySourceIsTold == SignalsSpec => []EverySourceTold
<1>1. ASSUME SignalsInv PROVE EverySourceTold
  <2> DEFINE points == Points(collected)
             health == SourceHealth(collected)
             sent == SubSeq(points, 1, kept)
  <2> SUFFICES ASSUME signal = "metrics", pc = "done", fits >= Len(health), NEW s \in DOMAIN collected
               PROVE  SourceUp(s, collected[s]) \in ToSet(sent)
    BY DEF EverySourceTold
  <2>1. IsCollection(collected)  BY <1>1, CollectionsAssumption DEF SignalsInv
  <2>2. /\ points \in Seq(MetricPoints) /\ Len(health) <= Len(points)
        /\ \A i \in 1 .. Len(health) : points[i] = health[i]
    BY <2>1, AllPoints
  <2>3. health \in Seq(MetricPoints) /\ Len(health) <= 18 /\ SourceUp(s, collected[s]) \in ToSet(health)
    BY <2>1, HealthOfSources DEF IsBlock
  <2>4. Len(health) \in Nat /\ Len(points) \in Nat /\ listed = Len(points)
    BY <1>1, <2>2, <2>3 DEF SignalsInv, Listed
  <2>5. HealthPoints = 18  BY SourcesListed, HealthAssumption
  <2>6. kept >= Len(health) /\ kept <= Len(points) /\ kept \in Nat
    <3>1. /\ kept \in Nat /\ dropped \in Nat /\ fits \in Int /\ kept + dropped = listed
          /\ kept >= Least(HealthPoints, Least(listed, fits))
      BY <1>1 DEF SignalsInv, PayloadInv, PayloadTypeOK, NothingUncounted, HealthSurvives
    <3> HIDE DEF points, health
    <3> QED  BY <2>2, <2>3, <2>4, <2>5, <3>1 DEF Least
  <2>7. PICK i \in DOMAIN health : health[i] = SourceUp(s, collected[s])  BY <2>3 DEF ToSet
  <2>8. DOMAIN health = 1 .. Len(health)  BY <2>3
  <2> HIDE DEF points, health
  <2>9. i \in 1 .. kept /\ points[i] = health[i]  BY <2>2, <2>4, <2>6, <2>7, <2>8
  <2>10. DOMAIN sent = 1 .. kept /\ sent[i] = points[i]  BY <2>2, <2>4, <2>6, <2>9
  <2> QED  BY <2>7, <2>9, <2>10 DEF ToSet
<1> QED  BY <1>1, SignalsInvariant, PTL

(* OneSeriesOnePoint: for every collection of snapshots in which volumes,     *)
(* checks and configured objects have names of their own, the points of one   *)
(* request are points of different series.                                    *)
THEOREM SeriesHaveOnePoint == SignalsSpec => []OneSeriesOnePoint
<1>1. ASSUME SignalsInv PROVE OneSeriesOnePoint
  <2> SUFFICES ASSUME NamesAreOwn
               PROVE  Cardinality({<<p.name, p.labels>> : p \in ToSet(Points(collected))}) = Len(Points(collected))
    BY DEF OneSeriesOnePoint
  <2>1. IsCollection(collected)  BY <1>1, CollectionsAssumption DEF SignalsInv
  <2> QED  BY <2>1, AllPoints, KeysCounted
<1> QED  BY <1>1, SignalsInvariant, PTL

-----------------------------------------------------------------------------
(* The loop of Exporter. *)
USE SourcesAssumption, IntervalsAssumption, ModesAssumption
(* An age grows by one up to the volume interval, and None stays None. *)
LEMMA OlderAge ==
    ASSUME NEW a \in Ages
    PROVE  Older(a) \in Ages /\ (Older(a) = None <=> a = None)
<1>1. CASE a = None  BY <1>1 DEF Older, Ages
<1>2. CASE a # None
  <2>1. a \in 0 .. VolumeInterval  BY <1>2 DEF Ages
  <2>2. Older(a) = IF a + 1 <= VolumeInterval THEN a + 1 ELSE VolumeInterval
    BY <1>2, <2>1, MinOfTwo DEF Older
  <2> QED  BY <1>2, <2>1, <2>2 DEF Ages
<1> QED  BY <1>1, <1>2

(* The sleep after a cycle of any length. *)
LEMMA SleepBounds ==
    ASSUME cycle_age \in 0 .. VolumeInterval
    PROVE  SleepFor \in 0 .. Interval
<1>1. Interval - cycle_age \in Int /\ Interval - cycle_age <= Interval  OBVIOUS
<1>2. SleepFor = IF 0 >= Interval - cycle_age THEN 0 ELSE Interval - cycle_age
  BY <1>1, MaxOfTwo DEF SleepFor
<1> QED  BY <1>1, <1>2

-----------------------------------------------------------------------------
LEMMA Initially == Init => IInv
<1> SUFFICES ASSUME Init PROVE IInv  OBVIOUS
<1>1. TypeOK
  <2>1. snapshots \in UNION {[S -> Outcomes] : S \in SUBSET Sources}
    <3>1. snapshots \in [{} -> Outcomes]  BY DEF Init
    <3>2. [{} -> Outcomes] \in {[S -> Outcomes] : S \in SUBSET Sources}  OBVIOUS
    <3> QED  BY <3>1, <3>2, Zenon
  <2>2. /\ task \in [Sources -> Outcomes \cup {"off", "running"}]
        /\ post \in [Signals -> Answers \cup {"off", "running"}]
    BY DEF Init
  <2>3. /\ cycle_age \in Ages /\ volume_age \in Ages /\ since_volume \in Ages
        /\ remaining \in 0 .. Interval /\ errors \subseteq Signals /\ exit \in {None, 0, 1, 2}
    BY DEF Init, Ages
  <2>4. /\ mode \in Modes /\ disturbed \in BOOLEAN /\ include_volume \in BOOLEAN
        /\ phase \in {"begin", "collect", "send", "report", "sleep", "ended"}
    BY DEF Init
  <2> QED  BY <2>1, <2>2, <2>3, <2>4, Zenon DEF TypeOK
<1>2. RunInv /\ AgeInv /\ ErrorInv /\ ExitTellsFailure
  BY DEF Init, RunInv, AgeInv, ErrorInv, ExitTellsFailure
<1> QED  BY <1>1, <1>2 DEF IInv

LEMMA TickKeeps == IInv /\ Tick => IInv'
<1> SUFFICES ASSUME IInv, Tick PROVE IInv'  OBVIOUS
<1>1. TypeOK /\ AgeInv  BY DEF IInv
<1>2. /\ cycle_age' \in Ages /\ volume_age' \in Ages /\ since_volume' \in Ages
      /\ cycle_age' = None <=> cycle_age = None
  BY <1>1, OlderAge DEF TypeOK, Tick
<1>3. remaining' \in 0 .. Interval
  <2>1. remaining \in 0 .. Interval  BY <1>1 DEF TypeOK
  <2>2. remaining' = IF 0 >= remaining - 1 THEN 0 ELSE remaining - 1
    BY <2>1, MaxOfTwo DEF Tick
  <2> QED  BY <2>1, <2>2
<1>4. TypeOK'  BY <1>1, <1>2, <1>3 DEF TypeOK, Tick, given
<1>5. AgeInv'  BY <1>1, <1>2 DEF AgeInv, Tick
<1>6. RunInv' /\ ErrorInv' /\ ExitTellsFailure'
  BY DEF IInv, RunInv, Left, ErrorInv, ExitTellsFailure, Tick, given
<1> QED  BY <1>4, <1>5, <1>6 DEF IInv

LEMMA BeginKeeps == IInv /\ Begin => IInv'
<1> SUFFICES ASSUME IInv, Begin PROVE IInv'  OBVIOUS
<1>1. TypeOK /\ phase = "begin" /\ phase' = "collect"  BY DEF IInv, Begin
<1>2. include_volume' \in BOOLEAN  BY DEF Begin, VolumeIsDue
<1>3. TypeOK'  BY <1>1, <1>2 DEF TypeOK, Begin, given, Ages
<1>4. RunInv'  BY <1>1 DEF RunInv, Begin
<1>5. AgeInv'  BY <1>1 DEF IInv, AgeInv, Begin
<1>6. ErrorInv' /\ ExitTellsFailure'
  BY <1>1 DEF IInv, ErrorInv, ExitTellsFailure, Begin, given
<1> QED  BY <1>3, <1>4, <1>5, <1>6 DEF IInv

LEMMA CollectorEndsKeeps ==
    ASSUME NEW s \in Sources, IInv, CollectorEnds(s)
    PROVE  IInv'
<1>1. PICK o \in Outcomes : task' = [task EXCEPT ![s] = o]  BY DEF CollectorEnds
<1>2. TypeOK'  BY <1>1 DEF IInv, TypeOK, CollectorEnds, given
<1>3. RunInv'  BY <1>1 DEF IInv, TypeOK, RunInv, Left, CollectorEnds, given, Outcomes
<1>4. AgeInv' /\ ErrorInv' /\ ExitTellsFailure'
  BY DEF IInv, AgeInv, ErrorInv, ExitTellsFailure, CollectorEnds, given
<1> QED  BY <1>2, <1>3, <1>4 DEF IInv

(* Once all of them are gathered, no collector and no request runs. *)
LEMMA CollectKeeps == IInv /\ Collect => IInv'
<1> SUFFICES ASSUME IInv, Collect PROVE IInv'  OBVIOUS
<1>1. TypeOK /\ phase = "collect" /\ phase' \in {"send", "report"}  BY DEF IInv, Collect
<1>2. \A s \in Sources : task[s] # "running"  BY DEF Collect, Gathered
<1>3. snapshots' \in UNION {[S -> Outcomes] : S \in SUBSET Sources}
  <2> DEFINE S == {x \in Sources : task[x] # "off"}
  <2>1. \A x \in S : task[x] \in Outcomes  BY <1>1, <1>2 DEF TypeOK
  <2>2. snapshots' \in [S -> Outcomes]  BY <2>1 DEF Collect, Collected
  <2> QED  BY <2>2
<1>4. post' \in [Signals -> Answers \cup {"off", "running"}]  BY <1>1 DEF TypeOK, Collect
<1>5. TypeOK'  BY <1>1, <1>3, <1>4 DEF TypeOK, Collect, given
<1>6. RunInv'  BY <1>1, <1>2 DEF IInv, RunInv, Left, Collect, given
<1>7. AgeInv'  BY <1>1 DEF IInv, AgeInv, Collect
<1>8. ErrorInv' /\ ExitTellsFailure'
  BY <1>1 DEF IInv, ErrorInv, ExitTellsFailure, Collect, given
<1> QED  BY <1>5, <1>6, <1>7, <1>8 DEF IInv

LEMMA MappingRaisesKeeps == IInv /\ MappingRaises => IInv'
<1> SUFFICES ASSUME IInv, MappingRaises PROVE IInv'  OBVIOUS
<1>1. disturbed /\ disturbed' /\ phase' = "ended" /\ exit' \in {1, 2}
  BY DEF MappingRaises, Ended, given
<1>2. TypeOK'  BY <1>1 DEF IInv, TypeOK, MappingRaises, given
<1>3. RunInv' /\ AgeInv' /\ ErrorInv' /\ ExitTellsFailure'
  BY <1>1 DEF RunInv, Left, AgeInv, ErrorInv, ExitTellsFailure
<1> QED  BY <1>2, <1>3 DEF IInv

LEMMA PostEndsKeeps ==
    ASSUME NEW g \in Signals, IInv, PostEnds(g)
    PROVE  IInv'
<1>1. PICK a \in Answers : post' = [post EXCEPT ![g] = a]  BY DEF PostEnds
<1>2. phase = "send" \/ Left  BY DEF IInv, RunInv, PostEnds
<1>3. TypeOK'  BY <1>1 DEF IInv, TypeOK, PostEnds, given
<1>4. RunInv'  BY <1>1 DEF IInv, TypeOK, RunInv, Left, PostEnds, given, Answers
<1>5. AgeInv'  BY DEF IInv, AgeInv, PostEnds
<1>6. ErrorInv'  BY <1>2 DEF IInv, ErrorInv, PostEnds, given, Left
<1>7. ExitTellsFailure'  BY <1>2 DEF IInv, ErrorInv, ExitTellsFailure, PostEnds, given, Left
<1> QED  BY <1>3, <1>4, <1>5, <1>6, <1>7 DEF IInv

LEMMA SentKeeps == IInv /\ Sent => IInv'
<1> SUFFICES ASSUME IInv, Sent PROVE IInv'  OBVIOUS
<1>1. phase = "send" /\ phase' = "report" /\ errors' = {g \in Signals : post[g] # "accepted"}
  BY DEF Sent
<1>2. \A g \in Signals : post[g] # "running"  BY DEF Sent, Gathered
<1>3. TypeOK'  BY <1>1 DEF IInv, TypeOK, Sent, given
<1>4. RunInv'  BY <1>1, <1>2 DEF IInv, RunInv, Left, Sent, given
<1>5. AgeInv'  BY <1>1 DEF IInv, AgeInv, Sent
<1>6. ErrorInv' /\ ExitTellsFailure'
  BY <1>1 DEF IInv, ErrorInv, ExitTellsFailure, Sent, given
<1> QED  BY <1>3, <1>4, <1>5, <1>6 DEF IInv

LEMMA ReportKeeps == IInv /\ Report => IInv'
<1> SUFFICES ASSUME IInv, Report PROVE IInv'  OBVIOUS
<1>1. TypeOK /\ phase = "report" /\ cycle_age # None  BY DEF IInv, AgeInv, Report
<1>2. volume_age' = since_volume /\ since_volume' = since_volume
  BY <1>1 DEF IInv, AgeInv, Report, VolumeAgeAfter
<1>3. remaining' \in 0 .. Interval  BY <1>1, SleepBounds DEF Report, TypeOK, Ages
<1>4. Status \in {0, 1}  BY DEF Status
<1>5. /\ phase' \in {"sleep", "ended"} /\ exit' \in {None, 0, 1, 2}
      /\ phase' = "sleep" => exit' = exit
  BY <1>1, <1>4 DEF Report, Ended, TypeOK
<1>6. TypeOK'  BY <1>1, <1>2, <1>3, <1>5 DEF TypeOK, Report, given
<1>7. RunInv'  BY <1>1 DEF IInv, RunInv, Left, Report, given
<1>8. AgeInv'  BY <1>2, <1>5 DEF AgeInv
<1>9. ErrorInv'  BY <1>1, <1>5 DEF IInv, ErrorInv
<1>10. ExitTellsFailure'
  <2> SUFFICES ASSUME mode = "once" PROVE exit' = 0 <=> \A g \in Signals : post[g] = "accepted"
    BY DEF ExitTellsFailure, Report, given
  <2>1. exit' = Status  BY DEF Report, Ended
  <2>2. errors = {g \in Signals : post[g] # "accepted"}  BY <1>1 DEF IInv, ErrorInv
  <2> QED  BY <2>1, <2>2 DEF Status
<1> QED  BY <1>6, <1>7, <1>8, <1>9, <1>10 DEF IInv

LEMMA WakeKeeps == IInv /\ Wake => IInv'
<1> SUFFICES ASSUME IInv, Wake PROVE IInv'  OBVIOUS
<1>1. phase = "sleep" /\ phase' = "begin"  BY DEF Wake
<1>2. TypeOK'  BY <1>1 DEF IInv, TypeOK, Wake, given
<1>3. RunInv' /\ AgeInv' /\ ErrorInv' /\ ExitTellsFailure'
  BY <1>1 DEF IInv, RunInv, Left, AgeInv, ErrorInv, ExitTellsFailure, Wake, given
<1> QED  BY <1>2, <1>3 DEF IInv

LEMMA InterruptKeeps == IInv /\ Interrupt => IInv'
<1> SUFFICES ASSUME IInv, Interrupt PROVE IInv'  OBVIOUS
<1>1. disturbed /\ disturbed' /\ phase' = "ended" /\ exit' = 0  BY DEF Interrupt, Ended, given
<1>2. TypeOK'  BY <1>1 DEF IInv, TypeOK, Interrupt, given
<1>3. RunInv' /\ AgeInv' /\ ErrorInv' /\ ExitTellsFailure'
  BY <1>1 DEF RunInv, Left, AgeInv, ErrorInv, ExitTellsFailure
<1> QED  BY <1>2, <1>3 DEF IInv

LEMMA Inductive == IInv /\ [Next]_vars => IInv'
<1> SUFFICES ASSUME IInv, [Next]_vars PROVE IInv'  OBVIOUS
<1>1. CASE UNCHANGED vars
  BY <1>1 DEF IInv, TypeOK, RunInv, Left, AgeInv, ErrorInv, ExitTellsFailure, vars, given
<1>2. CASE Next
  BY <1>2, TickKeeps, BeginKeeps, CollectorEndsKeeps, CollectKeeps, MappingRaisesKeeps,
     PostEndsKeeps, SentKeeps, ReportKeeps, WakeKeeps, InterruptKeeps DEF Next
<1> QED  BY <1>1, <1>2

-----------------------------------------------------------------------------
(* The inductive invariant of the exporter: outside its phase nothing runs,   *)
(* the ages of the volume collection agree, the report names what failed.     *)
THEOREM ExporterInvariant == Spec => []IInv
  BY Initially, Inductive, PTL DEF Spec

(* Every variable of the exporter keeps its range; no cycle of any length     *)
(* makes the sleep of run_exporter negative.                                  *)
THEOREM ExporterTyped == Spec => []TypeOK
<1>1. IInv => TypeOK  BY DEF IInv
<1> QED  BY <1>1, ExporterInvariant, PTL

(* main: a one-shot export exits with 0 exactly if both signals were accepted. *)
THEOREM ExitIsTruthful == Spec => []ExitTellsFailure
<1>1. IInv => ExitTellsFailure  BY DEF IInv
<1> QED  BY <1>1, ExporterInvariant, PTL

(* run_exporter: when a cycle starts, no collector or request of an earlier   *)
(* one still runs, whatever failed in it.                                     *)
THEOREM NoOverlap == Spec => CyclesDoNotOverlap
<1>1. IInv /\ [Next]_vars => [Begins => Busy = {}]_vars
  BY DEF IInv, RunInv, Left, Begins, Busy
<1> QED  BY <1>1, ExporterInvariant, PTL DEF Spec, CyclesDoNotOverlap

(* run_exporter: a cycle measures the volumes exactly when none was measured  *)
(* for the volume interval, although last_volume_at is set after the cycle.   *)
THEOREM VolumesOnTime == Spec => VolumeCadence
<1> DEFINE OnTime == Begins => (include_volume' <=> since_volume \in {None, VolumeInterval})
<1>1. IInv /\ [Next]_vars => [OnTime]_vars
  <2> SUFFICES ASSUME IInv, Next, Begins PROVE include_volume' <=> since_volume \in {None, VolumeInterval}
    OBVIOUS
  <2>1. Begin
    BY DEF Begins, Next, Tick, Collect, MappingRaises, Sent, Report, Wake, Interrupt, Ended,
           CollectorEnds, PostEnds
  <2>2. since_volume = volume_age /\ volume_age \in Ages  BY DEF Begins, IInv, AgeInv, TypeOK
  <2>3. volume_age # None => (volume_age >= VolumeInterval <=> volume_age = VolumeInterval)
    BY <2>2 DEF Ages
  <2> QED  BY <2>1, <2>2, <2>3 DEF Begin, VolumeIsDue
<1> QED  BY <1>1, ExporterInvariant, PTL DEF Spec, VolumeCadence
=============================================================================

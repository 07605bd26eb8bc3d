--------------------------- MODULE UsageScanProofs ---------------------------
(* The invariants of scan_usage_profile, for every tree, mount table, profile *)
(* and fault, and for files that vanish or appear between any two steps.      *)
(*                                                                            *)
(* IInv of UsageScan is inductive.  Its heart is the set Left of the paths    *)
(* that are still to be looked at, divided over the frames: no two frames     *)
(* share any (Separate), what is in it has not been counted (CountInv), and   *)
(* what is on it, in scope and still there is either measured or left, unless *)
(* a flaw was recorded on the way (CoverInv).  A step of a frame only passes  *)
(* on, splits or uses up its part of Left.                                    *)
EXTENDS UsageScan, CollectionLemmas, SequenceTheorems

(* The paths above a path are paths, and lie above one another.               *)
LEMMA AboveFacts ==
    /\ \A n \in Nodes : Above[n] \subseteq Dirs /\ Above[n] \subseteq Nodes /\ n \notin Above[n]
    /\ \A n \in Nodes : \A m \in Above[n] : Above[m] \subseteq Above[n]
    /\ \A n \in Nodes : \A m, k \in Above[n] : m = k \/ m \in Above[k] \/ k \in Above[m]
    /\ IsFiniteSet(Nodes)
BY PathAssumption, TreeAssumption

(* The paths of the host are a tree.                                          *)
LEMMA AboveIsForest == IsForest(Nodes, Above)
BY AboveFacts, PathAssumption DEF IsForest

IsClosed == fs \subseteq Nodes /\ \A n \in fs : Above[n] \subseteq fs

(* What exists beneath a directory exists in or beneath one of its entries.   *)
LEMMA EntriesCover ==
    ASSUME IsClosed, NEW n \in Nodes, NEW m \in fs, n \in Above[m]
    PROVE  \E c \in Children(n) : c = m \/ c \in Above[m]
BY AboveIsForest, EntriesCoverAll DEF IsClosed, Children, EntriesIn

(* What exists beneath the target exists in or beneath one of its immediate   *)
(* children.                                                                  *)
LEMMA TopLevelCovers ==
    ASSUME IsClosed, NEW m \in fs
    PROVE  \E c \in TopLevel : c = m \/ c \in Above[m]
<1> DEFINE S == Above[m] \cup {m}
<1>1. S \subseteq fs /\ fs \subseteq Nodes  BY DEF IsClosed
<1>2. PICK c \in S : \A k \in S : k \notin Above[c]
  <2>1. S # {} /\ S \in SUBSET Nodes  BY <1>1
  <2> HIDE DEF S
  <2> QED  BY <2>1, AboveIsForest, HighestPath
<1>3. Above[c] \subseteq S  BY <1>1, AboveFacts
<1>4. Above[c] = {}  BY <1>2, <1>3
<1> QED  BY <1>1, <1>4 DEF TopLevel

(* The entries of a directory lie right beneath it. *)
LEMMA AboveEntry ==
    ASSUME fs \subseteq Nodes, NEW n \in Nodes, NEW c \in Children(n)
    PROVE  c \in Nodes /\ n \in Above[c] /\ Above[c] = Above[n] \cup {n}
BY AboveIsForest, EntryFacts DEF Children, EntriesIn

(* Of two paths that do not contain one another, nothing lies beneath both. *)
LEMMA NothingBeneathBoth ==
    ASSUME NEW S \in SUBSET Nodes, NEW T \in SUBSET Nodes, S \cap T = {},
           \A n \in S, m \in T : n \notin Above[m] /\ m \notin Above[n]
    PROVE  /\ (S \cup Under(S)) \cap (T \cup Under(T)) = {}
<1> SUFFICES ASSUME NEW k \in Nodes, k \in S \cup Under(S), k \in T \cup Under(T) PROVE FALSE
  BY DEF Under
<1>1. PICK n \in S : n = k \/ n \in Above[k]  BY DEF Under
<1>2. PICK m \in T : m = k \/ m \in Above[k]  BY DEF Under
<1> QED  BY <1>1, <1>2, AboveFacts

(* What lies beneath a set of paths.                                          *)
LEMMA UnderFacts ==
    /\ \A S : Under(S) \subseteq Nodes
    /\ \A S, T : S \subseteq T => Under(S) \subseteq Under(T)
    /\ \A S, T : Under(S \cup T) = Under(S) \cup Under(T)
    /\ \A S : S \cap Dirs = {} => Under(S) = {}
    /\ Under({}) = {}
BY AboveFacts DEF Under

-----------------------------------------------------------------------------
(* Frames. *)
Frame == TreeFrame \cup LevelFrame

(* The parts of a call of _scan_tree.                                         *)
LEMMA TreeFrameParts ==
    ASSUME NEW f \in TreeFrame
    PROVE  /\ f \in Frame /\ f.fn = "tree" /\ f.stack \in Seq(Nodes) /\ f.dir \in Dirs \cup {None}
           /\ f.result \in Result
           /\ Due(f) = ToSet(f.stack) /\ Opened(f) = {f.dir} \ {None}
BY DEF TreeFrame, Frame, Due, Opened

(* The parts of a call of _scan_node above the last level.                    *)
LEMMA LevelFrameParts ==
    ASSUME NEW f \in LevelFrame
    PROVE  /\ f \in Frame /\ f.fn = "level" /\ f.path \in Nodes /\ f.depth \in Nat
           /\ f.leaves \subseteq Nodes /\ f.dirs \subseteq Dirs /\ f.rest \subseteq Dirs
           /\ f.stage \in {"stat", "list", "calls"} /\ f.result \in Result
           /\ f.stage = "stat" => Due(f) = {f.path} /\ Opened(f) = {}
           /\ f.stage = "list" => Due(f) = {} /\ Opened(f) = {f.path}
           /\ f.stage = "calls" => Due(f) = f.leaves \cup f.dirs \cup f.rest /\ Opened(f) = {}
BY DEF LevelFrame, Frame, Due, Opened

(* What is due to a call are paths.                                           *)
LEMMA FrameParts ==
    ASSUME NEW f \in Frame
    PROVE  /\ f.fn \in {"tree", "level"} /\ f.result \in Result
           /\ f.fn = "tree" <=> f \in TreeFrame
           /\ f.fn = "level" <=> f \in LevelFrame
           /\ Due(f) \subseteq Nodes /\ Opened(f) \subseteq Nodes /\ Rest(f) \subseteq Nodes
<1>1. CASE f \in TreeFrame
  <2>1. f.fn = "tree" /\ f \notin LevelFrame  BY <1>1 DEF TreeFrame, LevelFrame
  <2>2. ToSet(f.stack) \subseteq Nodes  BY <1>1, TreeFrameParts DEF ToSet
  <2>3. Due(f) \subseteq Nodes /\ Opened(f) \subseteq Nodes
    BY <1>1, <2>2, TreeFrameParts, TreeAssumption
  <2> QED  BY <1>1, <2>1, <2>3, TreeFrameParts, UnderFacts DEF Rest
<1>2. CASE f \in LevelFrame
  <2>1. f.fn = "level" /\ f \notin TreeFrame  BY <1>2 DEF TreeFrame, LevelFrame
  <2>3. Due(f) \subseteq Nodes /\ Opened(f) \subseteq Nodes
    BY <1>2, LevelFrameParts, TreeAssumption
  <2> QED  BY <1>2, <2>1, <2>3, LevelFrameParts, UnderFacts DEF Rest
<1> QED  BY <1>1, <1>2 DEF Frame

(* The result of a frame has no part in what it is to look at. *)
LEMMA OtherResult ==
    ASSUME NEW f \in Frame, NEW r \in Result, NEW g, g = [f EXCEPT !.result = r]
    PROVE  /\ g \in Frame /\ g.fn = f.fn /\ g.result = r
           /\ f.fn = "level" => g.depth = f.depth
           /\ Due(g) = Due(f) /\ Opened(g) = Opened(f) /\ Rest(g) = Rest(f)
           /\ \A excluded : Tidy(f, excluded) => Tidy(g, excluded)
<1>1. CASE f \in TreeFrame
  <2>1. g \in TreeFrame /\ g.fn = f.fn /\ g.stack = f.stack /\ g.dir = f.dir /\ g.result = r
    BY <1>1 DEF TreeFrame
  <2>2. Due(g) = Due(f) /\ Opened(g) = Opened(f)  BY <1>1, <2>1, TreeFrameParts
  <2>3. f.fn = "tree"  BY <1>1, TreeFrameParts
  <2> QED  BY <2>1, <2>2, <2>3 DEF Frame, Rest, Tidy
<1>2. CASE f \in LevelFrame
  <2>1. /\ g \in LevelFrame /\ g.fn = f.fn /\ g.stage = f.stage /\ g.path = f.path
        /\ g.leaves = f.leaves /\ g.dirs = f.dirs /\ g.rest = f.rest /\ g.depth = f.depth
        /\ g.result = r
    BY <1>2 DEF LevelFrame
  <2>2. Due(g) = Due(f) /\ Opened(g) = Opened(f)  BY <1>2, <2>1, LevelFrameParts
  <2>3. f.fn = "level"  BY <1>2, LevelFrameParts
  <2> QED  BY <2>1, <2>2, <2>3 DEF Frame, Rest, Tidy
<1> QED  BY <1>1, <1>2 DEF Frame

(* Only a directory has anything beneath it. *)
LEMMA RestOf ==
    ASSUME NEW f
    PROVE  /\ Due(f) \subseteq Rest(f) /\ Under(Due(f)) \subseteq Rest(f)
           /\ Under(Opened(f)) \subseteq Rest(f)
           /\ Rest(f) = Due(f) \cup Under(Due(f)) \cup Under(Opened(f))
BY UnderFacts DEF Rest

-----------------------------------------------------------------------------
(* Positions in a list, and in one that is longer by an element at its head.  *)
LEMMA Indices ==
    \A n \in Nat : n >= 1 =>
        /\ 1 \in 1 .. n
        /\ \A i \in 1 .. n : i = 1 \/ (i \in 2 .. n /\ i # 1 /\ i - 1 \in 1 .. n - 1 /\ i = (i - 1) + 1)
        /\ \A i \in 2 .. n : i \in 1 .. n /\ i # 1
        /\ \A i \in 1 .. n - 1 : i + 1 \in 1 .. n /\ i + 1 # 1 /\ (i = 1 \/ i \in 2 .. n - 1)
        /\ \A i, j \in 1 .. n - 1 : i + 1 = j + 1 => i = j
OBVIOUS

(* If every frame does a part of what one frame did, and frames that divide   *)
(* the work of one frame do not overlap, then no two frames do.               *)
Divides(fr, gr, h) ==
    /\ h \in [DOMAIN gr -> DOMAIN fr]
    /\ \A j \in DOMAIN gr : Rest(gr[j]) \subseteq Rest(fr[h[j]])
    /\ \A i, j \in DOMAIN gr : i # j /\ h[i] = h[j] => Rest(gr[i]) \cap Rest(gr[j]) = {}
(* Frames that divide among them the work of other frames remain separate.    *)
LEMMA WorkDivided ==
    ASSUME NEW fr, NEW gr, NEW td, NEW excluded, Separate(fr, td, excluded),
           NEW h, Divides(fr, gr, h), \A j \in DOMAIN gr : Tidy(gr[j], excluded)
    PROVE  Separate(gr, td, excluded)
<1>1. /\ \A n \in td : Above[n] = {}
      /\ \A i, j \in DOMAIN fr : i # j => Rest(fr[i]) \cap Rest(fr[j]) = {}
      /\ \A i \in DOMAIN fr : Rest(fr[i]) \cap (td \cup Under(td)) = {}
  BY DEF Separate
<1>2. ASSUME NEW i \in DOMAIN gr, NEW j \in DOMAIN gr, i # j
      PROVE  Rest(gr[i]) \cap Rest(gr[j]) = {}
  <2>1. h[i] \in DOMAIN fr /\ h[j] \in DOMAIN fr  BY DEF Divides
  <2>2. CASE h[i] = h[j]  BY <1>2, <2>2 DEF Divides
  <2>3. CASE h[i] # h[j]
    <3>1. Rest(fr[h[i]]) \cap Rest(fr[h[j]]) = {}  BY <1>1, <2>1, <2>3
    <3>2. Rest(gr[i]) \subseteq Rest(fr[h[i]]) /\ Rest(gr[j]) \subseteq Rest(fr[h[j]])
      BY DEF Divides
    <3> QED  BY <3>1, <3>2
  <2> QED  BY <2>2, <2>3
<1>3. ASSUME NEW i \in DOMAIN gr PROVE Rest(gr[i]) \cap (td \cup Under(td)) = {}
  <2>1. Rest(gr[i]) \subseteq Rest(fr[h[i]]) /\ h[i] \in DOMAIN fr  BY DEF Divides
  <2> QED  BY <1>1, <2>1
<1>4. \A j \in DOMAIN gr : Tidy(gr[j], excluded)  OBVIOUS
<1> QED  BY <1>1, <1>2, <1>3, <1>4 DEF Separate

Continued(fr, f) == <<f>> \o Tail(fr)
Invoked(fr, f, g) == <<g, f>> \o Tail(fr)
Returned(fr, r) ==
    IF Len(fr) = 1 THEN <<>> ELSE <<[fr[2] EXCEPT !.result = r]>> \o Tail(Tail(fr))

(* The innermost frame goes on with a part of its work. *)
LEMMA ContinueDivides ==
    ASSUME NEW fr \in Seq(Frame), fr # <<>>, NEW td, NEW excluded, Separate(fr, td, excluded),
           NEW f \in Frame, Tidy(f, excluded), Rest(f) \subseteq Rest(Head(fr)),
           NEW gr, gr = Continued(fr, f)
    PROVE  /\ gr \in Seq(Frame) /\ Len(gr) = Len(fr) /\ gr[1] = f
           /\ \A i \in 2 .. Len(fr) : gr[i] = fr[i]
           /\ Separate(gr, td, excluded)
           /\ LeftOf(gr, td) = LeftOf(fr, td) \ (Rest(Head(fr)) \ Rest(f))
<1>1. Len(fr) \in Nat /\ Len(fr) >= 1 /\ Head(fr) = fr[1] /\ DOMAIN fr = 1 .. Len(fr)  OBVIOUS
<1>2. /\ gr \in Seq(Frame) /\ Len(gr) = Len(fr) /\ gr[1] = f
      /\ \A i \in 2 .. Len(fr) : gr[i] = fr[i]
  BY DEF Continued
<1>3. DOMAIN gr = 1 .. Len(fr)  BY <1>2
<1>4. \A i \in 1 .. Len(fr) : i = 1 \/ (i \in 2 .. Len(fr) /\ i # 1)  BY <1>1
<1>5. 1 \in 1 .. Len(fr) /\ \A i \in 2 .. Len(fr) : i \in 1 .. Len(fr) /\ i # 1  BY <1>1
<1>6. /\ \A i \in DOMAIN fr : Tidy(fr[i], excluded)
      /\ \A i, j \in DOMAIN fr : i # j => Rest(fr[i]) \cap Rest(fr[j]) = {}
      /\ \A i \in DOMAIN fr : Rest(fr[i]) \cap (td \cup Under(td)) = {}
  BY DEF Separate
<1> DEFINE h == [i \in DOMAIN gr |-> i]
<1>7. Separate(gr, td, excluded)
  <2>1. h \in [DOMAIN gr -> DOMAIN fr]  BY <1>1, <1>3
  <2>2. \A j \in DOMAIN gr : Tidy(gr[j], excluded) /\ Rest(gr[j]) \subseteq Rest(fr[h[j]])
    BY <1>1, <1>2, <1>3, <1>4, <1>6
  <2>3. \A i, j \in DOMAIN gr : i # j /\ h[i] = h[j] => Rest(gr[i]) \cap Rest(gr[j]) = {}  OBVIOUS
  <2>4. Divides(fr, gr, h)  BY <2>1, <2>2, <2>3 DEF Divides
  <2>5. \A j \in DOMAIN gr : Tidy(gr[j], excluded)  BY <2>2
  <2> HIDE DEF h
  <2> QED  BY <2>4, <2>5, WorkDivided
<1> DEFINE others == td \cup Under(td) \cup UNION {Rest(fr[i]) : i \in 2 .. Len(fr)}
<1>8. LeftOf(fr, td) = others \cup Rest(fr[1])
  <2>1. {Rest(fr[i]) : i \in DOMAIN fr} = {Rest(fr[i]) : i \in 2 .. Len(fr)} \cup {Rest(fr[1])}
    BY <1>1, <1>4, <1>5
  <2> QED  BY <2>1 DEF LeftOf
<1>9. LeftOf(gr, td) = others \cup Rest(f)
  <2>1. {Rest(gr[i]) : i \in DOMAIN gr} = {Rest(gr[i]) : i \in 2 .. Len(fr)} \cup {Rest(gr[1])}
    BY <1>3, <1>4, <1>5
  <2>2. {Rest(gr[i]) : i \in 2 .. Len(fr)} = {Rest(fr[i]) : i \in 2 .. Len(fr)}  BY <1>2
  <2>3. Rest(gr[1]) = Rest(f)  BY <1>2
  <2> QED  BY <2>1, <2>2, <2>3 DEF LeftOf
<1>10. others \cap Rest(fr[1]) = {}
  BY <1>1, <1>5, <1>6
<1> HIDE DEF others
<1> QED  BY <1>1, <1>2, <1>7, <1>8, <1>9, <1>10

(* It gives a part of its work to a call. *)
LEMMA InvokeDivides ==
    ASSUME NEW fr \in Seq(Frame), fr # <<>>, NEW td, NEW excluded, Separate(fr, td, excluded),
           NEW f \in Frame, Tidy(f, excluded), NEW g \in Frame, Tidy(g, excluded),
           Rest(f) \cap Rest(g) = {}, Rest(f) \cup Rest(g) = Rest(Head(fr)),
           NEW gr, gr = Invoked(fr, f, g)
    PROVE  /\ gr \in Seq(Frame) /\ Len(gr) = Len(fr) + 1 /\ gr[1] = g /\ gr[2] = f
           /\ \A i \in 2 .. Len(fr) : gr[i + 1] = fr[i]
           /\ Separate(gr, td, excluded)
           /\ LeftOf(gr, td) = LeftOf(fr, td)
<1>1. Len(fr) \in Nat /\ Len(fr) >= 1 /\ Head(fr) = fr[1] /\ DOMAIN fr = 1 .. Len(fr)  OBVIOUS
<1>2. /\ gr \in Seq(Frame) /\ Len(gr) = Len(fr) + 1 /\ gr[1] = g /\ gr[2] = f
      /\ \A i \in 2 .. Len(fr) : gr[i + 1] = fr[i]
  BY DEF Invoked
<1>3. DOMAIN gr = 1 .. Len(fr) + 1  BY <1>2
<1>4. \A i \in DOMAIN gr : i = 1 \/ i = 2 \/ (i - 1 \in 2 .. Len(fr) /\ gr[i] = fr[i - 1])
  BY <1>1, <1>2, <1>3
<1>5. /\ \A i \in DOMAIN fr : Tidy(fr[i], excluded)
      /\ \A i, j \in DOMAIN fr : i # j => Rest(fr[i]) \cap Rest(fr[j]) = {}
  BY DEF Separate
<1>6. 1 \in DOMAIN fr /\ \A i \in 2 .. Len(fr) : i \in DOMAIN fr  BY <1>1
<1> DEFINE h == [i \in DOMAIN gr |-> IF i \in {1, 2} THEN 1 ELSE i - 1]
<1>7. Separate(gr, td, excluded)
  <2>1. h \in [DOMAIN gr -> DOMAIN fr]  BY <1>1, <1>3
  <2>2. \A j \in DOMAIN gr : Tidy(gr[j], excluded) /\ Rest(gr[j]) \subseteq Rest(fr[h[j]])
    BY <1>1, <1>2, <1>4, <1>5, <1>6
  <2>3. ASSUME NEW i \in DOMAIN gr, NEW j \in DOMAIN gr, i # j, h[i] = h[j]
        PROVE  Rest(gr[i]) \cap Rest(gr[j]) = {}
    <3>1. i \in {1, 2} /\ j \in {1, 2}  BY <1>1, <1>3, <2>3
    <3> QED  BY <1>2, <2>3, <3>1
  <2>4. Divides(fr, gr, h)  BY <2>1, <2>2, <2>3 DEF Divides
  <2>5. \A j \in DOMAIN gr : Tidy(gr[j], excluded)  BY <2>2
  <2> HIDE DEF h
  <2> QED  BY <2>4, <2>5, WorkDivided
<1> DEFINE others == {Rest(fr[i]) : i \in 2 .. Len(fr)}
<1>8. {Rest(fr[i]) : i \in DOMAIN fr} = others \cup {Rest(fr[1])}
  <2>1. \A i \in 1 .. Len(fr) : i = 1 \/ i \in 2 .. Len(fr)  BY <1>1
  <2> QED  BY <1>1, <1>6, <2>1
<1>9. {Rest(gr[i]) : i \in DOMAIN gr} = others \cup {Rest(f), Rest(g)}
  <2>1. 1 \in DOMAIN gr /\ 2 \in DOMAIN gr /\ \A i \in 2 .. Len(fr) : i + 1 \in DOMAIN gr
    BY <1>1, <1>3
  <2>2. \A i \in DOMAIN gr : Rest(gr[i]) \in others \cup {Rest(f), Rest(g)}  BY <1>2, <1>4
  <2>3. Rest(gr[1]) = Rest(g) /\ Rest(gr[2]) = Rest(f)
        /\ \A i \in 2 .. Len(fr) : Rest(gr[i + 1]) = Rest(fr[i])
    BY <1>2
  <2>4. others \cup {Rest(f), Rest(g)} \subseteq {Rest(gr[i]) : i \in DOMAIN gr}
    <3>1. \A i \in 2 .. Len(fr) : Rest(fr[i]) \in {Rest(gr[k]) : k \in DOMAIN gr}
      BY <2>1, <2>3
    <3> QED  BY <2>1, <2>3, <3>1
  <2>5. {Rest(gr[i]) : i \in DOMAIN gr} \subseteq others \cup {Rest(f), Rest(g)}  BY <2>2
  <2> HIDE DEF others
  <2> QED  BY <2>4, <2>5
<1> HIDE DEF others
<1>10. LeftOf(gr, td) = LeftOf(fr, td)
  <2>1. UNION (others \cup {Rest(fr[1])}) = UNION (others \cup {Rest(f), Rest(g)})
    BY <1>1
  <2> QED  BY <1>8, <1>9, <2>1 DEF LeftOf
<1> QED  BY <1>2, <1>7, <1>10

ReturnedShape(fr, gr, r) ==
    /\ gr \in Seq(Frame) /\ Len(gr) = Len(fr) - 1
    /\ Len(fr) # 1 => /\ 1 \in DOMAIN gr /\ gr[1].result = r
                      /\ gr[1].fn = fr[2].fn
                      /\ fr[2].fn = "level" => gr[1].depth = fr[2].depth
    /\ \A i \in 2 .. Len(gr) : gr[i] = fr[i + 1]

(* It returns, and what it had left is left to no one. *)
LEMMA ReturnDivides ==
    ASSUME NEW fr \in Seq(Frame), fr # <<>>, NEW td, NEW excluded, Separate(fr, td, excluded),
           NEW r \in Result, NEW gr, gr = Returned(fr, r)
    PROVE  /\ ReturnedShape(fr, gr, r)
           /\ Separate(gr, td, excluded)
           /\ LeftOf(gr, td) = LeftOf(fr, td) \ Rest(Head(fr))
<1>1. Len(fr) \in Nat /\ Len(fr) >= 1 /\ Head(fr) = fr[1] /\ DOMAIN fr = 1 .. Len(fr)
      /\ \A i \in 1 .. Len(fr) : fr[i] \in Frame
  OBVIOUS
<1>2. /\ \A i \in DOMAIN fr : Tidy(fr[i], excluded)
      /\ \A i, j \in DOMAIN fr : i # j => Rest(fr[i]) \cap Rest(fr[j]) = {}
      /\ \A i \in DOMAIN fr : Rest(fr[i]) \cap (td \cup Under(td)) = {}
      /\ \A n \in td : Above[n] = {}
  BY DEF Separate
<1>3. CASE Len(fr) = 1
  <2>1. gr = <<>> /\ DOMAIN gr = {} /\ DOMAIN fr = {1}  BY <1>1, <1>3 DEF Returned
  <2>2. LeftOf(gr, td) = td \cup Under(td)  BY <2>1 DEF LeftOf
  <2>3. LeftOf(fr, td) = td \cup Under(td) \cup Rest(fr[1])  BY <2>1 DEF LeftOf
  <2>4. Rest(fr[1]) \cap (td \cup Under(td)) = {}  BY <1>2, <2>1
  <2>5. Separate(gr, td, excluded)  BY <1>2, <2>1 DEF Separate
  <2>6. ReturnedShape(fr, gr, r)  BY <1>1, <1>3, <2>1 DEF ReturnedShape
  <2> QED  BY <1>1, <2>2, <2>3, <2>4, <2>5, <2>6
<1>4. CASE Len(fr) # 1
  <2> DEFINE g == [fr[2] EXCEPT !.result = r]
  <2>1. Len(fr) >= 2 /\ 2 \in DOMAIN fr /\ fr[2] \in Frame /\ 1 \in DOMAIN fr  BY <1>1, <1>4
  <2>2. /\ g \in Frame /\ g.fn = fr[2].fn /\ g.result = r /\ Rest(g) = Rest(fr[2])
        /\ fr[2].fn = "level" => g.depth = fr[2].depth
        /\ Tidy(g, excluded)
    BY <1>2, <2>1, OtherResult
  <2>3. gr = <<g>> \o Tail(Tail(fr))  BY <1>4 DEF Returned
  <2> HIDE DEF g
  <2>4. /\ gr \in Seq(Frame) /\ Len(gr) = Len(fr) - 1 /\ gr[1] = g
        /\ \A i \in 2 .. Len(fr) - 1 : gr[i] = fr[i + 1]
    <3>1. /\ Tail(fr) \in Seq(Frame) /\ Len(Tail(fr)) = Len(fr) - 1 /\ Tail(fr) # <<>>
          /\ \A i \in 1 .. Len(fr) - 1 : Tail(fr)[i] = fr[i + 1]
      <4>1. /\ Tail(fr) \in Seq(Frame) /\ Len(Tail(fr)) = Len(fr) - 1
            /\ \A i \in 1 .. Len(fr) - 1 : Tail(fr)[i] = fr[i + 1]
        BY <1>1
      <4>2. Len(Tail(fr)) # 0  BY <4>1, <2>1, <1>1
      <4>3. Len(<<>>) = 0  OBVIOUS
      <4> QED  BY <4>1, <4>2, <4>3
    <3>2. /\ Tail(Tail(fr)) \in Seq(Frame) /\ Len(Tail(Tail(fr))) = Len(fr) - 2
          /\ \A i \in 1 .. Len(fr) - 2 : Tail(Tail(fr))[i] = fr[i + 2]
      BY <3>1, <2>1, <1>1
    <3> HIDE <2>3
    <3>3. /\ <<g>> \o Tail(Tail(fr)) \in Seq(Frame)
          /\ Len(<<g>> \o Tail(Tail(fr))) = Len(fr) - 1
          /\ (<<g>> \o Tail(Tail(fr)))[1] = g
          /\ \A i \in 2 .. Len(fr) - 1 : (<<g>> \o Tail(Tail(fr)))[i] = fr[i + 1]
      BY <3>2, <2>2, <2>1, <1>1
    <3> QED  BY <3>3, <2>3
  <2>5. DOMAIN gr = 1 .. Len(fr) - 1  BY <2>4
  <2>6. \A i \in DOMAIN gr : i + 1 \in DOMAIN fr /\ i + 1 # 1 /\ (i = 1 \/ i \in 2 .. Len(fr) - 1)
    BY <1>1, <2>5, Indices
  <2>7. \A i \in DOMAIN gr : Tidy(gr[i], excluded) /\ Rest(gr[i]) = Rest(fr[i + 1])
    <3> TAKE i \in DOMAIN gr
    <3>1. CASE i = 1
      <4>1. i + 1 = 2 /\ gr[i] = g  BY <3>1, <2>4
      <4> QED  BY <4>1, <2>2
    <3>2. CASE i \in 2 .. Len(fr) - 1
      <4>1. gr[i] = fr[i + 1] /\ i + 1 \in DOMAIN fr  BY <3>2, <2>4, <2>6
      <4> QED  BY <4>1, <1>2
    <3> QED  BY <3>1, <3>2, <2>6
  <2> DEFINE h == [i \in DOMAIN gr |-> i + 1]
  <2>8. Separate(gr, td, excluded)
    <3>1. h \in [DOMAIN gr -> DOMAIN fr]  BY <2>6
    <3>2. \A j \in DOMAIN gr : Tidy(gr[j], excluded) /\ Rest(gr[j]) \subseteq Rest(fr[h[j]])
      BY <2>7
    <3>3. \A i, j \in DOMAIN gr : i # j /\ h[i] = h[j] => Rest(gr[i]) \cap Rest(gr[j]) = {}
      <4>1. \A i, j \in DOMAIN gr : i + 1 = j + 1 => i = j  BY <1>1, <2>5, Indices
      <4> QED  BY <4>1
    <3>4. Divides(fr, gr, h)  BY <3>1, <3>2, <3>3 DEF Divides
    <3>5. \A j \in DOMAIN gr : Tidy(gr[j], excluded)  BY <3>2
    <3> HIDE DEF h
    <3> QED  BY <3>4, <3>5, WorkDivided
  <2> DEFINE others == td \cup Under(td) \cup UNION {Rest(fr[i + 1]) : i \in DOMAIN gr}
  <2>9. LeftOf(gr, td) = others
    <3>1. {Rest(gr[i]) : i \in DOMAIN gr} = {Rest(fr[i + 1]) : i \in DOMAIN gr}  BY <2>7
    <3> QED  BY <3>1 DEF LeftOf
  <2>10. LeftOf(fr, td) = others \cup Rest(fr[1])
    <3>1. \A i \in DOMAIN fr : i = 1 \/ (i - 1 \in DOMAIN gr /\ i = (i - 1) + 1)
      BY <1>1, <2>5, Indices
    <3>2. {Rest(fr[i]) : i \in DOMAIN fr} = {Rest(fr[i + 1]) : i \in DOMAIN gr} \cup {Rest(fr[1])}
      <4>1. \A i \in DOMAIN fr : Rest(fr[i]) \in {Rest(fr[j + 1]) : j \in DOMAIN gr} \cup {Rest(fr[1])}
        <5> TAKE i \in DOMAIN fr
        <5>1. CASE i = 1  BY <5>1
        <5>2. CASE i # 1
          <6>1. PICK j \in DOMAIN gr : i = j + 1  BY <3>1, <5>2
          <6> QED  BY <6>1
        <5> QED  BY <5>1, <5>2
      <4>2. \A i \in DOMAIN gr : Rest(fr[i + 1]) \in {Rest(fr[j]) : j \in DOMAIN fr}  BY <2>6
      <4> QED  BY <2>1, <4>1, <4>2
    <3> QED  BY <3>2 DEF LeftOf
  <2>11. others \cap Rest(fr[1]) = {}  BY <1>2, <2>1, <2>6
  <2> HIDE DEF others
  <2>12. LeftOf(gr, td) = LeftOf(fr, td) \ Rest(Head(fr))  BY <1>1, <2>9, <2>10, <2>11
  <2>13. 1 \in DOMAIN gr  BY <2>1, <2>5, <1>1
  <2>14. \A i \in 2 .. Len(gr) : gr[i] = fr[i + 1]  BY <2>4
  <2>15. gr[1].result = r /\ gr[1].fn = fr[2].fn /\ (fr[2].fn = "level" => gr[1].depth = fr[2].depth)
    BY <2>2, <2>4
  <2>16. ReturnedShape(fr, gr, r)  BY <2>4, <2>13, <2>14, <2>15 DEF ReturnedShape
  <2> QED  BY <2>8, <2>12, <2>16
<1> QED  BY <1>3, <1>4

-----------------------------------------------------------------------------
(* Results. *)
LEMMA ResultFacts ==
    ASSUME NEW r \in Result
    PROVE  /\ \A s \in Result : /\ Absorb(r, s) \in Result /\ Absorb(r, s).size = r.size + s.size
                                /\ Flaw(Absorb(r, s)) <=> Flaw(r) \/ Flaw(s)
           /\ \A b, l \in BOOLEAN : /\ Flagged(r, b, l) \in Result /\ Flagged(r, b, l).size = r.size
                                    /\ Flaw(Flagged(r, b, l)) <=> Flaw(r) \/ b
           /\ \A a : /\ Refused(r, a) \in Result /\ Refused(r, a).size = r.size
                     /\ Flaw(Refused(r, a)) <=> Flaw(r) \/ a \in {"denied", "error"}
           /\ \A k \in Nat : LET s == [r EXCEPT !.size = @ + k] IN
                 s \in Result /\ s.size = r.size + k /\ (Flaw(s) <=> Flaw(r))
           /\ LET s == [r EXCEPT !.dedup = @ + 1] IN
                 s \in Result /\ s.size = r.size /\ (Flaw(s) <=> Flaw(r))
           /\ r.size \in Nat
<1>1. r.size \in Nat /\ r.dedup \in Nat /\ r.denied \in Nat /\ r.failed \in Nat
      /\ r.truncated \in BOOLEAN /\ r.timed_out \in BOOLEAN
  BY DEF Result
<1>2. ASSUME NEW s \in Result
      PROVE  /\ Absorb(r, s) \in Result /\ Absorb(r, s).size = r.size + s.size
             /\ Flaw(Absorb(r, s)) <=> Flaw(r) \/ Flaw(s)
  <2>1. s.size \in Nat /\ s.dedup \in Nat /\ s.denied \in Nat /\ s.failed \in Nat
        /\ s.truncated \in BOOLEAN /\ s.timed_out \in BOOLEAN
    BY DEF Result
  <2>2. /\ Absorb(r, s) \in Result /\ Absorb(r, s).size = r.size + s.size
        /\ Absorb(r, s).denied = r.denied + s.denied /\ Absorb(r, s).failed = r.failed + s.failed
        /\ Absorb(r, s).truncated = (r.truncated \/ s.truncated)
    BY <1>1, <2>1 DEF Absorb, Result
  <2> QED  BY <1>1, <2>1, <2>2 DEF Flaw
<1>3. ASSUME NEW b \in BOOLEAN, NEW l \in BOOLEAN
      PROVE  /\ Flagged(r, b, l) \in Result /\ Flagged(r, b, l).size = r.size
             /\ Flaw(Flagged(r, b, l)) <=> Flaw(r) \/ b
  <2>1. /\ Flagged(r, b, l) \in Result /\ Flagged(r, b, l).size = r.size
        /\ Flagged(r, b, l).denied = r.denied /\ Flagged(r, b, l).failed = r.failed
        /\ Flagged(r, b, l).truncated = (r.truncated \/ b)
    BY <1>1 DEF Flagged, Result
  <2> QED  BY <1>1, <2>1 DEF Flaw
<1>4. ASSUME NEW a
      PROVE  /\ Refused(r, a) \in Result /\ Refused(r, a).size = r.size
             /\ Flaw(Refused(r, a)) <=> Flaw(r) \/ a \in {"denied", "error"}
  <2>1. /\ Refused(r, a) \in Result /\ Refused(r, a).size = r.size
        /\ Refused(r, a).denied = IF a = "denied" THEN r.denied + 1 ELSE r.denied
        /\ Refused(r, a).failed = IF a = "error" THEN r.failed + 1 ELSE r.failed
        /\ Refused(r, a).truncated = r.truncated
    <3> DEFINE d == IF a = "denied" THEN r.denied + 1 ELSE r.denied
               e == IF a = "error" THEN r.failed + 1 ELSE r.failed
    <3>1. d \in Nat /\ e \in Nat  BY <1>1
    <3>2. Refused(r, a) = [r EXCEPT !.denied = d, !.failed = e]  BY DEF Refused
    <3> HIDE DEF d, e
    <3>3. /\ Refused(r, a) \in Result /\ Refused(r, a).size = r.size
          /\ Refused(r, a).denied = d /\ Refused(r, a).failed = e
          /\ Refused(r, a).truncated = r.truncated
      BY <3>1, <3>2 DEF Result
    <3> QED  BY <3>3 DEF d, e
  <2> QED  BY <1>1, <2>1 DEF Flaw
<1>5. ASSUME NEW k \in Nat, NEW s, s = [r EXCEPT !.size = @ + k]
      PROVE  s \in Result /\ s.size = r.size + k /\ (Flaw(s) <=> Flaw(r))
  BY <1>1, <1>5 DEF Result, Flaw
<1>6. ASSUME NEW s, s = [r EXCEPT !.dedup = @ + 1]
      PROVE  s \in Result /\ s.size = r.size /\ (Flaw(s) <=> Flaw(r))
  BY <1>1, <1>6 DEF Result, Flaw
<1> QED  BY <1>1, <1>2, <1>3, <1>4, <1>5, <1>6

(* An empty result has no bytes and no flaw.                                  *)
LEMMA NoResultFacts == NoResult \in Result /\ NoResult.size = 0 /\ ~Flaw(NoResult)
BY DEF NoResult, Result, Flaw

-----------------------------------------------------------------------------
(* The bytes in the results of the frames. *)
SizeSum(fr) == SumFunction(SizesOf(fr))

(* The sum over the frames is defined.                                        *)
LEMMA SizesFacts ==
    ASSUME NEW fr \in Seq(Frame)
    PROVE  /\ Len(fr) \in Nat /\ DOMAIN fr = 1 .. Len(fr) /\ IsFiniteSet(1 .. Len(fr))
           /\ DOMAIN SizesOf(fr) = 1 .. Len(fr)
           /\ SizeSum(fr) = SumFunctionOnSet(SizesOf(fr), 1 .. Len(fr))
           /\ \A i \in 1 .. Len(fr) : /\ Len(fr) + 1 - i \in 1 .. Len(fr)
                                      /\ SizesOf(fr)[i] = fr[Len(fr) + 1 - i].result.size
                                      /\ SizesOf(fr)[i] \in Nat
           /\ SizeSum(fr) \in Int
<1>1. Len(fr) \in Nat /\ DOMAIN fr = 1 .. Len(fr)  OBVIOUS
<1>2. IsFiniteSet(1 .. Len(fr))  BY <1>1, FS_Interval
<1>3. DOMAIN SizesOf(fr) = 1 .. Len(fr)  BY <1>1 DEF SizesOf
<1>4. SizeSum(fr) = SumFunctionOnSet(SizesOf(fr), 1 .. Len(fr))
  BY <1>3 DEF SizeSum, SumFunction, FoldFunction, SumFunctionOnSet
<1>5. \A n \in Nat : \A i \in 1 .. n : n + 1 - i \in 1 .. n  OBVIOUS
<1>6. \A i \in 1 .. Len(fr) : fr[i] \in Frame  OBVIOUS
<1>7. ASSUME NEW i \in 1 .. Len(fr)
      PROVE  /\ Len(fr) + 1 - i \in 1 .. Len(fr)
             /\ SizesOf(fr)[i] = fr[Len(fr) + 1 - i].result.size
             /\ SizesOf(fr)[i] \in Nat
  <2>1. Len(fr) + 1 - i \in 1 .. Len(fr)  BY <1>1, <1>5
  <2>2. SizesOf(fr)[i] = fr[Len(fr) + 1 - i].result.size  BY <1>1 DEF SizesOf
  <2>3. fr[Len(fr) + 1 - i].result \in Result  BY <2>1, <1>6, FrameParts
  <2> QED  BY <2>1, <2>2, <2>3, ResultFacts
<1>8. SizeSum(fr) \in Int
  <2>1. \A i \in 1 .. Len(fr) : SizesOf(fr)[i] \in Int  BY <1>7
  <2> QED  BY <1>2, <1>4, <2>1, SumIsInt
<1> QED  BY <1>1, <1>2, <1>3, <1>4, <1>7, <1>8

(* Without a frame there are no bytes.                                        *)
LEMMA NoSizes == SizeSum(<<>>) = 0
<1>1. <<>> \in Seq(Frame) /\ Len(<<>>) = 0  OBVIOUS
<1>2. 1 .. 0 = {}  OBVIOUS
<1>3. SizeSum(<<>>) = SumFunctionOnSet(SizesOf(<<>>), {})  BY <1>1, <1>2, SizesFacts
<1>4. \A f : SumFunctionOnSet(f, {}) = 0  BY FS_EmptySet, SumStepwise
<1> QED  BY <1>3, <1>4

(* One more frame, and a change of the innermost one. *)
LEMMA SizesOneMore ==
    ASSUME NEW fr \in Seq(Frame), NEW gr \in Seq(Frame), Len(gr) = Len(fr) + 1,
           \A i \in 1 .. Len(fr) : gr[i + 1].result.size = fr[i].result.size
    PROVE  SizeSum(gr) = SizeSum(fr) + gr[1].result.size
<1> DEFINE n == Len(fr)
<1>1. n \in Nat /\ 1 .. n + 1 = (1 .. n) \cup {n + 1} /\ n + 1 \notin 1 .. n /\ n + 1 \in 1 .. n + 1
  OBVIOUS
<1>2. \A i \in 1 .. n + 1 : SizesOf(gr)[i] \in Int /\ SizesOf(gr)[i] = gr[n + 1 + 1 - i].result.size
  <2>1. Len(gr) = n + 1 /\ n + 1 \in Nat  OBVIOUS
  <2>2. /\ \A i \in 1 .. Len(gr) : SizesOf(gr)[i] = gr[Len(gr) + 1 - i].result.size
        /\ \A i \in 1 .. Len(gr) : SizesOf(gr)[i] \in Nat
    BY SizesFacts
  <2>3. \A i \in 1 .. n + 1 : SizesOf(gr)[i] = gr[Len(gr) + 1 - i].result.size  BY <2>1, <2>2
  <2> TAKE i \in 1 .. n + 1
  <2>4. Len(gr) + 1 - i = n + 1 + 1 - i  BY <2>1
  <2>5. i \in 1 .. Len(gr)  BY <2>1
  <2> QED  BY <2>2, <2>3, <2>4, <2>5
<1>3. ASSUME NEW i \in 1 .. n PROVE SizesOf(gr)[i] = SizesOf(fr)[i] /\ SizesOf(gr)[i] \in Int
  <2>1. i \in 1 .. n + 1 /\ n + 1 - i \in 1 .. n /\ n + 1 + 1 - i = (n + 1 - i) + 1  BY <1>1
  <2>2. SizesOf(gr)[i] = gr[(n + 1 - i) + 1].result.size  BY <1>2, <2>1
  <2>3. SizesOf(fr)[i] = fr[n + 1 - i].result.size  BY SizesFacts
  <2> QED  BY <1>2, <2>1, <2>2, <2>3
<1>4. SizesOf(gr)[n + 1] = gr[1].result.size /\ SizesOf(gr)[n + 1] \in Int
  <2>1. n + 1 + 1 - (n + 1) = 1  BY <1>1
  <2> QED  BY <1>1, <1>2, <2>1
<1>5. /\ SizeSum(gr) = SumFunctionOnSet(SizesOf(gr), (1 .. n) \cup {n + 1})
      /\ SizeSum(fr) = SumFunctionOnSet(SizesOf(fr), 1 .. n) /\ IsFiniteSet(1 .. n)
  BY <1>1, SizesFacts
<1> HIDE DEF n
<1>7. \A i \in 1 .. n : SizesOf(gr)[i] \in Int /\ SizesOf(gr)[i] = SizesOf(fr)[i]  BY <1>3
<1>6. SumFunctionOnSet(SizesOf(gr), (1 .. n) \cup {n + 1})
      = SumFunctionOnSet(SizesOf(fr), 1 .. n) + SizesOf(gr)[n + 1]
  <2> DEFINE S == 1 .. n
             x == n + 1
  <2>1. /\ x \notin S /\ IsFiniteSet(S) /\ SizesOf(gr)[x] \in Int
        /\ \A y \in S : SizesOf(gr)[y] \in Int /\ SizesOf(gr)[y] = SizesOf(fr)[y]
    BY <1>1, <1>4, <1>5, <1>7
  <2> HIDE DEF S, x
  <2>2. SumFunctionOnSet(SizesOf(gr), S \cup {x})
        = SumFunctionOnSet(SizesOf(fr), S) + SizesOf(gr)[x]
    BY <2>1, SumOfOneMore
  <2> QED  BY <2>2 DEF S, x
<1> QED  BY <1>4, <1>5, <1>6

(* A change of the result of the innermost frame changes the sum as much.     *)
LEMMA SizesOneChanged ==
    ASSUME NEW fr \in Seq(Frame), fr # <<>>, NEW gr \in Seq(Frame), Len(gr) = Len(fr),
           \A i \in 2 .. Len(fr) : gr[i] = fr[i]
    PROVE  SizeSum(gr) = SizeSum(fr) + gr[1].result.size - fr[1].result.size
<1> DEFINE n == Len(fr)
<1>0. n \in Nat /\ n >= 1  OBVIOUS
<1>1. n \in 1 .. n /\ n + 1 - n = 1  BY <1>0
<1>2. /\ \A i \in 1 .. n : SizesOf(gr)[i] = gr[n + 1 - i].result.size
      /\ \A i \in 1 .. n : SizesOf(fr)[i] = fr[n + 1 - i].result.size
      /\ \A i \in 1 .. n : SizesOf(gr)[i] \in Int /\ SizesOf(fr)[i] \in Int
  BY SizesFacts
<1>3. ASSUME NEW i \in (1 .. n) \ {n} PROVE SizesOf(gr)[i] = SizesOf(fr)[i]
  <2>1. i \in 1 .. n /\ n + 1 - i \in 2 .. n  BY <1>0
  <2> QED  BY <1>2, <2>1
<1>4. SizesOf(gr)[n] = gr[1].result.size /\ SizesOf(fr)[n] = fr[1].result.size
  BY <1>1, <1>2
<1>5. /\ SizeSum(gr) = SumFunctionOnSet(SizesOf(gr), 1 .. n)
      /\ SizeSum(fr) = SumFunctionOnSet(SizesOf(fr), 1 .. n) /\ IsFiniteSet(1 .. n)
  BY SizesFacts
<1> HIDE DEF n
<1>7. \A i \in (1 .. n) \ {n} : SizesOf(gr)[i] = SizesOf(fr)[i]  BY <1>3
<1>6. SumFunctionOnSet(SizesOf(gr), 1 .. n)
      = SumFunctionOnSet(SizesOf(fr), 1 .. n) + SizesOf(gr)[n] - SizesOf(fr)[n]
  <2> DEFINE S == 1 .. n
  <2>1. /\ n \in S /\ IsFiniteSet(S)
        /\ \A y \in S : SizesOf(fr)[y] \in Int /\ SizesOf(gr)[y] \in Int
        /\ \A y \in S \ {n} : SizesOf(gr)[y] = SizesOf(fr)[y]
    BY <1>1, <1>2, <1>5, <1>7
  <2> HIDE DEF S
  <2>2. SumFunctionOnSet(SizesOf(gr), S)
        = SumFunctionOnSet(SizesOf(fr), S) + SizesOf(gr)[n] - SizesOf(fr)[n]
    BY <2>1, SumOfOneChanged
  <2> QED  BY <2>2 DEF S
<1> QED  BY <1>4, <1>5, <1>6

-----------------------------------------------------------------------------
(* The innermost call continues. *)
FramesOK(fr) ==
    /\ fr \in Seq(Frame)
    /\ \A i \in DOMAIN fr : fr[i].fn = "level" => fr[i].depth \in 2 .. scenario.max_depth
(* The type invariant says that the frames are well formed.                   *)
LEMMA TypeOfFrames == TypeOK => FramesOK(frames) /\ total \in Result
BY DEF TypeOK, FramesOK, Frame

(* The innermost call is the head of the list of frames.                      *)
LEMMA InnermostFrame ==
    ASSUME FramesOK(frames), frames # <<>>
    PROVE  /\ Top = frames[1] /\ Top \in Frame /\ 1 \in DOMAIN frames
           /\ Top.fn = "level" => Top.depth \in 2 .. scenario.max_depth
           /\ Len(frames) \in Nat /\ Len(frames) >= 1 /\ DOMAIN frames = 1 .. Len(frames)
<1>1. /\ Top = frames[1] /\ Top \in Frame /\ 1 \in DOMAIN frames
      /\ Len(frames) \in Nat /\ Len(frames) >= 1 /\ DOMAIN frames = 1 .. Len(frames)
  BY DEF Top, FramesOK
<1> QED  BY <1>1 DEF FramesOK

(* The innermost call goes on with a part of its work.                        *)
LEMMA ContinueStep ==
    ASSUME FramesOK(frames), total \in Result, Separate(frames, todo, exclusions), frames # <<>>,
           NEW f \in Frame, Tidy(f, exclusions), Rest(f) \subseteq Rest(Top),
           f.fn = "level" => f.depth \in 2 .. scenario.max_depth,
           Flaw(Top.result) => Flaw(f.result), Continue(f), UNCHANGED <<scenario, todo, exclusions, errors>>
    PROVE  /\ FramesOK(frames)' /\ total' = total
           /\ Separate(frames, todo, exclusions)'
           /\ Left' = Left \ (Rest(Top) \ Rest(f))
           /\ SizeSum(frames') = SizeSum(frames) + f.result.size - Top.result.size
           /\ Flawed => Flawed'
           /\ Flaw(f.result) => Flawed'
<1>1. /\ Top = frames[1] /\ 1 \in DOMAIN frames
      /\ Len(frames) \in Nat /\ Len(frames) >= 1 /\ DOMAIN frames = 1 .. Len(frames)
  BY InnermostFrame
<1>2. frames' = <<f>> \o Tail(frames) /\ total' = total  BY DEF Continue
<1>3. frames \in Seq(Frame)  BY DEF FramesOK
<1>4. /\ frames' \in Seq(Frame) /\ Len(frames') = Len(frames) /\ frames'[1] = f
      /\ \A i \in 2 .. Len(frames) : frames'[i] = frames[i]
      /\ Separate(frames', todo, exclusions)
      /\ LeftOf(frames', todo) = LeftOf(frames, todo) \ (Rest(Top) \ Rest(f))
  <2>1. Head(frames) = Top /\ Rest(f) \subseteq Rest(Head(frames))  BY DEF Top
  <2>2. frames' \in Seq(Frame)  BY <1>2, <1>3
  <2>3. Len(frames') = Len(frames)  BY <1>2, <1>3
  <2>4. frames'[1] = f /\ \A i \in 2 .. Len(frames) : frames'[i] = frames[i]  BY <1>2, <1>3
  <2> DEFINE gr == Continued(frames, f)
  <2>7. frames' = gr  BY <1>2 DEF Continued
  <2> HIDE DEF gr
  <2>8. gr = Continued(frames, f)  BY DEF gr
  <2>5. Separate(gr, todo, exclusions)  BY <1>3, <2>1, <2>8, ContinueDivides
  <2>6. LeftOf(gr, todo) = LeftOf(frames, todo) \ (Rest(Head(frames)) \ Rest(f))
    BY <1>3, <2>1, <2>8, ContinueDivides
  <2> QED  BY <2>1, <2>2, <2>3, <2>4, <2>5, <2>6, <2>7
<1>5. SizeSum(frames') = SizeSum(frames) + f.result.size - Top.result.size
  BY <1>1, <1>3, <1>4, SizesOneChanged
<1>6. DOMAIN frames' = DOMAIN frames  BY <1>1, <1>4
<1>7. \A i \in DOMAIN frames : i = 1 \/ frames'[i] = frames[i]
  BY <1>1, <1>4, Indices
<1>8. FramesOK(frames)'  BY <1>4, <1>6, <1>7 DEF FramesOK
<1>9. Flaw(f.result) => Flawed'  BY <1>1, <1>4, <1>6 DEF Flawed
<1>10. ASSUME Flawed PROVE Flawed'
  <2>1. ASSUME NEW i \in DOMAIN frames, Flaw(frames[i].result) PROVE Flawed'
    <3>1. CASE i = 1  BY <3>1, <2>1, <1>1, <1>9
    <3>2. CASE i # 1  BY <3>2, <2>1, <1>6, <1>7 DEF Flawed
    <3> QED  BY <3>1, <3>2
  <2> QED  BY <1>2, <1>10, <2>1 DEF Flawed
<1> QED  BY <1>2, <1>4, <1>5, <1>8, <1>9, <1>10 DEF Left

(* It calls another one. *)
LEMMA InvokeStep ==
    ASSUME FramesOK(frames), total \in Result, Separate(frames, todo, exclusions), frames # <<>>,
           NEW f \in Frame, Tidy(f, exclusions), NEW g \in Frame, Tidy(g, exclusions),
           f.fn = "level" => f.depth \in 2 .. scenario.max_depth,
           g.fn = "level" => g.depth \in 2 .. scenario.max_depth,
           Rest(f) \cap Rest(g) = {}, Rest(f) \cup Rest(g) = Rest(Top),
           f.result = Top.result, g.result = NoResult,
           Invoke(f, g), UNCHANGED <<scenario, todo, exclusions, errors>>
    PROVE  /\ FramesOK(frames)' /\ total' = total
           /\ Separate(frames, todo, exclusions)'
           /\ Left' = Left
           /\ SizeSum(frames') = SizeSum(frames)
           /\ Flawed => Flawed'
<1>1. /\ Top = frames[1] /\ 1 \in DOMAIN frames
      /\ Len(frames) \in Nat /\ Len(frames) >= 1 /\ DOMAIN frames = 1 .. Len(frames)
  BY InnermostFrame
<1>2. frames' = <<g, f>> \o Tail(frames) /\ total' = total  BY DEF Invoke
<1>3. frames \in Seq(Frame)  BY DEF FramesOK
<1>4. /\ frames' \in Seq(Frame) /\ Len(frames') = Len(frames) + 1
      /\ frames'[1] = g /\ frames'[2] = f
      /\ \A i \in 2 .. Len(frames) : frames'[i + 1] = frames[i]
      /\ Separate(frames', todo, exclusions)
      /\ LeftOf(frames', todo) = LeftOf(frames, todo)
  <2>1. Head(frames) = Top /\ Rest(f) \cup Rest(g) = Rest(Head(frames))  BY DEF Top
  <2>2. frames' \in Seq(Frame)  BY <1>2, <1>3
  <2>3. Len(frames') = Len(frames) + 1  BY <1>2, <1>3
  <2>4. /\ frames'[1] = g /\ frames'[2] = f
        /\ \A i \in 2 .. Len(frames) : frames'[i + 1] = frames[i]
    BY <1>2, <1>3
  <2> DEFINE gr == Invoked(frames, f, g)
  <2>7. frames' = gr  BY <1>2 DEF Invoked
  <2> HIDE DEF gr
  <2>8. gr = Invoked(frames, f, g)  BY DEF gr
  <2>5. Separate(gr, todo, exclusions)  BY <1>3, <2>1, <2>8, InvokeDivides
  <2>6. LeftOf(gr, todo) = LeftOf(frames, todo)  BY <1>3, <2>1, <2>8, InvokeDivides
  <2> QED  BY <2>1, <2>2, <2>3, <2>4, <2>5, <2>6, <2>7
<1>5. \A i \in 1 .. Len(frames) : frames'[i + 1].result = frames[i].result
  <2> TAKE i \in 1 .. Len(frames)
  <2>1. CASE i = 1
    <3>1. i + 1 = 2  BY <2>1
    <3> QED  BY <3>1, <2>1, <1>1, <1>4
  <2>2. CASE i \in 2 .. Len(frames)  BY <2>2, <1>4
  <2> QED  BY <2>1, <2>2, <1>1, Indices
<1>6. SizeSum(frames') = SizeSum(frames)
  <2>1. SizeSum(frames') = SizeSum(frames) + g.result.size  BY <1>3, <1>4, <1>5, SizesOneMore
  <2> QED  BY <1>3, <2>1, NoResultFacts, SizesFacts
<1>7. DOMAIN frames' = 1 .. Len(frames) + 1  BY <1>4
<1>8. \A n \in Nat : \A i \in 1 .. n : i + 1 \in 1 .. n + 1  OBVIOUS
<1>9. \A n \in Nat : \A i \in 1 .. n + 1 : i = 1 \/ i = 2 \/ (i - 1 \in 2 .. n /\ i = (i - 1) + 1)
  OBVIOUS
<1>10. FramesOK(frames)'
  <2>1. ASSUME NEW i \in DOMAIN frames', frames'[i].fn = "level"
        PROVE  frames'[i].depth \in 2 .. scenario.max_depth
    <3>1. CASE i = 1  BY <3>1, <2>1, <1>4
    <3>2. CASE i = 2  BY <3>2, <2>1, <1>4
    <3>3. CASE i # 1 /\ i # 2
      <4>1. i - 1 \in 2 .. Len(frames) /\ i = (i - 1) + 1  BY <3>3, <1>1, <1>7, <1>9
      <4>2. i - 1 \in DOMAIN frames  BY <4>1, <1>1, Indices
      <4>3. frames'[i] = frames[i - 1]  BY <4>1, <1>4
      <4> QED  BY <4>2, <4>3, <2>1 DEF FramesOK
    <3> QED  BY <3>1, <3>2, <3>3
  <2> QED  BY <1>4, <2>1 DEF FramesOK
<1>11. ASSUME Flawed PROVE Flawed'
  <2>1. ASSUME NEW i \in DOMAIN frames, Flaw(frames[i].result) PROVE Flawed'
    <3>1. i + 1 \in DOMAIN frames' /\ Flaw(frames'[i + 1].result)
      BY <2>1, <1>1, <1>5, <1>7, <1>8
    <3> QED  BY <3>1 DEF Flawed
  <2> QED  BY <1>2, <1>11, <2>1 DEF Flawed
<1> QED  BY <1>2, <1>4, <1>6, <1>10, <1>11 DEF Left

(* It returns. *)
LEMMA ReturnStep ==
    ASSUME FramesOK(frames), total \in Result, Separate(frames, todo, exclusions), frames # <<>>,
           NEW r \in Result, Flaw(Top.result) => Flaw(r),
           ReturnWith(r), UNCHANGED <<scenario, todo, exclusions, errors>>
    PROVE  /\ FramesOK(frames)' /\ total' \in Result
           /\ Separate(frames, todo, exclusions)'
           /\ Left' = Left \ Rest(Top)
           /\ total'.size + SizeSum(frames') = total.size + SizeSum(frames) + r.size - Top.result.size
           /\ Flawed => Flawed'
           /\ Flaw(r) => Flawed'
<1>1. /\ Top = frames[1] /\ Top \in Frame /\ 1 \in DOMAIN frames
      /\ Len(frames) \in Nat /\ Len(frames) >= 1 /\ DOMAIN frames = 1 .. Len(frames)
  BY InnermostFrame
<1>2. frames \in Seq(Frame) /\ \A i \in DOMAIN frames : frames[i] \in Frame /\ frames[i].result \in Result
  <2>1. frames \in Seq(Frame)  BY DEF FramesOK
  <2>2. \A i \in DOMAIN frames : frames[i] \in Frame  BY <2>1
  <2> QED  BY <2>1, <2>2, FrameParts
<1>3. SizeSum(frames) \in Int /\ SizeSum(Tail(frames)) \in Int
      /\ SizeSum(frames) = SizeSum(Tail(frames)) + Top.result.size
  <2>1. Tail(frames) \in Seq(Frame) /\ Len(frames) = Len(Tail(frames)) + 1
        /\ \A i \in 1 .. Len(Tail(frames)) : Tail(frames)[i] = frames[i + 1]
    BY <1>1, <1>2
  <2>2. \A i \in 1 .. Len(Tail(frames)) : frames[i + 1].result.size = Tail(frames)[i].result.size
    BY <2>1
  <2>3. SizeSum(frames) = SizeSum(Tail(frames)) + frames[1].result.size
    BY <1>2, <2>1, <2>2, SizesOneMore
  <2> QED  BY <1>1, <1>2, <2>1, <2>3, SizesFacts
<1>4. Top.result.size \in Nat /\ r.size \in Nat /\ total.size \in Nat  BY <1>1, <1>2, ResultFacts
<1>5. CASE Len(frames) = 1
  <2>1. frames' = <<>> /\ total' = Absorb(total, r)  BY <1>5 DEF ReturnWith
  <2>2. frames' = IF Len(frames) = 1 THEN <<>>
                  ELSE <<[frames[2] EXCEPT !.result = r]>> \o Tail(Tail(frames))
    BY <1>5, <2>1
  <2>3. /\ Separate(frames', todo, exclusions)
        /\ LeftOf(frames', todo) = LeftOf(frames, todo) \ Rest(Top)
    <3>1. Head(frames) = Top  BY DEF Top
    <3> DEFINE gr == Returned(frames, r)
    <3>10. frames' = gr  BY <2>2 DEF Returned
    <3> HIDE DEF gr
    <3>11. gr = Returned(frames, r) /\ frames \in Seq(Frame)  BY <1>2 DEF gr
    <3>2. Separate(gr, todo, exclusions)  BY <3>11, ReturnDivides
    <3>3. LeftOf(gr, todo) = LeftOf(frames, todo) \ Rest(Head(frames))  BY <3>11, ReturnDivides
    <3> QED  BY <3>1, <3>2, <3>3, <3>10
  <2>4. total' \in Result /\ total'.size = total.size + r.size
        /\ (Flaw(total') <=> Flaw(total) \/ Flaw(r))
    BY <2>1, ResultFacts
  <2>5. SizeSum(frames') = 0  BY <2>1, NoSizes
  <2>6. SizeSum(Tail(frames)) = 0
    <3>1. Tail(frames) = <<>>
      <4>1. Tail(frames) \in Seq(Frame) /\ Len(Tail(frames)) = 0  BY <1>1, <1>2, <1>5
      <4> QED  BY <4>1, EmptySeq
    <3> QED  BY <3>1, NoSizes
  <2>7. FramesOK(frames)'  BY <2>1 DEF FramesOK
  <2>8. ASSUME Flawed PROVE Flaw(total') \/ errors'
    <3>1. \A i \in DOMAIN frames : i = 1  BY <1>1, <1>5
    <3> QED  BY <2>4, <2>8, <3>1, <1>1 DEF Flawed
  <2> QED  BY <1>3, <1>4, <2>3, <2>4, <2>5, <2>6, <2>7, <2>8 DEF Left, Flawed
<1>6. CASE Len(frames) # 1
  <2> DEFINE s == Absorb(frames[2].result, r)
  <2>0. 2 \in DOMAIN frames /\ Len(frames) - 1 >= 1  BY <1>1, <1>6
  <2>1. total' = total
        /\ frames' = <<[frames[2] EXCEPT !.result = s]>> \o Tail(Tail(frames))
    BY <1>6 DEF ReturnWith
  <2>2. frames' = IF Len(frames) = 1 THEN <<>>
                  ELSE <<[frames[2] EXCEPT !.result = s]>> \o Tail(Tail(frames))
    BY <1>6, <2>1
  <2>3. s \in Result /\ s.size = frames[2].result.size + r.size
        /\ (Flaw(s) <=> Flaw(frames[2].result) \/ Flaw(r))
    BY <1>2, <2>0, ResultFacts
  <2> HIDE DEF s
  <2>4. /\ frames' \in Seq(Frame) /\ Len(frames') = Len(frames) - 1
        /\ 1 \in DOMAIN frames' /\ frames'[1].result = s
        /\ frames'[1].fn = frames[2].fn
        /\ frames[2].fn = "level" => frames'[1].depth = frames[2].depth
        /\ \A i \in 2 .. Len(frames') : frames'[i] = frames[i + 1]
        /\ Separate(frames', todo, exclusions)
        /\ LeftOf(frames', todo) = LeftOf(frames, todo) \ Rest(Top)
    <3>1. Head(frames) = Top  BY DEF Top
    <3> DEFINE gr == Returned(frames, s)
    <3>10. frames' = gr  BY <2>2 DEF Returned
    <3> HIDE DEF gr
    <3>11. gr = Returned(frames, s) /\ frames \in Seq(Frame)  BY <1>2 DEF gr
    <3>2. Separate(gr, todo, exclusions)  BY <3>11, <2>3, ReturnDivides
    <3>3. LeftOf(gr, todo) = LeftOf(frames, todo) \ Rest(Head(frames))  BY <3>11, <2>3, ReturnDivides
    <3>4. ReturnedShape(frames, gr, s)  BY <3>11, <2>3, ReturnDivides
    <3> QED  BY <1>6, <3>1, <3>2, <3>3, <3>4, <3>10 DEF ReturnedShape
  <2>5. SizeSum(frames') = SizeSum(Tail(frames)) + s.size - frames[2].result.size
    <3>1. /\ Tail(frames) \in Seq(Frame) /\ Len(Tail(frames)) = Len(frames) - 1
          /\ Tail(frames) # <<>>
          /\ \A i \in 1 .. Len(frames) - 1 : Tail(frames)[i] = frames[i + 1]
      <4>1. /\ Tail(frames) \in Seq(Frame) /\ Len(Tail(frames)) = Len(frames) - 1
            /\ \A i \in 1 .. Len(frames) - 1 : Tail(frames)[i] = frames[i + 1]
        BY <1>1, <1>2
      <4>2. Len(Tail(frames)) # 0  BY <4>1, <2>0, <1>1
      <4>3. Len(<<>>) = 0  OBVIOUS
      <4> QED  BY <4>1, <4>2, <4>3
    <3>2. Tail(frames)[1] = frames[2]
      <4>1. 1 \in 1 .. Len(frames) - 1 /\ 1 + 1 = 2  BY <2>0, <1>1
      <4> QED  BY <3>1, <4>1
    <3>3. \A i \in 2 .. Len(Tail(frames)) : frames'[i] = Tail(frames)[i]
      <4>1. \A n \in Nat : \A i \in 2 .. n : i \in 1 .. n  OBVIOUS
      <4>2. Len(Tail(frames)) = Len(frames') /\ Len(Tail(frames)) \in Nat  BY <2>4, <3>1
      <4> QED  BY <2>4, <3>1, <4>1, <4>2
    <3>4. SizeSum(frames') = SizeSum(Tail(frames)) + frames'[1].result.size - Tail(frames)[1].result.size
      BY <2>4, <3>1, <3>3, SizesOneChanged
    <3> QED  BY <2>4, <3>2, <3>4
  <2>6. total'.size + SizeSum(frames') = total.size + SizeSum(frames) + r.size - Top.result.size
    <3>1. frames[2].result.size \in Nat  BY <1>2, <2>0, ResultFacts
    <3>2. total'.size = total.size  BY <2>1
    <3>3. SizeSum(frames') = SizeSum(Tail(frames)) + r.size
      BY <1>3, <1>4, <2>3, <2>5, <3>1
    <3> QED  BY <1>3, <1>4, <3>2, <3>3
  <2>7. Len(frames') \in Nat /\ Len(frames') >= 1 /\ DOMAIN frames' = 1 .. Len(frames')
    BY <2>0, <2>4, <1>1
  <2>8. FramesOK(frames)'
    <3>1. ASSUME NEW i \in DOMAIN frames', frames'[i].fn = "level"
          PROVE  frames'[i].depth \in 2 .. scenario.max_depth
      <4>1. CASE i = 1  BY <4>1, <2>0, <2>4, <3>1 DEF FramesOK
      <4>2. CASE i # 1
        <5>1. i \in 2 .. Len(frames') /\ i \in 1 .. Len(frames) - 1  BY <4>2, <2>4, <2>7, Indices
        <5>2. i + 1 \in DOMAIN frames  BY <5>1, <1>1, Indices
        <5> QED  BY <5>1, <5>2, <2>4, <3>1 DEF FramesOK
      <4> QED  BY <4>1, <4>2
    <3> QED  BY <2>4, <3>1 DEF FramesOK
  <2>9. Flaw(s) => Flawed'  BY <2>4 DEF Flawed
  <2>10. ASSUME Flawed PROVE Flawed'
    <3>1. ASSUME NEW i \in DOMAIN frames, Flaw(frames[i].result) PROVE Flawed'
      <4>1. CASE i = 1  BY <4>1, <3>1, <1>1, <2>3, <2>9
      <4>2. CASE i = 2  BY <4>2, <3>1, <2>3, <2>9
      <4>3. CASE i # 1 /\ i # 2
        <5>1. \A n \in Nat : \A k \in 1 .. n : k # 1 /\ k # 2 => k - 1 \in 2 .. n - 1 /\ k = (k - 1) + 1
          OBVIOUS
        <5>2. i - 1 \in 2 .. Len(frames') /\ i = (i - 1) + 1  BY <5>1, <4>3, <1>1, <2>4
        <5>3. frames'[i - 1] = frames[i] /\ i - 1 \in DOMAIN frames'
          BY <5>2, <2>4, <2>7, Indices
        <5> QED  BY <5>3, <3>1 DEF Flawed
      <4> QED  BY <4>1, <4>2, <4>3
    <3> QED  BY <2>1, <2>10, <3>1 DEF Flawed
  <2>11. Flaw(r) => Flawed'  BY <2>3, <2>9
  <2> QED  BY <2>1, <2>4, <2>6, <2>8, <2>10, <2>11 DEF Left
<1> QED  BY <1>5, <1>6

-----------------------------------------------------------------------------
(* Every path has an inode with a size.                                       *)
LEMMA InodeFacts ==
    ASSUME TypeOK, NEW n \in Nodes
    PROVE  /\ scenario.shows[n] \in Nodes /\ InodeOf(n) \in DOMAIN Size /\ Size[InodeOf(n)] \in Nat
           /\ InodeOf(n) \in {Inode[m] : m \in Nodes}
           /\ counted[n] \in Nat /\ counted[n] * Size[InodeOf(n)] \in Nat
<1>1. scenario \in Scenario  BY ScenarioAssumption DEF TypeOK
<1>2. scenario.shows[n] \in Nodes  BY <1>1 DEF Scenario
<1>3. InodeOf(n) \in DOMAIN Size /\ Size[InodeOf(n)] \in Nat /\ InodeOf(n) \in {Inode[m] : m \in Nodes}
  BY <1>2, InodeAssumption DEF InodeOf
<1>4. counted[n] \in Nat  BY DEF TypeOK
<1>5. \A a, b \in Nat : a * b \in Nat  OBVIOUS
<1> QED  BY <1>2, <1>3, <1>4, <1>5

Bytes == [n \in Nodes |-> counted[n] * Size[InodeOf(n)]]

(* A step that measures nothing, and loses no byte of a result, keeps the     *)
(* count.                                                                     *)
LEMMA NothingCounted ==
    ASSUME CountInv, UNCHANGED <<scenario, exclusions, counted, scanned>>, Left' \subseteq Left,
           total'.size + SizeSum(frames') = total.size + SizeSum(frames)
    PROVE  CountInv'
<1>1. Bytes' = Bytes  BY DEF Bytes, InodeOf
<1>2. \A n \in Nodes : InScope(n)' = InScope(n)  BY DEF InScope
<1>3. /\ \A n \in Nodes : counted[n] <= IF InScope(n) THEN 1 ELSE 0
      /\ \A n \in Left : counted[n] = 0
      /\ scanned = SumFunction(counted)
      /\ total.size + SizeSum(frames) = SumFunction(Bytes)
  BY DEF CountInv, SizeSum, Bytes
<1>4. /\ \A n \in Nodes : counted'[n] <= IF InScope(n)' THEN 1 ELSE 0
      /\ \A n \in Left' : counted'[n] = 0
      /\ scanned' = SumFunction(counted')
      /\ total'.size + SizeSum(frames') = SumFunction(Bytes')
  BY <1>1, <1>2, <1>3
<1> QED  BY <1>4 DEF CountInv, SizeSum, Bytes

(* So does a step that measures one path, which was left and is left no more. *)
LEMMA OneCounted ==
    ASSUME TypeOK, CountInv, NEW n \in Nodes, n \in Left, n \notin Left', InScope(n),
           UNCHANGED <<scenario, exclusions>>, Account(n), Left' \subseteq Left,
           total.size + SizeSum(frames) \in Int,
           total'.size + SizeSum(frames') = total.size + SizeSum(frames) + Size[InodeOf(n)]
    PROVE  CountInv'
<1>1. /\ \A k \in Nodes : counted[k] <= IF InScope(k) THEN 1 ELSE 0
      /\ \A k \in Left : counted[k] = 0
      /\ scanned = SumFunction(counted)
      /\ total.size + SizeSum(frames) = SumFunction(Bytes)
  BY DEF CountInv, SizeSum, Bytes
<1>2. counted \in [Nodes -> Nat] /\ counted[n] = 0  BY <1>1 DEF TypeOK
<1>3. /\ counted' \in [Nodes -> Nat] /\ counted'[n] = 1
      /\ \A k \in Nodes \ {n} : counted'[k] = counted[k]
  BY <1>2 DEF Account
<1>4. \A k : InodeOf(k)' = InodeOf(k)  BY DEF InodeOf
<1>5. /\ SumFunction(counted) = SumFunctionOnSet(counted, Nodes)
      /\ SumFunction(counted') = SumFunctionOnSet(counted', Nodes)
      /\ SumFunction(Bytes) = SumFunctionOnSet(Bytes, Nodes)
      /\ SumFunction(Bytes') = SumFunctionOnSet(Bytes', Nodes)
  <2>1. DOMAIN counted = Nodes /\ DOMAIN counted' = Nodes  BY <1>2, <1>3
  <2>2. DOMAIN Bytes = Nodes /\ DOMAIN Bytes' = Nodes  BY DEF Bytes
  <2>3. \A f : SumFunction(f) = SumFunctionOnSet(f, DOMAIN f)
    BY DEF SumFunction, SumFunctionOnSet, FoldFunction
  <2> QED  BY <2>1, <2>2, <2>3
<1>6. IsFiniteSet(Nodes)  BY TreeAssumption
<1>7. SumFunction(counted') = SumFunction(counted) + 1
  <2>1. \A k \in Nodes : counted[k] \in Int /\ counted'[k] \in Int  BY <1>2, <1>3
  <2>2. SumFunctionOnSet(counted', Nodes) = SumFunctionOnSet(counted, Nodes) + counted'[n] - counted[n]
    BY <1>3, <1>6, <2>1, SumOfOneChanged
  <2>3. SumFunctionOnSet(counted, Nodes) \in Int  BY <1>6, <2>1, SumIsInt
  <2> QED  BY <1>2, <1>3, <1>5, <2>2, <2>3
<1>8. SumFunction(Bytes') = SumFunction(Bytes) + Size[InodeOf(n)]
  <2>1. \A k \in Nodes : Bytes[k] = counted[k] * Size[InodeOf(k)] /\ Bytes'[k] = counted'[k] * Size[InodeOf(k)]
    BY <1>4 DEF Bytes
  <2>2. \A k \in Nodes : Size[InodeOf(k)] \in Nat  BY InodeFacts
  <2>3. \A a, b \in Nat : a * b \in Int /\ 0 * b = 0 /\ 1 * b = b  OBVIOUS
  <2>4. \A k \in Nodes : Bytes[k] \in Int /\ Bytes'[k] \in Int  BY <1>2, <1>3, <2>1, <2>2, <2>3
  <2>5. \A k \in Nodes \ {n} : Bytes'[k] = Bytes[k]  BY <1>3, <2>1
  <2>6. Bytes[n] = 0 /\ Bytes'[n] = Size[InodeOf(n)]  BY <1>2, <1>3, <2>1, <2>2, <2>3
  <2>7. SumFunctionOnSet(Bytes', Nodes) = SumFunctionOnSet(Bytes, Nodes) + Bytes'[n] - Bytes[n]
    BY <1>6, <2>4, <2>5, SumOfOneChanged
  <2>8. SumFunctionOnSet(Bytes, Nodes) \in Int  BY <1>6, <2>4, SumIsInt
  <2> QED  BY <1>5, <2>2, <2>6, <2>7, <2>8
<1>9. \A k \in Nodes : InScope(k)' = InScope(k)  BY DEF InScope
<1>10. /\ \A k \in Nodes : counted'[k] <= IF InScope(k)' THEN 1 ELSE 0
       /\ \A k \in Left' \cap Nodes : counted'[k] = 0
  BY <1>1, <1>2, <1>3, <1>9
<1>11. ASSUME NEW k \in Left' PROVE counted'[k] = 0
  <2>1. k # n /\ counted[k] = 0  BY <1>1
  <2> QED  BY <2>1, <1>2 DEF Account
<1>12. scanned' = SumFunction(counted')  BY <1>1, <1>7 DEF Account
<1>13. total'.size + SizeSum(frames') = SumFunction(Bytes')  BY <1>1, <1>8
<1> QED  BY <1>10, <1>11, <1>12, <1>13 DEF CountInv, SizeSum, Bytes

(* A step keeps the cover if what it takes from the paths left is measured,   *)
(* or a flaw recorded.                                                        *)
LEMMA CoverKept ==
    ASSUME CoverInv, UNCHANGED <<scenario, exclusions, fs, stable, exists, pc>>, pc = "scan",
           exists = "yes",
           \A m \in Nodes : counted[m] > 0 => counted'[m] > 0,
           \A i \in seen_inodes' : i \in seen_inodes \/ Measured(i)',
           Flawed => Flawed',
           \A n \in stable : InScope(n) /\ n \in Left =>
              Flawed' \/ n \in Left' \/ Measured(InodeOf(n))'
    PROVE  CoverInv'
<1>1. \A n : InodeOf(n)' = InodeOf(n) /\ InScope(n)' = InScope(n)  BY DEF InodeOf, InScope
<1>2. \A i : Measured(i) => Measured(i)'  BY <1>1 DEF Measured
<1>3. (\A n \in fs : Above[n] \subseteq fs)'  BY DEF CoverInv
<1>4. (\A i \in seen_inodes : Measured(i))'  BY <1>2 DEF CoverInv
<1>5. ASSUME ~Flawed', NEW n \in stable', InScope(n)'
      PROVE  Measured(InodeOf(n))' \/ n \in Left'
  <2>1. n \in stable /\ InScope(n) /\ ~Flawed  BY <1>1, <1>5
  <2>2. Measured(InodeOf(n)) \/ n \in Left  BY <2>1 DEF CoverInv
  <2>3. CASE Measured(InodeOf(n))
    <3>1. Measured(InodeOf(n))'  BY <2>3 DEF Measured, InodeOf
    <3> QED  BY <3>1
  <2>4. CASE n \in Left  BY <2>1, <2>4, <1>5
  <2> QED  BY <2>2, <2>3, <2>4
<1> QED  BY <1>3, <1>4, <1>5 DEF CoverInv

-----------------------------------------------------------------------------
(* What a step of the scan has to do to keep the invariant. *)
LEMMA ScanKeeps ==
    ASSUME IInv, pc = "scan", ScanUnchanged, expired' \in BOOLEAN, scanned' \in Nat,
           FramesOK(frames)', total' \in Result, counted' \in [Nodes -> Nat],
           seen_inodes' \subseteq {Inode[n] : n \in Nodes},
           Separate(frames, todo, exclusions)', CountInv', CoverInv', FlatInv'
    PROVE  IInv'
<1>1. TypeOK /\ PhaseInv  BY DEF IInv
<1>2. TypeOK'
  <2>1. (frames \in Seq(TreeFrame \cup LevelFrame))'
        /\ (\A i \in DOMAIN frames : frames[i].fn = "level" => frames[i].depth \in 2 .. scenario.max_depth)'
    BY DEF FramesOK, Frame
  <2> QED  BY <1>1, <2>1 DEF TypeOK, ScanUnchanged, env, world
<1>3. PhaseInv'
  <2>1. pc' = "scan" /\ exists' = exists /\ exists = "yes"
        /\ UNCHANGED <<scenario, exclusions, errors, complete>>
    BY <1>1 DEF PhaseInv, ScanUnchanged, env
  <2>2. /\ exclusions = Exclusions(scenario.exclude_paths,
                                     VisibleMount(Target, scenario.lines).device, Mounts)
        /\ scenario.unreadable => errors
    BY <1>1, <2>1 DEF PhaseInv
  <2>3. Mounts' = Mounts  BY <2>1 DEF Mounts
  <2>4. (pc # "start" /\ exists = "yes" =>
          /\ exclusions = Exclusions(scenario.exclude_paths,
                                     VisibleMount(Target, scenario.lines).device, Mounts)
          /\ scenario.unreadable => errors)'
    BY <2>1, <2>2, <2>3
  <2> QED  BY <2>1, <2>4 DEF PhaseInv
<1> QED  BY <1>2, <1>3 DEF IInv

(* A step of the scan that measures nothing.                                  *)
LEMMA NoVisitKeeps ==
    ASSUME IInv, pc = "scan", ScanUnchanged, expired' \in BOOLEAN, NoAccount, UNCHANGED seen_inodes,
           FramesOK(frames)', total' \in Result,
           Separate(frames, todo, exclusions)', Left' \subseteq Left,
           total'.size + SizeSum(frames') = total.size + SizeSum(frames),
           Flawed => Flawed',
           \A n \in stable : InScope(n) /\ n \in Left =>
              Flawed' \/ n \in Left' \/ Measured(InodeOf(n))
    PROVE  IInv'
<1>1. TypeOK /\ PhaseInv /\ CountInv /\ CoverInv /\ FlatInv  BY DEF IInv
<1>2. /\ UNCHANGED <<scenario, exclusions, fs, stable, exists, pc, counted, scanned>>
      /\ exists = "yes"
  BY <1>1 DEF ScanUnchanged, NoAccount, env, world, PhaseInv
<1>3. CountInv'  BY <1>1, <1>2, NothingCounted
<1>4. \A n : Measured(InodeOf(n)) => Measured(InodeOf(n))'  BY <1>2 DEF Measured, InodeOf
<1>5. CoverInv'
  <2>1. \A m \in Nodes : counted[m] > 0 => counted'[m] > 0  BY <1>2
  <2>2. \A i \in seen_inodes' : i \in seen_inodes \/ Measured(i)'  OBVIOUS
  <2>3. \A n \in stable : InScope(n) /\ n \in Left =>
              Flawed' \/ n \in Left' \/ Measured(InodeOf(n))'
    BY <1>4
  <2> QED  BY <1>1, <1>2, <2>1, <2>2, <2>3, CoverKept
<1>6. FlatInv'  BY <1>1, <1>2 DEF FlatInv
<1>7. scanned' \in Nat /\ counted' \in [Nodes -> Nat] /\ seen_inodes' \subseteq {Inode[n] : n \in Nodes}
  BY <1>1, <1>2 DEF TypeOK
<1> QED  BY <1>3, <1>5, <1>6, <1>7, ScanKeeps

(* A step of the scan that measures one path.                                 *)
LEMMA VisitKeeps ==
    ASSUME IInv, pc = "scan", ScanUnchanged, UNCHANGED expired,
           NEW n \in Nodes, n \in Left, n \notin Left', InScope(n), Account(n),
           seen_inodes' \in {seen_inodes, seen_inodes \cup {InodeOf(n)}},
           FramesOK(frames)', total' \in Result,
           Separate(frames, todo, exclusions)', Left' \subseteq Left,
           total'.size + SizeSum(frames') = total.size + SizeSum(frames) + Size[InodeOf(n)],
           Flawed => Flawed', \A k \in stable : k \in Left => k = n \/ k \in Left',
           FlatInv'
    PROVE  IInv'
<1>1. TypeOK /\ PhaseInv /\ CountInv /\ CoverInv  BY DEF IInv
<1>2. /\ UNCHANGED <<scenario, exclusions, fs, stable, exists, pc>>
      /\ exists = "yes"
  BY <1>1 DEF ScanUnchanged, env, world, PhaseInv
<1>3. /\ scanned \in Nat /\ counted \in [Nodes -> Nat]
      /\ scanned' = scanned + 1 /\ counted' = [counted EXCEPT ![n] = @ + 1]
  BY <1>1 DEF Account, TypeOK
<1>4. /\ scanned' \in Nat /\ counted' \in [Nodes -> Nat] /\ counted'[n] > 0
      /\ \A k \in Nodes : counted[k] > 0 => counted'[k] > 0
  BY <1>3
<1>5. Measured(InodeOf(n))'
  <2>1. InodeOf(n)' = InodeOf(n)  BY <1>2 DEF InodeOf
  <2> QED  BY <1>4, <2>1 DEF Measured
<1>6. CountInv'
  <2>1. total.size + SizeSum(frames) \in Int
    <3>1. total.size \in Nat  BY <1>1, TypeOfFrames, ResultFacts
    <3>2. SizeSum(frames) \in Int  BY <1>1, TypeOfFrames, SizesFacts DEF FramesOK
    <3> QED  BY <3>1, <3>2
  <2> QED  BY <1>1, <1>2, <2>1, OneCounted
<1>7. CoverInv'
  <2>1. \A i \in seen_inodes' : i \in seen_inodes \/ Measured(i)'
    <3> SUFFICES ASSUME NEW i \in seen_inodes', i \notin seen_inodes PROVE Measured(i)'
      OBVIOUS
    <3>1. InodeOf(n)' = InodeOf(n)  BY <1>2 DEF InodeOf
    <3>2. i = InodeOf(n)'  BY <3>1
    <3> QED  BY <3>2, <1>4 DEF Measured
  <2>2. \A k \in stable : InScope(k) /\ k \in Left => Flawed' \/ k \in Left' \/ Measured(InodeOf(k))'
    BY <1>5
  <2>3. \A m \in Nodes : counted[m] > 0 => counted'[m] > 0  BY <1>4
  <2>4. CoverInv  BY <1>1
  <2> QED  BY <1>2, <2>1, <2>2, <2>3, <2>4, CoverKept
<1>8. seen_inodes' \subseteq {Inode[m] : m \in Nodes}
  <2>1. InodeOf(n) \in {Inode[m] : m \in Nodes}  BY <1>1, InodeFacts
  <2>2. seen_inodes \subseteq {Inode[m] : m \in Nodes}  BY <1>1 DEF TypeOK
  <2> QED  BY <2>1, <2>2
<1> QED  BY <1>4, <1>6, <1>7, <1>8, ScanKeeps DEF IInv, TypeOK

-----------------------------------------------------------------------------
(* The mounts. *)
LEMMA PlaceFacts ==
    /\ Target \notin Nodes /\ Ancestor \notin Nodes /\ Target # Ancestor
    /\ Depth(Target) = 1 /\ Depth(Ancestor) = 0
    /\ \A p \in Nodes : Depth(p) \in Nat /\ Depth(p) >= 2
    /\ \A p \in Places : Depth(p) \in Nat
    /\ \A p \in Places : p # Target /\ PathContains(Target, p) => p \in Nodes
    /\ \A p \in Places : PathContains(p, Target) => p \in {Target, Ancestor}
    /\ \A p \in Places, n \in Nodes : PathContains(p, n) <=> p \in {Target, Ancestor} \cup {n} \cup Above[n]
<1>1. Target \notin Nodes /\ Ancestor \notin Nodes /\ Target # Ancestor
  BY PathAssumption DEF Target, Ancestor
<1>2. Depth(Target) = 1 /\ Depth(Ancestor) = 0  BY <1>1 DEF Depth
<1>3. ASSUME NEW p \in Nodes PROVE Depth(p) \in Nat /\ Depth(p) >= 2
  <2>1. Cardinality(Above[p]) \in Nat  BY PathAssumption, FS_CardinalityType
  <2>2. Depth(p) = 2 + Cardinality(Above[p])  BY <1>1 DEF Depth
  <2> QED  BY <2>1, <2>2
<1>4. \A p \in Places : p \in Nodes \/ p = Target \/ p = Ancestor  BY DEF Places
<1>5. \A p \in Places : Depth(p) \in Nat  BY <1>2, <1>3, <1>4
<1>6. \A p \in Places : p # Target /\ PathContains(Target, p) => p \in Nodes
  BY <1>1, <1>4 DEF PathContains
<1>7. \A p \in Places : PathContains(p, Target) => p \in {Target, Ancestor}
  BY <1>1, <1>4 DEF PathContains
<1>8. \A p \in Places, n \in Nodes : PathContains(p, n) <=> p \in {Target, Ancestor} \cup {n} \cup Above[n]
  BY <1>1, <1>4, AboveFacts DEF PathContains
<1> QED  BY <1>1, <1>2, <1>3, <1>5, <1>6, <1>7, <1>8

(* The mounts of a table are finitely many, and ordered by their depth and    *)
(* id.                                                                        *)
LEMMA ParsedFacts ==
    ASSUME NEW s \in Scenarios, NEW lines \in SUBSET s.lines
    PROVE  /\ IsFiniteSet(Parsed(lines))
           /\ \A m \in Parsed(lines) : /\ m \in MountRecord
                                       /\ m.at \in Places /\ m.id \in Nat /\ Depth(m.at) \in Nat
           /\ \A m \in Parsed(lines) : \E l \in lines : l.at = m.at /\ l.id = m.id
           /\ \A m, k \in Parsed(lines) : m # k => Before(m, k) \/ Before(k, m)
           /\ \A m, k \in Parsed(lines) : ~(Before(m, k) /\ Before(k, m))
<1>1. s.lines \subseteq Line /\ IsFiniteSet(s.lines) /\ \A l, k \in s.lines : l.id = k.id => l = k
  BY ScenarioAssumption DEF Scenario, IsHost
<1> DEFINE Rec(l) == [id |-> l.id, at |-> l.at, device |-> l.device, root |-> l.root]
<1>2. Parsed(lines) = {Rec(l) : l \in lines}  BY DEF Parsed
<1>3. IsFiniteSet(Parsed(lines))
  <2>1. IsFiniteSet(lines)  BY <1>1, FS_Subset
  <2> DEFINE f == [l \in lines |-> Rec(l)]
  <2>2. f = [l \in lines |-> f[l]] /\ {f[l] : l \in lines} = Parsed(lines)  BY <1>2
  <2> HIDE DEF f
  <2> QED  BY <2>1, <2>2, FiniteImage
<1>4. \A l \in lines : /\ Rec(l) \in MountRecord /\ Rec(l).at = l.at /\ Rec(l).id = l.id
                       /\ l.at \in Places /\ l.id \in Nat
  BY <1>1 DEF Line, MountRecord
<1>5. \A m \in Parsed(lines) : \E l \in lines : m = Rec(l)  BY <1>2
<1> HIDE DEF Rec
<1>6. \A m \in Parsed(lines) : /\ m \in MountRecord
                               /\ m.at \in Places /\ m.id \in Nat /\ Depth(m.at) \in Nat
  BY <1>4, <1>5, PlaceFacts
<1>7. \A m \in Parsed(lines) : \E l \in lines : l.at = m.at /\ l.id = m.id  BY <1>4, <1>5
<1>8. \A m, k \in Parsed(lines) : m.id = k.id => m = k  BY <1>1, <1>4, <1>5
<1>9. \A m, k \in Parsed(lines) : m # k => Before(m, k) \/ Before(k, m)
  BY <1>6, <1>8 DEF Before
<1>10. \A m, k \in Parsed(lines) : ~(Before(m, k) /\ Before(k, m))
  BY <1>6 DEF Before
<1> QED  BY <1>3, <1>6, <1>7, <1>9, <1>10

(* Of finitely many mounts, one comes last. *)
LEMMA LastMount ==
    ASSUME NEW s \in Scenarios, NEW S \in SUBSET Parsed(s.lines), S # {}
    PROVE  \E m \in S : \A k \in S \ {m} : Before(k, m)
<1>1. IsFiniteSet(S) /\ \A m \in S : m.id \in Nat /\ Depth(m.at) \in Nat
  BY ParsedFacts, FS_Subset
<1> DEFINE Deep(m) == Depth(m.at)
           Ident(m) == m.id
           depths == {Deep(m) : m \in S}
<1>2. IsFiniteSet(depths) /\ depths # {} /\ \A d \in depths : d \in Int
  <2>1. IsFiniteSet({Deep(m) : m \in S})
    <3> DEFINE f == [m \in S |-> Deep(m)]
    <3>1. f = [m \in S |-> f[m]] /\ {f[m] : m \in S} = {Deep(m) : m \in S}  OBVIOUS
    <3> HIDE DEF f, Deep
    <3> QED  BY <1>1, <3>1, FiniteImage
  <2> QED  BY <1>1, <2>1
<1>3. PICK d \in depths : \A e \in depths : e <= d
  <2> HIDE DEF depths
  <2> QED  BY <1>2, LargestNumber
<1> DEFINE deepest == {m \in S : Deep(m) = d}
           ids == {Ident(m) : m \in deepest}
<1>4. IsFiniteSet(ids) /\ ids # {} /\ \A i \in ids : i \in Int
  <2>1. IsFiniteSet(deepest)  BY <1>1, FS_Subset
  <2>2. IsFiniteSet({Ident(m) : m \in deepest})
    <3> DEFINE f == [m \in deepest |-> Ident(m)]
    <3> HIDE DEF Ident, deepest
    <3>1. f = [m \in deepest |-> f[m]] /\ {f[m] : m \in deepest} = {Ident(m) : m \in deepest}
      OBVIOUS
    <3> HIDE DEF f
    <3> QED  BY <2>1, <3>1, FiniteImage
  <2>3. deepest # {}  BY <1>3
  <2>4. \A m \in deepest : Ident(m) \in Int  BY <1>1
  <2> HIDE DEF deepest, Ident
  <2> QED  BY <2>2, <2>3, <2>4
<1>5. PICK i \in ids : \A j \in ids : j <= i
  <2> HIDE DEF ids
  <2> QED  BY <1>4, LargestNumber
<1>6. PICK m \in deepest : i = Ident(m)  BY <1>5
<1>7. ASSUME NEW k \in S \ {m} PROVE Before(k, m)
  <2>1. Depth(k.at) <= d /\ Depth(m.at) = d  BY <1>3, <1>6
  <2>2. CASE Depth(k.at) < d  BY <2>1, <2>2 DEF Before
  <2>3. CASE Depth(k.at) = d
    <3>1. k.id <= m.id  BY <1>5, <1>6, <2>3
    <3>2. ~Before(m, k)  BY <3>1, <2>1, <2>3, <1>1, <1>6 DEF Before
    <3>3. m \in S /\ k \in S /\ k # m  BY <1>6
    <3> QED  BY <3>2, <3>3, ParsedFacts
  <2>4. Depth(k.at) \in Nat /\ d \in Nat  BY <1>1, <2>1, <1>6
  <2> QED  BY <2>1, <2>2, <2>3, <2>4
<1> QED  BY <1>6, <1>7

(* The mount that a path beneath the target is on. *)
HostMounts(lines) == Parsed({l \in lines : l.rootfs})
(* It is a mount of the host, and of those that contain the path the last     *)
(* one.                                                                       *)
LEMMA VisibleFacts ==
    ASSUME NEW s \in Scenarios, NEW p \in Nodes \cup {Target}
    PROVE  LET V == VisibleMount(p, s.lines) IN
           /\ V \in HostMounts(s.lines) /\ V \in Parsed(s.lines) /\ PathContains(V.at, p)
           /\ \A k \in HostMounts(s.lines) : PathContains(k.at, p) /\ k # V => Before(k, V)
<1> DEFINE S == {m \in HostMounts(s.lines) : PathContains(m.at, p)}
           V == VisibleMount(p, s.lines)
<1>1. HostMounts(s.lines) \subseteq Parsed(s.lines)  BY DEF HostMounts, Parsed
<1>2. S # {}
  <2>1. PICK l \in s.lines : l.rootfs /\ PathContains(l.at, Target)
    BY ScenarioAssumption DEF IsHost
  <2> DEFINE r == [id |-> l.id, at |-> l.at, device |-> l.device, root |-> l.root]
  <2>5. r \in HostMounts(s.lines) /\ r.at = l.at  BY <2>1 DEF HostMounts, Parsed
  <2> HIDE DEF r
  <2>2. PICK m \in HostMounts(s.lines) : m.at = l.at  BY <2>5
  <2>3. m.at \in {Target, Ancestor} /\ m.at \in Places  BY <2>1, <2>2, <1>1, ParsedFacts, PlaceFacts
  <2>4. PathContains(m.at, p)
    <3>1. CASE p = Target  BY <3>1, <2>1, <2>2
    <3>2. CASE p \in Nodes  BY <3>2, <2>3, PlaceFacts
    <3> QED  BY <3>1, <3>2
  <2> QED  BY <2>4
<1>3. \E m \in S : \A k \in S \ {m} : Before(k, m)
  <2>1. S \in SUBSET Parsed(s.lines)  BY <1>1
  <2> HIDE DEF S
  <2> QED  BY <1>2, <2>1, LastMount
<1>4. V = CHOOSE m \in S : \A k \in S \ {m} : Before(k, m)
  BY DEF VisibleMount, HostMounts
<1> HIDE DEF V
<1>5. V \in S /\ \A k \in S \ {V} : Before(k, V)
  <2> HIDE DEF S
  <2> QED  BY <1>3, <1>4
<1> QED  BY <1>1, <1>5 DEF V

(* A path whose mount is not the one of the target is on a mount of its own,  *)
(* beneath the target.                                                        *)
LEMMA OtherMountBeneath ==
    ASSUME NEW s \in Scenarios, NEW n \in Nodes,
           VisibleMount(n, s.lines) # VisibleMount(Target, s.lines)
    PROVE  VisibleMount(n, s.lines).at \in Above[n] \cup {n}
<1> DEFINE V == VisibleMount(n, s.lines)
           W == VisibleMount(Target, s.lines)
<1>1. /\ V \in HostMounts(s.lines) /\ V \in Parsed(s.lines) /\ PathContains(V.at, n)
      /\ \A k \in HostMounts(s.lines) : PathContains(k.at, n) /\ k # V => Before(k, V)
  BY VisibleFacts
<1>2. /\ W \in HostMounts(s.lines) /\ W \in Parsed(s.lines) /\ PathContains(W.at, Target)
      /\ \A k \in HostMounts(s.lines) : PathContains(k.at, Target) /\ k # W => Before(k, W)
  BY VisibleFacts
<1> HIDE DEF V, W
<1>3. V.at \in Places /\ W.at \in Places /\ ~(Before(V, W) /\ Before(W, V))
  BY <1>1, <1>2, ParsedFacts
<1>4. PathContains(W.at, n)  BY <1>2, <1>3, PlaceFacts
<1>5. Before(W, V)  BY <1>1, <1>2, <1>4 DEF V, W
<1>6. ~PathContains(V.at, Target)  BY <1>1, <1>2, <1>3, <1>5 DEF V, W
<1>7. V.at \notin {Target, Ancestor}
  BY <1>6, PlaceFacts DEF PathContains
<1> QED  BY <1>1, <1>3, <1>7, PlaceFacts DEF V

(* Where the mount of a path is that of the target, no mount of the host lies *)
(* between them.                                                              *)
LEMMA TargetMountClear ==
    ASSUME NEW s \in Scenarios, NEW n \in Nodes,
           \A l \in s.lines : l.at \in Above[n] \cup {n} => l.rootfs,
           VisibleMount(n, s.lines) = VisibleMount(Target, s.lines),
           NEW m \in Parsed(s.lines)
    PROVE  m.at \notin Above[n] \cup {n}
<1> SUFFICES ASSUME m.at \in Above[n] \cup {n} PROVE FALSE  OBVIOUS
<1> DEFINE V == VisibleMount(n, s.lines)
<1>1. m.at \in Nodes  BY AboveFacts
<1>2. m \in HostMounts(s.lines)
  <2>1. PICK l \in s.lines : m = [id |-> l.id, at |-> l.at, device |-> l.device, root |-> l.root]
    BY DEF Parsed
  <2>2. l.rootfs  BY <2>1
  <2> QED  BY <2>1, <2>2 DEF HostMounts, Parsed
<1>3. PathContains(m.at, n)  BY <1>1, AboveFacts DEF PathContains
<1>4. /\ V \in Parsed(s.lines) /\ PathContains(V.at, Target)
      /\ \A k \in HostMounts(s.lines) : PathContains(k.at, n) /\ k # V => Before(k, V)
  <2>1. PathContains(V.at, Target) /\ V \in Parsed(s.lines)  BY VisibleFacts
  <2>2. \A k \in HostMounts(s.lines) : PathContains(k.at, n) /\ k # V => Before(k, V)
    BY VisibleFacts
  <2> QED  BY <2>1, <2>2
<1> HIDE DEF V
<1>5. V.at \in {Target, Ancestor} /\ V.at \in Places  BY <1>4, ParsedFacts, PlaceFacts
<1>6. m # V /\ Depth(V.at) <= 1 /\ Depth(V.at) \in Nat /\ Depth(m.at) >= 2 /\ Depth(m.at) \in Nat
  BY <1>1, <1>5, PlaceFacts
<1>7. Before(m, V)  BY <1>2, <1>3, <1>4, <1>6
<1> QED  BY <1>6, <1>7 DEF Before

(* Only paths beneath the target are excluded.                                *)
LEMMA ExclusionsArePaths ==
    ASSUME NEW s \in Scenarios, NEW table \in {Parsed(s.lines), {}}, NEW device
    PROVE  Exclusions(s.exclude_paths, device, table) \subseteq Nodes
<1>1. s.exclude_paths \subseteq Nodes  BY ScenarioAssumption DEF Scenario
<1>2. \A m \in table : m.at \in Places  BY ParsedFacts
<1>3. \A m \in table : InProfile(m) => m.at \in Nodes  BY <1>2, PlaceFacts DEF InProfile
<1> QED  BY <1>1, <1>3 DEF Exclusions

(* If the owner of the profile is the mount that the walk sees, and a whole   *)
(* file system, every mount beneath the profile is skipped.                   *)
LEMMA EveryMountSkipped ==
    ASSUME NEW s \in Scenarios, NEW m \in Parsed(s.lines), InProfile(m),
           LET owner == OwningMount(Target, Parsed(s.lines)) IN
              owner # None /\ owner = VisibleMount(Target, s.lines) /\ owner.root = "/"
    PROVE  m.at \in Exclusions(s.exclude_paths, VisibleMount(Target, s.lines).device, Parsed(s.lines))
<1>1. IsSkipped(m, VisibleMount(Target, s.lines).device, Parsed(s.lines))
  BY DEF IsSkipped, IsDuplicate, PhysicalKey
<1> QED  BY <1>1 DEF Exclusions

-----------------------------------------------------------------------------
(* A call of a path that is not beneath an exclusion. *)
LEMMA CallFacts ==
    ASSUME NEW n \in Nodes, NEW depth \in Int
    PROVE  /\ Call(n, depth) \in Frame /\ Call(n, depth).result = NoResult
           /\ Call(n, depth).fn = "level" => Call(n, depth).depth = depth /\ depth > 1
           /\ Due(Call(n, depth)) = {n} /\ Opened(Call(n, depth)) = {}
           /\ Rest(Call(n, depth)) = {n} \cup Under({n})
           /\ \A excluded : Above[n] \cap excluded = {} => Tidy(Call(n, depth), excluded)
<1>1. \A a, b : n \in {a, b} => n \notin Above[n]  BY AboveFacts
<1>2. CASE depth <= 1
  <2>1. Call(n, depth) = Tree(n)  BY <1>2 DEF Call
  <2>2. Tree(n) \in TreeFrame /\ Tree(n).stack = <<n>> /\ Tree(n).dir = None
        /\ Tree(n).result = NoResult /\ Tree(n).fn = "tree"
    BY NoResultFacts DEF Tree, TreeFrame
  <2>3. ToSet(<<n>>) = {n}  BY DEF ToSet
  <2>4. Due(Tree(n)) = {n} /\ Opened(Tree(n)) = {}  BY <2>2, <2>3, TreeFrameParts
  <2>5. Rest(Tree(n)) = {n} \cup Under({n})  BY <2>4 DEF Rest
  <2>6. ASSUME NEW excluded, Above[n] \cap excluded = {} PROVE Tidy(Tree(n), excluded)
    <3>1. \A i, j \in DOMAIN <<n>> : i = j  OBVIOUS
    <3>2. Under(excluded) \cap {n} = {}  BY <2>6 DEF Under
    <3> QED  BY <2>2, <2>4, <3>1, <3>2, AboveFacts DEF Tidy, Apart
  <2> QED  BY <2>1, <2>2, <2>4, <2>5, <2>6 DEF Frame
<1>3. CASE depth > 1
  <2>1. Call(n, depth) = Level(n, depth)  BY <1>3 DEF Call
  <2>2. /\ Level(n, depth) \in LevelFrame /\ Level(n, depth).path = n
        /\ Level(n, depth).stage = "stat" /\ Level(n, depth).dirs = {} /\ Level(n, depth).rest = {}
        /\ Level(n, depth).leaves = {}
        /\ Level(n, depth).depth = depth
        /\ Level(n, depth).result = NoResult /\ Level(n, depth).fn = "level"
    BY <1>3, NoResultFacts DEF Level, LevelFrame
  <2>4. Due(Level(n, depth)) = {n} /\ Opened(Level(n, depth)) = {}  BY <2>2, LevelFrameParts
  <2>5. Rest(Level(n, depth)) = {n} \cup Under({n})  BY <2>4 DEF Rest
  <2>6. ASSUME NEW excluded, Above[n] \cap excluded = {} PROVE Tidy(Level(n, depth), excluded)
    <3>2. Under(excluded) \cap {n} = {}  BY <2>6 DEF Under
    <3> QED  BY <2>2, <2>4, <3>2, AboveFacts DEF Tidy, Apart
  <2> QED  BY <1>3, <2>1, <2>2, <2>4, <2>5, <2>6 DEF Frame
<1> QED  BY <1>2, <1>3

(* Without a frame and a child to scan nothing is left.                       *)
LEMMA NothingLeft ==
    /\ LeftOf(<<>>, {}) = {}
    /\ \A excluded : Separate(<<>>, {}, excluded)
BY UnderFacts DEF LeftOf, Separate

(* The sums over counts that are all 0.                                       *)
LEMMA NoCounts ==
    ASSUME counted = [n \in Nodes |-> 0], TypeOK
    PROVE  SumFunction(counted) = 0 /\ SumFunction(Bytes) = 0
<1>1. \A n \in Nodes : counted[n] = 0 /\ Bytes[n] = 0
  <2>1. \A n \in Nodes : Size[InodeOf(n)] \in Nat  BY InodeFacts
  <2>2. \A b \in Nat : 0 * b = 0  OBVIOUS
  <2> QED  BY <2>1, <2>2 DEF Bytes
<1>2. DOMAIN counted = Nodes /\ DOMAIN Bytes = Nodes  BY DEF Bytes
<1>3. \A f : SumFunction(f) = SumFunctionOnSet(f, DOMAIN f)
  BY DEF SumFunction, SumFunctionOnSet, FoldFunction
<1>4. IsFiniteSet(Nodes)  BY TreeAssumption
<1>5. SumFunctionOnSet(counted, Nodes) = 0 /\ SumFunctionOnSet(Bytes, Nodes) = 0
  BY <1>1, <1>4, SumOfZeros
<1> QED  BY <1>2, <1>3, <1>5

(* Nothing is counted before the scan: the counts are right whatever is due. *)
NothingYet ==
    /\ TypeOK /\ counted = [n \in Nodes |-> 0] /\ scanned = 0 /\ total.size = 0
    /\ frames = <<>> /\ todo \subseteq Nodes
(* Before the scan, the count holds; and so it does after a step that starts  *)
(* it.                                                                        *)
LEMMA NothingCountedYet == NothingYet => CountInv
<1> SUFFICES ASSUME NothingYet PROVE CountInv  OBVIOUS
<1> USE DEF NothingYet
<1>1. \A n \in Nodes : counted[n] <= IF InScope(n) THEN 1 ELSE 0  OBVIOUS
<1>2. \A n \in Left : counted[n] = 0
  <2>1. Left \subseteq Nodes  BY UnderFacts DEF Left, LeftOf
  <2> QED  BY <2>1
<1>3. SizeSum(frames) = 0  BY NoSizes
<1>4. SumFunction(counted) = 0 /\ SumFunction(Bytes) = 0  BY NoCounts
<1> QED  BY <1>1, <1>2, <1>3, <1>4 DEF CountInv, SizeSum, Bytes

(* The same, of the next state.                                               *)
LEMMA NothingCountedNext == NothingYet' => CountInv'
BY NothingCountedYet, PTL

(* The invariant holds at first.                                              *)
LEMMA Initially == Init => IInv
<1> SUFFICES ASSUME Init PROVE IInv  OBVIOUS
<1>1. /\ scenario \in Scenarios /\ scenario \in Scenario /\ exclusions = {}
      /\ exists \in {"yes", "no", "error"} /\ fs = Nodes \ Late /\ churn = 0 /\ stable = fs
      /\ expired = FALSE /\ pc = "start" /\ todo = {} /\ frames = <<>>
      /\ scanned = 0 /\ seen_inodes = {} /\ total = NoResult
      /\ errors = scenario.unreadable /\ complete = FALSE
      /\ counted = [n \in Nodes |-> 0]
  BY ScenarioAssumption DEF Init
<1>2. TypeOK
  <2>1. errors \in BOOLEAN  BY <1>1 DEF Scenario
  <2>2. churn \in 0 .. MaxChurn  BY <1>1, ScenarioAssumption
  <2>3. frames \in Seq(TreeFrame \cup LevelFrame) /\ DOMAIN frames = {}  BY <1>1
  <2>4. counted \in [Nodes -> Nat]  BY <1>1
  <2> QED  BY <1>1, <2>1, <2>2, <2>3, <2>4, NoResultFacts DEF TypeOK
<1>3. PhaseInv  BY <1>1 DEF PhaseInv
<1>4. Separate(frames, todo, exclusions)  BY <1>1, NothingLeft
<1>5. CountInv  BY <1>1, <1>2, NoResultFacts, NothingCountedYet DEF NothingYet
<1>6. CoverInv  BY <1>1, TreeAssumption DEF CoverInv
<1>7. FlatInv  BY <1>1, TypeOK DEF FlatInv
<1> QED  BY <1>2, <1>3, <1>4, <1>5, <1>6, <1>7 DEF IInv

-----------------------------------------------------------------------------
(* The file system may change as long as what was stable and is gone is not   *)
(* taken for stable any more.                                                 *)
LEMMA WorldKeeps ==
    ASSUME IInv, UNCHANGED <<env, exists, pc, todo, frames, scanned, seen_inodes, total, errors,
                             complete, counted>>,
           expired' \in BOOLEAN, fs' \subseteq Nodes, churn' \in 0 .. MaxChurn,
           stable' \subseteq stable, stable' \subseteq fs', \A n \in fs' : Above[n] \subseteq fs'
    PROVE  IInv'
<1>1. TypeOK /\ PhaseInv /\ Separate(frames, todo, exclusions) /\ CountInv /\ CoverInv /\ FlatInv
  BY DEF IInv
<1>2. UNCHANGED <<scenario, exclusions, exists, pc, todo, frames, scanned, seen_inodes, total, errors,
                             complete, counted>>
  BY DEF env
<1>3. TypeOK'  BY <1>1, <1>2 DEF TypeOK
<1>4. /\ Left' = Left /\ Flawed' = Flawed /\ Mounts' = Mounts
      /\ \A n : InodeOf(n)' = InodeOf(n) /\ InScope(n)' = InScope(n)
  BY <1>2 DEF Left, Flawed, Mounts, InodeOf, InScope
<1>5. PhaseInv'  BY <1>1, <1>2, <1>4 DEF PhaseInv
<1>6. Separate(frames, todo, exclusions)'  BY <1>1, <1>2
<1>7. CountInv'  BY <1>1, <1>2, <1>4, NothingCounted
<1>8. CoverInv'
  <2>1. \A i : Measured(i)' = Measured(i)  BY <1>2, <1>4 DEF Measured
  <2>2. \A n : Measured(InodeOf(n))' = Measured(InodeOf(n))  BY <1>2 DEF Measured, InodeOf
  <2> QED  BY <1>1, <1>2, <1>4, <2>1, <2>2 DEF CoverInv
<1>9. FlatInv'  BY <1>1, <1>2 DEF FlatInv
<1> QED  BY <1>3, <1>5, <1>6, <1>7, <1>8, <1>9 DEF IInv

(* A path vanishes, with what lies beneath it and what shows it.              *)
LEMMA VanishKeeps == IInv /\ Vanish => IInv'
<1> SUFFICES ASSUME IInv, Vanish PROVE IInv'  OBVIOUS
<1>1. PICK n \in fs :
         LET subtree == {m \in Nodes : m = n \/ n \in Above[m]}
             gone == {m \in fs : m \in subtree \/ scenario.shows[m] \in subtree}
         IN fs' = fs \ gone /\ stable' = stable \ gone
  BY DEF Vanish
<1> DEFINE subtree == {m \in Nodes : m = n \/ n \in Above[m]}
           gone == {m \in fs : m \in subtree \/ scenario.shows[m] \in subtree}
<1>2. fs' = fs \ gone /\ stable' = stable \ gone  BY <1>1
<1>3. /\ fs \subseteq Nodes /\ stable \subseteq fs /\ \A m \in fs : Above[m] \subseteq fs
      /\ scenario \in Scenarios /\ expired \in BOOLEAN /\ churn \in 0 .. MaxChurn
  BY DEF IInv, TypeOK, CoverInv
<1>4. ASSUME NEW m \in fs', NEW k \in Above[m] PROVE k \in fs'
  <2>1. m \in fs /\ m \in Nodes /\ k \in fs /\ k \in Nodes  BY <1>2, <1>3, <1>4
  <2>2. k \notin subtree
    <3>1. k \in subtree => m \in subtree  BY <2>1, AboveFacts
    <3> QED  BY <1>2, <3>1, <1>4, <2>1
  <2>3. scenario.shows[k] \notin subtree
    <3>1. /\ scenario.shows[k] = k \/ scenario.shows[k] \in Above[scenario.shows[m]]
          /\ scenario.shows[m] \in Nodes
      BY <1>3, <2>1, ScenarioAssumption DEF IsHost, Scenario
    <3>2. CASE scenario.shows[k] = k  BY <2>2, <3>2
    <3>3. CASE scenario.shows[k] \in Above[scenario.shows[m]]
      <4> SUFFICES ASSUME scenario.shows[k] \in subtree PROVE FALSE  OBVIOUS
      <4>1. n \in Above[scenario.shows[m]]  BY <3>1, <3>3, AboveFacts
      <4> QED  BY <4>1, <1>2, <1>4, <2>1, <3>1
    <3> QED  BY <3>1, <3>2, <3>3
  <2> QED  BY <1>2, <2>1, <2>2, <2>3
<1>5. churn' \in 0 .. MaxChurn  BY <1>3, ScenarioAssumption DEF Vanish
<1>6. UNCHANGED <<env, exists, expired, pc, todo, frames, scanned, seen_inodes, total, errors,
                  complete, counted>>
  BY DEF Vanish
<1>7. expired' \in BOOLEAN  BY <1>3, <1>6
<1>8. UNCHANGED <<env, exists, pc, todo, frames, scanned, seen_inodes, total, errors,
                  complete, counted>>
  BY <1>6
<1>9. fs' \subseteq Nodes /\ stable' \subseteq stable /\ stable' \subseteq fs'  BY <1>2, <1>3
<1> QED  BY <1>4, <1>5, <1>7, <1>8, <1>9, WorldKeeps

(* A path appears, in directories that exist.                                 *)
LEMMA AppearKeeps == IInv /\ Appear => IInv'
<1> SUFFICES ASSUME IInv, Appear PROVE IInv'  OBVIOUS
<1>1. PICK n \in Late \ fs : Above[n] \subseteq fs /\ fs' = fs \cup {n}  BY DEF Appear
<1>2. /\ fs \subseteq Nodes /\ stable \subseteq fs /\ \A m \in fs : Above[m] \subseteq fs
      /\ expired \in BOOLEAN /\ churn \in 0 .. MaxChurn
  BY DEF IInv, TypeOK, CoverInv
<1>3. UNCHANGED <<env, stable, exists, expired, pc, todo, frames, scanned, seen_inodes, total,
                  errors, complete, counted>>
  BY DEF Appear
<1>4. churn' \in 0 .. MaxChurn  BY <1>2, ScenarioAssumption DEF Appear
<1>5. fs' \subseteq Nodes /\ \A m \in fs' : Above[m] \subseteq fs'
  BY <1>1, <1>2, TreeAssumption
<1>6. UNCHANGED <<env, exists, pc, todo, frames, scanned, seen_inodes, total, errors,
                  complete, counted>> /\ expired' \in BOOLEAN
      /\ stable' \subseteq stable /\ stable' \subseteq fs'
  BY <1>1, <1>2, <1>3
<1> QED  BY <1>4, <1>5, <1>6, WorldKeeps

(* The deadline passes.                                                       *)
LEMMA ExpireKeeps ==
    ASSUME IInv, Expire \/ UNCHANGED vars
    PROVE  IInv'
<1>1. /\ fs \subseteq Nodes /\ stable \subseteq fs /\ \A m \in fs : Above[m] \subseteq fs
      /\ expired \in BOOLEAN /\ churn \in 0 .. MaxChurn
  BY DEF IInv, TypeOK, CoverInv
<1>2. UNCHANGED <<env, world, exists, pc, todo, frames, scanned, seen_inodes, total, errors,
                  complete, counted>> /\ expired' \in BOOLEAN
  BY <1>1 DEF Expire, vars
<1> QED  BY <1>1, <1>2, WorldKeeps DEF world

-----------------------------------------------------------------------------
(* scan_usage_profile *)
LEMMA BeginKeeps == IInv /\ Begin => IInv'
<1> SUFFICES ASSUME IInv, Begin PROVE IInv'  OBVIOUS
<1>1. TypeOK /\ PhaseInv /\ CoverInv  BY DEF IInv
<1>2. /\ pc = "start" /\ frames = <<>> /\ todo = {} /\ seen_inodes = {} /\ scanned = 0
      /\ total = NoResult /\ counted = [n \in Nodes |-> 0]
  BY <1>1 DEF Begin, PhaseInv
<1>3. /\ UNCHANGED <<scenario, fs, churn, stable, exists, expired, todo, frames, scanned, seen_inodes,
                     total, counted>>
  BY DEF Begin, world
<1>4. Mounts \in {Parsed(scenario.lines), {}} /\ Mounts' = Mounts /\ scenario \in Scenarios
  BY <1>1, <1>3 DEF Mounts, TypeOK
<1>5. pc' \in {"discover", "done"} /\ errors' \in BOOLEAN /\ complete' \in BOOLEAN
      /\ exclusions' \subseteq Nodes
  <2>1. CASE exists = "yes"
    <3>1. exclusions' = Exclusions(scenario.exclude_paths,
                                     VisibleMount(Target, scenario.lines).device, Mounts)
          /\ pc' = "discover" /\ errors' \in BOOLEAN /\ complete' = complete
      BY <2>1 DEF Begin
    <3>2. exclusions' \subseteq Nodes  BY <3>1, <1>4, ExclusionsArePaths
    <3> QED  BY <3>1, <3>2, <1>1 DEF TypeOK
  <2>2. CASE exists # "yes"
    <3>1. pc' = "done" /\ complete' \in BOOLEAN /\ UNCHANGED <<errors, exclusions>>
      BY <2>2 DEF Begin
    <3> QED  BY <3>1, <1>1 DEF TypeOK
  <2> QED  BY <2>1, <2>2
<1>6. TypeOK'  BY <1>1, <1>3, <1>5 DEF TypeOK
<1>7. PhaseInv'
  <2>1. CASE exists = "yes"
    <3>1. /\ exclusions' = Exclusions(scenario.exclude_paths,
                                     VisibleMount(Target, scenario.lines).device, Mounts)
          /\ pc' = "discover" /\ errors' = (OwningMount(Target, Mounts) = None)
      BY <2>1 DEF Begin
    <3>2. scenario.unreadable => errors'
      BY <3>1 DEF Mounts, OwningMount
    <3> QED  BY <1>2, <1>3, <1>4, <2>1, <3>1, <3>2 DEF PhaseInv
  <2>2. CASE exists # "yes"
    <3>1. pc' = "done"  BY <2>2 DEF Begin
    <3> QED  BY <1>2, <1>3, <2>2, <3>1 DEF PhaseInv
  <2> QED  BY <2>1, <2>2
<1>8. Separate(frames, todo, exclusions)'  BY <1>2, <1>3, NothingLeft
<1>9. CountInv'
  <2>1. NothingYet'  BY <1>2, <1>3, <1>6, NoResultFacts DEF NothingYet, TypeOK
  <2> QED  BY <2>1, NothingCountedNext
<1>10. CoverInv'
  <2>1. ~(pc' \in {"scan", "done"} /\ exists' = "yes")
    <3>1. exists = "yes" => pc' = "discover"  BY DEF Begin
    <3> QED  BY <1>3, <3>1
  <2> QED  BY <1>1, <1>2, <1>3, <2>1 DEF CoverInv
<1>11. FlatInv'
  <2>1. \A n \in stable' : counted'[n] = 0
    <3>1. stable' \subseteq Nodes  BY <1>6 DEF TypeOK
    <3> QED  BY <1>2, <1>3, <3>1
  <2> QED  BY <2>1 DEF FlatInv
<1> QED  BY <1>6, <1>7, <1>8, <1>9, <1>10, <1>11 DEF IInv

-----------------------------------------------------------------------------
(* A listing holds a part of the entries.                                     *)
LEMMA ReadingFacts ==
    ASSUME NEW entries, NEW room
    PROVE  /\ \A r \in Readings(entries, room) : r.part \subseteq entries /\ r.late \in BOOLEAN
           /\ \A part \in Cut(entries, room) : part \subseteq entries
BY DEF Readings, Cut

(* The immediate children are listed.                                         *)
LEMMA DiscoverKeeps == IInv /\ Discover => IInv'
<1> SUFFICES ASSUME IInv, Discover PROVE IInv'  OBVIOUS
<1>1. TypeOK /\ PhaseInv /\ CoverInv  BY DEF IInv
<1>2. /\ pc = "discover" /\ pc' = "scan" /\ exists = "yes" /\ frames = <<>> /\ seen_inodes = {}
      /\ scanned = 0 /\ total = NoResult /\ counted = [n \in Nodes |-> 0]
      /\ (scenario.unreadable => errors)
      /\ exclusions = Exclusions(scenario.exclude_paths,
                                 VisibleMount(Target, scenario.lines).device, Mounts)
  BY <1>1 DEF Discover, PhaseInv
<1>3. UNCHANGED <<scenario, exclusions, fs, churn, stable, exists, frames, scanned, seen_inodes, complete, counted>>
  BY DEF Discover, env, world
<1>4. /\ todo' \subseteq TopLevel /\ expired' \in BOOLEAN /\ errors' \in BOOLEAN
      /\ total' \in Result /\ total'.size = 0 /\ (errors => errors')
      /\ errors' \/ Flaw(total') \/ todo' = TopLevel
  <2>1. CASE \E r \in Readings(TopLevel, Max({1, scenario.max_children})) :
             /\ todo' = r.part
             /\ total' = Flagged(total, r.part # TopLevel, r.late)
             /\ expired' = (expired \/ r.late)
             /\ UNCHANGED errors
    <3>1. PICK r \in Readings(TopLevel, Max({1, scenario.max_children})) :
             /\ todo' = r.part
             /\ total' = Flagged(total, r.part # TopLevel, r.late)
             /\ expired' = (expired \/ r.late)
             /\ UNCHANGED errors
      BY <2>1
    <3>2. r.part \subseteq TopLevel /\ r.late \in BOOLEAN /\ (r.part # TopLevel) \in BOOLEAN
      BY ReadingFacts
    <3>3. expired' \in BOOLEAN /\ errors' \in BOOLEAN  BY <3>1, <3>2, <1>1 DEF TypeOK
    <3>4. NoResult \in Result /\ NoResult.size = 0 /\ total' = Flagged(NoResult, r.part # TopLevel, r.late)
      BY <1>2, <3>1, NoResultFacts
    <3>5. total' \in Result /\ total'.size = 0 /\ (r.part # TopLevel => Flaw(total'))
      BY <3>2, <3>4, ResultFacts
    <3> QED  BY <3>1, <3>2, <3>3, <3>5
  <2>2. CASE \E part \in Cut(TopLevel, Max({1, scenario.max_children})) :
             todo' = part /\ errors' = TRUE /\ UNCHANGED <<total, expired>>
    <3>1. todo' \subseteq TopLevel /\ errors' = TRUE /\ UNCHANGED <<total, expired>>
      BY <2>2, ReadingFacts
    <3> QED  BY <3>1, <1>1, <1>2, NoResultFacts DEF TypeOK
  <2> QED  BY <2>1, <2>2 DEF Discover
<1>5. todo' \subseteq Nodes /\ \A n \in todo' : Above[n] = {}
  BY <1>1, <1>4 DEF TopLevel, TypeOK
<1>6. TypeOK'  BY <1>1, <1>2, <1>3, <1>4, <1>5 DEF TypeOK
<1>7. PhaseInv'
  <2>1. Mounts' = Mounts  BY <1>3 DEF Mounts
  <2> QED  BY <1>2, <1>3, <1>4, <2>1 DEF PhaseInv
<1>8. Separate(frames, todo, exclusions)'  BY <1>2, <1>3, <1>5 DEF Separate
<1>9. CountInv'
  <2>1. NothingYet'  BY <1>2, <1>3, <1>4, <1>5, <1>6 DEF NothingYet, TypeOK
  <2> QED  BY <2>1, NothingCountedNext
<1>10. CoverInv'
  <2>1. ASSUME ~Flawed', NEW n \in stable' PROVE n \in Left'
    <3>1. todo' = TopLevel  BY <2>1, <1>4 DEF Flawed
    <3>2. n \in fs /\ n \in Nodes /\ IsClosed  BY <1>1, <1>3 DEF TypeOK, CoverInv, IsClosed
    <3>3. PICK c \in todo' : c = n \/ c \in Above[n]  BY <3>1, <3>2, TopLevelCovers
    <3>4. n \in todo' \cup Under(todo')  BY <3>2, <3>3 DEF Under
    <3> QED  BY <3>4 DEF Left, LeftOf
  <2> QED  BY <1>1, <1>2, <1>3, <2>1 DEF CoverInv
<1>11. FlatInv'
  <2>1. \A n \in stable' : counted'[n] = 0
    <3>1. stable' \subseteq Nodes  BY <1>6 DEF TypeOK
    <3> QED  BY <1>2, <1>3, <3>1
  <2> QED  BY <2>1 DEF FlatInv
<1> QED  BY <1>6, <1>7, <1>8, <1>9, <1>10, <1>11 DEF IInv

(* The scan of the next child starts.                                         *)
LEMMA NextChildKeeps == IInv /\ NextChild => IInv'
<1> SUFFICES ASSUME IInv, NextChild PROVE IInv'  OBVIOUS
<1>1. TypeOK /\ PhaseInv /\ Separate(frames, todo, exclusions) /\ CountInv /\ CoverInv /\ FlatInv
  BY DEF IInv
<1>2. PICK n \in todo : todo' = todo \ {n} /\ frames' = <<Call(n, scenario.max_depth)>>
  BY DEF NextChild
<1>3. /\ pc = "scan" /\ frames = <<>>
      /\ UNCHANGED <<scenario, exclusions, fs, churn, stable, exists, expired, pc, scanned, seen_inodes,
                     total, errors, complete, counted>>
  BY DEF NextChild, env, world
<1> DEFINE f == Call(n, scenario.max_depth)
<1>4. n \in Nodes /\ todo \subseteq Nodes /\ scenario.max_depth \in Nat /\ Above[n] = {}
      /\ \A m \in todo : Above[m] = {}
  BY <1>1, ScenarioAssumption DEF TypeOK, Scenario, Separate
<1>5. /\ f \in Frame /\ f.result = NoResult /\ Rest(f) = {n} \cup Under({n})
      /\ f.fn = "level" => f.depth \in 2 .. scenario.max_depth
      /\ Tidy(f, exclusions)
  <2>1. Above[n] \cap exclusions = {} /\ scenario.max_depth \in Int  BY <1>4
  <2>2. /\ f \in Frame /\ f.result = NoResult /\ Rest(f) = {n} \cup Under({n})
        /\ Tidy(f, exclusions)
    BY <1>4, <2>1, CallFacts
  <2>3. f.fn = "level" => f.depth = scenario.max_depth /\ scenario.max_depth > 1
    BY <1>4, <2>1, CallFacts
  <2> HIDE DEF f
  <2> QED  BY <1>4, <2>2, <2>3
<1>6. frames' = <<f>>  BY <1>2
<1> HIDE DEF f
<1>7. frames' \in Seq(Frame) /\ DOMAIN frames' = {1} /\ frames'[1] = f /\ Len(frames') = 1
  BY <1>5, <1>6
<1>8. TypeOK'
  <2>1. frames' \in Seq(TreeFrame \cup LevelFrame)  BY <1>7 DEF Frame
  <2>2. \A i \in DOMAIN frames' : frames'[i].fn = "level" => frames'[i].depth \in 2 .. scenario'.max_depth
    BY <1>3, <1>5, <1>7
  <2> QED  BY <1>1, <1>2, <1>3, <2>1, <2>2 DEF TypeOK
<1>9. PhaseInv'
  <2>1. Mounts' = Mounts  BY <1>3 DEF Mounts
  <2> QED  BY <1>1, <1>3, <2>1 DEF PhaseInv
<1>10. Separate(frames, todo, exclusions)'
  <2>1. ({n} \cup Under({n})) \cap (todo' \cup Under(todo')) = {}
    <3>1. {n} \in SUBSET Nodes /\ todo' \in SUBSET Nodes /\ {n} \cap todo' = {}
      BY <1>2, <1>4
    <3>2. \A k \in {n}, m \in todo' : k \notin Above[m] /\ m \notin Above[k]  BY <1>2, <1>4
    <3> QED  BY <3>1, <3>2, NothingBeneathBoth
  <2>2. \A m \in todo' : Above[m] = {}  BY <1>2, <1>4
  <2>3. \A i, j \in DOMAIN frames' : i = j  BY <1>7
  <2>4. \A i \in DOMAIN frames' : frames'[i] = f  BY <1>7
  <2> QED  BY <1>3, <1>5, <2>1, <2>2, <2>3, <2>4 DEF Separate
<1>11. Left' = Left
  <2>1. Left' = todo' \cup Under(todo') \cup Rest(f)
    <3>1. {Rest(frames'[i]) : i \in DOMAIN frames'} = {Rest(f)}  BY <1>7
    <3> QED  BY <3>1 DEF Left, LeftOf
  <2>2. Left = todo \cup Under(todo)
    <3>1. {Rest(frames[i]) : i \in DOMAIN frames} = {}  BY <1>3
    <3> QED  BY <3>1 DEF Left, LeftOf
  <2>3. todo = todo' \cup {n}  BY <1>2
  <2>4. Under(todo) = Under(todo') \cup Under({n})  BY <2>3, UnderFacts
  <2> QED  BY <1>5, <2>1, <2>2, <2>3, <2>4
<1>12. CountInv'
  <2>1. SizeSum(frames) = 0  BY <1>3, NoSizes
  <2>2. SizeSum(frames') = 0
    <3>1. <<>> \in Seq(Frame) /\ Len(<<>>) = 0 /\ 1 .. 0 = {}  OBVIOUS
    <3>2. Len(frames') = Len(<<>>) + 1  BY <1>7, <3>1
    <3>3. \A i \in 1 .. Len(<<>>) : frames'[i + 1].result.size = <<>>[i].result.size  BY <3>1
    <3>4. SizeSum(frames') = SizeSum(<<>>) + frames'[1].result.size
      BY <1>7, <3>1, <3>2, <3>3, SizesOneMore
    <3> QED  BY <3>4, <1>5, <1>7, NoSizes, NoResultFacts
  <2>3. total'.size + SizeSum(frames') = total.size + SizeSum(frames)  BY <1>3, <2>1, <2>2
  <2>4. UNCHANGED <<scenario, exclusions, counted, scanned>>  BY <1>3
  <2> QED  BY <1>1, <1>11, <2>3, <2>4, NothingCounted
<1>13. CoverInv'
  <2>1. Flawed => Flawed'  BY <1>3 DEF Flawed
  <2>2. exists = "yes"  BY <1>1, <1>3 DEF PhaseInv
  <2>3. \A m \in Nodes : counted[m] > 0 => counted'[m] > 0  BY <1>3
  <2>4. \A i \in seen_inodes' : i \in seen_inodes \/ Measured(i)'  BY <1>3
  <2>5. \A m \in stable : InScope(m) /\ m \in Left =>
           Flawed' \/ m \in Left' \/ Measured(InodeOf(m))'
    BY <1>11
  <2>6. UNCHANGED <<scenario, exclusions, fs, stable, exists, pc>> /\ pc = "scan"  BY <1>3
  <2> QED  BY <1>1, <2>1, <2>2, <2>3, <2>4, <2>5, <2>6, CoverKept
<1>14. FlatInv'  BY <1>1, <1>3 DEF FlatInv
<1> QED  BY <1>8, <1>9, <1>10, <1>12, <1>13, <1>14 DEF IInv

(* The scan ends.                                                             *)
LEMMA FinishKeeps == IInv /\ Finish => IInv'
<1> SUFFICES ASSUME IInv, Finish PROVE IInv'  OBVIOUS
<1>1. TypeOK /\ PhaseInv /\ Separate(frames, todo, exclusions) /\ CountInv /\ CoverInv /\ FlatInv
  BY DEF IInv
<1>2. /\ pc = "scan" /\ frames = <<>> /\ todo = {} /\ pc' = "done" /\ exists = "yes"
      /\ complete' = ~(errors \/ total.denied > 0 \/ total.failed > 0 \/ total.truncated)
      /\ UNCHANGED <<scenario, exclusions, fs, churn, stable, exists, expired, todo, frames, scanned,
                     seen_inodes, total, errors, counted>>
  BY <1>1 DEF Finish, env, world, PhaseInv
<1>3. /\ Left' = Left /\ Flawed' = Flawed /\ Mounts' = Mounts
      /\ \A n : InodeOf(n)' = InodeOf(n) /\ InScope(n)' = InScope(n)
  BY <1>2 DEF Left, Flawed, Mounts, InodeOf, InScope
<1>4. TypeOK'
  <2>1. complete' \in BOOLEAN  BY <1>2
  <2> QED  BY <1>1, <1>2, <2>1 DEF TypeOK
<1>5. PhaseInv'
  <2>1. complete' => ~Flawed'
    <3>1. DOMAIN frames = {}  BY <1>2
    <3>2. complete' => ~errors /\ ~Flaw(total)  BY <1>2 DEF Flaw
    <3> QED  BY <1>3, <3>1, <3>2 DEF Flawed
  <2> QED  BY <1>1, <1>2, <1>3, <2>1 DEF PhaseInv
<1>6. Separate(frames, todo, exclusions)'  BY <1>1, <1>2
<1>7. CountInv'  BY <1>1, <1>2, <1>3, NothingCounted
<1>8. CoverInv'
  <2>1. \A i : Measured(i)' = Measured(i)  BY <1>2, <1>3 DEF Measured
  <2>2. \A n : Measured(InodeOf(n))' = Measured(InodeOf(n))  BY <1>2 DEF Measured, InodeOf
  <2> QED  BY <1>1, <1>2, <1>3, <2>1, <2>2 DEF CoverInv
<1>9. FlatInv'  BY <1>1, <1>2 DEF FlatInv
<1> QED  BY <1>4, <1>5, <1>6, <1>7, <1>8, <1>9 DEF IInv

-----------------------------------------------------------------------------
(* What the invariant says of the innermost call. *)
LEMMA TopFacts ==
    ASSUME IInv, frames # <<>>
    PROVE  /\ FramesOK(frames) /\ total \in Result /\ Separate(frames, todo, exclusions)
           /\ Top \in Frame /\ Top.result \in Result /\ Tidy(Top, exclusions)
           /\ Rest(Top) \subseteq Left /\ Due(Top) \subseteq Rest(Top)
           /\ Top.fn = "level" => Top.depth \in 2 .. scenario.max_depth
           /\ total.size + SizeSum(frames) \in Int
           /\ IsClosed /\ stable \subseteq fs /\ stable \subseteq Nodes
<1>1. FramesOK(frames) /\ total \in Result /\ Separate(frames, todo, exclusions)
  BY TypeOfFrames DEF IInv
<1>2. /\ Top = frames[1] /\ Top \in Frame /\ 1 \in DOMAIN frames
      /\ Top.fn = "level" => Top.depth \in 2 .. scenario.max_depth
  BY <1>1, InnermostFrame
<1>3. Top.result \in Result  BY <1>2, FrameParts
<1>4. Tidy(Top, exclusions)  BY <1>1, <1>2 DEF Separate
<1>5. Rest(Top) \subseteq Left  BY <1>2 DEF Left, LeftOf
<1>6. total.size + SizeSum(frames) \in Int
  <2>1. total.size \in Nat  BY <1>1, ResultFacts
  <2>2. SizeSum(frames) \in Int  BY <1>1, SizesFacts DEF FramesOK
  <2> QED  BY <2>1, <2>2
<1>7. IsClosed /\ stable \subseteq fs /\ stable \subseteq Nodes
  BY DEF IInv, TypeOK, CoverInv, IsClosed
<1> QED  BY <1>1, <1>2, <1>3, <1>4, <1>5, <1>6, <1>7, RestOf

(* The innermost call continues or returns, and measures nothing. *)
LEMMA ContinueKeeps ==
    ASSUME IInv, pc = "scan", frames # <<>>, ScanUnchanged, NoAccount, UNCHANGED seen_inodes,
           expired' \in BOOLEAN,
           NEW f \in Frame, Tidy(f, exclusions), Rest(f) \subseteq Rest(Top),
           f.fn = "level" => f.depth \in 2 .. scenario.max_depth,
           f.result.size = Top.result.size, Flaw(Top.result) => Flaw(f.result), Continue(f),
           \A n \in stable : InScope(n) /\ n \in Rest(Top) =>
              Flaw(f.result) \/ n \in Rest(f) \/ Measured(InodeOf(n))
    PROVE  IInv'
<1>1. /\ FramesOK(frames) /\ total \in Result /\ Separate(frames, todo, exclusions)
      /\ Top.result \in Result /\ total.size + SizeSum(frames) \in Int
  BY TopFacts
<1>2. UNCHANGED <<scenario, todo, exclusions, errors>>  BY DEF ScanUnchanged, env
<1>3. /\ FramesOK(frames)' /\ total' = total
      /\ Separate(frames, todo, exclusions)'
      /\ Left' = Left \ (Rest(Top) \ Rest(f))
      /\ SizeSum(frames') = SizeSum(frames) + f.result.size - Top.result.size
      /\ Flawed => Flawed'
      /\ Flaw(f.result) => Flawed'
  BY <1>1, <1>2, ContinueStep
<1>4. total'.size + SizeSum(frames') = total.size + SizeSum(frames)
  <2>1. SizeSum(frames) \in Int  BY <1>1, SizesFacts DEF FramesOK
  <2>2. Top.result.size \in Nat  BY <1>1, ResultFacts
  <2> QED  BY <1>3, <2>1, <2>2
<1>5. \A n \in stable : InScope(n) /\ n \in Left =>
              Flawed' \/ n \in Left' \/ Measured(InodeOf(n))
  BY <1>3
<1>6. Left' \subseteq Left /\ total' \in Result  BY <1>1, <1>3
<1> QED  BY <1>3, <1>4, <1>5, <1>6, NoVisitKeeps

(* The innermost call returns, and measures nothing.                          *)
LEMMA ReturnKeeps ==
    ASSUME IInv, pc = "scan", frames # <<>>, ScanUnchanged, NoAccount,
           UNCHANGED <<expired, seen_inodes>>,
           NEW r \in Result, r.size = Top.result.size, Flaw(Top.result) => Flaw(r), ReturnWith(r),
           \A n \in stable : InScope(n) /\ n \in Rest(Top) => Flaw(r) \/ Measured(InodeOf(n))
    PROVE  IInv'
<1>1. /\ FramesOK(frames) /\ total \in Result /\ Separate(frames, todo, exclusions)
      /\ Top.result \in Result /\ total.size + SizeSum(frames) \in Int
  BY TopFacts
<1>2. UNCHANGED <<scenario, todo, exclusions, errors>>  BY DEF ScanUnchanged, env
<1>3. /\ FramesOK(frames)' /\ total' \in Result
      /\ Separate(frames, todo, exclusions)'
      /\ Left' = Left \ Rest(Top)
      /\ total'.size + SizeSum(frames') = total.size + SizeSum(frames) + r.size - Top.result.size
      /\ Flawed => Flawed'
      /\ Flaw(r) => Flawed'
  BY <1>1, <1>2, ReturnStep
<1>4. total'.size + SizeSum(frames') = total.size + SizeSum(frames)
  <2>2. Top.result.size \in Nat  BY <1>1, ResultFacts
  <2> QED  BY <1>1, <1>3, <2>2
<1>5. \A n \in stable : InScope(n) /\ n \in Left =>
              Flawed' \/ n \in Left' \/ Measured(InodeOf(n))
  BY <1>3
<1>6. Left' \subseteq Left /\ expired' \in BOOLEAN  BY <1>3 DEF IInv, TypeOK
<1> QED  BY <1>3, <1>4, <1>5, <1>6, NoVisitKeeps

(* It measures a path that it was to visit. *)
LEMMA ContinueVisits ==
    ASSUME IInv, pc = "scan", frames # <<>>, ScanUnchanged, UNCHANGED expired,
           NEW f \in Frame, Tidy(f, exclusions), Rest(f) \subseteq Rest(Top),
           f.fn = "level" => f.depth \in 2 .. scenario.max_depth,
           NEW n \in Nodes, n \in Rest(Top), n \notin Rest(f), InScope(n), Account(n),
           seen_inodes' \in {seen_inodes, seen_inodes \cup {InodeOf(n)}},
           f.result.size = Top.result.size + Size[InodeOf(n)],
           Flaw(Top.result) => Flaw(f.result), Continue(f),
           Rest(Top) \ Rest(f) = {n}, FlatInv'
    PROVE  IInv'
<1>1. /\ FramesOK(frames) /\ total \in Result /\ Separate(frames, todo, exclusions)
      /\ Top.result \in Result /\ total.size + SizeSum(frames) \in Int /\ Rest(Top) \subseteq Left
  BY TopFacts
<1>2. UNCHANGED <<scenario, todo, exclusions, errors>>  BY DEF ScanUnchanged, env
<1>3. /\ FramesOK(frames)' /\ total' = total
      /\ Separate(frames, todo, exclusions)'
      /\ Left' = Left \ (Rest(Top) \ Rest(f))
      /\ SizeSum(frames') = SizeSum(frames) + f.result.size - Top.result.size
      /\ Flawed => Flawed'
  BY <1>1, <1>2, ContinueStep
<1>4. total'.size + SizeSum(frames') = total.size + SizeSum(frames) + Size[InodeOf(n)]
  <2>1. SizeSum(frames) \in Int  BY <1>1, SizesFacts DEF FramesOK
  <2>2. Top.result.size \in Nat /\ total.size \in Nat  BY <1>1, ResultFacts
  <2>3. Size[InodeOf(n)] \in Nat  BY InodeFacts DEF IInv
  <2> QED  BY <1>3, <2>1, <2>2, <2>3
<1>5. n \in Left /\ n \notin Left' /\ Left' \subseteq Left /\ total' \in Result
      /\ \A k \in stable : k \in Left => k = n \/ k \in Left'
  BY <1>1, <1>3
<1> QED  BY <1>3, <1>4, <1>5, VisitKeeps

(* It measures the one path it was to visit, and returns.                     *)
LEMMA ReturnVisits ==
    ASSUME IInv, pc = "scan", frames # <<>>, ScanUnchanged, UNCHANGED <<expired, seen_inodes>>,
           NEW r \in Result,
           NEW n \in Nodes, Rest(Top) = {n}, InScope(n), Account(n),
           r.size = Top.result.size + Size[InodeOf(n)],
           Flaw(Top.result) => Flaw(r), ReturnWith(r), FlatInv'
    PROVE  IInv'
<1>1. /\ FramesOK(frames) /\ total \in Result /\ Separate(frames, todo, exclusions)
      /\ Top.result \in Result /\ total.size + SizeSum(frames) \in Int /\ Rest(Top) \subseteq Left
  BY TopFacts
<1>2. UNCHANGED <<scenario, todo, exclusions, errors>>  BY DEF ScanUnchanged, env
<1>3. /\ FramesOK(frames)' /\ total' \in Result
      /\ Separate(frames, todo, exclusions)'
      /\ Left' = Left \ Rest(Top)
      /\ total'.size + SizeSum(frames') = total.size + SizeSum(frames) + r.size - Top.result.size
      /\ Flawed => Flawed'
  BY <1>1, <1>2, ReturnStep
<1>4. total'.size + SizeSum(frames') = total.size + SizeSum(frames) + Size[InodeOf(n)]
  <2>2. Top.result.size \in Nat  BY <1>1, ResultFacts
  <2>3. Size[InodeOf(n)] \in Nat  BY InodeFacts DEF IInv
  <2> QED  BY <1>1, <1>3, <2>2, <2>3
<1>5. /\ n \in Left /\ n \notin Left' /\ Left' \subseteq Left
      /\ \A k \in stable : k \in Left => k = n \/ k \in Left'
      /\ seen_inodes' \in {seen_inodes, seen_inodes \cup {InodeOf(n)}} /\ UNCHANGED expired
  BY <1>1, <1>3
<1> QED  BY <1>3, <1>4, <1>5, VisitKeeps

(* Nothing that is due is excluded by what lies above it. *)
LEMMA DueInScope ==
    ASSUME IInv, frames # <<>>, NEW n \in Due(Top), n \notin exclusions
    PROVE  n \in Nodes /\ InScope(n)
<1>1. Tidy(Top, exclusions) /\ Top \in Frame  BY TopFacts
<1>2. n \in Nodes  BY <1>1, FrameParts
<1>3. n \notin Under(exclusions)  BY <1>1 DEF Tidy
<1> QED  BY <1>2, <1>3 DEF Under, InScope

-----------------------------------------------------------------------------
(* _scan_tree *)
LEMMA TreeEndKeeps == IInv /\ TreeEnd => IInv'
<1> SUFFICES ASSUME IInv, TreeEnd PROVE IInv'  OBVIOUS
<1>1. /\ pc = "scan" /\ frames # <<>> /\ Top.fn = "tree" /\ Top.dir = None
      /\ NoAccount /\ UNCHANGED <<expired, seen_inodes>> /\ ScanUnchanged
  BY DEF TreeEnd, InScan
<1>2. Top \in TreeFrame /\ Top.result \in Result  BY <1>1, TopFacts, FrameParts
<1>3. CASE Top.stack = <<>> /\ ReturnWith(Top.result)
  <2>1. Due(Top) = {} /\ Opened(Top) = {}  BY <1>1, <1>2, <1>3, TreeFrameParts DEF ToSet
  <2>2. Rest(Top) = {}  BY <2>1, UnderFacts DEF Rest
  <2> QED  BY <1>1, <1>2, <1>3, <2>2, ReturnKeeps
<1>4. CASE ReturnWith(Flagged(Top.result, TRUE, expired))
  <2> DEFINE r == Flagged(Top.result, TRUE, expired)
  <2>1. expired \in BOOLEAN  BY DEF IInv, TypeOK
  <2>2. r \in Result /\ r.size = Top.result.size /\ Flaw(r)  BY <1>2, <2>1, ResultFacts
  <2> HIDE DEF r
  <2>3. ReturnWith(r)  BY <1>4 DEF r
  <2> QED  BY <1>1, <2>2, <2>3, ReturnKeeps
<1> QED  BY <1>3, <1>4 DEF TreeEnd

-----------------------------------------------------------------------------
(* Of two links that stay in place, the second one met is not measured.       *)
LEMMA LinkMeasuredOnce ==
    ASSUME IInv, NEW n \in Nodes, n \in Left, ~AlreadySeen(n), Account(n),
           UNCHANGED <<scenario, stable>>,
           seen_inodes' = IF Linked(n) THEN seen_inodes \cup {InodeOf(n)} ELSE seen_inodes
    PROVE  FlatInv'
<1> DEFINE Fixed == {k \in stable : scenario.shows[k] = k}
<1>1. /\ counted \in [Nodes -> Nat] /\ counted[n] = 0 /\ Fixed \subseteq Nodes
      /\ \A k \in Nodes : k # n => counted'[k] = counted[k]
      /\ FlatInv /\ stable \subseteq fs
  BY DEF IInv, TypeOK, CountInv, Account
<1>2. ASSUME n \in Fixed, NEW m \in Fixed, n # m, Inode[n] = Inode[m]
      PROVE  Linked(n) /\ InodeOf(n) = Inode[n] /\ Inode[n] \notin seen_inodes
  <2>1. n \notin Dirs  BY <1>1, <1>2, InodeAssumption
  <2>2. InodeOf(n) = Inode[n] /\ InodeOf(m) = Inode[m]  BY <1>2 DEF InodeOf
  <2>3. m \in fs /\ scenario.shows[m] = m /\ m # scenario.shows[n]  BY <1>1, <1>2
  <2>4. Linked(n)  BY <1>2, <2>1, <2>2, <2>3 DEF Linked
  <2> QED  BY <2>2, <2>4 DEF AlreadySeen
<1>3. SUFFICES ASSUME scenario.max_depth <= 1, NEW a \in Fixed, NEW b \in Fixed, a # b,
                      Inode[a] = Inode[b], counted'[a] > 0
               PROVE  counted'[b] = 0 /\ Inode[a] \in seen_inodes'
  BY DEF FlatInv
<1>4. \A x, y \in Fixed : x # y /\ Inode[x] = Inode[y] /\ counted[x] > 0 =>
            counted[y] = 0 /\ Inode[x] \in seen_inodes
  BY <1>1, <1>3 DEF FlatInv
<1>5. CASE a = n
  <2>1. Linked(n) /\ InodeOf(n) = Inode[n] /\ Inode[n] \notin seen_inodes  BY <1>2, <1>3, <1>5
  <2>2. ~(counted[b] > 0)  BY <1>3, <1>4, <1>5, <2>1
  <2>3. counted[b] = 0  BY <1>1, <2>2
  <2> QED  BY <1>1, <1>3, <1>5, <2>1, <2>3
<1>6. CASE a # n
  <2>1. counted[b] = 0 /\ Inode[a] \in seen_inodes  BY <1>1, <1>3, <1>4, <1>6
  <2>2. b # n  BY <1>2, <1>3, <1>6, <2>1
  <2> QED  BY <1>1, <2>1, <2>2
<1> QED  BY <1>5, <1>6

(* The last path of the stack is looked at, and perhaps opened.               *)
LEMMA PoppedFrame ==
    ASSUME IInv, frames # <<>>, Top.fn = "tree", Top.dir = None, Top.stack # <<>>,
           NEW n, n = Last(Top.stack),
           NEW f \in TreeFrame, f.stack = Front(Top.stack),
           f.dir = None \/ (f.dir = n /\ n \in Dirs /\ n \notin exclusions)
    PROVE  /\ f \in Frame /\ Tidy(f, exclusions) /\ f.fn = "tree"
           /\ n \in Due(Top) /\ n \in Nodes /\ n \notin Rest(f)
           /\ Rest(f) \subseteq Rest(Top)
           /\ \A k \in Rest(Top) : k = n \/ k \in Rest(f) \/ (n \in Above[k] /\ f.dir = None)
<1>1. Top \in TreeFrame /\ Tidy(Top, exclusions)  BY TopFacts, FrameParts
<1>2. /\ Due(Top) = ToSet(Top.stack) /\ Due(f) = ToSet(f.stack) /\ Opened(Top) = {}
      /\ f.dir = None => Opened(f) = {}
      /\ f.dir = n /\ n # None => Opened(f) = {n}
      /\ f \in Frame /\ f.fn = "tree" /\ Top.stack \in Seq(Nodes)
  BY <1>1, TreeFrameParts
<1>3. n \in Dirs => n # None  BY TreeAssumption
<1>4. IsDistinct(Top.stack)  BY <1>1, <1>2 DEF Tidy, IsDistinct
<1>5. /\ Due(Top) = Due(f) \cup {n} /\ n \in Nodes /\ n \notin Due(f) /\ Due(Top) \subseteq Nodes
      /\ IsDistinct(f.stack)
  BY <1>2, <1>4, PopStack
<1>6. Opened(f) \subseteq {n} \ exclusions  BY <1>2, <1>3
<1>7. Apart(Due(Top)) /\ Under(exclusions) \cap Due(Top) = {}  BY <1>1, <1>2 DEF Tidy
<1>8. Tidy(f, exclusions)
  <2>1. Apart(Due(f) \cup Opened(f))  BY <1>5, <1>6, <1>7 DEF Apart
  <2>2. Due(f) \cap Opened(f) = {} /\ exclusions \cap Opened(f) = {}  BY <1>5, <1>6
  <2>3. Under(exclusions) \cap (Due(f) \cup Opened(f)) = {}  BY <1>5, <1>6, <1>7
  <2> QED  BY <1>2, <1>5, <2>1, <2>2, <2>3 DEF Tidy, IsDistinct
<1>9. n \notin Rest(f)
  <2>1. \A m \in Due(f) \cup Opened(f) : m \notin Above[n]  BY <1>5, <1>6, <1>7 DEF Apart
  <2> QED  BY <1>5, <2>1 DEF Rest, Under
<1>10. Rest(f) \subseteq Rest(Top)
  <2>1. Due(f) \cup Opened(f) \subseteq Due(Top) \cup Opened(Top)  BY <1>5, <1>6
  <2> QED  BY <1>5, <2>1, UnderFacts DEF Rest
<1>11. \A k \in Rest(Top) : k = n \/ k \in Rest(f) \/ (n \in Above[k] /\ f.dir = None)
  <2>1. \A k \in Rest(Top) : k = n \/ k \in Due(f) \/ k \in Under(Due(f)) \/ (n \in Above[k] /\ k \in Nodes)
    BY <1>2, <1>5 DEF Rest, Under
  <2>2. \A k \in Nodes : n \in Above[k] /\ f.dir = n => k \in Under(Opened(f))
    BY <1>2, <1>3, AboveFacts DEF Under
  <2> QED  BY <2>1, <2>2, RestOf
<1> QED  BY <1>2, <1>5, <1>8, <1>9, <1>10, <1>11

(* A path of the stack is visited.                                            *)
LEMMA TreeVisitKeeps == IInv /\ TreeVisit => IInv'
<1> SUFFICES ASSUME IInv, TreeVisit PROVE IInv'  OBVIOUS
<1> DEFINE n == Last(Top.stack)
           p == [Top EXCEPT !.stack = Front(@)]
           answer == Lstat(n)
<1>1. /\ pc = "scan" /\ frames # <<>> /\ Top.fn = "tree" /\ Top.dir = None /\ Top.stack # <<>>
      /\ UNCHANGED expired /\ ScanUnchanged
  BY DEF TreeVisit, InScan
<1>2. Top \in TreeFrame /\ Top.result \in Result  BY <1>1, TopFacts, FrameParts
<1>3. /\ n \in Due(Top) /\ n \in Nodes /\ Front(Top.stack) \in Seq(Nodes)
      /\ Due(Top) \subseteq Rest(Top) /\ Rest(Top) \subseteq Left
      /\ expired \in BOOLEAN /\ IsClosed /\ stable \subseteq fs
  <2>1. Top.stack \in Seq(Nodes) /\ Due(Top) = ToSet(Top.stack)  BY <1>2, TreeFrameParts
  <2>2. n \in ToSet(Top.stack) /\ n \in Nodes /\ Front(Top.stack) \in Seq(Nodes)
    BY <1>1, <2>1, PopStack
  <2>3. expired \in BOOLEAN  BY DEF IInv, TypeOK
  <2> HIDE DEF n
  <2> QED  BY <1>1, <2>1, <2>2, <2>3, TopFacts
<1>4. p \in TreeFrame /\ p.stack = Front(Top.stack) /\ p.dir = None /\ p.result = Top.result
  BY <1>1, <1>2, <1>3 DEF TreeFrame
<1>5. CASE (n \in exclusions \/ answer = "missing") /\ Continue(p) /\ NoAccount /\ UNCHANGED seen_inodes
  <2>1. \A k \in stable : InScope(k) => k # n /\ n \notin Above[k]
    <3>1. CASE n \in exclusions  BY <3>1 DEF InScope
    <3>2. CASE answer = "missing"
      <4>1. n \notin fs  BY <3>2 DEF Lstat
      <4> QED  BY <4>1, <1>3 DEF IsClosed
    <3> QED  BY <3>1, <3>2, <1>5
  <2> HIDE DEF p, n, answer
  <2>2. /\ p \in Frame /\ Tidy(p, exclusions) /\ p.fn = "tree" /\ Rest(p) \subseteq Rest(Top)
        /\ \A k \in Rest(Top) : k = n \/ k \in Rest(p) \/ n \in Above[k]
    BY <1>1, <1>4, PoppedFrame DEF n
  <2> QED  BY <1>1, <1>3, <1>4, <1>5, <2>1, <2>2, ContinueKeeps
<1>6. CASE /\ n \notin exclusions /\ answer \in {"denied", "error"}
           /\ Continue([p EXCEPT !.result = Refused(@, answer)]) /\ NoAccount /\ UNCHANGED seen_inodes
  <2> DEFINE f == [p EXCEPT !.result = Refused(@, answer)]
  <2>1. /\ Refused(Top.result, answer) \in Result /\ Flaw(Refused(Top.result, answer))
        /\ Refused(Top.result, answer).size = Top.result.size
    BY <1>2, <1>6, ResultFacts
  <2>2. f \in TreeFrame /\ f.stack = Front(Top.stack) /\ f.dir = None
        /\ f.result = Refused(Top.result, answer)
    BY <1>4, <2>1 DEF TreeFrame
  <2>3. Continue(f)  BY <1>6
  <2> HIDE DEF f, p, n, answer
  <2>4. f \in Frame /\ Tidy(f, exclusions) /\ f.fn = "tree" /\ Rest(f) \subseteq Rest(Top)
    BY <1>1, <2>2, PoppedFrame DEF n
  <2>5. f.result.size = Top.result.size /\ Flaw(f.result)  BY <2>1, <2>2
  <2> QED  BY <1>1, <1>3, <1>6, <2>3, <2>4, <2>5, ContinueKeeps
<1>7. CASE /\ n \notin exclusions /\ answer = "ok" /\ AlreadySeen(n)
           /\ Continue([p EXCEPT !.result.dedup = @ + 1]) /\ NoAccount /\ UNCHANGED seen_inodes
  <2> DEFINE r == [Top.result EXCEPT !.dedup = @ + 1]
             f == [p EXCEPT !.result = r]
  <2>1. r \in Result /\ r.size = Top.result.size /\ (Flaw(r) <=> Flaw(Top.result))
    BY <1>2, ResultFacts
  <2>2. Continue(f)
    <3>1. [p EXCEPT !.result.dedup = @ + 1] = [p EXCEPT !.result = [p.result EXCEPT !.dedup = @ + 1]]
      OBVIOUS
    <3>2. p.result = Top.result  BY <1>4
    <3> HIDE DEF p
    <3>3. [p EXCEPT !.result.dedup = @ + 1] = f  BY <3>1, <3>2
    <3> QED  BY <1>7, <3>3
  <2> HIDE DEF r
  <2>3. f \in TreeFrame /\ f.stack = Front(Top.stack) /\ f.dir = None /\ f.result = r
    BY <1>4, <2>1 DEF TreeFrame
  <2> HIDE DEF f, p
  <2>4. Measured(InodeOf(n))  BY <1>7 DEF AlreadySeen, IInv, CoverInv
  <2>5. n \notin Dirs  BY <1>7 DEF AlreadySeen, Linked
  <2> HIDE DEF n, answer
  <2>6. /\ f \in Frame /\ Tidy(f, exclusions) /\ f.fn = "tree" /\ Rest(f) \subseteq Rest(Top)
        /\ \A k \in Rest(Top) : k = n \/ k \in Rest(f) \/ n \in Above[k]
    BY <1>1, <2>3, PoppedFrame DEF n
  <2>7. \A k \in stable : n \notin Above[k]  BY <1>3, <2>5, AboveFacts DEF IsClosed
  <2>8. \A k \in stable : InScope(k) /\ k \in Rest(Top) =>
             Flaw(f.result) \/ k \in Rest(f) \/ Measured(InodeOf(k))
    BY <2>4, <2>6, <2>7
  <2>9. f.result.size = Top.result.size /\ (Flaw(Top.result) => Flaw(f.result))  BY <2>1, <2>3
  <2> QED  BY <1>1, <1>3, <1>7, <2>2, <2>6, <2>8, <2>9, ContinueKeeps
<1>8. CASE /\ n \notin exclusions /\ answer = "ok" /\ ~AlreadySeen(n)
           /\ Continue([p EXCEPT !.result.size = @ + Size[InodeOf(n)],
                                 !.dir = IF n \in Dirs THEN n ELSE None])
           /\ Account(n)
           /\ seen_inodes' = IF Linked(n) THEN seen_inodes \cup {InodeOf(n)} ELSE seen_inodes
  <2> DEFINE r == [Top.result EXCEPT !.size = @ + Size[InodeOf(n)]]
             d == IF n \in Dirs THEN n ELSE None
             f == [p EXCEPT !.result = r, !.dir = d]
  <2>1. r \in Result /\ r.size = Top.result.size + Size[InodeOf(n)] /\ (Flaw(r) <=> Flaw(Top.result))
    <3>1. Size[InodeOf(n)] \in Nat  BY <1>3, InodeFacts DEF IInv
    <3> QED  BY <1>2, <3>1, ResultFacts
  <2>2. Continue(f)
    <3>1. [p EXCEPT !.result.size = @ + Size[InodeOf(n)], !.dir = d]
          = [p EXCEPT !.result = [p.result EXCEPT !.size = @ + Size[InodeOf(n)]], !.dir = d]
      OBVIOUS
    <3>2. p.result = Top.result  BY <1>4
    <3> HIDE DEF p
    <3>3. [p EXCEPT !.result.size = @ + Size[InodeOf(n)], !.dir = d] = f  BY <3>1, <3>2
    <3> QED  BY <1>8, <3>3
  <2>3. d \in Dirs \cup {None}  OBVIOUS
  <2> HIDE DEF r
  <2>4. f \in TreeFrame /\ f.stack = Front(Top.stack) /\ f.dir = d /\ f.result = r
    BY <1>4, <2>1, <2>3 DEF TreeFrame
  <2> HIDE DEF f, p
  <2>5. d = None \/ (d = n /\ n \in Dirs /\ n \notin exclusions)  BY <1>8
  <2>6. d = None => n \notin Dirs  BY TreeAssumption
  <2> HIDE DEF d
  <2>7. InScope(n)  BY <1>1, <1>3, <1>8, DueInScope
  <2>8. FlatInv'
    <3>1. UNCHANGED <<scenario, stable>>  BY <1>1 DEF ScanUnchanged, env, world
    <3> QED  BY <1>3, <1>8, <3>1, LinkMeasuredOnce
  <2> HIDE DEF n, answer
  <2>9. /\ f \in Frame /\ Tidy(f, exclusions) /\ f.fn = "tree" /\ Rest(f) \subseteq Rest(Top)
        /\ n \notin Rest(f)
        /\ \A k \in Rest(Top) : k = n \/ k \in Rest(f) \/ (n \in Above[k] /\ f.dir = None)
    BY <1>1, <2>4, <2>5, PoppedFrame DEF n
  <2>10. Rest(Top) \ Rest(f) = {n} /\ n \in Rest(Top)
    <3>1. \A k \in Rest(Top) : k \in Nodes /\ (f.dir = None => n \notin Above[k])
      <4>1. Rest(Top) \subseteq Nodes  BY <1>1, TopFacts, FrameParts
      <4> QED  BY <4>1, <2>4, <2>6, AboveFacts
    <3> QED  BY <1>3, <2>9, <3>1
  <2>11. f.result.size = Top.result.size + Size[InodeOf(n)] /\ (Flaw(Top.result) => Flaw(f.result))
    BY <2>1, <2>4
  <2>12. seen_inodes' \in {seen_inodes, seen_inodes \cup {InodeOf(n)}}  BY <1>8
  <2> QED  BY <1>1, <1>3, <1>8, <2>2, <2>7, <2>8, <2>9, <2>10, <2>11, <2>12, ContinueVisits
<1> QED  BY <1>5, <1>6, <1>7, <1>8 DEF TreeVisit

-----------------------------------------------------------------------------
(* The entries of a directory are apart from what was apart from it.          *)
ListedBeside(n, part, D) ==
    /\ fs \subseteq Nodes /\ n \in Nodes /\ part \subseteq Children(n)
    /\ D \subseteq Nodes /\ Apart(D \cup {n}) /\ n \notin D
    /\ n \notin Under(exclusions) /\ n \notin exclusions
(* Entries of a directory, listed beside paths that are due, are apart from   *)
(* these.                                                                     *)
LEMMA EntriesApart ==
    ASSUME NEW n, NEW part, NEW D, ListedBeside(n, part, D)
    PROVE  /\ part \subseteq Nodes /\ Apart(D \cup part) /\ D \cap part = {}
           /\ Under(exclusions) \cap part = {}
           /\ part \subseteq Under({n}) /\ Under(part) \subseteq Under({n})
<1> USE DEF ListedBeside
<1>1. \A c \in part : c \in Nodes /\ n \in Above[c] /\ Above[c] = Above[n] \cup {n}  BY AboveEntry
<1>2. \A k \in D : k \notin Above[n] /\ n \notin Above[k]  BY DEF Apart
<1>3. Apart(D \cup part)
  <2> SUFFICES ASSUME NEW x \in D \cup part, NEW y \in D \cup part, x \in Above[y] PROVE FALSE
    BY DEF Apart
  <2>1. CASE x \in D /\ y \in D  BY <2>1 DEF Apart
  <2>2. CASE x \in D /\ y \in part  BY <2>2, <1>1, <1>2
  <2>3. CASE x \in part /\ y \in D  BY <2>3, <1>1, <1>2, AboveFacts
  <2>4. CASE x \in part /\ y \in part  BY <2>4, <1>1, AboveFacts
  <2> QED  BY <2>1, <2>2, <2>3, <2>4
<1>4. D \cap part = {}  BY <1>1, <1>2
<1>5. Under(exclusions) \cap part = {}  BY <1>1 DEF Under
<1>6. part \subseteq Under({n})  BY <1>1 DEF Under
<1>7. Under(part) \subseteq Under({n})  BY <1>1, AboveFacts DEF Under
<1> QED  BY <1>1, <1>3, <1>4, <1>5, <1>6, <1>7

(* What a listing of a directory that is not cut short leaves out.            *)
LEMMA ListingCovers ==
    ASSUME IsClosed, NEW n \in Nodes, NEW part, part = Children(n) \/ n \notin fs,
           NEW k \in fs, n \in Above[k]
    PROVE  k \in part \cup Under(part)
<1>1. k \in Nodes /\ n \in fs  BY DEF IsClosed
<1>2. \E c \in part : c = k \/ c \in Above[k]  BY <1>1, EntriesCover
<1> QED  BY <1>1, <1>2 DEF Under

Pushes(f, r, part) ==
    /\ r \in Result /\ part \subseteq Children(Top.dir)
    /\ \E pushed \in SetToSeqs(part) :
          f = [Top EXCEPT !.dir = None, !.stack = @ \o pushed, !.result = r]
(* A call of _scan_tree that has listed a directory.                          *)
LEMMA PushedFrame ==
    ASSUME IInv, frames # <<>>, Top.fn = "tree", Top.dir # None,
           NEW f, NEW r, NEW part, Pushes(f, r, part)
    PROVE  /\ f \in Frame /\ f.fn = "tree" /\ f.result = r /\ Tidy(f, exclusions)
           /\ Rest(f) \subseteq Rest(Top)
           /\ part = Children(Top.dir) \/ Top.dir \notin fs =>
                 \A k \in stable : k \in Rest(Top) => k \in Rest(f)
<1> DEFINE n == Top.dir
           D == Due(Top)
<1>0. PICK pushed \in SetToSeqs(part) :
          f = [Top EXCEPT !.dir = None, !.stack = @ \o pushed, !.result = r]
  BY DEF Pushes
<1>1. Top \in TreeFrame /\ Tidy(Top, exclusions) /\ IsClosed /\ stable \subseteq fs
  BY TopFacts, FrameParts
<1>2. /\ Top.stack \in Seq(Nodes) /\ n \in Dirs /\ n \in Nodes
      /\ D = ToSet(Top.stack) /\ Opened(Top) = {n}
  BY <1>1, TreeFrameParts, TreeAssumption
<1>3. fs \subseteq Nodes  BY <1>1 DEF IsClosed
<1>4. D \subseteq Nodes  BY <1>1, TreeFrameParts, FrameParts
<1>5. /\ Apart(D \cup {n}) /\ n \notin D /\ n \notin Under(exclusions) /\ n \notin exclusions
      /\ Under(exclusions) \cap D = {}
  BY <1>1, <1>2 DEF Tidy
<1> HIDE DEF D, n
<1>6. /\ part \subseteq Nodes /\ Apart(D \cup part) /\ D \cap part = {}
      /\ Under(exclusions) \cap part = {}
      /\ part \subseteq Under({n}) /\ Under(part) \subseteq Under({n})
  <2>1. part \subseteq Children(n)  BY DEF n, Pushes
  <2>2. ListedBeside(n, part, D)  BY <1>2, <1>3, <1>4, <1>5, <2>1 DEF ListedBeside
  <2> QED  BY <2>2, EntriesApart
<1>7. /\ Top.stack \o pushed \in Seq(Nodes) /\ ToSet(Top.stack \o pushed) = D \cup part
      /\ IsDistinct(Top.stack \o pushed)
  <2>1. IsFiniteSet(part)  BY <1>6, TreeAssumption, FS_Subset
  <2>2. IsDistinct(Top.stack)  BY <1>1, TreeFrameParts DEF Tidy, IsDistinct
  <2> QED  BY <1>2, <1>6, <2>1, <2>2, PushStack
<1>8. /\ f \in TreeFrame /\ f.fn = "tree" /\ f.result = r /\ f.stack = Top.stack \o pushed
      /\ f.dir = None
  BY <1>0, <1>1, <1>7 DEF TreeFrame, Pushes
<1>9. Due(f) = D \cup part /\ Opened(f) = {} /\ f \in Frame  BY <1>7, <1>8, TreeFrameParts
<1>10. Tidy(f, exclusions)  BY <1>5, <1>6, <1>7, <1>8, <1>9 DEF Tidy, IsDistinct
<1>11. Rest(f) = D \cup part \cup Under(D) \cup Under(part)  BY <1>9, UnderFacts DEF Rest
<1>12. Rest(Top) = D \cup Under(D) \cup Under({n})  BY <1>2, UnderFacts DEF Rest, D
<1>13. ASSUME part = Children(n) \/ n \notin fs, NEW k \in stable, k \in Under({n})
       PROVE  k \in part \cup Under(part)
  <2>1. n \in Above[k] /\ k \in fs  BY <1>1, <1>13 DEF Under
  <2> QED  BY <1>1, <1>2, <1>13, <2>1, ListingCovers
<1> QED  BY <1>6, <1>8, <1>9, <1>10, <1>11, <1>12, <1>13 DEF n

(* A directory is listed onto the stack.                                      *)
LEMMA TreeListKeeps == IInv /\ TreeList => IInv'
<1> SUFFICES ASSUME IInv, TreeList PROVE IInv'  OBVIOUS
<1> DEFINE n == Top.dir
           p == [Top EXCEPT !.dir = None]
           answer == Scandir(n)
           entries == Children(n)
           room == Room(Top.stack, entries)
<1>1. /\ pc = "scan" /\ frames # <<>> /\ Top.fn = "tree" /\ Top.dir # None
      /\ NoAccount /\ UNCHANGED seen_inodes /\ ScanUnchanged
  BY DEF TreeList, InScan
<1>2. Top \in TreeFrame /\ Top.result \in Result /\ expired \in BOOLEAN
  BY <1>1, TopFacts, FrameParts DEF IInv, TypeOK
<1>3. \A pushed, r : [p EXCEPT !.stack = @ \o pushed, !.result = r]
                     = [Top EXCEPT !.dir = None, !.stack = @ \o pushed, !.result = r]
  BY <1>2 DEF TreeFrame
<1>4. CASE /\ answer = "ok"
           /\ \E r \in Readings(entries, room) : \E pushed \in SetToSeqs(r.part) :
                /\ Continue([p EXCEPT !.stack = @ \o pushed,
                                      !.result = Flagged(@, r.part # entries, r.late)])
                /\ expired' = (expired \/ r.late)
  <2>0. PICK r \in Readings(entries, room) : \E pushed \in SetToSeqs(r.part) :
                /\ Continue([p EXCEPT !.stack = @ \o pushed,
                                      !.result = Flagged(@, r.part # entries, r.late)])
                /\ expired' = (expired \/ r.late)
    BY <1>4
  <2>1. PICK pushed \in SetToSeqs(r.part) :
                /\ Continue([p EXCEPT !.stack = @ \o pushed,
                                      !.result = Flagged(@, r.part # entries, r.late)])
                /\ expired' = (expired \/ r.late)
    BY <2>0
  <2>2. r.part \subseteq entries /\ r.late \in BOOLEAN /\ (r.part # entries) \in BOOLEAN
    BY ReadingFacts
  <2> DEFINE part == r.part
             s == Flagged(Top.result, r.part # entries, r.late)
             f == [Top EXCEPT !.dir = None, !.stack = @ \o pushed, !.result = s]
  <2>3. s \in Result /\ s.size = Top.result.size /\ (Flaw(s) <=> Flaw(Top.result) \/ r.part # entries)
    BY <1>2, <2>2, ResultFacts
  <2>4. Continue(f)
    <3>1. p.result = Top.result  BY <1>2 DEF TreeFrame
    <3>2. [p EXCEPT !.stack = @ \o pushed, !.result = Flagged(@, r.part # entries, r.late)]
          = [p EXCEPT !.stack = @ \o pushed, !.result = Flagged(p.result, r.part # entries, r.late)]
      OBVIOUS
    <3> QED  BY <1>3, <2>1, <3>1, <3>2
  <2>5. part \in SUBSET Children(Top.dir) /\ pushed \in SetToSeqs(part)  BY <2>2
  <2>11. Flaw(Top.result) \/ part # Children(Top.dir) => Flaw(s)  BY <2>3
  <2> HIDE DEF s, part
  <2>6. f = [Top EXCEPT !.dir = None, !.stack = @ \o pushed, !.result = s]  OBVIOUS
  <2> HIDE DEF f
  <2>12. Pushes(f, s, part)  BY <2>3, <2>5, <2>6 DEF Pushes
  <2>7. /\ f \in Frame /\ f.fn = "tree" /\ f.result = s /\ Tidy(f, exclusions)
        /\ Rest(f) \subseteq Rest(Top)
        /\ part = Children(Top.dir) => \A k \in stable : k \in Rest(Top) => k \in Rest(f)
    BY <1>1, <2>12, PushedFrame
  <2>8. \A k \in stable : InScope(k) /\ k \in Rest(Top) =>
             Flaw(f.result) \/ k \in Rest(f) \/ Measured(InodeOf(k))
    BY <2>7, <2>11
  <2>9. expired' \in BOOLEAN  BY <1>2, <2>1, <2>2
  <2>10. f.result.size = Top.result.size /\ (Flaw(Top.result) => Flaw(f.result))  BY <2>3, <2>7
  <2> QED  BY <1>1, <2>4, <2>7, <2>8, <2>9, <2>10, ContinueKeeps
<1>5. CASE /\ answer # "ok"
           /\ \E part \in Cut(entries, IF answer = "error" THEN room ELSE 0) :
                \E pushed \in SetToSeqs(part) :
                   Continue([p EXCEPT !.stack = @ \o pushed, !.result = Refused(@, answer)])
           /\ UNCHANGED expired
  <2>0. PICK part \in Cut(entries, IF answer = "error" THEN room ELSE 0) :
           \E pushed \in SetToSeqs(part) :
             Continue([p EXCEPT !.stack = @ \o pushed, !.result = Refused(@, answer)])
    BY <1>5
  <2>1. PICK pushed \in SetToSeqs(part) :
             Continue([p EXCEPT !.stack = @ \o pushed, !.result = Refused(@, answer)])
    BY <2>0
  <2> DEFINE s == Refused(Top.result, answer)
             f == [Top EXCEPT !.dir = None, !.stack = @ \o pushed, !.result = s]
  <2>2. s \in Result /\ s.size = Top.result.size
        /\ (Flaw(s) <=> Flaw(Top.result) \/ answer \in {"denied", "error"})
    BY <1>2, ResultFacts
  <2>3. answer \in {"denied", "error"} \/ Top.dir \notin fs  BY <1>5 DEF Scandir
  <2>4. Continue(f)
    <3>1. p.result = Top.result  BY <1>2 DEF TreeFrame
    <3>2. [p EXCEPT !.stack = @ \o pushed, !.result = Refused(@, answer)]
          = [p EXCEPT !.stack = @ \o pushed, !.result = Refused(p.result, answer)]
      OBVIOUS
    <3> QED  BY <1>3, <2>1, <3>1, <3>2
  <2>5. part \in SUBSET Children(Top.dir) /\ pushed \in SetToSeqs(part)  BY ReadingFacts
  <2> HIDE DEF s
  <2>6. f = [Top EXCEPT !.dir = None, !.stack = @ \o pushed, !.result = s]  OBVIOUS
  <2> HIDE DEF f
  <2>11. Pushes(f, s, part)  BY <2>2, <2>5, <2>6 DEF Pushes
  <2>7. /\ f \in Frame /\ f.fn = "tree" /\ f.result = s /\ Tidy(f, exclusions)
        /\ Rest(f) \subseteq Rest(Top)
        /\ Top.dir \notin fs => \A k \in stable : k \in Rest(Top) => k \in Rest(f)
    BY <1>1, <2>11, PushedFrame
  <2>8. \A k \in stable : InScope(k) /\ k \in Rest(Top) =>
             Flaw(f.result) \/ k \in Rest(f) \/ Measured(InodeOf(k))
    BY <2>2, <2>3, <2>7
  <2>9. expired' \in BOOLEAN  BY <1>2, <1>5
  <2>10. f.result.size = Top.result.size /\ (Flaw(Top.result) => Flaw(f.result))  BY <2>2, <2>7
  <2> QED  BY <1>1, <2>4, <2>7, <2>8, <2>9, <2>10, ContinueKeeps
<1> QED  BY <1>4, <1>5 DEF TreeList

-----------------------------------------------------------------------------
(* Above the last level, more than one level is reported. *)
LEMMA LevelTopFacts ==
    ASSUME IInv, frames # <<>>, Top.fn = "level"
    PROVE  /\ Top \in LevelFrame /\ Top.result \in Result /\ Tidy(Top, exclusions)
           /\ Top.path \in Nodes /\ Top.depth \in Int /\ Top.depth <= scenario.max_depth
           /\ scenario.max_depth \in Nat /\ ~(scenario.max_depth <= 1)
           /\ expired \in BOOLEAN /\ IsClosed /\ stable \subseteq fs /\ fs \subseteq Nodes
<1>1. scenario.max_depth \in Nat  BY ScenarioAssumption DEF IInv, TypeOK, Scenario
<1>2. Top \in LevelFrame /\ Top.depth \in 2 .. scenario.max_depth /\ Top.path \in Nodes
  BY TopFacts, FrameParts, LevelFrameParts
<1>3. Top.depth \in Int /\ Top.depth <= scenario.max_depth /\ ~(scenario.max_depth <= 1)
  BY <1>1, <1>2
<1>4. Top.result \in Result /\ Tidy(Top, exclusions) /\ IsClosed /\ stable \subseteq fs
  BY TopFacts
<1> QED  BY <1>1, <1>2, <1>3, <1>4 DEF IInv, TypeOK, IsClosed

(* The path of a call above the last level is visited.                        *)
LEMMA LevelStatKeeps == IInv /\ LevelStat => IInv'
<1> SUFFICES ASSUME IInv, LevelStat PROVE IInv'  OBVIOUS
<1> DEFINE n == Top.path
           answer == Lstat(n)
<1>1. /\ pc = "scan" /\ frames # <<>> /\ Top.fn = "level" /\ Top.stage = "stat"
      /\ UNCHANGED <<expired, seen_inodes>> /\ ScanUnchanged
  BY DEF LevelStat, InScan
<1>2. /\ Top \in LevelFrame /\ Top.result \in Result /\ Tidy(Top, exclusions) /\ n \in Nodes
      /\ Top.depth \in 2 .. scenario.max_depth
      /\ ~(scenario.max_depth <= 1) /\ IsClosed /\ stable \subseteq fs /\ expired \in BOOLEAN
  BY <1>1, LevelTopFacts, TopFacts
<1>3. Due(Top) = {n} /\ Opened(Top) = {} /\ Rest(Top) = {n} \cup Under({n})
  BY <1>1, <1>2, LevelFrameParts, UnderFacts DEF Rest
<1>4. CASE /\ n \in exclusions \/ answer # "ok"
           /\ ReturnWith(IF n \in exclusions THEN Top.result ELSE Refused(Top.result, answer))
           /\ NoAccount
  <2> DEFINE r == IF n \in exclusions THEN Top.result ELSE Refused(Top.result, answer)
  <2>1. /\ r \in Result /\ r.size = Top.result.size /\ (Flaw(Top.result) => Flaw(r))
        /\ n \notin exclusions /\ answer \in {"denied", "error"} => Flaw(r)
    BY <1>2, ResultFacts
  <2>2. n \in exclusions \/ n \notin fs \/ Flaw(r)
    <3>1. answer \in {"ok", "missing", "denied", "error"}  BY DEF Lstat
    <3>2. answer = "missing" => n \notin fs  BY DEF Lstat
    <3> QED  BY <1>4, <2>1, <3>1, <3>2
  <2>3. \A k \in stable : InScope(k) /\ k \in Rest(Top) => Flaw(r) \/ Measured(InodeOf(k))
    <3>1. ASSUME NEW k \in stable, InScope(k), k = n \/ n \in Above[k]
          PROVE  n \notin exclusions /\ n \in fs
      BY <3>1, <1>2 DEF InScope, IsClosed
    <3>2. \A k \in Rest(Top) : k = n \/ n \in Above[k]  BY <1>3 DEF Under
    <3> QED  BY <2>2, <3>1, <3>2
  <2>4. ReturnWith(r)  BY <1>4
  <2> HIDE DEF r
  <2> QED  BY <1>1, <1>4, <2>1, <2>3, <2>4, ReturnKeeps
<1>5. CASE /\ n \notin exclusions /\ answer = "ok" /\ Account(n)
           /\ LET r == [Top.result EXCEPT !.size = @ + Size[InodeOf(n)]] IN
                 IF n \in Dirs THEN Continue([Top EXCEPT !.result = r, !.stage = "list"])
                 ELSE ReturnWith(r)
  <2> DEFINE r == [Top.result EXCEPT !.size = @ + Size[InodeOf(n)]]
             f == [Top EXCEPT !.result = r, !.stage = "list"]
  <2>1. r \in Result /\ r.size = Top.result.size + Size[InodeOf(n)] /\ (Flaw(r) <=> Flaw(Top.result))
    <3>1. Size[InodeOf(n)] \in Nat  BY <1>2, InodeFacts DEF IInv
    <3> QED  BY <1>2, <3>1, ResultFacts
  <2>2. IF n \in Dirs THEN Continue(f) ELSE ReturnWith(r)  BY <1>5
  <2> HIDE DEF r
  <2>3. /\ f \in LevelFrame /\ f.path = n /\ f.stage = "list" /\ f.result = r /\ f.fn = "level"
        /\ f.depth = Top.depth /\ f.leaves = Top.leaves /\ f.dirs = Top.dirs /\ f.rest = Top.rest
    BY <1>1, <1>2, <2>1 DEF LevelFrame
  <2> HIDE DEF f
  <2>4. FlatInv'
    <3>1. scenario' = scenario  BY <1>1 DEF ScanUnchanged, env
    <3> QED  BY <1>2, <3>1 DEF FlatInv
  <2>5. InScope(n)  BY <1>1, <1>3, <1>5, DueInScope
  <2>6. CASE n \in Dirs
    <3>1. Due(f) = {} /\ Opened(f) = {n} /\ f \in Frame  BY <2>3, LevelFrameParts
    <3>2. Rest(f) = Under({n})  BY <3>1, UnderFacts DEF Rest
    <3>3. n \notin Under({n})  BY <1>2, AboveFacts DEF Under
    <3>4. Tidy(f, exclusions)
      <4>1. Apart({n}) /\ Under(exclusions) \cap {n} = {} /\ Top.dirs \cap Top.rest = {}
            /\ Top.leaves \cap (Top.dirs \cup Top.rest) = {}
        BY <1>1, <1>2, <1>3 DEF Tidy
      <4>2. exclusions \cap {n} = {}  BY <1>5
      <4> QED  BY <2>3, <3>1, <4>1, <4>2 DEF Tidy
    <3>5. Rest(Top) \ Rest(f) = {n} /\ n \in Rest(Top) /\ n \notin Rest(f) /\ Rest(f) \subseteq Rest(Top)
      BY <1>3, <3>2, <3>3
    <3>6. f.result.size = Top.result.size + Size[InodeOf(n)] /\ (Flaw(Top.result) => Flaw(f.result))
      BY <2>1, <2>3
    <3>7. Continue(f)  BY <2>2, <2>6
    <3>8. f.fn = "level" => f.depth \in 2 .. scenario.max_depth  BY <1>2, <2>3
    <3>9. seen_inodes' \in {seen_inodes, seen_inodes \cup {InodeOf(n)}}  BY <1>1
    <3>10. UNCHANGED expired /\ Account(n)  BY <1>1, <1>5
    <3> HIDE DEF n
    <3> QED  BY <1>1, <1>2, <2>4, <2>5, <3>1, <3>4, <3>5, <3>6, <3>7, <3>8, <3>9, <3>10, ContinueVisits
  <2>7. CASE n \notin Dirs
    <3>1. Rest(Top) = {n}
      <4>1. {n} \cap Dirs = {}  BY <2>7
      <4> QED  BY <1>3, <4>1, UnderFacts
    <3>2. ReturnWith(r) /\ Account(n) /\ (Flaw(Top.result) => Flaw(r))  BY <2>1, <2>2, <2>7, <1>5
    <3> HIDE DEF n
    <3> QED  BY <1>1, <1>2, <2>1, <2>4, <2>5, <3>1, <3>2, ReturnVisits
  <2> QED  BY <2>6, <2>7
<1> QED  BY <1>4, <1>5 DEF LevelStat

-----------------------------------------------------------------------------
(* A listing above the last level. *)
Loads(f, r, part, dirs) ==
    /\ r \in Result /\ part \subseteq Children(Top.path) /\ dirs \subseteq part \cap Dirs
    /\ f = [Top EXCEPT !.stage = "calls", !.leaves = part \ dirs, !.dirs = Reported(dirs),
                       !.rest = dirs \ Reported(dirs), !.result = r]
(* It holds the entries read as leaves, reported directories and the rest.    *)
LEMMA LoadedFrame ==
    ASSUME IInv, frames # <<>>, Top.fn = "level", Top.stage = "list",
           NEW f, NEW r, NEW part, NEW dirs, Loads(f, r, part, dirs)
    PROVE  /\ f \in Frame /\ f.result = r /\ Tidy(f, exclusions) /\ Rest(f) \subseteq Rest(Top)
           /\ f.fn = "level" => f.depth \in 2 .. scenario.max_depth
           /\ part = Children(Top.path) \/ Top.path \notin fs =>
                 \A k \in stable : k \in Rest(Top) => k \in Rest(f)
<1> DEFINE n == Top.path
           shown == Reported(dirs)
<1>1. /\ Top \in LevelFrame /\ Tidy(Top, exclusions) /\ n \in Nodes /\ fs \subseteq Nodes
      /\ Top.depth \in 2 .. scenario.max_depth /\ IsClosed /\ stable \subseteq fs
  BY LevelTopFacts, TopFacts
<1>2. Due(Top) = {} /\ Opened(Top) = {n} /\ Rest(Top) = Under({n})
  BY <1>1, LevelFrameParts, UnderFacts DEF Rest
<1>3. r \in Result /\ part \subseteq Children(n) /\ dirs \subseteq part \cap Dirs  BY DEF Loads
<1>4. ListedBeside(n, part, {})
  BY <1>1, <1>2, <1>3, AboveFacts DEF ListedBeside, Tidy, Apart
<1>5. /\ part \subseteq Nodes /\ Apart(part) /\ Under(exclusions) \cap part = {}
      /\ part \subseteq Under({n}) /\ Under(part) \subseteq Under({n})
  <2>1. Apart({} \cup part)  BY <1>4, EntriesApart
  <2>2. {} \cup part = part  OBVIOUS
  <2>3. Apart(part)  BY <2>1, <2>2
  <2> QED  BY <1>4, <2>3, EntriesApart
<1>6. shown \subseteq dirs  BY DEF Reported
<1>7. f = [Top EXCEPT !.stage = "calls", !.leaves = part \ dirs, !.dirs = shown,
                      !.rest = dirs \ shown, !.result = r]
  BY DEF Loads
<1> HIDE DEF shown
<1>8. /\ f \in LevelFrame /\ f.fn = "level" /\ f.stage = "calls" /\ f.leaves = part \ dirs
      /\ f.dirs = shown /\ f.rest = dirs \ shown /\ f.result = r /\ f.depth = Top.depth
  <2>1. part \ dirs \subseteq Nodes /\ shown \subseteq Dirs /\ dirs \ shown \subseteq Dirs
    BY <1>3, <1>5, <1>6
  <2> QED  BY <1>1, <1>3, <1>7, <2>1 DEF LevelFrame
<1>9. Due(f) = part /\ Opened(f) = {} /\ f \in Frame
  <2>1. f.leaves \cup f.dirs \cup f.rest = part  BY <1>3, <1>6, <1>8
  <2> QED  BY <1>8, <2>1, LevelFrameParts
<1>10. Tidy(f, exclusions)
  <2>1. f.dirs \cap f.rest = {} /\ f.leaves \cap (f.dirs \cup f.rest) = {}  BY <1>6, <1>8
  <2>2. Due(f) \cup Opened(f) = part  BY <1>9
  <2> QED  BY <1>5, <1>8, <1>9, <2>1, <2>2 DEF Tidy
<1>11. Rest(f) = part \cup Under(part)  BY <1>9, UnderFacts DEF Rest
<1>12. ASSUME part = Children(n) \/ n \notin fs, NEW k \in stable, k \in Under({n})
       PROVE  k \in part \cup Under(part)
  <2>1. n \in Above[k] /\ k \in fs  BY <1>1, <1>12 DEF Under
  <2> QED  BY <1>1, <1>12, <2>1, ListingCovers
<1> QED  BY <1>1, <1>2, <1>5, <1>8, <1>9, <1>10, <1>11, <1>12

(* A listing that leaves nothing out, or records a flaw.                      *)
LEMMA LoadKeeps ==
    ASSUME IInv, pc = "scan", frames # <<>>, Top.fn = "level", Top.stage = "list",
           ScanUnchanged, NoAccount, UNCHANGED seen_inodes, expired' \in BOOLEAN,
           NEW f, NEW r, NEW part, NEW dirs, Loads(f, r, part, dirs), Continue(f),
           r.size = Top.result.size, Flaw(Top.result) => Flaw(r),
           Flaw(r) \/ part = Children(Top.path) \/ Top.path \notin fs
    PROVE  IInv'
<1>1. /\ f \in Frame /\ f.result = r /\ Tidy(f, exclusions) /\ Rest(f) \subseteq Rest(Top)
      /\ f.fn = "level" => f.depth \in 2 .. scenario.max_depth
      /\ part = Children(Top.path) \/ Top.path \notin fs =>
            \A k \in stable : k \in Rest(Top) => k \in Rest(f)
  BY LoadedFrame
<1>2. \A n \in stable : InScope(n) /\ n \in Rest(Top) =>
              Flaw(f.result) \/ n \in Rest(f) \/ Measured(InodeOf(n))
  BY <1>1
<1> QED  BY <1>1, <1>2, ContinueKeeps

(* The directory is listed.                                                   *)
LEMMA LevelListKeeps == IInv /\ LevelList => IInv'
<1> SUFFICES ASSUME IInv, LevelList PROVE IInv'  OBVIOUS
<1> DEFINE answer == Scandir(Top.path)
           entries == Children(Top.path)
           cap == IF Capped THEN 0 ELSE Cardinality(entries)
           room == IF answer = "error" THEN Cardinality(entries) ELSE 0
           Loaded(part, dirs, result) ==
             [Top EXCEPT !.stage = "calls", !.leaves = part \ dirs, !.dirs = Reported(dirs),
                         !.rest = dirs \ Reported(dirs),
                         !.result = Flagged(result, Reported(dirs) # dirs, FALSE)]
<1>1. /\ pc = "scan" /\ frames # <<>> /\ Top.fn = "level" /\ Top.stage = "list"
      /\ NoAccount /\ UNCHANGED seen_inodes /\ ScanUnchanged
  BY DEF LevelList, InScan
<1>2. Top.result \in Result /\ expired \in BOOLEAN  BY <1>1, LevelTopFacts
<1>3. ASSUME NEW s \in Result, s.size = Top.result.size, Flaw(Top.result) => Flaw(s),
             NEW part, part \subseteq entries, NEW dirs \in TakenForDirs(part),
             Continue(Loaded(part, dirs, s)), expired' \in BOOLEAN,
             Flaw(s) \/ part = entries \/ Top.path \notin fs
      PROVE  IInv'
  <2> DEFINE more == Reported(dirs) # dirs
             r == Flagged(s, more, FALSE)
             f == Loaded(part, dirs, s)
  <2>1. r \in Result /\ r.size = Top.result.size /\ (Flaw(s) => Flaw(r))
    <3>1. more \in BOOLEAN /\ FALSE \in BOOLEAN  OBVIOUS
    <3> HIDE DEF more
    <3> QED  BY <1>3, <3>1, ResultFacts
  <2>2. Loads(f, r, part, dirs)
    <3>1. dirs \subseteq part \cap Dirs  BY <1>3 DEF TakenForDirs
    <3> QED  BY <1>3, <2>1, <3>1 DEF Loads
  <2>3. Continue(f)  BY <1>3
  <2> HIDE DEF r, f
  <2> QED  BY <1>1, <1>3, <2>1, <2>2, <2>3, LoadKeeps
<1>4. CASE /\ answer = "ok"
           /\ \E r \in Readings(entries, cap) :
                /\ \E dirs \in TakenForDirs(r.part) :
                      Continue(Loaded(r.part, dirs,
                                      Flagged(Top.result, r.part # entries, r.late)))
                /\ expired' = (expired \/ r.late)
  <2>1. PICK r \in Readings(entries, cap) :
                /\ \E dirs \in TakenForDirs(r.part) :
                      Continue(Loaded(r.part, dirs,
                                      Flagged(Top.result, r.part # entries, r.late)))
                /\ expired' = (expired \/ r.late)
    BY <1>4
  <2>2. r.part \subseteq entries /\ r.late \in BOOLEAN /\ (r.part # entries) \in BOOLEAN
    BY ReadingFacts
  <2> DEFINE s == Flagged(Top.result, r.part # entries, r.late)
  <2>3. s \in Result /\ s.size = Top.result.size /\ (Flaw(s) <=> Flaw(Top.result) \/ r.part # entries)
    BY <1>2, <2>2, ResultFacts
  <2>4. PICK dirs \in TakenForDirs(r.part) : Continue(Loaded(r.part, dirs, s))  BY <2>1
  <2>5. expired' \in BOOLEAN  BY <1>2, <2>1, <2>2
  <2> HIDE DEF s, Loaded
  <2> QED  BY <1>3, <2>2, <2>3, <2>4, <2>5
<1>5. CASE /\ answer # "ok"
           /\ \E part \in Cut(entries, room) :
                \E dirs \in TakenForDirs(part) :
                   Continue(Loaded(part, dirs, Refused(Top.result, answer)))
           /\ UNCHANGED expired
  <2>1. PICK part \in Cut(entries, room) :
                \E dirs \in TakenForDirs(part) :
                   Continue(Loaded(part, dirs, Refused(Top.result, answer)))
    BY <1>5
  <2> DEFINE s == Refused(Top.result, answer)
  <2>2. s \in Result /\ s.size = Top.result.size
        /\ (Flaw(s) <=> Flaw(Top.result) \/ answer \in {"denied", "error"})
    BY <1>2, ResultFacts
  <2>3. answer \in {"denied", "error"} \/ Top.path \notin fs  BY <1>5 DEF Scandir
  <2>4. part \subseteq entries  BY ReadingFacts
  <2>5. PICK dirs \in TakenForDirs(part) : Continue(Loaded(part, dirs, s))  BY <2>1
  <2>6. expired' \in BOOLEAN  BY <1>2, <1>5
  <2> HIDE DEF s, Loaded, answer
  <2> QED  BY <1>3, <2>2, <2>3, <2>4, <2>5, <2>6
<1> QED  BY <1>4, <1>5 DEF LevelList

-----------------------------------------------------------------------------
(* A call above the last level hands one of its paths on.                     *)
HandsOn(f, n) ==
    /\ f \in LevelFrame /\ f.stage = "calls" /\ f.depth = Top.depth /\ f.result = Top.result
    /\ n \in Due(Top) /\ Due(f) = Due(Top) \ {n}
    /\ f.leaves \subseteq Top.leaves /\ f.dirs \subseteq Top.dirs /\ f.rest \subseteq Top.rest
(* The call that it makes takes the path and what lies beneath it.            *)
LEMMA HandsOnKeeps ==
    ASSUME IInv, pc = "scan", frames # <<>>, Top.fn = "level", Top.stage = "calls", ScanUnchanged,
           NoAccount, UNCHANGED <<expired, seen_inodes>>,
           NEW f, NEW n, HandsOn(f, n), NEW depth \in Int, depth <= Top.depth,
           Invoke(f, Call(n, depth))
    PROVE  IInv'
<1> DEFINE g == Call(n, depth)
<1>1. /\ FramesOK(frames) /\ total \in Result /\ Separate(frames, todo, exclusions)
      /\ Tidy(Top, exclusions) /\ Top \in LevelFrame /\ Top.depth \in 2 .. scenario.max_depth
      /\ Top.depth \in Int /\ scenario.max_depth \in Nat /\ Top.depth <= scenario.max_depth
      /\ expired \in BOOLEAN
  BY TopFacts, LevelTopFacts
<1>2. /\ Opened(Top) = {} /\ f.fn = "level" /\ f \in Frame /\ Opened(f) = {} /\ Due(Top) \subseteq Nodes
      /\ n \in Due(Top) /\ n \in Nodes /\ Due(Top) = Due(f) \cup {n} /\ n \notin Due(f)
      /\ Due(f) \subseteq Nodes
  BY <1>1, LevelFrameParts, FrameParts DEF HandsOn, Frame
<1>3. Apart(Due(Top)) /\ Under(exclusions) \cap Due(Top) = {} /\ Top.dirs \cap Top.rest = {}
      /\ Top.leaves \cap (Top.dirs \cup Top.rest) = {}
  BY <1>1, <1>2 DEF Tidy
<1>4. Tidy(f, exclusions)
  <2>1. Apart(Due(f))  BY <1>2, <1>3 DEF Apart
  <2>2. f.dirs \cap f.rest = {} /\ f.leaves \cap (f.dirs \cup f.rest) = {}  BY <1>3 DEF HandsOn
  <2>3. Due(f) \cup Opened(f) = Due(f) /\ Due(f) \cap Opened(f) = {}  BY <1>2
  <2> QED  BY <1>2, <1>3, <2>1, <2>2, <2>3 DEF Tidy
<1>5. /\ g \in Frame /\ g.result = NoResult /\ Rest(g) = {n} \cup Under({n})
      /\ Tidy(g, exclusions)
      /\ g.fn = "level" => g.depth \in 2 .. scenario.max_depth
  <2>1. Above[n] \cap exclusions = {}  BY <1>2, <1>3 DEF Under
  <2>2. /\ g \in Frame /\ g.result = NoResult /\ Rest(g) = {n} \cup Under({n})
        /\ Tidy(g, exclusions)
    BY <1>2, <2>1, CallFacts
  <2>3. g.fn = "level" => g.depth = depth /\ depth > 1  BY <1>2, CallFacts
  <2> HIDE DEF g
  <2>4. g.fn = "level" => depth \in 2 .. scenario.max_depth  BY <1>1, <2>3
  <2> QED  BY <2>2, <2>3, <2>4
<1> HIDE DEF g
<1>6. Rest(f) = Due(f) \cup Under(Due(f)) /\ Rest(Top) = Due(Top) \cup Under(Due(Top))
  BY <1>2, UnderFacts DEF Rest
<1>7. Rest(f) \cap Rest(g) = {}
  <2>1. {n} \in SUBSET Nodes /\ Due(f) \in SUBSET Nodes /\ Due(f) \cap {n} = {}  BY <1>2
  <2>2. \A k \in Due(f), m \in {n} : k \notin Above[m] /\ m \notin Above[k]
    BY <1>2, <1>3 DEF Apart
  <2>3. (Due(f) \cup Under(Due(f))) \cap ({n} \cup Under({n})) = {}
    BY <2>1, <2>2, NothingBeneathBoth
  <2> QED  BY <1>5, <1>6, <2>3
<1>8. Rest(f) \cup Rest(g) = Rest(Top)
  <2>1. Under(Due(Top)) = Under(Due(f)) \cup Under({n})  BY <1>2, UnderFacts
  <2> QED  BY <1>2, <1>5, <1>6, <2>1
<1>9. /\ FramesOK(frames)' /\ total' = total /\ Separate(frames, todo, exclusions)' /\ Left' = Left
      /\ SizeSum(frames') = SizeSum(frames) /\ (Flawed => Flawed')
  <2>1. UNCHANGED <<scenario, todo, exclusions, errors>>  BY DEF ScanUnchanged, env
  <2>2. f.fn = "level" => f.depth \in 2 .. scenario.max_depth  BY <1>1 DEF HandsOn
  <2>3. f.result = Top.result /\ Invoke(f, g)  BY DEF HandsOn, g
  <2> QED  BY <1>1, <1>2, <1>4, <1>5, <1>7, <1>8, <2>1, <2>2, <2>3, InvokeStep
<1>10. total'.size + SizeSum(frames') = total.size + SizeSum(frames)  BY <1>9
<1>11. \A k \in stable : InScope(k) /\ k \in Left =>
              Flawed' \/ k \in Left' \/ Measured(InodeOf(k))
  BY <1>9
<1> QED  BY <1>1, <1>9, <1>10, <1>11, NoVisitKeeps

(* A call above the last level calls another one for each of its paths.       *)
LEMMA LevelCallsKeeps == IInv /\ LevelCalls => IInv'
<1> SUFFICES ASSUME IInv, LevelCalls PROVE IInv'  OBVIOUS
<1>1. /\ pc = "scan" /\ frames # <<>> /\ Top.fn = "level" /\ Top.stage = "calls"
      /\ NoAccount /\ UNCHANGED <<expired, seen_inodes>> /\ ScanUnchanged
  BY DEF LevelCalls, InScan
<1>2. /\ Top \in LevelFrame /\ Top.result \in Result /\ Top.depth \in 2 .. scenario.max_depth
      /\ Tidy(Top, exclusions) /\ Top.depth \in Int /\ scenario.max_depth \in Nat
  BY <1>1, TopFacts, LevelTopFacts
<1>3. /\ Due(Top) = Top.leaves \cup Top.dirs \cup Top.rest /\ Opened(Top) = {}
      /\ Top.leaves \cap (Top.dirs \cup Top.rest) = {} /\ Top.dirs \cap Top.rest = {}
  BY <1>1, <1>2, LevelFrameParts DEF Tidy
<1>4. 1 \in Int /\ 1 <= Top.depth /\ Top.depth - 1 \in Int /\ Top.depth - 1 <= Top.depth
  BY <1>2
<1>5. \A n : Tree(n) = Call(n, 1)  BY DEF Call
<1>6. CASE \E n \in Top.leaves : Invoke([Top EXCEPT !.leaves = @ \ {n}], Tree(n))
  <2>1. PICK n \in Top.leaves : Invoke([Top EXCEPT !.leaves = @ \ {n}], Tree(n))  BY <1>6
  <2> DEFINE f == [Top EXCEPT !.leaves = @ \ {n}]
  <2>2. /\ f \in LevelFrame /\ f.stage = "calls" /\ f.depth = Top.depth /\ f.result = Top.result
        /\ f.leaves = Top.leaves \ {n} /\ f.dirs = Top.dirs /\ f.rest = Top.rest
    BY <1>1, <1>2 DEF LevelFrame
  <2>3. Invoke(f, Call(n, 1))  BY <2>1, <1>5
  <2> HIDE DEF f
  <2>4. HandsOn(f, n)
    <3>1. Due(f) = f.leaves \cup f.dirs \cup f.rest  BY <2>2, LevelFrameParts
    <3> QED  BY <1>3, <2>1, <2>2, <3>1 DEF HandsOn
  <2> QED  BY <1>1, <1>4, <2>3, <2>4, HandsOnKeeps
<1>7. CASE \E n \in Top.dirs : /\ IsNext(n, Top.dirs)
                               /\ Invoke([Top EXCEPT !.dirs = @ \ {n}], Call(n, Top.depth - 1))
  <2>1. PICK n \in Top.dirs : Invoke([Top EXCEPT !.dirs = @ \ {n}], Call(n, Top.depth - 1))  BY <1>7
  <2> DEFINE f == [Top EXCEPT !.dirs = @ \ {n}]
  <2>2. /\ f \in LevelFrame /\ f.stage = "calls" /\ f.depth = Top.depth /\ f.result = Top.result
        /\ f.leaves = Top.leaves /\ f.dirs = Top.dirs \ {n} /\ f.rest = Top.rest
    BY <1>1, <1>2 DEF LevelFrame
  <2>3. Invoke(f, Call(n, Top.depth - 1))  BY <2>1
  <2> HIDE DEF f
  <2>4. HandsOn(f, n)
    <3>1. Due(f) = f.leaves \cup f.dirs \cup f.rest  BY <2>2, LevelFrameParts
    <3> QED  BY <1>3, <2>1, <2>2, <3>1 DEF HandsOn
  <2> QED  BY <1>1, <1>4, <2>3, <2>4, HandsOnKeeps
<1>8. CASE \E n \in Top.rest : /\ IsNext(n, Top.rest)
                               /\ Invoke([Top EXCEPT !.rest = @ \ {n}], Tree(n))
  <2>1. PICK n \in Top.rest : Invoke([Top EXCEPT !.rest = @ \ {n}], Tree(n))  BY <1>8
  <2> DEFINE f == [Top EXCEPT !.rest = @ \ {n}]
  <2>2. /\ f \in LevelFrame /\ f.stage = "calls" /\ f.depth = Top.depth /\ f.result = Top.result
        /\ f.leaves = Top.leaves /\ f.dirs = Top.dirs /\ f.rest = Top.rest \ {n}
    BY <1>1, <1>2 DEF LevelFrame
  <2>3. Invoke(f, Call(n, 1))  BY <2>1, <1>5
  <2> HIDE DEF f
  <2>4. HandsOn(f, n)
    <3>1. Due(f) = f.leaves \cup f.dirs \cup f.rest  BY <2>2, LevelFrameParts
    <3> QED  BY <1>3, <2>1, <2>2, <3>1 DEF HandsOn
  <2> QED  BY <1>1, <1>4, <2>3, <2>4, HandsOnKeeps
<1>9. CASE Top.leaves = {} /\ Top.dirs = {} /\ Top.rest = {} /\ ReturnWith(Top.result)
  <2>1. Due(Top) = {} /\ Rest(Top) = {}  BY <1>3, <1>9, UnderFacts DEF Rest
  <2> QED  BY <1>1, <1>2, <1>9, <2>1, ReturnKeeps
<1> QED  BY <1>6, <1>7, <1>8, <1>9 DEF LevelCalls

-----------------------------------------------------------------------------
(* Every step keeps the invariant.                                            *)
LEMMA StepKeeps == IInv /\ [Next]_vars => IInv'
<1> SUFFICES ASSUME IInv, [Next]_vars PROVE IInv'  OBVIOUS
<1>1. CASE Step
  BY <1>1, BeginKeeps, DiscoverKeeps, NextChildKeeps, TreeEndKeeps, TreeVisitKeeps, TreeListKeeps,
     LevelStatKeeps, LevelListKeeps, LevelCallsKeeps, FinishKeeps DEF Step
<1>2. CASE Vanish  BY <1>2, VanishKeeps
<1>3. CASE Appear  BY <1>3, AppearKeeps
<1>4. CASE Expire \/ UNCHANGED vars  BY <1>4, ExpireKeeps
<1> QED  BY <1>1, <1>2, <1>3, <1>4 DEF Next

-----------------------------------------------------------------------------
(* IInv holds in every state.                                                 *)
THEOREM InductiveInvariant == Spec => []IInv
<1>1. Init => IInv  BY Initially
<1>2. IInv /\ [Next]_vars => IInv'  BY StepKeeps
<1> QED  BY <1>1, <1>2, PTL DEF Spec

(* The variables stay in their types. *)
THEOREM TypeCorrect == Spec => []TypeOK
<1>1. IInv => TypeOK  BY DEF IInv
<1> QED  BY <1>1, InductiveInvariant, PTL

(* Where the whole way to a path is on the mount of the target, nothing on it *)
(* is excluded but by the configuration.                                      *)
LEMMA ReachedInScope ==
    ASSUME IInv, pc # "start", exists = "yes", ~scenario.unreadable,
           NEW n \in Nodes, OnTargetMount(n)
    PROVE  InScope(n)
<1>1. scenario \in Scenarios /\ Mounts = Parsed(scenario.lines)  BY DEF IInv, TypeOK, Mounts
<1>2. exclusions = Exclusions(scenario.exclude_paths,
                              VisibleMount(Target, scenario.lines).device, Mounts)
  BY DEF IInv, PhaseInv
<1>3. \A p \in exclusions : p \in scenario.exclude_paths \/ \E m \in Parsed(scenario.lines) : p = m.at
  BY <1>1, <1>2 DEF Exclusions
<1>4. \A m \in Parsed(scenario.lines) : m.at \notin Above[n] \cup {n}
  BY <1>1, TargetMountClear DEF OnTargetMount
<1>5. (Above[n] \cup {n}) \cap scenario.exclude_paths = {}  BY DEF OnTargetMount
<1> QED  BY <1>3, <1>4, <1>5 DEF InScope

(* A snapshot that calls itself complete has measured all that stayed in      *)
(* place on the mount of the target.                                          *)
THEOREM Complete == Spec => []CompleteIsExact
<1>1. IInv => CompleteIsExact
  <2> SUFFICES ASSUME IInv, Done, complete, NEW n \in stable, OnTargetMount(n)
               PROVE  \E m \in Nodes : InodeOf(m) = InodeOf(n) /\ counted[m] > 0
    BY DEF CompleteIsExact
  <2>1. /\ pc = "done" /\ exists = "yes" /\ ~Flawed /\ frames = <<>> /\ todo = {}
        /\ n \in Nodes /\ (scenario.unreadable => errors)
    BY DEF IInv, PhaseInv, TypeOK, Done
  <2>2. ~scenario.unreadable  BY <2>1 DEF Flawed
  <2>3. InScope(n)  BY <2>1, <2>2, ReachedInScope
  <2>4. Left = {}  BY <2>1, NothingLeft DEF Left
  <2>5. Measured(InodeOf(n))  BY <2>1, <2>3, <2>4 DEF IInv, CoverInv
  <2> QED  BY <2>5 DEF Measured
<1> QED  BY <1>1, InductiveInvariant, PTL

(* Nothing beneath a mount is measured, if every mount is skipped.            *)
LEMMA NothingBeneathMount ==
    ASSUME IInv, ~scenario.unreadable,
           LET owner == OwningMount(Target, Mounts) IN
              owner # None /\ owner = VisibleMount(Target, scenario.lines) /\ owner.root = "/",
           NEW n \in Nodes, NEW m \in Parsed(scenario.lines), m.at \in Above[n] \cup {n}
    PROVE  counted[n] = 0
<1>1. scenario \in Scenarios /\ Mounts = Parsed(scenario.lines)  BY DEF IInv, TypeOK, Mounts
<1>2. CASE pc \in {"start", "discover"} \/ exists # "yes"
  BY <1>2 DEF IInv, PhaseInv
<1>3. CASE pc \notin {"start", "discover"} /\ exists = "yes"
  <2>1. exclusions = Exclusions(scenario.exclude_paths,
                                VisibleMount(Target, scenario.lines).device, Parsed(scenario.lines))
    BY <1>1, <1>3 DEF IInv, PhaseInv
  <2>2. m.at \in Nodes  BY AboveFacts
  <2>3. InProfile(m)  BY <2>2, PlaceFacts DEF InProfile, PathContains
  <2>4. m.at \in exclusions  BY <1>1, <2>1, <2>3, EveryMountSkipped
  <2>5. ~InScope(n)  BY <2>4 DEF InScope
  <2>6. counted[n] <= 0 /\ counted[n] \in Nat  BY <2>5 DEF IInv, CountInv, TypeOK
  <2> QED  BY <2>6
<1> QED  BY <1>2, <1>3

(* A path that shows another one, or is on another file system, is beneath a  *)
(* mount.                                                                     *)
LEMMA ShownFromMount ==
    ASSUME IInv, NEW n \in Nodes,
           scenario.shows[n] # n \/ VisibleMount(n, scenario.lines).device
                                    # VisibleMount(Target, scenario.lines).device
    PROVE  \E m \in Parsed(scenario.lines) : m.at \in Above[n] \cup {n}
<1> DEFINE V == VisibleMount(n, scenario.lines)
<1>1. scenario \in Scenarios  BY DEF IInv, TypeOK
<1>2. V \in Parsed(scenario.lines) /\ PathContains(V.at, n)  BY <1>1, VisibleFacts
<1>3. V.at \in Places  BY <1>1, <1>2, ParsedFacts
<1>4. CASE scenario.shows[n] # n
  <2>1. V.at \in Nodes  BY <1>1, <1>4, ScenarioAssumption DEF IsHost
  <2>2. V.at \in {n} \cup Above[n]
    <3> HIDE DEF V
    <3> QED  BY <1>2, <1>3, <2>1, PlaceFacts
  <2> QED  BY <1>2, <2>2
<1>5. CASE V.device # VisibleMount(Target, scenario.lines).device
  BY <1>1, <1>2, <1>5, OtherMountBeneath
<1> QED  BY <1>4, <1>5

(* No path is measured twice, nothing beneath an exclusion is, the totals add *)
(* up, and mounts do not repeat what they show.                               *)
THEOREM Once == Spec => []CountedOnce
<1>1. ASSUME IInv PROVE CountedOnce
  <2>1. \A n \in Nodes : counted[n] <= IF InScope(n) THEN 1 ELSE 0  BY <1>1 DEF IInv, CountInv
  <2>2. \A n \in Nodes : counted[n] \in Nat /\ counted[n] <= 1
    BY <1>1, <2>1 DEF IInv, TypeOK
  <2>3. ASSUME Done
        PROVE  /\ total.size = SumFunction([n \in Nodes |-> counted[n] * Size[InodeOf(n)]])
               /\ scanned = SumFunction(counted)
    <3>1. frames = <<>> /\ total \in Result  BY <1>1, <2>3 DEF IInv, PhaseInv, TypeOK, Done
    <3>2. SizeSum(frames) = 0  BY <3>1, NoSizes
    <3>3. total.size \in Nat  BY <3>1, ResultFacts
    <3>4. /\ total.size + SizeSum(frames) = SumFunction([n \in Nodes |-> counted[n] * Size[InodeOf(n)]])
          /\ scanned = SumFunction(counted)
      BY <1>1 DEF IInv, CountInv, SizeSum
    <3> QED  BY <3>2, <3>3, <3>4
  <2>4. ASSUME LET owner == OwningMount(Target, Mounts) IN
                 owner # None /\ owner = VisibleMount(Target, scenario.lines) /\ owner.root = "/",
               ~scenario.unreadable
        PROVE  /\ \A n, m \in Nodes : n # m /\ scenario.shows[n] = scenario.shows[m] =>
                     counted[n] + counted[m] <= 1
               /\ \A n \in Nodes : VisibleMount(n, scenario.lines).device
                                    # VisibleMount(Target, scenario.lines).device => counted[n] = 0
    <3>1. \A n \in Nodes : scenario.shows[n] # n => counted[n] = 0
      BY <1>1, <2>4, ShownFromMount, NothingBeneathMount
    <3>2. \A n \in Nodes : VisibleMount(n, scenario.lines).device
                            # VisibleMount(Target, scenario.lines).device => counted[n] = 0
      BY <1>1, <2>4, ShownFromMount, NothingBeneathMount
    <3>3. \A n, m \in Nodes : n # m /\ scenario.shows[n] = scenario.shows[m] =>
                     counted[n] + counted[m] <= 1
      BY <2>2, <3>1
    <3> QED  BY <3>2, <3>3
  <2> QED  BY <2>1, <2>3, <2>4 DEF CountedOnce, MountsCountOnce
<1> QED  BY <1>1, InductiveInvariant, PTL

(* Of two hard links that stay in place, a profile that reports one level     *)
(* measures at most one.                                                      *)
THEOREM FlatOnce == Spec => []FlatHardlinksCountOnce
<1>1. IInv => FlatHardlinksCountOnce
  <2> SUFFICES ASSUME IInv, scenario.max_depth <= 1,
                      NEW n \in {k \in stable : scenario.shows[k] = k},
                      NEW m \in {k \in stable : scenario.shows[k] = k},
                      n # m, Inode[n] = Inode[m]
               PROVE  counted[n] + counted[m] <= 1
    BY DEF FlatHardlinksCountOnce
  <2>1. n \in Nodes /\ m \in Nodes  BY DEF IInv, TypeOK
  <2>2. counted[n] \in Nat /\ counted[n] <= 1 /\ counted[m] \in Nat /\ counted[m] <= 1
    BY <2>1 DEF IInv, TypeOK, CountInv
  <2>3. counted[n] > 0 => counted[m] = 0  BY DEF IInv, FlatInv
  <2> QED  BY <2>2, <2>3
<1> QED  BY <1>1, InductiveInvariant, PTL
=============================================================================

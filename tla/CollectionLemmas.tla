-------------------------- MODULE CollectionLemmas --------------------------
(* Facts about finite sets, sums, paths and stacks that the proofs of several *)
(* components rest on.  Induction over a finite set is used in the form of a  *)
(* smallest element of a set of its subsets.                                  *)
EXTENDS Integers, Sequences, SequencesExt, FiniteSetTheorems, TLAPS

(* Of some parts of a finite set, one has no other of them beneath it.        *)
LEMMA SmallestSet ==
    ASSUME NEW S, IsFiniteSet(S), NEW B \in SUBSET SUBSET S, B # {}
    PROVE  \E T \in B : \A U \in B : ~(U \subseteq T /\ U # T)
<1>1. IsWellFoundedOn(StrictSubsetOrdering(S), FiniteSubsetsOf(S))
  BY FS_StrictSubsetOrderingWellFounded
<1>2. B \subseteq FiniteSubsetsOf(S)
  BY FS_FiniteSubsetsOfFinite
<1>3. \E x \in B : \A y \in B : ~ (<<y, x>> \in StrictSubsetOrdering(S))
  BY <1>1, <1>2, WFMin
<1> QED  BY <1>3 DEF StrictSubsetOrdering

(* What a function takes finitely many elements to is finite. *)
LEMMA FiniteImage ==
    ASSUME NEW S, IsFiniteSet(S), NEW f, f = [x \in S |-> f[x]]
    PROVE  IsFiniteSet({f[x] : x \in S})
<1> DEFINE T == {f[x] : x \in S}
<1>1. f \in [S -> T] /\ \A t \in T : \E x \in S : f[x] = t  OBVIOUS
<1> HIDE DEF T
<1>2. f \in Surjection(S, T)  BY <1>1 DEF Surjection
<1>3. IsFiniteSet(T)  BY <1>2, FS_Surjection
<1> QED  BY <1>3 DEF T

(* The smaller and the larger of two numbers. *)
LEMMA MinOfTwo ==
    ASSUME NEW a \in Int, NEW b \in Int
    PROVE  Min({a, b}) = IF a <= b THEN a ELSE b
<1>1. \E x \in {a, b} : \A y \in {a, b} : x <= y  OBVIOUS
<1>2. Min({a, b}) \in {a, b} /\ \A y \in {a, b} : Min({a, b}) <= y  BY <1>1 DEF Min
<1> QED  BY <1>2

LEMMA MaxOfTwo ==
    ASSUME NEW a \in Int, NEW b \in Int
    PROVE  Max({a, b}) = IF a <= b THEN b ELSE a
<1>1. \E x \in {a, b} : \A y \in {a, b} : x >= y  OBVIOUS
<1>2. Max({a, b}) \in {a, b} /\ \A y \in {a, b} : Max({a, b}) >= y  BY <1>1 DEF Max
<1> QED  BY <1>2

(* A finite set of numbers that is not empty has a largest one. *)
LEMMA LargestNumber ==
    ASSUME NEW S, \A x \in S : x \in Int, IsFiniteSet(S), S # {}
    PROVE  \E x \in S : \A y \in S : y <= x
<1> DEFINE From(y) == {x \in S : y <= x}
           B == {T \in SUBSET S : \E y \in S : T = From(y)}
<1>1. B \in SUBSET SUBSET S  OBVIOUS
<1>2. \A y \in S : From(y) \in B /\ y \in From(y)  OBVIOUS
<1>3. B # {}  BY <1>2
<1>4. \A T \in B : \E y \in S : T = From(y)  OBVIOUS
<1>5. \A x, y \in S : ~(x <= y) => From(x) \subseteq From(y) /\ y \notin From(x)
  <2> SUFFICES ASSUME NEW x \in S, NEW y \in S, ~(x <= y)
               PROVE  From(x) \subseteq From(y) /\ y \notin From(x)
    OBVIOUS
  <2>1. x \in Int /\ y \in Int /\ y < x  OBVIOUS
  <2>2. \A w \in S : x <= w => y <= w  BY <2>1
  <2> QED  BY <2>2
<1> HIDE DEF B, From
<1>6. PICK T \in B : \A U \in B : ~(U \subseteq T /\ U # T)
  BY <1>1, <1>3, SmallestSet
<1>7. PICK y \in S : T = From(y)  BY <1>4
<1>8. \A x \in S : x <= y  BY <1>2, <1>5, <1>6, <1>7
<1> QED  BY <1>8

(* A set of natural numbers that is not empty has a least one. *)
LEMMA LeastNumber ==
    ASSUME NEW S \in SUBSET Nat, S # {}
    PROVE  \E x \in S : \A y \in S : x <= y
<1>1. PICK n \in S : TRUE  OBVIOUS
<1> DEFINE I == 0 .. n
           B == {0 .. x : x \in {y \in S : y <= n}}
<1>2. IsFiniteSet(I)  BY FS_Interval
<1>3. B \in SUBSET SUBSET I /\ B # {}  OBVIOUS
<1>4. PICK T \in B : \A U \in B : ~(U \subseteq T /\ U # T)
  <2> HIDE DEF B, I
  <2> QED  BY <1>2, <1>3, SmallestSet
<1>5. PICK x \in S : x <= n /\ T = 0 .. x  OBVIOUS
<1>6. ASSUME NEW y \in S, ~(x <= y) PROVE FALSE
  <2>1. x \in Nat /\ y \in Nat /\ n \in Nat  OBVIOUS
  <2>2. y <= n /\ y < x  BY <1>5, <1>6, <2>1
  <2>3. 0 .. y \in B  BY <2>2
  <2>4. 0 .. y \subseteq 0 .. x /\ x \in 0 .. x /\ x \notin 0 .. y  BY <2>1, <2>2
  <2> QED  BY <1>4, <1>5, <2>3, <2>4
<1> QED  BY <1>6

-----------------------------------------------------------------------------
(* What SumFunctionOnSet computes: one element is taken out after the other. *)
OneOf(s) == CHOOSE x \in s : TRUE
SumStep(f, sums, s) == IF s = {} THEN 0 ELSE f[OneOf(s)] + sums[s \ {OneOf(s)}]
AreSums(f, S, sums) == sums = [s \in SUBSET S |-> SumStep(f, sums, s)]
Sums(f, S) == CHOOSE sums : AreSums(f, S, sums)

LEMMA SumIsChosen == \A f, S : SumFunctionOnSet(f, S) = Sums(f, S)[S]
BY DEF SumFunctionOnSet, FoldFunctionOnSet, MapThenFoldSet, Sums, AreSums, SumStep, OneOf

LEMMA OneOfIsIn == \A s : s # {} => OneOf(s) \in s
BY DEF OneOf

(* There is only one table of sums, and a part of it is that of a subset. *)
LEMMA SumsAreUnique ==
    ASSUME NEW f, NEW S, IsFiniteSet(S), NEW T \in SUBSET S,
           NEW g, AreSums(f, S, g), NEW h, AreSums(f, T, h)
    PROVE  \A s \in SUBSET T : g[s] = h[s]
<1> DEFINE B == {s \in SUBSET T : g[s] # h[s]}
<1> SUFFICES ASSUME B # {} PROVE FALSE  OBVIOUS
<1>1. B \in SUBSET SUBSET S  OBVIOUS
<1>2. \A s : s \in B <=> s \in SUBSET T /\ g[s] # h[s]  OBVIOUS
<1> HIDE DEF B
<1>3. PICK s \in B : \A U \in B : ~(U \subseteq s /\ U # s)  BY <1>1, SmallestSet
<1>4. g[s] = SumStep(f, g, s) /\ h[s] = SumStep(f, h, s)
  <2>1. s \in SUBSET T /\ s \in SUBSET S  BY <1>2, <1>3
  <2>2. g = [x \in SUBSET S |-> SumStep(f, g, x)] /\ h = [x \in SUBSET T |-> SumStep(f, h, x)]
    BY DEF AreSums
  <2>3. [x \in SUBSET S |-> SumStep(f, g, x)][s] = SumStep(f, g, s)  BY <2>1
  <2>4. [x \in SUBSET T |-> SumStep(f, h, x)][s] = SumStep(f, h, s)  BY <2>1
  <2> QED  BY <2>2, <2>3, <2>4
<1>5. s # {}  BY <1>2, <1>3, <1>4 DEF SumStep
<1>6. g[s \ {OneOf(s)}] = h[s \ {OneOf(s)}]
  BY <1>2, <1>3, <1>5, OneOfIsIn
<1> QED  BY <1>2, <1>3, <1>4, <1>5, <1>6 DEF SumStep

LEMMA SumsExist == ASSUME NEW f, NEW S, IsFiniteSet(S) PROVE AreSums(f, S, Sums(f, S))
<1> DEFINE B == {T \in SUBSET S : ~AreSums(f, T, Sums(f, T))}
<1> SUFFICES ASSUME B # {} PROVE FALSE  OBVIOUS
<1>1. B \in SUBSET SUBSET S  OBVIOUS
<1>2. \A s : s \in B <=> s \in SUBSET S /\ ~AreSums(f, s, Sums(f, s))  OBVIOUS
<1> HIDE DEF B
<1>3. PICK T \in B : \A U \in B : ~(U \subseteq T /\ U # T)  BY <1>1, SmallestSet
<1>4. \A U \in SUBSET T : U # T => AreSums(f, U, Sums(f, U))  BY <1>2, <1>3
<1>5. T \in SUBSET S  BY <1>2, <1>3
<1> DEFINE G(s) == IF s = {} THEN 0 ELSE f[OneOf(s)] + Sums(f, s \ {OneOf(s)})[s \ {OneOf(s)}]
           g == [s \in SUBSET T |-> G(s)]
<1>6. ASSUME NEW s \in SUBSET T PROVE G(s) = SumStep(f, g, s)
  <2>1. CASE s = {}  BY <2>1 DEF SumStep
  <2>2. CASE s # {}
    <3> DEFINE u == s \ {OneOf(s)}
    <3>1. OneOf(s) \in s  BY <2>2, OneOfIsIn
    <3>2. u \in SUBSET T /\ u # T  BY <3>1
    <3>3. AreSums(f, u, Sums(f, u))  BY <1>4, <3>2
    <3>4. g[u] = G(u)  BY <3>2
    <3>5. G(u) = Sums(f, u)[u]
      <4>0. Sums(f, u) = [x \in SUBSET u |-> SumStep(f, Sums(f, u), x)]  BY <3>3 DEF AreSums
      <4>1. Sums(f, u)[u] = SumStep(f, Sums(f, u), u)
        <5>1. [x \in SUBSET u |-> SumStep(f, Sums(f, u), x)][u] = SumStep(f, Sums(f, u), u)
          OBVIOUS
        <5> HIDE DEF u
        <5> QED  BY <4>0, <5>1
      <4>2. CASE u = {}  BY <4>1, <4>2 DEF SumStep
      <4>3. CASE u # {}
        <5> DEFINE w == u \ {OneOf(u)}
        <5>1. w \in SUBSET u /\ w \in SUBSET T /\ w # T  BY <3>2, <4>3, OneOfIsIn
        <5>2. AreSums(f, w, Sums(f, w))  BY <1>4, <5>1
        <5>3. IsFiniteSet(u)  BY <1>5, FS_Subset
        <5>4. Sums(f, u)[w] = Sums(f, w)[w]
          <6> HIDE DEF u, w
          <6> QED  BY <3>3, <5>1, <5>2, <5>3, SumsAreUnique
        <5> QED  BY <4>1, <4>3, <5>4 DEF SumStep
      <4> QED  BY <4>2, <4>3
    <3> QED  BY <2>2, <3>4, <3>5 DEF SumStep
  <2> QED  BY <2>1, <2>2
<1>7. AreSums(f, T, g)
  <2>1. g = [s \in SUBSET T |-> SumStep(f, g, s)]
    <3> HIDE DEF G
    <3> QED  BY <1>6
  <2> QED  BY <2>1 DEF AreSums
<1>8. AreSums(f, T, Sums(f, T))
  <2> HIDE DEF g
  <2> QED  BY <1>7 DEF Sums
<1> QED  BY <1>2, <1>3, <1>8

LEMMA SumStepwise ==
    ASSUME NEW f, NEW S, IsFiniteSet(S)
    PROVE  /\ SumFunctionOnSet(f, {}) = 0
           /\ S # {} => OneOf(S) \in S /\ SumFunctionOnSet(f, S)
                            = f[OneOf(S)] + SumFunctionOnSet(f, S \ {OneOf(S)})
<1>1. \A T : IsFiniteSet(T) => Sums(f, T)[T] = SumStep(f, Sums(f, T), T)
  <2> SUFFICES ASSUME NEW T, IsFiniteSet(T) PROVE Sums(f, T)[T] = SumStep(f, Sums(f, T), T)
    OBVIOUS
  <2>0. AreSums(f, T, Sums(f, T))  BY SumsExist
  <2>1. Sums(f, T) = [x \in SUBSET T |-> SumStep(f, Sums(f, T), x)]  BY <2>0 DEF AreSums
  <2>2. [x \in SUBSET T |-> SumStep(f, Sums(f, T), x)][T] = SumStep(f, Sums(f, T), T)  OBVIOUS
  <2> QED  BY <2>1, <2>2
<1>2. SumFunctionOnSet(f, {}) = 0
  BY <1>1, FS_EmptySet, SumIsChosen DEF SumStep
<1>3. ASSUME S # {}
      PROVE  /\ OneOf(S) \in S
             /\ SumFunctionOnSet(f, S) = f[OneOf(S)] + SumFunctionOnSet(f, S \ {OneOf(S)})
  <2> DEFINE T == S \ {OneOf(S)}
  <2>1. OneOf(S) \in S  BY <1>3, OneOfIsIn
  <2>2. IsFiniteSet(T) /\ T \in SUBSET S  BY FS_RemoveElement
  <2>3. AreSums(f, S, Sums(f, S)) /\ AreSums(f, T, Sums(f, T))  BY <2>2, SumsExist
  <2> HIDE DEF T
  <2>4. Sums(f, S)[T] = Sums(f, T)[T]  BY <2>2, <2>3, SumsAreUnique
  <2>5. Sums(f, S)[S] = f[OneOf(S)] + Sums(f, S)[T]  BY <1>1, <1>3 DEF SumStep, T
  <2> QED  BY <2>1, <2>4, <2>5, SumIsChosen DEF T
<1> QED  BY <1>2, <1>3

LEMMA SumIsInt ==
    ASSUME NEW f, NEW S, IsFiniteSet(S), \A x \in S : f[x] \in Int
    PROVE  SumFunctionOnSet(f, S) \in Int
<1> DEFINE B == {T \in SUBSET S : SumFunctionOnSet(f, T) \notin Int}
<1> SUFFICES ASSUME B # {} PROVE FALSE  OBVIOUS
<1>1. B \in SUBSET SUBSET S  OBVIOUS
<1>2. \A s : s \in B <=> s \in SUBSET S /\ SumFunctionOnSet(f, s) \notin Int  OBVIOUS
<1> HIDE DEF B
<1>3. PICK T \in B : \A U \in B : ~(U \subseteq T /\ U # T)  BY <1>1, SmallestSet
<1>4. T \in SUBSET S /\ IsFiniteSet(T)  BY <1>2, <1>3, FS_Subset
<1>5. T # {}
  <2>1. SumFunctionOnSet(f, {}) = 0  BY FS_EmptySet, SumStepwise
  <2>2. SumFunctionOnSet(f, {}) \in Int  BY <2>1
  <2> QED  BY <1>2, <1>3, <2>2
<1>6. OneOf(T) \in T
      /\ SumFunctionOnSet(f, T) = f[OneOf(T)] + SumFunctionOnSet(f, T \ {OneOf(T)})
  BY <1>4, <1>5, SumStepwise
<1>7. SumFunctionOnSet(f, T \ {OneOf(T)}) \in Int  BY <1>2, <1>3, <1>4, <1>6
<1> QED  BY <1>2, <1>3, <1>4, <1>6, <1>7

(* Any element may be taken out of a sum. *)
LEMMA SumTakeOut ==
    ASSUME NEW f, NEW S, IsFiniteSet(S), \A x \in S : f[x] \in Int, NEW x \in S
    PROVE  SumFunctionOnSet(f, S) = f[x] + SumFunctionOnSet(f, S \ {x})
<1> DEFINE Total(T) == SumFunctionOnSet(f, T)
           Taken(T, y) == Total(T) = f[y] + Total(T \ {y})
           B == {T \in SUBSET S : \E y \in T : ~Taken(T, y)}
<1> SUFFICES ASSUME B # {} PROVE FALSE
  <2>1. S \in SUBSET S  OBVIOUS
  <2> QED  BY <2>1
<1>1. B \in SUBSET SUBSET S  OBVIOUS
<1>2. \A s : s \in B <=> s \in SUBSET S /\ \E y \in s : ~Taken(s, y)  OBVIOUS
<1>3. \A T \in SUBSET S : IsFiniteSet(T) /\ Total(T) \in Int  BY FS_Subset, SumIsInt
<1>4. \A T \in SUBSET S : T # {} => OneOf(T) \in T /\ Taken(T, OneOf(T))
  BY <1>3, SumStepwise
<1> HIDE DEF B
<1>5. PICK T \in B : \A U \in B : ~(U \subseteq T /\ U # T)  BY <1>1, SmallestSet
<1>6. PICK y \in T : ~Taken(T, y)  BY <1>2, <1>5
<1> DEFINE c == OneOf(T)
<1>7. T \in SUBSET S /\ c \in T /\ Taken(T, c) /\ c # y  BY <1>2, <1>4, <1>5, <1>6
<1> HIDE DEF c
<1>8. Taken(T \ {c}, y)
  <2>1. T \ {c} \in SUBSET S /\ T \ {c} \notin B /\ y \in T \ {c}  BY <1>5, <1>6, <1>7
  <2> HIDE DEF Taken
  <2> QED  BY <1>2, <2>1
<1>9. Taken(T \ {y}, c)
  <2>1. T \ {y} \in SUBSET S /\ T \ {y} \notin B /\ c \in T \ {y}  BY <1>5, <1>6, <1>7
  <2> HIDE DEF Taken
  <2> QED  BY <1>2, <2>1
<1>10. (T \ {c}) \ {y} = (T \ {y}) \ {c}  OBVIOUS
<1>11. /\ Total(T \ {c}) \in Int /\ Total(T \ {y}) \in Int /\ Total((T \ {c}) \ {y}) \in Int
       /\ f[c] \in Int /\ f[y] \in Int
  <2>1. T \ {c} \in SUBSET S /\ T \ {y} \in SUBSET S /\ (T \ {c}) \ {y} \in SUBSET S
    BY <1>7
  <2> HIDE DEF Total
  <2> QED  BY <1>3, <1>6, <1>7, <2>1
<1>12. /\ Total(T) = f[c] + Total(T \ {c})
       /\ Total(T \ {c}) = f[y] + Total((T \ {c}) \ {y})
       /\ Total(T \ {y}) = f[c] + Total((T \ {c}) \ {y})
       /\ Total(T) # f[y] + Total(T \ {y})
  BY <1>6, <1>7, <1>8, <1>9, <1>10
<1> HIDE DEF Total
<1> QED  BY <1>11, <1>12

(* A sum depends on nothing but the values that are added up. *)
LEMMA SumOfEquals ==
    ASSUME NEW f, NEW g, NEW S, IsFiniteSet(S), \A x \in S : f[x] = g[x]
    PROVE  SumFunctionOnSet(f, S) = SumFunctionOnSet(g, S)
<1> DEFINE B == {T \in SUBSET S : SumFunctionOnSet(f, T) # SumFunctionOnSet(g, T)}
<1> SUFFICES ASSUME B # {} PROVE FALSE  OBVIOUS
<1>1. B \in SUBSET SUBSET S  OBVIOUS
<1>2. \A s : s \in B <=> s \in SUBSET S /\ SumFunctionOnSet(f, s) # SumFunctionOnSet(g, s)
  OBVIOUS
<1> HIDE DEF B
<1>3. PICK T \in B : \A U \in B : ~(U \subseteq T /\ U # T)  BY <1>1, SmallestSet
<1>4. T \in SUBSET S /\ IsFiniteSet(T)  BY <1>2, <1>3, FS_Subset
<1>5. T # {}  BY <1>2, <1>3, FS_EmptySet, SumStepwise
<1>6. /\ OneOf(T) \in T
      /\ SumFunctionOnSet(f, T) = f[OneOf(T)] + SumFunctionOnSet(f, T \ {OneOf(T)})
      /\ SumFunctionOnSet(g, T) = g[OneOf(T)] + SumFunctionOnSet(g, T \ {OneOf(T)})
  BY <1>4, <1>5, SumStepwise
<1>7. SumFunctionOnSet(f, T \ {OneOf(T)}) = SumFunctionOnSet(g, T \ {OneOf(T)})
  BY <1>2, <1>3, <1>4, <1>6
<1> QED  BY <1>2, <1>3, <1>4, <1>6, <1>7

(* Zeros add up to 0. *)
LEMMA SumOfZeros ==
    ASSUME NEW f, NEW S, IsFiniteSet(S), \A x \in S : f[x] = 0
    PROVE  SumFunctionOnSet(f, S) = 0
<1> DEFINE B == {T \in SUBSET S : SumFunctionOnSet(f, T) # 0}
<1> SUFFICES ASSUME B # {} PROVE FALSE  OBVIOUS
<1>1. B \in SUBSET SUBSET S  OBVIOUS
<1>2. \A s : s \in B <=> s \in SUBSET S /\ SumFunctionOnSet(f, s) # 0  OBVIOUS
<1> HIDE DEF B
<1>3. PICK T \in B : \A U \in B : ~(U \subseteq T /\ U # T)  BY <1>1, SmallestSet
<1>4. T \in SUBSET S /\ IsFiniteSet(T)  BY <1>2, <1>3, FS_Subset
<1>5. T # {}  BY <1>2, <1>3, FS_EmptySet, SumStepwise
<1>6. /\ OneOf(T) \in T
      /\ SumFunctionOnSet(f, T) = f[OneOf(T)] + SumFunctionOnSet(f, T \ {OneOf(T)})
  BY <1>4, <1>5, SumStepwise
<1>7. SumFunctionOnSet(f, T \ {OneOf(T)}) = 0  BY <1>2, <1>3, <1>4, <1>6
<1> QED  BY <1>2, <1>3, <1>4, <1>6, <1>7

(* One value more, and one value changed. *)
LEMMA SumOfOneMore ==
    ASSUME NEW f, NEW g, NEW S, IsFiniteSet(S), NEW x, x \notin S,
           \A y \in S : g[y] \in Int /\ g[y] = f[y], g[x] \in Int
    PROVE  SumFunctionOnSet(g, S \cup {x}) = SumFunctionOnSet(f, S) + g[x]
<1>1. IsFiniteSet(S \cup {x})  BY FS_AddElement
<1>2. (S \cup {x}) \ {x} = S  OBVIOUS
<1>3. SumFunctionOnSet(g, S \cup {x}) = g[x] + SumFunctionOnSet(g, S)
  BY <1>1, <1>2, SumTakeOut
<1>4. SumFunctionOnSet(g, S) \in Int  BY SumIsInt
<1>5. SumFunctionOnSet(g, S) = SumFunctionOnSet(f, S)
  <2>1. \A y \in S : f[y] = g[y]  OBVIOUS
  <2> QED  BY <2>1, SumOfEquals
<1> QED  BY <1>3, <1>4, <1>5

LEMMA SumOfOneChanged ==
    ASSUME NEW f, NEW g, NEW S, IsFiniteSet(S), NEW x \in S,
           \A y \in S : f[y] \in Int /\ g[y] \in Int, \A y \in S \ {x} : g[y] = f[y]
    PROVE  SumFunctionOnSet(g, S) = SumFunctionOnSet(f, S) + g[x] - f[x]
<1>1. IsFiniteSet(S \ {x})  BY FS_RemoveElement
<1>2. /\ SumFunctionOnSet(f, S) = f[x] + SumFunctionOnSet(f, S \ {x})
      /\ SumFunctionOnSet(g, S) = g[x] + SumFunctionOnSet(g, S \ {x})
  BY SumTakeOut
<1>3. SumFunctionOnSet(f, S \ {x}) = SumFunctionOnSet(g, S \ {x})
  <2>1. \A y \in S \ {x} : f[y] = g[y]  OBVIOUS
  <2> QED  BY <1>1, <2>1, SumOfEquals
<1>4. SumFunctionOnSet(g, S \ {x}) \in Int  BY <1>1, SumIsInt
<1> QED  BY <1>2, <1>3, <1>4

(* A part of some natural numbers adds up to no more than all of them.        *)
LEMMA SumOfPart ==
    ASSUME NEW f, NEW S, IsFiniteSet(S), NEW T \in SUBSET S, \A x \in S : f[x] \in Nat
    PROVE  /\ SumFunctionOnSet(f, T) \in Nat
           /\ SumFunctionOnSet(f, T) <= SumFunctionOnSet(f, S)
<1>1. \A U \in SUBSET S : IsFiniteSet(U) /\ SumFunctionOnSet(f, U) \in Int
  BY FS_Subset, SumIsInt
<1>2. ASSUME NEW R \in SUBSET S
      PROVE  \A U \in SUBSET S : R \subseteq U => SumFunctionOnSet(f, R) <= SumFunctionOnSet(f, U)
  <2> DEFINE B == {U \in SUBSET S : R \subseteq U
                       /\ ~(SumFunctionOnSet(f, R) <= SumFunctionOnSet(f, U))}
  <2> SUFFICES ASSUME B # {} PROVE FALSE  OBVIOUS
  <2>1. B \in SUBSET SUBSET S  OBVIOUS
  <2>2. \A U : U \in B <=> U \in SUBSET S /\ R \subseteq U
                 /\ ~(SumFunctionOnSet(f, R) <= SumFunctionOnSet(f, U))
    OBVIOUS
  <2> HIDE DEF B
  <2>3. PICK U \in B : \A V \in B : ~(V \subseteq U /\ V # U)  BY <2>1, SmallestSet
  <2>4. U # R
    <3>1. SumFunctionOnSet(f, R) <= SumFunctionOnSet(f, R)  BY <1>1
    <3> QED  BY <2>2, <2>3, <3>1
  <2>5. PICK x \in U : x \notin R  BY <2>2, <2>3, <2>4
  <2>6. SumFunctionOnSet(f, U) = f[x] + SumFunctionOnSet(f, U \ {x})
    BY <1>1, <2>2, <2>3, SumTakeOut
  <2>7. SumFunctionOnSet(f, R) <= SumFunctionOnSet(f, U \ {x})  BY <2>2, <2>3, <2>5
  <2>8. /\ SumFunctionOnSet(f, R) \in Int /\ SumFunctionOnSet(f, U) \in Int
        /\ SumFunctionOnSet(f, U \ {x}) \in Int /\ f[x] \in Nat
    BY <1>1, <2>2, <2>3
  <2> QED  BY <2>2, <2>3, <2>6, <2>7, <2>8
<1>3. SumFunctionOnSet(f, {}) = 0  BY SumStepwise
<1> QED  BY <1>1, <1>2, <1>3

(* Sets have no fewer elements than their union; as many, if they are disjoint. *)
UnionOf(w, S) == UNION {w[x] : x \in S}
AreSizes(f, w, S) ==
    IsFiniteSet(S) /\ \A x \in S : IsFiniteSet(w[x]) /\ f[x] = Cardinality(w[x])
AreDisjoint(w, S) == \A x, y \in S : x # y => w[x] \cap w[y] = {}

LEMMA CardinalitiesAddUp ==
    ASSUME NEW S, NEW w, NEW f, AreSizes(f, w, S)
    PROVE  /\ IsFiniteSet(UnionOf(w, S)) /\ SumFunctionOnSet(f, S) \in Nat
           /\ Cardinality(UnionOf(w, S)) <= SumFunctionOnSet(f, S)
           /\ AreDisjoint(w, S) => SumFunctionOnSet(f, S) = Cardinality(UnionOf(w, S))
<1> USE DEF AreSizes
<1> DEFINE All(T) == UnionOf(w, T)
           Total(T) == SumFunctionOnSet(f, T)
           Apart(T) == AreDisjoint(w, T)
           Good(T) == /\ IsFiniteSet(All(T)) /\ Total(T) \in Nat
                      /\ Cardinality(All(T)) <= Total(T)
                      /\ Apart(T) => Total(T) = Cardinality(All(T))
           B == {T \in SUBSET S : ~Good(T)}
<1> SUFFICES ASSUME B # {} PROVE FALSE  OBVIOUS
<1>1. B \in SUBSET SUBSET S  OBVIOUS
<1>2. \A T : T \in B <=> T \in SUBSET S /\ ~Good(T)  OBVIOUS
<1> HIDE DEF B
<1>3. PICK T \in B : \A U \in B : ~(U \subseteq T /\ U # T)  BY <1>1, SmallestSet
<1>4. T \in SUBSET S /\ IsFiniteSet(T) /\ ~Good(T)  BY <1>2, <1>3, FS_Subset
<1>5. \A x \in S : f[x] \in Nat  BY FS_CardinalityType
<1>6. T # {}
  <2>1. All({}) = {}  BY DEF UnionOf
  <2>2. Total({}) = 0  BY FS_EmptySet, SumStepwise
  <2>3. Good({})
    <3> HIDE DEF All, Total, Apart
    <3> QED  BY <2>1, <2>2, FS_EmptySet
  <2> QED  BY <1>4, <2>3
<1>7. PICK x \in T : TRUE  BY <1>6
<1> DEFINE U == T \ {x}
<1>8. Good(U)
  <2>1. U \in SUBSET S /\ U \subseteq T /\ U # T  BY <1>4, <1>7
  <2> HIDE DEF Good, U
  <2> QED  BY <1>2, <1>3, <2>1
<1>9. Total(T) = f[x] + Total(U)
  <2>1. \A y \in T : f[y] \in Int  BY <1>4, <1>5
  <2> QED  BY <1>4, <1>7, <2>1, SumTakeOut
<1>10. All(T) = All(U) \cup w[x]  BY <1>7 DEF UnionOf
<1>11. IsFiniteSet(w[x]) /\ f[x] = Cardinality(w[x]) /\ f[x] \in Nat  BY <1>4, <1>5, <1>7
<1>12. Apart(T) => Apart(U) /\ All(U) \cap w[x] = {}  BY <1>7 DEF UnionOf, AreDisjoint
<1> HIDE DEF All, Total, Apart, U
<1>13. IsFiniteSet(All(U)) /\ Cardinality(All(U)) \in Nat  BY <1>8, FS_CardinalityType
<1>14. /\ IsFiniteSet(All(T))
       /\ Cardinality(All(T)) = Cardinality(All(U)) + Cardinality(w[x])
                                - Cardinality(All(U) \cap w[x])
  <2> DEFINE a == All(U)
             b == w[x]
  <2>1. IsFiniteSet(a) /\ IsFiniteSet(b)  BY <1>11, <1>13
  <2> HIDE DEF a, b
  <2>2. IsFiniteSet(a \cup b) /\ Cardinality(a \cup b) = Cardinality(a) + Cardinality(b) - Cardinality(a \cap b)
    BY <2>1, FS_Union
  <2> QED  BY <2>2, <1>10 DEF a, b
<1>15. /\ Cardinality(All(U) \cap w[x]) \in Nat
       /\ Apart(T) => Cardinality(All(U) \cap w[x]) = 0
  <2>1. IsFiniteSet(All(U) \cap w[x])  BY <1>13, FS_Intersection
  <2> QED  BY <2>1, <1>12, FS_CardinalityType, FS_EmptySet
<1>16. Good(T)  BY <1>8, <1>9, <1>11, <1>12, <1>13, <1>14, <1>15
<1> QED  BY <1>4, <1>16

(* In an order, no more than k elements have fewer than k before them.        *)
LEMMA FirstOnes ==
    ASSUME NEW S, IsFiniteSet(S), NEW R, NEW k \in Nat,
           \A a \in S : <<a, a>> \notin R,
           \A a, b \in S : a # b => <<a, b>> \in R \/ <<b, a>> \in R,
           \A a, b, c \in S : <<a, b>> \in R /\ <<b, c>> \in R => <<a, c>> \in R
    PROVE  Cardinality({c \in S : Cardinality({d \in S : <<d, c>> \in R}) < k}) <= k
<1> DEFINE Before(c) == {d \in S : <<d, c>> \in R}
           K == {c \in S : Cardinality(Before(c)) < k}
<1>1. \A T \in SUBSET S : IsFiniteSet(T) /\ Cardinality(T) \in Nat
  BY FS_Subset, FS_CardinalityType
<1>2. CASE K = {}
  <2>1. Cardinality(K) = 0  BY <1>2, FS_EmptySet
  <2> QED  BY <2>1
<1>3. CASE K # {}
  <2> DEFINE g == [c \in K |-> Cardinality(Before(c))]
             T == {g[c] : c \in K}
  <2>1. IsFiniteSet(T)
    <3>1. IsFiniteSet(K) /\ g = [c \in K |-> g[c]]  BY <1>1
    <3> HIDE DEF g, K
    <3> QED  BY <3>1, FiniteImage
  <2>2. T # {} /\ \A x \in T : x \in Int
    <3>1. \A c \in S : Cardinality(Before(c)) \in Nat  BY <1>1
    <3> HIDE DEF Before
    <3> QED  BY <1>3, <3>1
  <2>3. PICK x \in T : \A y \in T : y <= x
    <3> HIDE DEF T
    <3> QED  BY <2>1, <2>2, LargestNumber
  <2>4. PICK c \in K : x = Cardinality(Before(c))  OBVIOUS
  <2>5. ASSUME NEW d \in K, d # c PROVE d \in Before(c)
    <3> SUFFICES ASSUME d \notin Before(c) PROVE FALSE  OBVIOUS
    <3>1. <<c, d>> \in R  BY <2>5
    <3>2. Before(c) \cup {c} \subseteq Before(d) /\ c \notin Before(c)  BY <3>1
    <3>3. Before(c) \in SUBSET S /\ Before(d) \in SUBSET S  OBVIOUS
    <3>4. Cardinality(Before(d)) <= x
      <4>1. g[d] \in T /\ g[d] = Cardinality(Before(d))  OBVIOUS
      <4> QED  BY <2>3, <4>1
    <3> HIDE DEF Before
    <3>5. Cardinality(Before(c) \cup {c}) = x + 1  BY <1>1, <2>4, <3>2, <3>3, FS_AddElement
    <3>6. Cardinality(Before(c) \cup {c}) <= Cardinality(Before(d))
      BY <1>1, <3>2, <3>3, FS_Subset
    <3>7. x \in Nat /\ Cardinality(Before(d)) \in Nat  BY <1>1, <2>4, <3>3
    <3> QED  BY <3>4, <3>5, <3>6, <3>7
  <2>6. K \subseteq Before(c) \cup {c}  BY <2>5
  <2>7. Cardinality(Before(c) \cup {c}) = Cardinality(Before(c)) + 1
    <3>1. c \notin Before(c) /\ IsFiniteSet(Before(c))  BY <1>1
    <3> HIDE DEF Before
    <3> QED  BY <3>1, FS_AddElement
  <2>8. Cardinality(K) <= Cardinality(Before(c) \cup {c})
    <3>1. Before(c) \cup {c} \in SUBSET S  OBVIOUS
    <3> HIDE DEF Before, K
    <3> QED  BY <1>1, <2>6, <3>1, FS_Subset
  <2>9. Cardinality(Before(c)) < k /\ Cardinality(Before(c)) \in Nat /\ Cardinality(K) \in Nat
    BY <1>1
  <2>10. Cardinality(K) <= k
    <3> HIDE DEF Before, K
    <3> QED  BY <2>4, <2>7, <2>8, <2>9
  <2> QED  BY <2>10
<1> QED  BY <1>2, <1>3

-----------------------------------------------------------------------------
(* Paths: A[n] are the paths above n.                                         *)
IsForest(N, A) ==
    /\ IsFiniteSet(N) /\ A \in [N -> SUBSET N]
    /\ \A n \in N : /\ n \notin A[n]
                    /\ \A m \in A[n] : A[m] \subseteq A[n]
                    /\ \A m, k \in A[n] : m = k \/ m \in A[k] \/ k \in A[m]
EntriesIn(F, A, n) == {m \in F : n \in A[m] /\ ~\E k \in A[m] : n \in A[k]}

(* Of a set of paths, one has no other one of the set above it.               *)
LEMMA HighestPath ==
    ASSUME NEW N, NEW A, IsForest(N, A), NEW S \in SUBSET N, S # {}
    PROVE  \E c \in S : \A k \in S : k \notin A[c]
<1> DEFINE B == {T \in SUBSET N : \E k \in S : T = A[k]}
<1>1. B \in SUBSET SUBSET N  OBVIOUS
<1>2. \A k \in S : A[k] \in B  BY DEF IsForest
<1>3. \A T \in B : \E k \in S : T = A[k]  OBVIOUS
<1> HIDE DEF B
<1>4. B # {} /\ IsFiniteSet(N)  BY <1>2 DEF IsForest
<1>5. PICK T \in B : \A U \in B : ~(U \subseteq T /\ U # T)
  BY <1>1, <1>4, SmallestSet
<1>6. PICK c \in S : T = A[c]  BY <1>3
<1>7. \A k \in S : k \in A[c] => A[k] \subseteq A[c] /\ k \notin A[k]
  BY DEF IsForest
<1> QED  BY <1>2, <1>5, <1>6, <1>7

(* What exists beneath a directory exists in or beneath one of its entries.   *)
LEMMA EntriesCoverAll ==
    ASSUME NEW N, NEW A, IsForest(N, A), NEW F \in SUBSET N, \A k \in F : A[k] \subseteq F,
           NEW n, NEW m \in F, n \in A[m]
    PROVE  \E c \in EntriesIn(F, A, n) : c = m \/ c \in A[m]
<1> DEFINE S == {k \in A[m] \cup {m} : n \in A[k]}
<1>1. A[m] \cup {m} \subseteq F  OBVIOUS
<1>2. S \in SUBSET N /\ S # {}  BY <1>1
<1>3. PICK c \in S : \A k \in S : k \notin A[c]
  <2> HIDE DEF S
  <2> QED  BY <1>2, HighestPath
<1>4. c \in F /\ n \in A[c]  BY <1>1
<1>5. A[c] \subseteq A[m]  BY <1>1 DEF IsForest
<1>6. ~\E k \in A[c] : n \in A[k]  BY <1>3, <1>5
<1> QED  BY <1>4, <1>6 DEF EntriesIn

(* The entries of a directory lie right beneath it.                           *)
LEMMA EntryFacts ==
    ASSUME NEW N, NEW A, IsForest(N, A), NEW F \in SUBSET N, NEW n, NEW c \in EntriesIn(F, A, n)
    PROVE  c \in F /\ n \in A[c] /\ A[c] = A[n] \cup {n}
<1>1. c \in F /\ n \in A[c] /\ \A k \in A[c] : n \notin A[k]  BY DEF EntriesIn
<1>2. A[n] \subseteq A[c]  BY <1>1 DEF IsForest
<1>3. \A k \in A[c] : k = n \/ k \in A[n]  BY <1>1 DEF IsForest
<1> QED  BY <1>1, <1>2, <1>3

-----------------------------------------------------------------------------
(* The stack of a walk. *)
IsDistinct(s) == \A i, j \in DOMAIN s : s[i] = s[j] => i = j

(* The last path of a stack without repetitions does not remain on it.        *)
LEMMA PopStack ==
    ASSUME NEW S, NEW s \in Seq(S), s # <<>>
    PROVE  /\ Front(s) \in Seq(S) /\ Last(s) \in ToSet(s) /\ ToSet(s) \subseteq S
           /\ ToSet(s) = ToSet(Front(s)) \cup {Last(s)}
           /\ IsDistinct(s) => IsDistinct(Front(s)) /\ Last(s) \notin ToSet(Front(s))
<1>1. Len(s) \in Nat \ {0} /\ DOMAIN s = 1 .. Len(s) /\ \A i \in 1 .. Len(s) : s[i] \in S  OBVIOUS
<1>2. /\ Front(s) \in Seq(S) /\ Len(Front(s)) = Len(s) - 1
      /\ \A i \in 1 .. Len(s) - 1 : Front(s)[i] = s[i]
  BY <1>1 DEF Front
<1>3. DOMAIN Front(s) = 1 .. Len(s) - 1  BY <1>2
<1>4. Last(s) = s[Len(s)] /\ Len(s) \in 1 .. Len(s)  BY <1>1 DEF Last
<1>5. ToSet(s) = {s[i] : i \in 1 .. Len(s)}  BY <1>1 DEF ToSet
<1>6. ToSet(Front(s)) = {s[i] : i \in 1 .. Len(s) - 1}
  <2>1. ToSet(Front(s)) = {Front(s)[i] : i \in 1 .. Len(s) - 1}  BY <1>3 DEF ToSet
  <2> QED  BY <2>1, <1>2
<1>7. \A n \in Nat : \A i \in 1 .. n : i \in 1 .. n - 1 \/ i = n  OBVIOUS
<1>8. 1 .. Len(s) - 1 \subseteq 1 .. Len(s)  BY <1>1
<1>9. ToSet(s) = ToSet(Front(s)) \cup {Last(s)}  BY <1>1, <1>4, <1>5, <1>6, <1>7, <1>8
<1>10. ASSUME IsDistinct(s) PROVE IsDistinct(Front(s)) /\ Last(s) \notin ToSet(Front(s))
  <2>1. \A i, j \in 1 .. Len(s) : s[i] = s[j] => i = j  BY <1>1, <1>10 DEF IsDistinct
  <2>2. IsDistinct(Front(s))
    <3> SUFFICES ASSUME NEW i \in 1 .. Len(s) - 1, NEW j \in 1 .. Len(s) - 1,
                        Front(s)[i] = Front(s)[j]
                 PROVE  i = j
      BY <1>3 DEF IsDistinct
    <3>1. s[i] = s[j] /\ i \in 1 .. Len(s) /\ j \in 1 .. Len(s)  BY <1>2, <1>8
    <3> QED  BY <2>1, <3>1
  <2>3. \A n \in Nat : \A i \in 1 .. n - 1 : i # n  OBVIOUS
  <2> QED  BY <2>1, <2>2, <2>3, <1>1, <1>4, <1>6, <1>8
<1> QED  BY <1>1, <1>2, <1>4, <1>5, <1>9, <1>10

(* A stack gains the entries that are pushed, in whichever order.             *)
LEMMA PushStack ==
    ASSUME NEW S, NEW s \in Seq(S), NEW part \in SUBSET S, IsFiniteSet(part),
           NEW p \in SetToSeqs(part), IsDistinct(s), ToSet(s) \cap part = {}
    PROVE  s \o p \in Seq(S) /\ ToSet(s \o p) = ToSet(s) \cup part /\ IsDistinct(s \o p)
<1> DEFINE n == Cardinality(part)
<1>1. n \in Nat  BY FS_CardinalityType
<1> HIDE DEF n
<1>2. p \in [1 .. n -> part] /\ \A i, j \in 1 .. n : i # j => p[i] # p[j]
  BY DEF SetToSeqs, n
<1>3. p \in Injection(1 .. n, part)  BY <1>2 DEF Injection, IsInjective
<1>4. Cardinality(1 .. n) = n  BY <1>1, FS_Interval
<1>5. p \in Surjection(1 .. n, part)  BY <1>3, <1>4, FS_Injection DEF n
<1>6. \A x \in part : \E i \in 1 .. n : p[i] = x  BY <1>5 DEF Surjection
<1>7. p \in Seq(S) /\ Len(p) = n /\ DOMAIN p = 1 .. n  BY <1>1, <1>2
<1>8. Len(s) \in Nat /\ DOMAIN s = 1 .. Len(s)  OBVIOUS
<1> DEFINE t == s \o p
<1>9. /\ t \in Seq(S) /\ Len(t) = Len(s) + n /\ DOMAIN t = 1 .. Len(s) + n
      /\ \A i \in 1 .. Len(s) : t[i] = s[i]
      /\ \A i \in 1 .. n : t[Len(s) + i] = p[i]
  BY <1>1, <1>7, <1>8
<1>10. \A i \in DOMAIN t : i \in 1 .. Len(s) \/ (i - Len(s) \in 1 .. n /\ t[i] = p[i - Len(s)])
  BY <1>1, <1>8, <1>9
<1>11. \A i \in 1 .. Len(s) : i \in DOMAIN t  BY <1>1, <1>8, <1>9
<1>12. \A i \in 1 .. n : Len(s) + i \in DOMAIN t  BY <1>1, <1>8, <1>9
<1>13. \A i \in 1 .. Len(s) : t[i] \in ToSet(s) /\ t[i] \notin part  BY <1>8, <1>9 DEF ToSet
<1> HIDE DEF t
<1>14. ToSet(t) \subseteq ToSet(s) \cup part  BY <1>2, <1>10, <1>13 DEF ToSet
<1>15. ToSet(s) \subseteq ToSet(t)
  BY <1>8, <1>9, <1>11 DEF ToSet
<1>16. part \subseteq ToSet(t)  BY <1>6, <1>9, <1>12 DEF ToSet
<1>17. ASSUME NEW i \in DOMAIN t, NEW j \in DOMAIN t, t[i] = t[j] PROVE i = j
  <2>1. CASE i \in 1 .. Len(s) /\ j \in 1 .. Len(s)  BY <2>1, <1>8, <1>9, <1>17 DEF IsDistinct
  <2>2. CASE i \notin 1 .. Len(s) /\ j \notin 1 .. Len(s)
    <3>1. /\ i - Len(s) \in 1 .. n /\ j - Len(s) \in 1 .. n
          /\ p[i - Len(s)] = p[j - Len(s)]
      BY <2>2, <1>10, <1>17
    <3>2. i - Len(s) = j - Len(s)  BY <3>1, <1>2
    <3>3. i \in Int /\ j \in Int  BY <1>9
    <3> QED  BY <3>2, <3>3, <1>8
  <2>3. CASE i \in 1 .. Len(s) /\ j \notin 1 .. Len(s)  BY <2>3, <1>2, <1>10, <1>13, <1>17
  <2>4. CASE i \notin 1 .. Len(s) /\ j \in 1 .. Len(s)  BY <2>4, <1>2, <1>10, <1>13, <1>17
  <2> QED  BY <2>1, <2>2, <2>3, <2>4
<1> QED  BY <1>9, <1>14, <1>15, <1>16, <1>17 DEF IsDistinct, t

-----------------------------------------------------------------------------
(* What FlattenSeq computes: one sequence is appended after the other.        *)
AreFlat(seqs, n, f) ==
    f = [i \in 1 .. n |-> IF i = 1 THEN seqs[i] ELSE f[i - 1] \o seqs[i]]

LEMMA FlatExists == ASSUME NEW seqs, NEW n \in Nat PROVE \E f : AreFlat(seqs, n, f)
<1> DEFINE B == {m \in Nat : ~\E f : AreFlat(seqs, m, f)}
<1> SUFFICES ASSUME B # {} PROVE FALSE  OBVIOUS
<1>1. B \in SUBSET Nat  OBVIOUS
<1>2. \A m \in Nat : m \in B <=> ~\E f : AreFlat(seqs, m, f)  OBVIOUS
<1> HIDE DEF B
<1>3. PICK m \in B : \A k \in B : m <= k  BY <1>1, LeastNumber
<1>4. m \in Nat /\ \A f : ~AreFlat(seqs, m, f)  BY <1>1, <1>2, <1>3
<1>5. m # 0
  <2> SUFFICES ASSUME m = 0 PROVE FALSE  OBVIOUS
  <2> DEFINE f == [i \in {} |-> i]
  <2>1. 1 .. m = {}  OBVIOUS
  <2>2. f = [i \in 1 .. m |-> IF i = 1 THEN seqs[i] ELSE f[i - 1] \o seqs[i]]  BY <2>1
  <2> HIDE DEF f
  <2> QED  BY <1>4, <2>2 DEF AreFlat
<1>6. m - 1 \in Nat /\ m - 1 \notin B  BY <1>3, <1>4, <1>5
<1>7. PICK f : AreFlat(seqs, m - 1, f)  BY <1>2, <1>6
<1>8. f = [i \in 1 .. m - 1 |-> IF i = 1 THEN seqs[i] ELSE f[i - 1] \o seqs[i]]
  BY <1>7 DEF AreFlat
<1> DEFINE G(i) == IF i = m THEN (IF m = 1 THEN seqs[1] ELSE f[m - 1] \o seqs[m]) ELSE f[i]
           g == [i \in 1 .. m |-> G(i)]
<1>9. ASSUME NEW i \in 1 .. m PROVE G(i) = IF i = 1 THEN seqs[i] ELSE g[i - 1] \o seqs[i]
  <2>1. i = 1 \/ i - 1 \in 1 .. m  BY <1>4
  <2>2. i # 1 => g[i - 1] = f[i - 1]  BY <1>4, <2>1
  <2>3. CASE i = m  BY <2>2, <2>3
  <2>4. CASE i # m
    <3>1. i \in 1 .. m - 1  BY <1>4, <2>4
    <3>2. f[i] = IF i = 1 THEN seqs[i] ELSE f[i - 1] \o seqs[i]  BY <1>8, <3>1
    <3> QED  BY <2>2, <2>4, <3>2
  <2> QED  BY <2>3, <2>4
<1>10. AreFlat(seqs, m, g)
  <2>1. g = [i \in 1 .. m |-> IF i = 1 THEN seqs[i] ELSE g[i - 1] \o seqs[i]]
    <3> HIDE DEF G
    <3> QED  BY <1>9
  <2> QED  BY <2>1 DEF AreFlat
<1> HIDE DEF g
<1> QED  BY <1>4, <1>10

Flats(seqs) == CHOOSE f : AreFlat(seqs, Len(seqs), f)
LEMMA FlattenIsChosen ==
    \A seqs : FlattenSeq(seqs) = IF Len(seqs) = 0 THEN seqs ELSE Flats(seqs)[Len(seqs)]
BY DEF FlattenSeq, Flats, AreFlat

LEMMA FlattenStepwise ==
    ASSUME NEW S, NEW seqs \in Seq(Seq(S))
    PROVE  /\ Len(seqs) = 0 => FlattenSeq(seqs) = <<>>
           /\ Len(seqs) # 0 => FlattenSeq(seqs) = Flats(seqs)[Len(seqs)]
           /\ \A i \in 1 .. Len(seqs) :
                 Flats(seqs)[i] = IF i = 1 THEN seqs[i] ELSE Flats(seqs)[i - 1] \o seqs[i]
<1>1. Len(seqs) \in Nat /\ (Len(seqs) = 0 => seqs = <<>>)  OBVIOUS
<1>2. AreFlat(seqs, Len(seqs), Flats(seqs))  BY <1>1, FlatExists DEF Flats
<1>3. ASSUME NEW i \in 1 .. Len(seqs)
      PROVE  Flats(seqs)[i] = IF i = 1 THEN seqs[i] ELSE Flats(seqs)[i - 1] \o seqs[i]
  <2> DEFINE f == Flats(seqs)
             n == Len(seqs)
  <2>1. f = [j \in 1 .. n |-> IF j = 1 THEN seqs[j] ELSE f[j - 1] \o seqs[j]]
    BY <1>2 DEF AreFlat
  <2>2. [j \in 1 .. n |-> IF j = 1 THEN seqs[j] ELSE f[j - 1] \o seqs[j]][i]
           = IF i = 1 THEN seqs[i] ELSE f[i - 1] \o seqs[i]
    OBVIOUS
  <2> HIDE DEF f, n
  <2> QED  BY <2>1, <2>2 DEF f
<1> QED  BY <1>1, <1>3, FlattenIsChosen

(* Two sequences after each other have the elements of both, and no two of    *)
(* one key if neither has and the keys of the two differ.                     *)
KeysOnce(s, k) == \A i, j \in DOMAIN s : k[s[i]] = k[s[j]] => i = j
LEMMA JoinSeqs ==
    ASSUME NEW S, NEW s \in Seq(S), NEW t \in Seq(S)
    PROVE  /\ s \o t \in Seq(S) /\ Len(s \o t) = Len(s) + Len(t)
           /\ ToSet(s \o t) = ToSet(s) \cup ToSet(t)
           /\ \A i \in 1 .. Len(s) : i \in DOMAIN (s \o t) /\ (s \o t)[i] = s[i]
<1>1. Len(s) \in Nat /\ Len(t) \in Nat /\ DOMAIN s = 1 .. Len(s) /\ DOMAIN t = 1 .. Len(t)
  OBVIOUS
<1> DEFINE u == s \o t
<1>2. /\ u \in Seq(S) /\ Len(u) = Len(s) + Len(t) /\ DOMAIN u = 1 .. Len(s) + Len(t)
      /\ \A i \in 1 .. Len(s) : u[i] = s[i]
      /\ \A i \in 1 .. Len(t) : u[Len(s) + i] = t[i]
  BY <1>1
<1> HIDE DEF u
<1>3. \A i \in DOMAIN u : i \in 1 .. Len(s) \/ (i - Len(s) \in 1 .. Len(t) /\ u[i] = t[i - Len(s)])
  BY <1>1, <1>2
<1>4. \A i \in 1 .. Len(s) : i \in DOMAIN u  BY <1>1, <1>2
<1>5. \A i \in 1 .. Len(t) : Len(s) + i \in DOMAIN u  BY <1>1, <1>2
<1>6. ToSet(u) \subseteq ToSet(s) \cup ToSet(t)  BY <1>1, <1>2, <1>3 DEF ToSet
<1>7. ToSet(s) \subseteq ToSet(u)  BY <1>1, <1>2, <1>4 DEF ToSet
<1>8. ToSet(t) \subseteq ToSet(u)  BY <1>1, <1>2, <1>5 DEF ToSet
<1> QED  BY <1>2, <1>4, <1>6, <1>7, <1>8 DEF u

LEMMA JoinKeys ==
    ASSUME NEW S, NEW s \in Seq(S), NEW t \in Seq(S), NEW k, KeysOnce(s, k), KeysOnce(t, k),
           \A x \in ToSet(s), y \in ToSet(t) : k[x] # k[y]
    PROVE  KeysOnce(s \o t, k)
<1>1. Len(s) \in Nat /\ Len(t) \in Nat /\ DOMAIN s = 1 .. Len(s) /\ DOMAIN t = 1 .. Len(t)
  OBVIOUS
<1> DEFINE u == s \o t
<1>2. DOMAIN u = 1 .. Len(s) + Len(t)  BY <1>1
<1>3. \A i \in DOMAIN u : \/ i \in 1 .. Len(s) /\ u[i] = s[i]
                          \/ i - Len(s) \in 1 .. Len(t) /\ u[i] = t[i - Len(s)]
  BY <1>1, <1>2
<1> HIDE DEF u
<1>4. \A i \in 1 .. Len(s), j \in 1 .. Len(t) : k[s[i]] # k[t[j]]  BY <1>1 DEF ToSet
<1>5. ASSUME NEW i \in DOMAIN u, NEW j \in DOMAIN u, k[u[i]] = k[u[j]] PROVE i = j
  <2>1. i \in Int /\ j \in Int  BY <1>2
  <2>2. CASE i \in 1 .. Len(s) /\ u[i] = s[i]
    <3>1. j \in 1 .. Len(s) /\ u[j] = s[j]  BY <2>2, <1>3, <1>4, <1>5
    <3> QED  BY <2>2, <3>1, <1>1, <1>5 DEF KeysOnce
  <2>3. CASE i - Len(s) \in 1 .. Len(t) /\ u[i] = t[i - Len(s)]
    <3>1. j - Len(s) \in 1 .. Len(t) /\ u[j] = t[j - Len(s)]  BY <2>3, <1>3, <1>4, <1>5
    <3>2. i - Len(s) = j - Len(s)  BY <2>3, <3>1, <1>1, <1>5 DEF KeysOnce
    <3> QED  BY <3>2, <2>1, <1>1
  <2> QED  BY <1>3, <2>2, <2>3
<1> QED  BY <1>5 DEF KeysOnce, u

(* The elements of a flattened sequence, and how many there are. *)
PartsOf(seqs, n) == UNION {ToSet(seqs[i]) : i \in 1 .. n}
LEMMA FlatTyped ==
    ASSUME NEW S, NEW seqs \in Seq(Seq(S)), NEW i \in 1 .. Len(seqs)
    PROVE  Flats(seqs)[i] \in Seq(S) /\ ToSet(Flats(seqs)[i]) = PartsOf(seqs, i)
<1> DEFINE f == Flats(seqs)
           P(m) == f[m] \in Seq(S) /\ ToSet(f[m]) = PartsOf(seqs, m)
           B == {m \in 1 .. Len(seqs) : ~P(m)}
<1> SUFFICES ASSUME B # {} PROVE FALSE  OBVIOUS
<1>1. B \in SUBSET Nat /\ Len(seqs) \in Nat  OBVIOUS
<1>2. \A m : m \in B <=> m \in 1 .. Len(seqs) /\ ~P(m)  OBVIOUS
<1> HIDE DEF B
<1>3. PICK m \in B : \A j \in B : m <= j  BY <1>1, LeastNumber
<1>4. m \in 1 .. Len(seqs) /\ ~P(m)  BY <1>2, <1>3
<1>5. seqs[m] \in Seq(S)  BY <1>4
<1>6. CASE m = 1
  <2>1. f[m] = seqs[m]  BY <1>4, <1>6, FlattenStepwise
  <2>2. PartsOf(seqs, m) = ToSet(seqs[m])  BY <1>6 DEF PartsOf
  <2> QED  BY <1>4, <1>5, <2>1, <2>2
<1>7. CASE m # 1
  <2>1. m - 1 \in 1 .. Len(seqs) /\ m - 1 \notin B  BY <1>1, <1>3, <1>4, <1>7
  <2>2. P(m - 1)  BY <1>2, <2>1
  <2>3. f[m] = f[m - 1] \o seqs[m]  BY <1>4, <1>7, FlattenStepwise
  <2>4. f[m] \in Seq(S) /\ ToSet(f[m]) = ToSet(f[m - 1]) \cup ToSet(seqs[m])
    BY <1>5, <2>2, <2>3, JoinSeqs
  <2>5. PartsOf(seqs, m) = PartsOf(seqs, m - 1) \cup ToSet(seqs[m])
    <3>1. \A j : j \in 1 .. m <=> j \in 1 .. m - 1 \/ j = m  BY <1>4
    <3> QED  BY <3>1 DEF PartsOf
  <2> QED  BY <1>4, <2>2, <2>4, <2>5
<1> QED  BY <1>6, <1>7

LEMMA FlattenFacts ==
    ASSUME NEW S, NEW seqs \in Seq(Seq(S))
    PROVE  /\ FlattenSeq(seqs) \in Seq(S)
           /\ ToSet(FlattenSeq(seqs)) = PartsOf(seqs, Len(seqs))
<1>1. CASE Len(seqs) = 0
  <2>1. FlattenSeq(seqs) = <<>>  BY <1>1, FlattenStepwise
  <2>2. ToSet(<<>>) = {} /\ PartsOf(seqs, 0) = {}  BY DEF ToSet, PartsOf
  <2> QED  BY <1>1, <2>1, <2>2
<1>2. CASE Len(seqs) # 0
  <2>1. Len(seqs) \in 1 .. Len(seqs)  BY <1>2
  <2> QED  BY <1>2, <2>1, FlatTyped, FlattenStepwise
<1> QED  BY <1>1, <1>2

LEMMA FlattenLength ==
    ASSUME NEW S, NEW seqs \in Seq(Seq(S)), NEW c \in Nat,
           \A i \in 1 .. Len(seqs) : Len(seqs[i]) <= c
    PROVE  Len(FlattenSeq(seqs)) <= c * Len(seqs)
<1> DEFINE f == Flats(seqs)
           B == {m \in 1 .. Len(seqs) : ~(Len(f[m]) <= c * m)}
<1>1. B \in SUBSET Nat /\ Len(seqs) \in Nat  OBVIOUS
<1>2. \A m : m \in B <=> m \in 1 .. Len(seqs) /\ ~(Len(f[m]) <= c * m)  OBVIOUS
<1>3. ASSUME B # {} PROVE FALSE
  <2> HIDE DEF B
  <2>1. PICK m \in B : \A j \in B : m <= j  BY <1>1, <1>3, LeastNumber
  <2>2. m \in 1 .. Len(seqs) /\ ~(Len(f[m]) <= c * m)  BY <1>2, <2>1
  <2>3. seqs[m] \in Seq(S) /\ Len(seqs[m]) <= c /\ Len(seqs[m]) \in Nat  BY <2>2
  <2>4. m # 1
    <3>1. c * 1 = c  OBVIOUS
    <3> QED  BY <2>2, <2>3, <3>1, FlattenStepwise
  <2>5. m - 1 \in 1 .. Len(seqs) /\ m - 1 \notin B  BY <1>1, <2>1, <2>2, <2>4
  <2>6. Len(f[m - 1]) <= c * (m - 1) /\ f[m - 1] \in Seq(S)  BY <1>2, <2>5, FlatTyped
  <2>7. f[m] = f[m - 1] \o seqs[m]  BY <2>2, <2>4, FlattenStepwise
  <2>8. Len(f[m]) = Len(f[m - 1]) + Len(seqs[m])
    <3> HIDE DEF f
    <3> QED  BY <2>3, <2>6, <2>7, JoinSeqs
  <2>9. c * (m - 1) + c = c * m /\ c * (m - 1) \in Int /\ c * m \in Int
    <3>1. m \in Int  BY <2>2
    <3> QED  BY <3>1
  <2>10. Len(f[m - 1]) \in Nat  BY <2>6
  <2> DEFINE p == c * (m - 1)
             q == c * m
  <2>11. Len(f[m - 1]) <= p /\ p + c = q /\ p \in Int /\ q \in Int /\ ~(Len(f[m]) <= q)
    BY <2>2, <2>6, <2>9
  <2>12. \A x, y, z \in Nat : x <= p /\ y <= c /\ z = x + y => z <= q
    <3> HIDE DEF p, q
    <3> QED  BY <2>11
  <2>13. Len(f[m]) \in Nat
    <3>1. f[m] \in Seq(S)  BY <2>2, FlatTyped
    <3> QED  BY <3>1
  <2> HIDE DEF f, p, q
  <2> QED  BY <2>3, <2>8, <2>10, <2>11, <2>12, <2>13
<1>4. CASE Len(seqs) = 0
  <2>1. c * 0 = 0 /\ Len(<<>>) = 0  OBVIOUS
  <2>2. FlattenSeq(seqs) = <<>> /\ c * Len(seqs) = 0  BY <1>4, <2>1, FlattenStepwise
  <2> QED  BY <2>1, <2>2
<1>5. CASE Len(seqs) # 0
  <2>1. Len(seqs) \in 1 .. Len(seqs)  BY <1>1, <1>5
  <2>2. Len(f[Len(seqs)]) <= c * Len(seqs)  BY <1>2, <1>3, <2>1
  <2> QED  BY <1>5, <2>2, FlattenStepwise
<1> QED  BY <1>4, <1>5

(* Sequences without a key twice and without a common key are flattened to    *)
(* one that has no key twice.                                                 *)
KeysApart(seqs, k) ==
    /\ \A i \in DOMAIN seqs : KeysOnce(seqs[i], k)
    /\ \A i, j \in DOMAIN seqs : i # j => \A x \in ToSet(seqs[i]), y \in ToSet(seqs[j]) : k[x] # k[y]
LEMMA FlattenKeys ==
    ASSUME NEW S, NEW seqs \in Seq(Seq(S)), NEW k, KeysApart(seqs, k)
    PROVE  KeysOnce(FlattenSeq(seqs), k)
<1> DEFINE f == Flats(seqs)
           B == {m \in 1 .. Len(seqs) : ~KeysOnce(f[m], k)}
<1>1. B \in SUBSET Nat /\ Len(seqs) \in Nat /\ DOMAIN seqs = 1 .. Len(seqs)  OBVIOUS
<1>2. \A m : m \in B <=> m \in 1 .. Len(seqs) /\ ~KeysOnce(f[m], k)  OBVIOUS
<1>3. ASSUME B # {} PROVE FALSE
  <2> HIDE DEF B
  <2>1. PICK m \in B : \A j \in B : m <= j  BY <1>1, <1>3, LeastNumber
  <2>2. m \in 1 .. Len(seqs) /\ ~KeysOnce(f[m], k)  BY <1>2, <2>1
  <2>3. seqs[m] \in Seq(S) /\ KeysOnce(seqs[m], k)  BY <1>1, <2>2 DEF KeysApart
  <2>4. m # 1  BY <2>2, <2>3, FlattenStepwise
  <2>5. m - 1 \in 1 .. Len(seqs) /\ m - 1 \notin B  BY <1>1, <2>1, <2>2, <2>4
  <2>6. KeysOnce(f[m - 1], k)  BY <1>2, <2>5
  <2>7. f[m] = f[m - 1] \o seqs[m]  BY <2>2, <2>4, FlattenStepwise
  <2>8. f[m - 1] \in Seq(S) /\ ToSet(f[m - 1]) = PartsOf(seqs, m - 1)
    BY <2>5, FlatTyped
  <2>9. ASSUME NEW x \in ToSet(f[m - 1]), NEW y \in ToSet(seqs[m]) PROVE k[x] # k[y]
    <3>1. PICK j \in 1 .. m - 1 : x \in ToSet(seqs[j])  BY <2>8 DEF PartsOf
    <3>2. j # m /\ j \in DOMAIN seqs /\ m \in DOMAIN seqs  BY <1>1, <2>2, <3>1
    <3> QED  BY <3>1, <3>2 DEF KeysApart
  <2>10. KeysOnce(f[m], k)
    <3> HIDE DEF f
    <3> QED  BY <2>3, <2>6, <2>7, <2>8, <2>9, JoinKeys
  <2> QED  BY <2>2, <2>10
<1>4. CASE Len(seqs) = 0
  <2>1. FlattenSeq(seqs) = <<>>  BY <1>4, FlattenStepwise
  <2> QED  BY <2>1 DEF KeysOnce
<1>5. CASE Len(seqs) # 0
  <2>1. Len(seqs) \in 1 .. Len(seqs)  BY <1>1, <1>5
  <2>2. KeysOnce(f[Len(seqs)], k)  BY <1>2, <1>3, <2>1
  <2> QED  BY <1>5, <2>2, FlattenStepwise
<1> QED  BY <1>4, <1>5
=============================================================================

-------------------------- MODULE AlgorithmsProofs --------------------------
(* Proofs about three of the machines that MCParts checks side by side: a    *)
(* compile, for any classes, sizes and limits, and whatever the container    *)
(* does; a lookup, for any classes, packages and questions; and the scan of  *)
(* a snippet, of any length. They have nothing to do with each other.       *)
EXTENDS Compiler, Lookup, Detect, TLAPS, FiniteSetTheorems, WellFoundedInduction

LEMMA LeastIsIn ==
  ASSUME NEW T \in SUBSET Nat, T # {}
  PROVE  Min(T) \in T /\ \A y \in T : Min(T) <= y
<1>1. PICK x \in T : \A y \in T : <<y, x>> \notin OpToRel(<, Nat)
  BY NatLessThanWellFounded, WFMin, Zenon
<1>2. \A y \in T : ~(y < x)
  BY <1>1 DEF OpToRel
<1>3. \A y \in T : x <= y
  BY <1>2
<1> QED
  BY <1>3 DEF Min

-----------------------------------------------------------------------------
(* Compiler.                                                                *)
CompileTypeOK ==
  /\ stage \in {"idle", "run", "ran", "collect", "done"}
  /\ disk \in [Classes -> {"absent", "cut", "whole"}]
  /\ container \in {"none", "running", "ended"}
  /\ todo \subseteq Classes /\ kept \subseteq Classes

(* Before the container there is nothing, and after it nothing more comes,   *)
(* unless Compile did not wait for it; in that case it is late, and does not *)
(* look.                                                                     *)
ContainerFits ==
  /\ container = "none" => Written = {}
  /\ stage = "ran" /\ ~late => container # "running"
  /\ stage = "collect" => container # "running"

Fit(classes) == Cardinality(classes) <= MaxOutputs /\ Total(classes) <= MaxBytes

Left == Written \ kept

(* What the walk has kept comes before what is left, and what is left is     *)
(* still to come, or begins with a class that does not fit.                  *)
WalkFits ==
  /\ stage \in {"run", "ran"} => kept = {}
  /\ stage = "collect" =>
       /\ kept \subseteq Written /\ todo \subseteq Left
       /\ kept # {} => Fit(kept)
       /\ \A c \in kept, d \in Left : ComesFirst(c, d)
       /\ \/ todo = Left
          \/ /\ todo = {}
             /\ \E c \in Left : ~Fits(c) /\ \A d \in Left : ComesFirst(c, d)

CompileInv == CompileTypeOK /\ ContainerFits /\ WalkFits /\ ResultIsWhatWasWritten

-----------------------------------------------------------------------------
(* Classes are finite, and the walk comes by them in one order.              *)
LEMMA ClassesAreFinite == IsFiniteSet(Classes)
<1>1. InWalkOrder \in Surjection(DOMAIN InWalkOrder, Classes)
  BY CompilerAssumption DEF CompilerAssumption, ToSet, Surjection
<1>2. DOMAIN InWalkOrder = 1 .. Len(InWalkOrder) /\ Len(InWalkOrder) \in Nat
  BY CompilerAssumption DEF CompilerAssumption
<1>3. IsFiniteSet(DOMAIN InWalkOrder)
  BY <1>2, FS_Interval
<1> QED
  BY <1>1, <1>3, FS_Surjection

LEMMA OneComesFirst ==
  ASSUME NEW c, NEW d, ComesFirst(c, d), ComesFirst(d, c)
  PROVE  c = d
<1>1. PICK i \in DOMAIN InWalkOrder, j \in DOMAIN InWalkOrder :
        i <= j /\ InWalkOrder[i] = c /\ InWalkOrder[j] = d
  BY DEF ComesFirst
<1>2. PICK k \in DOMAIN InWalkOrder, l \in DOMAIN InWalkOrder :
        k <= l /\ InWalkOrder[k] = d /\ InWalkOrder[l] = c
  BY DEF ComesFirst
<1>3. i = l /\ j = k
  BY <1>1, <1>2, CompilerAssumption DEF CompilerAssumption
<1>4. DOMAIN InWalkOrder \subseteq Int
  BY CompilerAssumption DEF CompilerAssumption
<1> QED
  BY <1>1, <1>2, <1>3, <1>4

LEMMA KeepingCounts ==
  ASSUME NEW classes \in SUBSET Classes, NEW c \in Classes \ classes
  PROVE  /\ Cardinality(classes) \in Nat
         /\ Cardinality(classes \union {c}) = Cardinality(classes) + 1
<1>1. IsFiniteSet(classes)
  BY ClassesAreFinite, FS_Subset
<1> QED
  BY <1>1, FS_CardinalityType, FS_AddElement

-----------------------------------------------------------------------------
LEMMA CompileInitHolds == CompileInit => CompileInv
BY DEF CompileInit, CompileInv, CompileTypeOK, ContainerFits, WalkFits, Written,
       ResultIsWhatWasWritten

LEMMA NextKeepsContainer ==
  ASSUME CompileTypeOK, ContainerFits, CompileNext
  PROVE  CompileTypeOK' /\ ContainerFits'
<1> USE DEF CompileTypeOK, ContainerFits, Written, Answer, Failure
<1>1. CASE Prepare
  BY <1>1 DEF Prepare
<1>2. CASE Launch
  BY <1>2 DEF Launch
<1>3. CASE RunReturns
  BY <1>3 DEF RunReturns
<1>4. CASE AfterRun
  BY <1>4 DEF AfterRun
<1>5. CASE Visit
  BY <1>5 DEF Visit
<1>6. CASE Conclude
  BY <1>6 DEF Conclude
<1>7. CASE Return
  BY <1>7 DEF Return
<1>8. CASE Deadline
  BY <1>8 DEF Deadline
<1>9. CASE Emit
  BY <1>9 DEF Emit
<1> QED
  BY <1>1, <1>2, <1>3, <1>4, <1>5, <1>6, <1>7, <1>8, <1>9 DEF CompileNext, CompileStep

LEMMA VisitKeepsWalk ==
  ASSUME CompileTypeOK, WalkFits, Visit
  PROVE  WalkFits'
<1>1. PICK c \in todo :
        /\ \A d \in todo : ComesFirst(c, d)
        /\ \/ /\ Fits(c)
              /\ kept' = kept \union {c} /\ todo' = todo \ {c}
              /\ UNCHANGED <<stage, answer>>
           \/ /\ ~Fits(c)
              /\ todo' = {} /\ UNCHANGED <<stage, kept, answer>>
           \/ Failure /\ UNCHANGED <<todo, kept>>
  BY DEF Visit
<1>2. stage = "collect" /\ disk' = disk
  BY DEF Visit
<1>3. Written' = Written /\ todo = Left /\ kept \subseteq Written
  BY <1>2, <1>1 DEF WalkFits, Written
<1>4. CASE Failure
  BY <1>4, <1>2, <1>1 DEF Failure, Answer, WalkFits
<1>5. ASSUME ~Fits(c), todo' = {}, UNCHANGED <<stage, kept>>
      PROVE  WalkFits'
  <2>1. Left' = Left /\ ~Fits(c)'
    BY <1>5, <1>3, <1>2 DEF Left, Fits, Total
  <2>2. (kept # {} => Fit(kept))'
    BY <1>5, <1>2 DEF WalkFits, Fit, Total
  <2> QED
    BY <2>1, <2>2, <1>1, <1>2, <1>3, <1>5 DEF WalkFits
<1>6. ASSUME Fits(c), kept' = kept \union {c}, todo' = todo \ {c}, UNCHANGED stage
      PROVE  WalkFits'
  <2>1. Left' = Left \ {c} /\ c \in Left /\ c \notin kept
    BY <1>6, <1>3 DEF Left
  <2>2. Cardinality(kept') <= MaxOutputs
    <3>1. kept \in SUBSET Classes /\ c \in Classes \ kept
      BY <2>1 DEF CompileTypeOK, Left, Written
    <3>2. Cardinality(kept) \in Nat /\ Cardinality(kept') = Cardinality(kept) + 1
      BY <3>1, <1>6, KeepingCounts
    <3> QED
      BY <3>2, <1>6, CompilerAssumption DEF Fits, CompilerAssumption
  <2>3. Fit(kept)'
    BY <2>2, <1>6, <1>2 DEF Fit, Fits, Total
  <2>4. \A b \in kept', d \in Left' : ComesFirst(b, d)
    BY <2>1, <1>1, <1>2, <1>3, <1>6 DEF WalkFits
  <2>5. kept' \subseteq Written' /\ todo' = Left'
    BY <2>1, <1>3, <1>6 DEF Left
  <2> QED
    BY <2>3, <2>4, <2>5, <1>2, <1>6 DEF WalkFits
<1> QED
  BY <1>1, <1>4, <1>5, <1>6

LEMMA NextKeepsWalk ==
  ASSUME CompileTypeOK, ContainerFits, WalkFits, CompileNext
  PROVE  WalkFits'
<1> USE DEF Answer, Failure
<1>1. CASE Prepare
  BY <1>1 DEF Prepare, WalkFits
<1>2. CASE Launch
  BY <1>2 DEF Launch, WalkFits
<1>3. CASE RunReturns
  BY <1>3 DEF RunReturns, WalkFits
<1>4. CASE AfterRun
  <2>1. CASE late
    BY <2>1, <1>4 DEF AfterRun, WalkFits
  <2>2. CASE ~late
    BY <2>2, <1>4 DEF AfterRun, WalkFits, Left, Written
  <2> QED
    BY <2>1, <2>2
<1>5. CASE Visit
  BY <1>5, VisitKeepsWalk
<1>6. CASE Conclude
  BY <1>6 DEF Conclude, WalkFits
<1>7. CASE Return
  BY <1>7 DEF Return, WalkFits
<1>8. CASE Deadline
  BY <1>8 DEF Deadline, WalkFits, Fit, Fits, Total, Left, Written
<1>9. CASE Emit
  BY <1>9 DEF Emit, ContainerFits, WalkFits, CompileTypeOK
<1> QED
  BY <1>1, <1>2, <1>3, <1>4, <1>5, <1>6, <1>7, <1>8, <1>9 DEF CompileNext, CompileStep

-----------------------------------------------------------------------------
(* The answer. Only Conclude makes a result, and only where the container    *)
(* has ended and the walk with it.                                           *)
LEMMA WalkEnds ==
  ASSUME CompileTypeOK, ContainerFits, WalkFits, stage = "collect", todo = {}, kept # {}
  PROVE  /\ container = "ended"
         /\ kept \subseteq Written /\ Fit(kept)
         /\ \A c \in kept, d \in Left : ComesFirst(c, d)
         /\ \A c \in Left : (\A d \in Left : ComesFirst(c, d)) => ~Fit(kept \union {c})
<1>1. container = "ended" /\ kept \subseteq Written /\ Fit(kept)
  BY DEF CompileTypeOK, ContainerFits, WalkFits
<1>2. \A c \in kept, d \in Left : ComesFirst(c, d)
  BY DEF WalkFits
<1>3. ASSUME NEW c \in Left, \A d \in Left : ComesFirst(c, d)
      PROVE  ~Fit(kept \union {c})
  <2>1. PICK b \in Left : ~Fits(b) /\ \A d \in Left : ComesFirst(b, d)
    BY <1>3 DEF WalkFits
  <2>2. b = c
    BY <2>1, <1>3, OneComesFirst
  <2>3. Cardinality(kept) \in Nat /\ Cardinality(kept \union {c}) = Cardinality(kept) + 1
    BY KeepingCounts DEF CompileTypeOK, Left, Written
  <2> QED
    BY <2>1, <2>2, <2>3, CompilerAssumption DEF Fits, Fit, CompilerAssumption
<1> QED
  BY <1>1, <1>2, <1>3

LEMMA NextKeepsResult ==
  ASSUME CompileInv, CompileNext
  PROVE  ResultIsWhatWasWritten'
<1> USE DEF Answer, Failure
<1>1. CASE Prepare
  BY <1>1 DEF Prepare, ResultIsWhatWasWritten
<1>2. CASE Launch
  BY <1>2 DEF Launch, ResultIsWhatWasWritten
<1>3. CASE RunReturns
  BY <1>3 DEF RunReturns, ResultIsWhatWasWritten
<1>4. CASE AfterRun
  BY <1>4 DEF AfterRun, ResultIsWhatWasWritten
<1>5. CASE Visit
  BY <1>5 DEF Visit, ResultIsWhatWasWritten
<1>6. CASE Conclude
  <2>1. CASE kept = {}
    BY <2>1, <1>6 DEF Conclude, ResultIsWhatWasWritten
  <2>2. CASE kept # {}
    <3>1. /\ stage = "collect" /\ todo = {} /\ UNCHANGED <<disk, container, kept>>
          /\ answer' = [kind |-> "result", artifacts |-> ByPath(kept)]
      BY <2>2, <1>6 DEF Conclude
    <3>2. /\ container = "ended"
          /\ kept \subseteq Written /\ Fit(kept)
          /\ \A c \in kept, d \in Left : ComesFirst(c, d)
          /\ \A c \in Left : (\A d \in Left : ComesFirst(c, d)) => ~Fit(kept \union {c})
      BY <3>1, <2>2, WalkEnds DEF CompileInv
    <3>3. Written' = Written /\ answer'.artifacts = ByPath(kept)
      BY <3>1 DEF Written
    <3>4. \A classes : Total(classes)' = Total(classes)
      BY <3>1 DEF Total
    <3> QED
      BY <3>1, <3>2, <3>3, <3>4, <2>2 DEF ResultIsWhatWasWritten, Fit, Left
  <2> QED
    BY <2>1, <2>2
<1>7. CASE Return
  BY <1>7 DEF Return, CompileInv, ResultIsWhatWasWritten, Total, Written
<1>8. CASE Deadline
  BY <1>8 DEF Deadline, ResultIsWhatWasWritten
<1>9. CASE Emit
  BY <1>9 DEF Emit, CompileInv, ResultIsWhatWasWritten
<1> QED
  BY <1>1, <1>2, <1>3, <1>4, <1>5, <1>6, <1>7, <1>8, <1>9 DEF CompileNext, CompileStep

-----------------------------------------------------------------------------
LEMMA NextKeepsCompileInv ==
  ASSUME CompileInv, [CompileNext]_compileVars
  PROVE  CompileInv'
<1>1. CASE CompileNext
  BY <1>1, NextKeepsContainer, NextKeepsWalk, NextKeepsResult DEF CompileInv
<1>2. CASE UNCHANGED compileVars
  BY <1>2
  DEF compileVars, CompileInv, CompileTypeOK, ContainerFits, WalkFits, ResultIsWhatWasWritten,
      Written, Left, Fit, Fits, Total
<1> QED
  BY <1>1, <1>2

(* Whatever the container does, and whenever the deadline comes, the         *)
(* invariant holds in every state of Compile.                                *)
THEOREM CompileInvariant == CompileInit /\ [][CompileNext]_compileVars => []CompileInv
<1> QED
  BY CompileInitHolds, NextKeepsCompileInv, PTL

(* A result is never read while the compiler still writes, and it is as much *)
(* of what was written as the limits allow (compile.go:153-171, 229-263).    *)
THEOREM ResultsAreWhatWasWritten ==
  CompileInit /\ [][CompileNext]_compileVars => []ResultIsWhatWasWritten
<1>1. CompileInv => ResultIsWhatWasWritten
  BY DEF CompileInv
<1> QED
  BY <1>1, CompileInvariant, PTL

-----------------------------------------------------------------------------
(* Lookup. A suffix is the end, character by character.                     *)
LEMMA SuffixIsTheEnd ==
  ASSUME NEW S, NEW s \in Seq(S), NEW t \in Seq(S)
  PROVE  IsSuffix(s, t) <=>
           Len(s) <= Len(t) /\ \A i \in 1..Len(s) : s[i] = t[Len(t) - Len(s) + i]
<1> DEFINE m == Len(s)
           n == Len(t)
           rs == Reverse(s)
           rt == Reverse(t)
<1>1. m \in Nat /\ n \in Nat
  OBVIOUS
<1>2. rs \in Seq(S) /\ Len(rs) = m /\ \A i \in 1..m : rs[i] = s[(m - i) + 1]
  BY DEF Reverse
<1>3. rt \in Seq(S) /\ Len(rt) = n /\ \A i \in 1..n : rt[i] = t[(n - i) + 1]
  BY DEF Reverse
<1>4. IsSuffix(s, t) <=> m <= n /\ SubSeq(rs, 1, m) = SubSeq(rt, 1, m)
  BY <1>2, <1>3 DEF IsSuffix, IsPrefix
<1> HIDE DEF rs, rt
<1>5. ASSUME m <= n
      PROVE  SubSeq(rs, 1, m) = SubSeq(rt, 1, m) <=> \A i \in 1..m : rs[i] = rt[i]
  <2>1. SubSeq(rs, 1, m) = [i \in 1..m |-> rs[i]]
    BY <1>1, <1>2
  <2>2. SubSeq(rt, 1, m) = [i \in 1..m |-> rt[i]]
    BY <1>1, <1>3, <1>5
  <2> QED
    BY <2>1, <2>2
<1> HIDE DEF m, n
<1>6. ASSUME m <= n, \A i \in 1..m : rs[i] = rt[i], NEW i \in 1..m
      PROVE  s[i] = t[n - m + i]
  <2>1. (m - i) + 1 \in 1..m /\ (m - i) + 1 \in 1..n
    BY <1>1, <1>6
  <2>2. rs[(m - i) + 1] = s[i]
    <3>1. (m - ((m - i) + 1)) + 1 = i
      BY <1>1
    <3> QED
      BY <1>2, <2>1, <3>1
  <2>3. rt[(m - i) + 1] = t[n - m + i]
    <3>1. (n - ((m - i) + 1)) + 1 = n - m + i
      BY <1>1
    <3> QED
      BY <1>3, <2>1, <3>1
  <2> QED
    BY <1>6, <2>1, <2>2, <2>3
<1>7. ASSUME m <= n, \A i \in 1..m : s[i] = t[n - m + i], NEW i \in 1..m
      PROVE  rs[i] = rt[i]
  <2>1. (m - i) + 1 \in 1..m /\ i \in 1..n
    BY <1>1, <1>7
  <2>2. n - m + ((m - i) + 1) = (n - i) + 1
    BY <1>1
  <2>3. s[(m - i) + 1] = t[n - m + ((m - i) + 1)]
    BY <1>7, <2>1
  <2>4. s[(m - i) + 1] = t[(n - i) + 1]
    BY <2>2, <2>3
  <2> QED
    BY <1>2, <1>3, <1>7, <2>1, <2>4
<1>8. m <= n => ((\A i \in 1..m : rs[i] = rt[i]) <=> (\A i \in 1..m : s[i] = t[n - m + i]))
  BY <1>6, <1>7
<1> QED
  BY <1>4, <1>5, <1>8 DEF m, n

-----------------------------------------------------------------------------
(* rank is a number: the sum in it never falls below zero, since a preferred *)
(* package is at most as long as the class's own.                            *)
LEMMA PreferredAreShort ==
  ASSUME NEW i \in DOMAIN preferredPackages
  PROVE  /\ i \in 1..12
         /\ Len(preferredPackages[i]) \in 2..3
<1>1. i \in 1..12
  BY DEF preferredPackages
<1> QED
  BY <1>1 DEF preferredPackages

LEMMA RankIsNumber ==
  ASSUME NEW c \in Names
  PROVE  rank(c) \in Nat
<1> DEFINE package == SubSeq(c.parts, 1, c.packages)
           in == {i \in DOMAIN preferredPackages : IsPrefix(preferredPackages[i], package)}
           Longest(i) == i \in in /\ \A j \in in : Len(preferredPackages[j]) <= Len(preferredPackages[i])
           longest == CHOOSE i \in in :
             \A j \in in : Len(preferredPackages[j]) <= Len(preferredPackages[i])
<1>1. c.packages \in Nat /\ c.packages < Len(c.parts) /\ c.parts \in Seq(DOMAIN Lower)
  BY LookupAssumption
<1>2. Len(package) = c.packages
  BY <1>1
<1>3. \A i \in in : Len(preferredPackages[i]) \in 2..3 /\ i \in 1..12
  BY PreferredAreShort
<1>4. \A i \in in : Len(preferredPackages[i]) <= c.packages
  BY <1>2 DEF IsPrefix
<1>5. Len(preferredPackages) = 12
  BY DEF preferredPackages
<1>6. CASE in = {}
  BY <1>1, <1>5, <1>6 DEF rank
<1>7. CASE in # {}
  <2>1. \E i \in in : \A j \in in : Len(preferredPackages[j]) <= Len(preferredPackages[i])
    <3>1. CASE \E i \in in : Len(preferredPackages[i]) = 3
      BY <1>3, <3>1
    <3>2. CASE ~\E i \in in : Len(preferredPackages[i]) = 3
      BY <1>3, <1>7, <3>2
    <3> QED
      BY <3>1, <3>2
  <2>2. longest \in in
    BY <2>1
  <2>3. rank(c) = (longest - 1) * 10 + c.packages - Len(preferredPackages[longest])
    BY <1>7 DEF rank
  <2>4. longest \in 1..12
    BY <1>3, <2>2
  <2>5. Len(preferredPackages[longest]) \in 2..3 /\ Len(preferredPackages[longest]) <= c.packages
    BY <1>3, <1>4, <2>2
  <2> HIDE DEF longest, in
  <2> DEFINE l == Len(preferredPackages[longest])
             k == c.packages
  <2>6. longest \in 1..12 /\ l \in 2..3 /\ l <= k /\ k \in Nat /\ rank(c) = (longest - 1) * 10 + k - l
    BY <1>1, <2>3, <2>4, <2>5
  <2> HIDE DEF l, k
  <2> QED
    BY <2>6
<1> QED
  BY <1>6, <1>7

-----------------------------------------------------------------------------
(* pick's loop. Of the first i matches it has kept the best.                *)
BestOf(list, i) ==
  {c \in {list[j] : j \in 1..i} : \A k \in 1..i : rank(c) <= rank(list[k])}

LEMMA BestIsThere ==
  ASSUME NEW list \in Seq(Names), NEW i \in 1..Len(list)
  PROVE  BestOf(list, i) # {}
<1> DEFINE T == {rank(list[j]) : j \in 1..i}
<1>1. \A j \in 1..i : list[j] \in Names
  OBVIOUS
<1>2. T \in SUBSET Nat /\ rank(list[1]) \in T
  BY <1>1, RankIsNumber
<1>3. Min(T) \in T /\ \A y \in T : Min(T) <= y
  BY <1>2, LeastIsIn
<1>4. PICK j \in 1..i : Min(T) = rank(list[j])
  BY <1>3
<1>5. list[j] \in BestOf(list, i)
  BY <1>3, <1>4 DEF BestOf
<1> QED
  BY <1>5

LEMMA BestOfNext ==
  ASSUME NEW list \in Seq(Names), NEW i \in 1..Len(list)
  PROVE  Better(BestOf(list, i - 1), list[i]) = BestOf(list, i)
<1> DEFINE c == list[i]
           best == BestOf(list, i - 1)
           b == CHOOSE x \in best : TRUE
<1>1. \A j \in 1..i : list[j] \in Names /\ rank(list[j]) \in Nat
  BY RankIsNumber
<1>2. 1..i = (1..(i - 1)) \union {i}
  OBVIOUS
<1>3. CASE i = 1
  <2>1. best = {}
    BY <1>3 DEF BestOf
  <2>2. BestOf(list, 1) = {list[1]}
    BY <1>1, <1>3 DEF BestOf
  <2> QED
    BY <1>3, <2>1, <2>2 DEF Better
<1>4. CASE i # 1
  <2>1. i - 1 \in 1..Len(list)
    BY <1>4
  <2>2. b \in best
    BY <2>1, BestIsThere
  <2> HIDE DEF b
  <2>3. ASSUME NEW x
        PROVE  x \in best <=> /\ \E j \in 1..(i - 1) : x = list[j]
                              /\ \A k \in 1..(i - 1) : rank(x) <= rank(list[k])
    BY DEF BestOf
  <2>4. \A x : (\E j \in 1..(i - 1) : x = list[j]) => rank(x) \in Nat
    BY <1>1
  <2>5. rank(c) \in Nat /\ \A k \in 1..(i - 1) : rank(list[k]) \in Nat
    BY <1>1
  <2> HIDE DEF best
  <2>6. /\ best # {} /\ rank(b) \in Nat
        /\ \A k \in 1..(i - 1) : rank(b) <= rank(list[k])
        /\ \E j \in 1..(i - 1) : b = list[j]
    BY <2>2, <2>3, <2>4
  <2>7. \A x \in best : rank(x) = rank(b)
    BY <2>3, <2>4, <2>6
  <2>8. Better(best, c) = IF rank(c) < rank(b) THEN {c}
                          ELSE IF rank(c) = rank(b) THEN best \union {c} ELSE best
    BY <2>6 DEF Better, b
  <2>9. ASSUME NEW x
        PROVE  x \in BestOf(list, i) <=>
                 /\ x = c \/ \E j \in 1..(i - 1) : x = list[j]
                 /\ rank(x) <= rank(c)
                 /\ \A k \in 1..(i - 1) : rank(x) <= rank(list[k])
    BY <1>2 DEF BestOf
  <2> HIDE DEF c
  <2>10. CASE rank(c) < rank(b)
    <3>1. ASSUME NEW x PROVE x \in BestOf(list, i) <=> x = c
      <4>1. ASSUME x \in BestOf(list, i), x # c PROVE FALSE
        <5>1. rank(x) \in Nat /\ rank(b) <= rank(x)
          BY <2>4, <2>6, <2>9, <4>1
        <5>2. rank(x) <= rank(c)
          BY <2>9, <4>1
        <5> QED
          BY <2>5, <2>6, <2>10, <5>1, <5>2
      <4>2. \A k \in 1..(i - 1) : rank(c) <= rank(list[k])
        BY <2>5, <2>6, <2>10
      <4>3. c \in BestOf(list, i)
        <5>1. rank(c) <= rank(c)
          BY <2>5
        <5> QED
          BY <1>1, <1>2, <4>2, <5>1 DEF BestOf, c
      <4> QED
        BY <4>1, <4>3
    <3>2. BestOf(list, i) = {c}
      BY <3>1
    <3> QED
      BY <2>8, <2>10, <3>2 DEF best, c
  <2>11. CASE rank(c) = rank(b)
    <3>1. ASSUME NEW x PROVE x \in BestOf(list, i) <=> x \in best \/ x = c
      <4>1. ASSUME x \in BestOf(list, i) PROVE x \in best \/ x = c
        BY <2>3, <2>9, <4>1
      <4>2. ASSUME x \in best PROVE x \in BestOf(list, i)
        <5>1. rank(x) <= rank(c)
          BY <2>5, <2>6, <2>7, <2>11, <4>2
        <5> QED
          BY <2>3, <2>9, <4>2, <5>1
      <4>3. c \in BestOf(list, i)
        <5>1. rank(c) <= rank(c) /\ \A k \in 1..(i - 1) : rank(c) <= rank(list[k])
          BY <2>5, <2>6, <2>11
        <5> QED
          BY <1>1, <1>2, <5>1 DEF BestOf, c
      <4> QED
        BY <4>1, <4>2, <4>3
    <3>2. BestOf(list, i) = best \union {c}
      BY <3>1
    <3> QED
      BY <2>5, <2>8, <2>11, <3>2 DEF best, c
  <2>12. CASE rank(b) < rank(c)
    <3>1. ASSUME NEW x PROVE x \in BestOf(list, i) <=> x \in best
      <4>1. ASSUME x \in BestOf(list, i) PROVE x \in best
        <5>1. PICK k \in 1..(i - 1) : b = list[k]
          BY <2>6
        <5>2. rank(x) <= rank(b)
          BY <2>9, <4>1, <5>1
        <5>3. x # c
          BY <2>5, <2>6, <2>12, <5>2
        <5> QED
          BY <2>3, <2>9, <4>1, <5>3
      <4>2. ASSUME x \in best PROVE x \in BestOf(list, i)
        <5>1. rank(x) <= rank(c)
          BY <2>5, <2>6, <2>7, <2>12, <4>2
        <5> QED
          BY <2>3, <2>9, <4>2, <5>1
      <4> QED
        BY <4>1, <4>2
    <3>2. BestOf(list, i) = best
      BY <3>1
    <3> QED
      BY <2>5, <2>6, <2>8, <2>12, <3>2 DEF best, c
  <2> QED
    BY <2>5, <2>6, <2>10, <2>11, <2>12
<1> QED
  BY <1>3, <1>4

LEMMA WinnersAreBest ==
  ASSUME NEW list \in Seq(Names)
  PROVE  Winners(list) = BestOf(list, Len(list))
<1> DEFINE n == Len(list)
           F(f) == [i \in 0..n |-> IF i = 0 THEN {} ELSE Better(f[i - 1], list[i])]
           g == [i \in 0..n |-> BestOf(list, i)]
           best == CHOOSE f : f = F(f)
<1>1. n \in Nat
  OBVIOUS
<1>2. g = F(g)
  <2>1. BestOf(list, 0) = {}
    BY DEF BestOf
  <2>2. ASSUME NEW i \in 0..n
        PROVE  g[i] = F(g)[i]
    <3>1. CASE i = 0
      BY <2>1, <3>1
    <3>2. CASE i # 0
      <4>1. i \in 1..n /\ i - 1 \in 0..n
        BY <3>2
      <4>2. g[i - 1] = BestOf(list, i - 1)
        BY <4>1
      <4> QED
        BY <3>2, <4>1, <4>2, BestOfNext
    <3> QED
      BY <3>1, <3>2
  <2> QED
    BY <2>2
<1>3. best = F(best)
  BY <1>2
<1>4. Winners(list) = best[n]
  BY DEF Winners
<1> HIDE DEF best
<1>5. \A i \in 0..n : best[i] = g[i]
  <2> DEFINE Wrong == {i \in 0..n : best[i] # g[i]}
  <2> SUFFICES ASSUME Wrong # {} PROVE FALSE
    OBVIOUS
  <2>1. Min(Wrong) \in Wrong /\ \A i \in Wrong : Min(Wrong) <= i
    BY LeastIsIn
  <2>2. PICK i \in 0..n : best[i] # g[i] /\ \A j \in Wrong : i <= j
    BY <2>1
  <2>3. i # 0
    BY <1>2, <1>3, <2>2
  <2>4. i - 1 \in 0..n /\ ~(i <= i - 1)
    BY <2>2, <2>3
  <2>5. best[i - 1] = g[i - 1]
    BY <2>2, <2>4
  <2>6. best[i] = F(best)[i] /\ g[i] = F(g)[i]
    BY <1>2, <1>3
  <2>7. best[i] = Better(best[i - 1], list[i]) /\ g[i] = Better(g[i - 1], list[i])
    BY <2>3, <2>6
  <2> QED
    BY <2>2, <2>5, <2>7
<1> QED
  BY <1>1, <1>4, <1>5

(* The matches in the order they are listed in: each of them once.           *)
LEMMA ListHasAll ==
  ASSUME NEW matches, matches \subseteq Names
  PROVE  /\ SetToSeq(matches) \in Seq(Names)
         /\ matches = {SetToSeq(matches)[j] : j \in 1..Len(SetToSeq(matches))}
<1> DEFINE n == Cardinality(matches)
           list == SetToSeq(matches)
<1>1. IsFiniteSet(matches)
  BY LookupAssumption, FS_Subset
<1>2. n \in Nat /\ ExistsBijection(1..n, matches)
  BY <1>1, FS_CardinalityType
<1>3. \E f \in [1..n -> matches] : IsInjective(f)
  BY <1>2 DEF ExistsBijection, Bijection, Injection
<1>4. list \in [1..n -> matches] /\ IsInjective(list)
  BY <1>3 DEF SetToSeq
<1> HIDE DEF list
<1>5. list \in Injection(1..n, matches)
  BY <1>4 DEF Injection
<1>6. Cardinality(1..n) = n
  BY <1>2, FS_Interval
<1> HIDE DEF n
<1>7. list \in Surjection(1..n, matches)
  BY <1>1, <1>5, <1>6, FS_Injection DEF n
<1>8. list \in Seq(Names) /\ Len(list) = n
  BY <1>2, <1>4
<1>9. matches = {list[j] : j \in 1..n}
  BY <1>4, <1>7 DEF Surjection
<1> QED
  BY <1>8, <1>9 DEF list

Best(matches) == {c \in matches : \A d \in matches : rank(c) <= rank(d)}

LEMMA PickIsBest ==
  ASSUME NEW matches, matches \subseteq Names, matches # {}
  PROVE  /\ Best(matches) # {} /\ IsFiniteSet(Best(matches))
         /\ pick(matches) = IF Cardinality(Best(matches)) = 1
              THEN [kind |-> "class", class |-> CHOOSE c \in Best(matches) : TRUE]
              ELSE [kind |-> "ambiguous", candidates |-> Best(matches)]
<1> DEFINE list == SetToSeq(matches)
<1>1. list \in Seq(Names) /\ matches = {list[j] : j \in 1..Len(list)}
  BY ListHasAll
<1>2. BestOf(list, Len(list)) = Best(matches)
  BY <1>1 DEF BestOf, Best
<1>3. Len(list) \in 1..Len(list)
  <2>1. Len(list) # 0 /\ Len(list) \in Nat
    BY <1>1
  <2> QED
    BY <2>1
<1>4. Winners(list) = Best(matches) /\ Best(matches) # {}
  BY <1>1, <1>2, <1>3, WinnersAreBest, BestIsThere
<1>5. IsFiniteSet(Best(matches))
  BY LookupAssumption, FS_Subset DEF Best
<1> HIDE DEF list
<1> QED
  BY <1>4, <1>5 DEF pick, list

-----------------------------------------------------------------------------
(* resolve. A tier says in one number what a reader would say in three.      *)
Same(c, want) == Folded(want) = Folded(c.parts)
Exact(c, want) == IsSuffix(want, c.parts)
Matches(c, want) == IsSuffix(Folded(want), Folded(c.parts))
Listed(c, want) == Lower[Last(c.parts)] = Lower[Last(want)]

LEMMA FoldedIsTyped ==
  ASSUME NEW s \in Seq(DOMAIN Lower)
  PROVE  /\ Folded(s) \in Seq({Lower[p] : p \in DOMAIN Lower})
         /\ Len(Folded(s)) = Len(s)
         /\ \A i \in 1..Len(s) : Folded(s)[i] = Lower[s[i]]
<1>1. /\ DOMAIN s = 1..Len(s) /\ Len(s) \in Nat
      /\ \A i \in 1..Len(s) : s[i] \in DOMAIN Lower
  OBVIOUS
<1>2. Folded(s) = [i \in 1..Len(s) |-> Lower[s[i]]]
  BY <1>1 DEF Folded
<1> QED
  BY <1>1, <1>2

LEMMA TierSaysIt ==
  ASSUME NEW c \in Names, NEW want \in Seq(DOMAIN Lower), want # <<>>
  PROVE  /\ Matches(c, want) => Listed(c, want)
         /\ Tier(c, want) = IF ~Matches(c, want) THEN 0
                            ELSE IF Same(c, want) THEN IF Exact(c, want) THEN 1 ELSE 2
                            ELSE IF Exact(c, want) THEN 3 ELSE 4
<1> DEFINE s == want
           t == c.parts
           L == {Lower[p] : p \in DOMAIN Lower}
<1>1. t \in Seq(DOMAIN Lower) /\ Len(t) \in Nat \ {0} /\ Len(s) \in Nat \ {0}
  BY LookupAssumption
<1>2. /\ Folded(s) \in Seq(L) /\ Len(Folded(s)) = Len(s)
      /\ Folded(t) \in Seq(L) /\ Len(Folded(t)) = Len(t)
      /\ \A i \in 1..Len(s) : Folded(s)[i] = Lower[s[i]]
      /\ \A i \in 1..Len(t) : Folded(t)[i] = Lower[t[i]]
  BY <1>1, FoldedIsTyped
<1> HIDE DEF t, L
<1>3. Exact(c, want) <=>
        Len(s) <= Len(t) /\ \A i \in 1..Len(s) : s[i] = t[Len(t) - Len(s) + i]
  BY <1>1, SuffixIsTheEnd DEF Exact, t
<1>4. Matches(c, want) <=>
        Len(s) <= Len(t) /\ \A i \in 1..Len(s) : Folded(s)[i] = Folded(t)[Len(t) - Len(s) + i]
  <2>1. Matches(c, want) <=> IsSuffix(Folded(s), Folded(t))
    BY DEF Matches, t
  <2>2. IsSuffix(Folded(s), Folded(t)) <=>
          /\ Len(Folded(s)) <= Len(Folded(t))
          /\ \A i \in 1..Len(Folded(s)) :
               Folded(s)[i] = Folded(t)[Len(Folded(t)) - Len(Folded(s)) + i]
    <3> DEFINE fs == Folded(s)
               ft == Folded(t)
    <3>1. fs \in Seq(L) /\ ft \in Seq(L)
      BY <1>2
    <3> HIDE DEF fs, ft
    <3>2. IsSuffix(fs, ft) <=>
            Len(fs) <= Len(ft) /\ \A i \in 1..Len(fs) : fs[i] = ft[Len(ft) - Len(fs) + i]
      BY <3>1, SuffixIsTheEnd
    <3> QED
      BY <3>2 DEF fs, ft
  <2> QED
    BY <1>2, <2>1, <2>2
<1>5. ASSUME Len(s) <= Len(t), NEW i \in 1..Len(s)
      PROVE  Len(t) - Len(s) + i \in 1..Len(t)
  BY <1>1, <1>5
<1>6. Matches(c, want) => Listed(c, want)
  <2> SUFFICES ASSUME Matches(c, want) PROVE Listed(c, want)
    OBVIOUS
  <2>1. Len(s) \in 1..Len(s) /\ Len(t) - Len(s) + Len(s) = Len(t) /\ Len(t) \in 1..Len(t)
    BY <1>1
  <2>2. Folded(s)[Len(s)] = Folded(t)[Len(t)]
    BY <1>4, <2>1
  <2> QED
    BY <1>2, <2>1, <2>2 DEF Listed, Last, t
<1>7. Exact(c, want) => Matches(c, want)
  BY <1>2, <1>3, <1>4, <1>5
<1>8. Same(c, want) => Matches(c, want)
  BY <1>1, <1>2, <1>4 DEF Same, t
<1>9. t = s => Same(c, want) /\ Exact(c, want)
  BY <1>1, <1>3 DEF Same, t
<1>10. Same(c, want) /\ Exact(c, want) => t = s
  <2> SUFFICES ASSUME Same(c, want), Exact(c, want) PROVE t = s
    OBVIOUS
  <2>1. Len(s) = Len(t)
    BY <1>2 DEF Same, t
  <2>2. \A i \in 1..Len(s) : s[i] = t[i]
    BY <1>1, <1>3, <2>1
  <2> QED
    BY <1>1, <2>1, <2>2
<1>11. Tier(c, want) = IF t = s THEN 1
         ELSE IF Same(c, want) THEN 2
         ELSE IF Exact(c, want) /\ s # t THEN 3
         ELSE IF Matches(c, want) /\ Folded(s) # Folded(t) THEN 4 ELSE 0
  <2>1. Same(c, want) <=> Folded(c.parts) = Folded(want)
    BY DEF Same
  <2>2. hasNameSuffix(c.parts, want) <=> Exact(c, want) /\ want # c.parts
    BY DEF Exact, hasNameSuffix, IsStrictSuffix
  <2>3. hasNameSuffix(Folded(c.parts), Folded(want)) <=>
          Matches(c, want) /\ Folded(want) # Folded(c.parts)
    BY DEF Matches, hasNameSuffix, IsStrictSuffix
  <2> QED
    BY <2>1, <2>2, <2>3 DEF Tier, t
<1>12. Same(c, want) <=> Folded(s) = Folded(t)
  BY DEF Same, t
<1> QED
  BY <1>6, <1>7, <1>8, <1>9, <1>10, <1>11, <1>12

(* What AnswerIsBest says of one question, an index and an answer.           *)
Found(want) == {c \in index : Matches(c, want)}

Above(c, d, want) ==
  \/ Same(c, want) /\ ~Same(d, want)
  \/ Same(c, want) = Same(d, want) /\ Exact(c, want) /\ ~Exact(d, want)
  \/ Same(c, want) = Same(d, want) /\ Exact(c, want) = Exact(d, want) /\ rank(c) < rank(d)

BestFound(want) == {c \in Found(want) : \A d \in Found(want) : ~Above(d, c, want)}

LookupInv == files \subseteq Names /\ index \subseteq Names

LEMMA AboveIsLess ==
  ASSUME LookupInv, NEW want \in Seq(DOMAIN Lower), want # <<>>,
         NEW c \in Found(want), NEW d \in Found(want)
  PROVE  Above(c, d, want) <=>
           \/ Tier(c, want) < Tier(d, want)
           \/ Tier(c, want) = Tier(d, want) /\ rank(c) < rank(d)
<1>1. c \in Names /\ d \in Names /\ Matches(c, want) /\ Matches(d, want)
  BY DEF LookupInv, Found
<1>2. /\ Tier(c, want) = IF Same(c, want) THEN IF Exact(c, want) THEN 1 ELSE 2
                         ELSE IF Exact(c, want) THEN 3 ELSE 4
      /\ Tier(d, want) = IF Same(d, want) THEN IF Exact(d, want) THEN 1 ELSE 2
                         ELSE IF Exact(d, want) THEN 3 ELSE 4
  BY <1>1, TierSaysIt
<1>3. Same(c, want) \in BOOLEAN /\ Same(d, want) \in BOOLEAN
      /\ Exact(c, want) \in BOOLEAN /\ Exact(d, want) \in BOOLEAN
  BY DEF Same, Exact, IsSuffix, IsPrefix
<1> QED
  BY <1>2, <1>3 DEF Above

(* pick is handed the classes of the lowest tier, and keeps the best of them: *)
(* of all that were found none goes before those.                           *)
LEMMA LowestTierIsBest ==
  ASSUME LookupInv, NEW want \in Seq(DOMAIN Lower), want # <<>>,
         NEW tier \in Nat,
         \E c \in Found(want) : Tier(c, want) = tier,
         \A c \in Found(want) : tier <= Tier(c, want)
  PROVE  Best({c \in Found(want) : Tier(c, want) = tier}) = BestFound(want)
<1> DEFINE lowest == {c \in Found(want) : Tier(c, want) = tier}
<1>1. \A c \in Found(want) : Tier(c, want) \in Nat /\ rank(c) \in Nat
  BY TierSaysIt, RankIsNumber DEF LookupInv, Found
<1>2. ASSUME NEW c, c \in Best(lowest)
      PROVE  c \in BestFound(want)
  <2>1. c \in Found(want) /\ Tier(c, want) = tier
    BY <1>2 DEF Best
  <2>2. ASSUME NEW d \in Found(want)
        PROVE  ~Above(d, c, want)
    <3>1. Above(d, c, want) <=> \/ Tier(d, want) < tier
                                \/ Tier(d, want) = tier /\ rank(d) < rank(c)
      BY <2>1, AboveIsLess
    <3>2. Tier(d, want) = tier => rank(c) <= rank(d)
      BY <1>2 DEF Best
    <3> QED
      BY <1>1, <2>1, <3>1, <3>2
  <2> QED
    BY <2>1, <2>2 DEF BestFound
<1>3. ASSUME NEW c, c \in BestFound(want)
      PROVE  c \in Best(lowest)
  <2>1. c \in Found(want) /\ \A d \in Found(want) : ~Above(d, c, want)
    BY <1>3 DEF BestFound
  <2>2. PICK d \in Found(want) : Tier(d, want) = tier
    OBVIOUS
  <2>3. Tier(c, want) = tier
    <3>1. ~(tier < Tier(c, want))
      BY <2>1, <2>2, AboveIsLess
    <3> QED
      BY <1>1, <2>1, <3>1
  <2>4. ASSUME NEW e \in lowest
        PROVE  rank(c) <= rank(e)
    <3>1. ~(rank(e) < rank(c))
      BY <2>1, <2>3, AboveIsLess
    <3> QED
      BY <1>1, <2>1, <3>1
  <2> QED
    BY <2>1, <2>3, <2>4 DEF Best
<1> QED
  BY <1>2, <1>3

LEMMA ResolveIsBest ==
  ASSUME LookupInv, NEW want \in Seq(DOMAIN Lower), want # <<>>
  PROVE  /\ Found(want) = {} => resolve(want) = NotFound
         /\ Found(want) # {} =>
              /\ BestFound(want) # {} /\ IsFiniteSet(BestFound(want))
              /\ resolve(want) = IF Cardinality(BestFound(want)) = 1
                   THEN [kind |-> "class", class |-> CHOOSE c \in BestFound(want) : TRUE]
                   ELSE [kind |-> "ambiguous", candidates |-> BestFound(want)]
<1> DEFINE candidates == {c \in index : Lower[Last(c.parts)] = Lower[Last(want)]}
           tiers == {Tier(c, want) : c \in candidates} \ {0}
<1>1. ASSUME NEW c
      PROVE  /\ c \in candidates => Tier(c, want) \in Nat
             /\ c \in Found(want) <=> c \in candidates /\ Tier(c, want) # 0
  BY TierSaysIt DEF LookupInv, Found, Listed
<1>2. resolve(want) = IF tiers = {} THEN NotFound
                      ELSE pick({c \in candidates : Tier(c, want) = Min(tiers)})
  BY DEF resolve
<1> HIDE DEF candidates
<1>3. tiers = {} <=> Found(want) = {}
  <2>1. ASSUME NEW c, c \in Found(want) PROVE Tier(c, want) \in tiers
    BY <1>1, <2>1
  <2>2. ASSUME NEW k \in tiers PROVE \E c : c \in Found(want)
    BY <1>1
  <2> QED
    BY <2>1, <2>2
<1>4. ASSUME Found(want) # {}
      PROVE  /\ Min(tiers) \in Nat \ {0}
             /\ \E c \in Found(want) : Tier(c, want) = Min(tiers)
             /\ \A c \in Found(want) : Min(tiers) <= Tier(c, want)
  <2>1. tiers \in SUBSET Nat /\ tiers # {}
    BY <1>1, <1>3, <1>4
  <2>2. Min(tiers) \in tiers /\ \A y \in tiers : Min(tiers) <= y
    BY <2>1, LeastIsIn
  <2> QED
    BY <1>1, <2>1, <2>2
<1> DEFINE tier == Min(tiers)
<1>5. ASSUME Found(want) # {}
      PROVE  {c \in candidates : Tier(c, want) = tier} = {c \in Found(want) : Tier(c, want) = tier}
  BY <1>1, <1>4, <1>5
<1> HIDE DEF tier
<1>6. ASSUME Found(want) # {}
      PROVE  /\ BestFound(want) # {} /\ IsFiniteSet(BestFound(want))
             /\ resolve(want) = IF Cardinality(BestFound(want)) = 1
                  THEN [kind |-> "class", class |-> CHOOSE c \in BestFound(want) : TRUE]
                  ELSE [kind |-> "ambiguous", candidates |-> BestFound(want)]
  <2> DEFINE lowest == {c \in Found(want) : Tier(c, want) = tier}
  <2>1. Best(lowest) = BestFound(want)
    BY <1>4, <1>6, LowestTierIsBest DEF tier
  <2>2. lowest \subseteq Names /\ lowest # {}
    BY <1>4, <1>6 DEF tier, LookupInv, Found
  <2>3. resolve(want) = pick(lowest)
    BY <1>2, <1>3, <1>5, <1>6 DEF tier
  <2> HIDE DEF lowest
  <2> QED
    BY <2>1, <2>2, <2>3, PickIsBest
<1> QED
  BY <1>2, <1>3, <1>6

-----------------------------------------------------------------------------
LEMMA QuestionsAreTyped ==
  ASSUME NEW want \in Wanted \union {c.parts : c \in Names}
  PROVE  want \in Seq(DOMAIN Lower) /\ want # <<>>
<1>1. \A c \in Names : c.parts \in Seq(DOMAIN Lower) /\ c.parts # <<>>
  BY LookupAssumption
<1> QED
  BY <1>1, LookupAssumption

LEMMA LookupInvariant == LookupSpec => []LookupInv
<1>1. LookupInit => LookupInv
  BY DEF LookupInit, LookupInv
<1>2. LookupInv /\ [LookupNext]_lookupVars => LookupInv'
  BY DEF LookupInv, LookupNext, lookupVars, Ask, Change, Walk
<1> QED
  BY <1>1, <1>2, PTL DEF LookupSpec

LEMMA OneOfOne ==
  ASSUME NEW S, IsFiniteSet(S), S # {}
  PROVE  /\ Cardinality(S) = 1 => S = {CHOOSE x \in S : TRUE}
         /\ Cardinality(S) # 1 => Cardinality(S) > 1
<1>1. Cardinality(S) \in Nat /\ Cardinality(S) # 0
  BY FS_CardinalityType, FS_EmptySet
<1>2. Cardinality(S) = 1 => \E x : S = {x}
  BY FS_Singleton
<1> QED
  BY <1>1, <1>2

\* What AnswerIsBest says of a step that asks.
LEMMA AskGivesTheBest ==
  ASSUME LookupInv, NEW want \in Wanted \union {c.parts : c \in Names}, Ask(want)
  PROVE  \/ reply'.kind = "class" /\ BestFound(want) = {reply'.class}
         \/ /\ reply'.kind = "ambiguous" /\ BestFound(want) = reply'.candidates
            /\ Cardinality(BestFound(want)) > 1
         \/ /\ reply'.kind = "notFound"
            /\ Found(want) = {} \/ BestFound(want) \subseteq Names \ files
         \/ reply'.kind = "error"
<1>1. want \in Seq(DOMAIN Lower) /\ want # <<>>
  BY QuestionsAreTyped
<1>2. reply' \in readFile(resolve(want)) \/ reply' = Failed
  BY DEF Ask
<1>3. CASE Found(want) = {}
  <2>1. reply' = NotFound \/ reply' = Failed
    BY <1>1, <1>2, <1>3, ResolveIsBest DEF readFile, NotFound
  <2> QED
    BY <1>3, <2>1 DEF NotFound, Failed
<1>4. CASE Found(want) # {}
  <2> DEFINE best == BestFound(want)
             only == CHOOSE c \in best : TRUE
  <2>1. /\ best # {} /\ IsFiniteSet(best)
        /\ resolve(want) = IF Cardinality(best) = 1
             THEN [kind |-> "class", class |-> only]
             ELSE [kind |-> "ambiguous", candidates |-> best]
    BY <1>1, <1>4, ResolveIsBest
  <2>2. best \subseteq Names
    BY DEF LookupInv, BestFound, Found
  <2>3. /\ Cardinality(best) = 1 => best = {only}
        /\ Cardinality(best) # 1 => Cardinality(best) > 1
    BY <2>1, OneOfOne
  <2> HIDE DEF best, only
  <2>4. CASE Cardinality(best) = 1
    <3>1. resolve(want) = [kind |-> "class", class |-> only] /\ best = {only}
      BY <2>1, <2>3, <2>4
    <3>2. CASE only \in files
      <4>1. reply' = [kind |-> "class", class |-> only] \/ reply' = Failed
        BY <1>2, <3>1, <3>2 DEF readFile
      <4> QED
        BY <3>1, <4>1 DEF best, Failed
    <3>3. CASE only \notin files
      <4>1. reply' = NotFound \/ reply' = Failed
        BY <1>2, <3>1, <3>3 DEF readFile
      <4>2. best \subseteq Names \ files
        BY <2>2, <3>1, <3>3
      <4> QED
        BY <4>1, <4>2 DEF best, NotFound, Failed
    <3> QED
      BY <3>2, <3>3
  <2>5. CASE Cardinality(best) # 1
    <3>1. reply' = [kind |-> "ambiguous", candidates |-> best] \/ reply' = Failed
      BY <1>2, <2>1, <2>5 DEF readFile
    <3> QED
      BY <2>3, <2>5, <3>1 DEF best, Failed
  <2> QED
    BY <2>4, <2>5
<1> QED
  BY <1>3, <1>4

(* An answer is the best of all classes of the version (store.go:189-198):   *)
(* the loop over the tiers, each with its own pick, finds what the three      *)
(* criteria say of all classes at once, for every index and every tree.      *)
THEOREM AnswerIsBestHolds == LookupSpec => AnswerIsBest
<1> DEFINE Answered ==
             asked' # <<>> /\ reply'.kind # "error" /\ (asked' # asked \/ reply' # reply)
<1>1. ASSUME LookupInv, LookupNext, Answered
      PROVE  \E want \in Wanted \union {c.parts : c \in Names} : Ask(want) /\ asked' = want
  BY <1>1 DEF LookupNext, Ask, Change, Walk
<1> DEFINE same(c) == Folded(asked') = Folded(c.parts)
           matches == {c \in index : IsSuffix(Folded(asked'), Folded(c.parts))}
           exact(c) == IsSuffix(asked', c.parts)
           above(c, d) ==
             \/ same(c) /\ ~same(d)
             \/ same(c) = same(d) /\ exact(c) /\ ~exact(d)
             \/ same(c) = same(d) /\ exact(c) = exact(d) /\ rank(c) < rank(d)
           best == {c \in matches : \A d \in matches : ~above(d, c)}
<1>2. ASSUME NEW want, asked' = want
      PROVE  matches = Found(want) /\ best = BestFound(want)
  BY <1>2 DEF Same, Exact, Matches, Found, Above, BestFound
<1>3. ASSUME LookupInv, LookupNext, Answered
      PROVE  CASE reply'.kind = "class" -> best = {reply'.class}
               [] reply'.kind = "ambiguous" -> best = reply'.candidates /\ Cardinality(best) > 1
               [] OTHER -> matches = {} \/ best \subseteq Names \ files
  <2>1. PICK want \in Wanted \union {c.parts : c \in Names} : Ask(want) /\ asked' = want
    BY <1>1, <1>3
  <2>2. matches = Found(want) /\ best = BestFound(want)
    BY <1>2, <2>1
  <2> HIDE DEF matches, best
  <2> QED
    BY <1>3, <2>1, <2>2, AskGivesTheBest
<1>4. LookupInv /\ [LookupNext]_lookupVars =>
        [Answered => CASE reply'.kind = "class" -> best = {reply'.class}
                       [] reply'.kind = "ambiguous" -> best = reply'.candidates /\ Cardinality(best) > 1
                       [] OTHER -> matches = {} \/ best \subseteq Names \ files]_lookupVars
  BY <1>3
<1> QED
  BY <1>4, LookupInvariant, PTL DEF LookupSpec, AnswerIsBest

(* Whoever sends the full name of a candidate (bot.go:322) names it alone:   *)
(* whatever else is in the index, no class goes before it, and none beside.  *)
LEMMA FullNameIsItsClass ==
  ASSUME LookupInv, NEW c \in index
  PROVE  Found(c.parts) # {} /\ BestFound(c.parts) = {c}
<1> DEFINE want == c.parts
<1>1. c \in Names /\ want \in Seq(DOMAIN Lower) /\ want # <<>>
  BY LookupAssumption DEF LookupInv
<1>2. Tier(c, want) = 1
  BY DEF Tier
<1>3. Matches(c, want)
  BY <1>1, <1>2, TierSaysIt
<1>4. c \in Found(want)
  BY <1>3 DEF Found
<1>5. ASSUME NEW d \in Found(want), d # c
      PROVE  Tier(d, want) \in Nat /\ 1 < Tier(d, want)
  <2>1. d \in Names /\ Matches(d, want)
    BY DEF LookupInv, Found
  <2>2. d.parts # want
    BY <1>1, <1>5, <2>1, LookupAssumption
  <2>3. Tier(d, want) # 1
    BY <2>2 DEF Tier
  <2> QED
    BY <1>1, <2>1, <2>3, TierSaysIt
<1>6. rank(c) \in Nat
  BY <1>1, RankIsNumber
<1> HIDE DEF want
<1>7. \A d \in Found(want) : ~Above(d, c, want)
  <2> SUFFICES ASSUME NEW d \in Found(want) PROVE ~Above(d, c, want)
    OBVIOUS
  <2>1. Above(d, c, want) <=> \/ Tier(d, want) < 1
                              \/ Tier(d, want) = 1 /\ rank(d) < rank(c)
    BY <1>1, <1>2, <1>4, AboveIsLess
  <2> QED
    BY <1>2, <1>5, <1>6, <2>1
<1>8. ASSUME NEW d \in Found(want), d # c
      PROVE  Above(c, d, want)
  BY <1>1, <1>2, <1>4, <1>5, <1>8, AboveIsLess
<1>9. BestFound(want) = {c}
  BY <1>4, <1>7, <1>8 DEF BestFound
<1> QED
  BY <1>4, <1>9 DEF want

(* A question is settled by the full name of one of its candidates, after   *)
(* any walk: the answer is that class, not found once it is removed, or an   *)
(* error, and never a question again.                                        *)
THEOREM QuestionsAreSettledHolds == LookupSpec => QuestionsAreSettled
<1> DEFINE offered == IF reply.kind = "ambiguous" THEN reply.candidates \intersect index ELSE {}
<1>1. ASSUME LookupInv, LookupNext, NEW c \in offered, asked' = c.parts, asked' # asked
      PROVE  reply' \in {Failed, IF c \in files THEN [kind |-> "class", class |-> c]
                                                ELSE NotFound}
  <2>1. c \in index
    OBVIOUS
  <2>2. PICK want : Ask(want) /\ asked' = want
    BY <1>1 DEF LookupNext, Ask, Change, Walk
  <2>3. want = c.parts
    BY <1>1, <2>2
  <2>4. want \in Seq(DOMAIN Lower) /\ want # <<>>
    BY <1>1, <2>1, <2>3, LookupAssumption DEF LookupInv
  <2>5. Found(want) # {} /\ BestFound(want) = {c}
    BY <1>1, <2>1, <2>3, FullNameIsItsClass
  <2>6. Cardinality(BestFound(want)) = 1 /\ (CHOOSE d \in BestFound(want) : TRUE) = c
    <3>1. Cardinality({c}) = 1
      BY FS_Singleton
    <3> QED
      BY <2>5, <3>1
  <2>7. resolve(want) = [kind |-> "class", class |-> c]
    BY <1>1, <2>4, <2>5, <2>6, ResolveIsBest
  <2>8. reply' \in readFile([kind |-> "class", class |-> c]) \union {Failed}
    BY <2>2, <2>7 DEF Ask
  <2> QED
    BY <2>8 DEF readFile
<1>2. LookupInv /\ [LookupNext]_lookupVars =>
        [\A c \in offered : asked' = c.parts /\ asked' # asked =>
           reply' \in {Failed, IF c \in files THEN [kind |-> "class", class |-> c]
                                              ELSE NotFound}]_lookupVars
  BY <1>1
<1> QED
  BY <1>2, LookupInvariant, PTL DEF LookupSpec, QuestionsAreSettled

-----------------------------------------------------------------------------
(* Detect.                                                                  *)
(* Scans. Each of the detector's goes from one position to a later one and   *)
(* stops at the end of the text at the latest: what holds of a position       *)
(* whenever it holds of all later ones holds of all of them.                 *)
LEMMA FromTheEnd ==
  ASSUME NEW n \in Nat, NEW Good,
         \A x \in 1..n : (\A y \in (x + 1)..n : y \in Good) => x \in Good
  PROVE  1..n \subseteq Good
<1> DEFINE Wrong == {m \in Nat : m < n /\ n - m \notin Good}
<1> SUFFICES ASSUME NEW z \in 1..n, z \notin Good PROVE FALSE
  OBVIOUS
<1>1. n - z \in Wrong
  OBVIOUS
<1>2. PICK m \in Wrong : \A y \in Wrong : m <= y
  BY <1>1, LeastIsIn
<1>3. n - m \in 1..n /\ n - m \notin Good
  BY <1>2
<1>4. ASSUME NEW y \in (n - m + 1)..n
      PROVE  y \in Good
  <2>1. n - y \in Nat /\ n - y < n /\ ~(m <= n - y) /\ n - (n - y) = y
    BY <1>2, <1>3
  <2> QED
    BY <1>2, <2>1
<1> QED
  BY <1>3, <1>4

\* And such a scan is a function: the recursive definitions have a solution.
Scan(n, V, Stop, next, last, op) ==
  /\ n \in Nat /\ last \in [1..n -> V] /\ op \in [1..n -> [V -> V]]
  /\ \A i \in 1..n : i \notin Stop => next[i] \in (i + 1)..n

LEMMA ScanIsDefined ==
  ASSUME NEW n, NEW V, NEW Stop, NEW next, NEW last, NEW op, Scan(n, V, Stop, next, last, op)
  PROVE  \E f \in [1..n -> V] : \A i \in 1..n :
           f[i] = IF i \in Stop THEN last[i] ELSE op[i][f[next[i]]]
<1> DEFINE Right(f, i) == f[i] = IF i \in Stop THEN last[i] ELSE op[i][f[next[i]]]
           Wrong == {k \in Nat : ~ \E f \in [1..n -> V] : \A i \in 1..n : n - i < k => Right(f, i)}
<1> USE DEF Scan
<1>1. Wrong = {}
  <2> SUFFICES ASSUME Wrong # {} PROVE FALSE
    OBVIOUS
  <2>1. PICK k \in Wrong : \A y \in Wrong : k <= y
    BY LeastIsIn
  <2>2. k # 0
    <3>1. \A i \in 1..n : ~(n - i < 0)
      OBVIOUS
    <3>2. 0 \notin Wrong
      BY <3>1
    <3> QED
      BY <3>2
  <2>3. k - 1 \in Nat /\ k - 1 \notin Wrong
    <3>1. k \in Nat
      OBVIOUS
    <3> HIDE DEF Wrong
    <3>2. k - 1 \in Nat /\ ~(k <= k - 1)
      BY <2>2, <3>1
    <3> QED
      BY <2>1, <3>2
  <2>4. PICK f \in [1..n -> V] : \A i \in 1..n : n - i < k - 1 => Right(f, i)
    BY <2>3
  <2> DEFINE g == [i \in 1..n |-> IF n - i < k - 1 THEN f[i]
                                  ELSE IF i \in Stop THEN last[i] ELSE op[i][f[next[i]]]]
  <2>5. \A i \in 1..n : i \notin Stop => next[i] \in 1..n /\ f[next[i]] \in V
    OBVIOUS
  <2>6. g \in [1..n -> V]
    <3> SUFFICES ASSUME NEW i \in 1..n PROVE g[i] \in V
      OBVIOUS
    <3>1. f[i] \in V /\ last[i] \in V
      OBVIOUS
    <3>2. i \notin Stop => op[i][f[next[i]]] \in V
      <4>1. op[i] \in [V -> V]
        OBVIOUS
      <4> QED
        BY <2>5, <4>1
    <3> QED
      BY <3>1, <3>2
  <2>7. ASSUME NEW i \in 1..n, n - i < k
        PROVE  Right(g, i)
    <3>1. CASE i \in Stop
      BY <2>4, <3>1
    <3>2. CASE i \notin Stop
      <4>1. next[i] \in (i + 1)..n /\ n - next[i] < k - 1
        BY <2>3, <2>7, <3>2
      <4>2. g[next[i]] = f[next[i]]
        BY <4>1
      <4>3. g[i] = op[i][f[next[i]]]
        BY <2>4, <3>2
      <4> QED
        BY <3>2, <4>2, <4>3
    <3> QED
      BY <3>1, <3>2
  <2> QED
    BY <2>1, <2>6, <2>7
<1>2. PICK f \in [1..n -> V] : \A i \in 1..n : n - i < n => Right(f, i)
  BY <1>1
<1>3. \A i \in 1..n : Right(f, i)
  BY <1>2
<1> QED
  BY <1>3

-----------------------------------------------------------------------------
(* A window of a text: either its end, or lines of it.                       *)
Window(t, u, d) ==
  /\ d \in Nat /\ d + Len(u) <= Len(t)
  /\ \A x \in 1..Len(u) : u[x] = t[d + x]
  /\ \/ d + Len(u) = Len(t)
     \/ /\ Len(u) > 0 /\ u[Len(u)] = "\n"
        /\ Len(u) > 1 => u[Len(u) - 1] # "\\"

Text == Seq(Characters)

\* A token that is looked for in one place: only a line break holds one.
Token(p) == Len(p) = 1 \/ \A k \in 1..Len(p) : p[k] # "\n"

LEMMA PrefixAgrees ==
  ASSUME NEW t \in Text, NEW u \in Text, NEW d, Window(t, u, d),
         NEW p \in Text, Token(p), Len(p) > 0, NEW x \in 1..Len(u)
  PROVE  HasPrefix(u, x, p) <=> HasPrefix(t, d + x, p)
<1> DEFINE n == Len(t)
           k == Len(u)
           m == Len(p)
<1>1. n \in Nat /\ k \in Nat /\ m \in Nat /\ m > 0 /\ d \in Nat /\ DOMAIN p = 1..m
  BY DEF Text, Window, HasPrefix
<1>2. d + k <= n /\ \A y \in 1..k : u[y] = t[d + y]
  BY DEF Window
<1>3. HasPrefix(u, x, p) <=> x + m <= k + 1 /\ \A i \in 1..m : u[x + i - 1] = p[i]
  BY <1>1 DEF HasPrefix
<1>4. HasPrefix(t, d + x, p) <=>
        (d + x) + m <= n + 1 /\ \A i \in 1..m : t[(d + x) + i - 1] = p[i]
  BY <1>1 DEF HasPrefix
<1>5. d + k = n \/ (k > 0 /\ u[k] = "\n")
  BY DEF Window
<1>6. m = 1 \/ \A i \in 1..m : p[i] # "\n"
  BY DEF Token
<1> HIDE DEF n, k, m
<1>7. ASSUME x + m <= k + 1, NEW i \in 1..m
      PROVE  u[x + i - 1] = t[(d + x) + i - 1]
  <2>1. x + i - 1 \in 1..k /\ d + (x + i - 1) = (d + x) + i - 1
    BY <1>1, <1>7 DEF k
  <2> QED
    BY <1>2, <2>1
<1>8. ASSUME HasPrefix(u, x, p)
      PROVE  HasPrefix(t, d + x, p)
  <2>1. (d + x) + m <= n + 1
    BY <1>1, <1>2, <1>3, <1>8 DEF k
  <2> QED
    BY <1>3, <1>4, <1>7, <1>8, <2>1
<1>9. ASSUME HasPrefix(t, d + x, p)
      PROVE  HasPrefix(u, x, p)
  <2>1. x + m <= k + 1
    <3> SUFFICES ASSUME ~(x + m <= k + 1) PROVE FALSE
      OBVIOUS
    <3>1. x \in 1..k
      BY DEF k
    <3>2. d + k # n
      BY <1>1, <1>4, <1>9, <3>1
    <3>3. m # 1
      BY <1>1, <3>1
    <3>4. k - x + 1 \in 1..m /\ (d + x) + (k - x + 1) - 1 = d + k /\ k \in 1..k
      BY <1>1, <3>1
    <3>5. t[d + k] = p[k - x + 1]
      BY <1>4, <1>9, <3>4
    <3>6. t[d + k] = "\n"
      BY <1>2, <1>5, <3>2, <3>4
    <3> QED
      BY <1>6, <3>3, <3>4, <3>5, <3>6
  <2> QED
    BY <1>3, <1>4, <1>7, <1>9, <2>1
<1> QED
  BY <1>8, <1>9

(* indexFrom: the same place in both, or none in the window.                 *)
Agrees(u, d, a, b) == (a <= Len(u) => b = d + a) /\ (a > Len(u) => b > d + Len(u))

LEMMA IndexIs ==
  ASSUME NEW t \in Text, NEW i \in Nat \ {0}, NEW p
  PROVE  LET a == indexFrom(t, i, p)
         IN  /\ a \in i..Len(t) \/ a = Len(t) + 1
             /\ a <= Len(t) => HasPrefix(t, a, p)
             /\ \A k \in i..Len(t) : HasPrefix(t, k, p) => a <= k
             /\ a <= Len(t) + 1
<1> DEFINE n == Len(t)
           T == {k \in i..n : HasPrefix(t, k, p)} \union {n + 1}
<1>1. n \in Nat
  BY DEF Text
<1>2. indexFrom(t, i, p) = Min(T)
  BY DEF indexFrom
<1> HIDE DEF n
<1>3. T \in SUBSET Nat /\ T # {}
  BY <1>1
<1>4. Min(T) \in T /\ \A y \in T : Min(T) <= y
  BY <1>3, LeastIsIn
<1> QED
  BY <1>1, <1>2, <1>4 DEF n

LEMMA IndexAgrees ==
  ASSUME NEW t \in Text, NEW u \in Text, NEW d, Window(t, u, d),
         NEW p \in Text, Token(p), Len(p) > 0, NEW x \in Nat \ {0}
  PROVE  Agrees(u, d, indexFrom(u, x, p), indexFrom(t, d + x, p))
<1> DEFINE n == Len(t)
           k == Len(u)
           a == indexFrom(u, x, p)
           b == indexFrom(t, d + x, p)
<1>1. n \in Nat /\ k \in Nat /\ d \in Nat /\ d + k <= n
  BY DEF Text, Window
<1>2. /\ a \in x..k \/ a = k + 1
      /\ a <= k => HasPrefix(u, a, p)
      /\ \A y \in x..k : HasPrefix(u, y, p) => a <= y
  BY IndexIs
<1>3. /\ b \in (d + x)..n \/ b = n + 1
      /\ b <= n => HasPrefix(t, b, p)
      /\ \A y \in (d + x)..n : HasPrefix(t, y, p) => b <= y
  BY <1>1, IndexIs
<1>4. \A y \in 1..k : HasPrefix(u, y, p) <=> HasPrefix(t, d + y, p)
  BY PrefixAgrees
<1> HIDE DEF n, k, a, b
<1>5. CASE a <= k
  <2>1. a \in 1..k /\ d + a \in (d + x)..n
    BY <1>1, <1>2, <1>5
  <2>2. b <= d + a
    BY <1>2, <1>3, <1>4, <1>5, <2>1
  <2>3. b - d \in x..k /\ b - d \in 1..k /\ d + (b - d) = b /\ b <= n
    BY <1>1, <1>3, <2>1, <2>2
  <2>4. a <= b - d
    BY <1>2, <1>3, <1>4, <2>3
  <2>5. b = d + a
    BY <1>1, <2>1, <2>2, <2>3, <2>4
  <2> QED
    BY <1>1, <1>5, <2>1, <2>5 DEF Agrees, a, b, k
<1>6. CASE a = k + 1
  <2>1. ASSUME b <= d + k
        PROVE  FALSE
    <3>1. b - d \in x..k /\ b - d \in 1..k /\ d + (b - d) = b /\ b <= n
      BY <1>1, <1>3, <2>1
    <3>2. a <= b - d
      BY <1>2, <1>3, <1>4, <3>1
    <3> QED
      BY <1>1, <1>6, <3>1, <3>2
  <2>2. b > d + k
    BY <1>1, <1>3, <2>1
  <2> QED
    BY <1>1, <1>6, <2>2 DEF Agrees, a, b, k
<1> QED
  BY <1>1, <1>2, <1>5, <1>6

-----------------------------------------------------------------------------
(* Literals.                                                                *)
LEMMA LesserOfTwo ==
  ASSUME NEW a \in Nat, NEW b \in Nat
  PROVE  Min({a, b}) = IF a <= b THEN a ELSE b
<1>1. Min({a, b}) \in {a, b} /\ Min({a, b}) <= a /\ Min({a, b}) <= b
  BY LeastIsIn
<1> QED
  BY <1>1

LiteralEnds(text, quote) ==
  LET n == Len(text)
      end[j \in 1..(n + 2)] ==
        IF j > n \/ text[j] \in {quote, "\n"} THEN Min({j, n + 1})
        ELSE IF text[j] = "\\" THEN end[j + 2]
        ELSE end[j + 1]
  IN  end

LEMMA LiteralEndsAre ==
  ASSUME NEW text \in Text, NEW quote
  PROVE  LET n == Len(text)
             e == LiteralEnds(text, quote)
         IN  \A j \in 1..(n + 2) :
               e[j] = IF j > n THEN n + 1
                      ELSE IF text[j] \in {quote, "\n"} THEN j
                      ELSE IF text[j] = "\\" THEN e[j + 2]
                      ELSE e[j + 1]
<1> DEFINE n == Len(text)
           size == n + 2
           V == 1..(n + 1)
           Stop == {j \in 1..size : j > n \/ text[j] \in {quote, "\n"}}
           next == [j \in 1..size |-> IF text[j] = "\\" THEN j + 2 ELSE j + 1]
           last == [j \in 1..size |-> IF j <= n THEN j ELSE n + 1]
           op == [j \in 1..size |-> [v \in V |-> v]]
           F(f) == [j \in 1..size |->
                      IF j > n \/ text[j] \in {quote, "\n"} THEN Min({j, n + 1})
                      ELSE IF text[j] = "\\" THEN f[j + 2]
                      ELSE f[j + 1]]
           e == CHOOSE f : f = F(f)
<1>1. n \in Nat /\ size \in Nat
  BY DEF Text
<1>2. LiteralEnds(text, quote) = e
  BY DEF LiteralEnds
<1> HIDE DEF n
<1>3. \A j \in 1..size : Min({j, n + 1}) = last[j]
  BY <1>1, LesserOfTwo
<1>4. last \in [1..size -> V] /\ op \in [1..size -> [V -> V]]
  BY <1>1
<1>5. \A i \in 1..size : i \notin Stop => next[i] \in (i + 1)..size
  BY <1>1
<1>6. \E f \in [1..size -> V] : \A i \in 1..size :
        f[i] = IF i \in Stop THEN last[i] ELSE op[i][f[next[i]]]
  <2>1. Scan(size, V, Stop, next, last, op)
    BY <1>1, <1>4, <1>5 DEF Scan
  <2> HIDE DEF V, Stop, next, last, op, size
  <2> QED
    BY <2>1, ScanIsDefined
<1>7. PICK f \in [1..size -> V] : \A i \in 1..size :
        f[i] = IF i \in Stop THEN last[i] ELSE op[i][f[next[i]]]
  BY <1>6
<1>8. f = F(f)
  <2> SUFFICES ASSUME NEW i \in 1..size PROVE f[i] = F(f)[i]
    OBVIOUS
  <2>1. CASE i \in Stop
    <3>1. F(f)[i] = Min({i, n + 1})
      BY <2>1
    <3> QED
      BY <1>3, <1>7, <2>1, <3>1
  <2>2. CASE i \notin Stop
    <3>1. next[i] \in 1..size
      BY <1>5, <2>2
    <3>2. f[next[i]] \in V
      BY <3>1
    <3>3. op[i][f[next[i]]] = f[next[i]]
      BY <3>2
    <3>4. f[i] = f[next[i]]
      BY <1>7, <2>2, <3>3
    <3>5. F(f)[i] = f[next[i]]
      BY <2>2
    <3> QED
      BY <3>4, <3>5
  <2> QED
    BY <2>1, <2>2
<1>9. e = F(e)
  BY <1>8
<1> HIDE DEF e
<1>10. ASSUME NEW j \in 1..size
       PROVE  e[j] = IF j > n THEN n + 1
                     ELSE IF text[j] \in {quote, "\n"} THEN j
                     ELSE IF text[j] = "\\" THEN e[j + 2]
                     ELSE e[j + 1]
  <2>1. e[j] = F(e)[j]
    BY <1>9
  <2>2. Min({j, n + 1}) = IF j <= n THEN j ELSE n + 1
    BY <1>3
  <2> QED
    BY <1>1, <2>1, <2>2
<1> QED
  BY <1>2, <1>10 DEF n

LEMMA LiteralEndsIn ==
  ASSUME NEW text \in Text, NEW quote
  PROVE  LET n == Len(text)
             e == LiteralEnds(text, quote)
         IN  \A j \in 1..(n + 2) : e[j] \in Nat /\ e[j] <= n + 1 /\ (j <= e[j] \/ e[j] = n + 1)
<1> DEFINE n == Len(text)
           e == LiteralEnds(text, quote)
           Good == {j \in 1..(n + 2) : e[j] \in Nat /\ e[j] <= n + 1 /\ (j <= e[j] \/ e[j] = n + 1)}
<1>1. n \in Nat
  BY DEF Text
<1>2. \A j \in 1..(n + 2) :
        e[j] = IF j > n THEN n + 1
               ELSE IF text[j] \in {quote, "\n"} THEN j
               ELSE IF text[j] = "\\" THEN e[j + 2]
               ELSE e[j + 1]
  BY LiteralEndsAre
<1> HIDE DEF n, e
<1>3. ASSUME NEW x \in 1..(n + 2), \A y \in (x + 1)..(n + 2) : y \in Good
      PROVE  x \in Good
  <2>1. CASE x > n
    BY <1>1, <1>2, <2>1
  <2>2. CASE x <= n
    <3>1. x + 1 \in (x + 1)..(n + 2) /\ x + 2 \in (x + 1)..(n + 2)
      BY <1>1, <2>2
    <3>2. x + 1 \in Good /\ x + 2 \in Good
      BY <1>3, <3>1
    <3>3. CASE text[x] \in {quote, "\n"}
      BY <1>1, <1>2, <2>2, <3>3
    <3>4. CASE text[x] \notin {quote, "\n"}
      <4>1. e[x] = e[x + 1] \/ e[x] = e[x + 2]
        BY <1>1, <1>2, <2>2, <3>4
      <4> QED
        BY <1>1, <2>2, <3>2, <4>1
    <3> QED
      BY <3>3, <3>4
  <2> QED
    BY <1>1, <2>1, <2>2
<1>4. 1..(n + 2) \subseteq Good
  <2> DEFINE size == n + 2
  <2>1. size \in Nat /\ \A x \in 1..size : (\A y \in (x + 1)..size : y \in Good) => x \in Good
    BY <1>1, <1>3
  <2> HIDE DEF size, Good
  <2>2. 1..size \subseteq Good
    BY <2>1, FromTheEnd
  <2> QED
    BY <2>2 DEF size
<1> QED
  BY <1>4 DEF n, e

LEMMA LiteralsAgree ==
  ASSUME NEW t \in Text, NEW u \in Text, NEW d, Window(t, u, d),
         NEW x \in 1..Len(u), u[x] \in Quotes
  PROVE  /\ LiteralEnd(u, x) \in (x + 1)..(Len(u) + 1)
         /\ LiteralEnd(t, d + x) = d + LiteralEnd(u, x)
         /\ LiteralEnd(u, x) <= Len(u) \/ d + Len(u) = Len(t)
<1> DEFINE n == Len(t)
           k == Len(u)
           quote == u[x]
           e == LiteralEnds(t, quote)
           f == LiteralEnds(u, quote)
           Good == {y \in 1..(k + 2) : y <= k \/ d + k = n =>
                      e[d + y] = d + f[y] /\ (f[y] <= k \/ d + k = n)}
<1>1. n \in Nat /\ k \in Nat /\ d \in Nat /\ d + k <= n
  BY DEF Text, Window
<1>2. /\ \A y \in 1..k : u[y] = t[d + y]
      /\ d + k = n \/ (k > 0 /\ u[k] = "\n" /\ (k > 1 => u[k - 1] # "\\"))
  BY DEF Window
<1>3. \A j \in 1..(n + 2) :
        e[j] = IF j > n THEN n + 1
               ELSE IF t[j] \in {quote, "\n"} THEN j
               ELSE IF t[j] = "\\" THEN e[j + 2]
               ELSE e[j + 1]
  BY LiteralEndsAre
<1>4. \A j \in 1..(k + 2) :
        f[j] = IF j > k THEN k + 1
               ELSE IF u[j] \in {quote, "\n"} THEN j
               ELSE IF u[j] = "\\" THEN f[j + 2]
               ELSE f[j + 1]
  BY LiteralEndsAre
<1>5. \A j \in 1..(k + 2) : f[j] \in Nat /\ f[j] <= k + 1 /\ (j <= f[j] \/ f[j] = k + 1)
  BY LiteralEndsIn
<1>6. LiteralEnd(u, x) = f[x + 1] /\ LiteralEnd(t, d + x) = e[(d + x) + 1]
  <2>1. t[d + x] = quote
    BY <1>2
  <2>2. LiteralEnd(u, x) = f[x + 1]
    BY DEF LiteralEnd, LiteralEnds
  <2>3. LiteralEnd(t, d + x) = LiteralEnds(t, t[d + x])[(d + x) + 1]
    BY DEF LiteralEnd, LiteralEnds
  <2> QED
    BY <2>1, <2>2, <2>3
<1>7. x \in 1..k /\ quote # "\n"
  BY DEF Quotes
<1> HIDE DEF n, k, e, f, quote
<1>8. ASSUME NEW y \in 1..(k + 2), \A z \in (y + 1)..(k + 2) : z \in Good
      PROVE  y \in Good
  <2> SUFFICES ASSUME y <= k \/ d + k = n
               PROVE  e[d + y] = d + f[y] /\ (f[y] <= k \/ d + k = n)
    OBVIOUS
  <2> DEFINE w == d + y
  <2>1. /\ w \in 1..(n + 2) /\ d + (y + 1) = w + 1 /\ d + (y + 2) = w + 2
        /\ y <= k => u[y] = t[w] /\ ~(w > n)
        /\ y > k => w > n
    BY <1>1, <1>2
  <2>2. e[w] = IF w > n THEN n + 1
               ELSE IF t[w] \in {quote, "\n"} THEN w
               ELSE IF t[w] = "\\" THEN e[w + 2]
               ELSE e[w + 1]
    BY <1>3, <2>1
  <2>3. f[y] = IF y > k THEN k + 1
               ELSE IF u[y] \in {quote, "\n"} THEN y
               ELSE IF u[y] = "\\" THEN f[y + 2]
               ELSE f[y + 1]
    BY <1>4
  <2>4. w = d + y
    OBVIOUS
  <2> HIDE DEF w
  <2>5. CASE y > k
    <3>1. e[w] = n + 1 /\ f[y] = k + 1 /\ d + k = n
      BY <1>1, <2>1, <2>2, <2>3, <2>5
    <3> QED
      BY <1>1, <2>4, <3>1
  <2>6. CASE y <= k
    <3>1. y \in 1..k /\ u[y] = t[w] /\ ~(w > n) /\ ~(y > k)
      BY <1>1, <2>1, <2>6
    <3>2. CASE u[y] \in {quote, "\n"}
      <4>1. f[y] = y /\ e[w] = w
        BY <2>2, <2>3, <3>1, <3>2
      <4> QED
        BY <2>4, <2>6, <4>1
    <3>3. CASE u[y] \notin {quote, "\n"} /\ u[y] = "\\"
      <4>1. f[y] = f[y + 2] /\ e[w] = e[w + 2]
        BY <2>2, <2>3, <3>1, <3>3
      <4>2. y + 2 <= k \/ d + k = n
        <5> SUFFICES ASSUME d + k # n PROVE y + 2 <= k
          OBVIOUS
        <5>1. y # k
          BY <1>2, <3>3
        <5>2. k > 1 /\ k - 1 \in Nat
          BY <1>1, <3>1, <5>1
        <5>3. y # k - 1
          BY <1>2, <3>3, <5>2
        <5> QED
          BY <1>1, <3>1, <5>1, <5>3
      <4>3. y + 2 \in Good
        BY <1>1, <1>8, <3>1
      <4>4. e[d + (y + 2)] = d + f[y + 2] /\ (f[y + 2] <= k \/ d + k = n)
        BY <4>2, <4>3
      <4> QED
        BY <2>1, <2>4, <4>1, <4>4
    <3>4. CASE u[y] \notin {quote, "\n"} /\ u[y] # "\\"
      <4>1. f[y] = f[y + 1] /\ e[w] = e[w + 1]
        BY <2>2, <2>3, <3>1, <3>4
      <4>2. y + 1 <= k \/ d + k = n
        BY <1>1, <1>2, <3>1, <3>4
      <4>3. y + 1 \in Good
        BY <1>1, <1>8, <3>1
      <4>4. e[d + (y + 1)] = d + f[y + 1] /\ (f[y + 1] <= k \/ d + k = n)
        BY <4>2, <4>3
      <4> QED
        BY <2>1, <2>4, <4>1, <4>4
    <3> QED
      BY <3>2, <3>3, <3>4
  <2> QED
    BY <1>1, <2>5, <2>6
<1>9. 1..(k + 2) \subseteq Good
  <2> DEFINE size == k + 2
  <2>1. size \in Nat /\ \A y \in 1..size : (\A z \in (y + 1)..size : z \in Good) => y \in Good
    BY <1>1, <1>8
  <2> HIDE DEF size, Good
  <2>2. 1..size \subseteq Good
    BY <2>1, FromTheEnd
  <2> QED
    BY <2>2 DEF size
<1>10. x + 1 \in 1..(k + 2) /\ (x + 1 <= k \/ d + k = n)
  BY <1>1, <1>2, <1>7 DEF quote
<1>11. e[d + (x + 1)] = d + f[x + 1] /\ (f[x + 1] <= k \/ d + k = n)
  BY <1>9, <1>10
<1>12. f[x + 1] \in (x + 1)..(k + 1)
  BY <1>1, <1>5, <1>7, <1>10
<1>13. (d + x) + 1 = d + (x + 1)
  BY <1>1, <1>7
<1> QED
  BY <1>6, <1>11, <1>12, <1>13 DEF n, k

-----------------------------------------------------------------------------
(* Block comments, and how deep they are.                                   *)
Opens == <<"/", "*">>
Closes == <<"*", "/">>

LEMMA TokensAreTexts ==
  /\ Opens \in Text /\ Token(Opens) /\ Len(Opens) = 2
  /\ Closes \in Text /\ Token(Closes) /\ Len(Closes) = 2
  /\ <<"/", "/">> \in Text /\ Token(<<"/", "/">>) /\ Len(<<"/", "/">>) = 2
  /\ <<"\n">> \in Text /\ Token(<<"\n">>) /\ Len(<<"\n">>) = 1
BY DEF Opens, Closes, Text, Token, Characters, Quotes

LEMMA PrefixFits ==
  ASSUME NEW text \in Text, NEW i \in Nat, NEW p, HasPrefix(text, i, p)
  PROVE  i + Len(p) <= Len(text) + 1
BY DEF HasPrefix

CommentEnds(text) ==
  LET n == Len(text)
      end[j \in 1..(n + 1)] == [depth \in Nat |->
        IF depth = 0 \/ j > n THEN j
        ELSE IF HasPrefix(text, j, <<"/", "*">>) THEN end[j + 2][depth + 1]
        ELSE IF HasPrefix(text, j, <<"*", "/">>) THEN end[j + 2][depth - 1]
        ELSE end[j + 1][depth]]
  IN  end

LEMMA CommentEndsAre ==
  ASSUME NEW text \in Text
  PROVE  LET n == Len(text)
             e == CommentEnds(text)
         IN  \A j \in 1..(n + 1) : \A depth \in Nat :
               e[j][depth] = IF depth = 0 \/ j > n THEN j
                             ELSE IF HasPrefix(text, j, Opens) THEN e[j + 2][depth + 1]
                             ELSE IF HasPrefix(text, j, Closes) THEN e[j + 2][depth - 1]
                             ELSE e[j + 1][depth]
<1> DEFINE n == Len(text)
           size == n + 1
           V == [Nat -> 1..(n + 1)]
           Stop == {n + 1}
           Two(j) == HasPrefix(text, j, Opens) \/ HasPrefix(text, j, Closes)
           next == [j \in 1..size |-> IF Two(j) THEN j + 2 ELSE j + 1]
           last == [j \in 1..size |-> [depth \in Nat |-> j]]
           Deeper(h, j, depth) ==
             IF HasPrefix(text, j, Opens) THEN h[depth + 1]
             ELSE IF HasPrefix(text, j, Closes) THEN h[depth - 1] ELSE h[depth]
           op == [j \in 1..size |-> [h \in V |-> [depth \in Nat |->
                    IF depth = 0 THEN j ELSE Deeper(h, j, depth)]]]
           F(f) == [j \in 1..(n + 1) |-> [depth \in Nat |->
                      IF depth = 0 \/ j > n THEN j
                      ELSE IF HasPrefix(text, j, <<"/", "*">>) THEN f[j + 2][depth + 1]
                      ELSE IF HasPrefix(text, j, <<"*", "/">>) THEN f[j + 2][depth - 1]
                      ELSE f[j + 1][depth]]]
           e == CHOOSE f : f = F(f)
<1>1. n \in Nat /\ size \in Nat
  BY DEF Text
<1>2. CommentEnds(text) = e
  BY DEF CommentEnds
<1>3. \A j \in 1..n : Two(j) => j + 2 <= n + 1
  BY PrefixFits, TokensAreTexts
<1> HIDE DEF n, Two
<1>4. last \in [1..size -> V] /\ op \in [1..size -> [V -> V]]
  <2>1. \A h \in V : \A j \in 1..size : \A depth \in Nat :
          depth # 0 => Deeper(h, j, depth) \in 1..(n + 1)
    OBVIOUS
  <2> HIDE DEF Deeper
  <2>2. \A h \in V : \A j \in 1..size :
          [depth \in Nat |-> IF depth = 0 THEN j ELSE Deeper(h, j, depth)] \in V
    BY <2>1
  <2>3. \A j \in 1..size : [depth \in Nat |-> j] \in V
    OBVIOUS
  <2> HIDE DEF V
  <2> QED
    BY <2>2, <2>3
<1>5. \A i \in 1..size : i \notin Stop => next[i] \in (i + 1)..size
  BY <1>1, <1>3
<1>6. \E f \in [1..size -> V] : \A i \in 1..size :
        f[i] = IF i \in Stop THEN last[i] ELSE op[i][f[next[i]]]
  <2> HIDE DEF V, Stop, next, last, op, size
  <2>1. Scan(size, V, Stop, next, last, op)
    BY <1>1, <1>4, <1>5 DEF Scan
  <2> QED
    BY <2>1, ScanIsDefined
<1>7. PICK f \in [1..size -> V] : \A i \in 1..size :
        f[i] = IF i \in Stop THEN last[i] ELSE op[i][f[next[i]]]
  BY <1>6
<1>8. f = F(f)
  <2> SUFFICES ASSUME NEW i \in 1..size PROVE f[i] = F(f)[i]
    OBVIOUS
  <2>1. CASE i = n + 1
    <3>1. F(f)[i] = [depth \in Nat |-> i]
      BY <1>1, <2>1
    <3>2. f[i] = last[i]
      BY <1>7, <2>1
    <3> QED
      BY <3>1, <3>2
  <2>2. CASE i # n + 1
    <3>1. next[i] \in 1..size /\ i \in 1..n
      <4>1. i \in 1..n
        BY <1>1, <2>2
      <4>2. next[i] \in (i + 1)..size
        BY <1>5, <2>2
      <4>3. (i + 1)..size \subseteq 1..size
        BY <4>1
      <4> QED
        BY <4>1, <4>2, <4>3
    <3>2. f[next[i]] \in V
      BY <3>1
    <3>3. f[i] = op[i][f[next[i]]]
      BY <1>7, <2>2
    <3>4. f[i] = [depth \in Nat |-> IF depth = 0 THEN i ELSE Deeper(f[next[i]], i, depth)]
      BY <3>2, <3>3
    <3>5. F(f)[i] = [depth \in Nat |-> IF depth = 0 THEN i ELSE Deeper(f[next[i]], i, depth)]
      <4>1. ASSUME NEW depth \in Nat, depth # 0
            PROVE  F(f)[i][depth] = Deeper(f[next[i]], i, depth)
        BY <1>1, <3>1, <4>1 DEF Two, Opens, Closes
      <4>2. \A depth \in Nat : F(f)[i][depth] =
              IF depth = 0 THEN i ELSE Deeper(f[next[i]], i, depth)
        BY <4>1
      <4> QED
        BY <4>2
    <3> QED
      BY <3>4, <3>5
  <2> QED
    BY <2>1, <2>2
<1>9. e = F(e)
  BY <1>8
<1> HIDE DEF e
<1>10. ASSUME NEW j \in 1..size, NEW depth \in Nat
       PROVE  e[j][depth] = IF depth = 0 \/ j > n THEN j
                            ELSE IF HasPrefix(text, j, Opens) THEN e[j + 2][depth + 1]
                            ELSE IF HasPrefix(text, j, Closes) THEN e[j + 2][depth - 1]
                            ELSE e[j + 1][depth]
  <2>1. e[j] = F(e)[j]
    BY <1>9
  <2> QED
    BY <2>1 DEF Opens, Closes
<1> QED
  BY <1>2, <1>10 DEF n

LEMMA CommentEndsIn ==
  ASSUME NEW text \in Text
  PROVE  LET n == Len(text)
             e == CommentEnds(text)
         IN  \A j \in 1..(n + 1) : \A depth \in Nat : e[j][depth] \in j..(n + 1)
<1> DEFINE n == Len(text)
           size == n + 1
           e == CommentEnds(text)
           Good == {j \in 1..size : \A depth \in Nat : e[j][depth] \in j..size}
<1>1. n \in Nat /\ size = n + 1
  BY DEF Text
<1>2. \A j \in 1..size : \A depth \in Nat :
        e[j][depth] = IF depth = 0 \/ j > n THEN j
                      ELSE IF HasPrefix(text, j, Opens) THEN e[j + 2][depth + 1]
                      ELSE IF HasPrefix(text, j, Closes) THEN e[j + 2][depth - 1]
                      ELSE e[j + 1][depth]
  BY CommentEndsAre
<1>3. \A j \in 1..n : HasPrefix(text, j, Opens) \/ HasPrefix(text, j, Closes) => j + 2 <= size
  BY PrefixFits, TokensAreTexts
<1> HIDE DEF n, e, size
<1>4. ASSUME NEW x \in 1..size, \A y \in (x + 1)..size : y \in Good
      PROVE  x \in Good
  <2> SUFFICES ASSUME NEW depth \in Nat PROVE e[x][depth] \in x..size
    OBVIOUS
  <2>1. CASE depth = 0 \/ x > n
    BY <1>1, <1>2, <2>1
  <2>2. CASE depth # 0 /\ ~(x > n)
    <3>1. depth + 1 \in Nat /\ depth - 1 \in Nat /\ x \in 1..n
      BY <1>1, <2>2
    <3>2. \A y \in (x + 1)..size : \A deep \in Nat : e[y][deep] \in x..size
      BY <1>1, <1>4
    <3>3. CASE HasPrefix(text, x, Opens)
      <4>1. e[x][depth] = e[x + 2][depth + 1] /\ x + 2 \in (x + 1)..size
        BY <1>1, <1>2, <1>3, <2>2, <3>1, <3>3
      <4> QED
        BY <3>1, <3>2, <4>1
    <3>4. CASE ~HasPrefix(text, x, Opens) /\ HasPrefix(text, x, Closes)
      <4>1. e[x][depth] = e[x + 2][depth - 1] /\ x + 2 \in (x + 1)..size
        BY <1>1, <1>2, <1>3, <2>2, <3>1, <3>4
      <4> QED
        BY <3>1, <3>2, <4>1
    <3>5. CASE ~HasPrefix(text, x, Opens) /\ ~HasPrefix(text, x, Closes)
      <4>1. e[x][depth] = e[x + 1][depth] /\ x + 1 \in (x + 1)..size
        BY <1>1, <1>2, <2>2, <3>1, <3>5
      <4> QED
        BY <3>1, <3>2, <4>1
    <3> QED
      BY <3>3, <3>4, <3>5
  <2> QED
    BY <2>1, <2>2
<1>5. 1..size \subseteq Good
  <2> HIDE DEF Good
  <2>1. size \in Nat
    BY <1>1
  <2> QED
    BY <1>4, <2>1, FromTheEnd
<1> QED
  BY <1>5 DEF n, e, size

LEMMA CommentsAgree ==
  ASSUME NEW t \in Text, NEW u \in Text, NEW d, Window(t, u, d),
         NEW x \in 1..Len(u), HasPrefix(u, x, Opens)
  PROVE  /\ CommentEnd(u, x) \in (x + 2)..(Len(u) + 1)
         /\ CommentEnd(t, d + x) \in Nat
         /\ Agrees(u, d, CommentEnd(u, x), CommentEnd(t, d + x))
<1> DEFINE n == Len(t)
           k == Len(u)
           size == k + 1
           e == CommentEnds(t)
           f == CommentEnds(u)
           Good == {y \in 1..size : \A depth \in Nat : Agrees(u, d, f[y][depth], e[d + y][depth])}
<1>1. n \in Nat /\ k \in Nat /\ d \in Nat /\ d + k <= n /\ size = k + 1
  BY DEF Text, Window
<1>2. \A j \in 1..(n + 1) : \A depth \in Nat :
        e[j][depth] = IF depth = 0 \/ j > n THEN j
                      ELSE IF HasPrefix(t, j, Opens) THEN e[j + 2][depth + 1]
                      ELSE IF HasPrefix(t, j, Closes) THEN e[j + 2][depth - 1]
                      ELSE e[j + 1][depth]
  BY CommentEndsAre
<1>3. \A j \in 1..size : \A depth \in Nat :
        f[j][depth] = IF depth = 0 \/ j > k THEN j
                      ELSE IF HasPrefix(u, j, Opens) THEN f[j + 2][depth + 1]
                      ELSE IF HasPrefix(u, j, Closes) THEN f[j + 2][depth - 1]
                      ELSE f[j + 1][depth]
  BY CommentEndsAre
<1>4. /\ \A j \in 1..(n + 1) : \A depth \in Nat : e[j][depth] \in j..(n + 1)
      /\ \A j \in 1..size : \A depth \in Nat : f[j][depth] \in j..size
  BY CommentEndsIn
<1>5. \A y \in 1..k : /\ HasPrefix(u, y, Opens) <=> HasPrefix(t, d + y, Opens)
                      /\ HasPrefix(u, y, Closes) <=> HasPrefix(t, d + y, Closes)
  BY PrefixAgrees, TokensAreTexts
<1>6. ASSUME NEW y \in 1..k, HasPrefix(u, y, Opens) \/ HasPrefix(u, y, Closes)
      PROVE  y + 2 <= size
  <2>1. y \in Nat /\ (y + Len(Opens) <= Len(u) + 1 \/ y + Len(Closes) <= Len(u) + 1)
    BY <1>6, PrefixFits
  <2> QED
    BY <2>1, TokensAreTexts
<1>7. CommentEnd(u, x) = f[x + 2][1] /\ CommentEnd(t, d + x) = e[(d + x) + 2][1]
  BY DEF CommentEnd, CommentEnds
<1>8. \A a, b : Agrees(u, d, a, b) <=> (a <= k => b = d + a) /\ (a > k => b > d + k)
  BY DEF Agrees
<1>9. x \in 1..k
  OBVIOUS
<1> HIDE DEF n, k, e, f, size
<1>10. ASSUME NEW y \in 1..size, \A z \in (y + 1)..size : z \in Good
       PROVE  y \in Good
  <2> SUFFICES ASSUME NEW depth \in Nat PROVE Agrees(u, d, f[y][depth], e[d + y][depth])
    OBVIOUS
  <2> DEFINE w == d + y
  <2>1. /\ w \in 1..(n + 1) /\ d + (y + 1) = w + 1 /\ d + (y + 2) = w + 2
        /\ y <= k => y \in 1..k /\ ~(w > n)
        /\ w = d + y
    BY <1>1
  <2>2. y \in 1..k => /\ HasPrefix(u, y, Opens) <=> HasPrefix(t, w, Opens)
                      /\ HasPrefix(u, y, Closes) <=> HasPrefix(t, w, Closes)
    BY <1>5
  <2> HIDE DEF w
  <2>3. CASE depth = 0
    <3>1. f[y][depth] = y /\ e[w][depth] = w
      BY <1>2, <1>3, <2>1, <2>3
    <3> QED
      BY <1>1, <1>8, <2>1, <3>1
  <2>4. CASE y > k
    <3>1. f[y][depth] = y /\ e[w][depth] \in w..(n + 1)
      BY <1>3, <1>4, <2>1, <2>4
    <3> QED
      BY <1>1, <1>8, <2>1, <2>4, <3>1
  <2>5. CASE depth # 0 /\ ~(y > k)
    <3>1. depth + 1 \in Nat /\ depth - 1 \in Nat /\ y \in 1..k /\ ~(w > n)
      BY <1>1, <2>1, <2>5
    <3>2. CASE HasPrefix(u, y, Opens)
      <4>1. f[y][depth] = f[y + 2][depth + 1] /\ e[w][depth] = e[w + 2][depth + 1]
        BY <1>2, <1>3, <2>1, <2>2, <2>5, <3>1, <3>2
      <4>2. y + 2 \in (y + 1)..size
        BY <1>1, <1>6, <3>1, <3>2
      <4>3. Agrees(u, d, f[y + 2][depth + 1], e[d + (y + 2)][depth + 1])
        BY <1>10, <3>1, <4>2
      <4> QED
        BY <2>1, <4>1, <4>3
    <3>3. CASE ~HasPrefix(u, y, Opens) /\ HasPrefix(u, y, Closes)
      <4>1. f[y][depth] = f[y + 2][depth - 1] /\ e[w][depth] = e[w + 2][depth - 1]
        BY <1>2, <1>3, <2>1, <2>2, <2>5, <3>1, <3>3
      <4>2. y + 2 \in (y + 1)..size
        BY <1>1, <1>6, <3>1, <3>3
      <4>3. Agrees(u, d, f[y + 2][depth - 1], e[d + (y + 2)][depth - 1])
        BY <1>10, <3>1, <4>2
      <4> QED
        BY <2>1, <4>1, <4>3
    <3>4. CASE ~HasPrefix(u, y, Opens) /\ ~HasPrefix(u, y, Closes)
      <4>1. f[y][depth] = f[y + 1][depth] /\ e[w][depth] = e[w + 1][depth]
        BY <1>2, <1>3, <2>1, <2>2, <2>5, <3>1, <3>4
      <4>2. y + 1 \in (y + 1)..size
        BY <1>1, <3>1
      <4>3. Agrees(u, d, f[y + 1][depth], e[d + (y + 1)][depth])
        BY <1>10, <4>2
      <4> QED
        BY <2>1, <4>1, <4>3
    <3> QED
      BY <3>2, <3>3, <3>4
  <2> QED
    BY <2>3, <2>4, <2>5 DEF w
<1>11. 1..size \subseteq Good
  <2> HIDE DEF Good
  <2>1. size \in Nat
    BY <1>1
  <2> QED
    BY <1>10, <2>1, FromTheEnd
<1>12. x + 2 \in 1..size /\ d + (x + 2) = (d + x) + 2 /\ (d + x) + 2 \in 1..(n + 1)
  <2>1. x + 2 <= size
    BY <1>6, <1>9
  <2> QED
    BY <1>1, <1>9, <2>1
<1>13. f[x + 2][1] \in (x + 2)..size /\ e[(d + x) + 2][1] \in ((d + x) + 2)..(n + 1)
  BY <1>4, <1>12
<1>14. Agrees(u, d, f[x + 2][1], e[d + (x + 2)][1])
  BY <1>11, <1>12
<1>15. e[(d + x) + 2][1] \in Nat
  BY <1>1, <1>9, <1>13
<1> QED
  BY <1>1, <1>7, <1>12, <1>13, <1>14, <1>15 DEF k

-----------------------------------------------------------------------------
(* A round of the scan blanks out the same characters of a window as of its  *)
(* text, and goes on at the same place or beyond the window.                 *)
LEMMA TripleIsText ==
  ASSUME NEW text \in Text, NEW i \in 1..Len(text), text[i] \in Quotes
  PROVE  LET triple == [k \in 1..3 |-> text[i]]
         IN  triple \in Text /\ Token(triple) /\ Len(triple) = 3
<1>1. text[i] \in Characters
  BY DEF Text
<1>2. text[i] # "\n"
  BY DEF Quotes
<1> QED
  BY <1>1, <1>2 DEF Text, Token

LEMMA RoundIs ==
  ASSUME NEW text \in Text, NEW i \in 1..Len(text)
  PROVE  /\ Round(text, i).next \in (i + 1)..(Len(text) + 1)
         /\ \A y \in Round(text, i).blank : y \in i..Len(text)
<1> DEFINE n == Len(text)
           triple == [k \in 1..3 |-> text[i]]
           line == indexFrom(text, i, <<"\n">>)
           comment == CommentEnd(text, i)
           three == indexFrom(text, i + 3, triple)
           literal == LiteralEnd(text, i)
           quoted == text[i] \in Quotes
<1>1. n \in Nat /\ i \in 1..n /\ Window(text, text, 0)
  BY DEF Text, Window
<1>2. Round(text, i) =
        IF HasPrefix(text, i, <<"/", "/">>) THEN [blank |-> i..(line - 1), next |-> line]
        ELSE IF HasPrefix(text, i, <<"/", "*">>)
        THEN [blank |-> i..(comment - 1), next |-> comment]
        ELSE IF quoted /\ HasPrefix(text, i, triple)
        THEN [blank |-> (i + 3)..(three - 1), next |-> Min({three + 3, n + 1})]
        ELSE IF quoted /\ literal <= n /\ text[literal] = text[i]
        THEN [blank |-> (i + 1)..(literal - 1), next |-> literal + 1]
        ELSE [blank |-> {}, next |-> i + 1]
  BY DEF Round
<1>3. CASE HasPrefix(text, i, <<"/", "/">>)
  <2>1. text[i] = "/"
    BY <1>3 DEF HasPrefix
  <2>2. line \in i..(n + 1) /\ (line <= n => HasPrefix(text, line, <<"\n">>))
    BY <1>1, IndexIs
  <2>3. line # i
    <3>1. HasPrefix(text, i, <<"\n">>) => text[i] = "\n"
      BY DEF HasPrefix
    <3> QED
      BY <1>1, <2>1, <2>2, <3>1
  <2>4. Round(text, i) = [blank |-> i..(line - 1), next |-> line]
    BY <1>2, <1>3
  <2> HIDE DEF line, n
  <2> QED
    BY <1>1, <2>2, <2>3, <2>4 DEF n
<1>4. CASE ~HasPrefix(text, i, <<"/", "/">>) /\ HasPrefix(text, i, <<"/", "*">>)
  <2>1. comment \in (i + 2)..(n + 1)
    BY <1>1, <1>4, CommentsAgree DEF Opens
  <2>2. Round(text, i) = [blank |-> i..(comment - 1), next |-> comment]
    BY <1>2, <1>4
  <2> HIDE DEF comment, n
  <2> QED
    BY <1>1, <2>1, <2>2 DEF n
<1>5. CASE /\ ~HasPrefix(text, i, <<"/", "/">>) /\ ~HasPrefix(text, i, <<"/", "*">>)
           /\ quoted /\ HasPrefix(text, i, triple)
  <2>1. three \in (i + 3)..(n + 1) \/ three = n + 1
    BY <1>1, IndexIs
  <2>2. Round(text, i) = [blank |-> (i + 3)..(three - 1), next |-> Min({three + 3, n + 1})]
    BY <1>2, <1>5
  <2>3. i + 3 <= n + 1
    BY <1>1, <1>5, PrefixFits, TripleIsText
  <2> HIDE DEF three, n
  <2>4. Min({three + 3, n + 1}) = IF three + 3 <= n + 1 THEN three + 3 ELSE n + 1
    BY <1>1, <2>1, LesserOfTwo
  <2> QED
    BY <1>1, <2>1, <2>2, <2>3, <2>4 DEF n
<1>6. CASE /\ ~HasPrefix(text, i, <<"/", "/">>) /\ ~HasPrefix(text, i, <<"/", "*">>)
           /\ quoted /\ ~HasPrefix(text, i, triple)
           /\ literal <= n /\ text[literal] = text[i]
  <2>1. literal \in (i + 1)..(n + 1)
    BY <1>1, <1>6, LiteralsAgree
  <2>2. Round(text, i) = [blank |-> (i + 1)..(literal - 1), next |-> literal + 1]
    BY <1>2, <1>6
  <2>3. literal <= n
    BY <1>6
  <2> HIDE DEF literal, n
  <2> QED
    BY <1>1, <2>1, <2>2, <2>3 DEF n
<1>7. CASE /\ ~HasPrefix(text, i, <<"/", "/">>) /\ ~HasPrefix(text, i, <<"/", "*">>)
           /\ ~(quoted /\ HasPrefix(text, i, triple))
           /\ ~(quoted /\ literal <= n /\ text[literal] = text[i])
  <2>1. Round(text, i) = [blank |-> {}, next |-> i + 1]
    BY <1>2, <1>7
  <2> HIDE DEF n
  <2> QED
    BY <1>1, <2>1 DEF n
<1> HIDE DEF literal, triple, quoted
<1> QED
  BY <1>3, <1>4, <1>5, <1>6, <1>7

LEMMA IntervalsAgree ==
  ASSUME NEW u \in Text, NEW d \in Nat, NEW x \in Nat, NEW a \in Nat, NEW b \in Nat,
         Agrees(u, d, a, b), NEW y \in 1..Len(u)
  PROVE  y \in x..(a - 1) <=> d + y \in (d + x)..(b - 1)
<1> DEFINE k == Len(u)
<1>1. k \in Nat
  BY DEF Text
<1>2. (a <= k => b = d + a) /\ (a > k => b > d + k)
  BY DEF Agrees
<1>3. y \in 1..k
  OBVIOUS
<1> HIDE DEF k
<1> QED
  BY <1>1, <1>2, <1>3

LEMMA RoundsAgree ==
  ASSUME NEW t \in Text, NEW u \in Text, NEW d, Window(t, u, d), NEW x \in 1..Len(u)
  PROVE  /\ Agrees(u, d, Round(u, x).next, Round(t, d + x).next)
         /\ \A y \in 1..Len(u) : y \in Round(u, x).blank <=> d + y \in Round(t, d + x).blank
<1> DEFINE n == Len(t)
           k == Len(u)
           z == d + x
           triple == [j \in 1..3 |-> u[x]]
           lineU == indexFrom(u, x, <<"\n">>)
           lineT == indexFrom(t, z, <<"\n">>)
           commentU == CommentEnd(u, x)
           commentT == CommentEnd(t, z)
           threeU == indexFrom(u, x + 3, triple)
           threeT == indexFrom(t, z + 3, triple)
           literalU == LiteralEnd(u, x)
           literalT == LiteralEnd(t, z)
           quoted == u[x] \in Quotes
           pairedU == literalU <= k /\ u[literalU] = u[x]
           pairedT == literalT <= n /\ t[literalT] = u[x]
           LineComment == HasPrefix(u, x, <<"/", "/">>)
           BlockComment == HasPrefix(u, x, <<"/", "*">>)
           Triple == HasPrefix(u, x, triple)
<1>1. n \in Nat /\ k \in Nat /\ d \in Nat /\ d + k <= n /\ x \in 1..k /\ z \in 1..n /\ z = d + x
  BY DEF Text, Window
<1>2. u[x] = t[z] /\ \A y \in 1..k : u[y] = t[d + y]
  BY DEF Window
<1>3. /\ HasPrefix(t, z, <<"/", "/">>) <=> LineComment
      /\ HasPrefix(t, z, <<"/", "*">>) <=> BlockComment
  BY PrefixAgrees, TokensAreTexts DEF Opens
<1>4. quoted => triple \in Text /\ Token(triple) /\ Len(triple) = 3
  BY TripleIsText
<1>5. quoted => (HasPrefix(t, z, triple) <=> Triple)
  BY <1>4, PrefixAgrees
<1>6. Round(u, x) =
        IF LineComment THEN [blank |-> x..(lineU - 1), next |-> lineU]
        ELSE IF BlockComment THEN [blank |-> x..(commentU - 1), next |-> commentU]
        ELSE IF quoted /\ Triple
        THEN [blank |-> (x + 3)..(threeU - 1), next |-> Min({threeU + 3, k + 1})]
        ELSE IF quoted /\ pairedU
        THEN [blank |-> (x + 1)..(literalU - 1), next |-> literalU + 1]
        ELSE [blank |-> {}, next |-> x + 1]
  BY DEF Round
<1>7. Round(t, z) =
        IF LineComment THEN [blank |-> z..(lineT - 1), next |-> lineT]
        ELSE IF BlockComment THEN [blank |-> z..(commentT - 1), next |-> commentT]
        ELSE IF quoted /\ Triple
        THEN [blank |-> (z + 3)..(threeT - 1), next |-> Min({threeT + 3, n + 1})]
        ELSE IF quoted /\ pairedT
        THEN [blank |-> (z + 1)..(literalT - 1), next |-> literalT + 1]
        ELSE [blank |-> {}, next |-> z + 1]
  <2>1. Round(t, z) =
        IF HasPrefix(t, z, <<"/", "/">>) THEN [blank |-> z..(lineT - 1), next |-> lineT]
        ELSE IF HasPrefix(t, z, <<"/", "*">>)
        THEN [blank |-> z..(commentT - 1), next |-> commentT]
        ELSE IF quoted /\ HasPrefix(t, z, triple)
        THEN [blank |-> (z + 3)..(threeT - 1), next |-> Min({threeT + 3, n + 1})]
        ELSE IF quoted /\ pairedT
        THEN [blank |-> (z + 1)..(literalT - 1), next |-> literalT + 1]
        ELSE [blank |-> {}, next |-> z + 1]
    <3> HIDE DEF z
    <3> QED
      BY <1>2 DEF Round
  <2> HIDE DEF z, lineT, commentT, threeT, literalT, pairedT, quoted, triple, LineComment, BlockComment, Triple, n
  <2> QED
    BY <1>3, <1>5, <2>1
<1>8. \A a, b : Agrees(u, d, a, b) <=> (a <= k => b = d + a) /\ (a > k => b > d + k)
  BY DEF Agrees
<1>9. CASE LineComment
  <2>1. Agrees(u, d, lineU, lineT)
    <3> DEFINE break == <<"\n">>
    <3>1. break \in Text /\ Token(break) /\ Len(break) > 0 /\ x \in Nat \ {0}
      BY <1>1, TokensAreTexts
    <3>2. Agrees(u, d, indexFrom(u, x, break), indexFrom(t, d + x, break))
      <4> HIDE DEF break
      <4> QED
        BY <3>1, IndexAgrees
    <3> QED
      BY <3>2
  <2>2. lineU \in Nat /\ lineT \in Nat
    <3> HIDE DEF z
    <3>1. lineU \in x..k \/ lineU = k + 1
      BY <1>1, IndexIs
    <3>2. lineT \in z..n \/ lineT = n + 1
      BY <1>1, IndexIs
    <3> QED
      BY <1>1, <3>1, <3>2
  <2>3. \A y \in 1..k : y \in x..(lineU - 1) <=> d + y \in z..(lineT - 1)
    <3> HIDE DEF lineU, lineT
    <3>1. x \in Nat
      BY <1>1
    <3> QED
      BY <1>1, <2>1, <2>2, <3>1, IntervalsAgree
  <2>4. /\ Round(u, x) = [blank |-> x..(lineU - 1), next |-> lineU]
        /\ Round(t, z) = [blank |-> z..(lineT - 1), next |-> lineT]
    BY <1>6, <1>7, <1>9
  <2> HIDE DEF lineU, lineT, z
  <2>5. /\ Agrees(u, d, Round(u, x).next, Round(t, z).next)
        /\ \A y \in 1..k : y \in Round(u, x).blank <=> d + y \in Round(t, z).blank
    BY <2>1, <2>3, <2>4
  <2> QED
    BY <2>5 DEF z
<1>10. CASE ~LineComment /\ BlockComment
  <2>1. Agrees(u, d, commentU, commentT) /\ commentU \in (x + 2)..(k + 1) /\ commentT \in Nat
    BY <1>10, CommentsAgree DEF Opens
  <2>2. commentU \in Nat
    BY <1>1, <2>1
  <2>3. \A y \in 1..k : y \in x..(commentU - 1) <=> d + y \in z..(commentT - 1)
    <3> HIDE DEF commentU, commentT
    <3> QED
      BY <1>1, <2>1, <2>2, IntervalsAgree
  <2>4. /\ Round(u, x) = [blank |-> x..(commentU - 1), next |-> commentU]
        /\ Round(t, z) = [blank |-> z..(commentT - 1), next |-> commentT]
    BY <1>6, <1>7, <1>10
  <2> HIDE DEF commentU, commentT, z
  <2>5. /\ Agrees(u, d, Round(u, x).next, Round(t, z).next)
        /\ \A y \in 1..k : y \in Round(u, x).blank <=> d + y \in Round(t, z).blank
    BY <2>1, <2>3, <2>4
  <2> QED
    BY <2>5 DEF z
<1>11. CASE ~LineComment /\ ~BlockComment /\ quoted /\ Triple
  <2>1. z + 3 = d + (x + 3) /\ x + 3 \in Nat \ {0}
    BY <1>1
  <2>2. Agrees(u, d, threeU, threeT)
    <3>1. Agrees(u, d, indexFrom(u, x + 3, triple), indexFrom(t, d + (x + 3), triple))
      BY <1>4, <1>11, <2>1, IndexAgrees
    <3> QED
      BY <2>1, <3>1
  <2>3. /\ threeU \in (x + 3)..k \/ threeU = k + 1
        /\ threeU <= k => HasPrefix(u, threeU, triple)
    BY <2>1, IndexIs
  <2>4. threeT \in (z + 3)..n \/ threeT = n + 1
    <3> HIDE DEF z
    <3>1. z + 3 \in Nat \ {0}
      BY <1>1
    <3> QED
      BY <3>1, IndexIs
  <2>5. threeU \in Nat /\ threeT \in Nat
    BY <1>1, <2>3, <2>4
  <2>6. threeU <= k => threeU + 3 <= k + 1
    BY <1>4, <1>11, <2>3, <2>5, PrefixFits
  <2> HIDE DEF threeU, threeT, triple
  <2>7. \A y \in 1..k : y \in (x + 3)..(threeU - 1) <=> d + y \in (z + 3)..(threeT - 1)
    <3> SUFFICES ASSUME NEW y \in 1..k
                 PROVE  y \in (x + 3)..(threeU - 1) <=> d + y \in (z + 3)..(threeT - 1)
      OBVIOUS
    <3> DEFINE e == x + 3
    <3>1. e \in Nat /\ z + 3 = d + e
      BY <2>1
    <3> HIDE DEF e
    <3>2. y \in e..(threeU - 1) <=> d + y \in (d + e)..(threeT - 1)
      BY <1>1, <2>2, <2>5, <3>1, IntervalsAgree
    <3> QED
      BY <3>1, <3>2 DEF e
  <2>8. /\ Min({threeU + 3, k + 1}) = IF threeU + 3 <= k + 1 THEN threeU + 3 ELSE k + 1
        /\ Min({threeT + 3, n + 1}) = IF threeT + 3 <= n + 1 THEN threeT + 3 ELSE n + 1
    BY <1>1, <2>5, LesserOfTwo
  <2>9. (threeU <= k => threeT = d + threeU) /\ (threeU > k => threeT > d + k)
    BY <1>8, <2>2
  <2> HIDE DEF k, n, z
  <2>10. Agrees(u, d, Min({threeU + 3, k + 1}), Min({threeT + 3, n + 1}))
    <3> DEFINE a == Min({threeU + 3, k + 1})
               b == Min({threeT + 3, n + 1})
    <3>1. (a <= k => b = d + a) /\ (a > k => b > d + k)
      BY <1>1, <2>5, <2>6, <2>8, <2>9
    <3> QED
      BY <1>8, <3>1
  <2>11. /\ Round(u, x) = [blank |-> (x + 3)..(threeU - 1), next |-> Min({threeU + 3, k + 1})]
         /\ Round(t, z) = [blank |-> (z + 3)..(threeT - 1), next |-> Min({threeT + 3, n + 1})]
    BY <1>6, <1>7, <1>11
  <2>12. /\ Agrees(u, d, Round(u, x).next, Round(t, z).next)
         /\ \A y \in 1..k : y \in Round(u, x).blank <=> d + y \in Round(t, z).blank
    BY <2>7, <2>10, <2>11
  <2> QED
    BY <2>12 DEF z, k
<1>12. CASE ~LineComment /\ ~BlockComment /\ ~(quoted /\ Triple)
  <2>1. quoted => /\ literalU \in (x + 1)..(k + 1)
                  /\ literalT = d + literalU
                  /\ literalU <= k \/ d + k = n
    BY LiteralsAgree
  <2> HIDE DEF literalU, literalT
  <2>2. quoted => (pairedU <=> pairedT)
    <3> SUFFICES ASSUME quoted PROVE pairedU <=> pairedT
      OBVIOUS
    <3>1. literalU <= k <=> literalT <= n
      BY <1>1, <2>1
    <3>2. literalU <= k => u[literalU] = t[literalT]
      BY <1>1, <1>2, <2>1
    <3> QED
      BY <3>1, <3>2
  <2>3. CASE quoted /\ pairedU
    <3>1. literalU \in Nat /\ literalT = d + literalU /\ literalU <= k
      BY <1>1, <2>1, <2>3
    <3>2. Agrees(u, d, literalU, literalT) /\ Agrees(u, d, literalU + 1, literalT + 1)
      <4>1. /\ literalU <= k => literalT = d + literalU
            /\ literalU > k => literalT > d + k
            /\ literalU + 1 <= k => literalT + 1 = d + (literalU + 1)
            /\ literalU + 1 > k => literalT + 1 > d + k
        BY <1>1, <3>1
      <4> QED
        BY <1>8, <4>1
    <3>3. \A y \in 1..k : y \in (x + 1)..(literalU - 1) <=> d + y \in (z + 1)..(literalT - 1)
      <4>1. z + 1 = d + (x + 1) /\ x + 1 \in Nat /\ literalT \in Nat
        BY <1>1, <3>1
      <4> QED
        BY <1>1, <3>1, <3>2, <4>1, IntervalsAgree
    <3>4. /\ Round(u, x) = [blank |-> (x + 1)..(literalU - 1), next |-> literalU + 1]
          /\ Round(t, z) = [blank |-> (z + 1)..(literalT - 1), next |-> literalT + 1]
      BY <1>6, <1>7, <1>12, <2>2, <2>3
    <3> HIDE DEF z
    <3>5. /\ Agrees(u, d, Round(u, x).next, Round(t, z).next)
          /\ \A y \in 1..k : y \in Round(u, x).blank <=> d + y \in Round(t, z).blank
      BY <3>2, <3>3, <3>4
    <3> QED
      BY <3>5 DEF z
  <2>4. CASE ~(quoted /\ pairedU)
    <3>1. Agrees(u, d, x + 1, z + 1)
      <4>1. (x + 1 <= k => z + 1 = d + (x + 1)) /\ (x + 1 > k => z + 1 > d + k)
        BY <1>1
      <4> QED
        BY <1>8, <4>1
    <3>2. /\ Round(u, x) = [blank |-> {}, next |-> x + 1]
          /\ Round(t, z) = [blank |-> {}, next |-> z + 1]
      BY <1>6, <1>7, <1>12, <2>2, <2>4
    <3> HIDE DEF z
    <3>3. /\ Agrees(u, d, Round(u, x).next, Round(t, z).next)
          /\ \A y \in 1..k : y \in Round(u, x).blank <=> d + y \in Round(t, z).blank
      BY <3>1, <3>2
    <3> QED
      BY <3>3 DEF z
  <2> QED
    BY <2>3, <2>4
<1> QED
  BY <1>9, <1>10, <1>11, <1>12

-----------------------------------------------------------------------------
(* The scan, round after round.                                             *)
Blanks(text) ==
  LET n == Len(text)
      blank[i \in 1..(n + 1)] ==
        IF i > n THEN {} ELSE Round(text, i).blank \union blank[Round(text, i).next]
  IN  blank

LEMMA BlanksAre ==
  ASSUME NEW text \in Text
  PROVE  LET n == Len(text)
             b == Blanks(text)
         IN  /\ \A i \in 1..n : b[i] = Round(text, i).blank \union b[Round(text, i).next]
             /\ b[n + 1] = {}
<1> DEFINE n == Len(text)
           size == n + 1
           V == SUBSET (1..n)
           Stop == {n + 1}
           next == [i \in 1..size |-> Round(text, i).next]
           last == [i \in 1..size |-> {}]
           own == [i \in 1..size |-> IF i \in Stop THEN {} ELSE Round(text, i).blank]
           op == [i \in 1..size |-> [v \in V |-> own[i] \union v]]
           F(f) == [i \in 1..(n + 1) |->
                      IF i > n THEN {} ELSE Round(text, i).blank \union f[Round(text, i).next]]
           b == CHOOSE f : f = F(f)
<1>1. n \in Nat /\ size \in Nat /\ size = n + 1
  BY DEF Text
<1>2. Blanks(text) = b
  BY DEF Blanks
<1>3. ASSUME NEW i \in 1..n
      PROVE  Round(text, i).next \in (i + 1)..size /\ Round(text, i).blank \in V
  <2>1. /\ Round(text, i).next \in (i + 1)..(n + 1)
        /\ \A y \in Round(text, i).blank : y \in i..n
    BY RoundIs
  <2>2. i..n \subseteq 1..n
    OBVIOUS
  <2> QED
    BY <2>1, <2>2
<1> HIDE DEF n
<1>4. \A i \in 1..size : own[i] \in V
  BY <1>1, <1>3
<1> HIDE DEF own
<1>5. op \in [1..size -> [V -> V]] /\ last \in [1..size -> V]
  <2>1. \A i \in 1..size : \A v \in V : own[i] \union v \in V
    BY <1>4
  <2>2. {} \in V
    OBVIOUS
  <2> HIDE DEF V
  <2> QED
    BY <2>1, <2>2
<1>6. \A i \in 1..size : i \notin Stop => next[i] \in (i + 1)..size
  BY <1>1, <1>3
<1>7. \E f \in [1..size -> V] : \A i \in 1..size :
        f[i] = IF i \in Stop THEN last[i] ELSE op[i][f[next[i]]]
  <2>1. Scan(size, V, Stop, next, last, op)
    BY <1>1, <1>5, <1>6 DEF Scan
  <2> HIDE DEF V, Stop, next, last, op, size
  <2> QED
    BY <2>1, ScanIsDefined
<1>8. PICK f \in [1..size -> V] : \A i \in 1..size :
        f[i] = IF i \in Stop THEN last[i] ELSE op[i][f[next[i]]]
  BY <1>7
<1>9. f = F(f)
  <2> SUFFICES ASSUME NEW i \in 1..size PROVE f[i] = F(f)[i]
    OBVIOUS
  <2>1. CASE i = n + 1
    <3>1. F(f)[i] = {}
      BY <1>1, <2>1
    <3> QED
      BY <1>8, <2>1, <3>1
  <2>2. CASE i # n + 1
    <3>1. i \in 1..n
      BY <1>1, <2>2
    <3>2. next[i] \in 1..size
      <4>1. next[i] \in (i + 1)..size
        BY <1>6, <2>2
      <4>2. (i + 1)..size \subseteq 1..size
        BY <3>1
      <4> QED
        BY <4>1, <4>2
    <3>3. f[next[i]] \in V
      BY <3>2
    <3>4. f[i] = op[i][f[next[i]]]
      BY <1>8, <2>2
    <3>5. f[i] = own[i] \union f[next[i]]
      BY <3>3, <3>4
    <3>6. own[i] = Round(text, i).blank
      BY <2>2 DEF own
    <3>7. F(f)[i] = Round(text, i).blank \union f[next[i]]
      BY <1>1, <3>1
    <3> QED
      BY <3>5, <3>6, <3>7
  <2> QED
    BY <2>1, <2>2
<1>10. b = F(b)
  BY <1>9
<1> HIDE DEF b
<1>11. ASSUME NEW i \in 1..n
       PROVE  b[i] = Round(text, i).blank \union b[Round(text, i).next]
  <2>1. b[i] = F(b)[i]
    BY <1>10
  <2> QED
    BY <1>1, <2>1
<1>12. b[n + 1] = {}
  <2>1. b[n + 1] = F(b)[n + 1]
    BY <1>10
  <2> QED
    BY <1>1, <2>1
<1> QED
  BY <1>2, <1>11, <1>12 DEF n

LEMMA BlanksFrom ==
  ASSUME NEW text \in Text
  PROVE  \A i \in 1..(Len(text) + 1) : \A y \in Blanks(text)[i] : y \in i..Len(text)
<1> DEFINE n == Len(text)
           size == n + 1
           b == Blanks(text)
           Good == {i \in 1..size : \A y \in b[i] : y \in i..n}
<1>1. n \in Nat /\ size \in Nat /\ size = n + 1
  BY DEF Text
<1>2. /\ \A i \in 1..n : b[i] = Round(text, i).blank \union b[Round(text, i).next]
      /\ b[n + 1] = {}
  BY BlanksAre
<1>3. \A i \in 1..n : /\ Round(text, i).next \in (i + 1)..(n + 1)
                      /\ \A y \in Round(text, i).blank : y \in i..n
  BY RoundIs
<1> HIDE DEF n, b, size
<1>4. ASSUME NEW x \in 1..size, \A y \in (x + 1)..size : y \in Good
      PROVE  x \in Good
  <2> SUFFICES ASSUME NEW y \in b[x] PROVE y \in x..n
    OBVIOUS
  <2>1. x \in 1..n
    BY <1>1, <1>2
  <2>2. CASE y \in Round(text, x).blank
    BY <1>3, <2>1, <2>2
  <2>3. CASE y \in b[Round(text, x).next]
    <3> DEFINE next == Round(text, x).next
    <3>1. next \in (x + 1)..size
      BY <1>1, <1>3, <2>1
    <3>2. y \in next..n
      BY <1>4, <2>3, <3>1
    <3> HIDE DEF next
    <3> QED
      BY <1>1, <2>1, <3>1, <3>2
  <2> QED
    BY <1>2, <2>1, <2>2, <2>3
<1>5. 1..size \subseteq Good
  <2> HIDE DEF Good
  <2> QED
    BY <1>1, <1>4, FromTheEnd
<1> QED
  BY <1>5 DEF n, size, b

LEMMA BlanksAgree ==
  ASSUME NEW t \in Text, NEW u \in Text, NEW d, Window(t, u, d)
  PROVE  \A y \in 1..Len(u) : y \in Blanks(u)[1] <=> d + y \in Blanks(t)[d + 1]
<1> DEFINE n == Len(t)
           k == Len(u)
           size == k + 1
           b == Blanks(t)
           c == Blanks(u)
           Good == {x \in 1..size : \A y \in 1..k : y \in c[x] <=> d + y \in b[d + x]}
<1>1. n \in Nat /\ k \in Nat /\ d \in Nat /\ d + k <= n /\ size \in Nat /\ size = k + 1
  BY DEF Text, Window
<1>2. /\ \A i \in 1..k : c[i] = Round(u, i).blank \union c[Round(u, i).next]
      /\ c[size] = {}
  BY BlanksAre
<1>3. \A i \in 1..n : b[i] = Round(t, i).blank \union b[Round(t, i).next]
  BY BlanksAre
<1>4. \A i \in 1..(n + 1) : \A y \in b[i] : y \in i..n
  BY BlanksFrom
<1>5. ASSUME NEW x \in 1..k
      PROVE  /\ Round(u, x).next \in (x + 1)..size
             /\ Round(t, d + x).next \in 1..(n + 1)
             /\ Round(u, x).next <= k => Round(t, d + x).next = d + Round(u, x).next
             /\ Round(u, x).next > k => Round(t, d + x).next > d + k
             /\ \A y \in 1..k : y \in Round(u, x).blank <=> d + y \in Round(t, d + x).blank
  <2>1. Round(u, x).next \in (x + 1)..size
    BY RoundIs
  <2>2. d + x \in 1..n
    BY <1>1
  <2>3. Round(t, d + x).next \in ((d + x) + 1)..(n + 1)
    BY <2>2, RoundIs
  <2>4. ((d + x) + 1)..(n + 1) \subseteq 1..(n + 1)
    BY <2>2
  <2> QED
    BY <2>1, <2>3, <2>4, RoundsAgree DEF Agrees
<1> HIDE DEF n, k, b, c, size
<1>6. ASSUME NEW x \in 1..size, \A z \in (x + 1)..size : z \in Good
      PROVE  x \in Good
  <2> SUFFICES ASSUME NEW y \in 1..k PROVE y \in c[x] <=> d + y \in b[d + x]
    OBVIOUS
  <2>1. CASE x = size
    <3>1. d + x \in 1..(n + 1) /\ ~(d + x <= d + y)
      BY <1>1, <2>1
    <3>2. d + y \notin b[d + x]
      BY <1>4, <3>1
    <3> QED
      BY <1>2, <2>1, <3>2
  <2>2. CASE x # size
    <3>1. x \in 1..k /\ d + x \in 1..n
      BY <1>1, <2>2
    <3> DEFINE next == Round(u, x).next
               onwards == Round(t, d + x).next
    <3>2. /\ next \in (x + 1)..size /\ onwards \in 1..(n + 1)
          /\ next <= k => onwards = d + next
          /\ next > k => onwards > d + k
          /\ y \in Round(u, x).blank <=> d + y \in Round(t, d + x).blank
      BY <1>5, <3>1
    <3>3. c[x] = Round(u, x).blank \union c[next] /\ b[d + x] = Round(t, d + x).blank \union b[onwards]
      BY <1>2, <1>3, <3>1
    <3> HIDE DEF next, onwards
    <3>4. y \in c[next] <=> d + y \in b[onwards]
      <4>1. CASE next <= k
        <5>1. next \in Good
          BY <1>6, <3>2
        <5> QED
          BY <3>2, <4>1, <5>1
      <4>2. CASE next > k
        <5>1. next = size
          BY <1>1, <3>1, <3>2, <4>2
        <5>2. ~(onwards <= d + y)
          BY <1>1, <3>2, <4>2
        <5>3. d + y \notin b[onwards]
          BY <1>4, <3>2, <5>2
        <5> QED
          BY <1>2, <5>1, <5>3
      <4> QED
        BY <1>1, <3>1, <3>2, <4>1, <4>2
    <3> QED
      BY <3>2, <3>3, <3>4
  <2> QED
    BY <2>1, <2>2
<1>7. 1..size \subseteq Good
  <2> HIDE DEF Good
  <2> QED
    BY <1>1, <1>6, FromTheEnd
<1>8. 1 \in Good
  BY <1>1, <1>7
<1> QED
  BY <1>8 DEF k, b, c

\* What stripNonCode leaves, character by character.
Stripes == Characters \union {" "}

Stripped(text, i) == IF i \in Blanks(text)[1] /\ text[i] # "\n" THEN " " ELSE text[i]

LEMMA TextIsStripes ==
  ASSUME NEW s \in Text
  PROVE  s \in Seq(Stripes)
<1>1. \A i \in 1..Len(s) : s[i] \in Stripes
  <2>1. \A i \in 1..Len(s) : s[i] \in Characters
    BY DEF Text
  <2> QED
    BY <2>1 DEF Stripes
<1>2. s = [i \in 1..Len(s) |-> s[i]] /\ Len(s) \in Nat
  BY DEF Text
<1> QED
  BY <1>1, <1>2

LEMMA Stripe ==
  ASSUME NEW n \in Nat
  PROVE  LET s == [i \in 1..n |-> " "]
         IN  s \in Seq(Stripes) /\ Len(s) = n /\ \A i \in 1..n : s[i] = " "
BY DEF Stripes

LEMMA StrippedIs ==
  ASSUME NEW text \in Text
  PROVE  /\ stripNonCode(text) = [i \in 1..Len(text) |-> Stripped(text, i)]
         /\ stripNonCode(text) \in Seq(Stripes) /\ Len(stripNonCode(text)) = Len(text)
<1>1. stripNonCode(text) = [i \in 1..Len(text) |-> Stripped(text, i)]
  BY DEF stripNonCode, Blanks, Stripped
<1>2. Len(text) \in Nat
  BY DEF Text
<1>3. \A i \in 1..Len(text) : Stripped(text, i) \in Stripes
  <2>1. \A i \in 1..Len(text) : text[i] \in Characters
    BY DEF Text
  <2> QED
    BY <2>1 DEF Stripped, Stripes
<1>4. [i \in 1..Len(text) |-> Stripped(text, i)] \in [1..Len(text) -> Stripes]
  BY <1>3
<1> DEFINE s == stripNonCode(text)
<1>5. s \in [1..Len(text) -> Stripes]
  BY <1>1, <1>4
<1> HIDE DEF s
<1>6. s \in Seq(Stripes) /\ Len(s) = Len(text)
  BY <1>2, <1>5
<1> QED
  BY <1>1, <1>6 DEF s

-----------------------------------------------------------------------------
\* The first k characters are a window that ends with a line.
LEMMA LinesAreFinalIn ==
  ASSUME NEW text \in Text
  PROVE  LinesAreFinal(text)
<1> SUFFICES ASSUME NEW k \in DOMAIN text, text[k] = "\n", k > 1 => text[k - 1] # "\\"
             PROVE  SubSeq(stripNonCode(text), 1, k) = stripNonCode(SubSeq(text, 1, k))
  BY DEF LinesAreFinal
<1> DEFINE n == Len(text)
           u == SubSeq(text, 1, k)
           s == stripNonCode(text)
<1>1. n \in Nat /\ k \in 1..n
  BY DEF Text
<1>2. u \in Text /\ Len(u) = k /\ \A x \in 1..k : u[x] = text[x]
  BY <1>1 DEF Text
<1>3. Window(text, u, 0)
  <2> HIDE DEF u
  <2> QED
    BY <1>1, <1>2 DEF Window
<1>4. \A y \in 1..k : y \in Blanks(u)[1] <=> y \in Blanks(text)[1]
  <2> HIDE DEF u
  <2>1. \A y \in 1..Len(u) : y \in Blanks(u)[1] <=> 0 + y \in Blanks(text)[0 + 1]
    BY <1>2, <1>3, BlanksAgree
  <2>2. \A y \in 1..k : 0 + y = y
    BY <1>1
  <2> QED
    BY <1>2, <2>1, <2>2
<1>5. /\ s = [i \in 1..n |-> Stripped(text, i)] /\ s \in Seq(Stripes) /\ Len(s) = n
      /\ stripNonCode(u) = [i \in 1..k |-> Stripped(u, i)]
  <2> HIDE DEF u
  <2> QED
    BY <1>2, StrippedIs
<1> HIDE DEF s, u
<1>6. SubSeq(s, 1, k) = [i \in 1..k |-> s[i]]
  BY <1>1, <1>5
<1>7. ASSUME NEW i \in 1..k
      PROVE  s[i] = Stripped(u, i)
  <2>1. s[i] = Stripped(text, i)
    BY <1>1, <1>5
  <2> QED
    BY <1>2, <1>4, <2>1 DEF Stripped
<1>8. [i \in 1..k |-> s[i]] = [i \in 1..k |-> Stripped(u, i)]
  BY <1>7
<1> QED
  BY <1>5, <1>6, <1>8 DEF s, u

-----------------------------------------------------------------------------
\* Where the literal at i ends that is closed at j.
LEMMA ClosedLiteralEnds ==
  ASSUME NEW text \in Text, NEW i \in 1..Len(text), NEW j \in 1..Len(text),
         i < j, text[i] \in Quotes, text[j] = text[i],
         \A m \in (i + 1)..(j - 1) : text[m] \notin {text[i], "\\", "\n"}
  PROVE  LiteralEnd(text, i) = j
<1> DEFINE n == Len(text)
           e == LiteralEnds(text, text[i])
           Good == {m \in 1..j : m > i => e[m] = j}
<1>1. n \in Nat /\ i \in 1..n /\ j \in 1..n
  BY DEF Text
<1>2. LiteralEnd(text, i) = e[i + 1]
  BY DEF LiteralEnd, LiteralEnds
<1>3. \A m \in 1..(n + 2) :
        e[m] = IF m > n THEN n + 1
               ELSE IF text[m] \in {text[i], "\n"} THEN m
               ELSE IF text[m] = "\\" THEN e[m + 2]
               ELSE e[m + 1]
  BY LiteralEndsAre
<1> HIDE DEF n, e
<1>4. ASSUME NEW x \in 1..j, \A y \in (x + 1)..j : y \in Good
      PROVE  x \in Good
  <2> SUFFICES ASSUME x > i PROVE e[x] = j
    OBVIOUS
  <2>1. x \in 1..(n + 2) /\ ~(x > n)
    BY <1>1
  <2>2. CASE x = j
    BY <1>3, <2>1, <2>2
  <2>3. CASE x # j
    <3>1. x \in (i + 1)..(j - 1) /\ x + 1 \in (x + 1)..j /\ x + 1 > i
      BY <1>1, <2>3
    <3>2. e[x] = e[x + 1]
      BY <1>3, <2>1, <3>1
    <3>3. x + 1 \in Good
      BY <1>4, <3>1
    <3> QED
      BY <3>1, <3>2, <3>3
  <2> QED
    BY <2>2, <2>3
<1>5. 1..j \subseteq Good
  <2> HIDE DEF Good
  <2>1. j \in Nat
    BY <1>1
  <2> QED
    BY <1>4, <2>1, FromTheEnd
<1>6. i + 1 \in 1..j /\ i + 1 > i
  BY <1>1
<1> QED
  BY <1>2, <1>5, <1>6

LEMMA OrdinaryIsKept ==
  ASSUME NEW text \in Text, NEW i \in 1..Len(text),
         \A m \in 1..(i - 1) : text[m] \in {"x", "\n"}
  PROVE  Blanks(text)[1] = Blanks(text)[i]
<1> DEFINE n == Len(text)
           b == Blanks(text)
           Good == {m \in 1..i : b[m] = b[i]}
<1>1. n \in Nat /\ i \in 1..n
  BY DEF Text
<1>2. \A m \in 1..n : b[m] = Round(text, m).blank \union b[Round(text, m).next]
  BY BlanksAre
<1>3. ASSUME NEW m \in 1..(i - 1)
      PROVE  Round(text, m) = [blank |-> {}, next |-> m + 1]
  <2>1. text[m] \notin Quotes /\ text[m] # "/"
    BY DEF Quotes
  <2>2. ~HasPrefix(text, m, <<"/", "/">>) /\ ~HasPrefix(text, m, <<"/", "*">>)
    BY <2>1 DEF HasPrefix
  <2> QED
    BY <2>1, <2>2 DEF Round
<1> HIDE DEF n, b
<1>4. ASSUME NEW x \in 1..i, \A y \in (x + 1)..i : y \in Good
      PROVE  x \in Good
  <2>1. CASE x = i
    BY <2>1
  <2>2. CASE x # i
    <3>1. x \in 1..(i - 1) /\ x \in 1..n /\ x + 1 \in (x + 1)..i
      BY <1>1, <2>2
    <3>2. b[x] = {} \union b[x + 1]
      <4>1. Round(text, x) = [blank |-> {}, next |-> x + 1]
        BY <1>3, <3>1
      <4>2. b[x] = Round(text, x).blank \union b[Round(text, x).next]
        BY <1>2, <3>1
      <4> QED
        BY <4>1, <4>2
    <3>3. b[x + 1] = b[i]
      BY <1>4, <3>1
    <3> QED
      BY <3>2, <3>3
  <2> QED
    BY <2>1, <2>2
<1>5. 1..i \subseteq Good
  <2> HIDE DEF Good
  <2>1. i \in Nat
    BY <1>1
  <2> QED
    BY <1>4, <2>1, FromTheEnd
<1>6. 1 \in 1..i
  BY <1>1
<1> QED
  BY <1>5, <1>6 DEF b

LEMMA TwoParts ==
  ASSUME NEW S, NEW a \in Seq(S), NEW b \in Seq(S)
  PROVE  /\ a \o b \in Seq(S) /\ Len(a \o b) = Len(a) + Len(b)
         /\ \A i \in 1..Len(a \o b) : (a \o b)[i] = IF i <= Len(a) THEN a[i] ELSE b[i - Len(a)]
OBVIOUS

LEMMA FourParts ==
  ASSUME NEW S, NEW a \in Seq(S), NEW b \in Seq(S), NEW c \in Seq(S), NEW d \in Seq(S)
  PROVE  LET s == a \o b \o c \o d
             la == Len(a)
             lb == la + Len(b)
             lc == lb + Len(c)
         IN  /\ s \in Seq(S) /\ Len(s) = lc + Len(d)
             /\ \A i \in 1..Len(s) : s[i] = IF i <= la THEN a[i]
                                            ELSE IF i <= lb THEN b[i - la]
                                            ELSE IF i <= lc THEN c[i - lb]
                                            ELSE d[i - lc]
<1> DEFINE ab == a \o b
           abc == ab \o c
           s == abc \o d
<1>1. /\ ab \in Seq(S) /\ Len(ab) = Len(a) + Len(b)
      /\ \A i \in 1..Len(ab) : ab[i] = IF i <= Len(a) THEN a[i] ELSE b[i - Len(a)]
  BY TwoParts
<1> HIDE DEF ab
<1>2. /\ abc \in Seq(S) /\ Len(abc) = Len(ab) + Len(c)
      /\ \A i \in 1..Len(abc) : abc[i] = IF i <= Len(ab) THEN ab[i] ELSE c[i - Len(ab)]
  <2>1. ab \in Seq(S)
    BY <1>1
  <2> QED
    BY <2>1, TwoParts
<1> HIDE DEF abc
<1>3. /\ s \in Seq(S) /\ Len(s) = Len(abc) + Len(d)
      /\ \A i \in 1..Len(s) : s[i] = IF i <= Len(abc) THEN abc[i] ELSE d[i - Len(abc)]
  <2>1. abc \in Seq(S)
    BY <1>2
  <2> QED
    BY <2>1, TwoParts
<1> HIDE DEF s
<1>4. Len(a) \in Nat /\ Len(b) \in Nat /\ Len(c) \in Nat /\ Len(d) \in Nat
  OBVIOUS
<1>5. ASSUME NEW i \in 1..Len(s)
      PROVE  s[i] = IF i <= Len(a) THEN a[i]
                    ELSE IF i <= Len(a) + Len(b) THEN b[i - Len(a)]
                    ELSE IF i <= Len(a) + Len(b) + Len(c) THEN c[i - (Len(a) + Len(b))]
                    ELSE d[i - (Len(a) + Len(b) + Len(c))]
  BY <1>1, <1>2, <1>3, <1>4
<1> QED
  BY <1>1, <1>2, <1>3, <1>5 DEF s, abc, ab

LEMMA PartIs ==
  ASSUME NEW S, NEW s \in Seq(S), NEW a \in Nat \ {0}, NEW b \in Nat,
         b <= Len(s), a <= b + 1
  PROVE  LET part == SubSeq(s, a, b)
         IN  /\ part \in Seq(S) /\ Len(part) = (b - a) + 1
             /\ \A y \in 1..((b - a) + 1) : part[y] = s[(a + y) - 1]
<1> DEFINE part == SubSeq(s, a, b)
<1>1. part = [y \in 1..((b - a) + 1) |-> s[(a + y) - 1]] /\ (b - a) + 1 \in Nat
  OBVIOUS
<1>2. \A y \in 1..((b - a) + 1) : s[(a + y) - 1] \in S
  OBVIOUS
<1> HIDE DEF part
<1> QED
  BY <1>1, <1>2

\* What follows the literal is a window that ends with the text.
LEMMA LiteralsAreOpaqueIn ==
  ASSUME NEW text \in Text
  PROVE  LiteralsAreOpaque(text)
<1> SUFFICES
      ASSUME NEW i \in DOMAIN text, NEW j \in DOMAIN text, i + 1 < j,
             \A k \in 1..(i - 1) : text[k] \in {"x", "\n"},
             text[i] \in Quotes, text[j] = text[i],
             ToSet(SubSeq(text, i + 1, j - 1)) \intersect {text[i], "\\", "\n"} = {}
      PROVE  stripNonCode(text) =
               SubSeq(text, 1, i) \o [k \in DOMAIN SubSeq(text, i + 1, j - 1) |-> " "]
                 \o <<text[j]>> \o stripNonCode(SubSeq(text, j + 1, Len(text)))
  BY DEF LiteralsAreOpaque
<1> DEFINE n == Len(text)
           body == SubSeq(text, i + 1, j - 1)
           after == SubSeq(text, j + 1, n)
           before == SubSeq(text, 1, i)
           hidden == [k \in DOMAIN body |-> " "]
           quote == <<text[j]>>
           rest == stripNonCode(after)
           s == stripNonCode(text)
           b == Blanks(text)
<1>1. n \in Nat /\ i \in 1..n /\ j \in 1..n
  BY DEF Text
<1>2. \A m \in 1..n : text[m] \in Characters
  BY DEF Text
<1>3. /\ Len(body) = (j - i) - 1 /\ DOMAIN body = 1..((j - i) - 1)
      /\ \A y \in 1..((j - i) - 1) : body[y] = text[i + y]
  <2>1. text \in Seq(Characters) /\ i + 1 \in Nat \ {0} /\ j - 1 \in Nat /\ j - 1 <= n
        /\ i + 1 <= (j - 1) + 1
    BY <1>1 DEF Text
  <2>2. /\ body \in Seq(Characters) /\ Len(body) = ((j - 1) - (i + 1)) + 1
        /\ \A y \in 1..(((j - 1) - (i + 1)) + 1) : body[y] = text[((i + 1) + y) - 1]
    BY <2>1, PartIs
  <2>3. ((j - 1) - (i + 1)) + 1 = (j - i) - 1
    BY <1>1
  <2>4. \A y \in 1..((j - i) - 1) : ((i + 1) + y) - 1 = i + y
    BY <1>1
  <2>5. \A y \in 1..((j - i) - 1) : body[y] = text[i + y]
    BY <2>2, <2>3, <2>4
  <2> HIDE DEF body
  <2>6. DOMAIN body = 1..Len(body)
    BY <2>2
  <2> QED
    BY <2>2, <2>3, <2>5, <2>6
<1>4. \A m \in (i + 1)..(j - 1) : text[m] \notin {text[i], "\\", "\n"}
  <2> SUFFICES ASSUME NEW m \in (i + 1)..(j - 1) PROVE text[m] \notin {text[i], "\\", "\n"}
    OBVIOUS
  <2>1. m - i \in 1..((j - i) - 1) /\ i + (m - i) = m
    BY <1>1
  <2>2. text[m] \in ToSet(body)
    BY <1>3, <2>1 DEF ToSet
  <2> QED
    BY <2>2
<1>5. after \in Text /\ Len(after) = n - j /\ \A y \in 1..(n - j) : after[y] = text[j + y]
  BY <1>1 DEF Text
<1>6. Window(text, after, j)
  <2> HIDE DEF after, n
  <2>1. j \in Nat /\ j + Len(after) = n
    BY <1>1, <1>5
  <2> QED
    BY <1>1, <1>5, <2>1 DEF Window, n
<1>7. before \in Seq(Stripes) /\ Len(before) = i /\ \A y \in 1..i : before[y] = text[y]
  <2>1. before \in Text /\ Len(before) = i /\ \A y \in 1..i : before[y] = text[y]
    BY <1>1 DEF Text
  <2> HIDE DEF before
  <2> QED
    BY <2>1, TextIsStripes
<1>8. hidden \in Seq(Stripes) /\ Len(hidden) = (j - i) - 1
      /\ \A y \in 1..((j - i) - 1) : hidden[y] = " "
  <2>1. hidden = [y \in 1..((j - i) - 1) |-> " "]
    BY <1>3
  <2>2. (j - i) - 1 \in Nat
    BY <1>1
  <2> QED
    BY <2>1, <2>2, Stripe
<1>9. quote \in Seq(Stripes) /\ Len(quote) = 1 /\ quote[1] = text[j]
  <2>1. text[j] \in Stripes
    BY <1>1, <1>2 DEF Stripes
  <2> HIDE DEF Stripes
  <2> QED
    BY <2>1
<1>10. /\ rest \in Seq(Stripes) /\ Len(rest) = n - j
       /\ \A y \in 1..(n - j) : rest[y] = Stripped(after, y)
  <2> HIDE DEF after
  <2> QED
    BY <1>5, StrippedIs
<1>11. s = [m \in 1..n |-> Stripped(text, m)] /\ s \in Seq(Stripes) /\ Len(s) = n
  BY StrippedIs
<1>12. \A y \in 1..(n - j) : y \in Blanks(after)[1] <=> j + y \in b[j + 1]
  <2> HIDE DEF after
  <2> QED
    BY <1>5, <1>6, BlanksAgree
<1>13. b[1] = b[i]
  BY <1>1, OrdinaryIsKept
<1>14. Round(text, i) = [blank |-> (i + 1)..(j - 1), next |-> j + 1]
  <2>1. LiteralEnd(text, i) = j
    BY <1>1, <1>4, ClosedLiteralEnds
  <2>2. ~HasPrefix(text, i, <<"/", "/">>) /\ ~HasPrefix(text, i, <<"/", "*">>)
    <3>1. text[i] # "/"
      BY DEF Quotes
    <3> QED
      BY <3>1 DEF HasPrefix
  <2>3. ~HasPrefix(text, i, [k \in 1..3 |-> text[i]])
    <3>1. text[i + 1] # text[i]
      BY <1>1, <1>4
    <3>2. HasPrefix(text, i, [k \in 1..3 |-> text[i]]) => text[i + 2 - 1] = text[i]
      BY DEF HasPrefix
    <3>3. i + 2 - 1 = i + 1
      BY <1>1
    <3> QED
      BY <3>1, <3>2, <3>3
  <2> QED
    BY <1>1, <2>1, <2>2, <2>3 DEF Round
<1>15. b[i] = (i + 1)..(j - 1) \union b[j + 1]
  BY <1>1, <1>14, BlanksAre
<1>16. \A y \in b[j + 1] : y \in (j + 1)..n
  BY <1>1, BlanksFrom
<1> DEFINE whole == before \o hidden \o quote \o rest
<1> HIDE DEF before, hidden, quote, rest
<1>17. /\ whole \in Seq(Stripes) /\ Len(whole) = n
       /\ \A m \in 1..n : whole[m] = IF m <= i THEN before[m]
                                     ELSE IF m <= j - 1 THEN hidden[m - i]
                                     ELSE IF m <= j THEN quote[m - (j - 1)]
                                     ELSE rest[m - j]
  <2>1. /\ whole \in Seq(Stripes)
        /\ Len(whole) = Len(before) + Len(hidden) + Len(quote) + Len(rest)
        /\ \A m \in 1..Len(whole) :
             whole[m] = IF m <= Len(before) THEN before[m]
                        ELSE IF m <= Len(before) + Len(hidden) THEN hidden[m - Len(before)]
                        ELSE IF m <= Len(before) + Len(hidden) + Len(quote)
                             THEN quote[m - (Len(before) + Len(hidden))]
                        ELSE rest[m - (Len(before) + Len(hidden) + Len(quote))]
    <3>1. /\ before \in Seq(Stripes) /\ hidden \in Seq(Stripes)
          /\ quote \in Seq(Stripes) /\ rest \in Seq(Stripes)
      BY <1>7, <1>8, <1>9, <1>10
    <3> QED
      BY <3>1, FourParts
  <2>2. /\ Len(before) = i /\ Len(before) + Len(hidden) = j - 1
        /\ Len(before) + Len(hidden) + Len(quote) = j
        /\ Len(before) + Len(hidden) + Len(quote) + Len(rest) = n
    <3>1. /\ Len(before) = i /\ Len(hidden) = (j - i) - 1
          /\ Len(quote) = 1 /\ Len(rest) = n - j
      BY <1>7, <1>8, <1>9, <1>10
    <3> HIDE DEF n, whole
    <3>2. i + ((j - i) - 1) = j - 1 /\ (j - 1) + 1 = j /\ j + (n - j) = n
      BY <1>1
    <3> QED
      BY <3>1, <3>2
  <2> HIDE DEF whole
  <2> QED
    BY <2>1, <2>2
<1> HIDE DEF whole, n, after, b, s
<1>18. ASSUME NEW m \in 1..n
       PROVE  s[m] = whole[m]
  <2>1. s[m] = IF m \in b[1] /\ text[m] # "\n" THEN " " ELSE text[m]
    BY <1>11 DEF Stripped, b
  <2>2. m \in b[1] <=> m \in (i + 1)..(j - 1) \/ m \in b[j + 1]
    BY <1>13, <1>15
  <2>3. CASE m <= i
    <3>1. m \notin b[1] /\ m \in 1..i
      BY <1>1, <1>16, <2>2, <2>3
    <3> QED
      BY <1>7, <1>17, <2>1, <2>3, <3>1
  <2>4. CASE m \in (i + 1)..(j - 1)
    <3>1. s[m] = " "
      BY <1>4, <2>1, <2>2, <2>4
    <3>2. m - i \in 1..((j - i) - 1) /\ ~(m <= i) /\ m <= j - 1
      BY <1>1, <2>4
    <3>3. whole[m] = hidden[m - i]
      BY <1>17, <3>2
    <3> QED
      BY <1>8, <3>1, <3>2, <3>3
  <2>5. CASE m = j
    <3>1. m \notin b[1] /\ ~(m <= i) /\ ~(m <= j - 1) /\ m <= j /\ m - (j - 1) = 1
      BY <1>1, <1>16, <2>2, <2>5
    <3>2. whole[m] = quote[1]
      BY <1>17, <3>1
    <3> QED
      BY <1>9, <2>1, <2>5, <3>1, <3>2
  <2>6. CASE m > j
    <3> DEFINE y == m - j
    <3>1. y \in 1..(n - j) /\ j + y = m /\ ~(m <= i) /\ ~(m <= j - 1) /\ ~(m <= j)
          /\ m \notin (i + 1)..(j - 1)
      BY <1>1, <2>6
    <3>2. whole[m] = rest[y]
      BY <1>17, <3>1
    <3> HIDE DEF y
    <3>3. y \in Blanks(after)[1] <=> m \in b[1]
      BY <1>12, <2>2, <3>1
    <3>4. after[y] = text[m]
      BY <1>5, <3>1
    <3>5. rest[y] = IF y \in Blanks(after)[1] /\ after[y] # "\n" THEN " " ELSE after[y]
      BY <1>10, <3>1 DEF Stripped
    <3> QED
      BY <2>1, <3>2, <3>3, <3>4, <3>5
  <2> QED
    BY <1>1, <2>3, <2>4, <2>5, <2>6
<1>19. s = whole
  BY <1>1, <1>11, <1>17, <1>18
<1> QED
  BY <1>19 DEF s, whole, before, hidden, quote, rest, body, after, n

-----------------------------------------------------------------------------
(* What the comment at detect.go:329-335 says, of snippets of any length.    *)
THEOREM StrippingIsLocalHolds == DetectSpec => []StrippingIsLocal
<1> DEFINE Typed == code \in Text
<1>1. DetectInit => Typed
  BY DEF DetectInit, Text
<1>2. Typed /\ [Type]_code => Typed'
  BY DEF Type, Text
<1>3. Typed => StrippingIsLocal
  BY LinesAreFinalIn, LiteralsAreOpaqueIn DEF StrippingIsLocal
<1> QED
  BY <1>1, <1>2, <1>3, PTL DEF DetectSpec
=============================================================================

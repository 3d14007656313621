------------------------ MODULE SysclassIndexProofs ------------------------
(* Proofs about SysclassIndex, for any number of callers and JDK versions.  *)
EXTENDS SysclassIndex, TLAPS

-----------------------------------------------------------------------------
(* The inductive invariant. None of the three properties is inductive: each *)
(* needs to know who holds the lock and what the callers' pointers are worth *)
(* by then.                                                                 *)

\* The mutex: its holder is the one caller between Lock and Unlock.
OneHolder ==
  \A p \in Procs :
    building = p <=> pc[p] \in {"recheck", "readDir", "index", "unlock"}

\* A caller that waits or walks has seen an index that is missing or
\* incomplete, and while its pointer is in place that is the index, and due.
PointersAreWorth ==
  \A p \in Procs :
    pc[p] \in {"lock", "tryLock", "recheck", "readDir", "index"} =>
      /\ ~Complete(seen[p])
      /\ ~replaced[p] =>
           /\ seen[p] = current
           /\ current = Nil \/ (~Complete(current) /\ due)

\* Only a caller whose pointer is still in place walks.
WalkersAreFirst ==
  \A p \in Procs : pc[p] \in {"readDir", "index"} => ~replaced[p]

\* What a holder is about to return is the current index.
HoldersAreCurrent == \A p \in Procs : pc[p] = "unlock" => seen[p] = current

\* A full answer is the current index, and who has one never waits again.
FullAnswersAreCurrent ==
  \A p \in Procs : Complete(served[p]) => served[p] = current /\ pc[p] = "idle"

IndexInv ==
  /\ TypeOK
  /\ OneHolder
  /\ PointersAreWorth
  /\ WalkersAreFirst
  /\ HoldersAreCurrent
  /\ FullAnswersAreCurrent

-----------------------------------------------------------------------------
LEMMA NoWalkIsTyped == NoWalk \in Walk
BY DEF NoWalk, Walk

LEMMA WalksStayTyped ==
  ASSUME NEW w \in Walk
  PROVE  /\ \A b \in BOOLEAN : [w EXCEPT !.aged = b] \in Walk
         /\ \A P, M, B \in SUBSET Majors :
              [w EXCEPT !.pending = P, !.majors = M, !.broken = B] \in Walk
BY DEF Walk

LEMMA InitHolds == Init => IndexInv
<1>. SUFFICES ASSUME Init PROVE IndexInv
  OBVIOUS
<1>1. TypeOK
  BY NoWalkIsTyped DEF Init, TypeOK
<1>2. OneHolder /\ PointersAreWorth /\ WalkersAreFirst /\ HoldersAreCurrent
  BY NilAssumption DEF Init, OneHolder, PointersAreWorth, WalkersAreFirst, HoldersAreCurrent
<1>3. FullAnswersAreCurrent
  BY DEF Init, FullAnswersAreCurrent, Complete
<1>. QED  BY <1>1, <1>2, <1>3 DEF IndexInv

\* The load half: whoever gets past it holds the lock or was served.
LEMMA LoadKeeps ==
  ASSUME IndexInv, NEW p \in Procs, Load(p)
  PROVE  IndexInv'
<1>. USE DEF IndexInv, Load, disk
<1>1. TypeOK'
  BY DEF TypeOK, Goto, Give
<1>2. OneHolder' /\ WalkersAreFirst' /\ HoldersAreCurrent'
  BY DEF TypeOK, OneHolder, WalkersAreFirst, HoldersAreCurrent, Goto, Give
<1>3. PointersAreWorth'
  BY DEF TypeOK, PointersAreWorth, Goto, Give, Good, Complete
<1>4. FullAnswersAreCurrent'
  BY DEF TypeOK, FullAnswersAreCurrent, Goto, Give, Good, Complete
<1>. QED  BY <1>1, <1>2, <1>3, <1>4

LEMMA LockingKeeps ==
  ASSUME IndexInv, NEW p \in Procs, Locking(p)
  PROVE  IndexInv'
<1>. USE DEF IndexInv, TypeOK, disk, Goto, Give
<1>1. CASE Lock(p)
  BY <1>1, NilAssumption DEF Lock, OneHolder, PointersAreWorth, WalkersAreFirst,
     HoldersAreCurrent, FullAnswersAreCurrent, Complete
<1>2. CASE TryLock(p) /\ building = Nil
  BY <1>2, NilAssumption DEF TryLock, OneHolder, PointersAreWorth, WalkersAreFirst,
     HoldersAreCurrent, FullAnswersAreCurrent, Complete
<1>3. CASE TryLock(p) /\ building # Nil
  <2>. USE <1>3 DEF TryLock
  <2>1. TypeOK' /\ OneHolder' /\ WalkersAreFirst' /\ HoldersAreCurrent'
    BY DEF OneHolder, WalkersAreFirst, HoldersAreCurrent
  <2>2. PointersAreWorth'
    BY DEF PointersAreWorth, Complete
  <2>3. FullAnswersAreCurrent'
    <3>1. ~Complete(seen[p])
      BY DEF PointersAreWorth
    <3>. QED  BY <3>1 DEF FullAnswersAreCurrent, Complete
  <2>. QED  BY <2>1, <2>2, <2>3
<1>4. CASE Recheck(p)
  <2>. USE <1>4 DEF Recheck
  <2>1. TypeOK' /\ OneHolder' /\ PointersAreWorth' /\ WalkersAreFirst'
    BY DEF OneHolder, PointersAreWorth, WalkersAreFirst, Complete
  <2>2. HoldersAreCurrent'
    BY DEF HoldersAreCurrent
  <2>3. FullAnswersAreCurrent'
    BY DEF FullAnswersAreCurrent, Complete
  <2>. QED  BY <2>1, <2>2, <2>3
<1>5. CASE Unlock(p)
  BY <1>5, NilAssumption DEF Unlock, OneHolder, PointersAreWorth, WalkersAreFirst,
     HoldersAreCurrent, FullAnswersAreCurrent, Complete
<1>. QED  BY <1>1, <1>2, <1>3, <1>4, <1>5 DEF Locking

LEMMA WalkingKeeps ==
  ASSUME IndexInv, NEW p \in Procs, Walking(p)
  PROVE  IndexInv'
<1>. USE DEF IndexInv, TypeOK, disk, Goto, Give
<1>1. CASE ReadDir(p)
  <2> DEFINE listing == IF root = "mounted" THEN {m \in Majors : dirs[m] # "absent"} ELSE {}
             begun == [NoWalk EXCEPT !.err = root = "unreadable", !.pending = listing]
  <2>1. begun \in Walk
    BY DEF NoWalk, Walk
  <2>2. walk' = [walk EXCEPT ![p] = begun]
    BY <1>1 DEF ReadDir
  <2>. HIDE DEF begun
  <2>3. TypeOK'
    BY <1>1, <2>1, <2>2 DEF ReadDir
  <2>4. OneHolder' /\ PointersAreWorth' /\ WalkersAreFirst' /\ HoldersAreCurrent'
    BY <1>1 DEF ReadDir, OneHolder, PointersAreWorth, WalkersAreFirst,
       HoldersAreCurrent, Complete
  <2>5. FullAnswersAreCurrent'
    BY <1>1 DEF ReadDir, FullAnswersAreCurrent, Complete
  <2>. QED  BY <2>3, <2>4, <2>5
<1>2. CASE \E m \in Majors : IndexVersion(p, m)
  <2>. PICK m \in Majors : IndexVersion(p, m)
    BY <1>2
  <2>1. TypeOK'
    <3> DEFINE state == IF root = "mounted" THEN dirs[m] ELSE "absent"
               P == walk[p].pending \ {m}
               M == IF state = "stocked" THEN walk[p].majors \union {m} ELSE walk[p].majors
               B == IF state = "broken" THEN walk[p].broken \union {m} ELSE walk[p].broken
               further == [walk[p] EXCEPT !.pending = P, !.majors = M, !.broken = B]
    <3>1. walk[p] \in Walk /\ P \in SUBSET Majors /\ M \in SUBSET Majors /\ B \in SUBSET Majors
      BY DEF Walk
    <3>2. walk' = [walk EXCEPT ![p] = further]
      BY DEF IndexVersion
    <3>3. further \in Walk
      <4>. HIDE DEF P, M, B
      <4>. QED  BY <3>1, WalksStayTyped, Zenon
    <3>4. UNCHANGED <<root, dirs, current, due, building, pc, seen, replaced, served>>
      BY DEF IndexVersion
    <3>. HIDE DEF further
    <3>. QED  BY <3>2, <3>3, <3>4
  <2>2. OneHolder' /\ PointersAreWorth' /\ WalkersAreFirst' /\ HoldersAreCurrent'
    BY DEF IndexVersion, OneHolder, PointersAreWorth, WalkersAreFirst,
       HoldersAreCurrent, Complete
  <2>3. FullAnswersAreCurrent'
    BY DEF IndexVersion, FullAnswersAreCurrent, Complete
  <2>. QED  BY <2>1, <2>2, <2>3
<1>3. CASE Publish(p)
  BY <1>3 DEF Publish, OneHolder, PointersAreWorth, WalkersAreFirst,
     HoldersAreCurrent, FullAnswersAreCurrent, Complete, Walk, Snapshot, NoWalk
<1>. QED  BY <1>1, <1>2, <1>3 DEF Walking

\* Nothing the disk does concerns the protocol.
LEMMA EnvironmentKeeps ==
  ASSUME IndexInv, IntervalPasses \/ DiskChanges
  PROVE  IndexInv'
<1>. USE DEF IndexInv, TypeOK, disk, calls, OneHolder, PointersAreWorth, WalkersAreFirst,
       HoldersAreCurrent, FullAnswersAreCurrent, Complete
<1>1. CASE IntervalPasses
  <2>1. ASSUME NEW p \in Procs PROVE [walk[p] EXCEPT !.aged = pc[p] = "index"] \in Walk
    <3>1. walk[p] \in Walk /\ (pc[p] = "index") \in BOOLEAN
      OBVIOUS
    <3>. QED  BY <3>1, WalksStayTyped, Zenon
  <2>. QED  BY <1>1, <2>1 DEF IntervalPasses
<1>2. CASE DiskChanges  BY <1>2 DEF DiskChanges
<1>. QED  BY <1>1, <1>2

LEMMA NextKeeps == IndexInv /\ [Next]_vars => IndexInv'
<1>. SUFFICES ASSUME IndexInv, [Next]_vars PROVE IndexInv'
  OBVIOUS
<1>1. CASE UNCHANGED vars
  BY <1>1 DEF vars, disk, calls, IndexInv, TypeOK, OneHolder, PointersAreWorth,
     WalkersAreFirst, HoldersAreCurrent, FullAnswersAreCurrent, Complete
<1>. QED
  BY <1>1, LoadKeeps, LockingKeeps, WalkingKeeps, EnvironmentKeeps DEF Next

LEMMA IndexInvariant == Spec => []IndexInv
<1>. QED  BY InitHolds, NextKeeps, PTL DEF Spec

-----------------------------------------------------------------------------
(* Whoever calls in whatever order, and whatever the volume does meanwhile, *)
(* the lock, the snapshots and the walks are well formed.                   *)
THEOREM IndexTypeCorrect == Spec => []TypeOK
BY IndexInvariant, PTL DEF IndexInv

(* load: the tree is walked only when the index is missing, or incomplete   *)
(* and due, however many callers queue up for the lock.                     *)
THEOREM WalksAreNeededHolds == Spec => []WalksAreNeeded
<1>1. IndexInv => WalksAreNeeded
  BY DEF IndexInv, WalkersAreFirst, PointersAreWorth, WalksAreNeeded
<1>. QED  BY <1>1, IndexInvariant, PTL

(* load: a complete index is never given up, for another complete one no    *)
(* more than for a lesser one.                                              *)
THEOREM CompleteIsKeptHolds == Spec => CompleteIsKept
<1>1. IndexInv /\ [Next]_vars => [Complete(current) => current' = current]_vars
  <2>. SUFFICES ASSUME IndexInv, [Next]_vars, Complete(current) PROVE current' = current
    OBVIOUS
  <2>1. ASSUME NEW p \in Procs, Publish(p) PROVE FALSE
    BY <2>1 DEF Publish, IndexInv, WalkersAreFirst, PointersAreWorth, Complete
  <2>. QED
    BY <2>1 DEF Next, vars, Load, Locking, Lock, TryLock, Recheck, Unlock, Walking, ReadDir,
       IndexVersion, IntervalPasses, DiskChanges
<1>. QED  BY <1>1, IndexInvariant, PTL DEF Spec, CompleteIsKept

(* load: who was given a complete index is never given anything else, though *)
(* calls return pointers they loaded before they waited.                    *)
THEOREM AnswersDoNotRegressHolds == Spec => AnswersDoNotRegress
<1>1. IndexInv /\ [Next]_vars =>
        [\A p \in Procs : Complete(served[p]) => served'[p] = served[p]]_vars
  <2>. SUFFICES ASSUME IndexInv, [Next]_vars, NEW p \in Procs, Complete(served[p])
                PROVE  served'[p] = served[p]
    OBVIOUS
  <2>1. served[p] = current /\ pc[p] = "idle"
    BY DEF IndexInv, FullAnswersAreCurrent
  <2>2. ASSUME NEW q \in Procs, Load(q) PROVE served'[p] = served[p]
    BY <2>1, <2>2 DEF Load, Give, IndexInv, TypeOK
  <2>3. ASSUME NEW q \in Procs, TryLock(q) \/ Unlock(q) PROVE served'[p] = served[p]
    BY <2>1, <2>3 DEF TryLock, Unlock, Give, IndexInv, TypeOK
  <2>. QED
    BY <2>2, <2>3 DEF Next, vars, Locking, Lock, Recheck, Walking, ReadDir, IndexVersion,
       Publish, IntervalPasses, DiskChanges, calls
<1>. QED  BY <1>1, IndexInvariant, PTL DEF Spec, AnswersDoNotRegress
=============================================================================

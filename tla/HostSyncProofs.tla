--------------------------- MODULE HostSyncProofs ---------------------------
(* Proofs about HostSync, for any locks, versions, jars and bound on errors. *)
EXTENDS HostSync, TLAPS

LEMMA HeadAndTail ==
  ASSUME NEW S, NEW s \in Seq(S), s # <<>>
  PROVE  /\ Head(s) \in S /\ Tail(s) \in Seq(S)
         /\ ToSet(s) = {Head(s)} \union ToSet(Tail(s))
<1>1. Head(s) \in S /\ Tail(s) \in Seq(S)
  OBVIOUS
<1>2. Len(s) \in Nat \ {0} /\ Len(Tail(s)) = Len(s) - 1 /\ Head(s) = s[1]
  OBVIOUS
<1>3. DOMAIN s = 1..Len(s) /\ DOMAIN Tail(s) = 1..(Len(s) - 1)
  BY <1>1, <1>2
<1>4. \A i \in 1..(Len(s) - 1) : Tail(s)[i] = s[i + 1]
  OBVIOUS
<1>5. ASSUME NEW x \in ToSet(s), x # Head(s)
      PROVE  x \in ToSet(Tail(s))
  <2>1. PICK i \in 1..Len(s) : x = s[i]
    BY <1>3, <1>5 DEF ToSet
  <2>2. i # 1
    BY <1>2, <1>5, <2>1
  <2>3. i - 1 \in 1..(Len(s) - 1) /\ Tail(s)[i - 1] = s[i]
    BY <1>2, <1>4, <2>2
  <2> QED
    BY <1>3, <2>1, <2>3 DEF ToSet
<1>6. ASSUME NEW x \in ToSet(Tail(s))
      PROVE  x \in ToSet(s)
  <2>1. PICK i \in 1..(Len(s) - 1) : x = Tail(s)[i]
    BY <1>3, <1>6 DEF ToSet
  <2>2. i + 1 \in 1..Len(s) /\ x = s[i + 1]
    BY <1>2, <1>4, <2>1
  <2> QED
    BY <1>3, <2>2 DEF ToSet
<1>7. Head(s) \in ToSet(s)
  BY <1>2, <1>3 DEF ToSet
<1> QED
  BY <1>1, <1>5, <1>6, <1>7

LEMMA EmptyHasNone == ToSet(<<>>) = {}
  BY DEF ToSet

-----------------------------------------------------------------------------
Extracting == {"create", "clear", "copy", "copied", "copyFailed", "replace", "rename"}
Fetching == {"get", "body", "compare", "renameJar"}
Finishing == {"mkdir", "chown", "done"}

(* What a deploy knows of the item at hand: it was not finished when looked  *)
(* at, a copy that is about to be renamed is whole, and so is a download.    *)
ItemAtHand ==
  /\ pc \in Extracting => dir[Head(rest)] \in {"absent", "bare"}
  /\ pc \in {"copied", "replace", "rename"} => partial[Head(rest)] = "complete"
  /\ pc = "renameJar" => tmp[Path] = Sum

(* What is not on the rest of the list is there.                            *)
ImagesSoFar ==
  /\ pc = "image" => ToSet(lock.images) \subseteq images \union ToSet(rest)
  /\ pc \in {"major", "jar"} \union Extracting \union Fetching \union Finishing =>
       ToSet(lock.images) \subseteq images

MajorsSoFar ==
  /\ pc \in {"major"} \union Extracting =>
       \A m \in ToSet(lock.majors) : m \in ToSet(rest) \/ dir[m] = "complete"
  /\ pc \in {"jar"} \union Fetching \union Finishing =>
       \A m \in ToSet(lock.majors) : dir[m] = "complete"

JarsSoFar ==
  /\ pc \in {"jar"} \union Fetching =>
       /\ ToSet(rest) \subseteq ToSet(lock.jars)
       /\ \A e \in ToSet(lock.jars) : e \in ToSet(rest) \/ jar[e[1]] = e[2]
  /\ pc \in Finishing => \A e \in ToSet(lock.jars) : jar[e[1]] = e[2]

ScratchSoFar == pc = "done" => scratch = "bot"

SyncInv ==
  /\ SyncTypeOK /\ FinishedIsComplete /\ JarsAreLocked
  /\ ItemAtHand /\ ImagesSoFar /\ MajorsSoFar /\ JarsSoFar /\ ScratchSoFar

LEMMA LockIsTyped ==
  ASSUME SyncTypeOK
  PROVE  /\ lock \in Locks /\ lock.images \in Seq(Images)
         /\ lock.majors \in Seq(Majors) /\ lock.jars \in Seq(Jars \X Sums)
  BY SyncAssumption DEF SyncTypeOK, Lock

LEMMA ImageAtHand ==
  ASSUME SyncTypeOK, pc = "image", rest # <<>>
  PROVE  /\ Head(rest) \in Images /\ Tail(rest) \in Seq(Images)
         /\ ToSet(rest) = {Head(rest)} \union ToSet(Tail(rest))
<1>1. rest \in Seq(Images)
  BY DEF SyncTypeOK, Over
<1> QED
  BY <1>1, HeadAndTail

LEMMA MajorAtHand ==
  ASSUME SyncTypeOK, pc \in {"major"} \union Extracting, rest # <<>>
  PROVE  /\ Head(rest) \in Majors /\ Tail(rest) \in Seq(Majors)
         /\ ToSet(rest) = {Head(rest)} \union ToSet(Tail(rest))
<1>1. rest \in Seq(Majors)
  BY DEF SyncTypeOK, Over, Extracting
<1> QED
  BY <1>1, HeadAndTail

LEMMA JarAtHand ==
  ASSUME SyncTypeOK, pc \in {"jar"} \union Fetching, rest # <<>>
  PROVE  /\ Head(rest) \in Jars \X Sums /\ Tail(rest) \in Seq(Jars \X Sums)
         /\ ToSet(rest) = {Head(rest)} \union ToSet(Tail(rest))
         /\ Path \in Jars /\ Sum \in Sums /\ Head(rest) = <<Path, Sum>>
<1>1. rest \in Seq(Jars \X Sums)
  BY DEF SyncTypeOK, Over, Fetching
<1>2. /\ Head(rest) \in Jars \X Sums /\ Tail(rest) \in Seq(Jars \X Sums)
      /\ ToSet(rest) = {Head(rest)} \union ToSet(Tail(rest))
  BY <1>1, HeadAndTail
<1> QED
  BY <1>2 DEF Path, Sum

-----------------------------------------------------------------------------
LEMMA InitHolds == Init => SyncInv
  BY SyncAssumption
  DEF Init, SyncInv, SyncTypeOK, FinishedIsComplete, JarsAreLocked, ItemAtHand, ImagesSoFar,
      MajorsSoFar, JarsSoFar, ScratchSoFar, Over, Extracting, Fetching, Finishing, Tree, File

LEMMA BeginKeeps ==
  ASSUME SyncInv, NEW l \in Locks, Begin(l)
  PROVE  SyncInv'
<1>1. l.images \in Seq(Images)
  BY SyncAssumption DEF Lock
<1>2. SyncTypeOK'
  BY <1>1 DEF Begin, tree, files, SyncInv, SyncTypeOK
<1>3. FinishedIsComplete' /\ JarsAreLocked'
  BY DEF Begin, tree, files, SyncInv, FinishedIsComplete, JarsAreLocked
<1>4. ItemAtHand' /\ ImagesSoFar' /\ MajorsSoFar' /\ JarsSoFar' /\ ScratchSoFar'
  BY DEF Begin, tree, files, ItemAtHand, ImagesSoFar, MajorsSoFar, JarsSoFar, ScratchSoFar,
         Extracting, Fetching, Finishing
<1> QED
  BY <1>2, <1>3, <1>4 DEF SyncInv

(* A deploy that is over, for whatever reason, leaves no duties behind but   *)
(* those of the disk.                                                       *)
LEMMA OverKeeps ==
  ASSUME SyncInv, pc' \in {"off", "failed"}, rest' = <<>>, lock' = lock,
         faults' \in 0..MaxFaults, images' \subseteq Images, containers' \subseteq Majors,
         dir' = dir, partial' \in [Majors -> Tree], jar' = jar, tmp' \in [Jars -> File],
         scratch' = scratch
  PROVE  SyncInv'
<1>1. SyncTypeOK'
  BY DEF SyncInv, SyncTypeOK, Over
<1>2. FinishedIsComplete' /\ JarsAreLocked'
  BY DEF SyncInv, FinishedIsComplete, JarsAreLocked
<1>3. ItemAtHand' /\ ImagesSoFar' /\ MajorsSoFar' /\ JarsSoFar' /\ ScratchSoFar'
  BY DEF ItemAtHand, ImagesSoFar, MajorsSoFar, JarsSoFar, ScratchSoFar,
         Extracting, Fetching, Finishing
<1> QED
  BY <1>1, <1>2, <1>3 DEF SyncInv

LEMMA FaultIsOver ==
  ASSUME SyncTypeOK, NEW label \in {"off", "failed"}, Fault(label)
  PROVE  pc' = label /\ rest' = <<>> /\ lock' = lock /\ faults' \in 0..MaxFaults
  BY SyncAssumption DEF Fault, Go, Over, SyncTypeOK

LEMMA FaultGoesOn ==
  ASSUME SyncTypeOK, NEW label, label \notin Over, Fault(label)
  PROVE  pc' = label /\ rest' = rest /\ lock' = lock /\ faults' \in 0..MaxFaults
  BY SyncAssumption DEF Fault, Go, SyncTypeOK

LEMMA PullImageKeeps == ASSUME SyncInv, PullImage PROVE SyncInv'
<1> USE DEF tree, files
<1>1. CASE rest = <<>>
  <2>1. /\ pc = "image" /\ pc' = "major" /\ rest' = lock.majors
        /\ UNCHANGED <<images, tree, files, scratch, lock, faults>>
    BY <1>1 DEF PullImage, Turn
  <2>2. ToSet(rest) = {}
    BY <1>1, EmptyHasNone
  <2>3. SyncTypeOK'
    BY <2>1, LockIsTyped DEF SyncInv, SyncTypeOK, Over
  <2>4. FinishedIsComplete' /\ JarsAreLocked'
    BY <2>1 DEF SyncInv, FinishedIsComplete, JarsAreLocked
  <2>5. ItemAtHand' /\ JarsSoFar' /\ ScratchSoFar' /\ MajorsSoFar'
    BY <2>1 DEF ItemAtHand, JarsSoFar, ScratchSoFar, MajorsSoFar, Extracting, Fetching, Finishing
  <2>6. ImagesSoFar'
    BY <2>1, <2>2 DEF SyncInv, ImagesSoFar
  <2> QED
    BY <2>3, <2>4, <2>5, <2>6 DEF SyncInv
<1>2. CASE rest # <<>> /\ images' = images \union {Head(rest)} /\ Advance("image")
  <2>1. /\ pc = "image" /\ pc' = "image" /\ rest' = Tail(rest)
        /\ UNCHANGED <<tree, files, scratch, lock, faults>>
    BY <1>2 DEF PullImage, Advance
  <2>2. SyncTypeOK'
    BY <1>2, <2>1, ImageAtHand DEF SyncInv, SyncTypeOK, Over
  <2>3. FinishedIsComplete' /\ JarsAreLocked'
    BY <2>1 DEF SyncInv, FinishedIsComplete, JarsAreLocked
  <2>4. ItemAtHand' /\ JarsSoFar' /\ ScratchSoFar' /\ MajorsSoFar'
    BY <2>1 DEF ItemAtHand, JarsSoFar, ScratchSoFar, MajorsSoFar, Extracting, Fetching, Finishing
  <2>5. ImagesSoFar'
    BY <1>2, <2>1, ImageAtHand DEF SyncInv, ImagesSoFar, Extracting, Fetching, Finishing
  <2> QED
    BY <2>2, <2>3, <2>4, <2>5 DEF SyncInv
<1>3. CASE Fault("failed") /\ UNCHANGED images
  BY <1>3, FaultIsOver, OverKeeps DEF PullImage, SyncInv, SyncTypeOK
<1> QED
  BY <1>1, <1>2, <1>3 DEF PullImage

-----------------------------------------------------------------------------
(* Steps of an extraction up to the rename: only the copy next to the final  *)
(* place, the container and an unfinished directory change.                 *)
LEMMA ExtractingKeeps ==
  ASSUME SyncInv, pc \in {"major"} \union Extracting, rest # <<>>,
         pc' \in Extracting, rest' = rest, lock' = lock, faults' \in 0..MaxFaults,
         images' = images, containers' \subseteq Majors, partial' \in [Majors -> Tree],
         jar' = jar, tmp' = tmp, scratch' = scratch,
         dir[Head(rest)] \in {"absent", "bare"},
         dir' \in {dir, [dir EXCEPT ![Head(rest)] = "absent"]},
         pc' \in {"copied", "replace", "rename"} => partial'[Head(rest)] = "complete"
  PROVE  SyncInv'
<1>1. /\ rest \in Seq(Majors) /\ Head(rest) \in Majors
  BY MajorAtHand DEF SyncInv, SyncTypeOK, Over, Extracting
<1>2. dir' \in [Majors -> Tree] /\ dir'[Head(rest)] \in {"absent", "bare"}
  BY <1>1 DEF SyncInv, SyncTypeOK, Tree
<1>3. \A m \in Majors : dir'[m] = dir[m] \/ dir'[m] = "absent"
  BY <1>1 DEF SyncInv, SyncTypeOK
<1>4. \A m \in Majors : dir[m] = "complete" => dir'[m] = "complete"
  BY <1>1 DEF SyncInv, SyncTypeOK
<1>5. SyncTypeOK'
  BY <1>1, <1>2 DEF SyncInv, SyncTypeOK, Extracting
<1>6. FinishedIsComplete' /\ JarsAreLocked'
  BY <1>3 DEF SyncInv, FinishedIsComplete, JarsAreLocked
<1>7. ItemAtHand' /\ JarsSoFar' /\ ScratchSoFar'
  BY <1>2 DEF ItemAtHand, JarsSoFar, ScratchSoFar, Extracting, Fetching, Finishing
<1>8. ImagesSoFar'
  BY DEF SyncInv, ImagesSoFar, Extracting, Fetching, Finishing
<1>9. MajorsSoFar'
  <2>1. ToSet(lock.majors) \subseteq Majors
    BY LockIsTyped DEF ToSet, SyncInv
  <2>2. \A m \in ToSet(lock.majors) : m \in ToSet(rest) \/ dir[m] = "complete"
    BY DEF SyncInv, MajorsSoFar
  <2> QED
    BY <1>4, <2>1, <2>2 DEF MajorsSoFar, Extracting, Fetching, Finishing
<1> QED
  BY <1>5, <1>6, <1>7, <1>8, <1>9 DEF SyncInv

LEMMA ExtractingHasOne ==
  ASSUME SyncInv, pc \in Extracting
  PROVE  /\ rest # <<>> /\ Head(rest) \in Majors
         /\ dir[Head(rest)] \in {"absent", "bare"}
<1>1. rest # <<>>
  BY DEF SyncInv, SyncTypeOK, Extracting, Over
<1> QED
  BY <1>1, MajorAtHand DEF SyncInv, ItemAtHand

LEMMA StatDirKeeps == ASSUME SyncInv, StatDir PROVE SyncInv'
<1> USE DEF tree, files
<1>0. pc = "major" /\ UNCHANGED <<images, tree, files, scratch>>
  BY DEF StatDir
<1>1. CASE rest = <<>>
  <2>1. pc' = "jar" /\ rest' = lock.jars /\ UNCHANGED <<lock, faults>>
    BY <1>1 DEF StatDir, Turn
  <2>2. ToSet(rest) = {}
    BY <1>1, EmptyHasNone
  <2>3. SyncTypeOK'
    BY <1>0, <2>1, LockIsTyped DEF SyncInv, SyncTypeOK, Over
  <2>4. FinishedIsComplete' /\ JarsAreLocked'
    BY <1>0 DEF SyncInv, FinishedIsComplete, JarsAreLocked
  <2>5. ItemAtHand' /\ JarsSoFar' /\ ScratchSoFar'
    BY <2>1 DEF ItemAtHand, JarsSoFar, ScratchSoFar, Extracting, Fetching, Finishing
  <2>6. ImagesSoFar' /\ MajorsSoFar'
    BY <1>0, <2>1, <2>2 DEF SyncInv, ImagesSoFar, MajorsSoFar, Extracting, Fetching, Finishing
  <2> QED
    BY <2>3, <2>4, <2>5, <2>6 DEF SyncInv
<1>2. CASE rest # <<>> /\ dir[Head(rest)] \in {"part", "complete"}
  <2>1. pc' = "major" /\ rest' = Tail(rest) /\ UNCHANGED <<lock, faults>>
    BY <1>2 DEF StatDir, Advance
  <2>2. dir[Head(rest)] = "complete"
    BY <1>0, <1>2, MajorAtHand DEF SyncInv, FinishedIsComplete
  <2>3. SyncTypeOK'
    BY <1>0, <1>2, <2>1, MajorAtHand DEF SyncInv, SyncTypeOK, Over
  <2>4. FinishedIsComplete' /\ JarsAreLocked'
    BY <1>0 DEF SyncInv, FinishedIsComplete, JarsAreLocked
  <2>5. ItemAtHand' /\ JarsSoFar' /\ ScratchSoFar'
    BY <2>1 DEF ItemAtHand, JarsSoFar, ScratchSoFar, Extracting, Fetching, Finishing
  <2>6. ImagesSoFar' /\ MajorsSoFar'
    BY <1>0, <1>2, <2>1, <2>2, MajorAtHand
    DEF SyncInv, ImagesSoFar, MajorsSoFar, Extracting, Fetching, Finishing
  <2> QED
    BY <2>3, <2>4, <2>5, <2>6 DEF SyncInv
<1>3. CASE rest # <<>> /\ dir[Head(rest)] \notin {"part", "complete"}
  <2>1. pc' = "create" /\ rest' = rest /\ UNCHANGED <<lock, faults>>
    BY <1>3 DEF StatDir, Goto, Go, Over
  <2>2. dir[Head(rest)] \in {"absent", "bare"}
    BY <1>0, <1>3, MajorAtHand DEF SyncInv, SyncTypeOK, Tree
  <2> QED
    BY <1>0, <1>3, <2>1, <2>2, ExtractingKeeps DEF SyncInv, SyncTypeOK, Extracting
<1> QED
  BY <1>1, <1>2, <1>3

LEMMA CreateKeeps == ASSUME SyncInv, Create PROVE SyncInv'
<1> USE DEF files
<1>1. CASE containers' = containers \union {Head(rest)} /\ Goto("clear")
  BY <1>1, ExtractingHasOne, ExtractingKeeps
  DEF Create, Goto, Go, Over, Extracting, SyncInv, SyncTypeOK
<1>2. CASE Fault("failed") /\ UNCHANGED containers
  BY <1>2, FaultIsOver, OverKeeps DEF Create, SyncInv, SyncTypeOK
<1> QED
  BY <1>1, <1>2 DEF Create

LEMMA ClearKeeps == ASSUME SyncInv, Clear PROVE SyncInv'
<1> USE DEF files
<1>1. pc \in Extracting /\ Head(rest) \in Majors
  BY ExtractingHasOne DEF Clear, Extracting
<1>2. \A t \in Tree : [partial EXCEPT ![Head(rest)] = t] \in [Majors -> Tree]
  BY <1>1 DEF SyncInv, SyncTypeOK
<1>3. CASE Fault("failed")
  BY <1>2, <1>3, FaultIsOver, OverKeeps
  DEF Clear, Goto, Go, Fault, SyncInv, SyncTypeOK, Tree
<1>4. CASE Goto("clear") \/ Goto("copy")
  BY <1>1, <1>2, <1>4, ExtractingHasOne, ExtractingKeeps
  DEF Clear, Goto, Go, Fault, Over, Extracting, SyncInv, SyncTypeOK, Tree
<1> QED
  BY <1>3, <1>4 DEF Clear

LEMMA CopyKeeps == ASSUME SyncInv, Copy PROVE SyncInv'
<1> USE DEF files
<1>1. pc \in Extracting /\ Head(rest) \in Majors
  BY ExtractingHasOne DEF Copy, Extracting
<1>2. \A t \in Tree : /\ [partial EXCEPT ![Head(rest)] = t] \in [Majors -> Tree]
                       /\ [partial EXCEPT ![Head(rest)] = t][Head(rest)] = t
  BY <1>1 DEF SyncInv, SyncTypeOK
<1>3. CASE partial' = [partial EXCEPT ![Head(rest)] = "part"] /\ Goto("copy")
  BY <1>1, <1>2, <1>3, ExtractingHasOne, ExtractingKeeps
  DEF Copy, Goto, Go, Over, Extracting, SyncInv, SyncTypeOK, Tree
<1>4. CASE partial' = [partial EXCEPT ![Head(rest)] = "complete"] /\ Goto("copied")
  BY <1>1, <1>2, <1>4, ExtractingHasOne, ExtractingKeeps
  DEF Copy, Goto, Go, Over, Extracting, SyncInv, SyncTypeOK, Tree
<1>5. CASE Fault("copyFailed") /\ UNCHANGED partial
  <2>1. pc' = "copyFailed" /\ rest' = rest /\ lock' = lock /\ faults' \in 0..MaxFaults
    BY <1>5, FaultGoesOn DEF SyncInv, Over
  <2> QED
    BY <1>1, <1>5, <2>1, ExtractingHasOne, ExtractingKeeps
    DEF Copy, Extracting, SyncInv, SyncTypeOK
<1> QED
  BY <1>3, <1>4, <1>5 DEF Copy

LEMMA RemoveContainerKeeps == ASSUME SyncInv, RemoveContainer PROVE SyncInv'
<1> USE DEF files
<1> DEFINE next == IF pc = "copied" THEN "replace" ELSE "failed"
<1>0. /\ pc \in {"copied", "copyFailed"} /\ pc \in Extracting
      /\ UNCHANGED <<images, dir, partial, files, scratch>>
      /\ containers' \subseteq Majors
      /\ Goto(next) \/ Fault(next)
  BY DEF RemoveContainer, Extracting, SyncInv, SyncTypeOK
<1>1. CASE pc = "copied"
  <2>1. pc' = "replace" /\ rest' = rest /\ lock' = lock /\ faults' \in 0..MaxFaults
    BY <1>0, <1>1, FaultGoesOn DEF Goto, Go, Over, SyncInv, SyncTypeOK
  <2>2. partial[Head(rest)] = "complete"
    BY <1>1 DEF SyncInv, ItemAtHand
  <2> QED
    BY <1>0, <2>1, <2>2, ExtractingHasOne, ExtractingKeeps DEF Extracting, SyncInv, SyncTypeOK
<1>2. CASE pc = "copyFailed"
  <2>1. pc' = "failed" /\ rest' = <<>> /\ lock' = lock /\ faults' \in 0..MaxFaults
    BY <1>0, <1>2, FaultIsOver DEF Goto, Go, Over, SyncInv, SyncTypeOK
  <2> QED
    BY <1>0, <2>1, OverKeeps DEF SyncInv, SyncTypeOK
<1> QED
  BY <1>0, <1>1, <1>2

LEMMA ReplaceKeeps == ASSUME SyncInv, Replace PROVE SyncInv'
<1> USE DEF files
<1>1. /\ pc = "replace" /\ pc \in Extracting
      /\ UNCHANGED <<images, containers, partial, files, scratch>>
      /\ dir' \in {dir, [dir EXCEPT ![Head(rest)] = "absent"]}
      /\ Goto("rename") \/ Fault("rename")
  BY DEF Replace, Extracting
<1>2. pc' = "rename" /\ rest' = rest /\ lock' = lock /\ faults' \in 0..MaxFaults
  BY <1>1, FaultGoesOn DEF Goto, Go, Over, SyncInv, SyncTypeOK
<1>3. partial[Head(rest)] = "complete"
  BY <1>1 DEF SyncInv, ItemAtHand
<1> QED
  BY <1>1, <1>2, <1>3, ExtractingHasOne, ExtractingKeeps DEF Extracting, SyncInv, SyncTypeOK

LEMMA RenameKeeps == ASSUME SyncInv, Rename PROVE SyncInv'
<1> USE DEF files
<1> DEFINE m == Head(rest)
<1>0. /\ pc = "rename" /\ pc \in Extracting
      /\ UNCHANGED <<images, containers, files, scratch>>
  BY DEF Rename, Extracting
<1>1. /\ rest # <<>> /\ m \in Majors /\ partial[m] = "complete"
      /\ Tail(rest) \in Seq(Majors) /\ ToSet(rest) = {m} \union ToSet(Tail(rest))
  BY <1>0, ExtractingHasOne, MajorAtHand DEF SyncInv, ItemAtHand
<1>2. CASE /\ dir' = [dir EXCEPT ![m] = partial[m]]
           /\ partial' = [partial EXCEPT ![m] = "absent"]
           /\ Advance("major")
  <2>1. pc' = "major" /\ rest' = Tail(rest) /\ UNCHANGED <<lock, faults>>
    BY <1>2 DEF Advance
  <2>2. /\ dir' \in [Majors -> Tree] /\ partial' \in [Majors -> Tree]
        /\ dir'[m] = "complete" /\ \A n \in Majors \ {m} : dir'[n] = dir[n]
    BY <1>1, <1>2 DEF SyncInv, SyncTypeOK, Tree
  <2> HIDE DEF m
  <2>3. SyncTypeOK'
    BY <1>0, <1>1, <2>1, <2>2 DEF SyncInv, SyncTypeOK, Over
  <2>4. FinishedIsComplete' /\ JarsAreLocked'
    BY <1>0, <2>2 DEF SyncInv, FinishedIsComplete, JarsAreLocked
  <2>5. ItemAtHand' /\ JarsSoFar' /\ ScratchSoFar'
    BY <2>1 DEF ItemAtHand, JarsSoFar, ScratchSoFar, Extracting, Fetching, Finishing
  <2>6. ImagesSoFar'
    BY <1>0, <2>1 DEF SyncInv, ImagesSoFar, Extracting, Fetching, Finishing
  <2>7. MajorsSoFar'
    <3>1. ToSet(lock.majors) \subseteq Majors
      BY LockIsTyped DEF ToSet, SyncInv
    <3>2. \A n \in ToSet(lock.majors) : n \in ToSet(rest) \/ dir[n] = "complete"
      BY <1>0 DEF SyncInv, MajorsSoFar
    <3>3. \A n \in ToSet(lock.majors) : n \in ToSet(Tail(rest)) \/ dir'[n] = "complete"
      BY <1>1, <2>2, <3>1, <3>2
    <3> QED
      BY <2>1, <3>3 DEF MajorsSoFar, Extracting, Fetching, Finishing
  <2> QED
    BY <2>3, <2>4, <2>5, <2>6, <2>7 DEF SyncInv
<1>3. CASE (Goto("failed") \/ Fault("failed")) /\ UNCHANGED <<dir, partial>>
  <2>1. pc' = "failed" /\ rest' = <<>> /\ lock' = lock /\ faults' \in 0..MaxFaults
    BY <1>3, FaultIsOver DEF Goto, Go, Over, SyncInv, SyncTypeOK
  <2> QED
    BY <1>0, <1>3, <2>1, OverKeeps DEF SyncInv, SyncTypeOK
<1> QED
  BY <1>2, <1>3 DEF Rename

-----------------------------------------------------------------------------
(* Steps of a download up to the rename: only the .tmp file changes.        *)
LEMMA FetchingKeeps ==
  ASSUME SyncInv, pc \in {"jar"} \union Fetching, rest # <<>>,
         pc' \in Fetching, rest' = rest, lock' = lock, faults' \in 0..MaxFaults,
         images' = images, containers' = containers, dir' = dir, partial' = partial,
         jar' = jar, tmp' \in [Jars -> File], scratch' = scratch,
         pc' = "renameJar" => tmp'[Path] = Sum
  PROVE  SyncInv'
<1>1. rest \in Seq(Jars \X Sums)
  BY DEF SyncInv, SyncTypeOK, Over, Fetching
<1>2. SyncTypeOK'
  BY <1>1 DEF SyncInv, SyncTypeOK, Fetching
<1>3. FinishedIsComplete' /\ JarsAreLocked'
  BY DEF SyncInv, FinishedIsComplete, JarsAreLocked
<1>4. ItemAtHand' /\ ScratchSoFar'
  BY DEF ItemAtHand, ScratchSoFar, Extracting, Fetching, Path, Sum
<1>5. ImagesSoFar' /\ MajorsSoFar' /\ JarsSoFar'
  BY DEF SyncInv, ImagesSoFar, MajorsSoFar, JarsSoFar, Extracting, Fetching, Finishing
<1> QED
  BY <1>2, <1>3, <1>4, <1>5 DEF SyncInv

LEMMA FetchingHasOne ==
  ASSUME SyncInv, pc \in Fetching
  PROVE  rest # <<>> /\ Path \in Jars /\ Sum \in Sums
<1>1. rest # <<>>
  BY DEF SyncInv, SyncTypeOK, Fetching, Over
<1> QED
  BY <1>1, JarAtHand DEF SyncInv

LEMMA CheckJarKeeps == ASSUME SyncInv, CheckJar PROVE SyncInv'
<1> USE DEF tree, files
<1>0. pc = "jar" /\ UNCHANGED <<images, tree, files, scratch>>
  BY DEF CheckJar
<1>1. CASE rest = <<>>
  <2>1. pc' = "mkdir" /\ rest' = <<>> /\ UNCHANGED <<lock, faults>>
    BY <1>1 DEF CheckJar, Goto, Go, Over
  <2>2. ToSet(rest) = {}
    BY <1>1, EmptyHasNone
  <2>3. SyncTypeOK'
    BY <1>0, <2>1 DEF SyncInv, SyncTypeOK, Over
  <2>4. FinishedIsComplete' /\ JarsAreLocked'
    BY <1>0 DEF SyncInv, FinishedIsComplete, JarsAreLocked
  <2>5. ItemAtHand' /\ ScratchSoFar'
    BY <2>1 DEF ItemAtHand, ScratchSoFar, Extracting
  <2>6. ImagesSoFar' /\ MajorsSoFar' /\ JarsSoFar'
    BY <1>0, <2>1, <2>2
    DEF SyncInv, ImagesSoFar, MajorsSoFar, JarsSoFar, Extracting, Fetching, Finishing
  <2> QED
    BY <2>3, <2>4, <2>5, <2>6 DEF SyncInv
<1>2. CASE rest # <<>> /\ jar[Path] = Sum
  <2>1. pc' = "jar" /\ rest' = Tail(rest) /\ UNCHANGED <<lock, faults>>
    BY <1>2 DEF CheckJar, Advance
  <2>2. /\ Tail(rest) \in Seq(Jars \X Sums) /\ Head(rest) = <<Path, Sum>>
        /\ ToSet(rest) = {Head(rest)} \union ToSet(Tail(rest))
    BY <1>0, <1>2, JarAtHand DEF SyncInv
  <2>3. SyncTypeOK'
    BY <1>0, <2>1, <2>2 DEF SyncInv, SyncTypeOK, Over
  <2>4. FinishedIsComplete' /\ JarsAreLocked'
    BY <1>0 DEF SyncInv, FinishedIsComplete, JarsAreLocked
  <2>5. ItemAtHand' /\ ScratchSoFar'
    BY <2>1 DEF ItemAtHand, ScratchSoFar, Extracting
  <2>6. ImagesSoFar' /\ MajorsSoFar'
    BY <1>0, <2>1
    DEF SyncInv, ImagesSoFar, MajorsSoFar, Extracting, Fetching, Finishing
  <2>7. JarsSoFar'
    BY <1>0, <1>2, <2>1, <2>2 DEF SyncInv, JarsSoFar, Fetching, Finishing, Path, Sum
  <2> QED
    BY <2>3, <2>4, <2>5, <2>6, <2>7 DEF SyncInv
<1>3. CASE rest # <<>> /\ jar[Path] # Sum
  <2>1. pc' = "get" /\ rest' = rest /\ UNCHANGED <<lock, faults>>
    BY <1>3 DEF CheckJar, Goto, Go, Over
  <2> QED
    BY <1>0, <1>3, <2>1, FetchingKeeps DEF SyncInv, SyncTypeOK, Fetching
<1> QED
  BY <1>1, <1>2, <1>3

LEMMA GetKeeps == ASSUME SyncInv, Get PROVE SyncInv'
<1> USE DEF tree
<1>1. pc \in Fetching /\ Path \in Jars
  BY FetchingHasOne DEF Get, Fetching
<1>2. [tmp EXCEPT ![Path] = "cut"] \in [Jars -> File]
  BY <1>1 DEF SyncInv, SyncTypeOK, File
<1>3. CASE tmp' = [tmp EXCEPT ![Path] = "cut"] /\ Goto("body")
  BY <1>1, <1>2, <1>3, FetchingHasOne, FetchingKeeps
  DEF Get, Goto, Go, Over, Fetching, SyncInv, SyncTypeOK
<1>4. CASE Fault("failed") /\ UNCHANGED tmp
  BY <1>4, FaultIsOver, OverKeeps DEF Get, SyncInv, SyncTypeOK
<1> QED
  BY <1>3, <1>4 DEF Get

LEMMA BodyKeeps == ASSUME SyncInv, Body PROVE SyncInv'
<1> USE DEF tree
<1>0. UNCHANGED <<images, tree, jar, scratch>>
  BY DEF Body
<1>1. pc \in Fetching /\ rest # <<>> /\ Path \in Jars /\ Sum \in Sums
  BY FetchingHasOne DEF Body, Fetching
<1>2. \A f \in File : [tmp EXCEPT ![Path] = f] \in [Jars -> File]
  BY <1>1 DEF SyncInv, SyncTypeOK
<1>3. CASE tmp' = [tmp EXCEPT ![Path] = Sum] /\ Goto("compare")
  <2>1. pc' = "compare" /\ rest' = rest /\ UNCHANGED <<lock, faults>>
    BY <1>3 DEF Goto, Go, Over
  <2>2. tmp' \in [Jars -> File]
    BY <1>1, <1>2, <1>3 DEF File
  <2> QED
    BY <1>0, <1>1, <2>1, <2>2, FetchingKeeps DEF Fetching, SyncInv, SyncTypeOK
<1>4. ASSUME NEW s \in Sums, tmp' = [tmp EXCEPT ![Path] = s], Fault("compare")
      PROVE  SyncInv'
  <2>1. pc' = "compare" /\ rest' = rest /\ lock' = lock /\ faults' \in 0..MaxFaults
    BY <1>4, FaultGoesOn DEF Over, SyncInv
  <2>2. tmp' \in [Jars -> File]
    BY <1>2, <1>4 DEF File
  <2> QED
    BY <1>0, <1>1, <2>1, <2>2, FetchingKeeps DEF Fetching
<1>5. CASE tmp' = [tmp EXCEPT ![Path] = "absent"] /\ Fault("failed")
  <2>1. pc' = "failed" /\ rest' = <<>> /\ lock' = lock /\ faults' \in 0..MaxFaults
    BY <1>5, FaultIsOver DEF SyncInv
  <2>2. tmp' \in [Jars -> File]
    BY <1>2, <1>5 DEF File
  <2> QED
    BY <1>0, <2>1, <2>2, OverKeeps DEF SyncInv, SyncTypeOK
<1> QED
  BY <1>3, <1>4, <1>5 DEF Body

LEMMA CompareKeeps == ASSUME SyncInv, Compare PROVE SyncInv'
<1> USE DEF tree, files
<1>0. UNCHANGED <<images, tree, jar, scratch>>
  BY DEF Compare
<1>1. pc \in Fetching /\ rest # <<>> /\ Path \in Jars
  BY FetchingHasOne DEF Compare, Fetching
<1>2. CASE tmp[Path] = Sum
  <2>1. pc' = "renameJar" /\ rest' = rest /\ UNCHANGED <<lock, faults, tmp>>
    BY <1>2 DEF Compare, Goto, Go, Over
  <2>2. tmp'[Path] = Sum
    BY <1>2, <2>1
  <2> QED
    BY <1>0, <1>1, <2>1, <2>2, FetchingKeeps DEF Fetching, SyncInv, SyncTypeOK
<1>3. CASE tmp[Path] # Sum
  <2>1. pc' = "failed" /\ rest' = <<>> /\ UNCHANGED <<lock, faults>>
    BY <1>3 DEF Compare, Goto, Go, Over
  <2>2. tmp' = [tmp EXCEPT ![Path] = "absent"]
    BY <1>3 DEF Compare
  <2>3. tmp' \in [Jars -> File]
    BY <1>1, <2>2 DEF SyncInv, SyncTypeOK, File
  <2> QED
    BY <1>0, <2>1, <2>3, OverKeeps DEF SyncInv, SyncTypeOK
<1> QED
  BY <1>2, <1>3

(* Only here does a jar change, to the content its lock names. No other item *)
(* of that lock is undone: there is one content for each path.               *)
LEMMA RenameJarKeeps == ASSUME SyncInv, RenameJar PROVE SyncInv'
<1> USE DEF tree, files
<1>0. pc = "renameJar" /\ UNCHANGED <<images, tree, scratch>>
  BY DEF RenameJar
<1>1. CASE Fault("failed") /\ UNCHANGED files
  BY <1>0, <1>1, FaultIsOver, OverKeeps DEF SyncInv, SyncTypeOK
<1>2. CASE /\ jar' = [jar EXCEPT ![Path] = tmp[Path]]
           /\ tmp' = [tmp EXCEPT ![Path] = "absent"]
           /\ Advance("jar")
  <2>1. pc' = "jar" /\ rest' = Tail(rest) /\ UNCHANGED <<lock, faults>>
    BY <1>2 DEF Advance
  <2>2. rest # <<>> /\ tmp[Path] = Sum
    BY <1>0, FetchingHasOne DEF Fetching, SyncInv, ItemAtHand
  <2>3. /\ Tail(rest) \in Seq(Jars \X Sums) /\ Head(rest) = <<Path, Sum>>
        /\ ToSet(rest) = {Head(rest)} \union ToSet(Tail(rest))
        /\ Path \in Jars /\ Sum \in Sums
    BY <1>0, <2>2, JarAtHand DEF SyncInv, Fetching
  <2>4. /\ jar' \in [Jars -> File] /\ tmp' \in [Jars -> File]
        /\ jar'[Path] = Sum /\ \A j \in Jars \ {Path} : jar'[j] = jar[j]
    BY <1>2, <2>2, <2>3 DEF SyncInv, SyncTypeOK, File
  <2>5. ToSet(rest) \subseteq ToSet(lock.jars)
    BY <1>0 DEF SyncInv, JarsSoFar, Fetching
  <2>6. SyncTypeOK'
    BY <1>0, <2>1, <2>3, <2>4 DEF SyncInv, SyncTypeOK, Over
  <2>7. FinishedIsComplete'
    BY <1>0 DEF SyncInv, FinishedIsComplete
  <2>8. JarsAreLocked'
    <3>1. Head(rest) \in ToSet(lock.jars) /\ lock \in Locks
      BY <2>3, <2>5 DEF SyncInv, SyncTypeOK
    <3>2. Head(rest) \in UNION {ToSet(l.jars) : l \in Locks}
      BY <3>1
    <3>3. Head(rest)[1] = Path /\ Head(rest)[2] = Sum
      BY DEF Path, Sum
    <3>4. Sum \in Named(Path)
      BY <3>2, <3>3 DEF Named
    <3> QED
      BY <2>4, <3>4 DEF SyncInv, JarsAreLocked
  <2>9. ItemAtHand' /\ ScratchSoFar' /\ ImagesSoFar' /\ MajorsSoFar'
    BY <1>0, <2>1
    DEF SyncInv, ItemAtHand, ScratchSoFar, ImagesSoFar, MajorsSoFar, Extracting, Fetching,
        Finishing
  <2>10. JarsSoFar'
    <3>1. ASSUME NEW e \in ToSet(lock.jars)
          PROVE  e \in ToSet(Tail(rest)) \/ jar'[e[1]] = e[2]
      <4>1. e \in Jars \X Sums
        BY LockIsTyped DEF ToSet, SyncInv
      <4>2. e \in ToSet(rest) \/ jar[e[1]] = e[2]
        BY <1>0, <3>1 DEF SyncInv, JarsSoFar, Fetching
      <4>3. e[1] = Path => e = Head(rest)
        BY <2>3, <2>5, <3>1, SyncAssumption DEF SyncInv, SyncTypeOK, Path
      <4>4. CASE e[1] = Path
        BY <2>4, <4>3, <4>4 DEF Sum
      <4>5. CASE e[1] # Path
        <5>1. e # Head(rest) /\ jar'[e[1]] = jar[e[1]]
          BY <2>4, <4>1, <4>5 DEF Path
        <5> QED
          BY <2>3, <4>2, <5>1
      <4> QED
        BY <4>4, <4>5
    <3>2. ToSet(Tail(rest)) \subseteq ToSet(lock.jars)
      BY <2>3, <2>5
    <3> QED
      BY <2>1, <3>1, <3>2 DEF JarsSoFar, Fetching, Finishing
  <2> QED
    BY <2>6, <2>7, <2>8, <2>9, <2>10 DEF SyncInv
<1> QED
  BY <1>1, <1>2 DEF RenameJar

-----------------------------------------------------------------------------
(* The end of a deploy, and its death.                                      *)
LEMMA FinishingKeeps ==
  ASSUME SyncInv, pc \in {"mkdir", "chown"}, pc' \in Finishing, rest' = <<>>,
         lock' = lock, faults' = faults, UNCHANGED <<images, tree, files>>,
         scratch' \in {"absent", "root", "bot"}, pc' = "done" => scratch' = "bot"
  PROVE  SyncInv'
<1> USE DEF tree, files
<1>1. SyncTypeOK'
  BY DEF SyncInv, SyncTypeOK, Over, Finishing
<1>2. FinishedIsComplete' /\ JarsAreLocked'
  BY DEF SyncInv, FinishedIsComplete, JarsAreLocked
<1>3. ItemAtHand' /\ ImagesSoFar' /\ MajorsSoFar' /\ JarsSoFar' /\ ScratchSoFar'
  BY DEF SyncInv, ItemAtHand, ImagesSoFar, MajorsSoFar, JarsSoFar, ScratchSoFar, Extracting,
         Fetching, Finishing
<1> QED
  BY <1>1, <1>2, <1>3 DEF SyncInv

LEMMA MakeScratchKeeps == ASSUME SyncInv, MakeScratch PROVE SyncInv'
<1>1. pc = "mkdir" /\ rest = <<>> /\ UNCHANGED <<images, tree, files>>
  BY DEF MakeScratch, SyncInv, SyncTypeOK, Over
<1>2. CASE scratch' = (IF scratch = "absent" THEN "root" ELSE scratch) /\ Goto("chown")
  <2>1. pc' = "chown" /\ rest' = <<>> /\ UNCHANGED <<lock, faults>>
    BY <1>1, <1>2 DEF Goto, Go, Over
  <2>2. scratch' \in {"absent", "root", "bot"}
    BY <1>2 DEF SyncInv, SyncTypeOK
  <2> QED
    BY <1>1, <2>1, <2>2, FinishingKeeps DEF Finishing
<1>3. CASE Fault("failed") /\ UNCHANGED scratch
  BY <1>1, <1>3, FaultIsOver, OverKeeps DEF SyncInv, SyncTypeOK, tree, files
<1> QED
  BY <1>2, <1>3 DEF MakeScratch

LEMMA ChownKeeps == ASSUME SyncInv, Chown PROVE SyncInv'
<1>1. pc = "chown" /\ rest = <<>> /\ UNCHANGED <<images, tree, files>>
  BY DEF Chown, SyncInv, SyncTypeOK, Over
<1>2. CASE scratch' = "bot" /\ Goto("done")
  <2>1. pc' = "done" /\ rest' = <<>> /\ UNCHANGED <<lock, faults>>
    BY <1>1, <1>2 DEF Goto, Go, Over
  <2> QED
    BY <1>1, <1>2, <2>1, FinishingKeeps DEF Finishing
<1>3. CASE Fault("failed") /\ UNCHANGED scratch
  BY <1>1, <1>3, FaultIsOver, OverKeeps DEF SyncInv, SyncTypeOK, tree, files
<1> QED
  BY <1>2, <1>3 DEF Chown

LEMMA CrashKeeps == ASSUME SyncInv, Crash PROVE SyncInv'
  BY FaultIsOver, OverKeeps DEF Crash, SyncInv, SyncTypeOK, tree, files

LEMMA NextKeeps == SyncInv /\ [Next]_vars => SyncInv'
<1> SUFFICES ASSUME SyncInv, [Next]_vars PROVE SyncInv'
  OBVIOUS
<1>1. ASSUME Step PROVE SyncInv'
  BY <1>1, PullImageKeeps, StatDirKeeps, CreateKeeps, ClearKeeps, CopyKeeps,
     RemoveContainerKeeps, ReplaceKeeps, RenameKeeps, CheckJarKeeps, GetKeeps, BodyKeeps,
     CompareKeeps, RenameJarKeeps, MakeScratchKeeps, ChownKeeps DEF Step
<1>2. ASSUME NEW l \in Locks, Begin(l) PROVE SyncInv'
  BY <1>2, BeginKeeps
<1>3. CASE UNCHANGED vars
  BY <1>3 DEF vars, SyncInv, SyncTypeOK, FinishedIsComplete, JarsAreLocked, ItemAtHand,
              ImagesSoFar, MajorsSoFar, JarsSoFar, ScratchSoFar, Path, Sum
<1> QED
  BY <1>1, <1>2, <1>3, CrashKeeps DEF Next

-----------------------------------------------------------------------------
LEMMA SyncInvariant == Spec => []SyncInv
<1> QED
  BY InitHolds, NextKeeps, PTL DEF Spec

(* The variables of a deploy, and the list it is working on, are well formed *)
(* at every step of any number of deploys, errors and crashes (syncHost).    *)
THEOREM SyncTypeCorrect == Spec => []SyncTypeOK
<1>1. SyncInv => SyncTypeOK
  BY DEF SyncInv
<1> QED
  BY <1>1, SyncInvariant, PTL

(* A directory that passes os.Stat at sync.go:98 holds every class, however  *)
(* many deploys died or failed between any two steps of an extraction.       *)
THEOREM FinishedIsCompleteHolds == Spec => []FinishedIsComplete
<1>1. SyncInv => FinishedIsComplete
  BY DEF SyncInv
<1> QED
  BY <1>1, SyncInvariant, PTL

(* What is on the Kotlin classpath has a hash that a lock named for it.      *)
THEOREM JarsAreLockedHolds == Spec => []JarsAreLocked
<1>1. SyncInv => JarsAreLocked
  BY DEF SyncInv
<1> QED
  BY <1>1, SyncInvariant, PTL

(* A deploy whose syncHost returns nil has everything of its lock in place,  *)
(* what it skipped on the strength of earlier deploys included.              *)
THEOREM DoneIsReadyHolds == Spec => []DoneIsReady
<1>1. SyncInv => DoneIsReady
  BY DEF SyncInv, DoneIsReady, Ready, ImagesSoFar, MajorsSoFar, JarsSoFar, ScratchSoFar, Finishing
<1> QED
  BY <1>1, SyncInvariant, PTL

-----------------------------------------------------------------------------
(* Refinement: a step of a deploy adds one thing its lock names, ends the    *)
(* deploy, or does nothing that can be seen. What is left of a list is of    *)
(* the lock.                                                                *)
RestIsAsked ==
  /\ pc = "image" => ToSet(rest) \subseteq ToSet(lock.images)
  /\ pc \in {"major"} \union Extracting => ToSet(rest) \subseteq ToSet(lock.majors)

LEMMA RestKeeps ==
  ASSUME SyncInv, RestIsAsked, [Next]_vars
  PROVE  RestIsAsked'
<1> DEFINE Lists == {"image", "major"} \union Extracting
<1>1. ASSUME pc' = pc \/ {pc, pc'} \subseteq {"major"} \union Extracting,
             ToSet(rest') \subseteq ToSet(rest), lock' = lock
      PROVE  RestIsAsked'
  BY <1>1 DEF RestIsAsked, Extracting
<1>2. ASSUME pc' \notin Lists
      PROVE  RestIsAsked'
  BY <1>2 DEF RestIsAsked, Extracting
<1>3. CASE PullImage
  <2>1. CASE rest = <<>>
    BY <1>3, <2>1 DEF PullImage, Turn, RestIsAsked, Extracting
  <2>2. CASE rest # <<>> /\ Advance("image")
    BY <1>1, <1>3, <2>2, ImageAtHand DEF PullImage, Advance, SyncInv
  <2>3. CASE Fault("failed")
    BY <1>2, <2>3 DEF Fault, Go, Extracting
  <2> QED
    BY <1>3, <2>1, <2>2, <2>3 DEF PullImage
<1>4. CASE StatDir
  <2>1. CASE rest = <<>>
    BY <1>2, <1>4, <2>1 DEF StatDir, Turn, Extracting
  <2>2. CASE rest # <<>> /\ Advance("major")
    BY <1>1, <1>4, <2>2, MajorAtHand DEF StatDir, Advance, SyncInv
  <2>3. CASE Goto("create")
    BY <1>1, <1>4, <2>3 DEF StatDir, Goto, Go, Over, Extracting
  <2> QED
    BY <1>4, <2>1, <2>2, <2>3 DEF StatDir
<1>5. CASE Create \/ Clear \/ Copy \/ RemoveContainer \/ Replace
  <2>1. pc \in Extracting /\ lock' = lock
    BY <1>5 DEF Create, Clear, Copy, RemoveContainer, Replace, Goto, Fault, Go, Extracting
  <2>2. pc' \in {"failed"} \union Extracting /\ (pc' # "failed" => rest' = rest)
    BY <1>5 DEF Create, Clear, Copy, RemoveContainer, Replace, Goto, Fault, Go, Over, Extracting
  <2> QED
    BY <1>1, <1>2, <2>1, <2>2 DEF Extracting
<1>6. CASE Rename
  <2>1. CASE Advance("major")
    BY <1>1, <1>6, <2>1, ExtractingHasOne, MajorAtHand DEF Rename, Advance, Extracting, SyncInv
  <2>2. CASE Goto("failed") \/ Fault("failed")
    BY <1>2, <2>2 DEF Goto, Fault, Go, Extracting
  <2> QED
    BY <1>6, <2>1, <2>2 DEF Rename
<1>7. CASE CheckJar \/ Get \/ Body \/ Compare \/ RenameJar \/ MakeScratch \/ Chown \/ Crash
  <2>1. pc' \in {"off", "failed", "jar", "mkdir", "chown", "done"} \union Fetching
    BY <1>7
    DEF CheckJar, Get, Body, Compare, RenameJar, MakeScratch, Chown, Crash, Advance, Goto,
        Fault, Go, Fetching
  <2> QED
    BY <1>2, <2>1 DEF Fetching, Extracting
<1>8. ASSUME NEW l \in Locks, Begin(l) PROVE RestIsAsked'
  BY <1>8 DEF Begin, RestIsAsked, Extracting
<1>9. CASE UNCHANGED vars
  BY <1>1, <1>9 DEF vars
<1> QED
  BY <1>3, <1>4, <1>5, <1>6, <1>7, <1>8, <1>9 DEF Next, Step

Stocked == {m \in Majors : dir[m] = "complete"}
Phase == IF pc = "done" THEN "kept" ELSE IF pc \in Over THEN "over" ELSE "underway"

\* What a step leaves as it is, as far as can be seen.
LEMMA UnseenStep ==
  ASSUME UNCHANGED <<images, jar, lock>>, Stocked' = Stocked, Phase' = Phase
  PROVE  UNCHANGED Contents!contentsVars
  BY DEF Contents!contentsVars, Stocked, Phase, Wish

LEMMA BreakSeen ==
  ASSUME UNCHANGED <<images, jar, lock>>, Stocked' = Stocked,
         pc \notin Over, pc' \in {"off", "failed"}
  PROVE  Contents!ContentsNext
  BY DEF Contents!ContentsNext, Contents!Break, Stocked, Wish, Over

LEMMA NextImplementsContents ==
  ASSUME SyncInv, RestIsAsked, [Next]_vars
  PROVE  Contents!ContentsNext \/ UNCHANGED Contents!contentsVars
<1> DEFINE Seen == Contents!ContentsNext \/ UNCHANGED Contents!contentsVars
<1> SUFFICES Seen
  OBVIOUS
<1>1. ASSUME UNCHANGED <<images, jar, lock>>, Stocked' = Stocked, pc \notin Over,
             pc' \notin Over \/ pc' \in {"off", "failed"}
      PROVE  Seen
  BY <1>1, UnseenStep, BreakSeen DEF Phase, Over
<1>2. ASSUME UNCHANGED dir PROVE Stocked' = Stocked
  BY <1>2 DEF Stocked
<1>3. CASE PullImage
  <2>1. CASE rest # <<>> /\ images' = images \union {Head(rest)} /\ Advance("image")
    <3>1. /\ pc = "image" /\ pc' = "image" /\ UNCHANGED <<dir, jar, lock>>
      BY <1>3, <2>1 DEF PullImage, Advance, tree, files
    <3>2. Head(rest) \in ToSet(lock.images)
      BY <2>1, <3>1, ImageAtHand DEF RestIsAsked, SyncInv
    <3>3. Phase = "underway" /\ Phase' = "underway"
      BY <3>1 DEF Phase, Over
    <3>4. Contents!Pull(Head(rest))
      BY <2>1, <3>1, <3>2, <3>3 DEF Contents!Pull, Wish, Phase
    <3> QED
      BY <3>2, <3>4 DEF Contents!ContentsNext, Wish
  <2>2. CASE UNCHANGED images /\ (Turn("major", lock.majors) \/ Fault("failed"))
    BY <1>1, <1>2, <1>3, <2>2 DEF PullImage, Turn, Fault, Go, tree, files, Over
  <2> QED
    BY <1>3, <2>1, <2>2 DEF PullImage
<1>4. CASE StatDir \/ Create \/ Clear \/ Copy \/ RemoveContainer
  <2>1. UNCHANGED <<images, dir, jar, lock>>
    BY <1>4
    DEF StatDir, Create, Clear, Copy, RemoveContainer, Turn, Advance, Goto, Fault, Go, tree, files
  <2>2. /\ pc \in {"major"} \union Extracting
        /\ pc' \in {"jar", "major", "failed"} \union Extracting
    BY <1>4
    DEF StatDir, Create, Clear, Copy, RemoveContainer, Turn, Advance, Goto, Fault, Go, Extracting
  <2> QED
    BY <1>1, <1>2, <2>1, <2>2 DEF Extracting, Over
<1>5. CASE Replace
  <2>1. /\ pc = "replace" /\ pc' = "rename" /\ UNCHANGED <<images, jar, lock>>
        /\ dir' \in {dir, [dir EXCEPT ![Head(rest)] = "absent"]}
    BY <1>5 DEF Replace, Goto, Fault, Go, files
  <2>2. Head(rest) \in Majors /\ dir[Head(rest)] # "complete" /\ dir \in [Majors -> Tree]
    BY <2>1, ExtractingHasOne DEF Extracting, SyncInv, SyncTypeOK
  <2>3. Stocked' = Stocked
    BY <2>1, <2>2 DEF Stocked
  <2> QED
    BY <1>1, <2>1, <2>3 DEF Over
<1>6. CASE Rename
  <2>1. pc = "rename" /\ UNCHANGED <<images, jar>>
    BY <1>6 DEF Rename, files
  <2>2. CASE /\ dir' = [dir EXCEPT ![Head(rest)] = partial[Head(rest)]]
             /\ Advance("major")
    <3>1. pc' = "major" /\ UNCHANGED lock
      BY <2>2 DEF Advance
    <3>2. /\ rest # <<>> /\ Head(rest) \in Majors /\ dir \in [Majors -> Tree]
          /\ dir[Head(rest)] # "complete" /\ partial[Head(rest)] = "complete"
      BY <2>1, ExtractingHasOne DEF Extracting, SyncInv, SyncTypeOK, ItemAtHand
    <3>3. Head(rest) \in ToSet(lock.majors)
      BY <2>1, <3>2, MajorAtHand DEF RestIsAsked, Extracting, SyncInv
    <3>4. Stocked' = Stocked \union {Head(rest)} /\ Head(rest) \notin Stocked
      BY <2>2, <3>2 DEF Stocked
    <3>5. Phase = "underway" /\ Phase' = "underway"
      BY <2>1, <3>1 DEF Phase, Over
    <3>6. Head(rest) \in Wish(lock).majors
      BY <3>3 DEF Wish
    <3>7. \E v \in Wish(lock).majors : Contents!Stock(v)
      BY <2>1, <3>1, <3>4, <3>5, <3>6 DEF Contents!Stock, Wish, Phase, Stocked
    <3> QED
      BY <3>7 DEF Contents!ContentsNext
  <2>3. CASE UNCHANGED dir /\ (Goto("failed") \/ Fault("failed"))
    BY <1>1, <1>2, <2>1, <2>3 DEF Goto, Fault, Go, Over
  <2> QED
    BY <1>6, <2>2, <2>3 DEF Rename
<1>7. CASE CheckJar \/ Get \/ Body \/ Compare \/ MakeScratch \/ Crash
  <2>1. UNCHANGED <<images, dir, jar, lock>>
    BY <1>7
    DEF CheckJar, Get, Body, Compare, MakeScratch, Crash, Advance, Goto, Fault, Go, tree, files
  <2>2. /\ pc \notin Over
        /\ pc' \in {"jar", "mkdir", "chown", "off", "failed"} \union Fetching
    BY <1>7
    DEF CheckJar, Get, Body, Compare, MakeScratch, Crash, Advance, Goto, Fault, Go, Fetching, Over
  <2> QED
    BY <1>1, <1>2, <2>1, <2>2 DEF Fetching, Over
<1>8. CASE RenameJar
  <2>1. pc = "renameJar" /\ UNCHANGED <<images, dir, lock>>
    BY <1>8 DEF RenameJar, Advance, Fault, Go, tree
  <2>2. CASE jar' = [jar EXCEPT ![Path] = tmp[Path]] /\ Advance("jar")
    <3>1. rest # <<>> /\ tmp[Path] = Sum
      BY <2>1, FetchingHasOne DEF Fetching, SyncInv, ItemAtHand
    <3>2. Head(rest) = <<Path, Sum>> /\ Head(rest) \in ToSet(lock.jars)
      BY <2>1, <3>1, JarAtHand DEF SyncInv, JarsSoFar, Fetching
    <3>3. Phase = "underway" /\ Phase' = "underway"
      BY <2>1, <2>2 DEF Advance, Phase, Over
    <3>4. Contents!Install(Path, Sum)
      BY <1>2, <2>1, <2>2, <3>1, <3>2, <3>3 DEF Contents!Install, Wish, Phase, Stocked
    <3>5. Contents!Install(Head(rest)[1], Head(rest)[2])
      BY <3>4 DEF Path, Sum
    <3> QED
      BY <3>2, <3>5 DEF Contents!ContentsNext, Wish
  <2>3. CASE UNCHANGED jar /\ Fault("failed")
    BY <1>1, <1>2, <2>1, <2>3 DEF Fault, Go, Over
  <2> QED
    BY <1>8, <2>2, <2>3 DEF RenameJar, files
<1>9. CASE Chown
  <2>1. pc = "chown" /\ UNCHANGED <<images, dir, jar, lock>>
    BY <1>9 DEF Chown, Goto, Fault, Go, tree, files
  <2>2. CASE Goto("done")
    <3>1. pc' = "done"
      BY <2>2 DEF Goto, Go
    <3>2. /\ ToSet(lock.images) \subseteq images
          /\ \A m \in ToSet(lock.majors) : dir[m] = "complete"
          /\ \A e \in ToSet(lock.jars) : jar[e[1]] = e[2]
      BY <2>1 DEF SyncInv, ImagesSoFar, MajorsSoFar, JarsSoFar, Finishing
    <3>3. ToSet(lock.majors) \subseteq Majors
      BY LockIsTyped DEF ToSet, SyncInv
    <3>4. ToSet(lock.majors) \subseteq Stocked
      BY <3>2, <3>3 DEF Stocked
    <3>5. Phase = "underway" /\ Phase' = "kept"
      BY <2>1, <3>1 DEF Phase, Over
    <3>6. Contents!Keep
      BY <1>2, <2>1, <3>2, <3>4, <3>5 DEF Contents!Keep, Wish, Phase, Stocked
    <3> QED
      BY <3>6 DEF Contents!ContentsNext
  <2>3. CASE Fault("failed")
    BY <1>1, <1>2, <2>1, <2>3 DEF Fault, Go, Over
  <2> QED
    BY <1>9, <2>2, <2>3 DEF Chown
<1>10. ASSUME NEW l \in Locks, Begin(l) PROVE Seen
  <2>1. /\ pc \in Over /\ pc' = "image" /\ lock' = l
        /\ UNCHANGED <<images, dir, jar>>
    BY <1>10 DEF Begin, tree, files
  <2>2. Phase # "underway" /\ Phase' = "underway"
    BY <2>1 DEF Phase, Over
  <2>3. Contents!Ask(Wish(l))
    BY <1>2, <2>1, <2>2 DEF Contents!Ask, Wish, Phase, Stocked
  <2> QED
    BY <2>3 DEF Contents!ContentsNext
<1>11. CASE UNCHANGED vars
  BY <1>2, <1>11, UnseenStep DEF vars, Phase
<1> HIDE DEF Seen
<1> QED
  BY <1>3, <1>4, <1>5, <1>6, <1>7, <1>8, <1>9, <1>10, <1>11 DEF Next, Step

(* Seen from the bot, deploys that fail and die at any step are a host to    *)
(* which things are added whole, one by one, as a lock asks for them, and a  *)
(* deploy that returns nil has kept its promise (syncHost).                  *)
THEOREM SyncImplementsContents == Spec => ImplementsContents
<1>1. Init => RestIsAsked /\ Contents!ContentsInit
  BY SyncAssumption
  DEF Init, RestIsAsked, Extracting, Contents!ContentsInit, Over
<1>2. SyncInv /\ RestIsAsked /\ [Next]_vars => RestIsAsked'
  BY RestKeeps
<1>3. SyncInv /\ RestIsAsked /\ [Next]_vars => [Contents!ContentsNext]_(Contents!contentsVars)
  BY NextImplementsContents
<1> QED
  BY <1>1, <1>2, <1>3, SyncInvariant, PTL DEF Spec, ImplementsContents, Contents!ContentsSpec

(* What HostContents promises of itself.                                    *)
LEMMA ContentsPromise ==
  Contents!ContentsSpec => Contents!OnlyAsked /\ []Contents!KeptIsFulfilled
<1> USE DEF Contents!ContentsNext, Contents!Ask, Contents!Pull, Contents!Stock,
            Contents!Install, Contents!Keep, Contents!Break, Contents!contentsVars
<1> DEFINE Jarred == jar = [j \in Jars |-> jar[j]]
           Only == /\ images \subseteq images' /\ Stocked \subseteq Stocked'
                   /\ \A j \in Jars : jar'[j] # jar[j] => <<j, jar'[j]>> \in Wish(lock).jars
<1>1. Contents!ContentsInit => Jarred /\ Contents!KeptIsFulfilled
  BY DEF Contents!ContentsInit, Contents!KeptIsFulfilled
<1>2. Jarred /\ [Contents!ContentsNext]_(Contents!contentsVars) => Jarred'
  <2> SUFFICES ASSUME Jarred, [Contents!ContentsNext]_(Contents!contentsVars)
               PROVE  Jarred'
    OBVIOUS
  <2>1. CASE jar' = jar
    BY <2>1
  <2>2. ASSUME NEW j, NEW s, jar' = [jar EXCEPT ![j] = s]
        PROVE  Jarred'
    BY <2>2
  <2> QED
    BY <2>1, <2>2
<1>3. Contents!KeptIsFulfilled /\ [Contents!ContentsNext]_(Contents!contentsVars)
        => Contents!KeptIsFulfilled'
  BY DEF Contents!KeptIsFulfilled
<1>4. Jarred /\ [Contents!ContentsNext]_(Contents!contentsVars) => [Only]_(Contents!contentsVars)
  <2> SUFFICES ASSUME Jarred, [Contents!ContentsNext]_(Contents!contentsVars)
               PROVE  Only \/ UNCHANGED Contents!contentsVars
    OBVIOUS
  <2>1. ASSUME NEW e \in Wish(lock).jars, Contents!Install(e[1], e[2])
        PROVE  Only
    <3>1. \A j \in Jars : j # e[1] => jar'[j] = jar[j]
      BY <2>1
    <3>2. \A j \in Jars : j = e[1] => jar'[j] = e[2]
      BY <2>1
    <3> QED
      BY <2>1, <3>1, <3>2 DEF Stocked
  <2>2. CASE jar' = jar /\ images \subseteq images' /\ Stocked \subseteq Stocked'
    BY <2>2
  <2> QED
    BY <2>1, <2>2 DEF Stocked
<1> QED
  BY <1>1, <1>2, <1>3, <1>4, PTL DEF Contents!ContentsSpec, Contents!OnlyAsked, Stocked

(* So the running bot loses nothing it can read, and a jar on its classpath  *)
(* changes only to what the lock being deployed names for it.               *)
THEOREM DeploysOnlyAdd == Spec => Contents!OnlyAsked
  BY SyncImplementsContents, ContentsPromise DEF ImplementsContents

(* Between the end of a deploy and the next one all of its lock is there.    *)
THEOREM DeploysKeepTheirPromise == Spec => []Contents!KeptIsFulfilled
  BY SyncImplementsContents, ContentsPromise DEF ImplementsContents

(* No step of a deploy takes away a version the running bot can read.        *)
THEOREM StockedStaysHolds == Spec => StockedStays
<1>1. Contents!OnlyAsked =>
        [][\A m \in Majors : dir[m] = "complete" => dir'[m] = "complete"]_vars
  <2> DEFINE Only == /\ images \subseteq images' /\ Stocked \subseteq Stocked'
                     /\ \A j \in Jars : jar'[j] # jar[j] => <<j, jar'[j]>> \in Wish(lock).jars
             Kept == \A m \in Majors : dir[m] = "complete" => dir'[m] = "complete"
  <2>1. [Only]_(Contents!contentsVars) => [Kept]_vars
    BY DEF Contents!contentsVars, Stocked
  <2> QED
    BY <2>1, PTL DEF Contents!OnlyAsked, Stocked
<1> QED
  BY <1>1, DeploysOnlyAdd DEF StockedStays
=============================================================================

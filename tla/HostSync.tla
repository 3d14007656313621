------------------------------ MODULE HostSync ------------------------------
(* cmd/toolchainctl/sync.go: what a deploy puts on the host before it        *)
(* restarts the bot. It goes through the lock one item at a time, skips what *)
(* is already there, stops at the first error and keeps no record of its     *)
(* own: the next deploy finds out from the disk what is left to do. The bot  *)
(* that is still running reads the same directories. Deploys come one after  *)
(* the other.                                                                *)
EXTENDS Integers, Sequences, SequencesExt

CONSTANTS
  Images,    \* the compiler images
  Majors,    \* the JDK versions
  Jars,      \* paths of Kotlin classpath jars
  Sums,      \* contents a jar can have, each known by its hash
  Locks,     \* the locks that are deployed, in any order and repeatedly
  MaxFaults  \* bounds the errors and crashes, not the deploys

(* A directory is not there, has no java in it, has some of its classes or   *)
(* has all of them.                                                          *)
Tree == {"absent", "bare", "part", "complete"}

\* A file that was cut short has a hash no lock names.
File == Sums \union {"absent", "cut"}

Lock == [images : Seq(Images), majors : Seq(Majors), jars : Seq(Jars \X Sums)]

\* The resolver names each jar of a Kotlin version once.
ASSUME SyncAssumption ==
  /\ Locks # {} /\ Locks \subseteq Lock
  /\ \A l \in Locks : \A d, e \in ToSet(l.jars) : d[1] = e[1] => d = e
  /\ MaxFaults \in Nat
  /\ "absent" \notin Sums /\ "cut" \notin Sums

VARIABLES
  images,     \* what the container runtime has pulled
  containers, \* the versions a container is left of
  dir,        \* sysclasses/<major>
  partial,    \* sysclasses/<major>.partial
  jar,        \* deps/<kotlin>/<jar>
  tmp,        \* deps/<kotlin>/<jar>.tmp
  scratch,    \* whose the scratch directory is: "absent", "root" or "bot"
  pc, lock, rest,  \* the deploy: where it is, its lock, what is left of its list
  faults

tree == <<containers, dir, partial>>
files == <<jar, tmp>>
vars == <<images, containers, dir, partial, jar, tmp, scratch, pc, lock, rest, faults>>

Over == {"off", "failed", "done"}

\* The host is new, or someone has made directories by hand.
Init ==
  /\ images = {} /\ containers = {}
  /\ dir \in [Majors -> {"absent", "bare"}]
  /\ partial = [m \in Majors |-> "absent"]
  /\ jar = [j \in Jars |-> "absent"]
  /\ tmp = [j \in Jars |-> "absent"]
  /\ scratch = "absent"
  /\ pc = "off"
  /\ lock \in Locks
  /\ rest = <<>>
  /\ faults = 0

\* A deploy that is over has no list.
Go(label) ==
  /\ pc' = label
  /\ rest' = IF label \in Over THEN <<>> ELSE rest
  /\ UNCHANGED lock

Goto(label) == Go(label) /\ UNCHANGED faults

\* The item at hand is dealt with, and the next one is up.
Advance(label) == pc' = label /\ rest' = Tail(rest) /\ UNCHANGED <<lock, faults>>

Turn(label, list) == pc' = label /\ rest' = list /\ UNCHANGED <<lock, faults>>

\* A command fails; what becomes of the deploy is for the caller to say.
Fault(label) ==
  /\ faults < MaxFaults
  /\ faults' = faults + 1
  /\ Go(label)

Begin(l) ==
  /\ pc \in Over
  /\ pc' = "image" /\ lock' = l /\ rest' = l.images
  /\ UNCHANGED <<images, tree, files, scratch, faults>>

-----------------------------------------------------------------------------
(* pullImages                                                               *)
PullImage ==
  /\ pc = "image"
  /\ IF rest = <<>>
     THEN Turn("major", lock.majors) /\ UNCHANGED images
     ELSE \/ images' = images \union {Head(rest)} /\ Advance("image")
          \/ Fault("failed") /\ UNCHANGED images
  /\ UNCHANGED <<tree, files, scratch>>

-----------------------------------------------------------------------------
(* syncSysclasses                                                           *)
\* Mutant of StatDir: the item is crossed off before it is dealt with.
StatDirTooFar ==
  /\ pc = "major"
  /\ IF rest = <<>> THEN Turn("jar", lock.jars)
     ELSE Advance(IF dir[Head(rest)] \in {"part", "complete"} THEN "major" ELSE "create")
  /\ UNCHANGED <<images, tree, files, scratch>>

\* Mutant of StatDir: every version is extracted again.
StatDirAlways ==
  /\ pc = "major"
  /\ IF rest = <<>> THEN Turn("jar", lock.jars) ELSE Goto("create")
  /\ UNCHANGED <<images, tree, files, scratch>>

\* A version whose directory has a java in it counts as finished.
StatDir ==
  /\ pc = "major"
  /\ IF rest = <<>> THEN Turn("jar", lock.jars)
     ELSE IF dir[Head(rest)] \in {"part", "complete"} THEN Advance("major")
     ELSE Goto("create")
  /\ UNCHANGED <<images, tree, files, scratch>>

\* The image is pulled and a container made from it, to copy files out of.
Create ==
  /\ pc = "create"
  /\ \/ containers' = containers \union {Head(rest)} /\ Goto("clear")
     \/ Fault("failed") /\ UNCHANGED containers
  /\ UNCHANGED <<images, dir, partial, files, scratch>>

\* Mutant of Clear: what an earlier deploy left is not removed.
ClearNothing ==
  LET m == Head(rest) IN
  /\ pc = "clear"
  /\ IF partial[m] = "absent"
     THEN partial' = [partial EXCEPT ![m] = "bare"] /\ Goto("copy")
     ELSE UNCHANGED partial /\ Goto("failed")
  /\ UNCHANGED <<images, containers, dir, files, scratch>>

\* What an earlier deploy left next to the final place goes file by file.
Clear ==
  LET m == Head(rest) IN
  /\ pc = "clear"
  /\ \/ partial[m] = "complete" /\ partial' = [partial EXCEPT ![m] = "part"] /\ Goto("clear")
     \/ partial' = [partial EXCEPT ![m] = "bare"] /\ Goto("copy")
     \/ partial' = [partial EXCEPT ![m] = "absent"] /\ Fault("failed")
  /\ UNCHANGED <<images, containers, dir, files, scratch>>

Copy ==
  LET m == Head(rest) IN
  /\ pc = "copy"
  /\ \/ partial[m] = "bare" /\ partial' = [partial EXCEPT ![m] = "part"] /\ Goto("copy")
     \/ partial' = [partial EXCEPT ![m] = "complete"] /\ Goto("copied")
     \/ Fault("copyFailed") /\ UNCHANGED partial
  /\ UNCHANGED <<images, containers, dir, files, scratch>>

\* Mutant of RemoveContainer: its outcome takes the place of the copy's.
RemoveHidesError ==
  /\ pc \in {"copied", "copyFailed"}
  /\ \/ containers' = containers \ {Head(rest)} /\ Goto("replace")
     \/ Fault("failed") /\ UNCHANGED containers
  /\ UNCHANGED <<images, dir, partial, files, scratch>>

\* The error of the removal is ignored, that of the copy is not.
RemoveContainer ==
  LET next == IF pc = "copied" THEN "replace" ELSE "failed" IN
  /\ pc \in {"copied", "copyFailed"}
  /\ \/ containers' = containers \ {Head(rest)} /\ Goto(next)
     \/ Fault(next) /\ UNCHANGED containers
  /\ UNCHANGED <<images, dir, partial, files, scratch>>

\* Its error is ignored too, but then the rename finds a directory in its way.
Replace ==
  /\ pc = "replace"
  /\ \/ dir' = [dir EXCEPT ![Head(rest)] = "absent"] /\ Goto("rename")
     \/ dir[Head(rest)] # "absent" /\ UNCHANGED dir /\ Fault("rename")
  /\ UNCHANGED <<images, containers, partial, files, scratch>>

Rename ==
  LET m == Head(rest) IN
  /\ pc = "rename"
  /\ \/ /\ dir[m] = "absent"
        /\ dir' = [dir EXCEPT ![m] = partial[m]]
        /\ partial' = [partial EXCEPT ![m] = "absent"]
        /\ Advance("major")
     \/ dir[m] # "absent" /\ Goto("failed") /\ UNCHANGED <<dir, partial>>
     \/ Fault("failed") /\ UNCHANGED <<dir, partial>>
  /\ UNCHANGED <<images, containers, files, scratch>>

-----------------------------------------------------------------------------
(* syncDeps and download. A jar is looked at whole: its hash decides.       *)
Path == Head(rest)[1]
Sum == Head(rest)[2]

\* Mutant of CheckJar: a jar that is there is the right one.
CheckJarIsThere ==
  /\ pc = "jar"
  /\ IF rest = <<>> THEN Goto("mkdir")
     ELSE IF jar[Path] # "absent" THEN Advance("jar")
     ELSE Goto("get")
  /\ UNCHANGED <<images, tree, files, scratch>>

CheckJar ==
  /\ pc = "jar"
  /\ IF rest = <<>> THEN Goto("mkdir")
     ELSE IF jar[Path] = Sum THEN Advance("jar")
     ELSE Goto("get")
  /\ UNCHANGED <<images, tree, files, scratch>>

\* The request is answered and the file made anew, or there is an error.
Get ==
  /\ pc = "get"
  /\ \/ tmp' = [tmp EXCEPT ![Path] = "cut"] /\ Goto("body")
     \/ Fault("failed") /\ UNCHANGED tmp
  /\ UNCHANGED <<images, tree, jar, scratch>>

\* What comes may be whole and still not what the lock says.
Body ==
  /\ pc = "body"
  /\ \/ tmp' = [tmp EXCEPT ![Path] = Sum] /\ Goto("compare")
     \/ \E s \in Sums \ {Sum} : tmp' = [tmp EXCEPT ![Path] = s] /\ Fault("compare")
     \/ tmp' = [tmp EXCEPT ![Path] = "absent"] /\ Fault("failed")
  /\ UNCHANGED <<images, tree, jar, scratch>>

\* Mutant of Compare: whatever was downloaded is kept.
CompareNothing ==
  /\ pc = "compare"
  /\ Goto("renameJar")
  /\ UNCHANGED <<images, tree, files, scratch>>

Compare ==
  /\ pc = "compare"
  /\ IF tmp[Path] = Sum THEN Goto("renameJar") /\ UNCHANGED tmp
     ELSE Goto("failed") /\ tmp' = [tmp EXCEPT ![Path] = "absent"]
  /\ UNCHANGED <<images, tree, jar, scratch>>

RenameJar ==
  /\ pc = "renameJar"
  /\ \/ /\ jar' = [jar EXCEPT ![Path] = tmp[Path]]
        /\ tmp' = [tmp EXCEPT ![Path] = "absent"]
        /\ Advance("jar")
     \/ Fault("failed") /\ UNCHANGED files
  /\ UNCHANGED <<images, tree, scratch>>

-----------------------------------------------------------------------------
(* syncHost's own steps: the scratch directory, made and given to the bot.  *)
MakeScratch ==
  /\ pc = "mkdir"
  /\ \/ scratch' = (IF scratch = "absent" THEN "root" ELSE scratch) /\ Goto("chown")
     \/ Fault("failed") /\ UNCHANGED scratch
  /\ UNCHANGED <<images, tree, files>>

Chown ==
  /\ pc = "chown"
  /\ \/ scratch' = "bot" /\ Goto("done")
     \/ Fault("failed") /\ UNCHANGED scratch
  /\ UNCHANGED <<images, tree, files>>

(* The deploy dies: everything is left as it is.                            *)
Crash ==
  /\ pc \notin Over
  /\ Fault("off")
  /\ UNCHANGED <<images, tree, files, scratch>>

Step ==
  \/ PullImage
  \/ StatDir \/ Create \/ Clear \/ Copy \/ RemoveContainer \/ Replace \/ Rename
  \/ CheckJar \/ Get \/ Body \/ Compare \/ RenameJar
  \/ MakeScratch \/ Chown

Next == Step \/ Crash \/ \E l \in Locks : Begin(l)

(* Commands end, and people go on deploying.                                *)
Spec == Init /\ [][Next]_vars /\ WF_vars(Step) /\ WF_vars(\E l \in Locks : Begin(l))

-----------------------------------------------------------------------------
(* Types, and: while a deploy works on an item, there is one.               *)
SyncTypeOK ==
  /\ images \subseteq Images /\ containers \subseteq Majors
  /\ dir \in [Majors -> Tree] /\ partial \in [Majors -> Tree]
  /\ jar \in [Jars -> File] /\ tmp \in [Jars -> File]
  /\ scratch \in {"absent", "root", "bot"}
  /\ lock \in Locks
  /\ faults \in 0..MaxFaults
  /\ \/ pc \in Over \union {"mkdir", "chown"} /\ rest = <<>>
     \/ pc = "image" /\ rest \in Seq(Images)
     \/ pc = "major" /\ rest \in Seq(Majors)
     \/ pc = "jar" /\ rest \in Seq(Jars \X Sums)
     \/ /\ pc \in {"create", "clear", "copy", "copied", "copyFailed", "replace", "rename"}
        /\ rest \in Seq(Majors) /\ rest # <<>>
     \/ /\ pc \in {"get", "body", "compare", "renameJar"}
        /\ rest \in Seq(Jars \X Sums) /\ rest # <<>>

(* However many deploys die or fail, and at whatever step, no directory that *)
(* a later one, or the bot, takes for a finished version lacks classes.      *)
FinishedIsComplete == \A m \in Majors : dir[m] # "part"

(* A version the bot can read is never taken away or worked on in place by   *)
(* a deploy, whatever lock it brings and whatever state the last one left.   *)
StockedStays ==
  [][\A m \in Majors : dir[m] = "complete" => dir'[m] = "complete"]_vars

(* A jar on the classpath is always, down to its hash, one that a lock has   *)
(* named for its path: no cut-off or swapped download gets there.            *)
Named(j) == {e[2] : e \in {e \in UNION {ToSet(l.jars) : l \in Locks} : e[1] = j}}

JarsAreLocked == \A j \in Jars : jar[j] \in Named(j) \union {"absent"}

(* A deploy that reports success leaves everything its lock names in place,  *)
(* the items it skipped included.                                            *)
Ready ==
  /\ ToSet(lock.images) \subseteq images
  /\ \A m \in ToSet(lock.majors) : dir[m] = "complete"
  /\ \A e \in ToSet(lock.jars) : jar[e[1]] = e[2]
  /\ scratch = "bot"

DoneIsReady == pc = "done" => Ready

(* Seen from the bot, any number of deploys, errors and crashes is a host to *)
(* which things are added whole, one by one, as the locks ask for them.      *)
Wish(l) == [images |-> ToSet(l.images), majors |-> ToSet(l.majors), jars |-> ToSet(l.jars)]

Contents == INSTANCE HostContents WITH
  Wishes <- {Wish(l) : l \in Locks},
  pulled <- images,
  stocked <- {m \in Majors : dir[m] = "complete"},
  classpath <- jar,
  wish <- Wish(lock),
  phase <- IF pc = "done" THEN "kept" ELSE IF pc \in Over THEN "over" ELSE "underway"

ImplementsContents == Contents!ContentsSpec

(* Nothing a failed or dead deploy leaves behind is in the way of the next:  *)
(* when the errors are over, deploys succeed.                                *)
DeploysRecover == []<>(pc = "done")
=============================================================================

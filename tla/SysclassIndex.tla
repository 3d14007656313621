---------------------------- MODULE SysclassIndex ----------------------------
(* internal/sysclass/store.go, load and build: the index of the extracted   *)
(* JDK classes. It is an atomic pointer to a snapshot, replaced by whoever  *)
(* walks the directory tree; a mutex keeps it to one walk at a time. The    *)
(* tree is on a volume that is mounted, filled and repaired by others while *)
(* the bot runs, in the middle of a walk too.                               *)
EXTENDS FiniteSets

CONSTANTS
  Procs,   \* callers of Majors, Available and Lookup
  Majors,  \* JDK versions a directory can be named after
  Nil

VARIABLES
  root,      \* "missing", "unreadable" or "mounted"
  dirs,      \* each version's directory: "absent", "empty", "broken" or "stocked"
  current,   \* Store.current: a snapshot, or Nil
  due,       \* the retry interval has passed since the walk behind current began
  building,  \* the holder of Store.building, or Nil
  pc,
  seen,      \* the snapshot a call has loaded, and in the end the one it returns
  replaced,  \* current is no longer the pointer the call has loaded
  walk,      \* the snapshot a walker is building
  served     \* the last snapshot each caller was given

disk == <<root, dirs>>
calls == <<pc, seen, replaced, walk, served>>
vars == <<root, dirs, current, due, building, pc, seen, replaced, walk, served>>

Snapshot == [err : BOOLEAN, majors : SUBSET Majors, broken : SUBSET Majors]

Walk == [err : BOOLEAN, majors : SUBSET Majors, broken : SUBSET Majors,
         pending : SUBSET Majors, aged : BOOLEAN]

ASSUME NilAssumption == Nil \notin Procs /\ Nil \notin Snapshot

Complete(snap) == snap # Nil /\ snap.majors # {} /\ snap.broken = {}

NoWalk == [err |-> FALSE, majors |-> {}, broken |-> {}, pending |-> {}, aged |-> FALSE]

TypeOK ==
  /\ root \in {"missing", "unreadable", "mounted"}
  /\ dirs \in [Majors -> {"absent", "empty", "broken", "stocked"}]
  /\ current \in Snapshot \union {Nil}
  /\ due \in BOOLEAN
  /\ building \in Procs \union {Nil}
  /\ pc \in [Procs -> {"idle", "lock", "tryLock", "recheck", "readDir", "index", "unlock"}]
  /\ seen \in [Procs -> Snapshot \union {Nil}]
  /\ replaced \in [Procs -> BOOLEAN]
  /\ walk \in [Procs -> Walk]
  /\ served \in [Procs -> Snapshot \union {Nil}]

\* Open does not walk anything, whatever the volume looks like.
Init ==
  /\ root \in {"missing", "unreadable", "mounted"}
  /\ dirs \in [Majors -> {"absent", "empty", "broken", "stocked"}]
  /\ current = Nil
  /\ due = FALSE
  /\ building = Nil
  /\ pc = [p \in Procs |-> "idle"]
  /\ seen = [p \in Procs |-> Nil]
  /\ replaced = [p \in Procs |-> FALSE]
  /\ walk = [p \in Procs |-> NoWalk]
  /\ served = [p \in Procs |-> Nil]

Goto(p, label) == pc' = [pc EXCEPT ![p] = label]
Give(p, snap) == served' = [served EXCEPT ![p] = snap]

-----------------------------------------------------------------------------
(* load *)
\* Mutant of Good: any index is good enough.
GoodOnce(snap) == snap # Nil

Good(snap) == snap # Nil /\ (Complete(snap) \/ ~due)

Load(p) ==
  /\ pc[p] = "idle"
  /\ IF Good(current)
     THEN Give(p, current) /\ UNCHANGED <<pc, seen, replaced>>
     ELSE /\ Goto(p, IF current = Nil THEN "lock" ELSE "tryLock")
          /\ seen' = [seen EXCEPT ![p] = current]
          /\ replaced' = [replaced EXCEPT ![p] = FALSE]
          /\ UNCHANGED served
  /\ UNCHANGED <<disk, current, due, building, walk>>

Lock(p) ==
  /\ pc[p] = "lock"
  /\ building = Nil
  /\ building' = p
  /\ Goto(p, "recheck")
  /\ UNCHANGED <<disk, current, due, seen, replaced, walk, served>>

\* Mutant of TryLock: it waits for the lock.
WaitingTryLock(p) ==
  /\ pc[p] = "tryLock"
  /\ building = Nil
  /\ building' = p /\ Goto(p, "recheck")
  /\ UNCHANGED <<disk, current, due, seen, replaced, walk, served>>

TryLock(p) ==
  /\ pc[p] = "tryLock"
  /\ IF building = Nil
     THEN building' = p /\ Goto(p, "recheck") /\ UNCHANGED <<seen, served>>
     ELSE /\ Give(p, seen[p]) /\ Goto(p, "idle")
          /\ seen' = [seen EXCEPT ![p] = Nil]
          /\ UNCHANGED building
  /\ UNCHANGED <<disk, current, due, replaced, walk>>

\* Mutant of Recheck: nobody looks whether the walk has been made meanwhile.
NoRecheck(p) ==
  /\ pc[p] = "recheck"
  /\ Goto(p, "readDir")
  /\ UNCHANGED <<disk, current, due, building, seen, replaced, walk, served>>

Recheck(p) ==
  /\ pc[p] = "recheck"
  /\ IF replaced[p]
     THEN seen' = [seen EXCEPT ![p] = current] /\ Goto(p, "unlock")
     ELSE Goto(p, "readDir") /\ UNCHANGED seen
  /\ UNCHANGED <<disk, current, due, building, replaced, walk, served>>

-----------------------------------------------------------------------------
(* build *)
ReadDir(p) ==
  /\ pc[p] = "readDir"
  /\ walk' = [walk EXCEPT ![p] =
       [NoWalk EXCEPT
          !.err = root = "unreadable",
          !.pending = IF root = "mounted" THEN {m \in Majors : dirs[m] # "absent"} ELSE {}]]
  /\ Goto(p, "index")
  /\ UNCHANGED <<disk, current, due, building, seen, replaced, served>>

(* One directory of the listing; entries come sorted by name, and no order  *)
(* among them matters here. A directory that has gone since, or that        *)
(* os.Stat does not reach ("empty" stands for that too), is skipped, as is  *)
(* one without a class; one that cannot be read is remembered as such.      *)
IndexVersion(p, m) ==
  LET state == IF root = "mounted" THEN dirs[m] ELSE "absent" IN
  /\ pc[p] = "index"
  /\ m \in walk[p].pending
  /\ walk' = [walk EXCEPT
       ![p].pending = @ \ {m},
       ![p].majors = IF state = "stocked" THEN @ \union {m} ELSE @,
       ![p].broken = IF state = "broken" THEN @ \union {m} ELSE @]
  /\ UNCHANGED <<disk, current, due, building, pc, seen, replaced, served>>

\* Mutant of Publish: the walker's working copy becomes the index.
PublishWorkingCopy(p) ==
  /\ pc[p] = "index"
  /\ walk[p].pending = {}
  /\ current' = walk[p]
  /\ due' = walk[p].aged
  /\ seen' = [seen EXCEPT ![p] = walk[p]]
  /\ replaced' = [q \in Procs |-> TRUE]
  /\ walk' = [walk EXCEPT ![p] = NoWalk]
  /\ Goto(p, "unlock")
  /\ UNCHANGED <<disk, building, served>>

Publish(p) ==
  LET w == walk[p]
      next == [err |-> w.err, majors |-> w.majors, broken |-> w.broken]
  IN
  /\ pc[p] = "index"
  /\ w.pending = {}
  /\ current' = next
  /\ due' = w.aged
  /\ seen' = [seen EXCEPT ![p] = next]
  /\ replaced' = [q \in Procs |-> TRUE]
  /\ walk' = [walk EXCEPT ![p] = NoWalk]
  /\ Goto(p, "unlock")
  /\ UNCHANGED <<disk, building, served>>

Unlock(p) ==
  /\ pc[p] = "unlock"
  /\ building' = Nil
  /\ Give(p, seen[p]) /\ Goto(p, "idle")
  /\ seen' = [seen EXCEPT ![p] = Nil]
  /\ UNCHANGED <<disk, current, due, replaced, walk>>

-----------------------------------------------------------------------------
(* The retry interval passes for the index and for the walks under way.     *)
IntervalPasses ==
  /\ due' = (current # Nil)
  /\ walk' = [p \in Procs |-> [walk[p] EXCEPT !.aged = pc[p] = "index"]]
  /\ UNCHANGED <<disk, current, building, pc, seen, replaced, served>>

(* The volume is mounted, unmounted or becomes readable; a version is       *)
(* extracted, repaired, damaged or removed.                                 *)
DiskChanges ==
  /\ \/ root' \in {"missing", "unreadable", "mounted"} /\ UNCHANGED dirs
     \/ \E m \in Majors, state \in {"absent", "empty", "broken", "stocked"} :
          dirs' = [dirs EXCEPT ![m] = state] /\ UNCHANGED root
  /\ UNCHANGED <<current, due, building, calls>>

Walking(p) == ReadDir(p) \/ (\E m \in Majors : IndexVersion(p, m)) \/ Publish(p)

Locking(p) == Lock(p) \/ TryLock(p) \/ Recheck(p) \/ Unlock(p)

Next ==
  \/ \E p \in Procs : Load(p) \/ Locking(p) \/ Walking(p)
  \/ IntervalPasses
  \/ DiskChanges

(* Steps that do not touch the disk go on: nothing is said of a walk, which *)
(* may hang on a dead mount.                                                *)
Spec == Init /\ [][Next]_vars /\ \A p \in Procs : WF_vars(Locking(p))

-----------------------------------------------------------------------------
(* A complete snapshot is kept for the life of the process: no walk, not    *)
(* even one that was waiting for the lock or began earlier, replaces it.    *)
CompleteIsKept == [][Complete(current) => current' = current]_vars

(* The tree is only walked when there is no index or the one there is was   *)
(* incomplete and due: callers that queued up behind a walk do not repeat   *)
(* it one after the other.                                                  *)
WalksAreNeeded ==
  \A p \in Procs : pc[p] = "readDir" => current = Nil \/ (~Complete(current) /\ due)

(* No caller that got a full answer is later given a lesser one, although   *)
(* calls return snapshots they loaded some steps earlier.                   *)
AnswersDoNotRegress ==
  [][\A p \in Procs : Complete(served[p]) => served'[p] = served[p]]_vars

(* Callers are served the previous answer while a retry is running, even if *)
(* its walk never comes back; only the walker itself is held up.            *)
ServedDuringRetry ==
  \A p \in Procs : pc[p] = "tryLock" ~> (pc[p] = "idle" \/ building = p)

(* A store that was absent, unreadable or partly broken when first asked    *)
(* for does not stay that way until a restart: once it is and stays well,   *)
(* a complete index is picked up, as long as its walks end, people go on    *)
(* asking and time passes.                                                  *)
Healthy ==
  /\ root = "mounted"
  /\ \A m \in Majors : dirs[m] # "broken"
  /\ \E m \in Majors : dirs[m] = "stocked"

Busy ==
  /\ \A p \in Procs : WF_vars(Load(p) \/ Walking(p))
  /\ WF_vars(IntervalPasses)

RecoveryIsPickedUp == Busy /\ <>[]Healthy => <>Complete(current)
=============================================================================

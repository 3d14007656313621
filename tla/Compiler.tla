------------------------------ MODULE Compiler ------------------------------
(* internal/compile/compile.go: one Compile after the other. The scratch     *)
(* directory is new for each and gone after it, so that what is kept of it   *)
(* here is the output directory: for each class whether its file is there,   *)
(* cut short, or whole. The container is the runtime's and not the program's: *)
(* what is killed at the deadline is the command that waits for it.          *)
EXTENDS Naturals, Sequences, FiniteSets, SequencesExt, FiniteSetsExt

CONSTANTS
  Classes,       \* the class files a compiler may write
  InWalkOrder,   \* all of them, as a directory walk comes by
  InNameOrder,   \* all of them, by their path
  Size,          \* the bytes of each
  Part,          \* and those that are there when it is cut short
  MaxOutputs, MaxBytes

ASSUME CompilerAssumption ==
  /\ InWalkOrder \in Seq(Classes) /\ ToSet(InWalkOrder) = Classes
  /\ \A i, j \in DOMAIN InWalkOrder : InWalkOrder[i] = InWalkOrder[j] => i = j
  /\ ToSet(InNameOrder) = Classes
  /\ Size \in [Classes -> Nat] /\ Part \in [Classes -> Nat]
  /\ MaxOutputs \in Nat /\ MaxBytes \in Nat

VARIABLES
  stage,       \* where Compile is
  disk,        \* the output directory
  container,   \* "none", "running" or "ended"
  exit,        \* how the command ended
  printed,     \* the compiler said something
  late,        \* the context is done
  todo,        \* what the walk has not come by yet
  kept,        \* artifacts
  answer       \* what Compile returns

compileVars == <<stage, disk, container, exit, printed, late, todo, kept, answer>>

CompileInit ==
  /\ stage = "idle" /\ container = "none" /\ exit = "ok" /\ printed = FALSE /\ late = FALSE
  /\ disk = [c \in Classes |-> "absent"]
  /\ todo = {} /\ kept = {} /\ answer = [kind |-> "none"]

\* The walk comes by c, and by d not before.
ComesFirst(c, d) ==
  \E i, j \in DOMAIN InWalkOrder : i <= j /\ InWalkOrder[i] = c /\ InWalkOrder[j] = d

ByPath(classes) == SelectSeq(InNameOrder, LAMBDA c : c \in classes)

BytesOn(files, classes) ==
  MapThenSumSet(LAMBDA c : IF files[c] = "whole" THEN Size[c] ELSE Part[c], classes)

Total(classes) == BytesOn(disk, classes)
Written == {c \in Classes : disk[c] # "absent"}

Answer(a) == answer' = a /\ stage' = "done"
Failure == Answer([kind |-> "error"])

-----------------------------------------------------------------------------
(* Nothing to compile and a level the release lacks are refused at once; a   *)
(* directory or a source may fail to be written.                             *)
Prepare ==
  /\ stage = "idle"
  /\ disk' = [c \in Classes |-> "absent"] /\ container' = "none" /\ exit' = "ok"
  /\ printed' = FALSE /\ late' = FALSE /\ todo' = {} /\ kept' = {}
  /\ \/ Failure
     \/ stage' = "run" /\ UNCHANGED answer

\* The command starts a container, or fails to.
Launch ==
  /\ stage = "run" /\ ~late /\ container = "none"
  /\ \/ container' = "running" /\ UNCHANGED <<stage, exit, printed>>
     \/ container' = "none" /\ stage' = "ran" /\ exit' = "error" /\ printed' \in BOOLEAN
  /\ UNCHANGED <<disk, late, todo, kept, answer>>

Deadline ==
  /\ stage \in {"run", "ran", "collect"} /\ ~late
  /\ late' = TRUE
  /\ UNCHANGED <<stage, disk, container, exit, printed, todo, kept, answer>>

\* Mutant of RunReturns: the command is not bound to the context.
RunReturnsInItsOwnTime ==
  /\ stage = "run" /\ container = "ended"
  /\ stage' = "ran"
  /\ UNCHANGED <<disk, container, exit, printed, late, todo, kept, answer>>

RunReturns ==
  /\ stage = "run"
  /\ \/ container = "ended" /\ UNCHANGED exit
     \/ late /\ exit' = "error"
  /\ stage' = "ran"
  /\ UNCHANGED <<disk, container, printed, late, todo, kept, answer>>

\* Mutant of AfterRun: what is there is taken, as after any other error.
AfterRunRegardless ==
  /\ stage = "ran"
  /\ stage' = "collect" /\ todo' = Written
  /\ UNCHANGED <<disk, container, exit, printed, late, kept, answer>>

AfterRun ==
  /\ stage = "ran"
  /\ IF late THEN Answer([kind |-> "timeout"]) /\ UNCHANGED todo
             ELSE stage' = "collect" /\ todo' = Written /\ UNCHANGED answer
  /\ UNCHANGED <<disk, container, exit, printed, late, kept>>

\* Mutant of Fits: the number is compared after the class is in.
FitsOneMore(c) == Cardinality(kept) <= MaxOutputs /\ Total(kept \union {c}) <= MaxBytes

Fits(c) == Cardinality(kept) < MaxOutputs /\ Total(kept \union {c}) <= MaxBytes

(* collect's walk: the first class that does not fit ends it, and a file that *)
(* cannot be read ends the compile.                                          *)
Visit ==
  /\ stage = "collect"
  /\ \E c \in todo :
       /\ \A d \in todo : ComesFirst(c, d)
       /\ \/ /\ Fits(c)
             /\ kept' = kept \union {c} /\ todo' = todo \ {c}
             /\ UNCHANGED <<stage, answer>>
          \/ /\ ~Fits(c)
             /\ todo' = {} /\ UNCHANGED <<stage, kept, answer>>
          \/ /\ Cardinality(kept) < MaxOutputs
             /\ Failure /\ UNCHANGED <<todo, kept>>
  /\ UNCHANGED <<disk, container, exit, printed, late>>

\* What came out matters more than how the command ended.
Conclude ==
  /\ stage = "collect" /\ todo = {}
  /\ Answer(IF kept = {} THEN [kind |-> "failed", output |-> printed]
            ELSE [kind |-> "result", artifacts |-> ByPath(kept)])
  /\ UNCHANGED <<disk, container, exit, printed, late, todo, kept>>

Return ==
  /\ stage = "done"
  /\ stage' = "idle"
  /\ UNCHANGED <<disk, container, exit, printed, late, todo, kept, answer>>

(* The container. It may be killed at any time, for the memory it uses, and  *)
(* it does not notice that nobody waits for it any more.                     *)
Emit ==
  /\ container = "running"
  /\ \/ \E c \in Classes :
          \/ disk[c] = "absent" /\ disk' = [disk EXCEPT ![c] = "cut"]
          \/ disk[c] = "cut" /\ disk' = [disk EXCEPT ![c] = "whole"]
        /\ UNCHANGED <<container, exit, printed>>
     \/ printed' = TRUE /\ UNCHANGED <<disk, container, exit>>
     \/ /\ container' = "ended"
        /\ \/ exit' = "ok" /\ \A c \in Classes : disk[c] # "cut"
           \/ exit' = "error"
        /\ UNCHANGED <<disk, printed>>
  /\ UNCHANGED <<stage, late, todo, kept, answer>>

CompileStep == Launch \/ RunReturns \/ AfterRun \/ Visit \/ Conclude \/ Return
CompileNext == Prepare \/ CompileStep \/ Deadline \/ Emit

-----------------------------------------------------------------------------
(* What Compile returns is read when nobody writes any more: the container   *)
(* has ended, and the artifacts are the first classes the walk comes by, as  *)
(* many of those that were written as keep to both limits, sorted by path.   *)
ResultIsWhatWasWritten ==
  answer.kind = "result" /\ stage \in {"done", "idle"} =>
    /\ container = "ended"
    /\ \E first \in SUBSET Written :
         LET rest == Written \ first
             fit(classes) == Cardinality(classes) <= MaxOutputs /\ Total(classes) <= MaxBytes
         IN  /\ first # {} /\ fit(first)
             /\ \A c \in first, d \in rest : ComesFirst(c, d)
             /\ \A c \in rest : (\A d \in rest : ComesFirst(c, d)) => ~fit(first \union {c})
             /\ answer.artifacts = ByPath(first)

(* Every compile ends, whatever becomes of the container: a compiler that    *)
(* hangs is a timeout (150-152), which is what the handler that waits for it *)
(* relies on.                                                                *)
EveryCompileEnds == stage = "run" ~> stage = "done"
=============================================================================

------------------------------ MODULE Catalog ------------------------------
(* internal/toolchain/catalog.go: the lookups that turn a session's choices *)
(* into the compiler that will run. A release is a record                   *)
(*   [id, targets, default, major, preview, flag]                           *)
(* as CatalogFromLock makes it: id is <<language, version>>, the targets are *)
(* newest first, as the releases of a chain are.                            *)
EXTENDS Naturals, SequencesExt

CONSTANTS
  Chains,  \* the releases of each catalogued language
  Java,    \* detect.Java
  Nil      \* "not found", and the empty string

Releases(language) ==
  IF language \in DOMAIN Chains THEN Chains[language] ELSE <<>>

\* For(language) succeeds; a chain without releases is as good as none.
Known(language) == Releases(language) # <<>>

CatalogLanguages == {l \in DOMAIN Chains : Known(l)}

\* The first release of a chain that passes Test, or Nil.
FirstRelease(language, Test(_)) ==
  LET i == SelectInSeq(Releases(language), Test)
  IN  IF i = 0 THEN Nil ELSE Releases(language)[i]

FindRelease(language, id) == FirstRelease(language, LAMBDA r : r.id = id)

DefaultRelease(language) ==
  LET marked == FirstRelease(language, LAMBDA r : r.default)
  IN  IF marked # Nil THEN marked ELSE Releases(language)[1]

ReleaseOrDefault(language, id) ==
  LET chosen == FindRelease(language, id)
  IN  IF chosen # Nil THEN chosen ELSE DefaultRelease(language)

Supports(release, target) == target \in ToSet(release.targets)

DefaultTarget(release) ==
  IF release.targets = <<>> THEN Nil ELSE release.targets[1]

TargetOrDefault(release, target) ==
  IF target = Nil THEN DefaultTarget(release) ELSE target

\* The newest release of a chain that the system class store holds.
NewestStocked(language, stocked) ==
  FirstRelease(language, LAMBDA r : r.major \in stocked)

(* Command: how a level is passed to the compiler. javac takes --release, or *)
(* -source and -target where it is older than that, and preview features    *)
(* only with the release's own level.                                       *)
Previews(release, target) == release.preview /\ target = <<release.id[2]>>

Command(language, release, target) ==
  [option |-> IF language # Java THEN "target"
              ELSE IF release.flag \/ Previews(release, target) THEN "--release"
              ELSE "-source",
   preview |-> language = Java /\ Previews(release, target)]
=============================================================================

------------------------------- MODULE Lookup -------------------------------
(* internal/sysclass/store.go: which class of a version a name stands for.    *)
(* A name is the parts between its dots and dollars; a class also knows how   *)
(* many of them are packages, which is its number of dots. Normalize has been *)
(* applied to a query already, and what it leaves is again such a name; what *)
(* it refuses is not found, and is left out.                                 *)
EXTENDS Naturals, Sequences, FiniteSets, SequencesExt, FiniteSetsExt

CONSTANTS
  Names,     \* the classes: [parts |-> sequence, packages |-> number]
  Wanted,    \* what people ask for, without the classes' own names
  Lower      \* a part, in lower case

ASSUME LookupAssumption ==
  /\ IsFiniteSet(Names)
  /\ \A c \in Names : /\ c.parts \in Seq(DOMAIN Lower)
                      /\ c.packages \in Nat /\ c.packages < Len(c.parts)
  /\ Wanted \subseteq Seq(DOMAIN Lower) \ {<<>>}
  \* No two classes differ in a dot and a dollar only.
  /\ \A c, d \in Names : c.parts = d.parts => c = d

VARIABLES
  files,   \* the version's directory
  index,   \* bySimple, as of the last walk
  asked,   \* the last question
  reply    \* and the answer to it

lookupVars == <<files, index, asked, reply>>

LookupInit == files = Names /\ index = Names /\ asked = <<>> /\ reply = [kind |-> "none"]

Folded(parts) == [i \in DOMAIN parts |-> Lower[parts[i]]]

preferredPackages == <<
  <<"java", "lang">>, <<"java", "util">>, <<"java", "io">>, <<"java", "nio">>,
  <<"java", "util", "concurrent">>, <<"java", "time">>, <<"java", "util", "function">>,
  <<"java", "util", "stream">>, <<"java", "math">>, <<"java", "net">>, <<"java", "text">>,
  <<"java", "sql">>>>

\* Lower is better. The longest preferred package decides, then the depth.
rank(c) ==
  LET package == SubSeq(c.parts, 1, c.packages)
      in == {i \in DOMAIN preferredPackages : IsPrefix(preferredPackages[i], package)}
      longest == CHOOSE i \in in :
        \A j \in in : Len(preferredPackages[j]) <= Len(preferredPackages[i])
  IN  IF in = {} THEN Len(preferredPackages) * 10 + c.packages
      ELSE (longest - 1) * 10 + c.packages - Len(preferredPackages[longest])

hasNameSuffix(name, suffix) == IsStrictSuffix(suffix, name)

\* Mutant of Tier: the capitals of a full name are not looked at.
TierOfAnyCase(c, want) ==
  IF Folded(c.parts) = Folded(want) THEN 1
  ELSE IF hasNameSuffix(c.parts, want) THEN 2
  ELSE IF hasNameSuffix(Folded(c.parts), Folded(want)) THEN 3
  ELSE 0

\* Which tier a class belongs to, 0 if it does not match.
Tier(c, want) ==
  IF c.parts = want THEN 1
  ELSE IF Folded(c.parts) = Folded(want) THEN 2
  ELSE IF hasNameSuffix(c.parts, want) THEN 3
  ELSE IF hasNameSuffix(Folded(c.parts), Folded(want)) THEN 4
  ELSE 0

\* Mutant of Better: the last of several that are as good wins.
BetterOrLater(best, c) ==
  IF best = {} \/ rank(c) <= rank(CHOOSE b \in best : TRUE) THEN {c} ELSE best

\* pick's loop: the winners so far, and one more match.
Better(best, c) ==
  IF best = {} THEN {c}
  ELSE LET score == rank(CHOOSE b \in best : TRUE)
       IN  IF rank(c) < score THEN {c} ELSE IF rank(c) = score THEN best \union {c} ELSE best

Winners(list) ==
  LET best[i \in 0..Len(list)] == IF i = 0 THEN {} ELSE Better(best[i - 1], list[i])
  IN  best[Len(list)]

pick(matches) ==
  LET winners == Winners(SetToSeq(matches))
  IN  IF Cardinality(winners) = 1
      THEN [kind |-> "class", class |-> CHOOSE c \in winners : TRUE]
      ELSE [kind |-> "ambiguous", candidates |-> winners]

NotFound == [kind |-> "notFound"]

\* The first tier with a match, of the classes with the query's simple name.
resolve(want) ==
  LET candidates == {c \in index : Lower[Last(c.parts)] = Lower[Last(want)]}
      tiers == {Tier(c, want) : c \in candidates} \ {0}
  IN  IF tiers = {} THEN NotFound
      ELSE pick({c \in candidates : Tier(c, want) = Min(tiers)})

Failed == [kind |-> "error"]

\* A class that was indexed and then removed is simply not there. One that is
\* too large, or cannot be read, is an error.
readFile(found) ==
  IF found.kind # "class" THEN {found}
  ELSE IF found.class \in files THEN {found, Failed} ELSE {NotFound}

\* Nothing is looked up when there is no index, or none of this version, which
\* the walk may have failed to read.
Ask(want) ==
  /\ asked' = want /\ reply' \in readFile(resolve(want)) \union {Failed}
  /\ UNCHANGED <<files, index>>

\* A deploy, and a walk.
Change(c) ==
  /\ files' = IF c \in files THEN files \ {c} ELSE files \union {c}
  /\ UNCHANGED <<index, asked, reply>>

Walk == index # files /\ index' = files /\ UNCHANGED <<files, asked, reply>>

LookupNext ==
  \/ \E q \in Wanted \union {c.parts : c \in Names} : Ask(q)
  \/ \E c \in Names : Change(c)
  \/ Walk

LookupSpec == LookupInit /\ [][LookupNext]_lookupVars

-----------------------------------------------------------------------------
(* An answer is the best of all classes of the version, whichever list they  *)
(* were indexed under: the whole name before the end of one, the same        *)
(* capitals before others, and then by package; a question comes back only   *)
(* when several are as good, and "not found" only when nothing ends in what  *)
(* was asked (store.go:189-192, 196-198), or the best is not there any more. *)
AnswerIsBest ==
  [][asked' # <<>> /\ reply'.kind # "error" /\ (asked' # asked \/ reply' # reply) =>
       LET same(c) == Folded(asked') = Folded(c.parts)
           matches == {c \in index : IsSuffix(Folded(asked'), Folded(c.parts))}
           exact(c) == IsSuffix(asked', c.parts)
           above(c, d) ==   \* c goes before d
             \/ same(c) /\ ~same(d)
             \/ same(c) = same(d) /\ exact(c) /\ ~exact(d)
             \/ same(c) = same(d) /\ exact(c) = exact(d) /\ rank(c) < rank(d)
           best == {c \in matches : \A d \in matches : ~above(d, c)}
       IN  CASE reply'.kind = "class" -> best = {reply'.class}
             [] reply'.kind = "ambiguous" -> best = reply'.candidates /\ Cardinality(best) > 1
             [] OTHER -> matches = {} \/ best \subseteq Names \ files]_lookupVars

(* "Send the full name", says bot.go:322 with the candidates of a question.  *)
(* Whoever does is not asked again, even if the tree was walked again in      *)
(* between: the name is that class's and no other's. It may still be removed *)
(* or fail to be read.                                                       *)
QuestionsAreSettled ==
  [][\A c \in IF reply.kind = "ambiguous" THEN reply.candidates \intersect index ELSE {} :
       asked' = c.parts /\ asked' # asked =>
         reply' \in {Failed, IF c \in files THEN [kind |-> "class", class |-> c]
                                            ELSE NotFound}]_lookupVars
=============================================================================

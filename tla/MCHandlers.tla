----------------------------- MODULE MCHandlers -----------------------------
(* Small instances of Handlers for TLC: two locks and two stores.         *)
EXTENDS Handlers, CatalogFromLock

JDK(major, flag, preview) ==
  [request |-> [major |-> major, ea |-> FALSE, floor |-> 8, flag |-> flag, preview |-> preview],
   build |-> [arch |-> "x64"]]

Kotlin(version, jdk, max) ==
  [request |-> [language |-> "kotlin", version |-> version, jdk |-> jdk, max |-> max,
                default |-> TRUE]]

(* Two Javas on either side of the seam at 9, a Kotlin, and no Groovy: one   *)
(* release has levels that another lacks, and a language has no release.    *)
FullChains ==
  FromLock([jdk |-> <<JDK(8, FALSE, FALSE), JDK(9, TRUE, TRUE)>>,
            tools |-> <<Kotlin("2.2", 9, <<9>>)>>])
OlderClasses == 8 :> {"Map"}

\* A single compiler, with a single level.
OneChain == FromLock([jdk |-> <<JDK(8, FALSE, FALSE)>>, tools |-> <<>>])
OldestClasses == 8 :> {"Map"}

AllIds == {<<"java", 9>>, <<"java", 8>>, <<"kotlin", "2.2">>}
AllTargets == {<<9>>, <<1, 8>>}

\* Identities are interchangeable; used for safety properties only.
Symmetry ==
  Permutations(Procs) \union Permutations(Chats) \union
  Permutations(SessionIds) \union Permutations(MessageIds)

\* A section that is not there any more, and data that is not the bot's own.
OtherVersions == {Button("view", "gone"), Button("foreign", Nil)}

(* One update at a time. Addresses are used in order (which of them is next  *)
(* makes no difference); time passes and the process dies while there has    *)
(* been one session at most, so that a second one follows a restart.        *)
InOrder ==
  /\ Allocated # {} => (CHOOSE s \in SessionIds : TRUE) \in Allocated
  /\ Displayed # {} => (CHOOSE m \in MessageIds : TRUE) \in Displayed

OneSession == Cardinality(Allocated) <= 1

Early ==
  /\ now' > 0 => OneSession'
  /\ restarts' > restarts => OneSession

SerialSpec == Init /\ [][Next /\ InOrder' /\ Early]_vars /\ \A p \in Procs : WF_vars(Step(p))
=============================================================================

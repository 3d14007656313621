--------------------------- MODULE CatalogFromLock ---------------------------
(* internal/toolchain/catalog.go and manifest.go: the chains of Catalog, made *)
(* from a lock. A level is spelled <<n>>, or <<1, n>> for 1.n.              *)
EXTENDS LockFile

\* Both spellings of a level mean the same.
ParseLevel(spelled) == spelled[Len(spelled)]

\* Numbering has a seam at 9: older levels are 1.something.
Spelled(level) == IF level >= 9 THEN <<level>> ELSE <<1, level>>

\* What is not spelled like that does not parse, and is offered as it is.
IsLevel(spelled) == Len(spelled) \in {1, 2} /\ (Len(spelled) = 2 => spelled[1] = 1)

Targets(floor, ceiling) ==
  LET top == ParseLevel(ceiling)
  IN  IF ~IsLevel(ceiling) \/ top < floor THEN <<ceiling>>
      ELSE [i \in 1..(top - floor + 1) |-> Spelled(top - i + 1)]

JavaReleases(lock) ==
  LET release(i) ==
        LET jdk == Representative(lock, Majors(lock)[i]).request
        IN  [id |-> <<"java", jdk.major>>, targets |-> Targets(jdk.floor, <<jdk.major>>),
             default |-> i = 1, major |-> jdk.major, preview |-> jdk.preview, flag |-> jdk.flag]
  IN  [i \in DOMAIN Majors(lock) |-> release(i)]

\* The lock's order is oldest first, and the keyboard's the reverse.
ToolReleases(lock, language) ==
  LET at == Descending({i \in DOMAIN lock.tools : lock.tools[i].request.language = language})
      release(t) ==
        [id |-> <<language, t.version>>, targets |-> Targets(8, t.max), default |-> t.default,
         major |-> t.jdk, preview |-> FALSE, flag |-> FALSE]
  IN  [i \in DOMAIN at |-> release(lock.tools[at[i]].request)]

FromLock(lock) ==
  [language \in {"java", "kotlin", "groovy"} |->
     IF language = "java" THEN JavaReleases(lock) ELSE ToolReleases(lock, language)]

-----------------------------------------------------------------------------
(* What the handlers and the keyboards rely on in the catalog of a lock that *)
(* was resolved from manifest m. Releases are found again by their ID and    *)
(* have levels to choose from, none of them twice.                          *)
IsChain(chain, ids) ==
  /\ chain \in Seq([id : ids, targets : Seq(Seq(Nat)), default : BOOLEAN, major : Nat,
                     preview : BOOLEAN, flag : BOOLEAN])
  /\ \A i, j \in DOMAIN chain : chain[i].id = chain[j].id => i = j
  /\ \A i \in DOMAIN chain : chain[i].targets # <<>> /\ IsInjective(chain[i].targets)

\* The manifest's versions and no others, newest first, whichever build stands for one.
OffersJDKs(java, requests) ==
  /\ \A i, j \in DOMAIN java : i < j => java[i].major > java[j].major
  /\ {[id |-> r.id, major |-> r.major, preview |-> r.preview, flag |-> r.flag] : r \in ToSet(java)}
       = {[id |-> <<"java", q.major>>, major |-> q.major, preview |-> q.preview, flag |-> q.flag] :
            q \in ToSet(requests)}

\* Each release of a compiler, the last one first, with a JDK that is offered too.
OffersTools(chain, language, tools, java) ==
  /\ DOMAIN chain = DOMAIN tools
  /\ \A i \in DOMAIN chain :
       LET t == tools[Len(tools) - i + 1] IN
       /\ chain[i].id = <<language, t.version>>
       /\ \E r \in ToSet(java) : r.major = t.jdk /\ chain[i].major = t.jdk

CatalogServes(lock, m) ==
  LET chains == FromLock(lock) IN
  /\ IsChain(chains["java"], {"java"} \X Nat)
  /\ IsChain(chains["kotlin"], {"kotlin"} \X STRING)
  /\ IsChain(chains["groovy"], {"groovy"} \X STRING)
  /\ OffersJDKs(chains["java"], m.jdk)
  /\ OffersTools(chains["kotlin"], "kotlin", m.kotlin, chains["java"])
  /\ OffersTools(chains["groovy"], "groovy", m.groovy, chains["java"])
=============================================================================

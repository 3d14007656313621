------------------------------ MODULE Resolver ------------------------------
(* internal/toolchain/resolve.go, manifest.go and cmd/toolchainctl/main.go:  *)
(* `toolchainctl resolve` turns the manifest into the lock everything else   *)
(* is built from. It asks one server after another, while archives are       *)
(* republished behind its back, requests fail and someone may interrupt it.  *)
EXTENDS CatalogFromLock

CONSTANTS
  Manifests,   \* manifests someone may write
  Builds,      \* what foojay lists, in its order
  Moving,      \* archives that are republished under the same URL
  Hosted,      \* URLs of GitHub releases
  Digested,    \* those whose release has a digest
  Sidecars,    \* URLs with a checksum next to them
  Absent,      \* Maven artifacts with no checksum, or an empty one, next to them
  MaxEdition,  \* bounds how often an archive is republished
  MaxAttempts, \* do's maxAttempts
  Nil          \* ""

(* The manifest, with the requests of LockFile. A tool's line is the first   *)
(* two parts of its version.                                                *)
JDKRequest == [major : Nat, ea : BOOLEAN, floor : Nat, flag : BOOLEAN, preview : BOOLEAN]

ToolRequest(languages) ==
  [language : languages, version : STRING, line : STRING, jdk : Nat,
   coroutines : {Nil} \union STRING, max : Seq(Nat), default : BOOLEAN]

AnyManifest ==
  [arches : Seq(STRING), distributions : Seq(STRING), jdk : Seq(JDKRequest),
   kotlin : Seq(ToolRequest({"kotlin"})), groovy : Seq(ToolRequest({"groovy"}))]

Tools(m) == m.kotlin \o m.groovy

(* A build is [major, arch, distribution, status, libc, url, checksum], where *)
(* checksum says whether foojay has a sha256 for it. The content of a URL is *)
(* its edition, 1 for what never changes; 0 is a damaged download.           *)
ASSUME ResolverAssumption ==
  /\ MaxAttempts \in Nat \ {0} /\ MaxEdition \in Nat \ {0}
  /\ Manifests \subseteq AnyManifest
  /\ \A m \in Manifests : \A t, u \in ToSet(Tools(m)) : t.version = u.version => t.line = u.line
  /\ DOMAIN Builds \subseteq Nat
  /\ \A i \in DOMAIN Builds :
       /\ Builds[i].status \in {"ga", "ea"}
       /\ Builds[i].url \in Moving => Builds[i].status = "ea"

VARIABLES
  host,      \* edition of each moving archive at its URL now
  since,     \* and when the run began
  file,      \* lock.json: as the run found it ("old"), "cut" or "new"
  pc, run,   \* where the run is, and its variables
  attempt,   \* of the request at hand
  cancelled  \* an interrupt has come

world == <<host, since>>
vars == <<host, since, file, pc, run, attempt, cancelled>>

EmptyLock == [jdk |-> <<>>, tools |-> <<>>]
Idle == [manifest |-> Nil, todo |-> <<>>, arches |-> <<>>, queries |-> <<>>,
         offers |-> {}, sum |-> Nil, jar |-> Nil, deps |-> <<>>, lock |-> EmptyLock]

Init ==
  /\ host \in [Moving -> 1..MaxEdition] /\ since = host
  /\ file = "old"
  /\ pc = "off" /\ run = Idle
  /\ attempt = 1 /\ cancelled = FALSE

Content(url) == IF url \in Moving THEN host[url] ELSE 1

-----------------------------------------------------------------------------
(* What a manifest has to be.                                               *)
DistinctLines(tools) ==
  \A i, j \in DOMAIN tools : tools[i].line = tools[j].line => i = j

\* Mutant of Valid: two releases may share a line, or be the same release.
ValidButClashing(m) ==
  /\ m.jdk # <<>> /\ m.arches # <<>>
  /\ \A t \in ToSet(Tools(m)) : \E r \in ToSet(m.jdk) : r.major = t.jdk

Valid(m) ==
  /\ m.jdk # <<>> /\ m.arches # <<>>
  /\ \A i, j \in DOMAIN m.jdk : m.jdk[i].major = m.jdk[j].major => i = j
  /\ \A t \in ToSet(Tools(m)) : \E r \in ToSet(m.jdk) : r.major = t.jdk
  /\ DistinctLines(m.kotlin) /\ DistinctLines(m.groovy)
  /\ \A t \in ToSet(m.kotlin) : t.coroutines # Nil

-----------------------------------------------------------------------------
(* The loops of Resolve. Each operator goes on from what is left in r.       *)
Goto(label, r) == pc' = label /\ run' = r

\* The run is over, whatever came of it.
Stop == Goto("off", Idle)

\* Release candidates come after releases, whatever the distribution.
Queries(m, request) ==
  LET all(status) == [d \in DOMAIN m.distributions |-> <<status, m.distributions[d]>>]
  IN  all("ga") \o IF request.ea THEN all("ea") ELSE <<>>

NextTool(r) ==
  IF r.todo = <<>> THEN Goto("save", r)
  ELSE Goto(IF Head(r.todo).language = "kotlin" THEN "toolDigest" ELSE "sidecar", r)

NextRequest(r) ==
  IF r.todo = <<>> THEN NextTool([r EXCEPT !.todo = Tools(r.manifest)])
  ELSE Goto("packages", [r EXCEPT !.arches = r.manifest.arches,
                                  !.queries = Queries(r.manifest, Head(r.todo))])

\* One architecture is done with. A version needs at least one.
NextArch(r) ==
  IF Len(r.arches) > 1
  THEN Goto("packages", [r EXCEPT !.arches = Tail(@), !.offers = {}, !.sum = Nil,
                                  !.queries = Queries(r.manifest, Head(r.todo))])
  ELSE IF \E e \in ToSet(r.lock.jdk) : e.request = Head(r.todo)
  THEN NextRequest([r EXCEPT !.todo = Tail(@), !.offers = {}, !.sum = Nil])
  ELSE Stop

\* Whatever went wrong, the architecture is left out and the run goes on.
ArchFails == NextArch(run)

(* What is left of foojay's answer is the positions of the builds in it.    *)
Offer(r) == Builds[Min(r.offers)]

NextOffer(r) ==
  LET left == r.offers \ {Min(r.offers)}
  IN  IF left # {} THEN Goto("detail", [r EXCEPT !.offers = left])
      ELSE Goto("packages", [r EXCEPT !.offers = {}, !.queries = Tail(@)])

\* Mutant of Exchange: a throttled request is repeated for as long as it takes.
ExchangeForever(answered, failed) ==
  \/ ~cancelled /\ answered /\ attempt' = 1
  \/ failed /\ attempt' = 1
  \/ ~cancelled /\ attempt' = (attempt % MaxAttempts) + 1 /\ UNCHANGED <<pc, run>>

\* Mutant of Exchange: a wait is over before the attempts are counted.
ExchangeOnceMore(answered, failed) ==
  \/ ~cancelled /\ answered /\ attempt' = 1
  \/ failed /\ attempt' = 1
  \/ ~cancelled /\ attempt <= MaxAttempts /\ attempt' = attempt + 1 /\ UNCHANGED <<pc, run>>

\* Mutant of Exchange: requests are not bound to the context.
ExchangeRegardless(answered, failed) ==
  \/ answered /\ attempt' = 1
  \/ failed /\ attempt' = 1
  \/ attempt < MaxAttempts /\ attempt' = attempt + 1 /\ UNCHANGED <<pc, run>>

(* do: one request. It is answered, or fails (no connection, a status that   *)
(* is not OK, throttled once too often, cancelled), or is throttled and made *)
(* again after a wait.                                                       *)
Exchange(answered, failed) ==
  \/ ~cancelled /\ answered /\ attempt' = 1
  \/ failed /\ attempt' = 1
  \/ ~cancelled /\ attempt < MaxAttempts /\ attempt' = attempt + 1 /\ UNCHANGED <<pc, run>>

(* digestForURL: GitHub may have the digest of what it serves. One that does  *)
(* not answer has none; other hosts are not asked.                           *)
digestForURL(url, found, none) ==
  IF url \in Hosted THEN Exchange(IF url \in Digested THEN found ELSE none, none)
  ELSE none /\ UNCHANGED attempt

Begin(m) ==
  /\ pc = "off"
  /\ Valid(m)
  /\ NextRequest([Idle EXCEPT !.manifest = m, !.todo = m.jdk])
  /\ since' = host /\ cancelled' = FALSE
  /\ file' = IF file = "new" THEN "old" ELSE file
  /\ UNCHANGED <<host, attempt>>

Untouched == UNCHANGED <<host, since, file, cancelled>>

-----------------------------------------------------------------------------
(* resolveJDK: the first build of the first distribution that has one.      *)
Listed(request, arch, query) ==
  {i \in DOMAIN Builds :
    /\ Builds[i].major = request.major /\ Builds[i].arch = arch
    /\ Builds[i].status = query[1] /\ Builds[i].distribution = query[2]}

\* musl builds are listed too, and do not start on the images' libc.
Glibc(offers) == {i \in offers : Builds[i].libc = "glibc"}

TakePackages(offers) ==
  IF offers = {} THEN Goto("packages", [run EXCEPT !.queries = Tail(@)])
  ELSE Goto("detail", [run EXCEPT !.offers = offers])

\* Mutant of Packages: a distribution that cannot be listed is passed over.
PackagesPassedOver ==
  /\ pc = "packages"
  /\ IF run.queries = <<>> THEN ArchFails /\ UNCHANGED attempt
     ELSE Exchange(
       TakePackages(Glibc(Listed(Head(run.todo), Head(run.arches), Head(run.queries)))),
       TakePackages({}))
  /\ Untouched

Packages ==
  /\ pc = "packages"
  /\ IF run.queries = <<>> THEN ArchFails /\ UNCHANGED attempt
     ELSE Exchange(
       TakePackages(Glibc(Listed(Head(run.todo), Head(run.arches), Head(run.queries)))),
       ArchFails)
  /\ Untouched

\* Mutant of Evidence: foojay is believed whatever the status.
EvidenceOfAnything(build, seen) == IF build.checksum THEN seen ELSE Nil

\* What foojay says it saw is worth something for a release only.
Evidence(build, seen) == IF build.checksum /\ build.status # "ea" THEN seen ELSE Nil

\* foojay saw the archive when it last looked, which may be an edition ago.
Detail ==
  LET build == Offer(run) IN
  /\ pc = "detail"
  /\ Exchange(
       IF build.url = Nil THEN NextOffer(run)
       ELSE \E seen \in 1..Content(build.url) :
              Goto("digest", [run EXCEPT !.sum = Evidence(build, seen)]),
       ArchFails)
  /\ Untouched

EnterJDK(sum) ==
  NextArch([run EXCEPT !.lock.jdk = Append(@,
    [request |-> Head(run.todo), build |-> Offer(run), sum |-> sum])])

\* The host's word replaces foojay's.
Digest ==
  LET url == Offer(run).url IN
  /\ pc = "digest"
  /\ digestForURL(url, EnterJDK(Content(url)),
       IF run.sum = Nil THEN Goto("hash", run) ELSE EnterJDK(run.sum))
  /\ Untouched

(* hashRemote: there is nothing to check the bytes against, so that those of *)
(* a download that ends without an error are taken for what the host serves. *)
Hash ==
  /\ pc = "hash"
  /\ Exchange(EnterJDK(Content(Offer(run).url)), ArchFails)
  /\ Untouched

-----------------------------------------------------------------------------
(* resolveKotlin and resolveGroovy: any error ends the run.                  *)
Tool == Head(run.todo)
ToolUrl(t) == ToolImage(t)

EnterTool(r) ==
  NextTool([r EXCEPT !.todo = Tail(@), !.sum = Nil, !.jar = Nil, !.deps = <<>>,
    !.lock.tools = Append(@, [request |-> Head(r.todo), sum |-> r.sum, deps |-> r.deps])])

\* Only Kotlin has jars of its own for the classpath.
TakeSum(sum) ==
  IF Tool.language = "kotlin" /\ Tool.coroutines # Nil
  THEN Goto("jarSum", [run EXCEPT !.sum = sum, !.jar = <<"stdlib", Tool.version>>])
  ELSE EnterTool([run EXCEPT !.sum = sum])

ToolDigest ==
  /\ pc = "toolDigest"
  /\ digestForURL(ToolUrl(Tool), TakeSum(Content(ToolUrl(Tool))), Goto("sidecar", run))
  /\ Untouched

Sidecar ==
  /\ pc = "sidecar"
  /\ Exchange(IF ToolUrl(Tool) \in Sidecars THEN TakeSum(Content(ToolUrl(Tool)))
              ELSE Goto("toolHash", run),
              Stop)
  /\ Untouched

ToolHash ==
  /\ pc = "toolHash"
  /\ Exchange(TakeSum(Content(ToolUrl(Tool))), Stop)
  /\ Untouched

(* resolveMavenJar, for the stdlib and then for the coroutines, which were   *)
(* not published under their -jvm name from the start: a jar without a       *)
(* checksum next to it counts as one that does not exist.                    *)
JvmJar(t) == <<"coroutines-jvm", t.coroutines>>
PlainJar(t) == <<"coroutines", t.coroutines>>

JarSum ==
  /\ pc = "jarSum"
  /\ Exchange(IF run.jar \notin Absent THEN Goto("jarHash", run)
              ELSE IF run.jar = JvmJar(Tool)
              THEN Goto("jarSum", [run EXCEPT !.jar = PlainJar(Tool)])
              ELSE Stop,
              Stop)
  /\ Untouched

KeepJar(sum) ==
  LET name == IF run.deps = <<>> THEN "kotlin-stdlib.jar" ELSE "kotlinx-coroutines-core-jvm.jar"
      r == [run EXCEPT !.deps = Append(@, [name |-> name, url |-> run.jar, sum |-> sum])]
  IN  IF run.deps = <<>> THEN Goto("jarSum", [r EXCEPT !.jar = JvmJar(Tool)])
      ELSE EnterTool(r)

\* What comes down is checked against what was published next to it.
JarHash ==
  /\ pc = "jarHash"
  /\ Exchange(\E came \in {0, Content(run.jar)} :
                IF came = Content(run.jar) THEN KeepJar(came) ELSE Stop,
              Stop)
  /\ Untouched

-----------------------------------------------------------------------------
(* Save: WriteFile empties the file and then fills it.                      *)
Open ==
  /\ pc = "save"
  /\ \/ file' = "cut" /\ Goto("write", run)
     \/ Stop /\ UNCHANGED file
  /\ UNCHANGED <<world, attempt, cancelled>>

Write ==
  /\ pc = "write"
  /\ file' \in {"new", "cut"}
  /\ Stop
  /\ UNCHANGED <<world, attempt, cancelled>>

(* Nothing looks at the context any more once the file is written.          *)
Interrupt ==
  /\ pc \notin {"off", "save", "write"} /\ ~cancelled
  /\ cancelled' = TRUE
  /\ UNCHANGED <<world, file, pc, run, attempt>>

\* The process is killed.
Crash ==
  /\ pc # "off"
  /\ Stop /\ attempt' = 1
  /\ Untouched

Republish(url) ==
  /\ host[url] < MaxEdition
  /\ host' = [host EXCEPT ![url] = @ + 1]
  /\ UNCHANGED <<since, file, pc, run, attempt, cancelled>>

Step ==
  \/ Packages \/ Detail \/ Digest \/ Hash
  \/ ToolDigest \/ Sidecar \/ ToolHash \/ JarSum \/ JarHash
  \/ Open \/ Write

Next ==
  \/ Step \/ Interrupt \/ Crash
  \/ \E m \in Manifests : Begin(m)
  \/ \E url \in Moving : Republish(url)

(* Every request ends: the client has a timeout, and a wait has a limit.     *)
Spec == Init /\ [][Next]_vars /\ WF_vars(Step)

-----------------------------------------------------------------------------
Saving == pc \in {"save", "write"}

Usable(b, request, arch) ==
  /\ b.major = request.major /\ b.arch = arch
  /\ b.status = "ea" => request.ea
  /\ b.libc = "glibc" /\ b.url # Nil

(* Types, and how often a request has been made.                            *)
ResolverTypeOK ==
  /\ host \in [Moving -> 1..MaxEdition] /\ since \in [Moving -> 1..MaxEdition]
  /\ file \in {"old", "cut", "new"}
  /\ pc \in {"off", "packages", "detail", "digest", "hash", "toolDigest", "sidecar",
              "toolHash", "jarSum", "jarHash", "save", "write"}
  /\ attempt \in 1..MaxAttempts
  /\ cancelled \in BOOLEAN
  /\ pc \in {"packages", "detail", "digest", "hash"} => run.todo # <<>> /\ run.arches # <<>>
  /\ pc \in {"detail", "digest", "hash"} => run.offers # {}

(* A checksum that goes into the lock was, at some time of this very run, the *)
(* one of the bytes at its URL, however foojay lags, servers fail and vendors *)
(* republish (resolve.go:144-156): no image build can fail on a stale one.    *)
Served(url) == IF url \in Moving THEN since[url]..host[url] ELSE {1}

PinnedWasServed ==
  /\ \A e \in ToSet(run.lock.jdk) : e.sum \in Served(e.build.url)
  /\ \A e \in ToSet(run.lock.tools) :
       /\ e.sum \in Served(ToolUrl(e.request))
       /\ \A d \in ToSet(e.deps) : d.sum \in Served(d.url)

(* No error makes a second choice pass for the first (resolve.go:111-113 and *)
(* 299-301): a locked build is the manifest's favourite among all that are   *)
(* usable, and the old name of the coroutines is only used where the new one *)
(* has no checksum, by which fetchSHA1 tells what exists.                    *)
Earlier(m, b, c) ==
  \/ b.status = "ga" /\ c.status = "ea"
  \/ /\ b.status = c.status
     /\ \E i \in DOMAIN m.distributions :
          /\ m.distributions[i] = b.distribution
          /\ \A j \in 1..i : m.distributions[j] # c.distribution

PreferredIsLocked ==
  /\ \A e \in ToSet(run.lock.jdk) :
       /\ Usable(e.build, e.request, e.build.arch)
       /\ \A b \in ToSet(Builds) :
            /\ Usable(b, e.request, e.build.arch)
            /\ b.distribution \in ToSet(run.manifest.distributions)
            => ~Earlier(run.manifest, b, e.build)
  /\ \A e \in ToSet(run.lock.tools) : \A d \in ToSet(e.deps) :
       d.url = PlainJar(e.request) => JvmJar(e.request) \in Absent

(* What is saved is what the lock's readers need, though errors along the way *)
(* are taken in three different manners: every version and tool of the       *)
(* manifest is in it, the plan has the base of each image before the image,  *)
(* a deploy finds one content for each path of a jar, and the bot's catalog  *)
(* has every release under an ID of its own, with levels to choose from.     *)
EverythingIsThere(lock, m) ==
  /\ \A request \in ToSet(m.jdk) : \E e \in ToSet(lock.jdk) : e.request = request
  /\ [i \in DOMAIN lock.tools |-> lock.tools[i].request] = Tools(m)
  /\ \A e \in ToSet(lock.tools) : e.request.language = "kotlin" => Len(e.deps) = 2

BasesComeFirst(plan) ==
  \A i \in DOMAIN plan : plan[i].base # <<>> => \E j \in 1..(i - 1) : plan[j].image = plan[i].base

\* The path of a jar on a host is made of the tool's version and its name.
JarsNamedOnce(lock) ==
  \A i, j \in DOMAIN lock.tools :
    \A d \in ToSet(lock.tools[i].deps), e \in ToSet(lock.tools[j].deps) :
      lock.tools[i].request.version = lock.tools[j].request.version /\ d.name = e.name
      => d.url = e.url /\ d.sum = e.sum

SavedServesItsReaders ==
  Saving =>
    /\ EverythingIsThere(run.lock, run.manifest)
    /\ BasesComeFirst(Plan(run.lock, EveryPlatform))
    /\ JarsNamedOnce(run.lock)
    /\ CatalogServes(run.lock, run.manifest)

(* "Interrupting has to actually stop it" (main.go:98-99): although errors of *)
(* the JDK section and of digests are passed over, an interrupted run never  *)
(* gets to the file.                                                         *)
InterruptStops == [][cancelled => file' = file]_vars

(* However often servers throttle, and whatever else they do, a run ends.    *)
ResolveEnds == (pc # "off") ~> (pc = "off")
=============================================================================

--------------------------- MODULE ResolverProofs ---------------------------
(* Proofs about Resolver, for any manifests, builds and archives, and however *)
(* servers fail, throttle and lag.                                           *)
EXTENDS Resolver, TLAPS, FiniteSetTheorems, WellFoundedInduction

OnJDKs == {"packages", "detail", "digest", "hash"}
OnTools == {"toolDigest", "sidecar", "toolHash", "jarSum", "jarHash"}
Labels == {"off", "save", "write"} \union OnJDKs \union OnTools

Query == {"ga", "ea"} \X STRING
AnyTool == ToolRequest({"kotlin", "groovy"})
Jars == {"stdlib", "coroutines-jvm", "coroutines"} \X ({Nil} \union STRING)
JarNames == {"kotlin-stdlib.jar", "kotlinx-coroutines-core-jvm.jar"}
Dependency == [name : JarNames, url : Jars, sum : Nat]

Locks ==
  [jdk : Seq([request : JDKRequest, build : ToSet(Builds), sum : Nat]),
   tools : Seq([request : AnyTool, sum : Nat, deps : Seq(Dependency)])]

Runs ==
  [manifest : {Nil} \union Manifests, todo : Seq(JDKRequest) \union Seq(AnyTool),
   arches : Seq(STRING), queries : Seq(Query), offers : SUBSET DOMAIN Builds,
   sum : {Nil} \union Nat, jar : {Nil} \union Jars, deps : Seq(Dependency), lock : Locks]

-----------------------------------------------------------------------------
(* The inductive invariant. What was served is passed as the editions at the *)
(* beginning of the run, s, and now, h: it only grows.                       *)
ServedBy(url, s, h) == IF url \in Moving THEN s[url]..h[url] ELSE {1}

WorldFits ==
  /\ host \in [Moving -> 1..MaxEdition] /\ since \in [Moving -> 1..MaxEdition]
  /\ \A url \in Moving : since[url] <= host[url]

IsRest(s, all) ==
  /\ Len(s) <= Len(all)
  /\ \A i \in 1..Len(s) : s[i] = all[Len(all) - Len(s) + i]

(* Versions and tools are worked through in the manifest's order: those that *)
(* are behind are in the lock.                                              *)
JDKsIn(lock, m, n) ==
  \A i \in 1..n : \E e \in ToSet(lock.jdk) : e.request = m.jdk[i]

ToolsIn(lock, m, todo) ==
  /\ Len(lock.tools) + Len(todo) = Len(Tools(m))
  /\ \A i \in 1..Len(lock.tools) : lock.tools[i].request = Tools(m)[i]
  /\ \A i \in 1..Len(todo) : todo[i] = Tools(m)[Len(lock.tools) + i]

(* Queries that were passed, and offers that were, had no build to download. *)
Hopeless(request, arch, query) ==
  \A i \in Glibc(Listed(request, arch, query)) : Builds[i].url = Nil

QueriesFit(r) ==
  LET all == Queries(r.manifest, Head(r.todo)) IN
  /\ IsRest(r.queries, all)
  /\ \A i \in 1..(Len(all) - Len(r.queries)) : Hopeless(Head(r.todo), Head(r.arches), all[i])

OffersFit(r) ==
  LET listed == Glibc(Listed(Head(r.todo), Head(r.arches), Head(r.queries))) IN
  /\ r.queries # <<>> /\ r.offers # {} /\ r.offers \subseteq listed
  /\ \A i \in listed \ r.offers : Builds[i].url = Nil

JDKsFit(r) ==
  /\ r.todo \in Seq(JDKRequest) /\ IsRest(r.todo, r.manifest.jdk)
  /\ JDKsIn(r.lock, r.manifest, Len(r.manifest.jdk) - Len(r.todo))
  /\ r.lock.tools = <<>> /\ r.deps = <<>>

ToolsFit(r) ==
  /\ r.todo \in Seq(AnyTool)
  /\ JDKsIn(r.lock, r.manifest, Len(r.manifest.jdk))
  /\ ToolsIn(r.lock, r.manifest, r.todo)

(* A Kotlin's jars: its library, and the coroutines under the name they have. *)
StdlibJar(t) == <<"stdlib", t.version>>
IsCoroutines(url, t) ==
  \/ url = JvmJar(t)
  \/ url = PlainJar(t) /\ JvmJar(t) \in Absent

DepsFit(deps, t, s, h) ==
  /\ \A i \in DOMAIN deps : deps[i].sum \in ServedBy(deps[i].url, s, h)
  /\ Len(deps) \in 0..2
  /\ Len(deps) >= 1 => deps[1].name = "kotlin-stdlib.jar" /\ deps[1].url = StdlibJar(t)
  /\ Len(deps) = 2 => /\ deps[2].name = "kotlinx-coroutines-core-jvm.jar"
                      /\ IsCoroutines(deps[2].url, t)

JarFits(r, s, h) ==
  LET t == Head(r.todo) IN
  /\ t.language = "kotlin" /\ r.sum \in Nat /\ r.sum \in ServedBy(ToolUrl(t), s, h)
  /\ DepsFit(r.deps, t, s, h)
  /\ \/ r.deps = <<>> /\ r.jar = StdlibJar(t)
     \/ Len(r.deps) = 1 /\ IsCoroutines(r.jar, t)

(* What is in the lock.                                                     *)
Preferred(e, m) ==
  /\ Usable(e.build, e.request, e.build.arch)
  /\ \A b \in ToSet(Builds) :
       /\ Usable(b, e.request, e.build.arch)
       /\ b.distribution \in ToSet(m.distributions)
       => ~Earlier(m, b, e.build)

ToolFits(e, s, h) ==
  /\ e.sum \in ServedBy(ToolUrl(e.request), s, h)
  /\ DepsFit(e.deps, e.request, s, h)
  /\ Len(e.deps) = IF e.request.language = "kotlin" THEN 2 ELSE 0

LockFits(lock, m, s, h) ==
  /\ \A e \in ToSet(lock.jdk) : /\ e.request \in ToSet(m.jdk)
                                 /\ Preferred(e, m) /\ e.sum \in ServedBy(e.build.url, s, h)
  /\ \A e \in ToSet(lock.tools) : ToolFits(e, s, h)

RunFits(label, r, s, h) ==
  /\ label \in Labels /\ r \in Runs
  /\ label # "off" => r.manifest \in Manifests /\ Valid(r.manifest)
  /\ LockFits(r.lock, r.manifest, s, h)
  /\ label \in OnJDKs => JDKsFit(r) /\ r.todo # <<>> /\ r.arches # <<>> /\ QueriesFit(r)
  /\ label \in {"detail", "digest", "hash"} => OffersFit(r)
  /\ label \in {"digest", "hash"} => Offer(r).url # Nil
  /\ label = "digest" /\ r.sum # Nil => r.sum \in ServedBy(Offer(r).url, s, h)
  /\ label \in OnTools => ToolsFit(r) /\ r.todo # <<>>
  /\ label \in {"toolDigest", "sidecar", "toolHash"} => r.deps = <<>>
  /\ label \in {"jarSum", "jarHash"} => JarFits(r, s, h)
  /\ label \in {"save", "write"} => ToolsFit(r) /\ r.todo = <<>>

ResolverInv ==
  /\ WorldFits
  /\ file \in {"old", "cut", "new"} /\ attempt \in 1..MaxAttempts /\ cancelled \in BOOLEAN
  /\ RunFits(pc, run, since, host)

-----------------------------------------------------------------------------
(* The manifest.                                                             *)
LEMMA LeastIsIn ==
  ASSUME NEW T \in SUBSET Nat, T # {}
  PROVE  Min(T) \in T
<1>1. PICK x \in T : \A y \in T : <<y, x>> \notin OpToRel(<, Nat)
  BY NatLessThanWellFounded, WFMin, Zenon
<1>2. \A y \in T : ~(y < x)
  BY <1>1 DEF OpToRel
<1>3. \A y \in T : x <= y
  BY <1>2
<1> QED
  BY <1>3 DEF Min

LEMMA ManifestsAreTyped ==
  ASSUME NEW m \in Manifests
  PROVE  /\ m \in AnyManifest
         /\ m.arches \in Seq(STRING) /\ m.distributions \in Seq(STRING)
         /\ m.jdk \in Seq(JDKRequest)
         /\ m.kotlin \in Seq(ToolRequest({"kotlin"})) /\ m.groovy \in Seq(ToolRequest({"groovy"}))
<1>1. m \in AnyManifest
  BY ResolverAssumption DEF ResolverAssumption
<1> QED
  BY <1>1 DEF AnyManifest

LEMMA ConcatParts ==
  ASSUME NEW S, NEW s \in Seq(S), NEW t \in Seq(S)
  PROVE  /\ s \o t \in Seq(S)
         /\ Len(s \o t) = Len(s) + Len(t)
         /\ \A i \in 1..Len(s) : (s \o t)[i] = s[i]
         /\ \A i \in 1..Len(t) : (s \o t)[Len(s) + i] = t[i]
OBVIOUS

LEMMA ToolsAreTyped ==
  ASSUME NEW m \in Manifests
  PROVE  /\ Tools(m) \in Seq(AnyTool)
         /\ Len(Tools(m)) = Len(m.kotlin) + Len(m.groovy)
         /\ \A i \in 1..Len(m.kotlin) : Tools(m)[i] = m.kotlin[i]
         /\ \A i \in 1..Len(m.groovy) : Tools(m)[Len(m.kotlin) + i] = m.groovy[i]
<1> DEFINE s == m.kotlin
           t == m.groovy
<1>1. ToolRequest({"kotlin"}) \subseteq AnyTool /\ ToolRequest({"groovy"}) \subseteq AnyTool
  BY DEF AnyTool, ToolRequest
<1>2. s \in Seq(AnyTool) /\ t \in Seq(AnyTool) /\ Tools(m) = s \o t
  BY <1>1, ManifestsAreTyped DEF Tools
<1> HIDE DEF s, t
<1>3. /\ s \o t \in Seq(AnyTool)
      /\ Len(s \o t) = Len(s) + Len(t)
      /\ \A i \in 1..Len(s) : (s \o t)[i] = s[i]
      /\ \A i \in 1..Len(t) : (s \o t)[Len(s) + i] = t[i]
  BY <1>2, ConcatParts
<1> QED
  BY <1>2, <1>3 DEF s, t

LEMMA ToolsAreSound ==
  ASSUME NEW m \in Manifests, Valid(m), NEW i \in 1..Len(Tools(m))
  PROVE  LET t == Tools(m)[i] IN
         /\ t \in AnyTool
         /\ t.language \in {"kotlin", "groovy"}
         /\ t.language = "kotlin" <=> i <= Len(m.kotlin)
         /\ t.language = "kotlin" => t.coroutines # Nil
         /\ \E k \in 1..Len(m.jdk) : m.jdk[k].major = t.jdk
<1> DEFINE all == Tools(m)
           kotlin == m.kotlin
           groovy == m.groovy
           jdk == m.jdk
           t == all[i]
<1>1. all \in Seq(AnyTool) /\ Len(all) = Len(kotlin) + Len(groovy)
  BY ToolsAreTyped
<1>2. /\ \A k \in 1..Len(kotlin) : all[k] = kotlin[k]
      /\ \A k \in 1..Len(groovy) : all[Len(kotlin) + k] = groovy[k]
  BY ToolsAreTyped
<1>3. /\ kotlin \in Seq(ToolRequest({"kotlin"})) /\ groovy \in Seq(ToolRequest({"groovy"}))
      /\ jdk \in Seq(JDKRequest)
  BY ManifestsAreTyped
<1>4. /\ \A r \in ToSet(all) : \E q \in ToSet(jdk) : q.major = r.jdk
      /\ \A r \in ToSet(kotlin) : r.coroutines # Nil
  BY DEF Valid
<1>5. i \in 1..Len(all)
  OBVIOUS
<1> HIDE DEF all, kotlin, groovy, jdk
<1>6. t \in AnyTool /\ t \in ToSet(all)
  BY <1>1, <1>5 DEF ToSet
<1>7. t.language \in {"kotlin", "groovy"}
  BY <1>6 DEF AnyTool, ToolRequest
<1>8. ASSUME i <= Len(kotlin)
      PROVE  t.language = "kotlin" /\ t.coroutines # Nil
  <2>1. t = kotlin[i] /\ i \in 1..Len(kotlin)
    BY <1>8, <1>2, <1>3, <1>5
  <2>2. t \in ToolRequest({"kotlin"}) /\ t \in ToSet(kotlin)
    BY <2>1, <1>3 DEF ToSet
  <2>3. t.language = "kotlin"
    BY <2>2 DEF ToolRequest
  <2> HIDE DEF t
  <2> QED
    BY <2>2, <2>3, <1>8, <1>4
<1>9. ASSUME ~(i <= Len(kotlin))
      PROVE  t.language = "groovy"
  <2> DEFINE k == i - Len(kotlin)
  <2>1. k \in 1..Len(groovy) /\ i = Len(kotlin) + k
    BY <1>9, <1>1, <1>3, <1>5
  <2> HIDE DEF k
  <2>2. t = groovy[k]
    BY <2>1, <1>2
  <2>3. t \in ToolRequest({"groovy"})
    BY <2>1, <2>2, <1>3
  <2>4. t.language = "groovy"
    BY <2>3 DEF ToolRequest
  <2> QED
    BY <2>4, <1>9
<1>10. PICK q \in ToSet(jdk) : q.major = t.jdk
  BY <1>4, <1>6
<1>11. \E k \in 1..Len(jdk) : jdk[k].major = t.jdk
  BY <1>10, <1>3 DEF ToSet
<1> QED
  BY <1>6, <1>7, <1>8, <1>9, <1>11 DEF all, kotlin, jdk

LEMMA QueriesAre ==
  ASSUME NEW m \in Manifests, NEW request \in JDKRequest
  PROVE  LET n == Len(m.distributions)
             all == Queries(m, request)
         IN  /\ all \in Seq(Query) /\ n \in Nat
             /\ Len(all) = IF request.ea THEN n + n ELSE n
             /\ \A i \in 1..n : all[i] = <<"ga", m.distributions[i]>>
             /\ request.ea => \A i \in 1..n : all[n + i] = <<"ea", m.distributions[i]>>
<1> DEFINE n == Len(m.distributions)
           ga == [d \in DOMAIN m.distributions |-> <<"ga", m.distributions[d]>>]
           ea == [d \in DOMAIN m.distributions |-> <<"ea", m.distributions[d]>>]
<1>1. m.distributions \in Seq(STRING) /\ n \in Nat /\ DOMAIN m.distributions = 1..n
  BY ManifestsAreTyped
<1>2. ga \in Seq(Query) /\ ea \in Seq(Query) /\ Len(ga) = n /\ Len(ea) = n
  BY <1>1 DEF Query
<1>3. Queries(m, request) = ga \o (IF request.ea THEN ea ELSE <<>>)
  BY DEF Queries
<1>4. /\ \A i \in 1..n : ga[i] = <<"ga", m.distributions[i]>>
      /\ \A i \in 1..n : ea[i] = <<"ea", m.distributions[i]>>
  BY <1>1
<1> HIDE DEF ga, ea, n
<1>5. ga \in Seq(Query) /\ ea \in Seq(Query)
  BY <1>2
<1>6. /\ ga \o ea \in Seq(Query)
      /\ Len(ga \o ea) = Len(ga) + Len(ea)
      /\ \A i \in 1..Len(ga) : (ga \o ea)[i] = ga[i]
      /\ \A i \in 1..Len(ea) : (ga \o ea)[Len(ga) + i] = ea[i]
  BY <1>5, ConcatParts
<1> DEFINE all == Queries(m, request)
           Good == /\ all \in Seq(Query) /\ n \in Nat
                   /\ Len(all) = IF request.ea THEN n + n ELSE n
                   /\ \A i \in 1..n : all[i] = <<"ga", m.distributions[i]>>
                   /\ request.ea => \A i \in 1..n : all[n + i] = <<"ea", m.distributions[i]>>
<1>7. ASSUME request.ea PROVE Good
  <2>1. all = ga \o ea
    BY <1>3, <1>7
  <2> HIDE DEF all
  <2>2. all \in Seq(Query) /\ Len(all) = n + n
    BY <1>2, <1>6, <2>1
  <2>3. \A i \in 1..n : all[i] = ga[i] /\ all[n + i] = ea[i]
    BY <1>2, <1>6, <2>1
  <2> QED
    BY <1>1, <1>4, <1>7, <2>2, <2>3
<1>8. ASSUME ~request.ea PROVE Good
  <2>1. all = ga
    BY <1>2, <1>3, <1>8
  <2> HIDE DEF all
  <2> QED
    BY <1>1, <1>2, <1>4, <1>8, <2>1
<1> QED
  BY <1>7, <1>8 DEF n

-----------------------------------------------------------------------------
(* What was served, and lists that are worked off from the front.            *)
LEMMA ContentIsServed ==
  ASSUME WorldFits, NEW url
  PROVE  /\ Content(url) \in ServedBy(url, since, host)
         /\ Content(url) \in Nat /\ Content(url) >= 1
         /\ url \notin Moving => Content(url) = 1
BY ResolverAssumption DEF WorldFits, ResolverAssumption, Content, ServedBy

LEMMA AppendAdds ==
  ASSUME NEW S, NEW s \in Seq(S), NEW e \in S
  PROVE  /\ Append(s, e) \in Seq(S) /\ Len(Append(s, e)) = Len(s) + 1
         /\ \A i \in 1..Len(s) : Append(s, e)[i] = s[i]
         /\ Append(s, e)[Len(s) + 1] = e
         /\ ToSet(Append(s, e)) = ToSet(s) \union {e}
<1>1. Len(s) \in Nat /\ DOMAIN s = 1..Len(s) /\ DOMAIN Append(s, e) = 1..(Len(s) + 1)
  OBVIOUS
<1>2. /\ Append(s, e) \in Seq(S) /\ Len(Append(s, e)) = Len(s) + 1
      /\ \A i \in 1..Len(s) : Append(s, e)[i] = s[i]
      /\ Append(s, e)[Len(s) + 1] = e
  OBVIOUS
<1>3. \A x : x \in ToSet(Append(s, e)) <=> x \in ToSet(s) \/ x = e
  <2> DEFINE l == Len(s)
             t == Append(s, e)
  <2>1. /\ l \in Nat /\ DOMAIN s = 1..l /\ DOMAIN t = 1..(l + 1)
        /\ \A i \in 1..l : t[i] = s[i]
        /\ t[l + 1] = e
    BY <1>1, <1>2
  <2> HIDE DEF l, t
  <2> QED
    BY <2>1 DEF ToSet, t
<1> QED
  BY <1>2, <1>3

LEMMA TailIsShorter ==
  ASSUME NEW S, NEW s \in Seq(S), s # <<>>
  PROVE  /\ Tail(s) \in Seq(S) /\ Len(Tail(s)) = Len(s) - 1
         /\ Head(s) \in S /\ Len(s) \in Nat \ {0}
OBVIOUS

LEMMA RestGoesOn ==
  ASSUME NEW S, NEW s \in Seq(S), NEW all \in Seq(S), IsRest(s, all), s # <<>>
  PROVE  /\ Tail(s) \in Seq(S) /\ IsRest(Tail(s), all)
         /\ Head(s) \in S /\ Head(s) = all[Len(all) - Len(s) + 1]
         /\ Len(Tail(s)) = Len(s) - 1 /\ Len(s) \in 1..Len(all)
<1>1. Len(s) \in Nat \ {0} /\ Len(all) \in Nat
  OBVIOUS
<1>2. Tail(s) \in Seq(S) /\ Len(Tail(s)) = Len(s) - 1 /\ Head(s) = s[1] /\ Head(s) \in S
  BY <1>1
<1>3. \A i \in 1..Len(Tail(s)) : Tail(s)[i] = s[i + 1]
  BY <1>1, <1>2
<1> QED
  BY <1>1, <1>2, <1>3 DEF IsRest

LEMMA RunsAreTyped ==
  ASSUME NEW r \in Runs
  PROVE  /\ r.manifest \in {Nil} \union Manifests
         /\ r.todo \in Seq(JDKRequest) \union Seq(AnyTool)
         /\ r.arches \in Seq(STRING) /\ r.queries \in Seq(Query)
         /\ r.offers \in SUBSET DOMAIN Builds /\ r.sum \in {Nil} \union Nat
         /\ r.jar \in {Nil} \union Jars /\ r.deps \in Seq(Dependency)
         /\ r.lock \in Locks
BY DEF Runs

-----------------------------------------------------------------------------
(* The loops.                                                                *)
LEMMA StopFits ==
  ASSUME NEW s, NEW h, Stop
  PROVE  RunFits(pc', run', s, h)
<1>1. EmptyLock \in Locks /\ ToSet(EmptyLock.jdk) = {} /\ ToSet(EmptyLock.tools) = {}
  BY DEF EmptyLock, Locks, ToSet
<1>2. Idle \in Runs /\ Idle.lock = EmptyLock
  BY <1>1 DEF Idle, Runs
<1>3. pc' = "off" /\ run' = Idle
  BY DEF Stop, Goto
<1> QED
  BY <1>1, <1>2, <1>3 DEF RunFits, LockFits, Labels, OnJDKs, OnTools

LEMMA NextToolFits ==
  ASSUME NEW s, NEW h, NEW r \in Runs, r.manifest \in Manifests, Valid(r.manifest),
         LockFits(r.lock, r.manifest, s, h), ToolsFit(r), r.deps = <<>>, NextTool(r)
  PROVE  RunFits(pc', run', s, h)
<1>1. CASE r.todo = <<>>
  <2>1. pc' = "save" /\ run' = r
    BY <1>1 DEF NextTool, Goto
  <2> QED
    BY <1>1, <2>1 DEF RunFits, Labels, OnJDKs, OnTools
<1>2. CASE r.todo # <<>>
  <2>1. pc' \in {"toolDigest", "sidecar"} /\ run' = r
    BY <1>2 DEF NextTool, Goto
  <2> QED
    BY <1>2, <2>1 DEF RunFits, Labels, OnJDKs, OnTools
<1> QED
  BY <1>1, <1>2

LEMMA NextRequestFits ==
  ASSUME NEW s, NEW h, NEW r \in Runs, r.manifest \in Manifests, Valid(r.manifest),
         LockFits(r.lock, r.manifest, s, h), JDKsFit(r), NextRequest(r)
  PROVE  RunFits(pc', run', s, h)
<1> DEFINE m == r.manifest
<1>1. CASE r.todo = <<>>
  <2> DEFINE r2 == [r EXCEPT !.todo = Tools(m)]
  <2>1. NextTool(r2)
    BY <1>1 DEF NextRequest
  <2>2. /\ r2 \in Runs /\ r2.manifest = m /\ r2.lock = r.lock /\ r2.deps = r.deps
        /\ r2.todo = Tools(m) /\ Tools(m) \in Seq(AnyTool)
    BY ToolsAreTyped DEF Runs
  <2>3. Len(r.todo) = 0 /\ Len(m.jdk) \in Nat
    BY <1>1, ManifestsAreTyped
  <2>4. JDKsIn(r.lock, m, Len(m.jdk)) /\ r.lock.tools = <<>> /\ r.deps = <<>>
    BY <2>3 DEF JDKsFit
  <2>5. ToolsIn(r.lock, m, Tools(m))
    BY <2>2, <2>4 DEF ToolsIn
  <2> HIDE DEF r2
  <2>6. ToolsFit(r2)
    BY <2>2, <2>4, <2>5 DEF ToolsFit
  <2> QED
    BY <2>1, <2>2, <2>4, <2>6, NextToolFits
<1>2. CASE r.todo # <<>>
  <2> DEFINE all == Queries(m, Head(r.todo))
             r2 == [r EXCEPT !.arches = m.arches, !.queries = all]
  <2>1. pc' = "packages" /\ run' = r2
    BY <1>2 DEF NextRequest, Goto
  <2>2. Head(r.todo) \in JDKRequest
    BY <1>2 DEF JDKsFit
  <2>3. all \in Seq(Query) /\ m.arches \in Seq(STRING) /\ m.arches # <<>>
    BY <2>2, QueriesAre, ManifestsAreTyped DEF Valid
  <2>4. IsRest(all, all) /\ Len(all) - Len(all) = 0
    BY <2>3 DEF IsRest
  <2>5. /\ r2 \in Runs /\ r2.manifest = m /\ r2.lock = r.lock /\ r2.deps = r.deps
        /\ r2.todo = r.todo /\ r2.arches = m.arches /\ r2.queries = all
    BY <2>3 DEF Runs
  <2>6. QueriesFit(r2)
    BY <2>4, <2>5 DEF QueriesFit
  <2>7. JDKsFit(r2)
    BY <2>5 DEF JDKsFit
  <2> HIDE DEF r2
  <2> QED
    BY <1>2, <2>1, <2>3, <2>5, <2>6, <2>7 DEF RunFits, Labels, OnJDKs, OnTools
<1> QED
  BY <1>1, <1>2

LEMMA NextArchFits ==
  ASSUME NEW s, NEW h, NEW r \in Runs, r.manifest \in Manifests, Valid(r.manifest),
         LockFits(r.lock, r.manifest, s, h), JDKsFit(r), r.todo # <<>>, r.arches # <<>>,
         NextArch(r)
  PROVE  RunFits(pc', run', s, h)
<1> DEFINE m == r.manifest
           request == Head(r.todo)
           all == Queries(m, request)
<1>1. r.todo \in Seq(JDKRequest) /\ m.jdk \in Seq(JDKRequest) /\ IsRest(r.todo, m.jdk)
  BY ManifestsAreTyped DEF JDKsFit
<1>2. /\ Tail(r.todo) \in Seq(JDKRequest) /\ IsRest(Tail(r.todo), m.jdk)
      /\ request \in JDKRequest /\ request = m.jdk[Len(m.jdk) - Len(r.todo) + 1]
      /\ Len(Tail(r.todo)) = Len(r.todo) - 1 /\ Len(r.todo) \in 1..Len(m.jdk)
      /\ Len(m.jdk) \in Nat
  <2> DEFINE todo == r.todo
             jdk == m.jdk
  <2>1. todo \in Seq(JDKRequest) /\ jdk \in Seq(JDKRequest) /\ IsRest(todo, jdk) /\ todo # <<>>
    BY <1>1
  <2> HIDE DEF todo, jdk
  <2>2. /\ Tail(todo) \in Seq(JDKRequest) /\ IsRest(Tail(todo), jdk)
        /\ Head(todo) \in JDKRequest /\ Head(todo) = jdk[Len(jdk) - Len(todo) + 1]
        /\ Len(Tail(todo)) = Len(todo) - 1 /\ Len(todo) \in 1..Len(jdk)
    BY <2>1, RestGoesOn
  <2>3. Len(jdk) \in Nat
    BY <2>1
  <2> QED
    BY <2>2, <2>3 DEF todo, jdk
<1>3. CASE Len(r.arches) > 1
  <2> DEFINE r2 == [r EXCEPT !.arches = Tail(@), !.offers = {}, !.sum = Nil, !.queries = all]
  <2>1. pc' = "packages" /\ run' = r2
    BY <1>3 DEF NextArch, Goto
  <2>2. Tail(r.arches) \in Seq(STRING) /\ Tail(r.arches) # <<>>
    <3> DEFINE arches == r.arches
    <3>1. arches \in Seq(STRING) /\ Len(arches) > 1
      BY <1>3, RunsAreTyped
    <3> HIDE DEF arches
    <3>2. arches # <<>> /\ Len(arches) \in Nat
      BY <3>1
    <3>3. Tail(arches) \in Seq(STRING) /\ Len(Tail(arches)) = Len(arches) - 1
      BY <3>1, <3>2, TailIsShorter
    <3>4. Len(Tail(arches)) > 0
      BY <3>1, <3>3, <3>2
    <3>5. Tail(arches) # <<>>
      BY <3>4
    <3> QED
      BY <3>3, <3>5 DEF arches
  <2>3. all \in Seq(Query)
    BY <1>2, QueriesAre
  <2>4. IsRest(all, all) /\ Len(all) - Len(all) = 0
    BY <2>3 DEF IsRest
  <2>5. /\ r2 \in Runs /\ r2.manifest = m /\ r2.lock = r.lock /\ r2.deps = r.deps
        /\ r2.todo = r.todo /\ r2.arches = Tail(r.arches) /\ r2.queries = all
    BY <2>2, <2>3 DEF Runs
  <2>6. QueriesFit(r2)
    BY <2>4, <2>5 DEF QueriesFit
  <2>7. JDKsFit(r2)
    BY <2>5 DEF JDKsFit
  <2> HIDE DEF r2
  <2> QED
    BY <2>1, <2>2, <2>5, <2>6, <2>7 DEF RunFits, Labels, OnJDKs, OnTools
<1>4. CASE ~(Len(r.arches) > 1) /\ \E e \in ToSet(r.lock.jdk) : e.request = request
  <2> DEFINE r2 == [r EXCEPT !.todo = Tail(@), !.offers = {}, !.sum = Nil]
  <2>1. NextRequest(r2)
    BY <1>4 DEF NextArch
  <2>2. /\ r2 \in Runs /\ r2.manifest = m /\ r2.lock = r.lock /\ r2.deps = r.deps
        /\ r2.todo = Tail(r.todo)
    BY <1>2 DEF Runs
  <2>3. JDKsIn(r.lock, m, Len(m.jdk) - Len(Tail(r.todo)))
    <3>1. JDKsIn(r.lock, m, Len(m.jdk) - Len(r.todo))
      BY DEF JDKsFit
    <3> DEFINE k == Len(m.jdk) - Len(r.todo)
    <3>2. k \in Nat /\ Len(m.jdk) - Len(Tail(r.todo)) = k + 1
      <4> DEFINE n == Len(m.jdk)
                 l == Len(r.todo)
                 rest == Len(Tail(r.todo))
      <4>1. n \in Nat /\ l \in 1..n /\ rest = l - 1
        BY <1>2
      <4> HIDE DEF n, l, rest
      <4>2. n - l \in Nat /\ n - rest = n - l + 1
        BY <4>1
      <4> QED
        BY <4>2 DEF n, l, rest
    <3>3. request = m.jdk[k + 1] /\ JDKsIn(r.lock, m, k)
      BY <1>2, <3>1
    <3>4. \E e \in ToSet(r.lock.jdk) : e.request = m.jdk[k + 1]
      BY <3>3, <1>4
    <3> HIDE DEF k
    <3>5. JDKsIn(r.lock, m, k + 1)
      BY <3>2, <3>3, <3>4 DEF JDKsIn
    <3> QED
      BY <3>2, <3>5
  <2> HIDE DEF r2
  <2>4. JDKsFit(r2)
    BY <1>2, <2>2, <2>3 DEF JDKsFit
  <2> QED
    BY <2>1, <2>2, <2>4, NextRequestFits
<1>5. CASE ~(Len(r.arches) > 1) /\ ~\E e \in ToSet(r.lock.jdk) : e.request = request
  BY <1>5, StopFits DEF NextArch
<1> QED
  BY <1>3, <1>4, <1>5

-----------------------------------------------------------------------------
(* The JDKs.                                                                 *)
LEMMA PassingAQuery ==
  ASSUME NEW r \in Runs, r.manifest \in Manifests, JDKsFit(r), r.todo # <<>>,
         QueriesFit(r), r.queries # <<>>,
         Hopeless(Head(r.todo), Head(r.arches), Head(r.queries)),
         NEW r2, r2.todo = r.todo, r2.arches = r.arches, r2.manifest = r.manifest,
         r2.queries = Tail(r.queries)
  PROVE  QueriesFit(r2) /\ Tail(r.queries) \in Seq(Query)
<1> DEFINE queries == r.queries
           all == Queries(r.manifest, Head(r.todo))
           P(i) == Hopeless(Head(r.todo), Head(r.arches), all[i])
<1>1. queries \in Seq(Query) /\ queries # <<>>
  BY RunsAreTyped
<1>2. Head(r.todo) \in JDKRequest
  BY DEF JDKsFit
<1>3. all \in Seq(Query)
  BY <1>2, QueriesAre
<1>4. IsRest(queries, all) /\ \A i \in 1..(Len(all) - Len(queries)) : P(i)
  BY DEF QueriesFit
<1>5. Hopeless(Head(r.todo), Head(r.arches), Head(queries))
  OBVIOUS
<1> HIDE DEF queries, all
<1>6. /\ Tail(queries) \in Seq(Query) /\ IsRest(Tail(queries), all)
      /\ Head(queries) = all[Len(all) - Len(queries) + 1]
      /\ Len(Tail(queries)) = Len(queries) - 1 /\ Len(queries) \in 1..Len(all)
  BY <1>1, <1>3, <1>4, RestGoesOn
<1>7. P(Len(all) - Len(queries) + 1)
  BY <1>5, <1>6
<1> DEFINE n == Len(all)
           l == Len(queries)
           rest == Len(Tail(queries))
<1>8. n \in Nat /\ l \in 1..n /\ rest = l - 1
  BY <1>3, <1>6
<1>9. (\A i \in 1..(n - l) : P(i)) /\ P(n - l + 1)
  BY <1>4, <1>7
<1> HIDE DEF n, l, rest, P
<1>10. \A i \in 1..(n - rest) : P(i)
  BY <1>8, <1>9
<1> QED
  BY <1>6, <1>10 DEF QueriesFit, queries, all, P, n, rest

LEMMA OfferIsListed ==
  ASSUME NEW r \in Runs, OffersFit(r)
  PROVE  LET b == Offer(r) IN
         /\ Min(r.offers) \in r.offers /\ Min(r.offers) \in DOMAIN Builds /\ b \in ToSet(Builds)
         /\ b.major = Head(r.todo).major /\ b.arch = Head(r.arches) /\ b.libc = "glibc"
         /\ b.status = Head(r.queries)[1] /\ b.distribution = Head(r.queries)[2]
<1>1. r.offers \in SUBSET DOMAIN Builds /\ DOMAIN Builds \in SUBSET Nat /\ r.offers # {}
  BY RunsAreTyped, ResolverAssumption DEF ResolverAssumption, OffersFit
<1>2. Min(r.offers) \in r.offers
  BY <1>1, LeastIsIn
<1>3. r.offers \subseteq Glibc(Listed(Head(r.todo), Head(r.arches), Head(r.queries)))
  BY DEF OffersFit
<1> QED
  BY <1>1, <1>2, <1>3 DEF Offer, Glibc, Listed, ToSet

LEMMA NextOfferFits ==
  ASSUME NEW s, NEW h, NEW r \in Runs, r.manifest \in Manifests, Valid(r.manifest),
         LockFits(r.lock, r.manifest, s, h), JDKsFit(r), r.todo # <<>>, r.arches # <<>>,
         QueriesFit(r), OffersFit(r), Offer(r).url = Nil, NextOffer(r)
  PROVE  RunFits(pc', run', s, h)
<1> DEFINE left == r.offers \ {Min(r.offers)}
           listed == Glibc(Listed(Head(r.todo), Head(r.arches), Head(r.queries)))
<1>1. /\ r.queries # <<>> /\ r.offers # {} /\ r.offers \subseteq listed
      /\ \A i \in listed \ r.offers : Builds[i].url = Nil
  BY DEF OffersFit
<1>2. \A i \in listed \ left : Builds[i].url = Nil
  BY <1>1 DEF Offer
<1>3. CASE left # {}
  <2> DEFINE r2 == [r EXCEPT !.offers = left]
  <2>1. pc' = "detail" /\ run' = r2
    BY <1>3 DEF NextOffer, Goto
  <2>2. /\ r2 \in Runs /\ r2.manifest = r.manifest /\ r2.lock = r.lock /\ r2.deps = r.deps
        /\ r2.todo = r.todo /\ r2.arches = r.arches /\ r2.queries = r.queries /\ r2.offers = left
    BY DEF Runs
  <2> HIDE DEF r2
  <2>3. QueriesFit(r2) /\ JDKsFit(r2)
    BY <2>2 DEF QueriesFit, JDKsFit
  <2>4. OffersFit(r2)
    BY <1>1, <1>2, <1>3, <2>2 DEF OffersFit
  <2> QED
    BY <2>1, <2>2, <2>3, <2>4 DEF RunFits, Labels, OnJDKs, OnTools
<1>4. CASE left = {}
  <2> DEFINE r2 == [r EXCEPT !.offers = {}, !.queries = Tail(@)]
  <2>1. pc' = "packages" /\ run' = r2
    BY <1>4 DEF NextOffer, Goto
  <2>2. Hopeless(Head(r.todo), Head(r.arches), Head(r.queries))
    BY <1>2, <1>4 DEF Hopeless
  <2>3. /\ r2.manifest = r.manifest /\ r2.lock = r.lock /\ r2.deps = r.deps
        /\ r2.todo = r.todo /\ r2.arches = r.arches /\ r2.queries = Tail(r.queries)
    BY DEF Runs
  <2>4. Tail(r.queries) \in Seq(Query) => r2 \in Runs
    BY DEF Runs
  <2> HIDE DEF r2
  <2>5. QueriesFit(r2) /\ Tail(r.queries) \in Seq(Query)
    BY <1>1, <2>2, <2>3, PassingAQuery
  <2>6. JDKsFit(r2)
    BY <2>3 DEF JDKsFit
  <2> QED
    BY <2>1, <2>3, <2>4, <2>5, <2>6 DEF RunFits, Labels, OnJDKs, OnTools
<1> QED
  BY <1>3, <1>4

LEMMA OfferIsPreferred ==
  ASSUME NEW r \in Runs, r.manifest \in Manifests, JDKsFit(r), r.todo # <<>>,
         QueriesFit(r), OffersFit(r), Offer(r).url # Nil, NEW sum
  PROVE  Preferred([request |-> Head(r.todo), build |-> Offer(r), sum |-> sum], r.manifest)
<1> DEFINE m == r.manifest
           request == Head(r.todo)
           arch == Head(r.arches)
           query == Head(r.queries)
           all == Queries(m, request)
           dists == m.distributions
           n == Len(dists)
           c == Offer(r)
           k == Len(all) - Len(r.queries) + 1
<1>1. request \in JDKRequest /\ r.queries \in Seq(Query) /\ r.queries # <<>>
  BY RunsAreTyped DEF JDKsFit, OffersFit
<1>2. /\ all \in Seq(Query) /\ n \in Nat
      /\ Len(all) = IF request.ea THEN n + n ELSE n
      /\ \A i \in 1..n : all[i] = <<"ga", dists[i]>>
      /\ request.ea => \A i \in 1..n : all[n + i] = <<"ea", dists[i]>>
  BY <1>1, QueriesAre
<1>3. dists \in Seq(STRING) /\ DOMAIN dists = 1..n
  BY ManifestsAreTyped
<1>4. IsRest(r.queries, all)
  BY DEF QueriesFit
<1>5. k \in 1..Len(all) /\ query = all[k]
  <2> DEFINE queries == r.queries
  <2>1. queries \in Seq(Query) /\ queries # <<>> /\ IsRest(queries, all)
    BY <1>1, <1>4
  <2> HIDE DEF queries, all
  <2>2. Head(queries) = all[Len(all) - Len(queries) + 1] /\ Len(queries) \in 1..Len(all)
    BY <1>2, <2>1, RestGoesOn
  <2>3. Len(all) \in Nat
    BY <1>2
  <2>4. Len(all) - Len(queries) + 1 \in 1..Len(all)
    BY <2>2, <2>3
  <2> QED
    BY <2>2, <2>4 DEF queries
<1>6. \A i \in 1..(k - 1) : Hopeless(request, arch, all[i])
  <2> DEFINE l == Len(r.queries)
             length == Len(all)
  <2>1. l \in Nat /\ length \in Nat
    BY <1>1, <1>2
  <2>2. \A i \in 1..(length - l) : Hopeless(request, arch, all[i])
    BY DEF QueriesFit
  <2> HIDE DEF l, length
  <2>3. (length - l + 1) - 1 = length - l
    BY <2>1
  <2> QED
    BY <2>2, <2>3 DEF l, length
<1>7. /\ c.major = request.major /\ c.arch = arch /\ c.libc = "glibc" /\ c.url # Nil
      /\ c.status = query[1] /\ c.distribution = query[2]
  BY OfferIsListed
<1> HIDE DEF m, request, arch, query, all, dists, n, c, k
<1>8. \/ k \in 1..n /\ c.status = "ga" /\ c.distribution = dists[k]
      \/ k - n \in 1..n /\ c.status = "ea" /\ c.distribution = dists[k - n] /\ request.ea
  <2>1. CASE k <= n
    <3>1. k \in 1..n
      BY <2>1, <1>2, <1>5
    <3>2. query = <<"ga", dists[k]>>
      BY <3>1, <1>2, <1>5
    <3> QED
      BY <3>1, <3>2, <1>7
  <2>2. CASE ~(k <= n)
    <3>1. Len(all) \in Nat /\ k \in Int
      BY <1>2, <1>5
    <3>2. request.ea /\ k - n \in 1..n
      BY <2>2, <3>1, <1>2, <1>5
    <3> DEFINE i == k - n
    <3>3. i \in 1..n /\ k = n + i
      BY <3>1, <3>2, <1>2
    <3> HIDE DEF i
    <3>4. query = <<"ea", dists[i]>>
      BY <3>2, <3>3, <1>2, <1>5
    <3> QED
      BY <3>2, <3>3, <3>4, <1>7 DEF i
  <2> QED
    BY <2>1, <2>2
<1>9. Usable(c, request, c.arch)
  BY <1>7, <1>8 DEF Usable
<1>10. ASSUME NEW b \in ToSet(Builds), Usable(b, request, c.arch), b.distribution \in ToSet(dists),
              Earlier(m, b, c)
       PROVE  FALSE
  <2>1. PICK j \in DOMAIN Builds : b = Builds[j]
    BY DEF ToSet
  <2>2. b.status \in {"ga", "ea"} /\ b.url # Nil /\ (b.status = "ea" => request.ea)
    BY <2>1, <1>10, ResolverAssumption DEF ResolverAssumption, Usable
  <2>3. ASSUME NEW i \in 1..(k - 1), all[i] = <<b.status, b.distribution>>
        PROVE  FALSE
    <3>1. j \in Glibc(Listed(request, arch, all[i]))
      BY <2>1, <2>3, <1>7, <1>10 DEF Glibc, Listed, Usable
    <3> QED
      BY <3>1, <2>1, <2>2, <2>3, <1>6 DEF Hopeless
  <2>4. \/ b.status = "ga" /\ c.status = "ea"
        \/ /\ b.status = c.status
           /\ \E i \in DOMAIN dists :
                 dists[i] = b.distribution /\ \A q \in 1..i : dists[q] # c.distribution
    BY <1>10 DEF Earlier, dists
  <2>5. CASE b.status = "ga" /\ c.status = "ea"
    <3>1. PICK i \in 1..n : dists[i] = b.distribution
      BY <1>3, <1>10 DEF ToSet
    <3>2. all[i] = <<b.status, b.distribution>>
      BY <3>1, <2>5, <1>2
    <3>3. i \in 1..(k - 1)
      BY <2>5, <1>2, <1>5, <1>8
    <3> QED
      BY <3>2, <3>3, <2>3
  <2>6. CASE b.status = "ga" /\ c.status = "ga"
    <3>1. PICK i \in 1..n :
            dists[i] = b.distribution /\ \A q \in 1..i : dists[q] # c.distribution
      BY <2>4, <2>6, <1>3
    <3>2. k \in 1..n /\ c.distribution = dists[k]
      BY <2>6, <1>8
    <3>3. i \in 1..(k - 1)
      BY <3>1, <3>2, <1>2
    <3>4. all[i] = <<b.status, b.distribution>>
      BY <3>1, <2>6, <1>2
    <3> QED
      BY <3>3, <3>4, <2>3
  <2>7. CASE b.status = "ea" /\ c.status = "ea"
    <3>1. PICK i \in 1..n :
            dists[i] = b.distribution /\ \A q \in 1..i : dists[q] # c.distribution
      BY <2>4, <2>7, <1>3
    <3>2. k - n \in 1..n /\ c.distribution = dists[k - n]
      BY <2>7, <1>8
    <3>3. n + i \in 1..(k - 1)
      BY <3>1, <3>2, <1>2, <1>5
    <3>4. all[n + i] = <<b.status, b.distribution>>
      BY <3>1, <2>7, <2>2, <1>2
    <3> QED
      BY <3>3, <3>4, <2>3
  <2> QED
    BY <2>2, <2>4, <2>5, <2>6, <2>7
<1> DEFINE e == [request |-> request, build |-> c, sum |-> sum]
<1>11. e.request = request /\ e.build = c
  OBVIOUS
<1> HIDE DEF e
<1>12. Preferred(e, m)
  BY <1>9, <1>10, <1>11 DEF Preferred, dists
<1> QED
  BY <1>12 DEF e, request, c, m

WithJDK(sum) == [run EXCEPT !.lock.jdk = Append(@,
  [request |-> Head(run.todo), build |-> Offer(run), sum |-> sum])]

LEMMA EnteredJDK ==
  ASSUME ResolverInv, pc \in {"digest", "hash"}, NEW sum \in Nat
  PROVE  LET r == WithJDK(sum)
             e == [request |-> Head(run.todo), build |-> Offer(run), sum |-> sum]
         IN  /\ r \in Runs /\ r.lock.tools = run.lock.tools /\ r.manifest = run.manifest
             /\ r.todo = run.todo /\ r.arches = run.arches /\ r.deps = run.deps
             /\ ToSet(r.lock.jdk) = ToSet(run.lock.jdk) \union {e}
<1> DEFINE e == [request |-> Head(run.todo), build |-> Offer(run), sum |-> sum]
           jdk == Append(run.lock.jdk, e)
           r == WithJDK(sum)
           Entry == [request : JDKRequest, build : ToSet(Builds), sum : Nat]
           old == run.lock.jdk
<1>1. /\ run \in Runs /\ run.manifest \in Manifests /\ Valid(run.manifest)
      /\ JDKsFit(run) /\ run.todo # <<>> /\ OffersFit(run)
  BY DEF ResolverInv, RunFits, OnJDKs
<1>2. run.todo \in Seq(JDKRequest) /\ Head(run.todo) \in JDKRequest
  BY <1>1 DEF JDKsFit
<1>3. Offer(run) \in ToSet(Builds)
  BY <1>1, OfferIsListed
<1>4. e \in Entry /\ run.lock \in Locks /\ old \in Seq(Entry)
  BY <1>1, <1>2, <1>3, RunsAreTyped DEF Locks
<1>5. /\ r.lock.jdk = jdk /\ r.lock.tools = run.lock.tools /\ r.manifest = run.manifest
      /\ r.todo = run.todo /\ r.arches = run.arches /\ r.deps = run.deps
      /\ r = [run EXCEPT !.lock = [run.lock EXCEPT !.jdk = jdk]]
      /\ [run.lock EXCEPT !.jdk = jdk] \in Locks => r \in Runs
  BY <1>1, <1>4 DEF Runs, Locks, WithJDK
<1> HIDE DEF e, r, old, Entry
<1>6. jdk \in Seq(Entry) /\ ToSet(jdk) = ToSet(old) \union {e}
  BY <1>4, AppendAdds DEF old
<1>7. [run.lock EXCEPT !.jdk = jdk] \in Locks
  BY <1>4, <1>6 DEF Locks, Entry
<1> HIDE DEF jdk
<1> QED
  BY <1>5, <1>6, <1>7 DEF r, old, e

LEMMA VersionAtHand ==
  ASSUME NEW m \in Manifests, NEW r, r.manifest = m, JDKsFit(r), r.todo # <<>>
  PROVE  Head(r.todo) \in ToSet(m.jdk)
<1> DEFINE todo == r.todo
           jdk == m.jdk
           i == Len(jdk) - Len(todo) + 1
<1>1. todo \in Seq(JDKRequest) /\ jdk \in Seq(JDKRequest) /\ IsRest(todo, jdk) /\ todo # <<>>
  BY ManifestsAreTyped DEF JDKsFit
<1> HIDE DEF todo, jdk
<1>2. Head(todo) = jdk[i] /\ Len(todo) \in 1..Len(jdk) /\ Len(jdk) \in Nat
  BY <1>1, RestGoesOn
<1>3. i \in 1..Len(jdk) /\ DOMAIN jdk = 1..Len(jdk)
  BY <1>1, <1>2
<1> QED
  BY <1>2, <1>3 DEF ToSet, todo, jdk

LEMMA EnterJDKFits ==
  ASSUME ResolverInv, pc \in {"digest", "hash"}, NEW sum \in Nat,
         sum \in ServedBy(Offer(run).url, since, host), EnterJDK(sum)
  PROVE  RunFits(pc', run', since, host)
<1> DEFINE e == [request |-> Head(run.todo), build |-> Offer(run), sum |-> sum]
           r == WithJDK(sum)
<1>1. /\ run \in Runs /\ run.manifest \in Manifests /\ Valid(run.manifest)
      /\ LockFits(run.lock, run.manifest, since, host)
      /\ JDKsFit(run) /\ run.todo # <<>> /\ run.arches # <<>> /\ QueriesFit(run)
      /\ OffersFit(run) /\ Offer(run).url # Nil
  BY DEF ResolverInv, RunFits, OnJDKs
<1>2. Preferred(e, run.manifest) /\ e.sum \in ServedBy(e.build.url, since, host)
  BY <1>1, OfferIsPreferred
<1>7. e.request \in ToSet(run.manifest.jdk)
  BY <1>1, VersionAtHand
<1>3. NextArch(r)
  BY DEF EnterJDK, WithJDK
<1>4. /\ r \in Runs /\ r.lock.tools = run.lock.tools /\ r.manifest = run.manifest
      /\ r.todo = run.todo /\ r.arches = run.arches /\ r.deps = run.deps
      /\ ToSet(r.lock.jdk) = ToSet(run.lock.jdk) \union {e}
  BY EnteredJDK
<1> HIDE DEF e, r
<1>5. LockFits(r.lock, r.manifest, since, host)
  BY <1>1, <1>2, <1>4, <1>7 DEF LockFits
<1>6. JDKsFit(r)
  BY <1>1, <1>4 DEF JDKsFit, JDKsIn
<1> QED
  BY <1>1, <1>3, <1>4, <1>5, <1>6, NextArchFits

LEMMA PackagesFit ==
  ASSUME ResolverInv, Packages
  PROVE  RunFits(pc', run', since, host)
<1> DEFINE request == Head(run.todo)
           arch == Head(run.arches)
           query == Head(run.queries)
           listed == Glibc(Listed(request, arch, query))
<1>1. /\ run \in Runs /\ run.manifest \in Manifests /\ Valid(run.manifest)
      /\ LockFits(run.lock, run.manifest, since, host)
      /\ JDKsFit(run) /\ run.todo # <<>> /\ run.arches # <<>> /\ QueriesFit(run)
  BY DEF Packages, ResolverInv, RunFits, OnJDKs
<1>2. ArchFails => RunFits(pc', run', since, host)
  BY <1>1, NextArchFits DEF ArchFails
<1>3. ASSUME run.queries # <<>>, TakePackages(listed)
      PROVE  RunFits(pc', run', since, host)
  <2>1. CASE listed = {}
    <3> DEFINE r == [run EXCEPT !.queries = Tail(@)]
    <3>1. pc' = "packages" /\ run' = r
      BY <1>3, <2>1 DEF TakePackages, Goto
    <3>2. Hopeless(request, arch, query)
      BY <2>1 DEF Hopeless
    <3>3. /\ r.manifest = run.manifest /\ r.lock = run.lock /\ r.deps = run.deps
          /\ r.todo = run.todo /\ r.arches = run.arches /\ r.queries = Tail(run.queries)
          /\ Tail(run.queries) \in Seq(Query) => r \in Runs
      BY <1>1 DEF Runs
    <3> HIDE DEF r
    <3>4. QueriesFit(r) /\ Tail(run.queries) \in Seq(Query)
      BY <1>1, <1>3, <3>2, <3>3, PassingAQuery
    <3>5. JDKsFit(r)
      BY <1>1, <3>3 DEF JDKsFit
    <3> QED
      BY <1>1, <3>1, <3>3, <3>4, <3>5 DEF RunFits, Labels, OnJDKs, OnTools
  <2>2. CASE listed # {}
    <3> DEFINE r == [run EXCEPT !.offers = listed]
    <3>1. pc' = "detail" /\ run' = r
      BY <1>3, <2>2 DEF TakePackages, Goto
    <3>2. listed \subseteq DOMAIN Builds
      BY DEF Glibc, Listed
    <3>3. /\ r.manifest = run.manifest /\ r.lock = run.lock /\ r.deps = run.deps
          /\ r.todo = run.todo /\ r.arches = run.arches /\ r.queries = run.queries
          /\ r.offers = listed /\ r \in Runs
      BY <1>1, <3>2 DEF Runs
    <3> HIDE DEF r
    <3>4. QueriesFit(r) /\ JDKsFit(r)
      BY <1>1, <3>3 DEF QueriesFit, JDKsFit
    <3>5. OffersFit(r)
      BY <1>3, <2>2, <3>3 DEF OffersFit
    <3> QED
      BY <1>1, <3>1, <3>3, <3>4, <3>5 DEF RunFits, Labels, OnJDKs, OnTools
  <2> QED
    BY <2>1, <2>2
<1>4. CASE UNCHANGED <<pc, run>>
  BY <1>4 DEF ResolverInv
<1> QED
  BY <1>2, <1>3, <1>4 DEF Packages, Exchange

LEMMA DetailFits ==
  ASSUME ResolverInv, Detail
  PROVE  RunFits(pc', run', since, host)
<1> DEFINE build == Offer(run)
<1>1. /\ run \in Runs /\ run.manifest \in Manifests /\ Valid(run.manifest)
      /\ LockFits(run.lock, run.manifest, since, host)
      /\ JDKsFit(run) /\ run.todo # <<>> /\ run.arches # <<>> /\ QueriesFit(run) /\ OffersFit(run)
  BY DEF Detail, ResolverInv, RunFits, OnJDKs
<1>2. ArchFails => RunFits(pc', run', since, host)
  BY <1>1, NextArchFits DEF ArchFails
<1>3. build.url = Nil /\ NextOffer(run) => RunFits(pc', run', since, host)
  BY <1>1, NextOfferFits
<1>4. ASSUME build.url # Nil, NEW seen \in 1..Content(build.url),
             Goto("digest", [run EXCEPT !.sum = Evidence(build, seen)])
      PROVE  RunFits(pc', run', since, host)
  <2> DEFINE sum == Evidence(build, seen)
             r == [run EXCEPT !.sum = sum]
  <2>1. pc' = "digest" /\ run' = r
    BY <1>4 DEF Goto
  <2>2. Content(build.url) \in Nat /\ (build.url \notin Moving => Content(build.url) = 1)
    BY ContentIsServed DEF ResolverInv
  <2>3. sum \in {Nil} \union Nat /\ (sum # Nil => sum = seen /\ build.status # "ea")
    BY <2>2 DEF Evidence
  <2>4. build.status # "ea" => build.url \notin Moving
    BY <1>1, OfferIsListed, ResolverAssumption DEF ResolverAssumption, ToSet
  <2>5. sum # Nil => sum \in ServedBy(build.url, since, host)
    BY <2>2, <2>3, <2>4 DEF ServedBy
  <2>6. /\ r.manifest = run.manifest /\ r.lock = run.lock /\ r.deps = run.deps
        /\ r.todo = run.todo /\ r.arches = run.arches /\ r.queries = run.queries
        /\ r.offers = run.offers /\ r.sum = sum /\ r \in Runs
    BY <1>1, <2>3 DEF Runs
  <2> HIDE DEF r, sum
  <2>7. QueriesFit(r) /\ JDKsFit(r) /\ OffersFit(r) /\ Offer(r) = build
    BY <1>1, <2>6 DEF QueriesFit, JDKsFit, OffersFit, Offer
  <2> HIDE DEF build
  <2> QED
    BY <1>1, <1>4, <2>1, <2>5, <2>6, <2>7 DEF RunFits, Labels, OnJDKs, OnTools
<1>5. CASE UNCHANGED <<pc, run>>
  BY <1>5 DEF ResolverInv
<1> QED
  BY <1>2, <1>3, <1>4, <1>5 DEF Detail, Exchange

LEMMA DigestFits ==
  ASSUME ResolverInv, Digest
  PROVE  RunFits(pc', run', since, host)
<1> DEFINE url == Offer(run).url
           none == IF run.sum = Nil THEN Goto("hash", run) ELSE EnterJDK(run.sum)
<1>1. /\ pc = "digest" /\ RunFits(pc, run, since, host) /\ run \in Runs
      /\ run.sum # Nil => run.sum \in ServedBy(url, since, host)
  BY DEF Digest, ResolverInv, RunFits
<1>2. EnterJDK(Content(url)) => RunFits(pc', run', since, host)
  BY <1>1, ContentIsServed, EnterJDKFits DEF ResolverInv
<1>3. ASSUME none PROVE RunFits(pc', run', since, host)
  <2>1. CASE run.sum = Nil
    <3>1. pc' = "hash" /\ run' = run
      BY <1>3, <2>1 DEF Goto
    <3> QED
      BY <1>1, <3>1 DEF RunFits, Labels, OnJDKs, OnTools
  <2>2. CASE run.sum # Nil
    <3>1. run.sum \in Nat
      BY <1>1, <2>2, RunsAreTyped
    <3> QED
      BY <1>1, <1>3, <2>2, <3>1, EnterJDKFits
  <2> QED
    BY <2>1, <2>2
<1>4. CASE UNCHANGED <<pc, run>>
  BY <1>1, <1>4
<1> HIDE DEF none
<1>5. digestForURL(url, EnterJDK(Content(url)), none)
  BY DEF Digest, none
<1> QED
  BY <1>2, <1>3, <1>4, <1>5 DEF digestForURL, Exchange

LEMMA HashFits ==
  ASSUME ResolverInv, Hash
  PROVE  RunFits(pc', run', since, host)
<1>1. /\ run \in Runs /\ run.manifest \in Manifests /\ Valid(run.manifest)
      /\ LockFits(run.lock, run.manifest, since, host)
      /\ JDKsFit(run) /\ run.todo # <<>> /\ run.arches # <<>>
  BY DEF Hash, ResolverInv, RunFits, OnJDKs
<1>2. ArchFails => RunFits(pc', run', since, host)
  BY <1>1, NextArchFits DEF ArchFails
<1>3. EnterJDK(Content(Offer(run).url)) => RunFits(pc', run', since, host)
  BY ContentIsServed, EnterJDKFits DEF Hash, ResolverInv
<1>4. CASE UNCHANGED <<pc, run>>
  BY <1>4 DEF ResolverInv
<1> QED
  BY <1>2, <1>3, <1>4 DEF Hash, Exchange

-----------------------------------------------------------------------------
(* The tools.                                                                *)
LEMMA ToolAtHand ==
  ASSUME NEW r \in Runs, r.manifest \in Manifests, Valid(r.manifest), ToolsFit(r), r.todo # <<>>
  PROVE  LET t == Head(r.todo) IN
         /\ t \in AnyTool /\ t = Tools(r.manifest)[Len(r.lock.tools) + 1]
         /\ t.language \in {"kotlin", "groovy"} /\ t.version \in STRING
         /\ t.coroutines \in {Nil} \union STRING
         /\ t.language = "kotlin" => t.coroutines # Nil
<1> DEFINE t == Head(r.todo)
           todo == r.todo
           locked == r.lock.tools
           all == Tools(r.manifest)
           i == Len(locked) + 1
<1>1. todo \in Seq(AnyTool) /\ todo # <<>> /\ Len(locked) \in Nat
  BY RunsAreTyped DEF ToolsFit, Locks
<1>2. all \in Seq(AnyTool)
  BY ToolsAreTyped
<1>3. /\ Len(locked) + Len(todo) = Len(all)
      /\ \A k \in 1..Len(todo) : todo[k] = all[Len(locked) + k]
  BY DEF ToolsFit, ToolsIn
<1>4. t = todo[1]
  OBVIOUS
<1> HIDE DEF todo, locked, all, t
<1>5. Len(todo) \in Nat \ {0}
  BY <1>1
<1>6. i \in 1..Len(all) /\ todo[1] = all[i]
  BY <1>1, <1>3, <1>5
<1>7. /\ all[i] \in AnyTool /\ all[i].language \in {"kotlin", "groovy"}
      /\ all[i].language = "kotlin" => all[i].coroutines # Nil
  BY <1>6, ToolsAreSound DEF all
<1>8. t = all[i]
  BY <1>4, <1>6
<1>9. t.version \in STRING /\ t.coroutines \in {Nil} \union STRING
  BY <1>7, <1>8 DEF AnyTool, ToolRequest
<1> QED
  BY <1>7, <1>8, <1>9 DEF t, all, locked

LEMMA EnterToolFits ==
  ASSUME NEW s, NEW h, NEW r \in Runs, r.manifest \in Manifests, Valid(r.manifest),
         LockFits(r.lock, r.manifest, s, h), ToolsFit(r), r.todo # <<>>,
         r.sum \in Nat, r.sum \in ServedBy(ToolUrl(Head(r.todo)), s, h),
         DepsFit(r.deps, Head(r.todo), s, h),
         Len(r.deps) = IF Head(r.todo).language = "kotlin" THEN 2 ELSE 0,
         EnterTool(r)
  PROVE  RunFits(pc', run', s, h)
<1> DEFINE Entry == [request : AnyTool, sum : Nat, deps : Seq(Dependency)]
           t == Head(r.todo)
           e == [request |-> t, sum |-> r.sum, deps |-> r.deps]
           old == r.lock.tools
           tools == Append(old, e)
           lock == [r.lock EXCEPT !.tools = tools]
           r2 == [r EXCEPT !.todo = Tail(@), !.sum = Nil, !.jar = Nil, !.deps = <<>>,
                           !.lock.tools = Append(@, [request |-> Head(r.todo), sum |-> r.sum,
                                                     deps |-> r.deps])]
<1>1. NextTool(r2)
  BY DEF EnterTool
<1>2. /\ r.lock \in Locks /\ old \in Seq(Entry) /\ r.deps \in Seq(Dependency)
      /\ r.todo \in Seq(AnyTool)
  BY RunsAreTyped DEF Locks, ToolsFit
<1>3. t \in AnyTool
  BY ToolAtHand
<1>4. e \in Entry /\ ToolFits(e, s, h)
  BY <1>2, <1>3 DEF ToolFits
<1>5. /\ r2.manifest = r.manifest /\ r2.todo = Tail(r.todo) /\ r2.deps = <<>>
      /\ r2.lock = lock /\ lock.tools = tools /\ lock.jdk = r.lock.jdk
      /\ lock \in Locks /\ Tail(r.todo) \in Seq(AnyTool) => r2 \in Runs
  <2>1. lock.tools = tools /\ lock.jdk = r.lock.jdk
    BY <1>2 DEF Locks
  <2>2. r2 = [r EXCEPT !.todo = Tail(r.todo), !.sum = Nil, !.jar = Nil, !.deps = <<>>, !.lock = lock]
    BY DEF Runs
  <2> HIDE DEF r2, lock
  <2>3. r2.manifest = r.manifest /\ r2.todo = Tail(r.todo) /\ r2.deps = <<>> /\ r2.lock = lock
    BY <2>2 DEF Runs
  <2>4. ASSUME lock \in Locks, Tail(r.todo) \in Seq(AnyTool)
        PROVE  r2 \in Runs
    <3> DEFINE rest == Tail(r.todo)
               none == <<>>
    <3>1. r2 = [r EXCEPT !.todo = rest, !.sum = Nil, !.jar = Nil, !.deps = none, !.lock = lock]
      BY <2>2
    <3>2. rest \in Seq(JDKRequest) \union Seq(AnyTool) /\ none \in Seq(Dependency) /\ lock \in Locks
      BY <2>4
    <3> HIDE DEF rest, none
    <3> QED
      BY <3>1, <3>2 DEF Runs
  <2> QED
    BY <2>1, <2>3, <2>4
<1> HIDE DEF r2
<1> DEFINE todo == r.todo
           all == Tools(r.manifest)
<1>6. /\ todo \in Seq(AnyTool) /\ todo # <<>> /\ e.request = Head(todo)
      /\ Len(old) + Len(todo) = Len(all)
      /\ \A i \in 1..Len(old) : old[i].request = all[i]
      /\ \A i \in 1..Len(todo) : todo[i] = all[Len(old) + i]
  BY <1>2 DEF ToolsFit, ToolsIn
<1> HIDE DEF e, lock, old, todo, all, Entry
<1>7. /\ tools \in Seq(Entry) /\ Len(tools) = Len(old) + 1
      /\ \A i \in 1..Len(old) : tools[i] = old[i]
      /\ tools[Len(old) + 1] = e
      /\ ToSet(tools) = ToSet(old) \union {e}
  BY <1>2, <1>4, AppendAdds
<1>8. /\ Tail(todo) \in Seq(AnyTool) /\ Len(Tail(todo)) = Len(todo) - 1 /\ Head(todo) = todo[1]
      /\ \A i \in 1..Len(Tail(todo)) : Tail(todo)[i] = todo[i + 1]
      /\ Len(todo) \in Nat \ {0}
  BY <1>6
<1>9. lock \in Locks
  BY <1>2, <1>7 DEF Locks, Entry, lock
<1> HIDE DEF tools
<1>10. Len(old) \in Nat
  BY <1>2
<1>11. Len(tools) + Len(Tail(todo)) = Len(all)
  BY <1>6, <1>7, <1>8, <1>10
<1>12. \A i \in 1..Len(tools) : tools[i].request = all[i]
  <2>1. tools[Len(old) + 1].request = all[Len(old) + 1]
    BY <1>6, <1>7, <1>8
  <2>2. \A i \in 1..Len(old) : tools[i].request = all[i]
    BY <1>6, <1>7
  <2> QED
    BY <2>1, <2>2, <1>7, <1>10
<1>13. \A i \in 1..Len(Tail(todo)) : Tail(todo)[i] = all[Len(tools) + i]
  <2> SUFFICES ASSUME NEW i \in 1..Len(Tail(todo))
               PROVE  Tail(todo)[i] = all[Len(tools) + i]
    OBVIOUS
  <2> DEFINE n == Len(old)
             l == Len(todo)
             rest == Len(Tail(todo))
             k == Len(tools)
  <2>1. n \in Nat /\ l \in Nat \ {0} /\ rest = l - 1 /\ k = n + 1 /\ i \in 1..rest
    BY <1>7, <1>8, <1>10
  <2> HIDE DEF n, l, rest, k
  <2>2. i + 1 \in 1..l /\ k + i = n + (i + 1)
    BY <2>1
  <2>3. Tail(todo)[i] = todo[i + 1] /\ todo[i + 1] = all[n + (i + 1)]
    BY <2>2, <1>6, <1>8 DEF n, l
  <2> QED
    BY <2>2, <2>3 DEF k
<1>14. ToolsIn(lock, r.manifest, Tail(r.todo))
  BY <1>5, <1>11, <1>12, <1>13 DEF ToolsIn, todo, all
<1>15. JDKsIn(lock, r.manifest, Len(r.manifest.jdk))
  BY <1>5 DEF ToolsFit, JDKsIn
<1>16. ToolsFit(r2)
  BY <1>5, <1>8, <1>14, <1>15 DEF ToolsFit, todo
<1>17. LockFits(r2.lock, r2.manifest, s, h)
  BY <1>4, <1>5, <1>7 DEF LockFits, old
<1> QED
  BY <1>1, <1>5, <1>8, <1>9, <1>16, <1>17, NextToolFits DEF todo

LEMMA TakeSumFits ==
  ASSUME ResolverInv, pc \in {"toolDigest", "sidecar", "toolHash"},
         TakeSum(Content(ToolUrl(Tool)))
  PROVE  RunFits(pc', run', since, host)
<1> DEFINE sum == Content(ToolUrl(Tool))
<1>1. /\ run \in Runs /\ run.manifest \in Manifests /\ Valid(run.manifest)
      /\ LockFits(run.lock, run.manifest, since, host)
      /\ ToolsFit(run) /\ run.todo # <<>> /\ run.deps = <<>>
  BY DEF ResolverInv, RunFits, OnTools
<1>2. /\ Tool.language \in {"kotlin", "groovy"} /\ Tool.version \in STRING
      /\ Tool.language = "kotlin" => Tool.coroutines # Nil
  BY <1>1, ToolAtHand DEF Tool
<1>3. sum \in Nat /\ sum \in ServedBy(ToolUrl(Tool), since, host)
  BY ContentIsServed DEF ResolverInv
<1>4. DepsFit(<<>>, Tool, since, host) /\ Len(run.deps) = 0
  BY <1>1 DEF DepsFit
<1>5. CASE Tool.language = "kotlin"
  <2> DEFINE jar == StdlibJar(Tool)
             r == [run EXCEPT !.sum = sum, !.jar = jar]
  <2>1. pc' = "jarSum" /\ run' = r
    BY <1>2, <1>5 DEF TakeSum, Goto, StdlibJar
  <2>2. jar \in Jars
    BY <1>2 DEF StdlibJar, Jars
  <2> HIDE DEF jar, sum
  <2>3. /\ r.manifest = run.manifest /\ r.todo = run.todo /\ r.lock = run.lock
        /\ r.deps = <<>> /\ r.sum = sum /\ r.jar = jar /\ r \in Runs
    BY <1>1, <1>3, <2>2 DEF Runs
  <2> HIDE DEF r
  <2>4. ToolsFit(r)
    BY <1>1, <2>3 DEF ToolsFit
  <2>5. JarFits(r, since, host)
    BY <1>3, <1>4, <1>5, <2>3 DEF JarFits, Tool, jar
  <2> QED
    BY <1>1, <2>1, <2>3, <2>4, <2>5 DEF RunFits, Labels, OnJDKs, OnTools
<1>6. CASE Tool.language = "groovy"
  <2> DEFINE r == [run EXCEPT !.sum = sum]
  <2>1. EnterTool(r)
    BY <1>6 DEF TakeSum
  <2> HIDE DEF sum
  <2>2. /\ r.manifest = run.manifest /\ r.todo = run.todo /\ r.lock = run.lock
        /\ r.deps = run.deps /\ r.sum = sum /\ r \in Runs
    BY <1>1, <1>3 DEF Runs
  <2> HIDE DEF r
  <2>3. ToolsFit(r)
    BY <1>1, <2>2 DEF ToolsFit
  <2> QED
    BY <1>1, <1>3, <1>4, <1>6, <2>1, <2>2, <2>3, EnterToolFits DEF Tool
<1> QED
  BY <1>2, <1>5, <1>6

LEMMA ToolStepsFit ==
  ASSUME ResolverInv, ToolDigest \/ Sidecar \/ ToolHash
  PROVE  RunFits(pc', run', since, host)
<1>1. pc \in {"toolDigest", "sidecar", "toolHash"} /\ RunFits(pc, run, since, host)
  BY DEF ToolDigest, Sidecar, ToolHash, ResolverInv
<1>2. TakeSum(Content(ToolUrl(Tool))) => RunFits(pc', run', since, host)
  BY <1>1, TakeSumFits
<1>3. ASSUME NEW label \in {"sidecar", "toolHash"}, Goto(label, run)
      PROVE  RunFits(pc', run', since, host)
  <2>1. pc' = label /\ run' = run
    BY <1>3 DEF Goto
  <2> QED
    BY <1>1, <2>1 DEF RunFits, Labels, OnJDKs, OnTools
<1>4. Stop => RunFits(pc', run', since, host)
  BY StopFits
<1>5. CASE UNCHANGED <<pc, run>>
  BY <1>1, <1>5
<1> QED
  BY <1>2, <1>3, <1>4, <1>5 DEF ToolDigest, Sidecar, ToolHash, digestForURL, Exchange

LEMMA JarSumFits ==
  ASSUME ResolverInv, JarSum
  PROVE  RunFits(pc', run', since, host)
<1>1. /\ run \in Runs /\ run.manifest \in Manifests /\ Valid(run.manifest)
      /\ LockFits(run.lock, run.manifest, since, host)
      /\ ToolsFit(run) /\ run.todo # <<>> /\ JarFits(run, since, host)
      /\ RunFits(pc, run, since, host) /\ pc = "jarSum"
  BY DEF JarSum, ResolverInv, RunFits, OnTools
<1>2. CASE Goto("jarHash", run)
  <2>1. pc' = "jarHash" /\ run' = run
    BY <1>2 DEF Goto
  <2> QED
    BY <1>1, <2>1 DEF RunFits, Labels, OnJDKs, OnTools
<1>3. ASSUME run.jar \in Absent, run.jar = JvmJar(Tool),
             Goto("jarSum", [run EXCEPT !.jar = PlainJar(Tool)])
      PROVE  RunFits(pc', run', since, host)
  <2> DEFINE jar == PlainJar(Tool)
             r == [run EXCEPT !.jar = jar]
  <2>1. pc' = "jarSum" /\ run' = r
    BY <1>3 DEF Goto
  <2>2. Tool.coroutines \in {Nil} \union STRING
    BY <1>1, ToolAtHand DEF Tool
  <2>3. jar \in Jars /\ IsCoroutines(jar, Tool) /\ JvmJar(Tool) # StdlibJar(Tool)
    BY <1>3, <2>2 DEF PlainJar, Jars, IsCoroutines, JvmJar, StdlibJar
  <2> HIDE DEF jar
  <2>4. /\ r.manifest = run.manifest /\ r.todo = run.todo /\ r.lock = run.lock
        /\ r.deps = run.deps /\ r.sum = run.sum /\ r.jar = jar /\ r \in Runs
    BY <1>1, <2>3 DEF Runs
  <2> HIDE DEF r
  <2>5. ToolsFit(r)
    BY <1>1, <2>4 DEF ToolsFit
  <2>6. JarFits(r, since, host)
    BY <1>1, <1>3, <2>3, <2>4 DEF JarFits, Tool
  <2> QED
    BY <1>1, <2>1, <2>4, <2>5, <2>6 DEF RunFits, Labels, OnJDKs, OnTools
<1>4. CASE Stop
  BY <1>4, StopFits
<1>5. CASE UNCHANGED <<pc, run>>
  BY <1>1, <1>5
<1> QED
  BY <1>2, <1>3, <1>4, <1>5 DEF JarSum, Exchange

LEMMA KeepJarFits ==
  ASSUME ResolverInv, pc = "jarHash", KeepJar(Content(run.jar))
  PROVE  RunFits(pc', run', since, host)
<1> DEFINE sum == Content(run.jar)
           t == Head(run.todo)
           name == IF run.deps = <<>> THEN "kotlin-stdlib.jar" ELSE "kotlinx-coroutines-core-jvm.jar"
           d == [name |-> name, url |-> run.jar, sum |-> sum]
           deps == Append(run.deps, d)
           r == [run EXCEPT !.deps = deps]
<1>1. /\ run \in Runs /\ run.manifest \in Manifests /\ Valid(run.manifest)
      /\ LockFits(run.lock, run.manifest, since, host)
      /\ ToolsFit(run) /\ run.todo # <<>> /\ JarFits(run, since, host)
  BY DEF ResolverInv, RunFits, OnTools
<1>2. t.language = "kotlin" /\ t.version \in STRING /\ t.coroutines \in {Nil} \union STRING
  BY <1>1, ToolAtHand DEF JarFits
<1>3. sum \in Nat /\ sum \in ServedBy(run.jar, since, host)
  BY ContentIsServed DEF ResolverInv
<1>4. run.jar \in Jars
  BY <1>1, <1>2 DEF JarFits, IsCoroutines, StdlibJar, JvmJar, PlainJar, Jars
<1>5. d \in Dependency /\ run.deps \in Seq(Dependency)
  BY <1>1, <1>3, <1>4, RunsAreTyped DEF Dependency, JarNames
<1>6. d.sum = sum /\ d.url = run.jar /\ d.name = name
  OBVIOUS
<1> DEFINE old == run.deps
<1>7. /\ DepsFit(old, t, since, host)
      /\ \/ old = <<>> /\ run.jar = StdlibJar(t)
         \/ Len(old) = 1 /\ IsCoroutines(run.jar, t)
  BY <1>1 DEF JarFits
<1>8. old = <<>> => name = "kotlin-stdlib.jar"
  OBVIOUS
<1>9. old # <<>> => name = "kotlinx-coroutines-core-jvm.jar"
  OBVIOUS
<1>10. IF run.deps = <<>> THEN Goto("jarSum", [r EXCEPT !.jar = JvmJar(t)]) ELSE EnterTool(r)
  BY DEF KeepJar, Tool
<1> HIDE DEF sum, d, name
<1>11. /\ deps \in Seq(Dependency) /\ Len(deps) = Len(old) + 1
       /\ \A i \in 1..Len(old) : deps[i] = old[i]
       /\ deps[Len(old) + 1] = d
  BY <1>5, AppendAdds
<1>12. /\ r.manifest = run.manifest /\ r.todo = run.todo /\ r.lock = run.lock
       /\ r.deps = deps /\ r.sum = run.sum
       /\ r \in Runs
  BY <1>1, <1>11 DEF Runs
<1> HIDE DEF deps, r
<1>13. ToolsFit(r)
  BY <1>1, <1>12 DEF ToolsFit
<1>14. DepsFit(deps, t, since, host)
  <2> HIDE DEF old, t
  <2>1. Len(old) \in 0..1 /\ DOMAIN deps = 1..(Len(old) + 1)
    BY <1>5, <1>7, <1>11 DEF old
  <2>2. \A i \in 1..Len(old) : old[i].sum \in ServedBy(old[i].url, since, host)
    BY <1>5, <1>7 DEF DepsFit, old
  <2>3. \A i \in DOMAIN deps : deps[i].sum \in ServedBy(deps[i].url, since, host)
    BY <2>1, <2>2, <1>3, <1>6, <1>11
  <2>4. CASE old = <<>>
    <3>1. Len(old) = 0
      BY <2>4
    <3>2. deps[1].name = "kotlin-stdlib.jar" /\ deps[1].url = StdlibJar(t) /\ Len(deps) = 1
      BY <3>1, <2>4, <1>6, <1>7, <1>8, <1>11
    <3> QED
      BY <2>3, <3>2 DEF DepsFit
  <2>5. CASE old # <<>>
    <3>1. Len(old) = 1 /\ IsCoroutines(run.jar, t)
      BY <2>5, <1>7
    <3>2. deps[1] = old[1] /\ old[1].name = "kotlin-stdlib.jar" /\ old[1].url = StdlibJar(t)
      BY <3>1, <1>7, <1>11 DEF DepsFit
    <3>3. /\ deps[2].name = "kotlinx-coroutines-core-jvm.jar" /\ Len(deps) = 2
          /\ IsCoroutines(deps[2].url, t)
      BY <2>5, <3>1, <1>6, <1>9, <1>11
    <3> QED
      BY <2>3, <3>2, <3>3 DEF DepsFit
  <2> QED
    BY <2>4, <2>5
<1>15. CASE run.deps = <<>>
  <2> DEFINE jar == JvmJar(t)
             r2 == [r EXCEPT !.jar = jar]
  <2>1. pc' = "jarSum" /\ run' = r2
    BY <1>10, <1>15 DEF Goto
  <2>2. jar \in Jars /\ IsCoroutines(jar, t)
    BY <1>2 DEF JvmJar, Jars, IsCoroutines
  <2> HIDE DEF jar
  <2>3. /\ r2.manifest = run.manifest /\ r2.todo = run.todo /\ r2.lock = run.lock
        /\ r2.deps = deps /\ r2.sum = run.sum /\ r2.jar = jar /\ r2 \in Runs
    BY <1>12, <2>2 DEF Runs
  <2> HIDE DEF r2
  <2>4. Len(deps) = 1
    BY <1>11, <1>15
  <2>5. JarFits(r2, since, host)
    BY <1>1, <1>14, <2>2, <2>3, <2>4 DEF JarFits
  <2>6. ToolsFit(r2)
    BY <1>1, <2>3 DEF ToolsFit
  <2> QED
    BY <1>1, <2>1, <2>3, <2>5, <2>6 DEF RunFits, Labels, OnJDKs, OnTools
<1>16. CASE run.deps # <<>>
  <2>1. EnterTool(r)
    BY <1>10, <1>16
  <2>2. Len(deps) = 2
    BY <1>7, <1>11, <1>16
  <2>3. r.sum \in Nat /\ r.sum \in ServedBy(ToolUrl(t), since, host)
    BY <1>1, <1>12 DEF JarFits
  <2> QED
    BY <1>1, <1>2, <1>12, <1>13, <1>14, <2>1, <2>2, <2>3, EnterToolFits
<1> QED
  BY <1>15, <1>16

-----------------------------------------------------------------------------
(* The whole run.                                                            *)
LEMMA BeginFits ==
  ASSUME ResolverInv, NEW m \in Manifests, Begin(m)
  PROVE  RunFits(pc', run', host, host)
<1> DEFINE r == [Idle EXCEPT !.manifest = m, !.todo = m.jdk]
<1>1. Valid(m) /\ NextRequest(r)
  BY DEF Begin
<1>2. EmptyLock \in Locks /\ ToSet(EmptyLock.jdk) = {} /\ ToSet(EmptyLock.tools) = {}
  BY DEF EmptyLock, Locks, ToSet
<1>3. m.jdk \in Seq(JDKRequest)
  BY ManifestsAreTyped
<1>4. /\ r \in Runs /\ r.manifest = m /\ r.todo = m.jdk /\ r.lock = EmptyLock /\ r.deps = <<>>
  <2> DEFINE r1 == [Idle EXCEPT !.manifest = m]
  <2>1. Idle \in Runs /\ Idle.lock = EmptyLock /\ Idle.deps = <<>>
    BY <1>2 DEF Idle, Runs
  <2>2. r1 \in Runs /\ r1.manifest = m /\ r1.lock = EmptyLock /\ r1.deps = <<>>
    BY <2>1 DEF Runs
  <2>3. r = [r1 EXCEPT !.todo = m.jdk]
    OBVIOUS
  <2> HIDE DEF r1, r
  <2> QED
    BY <1>3, <2>2, <2>3 DEF Runs
<1> HIDE DEF r
<1>5. LockFits(r.lock, r.manifest, host, host)
  BY <1>2, <1>4 DEF LockFits
<1>6. IsRest(m.jdk, m.jdk) /\ JDKsIn(EmptyLock, m, Len(m.jdk) - Len(m.jdk))
  <2> DEFINE jdk == m.jdk
  <2>1. Len(jdk) \in Nat
    BY <1>3
  <2> HIDE DEF jdk
  <2>2. IsRest(jdk, jdk) /\ Len(jdk) - Len(jdk) = 0
    BY <2>1 DEF IsRest
  <2>3. JDKsIn(EmptyLock, m, 0)
    BY DEF JDKsIn
  <2> QED
    BY <2>2, <2>3 DEF jdk
<1>7. JDKsFit(r)
  BY <1>3, <1>4, <1>6 DEF JDKsFit, EmptyLock
<1> QED
  BY <1>1, <1>4, <1>5, <1>7, NextRequestFits

LEMMA ServingGoesOn ==
  ASSUME NEW label, NEW r, NEW s, NEW h, NEW h2, RunFits(label, r, s, h),
         \A url : ServedBy(url, s, h) \subseteq ServedBy(url, s, h2)
  PROVE  RunFits(label, r, s, h2)
<1>1. ASSUME NEW deps, NEW t, DepsFit(deps, t, s, h)
      PROVE  DepsFit(deps, t, s, h2)
  BY <1>1 DEF DepsFit
<1>2. LockFits(r.lock, r.manifest, s, h2)
  BY <1>1 DEF RunFits, LockFits, ToolFits
<1>3. JarFits(r, s, h) => JarFits(r, s, h2)
  BY <1>1 DEF JarFits
<1> QED
  BY <1>2, <1>3 DEF RunFits

LEMMA ResolverInit == Init => ResolverInv
<1> SUFFICES ASSUME Init PROVE ResolverInv
  OBVIOUS
<1>1. WorldFits /\ 1 \in 1..MaxAttempts
  BY ResolverAssumption DEF ResolverAssumption, Init, WorldFits
<1>2. EmptyLock \in Locks /\ ToSet(EmptyLock.jdk) = {} /\ ToSet(EmptyLock.tools) = {}
  BY DEF EmptyLock, Locks, ToSet
<1>3. Idle \in Runs /\ Idle.lock = EmptyLock
  BY <1>2 DEF Idle, Runs
<1>4. RunFits(pc, run, since, host)
  BY <1>2, <1>3 DEF Init, RunFits, LockFits, Labels, OnJDKs, OnTools
<1> QED
  BY <1>1, <1>4 DEF Init, ResolverInv

LEMMA ResolverStep == ResolverInv /\ [Next]_vars => ResolverInv'
<1> SUFFICES ASSUME ResolverInv, [Next]_vars PROVE ResolverInv'
  OBVIOUS
<1> USE DEF ResolverInv
<1>1. ASSUME RunFits(pc', run', since, host), UNCHANGED <<host, since>>,
             file' \in {"old", "cut", "new"}, attempt' \in 1..MaxAttempts, cancelled' \in BOOLEAN
      PROVE  ResolverInv'
  BY <1>1 DEF WorldFits
<1>2. 1 \in 1..MaxAttempts /\ \A n \in 1..MaxAttempts : n < MaxAttempts => n + 1 \in 1..MaxAttempts
  BY ResolverAssumption DEF ResolverAssumption
<1>3. CASE Packages \/ Detail \/ Digest \/ Hash
  <2>1. RunFits(pc', run', since, host)
    BY <1>3, PackagesFit, DetailFits, DigestFits, HashFits
  <2>2. attempt' \in 1..MaxAttempts
    BY <1>2, <1>3 DEF Packages, Detail, Digest, Hash, digestForURL, Exchange
  <2>3. UNCHANGED <<host, since, file, cancelled>>
    BY <1>3 DEF Packages, Detail, Digest, Hash, Untouched
  <2> QED
    BY <1>1, <2>1, <2>2, <2>3
<1>4. CASE ToolDigest \/ Sidecar \/ ToolHash
  <2>1. RunFits(pc', run', since, host)
    BY <1>4, ToolStepsFit
  <2>2. attempt' \in 1..MaxAttempts
    BY <1>2, <1>4 DEF ToolDigest, Sidecar, ToolHash, digestForURL, Exchange
  <2>3. UNCHANGED <<host, since, file, cancelled>>
    BY <1>4 DEF ToolDigest, Sidecar, ToolHash, Untouched
  <2> QED
    BY <1>1, <2>1, <2>2, <2>3
<1>5. CASE JarSum \/ JarHash
  <2>1. ASSUME JarHash PROVE RunFits(pc', run', since, host)
    BY <2>1, KeepJarFits, StopFits DEF JarHash, Exchange
  <2>2. RunFits(pc', run', since, host)
    BY <1>5, <2>1, JarSumFits
  <2>3. attempt' \in 1..MaxAttempts
    BY <1>2, <1>5 DEF JarSum, JarHash, Exchange
  <2>4. UNCHANGED <<host, since, file, cancelled>>
    BY <1>5 DEF JarSum, JarHash, Untouched
  <2> QED
    BY <1>1, <2>2, <2>3, <2>4
<1>6. CASE Open \/ Write
  <2>1. UNCHANGED <<host, since, attempt, cancelled>> /\ file' \in {"old", "cut", "new"}
    BY <1>6 DEF Open, Write, world
  <2>2. CASE Stop
    BY <1>1, <2>1, <2>2, StopFits
  <2>3. CASE pc = "save" /\ Goto("write", run)
    <3>1. pc' = "write" /\ run' = run
      BY <2>3 DEF Goto
    <3>2. RunFits(pc', run', since, host)
      BY <2>3, <3>1 DEF RunFits, Labels, OnJDKs, OnTools
    <3> QED
      BY <1>1, <2>1, <3>2
  <2> QED
    BY <1>6, <2>2, <2>3 DEF Open, Write
<1>7. CASE Interrupt
  BY <1>1, <1>7 DEF Interrupt, world
<1>8. CASE Crash
  BY <1>1, <1>2, <1>8, StopFits DEF Crash, Untouched
<1>9. ASSUME NEW m \in Manifests, Begin(m) PROVE ResolverInv'
  <2>1. RunFits(pc', run', host, host)
    BY <1>9, BeginFits
  <2>2. /\ host' = host /\ since' = host /\ cancelled' = FALSE /\ attempt' = attempt
        /\ file' \in {"old", "cut", "new"}
    BY <1>9 DEF Begin
  <2>3. WorldFits'
    BY <2>2, ResolverAssumption DEF WorldFits, ResolverAssumption
  <2> QED
    BY <2>1, <2>2, <2>3
<1>10. ASSUME NEW url \in Moving, Republish(url) PROVE ResolverInv'
  <2>1. /\ host' = [host EXCEPT ![url] = @ + 1] /\ host[url] < MaxEdition
        /\ UNCHANGED <<since, file, pc, run, attempt, cancelled>>
    BY <1>10 DEF Republish
  <2>2. WorldFits' /\ \A u \in Moving : host[u] <= host'[u] /\ host[u] \in Int /\ host'[u] \in Int
    BY <2>1, ResolverAssumption DEF WorldFits, ResolverAssumption
  <2>3. \A u : ServedBy(u, since, host) \subseteq ServedBy(u, since, host')
    BY <2>2 DEF ServedBy, WorldFits
  <2>4. RunFits(pc, run, since, host')
    BY <2>3, ServingGoesOn
  <2> QED
    BY <2>1, <2>2, <2>4
<1>11. CASE UNCHANGED vars
  BY <1>11 DEF vars, WorldFits
<1> QED
  BY <1>3, <1>4, <1>5, <1>6, <1>7, <1>8, <1>9, <1>10, <1>11 DEF Next, Step

(* At every step a run has what it needs to go on, whatever it was answered   *)
(* (Resolve, resolve.go:38-81).                                             *)
THEOREM ResolverInvariant == Spec => []ResolverInv
<1> QED
  BY ResolverInit, ResolverStep, PTL DEF Spec

LEMMA LockIsTyped ==
  ASSUME NEW lock \in Locks
  PROVE  /\ lock.jdk \in Seq([request : JDKRequest, build : ToSet(Builds), sum : Nat])
         /\ lock.tools \in Seq([request : AnyTool, sum : Nat, deps : Seq(Dependency)])
BY DEF Locks

LEMMA ToolsInALock ==
  ASSUME NEW lock \in Locks, NEW e \in ToSet(lock.tools)
  PROVE  e.request \in AnyTool /\ e.deps \in Seq(Dependency)
<1> DEFINE Entry == [request : AnyTool, sum : Nat, deps : Seq(Dependency)]
           tools == lock.tools
<1>1. tools \in Seq(Entry)
  BY LockIsTyped
<1> HIDE DEF tools, Entry
<1>2. ToSet(tools) \subseteq Entry
  BY <1>1 DEF ToSet
<1>3. e \in Entry
  BY <1>2 DEF tools
<1> QED
  BY <1>3 DEF Entry

LEMMA DepsAreTwo ==
  ASSUME NEW t, NEW s, NEW h, NEW deps \in Seq(Dependency), DepsFit(deps, t, s, h), NEW d \in ToSet(deps)
  PROVE  /\ d.sum \in ServedBy(d.url, s, h)
         /\ \/ d.name = "kotlin-stdlib.jar" /\ d = deps[1] /\ d.url = StdlibJar(t)
            \/ d.name = "kotlinx-coroutines-core-jvm.jar" /\ d = deps[2] /\ IsCoroutines(d.url, t)
<1> DEFINE n == Len(deps)
<1>1. n \in Nat /\ DOMAIN deps = 1..n /\ n \in 0..2
  BY DEF DepsFit
<1>2. PICK i \in 1..n : d = deps[i]
  BY <1>1 DEF ToSet
<1>3. (i = 1 /\ n >= 1) \/ (i = 2 /\ n = 2)
  BY <1>1, <1>2
<1> QED
  BY <1>1, <1>2, <1>3 DEF DepsFit

(* Labels, attempts and lists have the types they are used with, and a       *)
(* request for a build is made for a version, an architecture and an offer   *)
(* that are there (resolveJDK, resolve.go:83-190; do, 520-555).              *)
THEOREM ResolverTypeCorrect == Spec => []ResolverTypeOK
<1>1. ResolverInv => ResolverTypeOK
  BY DEF ResolverInv, WorldFits, RunFits, OffersFit, Labels, OnJDKs, OnTools, ResolverTypeOK
<1> QED
  BY <1>1, ResolverInvariant, PTL

(* However foojay lags, servers fail and archives are republished, a lock    *)
(* only has checksums that its servers served during the run                 *)
(* (resolve.go:140-187, 238-342).                                            *)
THEOREM ChecksumsWereServed == Spec => []PinnedWasServed
<1>1. ResolverInv => PinnedWasServed
  <2> SUFFICES ASSUME ResolverInv PROVE PinnedWasServed
    OBVIOUS
  <2>1. \A url : Served(url) = ServedBy(url, since, host)
    BY DEF Served, ServedBy
  <2>2. run.lock \in Locks /\ LockFits(run.lock, run.manifest, since, host)
    BY RunsAreTyped DEF ResolverInv, RunFits
  <2>3. \A e \in ToSet(run.lock.jdk) : e.sum \in Served(e.build.url)
    BY <2>1, <2>2 DEF LockFits
  <2>4. ASSUME NEW e \in ToSet(run.lock.tools)
        PROVE  /\ e.sum \in Served(ToolUrl(e.request))
               /\ \A d \in ToSet(e.deps) : d.sum \in Served(d.url)
    <3>1. ToolFits(e, since, host)
      BY <2>2, <2>4 DEF LockFits
    <3>2. e.deps \in Seq(Dependency)
      BY <2>2, <2>4, ToolsInALock
    <3> QED
      BY <2>1, <3>1, <3>2, DepsAreTwo DEF ToolFits
  <2> QED
    BY <2>3, <2>4 DEF PinnedWasServed
<1> QED
  BY <1>1, ResolverInvariant, PTL

(* A locked build is the manifest's favourite among all that are usable, and *)
(* the coroutines have their old name only where there is no newer one,      *)
(* though errors are taken for the end of a list nowhere                     *)
(* (resolve.go:107-139, 299-311).                                             *)
THEOREM FavouritesAreLocked == Spec => []PreferredIsLocked
<1>1. ResolverInv => PreferredIsLocked
  <2> SUFFICES ASSUME ResolverInv PROVE PreferredIsLocked
    OBVIOUS
  <2>1. run.lock \in Locks /\ LockFits(run.lock, run.manifest, since, host)
    BY RunsAreTyped DEF ResolverInv, RunFits
  <2>2. \A e \in ToSet(run.lock.jdk) : Preferred(e, run.manifest)
    BY <2>1 DEF LockFits
  <2>3. ASSUME NEW e \in ToSet(run.lock.tools), NEW d \in ToSet(e.deps), d.url = PlainJar(e.request)
        PROVE  JvmJar(e.request) \in Absent
    <3>1. ToolFits(e, since, host)
      BY <2>1, <2>3 DEF LockFits
    <3>2. e.deps \in Seq(Dependency)
      BY <2>1, <2>3, ToolsInALock
    <3>3. d.url = StdlibJar(e.request) \/ IsCoroutines(d.url, e.request)
      BY <3>1, <3>2, DepsAreTwo DEF ToolFits
    <3> QED
      BY <2>3, <3>3 DEF IsCoroutines, PlainJar, JvmJar, StdlibJar
  <2> QED
    BY <2>2, <2>3 DEF Preferred, PreferredIsLocked
<1> QED
  BY <1>1, ResolverInvariant, PTL

-----------------------------------------------------------------------------
(* What is saved, and who reads it.                                          *)
LEMMA DescendingHasAll ==
  ASSUME NEW S \in SUBSET Nat, IsFiniteSet(S), NEW n \in S
  PROVE  /\ Cardinality(S) \in Nat /\ DOMAIN Descending(S) = 1..Cardinality(S)
         /\ Cardinality(Above(S, n)) + 1 \in 1..Cardinality(S)
         /\ Descending(S)[Cardinality(Above(S, n)) + 1] = n
<1> DEFINE above(k) == Above(S, k)
           rank == Cardinality(above(n))
<1>1. ASSUME NEW k PROVE IsFiniteSet(above(k)) /\ Cardinality(above(k)) \in Nat
  <2>1. above(k) \in SUBSET S
    BY DEF Above
  <2> HIDE DEF above
  <2> QED
    BY <2>1, FS_Subset, FS_CardinalityType
<1>2. Cardinality(S) \in Nat
  BY FS_CardinalityType
<1>3. rank \in Nat /\ rank < Cardinality(S)
  <2>1. above(n) \in SUBSET S /\ n \notin above(n)
    BY DEF Above
  <2> HIDE DEF above
  <2>2. rank <= Cardinality(S) /\ rank # Cardinality(S)
    BY <2>1, FS_Subset
  <2> QED
    BY <1>1, <1>2, <2>2
<1>4. ASSUME NEW k \in S, NEW l \in S, k < l
      PROVE  Cardinality(above(k)) # Cardinality(above(l))
  <2>1. \A j \in S : j > l => j > k
    BY <1>4
  <2>2. l > k /\ ~(l > l)
    BY <1>4
  <2>3. above(l) \in SUBSET above(k) /\ l \in above(k) /\ l \notin above(l)
    BY <2>1, <2>2 DEF Above
  <2>4. IsFiniteSet(above(k))
    BY <1>1
  <2> HIDE DEF above
  <2> QED
    BY <2>3, <2>4, FS_Subset
<1>5. \A k \in S : Cardinality(above(k)) = rank => k = n
  <2> SUFFICES ASSUME NEW k \in S, Cardinality(above(k)) = rank, k # n PROVE FALSE
    OBVIOUS
  <2>1. k < n \/ n < k
    OBVIOUS
  <2> HIDE DEF above
  <2> QED
    BY <1>4, <2>1
<1> HIDE DEF above
<1>6. rank + 1 \in 1..Cardinality(S) /\ (rank + 1) - 1 = rank
  BY <1>2, <1>3
<1>7. Descending(S)[rank + 1] = n
  <2> DEFINE at(k, i) == Cardinality(Above(S, k)) = i - 1
             nth(i) == CHOOSE k \in S : at(k, i)
  <2>1. Descending(S) = [i \in 1..Cardinality(S) |-> nth(i)]
    BY DEF Descending
  <2>2. \A k \in S : at(k, rank + 1) <=> k = n
    BY <1>5, <1>6 DEF above
  <2> HIDE DEF rank, at
  <2>3. nth(rank + 1) = n
    BY <2>2
  <2> HIDE DEF nth
  <2> QED
    BY <1>6, <2>1, <2>3
<1>8. DOMAIN Descending(S) = 1..Cardinality(S)
  BY DEF Descending
<1> QED
  BY <1>2, <1>6, <1>7, <1>8 DEF above

LEMMA VersionsAreFinite ==
  ASSUME NEW lock \in Locks
  PROVE  Versions(lock) \in SUBSET Nat /\ IsFiniteSet(Versions(lock))
<1> DEFINE Entry == [request : JDKRequest, build : ToSet(Builds), sum : Nat]
           jdk == lock.jdk
           n == Len(jdk)
           f == [i \in 1..n |-> jdk[i].request.major]
<1>1. jdk \in Seq(Entry)
  BY LockIsTyped
<1>2. Versions(lock) = {e.request.major : e \in ToSet(jdk)}
  BY DEF Versions
<1> HIDE DEF jdk, Entry
<1>3. n \in Nat /\ DOMAIN jdk = 1..n /\ \A i \in 1..n : jdk[i] \in Entry
  BY <1>1
<1>4. \A e \in Entry : e.request.major \in Nat
  BY DEF JDKRequest, Entry
<1> HIDE DEF n
<1>5. Versions(lock) \in SUBSET Nat
  BY <1>2, <1>3, <1>4 DEF ToSet
<1>6. f \in Surjection(1..n, Versions(lock))
  BY <1>2, <1>3 DEF ToSet, Surjection
<1>7. IsFiniteSet(1..n)
  BY <1>3, FS_Interval
<1> QED
  BY <1>5, <1>6, <1>7, FS_Surjection

(* Where a lock stands that has everything.                                 *)
Complete(lock, m, s, h) ==
  /\ m \in Manifests /\ Valid(m) /\ lock \in Locks
  /\ LockFits(lock, m, s, h)
  /\ JDKsIn(lock, m, Len(m.jdk))
  /\ ToolsIn(lock, m, <<>>)

LEMMA ToolsOfALock ==
  ASSUME NEW lock, NEW m, NEW s, NEW h, Complete(lock, m, s, h)
  PROVE  /\ Len(lock.tools) \in Nat /\ Len(lock.tools) = Len(Tools(m))
         /\ DOMAIN lock.tools = 1..Len(lock.tools)
         /\ \A i \in 1..Len(lock.tools) :
              /\ lock.tools[i].request = Tools(m)[i]
              /\ lock.tools[i].deps \in Seq(Dependency)
              /\ ToolFits(lock.tools[i], s, h)
<1> DEFINE tools == lock.tools
           all == Tools(m)
           Entry == [request : AnyTool, sum : Nat, deps : Seq(Dependency)]
<1>1. tools \in Seq(Entry)
  BY LockIsTyped DEF Complete
<1>2. /\ Len(tools) + Len(<<>>) = Len(all)
      /\ \A i \in 1..Len(tools) : tools[i].request = all[i]
  BY DEF Complete, ToolsIn
<1>3. \A e \in ToSet(tools) : ToolFits(e, s, h)
  BY DEF Complete, LockFits
<1> HIDE DEF tools, all, Entry
<1>4. Len(tools) \in Nat /\ DOMAIN tools = 1..Len(tools) /\ Len(<<>>) = 0
  BY <1>1
<1>5. Len(tools) = Len(all)
  BY <1>2, <1>4
<1>6. \A i \in 1..Len(tools) : tools[i] \in Entry /\ tools[i] \in ToSet(tools)
  BY <1>1, <1>4 DEF ToSet
<1>7. \A e \in Entry : e.deps \in Seq(Dependency)
  BY DEF Entry
<1> QED
  BY <1>2, <1>3, <1>4, <1>5, <1>6, <1>7 DEF tools, all

LEMMA CompleteHasEverything ==
  ASSUME NEW lock, NEW m, NEW s, NEW h, Complete(lock, m, s, h)
  PROVE  EverythingIsThere(lock, m)
<1>1. ASSUME NEW request \in ToSet(m.jdk)
      PROVE  \E e \in ToSet(lock.jdk) : e.request = request
  <2> DEFINE jdk == m.jdk
  <2>1. jdk \in Seq(JDKRequest)
    BY ManifestsAreTyped DEF Complete
  <2>2. \A i \in 1..Len(jdk) : \E e \in ToSet(lock.jdk) : e.request = jdk[i]
    BY DEF Complete, JDKsIn
  <2> HIDE DEF jdk
  <2>3. \E i \in 1..Len(jdk) : request = jdk[i]
    BY <1>1, <2>1 DEF ToSet, jdk
  <2> QED
    BY <2>2, <2>3
<1>2. [i \in DOMAIN lock.tools |-> lock.tools[i].request] = Tools(m)
  <2> DEFINE tools == lock.tools
             all == Tools(m)
  <2>1. all \in Seq(AnyTool)
    BY ToolsAreTyped DEF Complete
  <2>2. /\ Len(tools) \in Nat /\ Len(tools) = Len(all) /\ DOMAIN tools = 1..Len(tools)
        /\ \A i \in 1..Len(tools) : tools[i].request = all[i]
    BY ToolsOfALock
  <2> HIDE DEF tools, all
  <2>3. all = [i \in 1..Len(all) |-> all[i]]
    BY <2>1
  <2>4. [i \in DOMAIN tools |-> tools[i].request] = [i \in 1..Len(all) |-> all[i]]
    BY <2>2
  <2> QED
    BY <2>3, <2>4 DEF tools, all
<1>3. ASSUME NEW e \in ToSet(lock.tools), e.request.language = "kotlin"
      PROVE  Len(e.deps) = 2
  BY <1>3 DEF Complete, LockFits, ToolFits
<1> QED
  BY <1>1, <1>2, <1>3 DEF EverythingIsThere

LEMMA BasesAreLocked ==
  ASSUME NEW lock, NEW m, NEW s, NEW h, Complete(lock, m, s, h), NEW i \in 1..Len(lock.tools)
  PROVE  LET t == lock.tools[i].request IN
         t.jdk \in Versions(lock) /\ ToolBase(lock, t) = JDKImage(t.jdk)
<1> DEFINE t == lock.tools[i].request
           there == Architectures(lock, t.jdk)
<1>1. i \in 1..Len(Tools(m)) /\ t = Tools(m)[i]
  BY ToolsOfALock
<1>2. PICK k \in 1..Len(m.jdk) : m.jdk[k].major = t.jdk
  BY <1>1, ToolsAreSound DEF Complete
<1> HIDE DEF t
<1>3. PICK e \in ToSet(lock.jdk) : e.request = m.jdk[k]
  BY DEF Complete, JDKsIn
<1>4. e \in there
  BY <1>2, <1>3 DEF Architectures
<1>5. t.jdk \in Versions(lock)
  BY <1>2, <1>3 DEF Versions
<1>6. Representative(lock, t.jdk) \in there
  BY <1>4 DEF Representative
<1>7. Representative(lock, t.jdk).request.major = t.jdk
  BY <1>6 DEF Architectures
<1> QED
  BY <1>4, <1>5, <1>7 DEF ToolBase, t

LEMMA CompletePlans ==
  ASSUME NEW lock, NEW m, NEW s, NEW h, Complete(lock, m, s, h)
  PROVE  BasesComeFirst(Plan(lock, EveryPlatform))
<1> DEFINE planned == Descending(Versions(lock))
           k == Cardinality(Versions(lock))
           major(i) == planned[(i + 1) \div 2]
           tools == lock.tools
           n == Len(tools)
           P == [i \in 1..(2 * Len(planned)) |->
                  IF i % 2 = 1 THEN [image |-> JDKImage(major(i)), base |-> <<>>]
                  ELSE [image |-> SysclassImage(major(i)), base |-> JDKImage(major(i))]]
           Q == [i \in DOMAIN tools |-> [image |-> ToolImage(tools[i].request),
                                         base |-> ToolBase(lock, tools[i].request)]]
           plan == Plan(lock, EveryPlatform)
<1>1. {v \in Versions(lock) :
         \/ EveryPlatform = EveryPlatform
         \/ \E e \in Architectures(lock, v) : dockerArch(e.build.arch) = dockerArch(EveryPlatform)}
        = Versions(lock)
  OBVIOUS
<1>2. plan = P \o Q
  BY <1>1 DEF Plan
<1>3. Versions(lock) \in SUBSET Nat /\ IsFiniteSet(Versions(lock))
  BY VersionsAreFinite DEF Complete
<1>4. k \in Nat /\ DOMAIN planned = 1..k /\ planned = [j \in 1..k |-> planned[j]]
  BY <1>3, FS_CardinalityType DEF Descending
<1>5. \A v \in Versions(lock) : \E j \in 1..k : planned[j] = v
  BY <1>3, DescendingHasAll
<1>6. n \in Nat /\ DOMAIN tools = 1..n
  BY ToolsOfALock
<1>7. \A i \in 1..n : \E j \in 1..k : ToolBase(lock, tools[i].request) = JDKImage(planned[j])
  BY <1>5, BasesAreLocked
<1> HIDE DEF planned, k, tools, n
<1>8. Len(planned) = k
  <2>1. planned \in Seq({planned[j] : j \in 1..k})
    BY <1>4
  <2> QED
    BY <1>4, <2>1
<1> DEFINE kk == 2 * k
<1>9. kk \in Nat /\ \A j \in 1..k : 2 * j - 1 \in 1..kk /\ 2 * j \in 1..kk
  BY <1>4
\* The JDK of each version, and right after it what is read out of it.
<1>10. /\ DOMAIN P = 1..kk /\ DOMAIN Q = 1..n
       /\ \A i \in 1..n : Q[i].base = ToolBase(lock, tools[i].request)
  BY <1>6, <1>8
<1>11. \A j \in 1..k : P[2 * j - 1].image = JDKImage(planned[j])
  <2> SUFFICES ASSUME NEW j \in 1..k PROVE P[2 * j - 1].image = JDKImage(planned[j])
    OBVIOUS
  <2>1. 2 * j - 1 \in 1..(2 * Len(planned)) /\ (2 * j - 1) % 2 = 1 /\ (2 * j - 1 + 1) \div 2 = j
    BY <1>4, <1>8
  <2> QED
    BY <2>1
<1>12. ASSUME NEW i \in 1..kk, P[i].base # <<>>
       PROVE  i - 1 \in 1..kk /\ P[i - 1].image = P[i].base
  <2>1. i \in 1..(2 * Len(planned)) /\ i \in Nat \ {0}
    BY <1>4, <1>8
  <2>2. i % 2 # 1
    BY <1>12, <2>1
  <2>3. /\ i - 1 \in 1..(2 * Len(planned)) /\ i - 1 \in 1..kk
        /\ (i - 1) % 2 = 1 /\ ((i - 1) + 1) \div 2 = (i + 1) \div 2
    BY <1>4, <1>8, <2>1, <2>2
  <2>4. P[i].base = JDKImage(major(i))
    BY <2>1, <2>2
  <2>5. P[i - 1].image = JDKImage(major(i - 1))
    BY <2>3
  <2> QED
    BY <2>3, <2>4, <2>5
<1> DEFINE S == {P[j] : j \in 1..kk} \union {Q[i] : i \in 1..n}
<1>13. P = [j \in 1..kk |-> P[j]] /\ Q = [i \in 1..n |-> Q[i]]
  BY <1>6, <1>8
<1> HIDE DEF P, Q, kk
<1>14. P \in Seq(S) /\ Len(P) = kk
  BY <1>9, <1>10, <1>13 DEF S
<1>15. Q \in Seq(S) /\ Len(Q) = n
  BY <1>6, <1>10, <1>13 DEF S
<1> HIDE DEF S
<1>16. /\ DOMAIN plan = 1..(kk + n)
       /\ \A j \in 1..kk : plan[j] = P[j]
       /\ \A i \in 1..n : plan[kk + i] = Q[i]
  <2>1. plan \in Seq(S)
    BY <1>2, <1>14, <1>15, ConcatParts
  <2>2. Len(plan) = Len(P) + Len(Q)
    BY <1>2, <1>14, <1>15, ConcatParts
  <2>3. \A j \in 1..Len(P) : plan[j] = P[j]
    BY <1>2, <1>14, <1>15, ConcatParts
  <2>4. \A i \in 1..Len(Q) : plan[Len(P) + i] = Q[i]
    BY <1>2, <1>14, <1>15, ConcatParts
  <2> HIDE DEF plan
  <2>5. DOMAIN plan = 1..Len(plan)
    BY <2>1
  <2> QED
    BY <1>14, <1>15, <2>2, <2>3, <2>4, <2>5
<1> HIDE DEF plan
<1>17. ASSUME NEW i \in DOMAIN plan, plan[i].base # <<>>
       PROVE  \E j \in 1..(i - 1) : plan[j].image = plan[i].base
  <2>1. i \in 1..(kk + n)
    BY <1>16
  <2>2. CASE i \in 1..kk
    <3>1. i - 1 \in 1..kk /\ P[i - 1].image = P[i].base
      BY <1>12, <1>16, <1>17, <2>2
    <3>2. plan[i - 1].image = plan[i].base
      BY <1>16, <2>2, <3>1
    <3>3. i - 1 \in 1..(i - 1)
      BY <1>9, <2>2, <3>1
    <3> QED
      BY <3>2, <3>3
  <2>3. CASE i \notin 1..kk
    <3> DEFINE l == i - kk
    <3>1. l \in 1..n /\ i = kk + l
      BY <1>6, <1>9, <2>1, <2>3
    <3> HIDE DEF l
    <3>2. plan[i].base = ToolBase(lock, tools[l].request)
      BY <1>10, <1>16, <3>1
    <3>3. PICK j \in 1..k : ToolBase(lock, tools[l].request) = JDKImage(planned[j])
      BY <1>7, <3>1
    <3>4. 2 * j - 1 \in 1..kk
      BY <1>9
    <3>5. plan[2 * j - 1].image = plan[i].base
      BY <1>11, <1>16, <3>2, <3>3, <3>4
    <3>6. 2 * j - 1 \in 1..(i - 1)
      BY <1>6, <1>9, <2>1, <2>3, <3>4
    <3> QED
      BY <3>5, <3>6
  <2> QED
    BY <2>2, <2>3
<1> QED
  BY <1>17 DEF BasesComeFirst, plan

LEMMA CompleteNamesOnce ==
  ASSUME NEW lock, NEW m, NEW s, NEW h, Complete(lock, m, s, h)
  PROVE  JarsNamedOnce(lock)
<1> DEFINE tools == lock.tools
           all == Tools(m)
           kotlin == m.kotlin
<1> SUFFICES ASSUME NEW i \in DOMAIN tools, NEW j \in DOMAIN tools,
                    NEW d \in ToSet(tools[i].deps), NEW e \in ToSet(tools[j].deps),
                    tools[i].request.version = tools[j].request.version, d.name = e.name
             PROVE  d.url = e.url /\ d.sum = e.sum
  BY DEF JarsNamedOnce
<1>1. i \in 1..Len(all) /\ j \in 1..Len(all)
  BY ToolsOfALock
<1>2. /\ tools[i].request = all[i] /\ tools[j].request = all[j]
      /\ tools[i].deps \in Seq(Dependency) /\ tools[j].deps \in Seq(Dependency)
      /\ ToolFits(tools[i], s, h) /\ ToolFits(tools[j], s, h)
  BY ToolsOfALock
<1>3. \A deps \in Seq(Dependency) : Len(deps) = 0 => ToSet(deps) = {}
  BY DEF ToSet
<1>4. all[i].language = "kotlin" /\ all[j].language = "kotlin"
  BY <1>2, <1>3 DEF ToolFits
<1>5. i \in 1..Len(kotlin) /\ j \in 1..Len(kotlin)
  <2>1. kotlin \in Seq(ToolRequest({"kotlin"}))
    BY ManifestsAreTyped DEF Complete
  <2>2. i <= Len(kotlin) /\ j <= Len(kotlin)
    BY <1>1, <1>4, ToolsAreSound DEF Complete
  <2>3. Len(all) = Len(kotlin) + Len(m.groovy) /\ all \in Seq(AnyTool)
    BY ToolsAreTyped DEF Complete
  <2> HIDE DEF kotlin, all
  <2>4. Len(kotlin) \in Nat
    BY <2>1
  <2> QED
    BY <1>1, <2>2, <2>4
<1>6. all[i] = kotlin[i] /\ all[j] = kotlin[j]
  BY <1>5, ToolsAreTyped DEF Complete
<1>7. all[i] \in ToSet(all) /\ all[j] \in ToSet(all)
  BY <1>1, ToolsAreTyped DEF Complete, ToSet
<1>8. kotlin[i].line = kotlin[j].line
  BY <1>2, <1>6, <1>7, ResolverAssumption DEF Complete, ResolverAssumption
<1>9. i = j
  <2>1. DOMAIN kotlin = 1..Len(kotlin)
    BY ManifestsAreTyped DEF Complete
  <2> QED
    BY <1>5, <1>8, <2>1 DEF Complete, Valid, DistinctLines
<1>10. d = e
  BY <1>2, <1>9, DepsAreTwo DEF ToolFits
<1> QED
  BY <1>10

(* The catalog of a lock that has everything.                                *)
LEMMA DescendingIs ==
  ASSUME NEW S \in SUBSET Nat, IsFiniteSet(S)
  PROVE  LET d == Descending(S)
             n == Cardinality(S)
         IN  /\ n \in Nat /\ d \in Seq(S) /\ Len(d) = n /\ DOMAIN d = 1..n
             /\ \A s \in S : \E i \in 1..n : d[i] = s
             /\ \A i, j \in 1..n : i < j => d[i] > d[j]
<1> DEFINE d == Descending(S)
           n == Cardinality(S)
           above(s) == Cardinality(Above(S, s))
           f == [s \in S |-> above(s) + 1]
<1>1. n \in Nat
  BY FS_CardinalityType
<1>2. \A s \in S : above(s) + 1 \in 1..n /\ d[above(s) + 1] = s
  BY DescendingHasAll
<1>3. d = [i \in 1..n |-> d[i]] /\ DOMAIN d = 1..n
  BY DEF Descending
<1>4. ASSUME NEW s \in S, NEW t \in S, s <= t PROVE above(t) <= above(s)
  <2> DEFINE A == Above(S, s)
             B == Above(S, t)
  <2>4. \A k \in S : k > t => k > s
    BY <1>4
  <2>1. A \in SUBSET S /\ B \in SUBSET A
    BY <2>4 DEF Above
  <2> HIDE DEF A, B
  <2>2. IsFiniteSet(A)
    BY <2>1, FS_Subset
  <2>3. Cardinality(B) <= Cardinality(A)
    BY <2>1, <2>2, FS_Subset
  <2> QED
    BY <2>3 DEF A, B
<1>5. \A s \in S : above(s) \in Nat
  <2> TAKE s \in S
  <2>1. Above(S, s) \in SUBSET S
    BY DEF Above
  <2> QED
    BY <2>1, FS_Subset, FS_CardinalityType
<1> HIDE DEF d, n, above
<1>6. f \in [S -> 1..n] /\ \A s \in S : d[f[s]] = s
  BY <1>2
<1>7. f \in Injection(S, 1..n)
  BY <1>6 DEF Injection, IsInjective
<1>8. IsFiniteSet(1..n) /\ Cardinality(1..n) = n
  BY <1>1, FS_Interval
<1>9. f \in Surjection(S, 1..n)
  BY <1>7, <1>8, FS_Injection DEF n
<1>10. \A i \in 1..n : \E s \in S : f[s] = i
  BY <1>9 DEF Surjection
<1>11. \A i \in 1..n : d[i] \in S /\ above(d[i]) + 1 = i
  BY <1>2, <1>6, <1>10
<1>12. d \in Seq(S) /\ Len(d) = n
  BY <1>1, <1>3, <1>11
<1>13. ASSUME NEW i \in 1..n, NEW j \in 1..n, i < j PROVE d[i] > d[j]
  <2> DEFINE s == d[i]
             t == d[j]
  <2>1. s \in S /\ t \in S /\ above(s) + 1 = i /\ above(t) + 1 = j
    BY <1>11
  <2>2. s \in Nat /\ t \in Nat /\ above(s) \in Nat /\ above(t) \in Nat
    BY <1>5, <2>1
  <2> HIDE DEF s, t
  <2>3. ~(above(t) <= above(s))
    BY <1>13, <2>1, <2>2
  <2>4. ~(s <= t)
    BY <1>4, <2>1, <2>3
  <2>5. s > t
    BY <2>2, <2>4
  <2> QED
    BY <2>5 DEF s, t
<1>14. \A s \in S : \E i \in 1..n : d[i] = s
  BY <1>2
<1> QED
  BY <1>1, <1>3, <1>12, <1>13, <1>14 DEF d, n

LEMMA DescendingInterval ==
  ASSUME NEW a \in Nat, NEW k \in Nat
  PROVE  LET d == Descending((a + 1)..(a + k))
         IN  DOMAIN d = 1..k /\ \A i \in 1..k : d[i] = a + (k - i + 1)
<1> DEFINE S == (a + 1)..(a + k)
           d == Descending(S)
<1>1. S \in SUBSET Nat /\ IsFiniteSet(S) /\ Cardinality(S) = k
  <2>1. IsFiniteSet(S) /\ Cardinality(S) = IF a + 1 > a + k THEN 0 ELSE (a + k) - (a + 1) + 1
    BY FS_Interval
  <2> HIDE DEF S
  <2> QED
    BY <2>1 DEF S
<1>2. DOMAIN d = 1..k
  BY <1>1 DEF Descending
<1>3. ASSUME NEW i \in 1..k PROVE d[i] = a + (k - i + 1)
  <2> DEFINE s == a + (k - i + 1)
  <2>1. s \in S /\ s \in Nat
    OBVIOUS
  <2>2. Above(S, s) = (s + 1)..(a + k)
    BY <2>1 DEF Above
  <2>3. Cardinality(Above(S, s)) = IF s + 1 > a + k THEN 0 ELSE (a + k) - (s + 1) + 1
    BY <2>1, <2>2, FS_Interval
  <2>4. Cardinality(Above(S, s)) = i - 1
    BY <2>3
  <2> HIDE DEF s, S
  <2>5. d[Cardinality(Above(S, s)) + 1] = s
    BY <1>1, <2>1, DescendingHasAll
  <2>6. Cardinality(Above(S, s)) + 1 = i
    BY <2>4
  <2> QED
    BY <2>5, <2>6 DEF s
<1> QED
  BY <1>2, <1>3

(* Levels are spelled in one way each.                                       *)
LEMMA TargetsAreLevels ==
  ASSUME NEW floor \in Nat, NEW ceiling \in Seq(Nat)
  PROVE  /\ Targets(floor, ceiling) \in Seq(Seq(Nat))
         /\ Targets(floor, ceiling) # <<>>
         /\ IsInjective(Targets(floor, ceiling))
<1>1. CASE ~IsLevel(ceiling) \/ ParseLevel(ceiling) < floor
  <2>1. Targets(floor, ceiling) = <<ceiling>>
    BY <1>1 DEF Targets
  <2> QED
    BY <2>1 DEF IsInjective
<1>2. CASE IsLevel(ceiling) /\ ~(ParseLevel(ceiling) < floor)
  <2> DEFINE top == ParseLevel(ceiling)
             n == top - floor + 1
             t == [i \in 1..n |-> Spelled(top - i + 1)]
  <2>1. top \in Nat
    <3>2. Len(ceiling) \in {1, 2} /\ DOMAIN ceiling = 1..Len(ceiling)
      BY <1>2 DEF IsLevel
    <3>1. Len(ceiling) \in DOMAIN ceiling
      BY <3>2
    <3> QED
      BY <3>1 DEF ParseLevel
  <2>2. Targets(floor, ceiling) = t
    BY <1>2 DEF Targets
  <2> HIDE DEF top
  <2>3. n \in Nat \ {0}
    BY <1>2, <2>1 DEF top
  <2>4. \A i \in 1..n : top - i + 1 \in Nat
    BY <2>1
  <2>5. \A l \in Nat : Spelled(l) \in Seq(Nat)
    BY DEF Spelled
  <2>6. \A k, l \in Nat : Spelled(k) = Spelled(l) => k = l
    BY DEF Spelled
  <2>7. \A i, j \in 1..n : top - i + 1 = top - j + 1 => i = j
    BY <2>1
  <2> HIDE DEF n
  <2>8. t \in Seq(Seq(Nat)) /\ Len(t) = n /\ DOMAIN t = 1..n
    BY <2>3, <2>4, <2>5
  <2>9. t # <<>>
    BY <2>3, <2>8
  <2>10. IsInjective(t)
    BY <2>4, <2>6, <2>7 DEF IsInjective
  <2> QED
    BY <2>2, <2>8, <2>9, <2>10
<1> QED
  BY <1>1, <1>2

(* Whichever build stands for a version, what is read from it is what the    *)
(* manifest says of the version.                                             *)
LEMMA RepresentativesAre ==
  ASSUME NEW lock, NEW m, NEW s, NEW h, Complete(lock, m, s, h)
  PROVE  /\ \A v \in Versions(lock) : \E q \in ToSet(m.jdk) :
              q.major = v /\ Representative(lock, v).request = q
         /\ \A q \in ToSet(m.jdk) :
              q.major \in Versions(lock) /\ Representative(lock, q.major).request = q
<1> DEFINE jdk == m.jdk
           there(v) == Architectures(lock, v)
<1>1. jdk \in Seq(JDKRequest) /\ DOMAIN jdk = 1..Len(jdk)
  BY ManifestsAreTyped DEF Complete
<1>2. \A e \in ToSet(lock.jdk) : e.request \in ToSet(jdk)
  BY DEF Complete, LockFits
<1>3. \A i \in 1..Len(jdk) : \E e \in ToSet(lock.jdk) : e.request = jdk[i]
  BY DEF Complete, JDKsIn
<1>4. \A i, j \in DOMAIN jdk : jdk[i].major = jdk[j].major => i = j
  BY DEF Complete, Valid
<1> HIDE DEF jdk
<1>5. \A p, q \in ToSet(jdk) : p.major = q.major => p = q
  BY <1>4 DEF ToSet
<1>6. ASSUME NEW v \in Versions(lock)
      PROVE  Representative(lock, v).request \in ToSet(jdk) /\ Representative(lock, v).request.major = v
  <2>1. \E e \in ToSet(lock.jdk) : e.request.major = v
    BY DEF Versions
  <2>2. there(v) # {}
    BY <2>1 DEF Architectures
  <2>3. Representative(lock, v) \in there(v)
    BY <2>2 DEF Representative
  <2>4. Representative(lock, v) \in ToSet(lock.jdk) /\ Representative(lock, v).request.major = v
    BY <2>3 DEF Architectures
  <2> QED
    BY <1>2, <2>4
<1>7. ASSUME NEW q \in ToSet(jdk) PROVE q.major \in Versions(lock)
  <2>1. PICK i \in 1..Len(jdk) : q = jdk[i]
    BY <1>1, <1>7 DEF ToSet
  <2>2. PICK e \in ToSet(lock.jdk) : e.request = q
    BY <1>3, <2>1
  <2> QED
    BY <2>2 DEF Versions
<1>8. \A v \in Versions(lock) : \E q \in ToSet(jdk) : q.major = v /\ Representative(lock, v).request = q
  BY <1>6
<1>9. \A q \in ToSet(jdk) : q.major \in Versions(lock) /\ Representative(lock, q.major).request = q
  BY <1>5, <1>6, <1>7
<1> QED
  BY <1>8, <1>9 DEF jdk

LEMMA JDKsAreOffered ==
  ASSUME NEW lock, NEW m, NEW s, NEW h, Complete(lock, m, s, h)
  PROVE  LET java == FromLock(lock)["java"]
         IN  /\ IsChain(java, {"java"} \X Nat)
             /\ OffersJDKs(java, m.jdk)
             /\ \A v \in Versions(lock) : \E r \in ToSet(java) : r.major = v
<1> DEFINE V == Versions(lock)
           d == Majors(lock)
           n == Cardinality(V)
           q(i) == Representative(lock, d[i]).request
           jdk == m.jdk
           java == JavaReleases(lock)
           levels(i) == Targets(q(i).floor, <<q(i).major>>)
           Entry == [id : {"java"} \X Nat, targets : Seq(Seq(Nat)), default : BOOLEAN, major : Nat,
                     preview : BOOLEAN, flag : BOOLEAN]
<1>1. V \in SUBSET Nat /\ IsFiniteSet(V)
  BY VersionsAreFinite DEF Complete
<1>2. /\ n \in Nat /\ d \in Seq(V) /\ Len(d) = n /\ DOMAIN d = 1..n
      /\ \A v \in V : \E i \in 1..n : d[i] = v
      /\ \A i, j \in 1..n : i < j => d[i] > d[j]
  BY <1>1, DescendingIs DEF Majors
<1>3. jdk \in Seq(JDKRequest)
  BY ManifestsAreTyped DEF Complete
<1>4. /\ \A v \in V : \E p \in ToSet(jdk) : p.major = v /\ Representative(lock, v).request = p
      /\ \A p \in ToSet(jdk) : p.major \in V /\ Representative(lock, p.major).request = p
  BY RepresentativesAre
<1>5. FromLock(lock)["java"] = java
  BY DEF FromLock
<1>6. java = [i \in 1..n |->
        [id |-> <<"java", q(i).major>>, targets |-> levels(i), default |-> i = 1,
         major |-> q(i).major, preview |-> q(i).preview, flag |-> q(i).flag]]
  BY <1>2 DEF JavaReleases
<1> HIDE DEF V, d, n, jdk
<1>7. \A i \in 1..n : d[i] \in V
  BY <1>2
<1>8. \A i \in 1..n : q(i) \in ToSet(jdk) /\ q(i).major = d[i]
  BY <1>4, <1>7
<1>9. ToSet(jdk) \subseteq JDKRequest
  BY <1>3 DEF ToSet
<1> HIDE DEF q, java
<1>10. ASSUME NEW i \in 1..n
       PROVE  /\ q(i) \in ToSet(jdk) /\ q(i).major = d[i] /\ d[i] \in Nat
              /\ q(i).floor \in Nat /\ q(i).preview \in BOOLEAN /\ q(i).flag \in BOOLEAN
  BY <1>1, <1>7, <1>8, <1>9 DEF JDKRequest
<1>11. ASSUME NEW i \in 1..n
       PROVE  levels(i) \in Seq(Seq(Nat)) /\ levels(i) # <<>> /\ IsInjective(levels(i))
  <2>1. <<q(i).major>> \in Seq(Nat) /\ q(i).floor \in Nat
    BY <1>10
  <2> QED
    BY <2>1, TargetsAreLevels
<1> HIDE DEF levels
<1>12. ASSUME NEW i \in 1..n
       PROVE  /\ java[i] = [id |-> <<"java", d[i]>>, targets |-> levels(i), default |-> i = 1,
                            major |-> d[i], preview |-> q(i).preview, flag |-> q(i).flag]
              /\ java[i] \in Entry
  BY <1>6, <1>10, <1>11
<1>13. java \in Seq(Entry) /\ DOMAIN java = 1..n
  <2>1. DOMAIN java = 1..n /\ java = [i \in 1..n |-> java[i]]
    BY <1>6
  <2>2. \A i \in 1..n : java[i] \in Entry
    BY <1>12
  <2> HIDE DEF Entry
  <2> QED
    BY <1>2, <2>1, <2>2
<1>14. ASSUME NEW i \in 1..n
       PROVE  /\ java[i].id = <<"java", d[i]>> /\ java[i].major = d[i]
              /\ java[i].targets = levels(i)
              /\ java[i].preview = q(i).preview /\ java[i].flag = q(i).flag
  <2>1. java[i] = [id |-> <<"java", d[i]>>, targets |-> levels(i), default |-> i = 1,
                   major |-> d[i], preview |-> q(i).preview, flag |-> q(i).flag]
    BY <1>12
  <2> DEFINE r == java[i]
             first == i = 1
             v == d[i]
             l == levels(i)
             preview == q(i).preview
             flag == q(i).flag
  <2>2. r = [id |-> <<"java", v>>, targets |-> l, default |-> first,
             major |-> v, preview |-> preview, flag |-> flag]
    BY <2>1
  <2> HIDE DEF r, first, v, l, preview, flag
  <2>3. /\ r.id = <<"java", v>> /\ r.major = v /\ r.targets = l
        /\ r.preview = preview /\ r.flag = flag
    BY <2>2
  <2> QED
    BY <2>3 DEF r, v, l, preview, flag
<1>15. \A i, j \in 1..n : java[i].id = java[j].id => i = j
  <2> SUFFICES ASSUME NEW i \in 1..n, NEW j \in 1..n, java[i].id = java[j].id, i # j PROVE FALSE
    OBVIOUS
  <2>1. d[i] = d[j]
    BY <1>14
  <2>2. i < j \/ j < i
    BY <1>2
  <2>3. d[i] > d[j] \/ d[j] > d[i]
    BY <1>2, <2>2
  <2> QED
    BY <1>10, <2>1, <2>3
<1>16. IsChain(java, {"java"} \X Nat)
  BY <1>11, <1>13, <1>14, <1>15 DEF IsChain
<1>17. \A v \in V : \E r \in ToSet(java) : r.major = v
  <2> TAKE v \in V
  <2>1. PICK i \in 1..n : d[i] = v
    BY <1>2
  <2>2. java[i].major = v
    BY <1>14, <2>1
  <2>3. java[i] \in ToSet(java)
    BY <1>13 DEF ToSet
  <2> QED
    BY <2>2, <2>3
<1>18. OffersJDKs(java, jdk)
  <2> DEFINE seen(r) == [id |-> r.id, major |-> r.major, preview |-> r.preview, flag |-> r.flag]
             asked(p) == [id |-> <<"java", p.major>>, major |-> p.major, preview |-> p.preview,
                          flag |-> p.flag]
  <2>1. \A i \in 1..n : seen(java[i]) = asked(q(i))
    BY <1>10, <1>14
  <2>2. \A p \in ToSet(jdk) : \E i \in 1..n : q(i) = p
    BY <1>2, <1>4 DEF q
  <2> HIDE DEF seen, asked
  <2>3. {seen(r) : r \in ToSet(java)} = {asked(p) : p \in ToSet(jdk)}
    <3>1. \A r \in ToSet(java) : \E p \in ToSet(jdk) : seen(r) = asked(p)
      BY <1>10, <1>13, <2>1 DEF ToSet
    <3>2. \A p \in ToSet(jdk) : \E r \in ToSet(java) : seen(r) = asked(p)
      BY <1>13, <2>1, <2>2 DEF ToSet
    <3> QED
      BY <3>1, <3>2
  <2>4. \A i, j \in DOMAIN java : i < j => java[i].major > java[j].major
    <3>1. \A i, j \in 1..n : i < j => d[i] > d[j]
      BY <1>2
    <3>2. \A i \in 1..n : java[i].major = d[i]
      BY <1>14
    <3>3. DOMAIN java = 1..n
      BY <1>13
    <3> QED
      BY <3>1, <3>2, <3>3
  <2> QED
    BY <2>3, <2>4 DEF OffersJDKs, seen, asked
<1> QED
  BY <1>5, <1>16, <1>17, <1>18 DEF jdk, V

(* The tools of a language are a stretch of the lock, after the first a.     *)
LEMMA ToolsAreOffered ==
  ASSUME NEW lock, NEW m, NEW s, NEW h, Complete(lock, m, s, h),
         NEW language, NEW tools \in Seq(ToolRequest({language})), NEW a \in Nat,
         \A i \in DOMAIN lock.tools :
           lock.tools[i].request.language = language <=> i \in (a + 1)..(a + Len(tools)),
         \A i \in 1..Len(tools) : a + i \in 1..Len(lock.tools) /\ lock.tools[a + i].request = tools[i],
         \A i, j \in 1..Len(tools) : tools[i].version = tools[j].version => i = j,
         NEW java, \A v \in Versions(lock) : \E r \in ToSet(java) : r.major = v
  PROVE  LET chain == ToolReleases(lock, language)
         IN  IsChain(chain, {language} \X STRING) /\ OffersTools(chain, language, tools, java)
<1> DEFINE k == Len(tools)
           d == Descending((a + 1)..(a + k))
           t(i) == tools[k - i + 1]
           chain == ToolReleases(lock, language)
           release(u) ==
             [id |-> <<language, u.version>>, targets |-> Targets(8, u.max), default |-> u.default,
              major |-> u.jdk, preview |-> FALSE, flag |-> FALSE]
           Entry == [id : {language} \X STRING, targets : Seq(Seq(Nat)), default : BOOLEAN,
                     major : Nat, preview : BOOLEAN, flag : BOOLEAN]
<1>1. k \in Nat /\ DOMAIN tools = 1..k
  OBVIOUS
<1>2. DOMAIN lock.tools = 1..Len(lock.tools) /\ Len(lock.tools) \in Nat
  BY ToolsOfALock
<1>3. {i \in DOMAIN lock.tools : lock.tools[i].request.language = language} = (a + 1)..(a + k)
  <2>1. \A i \in (a + 1)..(a + k) : i - a \in 1..k /\ a + (i - a) = i
    BY <1>1
  <2>2. \A i \in (a + 1)..(a + k) : i \in DOMAIN lock.tools
    BY <1>2, <2>1
  <2> QED
    BY <2>2
<1>4. DOMAIN d = 1..k /\ \A i \in 1..k : d[i] = a + (k - i + 1)
  BY <1>1, DescendingInterval
<1>5. chain = [i \in DOMAIN d |-> release(lock.tools[d[i]].request)]
  BY <1>3 DEF ToolReleases
<1> HIDE DEF d, chain, release
<1>6. ASSUME NEW i \in 1..k
      PROVE  k - i + 1 \in 1..k /\ lock.tools[d[i]].request = t(i) /\ t(i) \in ToolRequest({language})
  <2>1. k - i + 1 \in 1..k
    BY <1>1
  <2>2. lock.tools[a + (k - i + 1)].request = tools[k - i + 1]
    BY <2>1
  <2>3. tools[k - i + 1] \in ToolRequest({language})
    BY <1>1, <2>1
  <2> QED
    BY <1>4, <2>1, <2>2, <2>3
<1> HIDE DEF t
<1>7. DOMAIN chain = 1..k /\ \A i \in 1..k : chain[i] = release(t(i))
  BY <1>4, <1>5, <1>6
<1>8. ASSUME NEW u \in ToolRequest({language})
      PROVE  /\ release(u) \in Entry
             /\ release(u).id = <<language, u.version>> /\ release(u).major = u.jdk
             /\ release(u).targets # <<>> /\ IsInjective(release(u).targets)
  <2> DEFINE levels == Targets(8, u.max)
  <2>1. /\ u.version \in STRING /\ u.max \in Seq(Nat) /\ u.default \in BOOLEAN /\ u.jdk \in Nat
    BY DEF ToolRequest
  <2>2. levels \in Seq(Seq(Nat)) /\ levels # <<>> /\ IsInjective(levels)
    BY <2>1, TargetsAreLevels
  <2> HIDE DEF levels
  <2>3. release(u) = [id |-> <<language, u.version>>, targets |-> levels, default |-> u.default,
                      major |-> u.jdk, preview |-> FALSE, flag |-> FALSE]
    BY DEF release, levels
  <2> QED
    BY <2>1, <2>2, <2>3
<1>10. ASSUME NEW i \in 1..k
       PROVE  /\ chain[i] \in Entry
              /\ chain[i].id = <<language, t(i).version>> /\ chain[i].major = t(i).jdk
              /\ chain[i].targets # <<>> /\ IsInjective(chain[i].targets)
  <2> DEFINE u == t(i)
  <2>1. u \in ToolRequest({language}) /\ chain[i] = release(u)
    BY <1>6, <1>7
  <2> HIDE DEF u, Entry
  <2>2. /\ release(u) \in Entry
        /\ release(u).id = <<language, u.version>> /\ release(u).major = u.jdk
        /\ release(u).targets # <<>> /\ IsInjective(release(u).targets)
    BY <1>8, <2>1
  <2> QED
    BY <2>1, <2>2 DEF u
<1>9. chain \in Seq(Entry)
  <2>1. \A i \in 1..k : chain[i] \in Entry
    BY <1>10
  <2>2. chain = [i \in 1..k |-> chain[i]]
    BY <1>5, <1>4
  <2>3. k \in Nat
    BY <1>1
  <2> HIDE DEF Entry, k
  <2>4. [i \in 1..k |-> chain[i]] \in Seq(Entry)
    BY <2>1, <2>3
  <2> QED
    BY <2>2, <2>4
<1>11. \A i, j \in 1..k : chain[i].id = chain[j].id => i = j
  <2> TAKE i, j \in 1..k
  <2> HAVE chain[i].id = chain[j].id
  <2>1. t(i).version = t(j).version
    BY <1>10
  <2>2. k - i + 1 \in 1..k /\ k - j + 1 \in 1..k
    BY <1>6
  <2>3. k - i + 1 = k - j + 1
    BY <2>1, <2>2 DEF t
  <2> QED
    BY <1>1, <2>3
<1>12. IsChain(chain, {language} \X STRING)
  BY <1>7, <1>9, <1>10, <1>11 DEF IsChain
<1>13. ASSUME NEW i \in 1..k PROVE \E r \in ToSet(java) : r.major = t(i).jdk
  <2>1. a + (k - i + 1) \in 1..Len(lock.tools) /\ lock.tools[a + (k - i + 1)].request = t(i)
    BY <1>6 DEF t
  <2>2. t(i).jdk \in Versions(lock)
    BY <2>1, BasesAreLocked
  <2> QED
    BY <2>2
<1>14. OffersTools(chain, language, tools, java)
  BY <1>1, <1>7, <1>10, <1>13 DEF OffersTools, t
<1> QED
  BY <1>12, <1>14 DEF chain

LEMMA CompleteFillsTheCatalog ==
  ASSUME NEW lock, NEW m, NEW s, NEW h, Complete(lock, m, s, h)
  PROVE  CatalogServes(lock, m)
<1> DEFINE java == FromLock(lock)["java"]
           all == Tools(m)
           kotlin == m.kotlin
           groovy == m.groovy
           k == Len(kotlin)
           g == Len(groovy)
           tools == lock.tools
<1>1. /\ IsChain(java, {"java"} \X Nat) /\ OffersJDKs(java, m.jdk)
      /\ \A v \in Versions(lock) : \E r \in ToSet(java) : r.major = v
  BY JDKsAreOffered
<1>2. kotlin \in Seq(ToolRequest({"kotlin"})) /\ groovy \in Seq(ToolRequest({"groovy"}))
  BY ManifestsAreTyped DEF Complete
<1>3. /\ Len(all) = k + g
      /\ \A i \in 1..k : all[i] = kotlin[i]
      /\ \A i \in 1..g : all[k + i] = groovy[i]
  BY ToolsAreTyped DEF Complete
<1>4. /\ Len(tools) = Len(all) /\ DOMAIN tools = 1..Len(tools)
      /\ \A i \in 1..Len(tools) : tools[i].request = all[i]
  BY ToolsOfALock
<1>5. \A i \in 1..Len(all) : /\ all[i].language \in {"kotlin", "groovy"}
                             /\ all[i].language = "kotlin" <=> i <= k
  BY ToolsAreSound DEF Complete
<1>6. DistinctLines(kotlin) /\ DistinctLines(groovy) /\ m \in Manifests
  BY DEF Complete, Valid
<1>7. \A t, u \in ToSet(all) : t.version = u.version => t.line = u.line
  BY <1>6, ResolverAssumption DEF ResolverAssumption
<1>8. all \in Seq(AnyTool)
  BY <1>6, ToolsAreTyped
<1> HIDE DEF java, all, kotlin, groovy, tools
<1>9. k \in Nat /\ g \in Nat /\ DOMAIN kotlin = 1..k /\ DOMAIN groovy = 1..g
  BY <1>2
<1> HIDE DEF k, g
<1>10. \A i \in 1..(k + g) : all[i] \in ToSet(all)
  BY <1>3, <1>8 DEF ToSet
<1>11. \A i, j \in 1..k : kotlin[i].version = kotlin[j].version => i = j
  <2> TAKE i, j \in 1..k
  <2>1. all[i] = kotlin[i] /\ all[j] = kotlin[j] /\ i \in 1..(k + g) /\ j \in 1..(k + g)
    BY <1>3, <1>9
  <2>2. kotlin[i].version = kotlin[j].version => kotlin[i].line = kotlin[j].line
    BY <1>7, <1>10, <2>1
  <2> QED
    BY <1>6, <1>9, <2>2 DEF DistinctLines
<1>12. \A i, j \in 1..g : groovy[i].version = groovy[j].version => i = j
  <2> TAKE i, j \in 1..g
  <2>1. /\ all[k + i] = groovy[i] /\ all[k + j] = groovy[j]
        /\ k + i \in 1..(k + g) /\ k + j \in 1..(k + g)
    BY <1>3, <1>9
  <2>2. groovy[i].version = groovy[j].version => groovy[i].line = groovy[j].line
    BY <1>7, <1>10, <2>1
  <2> QED
    BY <1>6, <1>9, <2>2 DEF DistinctLines
<1>13. DOMAIN tools = 1..(k + g) /\ Len(tools) = k + g
  BY <1>3, <1>4
<1>14. /\ IsChain(ToolReleases(lock, "kotlin"), {"kotlin"} \X STRING)
       /\ OffersTools(ToolReleases(lock, "kotlin"), "kotlin", kotlin, java)
  <2>1. \A i \in DOMAIN tools : tools[i].request.language = "kotlin" <=> i \in (0 + 1)..(0 + k)
    BY <1>3, <1>4, <1>5, <1>9, <1>13
  <2>2. \A i \in 1..k : 0 + i \in 1..Len(tools) /\ tools[0 + i].request = kotlin[i]
    BY <1>3, <1>4, <1>9, <1>13
  <2> QED
    BY <1>1, <1>2, <1>11, <2>1, <2>2, ToolsAreOffered DEF tools, k
<1>15. /\ IsChain(ToolReleases(lock, "groovy"), {"groovy"} \X STRING)
       /\ OffersTools(ToolReleases(lock, "groovy"), "groovy", groovy, java)
  <2>1. \A i \in DOMAIN tools : tools[i].request.language = "groovy" <=> i \in (k + 1)..(k + g)
    BY <1>3, <1>4, <1>5, <1>9, <1>13
  <2>2. \A i \in 1..g : k + i \in 1..Len(tools) /\ tools[k + i].request = groovy[i]
    BY <1>3, <1>4, <1>9, <1>13
  <2> QED
    BY <1>1, <1>2, <1>9, <1>12, <2>1, <2>2, ToolsAreOffered DEF tools, g
<1>16. /\ FromLock(lock)["java"] = java
       /\ FromLock(lock)["kotlin"] = ToolReleases(lock, "kotlin")
       /\ FromLock(lock)["groovy"] = ToolReleases(lock, "groovy")
  BY DEF FromLock, java
<1> QED
  BY <1>1, <1>14, <1>15, <1>16 DEF CatalogServes, kotlin, groovy

(* What is saved has every version and tool of the manifest, a plan in which *)
(* the base of each image comes before it, one content for every path of a   *)
(* jar, and a catalog in which every release has an ID of its own, levels to *)
(* choose from and a JDK that is offered: whatever went wrong in between     *)
(* (Resolve, resolve.go:38-81; validate, manifest.go:159-195; plan,          *)
(* toolchainctl/main.go:122-192; FromLock, catalog.go:65-72).                *)
THEOREM SavedLocksServe == Spec => []SavedServesItsReaders
<1>1. ResolverInv => SavedServesItsReaders
  <2> SUFFICES ASSUME ResolverInv, Saving PROVE SavedServesItsReaders
    BY DEF SavedServesItsReaders
  <2>1. RunFits(pc, run, since, host) /\ pc \in {"save", "write"}
    BY DEF ResolverInv, Saving
  <2>2. Complete(run.lock, run.manifest, since, host)
    BY <2>1, RunsAreTyped DEF RunFits, ToolsFit, Complete
  <2> QED
    BY <2>2, CompleteHasEverything, CompletePlans, CompleteNamesOnce, CompleteFillsTheCatalog
       DEF SavedServesItsReaders
<1> QED
  BY <1>1, ResolverInvariant, PTL

-----------------------------------------------------------------------------
(* An interrupted run. Its JDKs lead on to the tools, of which each needs an  *)
(* answer it does not get any more.                                          *)
LEMMA NextRequestLeadsOn ==
  ASSUME NEW r \in Runs, Tools(r.manifest) # <<>>, NextRequest(r)
  PROVE  pc' \notin {"save", "write"}
<1>1. CASE r.todo = <<>>
  <2> DEFINE r2 == [r EXCEPT !.todo = Tools(r.manifest)]
  <2>1. NextTool(r2) /\ r2.todo # <<>>
    BY <1>1 DEF NextRequest, Runs
  <2> QED
    BY <2>1 DEF NextTool, Goto
<1> QED
  BY <1>1 DEF NextRequest, Goto

LEMMA NextArchLeadsOn ==
  ASSUME NEW r \in Runs, Tools(r.manifest) # <<>>, JDKsFit(r), r.todo # <<>>, NextArch(r)
  PROVE  pc' \notin {"save", "write"}
<1> DEFINE r2 == [r EXCEPT !.todo = Tail(@), !.offers = {}, !.sum = Nil]
<1>1. CASE NextRequest(r2)
  <2>1. Tail(r.todo) \in Seq(JDKRequest)
    BY DEF JDKsFit
  <2>2. r2 \in Runs /\ r2.manifest = r.manifest
    BY <2>1 DEF Runs
  <2> HIDE DEF r2
  <2> QED
    BY <1>1, <2>2, NextRequestLeadsOn
<1> HIDE DEF r2
<1> QED
  BY <1>1 DEF NextArch, Stop, Goto, r2

LEMMA JDKsLeadOn ==
  ASSUME ResolverInv, Tools(run.manifest) # <<>>, Packages \/ Detail \/ Digest \/ Hash
  PROVE  pc' \notin {"save", "write"}
<1>1. pc \in OnJDKs
  BY DEF Packages, Detail, Digest, Hash, OnJDKs
<1>2. run \in Runs /\ JDKsFit(run) /\ run.todo # <<>>
  BY <1>1 DEF ResolverInv, RunFits
<1>3. ArchFails => pc' \notin {"save", "write"}
  BY <1>2, NextArchLeadsOn DEF ArchFails
<1>4. ASSUME pc \in {"digest", "hash"}, NEW sum \in Nat, EnterJDK(sum)
      PROVE  pc' \notin {"save", "write"}
  <2> DEFINE r == WithJDK(sum)
  <2>1. NextArch(r)
    BY <1>4 DEF EnterJDK, WithJDK
  <2>2. r \in Runs /\ r.lock.tools = run.lock.tools /\ r.manifest = run.manifest
        /\ r.todo = run.todo /\ r.deps = run.deps
        /\ ToSet(run.lock.jdk) \subseteq ToSet(r.lock.jdk)
    BY <1>4, EnteredJDK
  <2> HIDE DEF r
  <2>3. JDKsFit(r)
    BY <1>2, <2>2 DEF JDKsFit, JDKsIn
  <2> QED
    BY <1>2, <2>1, <2>2, <2>3, NextArchLeadsOn
<1>5. \A url : Content(url) \in Nat
  BY ContentIsServed DEF ResolverInv
<1>6. CASE Packages
  BY <1>1, <1>3, <1>6 DEF Packages, Exchange, TakePackages, Goto
<1>7. CASE Detail
  BY <1>3, <1>7 DEF Detail, Exchange, NextOffer, Goto
<1>8. CASE Digest
  <2> DEFINE url == Offer(run).url
             none == IF run.sum = Nil THEN Goto("hash", run) ELSE EnterJDK(run.sum)
  <2>1. pc = "digest" /\ digestForURL(url, EnterJDK(Content(url)), none)
    BY <1>8 DEF Digest
  <2>2. EnterJDK(Content(url)) => pc' \notin {"save", "write"}
    BY <1>4, <1>5, <2>1
  <2>3. run.sum # Nil => run.sum \in Nat
    BY <1>2, RunsAreTyped
  <2>4. none => pc' \notin {"save", "write"}
    BY <1>4, <2>1, <2>3 DEF Goto
  <2> HIDE DEF none, url
  <2> QED
    BY <2>1, <2>2, <2>4 DEF digestForURL, Exchange
<1>9. CASE Hash
  <2>1. pc = "hash" /\ (EnterJDK(Content(Offer(run).url)) => pc' \notin {"save", "write"})
    BY <1>4, <1>5, <1>9 DEF Hash
  <2> QED
    BY <1>3, <1>9, <2>1 DEF Hash, Exchange
<1> QED
  BY <1>6, <1>7, <1>8, <1>9

(* The file is written by runs nobody has interrupted.                      *)
Undisturbed ==
  /\ pc \in {"save", "write"} => ~cancelled
  /\ file = "new" => pc = "off" /\ ~cancelled

LEMMA UndisturbedStep ==
  ASSUME \A m \in Manifests : Tools(m) # <<>>,
         ResolverInv, Undisturbed, [Next]_vars
  PROVE  Undisturbed' /\ (cancelled => file' = file)
<1>1. CASE Packages \/ Detail \/ Digest \/ Hash
  <2>1. /\ UNCHANGED <<file, cancelled>> /\ pc \in OnJDKs
    BY <1>1 DEF Packages, Detail, Digest, Hash, Untouched, OnJDKs
  <2>2. Tools(run.manifest) # <<>>
    BY <2>1 DEF ResolverInv, RunFits, OnJDKs
  <2>3. pc' \notin {"save", "write"}
    BY <1>1, <2>2, JDKsLeadOn
  <2> QED
    BY <2>1, <2>3 DEF Undisturbed, OnJDKs
<1>2. CASE ToolDigest \/ Sidecar \/ ToolHash \/ JarSum \/ JarHash
  <2>1. /\ UNCHANGED <<file, cancelled>> /\ pc \in OnTools
    BY <1>2 DEF ToolDigest, Sidecar, ToolHash, JarSum, JarHash, Untouched, OnTools
  <2>2. cancelled => pc' \notin {"save", "write"}
    BY <1>2, <2>1 DEF ToolDigest, Sidecar, ToolHash, JarSum, JarHash, digestForURL, Exchange,
      Stop, Goto, OnTools
  <2> QED
    BY <2>1, <2>2 DEF Undisturbed, OnTools
<1>3. CASE Open \/ Write
  BY <1>3 DEF Open, Write, Stop, Goto, Undisturbed
<1>4. CASE Interrupt
  BY <1>4 DEF Interrupt, Undisturbed, world
<1>5. CASE Crash
  BY <1>5 DEF Crash, Stop, Goto, Untouched, Undisturbed
<1>6. ASSUME NEW m \in Manifests, Begin(m)
      PROVE  Undisturbed' /\ (cancelled => file' = file)
  <2>1. /\ pc = "off" /\ cancelled' = FALSE /\ file' = IF file = "new" THEN "old" ELSE file
    BY <1>6 DEF Begin
  <2> QED
    BY <2>1 DEF Undisturbed
<1>7. ASSUME NEW url \in Moving, Republish(url)
      PROVE  Undisturbed' /\ (cancelled => file' = file)
  BY <1>7 DEF Republish, Undisturbed
<1>8. CASE UNCHANGED vars
  BY <1>8 DEF vars, Undisturbed
<1> QED
  BY <1>1, <1>2, <1>3, <1>4, <1>5, <1>6, <1>7, <1>8 DEF Next, Step

(* Interrupting stops a run before it gets to the file, although the errors  *)
(* of the JDKs and of digests are passed over (main.go:98-111,               *)
(* resolve.go:38-81). It takes a tool in every manifest: what stops the run  *)
(* is that a tool's errors are not passed over, and without tools a lock of  *)
(* the versions that were resolved so far would be saved.                    *)
THEOREM InterruptsStop ==
  ASSUME \A m \in Manifests : Tools(m) # <<>>
  PROVE  Spec => InterruptStops
<1>1. Init => Undisturbed
  BY DEF Init, Undisturbed
<1>2. ResolverInv /\ Undisturbed /\ [Next]_vars => Undisturbed' /\ [cancelled => file' = file]_vars
  BY UndisturbedStep
<1> QED
  BY <1>1, <1>2, ResolverInvariant, PTL DEF Spec, InterruptStops
=============================================================================

------------------------------ MODULE LockFile ------------------------------
(* internal/toolchain: a lock and the questions its readers ask of it. A     *)
(* lock is [jdk, tools]: for each build of a JDK                            *)
(*   [request, build, sum]    with its request [major, ea, floor, flag,      *)
(* preview], and for each compiler, Kotlin's first,                         *)
(*   [request, sum, deps]     with its request                              *)
(* [language, version, line, jdk, coroutines, max, default].                *)
EXTENDS Naturals, Sequences, SequencesExt

Above(S, n) == {k \in S : k > n}

Descending(S) == [i \in 1..Cardinality(S) |->
  CHOOSE n \in S : Cardinality(Above(S, n)) = i - 1]

Versions(lock) == {e.request.major : e \in ToSet(lock.jdk)}

Majors(lock) == Descending(Versions(lock))

Architectures(lock, major) == {e \in ToSet(lock.jdk) : e.request.major = major}

(* The first by architecture. What is read from it is its request, which all *)
(* builds of a version have in common, so that any stands for the first.    *)
Representative(lock, major) == CHOOSE e \in Architectures(lock, major) : TRUE

-----------------------------------------------------------------------------
(* plan of cmd/toolchainctl: the images to build, in order, each with its    *)
(* base; the system classes of a JDK are read out of its own image. With a   *)
(* platform, versions that were not resolved for it are left out.           *)
JDKImage(major) == <<"jdk", major>>
SysclassImage(major) == <<"sysclasses", major>>
ToolImage(request) == <<request.language, request.version>>

EveryPlatform == ""

\* foojay's names of an architecture, as Docker's.
dockerArch(architecture) ==
  CASE architecture \in {"x64", "x86_64", "amd64"} -> "amd64"
    [] architecture \in {"aarch64", "arm64"} -> "arm64"
    [] OTHER -> architecture

\* What a tool's image is built on, which need not be in the plan.
ToolBase(lock, request) ==
  IF Architectures(lock, request.jdk) = {} THEN <<"none">>
  ELSE JDKImage(Representative(lock, request.jdk).request.major)

Plan(lock, platform) ==
  LET planned == Descending({m \in Versions(lock) :
        \/ platform = EveryPlatform
        \/ \E e \in Architectures(lock, m) : dockerArch(e.build.arch) = dockerArch(platform)})
      major(i) == planned[(i + 1) \div 2]
      jdk(m) == [image |-> JDKImage(m), base |-> <<>>]
      sysclasses(m) == [image |-> SysclassImage(m), base |-> JDKImage(m)]
      tool(e) == [image |-> ToolImage(e.request), base |-> ToolBase(lock, e.request)]
  IN  [i \in 1..(2 * Len(planned)) |->
         IF i % 2 = 1 THEN jdk(major(i)) ELSE sysclasses(major(i))]
        \o [i \in DOMAIN lock.tools |-> tool(lock.tools[i])]
=============================================================================

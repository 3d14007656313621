----------------------------- MODULE MCResolver -----------------------------
(* Small instances of Resolver for TLC.                                     *)
EXTENDS Resolver, TLC

Build(major, arch, distribution, status, libc, url, checksum) ==
  [major |-> major, arch |-> arch, distribution |-> distribution, status |-> status,
   libc |-> libc, url |-> url, checksum |-> checksum]

(* 21 is released, everywhere and by two vendors; 28 has early access builds, *)
(* of which one host has a digest and one has not; 7 lacks an architecture.  *)
SomeBuilds == <<
  Build(21, "x64", "temurin", "ga", "musl", <<"temurin", "21-musl">>, TRUE),
  Build(21, "x64", "temurin", "ga", "glibc", <<"temurin", "21-x64">>, TRUE),
  Build(21, "x64", "zulu", "ga", "glibc", <<"zulu", "21-x64">>, TRUE),
  Build(21, "aarch64", "temurin", "ga", "glibc", Nil, TRUE),
  Build(21, "aarch64", "zulu", "ga", "glibc", <<"zulu", "21-aarch64">>, FALSE),
  Build(28, "x64", "temurin", "ea", "glibc", <<"temurin", "28-x64">>, TRUE),
  Build(28, "aarch64", "zulu", "ea", "glibc", <<"zulu", "28-aarch64">>, TRUE),
  Build(7, "x64", "zulu", "ga", "glibc", <<"zulu", "7-x64">>, TRUE)>>

MovingURLs == {<<"temurin", "28-x64">>, <<"zulu", "28-aarch64">>}
HostedURLs == {<<"temurin", "28-x64">>, <<"temurin", "21-x64">>, <<"zulu", "28-aarch64">>,
               <<"kotlin", "2.2">>, <<"kotlin", "2.1">>}
DigestedURLs == {<<"temurin", "28-x64">>, <<"temurin", "21-x64">>, <<"kotlin", "2.2">>}
SidecarURLs == {<<"kotlin", "2.1">>}
AbsentJars == {<<"coroutines-jvm", "1.3">>}

VersionOf(major, ea) ==
  [major |-> major, ea |-> ea, floor |-> 8, flag |-> major > 8, preview |-> FALSE]

ToolOf(language, version, line, jdk, coroutines) ==
  [language |-> language, version |-> version, line |-> line, jdk |-> jdk,
   coroutines |-> coroutines, max |-> <<jdk>>, default |-> FALSE]

Manifest(jdk, kotlin, groovy) ==
  [arches |-> <<"x64", "aarch64">>, distributions |-> <<"temurin", "zulu">>,
   jdk |-> jdk, kotlin |-> kotlin, groovy |-> groovy]

Groovy4 == ToolOf("groovy", "4.0", "4.0", 21, Nil)
Kotlin22 == ToolOf("kotlin", "2.2", "2.2", 21, "1.9")

Good == Manifest(<<VersionOf(21, TRUE), VersionOf(28, TRUE)>>, <<Kotlin22>>, <<Groovy4>>)
Old == Manifest(<<VersionOf(21, FALSE), VersionOf(7, FALSE)>>,
         <<ToolOf("kotlin", "2.1", "2.1", 21, "1.3")>>, <<Groovy4>>)

\* Not valid: a line with two releases of it, a JDK that is not listed.
Clashing == Manifest(<<VersionOf(21, FALSE)>>,
              <<Kotlin22, ToolOf("kotlin", "2.2", "2.2", 21, "1.3")>>, <<Groovy4>>)
Baseless == Manifest(<<VersionOf(28, TRUE)>>, <<>>, <<Groovy4>>)

FourManifests == {Good, Old, Clashing, Baseless}
=============================================================================

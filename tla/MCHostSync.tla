----------------------------- MODULE MCHostSync -----------------------------
(* A small instance of HostSync for TLC: a lock, and the one after it, which *)
(* adds a version and an image and names another content for the jar.        *)
EXTENDS HostSync

Earlier == [images |-> <<"java25">>, majors |-> <<25>>, jars |-> <<<<"stdlib", "a">>>>]
Later == [images |-> <<"java25", "kotlin2">>, majors |-> <<25, 21>>,
          jars |-> <<<<"stdlib", "b">>, <<"reflect", "a">>>>]
TwoLocks == {Earlier, Later}
=============================================================================

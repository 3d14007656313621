------------------------------ MODULE MCParts ------------------------------
(* Small instances of the parts that work by themselves: SessionStore, by     *)
(* whoever calls it, Compiler, Lookup and Detect. One of them works, and the *)
(* others have not begun.                                                    *)
EXTENDS SessionStore, Compiler, Lookup, Detect, TLC

\* The walk comes by a directory before the file whose name begins like it.
WalkOrder == <<"a/X", "a", "b">>
NameOrder == <<"a", "a/X", "b">>
Sizes == [c \in {"a", "b", "a/X"} |-> CASE c = "a" -> 2 [] c = "b" -> 1 [] OTHER -> 2]
PartsOfIt == [c \in {"a", "b", "a/X"} |-> IF c = "a" THEN 1 ELSE 0]
ThreeClasses == ToSet(WalkOrder)

Class(parts, packages) == [parts |-> parts, packages |-> packages]

(* Two packages of one rank and a preferred one; names that differ in their  *)
(* capitals only, and one that ends in another.                              *)
SomeNames == {
  Class(<<"java", "util", "Map", "Entry">>, 2),
  Class(<<"a", "Entry">>, 1), Class(<<"a", "entry">>, 1), Class(<<"b", "Entry">>, 1),
  Class(<<"b", "a", "Entry">>, 2)}

SomeNamesWanted == {<<"Entry">>, <<"ENTRY">>, <<"entry">>, <<"a", "ENTRY">>, <<"Map", "Entry">>}

Parts == UNION {ToSet(q) : q \in SomeNamesWanted} \union UNION {ToSet(c.parts) : c \in SomeNames}
LowerCase == [p \in Parts |->
  CASE p \in {"Entry", "ENTRY"} -> "entry" [] p = "Map" -> "map" [] OTHER -> p]

\* The tree is walked again before it has changed in two places.
WalkedOften == Cardinality((files \ index) \union (index \ files)) <= 1

vars == <<storeVars, compileVars, lookupVars, code>>

Init == StoreInit /\ CompileInit /\ LookupInit /\ DetectInit

Next ==
  \/ /\ CompileInit /\ LookupInit /\ DetectInit
     /\ StoreNext /\ UNCHANGED <<compileVars, lookupVars, code>>
  \/ /\ StoreInit /\ LookupInit /\ DetectInit
     /\ CompileNext /\ UNCHANGED <<storeVars, lookupVars, code>>
  \/ /\ StoreInit /\ CompileInit /\ DetectInit
     /\ LookupNext /\ WalkedOften' /\ UNCHANGED <<storeVars, compileVars, code>>
  \/ /\ StoreInit /\ CompileInit /\ LookupInit
     /\ Type /\ UNCHANGED <<storeVars, compileVars, lookupVars>>

(* The sweeper runs. A compile's own steps are taken, and its deadline comes; *)
(* the container may hang.                                                   *)
Spec ==
  /\ Init /\ [][Next]_vars
  /\ WF_vars(Sweep /\ UNCHANGED <<compileVars, lookupVars, code>>)
  /\ WF_vars(CompileStep /\ UNCHANGED <<storeVars, lookupVars, code>>)
  /\ WF_vars(Deadline /\ UNCHANGED <<storeVars, lookupVars, code>>)
=============================================================================

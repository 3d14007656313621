--------------------------- MODULE MCRendererPool ---------------------------
(* Small instances of RendererPool for TLC: a page that fits the buffers    *)
(* there are at first, one that does not, and those the library refuses.    *)
EXTENDS RendererPool, TLC

Sizes == [input \in Inputs |-> IF input = "large" THEN 2 ELSE 1]
=============================================================================

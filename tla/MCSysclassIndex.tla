--------------------------- MODULE MCSysclassIndex ---------------------------
(* A small instance of SysclassIndex for TLC.                               *)
EXTENDS SysclassIndex
=============================================================================

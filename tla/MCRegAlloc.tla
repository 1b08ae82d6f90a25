----------------------------- MODULE MCRegAlloc -----------------------------
(* RegAlloc on small register files.                                         *)
EXTENDS RegAlloc
=============================================================================

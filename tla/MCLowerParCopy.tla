--------------------------- MODULE MCLowerParCopy ---------------------------
(* LowerParCopy on small parallel copies.                  *)
EXTENDS LowerParCopy

\* Every node starts with a value of its own.
MCInitVal == [n \in Node |-> {n}]
=============================================================================

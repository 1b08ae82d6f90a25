--------------------------- MODULE MCFuncControl ---------------------------
(* Instances of FuncControlExec for TLC: which programs are enumerated.    *)
EXTENDS FuncControlExec
=============================================================================

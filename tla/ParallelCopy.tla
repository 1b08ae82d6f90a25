---------------------------- MODULE ParallelCopy ----------------------------
(***************************************************************************)
(* What OpParCopy promises, without a program that does it: every           *)
(* destination receives, once and for all, the value its source had before  *)
(* any of them received one.  In which order and in how many steps they     *)
(* receive it is left open.                                                 *)
(***************************************************************************)
CONSTANTS
    Dst,         \* the destinations
    Val          \* the values

VARIABLES
    wanted,      \* the value every destination is to receive
    held         \* what the destinations that were served hold

vars == <<wanted, held>>

Served == DOMAIN held

Init ==
    /\ wanted \in [Dst -> Val]
    /\ held = [d \in {} |-> wanted[d]]

Deliver(S) ==
    /\ held' = [d \in Served \cup S |-> IF d \in Served THEN held[d] ELSE wanted[d]]
    /\ UNCHANGED wanted

Next == \E S \in SUBSET (Dst \ Served) : Deliver(S)

Spec == Init /\ [][Next]_vars
=============================================================================

--------------------------- MODULE LowerCopySwap ---------------------------
(***************************************************************************)
(* What lower_copy_swap.rs accepts and what the instructions it emits do.   *)
(* OpCopy and OpSwap are the two pseudo instructions that lower_par_copy    *)
(* emits; this pass turns each of them into machine instructions, or raises *)
(* an internal compiler error ("ice!") when no instruction can do it.       *)
(*                                                                          *)
(* A register file is a string; the sources that are not registers are       *)
(* "Imm" (Zero and Imm32), "CBuf" and "Bool" (True and False).               *)
(* A value is a set of bits, so exclusive or is symmetric difference.       *)
(***************************************************************************)

RegFile == {"GPR", "UGPR", "Pred", "UPred", "Bar", "Mem", "Carry"}

ConstKind == {"Imm", "CBuf", "Bool"}

SrcKind == RegFile \cup ConstKind

\* RegFile::is_uniform and Src::is_uniform: constants are uniform.
IsUniform(kind) == kind \in {"UGPR", "UPred"} \cup ConstKind

\* lower_copy has an instruction for this destination file and source kind.
CanLowerCopy(dst, src) ==
    /\ IsUniform(src) \/ ~IsUniform(dst)
    /\ \/ dst \in {"GPR", "UGPR"} /\ src # "Carry"
       \/ dst \in {"Pred", "UPred"} /\ src \in {"Bool", "Pred", "UPred"}
       \/ dst = "Bar" /\ src \in {"GPR", "UGPR"}
       \/ dst = "Mem" /\ src = "GPR"

\* lower_swap's two assertions on the register files.
CanLowerSwap(x, y) == x = y /\ x # "Mem"

Xor(a, b) == (a \ b) \cup (b \ a)

\* Mutant: the third Xor is missing.
XorSwap_Two(reg, x, y) ==
    LET r1 == [reg EXCEPT ![x] = Xor(reg[x], reg[y])]
    IN  [r1 EXCEPT ![y] = Xor(r1[x], r1[y])]

\* The three Xor instructions of lower_swap, one after the other.
XorSwap(reg, x, y) ==
    LET r1 == [reg EXCEPT ![x] = Xor(reg[x], reg[y])]
        r2 == [r1 EXCEPT ![y] = Xor(r1[x], r1[y])]
    IN  [r2 EXCEPT ![x] = Xor(r2[x], r2[y])]

\* OpPLop3 with two destinations reads both sources before it writes.
PLop3Swap(reg, x, y) == [reg EXCEPT ![x] = reg[y], ![y] = reg[x]]

\* lower_swap: nothing for x = y, PLOP3 for predicates from SM70 on, else Xor.
LowerSwap(reg, x, y, file, sm70) ==
    IF x = y THEN reg
    ELSE IF file \in {"Pred", "UPred"} /\ sm70 THEN PLop3Swap(reg, x, y)
    ELSE XorSwap(reg, x, y)
============================================================================

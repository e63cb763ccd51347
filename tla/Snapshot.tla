------------------------------ MODULE Snapshot ------------------------------
(***************************************************************************)
(* What copying a program promises: a copy, when it is there, is the state *)
(* of registers and memory at one instant, that at which it was completed; *)
(* regions may be missing from it.                                         *)
(***************************************************************************)
CONSTANTS Copiers, Regions, NoCopy, Missing

VARIABLES regs, mem, copies

Init == copies = [c \in Copiers |-> NoCopy]

Take(c) ==
  /\ copies[c] = NoCopy
  /\ \E S \in SUBSET Regions :
       copies' = [copies EXCEPT ![c] =
                    [regs |-> regs,
                     mem |-> [r \in Regions |-> IF r \in S THEN mem[r] ELSE Missing]]]
  /\ UNCHANGED <<regs, mem>>

\* Whatever the program does, copies stay as they are until they are used or
\* given up.
Go == copies' \in {[c \in Copiers |-> IF c \in Over THEN NoCopy ELSE copies[c]] : Over \in SUBSET Copiers}

Next == Go \/ \E c \in Copiers : Take(c)

Spec == Init /\ [][Next]_<<regs, mem, copies>>

=============================================================================

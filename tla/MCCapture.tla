----------------------------- MODULE MCCapture ------------------------------
(***************************************************************************)
(* An instance of Capture.tla for TLC.                                     *)
(***************************************************************************)
EXTENDS Capture, TLC

CONSTANTS c1, c2, t

All == {c1, c2, t}
TwoFreezers == {c1, c2}
OneRegion == {1}

\* No file, and one longer than any new document.
NoneOrLonger == {0, 4}

\* What still matters.  A copier that is through has no memory of its own left, but
\* for the copy that it has written to the file; a file with two writers is spoilt; of
\* the programs that have been started only the last can be read; what a process had in
\* its registers and memory when it ended matters to copies under way; and a state of the past is only compared with copies begun in it, since registers
\* do not return to what they were.
Through(c) == at[c] \in {"done", "failed"}
Matters == alive \/ \E c \in Copiers : at[c] \in {"detach", "maps", "memory", "read"}
Compared == {state \in past : \/ Matters /\ state.regs = regs
                              \/ \E c \in Copiers : ~Through(c) /\ copy[c].regs = state.regs}
View ==
  <<alive, tracer, trapped, halted /\ alive, execs > 0, IF alive /\ execs = 0 THEN clock ELSE 0,
    IF Matters THEN Now ELSE Own, Compared, {c \in refused : at[c] \in {"finish", "done"}}, at, writers,
    IF writers = TwoFreezers THEN <<>> ELSE file,
    [c \in Copiers |-> IF Through(c) /\ writers # {c} THEN Blank ELSE copy[c]],
    [c \in Copiers |-> at[c] = "read" /\ opened[c] = execs],
    [c \in Copiers |-> IF Through(c) THEN 0 ELSE n[c]],
    [c \in Copiers |-> IF Through(c) THEN {} ELSE lapse[c]]>>

Symmetry == Permutations(TwoFreezers)

=============================================================================

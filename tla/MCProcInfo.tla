----------------------------- MODULE MCProcInfo -----------------------------
(***************************************************************************)
(* Instances of ProcInfo.tla for TLC.                                      *)
(***************************************************************************)
EXTENDS ProcInfo

Pts0 == Encoded(136, 0)
Tty1 == Encoded(4, 1)

Called(extra, ends, number, nested, tty) ==
  [name |-> [extra |-> extra, ends |-> ends, number |-> number], nested |-> nested,
   pgrp |-> Pts0, session |-> 1, tty |-> tty]

\* On the terminal; elsewhere, with a group number that looks like a terminal.
PlainOnes == {Called(0, 0, FALSE, FALSE, Pts0), Called(0, 0, FALSE, FALSE, Tty1)}

\* Two words, three, eight; a pid namespace.
OddOnes ==
  {Called(1, 1, FALSE, FALSE, Tty1), Called(2, 2, FALSE, FALSE, Pts0), Called(7, 7, FALSE, FALSE, Pts0), Called(0, 0, FALSE, TRUE, Pts0)}

AllOnes == PlainOnes \cup OddOnes

\* Names of up to seven words, with parentheses and numbers in them.
ManyNames == {Called(e, f, b, FALSE, Pts0) : e \in 0..6, f \in 0..6, b \in BOOLEAN} \cap
             [name : Names, nested : BOOLEAN, pgrp : Nat, session : Nat, tty : Nat]

=============================================================================

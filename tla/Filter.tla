------------------------------- MODULE Filter -------------------------------
(***************************************************************************)
(* What rot13 and colorize-stderr promise, for as long as they are at it:  *)
(* the program makes its calls one after the other, each is carried out    *)
(* once, as the program made it, a write to the descriptor comes out       *)
(* transformed, and whenever the program runs it finds its buffer and its  *)
(* arguments as it left them.  TraceLoop.tla implements it up to the first *)
(* signal (TraceLoopProofs.tla, MCTraceLoop.cfg).                          *)
(***************************************************************************)

CONSTANT Calls    \* "target", a write to the descriptor, among others

VARIABLES
  filter,   \* rot13 or colorize
  stage,    \* the program runs, its call is made, is carried out; or all is over
  call,     \* the last call
  shown,    \* what the last write to the descriptor has brought
  found     \* what the program finds, and the kernel: its own values, or others

vars == <<filter, stage, call, shown, found>>

Transformed == IF filter = "rot13" THEN "rotated" ELSE "coloured"

Init ==
  /\ filter \in {"rot13", "colorize"}
  /\ stage = "runs" /\ call = "other" /\ shown = "none" /\ found = "own"

Make(c) ==
  /\ stage = "runs" /\ stage' = "made"
  /\ call' = c
  /\ UNCHANGED <<filter, shown, found>>

CarryOut ==
  /\ stage = "made" /\ stage' = "carried out"
  /\ shown' = IF call = "target" THEN Transformed ELSE shown
  /\ UNCHANGED <<filter, call, found>>

Return ==
  /\ stage = "carried out" /\ stage' = "runs"
  /\ UNCHANGED <<filter, call, shown, found>>

\* The command has failed, or the program is dead, or has got a signal: nothing
\* is promised of what is shown and found from then on.
GiveUp ==
  /\ stage # "over" /\ stage' = "over"
  /\ call' = "other" /\ shown' = "none" /\ found' = "own"
  /\ UNCHANGED filter

Next == (\E c \in Calls : Make(c)) \/ CarryOut \/ Return \/ GiveUp

Spec == Init /\ [][Next]_vars

=============================================================================

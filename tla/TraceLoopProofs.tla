--------------------------- MODULE TraceLoopProofs ---------------------------
(***************************************************************************)
(* Theorems about TraceLoop.tla, for writes of any length.                 *)
(***************************************************************************)
EXTENDS TraceLoop, TLAPS

\* The escape sequences and the padding fit exactly where nine bytes are left
\* (pcontroller.rs colorize_stderr).
LEMMA PaddedFits ==
  ASSUME NEW n \in Nat
  PROVE  Padded(n) <= RegionSize <=> n <= RegionSize - 9
<1>1. Padded(n) = ((n + 16) \div 8) * 8
  BY DEF Padded
<1>2. (n + 16) \div 8 <= 8192 <=> n + 16 < 8193 * 8
  OBVIOUS
<1> QED
  BY <1>1, <1>2 DEF RegionSize

\* Positions reached after an odd and after an even number of stops.
AfterFirst  == {"wait1", "inspect", "filter", "cont"}
AfterSecond == {"wait2", "after", "next"}
Stopped == {"next", "inspect", "filter", "cont", "after", "failed"}

Phase ==
  /\ pos \in Stopped => stop \in Stops \cup {"gone"}
  /\ pos \in {"done", "detached"} => stop \in {"gone", "free"}
  /\ stop = "free" => pos = "detached"
  /\ stop # "gone" =>
       /\ pos \in AfterFirst  => (stop \in {"enter", "run"} <=> signalled # "odd")
       /\ pos \in AfterSecond => (stop \in {"enter", "run"} <=> signalled = "odd")
  /\ stop \in {"enter", "kernel"} /\ signalled # "odd" => arg0 = "own"

\* What the filter has in the tracee's hands while no signal has arrived.
Disguised == IF filter = "rot13" THEN buf = "rotated" /\ args = "own"
                                 ELSE buf = "plain" /\ args = "region"
Plain == buf = "plain" /\ args = "own"
GivenUp == cut = "pass" /\ filter = "rot13" /\ args = "own"

Quiet ==
  signalled = "none" =>
    /\ pos \in {"next", "wait1", "inspect", "filter"} => Plain
    /\ pos \in {"cont", "wait2", "after"} => IF hit THEN Disguised ELSE Plain
    /\ pos \in {"filter", "cont", "wait2", "after"} => (hit <=> call = "target")
    /\ pos \in {"filter", "after"} => hit
    /\ pos = "failed" /\ stop # "gone" => Plain \/ GivenUp
    /\ stop = "free" => Plain \/ GivenUp \/ cut = "death"
    /\ arg0 = "own"
    /\ OutputFiltered /\ ~misled

IInv == TypeOK /\ Phase /\ Quiet /\ OverrunNeedsLongWrite

\* No step gives a variable a value out of its type.
LEMMA TypePreserved == TypeOK /\ [Next]_vars => TypeOK'
<1> SUFFICES ASSUME TypeOK, [Next]_vars PROVE TypeOK'
  OBVIOUS
<1> USE DEF TypeOK, Stops, Calls, Texts
<1>1. CASE stop_at_next_syscall
  BY <1>1 DEF stop_at_next_syscall, Goto, Resumed
<1>2. CASE Break
  BY <1>2 DEF Break, Goto, traceeVars
<1>3. CASE wait_for_anything
  BY <1>3 DEF wait_for_anything, Goto, traceeVars
<1>4. CASE is_writing
  <2>1. (call = "target") \in BOOLEAN
    OBVIOUS
  <2>2. LooksLikeTarget \subseteq BOOLEAN
    BY <2>1, Zenon DEF LooksLikeTarget
  <2> QED
    BY <1>4, <2>2 DEF is_writing, Goto, traceeVars
<1>5. CASE TraceeGone
  BY <1>5 DEF TraceeGone, Fail, InPass, traceeVars
<1>6. CASE FirstRot13
  BY <1>6 DEF FirstRot13, rot13, Rotate, Goto, Fail, InPass
<1>7. CASE colorize_stderr
  BY <1>7 DEF colorize_stderr, Goto, Fail, InPass
<1>8. CASE continue_syscall
  BY <1>8 DEF continue_syscall, Goto, Resumed
<1>9. CASE SecondRot13
  BY <1>9 DEF SecondRot13, rot13, Rotate, Goto, Fail, InPass
<1>10. CASE RestoreArguments
  BY <1>10 DEF RestoreArguments, Goto
<1>11. CASE Detach
  BY <1>11 DEF Detach, Goto
<1>12. CASE EnterCall
  BY <1>12 DEF EnterCall, loopVars
<1>13. CASE ReturnFromCall
  BY <1>13 DEF ReturnFromCall, loopVars
<1>14. CASE Refill
  BY <1>14 DEF Refill, loopVars
<1>15. CASE SignalArrives
  BY <1>15 DEF SignalArrives, loopVars
<1>16. CASE Dies
  BY <1>16 DEF Dies, loopVars
<1>17. CASE DaemonDies
  BY <1>17 DEF DaemonDies, InPass
<1>18. CASE UNCHANGED vars
  BY <1>18 DEF vars
<1> QED
  BY <1>1, <1>2, <1>3, <1>4, <1>5, <1>6, <1>7, <1>8, <1>9,
     <1>10, <1>11, <1>12, <1>13, <1>14, <1>15, <1>16, <1>17, <1>18 DEF Next, Loop

\* The number of stops and the number of signals tell which stop is next.
LEMMA PhasePreserved == TypeOK /\ Phase /\ [Next]_vars => Phase'
<1> SUFFICES ASSUME TypeOK, Phase, [Next]_vars PROVE Phase'
  OBVIOUS
<1> USE DEF TypeOK, Phase, Stops, AfterFirst, AfterSecond, Stopped
<1>1. CASE stop_at_next_syscall
  BY <1>1 DEF stop_at_next_syscall, Goto, Resumed
<1>2. CASE Break
  BY <1>2 DEF Break, Goto, traceeVars
<1>3. CASE wait_for_anything
  BY <1>3 DEF wait_for_anything, Goto, traceeVars
<1>4. CASE is_writing
  BY <1>4 DEF is_writing, LooksLikeTarget, Goto, traceeVars
<1>5. CASE TraceeGone
  BY <1>5 DEF TraceeGone, Fail, InPass, traceeVars
<1>6. CASE FirstRot13
  BY <1>6 DEF FirstRot13, rot13, Rotate, Goto, Fail, InPass
<1>7. CASE colorize_stderr
  BY <1>7 DEF colorize_stderr, Goto, Fail, InPass
<1>8. CASE continue_syscall
  BY <1>8 DEF continue_syscall, Goto, Resumed
<1>9. CASE SecondRot13
  BY <1>9 DEF SecondRot13, rot13, Rotate, Goto, Fail, InPass
<1>10. CASE RestoreArguments
  BY <1>10 DEF RestoreArguments, Goto
<1>11. CASE Detach
  BY <1>11 DEF Detach, Goto
<1>12. CASE EnterCall
  BY <1>12 DEF EnterCall, loopVars
<1>13. CASE ReturnFromCall
  BY <1>13 DEF ReturnFromCall, loopVars
<1>14. CASE Refill
  BY <1>14 DEF Refill, loopVars
<1>15. CASE SignalArrives
  BY <1>15 DEF SignalArrives, loopVars
<1>16. CASE Dies
  BY <1>16 DEF Dies, loopVars
<1>17. CASE DaemonDies
  BY <1>17 DEF DaemonDies, InPass
<1>18. CASE UNCHANGED vars
  BY <1>18 DEF vars
<1> QED
  BY <1>1, <1>2, <1>3, <1>4, <1>5, <1>6, <1>7, <1>8, <1>9,
     <1>10, <1>11, <1>12, <1>13, <1>14, <1>15, <1>16, <1>17, <1>18 DEF Next, Loop

\* What the tracee holds at each point of the loop while no signal arrives.
LEMMA QuietPreserved == TypeOK /\ Phase /\ Quiet /\ [Next]_vars => Quiet'
<1> SUFFICES ASSUME TypeOK, Phase, Quiet, [Next]_vars PROVE Quiet'
  OBVIOUS
<1> USE DEF TypeOK, Phase, Quiet, Disguised, Plain, GivenUp, OutputFiltered, CallsAsMade, Stops, AfterFirst,
      AfterSecond, Stopped, Texts
<1>1. CASE stop_at_next_syscall
  BY <1>1 DEF stop_at_next_syscall, Goto, Resumed
<1>2. CASE Break
  BY <1>2 DEF Break, Goto, traceeVars
<1>3. CASE wait_for_anything
  BY <1>3 DEF wait_for_anything, Goto, traceeVars
<1>4. CASE is_writing
  BY <1>4 DEF is_writing, LooksLikeTarget, Goto, traceeVars
<1>5. CASE TraceeGone
  BY <1>5 DEF TraceeGone, Fail, InPass, traceeVars
<1>6. CASE FirstRot13
  BY <1>6 DEF FirstRot13, rot13, Rotate, Goto, Fail, InPass
<1>7. CASE colorize_stderr
  BY <1>7 DEF colorize_stderr, Goto, Fail, InPass
<1>8. CASE continue_syscall
  BY <1>8 DEF continue_syscall, Goto, Resumed
<1>9. CASE SecondRot13
  BY <1>9 DEF SecondRot13, rot13, Rotate, Goto, Fail, InPass
<1>10. CASE RestoreArguments
  BY <1>10 DEF RestoreArguments, Goto
<1>11. CASE Detach
  BY <1>11 DEF Detach, Goto
<1>12. CASE EnterCall
  BY <1>12 DEF EnterCall, loopVars
<1>13. CASE ReturnFromCall
  BY <1>13 DEF ReturnFromCall, loopVars
<1>14. CASE Refill
  BY <1>14 DEF Refill, loopVars
<1>15. CASE SignalArrives
  BY <1>15 DEF SignalArrives, loopVars
<1>16. CASE Dies
  BY <1>16 DEF Dies, loopVars
<1>17. CASE DaemonDies
  BY <1>17 DEF DaemonDies, InPass
<1>18. CASE UNCHANGED vars
  BY <1>18 DEF vars
<1> QED
  BY <1>1, <1>2, <1>3, <1>4, <1>5, <1>6, <1>7, <1>8, <1>9,
     <1>10, <1>11, <1>12, <1>13, <1>14, <1>15, <1>16, <1>17, <1>18 DEF Next, Loop

LEMMA InitIInv == Init => IInv
  BY FilterAssumption
     DEF FilterAssumption, Init, IInv, TypeOK, Phase, Quiet, Plain, GivenUp, OutputFiltered, CallsAsMade,
         OverrunNeedsLongWrite, Stops, Calls, Texts, AfterFirst, AfterSecond, Stopped

LEMMA OverrunPreserved ==
  TypeOK /\ OverrunNeedsLongWrite /\ [Next]_vars => OverrunNeedsLongWrite'
<1> SUFFICES ASSUME TypeOK, OverrunNeedsLongWrite, [Next]_vars, ~overrun, overrun'
             PROVE  OverrunNeedsLongWrite'
  BY DEF OverrunNeedsLongWrite
<1>1. colorize_stderr
  BY DEF Next, Loop, vars, stop_at_next_syscall, Break, wait_for_anything, is_writing,
       TraceeGone, FirstRot13, rot13, continue_syscall, SecondRot13, RestoreArguments, Detach,
       EnterCall, ReturnFromCall, Refill, SignalArrives, Dies, DaemonDies
<1>2. Padded(count) > RegionSize /\ count \in Counts /\ count \in Nat
  BY <1>1, FilterAssumption DEF colorize_stderr, TypeOK, FilterAssumption
<1>3. count > RegionSize - 9
  BY <1>2, PaddedFits DEF Padded, RegionSize
<1> QED
  BY <1>2, <1>3 DEF OverrunNeedsLongWrite

LEMMA Invariant == IInv /\ [Next]_vars => IInv'
BY OverrunPreserved, TypePreserved, PhasePreserved, QuietPreserved DEF IInv

\* The inductive invariant holds in every behaviour of the loop.
THEOREM Invariance == Spec => []IInv
BY InitIInv, Invariant, PTL DEF Spec

\* Every variable keeps its type (TraceLoop.tla, both filters).
THEOREM TypeCorrect == Spec => []TypeOK
<1>1. IInv => TypeOK
  BY DEF IInv
<1> QED
  BY <1>1, Invariance, PTL

\* What the loop takes a stop for is right exactly when the number of signals
\* is even.
THEOREM PhaseIsParity == Spec => []PhaseByParity
<1>1. IInv => PhaseByParity
  BY DEF IInv, TypeOK, Phase, PhaseByParity, AfterFirst, AfterSecond, Stopped
<1> QED
  BY <1>1, Invariance, PTL

\* Without signals the program does not see the filter at work, unless rot13 gave
\* up in its buffer or the daemon died over one of its calls.
THEOREM ProgramIsUnaware == Spec => []ProgramUnaware
<1>1. IInv => ProgramUnaware
  BY DEF IInv, TypeOK, Phase, Quiet, Plain, GivenUp, ProgramUnaware, AfterFirst, AfterSecond, Stopped, Stops
<1> QED
  BY <1>1, Invariance, PTL

\* Without signals every write to the descriptor is filtered.
THEOREM OutputIsFiltered == Spec => []OutputFiltered
<1>1. IInv => OutputFiltered
  BY DEF IInv, Quiet, OutputFiltered
<1> QED
  BY <1>1, Invariance, PTL

\* CallsAsMade: no call gets a first argument of the filter's but while the number
\* of signals is odd.
THEOREM ProgramGetsItsCalls == Spec => []CallsAsMade
<1>1. IInv => CallsAsMade
  BY DEF IInv, Phase, Quiet, CallsAsMade
<1> QED
  BY <1>1, Invariance, PTL

\* The region is large enough for every write of at most 65527 bytes.
THEOREM RegionSuffices == Spec => []OverrunNeedsLongWrite
<1>1. IInv => OverrunNeedsLongWrite
  BY DEF IInv
<1> QED
  BY <1>1, Invariance, PTL

-----------------------------------------------------------------------------
(* The abstract filter.                                                     *)

LEMMA FilterInit == Init => F!Init
BY FilterAssumption DEF FilterAssumption, Init, F!Init, Over, Stage, Unchanged

\* While it is not over, nothing of the filter's is to be seen, and what the
\* last write has brought is transformed.
LEMMA NothingSeen == IInv /\ ~Over => Unchanged
BY DEF IInv, TypeOK, Phase, Quiet, Plain, CallsAsMade, Over, Unchanged, Stops, AfterFirst, AfterSecond,
       Stopped

\* Once over it stays over.
LEMMA OverForGood == TypeOK /\ Over /\ [Next]_vars => Over'
BY DEF TypeOK, Over, Next, Loop, vars, stop_at_next_syscall, Break, wait_for_anything, is_writing,
       TraceeGone, FirstRot13, rot13, colorize_stderr, continue_syscall, SecondRot13,
       RestoreArguments, Detach, EnterCall, ReturnFromCall, Refill, SignalArrives, Dies, DaemonDies,
       Goto, Fail, loopVars, traceeVars

LEMMA FilterKept == [Next]_vars => UNCHANGED filter
BY DEF Next, Loop, vars, stop_at_next_syscall, Break, wait_for_anything, is_writing,
       TraceeGone, FirstRot13, rot13, colorize_stderr, continue_syscall, SecondRot13,
       RestoreArguments, Detach, EnterCall, ReturnFromCall, Refill, SignalArrives, Dies, DaemonDies,
       Goto, Fail

\* What a step does to the program, if it is not the last one that counts.
LEMMA ProgramStep ==
  ASSUME IInv, [Next]_vars, ~Over, ~Over'
  PROVE  \/ EnterCall
         \/ ReturnFromCall
         \/ stop \in {"exit", "signal"} /\ stop' = "run" /\ UNCHANGED <<call, out>>
         \/ stop = "enter" /\ stop' = "kernel" /\ UNCHANGED <<call, out>>
         \/ UNCHANGED <<stop, call, out>>
<1>1. CASE stop_at_next_syscall \/ continue_syscall
  <2>1. /\ stop' = Resumed /\ UNCHANGED <<call, out>> /\ pos \in {"next", "cont"}
        /\ stop \in Stops
    BY <1>1 DEF stop_at_next_syscall, continue_syscall, Goto, IInv, Phase, Over, Stopped
  <2>2. CASE stop = "enter"
    BY <2>1, <2>2 DEF Resumed
  <2>3. CASE stop # "enter"
    <3>1. pos = "next"
      BY <1>1, <2>1, <2>3 DEF IInv, Phase, Over, AfterFirst, Stops, continue_syscall
    <3> QED BY <2>1, <2>3, <3>1 DEF Resumed, Stops
  <2> QED BY <2>2, <2>3
<1>2. CASE Break \/ wait_for_anything \/ is_writing \/ TraceeGone
  BY <1>2 DEF Break, wait_for_anything, is_writing, TraceeGone, Goto, Fail, traceeVars
<1>3. CASE FirstRot13 \/ colorize_stderr \/ SecondRot13 \/ RestoreArguments
  BY <1>3 DEF FirstRot13, colorize_stderr, SecondRot13, RestoreArguments, rot13, Goto, Fail
<1>4. CASE Detach \/ Dies \/ DaemonDies
  BY <1>4 DEF Detach, Dies, DaemonDies, Goto, Over
<1>5. CASE SignalArrives
  BY <1>5 DEF SignalArrives, Over
<1>6. CASE Refill \/ UNCHANGED vars
  BY <1>6 DEF Refill, vars
<1> QED BY <1>1, <1>2, <1>3, <1>4, <1>5, <1>6 DEF Next, Loop

LEMMA FilterStep == IInv /\ [Next]_vars => [F!Next]_(F!vars)
<1> SUFFICES ASSUME IInv, [Next]_vars PROVE [F!Next]_(F!vars)
    OBVIOUS
<1>1. IInv' /\ UNCHANGED filter
  BY Invariant, FilterKept
<1>2. CASE Over
  <2>1. Over'
    BY <1>2, OverForGood DEF IInv
  <2> QED BY <1>1, <1>2, <2>1 DEF F!vars, Stage
<1>3. CASE ~Over /\ Over'
  <2>1. Unchanged
    BY <1>3, NothingSeen
  <2>2. F!GiveUp
    BY <1>1, <1>3, <2>1 DEF F!GiveUp, Stage
  <2> QED BY <2>2 DEF F!Next
<1>4. CASE ~Over /\ ~Over'
  <2>1. Unchanged
    BY <1>4, NothingSeen
  <2>2. Unchanged'
    BY <1>1, <1>4 DEF IInv, TypeOK, Phase, Quiet, Plain, CallsAsMade, Over, Unchanged, Stops,
                      AfterFirst, AfterSecond, Stopped
  <2>3. CASE EnterCall
    <3>1. stop = "run" /\ stop' = "enter" /\ call' \in Calls /\ UNCHANGED out
      BY <2>3 DEF EnterCall
    <3>2. F!Make(call')
      BY <1>1, <1>4, <2>1, <2>2, <3>1 DEF F!Make, Stage
    <3> QED BY <3>1, <3>2 DEF F!Next
  <2>4. CASE ReturnFromCall
    <3>1. stop = "kernel" /\ stop' = "exit" /\ UNCHANGED call
      BY <2>4 DEF ReturnFromCall
    <3>2. out' = IF call = "target" THEN F!Transformed ELSE out
      BY <1>4, <2>4 DEF ReturnFromCall, IInv, TypeOK, Phase, Quiet, Disguised, Plain, Over,
                        F!Transformed, AfterFirst, AfterSecond, Stopped, Stops
    <3>3. F!CarryOut
      BY <1>1, <1>4, <2>1, <2>2, <3>1, <3>2 DEF F!CarryOut, Stage
    <3> QED BY <3>3 DEF F!Next
  <2>5. CASE stop = "exit" /\ stop' = "run" /\ UNCHANGED <<call, out>>
    <3>1. F!Return
      BY <1>1, <1>4, <2>1, <2>2, <2>5 DEF F!Return, Stage
    <3> QED BY <3>1 DEF F!Next
  <2>6. CASE /\ \/ stop = "signal" /\ stop' = "run"
                \/ stop = "enter" /\ stop' = "kernel"
                \/ UNCHANGED stop
             /\ UNCHANGED <<call, out>>
    BY <1>1, <1>4, <2>1, <2>2, <2>6 DEF F!vars, Stage
  <2> QED BY <1>4, <2>3, <2>4, <2>5, <2>6, ProgramStep
<1> QED BY <1>2, <1>3, <1>4

\* FilterSpec: until a signal arrives the loop implements the abstract filter,
\* call by call (daemon.rs Rot13, ColorizeStderr).
THEOREM FilterImplemented == Spec => FilterSpec
BY FilterInit, FilterStep, Invariance, PTL DEF Spec, FilterSpec, F!Spec

-----------------------------------------------------------------------------
(* A stopped tracee is not kept for long.                                   *)

\* Steps of the loop until it lets a stopped tracee go on, with the next ptrace
\* request or by detaching.
StepsToResume ==
  IF pos \in {"next", "cont", "failed"} THEN 1
  ELSE IF pos \in {"filter", "after"} THEN 2
  ELSE IF pos \in {"inspect", "wait2"} THEN 3
  ELSE IF pos = "wait1" THEN 4
  ELSE 0

\* None is kept by a loop that is over.
StoppedIsKept == stop \in Stops => StepsToResume \in 1..4

\* Each step of the loop lets the tracee go or has fewer to come; a signal that
\* stops the tracee anew finds it running.
ResumeComesNearer ==
  stop \in Stops /\ stop' \in Stops =>
    /\ Loop => StepsToResume' < StepsToResume
    /\ ~Loop => StepsToResume' = StepsToResume

LEMMA ResumeStep == TypeOK /\ [Next]_vars => [ResumeComesNearer]_vars
<1> SUFFICES ASSUME TypeOK, Next, stop \in Stops, stop' \in Stops
             PROVE  /\ Loop => StepsToResume' < StepsToResume
                    /\ ~Loop => StepsToResume' = StepsToResume
  BY DEF ResumeComesNearer
<1> USE DEF Goto, Fail, StepsToResume
<1>1. CASE stop_at_next_syscall \/ continue_syscall \/ Break \/ TraceeGone \/ Detach
  BY <1>1 DEF stop_at_next_syscall, continue_syscall, Break, TraceeGone, Detach, Resumed, Stops
<1>2. CASE wait_for_anything
  BY <1>2 DEF wait_for_anything, Loop
<1>3. CASE is_writing
  BY <1>3 DEF is_writing, Loop
<1>4. CASE FirstRot13 \/ SecondRot13
  BY <1>4 DEF FirstRot13, SecondRot13, rot13, Loop
<1>5. CASE colorize_stderr \/ RestoreArguments
  BY <1>5 DEF colorize_stderr, RestoreArguments, Loop
<1>6. ~(EnterCall \/ ReturnFromCall \/ Refill \/ SignalArrives \/ Dies \/ DaemonDies)
  BY DEF EnterCall, ReturnFromCall, Refill, SignalArrives, Dies, DaemonDies, Stops
<1> QED
  BY <1>1, <1>2, <1>3, <1>4, <1>5, <1>6 DEF Next, Loop

\* What TraceeResumed needs of the loop: whatever stopped the tracee, and whatever
\* fails, it is at most four steps from being resumed (daemon.rs Rot13,
\* ColorizeStderr).
THEOREM ResumedSoon == Spec => []StoppedIsKept /\ [][ResumeComesNearer]_vars
<1>1. IInv => StoppedIsKept
  BY DEF IInv, TypeOK, Phase, StoppedIsKept, StepsToResume, Stopped, Stops
<1>2. IInv /\ [Next]_vars => [ResumeComesNearer]_vars
  BY ResumeStep DEF IInv
<1> QED
  BY <1>1, <1>2, Invariance, PTL DEF Spec

=============================================================================

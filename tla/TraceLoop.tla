----------------------------- MODULE TraceLoop ------------------------------
(***************************************************************************)
(* The loops of the rot13 and colorize-stderr commands (run_command in     *)
(* src/proctool/bin/daemon.rs, and the methods they call in                *)
(* src/proctool/pcontroller.rs) against a tracee that makes system calls,  *)
(* gets signals and dies.  The loop counts stops: it takes the first for a *)
(* syscall-enter-stop, the second for the syscall-exit-stop, and so on,    *)
(* whatever waitpid reported.                                              *)
(***************************************************************************)
EXTENDS Naturals

CONSTANTS
  Filters,     \* the commands of this instance: rot13, colorize
  Counts,      \* how many bytes the tracee writes at a time
  Signals      \* signals reach the tracee

ASSUME FilterAssumption ==
  /\ Filters \subseteq {"rot13", "colorize"}
  /\ Counts \subseteq Nat
  /\ Signals \in BOOLEAN

VARIABLES
  filter,   \* the command
  pos,      \* the daemon: the next step of the loop
  hit,      \* is_writing_to_stdout (stderr) returned Some
  stop,     \* the tracee: running, in the kernel, or in which kind of stop
  call,     \* its last call: a write to the descriptor of the filter (target),
            \* a write to another one, or any other call
  count,    \* third argument of that call
  buf,      \* the bytes the tracee means to write
  args,     \* x1 and x2 at a stop: the tracee's or the region of the filter
  arg0,     \* x0 on entry: the tracee's or one forged by the filter
  out,      \* history: what the last target call has sent to the terminal
  misled,   \* history: the kernel has run a call with a forged x0
  overrun,  \* history: the filter has written past its region
  signalled, \* history: how many signal-delivery-stops there have been
  cut       \* history: rot13 gave up in a pass over the buffer, or the daemon
            \* died with the filter at work on a call

loopVars == <<pos, hit>>
traceeVars == <<stop, call, count, buf, args, arg0>>
vars == <<filter, pos, hit, stop, call, count, buf, args, arg0, out, misled, overrun, signalled, cut>>

Stops == {"enter", "exit", "signal"}
Calls == {"target", "write", "other"}
Texts == {"plain", "rotated", "mixed"}

TypeOK ==
  /\ filter \in Filters
  /\ pos \in {"next", "wait1", "inspect", "filter", "cont", "wait2", "after",
              "done", "failed", "detached"}
  /\ hit \in BOOLEAN
  /\ stop \in Stops \cup {"run", "kernel", "free", "gone"}
  /\ call \in Calls
  /\ count \in Counts
  /\ buf \in Texts
  /\ args \in {"own", "region"}
  /\ arg0 \in {"own", "forged"}
  /\ out \in Texts \cup {"none", "coloured"}
  /\ misled \in BOOLEAN
  /\ overrun \in BOOLEAN
  /\ signalled \in {"none", "odd", "even"}
  /\ cut \in {"no", "pass", "death"}

\* After attach (and, for colorize, map_region and set_registers) the tracee is
\* in a stop that is neither entry nor exit; a call it was in will be restarted.
Init ==
  /\ filter \in Filters
  /\ pos = "next" /\ hit = FALSE
  /\ stop = "signal"
  /\ call = "other" /\ count \in Counts
  /\ buf = "plain" /\ args = "own" /\ arg0 = "own"
  /\ out = "none" /\ misled = FALSE /\ overrun = FALSE /\ signalled = "none"
  /\ cut = "no"

-----------------------------------------------------------------------------
(* The tracee and the kernel (external).                                    *)

\* A call of the program: with PTRACE_SYSCALL, a syscall-enter-stop.
EnterCall ==
  /\ stop = "run"
  /\ stop' = "enter"
  /\ call' \in Calls /\ count' \in Counts
  /\ args' = "own" /\ arg0' = "own"
  /\ UNCHANGED <<filter, loopVars, buf, out, misled, overrun, signalled, cut>>

\* The kernel runs the call, whose arguments are what the registers say.  How
\* much of a write it carries out is left open: out is about what of it comes out.
ReturnFromCall ==
  /\ stop = "kernel"
  /\ stop' = "exit"
  /\ out' = IF call # "target" THEN out ELSE IF args = "region" THEN "coloured" ELSE buf
  /\ misled' = (misled \/ arg0 = "forged")
  /\ UNCHANGED <<filter, loopVars, call, count, buf, args, arg0, overrun, signalled, cut>>

\* The program puts new text into its buffer.
Refill ==
  /\ stop = "run" /\ buf # "plain"
  /\ buf' = "plain"
  /\ UNCHANGED <<filter, loopVars, stop, call, count, args, arg0, out, misled, overrun, signalled, cut>>

\* A signal for the program (or the SIGTRAP of an execve) stops it on its way
\* back to user mode.
SignalArrives ==
  /\ Signals
  /\ stop = "run"
  /\ stop' = "signal"
  /\ signalled' = IF signalled = "odd" THEN "even" ELSE "odd"
  /\ UNCHANGED <<filter, loopVars, call, count, buf, args, arg0, out, misled, overrun, cut>>

Dies ==
  /\ stop \notin {"gone", "free"}
  /\ stop' = "gone"
  /\ UNCHANGED <<filter, loopVars, call, count, buf, args, arg0, out, misled, overrun, signalled, cut>>

\* What registers look like a write to the filter's descriptor (x8, x0): on
\* entry those of such a call; on exit x0 is the result of any write; at a
\* signal they are whatever the program was doing.
LooksLikeTarget ==
  CASE stop = "enter"  -> {call = "target"}
    [] stop = "exit"   -> IF call = "other" THEN {FALSE} ELSE BOOLEAN
    [] OTHER          -> BOOLEAN

\* PTRACE_SYSCALL: to the next stop, without a signal.
Resumed == IF stop = "enter" THEN "kernel" ELSE "run"

-----------------------------------------------------------------------------
(* The loop.                                                                *)

\* rot13 goes over the buffer byte by byte.
InPass == filter = "rot13" /\ pos \in {"filter", "after"}

\* A ? returns from run_command; the controller is dropped.
Fail ==
  /\ pos' = "failed"
  /\ cut' = IF InPass /\ stop # "gone" THEN "pass" ELSE cut
  /\ UNCHANGED <<hit, out, misled, signalled, filter>>

Goto(l) ==
  /\ pos' = l
  /\ UNCHANGED <<out, misled, signalled, cut, filter>>

stop_at_next_syscall ==
  /\ pos = "next" /\ stop # "gone"
  /\ stop' = Resumed
  /\ Goto("wait1")
  /\ UNCHANGED <<hit, call, count, buf, args, arg0, overrun>>

Break ==
  /\ pos = "next" /\ stop = "gone"
  /\ Goto("done")
  /\ UNCHANGED <<hit, traceeVars, overrun>>

\* Wrong: a signal is waited out.
wait_for_syscall_only ==
  /\ pos \in {"wait1", "wait2"} /\ stop \in {"enter", "exit", "gone"}
  /\ Goto(IF pos = "wait1" THEN "inspect" ELSE IF hit THEN "after" ELSE "next")
  /\ UNCHANGED <<hit, traceeVars, overrun>>

\* waitpid(__WALL) returns for a stop of any kind and for the end of the
\* tracee; the status is not looked at.
wait_for_anything ==
  /\ pos \in {"wait1", "wait2"} /\ stop \in Stops \cup {"gone"}
  /\ Goto(IF pos = "wait1" THEN "inspect" ELSE IF hit THEN "after" ELSE "next")
  /\ UNCHANGED <<hit, traceeVars, overrun>>

\* Wrong: the exit of a call that is not a target is not waited for.
is_writing_or_next ==
  /\ pos = "inspect" /\ stop # "gone"
  /\ hit' \in LooksLikeTarget
  /\ Goto(IF hit' THEN "filter" ELSE "next")
  /\ UNCHANGED <<traceeVars, overrun>>

\* is_writing_to_stdout, is_writing_to_stderr.
is_writing ==
  /\ pos = "inspect" /\ stop # "gone"
  /\ hit' \in LooksLikeTarget
  /\ Goto(IF hit' THEN "filter" ELSE "cont")
  /\ UNCHANGED <<traceeVars, overrun>>

\* Any ptrace request on a tracee that is gone.
TraceeGone ==
  /\ pos \in {"inspect", "filter", "cont", "after"} /\ stop = "gone"
  /\ Fail
  /\ UNCHANGED <<traceeVars, overrun>>

Rotate(b) == IF b = "plain" THEN "rotated" ELSE IF b = "rotated" THEN "plain" ELSE b

\* rot13 goes byte by byte, a word at a time: it may fail part of the way, at
\* the end of a mapping.
rot13(next) ==
  /\ filter = "rot13" /\ stop # "gone"
  /\ \/ buf' = Rotate(buf) /\ Goto(next) /\ UNCHANGED hit
     \/ buf' \in {buf, "mixed"} /\ count > 0 /\ Fail
  /\ UNCHANGED <<stop, call, count, args, arg0, overrun>>

RegionSize == 4096 * 16

\* Wrong: padded even when there is nothing to pad.
PaddedAlways(n) == ((n + 9 + 8) \div 8) * 8

\* The text between two escape sequences, padded with zeros to whole words.
Padded(n) == ((n + 9 + 7) \div 8) * 8

\* Wrong: the result is forged before the call.
colorize_too_early ==
  /\ pos = "filter" /\ filter = "colorize" /\ stop # "gone"
  /\ args' = "region" /\ arg0' = "forged"
  /\ Goto("cont")
  /\ UNCHANGED <<hit, stop, call, count, buf, overrun>>

\* read_string rejects a text that is empty or not UTF-8.  The bytes that the
\* region does not hold go to what lies behind it, if anything does.
colorize_stderr ==
  /\ pos = "filter" /\ filter = "colorize" /\ stop # "gone"
  /\ \/ /\ count > 0
        /\ args' = "region"
        /\ overrun' = (overrun \/ Padded(count) > RegionSize)
        /\ Goto("cont")
        /\ UNCHANGED hit
     \/ Fail /\ UNCHANGED <<args, overrun>>
  /\ UNCHANGED <<stop, call, count, buf, arg0>>

\* Wrong: nothing is rotated before the call.
FirstForgotten == pos = "filter" /\ filter = "rot13" /\ Goto("cont") /\ UNCHANGED <<hit, traceeVars, overrun>>

FirstRot13 == pos = "filter" /\ rot13("cont")

continue_syscall ==
  /\ pos = "cont" /\ stop # "gone"
  /\ stop' = Resumed
  /\ Goto("wait2")
  /\ UNCHANGED <<hit, call, count, buf, args, arg0, overrun>>

\* Wrong: nothing is rotated back.
SecondForgotten == pos = "after" /\ filter = "rot13" /\ Goto("next") /\ UNCHANGED <<hit, traceeVars, overrun>>

SecondRot13 == pos = "after" /\ rot13("next")

\* x0 becomes the byte count, even if the write was cut short or has failed; x1
\* and x2 what they were.  (On entry x0 is the first argument.)
RestoreArguments ==
  /\ pos = "after" /\ filter = "colorize" /\ stop # "gone"
  /\ args' = "own"
  /\ arg0' = IF stop = "enter" THEN "forged" ELSE arg0
  /\ Goto("next")
  /\ UNCHANGED <<hit, stop, call, count, buf, overrun>>

\* detach, by the command or by Drop: the tracee runs on from where it stands.
Detach ==
  /\ pos \in {"done", "failed"}
  /\ stop' = IF stop = "gone" THEN "gone" ELSE "free"
  /\ Goto("detached")
  /\ UNCHANGED <<hit, call, count, buf, args, arg0, overrun>>

\* The daemon is killed, or panics, and the kernel lets the tracee go.
DaemonDies ==
  /\ pos # "detached"
  /\ pos' = "detached"
  /\ stop' = IF stop = "gone" THEN "gone" ELSE "free"
  /\ buf' \in IF InPass /\ count > 0 THEN {buf, "mixed"} ELSE {buf}
  /\ cut' = IF hit /\ pos \in {"filter", "cont", "wait2", "after"} THEN "death" ELSE cut
  /\ UNCHANGED <<filter, hit, call, count, args, arg0, out, misled, overrun, signalled>>

Loop ==
  \/ stop_at_next_syscall \/ Break \/ wait_for_anything \/ is_writing \/ TraceeGone
  \/ FirstRot13 \/ colorize_stderr \/ continue_syscall \/ SecondRot13
  \/ RestoreArguments \/ Detach

Next ==
  \/ Loop
  \/ EnterCall \/ ReturnFromCall \/ Refill \/ SignalArrives \/ Dies \/ DaemonDies

Spec == Init /\ [][Next]_vars

\* The daemon's thread is scheduled.  The tracee owes nothing.
LiveSpec == Spec /\ WF_vars(Loop)

-----------------------------------------------------------------------------
(* Properties.                                                              *)

\* What the loop takes a stop for is what it is if, and only if, the number of
\* signals so far is even (daemon.rs "we are now in syscall-enter-stop").
PhaseByParity ==
  stop \in {"enter", "exit"} =>
    /\ pos \in {"inspect", "filter", "cont"} => (stop = "enter" <=> signalled # "odd")
    /\ pos \in {"after", "next"} => (stop = "exit" <=> signalled # "odd")

\* Until a signal arrives the program runs with its own buffer and arguments, in
\* the loop and when it has been let go, whatever failed: but for a buffer that
\* rot13 gave up in (daemon.rs:280 and 282, the ? lets the program go with it),
\* and for the death of the daemon while it filters a call.
ProgramUnaware ==
  signalled = "none" /\ stop \in {"run", "free"} =>
    \/ buf = "plain" /\ args = "own"
    \/ stop = "free" /\ cut = "pass" /\ filter = "rot13" /\ args = "own"
    \/ stop = "free" /\ cut = "death"

\* Until a signal arrives every write to the descriptor comes out transformed.
OutputFiltered ==
  signalled = "none" => out \in {"none", IF filter = "rot13" THEN "rotated" ELSE "coloured"}

\* Until a signal arrives the kernel runs no call with an x0 that the filter
\* has put there, and after one it does only while their number is odd: each
\* second signal ends what the one before it has begun (daemon.rs ColorizeStderr,
\* new_registers).
CallsAsMade ==
  /\ signalled = "none" => ~misled
  /\ stop \in {"enter", "kernel"} /\ signalled # "odd" => arg0 = "own"

\* Only a write that leaves no room for the escape sequences gets past the
\* region (pcontroller.rs colorize_stderr, daemon.rs map_region(4096 * 16)).
OverrunNeedsLongWrite == overrun => \E n \in Counts : n > RegionSize - 9

\* Filter.tla, which says nothing more once there was a signal, or the command or
\* the program has come to an end.
Over == signalled # "none" \/ stop = "gone" \/ pos \in {"failed", "detached"}

Stage ==
  IF Over THEN "over"
  ELSE IF stop \in {"enter", "kernel"} THEN "made"
  ELSE IF stop = "exit" THEN "carried out"
  ELSE "runs"

Unchanged == ~misled /\ (stop = "run" => buf = "plain" /\ args = "own")

F == INSTANCE Filter WITH
       stage <- Stage,
       call  <- IF Over THEN "other" ELSE call,
       shown <- IF Over THEN "none" ELSE out,
       found <- IF Over \/ Unchanged THEN "own" ELSE "changed"

\* Until a signal arrives the loop is the filter of Filter.tla: it lets no call go
\* by twice or not at all, and none of its own values be seen (daemon.rs Rot13,
\* ColorizeStderr).
FilterSpec == F!Spec

\* A stopped tracee is set going again, whatever stopped it.
TraceeResumed == stop \in Stops ~> stop \notin Stops

\* The comment at daemon.rs:245 and 277: the stop that is inspected is a
\* syscall-enter-stop.
InspectedIsEntry == pos = "inspect" /\ stop # "gone" => stop = "enter"

=============================================================================

------------------------------ MODULE Program -------------------------------
(***************************************************************************)
(* One running program whose state is to be copied, and the part of Linux  *)
(* between it and the copiers (the clients of proctool freeze, and the     *)
(* teleclient).  None of this is code of the repository.  What registers   *)
(* and memory hold is abstracted to the time at which it was put there.    *)
(***************************************************************************)
EXTENDS Naturals

CONSTANTS
  Copiers,    \* those who copy the program
  NoOne,      \* not a copier
  NRegions,   \* the number of its memory regions
  MaxClock,   \* bound: the program makes so many steps
  Threads     \* whether it has a second thread

ASSUME ProgramAssumption ==
  /\ NoOne \notin Copiers
  /\ NRegions \in Nat /\ MaxClock \in Nat
  /\ Threads \in BOOLEAN

Regions == 1..NRegions

VARIABLES
  alive,     \* the process exists
  tracer,    \* who has its main thread attached
  trapped,   \* the main thread is in a ptrace-stop
  halted,    \* a SIGSTOP is in effect for the process
  execs,     \* how many programs have replaced the first
  clock,     \* the steps made
  regs,      \* when the main thread last ran
  mem,       \* mem[r]: when region r was last written
  past,      \* the states registers and memory have been in together
  refused    \* history: whose execve the kernel has refused

programVars == <<alive, tracer, trapped, halted, execs, clock, regs, mem, past, refused>>

Foreign == MaxClock + 1      \* put there by an injected call or a new program
Missing == MaxClock + 2      \* in a copy: not read

Now == [regs |-> regs, mem |-> mem]

ProgramInit ==
  /\ alive = TRUE /\ tracer = NoOne /\ trapped = FALSE
  /\ halted \in BOOLEAN
  /\ execs = 0 /\ clock = 0
  /\ regs = 0 /\ mem = [r \in Regions |-> 0]
  /\ past = {Now}
  /\ refused = {}

\* The program that is to be copied runs on its own registers.
Own == execs = 0 /\ regs # Foreign

-----------------------------------------------------------------------------

\* One step of the main thread.  Where its registers are those of an injected
\* call it goes on from there, astray, in the memory it has.
Advance ==
  /\ execs = 0 /\ clock < MaxClock
  /\ clock' = clock + 1
  /\ regs' = IF regs = Foreign THEN Foreign ELSE clock + 1
  /\ \E S \in SUBSET Regions :
       mem' = [r \in Regions |-> IF r \in S THEN clock + 1 ELSE mem[r]]
  /\ past' = past \cup {Now'}

\* The main thread makes a step, the second thread writes to a region.
MainStep ==
  /\ alive /\ ~trapped /\ ~halted /\ Advance
  /\ UNCHANGED <<alive, tracer, trapped, halted, execs, refused>>

ThreadStep ==
  /\ Threads /\ alive /\ ~halted /\ execs = 0
  /\ clock < MaxClock
  /\ clock' = clock + 1
  /\ \E r \in Regions : mem' = [mem EXCEPT ![r] = clock + 1]
  /\ UNCHANGED <<alive, tracer, trapped, halted, execs, regs, refused>>
  /\ past' = past \cup {Now'}

Halt ==
  /\ alive /\ ~halted
  /\ halted' = TRUE
  /\ UNCHANGED <<alive, tracer, trapped, execs, clock, regs, mem, past, refused>>

Continue ==
  /\ alive /\ halted
  /\ halted' = FALSE
  /\ UNCHANGED <<alive, tracer, trapped, execs, clock, regs, mem, past, refused>>

Exit ==
  /\ alive
  /\ alive' = FALSE /\ tracer' = NoOne /\ trapped' = FALSE
  /\ UNCHANGED <<halted, execs, clock, regs, mem, past, refused>>

-----------------------------------------------------------------------------
(* ptrace requests of copier c, which fail where they are not enabled.      *)

Attachable == alive /\ tracer = NoOne
Held(c) == alive /\ tracer = c /\ trapped

\* PTRACE_ATTACH with its waitpid, and PTRACE_SEIZE, which stops nothing.
TakeHold(c, stopped) ==
  /\ Attachable
  /\ tracer' = c /\ trapped' = stopped
  /\ UNCHANGED <<alive, halted, execs, clock, regs, mem, past, refused>>

Interrupt(c) ==
  /\ alive /\ tracer = c
  /\ trapped' = TRUE
  /\ UNCHANGED <<alive, tracer, halted, execs, clock, regs, mem, past, refused>>

\* PTRACE_DETACH, with a SIGSTOP or without, or the end of the tracer.  A
\* process that was halted before stays so.
LetGo(c, sigstop) ==
  /\ IF alive /\ tracer = c
       THEN /\ tracer' = NoOne /\ trapped' = FALSE
            /\ halted' = (halted \/ sigstop)
       ELSE UNCHANGED <<tracer, trapped, halted>>
  /\ UNCHANGED <<alive, execs, clock, regs, mem, past, refused>>

\* PTRACE_SINGLESTEP until the pc is another: an instruction, or the rest of a
\* call, which may take for ever.  What a new program does is not modelled.
SingleStep(c) ==
  /\ Held(c)
  /\ Advance \/ (execs > 0 /\ UNCHANGED <<clock, regs, mem, past>>)
  /\ UNCHANGED <<alive, tracer, trapped, halted, execs, refused>>

\* Injected calls leave their own values in the registers.
Overwrite(c) ==
  /\ Held(c)
  /\ regs' = Foreign
  /\ UNCHANGED <<alive, tracer, trapped, halted, execs, clock, mem, refused>>
  /\ past' = past \cup {Now'}

\* execve: the kernel starts the new program, or refuses and leaves the old one
\* behind the call.
Execve(c) ==
  /\ Held(c)
  /\ regs' = Foreign
  /\ \/ /\ execs' = execs + 1
        /\ mem' = [r \in Regions |-> Foreign]
        /\ UNCHANGED refused
     \/ /\ refused' = refused \cup {c}
        /\ UNCHANGED <<execs, mem>>
  /\ past' = past \cup {Now'}
  /\ UNCHANGED <<alive, tracer, trapped, halted, clock>>

=============================================================================

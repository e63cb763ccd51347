------------------------------- MODULE Tracee -------------------------------
(***************************************************************************)
(* The processes proctool acts upon, and the part of the Linux kernel that *)
(* stands between them and proctool: who traces a process, whether it is   *)
(* stopped, what its registers hold and where its descriptors 0..2 lead.   *)
(* None of this is code of the repository: it is what the calls made in    *)
(* src/proctool/pcontroller.rs and src/proctool/terminals.rs rely on.      *)
(* A process that is traced is held in a ptrace-stop unless the step of    *)
(* the tracer says otherwise, so that "traced" stands for "trapped" too.   *)
(***************************************************************************)
EXTENDS Naturals

CONSTANT Pids            \* the processes of the machine

VARIABLES
  alive,    \* alive[p]:  p exists
  tracer,   \* tracer[p]: who has p attached with ptrace
  halted,   \* halted[p]: a SIGSTOP is in effect for p
  doing,    \* doing[p]:  the call p is in, as its registers have it
  input,    \* input[p]:  a complete line waits on p's standard input
  ctx,      \* ctx[p]:    whose values the registers of p hold
  refused,  \* refused[p]: history: the kernel refused the last execve put into p
  stdio     \* stdio[p]:  where descriptors 0, 1 and 2 of p lead

traceeVars == <<alive, tracer, halted, doing, input, ctx, refused, stdio>>

Tracers == {"none", "daemon", "other"}

\* Computing; in a system call that ends by itself (nanosleep); blocked in one
\* that somebody else must end, if ever (accept, futex, poll, pause, a read of
\* another descriptor); or blocked reading a line from descriptor 0.
Activities == {"user", "sleep", "wait", "read"}

\* "own": the values the program put there.  "injected": the pc is in the
\* [vdso], the arguments those of an injected call, an execve that was refused
\* included.  "prepared": a complete execve call that the next instruction
\* runs.  "new": the program that an injected execve started.
Contexts == {"own", "injected", "prepared", "new"}

RegisterSets == [ctx : Contexts, doing : Activities]

Fds == 0..2
Ends == {"own", "tty", "closed"}

AllOpen   == [f \in Fds |-> "own"]
StdinLess == [AllOpen EXCEPT ![0] = "closed"]

TraceeTypeOK ==
  /\ alive  \in [Pids -> BOOLEAN]
  /\ tracer \in [Pids -> Tracers]
  /\ halted \in [Pids -> BOOLEAN]
  /\ doing  \in [Pids -> Activities]
  /\ input  \in [Pids -> BOOLEAN]
  /\ ctx    \in [Pids -> Contexts]
  /\ refused \in [Pids -> BOOLEAN]
  /\ stdio  \in [Pids -> [Fds -> Ends]]

TraceeInit ==
  /\ alive  = [p \in Pids |-> TRUE]
  /\ tracer = [p \in Pids |-> "none"]
  /\ halted = [p \in Pids |-> FALSE]
  /\ doing  = [p \in Pids |-> "user"]
  /\ input  = [p \in Pids |-> FALSE]
  /\ ctx    = [p \in Pids |-> "own"]
  /\ refused = [p \in Pids |-> FALSE]
  /\ stdio \in [Pids -> {AllOpen, StdinLess}]

-----------------------------------------------------------------------------
(* What processes, users and other tools do without proctool.               *)

Running(p) == alive[p] /\ tracer[p] = "none" /\ ~halted[p]

\* p enters a blocking system call: so does a program that was let go with
\* injected registers, which runs on from the [vdso] with its own memory.
Block(p) ==
  /\ Running(p) /\ ctx[p] # "prepared" /\ doing[p] = "user"
  /\ \E a \in {"sleep", "wait", "read"} :
       /\ a = "read" => stdio[p][0] = "own"
       /\ doing' = [doing EXCEPT ![p] = a]
  /\ UNCHANGED <<alive, tracer, halted, input, ctx, refused, stdio>>

\* The call returns: a read once a line is there, which it consumes.
Unblock(p) ==
  /\ Running(p) /\ ctx[p] # "prepared" /\ doing[p] # "user"
  /\ doing[p] = "read" => input[p]
  /\ doing' = [doing EXCEPT ![p] = "user"]
  /\ input' = [input EXCEPT ![p] = @ /\ doing[p] # "read"]
  /\ UNCHANGED <<alive, tracer, halted, ctx, refused, stdio>>

\* The kernel either starts the new program or refuses (no such file): then
\* the old one runs on behind the svc instruction.
RunExecve(p) ==
  /\ \E no \in BOOLEAN :
       /\ refused' = [refused EXCEPT ![p] = no]
       /\ ctx' = [ctx EXCEPT ![p] = IF no THEN "injected" ELSE "new"]
  /\ doing' = [doing EXCEPT ![p] = "user"]

\* A process released with a prepared execve runs it as its next instruction.
RunPrepared(p) ==
  /\ Running(p) /\ ctx[p] = "prepared"
  /\ RunExecve(p)
  /\ UNCHANGED <<alive, tracer, halted, input, stdio>>

\* A user types a line at p's terminal; another reader of it takes the line.
TypeLine(p) ==
  /\ alive[p] /\ ~input[p]
  /\ input' = [input EXCEPT ![p] = TRUE]
  /\ UNCHANGED <<alive, tracer, halted, doing, ctx, refused, stdio>>

StealLine(p) ==
  /\ input[p]
  /\ input' = [input EXCEPT ![p] = FALSE]
  /\ UNCHANGED <<alive, tracer, halted, doing, ctx, refused, stdio>>

\* SIGSTOP (or ^Z) and SIGCONT from a shell.
Halt(p) ==
  /\ Running(p)
  /\ halted' = [halted EXCEPT ![p] = TRUE]
  /\ UNCHANGED <<alive, tracer, doing, input, ctx, refused, stdio>>

Continue(p) ==
  /\ alive[p] /\ halted[p]
  /\ halted' = [halted EXCEPT ![p] = FALSE]
  /\ UNCHANGED <<alive, tracer, doing, input, ctx, refused, stdio>>

\* strace, gdb, or the proctool client itself (freeze) traces p for a while.
OtherAttach(p) ==
  /\ alive[p] /\ tracer[p] = "none"
  /\ tracer' = [tracer EXCEPT ![p] = "other"]
  /\ UNCHANGED <<alive, halted, doing, input, ctx, refused, stdio>>

OtherDetach(p) ==
  /\ tracer[p] = "other"
  /\ tracer' = [tracer EXCEPT ![p] = "none"]
  /\ UNCHANGED <<alive, halted, doing, input, ctx, refused, stdio>>

\* p exits or is killed; SIGKILL reaches a traced process as well.
Exit(p) ==
  /\ alive[p]
  /\ alive'  = [alive  EXCEPT ![p] = FALSE]
  /\ tracer' = [tracer EXCEPT ![p] = "none"]
  /\ halted' = [halted EXCEPT ![p] = FALSE]
  /\ doing'  = [doing  EXCEPT ![p] = "user"]
  /\ input'  = [input  EXCEPT ![p] = FALSE]
  /\ ctx'    = [ctx    EXCEPT ![p] = "own"]
  /\ refused' = [refused EXCEPT ![p] = FALSE]
  /\ stdio'  = [stdio  EXCEPT ![p] = AllOpen]

Environment(p) ==
  \/ Block(p) \/ Unblock(p) \/ RunPrepared(p)
  \/ TypeLine(p) \/ StealLine(p)
  \/ Halt(p) \/ Continue(p)
  \/ OtherAttach(p) \/ OtherDetach(p)

=============================================================================

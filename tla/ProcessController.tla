------------------------- MODULE ProcessController -------------------------
(***************************************************************************)
(* The methods of ProcessController (src/proctool/pcontroller.rs) and the  *)
(* terminal helper they use, as actions on the state of one process p.     *)
(* A method whose ptrace calls fail (ESRCH: p is not our stopped tracee)   *)
(* is not enabled: Daemon.tla gives the caller's error path.               *)
(***************************************************************************)
EXTENDS Tracee

\* Wrong: a process of the daemon's own can be attached once more.
AttachableAgain(p) == alive[p] /\ tracer[p] \in {"none", "daemon"}

\* PTRACE_ATTACH is refused (EPERM, ESRCH) for a process that is gone or that
\* anyone traces already, this very daemon included.
Attachable(p) == alive[p] /\ tracer[p] = "none"

\* Every other ptrace request needs p to be the daemon's tracee.
Attached(p) == alive[p] /\ tracer[p] = "daemon"

\* PTRACE_ATTACH and the waitpid that follows it.
attach(p) ==
  /\ Attachable(p)
  /\ tracer' = [tracer EXCEPT ![p] = "daemon"]
  /\ UNCHANGED <<alive, halted, doing, input, ctx, refused, stdio>>

\* detach and detach_and_stop: p runs again, unless a SIGSTOP is in effect or
\* is sent along.
detach_generic(p, sigstop) ==
  /\ Attached(p)
  /\ tracer' = [tracer EXCEPT ![p] = "none"]
  /\ halted' = [halted EXCEPT ![p] = @ \/ sigstop]
  /\ UNCHANGED <<alive, doing, input, ctx, refused, stdio>>

\* Wrong: there is no Drop.
dropNothing(p, detach_on_drop) == UNCHANGED traceeVars

\* The value of detach_on_drop and Drop: an error of detach is ignored.
drop(p, detach_on_drop) ==
  IF detach_on_drop /\ Attached(p)
    THEN detach_generic(p, FALSE)
    ELSE UNCHANGED traceeVars

\* current_syscall finds p stopped in front of a read of descriptor 0.
ReadingStdin(p) == doing[p] = "read"

\* p is blocked in a call that nothing has happened to end.
Blocked(p) == doing[p] = "wait" \/ (ReadingStdin(p) /\ ~input[p])

\* Single steps until the pc moves.  A call p was blocked in is over then, a
\* read of a line with the line; a prepared execve has been executed.  Nothing
\* says when, or that, another call ends: Daemon.tla waits while Blocked(p).
ensure_not_in_syscall(p) ==
  /\ Attached(p)
  /\ ReadingStdin(p) => input[p]
  /\ input' = [input EXCEPT ![p] = @ /\ ~ReadingStdin(p)]
  /\ IF ctx[p] = "prepared"
       THEN RunExecve(p)
       ELSE /\ doing' = [doing EXCEPT ![p] = "user"]
            /\ UNCHANGED <<ctx, refused>>
  /\ UNCHANGED <<alive, tracer, halted, stdio>>

\* write_to_stdin opens /proc/<p>/fd/0, so p must exist and have the descriptor.
CanWriteStdin(p) == alive[p] /\ stdio[p][0] # "closed"

\* It pushes the text and a newline with TIOCSTI: a line is ready, or nothing
\* has changed where the kernel refuses (not a terminal): nobody looks.
write_to_stdin(p) ==
  /\ CanWriteStdin(p)
  /\ \E pushed \in {input[p], stdio[p][0] = "own"} :
       input' = [input EXCEPT ![p] = @ \/ pushed]
  /\ UNCHANGED <<alive, tracer, halted, doing, ctx, refused, stdio>>

get_registers(p) == [ctx |-> ctx[p], doing |-> doing[p]]

\* set_registers: p's registers become r, and with them the call it is in.
set_registers(p, r) ==
  /\ Attached(p)
  /\ ctx' = [ctx EXCEPT ![p] = r.ctx]
  /\ doing' = [doing EXCEPT ![p] = r.doing]
  /\ UNCHANGED <<alive, tracer, halted, input, refused, stdio>>

\* execute_syscall overwrites pc, x8 and x0.. and leaves them so, behind the svc
\* instruction of the [vdso]; fds is what the call makes of p's descriptors.
execute_syscall(p, fds) ==
  /\ Attached(p)
  /\ ctx' = [ctx EXCEPT ![p] = "injected"]
  /\ doing' = [doing EXCEPT ![p] = "user"]
  /\ stdio' = [stdio EXCEPT ![p] = fds]
  /\ UNCHANGED <<alive, tracer, halted, input, refused>>

close(fds, f) == [fds EXCEPT ![f] = "closed"]

\* openat of an existing terminal takes the lowest free descriptor; its result
\* is not looked at, so a terminal that does not exist changes nothing.
openat(fds, exists) ==
  LET free == {f \in Fds : fds[f] = "closed"}
  IN  IF exists /\ free # {}
        THEN [fds EXCEPT ![CHOOSE f \in free : \A g \in free : f <= g] = "tty"]
        ELSE fds

\* execve through execute_syscall: neither outcome is told apart by the caller.
execute_execve(p) ==
  /\ Attached(p)
  /\ RunExecve(p)
  /\ UNCHANGED <<alive, tracer, halted, input, stdio>>

=============================================================================

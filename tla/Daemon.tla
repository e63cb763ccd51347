------------------------------- MODULE Daemon -------------------------------
(***************************************************************************)
(* proctool-daemon at work: run_command (src/proctool/bin/daemon.rs) and   *)
(* takeover (src/proctool/pcontroller.rs), one action per call on the      *)
(* ProcessController, interleaved with everything the processes, their     *)
(* users and other tools do in between.  The daemon is one thread that     *)
(* runs one command at a time; at is the call it makes next.  How commands *)
(* reach it over TCP is the subject of Channel.tla; what the loop of the   *)
(* rot13 and colorize-stderr commands does to its tracee, of TraceLoop.tla.*)
(***************************************************************************)
EXTENDS ProcessController

CONSTANTS
  Ops,      \* the commands clients send in this instance
  Ttys,     \* the kinds of --tty argument they give to redirect
  MaxTtys,  \* the most terminals an oblivion names
  NoPid     \* no process

AllOps ==
  {"Pause", "Resume", "Redirect", "Rewind", "Takeover", "TakeoverPause",
   "Rot13", "ColorizeStderr", "WriteStdin", "Spawn", "Oblivion", "TerminalSizes"}

\* An existing terminal, one that does not exist, and a string that
\* normalize_tty rejects.
AllTtys == {"valid", "missing", "malformed"}

ASSUME ConstantsAssumption ==
  /\ Ops \subseteq AllOps
  /\ Ttys \subseteq AllTtys
  /\ "valid" \in Ttys
  /\ MaxTtys \in Nat
  /\ NoPid \notin Pids

VARIABLES
  up,       \* the daemon process exists
  cmd,      \* the command it runs: op, pid, tty, and left, the number of
            \* terminals that spawn or oblivion still has to look up
  at,       \* the call it makes next, "idle" between commands
  ok,       \* run_command is about to return Ok (FALSE: Err)
  saved,    \* the local variable original_registers (registers)
  paused,   \* history: processes held since a Pause that succeeded
  blamed    \* history: processes that a command which then failed, or that
            \* the death of the daemon cut short, was holding at that moment

daemonVars == <<up, cmd, at, ok, saved, paused, blamed>>
vars == <<alive, tracer, halted, doing, input, ctx, refused, stdio,
          up, cmd, at, ok, saved, paused, blamed>>

ByTerminal == {"Spawn", "Oblivion"}
ByPid == AllOps \ (ByTerminal \cup {"TerminalSizes"})

Commands ==
  [op : (Ops \cap ByPid) \ {"Redirect"}, pid : Pids, tty : {"valid"}, left : {0}]
  \cup [op : Ops \cap {"Redirect"}, pid : Pids, tty : Ttys, left : {0}]
  \cup [op : Ops \cap {"TerminalSizes"}, pid : {NoPid}, tty : {"valid"}, left : {0}]
  \cup [op : Ops \cap {"Spawn"}, pid : {NoPid}, tty : {"valid"}, left : {1}]
  \cup [op : Ops \cap {"Oblivion"}, pid : {NoPid}, tty : {"valid"}, left : 0..MaxTtys]
NoCommand == [op |-> "none", pid |-> NoPid, tty |-> "valid", left |-> 0]
pid == cmd.pid

\* original_registers before it is declared and after its last use.
NoRegisters == [ctx |-> "own", doing |-> "user"]

\* Calls on the tracee: each fails when the tracee is gone.
TraceeCalls ==
  {"cancel", "cancelstep", "save", "close1", "close2", "inject", "open1",
   "open2", "restore", "ensure", "clear", "args", "exec", "prepare",
   "detachstop"}
\* What lies between the attach and the detach of a command.
Working == TraceeCalls \cup {"tty", "loop"}
Labels ==
  TraceeCalls \cup {"idle", "attach", "tty", "loop", "detach",
                   "lookup", "stdin", "unknown", "return"}

TypeOK ==
  /\ TraceeTypeOK
  /\ up \in BOOLEAN
  /\ cmd \in [op : AllOps \cup {"none"}, pid : Pids \cup {NoPid},
             tty : AllTtys, left : 0..(MaxTtys + 1)]
  /\ at \in Labels
  /\ ok \in BOOLEAN
  /\ saved \in RegisterSets
  /\ paused \subseteq Pids
  /\ blamed \subseteq Pids

Init ==
  /\ TraceeInit
  /\ up = TRUE
  /\ cmd = NoCommand
  /\ at = "idle"
  /\ ok = TRUE
  /\ saved = NoRegisters
  /\ paused = {}
  /\ blamed = {}

-----------------------------------------------------------------------------
(* Control flow.                                                            *)

\* The next call is l.
Goto(l) == at' = l /\ UNCHANGED <<up, cmd, ok, saved, paused, blamed>>

\* A command that is cut short here has its process attached.
Cut == IF at \in Working /\ Attached(pid) THEN {pid} ELSE {}

\* The ? operator: run_command returns Err.
Fail ==
  /\ at' = "return"
  /\ ok' = FALSE
  /\ blamed' = blamed \cup Cut
  /\ UNCHANGED <<up, cmd, saved, paused>>

\* Where a command starts.
First(op) ==
  CASE op = "Resume" -> "detach"
    [] op = "WriteStdin" -> "stdin"
    [] op \in ByTerminal -> "lookup"
    [] op = "TerminalSizes" -> "unknown"
    [] OTHER -> "attach"

\* A client's command reaches the idle daemon.
Receive(c) ==
  /\ up /\ at = "idle"
  /\ cmd' = c
  /\ at' = First(c.op)
  /\ UNCHANGED <<alive, tracer, halted, doing, input, ctx, refused, stdio>>
  /\ UNCHANGED <<up, ok, saved, paused, blamed>>

\* The arm that rejects what run_command does not know.
UnknownCommand ==
  /\ at = "unknown"
  /\ Fail
  /\ UNCHANGED traceeVars

Attach ==
  /\ at = "attach"
  /\ attach(pid)
  /\ Goto(CASE cmd.op = "Pause"          -> "return"
            [] cmd.op = "Redirect"       -> "cancel"
            [] cmd.op = "ColorizeStderr" -> "save"
            [] cmd.op = "Rot13"          -> "loop"
            [] OTHER                     -> "ensure")

AttachRefused ==
  /\ at = "attach" /\ ~Attachable(pid)
  /\ Fail
  /\ UNCHANGED traceeVars

\* Any ptrace request, waitpid or /proc access on a tracee that is gone.
TraceeGone ==
  /\ at \in TraceeCalls /\ ~Attached(pid)
  /\ Fail
  /\ UNCHANGED traceeVars

-----------------------------------------------------------------------------
(* The calls of redirect, rewind, takeover and colorize-stderr.             *)

\* Nothing to cancel, or push a newline to end the read p is blocked in; the
\* open of /proc/<p>/fd/0 may fail (a socket, no permission).
CancelPendingRead ==
  /\ at = "cancel" /\ Attached(pid)
  /\ \/ ~ReadingStdin(pid) /\ UNCHANGED traceeVars /\ Goto("save")
     \/ ReadingStdin(pid) /\ write_to_stdin(pid) /\ Goto("cancelstep")
     \/ ReadingStdin(pid) /\ UNCHANGED traceeVars /\ Fail

\* step_and_wait returns when the read has got a line.
CancelStep ==
  /\ at = "cancelstep"
  /\ ensure_not_in_syscall(pid)
  /\ Goto("save")

SaveRegisters ==
  /\ at = "save" /\ Attached(pid)
  /\ saved' = get_registers(pid)
  /\ at' = IF cmd.op = "Redirect" THEN "close1" ELSE "inject"
  /\ UNCHANGED traceeVars
  /\ UNCHANGED <<up, cmd, ok, paused, blamed>>

Close1 ==
  /\ at = "close1"
  /\ execute_syscall(pid, close(stdio[pid], 1))
  /\ Goto("close2")

\* Wrong: the second close is for the same descriptor.
CloseOneTwice ==
  /\ at = "close2"
  /\ execute_syscall(pid, close(stdio[pid], 1))
  /\ Goto("tty")

Close2 ==
  /\ at = "close2"
  /\ execute_syscall(pid, close(stdio[pid], 2))
  /\ Goto("tty")

\* normalize_tty; clear_terminal is best-effort.
NormalizeTty ==
  /\ at = "tty"
  /\ IF cmd.tty = "malformed" THEN Fail ELSE Goto("inject")
  /\ UNCHANGED traceeVars

\* inject_bytes, as often as the command does it, and map_region: mmap in the
\* tracee.  When mmap is refused the write that follows it in inject_bytes
\* fails; map_region has no such write and passes the error on as an address.
Inject ==
  /\ at = "inject"
  /\ execute_syscall(pid, stdio[pid])
  /\ \/ Goto(CASE cmd.op = "Redirect"       -> "open1"
               [] cmd.op = "TakeoverPause"  -> "prepare"
               [] cmd.op = "ColorizeStderr" -> "restore"
               [] OTHER                     -> "exec")
     \/ (cmd.op # "ColorizeStderr" /\ Fail)

\* The first injection of a command reads the memory maps, which it then
\* keeps: no [vdso], or no svc instruction there.
FindSvcInstructionFails ==
  /\ at = IF cmd.op = "Redirect" THEN "close1" ELSE "inject"
  /\ Fail
  /\ UNCHANGED traceeVars

Open1 ==
  /\ at = "open1"
  /\ execute_syscall(pid, openat(stdio[pid], cmd.tty = "valid"))
  /\ Goto("open2")

Open2 ==
  /\ at = "open2"
  /\ execute_syscall(pid, openat(stdio[pid], cmd.tty = "valid"))
  /\ Goto("restore")

\* Wrong: the saved registers are never put back.
RestoreForgotten ==
  /\ at = "restore" /\ Attached(pid)
  /\ UNCHANGED traceeVars
  /\ at' = IF cmd.op = "Redirect" THEN "detach" ELSE "loop"
  /\ saved' = NoRegisters
  /\ UNCHANGED <<up, cmd, ok, paused, blamed>>

RestoreRegisters ==
  /\ at = "restore"
  /\ set_registers(pid, saved)
  /\ at' = IF cmd.op = "Redirect" THEN "detach" ELSE "loop"
  /\ saved' = NoRegisters
  /\ UNCHANGED <<up, cmd, ok, paused, blamed>>

EnsureNotInSyscall ==
  /\ at = "ensure"
  /\ ensure_not_in_syscall(pid)
  /\ Goto(IF cmd.op = "Rewind" THEN "clear" ELSE "inject")

\* get_terminal and clear_terminal, which here must succeed: p may have no
\* terminal.
ClearTerminal ==
  /\ at = "clear" /\ Attached(pid)
  /\ Goto("args") \/ Fail
  /\ UNCHANGED traceeVars

GetCommandLine ==
  /\ at = "args" /\ Attached(pid)
  /\ Goto("inject")
  /\ UNCHANGED traceeVars

Execve ==
  /\ at = "exec"
  /\ execute_execve(pid)
  /\ Goto("detach")

PrepareExecve ==
  /\ at = "prepare"
  /\ set_registers(pid, [ctx |-> "prepared", doing |-> "user"])
  /\ Goto("detachstop")

DetachAndStop ==
  /\ at = "detachstop"
  /\ detach_generic(pid, TRUE)
  /\ Goto("return")

\* The loop of rot13 and colorize-stderr ends when the tracee is gone.
LoopBreak ==
  /\ at = "loop" /\ ~Attached(pid)
  /\ Goto("detach")
  /\ UNCHANGED traceeVars

\* Or with an error of its own: memory it cannot read or write, text that is
\* not UTF-8, a tracee that vanished between two requests.
LoopError ==
  /\ at = "loop"
  /\ Fail
  /\ UNCHANGED traceeVars

Detach ==
  /\ at = "detach"
  /\ detach_generic(pid, FALSE)
  /\ at' = "return"
  /\ paused' = paused \ {pid}
  /\ UNCHANGED <<up, cmd, ok, saved, blamed>>

\* Only the two loops ignore an error of the final detach.
DetachFails ==
  /\ at = "detach" /\ ~Attached(pid)
  /\ IF cmd.op \in {"Rot13", "ColorizeStderr"} THEN Goto("return") ELSE Fail
  /\ UNCHANGED traceeVars

-----------------------------------------------------------------------------
(* The calls of write-stdin, spawn and oblivion.                            *)

\* Wrong: one terminal too many.
LookupTooMany ==
  /\ at = "lookup"
  /\ \E p \in Pids : alive[p] /\ cmd' = [cmd EXCEPT !.pid = p, !.left = @ - 1]
  /\ at' = "stdin"
  /\ UNCHANGED <<up, ok, saved, paused, blamed>>
  /\ UNCHANGED traceeVars

\* Wrong: the same terminal again and again.
LookupAgain ==
  /\ at = "lookup" /\ cmd.left > 0
  /\ \E p \in Pids : alive[p] /\ cmd' = [cmd EXCEPT !.pid = p]
  /\ at' = "stdin"
  /\ UNCHANGED <<up, ok, saved, paused, blamed>>
  /\ UNCHANGED traceeVars

\* get_session_id_for_terminal: some process of the terminal, or none.
Lookup ==
  /\ at = "lookup" /\ cmd.left > 0
  /\ \/ /\ \E p \in Pids :
             alive[p] /\ cmd' = [cmd EXCEPT !.pid = p, !.left = @ - 1]
        /\ at' = "stdin"
        /\ UNCHANGED <<up, ok, saved, paused, blamed>>
     \/ Fail
  /\ UNCHANGED traceeVars

LookupDone ==
  /\ at = "lookup" /\ cmd.left = 0
  /\ Goto("return")
  /\ UNCHANGED traceeVars

WriteToStdin ==
  /\ at = "stdin"
  /\ write_to_stdin(pid)
  /\ Goto(IF cmd.op \in ByTerminal THEN "lookup" ELSE "return")

\* The open fails, of a descriptor that exists as well.
WriteToStdinFails ==
  /\ at = "stdin"
  /\ Fail
  /\ UNCHANGED traceeVars

-----------------------------------------------------------------------------
(* The end of a command and of the daemon.                                  *)

\* Every other command makes a ProcessController, dropped on return.
Controls == cmd.op \in ByPid \ {"WriteStdin"}

\* Wrong: detach_on_drop is left TRUE for a pause.
ReturnAlwaysDetaches ==
  /\ at = "return"
  /\ IF Controls
       THEN drop(pid, TRUE)
       ELSE UNCHANGED traceeVars
  /\ paused' = IF cmd.op = "Pause" /\ ok /\ Attached(pid)
                 THEN paused \cup {pid}
                 ELSE {p \in paused : tracer'[p] = "daemon"}
  /\ cmd' = NoCommand /\ at' = "idle" /\ ok' = TRUE /\ saved' = NoRegisters
  /\ UNCHANGED <<up, blamed>>

\* run_command returns, the controller is dropped, handle_client logs an error.
Return ==
  /\ at = "return"
  /\ IF Controls
       THEN drop(pid, cmd.op # "Pause")
       ELSE UNCHANGED traceeVars
  /\ paused' = IF cmd.op = "Pause" /\ ok /\ Attached(pid)
                 THEN paused \cup {pid}
                 ELSE {p \in paused : tracer'[p] = "daemon"}
  /\ cmd' = NoCommand /\ at' = "idle" /\ ok' = TRUE /\ saved' = NoRegisters
  /\ UNCHANGED <<up, blamed>>

\* The kernel detaches the tracees of a tracer that exits.
ExitDaemon ==
  /\ up' = FALSE
  /\ tracer' = [p \in Pids |-> IF tracer[p] = "daemon" THEN "none" ELSE tracer[p]]
  /\ paused' = {}
  /\ blamed' = blamed \cup Cut
  /\ cmd' = NoCommand /\ at' = "idle" /\ ok' = TRUE /\ saved' = NoRegisters
  /\ UNCHANGED <<alive, halted, doing, input, ctx, refused, stdio>>

\* The Kill message is read between two commands.
Kill == up /\ at = "idle" /\ ExitDaemon

\* An unwrap in procinfo on a process that exits while it is looked at; in the
\* loop of colorize-stderr, as many bytes as the tracee names do not fit.
Panic ==
  /\ at = "lookup" \/ (at = "loop" /\ cmd.op = "ColorizeStderr")
  /\ ExitDaemon

\* SIGKILL at any time.
Crash == up /\ ExitDaemon

Start ==
  /\ ~up
  /\ up' = TRUE
  /\ UNCHANGED traceeVars
  /\ UNCHANGED <<cmd, at, ok, saved, paused, blamed>>

-----------------------------------------------------------------------------

ProcessExits(p) ==
  /\ Exit(p)
  /\ paused' = paused \ {p}
  /\ blamed' = blamed \ {p}
  /\ UNCHANGED <<up, cmd, at, ok, saved>>

\* What the daemon's thread does by itself once it has a command.  In front of
\* a call its tracee is blocked in, it waits (waitpid) for that call to end.
Progress ==
  \/ UnknownCommand \/ Attach \/ AttachRefused \/ TraceeGone
  \/ CancelPendingRead \/ (CancelStep /\ ~Blocked(pid)) \/ SaveRegisters
  \/ Close1 \/ Close2 \/ NormalizeTty \/ Inject
  \/ FindSvcInstructionFails \/ Open1 \/ Open2
  \/ RestoreRegisters \/ (EnsureNotInSyscall /\ ~Blocked(pid)) \/ ClearTerminal \/ GetCommandLine
  \/ Execve \/ PrepareExecve \/ DetachAndStop
  \/ LoopBreak \/ Detach \/ DetachFails
  \/ Lookup \/ LookupDone \/ WriteToStdin \/ WriteToStdinFails
  \/ Return

Next ==
  \/ \E c \in Commands : Receive(c)
  \/ Progress
  \/ EnsureNotInSyscall \/ LoopError
  \/ Kill \/ Panic \/ Crash \/ Start
  \/ \E p \in Pids : Environment(p) /\ UNCHANGED daemonVars
  \/ \E p \in Pids : ProcessExits(p)

Spec == Init /\ [][Next]_vars

\* The daemon's thread is scheduled.  Nothing is assumed of processes, users,
\* clients or other tools.
LiveSpec == Spec /\ WF_vars(Progress)

-----------------------------------------------------------------------------
(* Properties.                                                              *)

Holds == {p \in Pids : tracer[p] = "daemon"}

\* The process the command in progress acts upon.
Busy(p) == at # "idle" /\ pid = p

\* Between commands the daemon holds exactly the processes that a successful
\* pause left trapped: whichever call of a command fails (?, then Drop), its
\* process is not kept, and no pause is forgotten (pcontroller.rs Drop,
\* daemon.rs Pause).
IdleHoldsOnlyPaused == at = "idle" => Holds = paused

\* A process is let go with the registers of an injected call only where a
\* command failed, or died with the daemon, while it held that process, or
\* where the kernel refused the execve of a rewind or takeover, which those
\* report as a success.  Every other command that succeeds gave the program its
\* registers back or replaced the program (daemon.rs Redirect, Rewind,
\* ColorizeStderr; pcontroller.rs takeover).
RegistersAccountedFor ==
  \A p \in Pids :
    alive[p] /\ ctx[p] = "injected" => Busy(p) \/ p \in blamed \/ refused[p]

\* A redirect that reports success to a process that had its three descriptors
\* made both its outputs lead to the terminal (daemon.rs Redirect: openat takes
\* the lowest free descriptor, and its result is not looked at).
RedirectDelivers ==
  /\ at = "return" /\ ok
  /\ cmd.op = "Redirect" /\ cmd.tty = "valid"
  /\ alive[pid] /\ stdio[pid][0] = "own"
  => stdio[pid][1] = "tty" /\ stdio[pid][2] = "tty"

\* A pause ends with a resume of that process, its death, the end of the
\* daemon, or (ProcessController is dropped on the error path) at the return
\* of another command for that process, which has failed.
PauseEnds(p) ==
  (p \in paused /\ p \notin paused') =>
    \/ ~alive'[p]
    \/ up /\ ~up'
    \/ at = "detach" /\ pid = p /\ cmd.op = "Resume"
    \/ at = "return" /\ pid = p /\ cmd.op \notin {"Pause", "Resume"} /\ ~ok

PauseEndsOnly == [][\A p \in Pids : PauseEnds(p)]_vars

\* Nothing the daemon does changes the registers or the descriptors of a
\* process while it is paused: PTRACE_ATTACH fails first (pcontroller.rs attach).
PausedUntouched ==
  [][\A p \in paused : p \in paused' =>
       ctx'[p] = ctx[p] /\ stdio'[p] = stdio[p]]_vars

\* Custody.tla, with a process worked upon while the daemon holds it unpaused.
Mode(p) ==
  IF p \notin Holds THEN "free" ELSE IF p \in paused THEN "paused" ELSE "working"

C == INSTANCE Custody WITH mode <- [p \in Pids |-> Mode(p)]

\* The daemon takes, keeps and releases processes as Custody.tla says
\* (daemon.rs run_command, pcontroller.rs attach, detach, Drop).
CustodySpec == C!Spec

\* Why the above hold: an inductive invariant in three parts.

\* Which commands reach which calls, and when pid is a process.
Shape ==
  /\ at = "idle" <=> cmd.op = "none"
  /\ cmd.op \in ByPid => pid \in Pids
  /\ at = "stdin" => pid \in Pids
  /\ at \in {"lookup", "stdin", "unknown"} => ~Controls
  /\ at \in Working \cup {"attach", "detach"} => Controls
  /\ at \in Working => cmd.op # "Pause"
  /\ at \in Working \cup {"attach"} => cmd.op # "Resume"
  /\ at \in {"cancel", "cancelstep", "close1", "close2", "tty", "open1", "open2"}
       => cmd.op = "Redirect"
  /\ at \in {"save", "restore"} => cmd.op \in {"Redirect", "ColorizeStderr"}
  /\ ~ok => at = "return"
  /\ ~up => at = "idle"

\* Whom the daemon holds at each call: between attach and detach the process
\* cannot run or be taken by another tool.
Holding ==
  /\ \A p \in Holds : alive[p]
  /\ paused \subseteq Holds
  /\ \A p \in Holds :
       p \in paused \/ (pid = p /\ Controls /\ at \in Working \cup {"detach", "return"})
  /\ at \in Working => pid \notin paused /\ (alive[pid] => pid \in Holds)
  /\ at = "detach" /\ cmd.op # "Resume" => pid \notin paused
  /\ at = "return" /\ cmd.op = "Pause" /\ ~ok /\ pid \in Holds => pid \in paused
  /\ at = "return" /\ (cmd.op = "Resume" \/ (Controls /\ cmd.op # "Pause" /\ ok))
       => pid \notin paused

\* Calls before which the registers may be those of an earlier injected call.
Injected == {"close2", "tty", "inject", "open1", "open2", "restore", "exec", "prepare"}

\* Calls made with original_registers in hand.
Restorable == {"close1", "close2", "tty", "inject", "open1", "open2", "restore"}

\* Whose registers are injected, and where original_registers may hold such.
Registers ==
  /\ saved.ctx = "injected" =>
       /\ cmd.op \in {"Redirect", "ColorizeStderr"}
       /\ at \in Restorable \cup {"return"}
       /\ alive[pid] => pid \in Holds /\ (pid \in blamed \/ refused[pid])
  /\ \A p \in Pids : alive[p] /\ ctx[p] = "injected" =>
       p \in blamed \/ refused[p] \/ (pid = p /\ at \in Injected)

\* The invariant the proofs rest on: at every call of a command the daemon
\* holds its process (daemon.rs, from attach to detach), the paused ones and
\* nothing else, and knows of every register set it has not given back.
IInv == TypeOK /\ Shape /\ Holding /\ Registers

\* The daemon waits for the end of a call that nothing has happened to end
\* (pcontroller.rs ensure_not_in_syscall, cancel_pending_read).
WaitsForTracee ==
  at \in {"ensure", "cancelstep"} /\ Attached(pid) /\ Blocked(pid)

\* A command comes to an end unless its tracee makes the daemon wait, for good
\* or again and again, or it is in the loop of rot13 or colorize-stderr for good.
CommandEnds ==
  <>[](at # "idle") => []<>WaitsForTracee \/ <>[](at = "loop")

=============================================================================

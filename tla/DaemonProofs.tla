---------------------------- MODULE DaemonProofs ----------------------------
(***************************************************************************)
(* Theorems about Daemon.tla, for any set of processes, any set of         *)
(* commands and any number of terminals.                                   *)
(***************************************************************************)
EXTENDS Daemon, TLAPS

\* What a command a client can send looks like (mod.rs Args).
LEMMA CommandsTyped ==
  ASSUME NEW c \in Commands
  PROVE  /\ c \in [op : AllOps \cup {"none"}, pid : Pids \cup {NoPid},
                   tty : AllTtys, left : 0..(MaxTtys + 1)]
         /\ c.op \in AllOps
         /\ c.op \in ByPid => c.pid \in Pids
<1> DEFINE Kind(ops, pids, ttys, lefts) == [op : ops, pid : pids, tty : ttys, left : lefts]
<1>1. ASSUME NEW ops \in SUBSET AllOps, NEW pids \in SUBSET (Pids \cup {NoPid}),
             NEW ttys \in SUBSET AllTtys, NEW lefts \in SUBSET (0..(MaxTtys + 1)),
             pids = Pids \/ ops \cap ByPid = {},
             c \in Kind(ops, pids, ttys, lefts)
      PROVE  /\ c \in Kind(AllOps \cup {"none"}, Pids \cup {NoPid}, AllTtys, 0..(MaxTtys + 1))
             /\ c.op \in AllOps
             /\ c.op \in ByPid => c.pid \in Pids
  BY <1>1
<1>2. /\ Ops \subseteq AllOps /\ Ttys \subseteq AllTtys /\ {"valid"} \subseteq AllTtys
      /\ {0} \subseteq 0..(MaxTtys + 1) /\ {1} \subseteq 0..(MaxTtys + 1)
      /\ 0..MaxTtys \subseteq 0..(MaxTtys + 1)
  BY ConstantsAssumption DEF ConstantsAssumption, AllTtys
<1>3. \/ c \in Kind((Ops \cap ByPid) \ {"Redirect"}, Pids, {"valid"}, {0})
      \/ c \in Kind(Ops \cap {"Redirect"}, Pids, Ttys, {0})
      \/ c \in Kind(Ops \cap {"TerminalSizes"}, {NoPid}, {"valid"}, {0})
      \/ c \in Kind(Ops \cap {"Spawn"}, {NoPid}, {"valid"}, {1})
      \/ c \in Kind(Ops \cap {"Oblivion"}, {NoPid}, {"valid"}, 0..MaxTtys)
  BY DEF Commands
<1> HIDE DEF Kind
<1>4. /\ {"TerminalSizes"} \cap ByPid = {} 
      /\ {"Spawn"} \cap ByPid = {}
      /\ {"Oblivion"} \cap ByPid = {}
  BY DEF ByPid, ByTerminal
<1>5. CASE c \in Kind((Ops \cap ByPid) \ {"Redirect"}, Pids, {"valid"}, {0})
  BY <1>1, <1>2, <1>5 DEF Kind
<1>6. CASE c \in Kind(Ops \cap {"Redirect"}, Pids, Ttys, {0})
  BY <1>1, <1>2, <1>6 DEF Kind
<1>7. CASE c \in Kind(Ops \cap {"TerminalSizes"}, {NoPid}, {"valid"}, {0})
  BY <1>1, <1>2, <1>4, <1>7 DEF Kind
<1>8. CASE c \in Kind(Ops \cap {"Spawn"}, {NoPid}, {"valid"}, {1})
  BY <1>1, <1>2, <1>4, <1>8 DEF Kind
<1>9. CASE c \in Kind(Ops \cap {"Oblivion"}, {NoPid}, {"valid"}, 0..MaxTtys)
  BY <1>1, <1>2, <1>4, <1>9 DEF Kind
<1> QED
  BY <1>3, <1>5, <1>6, <1>7, <1>8, <1>9

LEMMA NoCommandTyped ==
  /\ NoCommand \in [op : AllOps \cup {"none"}, pid : Pids \cup {NoPid},
                    tty : AllTtys, left : 0..(MaxTtys + 1)]
  /\ NoCommand.op = "none" /\ NoCommand.op \notin AllOps
  /\ "idle" \in Labels /\ NoRegisters \in RegisterSets /\ NoRegisters.ctx = "own"
<1>1. 0 \in 0..(MaxTtys + 1) /\ "valid" \in AllTtys
  BY ConstantsAssumption DEF ConstantsAssumption, AllTtys
<1> QED
  BY <1>1 DEF NoCommand, AllOps, Labels, Contexts, Activities, RegisterSets, NoRegisters

\* The methods of ProcessController and the processes themselves keep the
\* state of the processes typed.
LEMMA ControllerTypes ==
  ASSUME TraceeTypeOK,
         NEW p \in Pids,
         \/ attach(p)
         \/ \E b \in BOOLEAN : detach_generic(p, b) \/ drop(p, b)
         \/ ensure_not_in_syscall(p) \/ write_to_stdin(p) \/ execute_execve(p)
         \/ \E r \in RegisterSets : set_registers(p, r)
         \/ \E fds \in [Fds -> Ends] : execute_syscall(p, fds)
  PROVE  TraceeTypeOK'
<1> USE DEF TraceeTypeOK
<1>1. CASE attach(p)
  BY <1>1 DEF attach, Tracers
<1>2. ASSUME NEW b \in BOOLEAN, detach_generic(p, b) PROVE TraceeTypeOK'
  BY <1>2 DEF detach_generic, Tracers
<1>3. ASSUME NEW b \in BOOLEAN, drop(p, b) PROVE TraceeTypeOK'
  BY <1>2, <1>3 DEF drop, traceeVars
<1>4. CASE ensure_not_in_syscall(p)
  BY <1>4 DEF ensure_not_in_syscall, RunExecve, ReadingStdin, Contexts, Activities
<1>5. CASE write_to_stdin(p)
  BY <1>5 DEF write_to_stdin
<1>6. CASE execute_execve(p)
  BY <1>6 DEF execute_execve, RunExecve, Contexts, Activities
<1>7. ASSUME NEW r \in RegisterSets, set_registers(p, r) PROVE TraceeTypeOK'
  BY <1>7 DEF set_registers, RegisterSets
<1>8. ASSUME NEW fds \in [Fds -> Ends], execute_syscall(p, fds) PROVE TraceeTypeOK'
  BY <1>8 DEF execute_syscall, Contexts, Activities
<1> QED
  BY <1>1, <1>2, <1>3, <1>4, <1>5, <1>6, <1>7, <1>8

LEMMA EnvironmentTypes ==
  ASSUME TraceeTypeOK, NEW p \in Pids, Environment(p) \/ Exit(p)
  PROVE  TraceeTypeOK'
<1> USE DEF TraceeTypeOK
<1>1. CASE Block(p)
  BY <1>1 DEF Block, Activities
<1>2. CASE Unblock(p)
  BY <1>2 DEF Unblock, Activities
<1>3. CASE RunPrepared(p)
  BY <1>3 DEF RunPrepared, RunExecve, Contexts, Activities
<1>4. CASE TypeLine(p) \/ StealLine(p)
  BY <1>4 DEF TypeLine, StealLine
<1>5. CASE Halt(p) \/ Continue(p)
  BY <1>5 DEF Halt, Continue
<1>6. CASE OtherAttach(p) \/ OtherDetach(p)
  BY <1>6 DEF OtherAttach, OtherDetach, Tracers
<1>7. CASE Exit(p)
  BY <1>7 DEF Exit, Tracers, Activities, Contexts, AllOpen, Ends
<1> QED
  BY <1>1, <1>2, <1>3, <1>4, <1>5, <1>6, <1>7 DEF Environment

\* Closing and opening descriptors leave a process three of them.
LEMMA DescriptorTypes ==
  ASSUME NEW fds \in [Fds -> Ends], NEW f \in Fds, NEW b \in BOOLEAN
  PROVE  close(fds, f) \in [Fds -> Ends] /\ openat(fds, b) \in [Fds -> Ends]
  BY DEF close, openat, Ends

\* No call gives a variable a value out of its type.
LEMMA TypePreserved == TypeOK /\ Shape /\ [Next]_vars => TypeOK'
<1> SUFFICES ASSUME TypeOK, Shape, [Next]_vars PROVE TypeOK'
  OBVIOUS
<1> USE ConstantsAssumption DEF ConstantsAssumption
<1> USE DEF TypeOK, Shape, Goto, Fail, Cut, Labels, TraceeCalls, Working, Controls, pid, traceeVars
<1>1. ASSUME NEW c \in Commands, Receive(c) PROVE TypeOK'
  BY <1>1, CommandsTyped DEF Receive, First, TraceeTypeOK
<1>2. at \in Working \cup {"attach", "detach"} => pid \in Pids
  OBVIOUS
<1>3. CASE UnknownCommand \/ AttachRefused \/ TraceeGone \/ NormalizeTty
           \/ FindSvcInstructionFails \/ ClearTerminal \/ GetCommandLine
           \/ LoopBreak \/ LoopError \/ DetachFails \/ LookupDone \/ WriteToStdinFails
  BY <1>3 DEF UnknownCommand, AttachRefused, TraceeGone, NormalizeTty,
       FindSvcInstructionFails, ClearTerminal, GetCommandLine, LoopBreak, LoopError,
       DetachFails, LookupDone, WriteToStdinFails, TraceeTypeOK
<1>4. CASE Attach
  BY <1>2, <1>4, ControllerTypes DEF Attach
<1>5. CASE CancelPendingRead
  BY <1>2, <1>5, ControllerTypes DEF CancelPendingRead, TraceeTypeOK
<1>6. CASE CancelStep \/ EnsureNotInSyscall
  BY <1>2, <1>6, ControllerTypes DEF CancelStep, EnsureNotInSyscall
<1>7. CASE SaveRegisters
  BY <1>2, <1>7 DEF SaveRegisters, TraceeTypeOK, get_registers, RegisterSets
<1>8. CASE Close1 \/ Close2
  <2>1. stdio[pid] \in [Fds -> Ends] /\ 1 \in Fds /\ 2 \in Fds
    BY <1>2, <1>8 DEF Close1, Close2, TraceeTypeOK, Fds
  <2> QED
    BY <1>2, <1>8, <2>1, ControllerTypes, DescriptorTypes DEF Close1, Close2
<1>9. CASE Inject
  BY <1>2, <1>9, ControllerTypes DEF Inject, TraceeTypeOK
<1>10. CASE Open1 \/ Open2
  <2>1. stdio[pid] \in [Fds -> Ends] /\ 1 \in Fds
    BY <1>2, <1>10 DEF Open1, Open2, TraceeTypeOK, Fds
  <2> QED
    BY <1>2, <1>10, <2>1, ControllerTypes, DescriptorTypes DEF Open1, Open2
<1>11. CASE RestoreRegisters \/ PrepareExecve
  <2>1. [ctx |-> "prepared", doing |-> "user"] \in RegisterSets
    BY DEF RegisterSets, Contexts, Activities
  <2>2. TraceeTypeOK'
    BY <1>2, <1>11, <2>1, ControllerTypes DEF RestoreRegisters, PrepareExecve
  <2> QED
    BY <1>11, <2>2, NoCommandTyped DEF RestoreRegisters, PrepareExecve
<1>12. CASE Execve
  BY <1>2, <1>12, ControllerTypes DEF Execve
<1>13. CASE DetachAndStop \/ Detach
  BY <1>2, <1>13, ControllerTypes DEF DetachAndStop, Detach
<1>14. CASE Lookup
  <2>1. TraceeTypeOK'
    BY <1>14 DEF Lookup, TraceeTypeOK
  <2>2. ASSUME NEW p \in Pids, cmd.left > 0, cmd' = [cmd EXCEPT !.pid = p, !.left = @ - 1]
        PROVE  cmd' \in [op : AllOps \cup {"none"}, pid : Pids \cup {NoPid},
                         tty : AllTtys, left : 0..(MaxTtys + 1)]
    <3>1. cmd.left - 1 \in 0..(MaxTtys + 1)
      BY <2>2
    <3> QED
      BY <2>2, <3>1
  <2> QED
    BY <1>14, <2>1, <2>2 DEF Lookup
<1>15. CASE WriteToStdin
  BY <1>15, ControllerTypes DEF WriteToStdin
<1>16. CASE Return
  <2>1. TraceeTypeOK'
    BY <1>16, ControllerTypes DEF Return, TraceeTypeOK
  <2>2. /\ UNCHANGED <<up, blamed>>
        /\ cmd' = NoCommand /\ at' = "idle" /\ ok' = TRUE /\ saved' = NoRegisters
    BY <1>16 DEF Return
  <2>3. paused' \subseteq Pids
    BY <1>16 DEF Return, ByPid, AllOps, ByTerminal
  <2> QED
    BY <2>1, <2>2, <2>3, NoCommandTyped
<1>17. CASE Kill \/ Panic \/ Crash
  <2>1. TraceeTypeOK'
    BY <1>17 DEF Kill, Panic, Crash, ExitDaemon, TraceeTypeOK, Tracers
  <2> QED
    BY <1>17, <2>1, NoCommandTyped DEF Kill, Panic, Crash, ExitDaemon
<1>18. CASE Start
  BY <1>18 DEF Start, TraceeTypeOK
<1>19. ASSUME NEW p \in Pids, Environment(p), UNCHANGED daemonVars PROVE TypeOK'
  BY <1>19, EnvironmentTypes DEF daemonVars
<1>20. ASSUME NEW p \in Pids, ProcessExits(p) PROVE TypeOK'
  BY <1>20, EnvironmentTypes DEF ProcessExits
<1>21. CASE UNCHANGED vars
  BY <1>21 DEF vars, TraceeTypeOK
<1> QED
  BY <1>1, <1>3, <1>4, <1>5, <1>6, <1>7, <1>8, <1>9, <1>10, <1>11, <1>12, <1>13, <1>14,
     <1>15, <1>16, <1>17, <1>18, <1>19, <1>20, <1>21 DEF Next, Progress

\* A call is reached by the commands that make it, and the commands that make
\* calls on a process have been given one.
LEMMA ShapePreserved == TypeOK /\ Shape /\ [Next]_vars => Shape'
<1> SUFFICES ASSUME TypeOK, Shape, [Next]_vars PROVE Shape'
  OBVIOUS
<1> USE DEF Shape, Goto, Fail, Cut, TraceeCalls, Working, Controls, pid, ByPid, ByTerminal, AllOps
<1>1. ASSUME NEW c \in Commands, Receive(c) PROVE Shape'
  BY <1>1, CommandsTyped DEF Receive, First
<1>2. CASE UnknownCommand \/ AttachRefused \/ TraceeGone \/ NormalizeTty
           \/ FindSvcInstructionFails \/ ClearTerminal \/ GetCommandLine
           \/ LoopBreak \/ LoopError \/ DetachFails \/ LookupDone \/ WriteToStdinFails
  BY <1>2 DEF UnknownCommand, AttachRefused, TraceeGone, NormalizeTty,
       FindSvcInstructionFails, ClearTerminal, GetCommandLine, LoopBreak, LoopError,
       DetachFails, LookupDone, WriteToStdinFails
<1>3. CASE Attach \/ CancelPendingRead \/ CancelStep \/ EnsureNotInSyscall
  BY <1>3 DEF Attach, CancelPendingRead, CancelStep, EnsureNotInSyscall
<1>4. CASE SaveRegisters \/ Close1 \/ Close2 \/ Inject \/ Open1 \/ Open2
  BY <1>4 DEF SaveRegisters, Close1, Close2, Inject, Open1, Open2
<1>5. CASE RestoreRegisters \/ PrepareExecve \/ Execve \/ DetachAndStop \/ Detach
  BY <1>5 DEF RestoreRegisters, PrepareExecve, Execve, DetachAndStop, Detach
<1>6. CASE Lookup \/ WriteToStdin
  BY <1>6 DEF Lookup, WriteToStdin, TypeOK
<1>7. CASE Return \/ Kill \/ Panic \/ Crash
  BY <1>7, NoCommandTyped DEF Return, Kill, Panic, Crash, ExitDaemon, NoCommand
<1>8. CASE Start \/ UNCHANGED vars
  BY <1>8 DEF Start, vars
<1>9. CASE UNCHANGED daemonVars
  BY <1>9 DEF daemonVars
<1>10. ASSUME NEW p \in Pids, ProcessExits(p) PROVE Shape'
  BY <1>10 DEF ProcessExits
<1> QED
  BY <1>1, <1>2, <1>3, <1>4, <1>5, <1>6, <1>7, <1>8, <1>9, <1>10 DEF Next, Progress

\* Who is held, call by call.
LEMMA HoldingPreserved == TypeOK /\ Shape /\ Holding /\ [Next]_vars => Holding'
<1> SUFFICES ASSUME TypeOK, Shape, Holding, [Next]_vars PROVE Holding'
  OBVIOUS
<1>t. TypeOK' /\ Shape'
  BY TypePreserved, ShapePreserved
<1> USE <1>t DEF TypeOK, TraceeTypeOK, Shape, Holding, Holds, Goto, Fail, Cut, TraceeCalls, Working,
      Controls, pid, Attached, Attachable, ByPid, AllOps, ByTerminal, traceeVars
<1>1. ASSUME NEW c \in Commands, Receive(c) PROVE Holding'
  BY <1>1, CommandsTyped DEF Receive, First
<1>2. CASE UnknownCommand \/ AttachRefused \/ TraceeGone \/ NormalizeTty
           \/ FindSvcInstructionFails \/ ClearTerminal \/ GetCommandLine \/ LoopError
  <2>1. CASE AttachRefused
    BY <2>1 DEF AttachRefused
  <2>2. CASE UnknownCommand
    BY <2>2 DEF UnknownCommand
  <2>3. CASE TraceeGone \/ FindSvcInstructionFails
    BY <2>3 DEF TraceeGone, FindSvcInstructionFails
  <2>4. CASE NormalizeTty \/ LoopError
    BY <2>4 DEF NormalizeTty, LoopError
  <2>5. CASE ClearTerminal \/ GetCommandLine
    BY <2>5 DEF ClearTerminal, GetCommandLine
  <2> QED
    BY <1>2, <2>1, <2>2, <2>3, <2>4, <2>5
<1>14. CASE LoopBreak \/ DetachFails \/ LookupDone \/ WriteToStdinFails
  <2>1. CASE LoopBreak
    BY <2>1 DEF LoopBreak
  <2>2. CASE DetachFails
    BY <2>2 DEF DetachFails
  <2>3. CASE LookupDone \/ WriteToStdinFails
    BY <2>3 DEF LookupDone, WriteToStdinFails
  <2> QED
    BY <1>14, <2>1, <2>2, <2>3
<1>3. CASE Attach
  BY <1>3 DEF Attach, attach
<1>4. CASE CancelPendingRead \/ CancelStep \/ EnsureNotInSyscall
  BY <1>4 DEF CancelPendingRead, CancelStep, EnsureNotInSyscall, ensure_not_in_syscall,
       write_to_stdin
<1>5. CASE SaveRegisters \/ Close1 \/ Close2 \/ Inject \/ Open1 \/ Open2
  BY <1>5 DEF SaveRegisters, Close1, Close2, Inject, Open1, Open2, execute_syscall
<1>6. CASE RestoreRegisters \/ PrepareExecve \/ Execve
  BY <1>6 DEF RestoreRegisters, PrepareExecve, Execve, set_registers, execute_execve
<1>7. CASE DetachAndStop \/ Detach
  BY <1>7 DEF DetachAndStop, Detach, detach_generic
<1>8. CASE Lookup \/ WriteToStdin
  BY <1>8 DEF Lookup, WriteToStdin, write_to_stdin
<1>9. CASE Return
  BY <1>9 DEF Return, drop, detach_generic, NoCommand
<1>10. CASE Kill \/ Panic \/ Crash
  BY <1>10 DEF Kill, Panic, Crash, ExitDaemon, NoCommand
<1>11. CASE Start \/ UNCHANGED vars
  BY <1>11 DEF Start, vars
<1>12. ASSUME NEW p \in Pids, Environment(p), UNCHANGED daemonVars PROVE Holding'
  BY <1>12 DEF daemonVars, Environment, Block, Unblock, RunPrepared, TypeLine, StealLine,
       Halt, Continue, OtherAttach, OtherDetach
<1>13. ASSUME NEW p \in Pids, ProcessExits(p) PROVE Holding'
  BY <1>13 DEF ProcessExits, Exit
<1> QED
  BY <1>1, <1>2, <1>3, <1>4, <1>5, <1>6, <1>7, <1>8, <1>9, <1>10, <1>11, <1>12, <1>13,
     <1>14 DEF Next, Progress

\* A command that is cut short while it works on a process holds that process.
LEMMA CutBlames ==
  ASSUME TypeOK, Shape, Holding, at \in Working, alive[pid]
  PROVE  Cut = {pid}
  BY DEF TypeOK, Shape, Holding, Holds, Attached, Cut

\* Whose registers hold the values of an injected call, call by call.
LEMMA RegistersPreserved == TypeOK /\ Shape /\ Holding /\ Registers /\ [Next]_vars => Registers'
<1> SUFFICES ASSUME TypeOK, Shape, Holding, Registers, [Next]_vars PROVE Registers'
  OBVIOUS
<1>w. at \in Working /\ alive[pid] => Cut = {pid}
  BY CutBlames
<1>c. Controls <=> cmd.op \in ByPid \ {"WriteStdin"}
  BY DEF Controls
<1> USE DEF TypeOK, TraceeTypeOK, Shape, Registers, Injected, Goto, traceeVars
<1>p. /\ Controls => pid \in Pids
      /\ Injected \subseteq Working \cup {"restore"} /\ Working \cap {"idle", "return"} = {}
      /\ Controls' = Controls \/ cmd' # cmd
  BY DEF Controls, ByPid, AllOps, ByTerminal, Working, TraceeCalls
\* Steps that leave the registers as they are, and end no command but by blaming.
<1>k. ASSUME UNCHANGED <<alive, ctx, refused, cmd, saved>>,
             blamed \subseteq blamed',
             at \in Injected => at' \in Injected \/ (alive[pid] => pid \in blamed'),
             saved.ctx = "injected" => /\ at' \in Restorable \cup {"return"}
                                       /\ alive[pid] /\ pid \in Holds => pid \in Holds'
      PROVE  Registers'
  BY <1>k DEF pid, Restorable
<1>1. ASSUME NEW c \in Commands, Receive(c) PROVE Registers'
  BY <1>1, CommandsTyped DEF Receive, First, pid, Controls, ByPid, AllOps, ByTerminal
<1>f. ASSUME Fail, UNCHANGED traceeVars PROVE Registers'
  <2>1. at \in Injected => (alive[pid] => pid \in blamed')
    BY <1>f, <1>w, <1>p DEF Fail, Working, TraceeCalls
  <2> QED
    BY <1>f, <1>k, <2>1 DEF Fail, Holds, pid
<1>2. CASE UnknownCommand \/ AttachRefused \/ TraceeGone \/ NormalizeTty
           \/ FindSvcInstructionFails \/ ClearTerminal \/ GetCommandLine
           \/ LoopBreak \/ LoopError \/ DetachFails \/ LookupDone \/ WriteToStdinFails
  <2>1. \/ Fail /\ UNCHANGED traceeVars
        \/ /\ UNCHANGED traceeVars /\ UNCHANGED <<cmd, saved, blamed>>
           /\ at \in {"tty", "clear", "args", "loop", "detach", "lookup"}
           /\ at = "tty" => at' = "inject"
    BY <1>2 DEF UnknownCommand, AttachRefused, TraceeGone, NormalizeTty,
         FindSvcInstructionFails, ClearTerminal, GetCommandLine, LoopBreak, LoopError,
         DetachFails, LookupDone, WriteToStdinFails
  <2> QED
    BY <1>f, <1>k, <2>1 DEF Holds, pid, Restorable
<1>3. CASE Attach
  BY <1>3, <1>k DEF Attach, attach, Restorable
<1>4. CASE CancelPendingRead
  BY <1>4, <1>f, <1>k DEF CancelPendingRead, write_to_stdin, Restorable
<1>14. CASE CancelStep \/ EnsureNotInSyscall
  <2>1. /\ at \in {"cancelstep", "ensure"} /\ pid \in Pids
        /\ UNCHANGED <<alive, cmd, saved, blamed>>
        /\ \/ UNCHANGED <<ctx, refused>>
           \/ \E no \in BOOLEAN : /\ refused' = [refused EXCEPT ![pid] = no]
                                 /\ ctx' = [ctx EXCEPT ![pid] = IF no THEN "injected" ELSE "new"]
    BY <1>14, <1>p DEF CancelStep, EnsureNotInSyscall, ensure_not_in_syscall, RunExecve,
         Working, TraceeCalls
  <2>2. CASE UNCHANGED <<ctx, refused>>
    BY <1>k, <2>1, <2>2 DEF Restorable
  <2>3. ASSUME NEW no \in BOOLEAN, refused' = [refused EXCEPT ![pid] = no],
               ctx' = [ctx EXCEPT ![pid] = IF no THEN "injected" ELSE "new"]
        PROVE  Registers'
    BY <2>1, <2>3 DEF pid, Restorable
  <2> QED
    BY <2>1, <2>2, <2>3
<1>5. CASE SaveRegisters
  <2>1. /\ at = "save" /\ UNCHANGED <<alive, ctx, refused, cmd, blamed>>
        /\ saved' = [ctx |-> ctx[pid], doing |-> doing[pid]]
    BY <1>5 DEF SaveRegisters, get_registers
  <2>2. cmd.op \in {"Redirect", "ColorizeStderr"} /\ at' \in {"close1", "inject"}
    BY <1>5 DEF SaveRegisters
  <2>3. pid \in Pids /\ pid \in Holds /\ Holds' = Holds
    BY <1>5, <1>p DEF SaveRegisters, Attached, Holds, Working, TraceeCalls
  <2>4. saved'.ctx = ctx[pid]
    BY <2>1
  <2>5. saved'.ctx = "injected" => /\ cmd'.op \in {"Redirect", "ColorizeStderr"}
                                   /\ at' \in Restorable
                                   /\ pid' \in Holds' /\ (alive[pid] => pid \in blamed \/ refused[pid])
    BY <2>1, <2>2, <2>3, <2>4 DEF pid, Restorable
  <2> HIDE DEF Restorable
  <2> QED
    BY <2>1, <2>3, <2>5 DEF pid
<1>6. CASE Close1 \/ Close2 \/ Inject \/ Open1 \/ Open2
  <2>1. /\ pid \in Pids /\ UNCHANGED <<alive, tracer, refused, cmd, saved>>
        /\ ctx' = [ctx EXCEPT ![pid] = "injected"]
        /\ blamed \subseteq blamed'
        /\ at' \in Injected \/ (alive[pid] => pid \in blamed')
    BY <1>6, <1>p, <1>w DEF Close1, Close2, Inject, Open1, Open2, execute_syscall, Fail,
         Working, TraceeCalls
  <2>2. cmd.op \in {"Redirect", "ColorizeStderr"} => at' \in Restorable \cup {"return"}
    BY <1>6 DEF Close1, Close2, Inject, Open1, Open2, Fail, Restorable
  <2> QED
    BY <2>1, <2>2 DEF Holds, pid
<1>7. CASE RestoreRegisters
  <2>1. /\ pid \in Pids /\ UNCHANGED <<alive, refused, cmd, blamed>> /\ at = "restore"
        /\ ctx' = [ctx EXCEPT ![pid] = saved.ctx] /\ saved' = NoRegisters
    BY <1>7, <1>p DEF RestoreRegisters, set_registers, Working, TraceeCalls
  <2> QED
    BY <2>1, NoCommandTyped DEF pid
<1>15. CASE PrepareExecve
  <2>1. /\ at = "prepare" /\ pid \in Pids /\ UNCHANGED <<alive, refused, cmd, saved, blamed>>
        /\ ctx' = [ctx EXCEPT ![pid] = "prepared"]
    BY <1>15, <1>p DEF PrepareExecve, set_registers, Working, TraceeCalls
  <2> QED
    BY <2>1 DEF pid, Restorable
<1>16. CASE Execve
  <2>1. /\ pid \in Pids /\ UNCHANGED <<alive, cmd, saved, blamed>> /\ at = "exec"
    BY <1>16, <1>p DEF Execve, execute_execve, Working, TraceeCalls
  <2>2. PICK no \in BOOLEAN : /\ refused' = [refused EXCEPT ![pid] = no]
                             /\ ctx' = [ctx EXCEPT ![pid] = IF no THEN "injected" ELSE "new"]
    BY <1>16 DEF Execve, execute_execve, RunExecve
  <2> QED
    BY <2>1, <2>2 DEF pid, Restorable
<1>8. CASE DetachAndStop \/ Detach
  BY <1>8, <1>k DEF DetachAndStop, Detach, detach_generic, Restorable
<1>9. CASE Lookup \/ WriteToStdin
  <2>1. CASE Fail /\ UNCHANGED traceeVars
    BY <1>f, <2>1
  <2>2. CASE ~Fail
    <3>1. /\ at \in {"lookup", "stdin"} /\ at' \in {"lookup", "stdin", "return"}
          /\ UNCHANGED <<alive, ctx, refused, saved, blamed>>
      BY <1>9, <2>2 DEF Lookup, WriteToStdin, write_to_stdin
    <3> QED
      BY <3>1 DEF Restorable
  <2> QED
    BY <1>9, <2>1, <2>2 DEF Lookup, WriteToStdin, Fail
<1>10. CASE Return
  <2>1. /\ at = "return" /\ UNCHANGED <<alive, ctx, refused, blamed>> /\ saved' = NoRegisters
    BY <1>10 DEF Return, drop, detach_generic
  <2> QED
    BY <2>1, NoCommandTyped
<1>11. CASE Kill \/ Panic \/ Crash
  <2>1. /\ UNCHANGED <<alive, ctx, refused>> /\ saved' = NoRegisters /\ blamed' = blamed \cup Cut
    BY <1>11 DEF Kill, Panic, Crash, ExitDaemon
  <2>2. at \in Injected => at \in Working
    BY DEF Working, TraceeCalls
  <2> QED
    BY <1>w, <2>1, <2>2, NoCommandTyped
<1>12. CASE Start \/ UNCHANGED vars
  BY <1>12, <1>k DEF Start, vars, Holds, pid
<1>13. ASSUME NEW p \in Pids, Environment(p), UNCHANGED daemonVars PROVE Registers'
  <2>1. UNCHANGED alive /\ UNCHANGED <<up, cmd, at, ok, saved, paused, blamed>>
    BY <1>13 DEF daemonVars, Environment, Block, Unblock, RunPrepared, TypeLine, StealLine,
         Halt, Continue, OtherAttach, OtherDetach
  <2>2. \A q \in Holds : q \in Holds'
    BY <1>13 DEF Environment, Block, Unblock, RunPrepared, TypeLine, StealLine,
         Halt, Continue, OtherAttach, OtherDetach, Holds
  <2>3. CASE RunPrepared(p)
    <3>1. PICK no \in BOOLEAN : /\ refused' = [refused EXCEPT ![p] = no]
                               /\ ctx' = [ctx EXCEPT ![p] = IF no THEN "injected" ELSE "new"]
      BY <2>3 DEF RunPrepared, RunExecve
    <3>2. p \notin Holds /\ alive[p]
      BY <2>3 DEF RunPrepared, Running, Holds
    <3> QED
      BY <2>1, <2>2, <3>1, <3>2 DEF pid
  <2>4. CASE ~RunPrepared(p)
    <3>1. UNCHANGED <<ctx, refused>>
      BY <1>13, <2>4 DEF Environment, Block, Unblock, TypeLine, StealLine, Halt,
           Continue, OtherAttach, OtherDetach
    <3> QED
      BY <1>k, <2>1, <2>2, <3>1
  <2> QED
    BY <2>3, <2>4
<1>17. ASSUME NEW p \in Pids, ProcessExits(p) PROVE Registers'
  <2>1. /\ alive' = [alive EXCEPT ![p] = FALSE] /\ ctx' = [ctx EXCEPT ![p] = "own"]
        /\ refused' = [refused EXCEPT ![p] = FALSE] /\ blamed' = blamed \ {p}
        /\ tracer' = [tracer EXCEPT ![p] = "none"]
        /\ UNCHANGED <<cmd, at, saved>>
    BY <1>17 DEF ProcessExits, Exit
  <2>2. saved.ctx = "injected" => pid \in Pids
    BY DEF Restorable, ByPid, AllOps, ByTerminal
  <2> QED
    BY <2>1, <2>2 DEF Holds, pid
<1> QED
  BY <1>1, <1>2, <1>3, <1>4, <1>5, <1>6, <1>7, <1>8, <1>9, <1>10, <1>11, <1>12, <1>13, <1>14,
     <1>15, <1>16, <1>17 DEF Next, Progress

LEMMA InitIInv == Init => IInv
<1> SUFFICES ASSUME Init PROVE IInv
  OBVIOUS
<1>1. TypeOK
  BY NoCommandTyped, ConstantsAssumption
     DEF Init, TraceeInit, TypeOK, TraceeTypeOK, Tracers, Activities, Contexts, Ends, Fds,
         AllOpen, StdinLess
<1>2. Shape /\ Holding /\ Registers
  BY <1>1, NoCommandTyped
     DEF Init, TraceeInit, TypeOK, Shape, Holding, Holds, Registers, NoCommand, Controls,
         Working, TraceeCalls, ByPid, AllOps, ByTerminal
<1> QED
  BY <1>1, <1>2 DEF IInv

\* The inductive invariant holds in every behaviour of the daemon.
THEOREM Invariance == Spec => []IInv
<1>1. IInv /\ [Next]_vars => IInv'
  BY TypePreserved, ShapePreserved, HoldingPreserved, RegistersPreserved DEF IInv
<1> QED
  BY InitIInv, <1>1, PTL DEF Spec

\* Every variable keeps its type (Daemon.tla, the whole of run_command).
THEOREM TypeCorrect == Spec => []TypeOK
<1>1. IInv => TypeOK
  BY DEF IInv
<1> QED
  BY <1>1, Invariance, PTL

\* Between commands the daemon holds the paused processes and no others,
\* however the commands before ended (pcontroller.rs Drop, daemon.rs Pause).
THEOREM NothingHeldByAccident == Spec => []IdleHoldsOnlyPaused
<1>1. IInv => IdleHoldsOnlyPaused
  BY DEF IInv, TypeOK, Shape, Holding, Holds, Working, TraceeCalls, IdleHoldsOnlyPaused
<1> QED
  BY <1>1, Invariance, PTL

\* A process is let go with injected registers only by a command that failed or
\* died over it, or after an execve that the kernel refused (daemon.rs Redirect,
\* Rewind, ColorizeStderr; pcontroller.rs takeover).
THEOREM RegistersGivenBack == Spec => []RegistersAccountedFor
<1>1. IInv => RegistersAccountedFor
  BY DEF IInv, Registers, Injected, RegistersAccountedFor, Busy
<1> QED
  BY <1>1, Invariance, PTL

-----------------------------------------------------------------------------
(* What redirect does to the descriptors.                                   *)

\* The calls of a redirect.
Route ==
  cmd.op = "Redirect" =>
    at \in {"attach", "cancel", "cancelstep", "save", "close1", "close2", "tty", "inject",
            "open1", "open2", "restore", "detach", "return"}

Redirecting == cmd.op = "Redirect" /\ cmd.tty = "valid" /\ alive[pid] /\ stdio[pid][0] = "own"

Closed(fds, f) == fds[f] = "closed"
Led(fds, f) == fds[f] = "tty"

\* Which of the outputs have been closed, and opened again, at each call.
Descriptors ==
  Redirecting =>
    /\ at = "close2" => Closed(stdio[pid], 1)
    /\ at \in {"tty", "inject", "open1"} => Closed(stdio[pid], 1) /\ Closed(stdio[pid], 2)
    /\ at = "open2" => Led(stdio[pid], 1) /\ Closed(stdio[pid], 2)
    /\ at \in {"restore", "detach"} => Led(stdio[pid], 1) /\ Led(stdio[pid], 2)
    /\ at = "return" /\ ok => Led(stdio[pid], 1) /\ Led(stdio[pid], 2)

\* With an input, openat gives the first output that is closed.
LEMMA OpensLowest ==
  ASSUME NEW fds \in [Fds -> Ends], fds[0] # "closed", NEW f \in {1, 2},
         fds[f] = "closed", f = 2 => fds[1] # "closed"
  PROVE  openat(fds, TRUE) = [fds EXCEPT ![f] = "tty"]
<1> DEFINE free == {g \in Fds : fds[g] = "closed"}
<1>1. f \in free /\ free \subseteq 1..2 /\ \A g \in free : f <= g
  BY DEF Fds
<1> HIDE DEF free
<1>2. (CHOOSE g \in free : \A h \in free : g <= h) = f
  <2> DEFINE Lowest(g) == \A h \in free : g <= h
  <2>1. f \in free /\ Lowest(f)
    BY <1>1
  <2>2. \A g \in free : Lowest(g) => g = f
    BY <1>1
  <2> HIDE DEF Lowest
  <2>3. (CHOOSE g \in free : Lowest(g)) = f
    BY <2>1, <2>2
  <2> QED
    BY <2>3 DEF Lowest
<1> QED
  BY <1>1, <1>2, Zenon DEF openat, free

\* openat closes nothing, and changes an input only if it was closed.
LEMMA LowestIsTty ==
  ASSUME NEW fds \in [Fds -> Ends], openat(fds, TRUE)[0] = "own"
  PROVE  fds[0] = "own"
<1>1. PICK g : openat(fds, TRUE) = [fds EXCEPT ![g] = "tty"] \/ openat(fds, TRUE) = fds
  BY DEF openat
<1>2. 0 \in Fds /\ "tty" # "own"
  BY DEF Fds
<1>3. CASE g = 0
  BY <1>1, <1>2, <1>3
<1>4. CASE g # 0
  BY <1>1, <1>2, <1>4
<1> QED
  BY <1>3, <1>4

\* A redirect keeps to its calls.
LEMMA RoutePreserved == TypeOK /\ Shape /\ Route /\ [Next]_vars => Route'
<1> SUFFICES ASSUME TypeOK, Shape, Route, [Next]_vars PROVE Route'
  OBVIOUS
<1> USE DEF Shape, Route, Goto, Fail, Cut, ByPid, AllOps, ByTerminal
<1>1. ASSUME NEW c \in Commands, Receive(c) PROVE Route'
  BY <1>1, CommandsTyped DEF Receive, First
<1>2. CASE UnknownCommand \/ AttachRefused \/ TraceeGone \/ NormalizeTty
           \/ FindSvcInstructionFails \/ ClearTerminal \/ GetCommandLine
           \/ LoopBreak \/ LoopError \/ DetachFails \/ LookupDone \/ WriteToStdinFails
  BY <1>2 DEF UnknownCommand, AttachRefused, TraceeGone, NormalizeTty,
       FindSvcInstructionFails, ClearTerminal, GetCommandLine, LoopBreak, LoopError,
       DetachFails, LookupDone, WriteToStdinFails
<1>3. CASE Attach \/ CancelPendingRead \/ CancelStep \/ EnsureNotInSyscall \/ SaveRegisters
  BY <1>3 DEF Attach, CancelPendingRead, CancelStep, EnsureNotInSyscall, SaveRegisters
<1>4. CASE Close1 \/ Close2 \/ Inject \/ Open1 \/ Open2 \/ RestoreRegisters
  BY <1>4 DEF Close1, Close2, Inject, Open1, Open2, RestoreRegisters
<1>5. CASE PrepareExecve \/ Execve \/ DetachAndStop \/ Detach
  BY <1>5 DEF PrepareExecve, Execve, DetachAndStop, Detach
<1>6. CASE Lookup \/ WriteToStdin
  BY <1>6 DEF Lookup, WriteToStdin, TypeOK
<1>7. CASE Return \/ Kill \/ Panic \/ Crash
  BY <1>7, NoCommandTyped DEF Return, Kill, Panic, Crash, ExitDaemon
<1>8. CASE Start \/ UNCHANGED vars \/ UNCHANGED daemonVars
  BY <1>8 DEF Start, vars, daemonVars
<1>9. ASSUME NEW p \in Pids, ProcessExits(p) PROVE Route'
  BY <1>9 DEF ProcessExits
<1> QED
  BY <1>1, <1>2, <1>3, <1>4, <1>5, <1>6, <1>7, <1>8, <1>9 DEF Next, Progress

\* Steps that close and open nothing, and before which or after which no
\* redirect is between its closes and its return unless both know it.
LEMMA DescriptorsKept ==
  ASSUME Descriptors, Route, Redirecting' => Redirecting,
         Redirecting' => stdio'[pid'] = stdio[pid],
         Redirecting' =>
           \/ at' = at /\ ok' = ok
           \/ at' = "return" /\ ~ok'
           \/ at' \in {"attach", "cancel", "cancelstep", "save", "close1"}
           \/ at = "tty" /\ at' = "inject"
           \/ at = "inject" /\ at' = "open1"
           \/ at = "restore" /\ at' = "detach"
           \/ at = "detach" /\ at' = "return"
  PROVE  Descriptors'
  BY DEF Descriptors, Closed, Led

LEMMA DescriptorsPreserved ==
  TypeOK /\ Shape /\ Route /\ Descriptors /\ [Next]_vars => Descriptors'
<1> SUFFICES ASSUME TypeOK, Shape, Route, Descriptors, [Next]_vars PROVE Descriptors'
  OBVIOUS
<1>t. cmd.op = "Redirect" => pid \in Pids
  BY DEF Shape, Controls, ByPid, AllOps, ByTerminal, Route, Working, TraceeCalls
<1> USE DEF Route, Redirecting, Goto, Fail, Cut, pid, traceeVars
<1>1. ASSUME NEW c \in Commands, Receive(c) PROVE Descriptors'
  BY <1>1 DEF Receive, First, Descriptors
<1>2. CASE UnknownCommand \/ AttachRefused \/ TraceeGone \/ NormalizeTty
           \/ FindSvcInstructionFails \/ ClearTerminal \/ GetCommandLine
           \/ LoopBreak \/ LoopError \/ DetachFails \/ LookupDone \/ WriteToStdinFails
  BY <1>2, DescriptorsKept DEF UnknownCommand, AttachRefused, TraceeGone, NormalizeTty,
       FindSvcInstructionFails, ClearTerminal, GetCommandLine, LoopBreak, LoopError,
       DetachFails, LookupDone, WriteToStdinFails, TraceeCalls
<1>3. CASE Attach \/ CancelPendingRead \/ CancelStep \/ EnsureNotInSyscall \/ SaveRegisters
  BY <1>3, DescriptorsKept DEF Attach, attach, CancelPendingRead, CancelStep,
       EnsureNotInSyscall, SaveRegisters, ensure_not_in_syscall, write_to_stdin
<1>4. CASE Close1 \/ Close2 \/ Inject \/ Open1 \/ Open2
  <2> SUFFICES ASSUME Redirecting' PROVE Descriptors'
    BY DEF Descriptors
  <2>0. cmd' = cmd /\ alive' = alive
    BY <1>4 DEF Close1, Close2, Inject, Open1, Open2, execute_syscall
  <2>1. /\ cmd.op = "Redirect" /\ cmd.tty = "valid" /\ alive[pid] /\ pid \in Pids
        /\ stdio'[pid][0] = "own"
    BY <2>0, <1>t
  <2> DEFINE fds == stdio[pid]
             new == stdio'[pid]
  <2>2. fds \in [Fds -> Ends] /\ stdio \in [Pids -> [Fds -> Ends]]
    BY <2>1 DEF TypeOK, TraceeTypeOK
  <2>3. 0 \in Fds /\ 1 \in Fds /\ 2 \in Fds
    BY DEF Fds
  <2>4. CASE Close1
    <3>1. new = close(fds, 1) /\ at' = "close2"
      BY <2>1, <2>2, <2>4 DEF Close1, execute_syscall
    <3> QED
      BY <2>0, <2>1, <2>2, <2>3, <3>1 DEF close, Closed, Descriptors
  <2>5. CASE Close2
    <3>1. new = close(fds, 2) /\ at = "close2" /\ at' = "tty"
      BY <2>1, <2>2, <2>5 DEF Close2, execute_syscall
    <3>2. fds[0] = "own"
      BY <2>1, <2>2, <2>3, <3>1 DEF close
    <3> QED
      BY <2>0, <2>1, <2>2, <2>3, <3>1, <3>2 DEF close, Closed, Descriptors
  <2>6. CASE Inject
    BY <2>0, <2>1, <2>2, <2>6, DescriptorsKept DEF Inject, execute_syscall
  <2>7. CASE Open1
    <3>1. new = openat(fds, TRUE) /\ at = "open1" /\ at' = "open2"
      BY <2>1, <2>2, <2>7 DEF Open1, execute_syscall
    <3>2. fds[0] = "own"
      BY <2>1, <2>2, <2>3, <3>1, LowestIsTty
    <3>3. fds[1] = "closed" /\ fds[2] = "closed"
      BY <2>1, <3>1, <3>2 DEF Descriptors, Closed
    <3>4. openat(fds, TRUE) = [fds EXCEPT ![1] = "tty"]
      <4>1. fds[0] # "closed" /\ 1 \in {1, 2} /\ (1 = 2 => fds[1] # "closed")
        BY <3>2
      <4> QED
        BY <2>2, <3>3, <4>1, OpensLowest, Zenon
    <3>5. new[1] = "tty" /\ new[2] = "closed"
      <4>1. new = [fds EXCEPT ![1] = "tty"]
        BY <3>1, <3>4
      <4> HIDE DEF fds, new
      <4> QED
        BY <2>2, <2>3, <3>3, <4>1
    <3> QED
      BY <2>0, <2>1, <3>1, <3>5 DEF Descriptors, Closed, Led
  <2>8. CASE Open2
    <3>1. new = openat(fds, TRUE) /\ at = "open2" /\ at' = "restore"
      BY <2>1, <2>2, <2>8 DEF Open2, execute_syscall
    <3>2. fds[0] = "own"
      BY <2>1, <2>2, <2>3, <3>1, LowestIsTty
    <3>3. fds[1] = "tty" /\ fds[2] = "closed"
      BY <2>1, <3>1, <3>2 DEF Descriptors, Closed, Led
    <3>4. new = [fds EXCEPT ![2] = "tty"]
      BY <2>2, <3>1, <3>2, <3>3, OpensLowest
    <3> QED
      BY <2>0, <2>1, <2>2, <2>3, <3>1, <3>3, <3>4 DEF Descriptors, Closed, Led
  <2> QED
    BY <1>4, <2>4, <2>5, <2>6, <2>7, <2>8
<1>5. CASE RestoreRegisters \/ PrepareExecve \/ Execve \/ DetachAndStop \/ Detach
  BY <1>5, DescriptorsKept DEF RestoreRegisters, PrepareExecve, Execve, DetachAndStop, Detach,
       set_registers, execute_execve, detach_generic
<1>6. CASE Lookup \/ WriteToStdin
  <2>1. cmd.op # "Redirect" /\ cmd'.op = cmd.op
    BY <1>6 DEF Lookup, WriteToStdin, TypeOK
  <2> QED
    BY <2>1 DEF Descriptors
<1>7. CASE Return \/ Kill \/ Panic \/ Crash
  BY <1>7 DEF Return, Kill, Panic, Crash, ExitDaemon, NoCommand, Descriptors
<1>8. CASE Start \/ UNCHANGED vars
  BY <1>8, DescriptorsKept DEF Start, vars
<1>9. ASSUME NEW p \in Pids, Environment(p), UNCHANGED daemonVars PROVE Descriptors'
  BY <1>9, DescriptorsKept DEF daemonVars, Environment, Block, Unblock, RunPrepared, TypeLine,
       StealLine, Halt, Continue, OtherAttach, OtherDetach
<1>10. ASSUME NEW p \in Pids, ProcessExits(p) PROVE Descriptors'
  <2> SUFFICES ASSUME Redirecting' PROVE Descriptors'
    BY DEF Descriptors
  <2>1. cmd' = cmd /\ at' = at /\ ok' = ok
    BY <1>10 DEF ProcessExits
  <2>2. p # pid
    BY <1>10, <1>t, <2>1 DEF ProcessExits, Exit, TypeOK, TraceeTypeOK
  <2>3. alive'[pid] = alive[pid] /\ stdio'[pid] = stdio[pid]
    BY <1>10, <1>t, <2>1, <2>2 DEF ProcessExits, Exit, TypeOK, TraceeTypeOK
  <2> QED
    BY <2>1, <2>3, DescriptorsKept
<1> QED
  BY <1>1, <1>2, <1>3, <1>4, <1>5, <1>6, <1>7, <1>8, <1>9, <1>10 DEF Next, Progress

\* Both outputs of a process with an input lead to the terminal when a redirect
\* has succeeded (daemon.rs Redirect, two openat calls that look at no result).
THEOREM RedirectDeliversAlways == Spec => []RedirectDelivers
<1>1. Init => Route /\ Descriptors
  BY DEF Init, NoCommand, Route, Descriptors, Redirecting
<1>2. IInv /\ Route /\ Descriptors /\ [Next]_vars => Route' /\ Descriptors'
  BY RoutePreserved, DescriptorsPreserved DEF IInv
<1>3. Descriptors => RedirectDelivers
  BY DEF Descriptors, Redirecting, Led, RedirectDelivers
<1> QED
  BY <1>1, <1>2, <1>3, Invariance, PTL DEF Spec

-----------------------------------------------------------------------------
(* Properties of steps.                                                     *)

\* A pause ends as Daemon.tla's PauseEnds says and in no other way: by resume,
\* death, the end of the daemon, or a later command for that process that fails.
THEOREM PausesEndAsTheyShould == Spec => PauseEndsOnly
<1>1. ASSUME IInv, [Next]_vars, NEW p \in Pids PROVE PauseEnds(p)
  <2> USE <1>1 DEF IInv, TypeOK, TraceeTypeOK, Shape, Holding, Holds, PauseEnds, Goto, Fail, Cut, pid,
        Attached, traceeVars
  <2>1. ASSUME NEW c \in Commands, Receive(c) PROVE PauseEnds(p)
    BY <2>1 DEF Receive
  <2>2. CASE UnknownCommand \/ AttachRefused \/ TraceeGone \/ NormalizeTty
             \/ FindSvcInstructionFails \/ ClearTerminal \/ GetCommandLine
             \/ LoopBreak \/ LoopError \/ DetachFails \/ LookupDone \/ WriteToStdinFails
    BY <2>2 DEF UnknownCommand, AttachRefused, TraceeGone, NormalizeTty,
         FindSvcInstructionFails, ClearTerminal, GetCommandLine, LoopBreak, LoopError,
         DetachFails, LookupDone, WriteToStdinFails
  <2>3. CASE Attach \/ CancelPendingRead \/ CancelStep \/ EnsureNotInSyscall \/ SaveRegisters
             \/ Close1 \/ Close2 \/ Inject \/ Open1 \/ Open2 \/ RestoreRegisters
             \/ PrepareExecve \/ Execve \/ DetachAndStop \/ Lookup \/ WriteToStdin
    BY <2>3 DEF Attach, CancelPendingRead, CancelStep, EnsureNotInSyscall, SaveRegisters,
         Close1, Close2, Inject, Open1, Open2, RestoreRegisters, PrepareExecve, Execve,
         DetachAndStop, Lookup, WriteToStdin
  <2>4. CASE Detach
    BY <2>4 DEF Detach
  <2>5. CASE Return
    BY <2>5 DEF Return, drop, detach_generic, Controls
  <2>6. CASE Kill \/ Panic \/ Crash
    BY <2>6 DEF Kill, Panic, Crash, ExitDaemon
  <2>7. CASE Start \/ UNCHANGED vars \/ UNCHANGED daemonVars
    BY <2>7 DEF Start, vars, daemonVars
  <2>8. ASSUME NEW q \in Pids, ProcessExits(q) PROVE PauseEnds(p)
    BY <2>8 DEF ProcessExits, Exit
  <2> QED
    BY <2>1, <2>2, <2>3, <2>4, <2>5, <2>6, <2>7, <2>8 DEF Next, Progress
<1>2. IInv /\ [Next]_vars => [\A p \in Pids : PauseEnds(p)]_vars
  BY <1>1
<1> QED
  BY <1>2, Invariance, PTL DEF Spec, PauseEndsOnly

\* While a process is paused its registers and its descriptors stay as they are.
THEOREM PausedStayUntouched == Spec => PausedUntouched
<1> DEFINE Untouched(p) == p \in paused' => ctx'[p] = ctx[p] /\ stdio'[p] = stdio[p]
<1>1. ASSUME IInv, [Next]_vars, NEW p \in paused PROVE Untouched(p)
  <2> USE <1>1 DEF IInv, TypeOK, TraceeTypeOK, Shape, Holding, Holds, Working, TraceeCalls, pid,
        traceeVars
  <2>1. ASSUME NEW c \in Commands, Receive(c) PROVE Untouched(p)
    BY <2>1 DEF Receive
  <2>2. CASE UnknownCommand \/ AttachRefused \/ TraceeGone \/ NormalizeTty
             \/ FindSvcInstructionFails \/ ClearTerminal \/ GetCommandLine
             \/ LoopBreak \/ LoopError \/ DetachFails \/ LookupDone \/ WriteToStdinFails
    BY <2>2 DEF UnknownCommand, AttachRefused, TraceeGone, NormalizeTty,
         FindSvcInstructionFails, ClearTerminal, GetCommandLine, LoopBreak, LoopError,
         DetachFails, LookupDone, WriteToStdinFails
  <2>3. CASE Attach \/ SaveRegisters \/ DetachAndStop \/ Detach \/ Lookup \/ WriteToStdin
             \/ CancelPendingRead
    BY <2>3 DEF Attach, attach, SaveRegisters, DetachAndStop, Detach, detach_generic, Lookup,
         WriteToStdin, CancelPendingRead, write_to_stdin
  <2>4. CASE CancelStep \/ EnsureNotInSyscall \/ Execve \/ RestoreRegisters \/ PrepareExecve
    BY <2>4 DEF CancelStep, EnsureNotInSyscall, ensure_not_in_syscall, Execve, execute_execve,
         RunExecve, RestoreRegisters, PrepareExecve, set_registers
  <2>5. CASE Close1 \/ Close2 \/ Inject \/ Open1 \/ Open2
    BY <2>5 DEF Close1, Close2, Inject, Open1, Open2, execute_syscall
  <2>6. CASE Return
    BY <2>6 DEF Return, drop, detach_generic
  <2>7. CASE Kill \/ Panic \/ Crash
    BY <2>7 DEF Kill, Panic, Crash, ExitDaemon
  <2>8. CASE Start \/ UNCHANGED vars
    BY <2>8 DEF Start, vars
  <2>9. ASSUME NEW q \in Pids, Environment(q) PROVE Untouched(p)
    BY <2>9 DEF Environment, Running, Block, Unblock, RunPrepared, RunExecve, TypeLine,
         StealLine, Halt, Continue, OtherAttach, OtherDetach
  <2>10. ASSUME NEW q \in Pids, ProcessExits(q) PROVE Untouched(p)
    BY <2>10 DEF ProcessExits, Exit
  <2> QED
    BY <2>1, <2>2, <2>3, <2>4, <2>5, <2>6, <2>7, <2>8, <2>9, <2>10 DEF Next, Progress
<1>2. IInv /\ [Next]_vars => [\A p \in paused : Untouched(p)]_vars
  BY <1>1
<1> QED
  BY <1>2, Invariance, PTL DEF Spec, PausedUntouched

-----------------------------------------------------------------------------
(* Refinement.                                                              *)

LEMMA CustodyInit == Init => C!Init
  BY DEF Init, TraceeInit, C!Init, Mode, Holds

\* Steps that change no holder and no pause are stutters.
LEMMA CustodyStutter ==
  ASSUME UNCHANGED <<alive, paused>>, Holds' = Holds
  PROVE  UNCHANGED C!vars
  BY DEF C!vars, Mode

\* Only the mode of q changes.
LEMMA OneModeChanges ==
  ASSUME NEW q \in Pids, NEW m,
         Mode(q)' = m,
         \A p \in Pids \ {q} : Mode(p)' = Mode(p)
  PROVE  [p \in Pids |-> Mode(p)]' = [[p \in Pids |-> Mode(p)] EXCEPT ![q] = m]
  OBVIOUS

LEMMA CustodyStep == IInv /\ [Next]_vars => [C!Next]_(C!vars)
<1> SUFFICES ASSUME IInv, [Next]_vars PROVE C!Next \/ UNCHANGED C!vars
  OBVIOUS
<1> USE DEF IInv
<1>q. ASSUME \A p \in Holds : p \in paused PROVE C!AllQuiet
  BY <1>q DEF C!AllQuiet, Mode
<1>1. ASSUME NEW c \in Commands, Receive(c) PROVE UNCHANGED C!vars
  BY <1>1, CustodyStutter DEF Receive, Holds
<1>2. CASE UnknownCommand \/ AttachRefused \/ TraceeGone \/ NormalizeTty
           \/ FindSvcInstructionFails \/ ClearTerminal \/ GetCommandLine
           \/ LoopBreak \/ LoopError \/ DetachFails \/ LookupDone \/ WriteToStdinFails
  BY <1>2, CustodyStutter DEF UnknownCommand, AttachRefused, TraceeGone, NormalizeTty,
       FindSvcInstructionFails, ClearTerminal, GetCommandLine, LoopBreak, LoopError,
       DetachFails, LookupDone, WriteToStdinFails, Goto, Fail, Cut, traceeVars, Holds
<1>3. CASE CancelPendingRead \/ CancelStep \/ EnsureNotInSyscall \/ SaveRegisters
           \/ Close1 \/ Close2 \/ Inject \/ Open1 \/ Open2 \/ RestoreRegisters
           \/ PrepareExecve \/ Execve \/ Lookup \/ WriteToStdin
  BY <1>3, CustodyStutter DEF CancelPendingRead, CancelStep, EnsureNotInSyscall, SaveRegisters,
       Close1, Close2, Inject, Open1, Open2, RestoreRegisters, PrepareExecve, Execve,
       Lookup, WriteToStdin, ensure_not_in_syscall, write_to_stdin, execute_syscall,
       set_registers, execute_execve, Goto, Fail, Cut, traceeVars, Holds
<1>4. CASE Attach
  <2>1. /\ pid \in Pids /\ alive[pid] /\ pid \notin Holds
        /\ \A p \in Holds : p \in paused
        /\ UNCHANGED <<alive, paused>> /\ Holds' = Holds \cup {pid}
    BY <1>4 DEF Attach, attach, Attachable, Goto, Holds, Holding, Shape, Controls, Working,
         TraceeCalls, TypeOK, TraceeTypeOK
  <2>2. pid \notin paused
    BY <2>1 DEF Holding
  <2>3. Mode(pid) = "free" /\ Mode(pid)' = "working" /\ UNCHANGED pid
    BY <1>4, <2>1, <2>2 DEF Mode, Attach, Goto, pid
  <2>4. \A p \in Pids \ {pid} : Mode(p)' = Mode(p)
    BY <2>1 DEF Mode
  <2> QED
    BY <1>q, <2>1, <2>3, <2>4, OneModeChanges DEF C!Next, C!Take
<1>5. CASE DetachAndStop \/ Detach
  <2>1. /\ pid \in Pids /\ pid \in Holds
        /\ \A p \in Holds \ {pid} : p \in paused
        /\ UNCHANGED <<alive, pid>> /\ Holds' = Holds \ {pid}
        /\ paused' = paused \ {pid}
    BY <1>5 DEF DetachAndStop, Detach, detach_generic, Attached, Goto, Holds, Holding, Shape,
         Controls, Working, TraceeCalls, TypeOK, TraceeTypeOK, pid
  <2>2. /\ Mode(pid) = IF pid \in paused THEN "paused" ELSE "working"
        /\ Mode(pid)' = "free"
        /\ \A p \in Pids \ {pid} : Mode(p)' = Mode(p)
    BY <2>1 DEF Mode
  <2>3. CASE pid \in paused
    BY <1>q, <2>1, <2>2, <2>3, OneModeChanges DEF C!Next, C!Resume
  <2>4. CASE pid \notin paused
    BY <2>1, <2>2, <2>4, OneModeChanges DEF C!Next, C!Release
  <2> QED
    BY <2>3, <2>4
<1>6. CASE Return
  <2>1. /\ \A p \in Holds \ {pid} : p \in paused
        /\ pid \in Holds => pid \in Pids
        /\ UNCHANGED alive
    BY <1>6 DEF Return, Holding, Holds, Controls, drop, detach_generic, traceeVars
  <2>2. CASE /\ cmd.op = "Pause" /\ ok /\ Attached(pid)
             /\ UNCHANGED tracer /\ paused' = paused \cup {pid}
    <3>1. pid \in Holds /\ Holds' = Holds
      BY <2>2 DEF Attached, Holds, Shape, TypeOK, ByPid, AllOps, ByTerminal
    <3>2. CASE pid \in paused
      BY <2>1, <2>2, <3>1, <3>2, CustodyStutter
    <3>3. CASE pid \notin paused
      <4>1. PICK q \in Pids : q = pid
        BY <2>1, <3>1
      <4>2. /\ Mode(q) = "working" /\ Mode(q)' = "paused"
            /\ \A p \in Pids \ {q} : Mode(p)' = Mode(p)
        BY <2>2, <3>1, <3>3, <4>1 DEF Mode
      <4> QED
        BY <2>1, <4>2, OneModeChanges DEF C!Next, C!Keep
    <3> QED
      BY <3>2, <3>3
  <2>3. CASE UNCHANGED tracer /\ paused' = {p \in paused : tracer'[p] = "daemon"}
    <3>1. UNCHANGED paused /\ Holds' = Holds
      BY <2>3 DEF Holding, Holds
    <3> QED
      BY <2>1, <3>1, CustodyStutter
  <2>4. CASE /\ Attached(pid)
             /\ tracer' = [tracer EXCEPT ![pid] = "none"]
             /\ paused' = {p \in paused : tracer'[p] = "daemon"}
             /\ pid \in Pids
    <3>1. PICK q \in Pids : q = pid
      BY <2>4
    <3>2. /\ q \in Holds /\ Holds' = Holds \ {q} /\ paused' = paused \ {q}
      BY <2>4, <3>1 DEF Attached, Holds, Holding, TypeOK, TraceeTypeOK
    <3>3. /\ Mode(q) = IF q \in paused THEN "paused" ELSE "working"
          /\ Mode(q)' = "free"
          /\ \A p \in Pids \ {q} : Mode(p)' = Mode(p)
      BY <3>2 DEF Mode
    <3>4. CASE q \in paused
      BY <1>q, <2>1, <3>1, <3>3, <3>4, OneModeChanges DEF C!Next, C!Resume
    <3>5. CASE q \notin paused
      BY <2>1, <3>3, <3>5, OneModeChanges DEF C!Next, C!Release
    <3> QED
      BY <3>4, <3>5
  <2> QED
    BY <1>6, <2>2, <2>3, <2>4
       DEF Return, drop, detach_generic, traceeVars, Controls, Shape, Attached
<1>7. CASE Kill \/ Panic \/ Crash
  <2>1. Holds' = {} /\ UNCHANGED alive
    BY <1>7 DEF Kill, Panic, Crash, ExitDaemon, Holds
  <2>2. [p \in Pids |-> Mode(p)]' = [p \in Pids |-> "free"]
    BY <2>1 DEF Mode
  <2> QED
    BY <2>1, <2>2 DEF C!Next, C!ReleaseAll
<1>8. CASE Start \/ UNCHANGED vars
  BY <1>8, CustodyStutter DEF Start, vars, traceeVars, Holds
<1>9. ASSUME NEW p \in Pids, Environment(p), UNCHANGED daemonVars PROVE UNCHANGED C!vars
  BY <1>9, CustodyStutter DEF Environment, Block, Unblock, RunPrepared, TypeLine,
       StealLine, Halt, Continue, OtherAttach, OtherDetach, Holds, daemonVars, TypeOK, TraceeTypeOK
<1>10. ASSUME NEW q \in Pids, ProcessExits(q) PROVE C!Next
  <2>1. /\ alive[q] /\ alive' = [alive EXCEPT ![q] = FALSE]
        /\ Holds' = Holds \ {q} /\ paused' = paused \ {q}
    BY <1>10 DEF ProcessExits, Exit, Holds, TypeOK, TraceeTypeOK
  <2>2. Mode(q)' = "free" /\ \A p \in Pids \ {q} : Mode(p)' = Mode(p)
    BY <2>1 DEF Mode
  <2> QED
    BY <2>1, <2>2, OneModeChanges DEF C!Next, C!Die
<1> QED
  BY <1>1, <1>2, <1>3, <1>4, <1>5, <1>6, <1>7, <1>8, <1>9, <1>10 DEF Next, Progress

\* The daemon is an implementation of Custody: never two processes at a time
\* under a command, never a paused one, none kept that was not paused.
THEOREM CustodyImplemented == Spec => CustodySpec
<1> QED
  BY CustodyInit, CustodyStep, Invariance, PTL DEF Spec, CustodySpec, C!Spec

-----------------------------------------------------------------------------
(* What remains of a command gets less.                                     *)

\* The calls that run_command still makes, if none fails; of two ways to the same
\* call, one may leave some out.
CallsLeft ==
  IF at = "idle" THEN 0
  ELSE IF at = "return" THEN 1
  ELSE IF at \in {"unknown", "detach", "detachstop"} THEN 2
  ELSE IF at \in {"loop", "exec", "prepare"} THEN 3
  ELSE IF at = "restore" THEN 4
  ELSE IF at = "open2" THEN 5
  ELSE IF at = "open1" THEN 6
  ELSE IF at = "inject" THEN 7
  ELSE IF at \in {"tty", "args"} THEN 8
  ELSE IF at \in {"close2", "clear"} THEN 9
  ELSE IF at \in {"close1", "ensure"} THEN 10
  ELSE IF at = "save" THEN 11
  ELSE IF at = "cancelstep" THEN 12
  ELSE IF at = "cancel" THEN 13
  ELSE IF at = "attach" THEN 14
  ELSE IF at = "lookup" THEN 2 * cmd.left + 2
  ELSE 2 * cmd.left + 3

Bounded == CallsLeft \in 0..(2 * MaxTtys + 14) /\ (CallsLeft = 0 <=> at = "idle")

\* Each call of the daemon's brings the end of its command nearer; what anyone
\* else does leaves it where it was, or ends the command with the daemon.
CommandGoesOn ==
  /\ Progress \/ LoopError => CallsLeft' < CallsLeft
  /\ at # "idle" /\ CallsLeft' # CallsLeft => CallsLeft' < CallsLeft

LEMMA CallsLeftType == TypeOK => Bounded
<1> SUFFICES ASSUME TypeOK PROVE Bounded
  OBVIOUS
<1>1. cmd.left \in Nat /\ cmd.left <= MaxTtys + 1 /\ MaxTtys \in Nat
  BY ConstantsAssumption DEF TypeOK, ConstantsAssumption
<1>2. CASE at = "idle"
  BY <1>1, <1>2 DEF CallsLeft, Bounded
<1>3. CASE at \in {"lookup", "stdin"}
  <2>1. CallsLeft \in {2 * cmd.left + 2, 2 * cmd.left + 3}
    BY <1>3 DEF CallsLeft
  <2>2. CallsLeft \in 1..(2 * MaxTtys + 14)
    BY <1>1, <2>1
  <2> QED
    BY <1>3, <2>2 DEF Bounded
<1>4. CASE at \in Labels \ {"idle", "lookup", "stdin"}
  <2>1. CallsLeft \in 1..14
    BY <1>4 DEF CallsLeft, Labels, TraceeCalls
  <2> QED
    BY <1>1, <1>4, <2>1 DEF Bounded
<1> QED
  BY <1>2, <1>3, <1>4 DEF TypeOK

LEMMA ProgressGoesOn ==
  TypeOK /\ (Progress \/ EnsureNotInSyscall \/ CancelStep \/ LoopError) => CallsLeft' < CallsLeft
<1> SUFFICES ASSUME TypeOK, Progress \/ EnsureNotInSyscall \/ CancelStep \/ LoopError
             PROVE  CallsLeft' < CallsLeft
  OBVIOUS
<1>1. cmd.left \in Nat
  BY ConstantsAssumption DEF TypeOK, ConstantsAssumption
<1> USE <1>1 DEF CallsLeft, Goto
<1>2. CASE UnknownCommand \/ AttachRefused \/ TraceeGone \/ FindSvcInstructionFails \/ LoopError
  BY <1>2 DEF UnknownCommand, AttachRefused, TraceeGone, FindSvcInstructionFails, LoopError, Fail,
              TraceeCalls
<1>3. CASE Attach
  <2>1. at = "attach" /\ at' \in {"return", "cancel", "save", "loop", "ensure"}
    BY <1>3 DEF Attach
  <2> QED
    BY <2>1
<1>4. CASE CancelPendingRead \/ CancelStep \/ SaveRegisters \/ Close1 \/ Close2
  BY <1>4 DEF CancelPendingRead, CancelStep, SaveRegisters, Close1, Close2, Fail
<1>5. CASE NormalizeTty \/ ClearTerminal \/ GetCommandLine
  BY <1>5 DEF NormalizeTty, ClearTerminal, GetCommandLine, Fail
<1>6. CASE Inject
  <2>1. at = "inject" /\ at' \in {"open1", "prepare", "restore", "exec", "return"}
    BY <1>6 DEF Inject, Fail
  <2> QED
    BY <2>1
<1>7. CASE Open1 \/ Open2 \/ RestoreRegisters \/ EnsureNotInSyscall
  BY <1>7 DEF Open1, Open2, RestoreRegisters, EnsureNotInSyscall
<1>8. CASE Execve \/ PrepareExecve \/ DetachAndStop \/ LoopBreak
  <2>1. \/ at = "exec" /\ at' = "detach"
        \/ at = "prepare" /\ at' = "detachstop"
        \/ at = "detachstop" /\ at' = "return"
        \/ at = "loop" /\ at' = "detach"
    BY <1>8 DEF Execve, PrepareExecve, DetachAndStop, LoopBreak
  <2> QED
    BY <2>1
<1>9. CASE Detach \/ DetachFails \/ Return
  <2>1. \/ at = "detach" /\ at' = "return"
        \/ at = "return" /\ at' = "idle"
    BY <1>9 DEF Detach, DetachFails, Return, Fail
  <2> QED
    BY <2>1
<1>10. CASE Lookup
  <2>1. CASE at' = "stdin" /\ \E p \in Pids : cmd' = [cmd EXCEPT !.pid = p, !.left = @ - 1]
    <3>1. at = "lookup" /\ cmd'.left = cmd.left - 1
      BY <1>10, <2>1 DEF Lookup, TypeOK
    <3> QED
      BY <2>1, <3>1
  <2>2. CASE Fail
    BY <1>10, <2>2 DEF Lookup, Fail
  <2> QED
    BY <1>10, <2>1, <2>2 DEF Lookup
<1>11. CASE LookupDone \/ WriteToStdin \/ WriteToStdinFails
  BY <1>11 DEF LookupDone, WriteToStdin, WriteToStdinFails, Fail
<1> QED
  BY <1>2, <1>3, <1>4, <1>5, <1>6, <1>7, <1>8, <1>9, <1>10, <1>11 DEF Progress

LEMMA OthersLeaveAsMuch ==
  TypeOK /\ [Next]_vars /\ at # "idle" /\ CallsLeft' # CallsLeft => CallsLeft' < CallsLeft
<1> SUFFICES ASSUME TypeOK, [Next]_vars, at # "idle", CallsLeft' # CallsLeft
             PROVE  CallsLeft' < CallsLeft
  OBVIOUS
<1>1. CASE Progress \/ EnsureNotInSyscall \/ CancelStep \/ LoopError
  BY <1>1, ProgressGoesOn
<1>2. CASE Kill \/ Panic \/ Crash
  <2>1. CallsLeft' = 0
    BY <1>2 DEF Kill, Panic, Crash, ExitDaemon, CallsLeft
  <2>2. CallsLeft \in Nat \ {0}
    BY CallsLeftType, ConstantsAssumption DEF Bounded, ConstantsAssumption
  <2> QED
    BY <2>1, <2>2
<1>3. (\E c \in Commands : Receive(c)) => at = "idle"
  BY DEF Receive
<1>4. ASSUME Start \/ (\E p \in Pids : ProcessExits(p)) \/ UNCHANGED daemonVars \/ UNCHANGED vars
      PROVE  UNCHANGED <<at, cmd>>
  BY <1>4 DEF Start, ProcessExits, daemonVars, vars
<1>5. UNCHANGED <<at, cmd>> => CallsLeft' = CallsLeft
  BY DEF CallsLeft
<1> QED
  BY <1>1, <1>2, <1>3, <1>4, <1>5 DEF Next

\* What CommandEnds needs of the daemon: no command takes more calls than a
\* redirect or the terminals of an oblivion ask for, and none repeats a call
\* without end (daemon.rs run_command).
THEOREM CommandGetsNearer == Spec => []Bounded /\ [][CommandGoesOn]_vars
<1>1. IInv => TypeOK /\ Bounded
  BY CallsLeftType DEF IInv
<1>2. TypeOK /\ [Next]_vars => [CommandGoesOn]_vars
  BY ProgressGoesOn, OthersLeaveAsMuch DEF CommandGoesOn
<1> QED
  BY <1>1, <1>2, Invariance, PTL DEF Spec

=============================================================================

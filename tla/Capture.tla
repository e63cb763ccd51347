------------------------------ MODULE Capture -------------------------------
(***************************************************************************)
(* The two commands that copy a running program: proctool freeze           *)
(* (src/proctool/bin/client.rs, cryogenics.rs), which writes the copy to a *)
(* file and has the program replaced, and teleclient (src/teleclient),     *)
(* which sends it away and lets the program go on.  Any number of either   *)
(* run at a time, each in a process of its own.                            *)
(***************************************************************************)
EXTENDS Program, Sequences, SequencesExt

CONSTANTS
  Freezers,     \* the copiers that run proctool freeze; the others: teleclient
  Readable,     \* regions /proc/<pid>/mem gives (not [vvar], not ---p)
  OldLengths    \* lengths the state file may have beforehand

ASSUME CaptureAssumption ==
  /\ Freezers \subseteq Copiers
  /\ Readable \subseteq Regions
  /\ OldLengths \subseteq Nat

VARIABLES
  at,       \* at[c]:    the call c makes next
  copy,     \* copy[c]:  the registers and regions c has read
  opened,   \* opened[c]: the program whose memory c has opened
  n,        \* n[c]:     regions read, or items written
  file,     \* the state file <pid>.state
  writers,  \* who has opened it
  lapse     \* lapse[c]: what happened between c's detach and its first injected call

vars == <<programVars, at, copy, opened, n, file, writers, lapse>>
ownVars == <<at, copy, opened, n, file, writers, lapse>>

Blank == [regs |-> 0, mem |-> [r \in Regions |-> Missing]]

\* The JSON of a copy: of each region what the map says and, if it was read,
\* its bytes; the registers come last.
Document(s) ==
  FlattenSeq([r \in Regions |->
    IF s.mem[r] = Missing THEN <<<<"map", r>>>> ELSE <<<<"map", r>>, <<"data", s.mem[r]>>>>])
  \o <<<<"regs", s.regs>>>>

Labels ==
  {"attach", "regs", "detach", "maps", "memory", "read", "open", "write", "takeover",
   "ensure", "inject", "execve", "finish", "seize", "interrupt", "send", "done", "failed"}

Init ==
  /\ ProgramInit
  /\ at = [c \in Copiers |-> IF c \in Freezers THEN "attach" ELSE "seize"]
  /\ copy = [c \in Copiers |-> Blank]
  /\ opened = [c \in Copiers |-> 0]
  /\ n = [c \in Copiers |-> 0]
  /\ file \in {[i \in 1..k |-> <<"old", 0>>] : k \in OldLengths}
  /\ writers = {}
  /\ lapse = [c \in Copiers |-> {}]

-----------------------------------------------------------------------------
(* Both commands: registers, maps, memory.                                  *)

Goto(c, there) == at' = [at EXCEPT ![c] = there]

\* From its detach on a freezer relies on SIGSTOP alone; at the takeover it does
\* so for the second thread, which it never traces.
Relying(c) == at[c] \in {"maps", "memory", "read", "open", "write", "takeover",
                       "ensure", "inject"}

Noted(what, c) ==
  lapse' = [d \in Copiers |->
              IF d # c /\ d \in Freezers /\ Relying(d) THEN lapse[d] \cup {what} ELSE lapse[d]]

\* An error returns from main; the controller or the Tracer is dropped, and the
\* end of a client that is killed has the same effect.
Fail(c) ==
  /\ Goto(c, "failed")
  /\ LetGo(c, FALSE)
  /\ UNCHANGED <<copy, opened, n, file, writers, lapse>>

\* Wrong: the teleclient detaches as soon as it has the registers.
GetRegistersOnly(c) ==
  /\ at[c] = "regs" /\ Held(c)
  /\ copy' = [copy EXCEPT ![c].regs = regs]
  /\ Goto(c, IF c \in Freezers THEN "detach" ELSE "maps")
  /\ IF c \in Freezers THEN UNCHANGED programVars ELSE LetGo(c, FALSE)
  /\ UNCHANGED <<opened, n, file, writers, lapse>>

GetRegisters(c) ==
  /\ at[c] = "regs" /\ Held(c)
  /\ copy' = [copy EXCEPT ![c].regs = regs]
  /\ Goto(c, IF c \in Freezers THEN "detach" ELSE "maps")
  /\ UNCHANGED <<programVars, opened, n, file, writers, lapse>>

ReadMemoryMaps(c) ==
  /\ at[c] = "maps" /\ alive
  /\ Goto(c, "memory")
  /\ UNCHANGED <<programVars, copy, opened, n, file, writers, lapse>>

\* An open of /proc/<pid>/mem refers to the program of that moment for good.
OpenMemory(c) ==
  /\ at[c] = "memory" /\ alive
  /\ opened' = [opened EXCEPT ![c] = execs]
  /\ Goto(c, "read")
  /\ UNCHANGED <<programVars, copy, n, file, writers, lapse>>

\* A region that cannot be read is skipped, whatever the reason.
ReadRegion(c) ==
  /\ at[c] = "read" /\ n[c] < NRegions
  /\ LET r == n[c] + 1
         there == r \in Readable /\ alive /\ execs = opened[c]
     IN copy' = [copy EXCEPT ![c].mem[r] = IF there THEN mem[r] ELSE Missing]
  /\ n' = [n EXCEPT ![c] = @ + 1]
  /\ UNCHANGED <<programVars, at, opened, file, writers, lapse>>

AllRead(c) ==
  /\ at[c] = "read" /\ n[c] = NRegions
  /\ n' = [n EXCEPT ![c] = 0]
  /\ Goto(c, IF c \in Freezers THEN "open" ELSE "send")
  /\ UNCHANGED <<programVars, copy, opened, file, writers, lapse>>

\* The process is gone: the next call on it fails.
ProcessGone(c) ==
  /\ \/ at[c] \in {"regs", "detach", "ensure", "inject", "execve", "finish"} /\ ~Held(c)
     \/ at[c] \in {"maps", "memory", "interrupt"} /\ ~alive
     \/ at[c] \in {"attach", "seize", "takeover"} /\ ~Attachable
  /\ Fail(c)

Killed(c) == at[c] \notin {"done", "failed"} /\ Fail(c)

-----------------------------------------------------------------------------
(* teleclient.                                                              *)

Seize(c) ==
  /\ at[c] = "seize" /\ TakeHold(c, FALSE)
  /\ Goto(c, "interrupt")
  /\ UNCHANGED <<copy, opened, n, file, writers, lapse>>

InterruptIt(c) ==
  /\ at[c] = "interrupt" /\ Interrupt(c)
  /\ Goto(c, "regs")
  /\ UNCHANGED <<copy, opened, n, file, writers, lapse>>

\* The request is answered, with success or not, or times out; then Drop, or
\* exit, lets the program go on.
Send(c) ==
  /\ at[c] = "send"
  /\ LetGo(c, FALSE)
  /\ \E there \in {"done", "failed"} : Goto(c, there)
  /\ UNCHANGED <<copy, opened, n, file, writers, lapse>>

-----------------------------------------------------------------------------
(* proctool freeze.                                                         *)

\* Attach for the copy, and again for the takeover.
Attach(c) ==
  /\ at[c] \in {"attach", "takeover"} /\ TakeHold(c, TRUE)
  /\ Goto(c, IF at[c] = "attach" THEN "regs" ELSE "ensure")
  /\ UNCHANGED <<copy, opened, n, file, writers, lapse>>

\* Wrong: detach without the signal.
DetachOnly(c) ==
  /\ at[c] = "detach" /\ Held(c)
  /\ LetGo(c, FALSE)
  /\ Goto(c, "maps")
  /\ UNCHANGED <<copy, opened, n, file, writers, lapse>>

DetachAndStop(c) ==
  /\ at[c] = "detach" /\ Held(c)
  /\ LetGo(c, TRUE)
  /\ Goto(c, "maps")
  /\ UNCHANGED <<copy, opened, n, file, writers, lapse>>

\* write and create, but not truncate.
OpenStateFile(c) ==
  /\ at[c] = "open"
  /\ writers' = writers \cup {c}
  /\ Goto(c, "write")
  /\ UNCHANGED <<programVars, copy, opened, n, file, lapse>>

\* Each writer has its own offset in the file.
WriteItem(c) ==
  /\ at[c] = "write" /\ n[c] < Len(Document(copy[c]))
  /\ LET item == Document(copy[c])[n[c] + 1]
     IN file' = IF n[c] < Len(file) THEN [file EXCEPT ![n[c] + 1] = item] ELSE Append(file, item)
  /\ n' = [n EXCEPT ![c] = @ + 1]
  /\ UNCHANGED <<programVars, at, copy, opened, writers, lapse>>

Written(c) ==
  /\ at[c] = "write" /\ n[c] = Len(Document(copy[c]))
  /\ Goto(c, "takeover")
  /\ UNCHANGED <<programVars, copy, opened, n, file, writers, lapse>>

\* Wrong: an error of to_writer is ignored.
FileFailsQuietly(c) ==
  /\ at[c] \in {"open", "write"}
  /\ Goto(c, "takeover")
  /\ UNCHANGED <<programVars, copy, opened, n, file, writers, lapse>>

\* No permission, or the disk is full.
FileFails(c) == at[c] \in {"open", "write"} /\ Fail(c)

\* takeover lets the program make a step of its own first, so that no call of its
\* is under way; the copy knows nothing of it.
EnsureNotInSyscall(c) ==
  /\ at[c] = "ensure" /\ SingleStep(c)
  /\ Goto(c, "inject")
  /\ Noted("taken over", c)
  /\ UNCHANGED <<copy, opened, n, file, writers>>

\* Wrong: takeover with pause detaches before the call is run.
ExecveNotRun(c) ==
  /\ at[c] = "inject" /\ Held(c)
  /\ Goto(c, "finish")
  /\ UNCHANGED <<programVars, copy, opened, n, file, writers, lapse>>

\* takeover: path and arguments are put into the program by injected calls.  If
\* the kernel refuses one, the controller detaches with the registers as they
\* are.
InjectArguments(c) ==
  /\ at[c] = "inject" /\ Overwrite(c)
  /\ Goto(c, "execve")
  /\ Noted("taken over", c)
  /\ UNCHANGED <<copy, opened, n, file, writers>>

InjectFails(c) == at[c] = "execve" /\ Fail(c)

\* The result of execve is not looked at.
ExecveRisen(c) ==
  /\ at[c] = "execve" /\ Execve(c)
  /\ Goto(c, "finish")
  /\ Noted("taken over", c)
  /\ UNCHANGED <<copy, opened, n, file, writers>>

\* detach, and "Saved to ...".
Finish(c) ==
  /\ at[c] = "finish" /\ Held(c)
  /\ LetGo(c, FALSE)
  /\ Goto(c, "done")
  /\ UNCHANGED <<copy, opened, n, file, writers, lapse>>

-----------------------------------------------------------------------------

\* What the program and other users do; SIGCONT is what a freezer cannot bear.
Environment ==
  \/ (MainStep \/ ThreadStep \/ Halt \/ Exit) /\ UNCHANGED ownVars
  \/ /\ Continue /\ Noted("continued", NoOne)
     /\ UNCHANGED <<at, copy, opened, n, file, writers>>

Copying(c) ==
  \/ GetRegisters(c) \/ ReadMemoryMaps(c) \/ OpenMemory(c) \/ ReadRegion(c) \/ AllRead(c)
  \/ ProcessGone(c) \/ Killed(c)

Teleclient(c) == Seize(c) \/ InterruptIt(c) \/ Send(c)

Freeze(c) ==
  \/ Attach(c) \/ DetachAndStop(c)
  \/ OpenStateFile(c) \/ WriteItem(c) \/ Written(c) \/ FileFails(c)
  \/ EnsureNotInSyscall(c) \/ InjectArguments(c) \/ InjectFails(c) \/ ExecveRisen(c) \/ Finish(c)

Next == Environment \/ \E c \in Copiers : Copying(c) \/ Teleclient(c) \/ Freeze(c)

Spec == Init /\ [][Next]_vars

-----------------------------------------------------------------------------
(* Properties.                                                              *)

\* c has read all it will.
Complete(c) ==
  at[c] \in {"open", "write", "takeover", "ensure", "inject", "execve", "finish", "send"}

Agrees(s, state) ==
  /\ s.regs = state.regs
  /\ \A r \in Regions : s.mem[r] \in {state.mem[r], Missing}

\* A copy is the state of one instant, although freeze reads the memory when it
\* traces the program no more (cryogenics.rs 23-29), unless someone sends SIGCONT
\* or another freeze replaces the program meanwhile; the teleclient, which holds
\* on, is disturbed by neither, but by a second thread.
CopyIsOfOneInstant ==
  \A c \in Copiers :
    Complete(c) =>
      \/ \E state \in past : Agrees(copy[c], state)
      \/ c \in Freezers /\ lapse[c] # {}
      \/ c \notin Freezers /\ Threads

\* Once the program is beyond recovery, its state is in the file: as a whole, or
\* followed by the tail of an older and longer one, since the file is not
\* truncated (client.rs 67).  Two freezers of one process may spoil the file.
StateSurvives ==
  \A c \in Freezers :
    ~Own /\ writers = {c} =>
      LET doc == Document(copy[c])
      IN /\ IsPrefix(doc, file)
         /\ file = doc \/ file[Len(file)] = <<"old", 0>>

\* After "Saved to ..." (client.rs 70) the program does not go on where it was
\* frozen.  It has been replaced by risen; or the kernel has refused the execve,
\* which takeover does not notice (pcontroller.rs 569-571): then it runs on beside
\* its copy, in its own memory, behind the injected call.
ReplacedUnlessRefused ==
  \A c \in Freezers : at[c] = "done" => ~Own /\ (execs > 0 \/ c \in refused)

\* A takeover destroys the state that was copied and one step: when it has the
\* program make that (pcontroller.rs 562), nothing has happened since the copy, and
\* nothing happens from then on until the registers are overwritten, if nobody
\* sends SIGCONT.  What the step does, a line that a read has waited for, is lost.
OneStepLost ==
  [][\A c \in Freezers :
       Own /\ lapse[c] = {} =>
         /\ at[c] = "ensure" /\ at'[c] = "inject" => Agrees(copy[c], Now)
         /\ at[c] = "inject" /\ lapse'[c] = {} => at'[c] = "execve" \/ UNCHANGED <<regs, mem>>]_vars

NoCopy == [regs |-> Missing, mem |-> <<>>]
Undisturbed(c) == IF c \in Freezers THEN lapse[c] = {} ELSE ~Threads
Copied(c) == IF Complete(c) /\ Undisturbed(c) THEN copy[c] ELSE NoCopy
Copies == [c \in Copiers |-> Copied(c)]
S == INSTANCE Snapshot WITH copies <- Copies

\* Undisturbed copies are snapshots, of the moment in which the last region has
\* been read, whoever else copies or replaces the program (cryogenics.rs 23-29,
\* ptrace.rs 71-78).
SnapshotSpec == S!Spec

=============================================================================

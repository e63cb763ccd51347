--------------------------- MODULE CaptureProofs ----------------------------
(***************************************************************************)
(* Copies are states of one instant, and what a takeover destroys is what  *)
(* was copied but for the one step it lets the program make itself, for    *)
(* any number of copiers, regions and steps.  The argument is that a copy  *)
(* agrees with the program as it is now while the copier holds it, by      *)
(* ptrace or by a SIGSTOP that nobody undoes.  And the state is in the     *)
(* file, and a rewound program gets its arguments, for files and command   *)
(* lines of any length: both by inductions over what FlattenSeq joins.     *)
(***************************************************************************)
EXTENDS Capture, Arguments, TLAPS, WellFoundedInduction, SequenceTheorems

Types ==
  /\ at \in [Copiers -> Labels]
  /\ copy \in [Copiers -> [regs : Nat, mem : [Regions -> Nat]]]
  /\ lapse \in [Copiers -> SUBSET {"continued", "taken over"}]
  /\ regs \in Nat /\ mem \in [Regions -> Nat]
  /\ clock \in Nat /\ execs \in Nat
  /\ Now \in past

Counted == n \in [Copiers -> Nat]

FreezeLabels == {"attach", "regs", "detach", "maps", "memory", "read", "open", "write",
                 "takeover", "ensure", "inject", "execve", "finish", "done", "failed"}
TeleLabels == {"seize", "interrupt", "regs", "maps", "memory", "read", "send", "done", "failed"}
Kind(c) == at[c] \in IF c \in Freezers THEN FreezeLabels ELSE TeleLabels

\* When a copier relies on ptrace, it has the process, or there is none.
Holding(c) ==
  at[c] \in IF c \in Freezers THEN {"regs", "detach", "ensure", "inject", "execve", "finish"}
                              ELSE {"regs", "maps", "memory", "read", "send"}
Holds(c) == Holding(c) /\ alive => tracer = c /\ trapped

\* What has been read is what there is.
Same(c) ==
  /\ copy[c].regs = regs
  /\ \A r \in Regions : copy[c].mem[r] \in {mem[r], Missing}
NothingRead(c) == \A r \in Regions : copy[c].mem[r] = Missing

\* A freezer: before and at its detach, and when it relies on SIGSTOP.
Begun(c) ==
  /\ at[c] \in {"attach", "seize", "interrupt", "regs", "detach"} => NothingRead(c)
  /\ at[c] = "detach" => copy[c].regs = regs
Standing(c) ==
  c \in Freezers /\ Relying(c) /\ lapse[c] = {} => halted /\ (at[c] # "inject" => Same(c))

\* A teleclient.
Traced(c) ==
  c \notin Freezers /\ ~Threads /\ at[c] \in {"maps", "memory", "read", "send"} => Same(c)

\* A freezer's program, when its registers are overwritten, goes on no more where
\* it was; and when execve has been run, there is another, or it was refused.
Ended(c) ==
  c \in Freezers =>
    /\ at[c] \in {"execve", "finish", "done"} => ~Own
    /\ at[c] \in {"finish", "done"} => execs > 0 \/ c \in refused

Instant(c) ==
  Complete(c) =>
    \/ \E state \in past : Agrees(copy[c], state)
    \/ c \in Freezers /\ lapse[c] # {}
    \/ c \notin Freezers /\ Threads

Sound(c) ==
  /\ Kind(c) /\ Holds(c) /\ Begun(c) /\ Standing(c) /\ Traced(c) /\ Ended(c) /\ Instant(c)

IInv == Types /\ \A c \in Copiers : Sound(c)

USE DEF Regions

-----------------------------------------------------------------------------

LEMMA InitHolds == Init => IInv
<1> SUFFICES ASSUME Init PROVE IInv
    OBVIOUS
<1> USE DEF Init, ProgramInit
<1>1. Types
  BY ProgramAssumption DEF Types, Blank, Labels, Now, Missing
<1>2. ASSUME NEW c \in Copiers PROVE Sound(c)
  <2>1. at[c] = IF c \in Freezers THEN "attach" ELSE "seize"
    OBVIOUS
  <2>2. NothingRead(c)
    BY DEF NothingRead, Blank
  <2> QED BY <2>1, <2>2 DEF Sound, Kind, FreezeLabels, TeleLabels, Holds, Holding, Begun,
        Standing, Relying, Traced, Ended, Instant, Complete
<1> QED BY <1>1, <1>2 DEF IInv

-----------------------------------------------------------------------------
(* What a step may do to a copier that does not make it.                    *)

Gentle(d) ==
  /\ past \subseteq past' /\ lapse[d] \subseteq lapse'[d]
  /\ ~Own => ~Own'
  /\ execs > 0 => execs' > 0
  /\ refused \subseteq refused'
  /\ alive' => alive
  /\ tracer = d /\ trapped /\ alive' => tracer' = d /\ trapped'
  /\ (alive => tracer = d /\ trapped) => regs' = regs /\ (Threads \/ mem' = mem)
  /\ Relying(d) /\ d \in Freezers /\ lapse'[d] = {} /\ halted =>
       halted' /\ regs' = regs /\ mem' = mem

LEMMA Bystander ==
  ASSUME IInv, NEW d \in Copiers, Gentle(d), at'[d] = at[d], copy'[d] = copy[d]
  PROVE  Sound(d)'
<1>1. Sound(d)
  BY DEF IInv
<1>2. Kind(d)' /\ Holds(d)' /\ Ended(d)'
  BY <1>1 DEF Sound, Kind, Holds, Holding, Ended, Gentle
<1>3. Begun(d)'
  BY <1>1 DEF Sound, Kind, TeleLabels, Begun, NothingRead, Holds, Holding, Gentle
<1>4. Standing(d)'
  BY <1>1 DEF Sound, Standing, Relying, Same, Gentle
<1>5. Traced(d)'
  BY <1>1 DEF Sound, Traced, Holds, Holding, Same, Gentle
<1>6. Instant(d)'
  BY <1>1 DEF Sound, Instant, Complete, Agrees, Gentle
<1> QED BY <1>2, <1>3, <1>4, <1>5, <1>6 DEF Sound

\* The three ways a step can be gentle to the others.
LEMMA NothingHappens ==
  ASSUME UNCHANGED programVars, UNCHANGED lapse, NEW d \in Copiers
  PROVE  Gentle(d)
BY DEF programVars, Gentle, Own

LEMMA HoldsChange ==
  ASSUME NEW c \in Copiers, NEW d \in Copiers \ {c}, UNCHANGED lapse,
         \/ LetGo(c, TRUE) \/ LetGo(c, FALSE)
         \/ TakeHold(c, TRUE) \/ TakeHold(c, FALSE) \/ Interrupt(c)
  PROVE  Gentle(d)
<1>1. UNCHANGED <<alive, execs, regs, mem, past, refused, lapse>>
  BY DEF LetGo, TakeHold, Interrupt
<1>3. halted => halted'
  BY Zenon DEF LetGo, TakeHold, Interrupt
<1>2. tracer = d /\ trapped /\ alive => tracer' = d /\ trapped'
  BY ProgramAssumption DEF LetGo, TakeHold, Attachable, Interrupt
<1> QED BY <1>1, <1>2, <1>3 DEF Gentle, Own

LEMMA Positive == \A k \in Nat : k + 1 > 0
OBVIOUS

LEMMA OverwrittenBy ==
  ASSUME IInv, NEW c \in Copiers, NEW d \in Copiers \ {c}, Overwrite(c) \/ Execve(c) \/ SingleStep(c),
         Noted("taken over", c)
  PROVE  Gentle(d)
<1>1. lapse' = [e \in Copiers |->
        IF e # c /\ e \in Freezers /\ Relying(e) THEN lapse[e] \cup {"taken over"} ELSE lapse[e]]
  BY DEF Noted
<1>2. lapse[d] \subseteq lapse'[d] /\ (d \in Freezers /\ Relying(d) => lapse'[d] # {})
  BY <1>1 DEF IInv, Types
<1>3. ~Own => ~Own'
  BY DEF Overwrite, Execve, SingleStep, Advance, Own, IInv, Types
<1>4. alive /\ tracer = c
  BY DEF Overwrite, Execve, SingleStep, Held
<1>5. /\ past \subseteq past' /\ UNCHANGED <<alive, tracer, trapped, halted>>
      /\ execs > 0 => execs' > 0
      /\ refused \subseteq refused'
  <2>1. execs \in Nat
    BY DEF IInv, Types
  <2>2. execs' = execs \/ execs' = execs + 1
    BY DEF Overwrite, Execve, SingleStep, Advance
  <2>3. execs > 0 => execs' > 0
    <3>1. CASE execs' = execs
      BY <3>1
    <3>2. CASE execs' = execs + 1
      <4>1. execs + 1 > 0
        BY <2>1, Positive
      <4> QED BY <3>2, <4>1
    <3> QED BY <2>2, <3>1, <3>2
  <2> QED BY <2>3 DEF Overwrite, Execve, SingleStep, Advance
<1> QED BY <1>2, <1>3, <1>4, <1>5 DEF Gentle

-----------------------------------------------------------------------------
(* Steps.  Assemble: what is left to show when a copier c has made one.     *)

LEMMA Assemble ==
  ASSUME IInv, NEW c \in Copiers, Types', Sound(c)',
         \A d \in Copiers \ {c} : Gentle(d) /\ at'[d] = at[d] /\ copy'[d] = copy[d]
  PROVE  IInv'
<1>1. \A d \in Copiers \ {c} : Sound(d)'
  BY Bystander
<1> QED BY <1>1 DEF IInv

\* A copier that gives up, or has finished, promises next to nothing.
LEMMA OverStep ==
  ASSUME IInv, NEW c \in Copiers, Fail(c) \/ Send(c) \/ Finish(c)
  PROVE  IInv'
<1>1. LetGo(c, FALSE) /\ UNCHANGED <<copy, lapse>>
  BY DEF Fail, Send, Finish
<1>2. PICK there \in {"done", "failed"} : at' = [at EXCEPT ![c] = there]
  BY DEF Fail, Send, Finish, Goto
<1>3. UNCHANGED <<alive, execs, clock, regs, mem, past, refused>>
  BY <1>1 DEF LetGo
<1>4. Types'
  BY <1>1, <1>2, <1>3 DEF IInv, Types, Labels, Now
<1>5. Kind(c)' /\ Holds(c)' /\ Begun(c)' /\ Standing(c)' /\ Traced(c)' /\ Instant(c)'
  BY <1>2 DEF IInv, Types, Kind, FreezeLabels, TeleLabels, Holds, Holding, Begun, Standing,
              Relying, Traced, Instant, Complete
<1>6. Ended(c)'
  BY <1>2, <1>3, CaptureAssumption
     DEF IInv, Types, Sound, Kind, FreezeLabels, Fail, Goto, Send, Finish, Ended, Own
<1>7. \A d \in Copiers \ {c} : Gentle(d) /\ at'[d] = at[d] /\ copy'[d] = copy[d]
  BY <1>1, <1>2, HoldsChange DEF IInv, Types
<1> QED BY <1>4, <1>5, <1>6, <1>7, Assemble DEF Sound

LEMMA GetRegistersStep ==
  ASSUME IInv, NEW c \in Copiers, GetRegisters(c)
  PROVE  IInv'
<1>1. at' = [at EXCEPT ![c] = IF c \in Freezers THEN "detach" ELSE "maps"]
  BY DEF GetRegisters, Goto
<1>2. copy' = [copy EXCEPT ![c].regs = regs] /\ UNCHANGED <<programVars, lapse>>
  BY DEF GetRegisters
<1>3. Types'
  BY <1>1, <1>2 DEF IInv, Types, Labels, Now, programVars
<1>4. copy'[c].regs = regs /\ copy'[c].mem = copy[c].mem
  BY <1>2 DEF IInv, Types
<1>5. at[c] = "regs" /\ Held(c) /\ NothingRead(c)
  BY DEF GetRegisters, IInv, Sound, Begun
<1>6. Sound(c)'
  BY <1>1, <1>2, <1>4, <1>5 DEF IInv, Types, programVars, Sound, Kind, FreezeLabels, TeleLabels,
     Holds, Holding, Held, Begun, NothingRead, Standing, Relying, Traced, Same, Ended, Instant, Complete
<1>7. \A d \in Copiers \ {c} : Gentle(d) /\ at'[d] = at[d] /\ copy'[d] = copy[d]
  BY <1>1, <1>2, NothingHappens DEF IInv, Types
<1> QED BY <1>3, <1>6, <1>7, Assemble

\* Reading, and writing the file, with at[c] going on or not.
LEMMA ReadRegionStep ==
  ASSUME IInv, Counted, NEW c \in Copiers, ReadRegion(c)
  PROVE  IInv'
<1>1. UNCHANGED <<programVars, lapse, at>> /\ at[c] = "read"
  BY DEF ReadRegion
<1>2. PICK r \in Regions, x \in Nat :
        x \in {mem[r], Missing} /\ copy' = [copy EXCEPT ![c].mem[r] = x]
  <2>1. n[c] + 1 \in Regions
    BY ProgramAssumption DEF ReadRegion, Counted
  <2>2. mem[n[c] + 1] \in Nat /\ Missing \in Nat
    <3>1. mem \in [Regions -> Nat]
      BY DEF IInv, Types
    <3>2. Missing \in Nat
      BY ProgramAssumption DEF Missing
    <3> QED BY <2>1, <3>1, <3>2
  <2> QED BY <2>1, <2>2 DEF ReadRegion
<1>4. Types'
  BY <1>1, <1>2 DEF IInv, Types, Now, programVars
<1>5. copy'[c].regs = copy[c].regs /\ copy'[c].mem = [copy[c].mem EXCEPT ![r] = x]
  BY <1>2 DEF IInv, Types
<1>6. Same(c) => Same(c)'
  BY <1>1, <1>2, <1>5 DEF Same, programVars, IInv, Types
<1>7. Sound(c)'
  BY <1>1, <1>6 DEF IInv, programVars, Sound, Kind, Holds, Holding, Begun, Standing, Relying,
     Traced, Ended, Instant, Complete, Own
<1>8. \A d \in Copiers \ {c} : Gentle(d) /\ at'[d] = at[d] /\ copy'[d] = copy[d]
  BY <1>1, <1>2, NothingHappens DEF IInv, Types
<1> QED BY <1>4, <1>7, <1>8, Assemble

\* With the last region read, what is there is what was copied.
LEMMA AllReadStep ==
  ASSUME IInv, NEW c \in Copiers, AllRead(c)
  PROVE  IInv'
<1>1. at' = [at EXCEPT ![c] = IF c \in Freezers THEN "open" ELSE "send"] /\ at[c] = "read"
  BY DEF AllRead, Goto
<1>2. UNCHANGED <<programVars, copy, lapse>>
  BY DEF AllRead
<1>3. Types'
  BY <1>1, <1>2 DEF IInv, Types, Labels, Now, programVars
<1>4. Kind(c)' /\ Holds(c)' /\ Begun(c)' /\ Standing(c)' /\ Traced(c)' /\ Ended(c)'
  BY <1>1, <1>2 DEF IInv, Types, programVars, Sound, Kind, FreezeLabels, TeleLabels, Holds, Holding,
     Begun, Standing, Relying, Traced, Same, Ended
<1>5. Instant(c)'
  <2>1. Same(c) => Now \in past /\ Agrees(copy[c], Now)
    BY DEF IInv, Types, Same, Agrees, Now
  <2>2. Same(c) \/ (c \in Freezers /\ lapse[c] # {}) \/ (c \notin Freezers /\ Threads)
    BY <1>1 DEF IInv, Sound, Standing, Relying, Traced
  <2> QED BY <1>2, <2>1, <2>2 DEF Instant, Agrees, programVars
<1>6. \A d \in Copiers \ {c} : Gentle(d) /\ at'[d] = at[d] /\ copy'[d] = copy[d]
  BY <1>1, <1>2, NothingHappens DEF IInv, Types
<1> QED BY <1>3, <1>4, <1>5, <1>6, Assemble DEF Sound

LEMMA QuietStep ==
  ASSUME IInv, NEW c \in Copiers,
         ReadMemoryMaps(c) \/ OpenMemory(c) \/ OpenStateFile(c) \/ WriteItem(c) \/ Written(c)
  PROVE  IInv'
<1>1. UNCHANGED <<programVars, copy, lapse>>
  BY DEF ReadMemoryMaps, OpenMemory, OpenStateFile, WriteItem, Written
<1>2. PICK there \in Labels :
        /\ at' = [at EXCEPT ![c] = there]
        /\ \/ at[c] \in {"maps", "memory"} /\ there \in {"memory", "read"}
           \/ at[c] \in {"open", "write"} /\ there \in {"write", "takeover"}
  BY DEF ReadMemoryMaps, OpenMemory, OpenStateFile, WriteItem, Written, Goto, IInv, Types, Labels
<1>3. Types'
  BY <1>1, <1>2 DEF IInv, Types, Now, programVars
<1>4. Sound(c)'
  BY <1>1, <1>2 DEF IInv, Types, programVars, Sound, Kind, FreezeLabels, TeleLabels, Holds, Holding,
     Begun, Standing, Relying, Traced, Same, Ended, Instant, Complete, Agrees
<1>5. \A d \in Copiers \ {c} : Gentle(d) /\ at'[d] = at[d] /\ copy'[d] = copy[d]
  BY <1>1, <1>2, NothingHappens DEF IInv, Types
<1> QED BY <1>3, <1>4, <1>5, Assemble

\* A copier takes hold of the program, or of its main thread.
LEMMA HoldStep ==
  ASSUME IInv, NEW c \in Copiers, Attach(c) \/ Seize(c) \/ InterruptIt(c)
  PROVE  IInv'
<1>1. UNCHANGED <<alive, halted, execs, clock, regs, mem, past, refused, copy, lapse>>
  BY DEF Attach, Seize, InterruptIt, TakeHold, Interrupt
<1>2. PICK there \in Labels :
        /\ at' = [at EXCEPT ![c] = there]
        /\ \/ at[c] = "attach" /\ there = "regs" /\ tracer' = c /\ trapped'
           \/ at[c] = "takeover" /\ there = "ensure" /\ tracer' = c /\ trapped'
           \/ at[c] = "seize" /\ there = "interrupt"
           \/ at[c] = "interrupt" /\ there = "regs" /\ tracer' = c /\ trapped'
  BY DEF Attach, Seize, InterruptIt, TakeHold, Interrupt, Goto, Labels
<1>3. Types'
  BY <1>1, <1>2 DEF IInv, Types, Now
<1>4. Sound(c)'
  BY <1>1, <1>2 DEF IInv, Types, Sound, Kind, FreezeLabels, TeleLabels, Holds, Holding,
     Begun, NothingRead, Standing, Relying, Traced, Same, Ended, Instant, Complete, Agrees
<1>5. \A d \in Copiers \ {c} : Gentle(d)
  BY <1>1, HoldsChange DEF Attach, Seize, InterruptIt
<1>6. \A d \in Copiers \ {c} : at'[d] = at[d] /\ copy'[d] = copy[d]
  BY <1>1, <1>2 DEF IInv, Types
<1> QED BY <1>3, <1>4, <1>5, <1>6, Assemble

LEMMA DetachAndStopStep ==
  ASSUME IInv, NEW c \in Copiers, DetachAndStop(c)
  PROVE  IInv'
<1>1. UNCHANGED <<alive, execs, clock, regs, mem, past, copy, lapse>> /\ halted'
  BY DEF DetachAndStop, LetGo, Held
<1>2. at' = [at EXCEPT ![c] = "maps"] /\ at[c] = "detach"
  BY DEF DetachAndStop, Goto
<1>3. Types'
  BY <1>1, <1>2 DEF IInv, Types, Labels, Now
<1>4. Same(c)' /\ c \in Freezers
  BY <1>1, <1>2 DEF IInv, Sound, Kind, TeleLabels, Begun, NothingRead, Same
<1>5. Sound(c)'
  BY <1>1, <1>2, <1>4 DEF IInv, Types, Sound, Kind, FreezeLabels, Holds, Holding,
     Begun, Standing, Relying, Traced, Ended, Instant, Complete
<1>6. \A d \in Copiers \ {c} : Gentle(d)
  BY <1>1, HoldsChange DEF DetachAndStop
<1>7. \A d \in Copiers \ {c} : at'[d] = at[d] /\ copy'[d] = copy[d]
  BY <1>1, <1>2 DEF IInv, Types
<1> QED BY <1>3, <1>5, <1>6, <1>7, Assemble

\* A step of the main thread keeps the types, and is recorded.
LEMMA Advancing ==
  ASSUME Types, Advance
  PROVE  /\ mem' \in [Regions -> Nat] /\ regs' \in Nat /\ clock' \in Nat
         /\ execs \in Nat /\ past \subseteq past' /\ Now' \in past'
<1>1. clock \in Nat /\ mem \in [Regions -> Nat] /\ regs \in Nat /\ execs \in Nat
  BY DEF Types
<1>2. clock' = clock + 1 /\ clock + 1 \in Nat /\ regs' \in {regs, clock + 1} /\ past' = past \cup {Now'}
  BY <1>1 DEF Advance
<1>3. PICK T \in SUBSET Regions : mem' = [r \in Regions |-> IF r \in T THEN clock + 1 ELSE mem[r]]
  BY DEF Advance
<1>4. mem' \in [Regions -> Nat]
  BY <1>1, <1>2, <1>3
<1> QED BY <1>1, <1>2, <1>4

\* The one step of the program's own that the copy does not have.
LEMMA EnsureStep ==
  ASSUME IInv, NEW c \in Copiers, EnsureNotInSyscall(c)
  PROVE  IInv'
<1>1. SingleStep(c) /\ Noted("taken over", c) /\ UNCHANGED copy
  BY DEF EnsureNotInSyscall
<1>2. at' = [at EXCEPT ![c] = "inject"] /\ at[c] = "ensure"
  BY DEF EnsureNotInSyscall, Goto
<1>3. UNCHANGED <<alive, tracer, trapped, halted>> /\ past \subseteq past' /\ lapse'[c] = lapse[c]
  BY <1>1 DEF SingleStep, Advance, Noted, IInv, Types
<1>4. Types'
  <2>1. lapse' \in [Copiers -> SUBSET {"continued", "taken over"}]
    BY <1>1 DEF Noted, IInv, Types
  <2>2. at' \in [Copiers -> Labels]
    BY <1>2 DEF IInv, Types, Labels
  <2>3. /\ mem' \in [Regions -> Nat] /\ regs' \in Nat /\ execs' \in Nat /\ clock' \in Nat
        /\ Now' \in past'
    <3>1. CASE Advance /\ execs' = execs
      BY <3>1, Advancing DEF IInv
    <3>2. CASE UNCHANGED <<execs, clock, regs, mem, past>>
      BY <3>2 DEF IInv, Types, Now
    <3> QED BY <1>1, <3>1, <3>2 DEF SingleStep
  <2> QED BY <1>1, <2>1, <2>2, <2>3 DEF IInv, Types
<1>5. at'[c] = "inject" /\ copy'[c] = copy[c] /\ c \in Freezers
  BY <1>1, <1>2 DEF IInv, Types, Sound, Kind, TeleLabels
<1>6. Kind(c)' /\ Begun(c)' /\ Traced(c)' /\ Ended(c)' /\ Holds(c)'
  BY <1>2, <1>3, <1>5 DEF Kind, FreezeLabels, Begun, Traced, Ended, IInv, Sound, Holds, Holding
<1>7. Standing(c)' /\ Instant(c)'
  BY <1>2, <1>3, <1>5 DEF IInv, Sound, Standing, Relying, Instant, Complete, Agrees
<1>8. \A d \in Copiers \ {c} : Gentle(d) /\ at'[d] = at[d] /\ copy'[d] = copy[d]
  BY <1>1, <1>2, OverwrittenBy DEF IInv, Types
<1> QED BY <1>4, <1>6, <1>7, <1>8, Assemble DEF Sound

LEMMA TakeoverStep ==
  ASSUME IInv, NEW c \in Copiers, InjectArguments(c) \/ ExecveRisen(c)
  PROVE  IInv'
<1>1. Overwrite(c) \/ Execve(c)
  BY DEF InjectArguments, ExecveRisen
<1>2. /\ UNCHANGED <<alive, tracer, trapped, clock>> /\ past' = past \cup {Now'} /\ regs' = Foreign
      /\ execs' \in {execs, execs + 1}
      /\ mem' = mem \/ mem' = [r \in Regions |-> Foreign]
  BY <1>1 DEF Overwrite, Execve
<1>3. Noted("taken over", c) /\ UNCHANGED copy
  BY DEF InjectArguments, ExecveRisen
<1>4. PICK there \in {"execve", "finish"} :
        /\ at' = [at EXCEPT ![c] = there]
        /\ at[c] = IF there = "execve" THEN "inject" ELSE "execve"
  BY DEF InjectArguments, ExecveRisen, Goto
<1>5. Types'
  <2>1. Foreign \in Nat
    BY ProgramAssumption DEF Foreign
  <2>2. lapse' \in [Copiers -> SUBSET {"continued", "taken over"}]
    BY <1>3 DEF Noted, IInv, Types
  <2>3. at' \in [Copiers -> Labels]
    BY <1>4 DEF IInv, Types, Labels
  <2>4. mem' \in [Regions -> Nat] /\ regs' \in Nat /\ execs' \in Nat
    <3>1. mem \in [Regions -> Nat] /\ execs \in Nat
      BY DEF IInv, Types
    <3> QED BY <1>2, <2>1, <3>1
  <2> QED BY <1>2, <1>3, <2>2, <2>3, <2>4 DEF IInv, Types
<1>6. /\ lapse'[c] = lapse[c] /\ past \subseteq past' /\ ~Own'
      /\ there = "finish" => execs' > 0 \/ c \in refused'
  <2>1. there = "finish" => Execve(c)
    BY <1>4 DEF InjectArguments, ExecveRisen
  <2>2. Execve(c) => execs' > 0 \/ c \in refused'
    <3>1. execs \in Nat
      BY DEF IInv, Types
    <3> QED BY <3>1 DEF Execve
  <2> QED BY <1>2, <1>3, <2>1, <2>2 DEF Noted, Own
<1>7. at'[c] = there /\ copy'[c] = copy[c] /\ c \in Freezers
  BY <1>3, <1>4 DEF IInv, Types, Sound, Kind, TeleLabels
<1>8. Kind(c)' /\ Begun(c)' /\ Standing(c)' /\ Traced(c)' /\ Ended(c)'
  BY <1>6, <1>7 DEF Kind, FreezeLabels, Begun, Standing, Relying, Traced, Ended
<1>9. Holds(c)' /\ Instant(c)'
  BY <1>1, <1>2, <1>4, <1>6, <1>7 DEF IInv, Sound, Holds, Overwrite, Execve, Held, Instant, Complete, Agrees
<1>10. \A d \in Copiers \ {c} : Gentle(d) /\ at'[d] = at[d] /\ copy'[d] = copy[d]
  BY <1>1, <1>3, <1>4, OverwrittenBy DEF IInv, Types
<1> QED BY <1>5, <1>8, <1>9, <1>10, Assemble DEF Sound

LEMMA EnvironmentGentle ==
  ASSUME IInv, Environment, NEW d \in Copiers
  PROVE  Gentle(d)
<1>1. CASE MainStep /\ UNCHANGED ownVars
  BY <1>1 DEF MainStep, Advance, ownVars, Gentle, Own
<1>2. CASE ThreadStep /\ UNCHANGED ownVars
  BY <1>2 DEF ThreadStep, ownVars, Gentle, Own
<1>3. CASE Halt /\ UNCHANGED ownVars
  BY <1>3 DEF Halt, ownVars, Gentle, Own
<1>4. CASE Exit /\ UNCHANGED ownVars
  BY <1>4 DEF Exit, ownVars, Gentle, Own
<1>5. CASE Continue /\ Noted("continued", NoOne)
  <2>1. lapse'[d] = IF d \in Freezers /\ Relying(d) THEN lapse[d] \cup {"continued"} ELSE lapse[d]
    BY <1>5, ProgramAssumption DEF Noted
  <2> QED BY <1>5, <2>1 DEF Continue, Gentle, Own
<1> QED BY <1>1, <1>2, <1>3, <1>4, <1>5 DEF Environment

LEMMA EnvironmentStep ==
  ASSUME IInv, Environment
  PROVE  IInv'
<1>1. UNCHANGED <<at, copy>> /\ past \subseteq past' /\ Now' \in past'
  BY DEF Environment, ownVars, MainStep, Advance, ThreadStep, Halt, Exit, Continue, IInv, Types, Now
<1>2. lapse' = lapse \/ (Continue /\ Noted("continued", NoOne))
  BY DEF Environment, ownVars
<1>3. Types'
  <2>1. lapse' \in [Copiers -> SUBSET {"continued", "taken over"}]
    BY <1>2 DEF Noted, IInv, Types
  <2>2. regs' \in Nat /\ mem' \in [Regions -> Nat] /\ clock' \in Nat /\ execs' \in Nat
    <3>1. CASE Advance /\ execs' = execs
      BY <3>1, Advancing DEF IInv
    <3>2. CASE ThreadStep
      <4>1. clock \in Nat /\ mem \in [Regions -> Nat] /\ regs \in Nat /\ execs \in Nat
        BY DEF IInv, Types
      <4> QED BY <3>2, <4>1 DEF ThreadStep
    <3>3. CASE UNCHANGED <<execs, clock, regs, mem>>
      BY <3>3 DEF IInv, Types
    <3> QED BY <3>1, <3>2, <3>3 DEF Environment, MainStep, Halt, Exit, Continue
  <2> QED BY <1>1, <2>1, <2>2 DEF IInv, Types
<1>4. \A d \in Copiers : Gentle(d)
  BY EnvironmentGentle
<1>5. \A d \in Copiers : Sound(d)'
  BY <1>1, <1>4, Bystander
<1> QED BY <1>3, <1>5 DEF IInv

\* Who changes registers or memory takes the program over, and says so.
LEMMA Touches ==
  ASSUME IInv, NEW c \in Copiers, NEW d \in Copiers, Copying(d) \/ Teleclient(d) \/ Freeze(d)
  PROVE  \/ UNCHANGED <<regs, mem>>
         \/ c # d /\ Gentle(c)
         \/ c = d /\ (at[c] = "inject" => at'[c] = "execve")
<1>1. CASE EnsureNotInSyscall(d) \/ InjectArguments(d) \/ ExecveRisen(d)
  <2>1. (Overwrite(d) \/ Execve(d) \/ SingleStep(d)) /\ Noted("taken over", d)
    BY <1>1 DEF EnsureNotInSyscall, InjectArguments, ExecveRisen
  <2>2. d = c /\ at[c] = "inject" => at'[c] = "execve"
    BY <1>1 DEF EnsureNotInSyscall, InjectArguments, ExecveRisen, Goto, IInv, Types
  <2> QED BY <2>1, <2>2, OverwrittenBy
<1>2. CASE ~(EnsureNotInSyscall(d) \/ InjectArguments(d) \/ ExecveRisen(d))
  BY <1>2 DEF Copying, Teleclient, Freeze, GetRegisters, ReadMemoryMaps, OpenMemory, ReadRegion, AllRead,
     ProcessGone, Killed, Fail, Seize, InterruptIt, Send, Attach, DetachAndStop, OpenStateFile, WriteItem,
     Written, FileFails, InjectFails, Finish, LetGo, TakeHold, Interrupt, programVars
<1> QED BY <1>1, <1>2

LEMMA CountedStays == Counted /\ [Next]_vars => Counted'
<1> SUFFICES ASSUME Counted, [Next]_vars PROVE Counted'
    OBVIOUS
<1>1. CASE UNCHANGED n
  BY <1>1 DEF Counted
<1>2. CASE \E c \in Copiers : ReadRegion(c) \/ AllRead(c) \/ WriteItem(c)
  BY <1>2 DEF ReadRegion, AllRead, WriteItem, Counted
<1>3. UNCHANGED n \/ \E c \in Copiers : ReadRegion(c) \/ AllRead(c) \/ WriteItem(c)
  <2>1. Environment \/ UNCHANGED vars => UNCHANGED n
    BY DEF Environment, ownVars, vars
  <2>2. ASSUME NEW c \in Copiers, Copying(c) \/ Teleclient(c) \/ Freeze(c)
        PROVE  UNCHANGED n \/ ReadRegion(c) \/ AllRead(c) \/ WriteItem(c)
    BY <2>2 DEF Copying, Teleclient, Freeze, GetRegisters, ReadMemoryMaps, OpenMemory, ProcessGone,
       Killed, Fail, Seize, InterruptIt, Send, Attach, DetachAndStop, OpenStateFile, Written,
       FileFails, EnsureNotInSyscall, InjectArguments, InjectFails, ExecveRisen, Finish
  <2> QED BY <2>1, <2>2 DEF Next
<1> QED BY <1>1, <1>2, <1>3

LEMMA NextPreserves == IInv /\ Counted /\ [Next]_vars => IInv'
<1> SUFFICES ASSUME IInv, Counted, [Next]_vars PROVE IInv'
    OBVIOUS
<1>1. CASE UNCHANGED vars
  BY <1>1 DEF vars, programVars, IInv, Types, Now, Sound, Kind, Holds, Holding, Begun, NothingRead,
     Standing, Relying, Same, Traced, Ended, Own, Instant, Complete, Agrees
<1>2. CASE Environment
  BY <1>2, EnvironmentStep
<1>3. ASSUME NEW c \in Copiers, Copying(c) \/ Teleclient(c) \/ Freeze(c) PROVE IInv'
  <2>1. CASE ProcessGone(c) \/ Killed(c) \/ FileFails(c) \/ InjectFails(c) \/ Send(c) \/ Finish(c)
    BY <2>1, OverStep DEF ProcessGone, Killed, FileFails, InjectFails
  <2>2. CASE GetRegisters(c) \/ ReadRegion(c) \/ AllRead(c)
    BY <2>2, GetRegistersStep, ReadRegionStep, AllReadStep
  <2>3. CASE ReadMemoryMaps(c) \/ OpenMemory(c) \/ OpenStateFile(c) \/ WriteItem(c) \/ Written(c)
    BY <2>3, QuietStep
  <2>4. CASE Attach(c) \/ Seize(c) \/ InterruptIt(c) \/ DetachAndStop(c)
    BY <2>4, HoldStep, DetachAndStopStep
  <2>5. CASE EnsureNotInSyscall(c) \/ InjectArguments(c) \/ ExecveRisen(c)
    BY <2>5, EnsureStep, TakeoverStep
  <2> QED BY <1>3, <2>1, <2>2, <2>3, <2>4, <2>5 DEF Copying, Teleclient, Freeze
<1> QED BY <1>1, <1>2, <1>3 DEF Next

-----------------------------------------------------------------------------

\* The invariant, with the type of n, that the others rest on.
THEOREM Invariance == Spec => [](IInv /\ Counted)
<1>1. Init => Counted
  BY DEF Init, Counted
<1> QED BY <1>1, InitHolds, NextPreserves, CountedStays, PTL DEF Spec

\* Every copy is the state of one instant, unless SIGCONT or another freezer
\* came between (freeze), or the program has a second thread (the teleclient).
THEOREM OneInstant == Spec => []CopyIsOfOneInstant
<1>1. IInv => CopyIsOfOneInstant
  BY DEF IInv, Sound, Instant, CopyIsOfOneInstant
<1> QED BY <1>1, Invariance, PTL

\* A program that was frozen with success does not go on where it was, and not at
\* all unless its execve was refused (client.rs 70, pcontroller.rs 569-571).
THEOREM Replaced == Spec => []ReplacedUnlessRefused
<1>1. IInv => ReplacedUnlessRefused
  BY CaptureAssumption DEF IInv, Sound, Ended, ReplacedUnlessRefused
<1> QED BY <1>1, Invariance, PTL

\* What a takeover destroys is what was copied and a step (cryogenics.rs 23-29,
\* client.rs 59-71, pcontroller.rs 562).
THEOREM SavedButOneStep == Spec => OneStepLost
<1>1. ASSUME IInv, [Next]_vars, NEW c \in Freezers, lapse[c] = {}, at[c] = "ensure"
      PROVE  Agrees(copy[c], Now)
  <2>1. Same(c)
    BY <1>1, CaptureAssumption DEF IInv, Sound, Standing, Relying
  <2> QED BY <2>1 DEF Same, Agrees, Now
<1>2. ASSUME IInv, [Next]_vars, NEW c \in Freezers, lapse'[c] = {}, lapse[c] = {}, at[c] = "inject",
             at'[c] # "execve"
      PROVE  UNCHANGED <<regs, mem>>
  <2>1. c \in Copiers /\ Relying(c) /\ halted
    BY <1>2, CaptureAssumption DEF IInv, Sound, Standing, Relying
  <2>2. CASE UNCHANGED vars
    BY <2>2 DEF vars, programVars
  <2>3. CASE Environment
    BY <1>2, <2>1, <2>3, EnvironmentGentle DEF Gentle
  <2>4. ASSUME NEW d \in Copiers, Copying(d) \/ Teleclient(d) \/ Freeze(d)
        PROVE  UNCHANGED <<regs, mem>>
    BY <1>2, <2>1, <2>4, Touches DEF Gentle
  <2> QED BY <1>2, <2>2, <2>3, <2>4 DEF Next
<1>3. IInv /\ [Next]_vars =>
        [\A c \in Freezers :
           Own /\ lapse[c] = {} =>
             /\ at[c] = "ensure" /\ at'[c] = "inject" => Agrees(copy[c], Now)
             /\ at[c] = "inject" /\ lapse'[c] = {} =>
                  at'[c] = "execve" \/ UNCHANGED <<regs, mem>>]_vars
  BY <1>1, <1>2
<1> QED BY <1>3, Invariance, PTL DEF Spec, OneStepLost
-----------------------------------------------------------------------------
(* Capture implements Snapshot: the last read of a region takes the copy,   *)
(* and every other step leaves the copies as they are or gives some up.     *)

LEMMA Kept ==
  ASSUME \A d \in Copiers : Copied(d)' \in {Copied(d), NoCopy}
  PROVE  S!Go
<1> DEFINE Over == {d \in Copiers : Copied(d)' = NoCopy}
<1>1. Copies' = [d \in Copiers |-> IF d \in Over THEN NoCopy ELSE Copies[d]]
  BY DEF Copies
<1> QED BY <1>1 DEF S!Go

\* What a step must not do for the copies to be kept.
LEMMA KeptOf ==
  ASSUME NEW d \in Copiers, lapse[d] \subseteq lapse'[d],
         Complete(d)' => Complete(d) /\ copy'[d] = copy[d]
  PROVE  Copied(d)' \in {Copied(d), NoCopy}
<1>1. Undisturbed(d)' => Undisturbed(d)
  BY DEF Undisturbed
<1> QED BY <1>1 DEF Copied, NoCopy

\* No step takes back a lapse.
LEMMA LapsesStay ==
  ASSUME IInv, [Next]_vars, NEW d \in Copiers
  PROVE  lapse[d] \subseteq lapse'[d]
<1>1. lapse' = lapse \/ \E what \in {"continued", "taken over"}, c \in Copiers \cup {NoOne} : Noted(what, c)
  <2>1. Environment \/ UNCHANGED vars =>
          lapse' = lapse \/ \E what \in {"continued", "taken over"}, c \in Copiers \cup {NoOne} : Noted(what, c)
    BY DEF Environment, ownVars, vars
  <2>2. ASSUME NEW c \in Copiers, Copying(c) \/ Teleclient(c) \/ Freeze(c)
        PROVE  lapse' = lapse \/ Noted("taken over", c)
    BY <2>2 DEF Copying, Teleclient, Freeze, GetRegisters, ReadMemoryMaps, OpenMemory, ReadRegion,
       AllRead, ProcessGone, Killed, Fail, Seize, InterruptIt, Send, Attach, DetachAndStop,
       OpenStateFile, WriteItem, Written, FileFails, EnsureNotInSyscall, InjectArguments, InjectFails, ExecveRisen, Finish
  <2> QED BY <2>1, <2>2 DEF Next
<1> QED BY <1>1 DEF Noted, IInv, Types

LEMMA Takes ==
  ASSUME IInv, [Next]_vars, NEW c \in Copiers, AllRead(c), Undisturbed(c)
  PROVE  S!Take(c)
<1>1. at' = [at EXCEPT ![c] = IF c \in Freezers THEN "open" ELSE "send"] /\ at[c] = "read"
  BY DEF AllRead, Goto
<1>2. UNCHANGED <<regs, mem, copy, lapse>>
  BY DEF AllRead, programVars
<1>3. Copied(c) = NoCopy /\ Copied(c)' = copy[c]
  BY <1>1, <1>2 DEF Copied, Complete, Undisturbed, IInv, Types
<1>4. \A d \in Copiers \ {c} : Copied(d)' = Copied(d)
  BY <1>1, <1>2 DEF Copied, Complete, Undisturbed, IInv, Types
<1>5. Same(c)
  BY <1>1 DEF IInv, Sound, Standing, Relying, Traced, Undisturbed
<1> DEFINE There == {r \in Regions : copy[c].mem[r] # Missing}
<1>6. copy[c] = [regs |-> regs, mem |-> [r \in Regions |-> IF r \in There THEN mem[r] ELSE Missing]]
  <2>1. copy[c] \in [regs : Nat, mem : [Regions -> Nat]]
    BY DEF IInv, Types
  <2>2. copy[c].mem = [r \in Regions |-> IF r \in There THEN mem[r] ELSE Missing]
    BY <1>5, <2>1 DEF Same
  <2> QED BY <1>5, <2>1, <2>2 DEF Same
<1>7. Copies' = [Copies EXCEPT ![c] = copy[c]] /\ Copies[c] = NoCopy
  BY <1>3, <1>4 DEF Copies
<1>8. There \in SUBSET Regions
  OBVIOUS
<1> QED BY <1>2, <1>6, <1>7, <1>8 DEF S!Take

\* Any other step keeps or gives up each copy.
LEMMA NotTaken ==
  ASSUME IInv, [Next]_vars, NEW d \in Copiers, ~(AllRead(d) /\ Undisturbed(d))
  PROVE  Copied(d)' \in {Copied(d), NoCopy}
<1>1. lapse[d] \subseteq lapse'[d]
  BY LapsesStay
<1>2. CASE AllRead(d)
  <2>1. lapse' = lapse
    BY <1>2 DEF AllRead
  <2> QED BY <1>2, <2>1 DEF Copied, Undisturbed
<1>3. CASE Environment \/ UNCHANGED vars
  <2>1. UNCHANGED <<at, copy>>
    BY <1>3 DEF Environment, ownVars, vars
  <2> QED BY <1>1, <2>1, KeptOf DEF Complete
<1>4. ASSUME NEW c \in Copiers, Copying(c) \/ Teleclient(c) \/ Freeze(c), ~AllRead(d)
      PROVE  Complete(d)' => Complete(d) /\ copy'[d] = copy[d]
  <2>1. CASE c = d
    <3>1. CASE GetRegisters(d) \/ ReadRegion(d)
      BY <3>1 DEF GetRegisters, ReadRegion, Goto, Complete, IInv, Types
    <3>2. CASE ProcessGone(d) \/ Killed(d) \/ FileFails(d) \/ InjectFails(d) \/ Send(d) \/ Finish(d)
      BY <3>2 DEF ProcessGone, Killed, FileFails, InjectFails, Fail, Send, Finish, Goto, Complete, IInv, Types
    <3>3. CASE Seize(d) \/ InterruptIt(d) \/ DetachAndStop(d) \/ ReadMemoryMaps(d) \/ OpenMemory(d)
      BY <3>3 DEF Seize, InterruptIt, DetachAndStop, ReadMemoryMaps, OpenMemory, Goto, Complete, IInv, Types
    <3>4. CASE OpenStateFile(d) \/ WriteItem(d) \/ Written(d) \/ EnsureNotInSyscall(d) \/ InjectArguments(d) \/ ExecveRisen(d)
      BY <3>4 DEF OpenStateFile, WriteItem, Written, EnsureNotInSyscall, InjectArguments, ExecveRisen, Goto, Complete
    <3>5. CASE Attach(d)
      BY <3>5 DEF Attach, Goto, Complete, IInv, Types
    <3> QED BY <1>4, <2>1, <3>1, <3>2, <3>3, <3>4, <3>5 DEF Copying, Teleclient, Freeze
  <2>2. CASE c # d
    <3> DEFINE Others == at'[d] = at[d] /\ copy'[d] = copy[d]
    <3>1. CASE GetRegisters(c) \/ ReadRegion(c) \/ AllRead(c)
      <4>1. Others
        BY <2>2, <3>1 DEF GetRegisters, ReadRegion, AllRead, Goto, IInv, Types
      <4> QED BY <4>1 DEF Complete
    <3>2. CASE ProcessGone(c) \/ Killed(c) \/ FileFails(c) \/ InjectFails(c) \/ Send(c) \/ Finish(c)
      <4>1. Others
        BY <2>2, <3>2 DEF ProcessGone, Killed, FileFails, InjectFails, Fail, Send, Finish, Goto, IInv, Types
      <4> QED BY <4>1 DEF Complete
    <3>3. CASE Attach(c) \/ Seize(c) \/ InterruptIt(c) \/ DetachAndStop(c) \/ ReadMemoryMaps(c)
               \/ OpenMemory(c)
      <4>1. Others
        BY <2>2, <3>3 DEF Attach, Seize, InterruptIt, DetachAndStop, ReadMemoryMaps, OpenMemory, Goto,
           IInv, Types
      <4> QED BY <4>1 DEF Complete
    <3>4. CASE OpenStateFile(c) \/ WriteItem(c) \/ Written(c) \/ EnsureNotInSyscall(c) \/ InjectArguments(c) \/ ExecveRisen(c)
      <4>1. Others
        BY <2>2, <3>4 DEF OpenStateFile, WriteItem, Written, EnsureNotInSyscall, InjectArguments, ExecveRisen, Goto, IInv, Types
      <4> QED BY <4>1 DEF Complete
    <3> QED BY <1>4, <3>1, <3>2, <3>3, <3>4 DEF Copying, Teleclient, Freeze
  <2> QED BY <2>1, <2>2
<1> QED BY <1>1, <1>2, <1>3, <1>4, KeptOf DEF Next

\* Capture implements Snapshot, for any number of copiers and regions.
THEOREM SnapshotImplemented == Spec => SnapshotSpec
<1>1. Init => S!Init
  BY DEF Init, Copies, Copied, Complete, S!Init
<1>2. IInv /\ [Next]_vars => [S!Next]_<<regs, mem, Copies>>
  <2> SUFFICES ASSUME IInv, [Next]_vars PROVE S!Next
      OBVIOUS
  <2>1. CASE \E c \in Copiers : AllRead(c) /\ Undisturbed(c)
    BY <2>1, Takes DEF S!Next
  <2>2. CASE ~\E c \in Copiers : AllRead(c) /\ Undisturbed(c)
    BY <2>2, NotTaken, Kept DEF S!Next
  <2> QED BY <2>1, <2>2
<1> QED BY <1>1, <1>2, Invariance, PTL DEF Spec, SnapshotSpec, S!Spec


-----------------------------------------------------------------------------
(* Induction over the natural numbers, from their well-foundedness, and what *)
(* FlattenSeq, which is recursive, makes of a sequence of sequences.         *)

\* The order by which Nat is well-founded.
Below == {p \in Nat \X Nat : p[1] < p[2]}

\* Every set of natural numbers that is not empty has a least element.
LEMMA Least ==
  ASSUME NEW T \in SUBSET Nat, T # {}
  PROVE \E m \in T : \A k \in T : m <= k
<1>1. IsWellFoundedOn(Below, Nat)
  BY NatLessThanWellFounded DEF OpToRel, Below
<1>2. PICK m \in T : \A k \in T : <<k, m>> \notin Below
  BY <1>1, WFMin
<1>3. ASSUME NEW k \in T PROVE m <= k
  <2>1. <<k, m>> \notin Below
    BY <1>2
  <2>2. ~ (k < m)
    BY <2>1 DEF Below
  <2> QED BY <2>2
<1> QED BY <1>3

\* Hence induction, for a set instead of a predicate.
LEMMA Induction ==
  ASSUME NEW T, 0 \in T, \A l \in Nat : l \in T => l+1 \in T
  PROVE  Nat \subseteq T
<1> SUFFICES ASSUME Nat \ T # {} PROVE FALSE
  OBVIOUS
<1>1. PICK m \in Nat \ T : \A k \in Nat \ T : m <= k
  BY Least
<1>2. m - 1 \in Nat /\ m - 1 \in T
  BY <1>1
<1> QED BY <1>1, <1>2

\* f is the recursive function in the definition of FlattenSeq.
Flattens(f, s) ==
  f = [i \in 1..Len(s) |-> IF i = 1 THEN s[i] ELSE f[i-1] \o s[i]]

Flattened(s) == CHOOSE f : Flattens(f, s)

LEMMA FlattenIs ==
  ASSUME NEW E, NEW s \in Seq(E), Len(s) # 0
  PROVE  FlattenSeq(s) = Flattened(s)[Len(s)]
BY DEF FlattenSeq, Flattened, Flattens

\* f[l] is what the first l members of s make when they are joined.
Joins(f, s, l) == f[0] = <<>> /\ \A i \in 1..l : f[i] = f[i-1] \o s[i]

LEMMA JoinsExist ==
  ASSUME NEW E, NEW s \in Seq(Seq(E))
  PROVE  \A l \in 0..Len(s) : \E f \in [0..l -> Seq(E)] : Joins(f, s, l)
<1> DEFINE T == {l \in Nat : l <= Len(s) => \E f \in [0..l -> Seq(E)] : Joins(f, s, l)}
<1>1. 0 \in T
  <2>1. [i \in 0..0 |-> <<>>] \in [0..0 -> Seq(E)]
    OBVIOUS
  <2>2. Joins([i \in 0..0 |-> <<>>], s, 0)
    BY DEF Joins
  <2> QED BY <2>1, <2>2
<1>2. ASSUME NEW l \in Nat, l \in T PROVE l + 1 \in T
  <2> SUFFICES ASSUME l + 1 <= Len(s)
               PROVE  \E f \in [0..(l+1) -> Seq(E)] : Joins(f, s, l+1)
      OBVIOUS
  <2>1. PICK f \in [0..l -> Seq(E)] : Joins(f, s, l)
    BY <1>2
  <2> DEFINE g == [i \in 0..(l+1) |-> IF i <= l THEN f[i] ELSE f[l] \o s[l+1]]
  <2>2. s[l+1] \in Seq(E) /\ f[l] \in Seq(E)
    OBVIOUS
  <2>3. f[l] \o s[l+1] \in Seq(E)
    BY <2>2
  <2>4. g \in [0..(l+1) -> Seq(E)]
    BY <2>3
  <2>5. Joins(g, s, l+1)
    <3>1. g[0] = <<>>
      BY <2>1 DEF Joins
    <3>2. ASSUME NEW i \in 1..l PROVE g[i] = g[i-1] \o s[i]
      <4>1. i \in 0..(l+1) /\ i-1 \in 0..(l+1) /\ i <= l /\ i-1 <= l
        OBVIOUS
      <4>2. g[i] = f[i] /\ g[i-1] = f[i-1]
        BY <4>1
      <4>3. f[i] = f[i-1] \o s[i]
        BY <2>1 DEF Joins
      <4> QED BY <4>2, <4>3
    <3>3. g[l+1] = g[l] \o s[l+1]
      <4>1. l \in 0..(l+1) /\ l+1 \in 0..(l+1) /\ ~(l+1 <= l)
        OBVIOUS
      <4> QED BY <4>1
    <3> HIDE DEF g
    <3>4. ASSUME NEW i \in 1..(l+1) PROVE g[i] = g[i-1] \o s[i]
      <4>1. CASE i \in 1..l
        BY <4>1, <3>2
      <4>2. CASE i = l+1
        <5>1. i - 1 = l
          BY <4>2
        <5>2. g[i] = g[l+1] /\ g[i-1] = g[l] /\ s[i] = s[l+1]
          BY <4>2, <5>1
        <5> QED BY <5>2, <3>3
      <4>3. i \in 1..l \/ i = l+1
        OBVIOUS
      <4> QED BY <4>1, <4>2, <4>3
    <3> QED BY <3>1, <3>4 DEF Joins
  <2> QED BY <2>4, <2>5
<1> HIDE DEF T
<1>3. Nat \subseteq T
  BY <1>1, <1>2, Induction
<1> QED BY <1>3 DEF T

\* FlattenSeq joins all of them.
LEMMA Joining ==
  ASSUME NEW E, NEW s \in Seq(Seq(E))
  PROVE  \E f \in [0..Len(s) -> Seq(E)] : Joins(f, s, Len(s)) /\ FlattenSeq(s) = f[Len(s)]
<1>1. PICK f \in [0..Len(s) -> Seq(E)] : Joins(f, s, Len(s))
  BY JoinsExist
<1>2. CASE Len(s) = 0
  BY <1>1, <1>2 DEF FlattenSeq, Joins
<1>3. CASE Len(s) # 0
  <2> DEFINE g == [i \in 1..Len(s) |-> f[i]]
  <2>1. \A i \in 1..Len(s) : f[i] = IF i = 1 THEN s[i] ELSE f[i-1] \o s[i]
    <3>1. ASSUME NEW i \in 1..Len(s), i = 1 PROVE f[i] = s[i]
      <4>1. f[1] = f[0] \o s[1] /\ f[0] = <<>> /\ s[1] \in Seq(E)
        <5>1. 1 \in 1..Len(s) /\ 1 - 1 = 0
          BY <1>3
        <5>2. f[1] = f[1-1] \o s[1] /\ f[0] = <<>>
          BY <1>1, <5>1 DEF Joins
        <5>3. s[1] \in Seq(E)
          BY <5>1
        <5> QED BY <5>1, <5>2, <5>3
      <4> QED BY <3>1, <4>1, ConcatEmptySeq
    <3> QED BY <1>1, <3>1 DEF Joins
  <2>2. Flattens(g, s)
    BY <2>1 DEF Flattens
  <2>3. Flattens(Flattened(s), s)
    BY <2>2 DEF Flattened
  <2> DEFINE T == {l \in Nat : l \in 1..Len(s) => Flattened(s)[l] = f[l]}
  <2>4. 0 \in T
    OBVIOUS
  <2>5. ASSUME NEW l \in Nat, l \in T PROVE l + 1 \in T
    <3> SUFFICES ASSUME l + 1 \in 1..Len(s) PROVE Flattened(s)[l+1] = f[l+1]
      OBVIOUS
    <3>1. \A i \in 1..Len(s) :
            Flattened(s)[i] = IF i = 1 THEN s[i] ELSE Flattened(s)[i-1] \o s[i]
      BY <2>3 DEF Flattens
    <3>2. CASE l = 0
      BY <2>1, <3>1, <3>2
    <3>3. CASE l # 0
      <4>1. l \in 1..Len(s) /\ Flattened(s)[l] = f[l] /\ l + 1 # 1 /\ l + 1 - 1 = l
        BY <2>5, <3>3
      <4> QED BY <2>1, <3>1, <4>1
    <3> QED BY <3>2, <3>3
  <2> HIDE DEF T
  <2>6. Nat \subseteq T
    BY <2>4, <2>5, Induction
  <2>7. Flattened(s)[Len(s)] = f[Len(s)]
    BY <1>3, <2>6 DEF T
  <2> QED BY <1>1, <1>3, <2>7, FlattenIs
<1> QED BY <1>2, <1>3

\* What has been joined stays in front.
Includes(f, l) ==
  \A j \in 0..l : Len(f[j]) <= Len(f[l]) /\ \A x \in 1..Len(f[j]) : f[l][x] = f[j][x]

LEMMA InFront ==
  ASSUME NEW E, NEW s \in Seq(Seq(E)), NEW f \in [0..Len(s) -> Seq(E)], Joins(f, s, Len(s))
  PROVE  \A l \in 0..Len(s) : Includes(f, l)
<1> DEFINE T == {l \in Nat : l <= Len(s) => Includes(f, l)}
<1>1. 0 \in T
  BY DEF Includes
<1> HIDE DEF T
<1>2. ASSUME NEW l \in Nat, l \in T PROVE l + 1 \in T
  <2> SUFFICES ASSUME l + 1 <= Len(s), NEW j \in 0..(l + 1)
               PROVE  /\ Len(f[j]) <= Len(f[l+1])
                      /\ \A x \in 1..Len(f[j]) : f[l+1][x] = f[j][x]
      BY DEF T, Includes
  <2>0. l + 1 \in 1..Len(s) /\ l \in 0..Len(s) /\ l + 1 \in 0..Len(s) /\ (l+1)-1 = l /\ Len(s) \in Nat
    OBVIOUS
  <2>1. f[l+1] = f[l] \o s[l+1] /\ f[l] \in Seq(E) /\ s[l+1] \in Seq(E)
    <3>1. f[l] \in Seq(E)
      BY <2>0
    <3>3. s[l+1] \in Seq(E)
      BY <2>0, ElementOfSeq
    <3>2. f[l+1] = f[(l+1)-1] \o s[l+1]
      BY <2>0 DEF Joins
    <3> QED BY <2>0, <3>1, <3>2, <3>3
  <2>2. /\ Len(f[l+1]) = Len(f[l]) + Len(s[l+1]) /\ Len(s[l+1]) \in Nat /\ Len(f[l]) \in Nat
        /\ \A x \in 1..Len(f[l]) : f[l+1][x] = f[l][x]
    <3> DEFINE u == f[l]  v == s[l+1]
    <3>1. u \in Seq(E) /\ v \in Seq(E) /\ f[l+1] = u \o v
      BY <2>1
    <3> HIDE DEF u, v
    <3>2. /\ Len(u \o v) = Len(u) + Len(v) /\ Len(u) \in Nat /\ Len(v) \in Nat
          /\ \A x \in 1..Len(u) : (u \o v)[x] = u[x]
      BY <3>1, ConcatProperties, LenProperties
    <3> QED BY <3>1, <3>2 DEF u, v
  <2>3. CASE j = l + 1
    <3>1. f[l+1] \in Seq(E)
      BY <2>0
    <3> QED BY <2>3, <3>1
  <2>4. CASE j # l + 1
    <3>1. j \in 0..l /\ j \in 0..Len(s)
      BY <2>0, <2>4
    <3>3. f[j] \in Seq(E)
      BY <3>1
    <3>2. Len(f[j]) <= Len(f[l]) /\ \A x \in 1..Len(f[j]) : f[l][x] = f[j][x]
      BY <1>2, <2>0, <3>1 DEF T, Includes
    <3>4. Len(f[j]) \in Nat
      BY <3>3
    <3>5. Len(f[j]) <= Len(f[l+1])
      <4>1. \A p, q, r \in Nat : p <= q => p <= q + r
        OBVIOUS
      <4> QED BY <4>1, <2>2, <3>2, <3>4
    <3>6. ASSUME NEW x \in 1..Len(f[j]) PROVE f[l+1][x] = f[j][x]
      <4>1. x \in 1..Len(f[l])
        BY <2>2, <3>2, <3>4
      <4> QED BY <2>2, <3>2, <4>1
    <3> QED BY <3>5, <3>6
  <2> QED BY <2>3, <2>4
<1>3. Nat \subseteq T
  BY <1>1, <1>2, Induction
<1> QED BY <1>3 DEF T

\* Parts of a sequence: its first l members, and those from p + 1 to q.
LEMMA Beginning ==
  ASSUME NEW E, NEW s \in Seq(E), NEW l \in 0..Len(s)
  PROVE  /\ SubSeq(s, 1, l) \in Seq(E) /\ Len(SubSeq(s, 1, l)) = l
         /\ \A x \in 1..l : SubSeq(s, 1, l)[x] = s[x]
<1>1. Len(s) \in Nat /\ l \in Nat /\ l <= Len(s)
  BY LenProperties
<1>2. \A x \in 1..l : s[x] \in E
  BY <1>1, ElementOfSeq
<1>3. /\ SubSeq(s, 1, l) \in Seq(E)
      /\ Len(SubSeq(s, 1, l)) = IF 1 <= l THEN l-1+1 ELSE 0
      /\ \A x \in 1..l-1+1 : SubSeq(s, 1, l)[x] = s[1+x-1]
  BY <1>1, <1>2, SubSeqProperties
<1> QED BY <1>1, <1>3

LEMMA Cut ==
  ASSUME NEW E, NEW s \in Seq(E), NEW p \in Nat, NEW q \in Nat, p <= q, q <= Len(s)
  PROVE  /\ SubSeq(s, p + 1, q) \in Seq(E) /\ Len(SubSeq(s, p + 1, q)) = q - p
         /\ \A x \in 1..(q - p) : SubSeq(s, p + 1, q)[x] = s[p + x]
<1>1. Len(s) \in Nat
  BY LenProperties
<1>2. \A x \in (p + 1)..q : s[x] \in E
  BY <1>1, ElementOfSeq
<1>3. /\ SubSeq(s, p + 1, q) \in Seq(E)
      /\ Len(SubSeq(s, p + 1, q)) = IF p + 1 <= q THEN q-(p + 1)+1 ELSE 0
      /\ \A x \in 1..q-(p + 1)+1 : SubSeq(s, p + 1, q)[x] = s[(p + 1)+x-1]
  BY <1>1, <1>2, SubSeqProperties
<1> QED BY <1>3

-----------------------------------------------------------------------------
(* The state file.  A freezer that alone has opened it has overwritten its   *)
(* beginning with what it has written, and what follows is old.              *)

\* What a file may hold, and what a copier may have copied.
Old == <<"old", 0>>
Items == {<<"map", r>> : r \in Regions} \cup {<<"data", t>> : t \in Nat} \cup {<<"regs", t>> : t \in Nat}
CopyType == [regs : Nat, mem : [Regions -> Nat]]

LEMMA DocumentType ==
  ASSUME NEW s \in CopyType
  PROVE  Document(s) \in Seq(Items)
<1> DEFINE part(r) ==
      IF s.mem[r] = Missing THEN <<<<"map", r>>>> ELSE <<<<"map", r>>, <<"data", s.mem[r]>>>>
<1> DEFINE parts == [r \in Regions |-> part(r)]
<1> HIDE DEF part
<1>1. parts \in Seq(Seq(Items))
  <2>1. ASSUME NEW r \in Regions PROVE part(r) \in Seq(Items)
    <3>1. <<"map", r>> \in Items /\ <<"data", s.mem[r]>> \in Items
      BY DEF Items, CopyType
    <3> QED BY <3>1 DEF part
  <2> DEFINE Texts == Seq(Items)
  <2>3. \A r \in Regions : part(r) \in Texts
    BY <2>1
  <2> HIDE DEF Texts
  <2>4. parts \in [Regions -> Texts]
    BY <2>3
  <2>2. parts \in [1..NRegions -> Seq(Items)]
    BY <2>4 DEF Texts, Regions
  <2> QED BY <2>2, ProgramAssumption
<1>2. FlattenSeq(parts) \in Seq(Items)
  <2> HIDE DEF parts
  <2>1. PICK f \in [0..Len(parts) -> Seq(Items)] : FlattenSeq(parts) = f[Len(parts)]
    BY <1>1, Joining
  <2>2. Len(parts) \in 0..Len(parts)
    BY <1>1
  <2> QED BY <2>1, <2>2
<1>3. <<<<"regs", s.regs>>>> \in Seq(Items)
  BY DEF Items, CopyType
<1> HIDE DEF parts
<1>4. FlattenSeq(parts) \o <<<<"regs", s.regs>>>> \in Seq(Items)
  BY <1>2, <1>3, ConcatProperties
<1> QED BY <1>4 DEF Document, parts, part

Doc(c) == Document(copy[c])

\* c has written m items, over whatever the file held.
Upto(c, m) ==
  /\ m \in 0..Len(Doc(c))
  /\ file \in Seq(Items \cup {Old}) /\ m <= Len(file)
  /\ \A i \in 1..Len(file) : file[i] = IF i <= m THEN Doc(c)[i] ELSE Old

\* A freezer has opened the file; has written all it has to write.
Opened == {"write", "takeover", "ensure", "inject", "execve", "finish", "done", "failed"}
Through == {"takeover", "ensure", "inject", "execve", "finish", "done"}

\* A freezer at "open" or later is a writer, and a writer that is alone has
\* overwritten the file so far as it has come; until it has come to the end the
\* program has its own registers.
FileInv ==
  /\ \A c \in writers : c \in Freezers /\ at[c] \in Opened
  /\ \A c \in Freezers :
       /\ at[c] \in Opened \ {"failed"} => c \in writers
       /\ at[c] = "open" => n[c] = 0
  /\ ~Own => \E c \in writers : at[c] \in {"execve", "finish", "done", "failed"}
  /\ writers = {} => file \in Seq({Old})
  /\ \A c \in Freezers :
       writers = {c} =>
         /\ at[c] = "write" => Upto(c, n[c])
         /\ at[c] \in Through \/ ~Own => Upto(c, Len(Doc(c)))

\* Together with the types, FileInv says that the state is in the file.
LEMMA FileInvSuffices ==
  ASSUME IInv, FileInv
  PROVE  StateSurvives
<1> SUFFICES ASSUME NEW c \in Freezers, ~Own, writers = {c}
             PROVE  LET doc == Document(copy[c])
                    IN /\ IsPrefix(doc, file)
                       /\ file = doc \/ file[Len(file)] = <<"old", 0>>
    BY DEF StateSurvives
<1> DEFINE doc == Doc(c)
<1>1. doc \in Seq(Items)
  BY CaptureAssumption, DocumentType DEF IInv, Types, Doc, CopyType
<1>2. /\ file \in Seq(Items \cup {Old}) /\ Len(doc) <= Len(file)
      /\ \A i \in 1..Len(file) : file[i] = IF i <= Len(doc) THEN doc[i] ELSE Old
  BY DEF FileInv, Upto
<1>3. IsPrefix(doc, file)
  <2>1. doc \in Seq(Items \cup {Old}) /\ Len(doc) \in Nat /\ Len(file) \in Nat
    BY <1>1, <1>2, SeqMonotonic
  <2> HIDE DEF doc
  <2>2. \A i \in 1..Len(doc) : doc[i] \in Items \cup {Old} /\ file[i] = doc[i] /\ file[i] \in Items \cup {Old}
    BY <1>2, <2>1
  <2>3. /\ SubSeq(doc, 1, Len(doc)) \in Seq(Items \cup {Old})
        /\ Len(SubSeq(doc, 1, Len(doc))) = Len(doc)
        /\ \A i \in 1..Len(doc) : SubSeq(doc, 1, Len(doc))[i] = doc[i]
    BY <2>1, SubSeqFull
  <2>4. /\ SubSeq(file, 1, Len(doc)) \in Seq(Items \cup {Old})
        /\ Len(SubSeq(file, 1, Len(doc))) = Len(doc)
        /\ \A i \in 1..Len(doc) : SubSeq(file, 1, Len(doc))[i] = file[i]
    <3>1. /\ SubSeq(file, 1, Len(doc)) \in Seq(Items \cup {Old})
          /\ Len(SubSeq(file, 1, Len(doc))) = IF 1 <= Len(doc) THEN Len(doc)-1+1 ELSE 0
          /\ \A i \in 1..Len(doc)-1+1 : SubSeq(file, 1, Len(doc))[i] = file[1+i-1]
      BY <2>1, <2>2, SubSeqProperties
    <3> QED BY <2>1, <3>1
  <2>5. SubSeq(doc, 1, Len(doc)) = SubSeq(file, 1, Len(doc))
    BY <2>2, <2>3, <2>4, SeqEqual
  <2> QED BY <1>2, <2>5 DEF IsPrefix
<1>4. file = doc \/ file[Len(file)] = Old
  <2>1. doc \in Seq(Items \cup {Old}) /\ Len(doc) \in Nat /\ Len(file) \in Nat
    BY <1>1, <1>2, SeqMonotonic
  <2> HIDE DEF doc
  <2>2. CASE Len(doc) = Len(file)
    <3>1. \A i \in 1..Len(file) : file[i] = doc[i]
      BY <1>2, <2>1, <2>2
    <3> QED BY <1>2, <2>1, <2>2, <3>1, SeqEqual
  <2>3. CASE Len(doc) < Len(file)
    BY <1>2, <2>1, <2>3
  <2> QED BY <1>2, <2>1, <2>2, <2>3
<1> QED BY <1>3, <1>4 DEF Doc, Old

LEMMA InitFile == Init => FileInv
<1> SUFFICES ASSUME Init PROVE FileInv
    OBVIOUS
<1>1. Own
  BY ProgramAssumption DEF Init, ProgramInit, Own, Foreign
<1>2. file \in Seq({Old})
  BY CaptureAssumption DEF Init, Old
<1>3. \A c \in Freezers : at[c] = "attach"
  BY CaptureAssumption DEF Init
<1> QED BY <1>1, <1>2, <1>3 DEF Init, FileInv, Opened

\* Where a writer may be when the program has lost its registers.
Beyond == {"execve", "finish", "done", "failed"}

\* A step of c that leaves the file alone.
LEMMA MoveOn ==
  ASSUME IInv, FileInv, NEW c \in Copiers, NEW there \in Labels,
         at' = [at EXCEPT ![c] = there], UNCHANGED <<file, writers>>,
         \A d \in Copiers \ {c} : n'[d] = n[d] /\ copy'[d] = copy[d],
         c \in writers => copy'[c] = copy[c] /\ n'[c] = n[c],
         c \in Freezers /\ there = "open" => n'[c] = 0,
         at[c] # "failed",
         c \in Freezers /\ at[c] \in Opened => there \in Opened,
         c \in Freezers /\ there \in Opened \ {"failed"} => at[c] \in Opened,
         c \in Freezers /\ there \in Through =>
           at[c] \in Through \/ (at[c] = "write" /\ n[c] = Len(Doc(c))),
         there # "write",
         at[c] \in Beyond => there \in Beyond,
         ~Own' => ~Own \/ (c \in writers /\ at[c] \in Through /\ there \in Beyond),
         ~Own => ~Own'
  PROVE  FileInv'
<1>1. /\ \A d \in Copiers \ {c} : at'[d] = at[d]
      /\ at'[c] = there
  BY DEF IInv, Types
<1>2. writers \subseteq Freezers /\ Freezers \subseteq Copiers
  BY CaptureAssumption DEF FileInv
<1>3. /\ \A d \in writers' : d \in Freezers /\ at'[d] \in Opened
      /\ \A d \in Freezers :
           /\ at'[d] \in Opened \ {"failed"} => d \in writers'
           /\ at'[d] = "open" => n'[d] = 0
  BY <1>1, <1>2 DEF FileInv
<1>4. ~Own' => \E d \in writers' : at'[d] \in {"execve", "finish", "done", "failed"}
  BY <1>1, <1>2 DEF FileInv, Beyond
<1>5. writers' = {} => file' \in Seq({Old})
  BY DEF FileInv
<1>6. ASSUME NEW d \in Freezers, writers = {d}
      PROVE  /\ at'[d] = "write" => Upto(d, n[d])' 
             /\ at'[d] \in Through \/ ~Own' => Upto(d, Len(Doc(d)))'
  <2>1. copy'[d] = copy[d] /\ n'[d] = n[d] /\ Doc(d)' = Doc(d)
    BY <1>2, <1>6 DEF Doc
  <2>2. \A m : Upto(d, m)' <=> Upto(d, m)
    BY <2>1 DEF Upto
  <2>3. at'[d] = "write" => Upto(d, n[d])
    BY <1>1, <1>2, <1>6 DEF FileInv
  <2>4. at'[d] \in Through \/ ~Own' => Upto(d, Len(Doc(d)))
    BY <1>1, <1>2, <1>6 DEF FileInv
  <2> QED BY <2>1, <2>2, <2>3, <2>4
<1> QED BY <1>3, <1>4, <1>5, <1>6 DEF FileInv

LEMMA FailKeepsFile ==
  ASSUME IInv, Counted, FileInv, NEW c \in Copiers, at[c] # "failed",
         Fail(c) \/ Send(c) \/ Finish(c)
  PROVE  FileInv'
<1>1. UNCHANGED <<copy, n, file, writers, execs, regs>>
  BY DEF Fail, Send, Finish, LetGo
<1>2. PICK there \in {"done", "failed"} :
        /\ at' = [at EXCEPT ![c] = there]
        /\ there = "done" => at[c] \in {"send", "finish"}
  BY DEF Fail, Send, Finish, Goto
<1>3. Kind(c)
  BY DEF IInv, Sound
<1> QED BY <1>1, <1>2, <1>3, MoveOn DEF Kind, TeleLabels, FreezeLabels, Opened, Through, Beyond, Labels, Own

LEMMA ReadKeepsFile ==
  ASSUME IInv, Counted, FileInv, NEW c \in Copiers,
         GetRegisters(c) \/ ReadMemoryMaps(c) \/ OpenMemory(c) \/ ReadRegion(c) \/ AllRead(c)
  PROVE  FileInv'
<1>1. UNCHANGED <<programVars, file, writers>> /\ at[c] \in {"regs", "maps", "memory", "read"}
  BY DEF GetRegisters, ReadMemoryMaps, OpenMemory, ReadRegion, AllRead
<1>2. PICK there \in {"detach", "maps", "memory", "read", "open", "send"} :
        /\ at' = [at EXCEPT ![c] = there]
        /\ there = "open" => AllRead(c)
  <2>1. CASE ReadRegion(c)
    <3>1. at \in [Copiers -> Labels]
      BY DEF IInv, Types
    <3>2. at' = [at EXCEPT ![c] = "read"]
      BY <2>1, <3>1 DEF ReadRegion
    <3> QED BY <3>2
  <2>2. CASE AllRead(c)
    BY <2>2 DEF AllRead, Goto
  <2>3. CASE GetRegisters(c) \/ ReadMemoryMaps(c) \/ OpenMemory(c)
    <3>1. \E there \in {"detach", "maps", "memory", "read"} : at' = [at EXCEPT ![c] = there]
      BY <2>3 DEF GetRegisters, ReadMemoryMaps, OpenMemory, Goto
    <3> QED BY <3>1
  <2> QED BY <2>1, <2>2, <2>3
<1>3. \A d \in Copiers \ {c} : n'[d] = n[d] /\ copy'[d] = copy[d]
  BY DEF GetRegisters, ReadMemoryMaps, OpenMemory, ReadRegion, AllRead, IInv, Types, Counted
<1>4. there = "open" => n'[c] = 0
  BY <1>2 DEF AllRead, Counted
<1>5. c \notin writers
  BY <1>1 DEF FileInv, Opened
<1> QED BY <1>1, <1>2, <1>3, <1>4, <1>5, MoveOn DEF Opened, Through, Beyond, Labels, Own, programVars

LEMMA HoldKeepsFile ==
  ASSUME IInv, Counted, FileInv, NEW c \in Copiers,
         Attach(c) \/ Seize(c) \/ InterruptIt(c) \/ DetachAndStop(c) \/ Written(c)
  PROVE  FileInv'
<1>1. UNCHANGED <<copy, n, file, writers, execs, regs>>
  BY DEF Attach, Seize, InterruptIt, DetachAndStop, Written, TakeHold, Interrupt, LetGo, programVars
<1>2. PICK there \in {"regs", "ensure", "interrupt", "maps", "takeover"} :
        /\ at' = [at EXCEPT ![c] = there]
        /\ \/ there = "ensure" /\ at[c] = "takeover"
           \/ there = "takeover" /\ at[c] = "write" /\ n[c] = Len(Doc(c))
           \/ there \in {"regs", "interrupt", "maps"} /\ at[c] \in {"attach", "seize", "interrupt", "detach"}
  BY DEF Attach, Seize, InterruptIt, DetachAndStop, Written, Goto, Doc
<1> QED BY <1>1, <1>2, MoveOn DEF Opened, Through, Beyond, Labels, Own

\* Steps do not return to registers that were lost, nor lose any.
LEMMA OwnStays ==
  ASSUME IInv, Advance, execs' = execs
  PROVE  Own' <=> Own
<1>1. clock \in Nat /\ MaxClock \in Nat /\ clock < MaxClock
  BY ProgramAssumption DEF Advance, IInv, Types
<1>2. clock + 1 # Foreign
  BY <1>1 DEF Foreign
<1>3. regs' = IF regs = Foreign THEN Foreign ELSE clock + 1
  BY DEF Advance
<1>4. regs' # Foreign <=> regs # Foreign
  BY <1>2, <1>3
<1> QED BY <1>4 DEF Own, Foreign

LEMMA EnsureKeepsFile ==
  ASSUME IInv, Counted, FileInv, NEW c \in Copiers, EnsureNotInSyscall(c)
  PROVE  FileInv'
<1>1. UNCHANGED <<copy, n, file, writers>>
  BY DEF EnsureNotInSyscall
<1>2. at' = [at EXCEPT ![c] = "inject"] /\ at[c] = "ensure"
  BY DEF EnsureNotInSyscall, Goto
<1>3. Own' <=> Own
  <2>1. execs' = execs /\ (Advance \/ UNCHANGED regs)
    BY DEF EnsureNotInSyscall, SingleStep
  <2> QED BY <2>1, OwnStays DEF Own
<1> QED BY <1>1, <1>2, <1>3, MoveOn DEF Opened, Through, Beyond, Labels

LEMMA TakeoverKeepsFile ==
  ASSUME IInv, Counted, FileInv, NEW c \in Copiers, InjectArguments(c) \/ ExecveRisen(c)
  PROVE  FileInv'
<1>1. UNCHANGED <<copy, n, file, writers>> /\ ~Own'
  BY DEF InjectArguments, ExecveRisen, Overwrite, Execve, Own
<1>2. PICK there \in {"execve", "finish"} :
        at' = [at EXCEPT ![c] = there] /\ at[c] \in {"inject", "execve"}
  BY DEF InjectArguments, ExecveRisen, Goto
<1>3. c \in Freezers
  BY <1>2 DEF IInv, Sound, Kind, TeleLabels
<1>4. c \in writers
  BY <1>2, <1>3 DEF FileInv, Opened
<1> QED BY <1>1, <1>2, <1>4, MoveOn DEF Opened, Through, Beyond, Labels

LEMMA EnvironmentKeepsFile ==
  ASSUME IInv, FileInv, Environment \/ UNCHANGED vars
  PROVE  FileInv'
<1>1. UNCHANGED <<at, copy, n, file, writers>>
  BY DEF Environment, ownVars, vars
<1>2. Own' <=> Own
  <2>1. CASE MainStep
    BY <2>1, OwnStays DEF MainStep
  <2>2. CASE UNCHANGED <<regs, execs>>
    BY <2>2 DEF Own
  <2> QED BY <2>1, <2>2 DEF Environment, ThreadStep, Halt, Exit, Continue, vars, programVars
<1>3. \A c, m : Upto(c, m)' <=> Upto(c, m)
  BY <1>1 DEF Upto, Doc
<1>4. \A c : Doc(c)' = Doc(c)
  BY <1>1 DEF Doc
<1> QED BY <1>1, <1>2, <1>3, <1>4 DEF FileInv

LEMMA OpenKeepsFile ==
  ASSUME IInv, Counted, FileInv, NEW c \in Copiers, OpenStateFile(c)
  PROVE  FileInv'
<1>1. /\ at[c] = "open" /\ at' = [at EXCEPT ![c] = "write"] /\ writers' = writers \cup {c}
      /\ UNCHANGED <<copy, n, file, regs, execs>>
  BY DEF OpenStateFile, Goto, programVars
<1>2. c \in Freezers /\ c \notin writers /\ n[c] = 0 /\ (Own' <=> Own)
  BY <1>1 DEF IInv, Sound, Kind, TeleLabels, FileInv, Opened, Own
<1>3. /\ \A d \in Copiers \ {c} : at'[d] = at[d]
      /\ at'[c] = "write"
  BY <1>1 DEF IInv, Types
<1>4. writers \subseteq Freezers /\ Freezers \subseteq Copiers
  BY CaptureAssumption DEF FileInv
<1>5. /\ \A d \in writers' : d \in Freezers /\ at'[d] \in Opened
      /\ \A d \in Freezers :
           /\ at'[d] \in Opened \ {"failed"} => d \in writers'
           /\ at'[d] = "open" => n'[d] = 0
  BY <1>1, <1>2, <1>3, <1>4 DEF FileInv, Opened
<1>6. ~Own' => \E d \in writers' : at'[d] \in {"execve", "finish", "done", "failed"}
  BY <1>1, <1>2, <1>3, <1>4 DEF FileInv
<1>7. ASSUME NEW d \in Freezers, writers' = {d}
      PROVE  /\ at'[d] = "write" => Upto(d, n[d])'
             /\ ~(at'[d] \in Through \/ ~Own')
  <2>1. d = c /\ writers = {}
    BY <1>1, <1>2, <1>7
  <2>2. Own /\ file \in Seq({Old})
    BY <2>1 DEF FileInv
  <2>3. Doc(c) \in Seq(Items)
    BY DocumentType DEF IInv, Types, Doc, CopyType
  <2>4. /\ file \in Seq(Items \cup {Old}) /\ Len(Doc(c)) \in Nat
        /\ Len(file) \in Nat /\ \A i \in 1..Len(file) : file[i] = Old
    BY <2>2, <2>3, SeqMonotonic
  <2>5. Upto(c, 0)
    BY <2>4 DEF Upto
  <2> QED BY <1>1, <1>2, <1>3, <2>1, <2>2, <2>5 DEF Upto, Doc, Through
<1> QED BY <1>1, <1>5, <1>6, <1>7 DEF FileInv

LEMMA WriteKeepsFile ==
  ASSUME IInv, Counted, FileInv, NEW c \in Copiers, WriteItem(c)
  PROVE  FileInv'
<1>1. /\ at[c] = "write" /\ n[c] < Len(Doc(c)) /\ n' = [n EXCEPT ![c] = @ + 1]
      /\ UNCHANGED <<at, copy, writers, regs, execs>>
      /\ file' = IF n[c] < Len(file) THEN [file EXCEPT ![n[c] + 1] = Doc(c)[n[c] + 1]]
                                      ELSE Append(file, Doc(c)[n[c] + 1])
  BY DEF WriteItem, programVars, Doc
<1>2. c \in Freezers /\ c \in writers /\ (Own' <=> Own) /\ \A d : Doc(d)' = Doc(d)
  BY <1>1 DEF IInv, Sound, Kind, TeleLabels, FileInv, Opened, Own, Doc
<1>3. n'[c] = n[c] + 1 /\ \A d \in Copiers \ {c} : n'[d] = n[d]
  BY <1>1 DEF Counted
<1>4. ASSUME NEW d \in Freezers, writers' = {d}
      PROVE  Upto(d, n[d])' /\ ~(at'[d] \in Through) /\ Own
  <2>1. d = c /\ writers = {c}
    BY <1>1, <1>2, <1>4
  <2>2. Own /\ Upto(c, n[c])
    BY <1>1, <1>2, <2>1 DEF FileInv
  <2>3. n[c] \in Nat /\ Len(file) \in Nat /\ Len(Doc(c)) \in Nat
    BY <2>2 DEF Upto, Counted
  <2>4. Doc(c)[n[c] + 1] \in Items
    <3>1. Doc(c) \in Seq(Items)
      BY DocumentType DEF IInv, Types, Doc, CopyType
    <3> QED BY <1>1, <2>3, <3>1, ElementOfSeq
  <2> DEFINE item == Doc(c)[n[c] + 1]
  <2>5. /\ file' \in Seq(Items \cup {Old})
        /\ Len(file') = IF n[c] < Len(file) THEN Len(file) ELSE Len(file) + 1
        /\ \A i \in 1..Len(file') : file'[i] = IF i = n[c] + 1 THEN item ELSE file[i]
    <3> HIDE DEF item
    <3>1. CASE n[c] < Len(file)
      <4>1. n[c] + 1 \in 1..Len(file) /\ item \in Items \cup {Old} /\ file \in Seq(Items \cup {Old})
        BY <2>2, <2>3, <2>4, <3>1 DEF Upto, item
      <4>2. file' = [file EXCEPT ![n[c] + 1] = item]
        BY <1>1, <3>1 DEF item
      <4> QED BY <3>1, <4>1, <4>2, ExceptSeq
    <3>2. CASE ~(n[c] < Len(file))
      <4>1. n[c] = Len(file) /\ item \in Items \cup {Old} /\ file \in Seq(Items \cup {Old})
        BY <2>2, <2>3, <2>4, <3>2 DEF Upto, item
      <4>2. file' = Append(file, item)
        BY <1>1, <3>2 DEF item
      <4>3. /\ file' \in Seq(Items \cup {Old}) /\ Len(file') = Len(file) + 1
            /\ file'[Len(file) + 1] = item /\ \A i \in 1..Len(file) : file'[i] = file[i]
        BY <4>1, <4>2, AppendProperties
      <4> QED BY <2>3, <3>2, <4>1, <4>3
    <3> QED BY <3>1, <3>2
  <2>6. /\ n'[c] \in 0..Len(Doc(c)) /\ n'[c] <= Len(file')
        /\ \A i \in 1..Len(file') : file'[i] = IF i <= n'[c] THEN Doc(c)[i] ELSE Old
    BY <1>1, <1>3, <2>2, <2>3, <2>5 DEF Upto
  <2> QED BY <1>1, <1>2, <2>1, <2>2, <2>5, <2>6 DEF Upto, Through
<1>5. writers' # {}
  BY <1>1, <1>2
<1>6. \A d \in Freezers : at'[d] = "open" => n'[d] = 0
  BY <1>1, <1>3, CaptureAssumption DEF FileInv
<1> QED BY <1>1, <1>2, <1>4, <1>5, <1>6 DEF FileInv

LEMMA FileKept == IInv /\ Counted /\ FileInv /\ [Next]_vars => FileInv'
<1> SUFFICES ASSUME IInv, Counted, FileInv, [Next]_vars PROVE FileInv'
    OBVIOUS
<1>1. CASE Environment \/ UNCHANGED vars
  BY <1>1, EnvironmentKeepsFile
<1>2. ASSUME NEW c \in Copiers, Copying(c) \/ Teleclient(c) \/ Freeze(c) PROVE FileInv'
  <2>1. CASE ProcessGone(c) \/ Killed(c) \/ FileFails(c) \/ InjectFails(c) \/ Send(c) \/ Finish(c)
    <3>1. (Fail(c) \/ Send(c) \/ Finish(c)) /\ at[c] # "failed"
      BY <2>1 DEF ProcessGone, Killed, FileFails, InjectFails, Send, Finish
    <3> QED BY <3>1, FailKeepsFile
  <2>2. CASE GetRegisters(c) \/ ReadMemoryMaps(c) \/ OpenMemory(c) \/ ReadRegion(c) \/ AllRead(c)
    BY <2>2, ReadKeepsFile
  <2>3. CASE Attach(c) \/ Seize(c) \/ InterruptIt(c) \/ DetachAndStop(c) \/ Written(c)
    BY <2>3, HoldKeepsFile
  <2>4. CASE OpenStateFile(c) \/ WriteItem(c)
    BY <2>4, OpenKeepsFile, WriteKeepsFile
  <2>5. CASE EnsureNotInSyscall(c)
    BY <2>5, EnsureKeepsFile
  <2>6. CASE InjectArguments(c) \/ ExecveRisen(c)
    BY <2>6, TakeoverKeepsFile
  <2> QED BY <1>2, <2>1, <2>2, <2>3, <2>4, <2>5, <2>6 DEF Copying, Teleclient, Freeze
<1> QED BY <1>1, <1>2 DEF Next

\* Once the program is beyond recovery its state is in the file, as a whole or
\* before the tail of an older one (client.rs 67-70).
THEOREM InTheFile == Spec => []StateSurvives
<1>1. Spec => []FileInv
  BY InitFile, FileKept, Invariance, PTL DEF Spec
<1> QED BY <1>1, FileInvSuffices, Invariance, PTL

-----------------------------------------------------------------------------
(* Rewind: the arguments of a program, found on its command line.            *)

\* e[j] is where the j-th argument of a ends on its command line.
Divides(e, a, line) ==
  /\ e[0] = 0 /\ e[Len(a)] = Len(line)
  /\ \A j \in 1..Len(a) :
       /\ e[j] = e[j-1] + Len(a[j]) + 1 /\ e[j] <= Len(line)
       /\ \A x \in 1..(Len(a[j]) + 1) : line[e[j-1] + x] = Terminated(a[j])[x]

LEMMA Terminating ==
  ASSUME NEW s \in Seq(Nat)
  PROVE  /\ Terminated(s) \in Seq(Nat) /\ Len(Terminated(s)) = Len(s) + 1
         /\ Terminated(s)[Len(s) + 1] = 0 /\ \A x \in 1..Len(s) : Terminated(s)[x] = s[x]
BY DEF Terminated

LEMMA Divided ==
  ASSUME NEW a \in Seq(Seq(Nat))
  PROVE  LET line == FlattenSeq([j \in DOMAIN a |-> Terminated(a[j])])
         IN line \in Seq(Nat) /\ \E e \in [0..Len(a) -> Nat] : Divides(e, a, line)
<1> DEFINE parts == [j \in DOMAIN a |-> Terminated(a[j])]
           line == FlattenSeq(parts)
<1>1. parts \in Seq(Seq(Nat)) /\ Len(parts) = Len(a) /\ \A j \in 1..Len(a) : parts[j] = Terminated(a[j])
  <2>1. \A j \in 1..Len(a) : Terminated(a[j]) \in Seq(Nat)
    BY Terminating
  <2>2. parts \in [1..Len(a) -> Seq(Nat)]
    BY <2>1
  <2> QED BY <2>2
<1> HIDE DEF parts
<1>2. PICK f \in [0..Len(a) -> Seq(Nat)] : Joins(f, parts, Len(a)) /\ line = f[Len(a)]
  BY <1>1, Joining
<1> DEFINE e == [j \in 0..Len(a) |-> Len(f[j])]
<1>3. line \in Seq(Nat) /\ e \in [0..Len(a) -> Nat]
  BY <1>2
<1>4. e[0] = 0 /\ e[Len(a)] = Len(line)
  BY <1>2 DEF Joins
<1>5. ASSUME NEW j \in 1..Len(a)
      PROVE  /\ e[j] = e[j-1] + Len(a[j]) + 1 /\ e[j] <= Len(line)
             /\ \A x \in 1..(Len(a[j]) + 1) : line[e[j-1] + x] = Terminated(a[j])[x]
  <2>1. /\ j \in 0..Len(a) /\ j-1 \in 0..Len(a) /\ Len(a) \in 0..Len(a)
        /\ e[j] = Len(f[j]) /\ e[j-1] = Len(f[j-1])
    OBVIOUS
  <2>2. /\ f[j] = f[j-1] \o Terminated(a[j])
        /\ f[j-1] \in Seq(Nat) /\ a[j] \in Seq(Nat) /\ Terminated(a[j]) \in Seq(Nat)
        /\ Len(Terminated(a[j])) = Len(a[j]) + 1
    <3>1. f[j] = f[j-1] \o parts[j] /\ parts[j] = Terminated(a[j])
      BY <1>1, <1>2 DEF Joins
    <3>2. f[j-1] \in Seq(Nat)
      BY <1>2, <2>1
    <3>3. a[j] \in Seq(Nat)
      BY ElementOfSeq
    <3> QED BY <3>1, <3>2, <3>3, Terminating
  <2>3. Len(f[j]) <= Len(line) /\ \A x \in 1..Len(f[j]) : line[x] = f[j][x]
    <3>1. \A l \in 0..Len(parts) : Includes(f, l)
      <4>1. f \in [0..Len(parts) -> Seq(Nat)] /\ Joins(f, parts, Len(parts))
        BY <1>1, <1>2
      <4>2. parts \in Seq(Seq(Nat))
        BY <1>1
      <4> QED BY <4>1, <4>2, InFront
    <3>2. Len(a) \in 0..Len(parts) /\ j \in 0..Len(a)
      BY <1>1, <2>1
    <3> QED BY <1>2, <3>1, <3>2 DEF Includes
  <2>4. /\ Len(f[j]) = Len(f[j-1]) + Len(a[j]) + 1
        /\ \A x \in 1..(Len(a[j]) + 1) : f[j][Len(f[j-1]) + x] = Terminated(a[j])[x]
    <3> DEFINE u == f[j-1]  v == Terminated(a[j])
    <3>1. u \in Seq(Nat) /\ v \in Seq(Nat) /\ f[j] = u \o v /\ Len(v) = Len(a[j]) + 1
      BY <2>2
    <3> HIDE DEF u, v
    <3>2. Len(u \o v) = Len(u) + Len(v) /\ Len(u) \in Nat /\ Len(v) \in Nat
      BY <3>1, ConcatProperties, LenProperties
    <3>3. ASSUME NEW x \in 1..(Len(a[j]) + 1) PROVE f[j][Len(u) + x] = v[x]
      <4>1. /\ Len(u) + x \in (Len(u) + 1)..(Len(u) + Len(v)) /\ (Len(u) + x) - Len(u) = x
        <5>1. \A l, m \in Nat : \A y \in 1..m : l + y \in (l + 1)..(l + m) /\ (l + y) - l = y
          OBVIOUS
        <5>2. x \in 1..Len(v)
          BY <3>1
        <5> QED BY <3>2, <5>1, <5>2
      <4>2. (u \o v)[Len(u) + x] = v[(Len(u) + x) - Len(u)]
        BY <3>1, <4>1, ConcatProperties
      <4> QED BY <3>1, <4>1, <4>2
    <3>4. Len(f[j]) = Len(u) + (Len(a[j]) + 1)
      BY <3>1, <3>2
    <3>5. Len(a[j]) \in Nat
      BY <2>2
    <3>6. Len(f[j]) = Len(u) + Len(a[j]) + 1
      BY <3>2, <3>4, <3>5
    <3> QED BY <3>3, <3>6 DEF u, v
  <2>5. Len(f[j-1]) \in Nat /\ Len(a[j]) \in Nat
    BY <2>2
  <2>6. Len(f[j]) = e[j] /\ Len(f[j-1]) = e[j-1]
    BY <2>1
  <2>7. ASSUME NEW x \in 1..(Len(a[j]) + 1) PROVE Len(f[j-1]) + x \in 1..Len(f[j])
    <3>1. \A p, q \in Nat : \A y \in 1..(q + 1) : p + y \in 1..(p + q + 1)
      OBVIOUS
    <3> QED BY <2>4, <2>5, <3>1
  <2> HIDE DEF e, line
  <2> QED BY <2>3, <2>4, <2>5, <2>6, <2>7
<1> QED BY <1>3, <1>4, <1>5 DEF Divides, parts, line

-----------------------------------------------------------------------------

\* An argument.
Text == Seq(Nat \ {0})

Shape ==
  /\ argv \in Seq(Text) /\ argv # <<>>
  /\ buf \in {CommandLine, SubSeq(CommandLine, 1, Len(CommandLine) - 1)}
  /\ start \in Nat /\ pos \in Nat /\ args \in Seq(Seq(Nat)) /\ maps \in Seq(Seq(Nat))

\* Where the arguments of the program end on its command line.
Ends(e) == e \in [0..Len(argv) -> Nat] /\ Divides(e, argv, CommandLine)

\* What has been found are the first arguments, and all in the end.
Found ==
  /\ Len(args) <= Len(argv)
  /\ \A j \in 1..Len(args) : args[j] = Terminated(argv[j])
  /\ place # "read" => Len(args) = Len(Expected)

\* While it is read, start is where the last argument found ends, and the place
\* is within the next one.
Placed(e) ==
  place = "read" =>
    /\ start = e[Len(args)] /\ start <= pos /\ pos <= Len(buf)
    /\ Len(args) < Len(argv) => pos < e[Len(args) + 1]
    /\ Len(args) = Len(argv) => pos = start

\* The first mappings hold the first arguments.
Put ==
  /\ Len(maps) <= Len(args) /\ \A j \in 1..Len(maps) : maps[j] = args[j]
  /\ place \notin {"read", "inject"} => Len(maps) = Len(args)
  /\ place = "read" => maps = <<>>

ArgInv ==
  /\ Shape /\ Found /\ Put /\ \A e : Ends(e) => Placed(e)
  /\ SameArguments /\ FailsOnlyIfFull

\* The kernel reads an argument from its mapping as it was put there.
LEMMA FirstZero ==
  ASSUME NEW s \in Text
  PROVE  Read(Terminated(s)) = Terminated(s)
<1> DEFINE t == Terminated(s)
           z == Terminated(t)
           Zero(j) == z[j] = 0 /\ \A l \in 1..(j - 1) : z[l] # 0
<1>1. s \in Seq(Nat) /\ Len(s) \in Nat /\ \A x \in 1..Len(s) : s[x] # 0
  BY SeqMonotonic, ElementOfSeq DEF Text
<1>2. /\ t \in Seq(Nat) /\ Len(t) = Len(s) + 1
      /\ t[Len(s) + 1] = 0 /\ \A x \in 1..Len(s) : t[x] = s[x]
  BY <1>1, Terminating
<1> HIDE DEF t
<1>3. z \in Seq(Nat) /\ Len(z) = Len(s) + 2 /\ \A x \in 1..(Len(s) + 1) : z[x] = t[x]
  <2>1. z \in Seq(Nat) /\ Len(z) = Len(t) + 1 /\ \A x \in 1..Len(t) : z[x] = t[x]
    BY <1>2, Terminating
  <2> HIDE DEF z
  <2> QED BY <1>1, <1>2, <2>1
<1> HIDE DEF z
<1>4. z[Len(s) + 1] = 0 /\ \A x \in 1..Len(s) : z[x] # 0
  <2>1. Len(s) + 1 \in 1..(Len(s) + 1)
    BY <1>1
  <2>2. ASSUME NEW x \in 1..Len(s) PROVE z[x] # 0
    <3>1. x \in 1..(Len(s) + 1)
      BY <1>1
    <3> QED BY <1>1, <1>2, <1>3, <3>1
  <2> QED BY <1>2, <1>3, <2>1, <2>2
<1>5. DOMAIN z = 1..(Len(s) + 2)
  BY <1>3
<1>6. (CHOOSE j \in DOMAIN z : Zero(j)) = Len(s) + 1
  <2>1. Len(s) + 1 \in DOMAIN z /\ Zero(Len(s) + 1)
    BY <1>1, <1>4, <1>5
  <2>2. ASSUME NEW j \in DOMAIN z, Zero(j) PROVE j = Len(s) + 1
    <3>1. ~ (j <= Len(s))
      BY <1>1, <1>4, <1>5, <2>2
    <3>2. ~ (Len(s) + 1 < j)
      BY <1>1, <1>4, <1>5, <2>2
    <3> QED BY <1>1, <1>5, <3>1, <3>2
  <2> HIDE DEF Zero
  <2> QED BY <2>1, <2>2
<1>7. SubSeq(z, 1, Len(s) + 1) = t
  <2> DEFINE u == SubSeq(z, 1, Len(s) + 1)
  <2>1. Len(s) + 1 \in 0..Len(z)
    BY <1>1, <1>3
  <2>2. u \in Seq(Nat) /\ Len(u) = Len(s) + 1 /\ \A x \in 1..(Len(s) + 1) : u[x] = z[x]
    BY <1>3, <2>1, Beginning
  <2> HIDE DEF u
  <2>3. Len(u) = Len(t) /\ \A x \in 1..Len(u) : u[x] = t[x]
    BY <1>2, <1>3, <2>2
  <2>4. u = t
    BY <1>2, <2>2, <2>3, SeqEqual
  <2> QED BY <2>4 DEF u
<1> QED BY <1>6, <1>7 DEF Read, z, t, Zero

\* What is read is the command line, or all of it but its last byte.
LEMMA Buffer ==
  ASSUME Shape, NEW e, Ends(e)
  PROVE  /\ CommandLine \in Seq(Nat) /\ Len(CommandLine) \in Nat \ {0}
         /\ buf \in Seq(Nat) /\ Len(argv) \in Nat \ {0}
         /\ Len(buf) = IF buf = CommandLine THEN Len(CommandLine) ELSE Len(CommandLine) - 1
         /\ \A x \in 1..Len(buf) : buf[x] = CommandLine[x]
<1> DEFINE line == CommandLine
<1>1. argv \in Seq(Seq(Nat)) /\ Len(argv) \in Nat \ {0}
  <2>1. Text \subseteq Seq(Nat)
    BY SeqMonotonic DEF Text
  <2> QED BY <2>1, SeqMonotonic, EmptySeq DEF Shape
<1>2. line \in Seq(Nat)
  <2>1. line = FlattenSeq([j \in DOMAIN argv |-> Terminated(argv[j])])
    BY DEF CommandLine
  <2> QED BY <1>1, <2>1, Divided
<1>3. Len(line) \in Nat \ {0}
  <2>1. 1 \in 1..Len(argv) /\ argv[1] \in Seq(Nat)
    BY <1>1, ElementOfSeq
  <2>2. e[1] = e[1-1] + Len(argv[1]) + 1 /\ e[1] <= Len(line) /\ e[0] = 0
    BY <2>1 DEF Ends, Divides
  <2>3. Len(argv[1]) \in Nat /\ Len(line) \in Nat
    BY <1>2, <2>1
  <2> QED BY <2>2, <2>3
<1> HIDE DEF line
<1>4. CASE buf = line
  BY <1>1, <1>2, <1>3, <1>4 DEF line
<1>5. CASE buf # line
  <2>1. buf = SubSeq(line, 1, Len(line) - 1)
    BY <1>5 DEF Shape, line
  <2>2. /\ buf \in Seq(Nat) /\ Len(buf) = Len(line) - 1
        /\ \A x \in 1..(Len(line) - 1) : buf[x] = line[x]
    <3>1. Len(line) - 1 \in 0..Len(line)
      BY <1>3
    <3> QED BY <1>2, <2>1, <3>1, Beginning
  <2> QED BY <1>1, <1>2, <1>3, <1>5, <2>2 DEF line
<1> QED BY <1>4, <1>5

LEMMA Expecting ==
  ASSUME Shape
  PROVE  /\ Expected = [j \in 1..Len(Expected) |-> Terminated(argv[j])]
         /\ Len(Expected) = IF buf = CommandLine THEN Len(argv) ELSE Len(argv) - 1
<1>1. Len(argv) \in Nat \ {0}
  BY EmptySeq DEF Shape
<1>2. (IF buf = CommandLine THEN Len(argv) ELSE Len(argv) - 1) \in Nat
  BY <1>1
<1> QED BY <1>2 DEF Expected

\* The next byte is that of the next argument.
LEMMA NextByte ==
  ASSUME ArgInv, place = "read", pos < Len(buf), NEW e, Ends(e)
  PROVE  LET k == Len(args)
             s == argv[Len(args) + 1]
         IN /\ k + 1 \in 1..Len(argv) /\ s \in Text
            /\ start \in Nat /\ e[k + 1] = start + Len(s) + 1
            /\ (pos + 1) - start \in 1..(Len(s) + 1)
            /\ \A x \in 1..((pos + 1) - start) : buf[start + x] = Terminated(s)[x]
<1> DEFINE k == Len(args)
           s == argv[k + 1]
<1>1. /\ CommandLine \in Seq(Nat) /\ Len(CommandLine) \in Nat
      /\ buf \in Seq(Nat) /\ Len(buf) \in Nat /\ Len(buf) <= Len(CommandLine)
      /\ Len(argv) \in Nat /\ \A x \in 1..Len(buf) : buf[x] = CommandLine[x]
  BY Buffer DEF ArgInv
<1>2. k \in Nat /\ k <= Len(argv) /\ start \in Nat /\ pos \in Nat
  BY LenProperties DEF ArgInv, Shape, Found
<1>3. /\ start = e[k] /\ start <= pos
      /\ k < Len(argv) => pos < e[k + 1]
      /\ k = Len(argv) => pos = start
  BY DEF ArgInv, Placed
<1>4. k + 1 \in 1..Len(argv)
  <2>1. CASE k = Len(argv)
    BY <1>1, <1>2, <1>3, <2>1 DEF Ends, Divides
  <2> QED BY <1>1, <1>2, <2>1
<1>5. s \in Text /\ Len(s) \in Nat
  BY <1>4, ElementOfSeq, LenProperties DEF ArgInv, Shape, Text
<1>6. /\ e[k + 1] = e[(k + 1) - 1] + Len(s) + 1
      /\ \A x \in 1..(Len(s) + 1) : CommandLine[e[(k + 1) - 1] + x] = Terminated(s)[x]
  BY <1>4 DEF Ends, Divides
<1> HIDE DEF k, s
<1>7. (k + 1) - 1 = k
  BY <1>2
<1>8. (pos + 1) - start \in 1..(Len(s) + 1)
  BY <1>2, <1>3, <1>4, <1>5, <1>6, <1>7
<1>9. ASSUME NEW x \in 1..((pos + 1) - start) PROVE buf[start + x] = Terminated(s)[x]
  <2>1. x \in 1..(Len(s) + 1) /\ start + x \in 1..Len(buf)
    BY <1>1, <1>2, <1>5, <1>8
  <2> QED BY <1>1, <1>3, <1>6, <1>7, <2>1
<1> QED BY <1>2, <1>3, <1>4, <1>5, <1>6, <1>7, <1>8, <1>9 DEF k, s

\* Arguments can be told apart on a command line.
LEMMA EndsExist ==
  ASSUME Shape
  PROVE  \E e : Ends(e)
<1>1. argv \in Seq(Seq(Nat))
  <2>1. Text \subseteq Seq(Nat)
    BY SeqMonotonic DEF Text
  <2> QED BY <2>1, SeqMonotonic DEF Shape
<1>2. CommandLine = FlattenSeq([j \in DOMAIN argv |-> Terminated(argv[j])])
  BY DEF CommandLine
<1> QED BY <1>1, <1>2, Divided DEF Ends

LEMMA ReadByteKeeps ==
  ASSUME ArgInv, ReadByte
  PROVE  ArgInv'
<1> DEFINE k == Len(args)
           s == argv[Len(args) + 1]
<1>1. /\ place = "read" /\ pos < Len(buf) /\ pos' = pos + 1
      /\ UNCHANGED <<argv, buf, place, maps, given>>
  BY DEF ReadByte
<1>2. \A e : Ends(e)' <=> Ends(e)
  BY <1>1 DEF Ends, CommandLine
<1>3. PICK e : Ends(e)
  BY EndsExist DEF ArgInv
<1>4. /\ CommandLine \in Seq(Nat) /\ Len(CommandLine) \in Nat
      /\ buf \in Seq(Nat) /\ Len(buf) \in Nat /\ Len(buf) <= Len(CommandLine)
      /\ Len(argv) \in Nat /\ start \in Nat /\ pos \in Nat /\ args \in Seq(Seq(Nat)) /\ k \in Nat
      /\ k <= Len(argv) /\ \A j \in 1..k : args[j] = Terminated(argv[j])
  BY <1>3, Buffer, LenProperties DEF ArgInv, Shape, Found
<1>5. /\ k + 1 \in 1..Len(argv) /\ s \in Text /\ (pos + 1) - start \in 1..(Len(s) + 1)
      /\ \A x \in 1..((pos + 1) - start) : buf[start + x] = Terminated(s)[x]
  BY <1>1, <1>3, NextByte
<1>6. /\ s \in Seq(Nat) /\ Len(s) \in Nat /\ \A x \in 1..Len(s) : s[x] # 0
      /\ Terminated(s) \in Seq(Nat) /\ Len(Terminated(s)) = Len(s) + 1
      /\ Terminated(s)[Len(s) + 1] = 0 /\ \A x \in 1..Len(s) : Terminated(s)[x] = s[x]
  <2>1. s \in Seq(Nat) /\ Len(s) \in Nat /\ \A x \in 1..Len(s) : s[x] # 0
    BY <1>5, SeqMonotonic, ElementOfSeq DEF Text
  <2> QED BY <2>1, Terminating
<1>7. ASSUME NEW d, Ends(d) PROVE start \in Nat /\ d[k + 1] = start + Len(s) + 1 /\ start = d[k]
  BY <1>1, <1>7, NextByte DEF ArgInv, Placed
<1>11. CommandLine' = CommandLine
  BY <1>1 DEF CommandLine
<1>12. start' \in Nat /\ args' \in Seq(Seq(Nat)) => Shape'
  <2>1. pos' \in Nat /\ maps' \in Seq(Seq(Nat))
    BY <1>1, <1>4 DEF ArgInv, Shape
  <2>2. /\ argv' \in Seq(Text) /\ argv' # <<>>
        /\ buf' \in {CommandLine', SubSeq(CommandLine', 1, Len(CommandLine') - 1)}
    BY <1>1, <1>11 DEF ArgInv, Shape
  <2> QED BY <2>1, <2>2 DEF Shape
<1>8. ArgInv' <=> Shape' /\ Found' /\ Put' /\ (\A d : Ends(d) => Placed(d)')
  BY <1>1, <1>2 DEF ArgInv, SameArguments, FailsOnlyIfFull
<1> HIDE DEF k, s
<1>13. /\ start \in Nat /\ pos \in Nat /\ pos + 1 \in Nat /\ Len(s) \in Nat
       /\ buf \in Seq(Nat) /\ Len(buf) \in Nat /\ pos + 1 <= Len(buf)
  BY <1>1, <1>4, <1>6
<1>14. start + ((pos + 1) - start) = pos + 1
  BY <1>13
<1>9. CASE buf[pos + 1] = 0
  <2>1. args' = Append(args, SubSeq(buf, start + 1, pos + 1)) /\ start' = pos + 1
    BY <1>9 DEF ReadByte
  <2>2. (pos + 1) - start = Len(s) + 1
    <3>1. buf[start + ((pos + 1) - start)] = Terminated(s)[(pos + 1) - start]
      BY <1>5
    <3> QED BY <1>5, <1>6, <1>9, <1>14, <3>1
  <2>3. SubSeq(buf, start + 1, pos + 1) = Terminated(s)
    <3> DEFINE u == SubSeq(buf, start + 1, pos + 1)
    <3>1. start <= pos + 1 /\ pos + 1 <= Len(buf) /\ pos + 1 \in Nat
      <4>1. \A a, c, l \in Nat : (c + 1) - a = l + 1 => a <= c + 1
        OBVIOUS
      <4> QED BY <1>13, <2>2, <4>1
    <3>2. /\ u \in Seq(Nat) /\ Len(u) = (pos + 1) - start
          /\ \A x \in 1..((pos + 1) - start) : u[x] = buf[start + x]
      BY <1>13, <3>1, Cut
    <3> HIDE DEF u
    <3>3. Len(u) = Len(Terminated(s)) /\ \A x \in 1..Len(u) : u[x] = Terminated(s)[x]
      BY <1>5, <1>6, <2>2, <3>2
    <3>4. u = Terminated(s)
      BY <1>6, <3>2, <3>3, SeqEqual
    <3> QED BY <3>4 DEF u
  <2>4. /\ args' \in Seq(Seq(Nat)) /\ Len(args') = k + 1
        /\ args'[k + 1] = Terminated(s) /\ \A j \in 1..k : args'[j] = args[j]
    <3>1. args' = Append(args, Terminated(s))
      BY <2>1, <2>3
    <3>2. /\ Append(args, Terminated(s)) \in Seq(Seq(Nat))
          /\ Len(Append(args, Terminated(s))) = Len(args) + 1
          /\ \A j \in 1..Len(args) : Append(args, Terminated(s))[j] = args[j]
          /\ Append(args, Terminated(s))[Len(args) + 1] = Terminated(s)
      BY <1>4, <1>6, AppendProperties
    <3> QED BY <3>1, <3>2 DEF k
  <2>5. Shape'
    <3>1. start' \in Nat
      BY <1>13, <2>1
    <3> QED BY <1>12, <2>4, <3>1
  <2>6. Found'
    <3>1. ASSUME NEW j \in 1..(k + 1) PROVE args'[j] = Terminated(argv[j])
      <4>1. CASE j = k + 1
        BY <2>4, <4>1 DEF s, k
      <4>2. CASE j \in 1..k
        BY <1>4, <2>4, <4>2
      <4> QED BY <1>4, <4>1, <4>2
    <3> QED BY <1>1, <1>5, <2>4, <3>1 DEF Found
  <2>7. Put'
    BY <1>1, <1>4, <2>4 DEF ArgInv, Put
  <2>8. ASSUME NEW d, Ends(d) PROVE Placed(d)'
    <3>1. start' = d[k + 1] /\ start' = pos'
      <4>1. d[k + 1] = start + Len(s) + 1
        BY <1>7, <2>8
      <4>2. pos + 1 = start + Len(s) + 1
        BY <1>13, <2>2
      <4> QED BY <1>1, <2>1, <4>1, <4>2
    <3>2. k + 1 < Len(argv) => pos' < d[(k + 1) + 1]
      <4> SUFFICES ASSUME k + 1 < Len(argv) PROVE pos' < d[(k + 1) + 1]
        OBVIOUS
      <4>1. (k + 1) + 1 \in 1..Len(argv) /\ ((k + 1) + 1) - 1 = k + 1
        BY <1>4
      <4>2. argv[(k + 1) + 1] \in Text
        BY <4>1, ElementOfSeq DEF ArgInv, Shape
      <4>3. Len(argv[(k + 1) + 1]) \in Nat
        BY <4>2, LenProperties DEF Text
      <4>4. d[(k + 1) + 1] = d[((k + 1) + 1) - 1] + Len(argv[(k + 1) + 1]) + 1
        BY <2>8, <4>1 DEF Ends, Divides
      <4>5. d[(k + 1) + 1] = d[k + 1] + Len(argv[(k + 1) + 1]) + 1
        BY <4>1, <4>4
      <4>6. d[k + 1] \in Nat /\ pos' = d[k + 1]
        BY <1>1, <1>13, <3>1
      <4> QED BY <4>3, <4>5, <4>6
    <3> QED BY <1>1, <1>4, <2>4, <3>1, <3>2 DEF Placed
  <2> QED BY <1>8, <2>5, <2>6, <2>7, <2>8
<1>10. CASE buf[pos + 1] # 0
  <2>1. UNCHANGED <<args, start>>
    BY <1>10 DEF ReadByte
  <2>2. (pos + 1) - start # Len(s) + 1
    <3>1. buf[start + ((pos + 1) - start)] = Terminated(s)[(pos + 1) - start]
      BY <1>5
    <3> QED BY <1>6, <1>10, <1>14, <3>1
  <2>3. Shape' /\ Found' /\ Put'
    BY <1>1, <1>4, <1>12, <2>1 DEF ArgInv, Found, Put
  <2>4. ASSUME NEW d, Ends(d) PROVE Placed(d)'
    <3>1. start' = d[k] /\ start' <= pos' /\ pos' < d[k + 1] /\ pos' <= Len(buf)
      <4>1. start' = d[k] /\ d[k + 1] = start + Len(s) + 1
        BY <1>7, <2>1, <2>4
      <4>2. pos' = pos + 1 /\ pos' <= Len(buf) /\ start' = start
        BY <1>1, <1>13, <2>1
      <4>3. (pos + 1) - start >= 1 /\ (pos + 1) - start < Len(s) + 1
        <5>1. \A l \in Nat : \A m \in 1..(l + 1) : m # l + 1 => m >= 1 /\ m < l + 1
          OBVIOUS
        <5> QED BY <1>5, <1>6, <2>2, <5>1
      <4>4. start <= pos + 1 /\ pos + 1 < start + Len(s) + 1
        BY <1>13, <4>3
      <4> QED BY <4>1, <4>2, <4>4
    <3> QED BY <1>1, <1>4, <1>5, <2>1, <3>1 DEF Placed, k
  <2> QED BY <1>8, <2>3, <2>4
<1> QED BY <1>9, <1>10

\* All arguments have been found, but a last one that is not ended by a 0.
LEMMA ReadAllKeeps ==
  ASSUME ArgInv, ReadAll
  PROVE  ArgInv'
<1>1. /\ place = "read" /\ pos = Len(buf) /\ place' = "inject"
      /\ UNCHANGED <<argv, buf, pos, start, args, maps, given>>
  BY DEF ReadAll
<1>2. PICK e : Ends(e)
  BY EndsExist DEF ArgInv
<1>3. /\ Len(buf) = IF buf = CommandLine THEN Len(CommandLine) ELSE Len(CommandLine) - 1
      /\ Len(CommandLine) \in Nat \ {0} /\ Len(argv) \in Nat \ {0}
  BY <1>2, Buffer DEF ArgInv
<1>4. /\ Len(args) \in Nat /\ Len(args) <= Len(argv)
      /\ start = e[Len(args)]
      /\ Len(args) < Len(argv) => pos < e[Len(args) + 1]
      /\ Len(args) = Len(argv) => pos = start
  BY <1>1, <1>2, LenProperties DEF ArgInv, Shape, Found, Placed
<1>5. e[Len(argv)] = Len(CommandLine)
  BY <1>2 DEF Ends, Divides
<1>6. Len(args) = Len(Expected)
  <2>1. CASE Len(args) = Len(argv)
    BY <1>1, <1>3, <1>4, <1>5, <2>1, Expecting DEF ArgInv
  <2>2. CASE Len(args) = Len(argv) - 1
    <3>1. Len(args) < Len(argv) /\ Len(args) + 1 = Len(argv)
      BY <1>3, <2>2
    <3>2. pos < Len(CommandLine)
      BY <1>4, <1>5, <3>1
    <3>3. buf # CommandLine
      BY <1>1, <1>3, <3>2
    <3>4. Len(Expected) = Len(argv) - 1
      BY <3>3, Expecting DEF ArgInv
    <3> QED BY <2>2, <3>4
  <2>3. CASE Len(args) < Len(argv) - 1
    <3>1. /\ Len(args) + 1 \in 1..Len(argv) /\ Len(args) + 2 \in 1..Len(argv)
          /\ Len(args) + 2 - 1 = Len(args) + 1
      BY <1>3, <1>4, <2>3
    <3>2. /\ e[Len(args) + 2] = e[Len(args) + 2 - 1] + Len(argv[Len(args) + 2]) + 1
          /\ e[Len(args) + 2] <= Len(CommandLine)
      BY <1>2, <3>1 DEF Ends, Divides
    <3>3. Len(argv[Len(args) + 2]) \in Nat /\ e[Len(args) + 1] \in Nat
      <4>1. argv[Len(args) + 2] \in Text
        BY <3>1, ElementOfSeq DEF ArgInv, Shape
      <4>2. Len(args) + 1 \in 0..Len(argv)
        BY <3>1
      <4> QED BY <1>2, <4>1, <4>2, LenProperties DEF Text, Ends
    <3>4. e[Len(args) + 1] + Len(argv[Len(args) + 2]) + 1 <= Len(CommandLine)
      BY <3>1, <3>2
    <3>5. pos < e[Len(args) + 1]
      BY <1>3, <1>4, <2>3
    <3> QED BY <1>1, <1>3, <3>3, <3>4, <3>5
  <2> QED BY <1>3, <1>4, <2>1, <2>2, <2>3
<1>7. CommandLine' = CommandLine /\ Expected' = Expected
  BY <1>1 DEF CommandLine, Expected
<1> QED BY <1>1, <1>6, <1>7 DEF ArgInv, Shape, Found, Placed, Put, SameArguments, FailsOnlyIfFull

LEMMA InjectKeeps ==
  ASSUME ArgInv, InjectArgument
  PROVE  ArgInv'
<1>1. /\ place = "inject" /\ Len(maps) < Len(args) /\ maps' = Append(maps, args[Len(maps) + 1])
      /\ UNCHANGED <<argv, buf, place, pos, start, args, given>>
  BY DEF InjectArgument
<1>2. maps \in Seq(Seq(Nat)) /\ args \in Seq(Seq(Nat)) /\ Len(maps) \in Nat /\ Len(args) \in Nat
  BY LenProperties DEF ArgInv, Shape
<1>3. args[Len(maps) + 1] \in Seq(Nat)
  <2>1. Len(maps) + 1 \in 1..Len(args)
    BY <1>1, <1>2
  <2> QED BY <1>2, <2>1, ElementOfSeq
<1>4. /\ maps' \in Seq(Seq(Nat)) /\ Len(maps') = Len(maps) + 1
      /\ \A j \in 1..Len(maps) : maps'[j] = maps[j]
      /\ maps'[Len(maps) + 1] = args[Len(maps) + 1]
  BY <1>1, <1>2, <1>3, AppendProperties
<1>5. Put'
  <2>1. ASSUME NEW j \in 1..Len(maps') PROVE maps'[j] = args'[j]
    <3>1. j \in 1..Len(maps) \/ j = Len(maps) + 1
      BY <1>2, <1>4
    <3> QED BY <1>1, <1>4, <3>1 DEF ArgInv, Put
  <2>2. Len(maps') <= Len(args')
    BY <1>1, <1>2, <1>4
  <2> QED BY <1>1, <2>1, <2>2 DEF Put
<1>6. CommandLine' = CommandLine /\ Expected' = Expected
  BY <1>1 DEF CommandLine, Expected
<1>7. \A e : Placed(e)'
  BY <1>1 DEF Placed
<1>8. Shape' /\ Found'
  BY <1>1, <1>4, <1>6 DEF ArgInv, Shape, Found
<1> QED BY <1>1, <1>5, <1>7, <1>8 DEF ArgInv, SameArguments, FailsOnlyIfFull

LEMMA ExecveGives ==
  ASSUME ArgInv, place = "execve"
  PROVE  Len(maps) = Len(Expected) /\ [j \in DOMAIN maps |-> Read(maps[j])] = Expected
<1>1. /\ Len(maps) = Len(args) /\ Len(args) = Len(Expected) /\ Len(args) <= Len(argv)
      /\ \A j \in 1..Len(maps) : maps[j] = Terminated(argv[j])
  BY DEF ArgInv, Put, Found
<1>2. maps \in Seq(Seq(Nat)) /\ Len(maps) \in Nat /\ DOMAIN maps = 1..Len(maps) /\ Len(argv) \in Nat
  BY LenProperties DEF ArgInv, Shape
<1>3. ASSUME NEW j \in 1..Len(maps) PROVE Read(maps[j]) = Terminated(argv[j])
  <2>1. argv[j] \in Text
    <3>1. j \in 1..Len(argv)
      BY <1>1, <1>2
    <3> QED BY <3>1, ElementOfSeq DEF ArgInv, Shape
  <2> QED BY <1>1, <2>1, FirstZero
<1>4. Expected = [j \in 1..Len(Expected) |-> Terminated(argv[j])]
  BY Expecting DEF ArgInv
<1> QED BY <1>1, <1>2, <1>3, <1>4

LEMMA RestKeeps ==
  ASSUME ArgInv,
         AllInjected \/ InjectAddresses \/ ExecveArguments \/ NoSuchFile \/ UNCHANGED rewindVars
  PROVE  ArgInv'
<1>1. UNCHANGED <<argv, buf, pos, start, args, maps>>
  BY DEF AllInjected, InjectAddresses, ExecveArguments, NoSuchFile, rewindVars
<1>2. CommandLine' = CommandLine /\ Expected' = Expected
  BY <1>1 DEF CommandLine, Expected
<1>3. Shape' /\ \A e : Ends(e)' <=> Ends(e)
  BY <1>1, <1>2 DEF ArgInv, Shape, Ends
<1>4. CASE UNCHANGED rewindVars
  BY <1>1, <1>2, <1>3, <1>4 DEF ArgInv, Found, Placed, Put, rewindVars, SameArguments, FailsOnlyIfFull
<1>5. CASE AllInjected \/ NoSuchFile
  BY <1>1, <1>2, <1>3, <1>5 DEF ArgInv, Found, Placed, Put, AllInjected, NoSuchFile,
     SameArguments, FailsOnlyIfFull
<1>6. CASE InjectAddresses
  <2>1. place = "addresses" /\ place' = IF args = <<>> THEN "failed" ELSE "execve"
    BY <1>6 DEF InjectAddresses
  <2>2. args = <<>> => Len(Expected) = 0
    BY <2>1 DEF ArgInv, Found
  <2>3. 0 % PageWords = 0
    BY ArgumentsAssumption
  <2> QED BY <1>1, <1>2, <1>3, <2>1, <2>2, <2>3 DEF ArgInv, Found, Placed, Put,
          SameArguments, FailsOnlyIfFull
<1>7. CASE ExecveArguments
  <2>1. /\ place = "execve"
        /\ \/ given' = [j \in DOMAIN maps |-> Read(maps[j])] /\ place' = "done"
           \/ Len(maps) % PageWords = 0 /\ place' = "failed"
    BY <1>7 DEF ExecveArguments
  <2> QED BY <1>1, <1>2, <1>3, <2>1, ExecveGives DEF ArgInv, Found, Placed, Put,
          SameArguments, FailsOnlyIfFull
<1> QED BY <1>4, <1>5, <1>6, <1>7

LEMMA InitArguments ==
  ASSUME RewindInit
  PROVE  ArgInv
<1>1. argv \in Seq(Text) /\ argv # <<>>
  <2>1. Strings \subseteq Text
    <3> SUFFICES ASSUME NEW s \in Strings PROVE s \in Text
      OBVIOUS
    <3>1. PICK m \in 0..MaxLen : s \in [1..m -> Chars]
      BY DEF Strings, SeqOf
    <3>2. m \in Nat /\ Chars \subseteq Nat \ {0}
      BY ArgumentsAssumption
    <3>3. s \in [1..m -> Nat \ {0}]
      BY <3>1, <3>2
    <3> QED BY <3>2, <3>3 DEF Text
  <2>2. argv \in SeqOf(Strings, MaxArgs) \ {<<>>}
    BY DEF RewindInit
  <2>3. PICK m \in 0..MaxArgs : argv \in [1..m -> Strings]
    BY <2>2 DEF SeqOf
  <2>4. m \in Nat /\ argv \in [1..m -> Text]
    BY <2>1, <2>3, ArgumentsAssumption
  <2> QED BY <2>2, <2>4
<1>2. Shape
  BY <1>1 DEF RewindInit, Shape
<1>3. Found /\ Put
  BY <1>1, LenProperties DEF RewindInit, Found, Put
<1>4. ASSUME NEW e, Ends(e) PROVE Placed(e)
  <2>1. Len(argv) \in Nat \ {0} /\ 1 \in 1..Len(argv) /\ argv[1] \in Text
    BY <1>1, EmptySeq, ElementOfSeq
  <2>2. Len(argv[1]) \in Nat
    BY <2>1, LenProperties DEF Text
  <2>3. e[0] = 0 /\ e[1] = e[1-1] + Len(argv[1]) + 1
    BY <1>4, <2>1 DEF Ends, Divides
  <2>4. Len(buf) \in Nat
    BY <1>2, <1>4, Buffer, LenProperties
  <2>5. place = "read" /\ start = 0 /\ pos = 0 /\ args = <<>> /\ Len(args) = 0
    BY DEF RewindInit
  <2> QED BY <2>1, <2>2, <2>3, <2>4, <2>5 DEF Placed
<1> QED BY <1>2, <1>3, <1>4 DEF ArgInv, RewindInit, SameArguments, FailsOnlyIfFull

LEMMA ArgumentsKept ==
  ASSUME ArgInv, [RewindNext]_rewindVars
  PROVE  ArgInv'
BY ReadByteKeeps, ReadAllKeeps, InjectKeeps, RestKeeps DEF RewindNext

\* What rewind does keeps ArgInv.
THEOREM ArgumentsInvariant == RewindSpec => []ArgInv
<1>1. RewindInit => ArgInv
  BY InitArguments
<1>2. ArgInv /\ [RewindNext]_rewindVars => ArgInv'
  BY ArgumentsKept
<1> QED BY <1>1, <1>2, PTL DEF RewindSpec

\* A program that is rewound is started with the arguments that it had, without the
\* last one if that is not ended by a 0 (daemon.rs 186-198, myprocfs.rs 21-41).
THEOREM RewoundAsBefore == RewindSpec => []SameArguments
<1>1. ArgInv => SameArguments
  BY DEF ArgInv
<1> QED BY <1>1, ArgumentsInvariant, PTL

\* It is not started only if its arguments fill their pages of addresses exactly
\* (pcontroller.rs 507-513).
THEOREM RewoundUnlessFull == RewindSpec => []FailsOnlyIfFull
<1>1. ArgInv => FailsOnlyIfFull
  BY DEF ArgInv
<1> QED BY <1>1, ArgumentsInvariant, PTL

=============================================================================

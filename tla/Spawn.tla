------------------------------- MODULE Spawn --------------------------------
(***************************************************************************)
(* One telefork request at the teleserver (src/teleserver): the thread that *)
(* handles it forks, and turns the child into the process of the request.  *)
(* The child, if it is let go as it is, returns from spawn_process into the *)
(* same handler.                                                           *)
(***************************************************************************)
EXTENDS AddressSpace, Sequences, FiniteSetsExt

CONSTANTS
  Requests,    \* what can be sent: words of registers, the page of pc, regions
  Layouts,     \* what a forked teleserver can look like
  GpWords,     \* words in user_regs_struct, the size of either register buffer
  FpWords      \* words in the floating point register set

RegionType ==
  [base : Pages, size : 1..NPages, data : BOOLEAN, prot : Protections, private : BOOLEAN]

ASSUME SpawnAssumption ==
  /\ GpWords \in Nat /\ FpWords \in Nat
  /\ \A q \in Requests :
       /\ q.gp \in Nat /\ q.fp \in Nat /\ q.pc \in Pages
       /\ q.regions \in Seq(RegionType)
       /\ \A i \in DOMAIN q.regions : Fits(q.regions[i].base, q.regions[i].size)
  /\ \A l \in Layouts :
       /\ l.space \in Spaces /\ l.pc \in Pages
       /\ l.maps \in Seq([base : Pages, size : 1..NPages, huge : BOOLEAN]) \ {<<>>}
       /\ \A i \in DOMAIN l.maps : Fits(l.maps[i].base, l.maps[i].size)
       /\ \A p \in Pages :
            l.space[p] # Free => \E i \in DOMAIN l.maps : p \in Span(l.maps[i].base, l.maps[i].size)

VARIABLES
  request, layout,
  stdin,       \* what the server has as file 0: a file open for reading, or not
  at,          \* the call the handler makes next
  k,           \* maps or regions dealt with
  child,       \* forked, stopped (by ptrace), halted (by SIGSTOP), running, dead
  regs,        \* the child's registers: own, saved, of a call
  fp,          \* words of its floating point registers that are saved ones
  kept,        \* maps of the child that have not been unmapped
  result,      \* of initialize_process
  answers      \* the responses: by whom, and whether success is reported

vars == <<space, request, layout, stdin, at, k, child, regs, fp, kept, result, answers>>
fixed == <<request, layout, stdin>>

Init ==
  /\ request \in Requests /\ layout \in Layouts /\ stdin \in {"file", "device"}
  /\ space = layout.space
  /\ at = "wait" /\ k = 0
  /\ child = "forked" /\ regs = "own" /\ fp = 0
  /\ kept = DOMAIN layout.maps
  /\ result = "Ok" /\ answers = {}

-----------------------------------------------------------------------------
(* The child.                                                               *)

\* traceme and raise.
Traceme ==
  /\ child = "forked"
  /\ child' = "stopped"
  /\ UNCHANGED <<space, fixed, at, k, regs, fp, kept, result, answers>>

\* It has a tracer already: the error is returned to the handler, which reports
\* it.
TracemeFails ==
  /\ child = "forked"
  /\ child' = "running"
  /\ answers' = answers \cup {<<"child", "failure">>}
  /\ UNCHANGED <<space, fixed, at, k, regs, fp, kept, result>>

Continued ==
  /\ child = "halted"
  /\ child' = "running"
  /\ UNCHANGED <<space, fixed, at, k, regs, fp, kept, result, answers>>

\* raise returns, if the memory is there that it needs, and so does the handler.
Returns ==
  /\ child = "running" /\ regs = "own" /\ <<"child", "failure">> \notin answers
  /\ answers' = answers \cup {<<"child", "success">>}
  /\ UNCHANGED <<space, fixed, at, k, child, regs, fp, kept, result>>

Dies ==
  /\ child # "dead"
  /\ child' = "dead"
  /\ UNCHANGED <<space, fixed, at, k, regs, fp, kept, result, answers>>

-----------------------------------------------------------------------------
(* initialize_process.                                                      *)

Wait ==
  /\ at = "wait" /\ child = "stopped"
  /\ at' = "unmap"
  /\ UNCHANGED <<space, fixed, k, child, regs, fp, kept, result, answers>>

Fail ==
  /\ at' = "detach" /\ result' = "Err"
  /\ UNCHANGED <<space, fixed, k, child, fp, kept, answers>>

Region == request.regions[k + 1]

\* Whatever is done to a dead child fails, except that writing to /proc/<pid>/mem
\* may not be an error (FillRegion).
ChildGone ==
  /\ child = "dead"
  /\ at \in {"wait", "unmap", "gp", "fp", "map"} \/ (at = "fill" /\ Region.data)
  /\ Fail
  /\ UNCHANGED regs

\* make_syscall puts the call at pc: the map of pc is spared, and what has 2 MB.
Spared(m) == layout.pc \in Span(m.base, m.size) \/ m.huge

NextMap ==
  /\ k' = IF k + 1 = Len(layout.maps) THEN 0 ELSE k + 1
  /\ at' = IF k + 1 = Len(layout.maps) THEN "gp" ELSE "unmap"

\* Wrong: a map that is spared is looked at again and again.
SpareAgain ==
  /\ at = "unmap" /\ child = "stopped"
  /\ Spared(layout.maps[k + 1])
  /\ k' = (k + 1) % Len(layout.maps)
  /\ UNCHANGED <<space, fixed, at, child, regs, fp, kept, result, answers>>

Spare ==
  /\ at = "unmap" /\ child = "stopped"
  /\ Spared(layout.maps[k + 1])
  /\ NextMap
  /\ UNCHANGED <<space, fixed, child, regs, fp, kept, result, answers>>

\* A refusal is a warning.
UnmapOne ==
  /\ at = "unmap" /\ child = "stopped"
  /\ LET m == layout.maps[k + 1]
     IN /\ ~Spared(m)
        /\ \E ok \in BOOLEAN :
             /\ Munmap(m.base, m.size, ok)
             /\ kept' = IF ok THEN kept \ {k + 1} ELSE kept
  /\ NextMap
  /\ UNCHANGED <<fixed, child, regs, fp, result, answers>>

\* Wrong: the lengths are not compared, and what cannot be set is not set.
SetGpOrNot ==
  /\ at = "gp" /\ child = "stopped"
  /\ regs' = IF request.gp = GpWords THEN "saved" ELSE regs
  /\ at' = "fp"
  /\ UNCHANGED <<space, fixed, k, child, fp, kept, result, answers>>

SetGp ==
  /\ at = "gp" /\ child = "stopped" /\ request.gp = GpWords
  /\ regs' = "saved" /\ at' = "fp"
  /\ UNCHANGED <<space, fixed, k, child, fp, kept, result, answers>>

\* The expected length is that of the general purpose registers here, too, and
\* teleclient sends no more; the kernel sets as many.
SetFp ==
  /\ at = "fp" /\ child = "stopped" /\ request.fp = GpWords
  /\ fp' = Min({GpWords, FpWords})
  /\ at' = IF request.regions = <<>> THEN "detach" ELSE "map"
  /\ UNCHANGED <<space, fixed, k, child, regs, kept, result, answers>>

WrongLength ==
  /\ (at = "gp" /\ request.gp # GpWords) \/ (at = "fp" /\ request.fp # GpWords)
  /\ Fail
  /\ UNCHANGED regs

-----------------------------------------------------------------------------
(* write_memory_map.                                                        *)

\* From set_registers on pc is that of the request.
Pc == IF regs = "saved" THEN request.pc ELSE layout.pc

\* Wrong: the error of PEEKDATA is dropped.
NoPageGoesOn ==
  /\ at = "map" /\ child = "stopped" /\ ~Mapped(Pc)
  /\ at' = "fill"
  /\ UNCHANGED <<space, fixed, k, child, regs, fp, kept, result, answers>>

\* PEEKDATA fails.
NoPage ==
  /\ at = "map" /\ child = "stopped" /\ ~Mapped(Pc)
  /\ Fail
  /\ UNCHANGED regs

\* mmap(FIXED) of file 0, shared if the region is private.  A device cannot be
\* mapped, nor can a file that is open for reading be for writing, and neither
\* shared nor private is invalid.
Mappable(r) == stdin = "file" /\ r.private /\ "w" \notin r.prot

\* On a page that is not executable the call is not made, and x0, its first
\* argument still, is taken for the result; a refusal is none either, unless
\* it is EPERM.
MapNothing ==
  /\ at = "map" /\ child = "stopped" /\ Mapped(Pc)
  /\ "x" \in space[Pc].prot => ~Mappable(Region)
  /\ at' = "fill"
  /\ UNCHANGED <<space, fixed, k, child, regs, fp, kept, result, answers>>

MapForbidden ==
  /\ at = "map" /\ child = "stopped" /\ Mapped(Pc) /\ "x" \in space[Pc].prot
  /\ Fail
  /\ UNCHANGED regs

\* If pc is in the region, what was there cannot be put back into the file, and
\* the registers stay those of the call.
MapStdin ==
  /\ at = "map" /\ child = "stopped" /\ Mapped(Pc) /\ "x" \in space[Pc].prot
  /\ Mappable(Region)
  /\ MmapFixed(Region.base, Region.size, Page("file", Region.prot))
  /\ IF Pc \in Span(Region.base, Region.size)
       THEN at' = "detach" /\ result' = "Err" /\ regs' = "call"
       ELSE at' = "fill" /\ UNCHANGED <<result, regs>>
  /\ UNCHANGED <<fixed, k, child, fp, kept, answers>>

\* process_vm_writev, then /proc/<pid>/mem; that neither works is printed.
FillRegion ==
  /\ at = "fill"
  /\ LET b == Region.base
         s == Region.size
     IN Fill(CASE ~Region.data \/ child = "dead" -> {}
               [] Reached(b, s) # {}             -> Reached(b, s)
               [] OTHER                          -> Forced(b, s),
             "saved")
  /\ k' = k + 1
  /\ at' = IF k + 1 = Len(request.regions) THEN "detach" ELSE "map"
  /\ UNCHANGED <<fixed, child, regs, fp, kept, result, answers>>

-----------------------------------------------------------------------------

\* detach with SIGSTOP, and the response.
Detach ==
  /\ at = "detach"
  /\ at' = "answered"
  /\ child' = IF child = "stopped" THEN "halted" ELSE child
  /\ answers' = answers \cup {<<"handler", IF child = "stopped" /\ result = "Ok" THEN "success" ELSE "failure">>}
  /\ UNCHANGED <<space, fixed, k, regs, fp, kept, result>>

Handler ==
  \/ Wait \/ ChildGone \/ Spare \/ UnmapOne \/ SetGp \/ SetFp \/ WrongLength
  \/ NoPage \/ MapNothing \/ MapForbidden \/ MapStdin \/ FillRegion \/ Detach

Next == Handler \/ Traceme \/ TracemeFails \/ Continued \/ Returns \/ Dies

\* The handler and the child, until it is stopped, are running code.
Spec == Init /\ [][Next]_vars /\ WF_vars(Handler) /\ WF_vars(Traceme \/ TracemeFails)

-----------------------------------------------------------------------------
(* Properties.                                                              *)

Success == <<"handler", "success">> \in answers

\* Success for a request with memory is only reported if the page of the saved pc
\* happens to be in a map of the child's own that was left: the registers are set
\* before the memory is mapped by calls made at pc (spawn.rs 52-60).
SuccessNeedsPc ==
  Success /\ request.regions # <<>> =>
    \E i \in kept : request.pc \in Span(layout.maps[i].base, layout.maps[i].size)

\* When success is reported the child, whenever it is continued, does not give
\* the client a second answer (spawn.rs 36-39); where it does not, it may.
OneAnswer == Success => \A a \in {"success", "failure"} : <<"child", a>> \notin answers

\* The request is answered, unless the child that could not be traced, and has
\* answered itself, lives on.
RequestAnswered == <>(at = "answered" \/ (at = "wait" /\ child = "running"))

=============================================================================

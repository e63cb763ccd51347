-------------------------------- MODULE Thaw --------------------------------
(***************************************************************************)
(* proctool thaw and proctool unmap-child (src/proctool/bin/client.rs,     *)
(* cryogenics.rs, pcontroller.rs): the client forks, has the child stopped *)
(* and replaces its memory by system calls injected at a page that it maps *)
(* for the purpose, the svc page.                                          *)
(***************************************************************************)
EXTENDS AddressSpace, Sequences, FiniteSetsExt

CONSTANTS
  SavedStates,   \* sequences of regions a state file can hold
  Layouts        \* address spaces a forked client can have

RegionType == [base : Pages, size : 1..NPages, data : BOOLEAN, prot : Protections]
Cover(r) == Span(r.base, r.size)

ASSUME ThawAssumption ==
  /\ \A s \in SavedStates :
       /\ s \in Seq(RegionType)
       /\ \A i \in DOMAIN s : Fits(s[i].base, s[i].size)
       /\ \A i, j \in DOMAIN s : i < j => s[i].base + s[i].size <= s[j].base
  /\ \A l \in Layouts :
       /\ l.space \in Spaces
       /\ l.vvar \in Pages /\ l.vdso \in Pages /\ l.vvar < l.vdso
       /\ \A p \in {l.vvar, l.vdso} : l.space[p] # Free

VARIABLES
  command,   \* "thaw" or "unmap"
  saved,     \* the regions of the state file
  layout,    \* the child's address space at the fork
  at,        \* the call the client makes next
  k,         \* the regions dealt with
  svc,       \* where the svc page should be
  regs,      \* what the child's registers are: its own, of a call, saved
  child,     \* stopped (by ptrace), running, halted (by SIGSTOP), dead
  silent,    \* regions for which no error was printed
  refused    \* regions of which the kernel refused munmap or mprotect, unnoticed

vars == <<space, command, saved, layout, at, k, svc, regs, child, silent, refused>>
fixed == <<command, saved, layout>>

Init ==
  /\ command \in {"thaw", "unmap"}
  /\ saved \in SavedStates
  /\ layout \in Layouts
  /\ space = layout.space
  /\ at = "svc map"
  /\ k = 0 /\ svc = 0
  /\ regs = "own" /\ child = "stopped"
  /\ silent = {} /\ refused = {}

-----------------------------------------------------------------------------

Region == saved[k + 1]
Rwx == {"r", "w", "x"}

Highest == Max({p + 1 : p \in {q \in Pages : Mapped(q)}})

\* There is a page to step the child on, and it is the svc page with its
\* instructions.  If it is another one, that a region has brought there, some other
\* instruction is executed and the call is not made, which nobody notices; what
\* that instruction may write is not modelled.
Steppable == child = "stopped" /\ svc \in Pages /\ "x" \in space[svc].prot
Steerable == Steppable /\ space[svc] = Page("svc", Rwx)

\* Drop detaches the child, which goes on with whatever registers it has.
Fail ==
  /\ at' = "failed"
  /\ child' = IF child = "stopped" THEN "running" ELSE child
  /\ UNCHANGED <<space, fixed, k, svc, regs, silent, refused>>

\* map_svc_region.  The result is compared with MAP_FAILED, which is -1, but a
\* refusal is -errno: it is the write to the page that finds out.
MapSvcRegion ==
  /\ at = "svc map" /\ child = "stopped"
  /\ svc' = Highest + 1
  /\ regs' = "call"
  /\ \/ \E there \in Pages : Mmap(Highest + 1, 1, Rwx, there)
     \/ UNCHANGED space
  /\ at' = "svc fill"
  /\ UNCHANGED <<fixed, k, child, silent, refused>>

FillSvcRegion ==
  /\ at = "svc fill" /\ child = "stopped"
  /\ Reached(svc, 1) # {}
  /\ Write(svc, 1, "svc")
  /\ at' = IF command = "unmap" THEN "unmap above"
           ELSE IF saved = <<>> THEN "registers" ELSE "munmap"
  /\ UNCHANGED <<fixed, k, svc, regs, child, silent, refused>>

SvcFails ==
  /\ at \in {"svc map", "svc fill"}
  /\ child = "dead" \/ (at = "svc fill" /\ Reached(svc, 1) = {})
  /\ Fail

-----------------------------------------------------------------------------
(* map_and_fill_region, and the loop of thaw over the regions.              *)

NextRegion ==
  /\ k' = k + 1
  /\ at' = IF k + 1 = Len(saved) THEN "registers" ELSE "munmap"

\* The result of munmap is not looked at.
MunmapRegion ==
  /\ at = "munmap" /\ Steppable
  /\ \E ok \in BOOLEAN :
       /\ ok => Steerable
       /\ Munmap(Region.base, Region.size, ok)
       /\ refused' = IF ok THEN refused ELSE refused \cup {k + 1}
  /\ regs' = "call" /\ at' = "mmap"
  /\ UNCHANGED <<fixed, k, svc, child, silent>>

\* No MAP_FIXED; where the region is now is not looked at, nor is any refusal but
\* EPERM (MmapForbidden), whose number is that of MAP_FAILED.
MmapRegion ==
  /\ at = "mmap" /\ Steppable
  /\ \/ Steerable /\ \E there \in Pages : Mmap(Region.base, Region.size, Region.prot \cup {"w"}, there)
     \/ UNCHANGED space
  /\ regs' = "call" /\ at' = "fill"
  /\ UNCHANGED <<fixed, k, svc, child, silent, refused>>

MmapForbidden ==
  /\ at = "mmap" /\ Steerable
  /\ regs' = "call"
  /\ NextRegion
  /\ UNCHANGED <<space, fixed, svc, child, silent, refused>>

FillRegion ==
  /\ at = "fill" /\ child = "stopped"
  /\ Region.data => Reached(Region.base, Region.size) # {}
  /\ IF Region.data THEN Write(Region.base, Region.size, "saved") ELSE UNCHANGED space
  /\ IF "w" \in Region.prot
       THEN NextRegion /\ silent' = silent \cup {k + 1}
       ELSE at' = "mprotect" /\ UNCHANGED <<k, silent>>
  /\ UNCHANGED <<fixed, svc, regs, child, refused>>

\* Wrong: the region is left writable.
NotProtected ==
  /\ at = "mprotect" /\ Steerable
  /\ NextRegion /\ silent' = silent \cup {k + 1}
  /\ UNCHANGED <<space, fixed, svc, regs, child, refused>>

MprotectRegion ==
  /\ at = "mprotect" /\ Steppable
  /\ \E ok \in BOOLEAN :
       /\ ok => Steerable
       /\ Mprotect(Region.base, Region.size, Region.prot, ok)
       /\ refused' = IF ok THEN refused ELSE refused \cup {k + 1}
  /\ regs' = "call"
  /\ NextRegion /\ silent' = silent \cup {k + 1}
  /\ UNCHANGED <<fixed, svc, child>>

RegionInTrouble ==
  \/ at \in {"munmap", "mmap", "fill", "mprotect"} /\ child = "dead"
  \/ at = "fill" /\ Region.data /\ Reached(Region.base, Region.size) = {}

\* Wrong: the error of a region is returned.
RegionFailsThaw == RegionInTrouble /\ Fail

\* Wrong: the error of a region is printed, and the region tried again.
RegionTriedAgain ==
  /\ RegionInTrouble
  /\ at' = "munmap"
  /\ UNCHANGED <<space, fixed, k, svc, regs, child, silent, refused>>

\* The error of a region is printed, and the next region follows.
RegionFails ==
  /\ RegionInTrouble
  /\ NextRegion
  /\ UNCHANGED <<space, fixed, svc, regs, child, silent, refused>>

\* The svc page has been unmapped or overwritten.  Where there is no instruction,
\* or one that jumps to itself, the child is stepped for ever, since its pc does
\* not move.
LosesSvcRegion ==
  /\ at \in {"munmap", "mmap", "mprotect", "unmap above", "unmap below"}
  /\ child = "stopped" /\ ~Steerable
  /\ at' = "lost"
  /\ UNCHANGED <<space, fixed, k, svc, regs, child, silent, refused>>

SetRegisters ==
  /\ at = "registers" /\ child = "stopped"
  /\ regs' = "saved" /\ at' = "clear"
  /\ UNCHANGED <<space, fixed, k, svc, child, silent, refused>>

\* clear_terminal("/dev/tty"), which there may not be.
ClearTerminal ==
  /\ at = "clear"
  /\ at' = "detach"
  /\ UNCHANGED <<space, fixed, k, svc, regs, child, silent, refused>>

ClearFails == at = "clear" /\ Fail

Detach ==
  /\ at = "detach" /\ child = "stopped"
  /\ child' = IF command = "thaw" THEN "running" ELSE "halted"
  /\ at' = "wait"
  /\ UNCHANGED <<space, fixed, k, svc, regs, silent, refused>>

\* waitpid returns when the child has ended; it is a second one, in Drop, that
\* then fails.
WaitForChild ==
  /\ at = "wait" /\ child = "dead"
  /\ at' = "done"
  /\ UNCHANGED <<space, fixed, k, svc, regs, child, silent, refused>>

ChildGone == at \in {"registers", "detach", "unmap above", "unmap below"} /\ child = "dead" /\ Fail

-----------------------------------------------------------------------------
(* unmap_existing_regions.  The second argument of munmap is a length: the   *)
(* first call passes it an address.  Results are printed.                    *)

UnmapAboveVdso ==
  /\ at = "unmap above" /\ Steerable
  /\ \E ok \in BOOLEAN : Munmap(layout.vdso + 1, svc, ok)
  /\ regs' = "call" /\ at' = "unmap below"
  /\ UNCHANGED <<fixed, k, svc, child, silent, refused>>

\* Wrong: the page of [vvar] is counted in.
UnmapVvarToo ==
  /\ at = "unmap below" /\ Steerable
  /\ \E ok \in BOOLEAN : Munmap(0, layout.vvar + 1, ok)
  /\ regs' = "call" /\ at' = "detach"
  /\ UNCHANGED <<fixed, k, svc, child, silent, refused>>

UnmapBelowVvar ==
  /\ at = "unmap below" /\ Steerable
  /\ \E ok \in BOOLEAN : Munmap(0, layout.vvar, ok)
  /\ regs' = "call" /\ at' = "detach"
  /\ UNCHANGED <<fixed, k, svc, child, silent, refused>>

-----------------------------------------------------------------------------
(* The child, and users who send signals to it or to the client.            *)

Dies ==
  /\ child # "dead"
  /\ child' = "dead"
  /\ UNCHANGED <<space, fixed, at, k, svc, regs, silent, refused>>

Continued ==
  /\ child = "halted"
  /\ child' = "running"
  /\ UNCHANGED <<space, fixed, at, k, svc, regs, silent, refused>>

\* The kernel detaches the child of a client that is killed.
ClientKilled ==
  /\ at \notin {"done", "failed", "killed"}
  /\ at' = "killed"
  /\ child' = IF child = "stopped" THEN "running" ELSE child
  /\ UNCHANGED <<space, fixed, k, svc, regs, silent, refused>>

Client ==
  \/ MapSvcRegion \/ FillSvcRegion \/ SvcFails
  \/ MunmapRegion \/ MmapRegion \/ MmapForbidden \/ FillRegion \/ MprotectRegion \/ RegionFails
  \/ LosesSvcRegion \/ SetRegisters \/ ClearTerminal \/ ClearFails
  \/ Detach \/ WaitForChild \/ ChildGone
  \/ UnmapAboveVdso \/ UnmapBelowVvar

Next == Client \/ ClientKilled \/ Dies \/ Continued

Spec == Init /\ [][Next]_vars /\ WF_vars(Client)

-----------------------------------------------------------------------------
(* Properties.                                                              *)

\* A saved region is where the injected calls come from (pcontroller.rs 285), or
\* unmap-child has unmapped that page: the length it passes is an address, and
\* only an address space that is less than half used has room for it (355).
Covered == \E i \in DOMAIN saved : svc \in Cover(saved[i])
SawsItsBranch == IF command = "thaw" THEN Covered ELSE layout.vdso + 1 + svc <= NPages

\* When the saved registers are put in, or the client is killed, a region with data of which nothing was
\* printed is in its place, with its data and its own protection, wherever the
\* kernel chose to map it first (pcontroller.rs 397-464); the results of munmap
\* and mprotect, which nobody looks at, have to be good for this.
RegionsInPlace ==
  at \in {"registers", "clear", "detach", "wait", "killed"} /\ command = "thaw" =>
    \A i \in silent \ refused :
      saved[i].data =>
        \A p \in Cover(saved[i]) : space[p] = Page("saved", saved[i].prot)

\* The child is let go with the saved registers after every region has been
\* tried, or with its own memory untouched.  With memory partly replaced and
\* registers that know nothing of it, it is let go only if the client is killed
\* (cryogenics.rs 49-70): no error of a call does that, nor the child's end.
HalfWayOnlyIfKilled ==
  command = "thaw" /\ child = "running" =>
    \/ regs = "saved" /\ k = Len(saved)
    \/ \A p \in Pages : layout.space[p] # Free => space[p] = layout.space[p]
    \/ at = "killed"

\* The client comes to an end, or to wait for the child, unless it has replaced
\* the page its calls come from (ensure_not_in_syscall has no limit).
ClientEnds == <>(at \in {"done", "failed", "killed", "wait"} \/ (at = "lost" /\ SawsItsBranch))

\* A child that unmap-child has let go still has [vvar], [vdso] and the svc page,
\* for which the two calls leave a gap (pcontroller.rs 348-372).
KeepsItsFooting ==
  command = "unmap" /\ at = "wait" =>
    \A p \in {layout.vvar, layout.vdso, svc} : Mapped(p)

=============================================================================

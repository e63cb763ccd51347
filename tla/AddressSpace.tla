---------------------------- MODULE AddressSpace ----------------------------
(***************************************************************************)
(* The address space of a process and the system calls that change it.     *)
(* This is the kernel, not code of the repository.  A page is free or has  *)
(* a content and a protection.                                             *)
(***************************************************************************)
EXTENDS Naturals

CONSTANT NPages      \* TASK_SIZE, in pages

ASSUME AddressSpaceAssumption == NPages \in Nat

VARIABLE space

Pages == 0..(NPages - 1)
Protections == SUBSET {"r", "w", "x"}
Contents == {"own", "svc", "zero", "file", "saved"}
Free == [data |-> "none", prot |-> {}]
Page(data, prot) == [data |-> data, prot |-> prot]

Spaces == [Pages -> {Free} \cup [data : Contents, prot : Protections]]

Span(base, size) == base..(base + size - 1)
Fits(base, size) == size > 0 /\ base + size <= NPages
Mapped(p) == p \in Pages /\ space[p] # Free
Vacant(base, size) == Fits(base, size) /\ \A p \in Span(base, size) : ~Mapped(p)
Set(S, content) == space' = [p \in Pages |-> IF p \in S THEN content ELSE space[p]]

\* munmap of a range that is none is EINVAL; others can be refused as well.
Munmap(base, size, ok) ==
  IF ok THEN Fits(base, size) /\ Set(Span(base, size), Free) ELSE UNCHANGED space

\* mmap(PRIVATE | ANONYMOUS) with a hint.  If there is no room, or a stack above
\* that may grow, the kernel looks elsewhere, far from the hint.
Mmap(hint, size, prot, there) ==
  /\ Vacant(there, size)
  /\ there = hint \/ Span(there, size) \cap Span(hint, size) = {}
  /\ Set(Span(there, size), Page("zero", prot))

\* mmap(FIXED) replaces what there was.
MmapFixed(base, size, page) == Fits(base, size) /\ Set(Span(base, size), page)

\* mprotect stops at the first hole.
Mprotect(base, size, prot, ok) ==
  IF ok
    THEN /\ \A p \in Span(base, size) : Mapped(p)
         /\ space' = [p \in Pages |->
                        IF p \in Span(base, size) THEN [space[p] EXCEPT !.prot = prot] ELSE space[p]]
    ELSE UNCHANGED space

\* process_vm_writev stops at the first page that cannot be written, and is an
\* error only if that is the very first; so does a write to /proc/<pid>/mem, which
\* disregards the protection of memory that is not shared.
Writable(p) == Mapped(p) /\ "w" \in space[p].prot
Forcible(p) == Mapped(p) /\ space[p].data # "file"
Reached(base, size) == {p \in Span(base, size) : \A q \in base..p : Writable(q)}
Forced(base, size) == {p \in Span(base, size) : \A q \in base..p : Forcible(q)}
Fill(S, data) ==
  space' = [p \in Pages |-> IF p \in S THEN [space[p] EXCEPT !.data = data] ELSE space[p]]
Write(base, size, data) == Fill(Reached(base, size), data)

=============================================================================

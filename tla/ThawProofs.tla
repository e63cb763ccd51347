----------------------------- MODULE ThawProofs -----------------------------
(***************************************************************************)
(* What the child of thaw finds when it is let go, for any state file and  *)
(* any address space of the client, whatever the kernel refuses.           *)
(***************************************************************************)
EXTENDS Thaw, WellFoundedInduction, TLAPS

InRegion == {"munmap", "mmap", "fill", "mprotect"}
AfterRegions == {"registers", "clear", "detach", "wait"}

\* Which labels belong to thaw, and how far its loop is there.
Progress ==
  /\ saved \in SavedStates
  /\ k \in Nat /\ silent \subseteq 1..k
  /\ at \in InRegion => k < Len(saved) /\ command = "thaw"
  /\ at \in {"svc map", "svc fill"} => k = 0
  /\ command \in {"thaw", "unmap"}
  /\ at \in AfterRegions /\ command = "thaw" => k = Len(saved)
  /\ at \in {"unmap above", "unmap below"} => command = "unmap"
  /\ command = "unmap" => silent = {}

\* The pages of region i have that data and that protection.
Filled(i, prot) == \A p \in Cover(saved[i]) : space[p] = Page("saved", prot)

\* The regions that have been dealt with, and the one that is.
Past == \A i \in silent \ refused : saved[i].data => Filled(i, saved[i].prot)
Present ==
  at \in InRegion /\ k + 1 \notin refused =>
    /\ at = "mmap" => \A p \in Cover(Region) : space[p] = Free
    /\ at = "fill" => \/ \A p \in Cover(Region) : space[p] = Free
                      \/ \A p \in Cover(Region) : space[p] = Page("zero", Region.prot \cup {"w"})
    /\ at = "mprotect" /\ Region.data => Filled(k + 1, Region.prot \cup {"w"})

\* The child's own memory is as it was.
Untouched == \A p \in Pages : layout.space[p] # Free => space[p] = layout.space[p]

LetGoWell ==
  /\ at \in {"svc map", "svc fill"} => Untouched
  /\ at \in {"clear", "detach", "wait"} /\ command = "thaw" => regs = "saved"
  /\ child = "running" => at \in {"failed", "wait", "done", "killed"}
  /\ child = "halted" => command = "unmap" /\ at \in {"failed", "wait", "done", "killed"}
  /\ HalfWayOnlyIfKilled

IInv == Progress /\ Past /\ Present /\ LetGoWell

-----------------------------------------------------------------------------

LEMMA RegionFacts ==
  ASSUME saved \in SavedStates, NEW i \in 1..Len(saved)
  PROVE  /\ Cover(saved[i]) \subseteq Pages
         /\ saved[i].base \in Cover(saved[i])
         /\ Fits(saved[i].base, saved[i].size)
         /\ saved[i].prot \in Protections
         /\ saved[i].base \in Nat /\ saved[i].size \in Nat
<1>1. saved \in Seq(RegionType) /\ Fits(saved[i].base, saved[i].size)
  BY ThawAssumption
<1>2. saved[i] \in RegionType
  BY <1>1
<1> QED BY <1>1, <1>2, AddressSpaceAssumption DEF RegionType, Cover, Span, Fits, Pages

LEMMA SpansApart ==
  ASSUME NEW a \in Nat, NEW s \in Nat, NEW b \in Nat, NEW t \in Nat, a + s <= b
  PROVE  Span(a, s) \cap Span(b, t) = {}
<1> SUFFICES ASSUME NEW p \in Span(a, s), p \in Span(b, t) PROVE FALSE
    OBVIOUS
<1>1. p \in Int /\ p < a + s /\ b <= p
  BY DEF Span
<1> QED BY <1>1

\* Regions have no page in common.
LEMMA Apart ==
  ASSUME saved \in SavedStates, NEW i \in 1..Len(saved), NEW j \in 1..Len(saved), i # j
  PROVE  Cover(saved[i]) \cap Cover(saved[j]) = {}
<1>1. i < j \/ j < i
  OBVIOUS
<1>2. saved \in Seq(RegionType)
  BY ThawAssumption
<1>3. \A u, v \in 1..Len(saved) : u < v => saved[u].base + saved[u].size <= saved[v].base
  BY <1>2, ThawAssumption
<1>4. ASSUME NEW u \in 1..Len(saved), NEW v \in 1..Len(saved), u < v
      PROVE  Cover(saved[u]) \cap Cover(saved[v]) = {}
  <2>1. saved[u].base + saved[u].size <= saved[v].base
    BY <1>3, <1>4
  <2>2. /\ saved[u].base \in Nat /\ saved[u].size \in Nat
        /\ saved[v].base \in Nat /\ saved[v].size \in Nat
    BY RegionFacts
  <2> QED BY <2>1, <2>2, SpansApart DEF Cover
<1> QED BY <1>1, <1>4

\* Regions dealt with stay, whatever happens to other pages.
LEMMA PastStays ==
  ASSUME IInv, UNCHANGED <<saved, silent>>, refused \subseteq refused',
         \A i \in silent \ refused :
           saved[i].data => \A p \in Cover(saved[i]) : space'[p] = space[p]
  PROVE  Past'
BY DEF IInv, Past, Filled

\* mmap without MAP_FIXED takes pages that are free.
LEMMA MmapIsGentle ==
  ASSUME NEW hint, NEW size, NEW prot, NEW there, Mmap(hint, size, prot, there),
         NEW p \in Pages, space[p] # Free
  PROVE  space'[p] = space[p]
BY DEF Mmap, Vacant, Mapped, Set

LEMMA InitHolds == Init => IInv
<1> SUFFICES ASSUME Init PROVE IInv
    OBVIOUS
<1> QED BY DEF Init, IInv, Progress, Past, Present, InRegion, AfterRegions, LetGoWell, Untouched, HalfWayOnlyIfKilled

\* Which region it is.
LEMMA KInRange ==
  ASSUME IInv, at \in InRegion
  PROVE  k + 1 \in 1..Len(saved) /\ k \in Nat /\ silent \subseteq 1..k /\ saved \in SavedStates
<1>1. saved \in SavedStates /\ k \in Nat /\ k < Len(saved) /\ silent \subseteq 1..k
  BY DEF IInv, Progress
<1>2. saved \in Seq(RegionType)
  BY <1>1, ThawAssumption
<1> QED BY <1>1, <1>2

-----------------------------------------------------------------------------
(* Steps at a region.                                                       *)

\* What such a step leaves to be shown.
LEMMA RegionStep ==
  ASSUME IInv, at \in InRegion, child' = child, UNCHANGED fixed,
         \/ at' \in InRegion /\ k' = k /\ UNCHANGED silent
         \/ NextRegion /\ silent' \in {silent, silent \cup {k + 1}}
         \/ at' = "lost" /\ k' = k /\ UNCHANGED silent
  PROVE  Progress' /\ LetGoWell'
<1>1. k < Len(saved) /\ Len(saved) \in Nat /\ command = "thaw"
  <2>1. saved \in SavedStates
    BY DEF IInv, Progress
  <2>2. saved \in Seq(RegionType)
    BY <2>1, ThawAssumption
  <2>3. Len(saved) \in Nat
    BY <2>2
  <2> QED BY <2>3 DEF IInv, Progress
<1>2. Progress'
  <2>1. saved' = saved /\ command' = command /\ k \in Nat
    BY DEF fixed, IInv, Progress
  <2>2. silent \subseteq 1..k /\ 1..k \subseteq 1..(k + 1) /\ k + 1 \in 1..(k + 1) /\ k + 1 \in Nat
    <3>1. silent \subseteq 1..k
      BY DEF IInv, Progress
    <3> QED BY <2>1, <3>1
  <2>3. CASE NextRegion /\ silent' \in {silent, silent \cup {k + 1}}
    <3>1. k' = k + 1 /\ silent' \subseteq 1..(k + 1) /\ k' \in Nat
      BY <2>2, <2>3 DEF NextRegion
    <3>2. at' \in {"registers", "munmap"}
      BY <2>3 DEF NextRegion
    <3>3. at' = "munmap" => k' < Len(saved')
      BY <1>1, <2>1, <2>3 DEF NextRegion
    <3>4. at' = "registers" => k' = Len(saved')
      BY <2>1, <2>3 DEF NextRegion
    <3> QED BY <1>1, <2>1, <3>1, <3>2, <3>3, <3>4 DEF IInv, Progress, InRegion, AfterRegions
  <2>4. CASE k' = k /\ (at' \in InRegion \/ at' = "lost") /\ silent' = silent
    BY <1>1, <2>1, <2>2, <2>4 DEF IInv, Progress, InRegion, AfterRegions
  <2> QED BY <2>3, <2>4
<1>3. child # "running" /\ child # "halted"
  BY <1>1 DEF IInv, LetGoWell, InRegion
<1>4. LetGoWell'
  BY <1>3, <1>1 DEF LetGoWell, NextRegion, InRegion, HalfWayOnlyIfKilled, fixed
<1> QED BY <1>2, <1>4

LEMMA MunmapStep ==
  ASSUME IInv, MunmapRegion
  PROVE  IInv'
<1>1. PICK ok \in BOOLEAN :
        /\ Munmap(Region.base, Region.size, ok)
        /\ refused' = IF ok THEN refused ELSE refused \cup {k + 1}
  BY DEF MunmapRegion
<1>2. at = "munmap" /\ at' = "mmap" /\ UNCHANGED <<saved, silent, k>>
  BY DEF MunmapRegion, fixed
<1>3. k + 1 \in 1..Len(saved) /\ k \in Nat /\ silent \subseteq 1..k /\ saved \in SavedStates
  BY <1>2, KInRange DEF InRegion
<1>4. Past'
  <2>1. ASSUME NEW i \in silent \ refused, NEW p \in Cover(saved[i]) PROVE space'[p] = space[p]
    <3>1. i \in 1..Len(saved) /\ i # k + 1
      BY <1>3
    <3>2. p \in Pages /\ p \notin Cover(Region)
      BY <1>3, <3>1, RegionFacts, Apart DEF Region
    <3> QED BY <1>1, <3>2 DEF Munmap, Set, Cover
  <2> QED BY <1>1, <1>2, <2>1, PastStays
<1>5. Present'
  <2>1. CASE ok
    BY <1>1, <1>2, <1>3, <2>1, RegionFacts DEF Present, Munmap, Set, Cover, Region
  <2>2. CASE ~ok
    BY <1>1, <1>2, <2>2 DEF Present
  <2> QED BY <2>1, <2>2
<1> QED BY <1>2, <1>4, <1>5, RegionStep DEF IInv, MunmapRegion, InRegion, fixed

LEMMA MmapStep ==
  ASSUME IInv, MmapRegion
  PROVE  IInv'
<1>1. \/ \E there \in Pages : Mmap(Region.base, Region.size, Region.prot \cup {"w"}, there)
      \/ space' = space
  BY DEF MmapRegion
<1>2. at = "mmap" /\ at' = "fill" /\ UNCHANGED <<saved, silent, k, refused>>
  BY DEF MmapRegion, fixed
<1>3. k + 1 \in 1..Len(saved) /\ k \in Nat /\ silent \subseteq 1..k /\ saved \in SavedStates
  BY <1>2, KInRange DEF InRegion
<1>4. Past'
  <2>1. ASSUME NEW i \in silent \ refused, saved[i].data, NEW p \in Cover(saved[i])
        PROVE  space'[p] = space[p]
    <3>1. space[p] = Page("saved", saved[i].prot)
      BY <2>1 DEF IInv, Past, Filled
    <3>2. p \in Pages
      BY <1>3, RegionFacts
    <3> QED BY <1>1, <3>1, <3>2, MmapIsGentle DEF Page, Free
  <2> QED BY <1>2, <2>1, PastStays
<1>5. Present'
  <2>1. Region' = Region
    BY <1>2 DEF Region
  <2>2. SUFFICES ASSUME k + 1 \notin refused
                 PROVE  \/ \A p \in Cover(Region) : space'[p] = Free
                        \/ \A p \in Cover(Region) : space'[p] = Page("zero", Region.prot \cup {"w"})
    BY <1>2, <2>1 DEF Present
  <2>3. \A p \in Cover(Region) : space[p] = Free /\ p \in Pages
    BY <1>2, <1>3, <2>2, RegionFacts DEF IInv, Present, InRegion, Region
  <2>4. CASE space' = space
    BY <2>3, <2>4
  <2>5. ASSUME NEW there \in Pages, Mmap(Region.base, Region.size, Region.prot \cup {"w"}, there)
        PROVE  \/ \A p \in Cover(Region) : space'[p] = Free
               \/ \A p \in Cover(Region) : space'[p] = Page("zero", Region.prot \cup {"w"})
    <3>1. CASE there = Region.base
      BY <2>3, <2>5, <3>1 DEF Mmap, Set, Cover
    <3>2. CASE Span(there, Region.size) \cap Span(Region.base, Region.size) = {}
      BY <2>3, <2>5, <3>2 DEF Mmap, Set, Cover
    <3> QED BY <2>5, <3>1, <3>2 DEF Mmap
  <2> QED BY <1>1, <2>4, <2>5
<1> QED BY <1>2, <1>4, <1>5, RegionStep DEF IInv, MmapRegion, InRegion, fixed

LEMMA FillStep ==
  ASSUME IInv, FillRegion
  PROVE  IInv'
<1>1. /\ Region.data => Reached(Region.base, Region.size) # {}
      /\ IF Region.data THEN Write(Region.base, Region.size, "saved") ELSE UNCHANGED space
  BY DEF FillRegion
<1>2. at = "fill" /\ UNCHANGED <<saved, refused>>
  BY DEF FillRegion, fixed
<1>3. k + 1 \in 1..Len(saved) /\ k \in Nat /\ silent \subseteq 1..k /\ saved \in SavedStates
  BY <1>2, KInRange DEF InRegion
<1>4. \A i \in silent \ refused : saved[i].data => \A p \in Cover(saved[i]) : space'[p] = space[p]
  <2>1. ASSUME NEW i \in silent \ refused, NEW p \in Cover(saved[i]) PROVE space'[p] = space[p]
    <3>1. i \in 1..Len(saved) /\ i # k + 1
      BY <1>3
    <3>2. p \in Pages /\ p \notin Cover(Region)
      BY <1>3, <3>1, RegionFacts, Apart DEF Region
    <3> QED BY <1>1, <3>2 DEF Write, Fill, Reached, Cover
  <2> QED BY <2>1
<1>5. Region.data /\ k + 1 \notin refused =>
        \A p \in Cover(Region) : space'[p] = Page("saved", Region.prot \cup {"w"})
  <2> SUFFICES ASSUME Region.data, k + 1 \notin refused
               PROVE  \A p \in Cover(Region) : space'[p] = Page("saved", Region.prot \cup {"w"})
      OBVIOUS
  <2>1. /\ Cover(Region) \subseteq Pages /\ Region.base \in Cover(Region)
        /\ Region.base \in Nat /\ Region.size \in Nat
    BY <1>3, RegionFacts DEF Region
  <2>2. PICK q \in Reached(Region.base, Region.size) : TRUE
    BY <1>1
  <2>3. Writable(Region.base)
    BY <2>1, <2>2 DEF Reached, Span
  <2>4. \A p \in Cover(Region) : space[p] = Page("zero", Region.prot \cup {"w"})
    BY <1>2, <2>1, <2>3 DEF IInv, Present, InRegion, Writable, Mapped
  <2>5. \A p \in Cover(Region) : Writable(p)
    BY <2>1, <2>4 DEF Writable, Mapped, Page, Free
  <2>6. Reached(Region.base, Region.size) = Cover(Region)
    <3>1. ASSUME NEW p \in Cover(Region), NEW t \in Region.base..p PROVE t \in Cover(Region)
      BY <2>1, <3>1 DEF Cover, Span
    <3> QED BY <2>5, <3>1 DEF Reached, Cover
  <2> QED BY <1>1, <2>1, <2>4, <2>6 DEF Write, Fill, Page
<1>6. CASE "w" \in Region.prot
  <2>1. NextRegion /\ silent' = silent \cup {k + 1}
    BY <1>6 DEF FillRegion
  <2>2. Past'
    <3>1. ASSUME NEW i \in silent' \ refused', saved'[i].data PROVE Filled(i, saved[i].prot)'
      <4>1. CASE i = k + 1
        <5>1. Region.prot \cup {"w"} = Region.prot
          BY <1>6
        <5> QED BY <1>2, <1>5, <3>1, <4>1, <5>1 DEF Filled, Region
      <4>2. CASE i \in silent \ refused
        BY <1>2, <1>4, <3>1, <4>2 DEF IInv, Past, Filled
      <4> QED BY <1>2, <2>1, <3>1, <4>1, <4>2
    <3> QED BY <1>2, <3>1 DEF Past
  <2>3. Present'
    BY <2>1 DEF NextRegion, Present
  <2> QED BY <1>2, <2>1, <2>2, <2>3, RegionStep DEF IInv, FillRegion, InRegion, fixed
<1>7. CASE "w" \notin Region.prot
  <2>1. at' = "mprotect" /\ UNCHANGED <<k, silent>>
    BY <1>7 DEF FillRegion
  <2>2. Past'
    BY <1>2, <1>4, <2>1, PastStays
  <2>3. Present'
    BY <1>2, <1>5, <2>1 DEF Present, Filled, Region
  <2> QED BY <1>2, <2>1, <2>2, <2>3, RegionStep DEF IInv, FillRegion, InRegion, fixed
<1> QED BY <1>6, <1>7

LEMMA MprotectStep ==
  ASSUME IInv, MprotectRegion
  PROVE  IInv'
<1>1. PICK ok \in BOOLEAN :
        /\ Mprotect(Region.base, Region.size, Region.prot, ok)
        /\ refused' = IF ok THEN refused ELSE refused \cup {k + 1}
  BY DEF MprotectRegion
<1>2. at = "mprotect" /\ saved' = saved /\ NextRegion /\ silent' = silent \cup {k + 1}
  BY DEF MprotectRegion, fixed
<1>3. k + 1 \in 1..Len(saved) /\ k \in Nat /\ silent \subseteq 1..k /\ saved \in SavedStates
  BY <1>2, KInRange DEF InRegion
<1>4. Past'
  <2>1. ASSUME NEW i \in silent' \ refused', saved[i].data PROVE Filled(i, saved[i].prot)'
    <3>1. CASE i = k + 1
      <4>1. ok /\ k + 1 \notin refused
        BY <1>1, <2>1, <3>1
      <4>2. \A p \in Cover(Region) : space[p] = Page("saved", Region.prot \cup {"w"}) /\ p \in Pages
        BY <1>2, <1>3, <2>1, <3>1, <4>1, RegionFacts DEF IInv, Present, InRegion, Filled, Region
      <4>3. \A p \in Cover(Region) : space'[p] = [space[p] EXCEPT !.prot = Region.prot]
        BY <1>1, <4>1, <4>2 DEF Mprotect, Cover
      <4>4. \A p \in Cover(Region) : space'[p] = Page("saved", Region.prot)
        BY <4>2, <4>3 DEF Page
      <4> QED BY <1>2, <3>1, <4>4 DEF Filled, Region
    <3>2. CASE i \in silent
      <4>1. i \in 1..Len(saved) /\ i # k + 1 /\ i \in silent \ refused
        BY <1>1, <1>3, <2>1, <3>2
      <4>2. \A p \in Cover(saved[i]) : p \in Pages /\ p \notin Cover(Region)
        BY <1>3, <4>1, RegionFacts, Apart DEF Region
      <4>3. \A p \in Cover(saved[i]) : space'[p] = space[p]
        BY <1>1, <4>2 DEF Mprotect, Cover
      <4> QED BY <1>2, <2>1, <4>1, <4>3 DEF IInv, Past, Filled
    <3> QED BY <1>2, <2>1, <3>1, <3>2
  <2> QED BY <1>2, <2>1 DEF Past
<1>5. Present'
  BY <1>2 DEF NextRegion, Present
<1> QED BY <1>2, <1>4, <1>5, RegionStep DEF IInv, MprotectRegion, InRegion, fixed

\* A region is given up, or the svc page is lost: no page changes.
LEMMA GiveUpStep ==
  ASSUME IInv, MmapForbidden \/ RegionFails
  PROVE  IInv'
<1>1. UNCHANGED <<space, saved, silent, refused, fixed, child>> /\ NextRegion /\ at \in InRegion
  BY DEF MmapForbidden, RegionFails, RegionInTrouble, InRegion, fixed
<1>2. Past'
  BY <1>1 DEF IInv, Past, Filled
<1>3. Present'
  BY <1>1 DEF NextRegion, Present
<1> QED BY <1>1, <1>2, <1>3, RegionStep DEF IInv

-----------------------------------------------------------------------------
(* The other steps.                                                         *)

\* Before the regions, nothing has been dealt with.
LEMMA SvcStep ==
  ASSUME IInv, MapSvcRegion \/ FillSvcRegion
  PROVE  IInv'
<1>1. /\ UNCHANGED <<fixed, k, child, silent, refused>> /\ child = "stopped"
      /\ at \in {"svc map", "svc fill"}
      /\ at' \in {"svc fill", "unmap above", "registers", "munmap"}
      /\ at' = "svc fill" => at = "svc map"
      /\ at' = "unmap above" => command = "unmap"
      /\ at' \in {"registers", "munmap"} => command # "unmap"
      /\ (at' = "registers" /\ saved = <<>>) \/ at' # "registers"
      /\ at' = "munmap" => saved # <<>>
  BY DEF MapSvcRegion, FillSvcRegion, fixed
<1>2. k = 0 /\ silent = {} /\ saved \in SavedStates
  <2>1. k = 0 /\ silent \subseteq 1..k /\ saved \in SavedStates
    BY <1>1 DEF IInv, Progress
  <2>2. 1..0 = {}
    OBVIOUS
  <2> QED BY <2>1, <2>2
<1>3. Past' /\ Present'
  BY <1>1, <1>2 DEF Past, Present, InRegion
<1>4. ASSUME at' = "svc fill" PROVE Untouched'
  <2>1. Untouched /\ MapSvcRegion
    BY <1>1, <1>4 DEF IInv, LetGoWell, FillSvcRegion
  <2>2. \A p \in Pages : space[p] # Free => space'[p] = space[p]
    BY <2>1, MmapIsGentle DEF MapSvcRegion
  <2> QED BY <1>1, <2>1, <2>2 DEF Untouched, fixed
<1>5. LetGoWell'
  BY <1>1, <1>4 DEF LetGoWell, HalfWayOnlyIfKilled
<1>6. Progress'
  <2>1. saved \in Seq(RegionType)
    BY <1>2, ThawAssumption
  <2>2. Len(saved) \in Nat /\ (saved # <<>> => 0 < Len(saved)) /\ Len(<<>>) = 0
    BY <2>1
  <2>3. saved' = saved /\ command' = command /\ silent' = {} /\ k' = 0
    BY <1>1, <1>2 DEF fixed
  <2>4. command \in {"thaw", "unmap"}
    BY DEF IInv, Progress
  <2>5. at' \in InRegion => k' < Len(saved')
    BY <1>1, <2>2, <2>3 DEF InRegion
  <2>6. at' \in AfterRegions => k' = Len(saved')
    BY <1>1, <2>2, <2>3 DEF AfterRegions
  <2>7. at' \in InRegion => command' = "thaw"
    BY <1>1, <2>3, <2>4 DEF InRegion
  <2>8. at' = "unmap above" => command' = "unmap"
    BY <1>1, <2>3
  <2>9. k' \in Nat /\ silent' \subseteq 1..k'
    BY <2>3
  <2>10. at' # "unmap below"
    BY <1>1
  <2> QED BY <1>2, <2>3, <2>4, <2>5, <2>6, <2>7, <2>8, <2>9, <2>10 DEF Progress, InRegion, AfterRegions
<1> QED BY <1>3, <1>5, <1>6 DEF IInv

\* No page changes, and at' is not that of a region.
LEMMA Elsewhere ==
  ASSUME IInv, UNCHANGED <<space, saved, command, k, silent, refused>>,
         at' \in {"failed", "lost", "clear", "detach", "wait", "done", "killed"},
         at' \in {"clear", "detach", "wait"} /\ command = "thaw" => at \in AfterRegions
  PROVE  Progress' /\ Past' /\ Present'
<1>1. Progress'
  BY DEF IInv, Progress, InRegion, AfterRegions
<1>2. Past'
  BY DEF IInv, Past, Filled
<1>3. Present'
  BY DEF Present, InRegion
<1> QED BY <1>1, <1>2, <1>3

LEMMA FailStep ==
  ASSUME IInv, SvcFails \/ ClearFails \/ ChildGone
  PROVE  IInv'
<1>1. Fail
  BY DEF SvcFails, ClearFails, ChildGone
<1>2. Progress' /\ Past' /\ Present'
  BY <1>1, Elsewhere DEF Fail, fixed
<1>3. HalfWayOnlyIfKilled'
  <2>1. SUFFICES ASSUME command = "thaw", child' = "running"
                 PROVE  (regs = "saved" /\ k = Len(saved)) \/ Untouched
    BY <1>1 DEF Fail, fixed, HalfWayOnlyIfKilled, Untouched
  <2>2. CASE SvcFails
    BY <2>2 DEF SvcFails, IInv, LetGoWell
  <2>3. CASE ClearFails
    BY <2>1, <2>3 DEF ClearFails, IInv, LetGoWell, Progress, AfterRegions
  <2>4. CASE ChildGone
    BY <2>1, <2>4 DEF ChildGone, Fail
  <2> QED BY <2>2, <2>3, <2>4
<1>4. LetGoWell'
  BY <1>1, <1>3 DEF Fail, fixed, IInv, LetGoWell
<1> QED BY <1>2, <1>4 DEF IInv

LEMMA KilledStep ==
  ASSUME IInv, ClientKilled
  PROVE  IInv'
<1>1. Progress' /\ Past' /\ Present'
  BY Elsewhere DEF ClientKilled, fixed
<1>2. LetGoWell'
  BY DEF ClientKilled, fixed, IInv, LetGoWell, HalfWayOnlyIfKilled
<1> QED BY <1>1, <1>2 DEF IInv

LEMMA LastStep ==
  ASSUME IInv, LosesSvcRegion \/ SetRegisters \/ ClearTerminal \/ Detach \/ WaitForChild
  PROVE  IInv'
<1>1. UNCHANGED <<space, saved, command, layout, k, silent, refused>>
  BY DEF LosesSvcRegion, SetRegisters, ClearTerminal, Detach, WaitForChild, fixed
<1>2. /\ at' \in {"failed", "lost", "clear", "detach", "wait", "done"}
      /\ at' \in {"clear", "detach", "wait"} => at \in AfterRegions
  BY DEF LosesSvcRegion, SetRegisters, ClearTerminal, Detach, WaitForChild, AfterRegions
<1>3. Progress' /\ Past' /\ Present'
  BY <1>1, <1>2, Elsewhere
<1>4. LetGoWell'
  <2>1. CASE LosesSvcRegion \/ WaitForChild
    BY <1>1, <2>1 DEF LosesSvcRegion, WaitForChild, IInv, LetGoWell, HalfWayOnlyIfKilled
  <2>2. CASE SetRegisters \/ ClearTerminal
    BY <1>1, <2>2 DEF SetRegisters, ClearTerminal, IInv, LetGoWell, HalfWayOnlyIfKilled
  <2>3. CASE Detach
    BY <1>1, <2>3 DEF Detach, IInv, LetGoWell, HalfWayOnlyIfKilled, Progress, AfterRegions
  <2> QED BY <2>1, <2>2, <2>3
<1> QED BY <1>3, <1>4 DEF IInv

LEMMA UnmapStep ==
  ASSUME IInv, UnmapAboveVdso \/ UnmapBelowVvar
  PROVE  IInv'
<1>1. /\ UNCHANGED <<fixed, k, child, silent, refused>>
      /\ at \in {"unmap above", "unmap below"} /\ at' \in {"unmap below", "detach"}
      /\ child = "stopped"
  BY DEF UnmapAboveVdso, UnmapBelowVvar, Steerable, Steppable
<1>2. command = "unmap" /\ silent = {}
  BY <1>1 DEF IInv, Progress
<1> QED BY <1>1, <1>2 DEF IInv, Progress, Past, Present, InRegion, AfterRegions, LetGoWell, HalfWayOnlyIfKilled, fixed

LEMMA ChildStep ==
  ASSUME IInv, Dies \/ Continued
  PROVE  IInv'
<1>1. UNCHANGED <<space, fixed, at, k, svc, regs, silent, refused>>
  BY DEF Dies, Continued
<1>2. Progress' /\ Past' /\ Present'
  BY <1>1 DEF fixed, IInv, Progress, Past, Filled, Present, Region
<1>3. LetGoWell'
  <2>1. child' = "dead" \/ (child = "halted" /\ child' = "running")
    BY DEF Dies, Continued
  <2>2. Untouched' = Untouched
    BY <1>1 DEF fixed, Untouched
  <2>3. child = "halted" => command = "unmap" /\ at \in {"failed", "wait", "done", "killed"}
    BY DEF IInv, LetGoWell
  <2> QED BY <1>1, <2>1, <2>2, <2>3 DEF fixed, IInv, LetGoWell, HalfWayOnlyIfKilled
<1> QED BY <1>2, <1>3 DEF IInv

LEMMA NextPreserves == IInv /\ [Next]_vars => IInv'
<1> SUFFICES ASSUME IInv, [Next]_vars PROVE IInv'
    OBVIOUS
<1>1. CASE UNCHANGED vars
  BY <1>1 DEF vars, fixed, IInv, Progress, Past, Filled, Present, Region, LetGoWell, Untouched, HalfWayOnlyIfKilled
<1>2. CASE Client
  BY <1>2, SvcStep, FailStep, MunmapStep, MmapStep, GiveUpStep, FillStep, MprotectStep, LastStep, UnmapStep
     DEF Client
<1>3. CASE Dies \/ Continued \/ ClientKilled
  BY <1>3, ChildStep, KilledStep
<1> QED BY <1>1, <1>2, <1>3 DEF Next

-----------------------------------------------------------------------------

THEOREM Invariance == Spec => []IInv
<1> QED BY InitHolds, NextPreserves, PTL DEF Spec

\* A region of which no error was printed, and whose munmap and mprotect have
\* succeeded, is in its place when the child starts (pcontroller.rs 397-464).
THEOREM InPlace == Spec => []RegionsInPlace
<1>1. IInv => RegionsInPlace
  BY DEF IInv, Past, Filled, RegionsInPlace
<1> QED BY <1>1, Invariance, PTL

\* The child is let go between its own state and the saved one only if the client
\* is killed (cryogenics.rs 49-70).
THEOREM HalfWayForAReason == Spec => []HalfWayOnlyIfKilled
<1>1. IInv => HalfWayOnlyIfKilled
  BY DEF IInv, LetGoWell
<1> QED BY <1>1, Invariance, PTL
-----------------------------------------------------------------------------
(* unmap-child: what its two calls leave.  Independent of the above.        *)

OfUnmap == {"svc map", "svc fill", "unmap above", "unmap below", "detach", "wait", "done", "failed", "killed",
            "lost"}

Foot ==
  /\ layout \in Layouts
  /\ command = "unmap" =>
       /\ at \in OfUnmap
       /\ at = "svc map" => space = layout.space
       /\ at \in {"svc fill", "unmap above", "unmap below", "detach", "wait"} =>
            /\ svc \in Nat /\ layout.vdso < svc
            /\ Mapped(layout.vvar) /\ Mapped(layout.vdso)
       /\ at \in {"detach", "wait"} => Mapped(svc)

Above == {ss \in Nat \X Nat : ss[1] < ss[2]}

LEMMA AboveIsWellFounded == IsWellFoundedOn(Above, Nat)
  BY NatLessThanWellFounded, Zenon DEF OpToRel, Above

\* A set of natural numbers with a bound has a greatest element.
LEMMA MaxExists ==
  ASSUME NEW T \in SUBSET Nat, T # {}, NEW b \in Nat, \A x \in T : x <= b
  PROVE  Max(T) \in T /\ \A x \in T : x <= Max(T)
<1> DEFINE B == {m \in Nat : \A x \in T : x <= m}
<1>1. B # {} /\ B \subseteq Nat
  OBVIOUS
<1>2. PICK m \in B : \A l \in B : <<l, m>> \notin Above
  <2> HIDE DEF B
  <2> QED BY <1>1, AboveIsWellFounded, WFMin
<1>3. m \in T
  <2> SUFFICES ASSUME m \notin T PROVE FALSE
      OBVIOUS
  <2>1. \A x \in T : x < m
    BY <1>2
  <2>4. m \in Nat /\ m > 0
    <3>1. PICK x \in T : x \in Nat /\ x < m
      BY <2>1
    <3>2. m \in Nat
      BY <1>2
    <3> QED BY <3>1, <3>2
  <2>2. m - 1 \in B
    BY <2>1, <2>4
  <2>3. <<m - 1, m>> \in Above
    BY <1>2, <2>2 DEF Above
  <2> QED BY <1>2, <2>2, <2>3
<1> QED BY <1>2, <1>3 DEF Max

LEMMA SvcIsAbove ==
  ASSUME layout \in Layouts, space = layout.space
  PROVE  Highest + 1 \in Nat /\ layout.vdso < Highest + 1
<1>1. layout.vdso \in Pages /\ Mapped(layout.vdso)
  BY ThawAssumption DEF Mapped
<1> DEFINE T == {p + 1 : p \in {q \in Pages : Mapped(q)}}
<1>2. T \in SUBSET Nat /\ layout.vdso + 1 \in T /\ \A x \in T : x <= NPages
  BY <1>1, AddressSpaceAssumption DEF Pages
<1>3. Max(T) \in T /\ layout.vdso + 1 <= Max(T)
  <2> HIDE DEF T
  <2> QED BY <1>2, MaxExists, AddressSpaceAssumption
<1>4. Highest = Max(T)
  BY DEF Highest
<1>5. layout.vdso \in Nat
  BY <1>1, AddressSpaceAssumption DEF Pages
<1> HIDE DEF T
<1>6. Max(T) \in Nat
  BY <1>2, <1>3
<1>7. Highest \in Nat /\ layout.vdso + 1 <= Highest
  BY <1>3, <1>4, <1>6, Zenon
<1> QED BY <1>5, <1>7

\* Pages below a range, and above one that begins at 0.
LEMMA Below ==
  ASSUME NEW base \in Nat, NEW size \in Nat, NEW p \in Nat, p < base
  PROVE  p \notin Span(base, size) /\ p \notin Reached(base, size)
<1>1. p \notin Span(base, size)
  BY DEF Span
<1> QED BY <1>1 DEF Reached

LEMMA Beyond ==
  ASSUME NEW size \in Nat, NEW p \in Nat, size <= p
  PROVE  p \notin Span(0, size)
BY DEF Span

LEMMA FootHolds == Init => Foot
  BY DEF Init, Foot, OfUnmap

LEMMA FootStays == Foot /\ [Next]_vars => Foot'
<1> SUFFICES ASSUME Foot, [Next]_vars PROVE Foot'
    OBVIOUS
<1>1. UNCHANGED fixed
  BY DEF Next, vars, fixed, Client, MapSvcRegion, FillSvcRegion, SvcFails, Fail, MunmapRegion, MmapRegion,
     MmapForbidden, FillRegion, MprotectRegion, RegionFails, LosesSvcRegion, SetRegisters,
     ClearTerminal, ClearFails, Detach, WaitForChild, ChildGone, UnmapAboveVdso, UnmapBelowVvar,
     Dies, Continued, ClientKilled
<1>2. layout' = layout /\ command' = command /\ layout \in Layouts
  BY <1>1 DEF fixed, Foot
<1>3. CASE command # "unmap"
  BY <1>2, <1>3 DEF Foot
<1>4. CASE command = "unmap"
  <2> DEFINE vvar == layout.vvar
             vdso == layout.vdso
  <2>1. vvar \in Nat /\ vdso \in Nat /\ vvar < vdso /\ vvar \in Pages /\ vdso \in Pages
    BY <1>2, ThawAssumption, AddressSpaceAssumption DEF Pages
  <2>2. at \in OfUnmap
    BY <1>4 DEF Foot
  <2>3. CASE MapSvcRegion
    <3>1. svc' \in Nat /\ vdso < svc' /\ at' = "svc fill" /\ Mapped(vvar) /\ Mapped(vdso)
      BY <1>2, <1>4, <2>1, <2>3, SvcIsAbove, ThawAssumption DEF Foot, MapSvcRegion, Mapped
    <3>2. space'[vvar] = space[vvar] /\ space'[vdso] = space[vdso]
      BY <2>1, <2>3, <3>1, MmapIsGentle DEF MapSvcRegion, Mapped
    <3> QED BY <1>2, <1>4, <3>1, <3>2 DEF Foot, OfUnmap, Mapped
  <2>4. CASE FillSvcRegion
    <3>1. svc' = svc /\ svc \in Nat /\ vdso < svc /\ at' = "unmap above" /\ Mapped(vvar) /\ Mapped(vdso)
      BY <1>4, <2>4 DEF Foot, FillSvcRegion
    <3>2. vvar \notin Reached(svc, 1) /\ vdso \notin Reached(svc, 1)
      <4>1. vvar < svc
        <5>1. \A a, b, c \in Nat : a < b /\ b < c => a < c
          OBVIOUS
        <5> QED BY <2>1, <3>1, <5>1
      <4> QED BY <2>1, <3>1, <4>1, Below
    <3>3. space'[vvar] = space[vvar] /\ space'[vdso] = space[vdso]
      BY <2>1, <2>4, <3>2 DEF FillSvcRegion, Write, Fill
    <3> QED BY <1>2, <1>4, <3>1, <3>3 DEF Foot, OfUnmap, Mapped
  <2>5. CASE UnmapAboveVdso
    <3>1. svc' = svc /\ svc \in Nat /\ vdso < svc /\ at' = "unmap below" /\ Mapped(vvar) /\ Mapped(vdso)
      BY <1>4, <2>5 DEF Foot, UnmapAboveVdso
    <3>2. vvar \notin Span(vdso + 1, svc) /\ vdso \notin Span(vdso + 1, svc)
      <4>1. vdso + 1 \in Nat /\ vvar < vdso + 1 /\ vdso < vdso + 1
        BY <2>1
      <4> QED BY <2>1, <3>1, <4>1, Below
    <3>3. space'[vvar] = space[vvar] /\ space'[vdso] = space[vdso]
      <4>1. UNCHANGED space \/ Set(Span(vdso + 1, svc), Free)
        BY <2>5 DEF UnmapAboveVdso, Munmap
      <4> QED BY <2>1, <3>2, <4>1 DEF Set
    <3> QED BY <1>2, <1>4, <3>1, <3>3 DEF Foot, OfUnmap, Mapped
  <2>6. CASE UnmapBelowVvar
    <3>1. svc' = svc /\ svc \in Nat /\ vdso < svc /\ at' = "detach" /\ Mapped(vvar) /\ Mapped(vdso)
      BY <1>4, <2>6 DEF Foot, UnmapBelowVvar
    <3>2. Mapped(svc)
      <4>1. Steerable
        BY <2>6 DEF UnmapBelowVvar
      <4> QED BY <4>1 DEF Steerable, Steppable, Mapped, Page, Free
    <3>3. \A p \in {vvar, vdso, svc} : p \notin Span(0, vvar)
      <4>1. vvar <= vdso /\ vvar <= svc
        BY <2>1, <3>1
      <4> QED BY <2>1, <3>1, <4>1, Beyond
    <3>4. \A p \in {vvar, vdso, svc} : space'[p] = space[p]
      <4>1. UNCHANGED space \/ Set(Span(0, vvar), Free)
        BY <2>6 DEF UnmapBelowVvar, Munmap
      <4> QED BY <2>1, <3>2, <3>3, <4>1 DEF Set, Mapped
    <3> QED BY <1>2, <1>4, <3>1, <3>2, <3>4 DEF Foot, OfUnmap, Mapped
  <2>7. CASE SvcFails \/ LosesSvcRegion \/ ClearFails \/ ChildGone \/ ClientKilled
    <3>1. at' \in {"failed", "lost", "killed"}
      BY <2>7 DEF ClientKilled, SvcFails, LosesSvcRegion, ClearFails, ChildGone, Fail
    <3> QED BY <1>2, <1>4, <3>1 DEF Foot, OfUnmap
  <2>8. CASE Detach \/ WaitForChild \/ Dies \/ Continued \/ UNCHANGED vars
    <3>1. UNCHANGED <<space, svc>> /\ (at' = at \/ at' = "done" \/ (at = "detach" /\ at' = "wait"))
      BY <2>8 DEF Detach, WaitForChild, Dies, Continued, vars
    <3> QED BY <1>2, <1>4, <3>1 DEF Foot, OfUnmap, Mapped
  <2>9. ~(MunmapRegion \/ MmapRegion \/ MmapForbidden \/ FillRegion \/ MprotectRegion \/ RegionFails
          \/ SetRegisters \/ ClearTerminal)
    BY <2>2 DEF OfUnmap, MunmapRegion, MmapRegion, MmapForbidden, FillRegion, MprotectRegion, RegionFails,
       RegionInTrouble, SetRegisters, ClearTerminal
  <2> QED BY <2>3, <2>4, <2>5, <2>6, <2>7, <2>8, <2>9 DEF Next, Client
<1> QED BY <1>3, <1>4

\* unmap-child lets no child go without [vvar], [vdso] and the svc page
\* (pcontroller.rs 348-372).
THEOREM FootingKept == Spec => []KeepsItsFooting
<1>1. Foot => KeepsItsFooting
  BY DEF Foot, KeepsItsFooting
<1> QED BY <1>1, FootHolds, FootStays, PTL DEF Spec

-----------------------------------------------------------------------------
(* The page that the calls come from, and how many calls there are.         *)

HasSvc == svc \in Pages /\ space[svc] = Page("svc", Rwx)

\* The child can be stepped through the next call, or there is a reason.
Rooted ==
  /\ layout \in Layouts
  /\ at = "svc map" => space = layout.space
  /\ at = "svc fill" => svc \in Nat /\ (Mapped(svc) => space[svc] = Page("zero", Rwx))
  /\ at \in InRegion => HasSvc \/ Covered
  /\ at = "unmap above" => HasSvc
  /\ at = "unmap below" => HasSvc \/ SawsItsBranch
  /\ at = "lost" => SawsItsBranch

\* How many calls can follow: four for each region, and some before and after.
Rest ==
  IF at \in InRegion THEN Len(saved) - k ELSE IF at \in {"svc map", "svc fill"} THEN Len(saved) + 1 ELSE 0

Stage ==
  CASE at \in {"munmap", "registers", "unmap above"} -> 4
    [] at \in {"mmap", "clear", "unmap below"}       -> 3
    [] at \in {"fill", "detach", "svc map"}          -> 2
    [] at \in {"mprotect", "wait", "svc fill"}       -> 1
    [] OTHER                                         -> 0

CallsLeft == 4 * Rest + Stage

\* The client steps for ever only if the page its calls come from was covered by
\* a region of the state, or unmapped by the first call of unmap-child
\* (pcontroller.rs 285, 355).
LostNeedsCause == at = "lost" => SawsItsBranch

\* Every call leaves fewer, and what happens to the child leaves as many; a
\* client that is killed makes none.
ThawGoesOn ==
  /\ Client => CallsLeft' < CallsLeft
  /\ ~Client => CallsLeft' = IF at' = at THEN CallsLeft ELSE 0

\* The page above the highest one of the child is free.
LEMMA SvcIsFree ==
  ASSUME layout \in Layouts, space = layout.space
  PROVE  ~Mapped(Highest + 1)
<1>1. layout.vdso \in Pages /\ Mapped(layout.vdso)
  BY ThawAssumption DEF Mapped
<1> DEFINE T == {p + 1 : p \in {q \in Pages : Mapped(q)}}
<1>2. T \in SUBSET Nat /\ layout.vdso + 1 \in T /\ \A x \in T : x <= NPages
  BY <1>1, AddressSpaceAssumption DEF Pages
<1>3. \A x \in T : x <= Max(T)
  <2> HIDE DEF T
  <2> QED BY <1>2, MaxExists, AddressSpaceAssumption
<1>4. Highest = Max(T) /\ Highest + 1 \in Nat
  BY SvcIsAbove DEF Highest
<1>5. ASSUME Mapped(Highest + 1) PROVE FALSE
  <2>1. (Highest + 1) + 1 \in T
    BY <1>5 DEF Mapped
  <2>2. (Highest + 1) + 1 <= Highest
    BY <1>3, <1>4, <2>1, Zenon
  <2>3. Highest \in Nat
    <3>1. Highest \in T
      <4> HIDE DEF T
      <4> QED BY <1>2, <1>4, MaxExists, AddressSpaceAssumption
    <3> QED BY <1>2, <3>1
  <2> QED BY <2>2, <2>3
<1> QED BY <1>5

LEMMA RootedStays == IInv /\ Rooted /\ [Next]_vars => Rooted'
<1> SUFFICES ASSUME IInv, Rooted, [Next]_vars PROVE Rooted'
    OBVIOUS
<1>1. UNCHANGED fixed
  BY DEF Next, vars, fixed, Client, MapSvcRegion, FillSvcRegion, SvcFails, Fail, MunmapRegion, MmapRegion,
     MmapForbidden, FillRegion, MprotectRegion, RegionFails, LosesSvcRegion, SetRegisters,
     ClearTerminal, ClearFails, Detach, WaitForChild, ChildGone, UnmapAboveVdso, UnmapBelowVvar,
     Dies, Continued, ClientKilled
<1>2. /\ layout' = layout /\ command' = command /\ saved' = saved /\ layout \in Layouts
      /\ at \in InRegion => command = "thaw" /\ k + 1 \in DOMAIN saved
      /\ at \in {"unmap above", "unmap below"} => command = "unmap"
  <2>1. at \in InRegion => k + 1 \in DOMAIN saved
    <3>1. saved \in SavedStates
      BY DEF IInv, Progress
    <3>2. saved \in Seq(RegionType)
      BY <3>1, ThawAssumption
    <3> QED BY <3>2, KInRange
  <2> QED BY <1>1, <2>1 DEF fixed, IInv, Progress, Rooted
<1>3. Covered' = Covered \/ svc' # svc
  BY <1>2 DEF Covered, Cover
<1>4. CASE MapSvcRegion
  <2>1. svc' = Highest + 1 /\ at' = "svc fill" /\ at = "svc map" /\ space = layout.space
    BY <1>4 DEF MapSvcRegion, Rooted
  <2>2. ~Mapped(svc') /\ svc' \in Nat
    BY <1>2, <2>1, SvcIsFree, SvcIsAbove
  <2>3. Mapped(svc)' => space'[svc'] = Page("zero", Rwx)
    <3>1. CASE UNCHANGED space
      BY <2>2, <3>1 DEF Mapped
    <3>2. ASSUME NEW there \in Pages, Mmap(Highest + 1, 1, Rwx, there) PROVE Mapped(svc)' => space'[svc'] = Page("zero", Rwx)
      <4>1. \A p \in Pages : space'[p] = IF p \in Span(there, 1) THEN Page("zero", Rwx) ELSE space[p]
        BY <3>2 DEF Mmap, Set
      <4> QED BY <2>2, <4>1 DEF Mapped
    <3> QED BY <1>4, <3>1, <3>2 DEF MapSvcRegion
  <2> QED BY <1>2, <2>1, <2>2, <2>3 DEF Rooted, InRegion
<1>5. CASE FillSvcRegion
  <2>1. /\ at = "svc fill" /\ svc' = svc /\ svc \in Nat /\ Reached(svc, 1) # {} /\ Write(svc, 1, "svc")
        /\ at' \in {"unmap above", "registers", "munmap"} /\ (Mapped(svc) => space[svc] = Page("zero", Rwx))
    BY <1>5 DEF FillSvcRegion, Rooted
  <2>2. svc \in Reached(svc, 1) /\ Writable(svc)
    <3>1. \A c \in Nat : Span(c, 1) = {c} /\ c \in c..c
      BY DEF Span
    <3> QED BY <2>1, <3>1 DEF Reached
  <2>3. svc \in Pages /\ space'[svc] = Page("svc", Rwx)
    <3>1. svc \in Pages /\ space[svc] = Page("zero", Rwx)
      BY <2>1, <2>2 DEF Writable, Mapped
    <3>2. space'[svc] = [space[svc] EXCEPT !.data = "svc"]
      BY <2>1, <2>2, <3>1 DEF Write, Fill
    <3>3. [Page("zero", Rwx) EXCEPT !.data = "svc"] = Page("svc", Rwx)
      BY DEF Page
    <3> QED BY <3>1, <3>2, <3>3
  <2>4. HasSvc'
    BY <2>1, <2>3 DEF HasSvc
  <2> QED BY <1>2, <2>1, <2>4 DEF Rooted, InRegion
<1>6. CASE MunmapRegion \/ MmapRegion \/ MmapForbidden \/ FillRegion \/ MprotectRegion \/ RegionFails
  <2>1. at \in InRegion /\ svc' = svc /\ at' \in InRegion \cup {"registers"}
    BY <1>6 DEF MunmapRegion, MmapRegion, MmapForbidden, FillRegion, MprotectRegion, RegionFails,
                RegionInTrouble, NextRegion, InRegion
  <2>2. ASSUME HasSvc, ~Covered PROVE space'[svc] = space[svc]
    <3>1. k + 1 \in DOMAIN saved
      BY <1>2, <2>1
    <3>2. svc \notin Cover(Region) /\ svc \in Pages /\ space[svc] # Free
      BY <2>2, <3>1 DEF HasSvc, Covered, Region, Page, Free
    <3>3. CASE MmapRegion
      BY <3>2, <3>3, MmapIsGentle DEF MmapRegion
    <3>4. CASE MmapForbidden \/ RegionFails
      BY <3>4 DEF MmapForbidden, RegionFails
    <3>5. CASE MunmapRegion
      BY <3>2, <3>5 DEF MunmapRegion, Munmap, Set, Cover
    <3>6. CASE MprotectRegion
      BY <3>2, <3>6 DEF MprotectRegion, Mprotect, Cover
    <3>7. CASE FillRegion
      BY <3>2, <3>7 DEF FillRegion, Write, Fill, Reached, Cover
    <3> QED BY <1>6, <3>3, <3>4, <3>5, <3>6, <3>7
  <2>3. (HasSvc \/ Covered)'
    BY <1>3, <2>1, <2>2 DEF Rooted, HasSvc
  <2> QED BY <1>2, <2>1, <2>3 DEF Rooted, InRegion
<1>7. CASE LosesSvcRegion
  <2>1. at' = "lost" /\ svc' = svc /\ ~HasSvc
    <3>1. Page("svc", Rwx).prot = Rwx /\ "x" \in Rwx
      BY DEF Page, Rwx
    <3>2. HasSvc /\ child = "stopped" => Steerable
      BY <3>1 DEF Steerable, Steppable, HasSvc
    <3> QED BY <1>7, <3>2 DEF LosesSvcRegion
  <2>2. SawsItsBranch
    BY <1>2, <1>7, <2>1 DEF LosesSvcRegion, Rooted, InRegion, SawsItsBranch
  <2>3. SawsItsBranch'
    BY <1>2, <2>1, <2>2 DEF SawsItsBranch, Covered, Cover
  <2> QED BY <1>2, <2>1, <2>3 DEF Rooted, InRegion
<1>8. CASE UnmapAboveVdso
  <2>1. at = "unmap above" /\ at' = "unmap below" /\ svc' = svc /\ HasSvc /\ command = "unmap"
    BY <1>2, <1>8 DEF UnmapAboveVdso, Rooted
  <2>2. SawsItsBranch' = (layout.vdso + 1 + svc <= NPages)
    BY <1>2, <2>1 DEF SawsItsBranch
  <2>3. CASE UNCHANGED space
    BY <1>2, <2>1, <2>3 DEF Rooted, InRegion, HasSvc
  <2>4. CASE Fits(layout.vdso + 1, svc)
    BY <1>2, <2>1, <2>2, <2>4 DEF Rooted, InRegion, Fits
  <2> QED BY <1>8, <2>3, <2>4 DEF UnmapAboveVdso, Munmap
<1>9. CASE SvcFails \/ SetRegisters \/ ClearTerminal \/ ClearFails \/ Detach \/ WaitForChild \/ ChildGone
             \/ UnmapBelowVvar \/ ClientKilled
  <2>1. at' \in {"failed", "clear", "detach", "wait", "done", "killed"}
    BY <1>9 DEF ClientKilled, SvcFails, SetRegisters, ClearTerminal, ClearFails, Detach, WaitForChild, ChildGone,
       UnmapBelowVvar, Fail
  <2> QED BY <1>2, <2>1 DEF Rooted, InRegion
<1>10. CASE Dies \/ Continued \/ UNCHANGED vars
  <2>1. UNCHANGED <<space, layout, saved, command, at, svc>>
    BY <1>10 DEF Dies, Continued, vars, fixed
  <2> QED BY <2>1 DEF Rooted, HasSvc, Covered, Cover, SawsItsBranch, Mapped
<1> QED BY <1>4, <1>5, <1>6, <1>7, <1>8, <1>9, <1>10 DEF Next, Client

\* The client gets lost only if a region of the state covers the svc page, or
\* unmap-child unmaps it (pcontroller.rs 285, 355).
THEOREM LostForAReason == Spec => []LostNeedsCause
<1>1. Init => Rooted
  BY DEF Init, Rooted, InRegion
<1>2. Rooted => LostNeedsCause
  BY DEF Rooted, LostNeedsCause
<1> QED BY <1>1, <1>2, RootedStays, Invariance, PTL DEF Spec

\* What there is to count.
CallsLeftTyped == Rest \in Nat /\ Stage \in 0..4 /\ CallsLeft \in Nat

LEMMA Lexicographic ==
  ASSUME NEW r \in Nat, NEW q \in Nat, NEW s \in 1..4, NEW u \in 0..4, q < r \/ (q = r /\ u < s)
  PROVE  4 * q + u < 4 * r + s
BY SMT

LEMMA CallsLeftType == IInv => CallsLeftTyped
<1> SUFFICES ASSUME IInv PROVE CallsLeftTyped
    OBVIOUS
<1>1. saved \in SavedStates /\ k \in Nat /\ (at \in InRegion => k < Len(saved))
  BY DEF IInv, Progress
<1>2. saved \in Seq(RegionType)
  BY <1>1, ThawAssumption
<1>3. Len(saved) \in Nat
  BY <1>2
<1>4. at \in InRegion => Len(saved) - k \in Nat
  BY <1>1, <1>3
<1>5. Rest \in Nat
  <2>1. Rest \in {Len(saved) + 1, 0} \/ (at \in InRegion /\ Rest = Len(saved) - k)
    BY Zenon DEF Rest
  <2>2. Len(saved) + 1 \in Nat /\ 0 \in Nat
    BY <1>3
  <2> QED BY <1>4, <2>1, <2>2
<1>6. Stage \in 0..4
  BY DEF Stage
<1> QED BY <1>5, <1>6 DEF CallsLeft, CallsLeftTyped

LEMMA ClientGoesOn ==
  ASSUME IInv, CallsLeftTyped, CallsLeftTyped', Client
  PROVE  CallsLeft' < CallsLeft
<1>1. /\ saved \in SavedStates /\ k \in Nat /\ (at \in InRegion => k < Len(saved))
      /\ (at \in {"svc map", "svc fill"} => k = 0)
  BY DEF IInv, Progress
<1>2. saved \in Seq(RegionType)
  BY <1>1, ThawAssumption
<1>3. Len(saved) \in Nat /\ Rest \in Nat /\ Stage \in 0..4
  BY <1>2 DEF CallsLeftTyped
<1>4. Rest' \in Nat /\ Stage' \in 0..4
  BY DEF CallsLeftTyped
<1>5. saved' = saved
  BY DEF fixed, Client, MapSvcRegion, FillSvcRegion, SvcFails, Fail, MunmapRegion, MmapRegion,
     MmapForbidden, FillRegion, MprotectRegion, RegionFails, LosesSvcRegion, SetRegisters,
     ClearTerminal, ClearFails, Detach, WaitForChild, ChildGone, UnmapAboveVdso, UnmapBelowVvar
<1>6. Stage \in 1..4
  <2>1. at \in InRegion \cup {"svc map", "svc fill", "registers", "clear", "detach", "wait", "unmap above", "unmap below"}
    BY DEF Client, MapSvcRegion, FillSvcRegion, SvcFails, Fail, MunmapRegion, MmapRegion,
       MmapForbidden, FillRegion, MprotectRegion, RegionFails, RegionInTrouble, LosesSvcRegion, SetRegisters,
       ClearTerminal, ClearFails, Detach, WaitForChild, ChildGone, UnmapAboveVdso, UnmapBelowVvar, InRegion
  <2>2. Stage \in {1, 2, 3, 4}
    BY <2>1 DEF Stage, InRegion
  <2> QED BY <2>2
<1>7. (Rest' = Rest /\ Stage' < Stage) \/ Rest' < Rest => CallsLeft' < CallsLeft
  BY <1>3, <1>4, <1>6, Lexicographic DEF CallsLeft
<1>8. CASE at' \in {"failed", "lost", "done"}
  <2>1. Rest' = 0 /\ Stage' = 0
    BY <1>8 DEF Rest, Stage, InRegion
  <2> QED BY <1>3, <1>6, <1>7, <2>1
<1>9. CASE NextRegion /\ at \in InRegion
  <2>1. k' = k + 1 /\ k < Len(saved) /\ at' = IF k + 1 = Len(saved) THEN "registers" ELSE "munmap"
    BY <1>1, <1>9 DEF NextRegion
  <2>2. Rest = Len(saved) - k
    BY <1>9, Zenon DEF Rest
  <2>3. Rest' = IF k + 1 = Len(saved) THEN 0 ELSE Len(saved) - (k + 1)
    BY <1>5, <2>1 DEF Rest, InRegion
  <2>4. Rest' < Rest
    <3>1. \A l, m \in Nat : m < l => l - (m + 1) < l - m /\ 0 < l - m
      OBVIOUS
    <3>2. Len(saved) - (k + 1) < Len(saved) - k /\ 0 < Len(saved) - k
      BY <1>1, <1>3, <2>1, <3>1
    <3> QED BY <2>2, <2>3, <3>2
  <2> QED BY <1>7, <2>4
<1>10. CASE \/ at = "munmap" /\ at' = "mmap" /\ k' = k
            \/ at = "mmap" /\ at' = "fill" /\ k' = k
            \/ at = "fill" /\ at' = "mprotect" /\ k' = k
  <2>1. Rest' = Rest
    BY <1>5, <1>10 DEF Rest, InRegion
  <2>2. Stage' < Stage
    <3>1. (Stage = 4 /\ Stage' = 3) \/ (Stage = 3 /\ Stage' = 2) \/ (Stage = 2 /\ Stage' = 1)
      BY <1>10 DEF Stage
    <3> QED BY <3>1
  <2> QED BY <1>7, <2>1, <2>2
<1>11. CASE at = "svc map" /\ at' = "svc fill"
  <2>1. Rest' = Rest
    BY <1>5, <1>11 DEF Rest, InRegion
  <2>2. Stage' < Stage
    <3>1. Stage = 2 /\ Stage' = 1
      BY <1>11 DEF Stage
    <3> QED BY <3>1
  <2> QED BY <1>7, <2>1, <2>2
<1>12. CASE FillSvcRegion
  <2>1. k' = 0 /\ at = "svc fill" /\ at' \in {"unmap above", "registers", "munmap"}
    BY <1>1, <1>12 DEF FillSvcRegion
  <2>2. Rest = Len(saved) + 1 /\ (Rest' = 0 \/ Rest' = Len(saved) - 0)
    BY <1>5, <2>1 DEF Rest, InRegion
  <2>3. Rest' < Rest
    BY <1>3, <2>2
  <2> QED BY <1>7, <2>3
<1>13. CASE \/ at = "registers" /\ at' = "clear"
            \/ at = "unmap above" /\ at' = "unmap below"
            \/ at \in {"clear", "unmap below"} /\ at' = "detach"
            \/ at = "detach" /\ at' = "wait"
  <2>1. Rest' = Rest
    BY <1>13 DEF Rest, InRegion
  <2>2. Stage' < Stage
    <3>1. (Stage = 4 /\ Stage' = 3) \/ (Stage = 3 /\ Stage' = 2) \/ (Stage = 2 /\ Stage' = 1)
      BY <1>13 DEF Stage
    <3> QED BY <3>1
  <2> QED BY <1>7, <2>1, <2>2
<1>14. \/ at' \in {"failed", "lost", "done"}
       \/ NextRegion /\ at \in InRegion
       \/ at = "munmap" /\ at' = "mmap" /\ k' = k
       \/ at = "mmap" /\ at' = "fill" /\ k' = k
       \/ at = "fill" /\ at' = "mprotect" /\ k' = k
       \/ at = "svc map" /\ at' = "svc fill"
       \/ FillSvcRegion
       \/ at = "registers" /\ at' = "clear"
       \/ at = "unmap above" /\ at' = "unmap below"
       \/ at \in {"clear", "unmap below"} /\ at' = "detach"
       \/ at = "detach" /\ at' = "wait"
  BY DEF Client, MapSvcRegion, SvcFails, Fail, MunmapRegion, MmapRegion,
     MmapForbidden, FillRegion, MprotectRegion, RegionFails, RegionInTrouble, LosesSvcRegion, SetRegisters,
     ClearTerminal, ClearFails, Detach, WaitForChild, ChildGone, UnmapAboveVdso, UnmapBelowVvar, InRegion
<1> QED BY <1>8, <1>9, <1>10, <1>11, <1>12, <1>13, <1>14

\* Every call of the client brings it nearer to its end, whatever it fails at and
\* whatever happens to the child: the safety half of ClientEnds.
THEOREM ThawGetsNearer == Spec => [](CallsLeft \in Nat) /\ [][ThawGoesOn]_vars
<1>1. IInv /\ CallsLeftTyped /\ CallsLeftTyped' /\ [Next]_vars => [ThawGoesOn]_vars
  <2> SUFFICES ASSUME IInv, CallsLeftTyped, CallsLeftTyped', Next PROVE ThawGoesOn
      BY DEF ThawGoesOn
  <2>1. Client => CallsLeft' < CallsLeft
    BY ClientGoesOn
  <2>2. Dies \/ Continued => CallsLeft' = CallsLeft /\ at' = at
    BY DEF Dies, Continued, CallsLeft, Rest, Stage, fixed
  <2>3. ClientKilled => CallsLeft' = 0 /\ at' # at
    <3>1. ClientKilled => Rest' = 0 /\ Stage' = 0 /\ at' # at
      BY DEF ClientKilled, Rest, Stage, InRegion
    <3> QED BY <3>1 DEF CallsLeft
  <2> QED BY <2>1, <2>2, <2>3 DEF Next, ThawGoesOn
<1>2. CallsLeftTyped => CallsLeft \in Nat
  BY DEF CallsLeftTyped
<1> QED BY <1>1, <1>2, CallsLeftType, Invariance, PTL DEF Spec

=============================================================================

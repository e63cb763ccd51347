---------------------------- MODULE SpawnProofs -----------------------------
(***************************************************************************)
(* What a telefork request needs to succeed, and that one which does is    *)
(* answered once, for any request, server, and size of address space.      *)
(***************************************************************************)
EXTENDS Spawn, TLAPS

InKept(p) == \E i \in kept : p \in Span(layout.maps[i].base, layout.maps[i].size)

\* The handler has not yet made a call at the saved pc.
NotMapping == at \in {"wait", "unmap", "gp", "fp"} \/ (at = "map" /\ k = 0)
Over == at \in {"detach", "answered"}

Shape ==
  /\ layout \in Layouts
  /\ k \in Nat
  /\ at \in {"wait", "unmap", "gp", "fp", "map", "fill", "detach", "answered"}
  /\ kept \subseteq DOMAIN layout.maps
  /\ result \in {"Ok", "Err"}
  /\ at \in {"wait", "gp", "fp"} => k = 0

\* What is still mapped is in a map that was kept, up to the first call made at
\* the saved pc; from then on, if there is one, that page is.
PagesKept ==
  /\ NotMapping => \A p \in Pages : Mapped(p) => InKept(p)
  /\ ~NotMapping /\ (Over => result = "Ok" /\ request.regions # <<>>) => InKept(request.pc)

\* From set_registers on the child does not know of its own code.
RegistersSaved ==
  /\ at \in {"fp", "map", "fill"} => regs = "saved"
  /\ Over /\ result = "Ok" => regs = "saved"

ChildAnswered == \E a \in {"success", "failure"} : <<"child", a>> \in answers

Answers ==
  /\ Success => at = "answered" /\ result = "Ok"
  /\ child = "forked" => at = "wait"
  /\ child \in {"running", "halted"} => at \in {"wait", "answered"}
  /\ ChildAnswered => (at = "wait" /\ child \in {"running", "dead"}) \/ result = "Err"

IInv == Shape /\ PagesKept /\ RegistersSaved /\ Answers

-----------------------------------------------------------------------------

LEMMA InitHolds == Init => IInv
<1> SUFFICES ASSUME Init PROVE IInv
    OBVIOUS
<1>1. Shape
  BY SpawnAssumption DEF Init, Shape
<1>2. PagesKept
  BY SpawnAssumption DEF Init, PagesKept, NotMapping, Over, InKept, Mapped
<1>3. RegistersSaved /\ Answers
  BY DEF Init, RegistersSaved, Answers, Over, Success, ChildAnswered
<1> QED BY <1>1, <1>2, <1>3 DEF IInv

-----------------------------------------------------------------------------

\* The steps that move no memory, map or register.
LEMMA ChildSteps ==
  ASSUME IInv, Traceme \/ TracemeFails \/ Continued \/ Returns \/ Dies
  PROVE  IInv'
<1> USE DEF fixed
<1>1. UNCHANGED <<space, fixed, at, k, regs, fp, kept, result>>
  BY DEF Traceme, TracemeFails, Continued, Returns, Dies
<1>2. Shape' /\ PagesKept' /\ RegistersSaved'
  BY <1>1 DEF IInv, Shape, PagesKept, RegistersSaved, NotMapping, Over, InKept, Mapped
<1>3. Answers'
  <2>1. (Success => at = "answered" /\ result = "Ok")'
    BY <1>1 DEF IInv, Answers, Success, Traceme, TracemeFails, Continued, Returns, Dies
  <2>2. CASE Traceme
    BY <1>1, <2>1, <2>2 DEF IInv, Answers, ChildAnswered, Traceme
  <2>3. CASE TracemeFails
    BY <1>1, <2>1, <2>3 DEF IInv, Shape, Answers, ChildAnswered, TracemeFails
  <2>4. CASE Continued \/ Dies
    BY <1>1, <2>1, <2>4 DEF IInv, Answers, ChildAnswered, Continued, Dies
  <2>5. CASE Returns
    BY <1>1, <2>1, <2>5 DEF IInv, Answers, ChildAnswered, Returns, RegistersSaved, Over, Shape
  <2> QED BY <2>2, <2>3, <2>4, <2>5
<1> QED BY <1>2, <1>3 DEF IInv

-----------------------------------------------------------------------------
(* The steps of the handler.                                                *)

LEMMA FailSteps ==
  ASSUME IInv, Fail, child \notin {"forked", "running", "halted"}, ~Over
  PROVE  IInv'
<1>1. Shape'
  BY DEF IInv, Shape, Fail, fixed
<1>2. PagesKept'
  BY DEF IInv, PagesKept, NotMapping, Over, InKept, Mapped, Fail, fixed
<1>3. RegistersSaved' /\ Answers'
  BY DEF IInv, RegistersSaved, Answers, Over, Success, ChildAnswered, Fail, fixed
<1> QED BY <1>1, <1>2, <1>3 DEF IInv

LEMMA BeforeRegisters ==
  ASSUME IInv, Wait \/ Spare \/ UnmapOne
  PROVE  IInv'
<1> USE DEF fixed
<1>1. at \in {"wait", "unmap"} /\ at' \in {"unmap", "gp"} /\ k' \in Nat
  BY DEF IInv, Shape, Wait, Spare, UnmapOne, NextMap
<1>2. at' = "gp" => k' = 0
  BY DEF Wait, Spare, UnmapOne, NextMap
<1>3. kept' \subseteq kept /\ UNCHANGED <<fixed, child, regs, result, answers>> /\ child = "stopped"
  BY DEF Wait, Spare, UnmapOne
<1>4. Shape'
  BY <1>1, <1>2, <1>3 DEF IInv, Shape
<1>5. \A p \in Pages : Mapped(p)' => InKept(p)'
  <2>1. CASE Wait \/ Spare
    <3>1. UNCHANGED <<space, kept, layout>>
      BY <2>1 DEF Wait, Spare
    <3> QED BY <1>1, <3>1 DEF IInv, PagesKept, NotMapping, Mapped, InKept
  <2>2. CASE UnmapOne
    <3> DEFINE m == layout.maps[k + 1]
    <3>1. PICK ok \in BOOLEAN :
            Munmap(m.base, m.size, ok) /\ kept' = (IF ok THEN kept \ {k + 1} ELSE kept)
      BY <2>2 DEF UnmapOne
    <3>2. SUFFICES ASSUME NEW p \in Pages, Mapped(p)' PROVE InKept(p)'
      OBVIOUS
    <3>3. Mapped(p) /\ (ok => p \notin Span(m.base, m.size))
      BY <3>1, <3>2 DEF Mapped, Munmap, Set
    <3>4. InKept(p)
      BY <1>1, <3>3 DEF IInv, PagesKept, NotMapping
    <3> QED BY <1>3, <3>1, <3>3, <3>4 DEF InKept
  <2> QED BY <2>1, <2>2
<1>6. PagesKept'
  BY <1>1, <1>5 DEF PagesKept, NotMapping
<1>7. RegistersSaved' /\ Answers'
  BY <1>1, <1>3 DEF IInv, RegistersSaved, Answers, Over, Success, ChildAnswered
<1> QED BY <1>4, <1>6, <1>7 DEF IInv

LEMMA RegisterSteps ==
  ASSUME IInv, SetGp \/ SetFp
  PROVE  IInv'
<1> USE DEF fixed
<1>1. /\ at \in {"gp", "fp"} /\ at' \in {"fp", "map", "detach"} /\ child = "stopped"
      /\ UNCHANGED <<space, fixed, k, child, kept, result, answers>>
      /\ at' = "detach" => request.regions = <<>> /\ regs' = regs /\ at = "fp"
  BY DEF SetGp, SetFp
<1>2. Shape' /\ PagesKept'
  BY <1>1 DEF Over, IInv, Shape, PagesKept, NotMapping, InKept, Mapped, SetGp, SetFp
<1>3. RegistersSaved' /\ Answers'
  BY <1>1 DEF IInv, RegistersSaved, Answers, Over, Success, ChildAnswered, SetGp, SetFp
<1> QED BY <1>2, <1>3 DEF IInv

LEMMA MappingSteps ==
  ASSUME IInv, MapNothing \/ MapStdin \/ FillRegion
  PROVE  IInv'
<1> USE DEF fixed
<1>1. /\ at \in {"map", "fill"} /\ at' \in {"map", "fill", "detach"}
      /\ UNCHANGED <<fixed, child, kept, answers>>
  BY DEF MapNothing, MapStdin, FillRegion
<1>2. at = "fill" => at' \in {"map", "detach"} /\ k' = k + 1
  BY DEF MapNothing, MapStdin, FillRegion
<1>3. at = "map" => at' \in {"fill", "detach"} /\ k' = k
  BY DEF MapNothing, MapStdin, FillRegion
<1>4. InKept(request.pc)
  <2>1. CASE at = "fill" \/ k # 0
    BY <1>1, <2>1 DEF IInv, PagesKept, NotMapping, Over
  <2>2. CASE at = "map" /\ k = 0
    <3>1. Mapped(Pc) /\ Pc = request.pc /\ request.pc \in Pages
      BY <2>2 DEF IInv, RegistersSaved, MapNothing, MapStdin, FillRegion, Pc, Mapped
    <3> QED BY <2>2, <3>1 DEF IInv, PagesKept, NotMapping
  <2> QED BY <2>1, <2>2, <1>1
<1>5. Shape'
  BY <1>1, <1>2, <1>3 DEF IInv, Shape, MapNothing, MapStdin, FillRegion
<1>6. PagesKept'
  <2>1. InKept(request.pc)'
    BY <1>1, <1>4 DEF InKept
  <2>2. ~NotMapping'
    BY <1>1, <1>2, <1>3 DEF IInv, Shape, NotMapping
  <2> QED BY <2>1, <2>2 DEF PagesKept
<1>7. RegistersSaved'
  BY <1>1 DEF IInv, RegistersSaved, Over, MapNothing, MapStdin, FillRegion
<1>8. Answers'
  <2>1. ~Success /\ child \notin {"running", "halted", "forked"} /\ (ChildAnswered => result = "Err")
    BY <1>1 DEF IInv, Answers
  <2>2. result' = "Ok" => result = "Ok"
    BY DEF MapNothing, MapStdin, FillRegion
  <2>3. result' \in {result, "Err"}
    BY DEF MapNothing, MapStdin, FillRegion
  <2> QED BY <1>1, <2>1, <2>3 DEF Answers, Success, ChildAnswered
<1> QED BY <1>5, <1>6, <1>7, <1>8 DEF IInv

LEMMA DetachSteps ==
  ASSUME IInv, Detach
  PROVE  IInv'
<1> USE DEF fixed
<1>1. Shape' /\ PagesKept' /\ RegistersSaved'
  BY DEF IInv, Shape, PagesKept, RegistersSaved, NotMapping, Over, InKept, Mapped, Detach
<1>2. Answers'
  BY DEF IInv, Answers, Success, ChildAnswered, Detach
<1> QED BY <1>1, <1>2 DEF IInv

LEMMA NextPreserves == IInv /\ [Next]_vars => IInv'
<1> SUFFICES ASSUME IInv, [Next]_vars PROVE IInv'
    OBVIOUS
<1>1. CASE Traceme \/ TracemeFails \/ Continued \/ Returns \/ Dies
  BY <1>1, ChildSteps
<1>2. CASE ChildGone \/ WrongLength \/ NoPage \/ MapForbidden
  BY <1>2, FailSteps DEF IInv, Answers, Over, ChildGone, WrongLength, NoPage, MapForbidden
<1>3. CASE Wait \/ Spare \/ UnmapOne
  BY <1>3, BeforeRegisters
<1>4. CASE SetGp \/ SetFp
  BY <1>4, RegisterSteps
<1>5. CASE MapNothing \/ MapStdin \/ FillRegion
  BY <1>5, MappingSteps
<1>6. CASE Detach
  BY <1>6, DetachSteps
<1>7. CASE UNCHANGED vars
  BY <1>7 DEF vars, fixed, IInv, Shape, PagesKept, NotMapping, Over, InKept, Mapped,
              RegistersSaved, Answers, Success, ChildAnswered
<1> QED BY <1>1, <1>2, <1>3, <1>4, <1>5, <1>6, <1>7 DEF Next, Handler

\* The inductive invariant: what is mapped was kept until the first call at the
\* saved pc, and the registers are the saved ones from then on.
THEOREM Invariance == Spec => []IInv
BY InitHolds, NextPreserves, PTL DEF Spec

\* SuccessNeedsPc: a request with memory that succeeds had its pc in a map that the child of
\* the server kept (spawn.rs 52-60).
THEOREM PcNeeded == Spec => []SuccessNeedsPc
<1>1. IInv => SuccessNeedsPc
  BY DEF IInv, Answers, PagesKept, NotMapping, Over, InKept, SuccessNeedsPc
<1> QED BY <1>1, Invariance, PTL

\* OneAnswer: after a request that succeeds the child does not return to the
\* handler (spawn.rs 36-39).
THEOREM AnsweredOnce == Spec => []OneAnswer
<1>1. IInv => OneAnswer
  BY DEF IInv, Answers, ChildAnswered, OneAnswer
<1> QED BY <1>1, Invariance, PTL

-----------------------------------------------------------------------------
(* What remains to be done gets less.                                       *)

Maps == Len(layout.maps)
Regions == Len(request.regions)

\* The map or region that a call is about is one.
InRange ==
  /\ at = "unmap" => k < Maps
  /\ at \in {"map", "fill"} => k < Regions

\* Past waitpid the child is never one that does not listen.
NeverWaits == at \notin {"wait", "detach", "answered"} => child \in {"stopped", "dead"}

\* The calls before the response, if none fails.
CallsLeft ==
  IF at = "wait" THEN Maps + 2 * Regions + 4
  ELSE IF at = "unmap" THEN (Maps - k) + 2 * Regions + 3
  ELSE IF at = "gp" THEN 2 * Regions + 3
  ELSE IF at = "fp" THEN 2 * Regions + 2
  ELSE IF at = "map" THEN 2 * (Regions - k) + 1
  ELSE IF at = "fill" THEN 2 * (Regions - k)
  ELSE IF at = "detach" THEN 1
  ELSE 0

\* Each step of the handler brings the response nearer, none of the child's
\* moves it away.
AnswerGetsNearer ==
  /\ Handler => CallsLeft' < CallsLeft
  /\ ~Handler => CallsLeft' = CallsLeft

LEMMA Lengths ==
  ASSUME request \in Requests, layout \in Layouts
  PROVE  /\ Maps \in Nat \ {0} /\ Regions \in Nat
         /\ request.regions # <<>> => Regions # 0
BY SpawnAssumption DEF Maps, Regions

Ranged ==
  /\ IInv
  /\ request \in Requests
  /\ child \in {"forked", "stopped", "halted", "running", "dead"}
  /\ InRange

LEMMA RangedInit == Init => Ranged
BY InitHolds DEF Init, Ranged, InRange

LEMMA RangedNext == Ranged /\ [Next]_vars => Ranged'
<1> SUFFICES ASSUME Ranged, [Next]_vars PROVE Ranged'
    OBVIOUS
<1> USE DEF fixed
<1>1. UNCHANGED <<request, layout>>
  BY DEF Next, Handler, vars, Wait, ChildGone, Fail, Spare, UnmapOne, SetGp, SetFp, WrongLength, NoPage,
         MapNothing, MapForbidden, MapStdin, FillRegion, Detach, Traceme, TracemeFails, Continued,
         Returns, Dies
<1>2. /\ IInv' /\ k \in Nat
      /\ Maps \in Nat \ {0} /\ Regions \in Nat /\ Maps' = Maps /\ Regions' = Regions
  BY <1>1, NextPreserves, Lengths DEF Ranged, IInv, Shape, Maps, Regions
<1>3. (at' = "unmap" => k' < Maps) /\ (at' \in {"map", "fill"} => k' < Regions)
  <2>1. CASE Wait
    BY <1>2, <2>1 DEF Wait, Ranged, IInv, Shape
  <2>2. CASE Spare \/ UnmapOne
    BY <1>2, <2>2 DEF Spare, UnmapOne, NextMap, Maps, Ranged, InRange
  <2>3. CASE SetGp \/ SetFp
    <3>1. at \in {"gp", "fp"} /\ k' = k /\ at' \in {"fp", "map", "detach"}
      BY <2>3 DEF SetGp, SetFp
    <3>2. at' = "map" => request.regions # <<>>
      BY <2>3 DEF SetGp, SetFp
    <3>3. at' = "map" => Regions # 0
      BY <3>2, Lengths DEF Ranged, IInv, Shape
    <3> QED BY <1>2, <3>1, <3>3 DEF Ranged, IInv, Shape
  <2>4. CASE MapNothing \/ MapStdin
    BY <1>2, <2>4 DEF MapNothing, MapStdin, Ranged, InRange
  <2>5. CASE FillRegion
    BY <1>2, <2>5 DEF FillRegion, Regions, Ranged, InRange
  <2>6. CASE ChildGone \/ WrongLength \/ NoPage \/ MapForbidden \/ Detach
    BY <2>6 DEF ChildGone, WrongLength, NoPage, MapForbidden, Fail, Detach
  <2>7. CASE Traceme \/ TracemeFails \/ Continued \/ Returns \/ Dies \/ UNCHANGED vars
    BY <1>2, <2>7 DEF Traceme, TracemeFails, Continued, Returns, Dies, vars, Ranged, InRange
  <2> QED BY <2>1, <2>2, <2>3, <2>4, <2>5, <2>6, <2>7 DEF Next, Handler
<1>4. (child \in {"forked", "stopped", "halted", "running", "dead"})'
  BY DEF Next, Handler, vars, Wait, ChildGone, Fail, Spare, UnmapOne, SetGp, SetFp, WrongLength, NoPage,
         MapNothing, MapForbidden, MapStdin, FillRegion, Detach, Traceme, TracemeFails, Continued,
         Returns, Dies, Ranged
<1> QED BY <1>1, <1>2, <1>3, <1>4 DEF Ranged, InRange

LEMMA CallsLeftType == Ranged => CallsLeft \in Nat /\ NeverWaits
<1> SUFFICES ASSUME Ranged PROVE CallsLeft \in Nat /\ NeverWaits
    OBVIOUS
<1>1. k \in Nat /\ Maps \in Nat /\ Regions \in Nat
  BY Lengths DEF Ranged, IInv, Shape
<1>2. CallsLeft \in Nat
  BY <1>1 DEF CallsLeft, Ranged, InRange
<1>3. NeverWaits
  BY DEF Ranged, IInv, Shape, Answers, NeverWaits
<1> QED BY <1>2, <1>3

LEMMA HandlerGoesOn == Ranged /\ [Next]_vars => (Handler => CallsLeft' < CallsLeft)
<1> SUFFICES ASSUME Ranged, Handler PROVE CallsLeft' < CallsLeft
    OBVIOUS
<1> USE DEF fixed
<1>1. UNCHANGED <<request, layout>>
  BY DEF Handler, Wait, ChildGone, Fail, Spare, UnmapOne, SetGp, SetFp, WrongLength, NoPage,
         MapNothing, MapForbidden, MapStdin, FillRegion, Detach
<1>2. /\ k \in Nat
      /\ Maps \in Nat \ {0} /\ Regions \in Nat /\ Maps' = Maps /\ Regions' = Regions
  BY <1>1, Lengths DEF Ranged, IInv, Shape, Maps, Regions
<1>3. CASE at = "detach" /\ at' = "answered"
  BY <1>3 DEF CallsLeft
<1>4. CASE at \in {"wait", "unmap", "gp", "fp", "map", "fill"} /\ at' = "detach"
  BY <1>2, <1>4 DEF CallsLeft, Ranged, InRange
<1>5. CASE Wait
  BY <1>2, <1>5 DEF Wait, CallsLeft, Ranged, IInv, Shape
<1>6. CASE Spare \/ UnmapOne
  <2>1. /\ at = "unmap" /\ k < Maps
        /\ \/ at' = "unmap" /\ k' = k + 1
           \/ at' = "gp" /\ k' = 0
    BY <1>6 DEF Spare, UnmapOne, NextMap, Ranged, InRange
  <2> QED BY <1>2, <2>1 DEF CallsLeft
<1>7. CASE SetGp
  BY <1>2, <1>7 DEF SetGp, CallsLeft, Ranged, IInv, Shape
<1>8. CASE SetFp
  BY <1>2, <1>8 DEF SetFp, CallsLeft, Ranged, IInv, Shape
<1>9. CASE at = "map" /\ at' = "fill" /\ k' = k
  BY <1>2, <1>9 DEF CallsLeft, Ranged, InRange
<1>10. CASE at = "fill" /\ at' \in {"map", "detach"} /\ k' = k + 1
  BY <1>2, <1>10 DEF CallsLeft, Ranged, InRange
<1>11. MapNothing \/ MapStdin => at = "map" /\ ((at' = "fill" /\ k' = k) \/ at' = "detach")
  BY DEF MapNothing, MapStdin
<1>12. FillRegion => at = "fill" /\ at' \in {"map", "detach"} /\ k' = k + 1
  BY DEF FillRegion
<1>13. ChildGone \/ WrongLength \/ NoPage \/ MapForbidden =>
         at \in {"wait", "unmap", "gp", "fp", "map", "fill"} /\ at' = "detach"
  BY DEF ChildGone, WrongLength, NoPage, MapForbidden, Fail
<1>14. Detach => at = "detach" /\ at' = "answered"
  BY DEF Detach
<1> QED BY <1>3, <1>4, <1>5, <1>6, <1>7, <1>8, <1>9, <1>10, <1>11, <1>12, <1>13, <1>14 DEF Handler

LEMMA OthersLeaveAsMuch == [Next]_vars /\ ~Handler => CallsLeft' = CallsLeft
<1> SUFFICES ASSUME [Next]_vars, ~Handler PROVE UNCHANGED <<request, layout, at, k>>
    BY DEF CallsLeft, Maps, Regions
<1> QED BY DEF Next, vars, fixed, Traceme, TracemeFails, Continued, Returns, Dies

\* What RequestAnswered needs of the handler (spawn.rs 15-63): a request
\* takes a bounded number of calls, none of which asks for a map or a region that
\* is not there or waits for a child that runs, and every one of them brings the
\* response nearer.
THEOREM RequestGetsNearer ==
  Spec => [](CallsLeft \in Nat /\ InRange /\ NeverWaits) /\ [][AnswerGetsNearer]_vars
<1>1. Ranged => CallsLeft \in Nat /\ InRange /\ NeverWaits
  BY CallsLeftType DEF Ranged
<1>2. Ranged /\ [Next]_vars => [AnswerGetsNearer]_vars
  BY HandlerGoesOn, OthersLeaveAsMuch DEF AnswerGetsNearer
<1> QED BY RangedInit, RangedNext, <1>1, <1>2, PTL DEF Spec

=============================================================================

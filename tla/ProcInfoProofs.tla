--------------------------- MODULE ProcInfoProofs ---------------------------
(***************************************************************************)
(* Theorems about ProcInfo.tla: what is collected of a process with a      *)
(* plain name is its terminal, and the search overlooks none that is there *)
(* all the time.                                                           *)
(***************************************************************************)
EXTENDS ProcInfo, SequenceTheorems, WellFoundedInduction, TLAPS

Less == {ss \in Nat \X Nat : ss[1] < ss[2]}

LEMMA LessIsWellFounded == IsWellFoundedOn(Less, Nat)
  BY NatLessThanWellFounded, Zenon DEF OpToRel, Less

\* A set of natural numbers that is not empty has a least element.
LEMMA MinExists ==
  ASSUME NEW S \in SUBSET Nat, S # {}
  PROVE  Min(S) \in S /\ \A n \in S : Min(S) <= n
<1>1. PICK m \in S : \A n \in S : <<n, m>> \notin Less
  BY LessIsWellFounded, WFMin
<1>2. ASSUME NEW n \in S
      PROVE  m <= n
  <2>1. <<n, m>> \notin Less
    BY <1>1
  <2>2. ~(n < m)
    BY <2>1 DEF Less
  <2> QED
    BY <2>2
<1> QED
  BY <1>2 DEF Min

-----------------------------------------------------------------------------
(* The line of stat.                                                        *)

Field == [number : BOOLEAN, value : Nat, close : BOOLEAN]

LEMMA NumberType ==
  ASSUME NEW n \in Nat
  PROVE  Number(n) \in Field
  BY DEF Number, Field

LEMMA WordType ==
  ASSUME NEW b \in BOOLEAN
  PROVE  Word(b) \in Field
  BY DEF Word, Field

LEMMA NameWordType ==
  ASSUME NEW m \in Names, NEW j \in Nat
  PROVE  /\ NameWord(m, j) \in Field
         /\ NameWord(m, m.ends).close
<1> DEFINE b == j \in {m.ends, m.extra}
<1>1. b \in BOOLEAN
  OBVIOUS
<1>2. NameWord(m, j) = Number(34816) \/ NameWord(m, j) = Word(b)
  BY DEF NameWord
<1>3. NameWord(m, j) \in Field
  <2> HIDE DEF b
  <2>1. Word(b) \in Field /\ Number(34816) \in Field
    BY <1>1, WordType, NumberType
  <2> QED
    BY <1>2, <2>1
<1>4. NameWord(m, m.ends) = Word(m.ends \in {m.ends, m.extra})
  BY DEF NameWord
<1>5. Word(TRUE).close
  BY DEF Word
<1>6. (m.ends \in {m.ends, m.extra}) = TRUE
  OBVIOUS
<1>7. NameWord(m, m.ends).close
  BY <1>4, <1>5, <1>6, Zenon
<1> QED
  BY <1>3, <1>7

LEMMA Tuple6 ==
  ASSUME NEW S, NEW a \in S, NEW b \in S, NEW c \in S, NEW d \in S, NEW e \in S, NEW f \in S
  PROVE  <<a, b, c, d, e, f>> \in Seq(S) /\ Len(<<a, b, c, d, e, f>>) = 6 /\ <<a, b, c, d, e, f>>[5] = e
  OBVIOUS

LEMMA ConcatSeq ==
  ASSUME NEW S, NEW s \in Seq(S), NEW t \in Seq(S)
  PROVE  s \o t \in Seq(S) /\ Len(s \o t) = Len(s) + Len(t)
  BY ConcatProperties, Zenon

LEMMA ConcatLeft ==
  ASSUME NEW S, NEW s \in Seq(S), NEW t \in Seq(S), NEW i \in 1..Len(s)
  PROVE  (s \o t)[i] = s[i]
<1>1. i \in 1..(Len(s) + Len(t)) /\ i <= Len(s)
  OBVIOUS
<1> QED
  BY <1>1, ConcatProperties

LEMMA ConcatRight ==
  ASSUME NEW S, NEW s \in Seq(S), NEW t \in Seq(S), NEW i \in Nat, 1 <= i, i <= Len(t)
  PROVE  (s \o t)[Len(s) + i] = t[i]
<1>1. Len(s) + i \in 1..(Len(s) + Len(t)) /\ ~(Len(s) + i <= Len(s)) /\ Len(s) + i - Len(s) = i
  OBVIOUS
<1> QED
  BY <1>1, ConcatProperties

\* What precedes the name, the words of the name, and what follows.
LEMMA LineShape ==
  ASSUME NEW p \in Process
  PROVE  /\ Line(p) \in Seq(Field)
         /\ Len(Line(p)) = p.q.name.extra + 8
         /\ \A j \in 0..p.q.name.extra : Line(p)[j + 2] = NameWord(p.q.name, j)
         /\ Line(p)[p.q.name.extra + 7] = Number(p.q.tty)
<1> DEFINE m == p.q.name
           A == <<Number(p.pid)>>
           B == [j \in 1..(m.extra + 1) |-> NameWord(m, j - 1)]
           C == <<Word(FALSE), Number(p.ppid), Number(p.q.pgrp), Number(p.q.session), Number(p.q.tty), Number(0)>>
<1>1. p.q \in [name : Names, nested : BOOLEAN, pgrp : Nat, session : Nat, tty : Nat]
  BY ProcInfoAssumption DEF Process
<1>2. m \in Names /\ m.extra \in Nat
  BY <1>1 DEF Names
<1>3. p.pid \in Nat /\ p.ppid \in Nat /\ p.q.pgrp \in Nat /\ p.q.session \in Nat /\ p.q.tty \in Nat
  BY <1>1, ProcInfoAssumption DEF Process, Pids
<1>4. A \in Seq(Field) /\ Len(A) = 1
  BY <1>3, NumberType
<1>5. B \in Seq(Field) /\ Len(B) = m.extra + 1
  <2>1. \A j \in 1..(m.extra + 1) : NameWord(m, j - 1) \in Field
    BY <1>2, NameWordType
  <2> QED
    BY <1>2, <2>1
<1>6. C \in Seq(Field) /\ Len(C) = 6 /\ C[5] = Number(p.q.tty)
  <2>1. Word(FALSE) \in Field
    BY DEF Word, Field
  <2>2. /\ Number(p.ppid) \in Field /\ Number(p.q.pgrp) \in Field
        /\ Number(p.q.session) \in Field /\ Number(p.q.tty) \in Field /\ Number(0) \in Field
    BY <1>3, NumberType
  <2> QED
    BY <2>1, <2>2, Tuple6
<1>7. Line(p) = A \o B \o C
  BY DEF Line
<1>8. \A j \in 0..m.extra : B[j + 1] = NameWord(m, j)
  BY <1>2
<1> HIDE DEF A, B, C, m
<1>9. A \o B \in Seq(Field) /\ Len(A \o B) = m.extra + 2
  <2>1. A \o B \in Seq(Field) /\ Len(A \o B) = Len(A) + Len(B)
    BY <1>4, <1>5, ConcatSeq, Zenon
  <2> QED
    BY <1>2, <1>4, <1>5, <2>1
<1>10. PICK D \in Seq(Field) : D = A \o B
  BY <1>9
<1>11. Len(D) = m.extra + 2
  BY <1>9, <1>10
<1>12. D \o C \in Seq(Field) /\ Len(D \o C) = m.extra + 8
  <2>1. D \o C \in Seq(Field) /\ Len(D \o C) = Len(D) + Len(C)
    BY <1>6, ConcatSeq, Zenon
  <2> QED
    BY <1>2, <1>6, <1>11, <2>1
<1>13. ASSUME NEW j \in 0..m.extra
       PROVE  (D \o C)[j + 2] = NameWord(m, j)
  <2>1. j + 1 \in Nat /\ 1 <= j + 1 /\ j + 1 <= Len(B)
    BY <1>2, <1>5
  <2>2. D[Len(A) + (j + 1)] = B[j + 1]
    BY <1>4, <1>5, <1>10, <2>1, ConcatRight, Zenon
  <2>3. j + 2 \in 1..Len(D) /\ Len(A) + (j + 1) = j + 2
    BY <1>2, <1>4, <1>11
  <2>4. (D \o C)[j + 2] = D[j + 2]
    BY <1>6, <2>3, ConcatLeft
  <2> QED
    BY <1>8, <2>2, <2>3, <2>4
<1>14. (D \o C)[m.extra + 7] = Number(p.q.tty)
  <2>1. 5 \in Nat /\ 1 <= 5 /\ 5 <= Len(C)
    BY <1>6
  <2>2. (D \o C)[Len(D) + 5] = C[5]
    BY <1>6, <2>1, ConcatRight, Zenon
  <2>3. Len(D) + 5 = m.extra + 7
    BY <1>2, <1>11
  <2> QED
    BY <1>6, <2>2, <2>3
<1> QED
  BY <1>7, <1>10, <1>12, <1>13, <1>14 DEF m

\* The name has a last word, and not more than seven before it.
LEMMA OffsetBounds ==
  ASSUME NEW p \in Process
  PROVE  /\ Offset(Line(p)) \in 0..p.q.name.ends
         /\ p.q.name.ends \in 0..p.q.name.extra /\ p.q.name.extra \in 0..7
<1> DEFINE m == p.q.name
           S == {i \in 2..Len(Line(p)) : Line(p)[i].close}
<1>1. m \in Names
  BY ProcInfoAssumption DEF Process
<1>2. m.ends \in 0..m.extra /\ m.extra \in 0..7
  BY <1>1 DEF Names
<1>3. m.ends + 2 \in S
  <2>1. m.ends + 2 \in 2..Len(Line(p))
    <3>1. Len(Line(p)) = m.extra + 8
      BY LineShape
    <3> HIDE DEF m
    <3> QED
      BY <1>2, <3>1
  <2>2. Line(p)[m.ends + 2] = NameWord(m, m.ends)
    BY <1>2, LineShape
  <2>3. NameWord(m, m.ends).close
    BY <1>1, <1>2, NameWordType
  <2> QED
    BY <2>1, <2>2, <2>3, Zenon
<1>4. S \in SUBSET Nat
  OBVIOUS
<1>5. Min(S) \in S /\ Min(S) <= m.ends + 2
  BY <1>3, <1>4, MinExists
<1>6. Min(S) \in Nat /\ Min(S) >= 2
  BY <1>5, LineShape, <1>2
<1> HIDE DEF S
<1>7. Min(S) - 2 \in 0..m.ends
  BY <1>2, <1>5, <1>6
<1> QED
  BY <1>2, <1>7 DEF Offset, S

\* The terminal of a process whose name is one word is read right.
LEMMA PlainRead ==
  ASSUME NEW p \in Process, Plain(p.q.name)
  PROVE  ReadTtyNr(Line(p)) = [ok |-> TRUE, value |-> p.q.tty]
<1>1. Offset(Line(p)) = 0 /\ p.q.name.extra = 0
  BY OffsetBounds DEF Plain
<1>2. Line(p)[7] = Number(p.q.tty)
  BY <1>1, LineShape
<1>3. Line(p)[7].number /\ Line(p)[7].value = p.q.tty
  BY <1>2 DEF Number
<1>4. 6 - Offset(Line(p)) + 1 = 7
  BY <1>1
<1>5. ReadTtyNr(Line(p)) =
        IF 7 < 1 THEN [ok |-> FALSE, panic |-> TRUE]
        ELSE IF Line(p)[7].number THEN [ok |-> TRUE, value |-> Line(p)[7].value]
        ELSE [ok |-> FALSE, panic |-> FALSE]
  BY <1>4, Zenon DEF ReadTtyNr
<1>6. ~(7 < 1)
  OBVIOUS
<1> QED
  BY <1>3, <1>5, <1>6, Zenon

\* What is read, if anything, is a number.
LEMMA ReadType ==
  ASSUME NEW p \in Process, ReadTtyNr(Line(p)).ok
  PROVE  ReadTtyNr(Line(p)).value \in Nat
<1> DEFINE i == 6 - Offset(Line(p)) + 1
<1>1. i \in Int /\ i <= 7
  BY OffsetBounds
<1>2. ~(i < 1) /\ ReadTtyNr(Line(p)).value = Line(p)[i].value
  <2>1. ASSUME i < 1
        PROVE  ReadTtyNr(Line(p)) = [ok |-> FALSE, panic |-> TRUE]
    BY <2>1, Zenon DEF ReadTtyNr
  <2>2. ASSUME ~(i < 1), ~Line(p)[i].number
        PROVE  ReadTtyNr(Line(p)) = [ok |-> FALSE, panic |-> FALSE]
    BY <2>2, Zenon DEF ReadTtyNr
  <2>3. ASSUME ~(i < 1), Line(p)[i].number
        PROVE  ReadTtyNr(Line(p)) = [ok |-> TRUE, value |-> Line(p)[i].value]
    BY <2>3, Zenon DEF ReadTtyNr
  <2>4. ~[ok |-> FALSE, panic |-> TRUE].ok /\ ~[ok |-> FALSE, panic |-> FALSE].ok
    OBVIOUS
  <2>5. ~(i < 1) /\ Line(p)[i].number
    BY <2>1, <2>2, <2>4, Zenon
  <2> QED
    BY <2>3, <2>5
<1>3. i \in 1..Len(Line(p))
  <2>1. Len(Line(p)) >= 8
    <3>1. Len(Line(p)) = p.q.name.extra + 8 /\ p.q.name.extra \in 0..7
      BY LineShape, OffsetBounds, Zenon
    <3> QED
      BY <3>1
  <2> HIDE DEF i
  <2> QED
    BY <1>1, <1>2, <2>1
<1>4. Line(p)[i] \in Field
  BY <1>3, LineShape
<1> QED
  BY <1>2, <1>4 DEF Field

LEMMA PtsType ==
  ASSUME NEW nr \in Nat
  PROVE  Pts(nr) \in Nat \cup {NotAPts}
  BY DEF Pts, TtyMinor, NotAPts

-----------------------------------------------------------------------------
(* The invariant.                                                           *)

\* A process has the pid under which it is found, and an id given to it.
Ids ==
  \A p \in Pids :
    procs[p] # None => procs[p] \in Process /\ procs[p].pid = p /\ procs[p].id <= starts

\* An open file belongs to a process that had the pid, and still has it if the
\* pid has had one process only.
Opened ==
  at \in {"read_status", "read_stat"} =>
    /\ opened \in Process /\ opened.pid = pid /\ opened.id <= starts
    /\ StillThere => procs[pid].q = opened.q
    /\ pid \in since => StillThere

\* So does the status that has been read.
Known ==
  at \in {"stat", "read_stat"} =>
    status \in Process /\ (pid \in since => status.q = procs[pid].q)

\* The pids that have been dealt with.
Behind == IF at = "select" THEN Pids ELSE IF at = "dir" THEN 1..pid ELSE 1..(pid - 1)

Wanted(p) ==
  LET q == procs[p].q
  IN Plain(q.name) /\ ~q.nested /\ Pts(q.tty) = Terminal

\* The list is by ascending pid, and has all that it has to have so far.
Collected ==
  command = "terminal" /\ at # "end" =>
    /\ \A i \in DOMAIN infos : infos[i].of.pid \in Behind
    /\ \A i, j \in DOMAIN infos : i <= j => infos[i].of.pid <= infos[j].of.pid
    /\ \A p \in since \cap Behind :
         Wanted(p) => \E i \in DOMAIN infos : infos[i].of.pid = p /\ infos[i].pts = Terminal

IInv == TypeOK /\ Ids /\ Opened /\ Known /\ Collected /\ PlainNamesRight /\ NoneMissed

LEMMA NoneIsNoProcess == None \notin Process
  BY DEF None, Process

LEMMA Sizes == NPids \in Nat \ {0} /\ MaxStarts \in Nat /\ Terminal \in Nat
  BY ProcInfoAssumption

LEMMA InitHolds == Init => IInv
<1> SUFFICES ASSUME Init PROVE IInv
    OBVIOUS
<1>0. /\ starts = 0 /\ since = {p \in Pids : procs[p] # None}
      /\ \/ command = "terminal" /\ pid = 0 /\ at = "dir"
         \/ command = "tree" /\ pid \in Pids /\ at = "status"
      /\ opened = None /\ status = None /\ infos = <<>>
  BY Zenon DEF Init
<1>1. procs \in [Pids -> Process \cup {None}] /\ Ids
  <2>1. PICK S \in {T \in SUBSET Pids : 1 \in T}, q \in [Pids -> Programs] :
          procs = [p \in Pids |-> IF p \in S THEN New(p, IF p = 1 THEN 0 ELSE 1, 0, q[p]) ELSE None]
    BY DEF Init
  <2>2. ASSUME NEW p \in Pids
        PROVE  New(p, IF p = 1 THEN 0 ELSE 1, 0, q[p]) \in Process
    BY ProcInfoAssumption DEF New, Process, Pids
  <2>3. procs \in [Pids -> Process \cup {None}]
    BY <2>1, <2>2
  <2>4. starts = 0
    BY DEF Init
  <2>5. ASSUME NEW p \in Pids, procs[p] # None
        PROVE  procs[p] \in Process /\ procs[p].pid = p /\ procs[p].id <= starts
    BY <2>1, <2>2, <2>4, <2>5 DEF New
  <2> QED
    BY <2>3, <2>5 DEF Ids
<1>2. TypeOK
  <2>1. /\ starts \in 0..MaxStarts /\ since \subseteq {p \in Pids : procs[p] # None}
        /\ command \in {"terminal", "tree"}
        /\ at \in {"dir", "status"} /\ pid \in 0..NPids /\ (at = "status" => pid \in Pids)
        /\ opened = None /\ status = None
    BY <1>0, Sizes DEF Pids
  <2>2. infos \in Seq([of : Process, pts : Nat \cup {NotAPts}])
    BY <1>0
  <2>3. outcome \in {Ended(e) : e \in {"pending", "error", "panic", "absent", "printed"}}
    BY DEF Init
  <2> QED
    BY <1>1, <2>1, <2>2, <2>3, Zenon DEF TypeOK
<1>3. Opened /\ Known
  BY <1>0 DEF Opened, Known
<1>4. Collected
  <2>1. DOMAIN infos = {}
    BY <1>0
  <2>2. command = "terminal" => Behind = {}
    BY <1>0 DEF Behind
  <2> QED
    BY <2>1, <2>2 DEF Collected
<1>5. PlainNamesRight /\ NoneMissed
  <2>1. DOMAIN infos = {}
    BY <1>0
  <2>2. outcome = Ended("pending")
    BY Zenon DEF Init
  <2>3. outcome.kind = "pending"
    BY <2>2 DEF Ended
  <2> QED
    BY <2>1, <2>3 DEF PlainNamesRight, NoneMissed
<1> QED
  BY <1>1, <1>2, <1>3, <1>4, <1>5 DEF IInv

-----------------------------------------------------------------------------
(* Steps of other processes.                                                *)

\* They change neither the program nor the id of one that has been there all
\* the time, and a pid never gets an earlier id again.
LEMMA OthersSteps ==
  ASSUME IInv, NEW p \in Pids, Exit(p) \/ Start(p)
  PROVE  /\ procs' \in [Pids -> Process \cup {None}] /\ Ids'
         /\ starts' \in 0..MaxStarts /\ starts <= starts'
         /\ since' \subseteq since
         /\ \A r \in since' :
              procs'[r] # None /\ procs'[r].q = procs[r].q /\ procs'[r].id = procs[r].id
         /\ \A r \in Pids, i \in 0..starts :
              procs'[r] # None /\ procs'[r].id = i =>
                procs[r] # None /\ procs[r].id = i /\ procs'[r].q = procs[r].q
<1>1. /\ procs \in [Pids -> Process \cup {None}] /\ starts \in 0..MaxStarts
      /\ since \subseteq {r \in Pids : procs[r] # None} /\ Ids
  BY DEF IInv, TypeOK
<1>2. MaxStarts \in Nat /\ NPids \in Nat \ {0}
  BY ProcInfoAssumption
<1>3. CASE Exit(p)
  <2>1. /\ starts' = starts /\ since' = since \ {p}
        /\ procs' = [r \in Pids |->
                 IF r = p THEN None
                 ELSE IF procs[r] # None /\ procs[r].ppid = p THEN [procs[r] EXCEPT !.ppid = 1]
                 ELSE procs[r]]
    BY <1>3 DEF Exit
  <2>2. ASSUME NEW r \in Pids, procs[r] # None
        PROVE  [procs[r] EXCEPT !.ppid = 1] \in Process
    BY <1>1, <1>2, <2>2 DEF Process
  <2>3. ASSUME NEW r \in Pids, procs'[r] # None
        PROVE  /\ procs[r] # None /\ procs'[r] \in Process
               /\ procs'[r].pid = procs[r].pid /\ procs'[r].id = procs[r].id /\ procs'[r].q = procs[r].q
    <3>1. procs[r] # None /\ procs[r] \in Process /\ r # p
      BY <1>1, <2>1, <2>3
    <3>2. procs'[r] \in {procs[r], [procs[r] EXCEPT !.ppid = 1]}
      BY <2>1, <3>1
    <3> QED
      BY <2>2, <3>1, <3>2 DEF Process
  <2>4. procs' \in [Pids -> Process \cup {None}]
    BY <2>1, <2>3
  <2>5. Ids'
    BY <1>1, <2>1, <2>3 DEF Ids
  <2>6. ASSUME NEW r \in since'
        PROVE  procs'[r] # None /\ procs'[r].q = procs[r].q /\ procs'[r].id = procs[r].id
    <3>1. r \in Pids /\ r # p /\ procs[r] # None
      BY <1>1, <2>1
    <3>2. procs'[r] # None
      BY <1>1, <2>1, <2>2, <3>1, NoneIsNoProcess
    <3> QED
      BY <2>3, <3>1, <3>2
  <2>7. starts' \in 0..MaxStarts /\ starts <= starts' /\ since' \subseteq since
    BY <1>1, <2>1
  <2>8. ASSUME NEW r \in Pids, procs'[r] # None
        PROVE  procs[r] # None /\ procs[r].id = procs'[r].id /\ procs'[r].q = procs[r].q
    BY <2>3, <2>8
  <2> QED
    BY <2>4, <2>5, <2>6, <2>7, <2>8
<1>4. CASE Start(p)
  <2>1. procs[p] = None /\ starts < MaxStarts /\ starts' = starts + 1 /\ since' = since
    BY <1>4 DEF Start
  <2>2. PICK parent \in {r \in Pids : procs[r] # None}, q \in Programs :
          procs' = [procs EXCEPT ![p] = New(p, parent, starts + 1, q)]
    BY <1>4 DEF Start
  <2>3. New(p, parent, starts + 1, q) \in Process
    BY <1>1, <1>2, <2>1 DEF New, Process, Pids
  <2>4. procs' \in [Pids -> Process \cup {None}]
    BY <1>1, <2>2, <2>3
  <2>5. procs'[p].pid = p /\ procs'[p].id = starts + 1
    BY <1>1, <2>2 DEF New
  <2>6. \A r \in Pids : r # p => procs'[r] = procs[r]
    BY <1>1, <2>2
  <2>7. Ids'
    <3>1. ASSUME NEW r \in Pids, r # p, procs'[r] # None
          PROVE  procs'[r] \in Process /\ procs'[r].pid = r /\ procs'[r].id <= starts'
      <4>1. procs[r] \in Process /\ procs[r].pid = r /\ procs[r].id <= starts
        BY <1>1, <2>6, <3>1 DEF Ids
      <4>2. procs[r].id \in 0..MaxStarts
        BY <4>1 DEF Process
      <4> QED
        BY <1>1, <1>2, <2>1, <2>6, <3>1, <4>1, <4>2
    <3>2. procs'[p] \in Process /\ procs'[p].pid = p /\ procs'[p].id <= starts'
      BY <1>1, <2>1, <2>2, <2>3, <2>5
    <3> QED
      BY <3>1, <3>2 DEF Ids
  <2>8. \A r \in since : r # p
    BY <1>1, <2>1
  <2> QED
    BY <1>1, <1>2, <2>1, <2>4, <2>5, <2>6, <2>7, <2>8
<1> QED
  BY <1>3, <1>4

LEMMA OthersKeep ==
  ASSUME IInv, NEW p \in Pids, Exit(p) \/ Start(p)
  PROVE  IInv'
<1>1. UNCHANGED <<command, at, pid, opened, status, infos, outcome>>
  BY DEF Exit, Start
<1>2. TypeOK'
  BY <1>1, OthersSteps DEF IInv, TypeOK
<1>3. Opened'
  <2> SUFFICES ASSUME at \in {"read_status", "read_stat"} PROVE Opened'
    BY <1>1 DEF Opened
  <2>1. /\ opened \in Process /\ opened.pid = pid /\ opened.id <= starts
        /\ StillThere => procs[pid].q = opened.q
        /\ pid \in since => StillThere
    BY DEF IInv, Opened
  <2>. opened \in Process /\ opened.pid = pid /\ opened.id <= starts
    BY <2>1
  <2>2. opened.id \in 0..starts /\ pid \in Pids
    <3>1. opened.id \in 0..MaxStarts /\ opened.pid \in Pids
      BY DEF Process
    <3>2. starts \in 0..MaxStarts
      BY DEF IInv, TypeOK
    <3> QED
      BY <3>1, <3>2, Sizes
  <2>3. StillThere' => StillThere /\ procs'[pid].q = procs[pid].q
    BY <1>1, <2>2, OthersSteps DEF StillThere
  <2>4. pid \in since' => StillThere'
    BY <1>1, <2>1, OthersSteps DEF StillThere
  <2>5. opened.id <= starts'
    <3>1. starts' \in 0..MaxStarts /\ starts <= starts' /\ starts \in 0..MaxStarts
      BY OthersSteps DEF IInv, TypeOK
    <3> QED
      BY <2>2, <3>1, Sizes
  <2> QED
    BY <1>1, <2>1, <2>3, <2>4, <2>5 DEF Opened
<1>4. Known'
  BY <1>1, OthersSteps DEF IInv, Known
<1>5. \A r \in since' : r \in since /\ (Wanted(r)' => Wanted(r))
  BY OthersSteps DEF Wanted
<1>6. Collected'
  BY <1>1, <1>5 DEF IInv, Collected, Behind
<1>7. PlainNamesRight'
  BY <1>1 DEF IInv, PlainNamesRight
<1>8. NoneMissed'
  BY <1>1, <1>5 DEF IInv, NoneMissed, Wanted
<1> QED
  BY <1>2, <1>3, <1>4, <1>6, <1>7, <1>8, OthersSteps DEF IInv

-----------------------------------------------------------------------------
(* Steps of the scan.                                                       *)

LEMMA IdsKept ==
  ASSUME IInv, UNCHANGED world
  PROVE  Ids'
  BY DEF IInv, Ids, world

LEMMA ReadDirKeeps ==
  ASSUME IInv, ReadDir
  PROVE  IInv'
<1>1. /\ at = "dir" /\ at' = "status"
      /\ UNCHANGED <<procs, starts, since, command, opened, status, infos, outcome>>
  BY DEF ReadDir, world
<1>2. PICK n \in (pid + 1)..NPids :
        pid' = n /\ procs[n] # None /\ \A r \in (pid + 1)..(n - 1) : procs[r] = None
  BY DEF ReadDir
<1>3. pid \in 0..NPids /\ since \subseteq {p \in Pids : procs[p] # None}
  BY DEF IInv, TypeOK
<1>4. pid' \in Pids
  BY <1>2, <1>3, Sizes DEF Pids
<1>5. TypeOK'
  BY <1>1, <1>4, Sizes DEF IInv, TypeOK, Pids
<1>6. Opened' /\ Known'
  BY <1>1 DEF Opened, Known
<1>7. Collected'
  <2>1. Behind = 1..pid /\ Behind' = 1..(n - 1)
    BY <1>1, <1>2 DEF Behind
  <2>2. 1..pid \subseteq 1..(n - 1)
    BY <1>3, Sizes
  <2>3. ASSUME NEW r \in since, r \in 1..(n - 1)
        PROVE  r \in 1..pid
    <3>1. procs[r] # None
      BY <1>3
    <3>2. r \notin (pid + 1)..(n - 1)
      BY <1>2, <3>1
    <3> QED
      BY <1>3, <2>3, <3>2, Sizes
  <2> QED
    BY <1>1, <2>1, <2>2, <2>3 DEF IInv, Collected, Wanted
<1>8. PlainNamesRight' /\ NoneMissed'
  BY <1>1 DEF IInv, PlainNamesRight, NoneMissed
<1> QED
  BY <1>1, <1>5, <1>6, <1>7, <1>8, IdsKept DEF IInv, world

LEMMA EndOfDirKeeps ==
  ASSUME IInv, EndOfDir
  PROVE  IInv'
<1>1. /\ at = "dir" /\ at' = "select"
      /\ UNCHANGED <<procs, starts, since, command, pid, opened, status, infos, outcome>>
      /\ \A p \in (pid + 1)..NPids : procs[p] = None
  BY DEF EndOfDir, world
<1>2. pid \in 0..NPids /\ since \subseteq {p \in Pids : procs[p] # None}
  BY DEF IInv, TypeOK
<1>3. TypeOK'
  BY <1>1 DEF IInv, TypeOK
<1>4. Opened' /\ Known'
  BY <1>1 DEF Opened, Known
<1>5. Collected'
  <2>1. Behind = 1..pid /\ Behind' = Pids /\ 1..pid \subseteq Pids
    BY <1>1, <1>2, Sizes DEF Behind, Pids
  <2>2. ASSUME NEW r \in since
        PROVE  r \in 1..pid
    BY <1>1, <1>2, Sizes DEF Pids
  <2> QED
    BY <1>1, <2>1, <2>2 DEF IInv, Collected, Wanted
<1>6. PlainNamesRight' /\ NoneMissed'
  BY <1>1 DEF IInv, PlainNamesRight, NoneMissed
<1> QED
  BY <1>1, <1>3, <1>4, <1>5, <1>6, IdsKept DEF IInv, world

\* Nothing is collected as long as the same process is dealt with.
LEMMA SameEntry ==
  ASSUME IInv, UNCHANGED <<world, command, pid, infos, outcome>>,
         at \in {"status", "read_status", "stat", "read_stat"},
         at' \in {"status", "read_status", "stat", "read_stat"}
  PROVE  Ids' /\ Collected' /\ PlainNamesRight' /\ NoneMissed'
<1>1. Behind' = Behind
  BY DEF Behind
<1>2. Collected'
  BY <1>1 DEF IInv, Collected, Wanted, world
<1> QED
  BY <1>2, IdsKept DEF IInv, PlainNamesRight, NoneMissed, world

LEMMA OpenKeeps ==
  ASSUME IInv, Open("status", "read_status") \/ Open("stat", "read_stat")
  PROVE  IInv'
<1>1. /\ UNCHANGED <<procs, starts, since, command, pid, status, infos, outcome>>
      /\ (at = "status" /\ at' = "read_status") \/ (at = "stat" /\ at' = "read_stat")
      /\ procs[pid] # None /\ opened' = procs[pid]
  BY DEF Open, world
<1>2. pid \in Pids /\ procs[pid] \in Process /\ procs[pid].pid = pid /\ procs[pid].id <= starts
  BY <1>1 DEF IInv, TypeOK, Ids
<1>3. TypeOK'
  BY <1>1, <1>2 DEF IInv, TypeOK
<1>4. Opened'
  BY <1>1, <1>2 DEF Opened, StillThere
<1>5. Known'
  BY <1>1 DEF IInv, Known
<1> QED
  BY <1>1, <1>3, <1>4, <1>5, SameEntry DEF IInv, world

LEMMA ReadStatusKeeps ==
  ASSUME IInv, ReadStatus
  PROVE  IInv'
<1>1. /\ UNCHANGED <<procs, starts, since, command, pid, opened, infos, outcome>>
      /\ at = "read_status" /\ at' = "stat" /\ StillThere /\ status' = procs[pid]
  BY DEF ReadStatus, world
<1>2. pid \in Pids /\ procs[pid] \in Process
  BY <1>1 DEF IInv, TypeOK, Opened, Process, StillThere
<1>3. TypeOK'
  BY <1>1, <1>2 DEF IInv, TypeOK
<1>4. Opened' /\ Known'
  BY <1>1, <1>2 DEF Opened, Known
<1> QED
  BY <1>1, <1>3, <1>4, SameEntry DEF IInv, world

\* An error, of a process that is not the one looked for.
LEMMA ErrorKeeps ==
  ASSUME IInv, Error, at \in {"status", "read_status", "stat", "read_stat"},
         pid \in since => ~Wanted(pid)
  PROVE  IInv'
<1>1. UNCHANGED <<procs, starts, since, command, pid, opened, status, infos>>
  BY DEF Error, world
<1>2. \/ command = "terminal" /\ at' = "dir" /\ outcome' = outcome
      \/ command # "terminal" /\ at' = "end" /\ outcome' = Ended("error")
  BY Zenon DEF Error, Finish
<1>3. TypeOK'
  BY <1>1, <1>2 DEF IInv, TypeOK
<1>4. Opened' /\ Known'
  BY <1>2 DEF Opened, Known
<1>5. Collected'
  <2> SUFFICES ASSUME command = "terminal", at' = "dir" PROVE Collected'
    BY <1>1, <1>2 DEF Collected
  <2>1. Behind = 1..(pid - 1) /\ Behind' = 1..pid
    BY <1>1 DEF Behind
  <2>2. pid \in 0..NPids
    BY DEF IInv, TypeOK
  <2>3. 1..(pid - 1) \subseteq 1..pid /\ \A r \in 1..pid : r = pid \/ r \in 1..(pid - 1)
    BY <2>2, Sizes
  <2> QED
    BY <1>1, <2>1, <2>3 DEF IInv, Collected, Wanted
<1>6. PlainNamesRight'
  BY <1>1 DEF IInv, PlainNamesRight
<1>7. NoneMissed'
  BY <1>1, <1>2 DEF IInv, NoneMissed
<1> QED
  BY <1>1, <1>3, <1>4, <1>5, <1>6, <1>7, IdsKept DEF IInv, world

LEMMA PanicKeeps ==
  ASSUME IInv, Panic
  PROVE  IInv'
<1>1. /\ UNCHANGED <<procs, starts, since, command, pid, opened, status, infos>>
      /\ at' = "end" /\ outcome' = Ended("panic")
  BY Zenon DEF Panic, Finish, world
<1>2. outcome'.kind = "panic"
  BY <1>1 DEF Ended
<1>3. TypeOK'
  BY <1>1 DEF IInv, TypeOK
<1>4. Opened' /\ Known' /\ Collected' /\ PlainNamesRight' /\ NoneMissed'
  BY <1>1, <1>2 DEF IInv, Opened, Known, Collected, PlainNamesRight, NoneMissed
<1> QED
  BY <1>1, <1>3, <1>4, IdsKept DEF IInv, world

\* What is read of the process looked for, if it has been there all the time.
LEMMA WantedRead ==
  ASSUME IInv, at = "read_stat", pid \in since, Wanted(pid)
  PROVE  StillThere /\ TtyNr.ok /\ ~status.q.nested /\ Pts(TtyNr.value) = Terminal
<1>1. opened \in Process /\ StillThere /\ procs[pid].q = opened.q /\ status.q = procs[pid].q
  BY DEF IInv, Opened, Known
<1>2. Plain(opened.q.name) /\ ~status.q.nested /\ Pts(opened.q.tty) = Terminal
  BY <1>1, Zenon DEF Wanted
<1>3. TtyNr = [ok |-> TRUE, value |-> opened.q.tty]
  BY <1>1, <1>2, PlainRead DEF TtyNr
<1> QED
  BY <1>1, <1>2, <1>3

LEMMA FailuresKeep ==
  ASSUME IInv, OpenFails \/ StatGone \/ StatUnreadable
  PROVE  IInv'
<1>1. CASE OpenFails
  <2>1. at \in {"status", "stat"} /\ procs[pid] = None /\ Error
    BY <1>1 DEF OpenFails
  <2>2. pid \notin since
    BY <2>1 DEF IInv, TypeOK
  <2> QED
    BY <2>1, <2>2, ErrorKeeps
<1>2. CASE StatGone
  <2>1. at = "read_stat" /\ ~StillThere /\ Error
    BY <1>2 DEF StatGone
  <2> QED
    BY <2>1, WantedRead, ErrorKeeps
<1>3. CASE StatUnreadable
  <2>1. at = "read_stat" /\ ~TtyNr.ok /\ Error
    BY <1>3 DEF StatUnreadable
  <2> QED
    BY <2>1, WantedRead, ErrorKeeps
<1> QED
  BY <1>1, <1>2, <1>3

LEMMA ReadStatKeeps ==
  ASSUME IInv, ReadStat
  PROVE  IInv'
<1> DEFINE e == [of |-> opened, pts |-> Pts(TtyNr.value)]
<1>1. /\ UNCHANGED <<procs, starts, since, command, opened, status>>
      /\ at = "read_stat" /\ StillThere /\ TtyNr.ok /\ ~status.q.nested
      /\ infos' = Append(infos, e)
  BY DEF ReadStat, world
<1>2. \/ command = "terminal" /\ at' = "dir" /\ pid' = pid /\ outcome' = outcome
      \/ /\ command # "terminal" /\ pid' = status.ppid
         /\ at' \in {"print", "status"} /\ (at' = "status" => status.ppid # 0) /\ outcome' = outcome
  BY DEF ReadStat
<1>3. opened \in Process /\ opened.pid = pid /\ status \in Process
  BY <1>1 DEF IInv, Opened, Known
<1>4. e \in [of : Process, pts : Nat \cup {NotAPts}]
  <2>1. TtyNr.value \in Nat
    BY <1>1, <1>3, ReadType DEF TtyNr
  <2>2. Pts(TtyNr.value) \in Nat \cup {NotAPts}
    BY <2>1, PtsType
  <2> QED
    BY <1>3, <2>2
<1>5. infos \in Seq([of : Process, pts : Nat \cup {NotAPts}])
  BY DEF IInv, TypeOK
<1>6. Plain(opened.q.name) => e.pts = Pts(opened.q.tty)
  BY <1>3, PlainRead DEF TtyNr
<1>7. Wanted(pid) /\ pid \in since => e.pts = Terminal
  BY <1>1, WantedRead
<1>8. e.of = opened
  OBVIOUS
<1> HIDE DEF e
<1>9. /\ infos' \in Seq([of : Process, pts : Nat \cup {NotAPts}])
      /\ DOMAIN infos' = DOMAIN infos \cup {Len(infos) + 1}
      /\ infos'[Len(infos) + 1] = e /\ \A i \in DOMAIN infos : infos'[i] = infos[i]
  BY <1>1, <1>4, <1>5
<1>10. TypeOK'
  <2>1. status.ppid \in 0..NPids /\ (status.ppid # 0 => status.ppid \in Pids)
    BY <1>3, Sizes DEF Process, Pids
  <2>2. pid' \in 0..NPids /\ (at' \in {"status", "stat"} => pid' \in Pids)
    BY <1>2, <2>1 DEF IInv, TypeOK
  <2>3. at' \in {"dir", "status", "print"}
    BY <1>2
  <2>4. outcome' \in {Ended(k) : k \in {"pending", "error", "panic", "absent", "printed"}}
               \cup {Found(p) : p \in Pids}
    BY <1>2, Zenon DEF IInv, TypeOK
  <2> QED
    BY <1>1, <1>9, <2>2, <2>3, <2>4 DEF IInv, TypeOK
<1>11. Opened' /\ Known'
  BY <1>2 DEF Opened, Known
<1>12. Collected'
  <2> SUFFICES ASSUME command = "terminal" PROVE Collected'
    BY <1>1 DEF Collected
  <2>1. at' = "dir" /\ pid' = pid
    BY <1>2
  <2>2. Behind = 1..(pid - 1) /\ Behind' = 1..pid
    BY <1>1, <2>1 DEF Behind
  <2>3. pid \in Pids
    BY <1>3 DEF Process
  <2>4. \A i \in DOMAIN infos : infos[i].of.pid \in 1..(pid - 1)
    BY <1>1, <2>2 DEF IInv, Collected
  <2>5. \A i \in DOMAIN infos' : infos'[i].of.pid \in 1..pid
    BY <1>3, <1>8, <1>9, <2>3, <2>4, Sizes DEF Pids
  <2>6. ASSUME NEW i \in DOMAIN infos', NEW j \in DOMAIN infos', i <= j
        PROVE  infos'[i].of.pid <= infos'[j].of.pid
    <3>1. CASE j = Len(infos) + 1
      BY <1>3, <1>8, <1>9, <2>3, <2>5, <3>1, Sizes DEF Pids
    <3>2. CASE j \in DOMAIN infos
      <4>1. i \in DOMAIN infos
        BY <1>5, <1>9, <2>6, <3>2
      <4>2. infos[i].of.pid <= infos[j].of.pid
        BY <1>1, <2>6, <3>2, <4>1 DEF IInv, Collected
      <4> QED
        BY <1>9, <3>2, <4>1, <4>2
    <3> QED
      BY <1>9, <3>1, <3>2
  <2>7. ASSUME NEW p \in since', p \in 1..pid, Wanted(p)'
        PROVE  \E i \in DOMAIN infos' : infos'[i].of.pid = p /\ infos'[i].pts = Terminal
    <3>1. p \in since /\ Wanted(p)
      BY <1>1, <2>7 DEF Wanted
    <3>2. CASE p = pid
      BY <1>3, <1>7, <1>8, <1>9, <3>1, <3>2
    <3>3. CASE p # pid
      <4>1. p \in 1..(pid - 1)
        BY <2>3, <2>7, <3>3, Sizes DEF Pids
      <4>2. PICK i \in DOMAIN infos : infos[i].of.pid = p /\ infos[i].pts = Terminal
        BY <1>1, <2>2, <3>1, <4>1 DEF IInv, Collected
      <4> QED
        BY <1>9, <4>2
    <3> QED
      BY <3>2, <3>3
  <2> QED
    BY <2>2, <2>5, <2>6, <2>7 DEF Collected
<1>13. PlainNamesRight'
  BY <1>6, <1>8, <1>9 DEF IInv, PlainNamesRight
<1>14. NoneMissed'
  BY <1>1, <1>2 DEF IInv, NoneMissed
<1> QED
  BY <1>1, <1>10, <1>11, <1>12, <1>13, <1>14, IdsKept DEF IInv, world

LEMMA SelectKeeps ==
  ASSUME IInv, Select
  PROVE  IInv'
<1> DEFINE there == {i \in DOMAIN infos : infos[i].pts = Terminal}
<1>1. /\ UNCHANGED <<procs, starts, since, command, pid, opened, status, infos>>
      /\ at = "select" /\ at' = "end"
  BY DEF Select, Finish, world
<1>2. outcome' = IF there = {} THEN Ended("absent") ELSE Found(infos[Min(there)].of.pid)
  BY Zenon DEF Select, Finish
<1>3. infos \in Seq([of : Process, pts : Nat \cup {NotAPts}])
  BY DEF IInv, TypeOK
<1>4. there \in SUBSET Nat
  BY <1>3
<1>5. there # {} =>
        /\ Min(there) \in DOMAIN infos /\ infos[Min(there)].of.pid \in Pids
        /\ \A i \in there : Min(there) <= i
  <2> SUFFICES ASSUME there # {} PROVE
        /\ Min(there) \in DOMAIN infos /\ infos[Min(there)].of.pid \in Pids
        /\ \A i \in there : Min(there) <= i
    OBVIOUS
  <2>1. Min(there) \in there /\ \A i \in there : Min(there) <= i
    BY <1>4, MinExists
  <2>2. Min(there) \in DOMAIN infos
    BY <2>1
  <2>3. infos[Min(there)].of \in Process
    <3> DEFINE Info == [of : Process, pts : Nat \cup {NotAPts}]
    <3>1. \A x \in Info : x.of \in Process
      OBVIOUS
    <3> HIDE DEF there, Info
    <3>2. infos \in Seq(Info)
      BY <1>3 DEF Info
    <3>3. infos[Min(there)] \in Info
      BY <2>2, <3>2
    <3> QED
      BY <3>1, <3>3
  <2> QED
    BY <2>1, <2>2, <2>3 DEF Process
<1>6. \A i \in DOMAIN infos : i \in there <=> infos[i].pts = Terminal
  OBVIOUS
<1> HIDE DEF there
<1>7. \/ there = {} /\ outcome' = Ended("absent") /\ outcome'.kind = "absent"
      \/ /\ there # {} /\ outcome' = Found(infos[Min(there)].of.pid)
         /\ outcome'.kind = "found" /\ outcome'.pid = infos[Min(there)].of.pid
  BY <1>2 DEF Ended, Found
<1>8. TypeOK'
  <2>1. outcome' \in {Ended(k) : k \in {"pending", "error", "panic", "absent", "printed"}}
               \cup {Found(p) : p \in Pids}
    BY <1>5, <1>7, Zenon
  <2> QED
    BY <1>1, <2>1 DEF IInv, TypeOK
<1>9. Opened' /\ Known' /\ Collected' /\ PlainNamesRight'
  BY <1>1 DEF IInv, Opened, Known, Collected, PlainNamesRight
<1>10. NoneMissed'
  <2> SUFFICES ASSUME command = "terminal", NEW p \in since, Wanted(p)
               PROVE  outcome'.kind = "found" /\ outcome'.pid <= p
    BY <1>1 DEF NoneMissed, Wanted
  <2>1. p \in Pids /\ Behind = Pids
    BY <1>1 DEF IInv, TypeOK, Behind
  <2>2. PICK i \in DOMAIN infos : infos[i].of.pid = p /\ infos[i].pts = Terminal
    BY <1>1, <2>1 DEF IInv, Collected
  <2>3. i \in there
    BY <1>6, <2>2
  <2>4. infos[Min(there)].of.pid <= infos[i].of.pid
    BY <1>1, <1>5, <2>3 DEF IInv, Collected
  <2> QED
    BY <1>7, <2>2, <2>3, <2>4
<1> QED
  BY <1>1, <1>8, <1>9, <1>10, IdsKept DEF IInv, world

LEMMA PrintTreeKeeps ==
  ASSUME IInv, PrintTree
  PROVE  IInv'
<1>1. /\ UNCHANGED <<procs, starts, since, command, pid, opened, status, infos>>
      /\ at' = "end" /\ (outcome' = Ended("printed") \/ outcome' = Ended("error"))
  BY DEF PrintTree, Finish, world
<1>2. outcome'.kind \notin {"found", "absent"}
  BY <1>1 DEF Ended
<1>3. TypeOK'
  BY <1>1 DEF IInv, TypeOK
<1>4. Opened' /\ Known' /\ Collected' /\ PlainNamesRight' /\ NoneMissed'
  BY <1>1, <1>2 DEF IInv, Opened, Known, Collected, PlainNamesRight, NoneMissed
<1> QED
  BY <1>1, <1>3, <1>4, IdsKept DEF IInv, world

-----------------------------------------------------------------------------

LEMMA NextKeeps == IInv /\ [Next]_vars => IInv'
<1> SUFFICES ASSUME IInv, [Next]_vars PROVE IInv'
    OBVIOUS
<1>1. CASE ReadDir
  BY <1>1, ReadDirKeeps
<1>2. CASE EndOfDir
  BY <1>2, EndOfDirKeeps
<1>3. CASE Open("status", "read_status") \/ Open("stat", "read_stat")
  BY <1>3, OpenKeeps
<1>4. CASE OpenFails \/ StatGone \/ StatUnreadable
  BY <1>4, FailuresKeep
<1>5. CASE ReadStatus
  BY <1>5, ReadStatusKeeps
<1>6. CASE StatusGone \/ ReadPanics
  BY <1>6, PanicKeeps DEF StatusGone, ReadPanics
<1>7. CASE ReadStat
  BY <1>7, ReadStatKeeps
<1>8. CASE Select
  BY <1>8, SelectKeeps
<1>9. CASE \E p \in Pids : Exit(p) \/ Start(p)
  BY <1>9, OthersKeep
<1>11. CASE PrintTree
  BY <1>11, PrintTreeKeeps
<1>10. CASE UNCHANGED vars
  BY <1>10 DEF vars, IInv, TypeOK, Ids, Opened, StillThere, Known, Collected, Behind, Wanted,
               PlainNamesRight, NoneMissed
<1> QED
  BY <1>1, <1>2, <1>3, <1>4, <1>5, <1>6, <1>7, <1>8, <1>9, <1>10, <1>11 DEF Next, Scan

\* The invariant holds of every process table and search.
THEOREM Invariance == Spec => []IInv
<1> QED
  BY InitHolds, NextKeeps, PTL DEF Spec

\* Type correctness.
THEOREM TypeCorrect == Spec => []TypeOK
<1>1. IInv => TypeOK
  BY DEF IInv
<1> QED
  BY Invariance, <1>1, PTL

\* What is collected of a process with a plain name is its terminal, whichever
\* processes end and start meanwhile (procinfo.rs 172-232).
THEOREM PlainRight == Spec => []PlainNamesRight
<1>1. IInv => PlainNamesRight
  BY DEF IInv
<1> QED
  BY Invariance, <1>1, PTL

\* The search returns the first process on the terminal or an earlier one, if one
\* is there all the time (procinfo.rs 100-161).
THEOREM NotMissed == Spec => []NoneMissed
<1>1. IInv => NoneMissed
  BY DEF IInv
<1> QED
  BY Invariance, <1>1, PTL
-----------------------------------------------------------------------------
(* Panics.                                                                  *)

\* The index is negative only behind seven words of a name.
LEMMA PanicRead ==
  ASSUME NEW p \in Process, ~ReadTtyNr(Line(p)).ok, ReadTtyNr(Line(p)).panic
  PROVE  p.q.name.ends >= 7
<1> DEFINE i == 6 - Offset(Line(p)) + 1
<1>1. i < 1
  <2>1. ASSUME ~(i < 1), ~Line(p)[i].number
        PROVE  ReadTtyNr(Line(p)) = [ok |-> FALSE, panic |-> FALSE]
    BY <2>1, Zenon DEF ReadTtyNr
  <2>2. ASSUME ~(i < 1), Line(p)[i].number
        PROVE  ReadTtyNr(Line(p)) = [ok |-> TRUE, value |-> Line(p)[i].value]
    BY <2>2, Zenon DEF ReadTtyNr
  <2>3. ~[ok |-> FALSE, panic |-> FALSE].panic /\ \A v : [ok |-> TRUE, value |-> v].ok
    OBVIOUS
  <2> QED
    BY <2>1, <2>2, <2>3, Zenon
<1>2. Offset(Line(p)) \in 0..p.q.name.ends /\ p.q.name.ends \in 0..p.q.name.extra /\ p.q.name.extra \in 0..7
  BY OffsetBounds
<1> QED
  BY <1>1, <1>2

\* The walk up the tree reads no directory, and the search prints no tree.
OwnSteps == at \notin IF command = "terminal" THEN {"print"} ELSE {"dir", "select"}

LEMMA OwnStepsKept == OwnSteps /\ [Next]_vars => OwnSteps'
<1>1. [Next]_vars => command' = command
  BY DEF Next, Scan, vars, ReadDir, EndOfDir, Open, OpenFails, ReadStatus, StatusGone, StatGone, ReadStat,
         StatUnreadable, ReadPanics, Select, PrintTree, Error, Panic, Exit, Start
<1> QED
  BY <1>1 DEF OwnSteps, Next, Scan, vars, ReadDir, EndOfDir, Open, OpenFails, ReadStatus, StatusGone,
         StatGone, ReadStat, StatUnreadable, ReadPanics, Select, PrintTree, Error, Panic, Exit, Start, Finish

\* What a panic was about stays as it is: a process that has ended does not
\* come back, although its pid may.
Caused ==
  /\ at # "end" => outcome.kind = "pending"
  /\ command = "terminal" => outcome.kind # "error"
  /\ outcome.kind = "panic" =>
       /\ opened \in Process /\ opened.pid = pid /\ opened.id <= starts
       /\ ~StillThere \/ status.q.nested \/ opened.q.name.ends >= 7

LEMMA CausedKept == IInv /\ Caused /\ OwnSteps /\ [Next]_vars => Caused'
<1> SUFFICES ASSUME IInv, Caused, OwnSteps, [Next]_vars PROVE Caused'
    OBVIOUS
<1>1. CASE ReadDir \/ EndOfDir \/ Open("status", "read_status") \/ Open("stat", "read_stat") \/ ReadStatus
  <2>1. outcome.kind = "pending" /\ outcome' = outcome
    BY <1>1 DEF ReadDir, EndOfDir, Open, ReadStatus, Caused
  <2> QED
    BY <2>1 DEF Caused
<1>2. CASE OpenFails \/ StatGone \/ StatUnreadable
  <2>1. at # "end" /\ outcome.kind = "pending" /\ Error
    BY <1>2 DEF OpenFails, StatGone, StatUnreadable, Caused
  <2>2. Ended("error").kind = "error"
    BY DEF Ended
  <2>3. \/ command = "terminal" /\ outcome' = outcome /\ UNCHANGED command
        \/ command # "terminal" /\ at' = "end" /\ outcome' = Ended("error") /\ UNCHANGED command
    BY <2>1 DEF Error, Finish
  <2> QED
    BY <2>1, <2>2, <2>3 DEF Caused
<1>3. CASE StatusGone \/ ReadPanics
  <2>1. at' = "end" /\ outcome' = Ended("panic") /\ UNCHANGED <<world, command, pid, opened, status>>
    BY <1>3 DEF StatusGone, ReadPanics, Panic, Finish
  <2>2. Ended("panic").kind = "panic"
    BY DEF Ended
  <2>3. opened \in Process /\ opened.pid = pid /\ opened.id <= starts
    BY <1>3 DEF StatusGone, ReadPanics, IInv, Opened
  <2>4. ~StillThere \/ status.q.nested \/ opened.q.name.ends >= 7
    BY <1>3, <2>3, PanicRead DEF StatusGone, ReadPanics, TtyNr
  <2> QED
    BY <2>1, <2>2, <2>3, <2>4 DEF Caused, StillThere, world
<1>4. CASE ReadStat
  BY <1>4 DEF ReadStat, Caused
<1>5. CASE Select
  <2>1. at' = "end" /\ (outcome' = Ended("absent") \/ \E p : outcome' = Found(p))
    BY <1>5 DEF Select, Finish
  <2>2. Ended("absent").kind = "absent" /\ \A p : Found(p).kind = "found"
    BY DEF Ended, Found
  <2> QED
    BY <2>1, <2>2 DEF Caused
<1>6. ASSUME NEW p \in Pids, Exit(p) \/ Start(p) PROVE Caused'
  <2>1. UNCHANGED <<command, at, pid, opened, status, outcome>>
    BY <1>6 DEF Exit, Start
  <2>2. CASE outcome.kind # "panic"
    BY <2>1, <2>2 DEF Caused
  <2>3. CASE outcome.kind = "panic"
    <3>1. opened \in Process /\ opened.pid = pid /\ opened.id <= starts
      BY <2>3 DEF Caused
    <3>2. starts' \in 0..MaxStarts /\ starts <= starts' /\ starts \in 0..MaxStarts
      BY <1>6, OthersSteps DEF IInv, TypeOK
    <3>3. opened.id \in 0..starts /\ opened.id <= starts' /\ pid \in Pids
      <4>1. opened.id \in 0..MaxStarts /\ opened.pid \in Pids
        BY <3>1 DEF Process
      <4> QED
        BY <3>1, <3>2, <4>1, Sizes
    <3>4. StillThere' => StillThere
      BY <1>6, <2>1, <3>3, OthersSteps DEF StillThere
    <3> QED
      BY <2>1, <3>1, <3>3, <3>4 DEF Caused
  <2> QED
    BY <2>2, <2>3
<1>7. CASE UNCHANGED vars
  BY <1>7 DEF vars, Caused, StillThere
<1>8. CASE PrintTree
  <2>1. at' = "end" /\ command' = command /\ command # "terminal"
    BY <1>8 DEF PrintTree, Finish, OwnSteps
  <2>2. outcome' = Ended("printed") \/ outcome' = Ended("error")
    BY <1>8 DEF PrintTree, Finish
  <2>3. outcome'.kind # "panic"
    BY <2>2 DEF Ended
  <2> QED
    BY <2>1, <2>3 DEF Caused
<1> QED
  BY <1>1, <1>2, <1>3, <1>4, <1>5, <1>6, <1>7, <1>8 DEF Next, Scan

\* The search does not fail, and panics only about a process that has ended, is
\* in a pid namespace, or has a name of eight words (procinfo.rs 178, 197, 230).
THEOREM PanicsHaveCauses == Spec => []PanicNeedsCause
<1>1. Init => Caused /\ OwnSteps
  <2>1. Ended("pending").kind = "pending"
    BY DEF Ended
  <2> QED
    BY <2>1, Zenon DEF Init, Caused, OwnSteps
<1>2. Caused => PanicNeedsCause
  BY DEF Caused, PanicNeedsCause
<1> QED
  BY <1>1, <1>2, CausedKept, OwnStepsKept, Invariance, PTL DEF Spec

-----------------------------------------------------------------------------
(* The scan gets nearer to its end.                                         *)

\* The first process is there, a parent is there, and it is the first process
\* or one that started earlier.
Ancestry ==
  /\ procs[1] # None
  /\ \A p \in Pids :
       procs[p] # None =>
         IF p = 1 THEN procs[p].ppid = 0
         ELSE /\ procs[p].ppid \in Pids /\ procs[procs[p].ppid] # None
              /\ procs[p].ppid = 1 \/ procs[procs[p].ppid].id < procs[p].id

\* How many processes can follow on the walk from pid p, if none starts.
Height(p) == IF p = 0 THEN 0 ELSE IF p = 1 \/ procs[p] = None THEN 1 ELSE procs[p].id + 2

\* How many steps can follow on the search, and on the walk.
EntriesLeft ==
  CASE at = "end"         -> 0
    [] at = "select"      -> 1
    [] at = "dir"         -> 5 * (NPids - pid) + 2
    [] at = "read_stat"   -> 5 * (NPids - pid) + 3
    [] at = "stat"        -> 5 * (NPids - pid) + 4
    [] at = "read_status" -> 5 * (NPids - pid) + 5
    [] at = "status"      -> 5 * (NPids - pid) + 6

AncestorsLeft ==
  CASE at = "status"      -> 4 * Height(pid) + 2
    [] at = "read_status" -> 4 * Height(pid) + 1
    [] at = "stat"        -> 4 * Height(status.ppid) + 4
    [] at = "read_stat"   -> 4 * Height(status.ppid) + 3
    [] at = "print"       -> 1
    [] OTHER              -> 0

Left == IF command = "terminal" THEN EntriesLeft ELSE AncestorsLeft

\* A step of the scan leaves fewer; other processes leave no more, or use up
\* one of the starts.
GetsNearer ==
  /\ Scan => starts' = starts /\ Left' < Left
  /\ ~Scan => starts < starts' \/ (starts' = starts /\ Left' <= Left)

LEMMA AncestryKept ==
  ASSUME IInv, Ancestry, [Next]_vars
  PROVE  Ancestry'
<1>1. /\ procs \in [Pids -> Process \cup {None}] /\ starts \in 0..MaxStarts /\ Ids
      /\ NPids \in Nat \ {0} /\ MaxStarts \in Nat /\ 1 \in Pids
  BY Sizes DEF IInv, TypeOK, Pids
<1>2. ASSUME NEW p \in Pids, procs[p] # None
      PROVE  procs[p] \in Process /\ procs[p].ppid \in 0..NPids /\ procs[p].id \in 0..MaxStarts /\ procs[p].id <= starts
  BY <1>1, <1>2 DEF Ids, Process
<1>3. CASE procs' = procs
  BY <1>3, Zenon DEF Ancestry
<1>4. ASSUME NEW p \in Pids, Exit(p) PROVE Ancestry'
  <2>1. /\ p # 1 /\ procs[p] # None
        /\ \A r \in Pids :
             procs'[r] = IF r = p THEN None
                         ELSE IF procs[r] # None /\ procs[r].ppid = p THEN [procs[r] EXCEPT !.ppid = 1]
                         ELSE procs[r]
    BY <1>4 DEF Exit
  <2>2. ASSUME NEW r \in Pids, procs[r] # None
        PROVE  /\ [procs[r] EXCEPT !.ppid = 1] \in Process
               /\ [procs[r] EXCEPT !.ppid = 1].ppid = 1 /\ [procs[r] EXCEPT !.ppid = 1].id = procs[r].id
    BY <1>1, <1>2, <2>2 DEF Process, Pids
  <2>3. ASSUME NEW r \in Pids
        PROVE  procs'[r] # None <=> procs[r] # None /\ r # p
    <3>1. procs[r] # None => [procs[r] EXCEPT !.ppid = 1] # None
      BY <2>2, NoneIsNoProcess
    <3> QED BY <2>1, <3>1
  <2>4. ASSUME NEW r \in Pids, procs'[r] # None
        PROVE  /\ procs'[r].id = procs[r].id
               /\ procs'[r].ppid = IF procs[r].ppid = p THEN 1 ELSE procs[r].ppid
    BY <2>1, <2>2, <2>3, <2>4
  <2>5. procs[1].ppid = 0 /\ p # 0 /\ procs'[1] # None
    BY <1>1, <2>1, <2>3 DEF Ancestry, Pids
  <2>6. ASSUME NEW r \in Pids, procs'[r] # None, r # 1
        PROVE  /\ procs'[r].ppid \in Pids /\ procs'[procs'[r].ppid] # None
               /\ procs'[r].ppid = 1 \/ procs'[procs'[r].ppid].id < procs'[r].id
    <3>1. /\ procs[r] # None /\ r # p /\ procs[r].ppid \in Pids /\ procs[procs[r].ppid] # None
          /\ procs[r].ppid = 1 \/ procs[procs[r].ppid].id < procs[r].id
      BY <2>3, <2>6 DEF Ancestry
    <3>2. CASE procs[r].ppid = p
      BY <1>1, <2>4, <2>5, <2>6, <3>2
    <3>3. CASE procs[r].ppid # p
      <4>1. procs'[r].ppid = procs[r].ppid /\ procs'[r].id = procs[r].id
        BY <2>4, <2>6, <3>3
      <4>2. procs'[procs[r].ppid] # None /\ procs'[procs[r].ppid].id = procs[procs[r].ppid].id
        BY <2>3, <2>4, <3>1, <3>3
      <4> QED BY <3>1, <4>1, <4>2
    <3> QED BY <3>2, <3>3
  <2>7. procs'[1].ppid = 0
    BY <1>1, <2>4, <2>5
  <2> QED BY <2>5, <2>6, <2>7 DEF Ancestry
<1>5. ASSUME NEW p \in Pids, Start(p) PROVE Ancestry'
  <2>1. procs[p] = None /\ starts < MaxStarts
    BY <1>5 DEF Start
  <2>2. PICK parent \in {r \in Pids : procs[r] # None}, q \in Programs :
          procs' = [procs EXCEPT ![p] = New(p, parent, starts + 1, q)]
    BY <1>5 DEF Start
  <2>3. /\ New(p, parent, starts + 1, q) \in Process
        /\ New(p, parent, starts + 1, q).ppid = parent /\ New(p, parent, starts + 1, q).id = starts + 1
    BY <1>1, <2>1 DEF New, Process, Pids
  <2>4. p # 1 /\ parent # p /\ parent \in Pids /\ procs[parent] # None
    BY <2>1, <2>2 DEF Ancestry
  <2>5. \A r \in Pids : r # p => procs'[r] = procs[r]
    BY <1>1, <2>2
  <2>6. procs'[p] # None /\ procs'[p].ppid = parent /\ procs'[p].id = starts + 1
    BY <1>1, <2>2, <2>3, NoneIsNoProcess
  <2>7. procs'[parent] # None /\ procs'[parent].id < procs'[p].id
    <3>1. procs[parent].id \in 0..MaxStarts /\ procs[parent].id <= starts
      BY <1>2, <2>4
    <3>2. procs[parent].id < starts + 1
      BY <1>1, <3>1
    <3> QED BY <2>4, <2>5, <2>6, <3>2
  <2>8. ASSUME NEW r \in Pids, r # p, procs'[r] # None, r # 1
        PROVE  /\ procs'[r].ppid \in Pids /\ procs'[procs'[r].ppid] # None
               /\ procs'[r].ppid = 1 \/ procs'[procs'[r].ppid].id < procs'[r].id
    <3>1. /\ procs'[r] = procs[r] /\ procs[r].ppid \in Pids /\ procs[procs[r].ppid] # None
          /\ procs[r].ppid = 1 \/ procs[procs[r].ppid].id < procs[r].id
      BY <2>5, <2>8 DEF Ancestry
    <3>2. procs'[procs[r].ppid] = procs[procs[r].ppid]
      BY <2>1, <2>5, <3>1
    <3> QED BY <3>1, <3>2
  <2>9. procs'[1] = procs[1] /\ procs[1] # None /\ procs[1].ppid = 0
    BY <1>1, <2>4, <2>5 DEF Ancestry
  <2> QED BY <2>4, <2>6, <2>7, <2>8, <2>9 DEF Ancestry
<1>6. Scan \/ UNCHANGED vars => procs' = procs
  BY DEF Scan, vars, ReadDir, EndOfDir, Open, OpenFails, ReadStatus, StatusGone, StatGone, ReadStat,
         StatUnreadable, ReadPanics, Select, PrintTree, Error, Panic, world
<1> QED BY <1>3, <1>4, <1>5, <1>6 DEF Next

LEMMA HeightType ==
  ASSUME IInv, NEW p \in 0..NPids
  PROVE  Height(p) \in Nat /\ (p # 0 => Height(p) >= 1)
<1>1. p # 0 /\ procs[p] # None => procs[p] \in Process
  BY Sizes DEF IInv, Ids, Pids
<1>2. p # 0 /\ procs[p] # None => procs[p].id \in Nat
  BY <1>1, Sizes DEF Process
<1> QED BY <1>2 DEF Height

\* The parent of a process is nearer to the first one.
LEMMA ParentIsNearer ==
  ASSUME IInv, Ancestry, NEW p \in Pids, procs[p] # None
  PROVE  procs[p].ppid \in 0..NPids /\ Height(procs[p].ppid) < Height(p)
<1>1. procs[p] \in Process /\ NPids \in Nat /\ MaxStarts \in Nat
  BY Sizes DEF IInv, Ids
<1>2. procs[p].ppid \in 0..NPids /\ procs[p].id \in Nat /\ p # 0
  BY <1>1 DEF Process, Pids
<1>3. CASE p = 1
  BY <1>2, <1>3 DEF Ancestry, Height
<1>4. CASE p # 1 /\ procs[p].ppid = 1
  BY <1>2, <1>4 DEF Height
<1>5. CASE p # 1 /\ procs[p].ppid # 1
  <2>1. /\ procs[p].ppid \in Pids /\ procs[procs[p].ppid] # None
        /\ procs[procs[p].ppid].id < procs[p].id
    BY <1>5 DEF Ancestry
  <2>2. procs[procs[p].ppid] \in Process
    BY <2>1 DEF IInv, Ids
  <2>3. procs[procs[p].ppid].id \in Nat /\ procs[p].ppid # 0
    BY <1>1, <2>1, <2>2 DEF Process, Pids
  <2>4. Height(procs[p].ppid) = procs[procs[p].ppid].id + 2 /\ Height(p) = procs[p].id + 2
    BY <1>2, <1>5, <2>1, <2>3 DEF Height
  <2> QED BY <1>2, <2>1, <2>3, <2>4
<1> QED BY <1>3, <1>4, <1>5

\* Where an action of the scan leads.
LEMMA LeftType ==
  ASSUME IInv, OwnSteps
  PROVE  Left \in Nat /\ (at # "end" => Left >= 1)
<1>1. /\ pid \in 0..NPids /\ NPids \in Nat /\ command \in {"terminal", "tree"}
      /\ at \in {"dir", "status", "read_status", "stat", "read_stat", "select", "print", "end"}
      /\ at \in {"stat", "read_stat"} => status \in Process
  BY Sizes DEF IInv, TypeOK, Known
<1>2. CASE command = "terminal"
  BY <1>1, <1>2 DEF Left, EntriesLeft, OwnSteps
<1>3. CASE command = "tree"
  <2>1. Height(pid) \in Nat
    BY <1>1, HeightType
  <2>2. at \in {"stat", "read_stat"} => Height(status.ppid) \in Nat
    <3>1. at \in {"stat", "read_stat"} => status.ppid \in 0..NPids
      BY <1>1 DEF Process
    <3> QED BY <3>1, HeightType
  <2>3. Left = AncestorsLeft
    BY <1>3 DEF Left
  <2> HIDE DEF Height
  <2> QED BY <1>1, <1>3, <2>1, <2>2, <2>3 DEF AncestorsLeft, OwnSteps
<1> QED BY <1>1, <1>2, <1>3

LEMMA ScanDescends ==
  ASSUME IInv, IInv', Ancestry, OwnSteps, Scan
  PROVE  starts' = starts /\ Left' < Left
<1>1. /\ pid \in 0..NPids /\ pid' \in 0..NPids /\ NPids \in Nat /\ command \in {"terminal", "tree"}
      /\ Left \in Nat
  BY Sizes, LeftType DEF IInv, TypeOK
<1>2. UNCHANGED <<procs, starts, command>> /\ at # "end" /\ Left >= 1
  <2>1. UNCHANGED <<procs, starts, command>> /\ at # "end"
    BY DEF Scan, ReadDir, EndOfDir, Open, OpenFails, ReadStatus, StatusGone, StatGone, ReadStat,
           StatUnreadable, ReadPanics, Select, PrintTree, Error, Panic, world
  <2> QED BY <2>1, LeftType
<1>3. CASE at' = "end"
  <2>1. Left' = 0
    BY <1>3 DEF Left, EntriesLeft, AncestorsLeft
  <2> QED BY <1>1, <1>2, <2>1
<1>4. CASE at' # "end" /\ command = "terminal"
  <2>1. \/ at = "dir" /\ at' = "status" /\ pid' > pid
        \/ at = "dir" /\ at' = "select" /\ pid' = pid
        \/ at = "status" /\ at' \in {"read_status", "dir"} /\ pid' = pid
        \/ at = "read_status" /\ at' = "stat" /\ pid' = pid
        \/ at = "stat" /\ at' \in {"read_stat", "dir"} /\ pid' = pid
        \/ at = "read_stat" /\ at' = "dir" /\ pid' = pid
    <3>1. CASE ReadDir
      <4>1. PICK p \in (pid + 1)..NPids : pid' = p
        BY <3>1 DEF ReadDir
      <4> QED BY <1>1, <3>1, <4>1 DEF ReadDir
    <3>2. CASE ~ReadDir
      BY <1>4, <3>2 DEF Scan, EndOfDir, Open, OpenFails, ReadStatus, StatusGone, StatGone, ReadStat,
             StatUnreadable, ReadPanics, Select, PrintTree, Error, Panic, Finish
    <3> QED BY <3>1, <3>2
  <2>2. Left = EntriesLeft /\ Left' = EntriesLeft'
    BY <1>2, <1>4 DEF Left
  <2> QED BY <1>1, <1>2, <2>1, <2>2 DEF EntriesLeft
<1>5. CASE at' # "end" /\ command # "terminal"
  <2>1. Left = AncestorsLeft /\ Left' = AncestorsLeft'
    BY <1>2, <1>5 DEF Left
  <2>2. \A p : Height(p)' = Height(p)
    BY <1>2 DEF Height
  <2>3. CASE at = "status"
    <3>1. Open("status", "read_status")
      BY <1>5, <2>3 DEF Scan, ReadDir, EndOfDir, Open, OpenFails, ReadStatus, StatusGone, StatGone, ReadStat,
             StatUnreadable, ReadPanics, Select, PrintTree, Error, Panic, Finish
    <3>2. at' = "read_status" /\ pid' = pid
      BY <3>1 DEF Open
    <3>3. AncestorsLeft = 4 * Height(pid) + 2 /\ AncestorsLeft' = 4 * Height(pid) + 1
      BY <2>2, <2>3, <3>2 DEF AncestorsLeft
    <3>4. Height(pid) \in Nat
      BY <1>1, HeightType
    <3> QED BY <1>2, <2>1, <3>3, <3>4
  <2>4. CASE at = "read_status"
    <3>1. ReadStatus
      BY <1>5, <2>4 DEF Scan, ReadDir, EndOfDir, Open, OpenFails, StatusGone, StatGone, ReadStat,
             StatUnreadable, ReadPanics, Select, PrintTree, Error, Panic, Finish
    <3>2. at' = "stat" /\ status' = procs[pid] /\ procs[pid] # None /\ pid \in Pids
      BY <2>4, <3>1 DEF ReadStatus, StillThere, IInv, Opened, Process
    <3>3. AncestorsLeft = 4 * Height(pid) + 1 /\ AncestorsLeft' = 4 * Height(procs[pid].ppid) + 4
      BY <2>2, <2>4, <3>2 DEF AncestorsLeft
    <3>4. Height(pid) \in Nat /\ Height(procs[pid].ppid) \in Nat /\ Height(procs[pid].ppid) < Height(pid)
      BY <1>1, <3>2, HeightType, ParentIsNearer
    <3> QED BY <1>2, <2>1, <3>3, <3>4
  <2>5. CASE at \in {"stat", "read_stat"}
    <3>1. status \in Process /\ status.ppid \in 0..NPids /\ Height(status.ppid) \in Nat
      <4>1. status \in Process
        BY <2>5 DEF IInv, Known
      <4>2. status.ppid \in 0..NPids
        BY <4>1 DEF Process
      <4> QED BY <4>1, <4>2, HeightType
    <3>2. \/ at = "stat" /\ at' = "read_stat" /\ status' = status
          \/ at = "read_stat" /\ at' = "status" /\ pid' = status.ppid
          \/ at = "read_stat" /\ at' = "print"
      BY <1>5, <2>5 DEF Scan, ReadDir, EndOfDir, Open, OpenFails, ReadStatus, StatusGone, StatGone, ReadStat,
             StatUnreadable, ReadPanics, Select, PrintTree, Error, Panic, Finish
    <3>3. \/ AncestorsLeft = 4 * Height(status.ppid) + 4 /\ AncestorsLeft' = 4 * Height(status.ppid) + 3
          \/ AncestorsLeft = 4 * Height(status.ppid) + 3 /\ AncestorsLeft' = 4 * Height(status.ppid) + 2
          \/ AncestorsLeft = 4 * Height(status.ppid) + 3 /\ AncestorsLeft' = 1
      BY <2>2, <3>2 DEF AncestorsLeft
    <3> QED BY <1>2, <2>1, <3>1, <3>3
  <2>6. at \in {"status", "read_status", "stat", "read_stat"}
    <3>1. at # "print"
      BY <1>5 DEF Scan, ReadDir, EndOfDir, Open, OpenFails, ReadStatus, StatusGone, StatGone, ReadStat,
             StatUnreadable, ReadPanics, Select, PrintTree, Error, Panic, Finish
    <3> QED BY <1>1, <1>2, <1>5, <3>1 DEF IInv, TypeOK, OwnSteps
  <2> QED BY <2>3, <2>4, <2>5, <2>6
<1> QED BY <1>3, <1>4, <1>5

LEMMA OthersLeaveNoMore ==
  ASSUME IInv, OwnSteps, NEW p \in Pids, Exit(p) \/ Start(p)
  PROVE  starts < starts' \/ (starts' = starts /\ Left' <= Left)
<1>1. UNCHANGED <<command, at, pid, status>> /\ starts \in Nat /\ NPids \in Nat
  BY Sizes DEF Exit, Start, IInv, TypeOK
<1>2. CASE Start(p)
  BY <1>1, <1>2 DEF Start
<1>3. CASE Exit(p)
  <2>1. /\ starts' = starts /\ procs' \in [Pids -> Process \cup {None}]
        /\ \A r \in Pids : procs'[r] # None => procs[r] # None /\ procs'[r].id = procs[r].id
    <3>1. starts' = starts /\ Ids' /\ procs' \in [Pids -> Process \cup {None}]
      BY <1>3, OthersSteps DEF Exit
    <3>2. ASSUME NEW r \in Pids, procs'[r] # None PROVE procs[r] # None /\ procs'[r].id = procs[r].id
      <4>1. procs'[r] \in Process /\ procs'[r].id <= starts
        BY <3>1, <3>2 DEF Ids
      <4>2. procs'[r].id \in 0..MaxStarts
        BY <4>1 DEF Process
      <4>3. procs'[r].id \in 0..starts
        BY <1>1, <4>1, <4>2, Sizes
      <4> QED BY <3>2, <4>3, OthersSteps
    <3> QED BY <3>1, <3>2
  <2>2. ASSUME NEW r \in 0..NPids
        PROVE  Height(r)' \in Nat /\ Height(r) \in Nat /\ Height(r)' <= Height(r)
    <3>1. Height(r) \in Nat /\ (r # 0 => Height(r) >= 1)
      BY HeightType
    <3>2. r # 0 => r \in Pids
      BY <1>1 DEF Pids
    <3>3. Height(r)' = Height(r) \/ (Height(r)' = 1 /\ r # 0)
      BY <2>1, <3>2 DEF Height
    <3> QED BY <3>1, <3>3
  <2>3. CASE command = "terminal"
    <3>1. Left' = Left
      BY <1>1, <2>3 DEF Left, EntriesLeft
    <3>2. Left \in Nat
      BY LeftType
    <3> QED BY <2>1, <3>1, <3>2
  <2>4. CASE command # "terminal"
    <3>1. pid \in 0..NPids /\ (at \in {"stat", "read_stat"} => status.ppid \in 0..NPids)
      BY DEF IInv, TypeOK, Known, Process
    <3>2. Left = AncestorsLeft /\ Left' = AncestorsLeft'
      BY <1>1, <2>4 DEF Left
    <3>3. CASE at \in {"status", "read_status"}
      <4>1. Height(pid)' \in Nat /\ Height(pid) \in Nat /\ Height(pid)' <= Height(pid)
        BY <1>1, <2>2, <3>1 DEF Height
      <4> QED BY <1>1, <2>1, <3>2, <3>3, <4>1 DEF AncestorsLeft
    <3>4. CASE at \in {"stat", "read_stat"}
      <4>1. /\ Height(status.ppid)' \in Nat /\ Height(status.ppid) \in Nat
            /\ Height(status.ppid)' <= Height(status.ppid)
        BY <1>1, <2>2, <3>1, <3>4
      <4> QED BY <1>1, <2>1, <3>2, <3>4, <4>1 DEF AncestorsLeft
    <3>5. CASE at \notin {"status", "read_status", "stat", "read_stat"}
      BY <1>1, <2>1, <3>2, <3>5 DEF AncestorsLeft
    <3> QED BY <3>3, <3>4, <3>5
  <2> QED BY <2>3, <2>4
<1> QED BY <1>2, <1>3

\* Every step of the search and of the walk brings it nearer to its end, which no
\* exit undoes and no more than MaxStarts starts can, although parents change and
\* pids are taken over on the way (procinfo.rs 10-42, 100-161): the safety
\* half of ScanEnds.
THEOREM ScanGetsNearer == Spec => [](Left \in Nat /\ starts <= MaxStarts) /\ [][GetsNearer]_vars
<1>1. Init => Ancestry /\ OwnSteps
  <2> SUFFICES ASSUME Init PROVE Ancestry /\ OwnSteps
    OBVIOUS
  <2>1. PICK S \in {T \in SUBSET Pids : 1 \in T}, q \in [Pids -> Programs] :
          procs = [p \in Pids |-> IF p \in S THEN New(p, IF p = 1 THEN 0 ELSE 1, 0, q[p]) ELSE None]
    BY DEF Init
  <2>2. ASSUME NEW p \in S PROVE procs[p] # None /\ procs[p].ppid = IF p = 1 THEN 0 ELSE 1
    <3>1. procs[p] = New(p, IF p = 1 THEN 0 ELSE 1, 0, q[p])
      BY <2>1, <2>2
    <3>2. New(p, IF p = 1 THEN 0 ELSE 1, 0, q[p]).ppid # 7 /\ New(p, IF p = 1 THEN 0 ELSE 1, 0, q[p]).id = 0 /\ None.id = -1
      BY DEF New, None
    <3>3. procs[p].id = 0 /\ procs[p].ppid = IF p = 1 THEN 0 ELSE 1
      BY <3>1 DEF New
    <3> QED BY <3>2, <3>3
  <2>3. \A p \in Pids : procs[p] # None => p \in S
    BY <2>1
  <2>4. 1 \in S /\ 1 \in Pids
    BY <2>1
  <2> QED BY <2>2, <2>3, <2>4 DEF Ancestry, Init, OwnSteps
<1>2. IInv /\ Ancestry /\ OwnSteps /\ [Next]_vars => Ancestry' /\ OwnSteps'
  BY AncestryKept, OwnStepsKept
<1>3. IInv /\ OwnSteps => Left \in Nat /\ starts <= MaxStarts
  BY LeftType, Sizes DEF IInv, TypeOK
<1>4. IInv /\ IInv' /\ Ancestry /\ OwnSteps /\ [Next]_vars => [GetsNearer]_vars
  <2> SUFFICES ASSUME IInv, IInv', Ancestry, OwnSteps, Next PROVE GetsNearer
    BY DEF GetsNearer
  <2>1. Scan => starts' = starts /\ Left' < Left
    BY ScanDescends
  <2>2. ~Scan => starts < starts' \/ (starts' = starts /\ Left' <= Left)
    BY OthersLeaveNoMore DEF Next
  <2> QED BY <2>1, <2>2 DEF GetsNearer
<1> QED
  BY <1>1, <1>2, <1>3, <1>4, Invariance, PTL DEF Spec

=============================================================================

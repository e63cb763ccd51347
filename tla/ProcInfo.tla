------------------------------ MODULE ProcInfo ------------------------------
(***************************************************************************)
(* The commands that read /proc (src/proctool/procinfo.rs), process after  *)
(* process, while processes end and start: the search for the session of a *)
(* terminal, which goes through all of them, and the process tree, which   *)
(* goes from one to its parent.                                            *)
(***************************************************************************)
EXTENDS StatLine

CONSTANTS
  NPids,       \* pids are 1..NPids
  Programs,    \* what a process can be: name, nested, pgrp, session, tty
  Terminal,    \* the number of the terminal that is looked for
  MaxStarts    \* bound: processes that start meanwhile

Pids == 1..NPids

ASSUME ProcInfoAssumption ==
  /\ NPids \in Nat \ {0} /\ MaxStarts \in Nat /\ Terminal \in Nat
  /\ Programs \subseteq [name : Names, nested : BOOLEAN, pgrp : Nat, session : Nat, tty : Nat]

VARIABLES
  procs,     \* procs[p]: the process with that pid, or None
  starts,    \* processes that have started
  since,     \* pids whose process has been there from the beginning
  command,   \* "terminal" or "tree"
  at,        \* the call made next
  pid,       \* the directory entry, or process, dealt with
  opened,    \* the process whose file is open
  status,    \* the process whose status has been read
  infos,     \* what has been collected: of a process, its terminal
  outcome    \* how it ended

vars == <<procs, starts, since, command, at, pid, opened, status, infos, outcome>>
world == <<procs, starts, since>>

\* The id tells two processes with one pid apart; q is the program.
Process == [pid : Pids, ppid : 0..NPids, id : 0..MaxStarts, q : Programs]
None == [id |-> -1]
Found(p) == [kind |-> "found", pid |-> p]
Ended(kind) == [kind |-> kind]

TypeOK ==
  /\ procs \in [Pids -> Process \cup {None}]
  /\ starts \in 0..MaxStarts /\ since \subseteq {p \in Pids : procs[p] # None}
  /\ command \in {"terminal", "tree"}
  /\ at \in {"dir", "status", "read_status", "stat", "read_stat", "select", "print", "end"}
  /\ pid \in 0..NPids /\ (at \in {"status", "stat"} => pid \in Pids)
  /\ opened \in Process \cup {None} /\ status \in Process \cup {None}
  /\ infos \in Seq([of : Process, pts : Nat \cup {NotAPts}])
  /\ outcome \in {Ended(e) : e \in {"pending", "error", "panic", "absent", "printed"}}
               \cup {Found(p) : p \in Pids}

New(p, parent, id, q) == [pid |-> p, ppid |-> parent, id |-> id, q |-> q]

Init ==
  /\ \E S \in {T \in SUBSET Pids : 1 \in T}, q \in [Pids -> Programs] :
       procs = [p \in Pids |-> IF p \in S THEN New(p, IF p = 1 THEN 0 ELSE 1, 0, q[p]) ELSE None]
  /\ starts = 0
  /\ since = {p \in Pids : procs[p] # None}
  /\ \/ command = "terminal" /\ pid = 0 /\ at = "dir"
     \/ command = "tree" /\ pid \in Pids /\ at = "status"
  /\ opened = None /\ status = None /\ infos = <<>> /\ outcome = Ended("pending")

-----------------------------------------------------------------------------
(* Other processes.  The first never ends, and inherits.                    *)

Exit(p) ==
  /\ p # 1 /\ procs[p] # None
  /\ procs' = [r \in Pids |->
                 IF r = p THEN None
                 ELSE IF procs[r] # None /\ procs[r].ppid = p THEN [procs[r] EXCEPT !.ppid = 1]
                 ELSE procs[r]]
  /\ since' = since \ {p}
  /\ UNCHANGED <<starts, command, at, pid, opened, status, infos, outcome>>

Start(p) ==
  /\ procs[p] = None /\ starts < MaxStarts
  /\ \E parent \in {r \in Pids : procs[r] # None}, q \in Programs :
       procs' = [procs EXCEPT ![p] = New(p, parent, starts + 1, q)]
  /\ starts' = starts + 1
  /\ UNCHANGED <<since, command, at, pid, opened, status, infos, outcome>>

-----------------------------------------------------------------------------

Finish(how) == at' = "end" /\ outcome' = how

\* /proc gives the processes by ascending pid.
ReadDir ==
  /\ at = "dir"
  /\ \E p \in (pid + 1)..NPids :
       /\ procs[p] # None /\ \A r \in (pid + 1)..(p - 1) : procs[r] = None
       /\ pid' = p
  /\ at' = "status"
  /\ UNCHANGED <<world, command, opened, status, infos, outcome>>

EndOfDir ==
  /\ at = "dir" /\ \A p \in (pid + 1)..NPids : procs[p] = None
  /\ at' = "select"
  /\ UNCHANGED <<world, command, pid, opened, status, infos, outcome>>

\* Wrong: the list is abandoned at the first error.
ErrorEndsList ==
  /\ at' = "select"
  /\ UNCHANGED <<world, command, pid, opened, status, infos, outcome>>

\* Wrong: a process that gives an error is tried again.
ErrorTriedAgain ==
  /\ at' = "status"
  /\ UNCHANGED <<world, command, pid, opened, status, infos, outcome>>

\* A process that gives an error is left out of a list, but ends the tree.
Error ==
  /\ IF command = "terminal" THEN at' = "dir" /\ UNCHANGED outcome ELSE Finish(Ended("error"))
  /\ UNCHANGED <<world, command, pid, opened, status, infos>>

Panic ==
  /\ Finish(Ended("panic"))
  /\ UNCHANGED <<world, command, pid, opened, status, infos>>

-----------------------------------------------------------------------------
(* get_process_info.  A file of /proc belongs to the process that had the   *)
(* pid when it was opened.                                                  *)

Open(file, there) ==
  /\ at = file /\ procs[pid] # None
  /\ opened' = procs[pid] /\ at' = there
  /\ UNCHANGED <<world, command, pid, status, infos, outcome>>

OpenFails == at \in {"status", "stat"} /\ procs[pid] = None /\ Error

StillThere == procs[pid] # None /\ procs[pid].id = opened.id

ReadStatus ==
  /\ at = "read_status" /\ StillThere
  /\ status' = procs[pid] /\ at' = "stat"
  /\ UNCHANGED <<world, command, pid, opened, infos, outcome>>

\* The lines of status are unwrapped, those of stat are not.
StatusGone == at = "read_status" /\ ~StillThere /\ Panic
StatGone   == at = "read_stat" /\ ~StillThere /\ Error

TtyNr == ReadTtyNr(Line(opened))

\* In a pid namespace of its own, NSpgid is several numbers, and no number.
ReadStat ==
  /\ at = "read_stat" /\ StillThere /\ TtyNr.ok /\ ~status.q.nested
  /\ infos' = Append(infos, [of |-> opened, pts |-> Pts(TtyNr.value)])
  /\ IF command = "terminal"
       THEN at' = "dir" /\ UNCHANGED pid
       ELSE /\ pid' = status.ppid
            /\ at' = IF status.ppid = 0 THEN "print" ELSE "status"
  /\ UNCHANGED <<world, command, opened, status, outcome>>

\* Wrong: the number is unwrapped, too.
StatUnwrapped == at = "read_stat" /\ StillThere /\ ~TtyNr.ok /\ ~TtyNr.panic /\ Panic

StatUnreadable == at = "read_stat" /\ StillThere /\ ~TtyNr.ok /\ ~TtyNr.panic /\ Error

ReadPanics ==
  /\ at = "read_stat" /\ StillThere
  /\ (~TtyNr.ok /\ TtyNr.panic) \/ (TtyNr.ok /\ status.q.nested)
  /\ Panic

\* get_session_id_for_terminal returns the first process on the terminal.
Select ==
  /\ at = "select"
  /\ LET there == {i \in DOMAIN infos : infos[i].pts = Terminal}
     IN Finish(IF there = {} THEN Ended("absent") ELSE Found(infos[Min(there)].of.pid))
  /\ UNCHANGED <<world, command, pid, opened, status, infos>>

\* print_process_tree asks for the session of each process, and ends with the
\* first that is not there any more.
PrintTree ==
  /\ at = "print"
  /\ Finish(Ended(IF \A i \in DOMAIN infos : procs[infos[i].of.pid] # None THEN "printed" ELSE "error"))
  /\ UNCHANGED <<world, command, pid, opened, status, infos>>

Scan ==
  \/ ReadDir \/ EndOfDir \/ Open("status", "read_status") \/ Open("stat", "read_stat")
  \/ OpenFails \/ ReadStatus \/ StatusGone \/ StatGone
  \/ ReadStat \/ StatUnreadable \/ ReadPanics \/ Select \/ PrintTree

Next == Scan \/ \E p \in Pids : Exit(p) \/ Start(p)

Spec == Init /\ [][Next]_vars /\ WF_vars(Scan)

-----------------------------------------------------------------------------
(* Properties.                                                              *)

\* Processes come and go during the search without making it overlook one that
\* was on the terminal all the time: it returns that one or one before it, which
\* need not be on the terminal.  A name with a blank and a pid namespace may hide
\* one (procinfo.rs 100-161).
NoneMissed ==
  command = "terminal" /\ outcome.kind \in {"found", "absent"} =>
    \A p \in since :
      LET q == procs[p].q
      IN Plain(q.name) /\ ~q.nested /\ Pts(q.tty) = Terminal =>
           outcome.kind = "found" /\ outcome.pid <= p

\* What is collected of a process with a plain name is its terminal, although it
\* may have replaced the one whose status was read (procinfo.rs 172-232).
PlainNamesRight ==
  \A i \in DOMAIN infos :
    Plain(infos[i].of.q.name) => infos[i].pts = Pts(infos[i].of.q.tty)

\* The search finds something or nothing, but does not fail; it panics only if a
\* process ended while its status was read, is in a pid namespace of its own, or
\* has a name of eight words (procinfo.rs 178, 197, 230).
PanicNeedsCause ==
  /\ command = "terminal" => outcome.kind # "error"
  /\ outcome.kind = "panic" =>
       ~StillThere \/ status.q.nested \/ opened.q.name.ends >= 7

\* The search and the walk up the tree come to an end, although parents change.
ScanEnds == <>(at = "end")

\* procinfo.rs 229: "tty_nr is field 7, but it's 1-indexed".
TtyNrIsField7 == \A i \in DOMAIN infos : infos[i].pts = Pts(infos[i].of.q.tty)

=============================================================================

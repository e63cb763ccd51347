------------------------------ MODULE StatLine ------------------------------
(***************************************************************************)
(* How procinfo.rs reads the terminal of a process from the line that the  *)
(* kernel writes to /proc/<pid>/stat, in which the name of the program, in *)
(* parentheses, can have blanks.  A field is the number that parse::<i32>  *)
(* makes of it, or no number, and may end in a parenthesis.                *)
(***************************************************************************)
EXTENDS Integers, Sequences, FiniteSetsExt

Number(n) == [number |-> TRUE, value |-> n, close |-> FALSE]
Word(close) == [number |-> FALSE, value |-> 0, close |-> close]

\* The name of a program: words after the first, the word (from 0) after which
\* there is the first parenthesis, and whether the words between are the
\* number of a terminal.
Names ==
  {m \in [extra : 0..7, ends : 0..7, number : BOOLEAN] : m.ends <= m.extra}
Plain(m) == m.extra = 0

NameWord(m, j) ==
  IF m.number /\ j \in 1..(m.extra - 1) /\ j # m.ends
    THEN Number(34816) ELSE Word(j \in {m.ends, m.extra})

\* External: pid, name, state, ppid, pgrp, session, tty_nr, and
\* more.
Line(p) ==
  <<Number(p.pid)>>
  \o [j \in 1..(p.q.name.extra + 1) |-> NameWord(p.q.name, j - 1)]
  \o <<Word(FALSE), Number(p.ppid), Number(p.q.pgrp), Number(p.q.session), Number(p.q.tty), Number(0)>>

\* Words of the name before the one that ends in ")".
Offset(parts) == Min({i \in 2..Len(parts) : parts[i].close}) - 2

\* Wrong: fields are counted from 1.
ReadTtyNrOneBased(parts) ==
  LET i == 7 - Offset(parts) + 1
  IN IF i < 1 THEN [ok |-> FALSE, panic |-> TRUE]
     ELSE IF parts[i].number THEN [ok |-> TRUE, value |-> parts[i].value]
     ELSE [ok |-> FALSE, panic |-> FALSE]

\* parts[6 - offset], parsed; the index must not be negative.
ReadTtyNr(parts) ==
  LET i == 6 - Offset(parts) + 1
  IN IF i < 1 THEN [ok |-> FALSE, panic |-> TRUE]
     ELSE IF parts[i].number THEN [ok |-> TRUE, value |-> parts[i].value]
     ELSE [ok |-> FALSE, panic |-> FALSE]

-----------------------------------------------------------------------------

\* The masks and shifts of get_process_info, on a number that is not negative.
TtyMajor(nr) == (nr \div 256) % 4096
TtyMinor(nr) == (nr % 256) + 256 * ((nr \div 1048576) % 4096)

NotAPts == -1
Pts(nr) == IF TtyMajor(nr) = 136 THEN TtyMinor(nr) ELSE NotAPts

\* External: how the kernel puts the two numbers of a device together.
Encoded(major, minor) ==
  (minor % 256) + 256 * major + 1048576 * (minor \div 256)

=============================================================================

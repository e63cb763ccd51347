----------------------------- MODULE Arguments ------------------------------
(***************************************************************************)
(* How proctool rewind gives a program its own arguments again             *)
(* (src/proctool/bin/daemon.rs 186-198): they are read from                *)
(* /proc/<pid>/cmdline (src/teleclient/myprocfs.rs 21), put each into a    *)
(* mapping of its own, then their addresses into one more, and the kernel  *)
(* reads them from there for execve.                                       *)
(***************************************************************************)
EXTENDS Integers, Sequences, SequencesExt

CONSTANTS
  Chars,       \* what arguments are made of; the byte 0 ends them
  MaxArgs,     \* bound: number of arguments
  MaxLen,      \* bound: length of an argument
  PageWords    \* addresses on a page

ASSUME ArgumentsAssumption ==
  /\ Chars \subseteq Nat \ {0}
  /\ MaxArgs \in Nat /\ MaxLen \in Nat /\ PageWords \in Nat \ {0}

VARIABLES
  argv,      \* the arguments the program was started with
  buf,       \* what /proc/<pid>/cmdline gives
  place,     \* what the daemon does next
  pos, start, \* get_command_line's place, and where the argument begins
  args,      \* the arguments it has found
  maps,      \* the mappings made, in the order in which they were made
  given      \* what execve is given

rewindVars == <<argv, buf, place, pos, start, args, maps, given>>

Strings == SeqOf(Chars, MaxLen)
Terminated(s) == s \o <<0>>

CommandLine == FlattenSeq([j \in DOMAIN argv |-> Terminated(argv[j])])

\* A program can overwrite its arguments with a title, which need not end in 0.
RewindInit ==
  /\ argv \in SeqOf(Strings, MaxArgs) \ {<<>>}
  /\ buf \in {CommandLine, SubSeq(CommandLine, 1, Len(CommandLine) - 1)}
  /\ place = "read" /\ pos = 0 /\ start = 0
  /\ args = <<>> /\ maps = <<>> /\ given = <<>>

-----------------------------------------------------------------------------

\* Wrong: an argument begins with the 0 of the one before.
ReadByteLate ==
  /\ place = "read" /\ pos < Len(buf)
  /\ IF buf[pos + 1] = 0
       THEN args' = Append(args, SubSeq(buf, start + 1, pos + 1)) /\ start' = pos
       ELSE UNCHANGED <<args, start>>
  /\ pos' = pos + 1
  /\ UNCHANGED <<argv, buf, place, maps, given>>

\* Wrong: a last argument without a 0 is taken, too, and the place passed.
ReadRest ==
  /\ place = "read" /\ pos = Len(buf)
  /\ args' = Append(args, SubSeq(buf, start + 1, pos))
  /\ start' = pos + 1
  /\ place' = "inject"
  /\ UNCHANGED <<argv, buf, pos, maps, given>>

\* Arguments keep their 0; a last one that has none is dropped.
ReadByte ==
  /\ place = "read" /\ pos < Len(buf)
  /\ IF buf[pos + 1] = 0
       THEN args' = Append(args, SubSeq(buf, start + 1, pos + 1)) /\ start' = pos + 1
       ELSE UNCHANGED <<args, start>>
  /\ pos' = pos + 1
  /\ UNCHANGED <<argv, buf, place, maps, given>>

ReadAll ==
  /\ place = "read" /\ pos = Len(buf)
  /\ place' = "inject"
  /\ UNCHANGED <<argv, buf, pos, start, args, maps, given>>

InjectArgument ==
  /\ place = "inject" /\ Len(maps) < Len(args)
  /\ maps' = Append(maps, args[Len(maps) + 1])
  /\ UNCHANGED <<argv, buf, place, pos, start, args, given>>

AllInjected ==
  /\ place = "inject" /\ Len(maps) = Len(args)
  /\ place' = "addresses"
  /\ UNCHANGED <<argv, buf, pos, start, args, maps, given>>

\* inject_u64s.  To map and write no bytes at all is an error.
InjectAddresses ==
  /\ place = "addresses"
  /\ place' = IF args = <<>> THEN "failed" ELSE "execve"
  /\ UNCHANGED <<argv, buf, pos, start, args, maps, given>>

\* A string, as the kernel reads it: the rest of its page is zero.
Read(m) ==
  LET z == Terminated(m)
  IN SubSeq(z, 1, CHOOSE j \in DOMAIN z : z[j] = 0 /\ \A l \in 1..(j - 1) : z[l] # 0)

\* The array of addresses is not ended by a null pointer: the rest of its page
\* is.  When it fills its pages, what follows is nothing, or the mapping made
\* before it, that of the last argument, which is null if the argument is empty.
ExecveArguments ==
  /\ place = "execve"
  /\ LET full == Len(maps) % PageWords = 0
     IN \/ /\ ~full \/ Last(maps) = <<0>>
           /\ given' = [j \in DOMAIN maps |-> Read(maps[j])] /\ place' = "done"
        \/ full /\ place' = "failed" /\ UNCHANGED given
  /\ UNCHANGED <<argv, buf, pos, start, args, maps>>

\* The path is the first argument, which need not be one; as any error of execve
\* this is not noticed.
NoSuchFile ==
  /\ place = "execve"
  /\ place' = "not found"
  /\ UNCHANGED <<argv, buf, pos, start, args, maps, given>>

RewindNext ==
  \/ ReadByte \/ ReadAll \/ InjectArgument \/ AllInjected \/ InjectAddresses
  \/ ExecveArguments \/ NoSuchFile

RewindSpec == RewindInit /\ [][RewindNext]_rewindVars

-----------------------------------------------------------------------------
(* Properties.                                                              *)

Expected ==
  [j \in 1..(IF buf = CommandLine THEN Len(argv) ELSE Len(argv) - 1) |-> Terminated(argv[j])]

\* A program that is rewound is started with the arguments that it had, without
\* the last one if that is not ended by a 0.
SameArguments == place = "done" => given = Expected

\* Where there is such a program, execve gets them unless there are none, or as
\* many as fill whole pages.
FailsOnlyIfFull == place = "failed" => Len(Expected) % PageWords = 0

=============================================================================

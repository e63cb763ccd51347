# A verification of process-magic

TLA+ models of [process-magic](../src), the model-checking runs that exercise
them with TLC, and theorems about them that TLAPS checks. Paths below are
relative to the crate (`src/proctool/...` in the repository).

## What the program is

`proctool` takes hold of running Linux processes (arm64) with ptrace and makes
them do things they were not written to do: it pauses them, redirects their
output, starts them again, replaces their program, rotates or colours what they
write, freezes them to a file. Beside it
are `teleclient` and `teleserver`, which copy a process to another machine. The
parts are

| part | state it keeps | operations | models |
|---|---|---|---|
| client (`proctool/bin/client.rs`) | none beyond one run | connect, send a command or Kill, start or restart the daemon; freeze, thaw, listings by itself | `Channel` (its dealings with the daemon), `Capture`, `Thaw`, `ProcInfo` |
| channel (TCP port 6666) | queue of connections | connect, accept, read until the client closes | `Channel`, abstractly `CommandQueue` |
| daemon (`proctool/bin/daemon.rs`) | the processes it traces (in the kernel, not in a variable!), the command in progress | the arms of `run_command`, shutdown | `Daemon`, abstractly `Custody` |
| ProcessController (`proctool/pcontroller.rs`) | pid, cached memory maps, `detach_on_drop` | attach, detach, Drop, registers, injected system calls, takeover, rot13, colorize_stderr, mapping of regions | `ProcessController`, `TraceLoop`, abstractly `Filter`; `Rot13`, `Thaw`, `Arguments` |
| terminals (`proctool/terminals.rs`) | none | write_to_stdin (TIOCSTI), clear, normalize_tty | in `ProcessController`, `Daemon` |
| the tracees and Linux | who traces whom, stops, registers, descriptors | their own system calls, signals, exit, other tracers | `Tracee`, part of `TraceLoop` (external) |
| cryogenics (`proctool/cryogenics.rs`, `bin/client.rs` 54-88) | the state file `<pid>.state` | freeze; thaw, unmap-child | `Capture`, abstractly `Snapshot`; `Thaw`, on `AddressSpace` |
| procinfo (`proctool/procinfo.rs`) | none | the session of a terminal, the process tree, listings | `StatLine`, `ProcInfo`; an answer of any kind in `Daemon` |
| memory maps, command lines (`teleclient/myprocfs.rs`) | none | read_memory_maps, populate_memory, get_command_line | `Capture` (which regions are read), `Arguments` |
| teleclient (`teleclient/`) | the registers and memory of the process it copies | seize, interrupt, read, send | `Program`, `Capture`, abstractly `Snapshot` |
| teleserver (`teleserver/`) | one child per request | fork, unmap, registers, map, fill, detach, answer | `Spawn`, on `AddressSpace` |

How they interact: a client connects, writes one JSON message and closes; the
daemon, one thread, accepts one connection at a time, reads it to its end, runs
the command to its end and takes the next. A command makes a ProcessController,
which attaches to a process, changes it call by call, and detaches, at the
latest when it is dropped. Every `?` in between ends the command.

What is hard: the tracee, its terminal, its signals and other tracers run
concurrently with every call; a command may fail between any two calls and leaves
the tracee as it is at that point; being paused is nothing but being traced by a
process that may die; the loop of rot13 and colorize-stderr tells entry from exit
by counting stops; one blocked call blocks every client. Freeze reads memory of a
program that it no longer traces; a forked child is rebuilt by calls that it is
made to execute from the very memory that is being replaced; /proc is read, file
after file, while the processes change. `PROJECT.json` lists
each such hazard at its line, with the properties aimed at it.

## Modules

**`Tracee`** is the kernel's view of the processes: `alive`, `tracer`, `halted`
(SIGSTOP), `doing` (what a process is blocked in: a sleep that ends by itself, a read of
descriptor 0, or any other call that somebody else has to end), `input` (a line waits on its
terminal), `ctx` (whose values its registers hold) and `stdio`. Its actions are
what happens without proctool. Registers are one of four things: the program's
own, those of an injected call, a prepared execve, a new program's. That is what the
properties tell apart. A refused execve leaves those of the injected call; the history
variable `refused` remembers it.

**`ProcessController`** has one operator per method, acting on one process and
with the guard under which the ptrace request succeeds. `ensure_not_in_syscall`
is disabled for as long as its tracee is `Blocked`, in a read without a line to read or in
a call that nobody has ended: the loop around `step_and_wait` does not end then.

**`Daemon`** composes them into `run_command`: `at` is the call the thread makes
next, and each action is one call, with the next label, or the error path `Fail`,
`AttachRefused` or `TraceeGone`. `Return` is the end of the arm together with
Drop. Between any two actions a process may exit, another tracer or user may act,
and the daemon may be killed. Labels stand for: `attach`; `cancel`/`cancelstep`
(cancel_pending_read); `save`, `close1`, `close2`, `tty`, `inject`, `open1`,
`open2`, `restore` (redirect, in this order); `ensure`, `clear`, `args`, `exec`
(rewind, takeover); `prepare`, `detachstop` (takeover --pause); `loop` (rot13,
colorize-stderr); `lookup`, `stdin` (oblivion, spawn, write-stdin). Two history
variables: `paused` (held since a successful pause) and `blamed` (a command that had it
attached failed between attach and detach, or the daemon died there: `Cut`).

**`Custody`** is what the daemon promises about whom it holds: one process at a
time under a command, never a paused one, and none kept for long but by a pause.
`Daemon!CustodySpec` is the refinement mapping: a held process is paused or being
worked upon, according to `paused`.

**`TraceLoop`** opens up the label `loop`: the loops of rot13 and colorize-stderr
against one single-threaded tracee, stop by stop. The tracee enters and leaves
calls, refills its buffer, gets signals and dies; `wait_for_anything` returns for
every stop. The daemon may be killed at any step (`DaemonDies`), and a command that fails
lets the program go as it is: `cut` records whether it was in the middle of a pass over
the buffer, or at work on a call. Texts are plain, rotated, or mixed (after an error); what
`is_writing_to_stdout` can see in the registers at each kind of stop is
`LooksLikeTarget`. **`Filter`** is what either loop promises, seen from the program: it
makes calls one after the other, each is carried out once and as it was made, a write to
the descriptor comes out transformed, and the program finds its own buffer and arguments
whenever it runs. `TraceLoop!FilterSpec` is the refinement mapping; Filter promises
nothing more once a signal has arrived or either side has come to its end (`Over`).

**`Rot13`** opens up the step `rot13` of TraceLoop: the byte function exactly, and
both passes over overlapping 8-byte words in a mapping that ends somewhere.

**`Channel`** is clients, connections and daemons; a command is one step there,
or, for those that depend on something outside (`endless`), one that need not
come. `CommandQueue` is what it implements: each command at most once, in the
order of connection, lost only all together; a connection may turn out to bring none.

**`Program`** is one program to be copied and the kernel around it, for `Capture`:
what its registers and regions hold is the time at which it was put there, so that
a copy is of one instant if it agrees with a member of the history `past`.
**`Capture`** is any number of copiers of it, each in its own process: proctool
freeze (`attach`, `regs`, `detach` with SIGSTOP, `maps`, `memory`, `read` region by
region, `open` and `write` the file item by item, `takeover`, `ensure`, `inject`, `execve`,
`finish`) and teleclient (`seize`, `interrupt`, the same reads, `send`). Any
call can fail. `lapse` records what happened between a freezer's detach and its
first injected call: a SIGCONT, or that another freeze has taken the program over. At
`ensure` takeover itself lets the program make a step. A program whose execve was refused,
or whose takeover was cut off, is `Foreign` in its registers and runs on from there, astray, in the memory it
has (`Advance`); `refused` records whose execve that was. **`Snapshot`** is what copying
promises: registers and memory of one instant, regions possibly missing.

**`AddressSpace`** is the pages of one process with munmap, mmap (with a hint the
kernel may ignore), mprotect and writes that stop at the first page they cannot
reach. **`Thaw`** is thaw and unmap-child on it, call by call: the svc page, then
`munmap`, `mmap`, `fill`, `mprotect` for each region, the registers, the detach.
`silent` and `refused` record for which regions no error was printed and for which
the kernel refused a call whose result nobody looks at. Where a region has replaced the
page that calls are made from by another that can be executed, stepping the child works and
the call is silently not made (`Steppable` without `Steerable`). The client may be killed
between any two calls (`ClientKilled`), and the kernel detaches the child.
**`Spawn`** is one request at the teleserver in both processes: handler and forked
child, which, let go as it is, returns into the handler's code (`Returns`).

**`StatLine`** is how a line of /proc/<pid>/stat is cut into words and read: the
words of the name, the offset, the device number. **`ProcInfo`** is the two walks
that read such lines, get_session_id_for_terminal and get_process_tree, file by file, while
processes end, start and take over pids, and print_process_tree, which asks for the session
of each process it has collected and gives up if one is gone (`PrintTree`). **`Arguments`** is what rewind does with a
command line: get_command_line byte by byte, the page of addresses, and what execve
finds there.  Its own specification is `RewindSpec`, over `RewindInit` and `RewindNext`.

The `MC*` modules define symmetry and bounds; the `*Proofs` modules hold the
theorems. Operators introduced by a comment "Wrong:" are the mutants, faulty
variants that `PROJECT.json` pairs with the property each of them breaks; no
specification uses them.

## Runs

| run | instance | shows |
|---|---|---|
| `daemon_all` | 1 process, all 12 commands, tty valid, missing or malformed, fair daemon; 192 416 states | registers are the program's own again, or a command was cut short or an execve refused; a successful redirect delivers; a paused process stays untouched; a command ends, or its tracee keeps it waiting in a call, or it stays in its loop |
| `daemon_two` | 2 processes (symmetric), pause, resume, colorize-stderr; 591 711 states | the daemon holds exactly what was paused; how a pause ends; Custody is implemented |
| `trace_loop` | both filters, writes of 0, 5 and 65527 bytes, signals; 10 897 states | what the loop takes a stop for; until a signal, or until it gives up or dies, it is the filter of Filter; after one, what is still true; a stopped tracee is resumed |
| `trace_loop_comment` | the same | a violation: the comment "we are now in syscall-enter-stop" |
| `rot13` | a mapping of 10 bytes, all buffers, texts over {Z, [}; 229 376 states | two passes restore, the write sends the rotation, errors only where the buffer ends within 7 bytes of its mapping |
| `channel` | 3 clients, each any of 6 jobs, crashes, fair daemon; 274 041 states | order, at most once, none lost without a daemon's end, no daemon missing without a reason; a sent command is served unless its daemon ends or another connection is in the way for ever |
| `capture` | 2 freezers (symmetric) and a teleclient, 1 region, 2 steps of the program, an old file of 0 or 4 items; 871 258 states | the copy is of one instant and in the file before the program is overwritten; only the step of `ensure` is lost; the program is replaced or its execve refused; what is copied implements Snapshot |
| `thaw` | 8 pages, 3 states of two regions, 3 layouts, both commands; 6 495 states | regions without an error are in place; the child is not let go half way unless the client is killed; unmap-child leaves what it needs; the client ends |
| `spawn` | 5 pages, one server, 30 requests; 2 751 states | when a request can succeed at all; one answer; an answer |
| `procinfo` | 3 pids, 1 start, 6 kinds of program; 271 044 states | no process of the terminal is overlooked; plain names are read right; panics have a cause; the walks end |
| `procinfo_field7` | 1 process, names of up to 7 words | a violation: the comment "tty_nr is field 7" |
| `arguments` | up to 5 arguments of up to 2 bytes, 2 addresses on a page; 13 590 states | a rewound program gets its own arguments |

Why the bounds are enough. The daemon keeps no variable from one command to the
next, so that commands affect each other only through what they leave in the
processes; with one process every such effect is reached, in every order, because
nothing bounds the number of commands. Two processes are what Custody and pauses
need; three add only repetition, which the proofs, made for any number, confirm.
The commands of `daemon_two` are one that keeps, one that lets go and one that
works; all commands with two processes are left to the proofs. Oblivion looks up
0 to 2 terminals. In `trace_loop` the number of signals is kept as none, odd or
even, which loses nothing as the phase depends on the parity only; 65527 is the
largest write that fits the region. In `rot13` ten bytes hold words that overlap
the buffer, what lies behind it, and the end of the mapping; Z and [ are the last
byte that changes and the first that does not. In `channel` three clients are
one in service, one in the queue and one in between; no definition tells clients apart,
so that only one order of each choice of jobs is run (`OrderedInit`), which, unlike a
symmetry set, is sound for liveness.

In `capture` a copy has two parts, registers and a region, so that one can be read before
and the other after a disturbance; one step of the program makes its state differ from the
copy, and takeover needs one more for its `ensure`; the old file of 4 items is longer than the longest document (3). Two freezers are
what it takes for one to replace the program under the other, and the teleclient is the
tracer that is in their way. With one thread the teleclient's copies are snapshots; the case
of two, which is an exception in CopyIsOfOneInstant, and more regions are left to the proofs.
VIEW leaves out what no copier will look at again: the memory of one that has ended. In `thaw` the regions of the three states cover a mapped page,
the svc page, and nothing; the layouts put the gap between [vdso] and stack where both
calls of unmap-child can and cannot succeed. In `spawn` the page of the saved pc is, in
turn, the server's text, its data, free, and in a map of 2 MB, which is spared. In
`procinfo` one start is enough for a pid to be taken over between two reads; the names
have one, two, three and eight words, which give each outcome of the index 6 - offset.
In `arguments` a page of two addresses is filled exactly, twice, by the larger
command lines; arguments may be empty.

Runs without a deadlock check: a filter that has detached, the two passes of rot13,
and all commands that are run once (clients, copiers, thaw, a request, a walk,
a rewind) come to an end.

### Fairness

`WF(Progress)` in Daemon, `WF(Loop)` in TraceLoop and `WF(DaemonStep)` in Channel:
the daemon's thread is scheduled by the kernel. Nothing else is assumed: tracees
need not run, a call that one is blocked in need not end, users need not type, clients may stay connected and silent, the
filtered process may live for ever. Only a sleep, which ends by itself, does not hold up
`ensure_not_in_syscall`, as the comment there has it (`pcontroller.rs` 76-78): that it ends is
part of the operator, not an assumption. `CommandEnds` and `CommandServed` therefore
name those exceptions, in the strong form that they hold for good
(`<>[]`) or again and again (`[]<>`). Progress does not include `LoopError`, the
failing calls of the loop: nothing makes them happen.

`WF(Client)` in Thaw, `WF(Handler)` and `WF(Traceme \/ TracemeFails)` in Spawn, `WF(Scan)` in
ProcInfo: each is one process that the kernel schedules, until it waits for another.
That the stopped child is continued by someone, or dies, is not assumed.

## What was found

- The loops count stops, and waitpid's status is thrown away
  (`proctool/pcontroller.rs` 181-186): a signal-delivery-stop is inspected as if
  it were a syscall-enter-stop, contrary to the comments at `proctool/bin/daemon.rs`
  245 and 277 (run `trace_loop_comment`). `PhaseByParity` says exactly what follows:
  with an odd number of signals the loop takes every entry for an exit and the
  reverse. `ProgramUnaware` and `FilterSpec` hold up to the first
  signal, and their hypothesis is needed; after one, calls get a forged argument while
  the number of signals is odd (`CallsAsMade`).
- rot13 that fails in the middle of a buffer, before or after the write, lets the program go with a part of the buffer
  rotated, without any signal (`cut` in ProgramUnaware).
- takeover, freeze and rewind do not look at the result of execve. A refused one is
  reported as success, and the process is let go with the registers of the injected call, behind its
  svc, with all its memory (`refused` in ReplacedUnlessRefused and RegistersAccountedFor).
- freeze takes a program over after it has let it make one more step, an instruction or the rest of a
  call, which its copy does not have (OneStepLost). If the call was a read, the line is lost.
- A thaw that is killed lets its child go with part of its memory replaced and its own
  registers, or those of a call (HalfWayOnlyIfKilled).
- A pause ends not only by resume: a command for a paused process, which fails in
  attach, detaches it when its controller is dropped (`PauseEnds`, last disjunct).
- Redirect that fails after its closes gives neither registers nor outputs back
  (`blamed` in RegistersAccountedFor).
- daemon-restart may leave no daemon (`bindLost` in GoneForAReason).
- `read_proc_stat` subtracts the words of a name where it should add them
  (`proctool/procinfo.rs` 229-230, run `procinfo_field7`): the terminal of a process
  with a blank in its name is read from another field, and with eight words the index
  underflows. NoneMissed and PlainNamesRight say what is right nevertheless.
- A telefork that reports success has not copied memory: regions are mapped shared from
  descriptor 0 (`teleserver/spawn.rs` 238), and of the floating point registers at most the
  part that fits a `user_regs_struct` is copied (`teleclient/ptrace.rs` 45). `DESIGN.md`
  18-21 lists both under what needs to be copied. A telefork succeeds only if the saved pc happens to lie in a map that the child of the server
  kept (SuccessNeedsPc); where it fails, both processes may answer (OneAnswer).
- A freeze during which somebody sends SIGCONT, or freezes too, may be of no instant
  (`lapse` in CopyIsOfOneInstant), and a shorter state leaves the tail of an older file
  behind it (StateSurvives).
- thaw reports success of a region whose munmap or mprotect was refused (`refused` in
  RegionsInPlace), and gets lost, stepping for ever, when a region covers the page its
  calls come from (`lost` in ClientEnds). It also reports a failure when /dev/tty cannot
  be opened, although the child runs.
- rewind starts nothing if the addresses of the arguments fill their pages exactly,
  since there is no room for the NULL (FailsOnlyIfFull); a program that overwrote its
  arguments without a final 0 loses the last one (SameArguments).

Those without a run of their own contradict no statement in the repository and are
therefore part of the properties, not violations.

## What is proved

For every value of the constants, under the ASSUMEs of the modules:

- `DaemonProofs`: `IInv` is an invariant, and with it TypeOK, IdleHoldsOnlyPaused,
  RegistersAccountedFor, RedirectDelivers; the action properties PauseEndsOnly and PausedUntouched;
  and that Daemon implements Custody. IdleHoldsOnlyPaused is not inductive: that the
  daemon holds nothing else when idle follows from whom it holds at each call. Hence
  IInv in parts: `Shape` (which command reaches which call, so that each call has a
  process), `Holding` (at every call between attach and detach the daemon holds the
  process of the command, if alive, the paused ones and no more; hence no other
  tracer or step of the program intervenes) and `Registers` (foreign registers only
  in the process at work, between the first injected call and the restore, and in processes
  that were blamed or whose execve was refused; `saved` foreign only for such a one). `CutBlames` says that a
  command which ends in between blames its process. The lemmas prove each part
  from the ones before it, action by action. RedirectDelivers needs two more, `Route`
  (the calls of a redirect) and `Descriptors` (which outputs are closed and which
  lead to the terminal at each of them), with `OpensLowest` about openat. The refinement rests on
  `OneModeChanges`: one step changes the mode of at most one process, or the daemon
  ends.
- `TraceLoopProofs`: TypeOK, PhaseByParity, ProgramUnaware, CallsAsMade and
  OverrunNeedsLongWrite, the last by the lemma `PaddedFits` on the padding; and that either
  loop implements Filter. `Phase` ties the position in the loop to the kind of stop,
  `Quiet` to what the filter has put into the program's hands, and has left there where it gave up. For the refinement,
  `ProgramStep` says what any step does to the program, and `NothingSeen` that nothing of
  the filter's shows. `ResumedSoon` counts the steps to the next resumption.
- `Rot13Proofs`: rot13_byte is an involution on all bytes (`ByteInvolution`); for any
  mapping, buffer and text the two passes restore it, and TypeOK, SentRotated,
  FailureLeavesPrefix, SecondPassSucceeds. The invariant says of each byte what it
  holds in each phase, and that a pass that got anywhere found its words mapped.
- `ChannelProofs`: TypeOK, Accounted, GoneForAReason, and that Channel implements
  CommandQueue, for any number of clients. The
  invariant adds that a daemon that is down has no connections, that a message
  written is in its connection unless that was cut, and that a daemon-restart whose
  message still waits has a successor under way, dead, or turned away at the port.
  `NobodyIsPassedOver` counts, for each place in the queue, the steps of the daemon that come before
  its end (`Turns`): it has to accept, read and carry out what is in front.
- `CaptureProofs`: CopyIsOfOneInstant, ReplacedUnlessRefused and OneStepLost, and that Capture
  implements Snapshot, for any number of copiers and regions, with a second thread or without. The invariant says of each copier at each call that what
  it has read so far is what the program holds now (`Standing`), as long as nothing has
  set the program going, and of an instant of the past after that; that nothing does rests
  on who holds the program at which call, and `Bystander` on that
  the others do not disturb it. For the refinement, the last step of the reading is Take
  (`Takes`), and every other step keeps or gives up each copy (`NotTaken`). StateSurvives
  has an invariant of its own, `FileInv`: what of the document each freezer has written, and
  what is behind it in the file.
- The module also proves SameArguments and FailsOnlyIfFull of `RewindSpec` in Arguments, for
  any arguments: `ArgInv` says, after each byte of the command line, which arguments have been
  found (`Found`), where the next begins (`Placed`), and which are on the page (`Put`).
  Both rest on what FlattenSeq makes of a sequence of sequences (`Joining`), which is why they are
  in one module. That is an induction; the library's theorems for it take an operator as a parameter, so
  `Induction` is stated here for a set and proved from the well-foundedness of the naturals (`Least`).
- `ThawProofs`: RegionsInPlace, HalfWayOnlyIfKilled and KeepsItsFooting, for any state and address space. The
  invariant gives every page of a region already dealt with (`Past`) and of the one in
  progress, call by call (`Present`); that an mmap for one region does not touch another
  is `MmapIsGentle`, that regions are disjoint is `Apart`. unmap-child has an invariant of its own, `Foot`:
  the svc page lies above all the child has, so that the first munmap either takes it or fails.
  `LostForAReason` says when the client loses its child: only if a region to be restored covers
  the svc page, or unmap-child unmaps it (`Rooted`: at every other call the page is there).
  `ThawGetsNearer` counts the calls left, four to a region.
- `SpawnProofs`: SuccessNeedsPc and OneAnswer. What is mapped before the first call at the
  saved pc was kept, hence that call needs a kept map (`PagesKept`). `RequestGetsNearer` counts
  the calls left: one for each map of the child, two for each region; every index is in range.
- `ProcInfoProofs`: TypeOK, PlainNamesRight, NoneMissed and PanicNeedsCause, for any number of processes
  and any names of up to eight words. The invariant ties each file that is open and each
  status read to a process that had that pid (`Opened`, `Known`), what has been collected
  to the entries of /proc behind the walk (`Collected`), and two processes of one pid to
  two ids (`Ids`). `LineShape` and `OffsetBounds` say where the fields of a line are for
  any name, `PlainRead` that the offset is 0 for a name of one word, `PanicRead` that it exceeds 6 for eight words only.
  `ScanGetsNearer` counts what is left of a walk (`Left`): of the search by the entries of /proc, of
  the tree by `Height`, since a parent is older than its child (`Ancestry`), whoever ends or starts meanwhile.

The assumptions are the ASSUMEs of the modules and nothing else: regions of a state are
disjoint and in order, as `/proc/<pid>/maps` gives them; pages of a layout are in its maps, and [vvar] lies below [vdso], as the kernel of arm64 has it.

Only model-checked: the six liveness properties, which are, with ENABLED, outside TLAPS's
reach. What they need besides fairness is proved, namely that each step of the process in
question leaves less to do, in a measure over the natural numbers, and that nobody else adds to it
(or what does, once, is named): CommandGetsNearer for CommandEnds, NobodyIsPassedOver for
CommandServed, ResumedSoon for TraceeResumed, ThawGetsNearer for ClientEnds,
RequestGetsNearer for RequestAnswered, ScanGetsNearer for ScanEnds. That some step is possible as long as there
is something to do, unless one of the exceptions named holds, is left to TLC.

## Abstractions

- A traced process is trapped: what runs between a resume and the next stop happens
  within one action. In Daemon the label `loop` is one such stretch; TraceLoop is
  its inside.
- TraceLoop: how many bytes of a write are carried out is left open. colorize-stderr tells the
  program that all of them were, whatever the result was (`daemon.rs` 252).
- Pids are not reused, and tracees have one thread.
- A step of the kernel (an injected call) is atomic; its failure modes are those
  its caller tells apart.
- Rot13 takes the mapping of the buffer not to change during the write; TraceLoop,
  where that matters, lets either pass fail.
- The environment may type, steal, stop, continue, trace and kill at any moment.
- The daemon's own resources (descriptors, memory) are not counted; an allocation
  that is too large in read_string is `Panic`.

- Capture: what memory holds is the time at which it was written; the document is a
  sequence of items, of which any prefix can be in the file.
- Thaw and Spawn: memory is whole pages, a region is written from its start up to the
  first page that cannot be written; the kernel may refuse any mapping call.
- Spawn is one request: the server's threads share no state.
- ProcInfo: numbers of a line are what parse::<i32> makes of them; names have at most
  eight words (TASK_COMM_LEN is 16).
- Arguments: an injected mapping is exactly as long as the bytes put there, rounded up
  with zeros to its page, and the command line is the one the program was given, or that less its
  last 0. A title that the program has written over it, which rewind would take for path and
  arguments (`daemon.rs` 197), may be any bytes, and is left out.
- Thaw: an instruction executed by mistake on a foreign page writes nothing; Capture: what a new program
  does is nothing to the copiers.

### Not modelled

- The text of `/proc/<pid>/maps` (`parse_map_line`): its fields are what Capture, Thaw
  and Spawn start from. A line that cannot be parsed ends the command as any failing call does.
- The other listings of procinfo (list_processes, list_terminals, groups, sessions):
  they only print records made as those of ProcInfo. The groups are keyed by the pid of
  the process, not by its pgid (`procinfo.rs` 53-63); nothing in the repository says what the
  listing should show.
- spawn_on_terminal and get_terminal_size, which nothing calls.
- The bytes write_to_stdin pushes one by one (they may be interleaved with typing),
  logs, the example programs, descriptors and umask of the daemon.

## Plan

Done: `Tracee`, `ProcessController`, `Daemon`, `Custody` (whom the daemon holds); `TraceLoop`,
`Filter` (the phase of the filters, and what they promise); `Rot13`; `Channel`, `CommandQueue`; `Program`, `Capture`,
`Snapshot` (freeze, teleclient); `AddressSpace`, `Thaw`, `Spawn`; `StatLine`, `ProcInfo`;
`Arguments`; their runs and proofs.

What remains worth doing, in order:

1. That a call of the daemon is possible whenever a command is in progress and none of the
   exceptions of CommandEnds holds, as a theorem about the guards; the same for Channel and Thaw.
2. The parsing of a map line against a reference definition.
3. Freeze on one machine and thaw of its file as one composition (Capture, then Thaw),
   so that a spoiled file reaches the thaw.

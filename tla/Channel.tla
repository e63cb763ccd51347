------------------------------ MODULE Channel -------------------------------
(***************************************************************************)
(* How commands reach the daemon: the proctool clients                     *)
(* (src/proctool/bin/client.rs), the TCP port and its queue of connections *)
(* that the daemon has not accepted, and listen_forever and handle_client  *)
(* (src/proctool/bin/daemon.rs).  A message is the whole of a connection:  *)
(* it has no newline, so that read_line returns only when the client has   *)
(* closed.  What a command does is the subject of Daemon.tla.              *)
(***************************************************************************)
EXTENDS Naturals, Sequences, Functions

CONSTANTS
  Clients,    \* client processes, each run once
  Jobs,       \* what they are run for in this instance
  Nobody      \* no client

\* Subcommands: one that the daemon carries out, one that goes on until a
\* process does something (rot13, colorize-stderr, and what waits for a line
\* to be typed), daemon-kill, daemon-restart,
\* daemon-start and daemon-status.
AllJobs == {"command", "endless", "kill", "restart", "start", "status"}

ASSUME ChannelAssumption ==
  /\ Jobs \subseteq AllJobs
  /\ Nobody \notin Clients

VARIABLES
  job,        \* job[c]: the subcommand
  client,     \* client[c]: how far it has got
  sent,       \* the clients whose message is in their connection
  listening,  \* a daemon has the port
  booting,    \* daemons that have been forked and not yet bound the port
  backlog,    \* connections not accepted, oldest first
  serving,    \* the client whose connection handle_client reads
  running,    \* run_command has been called for it
  performed,  \* history: clients whose command was carried out
  lost,       \* history: clients whose connection a daemon's end has cut
  bindLost,   \* history: a booting daemon has found the port taken
  crashed     \* history: a daemon has died otherwise than by a Kill message,
              \* or has failed to start

vars == <<job, client, sent, listening, booting, backlog, serving, running,
          performed, lost, bindLost, crashed>>

Stages == {"init", "connected", "written", "starting", "ok", "error", "killed"}

\* What the client sends is a Command message.
IsCommand(c) == job[c] \in {"command", "endless"}

TypeOK ==
  /\ job \in [Clients -> Jobs]
  /\ client \in [Clients -> Stages]
  /\ sent \subseteq Clients
  /\ listening \in BOOLEAN
  /\ booting \in Nat
  /\ backlog \in Seq(Clients)
  /\ serving \in Clients \cup {Nobody}
  /\ running \in BOOLEAN
  /\ performed \in Seq(Clients)
  /\ lost \subseteq Clients
  /\ bindLost \in BOOLEAN /\ crashed \in BOOLEAN

Init ==
  /\ job \in [Clients -> Jobs]
  /\ client = [c \in Clients |-> "init"]
  /\ sent = {}
  /\ listening \in BOOLEAN
  /\ booting = 0
  /\ backlog = <<>>
  /\ serving = Nobody /\ running = FALSE
  /\ performed = <<>> /\ lost = {}
  /\ bindLost = FALSE /\ crashed = FALSE

history == <<performed, lost, bindLost, crashed>>
daemonVars == <<listening, booting, backlog, serving, running>>

-----------------------------------------------------------------------------
(* The client.                                                              *)

Stage(c, s) == client' = [client EXCEPT ![c] = s]

\* The connections that are not cut.
Open == Range(backlog) \cup ({serving} \ {Nobody})

\* Daemon::connect: the kernel accepts for a daemon that listens.
Connect(c) ==
  /\ client[c] = "init" /\ job[c] # "start" /\ listening
  /\ Stage(c, "connected")
  /\ backlog' = Append(backlog, c)
  /\ UNCHANGED <<job, sent, listening, booting, serving, running, history>>

ConnectRefused(c) ==
  /\ client[c] = "init" /\ job[c] # "start" /\ ~listening
  /\ Stage(c, "error")
  /\ UNCHANGED <<job, sent, daemonVars, history>>

\* send_message.  On a connection that has been cut the write fails, exit(1),
\* or goes nowhere when the daemon closed it in order.
SendMessage(c) ==
  /\ client[c] = "connected" /\ job[c] # "status"
  /\ \/ c \in Open /\ Stage(c, "written") /\ sent' = sent \cup {c}
     \/ c \notin Open /\ (Stage(c, "error") \/ Stage(c, "written")) /\ UNCHANGED sent
  /\ UNCHANGED <<job, daemonVars, history>>

\* Wrong: there is no daemon-restart beyond the kill.
CloseWithoutStart(c) ==
  /\ client[c] = IF job[c] = "status" THEN "connected" ELSE "written"
  /\ Stage(c, "ok")
  /\ UNCHANGED <<job, sent, daemonVars, history>>

\* The Daemon value is dropped, which closes the connection: at the end of
\* dispatch_to_daemon, kill_daemon and print_daemon_status.
Close(c) ==
  /\ client[c] = IF job[c] = "status" THEN "connected" ELSE "written"
  /\ Stage(c, IF job[c] = "restart" THEN "starting" ELSE "ok")
  /\ UNCHANGED <<job, sent, daemonVars, history>>

\* start_daemon waits for the process it has spawned, which is gone as soon as
\* self_daemonize has forked.  Nobody looks at its exit status.
StartDaemon(c) ==
  /\ client[c] = IF job[c] = "start" THEN "init" ELSE "starting"
  /\ job[c] \in {"start", "restart"}
  /\ Stage(c, "ok")
  /\ \/ booting' = booting + 1 /\ UNCHANGED crashed
     \/ crashed' = TRUE /\ UNCHANGED booting
  /\ UNCHANGED <<job, sent, listening, backlog, serving, running, performed, lost, bindLost>>

\* The user interrupts it.
Interrupt(c) ==
  /\ client[c] \in {"connected", "written", "starting"}
  /\ Stage(c, "killed")
  /\ UNCHANGED <<job, sent, daemonVars, history>>

Closed(c) == client[c] \in {"starting", "ok", "error", "killed"}

-----------------------------------------------------------------------------
(* The daemon.                                                              *)

\* TcpListener::bind fails while another daemon has the port.
Bind ==
  /\ booting > 0
  /\ booting' = booting - 1
  /\ listening' = TRUE
  /\ bindLost' = (bindLost \/ listening)
  /\ UNCHANGED <<job, client, sent, backlog, serving, running, performed, lost, crashed>>

\* Wrong: the newest connection first.
AcceptLast ==
  /\ serving = Nobody /\ backlog # <<>>
  /\ serving' = backlog[Len(backlog)]
  /\ backlog' = SubSeq(backlog, 1, Len(backlog) - 1)
  /\ UNCHANGED <<job, client, sent, listening, booting, running, history>>

Accept ==
  /\ serving = Nobody /\ backlog # <<>>
  /\ serving' = Head(backlog)
  /\ backlog' = Tail(backlog)
  /\ UNCHANGED <<job, client, sent, listening, booting, running, history>>

\* Wrong: what has come so far is taken for a line.
ReadWithoutEOF ==
  /\ serving # Nobody /\ ~running
  /\ serving \in sent => IsCommand(serving)
  /\ IF serving \in sent
       THEN running' = TRUE /\ UNCHANGED serving
       ELSE serving' = Nobody /\ UNCHANGED running
  /\ UNCHANGED <<job, client, sent, listening, booting, backlog, history>>

\* Wrong: n = 0 does not end the connection.
ReadWithoutBreak ==
  /\ serving # Nobody /\ ~running /\ Closed(serving)
  /\ serving \in sent /\ IsCommand(serving)
  /\ running' = TRUE
  /\ UNCHANGED <<job, client, sent, listening, booting, backlog, serving, history>>

\* read_line: a message, or nothing was sent and handle_client returns.
ReadLine ==
  /\ serving # Nobody /\ ~running /\ Closed(serving)
  /\ serving \in sent => IsCommand(serving)
  /\ IF serving \in sent
       THEN running' = TRUE /\ UNCHANGED serving
       ELSE serving' = Nobody /\ UNCHANGED running
  /\ UNCHANGED <<job, client, sent, listening, booting, backlog, history>>

\* run_command returns, with an error that is logged or without, and the next
\* read_line finds the end of the connection.
Finish ==
  /\ running' = FALSE
  /\ performed' = Append(performed, serving)
  /\ serving' = Nobody
  /\ UNCHANGED <<job, client, sent, listening, booting, backlog, lost, bindLost, crashed>>

RunCommand == running /\ job[serving] = "command" /\ Finish

\* The process that is filtered exits.
EndlessEnds == running /\ job[serving] = "endless" /\ Finish

\* The listener is closed, and with it every connection of the backlog.
GoDown(cut) ==
  /\ listening' = FALSE
  /\ backlog' = <<>>
  /\ serving' = Nobody /\ running' = FALSE
  /\ lost' = lost \cup cut
  /\ UNCHANGED <<job, client, sent, booting, performed, bindLost>>

\* The Kill message: handle_client returns true.
Shutdown ==
  /\ serving # Nobody /\ ~running /\ Closed(serving)
  /\ serving \in sent /\ job[serving] \in {"kill", "restart"}
  /\ GoDown(Range(backlog))
  /\ UNCHANGED crashed

\* A panic, a signal, an error of accept: what is being served is lost too.
Crash ==
  /\ listening
  /\ GoDown(Open)
  /\ crashed' = TRUE

\* configure_logging fails, or the process is killed before it binds.
BootFails ==
  /\ booting > 0
  /\ booting' = booting - 1
  /\ crashed' = TRUE
  /\ UNCHANGED <<job, client, sent, listening, backlog, serving, running,
                 performed, lost, bindLost>>

DaemonStep == Bind \/ Accept \/ ReadLine \/ RunCommand \/ Shutdown

Next ==
  \/ \E c \in Clients :
       \/ Connect(c) \/ ConnectRefused(c) \/ SendMessage(c) \/ Close(c)
       \/ StartDaemon(c) \/ Interrupt(c)
  \/ DaemonStep \/ EndlessEnds \/ Crash \/ BootFails

Spec == Init /\ [][Next]_vars

\* The daemon's thread is scheduled.  A client may be stopped for ever, and the
\* process that rot13 or colorize-stderr filters need not exit.
LiveSpec == Spec /\ WF_vars(DaemonStep)

-----------------------------------------------------------------------------
(* Properties.                                                              *)

\* The connections that the daemon has still to deal with, in its order.
Waiting == IF serving = Nobody THEN backlog ELSE <<serving>> \o backlog

Q == INSTANCE CommandQueue WITH
       pending <- Waiting,
       done    <- performed,
       spent   <- {c \in Clients : client[c] # "init"}

\* The daemon carries out each command at most once, in the order in which the
\* clients connected (daemon.rs listen_forever, handle_client).
QueueSpec == Q!Spec

\* dispatch_to_daemon has returned Ok: the command has been carried out, or its
\* connection is still the daemon's to read, or a daemon's end has cut it
\* (client.rs dispatch_to_daemon, daemon.rs handle_client).
Accounted ==
  \A c \in Clients : IsCommand(c) /\ client[c] = "ok" =>
    c \in Range(performed) \cup Open \cup lost

\* A daemon that was started is there unless someone killed it, it died, or it
\* came while its predecessor still had the port: daemon-restart does not wait
\* for the end of the daemon it kills (client.rs DaemonRestart).
Gone == ~listening /\ booting = 0
KillsIt(c) ==
  c \in sent /\ (job[c] = "kill" \/ (job[c] = "restart" /\ client[c] # "ok"))
GoneForAReason ==
  Gone /\ (\E c \in Clients : job[c] \in {"start", "restart"} /\ client[c] = "ok") =>
    crashed \/ bindLost \/ \E c \in Clients : KillsIt(c)

\* In the daemon's way: a client that has connected and neither goes on nor
\* goes away, or a filter whose process lives on.
HeldUp ==
  serving # Nobody /\ IF running THEN job[serving] = "endless" ELSE ~Closed(serving)

\* A command that was sent is carried out, or lost with its daemon, or waits
\* for ever behind another connection (daemon.rs listen_forever is sequential).
CommandServed ==
  \A c \in Clients :
    [](c \in sent /\ IsCommand(c) => <>(c \in Range(performed) \cup lost) \/ <>[]HeldUp)

=============================================================================

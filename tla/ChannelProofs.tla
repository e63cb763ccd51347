--------------------------- MODULE ChannelProofs ----------------------------
(***************************************************************************)
(* Theorems about Channel.tla, for any number of clients.                  *)
(***************************************************************************)
EXTENDS Channel, SequenceTheorems, TLAPS

\* Why the theorems hold.  A client that is through has its connection in the
\* daemon's hands, and its message in it, unless it was cut; a daemon-restart
\* whose message still waits has a successor that will not find the port free
\* (client.rs, daemon.rs listen_forever).
Delivered ==
  \A c \in Clients : IsCommand(c) =>
    /\ client[c] \in {"connected", "written", "ok"} => c \in Range(performed) \cup Open \cup lost
    /\ client[c] \in {"written", "ok"} => c \in sent \cup lost

DownIsEmpty == ~listening => backlog = <<>> /\ serving = Nobody

Succeeded ==
  \A c \in Open : job[c] = "restart" /\ client[c] = "ok" =>
    booting > 0 \/ bindLost \/ crashed

\* All of it together, and what run_command is called for (daemon.rs).
IInv ==
  /\ TypeOK
  /\ \A c \in Clients : job[c] = "start" => client[c] \in {"init", "ok"}
  /\ running => serving \in sent /\ IsCommand(serving)
  /\ Range(performed) \subseteq sent
  /\ DownIsEmpty /\ Delivered /\ Succeeded /\ GoneForAReason

-----------------------------------------------------------------------------

LEMMA RangeOfAppend ==
  ASSUME NEW S, NEW s \in Seq(S), NEW e \in S
  PROVE  Append(s, e) \in Seq(S) /\ Range(Append(s, e)) = Range(s) \cup {e}
  BY AppendProperties DEF Range

LEMMA RangeOfHeadTail ==
  ASSUME NEW S, NEW s \in Seq(S), s # <<>>
  PROVE  /\ Head(s) \in S /\ Tail(s) \in Seq(S)
         /\ Range(s) = {Head(s)} \cup Range(Tail(s))
<1>1. /\ Len(s) \in Nat /\ Len(s) > 0 /\ Head(s) = s[1] /\ DOMAIN s = 1..Len(s)
      /\ Len(Tail(s)) = Len(s) - 1 /\ DOMAIN Tail(s) = 1..(Len(s) - 1)
      /\ \A i \in 1..(Len(s) - 1) : Tail(s)[i] = s[i + 1]
      /\ Head(s) \in S /\ Tail(s) \in Seq(S)
  OBVIOUS
<1>2. ASSUME NEW e \in Range(s) PROVE e \in {Head(s)} \cup Range(Tail(s))
  <2>1. PICK i \in 1..Len(s) : e = s[i]
    BY <1>1 DEF Range
  <2>2. CASE i # 1
    <3>1. i - 1 \in 1..(Len(s) - 1) /\ (i - 1) + 1 = i
      BY <1>1, <2>2
    <3>2. Tail(s)[i - 1] = e
      BY <1>1, <2>1, <3>1
    <3> QED
      BY <1>1, <3>1, <3>2 DEF Range
  <2> QED
    BY <1>1, <2>1, <2>2
<1>3. {Head(s)} \cup Range(Tail(s)) \subseteq Range(s)
  <2>1. Head(s) \in Range(s)
    BY <1>1 DEF Range
  <2>2. \A j \in 1..(Len(s) - 1) : j + 1 \in 1..Len(s)
    BY <1>1
  <2> QED
    BY <1>1, <2>1, <2>2 DEF Range
<1> QED
  BY <1>1, <1>2, <1>3

LEMMA RangeInBase ==
  ASSUME NEW S, NEW s \in Seq(S)
  PROVE  Range(s) \subseteq S
  BY DEF Range

LEMMA RangeOfEmpty == Range(<<>>) = {} /\ \A S : <<>> \in Seq(S)
  BY DEF Range

\* What TypeOK says of the daemon's two sequences.
LEMMA RangesTyped ==
  ASSUME TypeOK
  PROVE  /\ Range(backlog) \subseteq Clients /\ Range(performed) \subseteq Clients
         /\ Open \subseteq Clients
  BY RangeInBase DEF TypeOK, Open

LEMMA InitIInv == Init => IInv
<1> SUFFICES ASSUME Init PROVE IInv
  OBVIOUS
<1>1. TypeOK /\ Range(performed) = {}
  BY RangeOfEmpty DEF Init, TypeOK, Stages
<1>2. Open = {} /\ \A c \in Clients : client[c] = "init"
  BY RangeOfEmpty DEF Init, Open
<1>3. Delivered /\ Succeeded /\ GoneForAReason
  BY <1>2 DEF Delivered, Succeeded, GoneForAReason
<1> QED
  BY <1>1, <1>3 DEF Init, IInv, DownIsEmpty

\* The steps of clients.
LEMMA ClientPreserves ==
  ASSUME IInv, NEW c \in Clients,
         \/ Connect(c) \/ ConnectRefused(c) \/ SendMessage(c) \/ Close(c)
         \/ StartDaemon(c) \/ Interrupt(c)
  PROVE  IInv'
<1> USE DEF Stage, history, daemonVars
<1>1. CASE Connect(c)
  <2>1. backlog' \in Seq(Clients) /\ Range(backlog') = Range(backlog) \cup {c}
    BY <1>1, RangeOfAppend DEF Connect, IInv, TypeOK
  <2>2. TypeOK'
    BY <1>1, <2>1 DEF Connect, IInv, TypeOK, Stages
  <2>3. Open' = Open \cup {c}
    BY <1>1, <2>1 DEF Connect, Open
  <2>4. Delivered'
    BY <1>1, <2>3 DEF Connect, IInv, TypeOK, Delivered, IsCommand
  <2>5. Succeeded'
    BY <1>1, <2>3, RangesTyped DEF Connect, IInv, TypeOK, Succeeded
  <2>6. DownIsEmpty' /\ GoneForAReason'
    BY <1>1 DEF Connect, DownIsEmpty, GoneForAReason, Gone
  <2> QED
    BY <1>1, <2>2, <2>4, <2>5, <2>6 DEF Connect, IInv, IsCommand
<1>2. CASE ConnectRefused(c) \/ SendMessage(c) \/ Interrupt(c)
  <2>1. /\ UNCHANGED <<job, listening, booting, backlog, serving, running, performed,
                       lost, bindLost, crashed>>
        /\ sent \subseteq sent' /\ sent' \subseteq sent \cup {c}
        /\ \E s \in {"error", "written", "killed"} : client' = [client EXCEPT ![c] = s]
        /\ client'[c] = "written" =>
             client[c] = "connected" /\ (c \in sent' \/ c \notin Open)
    BY <1>2 DEF ConnectRefused, SendMessage, Interrupt, IInv, TypeOK
  <2>2. TypeOK'
    BY <2>1 DEF IInv, TypeOK, Stages
  <2>3. Open' = Open
    BY <2>1 DEF Open
  <2>4. ASSUME NEW d \in Clients, IsCommand(d)
        PROVE  /\ client'[d] \in {"connected", "written", "ok"} =>
                    d \in Range(performed) \cup Open \cup lost
               /\ client'[d] \in {"written", "ok"} => d \in sent' \cup lost
    <3>1. CASE d = c
      BY <2>1, <2>4, <3>1 DEF IInv, TypeOK, Delivered
    <3>2. CASE d # c
      BY <2>1, <2>4, <3>2 DEF IInv, TypeOK, Delivered
    <3> QED
      BY <3>1, <3>2
  <2>5. Succeeded'
    BY <2>1, <2>3, RangesTyped DEF IInv, TypeOK, Succeeded
  <2>6. GoneForAReason'
    BY <2>1 DEF IInv, TypeOK, GoneForAReason, Gone, KillsIt
  <2> QED
    BY <1>2, <2>1, <2>2, <2>3, <2>4, <2>5, <2>6
       DEF IInv, TypeOK, DownIsEmpty, Delivered, IsCommand, ConnectRefused, SendMessage, Interrupt
<1>3. CASE Close(c)
  <2>1. /\ UNCHANGED <<job, sent, listening, booting, backlog, serving, running, performed,
                       lost, bindLost, crashed>>
        /\ client[c] = IF job[c] = "status" THEN "connected" ELSE "written"
        /\ client' = [client EXCEPT ![c] = IF job[c] = "restart" THEN "starting" ELSE "ok"]
    BY <1>3 DEF Close
  <2>2. TypeOK'
    BY <2>1 DEF IInv, TypeOK, Stages
  <2>3. Open' = Open
    BY <2>1 DEF Open
  <2>4. Delivered'
    BY <2>1, <2>3 DEF IInv, TypeOK, Delivered, IsCommand
  <2>5. Succeeded'
    BY <2>1, <2>3, RangesTyped DEF IInv, TypeOK, Succeeded
  <2>6. GoneForAReason'
    <3>1. \A d \in Clients : KillsIt(d) => KillsIt(d)'
      BY <2>1 DEF IInv, TypeOK, KillsIt
    <3>2. CASE job[c] # "start"
      <4>1. \A d \in Clients : job'[d] \in {"start", "restart"} /\ client'[d] = "ok" =>
              job[d] \in {"start", "restart"} /\ client[d] = "ok"
        BY <2>1, <3>2 DEF IInv, TypeOK
      <4> QED
        BY <2>1, <3>1, <4>1 DEF IInv, GoneForAReason, Gone
    <3>3. CASE job[c] = "start"
      BY <2>1, <3>3 DEF IInv
    <3> QED
      BY <3>2, <3>3
  <2> QED
    BY <2>1, <2>2, <2>4, <2>5, <2>6 DEF IInv, DownIsEmpty, IsCommand
<1>4. CASE StartDaemon(c)
  <2>1. /\ UNCHANGED <<job, sent, listening, backlog, serving, running, performed,
                       lost, bindLost>>
        /\ job[c] \in {"start", "restart"}
        /\ client' = [client EXCEPT ![c] = "ok"]
        /\ (booting' = booting + 1 /\ crashed' = crashed) \/ (crashed' = TRUE /\ booting' = booting)
    BY <1>4 DEF StartDaemon
  <2>5. booting' \in Nat
    BY <2>1, booting \in Nat DEF IInv, TypeOK
  <2>6. crashed' \in BOOLEAN
    BY <2>1, crashed \in BOOLEAN, Zenon DEF IInv, TypeOK
  <2>2. TypeOK'
    BY <2>1, <2>5, <2>6 DEF IInv, TypeOK, Stages
  <2>3. Open' = Open /\ (booting' > 0 \/ crashed')
    BY <2>1 DEF Open, IInv, TypeOK
  <2>4. Delivered'
    BY <2>1, <2>3 DEF IInv, TypeOK, Delivered, IsCommand
  <2> QED
    BY <2>1, <2>2, <2>3, <2>4
       DEF IInv, TypeOK, DownIsEmpty, IsCommand, Succeeded, GoneForAReason, Gone
<1> QED
  BY <1>1, <1>2, <1>3, <1>4

\* The steps of the daemon.
LEMMA DaemonPreserves ==
  ASSUME IInv, DaemonStep \/ EndlessEnds \/ Crash \/ BootFails
  PROVE  IInv'
<1> USE DEF history
<1>1. CASE Bind \/ BootFails
  <2>1. /\ UNCHANGED <<job, client, sent, backlog, serving, running, performed, lost>>
        /\ booting > 0 /\ booting' = booting - 1
    BY <1>1 DEF Bind, BootFails
  <2>2. listening' \in BOOLEAN /\ bindLost' \in BOOLEAN /\ crashed' \in BOOLEAN
    BY <1>1, Zenon DEF Bind, BootFails, IInv, TypeOK
  <2>3. booting' \in Nat
    BY <2>1, booting \in Nat DEF IInv, TypeOK
  <2>4. TypeOK'
    BY <2>1, <2>2, <2>3 DEF IInv, TypeOK
  <2>5. Open' = Open
    BY <2>1 DEF Open
  <2>6. Delivered'
    BY <2>1, <2>5 DEF IInv, Delivered, IsCommand
  <2>7. DownIsEmpty'
    BY <1>1, <2>1 DEF IInv, DownIsEmpty, Bind, BootFails
  <2>8. Open # {} => crashed' \/ bindLost'
    <3>1. Open # {} => listening
      BY RangeOfEmpty DEF IInv, DownIsEmpty, Open
    <3> QED
      BY <1>1, <3>1 DEF Bind, BootFails
  <2>9. Succeeded'
    BY <2>5, <2>8 DEF Succeeded
  <2>10. GoneForAReason'
    BY <1>1 DEF Bind, BootFails, GoneForAReason, Gone
  <2> QED
    BY <2>1, <2>4, <2>6, <2>7, <2>9, <2>10 DEF IInv, IsCommand
<1>2. CASE Accept
  <2>1. /\ serving = Nobody /\ backlog # <<>>
        /\ serving' = Head(backlog) /\ backlog' = Tail(backlog)
        /\ UNCHANGED <<job, client, sent, listening, booting, running, performed, lost,
                       bindLost, crashed>>
    BY <1>2 DEF Accept
  <2>2. /\ Head(backlog) \in Clients /\ Tail(backlog) \in Seq(Clients)
        /\ Range(backlog) = {Head(backlog)} \cup Range(Tail(backlog))
    BY <2>1, RangeOfHeadTail DEF IInv, TypeOK
  <2>3. Open' = Open
    BY <2>1, <2>2, ChannelAssumption DEF Open, ChannelAssumption
  <2>4. TypeOK'
    BY <2>1, <2>2 DEF IInv, TypeOK
  <2>5. Nobody \notin sent
    BY ChannelAssumption DEF ChannelAssumption, IInv, TypeOK
  <2>6. ~running
    BY <2>1, <2>5 DEF IInv
  <2>7. Delivered'
    BY <2>1, <2>3 DEF IInv, Delivered, IsCommand
  <2>8. Succeeded' /\ DownIsEmpty' /\ GoneForAReason'
    BY <2>1, <2>3 DEF IInv, Succeeded, DownIsEmpty, GoneForAReason, Gone, KillsIt
  <2> QED
    BY <2>1, <2>4, <2>6, <2>7, <2>8 DEF IInv, IsCommand
<1>3. CASE ReadLine
  <2>1. /\ serving \in Clients /\ ~running /\ Closed(serving)
        /\ UNCHANGED <<job, client, sent, listening, booting, backlog, performed, lost,
                       bindLost, crashed>>
        /\ serving \in sent => IsCommand(serving) /\ running' = TRUE /\ serving' = serving
        /\ serving \notin sent => serving' = Nobody /\ running' = running
    BY <1>3 DEF ReadLine, IInv, TypeOK
  <2>2. TypeOK'
    BY <2>1 DEF IInv, TypeOK
  <2>3. Open' \subseteq Open /\ Open \subseteq Open' \cup {serving}
    BY <2>1 DEF Open
  <2>4. serving \in sent => Open' = Open
    BY <2>1 DEF Open
  <2>5. Delivered'
    BY <2>1, <2>3, <2>4 DEF IInv, Delivered, IsCommand, Closed
  <2>6. Succeeded' /\ DownIsEmpty' /\ GoneForAReason'
    BY <2>1, <2>3 DEF IInv, Succeeded, DownIsEmpty, GoneForAReason, Gone, KillsIt
  <2> QED
    BY <2>1, <2>2, <2>5, <2>6 DEF IInv, IsCommand
<1>4. CASE RunCommand \/ EndlessEnds
  <2>1. /\ running /\ running' = FALSE /\ serving' = Nobody
        /\ performed' = Append(performed, serving)
        /\ UNCHANGED <<job, client, sent, listening, booting, backlog, lost, bindLost, crashed>>
    BY <1>4 DEF RunCommand, EndlessEnds, Finish
  <2>2. serving \in sent /\ serving \in Clients
    BY <2>1 DEF IInv, TypeOK
  <2>3. /\ performed' \in Seq(Clients)
        /\ Range(performed') = Range(performed) \cup {serving}
    BY <2>1, <2>2, RangeOfAppend DEF IInv, TypeOK
  <2>4. TypeOK'
    BY <2>1, <2>3 DEF IInv, TypeOK
  <2>5. Open' \subseteq Open /\ Open \subseteq Open' \cup {serving}
    BY <2>1 DEF Open
  <2>6. Delivered'
    BY <2>1, <2>3, <2>5 DEF IInv, Delivered, IsCommand
  <2>7. Succeeded' /\ DownIsEmpty' /\ GoneForAReason'
    BY <2>1, <2>5 DEF IInv, Succeeded, DownIsEmpty, GoneForAReason, Gone, KillsIt
  <2> QED
    BY <2>1, <2>2, <2>3, <2>4, <2>6, <2>7 DEF IInv, IsCommand
<1>5. CASE Shutdown \/ Crash
  <2>1. /\ listening' = FALSE /\ backlog' = <<>> /\ serving' = Nobody /\ running' = FALSE
        /\ UNCHANGED <<job, client, sent, booting, performed, bindLost>>
    BY <1>5 DEF Shutdown, Crash, GoDown
  <2>2. /\ lost' \subseteq lost \cup Open /\ lost \subseteq lost'
        /\ \A c \in Open : IsCommand(c) => c \in lost'
    BY <1>5 DEF Shutdown, Crash, GoDown, Open, IsCommand
  <2>3. Open' = {}
    BY <2>1, RangeOfEmpty DEF Open
  <2>4. crashed' \in BOOLEAN
    BY <1>5, crashed \in BOOLEAN, Zenon DEF Shutdown, Crash, IInv, TypeOK
  <2>5. TypeOK'
    BY <2>1, <2>2, <2>4, RangesTyped, RangeOfEmpty DEF IInv, TypeOK
  <2>6. Delivered'
    BY <2>1, <2>2, <2>3 DEF IInv, Delivered, IsCommand
  <2>7. Succeeded' /\ DownIsEmpty'
    BY <2>1, <2>3 DEF Succeeded, DownIsEmpty
  <2>8. GoneForAReason'
    <3>1. CASE Crash
      BY <3>1 DEF Crash, GoneForAReason
    <3>2. CASE Shutdown
      <4>1. PICK s \in Clients :
              /\ s \in Open /\ s \in sent
              /\ job[s] \in {"kill", "restart"} /\ crashed' = crashed
        BY <3>2 DEF Shutdown, Open, IInv, TypeOK
      <4>2. CASE job[s] = "restart" /\ client[s] = "ok"
        BY <2>1, <4>1, <4>2 DEF IInv, TypeOK, Succeeded, GoneForAReason, Gone
      <4>3. CASE ~(job[s] = "restart" /\ client[s] = "ok")
        <5>1. KillsIt(s)'
          BY <2>1, <4>1, <4>3 DEF KillsIt
        <5> QED
          BY <4>1, <5>1 DEF GoneForAReason
      <4> QED
        BY <4>2, <4>3
    <3> QED
      BY <1>5, <3>1, <3>2
  <2> QED
    BY <2>1, <2>5, <2>6, <2>7, <2>8 DEF IInv
<1> QED
  BY <1>1, <1>2, <1>3, <1>4, <1>5 DEF DaemonStep

LEMMA StutterPreserves == IInv /\ UNCHANGED vars => IInv'
  BY DEF vars, IInv, TypeOK, Closed, IsCommand, DownIsEmpty, Delivered, Succeeded, Open,
         GoneForAReason, Gone, KillsIt

\* The invariant holds in every behaviour of clients and daemons.
THEOREM Invariance == Spec => []IInv
<1>1. IInv /\ [Next]_vars => IInv'
  BY ClientPreserves, DaemonPreserves, StutterPreserves DEF Next
<1> QED
  BY InitIInv, <1>1, PTL DEF Spec

\* Every variable keeps its type (Channel.tla).
THEOREM TypeCorrect == Spec => []TypeOK
<1>1. IInv => TypeOK
  BY DEF IInv
<1> QED
  BY <1>1, Invariance, PTL

\* A command that a client has reported as sent is never simply gone: it was
\* carried out, it waits, or the end of a daemon has cut it off.
THEOREM SentIsAccountedFor == Spec => []Accounted
<1>1. IInv => Accounted
  BY DEF IInv, Delivered, Accounted
<1> QED
  BY <1>1, Invariance, PTL

\* There is no daemon after a start only if one was killed or has died, or if
\* a new one came too early to find the port free.
THEOREM DaemonGoneForAReason == Spec => []GoneForAReason
<1>1. IInv => GoneForAReason
  BY DEF IInv
<1> QED
  BY <1>1, Invariance, PTL
-----------------------------------------------------------------------------
(* Channel implements CommandQueue.                                         *)

LEMMA OneMore ==
  ASSUME NEW S, NEW s \in S, NEW q \in Seq(S)
  PROVE  <<s>> \o q # <<>> /\ Head(<<s>> \o q) = s /\ Tail(<<s>> \o q) = q
<1>1. <<s>> \in Seq(S) /\ Len(<<s>>) = 1 /\ <<s>>[1] = s
  OBVIOUS
<1> QED
  BY <1>1

LEMMA OneMoreAtEnd ==
  ASSUME NEW S, NEW s \in S, NEW e \in S, NEW q \in Seq(S)
  PROVE  <<s>> \o Append(q, e) = Append(<<s>> \o q, e)
  OBVIOUS

LEMMA HeadAndTail ==
  ASSUME NEW S, NEW q \in Seq(S), q # <<>>
  PROVE  <<Head(q)>> \o Tail(q) = q /\ Head(q) \in S
  OBVIOUS

Spent == {c \in Clients : client[c] # "init"}

\* A client is refused or gets into the queue; nothing else it does matters.
LEMMA ClientQueues ==
  ASSUME IInv, NEW c \in Clients,
         \/ Connect(c) \/ ConnectRefused(c) \/ SendMessage(c) \/ Close(c)
         \/ StartDaemon(c) \/ Interrupt(c)
  PROVE  [Q!Next]_<<Waiting, performed, Spent>>
<1> USE DEF Stage, history, daemonVars
<1>1. CASE Connect(c)
  <2>1. Spent' = Spent \cup {c} /\ c \notin Spent
    BY <1>1 DEF Connect, Spent, IInv, TypeOK
  <2>2. Waiting' = Append(Waiting, c)
    BY <1>1, OneMoreAtEnd DEF Connect, Waiting, IInv, TypeOK
  <2>3. Q!Submit(c)
    BY <1>1, <2>1, <2>2 DEF Connect, Q!Submit, Spent
  <2> QED
    BY <2>3 DEF Q!Next
<1>2. CASE ConnectRefused(c) \/ (StartDaemon(c) /\ client[c] = "init")
  <2>1. Spent' = Spent \cup {c}
    BY <1>2 DEF ConnectRefused, StartDaemon, Spent, IInv, TypeOK
  <2>2. UNCHANGED <<Waiting, performed>>
    BY <1>2 DEF ConnectRefused, StartDaemon, Waiting
  <2>3. Q!Refuse(c)
    BY <2>1, <2>2 DEF Q!Refuse, Spent
  <2> QED
    BY <2>3 DEF Q!Next
<1>3. CASE SendMessage(c) \/ Close(c) \/ (StartDaemon(c) /\ client[c] # "init") \/ Interrupt(c)
  <2>1. Spent' = Spent
    BY <1>3 DEF SendMessage, Close, StartDaemon, Interrupt, Spent, IInv, TypeOK
  <2>2. UNCHANGED <<Waiting, performed>>
    BY <1>3 DEF SendMessage, Close, StartDaemon, Interrupt, Waiting
  <2> QED
    BY <2>1, <2>2
<1> QED
  BY <1>1, <1>2, <1>3

\* The daemon takes from the head, or goes and loses all.
LEMMA DaemonQueues ==
  ASSUME IInv, DaemonStep \/ EndlessEnds \/ Crash \/ BootFails
  PROVE  [Q!Next]_<<Waiting, performed, Spent>>
<1> USE DEF history
<1>1. Spent' = Spent
  BY DEF DaemonStep, Bind, Accept, ReadLine, RunCommand, EndlessEnds, Finish, Shutdown, Crash,
         GoDown, BootFails, Spent
<1>2. CASE Bind \/ BootFails
  BY <1>1, <1>2 DEF Bind, BootFails, Waiting
<1>3. CASE Accept
  <2>1. Waiting' = Waiting
    BY <1>3, HeadAndTail, ChannelAssumption DEF Accept, Waiting, IInv, TypeOK
  <2> QED
    BY <1>1, <1>3, <2>1 DEF Accept
<1>4. CASE ReadLine
  <2>1. UNCHANGED <<backlog, performed>> /\ serving # Nobody
    BY <1>4 DEF ReadLine
  <2>2. CASE serving' = serving
    BY <1>1, <2>1, <2>2 DEF Waiting
  <2>3. CASE serving' = Nobody
    <3>1. Waiting # <<>> /\ Waiting' = Tail(Waiting)
      BY <2>1, <2>3, OneMore DEF Waiting, IInv, TypeOK
    <3>2. Q!Skip
      BY <1>1, <2>1, <3>1 DEF Q!Skip, Spent
    <3> QED
      BY <3>2 DEF Q!Next
  <2> QED
    BY <1>4, <2>2, <2>3 DEF ReadLine
<1>5. CASE running /\ Finish
  <2>1. serving \in Clients /\ serving # Nobody
    BY <1>5, ChannelAssumption DEF IInv, TypeOK
  <2>2. Waiting # <<>> /\ Waiting' = Tail(Waiting) /\ performed' = Append(performed, Head(Waiting))
    BY <1>5, <2>1, OneMore DEF Finish, Waiting, IInv, TypeOK
  <2>3. Q!Perform
    BY <1>1, <2>2 DEF Q!Perform, Spent
  <2> QED
    BY <2>3 DEF Q!Next
<1>6. CASE Shutdown \/ Crash
  <2>1. Waiting' = <<>> /\ UNCHANGED performed
    BY <1>6 DEF Shutdown, Crash, GoDown, Waiting
  <2>2. Q!LoseAll
    BY <1>1, <2>1 DEF Q!LoseAll, Spent
  <2> QED
    BY <2>2 DEF Q!Next
<1> QED
  BY <1>2, <1>3, <1>4, <1>5, <1>6 DEF DaemonStep, RunCommand, EndlessEnds

\* Commands are carried out in the order of the connections, each at most once
\* (daemon.rs listen_forever, handle_client).
THEOREM QueueImplemented == Spec => QueueSpec
<1>1. Init => Q!Init
  BY DEF Init, Q!Init, Waiting
<1>2. IInv /\ [Next]_vars => [Q!Next]_<<Waiting, performed, Spent>>
  <2>1. UNCHANGED vars => UNCHANGED <<Waiting, performed, Spent>>
    BY DEF vars, Waiting, Spent
  <2> QED
    BY <2>1, ClientQueues, DaemonQueues DEF Next
<1>3. IInv /\ [Next]_vars => [Q!Next]_Q!vars
  BY <1>2 DEF Q!vars, Spent
<1> QED
  BY <1>1, <1>3, Invariance, PTL DEF Spec, QueueSpec, Q!Spec

-----------------------------------------------------------------------------
(* Everyone's turn comes nearer.                                            *)

\* Steps of the daemon until it has dealt with the connection that is the i-th of
\* those it has not: it accepts each, reads it, and carries out what it brings.
Turns(i) == 3 * i - (IF serving = Nobody THEN 0 ELSE IF running THEN 2 ELSE 1)

DaemonMoves == Accept \/ ReadLine \/ RunCommand \/ EndlessEnds

SentCommand(c) == c \in sent /\ IsCommand(c)

StaysInLine(i) ==
  \E j \in 1..Len(Waiting') :
    /\ Waiting'[j] = Waiting[i]
    /\ DaemonMoves => Turns(j)' < Turns(i)
    /\ ~DaemonMoves => Turns(j)' = Turns(i)

\* Only the first is dealt with, and its command carried out if it sent one.
Served(i) ==
  /\ DaemonMoves /\ i = 1
  /\ SentCommand(Waiting[1]) => Waiting[1] \in Range(performed')

CutOff(i) ==
  /\ listening /\ ~listening'
  /\ SentCommand(Waiting[i]) => Waiting[i] \in lost'

TurnComesNearer == \A i \in 1..Len(Waiting) : StaysInLine(i) \/ Served(i) \/ CutOff(i)

LEMMA WaitingTyped ==
  ASSUME TypeOK
  PROVE  /\ Waiting \in Seq(Clients)
         /\ serving = Nobody => Waiting = backlog
         /\ serving # Nobody => Len(Waiting) >= 1 /\ Waiting[1] = serving /\ Tail(Waiting) = backlog
<1>1. CASE serving = Nobody
  BY <1>1 DEF Waiting, TypeOK
<1>2. CASE serving # Nobody
  <2>1. serving \in Clients /\ backlog \in Seq(Clients) /\ Waiting = <<serving>> \o backlog
    BY <1>2 DEF TypeOK, Waiting
  <2> QED
    BY <1>2, <2>1
<1> QED
  BY <1>1, <1>2

LEMMA TailMovesUp ==
  ASSUME NEW q \in Seq(Clients), NEW i \in 1..Len(q), i # 1
  PROVE  i - 1 \in 1..Len(Tail(q)) /\ Tail(q)[i - 1] = q[i]
  OBVIOUS

\* What leaves the queue in its order.
LEMMA AllStay ==
  ASSUME TypeOK, NEW i \in 1..Len(Waiting),
         UNCHANGED <<serving, running>>, ~DaemonMoves,
         UNCHANGED Waiting \/ \E c \in Clients : Waiting' = Append(Waiting, c)
  PROVE  StaysInLine(i)
<1>1. Waiting \in Seq(Clients)
  BY WaitingTyped
<1>2. i \in 1..Len(Waiting') /\ Waiting'[i] = Waiting[i]
  BY <1>1
<1>3. Turns(i)' = Turns(i)
  BY DEF Turns
<1> QED
  BY <1>2, <1>3 DEF StaysInLine

LEMMA AcceptNearer ==
  ASSUME IInv, Accept, NEW i \in 1..Len(Waiting)
  PROVE  StaysInLine(i)
<1>1. Waiting' = Waiting /\ serving = Nobody /\ serving' # Nobody /\ running' = running
  BY HeadAndTail, ChannelAssumption DEF Accept, Waiting, IInv, TypeOK
<1>2. ~running'
  BY <1>1, ChannelAssumption DEF IInv, TypeOK
<1>3. Turns(i) = 3 * i /\ Turns(i)' = 3 * i - 1 /\ i \in Nat
  BY <1>1, <1>2 DEF Turns
<1>4. Turns(i)' < Turns(i)
  BY <1>3
<1>5. DaemonMoves
  BY DEF DaemonMoves
<1> QED
  BY <1>1, <1>4, <1>5 DEF StaysInLine

\* The first is dealt with: the others move up.
LEMMA MoveUp ==
  ASSUME IInv, DaemonMoves, NEW i \in 1..Len(Waiting),
         serving # Nobody, serving' = Nobody, Waiting' = Tail(Waiting),
         SentCommand(serving) => serving \in Range(performed')
  PROVE  StaysInLine(i) \/ Served(i)
<1>1. Waiting \in Seq(Clients) /\ Waiting[1] = serving
  BY WaitingTyped DEF IInv
<1>2. CASE i = 1
  BY <1>1, <1>2 DEF Served
<1>3. CASE i # 1
  <2>1. i - 1 \in 1..Len(Waiting') /\ Waiting'[i - 1] = Waiting[i]
    BY <1>1, <1>3, TailMovesUp
  <2>2. Turns(i - 1)' = 3 * (i - 1) /\ Turns(i) \in {3 * i - 1, 3 * i - 2} /\ i \in Nat
    BY DEF Turns
  <2>3. Turns(i - 1)' < Turns(i)
    BY <2>2
  <2> QED
    BY <2>1, <2>3 DEF StaysInLine
<1> QED
  BY <1>2, <1>3

LEMMA ReadNearer ==
  ASSUME IInv, ReadLine, NEW i \in 1..Len(Waiting)
  PROVE  StaysInLine(i) \/ Served(i)
<1>1. /\ serving # Nobody /\ ~running /\ UNCHANGED <<backlog, sent, job, performed>>
      /\ DaemonMoves
  BY DEF ReadLine, DaemonMoves, history
<1>2. CASE serving \in sent
  <2>1. serving' = serving /\ running' /\ Waiting' = Waiting
    BY <1>1, <1>2 DEF ReadLine, Waiting
  <2>2. Turns(i) = 3 * i - 1 /\ Turns(i)' = 3 * i - 2 /\ i \in Nat
    BY <1>1, <2>1 DEF Turns
  <2>3. Turns(i)' < Turns(i)
    BY <2>2
  <2> QED
    BY <1>1, <2>1, <2>3 DEF StaysInLine
<1>3. CASE serving \notin sent
  <2>1. serving' = Nobody /\ Waiting' = Tail(Waiting)
    BY <1>1, <1>3, WaitingTyped DEF ReadLine, Waiting, IInv
  <2> QED
    BY <1>1, <1>3, <2>1, MoveUp DEF SentCommand
<1> QED
  BY <1>2, <1>3

LEMMA FinishNearer ==
  ASSUME IInv, RunCommand \/ EndlessEnds, NEW i \in 1..Len(Waiting)
  PROVE  StaysInLine(i) \/ Served(i)
<1>1. running /\ Finish /\ DaemonMoves
  BY DEF RunCommand, EndlessEnds, DaemonMoves
<1>2. serving \in Clients /\ serving # Nobody
  BY <1>1, ChannelAssumption DEF IInv, TypeOK
<1>3. serving \in Range(performed')
  BY <1>1, <1>2, RangeOfAppend DEF Finish, IInv, TypeOK
<1>4. serving' = Nobody /\ Waiting' = Tail(Waiting)
  BY <1>1, <1>2, WaitingTyped DEF Finish, Waiting, IInv
<1> QED
  BY <1>1, <1>2, <1>3, <1>4, MoveUp

LEMMA DownCuts ==
  ASSUME IInv, Shutdown \/ Crash, NEW i \in 1..Len(Waiting)
  PROVE  CutOff(i)
<1>1. Waiting \in Seq(Clients) /\ Waiting[i] \in Clients
  BY WaitingTyped DEF IInv
<1>2. listening /\ ~listening'
  BY WaitingTyped DEF IInv, DownIsEmpty, Shutdown, Crash, GoDown
<1>3. SentCommand(Waiting[i]) => Waiting[i] \in lost'
  <2>1. Waiting[i] \in Open
    BY <1>1, WaitingTyped, RangeOfHeadTail DEF IInv, Open, Waiting, Range
  <2>2. CASE Crash
    BY <2>1, <2>2 DEF Crash, GoDown
  <2>3. CASE Shutdown
    BY <2>1, <2>3 DEF Shutdown, GoDown, Open, SentCommand, IsCommand
  <2> QED
    BY <2>2, <2>3
<1> QED
  BY <1>2, <1>3 DEF CutOff

LEMMA NearerStep == IInv /\ [Next]_vars => [TurnComesNearer]_vars
<1> SUFFICES ASSUME IInv, Next, NEW i \in 1..Len(Waiting)
             PROVE  StaysInLine(i) \/ Served(i) \/ CutOff(i)
  BY DEF TurnComesNearer
<1>1. CASE DaemonMoves
  BY <1>1, AcceptNearer, ReadNearer, FinishNearer DEF DaemonMoves
<1>2. CASE Shutdown \/ Crash
  BY <1>2, DownCuts
<1>3. CASE ~DaemonMoves /\ (Bind \/ BootFails)
  BY <1>3, AllStay DEF IInv, Bind, BootFails, Waiting
<1>4. ASSUME NEW c \in Clients, ~DaemonMoves, Connect(c)
      PROVE  StaysInLine(i)
  <2>1. Waiting' = Append(Waiting, c)
    BY <1>4, OneMoreAtEnd DEF Connect, Waiting, IInv, TypeOK
  <2> QED
    BY <1>4, <2>1, AllStay DEF IInv, Connect
<1>5. ASSUME NEW c \in Clients, ~DaemonMoves,
             ConnectRefused(c) \/ SendMessage(c) \/ Close(c) \/ StartDaemon(c) \/ Interrupt(c)
      PROVE  StaysInLine(i)
  <2>1. UNCHANGED <<serving, running, backlog>>
    BY <1>5 DEF ConnectRefused, SendMessage, Close, StartDaemon, Interrupt, daemonVars
  <2> QED
    BY <1>5, <2>1, AllStay DEF IInv, Waiting
<1> QED
  BY <1>1, <1>2, <1>3, <1>4, <1>5 DEF Next, DaemonStep, DaemonMoves

\* What CommandServed needs of the daemon: each of its steps brings the turn of
\* every client that waits nearer, no other step puts it off, whoever comes
\* later, and none leaves the queue but as its first or with the daemon
\* (daemon.rs listen_forever, handle_client).
THEOREM NobodyIsPassedOver == Spec => [][TurnComesNearer]_vars
BY Invariance, NearerStep, PTL DEF Spec

=============================================================================

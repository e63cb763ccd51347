---------------------------- MODULE CommandQueue -----------------------------
(***************************************************************************)
(* What proctool promises about the commands its clients send: the daemon  *)
(* deals with one connection after the other, in the order in which they   *)
(* were made; the command of each is carried out at most once; a           *)
(* connection may bring none; and all that wait are lost when the daemon   *)
(* goes.  Channel.tla implements it.                                       *)
(***************************************************************************)
EXTENDS Sequences

CONSTANT Clients

VARIABLES
  pending,   \* the clients that wait, in the order of their connections
  done,      \* those whose command was carried out, in that order
  spent      \* those that have connected, or tried to, or did not want to

vars == <<pending, done, spent>>

Init == pending = <<>> /\ done = <<>> /\ spent = {}

Submit(c) ==
  /\ c \notin spent
  /\ pending' = Append(pending, c)
  /\ spent' = spent \cup {c}
  /\ UNCHANGED done

\* No daemon is there, or none is asked.
Refuse(c) ==
  /\ spent' = spent \cup {c}
  /\ UNCHANGED <<pending, done>>

\* It was not for a command that this client had connected, or it has gone
\* without a word.
Skip ==
  /\ pending # <<>>
  /\ pending' = Tail(pending)
  /\ UNCHANGED <<done, spent>>

Perform ==
  /\ pending # <<>>
  /\ done' = Append(done, Head(pending))
  /\ pending' = Tail(pending)
  /\ UNCHANGED spent

LoseAll ==
  /\ pending' = <<>>
  /\ UNCHANGED <<done, spent>>

Next ==
  \/ \E c \in Clients : Submit(c) \/ Refuse(c)
  \/ Skip \/ Perform \/ LoseAll

Spec == Init /\ [][Next]_vars

=============================================================================

------------------------------- MODULE Custody -------------------------------
(***************************************************************************)
(* What the commands of the daemon promise about whom they hold: at most   *)
(* one process is worked upon at a time, never one that is paused, and a   *)
(* process held for long is one that a pause asked for.  Daemon.tla        *)
(* implements it (DaemonProofs.tla, MCDaemon_two.cfg).                     *)
(***************************************************************************)

CONSTANT Pids

VARIABLES
  alive,   \* alive[p]: p exists
  mode     \* mode[p]: free, held by a command in progress, or paused

vars == <<alive, mode>>

Init ==
  /\ alive = [p \in Pids |-> TRUE]
  /\ mode = [p \in Pids |-> "free"]

AllQuiet == \A p \in Pids : mode[p] # "working"

\* A command takes a free process.
Take(p) ==
  /\ alive[p] /\ mode[p] = "free" /\ AllQuiet
  /\ mode' = [mode EXCEPT ![p] = "working"]
  /\ UNCHANGED alive

\* A pause has succeeded.
Keep(p) ==
  /\ mode[p] = "working"
  /\ mode' = [mode EXCEPT ![p] = "paused"]
  /\ UNCHANGED alive

\* A command lets go of the process it works upon.
Release(p) ==
  /\ mode[p] = "working"
  /\ mode' = [mode EXCEPT ![p] = "free"]
  /\ UNCHANGED alive

\* resume, or the failure of another command on p: nothing else is going on.
Resume(p) ==
  /\ mode[p] = "paused" /\ AllQuiet
  /\ mode' = [mode EXCEPT ![p] = "free"]
  /\ UNCHANGED alive

\* The daemon exits.
ReleaseAll ==
  /\ mode' = [p \in Pids |-> "free"]
  /\ UNCHANGED alive

Die(p) ==
  /\ alive[p]
  /\ alive' = [alive EXCEPT ![p] = FALSE]
  /\ mode' = [mode EXCEPT ![p] = "free"]

Next ==
  \/ \E p \in Pids : Take(p) \/ Keep(p) \/ Release(p) \/ Resume(p) \/ Die(p)
  \/ ReleaseAll

Spec == Init /\ [][Next]_vars

=============================================================================

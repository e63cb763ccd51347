------------------------------ MODULE MCDaemon ------------------------------
(***************************************************************************)
(* Instances of Daemon.tla for TLC.  Processes are model values that no    *)
(* definition tells apart.                                                 *)
(***************************************************************************)
EXTENDS Daemon, TLC

Symmetry == Permutations(Pids)

=============================================================================

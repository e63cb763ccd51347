----------------------------- MODULE MCChannel ------------------------------
(***************************************************************************)
(* An instance of Channel.tla for TLC.  No definition tells clients apart, *)
(* so that one order of their jobs stands for all; unlike a symmetry set   *)
(* this is sound for the liveness property too.                            *)
(***************************************************************************)
EXTENDS Channel

CONSTANTS c1, c2, c3

ThreeClients == {c1, c2, c3}

Rank(j) ==
  CHOOSE r \in 1..6 : <<"command", "endless", "kill", "restart", "start", "status">>[r] = j

OrderedInit ==
  /\ Init
  /\ Rank(job[c1]) <= Rank(job[c2])
  /\ Rank(job[c2]) <= Rank(job[c3])

OrderedSpec == OrderedInit /\ [][Next]_vars /\ WF_vars(DaemonStep)

=============================================================================

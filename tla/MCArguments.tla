---------------------------- MODULE MCArguments -----------------------------
(***************************************************************************)
(* An instance of Arguments.tla for TLC.                                   *)
(***************************************************************************)
EXTENDS Arguments

OneChar == {1}

=============================================================================

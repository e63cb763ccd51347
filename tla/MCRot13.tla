------------------------------ MODULE MCRot13 --------------------------------
(***************************************************************************)
(* An instance of Rot13.tla for TLC.                                       *)
(***************************************************************************)
EXTENDS Rot13

\* The last capital letter and the byte behind it.
Letters == {90, 91}

=============================================================================

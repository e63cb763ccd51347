------------------------------ MODULE MCSpawn -------------------------------
(***************************************************************************)
(* An instance of Spawn.tla for TLC.                                       *)
(***************************************************************************)
EXTENDS Spawn

R(base, data, prot, private) ==
  [base |-> base, size |-> 1, data |-> data, prot |-> prot, private |-> private]

\* The same text as the server's, data, and a shared region; then text where the
\* server has nothing, where it has data, and in its 2 MB of text; and no memory at all.
Programs ==
  {[pc |-> 3, regions |-> <<>>]} \cup
  {[pc |-> 1, regions |-> <<R(1, TRUE, {"r", "x"}, TRUE), R(2, TRUE, {"r", "w"}, TRUE),
                            R(3, TRUE, {"r", "w"}, FALSE)>>]} \cup
  {[pc |-> p, regions |-> <<R(0, TRUE, {"r"}, TRUE), R(1, FALSE, {"r"}, TRUE),
                            R(p, TRUE, {"r", "x"}, TRUE)>>] : p \in {2, 3, 4}}

\* Registers of this processor, or of another.
MCRequests ==
  {[gp |-> g, fp |-> f, pc |-> q.pc, regions |-> q.regions] :
     g \in {GpWords, 27}, f \in {GpWords, 27, FpWords}, q \in Programs}

\* Text, with pc, data, and 2 MB of text.
MCLayouts ==
  {[pc |-> 1,
    maps |-> <<[base |-> 1, size |-> 1, huge |-> FALSE], [base |-> 2, size |-> 1, huge |-> FALSE],
               [base |-> 4, size |-> 1, huge |-> TRUE]>>,
    space |-> [p \in Pages |-> CASE p \in {1, 4} -> Page("own", {"r", "x"})
                                 [] p = 2      -> Page("own", {"r", "w"})
                                 [] OTHER      -> Free]]}

=============================================================================

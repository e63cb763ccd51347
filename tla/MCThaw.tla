------------------------------- MODULE MCThaw -------------------------------
(***************************************************************************)
(* An instance of Thaw.tla for TLC.                                        *)
(***************************************************************************)
EXTENDS Thaw

R(base, size, data, prot) == [base |-> base, size |-> size, data |-> data, prot |-> prot]

\* One that covers what the child has, one that covers its svc page with
\* instructions, one with a region that has no data.
MCSavedStates ==
  {<<R(1, 2, TRUE, {"r", "x"}), R(5, 1, TRUE, {"r", "w"})>>,
   <<R(0, 1, TRUE, {"r"}), R(6, 2, TRUE, {"r", "x"})>>,
   <<R(2, 1, FALSE, {"r"}), R(3, 2, TRUE, {"r"})>>}

\* Text, [vvar], [vdso] and stack.
Layout(text, vvar, vdso, stack) ==
  [vvar |-> vvar, vdso |-> vdso,
   space |-> [p \in Pages |->
                CASE p = text          -> Page("own", {"r", "x"})
                  [] p \in {vvar, vdso} -> Page("own", {"r"})
                  [] p = stack         -> Page("own", {"r", "w"})
                  [] OTHER             -> Free]]

\* The usual one, one in which there is no room above the stack, and one that
\* leaves more than half of the address space free.
MCLayouts == {Layout(1, 3, 4, 5), Layout(2, 4, 5, 7), Layout(0, 1, 2, 3)}

=============================================================================

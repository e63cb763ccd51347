------------------------------- MODULE Rot13 --------------------------------
(***************************************************************************)
(* rot13_byte and ProcessController::rot13 (src/proctool/pcontroller.rs):  *)
(* the bytes that the rot13 command changes in its tracee before a write   *)
(* and changes back after it, one overlapping 8-byte word at a time.       *)
(* TraceLoop.tla sees the two passes as single steps.                      *)
(***************************************************************************)
EXTENDS Naturals

CONSTANTS
  Last,    \* the last byte of the mapping the buffer is in; it starts at 0
  Bytes    \* the bytes texts are made of

ASSUME MappingAssumption ==
  /\ Last \in Nat
  /\ Bytes \subseteq 0..255

Addresses == 0..Last

\* u8 arithmetic: no operation here leaves 0..255.
rot13_byte(b) ==
  IF b >= 65 /\ b <= 90 THEN (((b - 65) + 13) % 26) + 65
  ELSE IF b >= 97 /\ b <= 122 THEN (((b - 97) + 13) % 26) + 97
  ELSE b

VARIABLES
  orig,     \* the memory when the loop has stopped the tracee
  base,     \* address and
  count,    \* length of the buffer to be written
  mem,      \* the memory now
  i,        \* the bytes this pass has done
  status,   \* first pass, the write, second pass, done, or an error
  sent      \* what the kernel has read for the write

vars == <<orig, base, count, mem, i, status, sent>>

Memory == [Addresses -> 0..255]

TypeOK ==
  /\ orig \in Memory /\ mem \in Memory /\ sent \in Memory
  /\ base \in Addresses
  /\ count \in 0..(Last + 1)
  /\ base + count <= Last + 1
  /\ i \in 0..count
  /\ status \in {"first", "write", "second", "done", "failed1", "failed2"}

Init ==
  /\ orig \in [Addresses -> Bytes]
  /\ base \in Addresses
  /\ count \in 0..(Last + 1) /\ base + count <= Last + 1
  /\ mem = orig /\ sent = orig
  /\ i = 0 /\ status = "first"

-----------------------------------------------------------------------------

\* ptrace::read and ptrace::write move 8 bytes, or fail if one is not mapped.
Word == 0..7
Mapped(addr) == addr + 7 <= Last
read(addr) == [k \in Word |-> mem[addr + k]]
write(addr, w) ==
  mem' = [a \in Addresses |-> IF a >= addr /\ a - addr \in Word THEN w[a - addr] ELSE mem[a]]

\* Wrong: the shift is applied to the masked word, which gives the top byte.
RotatedTop(c) == [c EXCEPT ![0] = rot13_byte(c[7])]

\* The word with its lowest byte (the one at the address) rotated: the mask is
\* 0xff, for >> binds tighter than &.
Rotated(c) == [c EXCEPT ![0] = rot13_byte(c[0])]

Passing == status \in {"first", "second"}

RotateByte ==
  /\ Passing /\ i < count
  /\ Mapped(base + i)
  /\ LET c == read(base + i) IN
       IF Rotated(c) # c THEN write(base + i, Rotated(c)) ELSE UNCHANGED mem
  /\ i' = i + 1
  /\ UNCHANGED <<orig, base, count, status, sent>>

\* Wrong: an error of the first pass is ignored.
RotateFailsLater ==
  /\ Passing /\ i < count
  /\ ~Mapped(base + i)
  /\ status' = IF status = "first" THEN "write" ELSE "failed2"
  /\ i' = 0
  /\ UNCHANGED <<orig, base, count, mem, sent>>

\* A ? returns from rot13 and from the command.
RotateFails ==
  /\ Passing /\ i < count
  /\ ~Mapped(base + i)
  /\ status' = IF status = "first" THEN "failed1" ELSE "failed2"
  /\ UNCHANGED <<orig, base, count, mem, i, sent>>

EndOfPass ==
  /\ Passing /\ i = count
  /\ i' = 0
  /\ status' = IF status = "first" THEN "write" ELSE "done"
  /\ UNCHANGED <<orig, base, count, mem, sent>>

\* Wrong: nothing comes after the write.
WriteOnly ==
  /\ status = "write"
  /\ sent' = mem
  /\ status' = "done"
  /\ UNCHANGED <<orig, base, count, mem, i>>

\* continue_syscall: the kernel reads the buffer.
Write ==
  /\ status = "write"
  /\ sent' = mem
  /\ status' = "second"
  /\ UNCHANGED <<orig, base, count, mem, i>>

Next == RotateByte \/ RotateFails \/ EndOfPass \/ Write

Spec == Init /\ [][Next]_vars

-----------------------------------------------------------------------------
(* Properties.                                                              *)

InBuffer(a) == a >= base /\ a < base + count

\* The second pass undoes the first: the program finds its buffer as it was
\* (daemon.rs Rot13, rot13 before and after continue_syscall).
Restored == status = "done" => mem = orig

\* What is sent is the rotation of the buffer, and of nothing else though the
\* words overlap the bytes behind it.
SentRotated ==
  status \in {"second", "done", "failed2"} =>
    \A a \in Addresses : sent[a] = IF InBuffer(a) THEN rot13_byte(orig[a]) ELSE orig[a]

\* An error leaves the part of the buffer before it rotated, and comes only
\* where the last bytes of the buffer are the last of their mapping.
FailureLeavesPrefix ==
  status = "failed1" =>
    /\ base + count + 6 > Last
    /\ \A a \in Addresses :
         mem[a] = IF a >= base /\ a < base + i THEN rot13_byte(orig[a]) ELSE orig[a]

\* An error in the second pass, which would leave the end of the buffer rotated,
\* does not happen: the first pass has read the same words.
SecondPassSucceeds == status # "failed2"

=============================================================================

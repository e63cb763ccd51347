----------------------------- MODULE Rot13Proofs -----------------------------
(***************************************************************************)
(* Theorems about Rot13.tla, for every byte, buffer and mapping.           *)
(***************************************************************************)
EXTENDS Rot13, TLAPS

\* rot13_byte is its own inverse on every byte, and its u8 arithmetic does not
\* overflow.
THEOREM ByteInvolution ==
  ASSUME NEW b \in 0..255
  PROVE  rot13_byte(b) \in 0..255 /\ rot13_byte(rot13_byte(b)) = b
<1>1. CASE b >= 65 /\ b <= 90
  <2>1. rot13_byte(b) = IF b <= 77 THEN b + 13 ELSE b - 13
    BY <1>1 DEF rot13_byte
  <2> QED
    BY <1>1, <2>1 DEF rot13_byte
<1>2. CASE b >= 97 /\ b <= 122
  <2>1. rot13_byte(b) = IF b <= 109 THEN b + 13 ELSE b - 13
    BY <1>2 DEF rot13_byte
  <2> QED
    BY <1>2, <2>1 DEF rot13_byte
<1>3. CASE ~(b >= 65 /\ b <= 90) /\ ~(b >= 97 /\ b <= 122)
  BY <1>3 DEF rot13_byte
<1> QED
  BY <1>1, <1>2, <1>3

\* The bytes from base on that a pass has done.
Done(a) == a >= base /\ a < base + i

\* What the memory holds, byte by byte, in each phase.
Content(a) ==
  CASE status \in {"first", "failed1"}  -> IF Done(a) THEN rot13_byte(orig[a]) ELSE orig[a]
    [] status = "write"                 -> IF InBuffer(a) THEN rot13_byte(orig[a]) ELSE orig[a]
    [] status \in {"second", "failed2"} ->
         IF InBuffer(a) /\ ~Done(a) THEN rot13_byte(orig[a]) ELSE orig[a]
    [] status = "done"                  -> orig[a]

\* What the passes keep: each byte is what its phase says, and a pass that has
\* begun has found its words mapped (pcontroller.rs rot13).
IInv ==
  /\ TypeOK
  /\ \A a \in Addresses : mem[a] = Content(a)
  /\ status = "write" => i = 0
  /\ status \notin {"first", "failed1"} => count = 0 \/ base + count + 6 <= Last
  /\ status = "first" => i = 0 \/ base + i + 6 <= Last
  /\ SentRotated /\ FailureLeavesPrefix /\ SecondPassSucceeds

LEMMA InitIInv == Init => IInv
<1> SUFFICES ASSUME Init PROVE IInv
  OBVIOUS
<1>1. TypeOK
  <2>1. orig \in [Addresses -> 0..255]
    BY MappingAssumption DEF MappingAssumption, Init
  <2>2. 0 \in 0..count
    BY MappingAssumption DEF MappingAssumption, Init
  <2> QED
    BY <2>1, <2>2 DEF Init, TypeOK, Memory
<1> QED
  BY <1>1, MappingAssumption
     DEF MappingAssumption, Init, IInv, TypeOK, Memory, Addresses, Content, Done, SentRotated,
         FailureLeavesPrefix, SecondPassSucceeds

\* One byte of a pass changes that byte and no other.
LEMMA OneByte ==
  ASSUME IInv, RotateByte
  PROVE  mem' = [mem EXCEPT ![base + i] = rot13_byte(mem[base + i])]
<1> DEFINE c == read(base + i)
<1>1. /\ Last \in Nat /\ base \in Nat /\ i \in Nat /\ base + i + 7 <= Last
      /\ mem \in [Addresses -> 0..255] /\ base + i \in Addresses
  BY MappingAssumption DEF MappingAssumption, IInv, TypeOK, RotateByte, Mapped, Memory, Addresses
<1>2. /\ \A k \in Word : c[k] = mem[base + i + k]
      /\ \A k \in Word : Rotated(c)[k] = IF k = 0 THEN rot13_byte(mem[base + i]) ELSE mem[base + i + k]
  BY <1>1 DEF read, Rotated, Word
<1>3. CASE Rotated(c) # c
  <2>1. write(base + i, Rotated(c))
    BY <1>3 DEF RotateByte
  <2>2. ASSUME NEW a \in Addresses, a >= base + i, a - (base + i) \in Word
        PROVE  Rotated(c)[a - (base + i)] =
                 IF a = base + i THEN rot13_byte(mem[base + i]) ELSE mem[a]
    BY <1>1, <1>2, <2>2 DEF Addresses, Word
  <2> DEFINE w == Rotated(c)
  <2>3. mem' = [a \in Addresses |->
                 IF a >= base + i /\ a - (base + i) \in Word THEN w[a - (base + i)] ELSE mem[a]]
    BY <2>1 DEF write
  <2>4. base + i - (base + i) \in Word
    BY <1>1 DEF Word
  <2> HIDE DEF w, c
  <2>5. mem' = [a \in Addresses |->
                 IF a = base + i THEN rot13_byte(mem[base + i]) ELSE mem[a]]
    BY <1>1, <2>2, <2>3, <2>4 DEF w
  <2> QED
    BY <1>1, <2>5
<1>4. CASE Rotated(c) = c
  <2>1. mem' = mem
    BY <1>4 DEF RotateByte
  <2>2. rot13_byte(mem[base + i]) = mem[base + i]
    BY <1>1, <1>2, <1>4 DEF Word
  <2> QED
    BY <1>1, <2>1, <2>2
<1> QED
  BY <1>3, <1>4

LEMMA IInvPreserved == IInv /\ [Next]_vars => IInv'
<1> SUFFICES ASSUME IInv, [Next]_vars PROVE IInv'
  OBVIOUS
<1> USE MappingAssumption DEF MappingAssumption, Memory, Addresses
<1>1. CASE RotateByte
  <2>1. /\ base + i \in Addresses /\ base + i \in Nat /\ i \in Nat /\ i < count
        /\ mem[base + i] \in 0..255 /\ orig[base + i] \in 0..255
        /\ i' = i + 1 /\ status \in {"first", "second"}
        /\ base + i + 7 <= Last
        /\ UNCHANGED <<orig, base, count, status, sent>>
    BY <1>1 DEF IInv, TypeOK, RotateByte, Passing, Mapped
  <2>2. mem' = [mem EXCEPT ![base + i] = rot13_byte(mem[base + i])]
    BY <1>1, OneByte
  <2>3. rot13_byte(mem[base + i]) \in 0..255
    BY <2>1, ByteInvolution
  <2>4. TypeOK'
    BY <2>1, <2>2, <2>3 DEF IInv, TypeOK
  <2>5. ASSUME NEW a \in Addresses PROVE mem'[a] = Content(a)'
    <3>1. CASE a # base + i
      BY <2>1, <2>2, <3>1 DEF IInv, TypeOK, Content, Done, InBuffer
    <3>2. CASE a = base + i
      <4>1. mem'[a] = rot13_byte(mem[a])
        BY <2>1, <2>2, <3>2 DEF IInv, TypeOK
      <4>2. CASE status = "first"
        <5>1. ~Done(a) /\ Done(a)'
          BY <2>1, <3>2 DEF IInv, TypeOK, Done
        <5>2. mem[a] = orig[a]
          BY <4>2, <5>1 DEF IInv, Content
        <5> QED
          BY <2>1, <4>1, <4>2, <5>1, <5>2 DEF Content
      <4>3. CASE status = "second"
        <5>1. mem[a] = rot13_byte(orig[a])
          BY <2>1, <3>2, <4>3 DEF IInv, TypeOK, Content, Done, InBuffer
        <5>2. mem'[a] = orig[a]
          BY <2>1, <3>2, <4>1, <5>1, ByteInvolution
        <5> QED
          BY <2>1, <3>2, <4>3, <5>2 DEF IInv, TypeOK, Content, Done, InBuffer
      <4> QED
        BY <2>1, <4>2, <4>3
    <3> QED
      BY <3>1, <3>2
  <2>6. SentRotated' /\ FailureLeavesPrefix' /\ SecondPassSucceeds'
    BY <2>1 DEF IInv, SentRotated, InBuffer, FailureLeavesPrefix, SecondPassSucceeds
  <2>7. status' = "first" => i' = 0 \/ base' + i' + 6 <= Last
    BY <2>1 DEF IInv, TypeOK
  <2>8. status' \notin {"first", "failed1"} => count' = 0 \/ base' + count' + 6 <= Last
    BY <2>1 DEF IInv
  <2>9. status' # "write"
    BY <2>1
  <2> QED
    BY <2>4, <2>5, <2>6, <2>7, <2>8, <2>9 DEF IInv
<1>2. CASE RotateFails
  <2>1. TypeOK'
    BY <1>2 DEF RotateFails, IInv, TypeOK, Passing, Mapped
  <2>2. ASSUME NEW a \in Addresses PROVE mem'[a] = Content(a)'
    BY <1>2 DEF RotateFails, IInv, TypeOK, Passing, Mapped, Content, Done, InBuffer
  <2>3. /\ status' = "write" => i' = 0
        /\ status' \notin {"first", "failed1"} => count' = 0 \/ base' + count' + 6 <= Last
        /\ status' = "first" => i' = 0 \/ base' + i' + 6 <= Last
    BY <1>2 DEF RotateFails, IInv, TypeOK, Passing, Mapped
  <2>4. SentRotated'
    BY <1>2 DEF RotateFails, IInv, TypeOK, Passing, Mapped, Content, InBuffer, SentRotated
  <2>5. FailureLeavesPrefix' /\ SecondPassSucceeds'
    BY <1>2 DEF RotateFails, IInv, TypeOK, Passing, Mapped, Content, Done, FailureLeavesPrefix, SecondPassSucceeds
  <2> QED
    BY <2>1, <2>2, <2>3, <2>4, <2>5 DEF IInv
<1>3. CASE EndOfPass
  <2>1. TypeOK'
    BY <1>3 DEF EndOfPass, IInv, TypeOK, Passing
  <2>2. ASSUME NEW a \in Addresses PROVE mem'[a] = Content(a)'
    BY <1>3 DEF EndOfPass, IInv, TypeOK, Passing, Content, Done, InBuffer
  <2>3. /\ status' = "write" => i' = 0
        /\ status' \notin {"first", "failed1"} => count' = 0 \/ base' + count' + 6 <= Last
        /\ status' = "first" => i' = 0 \/ base' + i' + 6 <= Last
    BY <1>3 DEF EndOfPass, IInv, TypeOK, Passing
  <2>4. SentRotated'
    BY <1>3 DEF EndOfPass, IInv, TypeOK, Passing, Content, InBuffer, SentRotated
  <2>5. FailureLeavesPrefix' /\ SecondPassSucceeds'
    BY <1>3 DEF EndOfPass, IInv, TypeOK, Passing, Content, Done, FailureLeavesPrefix, SecondPassSucceeds
  <2> QED
    BY <2>1, <2>2, <2>3, <2>4, <2>5 DEF IInv
<1>4. CASE Write
  <2>1. TypeOK'
    BY <1>4 DEF Write, IInv, TypeOK
  <2>2. ASSUME NEW a \in Addresses PROVE mem'[a] = Content(a)'
    BY <1>4 DEF Write, IInv, TypeOK, Content, Done, InBuffer
  <2>3. /\ status' = "write" => i' = 0
        /\ status' \notin {"first", "failed1"} => count' = 0 \/ base' + count' + 6 <= Last
        /\ status' = "first" => i' = 0 \/ base' + i' + 6 <= Last
    BY <1>4 DEF Write, IInv, TypeOK
  <2>4. SentRotated'
    BY <1>4 DEF Write, IInv, TypeOK, Content, InBuffer, SentRotated
  <2>5. FailureLeavesPrefix' /\ SecondPassSucceeds'
    BY <1>4 DEF Write, IInv, TypeOK, Content, Done, FailureLeavesPrefix, SecondPassSucceeds
  <2> QED
    BY <2>1, <2>2, <2>3, <2>4, <2>5 DEF IInv
<1>5. CASE UNCHANGED vars
  BY <1>5 DEF vars, IInv, TypeOK, Content, Done, InBuffer, SentRotated,
       FailureLeavesPrefix, SecondPassSucceeds
<1> QED
  BY <1>1, <1>2, <1>3, <1>4, <1>5 DEF Next

\* The invariant holds throughout both passes of rot13.
THEOREM Invariance == Spec => []IInv
  BY InitIInv, IInvPreserved, PTL DEF Spec

\* Every variable keeps its type (Rot13.tla, both passes).
THEOREM TypeCorrect == Spec => []TypeOK
<1>1. IInv => TypeOK
  BY DEF IInv
<1> QED
  BY <1>1, Invariance, PTL

\* The program finds its buffer as it left it, for any text and any buffer.
THEOREM BufferRestored == Spec => []Restored
<1>1. IInv => Restored
  BY DEF IInv, TypeOK, Memory, Content, Restored
<1> QED
  BY <1>1, Invariance, PTL

\* The kernel is given the rotation of the buffer, and nothing else has changed.
THEOREM WriteSendsRotation == Spec => []SentRotated
<1>1. IInv => SentRotated
  BY DEF IInv
<1> QED
  BY <1>1, Invariance, PTL

\* An error leaves the words before it rotated and the others as they were.
THEOREM ErrorLeavesPrefix == Spec => []FailureLeavesPrefix
<1>1. IInv => FailureLeavesPrefix
  BY DEF IInv
<1> QED
  BY <1>1, Invariance, PTL

\* No error comes between the write and the end of the second pass.
THEOREM NoErrorAfterWrite == Spec => []SecondPassSucceeds
<1>1. IInv => SecondPassSucceeds
  BY DEF IInv
<1> QED
  BY <1>1, Invariance, PTL

=============================================================================

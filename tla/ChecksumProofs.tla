---------------------------- MODULE ChecksumProofs ----------------------------
(***************************************************************************)
(* The theorems about the checksum: the end-around carry of Checksum, for  *)
(* buffers of every content and length; and that its assembler versions,   *)
(* ChecksumAsm, are safe, right and implement it, for words and addresses  *)
(* of any width, wherever a buffer lies, and any sequence of calls.        *)
(***************************************************************************)
EXTENDS Checksum, ChecksumAsm, SequenceTheorems, TLAPS

-----------------------------------------------------------------------------
(* The buffers and the arithmetic of the checksum. *)

(* A folded sum of two bytes is a byte. *)
LEMMA FoldByte == ASSUME NEW m \in 0..255, NEW b \in 0..255
                  PROVE  Fold(m + b) \in 0..255
BY DEF Fold

(* Folding is adding modulo 255, with 255 for a multiple other than 0. *)
LEMMA FoldSum ==
  ASSUME NEW s \in Nat, NEW b \in 0..255, NEW m \in 0..255, m = Residue(s)
  PROVE  Fold(m + b) = Residue(s + b)
<1>1. Fold(m + b) = IF m + b < 256 THEN m + b ELSE m + b - 255
  BY DEF Fold
<1>2. CASE s = 0
  <2>1. m + b = b /\ b < 256 /\ s + b = b
    BY <1>2 DEF Residue
  <2>2. b # 0 => ((b - 1) % 255) + 1 = b
    OBVIOUS
  <2> QED BY <1>1, <2>1, <2>2 DEF Residue
<1>3. CASE s # 0
  <2> DEFINE q == (s - 1) \div 255
             r == (s - 1) % 255
  <2>1. q \in Int /\ r \in 0..254 /\ s - 1 = 255 * q + r /\ m = r + 1
    BY <1>3 DEF Residue
  <2>2. s + b # 0 /\ s + b - 1 = 255 * q + (r + b)
    BY <1>3, <2>1
  <2> HIDE DEF q, r
  <2>3. (s + b - 1) % 255 = IF r + b < 255 THEN r + b ELSE r + b - 255
    BY <2>1, <2>2
  <2> QED BY <1>1, <2>1, <2>2, <2>3 DEF Residue
<1> QED BY <1>2, <1>3

(* A call may be given a buffer without bytes. *)
LEMMA EmptyBuffer == <<>> \in Buffers /\ Len(<<>>) = 0
<1>1. <<>> \in Seq(Bytes) /\ Len(<<>>) = 0
  BY EmptySeq
<1>2. <<>> \in [1..0 -> Bytes]
  BY <1>1, LenProperties
<1>3. 0 \in 0..MaxLen
  BY ChecksumAssumption
<1> QED BY <1>1, <1>2, <1>3 DEF Buffers

(* A buffer is a sequence of bytes. *)
LEMMA BufferIsSeq ==
  ASSUME NEW buffer \in Buffers
  PROVE  Len(buffer) \in Nat /\ \A i \in 1..Len(buffer) : buffer[i] \in 0..255
<1>1. PICK n \in 0..MaxLen : buffer \in [1..n -> Bytes]
  BY DEF Buffers
<1>2. buffer \in Seq(Bytes)
  BY <1>1, SeqDef, ChecksumAssumption
<1>3. Len(buffer) \in Nat /\ \A i \in 1..Len(buffer) : buffer[i] \in Bytes
  BY <1>2, LenProperties
<1>4. Bytes \subseteq 0..255
  BY ChecksumAssumption
<1> QED BY <1>3, <1>4

-----------------------------------------------------------------------------
(* Checksum *)

(* What EndAround needs to be inductive is that every byte is one. *)
SumIInv == SumTypeOK /\ EndAround

LEMMA SumInitIInv == SumInit => SumIInv
<1> SUFFICES ASSUME SumInit PROVE SumIInv
  OBVIOUS
<1>1. buf \in Buffers /\ Len(buf) = 0
  BY EmptyBuffer DEF SumInit
<1> QED BY <1>1 DEF SumInit, SumIInv, SumTypeOK, EndAround, Residue

LEMMA SumStepIInv == SumIInv /\ [SumNext]_sumVars => SumIInv'
<1> SUFFICES ASSUME SumIInv, [SumNext]_sumVars PROVE SumIInv'
  OBVIOUS
<1> USE DEF SumIInv, SumTypeOK
<1>1. ASSUME NEW buffer \in Buffers, SumCall(buffer) PROVE SumIInv'
  <2>1. Len(buffer) \in Nat
    BY BufferIsSeq
  <2> QED BY <1>1, <2>1 DEF SumCall, EndAround, Residue
<1>2. CASE SumByte
  <2>1. Len(buf) \in Nat /\ \A i \in 1..Len(buf) : buf[i] \in 0..255
    BY BufferIsSeq
  <2>2. buf[taken + 1] \in 0..255
    BY <1>2, <2>1 DEF SumByte
  <2>3. PICK b \in 0..255 : chk' = Fold(chk + b) /\ total' = total + b
    BY <1>2, <2>2 DEF SumByte
  <2>4. taken' \in 0..Len(buf) /\ buf' = buf /\ mode' = mode
    BY <1>2, <2>1 DEF SumByte
  <2>5. chk \in 0..255 /\ total \in Nat
    OBVIOUS
  <2>6. Fold(chk + b) = Residue(total + b)
    BY <2>5, FoldSum, Zenon DEF EndAround
  <2>7. chk' = Residue(total')
    BY <2>3, <2>6, Zenon
  <2>8. chk' \in 0..255
    BY <2>3, <2>5, FoldByte, Zenon
  <2>9. total' \in Nat
    BY <2>3, <2>5
  <2> QED BY <2>4, <2>7, <2>8, <2>9, Zenon DEF EndAround
<1>3. CASE SumReturn
  BY <1>3 DEF SumReturn, EndAround
<1>4. CASE UNCHANGED sumVars
  BY <1>4 DEF sumVars, EndAround
<1> QED BY <1>1, <1>2, <1>3, <1>4 DEF SumNext

(* The checksum's variables keep their types: every fold fits in a byte. *)
THEOREM SumTypeCorrect == SumSpec => []SumTypeOK
<1>1. SumIInv => SumTypeOK
  BY DEF SumIInv
<1> QED BY <1>1, SumInitIInv, SumStepIInv, PTL DEF SumSpec

(* The checksum of bytes added with the carry folded in depends on their sum
   alone, for buffers of any length: it is that sum modulo 255, 255 for 0
   unless the sum itself is 0. *)
THEOREM SumEndAround == SumSpec => []EndAround
<1>1. SumIInv => EndAround
  BY DEF SumIInv
<1> QED BY <1>1, SumInitIInv, SumStepIInv, PTL DEF SumSpec

-----------------------------------------------------------------------------
(* ChecksumAsm *)

Addresses == 0..(AddrMod - 1)

-----------------------------------------------------------------------------
(* Arithmetic of addresses. *)

(* The next address is one further from where the buffer begins. *)
LEMMA Advance ==
  ASSUME NEW a \in Addresses, NEW b \in Addresses, (a - b) % AddrMod < AddrMod - 1
  PROVE  /\ (a + 1) % AddrMod \in Addresses
         /\ (((a + 1) % AddrMod) - b) % AddrMod = ((a - b) % AddrMod) + 1
<1>0. AddrMod \in Nat \ {0}
  BY AsmAssumption DEF Addresses
<1>1. (a - b) % AddrMod = IF a >= b THEN a - b ELSE a - b + AddrMod
  BY <1>0 DEF Addresses
<1>2. (a + 1) % AddrMod = IF a + 1 = AddrMod THEN 0 ELSE a + 1
  BY <1>0 DEF Addresses
<1> DEFINE n == (a + 1) % AddrMod
<1>3. n \in Addresses
  BY <1>0, <1>2 DEF Addresses
<1>4. (n - b) % AddrMod = IF n >= b THEN n - b ELSE n - b + AddrMod
  <2> HIDE DEF n
  <2> QED BY <1>0, <1>3 DEF Addresses
<1> QED BY <1>0, <1>1, <1>2, <1>3, <1>4 DEF Addresses

(* An address is n after b when the distance from b is n. *)
LEMMA AtEnd ==
  ASSUME NEW a \in Addresses, NEW b \in Addresses, NEW n \in Addresses
  PROVE  /\ (b + n) % AddrMod \in Addresses
         /\ a = (b + n) % AddrMod <=> (a - b) % AddrMod = n
<1>0. AddrMod \in Nat \ {0}
  BY AsmAssumption DEF Addresses
<1>1. (a - b) % AddrMod = IF a >= b THEN a - b ELSE a - b + AddrMod
  BY <1>0 DEF Addresses
<1>2. (b + n) % AddrMod = IF b + n < AddrMod THEN b + n ELSE b + n - AddrMod
  BY <1>0 DEF Addresses
<1> QED BY <1>0, <1>1, <1>2 DEF Addresses

LEMMA Offset == ASSUME NEW a \in Addresses, NEW b \in Addresses
                PROVE  (a - b) % AddrMod \in Addresses /\ (b - b) % AddrMod = 0
<1>0. AddrMod \in Nat \ {0}
  BY AsmAssumption DEF Addresses
<1>1. (a - b) % AddrMod = IF a >= b THEN a - b ELSE a - b + AddrMod
  BY <1>0 DEF Addresses
<1> QED BY <1>0, <1>1 DEF Addresses

(* DBRA counts 0 down to the greatest word. *)
LEMMA CountDown ==
  ASSUME NEW n \in 0..(WordMod - 1)
  PROVE  (n - 1) % WordMod = IF n = 0 THEN WordMod - 1 ELSE n - 1
<1>1. WordMod \in Nat \ {0}
  BY AsmAssumption, ChecksumAssumption
<1>2. CASE n = 0
  BY <1>1, <1>2
<1>3. CASE n # 0
  BY <1>1, <1>3
<1> QED BY <1>2, <1>3

(* A buffer is shorter than the count of a word and than the memory. *)
LEMMA BufferFits ==
  ASSUME NEW buffer \in Buffers
  PROVE  Len(buffer) \in 0..(WordMod - 1) /\ Len(buffer) \in Addresses
<1>1. PICK n \in 0..MaxLen : buffer \in [1..n -> Bytes]
  BY DEF Buffers
<1>2. MaxLen \in Nat /\ MaxLen < WordMod /\ WordMod \in Nat /\ AddrMod \in Nat /\ WordMod <= AddrMod
  BY AsmAssumption, ChecksumAssumption
<1>3. Len(buffer) = n
  BY <1>1, <1>2
<1> QED BY <1>2, <1>3 DEF Addresses

-----------------------------------------------------------------------------
(* The inductive invariant.  What is to be shown of an idle state has to be
   known of the loops: where the end pointer is, how many rounds DBRA has left,
   that D2 is 0 while ADDX uses it and on the stack meanwhile, and what the
   bytes added so far have come to. *)

InAddx == {"addByteX", "addx", "cmp"}
InBranch == {"addByteB", "bcc", "dbra"}

(* How far the call has got. *)
PositionInv ==
  /\ Taken <= Len(data)
  /\ pc \in {"addByteX", "addByteB"} => Taken < Len(data)
  /\ pc \in {"idle", "pop", "rts"} => Taken = Len(data)
  /\ pc \in InAddx => a1 = (base + Len(data)) % AddrMod
  /\ pc = "addByteB" => d1 = Len(data) - Taken - 1
  /\ pc \in {"bcc", "dbra"} => d1 = Len(data) - Taken

D2Inv == /\ pc \in InAddx => d2 = 0
         /\ pc \in InAddx \cup {"pop"} => stack = CallerD2
         /\ pc \in InBranch \cup {"rts", "idle"} => d2 = CallerD2

SumInv == Chk \in 0..255 /\ Chk = Residue(sum)

AsmIInv == AsmTypeOK /\ PositionInv /\ D2Inv /\ SumInv

-----------------------------------------------------------------------------
LEMMA AsmInitIInv == AsmInit => AsmIInv
<1> SUFFICES ASSUME AsmInit PROVE AsmIInv
  OBVIOUS
<1>1. data \in Buffers /\ Len(data) = 0
  BY EmptyBuffer DEF AsmInit
<1>2. base \in Addresses /\ CallerD2 \in Addresses /\ WordMod \in Nat \ {0}
  <2>1. base \in Bases
    BY Zenon DEF AsmInit
  <2>2. WordMod \in Nat \ {0}
    BY AsmAssumption, ChecksumAssumption
  <2> QED BY <2>1, <2>2, AsmAssumption DEF Addresses
<1>3. Taken = 0
  BY <1>2, Offset DEF AsmInit, Taken
<1>4. AsmTypeOK
  BY <1>1, <1>2 DEF AsmInit, AsmTypeOK, Addresses
<1>5. PositionInv
  BY <1>1, <1>3 DEF AsmInit, PositionInv, InAddx
<1>6. D2Inv
  BY DEF AsmInit, D2Inv, InAddx, InBranch
<1>7. SumInv
  BY DEF AsmInit, SumInv, Chk, Residue
<1> QED BY <1>4, <1>5, <1>6, <1>7 DEF AsmIInv

(* Either function begins at the first byte with nothing added. *)
LEMMA Begins ==
  ASSUME AsmIInv, NEW buffer \in Buffers, NEW at \in Bases,
         pc = "idle", Arguments(buffer, at)
  PROVE  /\ data' \in Buffers /\ Len(data') = Len(buffer)
         /\ base' \in Addresses /\ a0' \in Addresses /\ Taken' = 0
         /\ d0' = 0 /\ sum' = 0 /\ 0 = Residue(0)
         /\ d2 = CallerD2
<1>1. at \in Addresses
  BY AsmAssumption DEF Addresses
<1>2. data' = buffer /\ base' = at /\ a0' = at /\ d0' = 0 /\ sum' = 0
  BY DEF Arguments
<1>3. Taken' = (at - at) % AddrMod
  BY <1>2 DEF Taken
<1>4. Taken' = 0
  BY <1>1, <1>3, Offset
<1> QED BY <1>1, <1>2, <1>4 DEF AsmIInv, D2Inv, Residue

LEMMA AddxCallIInv ==
  ASSUME AsmIInv, NEW buffer \in Buffers, NEW at \in Bases, AddxCall(buffer, at)
  PROVE  AsmIInv'
<1>1. pc = "idle" /\ Arguments(buffer, at)
  BY DEF AddxCall
<1>2. /\ data' \in Buffers /\ Len(data') = Len(buffer)
      /\ base' \in Addresses /\ a0' \in Addresses /\ Taken' = 0
      /\ d0' = 0 /\ sum' = 0 /\ 0 = Residue(0) /\ d2 = CallerD2
  BY <1>1, Begins
<1>3. Len(buffer) \in 0..(WordMod - 1) /\ Len(buffer) \in Addresses
  BY BufferFits
<1>4. /\ carry' = carry /\ carry \in {0, 1} /\ stack' = CallerD2 /\ d1' = Len(buffer)
      /\ CallerD2 \in Addresses /\ WordMod \in Nat \ {0} /\ a1 \in Addresses
      /\ 0 \in Addresses
  <2>1. carry' = carry /\ stack' = d2 /\ d1' = Len(buffer)
    BY DEF AddxCall
  <2>2. WordMod \in Nat \ {0} /\ AddrMod \in Nat \ {0} /\ CallerD2 \in Addresses
    BY AsmAssumption, ChecksumAssumption DEF Addresses
  <2> QED BY <1>2, <2>1, <2>2 DEF AsmIInv, AsmTypeOK, Addresses
<1>5. \/ Len(buffer) = 0 /\ pc' = "pop" /\ a1' = a1 /\ d2' = d2
      \/ Len(buffer) # 0 /\ pc' = "addByteX" /\ d2' = 0
           /\ a1' = (at + MoveW(Len(buffer), 0)) % AddrMod
  BY DEF AddxCall
<1>6. base' = at /\ MoveW(Len(buffer), 0) = Len(buffer)
  BY <1>1, <1>3, <1>4 DEF Arguments, MoveW
<1>7. (base' + Len(buffer)) % AddrMod \in Addresses
  BY <1>2, <1>3, AtEnd
<1>8. AsmTypeOK'
  BY <1>2, <1>3, <1>4, <1>5, <1>6, <1>7 DEF AsmTypeOK, Addresses
<1>9. PositionInv'
  BY <1>2, <1>3, <1>5, <1>6 DEF PositionInv, InAddx
<1>10. D2Inv'
  BY <1>2, <1>4, <1>5 DEF D2Inv, InAddx, InBranch
<1>11. SumInv'
  <2>1. Chk' = 0 /\ 0 \in 0..255
    BY <1>2, <1>5 DEF Chk
  <2> QED BY <1>2, <2>1, Zenon DEF SumInv
<1> QED BY <1>8, <1>9, <1>10, <1>11 DEF AsmIInv

LEMMA BranchCallIInv ==
  ASSUME AsmIInv, NEW buffer \in Buffers, NEW at \in Bases, BranchCall(buffer, at)
  PROVE  AsmIInv'
<1>1. pc = "idle" /\ Arguments(buffer, at)
  BY DEF BranchCall
<1>2. /\ data' \in Buffers /\ Len(data') = Len(buffer)
      /\ base' \in Addresses /\ a0' \in Addresses /\ Taken' = 0
      /\ d0' = 0 /\ sum' = 0 /\ 0 = Residue(0) /\ d2 = CallerD2
  BY <1>1, Begins
<1>3. Len(buffer) \in 0..(WordMod - 1)
  BY BufferFits
<1>4. /\ a1' = a1 /\ d2' = d2 /\ stack' = stack /\ WordMod \in Nat \ {0}
      /\ a1 \in Addresses /\ d2 \in Addresses /\ stack \in Addresses /\ carry \in {0, 1}
  <2>1. a1' = a1 /\ d2' = d2 /\ stack' = stack
    BY DEF BranchCall
  <2>2. WordMod \in Nat \ {0}
    BY AsmAssumption, ChecksumAssumption
  <2> QED BY <2>1, <2>2 DEF AsmIInv, AsmTypeOK, Addresses
<1>5. \/ Len(buffer) = 0 /\ d1' = 0 /\ pc' = "rts" /\ carry' = carry
      \/ Len(buffer) # 0 /\ d1' = Len(buffer) - 1 /\ carry' = 0 /\ pc' = "addByteB"
  BY DEF BranchCall
<1>6. AsmTypeOK'
  BY <1>2, <1>3, <1>4, <1>5 DEF AsmTypeOK, Addresses
<1>7. PositionInv'
  BY <1>2, <1>3, <1>5 DEF PositionInv, InAddx
<1>8. D2Inv'
  BY <1>2, <1>4, <1>5 DEF D2Inv, InAddx, InBranch
<1>9. SumInv'
  <2>1. Chk' = 0 /\ 0 \in 0..255
    BY <1>2, <1>5 DEF Chk
  <2> QED BY <1>2, <2>1, Zenon DEF SumInv
<1> QED BY <1>6, <1>7, <1>8, <1>9 DEF AsmIInv

(* What an ADD.B does, in either loop. *)
LEMMA Added ==
  ASSUME AsmIInv, pc \in {"addByteX", "addByteB"}, NEW next \in {"addx", "bcc"},
         AddByte(next)
  PROVE  /\ Taken' = Taken + 1 /\ a0' \in Addresses
         /\ data[Taken + 1] \in 0..255
         /\ d0' \in 0..255 /\ carry' \in {0, 1}
         /\ sum' = sum + data[Taken + 1] /\ sum' \in Nat
         /\ (d0' + carry') % 256 = Fold(d0 + data[Taken + 1])
<1>1. Taken < Len(data) /\ data \in Buffers /\ a0 \in Addresses /\ base \in Addresses
      /\ d0 \in 0..255 /\ sum \in Nat
  BY DEF AsmIInv, PositionInv, AsmTypeOK, Addresses
<1>2. Len(data) \in Addresses /\ Len(data) \in Nat /\ \A i \in 1..Len(data) : data[i] \in 0..255
  BY <1>1, BufferFits, BufferIsSeq
<1>3. Taken \in Addresses /\ Taken = (a0 - base) % AddrMod
  BY <1>1, Offset DEF Taken
<1>4. Taken < AddrMod - 1 /\ Taken + 1 \in 1..Len(data)
  BY <1>1, <1>2, <1>3, AsmAssumption DEF Addresses
<1>5. a0' = (a0 + 1) % AddrMod /\ base' = base
  BY DEF AddByte, memory
<1>6. /\ (a0 + 1) % AddrMod \in Addresses
      /\ (((a0 + 1) % AddrMod) - base) % AddrMod = ((a0 - base) % AddrMod) + 1
  BY <1>1, <1>3, <1>4, Advance
<1>7. Taken' = Taken + 1 /\ a0' \in Addresses
  BY <1>3, <1>5, <1>6 DEF Taken
<1>8. PICK b \in 0..255 : b = data[Taken + 1]
  BY <1>2, <1>4
<1>9. d0' = (d0 + b) % 256 /\ carry' = (d0 + b) \div 256 /\ sum' = sum + b
  BY <1>8 DEF AddByte
<1>10. d0' \in 0..255 /\ carry' \in {0, 1} /\ sum' \in Nat
  BY <1>1, <1>9
<1>11. (d0' + carry') % 256 = Fold(d0 + b)
  BY <1>1, <1>9 DEF Fold
<1> QED BY <1>7, <1>8, <1>9, <1>10, <1>11

LEMMA AddByteIInv ==
  ASSUME AsmIInv, NEW next \in {"addx", "bcc"}, AddByte(next),
         pc = IF next = "addx" THEN "addByteX" ELSE "addByteB"
  PROVE  AsmIInv'
<1>1. /\ Taken' = Taken + 1 /\ a0' \in Addresses
      /\ data[Taken + 1] \in 0..255
      /\ d0' \in 0..255 /\ carry' \in {0, 1}
      /\ sum' = sum + data[Taken + 1] /\ sum' \in Nat
      /\ (d0' + carry') % 256 = Fold(d0 + data[Taken + 1])
  BY Added
<1>2. /\ pc' = next /\ data' = data /\ base' = base /\ a1' = a1 /\ d1' = d1 /\ d2' = d2
      /\ stack' = stack
  BY DEF AddByte, memory
<1>3. AsmTypeOK'
  BY <1>1, <1>2 DEF AsmIInv, AsmTypeOK, Addresses
<1>4. PositionInv'
  <2>1. Taken < Len(data) /\ Len(data) \in Nat /\ Taken \in Addresses
    BY BufferIsSeq, Offset DEF AsmIInv, AsmTypeOK, PositionInv, Taken, Addresses
  <2>2. CASE next = "addx"
    BY <1>1, <1>2, <2>1, <2>2 DEF AsmIInv, PositionInv, InAddx, Addresses
  <2>3. CASE next = "bcc"
    BY <1>1, <1>2, <2>1, <2>3 DEF AsmIInv, PositionInv, InAddx, Addresses
  <2> QED BY <2>2, <2>3
<1>5. D2Inv'
  BY <1>2 DEF AsmIInv, D2Inv, InAddx, InBranch
<1>6. SumInv'
  <2>1. PICK b \in 0..255 : b = data[Taken + 1]
    BY <1>1
  <2>2. Chk = d0 /\ d0 \in 0..255 /\ sum \in Nat
    BY DEF Chk, AsmIInv, AsmTypeOK
  <2>3. d0 = Residue(sum)
    BY <2>2 DEF AsmIInv, SumInv
  <2>4. Fold(d0 + b) = Residue(sum + b)
    BY <2>2, <2>3, FoldSum, Zenon
  <2>5. Fold(d0 + b) \in 0..255
    BY <2>2, FoldByte, Zenon
  <2>6. Chk' = (d0' + carry') % 256
    BY <1>2 DEF Chk
  <2>7. Chk' = Fold(d0 + b) /\ sum' = sum + b
    BY <1>1, <2>1, <2>6, Zenon
  <2> QED BY <2>4, <2>5, <2>7, Zenon DEF SumInv
<1> QED BY <1>3, <1>4, <1>5, <1>6 DEF AsmIInv

LEMMA AddExtendIInv == ASSUME AsmIInv, AddExtend PROVE AsmIInv'
<1>1. /\ pc = "addx" /\ pc' = "cmp" /\ data' = data /\ base' = base /\ a0' = a0 /\ a1' = a1
      /\ d1' = d1 /\ d2' = d2 /\ stack' = stack /\ sum' = sum
  BY DEF AddExtend, memory
<1>2. d2 = 0 /\ d0 \in 0..255 /\ carry \in {0, 1}
  BY <1>1 DEF AsmIInv, AsmTypeOK, D2Inv, InAddx
<1>3. d0' = (d0 + carry) % 256 /\ carry' = (d0 + carry) \div 256
  <2>1. d2 % 256 = 0 /\ d0 + 0 + carry = d0 + carry
    BY <1>2
  <2> QED BY <2>1 DEF AddExtend
<1>4. Chk' = Chk /\ Taken' = Taken
  BY <1>1, <1>3 DEF Chk, Taken
<1>5. AsmTypeOK'
  BY <1>1, <1>2, <1>3 DEF AsmIInv, AsmTypeOK
<1>6. PositionInv'
  BY <1>1, <1>4 DEF AsmIInv, PositionInv, InAddx
<1>7. D2Inv'
  BY <1>1 DEF AsmIInv, D2Inv, InAddx, InBranch
<1>8. SumInv'
  BY <1>1, <1>4, Zenon DEF AsmIInv, SumInv
<1> QED BY <1>5, <1>6, <1>7, <1>8 DEF AsmIInv

LEMMA CompareIInv == ASSUME AsmIInv, Compare PROVE AsmIInv'
<1>1. /\ pc = "cmp" /\ data' = data /\ base' = base /\ a0' = a0 /\ a1' = a1 /\ d0' = d0
      /\ d1' = d1 /\ d2' = d2 /\ carry' = carry /\ stack' = stack /\ sum' = sum
      /\ pc' = IF a0 # a1 THEN "addByteX" ELSE "pop"
  BY DEF Compare, memory
<1>2. Taken' = Taken /\ Chk' = Chk
  BY <1>1 DEF Taken, Chk
<1>3. a1 = (base + Len(data)) % AddrMod /\ Taken <= Len(data)
  BY <1>1 DEF AsmIInv, PositionInv, InAddx
<1>4. a0 \in Addresses /\ base \in Addresses /\ Len(data) \in Addresses
  BY BufferFits DEF AsmIInv, AsmTypeOK, Addresses
<1>5. a0 = a1 <=> Taken = Len(data)
  BY <1>3, <1>4, AtEnd DEF Taken
<1>6. Taken \in Addresses
  BY <1>4, Offset DEF Taken
<1>7. AsmTypeOK'
  BY <1>1 DEF AsmIInv, AsmTypeOK
<1>8. PositionInv'
  BY <1>1, <1>2, <1>3, <1>4, <1>5, <1>6, AsmAssumption DEF PositionInv, InAddx, Addresses
<1>9. D2Inv'
  BY <1>1 DEF AsmIInv, D2Inv, InAddx, InBranch
<1>10. SumInv'
  BY <1>1, <1>2, Zenon DEF AsmIInv, SumInv
<1> QED BY <1>7, <1>8, <1>9, <1>10 DEF AsmIInv

LEMMA AddCarryIInv == ASSUME AsmIInv, AddCarry PROVE AsmIInv'
<1>1. /\ pc = "bcc" /\ pc' = "dbra" /\ data' = data /\ base' = base /\ a0' = a0 /\ a1' = a1
      /\ d1' = d1 /\ d2' = d2 /\ stack' = stack /\ sum' = sum
  BY DEF AddCarry, memory
<1>2. d0 \in 0..255
  BY DEF AsmIInv, AsmTypeOK
<1>3. \/ carry = 0 /\ d0' = d0 /\ carry' = carry
      \/ carry = 1 /\ d0' = (d0 + 1) % 256 /\ carry' = (d0 + 1) \div 256
  BY DEF AddCarry
<1>4. d0' = (d0 + carry) % 256 /\ carry' \in {0, 1}
  BY <1>2, <1>3
<1>5. Chk' = Chk /\ Taken' = Taken
  BY <1>1, <1>4 DEF Chk, Taken
<1>6. AsmTypeOK'
  BY <1>1, <1>2, <1>4 DEF AsmIInv, AsmTypeOK
<1>7. PositionInv'
  BY <1>1, <1>5 DEF AsmIInv, PositionInv, InAddx
<1>8. D2Inv'
  BY <1>1 DEF AsmIInv, D2Inv, InAddx, InBranch
<1>9. SumInv'
  BY <1>1, <1>5, Zenon DEF AsmIInv, SumInv
<1> QED BY <1>6, <1>7, <1>8, <1>9 DEF AsmIInv

LEMMA DbraIInv == ASSUME AsmIInv, Dbra PROVE AsmIInv'
<1>1. /\ pc = "dbra" /\ data' = data /\ base' = base /\ a0' = a0 /\ a1' = a1 /\ d0' = d0
      /\ d2' = d2 /\ carry' = carry /\ stack' = stack /\ sum' = sum
      /\ d1' = (d1 - 1) % WordMod /\ pc' = IF d1' # WordMod - 1 THEN "addByteB" ELSE "rts"
  BY DEF Dbra, memory
<1>2. Taken' = Taken /\ Chk' = Chk
  BY <1>1 DEF Taken, Chk
<1>3. d1 = Len(data) - Taken /\ Taken <= Len(data) /\ d1 \in 0..(WordMod - 1)
  BY <1>1 DEF AsmIInv, PositionInv, AsmTypeOK
<1>4. Taken \in Addresses /\ Len(data) \in 0..(WordMod - 1) /\ WordMod \in Nat \ {0}
  <2>1. data \in Buffers /\ a0 \in Addresses /\ base \in Addresses
    BY DEF AsmIInv, AsmTypeOK, Addresses
  <2>2. Taken \in Addresses /\ Len(data) \in 0..(WordMod - 1)
    BY <2>1, Offset, BufferFits DEF Taken
  <2> QED BY <2>2, AsmAssumption, ChecksumAssumption
<1>5. d1' = IF d1 = 0 THEN WordMod - 1 ELSE d1 - 1
  BY <1>1, <1>3, CountDown
<1>6. AsmTypeOK'
  <2>1. d1' \in 0..(WordMod - 1)
    BY <1>3, <1>4, <1>5
  <2>2. pc' \in {"addByteB", "rts"}
    BY <1>1
  <2> QED BY <1>1, <2>1, <2>2 DEF AsmIInv, AsmTypeOK
<1>7. PositionInv'
  BY <1>1, <1>2, <1>3, <1>4, <1>5 DEF PositionInv, InAddx, Addresses
<1>8. D2Inv'
  BY <1>1 DEF AsmIInv, D2Inv, InAddx, InBranch
<1>9. SumInv'
  BY <1>1, <1>2, Zenon DEF AsmIInv, SumInv
<1> QED BY <1>6, <1>7, <1>8, <1>9 DEF AsmIInv

(* The two returns. *)
LEMMA ReturnIInv == ASSUME AsmIInv, AddxReturn \/ BranchReturn PROVE AsmIInv'
<1>1. /\ pc' = "idle" /\ data' = data /\ base' = base /\ a0' = a0 /\ a1' = a1 /\ d0' = d0
      /\ d1' = d1 /\ carry' = carry /\ stack' = stack /\ sum' = sum
      /\ \/ pc = "pop" /\ d2' = stack
         \/ pc = "rts" /\ d2' = d2
  BY DEF AddxReturn, BranchReturn, memory
<1>2. Taken' = Taken /\ Chk' = Chk
  BY <1>1 DEF Taken, Chk
<1>3. AsmTypeOK'
  BY <1>1 DEF AsmIInv, AsmTypeOK
<1>4. PositionInv'
  BY <1>1, <1>2 DEF AsmIInv, PositionInv, InAddx
<1>5. D2Inv'
  BY <1>1 DEF AsmIInv, D2Inv, InAddx, InBranch
<1>6. SumInv'
  BY <1>1, <1>2, Zenon DEF AsmIInv, SumInv
<1> QED BY <1>3, <1>4, <1>5, <1>6 DEF AsmIInv

LEMMA StutterIInv == ASSUME AsmIInv, UNCHANGED asmVars PROVE AsmIInv'
<1>1. /\ pc' = pc /\ data' = data /\ base' = base /\ a0' = a0 /\ a1' = a1 /\ d0' = d0
      /\ d1' = d1 /\ d2' = d2 /\ carry' = carry /\ stack' = stack /\ sum' = sum
  BY DEF asmVars, memory
<1>2. Taken' = Taken /\ Chk' = Chk
  BY <1>1 DEF Taken, Chk
<1>3. AsmTypeOK' /\ D2Inv'
  BY <1>1, Zenon DEF AsmIInv, AsmTypeOK, D2Inv
<1>4. PositionInv' /\ SumInv'
  BY <1>1, <1>2, Zenon DEF AsmIInv, PositionInv, SumInv
<1> QED BY <1>3, <1>4 DEF AsmIInv

LEMMA AsmStepIInv == AsmIInv /\ [AsmNext]_asmVars => AsmIInv'
<1> SUFFICES ASSUME AsmIInv, [AsmNext]_asmVars PROVE AsmIInv'
  OBVIOUS
<1>1. CASE \E buffer \in Buffers, at \in Bases : AddxCall(buffer, at)
  BY <1>1, AddxCallIInv
<1>2. CASE \E buffer \in Buffers, at \in Bases : BranchCall(buffer, at)
  BY <1>2, BranchCallIInv
<1>3. CASE AddByteX
  <2>1. pc = "addByteX" /\ AddByte("addx")
    BY <1>3 DEF AddByteX
  <2> QED BY <2>1, AddByteIInv
<1>4. CASE AddByteB
  <2>1. pc = "addByteB" /\ AddByte("bcc")
    BY <1>4 DEF AddByteB
  <2> QED BY <2>1, AddByteIInv
<1>5. CASE AddExtend
  BY <1>5, AddExtendIInv
<1>6. CASE Compare
  BY <1>6, CompareIInv
<1>7. CASE AddCarry
  BY <1>7, AddCarryIInv
<1>8. CASE Dbra
  BY <1>8, DbraIInv
<1>9. CASE AddxReturn \/ BranchReturn
  BY <1>9, ReturnIInv
<1>10. CASE UNCHANGED asmVars
  BY <1>10, StutterIInv
<1> QED BY <1>1, <1>2, <1>3, <1>4, <1>5, <1>6, <1>7, <1>8, <1>9, <1>10 DEF AsmNext

THEOREM AsmInvariance == AsmSpec => []AsmIInv
BY AsmInitIInv, AsmStepIInv, PTL DEF AsmSpec

(* The registers hold what their widths allow. *)
THEOREM AsmTypeCorrect == AsmSpec => []AsmTypeOK
<1>1. AsmIInv => AsmTypeOK
  BY DEF AsmIInv
<1> QED BY <1>1, AsmInvariance, PTL

(* Neither loop reads a byte outside the buffer, whatever its length and
   wherever it lies. *)
THEOREM AsmReadsBuffer == AsmSpec => []ReadsBuffer
<1>1. AsmIInv => ReadsBuffer
  BY DEF AsmIInv, PositionInv, ReadsBuffer
<1> QED BY <1>1, AsmInvariance, PTL

(* The caller's D2 survives every call. *)
THEOREM AsmPreservesD2 == AsmSpec => []D2Preserved
<1>1. AsmIInv => D2Preserved
  BY DEF AsmIInv, D2Inv, D2Preserved
<1> QED BY <1>1, AsmInvariance, PTL

(* Every result is the sum of all the bytes with end-around carry. *)
THEOREM AsmEndAroundCarry == AsmSpec => []EndAroundCarry
<1>1. AsmIInv => EndAroundCarry
  <2> SUFFICES ASSUME AsmIInv, pc = "idle" PROVE d0 = Residue(sum) /\ Taken = Len(data)
    BY DEF EndAroundCarry
  <2>1. Chk = d0
    BY DEF Chk
  <2>2. Taken = Len(data)
    BY DEF AsmIInv, PositionInv
  <2> QED BY <2>1, <2>2, Zenon DEF AsmIInv, SumInv
<1> QED BY <1>1, AsmInvariance, PTL

-----------------------------------------------------------------------------
(* The implementation of Checksum: adding a byte is its step, the calls and the
   returns are its calls and returns, and the rest of a loop changes nothing it
   sees. *)

Mode == IF pc = "idle" THEN "idle" ELSE "busy"

LEMMA InitImplements == AsmInit => Sums!SumInit
<1> SUFFICES ASSUME AsmInit PROVE Sums!SumInit
  OBVIOUS
<1>1. base \in Bases
  BY Zenon DEF AsmInit
<1>2. base \in Addresses
  BY <1>1, AsmAssumption DEF Addresses
<1>3. Taken = 0
  BY <1>2, Offset DEF AsmInit, Taken
<1> QED BY <1>3 DEF AsmInit, Sums!SumInit, Chk

LEMMA CallImplements ==
  ASSUME AsmIInv, NEW buffer \in Buffers, NEW at \in Bases,
         AddxCall(buffer, at) \/ BranchCall(buffer, at)
  PROVE  Sums!SumCall(buffer)
<1>1. pc = "idle" /\ Arguments(buffer, at) /\ pc' \in {"pop", "addByteX", "rts", "addByteB"}
  BY DEF AddxCall, BranchCall
<1>2. Taken' = 0 /\ d0' = 0 /\ sum' = 0
  BY <1>1, Begins
<1>3. data' = buffer
  BY <1>1 DEF Arguments
<1> QED BY <1>1, <1>2, <1>3 DEF Sums!SumCall, Chk

LEMMA AddImplements ==
  ASSUME AsmIInv, NEW next \in {"addx", "bcc"}, AddByte(next),
         pc \in {"addByteX", "addByteB"}
  PROVE  Sums!SumByte
<1>1. /\ Taken' = Taken + 1 /\ sum' = sum + data[Taken + 1]
      /\ (d0' + carry') % 256 = Fold(d0 + data[Taken + 1])
  BY Added
<1>2. pc' = next /\ data' = data /\ Taken < Len(data)
  BY DEF AddByte, memory, AsmIInv, PositionInv
<1>3. Chk = d0 /\ Chk' = (d0' + carry') % 256
  BY <1>2 DEF Chk
<1>4. Chk' = Fold(Chk + data[Taken + 1])
  BY <1>1, <1>3, Zenon
<1>5. Chk' = Sums!Fold(Chk + data[Taken + 1])
  BY <1>4, Zenon DEF Fold, Sums!Fold
<1>6. Mode = "busy" /\ Mode' = "busy"
  BY <1>2 DEF Mode
<1> QED BY <1>1, <1>2, <1>5, <1>6, Zenon DEF Sums!SumByte, Mode

LEMMA ReturnImplements ==
  ASSUME AsmIInv, AddxReturn \/ BranchReturn
  PROVE  Sums!SumReturn
<1>1. /\ pc \in {"pop", "rts"} /\ pc' = "idle" /\ data' = data /\ base' = base
      /\ a0' = a0 /\ d0' = d0 /\ sum' = sum
  BY DEF AddxReturn, BranchReturn, memory
<1>2. Taken = Len(data) /\ Taken' = Taken /\ Chk' = Chk
  BY <1>1 DEF AsmIInv, PositionInv, Taken, Chk
<1>3. Mode = "busy" /\ Mode' = "idle"
  BY <1>1 DEF Mode
<1> QED BY <1>1, <1>2, <1>3, Zenon DEF Sums!SumReturn, Mode

LEMMA RestImplements ==
  ASSUME AsmIInv, AddExtend \/ Compare \/ AddCarry \/ Dbra \/ UNCHANGED asmVars
  PROVE  UNCHANGED Sums!sumVars
<1>1. /\ data' = data /\ base' = base /\ a0' = a0 /\ sum' = sum
      /\ (pc = "idle" <=> pc' = "idle")
  <2>1. CASE AddExtend
    BY <2>1 DEF AddExtend, memory
  <2>2. CASE Compare
    BY <2>2 DEF Compare, memory
  <2>3. CASE AddCarry
    BY <2>3 DEF AddCarry, memory
  <2>4. CASE Dbra
    BY <2>4 DEF Dbra, memory
  <2>5. CASE UNCHANGED asmVars
    BY <2>5 DEF asmVars, memory
  <2> QED BY <2>1, <2>2, <2>3, <2>4, <2>5
<1>2. Chk' = Chk
  <2>1. d0 \in 0..255 /\ carry \in {0, 1}
    BY DEF AsmIInv, AsmTypeOK
  <2>2. CASE AddExtend
    <3>1. pc = "addx" /\ pc' = "cmp" /\ d2 = 0
      BY <2>2 DEF AddExtend, AsmIInv, D2Inv, InAddx
    <3>2. d2 % 256 = 0 /\ d0 + 0 + carry = d0 + carry
      BY <2>1, <3>1
    <3>3. d0' = (d0 + carry) % 256
      BY <2>2, <3>2 DEF AddExtend
    <3> QED BY <3>1, <3>3 DEF Chk
  <2>3. CASE AddCarry
    <3>1. d0' = (d0 + carry) % 256
      BY <2>1, <2>3 DEF AddCarry
    <3> QED BY <2>3, <3>1 DEF AddCarry, Chk
  <2>4. CASE Compare
    BY <2>4 DEF Compare, Chk
  <2>5. CASE Dbra
    BY <2>5 DEF Dbra, Chk
  <2>6. CASE UNCHANGED asmVars
    BY <2>6 DEF asmVars, Chk
  <2> QED BY <2>2, <2>3, <2>4, <2>5, <2>6
<1>3. Taken' = Taken /\ Mode' = Mode
  BY <1>1 DEF Taken, Mode
<1> QED BY <1>1, <1>2, <1>3, Zenon DEF Sums!sumVars, Mode

LEMMA StepImplements ==
  AsmIInv /\ [AsmNext]_asmVars => [Sums!SumNext]_(Sums!sumVars)
<1> SUFFICES ASSUME AsmIInv, [AsmNext]_asmVars
             PROVE  Sums!SumNext \/ UNCHANGED Sums!sumVars
  OBVIOUS
<1>1. CASE \E buffer \in Buffers, at \in Bases :
             AddxCall(buffer, at) \/ BranchCall(buffer, at)
  <2>1. PICK buffer \in Buffers : Sums!SumCall(buffer)
    BY <1>1, CallImplements
  <2> QED BY <2>1, Zenon DEF Sums!SumNext, Sums!Buffers, Buffers
<1>2. CASE AddByteX
  <2>1. pc = "addByteX" /\ AddByte("addx")
    BY <1>2 DEF AddByteX
  <2>2. Sums!SumByte
    BY <2>1, AddImplements
  <2> QED BY <2>2 DEF Sums!SumNext
<1>3. CASE AddByteB
  <2>1. pc = "addByteB" /\ AddByte("bcc")
    BY <1>3 DEF AddByteB
  <2>2. Sums!SumByte
    BY <2>1, AddImplements
  <2> QED BY <2>2 DEF Sums!SumNext
<1>4. CASE AddxReturn \/ BranchReturn
  <2>1. Sums!SumReturn
    BY <1>4, ReturnImplements
  <2> QED BY <2>1 DEF Sums!SumNext
<1>5. CASE AddExtend \/ Compare \/ AddCarry \/ Dbra \/ UNCHANGED asmVars
  BY <1>5, RestImplements
<1> QED BY <1>1, <1>2, <1>3, <1>4, <1>5 DEF AsmNext

(* Both assembler versions compute what the C function does, byte by byte. *)
THEOREM AsmImplements == AsmSpec => ImplementsChecksum
BY AsmInvariance, InitImplements, StepImplements, PTL
   DEF AsmSpec, ImplementsChecksum, Sums!SumSpec
=============================================================================

----------------------------- MODULE ChecksumAsm -----------------------------
(***************************************************************************)
(* The two checksums of apps/test/checksumbench_asm.s, called one after    *)
(* the other in any order, as apps/test/checksumbench.c does:              *)
(*   addx     ADD.B and ADDX.B in a loop up to an end pointer              *)
(*   branch   ADD.B, a branch around ADDQ.B, and a count down with DBRA    *)
(*                                                                         *)
(* D0 is modelled by its low byte and D1 by its low word, the parts the    *)
(* code uses, and the other registers as a whole.  C and X, which the      *)
(* instructions that read one of them always find equal, are one flag.     *)
(***************************************************************************)
EXTENDS ChecksumBytes

CONSTANTS WordMod,      \* 2^16: what an operation on a word keeps
          AddrMod,      \* 2^32: addresses wrap
          Bases,        \* the addresses buffers are at
          CallerD2      \* what the caller has in D2, a callee-saved register

ASSUME AsmAssumption ==
  /\ WordMod \in Nat /\ MaxLen < WordMod
  /\ AddrMod \in Nat /\ WordMod <= AddrMod
  /\ Bases \subseteq 0..(AddrMod - 1)
  /\ CallerD2 \in 0..(AddrMod - 1)

VARIABLES pc,           \* where the code is
          data, base,   \* the buffer in memory
          a0, a1, d0, d1, d2, carry,
          stack,        \* the D2 that was pushed
          sum           \* ghost: the plain sum of the bytes added

memory == <<data, base>>
asmVars == <<pc, memory, a0, a1, d0, d1, d2, carry, stack, sum>>

(* How far A0 is in the buffer. *)
Taken == (a0 - base) % AddrMod

AsmInit == /\ pc = "idle" /\ data = <<>> /\ base \in Bases
           /\ a0 = base /\ a1 = base /\ d0 = 0 /\ d1 = 0 /\ d2 = CallerD2
           /\ carry = 0 /\ stack = CallerD2 /\ sum = 0

(* MOVE.W to a register of 32 bits keeps its high word. *)
MoveW(n, d) == (d - (d % WordMod)) + n

(* The arguments, and the result so far. *)
Arguments(buffer, at) == /\ data' = buffer /\ base' = at /\ a0' = at
                         /\ d0' = 0 /\ sum' = 0

-----------------------------------------------------------------------------
(* fn_calc_checksum_asm *)

(* Slips: D2 is not cleared before it takes the length, or not saved before. *)
DirtyAddxCall(buffer, at) ==
  /\ pc = "idle" /\ Arguments(buffer, at) /\ d1' = Len(buffer) /\ stack' = d2
  /\ \/ Len(buffer) = 0 /\ pc' = "pop" /\ UNCHANGED <<a1, d2>>
     \/ Len(buffer) # 0 /\ pc' = "addByteX" /\ d2' = 0
          /\ a1' = (at + MoveW(Len(buffer), d2)) % AddrMod
  /\ UNCHANGED carry
LateAddxCall(buffer, at) ==
  /\ pc = "idle" /\ Arguments(buffer, at) /\ d1' = Len(buffer)
  /\ stack' = IF Len(buffer) = 0 THEN d2 ELSE 0
  /\ \/ Len(buffer) = 0 /\ pc' = "pop" /\ UNCHANGED <<a1, d2>>
     \/ Len(buffer) # 0 /\ pc' = "addByteX" /\ d2' = 0
          /\ a1' = (at + MoveW(Len(buffer), 0)) % AddrMod
  /\ UNCHANGED carry

(* The call, up to the loop, which a len of 0 skips. *)
AddxCall(buffer, at) ==
  /\ pc = "idle" /\ Arguments(buffer, at) /\ d1' = Len(buffer) /\ stack' = d2
  /\ \/ Len(buffer) = 0 /\ pc' = "pop" /\ UNCHANGED <<a1, d2>>
     \/ Len(buffer) # 0 /\ pc' = "addByteX" /\ d2' = 0
          /\ a1' = (at + MoveW(Len(buffer), 0)) % AddrMod
  /\ UNCHANGED carry

(* add.b (%a0)+,%d0, in either loop. *)
AddByte(next) ==
  /\ LET byte == data[Taken + 1]
     IN /\ d0' = (d0 + byte) % 256 /\ carry' = (d0 + byte) \div 256
        /\ sum' = sum + byte
  /\ a0' = (a0 + 1) % AddrMod
  /\ pc' = next
  /\ UNCHANGED <<memory, a1, d1, d2, stack>>

AddByteX == pc = "addByteX" /\ AddByte("addx")

(* Slips: ADD instead of ADDX; an addition wider than a byte. *)
PlainAddExtend == /\ pc = "addx" /\ pc' = "cmp"
                  /\ d0' = (d0 + (d2 % 256)) % 256 /\ carry' = (d0 + (d2 % 256)) \div 256
                  /\ UNCHANGED <<memory, a0, a1, d1, d2, stack, sum>>
WideAddExtend == /\ pc = "addx" /\ pc' = "cmp"
                 /\ d0' = d0 + 256 * carry + carry /\ carry' = 0
                 /\ UNCHANGED <<memory, a0, a1, d1, d2, stack, sum>>

AddExtend == /\ pc = "addx" /\ pc' = "cmp"
             /\ LET n == d0 + (d2 % 256) + carry
                IN d0' = n % 256 /\ carry' = n \div 256
             /\ UNCHANGED <<memory, a0, a1, d1, d2, stack, sum>>

Compare == /\ pc = "cmp" /\ pc' = IF a0 # a1 THEN "addByteX" ELSE "pop"
           /\ UNCHANGED <<memory, a0, a1, d0, d1, d2, carry, stack, sum>>

AddxReturn == /\ pc = "pop" /\ d2' = stack /\ pc' = "idle"
              /\ UNCHANGED <<memory, a0, a1, d0, d1, carry, stack, sum>>

-----------------------------------------------------------------------------
(* fn_calc_checksum_asm_branch *)

(* The call, up to the loop: DBRA makes one round more than D1 says. *)
BranchCall(buffer, at) ==
  /\ pc = "idle" /\ Arguments(buffer, at)
  /\ \/ Len(buffer) = 0 /\ d1' = 0 /\ pc' = "rts" /\ UNCHANGED carry
     \/ Len(buffer) # 0 /\ d1' = Len(buffer) - 1 /\ carry' = 0 /\ pc' = "addByteB"
  /\ UNCHANGED <<a1, d2, stack>>

AddByteB == pc = "addByteB" /\ AddByte("bcc")

(* A slip: BCS instead of BCC. *)
InvertedAddCarry == /\ pc = "bcc" /\ pc' = "dbra"
                    /\ \/ carry = 1 /\ UNCHANGED <<d0, carry>>
                       \/ carry = 0 /\ d0' = (d0 + 1) % 256 /\ carry' = (d0 + 1) \div 256
                    /\ UNCHANGED <<memory, a0, a1, d1, d2, stack, sum>>

(* BCC, and ADDQ where it does not branch. *)
AddCarry == /\ pc = "bcc" /\ pc' = "dbra"
            /\ \/ carry = 0 /\ UNCHANGED <<d0, carry>>
               \/ carry = 1 /\ d0' = (d0 + 1) % 256 /\ carry' = (d0 + 1) \div 256
            /\ UNCHANGED <<memory, a0, a1, d1, d2, stack, sum>>

Dbra == /\ pc = "dbra"
        /\ d1' = (d1 - 1) % WordMod
        /\ pc' = IF d1' # WordMod - 1 THEN "addByteB" ELSE "rts"
        /\ UNCHANGED <<memory, a0, a1, d0, d2, carry, stack, sum>>

BranchReturn == /\ pc = "rts" /\ pc' = "idle"
                /\ UNCHANGED <<memory, a0, a1, d0, d1, d2, carry, stack, sum>>

-----------------------------------------------------------------------------
AsmNext == \/ \E buffer \in Buffers, at \in Bases :
                AddxCall(buffer, at) \/ BranchCall(buffer, at)
           \/ AddByteX \/ AddExtend \/ Compare \/ AddxReturn
           \/ AddByteB \/ AddCarry \/ Dbra \/ BranchReturn

AsmSpec == AsmInit /\ [][AsmNext]_asmVars

-----------------------------------------------------------------------------
(* Properties. *)

(* Every variable has its type: a byte, a word or an address. *)
AsmTypeOK ==
  /\ pc \in {"idle", "addByteX", "addx", "cmp", "pop", "addByteB", "bcc", "dbra", "rts"}
  /\ data \in Buffers /\ base \in 0..(AddrMod - 1)
  /\ a0 \in 0..(AddrMod - 1) /\ a1 \in 0..(AddrMod - 1)
  /\ d0 \in 0..255 /\ d1 \in 0..(WordMod - 1) /\ d2 \in 0..(AddrMod - 1)
  /\ carry \in {0, 1} /\ stack \in 0..(AddrMod - 1) /\ sum \in Nat

(* Every byte read is one of the buffer's, wherever in memory that lies, also
   across the end of the address space and with the greatest len: the loops,
   which test after their first round, are not entered with nothing to do and
   do not run past the end. *)
ReadsBuffer == pc \in {"addByteX", "addByteB"} => Taken < Len(data)

(* The caller finds D2 as it was when it called, as the calling convention
   demands, also when the call returned early. *)
D2Preserved == pc = "idle" => d2 = CallerD2

(* The result is the sum of all the bytes modulo 255, whose carries have been
   added back in. *)
EndAroundCarry == pc = "idle" => d0 = Residue(sum) /\ Taken = Len(data)

(* Once a byte has been added the carry still to be added counts as added. *)
Chk == IF pc \in {"addx", "bcc"} THEN (d0 + carry) % 256 ELSE d0

Sums == INSTANCE Checksum WITH mode <- IF pc = "idle" THEN "idle" ELSE "busy",
                               buf <- data, taken <- Taken, chk <- Chk, total <- sum

(* Both loops add the bytes as the C function does, one by one and each with
   its carry, and return its result. *)
ImplementsChecksum == Sums!SumSpec
=============================================================================

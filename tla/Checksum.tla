------------------------------- MODULE Checksum -------------------------------
(***************************************************************************)
(* What fn_calc_checksum() of fujinet-nio-lib computes, as                 *)
(* apps/test/checksumbench.c holds its assembler versions to it: the bytes *)
(* are added one by one and the carry of each addition is added back in.   *)
(***************************************************************************)
EXTENDS ChecksumBytes

VARIABLES mode,      \* idle, or busy while a call is in progress
          buf,       \* the buffer it was given
          taken,     \* how many bytes it has added
          chk,       \* the checksum so far, and then the result
          total      \* ghost: the plain sum of those bytes

sumVars == <<mode, buf, taken, chk, total>>

SumInit == mode = "idle" /\ buf = <<>> /\ taken = 0 /\ chk = 0 /\ total = 0

SumCall(buffer) == /\ mode = "idle" /\ mode' = "busy"
                   /\ buf' = buffer /\ taken' = 0 /\ chk' = 0 /\ total' = 0

SumByte == /\ mode = "busy" /\ taken < Len(buf)
           /\ chk' = Fold(chk + buf[taken + 1])
           /\ total' = total + buf[taken + 1]
           /\ taken' = taken + 1
           /\ UNCHANGED <<mode, buf>>

SumReturn == /\ mode = "busy" /\ taken = Len(buf)
             /\ mode' = "idle"
             /\ UNCHANGED <<buf, taken, chk, total>>

SumNext == (\E buffer \in Buffers : SumCall(buffer)) \/ SumByte \/ SumReturn

SumSpec == SumInit /\ [][SumNext]_sumVars

-----------------------------------------------------------------------------
(* Properties. *)

(* Every variable has its type; in particular a folded sum fits in a byte,
   which the assembler versions rely on when they add the carry to a byte. *)
SumTypeOK == /\ mode \in {"idle", "busy"} /\ buf \in Buffers /\ taken \in 0..Len(buf)
             /\ chk \in 0..255 /\ total \in Nat

(* The checksum depends on the bytes through their sum alone: it is their
   sum modulo 255. *)
EndAround == chk = Residue(total)
=============================================================================

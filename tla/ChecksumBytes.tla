---------------------------- MODULE ChecksumBytes ----------------------------
(***************************************************************************)
(* The buffers whose checksum apps/test/checksumbench.c has computed, and  *)
(* the arithmetic of the checksum.                                         *)
(***************************************************************************)
EXTENDS Integers, Sequences

CONSTANTS Bytes,     \* the values of a byte, or some of them
          MaxLen     \* the largest len

ASSUME ChecksumAssumption == Bytes \subseteq 0..255 /\ MaxLen \in Nat

Buffers == UNION {[1..n -> Bytes] : n \in 0..MaxLen}

(* The carry of a byte addition, added back in. *)
Fold(n) == (n % 256) + (n \div 256)

(* The sum n modulo 255, where 255 and never 0 stands for a multiple other
   than 0. *)
Residue(n) == IF n = 0 THEN 0 ELSE ((n - 1) % 255) + 1
=============================================================================

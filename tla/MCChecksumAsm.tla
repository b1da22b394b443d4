---------------------------- MODULE MCChecksumAsm ----------------------------
(* Words of two bits, so that the longest buffer has the greatest len a word
   holds, and addresses of four; a buffer at 14 lies across the end of memory,
   and the caller's D2 has bits in its high word. *)
EXTENDS ChecksumAsm
=============================================================================

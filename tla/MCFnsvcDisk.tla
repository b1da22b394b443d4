---------------------------- MODULE MCFnsvcDisk ----------------------------
(* Two units, and an image whose URI just fits a request. *)
EXTENDS FnsvcDisk

MCUriLen == [u \in Uris |-> 8]
=============================================================================

------------------------------ MODULE MCMsDos -------------------------------
(* Three drive letters, so that another driver's, FUJINET.SYS's and a free one
   come in every order; lengths at the edges of the reply's fields, of NIOREAD's
   buffer and of sixteen bits. *)
EXTENDS MsDos
=============================================================================

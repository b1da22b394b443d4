---------------------------- MODULE FnsvcExchange ----------------------------
(***************************************************************************)
(* A program that makes both kinds of calls of src/common/fnsvc.c that are *)
(* one exchange each, on disk slots and for a path.  The two have the      *)
(* diagnostics in common.                                                  *)
(***************************************************************************)
EXTENDS FnsvcDisk, FnsvcResolve

exchangeVars == <<diskVars, resolveVars>>

ExchangeInit == DiskInit /\ ResolveInit

(* A call for a path ends what can be said of the diagnostics of a disk call. *)
ExchangeNext ==
  \/ /\ ret # Overrun /\ DiskNext
     /\ UNCHANGED <<resolved, display, ret, last>>
  \/ /\ ResolveNext
     /\ called' = NoCall /\ UNCHANGED <<disk, disk_last_error, belief>>
  \/ ret = Overrun /\ UNCHANGED exchangeVars    \* not followed any further

ExchangeSpec == ExchangeInit /\ [][ExchangeNext]_exchangeVars
=============================================================================

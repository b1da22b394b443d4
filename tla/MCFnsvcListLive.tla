-------------------------- MODULE MCFnsvcListLive --------------------------
(* Three names, and a directory that may change without bound while a call is
   running: nothing is constrained, so liveness is checked on every behaviour. *)
EXTENDS FnsvcListRefinement

MCNameLen == [x \in Names |-> x]
=============================================================================

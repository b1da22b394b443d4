-------------------------- MODULE MCFnsvcExchange --------------------------
(* Disk calls: two units and one slot argument too many; one URI that fits a
   request, one that is a byte too long and an empty one.  Path calls: arguments
   that fit, that are a byte too long and whose sum wraps; buffers of no, one and
   two bytes; strings shorter and longer than the buffers, and lengths on both
   sides of each sum that wraps. *)
EXTENDS FnsvcExchange

CONSTANTS fitting, long, none

MCUriLen == [u \in Uris |-> CASE u = fitting -> 8 [] u = long -> 9 [] u = none -> 0]

(* What the two kinds of calls keep to themselves is not combined: behaviours go
   on from a state in which one kind has nothing on record. *)
OneKind == \/ last = [sent |-> 0, reply |-> NoReply, rcap |-> 0, dcap |-> 0]
           \/ /\ called = NoCall /\ belief = [s \in Units |-> Unknown]
              /\ disk_last_error = FN_DISK_ERR_NONE /\ disk = [s \in 1..MaxUnits |-> Empty]
=============================================================================

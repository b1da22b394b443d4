---------------------------- MODULE MCFnsvcList ----------------------------
(* Names of one, two, two and three bytes, the last longer than list_name
   allows; pages of one or two full entries, or of up to four compact ones. *)
EXTENDS FnsvcList

CONSTANT MaxChanges     \* bound on the names added and removed during one call

MCNameLen == [x \in Names |-> <<1, 2, 2, 3>>[x]]

FewChanges == Cardinality(inserted) + Cardinality(deleted) <= MaxChanges
=============================================================================

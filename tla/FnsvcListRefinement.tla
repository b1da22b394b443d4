------------------------ MODULE FnsvcListRefinement ------------------------
(* The refinement mapping from the paged listing to the directory listing its
   caller sees. *)
EXTENDS FnsvcList

Listing == INSTANCE DirListing WITH open <- pc # "idle",
                                    given <- delivered,
                                    verdict <- ret

(* fnsvc_list_directory(), with its pages, bounds tests and failures, does for
   its caller only what DirListing allows: the callback is called only while
   the call runs, one entry per step and each one once, and the call ends with
   one verdict. *)
ImplementsListing == Listing!Spec

-----------------------------------------------------------------------------
(* The inductive invariant behind the theorems of FnsvcListProofs.  A page's
   entries are as good as delivered once it has arrived: what is said of the
   names given so far and of the index the call has reached counts the entries
   of the page in resp_buf. *)

Active == pc # "idle"

(* The names of the page that the callback has not been given yet. *)
Pending == {resp.names[k] : k \in (idx + 1)..Len(resp.names)}

(* The index in the sorted directory up to which the call has got entries. *)
Reached == start + Len(resp.names)

(* An insertion, a removal, before x excuses what the index does with x. *)
Shifted(x) == \E z \in inserted : z < x
Skipped(x) == \E z \in deleted : z < x

(* The ghosts frame the directory. *)
GhostInv == /\ dir \subseteq atCall \cup inserted
            /\ atCall \ deleted \subseteq dir

(* The page holds sorted names that were there during the call, and the index
   after it is an index of some directory, so `start` never wraps. *)
PageInv == /\ Pending \subseteq atCall \cup inserted
           /\ \A i, k \in DOMAIN resp.names : i < k => resp.names[i] < resp.names[k]
           /\ Reached <= Cardinality(Names)

(* Between pages, and between calls, the parser has no reply. *)
NoPageInv == pc # "parse" => resp = NoReply /\ idx = 0

(* Nothing at or after the reached index has been given or is pending. *)
OrderInv == /\ \A i \in DOMAIN delivered, x \in Pending :
                 delivered[i] < x \/ Shifted(delivered[i])
            /\ \A x \in Range(delivered) \cup Range(resp.names) :
                 Rank(dir, x) < Reached \/ Shifted(x)

(* What stayed is given, pending, or still ahead; on the last page nothing is
   ahead any more. *)
CoverInv == \A x \in atCall \ deleted :
              \/ x \in Range(delivered) \cup Pending
              \/ Skipped(x)
              \/ Rank(dir, x) >= Reached /\ (pc = "parse" => resp.more)

ListIInv == /\ ListTypeOK
            /\ ParseWithinReply
            /\ OrderedUnlessInserted
            /\ CompleteUnlessDeleted
            /\ NoPageInv
            /\ Active => GhostInv /\ PageInv /\ OrderInv /\ CoverInv
=============================================================================

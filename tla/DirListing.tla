----------------------------- MODULE DirListing -----------------------------
(***************************************************************************)
(* What fnsvc_list_directory() promises its caller, without pages, indexes *)
(* or replies: while a call is open names are given one at a time, and it  *)
(* ends with one verdict.  The directory is not locked meanwhile, so the   *)
(* promise is stated relative to the names added and removed during the    *)
(* call.                                                                   *)
(***************************************************************************)
EXTENDS Naturals, Sequences, Functions

CONSTANTS Names, NoRet

VARIABLES dir, open, given, verdict, atCall, inserted, deleted

vars == <<dir, open, given, verdict, atCall, inserted, deleted>>

Init == /\ dir \in SUBSET Names
        /\ open = FALSE /\ given = <<>> /\ verdict = NoRet
        /\ atCall = {} /\ inserted = {} /\ deleted = {}

(* A call begins, or is refused there and then. *)
Begin == /\ ~open
         /\ given' = <<>> /\ atCall' = dir /\ inserted' = {} /\ deleted' = {}
         /\ \/ open' = TRUE /\ verdict' = NoRet
            \/ open' = FALSE /\ verdict' = 0
         /\ UNCHANGED dir

(* x may be given: it was there at some time during the call, and it sorts
   after everything given before it, insertions apart. *)
MayGive(x) == /\ x \in atCall \cup inserted
              /\ \A i \in DOMAIN given :
                   given[i] < x \/ \E z \in inserted : z < given[i]

Give(x) == /\ open /\ MayGive(x)
           /\ given' = Append(given, x)
           /\ UNCHANGED <<dir, open, verdict, atCall, inserted, deleted>>

(* Everything that stayed has been given, removals apart. *)
Complete == \A x \in atCall \ deleted :
              x \in Range(given) \/ \E z \in deleted : z < x

End(v) == /\ open /\ (v = 1 => Complete)
          /\ open' = FALSE /\ verdict' = v
          /\ UNCHANGED <<dir, given, atCall, inserted, deleted>>

Insert(x) == /\ x \notin dir /\ dir' = dir \cup {x}
             /\ inserted' = IF open THEN inserted \cup {x} ELSE inserted
             /\ UNCHANGED <<open, given, verdict, atCall, deleted>>

Delete(x) == /\ x \in dir /\ dir' = dir \ {x}
             /\ deleted' = IF open THEN deleted \cup {x} ELSE deleted
             /\ UNCHANGED <<open, given, verdict, atCall, inserted>>

Next == \/ Begin
        \/ \E x \in Names : Give(x) \/ Insert(x) \/ Delete(x)
        \/ \E v \in {0, 1} : End(v)

Spec == Init /\ [][Next]_vars
=============================================================================

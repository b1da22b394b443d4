------------------------------ MODULE FnsvcDisk ------------------------------
(***************************************************************************)
(* fnsvc_disk_mount(), fnsvc_disk_unmount() and fnsvc_disk_restore_boot()  *)
(* (src/common/fnsvc.c) against the disk service, whose requests and       *)
(* replies may be lost.  What the caller may conclude from the results is  *)
(* kept in `belief`.                                                       *)
(***************************************************************************)
EXTENDS FnsvcCall

CONSTANTS MaxUnits,      \* FNCTL_MAX_UNITS
          Slots,         \* the slot arguments callers pass, bad ones included
          Uris, UriLen,  \* images, and the length of each URI
          Boot,          \* the image the service boots from
          Empty,         \* the content of a slot nothing is mounted in
          Unknown,       \* what a caller believes of a slot it cannot tell
          DiskErrs,      \* the reasons the service gives
          BootReplyLens  \* lengths of its replies to RESTORE_BOOT

FN_DISK_ERR_NONE == 0
FN_DISK_ERR_UNREPORTED == 255

ASSUME DiskAssumption ==
  /\ MaxUnits \in Nat /\ Slots \subseteq Nat
  /\ UriLen \in [Uris -> Nat]
  /\ Boot \notin {Empty, Unknown} /\ Empty \notin Uris \cup {Unknown} /\ Unknown \notin Uris
  /\ DiskErrs \subseteq 1..254
  /\ BootReplyLens \subseteq 0..16 /\ 16 <= IoBufSize

VARIABLES disk,             \* the service's slots, numbered from 1
          disk_last_error,
          called,           \* ghost: how the last disk call ended
          belief            \* ghost: what the results so far say of each slot

diskVars == <<disk, disk_last_error, called, belief, diag>>

Units == 0..(MaxUnits - 1)
Images == Uris \cup {Boot, Empty}
NoCall == [op |-> "none", sent |-> FALSE, ret |-> 1, reason |-> FN_DISK_ERR_NONE]

-----------------------------------------------------------------------------
(* The service: an accepted request takes effect, a refused one does not; a
   failure carries {version, DiskError}, or nothing (or something of another
   version) when it is not this disk service that refuses. *)

DiskReply(status, len, version, reason) ==
  [status |-> status, len |-> len, version |-> version, reason |-> reason]

Refusals == {DiskReply(s, 2, 1, e) : s \in ErrStatuses, e \in DiskErrs}
              \cup {DiskReply(s, 2, 2, e) : s \in ErrStatuses, e \in DiskErrs}
              \cup {DiskReply(s, 0, 0, 0) : s \in ErrStatuses}
Acceptances(lens) == {DiskReply(OK, n, v, 0) : n \in lens, v \in {1, 2}}

Applied(slot, image) == [disk EXCEPT ![slot + 1] = image]

-----------------------------------------------------------------------------
(* The client. *)

DiskInit == /\ disk \in [1..MaxUnits -> {Empty, Boot}]
            /\ disk_last_error = FN_DISK_ERR_NONE
            /\ called = NoCall /\ belief = [s \in Units |-> Unknown]
            /\ DiagInit

(* disk_result() for a reply. *)
DiskResult(r) == CASE r.status = OK -> FN_DISK_ERR_NONE
                   [] r.status # OK /\ r.len = 2 /\ r.version = 1 -> r.reason
                   [] OTHER -> FN_DISK_ERR_UNREPORTED

(* A caller told of success believes it; one told the reason of a failure
   believes nothing changed; any other failure leaves it in the dark. *)
Believe(slot, image, v) ==
  belief' = [s \in Units |->
               CASE s # slot -> belief[s]
                 [] s = slot /\ v = 1 -> image
                 [] s = slot /\ v = 0 /\ disk_last_error' \in DiskErrs -> belief[s]
                 [] OTHER -> Unknown]
Conclude(op, sent, slot, image, v, reason) ==
  /\ called' = [op |-> op, sent |-> sent, ret |-> v, reason |-> reason]
  /\ Believe(slot, image, v)

(* The early returns: nothing is sent and no result is recorded. *)
DiskRefuseArgs(op, slot) ==
  /\ UNCHANGED <<disk, disk_last_error, diag>>
  /\ Conclude(op, FALSE, slot, Empty, 0, FN_DISK_ERR_UNREPORTED)

(* A slip: a failed exchange leaves the reason of an earlier failure. *)
StaleDiskLost(op, slot, image) ==
  /\ disk' \in {disk, Applied(slot, image)}
  /\ UNCHANGED disk_last_error
  /\ Conclude(op, TRUE, slot, image, 0, FN_DISK_ERR_UNREPORTED)

(* service_call() fails: the request was lost, or only the reply. *)
DiskLost(op, slot, image) ==
  /\ disk' \in {disk, Applied(slot, image)}
  /\ disk_last_error' = FN_DISK_ERR_UNREPORTED
  /\ Conclude(op, TRUE, slot, image, 0, FN_DISK_ERR_UNREPORTED)

(* The service answers r, and the call returns v. *)
DiskAnswered(op, slot, image, r, v) ==
  /\ disk' = IF r.status = OK THEN Applied(slot, image) ELSE disk
  /\ disk_last_error' = DiskResult(r)
  /\ Conclude(op, TRUE, slot, image, v,
              IF r.status # OK /\ r.version = 1 THEN r.reason ELSE FN_DISK_ERR_UNREPORTED)

(* mount and unmount record the raw error and no other diagnostic. *)
PlainDiskCall(op, slot, image) ==
  /\ UNCHANGED <<last_error, last_status, last_response_len>>
  /\ \/ /\ \E e \in RawErrors : last_raw_error' = e % 256
        /\ DiskLost(op, slot, image)
     \/ /\ last_raw_error' = 0
        /\ \E r \in Refusals \cup Acceptances({0}) :
             DiskAnswered(op, slot, image, r, IF r.status = OK THEN 1 ELSE 0)

DiskMount(slot, uri) ==
  LET sendable == slot < MaxUnits /\ UriLen[uri] # 0 /\ UriLen[uri] + 8 <= IoBufSize
  IN  \/ ~sendable /\ DiskRefuseArgs("mount", slot)
      \/ sendable /\ PlainDiskCall("mount", slot, uri)

DiskUnmount(slot) == \/ slot >= MaxUnits /\ DiskRefuseArgs("unmount", slot)
                     \/ slot < MaxUnits /\ PlainDiskCall("unmount", slot, Empty)

(* A slip: the length is looked at before the status. *)
LengthFirstRestoreError(r) ==
  CASE r.len < 12 -> FNSVC_ERR_SHORT_RESPONSE
    [] r.len >= 12 /\ r.status # OK -> FNSVC_ERR_STATUS
    [] OTHER -> FNSVC_ERR_NONE

(* What restore_boot finds wrong with a reply, in its order. *)
RestoreError(r) ==
  CASE r.status # OK -> FNSVC_ERR_STATUS
    [] r.status = OK /\ r.len < 12 -> FNSVC_ERR_SHORT_RESPONSE
    [] r.status = OK /\ r.len >= 12 /\ r.version # 1 -> FNSVC_ERR_BAD_VERSION
    [] OTHER -> FNSVC_ERR_NONE

DiskRestoreBoot(slot) ==
  \/ slot >= MaxUnits /\ DiskRefuseArgs("restore_boot", slot)
  \/ /\ slot < MaxUnits
     /\ \/ /\ \E e \in RawErrors : OnlyExchangeFails(e)
           /\ DiskLost("restore_boot", slot, Boot)
        \/ \E r \in Refusals \cup Acceptances(BootReplyLens) :
             /\ ReplyArrives(r.status, r.len, RestoreError(r))
             /\ DiskAnswered("restore_boot", slot, Boot, r,
                             IF RestoreError(r) = FNSVC_ERR_NONE THEN 1 ELSE 0)

DiskNext == \E slot \in Slots :
              \/ \E uri \in Uris : DiskMount(slot, uri)
              \/ DiskUnmount(slot)
              \/ DiskRestoreBoot(slot)

DiskSpec == DiskInit /\ [][DiskNext]_diskVars

-----------------------------------------------------------------------------
(* Properties. *)

(* Every variable has its type. *)
DiskTypeOK ==
  /\ disk \in [1..MaxUnits -> Images]
  /\ disk_last_error \in {FN_DISK_ERR_NONE, FN_DISK_ERR_UNREPORTED} \cup DiskErrs
  /\ belief \in [Units -> Images \cup {Unknown}]
  /\ called.op \in {"none", "mount", "unmount", "restore_boot"}
  /\ called.sent \in BOOLEAN /\ called.ret \in {0, 1}
  /\ called.reason \in {FN_DISK_ERR_NONE, FN_DISK_ERR_UNREPORTED} \cup DiskErrs
  /\ DiagTypeOK

(* A caller that believes a success, takes an explained failure for no change
   and anything else for doubt is never wrong about a slot, whatever calls it
   makes and whichever requests and replies are lost on the way. *)
BeliefSound == \A s \in Units : belief[s] # Unknown => disk[s + 1] = belief[s]

(* After fnsvc_disk_restore_boot() the two channels of diagnostics agree: a
   success leaves both clear; after a lost exchange or a refusal the disk's is the
   reason the service gave, UNREPORTED when it gave none; and a reason is on
   record only if the error is that of a refusal.  After a reply that was accepted
   and is malformed nothing is claimed of the disk's: see
   DiskLastErrorDocumented. *)
RestoreDiagnosed ==
  called.op = "restore_boot" /\ called.sent =>
    /\ called.ret = 1 <=> last_error = FNSVC_ERR_NONE
    /\ called.ret = 1 => disk_last_error = FN_DISK_ERR_NONE
    /\ last_error \in {FNSVC_ERR_TRANSPORT, FNSVC_ERR_STATUS} => disk_last_error = called.reason
    /\ disk_last_error \in DiskErrs => last_error = FNSVC_ERR_STATUS

(* include/common/fnsvc.h: after a disk call fnsvc_disk_last_error() is NONE
   after success, the exact reason after a failure NIO explained, otherwise
   UNREPORTED. *)
DiskLastErrorDocumented ==
  called.op # "none" =>
    disk_last_error = IF called.ret = 1 THEN FN_DISK_ERR_NONE ELSE called.reason
=============================================================================

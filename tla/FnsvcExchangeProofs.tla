------------------------- MODULE FnsvcExchangeProofs -------------------------
(***************************************************************************)
(* The theorems about the calls of fnsvc.c that are one exchange each:     *)
(* those on disk slots (FnsvcDisk), the resolving of a path                *)
(* (FnsvcResolve), and both in one program (FnsvcExchange).  The three     *)
(* invariants of the disk calls are inductive together: what is believed   *)
(* of a slot changes only in a step that has just learnt it, and every     *)
(* step but a refusal of the arguments writes the two channels of          *)
(* diagnostics afresh.                                                     *)
(***************************************************************************)
EXTENDS FnsvcExchange, TLAPS

DiskIInv == DiskTypeOK /\ BeliefSound /\ RestoreDiagnosed

Ops == {"none", "mount", "unmount", "restore_boot"}
Reasons == {FN_DISK_ERR_NONE, FN_DISK_ERR_UNREPORTED} \cup DiskErrs

USE DEF FN_DISK_ERR_NONE, FN_DISK_ERR_UNREPORTED, OK

(* An answer's reason is one the service gives, and only a refusal has one. *)
LEMMA AnswerReason ==
  ASSUME NEW lens \in SUBSET Nat, NEW r \in Refusals \cup Acceptances(lens)
  PROVE  /\ DiskResult(r) \in Reasons
         /\ (IF r.status # OK /\ r.version = 1 THEN r.reason ELSE FN_DISK_ERR_UNREPORTED) \in Reasons
         /\ DiskResult(r) \in DiskErrs => r.status # OK
         /\ r.status = OK <=> DiskResult(r) = FN_DISK_ERR_NONE
         /\ r.status # OK =>
              DiskResult(r) = IF r.status # OK /\ r.version = 1 THEN r.reason ELSE FN_DISK_ERR_UNREPORTED
         /\ r.status \in {OK} \cup ErrStatuses
         /\ r.status # OK => r.len \in {0, 2}
         /\ r.status = OK => r.len \in lens
BY CallAssumption, DiskAssumption, SMT
   DEF CallAssumption, DiskAssumption, Refusals, Acceptances, DiskReply, DiskResult, Reasons

(* The slots after an accepted request. *)
LEMMA AppliedSlots ==
  ASSUME DiskTypeOK, NEW slot \in Units, NEW image \in Images
  PROVE  /\ Applied(slot, image) \in [1..MaxUnits -> Images]
         /\ \A s \in Units : Applied(slot, image)[s + 1] = IF s = slot THEN image ELSE disk[s + 1]
BY DiskAssumption DEF DiskAssumption, DiskTypeOK, Applied, Units

(* Beliefs stay sound in a step that changes a slot at most, and that is sure
   of that slot only when it knows what is there now. *)
LEMMA BelieveSound ==
  ASSUME DiskTypeOK, BeliefSound,
         NEW slot, NEW image \in Images, NEW v \in {0, 1}, Believe(slot, image, v),
         \A s \in Units : s # slot => disk'[s + 1] = disk[s + 1],
         slot \in Units /\ v = 1 => disk'[slot + 1] = image,
         slot \in Units /\ v = 0 /\ disk_last_error' \in DiskErrs => disk'[slot + 1] = disk[slot + 1]
  PROVE  /\ BeliefSound'
         /\ belief' \in [Units -> Images \cup {Unknown}]
<1>2. belief' \in [Units -> Images \cup {Unknown}]
  BY DEF Believe, DiskTypeOK
<1>3. BeliefSound'
  <2> SUFFICES ASSUME NEW s \in Units, belief'[s] # Unknown PROVE disk'[s + 1] = belief'[s]
    BY DEF BeliefSound
  <2>1. CASE s # slot
    BY <2>1 DEF Believe, BeliefSound
  <2>2. CASE s = slot /\ v = 1
    BY <2>2 DEF Believe
  <2>3. CASE s = slot /\ v = 0
    BY <2>3 DEF Believe, BeliefSound
  <2> QED BY <2>1, <2>2, <2>3
<1> QED BY <1>2, <1>3

LEMMA RefuseStep ==
  ASSUME DiskIInv, NEW op \in Ops, NEW slot \in Slots, slot >= MaxUnits \/ op = "mount",
         DiskRefuseArgs(op, slot)
  PROVE  DiskIInv'
<1> USE DEF DiskIInv
<1>1. Conclude(op, FALSE, slot, Empty, 0, FN_DISK_ERR_UNREPORTED) /\ disk' = disk
      /\ UNCHANGED <<disk_last_error, diag>>
  BY DEF DiskRefuseArgs
<1>2. /\ called' = [op |-> op, sent |-> FALSE, ret |-> 0, reason |-> FN_DISK_ERR_UNREPORTED]
      /\ BeliefSound' /\ belief' \in [Units -> Images \cup {Unknown}]
  <2>1. called' = [op |-> op, sent |-> FALSE, ret |-> 0, reason |-> FN_DISK_ERR_UNREPORTED]
    BY <1>1, Zenon DEF Conclude
  <2>3. Believe(slot, Empty, 0)
    BY <1>1 DEF Conclude
  <2>2. Empty \in Images /\ 0 \in {0, 1} /\ 0 # 1
    BY DEF Images
  <2>4. \A s : disk'[s + 1] = disk[s + 1]
    BY <1>1
  <2>5. BeliefSound' /\ belief' \in [Units -> Images \cup {Unknown}]
    BY <2>2, <2>3, <2>4, BelieveSound
  <2> QED BY <2>1, <2>5
<1>3. DiskTypeOK'
  BY <1>1, <1>2 DEF DiskTypeOK, DiagTypeOK, diag, Ops
<1>4. RestoreDiagnosed'
  BY <1>2 DEF RestoreDiagnosed
<1> QED BY <1>2, <1>3, <1>4

(* A request that was sent and failed on the way. *)
LEMMA LostStep ==
  ASSUME DiskIInv, NEW op \in Ops, NEW slot \in Units, NEW image \in Images,
         DiskLost(op, slot, image), DiagTypeOK',
         op = "restore_boot" => last_error' = FNSVC_ERR_TRANSPORT
  PROVE  DiskIInv'
<1> USE DEF DiskIInv
<1>1. /\ disk' \in {disk, Applied(slot, image)} /\ disk_last_error' = FN_DISK_ERR_UNREPORTED
      /\ Conclude(op, TRUE, slot, image, 0, FN_DISK_ERR_UNREPORTED)
  BY DEF DiskLost
<1>2. FN_DISK_ERR_UNREPORTED \notin DiskErrs
  BY DiskAssumption DEF DiskAssumption
<1>3. /\ disk' \in [1..MaxUnits -> Images]
      /\ \A s \in Units : s # slot => disk'[s + 1] = disk[s + 1]
  <2>1. /\ Applied(slot, image) \in [1..MaxUnits -> Images]
        /\ \A s \in Units : Applied(slot, image)[s + 1] = IF s = slot THEN image ELSE disk[s + 1]
    BY AppliedSlots
  <2>2. disk \in [1..MaxUnits -> Images]
    BY DEF DiskTypeOK
  <2>3. CASE disk' = disk
    BY <2>2, <2>3
  <2>4. CASE disk' = Applied(slot, image)
    BY <2>1, <2>4
  <2> QED BY <1>1, <2>3, <2>4
<1>4. /\ called' = [op |-> op, sent |-> TRUE, ret |-> 0, reason |-> FN_DISK_ERR_UNREPORTED]
      /\ BeliefSound' /\ belief' \in [Units -> Images \cup {Unknown}]
  <2>1. called' = [op |-> op, sent |-> TRUE, ret |-> 0, reason |-> FN_DISK_ERR_UNREPORTED]
    BY <1>1, Zenon DEF Conclude
  <2>2. Believe(slot, image, 0)
    BY <1>1 DEF Conclude
  <2> QED BY <1>1, <1>2, <1>3, <2>1, <2>2, BelieveSound
<1>5. DiskTypeOK'
  BY <1>1, <1>3, <1>4 DEF DiskTypeOK, Ops
<1>6. RestoreDiagnosed'
  BY <1>1, <1>2, <1>4 DEF RestoreDiagnosed, FNSVC_ERR_TRANSPORT, FNSVC_ERR_NONE, FNSVC_ERR_STATUS
<1> QED BY <1>4, <1>5, <1>6

(* A request that was answered. *)
LEMMA AnsweredStep ==
  ASSUME DiskIInv, NEW op \in Ops, NEW slot \in Units, NEW image \in Images,
         NEW lens \in SUBSET Nat, NEW r \in Refusals \cup Acceptances(lens), NEW v \in {0, 1},
         v = 1 => r.status = OK,
         DiskAnswered(op, slot, image, r, v), DiagTypeOK',
         op = "restore_boot" =>
           /\ last_error' = RestoreError(r)
           /\ v = 1 <=> RestoreError(r) = FNSVC_ERR_NONE
  PROVE  DiskIInv'
<1> USE DEF DiskIInv
<1> DEFINE why == IF r.status # OK /\ r.version = 1 THEN r.reason ELSE FN_DISK_ERR_UNREPORTED
<1>1. /\ disk' = IF r.status = OK THEN Applied(slot, image) ELSE disk
      /\ disk_last_error' = DiskResult(r)
      /\ Conclude(op, TRUE, slot, image, v, why)
  BY DEF DiskAnswered
<1>2. /\ DiskResult(r) \in Reasons /\ why \in Reasons
      /\ DiskResult(r) \in DiskErrs => r.status # OK
      /\ r.status = OK <=> DiskResult(r) = FN_DISK_ERR_NONE
      /\ r.status # OK => DiskResult(r) = why
  BY AnswerReason
<1>3. /\ disk' \in [1..MaxUnits -> Images]
      /\ \A s \in Units : s # slot => disk'[s + 1] = disk[s + 1]
      /\ r.status = OK => disk'[slot + 1] = image
      /\ r.status # OK => disk'[slot + 1] = disk[slot + 1]
  BY <1>1, AppliedSlots DEF DiskTypeOK
<1> HIDE DEF why
<1>4. /\ called' = [op |-> op, sent |-> TRUE, ret |-> v, reason |-> why]
      /\ BeliefSound' /\ belief' \in [Units -> Images \cup {Unknown}]
  <2>1. called' = [op |-> op, sent |-> TRUE, ret |-> v, reason |-> why]
    BY <1>1, Zenon DEF Conclude
  <2>2. Believe(slot, image, v)
    BY <1>1 DEF Conclude
  <2> QED BY <1>1, <1>2, <1>3, <2>1, <2>2, BelieveSound
<1>5. DiskTypeOK'
  BY <1>1, <1>2, <1>3, <1>4 DEF DiskTypeOK, Ops, Reasons
<1>6. RestoreDiagnosed'
  BY <1>1, <1>2, <1>4
     DEF RestoreDiagnosed, RestoreError, FNSVC_ERR_TRANSPORT, FNSVC_ERR_NONE, FNSVC_ERR_STATUS,
         FNSVC_ERR_SHORT_RESPONSE, FNSVC_ERR_BAD_VERSION
<1> QED BY <1>4, <1>5, <1>6

(* mount and unmount keep every diagnostic but the raw error. *)
LEMMA PlainStep ==
  ASSUME DiskIInv, NEW op \in Ops \ {"restore_boot"}, NEW slot \in Units, NEW image \in Images,
         PlainDiskCall(op, slot, image)
  PROVE  DiskIInv'
<1>1. DiagTypeOK'
  <2>1. last_raw_error' \in 0..255
    <3>1. CASE last_raw_error' = 0
      BY <3>1
    <3>2. ASSUME NEW e \in RawErrors, last_raw_error' = e % 256 PROVE last_raw_error' \in 0..255
      BY <3>2, CallAssumption DEF CallAssumption
    <3> QED BY <3>1, <3>2 DEF PlainDiskCall
  <2> QED BY <2>1 DEF PlainDiskCall, DiskIInv, DiskTypeOK, DiagTypeOK
<1>2. CASE DiskLost(op, slot, image)
  BY <1>1, <1>2, LostStep
<1>3. ASSUME NEW r \in Refusals \cup Acceptances({0}),
             DiskAnswered(op, slot, image, r, IF r.status = OK THEN 1 ELSE 0)
      PROVE  DiskIInv'
  BY <1>1, <1>3, AnsweredStep
<1> QED BY <1>2, <1>3 DEF PlainDiskCall

LEMMA RestoreStep ==
  ASSUME DiskIInv, NEW slot \in Units, DiskRestoreBoot(slot)
  PROVE  DiskIInv'
<1>0. slot < MaxUnits /\ ~(slot >= MaxUnits)
  BY DiskAssumption DEF DiskAssumption, Units
<1>1. ASSUME NEW e \in RawErrors, OnlyExchangeFails(e), DiskLost("restore_boot", slot, Boot)
      PROVE  DiskIInv'
  <2>1. DiagTypeOK' /\ last_error' = FNSVC_ERR_TRANSPORT
    BY <1>1, CallAssumption
       DEF CallAssumption, OnlyExchangeFails, DiagTypeOK, FNSVC_ERR_TRANSPORT
  <2> QED BY <1>1, <2>1, LostStep DEF Ops, Images
<1>2. ASSUME NEW r \in Refusals \cup Acceptances(BootReplyLens),
             ReplyArrives(r.status, r.len, RestoreError(r)),
             DiskAnswered("restore_boot", slot, Boot, r,
                          IF RestoreError(r) = FNSVC_ERR_NONE THEN 1 ELSE 0)
      PROVE  DiskIInv'
  <2>0. BootReplyLens \in SUBSET Nat
    BY DiskAssumption DEF DiskAssumption
  <2>5. /\ r.status \in {OK} \cup ErrStatuses
        /\ r.len \in {0, 2} \cup BootReplyLens
    BY <2>0, AnswerReason
  <2>1. /\ r.status \in {OK} \cup ErrStatuses
        /\ r.len \in 0..IoBufSize
    <3>1. \A n \in {0, 2} \cup BootReplyLens : n \in 0..IoBufSize
      BY CallAssumption, DiskAssumption DEF CallAssumption, DiskAssumption
    <3> QED BY <2>5, <3>1
  <2>2. RestoreError(r) \in 0..8 /\ (RestoreError(r) = FNSVC_ERR_NONE => r.status = OK)
    BY DEF RestoreError, FNSVC_ERR_NONE, FNSVC_ERR_STATUS, FNSVC_ERR_SHORT_RESPONSE,
           FNSVC_ERR_BAD_VERSION
  <2>3. DiagTypeOK' /\ last_error' = RestoreError(r)
    BY <1>2, <2>1, <2>2 DEF ReplyArrives, DiagTypeOK
  <2> QED BY <1>2, <2>0, <2>2, <2>3, AnsweredStep DEF Ops, Images
<1> QED BY <1>0, <1>1, <1>2 DEF DiskRestoreBoot

LEMMA DiskInductive == DiskIInv /\ [DiskNext]_diskVars => DiskIInv'
<1> SUFFICES ASSUME DiskIInv, [DiskNext]_diskVars PROVE DiskIInv'
  OBVIOUS
<1>1. CASE UNCHANGED diskVars
  BY <1>1 DEF diskVars, diag, DiskIInv, DiskTypeOK, DiagTypeOK, BeliefSound, RestoreDiagnosed
<1>2. ASSUME NEW slot \in Slots, NEW uri \in Uris, DiskMount(slot, uri) PROVE DiskIInv'
  <2>1. CASE DiskRefuseArgs("mount", slot)
    BY <2>1, RefuseStep DEF Ops
  <2>2. CASE slot < MaxUnits /\ PlainDiskCall("mount", slot, uri)
    BY <2>2, PlainStep, DiskAssumption DEF Ops, Units, Images, DiskAssumption
  <2> QED BY <1>2, <2>1, <2>2 DEF DiskMount
<1>3. ASSUME NEW slot \in Slots, DiskUnmount(slot) PROVE DiskIInv'
  <2>1. CASE slot >= MaxUnits /\ DiskRefuseArgs("unmount", slot)
    BY <2>1, RefuseStep DEF Ops
  <2>2. CASE slot < MaxUnits /\ PlainDiskCall("unmount", slot, Empty)
    BY <2>2, PlainStep, DiskAssumption DEF Ops, Units, Images, DiskAssumption
  <2> QED BY <1>3, <2>1, <2>2 DEF DiskUnmount
<1>4. ASSUME NEW slot \in Slots, DiskRestoreBoot(slot) PROVE DiskIInv'
  <2>1. CASE slot >= MaxUnits
    BY <1>4, <2>1, RefuseStep, DiskAssumption DEF DiskRestoreBoot, Ops, DiskAssumption
  <2>2. CASE slot < MaxUnits
    BY <1>4, <2>2, RestoreStep, DiskAssumption DEF Units, DiskAssumption
  <2> QED BY <2>1, <2>2, DiskAssumption DEF DiskAssumption
<1> QED BY <1>1, <1>2, <1>3, <1>4 DEF DiskNext

LEMMA DiskInitially == DiskInit => DiskIInv
BY CallAssumption, DiskAssumption
   DEF CallAssumption, DiskAssumption, DiskInit, DiagInit, DiskIInv, DiskTypeOK, DiagTypeOK,
       BeliefSound, RestoreDiagnosed, NoCall, Images, FNSVC_ERR_NONE

(* Every reachable state satisfies the inductive invariant. *)
THEOREM DiskInvariance == DiskSpec => []DiskIInv
BY DiskInitially, DiskInductive, PTL DEF DiskSpec

(* fnsvc_disk_*(): every variable keeps its type. *)
THEOREM DiskTypeCorrect == DiskSpec => []DiskTypeOK
BY DiskInvariance, PTL DEF DiskIInv

(* fnsvc_disk_*(): a caller that believes successes and explained failures, and
   nothing else, is never wrong about a slot, for any slots, URIs and service. *)
THEOREM DiskBeliefsSound == DiskSpec => []BeliefSound
BY DiskInvariance, PTL DEF DiskIInv

(* fnsvc_disk_restore_boot(): after a success both channels of diagnostics are
   clear, after a lost exchange or a refusal the disk's names the reason that was
   given, and a reason is on record only after a refusal. *)
THEOREM DiskRestoreExplained == DiskSpec => []RestoreDiagnosed
BY DiskInvariance, PTL DEF DiskIInv
-----------------------------------------------------------------------------
(* fnsvc_resolve_path().  Nothing is carried from one call to the next but   *)
(* what the buffers hold, so its invariants need no strengthening.           *)

ResolveIInv == ResolveTypeOK /\ CopiesSound /\ ResolveRequestFits

(* The arguments and the lengths in a reply are numbers. *)
LEMMA ResolveNumbers ==
  /\ BaseLens \cup ArgLens \cup ResolvedCaps \cup DisplayCaps \cup StrLens \subseteq Nat
  /\ \A r \in PathReplies : /\ r.uriLen \in Nat /\ r.pathLen \in Nat /\ r.len \in 0..IoBufSize
                            /\ r.status \in {OK} \cup ErrStatuses
<1>1. BaseLens \cup ArgLens \cup ResolvedCaps \cup DisplayCaps \cup StrLens \subseteq Nat
  <2>1. 0..(U16 - 1) \subseteq Nat
    BY CallAssumption DEF CallAssumption
  <2> QED BY <2>1, ResolveAssumption, Zenon DEF ResolveAssumption
<1>2. ASSUME NEW r \in PathReplies
      PROVE  /\ r.uriLen \in Nat /\ r.pathLen \in Nat /\ r.len \in 0..IoBufSize
             /\ r.status \in {OK} \cup ErrStatuses
  <2>1. CASE \E v \in {1, 2}, n \in ReplyLens, u \in StrLens, p \in StrLens :
               r = PathReply(OK, v, n, u, p)
    BY <1>1, <2>1, ResolveAssumption DEF PathReply, ResolveAssumption
  <2>2. CASE \E e \in ErrStatuses : r = PathReply(e, 1, 0, 0, 0)
    BY <2>2, CallAssumption DEF PathReply, CallAssumption
  <2> QED BY <2>1, <2>2 DEF PathReplies
<1> QED BY <1>1, <1>2

(* Sixteen bits hold a number below 2^16 unchanged, and any number partly. *)
LEMMA Uncut == ASSUME NEW n \in Nat
               PROVE  (n % U16) \in Nat /\ (n < U16 => n % U16 = n)
<1>1. U16 \in Nat /\ U16 > 0
  BY CallAssumption DEF CallAssumption, MaxData
<1> QED BY <1>1

(* A copy is cut to the room there is less one byte for the terminator. *)
LEMMA FittedLength ==
  ASSUME NEW len \in Nat, NEW cap \in Nat \ {0}
  PROVE  /\ Fitted(len, cap) \in Nat /\ Fitted(len, cap) < cap
         /\ Fitted(len, cap) # len => Fitted(len, cap) = cap - 1 /\ Fitted(len, cap) < len
BY DEF Fitted

(* What the first checks let through: an answer of this version, with room for
   what sixteen bits hold of the first string and the length of the second. *)
LEMMA FirstErrorNone ==
  ASSUME NEW r \in PathReplies, FirstError(r) = FNSVC_ERR_NONE
  PROVE  r.status = OK /\ r.version = 1 /\ (6 + r.uriLen + 2) % U16 <= r.len
<1>1. r.status = OK
  BY DEF FirstError, FNSVC_ERR_STATUS, FNSVC_ERR_NONE
<1>2. r.len >= 8 /\ r.version = 1
  BY <1>1, ResolveNumbers DEF FirstError, FNSVC_ERR_BAD_VERSION, FNSVC_ERR_NONE
<1> DEFINE cut == (6 + r.uriLen + 2) % U16
<1>3. ~(cut > r.len)
  BY <1>1, <1>2 DEF FirstError, FNSVC_ERR_SHORT_RESPONSE, FNSVC_ERR_NONE
<1>4. cut \in Nat /\ r.len \in Nat
  <2>1. 6 + r.uriLen + 2 \in Nat /\ r.len \in Nat
    BY ResolveNumbers, CallAssumption DEF CallAssumption
  <2> QED BY <2>1, Uncut
<1> HIDE DEF cut
<1>5. cut <= r.len
  BY <1>3, <1>4
<1> QED BY <1>1, <1>2, <1>5 DEF cut

LEMMA FirstErrorType == \A r : FirstError(r) \in 0..8
BY DEF FirstError, FNSVC_ERR_STATUS, FNSVC_ERR_BAD_VERSION, FNSVC_ERR_SHORT_RESPONSE, FNSVC_ERR_NONE

(* The two copies out of a reply. *)
LEMMA CopyStep ==
  ASSUME ResolveTypeOK, NEW r \in PathReplies, FirstError(r) = FNSVC_ERR_NONE,
         NEW sent \in Nat, NEW rcap \in Nat \ {0}, NEW dcap \in Nat, NEW p \in PathLens(r),
         last' = [sent |-> sent, reply |-> r, rcap |-> rcap, dcap |-> dcap],
         CopyStrings(r, p, rcap, dcap)
  PROVE  ResolveIInv'
<1> DEFINE off == PathOffset(r, Fitted(r.uriLen, rcap))
           end == (off + p) % U16
<1>1. /\ r.uriLen \in Nat /\ r.pathLen \in Nat /\ r.len \in 0..IoBufSize
      /\ r.status = OK /\ r.version = 1 /\ (6 + r.uriLen + 2) % U16 <= r.len
  BY ResolveNumbers, FirstErrorNone
<1>2. /\ off \in Nat /\ off <= r.len
      /\ 8 + r.uriLen < U16 => off = 8 + r.uriLen
  <2>1. 6 + r.uriLen + 2 \in Nat /\ 6 + r.uriLen + 2 = 8 + r.uriLen
    BY <1>1
  <2> QED BY <1>1, <2>1, Uncut DEF PathOffset
<1>3. p \in Nat /\ (8 + r.uriLen <= r.len => p = r.pathLen)
  BY <1>1, ResolveNumbers DEF PathLens
<1>4. /\ resolved' = [from |-> 6, len |-> Fitted(r.uriLen, rcap)]
      /\ \/ ReplyArrives(r.status, r.len, FNSVC_ERR_SHORT_RESPONSE) /\ ret' = 0 /\ display' = display
         \/ /\ end <= r.len
            /\ ReplyArrives(r.status, r.len, FNSVC_ERR_NONE) /\ ret' = 1
            /\ display' = IF dcap > 0 THEN [from |-> off, len |-> Fitted(p, dcap)] ELSE display
  BY DEF CopyStrings, Slice
<1>5. /\ last'.reply = r /\ last'.sent = sent /\ last'.rcap = rcap /\ last'.dcap = dcap
  OBVIOUS
<1> HIDE DEF off
<1>6. off + p < U16 => end = off + p
  BY <1>2, <1>3, Uncut
<1> HIDE DEF end
<1>7. /\ Fitted(r.uriLen, rcap) \in Nat /\ Fitted(r.uriLen, rcap) < rcap
      /\ Fitted(r.uriLen, rcap) # r.uriLen
           => Fitted(r.uriLen, rcap) = rcap - 1 /\ Fitted(r.uriLen, rcap) < r.uriLen
  BY <1>1, FittedLength
<1>8. dcap > 0 => /\ Fitted(p, dcap) \in Nat /\ Fitted(p, dcap) < dcap
                  /\ Fitted(p, dcap) # p => Fitted(p, dcap) = dcap - 1 /\ Fitted(p, dcap) < p
  BY <1>3, FittedLength
<1>9. ResolveTypeOK'
  <2>1. DiagTypeOK'
    BY <1>1, <1>4, CallAssumption
       DEF DiagTypeOK, ReplyArrives, CallAssumption, FNSVC_ERR_SHORT_RESPONSE, FNSVC_ERR_NONE
  <2>2. resolved' \in [from : Nat, len : Nat]
    BY <1>4, <1>7
  <2>3. display' \in [from : Nat, len : Nat]
    <3>1. CASE display' = display
      BY <3>1 DEF ResolveTypeOK
    <3>2. CASE dcap > 0 /\ display' = [from |-> off, len |-> Fitted(p, dcap)]
      BY <1>2, <1>8, <3>2
    <3> QED BY <1>4, <3>1, <3>2
  <2> QED BY <1>4, <1>5, <2>1, <2>2, <2>3 DEF ResolveTypeOK
<1>10. CopiesSound'
  <2> SUFFICES ASSUME ret' = 1 PROVE CopiesSound'
    BY DEF CopiesSound
  <2>1. /\ end <= r.len
        /\ dcap > 0 => display' = [from |-> off, len |-> Fitted(p, dcap)]
    BY <1>4
  <2>2. resolved'.from = 6 /\ resolved'.len = Fitted(r.uriLen, rcap)
    BY <1>4
  <2>3. dcap > 0 => display'.from = off /\ display'.len = Fitted(p, dcap)
    BY <2>1
  <2>4. ~LengthWraps(r) => /\ off = 8 + r.uriLen /\ p = r.pathLen
                           /\ 8 + r.uriLen + r.pathLen <= r.len
    <3> SUFFICES ASSUME 8 + r.uriLen < U16, 8 + r.uriLen + r.pathLen < U16
                 PROVE  /\ off = 8 + r.uriLen /\ p = r.pathLen
                        /\ 8 + r.uriLen + r.pathLen <= r.len
      BY <1>1, CallAssumption DEF LengthWraps, CallAssumption
    <3> QED BY <1>1, <1>2, <1>3, <1>6, <2>1
  <2> HIDE DEF LengthWraps
  <2> QED BY <1>1, <1>5, <1>7, <1>8, <2>2, <2>3, <2>4 DEF CopiesSound
<1>11. ResolveRequestFits'
  BY <1>4 DEF ResolveRequestFits, Overrun
<1> QED BY <1>9, <1>10, <1>11 DEF ResolveIInv

(* Every other way a call ends: it fails, and leaves both buffers alone. *)
LEMMA FailingCall ==
  ASSUME ResolveTypeOK, ret' = 0, UNCHANGED <<resolved, display>>,
         last'.sent \in Nat, last'.rcap \in Nat, last'.dcap \in Nat, DiagTypeOK'
  PROVE  ResolveIInv'
BY DEF ResolveTypeOK, CopiesSound, ResolveRequestFits, ResolveIInv, Overrun

(* A request is built past the end of req_buf when its length, cut to sixteen
   bits, is small enough. *)
LEMMA OverrunStep ==
  ASSUME ResolveTypeOK, NEW b \in Nat, NEW a \in Nat, NEW rcap \in Nat, NEW dcap \in Nat,
         (b + a + ResolveRequestOverhead) % U16 <= IoBufSize, ResolveRequestLen(b, a) > IoBufSize,
         ret' = Overrun,
         last' = [sent |-> ResolveRequestLen(b, a), reply |-> NoReply, rcap |-> rcap, dcap |-> dcap],
         UNCHANGED <<resolved, display, diag>>
  PROVE  ResolveIInv'
<1> DEFINE n == b + a + 5
<1>1. n \in Nat /\ ResolveRequestLen(b, a) = n /\ (n % U16) <= IoBufSize /\ n > IoBufSize
  BY DEF ResolveRequestLen, ResolveRequestOverhead
<1>2. last'.sent = n /\ last'.rcap = rcap /\ last'.dcap = dcap
  BY <1>1
<1> HIDE DEF n
<1>3. IoBufSize \in Nat /\ U16 \in Nat
  BY CallAssumption DEF CallAssumption
<1>4. n < U16 => n % U16 = n
  BY <1>1, Uncut
<1>5. n >= U16
  <2>1. ~(n < U16)
    BY <1>1, <1>3, <1>4
  <2> QED BY <1>1, <1>3, <2>1
<1>6. ResolveRequestFits'
  BY <1>2, <1>5 DEF ResolveRequestFits
<1>7. DiagTypeOK'
  BY DEF ResolveTypeOK, DiagTypeOK, diag
<1>8. ResolveTypeOK'
  BY <1>1, <1>2, <1>7 DEF ResolveTypeOK
<1>9. CopiesSound'
  BY DEF CopiesSound, Overrun
<1> QED BY <1>6, <1>8, <1>9 DEF ResolveIInv

(* An exchange, lost or answered. *)
LEMMA ExchangeStep ==
  ASSUME ResolveTypeOK, NEW sent \in Nat, NEW rcap \in Nat \ {0}, NEW dcap \in Nat,
         ResolveExchange(sent, rcap, dcap)
  PROVE  ResolveIInv'
<1>1. last.sent \in Nat /\ last.rcap \in Nat /\ last.dcap \in Nat
  BY DEF ResolveTypeOK
<1>2. CASE /\ \E e \in RawErrors : OnlyExchangeFails(e)
           /\ ret' = 0 /\ UNCHANGED <<resolved, display, last>>
  <2>1. PICK e \in RawErrors : OnlyExchangeFails(e)
    BY <1>2
  <2>2. (e % 256) \in 0..255 /\ IoBufSize \in Nat
    BY CallAssumption DEF CallAssumption
  <2>3. DiagTypeOK'
    BY <2>1, <2>2 DEF DiagTypeOK, OnlyExchangeFails, FNSVC_ERR_TRANSPORT
  <2> QED BY <1>1, <1>2, <2>3, FailingCall
<1>3. ASSUME NEW r \in PathReplies,
             last' = [sent |-> sent, reply |-> r, rcap |-> rcap, dcap |-> dcap],
             \/ /\ ReplyArrives(r.status, r.len, FirstError(r))
                /\ ret' = 0 /\ UNCHANGED <<resolved, display>>
             \/ /\ FirstError(r) = FNSVC_ERR_NONE
                /\ \E p \in PathLens(r) : CopyStrings(r, p, rcap, dcap)
      PROVE  ResolveIInv'
  <2>1. CASE /\ ReplyArrives(r.status, r.len, FirstError(r))
             /\ ret' = 0 /\ UNCHANGED <<resolved, display>>
    <3>1. DiagTypeOK'
      BY <2>1, FirstErrorType, ResolveNumbers DEF DiagTypeOK, ReplyArrives
    <3>2. last'.sent \in Nat /\ last'.rcap \in Nat /\ last'.dcap \in Nat
      BY <1>3
    <3> QED BY <2>1, <3>1, <3>2, FailingCall
  <2>2. CASE /\ FirstError(r) = FNSVC_ERR_NONE
             /\ \E p \in PathLens(r) : CopyStrings(r, p, rcap, dcap)
    BY <1>3, <2>2, CopyStep
  <2> QED BY <1>3, <2>1, <2>2
<1> QED BY <1>2, <1>3 DEF ResolveExchange

LEMMA ResolveInductive == ResolveIInv /\ [ResolveNext]_resolveVars => ResolveIInv'
<1> SUFFICES ASSUME ResolveIInv, [ResolveNext]_resolveVars PROVE ResolveIInv'
  OBVIOUS
<1>1. ResolveTypeOK /\ CopiesSound /\ ResolveRequestFits
  BY DEF ResolveIInv
<1>2. ASSUME NEW given \in BOOLEAN, NEW b \in BaseLens, NEW a \in ArgLens,
             NEW rcap \in ResolvedCaps, NEW dcap \in DisplayCaps, ResolvePath(given, b, a, rcap, dcap)
      PROVE  ResolveIInv'
  <2>1. b \in Nat /\ a \in Nat /\ rcap \in Nat /\ dcap \in Nat /\ DiagTypeOK
    BY <1>1, ResolveNumbers DEF ResolveTypeOK
  <2>2. CASE /\ \E e \in {FNSVC_ERR_REQUEST_TOO_LARGE, FNSVC_ERR_INVALID_ARG} : RefuseArgs(e)
             /\ ret' = 0 /\ UNCHANGED <<resolved, display, last>>
    <3>1. DiagTypeOK'
      BY <2>1, <2>2
         DEF DiagTypeOK, RefuseArgs, FNSVC_ERR_REQUEST_TOO_LARGE, FNSVC_ERR_INVALID_ARG
    <3>2. last'.sent \in Nat /\ last'.rcap \in Nat /\ last'.dcap \in Nat
      BY <1>1, <2>2 DEF ResolveTypeOK
    <3> QED BY <1>1, <2>2, <3>1, <3>2, FailingCall
  <2>3. CASE /\ (b + a + ResolveRequestOverhead) % U16 <= IoBufSize
             /\ ResolveRequestLen(b, a) > IoBufSize /\ ret' = Overrun
             /\ last' = [sent |-> ResolveRequestLen(b, a), reply |-> NoReply,
                         rcap |-> rcap, dcap |-> dcap]
             /\ UNCHANGED <<resolved, display, diag>>
    BY <1>1, <2>1, <2>3, OverrunStep
  <2>4. CASE rcap # 0 /\ ResolveExchange(ResolveRequestLen(b, a), rcap, dcap)
    <3>1. ResolveRequestLen(b, a) \in Nat
      BY <2>1 DEF ResolveRequestLen
    <3> QED BY <1>1, <2>1, <2>4, <3>1, ExchangeStep
  <2> QED BY <1>2, <2>2, <2>3, <2>4, Zenon DEF ResolvePath
<1>3. CASE UNCHANGED resolveVars
  BY <1>1, <1>3
     DEF resolveVars, diag, ResolveTypeOK, DiagTypeOK, CopiesSound, ResolveRequestFits, ResolveIInv
<1> QED BY <1>2, <1>3 DEF ResolveNext

LEMMA ResolveInitially == ResolveInit => ResolveIInv
BY CallAssumption
   DEF CallAssumption, ResolveInit, DiagInit, ResolveIInv, ResolveTypeOK, DiagTypeOK, CopiesSound,
       ResolveRequestFits, Overrun, Nothing, Slice, FNSVC_ERR_NONE

LEMMA ResolveInvariance == ResolveSpec => []ResolveIInv
BY ResolveInitially, ResolveInductive, PTL DEF ResolveSpec

(* fnsvc_resolve_path(): every variable keeps its type, the diagnostics among
   them. *)
THEOREM ResolveTypeCorrect == ResolveSpec => []ResolveTypeOK
BY ResolveInvariance, PTL DEF ResolveIInv

(* fnsvc_resolve_path(): a request is built past the end of req_buf only if its
   length needs more than sixteen bits, for any buffer size and arguments. *)
THEOREM ResolveRequestsFit == ResolveSpec => []ResolveRequestFits
BY ResolveInvariance, PTL DEF ResolveIInv

(* fnsvc_resolve_path(): a call that succeeds stays within the caller's buffers,
   and has copied the beginning of each string out of a reply no byte of which
   was missing, unless the reply's lengths add up to 2^16 or more; for all
   sixteen-bit lengths, buffers and replies. *)
THEOREM ResolvedCopies == ResolveSpec => []CopiesSound
BY ResolveInvariance, PTL DEF ResolveIInv
-----------------------------------------------------------------------------
(* The two kinds of calls in one program.  Of the other kind's variables a    *)
(* call changes the diagnostics only.                                         *)

ExchangeIInv == DiskIInv /\ ResolveIInv

LEMMA ExchangeInductive == ExchangeIInv /\ [ExchangeNext]_exchangeVars => ExchangeIInv'
<1> SUFFICES ASSUME ExchangeIInv, [ExchangeNext]_exchangeVars PROVE ExchangeIInv'
  OBVIOUS
<1> USE DEF ExchangeIInv
<1>1. CASE DiskNext /\ UNCHANGED <<resolved, display, ret, last>>
  <2>1. DiskIInv'
    BY <1>1, DiskInductive
  <2>2. DiagTypeOK'
    BY <2>1 DEF DiskIInv, DiskTypeOK
  <2>3. ResolveIInv'
    BY <1>1, <2>2 DEF ResolveIInv, ResolveTypeOK, CopiesSound, ResolveRequestFits
  <2> QED BY <2>1, <2>3
<1>2. CASE ResolveNext /\ called' = NoCall /\ UNCHANGED <<disk, disk_last_error, belief>>
  <2>1. ResolveIInv'
    BY <1>2, ResolveInductive
  <2>2. DiagTypeOK'
    BY <2>1 DEF ResolveIInv, ResolveTypeOK
  <2>3. called'.op = "none" /\ called'.sent = FALSE /\ called'.ret = 1
        /\ called'.reason = FN_DISK_ERR_NONE
    BY <1>2 DEF NoCall
  <2>4. DiskTypeOK'
    <3>1. called'.sent \in BOOLEAN
      BY <2>3
    <3> QED BY <1>2, <2>2, <2>3, <3>1 DEF DiskIInv, DiskTypeOK
  <2>5. BeliefSound' /\ RestoreDiagnosed'
    BY <1>2, <2>3 DEF DiskIInv, BeliefSound, RestoreDiagnosed
  <2> QED BY <2>1, <2>4, <2>5 DEF DiskIInv
<1>3. CASE UNCHANGED exchangeVars
  <2>1. UNCHANGED diskVars /\ UNCHANGED resolveVars
    BY <1>3 DEF exchangeVars
  <2> QED BY <2>1, DiskInductive, ResolveInductive
<1> QED BY <1>1, <1>2, <1>3 DEF ExchangeNext

(* A program that mixes disk calls and path calls, in any order: all the
   invariants of both kinds hold throughout, although the two write the same
   diagnostics. *)
THEOREM ExchangeInvariance == ExchangeSpec => [](DiskIInv /\ ResolveIInv)
<1>1. ExchangeInit => ExchangeIInv
  BY DiskInitially, ResolveInitially DEF ExchangeInit, ExchangeIInv
<1>2. ExchangeIInv => DiskIInv /\ ResolveIInv
  BY DEF ExchangeIInv
<1> QED BY <1>1, <1>2, ExchangeInductive, PTL DEF ExchangeSpec
=============================================================================

------------------------------ MODULE FnctlDos ------------------------------
(***************************************************************************)
(* The MS-DOS backend (src/platform/msdos/fnctl.c): the state and the unit *)
(* map belong to FUJINET.SYS, which is reached through IOCTL calls on      *)
(* whichever drive letter answers a query with its signature, and, for     *)
(* set_state and raw calls, through fn_raw_call().  Any of these may fail, *)
(* before or after it took effect.  DOS runs one program after another.    *)
(***************************************************************************)
EXTENDS Naturals, FiniteSetsExt

CONSTANTS FirstDrive, LastDrive,   \* 3 and 26
          MaxUnits,                \* units FUJINET.SYS serves
          None, Foreign,           \* a free drive letter, one of another driver
          States,                  \* pairs of URI and path that programs set
          NoState,                 \* the pair before any is set
          Unknown,                 \* what programs know of a setting in doubt
          DosErrors                \* the errors of a failed INT 21h

ASSUME DosAssumption ==
  /\ FirstDrive \in Nat \ {0} /\ LastDrive \in Nat /\ FirstDrive <= LastDrive
  /\ MaxUnits \in Nat /\ DosErrors \subseteq Nat \ {0} /\ DosErrors # {}
  /\ None # Foreign /\ {None, Foreign} \cap Nat = {}
  /\ NoState \notin States /\ Unknown \notin States \cup {NoState} \cup Nat

Drives == FirstDrive..LastDrive
Units == 0..(MaxUnits - 1)

VARIABLES letters,         \* whose each drive letter is: fixed when DOS starts
          state, unit_map, \* what FUJINET.SYS keeps
          cached_drive, last_dos_error,
          called,          \* ghost: how the last call went
          known            \* ghost: what programs can conclude of state and map

driver == <<state, unit_map>>
dosVars == <<letters, driver, cached_drive, last_dos_error, called, known>>

Call(ret, exchanged) == [ret |-> ret, exchanged |-> exchanged]
NoCall == Call(1, FALSE)

(* DOS has started: each unit has at most one letter. *)
Lettering == {l \in [Drives -> {None, Foreign} \cup Units] :
                \A c, d \in Drives : c # d /\ l[c] \in Units => l[c] # l[d]}

DosInit == /\ letters \in Lettering
           /\ state = NoState /\ unit_map = [u \in Units |-> u]
           /\ cached_drive = 0 /\ last_dos_error = 0
           /\ called = NoCall
           /\ known = [state |-> Unknown, map |-> [u \in Units |-> Unknown]]

-----------------------------------------------------------------------------
(* How an IOCTL read of drive d may end: with an error, or with the buffer
   signed by FUJINET.SYS, or with what another driver made of it. *)
Outcomes(d) == {"error"} \cup CASE letters[d] \in Units -> {"signed"}
                                [] letters[d] = Foreign -> {"unsigned"}
                                [] OTHER -> {}
Probes == {p \in [Drives -> {"error", "signed", "unsigned"}] :
             \A d \in Drives : p[d] \in Outcomes(d)}

ErrorOf(outcome) == IF outcome = "error" THEN DosErrors ELSE {0}

(* A slip: whatever answers the query is taken for FUJINET.SYS. *)
TrustingFirstSigned(p) == LET s == {d \in Drives : p[d] # "error"}
                          IN  IF s = {} THEN 0 ELSE Min(s)
FirstSigned(p) == LET s == {d \in Drives : p[d] = "signed"}
                  IN  IF s = {} THEN 0 ELSE Min(s)

Searched(d, outcomes) ==
  {[drive |-> d, error |-> e] : e \in ErrorOf(outcomes[IF d = 0 THEN LastDrive ELSE d])}

(* What fnctl_find_drive() may return, 0 if nothing answers, and the error it
   leaves: the drive found before, or the first that is signed now, the error
   being that of the last letter asked. *)
FindAnswers == IF cached_drive # 0
               THEN {[drive |-> cached_drive, error |-> last_dos_error]}
               ELSE UNION {Searched(FirstSigned(p), p) : p \in Probes}

(* fnctl_find_drive_for_unit(): nothing is cached. *)
UnitAnswers(u) == UNION {LET hits == {d \in Drives : p[d] = "signed" /\ letters[d] = u}
                         IN  Searched(IF hits = {} THEN 0 ELSE Min(hits), p) : p \in Probes}

Return(ret, exchanged) == called' = Call(ret, exchanged)
Returned(d) == IF d = 0 THEN 0 ELSE 1

FindDrive == /\ \E a \in FindAnswers : /\ cached_drive' = a.drive /\ last_dos_error' = a.error
                                       /\ Return(Returned(a.drive), cached_drive = 0)
             /\ UNCHANGED <<letters, driver, known>>

FindDriveForUnit(u) ==
  /\ \E a \in UnitAnswers(u) : last_dos_error' = a.error /\ Return(Returned(a.drive), TRUE)
  /\ UNCHANGED <<letters, driver, cached_drive, known>>

(* A call that needs a drive and does not find one. *)
NoDrive == /\ \E a \in FindAnswers : a.drive = 0 /\ last_dos_error' = a.error
           /\ Return(0, TRUE)
           /\ UNCHANGED <<letters, driver, cached_drive, known>>

(* One that finds d, and whose IOCTL then ends with outcome. *)
Found == {a.drive : a \in FindAnswers} \ {0}
Reaches(d, outcome) == /\ cached_drive' = d /\ UNCHANGED letters
                       /\ last_dos_error' \in ErrorOf(outcome)

(* A read succeeds if its answer is signed; its caller then knows the answer. *)
Read(outcome, learn) ==
  /\ UNCHANGED driver
  /\ Return(IF outcome = "signed" THEN 1 ELSE 0, TRUE)
  /\ known' = IF outcome = "signed" THEN learn ELSE known

GetState == \/ NoDrive
            \/ \E d \in Found : \E outcome \in Outcomes(d) :
                 /\ Reaches(d, outcome)
                 /\ Read(outcome, [known EXCEPT !.state = state])

GetUnitSlot(u) == \/ NoDrive
                  \/ \E d \in Found : \E outcome \in Outcomes(d) :
                       /\ Reaches(d, outcome)
                       /\ Read(outcome, [known EXCEPT !.map[u] = unit_map[u]])

(* An IOCTL write succeeds if it ends without an error, whoever took it. *)
SetUnitSlot(u, s) ==
  \/ NoDrive
  \/ \E d \in Found : \E outcome \in Outcomes(d) :
       /\ Reaches(d, outcome)
       /\ Return(IF outcome = "error" THEN 0 ELSE 1, TRUE)
       /\ known' = [known EXCEPT !.map[u] = IF outcome = "error" THEN Unknown ELSE s]
       /\ unit_map' \in CASE outcome = "signed" -> {[unit_map EXCEPT ![u] = s]}
                          [] outcome = "unsigned" -> {unit_map}
                          [] OTHER -> {unit_map, [unit_map EXCEPT ![u] = s]}
       /\ UNCHANGED state

(* The backend passes any unit and slot on; FUJINET.SYS refuses one it does not
   have, and a program that wanted to set a slot is in doubt of its unit. *)
RefusedUnitSlot == /\ \E d \in Found : Reaches(d, "error")
                   /\ Return(0, TRUE) /\ UNCHANGED driver
                   /\ known' \in {known} \cup {[known EXCEPT !.map[u] = Unknown] : u \in Units}

(* fn_raw_call() fails and leaves what fn_msdos_ioctl_last_error() says, or the
   call is answered; no drive is looked for. *)
NioCallFails == last_dos_error' \in DosErrors \cup {0}
(* A slip: an error is not cleared by the call that succeeds after it. *)
StickyNioCallAnswered == UNCHANGED last_dos_error
NioCallAnswered == last_dos_error' = 0

(* A call for some other device, or one too long to send, which is refused with
   the error of an earlier call left in place. *)
NioCall == /\ \/ NioCallFails /\ Return(0, TRUE)
              \/ NioCallAnswered /\ Return(1, TRUE)
              \/ UNCHANGED last_dos_error /\ Return(0, FALSE)
           /\ UNCHANGED <<letters, driver, cached_drive, known>>

(* A slip: a call that is answered is taken for one that was carried out. *)
OptimisticSetState(s) ==
  /\ \/ /\ NioCallFails /\ Return(0, TRUE)
        /\ state' \in {state, s} /\ known' = [known EXCEPT !.state = Unknown]
     \/ /\ NioCallAnswered /\ Return(1, TRUE)
        /\ state' \in {state, s} /\ known' = [known EXCEPT !.state = s]
     \/ /\ UNCHANGED last_dos_error /\ Return(0, FALSE)
        /\ UNCHANGED <<state, known>>
  /\ UNCHANGED <<letters, unit_map, cached_drive>>

(* fnctl_set_state(): too long, lost, refused with a status, or done. *)
SetState(s) ==
  /\ \/ /\ NioCallFails /\ Return(0, TRUE)
        /\ state' \in {state, s} /\ known' = [known EXCEPT !.state = Unknown]
     \/ /\ NioCallAnswered /\ Return(0, TRUE)
        /\ UNCHANGED <<state, known>>
     \/ /\ NioCallAnswered /\ Return(1, TRUE)
        /\ state' = s /\ known' = [known EXCEPT !.state = s]
     \/ /\ UNCHANGED last_dos_error /\ Return(0, FALSE)
        /\ UNCHANGED <<state, known>>
  /\ UNCHANGED <<letters, unit_map, cached_drive>>

(* A program ends and another starts. *)
NextProgram == /\ cached_drive' = 0 /\ last_dos_error' = 0 /\ called' = NoCall
               /\ UNCHANGED <<letters, driver, known>>

DosNext == \/ FindDrive \/ GetState \/ NioCall \/ NextProgram \/ RefusedUnitSlot
           \/ \E s \in States : SetState(s)
           \/ \E u \in Units \cup {MaxUnits} : FindDriveForUnit(u)
           \/ \E u \in Units : \/ GetUnitSlot(u)
                               \/ \E s \in Units : SetUnitSlot(u, s)

-----------------------------------------------------------------------------
(* Properties. *)

(* Every variable has its type, and the drive kept is one of FUJINET.SYS. *)
DosTypeOK ==
  /\ letters \in Lettering
  /\ state \in States \cup {NoState} /\ unit_map \in [Units -> Units]
  /\ cached_drive \in {0} \cup Drives /\ last_dos_error \in {0} \cup DosErrors
  /\ cached_drive # 0 => letters[cached_drive] \in Units
  /\ called.ret \in {0, 1} /\ called.exchanged \in BOOLEAN
  /\ known.state \in States \cup {NoState, Unknown}
  /\ known.map \in [Units -> Units \cup {Unknown}]

(* Programs that believe a success, take a status for no change and any other
   failure of a write for doubt, are never wrong about the state or the map:
   neither a write that was lost, nor another driver that accepts a write it
   does not understand, is reported as done. *)
DosKnowledge == /\ known.state # Unknown => state = known.state
                /\ \A u \in Units : known.map[u] # Unknown => unit_map[u] = known.map[u]

(* fnctl_last_dos_error() after a call that reached the driver: none if the
   call succeeded, and one only if it failed.  What it says after a call that
   sent nothing is about an earlier one. *)
DosErrorTold == called.exchanged /\ last_dos_error # 0 => called.ret = 0
=============================================================================

------------------------------ MODULE MsDosProofs ------------------------------
(***************************************************************************)
(* The safety properties of the MS-DOS backend and of the two NIO tools,   *)
(* for any lettering of the drives, any number of units and any replies.   *)
(***************************************************************************)
EXTENDS MsDos, WellFoundedInduction, TLAPS

-----------------------------------------------------------------------------
(* Looking for a drive. *)

(* Min, of FiniteSetsExt, is a member of the set it is taken of. *)
LEMMA MinMember == ASSUME NEW s \in SUBSET Nat, s # {} PROVE Min(s) \in s
<1> DEFINE R == OpToRel(<, Nat)
<1>1. IsWellFoundedOn(R, Nat)
  BY NatLessThanWellFounded
<1>2. \A x, y \in Nat : y < x => <<y, x>> \in R
  BY DEF OpToRel
<1> HIDE DEF R
<1>3. PICK x \in s : \A y \in s : ~(<<y, x>> \in R)
  BY <1>1, WFMin
<1>4. ASSUME NEW y \in s PROVE x <= y
  <2>1. x \in Nat /\ y \in Nat
    OBVIOUS
  <2>2. ~(y < x)
    BY <1>2, <1>3, <2>1
  <2> QED BY <2>1, <2>2
<1> QED BY <1>4 DEF Min

LEMMA DosBasics ==
  /\ Drives \subseteq Nat /\ LastDrive \in Drives /\ 0 \notin Drives
  /\ Units \subseteq Nat /\ None \notin Units /\ Foreign \notin Units
  /\ 0 \notin DosErrors
  /\ NoState \notin States /\ Unknown \notin States /\ Unknown # NoState /\ Unknown \notin Units
<1>1. /\ FirstDrive \in Nat /\ FirstDrive # 0 /\ LastDrive \in Nat /\ FirstDrive <= LastDrive
      /\ None \notin Nat /\ Foreign \notin Nat /\ Unknown \notin Nat
      /\ NoState \notin States /\ Unknown \notin States /\ Unknown # NoState
  BY DosAssumption DEF DosAssumption
<1>2. 0 \notin DosErrors
  BY DosAssumption DEF DosAssumption
<1>3. Drives \subseteq Nat /\ LastDrive \in Drives /\ 0 \notin Drives
  BY <1>1 DEF Drives
<1>4. MaxUnits \in Nat
  BY DosAssumption DEF DosAssumption
<1>5. Units \subseteq Nat
  BY <1>4 DEF Units
<1> QED BY <1>1, <1>2, <1>3, <1>5

(* A drive that is found, now or by an earlier call, is FUJINET.SYS's; a search
   that finds one ends without an error. *)
LEMMA SignedDrive ==
  ASSUME NEW p \in Probes, NEW d \in Drives, p[d] = "signed"
  PROVE  letters[d] \in Units
<1>1. "signed" \in Outcomes(d)
  BY DEF Probes
<1> QED BY <1>1, DosBasics DEF Outcomes

LEMMA SearchFound ==
  ASSUME NEW p \in Probes, NEW hits \in SUBSET Drives, \A d \in hits : p[d] = "signed",
         NEW a \in Searched(IF hits = {} THEN 0 ELSE Min(hits), p)
  PROVE  /\ a.drive \in {0} \cup Drives /\ a.error \in {0} \cup DosErrors
         /\ a.drive # 0 => letters[a.drive] \in Units /\ a.error = 0
<1> DEFINE d == IF hits = {} THEN 0 ELSE Min(hits)
<1>1. hits # {} => Min(hits) \in hits
  BY MinMember, DosBasics
<1>2. d \in {0} \cup Drives /\ (d # 0 => d \in hits)
  BY <1>1, DosBasics
<1>3. PICK e \in ErrorOf(p[IF d = 0 THEN LastDrive ELSE d]) : a = [drive |-> d, error |-> e]
  BY DEF Searched
<1> HIDE DEF d
<1>4. e \in {0} \cup DosErrors /\ (d # 0 => e = 0)
  BY <1>2, <1>3 DEF ErrorOf
<1>5. d # 0 => letters[d] \in Units
  BY <1>2, SignedDrive
<1> QED BY <1>2, <1>3, <1>4, <1>5

LEMMA DriveFound ==
  ASSUME DosTypeOK, NEW a \in FindAnswers
  PROVE  /\ a.drive \in {0} \cup Drives /\ a.error \in {0} \cup DosErrors
         /\ a.drive # 0 => letters[a.drive] \in Units
         /\ a.drive # 0 /\ cached_drive = 0 => a.error = 0
         /\ cached_drive # 0 => a.drive = cached_drive
<1>1. CASE cached_drive # 0
  BY <1>1 DEF FindAnswers, DosTypeOK
<1>2. CASE cached_drive = 0
  <2>1. PICK p \in Probes : a \in Searched(FirstSigned(p), p)
    BY <1>2 DEF FindAnswers
  <2> DEFINE hits == {d \in Drives : p[d] = "signed"}
  <2>2. a \in Searched(IF hits = {} THEN 0 ELSE Min(hits), p)
    BY <2>1 DEF FirstSigned
  <2>3. hits \in SUBSET Drives /\ \A d \in hits : p[d] = "signed"
    OBVIOUS
  <2> HIDE DEF hits
  <2> QED BY <1>2, <2>2, <2>3, SearchFound
<1> QED BY <1>1, <1>2

LEMMA UnitDriveFound ==
  ASSUME NEW u, NEW a \in UnitAnswers(u)
  PROVE  a.drive \in {0} \cup Drives /\ a.error \in {0} \cup DosErrors /\ (a.drive # 0 => a.error = 0)
<1>1. PICK p \in Probes : LET hits == {d \in Drives : p[d] = "signed" /\ letters[d] = u}
                          IN  a \in Searched(IF hits = {} THEN 0 ELSE Min(hits), p)
  BY DEF UnitAnswers
<1> DEFINE hits == {d \in Drives : p[d] = "signed" /\ letters[d] = u}
<1>2. hits \in SUBSET Drives /\ \A d \in hits : p[d] = "signed"
  OBVIOUS
<1>3. a \in Searched(IF hits = {} THEN 0 ELSE Min(hits), p)
  BY <1>1
<1> HIDE DEF hits
<1> QED BY <1>2, <1>3, SearchFound

LEMMA FoundDrive == ASSUME DosTypeOK, NEW d \in Found PROVE d \in Drives /\ letters[d] \in Units
BY DriveFound DEF Found

(* How an IOCTL to it can end: no other driver takes it. *)
LEMMA FoundOutcomes ==
  ASSUME DosTypeOK, NEW d \in Found, NEW outcome \in Outcomes(d)
  PROVE  outcome \in {"error", "signed"}
BY FoundDrive, DosBasics DEF Outcomes

-----------------------------------------------------------------------------
(* The properties of the backend are inductive as they stand, but for the type
   of the record that says what is known. *)

KnownType == DOMAIN known = {"state", "map"}

DosIInv == DosTypeOK /\ KnownType /\ DosKnowledge /\ DosErrorTold

LEMMA InitDos == DosInit => DosIInv
<1> SUFFICES ASSUME DosInit PROVE DosIInv
  OBVIOUS
<1> USE DosBasics DEF DosInit, NoCall, Call
<1>1. DosTypeOK /\ KnownType
  BY DEF DosTypeOK, KnownType
<1>2. DosKnowledge
  BY DEF DosKnowledge
<1>3. DosErrorTold
  BY DEF DosErrorTold
<1> QED BY <1>1, <1>2, <1>3 DEF DosIInv

(* A step that leaves what is known and what FUJINET.SYS keeps alone. *)
LEMMA QuietStep ==
  ASSUME DosIInv, UNCHANGED <<letters, driver, known>>,
         cached_drive' \in {0} \cup Drives, last_dos_error' \in {0} \cup DosErrors,
         cached_drive' # 0 => letters[cached_drive'] \in Units,
         NEW ret \in {0, 1}, NEW exchanged \in BOOLEAN, called' = Call(ret, exchanged),
         exchanged /\ last_dos_error' # 0 => ret = 0
  PROVE  DosIInv'
<1>1. UNCHANGED <<letters, state, unit_map, known>>
  BY DEF driver
<1>2. called'.ret = ret /\ called'.exchanged = exchanged
  BY DEF Call
<1>3. DosTypeOK'
  BY <1>1, <1>2 DEF DosIInv, DosTypeOK
<1>4. DosKnowledge' /\ KnownType'
  BY <1>1 DEF DosIInv, DosKnowledge, KnownType
<1>5. DosErrorTold'
  BY <1>2 DEF DosErrorTold
<1> QED BY <1>3, <1>4, <1>5 DEF DosIInv

LEMMA FindDriveStep == ASSUME DosIInv, FindDrive PROVE DosIInv'
<1>1. DosTypeOK /\ last_dos_error \in {0} \cup DosErrors
  BY DEF DosIInv, DosTypeOK
<1>2. PICK a \in FindAnswers :
        /\ cached_drive' = a.drive /\ last_dos_error' = a.error
        /\ called' = Call(Returned(a.drive), cached_drive = 0)
  BY DEF FindDrive, Return
<1>3. Returned(a.drive) \in {0, 1} /\ (Returned(a.drive) = 0 <=> a.drive = 0)
  BY DEF Returned
<1>4. /\ a.drive \in {0} \cup Drives /\ a.error \in {0} \cup DosErrors
      /\ a.drive # 0 => letters[a.drive] \in Units
      /\ a.drive # 0 /\ cached_drive = 0 => a.error = 0
  BY <1>1, DriveFound
<1>5. (cached_drive = 0) \in BOOLEAN
  OBVIOUS
<1>6. UNCHANGED <<letters, driver, known>>
  BY DEF FindDrive
<1>7. (cached_drive = 0) /\ last_dos_error' # 0 => Returned(a.drive) = 0
  BY <1>2, <1>3, <1>4
<1> QED BY <1>2, <1>3, <1>4, <1>5, <1>6, <1>7, QuietStep

LEMMA FindForUnitStep ==
  ASSUME DosIInv, NEW u, FindDriveForUnit(u) PROVE DosIInv'
<1>1. PICK a \in UnitAnswers(u) :
        last_dos_error' = a.error /\ called' = Call(Returned(a.drive), TRUE)
  BY DEF FindDriveForUnit, Return
<1>2. /\ UNCHANGED <<letters, driver, known>> /\ cached_drive' = cached_drive
      /\ cached_drive \in {0} \cup Drives /\ (cached_drive # 0 => letters[cached_drive] \in Units)
  BY DEF FindDriveForUnit, DosIInv, DosTypeOK
<1>3. Returned(a.drive) \in {0, 1} /\ (Returned(a.drive) = 0 <=> a.drive = 0)
  BY DEF Returned
<1>4. a.error \in {0} \cup DosErrors /\ (a.drive # 0 => a.error = 0)
  BY UnitDriveFound
<1> QED BY <1>1, <1>2, <1>3, <1>4, QuietStep

LEMMA NoDriveStep == ASSUME DosIInv, NoDrive PROVE DosIInv'
<1>1. PICK a \in FindAnswers : a.drive = 0 /\ last_dos_error' = a.error
  BY DEF NoDrive
<1>2. /\ UNCHANGED <<letters, driver, known>> /\ cached_drive' = cached_drive
      /\ cached_drive \in {0} \cup Drives /\ (cached_drive # 0 => letters[cached_drive] \in Units)
      /\ called' = Call(0, TRUE) /\ DosTypeOK
  BY DEF NoDrive, Return, DosIInv, DosTypeOK
<1>3. a.error \in {0} \cup DosErrors
  BY <1>2, DriveFound
<1> QED BY <1>1, <1>2, <1>3, QuietStep

(* An IOCTL to a drive that was found. *)
LEMMA ReachStep ==
  ASSUME DosIInv, NEW d \in Found, NEW outcome \in Outcomes(d), Reaches(d, outcome)
  PROVE  /\ outcome \in {"error", "signed"} /\ letters' = letters
         /\ cached_drive' \in Drives /\ letters[cached_drive'] \in Units
         /\ last_dos_error' \in {0} \cup DosErrors
         /\ outcome = "signed" => last_dos_error' = 0
<1>1. DosTypeOK
  BY DEF DosIInv
<1>2. outcome \in {"error", "signed"} /\ d \in Drives /\ letters[d] \in Units
  BY <1>1, FoundDrive, FoundOutcomes
<1> QED BY <1>2 DEF Reaches, ErrorOf

(* A step that changes what is known or what FUJINET.SYS keeps. *)
LEMMA LearnStep ==
  ASSUME DosIInv, letters' = letters,
         cached_drive' \in {0} \cup Drives, last_dos_error' \in {0} \cup DosErrors,
         cached_drive' # 0 => letters[cached_drive'] \in Units,
         NEW ret \in {0, 1}, called' = Call(ret, TRUE),
         last_dos_error' # 0 => ret = 0,
         state' \in States \cup {NoState}, unit_map' \in [Units -> Units],
         known'.state \in States \cup {NoState, Unknown},
         known'.map \in [Units -> Units \cup {Unknown}],
         KnownType', DosKnowledge'
  PROVE  DosIInv'
<1>1. called'.ret = ret /\ called'.exchanged = TRUE
  BY DEF Call
<1>2. DosTypeOK'
  BY <1>1 DEF DosIInv, DosTypeOK
<1>3. DosErrorTold'
  BY <1>1 DEF DosErrorTold
<1> QED BY <1>2, <1>3 DEF DosIInv
(* What a program learns of the state, or of one unit. *)
LEMMA KnownUpdate ==
  ASSUME KnownType, NEW x
  PROVE  /\ [known EXCEPT !.state = x].state = x /\ [known EXCEPT !.state = x].map = known.map
         /\ DOMAIN [known EXCEPT !.state = x] = {"state", "map"}
         /\ \A u : /\ [known EXCEPT !.map[u] = x].map = [known.map EXCEPT ![u] = x]
                  /\ [known EXCEPT !.map[u] = x].state = known.state
                  /\ DOMAIN [known EXCEPT !.map[u] = x] = {"state", "map"}
BY DEF KnownType

LEMMA GetStateStep == ASSUME DosIInv, GetState PROVE DosIInv'
<1>1. CASE NoDrive
  BY <1>1, NoDriveStep
<1>2. ASSUME NEW d \in Found, NEW outcome \in Outcomes(d), Reaches(d, outcome),
             Read(outcome, [known EXCEPT !.state = state])
      PROVE  DosIInv'
  <2>1. /\ outcome \in {"error", "signed"} /\ letters' = letters
        /\ cached_drive' \in Drives /\ letters[cached_drive'] \in Units
        /\ last_dos_error' \in {0} \cup DosErrors /\ (outcome = "signed" => last_dos_error' = 0)
    BY <1>2, ReachStep
  <2>2. UNCHANGED driver
    BY <1>2 DEF Read
  <2>3. CASE outcome = "error"
    <3>1. known' = known /\ called' = Call(0, TRUE)
      BY <1>2, <2>3 DEF Read, Return
    <3> QED BY <2>1, <2>2, <3>1, QuietStep
  <2>4. CASE outcome = "signed"
    <3>1. /\ known' = [known EXCEPT !.state = state] /\ called' = Call(1, TRUE)
          /\ state' = state /\ unit_map' = unit_map
      BY <1>2, <2>2, <2>4 DEF Read, Return, driver
    <3>2. KnownType /\ DosTypeOK /\ DosKnowledge
      BY DEF DosIInv
    <3>3. known'.state = state /\ known'.map = known.map /\ DOMAIN known' = {"state", "map"}
      BY <3>1, <3>2, KnownUpdate
    <3>4. KnownType' /\ DosKnowledge'
      BY <3>1, <3>2, <3>3 DEF KnownType, DosKnowledge
    <3>5. /\ state' \in States \cup {NoState} /\ unit_map' \in [Units -> Units]
          /\ known'.state \in States \cup {NoState, Unknown}
          /\ known'.map \in [Units -> Units \cup {Unknown}]
      BY <3>1, <3>2, <3>3 DEF DosTypeOK
    <3>6. last_dos_error' = 0
      BY <2>1, <2>4
    <3> QED BY <2>1, <3>1, <3>4, <3>5, <3>6, LearnStep
  <2> QED BY <2>1, <2>3, <2>4
<1> QED BY <1>1, <1>2 DEF GetState

LEMMA GetUnitSlotStep == ASSUME DosIInv, NEW u \in Units, GetUnitSlot(u) PROVE DosIInv'
<1>1. CASE NoDrive
  BY <1>1, NoDriveStep
<1>2. ASSUME NEW d \in Found, NEW outcome \in Outcomes(d), Reaches(d, outcome),
             Read(outcome, [known EXCEPT !.map[u] = unit_map[u]])
      PROVE  DosIInv'
  <2>1. /\ outcome \in {"error", "signed"} /\ letters' = letters
        /\ cached_drive' \in Drives /\ letters[cached_drive'] \in Units
        /\ last_dos_error' \in {0} \cup DosErrors /\ (outcome = "signed" => last_dos_error' = 0)
    BY <1>2, ReachStep
  <2>2. UNCHANGED driver
    BY <1>2 DEF Read
  <2>3. CASE outcome = "error"
    <3>1. known' = known /\ called' = Call(0, TRUE)
      BY <1>2, <2>3 DEF Read, Return
    <3> QED BY <2>1, <2>2, <3>1, QuietStep
  <2>4. CASE outcome = "signed"
    <3>1. /\ known' = [known EXCEPT !.map[u] = unit_map[u]] /\ called' = Call(1, TRUE)
          /\ state' = state /\ unit_map' = unit_map
      BY <1>2, <2>2, <2>4 DEF Read, Return, driver
    <3>2. KnownType /\ DosTypeOK /\ DosKnowledge
      BY DEF DosIInv
    <3>3. /\ known'.state = known.state /\ known'.map = [known.map EXCEPT ![u] = unit_map[u]]
          /\ DOMAIN known' = {"state", "map"}
      BY <3>1, <3>2, KnownUpdate
    <3>4. KnownType' /\ DosKnowledge'
      BY <3>1, <3>2, <3>3 DEF KnownType, DosKnowledge, DosTypeOK
    <3>5. /\ state' \in States \cup {NoState} /\ unit_map' \in [Units -> Units]
          /\ known'.state \in States \cup {NoState, Unknown}
          /\ known'.map \in [Units -> Units \cup {Unknown}]
      BY <3>1, <3>2, <3>3 DEF DosTypeOK
    <3>6. last_dos_error' = 0
      BY <2>1, <2>4
    <3> QED BY <2>1, <3>1, <3>4, <3>5, <3>6, LearnStep
  <2> QED BY <2>1, <2>3, <2>4
<1> QED BY <1>1, <1>2 DEF GetUnitSlot

LEMMA SetUnitSlotStep ==
  ASSUME DosIInv, NEW u \in Units, NEW s \in Units, SetUnitSlot(u, s) PROVE DosIInv'
<1>1. CASE NoDrive
  BY <1>1, NoDriveStep
<1>2. ASSUME ~NoDrive PROVE DosIInv'
  <2> DEFINE Took(d, outcome) ==
          /\ Reaches(d, outcome)
          /\ Return(IF outcome = "error" THEN 0 ELSE 1, TRUE)
          /\ known' = [known EXCEPT !.map[u] = IF outcome = "error" THEN Unknown ELSE s]
          /\ unit_map' \in CASE outcome = "signed" -> {[unit_map EXCEPT ![u] = s]}
                             [] outcome = "unsigned" -> {unit_map}
                             [] OTHER -> {unit_map, [unit_map EXCEPT ![u] = s]}
          /\ UNCHANGED state
  <2>0. \E d \in Found : \E outcome \in Outcomes(d) : Took(d, outcome)
    BY <1>2 DEF SetUnitSlot
  <2> PICK d \in Found : \E outcome \in Outcomes(d) : Took(d, outcome)
    BY <2>0
  <2>1. PICK outcome \in Outcomes(d) : Took(d, outcome)
    OBVIOUS
  <2>2. /\ outcome \in {"error", "signed"} /\ letters' = letters
        /\ cached_drive' \in Drives /\ letters[cached_drive'] \in Units
        /\ last_dos_error' \in {0} \cup DosErrors /\ (outcome = "signed" => last_dos_error' = 0)
    BY <2>1, ReachStep
  <2> DEFINE new == IF outcome = "error" THEN Unknown ELSE s
             ret == IF outcome = "error" THEN 0 ELSE 1
  <2>3. KnownType /\ DosTypeOK /\ DosKnowledge
    BY DEF DosIInv
  <2>4. /\ known'.state = known.state /\ known'.map = [known.map EXCEPT ![u] = new]
        /\ DOMAIN known' = {"state", "map"}
    BY <2>1, <2>3, KnownUpdate
  <2>5. /\ unit_map' = unit_map \/ unit_map' = [unit_map EXCEPT ![u] = s]
        /\ outcome = "signed" => unit_map' = [unit_map EXCEPT ![u] = s]
    BY <2>1, <2>2
  <2>6. /\ state' \in States \cup {NoState} /\ unit_map' \in [Units -> Units]
        /\ known'.state \in States \cup {NoState, Unknown}
        /\ known'.map \in [Units -> Units \cup {Unknown}]
    BY <2>1, <2>3, <2>4, <2>5 DEF DosTypeOK
  <2>7. ASSUME NEW w \in Units, known'.map[w] # Unknown PROVE unit_map'[w] = known'.map[w]
    BY <2>2, <2>3, <2>4, <2>5, <2>7 DEF DosTypeOK, DosKnowledge
  <2>8. KnownType' /\ DosKnowledge'
    BY <2>1, <2>3, <2>4, <2>7 DEF KnownType, DosKnowledge
  <2>9. ret \in {0, 1} /\ called' = Call(ret, TRUE) /\ (last_dos_error' # 0 => ret = 0)
    BY <2>1, <2>2 DEF Return
  <2> HIDE DEF new, ret
  <2> QED BY <2>2, <2>6, <2>8, <2>9, LearnStep
<1> QED BY <1>1, <1>2

LEMMA RefusedStep == ASSUME DosIInv, RefusedUnitSlot PROVE DosIInv'
<1>1. KnownType /\ DosTypeOK /\ DosKnowledge
  BY DEF DosIInv
<1>2. PICK d \in Found : Reaches(d, "error")
  BY DEF RefusedUnitSlot
<1>3. d \in Drives /\ letters[d] \in Units
  BY <1>1, FoundDrive
<1>4. /\ letters' = letters /\ cached_drive' \in Drives /\ letters[cached_drive'] \in Units
      /\ last_dos_error' \in {0} \cup DosErrors
  BY <1>2, <1>3 DEF Reaches, ErrorOf
<1>5. UNCHANGED driver /\ state' = state /\ unit_map' = unit_map /\ called' = Call(0, TRUE)
  BY DEF RefusedUnitSlot, Return, driver
<1>6. CASE known' = known
  BY <1>4, <1>5, <1>6, QuietStep
<1>7. ASSUME NEW u \in Units, known' = [known EXCEPT !.map[u] = Unknown] PROVE DosIInv'
  <2>1. /\ known'.state = known.state /\ known'.map = [known.map EXCEPT ![u] = Unknown]
        /\ DOMAIN known' = {"state", "map"}
    BY <1>1, <1>7, KnownUpdate
  <2>2. KnownType' /\ DosKnowledge'
    BY <1>1, <1>5, <2>1 DEF KnownType, DosKnowledge, DosTypeOK
  <2>3. /\ state' \in States \cup {NoState} /\ unit_map' \in [Units -> Units]
        /\ known'.state \in States \cup {NoState, Unknown}
        /\ known'.map \in [Units -> Units \cup {Unknown}]
    BY <1>1, <1>5, <2>1 DEF DosTypeOK
  <2> QED BY <1>4, <1>5, <2>2, <2>3, LearnStep
<1> QED BY <1>6, <1>7 DEF RefusedUnitSlot

LEMMA NioCallStep == ASSUME DosIInv, NioCall PROVE DosIInv'
<1>1. /\ UNCHANGED <<letters, driver, known>> /\ cached_drive' = cached_drive
      /\ cached_drive \in {0} \cup Drives /\ (cached_drive # 0 => letters[cached_drive] \in Units)
  BY DEF NioCall, DosIInv, DosTypeOK
<1>2. CASE NioCallFails /\ called' = Call(0, TRUE)
  BY <1>1, <1>2, QuietStep DEF NioCallFails
<1>3. CASE NioCallAnswered /\ called' = Call(1, TRUE)
  BY <1>1, <1>3, QuietStep DEF NioCallAnswered
<1>4. CASE last_dos_error' = last_dos_error /\ called' = Call(0, FALSE)
  <2>1. last_dos_error \in {0} \cup DosErrors
    BY DEF DosIInv, DosTypeOK
  <2> QED BY <1>1, <1>4, <2>1, QuietStep
<1> QED BY <1>2, <1>3, <1>4 DEF NioCall, Return

LEMMA SetStateStep == ASSUME DosIInv, NEW s \in States, SetState(s) PROVE DosIInv'
<1>1. KnownType /\ DosTypeOK /\ DosKnowledge
  BY DEF DosIInv
<1>2. /\ UNCHANGED <<letters, unit_map, cached_drive>>
      /\ cached_drive' \in {0} \cup Drives /\ (cached_drive' # 0 => letters[cached_drive'] \in Units)
      /\ unit_map' \in [Units -> Units] /\ known.map \in [Units -> Units \cup {Unknown}]
      /\ last_dos_error \in {0} \cup DosErrors
  BY <1>1 DEF SetState, DosTypeOK
<1>3. ASSUME NEW ret \in {0, 1}, called' = Call(ret, TRUE),
             last_dos_error' \in {0} \cup DosErrors, last_dos_error' # 0 => ret = 0,
             NEW k \in {Unknown, s}, known' = [known EXCEPT !.state = k],
             state' \in {state, s}, k = s => state' = s
      PROVE  DosIInv'
  <2>1. known'.state = k /\ known'.map = known.map /\ DOMAIN known' = {"state", "map"}
    BY <1>1, <1>3, KnownUpdate
  <2>2. KnownType' /\ DosKnowledge'
    BY <1>1, <1>2, <1>3, <2>1 DEF KnownType, DosKnowledge
  <2>3. /\ state' \in States \cup {NoState} /\ known'.state \in States \cup {NoState, Unknown}
        /\ known'.map \in [Units -> Units \cup {Unknown}]
    BY <1>1, <1>2, <1>3, <2>1 DEF DosTypeOK
  <2> QED BY <1>2, <1>3, <2>2, <2>3, LearnStep
<1>4. ASSUME UNCHANGED <<state, known>>, last_dos_error' \in {0} \cup DosErrors,
             NEW exchanged \in BOOLEAN, called' = Call(0, exchanged)
      PROVE  DosIInv'
  <2>1. UNCHANGED <<letters, driver, known>>
    BY <1>2, <1>4 DEF driver
  <2> QED BY <1>2, <1>4, <2>1, QuietStep
<1>5. \/ /\ last_dos_error' \in DosErrors \cup {0} /\ called' = Call(0, TRUE)
         /\ state' \in {state, s} /\ known' = [known EXCEPT !.state = Unknown]
      \/ /\ last_dos_error' = 0 /\ called' = Call(0, TRUE) /\ UNCHANGED <<state, known>>
      \/ /\ last_dos_error' = 0 /\ called' = Call(1, TRUE)
         /\ state' = s /\ known' = [known EXCEPT !.state = s]
      \/ /\ last_dos_error' = last_dos_error /\ called' = Call(0, FALSE) /\ UNCHANGED <<state, known>>
  BY DEF SetState, NioCallFails, NioCallAnswered, Return
<1>6. s # Unknown
  BY DosBasics
<1> QED BY <1>2, <1>3, <1>4, <1>5, <1>6

LEMMA NextProgramStep == ASSUME DosIInv, NextProgram PROVE DosIInv'
<1>1. UNCHANGED <<letters, driver, known>> /\ cached_drive' = 0 /\ last_dos_error' = 0
  BY DEF NextProgram
<1>2. called' = Call(1, FALSE)
  BY DEF NextProgram, NoCall
<1> QED BY <1>1, <1>2, QuietStep

LEMMA DosStep == ASSUME DosIInv, DosNext PROVE DosIInv'
BY FindDriveStep, GetStateStep, NioCallStep, NextProgramStep, SetStateStep, FindForUnitStep,
   GetUnitSlotStep, SetUnitSlotStep, RefusedStep DEF DosNext

-----------------------------------------------------------------------------
(* The tools. *)

(* The 16-bit sum is the sum itself when the data fits the caller's buffer. *)
LEMMA SectorInside ==
  ASSUME NEW n \in Nat, NEW d \in Nat, NEW b \in Nat, b <= RespSize, d <= b, n >= (11 + d) % U16
  PROVE  11 + d <= n /\ d <= RespSize
BY DEF RespSize, U16

LEMMA ReplyType ==
  ASSUME NEW cap, NEW r \in Replies(cap)
  PROVE  r.len \in Nat /\ r.data_len \in Nat
<1>1. PICK s \in Statuses, n \in ReplyLens \cap 0..cap, v \in {NioVersion, 2}, d \in DataLens :
        r = [status |-> s, len |-> n, version |-> v, data_len |-> d]
  BY DEF Replies
<1>2. n \in Nat /\ d \in Nat
  BY <1>1, NioAssumption DEF NioAssumption
<1> QED BY <1>1, <1>2

LEMMA ToolPrints ==
  ASSUME NEW t \in NioRuns, t.exit = 0 PROVE t.used <= t.len /\ t.printed <= RespSize
<1>1. CASE t \in NioProbe
  <2>1. ~\E x \in {1, 2} : t = Run("NIOPROBE", x, Silent, 0, 0, 0)
    BY DEF Run
  <2>2. ~\E e \in FnErrors : t = Failed("NIOPROBE", MapFnError(e))
    BY DEF Failed, Run
  <2>3. PICK r \in Replies(InfoSize) :
          t = IF InfoAccepted(r) THEN Run("NIOPROBE", 0, OkStatus, r.len, InfoUsed(r), 0)
                                 ELSE Failed("NIOPROBE", r.status)
    BY <1>1, <2>1, <2>2, Zenon DEF NioProbe
  <2>4. r.len \in Nat
    BY ReplyType
  <2>5. InfoAccepted(r)
    BY <2>3 DEF Failed, Run
  <2>6. t.used = InfoUsed(r) /\ t.len = r.len /\ t.printed = 0
    BY <2>3, <2>5 DEF Run
  <2> QED BY <2>4, <2>5, <2>6 DEF InfoUsed, InfoAccepted, RespSize
<1>2. CASE \E bytes \in BytesArgs : t \in NioRead(bytes)
  <2> PICK bytes \in BytesArgs : t \in NioRead(bytes)
    BY <1>2
  <2>1. bytes \in Nat
    BY NioAssumption DEF NioAssumption
  <2>2. CASE bytes = 0 \/ bytes > RespSize
    BY <2>2 DEF NioRead, Run
  <2>3. CASE ~(bytes = 0 \/ bytes > RespSize)
    <3>1. ~(t = Run("NIOREAD", 2, Silent, 0, 0, 0))
      BY DEF Run
    <3>2. ~\E e \in FnErrors : t = Failed("NIOREAD", MapFnError(e))
      BY DEF Failed, Run
    <3>3. PICK r \in Replies(RespSize) :
            t = IF ReadsSector(r, bytes)
                THEN Run("NIOREAD", 0, OkStatus, r.len, SectorUsed(r), r.data_len)
                ELSE Failed("NIOREAD", r.status)
      BY <2>3, <3>1, <3>2, Zenon DEF NioRead
    <3>4. r.len \in Nat /\ r.data_len \in Nat
      BY ReplyType
    <3>5. ReadsSector(r, bytes)
      BY <3>3 DEF Failed, Run
    <3>6. t.used = 11 + r.data_len /\ t.len = r.len /\ t.printed = r.data_len
      BY <3>3, <3>5 DEF Run, SectorUsed
    <3>7. bytes <= RespSize /\ r.data_len <= bytes /\ r.len >= (11 + r.data_len) % U16
      BY <2>1, <2>3, <3>5 DEF ReadsSector, RespSize
    <3> QED BY <2>1, <3>4, <3>6, <3>7, SectorInside
  <2> QED BY <2>2, <2>3
<1> QED BY <1>1, <1>2 DEF NioRuns

LEMMA ToolStep == ASSUME tool' = NotRun \/ RunTool PROVE PrintsReceived'
<1>1. CASE tool' = NotRun
  BY <1>1 DEF NotRun, Run, PrintsReceived, RespSize
<1>2. CASE RunTool
  BY <1>2, ToolPrints DEF RunTool, PrintsReceived
<1> QED BY <1>1, <1>2

-----------------------------------------------------------------------------
MsDosIInv == DosIInv /\ PrintsReceived

(* The properties below are kept by every program of the machine. *)
THEOREM MsDosInductive == MsDosSpec => []MsDosIInv
<1>1. MsDosInit => MsDosIInv
  <2> SUFFICES ASSUME MsDosInit PROVE MsDosIInv
    OBVIOUS
  <2>1. PrintsReceived
    BY DEF MsDosInit, NotRun, Run, PrintsReceived, RespSize
  <2> QED BY <2>1, InitDos DEF MsDosInit, MsDosIInv
<1>2. MsDosIInv /\ [MsDosNext]_msdosVars => MsDosIInv'
  <2> SUFFICES ASSUME MsDosIInv, [MsDosNext]_msdosVars PROVE MsDosIInv'
    OBVIOUS
  <2>1. CASE DosNext /\ tool' = NotRun
    BY <2>1, DosStep, ToolStep DEF MsDosIInv
  <2>2. CASE RunTool /\ NextProgram
    BY <2>2, NextProgramStep, ToolStep DEF MsDosIInv
  <2>3. CASE UNCHANGED msdosVars
    <3>1. UNCHANGED <<letters, state, unit_map, cached_drive, last_dos_error, called, known, tool>>
      BY <2>3 DEF msdosVars, dosVars, driver
    <3> QED BY <3>1, Zenon
            DEF MsDosIInv, DosIInv, DosTypeOK, KnownType, DosKnowledge, DosErrorTold, PrintsReceived
  <2> QED BY <2>1, <2>2, <2>3 DEF MsDosNext
<1> QED BY <1>1, <1>2, PTL DEF MsDosSpec

(* The drive fnctl_find_drive() keeps is always one of FUJINET.SYS: no other
   driver is ever sent an IOCTL write. *)
THEOREM DosTypeCorrect == MsDosSpec => []DosTypeOK
<1>1. MsDosIInv => DosTypeOK
  BY DEF MsDosIInv, DosIInv
<1> QED BY <1>1, MsDosInductive, PTL

(* What a program can conclude of the state and the map from the calls it made
   is never wrong. *)
THEOREM DosBelieved == MsDosSpec => []DosKnowledge
<1>1. MsDosIInv => DosKnowledge
  BY DEF MsDosIInv, DosIInv
<1> QED BY <1>1, MsDosInductive, PTL

(* fnctl_last_dos_error() tells of an error only after a call that failed. *)
THEOREM ErrorsTold == MsDosSpec => []DosErrorTold
<1>1. MsDosIInv => DosErrorTold
  BY DEF MsDosIInv, DosIInv
<1> QED BY <1>1, MsDosInductive, PTL

(* NIOREAD and NIOPROBE print only bytes they received, for any reply: no
   length that wraps the 16-bit sum passes both tests. *)
THEOREM ToolsPrintReceived == MsDosSpec => []PrintsReceived
<1>1. MsDosIInv => PrintsReceived
  BY DEF MsDosIInv
<1> QED BY <1>1, MsDosInductive, PTL
=============================================================================

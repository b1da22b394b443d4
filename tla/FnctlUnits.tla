----------------------------- MODULE FnctlUnits -----------------------------
(***************************************************************************)
(* The rest of the app-store backends: fnctl_get_unit_slot() and           *)
(* fnctl_set_unit_slot(), which keep the map from units to slots in one    *)
(* key per unit, and fnctl_nio_call() as far as it leaves an error behind. *)
(* Their programs make all five calls in any order; on the Amiga the first *)
(* of them, whichever it is, loads the copies.                             *)
(***************************************************************************)
EXTENDS FnctlState

CONSTANTS MaxUnits,      \* FNCTL_MAX_UNITS
          UnitArgs,      \* the units callers ask for
          RawResults,    \* what the transport may fail with
          Nobody         \* who set a slot, if that program is gone

ASSUME UnitsAssumption == /\ MaxUnits \in 1..10 /\ UnitArgs \subseteq Nat
                          /\ RawResults \subseteq 1..255 /\ Nobody \notin Apps

Units == 0..(MaxUnits - 1)
Unset == MaxUnits        \* a key that is not there, is empty, or is not read
NoUnit == MaxUnits
Identity == [u \in Units |-> u]

VARIABLES
  unit_map,    \* the keys in the app store: a slot, or Unset
  unit_slots,  \* Amiga: each program's copy, zero until state_initialized
  unit, slot,  \* per program: the arguments of the call, and then its answer
  last_error,  \* per program: what fnctl_last_dos_error() returns
  mapped       \* ghost: per unit, the slot and the program that set it, if that
               \*        has succeeded and nobody has written since

unitVars == <<unit_map, unit_slots, unit, slot, mapped>>
fnctlVars == <<stateVars, unitVars, last_error>>

(* unit_key() *)
UnitKey(u) == u % 10

FnctlInit == /\ StateInit
             /\ unit_map = [k \in {UnitKey(u) : u \in Units} |-> Unset]
             /\ unit_slots = [a \in Apps |-> [u \in Units |-> 0]]
             /\ unit = [a \in Apps |-> NoUnit] /\ slot = [a \in Apps |-> Unset]
             /\ last_error = [a \in Apps |-> 0]
             /\ mapped = [u \in Units |-> <<>>]

-----------------------------------------------------------------------------
(* A slip: the copies are not loaded first. *)
EagerBeginSlotCall(a, name, u, s) ==
  /\ pc[a] = "idle" /\ u \in Units
  /\ op' = [op EXCEPT ![a] = name]
  /\ unit' = [unit EXCEPT ![a] = u] /\ slot' = [slot EXCEPT ![a] = s]
  /\ expect' = [expect EXCEPT ![a] = <<>>]
  /\ Goto(a, "slot")
  /\ UNCHANGED <<Platform, store, arg, got, cache, writer, settled,
                 unit_map, unit_slots, mapped, last_error>>

(* The checks at the head of a call, and the Amiga's ensure_state() before the
   call's own exchange.  A unit or slot out of range is refused with nothing
   done, a stuttering step. *)
BeginSlotCall(a, name, u, s) ==
  /\ pc[a] = "idle" /\ u \in Units
  /\ op' = [op EXCEPT ![a] = name]
  /\ unit' = [unit EXCEPT ![a] = u] /\ slot' = [slot EXCEPT ![a] = s]
  /\ expect' = [expect EXCEPT ![a] = <<>>]
  /\ Goto(a, IF Platform.caches /\ cache[a] = NotCached THEN "readUri" ELSE "slot")
  /\ UNCHANGED <<Platform, store, arg, got, cache, writer, settled,
                 unit_map, unit_slots, mapped, last_error>>

GetUnitSlot(a, u) == BeginSlotCall(a, "getSlot", u, Unset)
SetUnitSlot(a, u, s) == BeginSlotCall(a, "setSlot", u, s)

(* ensure_state() ends with the identity map. *)
EnsureSlots(a) == unit_slots' = IF Platform.caches THEN [unit_slots EXCEPT ![a] = Identity]
                                                   ELSE unit_slots

(* What is answered when the key is not there, is empty or cannot be read. *)
Fallback(a, u) == IF Platform.caches THEN unit_slots[a][u] ELSE u

EndSlotCall(a) == /\ Goto(a, "idle") /\ unit' = [unit EXCEPT ![a] = NoUnit]
                  /\ UNCHANGED <<Platform, store, op, arg, got, cache, ghostVars, last_error>>

ReadSlot(a) ==
  /\ pc[a] = "slot" /\ op[a] = "getSlot"
  /\ \E found \in {unit_map[UnitKey(unit[a])], Unset} :
       slot' = [slot EXCEPT ![a] = IF found = Unset THEN Fallback(a, unit[a]) ELSE found]
  /\ EndSlotCall(a)
  /\ UNCHANGED <<unit_map, unit_slots, mapped>>

(* The Amiga's copy is changed before the write, which may fail with the old
   slot, the new one or an empty key left. *)
WriteSlot(a) ==
  /\ pc[a] = "slot" /\ op[a] = "setSlot"
  /\ unit_slots' = IF Platform.caches THEN [unit_slots EXCEPT ![a][unit[a]] = slot[a]]
                                      ELSE unit_slots
  /\ \/ /\ unit_map' = [unit_map EXCEPT ![UnitKey(unit[a])] = slot[a]]
        /\ mapped' = [mapped EXCEPT ![unit[a]] = <<slot[a], a>>]
     \/ /\ \E kept \in {unit_map[UnitKey(unit[a])], slot[a], Unset} :
             unit_map' = [unit_map EXCEPT ![UnitKey(unit[a])] = kept]
        /\ mapped' = [mapped EXCEPT ![unit[a]] = <<>>]
  /\ slot' = [slot EXCEPT ![a] = Unset]
  /\ EndSlotCall(a)

(* fnctl_nio_call(): a request or a reply that is too long is refused with the
   error left as it was, a stuttering step; no other call writes the error. *)
NioCall(a) == /\ pc[a] = "idle"
              /\ \E e \in {0} \cup RawResults : last_error' = [last_error EXCEPT ![a] = e]
              /\ UNCHANGED <<stateVars, unitVars>>

(* Restart, for the variables of this module. *)
ForgetSlots(a) ==
  /\ unit_slots' = [unit_slots EXCEPT ![a] = [u \in Units |-> 0]]
  /\ unit' = [unit EXCEPT ![a] = NoUnit] /\ slot' = [slot EXCEPT ![a] = Unset]
  /\ last_error' = [last_error EXCEPT ![a] = 0]
  /\ mapped' = [u \in Units |-> IF mapped[u] # <<>> /\ mapped[u][2] = a
                                THEN <<mapped[u][1], Nobody>> ELSE mapped[u]]
  /\ UNCHANGED unit_map

StateCall(a) == /\ \/ GetState(a) \/ ReadUri(a)
                   \/ \E v \in Values : SetState(a, v)
                   \/ WriteUri(a) \/ WritePath(a)
                /\ UNCHANGED <<Platform, unitVars, last_error>>

Ensure(a) == /\ ReadPath(a) /\ EnsureSlots(a)
             /\ UNCHANGED <<Platform, unit_map, unit, slot, mapped, last_error>>

Killed(a) == Restart(a) /\ ForgetSlots(a) /\ UNCHANGED Platform

FnctlNext == \E a \in Apps :
               \/ StateCall(a) \/ Ensure(a) \/ Killed(a)
               \/ \E u \in UnitArgs : GetUnitSlot(a, u) \/ \E s \in Units : SetUnitSlot(a, u, s)
               \/ ReadSlot(a) \/ WriteSlot(a)
               \/ NioCall(a)

FnctlSpec == FnctlInit /\ [][FnctlNext]_fnctlVars

-----------------------------------------------------------------------------
(* Properties. *)

(* Every variable has its type; a copy that is used has been initialised. *)
FnctlTypeOK ==
  /\ StateTypeOK
  /\ unit_map \in [{UnitKey(u) : u \in Units} -> Units \cup {Unset}]
  /\ unit_slots \in [Apps -> [Units -> Units]]
  /\ unit \in [Apps -> Units \cup {NoUnit}] /\ slot \in [Apps -> Units \cup {Unset}]
  /\ last_error \in [Apps -> {0} \cup RawResults]
  /\ \A u \in Units : mapped[u] = <<>> \/ mapped[u] \in Units \X (Apps \cup {Nobody})
  /\ \A a \in Apps : pc[a] = "slot" /\ Platform.caches => cache[a] # NotCached

Answers(a, u) == /\ pc[a] = "slot" /\ op[a] = "getSlot" /\ unit[a] = u
                 /\ pc'[a] = "idle" /\ op'[a] = op[a]

(* After a set_unit_slot that succeeded, and until somebody writes the unit
   again, get_unit_slot answers the slot that was set; a failed read, of which
   the caller is not told, answers instead the identity or, on the Amiga, the
   slot the program itself asked for last.  So on the Amiga the program that set
   the slot is never given another, however its reads fail and whatever call
   loaded its copies. *)
SlotAnswers ==
  [][\A a \in Apps, u \in Units :
       Answers(a, u) /\ mapped[u] # <<>> =>
         \/ slot'[a] = mapped[u][1]
         \/ ~Platform.caches /\ slot'[a] = u
         \/ Platform.caches /\ mapped[u][2] # a /\ slot'[a] = unit_slots[a][u]
    ]_fnctlVars
=============================================================================

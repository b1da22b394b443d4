---------------------------- MODULE MCFnctlUnits ----------------------------
(* Two programs, two values and two units on each of the four backends.  The
   state, the unit map and the raw error are independent but for the copies
   that any call loads, so only one of them is exercised at a time. *)
EXTENDS FnctlUnits, TLC

Symmetry == Permutations(Apps) \cup Permutations(Values)

UnitsTouched == \E a \in Apps : unit[a] # NoUnit \/ slot[a] # Unset \/ op[a] \in {"getSlot", "setSlot"}
MapTouched == \/ \E u \in Units : unit_map[UnitKey(u)] # Unset \/ mapped[u] # <<>>
              \/ \E a \in Apps : unit_slots[a] \notin {Identity, [u \in Units |-> 0]}
StateTouched == \/ store # Pair(Absent, Absent)
                \/ \E a \in Apps : arg[a] # Absent \/ got[a] # Pair(Absent, Absent)
ErrorTouched == \E a \in Apps : last_error[a] # 0

OneAtATime == /\ UnitsTouched \/ MapTouched => ~StateTouched
              /\ ErrorTouched => ~StateTouched /\ ~UnitsTouched /\ ~MapTouched
=============================================================================

------------------------------ MODULE FnctlProofs ------------------------------
(***************************************************************************)
(* The safety properties of the app-store backends, for any number of      *)
(* programs and values, any map of up to ten units and each platform.      *)
(***************************************************************************)
EXTENDS FnctlUnits, TLAPS

-----------------------------------------------------------------------------
(* The inductive invariant.  Beside the types: what a program in the middle of
   a call has in hand; that a write of the path ends what the same program
   began with the URI; that a pair which is settled, or expected, is the one
   the copies and the half-read states were taken from; that a copy is loaded
   only before the program has set anything; and that a slot that is mapped is
   in its key, and in the copy of the program that set it. *)

StateType == /\ Platform \in Platforms
             /\ store \in Pairs
             /\ pc \in [Apps -> {"idle", "readUri", "readPath", "writeUri", "writePath", "slot"}]
             /\ op \in [Apps -> {"none", "get", "set", "getSlot", "setSlot"}]
             /\ arg \in [Apps -> Values \cup {Absent}]
             /\ got \in [Apps -> Pairs] /\ cache \in [Apps -> Pairs \cup {NotCached}]
             /\ writer \in Apps
LoadType == \A a \in Apps : pc[a] \in {"readUri", "readPath"} => cache[a] = NotCached
GhostType == /\ settled = <<>> \/ settled \in Values \X Apps
             /\ DOMAIN expect = Apps
UnitsType ==
  /\ unit_map \in [{UnitKey(u) : u \in Units} -> Units \cup {Unset}]
  /\ unit_slots \in [Apps -> [Units -> Units]]
  /\ unit \in [Apps -> Units \cup {NoUnit}] /\ slot \in [Apps -> Units \cup {Unset}]
  /\ last_error \in [Apps -> {0} \cup RawResults]
MappedType == /\ DOMAIN mapped = Units
              /\ \A u \in Units : mapped[u] = <<>> \/ mapped[u] \in Units \X (Apps \cup {Nobody})
CopiedType == \A a \in Apps : pc[a] = "slot" /\ Platform.caches => cache[a] # NotCached

CallInv ==
  \A a \in Apps :
    /\ pc[a] \in {"writeUri", "writePath"} => op[a] = "set"
    /\ pc[a] = "writePath" => Platform.persistsPath
    /\ pc[a] \in {"readUri", "readPath"} => op[a] # "none" /\ (op[a] # "get" => Platform.caches)
    /\ pc[a] = "slot" => op[a] \in {"getSlot", "setSlot"}
    /\ op[a] = "set" => arg[a] \in Values
    /\ op[a] \in {"getSlot", "setSlot"} /\ pc[a] # "idle" => unit[a] \in Units
    /\ op[a] = "setSlot" /\ pc[a] # "idle" => slot[a] \in Units

WriteInv == \A a \in Apps : pc[a] = "writePath" /\ writer = a => store.uri = arg[a]

ExpectInv == \A a \in Apps : expect[a] = <<>> \/ (expect[a] = settled /\ op[a] = "get")

Half(v) == {v, Absent}
OwnerInv ==
  settled # <<>> =>
    LET a == settled[2] IN
      /\ pc[a] # "writePath"
      /\ cache[a] # NotCached /\ pc[a] # "writeUri" =>
           cache[a].uri \in Half(settled[1]) /\ cache[a].path \in Half(settled[1])
HalfReadInv ==
  \A a \in Apps : pc[a] = "readPath" /\ settled # <<>> /\ (expect[a] # <<>> \/ settled[2] = a) =>
    got[a].uri \in Half(settled[1])

CopyInv ==
  \A a \in Apps :
    /\ ~Platform.caches => cache[a] = NotCached
    /\ Platform.caches /\ pc[a] \in {"readUri", "readPath"} /\ op[a] # "set" => arg[a] = Absent

KeyInv == \A u \in Units : mapped[u] # <<>> => unit_map[UnitKey(u)] = mapped[u][1]
SetterInv ==
  \A u \in Units, a \in Apps :
    Platform.caches /\ mapped[u] # <<>> /\ mapped[u][2] = a =>
      cache[a] # NotCached /\ unit_slots[a][u] = mapped[u][1]

Types == StateType /\ LoadType /\ GhostType /\ UnitsType /\ MappedType /\ CopiedType
FnctlIInv == /\ Types /\ CallInv
             /\ SettledPair /\ WriteInv /\ ExpectInv /\ OwnerInv /\ HalfReadInv /\ ReadsSettled
             /\ OwnCopy /\ CopyInv
             /\ KeyInv /\ SetterInv

-----------------------------------------------------------------------------
(* The steps of one program, and what each of them leaves alone. *)

StepOf(a) == \/ StateCall(a) \/ Ensure(a) \/ Killed(a)
             \/ \E u \in UnitArgs : GetUnitSlot(a, u) \/ \E s \in Units : SetUnitSlot(a, u, s)
             \/ ReadSlot(a) \/ WriteSlot(a)
             \/ NioCall(a)

LEMMA UnitsBasics ==
  /\ MaxUnits \in 1..10 /\ 0 \in Units /\ Unset = MaxUnits /\ NoUnit = MaxUnits
  /\ Unset \notin Units
  /\ Units \subseteq Nat
  /\ \A u \in Units : UnitKey(u) = u /\ u \in {UnitKey(w) : w \in Units}
BY UnitsAssumption DEF UnitsAssumption, Units, Unset, NoUnit, UnitKey

LEMMA PlatformBasics ==
  ASSUME Platform \in Platforms
  PROVE  /\ Platform.caches \in BOOLEAN /\ Platform.persistsPath \in BOOLEAN
         /\ Platform.caches => Platform.persistsPath
<1>1. Platform = Linux => Platform.caches = FALSE /\ Platform.persistsPath = TRUE
  BY DEF Linux
<1>2. Platform = Atari \/ Platform = Bbc => Platform.caches = FALSE /\ Platform.persistsPath = FALSE
  BY DEF Atari, Bbc
<1>3. Platform = Amiga => Platform.caches = TRUE /\ Platform.persistsPath = TRUE
  BY DEF Amiga
<1> QED BY <1>1, <1>2, <1>3, Zenon DEF Platforms

LEMMA PairBasics ==
  /\ \A u, p \in Contents : Pair(u, p) \in Pairs /\ Pair(u, p).uri = u /\ Pair(u, p).path = p
  /\ \A q \in Pairs : q.uri \in Contents /\ q.path \in Contents
  /\ NotCached \notin Pairs
  /\ Values \subseteq Contents /\ Absent \in Contents /\ Part \in Contents
  /\ Absent \notin Values
BY StateAssumption DEF StateAssumption, Pair, Pairs, NotCached, Contents

LEMMA PlatformStep == ASSUME NEW a \in Apps, StepOf(a) PROVE Platform' = Platform
BY DEF StepOf, StateCall, Ensure, Killed, GetUnitSlot, SetUnitSlot, BeginSlotCall, ReadSlot,
       WriteSlot, EndSlotCall, NioCall, stateVars

LEMMA StateTypeStep == ASSUME FnctlIInv, NEW a \in Apps, StepOf(a) PROVE StateType'
<1>0. StateType /\ CallInv
  BY DEF FnctlIInv, Types
<1> USE DEF StateType, Goto
<1>p. Platform' = Platform
  BY PlatformStep
<1>1. CASE GetState(a) /\ StateCall(a)
  BY <1>0, <1>1, <1>p, PairBasics DEF GetState
<1>2. ASSUME NEW v \in Values, SetState(a, v) PROVE StateType'
  BY <1>0, <1>2, <1>p, PairBasics DEF SetState
<1>3. CASE ReadUri(a)
  BY <1>0, <1>3, <1>p, PairBasics DEF ReadUri, ghostVars
<1>4. CASE Ensure(a)
  BY <1>0, <1>4, <1>p, PairBasics DEF Ensure, ReadPath, ghostVars, CallInv, Then
<1>5. CASE WriteUri(a)
  <2>1. arg[a] \in Contents
    BY <1>0, <1>5, PairBasics DEF WriteUri, CallInv
  <2>2. store' \in Pairs
    BY <1>0, <1>5, <2>1, PairBasics DEF WriteUri, AfterFailedWrite, Pairs
  <2>3. /\ pc' \in [Apps -> {"idle", "readUri", "readPath", "writeUri", "writePath", "slot"}]
        /\ writer' \in Apps /\ UNCHANGED <<op, arg, got, cache>>
    BY <1>0, <1>5 DEF WriteUri
  <2> QED BY <1>0, <1>p, <2>2, <2>3
<1>6. CASE WritePath(a)
  BY <1>0, <1>6, <1>p, PairBasics DEF WritePath, AfterFailedWrite, CallInv, Pairs
<1>7. CASE Killed(a)
  BY <1>0, <1>7, <1>p, PairBasics DEF Killed, Restart
<1>8. ASSUME NEW u \in UnitArgs, GetUnitSlot(a, u) \/ \E s \in Units : SetUnitSlot(a, u, s)
      PROVE  StateType'
  BY <1>0, <1>8, <1>p DEF GetUnitSlot, SetUnitSlot, BeginSlotCall
<1>9. CASE ReadSlot(a) \/ WriteSlot(a) \/ NioCall(a)
  BY <1>0, <1>9, <1>p DEF ReadSlot, WriteSlot, EndSlotCall, NioCall, stateVars, progVars, ghostVars
<1> QED BY <1>1, <1>2, <1>3, <1>4, <1>5, <1>6, <1>7, <1>8, <1>9 DEF StepOf, StateCall

LEMMA CallStep == ASSUME FnctlIInv, NEW a \in Apps, StepOf(a) PROVE CallInv' /\ LoadType' /\ GhostType'
<1>0. StateType /\ CallInv /\ LoadType /\ GhostType /\ UnitsType
  BY DEF FnctlIInv, Types
<1>p. Platform' = Platform /\ (Platform.caches => Platform.persistsPath)
  BY <1>0, PlatformStep, PlatformBasics DEF StateType
<1> USE DEF StateType, CallInv, LoadType, GhostType, Goto, StateCall, unitVars
<1>1. CASE GetState(a) /\ StateCall(a)
  BY <1>0, <1>1, <1>p DEF GetState, progVars
<1>2. ASSUME NEW v \in Values, SetState(a, v), StateCall(a) PROVE CallInv' /\ LoadType' /\ GhostType'
  BY <1>0, <1>2, <1>p DEF SetState, progVars
<1>3. CASE ReadUri(a) /\ StateCall(a)
  BY <1>0, <1>3, <1>p DEF ReadUri, ghostVars
<1>4. CASE Ensure(a)
  BY <1>0, <1>4, <1>p DEF Ensure, EnsureSlots, ReadPath, ghostVars, Then
<1>5. CASE WriteUri(a) /\ StateCall(a)
  BY <1>0, <1>5, <1>p DEF WriteUri, AfterFailedWrite, Unsettle
<1>6. CASE WritePath(a) /\ StateCall(a)
  BY <1>0, <1>6, <1>p DEF WritePath, AfterFailedWrite, Unsettle, Settle
<1>7. CASE Killed(a)
  BY <1>0, <1>7, <1>p DEF Killed, Restart, ForgetSlots
<1>8. ASSUME NEW u \in Units, NEW s \in Units \cup {Unset}, NEW name \in {"getSlot", "setSlot"},
             name = "setSlot" => s \in Units, BeginSlotCall(a, name, u, s)
      PROVE  CallInv' /\ LoadType' /\ GhostType'
  <2>1. /\ op' = [op EXCEPT ![a] = name] /\ unit' = [unit EXCEPT ![a] = u]
        /\ slot' = [slot EXCEPT ![a] = s] /\ expect' = [expect EXCEPT ![a] = <<>>]
        /\ pc[a] = "idle" /\ UNCHANGED <<arg, cache, settled>>
        /\ \/ pc' = [pc EXCEPT ![a] = "readUri"] /\ Platform.caches /\ cache[a] = NotCached
           \/ pc' = [pc EXCEPT ![a] = "slot"]
    BY <1>8, Zenon DEF BeginSlotCall
  <2>2. GhostType' /\ LoadType'
    BY <1>0, <2>1
  <2>3. DOMAIN unit = Apps /\ DOMAIN slot = Apps /\ DOMAIN pc = Apps /\ DOMAIN op = Apps
    BY <1>0 DEF UnitsType
  <2>4. pc' = [pc EXCEPT ![a] = "readUri"] \/ pc' = [pc EXCEPT ![a] = "slot"]
    BY <2>1
  <2>5. ASSUME NEW b \in Apps, b # a
        PROVE  pc'[b] = pc[b] /\ op'[b] = op[b] /\ unit'[b] = unit[b] /\ slot'[b] = slot[b]
    <3>1. op'[b] = op[b] /\ unit'[b] = unit[b] /\ slot'[b] = slot[b]
      BY <2>1, <2>3, <2>5, Zenon
    <3>2. pc'[b] = pc[b]
      BY <2>3, <2>4, <2>5
    <3> QED BY <3>1, <3>2
  <2>6. op'[a] = name /\ unit'[a] = u /\ slot'[a] = s
    BY <2>1, <2>3
  <2>7. CallInv'
    BY <1>0, <1>8, <1>p, <2>1, <2>5, <2>6
  <2> QED BY <2>2, <2>7
<1>9. CASE ReadSlot(a)
  BY <1>0, <1>9, <1>p DEF ReadSlot, EndSlotCall, ghostVars
<1>10. CASE WriteSlot(a)
  BY <1>0, <1>10, <1>p DEF WriteSlot, EndSlotCall, ghostVars
<1>11. CASE NioCall(a)
  BY <1>0, <1>11, <1>p DEF NioCall, stateVars, progVars, ghostVars, unitVars
<1> QED BY <1>1, <1>2, <1>3, <1>4, <1>5, <1>6, <1>7, <1>8, <1>9, <1>10, <1>11, UnitsBasics
       DEF StepOf, GetUnitSlot, SetUnitSlot, BeginSlotCall

LEMMA CopyStep == ASSUME FnctlIInv, NEW a \in Apps, StepOf(a) PROVE CopyInv' /\ OwnCopy' /\ CopiedType'
<1>0. StateType /\ CallInv /\ LoadType /\ CopyInv /\ OwnCopy /\ CopiedType
  BY DEF FnctlIInv, Types
<1>p. Platform' = Platform /\ (Platform.caches => Platform.persistsPath)
  BY <1>0, PlatformStep, PlatformBasics DEF StateType
<1> USE DEF StateType, CopyInv, OwnCopy, CopiedType, LoadType, CallInv, Goto, StateCall, unitVars
<1>a. \A b \in Apps : arg[b] # Absent => Pair(arg[b], arg[b]) # NotCached
  BY <1>0, PairBasics
<1>1. CASE GetState(a) /\ StateCall(a)
  BY <1>0, <1>1, <1>p, <1>a DEF GetState, progVars
<1>2. ASSUME NEW v \in Values, SetState(a, v), StateCall(a) PROVE CopyInv' /\ OwnCopy' /\ CopiedType'
  BY <1>0, <1>2, <1>p, PairBasics DEF SetState, progVars
<1>3. CASE ReadUri(a) /\ StateCall(a)
  BY <1>0, <1>3, <1>p DEF ReadUri, ghostVars
<1>4. CASE Ensure(a)
  BY <1>0, <1>4, <1>p, PairBasics DEF Ensure, EnsureSlots, ReadPath, ghostVars, Then
<1>5. CASE WriteUri(a) /\ StateCall(a)
  BY <1>0, <1>5, <1>p DEF WriteUri, AfterFailedWrite, Unsettle
<1>6. CASE WritePath(a) /\ StateCall(a)
  BY <1>0, <1>6, <1>p DEF WritePath, AfterFailedWrite, Unsettle, Settle
<1>7. CASE Killed(a)
  BY <1>0, <1>7, <1>p DEF Killed, Restart, ForgetSlots
<1>8. ASSUME NEW u \in Units, NEW s \in Units \cup {Unset}, NEW name \in {"getSlot", "setSlot"},
             name = "setSlot" => s \in Units, BeginSlotCall(a, name, u, s)
      PROVE  CopyInv' /\ OwnCopy' /\ CopiedType'
  <2>1. /\ op' = [op EXCEPT ![a] = name] /\ pc[a] = "idle" /\ UNCHANGED <<arg, cache>>
        /\ \/ /\ pc' = [pc EXCEPT ![a] = "readUri"]
              /\ Platform.caches /\ cache[a] = NotCached
           \/ /\ pc' = [pc EXCEPT ![a] = "slot"]
              /\ Platform.caches => cache[a] # NotCached
    BY <1>8, Zenon DEF BeginSlotCall
  <2>2. CopyInv'
    BY <1>0, <1>a, <1>8, <1>p, <2>1
  <2>3. OwnCopy' /\ CopiedType'
    BY <1>0, <1>p, <2>1
  <2> QED BY <2>2, <2>3
<1>9. CASE ReadSlot(a)
  BY <1>0, <1>9, <1>p DEF ReadSlot, EndSlotCall, ghostVars
<1>10. CASE WriteSlot(a)
  BY <1>0, <1>10, <1>p DEF WriteSlot, EndSlotCall, ghostVars
<1>11. CASE NioCall(a)
  BY <1>0, <1>11, <1>p DEF NioCall, stateVars, progVars, ghostVars, unitVars
<1> QED BY <1>1, <1>2, <1>3, <1>4, <1>5, <1>6, <1>7, <1>8, <1>9, <1>10, <1>11, UnitsBasics
       DEF StepOf, GetUnitSlot, SetUnitSlot, BeginSlotCall

LEMMA UnitsStep == ASSUME FnctlIInv, NEW a \in Apps, StepOf(a) PROVE UnitsType' /\ MappedType'
<1> DEFINE Keys == {UnitKey(u) : u \in Units}
<1>0. /\ unit_map \in [Keys -> Units \cup {Unset}]
      /\ unit_slots \in [Apps -> [Units -> Units]]
      /\ unit \in [Apps -> Units \cup {NoUnit}] /\ slot \in [Apps -> Units \cup {Unset}]
      /\ last_error \in [Apps -> {0} \cup RawResults]
      /\ MappedType /\ CallInv
  BY DEF FnctlIInv, Types, UnitsType
<1>u. 0 \in Units /\ \A u \in Units : UnitKey(u) \in Keys
  BY UnitsBasics
<1> DEFINE Goal == /\ unit_map' \in [Keys -> Units \cup {Unset}]
                   /\ unit_slots' \in [Apps -> [Units -> Units]]
                   /\ unit' \in [Apps -> Units \cup {NoUnit}] /\ slot' \in [Apps -> Units \cup {Unset}]
                   /\ last_error' \in [Apps -> {0} \cup RawResults]
                   /\ MappedType'
<1> SUFFICES Goal
  BY DEF UnitsType
<1> HIDE DEF Keys
<1> USE DEF MappedType
<1>1. CASE StateCall(a)
  BY <1>0, <1>1 DEF StateCall, unitVars
<1>2. CASE Ensure(a)
  BY <1>0, <1>2 DEF Ensure, EnsureSlots, Identity
<1>3. CASE Killed(a)
  <2>1. /\ unit_slots' \in [Apps -> [Units -> Units]]
        /\ unit' \in [Apps -> Units \cup {NoUnit}] /\ slot' \in [Apps -> Units \cup {Unset}]
        /\ last_error' \in [Apps -> {0} \cup RawResults] /\ unit_map' = unit_map
    BY <1>0, <1>3, <1>u DEF Killed, ForgetSlots
  <2>2. mapped' = [u \in Units |-> IF mapped[u] # <<>> /\ mapped[u][2] = a
                                   THEN <<mapped[u][1], Nobody>> ELSE mapped[u]]
    BY <1>3, Zenon DEF Killed, ForgetSlots
  <2>3. MappedType'
    BY <1>0, <2>2
  <2> QED BY <1>0, <2>1, <2>3
<1>4. ASSUME NEW u \in Units, NEW s \in Units \cup {Unset}, NEW name, BeginSlotCall(a, name, u, s)
      PROVE  Goal
  BY <1>0, <1>4 DEF BeginSlotCall
<1>5. CASE ReadSlot(a)
  <2>1. unit[a] \in Units /\ UNCHANGED <<unit_map, unit_slots, mapped, last_error>>
    BY <1>0, <1>5 DEF ReadSlot, EndSlotCall, CallInv
  <2>2. Fallback(a, unit[a]) \in Units
    BY <1>0, <2>1 DEF Fallback
  <2>3. slot' \in [Apps -> Units \cup {Unset}] /\ unit' \in [Apps -> Units \cup {NoUnit}]
    BY <1>0, <1>5, <1>u, <2>1, <2>2 DEF ReadSlot, EndSlotCall
  <2> QED BY <1>0, <2>1, <2>3
<1>6. CASE WriteSlot(a)
  <2>1. unit[a] \in Units /\ slot[a] \in Units /\ UNCHANGED last_error
    BY <1>0, <1>6 DEF WriteSlot, EndSlotCall, CallInv
  <2>2. unit_slots' \in [Apps -> [Units -> Units]]
    BY <1>0, <1>6, <2>1 DEF WriteSlot
  <2>3. unit_map' \in [Keys -> Units \cup {Unset}]
    BY <1>0, <1>6, <1>u, <2>1 DEF WriteSlot
  <2>5. \/ mapped' = [mapped EXCEPT ![unit[a]] = <<slot[a], a>>]
        \/ mapped' = [mapped EXCEPT ![unit[a]] = <<>>]
    BY <1>6, Zenon DEF WriteSlot
  <2>6. MappedType'
    <3>1. CASE mapped' = [mapped EXCEPT ![unit[a]] = <<slot[a], a>>]
      BY <1>0, <2>1, <3>1
    <3>2. CASE mapped' = [mapped EXCEPT ![unit[a]] = <<>>]
      BY <1>0, <2>1, <3>2
    <3> QED BY <2>5, <3>1, <3>2
  <2>4. slot' \in [Apps -> Units \cup {Unset}] /\ unit' \in [Apps -> Units \cup {NoUnit}]
    BY <1>0, <1>6 DEF WriteSlot, EndSlotCall
  <2> QED BY <1>0, <2>1, <2>2, <2>3, <2>4, <2>6
<1>7. CASE NioCall(a)
  BY <1>0, <1>7 DEF NioCall, unitVars
<1> HIDE DEF Goal
<1> QED BY <1>1, <1>2, <1>3, <1>4, <1>5, <1>6, <1>7
        DEF StepOf, GetUnitSlot, SetUnitSlot, BeginSlotCall

(* A unit's key is its own, and a slot is written to it by name. *)
LEMMA KeyStep == ASSUME FnctlIInv, NEW a \in Apps, StepOf(a) PROVE KeyInv' /\ SetterInv'
<1>0. UnitsType /\ MappedType /\ CallInv /\ CopiedType /\ KeyInv /\ SetterInv /\ StateType /\ LoadType
  BY DEF FnctlIInv, Types
<1>p. Platform' = Platform /\ Platform.caches \in BOOLEAN
  BY <1>0, PlatformStep, PlatformBasics DEF StateType
<1>n. Nobody \notin Apps
  BY UnitsAssumption DEF UnitsAssumption
<1> USE DEF KeyInv, SetterInv
<1>1. CASE UNCHANGED <<unit_map, mapped, unit_slots, cache>>
  BY <1>0, <1>p, <1>1
<1>2. ASSUME NEW v \in Values, SetState(a, v), StateCall(a) PROVE KeyInv' /\ SetterInv'
  <2>1. UNCHANGED <<unit_map, mapped, unit_slots>>
    BY <1>2 DEF StateCall, unitVars
  <2>2. \A b \in Apps : cache[b] # NotCached => cache'[b] # NotCached
    BY <1>0, <1>2, PairBasics DEF SetState, StateType
  <2> QED BY <1>0, <1>p, <2>1, <2>2
<1>3. CASE Ensure(a)
  <2>1. UNCHANGED <<unit_map, mapped>> /\ cache[a] = NotCached
    BY <1>0, <1>3 DEF Ensure, ReadPath, LoadType
  <2>2. \A b \in Apps : cache[b] # NotCached => cache'[b] = cache[b] /\ unit_slots'[b] = unit_slots[b]
    <3>1. \A b \in Apps : b # a => cache'[b] = cache[b]
      BY <1>0, <1>3 DEF Ensure, ReadPath, StateType
    <3>2. \A b \in Apps : b # a => unit_slots'[b] = unit_slots[b]
      BY <1>0, <1>3 DEF Ensure, EnsureSlots, UnitsType
    <3> QED BY <2>1, <3>1, <3>2
  <2> QED BY <1>0, <1>p, <2>1, <2>2
<1>4. CASE Killed(a)
  <2>1. /\ unit_map' = unit_map
        /\ mapped' = [u \in Units |-> IF mapped[u] # <<>> /\ mapped[u][2] = a
                                      THEN <<mapped[u][1], Nobody>> ELSE mapped[u]]
    BY <1>4, Zenon DEF Killed, ForgetSlots
  <2>2. \A b \in Apps : b # a => cache'[b] = cache[b] /\ unit_slots'[b] = unit_slots[b]
    <3>1. DOMAIN cache = Apps /\ DOMAIN unit_slots = Apps
      BY <1>0 DEF StateType, UnitsType
    <3> QED BY <1>4, <3>1 DEF Killed, Restart, ForgetSlots
  <2>3. \A u \in Units : mapped'[u] # <<>> =>
          /\ mapped[u] # <<>> /\ mapped'[u][1] = mapped[u][1]
          /\ mapped'[u][2] # a
          /\ mapped'[u][2] = mapped[u][2] \/ mapped'[u][2] = Nobody
    BY <1>n, <2>1
  <2>4. KeyInv'
    BY <1>0, <2>1, <2>3
  <2>5. SetterInv'
    BY <1>0, <1>p, <1>n, <2>2, <2>3
  <2> QED BY <2>4, <2>5
<1>5. CASE WriteSlot(a)
  <2>1. /\ unit[a] \in Units /\ slot[a] \in Units /\ pc[a] = "slot" /\ cache' = cache
        /\ Platform.caches => cache[a] # NotCached
    BY <1>0, <1>5 DEF WriteSlot, EndSlotCall, CallInv, CopiedType
  <2> DEFINE u == unit[a]
             s == slot[a]
  <2>2. /\ unit_slots' = IF Platform.caches THEN [unit_slots EXCEPT ![a][u] = s] ELSE unit_slots
        /\ \/ unit_map' = [unit_map EXCEPT ![UnitKey(u)] = s] /\ mapped' = [mapped EXCEPT ![u] = <<s, a>>]
           \/ /\ \E kept : unit_map' = [unit_map EXCEPT ![UnitKey(u)] = kept]
              /\ mapped' = [mapped EXCEPT ![u] = <<>>]
    BY <1>5, Zenon DEF WriteSlot
  <2>3. u \in Units /\ s \in Units
    BY <2>1
  <2> HIDE DEF u, s
  <2>4. /\ DOMAIN mapped = Units /\ UnitKey(u) \in DOMAIN unit_map /\ UnitKey(u) = u
        /\ \A w \in Units : UnitKey(w) = w
    BY <1>0, <2>3, UnitsBasics DEF UnitsType, MappedType
  <2>5. \A w \in Units \ {u} : mapped'[w] = mapped[w] /\ unit_map'[UnitKey(w)] = unit_map[UnitKey(w)]
    <3>1. \A w \in Units \ {u} : UnitKey(w) \in DOMAIN unit_map /\ UnitKey(w) # UnitKey(u)
      BY <1>0, <2>4, UnitsBasics DEF UnitsType
    <3> QED BY <2>2, <2>3, <2>4, <3>1
  <2>6. mapped'[u] # <<>> => mapped'[u] = <<s, a>> /\ unit_map'[UnitKey(u)] = s
    BY <2>2, <2>3, <2>4
  <2>7. KeyInv'
    BY <1>0, <2>5, <2>6
  <2>8. Platform.caches => /\ unit_slots'[a][u] = s
                           /\ \A b \in Apps, w \in Units :
                                b # a \/ w # u => unit_slots'[b][w] = unit_slots[b][w]
    BY <1>0, <2>2, <2>3 DEF UnitsType
  <2>9. SetterInv'
    BY <1>0, <1>p, <2>1, <2>5, <2>6, <2>8
  <2> QED BY <2>7, <2>9
<1>6. StateCall(a) => UNCHANGED <<unit_map, mapped, unit_slots, cache>> \/ \E v \in Values : SetState(a, v)
  BY DEF StateCall, GetState, ReadUri, WriteUri, WritePath, unitVars
<1>7. ASSUME NEW u, NEW s, NEW name, BeginSlotCall(a, name, u, s)
      PROVE  UNCHANGED <<unit_map, mapped, unit_slots, cache>>
  BY <1>7 DEF BeginSlotCall
<1>8. ReadSlot(a) \/ NioCall(a) => UNCHANGED <<unit_map, mapped, unit_slots, cache>>
  BY DEF ReadSlot, EndSlotCall, NioCall, stateVars, progVars, unitVars
<1> QED BY <1>1, <1>2, <1>3, <1>4, <1>5, <1>6, <1>7, <1>8 DEF StepOf, GetUnitSlot, SetUnitSlot

(* Of two writes of one pair, by the same program with no other's in between. *)
LEMMA WriteStep == ASSUME FnctlIInv, NEW a \in Apps, StepOf(a) PROVE SettledPair' /\ WriteInv'
<1>0. StateType /\ GhostType /\ CallInv /\ SettledPair /\ WriteInv
  BY DEF FnctlIInv, Types
<1>p. Platform' = Platform /\ Platform.persistsPath \in BOOLEAN
  BY <1>0, PlatformStep, PlatformBasics DEF StateType
<1> USE DEF SettledPair, WriteInv
<1>1. ASSUME UNCHANGED <<store, writer, settled>>,
             \A b \in Apps : pc'[b] = "writePath" => pc[b] = "writePath" /\ arg'[b] = arg[b]
      PROVE  SettledPair' /\ WriteInv'
  BY <1>0, <1>1, <1>p
<1>2. CASE WriteUri(a) /\ StateCall(a)
  <2>1. arg[a] \in Values /\ DOMAIN pc = Apps /\ arg' = arg /\ writer' = a
    BY <1>0, <1>2 DEF WriteUri, CallInv, StateType
  <2>2. WriteInv'
    <3>1. ASSUME NEW b \in Apps, pc'[b] = "writePath", writer' = b PROVE store'.uri = arg'[b]
      BY <1>0, <1>2, <2>1, <3>1 DEF WriteUri, Goto, StateType, Pairs
    <3> QED BY <3>1
  <2>3. CASE settled' = <<>>
    BY <2>2, <2>3
  <2>4. CASE settled' # <<>>
    <3>1. store' = [store EXCEPT !.uri = arg[a]] /\ settled' = <<arg[a], a>> /\ ~Platform.persistsPath
      BY <1>2, <2>4, Zenon DEF WriteUri, Unsettle
    <3>2. store'.uri = settled'[1]
      BY <1>0, <3>1 DEF StateType, Pairs
    <3> QED BY <1>p, <2>2, <3>1, <3>2
  <2> QED BY <2>3, <2>4
<1>3. CASE WritePath(a) /\ StateCall(a)
  <2>1. /\ arg' = arg /\ writer' = a /\ pc[a] = "writePath" /\ pc' = [pc EXCEPT ![a] = "idle"]
        /\ DOMAIN pc = Apps
        /\ \/ settled' = <<>>
           \/ /\ settled' = <<arg[a], a>> /\ writer = a
              /\ store' = [store EXCEPT !.path = arg[a]]
    BY <1>0, <1>3 DEF WritePath, Settle, Unsettle, Goto, StateType
  <2>2. WriteInv'
    BY <2>1
  <2>3. settled' # <<>> => store'.path = settled'[1] /\ store'.uri = settled'[1]
    BY <1>0, <2>1 DEF StateType, Pairs
  <2> QED BY <2>2, <2>3
<1>4. CASE GetState(a) /\ StateCall(a)
  BY <1>0, <1>1, <1>4 DEF GetState, Goto, StateType
<1>5. ASSUME NEW v \in Values, SetState(a, v), StateCall(a) PROVE SettledPair' /\ WriteInv'
  BY <1>0, <1>1, <1>5 DEF SetState, Goto, StateType
<1>6. CASE ReadUri(a) /\ StateCall(a)
  BY <1>0, <1>1, <1>6 DEF ReadUri, Goto, StateType, ghostVars
<1>7. CASE Ensure(a)
  BY <1>0, <1>1, <1>7 DEF Ensure, ReadPath, Goto, StateType, ghostVars, CallInv, Then
<1>8. CASE Killed(a)
  BY <1>0, <1>1, <1>8 DEF Killed, Restart, Goto, StateType
<1>9. ASSUME NEW u, NEW s, NEW name, BeginSlotCall(a, name, u, s) PROVE SettledPair' /\ WriteInv'
  BY <1>0, <1>1, <1>9 DEF BeginSlotCall, Goto, StateType
<1>10. CASE ReadSlot(a) \/ WriteSlot(a) \/ NioCall(a)
  BY <1>0, <1>1, <1>10 DEF ReadSlot, WriteSlot, EndSlotCall, NioCall, Goto, StateType, stateVars,
                          progVars, ghostVars
<1> QED BY <1>2, <1>3, <1>4, <1>5, <1>6, <1>7, <1>8, <1>9, <1>10
        DEF StepOf, StateCall, GetUnitSlot, SetUnitSlot

(* What a step of one program does to the others: it may end what they expect. *)
LEMMA OthersStep ==
  ASSUME FnctlIInv, NEW a \in Apps, StepOf(a), NEW b \in Apps, b # a
  PROVE  /\ pc'[b] = pc[b] /\ op'[b] = op[b] /\ got'[b] = got[b] /\ cache'[b] = cache[b]
         /\ expect'[b] = expect[b] \/ expect'[b] = <<>>
         /\ settled' # settled => expect'[b] = <<>>
<1>0. /\ DOMAIN pc = Apps /\ DOMAIN op = Apps /\ DOMAIN got = Apps /\ DOMAIN cache = Apps
      /\ DOMAIN expect = Apps
  BY DEF FnctlIInv, Types, StateType, GhostType
<1>1. pc'[b] = pc[b] /\ op'[b] = op[b] /\ got'[b] = got[b] /\ cache'[b] = cache[b]
  <2> USE DEF Goto
  <2>1. CASE StateCall(a)
    BY <1>0, <2>1 DEF StateCall, GetState, ReadUri, SetState, WriteUri, WritePath, ghostVars
  <2>2. CASE Ensure(a)
    BY <1>0, <2>2 DEF Ensure, ReadPath, ghostVars
  <2>3. CASE Killed(a)
    BY <1>0, <2>3 DEF Killed, Restart
  <2>4. ASSUME NEW u, NEW s, NEW name, BeginSlotCall(a, name, u, s)
        PROVE  pc'[b] = pc[b] /\ op'[b] = op[b] /\ got'[b] = got[b] /\ cache'[b] = cache[b]
    BY <1>0, <2>4 DEF BeginSlotCall
  <2>5. CASE ReadSlot(a) \/ WriteSlot(a) \/ NioCall(a)
    BY <1>0, <2>5 DEF ReadSlot, WriteSlot, EndSlotCall, NioCall, stateVars, progVars
  <2> QED BY <2>1, <2>2, <2>3, <2>4, <2>5 DEF StepOf, GetUnitSlot, SetUnitSlot
<1>2. \/ \E e : expect' = [expect EXCEPT ![a] = e] /\ settled' = settled
      \/ expect' = expect /\ settled' = settled
      \/ expect' = [c \in Apps |-> <<>>]
  <2>1. CASE StateCall(a)
    BY <2>1, Zenon DEF StateCall, GetState, ReadUri, SetState, WriteUri, WritePath, Settle, Unsettle,
                       ghostVars
  <2>2. CASE Ensure(a) \/ Killed(a)
    BY <2>2, Zenon DEF Ensure, ReadPath, ghostVars, Killed, Restart
  <2>3. ASSUME NEW u, NEW s, NEW name, BeginSlotCall(a, name, u, s)
        PROVE  \E e : expect' = [expect EXCEPT ![a] = e] /\ settled' = settled
    BY <2>3, Zenon DEF BeginSlotCall
  <2>4. CASE ReadSlot(a) \/ WriteSlot(a) \/ NioCall(a)
    BY <2>4, Zenon DEF ReadSlot, WriteSlot, EndSlotCall, NioCall, stateVars, ghostVars
  <2> QED BY <2>1, <2>2, <2>3, <2>4 DEF StepOf, GetUnitSlot, SetUnitSlot
<1>3. expect'[b] = expect[b] \/ expect'[b] = <<>>
  BY <1>0, <1>2
<1>4. settled' # settled => expect'[b] = <<>>
  BY <1>2
<1> QED BY <1>1, <1>3, <1>4

(* What the program of the step expects, and what it settles. *)
LEMMA OwnStep ==
  ASSUME FnctlIInv, NEW a \in Apps, StepOf(a)
  PROVE  /\ \/ settled' = settled
            \/ settled' = <<>> /\ pc'[a] \in {"writePath", "idle"}
            \/ /\ settled' = <<arg[a], a>> /\ pc'[a] = "idle"
               /\ pc[a] \in {"writeUri", "writePath"} /\ cache'[a] = cache[a]
               /\ pc[a] = "writeUri" => ~Platform.persistsPath
         /\ \/ expect'[a] = <<>>
            \/ expect'[a] = expect[a] /\ op'[a] = op[a] /\ settled' = settled
            \/ expect'[a] = Visible(a) /\ op'[a] = "get" /\ settled' = settled
<1>0. DOMAIN expect = Apps /\ DOMAIN pc = Apps /\ DOMAIN op = Apps /\ DOMAIN cache = Apps
  BY DEF FnctlIInv, Types, StateType, GhostType
<1> USE DEF Goto
<1>1. CASE (GetState(a) \/ ReadUri(a)) /\ StateCall(a)
  BY <1>0, <1>1 DEF GetState, ReadUri, ghostVars
<1>2. ASSUME NEW v, SetState(a, v) PROVE settled' = settled /\ expect'[a] = <<>>
  BY <1>0, <1>2 DEF SetState
<1>3. CASE WriteUri(a)
  <2>1. /\ \/ settled' = <<>> /\ (pc' = [pc EXCEPT ![a] = "writePath"] \/ pc' = [pc EXCEPT ![a] = "idle"])
           \/ settled' = <<arg[a], a>> /\ pc' = [pc EXCEPT ![a] = "idle"] /\ ~Platform.persistsPath
        /\ expect' = [b \in Apps |-> <<>>] /\ cache' = cache /\ pc[a] = "writeUri"
    BY <1>3, Zenon DEF WriteUri, Unsettle
  <2> QED BY <1>0, <2>1
<1>4. CASE WritePath(a)
  <2>1. /\ settled' = <<>> \/ settled' = <<arg[a], a>>
        /\ pc' = [pc EXCEPT ![a] = "idle"]
        /\ expect' = [b \in Apps |-> <<>>] /\ cache' = cache /\ pc[a] = "writePath"
    BY <1>4, Zenon DEF WritePath, Unsettle, Settle
  <2> QED BY <1>0, <2>1
<1>5. CASE Ensure(a)
  BY <1>0, <1>5 DEF Ensure, ReadPath, ghostVars
<1>6. CASE Killed(a)
  BY <1>0, <1>6 DEF Killed, Restart
<1>7. ASSUME NEW u, NEW s, NEW name, BeginSlotCall(a, name, u, s)
      PROVE  settled' = settled /\ expect'[a] = <<>>
  BY <1>0, <1>7 DEF BeginSlotCall
<1>8. CASE ReadSlot(a) \/ WriteSlot(a) \/ NioCall(a)
  BY <1>8 DEF ReadSlot, WriteSlot, EndSlotCall, NioCall, stateVars, progVars, ghostVars
<1> QED BY <1>1, <1>2, <1>3, <1>4, <1>5, <1>6, <1>7, <1>8 DEF StepOf, StateCall, GetUnitSlot, SetUnitSlot

LEMMA ExpectStep == ASSUME FnctlIInv, NEW a \in Apps, StepOf(a) PROVE ExpectInv'
<1>0. ExpectInv
  BY DEF FnctlIInv
<1> SUFFICES ASSUME NEW b \in Apps PROVE expect'[b] = <<>> \/ (expect'[b] = settled' /\ op'[b] = "get")
  BY DEF ExpectInv
<1>1. CASE b # a
  BY <1>0, <1>1, OthersStep DEF ExpectInv
<1>2. CASE b = a
  BY <1>0, <1>2, OwnStep DEF ExpectInv, Visible
<1> QED BY <1>1, <1>2

(* What is settled is in the copy of the program that set it, and in what it
   and those who expect it have read. *)
LEMMA SettledStep ==
  ASSUME FnctlIInv, NEW a \in Apps, StepOf(a)
  PROVE  OwnerInv' /\ HalfReadInv' /\ ReadsSettled'
<1>0. /\ StateType /\ GhostType /\ CallInv /\ LoadType /\ CopyInv /\ OwnCopy
      /\ OwnerInv /\ HalfReadInv /\ ReadsSettled /\ SettledPair /\ ExpectInv
  BY DEF FnctlIInv, Types
<1>p. /\ Platform' = Platform /\ (Platform.caches => Platform.persistsPath)
      /\ Platform.caches \in BOOLEAN /\ Platform.persistsPath \in BOOLEAN
  BY <1>0, PlatformStep, PlatformBasics DEF StateType
<1>d. /\ DOMAIN pc = Apps /\ DOMAIN op = Apps /\ DOMAIN got = Apps /\ DOMAIN cache = Apps
      /\ DOMAIN expect = Apps
  BY <1>0 DEF StateType, GhostType
<1>n. NotCached \notin Pairs
  BY PairBasics
(* Nothing that matters here happens but in the steps below. *)
<1> DEFINE Still == /\ settled' = settled
                    /\ cache'[a] = cache[a] /\ got'[a] = got[a]
                    /\ pc'[a] # "writePath" \/ pc[a] = "writePath"
                    /\ pc[a] # "writeUri" \/ pc'[a] = "writeUri"
                    /\ pc'[a] # "readPath" \/ (pc[a] = "readPath" /\ expect'[a] = expect[a])
                    /\ \/ expect'[a] = <<>> \/ pc'[a] # "idle" \/ op'[a] # "get"
                       \/ expect'[a] = expect[a] /\ pc[a] = "idle" /\ op[a] = "get"
<1>1. ASSUME Still PROVE OwnerInv' /\ HalfReadInv' /\ ReadsSettled'
  <2>1. OwnerInv'
    BY <1>0, <1>1, OthersStep DEF OwnerInv, GhostType
  <2>2. HalfReadInv'
    BY <1>0, <1>1, OthersStep DEF HalfReadInv
  <2>3. ReadsSettled'
    BY <1>0, <1>1, <1>p, OthersStep DEF ReadsSettled
  <2> QED BY <2>1, <2>2, <2>3
<1> HIDE DEF Still
<1> USE DEF Goto
<1>2. CASE GetState(a) /\ StateCall(a)
  <2>1. CASE cache[a] = NotCached
    <3>1. Still
      BY <1>2, <1>d, <2>1 DEF Still, GetState
    <3> QED BY <1>1, <3>1
  <2>2. CASE cache[a] # NotCached
    <3>1. /\ settled' = settled /\ cache' = cache /\ got'[a] = cache[a] /\ pc' = pc
          /\ pc[a] = "idle" /\ expect'[a] = Visible(a)
      BY <1>0, <1>2, <1>d, <2>2 DEF GetState, StateType, LoadType
    <3>2. Platform.caches
      BY <1>0, <2>2 DEF CopyInv
    <3>3. expect'[a] # <<>> =>
            /\ expect'[a] = settled /\ settled[2] = a
            /\ got'[a].uri \in Half(settled[1]) /\ got'[a].path \in Half(settled[1])
      BY <1>0, <2>2, <3>1, <3>2 DEF Visible, OwnerInv
    <3>4. OwnerInv' /\ HalfReadInv'
      BY <1>0, <3>1, OthersStep DEF OwnerInv, HalfReadInv, GhostType
    <3>5. ReadsSettled'
      BY <1>0, <1>p, <3>1, <3>3, OthersStep DEF ReadsSettled, Half
    <3> QED BY <3>4, <3>5
  <2> QED BY <2>1, <2>2
<1>3. ASSUME NEW v \in Values, SetState(a, v) PROVE OwnerInv' /\ HalfReadInv' /\ ReadsSettled'
  <2>1. CASE cache[a] = NotCached
    <3>1. Still
      BY <1>3, <1>d, <2>1 DEF Still, SetState
    <3> QED BY <1>1, <3>1
  <2>2. CASE cache[a] # NotCached
    <3>1. /\ settled' = settled /\ pc'[a] = "writeUri"
      BY <1>3, <1>d, <2>2 DEF SetState
    <3>2. OwnerInv' /\ HalfReadInv' /\ ReadsSettled'
      BY <1>0, <1>p, <3>1, OthersStep DEF OwnerInv, HalfReadInv, ReadsSettled, GhostType
    <3> QED BY <3>2
  <2> QED BY <2>1, <2>2
<1>4. CASE ReadUri(a) /\ StateCall(a)
  <2>1. /\ settled' = settled /\ cache' = cache /\ pc[a] = "readUri" /\ pc'[a] = "readPath"
        /\ got'[a].uri \in {store.uri, Absent}
    BY <1>4, <1>d DEF ReadUri, ghostVars, Pair
  <2>2. OwnerInv' /\ ReadsSettled'
    BY <1>0, <1>p, <2>1, OthersStep DEF OwnerInv, ReadsSettled, GhostType
  <2>3. settled # <<>> => got'[a].uri \in Half(settled[1])
    BY <1>0, <2>1 DEF SettledPair, Half
  <2>4. HalfReadInv'
    BY <1>0, <2>1, <2>3, OthersStep DEF HalfReadInv
  <2> QED BY <2>2, <2>4
<1>5. CASE Ensure(a)
  <2>1. PICK p \in {store.path, Absent} :
          LET full == Pair(got[a].uri, p) IN
          /\ got' = [got EXCEPT ![a] = full]
          /\ cache' = CASE ~Platform.caches -> cache
                        [] Platform.caches /\ op[a] # "set" -> [cache EXCEPT ![a] = full]
                        [] OTHER -> [cache EXCEPT ![a] = Pair(arg[a], arg[a])]
    BY <1>5 DEF Ensure, ReadPath
  <2>2. /\ settled' = settled /\ pc[a] = "readPath" /\ pc' = [pc EXCEPT ![a] = Then[op[a]]]
        /\ op' = op /\ expect' = expect
    BY <1>5 DEF Ensure, ReadPath, ghostVars
  <2>3. /\ op[a] = "set" => pc'[a] = "writeUri"
        /\ op[a] = "get" => pc'[a] = "idle"
        /\ op[a] \in {"get", "set", "getSlot", "setSlot"} /\ pc'[a] \in {"idle", "writeUri", "slot"}
    BY <1>0, <1>d, <2>2 DEF Then, CallInv, StateType
  <2>4. got'[a].uri = got[a].uri /\ got'[a].path = p
    BY <1>d, <2>1 DEF Pair
  <2>5. Platform.caches /\ op[a] # "set" => cache'[a] = got'[a]
    BY <1>d, <2>1
  <2>6. ~Platform.caches => cache'[a] = NotCached
    BY <1>0, <2>1 DEF CopyInv
  <2>7. settled # <<>> /\ Platform.persistsPath => p \in Half(settled[1])
    BY <1>0, <2>1 DEF SettledPair, Half
  <2>8. OwnerInv'
    <3> SUFFICES ASSUME settled # <<>>, settled[2] = a, Platform.caches, op[a] # "set"
                 PROVE  cache'[a].uri \in Half(settled[1]) /\ cache'[a].path \in Half(settled[1])
      BY <1>0, <2>2, <2>3, <2>6, OthersStep DEF OwnerInv, GhostType
    <3>1. got[a].uri \in Half(settled[1])
      BY <1>0, <2>2 DEF HalfReadInv
    <3> QED BY <1>p, <2>4, <2>5, <2>7, <3>1
  <2>9. HalfReadInv'
    BY <1>0, <2>2, <2>3, OthersStep DEF HalfReadInv
  <2>10. ReadsSettled'
    <3>1. ASSUME op[a] = "get", expect[a] # <<>>
          PROVE  /\ got'[a].uri \in {expect[a][1], Absent}
                 /\ Platform.persistsPath => got'[a].path \in {expect[a][1], Absent}
      <4>1. expect[a] = settled /\ settled # <<>>
        BY <1>0, <3>1 DEF ExpectInv
      <4>2. got[a].uri \in Half(settled[1])
        BY <1>0, <2>2, <3>1, <4>1 DEF HalfReadInv
      <4> QED BY <2>4, <2>7, <4>1, <4>2 DEF Half
    <3> QED BY <1>0, <1>p, <2>2, <3>1, OthersStep DEF ReadsSettled
  <2> QED BY <2>8, <2>9, <2>10
<1>6. CASE (WriteUri(a) \/ WritePath(a)) /\ StateCall(a)
  <2>1. \A b \in Apps : expect'[b] = <<>>
    BY <1>6 DEF WriteUri, WritePath, Settle, Unsettle
  <2>2. ReadsSettled'
    BY <2>1 DEF ReadsSettled
  <2>3. settled' = <<>> \/ (settled' = <<arg[a], a>> /\ pc'[a] = "idle" /\ cache'[a] = cache[a]
                            /\ (pc[a] = "writeUri" => ~Platform.persistsPath)
                            /\ pc[a] \in {"writeUri", "writePath"})
    BY <1>6, <1>d DEF WriteUri, WritePath, Settle, Unsettle
  <2>4. HalfReadInv'
    BY <2>1, <2>3 DEF HalfReadInv
  <2>5. settled' # <<>> /\ cache'[a] # NotCached => cache'[a] = Pair(arg[a], arg[a])
    BY <1>0, <1>p, <2>3, PairBasics DEF CopyInv, OwnCopy, CallInv
  <2>6. OwnerInv'
    BY <2>3, <2>5 DEF OwnerInv, Half, Pair
  <2> QED BY <2>2, <2>4, <2>6
<1>7. CASE Killed(a)
  <2>1. settled' = settled /\ pc'[a] = "idle" /\ op'[a] = "none" /\ cache'[a] = NotCached
    BY <1>7, <1>d DEF Killed, Restart
  <2>2. OwnerInv' /\ HalfReadInv' /\ ReadsSettled'
    BY <1>0, <1>p, <2>1, OthersStep DEF OwnerInv, HalfReadInv, ReadsSettled, GhostType
  <2> QED BY <2>2
<1>8. ASSUME NEW u, NEW s, NEW name, BeginSlotCall(a, name, u, s) PROVE Still
  BY <1>8, <1>d DEF BeginSlotCall, Still
<1>9. CASE ReadSlot(a) \/ WriteSlot(a)
  <2>1. Still
    BY <1>0, <1>9, <1>d DEF ReadSlot, WriteSlot, EndSlotCall, ghostVars, Still
  <2> QED BY <1>1, <2>1
<1>10. CASE NioCall(a)
  <2>1. Still
    BY <1>10 DEF NioCall, stateVars, progVars, ghostVars, Still
  <2> QED BY <1>1, <2>1
<1> QED BY <1>1, <1>2, <1>3, <1>4, <1>5, <1>6, <1>7, <1>8, <1>9, <1>10
        DEF StepOf, StateCall, GetUnitSlot, SetUnitSlot

LEMMA InitIInv == FnctlInit => FnctlIInv
<1> SUFFICES ASSUME FnctlInit PROVE FnctlIInv
  OBVIOUS
<1> USE DEF FnctlInit, StateInit
<1>1. StateType /\ GhostType /\ LoadType /\ CopiedType
  BY PairBasics DEF StateType, GhostType, LoadType, CopiedType
<1>2. UnitsType /\ MappedType
  BY UnitsBasics DEF UnitsType, MappedType
<1>3. CallInv /\ SettledPair /\ WriteInv /\ ExpectInv /\ OwnerInv /\ HalfReadInv
  BY DEF CallInv, SettledPair, WriteInv, ExpectInv, OwnerInv, HalfReadInv
<1>4. ReadsSettled /\ OwnCopy /\ CopyInv /\ KeyInv /\ SetterInv
  BY DEF ReadsSettled, OwnCopy, CopyInv, KeyInv, SetterInv
<1> QED BY <1>1, <1>2, <1>3, <1>4 DEF FnctlIInv, Types

LEMMA StepIInv == ASSUME FnctlIInv, FnctlNext PROVE FnctlIInv'
<1> PICK a \in Apps : StepOf(a)
  BY DEF FnctlNext, StepOf
<1>1. StateType' /\ LoadType' /\ GhostType' /\ UnitsType' /\ MappedType' /\ CopiedType'
  BY StateTypeStep, CallStep, CopyStep, UnitsStep
<1>2. CallInv' /\ CopyInv' /\ OwnCopy'
  BY CallStep, CopyStep
<1>3. SettledPair' /\ WriteInv' /\ ExpectInv' /\ OwnerInv' /\ HalfReadInv' /\ ReadsSettled'
  BY WriteStep, ExpectStep, SettledStep
<1>4. KeyInv' /\ SetterInv'
  BY KeyStep
<1> QED BY <1>1, <1>2, <1>3, <1>4, Zenon DEF FnctlIInv, Types

LEMMA StutterIInv == ASSUME FnctlIInv, UNCHANGED fnctlVars PROVE FnctlIInv'
<1>1. UNCHANGED <<Platform, store, pc, op, arg, got, cache, writer, settled, expect,
                  unit_map, unit_slots, unit, slot, mapped, last_error>>
  BY DEF fnctlVars, stateVars, progVars, ghostVars, unitVars
<1> USE <1>1
<1>2. Types'
  BY Zenon DEF FnctlIInv, Types, StateType, LoadType, GhostType, UnitsType, MappedType, CopiedType
<1>3. CallInv' /\ SettledPair' /\ WriteInv' /\ ExpectInv' /\ OwnerInv'
  BY Zenon DEF FnctlIInv, CallInv, SettledPair, WriteInv, ExpectInv, OwnerInv
<1>4. HalfReadInv' /\ ReadsSettled' /\ OwnCopy' /\ CopyInv' /\ KeyInv' /\ SetterInv'
  BY Zenon DEF FnctlIInv, HalfReadInv, ReadsSettled, OwnCopy, CopyInv, KeyInv, SetterInv
<1> QED BY <1>2, <1>3, <1>4 DEF FnctlIInv

-----------------------------------------------------------------------------
(* The inductive invariant holds of every state the programs of any platform
   reach, however their calls interleave, fail or are cut short. *)
THEOREM FnctlInductive == FnctlSpec => []FnctlIInv
<1>1. FnctlInit => FnctlIInv
  BY InitIInv
<1>2. FnctlIInv /\ [FnctlNext]_fnctlVars => FnctlIInv'
  BY StepIInv, StutterIInv
<1> QED BY <1>1, <1>2, PTL DEF FnctlSpec

(* Every variable of the backends keeps its type, and on the Amiga a program
   uses its copies only when ensure_state() has loaded them. *)
THEOREM FnctlTypeCorrect == FnctlSpec => []FnctlTypeOK
<1>1. FnctlIInv => FnctlTypeOK
  <2> SUFFICES ASSUME FnctlIInv PROVE FnctlTypeOK
    OBVIOUS
  <2>1. StateType /\ LoadType /\ GhostType /\ UnitsType /\ MappedType /\ CopiedType /\ ExpectInv
    BY DEF FnctlIInv, Types
  <2>2. \A s \in {settled} \cup {expect[a] : a \in Apps} : s = <<>> \/ s \in Values \X Apps
    BY <2>1 DEF GhostType, ExpectInv
  <2>3. DOMAIN Then = {"get", "set", "getSlot", "setSlot"}
    BY DEF Then
  <2>4. op \in [Apps -> {"none"} \cup DOMAIN Then]
    BY <2>1, <2>3 DEF StateType
  <2>5. StateTypeOK
    BY <2>1, <2>2, <2>4 DEF StateTypeOK, StateType, LoadType
  <2> QED BY <2>1, <2>5 DEF FnctlTypeOK, UnitsType, MappedType, CopiedType
<1> QED BY <1>1, FnctlInductive, PTL

(* The two writes of fnctl_set_state() leave no mixture of two states behind,
   when they succeed and no other program writes in between. *)
THEOREM StateSettles == FnctlSpec => []SettledPair
<1>1. FnctlIInv => SettledPair
  BY DEF FnctlIInv
<1> QED BY <1>1, FnctlInductive, PTL

(* fnctl_get_state() returns no half of an older state, and no half of another
   program's: what is settled, or the empty string for a key it cannot read. *)
THEOREM StateRead == FnctlSpec => []ReadsSettled
<1>1. FnctlIInv => ReadsSettled
  BY DEF FnctlIInv
<1> QED BY <1>1, FnctlInductive, PTL

(* The Amiga's static copy is what the program itself set last. *)
THEOREM CopyKept == FnctlSpec => []OwnCopy
<1>1. FnctlIInv => OwnCopy
  BY DEF FnctlIInv
<1> QED BY <1>1, FnctlInductive, PTL

(* fnctl_get_unit_slot() answers the slot that was set, or what the platform
   falls back to; the Amiga program that set it is never answered another. *)
THEOREM SlotsAnswered == FnctlSpec => SlotAnswers
<1> DEFINE Answered ==
      \A a \in Apps, u \in Units :
        Answers(a, u) /\ mapped[u] # <<>> =>
          \/ slot'[a] = mapped[u][1]
          \/ ~Platform.caches /\ slot'[a] = u
          \/ Platform.caches /\ mapped[u][2] # a /\ slot'[a] = unit_slots[a][u]
<1>1. ASSUME FnctlIInv, [FnctlNext]_fnctlVars PROVE [Answered]_fnctlVars
  <2> SUFFICES ASSUME FnctlNext, NEW a \in Apps, NEW u \in Units, Answers(a, u), mapped[u] # <<>>
               PROVE  \/ slot'[a] = mapped[u][1]
                      \/ ~Platform.caches /\ slot'[a] = u
                      \/ Platform.caches /\ mapped[u][2] # a /\ slot'[a] = unit_slots[a][u]
    BY <1>1
  <2>0. StateType /\ UnitsType /\ KeyInv /\ SetterInv
    BY <1>1 DEF FnctlIInv, Types
  <2> PICK b \in Apps : StepOf(b)
    BY DEF FnctlNext, StepOf
  <2>1. pc[a] = "slot" /\ op[a] = "getSlot" /\ unit[a] = u /\ pc'[a] = "idle" /\ op'[a] = "getSlot"
    BY DEF Answers
  <2>2. b = a
    BY <1>1, <2>1, OthersStep
  <2>3. ReadSlot(a)
    <3>1. DOMAIN op = Apps
      BY <2>0 DEF StateType
    <3> QED BY <2>1, <2>2, <3>1
            DEF StepOf, StateCall, GetState, ReadUri, SetState, WriteUri, WritePath, Ensure, ReadPath,
                Killed, Restart, GetUnitSlot, SetUnitSlot, BeginSlotCall, WriteSlot, NioCall, stateVars,
                progVars
  <2>4. PICK found \in {unit_map[UnitKey(u)], Unset} :
          slot' = [slot EXCEPT ![a] = IF found = Unset THEN Fallback(a, u) ELSE found]
    BY <2>1, <2>3 DEF ReadSlot
  <2>5. slot'[a] = IF found = Unset THEN Fallback(a, u) ELSE found
    BY <2>0, <2>4 DEF UnitsType
  <2>6. CASE found # Unset
    BY <2>0, <2>4, <2>5, <2>6 DEF KeyInv
  <2>7. CASE found = Unset
    BY <2>0, <2>5, <2>7 DEF Fallback, SetterInv
  <2> QED BY <2>6, <2>7
<1> QED BY <1>1, FnctlInductive, PTL DEF FnctlSpec, SlotAnswers

=============================================================================

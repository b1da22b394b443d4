----------------------------- MODULE FnctlState -----------------------------
(***************************************************************************)
(* fnctl_get_state() and fnctl_set_state() of the backends that keep their *)
(* state in FujiNet's app store (src/platform/{linux,atari,bbc,amiga});    *)
(* FnctlUnits adds the other calls and the next-state relation.  Programs  *)
(* that run side by side, and may be killed at any point, read and write   *)
(* the current URI and the display path as two separate keys, each         *)
(* exchange of which may fail.                                             *)
(*                                                                         *)
(* A program sets the pair <<v, v>>, so that a pair whose halves differ is *)
(* one nobody set.                                                         *)
(***************************************************************************)
EXTENDS Naturals

CONSTANTS Apps,       \* programs linked with a backend
          Values,     \* what they set
          Absent,     \* the empty string: a key that is not there, or not read
          Part        \* what a write that was cut short leaves in a key

(* A key's contents are never mistaken for one another, nor for NotCached. *)
ASSUME StateAssumption == /\ Absent \notin Values /\ Part \notin Values /\ Absent # Part
                          /\ "not" \notin Values \cup {Absent, Part}

(* What the backends do differently: whether set_state stores the path, and
   whether a program keeps a copy of the state from its first call on. *)
Linux == [persistsPath |-> TRUE,  caches |-> FALSE]
Atari == [persistsPath |-> FALSE, caches |-> FALSE]
Bbc   == [persistsPath |-> FALSE, caches |-> FALSE]
Amiga == [persistsPath |-> TRUE,  caches |-> TRUE]
Platforms == {Linux, Atari, Bbc, Amiga}

Contents == Values \cup {Absent, Part}
Pair(u, p) == [uri |-> u, path |-> p]
Pairs == [uri : Contents, path : Contents]
NotCached == Pair("not", "cached")

VARIABLES
  Platform,   \* the backend the programs are linked with: it never changes
  store,      \* the two keys in the app store
  pc, op, arg,\* per program: where it is, the call it is in, set_state's argument
  got,        \* the state it is filling in, and then what get_state returned
  cache,      \* Amiga: the static `state`, NotCached until state_initialized
  writer,     \* ghost: who wrote the URI if nobody else has written since
  settled,    \* ghost: the pair set by the last set_state, once it has
              \*        succeeded with no other program writing meanwhile
  expect      \* ghost: per program, the settled value its get_state can see

progVars == <<pc, op, arg, got, cache>>
ghostVars == <<writer, settled, expect>>
stateVars == <<Platform, store, progVars, ghostVars>>

StateInit == /\ Platform \in Platforms
             /\ store = Pair(Absent, Absent)
             /\ pc = [a \in Apps |-> "idle"] /\ op = [a \in Apps |-> "none"]
             /\ arg = [a \in Apps |-> Absent]
             /\ got = [a \in Apps |-> Pair(Absent, Absent)]
             /\ cache = [a \in Apps |-> NotCached]
             /\ writer \in Apps /\ settled = <<>>
             /\ expect = [a \in Apps |-> <<>>]

Goto(a, l) == pc' = [pc EXCEPT ![a] = l]

-----------------------------------------------------------------------------
(* A settled value is remembered as <<v, a>>: a set v.  It can be expected of a
   get_state that reads the store, or that was made by a itself. *)
Visible(a) == IF Platform.caches /\ cache[a] # NotCached /\ settled # <<>> /\ settled[2] # a
              THEN <<>> ELSE settled

(* get_state: from the copy if there is one, else key by key. *)
GetState(a) ==
  /\ pc[a] = "idle"
  /\ op' = [op EXCEPT ![a] = "get"]
  /\ expect' = [expect EXCEPT ![a] = Visible(a)]
  /\ \/ /\ cache[a] # NotCached
        /\ got' = [got EXCEPT ![a] = cache[a]] /\ UNCHANGED pc
     \/ /\ cache[a] = NotCached
        /\ Goto(a, "readUri") /\ UNCHANGED got
  /\ UNCHANGED <<store, arg, cache, writer, settled>>

(* Slips: a copy that exists is not filled in; or it is loaded every time. *)
ForgetfulSetState(a, v) ==
  /\ pc[a] = "idle"
  /\ op' = [op EXCEPT ![a] = "set"] /\ arg' = [arg EXCEPT ![a] = v]
  /\ expect' = [expect EXCEPT ![a] = <<>>]
  /\ Goto(a, IF Platform.caches /\ cache[a] = NotCached THEN "readUri" ELSE "writeUri")
  /\ UNCHANGED <<store, got, cache, writer, settled>>
ReloadingSetState(a, v) ==
  /\ pc[a] = "idle"
  /\ op' = [op EXCEPT ![a] = "set"] /\ arg' = [arg EXCEPT ![a] = v]
  /\ expect' = [expect EXCEPT ![a] = <<>>]
  /\ Goto(a, IF Platform.caches THEN "readUri" ELSE "writeUri")
  /\ UNCHANGED <<store, got, cache, writer, settled>>

(* Setting fills in the copy before anything is written: the static `state` is
   loaded first if this is the program's first call.  An argument that is
   missing or too long is refused with nothing done, a stuttering step. *)
SetState(a, v) ==
  /\ pc[a] = "idle"
  /\ op' = [op EXCEPT ![a] = "set"] /\ arg' = [arg EXCEPT ![a] = v]
  /\ expect' = [expect EXCEPT ![a] = <<>>]
  /\ Goto(a, IF Platform.caches /\ cache[a] = NotCached THEN "readUri" ELSE "writeUri")
  /\ cache' = IF cache[a] # NotCached THEN [cache EXCEPT ![a] = Pair(v, v)] ELSE cache
  /\ UNCHANGED <<store, got, writer, settled>>

(* A slip: a read that fails leaves what the buffer held. *)
DirtyReadUri(a) == /\ pc[a] = "readUri"
                   /\ \E u \in {store.uri, got[a].uri} : got' = [got EXCEPT ![a] = Pair(u, Absent)]
                   /\ Goto(a, "readPath")
                   /\ UNCHANGED <<store, op, arg, cache, ghostVars>>

(* read_key(): a read that fails leaves the empty string, and nobody is told. *)
ReadUri(a) == /\ pc[a] = "readUri"
              /\ \E u \in {store.uri, Absent} : got' = [got EXCEPT ![a] = Pair(u, Absent)]
              /\ Goto(a, "readPath")
              /\ UNCHANGED <<store, op, arg, cache, ghostVars>>

(* What a call does once the two keys are read. *)
Then == [get |-> "idle", set |-> "writeUri", getSlot |-> "slot", setSlot |-> "slot"]

(* With the path the state is complete: get_state returns it, and the Amiga's
   ensure_state() keeps it before the call goes on. *)
ReadPath(a) ==
  /\ pc[a] = "readPath"
  /\ \E p \in {store.path, Absent} :
       LET full == Pair(got[a].uri, p) IN
       /\ got' = [got EXCEPT ![a] = full]
       /\ cache' = CASE ~Platform.caches -> cache
                     [] Platform.caches /\ op[a] # "set" -> [cache EXCEPT ![a] = full]
                     [] OTHER -> [cache EXCEPT ![a] = Pair(arg[a], arg[a])]
  /\ Goto(a, Then[op[a]])
  /\ UNCHANGED <<store, op, arg, ghostVars>>

(* What a write may leave in a key that held old when it fails: the exchange or
   its answer was lost, or fewer bytes were written than asked. *)
AfterFailedWrite(old, new) == {old, new, Part}

(* A write disturbs what was settled and what others expect. *)
Unsettle == settled' = <<>> /\ expect' = [a \in Apps |-> <<>>]
Settle(a) == /\ settled' = IF writer = a THEN <<arg[a], a>> ELSE <<>>
             /\ expect' = [b \in Apps |-> <<>>]

(* A slip: a write of fewer bytes than asked counts as a success. *)
ShortWriteUri(a) ==
  /\ pc[a] = "writeUri"
  /\ writer' = a
  /\ \E u \in {arg[a], Part} : store' = [store EXCEPT !.uri = u]
  /\ \/ Platform.persistsPath /\ Goto(a, "writePath") /\ Unsettle
     \/ /\ ~Platform.persistsPath /\ Goto(a, "idle")
        /\ settled' = <<arg[a], a>> /\ expect' = [b \in Apps |-> <<>>]
  /\ UNCHANGED <<op, arg, got, cache>>

(* write_key() for the URI; a backend that stores no path is done with it. *)
WriteUri(a) ==
  /\ pc[a] = "writeUri"
  /\ writer' = a
  /\ \/ /\ store' = [store EXCEPT !.uri = arg[a]]
        /\ \/ Platform.persistsPath /\ Goto(a, "writePath") /\ Unsettle
           \/ /\ ~Platform.persistsPath /\ Goto(a, "idle")
              /\ settled' = <<arg[a], a>> /\ expect' = [b \in Apps |-> <<>>]
     \/ /\ \E u \in AfterFailedWrite(store.uri, arg[a]) : store' = [store EXCEPT !.uri = u]
        /\ Goto(a, "idle") /\ Unsettle
  /\ UNCHANGED <<op, arg, got, cache>>

WritePath(a) ==
  /\ pc[a] = "writePath"
  /\ writer' = a
  /\ \/ store' = [store EXCEPT !.path = arg[a]] /\ Settle(a)
     \/ /\ \E p \in AfterFailedWrite(store.path, arg[a]) : store' = [store EXCEPT !.path = p]
        /\ Unsettle
  /\ Goto(a, "idle")
  /\ UNCHANGED <<op, arg, got, cache>>

(* The program ends, between calls or in the middle of one, and is started
   again: its statics are gone and the store keeps what was written. *)
Restart(a) == /\ op[a] # "none"
              /\ Goto(a, "idle") /\ op' = [op EXCEPT ![a] = "none"]
              /\ arg' = [arg EXCEPT ![a] = Absent]
              /\ got' = [got EXCEPT ![a] = Pair(Absent, Absent)]
              /\ cache' = [cache EXCEPT ![a] = NotCached]
              /\ expect' = [expect EXCEPT ![a] = <<>>]
              /\ UNCHANGED <<store, writer, settled>>

-----------------------------------------------------------------------------
(* Properties. *)

(* Every variable has its type, and the store is read for a copy only once. *)
StateTypeOK ==
  /\ Platform \in Platforms
  /\ store \in Pairs
  /\ pc \in [Apps -> {"idle", "readUri", "readPath", "writeUri", "writePath", "slot"}]
  /\ op \in [Apps -> {"none"} \cup DOMAIN Then] /\ arg \in [Apps -> Values \cup {Absent}]
  /\ got \in [Apps -> Pairs] /\ cache \in [Apps -> Pairs \cup {NotCached}]
  /\ writer \in Apps
  /\ \A a \in Apps : pc[a] \in {"readUri", "readPath"} => cache[a] = NotCached
  /\ \A s \in {settled} \cup {expect[a] : a \in Apps} : s = <<>> \/ s \in Values \X Apps

(* After a set_state that succeeded, and that no other program's write fell
   into, the store holds the pair that was set until somebody writes again:
   the two writes leave no mixture behind.  Where the path is not stored, this
   is said of the URI. *)
SettledPair == settled # <<>> => /\ store.uri = settled[1]
                                 /\ Platform.persistsPath => store.path = settled[1]

(* A get_state that runs while nobody writes returns the settled pair, a key it
   could not read being empty: never one of an older pair, and never a half of
   each, whichever programs were killed before.  A program with a copy is held
   to this for what it set itself. *)
ReadsSettled ==
  \A a \in Apps :
    pc[a] = "idle" /\ op[a] = "get" /\ expect[a] # <<>> =>
      /\ got[a].uri \in {expect[a][1], Absent}
      /\ Platform.persistsPath => got[a].path \in {expect[a][1], Absent}

(* Amiga: once a program has set the state its copy is exactly what it set
   last, although the store may have refused it. *)
OwnCopy ==
  \A a \in Apps :
    Platform.caches /\ arg[a] # Absent /\ pc[a] \in {"idle", "writeUri", "writePath", "slot"} =>
      cache[a] = Pair(arg[a], arg[a])
=============================================================================

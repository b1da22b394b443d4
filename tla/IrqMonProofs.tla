----------------------------- MODULE IrqMonProofs -----------------------------
(***************************************************************************)
(* The invariants of IrqMon for any number of vectors and any width of     *)
(* words, and how far a torn sample can be off.                            *)
(***************************************************************************)
EXTENDS IrqMon, TLAPS

-----------------------------------------------------------------------------
(* Arithmetic of quotients and remainders. *)

LEMMA Product ==
  ASSUME NEW w \in Nat, NEW a \in Int, NEW b \in Int
  PROVE  /\ w * a \in Int /\ w * (a + 1) = w * a + w
         /\ a <= b => w * a <= w * b
         /\ a \in Nat => w * a \in Nat
OBVIOUS

LEMMA QuotientRemainder ==
  ASSUME NEW w \in Nat \ {0}, NEW n \in Int
  PROVE  n = w * (n \div w) + (n % w) /\ n \div w \in Int /\ n % w \in 0..(w - 1)
OBVIOUS

(* There is one way to write a number as a multiple of w and a rest below w. *)
LEMMA UniqueQuotient ==
  ASSUME NEW w \in Nat \ {0}, NEW q \in Int, NEW r \in 0..(w - 1)
  PROVE  (w * q + r) \div w = q /\ (w * q + r) % w = r
<1> DEFINE n == w * q + r
           p == n \div w
           s == n % w
<1>1. n \in Int /\ n = w * p + s /\ p \in Int /\ s \in 0..(w - 1)
  BY QuotientRemainder, Product
<1>2. n = w * q + r
  OBVIOUS
<1> HIDE DEF n, p, s
<1>3. w * p \in Int /\ w * q \in Int
  BY <1>1, Product
<1>4. ~(p < q)
  <2> SUFFICES ASSUME p < q PROVE FALSE
    OBVIOUS
  <2>1. w * p + w <= w * q
    BY <1>1, Product
  <2> QED BY <1>1, <1>2, <1>3, <2>1
<1>5. ~(q < p)
  <2> SUFFICES ASSUME q < p PROVE FALSE
    OBVIOUS
  <2>1. w * q + w <= w * p
    BY <1>1, Product
  <2> QED BY <1>1, <1>2, <1>3, <2>1
<1>6. p = q
  BY <1>1, <1>4, <1>5
<1>7. s = r
  BY <1>1, <1>2, <1>3, <1>6
<1> QED BY <1>6, <1>7 DEF n, p, s

(* Remainders of numbers that are less than one m away from being one. *)
LEMMA Wrap ==
  ASSUME NEW m \in Nat \ {0}, NEW n \in Int
  PROVE  /\ n \in 0..(m - 1) => n % m = n
         /\ n \in m..(m + m - 1) => n % m = n - m
         /\ n \in (-m)..(-1) => n % m = n + m
<1>1. ASSUME n \in 0..(m - 1) PROVE n % m = n
  <2>1. m * 0 + n = n
    OBVIOUS
  <2> QED BY <1>1, <2>1, UniqueQuotient
<1>2. ASSUME n \in m..(m + m - 1) PROVE n % m = n - m
  <2>1. m * 1 + (n - m) = n /\ n - m \in 0..(m - 1)
    BY <1>2
  <2> QED BY <2>1, UniqueQuotient
<1>3. ASSUME n \in (-m)..(-1) PROVE n % m = n + m
  <2>1. m * (-1) + (n + m) = n /\ n + m \in 0..(m - 1) /\ -1 \in Int
    BY <1>3
  <2> QED BY <2>1, UniqueQuotient
<1> QED BY <1>1, <1>2, <1>3

(* Adding to a remainder. *)
LEMMA AddRemainder ==
  ASSUME NEW m \in Nat \ {0}, NEW n \in Int, NEW d \in Int
  PROVE  ((n % m) + d) % m = (n + d) % m
<1> DEFINE p == n \div m
           r == n % m
           q == (r + d) \div m
           s == (r + d) % m
<1>1. n = m * p + r /\ p \in Int /\ r \in 0..(m - 1)
  BY QuotientRemainder
<1>2. r + d \in Int
  BY <1>1
<1>3. r + d = m * q + s /\ q \in Int /\ s \in 0..(m - 1)
  BY <1>2, QuotientRemainder
<1> HIDE DEF p, r, q, s
<1>4. m * (p + q) = m * p + m * q /\ m * p \in Int /\ m * q \in Int /\ p + q \in Int
  BY <1>1, <1>3
<1>5. n + d = m * (p + q) + s
  BY <1>1, <1>3, <1>4
<1>6. (m * (p + q) + s) % m = s
  BY <1>3, <1>4, UniqueQuotient
<1> QED BY <1>5, <1>6 DEF s, r

-----------------------------------------------------------------------------
(* Counters and their two words. *)

LEMMA ModulusNat == Modulus \in Nat \ {0} /\ W \in Nat \ {0} /\ N \in Nat
BY IrqAssumption DEF IrqAssumption, Modulus

LEMMA Split ==
  ASSUME NEW n \in 0..(Modulus - 1)
  PROVE  Low(n) \in 0..(W - 1) /\ High(n) \in 0..(W - 1) /\ n = W * High(n) + Low(n)
<1>1. n = W * High(n) + Low(n) /\ High(n) \in Int /\ Low(n) \in 0..(W - 1)
  BY QuotientRemainder, ModulusNat DEF High, Low
<1>2. ~(High(n) < 0)
  <2> SUFFICES ASSUME High(n) < 0 PROVE FALSE
    OBVIOUS
  <2>1. W * High(n) + W <= W * 0 /\ W * 0 = 0 /\ W * High(n) \in Int
    BY <1>1, Product, ModulusNat
  <2> QED BY <1>1, <2>1, ModulusNat
<1>3. ~(High(n) >= W)
  <2> SUFFICES ASSUME High(n) >= W PROVE FALSE
    OBVIOUS
  <2>1. W * W <= W * High(n) /\ W * High(n) \in Int
    BY <1>1, Product, ModulusNat
  <2> QED BY <1>1, <2>1, ModulusNat DEF Modulus
<1> QED BY <1>1, <1>2, <1>3, ModulusNat

LEMMA Join ==
  ASSUME NEW h \in 0..(W - 1), NEW l \in 0..(W - 1)
  PROVE  /\ W * h + l \in 0..(Modulus - 1)
         /\ Low(W * h + l) = l /\ High(W * h + l) = h
<1>1. W * h \in Nat /\ W * h + W <= W * W
  BY Product, ModulusNat
<1>2. W * h + l \in 0..(Modulus - 1)
  BY <1>1, ModulusNat DEF Modulus
<1> QED BY <1>2, UniqueQuotient, ModulusNat DEF Low, High

-----------------------------------------------------------------------------
(* The inductive invariant: beside the types, where interrupts are disabled;
   how far the hooking or unhooking of the vectors has come; what a counter is
   between the two halves of a clearing; what the word that was read first is of,
   and how far the counter has moved since; and that a sample no interrupt
   disturbed is the number of interrupts handled by then. *)

HookType == /\ vec \in [Irqs -> {"null", "system", "monitor"}]
            /\ old \in [Irqs -> {"null", "system"}]
CountType == /\ count \in [Irqs -> 0..(Modulus - 1)] /\ last \in [Irqs -> 0..(Modulus - 1)]
             /\ rates \in [Irqs -> 0..(Modulus - 1)] /\ since \in [Irqs -> 0..(Modulus - 1)]
             /\ shown \in [Irqs -> 0..(Modulus - 1)]
             /\ sampledAt \in [Irqs -> {Disturbed} \cup 0..(Modulus - 1)]
PlaceType ==
  /\ pc \in {"start", "get", "set", "loop", "sample", "other", "draw", "total", "clear", "cleared",
             "put", "exited"}
  /\ i \in 0..N /\ (pc \in {"set", "other", "total", "cleared"} => i < N)
ReadType == /\ word \in [half : {"low", "high"}, value : 0..(W - 1)]
            /\ seen \in [from : 0..(Modulus - 1), more : 0..(W - 1)]

FlagInv == pc \in {"get", "set", "clear", "cleared", "put"} => iflag = FALSE

HookInv ==
  \A k \in Irqs :
    /\ pc = "start" => vec[k] = Original(k)
    /\ pc \in {"get", "set"} => IF k < i THEN vec[k] = "monitor" /\ old[k] = Original(k)
                                         ELSE vec[k] = Original(k)
    /\ pc = "set" /\ k = i => old[k] = Original(k)
    /\ pc \in {"loop", "sample", "other", "draw", "total", "clear", "cleared", "put", "exited"}
         => old[k] = Original(k)
    /\ pc = "exited" \/ (pc = "put" /\ k < i) => (k \notin Unhandled => vec[k] = "system")

ClearInv == pc = "cleared" => Low(count[i]) = 0 /\ since[i] = 0

TornInv ==
  HalfRead =>
    /\ count[i] = (seen.from + seen.more) % Modulus
    /\ word.value = IF word.half = "low" THEN Low(seen.from) ELSE High(seen.from)

SampledInv == \A k \in Irqs : sampledAt[k] # Disturbed => last[k] = sampledAt[k]

IrqIInv == /\ IrqTypeOK /\ FlagInv /\ HookInv /\ ClearInv /\ TornInv
           /\ CountExact /\ SampledInv

LEMMA TypeParts ==
  /\ IrqTypeOK <=> /\ HookType /\ CountType /\ PlaceType /\ ReadType
                  /\ installed \in BOOLEAN /\ iflag \in BOOLEAN
  /\ IrqTypeOK' <=> /\ HookType' /\ CountType' /\ PlaceType' /\ ReadType'
                   /\ installed' \in BOOLEAN /\ iflag' \in BOOLEAN
BY Zenon DEF IrqTypeOK, HookType, CountType, PlaceType, ReadType

LEMMA InitIInv == IrqInit => IrqIInv
<1> SUFFICES ASSUME IrqInit PROVE IrqIInv
  OBVIOUS
<1> USE DEF IrqInit
<1>1. HookType
  BY DEF HookType, Original
<1>2. CountType /\ ReadType
  BY ModulusNat DEF CountType, ReadType, Zero, NoWord, Disturbed
<1>3. PlaceType
  BY ModulusNat DEF PlaceType
<1>4. installed \in BOOLEAN /\ iflag \in BOOLEAN
  BY Zenon
<1>5. IrqTypeOK
  BY <1>1, <1>2, <1>3, <1>4, TypeParts, Zenon
<1>6. FlagInv /\ ClearInv /\ TornInv
  BY DEF FlagInv, ClearInv, TornInv, HalfRead
<1>7. HookInv
  BY DEF HookInv
<1>8. CountExact /\ SampledInv
  BY DEF CountExact, SampledInv, Zero
<1> QED BY <1>5, <1>6, <1>7, <1>8 DEF IrqIInv

(* Steps that leave the counters alone. *)
StillCounters == \/ InstallBegin \/ InstallGet \/ InstallSet \/ InstallEnd
                 \/ SampleBegin \/ SampleEnd \/ DrawEnd \/ ClearBegin \/ ClearEnd
                 \/ Quit \/ UninstallPut \/ UninstallEnd

(* Steps that read a counter. *)
Reading == ReadWord \/ ReadOther \/ DrawWord \/ DrawOther

LEMMA FlagStep ==
  ASSUME IrqIInv, IrqNext
  PROVE  FlagInv' /\ installed' \in BOOLEAN /\ iflag' \in BOOLEAN
<1> USE DEF IrqIInv, IrqTypeOK, FlagInv, Goto, NextIrq, hooks, counters, reading
<1>1. ASSUME NEW k \in Irqs, Interrupt(k) PROVE FlagInv' /\ installed' \in BOOLEAN /\ iflag' \in BOOLEAN
  BY <1>1, Zenon DEF Interrupt
<1>2. CASE InstallBegin \/ InstallGet \/ InstallSet \/ InstallEnd
  BY <1>2, Zenon DEF InstallBegin, InstallGet, InstallSet, InstallEnd
<1>3. CASE SampleBegin \/ Reading \/ SampleEnd \/ DrawEnd
  BY <1>3, Zenon DEF SampleBegin, Reading, ReadWord, ReadOther, DrawWord, DrawOther, FirstWord, Sample, SampleEnd, DrawEnd
<1>4. CASE ClearBegin \/ ClearWord \/ ClearRest \/ ClearEnd
  BY <1>4, Zenon DEF ClearBegin, ClearWord, ClearRest, ClearEnd
<1>5. CASE Quit \/ UninstallPut \/ UninstallEnd
  BY <1>5, Zenon DEF Quit, UninstallPut, UninstallEnd
<1> QED BY <1>1, <1>2, <1>3, <1>4, <1>5 DEF IrqNext, Reading

LEMMA PlaceStep == ASSUME IrqIInv, IrqNext PROVE PlaceType'
<1>0. PlaceType /\ N \in Nat
  BY TypeParts, ModulusNat DEF IrqIInv
<1> USE DEF PlaceType, Goto, NextIrq, Irqs
<1>1. ASSUME NEW k \in Irqs, Interrupt(k) PROVE PlaceType'
  BY <1>0, <1>1 DEF Interrupt
<1>2. CASE InstallBegin \/ InstallGet \/ InstallSet \/ InstallEnd
  BY <1>0, <1>2 DEF InstallBegin, InstallGet, InstallSet, InstallEnd
<1>3. CASE SampleBegin \/ Reading \/ SampleEnd \/ DrawEnd
  BY <1>0, <1>3 DEF SampleBegin, Reading, ReadWord, ReadOther, DrawWord, DrawOther, FirstWord, Sample, SampleEnd, DrawEnd
<1>4. CASE ClearBegin \/ ClearWord \/ ClearRest \/ ClearEnd
  BY <1>0, <1>4 DEF ClearBegin, ClearWord, ClearRest, ClearEnd
<1>5. CASE Quit \/ UninstallPut \/ UninstallEnd
  BY <1>0, <1>5 DEF Quit, UninstallPut, UninstallEnd
<1> QED BY <1>1, <1>2, <1>3, <1>4, <1>5 DEF IrqNext, Reading

LEMMA HookStep == ASSUME IrqIInv, IrqNext PROVE HookType' /\ HookInv'
<1>0. HookType /\ HookInv /\ PlaceType /\ N \in Nat
  BY TypeParts, ModulusNat DEF IrqIInv
<1> USE DEF HookType, HookInv, PlaceType, Goto, NextIrq, Irqs, hooks
<1>1. ASSUME NEW k \in Irqs, Interrupt(k) PROVE HookType' /\ HookInv'
  BY <1>0, <1>1 DEF Interrupt
<1>2. CASE InstallBegin
  BY <1>0, <1>2 DEF InstallBegin
<1>3. CASE InstallGet
  BY <1>0, <1>3 DEF InstallGet, Original
<1>4. CASE InstallSet
  BY <1>0, <1>4 DEF InstallSet
<1>5. CASE InstallEnd
  BY <1>0, <1>5 DEF InstallEnd
<1>6. CASE SampleBegin \/ Reading \/ SampleEnd \/ DrawEnd
  BY <1>0, <1>6 DEF SampleBegin, Reading, ReadWord, ReadOther, DrawWord, DrawOther, FirstWord, Sample, SampleEnd, DrawEnd
<1>7. CASE ClearBegin \/ ClearWord \/ ClearRest \/ ClearEnd
  BY <1>0, <1>7 DEF ClearBegin, ClearWord, ClearRest, ClearEnd
<1>8. CASE Quit \/ UninstallEnd
  BY <1>0, <1>8 DEF Quit, UninstallEnd
<1>9. CASE UninstallPut
  BY <1>0, <1>9 DEF UninstallPut, Original
<1> QED BY <1>1, <1>2, <1>3, <1>4, <1>5, <1>6, <1>7, <1>8, <1>9 DEF IrqNext, Reading

LEMMA StillStep ==
  ASSUME IrqIInv, StillCounters
  PROVE  CountType' /\ CountExact' /\ SampledInv' /\ ClearInv' /\ ReadType' /\ TornInv'
<1>0. /\ CountType /\ CountExact /\ SampledInv /\ ReadType
  BY TypeParts DEF IrqIInv
<1>1. /\ UNCHANGED <<counters, reading>>
      /\ pc \notin {"cleared"} /\ pc' \notin {"cleared", "other", "total"}
  BY DEF StillCounters, InstallBegin, InstallGet, InstallSet, InstallEnd, SampleBegin, SampleEnd,
         DrawEnd, ClearBegin, ClearEnd, Quit, UninstallPut, UninstallEnd, Goto, NextIrq
<1> QED BY <1>0, <1>1 DEF CountType, CountExact, SampledInv, ClearInv, ReadType, TornInv,
                          HalfRead, counters, reading

LEMMA InterruptStep ==
  ASSUME IrqIInv, NEW k \in Irqs, Interrupt(k)
  PROVE  CountType' /\ CountExact' /\ SampledInv' /\ ClearInv' /\ ReadType' /\ TornInv'
<1>0. /\ CountType /\ CountExact /\ SampledInv /\ ReadType /\ FlagInv /\ TornInv /\ PlaceType
  BY TypeParts DEF IrqIInv
<1>1. pc # "clear" /\ pc # "cleared" /\ UNCHANGED <<pc, i, last, rates, shown, sampledAt, word>>
  BY <1>0 DEF FlagInv, Interrupt, Interruptible
<1>2. ASSUME NEW n \in 0..(Modulus - 1)
      PROVE  (n + 1) % Modulus \in 0..(Modulus - 1)
  BY QuotientRemainder, ModulusNat
<1>3. CountType'
  BY <1>0, <1>1, <1>2 DEF CountType, Interrupt
<1>4. CountExact' /\ SampledInv' /\ ClearInv'
  BY <1>0, <1>1 DEF CountType, CountExact, SampledInv, ClearInv, Interrupt
<1>5. CASE HalfRead /\ k = i
  <2>1. /\ seen.from \in 0..(Modulus - 1) /\ seen.more \in 0..(W - 1) /\ seen.more < W - 1
        /\ seen' = [seen EXCEPT !.more = @ + 1]
    BY <1>0, <1>5 DEF ReadType, Interrupt, Interruptible
  <2>2. seen'.from = seen.from /\ seen'.more = seen.more + 1
    BY <1>0, <2>1 DEF ReadType
  <2>3. ReadType'
    BY <1>0, <1>1, <2>1, ModulusNat DEF ReadType
  <2>4. count[i] = (seen.from + seen.more) % Modulus /\ count'[i] = (count[i] + 1) % Modulus
    BY <1>0, <1>5 DEF TornInv, CountType, Interrupt
  <2>5. (((seen.from + seen.more) % Modulus) + 1) % Modulus = (seen.from + seen.more + 1) % Modulus
    <3>1. seen.from + seen.more \in Int /\ 1 \in Int /\ Modulus \in Nat \ {0}
      BY <2>1, ModulusNat
    <3> QED BY <3>1, AddRemainder
  <2>6. count'[i'] = (seen'.from + seen'.more) % Modulus
    <3>1. seen.from + (seen.more + 1) = seen.from + seen.more + 1
      BY <2>1
    <3> QED BY <1>1, <2>2, <2>4, <2>5, <3>1
  <2>7. TornInv'
    BY <1>0, <1>1, <1>5, <2>2, <2>6, Zenon DEF TornInv, HalfRead
  <2> QED BY <1>3, <1>4, <2>3, <2>7
<1>6. CASE ~(HalfRead /\ k = i)
  <2>1. seen' = seen /\ (HalfRead => count'[i] = count[i])
    BY <1>0, <1>6 DEF CountType, Interrupt, PlaceType, HalfRead, Irqs
  <2>2. ReadType' /\ TornInv'
    BY <1>0, <1>1, <2>1, Zenon DEF ReadType, TornInv, HalfRead
  <2> QED BY <1>3, <1>4, <2>2
<1> QED BY <1>5, <1>6

LEMMA FirstWordStep ==
  ASSUME IrqIInv, ReadWord \/ DrawWord
  PROVE  CountType' /\ CountExact' /\ SampledInv' /\ ClearInv' /\ ReadType' /\ TornInv'
<1>0. /\ CountType /\ CountExact /\ SampledInv /\ ReadType /\ PlaceType
  BY TypeParts DEF IrqIInv
<1>1. CountType' /\ CountExact' /\ SampledInv' /\ ClearInv'
  BY <1>0 DEF CountType, CountExact, SampledInv, ClearInv, ReadWord, DrawWord, FirstWord, counters
<1>2. /\ count[i] \in 0..(Modulus - 1) /\ count' = count /\ i' = i
      /\ seen' = [from |-> count[i], more |-> 0]
      /\ \/ word' = [half |-> "low", value |-> Low(count[i])]
         \/ word' = [half |-> "high", value |-> High(count[i])]
  BY <1>0, ModulusNat DEF CountType, PlaceType, ReadWord, DrawWord, FirstWord, counters, Irqs
<1>3. Low(count[i]) \in 0..(W - 1) /\ High(count[i]) \in 0..(W - 1)
  BY <1>2, Split
<1>4. ReadType'
  BY <1>2, <1>3, ModulusNat DEF ReadType
<1>5. (count[i] + 0) % Modulus = count[i]
  <2>1. count[i] + 0 = count[i] /\ count[i] \in Int
    BY <1>2, ModulusNat
  <2> QED BY <1>2, <2>1, Wrap, ModulusNat
<1>6. TornInv'
  BY <1>2, <1>5 DEF TornInv
<1> QED BY <1>1, <1>4, <1>6

LEMMA CurrentType == ASSUME IrqIInv, HalfRead PROVE Current \in 0..(Modulus - 1)
<1>1. /\ i \in Irqs /\ count[i] \in 0..(Modulus - 1)
      /\ word.half \in {"low", "high"} /\ word.value \in 0..(W - 1)
  <2>1. CountType /\ PlaceType /\ ReadType
    BY TypeParts DEF IrqIInv
  <2>2. i \in Irqs
    BY <2>1, ModulusNat DEF PlaceType, HalfRead, Irqs
  <2> QED BY <2>1, <2>2 DEF CountType, ReadType
<1>2. Low(count[i]) \in 0..(W - 1) /\ High(count[i]) \in 0..(W - 1)
  BY <1>1, Split
<1>3. W * High(count[i]) + word.value \in 0..(Modulus - 1)
  BY <1>1, <1>2, Join
<1>4. W * word.value + Low(count[i]) \in 0..(Modulus - 1)
  BY <1>1, <1>2, Join
<1>5. word.value + W * High(count[i]) = W * High(count[i]) + word.value
  BY <1>1, <1>2, Product, ModulusNat
<1> QED BY <1>3, <1>4, <1>5 DEF Current

(* A counter that no interrupt disturbs is read as it is. *)
LEMMA Undisturbed ==
  ASSUME IrqIInv, pc = "other", seen.more = 0
  PROVE  Current = since[i]
<1>1. /\ i \in Irqs /\ count[i] \in 0..(Modulus - 1) /\ count[i] = since[i]
      /\ seen.from \in 0..(Modulus - 1) /\ count[i] = (seen.from + seen.more) % Modulus
      /\ word.half \in {"low", "high"}
      /\ word.value = IF word.half = "low" THEN Low(seen.from) ELSE High(seen.from)
  BY TypeParts, ModulusNat DEF IrqIInv, CountType, PlaceType, ReadType, TornInv, HalfRead, CountExact, Irqs
<1>2. seen.from \in Int /\ seen.from + seen.more = seen.from
  BY <1>1, ModulusNat
<1>3. count[i] = seen.from
  BY <1>1, <1>2, Wrap, ModulusNat
<1>4. /\ Low(count[i]) \in 0..(W - 1) /\ High(count[i]) \in 0..(W - 1)
      /\ count[i] = W * High(count[i]) + Low(count[i])
      /\ W * High(count[i]) \in Int
  BY <1>1, Split, Product, ModulusNat
<1> QED BY <1>1, <1>3, <1>4, ModulusNat DEF Current

LEMMA ReadOtherStep ==
  ASSUME IrqIInv, ReadOther
  PROVE  CountType' /\ CountExact' /\ SampledInv' /\ ClearInv' /\ ReadType' /\ TornInv'
<1>0. CountType /\ CountExact /\ SampledInv /\ ReadType /\ PlaceType /\ pc = "other"
  BY TypeParts DEF IrqIInv, ReadOther, Sample
<1>1. i \in Irqs /\ last[i] \in 0..(Modulus - 1) /\ since[i] \in 0..(Modulus - 1)
  BY <1>0, ModulusNat DEF CountType, PlaceType, Irqs
<1>2. Current \in 0..(Modulus - 1)
  BY <1>0, CurrentType DEF HalfRead
<1> DEFINE c == Current
           r == (c - last[i]) % Modulus
           s == IF seen.more = 0 THEN since[i] ELSE Disturbed
<1>3. r \in 0..(Modulus - 1)
  <2>1. c - last[i] \in Int
    BY <1>1, <1>2, ModulusNat
  <2> HIDE DEF c
  <2> QED BY <2>1, QuotientRemainder, ModulusNat
<1>4. /\ rates' = [rates EXCEPT ![i] = r] /\ last' = [last EXCEPT ![i] = c]
      /\ sampledAt' = [sampledAt EXCEPT ![i] = s]
      /\ count' = count /\ since' = since /\ shown' = shown /\ pc' = "sample"
      /\ word' = NoWord /\ seen' = [from |-> 0, more |-> 0]
  BY DEF ReadOther, Sample, NextIrq
<1>5. s \in {Disturbed} \cup 0..(Modulus - 1) /\ (s # Disturbed => c = s)
  BY <1>0, <1>1, Undisturbed
<1>6. c \in 0..(Modulus - 1)
  BY <1>2
<1> HIDE DEF c, r, s
<1>7. CountType' /\ CountExact' /\ SampledInv' /\ ClearInv'
  BY <1>0, <1>1, <1>3, <1>4, <1>5, <1>6 DEF CountType, CountExact, SampledInv, ClearInv
<1>8. ReadType' /\ TornInv'
  BY <1>4, ModulusNat DEF ReadType, TornInv, HalfRead, NoWord
<1> QED BY <1>7, <1>8

LEMMA DrawOtherStep ==
  ASSUME IrqIInv, DrawOther
  PROVE  CountType' /\ CountExact' /\ SampledInv' /\ ClearInv' /\ ReadType' /\ TornInv'
<1>0. CountType /\ CountExact /\ SampledInv /\ Current \in 0..(Modulus - 1) /\ pc = "total"
  BY TypeParts, CurrentType DEF IrqIInv, DrawOther, HalfRead
<1>1. CountType' /\ CountExact' /\ SampledInv' /\ ClearInv'
  BY <1>0 DEF DrawOther, NextIrq, CountType, CountExact, SampledInv, ClearInv
<1>2. ReadType' /\ TornInv'
  BY ModulusNat DEF DrawOther, NextIrq, ReadType, TornInv, HalfRead, NoWord
<1> QED BY <1>1, <1>2

LEMMA ClearStep ==
  ASSUME IrqIInv, ClearWord \/ ClearRest
  PROVE  CountType' /\ CountExact' /\ SampledInv' /\ ClearInv' /\ ReadType' /\ TornInv'
<1>0. /\ CountType /\ CountExact /\ SampledInv /\ ReadType /\ PlaceType /\ ClearInv
  BY TypeParts DEF IrqIInv
<1>1. i \in Irqs /\ count[i] \in 0..(Modulus - 1)
  BY <1>0, ModulusNat DEF CountType, PlaceType, ClearWord, ClearRest, Irqs
<1>2. /\ Low(count[i]) \in 0..(W - 1) /\ High(count[i]) \in 0..(W - 1)
      /\ 0 \in 0..(W - 1) /\ 0 \in 0..(Modulus - 1)
  BY <1>1, Split, ModulusNat
<1>3. ReadType' /\ TornInv'
  BY <1>0 DEF ReadType, TornInv, HalfRead, ClearWord, ClearRest, NextIrq, reading
<1>4. CASE ClearWord
  <2>1. W * High(count[i]) + 0 = W * High(count[i])
    BY <1>2, Product, ModulusNat
  <2>2. W * High(count[i]) \in 0..(Modulus - 1) /\ Low(W * High(count[i])) = 0
    BY <1>2, <2>1, Join
  <2> DEFINE h == W * High(count[i])
  <2>3. /\ count' = [count EXCEPT ![i] = h] /\ since' = [since EXCEPT ![i] = 0]
        /\ pc = "clear" /\ pc' = "cleared" /\ i' = i /\ UNCHANGED <<last, rates, shown, sampledAt>>
    BY <1>0, <1>4 DEF ClearWord, CountType
  <2>4. h \in 0..(Modulus - 1) /\ Low(h) = 0
    BY <2>2
  <2> HIDE DEF h
  <2>5. count'[i] = h /\ since'[i] = 0
    BY <1>0, <1>1, <2>3 DEF CountType
  <2>6. CountType'
    BY <1>0, <1>1, <1>2, <2>3, <2>4 DEF CountType
  <2>7. CountExact' /\ SampledInv'
    BY <1>0, <1>1, <2>3 DEF CountType, CountExact, SampledInv
  <2>8. ClearInv'
    BY <2>3, <2>4, <2>5 DEF ClearInv
  <2> QED BY <1>3, <2>6, <2>7, <2>8
<1>5. CASE ClearRest
  <2>1. /\ count' = [count EXCEPT ![i] = 0] /\ since[i] = 0 /\ since' = since
        /\ last' = [last EXCEPT ![i] = 0] /\ rates' = [rates EXCEPT ![i] = 0]
        /\ sampledAt' = [sampledAt EXCEPT ![i] = 0] /\ shown' = shown
        /\ pc = "cleared" /\ pc' = "clear"
    BY <1>0, <1>5 DEF ClearRest, ClearInv, NextIrq, CountType
  <2>2. CountType'
    BY <1>0, <1>1, <1>2, <2>1 DEF CountType
  <2>3. CountExact' /\ SampledInv' /\ ClearInv'
    BY <1>0, <1>1, <2>1 DEF CountType, CountExact, SampledInv, ClearInv
  <2> QED BY <1>3, <2>2, <2>3
<1> QED BY <1>4, <1>5

LEMMA StepIInv == ASSUME IrqIInv, IrqNext PROVE IrqIInv'
<1>1. CountType' /\ CountExact' /\ SampledInv' /\ ClearInv' /\ ReadType' /\ TornInv'
  BY StillStep, InterruptStep, FirstWordStep, ReadOtherStep, DrawOtherStep, ClearStep, Zenon
     DEF IrqNext, StillCounters
<1>2. PlaceType'
  BY PlaceStep
<1>3. HookType' /\ HookInv'
  BY HookStep
<1>4. FlagInv' /\ installed' \in BOOLEAN /\ iflag' \in BOOLEAN
  BY FlagStep
<1>5. IrqTypeOK'
  BY <1>1, <1>2, <1>3, <1>4, TypeParts, Zenon
<1> QED BY <1>1, <1>3, <1>4, <1>5, Zenon DEF IrqIInv

LEMMA StutterIInv == ASSUME IrqIInv, UNCHANGED irqVars PROVE IrqIInv'
<1>1. UNCHANGED <<vec, old, installed, iflag, count, last, rates, shown, since, sampledAt, pc, i, word, seen>>
  BY DEF irqVars, hooks, counters, reading
<1> QED BY <1>1, Zenon DEF IrqIInv, IrqTypeOK, FlagInv, HookInv, ClearInv, TornInv, HalfRead,
                      CountExact, SampledInv

-----------------------------------------------------------------------------
(* Only the second reading of a sampled counter, and of one that is drawn, goes
   on to the next row. *)
LEMMA OnlyReadOther == ASSUME IrqNext, pc = "other", pc' = "sample" PROVE ReadOther
BY DEF IrqNext, Interrupt, InstallBegin, InstallGet, InstallSet, InstallEnd, SampleBegin, ReadWord,
       SampleEnd, DrawWord, DrawOther, DrawEnd, FirstWord, ClearBegin, ClearWord, ClearRest,
       ClearEnd, Quit, UninstallPut, UninstallEnd, Goto, NextIrq

LEMMA OnlyDrawOther == ASSUME IrqNext, pc = "total", pc' = "draw" PROVE DrawOther
BY DEF IrqNext, Interrupt, InstallBegin, InstallGet, InstallSet, InstallEnd, SampleBegin, ReadWord,
       ReadOther, Sample, SampleEnd, DrawWord, DrawEnd, FirstWord, ClearBegin, ClearWord, ClearRest,
       ClearEnd, Quit, UninstallPut, UninstallEnd, Goto, NextIrq

(* The inductive invariant holds of every state the program reaches: a counter
   is known up to the carries that come while it is read, and the hooking of
   the vectors up to the one at hand. *)
THEOREM IrqInductive == IrqSpec => []IrqIInv
<1>1. IrqInit => IrqIInv
  BY InitIInv
<1>2. IrqIInv /\ [IrqNext]_irqVars => IrqIInv'
  BY StepIInv, StutterIInv
<1> QED BY <1>1, <1>2, PTL DEF IrqSpec

(* Every variable keeps its type: no counter leaves the 32 bits of an unsigned
   long, and no loop of irqmon.c leaves the table of vectors. *)
THEOREM IrqTypeCorrect == IrqSpec => []IrqTypeOK
<1>1. IrqIInv => IrqTypeOK
  BY DEF IrqIInv
<1> QED BY <1>1, IrqInductive, PTL

(* install_handlers() saves a vector before it sets it: at any moment of the
   installation, an interrupt of a hooked vector finds the old handler that
   chain_irq() has to call. *)
THEOREM InterruptsChained == IrqSpec => []ChainsToOriginal
<1>1. IrqIInv => ChainsToOriginal
  <2> SUFFICES ASSUME IrqIInv, NEW k \in Irqs, vec[k] = "monitor" PROVE old[k] = Original(k)
    BY DEF ChainsToOriginal
  <2>1. PlaceType /\ HookInv /\ Original(k) # "monitor"
    BY TypeParts DEF IrqIInv, Original
  <2> QED BY <2>1 DEF PlaceType, HookInv
<1> QED BY <1>1, IrqInductive, PTL

(* clear_counters() writes a counter word by word with interrupts disabled: no
   interrupt is lost or counted twice. *)
THEOREM NoInterruptLost == IrqSpec => []CountExact
<1>1. IrqIInv => CountExact
  BY DEF IrqIInv
<1> QED BY <1>1, IrqInductive, PTL

(* A rate sample_counts() computes from two samples that no interrupt disturbed is
   the number of interrupts between them, for any width of the counters' words:
   also when the counter wrapped in between, and since clear_counters() when it
   was cleared in between. *)
THEOREM RatesCorrect == IrqSpec => RateExact
<1> DEFINE Exact ==
      pc = "other" /\ pc' = "sample" /\ seen.more = 0 /\ sampledAt[i] # Disturbed =>
        rates'[i] = (since[i] - sampledAt[i]) % Modulus
<1>1. ASSUME IrqIInv, [IrqNext]_irqVars PROVE [Exact]_irqVars
  <2> SUFFICES ASSUME IrqNext, pc = "other", pc' = "sample", seen.more = 0, sampledAt[i] # Disturbed
               PROVE  rates'[i] = (since[i] - sampledAt[i]) % Modulus
    BY <1>1
  <2>1. rates' = [rates EXCEPT ![i] = (Current - last[i]) % Modulus]
    BY OnlyReadOther DEF ReadOther, Sample
  <2>2. i \in Irqs /\ rates \in [Irqs -> 0..(Modulus - 1)] /\ last[i] = sampledAt[i]
    <3>1. PlaceType /\ CountType /\ SampledInv
      BY <1>1, TypeParts DEF IrqIInv
    <3> QED BY <3>1, ModulusNat DEF PlaceType, CountType, SampledInv, Irqs
  <2>3. rates'[i] = (Current - last[i]) % Modulus
    BY <2>1, <2>2
  <2>4. Current = since[i]
    BY <1>1, Undisturbed
  <2> QED BY <2>2, <2>3, <2>4
<1> QED BY <1>1, IrqInductive, PTL DEF IrqSpec, RateExact

(* uninstall_handlers() gives every IRQ that had a handler that handler back. *)
THEOREM Unhooked == IrqSpec => []HandlersRestored
<1>1. IrqIInv => HandlersRestored
  BY DEF IrqIInv, HookInv, HandlersRestored
<1> QED BY <1>1, IrqInductive, PTL

-----------------------------------------------------------------------------
(* Two words of a counter that are read one after the other. *)

(* A counter that is W * a + b when its first word is read and has moved by m,
   less than a word, when the other one is read: its words then. *)
LEMMA Moved ==
  ASSUME NEW a \in 0..(W - 1), NEW b \in 0..(W - 1), NEW m \in 0..(W - 1)
  PROVE  LET c == (W * a + b + m) % Modulus
         IN  /\ b + m < W => High(c) = a /\ Low(c) = b + m
             /\ b + m >= W => /\ High(c) = IF a + 1 = W THEN 0 ELSE a + 1
                              /\ Low(c) = b + m - W
<1> DEFINE n == W * a + b + m
           c == n % Modulus
<1>1. W \in Nat \ {0} /\ Modulus \in Nat \ {0} /\ W * a \in Nat
  BY ModulusNat, Product
<1>2. CASE b + m < W
  <2>1. b + m \in 0..(W - 1) /\ n = W * a + (b + m)
    BY <1>1, <1>2
  <2>2. n \in 0..(Modulus - 1) /\ Low(n) = b + m /\ High(n) = a
    BY <2>1, Join
  <2> HIDE DEF n
  <2>3. c = n
    BY <1>1, <2>2, Wrap
  <2> QED BY <1>1, <1>2, <2>2, <2>3 DEF n
<1>3. CASE b + m >= W
  <2>1. b + m - W \in 0..(W - 1) /\ W * (a + 1) = W * a + W /\ W * (a + 1) \in Int
    BY <1>1, <1>3, Product
  <2>2. n = W * (a + 1) + (b + m - W)
    BY <1>1, <2>1
  <2>3. CASE a + 1 = W
    <3>1. n = Modulus + (b + m - W)
      BY <2>2, <2>3 DEF Modulus
    <3>2. W * 0 + (b + m - W) = b + m - W /\ 0 \in 0..(W - 1)
      BY <1>1, <2>1
    <3>3. b + m - W \in 0..(Modulus - 1) /\ Low(b + m - W) = b + m - W /\ High(b + m - W) = 0
      BY <2>1, <3>2, Join
    <3> HIDE DEF n
    <3>4. n \in Modulus..(Modulus + Modulus - 1) /\ n - Modulus = b + m - W
      BY <1>1, <3>1, <3>3
    <3>5. c = b + m - W
      BY <1>1, <3>4, Wrap
    <3> QED BY <1>1, <1>3, <2>3, <3>3, <3>5 DEF n
  <2>4. CASE a + 1 # W
    <3>1. a + 1 \in 0..(W - 1)
      BY <1>1, <2>4
    <3>2. n \in 0..(Modulus - 1) /\ Low(n) = b + m - W /\ High(n) = a + 1
      BY <2>1, <2>2, <3>1, Join
    <3> HIDE DEF n
    <3>3. c = n
      BY <1>1, <3>2, Wrap
    <3> QED BY <1>1, <1>3, <2>4, <3>2, <3>3 DEF n
  <2> QED BY <2>3, <2>4
<1> QED BY <1>1, <1>2, <1>3

(* What a sample can be. *)
LEMMA Sampled ==
  ASSUME IrqIInv, HalfRead
  PROVE  WithinCarry(Current)
<1> USE DEF WithinCarry
<1> DEFINE f == seen.from
           m == seen.more
           a == High(f)
           b == Low(f)
<1>1. /\ f \in 0..(Modulus - 1) /\ m \in 0..(W - 1) /\ word.half \in {"low", "high"}
      /\ count[i] = (f + m) % Modulus
      /\ word.value = IF word.half = "low" THEN b ELSE a
  BY TypeParts DEF IrqIInv, ReadType, TornInv
<1>2. a \in 0..(W - 1) /\ b \in 0..(W - 1) /\ f = W * a + b
  BY <1>1, Split
<1> DEFINE c == (W * a + b + m) % Modulus
<1>3. /\ b + m < W => High(c) = a /\ Low(c) = b + m
      /\ b + m >= W => High(c) = (IF a + 1 = W THEN 0 ELSE a + 1) /\ Low(c) = b + m - W
  BY <1>1, <1>2, Moved
<1>4. count[i] = c
  BY <1>1, <1>2
<1>5. Current = IF word.half = "low" THEN b + W * High(c) ELSE W * a + Low(c)
  BY <1>1, <1>4 DEF Current
<1>6. /\ W \in Nat \ {0} /\ Modulus \in Nat \ {0} /\ W * a \in Nat /\ W <= Modulus
      /\ W * (a + 1) = W * a + W
  <2>1. W * 1 <= W * W
    BY Product, ModulusNat
  <2> QED BY <1>2, <2>1, ModulusNat, Product DEF Modulus
<1> HIDE DEF a, b, c, f, m
<1>7. f % Modulus = f /\ f \in Int
  <2>1. f \in Int
    BY <1>1, <1>6
  <2> QED BY <1>1, <1>6, <2>1, Wrap
<1>8. CASE word.half = "low" /\ b + m < W
  <2>1. Current = (f + 0) % Modulus
    BY <1>2, <1>3, <1>5, <1>6, <1>7, <1>8
  <2>2. 0 \in 0..m
    BY <1>1, <1>6
  <2> QED BY <2>1, <2>2 DEF f, m
<1>9. CASE word.half = "low" /\ b + m >= W
  <2>1. Current = b + W * (IF a + 1 = W THEN 0 ELSE a + 1)
    BY <1>3, <1>5, <1>9
  <2>2. (f + W) % Modulus = Current
    <3>1. CASE a + 1 = W
      <4>1. W * 0 = 0 /\ W * (a + 1) = Modulus
        BY <1>6, <3>1 DEF Modulus
      <4>2. Current = b
        BY <1>2, <2>1, <3>1, <4>1
      <4>3. f + W = Modulus + b /\ b \in 0..(Modulus - 1)
        BY <1>2, <1>6, <4>1
      <4>4. f + W \in Modulus..(Modulus + Modulus - 1) /\ f + W - Modulus = b
        BY <1>2, <1>6, <4>3
      <4>5. (f + W) % Modulus = f + W - Modulus
        <5>1. f + W \in Int
          BY <1>6, <1>7
        <5> DEFINE n == f + W
        <5>2. n \in Int /\ n \in Modulus..(Modulus + Modulus - 1)
          BY <4>4, <5>1
        <5> HIDE DEF n
        <5>3. n % Modulus = n - Modulus
          BY <5>2, Wrap, ModulusNat
        <5>4. n - Modulus = f + W - Modulus
          BY <1>7, ModulusNat DEF n
        <5> QED BY <5>3, <5>4 DEF n
      <4> QED BY <4>2, <4>4, <4>5
    <3>2. CASE a + 1 # W
      <4>1. a + 1 \in 0..(W - 1)
        BY <1>2, <1>6, <3>2
      <4>2. W * (a + 1) + b \in 0..(Modulus - 1)
        BY <1>2, <4>1, Join
      <4>3. f + W = W * (a + 1) + b /\ Current = W * (a + 1) + b
        BY <1>2, <1>6, <2>1, <3>2
      <4>4. f + W \in 0..(Modulus - 1)
        BY <4>2, <4>3
      <4> QED BY <1>6, <4>3, <4>4, Wrap
    <3> QED BY <3>1, <3>2
  <2> QED BY <1>9, <2>2 DEF f, m, b
<1>10. CASE word.half = "high" /\ b + m < W
  <2>1. Current = f + m
    BY <1>1, <1>2, <1>3, <1>5, <1>6, <1>10
  <2>2. b + m \in 0..(W - 1) /\ f + m = W * a + (b + m)
    BY <1>1, <1>2, <1>6, <1>10
  <2>3. f + m \in 0..(Modulus - 1)
    BY <1>2, <2>2, Join
  <2>4. Current = (f + m) % Modulus
    BY <1>6, <2>1, <2>3, Wrap
  <2>5. m \in 0..m
    BY <1>1, <1>6
  <2> QED BY <2>4, <2>5 DEF f, m
<1>11. CASE word.half = "high" /\ b + m >= W
  <2>1. Current = f + m - W
    BY <1>1, <1>2, <1>3, <1>5, <1>6, <1>11
  <2>2. b + m - W \in 0..(W - 1) /\ f + m - W = W * a + (b + m - W)
    BY <1>1, <1>2, <1>6, <1>11
  <2>3. f + m - W \in 0..(Modulus - 1)
    BY <1>2, <2>2, Join
  <2>4. Current = (f + m - W) % Modulus
    BY <1>6, <2>1, <2>3, Wrap
  <2> QED BY <1>11, <2>4 DEF f, m, b
<1>12. word.half \in {"low", "high"} /\ (b + m < W \/ b + m >= W)
  BY <1>1, <1>2, <1>6
<1> QED BY <1>8, <1>9, <1>10, <1>11, <1>12

(* An interrupt between the two reads of a counter tears what is read by exactly
   one carry, whichever word is read first and however wide the words are: the
   sample a rate is computed from, and the total on the screen. *)
THEOREM TornByOneCarry == IrqSpec => SampleWithinCarry
<1> DEFINE Within == /\ pc = "other" /\ pc' = "sample" => WithinCarry(last'[i])
                     /\ pc = "total" /\ pc' = "draw" => WithinCarry(shown'[i])
<1>1. ASSUME IrqIInv, [IrqNext]_irqVars PROVE [Within]_irqVars
  <2> SUFFICES ASSUME IrqNext PROVE Within
    BY <1>1
  <2>1. /\ i \in 0..N /\ last \in [Irqs -> 0..(Modulus - 1)] /\ shown \in [Irqs -> 0..(Modulus - 1)]
        /\ HalfRead => i \in Irqs
    <3>1. PlaceType /\ CountType
      BY <1>1, TypeParts DEF IrqIInv
    <3> HIDE DEF Within
    <3> QED BY <3>1, ModulusNat DEF PlaceType, CountType, HalfRead, Irqs
  <2>2. ASSUME pc = "other", pc' = "sample" PROVE WithinCarry(last'[i])
    <3>1. last' = [last EXCEPT ![i] = Current]
      BY <2>2, OnlyReadOther DEF ReadOther, Sample
    <3>2. HalfRead /\ last'[i] = Current
      BY <2>1, <2>2, <3>1 DEF HalfRead
    <3> QED BY <1>1, <3>2, Sampled
  <2>3. ASSUME pc = "total", pc' = "draw" PROVE WithinCarry(shown'[i])
    <3>1. shown' = [shown EXCEPT ![i] = Current]
      BY <2>3, OnlyDrawOther DEF DrawOther
    <3>2. HalfRead /\ shown'[i] = Current
      BY <2>1, <2>3, <3>1 DEF HalfRead
    <3> QED BY <1>1, <3>2, Sampled
  <2> QED BY <2>2, <2>3
<1> QED BY <1>1, IrqInductive, PTL DEF IrqSpec, SampleWithinCarry

=============================================================================

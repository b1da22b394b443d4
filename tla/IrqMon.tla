-------------------------------- MODULE IrqMon --------------------------------
(***************************************************************************)
(* msdos/apps/irqmon.c: the program hooks every interrupt vector, counts   *)
(* in the handlers it hooked and chains to the old ones, samples, draws    *)
(* and clears the counters while interrupts keep coming, and unhooks.      *)
(*                                                                         *)
(* A counter is an unsigned long, which the 16-bit program reads and       *)
(* writes as two words of W values each.  The BIOS tick count that says    *)
(* when to sample is in IrqClock.  Of the screen, the totals are kept: the *)
(* program reads the counters again to draw them.                          *)
(***************************************************************************)
EXTENDS Integers, FiniteSets

CONSTANTS N,           \* IRQ_COUNT
          W,           \* 2^16
          Unhandled    \* the IRQs whose vector is NULL when the program starts

Irqs == 0..(N - 1)

ASSUME IrqAssumption == N \in Nat /\ W \in Nat \ {0} /\ Unhandled \subseteq Irqs

VARIABLES
  vec,        \* the interrupt vectors
  old,        \* old_handlers
  installed,
  iflag,      \* whether the program has interrupts enabled
  count, last, rates,   \* irq_counts, last_counts, rates
  pc, i,      \* where the program is, and its loop variable
  shown,      \* the totals on the screen
  word,       \* the half of irq_counts[i] that was read first, and its value
  seen,       \* ghost: the values irq_counts[i] has had since then, in order
  since,      \* ghost: the interrupts handled since the counter was cleared
  sampledAt   \* ghost: since at the last sample, or Disturbed

hooks == <<vec, old, installed>>
counters == <<count, last, rates, shown, since, sampledAt>>
reading == <<word, seen>>
irqVars == <<hooks, iflag, counters, pc, i, reading>>

Modulus == W * W
Low(n) == n % W
High(n) == n \div W
Original(k) == IF k \in Unhandled THEN "null" ELSE "system"
NoWord == [half |-> "low", value |-> 0]
Zero == [k \in Irqs |-> 0]
Disturbed == -1   \* an interrupt of the IRQ came while its counter was read
HalfRead == pc \in {"other", "total"}

IrqInit == /\ vec = [k \in Irqs |-> Original(k)] /\ old = [k \in Irqs |-> "null"]
           /\ installed = FALSE /\ iflag = TRUE
           /\ count = Zero /\ last = Zero /\ rates = Zero /\ since = Zero
           /\ shown = Zero /\ sampledAt = Zero
           /\ pc = "start" /\ i = 0 /\ word = NoWord /\ seen = [from |-> 0, more |-> 0]

Goto(l) == pc' = l /\ i' = 0
NextIrq(l) == pc' = l /\ i' = i + 1

-----------------------------------------------------------------------------
(* The hardware.  An IRQ without a handler is masked.  DOS enables interrupts
   while it gets or sets a vector, whatever the program has done.  Fewer than
   W interrupts come between two instructions of the program. *)
Interruptible(k) == /\ k \notin Unhandled
                    /\ iflag \/ pc \in {"get", "set", "put"}
                    /\ HalfRead => seen.more < W - 1

(* A handler the program has hooked: chain_irq(), with interrupts disabled up
   to the call of the old handler. *)
Interrupt(k) ==
  /\ Interruptible(k) /\ vec[k] = "monitor"
  /\ count' = [count EXCEPT ![k] = (@ + 1) % Modulus]
  /\ since' = [since EXCEPT ![k] = (@ + 1) % Modulus]
  /\ seen' = IF HalfRead /\ k = i THEN [seen EXCEPT !.more = @ + 1] ELSE seen
  /\ UNCHANGED <<hooks, iflag, last, rates, shown, sampledAt, pc, i, word>>

-----------------------------------------------------------------------------
(* install_handlers() *)

InstallBegin == /\ pc = "start" /\ ~installed
                /\ iflag' = FALSE /\ Goto("get")
                /\ UNCHANGED <<hooks, counters, reading>>

(* A slip: the vector is set before it is read. *)
LateInstallGet == /\ pc = "get" /\ i < N
                  /\ vec' = [vec EXCEPT ![i] = "monitor"]
                  /\ old' = [old EXCEPT ![i] = vec'[i]]
                  /\ pc' = "set"
                  /\ UNCHANGED <<installed, iflag, counters, i, reading>>

InstallGet == /\ pc = "get" /\ i < N
              /\ old' = [old EXCEPT ![i] = vec[i]]
              /\ pc' = "set"
              /\ UNCHANGED <<vec, installed, iflag, counters, i, reading>>

InstallSet == /\ pc = "set"
              /\ vec' = [vec EXCEPT ![i] = "monitor"]
              /\ NextIrq("get")
              /\ UNCHANGED <<old, installed, iflag, counters, reading>>

InstallEnd == /\ pc = "get" /\ i = N
              /\ iflag' = TRUE /\ installed' = TRUE /\ Goto("loop")
              /\ UNCHANGED <<vec, old, counters, reading>>

-----------------------------------------------------------------------------
(* sample_counts(): the two words of a counter are read one after the other, in
   the order the compiler chose, and an interrupt may come in between. *)

SampleBegin == pc = "loop" /\ Goto("sample") /\ UNCHANGED <<hooks, iflag, counters, reading>>

FirstWord(from, to) ==
  /\ pc = from /\ i < N
  /\ \/ word' = [half |-> "low", value |-> Low(count[i])]
     \/ word' = [half |-> "high", value |-> High(count[i])]
  /\ seen' = [from |-> count[i], more |-> 0]
  /\ pc' = to
  /\ UNCHANGED <<hooks, iflag, counters, i>>

ReadWord == FirstWord("sample", "other")

(* Slips: the value is kept in a single word; the difference of an unsigned
   counter that wrapped is taken as a negative number. *)
LowCurrent == IF word.half = "low" THEN word.value ELSE Low(count[i])
(* The value put together from the word read before and the other one. *)
Current == IF word.half = "low" THEN word.value + W * High(count[i])
                                ELSE W * word.value + Low(count[i])

Sample(rate) ==
  /\ pc = "other"
  /\ rates' = [rates EXCEPT ![i] = rate]
  /\ last' = [last EXCEPT ![i] = Current]
  /\ sampledAt' = [sampledAt EXCEPT ![i] = IF seen.more = 0 THEN since[i] ELSE Disturbed]
  /\ word' = NoWord /\ seen' = [from |-> 0, more |-> 0]
  /\ NextIrq("sample")
  /\ UNCHANGED <<hooks, iflag, count, shown, since>>

SignedReadOther == Sample(Current - last[i])

ReadOther == Sample((Current - last[i]) % Modulus)

SampleEnd == pc = "sample" /\ i = N /\ Goto("draw") /\ UNCHANGED <<hooks, iflag, counters, reading>>

(* draw_vectors(): the rate of a row is the sampled one, its total is read from
   the counter again, in two words.  The vector of a row without an old handler
   is read too, which changes nothing. *)
DrawWord == FirstWord("draw", "total")

DrawOther == /\ pc = "total"
             /\ shown' = [shown EXCEPT ![i] = Current]
             /\ word' = NoWord /\ seen' = [from |-> 0, more |-> 0]
             /\ NextIrq("draw")
             /\ UNCHANGED <<hooks, iflag, count, last, rates, since, sampledAt>>

DrawEnd == pc = "draw" /\ i = N /\ Goto("loop") /\ UNCHANGED <<hooks, iflag, counters, reading>>

-----------------------------------------------------------------------------
(* clear_counters(): the words of a counter are written one after the other,
   with interrupts disabled. *)

(* Slips: interrupts stay enabled; the last sample is not cleared. *)
EnabledClearBegin == /\ pc = "loop" /\ Goto("clear")
                     /\ UNCHANGED <<hooks, iflag, counters, reading>>
ForgetfulClearRest == /\ pc = "cleared"
                      /\ count' = [count EXCEPT ![i] = Low(@)]
                      /\ rates' = [rates EXCEPT ![i] = 0]
                      /\ sampledAt' = [sampledAt EXCEPT ![i] = 0]
                      /\ NextIrq("clear")
                      /\ UNCHANGED <<hooks, iflag, last, shown, since, reading>>

ClearBegin == /\ pc = "loop" /\ iflag' = FALSE /\ Goto("clear")
              /\ UNCHANGED <<hooks, counters, reading>>

ClearWord == /\ pc = "clear" /\ i < N
             /\ count' = [count EXCEPT ![i] = W * High(@)]
             /\ since' = [since EXCEPT ![i] = 0]
             /\ pc' = "cleared"
             /\ UNCHANGED <<hooks, iflag, last, rates, shown, sampledAt, i, reading>>

ClearRest == /\ pc = "cleared"
             /\ count' = [count EXCEPT ![i] = Low(@)]
             /\ last' = [last EXCEPT ![i] = 0] /\ rates' = [rates EXCEPT ![i] = 0]
             /\ sampledAt' = [sampledAt EXCEPT ![i] = 0]
             /\ NextIrq("clear")
             /\ UNCHANGED <<hooks, iflag, shown, since, reading>>

ClearEnd == /\ pc = "clear" /\ i = N /\ iflag' = TRUE /\ Goto("loop")
            /\ UNCHANGED <<hooks, counters, reading>>

-----------------------------------------------------------------------------
(* uninstall_handlers(), and the end of the program. *)

Quit == /\ pc = "loop" /\ installed
        /\ iflag' = FALSE /\ Goto("put")
        /\ UNCHANGED <<hooks, counters, reading>>

(* A slip: the test is the wrong way round. *)
InvertedUninstallPut == /\ pc = "put" /\ i < N
                        /\ vec' = IF old[i] = "null" THEN [vec EXCEPT ![i] = old[i]] ELSE vec
                        /\ NextIrq("put")
                        /\ UNCHANGED <<old, installed, iflag, counters, reading>>

UninstallPut == /\ pc = "put" /\ i < N
                /\ vec' = IF old[i] # "null" THEN [vec EXCEPT ![i] = old[i]] ELSE vec
                /\ NextIrq("put")
                /\ UNCHANGED <<old, installed, iflag, counters, reading>>

UninstallEnd == /\ pc = "put" /\ i = N
                /\ iflag' = TRUE /\ installed' = FALSE /\ Goto("exited")
                /\ UNCHANGED <<vec, old, counters, reading>>

IrqNext == \/ \E k \in Irqs : Interrupt(k)
           \/ InstallBegin \/ InstallGet \/ InstallSet \/ InstallEnd
           \/ SampleBegin \/ ReadWord \/ ReadOther \/ SampleEnd
           \/ DrawWord \/ DrawOther \/ DrawEnd
           \/ ClearBegin \/ ClearWord \/ ClearRest \/ ClearEnd
           \/ Quit \/ UninstallPut \/ UninstallEnd

IrqSpec == IrqInit /\ [][IrqNext]_irqVars

-----------------------------------------------------------------------------
(* Properties. *)

(* Every variable has its type. *)
IrqTypeOK ==
  /\ vec \in [Irqs -> {"null", "system", "monitor"}] /\ old \in [Irqs -> {"null", "system"}]
  /\ installed \in BOOLEAN /\ iflag \in BOOLEAN
  /\ {count, last, rates, shown, since} \subseteq [Irqs -> 0..(Modulus - 1)]
  /\ sampledAt \in [Irqs -> {Disturbed} \cup 0..(Modulus - 1)]
  /\ pc \in {"start", "get", "set", "loop", "sample", "other", "draw", "total", "clear", "cleared",
             "put", "exited"}
  /\ i \in 0..N /\ (pc \in {"set", "other", "total", "cleared"} => i < N)
  /\ word \in [half : {"low", "high"}, value : 0..(W - 1)]
  /\ seen \in [from : 0..(Modulus - 1), more : 0..(W - 1)]

(* Whenever a vector leads to the program, the handler it led to before is
   known: an interrupt that comes at any moment of the installation is chained
   to the handler it was meant for. *)
ChainsToOriginal == \A k \in Irqs : vec[k] = "monitor" => old[k] = Original(k)

(* A counter is exactly the number of interrupts handled since it was cleared:
   none is lost to a clearing that an interrupt comes in the middle of. *)
CountExact == \A k \in Irqs : ~(pc = "cleared" /\ k = i) => count[k] = since[k]

(* A rate the program shows is the number of interrupts handled between the two
   samples it was computed from, also when the counter has wrapped or has been
   cleared in between, if no interrupt came while the counter was read. *)
RateExact ==
  [][pc = "other" /\ pc' = "sample" /\ seen.more = 0 /\ sampledAt[i] # Disturbed =>
       rates'[i] = (since[i] - sampledAt[i]) % Modulus]_irqVars

(* What is read of a counter in two words is a value the counter had meanwhile,
   or a torn one: off by exactly one carry, W too many when the low word was read
   before the carry and W too few when the high word was. *)
WithinCarry(value) ==
  \/ \E d \in 0..seen.more : value = (seen.from + d) % Modulus
  \/ word.half = "low" /\ Low(seen.from) + seen.more >= W
       /\ value = (seen.from + W) % Modulus
  \/ word.half = "high" /\ Low(seen.from) + seen.more >= W
       /\ value = (seen.from + seen.more - W) % Modulus

(* So are the sample a rate is computed from and the total that is drawn. *)
SampleWithinCarry ==
  [][/\ pc = "other" /\ pc' = "sample" => WithinCarry(last'[i])
     /\ pc = "total" /\ pc' = "draw" => WithinCarry(shown'[i])]_irqVars

(* When the program has ended, every IRQ that had a handler has it again. *)
HandlersRestored == pc = "exited" => \A k \in Irqs \ Unhandled : vec[k] = "system"

(* irqmon.c hooks the vectors "while running": none leads to the program when
   it has ended. *)
HookedWhileRunning == pc = "exited" => \A k \in Irqs : vec[k] # "monitor"
=============================================================================

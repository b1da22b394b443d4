------------------------------- MODULE IrqClock -------------------------------
(***************************************************************************)
(* When msdos/apps/irqmon.c samples: its main loop compares the BIOS tick  *)
(* count, which starts again at 0 at midnight, with the tick the next      *)
(* sample is due at.  The count is an unsigned long, which the 16-bit      *)
(* program reads as two words of W values each while the timer runs.       *)
(***************************************************************************)
EXTENDS Integers

CONSTANTS Day,       \* 1800B0h, the ticks of a day
          Period,    \* 18, the ticks between two samples
          W          \* 2^16

VARIABLES ticks,      \* the BIOS tick count at 0040:006C
          next_tick,
          pc,         \* start; poll: about to compare; drawn: a sample has been shown
          word,       \* the half of ticks that was read first, and its value
          rounds      \* ghost: how often the count has been used since the last tick, up to 2

clockVars == <<ticks, next_tick, pc, word, rounds>>

NoWord == [half |-> "none", value |-> 0]

ClockInit == ticks \in 0..(Day - 1) /\ next_tick = 0 /\ pc = "start" /\ word = NoWord
             /\ rounds = 0

(* The BIOS, on every timer interrupt.  The main loop is faster than the timer:
   it comes round twice between two ticks, so at least once with a count that no
   tick has torn. *)
Tick == /\ rounds = 2 /\ rounds' = 0
        /\ ticks' = (ticks + 1) % Day /\ UNCHANGED <<next_tick, pc, word>>

(* bios_ticks(): one word, in the order the compiler chose, and then the other. *)
ReadWord == /\ word = NoWord
            /\ \/ word' = [half |-> "low", value |-> ticks % W]
               \/ word' = [half |-> "high", value |-> ticks \div W]
            /\ UNCHANGED <<ticks, next_tick, pc, rounds>>

bios_ticks == IF word.half = "low" THEN word.value + W * (ticks \div W)
                                   ELSE W * word.value + (ticks % W)

(* What the program does with the count it has read. *)
With(from, to) == /\ pc = from /\ pc' = to /\ word # NoWord /\ word' = NoWord
                  /\ rounds' = IF rounds = 2 THEN 2 ELSE rounds + 1
                  /\ UNCHANGED ticks

Start == With("start", "poll") /\ next_tick' = bios_ticks

(* The difference of two counts fits a long, so its sign is the true one. *)
NotDue == With("poll", "poll") /\ bios_ticks - next_tick < 0 /\ UNCHANGED next_tick
Sample == With("poll", "drawn") /\ bios_ticks - next_tick >= 0 /\ UNCHANGED next_tick

Schedule == With("drawn", "poll") /\ next_tick' = bios_ticks + Period

Main == Start \/ ReadWord \/ NotDue \/ Sample \/ Schedule

ClockNext == Tick \/ Main

(* The timer keeps ticking and the main loop keeps running. *)
ClockSpec == ClockInit /\ [][ClockNext]_clockVars /\ WF_clockVars(Tick) /\ WF_clockVars(Main)

(* irqmon.c "counts interrupt activity, and displays" it: while the program runs
   the display is refreshed again and again. *)
KeepsDisplaying == []<>(pc = "drawn")
=============================================================================

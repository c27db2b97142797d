----------------------------- MODULE SystemTimer ----------------------------
(***************************************************************************)
(* The system timer driver, src/src/timer.c: timer_get_ticks puts a 64-bit *)
(* count together from two 32-bit registers, and timer_delay_us and        *)
(* timer_delay_ms poll it.  The counter runs on between any two reads.     *)
(*                                                                         *)
(* The counter may start anywhere and roll over, but the program does not  *)
(* run for a whole turn of its 64 bits, which takes 584 542 years.         *)
(***************************************************************************)
EXTENDS Naturals

CONSTANTS
  WordModulus,   \* 2^32
  PowerOnHigh,   \* what CHI shows when the program starts
  Delays,        \* arguments of timer_delay_us
  Millis,        \* arguments of timer_delay_ms
  UsPerMs        \* 1000

Word == 0 .. (WordModulus - 1)
Count == [hi: Word, lo: Word]    \* a 64-bit count of microseconds

ASSUME TimerAssumption ==
  /\ WordModulus \in Nat \ {0, 1} /\ PowerOnHigh \in Word
  /\ Delays \subseteq Word /\ Millis \subseteq Word /\ UsPerMs \in Nat

VARIABLES
  clock,     \* the registers CHI and CLO
  step,      \* of timer_get_ticks: "hi", "lo", "check", or "got" when it
             \* returned; "idle" outside of it
  value,     \* its hi and lo
  entered,   \* ghost: the clock when it was called
  wait,      \* of timer_delay_us: "start", "rollover" or "target" is what the
             \* count is read for; "none" outside of it
  us,        \* its argument
  from, end, \* its locals start and end
  asked,     \* ghost: the time its caller asked for
  waited     \* ghost: the time since it was called

callerVars == <<wait, us, from, end, asked>>
timerVars == <<clock, step, value, entered, callerVars, waited>>

-----------------------------------------------------------------------------
(* Comparison of counts as numbers.                                        *)
Less(a, b) == a.hi < b.hi \/ (a.hi = b.hi /\ a.lo < b.lo)

(* A count plus a word, in 64 bits.                                        *)
Plus(c, n) ==
  IF c.lo + n < WordModulus THEN [c EXCEPT !.lo = @ + n]
  ELSE [hi |-> IF c.hi + 1 = WordModulus THEN 0 ELSE c.hi + 1, lo |-> c.lo + n - WordModulus]

(* The order of the counts in time: those from PowerOnHigh on come before  *)
(* those after the rollover.                                               *)
Rolled(high) == high < PowerOnHigh
NoLater(a, b) ==
  \/ ~Rolled(a.hi) /\ Rolled(b.hi)
  \/ (Rolled(a.hi) <=> Rolled(b.hi)) /\ ~Less(b, a)

-----------------------------------------------------------------------------
TimerInit ==
  /\ \E l \in Word : clock = [hi |-> PowerOnHigh, lo |-> l]
  /\ step = "idle" /\ value = [hi |-> 0, lo |-> 0] /\ entered = clock
  /\ wait = "none" /\ us = 0 /\ from = value /\ end = value
  /\ asked = 0 /\ waited = 0

(* A microsecond passes.                                                   *)
ClockTick ==
  /\ clock' = Plus(clock, 1)
  /\ NoLater(clock, clock')
  /\ waited' = IF wait = "none" THEN 0 ELSE waited + 1
  /\ UNCHANGED <<step, value, entered, callerVars>>

GetTicks == step' = "hi" /\ entered' = clock /\ UNCHANGED <<clock, value>>

CallGetTicks ==
  /\ step = "idle"
  /\ GetTicks
  /\ UNCHANGED <<callerVars, waited>>

(* timer_delay_us, called with n for a time of t.                          *)
BeginDelay(n, t) ==
  /\ step = "idle"
  /\ GetTicks
  /\ wait' = "start" /\ us' = n /\ asked' = t /\ waited' = 0
  /\ UNCHANGED <<from, end>>

CallDelayUs == \E n \in Delays : BeginDelay(n, n)

(* timer_delay_ms: the product is a uint32_t.                              *)
CallDelayMs == \E m \in Millis : BeginDelay((m * UsPerMs) % WordModulus, m * UsPerMs)

(* The three reads of timer_get_ticks.                                     *)
ReadHigh ==
  /\ step = "hi"
  /\ value' = [value EXCEPT !.hi = clock.hi] /\ step' = "lo"
  /\ UNCHANGED <<clock, entered, callerVars, waited>>

ReadLow ==
  /\ step = "lo"
  /\ value' = [value EXCEPT !.lo = clock.lo] /\ step' = "check"
  /\ UNCHANGED <<clock, entered, callerVars, waited>>

(* Mutant of ReadHighAgain: the high half is read once only.               *)
MutNoSecondRead ==
  /\ step = "check" /\ step' = "got"
  /\ UNCHANGED <<clock, value, entered, callerVars, waited>>

(* The condition of the loop: once more if the high half has changed.      *)
ReadHighAgain ==
  /\ step = "check"
  /\ step' = IF value.hi = clock.hi THEN "got" ELSE "hi"
  /\ UNCHANGED <<clock, value, entered, callerVars, waited>>

(* timer_get_ticks returns to a caller other than timer_delay_us.          *)
TicksReturned ==
  /\ step = "got" /\ wait = "none"
  /\ step' = "idle"
  /\ UNCHANGED <<clock, value, entered, callerVars, waited>>

(* Mutant of Phase: a rollover is not thought of.                          *)
MutPhaseNoRollover(start, stop) == "target"

(* The loop that timer_delay_us begins with.                               *)
Phase(start, stop) == IF Less(stop, start) THEN "rollover" ELSE "target"

DelayStarted ==
  /\ step = "got" /\ wait = "start"
  /\ from' = value /\ end' = Plus(value, us)
  /\ wait' = Phase(from', end')
  /\ GetTicks
  /\ UNCHANGED <<us, asked, waited>>

(* while (timer_get_ticks() >= start);                                     *)
AwaitRollover ==
  /\ step = "got" /\ wait = "rollover"
  /\ wait' = IF Less(value, from) THEN "target" ELSE wait
  /\ GetTicks
  /\ UNCHANGED <<us, from, end, asked, waited>>

(* Mutant of Over: the end must be met to the microsecond.                 *)
MutOverExactly(c) == c = end

DelayOver(c) == ~Less(c, end)

(* while (timer_get_ticks() < end).                                        *)
AwaitTarget ==
  /\ step = "got" /\ wait = "target"
  /\ IF DelayOver(value)
     THEN /\ wait' = "none" /\ step' = "idle" /\ waited' = 0
          /\ UNCHANGED <<clock, value, entered>>
     ELSE GetTicks /\ UNCHANGED <<wait, waited>>
  /\ UNCHANGED <<us, from, end, asked>>

Reads == ReadHigh \/ ReadLow \/ ReadHighAgain
Polls == TicksReturned \/ DelayStarted \/ AwaitRollover \/ AwaitTarget

TimerNext ==
  \/ ClockTick
  \/ CallGetTicks \/ CallDelayUs \/ CallDelayMs
  \/ Reads \/ Polls

(* A call that was made goes on: there is one core.                        *)
TimerFairness == WF_timerVars(Reads \/ Polls)

TimerSpec == TimerInit /\ [][TimerNext]_timerVars /\ TimerFairness

-----------------------------------------------------------------------------
(* Every variable keeps its type.                                          *)
TimerTypeOK ==
  /\ {clock, value, entered, from, end} \subseteq Count
  /\ step \in {"idle", "hi", "lo", "check", "got"}
  /\ wait \in {"none", "start", "rollover", "target"}
  /\ us \in Word /\ asked \in Nat /\ waited \in Nat

(* timer_get_ticks returns a count that the timer showed while it ran,     *)
(* although it reads the halves one after the other and the low one may    *)
(* carry into the high one at any moment.                                  *)
TicksInWindow == step = "got" => NoLater(entered, value) /\ NoLater(value, clock)

(* No delay ends early, over a carry and over a rollover, if its argument  *)
(* fits the 32 bits that timer_delay_ms multiplies in.                     *)
DelayNotEarly ==
  [][wait # "none" /\ wait' = "none" /\ asked < WordModulus => waited >= asked]_timerVars

(* A delay whose end has come returns, however coarsely it polls, unless   *)
(* the counter rolls over before it has looked.                            *)
DueDelayReturns ==
  (wait = "target" /\ ~Less(clock, end)) ~> (wait = "none" \/ Less(clock, end))
=============================================================================

------------------------------ MODULE Watchdog ------------------------------
(***************************************************************************)
(* src/src/watchdog.c and the counter in PM_WDOG, which counts down while  *)
(* PM_RSTC holds a reset configuration and resets the machine at zero.     *)
(* Time is counted in ticks of that counter.  The interrupt handler of the *)
(* file is never registered, so interrupt mode ends in a reset like the    *)
(* others.                                                                 *)
(***************************************************************************)
EXTENDS Naturals

CONSTANTS
  TicksPerMs,    \* PM_WDOG_TICKS_PER_MS
  TickModulus,   \* PM_WDOG_TIME_SET + 1: the counter has 20 bits
  MaxTimeout     \* the largest timeout_ms that watchdog_init takes

ASSUME WatchdogAssumption ==
  /\ TicksPerMs \in Nat \ {0} /\ TickModulus \in Nat \ {0} /\ MaxTimeout \in Nat \ {0}
  /\ \A ms \in 1 .. MaxTimeout : (ms * TicksPerMs) % TickModulus # 0

VARIABLES
  wdt_state,   \* enabled, mode and timeout_ms
  pm_wdog,     \* ticks until the reset
  pm_rstc,     \* WRCFG: "clear", "full" or "set"
  machine,     \* "up", or "reset" by the watchdog
  quiet        \* ghost: ticks since the program last started, kicked or
               \* initialized the watchdog, whether or not that had an effect

watchdogVars == <<wdt_state, pm_wdog, pm_rstc, machine, quiet>>

Modes == {"disabled", "reset", "interrupt"}
Timeouts == 1 .. MaxTimeout

ms_to_ticks(ms) == (ms * TicksPerMs) % TickModulus
FitsCounter(ms) == ms * TicksPerMs < TickModulus

WatchdogInit ==
  /\ wdt_state = [enabled |-> FALSE, mode |-> "disabled", timeout_ms |-> 0]
  /\ pm_wdog = 0 /\ pm_rstc = "clear"
  /\ machine = "up" /\ quiet = 0

-----------------------------------------------------------------------------
(* Mutant: the counter keeps what it has until the next kick.              *)
MutInitKeepsCount(mode, ms) ==
  /\ machine = "up"
  /\ wdt_state' = [enabled |-> FALSE, mode |-> mode, timeout_ms |-> ms]
  /\ UNCHANGED pm_wdog
  /\ pm_rstc' = IF mode = "reset" THEN "full" ELSE "clear"
  /\ quiet' = 0
  /\ UNCHANGED machine

(* In reset mode this arms the counter, while enabled is still 0: until    *)
(* watchdog_start is called, kicks do nothing.                             *)
watchdog_init(mode, ms) ==
  /\ machine = "up"
  /\ wdt_state' = [enabled |-> FALSE, mode |-> mode, timeout_ms |-> ms]
  /\ pm_wdog' = ms_to_ticks(ms)
  /\ pm_rstc' = IF mode = "reset" THEN "full" ELSE "clear"
  /\ quiet' = 0
  /\ UNCHANGED machine

watchdog_start ==
  /\ machine = "up" /\ wdt_state.timeout_ms # 0
  /\ pm_wdog' = ms_to_ticks(wdt_state.timeout_ms)
  /\ pm_rstc' = IF wdt_state.mode = "reset" THEN "full" ELSE "set"
  /\ wdt_state' = [wdt_state EXCEPT !.enabled = TRUE]
  /\ quiet' = 0
  /\ UNCHANGED machine

watchdog_stop ==
  /\ machine = "up"
  /\ pm_rstc' = "clear"
  /\ wdt_state' = [wdt_state EXCEPT !.enabled = FALSE]
  /\ UNCHANGED <<pm_wdog, machine, quiet>>

watchdog_kick ==
  /\ machine = "up"
  /\ pm_wdog' = IF wdt_state.enabled THEN ms_to_ticks(wdt_state.timeout_ms) ELSE pm_wdog
  /\ quiet' = 0
  /\ UNCHANGED <<wdt_state, pm_rstc, machine>>

(* The hardware.                                                           *)
WatchdogTick ==
  /\ machine = "up" /\ pm_rstc # "clear"
  /\ pm_wdog' = pm_wdog - 1
  /\ machine' = IF pm_wdog' = 0 THEN "reset" ELSE "up"
  /\ quiet' = quiet + 1
  /\ UNCHANGED <<wdt_state, pm_rstc>>

StayReset == machine = "reset" /\ UNCHANGED watchdogVars

WatchdogNext ==
  \/ \E mode \in Modes, ms \in Timeouts : watchdog_init(mode, ms)
  \/ watchdog_start \/ watchdog_stop \/ watchdog_kick
  \/ WatchdogTick \/ StayReset

WatchdogSpec == WatchdogInit /\ [][WatchdogNext]_watchdogVars

-----------------------------------------------------------------------------
WatchdogTypeOK ==
  /\ wdt_state \in [enabled: BOOLEAN, mode: Modes, timeout_ms: Timeouts \cup {0}]
  /\ pm_wdog \in 0 .. (TickModulus - 1)
  /\ pm_rstc \in {"clear", "full", "set"}
  /\ machine \in {"up", "reset"}
  /\ quiet \in Nat

(* A program that hangs with the watchdog running is reset no later than   *)
(* it asked for, through any sequence of calls before; and a program is    *)
(* reset only after it was quiet for the time it asked for, if it had      *)
(* started the watchdog and the time fits the 20 bits.  (30 seconds do     *)
(* not: they are cut to 13.9; and before the start no kick counts.)        *)
ResetOnTime ==
  /\ machine = "up" /\ pm_rstc # "clear" => quiet < wdt_state.timeout_ms * TicksPerMs
  /\ machine = "reset" /\ wdt_state.enabled /\ FitsCounter(wdt_state.timeout_ms)
       => quiet >= wdt_state.timeout_ms * TicksPerMs
=============================================================================

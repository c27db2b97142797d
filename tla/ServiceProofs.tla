----------------------------- MODULE ServiceProofs --------------------------
(***************************************************************************)
(* The services around the boot, each for every value of its constants:    *)
(* the watchdog resets on time, the memory log reads back the newest       *)
(* messages, the mailbox answers the call that asked, the devices of a USB *)
(* bus stay in their table, a line of config.txt that stands alone is in   *)
(* the variables and in the table, the figures of a performance report fit *)
(* each other, the timer counts and delays right, and the blocks of the    *)
(* heap tile it.                                                           *)
(*                                                                         *)
(* They share nothing, so each has an inductive invariant of its own.      *)
(***************************************************************************)
EXTENDS Watchdog, LogBuffer, Mailbox, UsbHost, ConfigFile, PerfMonitor, SystemTimer,
        HeapAllocator, SequenceTheorems, WellFoundedInduction, TLAPS

-----------------------------------------------------------------------------
(* The watchdog.                                                           *)
(*                                                                         *)
(* A counter that runs stands at what is left of the time asked for: at no *)
(* more than that while watchdog_init has armed it, for a kick then        *)
(* forgets the time that passed; at just that once it was started.         *)
CounterArmed ==
  machine = "up" /\ pm_rstc # "clear" =>
    /\ pm_wdog > 0 /\ wdt_state.timeout_ms # 0
    /\ quiet + pm_wdog <= ms_to_ticks(wdt_state.timeout_ms)

CounterStarted ==
  wdt_state.enabled =>
    /\ pm_rstc # "clear" /\ wdt_state.timeout_ms # 0
    /\ quiet + pm_wdog = ms_to_ticks(wdt_state.timeout_ms)

WatchdogInv ==
  /\ WatchdogTypeOK
  /\ CounterArmed /\ CounterStarted
  /\ machine = "reset" => pm_wdog = 0

(* The ticks of a time the caller may ask for.                             *)
LEMMA Ticks ==
  ASSUME NEW ms \in Timeouts
  PROVE  /\ ms_to_ticks(ms) \in 1 .. (TickModulus - 1)
         /\ ms_to_ticks(ms) <= ms * TicksPerMs
         /\ FitsCounter(ms) => ms_to_ticks(ms) = ms * TicksPerMs
<1> DEFINE n == ms * TicksPerMs
<1>1. n \in Nat /\ TickModulus \in Nat /\ TickModulus > 0
  BY WatchdogAssumption DEF Timeouts
<1>2. n % TickModulus # 0
  BY WatchdogAssumption DEF Timeouts
<1> HIDE DEF n
<1>3. n % TickModulus \in 0 .. (TickModulus - 1) /\ n % TickModulus <= n
      /\ (n < TickModulus => n % TickModulus = n)
  <2>1. n % TickModulus \in 0 .. (TickModulus - 1)
    BY <1>1
  <2>2. n < TickModulus => n % TickModulus = n
    BY <1>1
  <2>3. CASE n < TickModulus
    BY <1>1, <2>1, <2>2, <2>3
  <2>4. CASE n >= TickModulus
    BY <1>1, <2>1, <2>4
  <2> QED
    BY <1>1, <2>1, <2>2, <2>3, <2>4
<1> QED
  BY <1>1, <1>2, <1>3 DEF ms_to_ticks, FitsCounter, n

LEMMA WatchdogInvInit == WatchdogInit => WatchdogInv
<1> SUFFICES ASSUME WatchdogInit PROVE WatchdogInv
  OBVIOUS
<1>1. 0 \in 0 .. (TickModulus - 1)
  BY WatchdogAssumption
<1>2. WatchdogTypeOK
  BY <1>1 DEF WatchdogInit, WatchdogTypeOK, Modes
<1> QED
  BY <1>2 DEF WatchdogInit, WatchdogInv, CounterArmed, CounterStarted

LEMMA WatchdogInvNext == WatchdogInv /\ [WatchdogNext]_watchdogVars => WatchdogInv'
<1> SUFFICES ASSUME WatchdogInv, [WatchdogNext]_watchdogVars PROVE WatchdogInv'
  OBVIOUS
<1>1. /\ wdt_state \in [enabled: BOOLEAN, mode: Modes, timeout_ms: Timeouts \cup {0}]
      /\ pm_wdog \in 0 .. (TickModulus - 1) /\ quiet \in Nat /\ TickModulus \in Nat
      /\ pm_rstc \in {"clear", "full", "set"} /\ machine \in {"up", "reset"}
  BY WatchdogAssumption DEF WatchdogInv, WatchdogTypeOK
<1>2. \A ms \in Timeouts : ms # 0 /\ ms_to_ticks(ms) \in 1 .. (TickModulus - 1)
  BY Ticks, WatchdogAssumption DEF Timeouts
<1>3. ASSUME NEW mode \in Modes, NEW ms \in Timeouts, watchdog_init(mode, ms)
      PROVE  WatchdogInv'
  <2>1. /\ wdt_state' = [enabled |-> FALSE, mode |-> mode, timeout_ms |-> ms]
        /\ pm_wdog' = ms_to_ticks(ms) /\ pm_rstc' \in {"full", "clear"} /\ quiet' = 0
        /\ machine = "up" /\ machine' = machine
    BY <1>3 DEF watchdog_init
  <2>2. ms_to_ticks(ms) \in 1 .. (TickModulus - 1) /\ ms # 0
    BY <1>2
  <2> QED
    BY <1>1, <2>1, <2>2 DEF WatchdogInv, WatchdogTypeOK, CounterArmed, CounterStarted
<1>4. CASE watchdog_start
  <2> DEFINE ms == wdt_state.timeout_ms
  <2>1. ms \in Timeouts
    BY <1>1, <1>4 DEF watchdog_start
  <2>2. ms_to_ticks(ms) \in 1 .. (TickModulus - 1) /\ ms # 0
    BY <1>2, <2>1
  <2>3. /\ pm_wdog' = ms_to_ticks(ms) /\ pm_rstc' \in {"full", "set"} /\ quiet' = 0
        /\ machine = "up" /\ machine' = machine
        /\ wdt_state'.timeout_ms = ms /\ wdt_state'.enabled
        /\ wdt_state' \in [enabled: BOOLEAN, mode: Modes, timeout_ms: Timeouts \cup {0}]
    BY <1>1, <1>4 DEF watchdog_start
  <2> HIDE DEF ms
  <2> QED
    BY <1>1, <2>1, <2>2, <2>3 DEF WatchdogInv, WatchdogTypeOK, CounterArmed, CounterStarted
<1>5. CASE watchdog_stop
  <2>1. /\ pm_rstc' = "clear" /\ UNCHANGED <<pm_wdog, machine, quiet>> /\ machine = "up"
        /\ ~wdt_state'.enabled
        /\ wdt_state' \in [enabled: BOOLEAN, mode: Modes, timeout_ms: Timeouts \cup {0}]
    BY <1>1, <1>5 DEF watchdog_stop
  <2> QED
    BY <1>1, <2>1 DEF WatchdogInv, WatchdogTypeOK, CounterArmed, CounterStarted
<1>6. CASE watchdog_kick
  <2> DEFINE ms == wdt_state.timeout_ms
  <2>1. /\ quiet' = 0 /\ UNCHANGED <<wdt_state, pm_rstc, machine>> /\ machine = "up"
        /\ pm_wdog' = IF wdt_state.enabled THEN ms_to_ticks(ms) ELSE pm_wdog
    BY <1>6 DEF watchdog_kick
  <2>2. CASE wdt_state.enabled
    <3>1. ms \in Timeouts /\ ms # 0
      BY <1>1, <2>2 DEF WatchdogInv, CounterStarted
    <3>2. ms_to_ticks(ms) \in 1 .. (TickModulus - 1)
      BY <1>2, <3>1
    <3> QED
      BY <1>1, <2>1, <2>2, <3>1, <3>2
         DEF WatchdogInv, WatchdogTypeOK, CounterArmed, CounterStarted
  <2>3. CASE ~wdt_state.enabled
    <3>1. pm_rstc # "clear" => ms \in Timeouts
      BY <1>1, <2>1 DEF WatchdogInv, CounterArmed
    <3>2. pm_rstc # "clear" => ms_to_ticks(ms) \in Nat
      BY <1>2, <3>1
    <3> QED
      BY <1>1, <2>1, <2>3, <3>1, <3>2
         DEF WatchdogInv, WatchdogTypeOK, CounterArmed, CounterStarted
  <2> QED
    BY <2>2, <2>3
<1>7. CASE WatchdogTick
  <2> DEFINE ms == wdt_state.timeout_ms
  <2>1. /\ machine = "up" /\ pm_rstc # "clear" /\ UNCHANGED <<wdt_state, pm_rstc>>
        /\ pm_wdog' = pm_wdog - 1 /\ quiet' = quiet + 1
        /\ machine' = IF pm_wdog' = 0 THEN "reset" ELSE "up"
    BY <1>7 DEF WatchdogTick
  <2>2. pm_wdog > 0 /\ ms # 0 /\ quiet + pm_wdog <= ms_to_ticks(ms)
    BY <2>1 DEF WatchdogInv, CounterArmed
  <2>3. ms_to_ticks(ms) \in Nat
    BY <1>1, <1>2, <2>2
  <2>4. pm_wdog' \in 0 .. (TickModulus - 1) /\ quiet' \in Nat
        /\ quiet' + pm_wdog' = quiet + pm_wdog
    BY <1>1, <2>1, <2>2
  <2>5. WatchdogTypeOK'
    BY <1>1, <2>1, <2>4 DEF WatchdogTypeOK
  <2>6. CounterArmed'
    <3>1. machine' = "up" => pm_wdog' # 0
      BY <2>1
    <3> QED
      BY <1>1, <2>1, <2>2, <2>4, <3>1 DEF CounterArmed
  <2>7. CounterStarted'
    BY <2>1, <2>4 DEF CounterStarted, WatchdogInv
  <2> QED
    BY <2>1, <2>5, <2>6, <2>7 DEF WatchdogInv
<1>8. CASE StayReset \/ UNCHANGED watchdogVars
  BY <1>8 DEF StayReset, watchdogVars, WatchdogInv, WatchdogTypeOK, CounterArmed, CounterStarted
<1> QED
  BY <1>3, <1>4, <1>5, <1>6, <1>7, <1>8 DEF WatchdogNext

(* A program that hangs is reset in the time it asked for, and one that    *)
(* kicks in time is not, for every time and every width of the counter.    *)
THEOREM WatchdogResetsOnTime == WatchdogSpec => []ResetOnTime
<1>1. WatchdogInv => ResetOnTime
  <2> SUFFICES ASSUME WatchdogInv PROVE ResetOnTime
    OBVIOUS
  <2> DEFINE ms == wdt_state.timeout_ms
  <2>1. ms \in Timeouts \cup {0} /\ pm_wdog \in Nat /\ quiet \in Nat
    BY WatchdogAssumption DEF WatchdogInv, WatchdogTypeOK
  <2>2. ASSUME machine = "up", pm_rstc # "clear"
        PROVE  quiet < ms * TicksPerMs
    <3>1. pm_wdog > 0 /\ ms # 0 /\ quiet + pm_wdog <= ms_to_ticks(ms)
      BY <2>2 DEF WatchdogInv, CounterArmed
    <3>2. ms_to_ticks(ms) \in Nat /\ ms_to_ticks(ms) <= ms * TicksPerMs /\ ms * TicksPerMs \in Nat
      BY <2>1, <3>1, Ticks, WatchdogAssumption DEF Timeouts
    <3> QED
      BY <2>1, <3>1, <3>2
  <2>3. ASSUME machine = "reset", wdt_state.enabled, FitsCounter(ms)
        PROVE  quiet >= ms * TicksPerMs
    <3>1. pm_wdog = 0 /\ ms # 0 /\ quiet + pm_wdog = ms_to_ticks(ms)
      BY <2>3 DEF WatchdogInv, CounterStarted
    <3>2. ms_to_ticks(ms) = ms * TicksPerMs /\ ms * TicksPerMs \in Nat
      BY <2>1, <2>3, <3>1, Ticks, WatchdogAssumption DEF Timeouts
    <3> QED
      BY <2>1, <3>1, <3>2
  <2> QED
    BY <2>2, <2>3 DEF ResetOnTime
<1> QED
  BY WatchdogInvInit, WatchdogInvNext, <1>1, PTL DEF WatchdogSpec

-----------------------------------------------------------------------------
(* The memory log.                                                         *)
(*                                                                         *)
(* A ring that is not full starts at its first slot; a full one starts at  *)
(* the slot that is written next.                                          *)
RingHolds(ring, head, count, messages) ==
  /\ head \in LogIndices /\ count \in 0 .. LogSize
  /\ messages \in Seq(Messages \cup {Greeting}) /\ Len(messages) = count
  /\ count < LogSize => head = count
  /\ \A i \in 0 .. (count - 1) :
       ring[IF count < LogSize THEN i ELSE (head + i) % LogSize] = messages[i + 1]

LogInv == LogTypeOK /\ RingHolds(log_buffer, log_buffer_head, entry_count, logged)

(* Indices of the ring, without the modulus.                               *)
LEMMA LogIndex ==
  ASSUME NEW k \in 0 .. (LogSize - 1), NEW i \in 0 .. LogSize
  PROVE  (k + i) % LogSize = IF k + i < LogSize THEN k + i ELSE k + i - LogSize
<1>1. LogSize \in Nat /\ LogSize > 0 /\ k + i \in 0 .. (2 * LogSize - 1)
  BY LogAssumption
<1>2. CASE k + i < LogSize
  <2>1. k + i \in 0 .. (LogSize - 1)
    BY <1>1, <1>2
  <2>2. (k + i) % LogSize = k + i
    BY <1>1, <2>1
  <2> QED
    BY <1>2, <2>2
<1>3. CASE ~(k + i < LogSize)
  <2>1. k + i - LogSize \in 0 .. (LogSize - 1)
    BY <1>1, <1>3
  <2>2. (k + i - LogSize) % LogSize = k + i - LogSize
    BY <1>1, <2>1
  <2>3. (k + i) % LogSize = (k + i - LogSize) % LogSize
    BY <1>1, <1>3
  <2> QED
    BY <1>3, <2>2, <2>3
<1> QED
  BY <1>2, <1>3

(* The newest messages, when there is one more.                            *)
LEMMA NewestAppended ==
  ASSUME NEW s \in Seq(Messages \cup {Greeting}), Len(s) <= LogSize,
         NEW m \in Messages \cup {Greeting}, NEW t, t = Newest(Append(s, m)),
         NEW lost, lost = IF Len(s) < LogSize THEN 0 ELSE 1
  PROVE  /\ t \in Seq(Messages \cup {Greeting})
         /\ Len(t) = Len(s) + 1 - lost
         /\ t[Len(t)] = m
         /\ \A i \in 1 .. (Len(t) - 1) : t[i] = s[i + lost]
<1> DEFINE a == Append(s, m)
<1>1. /\ LogSize \in Nat /\ LogSize > 0 /\ Len(s) \in Nat
      /\ a \in Seq(Messages \cup {Greeting}) /\ Len(a) = Len(s) + 1
      /\ a[Len(s) + 1] = m /\ \A i \in 1 .. Len(s) : a[i] = s[i]
  BY LogAssumption
<1>4. t = Newest(a)
  OBVIOUS
<1> HIDE DEF a
<1>2. CASE Len(s) < LogSize
  <2>1. t = a /\ lost = 0
    BY <1>1, <1>2, <1>4 DEF Newest
  <2> QED
    BY <1>1, <1>2, <2>1
<1>3. CASE Len(s) = LogSize
  <2>1. t = SubSeq(a, 2, LogSize + 1)
    <3>1. Len(a) - LogSize + 1 = 2 /\ Len(a) = LogSize + 1 /\ ~(Len(a) <= LogSize)
      BY <1>1, <1>3
    <3> QED
      BY <1>4, <3>1 DEF Newest
  <2>2. 2 \in 1 .. (Len(a) + 1) /\ LogSize + 1 \in (2 - 1) .. Len(a) /\ 2 <= LogSize + 1
        /\ LogSize + 1 - 2 + 1 = LogSize
    BY <1>1, <1>3
  <2>3. /\ SubSeq(a, 2, LogSize + 1) \in Seq(Messages \cup {Greeting})
        /\ Len(SubSeq(a, 2, LogSize + 1)) = LogSize
        /\ \A i \in 1 .. LogSize : SubSeq(a, 2, LogSize + 1)[i] = a[2 + i - 1]
    BY <1>1, <2>2, SubSeqProperties
  <2>4. t \in Seq(Messages \cup {Greeting}) /\ Len(t) = LogSize
        /\ \A i \in 1 .. LogSize : t[i] = a[i + 1]
    <3>1. \A i \in 1 .. LogSize : 2 + i - 1 = i + 1
      BY <1>1
    <3> QED
      BY <2>1, <2>3, <3>1
  <2>5. t[LogSize] = m
    BY <1>1, <1>3, <2>4
  <2>6. \A i \in 1 .. (LogSize - 1) : i + 1 \in 1 .. Len(s) /\ i \in 1 .. LogSize
    BY <1>1, <1>3
  <2>7. \A i \in 1 .. (LogSize - 1) : t[i] = s[i + 1]
    BY <1>1, <2>4, <2>6
  <2>8. Len(s) + 1 - 1 = LogSize /\ lost = 1
    BY <1>1, <1>3
  <2> QED
    BY <1>3, <2>4, <2>5, <2>7, <2>8
<1> QED
  BY <1>1, <1>2, <1>3

(* log_write puts the message where a reader finds it last.                *)
LEMMA RingWritten ==
  ASSUME NEW ring \in [LogIndices -> Messages \cup {Greeting}], NEW head, NEW count,
         NEW messages, RingHolds(ring, head, count, messages),
         NEW m \in Messages \cup {Greeting}
  PROVE  RingHolds([ring EXCEPT ![head] = m], (head + 1) % LogSize,
                   IF count < LogSize THEN count + 1 ELSE count,
                   Newest(Append(messages, m)))
<1> DEFINE r == [ring EXCEPT ![head] = m]
           h == (head + 1) % LogSize
           c == IF count < LogSize THEN count + 1 ELSE count
           t == Newest(Append(messages, m))
           lost == IF count < LogSize THEN 0 ELSE 1
           At(i) == IF c < LogSize THEN i ELSE (h + i) % LogSize
           Was(i) == IF count < LogSize THEN i ELSE (head + i) % LogSize
<1>1. /\ LogSize \in Nat /\ LogSize > 0
      /\ head \in 0 .. (LogSize - 1) /\ count \in 0 .. LogSize
      /\ messages \in Seq(Messages \cup {Greeting}) /\ Len(messages) = count
      /\ count < LogSize => head = count
  BY LogAssumption DEF RingHolds, LogIndices
<1>2. \A i \in 0 .. (count - 1) : ring[Was(i)] = messages[i + 1]
  BY DEF RingHolds
<1>3. /\ t \in Seq(Messages \cup {Greeting})
      /\ Len(t) = count + 1 - lost /\ t[Len(t)] = m
      /\ \A i \in 1 .. (Len(t) - 1) : t[i] = messages[i + lost]
  BY <1>1, NewestAppended
<1> HIDE DEF t
<1>4. Len(t) = c /\ c \in 1 .. LogSize
  BY <1>1, <1>3
<1>5. h = IF head + 1 < LogSize THEN head + 1 ELSE 0
  <2>1. 1 \in 0 .. LogSize
    BY <1>1
  <2> QED
    BY <1>1, <2>1, LogIndex
<1> HIDE DEF h
<1>6. h \in 0 .. (LogSize - 1) /\ (c < LogSize => h = c)
  BY <1>1, <1>5
<1>7. ASSUME NEW i \in 0 .. (LogSize - 1)
      PROVE  (h + i) % LogSize = IF h + i < LogSize THEN h + i ELSE h + i - LogSize
  BY <1>1, <1>6, LogIndex
<1>8. ASSUME NEW i \in 0 .. (LogSize - 1)
      PROVE  (head + i) % LogSize = IF head + i < LogSize THEN head + i ELSE head + i - LogSize
  BY <1>1, LogIndex
<1>9. At(c - 1) = head
  <2>1. CASE c < LogSize
    <3>1. count < LogSize /\ head = count
      BY <1>1, <2>1
    <3>2. c = count + 1 /\ c - 1 = head
      BY <1>1, <3>1
    <3> HIDE DEF c
    <3> QED
      BY <2>1, <3>2
  <2>2. CASE c = LogSize
    <3>1. LogSize - 1 \in 0 .. (LogSize - 1)
      BY <1>1
    <3>2. (h + (LogSize - 1)) % LogSize = head
      BY <1>1, <1>5, <1>7, <3>1
    <3> QED
      BY <1>1, <2>2, <3>2
  <2> QED
    <3> HIDE DEF c, At
    <3>1. c < LogSize \/ c = LogSize
      BY <1>1, <1>4
    <3> QED
      BY <2>1, <2>2, <3>1
<1>10. ASSUME NEW i \in 0 .. (c - 2)
       PROVE  /\ At(i) = Was(i + lost) /\ At(i) # head /\ At(i) \in 0 .. (LogSize - 1)
              /\ i + lost \in 0 .. (count - 1)
  <2>1. i \in 0 .. (LogSize - 1) /\ i + 1 \in 0 .. (LogSize - 1) /\ i + lost \in 0 .. (count - 1)
    BY <1>1, <1>4
  <2>2. CASE count < LogSize
    BY <1>1, <1>4, <1>5, <1>7, <2>1, <2>2
  <2>3. CASE count = LogSize
    <3>1. /\ (h + i) % LogSize = IF h + i < LogSize THEN h + i ELSE h + i - LogSize
          /\ (head + (i + 1)) % LogSize
               = IF head + (i + 1) < LogSize THEN head + (i + 1) ELSE head + (i + 1) - LogSize
      BY <1>7, <1>8, <2>1
    <3>2. At(i) = (h + i) % LogSize /\ Was(i + lost) = (head + (i + 1)) % LogSize /\ c = LogSize
      BY <1>1, <2>3
    <3> HIDE DEF At, Was, c
    <3> QED
      BY <1>1, <1>5, <2>1, <3>1, <3>2
  <2> QED
    BY <1>1, <2>2, <2>3
<1>11. ASSUME NEW i \in 0 .. (c - 1)
       PROVE  r[At(i)] = t[i + 1]
  <2>1. CASE i = c - 1
    <3>1. r[head] = m
      BY <1>1 DEF LogIndices
    <3>2. t[i + 1] = m
      BY <1>3, <1>4, <2>1
    <3> HIDE DEF r, At, c
    <3> QED
      BY <1>9, <2>1, <3>1, <3>2
  <2>2. CASE i # c - 1
    <3>1. i \in 0 .. (c - 2) /\ i + 1 \in 1 .. (Len(t) - 1)
      BY <1>4, <2>2
    <3>2. /\ At(i) = Was(i + lost) /\ At(i) # head /\ At(i) \in LogIndices
          /\ i + lost \in 0 .. (count - 1)
      BY <1>10, <3>1 DEF LogIndices
    <3>3. t[i + 1] = messages[(i + 1) + lost] /\ (i + 1) + lost = (i + lost) + 1
      BY <1>3, <3>1
    <3>4. ring[Was(i + lost)] = messages[(i + lost) + 1]
      BY <1>2, <3>2
    <3> HIDE DEF At, Was, c, lost
    <3> QED
      BY <3>2, <3>3, <3>4
  <2> QED
    BY <2>1, <2>2
<1> QED
  BY <1>3, <1>4, <1>6, <1>11 DEF RingHolds, LogIndices, h, t

(* A ring without entries holds no messages, whatever its slots contain.   *)
LEMMA EmptyRing ==
  ASSUME NEW ring
  PROVE  RingHolds(ring, 0, 0, <<>>)
<1>1. 0 \in LogIndices /\ 0 \in 0 .. LogSize
  BY LogAssumption DEF LogIndices
<1>2. <<>> \in Seq(Messages \cup {Greeting}) /\ Len(<<>>) = 0 /\ 0 .. (0 - 1) = {}
  OBVIOUS
<1> QED
  BY <1>1, <1>2 DEF RingHolds

LEMMA LogInvInit == LogInit => LogInv
<1> SUFFICES ASSUME LogInit PROVE LogInv
  OBVIOUS
<1>1. 0 \in 0 .. (LogSize - 1) /\ 0 \in 0 .. LogSize /\ 0 \in 0 .. LogLevels
  BY LogAssumption
<1>2. LogTypeOK
  <2>1. log_buffer \in [LogIndices -> Messages \cup {Greeting}]
    BY DEF LogInit
  <2> QED
    BY <1>1, <2>1 DEF LogInit, LogTypeOK, Levels, LogIndices
<1>3. RingHolds(log_buffer, 0, 0, <<>>)
  BY EmptyRing
<1> QED
  BY <1>2, <1>3 DEF LogInit, LogInv

LEMMA LogInvNext == LogInv /\ [LogNext]_logVars => LogInv'
<1> SUFFICES ASSUME LogInv, [LogNext]_logVars PROVE LogInv'
  OBVIOUS
<1>1. /\ log_buffer \in [LogIndices -> Messages \cup {Greeting}]
      /\ RingHolds(log_buffer, log_buffer_head, entry_count, logged)
      /\ log_level \in Levels /\ {toMemory, cleared} \subseteq BOOLEAN
  BY DEF LogInv, LogTypeOK
<1>2. RingHolds(log_buffer, 0, 0, <<>>)
  BY EmptyRing
<1>3. ASSUME NEW level \in Levels \ {0}, NEW m \in Messages, log_write(level, m)
      PROVE  LogInv'
  <2>1. CASE level <= log_level /\ toMemory
    <3>1. /\ log_buffer' = [log_buffer EXCEPT ![log_buffer_head] = m]
          /\ log_buffer_head' = (log_buffer_head + 1) % LogSize
          /\ entry_count' = IF entry_count < LogSize THEN entry_count + 1 ELSE entry_count
          /\ logged' = Newest(Append(logged, m)) /\ UNCHANGED <<log_level, toMemory, cleared>>
      BY <1>3, <2>1 DEF log_write, Stored
    <3>2. RingHolds(log_buffer', log_buffer_head', entry_count', logged')
      BY <1>1, <3>1, RingWritten
    <3> QED
      BY <1>1, <3>1, <3>2 DEF LogInv, LogTypeOK, RingHolds
  <2>2. CASE ~(level <= log_level /\ toMemory)
    BY <1>3, <2>2 DEF log_write, LogInv, LogTypeOK, RingHolds
  <2> QED
    BY <2>1, <2>2
<1>4. ASSUME NEW level \in Levels, NEW inMemory \in BOOLEAN, log_init(level, inMemory)
      PROVE  LogInv'
  <2>1. CASE INFO <= level /\ inMemory
    <3>1. /\ log_buffer' = [log_buffer EXCEPT ![0] = Greeting]
          /\ log_buffer_head' = (0 + 1) % LogSize
          /\ entry_count' = IF 0 < LogSize THEN 0 + 1 ELSE 0
          /\ logged' = <<Greeting>> /\ log_level' = level /\ toMemory' = inMemory
          /\ cleared' = cleared
      BY <1>4, <2>1 DEF log_init, Stored
    <3>2. Newest(Append(<<>>, Greeting)) = <<Greeting>>
      BY LogAssumption DEF Newest
    <3>3. RingHolds([log_buffer EXCEPT ![0] = Greeting], (0 + 1) % LogSize,
                    IF 0 < LogSize THEN 0 + 1 ELSE 0, Newest(Append(<<>>, Greeting)))
      BY <1>1, <1>2, RingWritten
    <3>4. RingHolds(log_buffer', log_buffer_head', entry_count', logged')
      BY <3>1, <3>2, <3>3
    <3> QED
      BY <1>1, <3>1, <3>4 DEF LogInv, LogTypeOK, RingHolds
  <2>2. CASE ~(INFO <= level /\ inMemory)
    BY <1>1, <1>2, <1>4, <2>2 DEF log_init, LogInv, LogTypeOK, RingHolds
  <2> QED
    BY <2>1, <2>2
<1>5. ASSUME NEW level \in Levels, log_set_level(level)
      PROVE  LogInv'
  BY <1>5 DEF log_set_level, LogInv, LogTypeOK, RingHolds
<1>6. ASSUME NEW inMemory \in BOOLEAN, log_set_targets(inMemory)
      PROVE  LogInv'
  BY <1>6 DEF log_set_targets, LogInv, LogTypeOK, RingHolds
<1>7. CASE log_clear_memory
  BY <1>1, <1>2, <1>7 DEF log_clear_memory, LogInv, LogTypeOK, RingHolds
<1>8. ASSUME NEW level \in Levels \ {0}, WriteTooLong(level)
      PROVE  LogInv'
  BY <1>8 DEF WriteTooLong, LogInv, LogTypeOK, RingHolds
<1>9. CASE UNCHANGED logVars
  BY <1>9 DEF logVars, LogInv, LogTypeOK, RingHolds
<1> QED
  BY <1>3, <1>4, <1>5, <1>6, <1>7, <1>8, <1>9 DEF LogNext, Cleared

(* What is read from the memory log, index by index, is the newest of the  *)
(* messages that passed, oldest first, for every size of the ring, as long *)
(* as none was of 255 characters.                                          *)
THEOREM LogReadsNewest == LogSpec => []ReadsNewest
<1>1. LogInv => ReadsNewest
  BY DEF LogInv, RingHolds, ReadsNewest, log_get_entry
<1> QED
  BY LogInvInit, LogInvNext, <1>1, PTL DEF LogSpec

-----------------------------------------------------------------------------
(* The mailbox.                                                            *)
(*                                                                         *)
(* Before a call has timed out, there is at most one message on the way,   *)
(* and it is the running call's: sent, taken or answered.                  *)
NothingOnItsWay == inbox = 0 /\ firmware = NoTag /\ outbox = 0

Answered ==
  \/ mailbox_buffer.code = "success" /\ mailbox_buffer.value = tag
  \/ mailbox_buffer.code = "error" /\ "refused" \in mishaps

OneMessage ==
  /\ call \in {"idle", "send"} => NothingOnItsWay
  /\ call = "send" => mailbox_buffer.tag = tag
  /\ call = "await" =>
       /\ mailbox_buffer.tag = tag
       /\ \/ inbox = 1 /\ firmware = NoTag /\ outbox = 0
          \/ inbox = 0 /\ firmware = tag /\ outbox = 0
          \/ inbox = 0 /\ firmware = NoTag /\ outbox = 1 /\ Answered
  /\ call = "check" => NothingOnItsWay /\ Answered

MailTypes ==
  /\ mailbox_buffer \in [tag: Tags \cup {NoTag}, code: {"request", "success", "error"},
                 value: Tags \cup {NoTag}]
  /\ firmware \in Tags \cup {NoTag}
  /\ call \in {"idle", "send", "await", "check"} /\ tag \in Tags \cup {NoTag}
  /\ call # "idle" => tag \in Tags
  /\ inbox \in Nat /\ outbox \in Nat
  /\ returned \in {"none", "failed", "ok"}

MailInv == MailTypes /\ ("late" \notin mishaps => OneMessage) /\ MailSound

LEMMA MailInvInit == MailInit => MailInv
BY DEF MailInit, MailInv, MailTypes, OneMessage, NothingOnItsWay, MailSound, AnswerMatches,
       HealthyCallSucceeds

(* A call that ends without an answer says why.                            *)
LEMMA MailFailsInv ==
  ASSUME MailInv, NEW why \in {{"full"}, {"late"}}, MailFails(why),
         why = {"late"} \/ call = "send"
  PROVE  MailInv'
<1>1. /\ call' = "idle" /\ returned' = "failed" /\ mishaps' = mishaps \cup why
      /\ UNCHANGED <<mailbox_buffer, inbox, firmware, outbox, tag, response>>
  BY DEF MailFails, firmwareSide
<1>2. mishaps' # {}
  BY <1>1
<1>3. "late" \notin mishaps' => OneMessage'
  BY <1>1 DEF MailInv, OneMessage, NothingOnItsWay
<1> QED
  BY <1>1, <1>2, <1>3 DEF MailInv, MailTypes, MailSound, AnswerMatches, HealthyCallSucceeds

LEMMA MailInvNext == MailInv /\ [MailNext]_mailVars => MailInv'
<1> SUFFICES ASSUME MailInv, [MailNext]_mailVars PROVE MailInv'
  OBVIOUS
<1> USE DEF MailInv, MailTypes, MailSound, AnswerMatches, HealthyCallSucceeds
<1>1. CASE \E t \in Tags : MailPrepare(t)
  BY <1>1 DEF MailPrepare, firmwareSide, OneMessage, NothingOnItsWay
<1>2. CASE MailSend
  <2>1. /\ call = "send" /\ inbox' = inbox + 1 /\ call' = "await"
        /\ UNCHANGED <<mailbox_buffer, firmware, outbox, tag, returned, response, mishaps>>
    BY <1>2 DEF MailSend
  <2>2. "late" \notin mishaps' => OneMessage'
    BY <2>1 DEF OneMessage, NothingOnItsWay
  <2> QED
    BY <2>1, <2>2
<1>3. CASE MailFull
  BY <1>3, MailFailsInv DEF MailFull
<1>4. CASE MailTimeout
  BY <1>4, MailFailsInv DEF MailTimeout
<1>5. CASE MailReceive
  <2>1. /\ call = "await" /\ outbox > 0 /\ outbox' = outbox - 1 /\ call' = "check"
        /\ UNCHANGED <<mailbox_buffer, inbox, firmware, tag, returned, response, mishaps>>
    BY <1>5 DEF MailReceive
  <2>2. "late" \notin mishaps' => OneMessage'
    BY <2>1 DEF OneMessage, NothingOnItsWay, Answered
  <2> QED
    BY <2>1, <2>2
<1>6. CASE MailCheck
  <2>1. /\ call = "check" /\ call' = "idle"
        /\ returned' = IF Accepted THEN "ok" ELSE "failed"
        /\ response' = IF Accepted THEN mailbox_buffer.value ELSE response
        /\ UNCHANGED <<mailbox_buffer, inbox, firmware, outbox, tag, mishaps>>
    BY <1>6 DEF MailCheck, firmwareSide
  <2>2. "late" \notin mishaps => NothingOnItsWay /\ Answered
    BY <2>1 DEF OneMessage
  <2>3. "late" \notin mishaps' => OneMessage'
    BY <2>1, <2>2 DEF OneMessage, NothingOnItsWay
  <2>4. MailSound'
    BY <2>1, <2>2 DEF Answered, Accepted
  <2> QED
    BY <2>1, <2>3, <2>4
<1>7. CASE FirmwareTakes
  <2>1. /\ inbox > 0 /\ firmware = NoTag /\ inbox' = inbox - 1 /\ firmware' = mailbox_buffer.tag
        /\ UNCHANGED <<mailbox_buffer, outbox, call, tag, returned, response, mishaps>>
    BY <1>7 DEF FirmwareTakes, callSide
  <2>2. "late" \notin mishaps' => OneMessage'
    BY <2>1, MailAssumption DEF OneMessage, NothingOnItsWay, Answered
  <2> QED
    BY <2>1, <2>2
<1>8. CASE FirmwareAnswers
  <2>1. /\ firmware # NoTag /\ firmware' = NoTag /\ outbox' = outbox + 1
        /\ UNCHANGED <<inbox, call, tag, returned, response>>
        /\ mishaps' = IF firmware \in Refused THEN mishaps \cup {"refused"} ELSE mishaps
    BY <1>8 DEF FirmwareAnswers, callSide
  <2>2. mailbox_buffer' = IF firmware \in Refused THEN [mailbox_buffer EXCEPT !.code = "error"]
                  ELSE [mailbox_buffer EXCEPT !.code = "success", !.value = firmware]
    BY <1>8 DEF FirmwareAnswers
  <2>3. "late" \notin mishaps' => OneMessage'
    <3>1. SUFFICES ASSUME "late" \notin mishaps PROVE OneMessage'
      BY <2>1
    <3>2. call = "await" /\ mailbox_buffer.tag = tag /\ inbox = 0 /\ firmware = tag /\ outbox = 0
      BY <2>1, <3>1 DEF OneMessage, NothingOnItsWay
    <3>3. Answered' /\ mailbox_buffer'.tag = tag
      BY <2>1, <2>2, <3>2 DEF Answered
    <3> QED
      BY <2>1, <3>2, <3>3 DEF OneMessage
  <2>4. MailTypes'
    <3>1. mailbox_buffer' \in [tag: Tags \cup {NoTag}, code: {"request", "success", "error"},
                       value: Tags \cup {NoTag}]
      <4>1. firmware \in Tags \cup {NoTag}
        OBVIOUS
      <4>2. CASE firmware \in Refused
        BY <2>2, <4>2
      <4>3. CASE firmware \notin Refused
        BY <2>2, <4>1, <4>3
      <4> QED
        BY <4>2, <4>3
    <3> QED
      BY <2>1, <3>1
  <2>5. MailSound'
    BY <2>1
  <2> QED
    BY <2>3, <2>4, <2>5
<1>9. CASE UNCHANGED mailVars
  BY <1>9 DEF mailVars, OneMessage, NothingOnItsWay, Answered
<1> QED
  BY <1>1, <1>2, <1>3, <1>4, <1>5, <1>6, <1>7, <1>8, <1>9 DEF MailNext, Firmware

(* Until a call has timed out, a call returns the value of its own tag,    *)
(* and fails only for a reason of its own.                                 *)
THEOREM MailboxSound == MailSpec => []MailSound
<1>1. MailInv => MailSound
  BY DEF MailInv
<1> QED
  BY MailInvInit, MailInvNext, <1>1, PTL DEF MailSpec

-----------------------------------------------------------------------------
(* The USB bus.                                                            *)
(*                                                                         *)
(* The addresses given out since usb_init are those of the ports that were *)
(* looked at.                                                              *)
AddressLimit ==
  CASE usb \in {"ready", "starting"} -> 1
    [] usb \in {"port", "address"} -> port
    [] usb = "class" -> port + 1
    [] OTHER -> 3

UsbInv == UsbTypeOK /\ DevicesInTable /\ next_address <= AddressLimit

LEMMA UsbInvInit == UsbInit => UsbInv
<1> SUFFICES ASSUME UsbInit PROVE UsbInv
  OBVIOUS
<1>1. UsbTypeOK
  <2>1. 1 \in 1 .. MaxAddress /\ 0 \in 0 .. MaxAddress
    BY UsbAssumption
  <2>2. Empty \in [TableIndex -> {"free", "configured"}]
    BY DEF Empty
  <2> QED
    BY <2>1, <2>2 DEF UsbInit, UsbTypeOK, Ports
<1>2. DevicesInTable
  BY DEF UsbInit, DevicesInTable, Empty
<1>3. next_address <= AddressLimit
  BY DEF UsbInit, AddressLimit
<1> QED
  BY <1>1, <1>2, <1>3 DEF UsbInv

LEMMA UsbInvNext == UsbInv /\ [UsbNext]_usbVars => UsbInv'
<1> SUFFICES ASSUME UsbInv, [UsbNext]_usbVars PROVE UsbInv'
  OBVIOUS
<1> USE DEF UsbInv, UsbTypeOK, DevicesInTable, AddressLimit
<1>1. /\ next_address \in Nat /\ next_address >= 1 /\ MaxAddress \in Nat /\ TableSlots \in Nat
      /\ TableSlots > 2 /\ port \in {1, 2}
  BY UsbAssumption DEF Ports
<1>2. CASE UsbController \/ Plug \/ UsbLost \/ UNCHANGED usbVars
  <2>1. UNCHANGED <<tableOf, place, powered, running>> /\ connected' \subseteq powered
        /\ resetting' \subseteq powered /\ not_ready' \in BOOLEAN /\ halted' \in BOOLEAN
    BY <1>2 DEF UsbController, Settle, Plug, UsbLost, usbVars, controller
  <2> QED
    BY <2>1 DEF tableOf, place
<1>3. CASE usb_init
  <2>1. UsbTypeOK'
    <3>1. 1 \in 1 .. MaxAddress
      BY UsbAssumption
    <3>2. Empty \in [TableIndex -> {"free", "configured"}]
      BY DEF Empty
    <3> QED
      BY <1>3, <3>1, <3>2 DEF usb_init
  <2>2. DevicesInTable' /\ next_address' <= AddressLimit'
    BY <1>3 DEF usb_init, Empty
  <2> QED
    BY <2>1, <2>2
<1>4. CASE usb_start_controller
  BY <1>4 DEF usb_start_controller, tableOf
<1>5. CASE Started
  BY <1>5 DEF Started, controller, tableOf, Ports
<1>6. CASE usb_stop_controller
  BY <1>6 DEF usb_stop_controller, tableOf
<1>7. CASE Stopped
  BY <1>7 DEF Stopped, controller, tableOf
<1>8. CASE PortEmpty
  BY <1>1, <1>8 DEF PortEmpty, NextPort, controller, tableOf, Ports
<1>9. CASE usb_reset_port
  BY <1>9 DEF usb_reset_port, tableOf
<1>10. CASE usb_enumerate_device
  <2>1. /\ usb = "address" /\ next_address < MaxAddress /\ address' = next_address
        /\ next_address' = next_address + 1 /\ usb' = "class" /\ UNCHANGED <<controller, port>>
    BY <1>10 DEF usb_enumerate_device
  <2>2. next_address <= port /\ next_address \in TableIndex
    BY <1>1, <2>1 DEF TableIndex
  <2>3. usb_devices' = [usb_devices EXCEPT ![next_address] = "configured"] /\ beyond' = beyond
    BY <1>10, <2>2 DEF usb_enumerate_device
  <2>4. UsbTypeOK'
    <3>1. next_address' \in 1 .. MaxAddress /\ address' \in 0 .. MaxAddress
      BY <1>1, <2>1
    <3>2. usb_devices' \in [TableIndex -> {"free", "configured"}]
      BY <2>3
    <3> QED
      BY <2>1, <2>3, <3>1, <3>2 DEF controller
  <2>5. {i \in TableIndex : usb_devices'[i] # "free"}
          = {i \in TableIndex : usb_devices[i] # "free"} \cup {next_address}
    BY <2>2, <2>3
  <2>6. DevicesInTable'
    BY <1>1, <2>1, <2>3, <2>5
  <2>7. next_address' <= AddressLimit'
    BY <1>1, <2>1, <2>2
  <2> QED
    BY <2>4, <2>6, <2>7
<1>11. CASE usb_msc_init
  BY <1>1, <1>11 DEF usb_msc_init, NextPort, controller, tableOf, Ports
<1> QED
  BY <1>2, <1>3, <1>4, <1>5, <1>6, <1>7, <1>8, <1>9, <1>10, <1>11 DEF UsbNext

(* Every device that was given an address is in the table, one slot for    *)
(* each, and none is written behind it, however often USB boot is tried.   *)
THEOREM UsbDevicesInTable == UsbSpec => []DevicesInTable
<1>1. UsbInv => DevicesInTable
  BY DEF UsbInv
<1> QED
  BY UsbInvInit, UsbInvNext, <1>1, PTL DEF UsbSpec

-----------------------------------------------------------------------------
(* The parser of config.txt.                                               *)
(*                                                                         *)
(* The table is the beginning of the file.                                 *)
TableIsBeginning ==
  /\ Len(table) = IF Len(lines) < TableSize THEN Len(lines) ELSE TableSize
  /\ \A i \in 1 .. Len(table) : table[i] = lines[i]
  /\ reading = "start" => lines = <<>>

(* A variable has the value that the last valid line for it gives, and the *)
(* time limits are marked if a line names one.                             *)
VariableSet ==
  reading # "applied" => \A key \in VariableKeys :
    /\ ValidLinesOf(key) = {} => setting[key] = Builtin[key]
    /\ \A i \in ValidLinesOf(key) :
         (\A j \in ValidLinesOf(key) : j <= i) => setting[key] = Converted(key, lines[i][2])

TimeoutsMarked == custom_timeouts <=> \E key \in TimeoutKeys : LinesOf(key) # {}

FileInv == FileTypeOK /\ TableIsBeginning /\ VariableSet /\ TimeoutsMarked

(* Without a line, no key has one.                                         *)
LEMMA NoLines ==
  ASSUME lines = <<>>
  PROVE  \A key : LinesOf(key) = {} /\ ValidLinesOf(key) = {}
<1>1. Len(lines) = 0
  OBVIOUS
<1> QED
  BY <1>1 DEF LinesOf, ValidLinesOf

LEMMA FileInvInit == FileInit => FileInv
<1> SUFFICES ASSUME FileInit PROVE FileInv
  OBVIOUS
<1>1. TableSize \in Nat /\ TableSize > 0 /\ <<>> \in Seq(FileLines) /\ Len(<<>>) = 0
  BY TableAssumption
<1>2. FileTypeOK
  <2>1. DOMAIN setting = VariableKeys /\ \A key \in VariableKeys : setting[key] \in ValuesOf(key)
    BY DEF FileInit, ValuesOf
  <2>2. table \in Seq(FileLines) /\ Len(table) <= TableSize /\ lines \in Seq(FileLines)
    BY <1>1 DEF FileInit
  <2>3. reading = "start" /\ custom_timeouts \in BOOLEAN
    BY DEF FileInit
  <2> QED
    BY <2>1, <2>2, <2>3 DEF FileTypeOK
<1>3. TableIsBeginning
  <2>1. table = <<>> /\ lines = <<>> /\ 1 .. 0 = {}
    BY DEF FileInit
  <2> QED
    BY <1>1, <2>1 DEF TableIsBeginning
<1>4. VariableSet /\ TimeoutsMarked
  <2>1. /\ lines = <<>> /\ custom_timeouts = FALSE
        /\ \A key \in VariableKeys : setting[key] = Builtin[key]
    BY DEF FileInit
  <2> QED
    BY <2>1, NoLines DEF VariableSet, TimeoutsMarked
<1> QED
  BY <1>2, <1>3, <1>4 DEF FileInv

(* config_get finds the first line of a key, if the table has room for it. *)
LEMMA FirstFound ==
  ASSUME FileTypeOK, TableIsBeginning, NEW key, NEW i \in LinesOf(key), i <= TableSize,
         \A j \in LinesOf(key) : i <= j
  PROVE  config_get(key) = lines[i][2]
<1>1. /\ Len(lines) \in Nat /\ Len(table) \in Nat /\ TableSize \in Nat
      /\ Len(table) = IF Len(lines) < TableSize THEN Len(lines) ELSE TableSize
      /\ \A j \in 1 .. Len(table) : table[j] = lines[j]
  BY TableAssumption DEF FileTypeOK, TableIsBeginning
<1>2. i \in 1 .. Len(lines) /\ lines[i][1] = key
  BY DEF LinesOf
<1>3. i \in 1 .. Len(table) /\ table[i] = lines[i]
  BY <1>1, <1>2
<1>4. \A j \in EntriesOf(key) : j \in LinesOf(key) /\ j \in Int
  BY <1>1 DEF EntriesOf, LinesOf
<1>5. i \in EntriesOf(key) /\ \A j \in EntriesOf(key) : i <= j
  BY <1>2, <1>3, <1>4 DEF EntriesOf
<1>6. \A j \in EntriesOf(key) : (\A k \in EntriesOf(key) : j <= k) => j = i
  BY <1>2, <1>4, <1>5
<1>7. Min(EntriesOf(key)) = i
  BY <1>5, <1>6 DEF Min
<1> QED
  BY <1>3, <1>7 DEF config_get

(* The next line with a key and a value.                                   *)
LEMMA LineParsed ==
  ASSUME FileInv, NEW key \in Keys, NEW text \in Texts, parse_line(key, text)
  PROVE  FileInv'
<1> DEFINE line == <<key, text>>
           n == Len(lines)
<1>1. /\ TableSize \in Nat /\ n \in Nat /\ Len(table) \in Nat /\ line \in FileLines
      /\ table \in Seq(FileLines) /\ lines \in Seq(FileLines)
  BY TableAssumption DEF FileInv, FileTypeOK, FileLines
<1>2. /\ reading = "lines" /\ reading' = reading /\ lines' = Append(lines, line)
      /\ table' = IF Len(table) < TableSize THEN Append(table, line) ELSE table
      /\ setting' = IF TakesText(key, text) THEN [setting EXCEPT ![key] = Converted(key, text)]
                    ELSE setting
      /\ custom_timeouts' = (custom_timeouts \/ key \in TimeoutKeys)
  BY DEF parse_line, Kept
<1>3. /\ Len(lines') = n + 1 /\ lines'[n + 1] = line /\ lines' \in Seq(FileLines)
      /\ \A i \in 1 .. n : lines'[i] = lines[i]
  BY <1>1, <1>2
<1>4. FileTypeOK'
  <2>1. /\ DOMAIN setting' = VariableKeys
        /\ \A k \in VariableKeys : setting'[k] \in ValuesOf(k)
    <3>1. Converted(key, text) \in ValuesOf(key)
      BY DEF ValuesOf
    <3> QED
      BY <1>2, <3>1 DEF FileInv, FileTypeOK
  <2>2. table' \in Seq(FileLines) /\ Len(table') <= TableSize
    BY <1>1, <1>2 DEF FileInv, FileTypeOK
  <2> QED
    BY <1>2, <1>3, <2>1, <2>2 DEF FileInv, FileTypeOK
<1>5. TableIsBeginning'
  <2>1. /\ Len(table) = IF n < TableSize THEN n ELSE TableSize
        /\ \A i \in 1 .. Len(table) : table[i] = lines[i]
    BY DEF FileInv, TableIsBeginning
  <2>2. CASE n < TableSize
    <3>1. /\ Len(table) = n /\ table' = Append(table, line) /\ Len(table') = n + 1
          /\ table'[n + 1] = line /\ \A i \in 1 .. n : table'[i] = table[i]
      BY <1>1, <1>2, <2>1, <2>2
    <3>2. \A i \in 1 .. (n + 1) : i \in 1 .. n \/ i = n + 1
      BY <1>1
    <3>3. \A i \in 1 .. (n + 1) : table'[i] = lines'[i]
      BY <1>3, <2>1, <3>1, <3>2
    <3>4. n + 1 = IF n + 1 < TableSize THEN n + 1 ELSE TableSize
      BY <1>1, <2>2
    <3> QED
      BY <1>2, <1>3, <3>1, <3>3, <3>4 DEF TableIsBeginning
  <2>3. CASE ~(n < TableSize)
    <3>1. table' = table /\ Len(table) = TableSize /\ ~(n + 1 < TableSize)
      BY <1>1, <1>2, <2>1, <2>3
    <3>2. \A i \in 1 .. TableSize : i \in 1 .. n
      BY <1>1, <2>3
    <3> QED
      BY <1>2, <1>3, <2>1, <3>1, <3>2 DEF TableIsBeginning
  <2> QED
    BY <2>2, <2>3
<1>6. \A k : LinesOf(k)' = IF k = key THEN LinesOf(k) \cup {n + 1} ELSE LinesOf(k)
  <2>1. ASSUME NEW k, NEW i
        PROVE  i \in LinesOf(k)' <=> (i \in LinesOf(k) \/ (i = n + 1 /\ k = key))
    <3>1. i \in 1 .. (n + 1) <=> (i \in 1 .. n \/ i = n + 1)
      BY <1>1
    <3>2. lines'[n + 1][1] = key /\ n + 1 \notin 1 .. n
      BY <1>1, <1>3
    <3> QED
      BY <1>3, <3>1, <3>2 DEF LinesOf
  <2>2. ASSUME NEW k, k = key PROVE LinesOf(k)' = LinesOf(k) \cup {n + 1}
    <3>1. \A i : i \in LinesOf(k)' <=> i \in LinesOf(k) \cup {n + 1}
      BY <2>1, <2>2
    <3> QED
      BY <3>1, Zenon DEF LinesOf
  <2>3. ASSUME NEW k, k # key PROVE LinesOf(k)' = LinesOf(k)
    <3>1. \A i : i \in LinesOf(k)' <=> i \in LinesOf(k)
      BY <2>1, <2>3
    <3> QED
      BY <3>1, Zenon DEF LinesOf
  <2> QED
    BY <2>2, <2>3
<1>7. \A k : ValidLinesOf(k)' =
         IF k = key /\ TakesText(key, text) THEN ValidLinesOf(k) \cup {n + 1} ELSE ValidLinesOf(k)
  <2>1. lines'[n + 1][2] = text /\ \A k : \A i \in LinesOf(k) : lines'[i] = lines[i]
    BY <1>3 DEF LinesOf
  <2> QED
    BY <1>6, <2>1 DEF ValidLinesOf, TakesText
<1>8. VariableSet'
  <2> SUFFICES ASSUME reading # "applied", NEW k \in VariableKeys
               PROVE  /\ ValidLinesOf(k)' = {} => setting'[k] = Builtin[k]
                      /\ \A i \in ValidLinesOf(k)' :
                           (\A j \in ValidLinesOf(k)' : j <= i) =>
                             setting'[k] = Converted(k, lines'[i][2])
    BY <1>2 DEF VariableSet, Converted, strtoul, atoi, Digits, DigitsAtStart
  <2>1. \A i \in ValidLinesOf(k) : i \in 1 .. n /\ lines'[i] = lines[i] /\ i <= n /\ i \in Int
    BY <1>1, <1>3 DEF ValidLinesOf, LinesOf
  <2>2. CASE k = key /\ TakesText(key, text)
    <3>1. ValidLinesOf(k)' = ValidLinesOf(k) \cup {n + 1} /\ lines'[n + 1][2] = text
      BY <1>3, <1>7, <2>2
    <3>2. setting'[k] = Converted(k, text)
      BY <1>2, <2>2 DEF FileInv, FileTypeOK
    <3>3. \A i \in ValidLinesOf(k) : ~(n + 1 <= i)
      BY <1>1, <2>1
    <3> QED
      BY <3>1, <3>2, <3>3
  <2>3. CASE ~(k = key /\ TakesText(key, text))
    <3>1. ValidLinesOf(k)' = ValidLinesOf(k)
      BY <1>7, <2>3
    <3>2. setting'[k] = setting[k]
      BY <1>2, <2>3 DEF FileInv, FileTypeOK
    <3> QED
      BY <2>1, <3>1, <3>2 DEF FileInv, VariableSet
  <2> QED
    BY <2>2, <2>3
<1>9. TimeoutsMarked'
  BY <1>2, <1>6 DEF FileInv, TimeoutsMarked
<1> QED
  BY <1>4, <1>5, <1>8, <1>9 DEF FileInv

LEMMA FileInvNext == FileInv /\ [FileNext]_fileVars => FileInv'
<1> SUFFICES ASSUME FileInv, [FileNext]_fileVars PROVE FileInv'
  OBVIOUS
<1>1. CASE FindFile \/ ParseLong \/ EndFile \/ Rest \/ UNCHANGED fileVars
  <2>1. /\ UNCHANGED <<setting, custom_timeouts, table, lines>>
        /\ reading' \in {"lines", "parsed", "lost"} \/ reading' = reading
        /\ reading' = "applied" <=> reading = "applied"
    BY <1>1 DEF FindFile, ParseLong, EndFile, Rest, fileVars
  <2> QED
    BY <2>1 DEF FileInv, FileTypeOK, TableIsBeginning, VariableSet, TimeoutsMarked, LinesOf,
                ValidLinesOf
<1>2. ASSUME NEW line \in FileLines, parse_line(line[1], line[2])
      PROVE  FileInv'
  <2>1. line[1] \in Keys /\ line[2] \in Texts
    BY DEF FileLines
  <2> QED
    BY <1>2, <2>1, LineParsed
<1>3. ASSUME NEW newer \in BOOLEAN, ApplyModel(newer)
      PROVE  FileInv'
  <2>1. /\ reading' = "applied" /\ UNCHANGED <<custom_timeouts, table, lines>>
        /\ \E v \in {setting[LoadKey], setting[OverrideKey], HighAddress} :
             setting' = [setting EXCEPT ![LoadKey] = v]
    BY <1>3 DEF ApplyModel
  <2>2. {LoadKey, OverrideKey} \subseteq VariableKeys
    BY KeyAssumption DEF VariableKeys
  <2>3. {setting[LoadKey], setting[OverrideKey], HighAddress} \subseteq ValuesOf(LoadKey)
    <3>1. /\ setting[LoadKey] \in ValuesOf(LoadKey)
          /\ setting[OverrideKey] \in ValuesOf(OverrideKey)
      BY <2>2 DEF FileInv, FileTypeOK
    <3>2. HighAddress \in ValuesOf(LoadKey)
      BY DEF ValuesOf
    <3>3. \A text : Converted(OverrideKey, text) = Converted(LoadKey, text)
      BY KeyAssumption DEF Converted
    <3>4. setting[OverrideKey] \in ValuesOf(LoadKey)
      BY <3>1, <3>3, KeyAssumption DEF ValuesOf
    <3> QED
      BY <3>1, <3>2, <3>4
  <2>4. /\ DOMAIN setting' = VariableKeys
        /\ \A key \in VariableKeys : setting'[key] \in ValuesOf(key)
    BY <2>1, <2>2, <2>3 DEF FileInv, FileTypeOK
  <2> QED
    BY <2>1, <2>4 DEF FileInv, FileTypeOK, TableIsBeginning, VariableSet, TimeoutsMarked, LinesOf
<1> QED
  BY <1>1, <1>2, <1>3 DEF FileNext

(* What config.txt means, however many lines it has and whatever they say: *)
(* config_get returns the text of the first line of a key among the first  *)
(* TableSize, the bootloader's own variable has what the last valid line   *)
(* of the key converts to, and custom_timeouts says whether a line sets a  *)
(* time limit.                                                             *)
THEOREM FileTakesEffect == FileSpec => []FirstAndLastLine
<1>1. FileInv => FirstAndLastLine
  <2>1. ASSUME FileInv, NEW key, NEW i \in LinesOf(key), i <= TableSize,
               \A j \in LinesOf(key) : i <= j
        PROVE  config_get(key) = lines[i][2]
    BY <2>1, FirstFound DEF FileInv
  <2> QED
    BY <2>1 DEF FirstAndLastLine, FileInv, VariableSet, TimeoutsMarked
<1> QED
  BY FileInvInit, FileInvNext, <1>1, PTL DEF FileSpec

-----------------------------------------------------------------------------
(* The performance monitor.                                                *)
(*                                                                         *)
(* The table is in the order of time, and its times between checkpoints    *)
(* are what they are called.                                               *)
PerfRecord == [type: CheckpointTypes, timestamp: Nat, delta_us: Nat]

InOrder ==
  \A i \in 1 .. Len(records) :
    /\ boot_start_time <= records[i].timestamp /\ records[i].timestamp <= uptime
    /\ \A j \in 1 .. i : records[j].timestamp <= records[i].timestamp
    /\ records[i].delta_us =
         IF i = 1 THEN 0 ELSE records[i].timestamp - records[i - 1].timestamp

PerfInv == PerfTypeOK /\ records \in Seq(PerfRecord) /\ InOrder

LEMMA PerfInvInit == PerfInit => PerfInv
BY PerfAssumption DEF PerfInit, PerfInv, PerfTypeOK, InOrder

(* A table that is in order now, with the time that it was started at,     *)
(* takes a checkpoint.                                                     *)
LEMMA RecordedInv ==
  ASSUME uptime \in Nat, boot_start_time' \in 0 .. uptime, uptime' = uptime,
         NEW points \in Seq(PerfRecord), NEW type \in CheckpointTypes,
         Len(points) <= PerfMax,
         \A i \in 1 .. Len(points) :
           /\ boot_start_time' <= points[i].timestamp /\ points[i].timestamp <= uptime
           /\ \A j \in 1 .. i : points[j].timestamp <= points[i].timestamp
           /\ points[i].delta_us =
                IF i = 1 THEN 0 ELSE points[i].timestamp - points[i - 1].timestamp,
         records' = Recorded(points, type)
  PROVE  PerfInv'
<1>1. CASE Len(points) = PerfMax
  <2>1. records' = points
    BY <1>1 DEF Recorded
  <2>2. \A i \in 1 .. Len(points) : points[i] \in PerfRecord
    BY ElementOfSeq
  <2>3. \A i \in 1 .. Len(points) : points[i].type \in CheckpointTypes
    BY <2>2 DEF PerfRecord
  <2> QED
    BY <2>1, <2>3 DEF PerfInv, PerfTypeOK, InOrder
<1>2. CASE Len(points) # PerfMax
  <2> DEFINE n == Len(points)
             new == [type |-> type, timestamp |-> uptime,
                     delta_us |-> IF points = <<>> THEN 0 ELSE uptime - Last(points).timestamp]
  <2>1. records' = Append(points, new) /\ n \in Nat /\ n < PerfMax
    BY <1>2, PerfAssumption DEF Recorded
  <2>2. \A i \in 1 .. n : points[i] \in PerfRecord
    BY ElementOfSeq
  <2>3. points = <<>> <=> n = 0
    BY EmptySeq
  <2>4. n > 0 => Last(points) = points[n] /\ points[n].timestamp \in 0 .. uptime
    BY <2>2 DEF Last, PerfRecord
  <2>5. new.delta_us = IF n = 0 THEN 0 ELSE uptime - points[n].timestamp
    BY <2>3, <2>4
  <2>6. new \in PerfRecord
    BY <2>3, <2>4 DEF PerfRecord
  <2> HIDE DEF new
  <2>7. /\ records' \in Seq(PerfRecord) /\ Len(records') = n + 1 /\ records'[n + 1] = new
        /\ \A i \in 1 .. n : records'[i] = points[i]
    BY <2>1, <2>6, AppendProperties
  <2>8. new.timestamp = uptime /\ new.type = type
    BY DEF new
  <2>9. InOrder'
    <3> SUFFICES ASSUME NEW i \in 1 .. (n + 1)
                 PROVE  /\ boot_start_time' <= records'[i].timestamp
                        /\ records'[i].timestamp <= uptime
                        /\ \A j \in 1 .. i : records'[j].timestamp <= records'[i].timestamp
                        /\ records'[i].delta_us =
                             IF i = 1 THEN 0
                             ELSE records'[i].timestamp - records'[i - 1].timestamp
      BY <2>7 DEF InOrder
    <3>1. CASE i \in 1 .. n
      <4>1. i \in Nat /\ i >= 1 /\ records'[i] = points[i]
        BY <2>7, <3>1
      <4>2. \A j \in 1 .. i : records'[j] = points[j]
        BY <2>1, <2>7, <3>1
      <4>3. i # 1 => records'[i - 1] = points[i - 1]
        BY <4>1, <4>2
      <4> QED
        BY <3>1, <4>1, <4>2, <4>3
    <3>2. CASE i = n + 1
      <4>1. ASSUME NEW j \in 1 .. i PROVE records'[j].timestamp <= uptime
        <5>1. CASE j \in 1 .. n
          BY <2>7, <5>1
        <5>2. CASE j = n + 1
          BY <2>7, <2>8, <5>2
        <5> QED
          BY <2>1, <3>2, <5>1, <5>2
      <4>2. records'[i] = new /\ (n > 0 => records'[i - 1] = points[n])
        BY <2>1, <2>7, <3>2
      <4> QED
        BY <2>1, <2>5, <2>8, <3>2, <4>1, <4>2
    <3> QED
      BY <2>1, <3>1, <3>2
  <2>10. \A i \in 1 .. Len(records') : records'[i] \in PerfRecord
    BY <2>7, ElementOfSeq
  <2>11. \A i \in 1 .. Len(records') : records'[i].type \in CheckpointTypes
    BY <2>10 DEF PerfRecord
  <2>12. PerfTypeOK'
    <3>1. Len(records') <= PerfMax
      BY <2>1, <2>7, PerfAssumption
    <3> QED
      BY <2>11, <3>1 DEF PerfTypeOK
  <2> QED
    BY <2>7, <2>9, <2>12 DEF PerfInv
<1> QED
  BY <1>1, <1>2

LEMMA PerfInvNext == PerfInv /\ [PerfNext]_perfVars => PerfInv'
<1> SUFFICES ASSUME PerfInv, [PerfNext]_perfVars
             PROVE  PerfInv'
  OBVIOUS
<1>1. CASE perfmon_init
  <2>1. "other" \in CheckpointTypes /\ <<>> \in Seq(PerfRecord) /\ Len(<<>>) = 0
    BY DEF CheckpointTypes
  <2>2. uptime \in Nat /\ boot_start_time' \in 0 .. uptime /\ uptime' = uptime
        /\ records' = Recorded(<<>>, "other") /\ Len(<<>>) <= PerfMax
    BY <1>1, <2>1, PerfAssumption DEF perfmon_init, PerfInv, PerfTypeOK
  <2>3. \A i \in 1 .. Len(<<>>) : FALSE
    BY <2>1
  <2> QED
    BY <2>1, <2>2, <2>3, RecordedInv
<1>2. ASSUME NEW type \in CheckpointTypes, perfmon_checkpoint(type)
      PROVE  PerfInv'
  BY <1>2, RecordedInv DEF perfmon_checkpoint, PerfInv, PerfTypeOK, InOrder
<1>3. CASE perfmon_reset
  BY <1>3, PerfAssumption DEF perfmon_reset, PerfInv, PerfTypeOK, InOrder
<1>4. CASE PerfTick
  <2>1. \A i \in 1 .. Len(records) : records[i] \in PerfRecord
    BY ElementOfSeq DEF PerfInv
  <2>2. \A i \in 1 .. Len(records) : records[i].timestamp \in Nat
    BY <2>1 DEF PerfRecord
  <2> QED
    BY <1>4, <2>2 DEF PerfTick, PerfInv, PerfTypeOK, InOrder
<1>5. CASE UNCHANGED perfVars
  BY <1>5 DEF perfVars, PerfInv, PerfTypeOK, InOrder
<1> QED
  BY <1>1, <1>2, <1>3, <1>4, <1>5 DEF PerfNext

(* Every set of numbers has a smallest, so a statement that fails for some *)
(* number fails for a first one.                                           *)
LEMMA SmallestNumber ==
  ASSUME NEW S, S \subseteq Nat, S # {}
  PROVE  \E x \in S : \A y \in S : x <= y
<1>1. PICK x \in S : \A y \in S : ~(<<y, x>> \in OpToRel(<, Nat))
  <2>1. \E x \in S : \A y \in S : ~(<<y, x>> \in OpToRel(<, Nat))
    BY NatLessThanWellFounded, WFMin
  <2> QED
    BY <2>1
<1>2. ASSUME NEW y \in S, y < x
      PROVE  FALSE
  <2>1. <<y, x>> \in Nat \X Nat /\ <<y, x>>[1] = y /\ <<y, x>>[2] = x
    OBVIOUS
  <2>2. <<y, x>> \in OpToRel(<, Nat)
    BY <1>2, <2>1, Zenon DEF OpToRel
  <2> QED
    BY <1>1, <2>2
<1> QED
  BY <1>2

(* Max of a set of indices is one of them.                                 *)
LEMMA MaxIsMember ==
  ASSUME NEW n \in Nat, NEW S, S \subseteq 1 .. n, S # {}
  PROVE  Max(S) \in S /\ \A y \in S : Max(S) >= y
<1> DEFINE bounds == {b \in Nat : \A y \in S : b >= y}
<1>1. n \in bounds /\ bounds \subseteq Nat
  OBVIOUS
<1>2. PICK b \in bounds : \A c \in bounds : b <= c
  BY <1>1, SmallestNumber
<1>3. b \in Nat /\ \A y \in S : b >= y
  BY <1>2
<1>4. b \in S
  <2> SUFFICES ASSUME b \notin S PROVE FALSE
    OBVIOUS
  <2>1. PICK y \in S : TRUE
    OBVIOUS
  <2>2. b > 0
    BY <1>3, <2>1
  <2>3. \A z \in S : b - 1 >= z
    BY <1>3
  <2>4. b - 1 \in bounds
    BY <1>3, <2>2, <2>3
  <2> QED
    BY <1>2, <1>3, <2>4
<1> QED
  BY <1>3, <1>4 DEF Max

(* The total that the loop of perfmon_calc_stats has after n records.      *)
Counted(points, n) == IF points[n].type \in NetworkTypes THEN points[n].delta_us ELSE 0
IsTotal(points, total, n) ==
  total = [i \in 0 .. n |-> IF i = 0 THEN 0 ELSE total[i - 1] + Counted(points, i)]

LEMMA TotalExists ==
  ASSUME NEW points \in Seq(PerfRecord)
  PROVE  \A n \in Nat : \E total : IsTotal(points, total, n)
<1> DEFINE bad == {n \in Nat : ~ \E total : IsTotal(points, total, n)}
<1> SUFFICES ASSUME bad # {} PROVE FALSE
  OBVIOUS
<1>1. PICK n \in bad : \A m \in bad : n <= m
  BY SmallestNumber
<1>2. CASE n = 0
  <2>1. IsTotal(points, [i \in 0 .. 0 |-> 0], 0)
    BY DEF IsTotal
  <2> QED
    BY <1>2, <2>1
<1>3. CASE n # 0
  <2>1. n \in Nat /\ n - 1 \in Nat /\ n - 1 \notin bad
    BY <1>1, <1>3
  <2>2. PICK before : IsTotal(points, before, n - 1)
    BY <2>1
  <2> DEFINE total == [i \in 0 .. n |-> IF i = n THEN before[n - 1] + Counted(points, n)
                                                 ELSE before[i]]
  <2>3. ASSUME NEW i \in 0 .. n
        PROVE  total[i] = IF i = 0 THEN 0 ELSE total[i - 1] + Counted(points, i)
    <3>1. CASE i = n
      BY <1>3, <2>1, <3>1
    <3>2. CASE i # n
      <4>1. i \in 0 .. (n - 1)
        BY <2>1, <3>2
      <4>2. before[i] = IF i = 0 THEN 0 ELSE before[i - 1] + Counted(points, i)
        BY <2>2, <4>1 DEF IsTotal
      <4>3. total[i] = before[i] /\ (i # 0 => total[i - 1] = before[i - 1])
        BY <2>1, <3>2, <4>1
      <4> QED
        BY <4>2, <4>3
    <3> QED
      BY <3>1, <3>2
  <2>4. total = [i \in 0 .. n |-> total[i]]
    OBVIOUS
  <2> HIDE DEF total
  <2>5. IsTotal(points, total, n)
    BY <2>3, <2>4 DEF IsTotal
  <2> QED
    BY <1>1, <2>5
<1> QED
  BY <1>2, <1>3

LEMMA NetworkTotal ==
  ASSUME records \in Seq(PerfRecord)
  PROVE  \E total : IsTotal(records, total, Len(records)) /\ network_time_us = total[Len(records)]
<1> DEFINE chosen == CHOOSE t : t = [n \in 0 .. Len(records) |->
                       IF n = 0 THEN 0
                       ELSE t[n - 1] + (IF records[n].type \in NetworkTypes
                                        THEN records[n].delta_us ELSE 0)]
<1>1. network_time_us = chosen[Len(records)]
  BY DEF network_time_us
<1>2. \E t : t = [n \in 0 .. Len(records) |->
                    IF n = 0 THEN 0
                    ELSE t[n - 1] + (IF records[n].type \in NetworkTypes
                                     THEN records[n].delta_us ELSE 0)]
  BY TotalExists, LenProperties DEF IsTotal, Counted
<1>3. chosen = [n \in 0 .. Len(records) |->
                  IF n = 0 THEN 0
                  ELSE chosen[n - 1] + (IF records[n].type \in NetworkTypes
                                        THEN records[n].delta_us ELSE 0)]
  BY <1>2
<1> HIDE DEF chosen
<1> QED
  BY <1>1, <1>3 DEF IsTotal, Counted

(* The times between checkpoints are counted once, so those of the network *)
(* and those of one other checkpoint of each kind add up to no more than   *)
(* the time from the start.                                                *)
Elapsed(n) == IF n = 0 THEN 0 ELSE records[n].timestamp - boot_start_time
OneMore(h, n) == IF h # 0 /\ h <= n THEN records[h].delta_us ELSE 0
Phases(total, h, d, f, n) == OneMore(h, n) + OneMore(d, n) + OneMore(f, n) + total[n]

(* Of four numbers at most one grows, by delta.                            *)
LEMMA OneGrows ==
  \A a, b, c, t, delta, before, now \in Int :
    a + b + c + t <= before /\ delta + before <= now /\ delta >= 0 =>
      /\ (a + delta) + b + c + t <= now
      /\ a + (b + delta) + c + t <= now
      /\ a + b + (c + delta) + t <= now
      /\ a + b + c + (t + delta) <= now
      /\ a + b + c + t <= now
OBVIOUS

LEMMA OneMoreGrows ==
  ASSUME PerfInv, NEW n \in 1 .. Len(records), NEW h \in 0 .. Len(records)
  PROVE  /\ OneMore(h, n) \in Nat /\ OneMore(h, n - 1) \in Nat
         /\ h = n => OneMore(h, n) = OneMore(h, n - 1) + records[n].delta_us
         /\ h # n => OneMore(h, n) = OneMore(h, n - 1)
<1>1. \A i \in 1 .. Len(records) : records[i] \in PerfRecord
  BY ElementOfSeq DEF PerfInv
<1>2. Len(records) \in Nat /\ \A i \in 1 .. Len(records) : records[i].delta_us \in Nat
  BY <1>1, LenProperties DEF PerfInv, PerfRecord
<1>3. h # 0 => records[h].delta_us \in Nat
  BY <1>2
<1>4. n \in Nat /\ n >= 1 /\ h \in Nat
  BY <1>2
<1>5. CASE h = n
  BY <1>3, <1>4, <1>5 DEF OneMore
<1>6. CASE h # n
  <2>1. h <= n <=> h <= n - 1
    BY <1>4, <1>6
  <2> QED
    BY <1>3, <1>6, <2>1 DEF OneMore
<1> QED
  BY <1>5, <1>6

LEMMA TotalBounded ==
  ASSUME PerfInv, NEW total, IsTotal(records, total, Len(records)),
         NEW h \in 0 .. Len(records), h # 0 => records[h].type = "HARDWARE_INIT",
         NEW d \in 0 .. Len(records), d # 0 => records[d].type = "DRIVER_INIT",
         NEW f \in 0 .. Len(records), f # 0 => records[f].type = "FILESYSTEM_MOUNT"
  PROVE  \A n \in 0 .. Len(records) :
           total[n] \in Nat /\ Phases(total, h, d, f, n) <= Elapsed(n)
<1> DEFINE fits(n) == total[n] \in Nat /\ Phases(total, h, d, f, n) <= Elapsed(n)
           bad == {n \in 0 .. Len(records) : ~ fits(n)}
<1>1. \A n \in 1 .. Len(records) : records[n] \in PerfRecord
  BY ElementOfSeq DEF PerfInv
<1>2. /\ Len(records) \in Nat /\ boot_start_time \in Nat /\ InOrder
      /\ \A n \in 1 .. Len(records) : records[n].timestamp \in Nat /\ records[n].delta_us \in Nat
  BY <1>1, LenProperties DEF PerfInv, PerfTypeOK, PerfRecord
<1>3. \A n \in 0 .. Len(records) :
        total[n] = IF n = 0 THEN 0 ELSE total[n - 1] + Counted(records, n)
  BY DEF IsTotal
<1> SUFFICES ASSUME bad # {} PROVE FALSE
  OBVIOUS
<1>4. PICK n \in bad : \A m \in bad : n <= m
  <2>1. bad \subseteq Nat
    OBVIOUS
  <2> HIDE DEF bad
  <2> QED
    BY <2>1, SmallestNumber
<1>5. CASE n = 0
  <2>1. total[0] = 0 /\ Elapsed(0) = 0
    BY <1>2, <1>3 DEF Elapsed
  <2>2. OneMore(h, 0) = 0 /\ OneMore(d, 0) = 0 /\ OneMore(f, 0) = 0
    BY DEF OneMore
  <2>3. Phases(total, h, d, f, 0) = 0
    BY <2>1, <2>2 DEF Phases
  <2> QED
    BY <1>4, <1>5, <2>1, <2>3
<1>6. CASE n # 0
  <2>1. n \in 1 .. Len(records) /\ n - 1 \in 0 .. Len(records)
    BY <1>2, <1>4, <1>6
  <2>2. fits(n - 1)
    BY <1>4, <2>1
  <2>3. total[n] = total[n - 1] + Counted(records, n) /\ ~ fits(n)
    BY <1>3, <1>4, <1>6
  <2>4. /\ records[n].timestamp \in Nat /\ records[n].delta_us \in Nat
        /\ boot_start_time <= records[n].timestamp
        /\ records[n].delta_us =
             IF n = 1 THEN 0 ELSE records[n].timestamp - records[n - 1].timestamp
    BY <1>2, <2>1 DEF InOrder
  <2>5. /\ records[n].delta_us + Elapsed(n - 1) <= Elapsed(n)
        /\ Elapsed(n - 1) \in Int /\ Elapsed(n) \in Int
    <3>1. Elapsed(n) = records[n].timestamp - boot_start_time
      BY <1>6 DEF Elapsed
    <3>2. CASE n = 1
      <4>1. Elapsed(n - 1) = 0
        BY <3>2 DEF Elapsed
      <4> QED
        BY <1>2, <2>4, <3>1, <3>2, <4>1
    <3>3. CASE n # 1
      <4>1. PICK m \in 1 .. Len(records) : m = n - 1 /\ m # 0
        BY <1>2, <2>1, <3>3
      <4>2. Elapsed(n - 1) = records[m].timestamp - boot_start_time
        BY <4>1 DEF Elapsed
      <4>3. records[n].delta_us = records[n].timestamp - records[m].timestamp
        BY <2>4, <3>3, <4>1
      <4>4. /\ records[m].timestamp \in Nat /\ records[n].timestamp \in Nat
            /\ boot_start_time \in Nat
        BY <1>2, <2>4, <4>1
      <4>5. Elapsed(n - 1) \in Int
        BY <4>2, <4>4
      <4>6. Elapsed(n) \in Int
        BY <3>1, <4>4
      <4>7. records[n].delta_us + (records[m].timestamp - boot_start_time)
              <= records[n].timestamp - boot_start_time
        <5> DEFINE late == records[n].timestamp
                   early == records[m].timestamp
        <5>1. (late - early) + (early - boot_start_time) <= late - boot_start_time
          <6> HIDE DEF late, early
          <6>1. late \in Nat /\ early \in Nat /\ boot_start_time \in Nat
            BY <4>4 DEF late, early
          <6> QED
            BY ONLY <6>1
        <5> QED
          BY <4>3, <5>1
      <4> QED
        BY <3>1, <4>2, <4>5, <4>6, <4>7
    <3> QED
      BY <3>2, <3>3
  <2>6. Counted(records, n) \in {0, records[n].delta_us}
    BY DEF Counted
  <2>7. /\ total[n - 1] \in Nat
        /\ Phases(total, h, d, f, n - 1) <= Elapsed(n - 1)
    BY <2>2
  <2> DEFINE a == OneMore(h, n - 1)
             b == OneMore(d, n - 1)
             c == OneMore(f, n - 1)
             t == total[n - 1]
             delta == records[n].delta_us
             before == Elapsed(n - 1)
             upto == Elapsed(n)
  <2>8. /\ OneMore(h, n) = (IF h = n THEN a + delta ELSE a)
        /\ OneMore(d, n) = (IF d = n THEN b + delta ELSE b)
        /\ OneMore(f, n) = (IF f = n THEN c + delta ELSE c)
        /\ a \in Nat /\ b \in Nat /\ c \in Nat
    BY <2>1, OneMoreGrows
  <2>9. total[n] = IF records[n].type \in NetworkTypes THEN t + delta ELSE t
    BY <2>3, <2>4, <2>7 DEF Counted
  <2>10. /\ h = n => records[n].type = "HARDWARE_INIT"
         /\ d = n => records[n].type = "DRIVER_INIT"
         /\ f = n => records[n].type = "FILESYSTEM_MOUNT"
    BY <1>6
  <2>11. /\ a \in Int /\ b \in Int /\ c \in Int /\ t \in Int /\ delta \in Int /\ before \in Int
         /\ upto \in Int /\ a + b + c + t <= before /\ delta + before <= upto /\ delta >= 0
    <3>1. a \in Int /\ b \in Int /\ c \in Int /\ t \in Int /\ delta \in Int /\ delta >= 0
      BY <2>4, <2>7, <2>8
    <3>2. before \in Int /\ upto \in Int /\ delta + before <= upto
      BY <2>5
    <3>3. a + b + c + t <= before
      BY <2>7, Zenon DEF Phases
    <3> QED
      BY <3>1, <3>2, <3>3
  <2>12. total[n] \in Nat
    BY <2>4, <2>7, <2>9
  <2>13. Phases(total, h, d, f, n) = OneMore(h, n) + OneMore(d, n) + OneMore(f, n) + total[n]
    BY DEF Phases
  <2> HIDE DEF a, b, c, t, delta, before, upto
  <2>14. /\ (a + delta) + b + c + t <= upto
         /\ a + (b + delta) + c + t <= upto
         /\ a + b + (c + delta) + t <= upto
         /\ a + b + c + (t + delta) <= upto
         /\ a + b + c + t <= upto
    BY <2>11, OneGrows
  <2>15. CASE records[n].type \in NetworkTypes
    <3>1. h # n /\ d # n /\ f # n
      BY <2>10, <2>15 DEF NetworkTypes
    <3>2. Phases(total, h, d, f, n) = a + b + c + (t + delta)
      BY <2>8, <2>9, <2>13, <2>15, <3>1
    <3> QED
      BY <2>3, <2>12, <2>14, <3>2 DEF upto
  <2>16. CASE records[n].type \notin NetworkTypes
    <3>1. CASE h = n
      <4>1. d # n /\ f # n
        BY <2>10, <3>1
      <4>2. Phases(total, h, d, f, n) = (a + delta) + b + c + t
        BY <2>8, <2>9, <2>13, <2>16, <3>1, <4>1
      <4> QED
        BY <2>3, <2>12, <2>14, <4>2 DEF upto
    <3>2. CASE d = n
      <4>1. h # n /\ f # n
        BY <2>10, <3>2
      <4>2. Phases(total, h, d, f, n) = a + (b + delta) + c + t
        BY <2>8, <2>9, <2>13, <2>16, <3>2, <4>1
      <4> QED
        BY <2>3, <2>12, <2>14, <4>2 DEF upto
    <3>3. CASE f = n
      <4>1. h # n /\ d # n
        BY <2>10, <3>3
      <4>2. Phases(total, h, d, f, n) = a + b + (c + delta) + t
        BY <2>8, <2>9, <2>13, <2>16, <3>3, <4>1
      <4> QED
        BY <2>3, <2>12, <2>14, <4>2 DEF upto
    <3>4. CASE h # n /\ d # n /\ f # n
      <4>1. Phases(total, h, d, f, n) = a + b + c + t
        BY <2>8, <2>9, <2>13, <2>16, <3>4
      <4> QED
        BY <2>3, <2>12, <2>14, <4>1 DEF upto
    <3> QED
      BY <3>1, <3>2, <3>3, <3>4
  <2> QED
    BY <2>15, <2>16
<1> QED
  BY <1>5, <1>6

(* The figures of a report fit each other, for every size of the table and *)
(* any order of checkpoints and resets.                                    *)
THEOREM ReportAddsUp == PerfSpec => []FiguresAddUp
<1>1. PerfInv => FiguresAddUp
  <2> SUFFICES ASSUME PerfInv
               PROVE  FiguresAddUp
    OBVIOUS
  <2> DEFINE L == Len(records)
             whole == perfmon_get_total_time_us
  <2>1. L \in Nat /\ boot_start_time \in Nat /\ InOrder /\ records \in Seq(PerfRecord)
    BY LenProperties DEF PerfInv, PerfTypeOK
  <2>2. \A n \in 1 .. L : records[n] \in PerfRecord
    BY <2>1, ElementOfSeq
  <2>3. \A n \in 1 .. L : records[n].timestamp \in Nat /\ records[n].delta_us \in Nat
    BY <2>2 DEF PerfRecord
  <2>4. whole = Elapsed(L)
    BY <2>1, EmptySeq DEF perfmon_get_total_time_us, Elapsed, Last
  <2>5. ASSUME NEW type, Of(type) # {}
        PROVE  /\ Max(Of(type)) \in 1 .. L /\ records[Max(Of(type))].type = type
               /\ records[Max(Of(type))].timestamp \in Nat
               /\ boot_start_time <= records[Max(Of(type))].timestamp
               /\ records[Max(Of(type))].timestamp - boot_start_time <= whole
    <3>1. Max(Of(type)) \in Of(type)
      <4>1. Of(type) \subseteq 1 .. L
        BY DEF Of
      <4> QED
        BY <2>1, <2>5, <4>1, MaxIsMember
    <3>2. Max(Of(type)) \in 1 .. L /\ records[Max(Of(type))].type = type
      BY <3>1 DEF Of
    <3>3. records[Max(Of(type))].timestamp <= records[L].timestamp /\ L \in 1 .. L
      BY <2>1, <3>2 DEF InOrder
    <3> QED
      BY <2>1, <2>3, <2>4, <3>2, <3>3 DEF InOrder, Elapsed
  <2>6. hardware_init_us + driver_init_us + filesystem_time_us + network_time_us <= whole
    <3>1. PICK total : IsTotal(records, total, L) /\ network_time_us = total[L]
      BY <2>1, NetworkTotal
    <3> DEFINE at(type) == IF Of(type) = {} THEN 0 ELSE Max(Of(type))
    <3>2. ASSUME NEW type
          PROVE  /\ at(type) \in 0 .. L /\ (at(type) # 0 => records[at(type)].type = type)
                 /\ LastOf(type, "delta_us") = OneMore(at(type), L)
      <4>1. CASE Of(type) = {}
        BY <2>1, <4>1 DEF LastOf, OneMore
      <4>2. CASE Of(type) # {}
        <5>1. at(type) = Max(Of(type)) /\ at(type) \in 1 .. L /\ records[at(type)].type = type
          BY <2>5, <4>2
        <5>2. at(type) \in 0 .. L /\ at(type) # 0 /\ at(type) <= L
          BY <2>1, <5>1
        <5>3. LastOf(type, "delta_us") = records[at(type)].delta_us
          BY <4>2, <5>1 DEF LastOf
        <5> QED
          BY <5>1, <5>2, <5>3 DEF OneMore
      <4> QED
        BY <4>1, <4>2
    <3> HIDE DEF at
    <3> DEFINE h == at("HARDWARE_INIT")
               d == at("DRIVER_INIT")
               f == at("FILESYSTEM_MOUNT")
    <3>3. Phases(total, h, d, f, L) <= Elapsed(L)
      <4>1. /\ h \in 0 .. L /\ (h # 0 => records[h].type = "HARDWARE_INIT")
            /\ d \in 0 .. L /\ (d # 0 => records[d].type = "DRIVER_INIT")
            /\ f \in 0 .. L /\ (f # 0 => records[f].type = "FILESYSTEM_MOUNT")
        BY <3>2
      <4>2. L \in 0 .. L
        BY <2>1
      <4> HIDE DEF h, d, f
      <4> QED
        BY <3>1, <4>1, <4>2, TotalBounded
    <3>4. /\ hardware_init_us = OneMore(h, L) /\ driver_init_us = OneMore(d, L)
          /\ filesystem_time_us = OneMore(f, L)
      BY <3>2 DEF hardware_init_us, driver_init_us, filesystem_time_us
    <3> QED
      BY <2>4, <3>1, <3>3, <3>4 DEF Phases
  <2>7. whole >= 0 /\ whole \in Int
    BY <2>1, <2>3, <2>4 DEF Elapsed, InOrder
  <2>8. Of("KERNEL_LOAD_START") # {} => kernel_load_time_us <= whole
    <3> SUFFICES ASSUME Of("KERNEL_LOAD_START") # {} PROVE kernel_load_time_us <= whole
      OBVIOUS
    <3> DEFINE start == LastOf("KERNEL_LOAD_START", "timestamp")
               stop == LastOf("KERNEL_LOAD_END", "timestamp")
    <3>1. start \in Nat /\ boot_start_time <= start
      BY <2>5 DEF LastOf
    <3>2. stop \in Nat /\ (stop = 0 \/ stop - boot_start_time <= whole)
      BY <2>5 DEF LastOf
    <3>3. kernel_load_time_us = IF stop > start THEN stop - start ELSE 0
      BY DEF kernel_load_time_us
    <3> HIDE DEF start, stop, whole
    <3> QED
      BY <2>1, <2>7, <3>1, <3>2, <3>3
  <2>9. total_boot_time_us <= whole
    BY <2>5, <2>7 DEF total_boot_time_us, LastOf
  <2> QED
    BY <2>6, <2>8, <2>9 DEF FiguresAddUp
<1> QED
  BY PerfInvInit, PerfInvNext, <1>1, PTL DEF PerfSpec

-----------------------------------------------------------------------------
(* The system timer, for every width of its registers: a count put         *)
(* together from two reads is one that the counter showed, and no delay    *)
(* ends early.                                                             *)

(* The order in time of what CHI shows.                                    *)
HighNoLater(h, k) ==
  \/ ~Rolled(h) /\ Rolled(k)
  \/ (Rolled(h) <=> Rolled(k)) /\ h <= k

(* What the two halves read so far say of the clock.                       *)
CalledBefore == step # "idle" => NoLater(entered, clock)
HighRead ==
  step \in {"lo", "check"} =>
    HighNoLater(entered.hi, value.hi) /\ HighNoLater(value.hi, clock.hi)
HalvesFit ==
  step = "check" /\ value.hi = clock.hi => NoLater(entered, value) /\ NoLater(value, clock)

(* The inductive invariant.                                                *)
ReadInv == TimerTypeOK /\ CalledBefore /\ HighRead /\ HalvesFit /\ TicksInWindow

-----------------------------------------------------------------------------
(* Counts are ordered in time, and their high halves with them.            *)
LEMMA OrderLemma ==
  ASSUME NEW a \in Count, NEW b \in Count, NEW c \in Count
  PROVE  /\ NoLater(a, a)
         /\ NoLater(a, b) /\ NoLater(b, c) => NoLater(a, c)
         /\ NoLater(a, b) => HighNoLater(a.hi, b.hi)
         /\ HighNoLater(a.hi, b.hi) /\ HighNoLater(b.hi, c.hi) => HighNoLater(a.hi, c.hi)
         /\ HighNoLater(a.hi, b.hi) /\ HighNoLater(b.hi, a.hi) => a.hi = b.hi
         /\ NoLater(a, b) /\ a.hi = b.hi => a.lo <= b.lo
         /\ HighNoLater(a.hi, b.hi) /\ a.hi # b.hi => NoLater(a, b)
         /\ a.hi = b.hi /\ a.lo <= b.lo => NoLater(a, b)
<1>1. {a.hi, a.lo, b.hi, b.lo, c.hi, c.lo} \subseteq Nat /\ PowerOnHigh \in Nat
  BY TimerAssumption DEF Count, Word
<1> QED
  BY <1>1 DEF NoLater, HighNoLater, Rolled, Less

(* Adding a word to a count gives a count.                                 *)
LEMMA PlusLemma ==
  ASSUME NEW c \in Count, NEW n \in Word
  PROVE  Plus(c, n) \in Count
<1>1. WordModulus \in Nat \ {0, 1} /\ c.hi \in Word /\ c.lo \in Word
  BY TimerAssumption DEF Count
<1>2. CASE c.lo + n < WordModulus
  BY <1>1, <1>2 DEF Plus, Count, Word
<1>3. CASE ~(c.lo + n < WordModulus)
  BY <1>1, <1>3 DEF Plus, Count, Word
<1> QED
  BY <1>2, <1>3

-----------------------------------------------------------------------------
LEMMA TypeInit == TimerInit => TimerTypeOK
<1> SUFFICES ASSUME TimerInit PROVE TimerTypeOK
  OBVIOUS
<1>1. 0 \in Word /\ PowerOnHigh \in Word
  BY TimerAssumption DEF Word
<1>2. clock \in Count
  BY <1>1 DEF TimerInit, Count
<1>3. value \in Count
  BY <1>1 DEF TimerInit, Count
<1> QED
  BY <1>1, <1>2, <1>3 DEF TimerInit, TimerTypeOK

(* A call of a delay has an argument that fits a word.                     *)
LEMMA DelayArgument ==
  ASSUME CallDelayUs \/ CallDelayMs
  PROVE  \E n \in Word, t \in Nat : BeginDelay(n, t)
<1>1. CASE CallDelayUs
  <2>1. PICK n \in Delays : BeginDelay(n, n)
    BY <1>1 DEF CallDelayUs
  <2> QED
    BY <2>1, TimerAssumption DEF Word
<1>2. CASE CallDelayMs
  <2>1. PICK m \in Millis : BeginDelay((m * UsPerMs) % WordModulus, m * UsPerMs)
    BY <1>2 DEF CallDelayMs
  <2>2. m \in Nat /\ UsPerMs \in Nat /\ WordModulus \in Nat \ {0}
    BY TimerAssumption DEF Word
  <2>3. m * UsPerMs \in Nat
    BY <2>2
  <2>4. (m * UsPerMs) % WordModulus \in Word
    BY <2>2, <2>3 DEF Word
  <2> QED
    BY <2>1, <2>3, <2>4
<1> QED
  BY <1>1, <1>2

LEMMA TypeNext == TimerTypeOK /\ [TimerNext]_timerVars => TimerTypeOK'
<1> SUFFICES ASSUME TimerTypeOK, [TimerNext]_timerVars PROVE TimerTypeOK'
  OBVIOUS
<1> USE DEF TimerTypeOK
<1>1. CASE ClockTick
  <2>1. 1 \in Word
    BY TimerAssumption DEF Word
  <2>2. clock' \in Count
    BY <1>1, <2>1, PlusLemma DEF ClockTick
  <2> QED
    BY <1>1, <2>2 DEF ClockTick, callerVars
<1>2. CASE CallGetTicks
  BY <1>2 DEF CallGetTicks, GetTicks, callerVars
<1>3. CASE CallDelayUs \/ CallDelayMs
  <2>1. PICK n \in Word, t \in Nat : BeginDelay(n, t)
    BY <1>3, DelayArgument
  <2> QED
    BY <2>1 DEF BeginDelay, GetTicks
<1>4. CASE ReadHigh
  <2>1. value' \in Count
    BY <1>4 DEF ReadHigh, Count
  <2> QED
    BY <1>4, <2>1 DEF ReadHigh, callerVars
<1>5. CASE ReadLow
  <2>1. value' \in Count
    BY <1>5 DEF ReadLow, Count
  <2> QED
    BY <1>5, <2>1 DEF ReadLow, callerVars
<1>6. CASE ReadHighAgain
  BY <1>6 DEF ReadHighAgain, callerVars
<1>7. CASE TicksReturned
  BY <1>7 DEF TicksReturned, callerVars
<1>8. CASE DelayStarted
  <2>1. end' \in Count
    BY <1>8, PlusLemma DEF DelayStarted
  <2>2. wait' \in {"rollover", "target"}
    BY <1>8 DEF DelayStarted, Phase
  <2> QED
    BY <1>8, <2>1, <2>2 DEF DelayStarted, GetTicks
<1>9. CASE AwaitRollover
  BY <1>9 DEF AwaitRollover, GetTicks
<1>10. CASE AwaitTarget
  BY <1>10 DEF AwaitTarget, GetTicks
<1>11. CASE UNCHANGED timerVars
  BY <1>11 DEF timerVars, callerVars
<1> QED
  BY <1>1, <1>2, <1>3, <1>4, <1>5, <1>6, <1>7, <1>8, <1>9, <1>10, <1>11
     DEF TimerNext, Reads, Polls

(* The driver's variables keep their types, whatever the width of a word   *)
(* and the delays asked for.                                               *)
THEOREM TimerTypeCorrect == TimerSpec => []TimerTypeOK
BY TypeInit, TypeNext, PTL DEF TimerSpec

-----------------------------------------------------------------------------
(* Every action but the clock and the three reads begins a call or ends it.*)
LEMMA OtherStep ==
  ASSUME TimerTypeOK,
         CallGetTicks \/ CallDelayUs \/ CallDelayMs \/ Polls
  PROVE  clock' = clock /\ (step' = "idle" \/ (step' = "hi" /\ entered' = clock))
<1>1. CASE CallDelayUs \/ CallDelayMs
  <2>1. PICK n \in Word, t \in Nat : BeginDelay(n, t)
    BY <1>1, DelayArgument
  <2> QED
    BY <2>1 DEF BeginDelay, GetTicks
<1>2. CASE CallGetTicks
  BY <1>2 DEF CallGetTicks, GetTicks
<1>3. CASE Polls
  BY <1>3 DEF Polls, TicksReturned, DelayStarted, AwaitRollover, AwaitTarget, GetTicks
<1> QED
  BY <1>1, <1>2, <1>3

LEMMA ReadInit == TimerInit => ReadInv
BY TypeInit DEF TimerInit, ReadInv, CalledBefore, HighRead, HalvesFit, TicksInWindow

LEMMA ReadNext == ReadInv /\ [TimerNext]_timerVars => ReadInv'
<1> SUFFICES ASSUME ReadInv, [TimerNext]_timerVars PROVE ReadInv'
  OBVIOUS
<1>1. TimerTypeOK'
  BY TypeNext DEF ReadInv
<1>2. {clock, value, entered} \subseteq Count /\ {clock, value, entered}' \subseteq Count
  BY <1>1 DEF ReadInv, TimerTypeOK
<1> USE DEF CalledBefore, HighRead, HalvesFit, TicksInWindow
<1>3. CASE ClockTick
  <2>1. NoLater(clock, clock') /\ UNCHANGED <<step, value, entered>>
    BY <1>3 DEF ClockTick
  <2>2. HighNoLater(clock.hi, clock'.hi)
    BY <1>2, <2>1, OrderLemma
  <2>3. CalledBefore'
    BY <1>2, <2>1, OrderLemma DEF ReadInv
  <2>4. HighRead'
    BY <1>2, <2>1, <2>2, OrderLemma DEF ReadInv
  <2>5. HalvesFit'
    <3> SUFFICES ASSUME step = "check", value.hi = clock'.hi
                 PROVE  NoLater(entered, value) /\ NoLater(value, clock')
      BY <2>1
    <3>1. HighNoLater(value.hi, clock.hi)
      BY DEF ReadInv
    <3>2. value.hi = clock.hi
      BY <1>2, <2>2, <3>1, OrderLemma
    <3>3. NoLater(entered, value) /\ NoLater(value, clock)
      BY <3>2 DEF ReadInv
    <3> QED
      BY <1>2, <2>1, <3>3, OrderLemma
  <2>6. TicksInWindow'
    BY <1>2, <2>1, OrderLemma DEF ReadInv
  <2> QED
    BY <1>1, <2>3, <2>4, <2>5, <2>6 DEF ReadInv
<1>4. CASE ReadHigh
  <2>1. UNCHANGED <<clock, entered>> /\ step' = "lo" /\ value'.hi = clock.hi
    BY <1>2, <1>4 DEF ReadHigh, Count
  <2>2. NoLater(entered, clock)
    BY <1>4 DEF ReadHigh, ReadInv
  <2>3. HighNoLater(entered.hi, clock.hi) /\ HighNoLater(clock.hi, clock.hi)
    BY <1>2, <2>2, OrderLemma
  <2> QED
    BY <1>1, <2>1, <2>2, <2>3 DEF ReadInv
<1>5. CASE ReadLow
  <2>1. UNCHANGED <<clock, entered>> /\ step' = "check" /\ value'.hi = value.hi
          /\ value'.lo = clock.lo
    BY <1>2, <1>5 DEF ReadLow, Count
  <2>2. NoLater(entered, clock) /\ HighNoLater(entered.hi, value.hi)
          /\ HighNoLater(value.hi, clock.hi)
    BY <1>5 DEF ReadLow, ReadInv
  <2>3. ASSUME value.hi = clock.hi
        PROVE  NoLater(entered, value') /\ NoLater(value', clock)
    <3>1. value'.hi = clock.hi /\ value'.lo = clock.lo
      BY <2>1, <2>3
    <3>2. clock \in Count /\ value' \in Count /\ entered \in Count
      BY <1>2
    <3>3. value' = clock
      BY <3>1, <3>2 DEF Count
    <3> QED
      BY <2>2, <3>2, <3>3, OrderLemma
  <2> QED
    BY <1>1, <2>1, <2>2, <2>3 DEF ReadInv
<1>6. CASE ReadHighAgain
  BY <1>1, <1>6 DEF ReadHighAgain, ReadInv
<1>7. CASE CallGetTicks \/ CallDelayUs \/ CallDelayMs \/ Polls
  <2>1. clock' = clock /\ (step' = "idle" \/ (step' = "hi" /\ entered' = clock))
    BY <1>7, OtherStep DEF ReadInv
  <2>2. NoLater(clock, clock)
    BY <1>2, OrderLemma
  <2> QED
    BY <1>1, <2>1, <2>2 DEF ReadInv
<1>8. CASE UNCHANGED timerVars
  BY <1>1, <1>8 DEF timerVars, ReadInv
<1> QED
  BY <1>3, <1>4, <1>5, <1>6, <1>7, <1>8 DEF TimerNext, Reads

(* timer_get_ticks returns a count that the counter showed between its     *)
(* call and its return, for every width of the two registers.              *)
THEOREM TicksLinearizable == TimerSpec => []TicksInWindow
<1>1. ReadInv => TicksInWindow
  BY DEF ReadInv
<1> QED
  BY ReadInit, ReadNext, <1>1, PTL DEF TimerSpec

-----------------------------------------------------------------------------
(* Counts as numbers, in the order of time: the microseconds since CHI     *)
(* came to show PowerOnHigh.                                               *)
High(h) == IF Rolled(h) THEN h + WordModulus - PowerOnHigh ELSE h - PowerOnHigh
Pos(c) == (High(c.hi) * WordModulus) + c.lo

LEMMA HighType ==
  ASSUME NEW h \in Word
  PROVE  High(h) \in Nat
BY TimerAssumption DEF High, Rolled, Word

LEMMA Multiples ==
  ASSUME NEW a \in Nat, NEW b \in Nat, NEW c \in Nat
  PROVE  /\ a * c \in Nat
         /\ (a + 1) * c = (a * c) + c
         /\ b >= a + 2 => b * c >= (a * c) + c + c
<1>1. a * c \in Nat /\ (a + 1) * c = (a * c) + c /\ (a + 2) * c = (a * c) + c + c
  OBVIOUS
<1>2. b >= a + 2 => b * c >= (a + 2) * c
  OBVIOUS
<1> QED
  BY <1>1, <1>2

(* How far apart two counts are.                                           *)
LEMMA PosApart ==
  ASSUME NEW a \in Count, NEW b \in Count
  PROVE  /\ Pos(a) \in Nat /\ Pos(a) >= a.lo
         /\ High(b.hi) = High(a.hi) => Pos(b) + a.lo = Pos(a) + b.lo
         /\ High(b.hi) = High(a.hi) + 1 => Pos(b) + a.lo = Pos(a) + WordModulus + b.lo
         /\ High(b.hi) >= High(a.hi) + 2
              => Pos(b) + a.lo >= Pos(a) + WordModulus + WordModulus + b.lo
<1> DEFINE h == High(a.hi)
           k == High(b.hi)
<1>1. WordModulus \in Nat /\ a.lo \in Nat /\ b.lo \in Nat /\ h \in Nat /\ k \in Nat
  BY TimerAssumption, HighType DEF Count, Word
<1>2. Pos(a) = (h * WordModulus) + a.lo /\ Pos(b) = (k * WordModulus) + b.lo
  BY DEF Pos
<1> HIDE DEF h, k
<1>3. /\ h * WordModulus \in Nat
      /\ (h + 1) * WordModulus = (h * WordModulus) + WordModulus
      /\ k >= h + 2 => k * WordModulus >= (h * WordModulus) + WordModulus + WordModulus
  BY <1>1, Multiples
<1>4. Pos(a) \in Nat /\ Pos(a) >= a.lo
  BY <1>1, <1>2, <1>3
<1>5. k = h => Pos(b) + a.lo = Pos(a) + b.lo
  BY <1>1, <1>2, <1>3
<1>6. k = h + 1 => Pos(b) + a.lo = Pos(a) + WordModulus + b.lo
  <2> SUFFICES ASSUME k = h + 1 PROVE Pos(b) + a.lo = Pos(a) + WordModulus + b.lo
    OBVIOUS
  <2>1. k * WordModulus = (h * WordModulus) + WordModulus
    BY <1>3
  <2> QED
    BY <1>1, <1>2, <1>3, <2>1
<1>7. k >= h + 2 => Pos(b) + a.lo >= Pos(a) + WordModulus + WordModulus + b.lo
  <2> SUFFICES ASSUME k >= h + 2
               PROVE  Pos(b) + a.lo >= Pos(a) + WordModulus + WordModulus + b.lo
    OBVIOUS
  <2>1. k * WordModulus \in Nat
    BY <1>1, Multiples
  <2> QED
    BY <1>1, <1>2, <1>3, <2>1
<1> QED
  BY <1>4, <1>5, <1>6, <1>7 DEF h, k

(* What is later has the larger number.                                    *)
LEMMA PosLater ==
  ASSUME NEW a \in Count, NEW b \in Count, NoLater(a, b)
  PROVE  Pos(a) <= Pos(b)
<1>1. /\ WordModulus \in Nat /\ PowerOnHigh \in Nat /\ PowerOnHigh < WordModulus
      /\ {a.lo, a.hi, b.lo, b.hi} \subseteq Nat
      /\ a.lo < WordModulus /\ a.hi < WordModulus /\ b.lo < WordModulus /\ b.hi < WordModulus
  BY TimerAssumption DEF Count, Word
<1>2. High(a.hi) \in Nat /\ High(b.hi) \in Nat
  BY HighType DEF Count
<1>3. \/ a.hi = b.hi /\ a.lo <= b.lo
      \/ High(b.hi) > High(a.hi)
  BY <1>1 DEF NoLater, Less, High, Rolled
<1>4. /\ Pos(a) \in Nat /\ Pos(b) \in Nat
      /\ High(b.hi) = High(a.hi) => Pos(b) + a.lo = Pos(a) + b.lo
      /\ High(b.hi) = High(a.hi) + 1 => Pos(b) + a.lo = Pos(a) + WordModulus + b.lo
      /\ High(b.hi) >= High(a.hi) + 2
           => Pos(b) + a.lo >= Pos(a) + WordModulus + WordModulus + b.lo
  BY PosApart
<1>5. High(b.hi) > High(a.hi) => High(b.hi) = High(a.hi) + 1 \/ High(b.hi) >= High(a.hi) + 2
  BY <1>2
<1> QED
  BY <1>1, <1>3, <1>4, <1>5

(* A microsecond later.                                                    *)
LEMMA PosTick ==
  ASSUME NEW c \in Count, NoLater(c, Plus(c, 1))
  PROVE  Pos(Plus(c, 1)) = Pos(c) + 1
<1> DEFINE d == Plus(c, 1)
<1>1. /\ WordModulus \in Nat /\ WordModulus > 1 /\ PowerOnHigh \in Nat
      /\ PowerOnHigh < WordModulus /\ {c.lo, c.hi} \subseteq Nat
      /\ c.lo < WordModulus /\ c.hi < WordModulus /\ c = [hi |-> c.hi, lo |-> c.lo]
  BY TimerAssumption DEF Count, Word
<1>2. d \in Count
  <2>1. 1 \in Word
    BY TimerAssumption DEF Word
  <2> QED
    BY <2>1, PlusLemma
<1>3. /\ Pos(c) \in Nat /\ Pos(d) \in Nat
      /\ High(d.hi) = High(c.hi) => Pos(d) + c.lo = Pos(c) + d.lo
      /\ High(d.hi) = High(c.hi) + 1 => Pos(d) + c.lo = Pos(c) + WordModulus + d.lo
  BY <1>2, PosApart
<1>4. CASE c.lo + 1 < WordModulus
  <2>1. d.hi = c.hi /\ d.lo = c.lo + 1
    BY <1>1, <1>4 DEF Plus
  <2> HIDE DEF d
  <2>2. Pos(d) = Pos(c) + 1
    BY <1>1, <1>3, <2>1
  <2> QED
    BY <2>2 DEF d
<1>5. CASE ~(c.lo + 1 < WordModulus)
  <2>1. /\ c.lo = WordModulus - 1 /\ d.lo = 0
        /\ d.hi = IF c.hi + 1 = WordModulus THEN 0 ELSE c.hi + 1
    BY <1>1, <1>5 DEF Plus
  <2>2. NoLater(c, d)
    OBVIOUS
  <2> HIDE DEF d
  <2>3. High(d.hi) = High(c.hi) + 1
    BY <1>1, <2>1, <2>2 DEF NoLater, Less, High, Rolled
  <2>4. Pos(d) = Pos(c) + 1
    BY <1>1, <1>3, <2>1, <2>3
  <2> QED
    BY <2>4 DEF d
<1> QED
  BY <1>4, <1>5

(* A count that has passed the end of a delay, after the rollover if there *)
(* was to be one, is as much later as was asked for.                       *)
LEMMA PosElapsed ==
  ASSUME NEW a \in Count, NEW c \in Count, NEW n \in Word, NoLater(a, c),
         ~Less(c, Plus(a, n)),
         Less(Plus(a, n), a) => ~Rolled(a.hi) /\ Rolled(c.hi)
  PROVE  Pos(a) + n <= Pos(c)
<1> DEFINE e == Plus(a, n)
<1>1. /\ WordModulus \in Nat /\ WordModulus > 1 /\ PowerOnHigh \in Nat
      /\ PowerOnHigh < WordModulus /\ {a.lo, a.hi, c.lo, c.hi, n} \subseteq Nat
      /\ a.lo < WordModulus /\ a.hi < WordModulus /\ c.lo < WordModulus /\ c.hi < WordModulus
      /\ n < WordModulus
  BY TimerAssumption DEF Count, Word
<1>2. /\ Pos(a) \in Nat /\ Pos(c) \in Nat
      /\ High(c.hi) = High(a.hi) => Pos(c) + a.lo = Pos(a) + c.lo
      /\ High(c.hi) = High(a.hi) + 1 => Pos(c) + a.lo = Pos(a) + WordModulus + c.lo
      /\ High(c.hi) >= High(a.hi) + 2
           => Pos(c) + a.lo >= Pos(a) + WordModulus + WordModulus + c.lo
  BY PosApart
<1>3. ~Less(c, e) /\ (Less(e, a) => ~Rolled(a.hi) /\ Rolled(c.hi))
  OBVIOUS
<1>4. CASE a.lo + n < WordModulus
  <2>1. e.hi = a.hi /\ e.lo = a.lo + n
    BY <1>1, <1>4 DEF Plus, Count
  <2> HIDE DEF e
  <2>2. \/ c.hi = a.hi /\ c.lo >= a.lo + n
        \/ High(c.hi) >= High(a.hi) + 1
    BY <1>1, <1>3, <2>1 DEF NoLater, Less, High, Rolled
  <2>3. High(c.hi) \in Nat /\ High(a.hi) \in Nat
    BY HighType DEF Count
  <2>4. High(c.hi) >= High(a.hi) + 1
          => High(c.hi) = High(a.hi) + 1 \/ High(c.hi) >= High(a.hi) + 2
    BY <2>3
  <2> QED
    BY <1>1, <1>2, <1>4, <2>2, <2>4
<1>5. CASE ~(a.lo + n < WordModulus)
  <2>1. /\ e.hi = IF a.hi + 1 = WordModulus THEN 0 ELSE a.hi + 1
        /\ e.lo = a.lo + n - WordModulus
    BY <1>1, <1>5 DEF Plus
  <2> HIDE DEF e
  <2>2. \/ High(c.hi) = High(a.hi) + 1 /\ c.lo >= a.lo + n - WordModulus
        \/ High(c.hi) >= High(a.hi) + 2
    BY <1>1, <1>3, <2>1 DEF NoLater, Less, High, Rolled
  <2> QED
    BY <1>1, <1>2, <1>5, <2>2
<1> QED
  BY <1>4, <1>5

-----------------------------------------------------------------------------
(* A running delay has waited for at least the time since the count it     *)
(* started from; a rollover that it waits for is still to come, and one    *)
(* that it has waited for is past.                                         *)
DelayRuns ==
  /\ wait # "none" => step # "idle" /\ (asked < WordModulus => us = asked)
  /\ wait = "start" => Pos(clock) <= Pos(entered) + waited
  /\ wait \in {"rollover", "target"} =>
       /\ NoLater(from, entered) /\ end = Plus(from, us)
       /\ Pos(clock) <= Pos(from) + waited
  /\ wait = "target" /\ Less(end, from) => ~Rolled(from.hi) /\ Rolled(entered.hi)

DelayInv == ReadInv /\ DelayRuns

LEMMA DelayInvInit == TimerInit => DelayInv
BY ReadInit DEF TimerInit, DelayInv, DelayRuns

(* What was asked for is what is waited for, if it fits a word.            *)
LEMMA AskedFits ==
  ASSUME CallDelayUs \/ CallDelayMs
  PROVE  \E n \in Word, t \in Nat : BeginDelay(n, t) /\ (t < WordModulus => n = t)
<1>1. CASE CallDelayUs
  <2>1. PICK n \in Delays : BeginDelay(n, n)
    BY <1>1 DEF CallDelayUs
  <2> QED
    BY <2>1, TimerAssumption DEF Word
<1>2. CASE CallDelayMs
  <2>1. PICK m \in Millis : BeginDelay((m * UsPerMs) % WordModulus, m * UsPerMs)
    BY <1>2 DEF CallDelayMs
  <2>2. m \in Nat /\ UsPerMs \in Nat /\ WordModulus \in Nat \ {0}
    BY TimerAssumption DEF Word
  <2> DEFINE t == m * UsPerMs
  <2>3. t \in Nat
    BY <2>2
  <2> HIDE DEF t
  <2>4. t % WordModulus \in Word /\ (t < WordModulus => t % WordModulus = t)
    BY <2>2, <2>3 DEF Word
  <2>5. BeginDelay(t % WordModulus, t)
    BY <2>1 DEF t
  <2> QED
    BY <2>3, <2>4, <2>5
<1> QED
  BY <1>1, <1>2

(* Two counts read one after the other, of which the second is the smaller *)
(* number, have the rollover between them.                                 *)
LEMMA RolledBetween ==
  ASSUME NEW a \in Count, NEW b \in Count, NoLater(a, b)
  PROVE  /\ Less(b, a) => ~Rolled(a.hi) /\ Rolled(b.hi)
         /\ Rolled(a.hi) => Rolled(b.hi)
BY DEF NoLater

LEMMA DelayInvNext == DelayInv /\ [TimerNext]_timerVars => DelayInv'
<1> SUFFICES ASSUME DelayInv, [TimerNext]_timerVars PROVE DelayInv'
  OBVIOUS
<1>1. ReadInv'
  BY ReadNext DEF DelayInv
<1>2. /\ {clock, value, entered, from, end} \subseteq Count
      /\ {clock, value, entered, from, end}' \subseteq Count
      /\ waited \in Nat /\ us \in Word
  BY <1>1 DEF DelayInv, ReadInv, TimerTypeOK
<1>3. NoLater(clock, clock) /\ Pos(clock) \in Nat
  BY <1>2, OrderLemma, PosApart
<1>4. step = "got" => NoLater(entered, value) /\ NoLater(value, clock)
  BY DEF DelayInv, ReadInv, TicksInWindow
<1>5. CASE ClockTick
  <2>1. clock' = Plus(clock, 1) /\ NoLater(clock, clock')
    BY <1>5 DEF ClockTick
  <2>2. Pos(clock') = Pos(clock) + 1
    BY <1>2, <2>1, PosTick
  <2>3. UNCHANGED <<step, value, entered, wait, us, from, end, asked>>
    BY <1>5 DEF ClockTick, callerVars
  <2>4. wait # "none" => waited' = waited + 1
    BY <1>5 DEF ClockTick
  <2>5. Pos(entered) \in Nat /\ Pos(from) \in Nat
    BY <1>2, PosApart
  <2>6. wait = "start" => Pos(clock') <= Pos(entered) + waited'
    BY <1>2, <1>3, <2>2, <2>4, <2>5 DEF DelayInv, DelayRuns
  <2>7. wait \in {"rollover", "target"} => Pos(clock') <= Pos(from) + waited'
    BY <1>2, <1>3, <2>2, <2>4, <2>5 DEF DelayInv, DelayRuns
  <2> QED
    BY <1>1, <2>3, <2>6, <2>7 DEF DelayInv, DelayRuns
<1>6. CASE CallGetTicks
  <2>1. wait = "none" /\ wait' = wait
    BY <1>6 DEF CallGetTicks, callerVars, DelayInv, DelayRuns
  <2> QED
    BY <1>1, <2>1 DEF DelayInv, DelayRuns
<1>7. CASE CallDelayUs \/ CallDelayMs
  <2>1. PICK n \in Word, t \in Nat : BeginDelay(n, t) /\ (t < WordModulus => n = t)
    BY <1>7, AskedFits
  <2>2. /\ step' = "hi" /\ entered' = clock /\ clock' = clock /\ wait' = "start"
        /\ us' = n /\ asked' = t /\ waited' = 0
    BY <2>1 DEF BeginDelay, GetTicks
  <2>3. Pos(clock') <= Pos(entered') + waited'
    BY <1>3, <2>2
  <2> QED
    BY <1>1, <2>1, <2>2, <2>3 DEF DelayInv, DelayRuns
<1>8. CASE Reads \/ TicksReturned \/ UNCHANGED timerVars
  <2>1. /\ UNCHANGED <<clock, entered, wait, us, from, end, asked, waited>>
        /\ wait # "none" => step' # "idle"
    BY <1>8 DEF Reads, ReadHigh, ReadLow, ReadHighAgain, TicksReturned, timerVars, callerVars,
                DelayInv, DelayRuns
  <2> QED
    BY <1>1, <2>1 DEF DelayInv, DelayRuns
<1>9. CASE DelayStarted
  <2>1. /\ step = "got" /\ wait = "start" /\ from' = value /\ end' = Plus(value, us)
        /\ step' = "hi" /\ entered' = clock /\ UNCHANGED <<clock, us, asked, waited>>
        /\ wait' \in {"rollover", "target"}
        /\ wait' = "target" => ~Less(end', from')
    BY <1>9 DEF DelayStarted, GetTicks, Phase
  <2>2. Pos(entered) <= Pos(value) /\ Pos(entered) \in Nat /\ Pos(value) \in Nat
    BY <1>2, <1>4, <2>1, PosLater, PosApart
  <2>3. Pos(clock) <= Pos(entered) + waited
    BY <2>1 DEF DelayInv, DelayRuns
  <2>4. Pos(clock') <= Pos(from') + waited'
    BY <1>2, <1>3, <2>1, <2>2, <2>3
  <2>5. NoLater(from', entered') /\ end' = Plus(from', us')
    BY <1>4, <2>1
  <2> QED
    BY <1>1, <2>1, <2>4, <2>5 DEF DelayInv, DelayRuns
<1>10. CASE AwaitRollover
  <2>1. /\ step = "got" /\ wait = "rollover" /\ step' = "hi" /\ entered' = clock
        /\ wait' = IF Less(value, from) THEN "target" ELSE wait
        /\ UNCHANGED <<clock, us, from, end, asked, waited>>
    BY <1>10 DEF AwaitRollover, GetTicks
  <2>2. NoLater(from, entered) /\ NoLater(entered, value) /\ NoLater(value, clock)
    BY <1>4, <2>1 DEF DelayInv, DelayRuns
  <2>3. NoLater(from, value) /\ NoLater(from, clock)
    BY <1>2, <2>2, OrderLemma
  <2>4. Less(value, from) => ~Rolled(from.hi) /\ Rolled(clock.hi)
    BY <1>2, <2>2, <2>3, RolledBetween
  <2> QED
    BY <1>1, <2>1, <2>3, <2>4 DEF DelayInv, DelayRuns
<1>11. CASE AwaitTarget
  <2>1. CASE DelayOver(value)
    <3>1. wait' = "none"
      BY <1>11, <2>1 DEF AwaitTarget
    <3> QED
      BY <1>1, <3>1 DEF DelayInv, DelayRuns
  <2>2. CASE ~DelayOver(value)
    <3>1. /\ step = "got" /\ wait = "target" /\ step' = "hi" /\ entered' = clock
          /\ UNCHANGED <<wait, clock, us, from, end, asked, waited>>
      BY <1>11, <2>2 DEF AwaitTarget, GetTicks
    <3>2. NoLater(from, entered) /\ NoLater(entered, value) /\ NoLater(value, clock)
      BY <1>4, <3>1 DEF DelayInv, DelayRuns
    <3>3. NoLater(entered, clock) /\ NoLater(from, clock)
      BY <1>2, <3>2, OrderLemma
    <3>4. Rolled(entered.hi) => Rolled(clock.hi)
      BY <1>2, <3>3, RolledBetween
    <3> QED
      BY <1>1, <3>1, <3>3, <3>4 DEF DelayInv, DelayRuns
  <2> QED
    BY <2>1, <2>2
<1> QED
  BY <1>5, <1>6, <1>7, <1>8, <1>9, <1>10, <1>11 DEF TimerNext, Polls

LEMMA DelayEnds ==
  ASSUME DelayInv, [TimerNext]_timerVars, wait # "none", wait' = "none", asked < WordModulus
  PROVE  waited >= asked
<1>1. {clock, value, entered, from} \subseteq Count /\ us \in Word /\ waited \in Nat /\ asked \in Nat
  BY DEF DelayInv, ReadInv, TimerTypeOK
<1>2. AwaitTarget
  <2>1. ~CallDelayUs /\ ~CallDelayMs
    BY AskedFits DEF BeginDelay
  <2> QED
    BY <2>1 DEF TimerNext, ClockTick, CallGetTicks, Reads, ReadHigh, ReadLow, ReadHighAgain,
       Polls, TicksReturned, DelayStarted, Phase, AwaitRollover, timerVars, callerVars
<1>3. step = "got" /\ wait = "target" /\ ~Less(value, end)
  BY <1>2 DEF AwaitTarget, DelayOver
<1>4. /\ NoLater(from, entered) /\ NoLater(entered, value) /\ NoLater(value, clock)
      /\ end = Plus(from, us) /\ Pos(clock) <= Pos(from) + waited /\ us = asked
      /\ Less(end, from) => ~Rolled(from.hi) /\ Rolled(entered.hi)
  BY <1>3 DEF DelayInv, DelayRuns, ReadInv, TicksInWindow
<1>5. NoLater(from, value) /\ (Rolled(entered.hi) => Rolled(value.hi))
  BY <1>1, <1>4, OrderLemma, RolledBetween
<1>6. Pos(from) + us <= Pos(value)
  BY <1>1, <1>3, <1>4, <1>5, PosElapsed
<1>7. Pos(value) <= Pos(clock)
  BY <1>1, <1>4, PosLater
<1>8. Pos(from) \in Nat /\ Pos(value) \in Nat /\ Pos(clock) \in Nat
  BY <1>1, PosApart
<1> QED
  BY <1>1, <1>4, <1>6, <1>7, <1>8

(* timer_delay_us and timer_delay_ms never return early, for every width   *)
(* of the registers, wherever the counter starts and whether it carries or *)
(* rolls over meanwhile, if the time fits the word that it is computed in. *)
THEOREM DelaysLastLongEnough == TimerSpec => DelayNotEarly
<1>1. DelayInv /\ [TimerNext]_timerVars =>
        [wait # "none" /\ wait' = "none" /\ asked < WordModulus => waited >= asked]_timerVars
  BY DelayEnds
<1> QED
  BY DelayInvInit, DelayInvNext, <1>1, PTL DEF TimerSpec, DelayNotEarly

-----------------------------------------------------------------------------
(* The heap: the blocks tile it, and a caller's block has the room asked   *)
(* for, for every heap size, width of size_t and set of requests.          *)
(*                                                                         *)
(* The invariants of HeapAllocator are inductive together: a merge keeps   *)
(* the tiling because the successor is the adjacent block (Tiling) and is  *)
(* not held by a caller (FreeUnlessLive).                                  *)
HeapInv == HeapTypeOK /\ Tiling /\ EnoughRoom /\ FreeUnlessLive

USE DEF HeaderSize, Null

(* AlignUp never shrinks a request that does not wrap around.              *)
LEMMA AlignUpRoom ==
  ASSUME NEW n \in Requests
  PROVE  /\ AlignUp(n) \in Nat
         /\ n + 7 < SizeModulus => AlignUp(n) >= n
<1> DEFINE s == (n + 7) % SizeModulus
<1>1. n \in Nat /\ SizeModulus \in Nat /\ SizeModulus > 0
  BY HeapAssumption
<1>2. s \in Nat
  BY <1>1
<1>3. s - (s % 8) \in Nat /\ s - (s % 8) > s - 8
  BY <1>2
<1>4. n + 7 < SizeModulus => s = n + 7
  BY <1>1
<1>5. n + 7 < SizeModulus => s - (s % 8) >= n
  BY <1>1, <1>2, <1>3, <1>4
<1> QED
  BY <1>3, <1>5 DEF AlignUp

(* The heap starts as one free block that fills it.                        *)
LEMMA HeapStarts == HeapInit => HeapInv
BY HeapAssumption DEF HeapInit, HeapInv, HeapTypeOK, Tiling, EnoughRoom, FreeUnlessLive, End, Block

(* Cutting a block in two and taking the first part keeps the invariant.   *)
LEMMA SplitInvariant ==
  ASSUME HeapInv, NEW n \in Requests, NEW a \in DOMAIN blocks,
         Fits(a, AlignUp(n)), Splits(a, AlignUp(n)),
         blocks' = SplitBlocks(a, AlignUp(n)),
         live' = [b \in DOMAIN live \cup {a} |-> IF b = a THEN n ELSE live[b]]
  PROVE  HeapInv'
<1> DEFINE size == AlignUp(n)
           rest == a + HeaderSize + size
<1>1. size \in Nat /\ (n + 7 < SizeModulus => size >= n)
  BY AlignUpRoom
<1> HIDE DEF size
<1>2. a \in Nat /\ blocks[a].size \in Nat /\ blocks[a].free = TRUE /\ HeapSize \in Nat
  BY HeapAssumption DEF HeapInv, HeapTypeOK, Fits, Block
<1>3. blocks[a].size > size + HeaderSize + 8
  BY DEF Splits, size
<1>4. rest \in Nat /\ rest > a /\ rest < End(a) /\ rest # a /\ End(a) \in Nat
  BY <1>1, <1>2, <1>3 DEF End
<1>5. rest \notin DOMAIN blocks
  BY <1>4, <1>2 DEF HeapInv, Tiling, HeapTypeOK, End
<1>6. blocks' = [b \in DOMAIN blocks \cup {rest} |->
        IF b = rest THEN [size |-> blocks[a].size - size - HeaderSize, free |-> TRUE,
                          next |-> blocks[a].next]
        ELSE IF b = a THEN [size |-> size, free |-> FALSE, next |-> rest]
        ELSE blocks[b]]
  BY DEF SplitBlocks, size
<1> HIDE DEF rest
<1>7. /\ DOMAIN blocks' = DOMAIN blocks \cup {rest}
      /\ blocks'[rest] = [size |-> blocks[a].size - size - HeaderSize, free |-> TRUE,
                          next |-> blocks[a].next]
      /\ blocks'[a] = [size |-> size, free |-> FALSE, next |-> rest]
      /\ \A b \in DOMAIN blocks \ {a} : blocks'[b] = blocks[b]
  BY <1>4, <1>5, <1>6
<1>8. a \notin DOMAIN live
  BY <1>2 DEF HeapInv, FreeUnlessLive
<1>9. /\ End(rest)' = End(a) /\ End(a)' = rest
      /\ \A b \in DOMAIN blocks \ {a} : End(b)' = End(b)
  BY <1>1, <1>2, <1>3, <1>4, <1>7 DEF End, rest
<1>10. HeapTypeOK'
  <2>1. \A b \in DOMAIN blocks : b \in Nat /\ blocks[b] \in Block
    BY DEF HeapInv, HeapTypeOK
  <2>2. blocks[a].next \in Nat
    BY <2>1 DEF Block
  <2>3. blocks'[rest] \in Block
    BY <2>2, <1>1, <1>2, <1>3, <1>7 DEF Block
  <2>4. blocks'[a] \in Block
    BY <1>1, <1>4, <1>7 DEF Block
  <2>5. DOMAIN live' \subseteq DOMAIN blocks' /\ \A b \in DOMAIN live' : live'[b] \in Requests
    BY <1>7 DEF HeapInv, HeapTypeOK
  <2> QED
    BY <2>1, <2>3, <2>4, <2>5, <1>4, <1>7 DEF HeapTypeOK
<1>11. Tiling'
  <2>1. 0 \in DOMAIN blocks'
    BY <1>7 DEF HeapInv, Tiling
  <2>2. ASSUME NEW b \in DOMAIN blocks'
        PROVE  /\ b + HeaderSize <= HeapSize
               /\ End(b)' <= HeapSize
               /\ blocks'[b].next = End(b)'
               /\ End(b)' # HeapSize => End(b)' \in DOMAIN blocks'
    <3>1. CASE b = rest
      BY <3>1, <1>1, <1>2, <1>3, <1>4, <1>7, <1>9 DEF HeapInv, Tiling, End, rest
    <3>2. CASE b = a
      BY <3>2, <1>2, <1>4, <1>7, <1>9 DEF HeapInv, Tiling
    <3>3. CASE b \in DOMAIN blocks \ {a}
      BY <3>3, <1>7, <1>9 DEF HeapInv, Tiling
    <3> QED
      BY <3>1, <3>2, <3>3, <1>7
  <2>3. ASSUME NEW b \in DOMAIN blocks', NEW c \in DOMAIN blocks', b < c
        PROVE  End(b)' <= c
    <3>1. \A d \in DOMAIN blocks : d \in Nat /\ End(d) \in Nat
      BY DEF HeapInv, HeapTypeOK, Block, End
    <3>2. CASE b = rest
      BY <3>1, <3>2, <2>3, <1>4, <1>7, <1>9, <1>2 DEF HeapInv, Tiling
    <3>3. CASE b = a
      BY <3>1, <3>3, <2>3, <1>4, <1>7, <1>9, <1>2 DEF HeapInv, Tiling
    <3>4. CASE b \in DOMAIN blocks \ {a} /\ c = rest
      BY <3>1, <3>4, <2>3, <1>4, <1>7, <1>9, <1>2 DEF HeapInv, Tiling
    <3>5. CASE b \in DOMAIN blocks \ {a} /\ c # rest
      BY <3>1, <3>5, <2>3, <1>7, <1>9 DEF HeapInv, Tiling
    <3> QED
      BY <3>2, <3>3, <3>4, <3>5, <1>7
  <2> QED
    BY <2>1, <2>2, <2>3 DEF Tiling
<1>12. EnoughRoom'
  BY <1>1, <1>7, <1>8 DEF HeapInv, HeapTypeOK, EnoughRoom
<1>13. FreeUnlessLive'
  BY <1>2, <1>4, <1>5, <1>7 DEF HeapInv, HeapTypeOK, FreeUnlessLive
<1> QED
  BY <1>10, <1>11, <1>12, <1>13 DEF HeapInv

(* Taking a whole block only clears its free mark.                         *)
LEMMA TakeInvariant ==
  ASSUME HeapInv, NEW n \in Requests, NEW a \in DOMAIN blocks,
         Fits(a, AlignUp(n)),
         blocks' = [blocks EXCEPT ![a].free = FALSE],
         live' = [b \in DOMAIN live \cup {a} |-> IF b = a THEN n ELSE live[b]]
  PROVE  HeapInv'
<1>1. n + 7 < SizeModulus => blocks[a].size >= n
  <2>1. AlignUp(n) \in Nat /\ n \in Nat /\ blocks[a].size \in Nat
    BY AlignUpRoom, HeapAssumption DEF HeapInv, HeapTypeOK, Block
  <2> QED
    BY <2>1, AlignUpRoom DEF Fits
<1>2. /\ DOMAIN blocks' = DOMAIN blocks
      /\ \A b \in DOMAIN blocks : /\ blocks'[b] \in Block
                                  /\ blocks'[b].size = blocks[b].size
                                  /\ blocks'[b].next = blocks[b].next
                                  /\ blocks'[b].free = IF b = a THEN FALSE ELSE blocks[b].free
  BY DEF HeapInv, HeapTypeOK, Block
<1>3. \A b \in DOMAIN blocks : End(b)' = End(b)
  BY <1>2 DEF End
<1>4. a \notin DOMAIN live
  BY DEF HeapInv, FreeUnlessLive, Fits
<1>5. HeapTypeOK'
  BY <1>2 DEF HeapInv, HeapTypeOK
<1>6. Tiling'
  BY <1>2, <1>3 DEF HeapInv, Tiling
<1>7. EnoughRoom'
  BY <1>1, <1>2 DEF HeapInv, HeapTypeOK, EnoughRoom
<1>8. FreeUnlessLive'
  BY <1>2 DEF HeapInv, FreeUnlessLive
<1> QED
  BY <1>5, <1>6, <1>7, <1>8 DEF HeapInv

(* malloc keeps the invariant.                                             *)
LEMMA MallocInvariant ==
  ASSUME HeapInv, NEW n \in Requests, Malloc(n)
  PROVE  HeapInv'
<1>1. PICK a \in DOMAIN blocks :
        /\ FirstFit(a, AlignUp(n))
        /\ blocks' = IF Splits(a, AlignUp(n)) THEN SplitBlocks(a, AlignUp(n))
                     ELSE [blocks EXCEPT ![a].free = FALSE]
        /\ live' = [b \in DOMAIN live \cup {a} |-> IF b = a THEN n ELSE live[b]]
  BY DEF Malloc
<1>2. Fits(a, AlignUp(n))
  BY <1>1 DEF FirstFit
<1>3. CASE Splits(a, AlignUp(n))
  BY <1>1, <1>2, <1>3, SplitInvariant
<1>4. CASE ~Splits(a, AlignUp(n))
  BY <1>1, <1>2, <1>4, TakeInvariant
<1> QED
  BY <1>3, <1>4

(* free keeps the invariant; a merge absorbs the adjacent block, which no  *)
(* caller holds.                                                           *)
LEMMA FreeInvariant ==
  ASSUME HeapInv, NEW a \in DOMAIN live, Free(a)
  PROVE  HeapInv'
<1> DEFINE next == blocks[a].next
<1>1. /\ a \in DOMAIN blocks /\ a \in Nat /\ HeapSize \in Nat
      /\ \A b \in DOMAIN blocks : b \in Nat /\ blocks[b] \in Block /\ End(b) \in Nat
  BY HeapAssumption DEF HeapInv, HeapTypeOK, Block, End
<1>2. live' = [b \in DOMAIN live \ {a} |-> live[b]]
  BY DEF Free
<1>3. CASE Coalesces(a)
  <2>1. next = End(a) /\ next \in DOMAIN blocks /\ next > a /\ next # a
    BY <1>1, <1>3 DEF HeapInv, Tiling, Coalesces, End, Block
  <2>2. next \notin DOMAIN live
    BY <1>3, <2>1 DEF HeapInv, FreeUnlessLive, Coalesces
  <2>3. blocks' = MergedBlocks(a)
    BY <1>3 DEF Free
  <2>4. /\ DOMAIN blocks' = DOMAIN blocks \ {next}
        /\ blocks'[a] = [size |-> blocks[a].size + HeaderSize + blocks[next].size,
                         free |-> TRUE, next |-> blocks[next].next]
        /\ \A b \in DOMAIN blocks \ {a, next} : blocks'[b] = blocks[b]
    BY <1>1, <2>1, <2>3 DEF MergedBlocks
  <2>5. /\ End(a)' = End(next)
        /\ \A b \in DOMAIN blocks \ {a, next} : End(b)' = End(b)
    BY <1>1, <2>1, <2>4 DEF End, Block
  <2> HIDE DEF next
  <2>6. HeapTypeOK'
    <3>1. blocks'[a] \in Block
      BY <1>1, <2>1, <2>4 DEF Block
    <3> QED
      BY <3>1, <1>1, <1>2, <2>2, <2>4 DEF HeapInv, HeapTypeOK
  <2>7. Tiling'
    <3>1. 0 \in DOMAIN blocks'
      BY <1>1, <2>1, <2>4 DEF HeapInv, Tiling
    <3>2. ASSUME NEW b \in DOMAIN blocks'
          PROVE  /\ b + HeaderSize <= HeapSize
                 /\ End(b)' <= HeapSize
                 /\ blocks'[b].next = End(b)'
                 /\ End(b)' # HeapSize => End(b)' \in DOMAIN blocks'
      <4>1. CASE b = a
        <5>1. End(next) > next
          BY <1>1, <2>1 DEF End, Block
        <5> QED
          BY <4>1, <5>1, <1>1, <2>1, <2>4, <2>5 DEF HeapInv, Tiling
      <4>2. CASE b \in DOMAIN blocks \ {a, next}
        <5>1. End(b) # next
          <6>1. SUFFICES ASSUME End(b) = next PROVE FALSE
            OBVIOUS
          <6>2. b < End(b)
            BY <1>1, <4>2 DEF End, Block
          <6>3. a < b \/ b < a
            BY <1>1, <4>2
          <6>4. CASE a < b
            BY <6>1, <6>2, <6>4, <1>1, <2>1, <4>2 DEF HeapInv, Tiling
          <6>5. CASE b < a
            BY <6>1, <6>5, <1>1, <2>1, <4>2 DEF HeapInv, Tiling
          <6> QED
            BY <6>3, <6>4, <6>5
        <5> QED
          BY <4>2, <5>1, <2>4, <2>5 DEF HeapInv, Tiling
      <4> QED
        BY <4>1, <4>2, <2>4
    <3>3. ASSUME NEW b \in DOMAIN blocks', NEW c \in DOMAIN blocks', b < c
          PROVE  End(b)' <= c
      <4>1. CASE b = a
        BY <4>1, <3>3, <1>1, <2>1, <2>4, <2>5 DEF HeapInv, Tiling
      <4>2. CASE b # a
        BY <4>2, <3>3, <1>1, <2>4, <2>5 DEF HeapInv, Tiling
      <4> QED
        BY <4>1, <4>2
    <3> QED
      BY <3>1, <3>2, <3>3 DEF Tiling
  <2>8. EnoughRoom'
    BY <1>1, <1>2, <2>2, <2>4 DEF HeapInv, HeapTypeOK, EnoughRoom
  <2>9. FreeUnlessLive'
    BY <1>1, <1>2, <2>1, <2>2, <2>4 DEF HeapInv, FreeUnlessLive
  <2> QED
    BY <2>6, <2>7, <2>8, <2>9 DEF HeapInv
<1>4. CASE ~Coalesces(a)
  <2>1. blocks' = [blocks EXCEPT ![a].free = TRUE]
    BY <1>4 DEF Free
  <2>2. /\ DOMAIN blocks' = DOMAIN blocks
        /\ \A b \in DOMAIN blocks : /\ blocks'[b] \in Block
                                    /\ blocks'[b].size = blocks[b].size
                                    /\ blocks'[b].next = blocks[b].next
                                    /\ blocks'[b].free = IF b = a THEN TRUE ELSE blocks[b].free
    BY <1>1, <2>1 DEF Block
  <2>3. \A b \in DOMAIN blocks : End(b)' = End(b)
    BY <2>2 DEF End
  <2>4. HeapTypeOK'
    BY <1>2, <2>2 DEF HeapInv, HeapTypeOK
  <2>5. Tiling'
    <3>1. 0 \in DOMAIN blocks'
      BY <2>2 DEF HeapInv, Tiling
    <3>2. ASSUME NEW b \in DOMAIN blocks
          PROVE  /\ b + HeaderSize <= HeapSize
                 /\ End(b)' <= HeapSize
                 /\ blocks'[b].next = End(b)'
                 /\ End(b)' # HeapSize => End(b)' \in DOMAIN blocks'
      BY <2>2, <2>3 DEF HeapInv, Tiling
    <3>3. ASSUME NEW b \in DOMAIN blocks, NEW c \in DOMAIN blocks, b < c
          PROVE  End(b)' <= c
      BY <2>3, <3>3 DEF HeapInv, Tiling
    <3> QED
      BY <2>2, <3>1, <3>2, <3>3 DEF Tiling
  <2>6. EnoughRoom'
    BY <1>2, <2>2 DEF HeapInv, HeapTypeOK, EnoughRoom
  <2>7. FreeUnlessLive'
    BY <1>2, <2>2 DEF HeapInv, FreeUnlessLive
  <2> QED
    BY <2>4, <2>5, <2>6, <2>7 DEF HeapInv
<1> QED
  BY <1>3, <1>4

LEMMA HeapStays == HeapInv /\ UNCHANGED heapVars => HeapInv'
BY DEF heapVars, HeapInv, HeapTypeOK, Tiling, EnoughRoom, FreeUnlessLive, End

LEMMA HeapSteps == HeapInv /\ [HeapNext]_heapVars => HeapInv'
<1>1. SUFFICES ASSUME HeapInv, [HeapNext]_heapVars PROVE HeapInv'
  OBVIOUS
<1>2. ASSUME NEW n \in Requests, Malloc(n) PROVE HeapInv'
  BY <1>1, <1>2, MallocInvariant
<1>3. ASSUME NEW a \in DOMAIN live, Free(a) PROVE HeapInv'
  BY <1>1, <1>3, FreeInvariant
<1>4. CASE UNCHANGED heapVars
  BY <1>1, <1>4, HeapStays
<1> QED
  BY <1>1, <1>2, <1>3, <1>4 DEF HeapNext

LEMMA HeapInvariant == HeapSpec => []HeapInv
BY HeapStarts, HeapSteps, PTL DEF HeapSpec

(* No step touches a block that a caller keeps holding.                    *)
LEMMA HeldLemma ==
  ASSUME HeapInv, [HeapNext]_heapVars
  PROVE  HeldStep
<1> USE DEF HeapInv
<1>1. /\ DOMAIN live \subseteq DOMAIN blocks
      /\ \A b \in DOMAIN blocks : b \in Nat /\ blocks[b].size \in Nat
  BY DEF HeapTypeOK, Block
<1>2. ASSUME NEW n \in Requests, Malloc(n) PROVE HeldStep
  <2> DEFINE size == AlignUp(n)
             rest(a) == a + HeaderSize + size
  <2>1. PICK a \in DOMAIN blocks :
          /\ FirstFit(a, size)
          /\ blocks' = IF Splits(a, size) THEN SplitBlocks(a, size)
                       ELSE [blocks EXCEPT ![a].free = FALSE]
          /\ live' = [b \in DOMAIN live \cup {a} |-> IF b = a THEN n ELSE live[b]]
    BY <1>2 DEF Malloc
  <2>2. a \notin DOMAIN live
    BY <2>1 DEF FirstFit, Fits, FreeUnlessLive
  <2>3. \A b \in DOMAIN live : live'[b] = live[b]
    BY <2>1, <2>2
  <2>4. CASE Splits(a, size)
    <3>1. size \in Nat
      BY AlignUpRoom
    <3> HIDE DEF size
    <3>2. rest(a) > a /\ rest(a) < End(a)
      BY <1>1, <2>4, <3>1 DEF Splits, End
    <3>3. \A b \in DOMAIN blocks : b # rest(a)
      BY <1>1, <3>1, <3>2 DEF Tiling, End
    <3>4. \A b \in DOMAIN blocks \ {a} : blocks'[b] = blocks[b]
      BY <2>1, <2>4, <3>3 DEF SplitBlocks
    <3> QED
      BY <1>1, <2>2, <2>3, <3>4 DEF HeldStep
  <2>5. CASE ~Splits(a, size)
    BY <1>1, <2>1, <2>2, <2>3, <2>5 DEF HeldStep
  <2> QED
    BY <2>4, <2>5
<1>3. ASSUME NEW a \in DOMAIN live, Free(a) PROVE HeldStep
  <2>1. live' = [b \in DOMAIN live \ {a} |-> live[b]]
    BY <1>3 DEF Free
  <2>2. CASE Coalesces(a)
    <3>1. blocks[a].next \in DOMAIN blocks /\ blocks[a].next \notin DOMAIN live
      BY <1>1, <2>2 DEF Coalesces, Tiling, FreeUnlessLive
    <3>2. \A b \in DOMAIN blocks \ {a, blocks[a].next} : blocks'[b] = blocks[b]
      BY <1>3, <2>2 DEF Free, MergedBlocks
    <3> QED
      BY <1>1, <2>1, <3>1, <3>2 DEF HeldStep
  <2>3. CASE ~Coalesces(a)
    BY <1>1, <1>3, <2>1, <2>3 DEF Free, HeldStep
  <2> QED
    BY <2>2, <2>3
<1>4. CASE UNCHANGED heapVars
  BY <1>1, <1>4 DEF heapVars, HeldStep
<1> QED
  BY <1>2, <1>3, <1>4 DEF HeapNext

(* memory.c keeps the list of headers well-typed.                          *)
THEOREM HeapTypeCorrect == HeapSpec => []HeapTypeOK
<1>1. HeapInv => HeapTypeOK
  BY DEF HeapInv
<1> QED
  BY <1>1, HeapInvariant, PTL

(* The blocks of the list tile the heap after any sequence of calls: no    *)
(* two overlap, none reaches past the end, and no byte is lost.            *)
THEOREM HeapTiled == HeapSpec => []Tiling
<1>1. HeapInv => Tiling
  BY DEF HeapInv
<1> QED
  BY <1>1, HeapInvariant, PTL

(* A caller's block has the room the caller asked for and is free to       *)
(* nobody else.                                                            *)
THEOREM HeapRoom == HeapSpec => [](EnoughRoom /\ FreeUnlessLive)
<1>1. HeapInv => EnoughRoom /\ FreeUnlessLive
  BY DEF HeapInv
<1> QED
  BY <1>1, HeapInvariant, PTL

(* malloc never gives out a block that is held, and neither call cuts or   *)
(* merges one.                                                             *)
THEOREM HeldUntouched == HeapSpec => HeldBlocksUntouched
<1>1. HeapInv /\ [HeapNext]_heapVars => [HeldStep]_heapVars
  BY HeldLemma
<1> QED
  BY <1>1, HeapInvariant, PTL DEF HeapSpec, HeldBlocksUntouched
=============================================================================

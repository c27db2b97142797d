----------------------------- MODULE BootProofs -----------------------------
(***************************************************************************)
(* The monitor and the boot loop.                                          *)
(*                                                                         *)
(* First the monitor under arbitrary callers, for every size of the        *)
(* history, any width of the clock and any duration of a turn: its state   *)
(* is well-typed, the boot state moves only along the rules, a recovery is *)
(* only ever started by the hardware interlock, and the history is a walk  *)
(* along the transitions that were made.  Nothing but UpdateState changes  *)
(* the boot state, so the theorems follow from what one frame of it does   *)
(* to a well-typed monitor.                                                *)
(*                                                                         *)
(* Then main as its caller, for every choice of boot sources, whatever the *)
(* drivers report, however long a turn takes and for every limit of        *)
(* retries: failed loads are counted up to the limit and no further, and   *)
(* the kernel is entered only after a load that succeeded.  The argument   *)
(* is about the order of main's states.                                    *)
(***************************************************************************)
EXTENDS BootMain, TLAPS

(* The states and interlocks that the code names.                          *)
LEMMA NamedStates == {"POWER_ON", "FAILURE", "STARTELF_LOADING"} \subseteq BootStates
<1>1. BootStateEnum[1] = "POWER_ON" /\ BootStateEnum[43] = "FAILURE"
        /\ BootStateEnum[16] = "STARTELF_LOADING"
  BY DEF BootStateEnum
<1>2. 1 \in DOMAIN BootStateEnum /\ 43 \in DOMAIN BootStateEnum /\ 16 \in DOMAIN BootStateEnum
  BY DEF BootStateEnum
<1> QED
  BY <1>1, <1>2 DEF BootStates

LEMMA BlockingInterlockType ==
  ASSUME NEW flags, NEW target
  PROVE  BlockingInterlock(flags, target) \in Interlocks
BY DEF BlockingInterlock, Interlocks

(* Recording an outcome keeps the type and touches the history only.       *)
LEMMA RecordLemma ==
  ASSUME NEW m \in Monitor, NEW state \in BootStates, NEW status \in TransitionStatus,
         NEW interlock \in Interlocks
  PROVE  LET r == Record(m, state, status, interlock)
         IN /\ r \in Monitor
            /\ r.current_state = m.current_state /\ r.previous_state = m.previous_state
            /\ r.retry_count = m.retry_count /\ r.pending = m.pending
            /\ r.safety_flags = m.safety_flags /\ r.active_interlock = m.active_interlock
<1> DEFINE r == Record(m, state, status, interlock)
           entry == [state |-> state, result |-> status, interlock |-> interlock,
                     logged |-> TRUE]
<1>1. entry \in HistoryEntry
  BY DEF HistoryEntry
<1>2. /\ HistorySize \in Nat \ {0}
      /\ m.history_index \in 0 .. (HistorySize - 1)
      /\ m.history \in [0 .. (HistorySize - 1) -> HistoryEntry]
  BY HistoryAssumption DEF Monitor
<1>3. (m.history_index + 1) % HistorySize \in 0 .. (HistorySize - 1)
  BY <1>2
<1> HIDE DEF entry
<1>4. [m.history EXCEPT ![m.history_index] = entry]
        \in [0 .. (HistorySize - 1) -> HistoryEntry]
  BY <1>1, <1>2
<1>5. r = [m EXCEPT !.history = [m.history EXCEPT ![m.history_index] = entry],
                    !.history_index = (m.history_index + 1) % HistorySize]
  BY DEF Record, entry
<1> HIDE DEF r
<1> QED
  BY <1>3, <1>4, <1>5 DEF Monitor, r

(* One frame of fsa_update_state keeps the type; it stays, or moves by a   *)
(* rule whose interlocks are clear; it leaves a call pending only when the *)
(* target was blocked.                                                     *)
LEMMA UpdateStateLemma ==
  ASSUME NEW m \in Monitor, NEW target \in BootStates, m.pending = "none"
  PROVE  LET u == UpdateState(m, target)
             blocker == BlockingInterlock(m.safety_flags, target)
         IN /\ u \in Monitor
            /\ u.safety_flags = m.safety_flags
            /\ \/ u.current_state = m.current_state
               \/ /\ u.current_state \in Successors[m.current_state]
                  /\ BlockingInterlock(m.safety_flags, u.current_state) = "NONE"
                  /\ u.previous_state = m.current_state
                  /\ u.retry_count = 0
            /\ \/ u.pending = "none"
               \/ /\ u.pending = "failure" /\ blocker # "NONE"
                  /\ u.active_interlock = blocker
<1> DEFINE u == UpdateState(m, target)
           blocker == BlockingInterlock(m.safety_flags, target)
           status == Status(m, target)
<1>1. /\ m.current_state \in BootStates /\ m.previous_state \in BootStates
      /\ m.retry_count \in Nat /\ m.active_interlock \in Interlocks
      /\ 0 \in 0 .. (ElapsedModulus - 1)
  BY TimeAssumption DEF Monitor
<1>2. blocker \in Interlocks
  BY BlockingInterlockType
<1>3. CASE status = "VALID"
  <2> DEFINE e == [m EXCEPT !.previous_state = m.current_state, !.current_state = target,
                            !.elapsed_ms = 0, !.retry_count = 0]
  <2>1. target \in Successors[m.current_state] /\ blocker = "NONE"
    BY <1>3 DEF Status
  <2>2. /\ e \in Monitor
        /\ e.current_state = target /\ e.previous_state = m.current_state
        /\ e.retry_count = 0 /\ e.pending = "none" /\ e.safety_flags = m.safety_flags
    BY <1>1 DEF Monitor
  <2>3. u = Record(e, target, "VALID", "NONE")
    BY <1>3 DEF UpdateState, EnterState
  <2>4. "VALID" \in TransitionStatus /\ "NONE" \in Interlocks
    BY DEF TransitionStatus, Interlocks
  <2> HIDE DEF e, u
  <2>5. /\ u \in Monitor
        /\ u.current_state = target /\ u.previous_state = m.current_state
        /\ u.retry_count = 0 /\ u.pending = "none" /\ u.safety_flags = m.safety_flags
    BY <2>2, <2>3, <2>4, RecordLemma
  <2> QED
    BY <2>1, <2>5 DEF u
<1>4. CASE status = "INVALID"
  <2>1. u = Record(m, m.current_state, "INVALID", m.active_interlock)
    BY <1>4 DEF UpdateState
  <2>2. "INVALID" \in TransitionStatus
    BY DEF TransitionStatus
  <2> HIDE DEF u
  <2>3. /\ u \in Monitor /\ u.current_state = m.current_state
        /\ u.pending = "none" /\ u.safety_flags = m.safety_flags
    BY <1>1, <2>1, <2>2, RecordLemma
  <2> QED
    BY <2>3 DEF u
<1>5. CASE status \notin {"VALID", "INVALID"}
  <2> DEFINE b == Record([m EXCEPT !.active_interlock = blocker],
                         m.current_state, "BLOCKED", blocker)
             action == DetermineRecovery(blocker)
  <2>1. blocker # "NONE"
    BY <1>5 DEF Status
  <2>2. u = ExecuteRecovery(b, action)
    BY <1>5 DEF UpdateState
  <2>3. /\ [m EXCEPT !.active_interlock = blocker] \in Monitor
        /\ "BLOCKED" \in TransitionStatus
    BY <1>2 DEF Monitor, TransitionStatus
  <2> HIDE DEF u, b, blocker
  <2>4. /\ b \in Monitor /\ b.current_state = m.current_state
        /\ b.pending = "none" /\ b.safety_flags = m.safety_flags
        /\ b.active_interlock = blocker
    <3> DEFINE c == [m EXCEPT !.active_interlock = blocker]
    <3>1. /\ c \in Monitor /\ c.current_state = m.current_state /\ c.pending = "none"
          /\ c.safety_flags = m.safety_flags /\ c.active_interlock = blocker
      BY <2>3, <1>1 DEF Monitor
    <3>2. b = Record(c, m.current_state, "BLOCKED", blocker)
      BY DEF b
    <3> HIDE DEF c
    <3> QED
      BY <3>1, <3>2, <1>1, <1>2, <2>3, RecordLemma
  <2>5. blocker \in {"HARDWARE_NOT_READY", "MEMORY_CORRUPTION", "SECURITY_VIOLATION"}
    BY <2>1 DEF blocker, BlockingInterlock
  <2>6. action \in {"RESET", "FAILSAFE"}
    BY <2>5 DEF DetermineRecovery
  <2>7. u = [b EXCEPT !.pending = "failure"]
    BY <2>2, <2>6 DEF ExecuteRecovery
  <2>8. /\ u \in Monitor /\ u.current_state = m.current_state
        /\ u.pending = "failure" /\ u.safety_flags = m.safety_flags
        /\ u.active_interlock = blocker
    BY <2>4, <2>7 DEF Monitor
  <2> QED
    BY <2>1, <2>8 DEF u, blocker
<1> QED
  BY <1>3, <1>4, <1>5

-----------------------------------------------------------------------------
(* Only the hardware flag is ever lowered: fsa_perform_safety_checks sets  *)
(* the others unconditionally.                                             *)
OtherFlagsUp == SafetyFlags \ {"HARDWARE_READY"} \subseteq fsa.safety_flags

IInv == TypeOK /\ OtherFlagsUp /\ RecoveryOnlyForHardware

(* With the other flags up, only the hardware can stand against a target.  *)
LEMMA HardwareBlocks ==
  ASSUME NEW flags, NEW target, SafetyFlags \ {"HARDWARE_READY"} \subseteq flags,
         BlockingInterlock(flags, target) # "NONE"
  PROVE  /\ BlockingInterlock(flags, target) = "HARDWARE_NOT_READY"
         /\ "HARDWARE_READY" \notin flags
BY DEF BlockingInterlock, SafetyFlags

LEMMA InitInvariant == Init => IInv
<1> SUFFICES ASSUME Init PROVE IInv
  OBVIOUS
<1> DEFINE entry == [state |-> "POWER_ON", result |-> "VALID", interlock |-> "NONE",
                     logged |-> FALSE]
<1>1. entry \in HistoryEntry /\ "POWER_ON" \in BootStates /\ "NONE" \in Interlocks
  BY NamedStates DEF HistoryEntry, TransitionStatus, Interlocks
<1>2. 0 \in 0 .. (HistorySize - 1) /\ 0 \in 0 .. (ElapsedModulus - 1)
  BY HistoryAssumption, TimeAssumption
<1>3. InitialMonitor \in Monitor
  BY <1>1, <1>2 DEF InitialMonitor, Monitor
<1>4. TypeOK
  BY <1>2, <1>3 DEF Init, TypeOK
<1>5. OtherFlagsUp /\ RecoveryOnlyForHardware
  BY DEF Init, InitialMonitor, OtherFlagsUp, RecoveryOnlyForHardware
<1> QED
  BY <1>4, <1>5 DEF IInv

(* What one call of UpdateState on a monitor that differs from fsa only in *)
(* the clock, the interlock and the pending mark does to the invariant and *)
(* to the boot state.                                                      *)
LEMMA CallLemma ==
  ASSUME IInv, NEW m \in Monitor, NEW target \in BootStates,
         m.pending = "none", m.safety_flags = fsa.safety_flags,
         m.current_state = fsa.current_state,
         fsa' = UpdateState(m, target)
  PROVE  /\ fsa' \in Monitor /\ OtherFlagsUp' /\ RecoveryOnlyForHardware'
         /\ fsa'.current_state = fsa.current_state \/ LegalStep
<1>1. SafetyFlags \ {"HARDWARE_READY"} \subseteq m.safety_flags
  BY DEF IInv, OtherFlagsUp
<1> DEFINE blocker == BlockingInterlock(m.safety_flags, target)
<1>2. /\ fsa' \in Monitor
      /\ fsa'.safety_flags = fsa.safety_flags
      /\ \/ fsa'.current_state = m.current_state
         \/ /\ fsa'.current_state \in Successors[m.current_state]
            /\ BlockingInterlock(m.safety_flags, fsa'.current_state) = "NONE"
            /\ fsa'.previous_state = m.current_state
            /\ fsa'.retry_count = 0
      /\ \/ fsa'.pending = "none"
         \/ /\ fsa'.pending = "failure" /\ blocker # "NONE"
            /\ fsa'.active_interlock = blocker
  BY UpdateStateLemma
<1>3. OtherFlagsUp'
  BY <1>1, <1>2 DEF OtherFlagsUp
<1>4. RecoveryOnlyForHardware'
  BY <1>1, <1>2, HardwareBlocks DEF RecoveryOnlyForHardware
<1>5. fsa'.current_state = fsa.current_state \/ LegalStep
  BY <1>2 DEF LegalStep
<1> QED
  BY <1>2, <1>3, <1>4, <1>5

(* Every step keeps the invariant, and moves the boot state legally.       *)
LEMMA StepLemma ==
  ASSUME IInv, [Next]_vars
  PROVE  IInv' /\ (fsa'.current_state = fsa.current_state \/ LegalStep)
<1> USE DEF IInv
<1>1. fsa \in Monitor /\ tick_ms \in 0 .. (ElapsedModulus - 1) /\ ElapsedModulus \in Nat \ {0}
  BY TimeAssumption DEF TypeOK
<1>2. CASE RecoveryStep
  <2> DEFINE m == [fsa EXCEPT !.pending = "none"]
  <2>1. /\ m \in Monitor /\ m.pending = "none" /\ m.safety_flags = fsa.safety_flags
        /\ m.current_state = fsa.current_state
    BY <1>1 DEF Monitor
  <2>2. fsa' = UpdateState(m, "FAILURE") /\ UNCHANGED <<pc, tick_ms>>
    BY <1>2 DEF RecoveryStep
  <2> HIDE DEF m
  <2> QED
    BY <2>1, <2>2, CallLemma, NamedStates DEF TypeOK
<1>3. ASSUME NEW target \in BootStates, RequestState(target)
      PROVE  IInv' /\ (fsa'.current_state = fsa.current_state \/ LegalStep)
  <2>1. /\ fsa.pending = "none" /\ fsa' = UpdateState(fsa, target)
        /\ UNCHANGED <<pc, tick_ms>>
    BY <1>3 DEF RequestState
  <2> QED
    BY <1>1, <2>1, CallLemma DEF TypeOK
<1>4. ASSUME NEW d \in IterationMs, Tick(d)
      PROVE  IInv' /\ (fsa'.current_state = fsa.current_state \/ LegalStep)
  <2> DEFINE now == (fsa.elapsed_ms + d) % ElapsedModulus
             limit == StateTimeout[fsa.current_state]
             m == [fsa EXCEPT !.elapsed_ms = now]
             t == [m EXCEPT !.active_interlock = "TIMEOUT"]
  <2>1. now \in 0 .. (ElapsedModulus - 1)
    BY <1>1, TimeAssumption DEF Monitor
  <2>2. /\ fsa.pending = "none" /\ tick_ms' = now /\ pc' = "safety"
        /\ fsa' = IF limit > 0 /\ now > limit THEN UpdateState(t, "FAILURE") ELSE m
    BY <1>4 DEF Tick
  <2> HIDE DEF now, limit
  <2>3. /\ m \in Monitor /\ m.pending = "none" /\ m.safety_flags = fsa.safety_flags
        /\ m.current_state = fsa.current_state
    BY <1>1, <2>1, <2>2 DEF Monitor
  <2>4. /\ t \in Monitor /\ t.pending = "none" /\ t.safety_flags = fsa.safety_flags
        /\ t.current_state = fsa.current_state
    BY <1>1, <2>1, <2>2 DEF Monitor, Interlocks
  <2> HIDE DEF m, t
  <2>5. CASE limit > 0 /\ now > limit
    BY <2>1, <2>2, <2>4, <2>5, CallLemma, NamedStates DEF TypeOK
  <2>6. CASE ~(limit > 0 /\ now > limit)
    BY <2>1, <2>2, <2>3, <2>6 DEF TypeOK, OtherFlagsUp, RecoveryOnlyForHardware
  <2> QED
    BY <2>5, <2>6
<1>5. ASSUME NEW level \in BOOLEAN, SafetyChecks(level)
      PROVE  IInv' /\ (fsa'.current_state = fsa.current_state \/ LegalStep)
  <2> DEFINE c == [fsa EXCEPT !.safety_flags = CheckedFlags(level), !.last_check = tick_ms]
  <2>1. fsa.pending = "none" /\ pc' = "caller" /\ tick_ms' = tick_ms /\ fsa' \in {c, fsa}
    BY <1>5 DEF SafetyChecks
  <2>2. /\ CheckedFlags(level) \subseteq SafetyFlags
        /\ SafetyFlags \ {"HARDWARE_READY"} \subseteq CheckedFlags(level)
    BY DEF CheckedFlags, SafetyFlags
  <2>3. /\ c \in Monitor /\ c.current_state = fsa.current_state /\ c.pending = fsa.pending
        /\ c.safety_flags = CheckedFlags(level)
    BY <1>1, <2>2 DEF Monitor
  <2> HIDE DEF c
  <2> QED
    BY <1>1, <2>1, <2>2, <2>3 DEF TypeOK, OtherFlagsUp, RecoveryOnlyForHardware
<1>6. CASE UNCHANGED vars
  BY <1>6 DEF vars, TypeOK, OtherFlagsUp, RecoveryOnlyForHardware
<1> QED
  BY <1>2, <1>3, <1>4, <1>5, <1>6 DEF Next

LEMMA InductiveInvariant == Spec => []IInv
<1>1. Init => IInv
  BY InitInvariant
<1>2. IInv /\ [Next]_vars => IInv'
  BY StepLemma
<1> QED
  BY <1>1, <1>2, PTL DEF Spec

-----------------------------------------------------------------------------
(* The monitor's record, its history ring and its clocks keep their types. *)
THEOREM MonitorTypeCorrect == Spec => []TypeOK
<1>1. IInv => TypeOK
  BY DEF IInv
<1> QED
  BY <1>1, InductiveInvariant, PTL

(* No request, timeout or nested recovery moves the boot state otherwise   *)
(* than along a rule with its interlocks clear.                            *)
THEOREM TransitionsLegal == Spec => LegalTransitions
<1>1. IInv /\ [Next]_vars => [fsa'.current_state = fsa.current_state \/ LegalStep]_vars
  BY StepLemma
<1> QED
  BY <1>1, InductiveInvariant, PTL DEF Spec, LegalTransitions

(* Of the interlocks and recovery actions the code declares, only the      *)
(* hardware interlock ever starts a recovery.                              *)
THEOREM OnlyHardwareRecovers == Spec => []RecoveryOnlyForHardware
<1>1. IInv => RecoveryOnlyForHardware
  BY DEF IInv
<1> QED
  BY <1>1, InductiveInvariant, PTL

-----------------------------------------------------------------------------
(* The history.  What HistoryIsPath says of the monitor, of any record of  *)
(* its type.                                                               *)
Follows(newer, older) ==
  newer.logged =>
    IF newer.result = "VALID" THEN newer.state \in Successors[older.state]
                              ELSE newer.state = older.state

Path(m) ==
  /\ GetHistory(m, 0).state = m.current_state
  /\ \A i \in 0 .. (HistorySize - 2) : Follows(GetHistory(m, i), GetHistory(m, i + 1))

(* Indices of the ring, without the modulus.                               *)
LEMMA RingIndex ==
  ASSUME NEW n \in 0 .. (2 * HistorySize - 1)
  PROVE  n % HistorySize = IF n < HistorySize THEN n ELSE n - HistorySize
<1>1. HistorySize \in Nat /\ HistorySize > 0
  BY HistoryAssumption
<1>2. CASE n < HistorySize
  BY <1>1, <1>2
<1>3. CASE n >= HistorySize
  <2>1. n - HistorySize \in 0 .. (HistorySize - 1)
    BY <1>1, <1>3
  <2>2. (n - HistorySize) % HistorySize = n - HistorySize
    BY <1>1, <2>1
  <2>3. n % HistorySize = (n - HistorySize) % HistorySize
    BY <1>1, <1>3
  <2> QED
    BY <1>1, <1>3, <2>2, <2>3
<1> QED
  BY <1>1, <1>2, <1>3

(* A record goes before the others, of which the oldest is lost.           *)
LEMMA RecordedFirst ==
  ASSUME NEW m \in Monitor, NEW state, NEW status, NEW interlock
  PROVE  LET r == Record(m, state, status, interlock)
         IN /\ GetHistory(r, 0) = [state |-> state, result |-> status,
                                   interlock |-> interlock, logged |-> TRUE]
            /\ \A i \in 0 .. (HistorySize - 2) : GetHistory(r, i + 1) = GetHistory(m, i)
<1> DEFINE r == Record(m, state, status, interlock)
           entry == [state |-> state, result |-> status, interlock |-> interlock,
                     logged |-> TRUE]
           h == m.history_index
           k == (h + 1) % HistorySize
<1>1. /\ HistorySize \in Nat /\ HistorySize > 0 /\ h \in 0 .. (HistorySize - 1)
      /\ m.history \in [0 .. (HistorySize - 1) -> HistoryEntry]
  BY HistoryAssumption DEF Monitor
<1>2. r.history = [m.history EXCEPT ![h] = entry] /\ r.history_index = k
  BY DEF Record, Monitor
<1> HIDE DEF r, entry
<1>3. k = IF h + 1 < HistorySize THEN h + 1 ELSE 0
  <2>1. h + 1 \in 0 .. (2 * HistorySize - 1)
    BY <1>1
  <2> QED
    BY <1>1, <2>1, RingIndex
<1> HIDE DEF k, h
<1>4. (k + HistorySize - 1 - 0) % HistorySize = h
  <2> DEFINE n == k + HistorySize - 1 - 0
  <2>1. n \in 0 .. (2 * HistorySize - 1) /\ n = IF h + 1 < HistorySize THEN h + HistorySize
                                                ELSE HistorySize - 1
    BY <1>1, <1>3
  <2> HIDE DEF n
  <2>2. n % HistorySize = IF n < HistorySize THEN n ELSE n - HistorySize
    BY <2>1, RingIndex
  <2>3. n % HistorySize = h
    BY <1>1, <2>1, <2>2
  <2> QED
    BY <2>3 DEF n
<1>5. GetHistory(r, 0) = entry
  BY <1>1, <1>2, <1>4 DEF GetHistory
<1>6. ASSUME NEW i \in 0 .. (HistorySize - 2)
      PROVE  GetHistory(r, i + 1) = GetHistory(m, i)
  <2> DEFINE n == k + HistorySize - 1 - (i + 1)
             o == h + HistorySize - 1 - i
  <2>1. /\ o \in 0 .. (2 * HistorySize - 1) /\ n \in 0 .. (2 * HistorySize - 1)
        /\ n = IF h + 1 < HistorySize THEN o ELSE o - HistorySize
    BY <1>1, <1>3
  <2>2. o # h /\ o # h + HistorySize
    BY <1>1
  <2> HIDE DEF n, o
  <2>3. /\ n % HistorySize = IF n < HistorySize THEN n ELSE n - HistorySize
        /\ o % HistorySize = IF o < HistorySize THEN o ELSE o - HistorySize
    BY <2>1, RingIndex
  <2>4. n % HistorySize = o % HistorySize
    BY <1>1, <2>1, <2>3
  <2>5. o % HistorySize # h /\ o % HistorySize \in 0 .. (HistorySize - 1)
    BY <1>1, <2>1, <2>2, <2>3
  <2>6. r.history[o % HistorySize] = m.history[o % HistorySize]
    BY <1>1, <1>2, <2>5
  <2>7. GetHistory(r, i + 1) = r.history[n % HistorySize]
    BY <1>2 DEF GetHistory, n
  <2>8. GetHistory(m, i) = m.history[o % HistorySize]
    BY DEF GetHistory, o, h
  <2> QED
    BY <2>4, <2>6, <2>7, <2>8
<1> QED
  BY <1>5, <1>6 DEF r, entry

(* A record that follows the newest one makes a path again.                *)
LEMMA RecordedPath ==
  ASSUME NEW m \in Monitor, NEW state, NEW status, NEW interlock, NEW u, Path(m),
         IF status = "VALID" THEN state \in Successors[m.current_state]
                             ELSE state = m.current_state,
         u.history = Record(m, state, status, interlock).history,
         u.history_index = Record(m, state, status, interlock).history_index,
         u.current_state = state
  PROVE  Path(u)
<1> DEFINE r == Record(m, state, status, interlock)
           entry == [state |-> state, result |-> status, interlock |-> interlock,
                     logged |-> TRUE]
<1>1. HistorySize \in Nat /\ HistorySize > 0
  BY HistoryAssumption
<1>2. \A i : GetHistory(u, i) = GetHistory(r, i)
  BY DEF GetHistory
<1> HIDE DEF r
<1>3. GetHistory(r, 0) = entry
      /\ \A i \in 0 .. (HistorySize - 2) : GetHistory(r, i + 1) = GetHistory(m, i)
  BY RecordedFirst DEF r
<1>4. GetHistory(u, 0).state = u.current_state
  BY <1>2, <1>3
<1>5. ASSUME NEW i \in 0 .. (HistorySize - 2)
      PROVE  Follows(GetHistory(u, i), GetHistory(u, i + 1))
  <2>1. GetHistory(u, i + 1) = GetHistory(m, i)
    BY <1>2, <1>3
  <2>2. CASE i = 0
    <3>1. Follows(entry, GetHistory(m, 0))
      BY DEF Path, Follows
    <3> QED
      BY <1>2, <1>3, <2>1, <2>2, <3>1
  <2>3. CASE i # 0
    <3>1. i - 1 \in 0 .. (HistorySize - 2) /\ (i - 1) + 1 = i
      BY <1>1, <2>3
    <3>2. GetHistory(u, i) = GetHistory(m, i - 1)
      BY <1>2, <1>3, <3>1
    <3>3. Follows(GetHistory(m, i - 1), GetHistory(m, i))
      BY <3>1 DEF Path
    <3> QED
      BY <2>1, <3>2, <3>3
  <2> QED
    BY <2>2, <2>3
<1> QED
  BY <1>4, <1>5 DEF Path

(* One frame of fsa_update_state records once, and what it records follows.*)
LEMMA UpdatePath ==
  ASSUME NEW m \in Monitor, NEW target \in BootStates, m.pending = "none", Path(m)
  PROVE  Path(UpdateState(m, target))
<1> DEFINE u == UpdateState(m, target)
           blocker == BlockingInterlock(m.safety_flags, target)
           status == Status(m, target)
<1>1. CASE status = "VALID"
  <2> DEFINE e == [m EXCEPT !.previous_state = m.current_state, !.current_state = target,
                            !.elapsed_ms = 0, !.retry_count = 0]
  <2>1. target \in Successors[m.current_state]
    BY <1>1 DEF Status
  <2>2. u = Record(e, target, "VALID", "NONE")
    BY <1>1 DEF UpdateState, EnterState
  <2>3. /\ u.history = Record(m, target, "VALID", "NONE").history
        /\ u.history_index = Record(m, target, "VALID", "NONE").history_index
        /\ u.current_state = target
    BY <2>2 DEF Record, Monitor
  <2> HIDE DEF u, e
  <2>4. Path(u)
    BY <2>1, <2>3, RecordedPath
  <2> QED
    BY <2>4 DEF u
<1>2. CASE status = "INVALID"
  <2>1. u = Record(m, m.current_state, "INVALID", m.active_interlock)
    BY <1>2 DEF UpdateState
  <2>2. /\ u.history = Record(m, m.current_state, "INVALID", m.active_interlock).history
        /\ u.history_index
             = Record(m, m.current_state, "INVALID", m.active_interlock).history_index
        /\ u.current_state = m.current_state
    BY <2>1 DEF Record, Monitor
  <2> HIDE DEF u
  <2>3. Path(u)
    BY <2>2, RecordedPath
  <2> QED
    BY <2>3 DEF u
<1>3. CASE status \notin {"VALID", "INVALID"}
  <2> DEFINE b == Record([m EXCEPT !.active_interlock = blocker],
                         m.current_state, "BLOCKED", blocker)
  <2>1. u = ExecuteRecovery(b, DetermineRecovery(blocker)) /\ blocker # "NONE"
    BY <1>3 DEF UpdateState, Status
  <2>2. DetermineRecovery(blocker) \in {"RESET", "FAILSAFE"}
    BY <2>1 DEF BlockingInterlock, DetermineRecovery
  <2>3. u = [b EXCEPT !.pending = "failure"]
    BY <2>1, <2>2 DEF ExecuteRecovery
  <2>4. /\ b.history = Record(m, m.current_state, "BLOCKED", blocker).history
        /\ b.history_index = Record(m, m.current_state, "BLOCKED", blocker).history_index
        /\ b.current_state = m.current_state
    BY DEF Record, Monitor
  <2> HIDE DEF blocker
  <2>5. u.history = b.history /\ u.history_index = b.history_index
        /\ u.current_state = b.current_state
    BY <2>3 DEF Record, Monitor
  <2> HIDE DEF u, b
  <2>6. /\ u.history = Record(m, m.current_state, "BLOCKED", blocker).history
        /\ u.history_index = Record(m, m.current_state, "BLOCKED", blocker).history_index
        /\ u.current_state = m.current_state
    BY <2>4, <2>5
  <2>7. Path(u)
    BY <2>6, RecordedPath
  <2> QED
    BY <2>7 DEF u
<1> QED
  BY <1>1, <1>2, <1>3

(* A change of the clock, of the flags or of the interlock is no record.   *)
LEMMA SamePath ==
  ASSUME NEW m, NEW u, Path(m), u.history = m.history, u.history_index = m.history_index,
         u.current_state = m.current_state
  PROVE  Path(u)
<1>1. \A i : GetHistory(u, i) = GetHistory(m, i)
  BY DEF GetHistory
<1>2. GetHistory(u, 0).state = u.current_state
  BY <1>1 DEF Path
<1>3. ASSUME NEW i \in 0 .. (HistorySize - 2)
      PROVE  Follows(GetHistory(u, i), GetHistory(u, i + 1))
  <2>1. Follows(GetHistory(m, i), GetHistory(m, i + 1))
    BY DEF Path
  <2>2. GetHistory(u, i) = GetHistory(m, i) /\ GetHistory(u, i + 1) = GetHistory(m, i + 1)
    BY <1>1
  <2> QED
    BY <2>1, <2>2
<1> QED
  BY <1>2, <1>3 DEF Path

LEMMA InitPath == Init => Path(fsa)
<1> SUFFICES ASSUME Init PROVE Path(fsa)
  OBVIOUS
<1>1. HistorySize \in Nat \ {0}
  BY HistoryAssumption
<1>2. ASSUME NEW i \in 0 .. (HistorySize - 1)
      PROVE  GetHistory(fsa, i).state = "POWER_ON" /\ GetHistory(fsa, i).logged = FALSE
  <2> DEFINE n == 0 + HistorySize - 1 - i
  <2>1. n % HistorySize \in 0 .. (HistorySize - 1)
    BY <1>1
  <2> HIDE DEF n
  <2>2. fsa.history_index = 0
    BY DEF Init, InitialMonitor
  <2>3. GetHistory(fsa, i) = fsa.history[n % HistorySize]
    BY <2>2 DEF GetHistory, n
  <2> QED
    BY <2>1, <2>3 DEF Init, InitialMonitor
<1>3. 0 \in 0 .. (HistorySize - 1) /\ fsa.current_state = "POWER_ON"
  BY <1>1 DEF Init, InitialMonitor
<1>4. \A i \in 0 .. (HistorySize - 2) : i \in 0 .. (HistorySize - 1)
  BY <1>1
<1> QED
  BY <1>2, <1>3, <1>4 DEF Path, Follows

LEMMA PathStep ==
  ASSUME IInv, Path(fsa), [Next]_vars
  PROVE  Path(fsa')
<1>1. fsa \in Monitor /\ tick_ms \in 0 .. (ElapsedModulus - 1) /\ ElapsedModulus \in Nat \ {0}
  BY TimeAssumption DEF IInv, TypeOK
<1>2. CASE RecoveryStep
  <2> DEFINE m == [fsa EXCEPT !.pending = "none"]
  <2>1. m \in Monitor /\ m.pending = "none" /\ m.history = fsa.history
        /\ m.history_index = fsa.history_index /\ m.current_state = fsa.current_state
    BY <1>1 DEF Monitor
  <2>2. fsa' = UpdateState(m, "FAILURE")
    BY <1>2 DEF RecoveryStep
  <2> HIDE DEF m
  <2>3. Path(m)
    BY <2>1, SamePath
  <2> QED
    BY <2>1, <2>2, <2>3, UpdatePath, NamedStates
<1>3. ASSUME NEW target \in BootStates, RequestState(target)
      PROVE  Path(fsa')
  <2>1. fsa.pending = "none" /\ fsa' = UpdateState(fsa, target)
    BY <1>3 DEF RequestState
  <2> QED
    BY <1>1, <2>1, UpdatePath
<1>4. ASSUME NEW d \in IterationMs, Tick(d)
      PROVE  Path(fsa')
  <2> DEFINE now == (fsa.elapsed_ms + d) % ElapsedModulus
             m == [fsa EXCEPT !.elapsed_ms = now]
             t == [m EXCEPT !.active_interlock = "TIMEOUT"]
  <2>1. now \in 0 .. (ElapsedModulus - 1)
    BY <1>1, TimeAssumption DEF Monitor
  <2>2. fsa.pending = "none" /\ fsa' \in {m, UpdateState(t, "FAILURE")}
    BY <1>4 DEF Tick
  <2> HIDE DEF now
  <2>3. m \in Monitor /\ m.pending = "none" /\ m.history = fsa.history
        /\ m.history_index = fsa.history_index /\ m.current_state = fsa.current_state
    BY <1>1, <2>1, <2>2 DEF Monitor
  <2>4. t \in Monitor /\ t.pending = "none" /\ t.history = fsa.history
        /\ t.history_index = fsa.history_index /\ t.current_state = fsa.current_state
    BY <1>1, <2>1, <2>2 DEF Monitor, Interlocks
  <2> HIDE DEF m, t
  <2>5. Path(m) /\ Path(t)
    BY <2>3, <2>4, SamePath
  <2> QED
    BY <2>2, <2>4, <2>5, UpdatePath, NamedStates
<1>5. ASSUME NEW level \in BOOLEAN, SafetyChecks(level)
      PROVE  Path(fsa')
  <2> DEFINE c == [fsa EXCEPT !.safety_flags = CheckedFlags(level), !.last_check = tick_ms]
  <2>1. fsa' \in {c, fsa}
    BY <1>5 DEF SafetyChecks
  <2>2. c.history = fsa.history /\ c.history_index = fsa.history_index
        /\ c.current_state = fsa.current_state
    BY <1>1 DEF Monitor
  <2> HIDE DEF c
  <2> QED
    BY <2>1, <2>2, SamePath
<1>6. CASE UNCHANGED vars
  BY <1>6 DEF vars
<1> QED
  BY <1>2, <1>3, <1>4, <1>5, <1>6 DEF Next

(* The history reads as a walk along the rules, newest entry first, however*)
(* often the ring has gone round and whatever was refused in between.      *)
THEOREM HistoryIsAPath == Spec => []HistoryIsPath
<1>1. Path(fsa) <=> HistoryIsPath
  BY DEF Path, Follows, HistoryIsPath
<1>2. Path(fsa') <=> HistoryIsPath'
  BY DEF Path, Follows, HistoryIsPath
<1>3. Init => IInv /\ HistoryIsPath
  BY InitInvariant, InitPath, <1>1
<1>4. (IInv /\ HistoryIsPath) /\ [Next]_vars => (IInv /\ HistoryIsPath)'
  BY StepLemma, PathStep, <1>1, <1>2
<1> QED
  BY <1>3, <1>4, PTL DEF Spec

-----------------------------------------------------------------------------
(* The boot loop as the caller of the monitor.                             *)
(* The states that follow the load of the kernel.                          *)
AfterKernel == {"KERNEL_VALIDATION", "INITRD_LOADING", "DTB_LOADING", "KERNEL_PARAMS_SETUP",
                "KERNEL_EXEC"}

LoopTypeOK == loop \in {"tick", "handler", "kernel", "stopped"} /\ loaded \in BOOLEAN

(* Only a tick is interrupted by its safety checks.                        *)
ChecksInTick == pc = "safety" => loop = "tick"

(* The limit is reached by a last failure whose request for FAILURE the    *)
(* hardware interlock refuses; that request never returns.                 *)
RetriesEnd ==
  \/ fsa.retry_count < MaxRetries
  \/ /\ fsa.retry_count = MaxRetries
     /\ fsa.pending = "failure" /\ fsa.current_state \in DOMAIN AfterLoad
     /\ BlockingInterlock(fsa.safety_flags, "FAILURE") # "NONE"

KernelLoaded == fsa.current_state \in AfterKernel => loaded

AtRest == loop = "kernel" => fsa.current_state = "KERNEL_EXEC" /\ fsa.pending = "none"

BootInv ==
  /\ IInv
  /\ LoopTypeOK /\ ChecksInTick /\ RetriesEnd /\ KernelLoaded /\ AtRest

-----------------------------------------------------------------------------
(* The rules.                                                              *)
LEMMA RuleIndices == DOMAIN TransitionRules = 1 .. 44
BY DEF TransitionRules

(* There is one way to the states after the load: through them, from it.   *)
LEMMA KernelRules ==
  ASSUME NEW s \in BootStates, NEW t \in AfterKernel, t \in Successors[s]
  PROVE  IF t = "KERNEL_VALIDATION" THEN s = "KERNEL_LOADING" ELSE s \in AfterKernel
<1> DEFINE From(i) == TransitionRules[i][1]
           To(i) == TransitionRules[i][2]
<1>1. PICK i \in 1 .. 44 : From(i) = s /\ t \in To(i)
  BY RuleIndices DEF Successors, IsValidTransition
<1>2. /\ t \notin To(1) /\ t \notin To(2) /\ t \notin To(3) /\ t \notin To(4) /\ t \notin To(5)
      /\ t \notin To(6) /\ t \notin To(7) /\ t \notin To(8) /\ t \notin To(9) /\ t \notin To(10)
  BY DEF TransitionRules, AfterKernel
<1>3. /\ t \notin To(11) /\ t \notin To(12) /\ t \notin To(13) /\ t \notin To(14) /\ t \notin To(15)
      /\ t \notin To(16) /\ t \notin To(17) /\ t \notin To(18) /\ t \notin To(19)
  BY DEF TransitionRules, AfterKernel
<1>4. /\ t \notin To(25) /\ t \notin To(26) /\ t \notin To(27) /\ t \notin To(28) /\ t \notin To(29)
      /\ t \notin To(30) /\ t \notin To(31) /\ t \notin To(32) /\ t \notin To(33) /\ t \notin To(34)
  BY DEF TransitionRules, AfterKernel
<1>5. /\ t \notin To(35) /\ t \notin To(36) /\ t \notin To(37) /\ t \notin To(38) /\ t \notin To(39)
      /\ t \notin To(40) /\ t \notin To(41) /\ t \notin To(42) /\ t \notin To(43) /\ t \notin To(44)
  BY DEF TransitionRules, AfterKernel
<1>6. /\ From(20) = "KERNEL_LOADING" /\ From(21) = "KERNEL_VALIDATION"
      /\ From(22) = "INITRD_LOADING" /\ From(23) = "DTB_LOADING"
      /\ From(24) = "KERNEL_PARAMS_SETUP"
  BY DEF TransitionRules
<1>7. t = "KERNEL_VALIDATION"
        => t \notin To(21) /\ t \notin To(22) /\ t \notin To(23) /\ t \notin To(24)
  BY DEF TransitionRules
<1>8. t \in To(20) => t = "KERNEL_VALIDATION"
  BY DEF TransitionRules, AfterKernel
<1> HIDE DEF From, To
<1>9. \/ i = 1 \/ i = 2 \/ i = 3 \/ i = 4 \/ i = 5 \/ i = 6 \/ i = 7 \/ i = 8
      \/ i = 9 \/ i = 10 \/ i = 11 \/ i = 12 \/ i = 13 \/ i = 14 \/ i = 15 \/ i = 16
      \/ i = 17 \/ i = 18 \/ i = 19 \/ i = 20 \/ i = 21 \/ i = 22 \/ i = 23 \/ i = 24
      \/ i = 25 \/ i = 26 \/ i = 27 \/ i = 28 \/ i = 29 \/ i = 30 \/ i = 31 \/ i = 32
      \/ i = 33 \/ i = 34 \/ i = 35 \/ i = 36 \/ i = 37 \/ i = 38 \/ i = 39 \/ i = 40
      \/ i = 41 \/ i = 42 \/ i = 43 \/ i = 44
  BY <1>1
<1>10. i = 20 \/ i = 21 \/ i = 22 \/ i = 23 \/ i = 24
  BY <1>1, <1>2, <1>3, <1>4, <1>5, <1>9
<1> QED
  BY <1>1, <1>6, <1>7, <1>8, <1>10 DEF AfterKernel

(* Every state that loads something may fail.                              *)
LEMMA LoadRules ==
  ASSUME NEW s \in DOMAIN AfterLoad
  PROVE  s \in BootStates /\ AfterLoad[s] \in BootStates /\ "FAILURE" \in Successors[s]
<1>1. s \in {"BOOTCODE_LOADING", "KERNEL_LOADING", "MODULE_LOADING"}
  BY DEF AfterLoad
<1>2. s \in BootStates /\ AfterLoad[s] \in BootStates
  <2>1. 4 \in DOMAIN BootStateEnum /\ 5 \in DOMAIN BootStateEnum /\ 20 \in DOMAIN BootStateEnum
        /\ 21 \in DOMAIN BootStateEnum /\ 32 \in DOMAIN BootStateEnum
        /\ 33 \in DOMAIN BootStateEnum
    BY DEF BootStateEnum
  <2>2. BootStateEnum[4] = "BOOTCODE_LOADING" /\ BootStateEnum[5] = "BOOTCODE_VALIDATION"
        /\ BootStateEnum[20] = "KERNEL_LOADING" /\ BootStateEnum[21] = "KERNEL_VALIDATION"
        /\ BootStateEnum[32] = "MODULE_LOADING" /\ BootStateEnum[33] = "MODULE_VALIDATION"
    BY DEF BootStateEnum
  <2> QED
    BY <1>1, <2>1, <2>2 DEF BootStates, AfterLoad
<1>3. IsValidTransition(s, "FAILURE")
  <2>1. CASE s = "BOOTCODE_LOADING"
    <3>1. TransitionRules[4][1] = s /\ "FAILURE" \in TransitionRules[4][2]
      BY <2>1 DEF TransitionRules
    <3>2. \A j \in 1 .. 3 : TransitionRules[j][1] # s
      BY <2>1 DEF TransitionRules
    <3>3. 4 \in DOMAIN TransitionRules
      BY RuleIndices
    <3>4. \A j \in 1 .. (4 - 1) : TransitionRules[j][1] # s
      BY <3>2
    <3> QED
      BY <3>1, <3>3, <3>4, Zenon DEF IsValidTransition
  <2>2. CASE s = "KERNEL_LOADING"
    <3>1. TransitionRules[20][1] = s /\ "FAILURE" \in TransitionRules[20][2]
      BY <2>2 DEF TransitionRules
    <3>2. \A j \in 1 .. 19 : TransitionRules[j][1] # s
      BY <2>2 DEF TransitionRules
    <3>3. 20 \in DOMAIN TransitionRules
      BY RuleIndices
    <3>4. \A j \in 1 .. (20 - 1) : TransitionRules[j][1] # s
      BY <3>2
    <3> QED
      BY <3>1, <3>3, <3>4, Zenon DEF IsValidTransition
  <2>3. CASE s = "MODULE_LOADING"
    <3>1. TransitionRules[32][1] = s /\ "FAILURE" \in TransitionRules[32][2]
      BY <2>3 DEF TransitionRules
    <3>2. \A j \in 1 .. 31 : TransitionRules[j][1] # s
      BY <2>3 DEF TransitionRules
    <3>3. 32 \in DOMAIN TransitionRules
      BY RuleIndices
    <3>4. \A j \in 1 .. (32 - 1) : TransitionRules[j][1] # s
      BY <3>2
    <3> QED
      BY <3>1, <3>3, <3>4, Zenon DEF IsValidTransition
  <2> QED
    BY <1>1, <2>1, <2>2, <2>3
<1> QED
  BY <1>2, <1>3, NamedStates DEF Successors

(* The states that a handler asks for.                                     *)
Asked == {
  "EARLY_HW_INIT", "BOOTCODE_SOURCE_SELECT", "BOOTCODE_LOADING",
  "BOOTCODE_EXEC", "BOOTCODE_CONFIG_PARSE", "CORE_DRIVER_INIT",
  "BSP_DRIVER_INIT", "HW_VALIDATION", "CONFIG_LOADING", "CONFIG_PARSING",
  "CONFIG_VALIDATION", "CONFIG_APPLICATION", "STARTELF_SOURCE_SELECT",
  "STARTELF_LOADING", "STARTELF_VALIDATION", "STARTELF_EXEC",
  "KERNEL_SOURCE_SELECT", "KERNEL_LOADING", "INITRD_LOADING", "DTB_LOADING",
  "KERNEL_PARAMS_SETUP", "KERNEL_EXEC", "NETWORK_BOOT_INIT", "USB_BOOT_INIT",
  "MODULE_DEPENDENCY_RESOLVE", "MODULE_LOADING", "SECURITY_ATTESTATION",
  "FIRMWARE_MEASUREMENT", "BOOT_POLICY_VALIDATION", "TRUSTED_EXECUTION_INIT",
  "CONFIGURATION_COHERENCE_CHECK", "DEPENDENCY_GRAPH_ANALYSIS",
  "SEMANTIC_VALIDATION", "CONSISTENCY_CHECK", "FAILURE"}

LEMMA AskedNamed == Asked \subseteq BootStates
<1>1. /\ BootStateEnum[2] = "EARLY_HW_INIT"
      /\ BootStateEnum[3] = "BOOTCODE_SOURCE_SELECT"
      /\ BootStateEnum[4] = "BOOTCODE_LOADING"
      /\ BootStateEnum[6] = "BOOTCODE_EXEC"
      /\ BootStateEnum[7] = "BOOTCODE_CONFIG_PARSE"
      /\ BootStateEnum[8] = "CORE_DRIVER_INIT"
      /\ BootStateEnum[9] = "BSP_DRIVER_INIT"
      /\ BootStateEnum[10] = "HW_VALIDATION"
      /\ BootStateEnum[11] = "CONFIG_LOADING"
      /\ BootStateEnum[12] = "CONFIG_PARSING"
      /\ BootStateEnum[13] = "CONFIG_VALIDATION"
      /\ BootStateEnum[14] = "CONFIG_APPLICATION"
      /\ BootStateEnum[15] = "STARTELF_SOURCE_SELECT"
      /\ BootStateEnum[16] = "STARTELF_LOADING"
      /\ BootStateEnum[17] = "STARTELF_VALIDATION"
      /\ BootStateEnum[18] = "STARTELF_EXEC"
      /\ BootStateEnum[19] = "KERNEL_SOURCE_SELECT"
      /\ BootStateEnum[20] = "KERNEL_LOADING"
      /\ BootStateEnum[22] = "INITRD_LOADING"
      /\ BootStateEnum[23] = "DTB_LOADING"
      /\ BootStateEnum[24] = "KERNEL_PARAMS_SETUP"
      /\ BootStateEnum[25] = "KERNEL_EXEC"
      /\ BootStateEnum[26] = "NETWORK_BOOT_INIT"
      /\ BootStateEnum[28] = "USB_BOOT_INIT"
      /\ BootStateEnum[31] = "MODULE_DEPENDENCY_RESOLVE"
      /\ BootStateEnum[32] = "MODULE_LOADING"
      /\ BootStateEnum[34] = "SECURITY_ATTESTATION"
      /\ BootStateEnum[35] = "FIRMWARE_MEASUREMENT"
      /\ BootStateEnum[36] = "BOOT_POLICY_VALIDATION"
      /\ BootStateEnum[37] = "TRUSTED_EXECUTION_INIT"
      /\ BootStateEnum[38] = "CONFIGURATION_COHERENCE_CHECK"
      /\ BootStateEnum[39] = "DEPENDENCY_GRAPH_ANALYSIS"
      /\ BootStateEnum[40] = "SEMANTIC_VALIDATION"
      /\ BootStateEnum[41] = "CONSISTENCY_CHECK"
      /\ BootStateEnum[43] = "FAILURE"
  BY DEF BootStateEnum
<1>2. DOMAIN BootStateEnum = 1 .. 44
  BY DEF BootStateEnum
<1>3. \A i \in 1 .. 44 : BootStateEnum[i] \in BootStates
  BY <1>2 DEF BootStates
<1> QED
  BY <1>1, <1>3 DEF Asked

LEMMA AskedStates ==
  ASSUME NEW s, NEW t \in Asks(s)
  PROVE  t \in BootStates /\ s # "KERNEL_LOADING"
<1>1. s # "KERNEL_LOADING"
  BY DEF Asks
<1>2. \A from : SourceState(from, "BOOTCODE_LOADING") \in Asked
  BY DEF SourceState, Asked
<1>3. \A from : SourceState(from, "STARTELF_LOADING") \in Asked
  BY DEF SourceState, Asked
<1>4. \A from : SourceState(from, "KERNEL_LOADING") \in Asked
  BY DEF SourceState, Asked
<1>5. t \in Asked
  BY <1>2, <1>3, <1>4 DEF Asks, Asked
<1> QED
  BY <1>1, <1>5, AskedNamed

-----------------------------------------------------------------------------
(* The three ways fsa_update_state ends, the third in a call that is left  *)
(* pending.                                                                *)
LEMMA UpdateOutcome ==
  ASSUME NEW m \in Monitor, NEW target \in BootStates, m.pending = "none"
  PROVE  LET u == UpdateState(m, target)
         IN /\ u.safety_flags = m.safety_flags
            /\ \/ /\ target \in Successors[m.current_state]
                  /\ u.current_state = target /\ u.retry_count = 0 /\ u.pending = "none"
               \/ /\ target \notin Successors[m.current_state]
                  /\ u.current_state = m.current_state /\ u.retry_count = m.retry_count
                  /\ u.pending = "none"
               \/ /\ BlockingInterlock(m.safety_flags, target) # "NONE"
                  /\ u.current_state = m.current_state /\ u.retry_count = m.retry_count
                  /\ u.pending = "failure"
<1> DEFINE u == UpdateState(m, target)
           blocker == BlockingInterlock(m.safety_flags, target)
           status == Status(m, target)
<1>1. CASE status = "VALID"
  <2>1. target \in Successors[m.current_state] /\ u = EnterState(m, target)
    BY <1>1 DEF Status, UpdateState
  <2> HIDE DEF u
  <2>2. /\ u.safety_flags = m.safety_flags
        /\ u.current_state = target /\ u.retry_count = 0 /\ u.pending = "none"
    BY <2>1 DEF EnterState, Record, Monitor
  <2> QED
    BY <2>1, <2>2 DEF u
<1>2. CASE status = "INVALID"
  <2>1. /\ target \notin Successors[m.current_state]
        /\ u = Record(m, m.current_state, "INVALID", m.active_interlock)
    BY <1>2 DEF Status, UpdateState
  <2> HIDE DEF u
  <2>2. /\ u.safety_flags = m.safety_flags /\ u.current_state = m.current_state
        /\ u.retry_count = m.retry_count /\ u.pending = "none"
    BY <2>1 DEF Record, Monitor
  <2> QED
    BY <2>1, <2>2 DEF u
<1>3. CASE status \notin {"VALID", "INVALID"}
  <2> DEFINE b == Record([m EXCEPT !.active_interlock = blocker],
                         m.current_state, "BLOCKED", blocker)
  <2>1. u = ExecuteRecovery(b, DetermineRecovery(blocker)) /\ blocker # "NONE"
    BY <1>3 DEF UpdateState, Status
  <2>2. DetermineRecovery(blocker) \in {"RESET", "FAILSAFE"}
    BY <2>1 DEF BlockingInterlock, DetermineRecovery
  <2>3. u = [b EXCEPT !.pending = "failure"]
    BY <2>1, <2>2 DEF ExecuteRecovery
  <2> HIDE DEF u, blocker
  <2>4. /\ u.safety_flags = m.safety_flags /\ u.current_state = m.current_state
        /\ u.retry_count = m.retry_count /\ u.pending = "failure"
    BY <2>3 DEF Record, Monitor
  <2> QED
    BY <2>1, <2>4 DEF u, blocker
<1> QED
  BY <1>1, <1>2, <1>3

(* What a call for target makes of the counts and of the kernel, by a      *)
(* caller that has not used up its retries; loading the kernel is left by  *)
(* a load only.                                                            *)
LEMMA BootCall ==
  ASSUME IInv, KernelLoaded, NEW m \in Monitor, NEW target \in BootStates,
         m.pending = "none", m.safety_flags = fsa.safety_flags,
         m.current_state = fsa.current_state, m.retry_count < MaxRetries,
         fsa' = UpdateState(m, target)
  PROVE  /\ fsa' \in Monitor /\ OtherFlagsUp' /\ RecoveryOnlyForHardware'
         /\ RetriesEnd'
         /\ \/ fsa'.current_state \in AfterKernel => loaded
            \/ fsa.current_state = "KERNEL_LOADING" /\ target = "KERNEL_VALIDATION"
<1>1. fsa' \in Monitor /\ OtherFlagsUp' /\ RecoveryOnlyForHardware'
  BY CallLemma
<1>2. \/ /\ target \in Successors[m.current_state]
         /\ fsa'.current_state = target /\ fsa'.retry_count = 0
      \/ fsa'.current_state = m.current_state /\ fsa'.retry_count = m.retry_count
  BY UpdateOutcome
<1>3. RetriesEnd'
  BY <1>2, OutcomeAssumption DEF RetriesEnd
<1>4. fsa.current_state \in BootStates
  BY DEF IInv, TypeOK, Monitor
<1>5. \/ fsa'.current_state \in AfterKernel => loaded
      \/ fsa.current_state = "KERNEL_LOADING" /\ target = "KERNEL_VALIDATION"
  <2>1. CASE fsa'.current_state = fsa.current_state
    BY <2>1 DEF KernelLoaded
  <2>2. CASE target \in Successors[fsa.current_state] /\ fsa'.current_state = target
             /\ target \in AfterKernel
    <3>1. IF target = "KERNEL_VALIDATION" THEN fsa.current_state = "KERNEL_LOADING"
                                          ELSE fsa.current_state \in AfterKernel
      BY <1>4, <2>2, KernelRules
    <3> QED
      BY <2>2, <3>1 DEF KernelLoaded
  <2> QED
    BY <1>2, <2>1, <2>2
<1> QED
  BY <1>1, <1>3, <1>5

-----------------------------------------------------------------------------
LEMMA BootInvInit == BootInit => BootInv
<1> SUFFICES ASSUME BootInit PROVE BootInv
  OBVIOUS
<1>1. IInv
  BY InitInvariant DEF BootInit
<1>2. fsa.retry_count = 0 /\ fsa.current_state = "POWER_ON" /\ pc = "caller"
  BY DEF BootInit, Init, InitialMonitor
<1>3. RetriesEnd
  BY <1>2, OutcomeAssumption DEF RetriesEnd
<1>4. KernelLoaded
  BY <1>2 DEF KernelLoaded, AfterKernel
<1>5. LoopTypeOK /\ ChecksInTick /\ AtRest
  BY <1>2 DEF BootInit, LoopTypeOK, ChecksInTick, AtRest
<1> QED
  BY <1>1, <1>3, <1>4, <1>5 DEF BootInv

(* A handler that asks for a state other than the one after its load.      *)
LEMMA HandlerRequest ==
  ASSUME BootInv, NEW target \in BootStates, RequestState(target), UNCHANGED loaded,
         loop' = "tick",
         target = "KERNEL_VALIDATION" => fsa.current_state # "KERNEL_LOADING"
  PROVE  BootInv'
<1>1. fsa.pending = "none" /\ fsa' = UpdateState(fsa, target) /\ UNCHANGED <<pc, tick_ms>>
  BY DEF RequestState
<1>2. fsa \in Monitor /\ fsa.retry_count < MaxRetries
  BY <1>1 DEF BootInv, IInv, TypeOK, RetriesEnd
<1>3. /\ fsa' \in Monitor /\ OtherFlagsUp' /\ RecoveryOnlyForHardware' /\ RetriesEnd'
      /\ fsa'.current_state \in AfterKernel => loaded
  BY <1>1, <1>2, BootCall DEF BootInv
<1> QED
  BY <1>1, <1>3
     DEF BootInv, IInv, TypeOK, LoopTypeOK, ChecksInTick, KernelLoaded, AtRest

LEMMA BootTick ==
  ASSUME BootInv, LoopTick
  PROVE  BootInv'
<1>1. PICK d \in IterationMs : Tick(d)
  BY DEF LoopTick
<1> DEFINE now == (fsa.elapsed_ms + d) % ElapsedModulus
           m == [fsa EXCEPT !.elapsed_ms = now]
           t == [m EXCEPT !.active_interlock = "TIMEOUT"]
<1>2. fsa \in Monitor /\ now \in 0 .. (ElapsedModulus - 1)
  BY TimeAssumption DEF BootInv, IInv, TypeOK, Monitor
<1>3. /\ fsa.pending = "none" /\ fsa' \in {m, UpdateState(t, "FAILURE")}
      /\ tick_ms' = now /\ pc' = "safety"
  BY <1>1 DEF Tick
<1> HIDE DEF now
<1>4. fsa.retry_count < MaxRetries /\ loop' = "tick" /\ loaded' = loaded
  BY <1>3 DEF BootInv, RetriesEnd, LoopTick
<1>5. m \in Monitor /\ m.pending = "none" /\ m.safety_flags = fsa.safety_flags
      /\ m.current_state = fsa.current_state /\ m.retry_count = fsa.retry_count
  BY <1>2, <1>3 DEF Monitor
<1>6. t \in Monitor /\ t.pending = "none" /\ t.safety_flags = fsa.safety_flags
      /\ t.current_state = fsa.current_state /\ t.retry_count = fsa.retry_count
  BY <1>2, <1>3 DEF Monitor, Interlocks
<1> HIDE DEF m, t
<1>7. /\ fsa' \in Monitor /\ OtherFlagsUp' /\ RecoveryOnlyForHardware' /\ RetriesEnd'
      /\ fsa'.current_state \in AfterKernel => loaded
  <2>1. CASE fsa' = UpdateState(t, "FAILURE")
    BY <1>4, <1>6, <2>1, BootCall, NamedStates DEF BootInv
  <2>2. CASE fsa' = m
    BY <1>4, <1>5, <2>2
       DEF BootInv, IInv, OtherFlagsUp, RecoveryOnlyForHardware, RetriesEnd, KernelLoaded
  <2> QED
    BY <1>3, <2>1, <2>2
<1> QED
  BY <1>2, <1>3, <1>4, <1>7
     DEF BootInv, IInv, TypeOK, LoopTypeOK, ChecksInTick, KernelLoaded, AtRest

LEMMA BootSafetyChecks ==
  ASSUME BootInv, LoopSafetyChecks
  PROVE  BootInv'
<1>1. PICK level \in BOOLEAN : SafetyChecks(level)
  BY OutcomeAssumption DEF LoopSafetyChecks
<1>2. IInv' /\ [Next]_vars
  <2>1. Next
    BY <1>1 DEF Next
  <2> QED
    BY <2>1, StepLemma DEF BootInv
<1> DEFINE c == [fsa EXCEPT !.safety_flags = CheckedFlags(level), !.last_check = tick_ms]
<1>3. /\ fsa.pending = "none" /\ fsa' \in {c, fsa} /\ pc' = "caller"
      /\ loop' = "handler" /\ loaded' = loaded
  BY <1>1 DEF SafetyChecks, LoopSafetyChecks
<1>4. fsa'.retry_count = fsa.retry_count /\ fsa'.current_state = fsa.current_state
      /\ fsa'.pending = "none"
  BY <1>3 DEF BootInv, IInv, TypeOK, Monitor
<1> HIDE DEF c
<1>5. RetriesEnd'
  BY <1>3, <1>4 DEF BootInv, RetriesEnd
<1> QED
  BY <1>2, <1>3, <1>4, <1>5
     DEF BootInv, LoopTypeOK, ChecksInTick, KernelLoaded, AtRest

(* The recursion asks for FAILURE again.                                   *)
LEMMA BootRecovery ==
  ASSUME BootInv, LoopRecovery
  PROVE  BootInv'
<1>1. RecoveryStep /\ UNCHANGED <<loop, loaded>>
  BY DEF LoopRecovery
<1> DEFINE m == [fsa EXCEPT !.pending = "none"]
<1>2. fsa.pending = "failure" /\ fsa' = UpdateState(m, "FAILURE") /\ UNCHANGED <<pc, tick_ms>>
  BY <1>1 DEF RecoveryStep
<1>3. m \in Monitor /\ m.pending = "none" /\ m.safety_flags = fsa.safety_flags
      /\ m.current_state = fsa.current_state /\ m.retry_count = fsa.retry_count
  BY DEF BootInv, IInv, TypeOK, Monitor
<1> HIDE DEF m
<1>4. "FAILURE" \in BootStates /\ "FAILURE" \notin AfterKernel
  BY NamedStates DEF AfterKernel
<1>5. /\ fsa' \in Monitor /\ OtherFlagsUp' /\ RecoveryOnlyForHardware'
  BY <1>2, <1>3, <1>4, CallLemma DEF BootInv
<1>6. /\ fsa'.safety_flags = fsa.safety_flags
      /\ \/ /\ fsa'.current_state = "FAILURE" /\ fsa'.retry_count = 0
         \/ /\ "FAILURE" \notin Successors[fsa.current_state]
            /\ fsa'.current_state = fsa.current_state /\ fsa'.retry_count = fsa.retry_count
         \/ /\ fsa'.current_state = fsa.current_state /\ fsa'.retry_count = fsa.retry_count
            /\ fsa'.pending = "failure"
  BY <1>2, <1>3, <1>4, UpdateOutcome
<1>7. RetriesEnd'
  BY <1>6, LoadRules, OutcomeAssumption DEF BootInv, RetriesEnd
<1>8. fsa'.current_state \in AfterKernel => loaded
  BY <1>4, <1>6 DEF BootInv, KernelLoaded
<1>9. loop # "kernel"
  BY <1>2 DEF BootInv, AtRest
<1> QED
  BY <1>1, <1>2, <1>5, <1>7, <1>8, <1>9
     DEF BootInv, IInv, TypeOK, LoopTypeOK, ChecksInTick, KernelLoaded, AtRest

(* A load that fails is counted; at the limit the handler asks for FAILURE.*)
LEMMA BootLoad ==
  ASSUME BootInv, HandleLoad
  PROVE  BootInv'
<1> DEFINE s == fsa.current_state
           m == [fsa EXCEPT !.retry_count = @ + 1]
<1>1. /\ s \in DOMAIN AfterLoad /\ pc = "caller" /\ fsa.pending = "none"
      /\ loop' = "tick" /\ UNCHANGED <<pc, tick_ms>>
  BY DEF HandleLoad, AtHandler
<1>2. fsa \in Monitor /\ fsa.retry_count < MaxRetries /\ fsa.retry_count \in Nat
      /\ MaxRetries \in Nat
  BY <1>1, OutcomeAssumption DEF BootInv, IInv, TypeOK, RetriesEnd, Monitor
<1>3. m \in Monitor /\ m.pending = "none" /\ m.safety_flags = fsa.safety_flags
      /\ m.current_state = s /\ m.retry_count = fsa.retry_count + 1
  BY <1>1, <1>2 DEF Monitor
<1>4. PICK ok \in BOOLEAN :
        /\ IF ok THEN fsa' = UpdateState(fsa, AfterLoad[s])
           ELSE fsa' = IF m.retry_count < MaxRetries THEN m ELSE UpdateState(m, "FAILURE")
        /\ loaded' = IF s = "KERNEL_LOADING" THEN ok ELSE loaded
  BY OutcomeAssumption DEF HandleLoad, RetryOrFail
<1>5. s \in BootStates /\ AfterLoad[s] \in BootStates /\ "FAILURE" \in Successors[s]
      /\ "FAILURE" \in BootStates
  BY <1>1, LoadRules, NamedStates
<1>6. s \notin AfterKernel /\ "FAILURE" \notin AfterKernel
  BY <1>1 DEF AfterLoad, AfterKernel
<1>7. loaded' \in BOOLEAN
  BY <1>4 DEF BootInv, LoopTypeOK
<1> HIDE DEF m
<1>8. /\ fsa' \in Monitor /\ OtherFlagsUp' /\ RecoveryOnlyForHardware' /\ RetriesEnd'
      /\ fsa'.current_state \in AfterKernel => loaded'
  <2>1. CASE ok
    <3>1. fsa' = UpdateState(fsa, AfterLoad[s])
      BY <1>4, <2>1
    <3>2. /\ fsa' \in Monitor /\ OtherFlagsUp' /\ RecoveryOnlyForHardware' /\ RetriesEnd'
          /\ \/ fsa'.current_state \in AfterKernel => loaded
             \/ s = "KERNEL_LOADING"
      BY <1>1, <1>2, <1>5, <3>1, BootCall DEF BootInv
    <3> QED
      BY <1>4, <2>1, <3>2
  <2>2. CASE ~ok /\ m.retry_count < MaxRetries
    <3>1. fsa' = m
      BY <1>4, <2>2
    <3> QED
      BY <1>3, <1>6, <2>2, <3>1
         DEF BootInv, IInv, OtherFlagsUp, RecoveryOnlyForHardware, RetriesEnd
  <2>3. CASE ~ok /\ ~(m.retry_count < MaxRetries)
    <3>1. fsa' = UpdateState(m, "FAILURE") /\ m.retry_count = MaxRetries
      BY <1>2, <1>3, <1>4, <2>3
    <3>2. fsa' \in Monitor /\ OtherFlagsUp' /\ RecoveryOnlyForHardware'
      BY <1>3, <1>5, <3>1, CallLemma DEF BootInv
    <3>3. /\ fsa'.safety_flags = fsa.safety_flags
          /\ \/ fsa'.current_state = "FAILURE" /\ fsa'.retry_count = 0
             \/ /\ BlockingInterlock(fsa.safety_flags, "FAILURE") # "NONE"
                /\ fsa'.current_state = s /\ fsa'.retry_count = MaxRetries
                /\ fsa'.pending = "failure"
      BY <1>3, <1>5, <3>1, UpdateOutcome
    <3>4. RetriesEnd'
      BY <1>1, <3>3, OutcomeAssumption DEF RetriesEnd
    <3> QED
      BY <1>6, <3>2, <3>3, <3>4
  <2> QED
    BY <2>1, <2>2, <2>3
<1> QED
  BY <1>1, <1>7, <1>8
     DEF BootInv, IInv, TypeOK, LoopTypeOK, ChecksInTick, KernelLoaded, AtRest

LEMMA BootInvNext == BootInv /\ [BootNext]_bootVars => BootInv'
<1> SUFFICES ASSUME BootInv, [BootNext]_bootVars PROVE BootInv'
  OBVIOUS
<1>1. CASE LoopTick \/ LoopSafetyChecks \/ LoopRecovery \/ HandleLoad
  BY <1>1, BootTick, BootSafetyChecks, BootRecovery, BootLoad
<1>2. CASE HandleAdvance
  <2>1. PICK target \in Asks(fsa.current_state) : RequestState(target)
    BY <1>2 DEF HandleAdvance
  <2>2. target \in BootStates /\ fsa.current_state # "KERNEL_LOADING"
    BY AskedStates
  <2> QED
    BY <1>2, <2>1, <2>2, HandlerRequest DEF HandleAdvance
<1>3. CASE HandleUsb
  <2>1. PICK target \in {"KERNEL_LOADING", "FAILURE"} : RequestState(target)
    BY <1>3 DEF HandleUsb
  <2>2. target \in BootStates
    BY AskedNamed, NamedStates DEF Asked
  <2> QED
    BY <1>3, <2>1, <2>2, HandlerRequest DEF HandleUsb
<1>4. CASE HandleKernelExec
  BY <1>4 DEF HandleKernelExec, AtHandler, BootInv, IInv, TypeOK, OtherFlagsUp,
              RecoveryOnlyForHardware, LoopTypeOK, ChecksInTick, RetriesEnd, KernelLoaded, AtRest
<1>5. CASE HandleTerminal
  BY <1>5 DEF HandleTerminal, AtHandler, BootInv, IInv, TypeOK, OtherFlagsUp,
              RecoveryOnlyForHardware, LoopTypeOK, ChecksInTick, RetriesEnd, KernelLoaded, AtRest
<1>6. CASE UNCHANGED bootVars
  BY <1>6 DEF bootVars, BootInv, IInv, TypeOK, OtherFlagsUp,
              RecoveryOnlyForHardware, LoopTypeOK, ChecksInTick, RetriesEnd, KernelLoaded, AtRest
<1> QED
  BY <1>1, <1>2, <1>3, <1>4, <1>5, <1>6 DEF BootNext

LEMMA BootInvariant == BootSpec => []BootInv
BY BootInvInit, BootInvNext, PTL DEF BootSpec

(* Failing loads are given up at MAX_RETRIES, through timeouts, recoveries *)
(* and every path that re-enters a loader; and main jumps to the kernel in *)
(* KERNEL_EXEC only, after a load that succeeded.                          *)
THEOREM LoadsAreSound == BootSpec => []LoadsSound
<1>1. BootInv => LoadsSound
  <2> SUFFICES ASSUME BootInv PROVE LoadsSound
    OBVIOUS
  <2>1. RetriesBounded
    BY OutcomeAssumption DEF BootInv, IInv, TypeOK, Monitor, RetriesEnd, RetriesBounded
  <2>2. HandoverRequiresKernel
    BY DEF BootInv, KernelLoaded, AtRest, AfterKernel, HandoverRequiresKernel
  <2> QED
    BY <2>1, <2>2 DEF LoadsSound
<1> QED
  BY <1>1, BootInvariant, PTL

-----------------------------------------------------------------------------
(* Main is one of the callers allowed above, but for the failed            *)
(* load, which counts in the monitor's record.                             *)
LEMMA LoopIsCaller ==
  ASSUME BootInv, [BootNext]_bootVars
  PROVE  [Next]_vars \/ (HandleLoad /\ RetryOrFail)
<1>1. CASE LoopTick
  BY <1>1 DEF LoopTick, Next
<1>2. CASE LoopSafetyChecks
  BY <1>2, OutcomeAssumption DEF LoopSafetyChecks, Next
<1>3. CASE LoopRecovery
  BY <1>3 DEF LoopRecovery, Next
<1>4. CASE HandleAdvance
  BY <1>4, AskedStates DEF HandleAdvance, Next
<1>5. CASE HandleUsb
  BY <1>5, AskedNamed, NamedStates DEF HandleUsb, Asked, Next
<1>6. CASE HandleLoad
  <2>1. AfterLoad[fsa.current_state] \in BootStates /\ pc = "caller" /\ fsa.pending = "none"
        /\ UNCHANGED <<pc, tick_ms>>
    BY <1>6, LoadRules DEF HandleLoad, AtHandler
  <2>2. RetryOrFail \/ fsa' = UpdateState(fsa, AfterLoad[fsa.current_state])
    BY <1>6 DEF HandleLoad
  <2>3. RetryOrFail \/ RequestState(AfterLoad[fsa.current_state])
    BY <2>1, <2>2 DEF RequestState
  <2> QED
    BY <1>6, <2>1, <2>3 DEF Next
<1>7. CASE HandleKernelExec \/ HandleTerminal \/ UNCHANGED bootVars
  BY <1>7 DEF HandleKernelExec, HandleTerminal, bootVars, vars
<1> QED
  BY <1>1, <1>2, <1>3, <1>4, <1>5, <1>6, <1>7 DEF BootNext

LEMMA BootMonitorStep ==
  ASSUME BootInv, Path(fsa), [BootNext]_bootVars
  PROVE  Path(fsa') /\ (fsa'.current_state = fsa.current_state \/ LegalStep)
<1>1. CASE [Next]_vars
  BY <1>1, StepLemma, PathStep DEF BootInv
<1>2. CASE HandleLoad /\ RetryOrFail
  <2> DEFINE m == [fsa EXCEPT !.retry_count = @ + 1]
  <2>1. fsa \in Monitor /\ fsa.retry_count \in Nat /\ fsa.pending = "none"
    BY <1>2 DEF HandleLoad, AtHandler, BootInv, IInv, TypeOK, Monitor
  <2>2. m \in Monitor /\ m.pending = "none" /\ m.safety_flags = fsa.safety_flags
        /\ m.current_state = fsa.current_state /\ m.history = fsa.history
        /\ m.history_index = fsa.history_index
    BY <2>1 DEF Monitor
  <2>3. fsa' = m \/ fsa' = UpdateState(m, "FAILURE")
    BY <1>2 DEF RetryOrFail
  <2> HIDE DEF m
  <2>4. Path(m)
    BY <2>2, SamePath
  <2>5. CASE fsa' = m
    BY <2>2, <2>4, <2>5
  <2>6. CASE fsa' = UpdateState(m, "FAILURE")
    BY <2>2, <2>4, <2>6, UpdatePath, CallLemma, NamedStates DEF BootInv
  <2> QED
    BY <2>3, <2>5, <2>6
<1> QED
  BY <1>1, <1>2, LoopIsCaller

LEMMA BootPath ==
  BootSpec => [](BootInv /\ HistoryIsPath)
<1>1. BootInit => BootInv /\ HistoryIsPath
  BY BootInvInit, InitPath DEF BootInit, Path, Follows, HistoryIsPath
<1>2. (BootInv /\ HistoryIsPath) /\ [BootNext]_bootVars => (BootInv /\ HistoryIsPath)'
  BY BootInvNext, BootMonitorStep DEF Path, Follows, HistoryIsPath
<1> QED
  BY <1>1, <1>2, PTL DEF BootSpec

(* What the monitor promises any caller, it keeps while main drives it:    *)
(* the boot state moves along the rules with their interlocks clear, the   *)
(* history is a walk, and only the hardware interlock starts a recovery.   *)
THEOREM BootTransitionsLegal == BootSpec => LegalTransitions
<1>1. (BootInv /\ HistoryIsPath) /\ [BootNext]_bootVars
        => [fsa'.current_state = fsa.current_state \/ LegalStep]_vars
  BY BootMonitorStep DEF Path, Follows, HistoryIsPath
<1> QED
  BY <1>1, BootPath, PTL DEF BootSpec, LegalTransitions

(* The history stays a walk, and the recovery for the hardware interlock   *)
(* only, while main drives the monitor and its failed loads are counted.   *)
THEOREM BootHistoryIsAPath == BootSpec => [](TypeOK /\ HistoryIsPath /\ RecoveryOnlyForHardware)
<1>1. BootInv => TypeOK /\ RecoveryOnlyForHardware
  BY DEF BootInv, IInv
<1> QED
  BY <1>1, BootPath, PTL
=============================================================================

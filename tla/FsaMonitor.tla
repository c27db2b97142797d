----------------------------- MODULE FsaMonitor -----------------------------
(***************************************************************************)
(* The boot state machine's monitor: src/src/fsa_monitor.c.  It owns the   *)
(* current boot state, checks every requested transition against a table   *)
(* of rules and against the safety interlocks, times the states out and    *)
(* keeps a ring of the last requests.                                      *)
(*                                                                         *)
(* Here the callers are arbitrary: any state may be requested at any time. *)
(* BootMain composes the monitor with the loop that really drives it.      *)
(*                                                                         *)
(* fsa_update_state and fsa_execute_recovery call each other.  One frame   *)
(* of that recursion is one step: the call a frame makes last is kept in   *)
(* fsa.pending and RecoveryStep runs it.                                   *)
(***************************************************************************)
EXTENDS Naturals, Sequences

CONSTANTS
  HistorySize,      \* STATE_HISTORY_SIZE, entries of the history ring
  ElapsedModulus,   \* 2^32: elapsed_ms and last_check are uint32_t
  IterationMs       \* how long one turn of the driving loop may take, in ms

(* The ring has an entry; the longest timeout, 10 s, and one more turn fit *)
(* the width of elapsed_ms.                                                *)
ASSUME HistoryAssumption == HistorySize \in Nat \ {0}
ASSUME TimeAssumption ==
  /\ ElapsedModulus \in Nat \ {0}
  /\ IterationMs \subseteq Nat
  /\ \A d \in IterationMs : 10000 + d < ElapsedModulus

VARIABLES
  fsa,       \* fsa_monitor, state_history, last_check and the pending call
  pc,        \* "caller", or "safety": inside fsa_monitor_tick, second half
  tick_ms    \* elapsed_ms as fsa_monitor_tick computed it on entry

vars == <<fsa, pc, tick_ms>>

-----------------------------------------------------------------------------
(* boot_state_t, in the order of the enumeration, which the interlocks     *)
(* compare by.                                                             *)
BootStateEnum == <<
  "POWER_ON", "EARLY_HW_INIT",
  "BOOTCODE_SOURCE_SELECT", "BOOTCODE_LOADING", "BOOTCODE_VALIDATION",
  "BOOTCODE_EXEC", "BOOTCODE_CONFIG_PARSE",
  "CORE_DRIVER_INIT", "BSP_DRIVER_INIT", "HW_VALIDATION",
  "CONFIG_LOADING", "CONFIG_PARSING", "CONFIG_VALIDATION", "CONFIG_APPLICATION",
  "STARTELF_SOURCE_SELECT", "STARTELF_LOADING", "STARTELF_VALIDATION", "STARTELF_EXEC",
  "KERNEL_SOURCE_SELECT", "KERNEL_LOADING", "KERNEL_VALIDATION", "INITRD_LOADING",
  "DTB_LOADING", "KERNEL_PARAMS_SETUP", "KERNEL_EXEC",
  "NETWORK_BOOT_INIT", "PXE_BOOT_EXEC", "USB_BOOT_INIT", "FAILSAFE_BOOT_INIT",
  "RECOVERY_BOOT_INIT",
  "MODULE_DEPENDENCY_RESOLVE", "MODULE_LOADING", "MODULE_VALIDATION",
  "SECURITY_ATTESTATION", "FIRMWARE_MEASUREMENT", "BOOT_POLICY_VALIDATION",
  "TRUSTED_EXECUTION_INIT",
  "CONFIGURATION_COHERENCE_CHECK", "DEPENDENCY_GRAPH_ANALYSIS",
  "SEMANTIC_VALIDATION", "CONSISTENCY_CHECK",
  "SUCCESS", "FAILURE", "HALT" >>

BootStates == {BootStateEnum[i] : i \in DOMAIN BootStateEnum}

Ordinal == [s \in BootStates |-> CHOOSE i \in DOMAIN BootStateEnum : BootStateEnum[i] = s]

(* state_timeouts: milliseconds a state may last, 0 for no limit.          *)
StateTimeout == [s \in BootStates |->
  CASE s \in {"SUCCESS", "FAILURE", "HALT"} -> 0
    [] s \in {"POWER_ON", "BOOTCODE_SOURCE_SELECT", "CONFIG_VALIDATION", "CONFIG_APPLICATION",
              "STARTELF_SOURCE_SELECT", "KERNEL_SOURCE_SELECT", "KERNEL_PARAMS_SETUP"} -> 1000
    [] s \in {"BOOT_POLICY_VALIDATION", "CONSISTENCY_CHECK"} -> 1500
    [] s \in {"EARLY_HW_INIT", "BOOTCODE_VALIDATION", "BOOTCODE_CONFIG_PARSE", "HW_VALIDATION",
              "CONFIG_PARSING", "STARTELF_VALIDATION", "KERNEL_VALIDATION", "FAILSAFE_BOOT_INIT",
              "RECOVERY_BOOT_INIT", "MODULE_DEPENDENCY_RESOLVE", "MODULE_VALIDATION",
              "FIRMWARE_MEASUREMENT", "CONFIGURATION_COHERENCE_CHECK", "SEMANTIC_VALIDATION"} -> 2000
    [] s = "TRUSTED_EXECUTION_INIT" -> 2500
    [] s \in {"BOOTCODE_EXEC", "CORE_DRIVER_INIT", "CONFIG_LOADING", "DTB_LOADING",
              "USB_BOOT_INIT", "SECURITY_ATTESTATION", "DEPENDENCY_GRAPH_ANALYSIS"} -> 3000
    [] s \in {"BOOTCODE_LOADING", "BSP_DRIVER_INIT", "STARTELF_LOADING", "INITRD_LOADING",
              "KERNEL_EXEC", "NETWORK_BOOT_INIT", "PXE_BOOT_EXEC", "MODULE_LOADING"} -> 5000
    [] OTHER -> 10000]

(* is_valid_transition: the rules in source order, each a state and the    *)
(* states it allows next.  The first rule of a state returns, so a later   *)
(* rule for the same state is dead code.                                   *)
TransitionRules == <<
  <<"POWER_ON",               {"EARLY_HW_INIT"}>>,
  <<"EARLY_HW_INIT",          {"BOOTCODE_SOURCE_SELECT", "FAILURE"}>>,
  <<"BOOTCODE_SOURCE_SELECT", {"BOOTCODE_LOADING", "NETWORK_BOOT_INIT", "USB_BOOT_INIT"}>>,
  <<"BOOTCODE_LOADING",       {"BOOTCODE_VALIDATION", "FAILURE"}>>,
  <<"BOOTCODE_VALIDATION",    {"BOOTCODE_EXEC", "FAILURE"}>>,
  <<"BOOTCODE_EXEC",          {"BOOTCODE_CONFIG_PARSE", "CORE_DRIVER_INIT"}>>,
  <<"BOOTCODE_CONFIG_PARSE",  {"CORE_DRIVER_INIT"}>>,
  <<"CORE_DRIVER_INIT",       {"BSP_DRIVER_INIT", "FAILURE"}>>,
  <<"BSP_DRIVER_INIT",        {"HW_VALIDATION", "FAILURE"}>>,
  <<"HW_VALIDATION",          {"CONFIG_LOADING", "FAILURE"}>>,
  <<"CONFIG_LOADING",         {"CONFIG_PARSING", "STARTELF_SOURCE_SELECT"}>>,
  <<"CONFIG_PARSING",         {"CONFIG_VALIDATION"}>>,
  <<"CONFIG_VALIDATION",      {"CONFIG_APPLICATION"}>>,
  <<"CONFIG_APPLICATION",     {"STARTELF_SOURCE_SELECT"}>>,
  <<"STARTELF_SOURCE_SELECT", {"STARTELF_LOADING", "NETWORK_BOOT_INIT", "USB_BOOT_INIT"}>>,
  <<"STARTELF_LOADING",       {"STARTELF_VALIDATION", "FAILURE"}>>,
  <<"STARTELF_VALIDATION",    {"STARTELF_EXEC", "FAILURE"}>>,
  <<"STARTELF_EXEC",          {"KERNEL_SOURCE_SELECT"}>>,
  <<"KERNEL_SOURCE_SELECT",   {"KERNEL_LOADING", "NETWORK_BOOT_INIT", "USB_BOOT_INIT",
                               "MODULE_DEPENDENCY_RESOLVE"}>>,
  <<"KERNEL_LOADING",         {"KERNEL_VALIDATION", "FAILURE"}>>,
  <<"KERNEL_VALIDATION",      {"INITRD_LOADING", "DTB_LOADING", "KERNEL_PARAMS_SETUP"}>>,
  <<"INITRD_LOADING",         {"DTB_LOADING"}>>,
  <<"DTB_LOADING",            {"KERNEL_PARAMS_SETUP"}>>,
  <<"KERNEL_PARAMS_SETUP",    {"KERNEL_EXEC"}>>,
  <<"KERNEL_EXEC",            {"SUCCESS", "FAILURE"}>>,
  <<"NETWORK_BOOT_INIT",      {"KERNEL_LOADING", "STARTELF_LOADING", "BOOTCODE_LOADING",
                               "PXE_BOOT_EXEC"}>>,
  <<"PXE_BOOT_EXEC",          {"SUCCESS", "FAILURE"}>>,
  <<"USB_BOOT_INIT",          {"KERNEL_LOADING", "STARTELF_LOADING", "BOOTCODE_LOADING"}>>,
  <<"FAILSAFE_BOOT_INIT",     {"KERNEL_LOADING", "STARTELF_LOADING"}>>,
  <<"RECOVERY_BOOT_INIT",     {"BOOTCODE_LOADING", "CONFIG_LOADING"}>>,
  <<"MODULE_DEPENDENCY_RESOLVE", {"MODULE_LOADING", "KERNEL_LOADING"}>>,
  <<"MODULE_LOADING",         {"MODULE_VALIDATION", "FAILURE"}>>,
  <<"MODULE_VALIDATION",      {"KERNEL_LOADING", "SUCCESS"}>>,
  <<"HW_VALIDATION",          {"SECURITY_ATTESTATION", "CONFIG_LOADING"}>>,
  <<"SECURITY_ATTESTATION",   {"FIRMWARE_MEASUREMENT", "FAILURE"}>>,
  <<"FIRMWARE_MEASUREMENT",   {"BOOT_POLICY_VALIDATION", "FAILURE"}>>,
  <<"BOOT_POLICY_VALIDATION", {"TRUSTED_EXECUTION_INIT", "FAILURE"}>>,
  <<"TRUSTED_EXECUTION_INIT", {"CONFIG_LOADING", "FAILURE"}>>,
  <<"CONFIG_PARSING",         {"CONFIGURATION_COHERENCE_CHECK", "CONFIG_VALIDATION"}>>,
  <<"CONFIGURATION_COHERENCE_CHECK", {"DEPENDENCY_GRAPH_ANALYSIS", "FAILURE"}>>,
  <<"DEPENDENCY_GRAPH_ANALYSIS", {"CONFIG_VALIDATION", "FAILURE"}>>,
  <<"CONFIG_VALIDATION",      {"SEMANTIC_VALIDATION", "CONFIG_APPLICATION"}>>,
  <<"SEMANTIC_VALIDATION",    {"CONSISTENCY_CHECK", "FAILURE"}>>,
  <<"CONSISTENCY_CHECK",      {"CONFIG_APPLICATION", "FAILURE"}>> >>

IsValidTransition(from, to) ==
  \E i \in DOMAIN TransitionRules :
    /\ TransitionRules[i][1] = from
    /\ \A j \in 1 .. (i - 1) : TransitionRules[j][1] # from
    /\ to \in TransitionRules[i][2]

(* The rules as a graph, so that they are searched once per state.         *)
Successors == [s \in BootStates |-> {t \in BootStates : IsValidTransition(s, t)}]

TerminalStates == {"SUCCESS", "FAILURE", "HALT"}

Interlocks == {"NONE", "HARDWARE_NOT_READY", "MEMORY_CORRUPTION", "TIMEOUT",
               "SECURITY_VIOLATION", "RESOURCE_EXHAUSTED"}
SafetyFlags == {"HARDWARE_READY", "MEMORY_INTEGRITY", "SECURITY_VALID", "RESOURCES_OK"}
TransitionStatus == {"VALID", "INVALID", "BLOCKED"}
RecoveryActions == {"NONE", "RETRY", "RESET", "FAILSAFE", "HALT"}

(* state_history_entry_t; logged abstracts a timestamp above 0.            *)
HistoryEntry == [state: BootStates, result: TransitionStatus, interlock: Interlocks,
                 logged: BOOLEAN]

Monitor == [current_state: BootStates, previous_state: BootStates,
            elapsed_ms: 0 .. (ElapsedModulus - 1), retry_count: Nat,
            active_interlock: Interlocks, safety_flags: SUBSET SafetyFlags,
            last_check: 0 .. (ElapsedModulus - 1),
            history: [0 .. (HistorySize - 1) -> HistoryEntry],
            history_index: 0 .. (HistorySize - 1),
            pending: {"none", "failure", "halt"}]

-----------------------------------------------------------------------------
(* fsa_check_interlocks: the interlock a flag that is down raises against  *)
(* a target, "NONE" when nothing stands against it.                        *)
BlockingInterlock(flags, target) ==
  IF "HARDWARE_READY" \notin flags /\ Ordinal[target] >= Ordinal["STARTELF_LOADING"]
  THEN "HARDWARE_NOT_READY"
  ELSE IF "MEMORY_INTEGRITY" \notin flags /\ Ordinal[target] >= Ordinal["KERNEL_LOADING"]
  THEN "MEMORY_CORRUPTION"
  ELSE IF "SECURITY_VALID" \notin flags /\ Ordinal[target] >= Ordinal["KERNEL_EXEC"]
  THEN "SECURITY_VIOLATION"
  ELSE "NONE"

(* Mutants: the interlocks are not consulted; they are before the rules.   *)
MutStatusUnlocked(m, target) ==
  IF target \notin Successors[m.current_state] THEN "INVALID" ELSE "VALID"

MutStatusLocksFirst(m, target) ==
  IF BlockingInterlock(m.safety_flags, target) # "NONE" THEN "BLOCKED"
  ELSE IF target \notin Successors[m.current_state] THEN "INVALID"
  ELSE "VALID"

(* fsa_validate_transition.                                                *)
Status(m, target) ==
  IF target \notin Successors[m.current_state] THEN "INVALID"
  ELSE IF BlockingInterlock(m.safety_flags, target) # "NONE" THEN "BLOCKED"
  ELSE "VALID"

(* Mutant: the index of the ring does not wrap around.                     *)
MutRecordNoWrap(m, state, status, interlock) ==
  [m EXCEPT !.history[m.history_index] =
                [state |-> state, result |-> status, interlock |-> interlock, logged |-> TRUE],
            !.history_index = @ + 1]

(* fsa_record_history.                                                     *)
Record(m, state, status, interlock) ==
  [m EXCEPT !.history[m.history_index] =
                [state |-> state, result |-> status, interlock |-> interlock, logged |-> TRUE],
            !.history_index = (@ + 1) % HistorySize]

(* Mutant: the state left is recorded in place of the state entered.       *)
MutRecordOldState(m, target) ==
  Record([m EXCEPT !.previous_state = m.current_state, !.current_state = target,
                   !.elapsed_ms = 0, !.retry_count = 0],
         m.current_state, "VALID", "NONE")

(* fsa_update_state, the branch that takes the transition.                 *)
EnterState(m, target) ==
  Record([m EXCEPT !.previous_state = m.current_state, !.current_state = target,
                   !.elapsed_ms = 0, !.retry_count = 0],
         target, "VALID", "NONE")

(* fsa_determine_recovery.                                                 *)
DetermineRecovery(interlock) ==
  CASE interlock = "TIMEOUT" -> "RETRY"
    [] interlock = "MEMORY_CORRUPTION" -> "RESET"
    [] interlock = "SECURITY_VIOLATION" -> "FAILSAFE"
    [] interlock = "HARDWARE_NOT_READY" -> "RESET"
    [] interlock = "RESOURCE_EXHAUSTED" -> "HALT"
    [] OTHER -> "NONE"

(* fsa_execute_recovery up to the fsa_update_state(STATE_FAILURE) it may   *)
(* end in, which is left pending.                                          *)
ExecuteRecovery(m, action) ==
  CASE action = "RETRY" /\ m.retry_count + 1 < 3 ->
         [m EXCEPT !.retry_count = @ + 1, !.active_interlock = "NONE"]
    [] action = "RETRY" /\ m.retry_count + 1 >= 3 ->
         [m EXCEPT !.retry_count = @ + 1, !.pending = "failure"]
    [] action \in {"RESET", "FAILSAFE"} -> [m EXCEPT !.pending = "failure"]
    [] action = "HALT" -> [m EXCEPT !.pending = "halt"]
    [] OTHER -> m

(* fsa_update_state: one frame of the recursion.                           *)
UpdateState(m, target) ==
  LET status == Status(m, target)
      blocker == BlockingInterlock(m.safety_flags, target)
      blocked == Record([m EXCEPT !.active_interlock = blocker],
                        m.current_state, "BLOCKED", blocker)
  IN CASE status = "VALID" -> EnterState(m, target)
       [] status = "INVALID" -> Record(m, m.current_state, "INVALID", m.active_interlock)
       [] OTHER -> ExecuteRecovery(blocked, DetermineRecovery(blocker))

(* fsa_get_history: the index-th entry counting back from the newest.      *)
GetHistory(m, index) ==
  m.history[(m.history_index + HistorySize - 1 - index) % HistorySize]

-----------------------------------------------------------------------------
(* fsa_monitor_init; the statics of the file start zeroed.                 *)
InitialMonitor ==
  [current_state |-> "POWER_ON", previous_state |-> "POWER_ON", elapsed_ms |-> 0,
   retry_count |-> 0, active_interlock |-> "NONE", safety_flags |-> SafetyFlags,
   last_check |-> 0,
   history |-> [i \in 0 .. (HistorySize - 1) |->
                  [state |-> "POWER_ON", result |-> "VALID", interlock |-> "NONE",
                   logged |-> FALSE]],
   history_index |-> 0, pending |-> "none"]

Init ==
  /\ fsa = InitialMonitor
  /\ pc = "caller"
  /\ tick_ms = 0

(* The nested fsa_update_state(STATE_FAILURE) that fsa_execute_recovery    *)
(* makes.                                                                  *)
RecoveryStep ==
  /\ fsa.pending = "failure"
  /\ fsa' = UpdateState([fsa EXCEPT !.pending = "none"], "FAILURE")
  /\ UNCHANGED <<pc, tick_ms>>

(* A caller of fsa_update_state.                                           *)
RequestState(target) ==
  /\ pc = "caller" /\ fsa.pending = "none"
  /\ fsa' = UpdateState(fsa, target)
  /\ UNCHANGED <<pc, tick_ms>>

(* fsa_monitor_tick, first half: d ms after the last look at the clock,    *)
(* with fsa_handle_timeout when the state has lasted too long.             *)
Tick(d) ==
  LET now == (fsa.elapsed_ms + d) % ElapsedModulus
      limit == StateTimeout[fsa.current_state]
      m == [fsa EXCEPT !.elapsed_ms = now]
  IN /\ pc = "caller" /\ fsa.pending = "none"
     /\ fsa' = IF limit > 0 /\ now > limit
               THEN UpdateState([m EXCEPT !.active_interlock = "TIMEOUT"], "FAILURE")
               ELSE m
     /\ tick_ms' = now
     /\ pc' = "safety"

(* Mutant: the memory flag is not set again.                               *)
MutCheckedFlags(level) ==
  SafetyFlags \ (IF level THEN {"MEMORY_INTEGRITY"} ELSE {"HARDWARE_READY", "MEMORY_INTEGRITY"})

(* fsa_perform_safety_checks with the level read on the LED pin.           *)
CheckedFlags(level) == SafetyFlags \ (IF level THEN {} ELSE {"HARDWARE_READY"})

(* fsa_monitor_tick, second half: the check that is due every second.  The *)
(* difference is unsigned, so it is also due when tick_ms went back.       *)
SafetyChecks(level) ==
  LET due == (tick_ms + ElapsedModulus - fsa.last_check) % ElapsedModulus > 1000
  IN /\ pc = "safety" /\ fsa.pending = "none"
     /\ fsa' = IF due
               THEN [fsa EXCEPT !.safety_flags = CheckedFlags(level), !.last_check = tick_ms]
               ELSE fsa
     /\ pc' = "caller"
     /\ UNCHANGED tick_ms

Next ==
  \/ RecoveryStep
  \/ \E target \in BootStates : RequestState(target)
  \/ \E d \in IterationMs : Tick(d)
  \/ \E level \in BOOLEAN : SafetyChecks(level)

Spec == Init /\ [][Next]_vars

(* One CPU runs the monitor: a call that has begun goes on.                *)
FairSpec == Spec /\ WF_vars(RecoveryStep)

-----------------------------------------------------------------------------
(* Every field of the monitor keeps its type.                              *)
TypeOK ==
  /\ fsa \in Monitor
  /\ pc \in {"caller", "safety"}
  /\ tick_ms \in 0 .. (ElapsedModulus - 1)

(* The boot state moves only along a rule whose interlocks are clear, and  *)
(* the monitor then remembers where it came from and restarts the count of *)
(* retries: this holds for requests, timeouts and nested recoveries alike. *)
LegalStep ==
  /\ fsa'.current_state \in Successors[fsa.current_state]
  /\ BlockingInterlock(fsa.safety_flags, fsa'.current_state) = "NONE"
  /\ fsa'.previous_state = fsa.current_state
  /\ fsa'.retry_count = 0
LegalTransitions == [][fsa'.current_state = fsa.current_state \/ LegalStep]_vars

(* What fsa_get_history returns, newest first, is a walk of the transition *)
(* rules that ends in the current state: a VALID entry follows its         *)
(* predecessor by a rule, a refused one leaves the state as it was.        *)
HistoryIsPath ==
  /\ GetHistory(fsa, 0).state = fsa.current_state
  /\ \A i \in 0 .. (HistorySize - 2) :
       LET newer == GetHistory(fsa, i)
           older == GetHistory(fsa, i + 1)
       IN newer.logged =>
            IF newer.result = "VALID" THEN newer.state \in Successors[older.state]
                                      ELSE newer.state = older.state

(* A recovery is only ever started by the hardware interlock while the     *)
(* hardware is not ready: the branches for RETRY, FAILSAFE and HALT, and   *)
(* the memory and security interlocks, cannot run.                         *)
RecoveryOnlyForHardware ==
  fsa.pending # "none" =>
    /\ fsa.pending = "failure"
    /\ fsa.active_interlock = "HARDWARE_NOT_READY"
    /\ "HARDWARE_READY" \notin fsa.safety_flags

(* A recovery from a state that has no rule to FAILURE returns to the      *)
(* caller.                                                                 *)
RecoveryReturnsWithoutFailureRule ==
  (fsa.pending = "failure" /\ "FAILURE" \notin Successors[fsa.current_state])
    ~> fsa.pending = "none"

(* What docs/state_diagrams.md promises: recovery ends, with success or    *)
(* without.                                                                *)
RecoveryReturns == fsa.pending = "failure" ~> fsa.pending = "none"
=============================================================================

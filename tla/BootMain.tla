------------------------------ MODULE BootMain ------------------------------
(***************************************************************************)
(* The full bootloader's main loop, src/old/main.c.complex, composed with  *)
(* the monitor it drives (FsaMonitor).  A turn of the loop runs            *)
(* fsa_monitor_tick and then the handler of the current state, which asks  *)
(* the monitor for the next one.                                           *)
(*                                                                         *)
(* The outcomes of the drivers are the environment: the SD card, the USB   *)
(* stick, the level of the LED pin and the time a turn takes.              *)
(***************************************************************************)
EXTENDS FsaMonitor

CONSTANTS
  Sources,           \* what bootcode_source, startelf_source and kernel_source
                     \* may be configured to
  SdOutcomes,        \* results sd_init and sd_load_file may have: subset of BOOLEAN
  UsbOutcomes,       \* results usb_boot_init may have
  LedLevels,         \* levels gpio_read(GPIO_LED_PIN) may return
  MaxRetries         \* MAX_RETRIES

(* A source whose enable flag is not set counts as "sd".                   *)
ASSUME SourceAssumption ==
  Sources \subseteq [bootcode: {"sd", "usb", "network"}, startelf: {"sd", "usb", "network"},
                     kernel: {"sd", "usb", "network", "module"}]
ASSUME OutcomeAssumption ==
  /\ SdOutcomes \subseteq BOOLEAN
  /\ UsbOutcomes \subseteq BOOLEAN
  /\ LedLevels \subseteq BOOLEAN
  /\ MaxRetries \in Nat \ {0}

VARIABLES
  source,     \* the configured sources, which nothing changes during a boot
  loop,       \* where main is: "tick", "handler", "kernel" or "stopped"
  loaded      \* ghost: the last sd_load_file of the kernel succeeded

bootVars == <<fsa, pc, tick_ms, source, loop, loaded>>

-----------------------------------------------------------------------------
(* The source-selection handlers: the state each one asks for.             *)
SourceState(from, fallback) ==
  CASE from = "usb" -> "USB_BOOT_INIT"
    [] from = "network" -> "NETWORK_BOOT_INIT"
    [] from = "module" -> "MODULE_DEPENDENCY_RESOLVE"
    [] OTHER -> fallback

(* The states whose handler asks for states without consulting a device.   *)
(* The security_* calls of src/src/security.c return 0 on every path.      *)
Asks(s) ==
  CASE s = "POWER_ON" -> {"EARLY_HW_INIT"}
    [] s = "EARLY_HW_INIT" -> {"BOOTCODE_SOURCE_SELECT"}
    [] s = "BOOTCODE_SOURCE_SELECT" -> {SourceState(source.bootcode, "BOOTCODE_LOADING")}
    [] s = "BOOTCODE_VALIDATION" -> {"BOOTCODE_EXEC"}
    [] s = "BOOTCODE_EXEC" -> {"BOOTCODE_CONFIG_PARSE"}
    [] s = "BOOTCODE_CONFIG_PARSE" -> {"CORE_DRIVER_INIT"}
    [] s = "CORE_DRIVER_INIT" -> {"BSP_DRIVER_INIT"}
    [] s = "BSP_DRIVER_INIT" -> {"HW_VALIDATION"}
    [] s = "HW_VALIDATION" -> {"SECURITY_ATTESTATION"}
    [] s = "SECURITY_ATTESTATION" -> {"FIRMWARE_MEASUREMENT"}
    [] s = "FIRMWARE_MEASUREMENT" -> {"BOOT_POLICY_VALIDATION"}
    [] s = "BOOT_POLICY_VALIDATION" -> {"TRUSTED_EXECUTION_INIT"}
    [] s = "TRUSTED_EXECUTION_INIT" -> {"CONFIG_LOADING"}
    [] s = "CONFIG_LOADING" -> {"CONFIG_PARSING"}
    [] s = "CONFIG_PARSING" -> {"CONFIGURATION_COHERENCE_CHECK"}
    [] s = "CONFIGURATION_COHERENCE_CHECK" -> {"DEPENDENCY_GRAPH_ANALYSIS"}
    [] s = "DEPENDENCY_GRAPH_ANALYSIS" -> {"CONFIG_VALIDATION"}
    [] s = "CONFIG_VALIDATION" -> {"SEMANTIC_VALIDATION"}
    [] s = "SEMANTIC_VALIDATION" -> {"CONSISTENCY_CHECK", "FAILURE"}
    [] s = "CONSISTENCY_CHECK" -> {"CONFIG_APPLICATION"}
    [] s = "CONFIG_APPLICATION" -> {"STARTELF_SOURCE_SELECT"}
    [] s = "STARTELF_SOURCE_SELECT" -> {SourceState(source.startelf, "STARTELF_LOADING")}
    [] s = "STARTELF_LOADING" -> {"STARTELF_VALIDATION"}
    [] s = "STARTELF_VALIDATION" -> {"STARTELF_EXEC"}
    [] s = "STARTELF_EXEC" -> {"KERNEL_SOURCE_SELECT"}
    [] s = "KERNEL_SOURCE_SELECT" -> {SourceState(source.kernel, "KERNEL_LOADING")}
    [] s = "KERNEL_VALIDATION" -> {"INITRD_LOADING"}
    [] s = "INITRD_LOADING" -> {"DTB_LOADING"}
    [] s = "DTB_LOADING" -> {"KERNEL_PARAMS_SETUP"}
    [] s = "KERNEL_PARAMS_SETUP" -> {"KERNEL_EXEC"}
    [] s \in {"NETWORK_BOOT_INIT", "PXE_BOOT_EXEC", "FAILSAFE_BOOT_INIT",
              "RECOVERY_BOOT_INIT"} -> {"FAILURE"}
    [] s = "MODULE_DEPENDENCY_RESOLVE" -> {"MODULE_LOADING"}
    [] s = "MODULE_VALIDATION" -> {"KERNEL_EXEC"}
    [] OTHER -> {}

(* The handlers that load something: the state that follows success.       *)
AfterLoad == [s \in {"BOOTCODE_LOADING", "KERNEL_LOADING", "MODULE_LOADING"} |->
  CASE s = "BOOTCODE_LOADING" -> "BOOTCODE_VALIDATION"
    [] s = "KERNEL_LOADING" -> "KERNEL_VALIDATION"
    [] OTHER -> "MODULE_VALIDATION"]

-----------------------------------------------------------------------------
BootInit ==
  /\ Init
  /\ source \in Sources
  /\ loop = "tick"
  /\ loaded = FALSE

(* The two halves of fsa_monitor_tick, and the frames of its recursion.    *)
LoopTick ==
  /\ loop = "tick"
  /\ \E d \in IterationMs : Tick(d)
  /\ UNCHANGED <<source, loop, loaded>>

LoopSafetyChecks ==
  /\ \E level \in LedLevels : SafetyChecks(level)
  /\ loop' = "handler"
  /\ UNCHANGED <<source, loaded>>

LoopRecovery == RecoveryStep /\ UNCHANGED <<source, loop, loaded>>

(* A handler is about to run: the calls of the tick have returned.         *)
AtHandler == loop = "handler" /\ pc = "caller" /\ fsa.pending = "none"

(* The handlers that ask for the next state at once.                       *)
HandleAdvance ==
  /\ AtHandler
  /\ \E target \in Asks(fsa.current_state) : RequestState(target)
  /\ loop' = "tick"
  /\ UNCHANGED <<source, loaded>>

(* Mutants: a failed load starts the clock of its state again; the last    *)
(* failure is taken for a success.                                         *)
MutRetryRestartsClock == fsa' = [fsa EXCEPT !.elapsed_ms = 0]

MutGiveUpAdvances ==
  LET m == [fsa EXCEPT !.retry_count = @ + 1]
  IN fsa' = IF m.retry_count < MaxRetries THEN m
            ELSE UpdateState(m, AfterLoad[fsa.current_state])

(* A load that failed: try again on the next turn, or give up.             *)
RetryOrFail ==
  LET m == [fsa EXCEPT !.retry_count = @ + 1]
  IN fsa' = IF m.retry_count < MaxRetries THEN m ELSE UpdateState(m, "FAILURE")

(* BOOTCODE_LOADING calls sd_init; KERNEL_LOADING and MODULE_LOADING call  *)
(* sd_load_file.  Their branch for a file name that validate_filename      *)
(* refuses is never taken: the built-in name passes, and config.c lets     *)
(* through only names that pass the same test.                             *)
HandleLoad ==
  /\ AtHandler
  /\ fsa.current_state \in DOMAIN AfterLoad
  /\ \E ok \in SdOutcomes :
       /\ IF ok THEN fsa' = UpdateState(fsa, AfterLoad[fsa.current_state]) ELSE RetryOrFail
       /\ loaded' = IF fsa.current_state = "KERNEL_LOADING" THEN ok ELSE loaded
  /\ loop' = "tick"
  /\ UNCHANGED <<pc, tick_ms, source>>

(* USB_BOOT_INIT enumerates the ports and goes on to load the kernel.      *)
HandleUsb ==
  /\ AtHandler
  /\ fsa.current_state = "USB_BOOT_INIT"
  /\ \E found \in UsbOutcomes : RequestState(IF found THEN "KERNEL_LOADING" ELSE "FAILURE")
  /\ loop' = "tick"
  /\ UNCHANGED <<source, loaded>>

(* KERNEL_EXEC jumps to the kernel; it looks at nothing first.             *)
HandleKernelExec ==
  /\ AtHandler
  /\ fsa.current_state = "KERNEL_EXEC"
  /\ loop' = "kernel"
  /\ UNCHANGED <<fsa, pc, tick_ms, source, loaded>>

(* SUCCESS, FAILURE and HALT return or spin for ever.                      *)
HandleTerminal ==
  /\ AtHandler
  /\ fsa.current_state \in TerminalStates
  /\ loop' = "stopped"
  /\ UNCHANGED <<fsa, pc, tick_ms, source, loaded>>

BootNext ==
  \/ LoopTick \/ LoopSafetyChecks \/ LoopRecovery
  \/ HandleAdvance \/ HandleLoad \/ HandleUsb \/ HandleKernelExec \/ HandleTerminal

(* The loop is the only thread of the program and never blocks.            *)
BootSpec == BootInit /\ [][BootNext]_bootVars /\ WF_bootVars(BootNext)

-----------------------------------------------------------------------------
(* Failed loads of one state are counted up to MAX_RETRIES and no further, *)
(* through timeouts, recoveries and every path that re-enters a loader.    *)
RetriesBounded == fsa.retry_count <= MaxRetries

(* The bootloader jumps to the kernel only after a load that succeeded,    *)
(* out of the state KERNEL_EXEC, and never once FAILURE was entered.       *)
HandoverRequiresKernel ==
  loop = "kernel" => loaded /\ fsa.current_state = "KERNEL_EXEC"

(* Both: a failing load is given up in time, and never taken for a success.*)
LoadsSound == RetriesBounded /\ HandoverRequiresKernel

(* Every boot comes to rest: it hands over, stops, recurses for ever in a  *)
(* recovery, or stays in a state that has no rule to FAILURE.  The timeout *)
(* ends every other state, however the devices behave.                     *)
BootSettles ==
  \/ <>(loop \in {"kernel", "stopped"})
  \/ <>[](fsa.pending = "failure")
  \/ \E s \in {t \in BootStates : "FAILURE" \notin Successors[t]} :
       <>[](fsa.current_state = s)

(* docs/MULTIDIMENSIONAL_FORMAL_VERIFICATION.md, theorem 1: with hardware  *)
(* and files in order, the boot succeeds.                                  *)
BootSucceeds == <>(loop = "kernel")
=============================================================================

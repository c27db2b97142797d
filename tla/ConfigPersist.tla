--------------------------- MODULE ConfigPersist ----------------------------
(***************************************************************************)
(* The persistent configuration, src/src/config_persist.c: one record in   *)
(* RAM, a primary and a backup sector on the SD card, and the A/B boot     *)
(* slots kept inside the record.                                           *)
(*                                                                         *)
(* A save writes the two sectors one after the other.  Power may fail      *)
(* between any two steps and in the middle of a sector write; the sector   *)
(* being written then fails validation.                                    *)
(***************************************************************************)
EXTENDS Naturals

CONSTANTS
  Settings,      \* values of the user's settings, taken together
  Factory,       \* the settings of config_set_defaults
  MaxCount,      \* bound on the failure counters: no caller counts further
  MaxSuccess,    \* bound on the success counters
  ReadFaults,    \* may sd_read_block report failure?
  WriteFaults,   \* may sd_write_block report failure?
  Bad            \* what a sector holds that does not validate

Slots == {0, 1}

(* boot_config_t; all user settings are one field, and magic, version, CRC *)
(* and ranges are the difference between a Config and Bad.                 *)
Config == [setting: Settings, enable_a_b_boot: BOOLEAN, current_boot_slot: Slots,
           boot_counter: [Slots -> 0 .. MaxCount], boot_success: [Slots -> 0 .. MaxSuccess]]

ASSUME FactoryAssumption == Factory \in Settings
ASSUME BadAssumption == Bad \notin Config
ASSUME FaultAssumption ==
  /\ ReadFaults \in BOOLEAN /\ WriteFaults \in BOOLEAN
  /\ MaxCount \in Nat /\ MaxSuccess \in Nat

VARIABLES
  current,     \* current_config
  primary,     \* sector CONFIG_SD_SECTOR
  backup,      \* sector CONFIG_BACKUP_SECTOR
  pc,          \* "off", "idle", or the sector the running save writes next
  saved,       \* save_config of the running save, Defaults when none runs
  tears,       \* ghost: sectors torn since both were last known to be valid,
               \* counted up to two
  failures,    \* ghost: failures marked for a slot, up to three, since the
               \* card last recorded a count of zero for it
  misread      \* ghost: a start-up has loaded something other than the primary

configVars == <<current, primary, backup, pc, saved, tears, failures, misread>>

-----------------------------------------------------------------------------
Zero == [s \in Slots |-> 0]

(* config_set_defaults.                                                    *)
Defaults == [setting |-> Factory, enable_a_b_boot |-> FALSE, current_boot_slot |-> 0,
             boot_counter |-> Zero, boot_success |-> Zero]

(* config_persist_load: the sectors it may return, given which reads work. *)
(* Whether the contents validate is looked at only afterwards.             *)
Loaded == {primary} \cup (IF ReadFaults THEN {backup, Bad} ELSE {})

(* Mutant: what was read is used without validation.                       *)
MutAcceptAll(sector) == sector

(* config_persist_validate, then the record or the defaults.               *)
AcceptedRecord(sector) == IF sector # Bad THEN sector ELSE Defaults

(* A card as it may be found: blank, or holding one provisioned record.    *)
ConfigInit ==
  /\ \E c \in {Bad, Defaults, [Defaults EXCEPT !.enable_a_b_boot = TRUE]} :
       /\ primary = c /\ backup = c
       /\ tears = IF c = Bad THEN 2 ELSE 0
  /\ current = Defaults
  /\ saved = Defaults
  /\ pc = "off"
  /\ failures = Zero /\ misread = FALSE

(* config_persist_init, at power-on.                                       *)
PersistInit ==
  /\ pc = "off"
  /\ \E sector \in Loaded : /\ current' = AcceptedRecord(sector)
                            /\ misread' = (misread \/ sector # primary)
  /\ pc' = "idle"
  /\ UNCHANGED <<primary, backup, saved, tears, failures>>

(* config_persist_save(&current_config), as far as the first write.        *)
BeginSave(config) ==
  /\ current' = config
  /\ saved' = config
  /\ pc' = "primary"
  /\ UNCHANGED misread

(* The setters change the RAM copy before they save it.                    *)
SetSetting ==
  /\ pc = "idle"
  /\ \E v \in Settings : BeginSave([current EXCEPT !.setting = v])
  /\ UNCHANGED <<primary, backup, tears, failures>>

(* config_persist_reset.                                                   *)
Reset ==
  /\ pc = "idle"
  /\ BeginSave(Defaults)
  /\ UNCHANGED <<primary, backup, tears, failures>>

(* config_persist_mark_boot_success.                                       *)
MarkBootSuccess ==
  LET s == current.current_boot_slot
  IN /\ pc = "idle" /\ current.boot_success[s] < MaxSuccess
     /\ BeginSave([current EXCEPT !.boot_success[s] = @ + 1, !.boot_counter[s] = 0])
     /\ UNCHANGED <<primary, backup, tears, failures>>

(* config_persist_mark_boot_failure.                                       *)
MarkBootFailure ==
  LET s == current.current_boot_slot
  IN /\ pc = "idle" /\ current.boot_counter[s] < MaxCount
     /\ BeginSave([current EXCEPT !.boot_counter[s] = @ + 1])
     /\ failures' = [failures EXCEPT ![s] = IF @ < 3 THEN @ + 1 ELSE @]
     /\ UNCHANGED <<primary, backup, tears>>

(* Mutant: two failures are enough.                                        *)
MutExhaustedEarly ==
  LET s == current.current_boot_slot
  IN /\ current.enable_a_b_boot
     /\ current.boot_counter[s] >= 2
     /\ current.boot_success[s] = 0

(* The test of config_persist_get_boot_slot.                               *)
SlotExhausted ==
  LET s == current.current_boot_slot
  IN /\ current.enable_a_b_boot
     /\ current.boot_counter[s] >= 3
     /\ current.boot_success[s] = 0

(* config_persist_get_boot_slot when it switches; otherwise it only reads. *)
SwitchSlot ==
  LET other == 1 - current.current_boot_slot
  IN /\ pc = "idle" /\ SlotExhausted
     /\ BeginSave([current EXCEPT !.current_boot_slot = other, !.boot_counter[other] = 0])
     /\ UNCHANGED <<primary, backup, tears, failures>>

(* A write that does not complete leaves a sector that does not validate.  *)
Tear(sector) ==
  /\ sector' = Bad
  /\ tears' = IF tears < 2 THEN tears + 1 ELSE tears

(* Mutant: the checksum is brought up to date only after the first write.  *)
MutChecksumLate ==
  /\ pc = "primary"
  /\ primary' = Bad
  /\ pc' = "backup"
  /\ UNCHANGED <<current, backup, saved, tears, failures, misread>>

(* A failed write leaves the sector as it was, or torn.                    *)
WritePrimary ==
  /\ pc = "primary"
  /\ \/ /\ primary' = saved
        /\ failures' = [s \in Slots |-> IF saved.boot_counter[s] = 0 THEN 0 ELSE failures[s]]
        /\ pc' = "backup"
        /\ UNCHANGED <<saved, tears>>
     \/ /\ WriteFaults
        /\ \/ UNCHANGED <<primary, tears>>
           \/ Tear(primary)
        /\ saved' = Defaults
        /\ pc' = "idle"
        /\ UNCHANGED failures
  /\ UNCHANGED <<current, backup, misread>>

(* The backup's failure is not fatal: the save returns 0 either way.       *)
WriteBackup ==
  /\ pc = "backup"
  /\ \/ backup' = saved /\ tears' = 0
     \/ WriteFaults /\ UNCHANGED <<backup, tears>>
     \/ WriteFaults /\ Tear(backup)
  /\ current' = saved
  /\ saved' = Defaults
  /\ pc' = "idle"
  /\ UNCHANGED <<primary, failures, misread>>

(* Power fails: RAM is lost, and a sector that was being written may be    *)
(* torn.  A write that power failed just after is WritePrimary or          *)
(* WriteBackup followed by this.                                           *)
PowerFail ==
  /\ pc # "off"
  /\ \/ UNCHANGED <<primary, backup, tears>>
     \/ pc = "primary" /\ Tear(primary) /\ UNCHANGED backup
     \/ pc = "backup" /\ Tear(backup) /\ UNCHANGED primary
  /\ pc' = "off"
  /\ current' = Defaults /\ saved' = Defaults
  /\ UNCHANGED <<failures, misread>>

ConfigNext ==
  \/ PersistInit
  \/ SetSetting \/ Reset \/ MarkBootSuccess \/ MarkBootFailure \/ SwitchSlot
  \/ WritePrimary \/ WriteBackup
  \/ PowerFail

ConfigSpec == ConfigInit /\ [][ConfigNext]_configVars

-----------------------------------------------------------------------------
(* The record in RAM is always a valid one; a sector may hold anything.    *)
ConfigTypeOK ==
  /\ current \in Config /\ saved \in Config
  /\ {primary, backup} \subseteq Config \cup {Bad}
  /\ pc \in {"off", "idle", "primary", "backup"}
  /\ tears \in 0 .. 2
  /\ failures \in [Slots -> 0 .. 3] /\ misread \in BOOLEAN

(* One torn sector since both were valid never leaves the card without a   *)
(* valid one, whichever write it hit and however the program restarted:    *)
(* the two sectors are not at risk in the same save.  (Two are too many:   *)
(* nothing rewrites a torn backup before the next save goes through the    *)
(* primary.)                                                               *)
OneGoodCopy == tears < 2 => primary # Bad \/ backup # Bad

(* A slot is given up only after three failures were marked for it since   *)
(* the card last recorded a clean count, whatever power failures and       *)
(* failed writes came in between; the slot that takes over starts clean.   *)
(* (A start-up that cannot read the primary may take an older count.)      *)
SwitchStep ==
  /\ pc = "idle" /\ pc' = "primary" /\ ~misread
  /\ current'.enable_a_b_boot
  /\ current'.current_boot_slot # current.current_boot_slot
SwitchEarned ==
  [][SwitchStep => /\ failures[current.current_boot_slot] >= 3
                   /\ current'.boot_counter[current'.current_boot_slot] = 0]_configVars

(* config_persist.h and docs/ENHANCEMENTS_PHASE3.md: sector 2049 is a      *)
(* backup copy.  Starting up with a valid sector on the card yields the    *)
(* contents of a valid sector.                                             *)
BackupIsUsed ==
  [][pc = "off" /\ pc' = "idle" /\ (primary # Bad \/ backup # Bad)
       => current' \in {primary, backup}]_configVars
=============================================================================

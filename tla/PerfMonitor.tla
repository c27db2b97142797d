----------------------------- MODULE PerfMonitor ----------------------------
(***************************************************************************)
(* src/src/perfmon.c: a table of checkpoints, each with its time and the   *)
(* time since the one before, and the figures computed from it.  Byte      *)
(* counts and the speed derived from them are left out.                    *)
(***************************************************************************)
EXTENDS Integers, Sequences, FiniteSetsExt, SequencesExt

CONSTANTS
  PerfMax,     \* PERF_MAX_CHECKPOINTS
  PerfClock    \* bound on the time the model runs

ASSUME PerfAssumption == PerfMax \in Nat \ {0} /\ PerfClock \in Nat

VARIABLES
  uptime,            \* timer_get_counter
  boot_start_time,
  records            \* records and record_count

perfVars == <<uptime, boot_start_time, records>>

(* The types perfmon_calc_stats looks for; the others are like "other".    *)
CheckpointTypes == {"HARDWARE_INIT", "DRIVER_INIT", "FILESYSTEM_MOUNT", "KERNEL_LOAD_START",
                    "KERNEL_LOAD_END", "DHCP_COMPLETE", "TFTP_END", "BOOT_COMPLETE", "other"}
NetworkTypes == {"DHCP_COMPLETE", "TFTP_END"}

PerfInit == uptime = 0 /\ boot_start_time = 0 /\ records = <<>>

(* Mutant: the time since the start of the boot instead of since the last  *)
(* checkpoint.                                                             *)
MutRecorded(points, type) ==
  IF Len(points) = PerfMax THEN points
  ELSE Append(points, [type |-> type, timestamp |-> uptime,
                      delta_us |-> IF points = <<>> THEN 0 ELSE uptime - points[1].timestamp])

(* A full table takes no more, BOOT_COMPLETE not excepted.                 *)
Recorded(points, type) ==
  IF Len(points) = PerfMax THEN points
  ELSE Append(points, [type |-> type, timestamp |-> uptime,
                      delta_us |-> IF points = <<>> THEN 0 ELSE uptime - Last(points).timestamp])

perfmon_init ==
  /\ boot_start_time' = uptime
  /\ records' = Recorded(<<>>, "other")     \* PERF_BOOT_START
  /\ UNCHANGED uptime

perfmon_checkpoint(type) ==
  /\ records' = Recorded(records, type)
  /\ UNCHANGED <<uptime, boot_start_time>>

perfmon_reset ==
  /\ records' = <<>>
  /\ boot_start_time' = uptime
  /\ UNCHANGED uptime

PerfTick ==
  /\ uptime < PerfClock
  /\ uptime' = uptime + 1
  /\ UNCHANGED <<boot_start_time, records>>

PerfNext ==
  \/ perfmon_init \/ perfmon_reset \/ PerfTick
  \/ \E type \in CheckpointTypes : perfmon_checkpoint(type)

PerfSpec == PerfInit /\ [][PerfNext]_perfVars

-----------------------------------------------------------------------------
(* perfmon_calc_stats, over a table that is not empty.                     *)
Of(type) == {i \in 1 .. Len(records) : records[i].type = type}
LastOf(type, field) == IF Of(type) = {} THEN 0 ELSE records[Max(Of(type))][field]

hardware_init_us == LastOf("HARDWARE_INIT", "delta_us")
driver_init_us == LastOf("DRIVER_INIT", "delta_us")
filesystem_time_us == LastOf("FILESYSTEM_MOUNT", "delta_us")
network_time_us ==
  LET total[n \in 0 .. Len(records)] ==
        IF n = 0 THEN 0
        ELSE total[n - 1] + (IF records[n].type \in NetworkTypes THEN records[n].delta_us ELSE 0)
  IN total[Len(records)]
kernel_load_time_us ==
  LET start == LastOf("KERNEL_LOAD_START", "timestamp")
      stop == LastOf("KERNEL_LOAD_END", "timestamp")
  IN IF stop > start THEN stop - start ELSE 0
total_boot_time_us ==
  IF Of("BOOT_COMPLETE") = {} THEN 0
  ELSE LastOf("BOOT_COMPLETE", "timestamp") - boot_start_time

perfmon_get_total_time_us ==
  IF records = <<>> THEN 0 ELSE Last(records).timestamp - boot_start_time

PerfTypeOK ==
  /\ uptime \in Nat /\ boot_start_time \in 0 .. uptime
  /\ Len(records) <= PerfMax
  /\ \A i \in 1 .. Len(records) : records[i].type \in CheckpointTypes

(* The figures of a report fit each other, in whatever order and however   *)
(* often checkpoints come, with resets in between and with a table that    *)
(* takes no more: the four phases that are the time up to a checkpoint     *)
(* (hardware, drivers, file system and network) add up to no more than the *)
(* whole, which the load of the kernel does not exceed either if its start *)
(* was recorded.  (A table filled before leaves the start out; the load    *)
(* then seems to begin at power-on, perfmon.c:99.)                         *)
FiguresAddUp ==
  /\ hardware_init_us + driver_init_us + filesystem_time_us + network_time_us
       <= perfmon_get_total_time_us
  /\ Of("KERNEL_LOAD_START") # {} => kernel_load_time_us <= perfmon_get_total_time_us
  /\ total_boot_time_us <= perfmon_get_total_time_us
=============================================================================

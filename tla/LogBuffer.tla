------------------------------ MODULE LogBuffer -----------------------------
(***************************************************************************)
(* The memory log of src/src/log.c: a ring of entries, read by position    *)
(* from the oldest.  A message is a value that tells messages apart; what  *)
(* goes to the console is left out.  A message of 255 characters or more   *)
(* ends the program: see WriteTooLong.                                     *)
(***************************************************************************)
EXTENDS Integers, Sequences

CONSTANTS
  Messages,    \* what callers log
  Greeting,    \* "Logging system initialized"
  LogLevels,   \* the largest level: 0 is NONE
  LogSize      \* LOG_BUFFER_SIZE

ASSUME LogAssumption ==
  /\ LogLevels \in Nat /\ LogLevels >= 3 /\ LogSize \in Nat \ {0} /\ Greeting \notin Messages

VARIABLES
  log_level, toMemory,           \* log_config.level, and targets
  entry_count, log_buffer_head,
  log_buffer,
  cleared,                       \* memory has been cleared
  logged                         \* ghost: the newest LogSize messages that
                                 \* passed since the last init or clear

logVars == <<log_level, toMemory, entry_count, log_buffer_head, log_buffer, cleared, logged>>

Levels == 0 .. LogLevels
INFO == 3
LogIndices == 0 .. (LogSize - 1)

LogInit ==
  /\ log_level = 0 /\ toMemory = FALSE
  /\ entry_count = 0 /\ log_buffer_head = 0
  /\ log_buffer = [i \in LogIndices |-> Greeting]
  /\ cleared = FALSE /\ logged = <<>>

(* The slot that log_write fills, and where head and count go.             *)
Newest(messages) ==
  IF Len(messages) <= LogSize THEN messages
  ELSE SubSeq(messages, Len(messages) - LogSize + 1, Len(messages))

(* Mutant: the count goes on past the size of the ring.                    *)
MutStored(message, head, count) ==
  /\ log_buffer' = [log_buffer EXCEPT ![head] = message]
  /\ log_buffer_head' = (head + 1) % LogSize
  /\ entry_count' = IF count < LogSize - 1 THEN count + 1 ELSE count

Stored(message, head, count) ==
  /\ log_buffer' = [log_buffer EXCEPT ![head] = message]
  /\ log_buffer_head' = (head + 1) % LogSize
  /\ entry_count' = IF count < LogSize THEN count + 1 ELSE count

log_write(level, message) ==
  /\ ~cleared
  /\ IF level <= log_level /\ toMemory
     THEN /\ Stored(message, log_buffer_head, entry_count)
          /\ logged' = Newest(Append(logged, message))
     ELSE UNCHANGED <<log_buffer, log_buffer_head, entry_count, logged>>
  /\ UNCHANGED <<log_level, toMemory, cleared>>

(* strncpy: when 255 characters have been copied, n has counted below zero *)
(* and its second loop clears all of the memory behind the entry.          *)
WriteTooLong(level) ==
  /\ ~cleared
  /\ level <= log_level /\ toMemory
  /\ cleared' = TRUE
  /\ UNCHANGED <<log_level, toMemory, entry_count, log_buffer_head, log_buffer, logged>>

(* log_init empties the ring and logs that it did.                         *)
log_init(level, inMemory) ==
  /\ ~cleared
  /\ log_level' = level /\ toMemory' = inMemory
  /\ IF INFO <= level /\ inMemory
     THEN Stored(Greeting, 0, 0) /\ logged' = <<Greeting>>
     ELSE /\ entry_count' = 0 /\ log_buffer_head' = 0 /\ logged' = <<>>
          /\ UNCHANGED log_buffer
  /\ UNCHANGED cleared

log_set_level(level) ==
  /\ ~cleared
  /\ log_level' = level
  /\ UNCHANGED <<toMemory, entry_count, log_buffer_head, log_buffer, cleared, logged>>

log_set_targets(inMemory) ==
  /\ ~cleared
  /\ toMemory' = inMemory
  /\ UNCHANGED <<log_level, entry_count, log_buffer_head, log_buffer, cleared, logged>>

log_clear_memory ==
  /\ ~cleared
  /\ log_buffer_head' = 0 /\ entry_count' = 0 /\ logged' = <<>>
  /\ UNCHANGED <<log_level, toMemory, log_buffer, cleared>>

Cleared == cleared /\ UNCHANGED logVars

LogNext ==
  \/ \E level \in Levels \ {0}, m \in Messages : log_write(level, m)
  \/ \E level \in Levels \ {0} : WriteTooLong(level)
  \/ \E level \in Levels, inMemory \in BOOLEAN : log_init(level, inMemory)
  \/ \E level \in Levels : log_set_level(level)
  \/ \E inMemory \in BOOLEAN : log_set_targets(inMemory)
  \/ log_clear_memory
  \/ Cleared

LogSpec == LogInit /\ [][LogNext]_logVars

-----------------------------------------------------------------------------
(* What readers get.                                                       *)
log_get_entry(index) ==
  IF entry_count < LogSize THEN log_buffer[index]
  ELSE log_buffer[(log_buffer_head + index) % LogSize]

LogTypeOK ==
  /\ log_level \in Levels /\ {toMemory, cleared} \subseteq BOOLEAN
  /\ entry_count \in 0 .. LogSize /\ log_buffer_head \in LogIndices
  /\ log_buffer \in [LogIndices -> Messages \cup {Greeting}]

(* A reader that goes through the entries by index, as log_dump_memory     *)
(* does, gets the newest messages that passed the level, all of them up to *)
(* the size of the ring, oldest first: while the ring fills, wraps, is     *)
(* cleared in any state and initialized again.                             *)
ReadsNewest == ~cleared =>
  /\ entry_count = Len(logged)
  /\ \A i \in 0 .. (entry_count - 1) : log_get_entry(i) = logged[i + 1]
=============================================================================

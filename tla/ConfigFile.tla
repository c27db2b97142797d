------------------------------ MODULE ConfigFile ----------------------------
(***************************************************************************)
(* The parser of config.txt, src/src/config.c: each line of a key and a    *)
(* value may set a variable of the bootloader, and is kept in a table that *)
(* config_get searches.  The table keeps the text of a value; an address   *)
(* or a number is converted for the variable, by functions of config.c     *)
(* that take the digits a text begins with and know no prefix 0x.          *)
(***************************************************************************)
EXTENDS Integers, Sequences, FiniteSetsExt

CONSTANTS
  CheckedKeys,   \* kernel, initramfs and the three boot sources: the text itself
  AddressKeys,   \* kernel_address, pi4_initramfs_address ...: hexadecimal numbers
  NumberKeys,    \* switches, baud rates, time limits: decimal numbers
  TimeoutKeys,   \* timeout_bootcode_loading and timeout_kernel_loading
  OtherKeys,     \* network_* and unknown ones: for the table only
  Texts,         \* values in the file: sequences of characters
  RefusedTexts,  \* those that a checked key does not take
  Builtin,       \* the values the variables have without the file
  LoadKey,       \* kernel_address
  OverrideKey,   \* pi3_, pi4_ or pi5_kernel_address
  HighAddress,   \* where a Pi 4 or 5 loads, in place of the built-in address
  LongModulus,   \* 2^64, of unsigned long
  IntModulus,    \* 2^32, of unsigned int
  TableSize,     \* MAX_CONFIG_ENTRIES
  MaxLines       \* bound on the lines of a file

(* The characters: 0 to 15 are the digits, in base 16.                     *)
Minus == 16
OtherCharacter == 17    \* the x of 0x, say

VariableKeys == CheckedKeys \cup AddressKeys \cup NumberKeys
Keys == VariableKeys \cup OtherKeys
FileLines == Keys \X Texts

ASSUME KeyAssumption ==
  /\ {LoadKey, OverrideKey} \subseteq AddressKeys /\ TimeoutKeys \subseteq NumberKeys
  /\ (AddressKeys \cup NumberKeys) \cap CheckedKeys = {} /\ AddressKeys \cap NumberKeys = {}
  /\ Builtin[LoadKey] = Builtin[OverrideKey]
ASSUME TextAssumption ==
  /\ \A text \in Texts : text \in Seq(0 .. OtherCharacter) /\ text # <<>>
  /\ RefusedTexts \subseteq Texts
  /\ {LongModulus, IntModulus} \subseteq Nat \ {0}
ASSUME TableAssumption == TableSize \in Nat \ {0} /\ MaxLines \in Nat

VARIABLES
  reading,    \* "start", "lines", "parsed", "applied" or "lost"
  setting,    \* the variables
  custom_timeouts,
  table,      \* config_entries
  lines       \* ghost: the lines with a key and a value, in the order of the file

fileVars == <<reading, setting, custom_timeouts, table, lines>>

FileInit ==
  /\ reading = "start"
  /\ setting = [k \in VariableKeys |-> Builtin[k]]
  /\ custom_timeouts = FALSE
  /\ table = <<>> /\ lines = <<>>

-----------------------------------------------------------------------------
TakesText(key, text) ==
  \/ key \in AddressKeys \cup NumberKeys
  \/ key \in CheckedKeys /\ text \notin RefusedTexts

(* The number that the longest beginning of text in digits of the base is. *)
DigitsAtStart(text, base) ==
  Max({n \in 0 .. Len(text) : \A i \in 1 .. n : text[i] < base})

Digits(text, base) ==
  LET value[n \in 0 .. Len(text)] == IF n = 0 THEN 0 ELSE value[n - 1] * base + text[n]
  IN value[DigitsAtStart(text, base)]

(* strtoul with base 16 and atoi of config.c.  The first keeps the width   *)
(* of unsigned long; what the second does beyond an int is undefined, and  *)
(* texts that long are left out.                                           *)
strtoul(text) == Digits(text, 16) % LongModulus
atoi(text) == IF text[1] = Minus THEN - Digits(Tail(text), 10) ELSE Digits(text, 10)

(* What a variable becomes: the two time limits are unsigned.              *)
Converted(key, text) ==
  CASE key \in AddressKeys -> strtoul(text)
    [] key \in TimeoutKeys -> atoi(text) % IntModulus
    [] key \in NumberKeys \ TimeoutKeys -> atoi(text)
    [] OTHER -> text

(* Mutant: a line replaces the older ones of its key.                      *)
MutKept(line) ==
  IF \E i \in 1 .. Len(table) : table[i][1] = line[1]
  THEN [i \in 1 .. Len(table) |-> IF table[i][1] = line[1] THEN line ELSE table[i]]
  ELSE IF Len(table) < TableSize THEN Append(table, line) ELSE table

Kept(line) == IF Len(table) < TableSize THEN Append(table, line) ELSE table

(* config_parse finds the file, of a size it takes, or keeps the defaults. *)
FindFile ==
  /\ reading = "start"
  /\ reading' \in {"lines", "parsed"}
  /\ UNCHANGED <<setting, custom_timeouts, table, lines>>

(* parse_line with a key and a value.  The table takes it in either case.  *)
parse_line(key, text) ==
  /\ reading = "lines" /\ Len(lines) < MaxLines
  /\ setting' = IF TakesText(key, text) THEN [setting EXCEPT ![key] = Converted(key, text)]
                ELSE setting
  /\ custom_timeouts' = (custom_timeouts \/ key \in TimeoutKeys)
  /\ table' = Kept(<<key, text>>)
  /\ lines' = Append(lines, <<key, text>>)
  /\ UNCHANGED reading

(* A key of 31 characters or a value of 127 that goes into the table, or a *)
(* file name of 255: strncpy, whose first loop has counted n below zero,   *)
(* clears all of the memory behind its destination.                        *)
ParseLong ==
  /\ reading = "lines"
  /\ reading' = "lost"
  /\ UNCHANGED <<setting, custom_timeouts, table, lines>>

(* The end of the file.  A last line without an end of line goes on with   *)
(* what the memory holds behind the file; a line here may have any value.  *)
EndFile ==
  /\ reading = "lines"
  /\ reading' = "parsed"
  /\ UNCHANGED <<setting, custom_timeouts, table, lines>>

(* config_apply_model_settings on a model up to 3, or on a 4, 400 or 5.  A *)
(* line that gives the built-in address is as if it were not there.  (The  *)
(* address of the initramfs is a second such variable, with keys of its    *)
(* own.)                                                                   *)
ApplyModel(newer) ==
  /\ reading = "parsed"
  /\ reading' = "applied"
  /\ setting' = [setting EXCEPT ![LoadKey] =
       IF setting[OverrideKey] # Builtin[OverrideKey] THEN setting[OverrideKey]
       ELSE IF newer /\ @ = Builtin[LoadKey] THEN HighAddress ELSE @]
  /\ UNCHANGED <<custom_timeouts, table, lines>>

Rest == reading \in {"applied", "lost"} /\ UNCHANGED fileVars

FileNext ==
  \/ FindFile
  \/ \E line \in FileLines : parse_line(line[1], line[2])
  \/ ParseLong \/ EndFile
  \/ \E newer \in BOOLEAN : ApplyModel(newer)
  \/ Rest

FileSpec == FileInit /\ [][FileNext]_fileVars

-----------------------------------------------------------------------------
(* config_get: the first entry of the key.                                 *)
EntriesOf(key) == {i \in 1 .. Len(table) : table[i][1] = key}
config_get(key) == table[Min(EntriesOf(key))][2]

(* The values that a variable may have.                                    *)
ValuesOf(key) ==
  {Builtin[key]} \cup {Converted(key, text) : text \in Texts}
    \cup IF key = LoadKey THEN {HighAddress} ELSE {}

FileTypeOK ==
  /\ reading \in {"start", "lines", "parsed", "applied", "lost"}
  /\ DOMAIN setting = VariableKeys
  /\ \A key \in VariableKeys : setting[key] \in ValuesOf(key)
  /\ custom_timeouts \in BOOLEAN
  /\ table \in Seq(FileLines) /\ Len(table) <= TableSize
  /\ lines \in Seq(FileLines)

(* What a file of lines means, whatever their order and number.  Readers   *)
(* of the table get the first line of a key, valid or not, if it is among  *)
(* the first TableSize of the file; the variable has the conversion of the *)
(* last valid one, wherever that is, and the built-in value if there is    *)
(* none; and the time limits are marked as the user's when the file has a  *)
(* line for one of them.  The two agree for a key with one valid line.     *)
LinesOf(key) == {i \in 1 .. Len(lines) : lines[i][1] = key}
ValidLinesOf(key) == {i \in LinesOf(key) : TakesText(key, lines[i][2])}

FirstAndLastLine ==
  reading # "lost" =>
    /\ \A key \in Keys : \A i \in LinesOf(key) :
         i <= TableSize /\ (\A j \in LinesOf(key) : i <= j) => config_get(key) = lines[i][2]
    /\ reading # "applied" => \A key \in VariableKeys :
         /\ ValidLinesOf(key) = {} => setting[key] = Builtin[key]
         /\ \A i \in ValidLinesOf(key) :
              (\A j \in ValidLinesOf(key) : j <= i) => setting[key] = Converted(key, lines[i][2])
    /\ custom_timeouts <=> \E key \in TimeoutKeys : LinesOf(key) # {}
=============================================================================

------------------------------- MODULE SdCard -------------------------------
(***************************************************************************)
(* The SD driver of the bootloader that the Makefile builds,               *)
(* src/src/sd.c: commands with their polling loops, sd_init and            *)
(* sd_read_sector.                                                         *)
(*                                                                         *)
(* The controller and the card are the environment.  For every command     *)
(* they decide at which look the command line is free, whether the card    *)
(* reacts, and at which poll its answer or an error shows, if it does.     *)
(* The counts of the loops are those of the code, down to the wrap-around  *)
(* of timeout-- at zero.                                                   *)
(***************************************************************************)
EXTENDS Integers

CONSTANTS
  ReadyPolls,    \* polls of sd_wait_ready: 1000
  AnswerPolls,   \* polls of sd_send_command and sd_read_sector: 10000
  InitTries,     \* tries of ACMD41 in sd_init: 100
  WordModulus,   \* 2^32: the counters are uint32_t
  HighAddress    \* is bit 31 set in the address that the card publishes?

ASSUME PollAssumption ==
  /\ {ReadyPolls, AnswerPolls, InitTries, WordModulus} \subseteq Nat \ {0, 1}
  /\ ReadyPolls < WordModulus /\ AnswerPolls < WordModulus /\ InitTries < WordModulus
  /\ HighAddress \in BOOLEAN

VARIABLES
  initialized,  \* sd_initialized
  rca,          \* sd_rca: "zero", the card's "address", or "junk"
  resp0,        \* EMMC_RESP0: "status", "busy", "ready" or "address"
  step,         \* "idle", or the command that sd_init sends next
  tries,        \* timeout of the ACMD41 loop
  result,       \* what the last sd_init returned: "none", "ok" or "failed"
  card,         \* the card: the address it goes by, has it left the power-up
                \* state, and is it selected?
  trouble       \* ghost: what has befallen the running or last sd_init

sdVars == <<initialized, rca, resp0, step, tries, result, card, trouble>>

-----------------------------------------------------------------------------
(* timeout after `while (busy && timeout--);` with the line free at look k *)
(* and after `while (timeout--) ...` left by a break in round k.  Larger k *)
(* stand for never: timeout-- at zero wraps around.                        *)
TimeoutAfterWait(n, k) == IF k <= n + 1 THEN n + 1 - k ELSE WordModulus - 1
TimeoutAfterRounds(n, k) == IF k <= n THEN n - k ELSE WordModulus - 1

(* What may become of a command or a transfer: the line is free at the     *)
(* first look, at the last one or never; done or an error shows at the     *)
(* first poll or at the last one, or the card reacts after the last poll,  *)
(* or never.                                                               *)
Exchanges ==
  LET outcomes == [kind: {"done", "error"}, at: {1, AnswerPolls}]
                    \cup [kind: {"late", "never"}, at: {AnswerPolls + 1}]
  IN [line: {1, ReadyPolls + 1, ReadyPolls + 2}, outcome: outcomes]

(* sd_wait_ready returns 0 and the command is written.                     *)
Sent(x) == TimeoutAfterWait(ReadyPolls, x.line) > 0

(* Mutant of PollOk: the error bits are not looked at.                     *)
MutPollIgnoresErrors(outcome) == TimeoutAfterRounds(AnswerPolls, outcome.at) # 0

PollOk(outcome) ==
  /\ outcome.kind # "error"
  /\ TimeoutAfterRounds(AnswerPolls, outcome.at) # 0

(* sd_send_command returns 0.                                              *)
CommandOk(x) == Sent(x) /\ PollOk(x.outcome)

(* The card acts on the command, at once or after the last poll.           *)
Prompt(x) == Sent(x) /\ x.outcome.kind = "done"
Reacts(x) == Sent(x) /\ x.outcome.kind \in {"done", "late"}

(* A command that the card must ignore in its state gets no response.      *)
Obeys(legal, x) == ~legal => x.outcome.kind \in {"error", "never"}

(* What a command adds to the trouble: errors that the card owed count.    *)
Trouble(legal, x) ==
  (IF legal /\ Sent(x) /\ x.outcome.kind = "error" THEN {"error"} ELSE {})
    \cup (IF Sent(x) /\ x.outcome.kind \in {"late", "never"} THEN {"silent"} ELSE {})
    \cup (IF x.line > 1 \/ x.outcome.at = AnswerPolls THEN {"last"} ELSE {})

-----------------------------------------------------------------------------
NewCard == [address |-> "zero", ready |-> FALSE, selected |-> FALSE]

SdInit ==
  /\ initialized = FALSE /\ rca = "zero" /\ resp0 = "status"
  /\ step = "idle" /\ tries = 0 /\ result = "none"
  /\ card = NewCard /\ trouble = {}

(* A call of sd_init: reset of the controller, and its clock.              *)
Begin ==
  /\ step = "idle"
  /\ step' = "cmd0" /\ result' = "none"
  /\ trouble' = IF rca # "zero" THEN {"stale"} ELSE {}
  /\ UNCHANGED <<initialized, rca, resp0, tries, card>>

Continue(next) == step' = next /\ UNCHANGED result
Fail == step' = "idle" /\ result' = "failed"

(* GO_IDLE, which has no response: the card forgets its address.           *)
Cmd0(x) ==
  /\ step = "cmd0"
  /\ card' = IF Reacts(x) THEN NewCard ELSE card
  /\ IF CommandOk(x) THEN Continue("cmd8") ELSE Fail
  /\ trouble' = trouble \cup Trouble(TRUE, x)
  /\ UNCHANGED <<initialized, rca, resp0, tries>>

(* Mutant of Cmd8: its failure ends sd_init like that of the others.       *)
MutCmd8Required(x) ==
  /\ step = "cmd8"
  /\ resp0' = IF Reacts(x) THEN "status" ELSE resp0
  /\ IF CommandOk(x) THEN Continue("acmd41") ELSE Fail
  /\ tries' = InitTries /\ trouble' = trouble \cup Trouble(FALSE, x)
  /\ UNCHANGED <<initialized, rca, card>>

(* SEND_IF_COND, which an old card does not know: a failure is ignored.    *)
Cmd8(x) ==
  /\ step = "cmd8"
  /\ resp0' = IF Reacts(x) THEN "status" ELSE resp0
  /\ Continue("acmd41") /\ tries' = InitTries
  /\ trouble' = trouble \cup Trouble(FALSE, x)
  /\ UNCHANGED <<initialized, rca, card>>

NextTry == tries' = tries - 1

(* One round of the ACMD41 loop: APP_CMD, which has no response and which  *)
(* the card heeds under its address only, and SD_SEND_OP_COND.  The code   *)
(* reads what EMMC_RESP0 holds when the polling ends.                      *)
Acmd41(x, y, up) ==
  LET heeded == Reacts(x) /\ rca = card.address
      answer == IF up \/ card.ready THEN "ready" ELSE "busy"
      asked == CommandOk(x) /\ Reacts(y)
      read == IF asked /\ Prompt(y) THEN answer ELSE resp0
      leave == /\ CommandOk(x) /\ CommandOk(y)
               /\ read = "ready" \/ (read = "address" /\ HighAddress)
  IN /\ step = "acmd41" /\ tries > 0
     /\ Obeys(heeded, y)
     /\ resp0' = IF asked THEN answer ELSE resp0
     /\ card' = IF asked /\ up THEN [card EXCEPT !.ready = TRUE] ELSE card
     /\ NextTry
     /\ IF ~leave THEN Continue("acmd41") ELSE IF tries' = 0 THEN Fail ELSE Continue("cmd2")
     /\ trouble' = trouble \cup Trouble(TRUE, x)
                     \cup (IF CommandOk(x) THEN Trouble(heeded, y) ELSE {})
                     \cup (IF leave /\ tries' = 0 THEN {"last"} ELSE {})
     /\ UNCHANGED <<initialized, rca>>

(* The loop ends without a break: timeout-- at zero leaves a timeout that  *)
(* is not zero, and sd_init goes on.                                       *)
Acmd41GivesUp ==
  /\ step = "acmd41" /\ tries = 0
  /\ tries' = WordModulus - 1
  /\ IF tries' = 0 THEN Fail ELSE Continue("cmd2")
  /\ trouble' = trouble \cup {"slow"}
  /\ UNCHANGED <<initialized, rca, resp0, card>>

(* ALL_SEND_CID, sent as a command without a response.                     *)
Cmd2(x) ==
  /\ step = "cmd2"
  /\ IF CommandOk(x) THEN Continue("cmd3") ELSE Fail
  /\ trouble' = trouble \cup Trouble(TRUE, x)
  /\ UNCHANGED <<initialized, rca, resp0, tries, card>>

(* SEND_RELATIVE_ADDR: the card publishes an address, and the code takes   *)
(* what EMMC_RESP0 holds when the polling ends.                            *)
Cmd3(x) ==
  LET read == IF Prompt(x) THEN "address" ELSE resp0
  IN /\ step = "cmd3"
     /\ Obeys(card.ready, x)
     /\ resp0' = IF Reacts(x) THEN "address" ELSE resp0
     /\ card' = IF Reacts(x) THEN [card EXCEPT !.address = "address"] ELSE card
     /\ IF CommandOk(x)
        THEN rca' = (IF read = "address" THEN read ELSE "junk") /\ Continue("cmd7")
        ELSE Fail /\ UNCHANGED rca
     /\ trouble' = trouble \cup Trouble(card.ready, x)
     /\ UNCHANGED <<initialized, tries>>

(* SELECT_CARD, and the end of sd_init.                                    *)
Cmd7(x) ==
  LET addressed == card.address # "zero" /\ rca = card.address
  IN /\ step = "cmd7"
     /\ Obeys(addressed, x)
     /\ resp0' = IF Reacts(x) THEN "status" ELSE resp0
     /\ card' = IF Reacts(x) THEN [card EXCEPT !.selected = TRUE] ELSE card
     /\ IF CommandOk(x)
        THEN initialized' = TRUE /\ step' = "idle" /\ result' = "ok"
        ELSE Fail /\ UNCHANGED initialized
     /\ trouble' = trouble \cup Trouble(addressed, x)
     /\ UNCHANGED <<rca, tries>>

SdStep ==
  \/ \E x \in Exchanges : Cmd0(x) \/ Cmd8(x) \/ Cmd2(x) \/ Cmd3(x) \/ Cmd7(x)
  \/ \E x, y \in Exchanges, up \in BOOLEAN : Acmd41(x, y, up)
  \/ Acmd41GivesUp

SdNext == Begin \/ SdStep

(* sd_init runs on the only processor, and every loop it makes is counted. *)
SdSpec == SdInit /\ [][SdNext]_sdVars /\ WF_sdVars(SdStep)

-----------------------------------------------------------------------------
(* A call of sd_read_sector, for a transfer d after the command x: it      *)
(* fails, or the buffer holds the sector's "data", or whatever EMMC_DATA   *)
(* gave, "junk".                                                           *)
ReadOutcome(x, d) ==
  CASE ~(initialized /\ CommandOk(x) /\ PollOk(d)) -> "failed"
    [] Prompt(x) /\ card.selected /\ d.kind = "done" -> "data"
    [] OTHER -> "junk"

Transfers == {x.outcome : x \in Exchanges}

-----------------------------------------------------------------------------
(* Every variable keeps its type.                                          *)
TypeOK ==
  /\ initialized \in BOOLEAN
  /\ rca \in {"zero", "address", "junk"}
  /\ resp0 \in {"status", "busy", "ready", "address"}
  /\ step \in {"idle", "cmd0", "cmd8", "acmd41", "cmd2", "cmd3", "cmd7"}
  /\ tries \in 0..(WordModulus - 1)
  /\ step = "acmd41" => tries <= InitTries
  /\ result \in {"none", "ok", "failed"}
  /\ card \in [address: {"zero", "address"}, ready: BOOLEAN, selected: BOOLEAN]
  /\ trouble \subseteq {"error", "silent", "last", "slow", "stale"}

(* As long as no command went unanswered, a sd_init that returns 0 leaves  *)
(* a card that has powered up, goes by the address in sd_rca and is        *)
(* selected, although a failure of CMD8 and the end of the ACMD41 loop are *)
(* both passed over.                                                       *)
ReadyUnlessSilent ==
  result = "ok" /\ "silent" \notin trouble =>
    card = [address |-> rca, ready |-> TRUE, selected |-> TRUE] /\ rca = "address"

(* The first sd_init brings up every card that answers what it owes an     *)
(* answer, in time and within the tries, an old one that refuses CMD8      *)
(* included.                                                               *)
HealthyCardComesUp == result = "failed" => trouble # {}

(* sd_init always returns, whatever the card does.                         *)
InitReturns == step # "idle" ~> step = "idle"

(* sd_init detects whether a card is present and initializes it: it does   *)
(* not return 0 with a card that has never left the power-up state.        *)
InitDetectsCard == result = "ok" => card.ready

=============================================================================

------------------------------- MODULE Mailbox ------------------------------
(***************************************************************************)
(* The VideoCore mailbox driver, src/src/mailbox.c: one message buffer in  *)
(* memory, whose address a call writes to the mailbox and whose answer it  *)
(* waits for.  The firmware reads the buffer when it gets to the message   *)
(* and writes its answer into the same buffer.                             *)
(*                                                                         *)
(* The firmware is the environment: it works at its own pace, and answers  *)
(* every message it takes, some tags with an error.                        *)
(***************************************************************************)
EXTENDS Naturals

CONSTANTS
  Tags,       \* the properties asked for; a tag also stands for its value
  Refused,    \* those the firmware answers with an error
  MailDepth,  \* messages that fit into the mailbox
  NoTag       \* the zero that a request carries in place of a value

ASSUME MailAssumption == MailDepth \in Nat \ {0} /\ NoTag \notin Tags /\ Refused \subseteq Tags

VARIABLES
  mailbox_buffer,  \* tag, code and value
  inbox,      \* messages on their way to the firmware, all the same address
  firmware,   \* the tag it works on, or NoTag
  outbox,     \* answers waiting in the mailbox
  call,       \* the next step of mailbox_call, "idle" outside of it
  tag,        \* its argument
  returned,   \* "none", "failed", or "ok"
  response,   \* the local of the getter, which is what it returns
  mishaps     \* ghost: of the running or last call, "full" or "refused"; of
              \* any call so far, "late"

mailVars == <<mailbox_buffer, inbox, firmware, outbox, call, tag, returned, response, mishaps>>
firmwareSide == <<inbox, firmware, outbox>>
callSide == <<call, tag, returned, response>>

MailInit ==
  /\ mailbox_buffer = [tag |-> NoTag, code |-> "request", value |-> NoTag]
  /\ inbox = 0 /\ firmware = NoTag /\ outbox = 0
  /\ call = "idle" /\ tag = NoTag /\ returned = "none" /\ response = NoTag
  /\ mishaps = {}

-----------------------------------------------------------------------------
(* One of the getters calls mailbox_call with its tag, and the request     *)
(* replaces what the buffer held.                                          *)
MailPrepare(t) ==
  /\ call = "idle"
  /\ mailbox_buffer' = [tag |-> t, code |-> "request", value |-> NoTag]
  /\ call' = "send" /\ tag' = t /\ returned' = "none" /\ response' = NoTag
  /\ mishaps' = mishaps \cap {"late"}
  /\ UNCHANGED firmwareSide

MailSend ==
  /\ call = "send" /\ inbox < MailDepth
  /\ inbox' = inbox + 1
  /\ call' = "await"
  /\ UNCHANGED <<mailbox_buffer, firmware, outbox, tag, returned, response, mishaps>>

MailFails(why) ==
  /\ call' = "idle" /\ returned' = "failed"
  /\ mishaps' = mishaps \cup why
  /\ UNCHANGED <<mailbox_buffer, firmwareSide, tag, response>>

(* A wait ends without success after 1000 looks; a mailbox that is ready   *)
(* at the look after them is not taken.                                    *)
MailFull == call = "send" /\ MailFails({"full"})
MailTimeout == call = "await" /\ MailFails({"late"})

MailReceive ==
  /\ call = "await" /\ outbox > 0
  /\ outbox' = outbox - 1
  /\ call' = "check"
  /\ UNCHANGED <<mailbox_buffer, inbox, firmware, tag, returned, response, mishaps>>

(* Mutant of Accepted: the response code is not looked at.                 *)
MutAnyAnswer == TRUE

Accepted == mailbox_buffer.code = "success"

(* The end of mailbox_call: the answer's contents were not compared with   *)
(* the request.                                                            *)
MailCheck ==
  /\ call = "check"
  /\ call' = "idle"
  /\ returned' = IF Accepted THEN "ok" ELSE "failed"
  /\ response' = IF Accepted THEN mailbox_buffer.value ELSE response
  /\ UNCHANGED <<mailbox_buffer, firmwareSide, tag, mishaps>>

-----------------------------------------------------------------------------
(* The firmware takes a message and reads the buffer as it is by then.     *)
FirmwareTakes ==
  /\ inbox > 0 /\ firmware = NoTag /\ outbox < MailDepth
  /\ inbox' = inbox - 1
  /\ firmware' = mailbox_buffer.tag
  /\ UNCHANGED <<mailbox_buffer, outbox, callSide, mishaps>>

(* It answers the tag that it read.                                        *)
FirmwareAnswers ==
  /\ firmware # NoTag
  /\ IF firmware \in Refused
     THEN /\ mailbox_buffer' = [mailbox_buffer EXCEPT !.code = "error"]
          /\ mishaps' = mishaps \cup {"refused"}
     ELSE /\ mailbox_buffer' = [mailbox_buffer EXCEPT !.code = "success", !.value = firmware]
          /\ UNCHANGED mishaps
  /\ firmware' = NoTag
  /\ outbox' = outbox + 1
  /\ UNCHANGED <<inbox, callSide>>

Firmware == FirmwareTakes \/ FirmwareAnswers

MailNext ==
  \/ \E t \in Tags : MailPrepare(t)
  \/ MailSend \/ MailFull
  \/ MailReceive \/ MailTimeout \/ MailCheck
  \/ Firmware

MailSpec == MailInit /\ [][MailNext]_mailVars

-----------------------------------------------------------------------------
(* A call that returns 0 returns the value of the tag it was asked for, as *)
(* long as no call has timed out; an answer that comes later belongs to no *)
(* call, and the next one takes it for its own.                            *)
AnswerMatches == returned = "ok" /\ "late" \notin mishaps => response = tag

(* A call fails only when something went wrong: the mailbox was full, the  *)
(* firmware refuses the tag, or some call has timed out.  After that       *)
(* every later call may fail, for the answers are one behind from then on. *)
HealthyCallSucceeds == returned = "failed" => mishaps # {}

(* Both: no call is answered wrongly or refused before one has timed out.  *)
MailSound == AnswerMatches /\ HealthyCallSucceeds
=============================================================================

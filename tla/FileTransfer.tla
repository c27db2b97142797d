---------------------------- MODULE FileTransfer ----------------------------
(* What network_tftp_download promises: the buffer holds a beginning of    *)
(* the file at all times, and a transfer is reported complete only with    *)
(* the whole file in the buffer, or with the buffer full.                  *)
EXTENDS Naturals, Sequences

VARIABLES file,    \* the blocks of the file that is served
          room,    \* the number of blocks after which the buffer is full
          copied,  \* the blocks in the buffer
          outcome  \* "running", "complete" or "failed"

TransferInit == copied = <<>> /\ outcome = "running"

Whole(blocks) == blocks = file \/ Len(blocks) = room

CopyBlock ==
  /\ outcome = "running" /\ Len(copied) < Len(file)
  /\ copied' = Append(copied, file[Len(copied) + 1])
  /\ outcome' = "running" \/ (outcome' = "complete" /\ Whole(copied'))
  /\ UNCHANGED <<file, room>>

Report ==
  /\ outcome = "running"
  /\ outcome' = "failed" \/ (outcome' = "complete" /\ Whole(copied))
  /\ UNCHANGED <<file, room, copied>>

(* The file and the buffer are given with the call, which may refuse them. *)
Ask ==
  /\ outcome = "running" /\ copied = <<>>
  /\ outcome' \in {"running", "failed"}
  /\ UNCHANGED copied

TransferNext == CopyBlock \/ Report \/ Ask
TransferSpec == TransferInit /\ [][TransferNext]_<<file, room, copied, outcome>>
=============================================================================

------------------------------ MODULE CardProofs ----------------------------
(***************************************************************************)
(* What the program reads from its SD card and keeps on it, for every      *)
(* value of the constants: the driver's sd_init, the loader of the         *)
(* bootloader that the Makefile builds, and the persistent configuration.  *)
(***************************************************************************)
EXTENDS MCCard, WellFoundedInduction, TLAPS

-----------------------------------------------------------------------------
(* The SD driver.                                                          *)
(*                                                                         *)
(* A call has no result until it returns.                                  *)
InCall == step # "idle" => result = "none"

(* Where a sd_init stands that nothing has befallen so far.                *)
Undisturbed ==
  trouble = {} =>
    /\ step \in {"cmd0", "cmd8", "acmd41"} => rca = "zero"
    /\ step \in {"cmd8", "acmd41"} => card.address = "zero"
    /\ step \in {"cmd2", "cmd3"} => card.ready
    /\ step = "cmd7" => rca = "address" /\ card.address = "address"

(* A card publishes an address only when it has powered up.                *)
PoweredUp == step = "cmd7" /\ "silent" \notin trouble => card.ready

SdInv == TypeOK /\ InCall /\ Undisturbed /\ PoweredUp /\ ReadyUnlessSilent /\ HealthyCardComesUp

(* What a command that succeeds or fails has met.                          *)
LEMMA CommandMeets ==
  ASSUME NEW x \in Exchanges, NEW legal \in BOOLEAN
  PROVE  /\ CommandOk(x) /\ "silent" \notin Trouble(legal, x) => Prompt(x)
         /\ ~CommandOk(x) => Trouble(TRUE, x) # {}
         /\ Prompt(x) => Reacts(x)
         /\ Trouble(legal, x) \subseteq {"error", "silent", "last"}
<1> DEFINE kinds == [kind: {"done", "error"}, at: {1, AnswerPolls}]
                      \cup [kind: {"late", "never"}, at: {AnswerPolls + 1}]
<1>1. /\ ReadyPolls \in Nat /\ ReadyPolls > 1 /\ AnswerPolls \in Nat /\ AnswerPolls > 1
      /\ WordModulus \in Nat /\ WordModulus > ReadyPolls /\ WordModulus > AnswerPolls
  BY PollAssumption
<1>2. x.line \in {1, ReadyPolls + 1, ReadyPolls + 2} /\ x.outcome \in kinds
  BY DEF Exchanges
<1>3. /\ x.outcome.kind \in {"done", "error", "late", "never"}
      /\ x.outcome.kind \in {"done", "error"} => x.outcome.at \in {1, AnswerPolls}
      /\ x.outcome.kind \in {"late", "never"} => x.outcome.at = AnswerPolls + 1
  BY <1>2
<1>4. x.line = 1 => Sent(x)
  BY <1>1 DEF Sent, TimeoutAfterWait
<1>5. x.line # 1 => x.line > 1
  BY <1>1, <1>2
<1>6. x.outcome.kind = "done" /\ x.outcome.at # AnswerPolls => PollOk(x.outcome)
  <2>1. x.outcome.kind = "done" /\ x.outcome.at # AnswerPolls => x.outcome.at = 1
    BY <1>3
  <2> QED
    BY <1>1, <2>1 DEF PollOk, TimeoutAfterRounds
<1>7. x.outcome.kind = "error" => ~PollOk(x.outcome)
  BY DEF PollOk
<1>8. CommandOk(x) /\ "silent" \notin Trouble(legal, x) => Prompt(x)
  BY <1>3, <1>7 DEF CommandOk, Trouble, Prompt
<1>9. ~CommandOk(x) => Trouble(TRUE, x) # {}
  BY <1>3, <1>4, <1>5, <1>6 DEF CommandOk, Trouble
<1>10. Prompt(x) => Reacts(x)
  BY DEF Prompt, Reacts
<1>11. Trouble(legal, x) \subseteq {"error", "silent", "last"}
  BY DEF Trouble
<1> QED
  BY <1>8, <1>9, <1>10, <1>11

LEMMA SdInvInit == SdInit => SdInv
<1> SUFFICES ASSUME SdInit PROVE SdInv
  OBVIOUS
<1>1. 0 \in 0 .. (WordModulus - 1)
  BY PollAssumption
<1> QED
  BY <1>1 DEF SdInit, SdInv, TypeOK, InCall, Undisturbed, PoweredUp, ReadyUnlessSilent,
              HealthyCardComesUp, NewCard

(* The commands, one lemma each: what they read of the card and of the     *)
(* register, and where sd_init goes on.                                    *)
LEMMA Cmd0Inv ==
  ASSUME SdInv, NEW x \in Exchanges, Cmd0(x)
  PROVE  SdInv'
<1>1. /\ CommandOk(x) /\ "silent" \notin Trouble(TRUE, x) => Prompt(x)
      /\ ~CommandOk(x) => Trouble(TRUE, x) # {}
      /\ Prompt(x) => Reacts(x)
      /\ Trouble(TRUE, x) \subseteq {"error", "silent", "last"}
  BY CommandMeets
<1>2. /\ step = "cmd0" /\ card' = IF Reacts(x) THEN NewCard ELSE card
      /\ CommandOk(x) => step' = "cmd8" /\ result' = result
      /\ ~CommandOk(x) => step' = "idle" /\ result' = "failed"
      /\ trouble' = trouble \cup Trouble(TRUE, x)
      /\ UNCHANGED <<initialized, rca, resp0, tries>>
  BY DEF Cmd0, Continue, Fail
<1> QED
  BY <1>1, <1>2 DEF SdInv, TypeOK, InCall, Undisturbed, PoweredUp, ReadyUnlessSilent,
                    HealthyCardComesUp, NewCard

LEMMA Cmd8Inv ==
  ASSUME SdInv, NEW x \in Exchanges, Cmd8(x)
  PROVE  SdInv'
<1>1. Trouble(FALSE, x) \subseteq {"error", "silent", "last"}
  BY CommandMeets
<1>2. /\ step = "cmd8" /\ resp0' = IF Reacts(x) THEN "status" ELSE resp0
      /\ step' = "acmd41" /\ result' = result /\ tries' = InitTries
      /\ trouble' = trouble \cup Trouble(FALSE, x)
      /\ UNCHANGED <<initialized, rca, card>>
  BY DEF Cmd8, Continue
<1>3. InitTries \in 0 .. (WordModulus - 1) /\ InitTries <= InitTries
  BY PollAssumption
<1>4. TypeOK'
  BY <1>1, <1>2, <1>3 DEF SdInv, TypeOK
<1> QED
  BY <1>1, <1>2, <1>4 DEF SdInv, InCall, Undisturbed, PoweredUp, ReadyUnlessSilent,
                          HealthyCardComesUp

LEMMA Acmd41Inv ==
  ASSUME SdInv, NEW x \in Exchanges, NEW y \in Exchanges, NEW up \in BOOLEAN, Acmd41(x, y, up)
  PROVE  SdInv'
<1> DEFINE heeded == Reacts(x) /\ rca = card.address
           answer == IF up \/ card.ready THEN "ready" ELSE "busy"
           asked == CommandOk(x) /\ Reacts(y)
           read == IF asked /\ Prompt(y) THEN answer ELSE resp0
           leave == /\ CommandOk(x) /\ CommandOk(y)
                    /\ read = "ready" \/ (read = "address" /\ HighAddress)
           met == Trouble(TRUE, x) \cup (IF CommandOk(x) THEN Trouble(heeded, y) ELSE {})
                    \cup (IF leave /\ tries' = 0 THEN {"last"} ELSE {})
<1>1. /\ step = "acmd41" /\ tries > 0 /\ Obeys(heeded, y)
      /\ resp0' = IF asked THEN answer ELSE resp0
      /\ card' = IF asked /\ up THEN [card EXCEPT !.ready = TRUE] ELSE card
      /\ tries' = tries - 1
      /\ ~leave => step' = "acmd41" /\ result' = result
      /\ leave /\ tries' = 0 => step' = "idle" /\ result' = "failed"
      /\ leave /\ tries' # 0 => step' = "cmd2" /\ result' = result
      /\ trouble' = trouble \cup met
      /\ UNCHANGED <<initialized, rca>>
  BY DEF Acmd41, NextTry, Continue, Fail
<1>2. /\ Trouble(TRUE, x) \subseteq {"error", "silent", "last"}
      /\ Trouble(heeded, y) \subseteq {"error", "silent", "last"}
      /\ CommandOk(x) /\ "silent" \notin Trouble(TRUE, x) => Prompt(x)
      /\ CommandOk(y) /\ "silent" \notin Trouble(heeded, y) => Prompt(y)
      /\ Prompt(x) => Reacts(x)
      /\ Prompt(y) => Reacts(y)
  <2>1. heeded \in BOOLEAN
    OBVIOUS
  <2> HIDE DEF heeded
  <2> QED
    BY <2>1, CommandMeets
<1>3. tries' \in 0 .. (WordModulus - 1) /\ tries' <= InitTries
  BY <1>1, PollAssumption DEF SdInv, TypeOK
<1>4. TypeOK'
  <2>1. met \subseteq {"error", "silent", "last"}
    BY <1>2
  <2> HIDE DEF met, leave, asked
  <2>2. card' \in [address: {"zero", "address"}, ready: BOOLEAN, selected: BOOLEAN]
    BY <1>1 DEF SdInv, TypeOK
  <2>3. resp0' \in {"status", "busy", "ready", "address"}
    BY <1>1 DEF SdInv, TypeOK
  <2> QED
    BY <1>1, <1>3, <2>1, <2>2, <2>3 DEF SdInv, TypeOK, InCall
<1>5. trouble' = {} /\ leave => card'.ready
  <2> SUFFICES ASSUME trouble' = {}, leave PROVE card'.ready
    OBVIOUS
  <2>1. Trouble(heeded, y) = {} /\ CommandOk(x) /\ CommandOk(y)
    BY <1>1
  <2>2. Prompt(y) /\ Reacts(y)
    BY <1>2, <2>1
  <2>3. read = answer /\ asked
    BY <2>1, <2>2
  <2>4. up \/ card.ready
    BY <2>3
  <2> HIDE DEF met, leave, read, answer
  <2> QED
    BY <1>1, <2>3, <2>4 DEF SdInv, TypeOK
<1>6. trouble' = {} /\ ~leave => rca = "zero" /\ card'.address = "zero"
  <2> HIDE DEF met, leave, asked
  <2> QED
    BY <1>1 DEF SdInv, Undisturbed, TypeOK
<1>7. leave /\ tries' = 0 => trouble' # {}
  BY <1>1
<1> HIDE DEF met, leave, asked, heeded, answer
<1> QED
  BY <1>1, <1>4, <1>5, <1>6, <1>7 DEF SdInv, InCall, Undisturbed, PoweredUp, ReadyUnlessSilent,
                                      HealthyCardComesUp

LEMMA Acmd41GivesUpInv ==
  ASSUME SdInv, Acmd41GivesUp
  PROVE  SdInv'
<1>1. WordModulus - 1 \in 0 .. (WordModulus - 1) /\ WordModulus - 1 # 0
  BY PollAssumption
<1>2. /\ step = "acmd41" /\ tries' = WordModulus - 1 /\ step' = "cmd2" /\ result' = result
      /\ trouble' = trouble \cup {"slow"}
      /\ UNCHANGED <<initialized, rca, resp0, card>>
  BY <1>1 DEF Acmd41GivesUp, Continue, Fail
<1>3. TypeOK'
  BY <1>1, <1>2 DEF SdInv, TypeOK
<1> QED
  BY <1>2, <1>3 DEF SdInv, InCall, Undisturbed, PoweredUp, ReadyUnlessSilent, HealthyCardComesUp

LEMMA Cmd2Inv ==
  ASSUME SdInv, NEW x \in Exchanges, Cmd2(x)
  PROVE  SdInv'
<1>1. /\ ~CommandOk(x) => Trouble(TRUE, x) # {}
      /\ Trouble(TRUE, x) \subseteq {"error", "silent", "last"}
  BY CommandMeets
<1>2. /\ step = "cmd2"
      /\ CommandOk(x) => step' = "cmd3" /\ result' = result
      /\ ~CommandOk(x) => step' = "idle" /\ result' = "failed"
      /\ trouble' = trouble \cup Trouble(TRUE, x)
      /\ UNCHANGED <<initialized, rca, resp0, tries, card>>
  BY DEF Cmd2, Continue, Fail
<1>3. TypeOK'
  BY <1>1, <1>2 DEF SdInv, TypeOK
<1>4. InCall' /\ PoweredUp' /\ ReadyUnlessSilent'
  BY <1>2 DEF SdInv, InCall, PoweredUp, ReadyUnlessSilent
<1>5. Undisturbed' /\ HealthyCardComesUp'
  BY <1>1, <1>2 DEF SdInv, Undisturbed, HealthyCardComesUp
<1> QED
  BY <1>3, <1>4, <1>5 DEF SdInv

LEMMA Cmd3Inv ==
  ASSUME SdInv, NEW x \in Exchanges, Cmd3(x)
  PROVE  SdInv'
<1>1. card.ready \in BOOLEAN
  BY DEF SdInv, TypeOK
<1>2. /\ CommandOk(x) /\ "silent" \notin Trouble(card.ready, x) => Prompt(x)
      /\ ~CommandOk(x) => Trouble(TRUE, x) # {}
      /\ Prompt(x) => Reacts(x) /\ x.outcome.kind = "done"
      /\ Trouble(card.ready, x) \subseteq {"error", "silent", "last"}
  BY <1>1, CommandMeets DEF Prompt
<1>3. /\ step = "cmd3" /\ Obeys(card.ready, x)
      /\ resp0' = IF Reacts(x) THEN "address" ELSE resp0
      /\ card' = IF Reacts(x) THEN [card EXCEPT !.address = "address"] ELSE card
      /\ CommandOk(x) => /\ step' = "cmd7" /\ result' = result /\ rca' \in {"address", "junk"}
                         /\ Prompt(x) => rca' = "address"
      /\ ~CommandOk(x) => step' = "idle" /\ result' = "failed" /\ rca' = rca
      /\ trouble' = trouble \cup Trouble(card.ready, x)
      /\ UNCHANGED <<initialized, tries>>
  BY DEF Cmd3, Continue, Fail
<1>4. TypeOK'
  BY <1>2, <1>3 DEF SdInv, TypeOK
<1>5. Prompt(x) => card.ready
  BY <1>2, <1>3 DEF Obeys
<1>6. card'.ready = card.ready /\ (Reacts(x) => card'.address = "address")
  BY <1>3 DEF SdInv, TypeOK
<1>7. trouble' = {} /\ ~CommandOk(x) => FALSE
  <2> SUFFICES ASSUME trouble' = {}, ~CommandOk(x) PROVE FALSE
    OBVIOUS
  <2>1. card.ready = TRUE
    BY <1>1, <1>3 DEF SdInv, Undisturbed
  <2> QED
    BY <1>2, <1>3, <2>1
<1> QED
  BY <1>2, <1>3, <1>4, <1>5, <1>6, <1>7 DEF SdInv, InCall, Undisturbed, PoweredUp,
     ReadyUnlessSilent, HealthyCardComesUp

LEMMA Cmd7Inv ==
  ASSUME SdInv, NEW x \in Exchanges, Cmd7(x)
  PROVE  SdInv'
<1> DEFINE addressed == card.address # "zero" /\ rca = card.address
<1>1. /\ CommandOk(x) /\ "silent" \notin Trouble(addressed, x) => Prompt(x)
      /\ ~CommandOk(x) => Trouble(TRUE, x) # {}
      /\ Prompt(x) => Reacts(x) /\ x.outcome.kind = "done"
      /\ Trouble(addressed, x) \subseteq {"error", "silent", "last"}
  <2>1. addressed \in BOOLEAN
    OBVIOUS
  <2> HIDE DEF addressed
  <2> QED
    BY <2>1, CommandMeets DEF Prompt
<1>2. /\ step = "cmd7" /\ step' = "idle" /\ Obeys(addressed, x)
      /\ resp0' = IF Reacts(x) THEN "status" ELSE resp0
      /\ card' = IF Reacts(x) THEN [card EXCEPT !.selected = TRUE] ELSE card
      /\ CommandOk(x) => initialized' = TRUE /\ result' = "ok"
      /\ ~CommandOk(x) => result' = "failed" /\ initialized' = initialized
      /\ trouble' = trouble \cup Trouble(addressed, x)
      /\ UNCHANGED <<rca, tries>>
  BY DEF Cmd7, Fail
<1>3. addressed <=> card.address = "address" /\ rca = "address"
  BY DEF SdInv, TypeOK
<1> HIDE DEF addressed
<1>4. TypeOK'
  BY <1>1, <1>2 DEF SdInv, TypeOK
<1>5. ReadyUnlessSilent'
  <2> SUFFICES ASSUME result' = "ok", "silent" \notin trouble'
               PROVE  card' = [address |-> rca', ready |-> TRUE, selected |-> TRUE]
                      /\ rca' = "address"
    BY DEF ReadyUnlessSilent
  <2>1. Prompt(x) /\ CommandOk(x) /\ "silent" \notin trouble
    BY <1>1, <1>2
  <2>2. addressed /\ card.ready
    BY <1>1, <1>2, <2>1 DEF Obeys, SdInv, PoweredUp
  <2>3. card' = [card EXCEPT !.selected = TRUE] /\ rca' = "address" /\ card.address = "address"
    BY <1>1, <1>2, <1>3, <2>1, <2>2
  <2> QED
    BY <2>2, <2>3 DEF SdInv, TypeOK
<1>6. HealthyCardComesUp'
  <2> SUFFICES ASSUME ~CommandOk(x), trouble' = {} PROVE FALSE
    BY <1>2 DEF HealthyCardComesUp
  <2>1. addressed = TRUE
    BY <1>2, <1>3 DEF SdInv, Undisturbed, addressed
  <2> QED
    BY <1>1, <1>2, <2>1
<1> QED
  BY <1>2, <1>4, <1>5, <1>6 DEF SdInv, InCall, Undisturbed, PoweredUp

LEMMA SdStepInv == SdInv /\ SdStep => SdInv'
BY Cmd0Inv, Cmd8Inv, Acmd41Inv, Acmd41GivesUpInv, Cmd2Inv, Cmd3Inv, Cmd7Inv DEF SdStep

LEMMA BeginInv == SdInv /\ Begin => SdInv'
<1> SUFFICES ASSUME SdInv, Begin PROVE SdInv'
  OBVIOUS
<1>1. /\ step = "idle" /\ step' = "cmd0" /\ result' = "none"
      /\ trouble' = IF rca # "zero" THEN {"stale"} ELSE {}
      /\ UNCHANGED <<initialized, rca, resp0, tries, card>>
  BY DEF Begin
<1> QED
  BY <1>1 DEF SdInv, TypeOK, InCall, Undisturbed, PoweredUp, ReadyUnlessSilent,
              HealthyCardComesUp

LEMMA SdInvSame == SdInv /\ UNCHANGED sdVars => SdInv'
BY DEF sdVars, SdInv, TypeOK, InCall, Undisturbed, PoweredUp, ReadyUnlessSilent,
       HealthyCardComesUp

LEMMA SdInvNext == SdInv /\ [SdNext]_sdVars => SdInv'
BY SdStepInv, BeginInv, SdInvSame DEF SdNext

(* The driver's variables keep their types, timeouts that wrap around      *)
(* included.                                                               *)
THEOREM SdTypeCorrect == SdSpec => []TypeOK
<1>1. SdInv => TypeOK
  BY DEF SdInv
<1> QED
  BY SdInvInit, SdInvNext, <1>1, PTL DEF SdSpec

(* Unless a command went unanswered, a sd_init that succeeds leaves a card *)
(* that is up, goes by the address in sd_rca and is selected: whatever     *)
(* failed and was passed over on the way, in this call or in earlier ones. *)
THEOREM CardIsReady == SdSpec => []ReadyUnlessSilent
<1>1. SdInv => ReadyUnlessSilent
  BY DEF SdInv
<1> QED
  BY SdInvInit, SdInvNext, <1>1, PTL DEF SdSpec

(* A sd_init that fails has met an error, a silence, a poll that came last *)
(* or a card that would not power up; or an address from an earlier call.  *)
THEOREM NoHealthyCardFails == SdSpec => []HealthyCardComesUp
<1>1. SdInv => HealthyCardComesUp
  BY DEF SdInv
<1> QED
  BY SdInvInit, SdInvNext, <1>1, PTL DEF SdSpec

-----------------------------------------------------------------------------
(* The loader: the blocks of the heap it holds.                            *)
HeldInv ==
  /\ phase \in {"loader", "sd", "mount"} => volume = "none" /\ held = 0
  /\ phase = "open" => volume # "none" /\ held = 1
  /\ phase \in {"dir", "data"} => volume # "none" /\ held = 2
  /\ phase \in {"test", "idle"} => held = IF volume = "none" THEN 0 ELSE 1
  /\ held \in 0 .. 2

LEMMA HeldInvInit == BootInit => HeldInv
BY DiskAssumption DEF BootInit, HeldInv

(* What the steps do with the heap, phase by phase.                        *)
LEMMA HeldInvNext == HeldInv /\ [BootNext]_allVars => HeldInv'
<1> SUFFICES ASSUME HeldInv, [BootNext]_allVars PROVE HeldInv'
  OBVIOUS
<1>1. CASE CallSdInit \/ SdInitRuns \/ Idle \/ UNCHANGED allVars
  <2>1. UNCHANGED <<phase, volume, held>>
    BY <1>1 DEF CallSdInit, SdInitRuns, Idle, allVars, bootVars
  <2> QED
    BY <2>1 DEF HeldInv
<1>2. CASE CardInitialized
  BY <1>2 DEF CardInitialized, HeldInv
<1>3. ASSUME NEW outcome \in ReadOutcomes, NEW bytes, Mount(outcome, bytes)
      PROVE  HeldInv'
  BY <1>3 DEF Mount, Leave, HeldInv
<1>4. CASE Open
  BY <1>4 DEF Open, Leave, HeldInv
<1>5. ASSUME NEW outcome \in ReadOutcomes, NEW hit, NEW cluster, NEW bytes,
             Search(outcome, hit, cluster, bytes)
      PROVE  HeldInv'
  <2>1. /\ phase = "dir" /\ UNCHANGED volume
        /\ \/ phase' = "test" /\ held' = held - 1
           \/ phase' \in {"dir", "data"} /\ held' = held
    BY <1>5 DEF Search, Leave, ReleaseBuffer
  <2> QED
    BY <2>1 DEF HeldInv
<1>6. CASE SearchEnds
  BY <1>6 DEF SearchEnds, Leave, ReleaseBuffer, HeldInv
<1>7. ASSUME NEW outcome \in ReadOutcomes, CopySector(outcome)
      PROVE  HeldInv'
  <2>1. /\ phase = "data" /\ UNCHANGED volume
        /\ \/ phase' = "test" /\ held' = held - 1
           \/ phase' = "data" /\ held' = held
    BY <1>7 DEF CopySector, Leave, ReleaseBuffer
  <2> QED
    BY <2>1 DEF HeldInv
<1>8. CASE CopyEnds
  BY <1>8 DEF CopyEnds, Leave, ReleaseBuffer, HeldInv
<1>9. CASE TryHeap
  BY <1>9 DEF TryHeap, HeldInv
<1> QED
  BY <1>1, <1>2, <1>3, <1>4, <1>5, <1>6, <1>7, <1>8, <1>9 DEF BootNext, MainStep

(* Whichever read or malloc fails, the FAT code gives back what it took,   *)
(* but for the boot sector of a mounted volume.                            *)
THEOREM HeapIsBalanced == BootSpec => []HeapBalanced
<1>1. HeldInv => HeapBalanced
  BY DEF HeldInv, HeapBalanced
<1> QED
  BY HeldInvInit, HeldInvNext, <1>1, PTL DEF BootSpec

-----------------------------------------------------------------------------
(* The loader: what it finds.                                              *)
EntryKinds == {"other", "deleted", "kernel", "end"}

LEMMA SmallestNumber ==
  ASSUME NEW S, S \subseteq Nat, S # {}
  PROVE  \E x \in S : \A y \in S : x <= y
<1>1. PICK x \in S : \A y \in S : ~(<<y, x>> \in OpToRel(<, Nat))
  <2>1. \E x \in S : \A y \in S : ~(<<y, x>> \in OpToRel(<, Nat))
    BY NatLessThanWellFounded, WFMin
  <2> QED
    BY <2>1
<1>2. ASSUME NEW y \in S, y < x
      PROVE  FALSE
  <2>1. <<y, x>> \in Nat \X Nat /\ <<y, x>>[1] = y /\ <<y, x>>[2] = x
    OBVIOUS
  <2>2. <<y, x>> \in OpToRel(<, Nat)
    BY <1>2, <2>1, Zenon DEF OpToRel
  <2> QED
    BY <1>1, <2>2
<1> QED
  BY <1>2

(* The search stops at the first entry that ends it.                       *)
LEMMA HitIsFirst ==
  ASSUME NEW entries \in Seq(EntryKinds)
  PROVE  \/ /\ FirstHit(entries) = "next"
            /\ \A n \in DOMAIN entries : entries[n] \notin {"kernel", "end"}
         \/ \E n \in DOMAIN entries :
              /\ entries[n] \in {"kernel", "end"} /\ FirstHit(entries) = entries[n]
              /\ \A m \in DOMAIN entries : entries[m] \in {"kernel", "end"} => n <= m
<1> DEFINE hits == {n \in DOMAIN entries : entries[n] \in {"kernel", "end"}}
           first == CHOOSE n \in hits : \A m \in hits : n <= m
<1>1. FirstHit(entries) = IF hits = {} THEN "next" ELSE entries[first]
  BY Zenon DEF FirstHit
<1>2. hits \subseteq Nat
  OBVIOUS
<1>3. CASE hits = {}
  BY <1>1, <1>3
<1>4. CASE hits # {}
  <2>1. first \in hits /\ \A m \in hits : first <= m
    <3> HIDE DEF hits
    <3>1. \E n \in hits : \A m \in hits : n <= m
      BY <1>2, <1>4, SmallestNumber
    <3> QED
      BY <3>1
  <2> HIDE DEF first
  <2> QED
    BY <1>1, <1>4, <2>1
<1> QED
  BY <1>3, <1>4

(* A search that ends without the file has not missed it.                  *)
LEMMA AbsentIfNotFound ==
  ASSUME RootInSight, NEW k \in Nat, k <= Len(Scanned),
         \A t \in 1 .. k : FirstHit(Scanned[t]) = "next",
         k = Len(Scanned) \/ FirstHit(Scanned[k + 1]) = "end"
  PROVE  \A n \in DOMAIN RootDirectory : RootDirectory[n] # "kernel"
<1> SUFFICES ASSUME NEW n \in DOMAIN RootDirectory, RootDirectory[n] = "kernel" PROVE FALSE
  OBVIOUS
<1>1. PICK s \in DOMAIN Scanned : \E e \in DOMAIN Scanned[s] :
        /\ Scanned[s][e] = "kernel"
        /\ \A d \in DOMAIN Scanned[s] : d < e => Scanned[s][d] # "end"
        /\ \A t \in 1 .. (s - 1) : \A d \in DOMAIN Scanned[t] : Scanned[t][d] # "end"
  BY DEF RootInSight
<1>2. PICK e \in DOMAIN Scanned[s] :
        /\ Scanned[s][e] = "kernel"
        /\ \A d \in DOMAIN Scanned[s] : d < e => Scanned[s][d] # "end"
        /\ \A t \in 1 .. (s - 1) : \A d \in DOMAIN Scanned[t] : Scanned[t][d] # "end"
  BY <1>1
<1>3. Scanned \in Seq(Seq(EntryKinds))
  BY DiskAssumption DEF EntryKinds
<1>4. /\ Len(Scanned) \in Nat /\ s \in 1 .. Len(Scanned) /\ k \in Nat
      /\ \A t \in 1 .. Len(Scanned) : Scanned[t] \in Seq(EntryKinds)
  <2>1. Len(Scanned) \in Nat /\ DOMAIN Scanned = 1 .. Len(Scanned)
    BY <1>3
  <2>2. s \in 1 .. Len(Scanned)
    BY <1>1, <2>1
  <2>3. \A t \in 1 .. Len(Scanned) : Scanned[t] \in Seq(EntryKinds)
    BY <1>3
  <2> QED
    BY <2>1, <2>2, <2>3
<1>5. CASE s <= k
  <2>1. FirstHit(Scanned[s]) = "next" /\ Scanned[s] \in Seq(EntryKinds)
    BY <1>4, <1>5
  <2> QED
    BY <1>2, <2>1, HitIsFirst
<1>6. CASE s = k + 1
  <2>1. FirstHit(Scanned[s]) = "end" /\ Scanned[s] \in Seq(EntryKinds)
    BY <1>4, <1>6
  <2>2. PICK d \in DOMAIN Scanned[s] :
          /\ FirstHit(Scanned[s]) = Scanned[s][d]
          /\ \A m \in DOMAIN Scanned[s] : Scanned[s][m] \in {"kernel", "end"} => d <= m
    BY <2>1, HitIsFirst
  <2>3. d <= e /\ d # e /\ d \in Nat /\ e \in Nat
    BY <1>2, <2>1, <2>2
  <2>4. d < e
    BY <2>3
  <2> QED
    BY <1>2, <2>1, <2>2, <2>4
<1>7. CASE s > k + 1
  <2>1. k + 1 \in 1 .. (s - 1) /\ k + 1 \in 1 .. Len(Scanned) /\ k # Len(Scanned)
    BY <1>4, <1>7
  <2>2. FirstHit(Scanned[k + 1]) = "end" /\ Scanned[k + 1] \in Seq(EntryKinds)
    BY <1>4, <2>1
  <2>3. PICK d \in DOMAIN Scanned[k + 1] : FirstHit(Scanned[k + 1]) = Scanned[k + 1][d]
    BY <2>2, HitIsFirst
  <2> QED
    BY <1>2, <2>1, <2>2, <2>3
<1> QED
  BY <1>4, <1>5, <1>6, <1>7

-----------------------------------------------------------------------------
(* The loader: what it copies.                                             *)
(*                                                                         *)
(* Facts about products and quotients that the provers are given whole.    *)
LEMMA QuotientIs ==
  ASSUME NEW a \in Nat, NEW b \in Nat, b > 0
  PROVE  a \div b \in Nat /\ a % b \in 0 .. (b - 1) /\ a = ((a \div b) * b) + (a % b)
OBVIOUS

LEMMA QuotientUnique ==
  ASSUME NEW a \in Nat, NEW b \in Nat, NEW q \in Nat, NEW r \in Nat,
         r < b, a = (q * b) + r
  PROVE  a \div b = q /\ a % b = r
OBVIOUS

LEMMA NextMultiple ==
  ASSUME NEW a \in Nat, NEW c \in Nat
  PROVE  a * c \in Nat /\ (a + 1) * c = (a * c) + c
OBVIOUS

LEMMA MultipleLess ==
  ASSUME NEW a \in Nat, NEW b \in Nat, NEW c \in Nat
  PROVE  /\ a * c < b * c => a < b
         /\ a < b => (a + 1) * c <= b * c
OBVIOUS

(* The i-th piece of the file.                                             *)
PieceOf(i) ==
  [at |-> [cluster |-> Chain[1] + ((i - 1) \div ClusterSectors),
           sector |-> (i - 1) % ClusterSectors],
   bytes |-> IF i * SectorBytes <= FileBytes THEN SectorBytes
             ELSE FileBytes - ((i - 1) * SectorBytes)]

(* The pieces m are the beginning of the file, and p and l go on there.    *)
Copied(m, p, l) ==
  /\ p = [cluster |-> Chain[1] + (Len(m) \div ClusterSectors), sector |-> Len(m) % ClusterSectors]
  /\ l = IF Len(m) * SectorBytes < FileBytes THEN FileBytes - (Len(m) * SectorBytes) ELSE 0
  /\ Len(m) * SectorBytes < FileBytes + SectorBytes
  /\ \A i \in 1 .. Len(m) : m[i] = PieceOf(i)

Sizes ==
  /\ FileBytes \in Nat /\ SectorBytes \in Nat /\ ClusterSectors \in Nat /\ EndOfChain \in Nat
  /\ FileBytes > 0 /\ SectorBytes > 0 /\ ClusterSectors > 0
  /\ Len(Chain) \in Nat /\ Len(Chain) > 0 /\ DOMAIN Chain = 1 .. Len(Chain)
  /\ \A j \in 1 .. Len(Chain) : Chain[j] \in 2 .. (EndOfChain - 1)

LEMMA SizesHold == Sizes
BY DiskAssumption DEF Sizes

(* A sector of the file is in a cluster of the chain.                      *)
LEMMA SectorInChain ==
  ASSUME RunOfClusters, NEW j \in Nat, j * SectorBytes < FileBytes
  PROVE  /\ (j \div ClusterSectors) + 1 \in 1 .. Len(Chain)
         /\ Chain[(j \div ClusterSectors) + 1] = Chain[1] + (j \div ClusterSectors)
         /\ Chain[1] + (j \div ClusterSectors) < EndOfChain
<1> DEFINE q == j \div ClusterSectors
           sectors == Len(Chain) * ClusterSectors
<1>1. Sizes
  BY SizesHold
<1>2. sectors \in Nat /\ FileBytes <= sectors * SectorBytes
  BY <1>1, NextMultiple, DiskAssumption DEF Sizes
<1>3. j < sectors
  <2>1. sectors * SectorBytes \in Nat /\ j * SectorBytes \in Nat
    BY <1>1, <1>2, NextMultiple DEF Sizes
  <2>2. j * SectorBytes < sectors * SectorBytes
    BY <1>1, <1>2, <2>1 DEF Sizes
  <2> HIDE DEF sectors
  <2> QED
    BY <1>1, <1>2, <2>2, MultipleLess DEF Sizes
<1>4. q \in Nat /\ q * ClusterSectors <= j
  <2>1. q \in Nat /\ j % ClusterSectors \in 0 .. (ClusterSectors - 1)
        /\ j = (q * ClusterSectors) + (j % ClusterSectors)
    BY <1>1, QuotientIs DEF Sizes
  <2>2. q * ClusterSectors \in Nat
    BY <1>1, <2>1, NextMultiple DEF Sizes
  <2> HIDE DEF q
  <2> QED
    BY <1>1, <2>1, <2>2 DEF Sizes
<1> HIDE DEF q
<1>5. q < Len(Chain)
  <2>1. q * ClusterSectors < Len(Chain) * ClusterSectors
    BY <1>1, <1>3, <1>4, NextMultiple DEF Sizes
  <2> QED
    BY <1>1, <1>4, <2>1, MultipleLess DEF Sizes
<1>6. q + 1 \in 1 .. Len(Chain)
  BY <1>1, <1>4, <1>5 DEF Sizes
<1>7. Chain[q + 1] = Chain[1] + q
  <2>1. Chain[1] \in Nat /\ Chain[q + 1] = Chain[1] + (q + 1) - 1
    BY <1>1, <1>6 DEF Sizes, RunOfClusters
  <2> QED
    BY <1>4, <2>1
<1>8. Chain[1] + q < EndOfChain
  BY <1>1, <1>6, <1>7 DEF Sizes
<1> QED
  BY <1>6, <1>7, <1>8 DEF q

Places == [cluster: Nat, sector: Nat]
Pieces == [at: Places, bytes: Nat]

LEMMA CopyBegins == Copied(<<>>, [cluster |-> Chain[1], sector |-> 0], FileBytes)
<1>1. Sizes
  BY SizesHold
<1>2. 0 \div ClusterSectors = 0 /\ 0 % ClusterSectors = 0
  <2>1. 0 = (0 * ClusterSectors) + 0 /\ 0 < ClusterSectors /\ ClusterSectors \in Nat
    BY <1>1 DEF Sizes
  <2> QED
    BY <2>1, QuotientUnique
<1>3. Len(<<>>) = 0 /\ 0 * SectorBytes = 0 /\ Chain[1] \in Nat
  BY <1>1 DEF Sizes
<1>4. \A i \in 1 .. 0 : FALSE
  OBVIOUS
<1> QED
  BY <1>1, <1>2, <1>3, <1>4 DEF Copied, Sizes

(* One sector more.                                                        *)
LEMMA CopyGoesOn ==
  ASSUME NEW m \in Seq(Pieces), Copied(m, place, left), left > 0
  PROVE  Copied(Append(m, [at |-> place, bytes |-> Piece(left)]), NextPlace, left - Piece(left))
<1> DEFINE k == Len(m)
           done == k * SectorBytes
           q == k \div ClusterSectors
           r == k % ClusterSectors
           piece == [at |-> place, bytes |-> Piece(left)]
           more == Append(m, piece)
<1>1. /\ FileBytes \in Nat /\ SectorBytes \in Nat /\ ClusterSectors \in Nat
      /\ SectorBytes > 0 /\ ClusterSectors > 0 /\ Chain[1] \in Nat /\ k \in Nat
  BY SizesHold DEF Sizes
<1>2. done \in Nat /\ (k + 1) * SectorBytes = done + SectorBytes
  BY <1>1, NextMultiple
<1>3. q \in Nat /\ r \in 0 .. (ClusterSectors - 1) /\ k = (q * ClusterSectors) + r
      /\ q * ClusterSectors \in Nat /\ (q + 1) * ClusterSectors = (q * ClusterSectors) + ClusterSectors
  BY <1>1, QuotientIs, NextMultiple
<1>4. /\ place = [cluster |-> Chain[1] + q, sector |-> r]
      /\ left = IF done < FileBytes THEN FileBytes - done ELSE 0
      /\ \A i \in 1 .. k : m[i] = PieceOf(i)
  BY DEF Copied
<1>5. /\ Len(more) = k + 1 /\ more[k + 1] = piece
      /\ \A i \in 1 .. k : more[i] = m[i]
  BY <1>1
<1>6. NextPlace = [cluster |-> Chain[1] + ((k + 1) \div ClusterSectors),
                   sector |-> (k + 1) % ClusterSectors]
  <2>1. CASE r + 1 < ClusterSectors
    <3>1. r + 1 \in Nat /\ k + 1 \in Nat /\ k + 1 = (q * ClusterSectors) + (r + 1)
      BY <1>1, <1>3
    <3>2. (k + 1) \div ClusterSectors = q /\ (k + 1) % ClusterSectors = r + 1
      <4> HIDE DEF k, q, r
      <4> QED
        BY <1>1, <1>3, <2>1, <3>1, QuotientUnique
    <3> HIDE DEF k, q, r
    <3> QED
      BY <1>4, <2>1, <3>2 DEF NextPlace
  <2>2. CASE ~(r + 1 < ClusterSectors)
    <3>1. k + 1 \in Nat /\ q + 1 \in Nat /\ k + 1 = ((q + 1) * ClusterSectors) + 0
      <4> HIDE DEF k, q, r
      <4> QED
        BY <1>1, <1>3, <2>2
    <3>2. (k + 1) \div ClusterSectors = q + 1 /\ (k + 1) % ClusterSectors = 0
      <4> HIDE DEF k, q, r
      <4> QED
        BY <1>1, <3>1, QuotientUnique
    <3> HIDE DEF k, q, r
    <3>3. Chain[1] + q + 1 = Chain[1] + (q + 1)
      BY <1>1, <1>3
    <3> QED
      BY <1>4, <2>2, <3>2, <3>3 DEF NextPlace
  <2> QED
    BY <2>1, <2>2
<1>7. piece = PieceOf(k + 1)
  <2>1. k + 1 - 1 = k
    BY <1>1
  <2>2. Piece(left) = IF (k + 1) * SectorBytes <= FileBytes THEN SectorBytes ELSE FileBytes - done
    <3> HIDE DEF done, k
    <3> QED
      BY <1>1, <1>2, <1>4 DEF Piece
  <2>3. PieceOf(k + 1) =
          [at |-> [cluster |-> Chain[1] + q, sector |-> r],
           bytes |-> IF (k + 1) * SectorBytes <= FileBytes THEN SectorBytes ELSE FileBytes - done]
    BY <2>1 DEF PieceOf
  <2> HIDE DEF done, k, q, r
  <2> QED
    BY <1>4, <2>2, <2>3
<1>8. left - Piece(left) = IF (k + 1) * SectorBytes < FileBytes
                           THEN FileBytes - ((k + 1) * SectorBytes) ELSE 0
  <2> HIDE DEF done, k
  <2> QED
    BY <1>1, <1>2, <1>4 DEF Piece
<1>9. (k + 1) * SectorBytes < FileBytes + SectorBytes
  <2> HIDE DEF done, k
  <2> QED
    BY <1>1, <1>2, <1>4
<1>10. \A i \in 1 .. (k + 1) : more[i] = PieceOf(i)
  <2>1. \A i \in 1 .. (k + 1) : i \in 1 .. k \/ i = k + 1
    BY <1>1
  <2> HIDE DEF k, more, piece
  <2> QED
    BY <1>4, <1>5, <1>7, <2>1
<1> HIDE DEF k, more
<1> QED
  BY <1>5, <1>6, <1>8, <1>9, <1>10 DEF Copied, more

(* When the copying ends, all of the file is there.                        *)
LEMMA CopyIsWhole ==
  ASSUME RunOfClusters, NEW m \in Seq(Pieces), Copied(m, place, left),
         left = 0 \/ place.cluster >= EndOfChain
  PROVE  m = FileContent
<1> DEFINE k == Len(m)
           done == k * SectorBytes
<1>1. /\ FileBytes \in Nat /\ SectorBytes \in Nat /\ ClusterSectors \in Nat /\ FileBytes > 0
      /\ SectorBytes > 0 /\ ClusterSectors > 0 /\ Chain[1] \in Nat /\ k \in Nat
      /\ EndOfChain \in Nat
  BY SizesHold DEF Sizes
<1>2. done \in Nat
  BY <1>1, NextMultiple
<1>3. /\ place = [cluster |-> Chain[1] + (k \div ClusterSectors), sector |-> k % ClusterSectors]
      /\ left = IF done < FileBytes THEN FileBytes - done ELSE 0
      /\ done < FileBytes + SectorBytes
      /\ \A i \in 1 .. k : m[i] = PieceOf(i)
  BY DEF Copied
<1>4. done >= FileBytes
  <2> SUFFICES ASSUME done < FileBytes PROVE FALSE
    BY <1>1, <1>2
  <2>1. Chain[1] + (k \div ClusterSectors) < EndOfChain /\ k \div ClusterSectors \in Nat
    BY <1>1, SectorInChain, QuotientIs
  <2>2. left # 0 /\ place.cluster = Chain[1] + (k \div ClusterSectors)
    <3> HIDE DEF done, k
    <3> QED
      BY <1>1, <1>2, <1>3
  <2> HIDE DEF k, done
  <2> QED
    BY <1>1, <2>1, <2>2
<1>5. (FileBytes + SectorBytes - 1) \div SectorBytes = k
  <2> DEFINE all == FileBytes + SectorBytes - 1
             rest == all - done
  <2>1. all \in Nat /\ rest \in Nat /\ rest < SectorBytes /\ all = done + rest
    <3> HIDE DEF done, k
    <3> QED
      BY <1>1, <1>2, <1>3, <1>4
  <2> HIDE DEF all, rest, k
  <2>2. all \div SectorBytes = k
    BY <1>1, <2>1, QuotientUnique
  <2> QED
    BY <2>2 DEF all
<1>6. ASSUME NEW i \in 1 .. k
      PROVE  PieceOf(i) =
               [at |-> [cluster |-> Chain[((i - 1) \div ClusterSectors) + 1],
                        sector |-> (i - 1) % ClusterSectors],
                bytes |-> IF i * SectorBytes <= FileBytes THEN SectorBytes
                          ELSE FileBytes % SectorBytes]
  <2> DEFINE j == i - 1
             before == j * SectorBytes
  <2>1. j \in Nat /\ i = j + 1 /\ j < k
    BY <1>1
  <2>2. /\ before \in Nat /\ i * SectorBytes = before + SectorBytes
        /\ before + SectorBytes <= done
    <3>1. before \in Nat /\ (j + 1) * SectorBytes = before + SectorBytes
      <4> HIDE DEF j, k
      <4> QED
        BY <1>1, <2>1, NextMultiple
    <3>2. (j + 1) * SectorBytes <= k * SectorBytes
      <4> HIDE DEF j, k
      <4> QED
        BY <1>1, <2>1, MultipleLess
    <3> HIDE DEF j, before, k
    <3> QED
      BY <2>1, <3>1, <3>2
  <2>3. before < FileBytes
    <3> HIDE DEF before, done, j, k
    <3> QED
      BY <1>1, <1>2, <1>3, <2>2
  <2>4. Chain[(j \div ClusterSectors) + 1] = Chain[1] + (j \div ClusterSectors)
    <3> HIDE DEF j
    <3> QED
      BY <2>1, <2>3, SectorInChain
  <2>5. ~(i * SectorBytes <= FileBytes) => FileBytes % SectorBytes = FileBytes - before
    <3> SUFFICES ASSUME ~(i * SectorBytes <= FileBytes)
                 PROVE  FileBytes % SectorBytes = FileBytes - before
      OBVIOUS
    <3>1. /\ FileBytes - before \in Nat /\ FileBytes - before < SectorBytes
          /\ FileBytes = before + (FileBytes - before)
      <4> HIDE DEF before
      <4> QED
        BY <1>1, <2>2, <2>3
    <3>2. /\ FileBytes \in Nat /\ SectorBytes \in Nat /\ j \in Nat
          /\ FileBytes = (j * SectorBytes) + (FileBytes - before)
      <4>1. before = j * SectorBytes
        OBVIOUS
      <4> HIDE DEF before, j
      <4> QED
        BY <1>1, <2>1, <3>1, <4>1
    <3> HIDE DEF j, before
    <3> QED
      BY <3>1, <3>2, QuotientUnique
  <2>6. PieceOf(i) =
          [at |-> [cluster |-> Chain[1] + (j \div ClusterSectors), sector |-> j % ClusterSectors],
           bytes |-> IF i * SectorBytes <= FileBytes THEN SectorBytes ELSE FileBytes - before]
    BY DEF PieceOf
  <2>7. PieceOf(i) =
          [at |-> [cluster |-> Chain[(j \div ClusterSectors) + 1], sector |-> j % ClusterSectors],
           bytes |-> IF i * SectorBytes <= FileBytes THEN SectorBytes ELSE FileBytes % SectorBytes]
    <3> HIDE DEF j, before
    <3> QED
      BY <2>4, <2>5, <2>6
  <2> QED
    BY <2>7 DEF j
<1>7. FileContent = [i \in 1 .. k |-> PieceOf(i)]
  <2> HIDE DEF k
  <2> QED
    BY <1>5, <1>6 DEF FileContent
<1>8. m = [i \in 1 .. k |-> m[i]]
  OBVIOUS
<1> HIDE DEF k
<1> QED
  BY <1>3, <1>7, <1>8

-----------------------------------------------------------------------------
(* The loader: its inductive invariant.                                    *)
LoaderTypes ==
  /\ looked \in Nat /\ looked <= Len(Scanned)
  /\ place \in Places /\ left \in Nat /\ memory \in Seq(Pieces)

(* Where the loader stands as long as every read that returned 0 has       *)
(* brought its sector.                                                     *)
OnTheWay ==
  /\ volume # "junk"
  /\ phase \in {"loader", "sd", "mount", "open", "dir"} => memory = <<>>
  /\ phase \in {"loader", "sd", "mount", "open", "dir", "data"} => status = "none"
  /\ phase \in {"open", "dir", "data"} => volume = "disk"
  /\ phase = "dir" => \A t \in 1 .. looked : FirstHit(Scanned[t]) = "next"
  /\ phase = "data" => Copied(memory, place, left)

LoadInv == LoaderTypes /\ (~muddled => OnTheWay) /\ LoadSound

LEMMA LoadInvInit == BootInit => LoadInv
<1> SUFFICES ASSUME BootInit PROVE LoadInv
  OBVIOUS
<1>1. LoaderTypes
  <2>1. Len(Scanned) \in Nat
    BY DiskAssumption
  <2> QED
    BY <2>1 DEF BootInit, LoaderTypes, Places
<1>2. phase \in {"sd", "loader"}
  BY DiskAssumption DEF BootInit
<1> QED
  BY <1>1, <1>2 DEF BootInit, LoadInv, OnTheWay, LoadSound, LoadedIsKernel,
     NotFoundIsAbsent

(* The steps around the reads, which copy nothing.                         *)
LEMMA LoadInvMount ==
  ASSUME LoadInv, CardInitialized \/ TryHeap \/ Open
                    \/ \E outcome \in ReadOutcomes, bytes \in {"room", "end", "wild"} :
                         Mount(outcome, bytes)
  PROVE  LoaderTypes' /\ (~muddled' => OnTheWay') /\ LoadSound'
<1>1. CASE CardInitialized
  BY <1>1 DEF CardInitialized, LoadInv, LoaderTypes, OnTheWay, LoadSound, LoadedIsKernel,
     NotFoundIsAbsent
<1>2. CASE TryHeap
  BY <1>2 DEF TryHeap, LoadInv, LoaderTypes, OnTheWay, LoadSound, LoadedIsKernel,
     NotFoundIsAbsent
<1>3. CASE Open
  <2>1. /\ phase = "open" /\ UNCHANGED <<volume, place, left, memory, muddled>>
        /\ \/ phase' \in {"crashed"} /\ UNCHANGED <<looked, status>>
           \/ phase' = "test" /\ status' = "read_failed" /\ looked' = looked
           \/ phase' = "dir" /\ looked' = 0 /\ UNCHANGED status
    BY <1>3 DEF Open, Leave
  <2>2. LoaderTypes'
    BY <2>1 DEF LoadInv, LoaderTypes
  <2>3. 1 .. 0 = {}
    OBVIOUS
  <2> QED
    BY <2>1, <2>2, <2>3 DEF LoadInv, OnTheWay, LoadSound, LoadedIsKernel, NotFoundIsAbsent
<1>4. ASSUME NEW outcome \in ReadOutcomes, NEW bytes \in {"room", "end", "wild"},
             Mount(outcome, bytes)
      PROVE  LoaderTypes' /\ (~muddled' => OnTheWay') /\ LoadSound'
  <2>1. outcome \in {"failed", "data", "junk"}
    BY DEF ReadOutcomes, ReadOutcome
  <2>2. /\ phase = "mount" /\ UNCHANGED <<looked, place, left, memory>>
        /\ \/ /\ phase' = "open" /\ UNCHANGED status
              /\ volume' = IF outcome = "data" THEN "disk" ELSE "junk"
              /\ muddled' = (muddled \/ outcome = "junk") /\ outcome # "failed"
           \/ phase' = "test" /\ status' = "no_fat" /\ UNCHANGED <<volume, muddled>>
    BY <1>4 DEF Mount, Leave
  <2>3. LoaderTypes'
    BY <2>2 DEF LoadInv, LoaderTypes
  <2> QED
    BY <2>1, <2>2, <2>3 DEF LoadInv, OnTheWay, LoadSound, LoadedIsKernel, NotFoundIsAbsent
<1> QED
  BY <1>1, <1>2, <1>3, <1>4

(* The search through the root directory.                                  *)
LEMMA LoadInvSearch ==
  ASSUME RootInSight, LoadInv, NEW outcome \in ReadOutcomes, NEW hit \in {"next", "kernel", "end"},
         NEW cluster \in {Chain[1], EndOfChain}, NEW bytes \in {0, FileBytes},
         Search(outcome, hit, cluster, bytes)
  PROVE  LoaderTypes' /\ (~muddled' => OnTheWay') /\ LoadSound'
<1>1. outcome \in {"failed", "data", "junk"} /\ looked \in Nat /\ Len(Scanned) \in Nat
      /\ cluster \in Nat /\ bytes \in Nat
  BY SizesHold, DiskAssumption DEF ReadOutcomes, ReadOutcome, LoadInv, LoaderTypes, Sizes
<1>2. /\ phase = "dir" /\ looked < Len(Scanned) /\ UNCHANGED <<volume, memory>>
      /\ outcome # "failed" => hit \in Hits(outcome)
      /\ outcome = "data" /\ volume = "disk" => cluster = Chain[1] /\ bytes = FileBytes
      /\ muddled' = (muddled \/ outcome = "junk")
  BY DEF Search
<1>3. \/ /\ outcome = "failed" /\ phase' = "test" /\ status' = "read_failed"
         /\ UNCHANGED <<looked, place, left>>
      \/ /\ outcome # "failed" /\ hit = "end" /\ phase' = "test" /\ status' = "not_found"
         /\ UNCHANGED <<looked, place, left>>
      \/ /\ outcome # "failed" /\ hit = "next" /\ looked' = looked + 1
         /\ UNCHANGED <<phase, status, place, left>>
      \/ /\ outcome # "failed" /\ hit = "kernel" /\ phase' = "data" /\ left' = bytes
         /\ place' = [cluster |-> cluster, sector |-> 0] /\ UNCHANGED <<looked, status>>
  BY DEF Search, Leave
<1>4. LoaderTypes'
  <2>1. [cluster |-> cluster, sector |-> 0] \in Places
    BY <1>1 DEF Places
  <2> QED
    BY <1>1, <1>2, <1>3, <2>1 DEF LoadInv, LoaderTypes
<1>5. ASSUME ~muddled'
      PROVE  OnTheWay' /\ LoadSound'
  <2>1. /\ ~muddled /\ outcome # "junk" /\ volume = "disk" /\ memory = <<>> /\ status = "none"
        /\ \A t \in 1 .. looked : FirstHit(Scanned[t]) = "next"
    BY <1>2, <1>5 DEF LoadInv, OnTheWay
  <2>2. outcome = "data" => hit = FirstHit(Scanned[looked + 1]) /\ cluster = Chain[1] /\ bytes = FileBytes
    BY <1>2, <2>1 DEF Hits
  <2>3. CASE outcome = "failed"
    BY <1>2, <1>3, <2>1, <2>3 DEF OnTheWay, LoadSound, LoadedIsKernel, NotFoundIsAbsent
  <2>4. CASE outcome = "data" /\ hit = "end"
    <3>1. \A n \in DOMAIN RootDirectory : RootDirectory[n] # "kernel"
      BY <1>1, <1>2, <2>1, <2>2, <2>4, AbsentIfNotFound
    <3> QED
      BY <1>2, <1>3, <2>1, <2>4, <3>1 DEF OnTheWay, LoadSound, LoadedIsKernel, NotFoundIsAbsent
  <2>5. CASE outcome = "data" /\ hit = "next"
    <3>1. \A t \in 1 .. (looked + 1) : t \in 1 .. looked \/ t = looked + 1
      BY <1>1
    <3>2. \A t \in 1 .. (looked + 1) : FirstHit(Scanned[t]) = "next"
      BY <2>1, <2>2, <2>5, <3>1
    <3> QED
      BY <1>2, <1>3, <2>1, <2>5, <3>2 DEF OnTheWay, LoadSound, LoadedIsKernel, NotFoundIsAbsent
  <2>6. CASE outcome = "data" /\ hit = "kernel"
    <3>1. Copied(<<>>, [cluster |-> Chain[1], sector |-> 0], FileBytes)
      BY CopyBegins
    <3>2. Copied(memory', place', left')
      BY <1>2, <1>3, <2>1, <2>2, <2>6, <3>1
    <3>3. phase' = "data" /\ status' = "none" /\ volume' = "disk"
      BY <1>2, <1>3, <2>1, <2>6
    <3> QED
      BY <3>2, <3>3 DEF OnTheWay, Copied, LoadSound, LoadedIsKernel, NotFoundIsAbsent
  <2> QED
    BY <1>1, <2>1, <2>3, <2>4, <2>5, <2>6
<1>6. muddled' => LoadSound'
  BY DEF LoadSound, LoadedIsKernel, NotFoundIsAbsent
<1> QED
  BY <1>4, <1>5, <1>6

LEMMA LoadInvSearchEnds ==
  ASSUME RootInSight, LoadInv, SearchEnds
  PROVE  LoaderTypes' /\ (~muddled' => OnTheWay') /\ LoadSound'
<1>1. /\ phase = "dir" /\ looked = Len(Scanned) /\ phase' = "test" /\ status' = "not_found"
      /\ UNCHANGED <<volume, looked, place, left, memory, muddled>>
  BY DEF SearchEnds, Leave
<1>2. LoaderTypes' /\ looked \in Nat /\ looked <= Len(Scanned)
  BY <1>1 DEF LoadInv, LoaderTypes
<1>3. ASSUME ~muddled
      PROVE  \A n \in DOMAIN RootDirectory : RootDirectory[n] # "kernel"
  <2>1. \A t \in 1 .. looked : FirstHit(Scanned[t]) = "next"
    BY <1>1, <1>3 DEF LoadInv, OnTheWay
  <2> QED
    BY <1>1, <1>2, <2>1, AbsentIfNotFound
<1> QED
  BY <1>1, <1>2, <1>3 DEF LoadInv, OnTheWay, LoadSound, LoadedIsKernel, NotFoundIsAbsent

(* The copying.                                                            *)
LEMMA LoadInvCopy ==
  ASSUME LoadInv, NEW outcome \in ReadOutcomes, CopySector(outcome)
  PROVE  LoaderTypes' /\ (~muddled' => OnTheWay') /\ LoadSound'
<1> DEFINE n == Piece(left)
           piece == [at |-> place, bytes |-> n]
<1>1. /\ place \in Places /\ left \in Nat /\ memory \in Seq(Pieces) /\ left > 0
      /\ outcome \in {"failed", "data", "junk"}
  BY DEF LoadInv, LoaderTypes, CopySector, ReadOutcomes, ReadOutcome
<1>2. /\ phase = "data" /\ UNCHANGED <<volume, looked>>
      /\ \/ /\ outcome = "failed" /\ phase' = "test" /\ status' = "read_failed"
            /\ UNCHANGED <<place, left, memory, muddled>>
         \/ /\ outcome # "failed" /\ memory' = Append(memory, piece) /\ left' = left - n
            /\ place' = NextPlace /\ muddled' = (muddled \/ outcome = "junk")
            /\ UNCHANGED <<phase, status>>
  BY DEF CopySector, Leave
<1>3. LoaderTypes'
  <2>1. SectorBytes \in Nat /\ n \in Nat /\ left - n \in Nat
    BY <1>1, SizesHold DEF Sizes, Piece
  <2>2. NextPlace \in Places
    BY <1>1 DEF NextPlace, Places
  <2>3. Append(memory, piece) \in Seq(Pieces)
    BY <1>1, <2>1 DEF Pieces
  <2> HIDE DEF n, piece
  <2> QED
    BY <1>2, <2>1, <2>2, <2>3 DEF LoadInv, LoaderTypes
<1>4. ASSUME ~muddled'
      PROVE  OnTheWay' /\ LoadSound'
  <2>1. ~muddled /\ volume = "disk" /\ status = "none" /\ Copied(memory, place, left)
    <3> HIDE DEF n, piece
    <3>1. ~muddled
      BY <1>2, <1>4
    <3> QED
      BY <1>2, <3>1 DEF LoadInv, OnTheWay
  <2>2. CASE outcome = "failed"
    BY <1>2, <2>1, <2>2 DEF OnTheWay, LoadSound, LoadedIsKernel, NotFoundIsAbsent
  <2>3. CASE outcome # "failed"
    <3>1. Copied(Append(memory, piece), NextPlace, left - n)
      BY <1>1, <2>1, CopyGoesOn
    <3> HIDE DEF piece, n
    <3>2. Copied(memory', place', left')
      BY <1>2, <2>3, <3>1
    <3>3. phase' = "data" /\ status' = "none" /\ volume' = "disk"
      BY <1>2, <2>1, <2>3
    <3> QED
      BY <3>2, <3>3 DEF OnTheWay, Copied, LoadSound, LoadedIsKernel, NotFoundIsAbsent
  <2> QED
    BY <2>2, <2>3
<1>5. muddled' => LoadSound'
  BY DEF LoadSound, LoadedIsKernel, NotFoundIsAbsent
<1> QED
  BY <1>3, <1>4, <1>5

LEMMA LoadInvCopyEnds ==
  ASSUME RunOfClusters, LoadInv, CopyEnds
  PROVE  LoaderTypes' /\ (~muddled' => OnTheWay') /\ LoadSound'
<1>1. /\ phase' = "test" /\ status' = "loaded"
      /\ UNCHANGED <<volume, looked, place, left, memory, muddled>>
  BY DEF CopyEnds, Leave
<1>2. phase = "data" /\ (left = 0 \/ place.cluster >= EndOfChain) /\ memory \in Seq(Pieces)
  BY DEF CopyEnds, LoadInv, LoaderTypes
<1>3. ~muddled => memory = FileContent
  <2>1. ~muddled => Copied(memory, place, left)
    BY <1>2 DEF LoadInv, OnTheWay
  <2> QED
    BY <1>2, <2>1, CopyIsWhole
<1> QED
  BY <1>1, <1>2, <1>3 DEF LoadInv, LoaderTypes, OnTheWay, LoadSound, LoadedIsKernel,
     NotFoundIsAbsent

LEMMA LoadInvNext ==
  ASSUME RunOfClusters, RootInSight
  PROVE  LoadInv /\ [BootNext]_allVars => LoadInv'
<1> SUFFICES ASSUME LoadInv, [BootNext]_allVars PROVE LoadInv'
  OBVIOUS
<1>1. LoaderTypes' /\ (~muddled' => OnTheWay') /\ LoadSound'
  <2>1. CASE CallSdInit \/ SdInitRuns \/ Idle \/ UNCHANGED allVars
    <3>1. UNCHANGED bootVars
      BY <2>1 DEF CallSdInit, SdInitRuns, Idle, allVars
    <3> QED
      BY <3>1 DEF bootVars, LoadInv, LoaderTypes, OnTheWay, Copied, LoadSound, LoadedIsKernel,
         NotFoundIsAbsent
  <2>2. CASE CardInitialized \/ TryHeap \/ Open
               \/ \E outcome \in ReadOutcomes, bytes \in {"room", "end", "wild"} :
                    Mount(outcome, bytes)
    BY <2>2, LoadInvMount
  <2>3. CASE \E outcome \in ReadOutcomes, hit \in {"next", "kernel", "end"},
                cluster \in {Chain[1], EndOfChain}, bytes \in {0, FileBytes} :
               Search(outcome, hit, cluster, bytes)
    BY <2>3, LoadInvSearch
  <2>4. CASE SearchEnds
    BY <2>4, LoadInvSearchEnds
  <2>5. CASE \E outcome \in ReadOutcomes : CopySector(outcome)
    BY <2>5, LoadInvCopy
  <2>6. CASE CopyEnds
    BY <2>6, LoadInvCopyEnds
  <2> QED
    BY <2>1, <2>2, <2>3, <2>4, <2>5, <2>6 DEF BootNext, MainStep
<1> QED
  BY <1>1 DEF LoadInv

(* On a card whose kernel8.img lies in one run of clusters and whose root  *)
(* directory shows it within the sectors that are looked at, what main     *)
(* says of the load is so, for every size of file, sector and cluster: the *)
(* kernel is in memory byte for byte, or the volume does not have it.      *)
THEOREM LoaderIsRight ==
  ASSUME RunOfClusters, RootInSight
  PROVE  BootSpec => []LoadSound
<1>1. LoadInv /\ [BootNext]_allVars => LoadInv'
  BY LoadInvNext
<1>2. LoadInv => LoadSound
  BY DEF LoadInv
<1> QED
  BY LoadInvInit, <1>1, <1>2, PTL DEF BootSpec

-----------------------------------------------------------------------------
(* The persistent configuration, for any settings and any bounds on its    *)
(* counters: the record in RAM is always valid, one torn sector never      *)
(* costs the last valid copy, and a slot is only given up after three      *)
(* failures.                                                               *)

(* A save goes through the sectors in order: what it is about to write to  *)
(* the backup is already in the primary, and in RAM.                       *)
SaveInOrder ==
  /\ pc \in {"primary", "backup"} => current = saved
  /\ pc = "backup" => primary = saved

(* With no tear both sectors are valid, with one at least one is.          *)
Copies ==
  /\ tears = 0 => primary # Bad /\ backup # Bad
  /\ tears = 1 => primary # Bad \/ backup # Bad

ConfigInv == ConfigTypeOK /\ SaveInOrder /\ Copies

LEMMA DefaultsType == Defaults \in Config /\ [Defaults EXCEPT !.enable_a_b_boot = TRUE] \in Config
<1>1. Zero \in [Slots -> 0 .. MaxCount] /\ Zero \in [Slots -> 0 .. MaxSuccess]
  BY FaultAssumption DEF Zero
<1>2. Factory \in Settings /\ 0 \in Slots
  BY FactoryAssumption DEF Slots
<1> QED
  BY <1>1, <1>2 DEF Defaults, Config

LEMMA ConfigInvInit == ConfigInit => ConfigInv
<1> SUFFICES ASSUME ConfigInit PROVE ConfigInv
  OBVIOUS
<1>1. Zero \in [Slots -> 0 .. 3]
  BY DEF Zero
<1>2. PICK c \in {Bad, Defaults, [Defaults EXCEPT !.enable_a_b_boot = TRUE]} :
        primary = c /\ backup = c /\ tears = IF c = Bad THEN 2 ELSE 0
  BY DEF ConfigInit
<1>3. c = Bad \/ c \in Config
  BY <1>2, DefaultsType
<1>4. ConfigTypeOK
  <2>1. current \in Config /\ saved \in Config /\ failures \in [Slots -> 0 .. 3]
    BY <1>1, DefaultsType DEF ConfigInit
  <2>2. {primary, backup} \subseteq Config \cup {Bad} /\ tears \in 0 .. 2
    BY <1>2, <1>3
  <2> QED
    BY <2>1, <2>2 DEF ConfigInit, ConfigTypeOK
<1>5. SaveInOrder /\ Copies
  BY <1>2 DEF ConfigInit, SaveInOrder, Copies
<1> QED
  BY <1>4, <1>5 DEF ConfigInv

(* Whatever may be loaded and accepted is a valid record.                  *)
LEMMA AcceptedType ==
  ASSUME ConfigTypeOK, NEW sector \in Loaded
  PROVE  AcceptedRecord(sector) \in Config
BY DefaultsType DEF AcceptedRecord, Loaded, ConfigTypeOK

(* Every operation hands a valid record to the save.                       *)
LEMMA EditsType ==
  ASSUME ConfigTypeOK
  PROVE  LET s == current.current_boot_slot
             other == 1 - s
         IN /\ \A v \in Settings : [current EXCEPT !.setting = v] \in Config
            /\ current.boot_success[s] < MaxSuccess =>
                 [current EXCEPT !.boot_success[s] = @ + 1, !.boot_counter[s] = 0] \in Config
            /\ current.boot_counter[s] < MaxCount =>
                 [current EXCEPT !.boot_counter[s] = @ + 1] \in Config
            /\ [current EXCEPT !.current_boot_slot = other,
                               !.boot_counter[other] = 0] \in Config
<1> DEFINE s == current.current_boot_slot
           other == 1 - s
<1>1. /\ current \in Config /\ s \in Slots /\ other \in Slots
      /\ MaxCount \in Nat /\ MaxSuccess \in Nat
  BY FaultAssumption DEF ConfigTypeOK, Config, Slots
<1>2. /\ current.boot_counter \in [Slots -> 0 .. MaxCount]
      /\ current.boot_success \in [Slots -> 0 .. MaxSuccess]
  BY <1>1 DEF Config
<1>3. \A t \in Slots : [current.boot_counter EXCEPT ![t] = 0] \in [Slots -> 0 .. MaxCount]
  BY <1>1, <1>2
<1>4. current.boot_counter[s] < MaxCount =>
        [current.boot_counter EXCEPT ![s] = @ + 1] \in [Slots -> 0 .. MaxCount]
  BY <1>1, <1>2
<1>5. current.boot_success[s] < MaxSuccess =>
        [current.boot_success EXCEPT ![s] = @ + 1] \in [Slots -> 0 .. MaxSuccess]
  BY <1>1, <1>2
<1>6. ASSUME NEW v \in Settings PROVE [current EXCEPT !.setting = v] \in Config
  BY <1>1 DEF Config
<1>7. ASSUME current.boot_success[s] < MaxSuccess
      PROVE  [current EXCEPT !.boot_success[s] = @ + 1, !.boot_counter[s] = 0] \in Config
  BY <1>1, <1>3, <1>5, <1>7 DEF Config
<1>8. ASSUME current.boot_counter[s] < MaxCount
      PROVE  [current EXCEPT !.boot_counter[s] = @ + 1] \in Config
  BY <1>1, <1>4, <1>8 DEF Config
<1>9. [current EXCEPT !.current_boot_slot = other, !.boot_counter[other] = 0] \in Config
  BY <1>1, <1>3 DEF Config
<1> QED
  BY <1>6, <1>7, <1>8, <1>9

(* A call that begins a save leaves the card alone.                        *)
LEMMA BeginSaveInv ==
  ASSUME ConfigInv, NEW config \in Config, BeginSave(config), UNCHANGED <<primary, backup, tears>>,
         failures' \in [Slots -> 0 .. 3]
  PROVE  ConfigInv'
BY DEF ConfigInv, ConfigTypeOK, SaveInOrder, Copies, BeginSave

LEMMA ConfigInvStep ==
  ASSUME ConfigInv, [ConfigNext]_configVars
  PROVE  ConfigInv'
<1>1. ConfigTypeOK /\ SaveInOrder /\ Copies
  BY DEF ConfigInv
<1>2. CASE PersistInit
  BY <1>1, <1>2, AcceptedType DEF PersistInit, ConfigInv, ConfigTypeOK, SaveInOrder, Copies
<1>3. CASE SetSetting
  <2>1. PICK v \in Settings : BeginSave([current EXCEPT !.setting = v])
    BY <1>3 DEF SetSetting
  <2> QED
    BY <1>1, <1>3, <2>1, EditsType, BeginSaveInv DEF SetSetting, ConfigTypeOK
<1>4. CASE Reset
  BY <1>1, <1>4, DefaultsType, BeginSaveInv DEF Reset, ConfigTypeOK
<1>5. CASE MarkBootSuccess
  BY <1>1, <1>5, EditsType, BeginSaveInv DEF MarkBootSuccess, ConfigTypeOK
<1>6. CASE MarkBootFailure
  <2>1. failures' \in [Slots -> 0 .. 3]
    <3> DEFINE f == current.current_boot_slot
    <3>1. f \in Slots
      BY <1>1 DEF ConfigTypeOK, Config
    <3>2. failures' = [failures EXCEPT ![f] = IF failures[f] < 3 THEN failures[f] + 1
                                                                 ELSE failures[f]]
      BY <1>6 DEF MarkBootFailure
    <3> HIDE DEF f
    <3>3. failures[f] \in 0 .. 3
      BY <1>1, <3>1 DEF ConfigTypeOK
    <3>4. (IF failures[f] < 3 THEN failures[f] + 1 ELSE failures[f]) \in 0 .. 3
      BY <3>3
    <3>5. failures \in [Slots -> 0 .. 3]
      BY <1>1 DEF ConfigTypeOK
    <3> QED
      BY <3>2, <3>4, <3>5
  <2>2. BeginSave([current EXCEPT !.boot_counter[current.current_boot_slot] = @ + 1])
    BY <1>6 DEF MarkBootFailure
  <2>3. [current EXCEPT !.boot_counter[current.current_boot_slot] = @ + 1] \in Config
    BY <1>1, <1>6, EditsType DEF MarkBootFailure
  <2> QED
    BY <1>6, <2>1, <2>2, <2>3, BeginSaveInv DEF MarkBootFailure
<1>7. CASE SwitchSlot
  BY <1>1, <1>7, EditsType, BeginSaveInv DEF SwitchSlot, ConfigTypeOK
<1>8. CASE WritePrimary
  <2>1. \A t \in [Slots -> 0 .. 3] :
          [s \in Slots |-> IF saved.boot_counter[s] = 0 THEN 0 ELSE t[s]] \in [Slots -> 0 .. 3]
    OBVIOUS
  <2> QED
    BY <1>1, <1>8, <2>1, DefaultsType, BadAssumption
       DEF WritePrimary, Tear, ConfigInv, ConfigTypeOK, SaveInOrder, Copies
<1>9. CASE WriteBackup
  BY <1>1, <1>9, DefaultsType, BadAssumption
     DEF WriteBackup, Tear, ConfigInv, ConfigTypeOK, SaveInOrder, Copies
<1>10. CASE PowerFail
  BY <1>1, <1>10, DefaultsType, BadAssumption
     DEF PowerFail, Tear, ConfigInv, ConfigTypeOK, SaveInOrder, Copies
<1>11. CASE UNCHANGED configVars
  BY <1>1, <1>11 DEF configVars, ConfigInv, ConfigTypeOK, SaveInOrder, Copies
<1> QED
  BY <1>2, <1>3, <1>4, <1>5, <1>6, <1>7, <1>8, <1>9, <1>10, <1>11 DEF ConfigNext

LEMMA ConfigInvHolds == ConfigSpec => []ConfigInv
<1>1. ConfigInit => ConfigInv
  BY ConfigInvInit
<1>2. ConfigInv /\ [ConfigNext]_configVars => ConfigInv'
  BY ConfigInvStep
<1> QED
  BY <1>1, <1>2, PTL DEF ConfigSpec

-----------------------------------------------------------------------------
(* The counter of a slot never runs ahead of the failures marked for it.   *)
Covered(config) ==
  \A s \in Slots : config.boot_counter[s] <= failures[s] \/ failures[s] = 3

(* While a save runs, RAM may be ahead of the card; the card is ahead of   *)
(* RAM never.                                                              *)
CountersCovered ==
  ~misread => Covered(current) /\ (primary # Bad => Covered(primary))

SlotInv == ConfigInv /\ CountersCovered

LEMMA SlotInit == ConfigInit => SlotInv
<1> SUFFICES ASSUME ConfigInit PROVE SlotInv
  OBVIOUS
<1>1. ConfigInv
  BY ConfigInvInit
<1>2. PICK c \in {Bad, Defaults, [Defaults EXCEPT !.enable_a_b_boot = TRUE]} : primary = c
  BY DEF ConfigInit
<1>3. \A s \in Slots : /\ Defaults.boot_counter[s] = 0
                       /\ [Defaults EXCEPT !.enable_a_b_boot = TRUE].boot_counter[s] = 0
                       /\ failures[s] = 0 /\ current.boot_counter[s] = 0
  BY DEF ConfigInit, Defaults, Zero
<1>4. \A s \in Slots : primary # Bad => primary.boot_counter[s] = 0
  BY <1>2, <1>3
<1>5. Covered(current) /\ (primary # Bad => Covered(primary))
  BY <1>3, <1>4 DEF Covered
<1> QED
  BY <1>1, <1>5 DEF SlotInv, CountersCovered

(* After a start-up that took an older backup nothing is claimed: its      *)
(* counts need not be covered by the failures since.                       *)
LEMMA SlotStep ==
  ASSUME SlotInv, [ConfigNext]_configVars
  PROVE  SlotInv'
<1>1. ConfigInv /\ ConfigTypeOK /\ SaveInOrder /\ CountersCovered /\ ConfigInv'
  BY ConfigInvStep DEF SlotInv, ConfigInv
<1>2. /\ current.current_boot_slot \in Slots
      /\ current \in Config /\ current.boot_counter \in [Slots -> 0 .. MaxCount]
      /\ \A s \in Slots : current.boot_counter[s] \in Nat /\ failures[s] \in 0 .. 3
      /\ \A s \in Slots : Defaults.boot_counter[s] = 0
  BY <1>1, FaultAssumption DEF ConfigTypeOK, Config, Defaults, Zero
<1> SUFFICES ASSUME ~misread'
             PROVE  Covered(current)' /\ (primary # Bad => Covered(primary))'
  BY <1>1 DEF SlotInv, CountersCovered
<1>a. ~misread
  BY DEF ConfigNext, configVars, PersistInit, SetSetting, Reset, MarkBootSuccess, MarkBootFailure,
         SwitchSlot, WritePrimary, WriteBackup, PowerFail, BeginSave
<1>b. Covered(current) /\ (primary # Bad => Covered(primary))
  BY <1>1, <1>a DEF CountersCovered
<1>3. CASE PersistInit
  <2>1. PICK sector \in Loaded :
          current' = AcceptedRecord(sector) /\ misread' = (misread \/ sector # primary)
    BY <1>3 DEF PersistInit
  <2>2. current' = primary \/ current' = Defaults
    BY <2>1 DEF AcceptedRecord
  <2>3. current' = primary => primary # Bad
    BY <1>1, <1>b, BadAssumption DEF ConfigInv, ConfigTypeOK
  <2> QED
    BY <1>1, <1>b, <1>2, <1>3, <2>2, <2>3 DEF PersistInit, Covered
<1>4. CASE SetSetting
  <2>1. PICK v \in Settings : current' = [current EXCEPT !.setting = v]
    BY <1>4 DEF SetSetting, BeginSave
  <2>2. current'.boot_counter = current.boot_counter
    BY <1>2, <2>1 DEF Config
  <2> QED
    BY <1>1, <1>b, <1>4, <2>2 DEF SetSetting, Covered
<1>5. CASE Reset
  BY <1>1, <1>b, <1>2, <1>5 DEF Reset, BeginSave, Covered
<1>6. CASE MarkBootSuccess
  <2>1. current'.boot_counter = [current.boot_counter EXCEPT ![current.current_boot_slot] = 0]
    BY <1>2, <1>6 DEF MarkBootSuccess, BeginSave, Config
  <2> QED
    BY <1>1, <1>b, <1>2, <1>6, <2>1 DEF MarkBootSuccess, Covered
<1>7. CASE MarkBootFailure
  <2> DEFINE f == current.current_boot_slot
  <2>1. current'.boot_counter = [current.boot_counter EXCEPT ![f] = current.boot_counter[f] + 1]
    BY <1>2, <1>7 DEF MarkBootFailure, BeginSave, Config
  <2>2. failures' = [failures EXCEPT ![f] = IF failures[f] < 3 THEN failures[f] + 1
                                                               ELSE failures[f]]
    BY <1>7 DEF MarkBootFailure
  <2>3. failures \in [Slots -> 0 .. 3] /\ f \in Slots
    BY <1>1, <1>b, <1>2 DEF ConfigTypeOK
  <2> HIDE DEF f
  <2>4. Covered(current)'
    BY <1>1, <1>b, <1>2, <2>1, <2>2, <2>3 DEF Covered
  <2>5. \A s \in Slots : failures'[s] = failures[s] \/ failures'[s] = failures[s] + 1
    BY <2>2, <2>3
  <2>6. primary' # Bad => Covered(primary)'
    <3>1. SUFFICES ASSUME primary # Bad, NEW s \in Slots
                   PROVE  primary.boot_counter[s] <= failures'[s] \/ failures'[s] = 3
      BY <1>7 DEF MarkBootFailure, Covered
    <3>2. primary.boot_counter[s] \in Nat /\ failures[s] \in 0 .. 3 /\ failures'[s] \in 0 .. 3
      BY <1>1, <1>b, <3>1, FaultAssumption DEF ConfigInv, ConfigTypeOK, Config
    <3>3. primary.boot_counter[s] <= failures[s] \/ failures[s] = 3
      BY <1>1, <1>b, <3>1 DEF Covered
    <3> QED
      BY <2>5, <3>2, <3>3
  <2> QED
    BY <2>4, <2>6
<1>8. CASE SwitchSlot
  <2> DEFINE other == 1 - current.current_boot_slot
  <2>1. current'.boot_counter = [current.boot_counter EXCEPT ![other] = 0]
    BY <1>2, <1>8 DEF SwitchSlot, BeginSave, Config
  <2> HIDE DEF other
  <2> QED
    BY <1>1, <1>b, <1>2, <1>8, <2>1 DEF SwitchSlot, Covered
<1>9. CASE WritePrimary
  <2>1. current' = current /\ current = saved
    BY <1>1, <1>b, <1>9 DEF WritePrimary, SaveInOrder
  <2>2. CASE /\ primary' = saved
             /\ failures' = [s \in Slots |-> IF saved.boot_counter[s] = 0 THEN 0 ELSE failures[s]]
    BY <1>1, <1>b, <1>2, <2>1, <2>2 DEF Covered
  <2>3. CASE primary' \in {primary, Bad} /\ UNCHANGED failures
    BY <1>1, <1>b, <2>1, <2>3 DEF Covered
  <2> QED
    BY <1>9, <2>2, <2>3 DEF WritePrimary, Tear
<1>10. CASE WriteBackup
  BY <1>1, <1>b, <1>10 DEF WriteBackup, SaveInOrder, Covered
<1>11. CASE PowerFail
  BY <1>1, <1>b, <1>2, <1>11 DEF PowerFail, Tear, Covered
<1>12. CASE UNCHANGED configVars
  BY <1>1, <1>b, <1>12 DEF configVars, Covered
<1> QED
  BY <1>3, <1>4, <1>5, <1>6, <1>7, <1>8, <1>9, <1>10, <1>11, <1>12 DEF ConfigNext

(* Only config_persist_get_boot_slot, and only with its test true, changes *)
(* the slot in RAM while A/B booting stays on.                             *)
LEMMA SwitchStepEarned ==
  ASSUME SlotInv, [ConfigNext]_configVars, SwitchStep
  PROVE  /\ failures[current.current_boot_slot] >= 3
         /\ current'.boot_counter[current'.current_boot_slot] = 0
<1> DEFINE f == current.current_boot_slot
<1>1. /\ ConfigTypeOK /\ Covered(current) /\ current \in Config /\ f \in Slots /\ 1 - f \in Slots
      /\ \A s \in Slots : current.boot_counter[s] \in Nat /\ failures[s] \in 0 .. 3
  BY FaultAssumption DEF SwitchStep, SlotInv, CountersCovered, ConfigInv, ConfigTypeOK, Config, Slots
<1>2. SwitchSlot
  <2>1. ~PersistInit /\ ~WritePrimary /\ ~WriteBackup /\ ~PowerFail /\ ~UNCHANGED configVars
    BY DEF SwitchStep, PersistInit, WritePrimary, WriteBackup, PowerFail, configVars
  <2>2. ~SetSetting
    BY <1>1 DEF SwitchStep, SetSetting, BeginSave, Config
  <2>3. ~Reset
    BY DEF SwitchStep, Reset, BeginSave, Defaults
  <2>4. ~MarkBootSuccess
    BY <1>1 DEF SwitchStep, MarkBootSuccess, BeginSave, Config
  <2>5. ~MarkBootFailure
    BY <1>1 DEF SwitchStep, MarkBootFailure, BeginSave, Config
  <2> QED
    BY <2>1, <2>2, <2>3, <2>4, <2>5 DEF ConfigNext
<1>3. current.boot_counter[f] >= 3
  BY <1>2 DEF SwitchSlot, SlotExhausted
<1>4. failures[f] >= 3
  BY <1>1, <1>3 DEF Covered
<1>5. current' = [current EXCEPT !.current_boot_slot = 1 - f, !.boot_counter[1 - f] = 0]
  BY <1>2 DEF SwitchSlot, BeginSave
<1>6. current'.current_boot_slot = 1 - f
        /\ current'.boot_counter = [current.boot_counter EXCEPT ![1 - f] = 0]
        /\ current.boot_counter \in [Slots -> 0 .. MaxCount]
  BY <1>1, <1>5 DEF Config
<1> QED
  BY <1>1, <1>4, <1>6

-----------------------------------------------------------------------------
(* The record in RAM is valid through every save, power failure and        *)
(* unreadable card.                                                        *)
THEOREM ConfigTypeCorrect == ConfigSpec => []ConfigTypeOK
<1>1. ConfigInv => ConfigTypeOK
  BY DEF ConfigInv
<1> QED
  BY <1>1, ConfigInvHolds, PTL

(* A card with one torn sector still holds a valid configuration.          *)
THEOREM OneCopySurvives == ConfigSpec => []OneGoodCopy
<1>1. ConfigInv => OneGoodCopy
  BY DEF ConfigInv, ConfigTypeOK, Copies, OneGoodCopy
<1> QED
  BY <1>1, ConfigInvHolds, PTL

(* Unless a start-up could not read the primary, a slot is given up only   *)
(* after three failures were marked for it, and its successor starts with  *)
(* none.                                                                   *)
THEOREM SwitchesEarned == ConfigSpec => SwitchEarned
<1>1. ConfigInit => SlotInv
  BY SlotInit
<1>2. SlotInv /\ [ConfigNext]_configVars => SlotInv'
  BY SlotStep
<1>3. SlotInv /\ [ConfigNext]_configVars =>
        [SwitchStep => /\ failures[current.current_boot_slot] >= 3
                       /\ current'.boot_counter[current'.current_boot_slot] = 0]_configVars
  BY SwitchStepEarned
<1> QED
  BY <1>1, <1>2, <1>3, PTL DEF ConfigSpec, SwitchEarned

-----------------------------------------------------------------------------
(* Together on one card.                                                   *)
(*                                                                         *)
(* The boot calls the driver and changes nothing of it otherwise.          *)
LEMMA BootUsesDriver == BootNext => [SdNext]_sdVars
<1> SUFFICES ASSUME MainStep PROVE [SdNext]_sdVars
  BY DEF BootNext, Idle, allVars
<1>1. CallSdInit \/ SdInitRuns => SdNext
  BY DEF CallSdInit, SdInitRuns, SdNext
<1>2. CardInitialized \/ Open \/ SearchEnds \/ CopyEnds \/ TryHeap => UNCHANGED sdVars
  BY DEF CardInitialized, Open, SearchEnds, CopyEnds, TryHeap
<1>3. ASSUME NEW outcome, NEW bytes, Mount(outcome, bytes) PROVE UNCHANGED sdVars
  BY <1>3 DEF Mount
<1>4. ASSUME NEW outcome, NEW hit, NEW cluster, NEW bytes, Search(outcome, hit, cluster, bytes)
      PROVE  UNCHANGED sdVars
  BY <1>4 DEF Search
<1>5. ASSUME NEW outcome, CopySector(outcome) PROVE UNCHANGED sdVars
  BY <1>5 DEF CopySector
<1> QED
  BY <1>1, <1>2, <1>3, <1>4, <1>5 DEF MainStep

(* Under main, and with the configuration on the same card, the variables  *)
(* keep their types, and the driver keeps what it promises any caller.     *)
THEOREM BootKeepsDriver == PartSpec => [](CardTypeOK /\ ReadyUnlessSilent /\ HealthyCardComesUp)
<1> DEFINE Inv == SdInv /\ ConfigInv
<1>1. PartInit => Inv
  BY SdInvInit, ConfigInvInit DEF PartInit, BootInit
<1>2. Inv /\ [PartNext]_<<part, allVars, configVars>> => Inv'
  <2> SUFFICES ASSUME Inv, [PartNext]_<<part, allVars, configVars>>
               PROVE  Inv'
    OBVIOUS
  <2>1. [SdNext]_sdVars
    BY BootUsesDriver DEF PartNext, allVars
  <2>2. [ConfigNext]_configVars
    BY DEF PartNext
  <2> QED
    BY <2>1, <2>2, SdInvNext, ConfigInvStep
<1>3. Inv => CardTypeOK /\ ReadyUnlessSilent /\ HealthyCardComesUp
  BY DEF CardTypeOK, SdInv, ConfigInv
<1> QED
  BY <1>1, <1>2, <1>3, PTL DEF PartSpec
=============================================================================

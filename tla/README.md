# A TLA+ model of arm-boot-loader

This directory models the bootloader's control logic in TLA+: the boot state
machine and its main loop; the SD card and FAT path of the bootloader that the
Makefile builds, its heap, timer and mailbox; the persistent configuration; the
network from the receive ring to the TFTP download; and the smaller drivers and
services around them.  TLC checks small instances of it; TLAPS proves the
safety that TLC checks for every value of the constants (for the FAT reader under
two hypotheses).

    tlc -config monitor.cfg MCMonitor            # one run
    tlapm BootProofs.tla                         # one proof module

`PROJECT.json` lists the runs, the mutations that each property must detect,
the source lines behind each definition, the hazards and the theorems.

Paths below are relative to `src/`.  `file.c:n` is a line of `src/file.c`.

## 1. The system

Two programs are in the repository.

* **The built bootloader.**  The Makefile links `start.S`, `main.c`, `uart.c`,
  `timer.c`, `gpio.c`, `memory.c`, `mailbox.c` and `sd.c`.  `main` brings up
  the console, the timer, the heap and the SD card, mounts a FAT volume, reads
  `kernel8.img` to a fixed address, tries the heap, and idles.  It never jumps
  to the kernel (main.c:147).  There is one core and interrupts stay disabled.
* **The full bootloader.**  `old/main.c.complex` drives the state machine of
  `fsa_monitor.c` through 44 boot states; each handler calls drivers of
  `src/`.  The other files (network, Ethernet, USB, secure boot, watchdog,
  persistent configuration, menu, logging) belong to it.  There is one core;
  the only concurrency is between the interrupt handler of `ethernet_irq.c`
  and the main program.

### Inventory

| Component | State | Operations | Interacts with | What is hard | What makes it correct |
|---|---|---|---|---|---|
| FSA monitor `fsa_monitor.c` | current and previous state, time in state, retry count, active interlock, four safety flags, history ring | init, update_state, tick (timeout, safety checks), interlocks, recovery, history | called by the loop; reads timer and LED pin | update_state and execute_recovery call each other; rules are a chain of early returns; timeouts race with handlers | transitions are legal; recovery ends; the history tells what happened; no state lasts for ever |
| Boot loop `old/main.c.complex` | monitor, configured sources | one handler per boot state | monitor, SD, USB, security, config | failing drivers, retries across ticks, shortcuts (USB, modules) to the kernel | the kernel is entered only when loaded; retries are bounded; each boot ends; a good boot succeeds |
| Persistent configuration `config_persist.c` | record in RAM, primary and backup sector, A/B slots with counters | init, load, save, setters, reset, mark success/failure, get_boot_slot | SD block I/O | power fails between and during the two writes; counters span boots | a valid copy survives; only valid records are used; slots switch for a reason |
| Ethernet reception `ethernet_irq.c` | software queue, statistics, running flag | handler, init, receive, flush, shutdown | interrupt controller, controller's receive ring | handler preempts the caller; status bits cleared after use; full queue | nothing lost silently, doubled or reordered; the line is never left closed or unserved |
| Interrupt driver `interrupt.c` | handler table, GIC enables | init, register, enable, disable, dispatch | Ethernet handler, timer, GPIO | a line with no handler | an enabled line is served |
| Ethernet driver `ethernet.c` | receive and transmit descriptor rings | init, send, receive | network stack, Ethernet handler | ring wrap, ownership, long frames | frames in order; a bad frame does not block the ring |
| Heap `memory.c` | chain of block headers inside the heap | malloc, free, memory_init | SD/FAT code, network objects | split and merge over long sequences; rounding of sizes | blocks tile the heap; held blocks are disjoint, large enough and untouched |
| SD driver `sd.c` (first half) | initialized flag, card address | send_command, sd_init, read_sector | main, FAT reader, boot loop | silent, slow or late card; polls that end in the last round; counter wrap | returns; success means a selected card; a good card is not refused |
| FAT reader and main `sd.c`, `main.c` | boot-sector copy, geometry, buffers | fat_init, fat_read_file, main | SD driver, heap | any read may fail; last sector is partial; directory limits | a loaded file is the file; buffers are returned; main ends |
| Timer `timer.c` | none (free-running counter) | 64-bit read, delays | everything that waits | two halves read separately; 32-bit product | monotonic time, delays not early |
| Mailbox `mailbox.c` | shared buffer | call (write, wait, read) | start-up | a late answer after a timeout | an answer belongs to its call |
| Neighbour caches `network.c` | ARP and ND arrays with counts | process a reply or an advertisement, look up | UDP, TFTP, PXE | appends without looking, no eviction, stale entries replaced by the last | a lookup returns what was announced for that address |
| Address configuration `network.c` | transaction id, the caller's configuration | DHCP, BOOTP, PXE, IPv6 PXE, DNS, HTTP | UDP, hence the ARP cache | sending to the broadcast address | a discovery asks somebody; it gives up |
| TFTP `network.c` | block expected, port, bytes received | download | UDP, Ethernet driver, timer | loss, repeats, numbers that wrap, a short buffer | the buffer is the file; a transfer ends |
| Protocol objects `network_protocols.c` | bump allocator | create/destroy pairs | nobody but tests | - | - |
| Watchdog `watchdog.c` | enabled flag, mode, timeout; the hardware counter | init, start, kick, stop | boot loop | 20-bit register, kicks before start | a hung program is reset in time, a live one is not |
| Log `log.c` | ring of 256 entries, level, targets | write, read, clear, init | everything | wrap, clear in any state | readers see the newest entries in order |
| Perfmon `perfmon.c` | checkpoint table | mark, report, reset | boot loop | table full | the figures of a report fit each other |
| Memory test `memtest.c` | memory under test, random state | ten tests, two calls | shell | order of reads and writes | faults are found, sound memory passes |
| Device trees `fdt.c`, `dtb.c` | none: offsets into a blob | lookups of nodes and properties | kernel hand-over | data that looks like tags, padding | lookups find what is there, and end |
| Boot menu `boot_menu.c` | items, selection | keys, actions | UART, shell, boot sources | disabled items, nested actions | the selection finds an enabled item |
| Configuration parser `config.c` | variables, table of 64 lines | parse, apply, get | boot loop, menu | two copies of each setting, one converted | the first line counts for the table, the last for the variable |
| USB `usb.c` | device table, next address | init, enumerate, stop | boot loop | plugging on the way, repeated boots | devices stay in the table |
| Buses `dma.c`, `i2c.c`, `spi.c` | FIFOs and status bits | transfers | devices | waits without a bound | a transfer with a device that answers ends |
| Secure boot `secure_boot.c`, `security.c`, `crypto.c` | keys, measurements, chain | measure, verify, attest | boot loop | none of its own, see 6 | - |
| Verification tables `verification.c` | fixed tables | add, check, print | none at run time | - | - |
| GPIO, UART, PWM, clock, start-up, HAL, shell | registers, console | - | - | none of their own | - |

Every row has an entry with its files in `PROJECT.json`.

## 2. The modules

| Module | Models | Extends |
|---|---|---|
| `FsaMonitor` | the monitor, under arbitrary callers | |
| `BootMain` | the loop of the full bootloader | `FsaMonitor` |
| `ConfigPersist` | the configuration store and its A/B slots | |
| `PacketFifo` | *abstract:* what reception promises its caller | |
| `EthernetIrq` | handler, main program and controller; implements `PacketFifo` | |
| `NeighbourCache` | the ARP and the IPv6 neighbour cache | |
| `AddressConfig` | DHCP, BOOTP, PXE, DNS, HTTP and IPv6 PXE on top of the caches | `NeighbourCache` |
| `FileTransfer` | *abstract:* what a download promises | |
| `Tftp` | client, server and segment; implements `FileTransfer` | |
| `HeapAllocator` | malloc and free | |
| `SystemTimer` | the count read from two registers, and the delays | |
| `Mailbox` | the mailbox call and the firmware | |
| `Watchdog` | the driver and the counter that resets the machine | |
| `LogBuffer` | the ring of log entries | |
| `PerfMonitor` | the checkpoints and the figures | |
| `MemTest` | the memory tests, on memory that may have a fault | |
| `Fdt` | lookups in a device tree | |
| `BootMenu` | the menu and its actions | |
| `ConfigFile` | config.txt: variables with their conversion, and the table | |
| `UsbHost` | controller, ports and enumeration | |
| `BusTransfers` | I2C, SPI and DMA | |
| `SdCard` | the driver and the card | |
| `SdBoot` | the built bootloader: main, FAT reader and heap use | `SdCard` |
| `BootProofs` | theorems about the monitor, and about the monitor under the boot loop | `BootMain` and `TLAPS` |
| `EthernetIrqProofs`, `NetworkProofs` | theorems about reception; about downloads, caches and address configuration | the same |
| `CardProofs` | theorems about `SdCard`, `SdBoot` and `ConfigPersist` | `MCCard` and `TLAPS` |
| `ServiceProofs` | theorems about heap, timer, watchdog, log, mailbox, USB, configuration file, performance monitor | the modules and `TLAPS` |
| `FdtProofs`, `MemTestProofs` | theorems about device tree lookups, and about the memory tests | the module and `TLAPS` |
| `StandaloneProofs` | theorems about the menu and the buses, and about the twelve parts side by side | `MCStandalone` and the three modules above |
| `MC*` | constants for TLC | the module |

Some of the MC modules put several components side by side, each behaviour being
about one of them: `MCMonitor` (the monitor alone, and under the boot loop),
`MCCard` (the boot from the card, and the configuration on it), `MCNetwork`
(reception, caches, address configuration, download), `MCStandalone` (the
twelve parts that share nothing) and `MCParts` (the two before).  The variable
`part`, `layer` or `side` says which; the others stay as they start.  Components that do interact are composed
inside the modules: `BootMain` with the monitor, `SdBoot` with the driver,
`AddressConfig` with the ARP cache, the two refinements.

Definitions named `Mut...` are deliberate mistakes next to the definition they
replace: each property is shown to notice one of them.

### FsaMonitor

`fsa` is the struct `fsa_monitor` with `state_history`, its index and
`last_check`.  The 44 states, their rules and their timeouts are the tables of
the code.  `TransitionRules` is in source order and the *first* rule for a
state decides, as in the chain of `if`s of `is_valid_transition`.

`fsa_update_state` and `fsa_execute_recovery` call each other.  One frame of
that recursion is one step: the call with which a frame ends waits in
`fsa.pending`, and `RecoveryStep` runs it.  So an endless recursion is an
infinite behaviour, and the overflow of the stack it leads to is what
`RecoveryReturns` denies.

| Action | Code |
|---|---|
| `RequestState(target)` | `fsa_update_state` from any caller |
| `Tick(d)` | `fsa_monitor_tick`, time and `fsa_handle_timeout` |
| `SafetyChecks(level)` | `fsa_monitor_tick`, the check that is due each second, with the level of the LED pin |
| `RecoveryStep` | the nested `fsa_update_state(STATE_FAILURE)` |

Abstracted: the timestamps of the history (an entry is logged or not), the
printed statistics, `fsa_log_transition`.

### BootMain

One turn of the loop is `LoopTick`, `LoopSafetyChecks`, and the handler of the
current state; `LoopRecovery` runs the frames of a recovery wherever one was
started.  `Asks` is the state each handler without a device asks for;
`HandleLoad` covers the three handlers that load something and retry;
`HandleUsb`, `HandleKernelExec` and `HandleTerminal` are the rest.  The
outcomes of drivers, the LED level and the time of a turn are chosen freely
from the constants.  `source` is the configured source of each file; it is
set once.

The functions of `security.c` return 0 on every path, so attestation always
passes.  `config_parse_file` is reached only after the state where the boot
fails (see Findings), so `config.txt` never changes `source`.

### ConfigPersist

`current` is `current_config`; `primary` and `backup` are the two sectors.  A
sector holds a record or `Bad`: magic, version, range and CRC are together the
difference between the two.  All settings of the user are one field.  A save
is three steps (`BeginSave`, `WritePrimary`, `WriteBackup`), and `PowerFail`
may come before or after any of them or tear the sector being written.  The
block functions `sd_read_block` and `sd_write_block` are declared but defined
nowhere in the repository; the model gives them the contract their callers
rely on, with faults as constants.

`tears`, `failures` and `misread` are history variables that the properties
need and no action reads.

### EthernetIrq and PacketFifo

Each access to shared state is a step of its own.  `FrameArrives` and
`FrameOverflows` belong to the controller and happen at any time.  The handler
is `IrqEnter` (status read once), `IrqReceive` (one frame) and `IrqClear`.  It
runs between any two steps of the main program while the line is enabled, and
main runs only while no handler does: one core.  `count--` is a load and a
store.  Main's calls are init, receive, flush and shutdown, each register
write a step.

`Fifo == INSTANCE PacketFifo WITH input <- ring, queue <- Queued, ...` is the
refinement: the abstract queue is the slots from `head` on, `count` of them.

### HeapAllocator

`blocks` maps the offset of each header to its size, mark and next; so the
chain is a function and "no header there" is the absence of an offset.
`Malloc` and `Free` are the whole calls, with splitting, rounding in the width
of `size_t` and forward merging.  Callers free what they got, once.

### SystemTimer and Mailbox

`clock` is the pair of registers CHI and CLO, and `ClockTick` moves it on
between any two reads.  `step` is the next read of `timer_get_ticks` and `wait`
the loop of `timer_delay_us` that called it; `entered`, `asked` and `waited`
are history variables.  The clock starts anywhere with CHI = `PowerOnHigh` and
may roll over, and stops before it has gone round once, which takes 584 542
years; `NoLater` is the order in time of the counts of that one turn.

A mailbox call is `MailPrepare`, `MailSend`, `MailReceive` and `MailCheck`, with
`MailFull` and `MailTimeout` for the two waits that may end without success.
There is one buffer for all calls: a message is no more than its address, and
the firmware reads and writes the buffer as it is when it gets to it
(`FirmwareTakes`, `FirmwareAnswers`).  It may be as slow as it likes.

### SdCard and SdBoot

Each command of `sd_init` is an action.  For each, the environment chooses an
*exchange*: when the command line is free, and at which poll an answer or an
error shows; or it reacts after the last poll, or never.  Only the boundaries
matter to the code: first look, last look, none.  The loops count as the code
does, with `timeout--` wrapping at zero: `TimeoutAfterWait` and
`TimeoutAfterRounds` are the value left in the counter.  A card ignores
commands that are illegal in its state, and keeps the address it published
until the next CMD0.  The controller and the card are the environment, modelled
from what the driver relies on.

`SdBoot` adds `main` from `sd_init` on: `Mount`, `Open`, `Search` (one sector of
the directory), `CopySector`, and the ends of each.  A read returns 0 with the
data, returns 0 with whatever the controller held ("junk", counted in
`muddled`), or fails.  The heap appears as the number of blocks held and the
state of the header behind them, which `fat_init` overwrites.  The phase
`loader` is the handler of BOOTCODE_LOADING in the full loop, which calls
`sd_init` until it succeeds; it shares the driver and nothing else with main.

### NeighbourCache and AddressConfig

A cache is the array with its count; slots behind the count keep what they had,
which matters for IPv6, where half an entry is written there.  A lookup is one
step: while it waits, the code receives nothing.  The packets come from
`network_process_arp_packet` and `network_ipv6_process_nd`; their caller,
`network_process_packet`, is itself called by nobody in the repository, so who
calls them is the environment.  `announced` is a history variable.  Time is in
small units: ARP entries are stamped in seconds and compared in microseconds,
which the model does too; `ArpLimit` stands for the 600 000 of the code and
`ArpValidity` for the ten minutes of its comment.

A discovery is `Discover`, `TryDiscover` per try, and `GiveUp`.  `SendUdp` is
`network_send_udp` up to the link address; since that fails for the broadcast
address, what the code does with an offer has no state to start from and is
left out.

### Tftp and FileTransfer

The client's loop is one action per kind of packet: `ReceiveBlock`,
`ReceiveDuplicate`, `ReceiveOther`, `ReceiveFatal`, `ReceiveTimeout`.  The
server repeats a block that is not acknowledged; `Lose` takes the oldest packet
of a direction, so with repeats the client sees gaps, doubles and late packets.
Blocks are their positions in the file; a packet carries the position modulo
`BlockModulus`.  `Transfer` maps the buffer to the copied part of the file and
`max_size` to `room`: the number of blocks after which the code takes a full
buffer for the end, which it does only if the size is a multiple of the block's.

### The twelve parts of MCStandalone

`Watchdog`: a step of the hardware is one tick; `quiet` counts ticks since the
program last touched the watchdog.  `LogBuffer`: `logged` is the sequence that
the ring should hold; `WriteTooLong` is the message of 255 characters after
which `strncpy` clears the memory, and nothing is said of what follows.
`PerfMonitor`: the report is computed, as operators, from the same table the
code goes through, with all the types that `perfmon_calc_stats` looks for.  `MemTest`: a test is a sequence of
march elements, `VisitWord` does the reads and writes of one word, through
`Cell` and `Load`, which hold the fault.  `Fdt`: a blob is laid out in words by
`Words`, and the walks see only those; a turn of a loop of the code is one
action.  `BootMenu`: one action per key; a turn of the loop that skips disabled
items is `Move`.  `ConfigFile`: one action per line of the file; a value
is a sequence of digits and other characters, which `strtoul` and `atoi` turn
into a number as those of `config.c` do, with what stops them and their width.  `UsbHost`:
waits for a status bit are guards; the controller settles when it likes.
`BusTransfers`: one byte per step, FIFOs between the driver and the controller.
The one FIFO of I2C keeps its bytes from call to call, and only `i2c_init`
empties it; `left` counts those a call started with.

## 3. The runs

| Run | Question | Bounds |
|---|---|---|
| `monitor` | Under arbitrary requests, and under the boot loop with failing drivers and a dropping LED: do all steps keep to the rules, does the history ring tell the walk that happened, which recoveries start and return, are retries bounded, is a kernel entered only if loaded, and does every boot come to rest? | history of 2, clock modulo 16 000 ms, turns of 1000 and 5500 ms, three sources, 3 retries |
| `fsa_recovery` *(violation)* | Does each recovery end? | same |
| `boot_succeeds` *(violation)* | Does a boot with everything in order succeed? | turns of 500 ms, default sources |
| `card` | `sd_init` against every card and the run of main on top of it; the configuration under power failures, torn sectors and faults | 2, 3 and 3 rounds, counters modulo 8, a file of 7 bytes in 2-byte sectors and 2-sector clusters; one setting, counters up to 3 and 1 |
| `config_backup` *(violation)* | Is the backup used? | two settings, no faults but power |
| `sd_detect` *(violation)* | Does success of `sd_init` mean that there is a card? | 2, 3 and 3 rounds |
| `sd_mount` *(violation)* | Does main get to its idle loop with a FAT32 volume? | 2, 2 and 2 rounds, a label that is no pointer |
| `irq_stranded` *(violation)* | Does every frame in the ring have an interrupt raised for it? | 2 frames, ring 2, queue 2 |
| `discovery_asks` *(violation)* | Has a discovery that gives up asked anybody? | the network's, as `parts` |
| `arp_ageing` *(violation)* | Is an ARP entry that counts as valid younger than the comment's limit? | 2 hosts, caches of 2, a limit of 2 seconds, a validity of 1, 5 half seconds |
| `parts` | Reception with the handler against main; the caches under any answers; the download over a bad segment; and the twelve parts that share nothing, one per behaviour | 3 frames, one too long, ring 2, queue 3; 2 hosts, 2 link addresses, caches of 2, 5 time units; files of 1, 4 and 9 bytes in blocks of 2, buffers of 4, 7 and 10, numbers modulo 3, 3 packets each way, 2 repeats, 2 strays; the twelve parts: see below |
| `fdt_lookup` *(violation)* | Does a lookup by path end? | four trees, five paths |

Why these bounds are enough to meet the interesting cases:

* *Clock.*  The only comparisons are with the timeout of the state and with one
  second; a turn below and a turn above the period reach both sides of each,
  and the widths leave room for the longest timeout and one turn
  (`TimeAssumption`), which 2^32 does as well.
* *History.*  A ring of 2 wraps on every second request and has a predecessor
  for the newest entry.  In `BootMain` it is never read, so one entry will do.
* *Slots.*  The code looks at three failures and at no success; the counters
  reach exactly that.  With `MaxCount` 3 a fourth failure is not marked; the
  code would go on counting, with the same outcome of every comparison.  One
  setting is enough for `card`, where contents are told apart by their
  counters, and two for `config_backup`.
* *Rings.*  A queue longer than the ring and a ring shorter than the queue make
  both the full queue and the overflowing controller occur; the head wraps.
* *Heap.*  168 bytes hold up to five headers.  The requests are one below the
  alignment, two that leave different remainders, one for the whole heap and
  one that rounds up past the width of `size_t`.
* *Counter.*  With three values to a word and CHI starting at the last the low
  half carries and the count rolls over once.  A delay may begin at any
  point of that, so it meets no carry, one, or the rollover.
* *Mailbox.*  Two places are enough for an answer that is late, a request
  behind it, and a mailbox that is full.
* *Caches.*  Two slots and two hosts: a table can hold both, be full of one
  host's answers, or lose one to age.  A second of two units and limits of two
  and one let entries be fresh and stale.
* *Download.*  Numbers modulo 3 wrap within a file of five blocks, so 1 is
  expected twice, and a repeated block from before the wrap meets a client
  behind it.  Buffers are a multiple of the block and larger, smaller, or no
  multiple.  With the two repeats every block may be doubled, lost once and
  still arrive, or lost for good.
* *Watchdog.*  Three ticks to the millisecond in a counter of 8: timeouts up to
  2 ms fit, those of 3 to 5 are cut.  None is a multiple of 8
  (`WatchdogAssumption`; nor is any of 1 to 60 000 ms times 65 of 2^20).
* *Log, perfmon.*  A ring of three wraps; a table of three fills up, with three
  of the four phases or one of them again.
* *Memory.*  Four words of four bits, with each cell bit and each address line
  stuck either way, and the two lines shorted.  The march elements do not
  depend on the size but for the order of the words.
* *Trees.*  Data that looks like tags, lengths of 1, 2 and 3 modulo 4, empty
  words, a node at depth two, a tree without nodes, a tree cut off.
* *Menu.*  Eleven items, more than the digits reach, with disabled ones at both
  ends and next to each other; and a menu with none enabled.
* *File.*  Three lines over a table of two, so the table overflows; keys of every
  kind: text that is checked, addresses, numbers, time limits, and those for the
  table only.  The values are 20 (which is the built-in address), 0x2 (which
  converts to 0, and which a checked key refuses) and -3 (which wraps in a time
  limit and is no digit for an address).
* *USB.*  Addresses to 6 over a table of 4 and two ports, so that addresses
  going on over a second start would leave the table.
* *Buses.*  Transfers of none, one and five bytes through FIFOs of two: longer
  than the FIFO, and short enough for bytes that a failed write left to serve a
  read.
* *Polls.*  Two to three rounds are the least with a first, a last and, for the
  tries of ACMD41, a middle one; the modulus is larger than each count, as
  2^32 is larger than 10 000.
* *Kernel file.*  Two clusters, four sectors, the last one partial; two directory
  sectors with a deleted entry before the file.  The end-of-chain number is near enough
  for a wrong start cluster to be met and far enough not to stop a good load.

`CHECK_DEADLOCK FALSE` stands in the configurations of `BootMain`, `monitor` and
`boot_succeeds`: the loop stops in the kernel and in a terminal state.
Everywhere else TLC looks for deadlocks too; where a call never comes back,
or a part has ended, the module says so with a stuttering action of its own
(`Over`, `Hung`, `UsbLost`, `Rest`, `Cleared`, `StayReset`).

### What the properties say

* `LegalTransitions`: along rules only, with no interlock standing against the
  target, through requests, timeouts and recoveries alike.
* `HistoryIsPath`: what `fsa_get_history` returns is a walk of the rules that
  ends in the current state.
* `RecoveryOnlyForHardware`: three of the four recovery actions are dead code;
  the checks set the other flags for good.
* `RecoveryReturnsWithoutFailureRule`: recovery returns exactly where it fails
  to do its work, in a state without a rule to FAILURE.
* `LoadsSound` (retries are bounded, and the kernel is entered only when one was
  loaded), `BootSettles`: see `BootMain`.
  `BootSettles` holds with *every* behaviour of the devices.  It names the two
  ways of coming to rest that are no success: a recovery that recurses, and a
  state without a rule to FAILURE.
* `OneGoodCopy`: one torn sector never costs the last valid one.
* `SwitchEarned`: no interleaving of lost saves and restarts gives a slot up
  early.  Once a start-up could not read the primary the count may be an older
  one; the property ends there, on purpose.
* `RingConsistent`, `LineServed`, `LineReenabled`, `ImplementsFifo`: handler
  and caller share the queue correctly because receive disables the line; the
  mutant that does not is found.
* `Tiling`, `EnoughRoom`, `HeldBlocksUntouched`: the heap is
  a partition at all times.  `EnoughRoom` excludes the requests within 7 bytes
  of 2^64, for which the code's rounding wraps and malloc returns a block of
  no size.
* `TicksInWindow`: the two halves are read one after the other, and still the
  result is a count that was on the clock during the call.
* `DelayNotEarly`, `DueDelayReturns`: a delay is never early, over carries and
  the rollover alike, if milliseconds times 1000 fits 32 bits; and it returns
  once its end has come, unless the counter rolls over between the end and the
  next look.  It would then wait another turn.
* `MailSound`: answers and calls stay together, and a call to a firmware that
  answers in time succeeds, until
  the first call that times out.  After it nothing is promised, on purpose:
  the late answer is taken by the next call, and so on for ever.
* `ReadyUnlessSilent`, `HealthyCardComesUp`: `sd_init` may be
  believed unless a command went unanswered, and does not refuse a good card
  the first time.  (The second time it may: APP_CMD carries the old address.)
* `HeapBalanced`, `LoadSound`, `CallsReturn`: about the built bootloader, over
  every failure of a read: buffers are given back, a loaded file is the kernel
  and a missing one is absent, `sd_init` returns and main ends.  `LoadSound` is
  about files whose clusters are consecutive, see below.
* `AnswerAnnounced`: what a lookup answers was announced for that address, through
  stale entries, doubles and half-written slots.  When an entry should have
  aged is `ArpEntriesExpire`, which does not hold (Findings).
* `ImplementsTransfer`: the buffer is a beginning of the file at all times, and
  success means the whole file, or a full buffer of a multiple of 512 bytes.
  `DownloadEnds`: with a server that gives up in the end, so does the client.
* `ResetOnTime`: both directions, with what excuses the code (20 bits, kicks
  before the start) stated in the property.  It says nothing of a timeout that
  does not fit the counter, as `EnoughRoom` says nothing of a size that wraps,
  `MailSound` of a call after a timeout and `HealthyCardComesUp` of a second
  `sd_init`: there the code does what Findings lists, and nothing in the
  repository says otherwise.
* `ReadsNewest`, `FiguresAddUp`: readers of the log by index, and of a report,
  get what was recorded, with wraps, full tables and resets at any point.  The
  four phases of a report (hardware, drivers, file system, network) add up to
  no more than the whole.
* `TestsExact`: the march finds every fault of the model, and none of the tests
  but the random one accuses a sound memory.
* `FoundInTree`, `LookupEnds`: what is found is there, and a property is found
  if it is there; that a lookup ends is not so (Findings).
* `FirstAndLastLine`: which line of a file counts for whom.  `config_get` has the
  text of the first line of a key, valid or not; the variable has the
  conversion of the last valid one.
* `DevicesInTable`: the address is an index into a table of four; only that
  each start begins again with address 1 keeps it inside.
* `MoveEnds`, `TransferEnds`: the two loops without a bound end when there is
  something to find, and when the device is there, whatever an earlier call has
  left in the FIFO.

### Fairness

* `WF(RecoveryStep)` in `FsaMonitor`: a call that has begun runs on; there is
  one core and nothing preempts it.
* `WF(BootNext)`: the loop never blocks.
* `WF(IrqReceive \/ IrqClear)` and `WF(Section)` in `EthernetIrq`: a handler
  that has started ends, and the body of a receive or flush goes on whenever no
  handler runs.  Nothing is assumed of the device or of main calling again.
  That handlers do not starve main needs no assumption of strength: with the
  line disabled, no handler can start.
* `WF(Reads \/ Polls)` in `SystemTimer`: a call that has begun goes on, one
  core.  Nothing is assumed of the clock or of new calls.  The firmware of the
  mailbox has no fairness, and no property there needs one.
* `WF(SdStep)`, `WF(MainStep)`: one core, polling loops with a bound.
* `WF(Client)` in `Tftp`: the client polls with a time limit; it takes a packet
  that is there and gives up if there is none.  Nothing is assumed of the
  server or the segment: they may lose everything.
* `WF(TryDiscover \/ GiveUp)`, `WF(Walk \/ Search)`, `WF(Move)`: calls that wait
  for nobody.
* `WF(Driver)` and `WF(BusController)` in `BusTransfers`: the driver polls, and a
  controller shifts what it has and reports the end.  Without the second no
  wait for a device could end.

## 4. What is proved

TLAPS checks these for every value of the constants that satisfies the named
assumptions of the module.  "Alone" below says why the property is not its own
inductive invariant, and so what was added to it.

**The monitor and the boot loop** (`BootProofs`)

| Theorem | States | Argument |
|---|---|---|
| `MonitorTypeCorrect` | `Spec => []TypeOK` | types of each frame of `UpdateState` |
| `TransitionsLegal` | `Spec => LegalTransitions` | every writer of `current_state` goes through `UpdateState`; `UpdateStateLemma` says what one frame may do |
| `OnlyHardwareRecovers` | `Spec => []RecoveryOnlyForHardware` | alone, a request could meet a flag that is down; `OtherFlagsUp`: all but the hardware flag are up at all times, so the only recovery is RESET, whose call is FAILURE |
| `HistoryIsAPath` | `Spec => []HistoryIsPath` | alone, it says nothing of the entry that comes next; `Path` ties the newest transition to `current_state` and says where in the ring, wrapped or not, the next one goes |
| `LoadsAreSound` | `BootSpec => []LoadsSound` | `RetriesEnd`: the count is below the limit, or the hardware interlock refuses the request for FAILURE that the last failure makes, which then never returns; `KernelLoaded`: in the states behind the kernel's loading it is loaded |
| `BootTransitionsLegal`, `BootHistoryIsAPath` | `BootSpec => LegalTransitions`, `BootSpec => [](TypeOK /\ HistoryIsPath /\ RecoveryOnlyForHardware)` | every step of the loop is a step of the monitor, or changes its retry count only |

**The network** (`EthernetIrqProofs`, `NetworkProofs`)

| Theorem | States | Argument |
|---|---|---|
| `EthernetTypeCorrect`, `QueueConsistent` | `Spec => []TypeOK`, `Spec => []RingConsistent` | alone, the store of a decremented count could be of any old value; `TakenCurrent`: between main's load and its store the line is off, so what it loaded is still the count |
| `NoUnservedLine` | `Spec => []LineServed` | `ControlOK`: for each place of main, which of mask, GIC line and handler are set |
| `ReceptionIsFifo` | `Spec => ImplementsFifo` | `FifoStep`: every step is a step of `PacketFifo` or leaves its variables alone; the lemmas say how `Queued`, read off the ring, grows at the tail and shrinks at the head |
| `TftpTypeCorrect` | `TftpSpec => []TftpTypeOK` | `TftpInv` |
| `DownloadIsTransfer` | `TftpSpec => ImplementsTransfer` | `TftpInv`: the expected number is that of the blocks in the buffer, modulo the width; every data packet on the way carries one of two blocks, the one expected or the one before, because the server sends no new block before the old one is acknowledged.  So a number that has gone round is never taken for another's |
| `DownloadAdvances` | `TftpSpec => [](InDownload => ClientCanStep /\ DownloadLeft \in Nat)`, and each step during a download leaves less | a block not yet served is weighed with all its repeats, a request and a packet with the answer it may get; `TftpInv` has it that only a client that waits is served, and that a new block is sent only while one is left |
| `CacheTypeCorrect`, `LookupsAreSound` | `CacheSpec => []CacheTypeOK`, `CacheSpec => []AnswerAnnounced` | alone, a lookup could find what is in a slot that no one wrote; `EntriesIn`: the slots below the count hold announced pairs |
| `ArpNeverExpires` | `CacheSpec => [][...]_cacheVars`: below `ArpLimit` seconds of uptime a step leaves each address of the ARP cache what it was | stamps are not negative, so the age that the code computes stays below the limit, and nothing is taken out: the counterexample of `arp_ageing` is there for every size and time limit |
| `NobodyIsAsked` | `AddressSpec => [](sent \subseteq {"solicit"})` | every IPv4 destination is the broadcast address, which `Usable` refuses: the counterexample of `discovery_asks` is there for every number of tries |
| `LayersTyped` | `NetSpec => []NetTypeOK` | the four invariants together |

**The card** (`CardProofs`)

| Theorem | States | Argument |
|---|---|---|
| `SdTypeCorrect` | `SdSpec => []TypeOK` | the counters wrap within their words |
| `CardIsReady` | `SdSpec => []ReadyUnlessSilent` | alone, a success could come from a card that never powered up; `PoweredUp`: one that published an address did |
| `NoHealthyCardFails` | `SdSpec => []HealthyCardComesUp` | `Undisturbed`: where card and driver stand before each command, as long as nothing has befallen |
| `HeapIsBalanced` | `BootSpec => []HeapBalanced` | `HeldInv`: what is held in each phase |
| `LoaderIsRight` | `BootSpec => []LoadSound`, if `RunOfClusters` and `RootInSight` | `OnTheWay`, `Copied`: how far the search has come without a hit, and that the sectors in memory are those of the file up to the place that is read next; the arithmetic of sectors and clusters is in lemmas |
| `BootKeepsDriver` | `PartSpec => [](CardTypeOK /\ ReadyUnlessSilent /\ HealthyCardComesUp)` | `BootUsesDriver`: main changes the driver's variables through the driver |
| `ConfigTypeCorrect` | `ConfigSpec => []ConfigTypeOK` | whatever is loaded is replaced by the defaults unless it validates |
| `OneCopySurvives` | `ConfigSpec => []OneGoodCopy` | alone, the order of the writes is missing; `SaveInOrder`, `Copies`: while the backup is at risk the primary already holds the record |
| `SwitchesEarned` | `ConfigSpec => SwitchEarned` | `CountersCovered`: as long as nothing was misread, each counter in RAM, in the running save and in the primary is covered by failures that were marked |

**Heap, timer and services** (`ServiceProofs`)

| Theorem | States | Argument |
|---|---|---|
| `HeapTypeCorrect`, `HeapTiled`, `HeapRoom` | `HeapSpec => []HeapTypeOK`, `[]Tiling`, `[](EnoughRoom /\ FreeUnlessLive)` | alone, `Tiling` does not say that a free block may be merged or cut under no one's feet (`FreeUnlessLive`); all four are preserved by splitting, taking, merging and marking |
| `HeldUntouched` | `HeapSpec => HeldBlocksUntouched` | a block that malloc cuts is free and one that free absorbs is free, so no caller holds it |
| `TimerTypeCorrect` | `TimerSpec => []TimerTypeOK` | sums and the product stay within their words |
| `TicksLinearizable` | `TimerSpec => []TicksInWindow` | `HighRead`, `HalvesFit`: between the reads of the high half it lies between what it was at the call and what it is now, so if it is still the same, the low half belongs to it |
| `DelaysLastLongEnough` | `TimerSpec => DelayNotEarly` | `DelayRuns`: the counts of one turn of the clock are laid out on a line (`Pos`); a running delay has waited at least for the way from the count it started at, and if its end lies behind the rollover, it waits for that first |
| `WatchdogResetsOnTime` | `WatchdogSpec => []ResetOnTime` | `CounterArmed`, `CounterStarted`: what is left in the counter and the time since the last kick add up to the time asked for |
| `LogReadsNewest` | `LogSpec => []ReadsNewest` | `RingHolds`: slot and age of each message, modulo the size of the ring |
| `MailboxSound` | `MailSpec => []MailSound` | `OneMessage`: until the first timeout there is at most one message, in one place, and where it is follows from where the call is |
| `UsbDevicesInTable` | `UsbSpec => []DevicesInTable` | `AddressLimit`: the next address is no higher than the ports looked at since `usb_init` |
| `FileTakesEffect` | `FileSpec => []FirstAndLastLine` | `TableIsBeginning`, `VariableSet`, `TimeoutsMarked`: the table is the first lines of the file, a variable is what the last line that set it converts to, and the mark is up if a line for a time limit was read |
| `ReportAddsUp` | `PerfSpec => []FiguresAddUp` | `InOrder`: the table is in the order of time, and each difference is that to its neighbour; so after n records the sum of some of the differences is no more than the time passed (`TotalBounded`, over a least n for which it would be) |

**Device tree and memory tests** (`FdtProofs`, `MemTestProofs`)

| Theorem | States | Argument |
|---|---|---|
| `TreeLookup` | `FdtSpec => [](FdtTypeOK /\ FoundInTree)` | alone, a walk could stand in the middle of a property whose data looks like a tag; `OnTokens`: every offset the code holds is the offset of a token, because at a token the code reads that token's own words (`TokenFacts`) and steps over exactly these; `NodeIsWanted`, `SearchGoesOn`: the node has the name once the path is used up, and the properties passed have other names |
| `TestsAreExact` | `MemSpec => [](MemTypeOK /\ TestsExact)` | `SoundMemory`: without a fault the words hold what the running test wrote last, so nothing is missed; `FaultCaught`: the upward march errs at `ShownAt` at the latest, the address of the stuck bit, or the one that a bad line leads to the cell of address 0, which the march has set before |

**The parts of `MCStandalone`** (`StandaloneProofs`)

| Theorem | States | Argument |
|---|---|---|
| `PartsTyped` | `PartSpec => []PartTypeOK` | the twelve invariants together; those of the menu and the buses are proved here |
| `PartsImplement` | `PartSpec` implies the specification of every part | each step of the composition is one of a part, or leaves the part alone |
| `PartsSafe` | `PartSpec =>` every safety property of these parts in the run `parts` | the two above |
| `SelectionAdvances` | `MenuSpec => [][...]_menuVars`: a turn of the loop that does not end it is nearer to every enabled item | a remainder by the number of items is one step around the list |
| `TransfersAdvance` | `BusSpec => []NotStuck`, and each step of a transfer leaves less of it | `BytesKept`: what is sent is in the FIFO or moved, what has moved is in the FIFO or received; so when the driver waits the controller can go on, and the other way round |

The last two, and `DownloadAdvances` above, are what `MoveEnds`, `TransferEnds`
and `DownloadEnds` rest on besides fairness: something can always be done, and it
brings the end nearer.

Recursive functions (`Layout`, `Power`, `Stripes`, `Operated`, the sum of the
network times) are shown to exist, and to have the values their recursion
gives, from the smallest number for which they do not (`SmallestNumber`,
`LeastOf`, `LeastNumber`), since the library's induction theorems cannot be
instantiated by the provers; whatever else needs an induction is done the same
way.  The modules use such functions, over a range of numbers, in place of
folds and recursive operators.

### Assumptions

They are those the code has, each named in its module: a ring with an entry,
clocks wider than the longest timeout and one turn, a positive MAX_RETRIES
(`HistoryAssumption`, `TimeAssumption`, `OutcomeAssumption`); factory settings
that are settings and a bad sector that is no record (`FactoryAssumption`,
`BadAssumption`, `FaultAssumption`); a heap larger than a header in a `size_t`
that can express it (`HeapAssumption`); a word of at least one bit
(`TimerAssumption`); polls of more than one round that fit their word
(`PollAssumption`); cluster numbers that are numbers (`DiskAssumption`);
addresses in hosts that are neither zero nor broadcast (`HostAssumption`); a
counter that no timeout fills exactly to zero (`WatchdogAssumption`); a table of
USB devices with more than two slots, for the two ports (`UsbAssumption`); a
memory whose addresses fit a word, since the address test writes them as data,
and whose faults are of the three kinds (`MemAssumption`, `FaultAssumption` of
`MemTest`); blobs that begin with the root, end with FDT_END and give every
property a name and a length that fits its data (`BlobAssumption`); menus of
items that name a known action, and no negative default (`MenuAssumption`);
transfers of some bytes through FIFOs of at least one (`BusAssumption`).

`LoaderIsRight` has two hypotheses besides.  `RunOfClusters`: the file lies in
consecutive clusters.
`RootInSight`: the directory shows the kernel, if at all, in the sectors that
are looked at.  Without the first the theorem is false, since the code never
reads the FAT (see Findings); without the second a file that is there is
reported missing.  `MCSdBoot` assumes both of its card, so that TLC evaluates
them in the run `card`: they can be met.

### Only model-checked

All liveness: `RecoveryReturnsWithoutFailureRule`, `BootSettles`, `CallsReturn`,
`LineReenabled`, `DownloadEnds`, `DueDelayReturns`, `MoveEnds`, `TransferEnds`.
The prover has no ENABLED or fairness reasoning here.  Every invariant and
action property that a passing run checks is stated by a theorem.  So are three
steps towards liveness, `SelectionAdvances`, `TransfersAdvance` and
`DownloadAdvances`.

The runs that end in a counterexample (Findings) are about one instance each;
only `NobodyIsAsked` and `ArpNeverExpires` say of two of them that it is so for
every instance.

## 5. Findings

Each is a run that ends in a counterexample.

| Run | The code | What is said of it |
|---|---|---|
| `fsa_recovery` | the reset recovery asks for FAILURE, which the same interlock blocks: the two functions call each other without end (fsa_monitor.c:417) | docs/state_diagrams.md:117-118: a recovery ends, successful or failed |
| `boot_succeeds` | the second rule for HW_VALIDATION is dead (:192), its handler asks for nothing else, so the default boot times out into FAILURE | docs/MULTIDIMENSIONAL_FORMAL_VERIFICATION.md:267, boot success |
| `config_backup` | the primary is returned if it could be *read*; it is validated later, and then the defaults are used (config_persist.c:187) | config_persist.h:12, a backup copy |
| `irq_stranded` | one frame per interrupt (ethernet_irq.c:92), then the bit is cleared (:141) | docs/ENHANCEMENTS_PHASE2.md:61, automatic reception |
| `sd_detect` | after `while (timeout--)` the counter is 0xFFFFFFFF, never zero (sd.c:154) | the code's own "ACMD41 timeout" |
| `fdt_lookup` | `fdt_next_node` returns the node it starts at (fdt.c:130), so `fdt_path_offset` (:267) never gets past a node that does not match | docs/ENHANCEMENTS_PHASE2.md:112, path lookup |
| `discovery_asks` | sending to 255.255.255.255 first asks ARP for it, which refuses (network.c:175, :320): DHCP, BOOTP and PXE send nothing | docs/ENHANCEMENTS.md:117, real DHCP |
| `arp_ageing` | a stamp in seconds is subtracted from microseconds, and the whole seconds of the rest are compared with 600 000 (network.c:183, :298): an entry is used until the machine has been up for almost a week | the comment at network.c:183, "(10 minutes)" |
| `sd_mount` | 512 bytes are read into a block of 52 (sd.c:239), over the next header; malloc follows the volume's label | README.md:179, all subsystems initialize |

Also met while modelling, and in the models as the code has it, without a run
of their own:

* A timeout never starts the RETRY recovery that the design describes for it;
  `fsa_handle_timeout` goes to FAILURE at once (fsa_monitor.c:359).  In a
  state without a rule to FAILURE the request is refused and repeated on every
  tick; `BootSettles` lists this ending.
* `active_interlock` is not cleared when a state is entered (fsa_monitor.c:301).
* The USB path and the module path go to the kernel without the attestation
  states; `USB_BOOT_INIT` has no rule to FAILURE, which its handler asks for.
* A slot that has succeeded once is never given up, however often it fails
  later (config_persist.c:314).
* The flush that ends `ethernet_irq_shutdown` enables the GIC line again
  (ethernet_irq.c:227, called at :249).  The controller's mask is clear by
  then, which is why `LineServed` holds.
* A frame longer than the buffer stays at the head of the receive ring, and
  nothing behind it is received (ethernet.c:119).
* `free` merges with the block behind and never with the one before, so a heap
  given back completely may remain divided (memory.c:63).
* After a mailbox call has timed out, its answer is taken by the next call, which
  reads the buffer before its own answer is in it; it fails, or returns what
  the firmware wrote for an earlier tag (mailbox.c:59).
* A delay whose end lies just before the rollover of the 64-bit count may miss
  it (timer.c:44); the comment at timer.c:39 has the other case only, the end
  behind the rollover.  A delay of 2^32 or more microseconds is cut to 32 bits
  (timer.c:49).
* `fat_read_file` counts clusters up and never reads the FAT (sd.c:361); a
  fragmented file is loaded wrongly.  `MCSdBoot` has the consecutive chain.
* An ARP cache keeps the first answer for an address: a later one is appended
  behind it and never found (network.c:293).  The second lookup of IPv6 does
  not look at the age of an entry at all (:1380).
* The TFTP buffer that is full to the byte ends a longer file with success
  (network.c:890).  A repeated block is not acknowledged again once its number
  lies behind the wrap (:893).
* `network_pxe_boot` compares an unsigned size with `<= 0`, so the -1 of a
  failed download is returned as a size; IPv6 PXE loads nothing and reports
  1024 bytes (network.c:1509).
* `network_process_packet` wants 1514 bytes at least, 1542 for ARP, and has no
  caller.  The machine's own address, gateway and DNS server stay 0.0.0.0.
* A watchdog of 30 s resets after 13.9 (watchdog.c:55); between `watchdog_init`
  in reset mode and `watchdog_start` the counter runs and kicks are ignored.
* The random memory test draws other numbers for the comparison than it wrote:
  `prng_seed(prng_state)` seeds with the current state (memtest.c:262).  The
  address line test never visits the first word (memtest.c:182).
* A full table of checkpoints drops BOOT_COMPLETE too (perfmon.c:50).
* A digit in the boot menu returns the result of the action, 0 or -1, in place
  of the selection (boot_menu.c:188); the timeout is not used; with every item
  disabled j and k do not come back.
* config.txt: `config_get` returns the first line of a key and the variable has
  the last (config.c:429); what the checks of network addresses return is not
  looked at (:296).  `strtoul` knows no prefix (:44), so `kernel_address=0x80000`,
  as scripts/test_bootloader.py writes it, sets the variable to 0.  A line
  that gives 80000 counts as "not set in config" (:384).  A key of 31 or a value
  of 127 characters makes `strncpy` clear the memory behind the table, a file
  name of 255 that behind the variable (:37).
* A log message of 255 characters or more makes the `strncpy` of `log.c` clear
  the memory behind the entry (log.c:60); no caller in the repository logs one.
* `usb_msc_init` reads descriptors from a buffer that nobody fills (usb.c:290).
* `i2c_read` from a device that is not there does not return (i2c.c:86);
  neither does a write of more bytes than the FIFO has room for.  What a failed
  write leaves in the FIFO is not cleared (only `i2c_init` does, i2c.c:34): the
  next read takes those bytes for the device's and reports success.
* `validate_filename(kernel_filename)` in the loaders (old/main.c.complex:459,
  :548) cannot fail with the default names, so `HandleLoad` has no branch for it.

## 6. What is not modelled

Console output, formatting and the arithmetic of checksums and hashes are left
out throughout.

* *GPIO, UART, PWM, clock, start-up, HAL and board tables*: register writes and
  constant tables, with no state to check.
* *IP dispatch and ICMP* of `network.c`: nobody calls it; and what follows a
  successful send in DHCP, BOOTP and PXE, which no call reaches.
* *Protocol objects*: records of function pointers out of an allocator that
  only goes forward; all their receive functions return -1.
* *Secure boot, attestation, cryptography*: `enabled` of `secure_boot.c` is
  never set and `locked` never read, so the chain takes no decision that
  anything depends on; `security.c` returns 0 on every path, which `BootMain`
  has.  What is left is arithmetic on fixed inputs.
* *Verification tables*: constant tables and printed reports.  The
  guards on its counts do not fit the sizes of its arrays, but nothing in the boot adds to
  them.
* *`dtb.c`* writes one fixed tree, and the header checks of `fdt.c` are one
  comparison each.
* *USB bulk transfers*: stubs that succeed and leave the buffer alone.
* *The shell* calls one function of another part per command.  Its history
  keeps the first lines and not the last.
* *The transmit ring* of `ethernet.c` goes by one status bit of the controller
  alone; a property would restate an assumption about that bit.
* *`fsa_log_transition`* has eight names for 44 states; what it prints for
  the others is undefined, and no state follows from it.
* *The watchdog of the boot loop* (`old/main.c.complex:86`) writes PM_RSTC without
  PM_WDOG; its reset would be a crash of the whole loop, which `BootMain`
  does not have.


## 7. Plan

The safety of what is modelled is proved.  What could come next:

1. The measure behind `CallsReturn` and `BootSettles`, as for the download, the
   menu and the buses.
2. The second half of the file path: a chain of clusters that is read from the
   FAT, once the code does so, in place of `RunOfClusters`.
3. The transmit ring, if the controller's status bit is ever specified.

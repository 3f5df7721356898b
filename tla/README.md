# A TLA+ verification project for switchtec-user

`libswitchtec` and the `switchtec` command talk to the management endpoint of a
PCIe switch.  This directory holds TLA+ models of the parts of the library whose
correctness depends on order, loss, retries and concurrency, and of the commands
as sequences of what they test, ask and send; the TLC
configurations that check them on small instances, and proofs, checked by
TLAPS, that the most important of their properties hold for every value of the
constants.  Modules are written from the source, and `PROJECT.json` ("map")
names, for every definition, the lines it stands for.

Check a model with `tlc -config MCX.cfg <module>` and a proof with
`tlapm X_proofs.tla`; the runs are listed in `PROJECT.json`.

## 1. Inventory

| component | state it keeps | operations | hard behaviour | what makes it correct |
|---|---|---|---|---|
| GAS access (`lib/switchtec_priv.h`, `struct switchtec_ops`) | the device handle | read, write, write-no-retry, copies | every transport does it differently | a read returns what was written; a no-retry write happens at most once |
| I2C/TWI (`lib/platform/linux-i2c.c`) | command tag, file; in the switch the status latch | `i2c_gas_read/write`, tag, status poll, SIGBUS | lost frames and answers, two retry loops, tag wrap, reopening | an acknowledgment belongs to a write that landed; nothing lands late |
| UART (`lib/platform/linux-uart.c`) | the tty and what is still in it | `gaswr`, `gasrd`, retries, SIGBUS | answers without identity, late answers, CRC errors | an answer is taken only for the command that asked |
| Ethernet (`lib/platform/linux-eth.c`) | command and event sockets | commands, GAS reads/writes, event wait | partial and late answers on a stream | an answer belongs to its command |
| character device (`lib/platform/linux.c`) | a file descriptor | `linux_cmd` (write, read), ioctls, poll | EBADE retry, EIO and reopening | a command runs once per call |
| MRPC over the GAS (`lib/platform/gasops.c`, `platform.c`, `lib/fw.c`) | none; the mailbox is in the switch | `gasop_cmd`, `fw_gasop_cmd`, `switchtec_cmd_nopoll` | timeouts with a late end, two processes on one mailbox, retried command writes | critical commands run once; the answer belongs to the command |
| event headers (`gasops.c` `event_ctl`, `fw.c` masking) | none; headers in the switch | read-modify-write of headers | no lock, hardware sets bit 0 meanwhile, restore after errors | no event is lost; enables are what was asked |
| waiting (`lib/events.c`, `linux_event_wait`, `gasop_event_wait_for`) | start time | clear, poll, check, time out | wake-ups, other waiters, other events | no lost wake-up; no stale event; timeouts |
| firmware download (`lib/fw.c`) | offset, status, saved interrupts | `switchtec_fw_write_fd/_file`, waiting loops | failed queries, kills, two updaters | 0 means that the image was accepted; interrupts are restored; it ends |
| partitions and toggling (`lib/fw.c`) | partition table of the switch | toggle, boot partition, redundancy, metadata | several commands that belong together, options a generation drops | what is reported is so; the boot partition is read-only again |
| fabric (`lib/fabric.c`, `cli/fabric.c`) | dump sessions in the switch | bind, unbind, topology and GFMS dumps, NVMe passthrough, end point registers | sessions left open, polling without bound, two dumps at once | sessions are closed; the data belongs to one dump |
| diagnostics (`lib/diag.c`, `cli/diag.c`) | capture sessions in the switch | eye, cross hair, LTSSM and OSA logs, loopback, patterns, injection | state left between commands, background measurement that is polled | a capture returns its own data; modes are what was asked |
| manufacturing (`lib/mfg.c`, `cli/mfg.c`) | OTP and security state | read and set the configuration, KMSK, debug unlock, keys, boot phases | irreversible steps after queries that may fail or be stale; keys sent apart from what needs them | nothing irreversible without the tests and the user; keys are the call's own |
| device access (`lib/switchtec.c`) | the handle | open, list, status, logs, temperatures, pins | generations with other commands, log continuation | a log is got to its end |
| performance monitoring (`lib/pmon.c`) | counters in the switch | event, bandwidth and latency counters | found free and then set up; measured later than set up | a measurement is that of the own setup |
| GAS by MRPC (`lib/gas_mrpc.c`) | none | chunked reads and writes | chunk boundaries | the bytes arrive where they should |
| CLI (`cli/*.c`) | the arguments | one command per process | several library calls that belong together | what was changed for the time of a command is changed back |
| Windows (`lib/platform/windows.c`), parsing and drawing of the CLI, headers, build | - | - | - | - |

Everything is single-threaded within a process; concurrency comes from other
processes (of this or another host), from the switch, which works in the
background, and from the kernel driver.  The components are layered: the CLI
calls the library; the library builds MRPC commands; a command goes to the
kernel driver (character device), to a socket (Ethernet), or through the mailbox
in the GAS; the GAS is mapped memory, or is reached over I2C or UART.  Events
come back as header bits in the GAS, which the driver turns into `poll()`
wake-ups.

The behaviours a test would hardly reach are listed, each at its line, under
"hazards" in `PROJECT.json`.

## 2. Modules and how they correspond to the code

**`GasPort`** is the abstract specification of the GAS access of
`struct switchtec_ops` for one process: a call is pending, its effect lands once
(at least once for a retried write), it is acknowledged, or the process dies of
SIGBUS.  The chunks of one access are its alphabet.

**`TwiGas`** models `linux-i2c.c` over a bus that loses any frame or answer.
`pc` is the place in `i2c_gas_write`, `i2c_gas_write_no_retry` or
`i2c_gas_read`; `tag` is `idev->tag`; `retry` and `sretry` are the counters of
the two loops; `latch` is the status the slave holds (the tag and state of its
last write).  `Send`, `PollHit`, `PollAgain`, `PollMiss`, `ReadHit`,
`ReadPecAgain`, `ReadMiss`, `NextChunk` and `Return` are the driver's steps;
`SlaveDone` and `SlaveRefuses` are the switch.  `Reopen` is a new
`switchtec_open_i2c`: `idev` comes from `malloc`, so its tag is arbitrary.
`TwiGas` implements `GasPort` (`PortSpec`).

**`UartGas`** models `linux-uart.c` with the console of the switch.  An answer
is typed by the console some time after its command; `read_resp_line` may give
up first, and the answer is then found by a later command.  A read recognises
its answer by the address (`ReadAns`); a write by the 8-bit CRC of address and data
(`WriteAns`, `Answers`), and nothing else: `Crc` is a constant, any function of the
two, so that different writes may be answered alike.  `last` and `mixed` are
histories: the last write, and whether a write has begun while copies or answers of
another one with the same CRC were still under way.  `faults` is the set of disturbances of the
behaviour: `data` (digits of a read are spoilt, which a CRC reports), `stack`
(the answer buffer holds the previous line when nothing came), `refuse` (the
console rejects an address).

**`GasopCmd`** models the MRPC mailbox with `gasop_cmd`, `fw_gasop_cmd` and
`switchtec_cmd_nopoll`.  Input words, the command register, the status polls,
the return value (after DONE `RetValue`, after ERROR `ErrValue`) and output words
are separate steps; `Land` may happen more than once for a retried write.
`NoRetryAll` and `NoRetryToggle` are the table of commands whose write is not
retried, and `NoRetryCmd` the function that looks a command up in it.  What must not be
carried out twice is said apart from that table, from what the commands do:
`Critical` are those with which `lib/mfg.c` burns OTP memory, and the toggles of
`lib/fw.c`.  `Unlisted` are the four of them that the table lacks (section 5).  `OnceIsOnce` says whether the transport keeps the
promise of `gas_write32_no_retry` (`OnceAtMostOnce` of `TwiGas`; UART does not).

**`EventHdr`** models the read-modify-write of event headers: `Ctl`, `CtlRead`,
`CtlWrite` are `switchtec_event_ctl`; `Mask`, `Masked`, `Restore` are
`fw_gas_mask_irq` and `fw_gas_restore_irq`.  `Occur` is the switch, `Irq` the
interrupt handler of another host's driver.

**`EventWait`** models `switchtec_event_wait_for` on `poll()` and
`gasop_event_wait_for`, with a clock.  Steps of a process that runs take no
time; `Tick` needs everyone blocked.

**`FwDownload`** models `switchtec_fw_write_fd` and `_file`; an MRPC command is
one step that succeeds, is answered with an error (`ret > 0`) or is not answered
(`ret < 0`).  The programming of a block by the switch is a background step.

**`LinuxCmd`** models `linux_cmd` over the character device for any number of
processes with a descriptor each: `Submit` is the write and the look at `errno`,
`SubmitFails` a write that fails otherwise, or is short,
`Drain` the read that makes room before `goto retry`, `Read` the answer and
`linux_reopen_fd`.  `Finish` is the driver and the switch: a command is answered,
refused, aborted, or cut off until the descriptor is opened again.  What can go
wrong in a behaviour is chosen per process (`faults`): signals, refusals,
unfinished commands, an open that fails, `EBADE` in `errno` from before.  The
histories `own` (the descriptor holds a command of this call) and `runs` let
the number of calls be unbounded.

**`EyeCapture`** extends it with the Gen5/6 eye capture, a sequence of calls:
status, run, status until it is done (`switchtec_diag_eye_cmd_gen5`,
`switchtec_diag_eye_status_gen5`), and the reads of `eye_capture_dev_gen5`.
`app` is the place in them; every call is the `Call` of `LinuxCmd`, and
`Execute` is its `Finish` with what the capture engine does.  `eye.by` is the
process whose last call started the capture the engine holds; a start that
comes late from an interrupted call of an earlier capture belongs to nobody.
`seen` is `eye_status`, which is not initialized.

**Commands of several steps.**  Most of `cli/*.c`, `lib/mfg.c`, `lib/fw.c`,
`lib/fabric.c`, `lib/diag.c`, `lib/pmon.c` and `lib/switchtec.c` are functions
that test something, ask the user, send a command, look at the answer, and go on
or give up.  They are translated as data: `Script` has one operator for each
control construct of C that occurs in them (`Need` is an early return, `When`,
`IfElse`, `Instead` and `Case` are conditions, `Until` and `Times` are loops, `Try` a
call whose result is looked at instead of returned, `Cmd` a command and the early
return behind it, `Post` a command nobody waits for, `Input` and `Confirm` what
depends on the user, `++` one thing after the other), and each function is the
syntax tree of its steps, under its own name, calling the functions it calls:

* `MfgCmds`: `lib/mfg.c` and `cli/mfg.c`;
* `FwCmds`: toggling, boot partition, partition information, images, of `lib/fw.c` and
  `cli/main.c`; `PmonCmds`: `lib/pmon.c` and its commands of `cli/main.c`;
  `DevCmds`: opening and the rest of `lib/switchtec.c` and `cli/main.c`;
* `FabricCmds`: `lib/fabric.c` and `cli/fabric.c`;
* `DiagCmds`: `lib/diag.c` and `cli/diag.c` (but the Gen5/6 eye, which is `EyeCapture`).

A command of the switch is a name; two that do the same to what the properties
look at may share one.  Each module has an operator with what the switch does with
its commands (`MfgEffect`, `FwEffect`, ..., external), and the menu of its commands
with the sets of options they are run with.  The result of a C function is `res`:
`ok`, `mrpc` (above 0, the switch refused), `sys` (below 0) or `err` (a test of the
function itself); the difference matters, because many callers test `ret < 0` only.

**`Shell`** runs the scripts of several processes against one switch.  `job[p]` is a
process: the steps it has left (`todo`), the functions that wait for the result of
the one that runs (`callers`), what it has been told (security state, what is left of a
dump, the counter it found), and histories (`met`: what others changed meanwhile,
`failed`: the commands that failed, `sure`: how often the user agreed, `got`: the
parts of its own dump).  `sw` is the switch: security state, keys received, boot
partition, active partitions, loopback modes, counters, sessions with their owner,
and what it is working at (`work`).  `Start` is a call of the command line; `Done`,
`Failed` (refused, or lost before or after it was carried out) and `Posted` are a
command; `Agrees` and `Refused` are the user and his files; `Kill` ends a process
anywhere; `Collected` is the switch finishing or failing a measurement or a topology.  Between two
of these steps the tests of the script are taken at once (`Settle`), since they
look only at what the process itself knows.  `Test` is one of them: it opens the
construct that is next, or returns.

Definitions that a comment calls a mutant are wrong variants of the
definition after them; they are used only to show that the properties notice.

## 3. What the runs check

| run | instance | what it shows |
|---|---|---|
| `twi` | 2 sessions, 2 words, tags wrap within one session | `AckMeansLanded`, `OnceAtMostOnce`, `Coherent`, `NothingLate`, `CallEnds`; `PortSpec`, that the driver implements `GasPort`; `Inv`, the inductive invariant |
| `uart` | 3 calls, 2 tries, 2 addresses, 3 values of which two have the same CRC at one address, all sets of faults | `Coherent`, `QuietAfterReturn`, `ReadYourWrites`, `CallEnds` |
| `uart_sends_twice` | 1 call | finding: the no-retry write of UART retries |
| `mrpc` | 2 processes, 2 words, 2 calls of 4 kinds, 2 polls, deaths | `CriticalOnce` (but for `Unlisted`), `OwnResponse`, `CallEnds`; `Inv`, inductive |
| `hdr` | 2 callers, 1 updater, 2 headers, another host | `CtlLosesNoEvent`, `AsAsked` |
| `hdr_update_loses_event` | 1 caller, 1 updater | finding: masking clears a pending event |
| `wait` | 2 waiters, `poll()` or GAS, timeouts 0 and 2 | `TimeoutBounded`, `OneMeansOccurred`, `OccurredEndsWait` |
| `wait_too_long` | 1 waiter, timeout 3 | finding: the rest of the timeout grows with every wake-up |
| `fw` | 2 updaters, 2 blocks, 2 calls | `SuccessWithoutErrors`, `IrqRestored`, `UpdateEnds` |
| `fw_false_success` | 1 updater, failing queries | finding: 0 for an image that is not in flash |
| `shell` | 17 menus: every command alone, and pairs of processes; one fault | `AuthIsOwn`, `IrreversibleAsChecked`, `BootRoRestored`, `SettingsAsReported`, `DumpIsOwn`, `SessionsClosed`, `MeasuresOwnSetup`, `FreeCounter`, `CommandEnds` |
| `eye` | 2 processes, 2 bins, 2 polls, four sets of faults | `OwnAnswer`, `RunsOnce`, `DataMine`, `CallEnds`, `CaptureEnds`; `CaptureInv`, inductive |

*Bounds.*  Two words, headers or blocks make every loop over them run its body
for the first and the last element and be interrupted in between.  Two calls or sessions let what
one leaves behind (a late answer, a latched status, masked interrupts, a stale
download status) meet the next; UART needs three, since a late answer can be
passed on once more.  Two tries or polls are the least with a retry and a last
try.  Two processes give every pairwise interleaving; the code has no step that
involves three.  In `eye` the number of captures is not bounded; either both
processes run and one meets some of the faults, or one runs alone and meets all
of them.  In `shell` a menu is one of: all commands of a module, one call, in every
generation and boot phase (and security state, boot partition and counter, where
they matter); two loopback commands in a row; or two processes with one call each
out of the commands that use the same part of the switch (keys, OTP memory, boot
partition, partitions, dumps, measurements, logs, counters).  One fault, anywhere,
is enough for every error path, and for a kill between any two steps; two would
only add what fails after an error.  `Chunks` is 2, so that every dump is read
more than once; queues hold two entries; the loops over lanes, parts and batches run twice (`Lanes`, `Parts`, `Batches`).
Processes start in the order of their numbers, as they are alike.  The clock of `wait` runs to three timeouts, the longest wait.

*Deadlock* is checked in `eye`, where a process can always start another capture,
and in `shell`, where only a state in which every call has ended may stop (`Terminated`).
Elsewhere it is not: calls are bounded by `MaxCalls` or `MaxSessions`, and a
process that was killed by SIGBUS stops.

*Conditions.*  Some properties are stated for the behaviours in which the code
can keep them, by a history variable: `alone` (no other command overlapped),
`overlap` (another call ran meanwhile), `shared` (another process started a
capture meanwhile), `mixed` (a write met another of its CRC under way), `faults`, and in `Shell` `met` (what another call has
changed) and `failed`; and `CriticalOnce` for the commands that are not `Unlisted`.
They are not dropped cases:
what happens without the condition was looked at with TLC, and is written down
in section 5.

*Fairness.*  `WF` of the steps of a process that is running (it is scheduled),
of the background programming of the switch in `FwDownload` (its own firmware;
`UpdateEnds` rests on it), and of the clock and the interrupt in `EventWait`.
In `eye` the driver passes on every command it
has queued and the switch ends it: `read()` on the device has no timeout, so
`linux_cmd` ends only if the driver does that.  The capture engine itself is
not fair; the loop gives up.  In `shell` some process that runs goes on (`WF` of all their steps together, which is
weaker than fairness for each), and the switch ends what it works at: the topology
is polled without a bound.  Nothing is assumed of the bus, the serial line, or, in `GasopCmd`, of the switch
ending a command: those calls end by their own counters.  Starting calls is never fair.

*Mutants.*  For every property of a passing run `PROJECT.json` names a plausible
bug in a definition that TLC then finds with that property.

## 4. What is proved

All theorems are for arbitrary values of the constants under the named
assumptions of the modules (`BoundsAssumption` and `TagAssumption`, `UartAssumption`,
`CmdAssumption`, `HdrAssumption`, `WaitAssumption`, `FwAssumption`,
`LinuxAssumption`, `EyeAssumption`, `MenusAssumption`).

*`TwiGas_proofs`.*  `AckMeansLanded` is not inductive: an acknowledgment is
recognised by its tag, so what must be known is that the tag in the latch is
never the one about to be drawn unless the latch shows the write just sent.
`Inv` says that, with what is pending in each `pc`.  From it follow
`AckMeansLandedHolds`, `OnceAtMostOnceHolds`, `CoherentHolds`, `NothingLateHolds`
and `ImplementsPort`, that each step of the driver is a step or a stutter of
`GasPort`.

*`GasopCmd_proofs`.*  `Inv` says that what runs or ran has landed, counted, and
that a command that is sent once has landed at most once, and not before its
caller reached the register write.  `CriticalOnceHolds` follows, for any number
of processes that share the mailbox, give up or die: it rests on a case analysis
that every critical command which is not `Unlisted` is found in the table, with its
subcommand, or is sent by `switchtec_cmd_nopoll`.  `OwnInv` adds what the last
call finds at each of its places if it is `alone` (`Own`): nothing runs before its
command landed, what runs then has its input, and DONE is said only of that; so
`OwnResponseHolds`, for any size of the mailbox.

*`EventHdr_proofs`.*  `TypeHolds`, and `CtlLosesNoEventHolds`: whoever else
reads and writes, `event_ctl` clears bit 0 only of an event it has read and was
asked to clear.  The argument is on one step: `CtlWrite` writes bit 0 only if it
was read as set.  `AsAskedHolds` rests on `AskedInv`: while nothing has run into
anything one process at most is busy, and `Knows` says what it has read of the
enable bits and which headers it has masked and not yet restored.

*`UartGas_proofs`.*  That a write which returned is in the GAS cannot be seen from
the answer, which may belong to an earlier attempt, or, as far as its CRC goes, to
another write; the line must be known.  All is proved for any function `Crc`, and of
behaviours that are `Clean`: no write has met another one of its CRC under way.  `Inv`
says that between writes everything on it is a copy of the last write, whose value
the GAS holds, or a read with a true answer (`Settled`), and that during a write the
copies of the one before, if that was another, come first and have another CRC: behind a copy of this one there is nothing older, and once an answer has its
CRC the GAS holds it (`Writing`).  Each step of driver,
console and line keeps this (`SendKeeps`, `ReceiveKeeps`, `ConsoleKeeps`, ...), over
lemmas on what is appended to and dropped from a sequence.  `CoherentHolds`,
`ReadYourWritesHolds` and `QuietAfterReturnHolds` follow, for any number of
addresses, tries and calls.

*`EventWait_proofs`.*  `OneMeansOccurred` needs that an event found in the header by
a call that has cleared it occurred since (`Fresh`), whoever else clears;
`TimeoutBounded` that a waiter begins to sleep before its timeout, that its sleep ends
before the bound (`Late`), and that the clock does not pass that end (`Punctual`).  From `InvHolds` follow
`OneMeansOccurredHolds` and `TimeoutBoundedHolds`.

*`FwDownload_proofs`.*  Both properties are about a call that is alone (`~overlap`):
`AloneInv` says whose the masked interrupts are and which of them are saved at each
place of the two loops (`Masked`), and that the block in the switch, and what it will say of it,
are of the image of this call (`Mine`, `Here`).  `SuccessWithoutErrorsHolds` and
`IrqRestoredHolds` follow, for any number of updaters, blocks and calls.

*`EyeCapture_proofs`.*  First the handle: `Inv` of `LinuxCmd` says that a call that
waits for its answer has its own command in the descriptor, and that before that
it has run nothing, unless `errno` was `EBADE`; the part of each process is kept by
its own steps and untouched by the others'.  From it follow `OwnAnswerHolds` and
`RunsOnceHolds`.  Then the captures: by `CapturesAreCalls` every behaviour of theirs
is one of `LinuxCmd`, so what was proved of the handles holds for them, and `Inv` is
reused.  `CaptureInv` adds where each command of a capture can be (`Tracked`) and,
while no other process interferes, whose capture the engine holds (`TrackedAlone`).
The decisive part is that once the own start was answered no older start of the
process is left in its descriptor.  `CaptureInvHolds` includes type correctness;
`DataMineHolds` follows.

*`Shell_proofs`.*  All safety properties of `Shell`, of every command of the menus,
for any number of processes and calls, any options, any parts of a dump, any number
of faults, and any state of the switch at first.  The properties are about the
middle and the end of scripts, so the invariant has to say what is known at each
place of each script.  It does so as Hoare's logic does, with the places of a script
as its states:

* A *fact* is a name with a meaning (`Has`): "pub" says that the last key the switch
  was sent is of this call, or that another call has sent one since; "more" that a
  part of the dump is left; and so on.  A place is a set of facts, the steps left,
  and the callers that wait.
* A set of places is *closed* (`Closed`) if from any of them, with any call and switch
  of which the facts hold, every test leads to a place of the set whose facts hold,
  or to an end of which the properties hold (`Fin`); and if, where a command or a
  question is next, the command may be sent (`May`), and what follows its success, its
  failure and its loss is a place of the set again.
* `Inv` says that each call that runs is at a place of some closed set, that those that
  ended left what `Fin` says, that numbers of calls are not shared, and that the
  switch is in a state it can be in.

`Inv` is kept by the steps of a process, as its set is closed (`OwnStep`, `SettleHolds`,
with a lemma for each action), and by those of the others, as facts are stated so
that they survive what is in `met` (`OutsideHas`).  Closed sets exist because each
construct of `Script` has a rule (`DoesSeq`, `DoesNeed`, `DoesIf`, `DoesUntil`, `DoesTry`,
...: `Does(R, F, K, t, L)` says that from K the steps t lead to L, and where they end
with a result of R, to F), and each command keeps the facts it does not touch (`Keeps`,
`CmdKeeps`) and gains those it establishes (`Gains`).  The loop of `Until` needs one
invariant set of facts, no induction, so nothing hangs on `Chunks`.  Then every
function is gone through by its rules.  Most of the commands keep what any harmless
call keeps (`Meek`, one line each); those the properties are about have a lemma each:
the authentications, OTP memory and settings of `MfgCmds`, the update and the toggle,
the counters, the loopback modes, and the sessions.  `AllRuns` collects them, `InvHolds`
is `Spec => []Inv`, and `ShellTypeOK`, `ShellAuthIsOwn`, `ShellIrreversibleAsChecked`,
`ShellBootRoRestored`, `ShellSettingsAsReported`, `ShellDumpIsOwn`, `ShellSessionsClosed`,
`ShellMeasuresOwnSetup` and `ShellFreeCounter` follow.  A change of a script, or a new
one, needs only the lemma about that command again.

*Bounds.*  Liveness needs fairness and ENABLED, but what makes a loop of the code end
does not: it has a counter.  For each of them a measure counts the steps a call has
left, from its place and its counters, and a theorem says that it is a number within a
bound, positive while the call runs, and that each step of the call makes it smaller and no
step of anyone else makes it larger.

| Theorem | Loops | A call takes at most |
|---|---|---|
| `TwiGas_proofs!TransferIsBounded` | `i2c_gas_write`, `i2c_gas_read` and the status polls in them | `MaxRetry * (MaxStatusRetry + 1)` steps, a read `MaxRetry * MaxRetry` |
| `UartGas_proofs!CallIsBounded` | `uart_gas_read`, `uart_gas_write` | `2 * RetryNum` steps |
| `GasopCmd_proofs!CallIsBounded` | `gasop_cmd`, where polls count ("slow") | `2 * NumWords + MaxPolls + MaxLand + 2` steps |
| `EyeCapture_proofs!HandleIsBounded` | `goto retry` of `linux_cmd`, for a handle that is `Spared` | 4 writes and reads |
| `EyeCapture_proofs!CaptureIsBounded` | waiting for a capture and reading it | `Timeout + 2 * Bins + 4` commands |
| `FwDownload_proofs!UpdateIsBounded` | `switchtec_fw_write_fd`, `switchtec_fw_wait` | `2 * NBlocks + 5` places; the measure stays while a failed query is repeated, where `tries` falls, and while the switch is programming |

The premises are what the code lacks.  `MaxPolls` is no limit of a call whose polls are not
counted.  Signals may interrupt `linux_cmd` without end.  `UpdateIsBounded`
excepts the two conditions under which `switchtec_fw_wait` has no limit of its own: the
switch still programming, and queries answered with errors.  The reading half of `linux_cmd`
has no time-out either, so `ReadsAwaitACommand` matters: whatever has failed, a read is of a descriptor with
a command in it, so the driver will answer.

Only model-checked: the liveness properties themselves (`CallEnds`, `UpdateEnds`,
`CaptureEnds`, `CommandEnds`, `OccurredEndsWait`).  Of the first three, what is left to TLC
is that a call which runs has a step (ENABLED) and takes it (fairness).  Of `CommandEnds`
everything is: its scripts are data, and that a script ends is an induction over it.  Of
`OccurredEndsWait` too: what ends is not a loop but the clock.

## 5. Disagreements met while modelling

Checked as findings: the four runs above.  Further ones, which the models
reproduce when the condition of the property is removed:

* `OwnResponse`: after a timeout the next command is ignored by the busy switch,
  and the poll loop (`gasops.c:157`) finds the status of the one before: 0 with
  the output of another command.  Two processes on one mailbox do the same to
  each other.
* `CriticalOnce`: the comment on the table (`gasops.c:128-139`) says that critical
  commands are sent once, but `gasop_noretry_cmds` ends at `MRPC_DBG_UNLOCK_GEN6`, 0x125.
  `MRPC_DEVICE_CONFIG`, `MRPC_DOK_CONFIG` and `MRPC_SECURE_STATE_SET_GEN6` (0x127 to 0x129,
  sent by `lib/mfg.c`) lie beyond it, and `MRPC_FWDNLD`, whose toggle `lib/fw.c:678`
  sends, is not in it.  Their write is retried: without the exception TLC finds
  `DOK_CONFIG` carried out twice in seven steps.
* A command that ends in ERROR with a `ret_value` of 0 is reported as success
  (`gasops.c:174-176`); `FinishBadly` has the switch give a reason, and `OwnResponse`
  rests on that.
* A write over UART is ended by any write answer with its 8-bit CRC
  (`linux-uart.c:388`): if it was lost, and the answer of a write of other data, different
  by 0x107 at the same address, say, comes late, it returns although the GAS does not hold
  what was written, or its own copy lands after it has returned.  Without `mixed` TLC
  violates `Coherent`, `ReadYourWrites` and `QuietAfterReturn`.
* `AsAsked`: of two concurrent `event_ctl` calls one writes back the enable bits
  it read before the other wrote (`gasops.c:499-524`).
* `uart_gas_read` swaps the address in place (`linux-uart.c:309`) and does not
  swap it back before a retry; after one CRC error another address is read, and
  if that is out of range a valid read returns all ones as success.
* `switchtec_event_wait_for` with a timeout of 0 waits forever
  (`events.c:405, 427`); a second waiter clears an event the first is about to
  check, and the first goes on waiting.
* An empty or truncated image ends the download loop at once, and the call
  returns the status of the download before it, perhaps 0 (`fw.c:859`).
* Two updates without `force` both pass the busy check (`fw.c:792`) and one
  sends its first block into the download of the other; if the other then
  completes, the first may return 0 for it.
* `linux_cmd` looks at `errno` also when its write succeeded (`linux.c:404`): with
  an `EBADE` from before the call, which only a program around the library can
  leave there, the command runs, its answer is thrown away, and it runs again
  (`RunsOnce`).
* A descriptor the driver has cut off is opened again only by the call that
  reads `EIO` itself.  After a signal, a failed reopening or a stale `EBADE` it is
  met by the drain of the next call, which ignores `EIO` and repeats for ever
  (`linux.c:405`; `CallEnds`).
* `eye_status` is read uninitialized when the first status query fails with EIO
  (`diag.c:155`); if it happens to say DONE the reads are tried at once, and
  only the refusal of the switch keeps them from returning data of no capture.
* Two processes that capture at once can read each other's data: the busy check
  and the start are two commands (`diag.c:227-237`; `DataMine`).
* A switch that answers every status query with an error while `bgstatus` is
  INPROGRESS, read or uninitialized, keeps `switchtec_fw_wait` looping.

Met while translating the commands of several steps; `Shell` does what the code
does, and its properties are stated so that they hold for that:

* `loopback` hands the options for PIPE and LTSSM over in the wrong order
  (`cli/diag.c:1834`): with `--ltssm`, documented for Gen 4 and Gen 5
  (`cli/diag.c:1773`), a Gen5 switch gets PIPE on and LTSSM off.
  The translated scripts have the swap; `SettingsAsReported` is stated of `--disable`.
* Gen6 takes the Gen4 path of `switchtec_diag_loopback_set` (`lib/diag.c:640`),
  which ignores `--pipe`, documented for Gen 6; `--parallel` with `--external` sets only the first.
* `fw_toggle` prints what the toggle returned and exits with the result of the
  partition information (`cli/main.c:2267`); in BL2 the key manifest and the
  riotcore are dropped, on Gen6 the riotcore is, and success is printed;
  `toggle_riotcore` is sent uninitialized to the other generations (`lib/fw.c:686`).
* An `fw_update` that is killed leaves the boot partition writable; the results of both
  `switchtec_fw_set_boot_ro` calls are ignored (`cli/main.c:2208`).  A secure version that
  cannot be read counts as not newer (`lib/fw.c:1435`), so the second question is not asked.
* Results above 0 (errors of the switch) pass tests for `ret < 0`: in `bw`
  (`cli/main.c:583`), `evcntr_del`, and `eye_observe_dev` (`cli/diag.c:1301`), where a small
  error is taken for a number of pixels and the buffer is used uninitialized.
* An error in the middle leaves sessions open: the LTSSM log frozen
  (`lib/diag.c:1840`), a topology dump unfinished (`lib/fabric.c:148`), an NVMe
  passthrough without its end (`lib/fabric.c:1626`).  The status of the topology's
  data is ignored (`lib/fabric.c:99`), and an answer of length 0 makes the dump loops endless;
  `Shell` has every answer hold a part.
* `fw_read` of Gen3 to Gen5 reports an error where the image was read, and 0 where the summary
  fails; `log_dump` reports a saved log after an error in the middle
  (`cli/main.c:1113`) and exits with 0 when the definitions cannot be got.
* `gfms_events` exits with the number of events (`cli/fabric.c:1438`); the number
  asked for is not reduced from answer to answer (`lib/fabric.c:1107`).
  `gfms_unbind` sends fields it never set (`cli/fabric.c:208`); the image selected on Gen4 has an
  uninitialized riotcore index (`cli/mfg.c:865`).
* What `crosshair` saves as CSV it cannot load: it writes the right limits
  (`cli/diag.c:934`) where the loader expects the left ones again (`cli/diag.c:1038`).
* The chunks of `gas_mrpc_memcpy_to_gas` all have the bytes of the first
  (`lib/gas_mrpc.c:67`).

## 6. Not modelled, and why

* *Ethernet* (`lib/platform/linux-eth.c`): a call is a send and a receive on a stream
  without identities; after one answer that is late nothing can be promised, and before it
  there is nothing to interleave.  The hazard is listed.
* *Windows* (`lib/platform/windows.c`): the operations of `linux.c` over another driver.
* *GAS by MRPC* (`lib/gas_mrpc.c`), the bits of an event summary, port and PFF numbering,
  CRC, capabilities: pure functions or single commands without order or state.
* *Formats*: arguments, units, progress, tables, CSV, image files, secure settings
  files, keys, the parser of logs, decoding of single answers.  In `Shell` they are `Input`, which
  may succeed or not.
* *Screens* (`cli/gui.c`, `cli/graph.c`, `cli/gas.c`, the curses of eye and cross hair) and resuming
  an eye from a file.
* `list`, `events`, `event_wait` of the CLI: a loop over single commands, or the
  library function that `EventWait` is.
* What `kmsk_entry_add` tests on Gen6, whose answer is longer and of another layout than
  the test expects (`cli/mfg.c:1453`), and multicast.
* Noise on the serial line that leaves the CRC of a command or a write answer right: `UartGas`
  has it noticed.
* Two users of one kernel driver are modelled in `LinuxCmd`; two masters of one I2C bus
  (`lib/platform/linux-i2c.c:373`) are not, since nothing in the code keeps them apart.

A finding has a run of its own only where the document it contradicts is explicit
and the failure takes several steps.
